------------------------ MODULE TokenLedger_proofs ------------------------
(***************************************************************************)
(* The accounting of TokenLedger, for any set of clients that call as its  *)
(* actions do, any amounts and widths, any number of transactions in       *)
(* flight and any order of landing.                                        *)
(***************************************************************************)
EXTENDS TokenLedger, TLAPS

Inv ==
  /\ TypeOK
  /\ SupplyAccounting
  /\ PublishedAccounting
  /\ TransactionsSound

-----------------------------------------------------------------------------
(* The circuits                                                            *)

\* Extending a nonce by a tag gives a nonce.
LEMMA AppendNonce ==
  ASSUME NEW n \in Nonces, NEW i \in Int
  PROVE  Append(n, i) \in Nonces
  BY DEF Nonces

\* A record of the four parts of a coin is a coin.
LEMMA CoinType ==
  ASSUME NEW n \in Nonces, NEW c \in Colors, NEW v \in Nat, NEW o \in Owners
  PROVE  Coin(n, c, v, o) \in Coins
  BY DEF Coin, Coins

\* A transfer by the contract spends and creates coins.
LEMMA SendShieldedType ==
  ASSUME NEW coin \in Coins, NEW target \in Owners,
         NEW value \in Nat, value <= coin.value
  PROVE  LET send == SendShielded(coin, target, value)
         IN  /\ send.spent \in Coins
             /\ send.sent \in Coins
             /\ send.change \subseteq Coins
<1>1. /\ coin.nonce \in Nonces /\ coin.color \in Colors
      /\ coin.value \in Nat /\ coin.owner \in Owners
  BY DEF Coins
<1>2. Self \in Owners
  BY DEF Owners
<1>3. [coin EXCEPT !.owner = Self] \in Coins
  BY <1>2 DEF Coins
<1>4. Coin(SentNonce(coin.nonce), coin.color, value, target) \in Coins
  BY <1>1, AppendNonce, CoinType DEF SentNonce, SentTag
<1>5. coin.value - value \in Nat
  BY <1>1
<1>6. Coin(ChangeNonce(coin.nonce), coin.color, coin.value - value, Self) \in Coins
  BY <1>1, <1>2, <1>5, AppendNonce, CoinType DEF ChangeNonce, ChangeTag
<1>. QED
  BY <1>3, <1>4, <1>6 DEF SendShielded, Received

\* A burn's transcript creates coins only.
LEMMA BurnType ==
  ASSUME NEW s, NEW caller \in Clients, NEW coin \in Coins, NEW amount \in Nat,
         amount <= coin.value
  PROVE  LET call == Burn(s, caller, coin, amount)
         IN  call.transients \subseteq Coins /\ call.outputs \subseteq Coins
<1>. DEFINE burned   == SendShielded(coin, ZeroKey, amount)
            returned == {SendShielded(c, caller, c.value) : c \in burned.change}
<1>1. /\ burned.spent \in Coins
      /\ burned.sent \in Coins
      /\ burned.change \subseteq Coins
  BY SendShieldedType DEF Owners
<1>2. \A r \in returned : r.spent \in Coins /\ r.sent \in Coins
  <2>1. SUFFICES ASSUME NEW c \in burned.change
                 PROVE  LET r == SendShielded(c, caller, c.value)
                        IN  r.spent \in Coins /\ r.sent \in Coins
    OBVIOUS
  <2>2. c \in Coins /\ c.value \in Nat /\ c.value <= c.value
    BY <1>1, <2>1 DEF Coins
  <2>. QED
    BY <2>2, SendShieldedType DEF Owners
<1>. QED
  BY <1>1, <1>2 DEF Burn

-----------------------------------------------------------------------------
(* The constructions: each builds a transaction that is typed and whose    *)
(* accounting effect is fixed by what it asserts.                          *)

\* Change the wallet gives itself is made of coins.
LEMMA WalletChangeType ==
  ASSUME NEW inputs, inputs \subseteq Coins, NEW value \in Nat
  PROVE  WalletChange(inputs, value) \subseteq Coins
<1>1. SUFFICES ASSUME NEW c \in inputs, c.value > value
               PROVE  WalletCoin(WalletTag, c, c.value - value, c.owner) \in Coins
  BY DEF WalletChange
<1>2. /\ c.nonce \in Nonces /\ c.color \in Colors
      /\ c.value \in Nat /\ c.owner \in Owners
  BY DEF Coins
<1>3. c.value - value \in Nat
  BY <1>1, <1>2
<1>. QED
  BY <1>2, <1>3, AppendNonce, CoinType DEF WalletCoin, WalletTag

\* Submitting a sound transaction preserves the invariant.
LEMMA SubmitSound ==
  ASSUME Inv, NEW tx, TxOK(tx), InFlightOK(tx), Submit(tx)
  PROVE  Inv'
<1>. USE DEF Inv, Submit
<1>1. TypeOK'
  BY DEF TypeOK, TxOK, StorableOK
<1>2. SupplyAccounting' /\ PublishedAccounting'
  BY DEF SupplyAccounting, PublishedAccounting, Minted
<1>3. TransactionsSound'
  BY DEF TransactionsSound, InFlightOK, BarredForGood, Nullifiers
<1>. QED
  BY <1>1, <1>2, <1>3

\* A mint transaction is sound.
LEMMA CallMintSound == ASSUME Inv, CallMint PROVE Inv'
<1>1. PICK recipient \in Recipients, amount \in Amounts :
        /\ MintSucceeds(ledger, recipient, amount)
        /\ Submit(ContractTx(MintKind(recipient), amount,
                             Mint(ledger, recipient, amount), {}, {}))
  BY DEF CallMint
<1>. DEFINE tx == ContractTx(MintKind(recipient), amount,
                             Mint(ledger, recipient, amount), {}, {})
<1>2. /\ ledger \in Ledgers
      /\ ledger.counter + 1 \in Nat
      /\ ledger.totalSupply + amount \in 0 .. MaxUint128
      /\ amount \in Nat
  BY <1>1, WidthAssumption, ArgumentsAssumption
  DEF Inv, TypeOK, Ledgers, MintSucceeds
<1>3. EvolveNonce(ledger.counter + 1, ledger.nonce) \in Nonces
  BY <1>2, AppendNonce DEF EvolveNonce, Ledgers
<1>4. OwnerOf(recipient) \in Owners
  BY ArgumentsAssumption DEF OwnerOf, Either, Owners
<1>5. Coin(EvolveNonce(ledger.counter + 1, ledger.nonce), TokenColor, amount,
           OwnerOf(recipient)) \in Coins
  BY <1>2, <1>3, <1>4, CoinType DEF Colors
<1>6. TxOK(tx)
  BY <1>2, <1>3, <1>5
  DEF TxOK, StorableOK, ContractTx, Mint, MintedCoin, MintKind, Kinds, Ledgers
<1>7. InFlightOK(tx)
  BY <1>2 DEF InFlightOK, ContractTx, Mint, MintKind, MintKinds, Cells, Ledgers
<1>. QED
  BY <1>1, <1>6, <1>7, SubmitSound

\* A burn transaction is sound.
LEMMA CallBurnSound == ASSUME Inv, CallBurn PROVE Inv'
<1>0. PICK client \in Clients, amount \in Amounts :
        \E coin \in CoinArguments(client) :
          /\ BurnSucceeds(ledger, coin, amount)
          /\ \E inputs \in Funding(client, coin.color, coin.value) :
               Submit(ContractTx("burn", amount, Burn(ledger, client, coin, amount),
                                 inputs, WalletChange(inputs, coin.value)))
  BY DEF CallBurn
<1>1. PICK coin \in CoinArguments(client) :
        /\ BurnSucceeds(ledger, coin, amount)
        /\ \E inputs \in Funding(client, coin.color, coin.value) :
             Submit(ContractTx("burn", amount, Burn(ledger, client, coin, amount),
                               inputs, WalletChange(inputs, coin.value)))
  BY <1>0
<1>2. PICK inputs \in Funding(client, coin.color, coin.value) :
        Submit(ContractTx("burn", amount, Burn(ledger, client, coin, amount),
                          inputs, WalletChange(inputs, coin.value)))
  BY <1>1
<1>. DEFINE call == Burn(ledger, client, coin, amount)
            tx == ContractTx("burn", amount, call, inputs,
                             WalletChange(inputs, coin.value))
<1>3. /\ ledger \in Ledgers
      /\ coin \in Coins
      /\ coin.value \in Nat
      /\ amount \in Nat
      /\ amount <= coin.value
  BY <1>1, ArgumentsAssumption
  DEF Inv, TypeOK, CoinArguments, BurnSucceeds, Coins
<1>4. inputs \subseteq Coins
  BY DEF Funding, Inv, TypeOK
<1>5. call.transients \subseteq Coins /\ call.outputs \subseteq Coins
  BY <1>3, BurnType
<1>6. WalletChange(inputs, coin.value) \subseteq Coins
  BY <1>3, <1>4, WalletChangeType
<1>7. ledger.totalSupply - amount \in 0 .. MaxUint128
  BY <1>1, <1>3, WidthAssumption DEF BurnSucceeds, Ledgers
<1>8. TxOK(tx)
  <2>1. StorableOK(tx.writes)
    BY <1>7 DEF StorableOK, ContractTx, Burn
  <2>2. tx.outputs \subseteq Coins
    BY <1>5, <1>6 DEF ContractTx
  <2>3. tx.delta \in Int /\ tx.kind \in Kinds
    BY DEF ContractTx, Burn, Kinds
  <2>. QED
    BY <1>3, <1>4, <1>5, <2>1, <2>2, <2>3 DEF TxOK, ContractTx
<1>9. InFlightOK(tx)
  <2>1. Nullifiers(tx) # {}
    BY DEF Nullifiers, ContractTx, Burn
  <2>2. /\ tx.reads = [color |-> ledger.color, totalSupply |-> ledger.totalSupply]
        /\ tx.writes = [totalSupply |-> ledger.totalSupply - amount]
        /\ tx.amount = amount
        /\ tx.kind = "burn"
    BY DEF ContractTx, Burn
  <2>3. call.mints = 0
    BY DEF Burn
  <2>4. tx.delta = 0 - call.mints
    BY DEF ContractTx
  <2>5. tx.delta = 0
    BY <2>3, <2>4
  <2>6. /\ "totalSupply" \in DOMAIN tx.reads
        /\ DOMAIN tx.writes = {"totalSupply"}
        /\ tx.writes.totalSupply = tx.reads.totalSupply - tx.amount
    BY <2>2
  <2>. HIDE DEF tx
  <2>. QED
    BY <2>1, <2>2, <2>5, <2>6 DEF InFlightOK, MintKinds
<1>. QED
  BY <1>2, <1>8, <1>9, SubmitSound

\* A hidden burn is sound.
LEMMA HiddenBurnSound == ASSUME Inv, HiddenBurn PROVE Inv'
<1>1. PICK client \in Clients, amount \in Amounts \ {0} :
        \E inputs \in Funding(client, TokenColor, amount) :
          Submit(WalletTx("hidden-burn", amount, inputs,
                   { WalletCoin(HiddenTag, c, amount, ZeroKey) : c \in inputs }
                     \cup WalletChange(inputs, amount), 0))
  BY DEF HiddenBurn
<1>2. PICK inputs \in Funding(client, TokenColor, amount) :
        Submit(WalletTx("hidden-burn", amount, inputs,
                 { WalletCoin(HiddenTag, c, amount, ZeroKey) : c \in inputs }
                   \cup WalletChange(inputs, amount), 0))
  BY <1>1
<1>. DEFINE sent == { WalletCoin(HiddenTag, c, amount, ZeroKey) : c \in inputs }
            tx == WalletTx("hidden-burn", amount, inputs,
                           sent \cup WalletChange(inputs, amount), 0)
<1>3. amount \in Nat /\ amount # 0
  BY ArgumentsAssumption
<1>4. inputs \subseteq Coins /\ inputs # {}
  BY <1>3 DEF Funding, Inv, TypeOK
<1>5. sent \subseteq Coins
  <2>1. SUFFICES ASSUME NEW c \in inputs
                 PROVE  WalletCoin(HiddenTag, c, amount, ZeroKey) \in Coins
    OBVIOUS
  <2>2. c.nonce \in Nonces /\ c.color \in Colors
    BY <1>4 DEF Coins
  <2>. QED
    BY <1>3, <2>2, AppendNonce, CoinType DEF WalletCoin, HiddenTag, Owners
<1>6. WalletChange(inputs, amount) \subseteq Coins
  BY <1>3, <1>4, WalletChangeType
<1>7. TxOK(tx)
  BY <1>3, <1>4, <1>5, <1>6 DEF TxOK, StorableOK, WalletTx, NoCells, Kinds
<1>8. InFlightOK(tx)
  BY <1>4 DEF InFlightOK, WalletTx, NoCells, MintKinds, Nullifiers
<1>. QED
  BY <1>2, <1>7, <1>8, SubmitSound

\* A protocol burn is sound.
LEMMA ProtocolBurnSound == ASSUME Inv, ProtocolBurn PROVE Inv'
<1>1. PICK coin \in pool :
        Submit(WalletTx("protocol-burn", coin.value, {coin}, {}, coin.value))
  BY DEF ProtocolBurn
<1>. DEFINE tx == WalletTx("protocol-burn", coin.value, {coin}, {}, coin.value)
<1>2. coin \in Coins /\ coin.value \in Nat
  BY DEF Inv, TypeOK, Coins
<1>3. TxOK(tx)
  BY <1>2 DEF TxOK, StorableOK, WalletTx, NoCells, Kinds
<1>4. InFlightOK(tx)
  BY DEF InFlightOK, WalletTx, NoCells, MintKinds, Nullifiers
<1>. QED
  BY <1>1, <1>3, <1>4, SubmitSound

-----------------------------------------------------------------------------
(* The node                                                                *)

\* Stored keeps what a transcript does not write and stores the rest, so the
\* cells keep their types.
LEMMA StoredType ==
  ASSUME Inv, NEW tx \in pending
  PROVE  Stored(tx) \in Ledgers
<1>1. StorableOK(tx.writes) /\ ledger \in Ledgers
  BY DEF Inv, TypeOK, TxOK
<1>2. Stored(tx) =
        [ counter     |-> Stored(tx).counter,
          nonce       |-> Stored(tx).nonce,
          color       |-> Stored(tx).color,
          totalSupply |-> Stored(tx).totalSupply ]
  BY DEF Stored, Cells
<1>3. /\ Stored(tx).counter \in Nat
      /\ Stored(tx).nonce \in Nonces
      /\ Stored(tx).color \in {ZeroColor, TokenColor}
      /\ Stored(tx).totalSupply \in 0 .. MaxUint128
  BY <1>1 DEF Stored, Cells, StorableOK, Ledgers
<1>. QED
  BY <1>2, <1>3 DEF Ledgers

\* Landing a valid transaction keeps both accountings: the cells it overwrites
\* still hold what the circuit read.
LEMMA LandSound == ASSUME Inv, Land PROVE Inv'
<1>1. PICK tx \in pending :
        /\ Valid(tx)
        /\ ledger' = Stored(tx)
        /\ pool' = (pool \ tx.inputs) \cup tx.outputs
        /\ spent' = spent \cup Nullifiers(tx)
        /\ pending' = pending \ {tx}
        /\ applied' = applied \cup {tx}
        /\ published' = published - tx.delta
        /\ tally' = [tally EXCEPT ![tx.kind] = @ + tx.amount]
  BY DEF Land
<1>2. /\ TypeOK
      /\ TxOK(tx)
      /\ InFlightOK(tx)
      /\ ReadsMatch(tx)
      /\ tx.amount \in Nat /\ tx.kind \in Kinds
  BY <1>1 DEF Inv, TypeOK, TxOK, TransactionsSound, Valid
<1>3. TypeOK'
  <2>1. ledger' \in Ledgers
    BY <1>1, StoredType
  <2>2. pool' \subseteq Coins /\ spent' \subseteq Coins
    BY <1>1, <1>2 DEF TypeOK, TxOK, Nullifiers
  <2>3. published' \in Int /\ tally' \in [Kinds -> Nat]
    BY <1>1, <1>2 DEF TypeOK, TxOK
  <2>4. \A t \in pending' : TxOK(t)'
    BY <1>1, <1>2 DEF TypeOK, TxOK, StorableOK
  <2>. QED
    BY <2>1, <2>2, <2>3, <2>4 DEF TypeOK
<1>4. /\ tx.kind \in MintKinds =>
           /\ ledger'.totalSupply = ledger.totalSupply + tx.amount
           /\ published' = published + tx.amount
      /\ tx.kind = "burn" =>
           /\ ledger'.totalSupply = ledger.totalSupply - tx.amount
           /\ published' = published
      /\ tx.kind \in {"hidden-burn", "protocol-burn"} =>
           ledger'.totalSupply = ledger.totalSupply
      /\ tx.kind = "hidden-burn" => published' = published
      /\ tx.kind = "protocol-burn" => published' = published - tx.amount
  BY <1>1, <1>2 DEF InFlightOK, ReadsMatch, Stored, Cells, TypeOK
<1>5. SupplyAccounting' /\ PublishedAccounting'
  <2>1. /\ tally \in [Kinds -> Nat]
        /\ \A k \in Kinds :
             tally'[k] = IF k = tx.kind THEN tally[k] + tx.amount ELSE tally[k]
    BY <1>1, <1>2 DEF TypeOK
  <2>2. /\ ledger.totalSupply \in Int
        /\ published \in Int
        /\ SupplyAccounting
        /\ PublishedAccounting
    BY <1>2 DEF Inv, TypeOK, Ledgers
  <2>. QED
    BY <1>2, <1>4, <2>1, <2>2
    DEF SupplyAccounting, PublishedAccounting, Minted, Kinds, MintKinds
<1>6. TransactionsSound'
  <2>1. \A t \in pending' : InFlightOK(t)'
    BY <1>1 DEF Inv, TransactionsSound, InFlightOK, Nullifiers
  <2>2. ledger'.counter \in Nat /\ ledger.counter \in Nat
        /\ ledger'.counter >= ledger.counter
    BY <1>1, <1>2, StoredType
    DEF InFlightOK, ReadsMatch, Stored, Cells, TypeOK, Ledgers, Kinds, MintKinds
  <2>3. ASSUME NEW t \in applied PROVE BarredForGood(t)'
    BY <1>1, <2>2 DEF Inv, TransactionsSound, BarredForGood, Nullifiers
  <2>4. BarredForGood(tx)'
    <3>1. CASE tx.kind \in MintKinds
      BY <1>1, <1>2, <3>1, <2>2
      DEF BarredForGood, InFlightOK, ReadsMatch, Stored, Cells
    <3>2. CASE tx.kind \notin MintKinds
      BY <1>1, <1>2, <3>2 DEF BarredForGood, InFlightOK, Nullifiers
    <3>. QED
      BY <3>1, <3>2
  <2>. QED
    BY <1>1, <2>1, <2>3, <2>4 DEF TransactionsSound
<1>. QED
  BY <1>3, <1>5, <1>6 DEF Inv

\* Discarding a transaction leaves everything it would have changed alone.
LEMMA DiscardSound == ASSUME Inv, Reject \/ Expire PROVE Inv'
<1>1. /\ pending' \subseteq pending
      /\ UNCHANGED <<ledger, pool, spent, applied, published, tally>>
  BY DEF Reject, Expire
<1>2. TypeOK'
  BY <1>1 DEF Inv, TypeOK, TxOK, StorableOK
<1>3. SupplyAccounting' /\ PublishedAccounting'
  BY <1>1 DEF Inv, SupplyAccounting, PublishedAccounting, Minted
<1>4. TransactionsSound'
  BY <1>1 DEF Inv, TransactionsSound, InFlightOK, BarredForGood, Nullifiers
<1>. QED
  BY <1>2, <1>3, <1>4 DEF Inv

-----------------------------------------------------------------------------
(* The theorems                                                            *)

\* The invariant holds of the deployed contract.
LEMMA InitSound == Init => Inv
<1>. SUFFICES ASSUME Init PROVE Inv
  OBVIOUS
<1>1. TypeOK
  <2>1. InitialCoins \subseteq Coins
    BY ArgumentsAssumption DEF Coins, Colors, Owners
  <2>2. ledger \in Ledgers
    BY ArgumentsAssumption, WidthAssumption DEF Init, InitialLedger, Ledgers
  <2>. QED
    BY <2>1, <2>2 DEF Init, TypeOK
<1>2. SupplyAccounting /\ PublishedAccounting
  BY DEF Init, InitialLedger, SupplyAccounting, PublishedAccounting, Minted, Kinds
<1>3. TransactionsSound
  BY DEF Init, TransactionsSound
<1>. QED
  BY <1>1, <1>2, <1>3 DEF Inv

\* Every step preserves the invariant.
LEMMA NextSound == Inv /\ [Next]_vars => Inv'
<1>. SUFFICES ASSUME Inv, [Next]_vars PROVE Inv'
  OBVIOUS
<1>1. CASE CallMint
  BY <1>1, CallMintSound
<1>2. CASE CallBurn
  BY <1>2, CallBurnSound
<1>3. CASE HiddenBurn
  BY <1>3, HiddenBurnSound
<1>4. CASE ProtocolBurn
  BY <1>4, ProtocolBurnSound
<1>5. CASE Land
  BY <1>5, LandSound
<1>6. CASE Reject \/ Expire
  BY <1>6, DiscardSound
<1>7. CASE UNCHANGED vars
  <2>1. TypeOK'
    BY <1>7 DEF Inv, vars, TypeOK, TxOK, StorableOK
  <2>2. SupplyAccounting' /\ PublishedAccounting'
    BY <1>7 DEF Inv, vars, SupplyAccounting, PublishedAccounting, Minted
  <2>3. TransactionsSound'
    BY <1>7 DEF Inv, vars, TransactionsSound, InFlightOK, BarredForGood, Nullifiers
  <2>. QED
    BY <2>1, <2>2, <2>3 DEF Inv
<1>. QED
  BY <1>1, <1>2, <1>3, <1>4, <1>5, <1>6, <1>7 DEF Next

\* The invariant holds throughout.
THEOREM Invariance == Spec => []Inv
  BY InitSound, NextSound, PTL DEF Spec

\* Every cell keeps its width and every pooled or spent coin is well formed,
\* whatever lands in whatever order.
THEOREM TypeCorrect == Spec => []TypeOK
<1>1. Inv => TypeOK
  BY DEF Inv
<1>. QED
  BY <1>1, Invariance, PTL

\* _totalSupply is what was minted less what was burned through the contract:
\* no concurrent update is lost, for any number of callers.
THEOREM SupplyIsExact == Spec => []SupplyAccounting
<1>1. Inv => SupplyAccounting
  BY DEF Inv
<1>. QED
  BY <1>1, Invariance, PTL

\* The folded deltas are what was minted less what protocol burns destroyed.
THEOREM FoldIsExact == Spec => []PublishedAccounting
<1>1. Inv => PublishedAccounting
  BY DEF Inv
<1>. QED
  BY <1>1, Invariance, PTL

\* A transaction lands at most once, however often it is delivered.
THEOREM LandsAtMostOnce == Spec => []NothingLandsTwice
<1>1. Inv => NothingLandsTwice
  <2>1. SUFFICES ASSUME Inv, NEW tx \in applied PROVE ~Valid(tx)
    BY DEF NothingLandsTwice
  <2>2. ledger.counter \in Nat /\ BarredForGood(tx)
    BY <2>1 DEF Inv, TypeOK, Ledgers, TransactionsSound
  <2>. QED
    BY <2>2 DEF BarredForGood, Valid, ReadsMatch
<1>. QED
  BY <1>1, Invariance, PTL

\* Every submitted transaction is one of the four constructions, and every landed
\* one is barred for good.
THEOREM TransactionsAreSound == Spec => []TransactionsSound
<1>1. Inv => TransactionsSound
  BY DEF Inv
<1>. QED
  BY <1>1, Invariance, PTL

-----------------------------------------------------------------------------
(* Where coins come from                                                   *)

\* A coin another coin was spent for, by the contract or by a wallet.
Derived(c) == LastTag(c.nonce) \in {SentTag, WalletTag, HiddenTag}

\* A coin of a mint whose zero test has passed.
MintedTo(c) ==
  /\ LastTag(c.nonce) \in Nat
  /\ \E r \in Recipients : ~IsKeyOrAddressZero(r) /\ c.owner = OwnerOf(r)

Origin(c) == Derived(c) \/ MintedTo(c) \/ c \in InitialCoins

\* The change of sendShielded has none of these origins, neither in the pool nor
\* in a transaction that may still land.
OriginInv ==
  /\ \A c \in pool : Origin(c)
  /\ \A tx \in pending : \A c \in tx.outputs : Origin(c)

\* A derived nonce ends in its tag.
LEMMA TagOfAppend ==
  ASSUME NEW n \in Nonces, NEW i \in Int
  PROVE  LastTag(Append(n, i)) = i
  BY DEF Nonces, LastTag

\* What a transfer by the contract sends is derived.
LEMMA SentIsDerived ==
  ASSUME NEW coin, coin.nonce \in Nonces, NEW target, NEW value
  PROVE  Derived(SendShielded(coin, target, value).sent)
<1>1. SendShielded(coin, target, value).sent.nonce = Append(coin.nonce, SentTag)
  BY DEF SendShielded, Coin, SentNonce
<1>2. SentTag \in Int
  BY DEF SentTag
<1>. QED
  BY <1>1, <1>2, TagOfAppend DEF Derived

\* Everything burn creates is derived: what it sends to the zero key, and the
\* change it sends on to the caller.
LEMMA BurnIsDerived ==
  ASSUME NEW s, NEW caller, NEW coin \in Coins, NEW amount,
         NEW c \in Burn(s, caller, coin, amount).outputs
  PROVE  Derived(c)
<1>. DEFINE burned   == SendShielded(coin, ZeroKey, amount)
            returned == {SendShielded(d, caller, d.value) : d \in burned.change}
<1>1. coin.nonce \in Nonces
  BY DEF Coins
<1>2. c \in {burned.sent} \cup {r.sent : r \in returned}
  BY DEF Burn
<1>3. CASE c = burned.sent
  BY <1>1, <1>3, SentIsDerived
<1>4. CASE c \in {r.sent : r \in returned}
  <2>1. PICK d \in burned.change : c = SendShielded(d, caller, d.value).sent
    BY <1>4
  <2>2. d.nonce = Append(coin.nonce, ChangeTag)
    BY DEF SendShielded, Coin, ChangeNonce
  <2>3. d.nonce \in Nonces
    BY <1>1, <2>2, AppendNonce DEF ChangeTag
  <2>. QED
    BY <2>1, <2>3, SentIsDerived
<1>. QED
  BY <1>2, <1>3, <1>4

\* What a wallet gives itself back is derived.
LEMMA ChangeIsDerived ==
  ASSUME NEW inputs, inputs \subseteq Coins, NEW value,
         NEW c \in WalletChange(inputs, value)
  PROVE  Derived(c)
<1>1. PICK d \in inputs : c = WalletCoin(WalletTag, d, d.value - value, d.owner)
  BY DEF WalletChange
<1>2. d.nonce \in Nonces /\ c.nonce = Append(d.nonce, WalletTag)
  BY <1>1 DEF Coins, WalletCoin, Coin
<1>3. WalletTag \in Int
  BY DEF WalletTag
<1>. QED
  BY <1>2, <1>3, TagOfAppend DEF Derived

\* A submission whose outputs have an origin keeps the invariant.
LEMMA SubmitOrigin ==
  ASSUME OriginInv, NEW tx, Submit(tx), \A c \in tx.outputs : Origin(c)
  PROVE  OriginInv'
  BY DEF OriginInv, Submit, Origin, Derived, MintedTo

\* The coin of a mint has passed the zero test.
LEMMA CallMintOrigin == ASSUME Inv, OriginInv, CallMint PROVE OriginInv'
<1>1. PICK recipient \in Recipients, amount \in Amounts :
        /\ MintSucceeds(ledger, recipient, amount)
        /\ Submit(ContractTx(MintKind(recipient), amount,
                             Mint(ledger, recipient, amount), {}, {}))
  BY DEF CallMint
<1>. DEFINE tx == ContractTx(MintKind(recipient), amount,
                             Mint(ledger, recipient, amount), {}, {})
            coin == Coin(Append(ledger.nonce, ledger.counter + 1), TokenColor, amount,
                         OwnerOf(recipient))
<1>2. tx.outputs = {coin}
  BY DEF ContractTx, Mint, MintedCoin, EvolveNonce
<1>3. ledger.nonce \in Nonces /\ ledger.counter + 1 \in Nat
  BY DEF Inv, TypeOK, Ledgers
<1>4. LastTag(coin.nonce) = ledger.counter + 1
  BY <1>3, TagOfAppend DEF Coin
<1>5. coin.owner = OwnerOf(recipient)
  BY DEF Coin
<1>6. MintedTo(coin)
  BY <1>1, <1>3, <1>4, <1>5 DEF MintedTo, MintSucceeds
<1>. QED
  BY <1>1, <1>2, <1>6, SubmitOrigin DEF Origin

\* A burn creates derived coins only.
LEMMA CallBurnOrigin == ASSUME Inv, OriginInv, CallBurn PROVE OriginInv'
<1>1. PICK client \in Clients, amount \in Amounts :
        \E coin \in CoinArguments(client) :
          \E inputs \in Funding(client, coin.color, coin.value) :
            Submit(ContractTx("burn", amount, Burn(ledger, client, coin, amount),
                              inputs, WalletChange(inputs, coin.value)))
  BY DEF CallBurn
<1>2. PICK coin \in CoinArguments(client) :
        \E inputs \in Funding(client, coin.color, coin.value) :
          Submit(ContractTx("burn", amount, Burn(ledger, client, coin, amount),
                            inputs, WalletChange(inputs, coin.value)))
  BY <1>1
<1>3. PICK inputs \in Funding(client, coin.color, coin.value) :
        Submit(ContractTx("burn", amount, Burn(ledger, client, coin, amount),
                          inputs, WalletChange(inputs, coin.value)))
  BY <1>2
<1>. DEFINE call == Burn(ledger, client, coin, amount)
            change == WalletChange(inputs, coin.value)
            tx == ContractTx("burn", amount, call, inputs, change)
<1>4. coin \in Coins /\ inputs \subseteq Coins
  BY DEF Inv, TypeOK, CoinArguments, Funding
<1>5. tx.outputs = call.outputs \cup change
  BY DEF ContractTx
<1>6. \A c \in tx.outputs : Derived(c)
  BY <1>4, <1>5, BurnIsDerived, ChangeIsDerived
<1>. HIDE DEF tx
<1>7. Submit(tx)
  BY <1>3 DEF tx
<1>. QED
  BY <1>6, <1>7, SubmitOrigin DEF Origin

\* So does a hidden burn, and a protocol burn creates none.
LEMMA WalletBurnOrigin ==
  ASSUME Inv, OriginInv, HiddenBurn \/ ProtocolBurn PROVE OriginInv'
<1>1. CASE HiddenBurn
  <2>1. PICK client \in Clients, amount \in Amounts \ {0} :
          \E inputs \in Funding(client, TokenColor, amount) :
            Submit(WalletTx("hidden-burn", amount, inputs,
                     { WalletCoin(HiddenTag, c, amount, ZeroKey) : c \in inputs }
                       \cup WalletChange(inputs, amount), 0))
    BY <1>1 DEF HiddenBurn
  <2>2. PICK inputs \in Funding(client, TokenColor, amount) :
          Submit(WalletTx("hidden-burn", amount, inputs,
                   { WalletCoin(HiddenTag, c, amount, ZeroKey) : c \in inputs }
                     \cup WalletChange(inputs, amount), 0))
    BY <2>1
  <2>. DEFINE sent == { WalletCoin(HiddenTag, c, amount, ZeroKey) : c \in inputs }
              tx == WalletTx("hidden-burn", amount, inputs,
                             sent \cup WalletChange(inputs, amount), 0)
  <2>3. inputs \subseteq Coins
    BY DEF Inv, TypeOK, Funding
  <2>4. ASSUME NEW c \in sent PROVE Derived(c)
    <3>1. PICK d \in inputs : c = WalletCoin(HiddenTag, d, amount, ZeroKey)
      BY <2>4
    <3>2. d.nonce \in Nonces /\ c.nonce = Append(d.nonce, HiddenTag)
      BY <2>3, <3>1 DEF Coins, WalletCoin, Coin
    <3>3. HiddenTag \in Int
      BY DEF HiddenTag
    <3>. QED
      BY <3>2, <3>3, TagOfAppend DEF Derived
  <2>5. tx.outputs = sent \cup WalletChange(inputs, amount)
    BY DEF WalletTx
  <2>6. \A c \in tx.outputs : Derived(c)
    BY <2>3, <2>4, <2>5, ChangeIsDerived
  <2>. HIDE DEF tx
  <2>7. Submit(tx)
    BY <2>2 DEF tx
  <2>. QED
    BY <2>6, <2>7, SubmitOrigin DEF Origin
<1>2. CASE ProtocolBurn
  <2>1. PICK coin \in pool :
          Submit(WalletTx("protocol-burn", coin.value, {coin}, {}, coin.value))
    BY <1>2 DEF ProtocolBurn
  <2>2. WalletTx("protocol-burn", coin.value, {coin}, {}, coin.value).outputs = {}
    BY DEF WalletTx
  <2>. QED
    BY <2>1, <2>2, SubmitOrigin
<1>. QED
  BY <1>1, <1>2

\* In every reachable state every coin has one of the three origins.
THEOREM CoinsHaveOrigin == Spec => []OriginInv
<1>1. Init => OriginInv
  BY DEF Init, OriginInv, Origin
<1>2. Inv /\ OriginInv /\ [Next]_vars => OriginInv'
  <2>. SUFFICES ASSUME Inv, OriginInv, [Next]_vars PROVE OriginInv'
    OBVIOUS
  <2>1. CASE CallMint
    BY <2>1, CallMintOrigin
  <2>2. CASE CallBurn
    BY <2>2, CallBurnOrigin
  <2>3. CASE HiddenBurn \/ ProtocolBurn
    BY <2>3, WalletBurnOrigin
  <2>4. CASE Land
    BY <2>4 DEF Land, OriginInv, Origin, Derived, MintedTo
  <2>5. CASE Reject \/ Expire \/ UNCHANGED vars
    BY <2>5 DEF Reject, Expire, vars, OriginInv, Origin, Derived, MintedTo
  <2>. QED
    BY <2>1, <2>2, <2>3, <2>4, <2>5 DEF Next
<1>. QED
  BY <1>1, <1>2, Invariance, PTL DEF Spec

\* When no coin from elsewhere carries the tag, none in the pool is change that
\* burn has left with the contract.
THEOREM ChangeNeverStays ==
  ASSUME \A c \in InitialCoins : LastTag(c.nonce) # ChangeTag
  PROVE  Spec => []ChangeIsPassedOn
<1>1. OriginInv => ChangeIsPassedOn
  BY DEF OriginInv, Origin, Derived, MintedTo, ChangeIsPassedOn, ChangeTag, SentTag,
     WalletTag, HiddenTag
<1>. QED
  BY <1>1, CoinsHaveOrigin, PTL

\* When mint is called with recipients whose inactive branch is zero, which is
\* what the client constructs, every minted coin has an owner.
THEOREM MintsReachOwners ==
  ASSUME \A r \in Recipients : \/ r.is_left /\ r = Left(r.left)
                               \/ ~r.is_left /\ r = Right(r.right)
  PROVE  Spec => []MintReachesAnOwner
<1>1. ASSUME OriginInv, NEW c \in pool, c.owner \in {ZeroKey, ZeroAddress}
      PROVE  LastTag(c.nonce) < 0
  <2>1. c \notin InitialCoins
    BY <1>1, ArgumentsAssumption, PartiesAssumption
  <2>2. ~MintedTo(c)
    <3>1. SUFFICES ASSUME NEW r \in Recipients, ~IsKeyOrAddressZero(r),
                          c.owner = OwnerOf(r)
                   PROVE  FALSE
      BY DEF MintedTo
    <3>2. r \in Either
      BY ArgumentsAssumption
    <3>. QED
      BY <1>1, <3>1, <3>2, PartiesAssumption
      DEF IsKeyOrAddressZero, OwnerOf, Left, Right, Either
  <2>3. Derived(c)
    BY <1>1, <2>1, <2>2 DEF OriginInv, Origin
  <2>. QED
    BY <2>3 DEF Derived, SentTag, WalletTag, HiddenTag
<1>2. OriginInv => MintReachesAnOwner
  BY <1>1 DEF MintReachesAnOwner
<1>. QED
  BY <1>2, CoinsHaveOrigin, PTL
=============================================================================
