------------------------ MODULE NoSupplyToken_proofs ------------------------
(***************************************************************************)
(* What the token without a _totalSupply cell gains and what it loses, for *)
(* any set of clients that call as TokenLedger's actions do, any amounts   *)
(* and widths, any number of transactions in flight and any order of       *)
(* landing.                                                                *)
(***************************************************************************)
EXTENDS NoSupplyToken, TokenSupply_proofs

\* A mint asserts and advances the counter and leaves the token's color behind;
\* a burn asserts the color, stores nothing and uses a nullifier.
UncountedOK(tx) ==
  /\ tx.kind \in MintKinds \cup {"burn"}
  /\ tx.kind \in MintKinds =>
       /\ {"counter", "color"} \subseteq DOMAIN tx.reads
       /\ {"counter", "color"} \subseteq DOMAIN tx.writes
       /\ tx.writes.counter = tx.reads.counter + 1
       /\ tx.writes.color = TokenColor
  /\ tx.kind = "burn" =>
       /\ DOMAIN tx.reads = {"color"}
       /\ DOMAIN tx.writes = {}
       /\ Nullifiers(tx) # {}

UncountedSound ==
  /\ \A tx \in pending : UncountedOK(tx)
  /\ \A tx \in applied : BarredForGood(tx)

UncountedInv == TypeOK /\ UncountedSound

\* A mint issues what its delta shows; a burn moves coins of the color it asserts,
\* which need not be the token's, and shows nothing.
UncountedBalanced(tx) ==
  IF tx.kind \in MintKinds
    THEN Issues(tx) /\ tx.delta = 0 - tx.amount
    ELSE /\ tx.delta = 0
         /\ \E client \in Clients : MovesFor(tx, tx.reads.color, client)

UncountedSupplyInv ==
  /\ ApartInv
  /\ IsFiniteSet(pool)
  /\ \A tx \in pending : UncountedBalanced(tx)

-----------------------------------------------------------------------------
(* The circuits                                                            *)

\* Without the cell a burn still creates coins only: its coins are those of the
\* burn that counts.
LEMMA BurnUncountedType ==
  ASSUME NEW s, NEW caller \in Clients, NEW coin \in Coins, NEW amount \in Nat,
         amount <= coin.value
  PROVE  LET call == BurnUncounted(s, caller, coin, amount)
         IN  call.transients \subseteq Coins /\ call.outputs \subseteq Coins
<1>1. /\ BurnUncounted(s, caller, coin, amount).transients =
           Burn(s, caller, coin, amount).transients
      /\ BurnUncounted(s, caller, coin, amount).outputs =
           Burn(s, caller, coin, amount).outputs
  BY DEF BurnUncounted, Burn
<1>. QED
  BY <1>1, BurnType

\* Two coins of different nonces are two coins.
LEMMA TwoCoins ==
  ASSUME NEW c, NEW d, c.nonce # d.nonce
  PROVE  Cardinality({c} \cup {d}) = 2
<1>1. c # d
  OBVIOUS
<1>2. IsFiniteSet({c}) /\ Cardinality({c}) = 1 /\ d \notin {c}
  BY <1>1, FS_Singleton
<1>3. Cardinality({c} \cup {d}) = Cardinality({c}) + 1
  BY <1>2, FS_AddElement
<1>. QED
  BY <1>2, <1>3

\* A burn in part claims two nullifiers, of the coin and of its change, and two
\* commitments, of the burned value and of the change passed on.
LEMMA PartialBurnView ==
  ASSUME NEW s, NEW caller \in Clients, NEW coin \in Coins,
         NEW amount \in 0 .. coin.value - 1
  PROVE  PublicView(BurnUncounted(s, caller, coin, amount)) =
           [ reads |-> [color |-> s.color], writes |-> NoCells, mints |-> 0,
             nullifiers |-> 2, commitments |-> 2 ]
<1>. DEFINE change == Coin(ChangeNonce(coin.nonce), coin.color,
                           coin.value - amount, Self)
            burned == SendShielded(coin, ZeroKey, amount)
            passed == SendShielded(change, caller, change.value)
            call   == BurnUncounted(s, caller, coin, amount)
<1>1. coin.nonce \in Nonces /\ coin.value \in Nat
  BY DEF Coins
<1>2. coin.value - amount # 0
  BY <1>1
<1>3. burned.change = {change}
  BY <1>2 DEF SendShielded
<1>4. /\ call.transients = {burned.spent} \cup {passed.spent}
      /\ call.outputs = {burned.sent} \cup {passed.sent}
  BY <1>3 DEF BurnUncounted
<1>5. /\ burned.spent.nonce = coin.nonce
      /\ passed.spent.nonce = ChangeNonce(coin.nonce)
      /\ burned.sent.nonce = SentNonce(coin.nonce)
      /\ passed.sent.nonce = SentNonce(ChangeNonce(coin.nonce))
  <2>1. burned.spent.nonce = coin.nonce
    BY DEF SendShielded, Received, Coins
  <2>2. change.nonce = ChangeNonce(coin.nonce)
    BY DEF Coin
  <2>3. passed.spent = [change EXCEPT !.owner = Self]
    BY DEF SendShielded, Received
  <2>4. passed.spent.nonce = change.nonce
    BY <2>3 DEF Coin
  <2>5. burned.sent.nonce = SentNonce(coin.nonce)
    BY DEF SendShielded, Coin
  <2>6. passed.sent.nonce = SentNonce(change.nonce)
    BY DEF SendShielded, Coin
  <2>. QED
    BY <2>1, <2>2, <2>4, <2>5, <2>6
<1>6. ChangeNonce(coin.nonce) \in Nonces /\ ChangeNonce(coin.nonce) # coin.nonce
  BY <1>1, AppendNonce, NonceGrows DEF ChangeNonce, ChangeTag
<1>7. SentNonce(ChangeNonce(coin.nonce)) # SentNonce(coin.nonce)
  <2>1. /\ Len(SentNonce(coin.nonce)) = Len(coin.nonce) + 1
        /\ Len(SentNonce(ChangeNonce(coin.nonce))) = Len(coin.nonce) + 2
        /\ Len(coin.nonce) \in Nat
    BY <1>1 DEF SentNonce, ChangeNonce, Nonces, SentTag, ChangeTag
  <2>. QED
    BY <2>1
<1>8. Cardinality(call.transients) = 2
  BY <1>4, <1>5, <1>6, TwoCoins
<1>9. Cardinality(call.outputs) = 2
  BY <1>4, <1>5, <1>7, TwoCoins
<1>10. call.reads = [color |-> s.color] /\ call.writes = NoCells /\ call.mints = 0
  BY DEF BurnUncounted
<1>. HIDE DEF call
<1>11. PublicView(call) =
         [ reads |-> [color |-> s.color], writes |-> NoCells, mints |-> 0,
           nullifiers |-> 2, commitments |-> 2 ]
  BY <1>8, <1>9, <1>10 DEF PublicView
<1>. QED
  BY <1>11 DEF call

-----------------------------------------------------------------------------
(* The steps                                                               *)

\* Submitting a sound transaction preserves the invariant.
LEMMA UncountedSubmitSound ==
  ASSUME UncountedInv, NEW tx, TxOK(tx), UncountedOK(tx), Submit(tx)
  PROVE  UncountedInv'
<1>. USE DEF UncountedInv, Submit
<1>1. TypeOK'
  BY DEF TypeOK, TxOK, StorableOK
<1>2. UncountedSound'
  BY DEF UncountedSound, UncountedOK, BarredForGood, Nullifiers
<1>. QED
  BY <1>1, <1>2

\* A mint transaction is sound.
LEMMA CallMintUncountedSound ==
  ASSUME UncountedInv, CallMintUncounted PROVE UncountedInv'
<1>1. PICK recipient \in Recipients, amount \in Amounts :
        /\ MintUncountedSucceeds(amount)
        /\ Submit(ContractTx(MintKind(recipient), amount,
                             MintUncounted(ledger, recipient, amount), {}, {}))
  BY DEF CallMintUncounted
<1>. DEFINE tx == ContractTx(MintKind(recipient), amount,
                             MintUncounted(ledger, recipient, amount), {}, {})
<1>2. /\ ledger \in Ledgers
      /\ ledger.counter + 1 \in Nat
      /\ amount \in Nat
  BY <1>1, ArgumentsAssumption DEF UncountedInv, TypeOK, Ledgers
<1>3. EvolveNonce(ledger.counter + 1, ledger.nonce) \in Nonces
  BY <1>2, AppendNonce DEF EvolveNonce, Ledgers
<1>4. OwnerOf(recipient) \in Owners
  BY ArgumentsAssumption DEF OwnerOf, Either, Owners
<1>5. Coin(EvolveNonce(ledger.counter + 1, ledger.nonce), TokenColor, amount,
           OwnerOf(recipient)) \in Coins
  BY <1>2, <1>3, <1>4, CoinType DEF Colors
<1>6. (IF ledger.color = ZeroColor THEN TokenColor ELSE ledger.color) = TokenColor
  BY <1>2 DEF Ledgers
<1>7. TxOK(tx)
  BY <1>2, <1>3, <1>5, <1>6
  DEF TxOK, StorableOK, ContractTx, MintUncounted, MintedCoin, MintKind, Kinds
<1>8. UncountedOK(tx)
  BY <1>2, <1>6
  DEF UncountedOK, ContractTx, MintUncounted, MintKind, MintKinds
<1>. QED
  BY <1>1, <1>7, <1>8, UncountedSubmitSound

\* A burn transaction is sound.
LEMMA CallBurnUncountedSound ==
  ASSUME UncountedInv, CallBurnUncounted PROVE UncountedInv'
<1>0. PICK client \in Clients, amount \in Amounts :
        \E coin \in CoinArguments(client) :
          /\ BurnUncountedSucceeds(ledger, coin, amount)
          /\ \E inputs \in Funding(client, coin.color, coin.value) :
               Submit(ContractTx("burn", amount,
                                 BurnUncounted(ledger, client, coin, amount),
                                 inputs, WalletChange(inputs, coin.value)))
  BY DEF CallBurnUncounted
<1>1. PICK coin \in CoinArguments(client) :
        /\ BurnUncountedSucceeds(ledger, coin, amount)
        /\ \E inputs \in Funding(client, coin.color, coin.value) :
             Submit(ContractTx("burn", amount,
                               BurnUncounted(ledger, client, coin, amount),
                               inputs, WalletChange(inputs, coin.value)))
  BY <1>0
<1>2. PICK inputs \in Funding(client, coin.color, coin.value) :
        Submit(ContractTx("burn", amount,
                          BurnUncounted(ledger, client, coin, amount),
                          inputs, WalletChange(inputs, coin.value)))
  BY <1>1
<1>. DEFINE call == BurnUncounted(ledger, client, coin, amount)
            tx == ContractTx("burn", amount, call, inputs,
                             WalletChange(inputs, coin.value))
<1>3. /\ coin \in Coins
      /\ coin.value \in Nat
      /\ amount \in Nat
      /\ amount <= coin.value
  BY <1>1, ArgumentsAssumption
  DEF UncountedInv, TypeOK, CoinArguments, BurnUncountedSucceeds, Coins
<1>4. inputs \subseteq Coins
  BY DEF Funding, UncountedInv, TypeOK
<1>5. call.transients \subseteq Coins /\ call.outputs \subseteq Coins
  BY <1>3, BurnUncountedType
<1>6. WalletChange(inputs, coin.value) \subseteq Coins
  BY <1>3, <1>4, WalletChangeType
<1>7. /\ tx.kind = "burn"
      /\ tx.amount = amount
      /\ tx.inputs = inputs
      /\ tx.transients = call.transients
      /\ tx.outputs = call.outputs \cup WalletChange(inputs, coin.value)
      /\ tx.delta = 0 - call.mints
      /\ tx.reads = call.reads
      /\ tx.writes = call.writes
  BY DEF ContractTx
<1>8. /\ call.mints = 0
      /\ call.reads = [color |-> ledger.color]
      /\ DOMAIN call.writes = {}
      /\ call.transients # {}
  BY DEF BurnUncounted, NoCells
<1>. HIDE DEF call, tx
<1>9. TxOK(tx)
  BY <1>3, <1>4, <1>5, <1>6, <1>7, <1>8 DEF TxOK, StorableOK, Kinds
<1>10. UncountedOK(tx)
  BY <1>7, <1>8 DEF UncountedOK, MintKinds, Nullifiers
<1>. QED
  BY <1>2, <1>9, <1>10, UncountedSubmitSound DEF tx, call

\* What a transaction stores, its cells can hold.
LEMMA UncountedStoredType ==
  ASSUME TypeOK, NEW tx \in pending
  PROVE  Stored(tx) \in Ledgers
<1>1. StorableOK(tx.writes) /\ ledger \in Ledgers
  BY DEF TypeOK, TxOK
<1>2. Stored(tx) =
        [ counter     |-> Stored(tx).counter,
          nonce       |-> Stored(tx).nonce,
          color       |-> Stored(tx).color,
          totalSupply |-> Stored(tx).totalSupply ]
  BY DEF Stored, Cells
<1>3. /\ Stored(tx).counter \in Nat
      /\ Stored(tx).nonce \in Nonces
      /\ Stored(tx).color \in {ZeroColor, TokenColor}
      /\ Stored(tx).totalSupply \in 0 .. MaxUint128
  BY <1>1 DEF Stored, Cells, StorableOK, Ledgers
<1>. QED
  BY <1>2, <1>3 DEF Ledgers

\* A landed transaction is barred for good, and bars nothing that was barred
\* before it.
LEMMA UncountedLandSound == ASSUME UncountedInv, Land PROVE UncountedInv'
<1>1. PICK tx \in pending :
        /\ Valid(tx)
        /\ ledger' = Stored(tx)
        /\ pool' = (pool \ tx.inputs) \cup tx.outputs
        /\ spent' = spent \cup Nullifiers(tx)
        /\ pending' = pending \ {tx}
        /\ applied' = applied \cup {tx}
        /\ published' = published - tx.delta
        /\ tally' = [tally EXCEPT ![tx.kind] = @ + tx.amount]
  BY DEF Land
<1>2. /\ TypeOK
      /\ TxOK(tx)
      /\ UncountedOK(tx)
      /\ ReadsMatch(tx)
  BY <1>1 DEF UncountedInv, TypeOK, UncountedSound, Valid
<1>3. TypeOK'
  <2>1. ledger' \in Ledgers
    BY <1>1, <1>2, UncountedStoredType
  <2>2. pool' \subseteq Coins /\ spent' \subseteq Coins
    BY <1>1, <1>2 DEF TypeOK, TxOK, Nullifiers
  <2>3. published' \in Int /\ tally' \in [Kinds -> Nat]
    BY <1>1, <1>2 DEF TypeOK, TxOK
  <2>4. \A t \in pending' : TxOK(t)'
    BY <1>1, <1>2 DEF TypeOK, TxOK, StorableOK
  <2>. QED
    BY <2>1, <2>2, <2>3, <2>4 DEF TypeOK
<1>4. UncountedSound'
  <2>1. \A t \in pending' : UncountedOK(t)'
    BY <1>1 DEF UncountedInv, UncountedSound, UncountedOK, Nullifiers
  <2>2. /\ ledger.counter \in Nat /\ ledger'.counter \in Nat
        /\ tx.kind \in MintKinds =>
             /\ tx.reads.counter = ledger.counter
             /\ ledger'.counter = ledger.counter + 1
        /\ tx.kind = "burn" => ledger'.counter = ledger.counter
    BY <1>1, <1>2, <1>3
    DEF UncountedOK, ReadsMatch, Stored, Cells, TypeOK, Ledgers
  <2>3. ledger'.counter >= ledger.counter
    BY <1>2, <2>2 DEF UncountedOK
  <2>4. ASSUME NEW t \in applied PROVE BarredForGood(t)'
    BY <1>1, <2>2, <2>3
    DEF UncountedInv, UncountedSound, BarredForGood, Nullifiers
  <2>5. BarredForGood(tx)'
    <3>1. CASE tx.kind \in MintKinds
      BY <1>1, <1>2, <2>2, <3>1 DEF BarredForGood, UncountedOK
    <3>2. CASE tx.kind = "burn"
      BY <1>1, <1>2, <3>2 DEF BarredForGood, UncountedOK, Nullifiers
    <3>. QED
      BY <1>2, <3>1, <3>2 DEF UncountedOK
  <2>. QED
    BY <1>1, <2>1, <2>4, <2>5 DEF UncountedSound
<1>. QED
  BY <1>3, <1>4 DEF UncountedInv

\* The invariant holds of the deployed contract.
LEMMA UncountedInitSound == Init => UncountedInv
<1>1. Init => TypeOK
  BY InitSound DEF Inv
<1>2. Init => UncountedSound
  BY DEF Init, UncountedSound
<1>. QED
  BY <1>1, <1>2 DEF UncountedInv

\* Every step preserves the invariant.
LEMMA UncountedNextSound ==
  UncountedInv /\ [NextUncounted]_vars => UncountedInv'
<1>. SUFFICES ASSUME UncountedInv, [NextUncounted]_vars PROVE UncountedInv'
  OBVIOUS
<1>1. CASE CallMintUncounted
  BY <1>1, CallMintUncountedSound
<1>2. CASE CallBurnUncounted
  BY <1>2, CallBurnUncountedSound
<1>3. CASE Land
  BY <1>3, UncountedLandSound
<1>4. CASE Reject \/ Expire \/ UNCHANGED vars
  <2>1. /\ pending' \subseteq pending
        /\ UNCHANGED <<ledger, pool, spent, applied, published, tally>>
    BY <1>4 DEF Reject, Expire, vars
  <2>2. TypeOK'
    BY <2>1 DEF UncountedInv, TypeOK, TxOK, StorableOK
  <2>3. UncountedSound'
    BY <2>1 DEF UncountedInv, UncountedSound, UncountedOK, BarredForGood, Nullifiers
  <2>. QED
    BY <2>2, <2>3 DEF UncountedInv
<1>. QED
  BY <1>1, <1>2, <1>3, <1>4 DEF NextUncounted

-----------------------------------------------------------------------------
(* Coins and values                                                        *)

\* Without the cell, too, a mint stores the next counter and a burn none.
LEMMA UncountedKeepsCounter ==
  ASSUME NEW tx, UncountedOK(tx)
  PROVE  CounterKept(tx)
  BY DEF UncountedOK, CounterKept, MintKinds

\* Submitting a transaction of the right shape, and balanced.
LEMMA UncountedSubmitSupply ==
  ASSUME UncountedSupplyInv, NEW tx, Submit(tx), UncountedBalanced(tx),
         IF tx.kind \in MintKinds THEN MintShape(tx) ELSE Descends(tx)
  PROVE  UncountedSupplyInv'
<1>1. ApartInv'
  BY SubmitApart DEF UncountedSupplyInv
<1>2. pool' = pool /\ pending' = pending \cup {tx}
  BY DEF Submit
<1>3. \A t \in pending' : UncountedBalanced(t)
  BY <1>2 DEF UncountedSupplyInv
<1>. QED
  BY <1>1, <1>2, <1>3 DEF UncountedSupplyInv, UncountedBalanced, Issues, MovesFor

\* A mint submits the one coin of its amount, with the next index.
LEMMA CallMintUncountedSupply ==
  ASSUME TypeOK, UncountedSupplyInv, CallMintUncounted
  PROVE  UncountedSupplyInv'
<1>1. PICK recipient \in Recipients, amount \in Amounts :
        /\ MintUncountedSucceeds(amount)
        /\ Submit(ContractTx(MintKind(recipient), amount,
                             MintUncounted(ledger, recipient, amount), {}, {}))
  BY DEF CallMintUncounted
<1>. DEFINE tx    == ContractTx(MintKind(recipient), amount,
                                MintUncounted(ledger, recipient, amount), {}, {})
            nonce == EvolveNonce(ledger.counter + 1, ledger.nonce)
            coin  == MintedCoin(amount, nonce, recipient)
<1>2. /\ tx.inputs = {} /\ tx.transients = {} /\ tx.outputs = {coin}
      /\ tx.amount = amount /\ tx.kind = MintKind(recipient)
      /\ tx.delta = 0 - amount
      /\ tx.reads.counter = ledger.counter
      /\ tx.writes.color = IF ledger.color = ZeroColor THEN TokenColor ELSE ledger.color
  BY DEF ContractTx, MintUncounted
<1>3. ledger.nonce \in Nonces /\ ledger.counter + 1 \in Int
      /\ ledger.color \in {ZeroColor, TokenColor}
  BY DEF TypeOK, Ledgers
<1>4. LastTag(coin.nonce) = ledger.counter + 1
  <2>1. coin.nonce = Append(ledger.nonce, ledger.counter + 1)
    BY DEF MintedCoin, Coin, EvolveNonce
  <2>. QED
    BY <1>3, <2>1, TagOfAppend
<1>5. Submit(tx) /\ amount \in 0 .. MaxUint64
  BY <1>1 DEF MintUncountedSucceeds
<1>6. tx.writes.color = TokenColor
  BY <1>2, <1>3
<1>. HIDE DEF tx, nonce
<1>7. tx.kind \in MintKinds /\ Issues(tx)
  BY <1>2, <1>5, <1>6, MintIssues
<1>. HIDE DEF coin
<1>8. MintShape(tx)
  BY <1>2, <1>4 DEF MintShape
<1>9. UncountedBalanced(tx)
  BY <1>2, <1>7 DEF UncountedBalanced
<1>. QED
  BY <1>5, <1>7, <1>8, <1>9, UncountedSubmitSupply

\* A burn submits the coins of the burn that counts, of the color it asserts.
LEMMA CallBurnUncountedSupply ==
  ASSUME TypeOK, UncountedSupplyInv, CallBurnUncounted
  PROVE  UncountedSupplyInv'
<1>1. PICK client \in Clients, amount \in Amounts :
        \E coin \in CoinArguments(client) :
          /\ BurnUncountedSucceeds(ledger, coin, amount)
          /\ \E inputs \in Funding(client, coin.color, coin.value) :
               Submit(ContractTx("burn", amount,
                                 BurnUncounted(ledger, client, coin, amount),
                                 inputs, WalletChange(inputs, coin.value)))
  BY DEF CallBurnUncounted
<1>2. PICK coin \in CoinArguments(client) :
        /\ BurnUncountedSucceeds(ledger, coin, amount)
        /\ \E inputs \in Funding(client, coin.color, coin.value) :
             Submit(ContractTx("burn", amount,
                               BurnUncounted(ledger, client, coin, amount),
                               inputs, WalletChange(inputs, coin.value)))
  BY <1>1
<1>3. PICK inputs \in Funding(client, coin.color, coin.value) :
        Submit(ContractTx("burn", amount,
                          BurnUncounted(ledger, client, coin, amount),
                          inputs, WalletChange(inputs, coin.value)))
  BY <1>2
<1>. DEFINE tx == ContractTx("burn", amount,
                             BurnUncounted(ledger, client, coin, amount),
                             inputs, WalletChange(inputs, coin.value))
<1>4. amount \in Nat /\ amount <= coin.value /\ coin.color = ledger.color
  BY <1>2, ArgumentsAssumption DEF BurnUncountedSucceeds
<1>5. /\ tx.inputs = inputs /\ tx.kind = "burn" /\ tx.amount = amount
      /\ tx.delta = 0 /\ tx.reads.color = ledger.color
      /\ tx.transients = Burn(ledger, client, coin, amount).transients
      /\ tx.outputs = Burn(ledger, client, coin, amount).outputs
                        \cup WalletChange(inputs, coin.value)
  BY DEF ContractTx, BurnUncounted, Burn
<1>6. Submit(tx)
  BY <1>3
<1>. HIDE DEF tx
<1>7. Descends(tx)
  BY <1>5, FundedBurnDescends
<1>8. MovesFor(tx, coin.color, client)
  BY <1>4, <1>5, BurnMoves
<1>9. UncountedBalanced(tx)
  BY <1>4, <1>5, <1>8 DEF UncountedBalanced, MintKinds
<1>. QED
  BY <1>5, <1>6, <1>7, <1>9, UncountedSubmitSupply DEF MintKinds

\* What a wallet can spend of a transaction's amount once it has landed: nothing
\* of a burn of another color was the token.
UncountedSpread(tx) ==
  IF tx.kind = "mint" THEN tx.amount
  ELSE IF tx.kind = "burn" /\ tx.reads.color = TokenColor THEN 0 - tx.amount ELSE 0

UncountedLandsAs(tx, p, q) ==
  /\ IsFiniteSet(q)
  /\ ValueOf(Spendable(q)) = ValueOf(Spendable(p)) + UncountedSpread(tx)
  /\ (tx.kind = "burn" => tx.reads.color = TokenColor) =>
       ValueOf(Zeroed(q)) = ValueOf(Zeroed(p))

\* A mint takes its amount, negated, out of what is spendable, unless its owner
\* has no wallet; it destroys nothing.
LEMMA UncountedMintTakes ==
  ASSUME NEW tx, TxOK(tx), tx.kind \in MintKinds, UncountedBalanced(tx)
  PROVE  /\ IsFiniteSet(tx.outputs)
         /\ Taken(tx, Class({TokenColor}, Clients)) = 0 - UncountedSpread(tx)
         /\ Taken(tx, Class(Colors \ {TokenColor}, {ZeroKey})) = 0
<1>1. Issues(tx)
  BY DEF UncountedBalanced
<1>2. PICK o \in tx.outputs :
        /\ (o.owner \in Clients <=> tx.kind = "mint")
        /\ Taken(tx, Class({TokenColor}, Clients)) =
             IF TokenColor \in {TokenColor} /\ o.owner \in Clients
               THEN 0 - tx.amount ELSE 0
  BY <1>1, IssuesTakes
<1>3. Taken(tx, Class({TokenColor}, Clients)) = 0 - UncountedSpread(tx)
  <2>1. CASE tx.kind = "mint"
    BY <1>2, <2>1 DEF UncountedSpread
  <2>2. CASE tx.kind = "stranded-mint"
    BY <1>2, <2>2 DEF UncountedSpread
  <2>. QED
    BY <2>1, <2>2 DEF MintKinds
<1>4. PICK p \in tx.outputs :
        Taken(tx, Class(Colors \ {TokenColor}, {ZeroKey})) =
          IF TokenColor \in Colors \ {TokenColor} /\ p.owner \in {ZeroKey}
            THEN 0 - tx.amount ELSE 0
  BY <1>1, IssuesTakes
<1>5. IsFiniteSet(tx.outputs)
  BY <1>1, IssuesTakes
<1>. QED
  BY <1>3, <1>4, <1>5

\* A burn takes its amount out of what is spendable, if it is the token it burns;
\* if so, it destroys nothing else.
LEMMA UncountedBurnTakes ==
  ASSUME NEW tx, TxOK(tx), tx.kind = "burn", UncountedBalanced(tx)
  PROVE  /\ IsFiniteSet(tx.outputs)
         /\ Taken(tx, Class({TokenColor}, Clients)) = 0 - UncountedSpread(tx)
         /\ tx.reads.color = TokenColor =>
              Taken(tx, Class(Colors \ {TokenColor}, {ZeroKey})) = 0
<1>1. PICK client \in Clients : MovesFor(tx, tx.reads.color, client)
  BY DEF UncountedBalanced, MintKinds
<1>2. ZeroKey \notin Clients /\ tx.amount \in Nat
  BY PartiesAssumption DEF TxOK
<1>3. IsFiniteSet(tx.outputs)
  BY <1>1 DEF MovesFor
<1>4. CASE tx.reads.color = TokenColor
  <2>1. Taken(tx, Class({TokenColor}, Clients)) = tx.amount
    BY <1>1, <1>2, <1>4, MovesTakes
  <2>2. Taken(tx, Class(Colors \ {TokenColor}, {ZeroKey})) = 0
    BY <1>1, <1>4, MovesTakes
  <2>3. 0 - UncountedSpread(tx) = tx.amount
    BY <1>2, <1>4 DEF UncountedSpread
  <2>. QED
    BY <1>3, <2>1, <2>2, <2>3
<1>5. CASE tx.reads.color # TokenColor
  <2>1. Taken(tx, Class({TokenColor}, Clients)) = 0
    BY <1>1, <1>5, MovesTakes
  <2>2. 0 - UncountedSpread(tx) = 0
    BY <1>5 DEF UncountedSpread
  <2>. QED
    BY <1>3, <1>5, <2>1, <2>2
<1>. QED
  BY <1>4, <1>5

\* What a landing does to what is spendable and to what is destroyed.
LEMMA UncountedLands ==
  ASSUME UncountedInv, UncountedSupplyInv, NEW tx \in pending, Valid(tx),
         NEW q, q = (pool \ tx.inputs) \cup tx.outputs
  PROVE  UncountedLandsAs(tx, pool, q)
<1>1. /\ TypeOK /\ TxOK(tx) /\ pool \subseteq Coins
      /\ UncountedOK(tx) /\ UncountedBalanced(tx) /\ CounterKept(tx)
  BY UncountedKeepsCounter
  DEF UncountedInv, TypeOK, UncountedSound, UncountedSupplyInv
<1>2. tx.kind \in MintKinds \/ tx.kind = "burn"
  BY <1>1 DEF UncountedOK
<1>. DEFINE held == Class({TokenColor}, Clients)
            lost == Class(Colors \ {TokenColor}, {ZeroKey})
<1>3. /\ IsFiniteSet(tx.outputs)
      /\ Taken(tx, held) = 0 - UncountedSpread(tx)
      /\ (tx.kind = "burn" => tx.reads.color = TokenColor) => Taken(tx, lost) = 0
  BY <1>1, <1>2, UncountedMintTakes, UncountedBurnTakes
<1>4. UncountedSpread(tx) \in Int
  BY <1>1 DEF UncountedSpread, TxOK
<1>5. /\ IsFiniteSet(q) /\ q \subseteq Coins
      /\ \A class : /\ ValueOf(q \cap class) = ValueOf(pool \cap class) - Taken(tx, class)
                    /\ ValueOf(pool \cap class) \in Nat
  BY <1>1, <1>3, LandingTakes DEF UncountedSupplyInv
<1>6. /\ Spendable(q) = q \cap held /\ Spendable(pool) = pool \cap held
      /\ Zeroed(q) = q \cap lost /\ Zeroed(pool) = pool \cap lost
  BY <1>1, <1>5, Classes
<1>7. /\ ValueOf(q \cap held) = ValueOf(pool \cap held) - Taken(tx, held)
      /\ ValueOf(pool \cap held) \in Nat
      /\ ValueOf(q \cap lost) = ValueOf(pool \cap lost) - Taken(tx, lost)
      /\ ValueOf(pool \cap lost) \in Nat
  BY <1>5
<1>. DEFINE v == ValueOf(pool \cap held)
            w == ValueOf(q \cap held)
            x == ValueOf(pool \cap lost)
            y == ValueOf(q \cap lost)
<1>8. /\ w = v - (0 - UncountedSpread(tx)) /\ v \in Nat
      /\ y = x - Taken(tx, lost) /\ x \in Nat
      /\ ValueOf(Spendable(q)) = w /\ ValueOf(Spendable(pool)) = v
      /\ ValueOf(Zeroed(q)) = y /\ ValueOf(Zeroed(pool)) = x
  BY <1>3, <1>6, <1>7
<1>. HIDE DEF held, lost, v, w, x, y
<1>9. w = v + UncountedSpread(tx)
  BY <1>4, <1>8
<1>10. (tx.kind = "burn" => tx.reads.color = TokenColor) => y = x
  BY <1>3, <1>8
<1>. QED
  BY <1>5, <1>8, <1>9, <1>10 DEF UncountedLandsAs

\* Coins and balances are right at deployment.
LEMMA UncountedInitSupply == ASSUME Deployment, Init PROVE UncountedSupplyInv
  BY ApartInit DEF Deployment, Init, UncountedSupplyInv

\* And stay so with every step.
LEMMA UncountedNextSupply ==
  UncountedInv /\ UncountedSupplyInv /\ [NextUncounted]_vars => UncountedSupplyInv'
<1>. SUFFICES ASSUME UncountedInv, UncountedSupplyInv, [NextUncounted]_vars
              PROVE  UncountedSupplyInv'
  OBVIOUS
<1>1. TypeOK /\ \A tx \in pending : CounterKept(tx)
  BY UncountedKeepsCounter DEF UncountedInv, UncountedSound
<1>2. CASE CallMintUncounted
  BY <1>1, <1>2, CallMintUncountedSupply
<1>3. CASE CallBurnUncounted
  BY <1>1, <1>3, CallBurnUncountedSupply
<1>4. CASE Land
  <2>1. PICK tx \in pending : /\ Valid(tx)
                              /\ pool' = (pool \ tx.inputs) \cup tx.outputs
                              /\ pending' = pending \ {tx}
    BY <1>4 DEF Land
  <2>2. ApartInv'
    BY <1>1, <1>4, LandApart DEF UncountedSupplyInv
  <2>3. IsFiniteSet(pool')
    BY <2>1, UncountedLands DEF UncountedLandsAs
  <2>. QED
    BY <2>1, <2>2, <2>3 DEF UncountedSupplyInv, UncountedBalanced, Issues, MovesFor
<1>5. CASE Reject \/ Expire \/ UNCHANGED vars
  <2>1. UNCHANGED <<pool, spent, ledger>> /\ pending' \subseteq pending
    BY <1>5 DEF Reject, Expire, vars
  <2>2. ApartInv'
    BY <2>1
    DEF UncountedSupplyInv, ApartInv, KnownApart, CoinsStayApart, Lineage, Known,
        Parented, Counted, PendingApart, MintShape, Descends, Base
  <2>. QED
    BY <2>1, <2>2 DEF UncountedSupplyInv, UncountedBalanced, Issues, MovesFor
<1>. QED
  BY <1>2, <1>3, <1>4, <1>5 DEF NextUncounted

-----------------------------------------------------------------------------
(* The theorems                                                            *)

\* The invariant holds throughout.
THEOREM UncountedInvariance == SpecUncounted => []UncountedInv
  BY UncountedInitSound, UncountedNextSound, PTL DEF SpecUncounted

\* The amount of a burn in part is public nowhere: whatever it is, the call looks
\* the same.
THEOREM AmountIsNeverPublic == SpecUncounted => []AmountStaysHidden
<1>1. UncountedInv => AmountStaysHidden
  <2>1. SUFFICES ASSUME UncountedInv, NEW client \in Clients,
                        NEW coin \in CoinArguments(client),
                        NEW a \in 0 .. coin.value - 1,
                        NEW b \in 0 .. coin.value - 1
                 PROVE  PublicView(BurnUncounted(ledger, client, coin, a)) =
                        PublicView(BurnUncounted(ledger, client, coin, b))
    BY DEF AmountStaysHidden
  <2>2. coin \in Coins
    BY <2>1 DEF UncountedInv, TypeOK, CoinArguments
  <2>. QED
    BY <2>2, PartialBurnView
<1>. QED
  BY <1>1, UncountedInvariance, PTL

\* A transaction lands at most once, although a burn asserts no cell that it
\* changes.
THEOREM UncountedLandsAtMostOnce == SpecUncounted => []NothingLandsTwice
<1>1. UncountedInv => NothingLandsTwice
  <2>1. SUFFICES ASSUME UncountedInv, NEW tx \in applied PROVE ~Valid(tx)
    BY DEF NothingLandsTwice
  <2>2. ledger.counter \in Nat /\ BarredForGood(tx)
    BY <2>1 DEF UncountedInv, TypeOK, Ledgers, UncountedSound
  <2>. QED
    BY <2>2 DEF BarredForGood, Valid, ReadsMatch
<1>. QED
  BY <1>1, UncountedInvariance, PTL

\* With the token's color set, nothing but a used nullifier invalidates a burn:
\* any number of burns of different coins land in any order.
THEOREM BurnsNeverConflict == SpecUncounted => BurnsDoNotConflict
<1>. DEFINE Step ==
       ledger.color = TokenColor =>
         \A tx \in pending \cap pending' :
           tx.kind = "burn" /\ Valid(tx) /\ ~Valid(tx)' =>
             Nullifiers(tx) \cap (spent' \ spent) # {}
<1>1. UncountedInv /\ [NextUncounted]_vars => Step
  <2>1. SUFFICES ASSUME UncountedInv, [NextUncounted]_vars,
                        ledger.color = TokenColor,
                        NEW tx \in pending, tx \in pending',
                        tx.kind = "burn", Valid(tx), ~Valid(tx)'
                 PROVE  Nullifiers(tx) \cap (spent' \ spent) # {}
    OBVIOUS
  <2>2. CASE Land
    <3>1. PICK t \in pending :
            /\ ledger' = Stored(t)
            /\ pool' = (pool \ t.inputs) \cup t.outputs
            /\ spent' = spent \cup Nullifiers(t)
      BY <2>2 DEF Land
    <3>2. ledger'.color = TokenColor
      BY <2>1, <3>1
      DEF UncountedInv, UncountedSound, UncountedOK, Stored, Cells, MintKinds
    <3>3. ReadsMatch(tx)'
      BY <2>1, <3>2
      DEF UncountedInv, UncountedSound, UncountedOK, Valid, ReadsMatch
    <3>4. /\ tx.inputs \subseteq pool
          /\ Nullifiers(tx) \cap spent = {}
          /\ \/ ~(tx.inputs \subseteq pool')
             \/ Nullifiers(tx) \cap spent' # {}
      BY <2>1, <3>3 DEF Valid, Nullifiers
    <3>5. tx.inputs \subseteq Nullifiers(tx) /\ t.inputs \subseteq Nullifiers(t)
      BY DEF Nullifiers
    <3>6. CASE ~(tx.inputs \subseteq pool')
      <4>1. PICK c \in tx.inputs : c \notin pool'
        BY <3>6
      <4>2. c \in t.inputs
        BY <3>1, <3>4, <4>1
      <4>. QED
        BY <3>1, <3>4, <3>5, <4>1, <4>2
    <3>7. CASE Nullifiers(tx) \cap spent' # {}
      BY <3>4, <3>7
    <3>. QED
      BY <3>4, <3>6, <3>7
  <2>3. CASE ~Land
    <3>1. UNCHANGED <<ledger, pool, spent>>
      BY <2>1, <2>3
      DEF NextUncounted, CallMintUncounted, CallBurnUncounted, Submit, Reject,
          Expire, vars
    <3>. QED
      BY <2>1, <3>1 DEF Valid, ReadsMatch, Nullifiers
  <2>. QED
    BY <2>2, <2>3
<1>2. UncountedInv /\ [NextUncounted]_vars => [Step]_vars
  BY <1>1
<1>. QED
  BY <1>2, UncountedInvariance, PTL DEF SpecUncounted, BurnsDoNotConflict

\* Coins and balances are right throughout, whatever is burned.
THEOREM UncountedSupplyInvariance ==
  ASSUME Deployment
  PROVE  SpecUncounted => [](UncountedInv /\ UncountedSupplyInv)
<1>1. Init => UncountedSupplyInv
  BY UncountedInitSupply
<1>. QED
  BY <1>1, UncountedNextSupply, UncountedInvariance, PTL DEF SpecUncounted

\* From the first mint on no coin of another color is destroyed, in whatever order
\* burns of the zero color that were submitted before it still arrive.
THEOREM OthersAreSafeOnceMinted ==
  ASSUME Deployment
  PROVE  SpecUncounted => ForeignCoinsAreSafeOnceMinted
<1>. DEFINE Step == ledger.color = TokenColor =>
                      ForeignCoinsDestroyed' = ForeignCoinsDestroyed
<1>1. /\ ForeignCoinsDestroyed = ValueOf(Zeroed(pool))
      /\ ForeignCoinsDestroyed' = ValueOf(Zeroed(pool'))
  BY DEF ForeignCoinsDestroyed, Zeroed
<1>2. UncountedInv /\ UncountedSupplyInv /\ [NextUncounted]_vars => Step
  <2>1. SUFFICES ASSUME UncountedInv, UncountedSupplyInv, [NextUncounted]_vars,
                        ledger.color = TokenColor
                 PROVE  ForeignCoinsDestroyed' = ForeignCoinsDestroyed
    OBVIOUS
  <2>2. CASE Land
    <3>1. PICK tx \in pending : /\ Valid(tx)
                                /\ pool' = (pool \ tx.inputs) \cup tx.outputs
      BY <2>2 DEF Land
    <3>2. UncountedOK(tx)
      BY <2>1 DEF UncountedInv, UncountedSound
    <3>3. tx.kind = "burn" => tx.reads.color = TokenColor
      BY <2>1, <3>1, <3>2 DEF UncountedOK, Valid, ReadsMatch
    <3>4. UncountedLandsAs(tx, pool, pool')
      BY <2>1, <3>1, UncountedLands
    <3>. QED
      BY <1>1, <3>3, <3>4 DEF UncountedLandsAs
  <2>3. CASE ~Land
    <3>1. pool' = pool
      BY <2>1, <2>3
      DEF NextUncounted, CallMintUncounted, CallBurnUncounted, Submit, Reject,
          Expire, vars
    <3>. QED
      BY <1>1, <3>1
  <2>. QED
    BY <2>2, <2>3
<1>3. UncountedInv /\ UncountedSupplyInv /\ [NextUncounted]_vars => [Step]_vars
  BY <1>2
<1>. QED
  BY <1>3, UncountedSupplyInvariance, PTL
  DEF SpecUncounted, ForeignCoinsAreSafeOnceMinted

\* A landing is a mint, a burn nobody sees, or nothing.
LEMMA UncountedLandMaps ==
  ASSUME UncountedInv, UncountedSupplyInv, UncountedInv', UncountedSupplyInv', Land
  PROVE  [UncountedViews!Next]_UncountedViews!views
<1>1. PICK tx \in pending : /\ Valid(tx)
                            /\ pool' = (pool \ tx.inputs) \cup tx.outputs
                            /\ published' = published - tx.delta
  BY DEF Land
<1>2. /\ TypeOK /\ TxOK(tx) /\ UncountedOK(tx) /\ UncountedBalanced(tx)
  BY DEF UncountedInv, TypeOK, UncountedSound, UncountedSupplyInv
<1>3. UncountedLandsAs(tx, pool, pool')
  BY <1>1, UncountedLands
<1>4. /\ Circulating = ValueOf(Spendable(pool))
      /\ Circulating' = ValueOf(Spendable(pool'))
  BY DEF Circulating, Spendable
<1>5. Circulating' = Circulating + UncountedSpread(tx)
  BY <1>3, <1>4 DEF UncountedLandsAs
<1>6. Circulating \in Nat /\ Circulating' \in Nat
  <2>1. /\ IsFiniteSet(pool) /\ pool \subseteq Coins
        /\ IsFiniteSet(pool') /\ pool' \subseteq Coins
    BY DEF UncountedSupplyInv, UncountedInv, TypeOK
  <2>. QED
    BY <1>4, <2>1, CirculatingNat
<1>7. published \in Int /\ tx.amount \in Nat
  BY <1>2 DEF TypeOK, TxOK
<1>8. CASE tx.kind = "mint"
  <2>1. /\ published' = published + tx.amount
        /\ Circulating' = Circulating + tx.amount
        /\ tx.amount \in 0 .. MaxUint64
    BY <1>1, <1>2, <1>5, <1>7, <1>8
    DEF UncountedSpread, UncountedBalanced, Issues, MintKinds
  <2>2. UncountedViews!Mint
    BY <2>1 DEF UncountedViews!Mint
  <2>. QED
    BY <2>2 DEF UncountedViews!Next
<1>9. CASE tx.kind = "stranded-mint"
  <2>1. /\ published' = published + tx.amount
        /\ Circulating' = Circulating
        /\ tx.amount \in 0 .. MaxUint64
    BY <1>1, <1>2, <1>5, <1>6, <1>7, <1>9
    DEF UncountedSpread, UncountedBalanced, Issues, MintKinds
  <2>2. UncountedViews!StrandedMint
    BY <2>1 DEF UncountedViews!StrandedMint
  <2>. QED
    BY <2>2 DEF UncountedViews!Next
<1>10. CASE tx.kind = "burn" /\ tx.reads.color = TokenColor
  <2>1. /\ published' = published
        /\ Circulating' = Circulating - tx.amount
    BY <1>1, <1>2, <1>5, <1>6, <1>7, <1>10
    DEF UncountedSpread, UncountedBalanced, MintKinds
  <2>2. tx.amount \in 0 .. Circulating
    BY <1>6, <1>7, <2>1
  <2>3. UncountedViews!HiddenBurn
    BY <2>1, <2>2 DEF UncountedViews!HiddenBurn
  <2>. QED
    BY <2>3 DEF UncountedViews!Next
<1>11. CASE tx.kind = "burn" /\ tx.reads.color # TokenColor
  <2>1. published' = published /\ Circulating' = Circulating
    BY <1>1, <1>2, <1>5, <1>6, <1>7, <1>11
    DEF UncountedSpread, UncountedBalanced, MintKinds
  <2>. QED
    BY <2>1 DEF UncountedViews!views
<1>. QED
  BY <1>2, <1>8, <1>9, <1>10, <1>11 DEF UncountedOK, MintKinds

\* To everybody but its caller every burn is a hidden burn: the system without the
\* cell keeps the promise of the supply views with the fold in both places.
THEOREM UncountedRefinesSupplyViews ==
  ASSUME Deployment
  PROVE  SpecUncounted => BurnsLookHidden
<1>1. Init => UncountedViews!Init
  <2>. SUFFICES ASSUME Init PROVE UncountedViews!Init
    OBVIOUS
  <2>1. {c \in OfColor(pool, TokenColor) : c.owner \in Clients} = {}
    BY ArgumentsAssumption, ColorAssumption DEF Init, OfColor
  <2>2. Circulating = 0 /\ published = 0
    BY <2>1, ValueEmpty DEF Circulating, Init
  <2>. QED
    BY <2>2 DEF UncountedViews!Init
<1>2. /\ UncountedInv /\ UncountedSupplyInv
      /\ (UncountedInv /\ UncountedSupplyInv)'
      /\ [NextUncounted]_vars
      => [UncountedViews!Next]_UncountedViews!views
  <2>. SUFFICES ASSUME UncountedInv, UncountedSupplyInv,
                       UncountedInv', UncountedSupplyInv', [NextUncounted]_vars
                PROVE  [UncountedViews!Next]_UncountedViews!views
    OBVIOUS
  <2>1. CASE Land
    BY <2>1, UncountedLandMaps
  <2>2. CASE ~Land
    <3>1. pool' = pool /\ published' = published
      BY <2>2
      DEF NextUncounted, CallMintUncounted, CallBurnUncounted, Submit, Reject,
          Expire, vars
    <3>2. Circulating' = Circulating
      BY <3>1 DEF Circulating
    <3>. QED
      BY <3>1, <3>2 DEF UncountedViews!views
  <2>. QED
    BY <2>1, <2>2
<1>. QED
  BY <1>1, <1>2, UncountedSupplyInvariance, PTL
  DEF SpecUncounted, BurnsLookHidden, UncountedViews!Spec
=============================================================================
