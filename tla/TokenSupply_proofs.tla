------------------------- MODULE TokenSupply_proofs -------------------------
(***************************************************************************)
(* Why the supply views hold: every transaction in flight is balanced.  A  *)
(* mint issues one coin of its amount; every other transaction returns to  *)
(* the wallet that pays for it what it has put in, less the amount.        *)
(***************************************************************************)
EXTENDS TokenSupply, TokenApart_proofs, Sums_proofs

\* One new coin of the token, of the amount, for an owner of the kind's kind.
Issues(tx) ==
  /\ tx.inputs = {}
  /\ tx.amount \in 0 .. MaxUint64
  /\ tx.writes.color = TokenColor
  /\ \E o \in tx.outputs : /\ tx.outputs = {o}
                           /\ o.color = TokenColor
                           /\ o.value = tx.amount
                           /\ (o.owner \in Clients <=> tx.kind = "mint")

OwnedBy(coins, owner) == {c \in coins : c.owner = owner}

\* Coins of one color, from one wallet: the amount is destroyed, as coins of the
\* zero key unless the delta shows it, and the wallet is given back the rest.
MovesFor(tx, color, client) ==
  /\ IsFiniteSet(tx.inputs) /\ IsFiniteSet(tx.outputs)
  /\ \A c \in tx.inputs \cup tx.outputs : c.color = color
  /\ \A c \in tx.inputs : c.owner = client
  /\ \A c \in tx.outputs : c.owner \in {client, ZeroKey}
  /\ ValueOf(OwnedBy(tx.outputs, client)) = ValueOf(tx.inputs) - tx.amount
  /\ ValueOf(OwnedBy(tx.outputs, ZeroKey)) = tx.amount - tx.delta

\* What is not the token is handed back whole.
Harmless(tx, color) == color # TokenColor => tx.amount = 0 /\ tx.delta = 0

Moves(tx) ==
  \E color \in {ZeroColor, TokenColor}, client \in Clients :
    MovesFor(tx, color, client) /\ Harmless(tx, color)

Balanced(tx) == IF tx.kind \in MintKinds THEN Issues(tx) ELSE Moves(tx)

\* No supply before the first mint: a burn of what has the zero color takes nothing.
ColorTells == ledger.color = TokenColor \/ ledger.totalSupply = 0

SupplyInv ==
  /\ IsFiniteSet(pool)
  /\ ColorTells
  /\ \A tx \in pending : Balanced(tx)
  /\ Conservation
  /\ OnlyTheTokenIsDestroyed
  /\ Circulating <= ledger.totalSupply

-----------------------------------------------------------------------------
(* Values                                                                  *)

CoinValue == [c \in Coins |-> c.value]

\* The value of a finite set of coins is a sum.
LEMMA ValueIsTotal ==
  ASSUME NEW S, S \subseteq Coins, IsFiniteSet(S)
  PROVE  /\ ValueOf(S) = Total(S, CoinValue)
         /\ \A c \in S : CoinValue[c] = c.value /\ c.value \in Nat
<1>1. \A c \in S : CoinValue[c] = c.value /\ c.value \in Nat
  BY DEF CoinValue, Coins
<1> QED BY <1>1, SumOfValues DEF ValueOf

\* No coins are worth nothing.
LEMMA ValueEmpty == ValueOf({}) = 0
  BY FS_EmptySet, ValueIsTotal, TotalEmpty

\* It is a natural number.
LEMMA ValueNat ==
  ASSUME NEW S, S \subseteq Coins, IsFiniteSet(S)
  PROVE  ValueOf(S) \in Nat
  BY ValueIsTotal, TotalNat

\* The value of one coin.
LEMMA ValueOne ==
  ASSUME NEW c \in Coins
  PROVE  ValueOf({c}) = c.value
<1>1. {c} \subseteq Coins /\ IsFiniteSet({c})
  BY FS_Singleton
<1>2. ValueOf({c}) = Total({c}, CoinValue) /\ CoinValue[c] = c.value /\ c.value \in Nat
  BY <1>1, ValueIsTotal
<1> QED BY <1>2, TotalOne

\* The value of disjoint sets together.
LEMMA ValueUnion ==
  ASSUME NEW S, S \subseteq Coins, IsFiniteSet(S),
         NEW R, R \subseteq Coins, IsFiniteSet(R), S \cap R = {}
  PROVE  ValueOf(S \cup R) = ValueOf(S) + ValueOf(R)
<1>1. S \cup R \subseteq Coins /\ IsFiniteSet(S \cup R)
  BY FS_Union
<1>2. \A c \in S \cup R : CoinValue[c] \in Int
  BY <1>1, ValueIsTotal
<1>3. Total(S \cup R, CoinValue) = Total(S, CoinValue) + Total(R, CoinValue)
  BY <1>2, TotalUnion
<1> QED BY <1>1, <1>3, ValueIsTotal

\* The value of what is left.
LEMMA ValueMinus ==
  ASSUME NEW S, S \subseteq Coins, IsFiniteSet(S), NEW R, R \subseteq S
  PROVE  ValueOf(S \ R) = ValueOf(S) - ValueOf(R)
<1>1. /\ R \subseteq Coins /\ IsFiniteSet(R)
      /\ S \ R \subseteq Coins /\ IsFiniteSet(S \ R)
  BY FS_Subset
<1>2. \A c \in S : CoinValue[c] \in Int
  BY ValueIsTotal
<1>3. Total(S \ R, CoinValue) = Total(S, CoinValue) - Total(R, CoinValue)
  BY <1>2, TotalMinus
<1> QED BY <1>1, <1>3, ValueIsTotal

\* What replacing the coins in by the coins out does to the value of a class.
Exchanged(p, in, out, class) ==
  ValueOf(((p \ in) \cup out) \cap class)
    = ValueOf(p \cap class) - ValueOf(in \cap class) + ValueOf(out \cap class)

\* What a landing does to the value of a class of coins in the pool.
LEMMA ValueLands ==
  ASSUME NEW p, p \subseteq Coins, IsFiniteSet(p), NEW in, in \subseteq p,
         NEW out, out \subseteq Coins, IsFiniteSet(out), out \cap p = {}, NEW class
  PROVE  Exchanged(p, in, out, class)
<1>1. /\ IsFiniteSet(p \cap class) /\ IsFiniteSet(out \cap class)
      /\ IsFiniteSet((p \cap class) \ (in \cap class))
  BY FS_Subset
<1>2. in \cap class \subseteq p \cap class
  OBVIOUS
<1>3. ((p \ in) \cup out) \cap class
        = ((p \cap class) \ (in \cap class)) \cup (out \cap class)
  OBVIOUS
<1>4. ValueOf((p \cap class) \ (in \cap class))
        = ValueOf(p \cap class) - ValueOf(in \cap class)
  <2>1. p \cap class \subseteq Coins
    OBVIOUS
  <2> QED BY <1>1, <1>2, <2>1, ValueMinus
<1>5. ValueOf(((p \cap class) \ (in \cap class)) \cup (out \cap class))
        = ValueOf((p \cap class) \ (in \cap class)) + ValueOf(out \cap class)
  <2> DEFINE a == (p \cap class) \ (in \cap class)
             b == out \cap class
  <2>1. a \subseteq Coins /\ b \subseteq Coins /\ a \cap b = {}
    OBVIOUS
  <2>2. IsFiniteSet(a) /\ IsFiniteSet(b)
    BY <1>1
  <2> HIDE DEF a, b
  <2>3. ValueOf(a \cup b) = ValueOf(a) + ValueOf(b)
    BY <2>1, <2>2, ValueUnion
  <2> QED BY <2>3 DEF a, b
<1> QED BY <1>3, <1>4, <1>5 DEF Exchanged

-----------------------------------------------------------------------------
(* Building balanced transactions                                          *)

\* No coin, or one of that color, owner and value.
Part(coins, color, owner, value) ==
  \/ coins = {} /\ value = 0
  \/ \E c \in Coins : /\ coins = {c}
                      /\ c.color = color
                      /\ c.owner = owner
                      /\ c.value = value

\* A part of a transaction is finitely many coins of its value.
LEMMA PartValue ==
  ASSUME NEW coins, NEW color, NEW owner, NEW value, Part(coins, color, owner, value)
  PROVE  /\ coins \subseteq Coins /\ IsFiniteSet(coins)
         /\ \A c \in coins : c.color = color /\ c.owner = owner
         /\ ValueOf(coins) = value
         /\ value \in Nat
<1>1. CASE coins = {} /\ value = 0
  BY <1>1, ValueEmpty, FS_EmptySet
<1>2. CASE coins # {}
  <2>1. PICK c \in Coins : /\ coins = {c} /\ c.color = color
                          /\ c.owner = owner /\ c.value = value
    BY <1>2 DEF Part
  <2>2. IsFiniteSet({c}) /\ ValueOf({c}) = c.value
    BY <2>1, FS_Singleton, ValueOne
  <2>3. c.value \in Nat
    BY DEF Coins
  <2> QED BY <2>1, <2>2, <2>3
<1> QED BY <1>1, <1>2 DEF Part

\* What a wallet puts in, what is destroyed of it, and the two coins it may get
\* back: from the contract, and from itself.
PartsFor(tx, color, client, gone, passed, change) ==
  /\ client \in Clients
  /\ tx.outputs = gone \cup (passed \cup change)
  /\ passed \cap change = {}
  /\ Part(gone, color, ZeroKey, tx.amount - tx.delta)
  /\ \E v, p, w : /\ Part(tx.inputs, color, client, v)
                  /\ Part(passed, color, client, p)
                  /\ Part(change, color, client, w)
                  /\ p + w = v - tx.amount

\* A transaction put together of balanced parts moves value.
LEMMA PartsMove ==
  ASSUME NEW tx, NEW color, NEW client, NEW gone, NEW passed, NEW change,
         PartsFor(tx, color, client, gone, passed, change)
  PROVE  MovesFor(tx, color, client)
<1>1. PICK v, p, w : /\ Part(tx.inputs, color, client, v)
                     /\ Part(passed, color, client, p)
                     /\ Part(change, color, client, w)
                     /\ p + w = v - tx.amount
  BY DEF PartsFor
<1>2. /\ Part(gone, color, ZeroKey, tx.amount - tx.delta)
      /\ tx.outputs = gone \cup (passed \cup change)
      /\ passed \cap change = {}
      /\ client \in Clients
  BY DEF PartsFor
<1>3. /\ passed \subseteq Coins /\ IsFiniteSet(passed) /\ ValueOf(passed) = p
      /\ \A c \in passed : c.color = color /\ c.owner = client
  BY <1>1, PartValue
<1>4. /\ change \subseteq Coins /\ IsFiniteSet(change) /\ ValueOf(change) = w
      /\ \A c \in change : c.color = color /\ c.owner = client
  BY <1>1, PartValue
<1>5. /\ gone \subseteq Coins /\ IsFiniteSet(gone)
      /\ ValueOf(gone) = tx.amount - tx.delta
      /\ \A c \in gone : c.color = color /\ c.owner = ZeroKey
  BY <1>2, PartValue
<1>6. /\ tx.inputs \subseteq Coins /\ IsFiniteSet(tx.inputs) /\ ValueOf(tx.inputs) = v
      /\ \A c \in tx.inputs : c.color = color /\ c.owner = client
  BY <1>1, PartValue
<1>7. ValueOf(passed \cup change) = p + w
  BY <1>2, <1>3, <1>4, ValueUnion
<1>8. /\ OwnedBy(tx.outputs, client) = passed \cup change
      /\ OwnedBy(tx.outputs, ZeroKey) = gone
  BY <1>2, <1>3, <1>4, <1>5, PartiesAssumption DEF OwnedBy
<1>9. IsFiniteSet(tx.outputs)
  <2>1. IsFiniteSet(passed \cup change)
    BY <1>3, <1>4, FS_Union
  <2>2. IsFiniteSet(gone \cup (passed \cup change))
    BY <1>5, <2>1, FS_Union
  <2> QED BY <1>2, <2>2
<1> QED BY <1>1, <1>2, <1>3, <1>4, <1>5, <1>6, <1>7, <1>8, <1>9 DEF MovesFor

\* What funds a transaction is a part, and so is the change of it.
LEMMA FundingParts ==
  ASSUME TypeOK, NEW client \in Clients, NEW color, NEW value \in Nat,
         NEW inputs \in Funding(client, color, value)
  PROVE  \E v \in Nat : /\ Part(inputs, color, client, v)
                        /\ Part(WalletChange(inputs, value), color, client, v - value)
                        /\ \A c \in WalletChange(inputs, value) : LastTag(c.nonce) = WalletTag
<1>1. CASE value = 0
  <2>1. inputs = {} /\ WalletChange(inputs, value) = {}
    BY <1>1 DEF Funding, WalletChange
  <2> QED BY <1>1, <2>1 DEF Part
<1>2. CASE value # 0
  <2>1. PICK i \in pool : /\ inputs = {i} /\ i.owner = client
                          /\ i.color = color /\ i.value >= value
    BY <1>2 DEF Funding
  <2>2. i \in Coins /\ i.nonce \in Nonces /\ i.color \in Colors /\ i.value \in Nat
    BY DEF TypeOK, Coins
  <2>3. Part(inputs, color, client, i.value)
    BY <2>1, <2>2 DEF Part
  <2> DEFINE w == WalletCoin(WalletTag, i, i.value - value, i.owner)
  <2>4. /\ w.nonce = Append(i.nonce, WalletTag) /\ w.color = color
        /\ w.value = i.value - value /\ w.owner = client
    BY <2>1 DEF WalletCoin, Coin
  <2>5. w \in Coins
    <3>1. i.value - value \in Nat
      BY <2>1, <2>2
    <3>2. Append(i.nonce, WalletTag) \in Nonces /\ client \in Owners
      BY <2>2, AppendNonce, Tags DEF Owners
    <3> QED BY <2>1, <2>2, <3>1, <3>2 DEF WalletCoin, Coin, Coins
  <2>6. LastTag(w.nonce) = WalletTag
    BY <2>2, <2>4, TagOfAppend, Tags
  <2>7. WalletChange(inputs, value) = IF i.value > value THEN {w} ELSE {}
    BY <2>1 DEF WalletChange
  <2> HIDE DEF w
  <2>8. Part(WalletChange(inputs, value), color, client, i.value - value)
    <3>1. CASE i.value > value
      BY <2>4, <2>5, <2>7, <3>1 DEF Part
    <3>2. CASE ~(i.value > value)
      BY <2>1, <2>2, <2>7, <3>2 DEF Part
    <3> QED BY <3>1, <3>2
  <2>9. \A c \in WalletChange(inputs, value) : LastTag(c.nonce) = WalletTag
    BY <2>6, <2>7
  <2> QED BY <2>2, <2>3, <2>8, <2>9
<1> QED BY <1>1, <1>2

\* A transaction of the one coin of a mint issues it.
LEMMA MintIssues ==
  ASSUME NEW recipient, NEW amount \in 0 .. MaxUint64, NEW nonce, NEW tx,
         tx.inputs = {}, tx.outputs = {MintedCoin(amount, nonce, recipient)},
         tx.amount = amount, tx.kind = MintKind(recipient),
         tx.writes.color = TokenColor
  PROVE  tx.kind \in MintKinds /\ Issues(tx)
<1> DEFINE o == MintedCoin(amount, nonce, recipient)
<1>1. o.color = TokenColor /\ o.value = amount /\ o.owner = OwnerOf(recipient)
  BY DEF MintedCoin, Coin
<1>2. /\ MintKind(recipient) \in MintKinds
      /\ (OwnerOf(recipient) \in Clients <=> MintKind(recipient) = "mint")
  BY DEF MintKind, MintKinds
<1>3. tx.outputs = {o}
  OBVIOUS
<1> HIDE DEF o
<1> QED BY <1>1, <1>2, <1>3 DEF Issues

\* callTx.mint submits one coin of the amount.
LEMMA CallMintBalanced ==
  ASSUME TypeOK, CallMint
  PROVE  \E tx : Submit(tx) /\ Balanced(tx)
<1>1. PICK recipient \in Recipients, amount \in Amounts :
        /\ MintSucceeds(ledger, recipient, amount)
        /\ Submit(ContractTx(MintKind(recipient), amount,
                             Mint(ledger, recipient, amount), {}, {}))
  BY DEF CallMint
<1> DEFINE call  == Mint(ledger, recipient, amount)
           tx    == ContractTx(MintKind(recipient), amount, call, {}, {})
           nonce == EvolveNonce(ledger.counter + 1, ledger.nonce)
<1>2. /\ tx.inputs = {} /\ tx.outputs = {MintedCoin(amount, nonce, recipient)}
      /\ tx.amount = amount /\ tx.kind = MintKind(recipient)
  BY DEF ContractTx, Mint
<1>3. tx.writes.color = TokenColor
  <2>1. ledger.color \in {ZeroColor, TokenColor}
    BY DEF TypeOK, Ledgers
  <2>2. tx.writes.color = IF ledger.color = ZeroColor THEN TokenColor ELSE ledger.color
    BY DEF ContractTx, Mint
  <2> QED BY <2>1, <2>2
<1>4. amount \in 0 .. MaxUint64
  BY <1>1 DEF MintSucceeds
<1>5. Submit(tx)
  BY <1>1
<1> HIDE DEF tx, nonce
<1>6. Balanced(tx)
  BY <1>2, <1>3, <1>4, MintIssues DEF Balanced
<1> QED BY <1>5, <1>6

\* burn sends the amount to the zero key and the rest back to its caller, whatever
\* cells it is run on; a wallet that pays for its coin gets the change of that.
LEMMA BurnMoves ==
  ASSUME TypeOK, NEW s, NEW client \in Clients, NEW coin \in CoinArguments(client),
         NEW amount \in Nat, amount <= coin.value,
         NEW inputs \in Funding(client, coin.color, coin.value), NEW tx,
         tx.inputs = inputs, tx.amount = amount, tx.delta = 0,
         tx.outputs = Burn(s, client, coin, amount).outputs
                        \cup WalletChange(inputs, coin.value)
  PROVE  MovesFor(tx, coin.color, client)
<1> DEFINE call   == Burn(s, client, coin, amount)
           change == WalletChange(inputs, coin.value)
           rest   == Coin(ChangeNonce(coin.nonce), coin.color, coin.value - amount, Self)
           burned == SendShielded(coin, ZeroKey, amount)
           sent   == Coin(SentNonce(coin.nonce), coin.color, amount, ZeroKey)
           back   == Coin(SentNonce(rest.nonce), coin.color, coin.value - amount, client)
           returned == {SendShielded(c, client, c.value) : c \in burned.change}
           passed == {r.sent : r \in returned}
<1>4. /\ coin \in Coins /\ coin.nonce \in Nonces /\ coin.color \in Colors
      /\ coin.value \in Nat
  BY DEF CoinArguments, TypeOK, Coins
<1>6. tx.outputs = call.outputs \cup change
  OBVIOUS
<1>7. call.outputs = {sent} \cup passed
  BY DEF Burn, SendShielded
<1>8. passed = IF coin.value - amount = 0 THEN {} ELSE {back}
  <2>1. burned.change = IF coin.value - amount = 0 THEN {} ELSE {rest}
    BY DEF SendShielded
  <2>2. SendShielded(rest, client, rest.value).sent = back
    BY DEF SendShielded, Coin
  <2> HIDE DEF burned, rest, back
  <2>3. CASE coin.value - amount = 0
    BY <2>1, <2>3
  <2>4. CASE coin.value - amount # 0
    <3>1. returned = {SendShielded(rest, client, rest.value)}
      BY <2>1, <2>4
    <3> QED BY <2>2, <2>4, <3>1
  <2> QED BY <2>3, <2>4
<1>9. /\ rest.nonce = Append(coin.nonce, ChangeTag) /\ rest.nonce \in Nonces
      /\ sent.color = coin.color /\ sent.value = amount /\ sent.owner = ZeroKey
      /\ back.color = coin.color /\ back.value = coin.value - amount /\ back.owner = client
      /\ back.nonce = Append(rest.nonce, SentTag)
  BY <1>4, AppendNonce, Tags DEF Coin, ChangeNonce, SentNonce
<1>10. sent \in Coins /\ back \in Coins
  <2> HIDE DEF rest
  <2>1. /\ SentNonce(coin.nonce) \in Nonces /\ SentNonce(rest.nonce) \in Nonces
        /\ ZeroKey \in Owners /\ client \in Owners /\ coin.value - amount \in Nat
    <3>1. coin.value - amount \in Nat
      BY <1>4
    <3>2. SentNonce(coin.nonce) \in Nonces /\ SentNonce(rest.nonce) \in Nonces
      BY <1>4, <1>9, AppendNonce, Tags DEF SentNonce
    <3> QED BY <3>1, <3>2 DEF Owners
  <2> QED BY <1>4, <2>1 DEF Coin, Coins
<1>11. LastTag(back.nonce) = SentTag
  BY <1>9, TagOfAppend, Tags
<1> HIDE DEF call, change, rest, burned, sent, back, returned, passed
<1>13. PICK v \in Nat :
         /\ Part(inputs, coin.color, client, v)
         /\ Part(change, coin.color, client, v - coin.value)
         /\ \A c \in change : LastTag(c.nonce) = WalletTag
  BY <1>4, FundingParts DEF change
<1>14. Part({sent}, coin.color, ZeroKey, amount)
  BY <1>9, <1>10 DEF Part
<1>15. Part(passed, coin.color, client, coin.value - amount)
  BY <1>8, <1>9, <1>10 DEF Part
<1>16. passed \cap change = {}
  BY <1>8, <1>11, <1>13, Tags
<1>17. tx.amount - tx.delta = amount
  OBVIOUS
<1>18. (coin.value - amount) + (v - coin.value) = v - tx.amount
  BY <1>4
<1>20. tx.outputs = {sent} \cup (passed \cup change)
  BY <1>6, <1>7
<1>21. PartsFor(tx, coin.color, client, {sent}, passed, change)
  BY <1>13, <1>14, <1>15, <1>16, <1>17, <1>18, <1>20 DEF PartsFor
<1> QED BY <1>21, PartsMove

\* callTx.burn submits such a transaction; before the first mint it burns nothing.
LEMMA CallBurnBalanced ==
  ASSUME TypeOK, ColorTells, CallBurn
  PROVE  \E tx : Submit(tx) /\ Balanced(tx)
<1>1. PICK client \in Clients, amount \in Amounts :
        \E coin \in CoinArguments(client) :
          /\ BurnSucceeds(ledger, coin, amount)
          /\ \E inputs \in Funding(client, coin.color, coin.value) :
               Submit(ContractTx("burn", amount, Burn(ledger, client, coin, amount),
                                 inputs, WalletChange(inputs, coin.value)))
  BY DEF CallBurn
<1>2. PICK coin \in CoinArguments(client) :
        /\ BurnSucceeds(ledger, coin, amount)
        /\ \E inputs \in Funding(client, coin.color, coin.value) :
             Submit(ContractTx("burn", amount, Burn(ledger, client, coin, amount),
                               inputs, WalletChange(inputs, coin.value)))
  BY <1>1
<1>3. PICK inputs \in Funding(client, coin.color, coin.value) :
        Submit(ContractTx("burn", amount, Burn(ledger, client, coin, amount),
                          inputs, WalletChange(inputs, coin.value)))
  BY <1>2
<1> DEFINE tx == ContractTx("burn", amount, Burn(ledger, client, coin, amount),
                            inputs, WalletChange(inputs, coin.value))
<1>4. /\ amount \in Nat /\ amount <= coin.value /\ coin.color = ledger.color
      /\ amount <= ledger.totalSupply /\ ledger.totalSupply \in Nat
      /\ ledger.color \in {ZeroColor, TokenColor}
  BY <1>2, ArgumentsAssumption DEF BurnSucceeds, TypeOK, Ledgers, CoinArguments, Coins
<1>5. /\ tx.inputs = inputs /\ tx.kind = "burn" /\ tx.amount = amount /\ tx.delta = 0
      /\ tx.outputs = Burn(ledger, client, coin, amount).outputs
                        \cup WalletChange(inputs, coin.value)
  BY DEF ContractTx, Burn
<1>6. Submit(tx)
  BY <1>3
<1> HIDE DEF tx
<1>7. MovesFor(tx, coin.color, client)
  BY <1>4, <1>5, BurnMoves
<1>8. Harmless(tx, coin.color)
  BY <1>4, <1>5 DEF ColorTells, Harmless
<1>9. Balanced(tx)
  BY <1>4, <1>5, <1>7, <1>8 DEF Balanced, Moves, MintKinds
<1> QED BY <1>6, <1>9

\* A transfer to the zero coin key.
LEMMA HiddenBurnBalanced ==
  ASSUME TypeOK, HiddenBurn
  PROVE  \E tx : Submit(tx) /\ Balanced(tx)
<1>1. PICK client \in Clients, amount \in Amounts \ {0} :
        \E inputs \in Funding(client, TokenColor, amount) :
          Submit(WalletTx("hidden-burn", amount, inputs,
                   { WalletCoin(HiddenTag, c, amount, ZeroKey) : c \in inputs }
                     \cup WalletChange(inputs, amount), 0))
  BY DEF HiddenBurn
<1>2. PICK inputs \in Funding(client, TokenColor, amount) :
        Submit(WalletTx("hidden-burn", amount, inputs,
                 { WalletCoin(HiddenTag, c, amount, ZeroKey) : c \in inputs }
                   \cup WalletChange(inputs, amount), 0))
  BY <1>1
<1> DEFINE hidden == { WalletCoin(HiddenTag, c, amount, ZeroKey) : c \in inputs }
           change == WalletChange(inputs, amount)
           tx     == WalletTx("hidden-burn", amount, inputs, hidden \cup change, 0)
<1>3. /\ tx.inputs = inputs /\ tx.kind = "hidden-burn" /\ tx.amount = amount
      /\ tx.outputs = hidden \cup change /\ tx.delta = 0
  BY DEF WalletTx
<1>4. amount \in Nat /\ amount # 0
  BY ArgumentsAssumption
<1>5. PICK i \in pool : inputs = {i} /\ i.owner = client /\ i.color = TokenColor
  BY <1>4 DEF Funding
<1>6. i \in Coins /\ i.nonce \in Nonces
  BY DEF TypeOK, Coins
<1>7. Part(hidden, TokenColor, ZeroKey, amount)
  <2> DEFINE h == WalletCoin(HiddenTag, i, amount, ZeroKey)
  <2>1. hidden = {h}
    BY <1>5
  <2>2. h.color = TokenColor /\ h.owner = ZeroKey /\ h.value = amount
    BY <1>5 DEF WalletCoin, Coin
  <2>3. h \in Coins
    <3>1. Append(i.nonce, HiddenTag) \in Nonces /\ ZeroKey \in Owners
      BY <1>6, AppendNonce, Tags DEF Owners
    <3> QED BY <1>4, <1>6, <3>1 DEF WalletCoin, Coin, Coins
  <2> HIDE DEF h, hidden
  <2> QED BY <2>1, <2>2, <2>3 DEF Part
<1>8. Submit(tx)
  BY <1>2
<1> HIDE DEF tx, hidden, change
<1>9. PICK v \in Nat : /\ Part(inputs, TokenColor, client, v)
                       /\ Part(change, TokenColor, client, v - amount)
  BY <1>4, FundingParts DEF change
<1>10. Part({}, TokenColor, client, 0)
  BY DEF Part
<1>11. /\ tx.amount - tx.delta = amount /\ 0 + (v - amount) = v - tx.amount
       /\ tx.outputs = hidden \cup ({} \cup change) /\ {} \cap change = {}
  BY <1>3, <1>4
<1>12. PartsFor(tx, TokenColor, client, hidden, {}, change)
  <2>1. \E x, p, w : /\ Part(tx.inputs, TokenColor, client, x)
                     /\ Part({}, TokenColor, client, p)
                     /\ Part(change, TokenColor, client, w)
                     /\ p + w = x - tx.amount
    BY <1>3, <1>9, <1>10, <1>11
  <2> QED BY <1>7, <1>11, <2>1 DEF PartsFor
<1>13. Balanced(tx)
  BY <1>3, <1>12, PartsMove DEF Balanced, Moves, Harmless, MintKinds
<1> QED BY <1>8, <1>13

\* A whole coin into an offer with no output.
LEMMA ProtocolBurnBalanced ==
  ASSUME TypeOK, ProtocolBurn
  PROVE  \E tx : Submit(tx) /\ Balanced(tx)
<1>1. PICK coin \in pool :
        /\ coin.owner \in Clients
        /\ coin.color = TokenColor
        /\ Submit(WalletTx("protocol-burn", coin.value, {coin}, {}, coin.value))
  BY DEF ProtocolBurn
<1> DEFINE tx == WalletTx("protocol-burn", coin.value, {coin}, {}, coin.value)
<1>2. /\ tx.inputs = {coin} /\ tx.outputs = {} /\ tx.kind = "protocol-burn"
      /\ tx.amount = coin.value /\ tx.delta = coin.value
  BY DEF WalletTx
<1>3. Submit(tx)
  BY <1>1
<1> HIDE DEF tx
<1>4. coin \in Coins /\ coin.value \in Nat
  BY DEF TypeOK, Coins
<1>5. /\ Part(tx.inputs, TokenColor, coin.owner, coin.value)
      /\ Part({}, TokenColor, coin.owner, 0)
      /\ Part({}, TokenColor, ZeroKey, 0)
  BY <1>1, <1>2, <1>4 DEF Part
<1>6. tx.amount - tx.delta = 0 /\ 0 + 0 = coin.value - tx.amount
  BY <1>2, <1>4
<1>7. PartsFor(tx, TokenColor, coin.owner, {}, {}, {})
  BY <1>1, <1>2, <1>5, <1>6 DEF PartsFor
<1>8. Balanced(tx)
  BY <1>1, <1>2, <1>7, PartsMove DEF Balanced, Moves, Harmless, MintKinds
<1> QED BY <1>3, <1>8

-----------------------------------------------------------------------------
(* Landing them                                                            *)

\* The coins a valid transaction creates are new.
LEMMA OutputsNew ==
  ASSUME TypeOK, ApartInv, NEW tx \in pending, CounterKept(tx), Valid(tx)
  PROVE  tx.outputs \cap pool = {}
<1>1. TxOK(tx) /\ (IF tx.kind \in MintKinds THEN MintShape(tx) ELSE Descends(tx))
  BY DEF TypeOK, ApartInv, PendingApart
<1>2. CASE tx.kind \in MintKinds
  <2>1. tx.reads.counter = ledger.counter
    BY <1>1, <1>2 DEF CounterKept, Valid, ReadsMatch
  <2>2. \A o \in tx.outputs : Fresh(o.nonce)
    BY <1>1, <1>2, <2>1, MintedFresh DEF MintShape
  <2> QED BY <2>2 DEF Fresh, Known
<1>3. CASE tx.kind \notin MintKinds
  BY <1>1, <1>3, ChildrenFresh DEF Fresh, Known
<1> QED BY <1>2, <1>3

\* Whose coins, of which colors.
Class(colors, owners) == {c \in Coins : c.color \in colors /\ c.owner \in owners}

\* What a balanced transaction takes from a class of coins.
Taken(tx, class) == ValueOf(tx.inputs \cap class) - ValueOf(tx.outputs \cap class)

\* What a mint takes out of a class of coins: minus its amount, if its coin is in it.
LEMMA IssuesTakes ==
  ASSUME NEW tx, TxOK(tx), Issues(tx), NEW colors, NEW owners
  PROVE  /\ IsFiniteSet(tx.outputs)
         /\ \E o \in tx.outputs :
              /\ (o.owner \in Clients <=> tx.kind = "mint")
              /\ Taken(tx, Class(colors, owners)) =
                   IF TokenColor \in colors /\ o.owner \in owners
                     THEN 0 - tx.amount ELSE 0
<1>1. PICK o \in tx.outputs : /\ tx.outputs = {o} /\ o.color = TokenColor
                               /\ o.value = tx.amount
                               /\ (o.owner \in Clients <=> tx.kind = "mint")
  BY DEF Issues
<1>2. tx.outputs = {o}
  BY <1>1
<1>3. o \in Coins /\ o.color = TokenColor /\ o.value = tx.amount
  BY <1>1 DEF TxOK
<1>4. tx.inputs = {} /\ tx.amount \in Nat
  BY DEF TxOK, Issues
<1>5. IsFiniteSet(tx.outputs)
  BY <1>2, FS_Singleton
<1> DEFINE class == Class(colors, owners)
<1>6. ValueOf(tx.inputs \cap class) = 0
  <2>1. tx.inputs \cap class = {}
    BY <1>4
  <2> QED BY <2>1, ValueEmpty
<1>7. Taken(tx, class) = IF TokenColor \in colors /\ o.owner \in owners
                           THEN 0 - tx.amount ELSE 0
  <2>1. CASE TokenColor \in colors /\ o.owner \in owners
    <3>1. tx.outputs \cap class = {o}
      BY <1>2, <1>3, <2>1 DEF Class
    <3>2. ValueOf(tx.outputs \cap class) = tx.amount
      BY <1>3, <3>1, ValueOne
    <3> QED BY <1>4, <1>6, <2>1, <3>2 DEF Taken
  <2>2. CASE ~(TokenColor \in colors /\ o.owner \in owners)
    <3>1. tx.outputs \cap class = {}
      BY <1>2, <1>3, <2>2 DEF Class
    <3>2. ValueOf(tx.outputs \cap class) = 0
      BY <3>1, ValueEmpty
    <3> QED BY <1>6, <2>2, <3>2 DEF Taken
  <2> QED BY <2>1, <2>2
<1> HIDE DEF class
<1> QED BY <1>1, <1>5, <1>7 DEF class

\* What a transfer or burn takes out of a class: what the class has of both its ends.
LEMMA MovesTakes ==
  ASSUME NEW tx, TxOK(tx), NEW color, NEW client \in Clients, MovesFor(tx, color, client),
         NEW colors, NEW owners
  PROVE  /\ color \notin colors => Taken(tx, Class(colors, owners)) = 0
         /\ color \in colors /\ client \in owners /\ ZeroKey \in owners =>
              Taken(tx, Class(colors, owners)) = tx.delta
         /\ color \in colors /\ client \in owners /\ ZeroKey \notin owners =>
              Taken(tx, Class(colors, owners)) = tx.amount
         /\ color \in colors /\ client \notin owners /\ ZeroKey \in owners =>
              Taken(tx, Class(colors, owners)) = tx.delta - tx.amount
<1> DEFINE class == Class(colors, owners)
           kept  == OwnedBy(tx.outputs, client)
           gone  == OwnedBy(tx.outputs, ZeroKey)
<1>1. /\ tx.inputs \subseteq Coins /\ IsFiniteSet(tx.inputs)
      /\ tx.outputs \subseteq Coins /\ IsFiniteSet(tx.outputs)
      /\ tx.amount \in Nat /\ tx.delta \in Int
  BY DEF TxOK, MovesFor
<1>2. /\ tx.outputs = kept \cup gone /\ kept \cap gone = {}
      /\ IsFiniteSet(kept) /\ IsFiniteSet(gone)
      /\ kept \subseteq Coins /\ gone \subseteq Coins
  <2>1. kept \subseteq tx.outputs /\ gone \subseteq tx.outputs
    BY DEF OwnedBy
  <2>2. IsFiniteSet(kept) /\ IsFiniteSet(gone)
    BY <1>1, <2>1, FS_Subset
  <2>3. tx.outputs = kept \cup gone /\ kept \cap gone = {}
    BY PartiesAssumption DEF OwnedBy, MovesFor
  <2> QED BY <1>1, <2>1, <2>2, <2>3
<1>3. /\ ValueOf(kept) = ValueOf(tx.inputs) - tx.amount
      /\ ValueOf(gone) = tx.amount - tx.delta
      /\ ValueOf(tx.inputs) \in Nat
  BY <1>1, ValueNat DEF MovesFor
<1>4. ValueOf(tx.outputs) = ValueOf(kept) + ValueOf(gone)
  BY <1>2, ValueUnion
<1>5. /\ \A c \in tx.inputs : c.color = color /\ c.owner = client
      /\ \A c \in kept : c.color = color /\ c.owner = client
      /\ \A c \in gone : c.color = color /\ c.owner = ZeroKey
  BY DEF OwnedBy, MovesFor
<1> HIDE DEF kept, gone
<1>6. CASE color \notin colors
  <2>1. tx.inputs \cap class = {} /\ tx.outputs \cap class = {}
    BY <1>2, <1>5, <1>6 DEF Class
  <2> QED BY <1>6, <2>1, ValueEmpty DEF Taken
<1>7. CASE color \in colors /\ client \in owners /\ ZeroKey \in owners
  <2>1. tx.inputs \cap class = tx.inputs /\ tx.outputs \cap class = tx.outputs
    BY <1>1, <1>2, <1>5, <1>7 DEF Class
  <2>2. Taken(tx, class) = ValueOf(tx.inputs) - ValueOf(tx.outputs)
    BY <2>1 DEF Taken
  <2> QED BY <1>1, <1>3, <1>4, <1>7, <2>2
<1>8. CASE color \in colors /\ client \in owners /\ ZeroKey \notin owners
  <2>1. tx.inputs \cap class = tx.inputs /\ tx.outputs \cap class = kept
    BY <1>1, <1>2, <1>5, <1>8 DEF Class
  <2>2. Taken(tx, class) = ValueOf(tx.inputs) - ValueOf(kept)
    BY <2>1 DEF Taken
  <2> QED BY <1>1, <1>3, <1>8, <2>2
<1>9. CASE color \in colors /\ client \notin owners /\ ZeroKey \in owners
  <2>1. tx.inputs \cap class = {} /\ tx.outputs \cap class = gone
    BY <1>1, <1>2, <1>5, <1>9 DEF Class
  <2>2. Taken(tx, class) = 0 - ValueOf(gone)
    BY <2>1, ValueEmpty DEF Taken
  <2> QED BY <1>1, <1>3, <1>9, <2>2
<1> QED BY <1>6, <1>7, <1>8, <1>9

Spendable(coins) == {c \in OfColor(coins, TokenColor) : c.owner \in Clients}

Zeroed(coins) == {c \in coins : c.color # TokenColor /\ c.owner = ZeroKey}

\* The amounts the properties speak of are values of classes.
LEMMA Classes ==
  ASSUME NEW coins, coins \subseteq Coins
  PROVE  /\ \A color : OfColor(coins, color) = coins \cap Class({color}, Owners)
         /\ Spendable(coins) = coins \cap Class({TokenColor}, Clients)
         /\ Zeroed(coins) = coins \cap Class(Colors \ {TokenColor}, {ZeroKey})
<1>1. \A color : OfColor(coins, color) = coins \cap Class({color}, Owners)
  BY DEF OfColor, Class, Coins
<1>2. Spendable(coins) = coins \cap Class({TokenColor}, Clients)
  BY DEF Spendable, OfColor, Class
<1>3. Zeroed(coins) = coins \cap Class(Colors \ {TokenColor}, {ZeroKey})
  BY DEF Zeroed, Class, Coins
<1> QED BY <1>1, <1>2, <1>3

\* What a wallet can spend of a transaction's amount once it has landed.
Spread(tx) ==
  IF tx.kind = "mint" THEN tx.amount
  ELSE IF tx.kind = "stranded-mint" THEN 0 ELSE 0 - tx.amount

\* What landing tx makes of the coins p.
LandsAs(tx, p, q) ==
  /\ IsFiniteSet(q) /\ q \subseteq Coins
  /\ \A color \in Colors :
       ValueOf(OfColor(q, color))
         = ValueOf(OfColor(p, color)) - (IF color = TokenColor THEN tx.delta ELSE 0)
  /\ ValueOf(Spendable(q)) = ValueOf(Spendable(p)) + Spread(tx)
  /\ ValueOf(Zeroed(q)) = ValueOf(Zeroed(p))

\* Landing takes from every class of coins what the transaction takes.
LEMMA LandingTakes ==
  ASSUME TypeOK, ApartInv, IsFiniteSet(pool), NEW tx \in pending, CounterKept(tx),
         Valid(tx), IsFiniteSet(tx.outputs), NEW q, q = (pool \ tx.inputs) \cup tx.outputs
  PROVE  /\ IsFiniteSet(q) /\ q \subseteq Coins
         /\ \A class : /\ ValueOf(q \cap class) = ValueOf(pool \cap class) - Taken(tx, class)
                       /\ ValueOf(pool \cap class) \in Nat
<1>1. TxOK(tx) /\ tx.inputs \subseteq pool /\ pool \subseteq Coins
  BY DEF TypeOK, Valid
<1>2. tx.outputs \subseteq Coins
  BY <1>1 DEF TxOK
<1>3. tx.outputs \cap pool = {}
  BY OutputsNew
<1>5. q \subseteq Coins
  BY <1>1, <1>2
<1>6. IsFiniteSet(q)
  <2>1. IsFiniteSet(pool \ tx.inputs)
    BY FS_Subset
  <2> QED BY <2>1, FS_Union
<1>7. ASSUME NEW class
      PROVE  /\ ValueOf(q \cap class) = ValueOf(pool \cap class) - Taken(tx, class)
             /\ ValueOf(pool \cap class) \in Nat
  <2>1. /\ tx.inputs \cap class \subseteq Coins /\ IsFiniteSet(tx.inputs \cap class)
        /\ tx.outputs \cap class \subseteq Coins /\ IsFiniteSet(tx.outputs \cap class)
        /\ pool \cap class \subseteq Coins /\ IsFiniteSet(pool \cap class)
    <3>1. /\ tx.inputs \cap class \subseteq pool /\ tx.outputs \cap class \subseteq tx.outputs
          /\ pool \cap class \subseteq pool
      BY <1>1
    <3> QED BY <1>1, <1>2, <3>1, FS_Subset
  <2>2. /\ ValueOf(tx.inputs \cap class) \in Nat
        /\ ValueOf(tx.outputs \cap class) \in Nat
        /\ ValueOf(pool \cap class) \in Nat
    BY <2>1, ValueNat
  <2>3. ValueOf(q \cap class) = ValueOf(pool \cap class) - ValueOf(tx.inputs \cap class)
                                 + ValueOf(tx.outputs \cap class)
    <3>1. Exchanged(pool, tx.inputs, tx.outputs, class)
      BY <1>1, <1>2, <1>3, ValueLands
    <3> QED BY <3>1 DEF Exchanged
  <2> QED BY <2>2, <2>3 DEF Taken
<1> QED BY <1>5, <1>6, <1>7

\* A balanced transaction exchanges its inputs for its outputs.
LEMMA BalancedLands ==
  ASSUME TypeOK, ApartInv, IsFiniteSet(pool), NEW tx \in pending, InFlightOK(tx),
         Balanced(tx), Valid(tx)
  PROVE  LandsAs(tx, pool, (pool \ tx.inputs) \cup tx.outputs)
<1>1. TxOK(tx) /\ tx.inputs \subseteq pool /\ pool \subseteq Coins
  BY DEF TypeOK, Valid
<1>2. tx.outputs \subseteq Coins /\ tx.amount \in Nat /\ tx.delta \in Int
  BY <1>1 DEF TxOK
<1>3. CounterKept(tx)
  BY <1>1, InFlightKeepsCounter
<1>4. IsFiniteSet(tx.outputs)
  <2>1. CASE Issues(tx)
    BY <1>1, <2>1, IssuesTakes
  <2>2. CASE Moves(tx)
    BY <2>2 DEF Moves, MovesFor
  <2> QED BY <2>1, <2>2 DEF Balanced
<1> DEFINE q == (pool \ tx.inputs) \cup tx.outputs
<1>5. /\ IsFiniteSet(q) /\ q \subseteq Coins
      /\ \A class : /\ ValueOf(q \cap class) = ValueOf(pool \cap class) - Taken(tx, class)
                    /\ ValueOf(pool \cap class) \in Nat
  BY <1>3, <1>4, LandingTakes
<1>7. ASSUME NEW class
      PROVE  /\ ValueOf(q \cap class) = ValueOf(pool \cap class) - Taken(tx, class)
             /\ ValueOf(pool \cap class) \in Nat
  BY <1>5
<1> HIDE DEF q
<1>8. /\ \A color \in Colors :
             Taken(tx, Class({color}, Owners)) = IF color = TokenColor THEN tx.delta ELSE 0
      /\ Taken(tx, Class({TokenColor}, Clients)) = 0 - Spread(tx)
      /\ Taken(tx, Class(Colors \ {TokenColor}, {ZeroKey})) = 0
  <2>1. CASE tx.kind \in MintKinds
    <3>1. Issues(tx) /\ tx.delta = 0 - tx.amount /\ tx.inputs = {}
      BY <1>1, <2>1 DEF Balanced, InFlightOK, Issues
    <3>2. ASSUME NEW color \in Colors
          PROVE  Taken(tx, Class({color}, Owners)) = IF color = TokenColor THEN tx.delta ELSE 0
      <4>1. PICK o \in tx.outputs :
              Taken(tx, Class({color}, Owners)) =
                IF TokenColor \in {color} /\ o.owner \in Owners THEN 0 - tx.amount ELSE 0
        BY <1>1, <3>1, IssuesTakes
      <4>2. o.owner \in Owners
        BY <1>2 DEF Coins
      <4> QED BY <3>1, <4>1, <4>2
    <3>3. Taken(tx, Class({TokenColor}, Clients)) = 0 - Spread(tx)
      <4>1. PICK o \in tx.outputs :
              /\ (o.owner \in Clients <=> tx.kind = "mint")
              /\ Taken(tx, Class({TokenColor}, Clients)) =
                   IF TokenColor \in {TokenColor} /\ o.owner \in Clients
                     THEN 0 - tx.amount ELSE 0
        BY <1>1, <3>1, IssuesTakes
      <4>2. CASE tx.kind = "mint"
        BY <4>1, <4>2 DEF Spread
      <4>3. CASE tx.kind = "stranded-mint"
        BY <4>1, <4>3 DEF Spread
      <4> QED BY <2>1, <4>2, <4>3 DEF MintKinds
    <3>4. Taken(tx, Class(Colors \ {TokenColor}, {ZeroKey})) = 0
      <4>1. PICK o \in tx.outputs :
              Taken(tx, Class(Colors \ {TokenColor}, {ZeroKey})) =
                IF TokenColor \in Colors \ {TokenColor} /\ o.owner \in {ZeroKey}
                  THEN 0 - tx.amount ELSE 0
        BY <1>1, <3>1, IssuesTakes
      <4> QED BY <4>1
    <3> QED BY <3>2, <3>3, <3>4
  <2>2. CASE tx.kind \notin MintKinds
    <3>1. PICK color \in {ZeroColor, TokenColor}, client \in Clients :
            MovesFor(tx, color, client) /\ Harmless(tx, color)
      BY <2>2 DEF Balanced, Moves
    <3>2. color # TokenColor => tx.amount = 0 /\ tx.delta = 0
      BY <3>1 DEF Harmless
    <3>3. Spread(tx) = 0 - tx.amount
      BY <2>2 DEF Spread, MintKinds
    <3>4. /\ client \in Owners /\ ZeroKey \in Owners
          /\ ZeroKey \notin Clients /\ client \notin {ZeroKey}
      BY PartiesAssumption DEF Owners
    <3>5. ASSUME NEW k \in Colors
          PROVE  Taken(tx, Class({k}, Owners)) = IF k = TokenColor THEN tx.delta ELSE 0
      BY <1>1, <3>1, <3>2, <3>4, MovesTakes
    <3>6. Taken(tx, Class({TokenColor}, Clients)) = 0 - Spread(tx)
      <4>1. CASE color = TokenColor
        <5>1. Taken(tx, Class({TokenColor}, Clients)) = tx.amount
          BY <1>1, <3>1, <3>4, <4>1, MovesTakes
        <5> QED BY <1>2, <3>3, <5>1
      <4>2. CASE color # TokenColor
        <5>1. Taken(tx, Class({TokenColor}, Clients)) = 0
          BY <1>1, <3>1, <4>2, MovesTakes
        <5> QED BY <3>2, <3>3, <4>2, <5>1
      <4> QED BY <4>1, <4>2
    <3>7. Taken(tx, Class(Colors \ {TokenColor}, {ZeroKey})) = 0
      <4>1. CASE color = TokenColor
        BY <1>1, <3>1, <4>1, MovesTakes
      <4>2. CASE color # TokenColor
        <5>1. color \in Colors \ {TokenColor}
          BY <4>2 DEF Colors
        <5>2. Taken(tx, Class(Colors \ {TokenColor}, {ZeroKey})) = tx.delta - tx.amount
          BY <1>1, <3>1, <3>4, <5>1, MovesTakes
        <5> QED BY <3>2, <4>2, <5>2
      <4> QED BY <4>1, <4>2
    <3> QED BY <3>5, <3>6, <3>7
  <2> QED BY <2>1, <2>2
<1>9. ASSUME NEW color \in Colors
      PROVE  ValueOf(OfColor(q, color))
               = ValueOf(OfColor(pool, color)) - (IF color = TokenColor THEN tx.delta ELSE 0)
  <2>1. /\ OfColor(q, color) = q \cap Class({color}, Owners)
        /\ OfColor(pool, color) = pool \cap Class({color}, Owners)
    BY <1>1, <1>5, Classes
  <2>2. ValueOf(q \cap Class({color}, Owners))
          = ValueOf(pool \cap Class({color}, Owners)) - Taken(tx, Class({color}, Owners))
    BY <1>7
  <2> QED BY <1>8, <2>1, <2>2
<1>10. ValueOf(Spendable(q)) = ValueOf(Spendable(pool)) + Spread(tx)
  <2>1. /\ Spendable(q) = q \cap Class({TokenColor}, Clients)
        /\ Spendable(pool) = pool \cap Class({TokenColor}, Clients)
    BY <1>1, <1>5, Classes
  <2>2. /\ ValueOf(q \cap Class({TokenColor}, Clients))
             = ValueOf(pool \cap Class({TokenColor}, Clients))
                 - Taken(tx, Class({TokenColor}, Clients))
        /\ ValueOf(pool \cap Class({TokenColor}, Clients)) \in Nat
    BY <1>7
  <2>3. Spread(tx) \in Int
    BY <1>2 DEF Spread
  <2>4. Taken(tx, Class({TokenColor}, Clients)) = 0 - Spread(tx)
    BY <1>8
  <2> DEFINE v == ValueOf(pool \cap Class({TokenColor}, Clients))
             w == ValueOf(q \cap Class({TokenColor}, Clients))
  <2>5. w = v - (0 - Spread(tx)) /\ v \in Nat
    BY <2>2, <2>4
  <2>6. ValueOf(Spendable(q)) = w /\ ValueOf(Spendable(pool)) = v
    BY <2>1
  <2> HIDE DEF v, w
  <2> QED BY <2>3, <2>5, <2>6
<1>11. ValueOf(Zeroed(q)) = ValueOf(Zeroed(pool))
  <2> DEFINE class == Class(Colors \ {TokenColor}, {ZeroKey})
  <2>1. Zeroed(q) = q \cap class /\ Zeroed(pool) = pool \cap class
    BY <1>1, <1>5, Classes
  <2>2. ValueOf(q \cap class) = ValueOf(pool \cap class) - Taken(tx, class)
        /\ ValueOf(pool \cap class) \in Nat
    BY <1>7
  <2>3. Taken(tx, class) = 0
    BY <1>8
  <2> HIDE DEF class
  <2> QED BY <2>1, <2>2, <2>3
<1>12. LandsAs(tx, pool, q)
  BY <1>5, <1>9, <1>10, <1>11 DEF LandsAs
<1> QED BY <1>12 DEF q

\* What landing tx adds to _totalSupply.
Added(tx) ==
  IF tx.kind \in MintKinds THEN tx.amount
  ELSE IF tx.kind = "burn" THEN 0 - tx.amount ELSE 0

\* Landing, as the supply views see it.
LandedAs(tx) ==
  /\ tx.kind \in Kinds /\ tx.amount \in Nat
  /\ tx.kind \in MintKinds => tx.amount \in 0 .. MaxUint64
  /\ LandsAs(tx, pool, pool')
  /\ published' = published - tx.delta
  /\ tx.delta = IF tx.kind \in MintKinds THEN 0 - tx.amount
                ELSE IF tx.kind = "protocol-burn" THEN tx.amount ELSE 0
  /\ ledger'.totalSupply = ledger.totalSupply + Added(tx)
  /\ ledger'.color = TokenColor \/ (ledger'.color = ledger.color /\ tx.kind \notin MintKinds)
  /\ pending' = pending \ {tx}

\* The ledger's step is the landing of a balanced transaction.
LEMMA LandIsLanding ==
  ASSUME Inv, ApartInv, SupplyInv, Land
  PROVE  \E tx \in pending : LandedAs(tx)
<1>1. PICK tx \in pending :
        /\ Valid(tx)
        /\ ledger' = Stored(tx)
        /\ pool' = (pool \ tx.inputs) \cup tx.outputs
        /\ pending' = pending \ {tx}
        /\ published' = published - tx.delta
  BY DEF Land
<1>2. TypeOK /\ TxOK(tx) /\ InFlightOK(tx) /\ Balanced(tx) /\ IsFiniteSet(pool)
  BY DEF Inv, TypeOK, TransactionsSound, SupplyInv
<1>3. LandsAs(tx, pool, pool')
  BY <1>1, <1>2, BalancedLands
<1>4. tx.kind \in Kinds /\ tx.amount \in Nat
  BY <1>2 DEF TxOK
<1>5. CASE tx.kind \in MintKinds
  <2>1. /\ DOMAIN tx.reads = Cells /\ DOMAIN tx.writes = Cells
        /\ tx.writes.totalSupply = tx.reads.totalSupply + tx.amount
        /\ tx.delta = 0 - tx.amount
    BY <1>2, <1>5 DEF InFlightOK
  <2>2. tx.writes.color = TokenColor /\ tx.amount \in 0 .. MaxUint64
    BY <1>2, <1>5 DEF Balanced, Issues
  <2>3. ledger.totalSupply = tx.reads.totalSupply
    BY <1>1, <2>1 DEF Valid, ReadsMatch, Cells
  <2>4. ledger'.totalSupply = tx.writes.totalSupply /\ ledger'.color = tx.writes.color
    BY <1>1, <2>1 DEF Stored, Cells
  <2> QED BY <1>1, <1>3, <1>4, <1>5, <2>1, <2>2, <2>3, <2>4 DEF LandedAs, Added
<1>6. CASE tx.kind = "burn"
  <2>1. /\ "totalSupply" \in DOMAIN tx.reads /\ DOMAIN tx.writes = {"totalSupply"}
        /\ tx.writes.totalSupply = tx.reads.totalSupply - tx.amount
        /\ tx.delta = 0
    BY <1>2, <1>6 DEF InFlightOK
  <2>2. ledger.totalSupply = tx.reads.totalSupply
    BY <1>1, <2>1 DEF Valid, ReadsMatch
  <2>3. ledger'.totalSupply = tx.writes.totalSupply /\ ledger'.color = ledger.color
    BY <1>1, <2>1 DEF Stored, Cells
  <2>4. ledger.totalSupply \in Int
    BY DEF Inv, TypeOK, Ledgers
  <2>5. ledger'.totalSupply = ledger.totalSupply + Added(tx)
    BY <1>4, <1>6, <2>1, <2>2, <2>3, <2>4 DEF Added, MintKinds
  <2> QED BY <1>1, <1>3, <1>4, <1>6, <2>1, <2>3, <2>5 DEF LandedAs, MintKinds
<1>7. CASE tx.kind \in {"hidden-burn", "protocol-burn"}
  <2>1. /\ DOMAIN tx.writes = {}
        /\ tx.delta = IF tx.kind = "protocol-burn" THEN tx.amount ELSE 0
    BY <1>2, <1>7 DEF InFlightOK
  <2>2. ledger'.totalSupply = ledger.totalSupply /\ ledger'.color = ledger.color
    BY <1>1, <2>1 DEF Stored, Cells
  <2>3. ledger.totalSupply \in Int
    BY DEF Inv, TypeOK, Ledgers
  <2>4. ledger'.totalSupply = ledger.totalSupply + Added(tx)
    BY <1>7, <2>2, <2>3 DEF Added, MintKinds
  <2> QED BY <1>1, <1>3, <1>4, <1>7, <2>1, <2>2, <2>4 DEF LandedAs, MintKinds
<1> QED BY <1>4, <1>5, <1>6, <1>7 DEF Kinds, MintKinds

-----------------------------------------------------------------------------
(* The inductive invariant                                                 *)

\* What circulates is an amount.
LEMMA CirculatingNat ==
  ASSUME NEW coins, IsFiniteSet(coins), coins \subseteq Coins
  PROVE  /\ ValueOf(Spendable(coins)) \in Nat
         /\ \A color : ValueOf(OfColor(coins, color)) \in Nat
         /\ ValueOf(Spendable(coins)) <= ValueOf(OfColor(coins, TokenColor))
<1> DEFINE tokens == OfColor(coins, TokenColor)
           held   == Spendable(coins)
<1>1. ASSUME NEW color PROVE ValueOf(OfColor(coins, color)) \in Nat
  <2>1. OfColor(coins, color) \subseteq coins
    BY DEF OfColor
  <2>2. OfColor(coins, color) \subseteq Coins /\ IsFiniteSet(OfColor(coins, color))
    BY <2>1, FS_Subset
  <2> QED BY <2>2, ValueNat
<1>2. tokens \subseteq coins /\ held \subseteq tokens
  BY DEF Spendable, OfColor
<1>3. /\ tokens \subseteq Coins /\ IsFiniteSet(tokens)
      /\ held \subseteq Coins /\ IsFiniteSet(held)
      /\ tokens \ held \subseteq Coins /\ IsFiniteSet(tokens \ held)
  <2>1. tokens \subseteq Coins /\ IsFiniteSet(tokens)
    BY <1>2, FS_Subset
  <2> QED BY <1>2, <2>1, FS_Subset
<1> HIDE DEF tokens, held
<1>4. ValueOf(tokens) \in Nat /\ ValueOf(held) \in Nat /\ ValueOf(tokens \ held) \in Nat
  BY <1>3, ValueNat
<1>5. ValueOf(tokens \ held) = ValueOf(tokens) - ValueOf(held)
  BY <1>2, <1>3, ValueMinus
<1>6. ValueOf(held) <= ValueOf(tokens)
  BY <1>4, <1>5
<1> QED BY <1>1, <1>4, <1>6 DEF tokens, held

\* There are no coins at first and nothing is minted or burned.
LEMMA SupplyInit ==
  ASSUME IsFiniteSet(InitialCoins), Init
  PROVE  SupplyInv
<1>1. /\ pool = InitialCoins /\ pending = {} /\ published = 0 /\ ledger.totalSupply = 0
  BY DEF Init, InitialLedger
<1>2. \A c \in InitialCoins : c.color # TokenColor /\ c.owner # ZeroKey
  BY ArgumentsAssumption, ColorAssumption, PartiesAssumption
<1>3. /\ OfColor(pool, TokenColor) = {}
      /\ {c \in OfColor(pool, TokenColor) : c.owner \in Clients} = {}
      /\ {c \in pool : c.color # TokenColor /\ c.owner = ZeroKey} = {}
  BY <1>1, <1>2 DEF OfColor
<1>4. Conservation
  BY <1>1, <1>3, ValueEmpty DEF Conservation
<1>5. OnlyTheTokenIsDestroyed
  BY <1>3, ValueEmpty DEF OnlyTheTokenIsDestroyed
<1>6. Circulating = 0
  BY <1>3, ValueEmpty DEF Circulating
<1> QED BY <1>1, <1>4, <1>5, <1>6 DEF SupplyInv, ColorTells

\* Submitting and discarding move no coin.
LEMMA QuietSupply ==
  ASSUME SupplyInv, UNCHANGED <<ledger, pool, published>>,
         \A tx \in pending' : tx \in pending \/ Balanced(tx)
  PROVE  SupplyInv'
<1>1. ledger' = ledger /\ pool' = pool /\ published' = published
  OBVIOUS
<1>2. Conservation' /\ OnlyTheTokenIsDestroyed' /\ Circulating' = Circulating
  BY <1>1 DEF SupplyInv, Conservation, OnlyTheTokenIsDestroyed, Circulating
<1>3. \A tx \in pending' : Balanced(tx)
  BY DEF SupplyInv
<1> QED BY <1>1, <1>2, <1>3 DEF SupplyInv, ColorTells

\* A landing keeps the books of both views and of the truth.
LEMMA LandSupply ==
  ASSUME Inv, Inv', ApartInv, SupplyInv, Land
  PROVE  SupplyInv'
<1>1. PICK tx \in pending : LandedAs(tx)
  BY LandIsLanding
<1>2. /\ tx.kind \in Kinds /\ tx.amount \in Nat
      /\ LandsAs(tx, pool, pool')
      /\ published' = published - tx.delta
      /\ ledger'.totalSupply = ledger.totalSupply + Added(tx)
      /\ ledger'.color = TokenColor \/ (ledger'.color = ledger.color /\ tx.kind \notin MintKinds)
      /\ pending' = pending \ {tx}
  BY <1>1 DEF LandedAs
<1>3. IsFiniteSet(pool')
  BY <1>2 DEF LandsAs
<1>4. ColorTells'
  <2>1. CASE ledger'.color = TokenColor
    BY <2>1 DEF ColorTells
  <2>2. CASE ledger'.color # TokenColor
    <3>1. ledger.totalSupply = 0 /\ tx.kind \notin MintKinds
      BY <1>2, <2>2 DEF SupplyInv, ColorTells
    <3>2. ledger'.totalSupply \in Nat
      BY DEF Inv, TypeOK, Ledgers
    <3>3. Added(tx) = 0 \/ Added(tx) = 0 - tx.amount
      BY <3>1 DEF Added
    <3>4. ledger'.totalSupply = 0
      BY <1>2, <3>1, <3>2, <3>3
    <3> QED BY <3>4 DEF ColorTells
  <2> QED BY <2>1, <2>2
<1>5. \A t \in pending' : Balanced(t)
  BY <1>2 DEF SupplyInv
<1>6. Conservation'
  <2>1. \A color \in Colors :
          ValueOf(OfColor(pool', color))
            = ValueOf(OfColor(pool, color)) - (IF color = TokenColor THEN tx.delta ELSE 0)
    BY <1>2 DEF LandsAs
  <2>2. \A color : ValueOf(OfColor(pool, color)) \in Nat
    BY CirculatingNat DEF SupplyInv, Inv, TypeOK
  <2>3. ValueOf(OfColor(pool', TokenColor)) = published'
    BY <1>2, <2>1 DEF Colors, SupplyInv, Conservation
  <2>4. ASSUME NEW color \in Colors \ {TokenColor}
        PROVE  ValueOf(OfColor(pool', color)) = ValueOf(OfColor(InitialCoins, color))
    <3>1. ValueOf(OfColor(pool', color)) = ValueOf(OfColor(pool, color)) - 0
      BY <2>1
    <3>2. ValueOf(OfColor(pool', color)) = ValueOf(OfColor(pool, color))
      BY <2>2, <3>1
    <3> QED BY <3>2 DEF SupplyInv, Conservation
  <2> QED BY <2>3, <2>4 DEF Conservation
<1>7. OnlyTheTokenIsDestroyed'
  BY <1>2 DEF LandsAs, Zeroed, SupplyInv, OnlyTheTokenIsDestroyed
<1>8. Circulating' <= ledger'.totalSupply
  <2>1. Circulating' = Circulating + Spread(tx)
    BY <1>2 DEF LandsAs, Circulating, Spendable
  <2>2. Circulating \in Nat
    BY CirculatingNat DEF SupplyInv, Inv, TypeOK, Circulating, Spendable
  <2>3. ledger.totalSupply \in Nat /\ Circulating <= ledger.totalSupply
    BY DEF Inv, TypeOK, Ledgers, SupplyInv
  <2>4. Spread(tx) <= Added(tx) /\ Spread(tx) \in Int /\ Added(tx) \in Int
    BY <1>2 DEF Spread, Added, Kinds, MintKinds
  <2> QED BY <1>2, <2>1, <2>2, <2>3, <2>4
<1> QED BY <1>3, <1>4, <1>5, <1>6, <1>7, <1>8 DEF SupplyInv

\* One step of the ledger or of a client.
LEMMA SupplyNext == Inv /\ ApartInv /\ SupplyInv /\ [Next]_vars => SupplyInv'
<1> SUFFICES ASSUME Inv, ApartInv, SupplyInv, [Next]_vars PROVE SupplyInv'
  OBVIOUS
<1>0. TypeOK
  BY DEF Inv
<1>1. ASSUME \E tx : Submit(tx) /\ Balanced(tx) PROVE SupplyInv'
  BY <1>1, QuietSupply DEF Submit
<1>2. CASE CallMint
  BY <1>0, <1>1, <1>2, CallMintBalanced
<1>3. CASE CallBurn
  BY <1>0, <1>1, <1>3, CallBurnBalanced DEF SupplyInv
<1>4. CASE HiddenBurn
  BY <1>0, <1>1, <1>4, HiddenBurnBalanced
<1>5. CASE ProtocolBurn
  BY <1>0, <1>1, <1>5, ProtocolBurnBalanced
<1>6. CASE Land
  <2>1. Inv'
    BY NextSound
  <2> QED BY <1>6, <2>1, LandSupply
<1>7. CASE Reject \/ Expire
  BY <1>7, QuietSupply DEF Reject, Expire
<1>8. CASE UNCHANGED vars
  BY <1>8, QuietSupply DEF vars
<1> QED BY <1>2, <1>3, <1>4, <1>5, <1>6, <1>7, <1>8 DEF Next

\* What deployment finds: a finite set of coins that are apart from each other
\* and carry no index and none of the tags.
Deployment == InitialApart /\ IsFiniteSet(InitialCoins)

\* Every reachable state has the accounting, the nonces and the balances right.
THEOREM SupplyInvariance ==
  ASSUME Deployment
  PROVE  Spec => [](Inv /\ ApartInv /\ SupplyInv)
<1>1. Init => ApartInv /\ SupplyInv
  BY ApartInit, SupplyInit DEF Deployment
<1> QED BY <1>1, ApartNext, SupplyNext, Invariance, PTL DEF Spec

-----------------------------------------------------------------------------
(* The theorems                                                            *)

\* Whichever of the four calls are made, in whatever order they land, value is neither created nor
\* lost: the unspent coins of the token add up to what the public deltas say, and
\* those of every other color to what there was at deployment.
THEOREM ValueIsConserved ==
  ASSUME Deployment
  PROVE  Spec => []Conservation
<1>1. SupplyInv => Conservation
  BY DEF SupplyInv
<1> QED BY <1>1, SupplyInvariance, PTL

\* burn never sends a coin of another color to the zero key with a value, although
\* an unset _color equals the color of 32 zero bytes.
THEOREM OthersAreNotDestroyed ==
  ASSUME Deployment
  PROVE  Spec => []OnlyTheTokenIsDestroyed
<1>1. SupplyInv => OnlyTheTokenIsDestroyed
  BY DEF SupplyInv
<1> QED BY <1>1, SupplyInvariance, PTL

\* Both public views, _totalSupply and the fold of the deltas, are upper bounds on
\* what wallets can spend, in every state.
THEOREM ViewsBoundCirculation ==
  ASSUME Deployment
  PROVE  Spec => []BothViewsBoundCirculation
<1>1. Inv /\ SupplyInv => BothViewsBoundCirculation
  <2> SUFFICES ASSUME Inv, SupplyInv PROVE BothViewsBoundCirculation
    OBVIOUS
  <2>1. IsFiniteSet(pool) /\ pool \subseteq Coins
    BY DEF Inv, TypeOK, SupplyInv
  <2>2. Circulating = ValueOf(Spendable(pool))
    BY DEF Circulating, Spendable
  <2>3. /\ Circulating \in Nat
        /\ Circulating <= ValueOf(OfColor(pool, TokenColor))
    BY <2>1, <2>2, CirculatingNat
  <2>4. Circulating <= published /\ Circulating <= ledger.totalSupply
    BY <2>3 DEF SupplyInv, Conservation
  <2>5. 0 <= Circulating
    BY <2>3
  <2> QED BY <2>4, <2>5 DEF BothViewsBoundCirculation, Views!BothBoundCirculation
<1> QED BY <1>1, SupplyInvariance, PTL

\* A landing is one supply operation: which one, the kind says.
LEMMA LandMaps ==
  ASSUME Inv, ApartInv, SupplyInv, SupplyInv', Inv', Land
  PROVE  Views!Next
<1>1. PICK tx \in pending : LandedAs(tx)
  BY LandIsLanding
<1>2. /\ tx.kind \in Kinds /\ tx.amount \in Nat
      /\ tx.kind \in MintKinds => tx.amount \in 0 .. MaxUint64
      /\ LandsAs(tx, pool, pool')
      /\ published' = published - tx.delta
      /\ tx.delta = IF tx.kind \in MintKinds THEN 0 - tx.amount
                    ELSE IF tx.kind = "protocol-burn" THEN tx.amount ELSE 0
      /\ ledger'.totalSupply = ledger.totalSupply + Added(tx)
  BY <1>1 DEF LandedAs
<1>3. Circulating' = Circulating + Spread(tx)
  BY <1>2 DEF LandsAs, Circulating, Spendable
<1>4. Circulating \in Nat /\ Circulating' \in Nat
  <2>1. /\ IsFiniteSet(pool) /\ pool \subseteq Coins
        /\ IsFiniteSet(pool') /\ pool' \subseteq Coins
    BY DEF SupplyInv, Inv, TypeOK
  <2>2. Circulating = ValueOf(Spendable(pool)) /\ Circulating' = ValueOf(Spendable(pool'))
    BY DEF Circulating, Spendable
  <2> QED BY <2>1, <2>2, CirculatingNat
<1>5. ledger.totalSupply \in Int /\ published \in Int
  BY DEF Inv, TypeOK, Ledgers
<1>6. CASE tx.kind = "mint"
  <2>1. /\ ledger.totalSupply' = ledger.totalSupply + tx.amount
        /\ published' = published + tx.amount
        /\ Circulating' = Circulating + tx.amount
        /\ tx.amount \in 0 .. MaxUint64
    BY <1>2, <1>3, <1>5, <1>6 DEF Spread, Added, MintKinds
  <2>2. Views!Mint
    BY <2>1 DEF Views!Mint
  <2> QED BY <2>2 DEF Views!Next
<1>7. CASE tx.kind = "stranded-mint"
  <2>1. /\ ledger.totalSupply' = ledger.totalSupply + tx.amount
        /\ published' = published + tx.amount
        /\ Circulating' = Circulating
        /\ tx.amount \in 0 .. MaxUint64
    BY <1>2, <1>3, <1>4, <1>5, <1>7 DEF Spread, Added, MintKinds
  <2>2. Views!StrandedMint
    BY <2>1 DEF Views!StrandedMint
  <2> QED BY <2>2 DEF Views!Next
<1>8. CASE tx.kind = "burn"
  <2>1. /\ ledger.totalSupply' = ledger.totalSupply - tx.amount
        /\ published' = published
        /\ Circulating' = Circulating - tx.amount
    BY <1>2, <1>3, <1>4, <1>5, <1>8 DEF Spread, Added, MintKinds
  <2>2. tx.amount \in 0 .. Circulating
    BY <1>2, <1>4, <2>1
  <2>3. Views!ContractBurn
    BY <2>1, <2>2 DEF Views!ContractBurn
  <2> QED BY <2>3 DEF Views!Next
<1>9. CASE tx.kind = "hidden-burn"
  <2>1. /\ ledger.totalSupply' = ledger.totalSupply
        /\ published' = published
        /\ Circulating' = Circulating - tx.amount
    BY <1>2, <1>3, <1>4, <1>5, <1>9 DEF Spread, Added, MintKinds
  <2>2. tx.amount \in 0 .. Circulating
    BY <1>2, <1>4, <2>1
  <2>3. Views!HiddenBurn
    BY <2>1, <2>2 DEF Views!HiddenBurn
  <2> QED BY <2>3 DEF Views!Next
<1>10. CASE tx.kind = "protocol-burn"
  <2>1. /\ ledger.totalSupply' = ledger.totalSupply
        /\ published' = published - tx.amount
        /\ Circulating' = Circulating - tx.amount
    BY <1>2, <1>3, <1>4, <1>5, <1>10 DEF Spread, Added, MintKinds
  <2>2. tx.amount \in 0 .. Circulating
    BY <1>2, <1>4, <2>1
  <2>3. Views!ProtocolBurn
    BY <2>1, <2>2 DEF Views!ProtocolBurn
  <2> QED BY <2>3 DEF Views!Next
<1> QED BY <1>2, <1>6, <1>7, <1>8, <1>9, <1>10 DEF Kinds

\* Nothing but landing is seen by a supply view.
LEMMA QuietMaps ==
  ASSUME UNCHANGED <<ledger, pool, published>>
  PROVE  UNCHANGED Views!views
<1>1. ledger' = ledger /\ pool' = pool /\ published' = published
  OBVIOUS
<1>2. Circulating' = Circulating
  BY <1>1 DEF Circulating
<1> QED BY <1>1, <1>2 DEF Views!views

\* The running system, with its snapshots, its coins and its transactions that
\* wait, fail or expire, is the system of atomic supply operations.
THEOREM RefinesSupplyViews ==
  ASSUME Deployment
  PROVE  Spec => KeepsSupplyViews
<1>1. Init => Views!Init
  <2> SUFFICES ASSUME Init PROVE Views!Init
    OBVIOUS
  <2>1. ledger.totalSupply = 0 /\ published = 0
    BY DEF Init, InitialLedger
  <2>2. Circulating = 0
    <3>1. {c \in OfColor(pool, TokenColor) : c.owner \in Clients} = {}
      BY ArgumentsAssumption, ColorAssumption DEF Init, OfColor
    <3> QED BY <3>1, ValueEmpty DEF Circulating
  <2> QED BY <2>1, <2>2 DEF Views!Init
<1>2. /\ Inv /\ ApartInv /\ SupplyInv
      /\ (Inv /\ ApartInv /\ SupplyInv)'
      /\ [Next]_vars
      => [Views!Next]_Views!views
  <2> SUFFICES ASSUME Inv, ApartInv, SupplyInv, Inv', SupplyInv', [Next]_vars
               PROVE  [Views!Next]_Views!views
    OBVIOUS
  <2>1. CASE Land
    BY <2>1, LandMaps
  <2>2. CASE CallMint \/ CallBurn \/ HiddenBurn \/ ProtocolBurn
    <3>1. UNCHANGED <<ledger, pool, published>>
      BY <2>2 DEF CallMint, CallBurn, HiddenBurn, ProtocolBurn, Submit
    <3> QED BY <3>1, QuietMaps
  <2>3. CASE Reject \/ Expire \/ UNCHANGED vars
    <3>1. UNCHANGED <<ledger, pool, published>>
      BY <2>3 DEF Reject, Expire, vars
    <3> QED BY <3>1, QuietMaps
  <2> QED BY <2>1, <2>2, <2>3 DEF Next
<1> QED BY <1>1, <1>2, SupplyInvariance, PTL DEF Spec, KeepsSupplyViews, Views!Spec
=============================================================================
