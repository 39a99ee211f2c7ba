------------------------- MODULE TokenApart_proofs -------------------------
(***************************************************************************)
(* Why the coins of TokenLedger stay apart: every coin descends from one   *)
(* that is spent in the transaction that creates it, under a tag of its    *)
(* own, or is the coin of a mint, whose index is new.  A second coin of    *)
(* the same nonce would need the same parent to be spent twice.            *)
(***************************************************************************)
EXTENDS TokenLedger_proofs, SequenceTheorems

\* Every coin the chain has seen.
Known == pool \cup spent

\* Two coins of one nonce differ at most in that the contract owns one of them:
\* the coin receiveShielded makes of a description.
Alike(c, d) ==
  c.nonce = d.nonce => /\ c.color = d.color
                       /\ c.value = d.value
                       /\ c.owner = d.owner \/ Self \in {c.owner, d.owner}

\* What a coin was derived from is spent, by the contract or by a client.
Parented(c) ==
  /\ LastTag(c.nonce) \in {SentTag, ChangeTag} =>
       \E p \in spent : p.owner = Self /\ c.nonce = Append(p.nonce, LastTag(c.nonce))
  /\ LastTag(c.nonce) \in {WalletTag, HiddenTag} =>
       \E p \in spent : /\ p.owner \in Clients
                        /\ c.nonce = Append(p.nonce, LastTag(c.nonce))

\* No index is above the counter.
Counted(c) == LastTag(c.nonce) \in Int /\ LastTag(c.nonce) <= ledger.counter

\* A coin received by the description of one the chain has seen.
Base(t) == \E k \in Known : t = Received(k)

\* The one coin of a mint carries the next index.
MintShape(tx) ==
  /\ tx.inputs = {}
  /\ tx.transients = {}
  /\ \E o \in tx.outputs : tx.outputs = {o} /\ LastTag(o.nonce) = tx.reads.counter + 1

\* The other transactions create what descends from what they spend.
Descends(tx) ==
  /\ \A i \in tx.inputs : i.owner \in Clients
  /\ \A t \in tx.transients :
       /\ t.owner = Self
       /\ \/ Base(t)
          \/ \E p \in tx.transients : Base(p) /\ t.nonce = Append(p.nonce, ChangeTag)
  /\ \A o \in tx.outputs :
       \/ \E p \in tx.transients : o.nonce = Append(p.nonce, SentTag)
       \/ \E p \in tx.inputs, tag \in {WalletTag, HiddenTag} :
            o.nonce = Append(p.nonce, tag)
  /\ \A c, d \in tx.outputs \cup tx.transients :
       c.nonce = d.nonce => c = d \/ Base(c) \/ Base(d)

PendingApart ==
  \A tx \in pending : IF tx.kind \in MintKinds THEN MintShape(tx) ELSE Descends(tx)

KnownApart == \A c, d \in Known : Alike(c, d)

Lineage == \A c \in Known : Parented(c) /\ Counted(c)

ApartInv == KnownApart /\ Lineage /\ CoinsStayApart /\ PendingApart

\* A mint asserts the counter and stores the next, and nothing else stores one.
CounterKept(tx) ==
  /\ tx.kind \in MintKinds => /\ "counter" \in DOMAIN tx.reads
                              /\ "counter" \in DOMAIN tx.writes
                              /\ tx.writes.counter = tx.reads.counter + 1
  /\ tx.kind \notin MintKinds => "counter" \notin DOMAIN tx.writes

\* What deployment has to find: coins of different nonces that carry no index and
\* none of the tags.
InitialApart ==
  /\ \A c, d \in InitialCoins : c.nonce = d.nonce => c = d
  /\ \A c \in InitialCoins :
       /\ LastTag(c.nonce) \in Int
       /\ LastTag(c.nonce) <= 0
       /\ LastTag(c.nonce) \notin {SentTag, ChangeTag, WalletTag, HiddenTag}

-----------------------------------------------------------------------------
(* Data                                                                    *)

\* The tags are integers and differ.
LEMMA Tags ==
  /\ SentTag \in Int /\ ChangeTag \in Int /\ WalletTag \in Int /\ HiddenTag \in Int
  /\ SentTag < 0 /\ ChangeTag < 0 /\ WalletTag < 0 /\ HiddenTag < 0
  /\ SentTag # ChangeTag /\ SentTag # WalletTag /\ SentTag # HiddenTag
  /\ ChangeTag # WalletTag /\ ChangeTag # HiddenTag /\ WalletTag # HiddenTag
  BY DEF SentTag, ChangeTag, WalletTag, HiddenTag

\* A nonce tells what it was derived from, and how.
LEMMA NonceTells ==
  ASSUME NEW m \in Nonces, NEW n \in Nonces, NEW a \in Int, NEW b \in Int,
         Append(m, a) = Append(n, b)
  PROVE  m = n /\ a = b
  BY AppendInjective DEF Nonces

\* A nonce is not derived from itself.
LEMMA NonceGrows ==
  ASSUME NEW n \in Nonces, NEW a \in Int
  PROVE  Append(n, a) # n
<1>1. Len(Append(n, a)) = Len(n) + 1 /\ Len(n) \in Nat
  BY DEF Nonces
<1>. QED
  BY <1>1

\* A coin is its four fields.
LEMMA SameCoin ==
  ASSUME NEW c \in Coins, NEW d \in Coins, c.nonce = d.nonce, c.color = d.color,
         c.value = d.value, c.owner = d.owner
  PROVE  c = d
  BY DEF Coins

\* Receiving changes the owner and nothing else.
LEMMA ReceivedFields ==
  ASSUME NEW c \in Coins
  PROVE  /\ Received(c) \in Coins
         /\ Received(c).nonce = c.nonce
         /\ Received(c).color = c.color
         /\ Received(c).value = c.value
         /\ Received(c).owner = Self
  BY DEF Received, Coins, Owners

\* What the chain has seen are coins.
LEMMA KnownCoins == ASSUME TypeOK PROVE Known \subseteq Coins
  BY DEF TypeOK, Known

-----------------------------------------------------------------------------
(* Landing                                                                 *)

Fresh(nonce) == \A d \in Known : d.nonce # nonce

\* If the contract has spent no coin of the description, no coin has been sent
\* or left as change for it.
LEMMA BaseChildrenFresh ==
  ASSUME TypeOK, ApartInv, NEW t, Base(t), t \notin spent,
         NEW tag \in {SentTag, ChangeTag}
  PROVE  t \in Coins /\ Fresh(Append(t.nonce, tag))
<1>1. PICK k \in Known : t = Received(k)
  BY DEF Base
<1>2. k \in Coins /\ t \in Coins /\ t.nonce = k.nonce /\ t.color = k.color
      /\ t.value = k.value /\ t.owner = Self
  BY <1>1, KnownCoins, ReceivedFields
<1>3. tag \in Int /\ t.nonce \in Nonces
  BY <1>2, Tags DEF Coins
<1>4. ASSUME NEW d \in Known, d.nonce = Append(t.nonce, tag) PROVE FALSE
  <2>1. LastTag(d.nonce) = tag
    BY <1>3, <1>4, TagOfAppend
  <2>2. PICK q \in spent : q.owner = Self /\ d.nonce = Append(q.nonce, tag)
    BY <2>1 DEF ApartInv, Lineage, Parented
  <2>3. q \in Known /\ q \in Coins /\ q.nonce \in Nonces
    BY KnownCoins DEF Known, Coins
  <2>4. q.nonce = t.nonce
    BY <1>3, <1>4, <2>2, <2>3, NonceTells
  <2>5. Alike(q, k)
    BY <2>3 DEF ApartInv, KnownApart
  <2>6. q = t
    BY <1>2, <2>2, <2>3, <2>4, <2>5, SameCoin DEF Alike
  <2>. QED
    BY <2>2, <2>6
<1>. QED
  BY <1>2, <1>4 DEF Fresh

\* If a client's coin is unspent, its wallet has derived no coin from it.
LEMMA InputChildrenFresh ==
  ASSUME TypeOK, ApartInv, NEW i \in pool, i.owner \in Clients,
         NEW tag \in {WalletTag, HiddenTag}
  PROVE  Fresh(Append(i.nonce, tag))
<1>1. i \in Known /\ i \in Coins /\ i.nonce \in Nonces
  BY KnownCoins DEF Known, Coins
<1>2. tag \in Int
  BY Tags
<1>3. ASSUME NEW d \in Known, d.nonce = Append(i.nonce, tag) PROVE FALSE
  <2>1. LastTag(d.nonce) = tag
    BY <1>1, <1>2, <1>3, TagOfAppend
  <2>2. PICK q \in spent : q.owner \in Clients /\ d.nonce = Append(q.nonce, tag)
    BY <2>1 DEF ApartInv, Lineage, Parented
  <2>3. q \in Known /\ q \in Coins /\ q.nonce \in Nonces
    BY KnownCoins DEF Known, Coins
  <2>4. q.nonce = i.nonce
    BY <1>1, <1>2, <1>3, <2>2, <2>3, NonceTells
  <2>5. Alike(q, i)
    BY <1>1, <2>3 DEF ApartInv, KnownApart
  <2>6. q = i
    BY <1>1, <2>2, <2>3, <2>4, <2>5, SameCoin, PartiesAssumption DEF Alike
  <2>. QED
    BY <2>2, <2>6, PartiesAssumption DEF ApartInv, CoinsStayApart
<1>. QED
  BY <1>3 DEF Fresh

\* The coins of a valid transaction are new, but for those it receives.
LEMMA ChildrenFresh ==
  ASSUME TypeOK, ApartInv, NEW tx, TxOK(tx), Descends(tx), Valid(tx)
  PROVE  /\ \A t \in tx.transients : Base(t) \/ Fresh(t.nonce)
         /\ \A o \in tx.outputs : Fresh(o.nonce)
<1>1. \A t \in tx.transients : t \notin spent /\ t \in Coins /\ t.nonce \in Nonces
  BY DEF Valid, Nullifiers, TxOK, Coins
<1>2. ASSUME NEW t \in tx.transients PROVE Base(t) \/ Fresh(t.nonce)
  BY <1>1, BaseChildrenFresh DEF Descends
<1>3. ASSUME NEW o \in tx.outputs PROVE Fresh(o.nonce)
  <2>1. CASE \E p \in tx.inputs, tag \in {WalletTag, HiddenTag} :
               o.nonce = Append(p.nonce, tag)
    BY <2>1, InputChildrenFresh DEF Descends, Valid
  <2>2. CASE \E p \in tx.transients : o.nonce = Append(p.nonce, SentTag)
    <3>1. PICK p \in tx.transients : o.nonce = Append(p.nonce, SentTag)
      BY <2>2
    <3>2. CASE Base(p)
      BY <1>1, <3>1, <3>2, BaseChildrenFresh
    <3>3. CASE Fresh(p.nonce)
      <4>1. SUFFICES ASSUME NEW d \in Known, d.nonce = Append(p.nonce, SentTag)
                     PROVE  FALSE
        BY <3>1 DEF Fresh
      <4>2. p.nonce \in Nonces /\ SentTag \in Int
        BY <1>1, Tags
      <4>3. LastTag(d.nonce) = SentTag
        BY <4>1, <4>2, TagOfAppend
      <4>4. PICK q \in spent : d.nonce = Append(q.nonce, SentTag)
        BY <4>3 DEF ApartInv, Lineage, Parented
      <4>5. q \in Known /\ q.nonce \in Nonces
        BY KnownCoins DEF Known, Coins
      <4>6. q.nonce = p.nonce
        BY <4>1, <4>2, <4>4, <4>5, NonceTells
      <4>. QED
        BY <3>3, <4>5, <4>6 DEF Fresh
    <3>. QED
      BY <1>2, <3>2, <3>3
  <2>. QED
    BY <2>1, <2>2 DEF Descends
<1>. QED
  BY <1>2, <1>3

\* The coin of a mint that replays has an index above all others.
LEMMA MintedFresh ==
  ASSUME TypeOK, ApartInv, NEW o, LastTag(o.nonce) = ledger.counter + 1
  PROVE  Fresh(o.nonce)
<1>1. ledger.counter \in Nat
  BY DEF TypeOK, Ledgers
<1>2. ASSUME NEW d \in Known, d.nonce = o.nonce PROVE FALSE
  <2>1. LastTag(d.nonce) \in Int /\ LastTag(d.nonce) <= ledger.counter
    BY DEF ApartInv, Lineage, Counted
  <2>. QED
    BY <1>1, <1>2, <2>1
<1>. QED
  BY <1>2 DEF Fresh

\* What the chain has seen after a landing, and what it has spent.
LEMMA LandKnown ==
  ASSUME NEW tx, Valid(tx),
         pool' = (pool \ tx.inputs) \cup tx.outputs,
         spent' = spent \cup Nullifiers(tx)
  PROVE  Known' = Known \cup tx.outputs \cup tx.transients
  BY DEF Valid, Nullifiers, Known

\* New coins stay apart from each other and from all that came before.
LEMMA NewCoinsApart ==
  ASSUME TypeOK, ApartInv, NEW tx, TxOK(tx), Valid(tx),
         \A t \in tx.transients : t.owner = Self /\ (Base(t) \/ Fresh(t.nonce)),
         \A o \in tx.outputs : Fresh(o.nonce),
         \A c, d \in tx.outputs \cup tx.transients :
           c.nonce = d.nonce => c = d \/ Base(c) \/ Base(d),
         pool' = (pool \ tx.inputs) \cup tx.outputs,
         spent' = spent \cup Nullifiers(tx)
  PROVE  KnownApart' /\ CoinsStayApart'
<1>. DEFINE New == tx.outputs \cup tx.transients
            Old(c) == \E k \in Known : /\ c.nonce = k.nonce
                                      /\ c.color = k.color
                                      /\ c.value = k.value
                                      /\ c.owner \in {k.owner, Self}
<1>1. \A c : Base(c) => Old(c)
  BY KnownCoins, ReceivedFields DEF Base
<1>2. \A c \in Known' : Old(c) \/ (c \in New /\ Fresh(c.nonce))
  BY <1>1, LandKnown
<1>3. \A c, d : Old(c) /\ Old(d) => Alike(c, d)
  BY DEF ApartInv, KnownApart, Alike
<1>4. \A c, d : Old(c) /\ Fresh(d.nonce) => c.nonce # d.nonce
  BY DEF Fresh
<1>5. \A c, d \in New : Fresh(c.nonce) /\ Fresh(d.nonce) /\ c.nonce = d.nonce => c = d
  BY <1>1, <1>4
<1>6. KnownApart'
  <2>1. SUFFICES ASSUME NEW c \in Known', NEW d \in Known' PROVE Alike(c, d)
    BY DEF KnownApart, Alike
  <2>2. CASE Old(c) /\ Old(d)
    BY <1>3, <2>2
  <2>3. CASE c.nonce # d.nonce
    BY <2>3 DEF Alike
  <2>4. CASE c = d
    BY <2>4 DEF Alike
  <2>. HIDE DEF New, Old
  <2>. QED
    BY <1>2, <1>4, <1>5, <2>1, <2>2, <2>3, <2>4
<1>7. ASSUME NEW c \in pool', c \in spent' PROVE c.owner = Self
  <2>1. CASE c \in tx.transients
    BY <2>1
  <2>2. CASE c \in tx.outputs /\ c \notin tx.transients
    BY <1>7, <2>2 DEF Nullifiers, Valid, Fresh, Known
  <2>3. CASE c \in pool \ tx.inputs /\ c \notin tx.transients
    BY <1>7, <2>3 DEF Nullifiers, ApartInv, CoinsStayApart
  <2>. QED
    BY <1>7, <2>1, <2>2, <2>3
<1>8. ASSUME NEW c \in pool', NEW d \in pool', c.nonce = d.nonce PROVE c = d
  <2>1. CASE c \in pool /\ d \in pool
    BY <1>8, <2>1 DEF ApartInv, CoinsStayApart
  <2>2. CASE c \in pool /\ d \in tx.outputs
    BY <1>8, <2>2 DEF Fresh, Known
  <2>3. CASE c \in tx.outputs /\ d \in pool
    BY <1>8, <2>3 DEF Fresh, Known
  <2>4. CASE c \in tx.outputs /\ d \in tx.outputs
    BY <1>5, <1>8, <2>4
  <2>. QED
    BY <1>8, <2>1, <2>2, <2>3, <2>4
<1>9. CoinsStayApart'
  BY <1>7, <1>8 DEF CoinsStayApart
<1>. QED
  BY <1>6, <1>9

\* What is known of a transaction in flight stays true as the chain grows.
LEMMA DescendsStays ==
  ASSUME NEW tx, Descends(tx), Known \subseteq Known'
  PROVE  Descends(tx)'
<1>1. \A t : Base(t) => Base(t)'
  BY DEF Base
<1>. QED
  BY <1>1 DEF Descends

\* A mint lands as its coin, with the next index.
LEMMA LandMintApart ==
  ASSUME TypeOK, ApartInv, NEW tx \in pending, CounterKept(tx),
         tx.kind \in MintKinds, Valid(tx),
         ledger' = Stored(tx),
         pool' = (pool \ tx.inputs) \cup tx.outputs,
         spent' = spent \cup Nullifiers(tx)
  PROVE  KnownApart' /\ CoinsStayApart' /\ Lineage'
<1>1. TxOK(tx) /\ MintShape(tx) /\ ledger.counter \in Nat
  BY DEF TypeOK, Ledgers, ApartInv, PendingApart
<1>2. tx.reads.counter = ledger.counter /\ ledger'.counter = ledger.counter + 1
  BY <1>1 DEF CounterKept, Valid, ReadsMatch, Stored, Cells
<1>3. PICK o : tx.outputs = {o} /\ LastTag(o.nonce) = ledger.counter + 1
  BY <1>1, <1>2 DEF MintShape
<1>4. tx.inputs = {} /\ tx.transients = {}
  BY <1>1 DEF MintShape
<1>5. Fresh(o.nonce)
  BY <1>3, MintedFresh
<1>6. KnownApart' /\ CoinsStayApart'
  BY <1>1, <1>3, <1>4, <1>5, NewCoinsApart
<1>7. Known' = Known \cup {o} /\ spent' = spent
  BY <1>3, <1>4, LandKnown DEF Nullifiers
<1>8. ASSUME NEW c \in Known PROVE (Parented(c) /\ Counted(c))'
  BY <1>1, <1>2, <1>7, <1>8 DEF ApartInv, Lineage, Parented, Counted
<1>9. (Parented(o) /\ Counted(o))'
  <2>1. LastTag(o.nonce) \notin {SentTag, ChangeTag, WalletTag, HiddenTag}
    BY <1>1, <1>3, Tags
  <2>. QED
    BY <1>1, <1>2, <1>3, <2>1 DEF Parented, Counted
<1>10. Lineage'
  BY <1>7, <1>8, <1>9 DEF Lineage
<1>. QED
  BY <1>6, <1>10

\* Any other transaction lands as coins whose parents it spends.
LEMMA LandOtherApart ==
  ASSUME TypeOK, ApartInv, NEW tx \in pending, CounterKept(tx),
         tx.kind \notin MintKinds, Valid(tx),
         ledger' = Stored(tx),
         pool' = (pool \ tx.inputs) \cup tx.outputs,
         spent' = spent \cup Nullifiers(tx)
  PROVE  KnownApart' /\ CoinsStayApart' /\ Lineage'
<1>1. TxOK(tx) /\ Descends(tx) /\ ledger.counter \in Nat
  BY DEF TypeOK, Ledgers, ApartInv, PendingApart
<1>2. ledger'.counter = ledger.counter
  BY DEF CounterKept, Stored, Cells
<1>3. /\ \A t \in tx.transients : t.owner = Self /\ (Base(t) \/ Fresh(t.nonce))
      /\ \A o \in tx.outputs : Fresh(o.nonce)
  BY <1>1, ChildrenFresh DEF Descends
<1>4. KnownApart' /\ CoinsStayApart'
  BY <1>1, <1>3, NewCoinsApart DEF Descends
<1>5. Known' = Known \cup tx.outputs \cup tx.transients
  BY LandKnown
<1>6. tx.inputs \subseteq spent' /\ tx.transients \subseteq spent' /\ spent \subseteq spent'
  BY DEF Nullifiers
<1>7. tx.inputs \subseteq Coins /\ tx.transients \subseteq Coins /\ tx.outputs \subseteq Coins
  BY <1>1 DEF TxOK
<1>8. ASSUME NEW c, NEW k \in Known, c.nonce = k.nonce
      PROVE  (Parented(c) /\ Counted(c))'
  <2>1. Parented(k) /\ Counted(k)
    BY DEF ApartInv, Lineage
  <2>2. Parented(c)'
    BY <1>6, <1>8, <2>1 DEF Parented
  <2>3. Counted(c)'
    BY <1>2, <1>8, <2>1 DEF Counted
  <2>. QED
    BY <2>2, <2>3
<1>9. ASSUME NEW c, NEW p \in tx.transients, NEW tag \in {SentTag, ChangeTag},
             c.nonce = Append(p.nonce, tag)
      PROVE  (Parented(c) /\ Counted(c))'
  <2>1. p.nonce \in Nonces /\ p.owner = Self /\ p \in spent'
    BY <1>3, <1>6, <1>7 DEF Coins
  <2>2. LastTag(c.nonce) = tag
    BY <1>9, <2>1, TagOfAppend, Tags
  <2>3. Counted(c)'
    BY <1>1, <1>2, <2>2, Tags DEF Counted
  <2>4. Parented(c)'
    BY <1>9, <2>1, <2>2, Tags DEF Parented
  <2>. QED
    BY <2>3, <2>4
<1>10. ASSUME NEW c, NEW p \in tx.inputs, NEW tag \in {WalletTag, HiddenTag},
              c.nonce = Append(p.nonce, tag)
       PROVE  (Parented(c) /\ Counted(c))'
  <2>1. p.nonce \in Nonces /\ p.owner \in Clients /\ p \in spent'
    BY <1>1, <1>6, <1>7 DEF Coins, Descends
  <2>2. LastTag(c.nonce) = tag
    BY <1>10, <2>1, TagOfAppend, Tags
  <2>3. Counted(c)'
    BY <1>1, <1>2, <2>2, Tags DEF Counted
  <2>4. Parented(c)'
    BY <1>10, <2>1, <2>2, Tags DEF Parented
  <2>. QED
    BY <2>3, <2>4
<1>11. ASSUME NEW t \in tx.transients PROVE (Parented(t) /\ Counted(t))'
  <2>1. CASE Base(t)
    BY <1>8, <2>1, KnownCoins, ReceivedFields DEF Base
  <2>2. CASE ~Base(t)
    BY <1>1, <1>9, <2>2 DEF Descends
  <2>. QED
    BY <2>1, <2>2
<1>12. ASSUME NEW o \in tx.outputs PROVE (Parented(o) /\ Counted(o))'
  BY <1>1, <1>9, <1>10 DEF Descends
<1>13. Lineage'
  BY <1>5, <1>8, <1>11, <1>12 DEF Lineage
<1>. QED
  BY <1>4, <1>13

\* Landing keeps the coins apart.
LEMMA LandApart ==
  ASSUME TypeOK, ApartInv, \A tx \in pending : CounterKept(tx), Land
  PROVE  ApartInv'
<1>1. PICK tx \in pending :
        /\ Valid(tx)
        /\ ledger' = Stored(tx)
        /\ pool' = (pool \ tx.inputs) \cup tx.outputs
        /\ spent' = spent \cup Nullifiers(tx)
        /\ pending' = pending \ {tx}
  BY DEF Land
<1>2. KnownApart' /\ CoinsStayApart' /\ Lineage'
  BY <1>1, LandMintApart, LandOtherApart
<1>3. Known \subseteq Known'
  BY <1>1, LandKnown
<1>4. PendingApart'
  <2>1. SUFFICES ASSUME NEW other \in pending
                 PROVE  IF other.kind \in MintKinds THEN MintShape(other)
                                                   ELSE Descends(other)'
    BY <1>1 DEF PendingApart, MintShape
  <2>. QED
    BY <1>3, DescendsStays DEF ApartInv, PendingApart
<1>. QED
  BY <1>2, <1>4 DEF ApartInv

-----------------------------------------------------------------------------
(* Submitting                                                              *)

\* A submission of the right shape keeps the invariant.
LEMMA SubmitApart ==
  ASSUME ApartInv, NEW tx, Submit(tx),
         IF tx.kind \in MintKinds THEN MintShape(tx) ELSE Descends(tx)
  PROVE  ApartInv'
<1>1. UNCHANGED <<pool, spent, ledger>> /\ pending' = pending \cup {tx}
  BY DEF Submit
<1>2. KnownApart' /\ CoinsStayApart' /\ Lineage'
  BY <1>1 DEF ApartInv, KnownApart, CoinsStayApart, Lineage, Known, Parented, Counted
<1>3. PendingApart'
  BY <1>1 DEF ApartInv, PendingApart, MintShape, Descends, Base, Known
<1>. QED
  BY <1>2, <1>3 DEF ApartInv

\* A wallet pays with nothing or with one coin of its own.
LEMMA FundingIsOne ==
  ASSUME NEW client, NEW color, NEW value, NEW inputs \in Funding(client, color, value)
  PROVE  \/ inputs = {}
         \/ \E i \in pool : inputs = {i} /\ i.owner = client
  BY DEF Funding

\* It gives itself back at most one coin, derived from that one.
LEMMA ChangeIsOne ==
  ASSUME NEW inputs, NEW value
  PROVE  \A w \in WalletChange(inputs, value) :
           \E i \in inputs : /\ w = WalletCoin(WalletTag, i, i.value - value, i.owner)
                            /\ w.nonce = Append(i.nonce, WalletTag)
  BY DEF WalletChange, WalletCoin, Coin

\* The coins of a call of burn: it receives the coin, and sends to the zero key;
\* if there is change, it spends that too, and sends it on.
FamilyOf(call, coin) ==
  \E change, sent, passed :
    /\ change.nonce = Append(coin.nonce, ChangeTag)
    /\ change.owner = Self
    /\ sent.nonce = Append(coin.nonce, SentTag)
    /\ passed.nonce = Append(change.nonce, SentTag)
    /\ \/ /\ call.transients = {Received(coin)}
          /\ call.outputs = {sent}
       \/ /\ call.transients = {Received(coin), change}
          /\ call.outputs = {sent, passed}

\* burn creates such coins.
LEMMA BurnFamily ==
  ASSUME NEW s, NEW caller, NEW coin, NEW amount
  PROVE  FamilyOf(Burn(s, caller, coin, amount), coin)
<1>. DEFINE rest     == Coin(ChangeNonce(coin.nonce), coin.color, coin.value - amount, Self)
            burned   == SendShielded(coin, ZeroKey, amount)
            further  == SendShielded(rest, caller, rest.value)
            returned == {SendShielded(c, caller, c.value) : c \in burned.change}
            call     == Burn(s, caller, coin, amount)
<1>1. /\ burned.spent = Received(coin)
      /\ burned.sent.nonce = Append(coin.nonce, SentTag)
      /\ burned.change = {} \/ burned.change = {rest}
  BY DEF SendShielded, Coin, SentNonce
<1>2. rest.nonce = Append(coin.nonce, ChangeTag)
  BY DEF Coin, ChangeNonce
<1>3. /\ further.spent = Received(rest)
      /\ further.sent.nonce = Append(rest.nonce, SentTag)
  BY DEF SendShielded, Coin, SentNonce
<1>4. Received(rest).nonce = rest.nonce /\ Received(rest).owner = Self
  BY DEF Received, Coin
<1>5. /\ call.transients = {burned.spent} \cup {r.spent : r \in returned}
      /\ call.outputs = {burned.sent} \cup {r.sent : r \in returned}
  BY DEF Burn
<1>6. CASE burned.change = {}
  <2>1. returned = {}
    BY <1>6
  <2>2. call.transients = {Received(coin)} /\ call.outputs = {burned.sent}
    BY <1>1, <1>5, <2>1
  <2>. HIDE DEF rest, burned, further, returned, call
  <2>3. LET change == Received(rest)
        IN  /\ change.nonce = Append(coin.nonce, ChangeTag)
            /\ change.owner = Self
            /\ further.sent.nonce = Append(change.nonce, SentTag)
    BY <1>2, <1>3, <1>4
  <2>. QED
    BY <1>1, <2>2, <2>3 DEF call, FamilyOf
<1>7. CASE burned.change = {rest}
  <2>1. returned = {further}
    BY <1>7
  <2>2. /\ call.transients = {Received(coin), Received(rest)}
        /\ call.outputs = {burned.sent, further.sent}
    BY <1>1, <1>3, <1>5, <2>1
  <2>. DEFINE Family(change, sent, passed) ==
                /\ change.nonce = Append(coin.nonce, ChangeTag)
                /\ change.owner = Self
                /\ sent.nonce = Append(coin.nonce, SentTag)
                /\ passed.nonce = Append(change.nonce, SentTag)
                /\ call.transients = {Received(coin), change}
                /\ call.outputs = {sent, passed}
  <2>. HIDE DEF rest, burned, further, returned, call
  <2>3. Family(Received(rest), burned.sent, further.sent)
    BY <1>1, <1>2, <1>3, <1>4, <2>2
  <2>. HIDE DEF Family
  <2>4. \E change, sent, passed : Family(change, sent, passed)
    BY <2>3, Zenon
  <2>. QED
    BY <2>4 DEF Family, call, FamilyOf
<1>. QED
  BY <1>1, <1>6, <1>7

\* A mint is built for the next index of its snapshot.
LEMMA CallMintApart == ASSUME TypeOK, ApartInv, CallMint PROVE ApartInv'
<1>1. PICK recipient \in Recipients, amount \in Amounts :
        Submit(ContractTx(MintKind(recipient), amount,
                          Mint(ledger, recipient, amount), {}, {}))
  BY DEF CallMint
<1>. DEFINE call == Mint(ledger, recipient, amount)
            tx   == ContractTx(MintKind(recipient), amount, call, {}, {})
            coin == MintedCoin(amount, EvolveNonce(ledger.counter + 1, ledger.nonce),
                               recipient)
<1>2. /\ call.transients = {}
      /\ call.outputs = {coin}
      /\ call.reads = ledger
  BY DEF Mint
<1>3. /\ tx.inputs = {} /\ tx.transients = {}
      /\ tx.outputs = {coin}
      /\ tx.reads = ledger
      /\ tx.kind \in MintKinds
  BY <1>2 DEF ContractTx, MintKind, MintKinds
<1>4. LastTag(coin.nonce) = ledger.counter + 1
  <2>1. ledger.nonce \in Nonces /\ ledger.counter + 1 \in Int
    BY DEF TypeOK, Ledgers
  <2>2. coin.nonce = Append(ledger.nonce, ledger.counter + 1)
    BY DEF MintedCoin, Coin, EvolveNonce
  <2>. QED
    BY <2>1, <2>2, TagOfAppend
<1>. HIDE DEF call, coin, tx
<1>5. MintShape(tx)
  BY <1>3, <1>4 DEF MintShape
<1>6. Submit(tx)
  BY <1>1 DEF tx, call
<1>. QED
  BY <1>3, <1>5, <1>6, SubmitApart

\* The parts of a burn: the input of its wallet, the coins of the contract, and
\* what the wallet returns to itself.
BurnParts(tx, client, coin, change, sent, passed, returned) ==
  /\ tx.inputs = {} \/ \E i \in pool : tx.inputs = {i} /\ i.owner = client
  /\ \A w \in returned : \E i \in tx.inputs :
       /\ w = WalletCoin(WalletTag, i, i.value - coin.value, i.owner)
       /\ w.nonce = Append(i.nonce, WalletTag)
  /\ change.nonce = Append(coin.nonce, ChangeTag)
  /\ change.owner = Self
  /\ sent.nonce = Append(coin.nonce, SentTag)
  /\ passed.nonce = Append(change.nonce, SentTag)
  /\ \/ /\ tx.transients = {Received(coin)}
        /\ tx.outputs = {sent} \cup returned
     \/ /\ tx.transients = {Received(coin), change}
        /\ tx.outputs = {sent, passed} \cup returned

\* What the contract spends in a burn is received or left over by its own spending,
\* and what it or the wallet creates is derived from what they spend.
LEMMA BurnDescends ==
  ASSUME TypeOK, NEW client \in Clients, NEW coin \in Known, NEW tx,
         NEW change, NEW sent, NEW passed, NEW returned,
         BurnParts(tx, client, coin, change, sent, passed, returned)
  PROVE  Descends(tx)
<1>. USE DEF BurnParts
<1>1. coin \in Coins /\ coin.nonce \in Nonces
  BY KnownCoins DEF Coins
<1>2. /\ Received(coin).nonce = coin.nonce
      /\ Received(coin).owner = Self
      /\ Base(Received(coin))
  BY <1>1, ReceivedFields DEF Base
<1>3. change.nonce \in Nonces
  BY <1>1, AppendNonce, Tags
<1>4. /\ LastTag(change.nonce) = ChangeTag
      /\ LastTag(sent.nonce) = SentTag
      /\ LastTag(passed.nonce) = SentTag
  BY <1>1, <1>3, TagOfAppend, Tags
<1>5. sent.nonce # passed.nonce
  BY <1>1, <1>3, NonceTells, NonceGrows, Tags
<1>6. \A i \in tx.inputs : i.nonce \in Nonces /\ i.owner \in Clients
  BY DEF TypeOK, Coins
<1>7. ASSUME NEW w \in returned PROVE LastTag(w.nonce) = WalletTag
  <2>1. PICK i \in tx.inputs : w.nonce = Append(i.nonce, WalletTag)
    OBVIOUS
  <2>. QED
    BY <1>6, <2>1, TagOfAppend, Tags
<1>8. \A v, w \in returned : v = w
  OBVIOUS
<1>9. \A c \in tx.outputs \cup tx.transients :
        c = Received(coin) \/ c = change \/ c = sent \/ c = passed \/ c \in returned
  OBVIOUS
<1>10. \A c, d \in tx.outputs \cup tx.transients :
         c.nonce = d.nonce => c = d \/ Base(c) \/ Base(d)
  <2>1. SUFFICES ASSUME NEW c \in tx.outputs \cup tx.transients,
                        NEW d \in tx.outputs \cup tx.transients,
                        c.nonce = d.nonce, ~Base(c), ~Base(d)
                 PROVE  c = d
    OBVIOUS
  <2>2. /\ c \in {change, sent, passed} \cup returned
        /\ d \in {change, sent, passed} \cup returned
    BY <1>2, <1>9, <2>1
  <2>3. LastTag(c.nonce) = LastTag(d.nonce)
    BY <2>1
  <2>4. CASE c \in returned
    BY <1>4, <1>7, <1>8, <2>2, <2>3, <2>4, Tags
  <2>5. CASE d \in returned
    BY <1>4, <1>7, <1>8, <2>2, <2>3, <2>5, Tags
  <2>6. CASE c \notin returned /\ d \notin returned
    BY <1>4, <1>5, <2>1, <2>2, <2>3, <2>6, Tags
  <2>. QED
    BY <2>4, <2>5, <2>6
<1>11. \A t \in tx.transients :
         /\ t.owner = Self
         /\ \/ Base(t)
            \/ \E p \in tx.transients : Base(p) /\ t.nonce = Append(p.nonce, ChangeTag)
  BY <1>2
<1>12. ASSUME NEW o \in tx.outputs
       PROVE  \/ \E p \in tx.transients : o.nonce = Append(p.nonce, SentTag)
              \/ \E p \in tx.inputs, tag \in {WalletTag, HiddenTag} :
                   o.nonce = Append(p.nonce, tag)
  <2>1. CASE o = sent
    BY <1>2, <2>1
  <2>2. CASE o = passed /\ change \in tx.transients
    BY <2>2
  <2>3. CASE o \in returned
    BY <2>3
  <2>. QED
    BY <1>12, <2>1, <2>2, <2>3
<1>. QED
  BY <1>6, <1>10, <1>11, <1>12 DEF Descends

\* A transaction that funds burn's coins descends, whichever description burn is
\* given.
LEMMA FundedBurnDescends ==
  ASSUME TypeOK, NEW s, NEW client \in Clients, NEW coin \in CoinArguments(client),
         NEW amount, NEW inputs \in Funding(client, coin.color, coin.value), NEW tx,
         tx.inputs = inputs,
         tx.transients = Burn(s, client, coin, amount).transients,
         tx.outputs = Burn(s, client, coin, amount).outputs
                        \cup WalletChange(inputs, coin.value)
  PROVE  Descends(tx)
<1>. DEFINE call     == Burn(s, client, coin, amount)
            returned == WalletChange(inputs, coin.value)
<1>1. /\ tx.transients = call.transients
      /\ tx.outputs = call.outputs \cup returned
  OBVIOUS
<1>2. coin \in Known
  BY DEF CoinArguments, Known
<1>3. inputs = {} \/ \E i \in pool : inputs = {i} /\ i.owner = client
  BY FundingIsOne
<1>4. \A w \in returned : \E i \in inputs :
        w = WalletCoin(WalletTag, i, i.value - coin.value, i.owner)
          /\ w.nonce = Append(i.nonce, WalletTag)
  BY ChangeIsOne
<1>. HIDE DEF call, returned
<1>5. FamilyOf(call, coin)
  BY BurnFamily DEF call
<1>6. PICK change, sent, passed :
        /\ change.nonce = Append(coin.nonce, ChangeTag)
        /\ change.owner = Self
        /\ sent.nonce = Append(coin.nonce, SentTag)
        /\ passed.nonce = Append(change.nonce, SentTag)
        /\ \/ /\ call.transients = {Received(coin)}
              /\ call.outputs = {sent}
           \/ /\ call.transients = {Received(coin), change}
              /\ call.outputs = {sent, passed}
  BY <1>5 DEF FamilyOf
<1>7. \/ /\ tx.transients = {Received(coin)}
         /\ tx.outputs = {sent} \cup returned
      \/ /\ tx.transients = {Received(coin), change}
         /\ tx.outputs = {sent, passed} \cup returned
  BY <1>1, <1>6
<1>8. BurnParts(tx, client, coin, change, sent, passed, returned)
  BY <1>3, <1>4, <1>6, <1>7 DEF BurnParts
<1>. QED
  BY <1>2, <1>8, BurnDescends

\* burn builds such a transaction.
LEMMA CallBurnApart == ASSUME TypeOK, ApartInv, CallBurn PROVE ApartInv'
<1>1. PICK client \in Clients, amount \in Amounts :
        \E coin \in CoinArguments(client) :
          \E inputs \in Funding(client, coin.color, coin.value) :
            Submit(ContractTx("burn", amount, Burn(ledger, client, coin, amount),
                              inputs, WalletChange(inputs, coin.value)))
  BY DEF CallBurn
<1>2. PICK coin \in CoinArguments(client) :
        \E inputs \in Funding(client, coin.color, coin.value) :
          Submit(ContractTx("burn", amount, Burn(ledger, client, coin, amount),
                            inputs, WalletChange(inputs, coin.value)))
  BY <1>1
<1>3. PICK inputs \in Funding(client, coin.color, coin.value) :
        Submit(ContractTx("burn", amount, Burn(ledger, client, coin, amount),
                          inputs, WalletChange(inputs, coin.value)))
  BY <1>2
<1>. DEFINE tx == ContractTx("burn", amount, Burn(ledger, client, coin, amount),
                             inputs, WalletChange(inputs, coin.value))
<1>4. /\ tx.inputs = inputs
      /\ tx.transients = Burn(ledger, client, coin, amount).transients
      /\ tx.outputs = Burn(ledger, client, coin, amount).outputs
                        \cup WalletChange(inputs, coin.value)
      /\ tx.kind = "burn"
  BY DEF ContractTx
<1>5. Submit(tx)
  BY <1>3
<1>. HIDE DEF tx
<1>6. Descends(tx)
  BY <1>4, FundedBurnDescends
<1>. QED
  BY <1>4, <1>5, <1>6, SubmitApart DEF MintKinds

\* A hidden burn derives its two coins from its one input, under two tags.
LEMMA HiddenBurnApart == ASSUME TypeOK, ApartInv, HiddenBurn PROVE ApartInv'
<1>1. PICK client \in Clients, amount \in Amounts \ {0} :
        \E inputs \in Funding(client, TokenColor, amount) :
          Submit(WalletTx("hidden-burn", amount, inputs,
                   { WalletCoin(HiddenTag, c, amount, ZeroKey) : c \in inputs }
                     \cup WalletChange(inputs, amount), 0))
  BY DEF HiddenBurn
<1>2. PICK inputs \in Funding(client, TokenColor, amount) :
        Submit(WalletTx("hidden-burn", amount, inputs,
                 { WalletCoin(HiddenTag, c, amount, ZeroKey) : c \in inputs }
                   \cup WalletChange(inputs, amount), 0))
  BY <1>1
<1>. DEFINE hidden   == { WalletCoin(HiddenTag, c, amount, ZeroKey) : c \in inputs }
            returned == WalletChange(inputs, amount)
            tx == WalletTx("hidden-burn", amount, inputs, hidden \cup returned, 0)
<1>3. /\ tx.inputs = inputs
      /\ tx.transients = {}
      /\ tx.outputs = hidden \cup returned
      /\ tx.kind = "hidden-burn"
  BY DEF WalletTx
<1>4. inputs = {} \/ \E i \in pool : inputs = {i} /\ i.owner = client
  BY FundingIsOne
<1>5. \A i \in inputs : i.nonce \in Nonces /\ i.owner \in Clients
  BY <1>4 DEF TypeOK, Coins
<1>6. \A w \in returned : \E i \in inputs :
        w = WalletCoin(WalletTag, i, i.value - amount, i.owner)
          /\ w.nonce = Append(i.nonce, WalletTag)
  BY ChangeIsOne
<1>7. \A h \in hidden : \E i \in inputs :
        h = WalletCoin(HiddenTag, i, amount, ZeroKey) /\ h.nonce = Append(i.nonce, HiddenTag)
  BY DEF WalletCoin, Coin
<1>. HIDE DEF hidden, returned, tx
<1>8. /\ \A w \in returned : LastTag(w.nonce) = WalletTag
      /\ \A h \in hidden : LastTag(h.nonce) = HiddenTag
  <2>1. ASSUME NEW w \in returned PROVE LastTag(w.nonce) = WalletTag
    <3>1. PICK i \in inputs : w.nonce = Append(i.nonce, WalletTag)
      BY <1>6
    <3>. QED
      BY <1>5, <3>1, TagOfAppend, Tags
  <2>2. ASSUME NEW h \in hidden PROVE LastTag(h.nonce) = HiddenTag
    <3>1. PICK i \in inputs : h.nonce = Append(i.nonce, HiddenTag)
      BY <1>7
    <3>. QED
      BY <1>5, <3>1, TagOfAppend, Tags
  <2>. QED
    BY <2>1, <2>2
<1>9. (\A v, w \in returned : v = w) /\ (\A g, h \in hidden : g = h)
  BY <1>4, <1>6, <1>7
<1>10. \A c, d \in tx.outputs \cup tx.transients : c.nonce = d.nonce => c = d
  BY <1>3, <1>8, <1>9, Tags
<1>11. Descends(tx)
  BY <1>3, <1>5, <1>6, <1>7, <1>10 DEF Descends
<1>12. Submit(tx)
  BY <1>2 DEF tx, hidden, returned
<1>. QED
  BY <1>3, <1>11, <1>12, SubmitApart DEF MintKinds

\* A protocol burn creates nothing.
LEMMA ProtocolBurnApart == ASSUME TypeOK, ApartInv, ProtocolBurn PROVE ApartInv'
<1>1. PICK coin \in pool :
        /\ coin.owner \in Clients
        /\ Submit(WalletTx("protocol-burn", coin.value, {coin}, {}, coin.value))
  BY DEF ProtocolBurn
<1>. DEFINE tx == WalletTx("protocol-burn", coin.value, {coin}, {}, coin.value)
<1>2. /\ tx.inputs = {coin} /\ tx.transients = {} /\ tx.outputs = {}
      /\ tx.kind = "protocol-burn"
  BY DEF WalletTx
<1>. HIDE DEF tx
<1>3. Descends(tx)
  BY <1>1, <1>2 DEF Descends
<1>4. Submit(tx)
  BY <1>1 DEF tx
<1>. QED
  BY <1>2, <1>3, <1>4, SubmitApart DEF MintKinds

-----------------------------------------------------------------------------
(* The theorem                                                             *)

\* Deployment finds coins apart and nothing in flight.
LEMMA ApartInit == ASSUME InitialApart, Init PROVE ApartInv
<1>1. Known = InitialCoins /\ pool = InitialCoins /\ spent = {} /\ pending = {}
      /\ ledger.counter = 0
  BY DEF Init, Known, InitialLedger
<1>2. KnownApart
  BY <1>1 DEF InitialApart, KnownApart, Alike
<1>3. CoinsStayApart
  BY <1>1 DEF InitialApart, CoinsStayApart
<1>4. Lineage
  BY <1>1 DEF InitialApart, Lineage, Parented, Counted
<1>5. PendingApart
  BY <1>1 DEF PendingApart
<1>. QED
  BY <1>2, <1>3, <1>4, <1>5 DEF ApartInv

\* The four constructions keep the counter.
LEMMA InFlightKeepsCounter ==
  ASSUME NEW tx, TxOK(tx), InFlightOK(tx)
  PROVE  CounterKept(tx)
  BY DEF CounterKept, InFlightOK, TxOK, Kinds, MintKinds, Cells

\* Every step keeps the coins apart.
LEMMA ApartNext == Inv /\ ApartInv /\ [Next]_vars => ApartInv'
<1>. SUFFICES ASSUME Inv, ApartInv, [Next]_vars PROVE ApartInv'
  OBVIOUS
<1>0. TypeOK /\ \A tx \in pending : CounterKept(tx)
  BY InFlightKeepsCounter DEF Inv, TypeOK, TransactionsSound
<1>1. CASE CallMint
  BY <1>0, <1>1, CallMintApart
<1>2. CASE CallBurn
  BY <1>0, <1>2, CallBurnApart
<1>3. CASE HiddenBurn
  BY <1>0, <1>3, HiddenBurnApart
<1>4. CASE ProtocolBurn
  BY <1>0, <1>4, ProtocolBurnApart
<1>5. CASE Land
  BY <1>0, <1>5, LandApart
<1>6. CASE Reject \/ Expire \/ UNCHANGED vars
  <2>1. UNCHANGED <<pool, spent, ledger>> /\ pending' \subseteq pending
    BY <1>6 DEF Reject, Expire, vars
  <2>2. KnownApart' /\ CoinsStayApart' /\ Lineage'
    BY <2>1 DEF ApartInv, KnownApart, CoinsStayApart, Lineage, Known, Parented, Counted
  <2>3. PendingApart'
    BY <2>1 DEF ApartInv, PendingApart, MintShape, Descends, Base, Known
  <2>. QED
    BY <2>2, <2>3 DEF ApartInv
<1>. QED
  BY <1>1, <1>2, <1>3, <1>4, <1>5, <1>6 DEF Next

\* If deployment finds coins apart that carry none of the token's derivations, no
\* two unspent coins ever share a nonce, and no coin of a wallet meets a nullifier
\* that is used: for any number of clients that describe coins the chain has seen,
\* stale snapshots and orders of landing.
THEOREM NoncesNeverMeet ==
  ASSUME InitialApart
  PROVE  Spec => []CoinsStayApart
<1>1. Init => ApartInv
  BY ApartInit
<1>2. ApartInv => CoinsStayApart
  BY DEF ApartInv
<1>. QED
  BY <1>1, <1>2, ApartNext, Invariance, PTL DEF Spec
=============================================================================
