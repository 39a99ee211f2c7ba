---------------------------- MODULE TokenLedger ----------------------------
(***************************************************************************)
(* The token contract on its chain: wallets run circuits on a snapshot and *)
(* submit transactions, the node applies or rejects them, in any order.    *)
(*                                                                         *)
(* Four kinds of transaction move the supply, one per construction in the  *)
(* repository: callTx.mint, callTx.burn, the transfer to the zero coin key *)
(* of hidden-burn.ts, and the one-input / zero-output offer of             *)
(* verify-supply.ts.  Each is built against the state of one moment and    *)
(* lands, if at all, against the state of another.                         *)
(***************************************************************************)
EXTENDS ShieldedERC20, FiniteSets

CONSTANTS
  InitNonce,     \* the constructor's nonce
  InitialCoins,  \* coins of other colors that exist at deployment
  Recipients,    \* the recipients mint is called with
  Amounts,       \* the amounts mint, burn and transfer are called with
  MaxMints,      \* bound on the counter (finite instance)
  MaxPending,    \* bound on concurrently submitted transactions
  MaxSpent       \* bound on the nullifier set at the time of a call

ASSUME ArgumentsAssumption ==
  /\ InitNonce \in Nonces
  /\ InitialCoins \subseteq [ nonce : Nonces, color : OtherColors \cup {ZeroColor},
                              value : Nat, owner : Clients ]
  /\ Recipients \subseteq Either
  /\ Amounts \subseteq Nat

VARIABLES
  ledger,     \* the contract's cells
  pool,       \* commitments of the unspent coins
  spent,      \* nullifiers of the spent ones, transients included
  pending,    \* transactions submitted and neither applied nor discarded
  applied,    \* history: the transactions that have landed
  published,  \* minus the sum of the public deltas of the applied ones
  tally       \* history: what has been applied, by kind

vars == <<ledger, pool, spent, pending, applied, published, tally>>

Cells == {"counter", "nonce", "color", "totalSupply"}

\* A mint to an owner no wallet holds the key of is counted on its own.
Kinds == {"mint", "stranded-mint", "burn", "hidden-burn", "protocol-burn"}

Init ==
  /\ ledger = InitialLedger(InitNonce)
  /\ pool = InitialCoins
  /\ spent = {}
  /\ pending = {}
  /\ applied = {}
  /\ published = 0
  /\ tally = [k \in Kinds |-> 0]

-----------------------------------------------------------------------------
(* Building transactions                                                   *)

WalletTag == -3

HiddenTag == -4

\* The wallet draws random nonces; one derived from the input is as unique.
WalletCoin(tag, input, value, owner) ==
  Coin(Append(input.nonce, tag), input.color, value, owner)

\* What the wallet gives back to itself from an input it does not use up.
WalletChange(inputs, value) ==
  { WalletCoin(WalletTag, c, c.value - value, c.owner) :
      c \in {i \in inputs : i.value > value} }

\* The inputs a wallet may fund an imbalance of value with: one coin.
Funding(client, color, value) ==
  IF value = 0 THEN {{}}
  ELSE { {c} : c \in { i \in pool : /\ i.owner = client
                                    /\ i.color = color
                                    /\ i.value >= value } }

\* Mutant: a mint is published with the sign of a burn.
ContractTxSignFlipped(kind, amount, call, inputs, change) ==
  [ kind       |-> kind,
    amount     |-> amount,
    reads      |-> call.reads,
    writes     |-> call.writes,
    inputs     |-> inputs,
    transients |-> call.transients,
    outputs    |-> call.outputs \cup change,
    delta      |-> call.mints ]

\* A transcript balanced into a transaction.
ContractTx(kind, amount, call, inputs, change) ==
  [ kind       |-> kind,
    amount     |-> amount,
    reads      |-> call.reads,
    writes     |-> call.writes,
    inputs     |-> inputs,
    transients |-> call.transients,
    outputs    |-> call.outputs \cup change,
    delta      |-> 0 - call.mints ]

NoCells == [cell \in {} |-> 0]

\* A shielded offer without a contract call.
WalletTx(kind, amount, inputs, outputs, delta) ==
  [ kind       |-> kind,
    amount     |-> amount,
    reads      |-> NoCells,
    writes     |-> NoCells,
    inputs     |-> inputs,
    transients |-> {},
    outputs    |-> outputs,
    delta      |-> delta ]

Room == Cardinality(pending) < MaxPending /\ Cardinality(spent) < MaxSpent

Submit(tx) ==
  /\ Room
  /\ pending' = pending \cup {tx}
  /\ UNCHANGED <<ledger, pool, spent, applied, published, tally>>

MintKind(recipient) ==
  IF OwnerOf(recipient) \in Clients THEN "mint" ELSE "stranded-mint"

CallMint ==
  \E recipient \in Recipients, amount \in Amounts :
    /\ ledger.counter < MaxMints
    /\ MintSucceeds(ledger, recipient, amount)
    /\ Submit(ContractTx(MintKind(recipient), amount,
                         Mint(ledger, recipient, amount), {}, {}))

\* The descriptions a caller can pass to burn: of a coin it holds, of one it
\* has spent, or of the change an earlier burn returned.  A description that fits
\* no coin the chain has seen, which no program builds, is not among them.
CoinArguments(client) == {c \in pool \cup spent : c.owner \in {client, Self}}

CallBurn ==
  \E client \in Clients, amount \in Amounts :
    \E coin \in CoinArguments(client) :
      /\ BurnSucceeds(ledger, coin, amount)
      /\ \E inputs \in Funding(client, coin.color, coin.value) :
           Submit(ContractTx("burn", amount, Burn(ledger, client, coin, amount),
                             inputs, WalletChange(inputs, coin.value)))

\* A transfer to the zero coin key.  The contract is not called.
HiddenBurn ==
  \E client \in Clients, amount \in Amounts \ {0} :
    \E inputs \in Funding(client, TokenColor, amount) :
      Submit(WalletTx("hidden-burn", amount, inputs,
                      { WalletCoin(HiddenTag, c, amount, ZeroKey) : c \in inputs }
                        \cup WalletChange(inputs, amount),
                      0))

\* A whole coin into an offer with no output: the imbalance is its value.
ProtocolBurn ==
  \E coin \in pool :
    /\ coin.owner \in Clients
    /\ coin.color = TokenColor
    /\ Submit(WalletTx("protocol-burn", coin.value, {coin}, {}, coin.value))

-----------------------------------------------------------------------------
(* The node                                                                *)

\* Every popeq of the transcript finds the value the circuit was run with.
ReadsMatch(tx) == \A cell \in DOMAIN tx.reads : ledger[cell] = tx.reads[cell]

Nullifiers(tx) == tx.inputs \cup tx.transients

Valid(tx) ==
  /\ ReadsMatch(tx)
  /\ tx.inputs \subseteq pool
  /\ Nullifiers(tx) \cap spent = {}

Stored(tx) ==
  [ cell \in Cells |->
      IF cell \in DOMAIN tx.writes THEN tx.writes[cell] ELSE ledger[cell] ]

Land ==
  \E tx \in pending :
    /\ Valid(tx)
    /\ ledger' = Stored(tx)
    /\ pool' = (pool \ tx.inputs) \cup tx.outputs
    /\ spent' = spent \cup Nullifiers(tx)
    /\ pending' = pending \ {tx}
    /\ applied' = applied \cup {tx}
    /\ published' = published - tx.delta
    /\ tally' = [tally EXCEPT ![tx.kind] = @ + tx.amount]

\* A transcript that no longer replays, or an input already spent.
Reject ==
  \E tx \in pending :
    /\ ~Valid(tx)
    /\ pending' = pending \ {tx}
    /\ UNCHANGED <<ledger, pool, spent, applied, published, tally>>

\* The time to live passes before a block takes the transaction.
Expire ==
  \E tx \in pending :
    /\ pending' = pending \ {tx}
    /\ UNCHANGED <<ledger, pool, spent, applied, published, tally>>

Next ==
  \/ CallMint
  \/ CallBurn
  \/ HiddenBurn
  \/ ProtocolBurn
  \/ Land
  \/ Reject
  \/ Expire

Spec == Init /\ [][Next]_vars

-----------------------------------------------------------------------------
(* Types                                                                   *)

\* What a transcript may store, cell by cell.
StorableOK(writes) ==
  /\ "counter" \in DOMAIN writes => writes.counter \in Nat
  /\ "nonce" \in DOMAIN writes => writes.nonce \in Nonces
  /\ "color" \in DOMAIN writes => writes.color \in {ZeroColor, TokenColor}
  /\ "totalSupply" \in DOMAIN writes => writes.totalSupply \in 0 .. MaxUint128

TxOK(tx) ==
  /\ tx.kind \in Kinds
  /\ tx.amount \in Nat
  /\ tx.delta \in Int
  /\ tx.inputs \subseteq Coins
  /\ tx.transients \subseteq Coins
  /\ tx.outputs \subseteq Coins
  /\ StorableOK(tx.writes)

\* The types of the variables: the cells keep their widths (Uint<128> for
\* _totalSupply), pool and spent hold coins, and every submitted transaction
\* stores only values its cells can hold.
TypeOK ==
  /\ ledger \in Ledgers
  /\ pool \subseteq Coins
  /\ spent \subseteq Coins
  /\ published \in Int
  /\ tally \in [Kinds -> Nat]
  /\ \A tx \in pending : TxOK(tx)

-----------------------------------------------------------------------------
(* Safety                                                                  *)

Minted == tally["mint"] + tally["stranded-mint"]

\* _totalSupply is exactly what mint has issued less what burn has destroyed,
\* although every circuit computes it from a snapshot that may be stale when
\* its transaction lands: no update of a concurrent caller is ever lost.
SupplyAccounting == ledger.totalSupply = Minted - tally["burn"]

\* Summing the public deltas gives what has been minted less what protocol
\* burns have destroyed; burns through the contract leave no trace in it.
PublishedAccounting == published = Minted - tally["protocol-burn"]

\* A coin a wallet holds is never one whose nullifier is already used (it could
\* not be spent), and two unspent coins never share a nonce (they would share a
\* nullifier when their values agree, and one would be lost): the chained nonces
\* of mint and the ones sendShielded derives stay apart under every interleaving.
\* Only a coin minted to the contract itself can meet a used nullifier: burn
\* called with its description receives and spends a second coin like it.
CoinsStayApart ==
  /\ \A c \in pool \cap spent : c.owner = Self
  /\ \A c, d \in pool : c.nonce = d.nonce => c = d

\* A transaction that has landed never lands again, however late a second
\* delivery of it arrives: a mint because the counter it asserts has
\* moved on, every other kind because it uses a nullifier, burn's because it
\* spends in the contract a coin of the very description it was given.
NothingLandsTwice == \A tx \in applied : ~Valid(tx)

LastTag(nonce) == nonce[Len(nonce)]

\* The contract keeps nothing of a coin burned in part: the change of
\* sendShielded, which names the contract as its owner, is passed on to the
\* caller in the same transaction.
ChangeIsPassedOn == \A c \in pool : LastTag(c.nonce) # ChangeTag

\* isKeyOrAddressZero keeps mint from issuing a coin to a zero owner, where it
\* would count in _totalSupply and be spendable by nobody.
MintReachesAnOwner ==
  \A c \in pool : c.owner \in {ZeroKey, ZeroAddress} => LastTag(c.nonce) < 0

\* What the comment on burn says of it: "Will throw if `amount` is less than
\* `coin` value", so that no burn ever leaves change.
BurnThrowsBelowCoinValue ==
  \A tx \in pending :
    tx.kind = "burn" => \A c \in tx.transients : c.value <= tx.amount

-----------------------------------------------------------------------------
(* Why the accounting holds: what is known of a transaction in flight, and  *)
(* of one that has landed.                                                  *)

MintKinds == {"mint", "stranded-mint"}

\* The accounting effect of a transaction follows from what it asserts alone.
InFlightOK(tx) ==
  /\ tx.kind \in MintKinds =>
       /\ DOMAIN tx.reads = Cells
       /\ DOMAIN tx.writes = Cells
       /\ tx.writes.totalSupply = tx.reads.totalSupply + tx.amount
       /\ tx.writes.counter = tx.reads.counter + 1
       /\ tx.delta = 0 - tx.amount
  /\ tx.kind = "burn" =>
       /\ "totalSupply" \in DOMAIN tx.reads
       /\ DOMAIN tx.writes = {"totalSupply"}
       /\ tx.writes.totalSupply = tx.reads.totalSupply - tx.amount
       /\ tx.delta = 0
  /\ tx.kind \in {"hidden-burn", "protocol-burn"} => DOMAIN tx.writes = {}
  /\ tx.kind = "hidden-burn" => tx.delta = 0
  /\ tx.kind = "protocol-burn" => tx.delta = tx.amount
  /\ tx.kind \notin MintKinds => Nullifiers(tx) # {}

\* A landed transaction is barred by a counter that only grows, or by a
\* nullifier that is never removed.
BarredForGood(tx) ==
  \/ "counter" \in DOMAIN tx.reads /\ tx.reads.counter \in 0 .. ledger.counter - 1
  \/ Nullifiers(tx) \cap spent # {}

\* Every submitted transaction is one of the four constructions, and every
\* landed one is barred for good: with TypeOK and the two accountings, the
\* inductive invariant.
TransactionsSound ==
  /\ \A tx \in pending : InFlightOK(tx)
  /\ \A tx \in applied : BarredForGood(tx)
=============================================================================
