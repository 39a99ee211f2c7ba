--------------------------- MODULE NoSupplyToken ---------------------------
(***************************************************************************)
(* contracts/experiments/NoSupplyToken.compact on the chain of             *)
(* TokenLedger: the token without a _totalSupply cell, whose circuits      *)
(* neither read nor write one (ledger.totalSupply stays 0 and stands for   *)
(* no cell at all).                                                        *)
(*                                                                         *)
(* The experiment asks what the cell costs.  Its answer in the README is   *)
(* privacy: without the cell the burned amount is public nowhere.  The     *)
(* model also shows what else goes with it: burns stop conflicting, and    *)
(* so does every bound on what a burn may destroy.                         *)
(***************************************************************************)
EXTENDS TokenSupply

-----------------------------------------------------------------------------
(* The circuits                                                            *)

\* No zero test of the recipient and no counter to overflow.
MintUncountedSucceeds(amount) == amount \in 0 .. MaxUint64

MintUncounted(s, recipient, amount) ==
  LET index    == s.counter + 1
      newNonce == EvolveNonce(index, s.nonce)
  IN  [ reads      |-> [counter |-> s.counter, nonce |-> s.nonce, color |-> s.color],
        writes     |-> [ counter |-> index,
                         nonce   |-> newNonce,
                         color   |-> IF s.color = ZeroColor
                                       THEN TokenColor ELSE s.color ],
        transients |-> {},
        outputs    |-> {MintedCoin(amount, newNonce, recipient)},
        mints      |-> amount ]

\* Mutant: the amount is not compared with the coin.
BurnUncountedSucceedsAnyAmount(s, coin, amount) == coin.color = s.color

BurnUncountedSucceeds(s, coin, amount) ==
  /\ coin.color = s.color
  /\ coin.value >= amount

\* Mutant: the line the experiment removes.
BurnCounted(s, caller, coin, amount) == Burn(s, caller, coin, amount)

\* Mutant: the color is compared with a copy, not with the cell.
BurnUncountedUnread(s, caller, coin, amount) ==
  [Burn(s, caller, coin, amount) EXCEPT !.reads = NoCells, !.writes = NoCells]

\* Mutant: receiveShielded is missing.
BurnUncountedWithoutReceive(s, caller, coin, amount) ==
  [ Burn(s, caller, coin, amount) EXCEPT
      !.reads = [color |-> s.color], !.writes = NoCells, !.transients = {} ]

\* The coin operations of ShieldedERC20's burn, and none of its writes.
BurnUncounted(s, caller, coin, amount) ==
  LET burned   == SendShielded(coin, ZeroKey, amount)
      returned == {SendShielded(c, caller, c.value) : c \in burned.change}
  IN  [ reads      |-> [color |-> s.color],
        writes     |-> NoCells,
        transients |-> {burned.spent} \cup {r.spent : r \in returned},
        outputs    |-> {burned.sent} \cup {r.sent : r \in returned},
        mints      |-> 0 ]

-----------------------------------------------------------------------------
(* The wrapper of no-supply-contract.ts                                    *)

CallMintUncounted ==
  \E recipient \in Recipients, amount \in Amounts :
    /\ ledger.counter < MaxMints
    /\ MintUncountedSucceeds(amount)
    /\ Submit(ContractTx(MintKind(recipient), amount,
                         MintUncounted(ledger, recipient, amount), {}, {}))

CallBurnUncounted ==
  \E client \in Clients, amount \in Amounts :
    \E coin \in CoinArguments(client) :
      /\ BurnUncountedSucceeds(ledger, coin, amount)
      /\ \E inputs \in Funding(client, coin.color, coin.value) :
           Submit(ContractTx("burn", amount,
                             BurnUncounted(ledger, client, coin, amount),
                             inputs, WalletChange(inputs, coin.value)))

NextUncounted ==
  \/ CallMintUncounted
  \/ CallBurnUncounted
  \/ Land
  \/ Reject
  \/ Expire

SpecUncounted == Init /\ [][NextUncounted]_vars

-----------------------------------------------------------------------------
(* What the missing cell buys                                              *)

\* What an indexer reads of a call: the cells it asserts and stores, its mint
\* effect, and how many nullifiers and commitments it claims.  The hashes
\* themselves say nothing of the coins.
PublicView(call) ==
  [ reads       |-> call.reads,
    writes      |-> call.writes,
    mints       |-> call.mints,
    nullifiers  |-> Cardinality(call.transients),
    commitments |-> Cardinality(call.outputs) ]

\* README, "the burn reveals nothing but hashes": of a coin that could be burned
\* now, any two amounts that leave change give calls with the same public view.
\* (A burn of the whole coin claims one nullifier and one commitment less: that
\* nothing is left of the coin is public.)
AmountStaysHidden ==
  \A client \in Clients :
    \A coin \in CoinArguments(client) :
      coin.color = ledger.color =>
        \A a, b \in 0 .. coin.value - 1 :
          PublicView(BurnUncounted(ledger, client, coin, a)) =
          PublicView(BurnUncounted(ledger, client, coin, b))

\* Burns of different coins do not disturb each other: once the token has its
\* color, a burn in flight is made invalid only by a transaction that uses one
\* of its nullifiers.  (With the cell, every burn or mint that lands first
\* invalidates it.)
BurnsDoNotConflict ==
  [][ ledger.color = TokenColor =>
        \A tx \in pending \cap pending' :
          tx.kind = "burn" /\ Valid(tx) /\ ~Valid(tx)' =>
            Nullifiers(tx) \cap (spent' \ spent) # {} ]_vars

\* To everybody but the caller a burn is now a hidden burn: with the fold in the
\* place of both public counters the system still keeps the promise of
\* SupplyViews, and no public number moves when a burn lands.
UncountedViews == INSTANCE SupplyViews
                    WITH total <- published,
                         fold  <- published,
                         circ  <- Circulating

BurnsLookHidden == UncountedViews!Spec

-----------------------------------------------------------------------------
(* What it loses                                                           *)

ForeignCoinsDestroyed ==
  ValueOf({c \in pool : c.color # TokenColor /\ c.owner = ZeroKey})

\* "token not created from this contract": from the first mint on, no coin of
\* another color is destroyed, although a burn of a coin of the zero color, which
\* _color is equal to before that mint, may still be in flight when it lands.
\* (Before the first mint nothing is left to stop such a burn; in ShieldedERC20
\* the counter does.)
ForeignCoinsAreSafeOnceMinted ==
  [][ ledger.color = TokenColor => ForeignCoinsDestroyed' = ForeignCoinsDestroyed ]_vars
=============================================================================
