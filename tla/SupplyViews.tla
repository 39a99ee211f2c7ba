---------------------------- MODULE SupplyViews ----------------------------
(***************************************************************************)
(* What an observer is promised about the supply of the token: two public  *)
(* counters, and the circulating amount no public counter shows.           *)
(*                                                                         *)
(*   total  the contract's _totalSupply                                    *)
(*   fold   the sum supply.ts folds from the public per-transaction deltas *)
(*   circ   what wallets that hold a key can still spend                   *)
(*                                                                         *)
(* Every operation is one atomic step here: no snapshot, no coin, no       *)
(* transaction that waits, fails or expires.                               *)
(***************************************************************************)
EXTENDS Integers

CONSTANT MaxUint64   \* the largest amount one mint may issue

VARIABLES total, fold, circ

views == <<total, fold, circ>>

Init == total = 0 /\ fold = 0 /\ circ = 0

\* Both views see a mint.
Mint ==
  \E a \in 0 .. MaxUint64 :
    /\ total' = total + a
    /\ fold' = fold + a
    /\ circ' = circ + a

\* A mint to an owner without a wallet counts, and never circulates.
StrandedMint ==
  \E a \in 0 .. MaxUint64 :
    /\ total' = total + a
    /\ fold' = fold + a
    /\ UNCHANGED circ

\* A burn through the contract: only _totalSupply sees it.
ContractBurn ==
  \E a \in 0 .. circ :
    /\ total' = total - a
    /\ circ' = circ - a
    /\ UNCHANGED fold

\* A transfer to the zero coin key: neither sees it.
HiddenBurn ==
  \E a \in 0 .. circ :
    /\ circ' = circ - a
    /\ UNCHANGED <<total, fold>>

\* A positive imbalance: only the fold sees it.
ProtocolBurn ==
  \E a \in 0 .. circ :
    /\ fold' = fold - a
    /\ circ' = circ - a
    /\ UNCHANGED total

Next == Mint \/ StrandedMint \/ ContractBurn \/ HiddenBurn \/ ProtocolBurn

Spec == Init /\ [][Next]_views

\* Each public counter is an upper bound on what circulates, and what does
\* circulate is never negative.
BothBoundCirculation == 0 <= circ /\ circ <= total /\ circ <= fold
=============================================================================
