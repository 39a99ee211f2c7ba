------------------------- MODULE SupplyAudit_proofs -------------------------
(***************************************************************************)
(* The audit, for any amounts and any losses, in four layers:              *)
(*                                                                         *)
(*   AuditInv    the control of the script: where an exception may be on   *)
(*               its way, and which rows exist when the process ends       *)
(*   StageInv    the chain, the wallet and the transaction in flight, in   *)
(*               each phase of each step                                   *)
(*   TruthInv    what the rows say is what the chain was                   *)
(*   CleanInv, LastRunInv                                                  *)
(*               a run without faults captures everything, and passes      *)
(***************************************************************************)
EXTENDS SupplyAudit, Sums_proofs, FiniteSetTheorems, TLAPS

Running == {"submit", "confirm", "sync", "row"}

\* Waits for a coin belong to the steps that leave one, and an exception or an
\* exit code exists only on the way out, never as an exception of step 5.
ControlInv ==
  /\ step \in Steps
  /\ phase \in Phases
  /\ phase = "sync" => step \in 2 .. 4
  /\ phase \in Running => exit = "none"
  /\ phase = "finally" => exit \in {"none", "error"}
  /\ phase = "exited" => exit \in {"ok", "error"}
  /\ step = 5 /\ phase = "finally" => exit = "none"

\* One row per step that is done, in order; all five unless an exception is on
\* its way.
RowsInv ==
  /\ \E S : rows \in Seq(S)
  /\ \A i \in DOMAIN rows : rows[i].step = i
  /\ phase \in Running => Len(rows) = step - 1
  /\ phase = "finally" /\ exit = "none" => Len(rows) = 5
  /\ phase = "exited" /\ exit = "ok" => Len(rows) = 5 /\ (strict => ~HardFailure)
  /\ Len(rows) <= 5

AuditInv == ControlInv /\ RowsInv

\* The deployment starts without rows.
LEMMA AuditInitSound == Init => AuditInv
<1>. SUFFICES ASSUME Init PROVE AuditInv
  OBVIOUS
<1>1. rows \in Seq({}) /\ Len(rows) = 0 /\ DOMAIN rows = {}
  BY DEF Init
<1>. QED
  BY <1>1 DEF Init, AuditInv, ControlInv, RowsInv, Steps, Phases, Running

\* A new row stands behind the others.
LEMMA AppendRow ==
  ASSUME NEW log, \E S : log \in Seq(S), NEW row
  PROVE  /\ \E S : Append(log, row) \in Seq(S)
         /\ Len(Append(log, row)) = Len(log) + 1
         /\ DOMAIN Append(log, row) = 1 .. Len(log) + 1
         /\ \A i \in DOMAIN log : Append(log, row)[i] = log[i]
         /\ DOMAIN log = 1 .. Len(log)
         /\ Len(log) \in Nat
         /\ Append(log, row)[Len(log) + 1] = row
<1>1. PICK S : log \in Seq(S)
  OBVIOUS
<1>2. log \in Seq(S \cup {row})
  BY <1>1
<1>3. Append(log, row) \in Seq(S \cup {row})
  BY <1>2
<1>. QED
  BY <1>2, <1>3

\* The steps that leave the rows alone.
LEMMA ControlSound ==
  ASSUME AuditInv, UNCHANGED rows, UNCHANGED strict,
         \/ SubmitCall
         \/ SubmitHiddenBurn
         \/ InsufficientFunds
         \/ SubmitProtocolBurn
         \/ Confirm
         \/ Ready
         \/ Timeout
         \/ ConfirmFails
  PROVE  AuditInv'
<1>. USE DEF AuditInv, ControlInv, Steps, Phases, Running
<1>1. ControlInv'
  <2>1. CASE SubmitCall
    BY <2>1 DEF SubmitCall, Fail
  <2>2. CASE SubmitHiddenBurn
    BY <2>2 DEF SubmitHiddenBurn, Fail
  <2>3. CASE InsufficientFunds
    BY <2>3 DEF InsufficientFunds, Fail
  <2>4. CASE SubmitProtocolBurn
    BY <2>4 DEF SubmitProtocolBurn
  <2>5. CASE Confirm
    BY <2>5 DEF Confirm
  <2>6. CASE Ready
    BY <2>6 DEF Ready
  <2>7. CASE Timeout
    BY <2>7 DEF Timeout, Fail
  <2>8. CASE ConfirmFails
    BY <2>8 DEF ConfirmFails, Fail
  <2>. QED
    BY <2>1, <2>2, <2>3, <2>4, <2>5, <2>6, <2>7, <2>8
<1>2. /\ phase \in Running
      /\ step' = step
      /\ phase' \in Running \/ (phase' = "finally" /\ exit' = "error")
  <2>1. CASE SubmitCall
    BY <2>1 DEF SubmitCall, Fail
  <2>2. CASE SubmitHiddenBurn
    BY <2>2 DEF SubmitHiddenBurn, Fail
  <2>3. CASE InsufficientFunds
    BY <2>3 DEF InsufficientFunds, Fail
  <2>4. CASE SubmitProtocolBurn
    BY <2>4 DEF SubmitProtocolBurn
  <2>5. CASE Confirm
    BY <2>5 DEF Confirm
  <2>6. CASE Ready
    BY <2>6 DEF Ready
  <2>7. CASE Timeout
    BY <2>7 DEF Timeout, Fail
  <2>8. CASE ConfirmFails
    BY <2>8 DEF ConfirmFails, Fail
  <2>. QED
    BY <2>1, <2>2, <2>3, <2>4, <2>5, <2>6, <2>7, <2>8
<1>3. RowsInv'
  BY <1>2 DEF RowsInv
<1>. QED
  BY <1>1, <1>3

\* A checkpoint adds the row of its step and goes on to the next, or out.
LEMMA CheckpointSound == ASSUME AuditInv, Checkpoint PROVE AuditInv'
<1>. USE DEF AuditInv, ControlInv, RowsInv, Steps, Phases, Running
<1>1. PICK row : rows' = Append(rows, row) /\ row.step = step
  BY DEF Checkpoint
<1>2. /\ phase = "row" /\ exit = "none" /\ exit' = "none" /\ strict' = strict
      /\ \/ step = 5 /\ phase' = "finally" /\ step' = 5
         \/ step # 5 /\ phase' = "submit" /\ step' = step + 1
  BY DEF Checkpoint
<1>3. ControlInv'
  BY <1>2
<1>4. /\ \E S : rows' \in Seq(S)
      /\ Len(rows') = step
      /\ \A i \in DOMAIN rows' : rows'[i].step = i
  <2>1. Len(rows) = step - 1 /\ step \in 1 .. 5
    BY <1>2
  <2>2. /\ DOMAIN rows = 1 .. Len(rows)
        /\ DOMAIN rows' = 1 .. Len(rows) + 1
        /\ Len(rows') = Len(rows) + 1
        /\ \E S : rows' \in Seq(S)
        /\ \A i \in DOMAIN rows : rows'[i] = rows[i]
        /\ rows'[Len(rows) + 1] = row
    <3>1. \E S : rows \in Seq(S)
      OBVIOUS
    <3>2. rows' = Append(rows, row)
      BY <1>1
    <3>. HIDE DEF AuditInv, ControlInv, RowsInv, Steps, Phases, Running
    <3>. QED
      BY <3>1, <3>2, AppendRow
  <2>3. ASSUME NEW i \in DOMAIN rows' PROVE rows'[i].step = i
    <3>1. CASE i = step
      BY <1>1, <2>1, <2>2, <3>1
    <3>2. CASE i # step
      BY <2>1, <2>2, <2>3, <3>2
    <3>. QED
      BY <3>1, <3>2
  <2>. QED
    BY <2>1, <2>2, <2>3
<1>5. RowsInv'
  BY <1>2, <1>4
<1>. QED
  BY <1>3, <1>5

\* The exit code is taken from the exception, or else from the rows.
LEMMA FinallySound == ASSUME AuditInv, Finally PROVE AuditInv'
<1>. USE DEF AuditInv, Finally, ControlInv, Steps, Phases, Running
<1>1. ControlInv'
  OBVIOUS
<1>2. exit' = "ok" => exit = "none" /\ (strict => ~HardFailure)
  OBVIOUS
<1>3. HardFailure' <=> HardFailure
  BY DEF HardFailure, RowPass
<1>4. phase = "finally" /\ phase' = "exited" /\ UNCHANGED <<rows, strict, step>>
  OBVIOUS
<1>5. RowsInv'
  BY <1>2, <1>3, <1>4 DEF RowsInv
<1>. QED
  BY <1>1, <1>5

\* Every step preserves the invariant.
LEMMA AuditNextSound == AuditInv /\ [Next]_vars => AuditInv'
<1>. SUFFICES ASSUME AuditInv, [Next]_vars PROVE AuditInv'
  OBVIOUS
<1>1. CASE Checkpoint
  BY <1>1, CheckpointSound
<1>2. CASE Finally
  BY <1>2, FinallySound
<1>3. CASE \/ SubmitCall \/ SubmitHiddenBurn \/ InsufficientFunds
           \/ SubmitProtocolBurn
  <2>1. UNCHANGED <<rows, strict>>
    BY <1>3 DEF SubmitCall, SubmitHiddenBurn, InsufficientFunds, SubmitProtocolBurn,
       Accepted, NotAccepted
  <2>. QED
    BY <1>3, <2>1, ControlSound
<1>4. CASE Confirm \/ Ready \/ Timeout \/ ConfirmFails
  <2>1. UNCHANGED <<rows, strict>>
    BY <1>4 DEF Confirm, Ready, Timeout, ConfirmFails
  <2>. QED
    BY <1>4, <2>1, ControlSound
<1>5. CASE Land \/ Lose \/ Sync \/ Index \/ Exited \/ UNCHANGED vars
  <2>1. UNCHANGED <<step, phase, rows, exit, strict>>
    BY <1>5 DEF Land, Lose, Sync, Index, Exited, vars, script
  <2>. QED
    BY <2>1 DEF AuditInv, ControlInv, RowsInv, HardFailure, RowPass
<1>. QED
  BY <1>1, <1>2, <1>3, <1>4, <1>5 DEF Next, Script

\* The invariant holds throughout.
THEOREM AuditInvariance == Spec => []AuditInv
  BY AuditInitSound, AuditNextSound, PTL DEF Spec

\* No failure of the protocol burn leaves main's try block as an exception.
THEOREM ProtocolBurnIsContained == Spec => []ProtocolBurnNeverAborts
<1>1. AuditInv => ProtocolBurnNeverAborts
  BY DEF AuditInv, ControlInv, ProtocolBurnNeverAborts
<1>. QED
  BY <1>1, AuditInvariance, PTL

\* A strict run that exits with 0 has all four measured rows, and they pass.
THEOREM StrictSuccessIsEarned == Spec => []StrictExitIsEarned
<1>1. ASSUME AuditInv, strict, exit = "ok" PROVE StrictExitIsEarned
  <2>1. phase = "exited"
    BY <1>1 DEF AuditInv, ControlInv, Phases, Running
  <2>2. Len(rows) = 5 /\ ~HardFailure
    BY <1>1, <2>1 DEF AuditInv, RowsInv
  <2>3. DOMAIN rows = 1 .. 5
    BY <1>1, <2>2 DEF AuditInv, RowsInv
  <2>4. Measured = 1 .. 4
    BY <1>1, <2>3 DEF AuditInv, RowsInv, Measured
  <2>5. Cardinality(1 .. 4) = 4
    <3>1. \A a, b \in Int : Cardinality(a .. b) = IF a > b THEN 0 ELSE b - a + 1
      BY FS_Interval
    <3>2. Cardinality(1 .. 4) = IF 1 > 4 THEN 0 ELSE 4 - 1 + 1
      <4>1. 1 \in Int /\ 4 \in Int
        OBVIOUS
      <4>. QED
        BY <3>1, <4>1, Zenon
    <3>. QED
      BY <3>2, SMT
  <2>6. \A i \in Measured : RowPass(rows[i])
    BY <2>2 DEF HardFailure, Measured
  <2>. QED
    BY <2>4, <2>5, <2>6 DEF StrictExitIsEarned
<1>2. AuditInv => StrictExitIsEarned
  BY <1>1 DEF StrictExitIsEarned
<1>. QED
  BY <1>2, AuditInvariance, PTL

-----------------------------------------------------------------------------
(* The chain, the wallet and the transaction in flight.  The scenario       *)
(* leaves no choice: how many of its transactions have landed says which    *)
(* coins there are and what the counter and the fold are, and at most the   *)
(* transaction of the current step is still missing.                        *)

\* The counter, the fold and what is left to spend when n transactions landed.
TotalAfter(n) ==
  IF n = 0 THEN NoState ELSE IF n = 1 THEN 0
  ELSE IF n = 2 THEN amt.M ELSE amt.M - amt.B

FoldAfter(n) ==
  IF n < 2 THEN 0 ELSE IF n < 5 THEN amt.M ELSE amt.B + amt.H

LeftAfter(n) ==
  IF n = 2 THEN amt.M ELSE IF n = 3 THEN amt.M - amt.B
  ELSE IF n = 4 THEN amt.M - amt.B - amt.H ELSE 0

\* The coins: what is left, in one piece, and the hidden burn.
Piece(n, value) ==
  IF value = 0 THEN {} ELSE {[born |-> n, value |-> value, dead |-> FALSE]}

Hidden(n) ==
  IF n < 4 THEN {} ELSE {[born |-> 4, value |-> amt.H, dead |-> TRUE]}

CoinsAfter(n) == Piece(n, LeftAfter(n)) \cup Hidden(n)

ChainAfter(n) ==
  [landed |-> n, total |-> TotalAfter(n), fold |-> FoldAfter(n),
   coins |-> CoinsAfter(n)]

\* What the burns that have landed imply for the amounts.
Affordable(n) ==
  /\ n >= 3 => amt.B <= amt.M
  /\ n >= 4 => amt.B + amt.H <= amt.M

\* A transaction that takes the chain from one step to the next.
Advances(tx) ==
  /\ tx.step = step
  /\ Affordable(step)
  /\ tx.delta = FoldAfter(step - 1) - FoldAfter(step)
  /\ TotalAfter(step) = IF step = 1 THEN 0 ELSE TotalAfter(step - 1) + tx.supply
  /\ CoinsAfter(step) = (CoinsAfter(step - 1) \ tx.inputs) \cup tx.outputs

\* The wallet has booked what the transaction in flight spends.
InFlight(tx) ==
  /\ Advances(tx)
  /\ chain.landed = step - 1
  /\ wallet \cap tx.inputs = {}

WorldInv ==
  /\ chain.landed \in {step - 1, step}
  /\ chain = ChainAfter(chain.landed)
  /\ Affordable(chain.landed)
  /\ wallet \subseteq chain.coins
  /\ inflight = {} \/ \E tx : inflight = {tx}
  /\ \A tx \in inflight : InFlight(tx)

\* Where the chain stands in each phase; in a step without faults a transaction
\* that has not landed is on its way.
PaceInv ==
  /\ phase = "submit" => chain.landed = step - 1 /\ inflight = {}
  /\ phase = "sync" => chain.landed = step \/ step = 4
  /\ phase = "row" /\ step < 5 => chain.landed = step
  /\ ~fault /\ phase \in {"confirm", "sync"} => chain.landed = step \/ inflight # {}

\* What the waits have made sure of until the next step spends it.
WalletInv ==
  /\ \/ phase = "row" /\ step \in {2, 3}
     \/ phase = "submit" /\ step \in {3, 4}
     => wallet = chain.coins
  /\ \/ phase = "row" /\ step = 4
     \/ phase = "submit" /\ step = 5
     => \E c \in wallet : c.value = LeftAfter(4)

Typed ==
  /\ amt \in Scenarios
  /\ strict \in BOOLEAN
  /\ fault \in BOOLEAN
  /\ indexed \in Nat \cup {NoState}
  /\ picked \in SUBSET Coins

StageInv == AuditInv /\ Typed /\ WorldInv /\ PaceInv /\ WalletInv

\* The amounts are naturals, and something is burned in hiding.
LEMMA Amounts ==
  ASSUME amt \in Scenarios
  PROVE  /\ amt.M \in Nat /\ amt.B \in Nat /\ amt.H \in Nat
         /\ amt.H > 0
BY ScenariosAssumption

\* The sum over no coins.
LEMMA SumOfNone == MapThenSumSet(LAMBDA c : c.value, {}) = 0
<1>. DEFINE v == [c \in {} |-> 0]
<1>1. \A c \in {} : v[c] = c.value
  OBVIOUS
<1>. HIDE DEF v
<1>2. MapThenSumSet(LAMBDA c : c.value, {}) = Total({}, v)
  BY <1>1, FS_EmptySet, SumOfValues
<1>. QED
  BY <1>2, TotalEmpty

\* The type of a coin, from its parts.
LEMMA CoinTyped ==
  ASSUME NEW n \in Steps, NEW value \in Nat, NEW dead \in BOOLEAN
  PROVE  [born |-> n, value |-> value, dead |-> dead] \in Coins
BY DEF Coins

\* The coins of every step have their types.
LEMMA CoinsTyped ==
  ASSUME amt \in Scenarios, NEW n \in 0 .. 5, Affordable(n)
  PROVE  /\ CoinsAfter(n) \subseteq Coins
         /\ TotalAfter(n) \in Nat \cup {NoState}
         /\ FoldAfter(n) \in Nat
         /\ LeftAfter(n) \in Nat
<1>1. amt.M \in Nat /\ amt.B \in Nat /\ amt.H \in Nat
  BY Amounts
<1>2. LeftAfter(n) \in Nat /\ FoldAfter(n) \in Nat /\ TotalAfter(n) \in Nat \cup {NoState}
  BY <1>1 DEF LeftAfter, FoldAfter, TotalAfter, Affordable
<1>3. LeftAfter(n) # 0 => n \in Steps
  BY DEF LeftAfter, Steps
<1>4. Piece(n, LeftAfter(n)) \subseteq Coins
  <2>1. CASE LeftAfter(n) # 0
    <3>1. [born |-> n, value |-> LeftAfter(n), dead |-> FALSE] \in Coins
      BY <1>2, <1>3, <2>1, CoinTyped
    <3>. QED
      BY <2>1, <3>1 DEF Piece
  <2>2. CASE LeftAfter(n) = 0
    BY <2>2 DEF Piece
  <2>. QED
    BY <2>1, <2>2
<1>5. Hidden(n) \subseteq Coins
  <2>1. [born |-> 4, value |-> amt.H, dead |-> TRUE] \in Coins
    <3>1. 4 \in Steps
      BY DEF Steps
    <3>. QED
      BY <1>1, <3>1, CoinTyped
  <2>. QED
    BY <2>1 DEF Hidden
<1>. QED
  BY <1>2, <1>4, <1>5 DEF CoinsAfter

\* What is in a piece is all of it.
LEMMA PieceIsOne ==
  ASSUME NEW n, NEW value, NEW c \in Piece(n, value)
  PROVE  /\ value # 0 /\ Piece(n, value) = {c}
         /\ c = [born |-> n, value |-> value, dead |-> FALSE]
         /\ c.value = value
<1>1. value # 0
  BY DEF Piece
<1>2. Piece(n, value) = {[born |-> n, value |-> value, dead |-> FALSE]}
  BY <1>1 DEF Piece
<1>3. c = [born |-> n, value |-> value, dead |-> FALSE]
  BY <1>2
<1>4. c.value = value
  BY <1>3
<1>. QED
  BY <1>1, <1>2, <1>3, <1>4

\* The deployment starts on an empty chain.
LEMMA StageInit == Init => StageInv
<1>. SUFFICES ASSUME Init PROVE StageInv
  OBVIOUS
<1>1. AuditInv
  BY AuditInitSound
<1>2. Typed
  BY DEF Init, Typed
<1>3. CoinsAfter(0) = {}
  BY DEF CoinsAfter, Piece, Hidden, LeftAfter
<1>4. WorldInv
  BY <1>3 DEF Init, WorldInv, ChainAfter, TotalAfter, FoldAfter, Affordable
<1>. QED
  BY <1>1, <1>2, <1>4 DEF Init, StageInv, PaceInv, WalletInv

\* Whatever can be built, of coins that are alive, advances the chain.
LEMMA BuildableAdvances ==
  ASSUME StageInv, phase = "submit", NEW tx \in Buildable, ~Dead(tx)
  PROVE  Advances(tx)
<1>. DEFINE L == amt.M - amt.B
            R == amt.M - amt.B - amt.H
<1>1. amt.M \in Nat /\ amt.B \in Nat /\ amt.H \in Nat /\ amt.H > 0
  BY Amounts DEF StageInv, Typed
<1>2. /\ step \in 1 .. 5
      /\ wallet \subseteq CoinsAfter(step - 1)
      /\ Affordable(step - 1)
  BY DEF StageInv, AuditInv, ControlInv, Steps, WorldInv, PaceInv, ChainAfter
<1>3. CASE step = 1
  BY <1>1, <1>3 DEF Buildable, Tx, Advances, Affordable, FoldAfter, TotalAfter,
     CoinsAfter, Piece, Hidden, LeftAfter
<1>4. CASE step = 2
  <2>1. tx = Tx({}, Live(amt.M), 0 - amt.M, amt.M)
    BY <1>4 DEF Buildable
  <2>2. CoinsAfter(1) = {} /\ CoinsAfter(2) = Live(amt.M)
    BY <1>4 DEF CoinsAfter, Piece, Hidden, LeftAfter, Live, Coin
  <2>. QED
    BY <1>1, <1>4, <2>1, <2>2 DEF Tx, Advances, Affordable, FoldAfter, TotalAfter
<1>5. CASE step = 3
  <2>1. PICK c \in wallet : /\ tx = Tx({c}, Live(c.value - amt.B), 0, 0 - amt.B)
                            /\ amt.M >= amt.B
    BY <1>5 DEF Buildable, BurnSucceeds
  <2>2. c.value = amt.M /\ CoinsAfter(2) = {c}
    <3>1. c \in CoinsAfter(2)
      BY <1>2, <1>5
    <3>2. CoinsAfter(2) = Piece(2, amt.M)
      BY DEF CoinsAfter, Hidden, LeftAfter
    <3>. QED
      BY <3>1, <3>2, PieceIsOne
  <2>3. CoinsAfter(3) = Live(amt.M - amt.B)
    BY <1>5 DEF CoinsAfter, Piece, Hidden, LeftAfter, Live, Coin
  <2>. HIDE DEF CoinsAfter, Live
  <2>. QED
    BY <1>1, <1>5, <2>1, <2>2, <2>3 DEF Tx, Advances, Affordable, FoldAfter, TotalAfter
<1>6. CASE step = 4
  <2>. DEFINE outputs(c) == Live(c.value - amt.H) \cup {Coin(amt.H, TRUE)}
  <2>0. Buildable = {Tx({c}, outputs(c), 0, 0) : c \in {w \in wallet : w.value >= amt.H}}
    BY <1>6 DEF Buildable
  <2>. HIDE DEF outputs
  <2>1. PICK c \in wallet : tx = Tx({c}, outputs(c), 0, 0) /\ c.value >= amt.H
    BY <2>0
  <2>2. c.value = L /\ CoinsAfter(3) = {c}
    <3>1. c \in CoinsAfter(3)
      BY <1>2, <1>6
    <3>2. CoinsAfter(3) = Piece(3, L)
      BY DEF CoinsAfter, Hidden, LeftAfter
    <3>. QED
      BY <3>1, <3>2, PieceIsOne
  <2>3. CoinsAfter(4) = Live(R) \cup {Coin(amt.H, TRUE)}
    BY <1>6 DEF CoinsAfter, Piece, Hidden, LeftAfter, Live, Coin
  <2>4. c.value - amt.H = R
    BY <2>2
  <2>5. outputs(c) = CoinsAfter(4)
    BY <2>3, <2>4 DEF outputs
  <2>6. Affordable(4)
    BY <1>1, <2>1, <2>2 DEF Affordable
  <2>. QED
    BY <1>1, <1>6, <2>1, <2>2, <2>5, <2>6 DEF Tx, Advances, FoldAfter, TotalAfter
<1>7. CASE step = 5
  <2>1. PICK c \in wallet : tx = Tx({c}, {}, c.value, 0)
    BY <1>7 DEF Buildable, LargestCoins
  <2>2. ~c.dead
    BY <2>1 DEF Dead, Tx
  <2>3. c = [born |-> 4, value |-> R, dead |-> FALSE] /\ R # 0
    BY <1>2, <1>7, <2>2 DEF CoinsAfter, Piece, Hidden, LeftAfter
  <2>4. CoinsAfter(4) = {c} \cup Hidden(4) /\ CoinsAfter(5) = Hidden(4)
    BY <2>3 DEF CoinsAfter, Piece, Hidden, LeftAfter
  <2>5. c \notin Hidden(4)
    BY <2>3 DEF Hidden
  <2>6. CoinsAfter(5) = (CoinsAfter(4) \ {c}) \cup {}
    BY <2>4, <2>5
  <2>7. tx.step = 5 /\ tx.inputs = {c} /\ tx.outputs = {} /\ tx.supply = 0
        /\ tx.delta = R
    BY <1>7, <2>1, <2>3 DEF Tx
  <2>8. Affordable(5)
    BY <1>1, <1>2, <1>7 DEF Affordable
  <2>9. R = FoldAfter(4) - FoldAfter(5) /\ TotalAfter(5) = TotalAfter(4) + 0
    BY <1>1 DEF FoldAfter, TotalAfter
  <2>. HIDE DEF R
  <2>. QED
    BY <1>7, <2>6, <2>7, <2>8, <2>9 DEF Advances
<1>. QED
  BY <1>2, <1>3, <1>4, <1>5, <1>6, <1>7

\* Steps that leave the chain and the step of the scenario alone.
LEMMA WorldStays ==
  ASSUME WorldInv, UNCHANGED <<amt, step, chain>>,
         wallet' \subseteq chain.coins,
         inflight' = {} \/ inflight' = inflight,
         \A tx \in inflight' : wallet' \cap tx.inputs = {}
  PROVE  WorldInv'
<1>1. /\ chain'.landed \in {step' - 1, step'}
      /\ wallet' \subseteq chain'.coins
      /\ inflight' = {} \/ \E tx : inflight' = {tx}
  BY DEF WorldInv
<1>2. chain' = ChainAfter(chain.landed)'
  BY DEF WorldInv, ChainAfter, TotalAfter, FoldAfter, CoinsAfter, Piece, Hidden,
     LeftAfter
<1>3. Affordable(chain.landed)'
  BY DEF WorldInv, Affordable
<1>4. ASSUME NEW tx \in inflight' PROVE InFlight(tx)'
  <2>1. tx \in inflight
    OBVIOUS
  <2>2. Advances(tx) /\ chain.landed = step - 1
    BY <2>1 DEF WorldInv, InFlight
  <2>3. Advances(tx)'
    BY <2>2 DEF Advances, Affordable, TotalAfter, FoldAfter, CoinsAfter, Piece,
       Hidden, LeftAfter
  <2>. QED
    BY <2>2, <2>3 DEF InFlight
<1>. QED
  BY <1>1, <1>2, <1>3, <1>4 DEF WorldInv

\* What lands is the transaction of the current step.
LEMMA LandKeepsStage ==
  ASSUME StageInv, Land PROVE Typed' /\ WorldInv' /\ PaceInv' /\ WalletInv'
<1>1. PICK tx \in inflight :
        /\ chain' = [ landed |-> tx.step,
                      total  |-> IF tx.step = 1 THEN 0 ELSE chain.total + tx.supply,
                      fold   |-> chain.fold - tx.delta,
                      coins  |-> (chain.coins \ tx.inputs) \cup tx.outputs ]
        /\ inflight' = {}
        /\ UNCHANGED <<amt, strict, script, indexed, wallet, fault>>
  BY DEF Land
<1>2. UNCHANGED <<amt, strict, step, phase, indexed, wallet, picked, fault>>
  BY <1>1 DEF script
<1>3. InFlight(tx) /\ chain = ChainAfter(step - 1) /\ wallet \subseteq chain.coins
  BY DEF StageInv, WorldInv, InFlight
<1>4. amt.M \in Nat /\ amt.B \in Nat /\ amt.H \in Nat /\ step \in 1 .. 5
  BY Amounts DEF StageInv, Typed, AuditInv, ControlInv, Steps
<1>5. chain' = ChainAfter(step)
  <2>1. tx.step = step
    BY <1>3 DEF InFlight, Advances
  <2>2. TotalAfter(step) = IF tx.step = 1 THEN 0 ELSE chain.total + tx.supply
    BY <1>3 DEF InFlight, Advances, ChainAfter
  <2>3. FoldAfter(step) = chain.fold - tx.delta
    <3>1. chain.fold = FoldAfter(step - 1) /\ tx.delta = FoldAfter(step - 1) - FoldAfter(step)
      BY <1>3 DEF InFlight, Advances, ChainAfter
    <3>2. FoldAfter(step - 1) \in Int /\ FoldAfter(step) \in Int
      BY <1>4 DEF FoldAfter
    <3>. QED
      BY <3>1, <3>2
  <2>4. CoinsAfter(step) = (chain.coins \ tx.inputs) \cup tx.outputs
    BY <1>3 DEF InFlight, Advances, ChainAfter
  <2>. QED
    BY <1>1, <2>1, <2>2, <2>3, <2>4 DEF ChainAfter
<1>6. ChainAfter(step)' = ChainAfter(step)
  BY <1>2 DEF ChainAfter, TotalAfter, FoldAfter, CoinsAfter, Piece, Hidden, LeftAfter
<1>7. chain'.landed = step
  BY <1>5 DEF ChainAfter
<1>8. chain' = ChainAfter(chain.landed)' /\ Affordable(chain.landed)'
  <2>1. chain' = ChainAfter(chain.landed)'
    BY <1>2, <1>5, <1>7 DEF ChainAfter, TotalAfter, FoldAfter, CoinsAfter, Piece,
       Hidden, LeftAfter
  <2>2. Affordable(step)
    BY <1>3 DEF InFlight, Advances
  <2>. QED
    BY <1>2, <1>7, <2>1, <2>2 DEF Affordable
<1>9. wallet' \subseteq chain'.coins
  <2>1. wallet \cap tx.inputs = {}
    BY <1>3 DEF InFlight
  <2>2. chain'.coins = (chain.coins \ tx.inputs) \cup tx.outputs
    BY <1>1
  <2>. QED
    BY <1>2, <1>3, <2>1, <2>2
<1>10. phase # "submit" /\ (phase = "row" => step = 5)
  <2>1. chain.landed = step - 1
    BY <1>3 DEF InFlight
  <2>. QED
    BY <1>4, <2>1 DEF StageInv, PaceInv
<1>. QED
  BY <1>1, <1>2, <1>4, <1>7, <1>8, <1>9, <1>10
     DEF StageInv, Typed, WorldInv, PaceInv, WalletInv

\* Losing a transaction is a fault.
LEMMA LoseKeepsStage ==
  ASSUME StageInv, Lose PROVE Typed' /\ WorldInv' /\ PaceInv' /\ WalletInv'
<1>1. /\ inflight' = {} /\ fault' = TRUE
      /\ UNCHANGED <<amt, strict, step, phase, chain, indexed, wallet, picked>>
  BY DEF Lose, script
<1>2. WorldInv'
  BY <1>1, WorldStays DEF StageInv, WorldInv
<1>3. Typed'
  BY <1>1 DEF StageInv, Typed
<1>4. PaceInv'
  BY <1>1 DEF StageInv, PaceInv
<1>5. WalletInv'
  BY <1>1 DEF StageInv, WalletInv, LeftAfter
<1>. QED
  BY <1>2, <1>3, <1>4, <1>5

\* The wallet never lists more than is there and not booked; once a wait has
\* seen its coin nothing is in flight that could take it away.
LEMMA SyncKeepsStage ==
  ASSUME StageInv, Sync PROVE Typed' /\ WorldInv' /\ PaceInv' /\ WalletInv'
<1>1. /\ wallet' = chain.coins \ UNION {tx.inputs : tx \in inflight}
      /\ UNCHANGED <<amt, strict, step, phase, chain, indexed, inflight, picked, fault>>
  BY DEF Sync, script
<1>2. WorldInv'
  <2>1. wallet' \subseteq chain.coins
    BY <1>1
  <2>2. \A tx \in inflight' : wallet' \cap tx.inputs = {}
    BY <1>1
  <2>. QED
    BY <1>1, <2>1, <2>2, WorldStays DEF StageInv
<1>3. Typed'
  BY <1>1 DEF StageInv, Typed
<1>4. PaceInv'
  BY <1>1 DEF StageInv, PaceInv
<1>5. ASSUME inflight = {} PROVE WalletInv'
  <2>1. wallet' = chain.coins /\ wallet \subseteq wallet'
    BY <1>1, <1>5 DEF StageInv, WorldInv
  <2>. QED
    BY <1>1, <2>1 DEF StageInv, WalletInv, LeftAfter
<1>6. ASSUME phase = "submit" \/ (phase = "row" /\ step \in 2 .. 4) PROVE inflight = {}
  BY <1>6 DEF StageInv, PaceInv, WorldInv, InFlight
<1>7. WalletInv'
  <2>1. CASE phase = "submit" \/ (phase = "row" /\ step \in 2 .. 4)
    BY <1>5, <1>6, <2>1
  <2>2. CASE ~(phase = "submit" \/ (phase = "row" /\ step \in 2 .. 4))
    BY <1>1, <2>2 DEF WalletInv
  <2>. QED
    BY <2>1, <2>2
<1>. QED
  BY <1>2, <1>3, <1>4, <1>7

\* The indexer answers a counter the chain has had.
LEMMA IndexKeepsStage ==
  ASSUME StageInv, Index PROVE Typed' /\ WorldInv' /\ PaceInv' /\ WalletInv'
<1>1. /\ indexed' = chain.total
      /\ UNCHANGED <<amt, strict, step, phase, chain, wallet, inflight, picked, fault>>
  BY DEF Index, script
<1>2. WorldInv'
  BY <1>1, WorldStays DEF StageInv, WorldInv, InFlight
<1>3. chain.total \in Nat \cup {NoState}
  <2>1. /\ chain = ChainAfter(chain.landed)
        /\ Affordable(chain.landed)
        /\ chain.landed \in 0 .. 5
    BY DEF StageInv, WorldInv, AuditInv, ControlInv, Steps
  <2>2. chain.total = TotalAfter(chain.landed)
    BY <2>1 DEF ChainAfter
  <2>3. amt \in Scenarios
    BY DEF StageInv, Typed
  <2>. QED
    BY <2>1, <2>2, <2>3, CoinsTyped
<1>4. Typed'
  BY <1>1, <1>3 DEF StageInv, Typed
<1>5. PaceInv'
  BY <1>1 DEF StageInv, PaceInv
<1>6. WalletInv'
  BY <1>1 DEF StageInv, WalletInv, LeftAfter
<1>. QED
  BY <1>2, <1>4, <1>5, <1>6

\* A submission that is accepted puts a transaction in flight that advances the
\* chain, and books its inputs.
LEMMA AcceptedKeepsWorld ==
  ASSUME StageInv, phase = "submit", NEW tx \in Buildable, ~Dead(tx),
         Accepted(tx), UNCHANGED step
  PROVE  WorldInv' /\ inflight' # {} /\ chain.landed' = step - 1
<1>1. /\ inflight' = {tx}
      /\ wallet' = wallet \ tx.inputs
      /\ UNCHANGED <<amt, strict, chain, indexed, rows>>
  BY DEF Accepted
<1>2. Advances(tx) /\ chain.landed = step - 1
  BY BuildableAdvances DEF StageInv, PaceInv
<1>3. Advances(tx)'
  BY <1>1, <1>2 DEF Advances, Affordable, TotalAfter, FoldAfter, CoinsAfter, Piece,
     Hidden, LeftAfter
<1>4. InFlight(tx)'
  BY <1>1, <1>2, <1>3 DEF InFlight
<1>5. /\ chain' = ChainAfter(chain.landed)'
      /\ Affordable(chain.landed)'
      /\ wallet' \subseteq chain'.coins
  BY <1>1 DEF StageInv, WorldInv, ChainAfter, Affordable, TotalAfter, FoldAfter,
     CoinsAfter, Piece, Hidden, LeftAfter
<1>. QED
  BY <1>1, <1>2, <1>4, <1>5 DEF WorldInv

\* What the script picks is a coin the wallet has listed, dead or alive.
LEMMA PickedTyped ==
  ASSUME StageInv, NEW tx \in Buildable, step = 5
  PROVE  tx.inputs \in SUBSET Coins
<1>1. PICK c \in wallet : tx = Tx({c}, {}, c.value, 0)
  BY DEF Buildable, LargestCoins
<1>2. /\ wallet \subseteq chain.coins
      /\ chain = ChainAfter(chain.landed)
      /\ Affordable(chain.landed)
      /\ chain.landed \in 0 .. 5
      /\ amt \in Scenarios
  BY DEF StageInv, WorldInv, Typed, AuditInv, ControlInv, Steps
<1>3. wallet \subseteq Coins
  BY <1>2, CoinsTyped DEF ChainAfter
<1>. QED
  BY <1>1, <1>3 DEF Tx

\* No input of the first four steps is dead.
LEMMA CallsAreAlive ==
  ASSUME StageInv, phase = "submit", step \in 1 .. 4, NEW tx \in Buildable
  PROVE  ~Dead(tx)
<1>1. wallet \subseteq CoinsAfter(step - 1)
  BY DEF StageInv, WorldInv, PaceInv, ChainAfter
<1>2. Hidden(step - 1) = {}
  BY DEF Hidden
<1>3. \A c \in wallet : ~c.dead
  BY <1>1, <1>2, PieceIsOne DEF CoinsAfter
<1>4. CASE step \in {1, 2}
  <2>1. tx.inputs = {}
    <3>1. CASE step = 1
      BY <3>1 DEF Buildable, Tx
    <3>2. CASE step = 2
      BY <3>2 DEF Buildable, Tx
    <3>. QED
      BY <1>4, <3>1, <3>2
  <2>. QED
    BY <2>1 DEF Dead
<1>5. CASE step = 3
  BY <1>3, <1>5 DEF Buildable, Tx, Dead
<1>6. CASE step = 4
  <2>. DEFINE outputs(c) == Live(c.value - amt.H) \cup {Coin(amt.H, TRUE)}
  <2>0. Buildable = {Tx({c}, outputs(c), 0, 0) : c \in {w \in wallet : w.value >= amt.H}}
    BY <1>6 DEF Buildable
  <2>. HIDE DEF outputs
  <2>1. PICK c \in wallet : tx = Tx({c}, outputs(c), 0, 0)
    BY <2>0
  <2>. QED
    BY <1>3, <2>1 DEF Tx, Dead
<1>. QED
  BY <1>4, <1>5, <1>6

\* A step that submits, or fails to.
LEMMA SubmitKeepsStage ==
  ASSUME StageInv, SubmitCall \/ SubmitHiddenBurn \/ SubmitProtocolBurn
  PROVE  Typed' /\ WorldInv' /\ PaceInv' /\ WalletInv'
<1>0. /\ phase = "submit" /\ step' = step
      /\ UNCHANGED <<amt, strict, chain, indexed>>
  BY DEF SubmitCall, SubmitHiddenBurn, SubmitProtocolBurn, Accepted, NotAccepted, Fail
<1>1. /\ phase = "submit" /\ step' = step /\ step \in 1 .. 5
      /\ UNCHANGED <<amt, strict, chain, indexed>>
      /\ fault' \in BOOLEAN
  <2>1. step \in 1 .. 5 /\ fault \in BOOLEAN
    BY DEF StageInv, AuditInv, ControlInv, Steps, Typed
  <2>2. fault' \in BOOLEAN
    BY <2>1 DEF SubmitCall, SubmitHiddenBurn, SubmitProtocolBurn, Fail
  <2>. QED
    BY <1>0, <2>1, <2>2
<1>2. picked' \in SUBSET Coins
  BY PickedTyped DEF StageInv, Typed, SubmitCall, SubmitHiddenBurn, SubmitProtocolBurn
<1>3. Typed'
  BY <1>1, <1>2 DEF StageInv, Typed
<1>4. ASSUME NEW tx \in Buildable, ~Dead(tx), Accepted(tx),
             phase' = IF step = 4 THEN "sync" ELSE "confirm"
      PROVE  WorldInv' /\ PaceInv' /\ WalletInv'
  <2>1. WorldInv' /\ inflight' # {} /\ chain.landed' = step - 1
    BY <1>1, <1>4, AcceptedKeepsWorld
  <2>. QED
    BY <1>1, <1>4, <2>1 DEF PaceInv, WalletInv
<1>5. ASSUME UNCHANGED <<inflight, wallet>>,
             phase' = "finally" \/ (phase' = "row" /\ step = 5)
      PROVE  WorldInv' /\ PaceInv' /\ WalletInv'
  <2>1. WorldInv'
    BY <1>1, <1>5, WorldStays DEF StageInv, WorldInv, InFlight
  <2>. QED
    BY <1>1, <1>5, <2>1 DEF PaceInv, WalletInv
<1>6. \/ \E tx \in Buildable : /\ ~Dead(tx)
                               /\ Accepted(tx)
                               /\ phase' = IF step = 4 THEN "sync" ELSE "confirm"
      \/ /\ UNCHANGED <<inflight, wallet>>
         /\ phase' = "finally" \/ (phase' = "row" /\ step = 5)
  <2>1. CASE SubmitCall
    BY <1>1, <2>1, CallsAreAlive DEF SubmitCall, NotAccepted, Fail
  <2>2. CASE SubmitHiddenBurn
    BY <1>1, <2>2, CallsAreAlive DEF SubmitHiddenBurn, NotAccepted, Fail
  <2>3. CASE SubmitProtocolBurn
    BY <1>1, <2>3 DEF SubmitProtocolBurn, NotAccepted
  <2>. QED
    BY <2>1, <2>2, <2>3
<1>. QED
  BY <1>3, <1>4, <1>5, <1>6

\* A wait that ends well leaves the coin the next step spends: as no two coins
\* of the scenario have the same value while it matters, it is the right one.
LEMMA ReadyKeepsStage ==
  ASSUME StageInv, Ready PROVE Typed' /\ WorldInv' /\ PaceInv' /\ WalletInv'
<1>1. /\ phase = "sync" /\ phase' = "row" /\ CoinReady
      /\ UNCHANGED <<amt, strict, step, chain, indexed, wallet, inflight, picked, fault>>
  BY DEF Ready
<1>2. WorldInv'
  BY <1>1, WorldStays DEF StageInv, WorldInv, InFlight
<1>3. Typed'
  BY <1>1 DEF StageInv, Typed
<1>4. /\ amt.M \in Nat /\ amt.B \in Nat /\ amt.H \in Nat /\ amt.H > 0
      /\ step \in 2 .. 4
      /\ chain.landed \in {step - 1, step}
      /\ wallet \subseteq chain.coins
      /\ chain.coins = CoinsAfter(chain.landed)
      /\ chain.landed = step \/ step = 4
  BY <1>1, Amounts DEF StageInv, Typed, AuditInv, ControlInv, WorldInv, PaceInv,
     ChainAfter
<1>5. CASE step = 2
  <2>1. chain.coins = Piece(2, amt.M) /\ chain.landed = 2
    BY <1>4, <1>5 DEF CoinsAfter, Hidden, LeftAfter
  <2>2. ASSUME wallet = {} PROVE amt.M = 0
    <3>1. MapThenSumSet(LAMBDA c : c.value, wallet) >= amt.M
      BY <1>1, <1>5 DEF CoinReady
    <3>2. MapThenSumSet(LAMBDA c : c.value, {}) = 0
      BY SumOfNone
    <3>. QED
      BY <1>4, <2>2, <3>1, <3>2
  <2>3. wallet = chain.coins
    BY <1>4, <2>1, <2>2, PieceIsOne DEF Piece
  <2>. QED
    BY <1>1, <1>2, <1>3, <1>5, <2>1, <2>3 DEF PaceInv, WalletInv
<1>6. CASE step = 3
  <2>1. chain.coins = Piece(3, amt.M - amt.B) /\ chain.landed = 3
    BY <1>4, <1>6 DEF CoinsAfter, Hidden, LeftAfter
  <2>2. wallet # {}
    BY <1>1, <1>6 DEF CoinReady
  <2>3. wallet = chain.coins
    BY <1>4, <2>1, <2>2, PieceIsOne
  <2>. QED
    BY <1>1, <1>2, <1>3, <1>6, <2>1, <2>3 DEF PaceInv, WalletInv
<1>7. CASE step = 4
  <2>1. PICK c \in wallet : c.value = amt.M - amt.B - amt.H
    BY <1>1, <1>7 DEF CoinReady
  <2>2. ASSUME chain.landed = 3 PROVE FALSE
    <3>1. chain.coins = Piece(3, amt.M - amt.B)
      BY <1>4, <2>2 DEF CoinsAfter, Hidden, LeftAfter
    <3>2. c.value = amt.M - amt.B
      BY <1>4, <3>1, PieceIsOne
    <3>. QED
      BY <1>4, <2>1, <3>2
  <2>3. chain.landed = 4
    BY <1>4, <1>7, <2>2
  <2>4. c.value = LeftAfter(4)
    BY <2>1 DEF LeftAfter
  <2>5. c \in wallet' /\ c.value = LeftAfter(4)'
    BY <1>1, <2>4 DEF LeftAfter
  <2>. QED
    BY <1>1, <1>2, <1>3, <1>7, <2>3, <2>5 DEF PaceInv, WalletInv
<1>. QED
  BY <1>4, <1>5, <1>6, <1>7

\* A row is measured when its transaction has landed, so the next step starts
\* from there.
LEMMA CheckpointKeepsStage ==
  ASSUME StageInv, Checkpoint PROVE Typed' /\ WorldInv' /\ PaceInv' /\ WalletInv'
<1>1. /\ phase = "row"
      /\ UNCHANGED <<amt, strict, chain, indexed, wallet, inflight, picked>>
      /\ \/ step = 5 /\ phase' = "finally" /\ step' = 5
         \/ step # 5 /\ phase' = "submit" /\ step' = step + 1
  BY DEF Checkpoint
<1>2. fault' \in BOOLEAN
  BY DEF Checkpoint
<1>3. Typed'
  BY <1>1, <1>2 DEF StageInv, Typed
<1>4. CASE step = 5
  <2>1. UNCHANGED step
    BY <1>1, <1>4
  <2>2. WorldInv'
    BY <1>1, <2>1, WorldStays DEF StageInv, WorldInv, InFlight
  <2>. QED
    BY <1>1, <1>3, <1>4, <2>2 DEF PaceInv, WalletInv
<1>5. CASE step # 5
  <2>1. step \in 1 .. 4 /\ step' = step + 1 /\ phase' = "submit"
    BY <1>1, <1>5 DEF StageInv, AuditInv, ControlInv, Steps
  <2>2. chain.landed = step
    BY <1>1, <2>1 DEF StageInv, PaceInv
  <2>3. inflight = {}
    BY <2>1, <2>2 DEF StageInv, WorldInv, InFlight
  <2>4. chain' = ChainAfter(chain.landed)' /\ Affordable(chain.landed)'
        /\ wallet' \subseteq chain'.coins
    BY <1>1 DEF StageInv, WorldInv, ChainAfter, Affordable, TotalAfter, FoldAfter,
       CoinsAfter, Piece, Hidden, LeftAfter
  <2>5. WorldInv'
    BY <1>1, <2>1, <2>2, <2>3, <2>4 DEF WorldInv
  <2>6. PaceInv'
    BY <1>1, <2>1, <2>2, <2>3 DEF PaceInv
  <2>7. WalletInv'
    BY <1>1, <2>1 DEF StageInv, WalletInv, LeftAfter
  <2>. QED
    BY <1>3, <2>5, <2>6, <2>7
<1>. QED
  BY <1>4, <1>5

\* The other steps of the script wait, give up or end.
LEMMA RestKeepsStage ==
  ASSUME StageInv,
         \/ InsufficientFunds
         \/ Confirm
         \/ ConfirmFails
         \/ Timeout
         \/ Finally
         \/ Exited
         \/ UNCHANGED vars
  PROVE  Typed' /\ WorldInv' /\ PaceInv' /\ WalletInv'
<1>1. /\ UNCHANGED <<amt, strict, step, chain, indexed, wallet, inflight, picked>>
      /\ fault' \in BOOLEAN
  BY DEF StageInv, Typed, InsufficientFunds, Confirm, ConfirmFails, Timeout, Finally,
     Exited, NotAccepted, Fail, vars, script
<1>2. WorldInv'
  BY <1>1, WorldStays DEF StageInv, WorldInv, InFlight
<1>3. Typed'
  BY <1>1 DEF StageInv, Typed
<1>4. \/ phase' \in {"finally", "exited"}
      \/ phase = "confirm" /\ chain.landed = step /\ phase' = "sync"
      \/ phase = "confirm" /\ chain.landed = step /\ phase' = "row" /\ step \in {1, 5}
      \/ phase' = "row" /\ step = 5
      \/ phase' = phase /\ fault' = fault
  BY DEF InsufficientFunds, Confirm, ConfirmFails, Timeout, Finally, Exited, Fail,
     vars, script
<1>5. PaceInv'
  BY <1>1, <1>4 DEF StageInv, PaceInv
<1>6. WalletInv'
  BY <1>1, <1>4 DEF StageInv, WalletInv, LeftAfter
<1>. QED
  BY <1>2, <1>3, <1>5, <1>6

\* Every step preserves the invariant.
LEMMA StageNextSound == StageInv /\ [Next]_vars => StageInv'
<1>. SUFFICES ASSUME StageInv, [Next]_vars PROVE StageInv'
  OBVIOUS
<1>1. AuditInv'
  BY AuditNextSound DEF StageInv
<1>2. Typed' /\ WorldInv' /\ PaceInv' /\ WalletInv'
  BY SubmitKeepsStage, ReadyKeepsStage, CheckpointKeepsStage, RestKeepsStage,
     LandKeepsStage, LoseKeepsStage, SyncKeepsStage, IndexKeepsStage DEF Next, Script
<1>. QED
  BY <1>1, <1>2 DEF StageInv

\* The invariant holds throughout.
THEOREM StageInvariance == Spec => []StageInv
  BY StageInit, StageNextSound, PTL DEF Spec

\* The sum over what is left.
LEMMA SumOfPiece ==
  ASSUME NEW n, NEW value \in Int
  PROVE  MapThenSumSet(LAMBDA c : c.value, Piece(n, value)) = value
<1>1. CASE value = 0
  BY <1>1, SumOfNone DEF Piece
<1>2. CASE value # 0
  <2>. DEFINE coin == [born |-> n, value |-> value, dead |-> FALSE]
              v == [c \in {coin} |-> c.value]
  <2>1. Piece(n, value) = {coin}
    BY <1>2 DEF Piece
  <2>2. coin.value = value
    OBVIOUS
  <2>3. v[coin] = value /\ (\A c \in {coin} : v[c] = c.value)
    BY <2>2
  <2>4. IsFiniteSet({coin})
    BY FS_Singleton
  <2>. HIDE DEF v, coin
  <2>5. MapThenSumSet(LAMBDA c : c.value, {coin}) = Total({coin}, v)
    BY <2>3, <2>4, SumOfValues
  <2>6. Total({coin}, v) = value
    BY <2>3, TotalOne
  <2>. QED
    BY <2>1, <2>5, <2>6
<1>. QED
  BY <1>1, <1>2

\* What circulates after n transactions is what is left.
LEMMA CirculatingAfter ==
  ASSUME amt \in Scenarios, NEW n \in 0 .. 5
  PROVE  Circulating(CoinsAfter(n)) = LeftAfter(n)
<1>1. LeftAfter(n) \in Int
  BY Amounts DEF LeftAfter
<1>2. \A c \in Piece(n, LeftAfter(n)) : ~c.dead
  BY PieceIsOne
<1>3. \A c \in Hidden(n) : c.dead
  BY DEF Hidden
<1>4. {c \in CoinsAfter(n) : ~c.dead} = Piece(n, LeftAfter(n))
  BY <1>2, <1>3 DEF CoinsAfter
<1>. QED
  BY <1>1, <1>4, SumOfPiece DEF Circulating

-----------------------------------------------------------------------------
(* The truth of the rows.  A row compares what was captured and read with   *)
(* what is expected, and never looks at the chain: that a match is the      *)
(* truth follows from what must have landed before a row is measured.       *)

RowsTrue == PassingRowsAreTrue /\ CirculationIsAsStated

TruthInv == StageInv /\ RowsTrue

\* A row of the first four steps expects what the landed transactions have made.
LEMMA RowIsTrue ==
  ASSUME StageInv, phase = "row", step < 5
  PROVE  /\ Expected.fold = chain.fold
         /\ Expected.total = chain.total
         /\ Expected.circ = Circulating(chain.coins)
<1>1. /\ step \in 1 .. 4
      /\ amt \in Scenarios /\ amt.M \in Nat /\ amt.B \in Nat /\ amt.H \in Nat
  BY Amounts DEF StageInv, Typed, AuditInv, ControlInv, Steps
<1>2. chain = ChainAfter(step)
  BY DEF StageInv, WorldInv, PaceInv
<1>3. /\ chain.total = TotalAfter(step)
      /\ chain.fold = FoldAfter(step)
      /\ chain.coins = CoinsAfter(step)
  BY <1>2 DEF ChainAfter
<1>4. Expected.fold = IF step >= 2 THEN amt.M ELSE 0
  BY <1>1 DEF Expected
<1>5. Expected.total = (IF step >= 2 THEN amt.M ELSE 0) - (IF step >= 3 THEN amt.B ELSE 0)
  BY <1>1 DEF Expected
<1>6. Expected.circ = (IF step >= 2 THEN amt.M ELSE 0) - (IF step >= 3 THEN amt.B ELSE 0)
                        - (IF step >= 4 THEN amt.H ELSE 0)
  BY <1>1 DEF Expected
<1>7. Circulating(chain.coins) = LeftAfter(step)
  BY <1>1, <1>3, CirculatingAfter
<1>. QED
  BY <1>1, <1>3, <1>4, <1>5, <1>6, <1>7 DEF TotalAfter, FoldAfter, LeftAfter

\* A checkpoint leaves the earlier rows as they are.
LEMMA NewRow ==
  ASSUME AuditInv, Checkpoint
  PROVE  /\ Len(rows) = step - 1
         /\ DOMAIN rows = 1 .. step - 1
         /\ DOMAIN rows' = 1 .. step
         /\ \A i \in DOMAIN rows : rows'[i] = rows[i]
         /\ \E reading \in Readings :
              /\ rows'[step] =
                   [ step     |-> step,
                     delta    |-> MeasuredDelta,
                     fold     |-> MeasuredFold,
                     total    |-> reading.total,
                     read     |-> reading.read,
                     expected |-> Expected,
                     truth    |-> [ fold  |-> chain.fold,
                                    total |-> chain.total,
                                    circ  |-> Circulating(chain.coins) ] ]
              /\ fault' = (fault \/ ~reading.read \/ reading.total # chain.total)
<1>1. PICK reading \in Readings :
        /\ rows' = Append(rows,
             [ step     |-> step,
               delta    |-> MeasuredDelta,
               fold     |-> MeasuredFold,
               total    |-> reading.total,
               read     |-> reading.read,
               expected |-> Expected,
               truth    |-> [ fold  |-> chain.fold,
                              total |-> chain.total,
                              circ  |-> Circulating(chain.coins) ] ])
        /\ fault' = (fault \/ ~reading.read \/ reading.total # chain.total)
  BY DEF Checkpoint
<1>2. Len(rows) = step - 1 /\ step \in 1 .. 5
  BY DEF Checkpoint, AuditInv, RowsInv, ControlInv, Running, Steps
<1>3. \E S : rows \in Seq(S)
  BY DEF AuditInv, RowsInv
<1>4. /\ DOMAIN rows = 1 .. Len(rows)
      /\ DOMAIN rows' = 1 .. Len(rows) + 1
      /\ \A i \in DOMAIN rows : rows'[i] = rows[i]
      /\ rows'[Len(rows) + 1] =
             [ step     |-> step,
               delta    |-> MeasuredDelta,
               fold     |-> MeasuredFold,
               total    |-> reading.total,
               read     |-> reading.read,
               expected |-> Expected,
               truth    |-> [ fold  |-> chain.fold,
                              total |-> chain.total,
                              circ  |-> Circulating(chain.coins) ] ]
  BY <1>1, <1>3, AppendRow
<1>5. Len(rows) + 1 = step
  BY <1>2
<1>. QED
  BY <1>1, <1>2, <1>4, <1>5

\* A new row is true, and no row changes.
LEMMA CheckpointKeepsTruth ==
  ASSUME TruthInv, Checkpoint PROVE RowsTrue'
<1>1. /\ DOMAIN rows = 1 .. step - 1
      /\ DOMAIN rows' = 1 .. step
      /\ \A i \in DOMAIN rows : rows'[i] = rows[i]
  BY NewRow DEF TruthInv, StageInv
<1>2. /\ rows'[step].expected = Expected
      /\ rows'[step].truth.fold = chain.fold
      /\ rows'[step].truth.total = chain.total
      /\ rows'[step].truth.circ = Circulating(chain.coins)
      /\ rows'[step].step = step
  <2>1. PICK reading \in Readings :
          rows'[step] =
            [ step     |-> step,
              delta    |-> MeasuredDelta,
              fold     |-> MeasuredFold,
              total    |-> reading.total,
              read     |-> reading.read,
              expected |-> Expected,
              truth    |-> [ fold  |-> chain.fold,
                             total |-> chain.total,
                             circ  |-> Circulating(chain.coins) ] ]
    BY NewRow DEF TruthInv, StageInv
  <2>. QED
    BY <2>1
<1>3. phase = "row" /\ step \in 1 .. 5
  BY DEF Checkpoint, TruthInv, StageInv, AuditInv, ControlInv, Steps
<1>4. SUFFICES ASSUME NEW i \in DOMAIN rows', rows'[i].step < 5
               PROVE  /\ rows'[i].expected.circ = rows'[i].truth.circ
                      /\ RowPass(rows'[i]) => /\ rows'[i].fold = rows'[i].truth.fold
                                              /\ rows'[i].total = rows'[i].truth.total
  BY DEF RowsTrue, PassingRowsAreTrue, CirculationIsAsStated, Measured, RowPass
<1>5. CASE i \in DOMAIN rows
  BY <1>1, <1>4, <1>5
     DEF TruthInv, RowsTrue, PassingRowsAreTrue, CirculationIsAsStated, Measured
<1>6. CASE i = step
  <2>1. /\ Expected.fold = chain.fold
        /\ Expected.total = chain.total
        /\ Expected.circ = Circulating(chain.coins)
    BY <1>2, <1>3, <1>4, <1>6, RowIsTrue DEF TruthInv
  <2>. QED
    BY <1>2, <1>6, <2>1 DEF RowPass
<1>. QED
  BY <1>1, <1>3, <1>5, <1>6

\* Only a checkpoint writes a row.
LEMMA RowsStay ==
  ASSUME [Next]_vars, ~Checkpoint
  PROVE  UNCHANGED rows
BY DEF Next, Script, SubmitCall, SubmitHiddenBurn, InsufficientFunds,
   SubmitProtocolBurn, Confirm, Ready, Timeout, ConfirmFails, Finally, Land,
   Lose, Sync, Index, Exited, Accepted, NotAccepted, vars, script

\* Every step preserves the truth.
LEMMA TruthNextSound == TruthInv /\ [Next]_vars => TruthInv'
<1>. SUFFICES ASSUME TruthInv, [Next]_vars PROVE TruthInv'
  OBVIOUS
<1>1. StageInv'
  BY StageNextSound DEF TruthInv
<1>2. CASE Checkpoint
  BY <1>1, <1>2, CheckpointKeepsTruth DEF TruthInv
<1>3. CASE ~Checkpoint
  <2>1. UNCHANGED rows
    BY <1>3, RowsStay
  <2>. QED
    BY <1>1, <2>1
       DEF TruthInv, RowsTrue, PassingRowsAreTrue, CirculationIsAsStated, Measured, RowPass
<1>. QED
  BY <1>2, <1>3

\* The deployment starts without rows.
LEMMA TruthInit == Init => TruthInv
<1>. SUFFICES ASSUME Init PROVE TruthInv
  OBVIOUS
<1>1. Measured = {}
  BY DEF Init, Measured
<1>. QED
  BY <1>1, StageInit DEF TruthInv, RowsTrue, PassingRowsAreTrue, CirculationIsAsStated

\* A measured row that passes shows the counter and the fold the chain really has,
\* whatever was captured, lost, late or unreadable.
THEOREM PassIsTruth == Spec => []PassingRowsAreTrue
<1>1. TruthInv => PassingRowsAreTrue
  BY DEF TruthInv, RowsTrue
<1>. QED
  BY <1>1, TruthInit, TruthNextSound, PTL DEF Spec

\* The circulation the audit prints next to its rows is the circulation there is,
\* although no row is measured from the chain: no step before the protocol burn is
\* left until its coins are as stated.
THEOREM CirculationIsTrue == Spec => []CirculationIsAsStated
<1>1. TruthInv => CirculationIsAsStated
  BY DEF TruthInv, RowsTrue
<1>. QED
  BY <1>1, TruthInit, TruthNextSound, PTL DEF Spec

-----------------------------------------------------------------------------
(* What has been captured.  As long as no fault has occurred, one           *)
(* transaction has been captured for each step so far, and the sum of their *)
(* deltas is minus the fold of the chain.                                   *)

\* The number of steps whose transaction has been built.
Taken == IF phase = "submit" THEN step - 1 ELSE step

\* The first n transactions have been captured; no label but the last can be
\* that of the protocol burn.
Complete(n) ==
  /\ Len(captured) = n
  /\ \A i \in 1 .. n :
       /\ captured[i].delta = FoldAfter(i - 1) - FoldAfter(i)
       /\ i < 5 => captured[i].kind # "protocol-burn"

CaptureInv ==
  /\ \E S : captured \in Seq(S)
  /\ Len(captured) <= 5
  /\ phase \in Running => Len(captured) <= Taken
  /\ ~fault /\ phase \in Running /\ Taken < 5 => Complete(Taken)

\* Relabelling changes the label of the last entry and nothing else.
LEMMA RelabelledOnlyLabels ==
  ASSUME NEW log, \E S : log \in Seq(S), NEW kind
  PROVE  /\ \E S : Relabelled(log, kind) \in Seq(S)
         /\ Len(Relabelled(log, kind)) = Len(log)
         /\ \A i \in 1 .. Len(log) :
              i # Len(log) => Relabelled(log, kind)[i] = log[i]
<1>1. PICK S : log \in Seq(S)
  OBVIOUS
<1>2. CASE log = <<>>
  BY <1>1, <1>2 DEF Relabelled
<1>3. CASE log # <<>>
  <2>. DEFINE last == [log[Len(log)] EXCEPT !.kind = kind]
  <2>1. Relabelled(log, kind) = [log EXCEPT ![Len(log)] = last]
    BY <1>3 DEF Relabelled
  <2>. HIDE DEF last
  <2>2. Len(log) \in Nat \ {0} /\ DOMAIN log = 1 .. Len(log)
    BY <1>1, <1>3
  <2>3. Relabelled(log, kind) \in Seq(S \cup {last})
    BY <1>1, <2>1, <2>2
  <2>4. DOMAIN Relabelled(log, kind) = 1 .. Len(log)
    BY <2>1, <2>2
  <2>5. Len(Relabelled(log, kind)) = Len(log)
    BY <2>2, <2>3, <2>4
  <2>6. \A i \in 1 .. Len(log) : i # Len(log) => Relabelled(log, kind)[i] = log[i]
    BY <2>1, <2>2
  <2>. QED
    BY <2>3, <2>5, <2>6
<1>. QED
  BY <1>2, <1>3

\* A transaction that has been captured, and then relabelled.
LEMMA RelabelledRecord ==
  ASSUME NEW log, \E S : log \in Seq(S), NEW tx, NEW kind
  PROVE  /\ Relabelled(Append(log, Record(tx)), kind)[Len(log) + 1].delta = tx.delta
         /\ Relabelled(Append(log, Record(tx)), kind)[Len(log) + 1].kind = kind
<1>. DEFINE longer == Append(log, Record(tx))
<1>1. PICK S : log \in Seq(S)
  OBVIOUS
<1>2. /\ Len(longer) = Len(log) + 1
      /\ Len(log) \in Nat
      /\ longer[Len(log) + 1] = Record(tx)
      /\ DOMAIN longer = 1 .. Len(log) + 1
  BY <1>1, AppendRow
<1>3. longer # <<>>
  BY <1>2
<1>. HIDE DEF longer
<1>4. Relabelled(longer, kind)[Len(log) + 1] = [longer[Len(log) + 1] EXCEPT !.kind = kind]
  BY <1>2, <1>3 DEF Relabelled
<1>5. Record(tx).delta = tx.delta
  BY DEF Record
<1>6. [Record(tx) EXCEPT !.kind = kind].delta = tx.delta
  BY DEF Record
<1>7. [Record(tx) EXCEPT !.kind = kind].kind = kind
  BY DEF Record
<1>. QED
  BY <1>2, <1>4, <1>6, <1>7 DEF longer

\* What a submission can leave in the log.
LEMMA LogGrows ==
  ASSUME StageInv, CaptureInv,
         SubmitCall \/ SubmitHiddenBurn \/ SubmitProtocolBurn
  PROVE  /\ \E S : captured' \in Seq(S)
         /\ Len(captured') <= step
         /\ Len(captured) <= step - 1
         /\ step' = step
<1>1. /\ \E S : captured \in Seq(S)
      /\ Len(captured) <= step - 1
      /\ step' = step /\ step \in 1 .. 5
  BY DEF CaptureInv, Taken, Running, SubmitCall, SubmitHiddenBurn, SubmitProtocolBurn,
     Fail, StageInv, AuditInv, ControlInv, Steps
<1>2. ASSUME NEW row
      PROVE  /\ \E S : Append(captured, row) \in Seq(S)
             /\ Len(Append(captured, row)) <= step
  <2>1. /\ \E S : Append(captured, row) \in Seq(S)
        /\ Len(Append(captured, row)) = Len(captured) + 1
        /\ Len(captured) \in Nat
    BY <1>1, AppendRow
  <2>. QED
    BY <1>1, <2>1
<1>3. ASSUME NEW log, \E S : log \in Seq(S), Len(log) <= step, NEW kind
      PROVE  /\ \E S : Relabelled(log, kind) \in Seq(S)
             /\ Len(Relabelled(log, kind)) <= step
  BY <1>3, RelabelledOnlyLabels
<1>4. Len(captured) <= step
  <2>1. Len(captured) \in Nat
    BY <1>1
  <2>. QED
    BY <1>1, <2>1
<1>5. captured' = captured \/ \E tx \in Buildable, recorded \in BOOLEAN :
        \/ Capture(tx, recorded)
        \/ CaptureAs("hidden-burn", tx, recorded)
        \/ CaptureAs("protocol-burn", tx, recorded)
  <2>1. CASE SubmitCall
    BY <2>1, Zenon DEF SubmitCall
  <2>2. CASE SubmitHiddenBurn
    BY <2>2, Zenon DEF SubmitHiddenBurn
  <2>3. CASE SubmitProtocolBurn
    BY <2>3, Zenon DEF SubmitProtocolBurn
  <2>. QED
    BY <2>1, <2>2, <2>3
<1>6. CASE captured' = captured
  BY <1>1, <1>4, <1>6
<1>7. ASSUME NEW tx, NEW recorded, Capture(tx, recorded)
      PROVE  (\E S : captured' \in Seq(S)) /\ Len(captured') <= step
  BY <1>1, <1>2, <1>4, <1>7 DEF Capture
<1>8. ASSUME NEW tx, NEW recorded, NEW kind, CaptureAs(kind, tx, recorded)
      PROVE  (\E S : captured' \in Seq(S)) /\ Len(captured') <= step
  <2>1. PICK log : /\ log = captured \/ log = Append(captured, Record(tx))
                   /\ captured' = Relabelled(log, kind)
    BY <1>8 DEF CaptureAs
  <2>2. (\E S : log \in Seq(S)) /\ Len(log) <= step
    BY <1>1, <1>2, <1>4, <2>1
  <2>. QED
    BY <1>3, <2>1, <2>2
<1>. QED
  BY <1>1, <1>5, <1>6, <1>7, <1>8

\* Without a fault a submission has been accepted and captured, or the coin of
\* the protocol burn is dead.
LEMMA FaultlessSubmit ==
  ASSUME StageInv, SubmitCall \/ SubmitHiddenBurn \/ SubmitProtocolBurn, ~fault'
  PROVE  /\ ~fault
         /\ \E tx \in Buildable :
              \/ /\ Accepted(tx)
                 /\ ~Dead(tx)
                 /\ \/ step < 4 /\ captured' = Append(captured, Record(tx))
                    \/ /\ step = 4
                       /\ captured' =
                            Relabelled(Append(captured, Record(tx)), "hidden-burn")
                    \/ /\ step = 5
                       /\ phase' = "confirm"
                       /\ picked' = tx.inputs
                       /\ captured' =
                            Relabelled(Append(captured, Record(tx)), "protocol-burn")
              \/ step = 5 /\ Dead(tx)
<1>1. CASE SubmitCall
  <2>1. PICK tx \in Buildable, recorded \in BOOLEAN :
          /\ Capture(tx, recorded)
          /\ \/ Accepted(tx) /\ fault' = (fault \/ ~recorded)
             \/ fault' = TRUE
    BY <1>1, Zenon DEF SubmitCall
  <2>2. phase = "submit" /\ step \in 1 .. 3
    BY <1>1 DEF SubmitCall
  <2>3. Accepted(tx) /\ recorded = TRUE /\ ~fault
    BY <2>1
  <2>4. captured' = Append(captured, Record(tx))
    BY <2>1, <2>3 DEF Capture
  <2>5. ~Dead(tx) /\ step < 4
    BY <2>2, CallsAreAlive
  <2>. QED
    BY <2>3, <2>4, <2>5
<1>2. CASE SubmitHiddenBurn
  <2>1. PICK tx \in Buildable, recorded \in BOOLEAN :
          \/ /\ Accepted(tx)
             /\ CaptureAs("hidden-burn", tx, recorded)
             /\ fault' = (fault \/ ~recorded)
          \/ fault' = TRUE
    BY <1>2, Zenon DEF SubmitHiddenBurn
  <2>2. phase = "submit" /\ step = 4
    BY <1>2 DEF SubmitHiddenBurn
  <2>3. Accepted(tx) /\ CaptureAs("hidden-burn", tx, recorded) /\ recorded = TRUE /\ ~fault
    BY <2>1
  <2>4. captured' = Relabelled(Append(captured, Record(tx)), "hidden-burn")
    BY <2>3 DEF CaptureAs
  <2>5. ~Dead(tx)
    BY <2>2, CallsAreAlive
  <2>. QED
    BY <2>2, <2>3, <2>4, <2>5
<1>3. CASE SubmitProtocolBurn
  <2>1. PICK tx \in Buildable, recorded \in BOOLEAN :
          /\ picked' = tx.inputs
          /\ \/ /\ ~Dead(tx)
                /\ Accepted(tx)
                /\ CaptureAs("protocol-burn", tx, recorded)
                /\ phase' = "confirm"
                /\ fault' = (fault \/ ~recorded)
             \/ fault' = (fault \/ ~Dead(tx))
    BY <1>3, Zenon DEF SubmitProtocolBurn
  <2>2. step = 5
    BY <1>3 DEF SubmitProtocolBurn
  <2>3. CASE fault' = (fault \/ ~Dead(tx))
    BY <2>2, <2>3
  <2>4. CASE /\ ~Dead(tx)
             /\ Accepted(tx)
             /\ CaptureAs("protocol-burn", tx, recorded)
             /\ phase' = "confirm"
             /\ fault' = (fault \/ ~recorded)
    <3>1. recorded = TRUE /\ ~fault
      BY <2>4
    <3>2. captured' = Relabelled(Append(captured, Record(tx)), "protocol-burn")
      BY <2>4, <3>1 DEF CaptureAs
    <3>. QED
      BY <2>1, <2>2, <2>4, <3>1, <3>2
  <2>. QED
    BY <2>1, <2>3, <2>4
<1>. QED
  BY <1>1, <1>2, <1>3

\* The log is complete up to the transaction just accepted.
LEMMA LogCompletes ==
  ASSUME StageInv, phase = "submit", NEW tx \in Buildable, ~Dead(tx),
         Complete(step - 1), \E S : captured \in Seq(S), UNCHANGED <<amt, step>>,
         \/ step < 4 /\ captured' = Append(captured, Record(tx))
         \/ /\ step \in {4, 5}
            /\ \E kind \in {"hidden-burn", "protocol-burn"} :
                 /\ captured' = Relabelled(Append(captured, Record(tx)), kind)
                 /\ step = 4 => kind = "hidden-burn"
  PROVE  Complete(step)'
<1>1. /\ Len(captured) = step - 1 /\ step \in 1 .. 5
      /\ tx.delta = FoldAfter(step - 1) - FoldAfter(step)
  BY BuildableAdvances
     DEF Advances, Complete, StageInv, AuditInv, ControlInv, Steps
<1>2. /\ Len(captured') = step
      /\ \A i \in 1 .. step - 1 : captured'[i] = captured[i]
      /\ captured'[step].delta = tx.delta
      /\ step < 5 => captured'[step].kind # "protocol-burn"
  <2>. DEFINE longer == Append(captured, Record(tx))
  <2>1. /\ \E S : longer \in Seq(S)
        /\ Len(longer) = step
        /\ \A i \in 1 .. step - 1 : longer[i] = captured[i]
        /\ longer[step] = Record(tx)
    <3>1. Len(captured) + 1 = step /\ 1 .. Len(captured) = 1 .. step - 1
      BY <1>1
    <3>2. PICK row : row = Record(tx)
      OBVIOUS
    <3>3. longer = Append(captured, row)
      BY <3>2
    <3>. HIDE DEF longer
    <3>4. /\ \E S : Append(captured, row) \in Seq(S)
          /\ Len(Append(captured, row)) = Len(captured) + 1
          /\ \A i \in DOMAIN captured : Append(captured, row)[i] = captured[i]
          /\ DOMAIN captured = 1 .. Len(captured)
          /\ Append(captured, row)[Len(captured) + 1] = row
      <4>1. \E S : captured \in Seq(S)
        OBVIOUS
      <4>. QED
        BY <4>1, AppendRow
    <3>. QED
      BY <3>1, <3>2, <3>3, <3>4
  <2>. HIDE DEF longer
  <2>2. CASE step < 4
    <3>1. captured' = longer
      BY <2>2 DEF longer
    <3>2. Record(tx).delta = tx.delta /\ Record(tx).kind # "protocol-burn"
      BY <1>1, <2>2 DEF Record, Kind
    <3>. QED
      BY <2>1, <3>1, <3>2
  <2>3. CASE step \in {4, 5}
    <3>1. PICK kind \in {"hidden-burn", "protocol-burn"} :
            captured' = Relabelled(longer, kind) /\ (step = 4 => kind = "hidden-burn")
      BY <2>3 DEF longer
    <3>2. /\ Len(captured') = step
          /\ \A i \in 1 .. step : i # step => captured'[i] = longer[i]
      BY <2>1, <3>1, RelabelledOnlyLabels
    <3>3. captured'[step].delta = tx.delta /\ captured'[step].kind = kind
      <4>1. Len(captured) + 1 = step
        BY <1>1
      <4>. QED
        BY <3>1, <4>1, RelabelledRecord DEF longer
    <3>4. \A i \in 1 .. step - 1 : captured'[i] = captured[i]
      BY <1>1, <2>1, <3>2
    <3>. QED
      BY <2>3, <3>1, <3>2, <3>3, <3>4
  <2>. QED
    BY <1>1, <2>2, <2>3
<1>3. ASSUME NEW i \in 1 .. step
      PROVE  /\ captured'[i].delta = FoldAfter(i - 1)' - FoldAfter(i)'
             /\ i < 5 => captured'[i].kind # "protocol-burn"
  <2>1. /\ captured'[i].delta = FoldAfter(i - 1) - FoldAfter(i)
        /\ i < 5 => captured'[i].kind # "protocol-burn"
    <3>1. CASE i = step
      BY <1>1, <1>2, <3>1
    <3>2. CASE i # step
      <4>1. i \in 1 .. step - 1
        BY <1>1, <3>2
      <4>. QED
        BY <1>2, <4>1 DEF Complete
    <3>. QED
      BY <3>1, <3>2
  <2>2. FoldAfter(i - 1)' = FoldAfter(i - 1) /\ FoldAfter(i)' = FoldAfter(i)
    BY DEF FoldAfter
  <2>. QED
    BY <2>1, <2>2
<1>. QED
  BY <1>2, <1>3 DEF Complete

\* Steps that capture nothing.
LEMMA CaptureStays ==
  ASSUME CaptureInv, UNCHANGED <<amt, captured>>, fault => fault',
         phase' \in Running => phase \in Running /\ Taken' = Taken
  PROVE  CaptureInv'
<1>1. ASSUME NEW n, Complete(n) PROVE Complete(n)'
  BY <1>1 DEF Complete, FoldAfter
<1>2. ASSUME ~fault', phase' \in Running, Taken' < 5 PROVE Complete(Taken)'
  <2>1. Complete(Taken) /\ Taken' = Taken
    BY <1>2 DEF CaptureInv
  <2>2. PICK n : n = Taken
    OBVIOUS
  <2>3. Complete(n)'
    BY <1>1, <2>1, <2>2
  <2>. QED
    BY <2>1, <2>2, <2>3 DEF Complete
<1>. QED
  BY <1>2 DEF CaptureInv

\* Every step keeps the log.
LEMMA CaptureNextSound ==
  ASSUME StageInv, CaptureInv, [Next]_vars PROVE CaptureInv'
<1>1. UNCHANGED amt
  BY DEF Next, Script, SubmitCall, SubmitHiddenBurn, InsufficientFunds,
     SubmitProtocolBurn, Confirm, Ready, Timeout, ConfirmFails, Checkpoint,
     Finally, Land, Lose, Sync, Index, Exited, Accepted, NotAccepted, vars
<1>2. CASE SubmitCall \/ SubmitHiddenBurn \/ SubmitProtocolBurn
  <2>1. /\ phase = "submit" /\ step' = step /\ step \in 1 .. 5
        /\ phase' # "submit"
    BY <1>2 DEF SubmitCall, SubmitHiddenBurn, SubmitProtocolBurn, Fail, StageInv,
       AuditInv, ControlInv, Steps
  <2>2. /\ \E S : captured' \in Seq(S)
        /\ Len(captured') <= step
    BY <1>2, LogGrows
  <2>3. Len(captured') \in Nat /\ Taken = step - 1 /\ Taken' = step
    BY <2>1, <2>2 DEF Taken
  <2>4. ASSUME ~fault', step < 5 PROVE Complete(step)'
    <3>1. ~fault /\ Complete(step - 1)
      BY <1>2, <2>1, <2>3, <2>4, FaultlessSubmit DEF CaptureInv, Running
    <3>2. PICK tx \in Buildable :
            /\ ~Dead(tx)
            /\ \/ step < 4 /\ captured' = Append(captured, Record(tx))
               \/ /\ step = 4
                  /\ captured' = Relabelled(Append(captured, Record(tx)), "hidden-burn")
      BY <1>2, <2>4, FaultlessSubmit
    <3>. QED
      BY <1>1, <2>1, <3>1, <3>2, LogCompletes DEF CaptureInv
  <2>5. ASSUME ~fault', Taken' < 5 PROVE Complete(Taken)'
    BY <2>1, <2>3, <2>4, <2>5 DEF Complete
  <2>. QED
    BY <2>1, <2>2, <2>3, <2>5 DEF CaptureInv
<1>3. CASE Checkpoint
  <2>1. UNCHANGED captured /\ phase = "row"
    BY <1>3 DEF Checkpoint
  <2>2. fault => fault'
    BY <1>3 DEF Checkpoint
  <2>3. \/ phase' = "finally"
        \/ phase' = "submit" /\ step' = step + 1
    BY <1>3 DEF Checkpoint
  <2>4. phase' \in Running => Taken' = Taken
    BY <2>1, <2>3 DEF Running, Taken, StageInv, AuditInv, ControlInv, Steps
  <2>. QED
    BY <1>1, <2>1, <2>2, <2>4, CaptureStays DEF Running
<1>4. CASE ~(SubmitCall \/ SubmitHiddenBurn \/ SubmitProtocolBurn \/ Checkpoint)
  <2>0. UNCHANGED captured
    BY <1>4 DEF Next, Script, InsufficientFunds, Confirm, Ready, Timeout, ConfirmFails,
       Finally, Land, Lose, Sync, Index, Exited, vars, script
  <2>1. fault => fault'
    BY <1>4 DEF Next, Script, InsufficientFunds, Confirm, Ready, Timeout, ConfirmFails,
       Finally, Land, Lose, Sync, Index, Exited, vars
  <2>2. \/ phase' \in {"finally", "exited"}
        \/ phase = "confirm" /\ phase' \in {"sync", "row"} /\ step' = step
        \/ phase = "sync" /\ phase' = "row" /\ step' = step
        \/ phase' = phase /\ step' = step
    BY <1>4 DEF Next, Script, InsufficientFunds, Confirm, Ready, Timeout, ConfirmFails,
       Finally, Land, Lose, Sync, Index, Exited, Fail, vars, script
  <2>3. phase' \in Running => phase \in Running /\ Taken' = Taken
    BY <2>2 DEF Running, Taken
  <2>. QED
    BY <1>1, <2>0, <2>1, <2>3, CaptureStays
<1>. QED
  BY <1>2, <1>3, <1>4

\* What an entry of the log adds to the sum of the deltas.
LEMMA SumOfDeltas ==
  ASSUME NEW log, NEW S, IsFiniteSet(S), NEW v, \A i \in S : v[i] = log[i].delta
  PROVE  MapThenSumSet(LAMBDA i : log[i].delta, S) = Total(S, v)
<1> DEFINE Body(f, s) == IF s = {} THEN 0 ELSE log[First(s)].delta + f[s \ {First(s)}]
           Filled(f) == f = [s \in SUBSET S |-> Body(f, s)]
           g == CHOOSE f : Filled(f)
<1>1. MapThenSumSet(LAMBDA i : log[i].delta, S) = g[S]
  BY DEF MapThenSumSet, MapThenFoldSet, First
<1>2. ASSUME NEW f PROVE SumTable(f, S, v) <=> Filled(f)
  <2>1. ASSUME NEW s \in SUBSET S
        PROVE  Body(f, s) = IF s = {} THEN 0 ELSE v[First(s)] + f[s \ {First(s)}]
    BY FirstIn
  <2> HIDE DEF Body
  <2>2. [s \in SUBSET S |-> Body(f, s)]
          = [s \in SUBSET S |-> IF s = {} THEN 0 ELSE v[First(s)] + f[s \ {First(s)}]]
    BY <2>1
  <2> QED BY <2>2 DEF SumTable
<1> HIDE DEF Filled
<1>3. Filled(g)
  <2>1. Filled(Table(S, v))
    BY <1>2, TableExists
  <2> QED BY <2>1
<1> HIDE DEF g
<1>4. SumTable(g, S, v) /\ SumTable(Table(S, v), S, v) /\ S \in SUBSET S
  BY <1>2, <1>3, TableExists
<1>5. g[S] = Table(S, v)[S]
  BY <1>4, TablesAgree
<1> QED BY <1>1, <1>5 DEF Total

\* A complete log measures the fold of the chain after as many steps.
LEMMA CompleteMeasures ==
  ASSUME amt \in Scenarios, \E S : captured \in Seq(S), NEW n \in 1 .. 5, Complete(n)
  PROVE  /\ MeasuredFold = FoldAfter(n)
         /\ MeasuredDelta = FoldAfter(n - 1) - FoldAfter(n)
<1>. DEFINE v == [i \in 1 .. n |-> captured[i].delta]
<1>1. DOMAIN captured = 1 .. n /\ captured # <<>> /\ Len(captured) = n
  BY DEF Complete
<1>2. \A i \in 0 .. 5 : FoldAfter(i) \in Int
  BY Amounts DEF FoldAfter
<1>3. \A i \in 1 .. n : v[i] = captured[i].delta /\ v[i] = FoldAfter(i - 1) - FoldAfter(i)
  BY DEF Complete
<1>4. ASSUME NEW i \in 1 .. n
      PROVE  FoldAfter(i - 1) \in Int /\ FoldAfter(i) \in Int /\ v[i] \in Int
  <2>1. i - 1 \in 0 .. 5 /\ i \in 0 .. 5
    OBVIOUS
  <2>2. FoldAfter(i - 1) \in Int /\ FoldAfter(i) \in Int
    BY <1>2, <2>1
  <2>. QED
    BY <1>3, <2>2
<1>5. MeasuredDelta = FoldAfter(n - 1) - FoldAfter(n)
  BY <1>1 DEF MeasuredDelta, Complete
<1>. HIDE DEF v
<1>6. MapThenSumSet(LAMBDA i : captured[i].delta, 1 .. n) = Total(1 .. n, v)
  <2>1. IsFiniteSet(1 .. n)
    BY FS_Interval
  <2>. QED
    BY <1>3, <2>1, SumOfDeltas
<1>7. ASSUME NEW k \in 1 .. n, Total(1 .. k - 1, v) = 0 - FoldAfter(k - 1)
      PROVE  Total(1 .. k, v) = 0 - FoldAfter(k)
  <2>1. IsFiniteSet(1 .. k - 1)
    BY FS_Interval
  <2>2. k \notin 1 .. k - 1 /\ (1 .. k - 1) \cup {k} = 1 .. k
    OBVIOUS
  <2>3. \A i \in (1 .. k - 1) \cup {k} : v[i] \in Int
    BY <1>4
  <2>4. Total((1 .. k - 1) \cup {k}, v) = Total(1 .. k - 1, v) + v[k]
    BY <2>1, <2>2, <2>3, TotalAdd
  <2>5. FoldAfter(k - 1) \in Int /\ FoldAfter(k) \in Int
        /\ v[k] = FoldAfter(k - 1) - FoldAfter(k)
    BY <1>3, <1>4
  <2>6. Total(1 .. k, v) = Total(1 .. k - 1, v) + v[k]
    BY <2>2, <2>4
  <2>. HIDE DEF FoldAfter
  <2>. QED
    BY <1>7, <2>5, <2>6
<1>8. Total(1 .. n, v) = 0 - FoldAfter(n)
  <2>. DEFINE T(k) == Total(1 .. k, v) = 0 - FoldAfter(k)
  <2>1. T(0)
    <3>1. 1 .. 0 = {} /\ FoldAfter(0) = 0
      BY DEF FoldAfter
    <3>. QED
      BY <3>1, TotalEmpty
  <2>2. \A k \in 1 .. n : T(k - 1) => T(k)
    BY <1>7
  <2>. HIDE DEF T
  <2>3. T(1)
    BY <2>1, <2>2
  <2>4. n >= 2 => T(2)
    BY <2>2, <2>3
  <2>5. n >= 3 => T(3)
    BY <2>2, <2>4
  <2>6. n >= 4 => T(4)
    BY <2>2, <2>5
  <2>7. n >= 5 => T(5)
    BY <2>2, <2>6
  <2>8. T(n)
    BY <2>3, <2>4, <2>5, <2>6, <2>7
  <2>. QED
    BY <2>8 DEF T
<1>9. MeasuredFold = FoldAfter(n)
  BY <1>1, <1>2, <1>6, <1>8 DEF MeasuredFold
<1>. QED
  BY <1>5, <1>9

\* The deployment starts with an empty log.
LEMMA CaptureInit == Init => CaptureInv
<1>. SUFFICES ASSUME Init PROVE CaptureInv
  OBVIOUS
<1>1. captured \in Seq({}) /\ Len(captured) = 0
  BY DEF Init
<1>. QED
  BY <1>1 DEF Init, CaptureInv, Complete, Taken

\* The variables keep their types, no more than one transaction is ever in flight,
\* and no more is captured or recorded than there are steps.
THEOREM AuditTypes == Spec => []TypeOK
<1>1. StageInv /\ CaptureInv => TypeOK
  <2>. SUFFICES ASSUME StageInv, CaptureInv PROVE TypeOK
    OBVIOUS
  <2>1. /\ amt \in Scenarios
        /\ chain.landed \in 0 .. 5
        /\ Affordable(chain.landed)
        /\ chain = ChainAfter(chain.landed)
        /\ wallet \subseteq chain.coins
    BY DEF StageInv, Typed, WorldInv, AuditInv, ControlInv, Steps
  <2>2. /\ CoinsAfter(chain.landed) \subseteq Coins
        /\ TotalAfter(chain.landed) \in Nat \cup {NoState}
        /\ FoldAfter(chain.landed) \in Nat
    BY <2>1, CoinsTyped
  <2>3. chain \in [ landed : 0 .. 5, total : Nat \cup {NoState}, fold : Nat,
                    coins : SUBSET Coins ]
    BY <2>1, <2>2 DEF ChainAfter
  <2>4. wallet \in SUBSET Coins
    BY <2>1, <2>2 DEF ChainAfter
  <2>5. Cardinality(inflight) <= 1
    <3>1. CASE inflight = {}
      BY <3>1, FS_EmptySet
    <3>2. CASE \E tx : inflight = {tx}
      <4>1. PICK tx : inflight = {tx}
        BY <3>2
      <4>. QED
        BY <4>1, FS_Singleton
    <3>. QED
      BY <3>1, <3>2 DEF StageInv, WorldInv
  <2>6. exit \in {"none", "ok", "error"}
    BY DEF StageInv, AuditInv, ControlInv, Phases, Running
  <2>. QED
    BY <2>3, <2>4, <2>5, <2>6
       DEF TypeOK, StageInv, Typed, AuditInv, ControlInv, RowsInv, CaptureInv
<1>2. Init => StageInv /\ CaptureInv
  BY StageInit, CaptureInit
<1>3. StageInv /\ CaptureInv /\ [Next]_vars => (StageInv /\ CaptureInv)'
  BY StageNextSound, CaptureNextSound
<1>. QED
  BY <1>1, <1>2, <1>3, PTL DEF Spec

-----------------------------------------------------------------------------
(* A run without faults.  Its rows pass, so strict mode has no reason to    *)
(* fail it, and where it gives up more was to be burned than there was.     *)

\* README: the change of the hidden burn is awaited by its value, so the burns
\* must not use up all that was minted.
ChangeIsLeft == \A a \in Scenarios : a.B + a.H # a.M

FaultInv ==
  /\ ~fault => ~HardFailure
  /\ exit = "error" => fault \/ amt.B + amt.H > amt.M

CleanInv == StageInv /\ CaptureInv /\ FaultInv

\* Without a fault a row of the first four steps passes.
LEMMA CleanRowPasses ==
  ASSUME StageInv, CaptureInv, Checkpoint, step < 5, ~fault'
  PROVE  RowPass(rows'[step])
<1>1. PICK reading \in Readings :
        /\ rows'[step] =
             [ step     |-> step,
               delta    |-> MeasuredDelta,
               fold     |-> MeasuredFold,
               total    |-> reading.total,
               read     |-> reading.read,
               expected |-> Expected,
               truth    |-> [ fold  |-> chain.fold,
                              total |-> chain.total,
                              circ  |-> Circulating(chain.coins) ] ]
        /\ fault' = (fault \/ ~reading.read \/ reading.total # chain.total)
  BY NewRow DEF StageInv
<1>2. ~fault /\ reading.total = chain.total
  BY <1>1
<1>3. /\ phase = "row" /\ step \in 1 .. 4
      /\ amt \in Scenarios
      /\ amt.M \in Nat /\ amt.B \in Nat /\ amt.H \in Nat
  BY Amounts DEF Checkpoint, StageInv, Typed, AuditInv, ControlInv, Steps
<1>4. Complete(step) /\ \E S : captured \in Seq(S)
  BY <1>2, <1>3 DEF CaptureInv, Taken, Running
<1>5. /\ MeasuredFold = FoldAfter(step)
      /\ MeasuredDelta = FoldAfter(step - 1) - FoldAfter(step)
  BY <1>3, <1>4, CompleteMeasures
<1>6. Expected.total = chain.total
  BY <1>3, RowIsTrue
<1>7. /\ Expected.fold = FoldAfter(step)
      /\ Expected.delta = FoldAfter(step - 1) - FoldAfter(step)
  BY <1>3 DEF Expected, FoldAfter
<1>. QED
  BY <1>1, <1>2, <1>5, <1>6, <1>7 DEF RowPass

\* Without a fault a wait ends: what it waits for is there or on its way, unless
\* nothing is left.
LEMMA WaitsEnd ==
  ASSUME ChangeIsLeft, StageInv, Timeout, ~fault'
  PROVE  amt.B + amt.H > amt.M
<1>1. /\ phase = "sync" /\ ~CoinReady /\ ~fault /\ inflight = {}
      /\ wallet = chain.coins
  BY DEF Timeout
<1>2. /\ amt \in Scenarios /\ amt.M \in Nat /\ amt.B \in Nat /\ amt.H \in Nat
      /\ amt.H > 0 /\ amt.B + amt.H # amt.M
      /\ step \in 2 .. 4
  BY <1>1, Amounts DEF ChangeIsLeft, StageInv, Typed, AuditInv, ControlInv
<1>3. chain.landed = step
  BY <1>1 DEF StageInv, PaceInv
<1>4. wallet = CoinsAfter(step) /\ Affordable(step)
  BY <1>1, <1>3 DEF StageInv, WorldInv, ChainAfter
<1>5. CASE step = 2
  <2>1. wallet = Piece(2, amt.M)
    BY <1>4, <1>5 DEF CoinsAfter, Hidden, LeftAfter
  <2>2. MapThenSumSet(LAMBDA c : c.value, wallet) = amt.M
    BY <1>2, <2>1, SumOfPiece
  <2>. QED
    BY <1>1, <1>2, <1>5, <2>2 DEF CoinReady
<1>6. CASE step = 3
  <2>1. wallet = Piece(3, amt.M - amt.B)
    BY <1>4, <1>6 DEF CoinsAfter, Hidden, LeftAfter
  <2>2. \A c \in wallet : c.value # amt.M - amt.B
    BY <1>1, <1>6 DEF CoinReady
  <2>3. amt.M - amt.B = 0
    BY <2>1, <2>2 DEF Piece
  <2>. QED
    BY <1>2, <2>3
<1>7. CASE step = 4
  <2>1. Piece(4, amt.M - amt.B - amt.H) \subseteq wallet
    BY <1>4, <1>7 DEF CoinsAfter, LeftAfter
  <2>2. \A c \in wallet : c.value # amt.M - amt.B - amt.H
    BY <1>1, <1>7 DEF CoinReady
  <2>3. amt.M - amt.B - amt.H = 0
    BY <2>1, <2>2 DEF Piece
  <2>. QED
    BY <1>2, <2>3
<1>. QED
  BY <1>2, <1>5, <1>6, <1>7

\* A burn finds no coin only if there is less than it burns.
LEMMA FundsSuffice ==
  ASSUME StageInv, InsufficientFunds
  PROVE  amt.B + amt.H > amt.M
<1>1. phase = "submit" /\ step \in 1 .. 4 /\ Buildable = {}
  BY DEF InsufficientFunds
<1>2. amt.M \in Nat /\ amt.B \in Nat /\ amt.H \in Nat /\ amt.H > 0
  BY Amounts DEF StageInv, Typed
<1>3. step \in {3, 4} => wallet = CoinsAfter(step - 1)
  BY <1>1 DEF StageInv, WalletInv, PaceInv, WorldInv, ChainAfter
<1>4. step # 1 /\ step # 2
  <2>1. ASSUME step = 1 PROVE Buildable # {}
    BY <2>1 DEF Buildable
  <2>2. ASSUME step = 2 PROVE Buildable # {}
    BY <2>2 DEF Buildable
  <2>. QED
    BY <1>1, <2>1, <2>2
<1>5. CASE step = 3
  <2>1. wallet = Piece(2, amt.M)
    BY <1>3, <1>5 DEF CoinsAfter, Hidden, LeftAfter
  <2>2. \A c \in wallet : ~(amt.M >= amt.B /\ c.value >= amt.M)
    <3>. DEFINE change(c) == Live(c.value - amt.B)
    <3>1. Buildable = {Tx({c}, change(c), 0, 0 - amt.B) :
                         c \in {w \in wallet : amt.M >= amt.B /\ w.value >= amt.M}}
      BY <1>5 DEF Buildable, BurnSucceeds
    <3>. HIDE DEF change
    <3>. QED
      BY <1>1, <3>1
  <2>3. CASE amt.M = 0
    BY <1>2, <2>3
  <2>4. CASE amt.M # 0
    <3>1. [born |-> 2, value |-> amt.M, dead |-> FALSE] \in wallet
      BY <2>1, <2>4 DEF Piece
    <3>2. ~(amt.M >= amt.B)
      BY <1>2, <2>2, <3>1
    <3>. QED
      BY <1>2, <3>2
  <2>. QED
    BY <2>3, <2>4
<1>6. CASE step = 4
  <2>. DEFINE L == amt.M - amt.B
              outputs(c) == Live(c.value - amt.H) \cup {Coin(amt.H, TRUE)}
  <2>1. wallet = Piece(3, L)
    BY <1>3, <1>6 DEF CoinsAfter, Hidden, LeftAfter
  <2>2. Buildable = {Tx({c}, outputs(c), 0, 0) : c \in {w \in wallet : w.value >= amt.H}}
    BY <1>6 DEF Buildable
  <2>. HIDE DEF outputs
  <2>3. \A c \in wallet : ~(c.value >= amt.H)
    BY <1>1, <2>2
  <2>4. CASE L = 0
    BY <1>2, <2>4
  <2>5. CASE L # 0
    <3>. HIDE DEF L
    <3>1. [born |-> 3, value |-> L, dead |-> FALSE] \in wallet
      BY <2>1, <2>5 DEF Piece
    <3>2. ~(L >= amt.H)
      BY <2>3, <3>1
    <3>. QED
      BY <1>2, <3>2 DEF L
  <2>. QED
    BY <2>4, <2>5
<1>. QED
  BY <1>1, <1>4, <1>5, <1>6

\* Every step keeps a run without faults clean.
LEMMA FaultNextSound ==
  ASSUME ChangeIsLeft, CleanInv, [Next]_vars PROVE FaultInv'
<1>. USE DEF CleanInv
<1>1. UNCHANGED amt
  BY DEF Next, Script, SubmitCall, SubmitHiddenBurn, InsufficientFunds,
     SubmitProtocolBurn, Confirm, Ready, Timeout, ConfirmFails, Checkpoint,
     Finally, Land, Lose, Sync, Index, Exited, Accepted, NotAccepted, vars
<1>2. CASE Checkpoint
  <2>1. (fault => fault') /\ exit' = exit
    <3>1. fault => fault'
      BY <1>2 DEF Checkpoint
    <3>. QED
      BY <1>2, <3>1 DEF Checkpoint
  <2>2. ASSUME ~fault', NEW i \in DOMAIN rows', rows'[i].step < 5
        PROVE  RowPass(rows'[i])
    <3>1. /\ DOMAIN rows = 1 .. step - 1
          /\ DOMAIN rows' = 1 .. step
          /\ \A j \in DOMAIN rows : rows'[j] = rows[j]
      BY <1>2, NewRow DEF StageInv
    <3>2. CASE i = step
      <4>1. AuditInv'
        BY AuditNextSound DEF StageInv
      <4>2. rows'[i].step = i
        BY <4>1 DEF AuditInv, RowsInv
      <4>. QED
        BY <1>2, <2>2, <3>2, <4>2, CleanRowPasses
    <3>3. CASE i # step
      <4>1. i \in DOMAIN rows
        BY <3>1, <3>3 DEF StageInv, AuditInv, ControlInv, Steps
      <4>. QED
        BY <2>1, <2>2, <3>1, <4>1 DEF FaultInv, HardFailure
    <3>. QED
      BY <3>2, <3>3
  <2>3. ~fault' => ~HardFailure'
    BY <2>2 DEF HardFailure, RowPass
  <2>. QED
    BY <1>1, <2>1, <2>3 DEF FaultInv
<1>3. CASE ~Checkpoint
  <2>1. UNCHANGED rows
    BY <1>3, RowsStay
  <2>2. HardFailure' <=> HardFailure
    BY <2>1 DEF HardFailure, RowPass
  <2>3. fault => fault'
    BY <1>3 DEF Next, Script, SubmitCall, SubmitHiddenBurn, InsufficientFunds,
       SubmitProtocolBurn, Confirm, Ready, Timeout, ConfirmFails, Finally, Land,
       Lose, Sync, Index, Exited, vars
  <2>4. CASE InsufficientFunds
    BY <1>1, <2>2, <2>3, <2>4, FundsSuffice DEF FaultInv
  <2>5. CASE Timeout
    BY <1>1, <2>2, <2>3, <2>5, WaitsEnd DEF FaultInv
  <2>6. CASE Finally
    <3>1. exit' = "error" => exit = "error" \/ HardFailure
      BY <2>6 DEF Finally
    <3>. QED
      BY <1>1, <2>2, <2>3, <3>1 DEF FaultInv
  <2>7. CASE ~(InsufficientFunds \/ Timeout \/ Finally)
    <3>1. exit' = "error" => exit = "error" \/ fault'
      BY <1>3, <2>7 DEF Next, Script, SubmitCall, SubmitHiddenBurn,
         SubmitProtocolBurn, Confirm, Ready, ConfirmFails, Land, Lose, Sync, Index,
         Exited, Fail, vars, script
    <3>. QED
      BY <1>1, <2>2, <2>3, <3>1 DEF FaultInv
  <2>. QED
    BY <2>4, <2>5, <2>6, <2>7
<1>. QED
  BY <1>2, <1>3

\* The deployment starts clean.
LEMMA CleanInit == Init => CleanInv
<1>. SUFFICES ASSUME Init PROVE CleanInv
  OBVIOUS
<1>1. FaultInv
  BY DEF Init, FaultInv, HardFailure
<1>. QED
  BY <1>1, StageInit, CaptureInit DEF CleanInv

\* As long as the burns leave something of what was minted, only a failure of the
\* environment ends the audit early or fails a strict run, unless more is to be
\* burned than there is.
THEOREM OnlyFaultsEndTheAudit ==
  ASSUME ChangeIsLeft
  PROVE  Spec => []OnlyFaultsAbort
<1>1. CleanInv /\ [Next]_vars => CleanInv'
  BY StageNextSound, CaptureNextSound, FaultNextSound DEF CleanInv
<1>2. CleanInv => OnlyFaultsAbort
  BY DEF CleanInv, FaultInv, OnlyFaultsAbort
<1>. QED
  BY <1>1, <1>2, CleanInit, PTL DEF Spec

\* verify-supply.ts picks the largest coin for the protocol burn; it is the change
\* of the hidden burn if less was hidden than is left.
HiddenIsLess ==
  \A a \in Scenarios : a.B + a.H <= a.M => a.B + 2 * a.H < a.M

\* The protocol burn has spent the change and lands before its row, and the row
\* passes.
LastInv ==
  ~fault =>
    /\ phase \in {"confirm", "row"} /\ step = 5 =>
         /\ phase = "row" => chain.landed = 5
         /\ picked = Piece(4, LeftAfter(4))
         /\ Complete(5)
         /\ captured[5].kind = "protocol-burn"
    /\ Len(rows) = 5 => RowPass(rows[5]) /\ rows[5].truth.circ = 0

LastRunInv == CleanInv /\ LastInv

\* The largest coin is the change.
LEMMA LargestIsChange ==
  ASSUME HiddenIsLess, StageInv, phase = "submit", step = 5, NEW tx \in Buildable
  PROVE  ~Dead(tx) /\ tx.inputs = Piece(4, LeftAfter(4))
<1>1. PICK c \in wallet : /\ tx = Tx({c}, {}, c.value, 0)
                          /\ \A d \in wallet : d.value <= c.value
  BY DEF Buildable, LargestCoins
<1>2. PICK d \in wallet : d.value = LeftAfter(4)
  BY DEF StageInv, WalletInv
<1>3. /\ wallet \subseteq CoinsAfter(4)
      /\ amt \in Scenarios
      /\ amt.B + amt.H <= amt.M
  BY DEF StageInv, Typed, WorldInv, PaceInv, ChainAfter, Affordable
<1>4. amt.M \in Nat /\ amt.B \in Nat /\ amt.H \in Nat /\ amt.B + 2 * amt.H < amt.M
  BY <1>3, Amounts DEF HiddenIsLess
<1>5. LeftAfter(4) = amt.M - amt.B - amt.H
  BY DEF LeftAfter
<1>6. c \notin Hidden(4)
  <2>1. ASSUME c \in Hidden(4) PROVE c.value = amt.H
    BY <2>1 DEF Hidden
  <2>2. LeftAfter(4) <= c.value
    BY <1>1, <1>2
  <2>. QED
    BY <1>4, <1>5, <2>1, <2>2
<1>7. c \in Piece(4, LeftAfter(4))
  BY <1>3, <1>6 DEF CoinsAfter
<1>8. Piece(4, LeftAfter(4)) = {c} /\ ~c.dead
  BY <1>7, PieceIsOne
<1>. QED
  BY <1>1, <1>8 DEF Tx, Dead

\* Without a fault the row of the protocol burn passes.
LEMMA LastRowPasses ==
  ASSUME LastRunInv, Checkpoint, step = 5, ~fault'
  PROVE  RowPass(rows'[5]) /\ rows'[5].truth.circ = 0
<1>1. PICK reading \in Readings :
        /\ rows'[step] =
             [ step     |-> step,
               delta    |-> MeasuredDelta,
               fold     |-> MeasuredFold,
               total    |-> reading.total,
               read     |-> reading.read,
               expected |-> Expected,
               truth    |-> [ fold  |-> chain.fold,
                              total |-> chain.total,
                              circ  |-> Circulating(chain.coins) ] ]
        /\ fault' = (fault \/ ~reading.read \/ reading.total # chain.total)
  BY NewRow DEF LastRunInv, CleanInv, StageInv
<1>2. ~fault /\ reading.total = chain.total /\ phase = "row"
  BY <1>1 DEF Checkpoint
<1>3. /\ chain.landed = 5
      /\ picked = Piece(4, LeftAfter(4))
      /\ Complete(5)
      /\ captured[5].kind = "protocol-burn"
  BY <1>2 DEF LastRunInv, LastInv
<1>4. /\ amt \in Scenarios
      /\ amt.M \in Nat /\ amt.B \in Nat /\ amt.H \in Nat
      /\ \E S : captured \in Seq(S)
      /\ chain = ChainAfter(5)
  BY <1>3, Amounts DEF LastRunInv, CleanInv, CaptureInv, StageInv, Typed, WorldInv
<1>5. /\ MeasuredFold = FoldAfter(5)
      /\ MeasuredDelta = FoldAfter(4) - FoldAfter(5)
  <2>1. 5 \in 1 .. 5 /\ 5 - 1 = 4
    OBVIOUS
  <2>. QED
    BY <1>3, <1>4, <2>1, CompleteMeasures
<1>6. P = amt.M - amt.B - amt.H
  <2>1. LeftAfter(4) = amt.M - amt.B - amt.H /\ LeftAfter(4) \in Int
    BY <1>4 DEF LeftAfter
  <2>2. P = LeftAfter(4)
    BY <1>3, <2>1, SumOfPiece DEF P
  <2>. QED
    BY <2>1, <2>2
<1>7. LabelledProtocolBurn
  <2>1. 5 \in DOMAIN captured
    BY <1>3, <1>4 DEF Complete
  <2>. QED
    BY <1>3, <2>1 DEF LabelledProtocolBurn
<1>8. /\ Expected.delta = P
      /\ Expected.fold = amt.M - P
      /\ Expected.total = amt.M - amt.B
  BY <1>7 DEF Expected
<1>9. Circulating(chain.coins) = 0 /\ chain.total = amt.M - amt.B
  <2>1. 5 \in 0 .. 5 /\ LeftAfter(5) = 0 /\ TotalAfter(5) = amt.M - amt.B
    BY DEF LeftAfter, TotalAfter
  <2>2. Circulating(CoinsAfter(5)) = LeftAfter(5)
    BY <1>4, <2>1, CirculatingAfter
  <2>3. chain.coins = CoinsAfter(5) /\ chain.total = TotalAfter(5)
    BY <1>4 DEF ChainAfter
  <2>. QED
    BY <2>1, <2>2, <2>3
<1>10. FoldAfter(4) = amt.M /\ FoldAfter(5) = amt.B + amt.H
  BY DEF FoldAfter
<1>11. MeasuredDelta = P /\ MeasuredFold = amt.M - P
  BY <1>4, <1>5, <1>6, <1>10
<1>. QED
  BY <1>1, <1>2, <1>8, <1>9, <1>11 DEF RowPass

\* The protocol burn keeps the log complete, and a faultless one is labelled.
LEMMA ProtocolBurnLabels ==
  ASSUME HiddenIsLess, LastRunInv, SubmitProtocolBurn, ~fault'
  PROVE  LastInv'
<1>1. /\ step = 5 /\ step' = 5 /\ phase = "submit"
      /\ UNCHANGED <<amt, rows>>
  BY DEF SubmitProtocolBurn, Accepted, NotAccepted
<1>2. ~fault
  BY FaultlessSubmit DEF LastRunInv, CleanInv
<1>3. PICK tx \in Buildable :
        \/ /\ ~Dead(tx)
           /\ phase' = "confirm"
           /\ picked' = tx.inputs
           /\ captured' = Relabelled(Append(captured, Record(tx)), "protocol-burn")
        \/ Dead(tx)
  BY <1>1, FaultlessSubmit DEF LastRunInv, CleanInv
<1>4. ~Dead(tx) /\ tx.inputs = Piece(4, LeftAfter(4))
  BY <1>1, LargestIsChange DEF LastRunInv, CleanInv
<1>5. Complete(4) /\ \E S : captured \in Seq(S)
  BY <1>1, <1>2 DEF LastRunInv, CleanInv, CaptureInv, Taken, Running
<1>6. Complete(step)'
  <2>1. Complete(step - 1) /\ UNCHANGED <<amt, step>>
    BY <1>1, <1>5
  <2>. QED
    BY <1>1, <1>3, <1>4, <1>5, <2>1, LogCompletes DEF LastRunInv, CleanInv
<1>7. Complete(5)'
  BY <1>1, <1>6 DEF Complete
<1>8. captured'[5].kind = "protocol-burn"
  <2>1. Len(captured) + 1 = 5
    BY <1>5 DEF Complete
  <2>. QED
    BY <1>3, <1>4, <1>5, <2>1, RelabelledRecord
<1>9. picked' = Piece(4, LeftAfter(4))'
  BY <1>1, <1>3, <1>4 DEF Piece, LeftAfter
<1>10. Len(rows) # 5
  BY <1>1 DEF LastRunInv, CleanInv, StageInv, AuditInv, RowsInv, Running
<1>. QED
  BY <1>1, <1>3, <1>4, <1>7, <1>8, <1>9, <1>10 DEF LastInv

\* Every step keeps the last row clean.
LEMMA LastNextSound ==
  ASSUME HiddenIsLess, LastRunInv, [Next]_vars PROVE LastInv'
<1>. USE DEF LastRunInv
<1>1. SUFFICES ASSUME ~fault' PROVE LastInv'
  BY DEF LastInv
<1>2. CASE SubmitProtocolBurn
  BY <1>1, <1>2, ProtocolBurnLabels
<1>3. CASE Checkpoint
  <2>1. ~fault /\ phase' # "row" /\ phase' # "confirm"
    <3>1. ~fault
      BY <1>1, <1>3 DEF Checkpoint
    <3>. QED
      BY <1>3, <3>1 DEF Checkpoint
  <2>2. ASSUME Len(rows') = 5 PROVE RowPass(rows'[5]) /\ rows'[5].truth.circ = 0
    <3>1. DOMAIN rows' = 1 .. step /\ step \in 1 .. 5 /\ \E S : rows' \in Seq(S)
      <4>1. AuditInv'
        BY AuditNextSound DEF CleanInv, StageInv
      <4>2. \E S : rows' \in Seq(S)
        BY <4>1 DEF AuditInv, RowsInv
      <4>3. DOMAIN rows' = 1 .. step
        BY <1>3, NewRow DEF CleanInv, StageInv
      <4>4. step \in 1 .. 5
        BY DEF CleanInv, StageInv, AuditInv, ControlInv, Steps
      <4>. QED
        BY <4>2, <4>3, <4>4
    <3>2. 5 \in 1 .. step
      <4>1. PICK S : rows' \in Seq(S)
        BY <3>1
      <4>2. DOMAIN rows' = 1 .. Len(rows')
        BY <4>1
      <4>3. DOMAIN rows' = 1 .. 5
        BY <2>2, <4>2
      <4>. QED
        BY <3>1, <4>3
    <3>3. step = 5
      BY <3>1, <3>2
    <3>. QED
      BY <1>1, <1>3, <3>3, LastRowPasses
  <2>. QED
    BY <2>1, <2>2 DEF LastInv, RowPass
<1>4. CASE ~(SubmitProtocolBurn \/ Checkpoint)
  <2>1. UNCHANGED <<amt, rows>> /\ ~fault
    <3>1. UNCHANGED rows
      BY <1>4, RowsStay
    <3>2. UNCHANGED amt
      BY <1>4 DEF Next, Script, SubmitCall, SubmitHiddenBurn, InsufficientFunds,
         Confirm, Ready, Timeout, ConfirmFails, Finally, Land, Lose, Sync, Index,
         Exited, Accepted, NotAccepted, vars
    <3>3. ~fault
      BY <1>1, <1>4 DEF Next, Script, SubmitCall, SubmitHiddenBurn, InsufficientFunds,
         Confirm, Ready, Timeout, ConfirmFails, Finally, Land, Lose, Sync, Index,
         Exited, vars
    <3>. QED
      BY <3>1, <3>2, <3>3
  <2>2. Len(rows') = 5 => RowPass(rows'[5]) /\ rows'[5].truth.circ = 0
    BY <2>1 DEF LastInv
  <2>3. ASSUME phase' \in {"confirm", "row"}, step' = 5
        PROVE  /\ phase' = "row" => chain'.landed = 5
               /\ picked' = Piece(4, LeftAfter(4))'
               /\ Complete(5)'
               /\ captured'[5].kind = "protocol-burn"
    <3>1. /\ phase \in {"confirm", "row"} /\ step = 5
          /\ phase = "confirm" /\ phase' = "row" => chain.landed = 5
          /\ UNCHANGED <<picked, captured>>
      <4>1. CASE Script \/ ConfirmFails
        BY <1>1, <1>4, <2>3, <4>1 DEF Script, SubmitCall, SubmitHiddenBurn,
           InsufficientFunds, Confirm, Ready, Timeout, ConfirmFails, Finally, Fail,
           CleanInv, StageInv, AuditInv, ControlInv
      <4>2. CASE Land \/ Lose \/ Sync \/ Index \/ Exited \/ UNCHANGED vars
        BY <2>3, <4>2 DEF Land, Lose, Sync, Index, Exited, vars, script
      <4>. QED
        BY <4>1, <4>2 DEF Next
    <3>2. /\ phase = "row" => chain.landed = 5
          /\ picked = Piece(4, LeftAfter(4))
          /\ Complete(5)
          /\ captured[5].kind = "protocol-burn"
      BY <2>1, <3>1 DEF LastInv
    <3>3. phase' = "row" => chain'.landed = 5
      <4>1. ASSUME phase' = "row" PROVE chain.landed = 5
        BY <3>1, <3>2, <4>1
      <4>2. ASSUME phase' = "row", Land PROVE chain'.landed = 5
        <5>1. chain.landed = step
          BY <3>1, <4>1, <4>2
        <5>2. inflight = {}
          BY <5>1 DEF CleanInv, StageInv, WorldInv, InFlight, AuditInv, ControlInv, Steps
        <5>. QED
          BY <4>2, <5>2 DEF Land
      <4>3. ~Land => UNCHANGED chain
        BY <1>4 DEF Next, Script, SubmitCall, SubmitHiddenBurn, InsufficientFunds,
           Confirm, Ready, Timeout, ConfirmFails, Finally, Lose, Sync, Index, Exited,
           Accepted, NotAccepted, vars
      <4>. QED
        BY <4>1, <4>2, <4>3
    <3>4. picked' = Piece(4, LeftAfter(4))'
      BY <2>1, <3>1, <3>2 DEF Piece, LeftAfter
    <3>5. Complete(5)'
      BY <2>1, <3>1, <3>2 DEF Complete, FoldAfter
    <3>. QED
      BY <3>1, <3>2, <3>3, <3>4, <3>5
  <2>. QED
    BY <2>1, <2>2, <2>3 DEF LastInv, RowPass
<1>. QED
  BY <1>2, <1>3, <1>4

\* If less is hidden than is left, a run without faults, of amounts within the
\* bound, ends with five rows that pass and with nothing left to spend, in
\* whatever order the node, the wallet and the indexer answer.
THEOREM CleanRunIsClean ==
  ASSUME HiddenIsLess
  PROVE  Spec => []CleanRunPasses
<1>1. ChangeIsLeft
  <2>1. ASSUME NEW a \in Scenarios, a.B + a.H = a.M PROVE FALSE
    <3>1. a.M \in Nat /\ a.B \in Nat /\ a.H \in Nat /\ a.H > 0
      BY ScenariosAssumption
    <3>2. a.B + 2 * a.H < a.M
      BY <2>1, <3>1 DEF HiddenIsLess
    <3>. QED
      BY <2>1, <3>1, <3>2
  <2>. QED
    BY <2>1 DEF ChangeIsLeft
<1>2. Init => LastRunInv
  <2>1. Init => LastInv
    BY DEF Init, LastInv
  <2>. QED
    BY <2>1, CleanInit DEF LastRunInv
<1>3. LastRunInv /\ [Next]_vars => LastRunInv'
  BY <1>1, StageNextSound, CaptureNextSound, FaultNextSound, LastNextSound
     DEF LastRunInv, CleanInv
<1>4. LastRunInv => CleanRunPasses
  <2>. SUFFICES ASSUME LastRunInv, phase = "exited", ~fault, amt.B + amt.H <= amt.M
                PROVE  /\ Len(rows) = 5
                       /\ \A i \in 1 .. 5 : RowPass(rows[i])
                       /\ rows[5].truth.circ = 0
    BY DEF CleanRunPasses
  <2>1. amt.M \in Nat /\ amt.B \in Nat /\ amt.H \in Nat
    BY Amounts DEF LastRunInv, CleanInv, StageInv, Typed
  <2>2. exit = "ok"
    BY <2>1 DEF LastRunInv, CleanInv, FaultInv, StageInv, AuditInv, ControlInv
  <2>3. Len(rows) = 5 /\ DOMAIN rows = 1 .. 5 /\ \A i \in DOMAIN rows : rows[i].step = i
    BY <2>2 DEF LastRunInv, CleanInv, StageInv, AuditInv, RowsInv
  <2>4. RowPass(rows[5]) /\ rows[5].truth.circ = 0
    BY <2>3 DEF LastRunInv, LastInv
  <2>5. ASSUME NEW i \in 1 .. 5 PROVE RowPass(rows[i])
    BY <2>3, <2>4 DEF LastRunInv, CleanInv, FaultInv, HardFailure
  <2>. QED
    BY <2>3, <2>4, <2>5
<1>. QED
  BY <1>2, <1>3, <1>4, PTL DEF Spec
=============================================================================
