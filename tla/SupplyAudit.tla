---------------------------- MODULE SupplyAudit ----------------------------
(***************************************************************************)
(* src/verify-supply.ts on a live stack: five transactions, each captured, *)
(* submitted and waited for, and after each of them a row that compares    *)
(* what an indexer can measure with what the scenario expects.             *)
(*                                                                         *)
(* The script is one asynchronous program; around it the node lands what   *)
(* was submitted, the wallet syncs its coins, and the indexer answers      *)
(* reads, each in its own time and each able to fail.  step is the step of *)
(* the scenario, phase how far the script is in it:                        *)
(*                                                                         *)
(*   submit   build the transaction, capture it, hand it to the wallet     *)
(*   confirm  await the transaction's data from the indexer                *)
(*   sync     poll the wallet for the coin the next step spends            *)
(*   row      checkpoint(): measure, compare, record                       *)
(*   finally  the report is written or an exception is on its way out      *)
(*   exited   the wallet is stopped and the process has its exit code      *)
(***************************************************************************)
EXTENDS Integers, Sequences, FiniteSetsExt

CONSTANTS
  Scenarios,  \* the amounts [M, B, H] the environment variables may give
  Losable     \* steps whose transaction may vanish after it was accepted

ASSUME ScenariosAssumption ==
  \A a \in Scenarios : a \in [M : Nat, B : Nat, H : Nat \ {0}]

VARIABLES
  amt,       \* the amounts of this run
  strict,    \* SOFT_ASSERT=0
  step, phase,
  chain,     \* the truth: last step landed, counter, fold, unspent coins
  indexed,   \* the counter as the indexer answers it, or NoState
  wallet,    \* availableCoins
  inflight,  \* transactions accepted and not landed (at most one)
  captured,  \* submittedTxs
  rows,      \* the matrix
  picked,    \* the coin the protocol burn chose, if it found one
  fault,     \* history: the environment has failed the script somehow
  exit       \* "none", "ok" or "error"

script == <<step, phase, captured, rows, picked, exit>>

vars == <<amt, strict, script, chain, indexed, wallet, inflight, fault>>

Steps == 1 .. 5

Phases == {"submit", "confirm", "sync", "row", "finally", "exited"}

Kind == <<"deploy", "mint", "burn", "tx", "tx">>  \* inferKind

NoState == -1  \* queryContractState returns nothing yet

-----------------------------------------------------------------------------
(* Coins and transactions                                                  *)

\* dead: sent to the zero coin key under our own encryption key, so the wallet
\* detects it and lists it among the available ones.
Coin(value, dead) == [born |-> step, value |-> value, dead |-> dead]

Live(value) == IF value = 0 THEN {} ELSE {Coin(value, FALSE)}

Circulating(coins) == MapThenSumSet(LAMBDA c : c.value, {c \in coins : ~c.dead})

Tx(inputs, outputs, delta, supply) ==
  [step |-> step, inputs |-> inputs, outputs |-> outputs, delta |-> delta,
   supply |-> supply]

\* Nobody can prove ownership of a dead input.
Dead(tx) == \E c \in tx.inputs : c.dead

\* The largest spendable coin; of several, any one may come first.  There is
\* always one: the wait before has seen a coin, and only spending removes it.
LargestCoins == {c \in wallet : \A d \in wallet : d.value <= c.value}

\* Mutant: the assertion on the value of the coin is missing.
BurnUnchecked == TRUE

\* burn's assertion on the coin it is given, the one minted.
BurnSucceeds == amt.M >= amt.B

\* The transactions the script can build now: none if burn's assertion or the
\* selection of coins fails.
Buildable ==
  CASE step = 1 -> {Tx({}, {}, 0, 0)}
    [] step = 2 -> {Tx({}, Live(amt.M), 0 - amt.M, amt.M)}
    [] step = 3 -> {Tx({c}, Live(c.value - amt.B), 0, 0 - amt.B) :
                      c \in {w \in wallet : BurnSucceeds /\ w.value >= amt.M}}
    [] step = 4 -> {Tx({c}, Live(c.value - amt.H) \cup {Coin(amt.H, TRUE)}, 0, 0) :
                      c \in {w \in wallet : w.value >= amt.H}}
    [] step = 5 -> {Tx({c}, {}, c.value, 0) : c \in LargestCoins}

-----------------------------------------------------------------------------
(* The environment                                                         *)

Init ==
  /\ amt \in Scenarios
  /\ strict \in BOOLEAN
  /\ step = 1
  /\ phase = "submit"
  /\ chain = [landed |-> 0, total |-> NoState, fold |-> 0, coins |-> {}]
  /\ indexed = NoState
  /\ wallet = {}
  /\ inflight = {}
  /\ captured = <<>>
  /\ rows = <<>>
  /\ picked = {}
  /\ fault = FALSE
  /\ exit = "none"

\* The node applies a transaction whose inputs are unspent and owned.
Land ==
  \E tx \in inflight :
    /\ tx.inputs \subseteq chain.coins
    /\ ~Dead(tx)
    /\ chain' = [ landed |-> tx.step,
                  total  |-> IF tx.step = 1 THEN 0 ELSE chain.total + tx.supply,
                  fold   |-> chain.fold - tx.delta,
                  coins  |-> (chain.coins \ tx.inputs) \cup tx.outputs ]
    /\ inflight' = {}
    /\ UNCHANGED <<amt, strict, script, indexed, wallet, fault>>

\* An accepted transaction never reaches a block.
Lose ==
  \E tx \in inflight :
    /\ tx.step \in Losable
    /\ inflight' = {}
    /\ fault' = TRUE
    /\ UNCHANGED <<amt, strict, script, chain, indexed, wallet>>

\* The wallet catches up with the chain, short of what it has booked.
Sync ==
  /\ wallet' = chain.coins \ UNION {tx.inputs : tx \in inflight}
  /\ wallet' # wallet
  /\ UNCHANGED <<amt, strict, script, chain, indexed, inflight, fault>>

\* The indexer catches up with the chain.
Index ==
  /\ indexed # chain.total
  /\ indexed' = chain.total
  /\ UNCHANGED <<amt, strict, script, chain, wallet, inflight, fault>>

-----------------------------------------------------------------------------
(* Submitting                                                              *)

Fail == phase' = "finally" /\ exit' = "error" /\ UNCHANGED step

Record(tx) == [kind |-> Kind[step], delta |-> tx.delta, step |-> step]

\* captureTx: before the wallet is asked to submit, and never in its way.
Capture(tx, recorded) ==
  captured' = IF recorded
                THEN Append(captured, Record(tx))
                ELSE captured

\* Mutant: nothing is relabelled.
NotRelabelled(log, kind) == log

\* relabelLast: whatever transaction was the last to be captured.
Relabelled(log, kind) ==
  IF log = <<>> THEN log ELSE [log EXCEPT ![Len(log)].kind = kind]

\* captureTx followed, once the submission has been accepted, by relabelLast.
CaptureAs(kind, tx, recorded) ==
  captured' = Relabelled(IF recorded THEN Append(captured, Record(tx)) ELSE captured,
                         kind)

\* wallet.submitTransaction accepts the transaction and books its inputs.
Accepted(tx) ==
  /\ inflight' = {tx}
  /\ wallet' = wallet \ tx.inputs
  /\ UNCHANGED <<amt, strict, chain, indexed, rows>>

NotAccepted == UNCHANGED <<amt, strict, chain, indexed, rows, inflight, wallet>>

\* deploy, callTx.mint, callTx.burn: any failure leaves main's try block.
SubmitCall ==
  /\ phase = "submit"
  /\ step \in 1 .. 3
  /\ UNCHANGED picked
  /\ \E tx \in Buildable, recorded \in BOOLEAN :
       /\ Capture(tx, recorded)
       /\ \/ /\ Accepted(tx)
             /\ phase' = "confirm"
             /\ fault' = (fault \/ ~recorded)
             /\ UNCHANGED <<step, exit>>
          \/ /\ NotAccepted
             /\ Fail
             /\ fault' = TRUE

\* hiddenBurn: submitted and relabelled, not awaited.
SubmitHiddenBurn ==
  /\ phase = "submit"
  /\ step = 4
  /\ UNCHANGED picked
  /\ \E tx \in Buildable, recorded \in BOOLEAN :
       \/ /\ Accepted(tx)
          /\ CaptureAs("hidden-burn", tx, recorded)
          /\ phase' = "sync"
          /\ fault' = (fault \/ ~recorded)
          /\ UNCHANGED <<step, exit>>
       \/ /\ NotAccepted
          /\ Capture(tx, recorded)
          /\ Fail
          /\ fault' = TRUE

\* More is to be burned than there is, which nothing checks beforehand: burn's
\* assertion fails or the wallet finds no coin large enough, and the call throws.
InsufficientFunds ==
  /\ phase = "submit"
  /\ step \in 1 .. 4
  /\ Buildable = {}
  /\ NotAccepted
  /\ Fail
  /\ UNCHANGED <<captured, picked, fault>>

\* protocolBurn: every failure past the choice of the coin is a finding, and
\* goes to the row as an error.
SubmitProtocolBurn ==
  /\ phase = "submit"
  /\ step = 5
  /\ UNCHANGED <<step, exit>>
  /\ \E tx \in Buildable, recorded \in BOOLEAN :
       /\ picked' = tx.inputs
       /\ \/ /\ ~Dead(tx)
             /\ Accepted(tx)
             /\ CaptureAs("protocol-burn", tx, recorded)
             /\ phase' = "confirm"
             /\ fault' = (fault \/ ~recorded)
          \/ /\ NotAccepted  \* submitTransaction throws
             /\ Capture(tx, recorded)
             /\ phase' = "row"
             /\ fault' = (fault \/ ~Dead(tx))
          \/ /\ NotAccepted  \* the offer cannot be built or proved
             /\ captured' = captured
             /\ phase' = "row"
             /\ fault' = (fault \/ ~Dead(tx))

-----------------------------------------------------------------------------
(* Waiting                                                                 *)

\* Mutant: the transaction is not awaited.
ConfirmAtOnce ==
  /\ phase = "confirm"
  /\ phase' = IF step \in {1, 5} THEN "row" ELSE "sync"
  /\ UNCHANGED <<amt, strict, step, chain, indexed, wallet, inflight, captured,
                 rows, picked, fault, exit>>

\* The transaction has landed and the watch delivers it.
Confirm ==
  /\ phase = "confirm"
  /\ chain.landed = step
  /\ phase' = IF step \in {1, 5} THEN "row" ELSE "sync"
  /\ UNCHANGED <<amt, strict, step, chain, indexed, wallet, inflight, captured,
                 rows, picked, fault, exit>>

\* Mutant: the catch of protocolBurn is missing.
ConfirmFailsUncaught ==
  /\ phase = "confirm"
  /\ fault' = TRUE
  /\ Fail
  /\ UNCHANGED <<amt, strict, chain, indexed, wallet, inflight, captured, rows,
                 picked>>

\* The watch fails: for the protocol burn one more finding, else the end.
ConfirmFails ==
  /\ phase = "confirm"
  /\ fault' = TRUE
  /\ IF step = 5
       THEN phase' = "row" /\ UNCHANGED <<step, exit>>
       ELSE Fail
  /\ UNCHANGED <<amt, strict, chain, indexed, wallet, inflight, captured, rows,
                 picked>>

\* Mutant: no wait at all.
CoinReadyAtOnce == TRUE

\* Mutant: the change is awaited in the sum of the spendable coins.
CoinReadyBySum ==
  LET sum == MapThenSumSet(LAMBDA c : c.value, wallet)
  IN  CASE step = 2 -> sum >= amt.M
        [] step = 3 -> sum = amt.M - amt.B
        [] step = 4 -> sum = amt.M - amt.B - amt.H

\* waitForShieldedToken after the mint, waitForChangeCoin after both burns.
CoinReady ==
  CASE step = 2 -> MapThenSumSet(LAMBDA c : c.value, wallet) >= amt.M
    [] step = 3 -> \E c \in wallet : c.value = amt.M - amt.B
    [] step = 4 -> \E c \in wallet : c.value = amt.M - amt.B - amt.H

Ready ==
  /\ phase = "sync"
  /\ CoinReady
  /\ phase' = "row"
  /\ UNCHANGED <<amt, strict, step, chain, indexed, wallet, inflight, captured,
                 rows, picked, fault, exit>>

\* Mutant: a wait without a deadline.
TimeoutNever == phase = "sync" /\ FALSE /\ UNCHANGED vars

\* The deadline passes.  It is the environment's doing if anything was left
\* for it to do.
Timeout ==
  /\ phase = "sync"
  /\ ~CoinReady
  /\ fault' = (fault \/ inflight # {} \/ wallet # chain.coins)
  /\ Fail
  /\ UNCHANGED <<amt, strict, chain, indexed, wallet, inflight, captured, rows,
                 picked>>

-----------------------------------------------------------------------------
(* Measuring                                                               *)

P == MapThenSumSet(LAMBDA c : c.value, picked)

MeasuredFold ==
  -MapThenSumSet(LAMBDA i : captured[i].delta, DOMAIN captured)

MeasuredDelta ==
  IF captured = <<>> THEN 0 ELSE captured[Len(captured)].delta

\* protocolLanded in main: some captured transaction bears the label.
LabelledProtocolBurn ==
  \E i \in DOMAIN captured : captured[i].kind = "protocol-burn"

Expected ==
  LET B == IF step >= 3 THEN amt.B ELSE 0
      H == IF step >= 4 THEN amt.H ELSE 0
      M == IF step >= 2 THEN amt.M ELSE 0
      protocol == step = 5 /\ LabelledProtocolBurn
  IN  [ delta |-> IF step = 2 THEN -M ELSE IF protocol THEN P ELSE 0,
        fold  |-> IF protocol THEN M - P ELSE M,
        total |-> M - B,
        circ  |-> M - B - H - (IF step = 5 THEN P ELSE 0) ]

\* readTotalSupplyStable: what the indexer answers last, or the 0n it starts
\* from when every read fails.
Readings ==
  {[total |-> 0, read |-> FALSE]}
    \cup {[total |-> indexed, read |-> TRUE] : i \in {indexed} \ {NoState}}

Checkpoint ==
  /\ phase = "row"
  /\ \E reading \in Readings :
       /\ rows' = Append(rows,
            [ step     |-> step,
              delta    |-> MeasuredDelta,
              fold     |-> MeasuredFold,
              total    |-> reading.total,
              read     |-> reading.read,
              expected |-> Expected,
              truth    |-> [ fold  |-> chain.fold,
                             total |-> chain.total,
                             circ  |-> Circulating(chain.coins) ] ])
       /\ fault' = (fault \/ ~reading.read \/ reading.total # chain.total)
  /\ IF step = 5
       THEN phase' = "finally" /\ UNCHANGED step
       ELSE phase' = "submit" /\ step' = step + 1
  /\ UNCHANGED <<amt, strict, chain, indexed, wallet, inflight, captured, picked,
                 exit>>

RowPass(row) ==
  /\ row.delta = row.expected.delta
  /\ row.fold = row.expected.fold
  /\ row.total = row.expected.total

HardFailure == \E i \in DOMAIN rows : rows[i].step < 5 /\ ~RowPass(rows[i])

\* Mutant: strict mode does not look at the rows.
FinallyLenient ==
  /\ phase = "finally"
  /\ phase' = "exited"
  /\ exit' = IF exit = "error" THEN "error" ELSE "ok"
  /\ UNCHANGED <<amt, strict, step, chain, indexed, wallet, inflight, captured,
                 rows, picked, fault>>

\* The finally block stops the wallet; only then does strict mode look at the
\* rows, and only if no exception is on its way.
Finally ==
  /\ phase = "finally"
  /\ phase' = "exited"
  /\ exit' = IF exit = "error" \/ (strict /\ HardFailure) THEN "error" ELSE "ok"
  /\ UNCHANGED <<amt, strict, step, chain, indexed, wallet, inflight, captured,
                 rows, picked, fault>>

Exited == phase = "exited" /\ UNCHANGED vars

Script ==
  \/ SubmitCall
  \/ SubmitHiddenBurn
  \/ InsufficientFunds
  \/ SubmitProtocolBurn
  \/ Confirm
  \/ Ready
  \/ Timeout
  \/ Checkpoint
  \/ Finally

Next == Script \/ ConfirmFails \/ Land \/ Lose \/ Sync \/ Index \/ Exited

\* The event loop resumes a script that can go on, and an accepted transaction
\* lands or, where Losable says so, is lost.
Fairness == WF_vars(Script) /\ WF_vars(Land \/ Lose)

Spec == Init /\ [][Next]_vars /\ Fairness

-----------------------------------------------------------------------------
(* Properties                                                              *)

Coins == [born : Steps, value : Nat, dead : BOOLEAN]

\* The types of the variables; at most one transaction is in flight.
TypeOK ==
  /\ amt \in Scenarios
  /\ strict \in BOOLEAN
  /\ step \in Steps
  /\ phase \in Phases
  /\ chain \in [ landed : 0 .. 5, total : Nat \cup {NoState}, fold : Nat,
                 coins : SUBSET Coins ]
  /\ indexed \in Nat \cup {NoState}
  /\ wallet \in SUBSET Coins
  /\ Cardinality(inflight) <= 1
  /\ Len(captured) <= 5
  /\ Len(rows) <= 5
  /\ picked \in SUBSET Coins
  /\ fault \in BOOLEAN
  /\ exit \in {"none", "ok", "error"}

Measured == {i \in DOMAIN rows : rows[i].step < 5}

\* A row before the protocol burn that says PASS tells the truth about the
\* chain, although it is computed from what was captured before submission and
\* from reads that may lag or fail.
PassingRowsAreTrue ==
  \A i \in Measured :
    RowPass(rows[i]) => /\ rows[i].fold = rows[i].truth.fold
                        /\ rows[i].total = rows[i].truth.total

\* "true circulating -- what is actually spendable, by construction of the run":
\* no step before the protocol burn is entered until the coins are as stated.
CirculationIsAsStated ==
  \A i \in Measured : rows[i].expected.circ = rows[i].truth.circ

\* README, HIDDEN_BURN_AMOUNT "must satisfy B + H <= M": within that bound, only
\* a failure of the environment ends the audit early or makes a strict run fail,
\* for each wait is for the coin the next step needs, and for no other.
OnlyFaultsAbort == exit = "error" => fault \/ amt.B + amt.H > amt.M

\* "never aborts the run": an exception never leaves the protocol burn.
ProtocolBurnNeverAborts == step = 5 /\ phase = "finally" => exit = "none"

\* A run without faults, of amounts within the bound, ends with five rows that pass, and with nothing left
\* to spend.
CleanRunPasses ==
  phase = "exited" /\ ~fault /\ amt.B + amt.H <= amt.M =>
    /\ Len(rows) = 5
    /\ \A i \in 1 .. 5 : RowPass(rows[i])
    /\ rows[5].truth.circ = 0

\* Strict mode exits 0 only after all four measured rows have passed.
StrictExitIsEarned ==
  strict /\ exit = "ok" => /\ Cardinality(Measured) = 4
                           /\ \A i \in Measured : RowPass(rows[i])

\* The audit always comes to an end and stops the wallet on its way out, even
\* if the one transaction nobody awaits, the hidden burn, is lost.
AlwaysExits == <>(phase = "exited")

\* verify-supply.ts:249: "in this scenario there is exactly one -- the change
\* from the hidden burn", so the coin the protocol burn picks is spendable.
ProtocolBurnPicksTheChange == \A c \in picked : ~c.dead

\* verify-supply.ts:597: the expectation of the last row is keyed "on whether
\* the tx actually reached the capture set".
ExpectationFollowsCapture ==
  \A i \in DOMAIN rows :
    rows[i].step = 5 =>
      (rows[i].expected.delta # 0 <=> \E j \in DOMAIN captured : captured[j].step = 5)

\* verify-supply.ts:165: readTotalSupplyStable "returns the last value read
\* either way", so a row never shows a value that was not read.
TotalsWereRead == \A i \in DOMAIN rows : rows[i].read
=============================================================================
