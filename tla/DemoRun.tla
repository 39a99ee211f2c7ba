------------------------------ MODULE DemoRun ------------------------------
(***************************************************************************)
(* One run of a demonstration from the command line to its exit code: the  *)
(* programs src/reproduce.ts, src/hidden-burn.ts and src/no-supply-burn.ts,*)
(* the stack of compose.yml they run against, and the scripts/run-*.sh     *)
(* that bring the stack up, wait for it, start the program and take the    *)
(* stack down again.                                                       *)
(*                                                                         *)
(* A program is started by its script, on a stack whose ports are injected *)
(* (HB_*_PORT), or directly, and then asks testkit for a stack of its own. *)
(* Everything it awaits can fail: services crash, waits run out of time, a *)
(* transaction is lost, and somebody may press Ctrl-C at any moment.       *)
(***************************************************************************)
EXTENDS Integers, Sequences, Functions

CONSTANT Tries  \* probes of one wait loop: 30 or 60 in the scripts

ASSUME TriesAssumption == Tries \in Nat \ {0}

VARIABLES
  program,   \* which demonstration
  launch,    \* "script" or "direct"
  script,    \* phase of the shell script
  service,   \* the service it waits for, as an index of Services
  tries,     \* probes made of it
  stack,     \* the containers
  wasReady,  \* history: services that have been ready (it is in their log)
  phase,     \* phase of the program
  pc,        \* the step of its main, when phase is "main" or "confirm"
  wallet,    \* "none", "built", "running" or "stopped"
  failed,    \* an exception has left the program's try block
  inflight,  \* transactions submitted and neither applied nor lost
  applied,   \* transactions in the chain
  reported,  \* the report and the decodes are written
  status,    \* exit code of the command: "none", "ok" or "error"
  downFailed,\* history: taking the stack down has failed, unnoticed
  interrupted

progVars == <<phase, pc, wallet, failed, reported>>

chainVars == <<inflight, applied>>

stackVars == <<stack, wasReady>>

scriptVars == <<script, service, tries>>

runVars == <<program, launch>>

vars == <<runVars, scriptVars, stackVars, progVars, chainVars, status, downFailed,
          interrupted>>

Services == <<"node", "indexer", "proof-server">>

Down == [s \in Range(Services) |-> "absent"]

-----------------------------------------------------------------------------
(* What each main does between waitForUnshieldedFunds and its finally block *)

Call(tx) == [do |-> "call", tx |-> tx]          \* callTx: submit and await

Transfer(tx) == [do |-> "transfer", tx |-> tx]  \* submitTransaction only

Await(tx) == [do |-> "await", tx |-> tx]        \* waitForShieldedToken

Report == [do |-> "report", tx |-> "none"]

ReproduceSteps ==
  <<Call("deploy"), Call("mint"), Await("mint"), Call("burn"), Report>>

HiddenBurnSteps ==
  <<Call("deploy"), Call("mint"), Await("mint"), Transfer("burn"), Report>>

NoSupplySteps ==
  <<Call("deploy"), Call("mint"), Await("mint"), Call("burn"), Report>>

StepsOf(prog) ==
  CASE prog = "reproduce"      -> ReproduceSteps
    [] prog = "hidden-burn"    -> HiddenBurnSteps
    [] prog = "no-supply-burn" -> NoSupplySteps

Programs == {"reproduce", "hidden-burn", "no-supply-burn"}

Now == StepsOf(program)[pc]

\* reproduce has no branch for injected ports, and no script.
Launches(prog) == IF prog = "reproduce" THEN {"direct"} ELSE {"direct", "script"}

Init ==
  /\ program \in Programs
  /\ launch \in Launches(program)
  /\ script = IF launch = "script" THEN "up" ELSE "none"
  /\ service = 1
  /\ tries = 0
  /\ stack = Down
  /\ wasReady = {}
  /\ phase = IF launch = "script" THEN "idle" ELSE "env"
  /\ pc = 1
  /\ wallet = "none"
  /\ failed = FALSE
  /\ inflight = {}
  /\ applied = {}
  /\ reported = FALSE
  /\ status = "none"
  /\ downFailed = FALSE
  /\ interrupted = FALSE

-----------------------------------------------------------------------------
(* The containers                                                          *)

\* compose up with depends_on: node is healthy before the indexer is started.
Started == [Down EXCEPT !["node"] = "ready", !["indexer"] = "booting",
                        !["proof-server"] = "booting"]

\* What a failed start may leave behind.
HalfStarted == [Range(Services) -> {"absent", "booting", "dead"}]

Boot ==
  \E s \in Range(Services) :
    /\ stack[s] = "booting"
    /\ stack' = [stack EXCEPT ![s] = "ready"]
    /\ wasReady' = wasReady \cup {s}
    /\ UNCHANGED <<runVars, scriptVars, progVars, chainVars, status, downFailed,
                   interrupted>>

Crash ==
  \E s \in Range(Services) :
    /\ stack[s] \in {"booting", "ready"}
    /\ stack' = [stack EXCEPT ![s] = "dead"]
    /\ UNCHANGED <<runVars, scriptVars, wasReady, progVars, chainVars, status,
                   downFailed, interrupted>>

\* Taking it down: everything goes, what was in flight with it, or the attempt
\* fails and the failure is swallowed.
TakeDown ==
  \/ stack' = Down /\ inflight' = {} /\ UNCHANGED <<wasReady, applied, downFailed>>
  \/ downFailed' = TRUE /\ UNCHANGED <<stackVars, chainVars>>

Land ==
  \E tx \in inflight :
    /\ stack["node"] = "ready"
    /\ inflight' = inflight \ {tx}
    /\ applied' = applied \cup {tx}
    /\ UNCHANGED <<runVars, scriptVars, stackVars, progVars, status, downFailed,
                   interrupted>>

Lose ==
  \E tx \in inflight :
    /\ inflight' = inflight \ {tx}
    /\ UNCHANGED <<runVars, scriptVars, stackVars, progVars, applied, status,
                   downFailed, interrupted>>

-----------------------------------------------------------------------------
(* The script: set -e, and cleanup on EXIT                                 *)

ScriptOnly == UNCHANGED <<runVars, progVars, chainVars, downFailed, interrupted>>

\* A command fails: set -e ends the script, and the trap runs.
ScriptFails ==
  /\ script' = "cleanup"
  /\ status' = "error"
  /\ UNCHANGED <<service, tries>>

Up ==
  /\ script = "up"
  /\ ScriptOnly
  /\ \/ /\ stack' = Started
        /\ wasReady' = {"node"}
        /\ script' = "probe"
        /\ UNCHANGED <<service, tries, status>>
     \/ /\ stack' \in HalfStarted
        /\ UNCHANGED wasReady
        /\ ScriptFails

\* Node and indexer are asked for their health, the proof server for its log:
\* a log survives its container.
Seen(s) == IF s = "proof-server" THEN s \in wasReady ELSE stack[s] = "ready"

\* The service is there: on to the next one, or to the ports.
ProbeSucceeds ==
  /\ script = "probe"
  /\ Seen(Services[service])
  /\ tries' = 0
  /\ IF service = Len(Services)
       THEN script' = "ports" /\ UNCHANGED service
       ELSE service' = service + 1 /\ UNCHANGED script
  /\ ScriptOnly
  /\ UNCHANGED <<stackVars, status>>

\* Under pipefail a match of grep -q can be missed, when docker logs is still
\* writing into the pipe that grep has closed.
Missed(s) == s = "proof-server"

\* wait_healthy asks for State.Health.Status where there is a health check, and a
\* container that has exited is unhealthy there: only wait_log sees it exited.
FoundDead(s) == s = "proof-server" /\ stack[s] = "dead"

\* Mutant: the loop runs out and the function returns the status of its last
\* command.
ProbeAgainWithoutReturn ==
  /\ script = "probe"
  /\ ~Seen(Services[service]) \/ Missed(Services[service])
  /\ ~FoundDead(Services[service])
  /\ IF tries + 1 < Tries
       THEN tries' = tries + 1 /\ UNCHANGED <<script, service>>
       ELSE /\ tries' = 0
            /\ IF service = Len(Services)
                 THEN script' = "ports" /\ UNCHANGED service
                 ELSE service' = service + 1 /\ UNCHANGED script
  /\ ScriptOnly
  /\ UNCHANGED <<stackVars, status>>

\* Mutant: nobody counts.
ProbeAgainForever ==
  /\ script = "probe"
  /\ ~Seen(Services[service]) \/ Missed(Services[service])
  /\ ~FoundDead(Services[service])
  /\ tries' = tries + 1
  /\ UNCHANGED <<script, service, status>>
  /\ ScriptOnly
  /\ UNCHANGED stackVars

\* Not there yet: sleep and ask again, until the tries are used up.
ProbeAgain ==
  /\ script = "probe"
  /\ ~Seen(Services[service]) \/ Missed(Services[service])
  /\ ~FoundDead(Services[service])
  /\ IF tries + 1 < Tries
       THEN tries' = tries + 1 /\ UNCHANGED <<script, service, status>>
       ELSE ScriptFails
  /\ ScriptOnly
  /\ UNCHANGED stackVars

\* The proof server has exited: return 1.
ProbeFindsDead ==
  /\ script = "probe"
  /\ ~Seen(Services[service]) \/ Missed(Services[service])
  /\ FoundDead(Services[service])
  /\ ScriptFails
  /\ ScriptOnly
  /\ UNCHANGED stackVars

\* docker compose port finds the ports of running containers, ready or not; then
\* pnpm.
Ports ==
  /\ script = "ports"
  /\ IF \A s \in Range(Services) : stack[s] \in {"booting", "ready"}
       THEN script' = "run" /\ phase' = "env" /\ UNCHANGED <<service, tries, status>>
       ELSE ScriptFails /\ UNCHANGED phase
  /\ UNCHANGED <<runVars, stackVars, pc, wallet, failed, reported, chainVars,
                 downFailed, interrupted>>

\* The status of pnpm is the script's, through the trap.
ProgramEnds ==
  /\ script = "run"
  /\ phase = "exited"
  /\ script' = "cleanup"
  /\ status' = IF failed THEN "error" ELSE "ok"
  /\ UNCHANGED <<service, tries, stackVars>>
  /\ ScriptOnly

\* Mutant: the trap is set after the waits.
CleanupAfterRunOnly ==
  /\ script = "cleanup"
  /\ IF phase = "idle"
       THEN UNCHANGED <<stackVars, chainVars, downFailed>>
       ELSE TakeDown
  /\ script' = "ended"
  /\ UNCHANGED <<runVars, service, tries, progVars, status, interrupted>>

\* docker compose down -v || true
Cleanup ==
  /\ script = "cleanup"
  /\ TakeDown
  /\ script' = "ended"
  /\ UNCHANGED <<runVars, service, tries, progVars, status, interrupted>>

-----------------------------------------------------------------------------
(* The program                                                             *)

ProgramOnly == UNCHANGED <<runVars, scriptVars, downFailed, interrupted>>

Throw == phase' = "stop" /\ failed' = TRUE

\* Injected ports name a stack that is up; testkit starts one of its own.
Env ==
  /\ phase = "env"
  /\ IF launch = "script"
       THEN phase' = "build" /\ UNCHANGED <<stackVars, failed>>
       ELSE \/ /\ phase' = "build"
               /\ stack' = [s \in Range(Services) |-> "ready"]
               /\ wasReady' = Range(Services)
               /\ UNCHANGED failed
            \/ Throw /\ stack' \in HalfStarted /\ UNCHANGED wasReady
  /\ ProgramOnly
  /\ UNCHANGED <<pc, wallet, reported, chainVars, status>>

\* MidnightWalletProvider.build: on success the wallet is one to stop.
Build ==
  /\ phase = "build"
  /\ \/ phase' = "start" /\ wallet' = "built" /\ UNCHANGED failed
     \/ Throw /\ UNCHANGED wallet
  /\ ProgramOnly
  /\ UNCHANGED <<stackVars, pc, reported, chainVars, status>>

\* wallet.start may fail when it has started in part.
StartWallet ==
  /\ phase = "start"
  /\ wallet' = "running"
  /\ \/ phase' = "funds" /\ UNCHANGED failed
     \/ Throw
  /\ ProgramOnly
  /\ UNCHANGED <<stackVars, pc, reported, chainVars, status>>

\* waitForUnshieldedFunds: a synced wallet, or the deadline.
Funds ==
  /\ phase = "funds"
  /\ \/ stack["indexer"] = "ready" /\ phase' = "main" /\ UNCHANGED failed
     \/ Throw
  /\ ProgramOnly
  /\ UNCHANGED <<stackVars, pc, wallet, reported, chainVars, status>>

\* A transaction is proved, balanced and accepted, or the call throws.
SubmitTx ==
  /\ phase = "main"
  /\ Now.do \in {"call", "transfer"}
  /\ \/ /\ stack["node"] = "ready" /\ stack["proof-server"] = "ready"
        /\ inflight' = inflight \cup {Now.tx}
        /\ IF Now.do = "call"
             THEN phase' = "confirm" /\ UNCHANGED pc
             ELSE pc' = pc + 1 /\ UNCHANGED phase
        /\ UNCHANGED failed
     \/ Throw /\ UNCHANGED <<inflight, pc>>
  /\ ProgramOnly
  /\ UNCHANGED <<stackVars, wallet, reported, applied, status>>

\* callTx resolves with the data of the transaction, which the indexer has.
\* There is no deadline.
Confirm ==
  /\ phase = "confirm"
  /\ Now.tx \in applied
  /\ stack["indexer"] = "ready"
  /\ phase' = "main" /\ pc' = pc + 1 /\ UNCHANGED failed
  /\ ProgramOnly
  /\ UNCHANGED <<stackVars, wallet, reported, chainVars, status>>

\* The transaction failed in its block, or the watch did.
ConfirmFails ==
  /\ phase = "confirm"
  /\ Throw
  /\ ProgramOnly
  /\ UNCHANGED <<stackVars, pc, wallet, reported, chainVars, status>>

\* Mutant: no deadline.
AwaitCoinForever ==
  /\ phase = "main"
  /\ Now.do = "await"
  /\ Now.tx \in applied /\ stack["indexer"] = "ready"
  /\ pc' = pc + 1 /\ UNCHANGED <<phase, failed>>
  /\ ProgramOnly
  /\ UNCHANGED <<stackVars, wallet, reported, chainVars, status>>

\* waitForShieldedToken: the coin has synced, or 180 seconds have passed.
AwaitCoin ==
  /\ phase = "main"
  /\ Now.do = "await"
  /\ \/ /\ Now.tx \in applied /\ stack["indexer"] = "ready"
        /\ pc' = pc + 1 /\ UNCHANGED <<phase, failed>>
     \/ Throw /\ UNCHANGED pc
  /\ ProgramOnly
  /\ UNCHANGED <<stackVars, wallet, reported, chainVars, status>>

\* Decode what was captured, write the files, and leave the try block.
WriteReport ==
  /\ phase = "main"
  /\ Now.do = "report"
  /\ \/ reported' = TRUE /\ phase' = "stop" /\ UNCHANGED failed
     \/ Throw /\ UNCHANGED reported
  /\ ProgramOnly
  /\ UNCHANGED <<stackVars, pc, wallet, chainVars, status>>

\* Mutant: the environment first.
StopSkipped ==
  /\ phase = "stop"
  /\ phase' = "shutdown"
  /\ ProgramOnly
  /\ UNCHANGED <<stackVars, pc, wallet, failed, reported, chainVars, status>>

\* finally: every wallet that was built is stopped; an error is only logged, and
\* the wallet is given up.
Stop ==
  /\ phase = "stop"
  /\ phase' = "shutdown"
  /\ wallet' = IF wallet = "none" THEN "none" ELSE "stopped"
  /\ ProgramOnly
  /\ UNCHANGED <<stackVars, pc, failed, reported, chainVars, status>>

\* A stack of one's own is shut down; one that was injected is the script's.
Shutdown ==
  /\ phase = "shutdown"
  /\ IF launch = "direct"
       THEN TakeDown
       ELSE UNCHANGED <<stackVars, chainVars, downFailed>>
  /\ phase' = "exit"
  /\ UNCHANGED <<runVars, scriptVars, pc, wallet, failed, reported, status,
                 interrupted>>

\* Mutant: the exception is logged and not thrown again.
ExitWithZero ==
  /\ phase = "exit"
  /\ phase' = "exited"
  /\ failed' = FALSE
  /\ status' = IF launch = "direct" THEN "ok" ELSE status
  /\ ProgramOnly
  /\ UNCHANGED <<stackVars, pc, wallet, reported, chainVars>>

\* process.exit(0) or process.exit(1)
Exit ==
  /\ phase = "exit"
  /\ phase' = "exited"
  /\ status' = IF launch = "script" THEN status
               ELSE IF failed THEN "error" ELSE "ok"
  /\ ProgramOnly
  /\ UNCHANGED <<stackVars, pc, wallet, failed, reported, chainVars>>

\* Ctrl-C reaches every process of the command.  The program has no handler and
\* dies on the spot; the script's trap runs.
Interrupt ==
  /\ IF launch = "script"
       THEN /\ script \notin {"cleanup", "ended"}
            /\ script' = "cleanup"
       ELSE phase \notin {"exited", "killed"} /\ UNCHANGED script
  /\ phase' = IF phase \in {"idle", "exited"} THEN phase ELSE "killed"
  /\ wallet' = "none"
  /\ status' = "error"
  /\ interrupted' = TRUE
  /\ UNCHANGED <<runVars, service, tries, stackVars, pc, failed, reported, chainVars,
                 downFailed>>

ScriptStep ==
  \/ Up
  \/ ProbeSucceeds
  \/ ProbeAgain
  \/ ProbeFindsDead
  \/ Ports
  \/ ProgramEnds
  \/ Cleanup

ProgramStep ==
  \/ Env
  \/ Build
  \/ StartWallet
  \/ Funds
  \/ SubmitTx
  \/ Confirm
  \/ AwaitCoin
  \/ WriteReport
  \/ Stop
  \/ Shutdown
  \/ Exit

Next ==
  \/ ScriptStep
  \/ ProgramStep
  \/ ConfirmFails
  \/ Boot
  \/ Crash
  \/ Land
  \/ Lose
  \/ Interrupt

\* Shell and event loop go on when they can, and a transaction that was accepted
\* lands or is dropped when its time to live has passed.
Fairness == WF_vars(ScriptStep) /\ WF_vars(ProgramStep) /\ WF_vars(Land \/ Lose)

Spec == Init /\ [][Next]_vars

FairSpec == Spec /\ Fairness

-----------------------------------------------------------------------------
(* Types                                                                   *)

\* The types of the variables; tries stays below the bound of its loop.
TypeOK ==
  /\ program \in Programs
  /\ launch \in Launches(program)
  /\ script \in {"none", "up", "probe", "ports", "run", "cleanup", "ended"}
  /\ service \in 1 .. Len(Services)
  /\ tries \in 0 .. Tries - 1
  /\ stack \in [Range(Services) -> {"absent", "booting", "ready", "dead"}]
  /\ wasReady \subseteq Range(Services)
  /\ phase \in {"idle", "env", "build", "start", "funds", "main", "confirm", "stop",
                "shutdown", "exit", "exited", "killed"}
  /\ pc \in 1 .. Len(StepsOf(program))
  /\ wallet \in {"none", "built", "running", "stopped"}
  /\ {failed, reported, downFailed, interrupted} \subseteq BOOLEAN
  /\ inflight \subseteq {"deploy", "mint", "burn"}
  /\ applied \subseteq {"deploy", "mint", "burn"}
  /\ status \in {"none", "ok", "error"}

-----------------------------------------------------------------------------
(* Safety                                                                  *)

Over ==
  IF launch = "script" THEN script = "ended" ELSE phase \in {"exited", "killed"}

\* No container outlives the command, wherever it failed: in the middle of
\* bringing the stack up, waiting for it, in any step of the program, or by
\* Ctrl-C under a script.  Only a failing docker compose down leaves containers,
\* and Ctrl-C in a program started directly, which has no trap.
StackIsTornDown ==
  Over => \/ stack = Down
          \/ downFailed
          \/ launch = "direct" /\ interrupted

\* A wallet that syncs from a stack is stopped before the stack is taken away.
WalletStopsFirst ==
  [][ \A s \in Range(Services) :
        stack[s] # "absent" /\ stack'[s] = "absent" =>
          wallet \in {"none", "stopped"} ]_vars

\* What the program has awaited before it reports.
Awaited == IF program = "hidden-burn" THEN {"deploy", "mint"}
           ELSE {"deploy", "mint", "burn"}

\* Exit code 0 means that the report has been written, and a report that every
\* transaction in it is in the chain, except the transfer of hidden-burn, which
\* is submitted and not awaited: its report may show a burn that never happens.
ExitZeroIsEarned ==
  /\ status = "ok" => reported /\ ~interrupted
  /\ reported => Awaited \subseteq applied

\* Under a script no program starts before every service has been ready at some
\* time.  One of them may be dead again: that such a run still ends, and not with
\* 0, is EndsOrWatchesInVain and ExitZeroIsEarned.
ProgramFindsTheStackReady ==
  launch = "script" /\ phase # "idle" => wasReady = Range(Services)

-----------------------------------------------------------------------------
(* Liveness                                                                *)

\* Nothing can resolve the watch of callTx any more.
WatchIsDead ==
  /\ phase = "confirm"
  /\ Now.tx \notin applied \cup inflight \/ stack["indexer"] # "ready"

\* Every command ends, with its stack down, however its waits turn out, unless it
\* awaits for ever the data of a transaction that was lost or whose indexer died.
EndsOrWatchesInVain == <>Over \/ <>[]WatchIsDead
=============================================================================
