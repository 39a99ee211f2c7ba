--------------------------- MODULE DemoRun_proofs ---------------------------
(***************************************************************************)
(* The teardown and the exit code of DemoRun, for any number of probes,    *)
(* any crashes, losses and timeouts, and Ctrl-C at any moment.             *)
(***************************************************************************)
EXTENDS DemoRun, TLAPS

\* How far the script and the program can be apart.
Control ==
  /\ launch = "direct" <=> script = "none"
  /\ script \in {"up", "probe", "ports"} => phase = "idle"
  /\ script \in {"cleanup", "ended"} => phase \in {"idle", "exited", "killed"}
  /\ phase = "idle" => launch = "script"
  /\ phase = "killed" => interrupted
  /\ interrupted => phase = "killed" \/ script \in {"cleanup", "ended"}

\* Who still has to take the stack down, and what it finds.
Teardown ==
  /\ script = "up" => stack = Down
  /\ launch = "direct" /\ phase = "env" => stack = Down
  /\ script = "ended" => stack = Down \/ downFailed
  /\ launch = "direct" /\ phase \in {"exit", "exited"} => stack = Down \/ downFailed
  /\ phase \in {"idle", "shutdown", "exit", "exited", "killed"} =>
       wallet \in {"none", "stopped"}

\* The services the script has passed have been ready.
Readiness ==
  /\ \A s \in Range(Services) : stack[s] = "ready" => s \in wasReady
  /\ script = "up" => service = 1
  /\ script = "probe" => \A i \in 1 .. service - 1 : Services[i] \in wasReady
  /\ script \in {"ports", "run"} => wasReady = Range(Services)
  /\ launch = "script" /\ phase # "idle" => wasReady = Range(Services)

\* What main has behind it, and what its exit code means.
Progress ==
  /\ phase \in {"main", "confirm"} =>
       \A i \in 1 .. pc - 1 :
         StepsOf(program)[i].do = "call" => StepsOf(program)[i].tx \in applied
  /\ phase = "confirm" => Now.do = "call"
  /\ phase \in {"idle", "env", "build", "start", "funds"} => pc = 1
  /\ reported => Awaited \subseteq applied
  /\ phase \in {"stop", "shutdown", "exit", "exited"} /\ ~failed => reported
  /\ status = "ok" => reported /\ ~interrupted
  /\ launch = "direct" /\ status = "ok" => phase = "exited"
  /\ launch = "script" /\ status = "ok" => script \in {"cleanup", "ended"}

Inv == TypeOK /\ Control /\ Teardown /\ Readiness /\ Progress

-----------------------------------------------------------------------------
(* Data                                                                    *)

\* The three services.
LEMMA ServicesFact ==
  /\ Range(Services) = {"node", "indexer", "proof-server"}
  /\ Len(Services) = 3
  /\ \A i \in 1 .. 3 : Services[i] \in Range(Services)
  /\ \A s \in Range(Services) : \E i \in 1 .. 3 : s = Services[i]
<1>1. Services = <<"node", "indexer", "proof-server">>
  BY DEF Services
<1>2. Len(Services) = 3 /\ DOMAIN Services = 1 .. 3
  BY <1>1
<1>3. Range(Services) = {Services[i] : i \in 1 .. 3}
  BY <1>2 DEF Range
<1>4. Services[1] = "node" /\ Services[2] = "indexer" /\ Services[3] = "proof-server"
  BY <1>1
<1>. HIDE DEF Services
<1>. QED
  BY <1>2, <1>3, <1>4

\* Five steps each, the report last; what comes before it has been awaited.
LEMMA StepsFact ==
  ASSUME NEW prog \in Programs
  PROVE  /\ Len(StepsOf(prog)) = 5
         /\ \A i \in 1 .. 5 :
              /\ StepsOf(prog)[i].tx \in {"deploy", "mint", "burn", "none"}
              /\ StepsOf(prog)[i].do \in {"call", "transfer"} =>
                   StepsOf(prog)[i].tx \in {"deploy", "mint", "burn"}
              /\ StepsOf(prog)[i].do = "report" <=> i = 5
         /\ StepsOf(prog)[1].do = "call" /\ StepsOf(prog)[1].tx = "deploy"
         /\ StepsOf(prog)[2].do = "call" /\ StepsOf(prog)[2].tx = "mint"
         /\ prog # "hidden-burn" =>
              StepsOf(prog)[4].do = "call" /\ StepsOf(prog)[4].tx = "burn"
<1>1. CASE prog = "reproduce"
  BY <1>1 DEF StepsOf, ReproduceSteps, Call, Await, Report
<1>2. CASE prog = "hidden-burn"
  BY <1>2 DEF StepsOf, HiddenBurnSteps, Call, Transfer, Await, Report
<1>3. CASE prog = "no-supply-burn"
  BY <1>3 DEF StepsOf, NoSupplySteps, Call, Await, Report
<1>. QED
  BY <1>1, <1>2, <1>3 DEF Programs
-----------------------------------------------------------------------------
(* The steps                                                               *)

\* Boot preserves the invariant.
LEMMA BootSound == ASSUME Inv, Boot PROVE Inv'
<1>. USE ServicesFact DEF Inv, Boot, runVars, scriptVars, stackVars, progVars, chainVars
<1>1. TypeOK'
  BY StepsFact DEF TypeOK
<1>2. Control'
  BY DEF Control
<1>3. Teardown'
  BY DEF Control, Teardown, Down
<1>4. Readiness'
  BY DEF Control, TypeOK, Readiness
<1>5. Progress'
  BY StepsFact DEF Control, TypeOK, Progress, Awaited, Now
<1>. QED
  BY <1>1, <1>2, <1>3, <1>4, <1>5

\* Crash preserves the invariant.
LEMMA CrashSound == ASSUME Inv, Crash PROVE Inv'
<1>. USE ServicesFact DEF Inv, Crash, runVars, scriptVars, stackVars, progVars, chainVars
<1>1. TypeOK'
  BY StepsFact DEF TypeOK
<1>2. Control'
  BY DEF Control
<1>3. Teardown'
  BY DEF Control, Teardown, Down
<1>4. Readiness'
  BY DEF Control, TypeOK, Readiness
<1>5. Progress'
  BY StepsFact DEF Control, TypeOK, Progress, Awaited, Now
<1>. QED
  BY <1>1, <1>2, <1>3, <1>4, <1>5

\* Land preserves the invariant.
LEMMA LandSound == ASSUME Inv, Land PROVE Inv'
<1>. USE ServicesFact DEF Inv, Land, runVars, scriptVars, stackVars, progVars, chainVars
<1>1. TypeOK'
  BY StepsFact DEF TypeOK
<1>2. Control'
  BY DEF Control
<1>3. Teardown'
  BY DEF Control, Teardown
<1>4. Readiness'
  BY DEF Control, TypeOK, Readiness
<1>5. Progress'
  BY StepsFact DEF Control, TypeOK, Progress, Awaited, Now
<1>. QED
  BY <1>1, <1>2, <1>3, <1>4, <1>5

\* Lose preserves the invariant.
LEMMA LoseSound == ASSUME Inv, Lose PROVE Inv'
<1>. USE ServicesFact DEF Inv, Lose, runVars, scriptVars, stackVars, progVars, chainVars
<1>1. TypeOK'
  BY StepsFact DEF TypeOK
<1>2. Control'
  BY DEF Control
<1>3. Teardown'
  BY DEF Control, Teardown
<1>4. Readiness'
  BY DEF Control, TypeOK, Readiness
<1>5. Progress'
  BY StepsFact DEF Control, TypeOK, Progress, Awaited, Now
<1>. QED
  BY <1>1, <1>2, <1>3, <1>4, <1>5

\* Interrupt preserves the invariant.
LEMMA InterruptSound == ASSUME Inv, Interrupt PROVE Inv'
<1>. USE ServicesFact DEF Inv, Interrupt, runVars, scriptVars, stackVars, progVars, chainVars
<1>1. TypeOK'
  BY StepsFact DEF TypeOK
<1>2. Control'
  BY DEF Control
<1>3. Teardown'
  BY DEF Control, Teardown
<1>4. Readiness'
  BY DEF Control, TypeOK, Readiness
<1>5. Progress'
  BY StepsFact DEF Control, TypeOK, Progress, Awaited, Now
<1>. QED
  BY <1>1, <1>2, <1>3, <1>4, <1>5

\* Up preserves the invariant.
LEMMA UpSound == ASSUME Inv, Up PROVE Inv'
<1>. USE ServicesFact DEF Inv, Up, ScriptOnly, ScriptFails, Started, HalfStarted, Down, runVars, scriptVars, stackVars, progVars, chainVars
<1>1. TypeOK'
  BY StepsFact DEF TypeOK
<1>2. Control'
  BY DEF Control
<1>3. Teardown'
  BY DEF Control, Teardown
<1>4. Readiness'
  BY DEF Control, TypeOK, Readiness
<1>5. Progress'
  BY StepsFact DEF Control, TypeOK, Progress, Awaited, Now
<1>. QED
  BY <1>1, <1>2, <1>3, <1>4, <1>5

\* ProbeSucceeds preserves the invariant.
LEMMA ProbeSucceedsSound == ASSUME Inv, ProbeSucceeds PROVE Inv'
<1>. USE ServicesFact DEF Inv, ProbeSucceeds, ScriptOnly, Seen, runVars, scriptVars, stackVars, progVars, chainVars
<1>1. TypeOK'
<2>1. service' \in 1 .. Len(Services) /\ tries' \in 0 .. Tries - 1
  BY TriesAssumption DEF TypeOK
<2>. QED
  BY <2>1 DEF TypeOK
<1>2. Control'
  BY DEF Control
<1>3. Teardown'
  BY DEF Control, Teardown
<1>4. Readiness'
  BY DEF Control, TypeOK, Readiness
<1>5. Progress'
  BY StepsFact DEF Control, TypeOK, Progress, Awaited, Now
<1>. QED
  BY <1>1, <1>2, <1>3, <1>4, <1>5

\* ProbeAgain preserves the invariant.
LEMMA ProbeAgainSound == ASSUME Inv, ProbeAgain PROVE Inv'
<1>. USE ServicesFact DEF Inv, ProbeAgain, ScriptOnly, ScriptFails, runVars, scriptVars, stackVars, progVars, chainVars
<1>1. TypeOK'
<2>1. tries' \in 0 .. Tries - 1
  BY TriesAssumption DEF TypeOK
<2>. QED
  BY <2>1 DEF TypeOK
<1>2. Control'
  BY DEF Control
<1>3. Teardown'
  BY DEF Control, Teardown
<1>4. Readiness'
  BY DEF Control, TypeOK, Readiness
<1>5. Progress'
  BY StepsFact DEF Control, TypeOK, Progress, Awaited, Now
<1>. QED
  BY <1>1, <1>2, <1>3, <1>4, <1>5

\* ProbeFindsDead preserves the invariant.
LEMMA ProbeFindsDeadSound == ASSUME Inv, ProbeFindsDead PROVE Inv'
<1>. USE ServicesFact DEF Inv, ProbeFindsDead, ScriptOnly, ScriptFails, runVars, scriptVars, stackVars, progVars, chainVars
<1>1. TypeOK'
  BY StepsFact DEF TypeOK
<1>2. Control'
  BY DEF Control
<1>3. Teardown'
  BY DEF Control, Teardown
<1>4. Readiness'
  BY DEF Control, TypeOK, Readiness
<1>5. Progress'
  BY StepsFact DEF Control, TypeOK, Progress, Awaited, Now
<1>. QED
  BY <1>1, <1>2, <1>3, <1>4, <1>5

\* Ports preserves the invariant.
LEMMA PortsSound == ASSUME Inv, Ports PROVE Inv'
<1>. USE ServicesFact DEF Inv, Ports, ScriptFails, runVars, scriptVars, stackVars, progVars, chainVars
<1>1. TypeOK'
  BY StepsFact DEF TypeOK
<1>2. Control'
  BY DEF Control
<1>3. Teardown'
  BY DEF Control, Teardown
<1>4. Readiness'
  BY DEF Control, TypeOK, Readiness
<1>5. Progress'
  BY StepsFact DEF Control, TypeOK, Progress, Awaited, Now
<1>. QED
  BY <1>1, <1>2, <1>3, <1>4, <1>5

\* ProgramEnds preserves the invariant.
LEMMA ProgramEndsSound == ASSUME Inv, ProgramEnds PROVE Inv'
<1>. USE ServicesFact DEF Inv, ProgramEnds, ScriptOnly, runVars, scriptVars, stackVars, progVars, chainVars
<1>1. TypeOK'
  BY StepsFact DEF TypeOK
<1>2. Control'
  BY DEF Control
<1>3. Teardown'
  BY DEF Control, Teardown
<1>4. Readiness'
  BY DEF Control, TypeOK, Readiness
<1>5. Progress'
  BY StepsFact DEF Control, TypeOK, Progress, Awaited, Now
<1>. QED
  BY <1>1, <1>2, <1>3, <1>4, <1>5

\* Cleanup preserves the invariant.
LEMMA CleanupSound == ASSUME Inv, Cleanup PROVE Inv'
<1>. USE ServicesFact DEF Inv, Cleanup, TakeDown, Down, runVars, scriptVars, stackVars, progVars, chainVars
<1>1. TypeOK'
<2>1. stack' \in [Range(Services) -> {"absent", "booting", "ready", "dead"}]
  BY DEF TypeOK, Down
<2>. QED
  BY <2>1 DEF TypeOK
<1>2. Control'
  BY DEF Control
<1>3. Teardown'
  BY DEF Control, Teardown
<1>4. Readiness'
  BY DEF Control, TypeOK, Readiness
<1>5. Progress'
  BY StepsFact DEF Control, TypeOK, Progress, Awaited, Now
<1>. QED
  BY <1>1, <1>2, <1>3, <1>4, <1>5

\* Env preserves the invariant.
LEMMA EnvSound == ASSUME Inv, Env PROVE Inv'
<1>. USE ServicesFact DEF Inv, Env, ProgramOnly, Throw, HalfStarted, Down, runVars, scriptVars, stackVars, progVars, chainVars
<1>1. TypeOK'
<2>1. stack' \in [Range(Services) -> {"absent", "booting", "ready", "dead"}]
  BY DEF TypeOK, Down
<2>. QED
  BY <2>1 DEF TypeOK
<1>2. Control'
  BY DEF Control
<1>3. Teardown'
  BY DEF Control, Teardown
<1>4. Readiness'
  BY DEF Control, TypeOK, Readiness
<1>5. Progress'
  BY StepsFact DEF Control, TypeOK, Progress, Awaited, Now
<1>. QED
  BY <1>1, <1>2, <1>3, <1>4, <1>5

\* Build preserves the invariant.
LEMMA BuildSound == ASSUME Inv, Build PROVE Inv'
<1>. USE ServicesFact DEF Inv, Build, ProgramOnly, Throw, runVars, scriptVars, stackVars, progVars, chainVars
<1>1. TypeOK'
  BY StepsFact DEF TypeOK
<1>2. Control'
  BY DEF Control
<1>3. Teardown'
  BY DEF Control, Teardown
<1>4. Readiness'
  BY DEF Control, TypeOK, Readiness
<1>5. Progress'
  BY StepsFact DEF Control, TypeOK, Progress, Awaited, Now
<1>. QED
  BY <1>1, <1>2, <1>3, <1>4, <1>5

\* StartWallet preserves the invariant.
LEMMA StartWalletSound == ASSUME Inv, StartWallet PROVE Inv'
<1>. USE ServicesFact DEF Inv, StartWallet, ProgramOnly, Throw, runVars, scriptVars, stackVars, progVars, chainVars
<1>1. TypeOK'
  BY StepsFact DEF TypeOK
<1>2. Control'
  BY DEF Control
<1>3. Teardown'
  BY DEF Control, Teardown
<1>4. Readiness'
  BY DEF Control, TypeOK, Readiness
<1>5. Progress'
  BY StepsFact DEF Control, TypeOK, Progress, Awaited, Now
<1>. QED
  BY <1>1, <1>2, <1>3, <1>4, <1>5

\* Funds preserves the invariant.
LEMMA FundsSound == ASSUME Inv, Funds PROVE Inv'
<1>. USE ServicesFact DEF Inv, Funds, ProgramOnly, Throw, runVars, scriptVars, stackVars, progVars, chainVars
<1>1. TypeOK'
  BY StepsFact DEF TypeOK
<1>2. Control'
  BY DEF Control
<1>3. Teardown'
  BY DEF Control, Teardown
<1>4. Readiness'
  BY DEF Control, TypeOK, Readiness
<1>5. Progress'
  BY StepsFact DEF Control, TypeOK, Progress, Awaited, Now
<1>. QED
  BY <1>1, <1>2, <1>3, <1>4, <1>5

\* SubmitTx preserves the invariant.
LEMMA SubmitTxSound == ASSUME Inv, SubmitTx PROVE Inv'
<1>. USE ServicesFact DEF Inv, SubmitTx, ProgramOnly, Throw, Now, runVars, scriptVars, stackVars, progVars, chainVars
<1>1. TypeOK'
<2>1. pc \in 1 .. 5 /\ Len(StepsOf(program)) = 5 /\ program \in Programs
  BY StepsFact DEF TypeOK
<2>2. pc' \in 1 .. Len(StepsOf(program))
  BY <2>1, StepsFact
<2>3. Now.do \in {"call", "transfer"} => Now.tx \in {"deploy", "mint", "burn"}
  BY <2>1, StepsFact
<2>4. inflight' \subseteq {"deploy", "mint", "burn"}
<3>1. CASE UNCHANGED inflight
  BY <3>1 DEF TypeOK
<3>2. CASE Now.do \in {"call", "transfer"} /\ inflight' = inflight \cup {Now.tx}
  BY <3>2, <2>3 DEF TypeOK
<3>. QED
  BY <3>1, <3>2
<2>5. program' = program /\ launch' = launch
  OBVIOUS
<2>6. /\ phase' \in {"main", "confirm", "stop"}
      /\ failed' \in BOOLEAN
  BY DEF TypeOK
<2>. QED
  BY <2>2, <2>4, <2>5, <2>6 DEF TypeOK
<1>2. Control'
  BY DEF Control
<1>3. Teardown'
  BY DEF Control, Teardown
<1>4. Readiness'
  BY DEF Control, TypeOK, Readiness
<1>5. Progress'
  BY StepsFact DEF Control, TypeOK, Progress, Awaited, Now
<1>. QED
  BY <1>1, <1>2, <1>3, <1>4, <1>5

\* Confirm preserves the invariant.
LEMMA ConfirmSound == ASSUME Inv, Confirm PROVE Inv'
<1>. USE ServicesFact DEF Inv, Confirm, ProgramOnly, Now, runVars, scriptVars, stackVars, progVars, chainVars
<1>1. TypeOK'
<2>1. pc \in 1 .. 5 /\ Len(StepsOf(program)) = 5 /\ program \in Programs
  BY StepsFact DEF TypeOK
<2>2. pc' \in 1 .. Len(StepsOf(program))
  BY <2>1, StepsFact DEF Progress
<2>. QED
  BY <2>1, <2>2, StepsFact DEF TypeOK
<1>2. Control'
  BY DEF Control
<1>3. Teardown'
  BY DEF Control, Teardown
<1>4. Readiness'
  BY DEF Control, TypeOK, Readiness
<1>5. Progress'
  BY StepsFact DEF Control, TypeOK, Progress, Awaited, Now
<1>. QED
  BY <1>1, <1>2, <1>3, <1>4, <1>5

\* ConfirmFails preserves the invariant.
LEMMA ConfirmFailsSound == ASSUME Inv, ConfirmFails PROVE Inv'
<1>. USE ServicesFact DEF Inv, ConfirmFails, ProgramOnly, Throw, runVars, scriptVars, stackVars, progVars, chainVars
<1>1. TypeOK'
  BY StepsFact DEF TypeOK
<1>2. Control'
  BY DEF Control
<1>3. Teardown'
  BY DEF Control, Teardown
<1>4. Readiness'
  BY DEF Control, TypeOK, Readiness
<1>5. Progress'
  BY StepsFact DEF Control, TypeOK, Progress, Awaited, Now
<1>. QED
  BY <1>1, <1>2, <1>3, <1>4, <1>5

\* AwaitCoin preserves the invariant.
LEMMA AwaitCoinSound == ASSUME Inv, AwaitCoin PROVE Inv'
<1>. USE ServicesFact DEF Inv, AwaitCoin, ProgramOnly, Throw, Now, runVars, scriptVars, stackVars, progVars, chainVars
<1>1. TypeOK'
<2>1. pc \in 1 .. 5 /\ Len(StepsOf(program)) = 5 /\ program \in Programs
  BY StepsFact DEF TypeOK
<2>2. pc' \in 1 .. Len(StepsOf(program))
  BY <2>1, StepsFact
<2>. QED
  BY <2>1, <2>2, StepsFact DEF TypeOK
<1>2. Control'
  BY DEF Control
<1>3. Teardown'
  BY DEF Control, Teardown
<1>4. Readiness'
  BY DEF Control, TypeOK, Readiness
<1>5. Progress'
  BY StepsFact DEF Control, TypeOK, Progress, Awaited, Now
<1>. QED
  BY <1>1, <1>2, <1>3, <1>4, <1>5

\* WriteReport preserves the invariant.
LEMMA WriteReportSound == ASSUME Inv, WriteReport PROVE Inv'
<1>. USE ServicesFact DEF Inv, WriteReport, ProgramOnly, Throw, Now, runVars, scriptVars, stackVars, progVars, chainVars
<1>1. TypeOK'
  BY StepsFact DEF TypeOK
<1>2. Control'
  BY DEF Control
<1>3. Teardown'
  BY DEF Control, Teardown
<1>4. Readiness'
  BY DEF Control, TypeOK, Readiness
<1>5. Progress'
  BY StepsFact DEF Control, TypeOK, Progress, Awaited, Now
<1>. QED
  BY <1>1, <1>2, <1>3, <1>4, <1>5

\* Stop preserves the invariant.
LEMMA StopSound == ASSUME Inv, Stop PROVE Inv'
<1>. USE ServicesFact DEF Inv, Stop, ProgramOnly, runVars, scriptVars, stackVars, progVars, chainVars
<1>1. TypeOK'
  BY StepsFact DEF TypeOK
<1>2. Control'
  BY DEF Control
<1>3. Teardown'
  BY DEF Control, Teardown
<1>4. Readiness'
  BY DEF Control, TypeOK, Readiness
<1>5. Progress'
  BY StepsFact DEF Control, TypeOK, Progress, Awaited, Now
<1>. QED
  BY <1>1, <1>2, <1>3, <1>4, <1>5

\* Shutdown preserves the invariant.
LEMMA ShutdownSound == ASSUME Inv, Shutdown PROVE Inv'
<1>. USE ServicesFact DEF Inv, Shutdown, TakeDown, Down, runVars, scriptVars, stackVars, progVars, chainVars
<1>1. TypeOK'
<2>1. stack' \in [Range(Services) -> {"absent", "booting", "ready", "dead"}]
  BY DEF TypeOK, Down
<2>. QED
  BY <2>1 DEF TypeOK
<1>2. Control'
  BY DEF Control
<1>3. Teardown'
  BY DEF Control, Teardown
<1>4. Readiness'
  BY DEF Control, TypeOK, Readiness
<1>5. Progress'
  BY StepsFact DEF Control, TypeOK, Progress, Awaited, Now
<1>. QED
  BY <1>1, <1>2, <1>3, <1>4, <1>5

\* Exit preserves the invariant.
LEMMA ExitSound == ASSUME Inv, Exit PROVE Inv'
<1>. USE ServicesFact DEF Inv, Exit, ProgramOnly, runVars, scriptVars, stackVars, progVars, chainVars
<1>1. TypeOK'
  BY StepsFact DEF TypeOK
<1>2. Control'
  BY DEF Control
<1>3. Teardown'
  BY DEF Control, Teardown
<1>4. Readiness'
  BY DEF Control, TypeOK, Readiness
<1>5. Progress'
  BY StepsFact DEF Control, TypeOK, Progress, Awaited, Now
<1>. QED
  BY <1>1, <1>2, <1>3, <1>4, <1>5

\* The initial states satisfy the invariant.
LEMMA InitSound == Init => Inv
<1>. SUFFICES ASSUME Init PROVE Inv
  OBVIOUS
<1>. USE ServicesFact DEF Init, Down
<1>1. TypeOK
<2>1. pc \in 1 .. Len(StepsOf(program))
  BY StepsFact
<2>2. stack \in [Range(Services) -> {"absent", "booting", "ready", "dead"}]
  OBVIOUS
<2>3. program \in Programs /\ launch \in Launches(program)
  OBVIOUS
<2>4. launch \in {"direct", "script"}
  BY <2>3 DEF Launches
<2>5. service \in 1 .. Len(Services) /\ tries \in 0 .. Tries - 1
  BY TriesAssumption
<2>6. /\ script \in {"none", "up"}
      /\ phase \in {"idle", "env"}
  BY <2>4
<2>. QED
  BY <2>1, <2>2, <2>3, <2>5, <2>6 DEF TypeOK
<1>2. Control
  BY DEF Control, Launches
<1>3. Teardown
  BY DEF Teardown, Launches
<1>4. Readiness
  BY DEF Readiness, Launches
<1>5. Progress
  BY DEF Progress, Launches
<1>. QED
  BY <1>1, <1>2, <1>3, <1>4, <1>5 DEF Inv

\* Every step preserves it.
LEMMA NextSound == Inv /\ [Next]_vars => Inv'
<1>. SUFFICES ASSUME Inv, [Next]_vars PROVE Inv'
  OBVIOUS
<1>1. CASE ScriptStep
  BY <1>1, UpSound, ProbeSucceedsSound, ProbeAgainSound, ProbeFindsDeadSound,
     PortsSound, ProgramEndsSound, CleanupSound DEF ScriptStep
<1>2. CASE ProgramStep
  BY <1>2, EnvSound, BuildSound, StartWalletSound, FundsSound, SubmitTxSound,
     ConfirmSound, AwaitCoinSound, WriteReportSound, StopSound, ShutdownSound,
     ExitSound DEF ProgramStep
<1>3. CASE ConfirmFails \/ Boot \/ Crash \/ Land \/ Lose \/ Interrupt
  BY <1>3, ConfirmFailsSound, BootSound, CrashSound, LandSound, LoseSound,
     InterruptSound
<1>4. CASE UNCHANGED vars
<2>. USE <1>4 DEF vars, runVars, scriptVars, stackVars, progVars, chainVars, Inv
<2>1. TypeOK'
  BY DEF TypeOK
<2>2. Control'
  BY DEF Control
<2>3. Teardown'
  BY DEF Teardown
<2>4. Readiness'
  BY DEF Readiness
<2>5. Progress'
  BY DEF Progress, Now, Awaited
<2>. QED
  BY <2>1, <2>2, <2>3, <2>4, <2>5
<1>. QED
  BY <1>1, <1>2, <1>3, <1>4 DEF Next

-----------------------------------------------------------------------------
(* The theorems                                                            *)

\* The invariant holds in every reachable state of a command.
THEOREM DemoInvariance == Spec => []Inv
<1>. QED
  BY InitSound, NextSound, PTL DEF Spec

\* The wait loops of the scripts stay below their bound, and every phase, step
\* and status is one the programs have.
THEOREM DemoTypeCorrect == Spec => []TypeOK
<1>1. Inv => TypeOK
  BY DEF Inv
<1>. QED
  BY <1>1, DemoInvariance, PTL

\* However a command ends, the traps and the finally blocks have taken its stack
\* down, or have tried.
THEOREM NothingIsLeftRunning == Spec => []StackIsTornDown
<1>1. Inv => StackIsTornDown
  BY DEF Inv, TypeOK, Launches, Control, Teardown, StackIsTornDown, Over
<1>. QED
  BY <1>1, DemoInvariance, PTL

\* Exit code 0 is only given with a report, and a report only with every awaited
\* transaction in the chain.
THEOREM SuccessIsEarned == Spec => []ExitZeroIsEarned
<1>1. Inv => ExitZeroIsEarned
  BY DEF Inv, Progress, ExitZeroIsEarned
<1>. QED
  BY <1>1, DemoInvariance, PTL

\* A program under a script finds services that have all been ready.
THEOREM StackIsReady == Spec => []ProgramFindsTheStackReady
<1>1. Inv => ProgramFindsTheStackReady
  BY DEF Inv, Readiness, ProgramFindsTheStackReady
<1>. QED
  BY <1>1, DemoInvariance, PTL

\* A container is only taken from a step that has no wallet on it.
LEMMA WalletGuard ==
  ASSUME Inv, [Next]_vars, NEW s \in Range(Services),
         stack[s] # "absent", stack'[s] = "absent"
  PROVE  wallet \in {"none", "stopped"}
<1>. USE ServicesFact DEF Inv, TypeOK, runVars, scriptVars, stackVars, progVars,
         chainVars
<1>1. stack # Down
  BY DEF Down
<1>2. CASE Cleanup
  BY <1>2 DEF Cleanup, Control, Teardown
<1>3. CASE Shutdown
  BY <1>3 DEF Shutdown, Teardown
<1>4. CASE Up
  BY <1>1, <1>4 DEF Up, Teardown
<1>5. CASE Env
  BY <1>1, <1>5 DEF Env, Teardown, Launches
<1>6. CASE Boot \/ Crash
  BY <1>6 DEF Boot, Crash
<1>7. CASE UNCHANGED stack
  BY <1>7
<1>8. CASE ScriptStep /\ ~Up /\ ~Cleanup
<2>1. UNCHANGED stack
  BY <1>8 DEF ScriptStep, ProbeSucceeds, ProbeAgain, ProbeFindsDead, Ports, ProgramEnds
<2>. QED
  BY <2>1
<1>9. CASE ProgramStep /\ ~Env /\ ~Shutdown
<2>1. UNCHANGED stack
  BY <1>9 DEF ProgramStep, Build, StartWallet, Funds, SubmitTx, Confirm, AwaitCoin,
     WriteReport, Stop, Exit
<2>. QED
  BY <2>1
<1>10. CASE ConfirmFails \/ Land \/ Lose \/ Interrupt \/ UNCHANGED vars
<2>1. UNCHANGED stack
  BY <1>10 DEF ConfirmFails, Land, Lose, Interrupt, vars
<2>. QED
  BY <2>1
<1>. QED
  BY <1>2, <1>3, <1>4, <1>5, <1>6, <1>8, <1>9, <1>10 DEF Next

\* No step of any run takes a container away from a running wallet.
THEOREM WalletFirst == Spec => WalletStopsFirst
<1>1. Inv /\ [Next]_vars =>
        [ \A s \in Range(Services) :
            stack[s] # "absent" /\ stack'[s] = "absent" =>
              wallet \in {"none", "stopped"} ]_vars
  BY WalletGuard
<1>. QED
  BY <1>1, DemoInvariance, PTL DEF Spec, WalletStopsFirst
=============================================================================
