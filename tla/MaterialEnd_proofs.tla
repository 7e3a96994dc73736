-------------------------- MODULE MaterialEnd_proofs --------------------------
(***************************************************************************)
(* Theorems about how a run of MaterialRun goes and ends: that it stays as *)
(* it ended, that an event takes effect once, that the final report is of  *)
(* a run that is over, that an autonomous run is over when its process     *)
(* returns, that no job is submitted twice, that what is listed as done    *)
(* was run, that a completed run has validated results, and that what is   *)
(* executed is legal.  A theorem that holds under conditions only says so  *)
(* in its ASSUME; the conditions are on the instance's constants.          *)
(***************************************************************************)
EXTENDS MaterialRun_proofs

\* What keeps a run that is over from being changed: an event in the inbox is
\* alone, new, and of a run that goes on, and no council consumes one; an action
\* is executed, or a wait recovered from, in a run that goes on.
OverInv ==
    /\ inbox # <<>> => /\ pc = "loop" /\ Events # {}
                       /\ Tail(inbox) = <<>>
                       /\ Head(inbox).id \notin consumed
                       /\ runStatus \notin TerminalRunStatuses
    /\ pc # "council"
    /\ pc = "execute" => runStatus \notin TerminalRunStatuses
    /\ pc = "recover" => runStatus = "waiting_external"

\* Where every process returns, an event waits in the inbox only until the loop
\* it was delivered to consumes it; a process that no event reaches may die
\* anywhere.
KeptOver == (Undisturbed => OverInv) /\ crashes \in Nat

\* A run is ready to finalize only on the way to its report.
ReportInv ==
    /\ OverInv
    /\ runStatus = "ready_to_finalize" => pc \in {"reflect", "finalize"}
    /\ terminating => runStatus \in TerminalRunStatuses \cup {"ready_to_finalize"}
    /\ reported => runStatus \in TerminalRunStatuses

\* The steps that leave the inbox and the status of the run alone.
LEMMA QuietSteps ==
    ASSUME OverInv,
           \/ Resume \/ Leave \/ OutOfRounds \/ UNCHANGED vars
           \/ \E next \in Caps : Activate(next)
           \/ Reflect
    PROVE  OverInv' /\ UNCHANGED <<inbox, runStatus, reported, terminating>>
  <1>1. CASE Resume
    BY <1>1 DEF OverInv, Resume, external
  <1>2. CASE Leave
    BY <1>2 DEF OverInv, Leave, AtGate, WaitBoundary, external
  <1>3. CASE OutOfRounds \/ UNCHANGED vars
    BY <1>3 DEF OverInv, OutOfRounds, vars, external
  <1>4. CASE \E next \in Caps : Activate(next)
    BY <1>4 DEF OverInv, Activate, AtGate, RunIsOver, external
  <1>5. CASE Reflect
    <2>1. pc' \in {"finalize", "loop"}
      BY <1>5 DEF Reflect
    <2> QED
      BY <1>5, <2>1 DEF OverInv, Reflect, external
  <1> QED
    BY <1>1, <1>2, <1>3, <1>4, <1>5

\* A council meets with the inbox empty, of a run that goes on.
LEMMA CouncilSteps ==
    ASSUME OverInv, Deliberate
    PROVE  /\ OverInv' /\ inbox = <<>> /\ UNCHANGED inbox
           /\ AtGate /\ runStatus \notin TerminalRunStatuses
  <1>1. OpenRound
    BY DEF Deliberate, Select, SelectEscalation, SelectNothing
  <1>2. AtGate /\ ~RunIsOver /\ inbox = <<>>
    BY <1>1 DEF OverInv, OpenRound, MeetingReason, AtGate
  <1>3. CASE \E a \in Menu : Select(a)
    BY <1>2, <1>3 DEF OverInv, Select, Opened, RunIsOver, TerminalRunStatuses, external
  <1>4. CASE SelectEscalation
    BY <1>2, <1>4 DEF OverInv, SelectEscalation, Opened, RunIsOver, TerminalRunStatuses, external
  <1>5. CASE \E flag \in NoopFlags : SelectNothing(flag)
    <2>1. PICK flag \in NoopFlags : SelectNothing(flag)
      BY <1>5
    <2>2. flag = "waiting" => runStatus' = "waiting_external"
      BY <2>1, Zenon DEF SelectNothing, StatusWithoutAction
    <2>3. UNCHANGED inbox /\ pc' = IF flag = "waiting" THEN WaitBoundary ELSE "finalize"
      BY <2>1 DEF SelectNothing, external
    <2> QED
      BY <1>2, <2>2, <2>3 DEF OverInv, WaitBoundary, RunIsOver
  <1> QED
    BY <1>2, <1>3, <1>4, <1>5 DEF Deliberate, RunIsOver

\* Only the loop consumes events.
LEMMA ConsumeSteps ==
    ASSUME OverInv, ConsumeEvent \/ ObserveConsumes
    PROVE  /\ OverInv' /\ ConsumeEvent /\ inbox # <<>> /\ inbox' = <<>>
           /\ Head(inbox).id \notin consumed
           /\ runStatus \notin TerminalRunStatuses
           /\ pc = "loop" /\ pc' = "gate"
  BY DEF OverInv, ConsumeEvent, ObserveConsumes, Consume

LEMMA ExecuteSteps ==
    ASSUME OverInv, Execute
    PROVE  /\ OverInv' /\ UNCHANGED <<inbox, reported>> /\ inbox = <<>>
           /\ runStatus \notin TerminalRunStatuses
           /\ pc = "execute" /\ pc' = "reflect"
  <1>1. Executing
    BY DEF Execute, Refused, RunStage, RunPrepare, RefineWithoutPoints, RunValidation,
       SubmitExternalJob, DropChannel, NoTarget, End, Escalate, Dispatched
  <1> QED
    BY <1>1 DEF OverInv, Executing

LEMMA EndSteps ==
    ASSUME OverInv, RecoverWait \/ Finish
    PROVE  /\ OverInv' /\ inbox = <<>> /\ UNCHANGED inbox
           /\ runStatus \in TerminalRunStatuses => runStatus' = runStatus
  BY DEF OverInv, RecoverWait, Finish, FinalStatus, TerminalRunStatuses, external

LEMMA SubmitSteps ==
    ASSUME OverInv, NEW e \in Events, Submit(e)
    PROVE  /\ OverInv' /\ inbox = <<>> /\ inbox' = <<e>>
           /\ runStatus \notin TerminalRunStatuses
           /\ UNCHANGED <<runStatus, terminating, reported>>
  <1>1. inbox = <<>>
    BY DEF OverInv, Submit
  <1>2. inbox' = <<e>>
    BY <1>1 DEF Submit
  <1> QED
    BY <1>1, <1>2 DEF OverInv, Submit, EventRefused

LEMMA CrashSteps ==
    ASSUME OverInv, Crash, Undisturbed', crashes \in Nat
    PROVE  OverInv' /\ UNCHANGED <<inbox, runStatus>>
  <1>1. Events = {}
    BY DEF Crash, Undisturbed
  <1> QED
    BY <1>1 DEF OverInv, Crash, external

\* Deaths are never forgotten.
LEMMA CrashesCounted ==
    ASSUME crashes \in Nat, [Next]_vars
    PROVE  crashes' \in {crashes, crashes + 1}
  <1>1. CASE Crash
    BY <1>1 DEF Crash
  <1>2. CASE Execute
    BY <1>2 DEF Execute, Refused, RunStage, RunPrepare, RefineWithoutPoints,
       RunValidation, SubmitExternalJob, DropChannel, NoTarget, End, Escalate,
       Dispatched, Executing
  <1>3. CASE Deliberate
    BY <1>3 DEF Deliberate, Select, SelectEscalation, SelectNothing
  <1>4. CASE ConsumeEvent \/ ObserveConsumes
    BY <1>4 DEF ConsumeEvent, ObserveConsumes, counters
  <1>5. CASE OutOfRounds \/ UNCHANGED vars
    BY <1>5 DEF OutOfRounds, vars, counters
  <1>6. CASE \/ Resume \/ Leave \/ Reflect \/ RecoverWait \/ Finish
             \/ \E e \in Events : Submit(e)
             \/ \E next \in Caps : Activate(next)
    BY <1>6 DEF Resume, Leave, Reflect, RecoverWait, Finish, Submit, Activate, counters
  <1> QED
    BY <1>1, <1>2, <1>3, <1>4, <1>5, <1>6 DEF Next, Drive

\* What is undisturbed after a step was so before it.
LEMMA OverBefore ==
    ASSUME KeptOver, [Next]_vars, Undisturbed'
    PROVE  OverInv /\ crashes \in Nat
  BY CrashesCounted DEF KeptOver, Undisturbed

LEMMA OverInvariance == Spec => []KeptOver
  <1>1. Init => KeptOver
    BY DEF Init, OverInv, KeptOver
  <1>2. KeptOver /\ [Next]_vars => KeptOver'
    <2> SUFFICES ASSUME KeptOver, [Next]_vars
                 PROVE  (Undisturbed' => OverInv') /\ crashes' \in Nat
      BY DEF KeptOver
    <2>1. ASSUME Undisturbed' PROVE OverInv'
      <3>1. OverInv /\ crashes \in Nat
        BY <2>1, OverBefore
      <3> QED
        BY <2>1, <3>1, QuietSteps, CouncilSteps, ConsumeSteps, ExecuteSteps, EndSteps,
           SubmitSteps, CrashSteps DEF Next, Drive
    <2> QED
      BY <2>1, CrashesCounted DEF KeptOver
  <1> QED
    BY <1>1, <1>2, PTL DEF Spec

LEMMA EndKept ==
    ASSUME KeptOver, [Next]_vars, Undisturbed', runStatus \in TerminalRunStatuses
    PROVE  runStatus' = runStatus
  <1>1. OverInv /\ crashes \in Nat
    BY OverBefore
  <1> QED
    BY <1>1, QuietSteps, CouncilSteps, ConsumeSteps, ExecuteSteps, EndSteps, SubmitSteps,
       CrashSteps DEF Next, Drive

\* A run that is over stays as it ended, whatever is delivered to it, as long as
\* no process has died that an event could reach: EventRefused at the delivery
\* is the only thing that protects it (_handle_external_event_resume_guard).
THEOREM EndIsFinal == Spec => TerminalIsFinal
  <1>1. KeptOver /\ [Next]_vars
        => [(Undisturbed' /\ runStatus \in TerminalRunStatuses)
               => (runStatus' = runStatus)]_vars
    BY EndKept
  <1> QED
    BY <1>1, OverInvariance, PTL DEF Spec, TerminalIsFinal

\* Under the same condition no event takes effect twice, however often it is
\* delivered and wherever the run consumes it.
THEOREM EventsTakeEffectOnce == Spec => EventConsumedOnce
  <1>1. KeptOver /\ [Next]_vars
        => [(Undisturbed' /\ inbox # <<>> /\ inbox' = Tail(inbox))
               => Head(inbox).id \notin consumed]_vars
    <2> SUFFICES ASSUME KeptOver, [Next]_vars, Undisturbed', inbox # <<>>
                 PROVE  Head(inbox).id \notin consumed
      OBVIOUS
    <2> QED
      BY OverBefore DEF OverInv
  <1> QED
    BY <1>1, OverInvariance, PTL DEF Spec, EventConsumedOnce

-----------------------------------------------------------------------------
(* The report.                                                             *)

LEMMA ReportExecute ==
    ASSUME ReportInv, Execute
    PROVE  ReportInv'
  <1>1. OverInv' /\ ~reported /\ ~terminating /\ UNCHANGED reported /\ pc' = "reflect"
    BY ExecuteSteps DEF ReportInv, TerminalRunStatuses
  <1>2. \/ UNCHANGED terminating
        \/ runStatus' \in TerminalRunStatuses \cup {"ready_to_finalize"}
    BY DEF Execute, Refused, RunStage, RunPrepare, RefineWithoutPoints, RunValidation,
       SubmitExternalJob, DropChannel, NoTarget, End, Escalate, TerminalRunStatuses
  <1> QED
    BY <1>1, <1>2 DEF ReportInv

LEMMA ReportConsume ==
    ASSUME ReportInv, ConsumeEvent
    PROVE  ReportInv'
  <1> DEFINE e == Head(inbox)
  <1>1. /\ OverInv' /\ runStatus \notin TerminalRunStatuses
        /\ pc = "loop" /\ pc' = "gate"
    BY ConsumeSteps DEF ReportInv
  <1>2. ~reported /\ ~terminating
    BY <1>1 DEF ReportInv
  <1>3. EventStatus(e) # "ready_to_finalize"
        /\ (e.type \in {"override_skip", "override_abort"}
              => EventStatus(e) \in TerminalRunStatuses)
    <2>1. CASE e.type = "override_skip"
      BY <2>1, Zenon DEF EventStatus, TerminalRunStatuses
    <2>2. CASE e.type = "override_abort"
      <3>1. EventStatus(e) = "aborted"
        BY <2>2, Zenon DEF EventStatus
      <3> QED
        BY <3>1, <2>2 DEF TerminalRunStatuses
    <2>3. CASE e.type = "job_failed"
      <3>1. EventStatus(e) = "needs_recovery"
        BY <2>3, Zenon DEF EventStatus
      <3> QED
        BY <3>1, <2>3
    <2>4. CASE e.type \notin {"override_skip", "override_abort", "job_failed"}
      <3>1. EventStatus(e) = "running"
        BY <2>4, Zenon DEF EventStatus
      <3> QED
        BY <3>1, <2>4
    <2> QED
      BY <2>1, <2>2, <2>3, <2>4
  <1>4. /\ reported' = reported
        /\ \/ runStatus' = "waiting_external" /\ terminating' = terminating
           \/ /\ terminating' = (terminating \/ e.type \in {"override_skip", "override_abort"})
              /\ runStatus' = EventStatus(e)
    BY Zenon DEF ConsumeEvent, Consume
  <1>5. terminating' => runStatus' \in TerminalRunStatuses
    <2>1. CASE runStatus' = "waiting_external" /\ terminating' = terminating
      BY <1>2, <2>1
    <2>2. CASE /\ terminating' = (terminating \/ e.type \in {"override_skip", "override_abort"})
               /\ runStatus' = EventStatus(e)
      BY <1>2, <1>3, <2>2, Zenon
    <2> QED
      BY <1>4, <2>1, <2>2
  <1>6. runStatus' # "ready_to_finalize"
    BY <1>3, <1>4
  <1> QED
    BY <1>1, <1>2, <1>4, <1>5, <1>6 DEF ReportInv

LEMMA ReportDeliberate ==
    ASSUME ReportInv, Deliberate
    PROVE  ReportInv'
  <1>1. OverInv' /\ AtGate /\ runStatus \notin TerminalRunStatuses
    BY CouncilSteps DEF ReportInv
  <1>2. ~reported /\ ~terminating /\ runStatus # "ready_to_finalize"
    BY <1>1 DEF ReportInv, AtGate
  <1>3. CASE SelectEscalation \/ \E a \in Menu : Select(a)
    BY <1>1, <1>2, <1>3 DEF ReportInv, Select, SelectEscalation, Opened
  <1>4. CASE \E flag \in NoopFlags : SelectNothing(flag)
    <2>1. PICK flag \in NoopFlags : SelectNothing(flag)
      BY <1>4
    <2>2. CASE flag = "waiting"
      <3>1. runStatus' = "waiting_external"
        BY <2>1, <2>2, Zenon DEF SelectNothing, StatusWithoutAction
      <3>2. ~terminating'
        BY <1>2, <2>1, <2>2 DEF SelectNothing
      <3> QED
        BY <1>1, <1>2, <2>1, <3>1, <3>2 DEF ReportInv, SelectNothing
    <2>3. CASE flag # "waiting"
      <3>1. runStatus' \in {"ready_to_finalize", "failed", "skipped"}
        BY <2>1, <2>3, Zenon DEF SelectNothing, StatusWithoutAction
      <3>2. pc' = "finalize" /\ reported' = reported
        BY <2>1, <2>3 DEF SelectNothing
      <3> QED
        BY <1>1, <1>2, <3>1, <3>2 DEF ReportInv, TerminalRunStatuses
    <2> QED
      BY <2>2, <2>3
  <1> QED
    BY <1>3, <1>4 DEF Deliberate

LEMMA ReportQuiet ==
    ASSUME ReportInv,
           \/ Resume \/ Leave \/ OutOfRounds \/ UNCHANGED vars
           \/ \E next \in Caps : Activate(next)
           \/ Reflect
    PROVE  ReportInv'
  <1>1. OverInv' /\ UNCHANGED <<inbox, runStatus, reported, terminating>>
    BY QuietSteps DEF ReportInv
  <1>2. CASE pc \in {"reflect", "finalize"}
    <2>1. Reflect \/ OutOfRounds \/ UNCHANGED vars
      BY <1>2 DEF Resume, Leave, Activate, AtGate
    <2>2. Reflect /\ runStatus = "ready_to_finalize" => pc' = "finalize"
      BY DEF Reflect, TerminalOrFinalizable
    <2>3. OutOfRounds \/ UNCHANGED vars => pc' = pc
      BY DEF OutOfRounds, vars
    <2> QED
      BY <1>1, <1>2, <2>1, <2>2, <2>3 DEF ReportInv
  <1>3. CASE pc \notin {"reflect", "finalize"}
    BY <1>1, <1>3 DEF ReportInv
  <1> QED
    BY <1>2, <1>3

LEMMA ReportFinish ==
    ASSUME ReportInv, Finish
    PROVE  ReportInv'
  <1>1. OverInv' /\ (runStatus \in TerminalRunStatuses => runStatus' = runStatus)
    BY EndSteps DEF ReportInv
  <1>2. CASE reported
    BY <1>1, <1>2 DEF ReportInv, Finish, TerminalRunStatuses
  <1>3. CASE ~reported /\ ~TerminalOrFinalizable
    BY <1>1, <1>3 DEF ReportInv, Finish, TerminalOrFinalizable
  <1>4. CASE ~reported /\ TerminalOrFinalizable
    <2>1. runStatus' = FinalStatus
      BY <1>4 DEF Finish
    <2>2. runStatus \in TerminalRunStatuses \cup {"ready_to_finalize"}
      BY <1>4 DEF ReportInv, TerminalOrFinalizable
    <2>3. runStatus' \in TerminalRunStatuses /\ runStatus' # "ready_to_finalize"
      BY <2>1, <2>2 DEF FinalStatus, TerminalRunStatuses
    <2> QED
      BY <1>1, <2>3 DEF ReportInv
  <1> QED
    BY <1>2, <1>3, <1>4

\* Where no process has died the report closes the run.
LEMMA ReportInvariance == Spec => [](crashes = 0 => ReportInv)
  <1>1. Init => (crashes = 0 => ReportInv)
    BY DEF Init, ReportInv, OverInv
  <1>2. (crashes = 0 => ReportInv) /\ KeptOver /\ [Next]_vars => (crashes = 0 => ReportInv)'
    <2> SUFFICES ASSUME crashes = 0 => ReportInv, crashes \in Nat, [Next]_vars, crashes' = 0
                 PROVE  ReportInv'
      BY DEF KeptOver
    <2>0. ReportInv
      BY CrashesCounted
    <2>1. CASE ConsumeEvent \/ ObserveConsumes
      BY <2>0, <2>1, ConsumeSteps, ReportConsume DEF ReportInv
    <2>2. CASE RecoverWait
      <3>1. OverInv' /\ runStatus = "waiting_external" /\ ~terminating /\ ~reported
        BY <2>0, <2>2, EndSteps DEF ReportInv, OverInv, RecoverWait, TerminalRunStatuses
      <3> QED
        BY <2>2, <3>1 DEF ReportInv, RecoverWait
    <2>3. CASE \E e \in Events : Submit(e)
      BY <2>0, <2>3, SubmitSteps DEF ReportInv, Submit
    <2>4. CASE Crash
      BY <2>4 DEF Crash
    <2>5. CASE \/ Resume \/ Leave \/ OutOfRounds \/ UNCHANGED vars
               \/ \E next \in Caps : Activate(next)
               \/ Reflect
      BY <2>0, <2>5, ReportQuiet
    <2> QED
      BY <2>0, <2>1, <2>2, <2>3, <2>4, <2>5, ReportDeliberate, ReportExecute, ReportFinish
      DEF Next, Drive
  <1> QED
    BY <1>1, <1>2, OverInvariance, PTL DEF Spec

LEMMA NoDeaths ==
    ASSUME MaxCrashes = 0
    PROVE  TypeOK => crashes = 0
  BY DEF TypeOK

\* As long as no process dies, a run that has its report is over and stays so:
\* no path to final_report leaves a run that could be taken up again
\* (_finalize_if_needed, final_report_node).
THEOREM ReportCloses ==
    ASSUME MaxCrashes = 0
    PROVE  Spec => []ReportIsTerminal
  <1>1. ReportInv => ReportIsTerminal
    BY DEF ReportInv, ReportIsTerminal
  <1> QED
    BY <1>1, ReportInvariance, NoDeaths, TypeCorrect, PTL

-----------------------------------------------------------------------------
(* Autonomous runs.                                                        *)

\* A process goes on to the report only of a run that is over or about to be,
\* and returns only from there.
OnTheWayOut ==
    /\ pc = "finalize" => TerminalOrFinalizable
    /\ pc = "idle" => reported

\* An autonomous process that may only wait recovers instead of returning.
LEMMA WaitsNever == FullAutonomy => WaitBoundary = "recover"
  BY DEF WaitBoundary

LEMMA WayOutInvariance ==
    ASSUME FullAutonomy
    PROVE  Spec => [](crashes = 0 => OnTheWayOut)
  <1>1. Init => (crashes = 0 => OnTheWayOut)
    BY DEF Init, OnTheWayOut
  <1>2. (crashes = 0 => OnTheWayOut) /\ KeptOver /\ [Next]_vars => (crashes = 0 => OnTheWayOut)'
    <2> SUFFICES ASSUME crashes = 0 => OnTheWayOut, crashes \in Nat, [Next]_vars, crashes' = 0
                 PROVE  OnTheWayOut'
      BY DEF KeptOver
    <2>0. OnTheWayOut
      BY CrashesCounted
    <2>1. CASE Resume \/ \E e \in Events : Submit(e)
      BY <2>1 DEF Resume, Submit, OnTheWayOut
    <2>2. CASE ConsumeEvent \/ ObserveConsumes
      BY <2>2 DEF ConsumeEvent, ObserveConsumes, OnTheWayOut
    <2>3. CASE Leave
      BY <2>3, WaitsNever DEF Leave, RunIsOver, TerminalOrFinalizable, OnTheWayOut
    <2>4. CASE SelectEscalation \/ (\E a \in Menu : Select(a))
               \/ \E next \in Caps : Activate(next)
      BY <2>4 DEF Select, SelectEscalation, Activate, OnTheWayOut
    <2>5. CASE \E flag \in NoopFlags : SelectNothing(flag)
      <3>1. PICK flag \in NoopFlags : SelectNothing(flag)
        BY <2>5
      <3>2. CASE flag = "waiting"
        BY <3>1, <3>2, WaitsNever DEF SelectNothing, OnTheWayOut
      <3>3. CASE flag # "waiting"
        <4>1. runStatus' \in {"ready_to_finalize", "failed", "skipped"}
          BY <3>1, <3>3, Zenon DEF SelectNothing, StatusWithoutAction
        <4>2. pc' = "finalize"
          BY <3>1, <3>3 DEF SelectNothing
        <4> QED
          BY <4>1, <4>2 DEF OnTheWayOut, TerminalOrFinalizable, TerminalRunStatuses
      <3> QED
        BY <3>2, <3>3
    <2>6. CASE Execute
      <3>1. pc' = "reflect"
        BY <2>6 DEF Execute, Refused, RunStage, RunPrepare, RefineWithoutPoints, RunValidation,
           SubmitExternalJob, DropChannel, NoTarget, End, Escalate, Dispatched, Executing
      <3> QED
        BY <3>1 DEF OnTheWayOut
    <2>7. CASE Reflect
      BY <2>7 DEF Reflect, OnTheWayOut, TerminalOrFinalizable
    <2>8. CASE RecoverWait
      BY <2>8 DEF RecoverWait, OnTheWayOut
    <2>9. CASE Finish
      BY <2>0, <2>9 DEF Finish, OnTheWayOut
    <2>10. CASE Crash
      BY <2>10 DEF Crash
    <2>11. CASE OutOfRounds \/ UNCHANGED vars
      BY <2>0, <2>11 DEF OutOfRounds, vars, OnTheWayOut, TerminalOrFinalizable
    <2> QED
      BY <2>1, <2>2, <2>3, <2>4, <2>5, <2>6, <2>7, <2>8, <2>9, <2>10, <2>11
      DEF Next, Drive, Deliberate
  <1> QED
    BY <1>1, <1>2, OverInvariance, PTL DEF Spec

\* An autonomous run never parks (_recover_unexpected_wait_boundary and the
\* returns of drive): when a process that did not die is back, the run is over
\* and has its report, for every menu, every external event and every contract.
THEOREM AutonomousRunsEnd == Spec => []AutonomousNeverParks
  <1>1. CASE FullAutonomy
    <2>1. (crashes = 0 => OnTheWayOut) /\ (crashes = 0 => ReportInv) => AutonomousNeverParks
      BY DEF OnTheWayOut, ReportInv, AutonomousNeverParks
    <2>2. Spec => [](crashes = 0 => OnTheWayOut)
      BY <1>1, WayOutInvariance
    <2> QED
      BY <2>1, <2>2, ReportInvariance, PTL
  <1>2. CASE ~FullAutonomy
    <2>1. AutonomousNeverParks
      BY <1>2 DEF AutonomousNeverParks
    <2> QED
      BY <2>1, PTL
  <1> QED
    BY <1>1, <1>2, ModeAssumption

-----------------------------------------------------------------------------
(* Jobs.                                                                   *)

\* A run that hears of no events has at most one job, and while it has one it
\* waits for it: the legality check does not look at the jobs of a repair that is
\* handed over, so that nothing else keeps the second submission away.
JobInv ==
    /\ inbox = <<>>
    /\ pc # "council"
    /\ pc = "execute" => runStatus # "waiting_external"
    /\ \A i, j \in jobs : i = j
    /\ \A j \in jobs : j.target = awaiting
    /\ jobs # {} => runStatus = "waiting_external" /\ awaiting # 0

LEMMA JobExecute ==
    ASSUME TypeInv, JobInv, Execute
    PROVE  JobInv'
  <1>1. Executing
    BY DEF Execute, Refused, RunStage, RunPrepare, RefineWithoutPoints, RunValidation,
       SubmitExternalJob, DropChannel, NoTarget, End, Escalate, Dispatched
  <1>2. jobs = {}
    BY <1>1 DEF JobInv, Executing
  <1>3. CASE SubmitExternalJob
    <2>1. /\ jobs' = {[id |-> round, target |-> action.target, pending |-> TRUE]}
          /\ awaiting' = action.target /\ runStatus' = "waiting_external"
      BY <1>2, <1>3 DEF SubmitExternalJob
    <2>2. action.target # 0
      BY <1>3 DEF SubmitExternalJob, TypeInv, ActionTargets, Caps
    <2> QED
      BY <1>1, <2>1, <2>2 DEF JobInv, Executing
  <1>4. CASE ~SubmitExternalJob
    <2>1. jobs' = jobs
      BY <1>4 DEF Execute, Refused, RunStage, RunPrepare, RefineWithoutPoints, RunValidation,
         DropChannel, NoTarget, End, Escalate
    <2> QED
      BY <1>1, <1>2, <2>1 DEF JobInv, Executing
  <1> QED
    BY <1>3, <1>4

LEMMA JobDeliberate ==
    ASSUME JobInv, Deliberate
    PROVE  JobInv'
  <1>1. OpenRound
    BY DEF Deliberate, Select, SelectEscalation, SelectNothing
  <1>2. runStatus # "waiting_external" /\ jobs = {}
    BY <1>1 DEF JobInv, OpenRound, MeetingReason, DeliberationReason, ReasonIn
  <1>3. UNCHANGED external
    BY DEF Deliberate, Select, SelectEscalation, SelectNothing
  <1>4. \/ pc' = "execute" /\ runStatus' = Opened
        \/ pc' \notin {"execute", "council"}
    BY DEF Deliberate, Select, SelectEscalation, SelectNothing, WaitBoundary
  <1> QED
    BY <1>2, <1>3, <1>4 DEF JobInv, Opened, external

LEMMA JobInvariance ==
    ASSUME Events = {}
    PROVE  Spec => []JobInv
  <1>1. Init => JobInv
    BY DEF Init, JobInv
  <1>2. TypeInv /\ JobInv /\ [Next]_vars => JobInv'
    <2> SUFFICES ASSUME TypeInv, JobInv, [Next]_vars
                 PROVE  JobInv'
      OBVIOUS
    <2>1. CASE Resume \/ Leave \/ Crash \/ Reflect \/ OutOfRounds \/ UNCHANGED vars
      <3>1. UNCHANGED <<external, runStatus>>
        BY <2>1 DEF Resume, Leave, Crash, Reflect, OutOfRounds, vars
      <3>2. pc' \notin {"execute", "council"} \/ pc' = pc
        BY <2>1 DEF Resume, Leave, WaitBoundary, Crash, Reflect, OutOfRounds, vars
      <3> QED
        BY <3>1, <3>2 DEF JobInv, external
    <2>2. CASE ConsumeEvent \/ ObserveConsumes
      BY <2>2 DEF ConsumeEvent, ObserveConsumes, JobInv
    <2>3. CASE \E next \in Caps : Activate(next)
      BY <2>3 DEF Activate, JobInv, external
    <2>4. CASE RecoverWait
      <3>1. jobs' = {}
        BY <2>4 DEF RecoverWait, JobsWithout, JobInv
      <3> QED
        BY <2>4, <3>1 DEF RecoverWait, JobInv
    <2>5. CASE Finish
      BY <2>5 DEF Finish, FinalStatus, JobInv, external
    <2> QED
      BY <2>1, <2>2, <2>3, <2>4, <2>5, JobExecute, JobDeliberate DEF Next, Drive
  <1> QED
    BY <1>1, <1>2, TypeInvariance, PTL DEF Spec

\* Nothing is handed to the external scheduler a second time while it is pending
\* there (execute_selected_action), in a run that nobody sends events to: an
\* autonomous run drops the job it stops waiting for, any other keeps waiting,
\* over deaths and restarts.
THEOREM SubmitsOnce ==
    ASSUME Events = {}
    PROVE  Spec => []SingleSubmission
  <1>1. JobInv => SingleSubmission
    BY DEF JobInv, SingleSubmission
  <1> QED
    BY <1>1, JobInvariance, PTL

-----------------------------------------------------------------------------
(* What the board says was done.                                           *)

AllRun(b, done) == \A c \in Caps : On(b, "completed", c) => c \in done

\* Only the completion of a task lists it as completed.
LEMMA MovesRun ==
    ASSUME NEW b \in Boards, NEW c \in Caps, NEW done, AllRun(b, done)
    PROVE  /\ AllRun(Started(b, c), done)
           /\ AllRun(Blocked(b, c), done)
           /\ AllRun(Abandoned(b, c), done)
           /\ AllRun(ResetFrom(b, c), done)
           /\ AllRun(Normalised(b), done)
           /\ c \in done => AllRun(Completed(b, c), done)
  <1>. USE DEF AllRun, On
  <1>1. AllRun(Started(b, c), done) /\ AllRun(Blocked(b, c), done)
    <2>1. \A d \in Caps : Started(b, c)["completed"][d] = b["completed"][d]
      BY MoveCounts DEF Started, Lists
    <2>2. \A d \in Caps : Blocked(b, c)["completed"][d] = b["completed"][d]
      BY MoveCounts DEF Blocked, Lists
    <2> QED
      BY <2>1, <2>2
  <1>2. AllRun(Abandoned(b, c), done)
    BY MoveCounts DEF Abandoned, ActiveOrPending, Lists
  <1>3. AllRun(ResetFrom(b, c), done)
    BY DEF ResetFrom, Lists
  <1>4. AllRun(Normalised(b), done)
    BY DEF Normalised, Boards, Lists
  <1>5. ASSUME c \in done
        PROVE  AllRun(Completed(b, c), done)
    BY <1>5, MoveCounts DEF Completed, ActiveOrPending, Lists
  <1> QED
    BY <1>1, <1>2, <1>3, <1>4, <1>5

LEMMA NormalisedRun ==
    ASSUME NEW b \in Boards, NEW done, AllRun(b, done)
    PROVE  AllRun(Normalised(b), done)
  BY MovesRun, ValidationAssumption DEF Caps

LEMMA MoreRun ==
    ASSUME NEW b, NEW done, AllRun(b, done), NEW more, done \subseteq more
    PROVE  AllRun(b, more)
  BY DEF AllRun

\* An execution lists nothing as completed.
LEMMA ExecuteKeepsRun ==
    ASSUME TypeInv, Execute, NEW done, AllRun(board, done)
    PROVE  AllRun(board', done)
  <1> DEFINE t == action.target
  <1>. USE ValidationAssumption
  <1>1. board \in Boards /\ Launched \in Boards
    BY LaunchedType DEF TypeInv, TypeOK
  <1>2. AllRun(Launched, done)
    <2>1. action.family \in TargetedFamilies => action.target \in Caps
      BY DEF TypeInv, ActionTargets
    <2> QED
      BY <1>1, <2>1, MovesRun DEF Launched
  <1>3. CASE Refused \/ DropChannel \/ NoTarget \/ End
    BY <1>3 DEF Refused, DropChannel, NoTarget, End
  <1>4. ASSUME NEW ok \in BOOLEAN, RunStage(ok)
        PROVE  AllRun(board', done)
    <2>1. t \in Caps
      BY <1>4, TargetType DEF RunStage, Caps
    <2>2. /\ (IF Resets THEN ResetFrom(Launched, t) ELSE Launched) \in Boards
          /\ AllRun(IF Resets THEN ResetFrom(Launched, t) ELSE Launched, done)
      BY <1>1, <1>2, <2>1, ResetType, MovesRun
    <2> QED
      BY <1>4, <2>2, NormalisedRun DEF RunStage
  <1>5. CASE RefineWithoutPoints \/ RunValidation \/ \E ok \in BOOLEAN : RunPrepare(ok)
    <2>1. board' = Normalised(Launched)
      BY <1>5 DEF RefineWithoutPoints, RunValidation, RunPrepare
    <2> QED
      BY <1>1, <1>2, <2>1, NormalisedRun
  <1>6. CASE SubmitExternalJob
    <2>1. t \in Caps /\ board' = Normalised(ResetFrom(board, t))
      BY <1>6 DEF SubmitExternalJob, TypeInv, ActionTargets
    <2> QED
      BY <1>1, <2>1, ResetType, MovesRun, NormalisedRun
  <1>7. ASSUME NEW answer \in HumanAnswers, Escalate(answer)
        PROVE  AllRun(board', done)
    <2> DEFINE stage == ResumeStage(answer, t)
    <2>1. \/ board' = board
          \/ board' = Normalised(IF stage \in Caps THEN ResetFrom(board, stage) ELSE board)
      BY <1>7 DEF Escalate
    <2> HIDE DEF stage
    <2>2. (IF stage \in Caps THEN ResetFrom(board, stage) ELSE board) \in Boards
          /\ AllRun(IF stage \in Caps THEN ResetFrom(board, stage) ELSE board, done)
      BY <1>1, ResetType, MovesRun
    <2> QED
      BY <2>1, <2>2, NormalisedRun
  <1> QED
    BY <1>3, <1>4, <1>5, <1>6, <1>7 DEF Execute

\* An event lists as completed the stage whose job it completes.
LEMMA ConsumeKeepsRun ==
    ASSUME TypeInv, NEW e, Consume(e), NEW done, AllRun(board, done),
           ~Unmatched(e) /\ e.type = "job_completed" /\ EventTarget(e) \in Caps
               => EventTarget(e) \in done
    PROVE  AllRun(board', done)
  <1> DEFINE t == EventTarget(e)
  <1>1. board \in Boards
    BY DEF TypeInv, TypeOK
  <1>2. ASSUME ~Unmatched(e), t \in Caps
        PROVE  AllRun(EventBoard(e, t), done) /\ EventBoard(e, t) \in Boards
    <2>1. EventBoard(e, t) \in Boards
      BY <1>1, <1>2, EventBoardType
    <2>2. /\ AllRun(Blocked(board, t), done) /\ AllRun(ResetFrom(board, t), done)
          /\ t \in done => AllRun(Completed(board, t), done)
      BY <1>1, <1>2, MovesRun
    <2>3. CASE e.type = "job_completed"
      <3>1. EventBoard(e, t) = Completed(board, t)
        BY <2>3, Zenon DEF EventBoard
      <3> QED
        BY <1>2, <2>1, <2>2, <2>3, <3>1
    <2>4. CASE e.type # "job_completed"
      <3>1. EventBoard(e, t) \in {board, Blocked(board, t), ResetFrom(board, t)}
        BY <2>4, Zenon DEF EventBoard
      <3> QED
        BY <2>1, <2>2, <3>1
    <2> QED
      BY <2>3, <2>4
  <1>3. CASE Unmatched(e)
    BY <1>3 DEF Consume
  <1>4. CASE ~Unmatched(e)
    <2>1. board' = Normalised(IF t \in Caps THEN EventBoard(e, t) ELSE board)
      BY <1>4 DEF Consume
    <2>2. CASE t \in Caps
      BY <1>2, <1>4, <2>1, <2>2, NormalisedRun
    <2>3. CASE t \notin Caps
      BY <1>1, <2>1, <2>3, NormalisedRun
    <2> QED
      BY <2>2, <2>3
  <1> QED
    BY <1>3, <1>4

\* reflect_round lists as completed what succeeded.
LEMMA ReflectKeepsRun ==
    ASSUME TypeInv, Reflect, NEW done, AllRun(board, done),
           obs.status = "success" /\ Reflecting \in Caps => Reflecting \in done
    PROVE  AllRun(board', done)
  <1> DEFINE t == Reflecting
  <1>1. board \in Boards /\ board' = Normalised(IF t \in Caps THEN Reflected(t) ELSE board)
    BY DEF TypeInv, TypeOK, Reflect, Reflecting
  <1>2. ASSUME t \in Caps
        PROVE  Reflected(t) \in Boards /\ AllRun(Reflected(t), done)
    <2>1. Reflected(t) \in Boards
      BY <1>1, <1>2, ReflectedType
    <2>2. /\ AllRun(Blocked(board, t), done)
          /\ AllRun(Abandoned(board, t), done)
          /\ t \in done => AllRun(Completed(board, t), done)
      BY <1>1, <1>2, MovesRun
    <2>3. CASE obs.status = "success"
      <3>1. Reflected(t) = Completed(board, t)
        BY <2>3, Zenon DEF Reflected
      <3> QED
        BY <1>2, <2>1, <2>2, <2>3, <3>1
    <2>4. CASE obs.status # "success"
      <3>1. Reflected(t) \in {board, Blocked(board, t), Abandoned(board, t)}
        BY <2>4, Zenon DEF Reflected
      <3> QED
        BY <2>1, <2>2, <3>1
    <2> QED
      BY <2>3, <2>4
  <1>3. CASE t \in Caps
    BY <1>1, <1>2, <1>3, NormalisedRun
  <1>4. CASE t \notin Caps
    BY <1>1, <1>4, NormalisedRun
  <1> QED
    BY <1>3, <1>4

\* What is listed as completed was run, and so was what is about to be.
RunInv ==
    /\ AllRun(board, completed)
    /\ pc = "reflect" /\ obs.status = "success" /\ Reflecting \in Caps
          => Reflecting \in completed

LEMMA StaysOver ==
    ASSUME MaxCrashes = 0 \/ Events = {}
    PROVE  TypeInv /\ KeptOver => OverInv
  BY NoDeaths DEF TypeInv, KeptOver, Undisturbed

LEMMA RunConsume ==
    ASSUME TypeInv, OverInv, RunInv, ConsumeEvent \/ ObserveConsumes
    PROVE  RunInv'
  <1> DEFINE e == Head(inbox)
             t == EventTarget(e)
  <1>1. ConsumeEvent /\ pc' = "gate"
    BY ConsumeSteps
  <1>2. AllRun(board, completed')
    BY <1>1, MoreRun DEF ConsumeEvent, SyncProgress, RunInv
  <1>3. ASSUME ~Unmatched(e), e.type = "job_completed", t \in Caps
        PROVE  t \in completed'
    <2>1. obs' = [target |-> t, status |-> "success"]
      BY <1>1, <1>3 DEF ConsumeEvent, Consume
    <2>2. SyncTarget(e) = t
      BY <2>1 DEF SyncTarget, EventTarget
    <2> QED
      BY <1>1, <1>3, <2>2 DEF ConsumeEvent, SyncProgress
  <1>4. Consume(e)
    BY <1>1 DEF ConsumeEvent
  <1> HIDE DEF e, t
  <1>5. AllRun(board', completed')
    BY <1>2, <1>3, <1>4, ConsumeKeepsRun DEF e, t
  <1> QED
    BY <1>1, <1>5 DEF RunInv

\* An execution that succeeds records the stage it observes, but for an escalation
\* that a human answers with a stage to go on from, and for an invalidated channel
\* or an end that names a stage.
LEMMA RunExecute ==
    ASSUME TypeInv, RunInv, Execute,
           \A answer \in HumanAnswers : answer.kind \in {"skip", "abort"},
           action.family \in {"invalidate_channel", "finalize_material"} => action.target = 0
    PROVE  RunInv'
  <1> DEFINE t == action.target
  <1>. USE ValidationAssumption
  <1>1. action' = action
    BY DEF Execute, Refused, RunStage, RunPrepare, RefineWithoutPoints, RunValidation,
       SubmitExternalJob, DropChannel, NoTarget, End, Escalate, Dispatched, Executing
  <1>2. completed \subseteq completed'
    BY DEF Execute, Refused, RunStage, RunPrepare, RefineWithoutPoints, RunValidation,
       SubmitExternalJob, DropChannel, NoTarget, End, Escalate, RecordStage, progress
  <1>3. AllRun(board', completed')
    BY <1>2, ExecuteKeepsRun, MoreRun DEF RunInv
  <1>4. obs'.status = "success" /\ Reflecting' \in Caps => Reflecting' \in completed'
    <2>1. CASE Refused \/ DropChannel \/ NoTarget \/ End
      <3>1. obs'.target = t /\ (obs'.status = "success" => t = 0)
        BY <2>1 DEF Refused, DropChannel, NoTarget, End, Observe
      <3> QED
        BY <1>1, <3>1 DEF Reflecting, Caps
    <2>2. CASE \E ok \in BOOLEAN : RunStage(ok)
      BY <2>2 DEF RunStage, RecordStage, Observe, Reflecting
    <2>3. CASE \E ok \in BOOLEAN : RunPrepare(ok)
      BY <2>3 DEF RunPrepare, RecordStage, Observe, Reflecting, Prepare
    <2>4. CASE RefineWithoutPoints \/ SubmitExternalJob
      BY <2>4 DEF RefineWithoutPoints, SubmitExternalJob, Observe
    <2>5. CASE RunValidation
      BY <2>5 DEF RunValidation, Observe, Reflecting
    <2>6. CASE \E answer \in HumanAnswers : Escalate(answer)
      BY <2>6 DEF Escalate, Observe
    <2> QED
      BY <2>1, <2>2, <2>3, <2>4, <2>5, <2>6 DEF Execute
  <1> QED
    BY <1>3, <1>4 DEF RunInv

LEMMA RunReflect ==
    ASSUME TypeInv, RunInv, Reflect
    PROVE  RunInv'
  <1>1. completed' = completed /\ pc' # "reflect" /\ pc = "reflect"
    BY DEF Reflect, progress
  <1>2. AllRun(board', completed)
    BY <1>1, ReflectKeepsRun DEF RunInv
  <1> QED
    BY <1>1, <1>2 DEF RunInv

LEMMA RunInvariance ==
    ASSUME MaxCrashes = 0 \/ Events = {},
           \A answer \in HumanAnswers : answer.kind \in {"skip", "abort"},
           \A a \in Menu : a.family \in {"invalidate_channel", "finalize_material"}
                              => a.target = 0
    PROVE  Spec => []RunInv
  <1> DEFINE Named == action.family \in {"invalidate_channel", "finalize_material"}
                         => action.target = 0
  <1>1. Init => RunInv /\ Named
    BY DEF Init, InitialBoard, RunInv, AllRun, On, Lists, NoAction
  <1>2. TypeInv /\ OverInv /\ RunInv /\ Named /\ [Next]_vars => RunInv' /\ Named'
    <2> SUFFICES ASSUME TypeInv, OverInv, RunInv, Named, [Next]_vars
                 PROVE  RunInv' /\ Named'
      OBVIOUS
    <2>1. CASE \/ Resume \/ (\E e \in Events : Submit(e)) \/ Leave
               \/ RecoverWait \/ Finish \/ Crash
      <3>1. UNCHANGED <<board, completed, action>> /\ pc' # "reflect"
        BY <2>1 DEF Resume, Submit, Leave, WaitBoundary, RecoverWait, Finish, Crash, progress
      <3> QED
        BY <3>1 DEF RunInv
    <2>2. CASE ConsumeEvent \/ ObserveConsumes
      <3>1. action' = action
        BY <2>2 DEF ConsumeEvent, ObserveConsumes
      <3> QED
        BY <2>2, <3>1, RunConsume
    <2>3. CASE Deliberate
      <3>1. board' = board /\ completed \subseteq completed' /\ pc' # "reflect"
        BY <2>3 DEF Deliberate, Select, SelectEscalation, SelectNothing, WaitBoundary, progress
      <3>2. Named'
        BY <2>3 DEF Deliberate, Select, SelectEscalation, SelectNothing, NoAction
      <3> QED
        BY <3>1, <3>2 DEF RunInv, AllRun
    <2>4. CASE \E next \in Caps : Activate(next)
      BY <2>4 DEF Activate, progress, RunInv
    <2>5. CASE Execute
      <3>1. action' = action
        BY <2>5 DEF Execute, Refused, RunStage, RunPrepare, RefineWithoutPoints, RunValidation,
           SubmitExternalJob, DropChannel, NoTarget, End, Escalate, Dispatched, Executing
      <3> QED
        BY <2>5, <3>1, RunExecute
    <2>6. CASE Reflect
      <3>1. action' = action
        BY <2>6 DEF Reflect
      <3> QED
        BY <2>6, <3>1, RunReflect
    <2>7. CASE OutOfRounds \/ UNCHANGED vars
      BY <2>7 DEF OutOfRounds, vars, progress, RunInv, Reflecting
    <2> QED
      BY <2>1, <2>2, <2>3, <2>4, <2>5, <2>6, <2>7 DEF Next, Drive
  <1> QED
    BY <1>1, <1>2, TypeInvariance, OverInvariance, StaysOver, PTL DEF Spec

\* A task listed as completed is of a stage that did complete, as long as no human
\* answers an escalation with a stage to go on from, no invalidation or end names
\* a stage, and no process dies that an event could reach: what the answers do is
\* refuted by the run human_retry.
THEOREM CompletedTasksRan ==
    ASSUME MaxCrashes = 0 \/ Events = {},
           \A answer \in HumanAnswers : answer.kind \in {"skip", "abort"},
           \A a \in Menu : a.family \in {"invalidate_channel", "finalize_material"}
                              => a.target = 0
    PROVE  Spec => []CompletedWasRun
  <1>1. RunInv => CompletedWasRun
    BY DEF RunInv, AllRun, CompletedWasRun
  <1> QED
    BY <1>1, RunInvariance, PTL

-----------------------------------------------------------------------------
(* What a completed run rests on.                                          *)

\* The capabilities whose completion the report, once it is there, vouches for.
Certified == IF report THEN Caps ELSE Caps \ {Validation}

\* The validation is listed as completed only with its report, and a run ends
\* well only with results and that report.
EarnedInv ==
    /\ AllRun(board, Certified)
    /\ pc = "reflect" /\ obs.status = "success" /\ Reflecting \in Caps
          => Reflecting \in Certified
    /\ runStatus \in {"ready_to_finalize", "completed"} => Results /\ report
    /\ awaiting # Validation
    /\ action.family = "escalate_human" => action.target # Validation
    /\ inbox # <<>> => Head(inbox) \in Events

EarnedAssumptions ==
    /\ MaxCrashes = 0
    /\ "ready" \notin NoopFlags
    /\ \A a \in Menu :
           /\ a.family = "revalidate_result" => a.target = Validation
           /\ a.family = "escalate_human" => a.target # Validation
    /\ \A answer \in HumanAnswers : answer.stage # Validation
    /\ \A e \in Events : e.type = "job_completed" => e.target # Validation

LEMMA EarnedConsume ==
    ASSUME EarnedAssumptions, TypeInv, ReportInv, EarnedInv, ConsumeEvent \/ ObserveConsumes
    PROVE  EarnedInv'
  <1> DEFINE e == Head(inbox)
             t == EventTarget(e)
  <1>1. ConsumeEvent /\ pc' = "gate" /\ inbox # <<>> /\ inbox' = <<>>
    BY ConsumeSteps DEF ReportInv
  <1>2. Consume(e) /\ e \in Events /\ UNCHANGED <<action, outputs, report>>
    BY <1>1 DEF ConsumeEvent, EarnedInv
  <1>3. ~Unmatched(e) /\ e.type = "job_completed" /\ t \in Caps => t \in Certified
    BY <1>2, ValidationAssumption DEF EarnedAssumptions, EventTarget, EarnedInv, Certified
  <1>4. awaiting' \in {0, awaiting}
    BY <1>2 DEF Consume
  <1>5. runStatus' \notin {"ready_to_finalize", "completed"}
    <2>1. runStatus' = "waiting_external" \/ runStatus' = EventStatus(e)
      BY <1>2 DEF Consume
    <2>2. EventStatus(e) \in {"skipped", "aborted", "needs_recovery", "running"}
      BY Zenon DEF EventStatus
    <2> QED
      BY <2>1, <2>2
  <1> HIDE DEF e, t
  <1>6. AllRun(board', Certified)
    BY <1>2, <1>3, ConsumeKeepsRun DEF EarnedInv, t
  <1>7. Certified' = Certified
    BY <1>2 DEF Certified
  <1> QED
    BY <1>1, <1>2, <1>4, <1>5, <1>6, <1>7, ValidationAssumption DEF EarnedInv

LEMMA EarnedDeliberate ==
    ASSUME EarnedAssumptions, TypeInv, ReportInv, EarnedInv, Deliberate
    PROVE  EarnedInv'
  <1>. USE ValidationAssumption
  <1>1. /\ inbox = <<>> /\ inbox' = <<>> /\ pc' # "reflect"
        /\ UNCHANGED <<board, outputs, awaiting>>
    <2>1. pc' # "reflect" /\ UNCHANGED <<board, outputs, external>>
      BY DEF Deliberate, Select, SelectEscalation, SelectNothing, WaitBoundary, progress
    <2> QED
      BY <2>1, CouncilSteps DEF ReportInv, external
  <1>2. Certified \subseteq Certified'
    <2>1. report => report'
      BY DEF Deliberate, Select, SelectEscalation, SelectNothing, progress
    <2> QED
      BY <2>1 DEF Certified
  <1>3. AllRun(board', Certified')
    BY <1>1, <1>2, MoreRun DEF EarnedInv
  <1>4. action'.family = "escalate_human" => action'.target # Validation
    BY DEF Deliberate, Select, SelectEscalation, SelectNothing, NoAction, EarnedAssumptions
  <1>5. runStatus' \in {"ready_to_finalize", "completed"} => Results' /\ report'
    <2>1. CASE SelectEscalation \/ \E a \in Menu : Select(a)
      BY <2>1 DEF Select, SelectEscalation, Opened, EarnedInv, Results, progress
    <2>2. CASE \E flag \in NoopFlags : SelectNothing(flag)
      <3>1. PICK flag \in NoopFlags : SelectNothing(flag)
        BY <2>2
      <3>2. flag # "ready"
        BY DEF EarnedAssumptions
      <3> DEFINE finalizable == Results /\ ~ComputeFailed
                 review == flag = "plain" /\ MeetingReason = "validation"
      <3>3. runStatus' = StatusWithoutAction(flag, review, finalizable)
        BY <3>1 DEF SelectNothing
      <3>4. CASE review /\ finalizable
        BY <3>1, <3>4 DEF SelectNothing, Results
      <3>5. CASE ~(review /\ finalizable)
        <4> HIDE DEF review, finalizable
        <4>1. StatusWithoutAction(flag, review, finalizable)
                \in {"waiting_external", "failed", "skipped"}
          BY <3>2, <3>5, Zenon DEF StatusWithoutAction
        <4> QED
          BY <3>3, <4>1
      <3> QED
        BY <3>4, <3>5
    <2> QED
      BY <2>1, <2>2 DEF Deliberate
  <1> QED
    BY <1>1, <1>3, <1>4, <1>5 DEF EarnedInv

\* Whatever the legality check calls ready to finalize has results and a report:
\* a board on which everything is completed lists the validation.
LEMMA FinalizableIsEarned ==
    ASSUME TypeInv, ReportInv, BoardInv, EarnedInv, Dispatched,
           action.family = "finalize_material"
    PROVE  Results /\ report
  <1>1. /\ runStatus \notin TerminalRunStatuses /\ runStatus # "ready_to_finalize"
        /\ FinalizeReady /\ Evidence(action) /\ Settled(board)
    BY DEF Dispatched, Executing, Legal, ReportInv, BoardInv
  <1>2. Results
    <2>1. Evidence(action) =>
             Results \/ runStatus \in TerminalRunStatuses \cup {"ready_to_finalize"}
      BY DEF Evidence
    <2> QED
      BY <1>1, <2>1
  <1>3. CASE AllResolved(board)
    <2>1. Validation \in Caps
      BY ValidationAssumption DEF Caps
    <2>2. Held(board, Validation)
      BY <1>1, <2>1 DEF Settled, AllHeld
    <2>3. On(board, "completed", Validation)
      BY <1>3, <2>1, <2>2 DEF Held, On, AllResolved, Empty, Lists
    <2>4. Validation \in Certified
      BY <2>1, <2>3 DEF EarnedInv, AllRun
    <2>5. report
      BY <2>4 DEF Certified
    <2> QED
      BY <1>2, <2>5
  <1>4. CASE report
    BY <1>2, <1>4
  <1> QED
    BY <1>1, <1>3, <1>4 DEF FinalizeReady

LEMMA EarnedExecute ==
    ASSUME EarnedAssumptions, TypeInv, ReportInv, BoardInv, EarnedInv, Execute
    PROVE  EarnedInv'
  <1> DEFINE t == action.target
  <1>. USE ValidationAssumption
  <1>1. Executing
    BY DEF Execute, Refused, RunStage, RunPrepare, RefineWithoutPoints, RunValidation,
       SubmitExternalJob, DropChannel, NoTarget, End, Escalate, Dispatched
  <1>2. report => report'
    BY DEF Execute, Refused, RunStage, RunPrepare, RefineWithoutPoints, RunValidation,
       SubmitExternalJob, DropChannel, NoTarget, End, Escalate, progress
  <1>3. AllRun(board', Certified')
    <2>1. Certified \subseteq Certified'
      BY <1>2 DEF Certified
    <2> QED
      BY <2>1, ExecuteKeepsRun, MoreRun DEF EarnedInv
  <1>4. inbox' = inbox /\ action' = action
    BY <1>1 DEF Executing
  <1>5. awaiting' # Validation
    <2>1. CASE SubmitExternalJob
      BY <2>1 DEF SubmitExternalJob, IsStage, IsValidation
    <2>2. CASE ~SubmitExternalJob
      BY <2>2 DEF Execute, Refused, RunStage, RunPrepare, RefineWithoutPoints, RunValidation,
         DropChannel, NoTarget, End, Escalate, EarnedInv
    <2> QED
      BY <2>1, <2>2
  <1>6. /\ obs'.status = "success" /\ Reflecting' \in Caps => Reflecting' \in Certified'
        /\ runStatus' \in {"ready_to_finalize", "completed"} => Results' /\ report'
    <2>1. CASE Refused
      BY <2>1 DEF Refused, Observe
    <2>2. CASE DropChannel
      <3>1. t # Validation
        BY <2>2 DEF DropChannel, IsValidation, EndingFamilies
      <3> QED
        BY <1>4, <2>2, <3>1 DEF DropChannel, Observe, Reflecting, Certified
    <2>3. CASE NoTarget \/ RefineWithoutPoints \/ SubmitExternalJob
      BY <2>3 DEF NoTarget, RefineWithoutPoints, SubmitExternalJob, Observe
    <2>4. CASE End
      <3>1. CASE action.family = "finalize_material"
        <4>1. Results /\ report /\ UNCHANGED <<outputs, report>>
          BY <2>4, <3>1, FinalizableIsEarned DEF End, progress
        <4> QED
          BY <4>1 DEF Results, Certified
      <3>2. CASE action.family # "finalize_material"
        BY <2>4, <3>2 DEF End, Observe
      <3> QED
        BY <3>1, <3>2
    <2>5. CASE \E ok \in BOOLEAN : RunStage(ok)
      <3>1. t # Validation
        BY <2>5 DEF RunStage, IsStage, IsValidation
      <3> QED
        BY <1>4, <2>5, <3>1 DEF RunStage, RecordStage, Observe, Reflecting, Certified
    <2>6. CASE \E ok \in BOOLEAN : RunPrepare(ok)
      BY <2>6 DEF RunPrepare, RecordStage, Observe, Reflecting, Certified, Prepare
    <2>7. CASE RunValidation
      BY <2>7 DEF RunValidation, Observe, Certified
    <2>8. ASSUME NEW answer \in HumanAnswers, Escalate(answer)
          PROVE  /\ obs'.status = "success" /\ Reflecting' \in Caps => Reflecting' \in Certified'
                 /\ runStatus' \notin {"ready_to_finalize", "completed"}
      <3>1. t \in 0 .. Validation - 1 /\ answer.stage # Validation
        BY <2>8, TargetType DEF Escalate, EarnedInv, EarnedAssumptions
      <3>2. PreviousStage(t) # Validation
        <4>1. t \in {0, Prepare} \/ t = Mobility \/ t \in Caps \ {Prepare, Mobility}
          BY <3>1 DEF Caps, Prepare, Mobility
        <4>2. PreviousStage(t) \in {t, Elsewhere, t - 1}
          BY <4>1, Zenon DEF PreviousStage
        <4> QED
          BY <3>1, <4>2 DEF Elsewhere
      <3>3. ResumeStage(answer, t) # Validation
        <4>1. ResumeStage(answer, t) \in {Elsewhere, t, PreviousStage(t), answer.stage}
          BY Zenon DEF ResumeStage
        <4> QED
          BY <3>1, <3>2, <4>1 DEF Elsewhere
      <3>4. /\ runStatus' \in {"skipped", "failed", "running"}
            /\ obs'.status = "success" => obs'.target = ResumeStage(answer, t)
        BY <2>8 DEF Escalate, Observe
      <3> QED
        BY <1>4, <3>1, <3>3, <3>4 DEF Reflecting, Certified
    <2> QED
      BY <2>1, <2>2, <2>3, <2>4, <2>5, <2>6, <2>7, <2>8 DEF Execute
  <1> QED
    BY <1>3, <1>4, <1>5, <1>6 DEF EarnedInv

\* The steps that neither consume, nor select, nor execute.
LEMMA EarnedOthers ==
    ASSUME TypeInv, ReportInv, EarnedInv,
           \/ Resume \/ Leave \/ Reflect \/ RecoverWait \/ Finish
           \/ OutOfRounds \/ UNCHANGED vars
           \/ \E e \in Events : Submit(e)
           \/ \E next \in Caps : Activate(next)
    PROVE  EarnedInv'
  <1>. USE ValidationAssumption
  <1>1. UNCHANGED <<outputs, report>>
    BY DEF Resume, Leave, Reflect, RecoverWait, Finish, OutOfRounds, vars, Submit, Activate, progress
  <1>2. Certified' = Certified /\ Results' = Results
    BY <1>1 DEF Certified, Results
  <1>3. CASE Resume \/ Leave \/ OutOfRounds \/ UNCHANGED vars
    <2>1. /\ UNCHANGED <<board, runStatus, awaiting, action, inbox, obs>>
          /\ pc' # "reflect" \/ pc' = pc
      BY <1>3 DEF Resume, Leave, WaitBoundary, OutOfRounds, vars, external
    <2> QED
      BY <1>1, <1>2, <2>1 DEF EarnedInv, Reflecting
  <1>4. CASE Reflect
    <2>1. AllRun(board', Certified)
      BY <1>4, ReflectKeepsRun DEF EarnedInv, Reflect
    <2>2. UNCHANGED <<runStatus, awaiting, action, inbox>> /\ pc' # "reflect"
      BY <1>4 DEF Reflect, external
    <2> QED
      BY <1>1, <1>2, <2>1, <2>2 DEF EarnedInv
  <1>5. CASE RecoverWait
    BY <1>1, <1>2, <1>5 DEF RecoverWait, EarnedInv
  <1>6. CASE Finish
    <2>1. UNCHANGED <<board, awaiting, action, inbox>> /\ pc' # "reflect"
      BY <1>6 DEF Finish, external
    <2>2. runStatus' \in {"ready_to_finalize", "completed"}
             => runStatus \in {"ready_to_finalize", "completed"}
      <3>1. TerminalOrFinalizable
               => runStatus \in TerminalRunStatuses \cup {"ready_to_finalize"}
        BY DEF TerminalOrFinalizable, ReportInv
      <3> QED
        BY <1>6, <3>1 DEF Finish, FinalStatus, TerminalRunStatuses
    <2> QED
      BY <1>1, <1>2, <2>1, <2>2 DEF EarnedInv
  <1>7. CASE \E e \in Events : Submit(e)
    <2>1. PICK e \in Events : Submit(e)
      BY <1>7
    <2>2. inbox' = <<e>> /\ UNCHANGED runStatus
      BY <2>1, SubmitSteps DEF ReportInv
    <2>3. UNCHANGED <<board, awaiting, action>> /\ pc' # "reflect"
      BY <2>1 DEF Submit
    <2>4. inbox' # <<>> => Head(inbox') \in Events
      BY <2>2
    <2> QED
      BY <1>1, <1>2, <2>2, <2>3, <2>4 DEF EarnedInv
  <1>8. CASE \E next \in Caps : Activate(next)
    BY <1>1, <1>2, <1>8 DEF Activate, EarnedInv, external
  <1> QED
    BY <1>3, <1>4, <1>5, <1>6, <1>7, <1>8

\* A completed run has results and a validation report of them (check_legality_tool
\* and the endings of select_action), as long as no process dies, no council calls
\* a run ready without an action, and the validation is left to its own stage: no
\* job outside completes it and no answer to an escalation resumes at it.
THEOREM CompletionIsEarned ==
    ASSUME EarnedAssumptions
    PROVE  Spec => []CompletedIsEarned
  <1>1. Init => EarnedInv
    BY ValidationAssumption
    DEF Init, InitialBoard, EarnedInv, AllRun, On, Lists, NoAction
  <1>2. TypeInv /\ ReportInv /\ BoardInv /\ EarnedInv /\ [Next]_vars => EarnedInv'
    <2> SUFFICES ASSUME TypeInv, ReportInv, BoardInv, EarnedInv, [Next]_vars
                 PROVE  EarnedInv'
      OBVIOUS
    <2>1. ~Crash
      BY DEF Crash, EarnedAssumptions, TypeInv, TypeOK
    <2> QED
      BY <2>1, EarnedConsume, EarnedDeliberate, EarnedExecute, EarnedOthers DEF Next, Drive
  <1>3. EarnedInv => CompletedIsEarned
    BY DEF EarnedInv, CompletedIsEarned
  <1>4. TypeInv => crashes = 0
    BY NoDeaths DEF EarnedAssumptions, TypeInv
  <1>5. Spec => []BoardInv
    BY BoardInvariance DEF EarnedAssumptions
  <1> QED
    BY <1>1, <1>2, <1>3, <1>4, <1>5, TypeInvariance, ReportInvariance, PTL DEF Spec

-----------------------------------------------------------------------------
(* The legality of what is executed.                                       *)

\* An action whose reset, if any, is of the last stage before a milestone or of a
\* later one, and whose other effects are those of its own stage.
Tame(a) ==
    /\ a.family \in {"invalidate_channel", "finalize_material"} => a.target = 0
    /\ a.family = "revalidate_result" => a.target = Validation
    /\ a.family \in {"rerun_from_capability", "repair_execution_context"}
          => a.target = 0 \/ a.target >= StrainLoop
    /\ a.family = "refine_sampling" => a.target = StrainLoop
    /\ a.external => a.family = "repair_execution_context"

LegalAssumptions ==
    /\ MaxCrashes = 0 /\ Events = {}
    /\ \A answer \in HumanAnswers : answer.kind \in {"skip", "abort"}
    /\ \A a \in Menu : Tame(a)

\* The contract does not go on from here: the council meets, or the run waits or
\* is over.
Stopped == pc # "execute" /\ (obs.status = "failed" \/ runStatus # "running")

\* Until a stage resets them, the stages done are the tasks completed.
DoneIsListed ==
    \A c \in Caps : c < StrainLoop /\ c \in completed =>
        \/ On(board, "completed", c)
        \/ pc = "reflect" /\ obs.status = "success" /\ Reflecting = c

\* A contract is of consecutive stages, and begins with the stage of its action.
PlanFollows ==
    \A c \in contract.planned :
        \/ c = Prepare
        \/ c - 1 \in contract.planned
        \/ c \in completed
        \/ pc = "execute" /\ c = action.target
        \/ Stopped

\* A contract that reaches from the strain loop to the mobility stops between.
RefineStops ==
    {StrainLoop, Mobility} \subseteq contract.planned =>
        \/ pc = "execute" /\ action.target = StrainLoop
        \/ Stopped
        \/ pc # "execute" /\ obs.status = "success" /\ obs.target = StrainLoop

\* One that validates the mobility does so right after computing it.
TailFollows ==
    Mobility \in contract.planned =>
        /\ contract.planned \subseteq StrainLoop .. Validation
        /\ \/ pc = "execute" /\ action.target \in {StrainLoop, Mobility, Validation}
           \/ Stopped
           \/ /\ pc # "execute" /\ obs.status = "success"
              /\ \/ obs.target \in {StrainLoop, Validation}
                 \/ /\ obs.target = Mobility
                    /\ pc = "reflect" \/ On(board, "completed", Mobility)

\* Only a skip, which ends the run, abandons a task.
NoneAbandoned ==
    /\ runStatus \notin TerminalRunStatuses => Empty(board, "abandoned")
    /\ pc = "reflect" /\ obs.status = "skipped" => runStatus \in TerminalRunStatuses

PlanInv ==
    /\ Tame(action)
    /\ contract.made => runStatus # "pending"
    /\ pc # "reflect" => checkpoint.completed = completed
    /\ NoneAbandoned
    /\ DoneIsListed
    /\ PlanFollows
    /\ RefineStops
    /\ TailFollows

\* What the contract made with an action plans.
LEMMA PlanShape ==
    ASSUME NEW a \in Actions, Tame(a), NEW reason \in Reasons
    PROVE  /\ \A c \in PlannedFor(a, reason) :
                  c = Prepare \/ c - 1 \in PlannedFor(a, reason) \/ c = a.target
           /\ {StrainLoop, Mobility} \subseteq PlannedFor(a, reason) => a.target = StrainLoop
           /\ Mobility \in PlannedFor(a, reason) =>
                  /\ a.target \in {StrainLoop, Mobility, Validation}
                  /\ PlannedFor(a, reason) \subseteq StrainLoop .. Validation
  <1>. USE ValidationAssumption DEF Prepare, StrainLoop, Mobility
  <1> DEFINE Shape(p) ==
                 /\ \A c \in p : c = Prepare \/ c - 1 \in p \/ c = a.target
                 /\ {StrainLoop, Mobility} \subseteq p => a.target = StrainLoop
                 /\ Mobility \in p => /\ a.target \in {StrainLoop, Mobility, Validation}
                                      /\ p \subseteq StrainLoop .. Validation
  <1>1. a.target \in 0 .. Validation
    BY DEF Actions
  <1>2. Shape({}) /\ Shape({Prepare}) /\ Shape({a.target}) /\ Shape(Prepare .. StrainLoop)
    BY <1>1
  <1>3. ASSUME a.target \in Prepare .. StrainLoop
        PROVE  Shape(a.target .. StrainLoop)
    BY <1>3
  <1>4. a.target = Mobility => Shape({Mobility, Validation})
    OBVIOUS
  <1>5. a.target = Validation => Shape({Validation})
    OBVIOUS
  <1>6. a.target = StrainLoop => Shape({StrainLoop, Mobility, Validation})
    OBVIOUS
  <1>7. a.family = "refine_sampling" => a.target = StrainLoop
    BY DEF Tame
  <1>8. a.family = "revalidate_result" => a.target = Validation
    BY DEF Tame
  <1>9. a.target \in Prepare .. StrainLoop \/ a.target \in {Mobility, Validation, 0}
    BY <1>1
  <1> HIDE DEF Shape
  <1>10. Shape(StrictPlan(a, reason))
    BY <1>2 DEF StrictPlan
  <1>11. Shape(SegmentPlan(a, reason))
    <2>1. CASE CouncilMode(reason) = "validation"
      <3>1. SegmentPlan(a, reason) = {}
        BY <2>1, Zenon DEF SegmentPlan
      <3> QED
        BY <1>2, <3>1
    <2>2. CASE CouncilMode(reason) # "validation"
      <3> DEFINE plan == CASE a.target \in Prepare .. StrainLoop -> a.target .. StrainLoop
                           [] a.target = Mobility                -> {Mobility, Validation}
                           [] a.target = Validation              -> {Validation}
                           [] a.target = 0 -> IF reason = "initial" THEN Prepare .. StrainLoop ELSE {}
      <3>1. SegmentPlan(a, reason) = plan
        BY <2>2, Zenon DEF SegmentPlan
      <3>2. CASE a.target \in Prepare .. StrainLoop
        <4>1. plan = a.target .. StrainLoop
          BY <3>2
        <4> QED
          BY <1>3, <3>1, <3>2, <4>1
      <3>3. CASE a.target = Mobility
        <4>1. plan = {Mobility, Validation}
          BY <3>3
        <4> QED
          BY <1>4, <3>1, <3>3, <4>1
      <3>4. CASE a.target = Validation
        <4>1. plan = {Validation}
          BY <3>4
        <4> QED
          BY <1>5, <3>1, <3>4, <4>1
      <3>5. CASE a.target = 0
        <4>1. plan = IF reason = "initial" THEN Prepare .. StrainLoop ELSE {}
          BY <3>5
        <4> QED
          BY <1>2, <3>1, <4>1
      <3> QED
        BY <1>9, <3>2, <3>3, <3>4, <3>5
    <2> QED
      BY <2>1, <2>2
  <1>12. Shape(PlannedFor(a, reason))
    BY <1>2, <1>5, <1>6, <1>7, <1>8, <1>10, <1>11, Zenon DEF PlannedFor
  <1> QED
    BY <1>12 DEF Shape

\* What an execution may do to the board under a contract: it takes nothing off
\* the completed tasks of the stages before the strain loop, and abandons nothing.
Spared(b, after) ==
    /\ \A c \in Caps : c < StrainLoop => after["completed"][c] = b["completed"][c]
    /\ Empty(b, "abandoned") => Empty(after, "abandoned")

LEMMA MovesSpare ==
    ASSUME NEW b \in Boards, NEW after \in Boards, Spared(b, after), NEW t \in Caps
    PROVE  /\ Spared(b, Started(after, t))
           /\ t >= StrainLoop => Spared(b, ResetFrom(after, t))
           /\ Spared(b, Normalised(after))
  <1>. USE DEF Spared, Empty
  <1>1. \A c \in Caps : /\ Started(after, t)["completed"][c] = after["completed"][c]
                        /\ Started(after, t)["abandoned"][c] = after["abandoned"][c]
    BY MoveCounts DEF Started, Lists
  <1>2. ASSUME t >= StrainLoop
        PROVE  Spared(b, ResetFrom(after, t))
    <2>1. \A c \in Caps : /\ c < StrainLoop => ResetFrom(after, t)["completed"][c]
                                                = after["completed"][c]
                          /\ ResetFrom(after, t)["abandoned"][c] \in {0, after["abandoned"][c]}
      BY <1>2, ValidationAssumption DEF ResetFrom, Lists, Caps, StrainLoop
    <2> QED
      BY <2>1
  <1>3. \A l \in Lists \ {"pending"} : Normalised(after)[l] = after[l]
    BY DEF Normalised, Boards
  <1>4. Spared(b, Started(after, t))
    BY <1>1
  <1>5. Spared(b, Normalised(after))
    BY <1>3 DEF Lists
  <1> QED
    BY <1>2, <1>4, <1>5

\* What comes of executing a tame action, when no human sends the run back: it
\* fails, or the run waits or is over, or the stage it names is done.
LEMMA ExecuteOutcome ==
    ASSUME TypeInv, Tame(action), Execute,
           \A answer \in HumanAnswers : answer.kind \in {"skip", "abort"}
    PROVE  /\ pc = "execute" /\ pc' = "reflect" /\ UNCHANGED <<action, contract>>
           /\ completed \subseteq completed'
           /\ \/ obs'.status = "failed"
              \/ runStatus' # "running"
              \/ /\ obs'.status = "success" /\ obs'.target = action.target
                 /\ action.target # 0 => action.target \in completed'
           /\ \A c \in Caps : c \in completed' /\ c \notin completed =>
                  c >= StrainLoop \/ obs' = [target |-> c, status |-> "success"]
           /\ runStatus' # "pending"
           /\ obs'.status = "skipped" => runStatus' \in TerminalRunStatuses
           /\ runStatus' \notin TerminalRunStatuses =>
                  Legal(action)
  <1>. USE ValidationAssumption DEF TerminalRunStatuses
  <1>1. Executing
    BY DEF Execute, Refused, RunStage, RunPrepare, RefineWithoutPoints, RunValidation,
       SubmitExternalJob, DropChannel, NoTarget, End, Escalate, Dispatched
  <1>2. pc = "execute" /\ pc' = "reflect" /\ UNCHANGED <<action, contract>>
    BY <1>1 DEF Executing, flow
  <1>3. CASE Refused
    BY <1>2, <1>3 DEF Refused, Observe, progress
  <1>4. CASE NoTarget \/ RefineWithoutPoints
    BY <1>2, <1>4 DEF NoTarget, RefineWithoutPoints, Dispatched, Observe, progress
  <1>5. CASE DropChannel
    BY <1>2, <1>5 DEF DropChannel, Dispatched, Observe, progress, Tame
  <1>6. CASE SubmitExternalJob
    BY <1>2, <1>6 DEF SubmitExternalJob, Dispatched, Observe, progress
  <1>7. CASE End
    BY <1>2, <1>7 DEF End, Dispatched, Observe, progress
  <1>8. CASE \E answer \in HumanAnswers : Escalate(answer)
    BY <1>2, <1>8 DEF Escalate, Observe, progress
  <1>9. CASE \E ok \in BOOLEAN : RunStage(ok)
    BY <1>2, <1>9 DEF RunStage, RecordStage, Dispatched, Observe
  <1>10. CASE \E ok \in BOOLEAN : RunPrepare(ok)
    BY <1>2, <1>10 DEF RunPrepare, RecordStage, Dispatched, Observe
  <1>11. CASE RunValidation
    <2>1. action.target = Validation
      BY <1>11 DEF RunValidation, IsValidation, Tame
    <2> QED
      BY <1>2, <1>11, <2>1 DEF RunValidation, Dispatched, Observe, StrainLoop
  <1> QED
    BY <1>3, <1>4, <1>5, <1>6, <1>7, <1>8, <1>9, <1>10, <1>11 DEF Execute

LEMMA ExecuteSpares ==
    ASSUME TypeInv, Tame(action), Execute,
           \A answer \in HumanAnswers : answer.kind \in {"skip", "abort"}
    PROVE  Spared(board, board')
  <1> DEFINE t == action.target
  <1>. USE ValidationAssumption
  <1>1. board \in Boards /\ Launched \in Boards
    BY LaunchedType DEF TypeInv, TypeOK
  <1>2. Spared(board, board)
    BY DEF Spared
  <1>3. Spared(board, Launched)
    <2>1. action.family \in TargetedFamilies => t \in Caps
      BY DEF TypeInv, ActionTargets
    <2> QED
      BY <1>1, <1>2, <2>1, MovesSpare DEF Launched
  <1>4. ASSUME NEW b \in Boards, Spared(board, b)
        PROVE  Spared(board, Normalised(b))
    BY <1>1, <1>4, MovesSpare DEF Caps
  <1>5. CASE Refused \/ DropChannel \/ NoTarget \/ End
    BY <1>2, <1>5 DEF Refused, DropChannel, NoTarget, End
  <1>6. CASE RefineWithoutPoints \/ RunValidation \/ \E ok \in BOOLEAN : RunPrepare(ok)
    <2>1. board' = Normalised(Launched)
      BY <1>6 DEF RefineWithoutPoints, RunValidation, RunPrepare
    <2> QED
      BY <1>1, <1>3, <1>4, <2>1
  <1>7. ASSUME NEW ok \in BOOLEAN, RunStage(ok)
        PROVE  Spared(board, board')
    <2>1. t \in Caps
      BY <1>7, TargetType DEF RunStage, Caps
    <2>2. Resets => t >= StrainLoop
      BY <2>1 DEF Resets, Tame, Caps
    <2>3. /\ (IF Resets THEN ResetFrom(Launched, t) ELSE Launched) \in Boards
          /\ Spared(board, IF Resets THEN ResetFrom(Launched, t) ELSE Launched)
      BY <1>1, <1>3, <2>1, <2>2, ResetType, MovesSpare
    <2> QED
      BY <1>4, <1>7, <2>3 DEF RunStage
  <1>8. CASE SubmitExternalJob
    <2>1. t \in Caps /\ board' = Normalised(ResetFrom(board, t)) /\ action.external
      BY <1>8 DEF SubmitExternalJob, TypeInv, ActionTargets
    <2>2. t >= StrainLoop
      BY <2>1 DEF Tame, Caps
    <2>3. ResetFrom(board, t) \in Boards /\ Spared(board, ResetFrom(board, t))
      BY <1>1, <1>2, <2>1, <2>2, ResetType, MovesSpare
    <2> QED
      BY <1>4, <2>1, <2>3
  <1>9. CASE \E answer \in HumanAnswers : Escalate(answer)
    BY <1>2, <1>9 DEF Escalate
  <1> QED
    BY <1>5, <1>6, <1>7, <1>8, <1>9 DEF Execute

LEMMA PlanExecute ==
    ASSUME LegalAssumptions, TypeInv, PlanInv, Execute
    PROVE  PlanInv'
  <1> DEFINE t == action.target
             Done1 == obs'.status = "success" /\ obs'.target = t
  <1>. USE ValidationAssumption
  <1>1. /\ pc = "execute" /\ pc' = "reflect" /\ UNCHANGED <<action, contract>>
        /\ completed \subseteq completed'
        /\ Stopped' \/ (Done1 /\ (t # 0 => t \in completed'))
        /\ \A c \in Caps : c \in completed' /\ c \notin completed =>
               c >= StrainLoop \/ obs' = [target |-> c, status |-> "success"]
        /\ runStatus' # "pending"
        /\ obs'.status = "skipped" => runStatus' \in TerminalRunStatuses
        /\ runStatus' \notin TerminalRunStatuses => Legal(action)
    BY ExecuteOutcome DEF LegalAssumptions, PlanInv, Stopped
  <1>2. Spared(board, board')
    BY ExecuteSpares DEF LegalAssumptions, PlanInv
  <1>3. NoneAbandoned'
    <2>1. runStatus' \notin TerminalRunStatuses => runStatus \notin TerminalRunStatuses
      BY <1>1 DEF Legal
    <2> QED
      BY <1>1, <1>2, <2>1 DEF PlanInv, NoneAbandoned, Spared
  <1>4. DoneIsListed'
    <2> SUFFICES ASSUME NEW c \in Caps, c < StrainLoop, c \in completed'
                 PROVE  \/ On(board', "completed", c)
                        \/ obs'.status = "success" /\ Reflecting' = c
      BY <1>1 DEF DoneIsListed
    <2>1. CASE c \in completed
      BY <1>1, <1>2, <2>1 DEF PlanInv, DoneIsListed, Spared, On
    <2>2. CASE c \notin completed
      <3>1. obs' = [target |-> c, status |-> "success"]
        BY <1>1, <2>2 DEF StrainLoop, Caps
      <3> QED
        BY <3>1 DEF Reflecting, Caps
    <2> QED
      BY <2>1, <2>2
  <1>5. PlanFollows'
    BY <1>1 DEF PlanInv, PlanFollows, Stopped, Caps, TypeInv, TypeOK
  <1>6. RefineStops'
    BY <1>1 DEF PlanInv, RefineStops, Stopped
  <1>7. TailFollows'
    BY <1>1 DEF PlanInv, TailFollows, Stopped
  <1> QED
    BY <1>1, <1>3, <1>4, <1>5, <1>6, <1>7 DEF PlanInv, Tame

\* A council that meets makes the plan anew, or stops.
LEMMA PlanDeliberate ==
    ASSUME LegalAssumptions, TypeInv, JobInv, PlanInv, Deliberate
    PROVE  PlanInv'
  <1>. USE ValidationAssumption
  <1>1. /\ OpenRound /\ AtGate /\ pc \in {"gate", "loop"}
        /\ runStatus \notin TerminalRunStatuses
    BY DEF Deliberate, Select, SelectEscalation, SelectNothing, OpenRound, MeetingReason,
       AtGate, RunIsOver, JobInv
  <1>2. UNCHANGED <<board, obs>> /\ completed \subseteq completed'
    BY DEF Deliberate, Select, SelectEscalation, SelectNothing, progress
  <1>3. /\ checkpoint'.completed = completed' /\ runStatus' # "pending"
        /\ pc' # "reflect"
    BY DEF Deliberate, Select, SelectEscalation, SelectNothing, progress, Opened,
       StatusWithoutAction, WaitBoundary
  <1>4. \A c \in completed' : c \in completed \/ c = Validation
    BY DEF Deliberate, Select, SelectEscalation, SelectNothing, progress
  <1>5. DoneIsListed'
    BY <1>1, <1>2, <1>4 DEF PlanInv, DoneIsListed, StrainLoop
  <1>6. NoneAbandoned'
    BY <1>1, <1>2, <1>3 DEF PlanInv, NoneAbandoned
  <1>7. ASSUME NEW a \in Menu, Select(a)
        PROVE  PlanInv'
    <2>1. a \in Actions /\ Tame(a) /\ MeetingReason \in Reasons
      BY <1>7, MenuAssumption, MeetingReasonType DEF LegalAssumptions
    <2>2. action' = a /\ pc' = "execute" /\ contract'.planned = PlannedFor(a, MeetingReason)
      BY <1>7 DEF Select
    <2>3. PlanFollows' /\ RefineStops' /\ TailFollows'
      BY <2>1, <2>2, PlanShape DEF PlanFollows, RefineStops, TailFollows
    <2> QED
      BY <1>3, <1>5, <1>6, <2>1, <2>2, <2>3 DEF PlanInv
  <1>8. CASE SelectEscalation
    <2>1. contract'.planned = {} /\ action' = [family |-> "escalate_human", target |-> 0,
                                               external |-> FALSE]
      BY <1>8 DEF SelectEscalation
    <2>2. PlanFollows' /\ RefineStops' /\ TailFollows' /\ Tame(action)'
      BY <2>1 DEF PlanFollows, RefineStops, TailFollows, Tame
    <2> QED
      BY <1>3, <1>5, <1>6, <2>2 DEF PlanInv
  <1>9. ASSUME NEW flag \in NoopFlags, SelectNothing(flag)
        PROVE  PlanInv'
    <2>1. /\ UNCHANGED contract /\ action' = NoAction
          /\ pc' \in {"finalize", "recover"} /\ runStatus' # "running"
      BY <1>9 DEF SelectNothing, StatusWithoutAction, WaitBoundary
    <2>2. Stopped'
      BY <2>1 DEF Stopped
    <2>3. PlanFollows' /\ RefineStops'
      BY <2>1, <2>2 DEF PlanFollows, RefineStops
    <2>4. TailFollows'
      BY <2>1, <2>2 DEF PlanInv, TailFollows
    <2>5. Tame(action)'
      BY <2>1 DEF Tame, NoAction
    <2> QED
      BY <1>3, <1>5, <1>6, <2>3, <2>4, <2>5 DEF PlanInv
  <1> QED
    BY <1>7, <1>8, <1>9 DEF Deliberate

\* No reason to meet: what went before did not stop, and reached no milestone.
LEMMA GoesOn ==
    ASSUME JobInv, TypeInv, PlanInv, NEW next \in Caps, Activate(next)
    PROVE  /\ pc \in {"gate", "loop"} /\ ~Stopped /\ runStatus = "running"
           /\ obs.status # "failed"
           /\ ~(obs.status = "success" /\ obs.target \in {StrainLoop, Validation})
           /\ next \in contract.planned \ completed
           /\ \A c \in contract.planned \ completed : next <= c
  <1>1. /\ AtGate /\ ~RunIsOver /\ runStatus # "waiting_external"
        /\ MeetingReason = "none" /\ NextPlanned(next, Done)
    BY DEF Activate
  <1>2. pc \in {"gate", "loop"}
    BY <1>1 DEF AtGate
  <1>3. DeliberationReason = "none"
    BY <1>1, <1>2 DEF MeetingReason
  <1>4. /\ contract.made /\ checkpoint.reason = "none"
        /\ obs.status # "failed" /\ runStatus \notin {"needs_recovery", "ready_to_finalize"}
        /\ ~(obs.status = "success" /\ obs.target \in {StrainLoop, Validation})
    BY <1>1, <1>3, Zenon DEF DeliberationReason, ReasonIn
  <1>5. runStatus = "running"
    BY <1>1, <1>4 DEF PlanInv, TypeInv, TypeOK, RunStatuses, RunIsOver, TerminalRunStatuses
  <1>6. Done = completed
    BY <1>2 DEF Done, PlanInv
  <1> QED
    BY <1>1, <1>2, <1>4, <1>5, <1>6 DEF NextPlanned, Stopped

LEMMA PlanActivate ==
    ASSUME TypeInv, JobInv, RunInv, PlanInv, NEW next \in Caps, Activate(next)
    PROVE  PlanInv'
  <1>. USE ValidationAssumption
  <1>1. /\ pc \in {"gate", "loop"} /\ ~Stopped /\ runStatus = "running"
        /\ ~(obs.status = "success" /\ obs.target \in {StrainLoop, Validation})
        /\ next \in contract.planned \ completed
    BY GoesOn
  <1>2. /\ UNCHANGED <<board, runStatus, obs, contract, completed>>
        /\ checkpoint'.completed = completed /\ pc' = "execute"
        /\ action' = [family |-> "run_capability", target |-> next, external |-> FALSE]
    BY DEF Activate, progress
  <1>3. Tame(action)' /\ NoneAbandoned' /\ DoneIsListed'
    BY <1>1, <1>2 DEF PlanInv, Tame, NoneAbandoned, DoneIsListed
  <1>4. PlanFollows'
    BY <1>1, <1>2 DEF PlanInv, PlanFollows
  <1>5. RefineStops'
    BY <1>1, <1>2 DEF PlanInv, RefineStops
  <1>6. TailFollows'
    <2> SUFFICES ASSUME Mobility \in contract.planned
                 PROVE  /\ contract.planned \subseteq StrainLoop .. Validation
                        /\ next \in {StrainLoop, Mobility, Validation}
      BY <1>2 DEF TailFollows
    <2>1. contract.planned \subseteq StrainLoop .. Validation
      BY DEF PlanInv, TailFollows
    <2> QED
      BY <1>1, <2>1 DEF Caps, StrainLoop, Mobility
  <1> QED
    BY <1>2, <1>3, <1>4, <1>5, <1>6 DEF PlanInv

\* What reflect_round makes of the completed and the abandoned tasks.
LEMMA ReflectedTasks ==
    ASSUME TypeInv, Reflecting \in Caps
    PROVE  LET b == Normalised(Reflected(Reflecting))
           IN  /\ \A c \in Caps : On(board, "completed", c) => On(b, "completed", c)
               /\ obs.status = "success" => On(b, "completed", Reflecting)
               /\ obs.status # "skipped" /\ Empty(board, "abandoned") => Empty(b, "abandoned")
  <1> DEFINE t == Reflecting
             Fine(b) == /\ \A c \in Caps : On(board, "completed", c) => On(b, "completed", c)
                        /\ obs.status = "success" => On(b, "completed", t)
                        /\ obs.status # "skipped" /\ Empty(board, "abandoned")
                              => Empty(b, "abandoned")
  <1>. USE DEF On, Empty
  <1>1. board \in Boards /\ Reflected(t) \in Boards
    BY ReflectedType DEF TypeInv, TypeOK
  <1>2. Fine(Reflected(t))
    <2>1. CASE obs.status = "success"
      <3>1. Reflected(t) = Completed(board, t)
        BY <2>1, Zenon DEF Reflected
      <3>2. /\ \A c \in Caps : On(board, "completed", c) => On(Completed(board, t), "completed", c)
            /\ On(Completed(board, t), "completed", t)
            /\ Empty(board, "abandoned") => Empty(Completed(board, t), "abandoned")
        <4> DEFINE after == Completed(board, t)
        <4>1. \A c \in Caps : /\ c # t => after["completed"][c] = board["completed"][c]
                              /\ after["abandoned"][c] = board["abandoned"][c]
          BY <1>1, MoveCounts DEF Completed, ActiveOrPending, Lists
        <4>2. after["completed"][t] = board["completed"][t] + 1
          BY <1>1, MoveCounts DEF Completed, ActiveOrPending, Lists
        <4>3. board["completed"][t] \in Nat
          BY <1>1 DEF Boards, Lists
        <4> QED
          BY <4>1, <4>2, <4>3
      <3> QED
        BY <3>1, <3>2
    <2>2. CASE obs.status = "failed"
      <3>1. Reflected(t) = Blocked(board, t)
        BY <2>2, Zenon DEF Reflected
      <3>2. \A c \in Caps : /\ Blocked(board, t)["completed"][c] = board["completed"][c]
                            /\ Blocked(board, t)["abandoned"][c] = board["abandoned"][c]
        BY <1>1, MoveCounts DEF Blocked, Lists
      <3> QED
        BY <2>2, <3>1, <3>2
    <2>3. CASE obs.status = "skipped"
      <3>1. Reflected(t) = Abandoned(board, t)
        BY <2>3, Zenon DEF Reflected
      <3>2. \A c \in Caps : Abandoned(board, t)["completed"][c] = board["completed"][c]
        BY <1>1, MoveCounts DEF Abandoned, ActiveOrPending, Lists
      <3> QED
        BY <2>3, <3>1, <3>2
    <2>4. CASE obs.status \notin {"success", "failed", "skipped"}
      <3>1. Reflected(t) = board
        BY <2>4, Zenon DEF Reflected
      <3> QED
        BY <2>4, <3>1
    <2> QED
      BY <2>1, <2>2, <2>3, <2>4
  <1>3. \A l \in Lists \ {"pending"} : Normalised(Reflected(t))[l] = Reflected(t)[l]
    BY <1>1 DEF Normalised, Boards
  <1>4. Fine(Normalised(Reflected(t)))
    BY <1>2, <1>3 DEF Lists
  <1> QED
    BY <1>4

LEMMA PlanReflect ==
    ASSUME TypeInv, PlanInv, Reflect
    PROVE  PlanInv'
  <1> DEFINE t == Reflecting
  <1>. USE ValidationAssumption
  <1>1. /\ pc = "reflect" /\ pc' \in {"finalize", "loop"}
        /\ UNCHANGED <<obs, action, contract, completed, runStatus>>
        /\ checkpoint'.completed = completed
        /\ board' = Normalised(IF t \in Caps THEN Reflected(t) ELSE board)
    BY DEF Reflect, progress, Reflecting
  <1>2. /\ \A c \in Caps : On(board, "completed", c) => On(board', "completed", c)
        /\ obs.status = "success" /\ t \in Caps => On(board', "completed", t)
        /\ obs.status # "skipped" /\ Empty(board, "abandoned") => Empty(board', "abandoned")
    <2>1. CASE t \in Caps
      BY <1>1, <2>1, ReflectedTasks
    <2>2. CASE t \notin Caps
      <3>1. \A l \in Lists \ {"pending"} : board'[l] = board[l]
        BY <1>1, <2>2 DEF Normalised, Boards, TypeInv, TypeOK
      <3> QED
        BY <2>2, <3>1 DEF On, Empty, Lists
    <2> QED
      BY <2>1, <2>2
  <1>3. Stopped' <=> Stopped
    BY <1>1 DEF Stopped
  <1>4. NoneAbandoned'
    BY <1>1, <1>2 DEF PlanInv, NoneAbandoned
  <1>5. DoneIsListed'
    BY <1>1, <1>2 DEF PlanInv, DoneIsListed
  <1>6. PlanFollows' /\ RefineStops'
    BY <1>1, <1>3 DEF PlanInv, PlanFollows, RefineStops
  <1>7. TailFollows'
    <2>1. obs.target = Mobility => t = Mobility /\ t \in Caps
      BY DEF Reflecting, Mobility, Caps
    <2> QED
      BY <1>1, <1>2, <1>3, <2>1 DEF PlanInv, TailFollows
  <1> QED
    BY <1>1, <1>4, <1>5, <1>6, <1>7 DEF PlanInv, Tame

\* The steps that move nothing the plan rests on, but for ending the run or
\* sending it into recovery.
LEMMA PlanOthers ==
    ASSUME TypeInv, OverInv, PlanInv,
           \/ Resume \/ Leave \/ RecoverWait \/ Finish \/ OutOfRounds \/ UNCHANGED vars
    PROVE  PlanInv'
  <1>1. CASE OutOfRounds \/ UNCHANGED vars
    <2>1. /\ UNCHANGED <<pc, board, obs, runStatus, action, contract, checkpoint, completed>>
      BY <1>1 DEF OutOfRounds, vars, flow, progress
    <2> QED
      BY <2>1 DEF PlanInv, Tame, NoneAbandoned, DoneIsListed, PlanFollows, RefineStops,
         TailFollows, Stopped, Reflecting
  <1>2. CASE Resume \/ Leave \/ RecoverWait \/ Finish
    <2>1. /\ UNCHANGED <<board, action, contract, completed>>
          /\ checkpoint'.completed = completed
          /\ pc \notin {"execute", "reflect"} /\ pc' \notin {"execute", "reflect"}
      BY <1>2 DEF Resume, Leave, AtGate, WaitBoundary, RecoverWait, Finish, flow, progress, PlanInv
    <2>2. Stopped' \/ (UNCHANGED obs /\ (Stopped => Stopped'))
      BY <1>2, <2>1 DEF Resume, Leave, RecoverWait, Finish, FinalStatus, Stopped
    <2>3. /\ runStatus' \notin TerminalRunStatuses => runStatus \notin TerminalRunStatuses
          /\ runStatus' = "pending" => runStatus = "pending"
      BY <1>2 DEF Resume, Leave, RecoverWait, Finish, FinalStatus, OverInv, TerminalRunStatuses
    <2>4. NoneAbandoned' /\ DoneIsListed'
      BY <2>1, <2>3 DEF PlanInv, NoneAbandoned, DoneIsListed
    <2>5. PlanFollows' /\ RefineStops' /\ TailFollows'
      BY <2>1, <2>2 DEF PlanInv, PlanFollows, RefineStops, TailFollows
    <2> QED
      BY <2>1, <2>3, <2>4, <2>5 DEF PlanInv, Tame
  <1> QED
    BY <1>1, <1>2

\* The contract's own step is one that the legality check allows, though the code
\* does not ask it.
LEMMA ActivatedIsLegal ==
    ASSUME TypeInv, JobInv, BoardInv, RunInv, PlanInv, NEW next \in Caps, Activate(next)
    PROVE  Legal(action)'
  <1>. USE ValidationAssumption
  <1>1. /\ pc \in {"gate", "loop"} /\ ~Stopped /\ runStatus = "running"
        /\ ~(obs.status = "success" /\ obs.target \in {StrainLoop, Validation})
        /\ next \in contract.planned \ completed
        /\ \A c \in contract.planned \ completed : next <= c
    BY GoesOn
  <1>2. /\ UNCHANGED <<board, runStatus, jobs>>
        /\ action' = [family |-> "run_capability", target |-> next, external |-> FALSE]
    BY DEF Activate, external
  <1>3. next # Prepare => next - 1 \in completed
    <2>1. next # Prepare => next - 1 \in contract.planned \/ next - 1 \in completed
      BY <1>1 DEF PlanInv, PlanFollows
    <2> QED
      BY <1>1, <2>1 DEF Caps
  <1>4. DependenciesCompleted(board, next)
    <2> SUFFICES ASSUME next # Prepare
                 PROVE  On(board, "completed", next - 1)
      BY DEF DependenciesCompleted
    <2>1. CASE next <= StrainLoop
      BY <1>1, <1>3, <2>1 DEF PlanInv, DoneIsListed, Caps, Prepare, StrainLoop
    <2>2. CASE next > StrainLoop
      <3>1. next - 1 \in contract.planned
        BY <1>1, <2>2 DEF PlanInv, PlanFollows
      <3>2. next = Mobility \/ next = Validation
        BY <2>2 DEF Caps, StrainLoop, Mobility
      <3>3. next # Mobility
        BY <1>1, <3>1 DEF PlanInv, RefineStops, StrainLoop, Mobility
      <3>4. next = Validation /\ next - 1 = Mobility
        BY <3>2, <3>3 DEF Mobility
      <3> QED
        BY <1>1, <3>1, <3>4 DEF PlanInv, TailFollows
    <2> QED
      BY <2>1, <2>2 DEF Caps, StrainLoop
  <1>5. TaskStatus(board, next) \notin {"active", "completed", "abandoned"}
    <2>1. ~On(board, "active", next)
      BY <1>1 DEF BoardInv, Settled, Empty, On
    <2>2. ~On(board, "completed", next)
      BY <1>1 DEF RunInv, AllRun
    <2>3. ~On(board, "abandoned", next)
      BY <1>1 DEF PlanInv, NoneAbandoned, TerminalRunStatuses, Empty, On
    <2>4. CASE On(board, "pending", next)
      BY <2>4, Zenon DEF TaskStatus
    <2>5. CASE ~On(board, "pending", next)
      <3>1. TaskStatus(board, next) = IF On(board, "blocked", next) THEN "blocked" ELSE
                  IF On(board, "abandoned", next) THEN "abandoned" ELSE "unknown"
        BY <2>1, <2>2, <2>5, Zenon DEF TaskStatus
      <3> QED
        BY <2>3, <3>1
    <2> QED
      BY <2>4, <2>5
  <1>6. TaskReady(action)'
    BY <1>2, <1>4, <1>5 DEF TaskReady
  <1>7. jobs' = {}
    BY <1>1, <1>2 DEF JobInv
  <1>8. Evidence(action)'
    <2>1. action'.family = "run_capability"
      BY <1>2
    <2> QED
      BY <2>1, Zenon DEF Evidence
  <1> QED
    BY <1>1, <1>2, <1>6, <1>7, <1>8 DEF Legal, TerminalRunStatuses, PendingJob

\* What the council selects stays legal when the run it opens is no longer pending.
LEMMA SelectedIsLegal ==
    ASSUME NEW a \in Menu, Select(a)
    PROVE  Legal(action)'
  <1>1. /\ Legal(a) /\ action' = a /\ runStatus' = Opened
        /\ UNCHANGED <<board, inbox, jobs, retryCounts, refinements, report, outputs,
                       obs, lastError, quality>>
    BY DEF Select, progress, external, trouble
  <1>2. \/ runStatus' = runStatus
        \/ runStatus = "pending" /\ runStatus' = "running"
    BY <1>1 DEF Opened
  <1>3. Results' = Results /\ Evidence(a)
    BY <1>1 DEF Results, Legal
  <1>4. Evidence(action)'
    <2>1. a.family = "finalize_material" =>
             Results' \/ runStatus' \in TerminalRunStatuses \cup {"ready_to_finalize"}
      <3>1. a.family = "finalize_material" =>
               Results \/ runStatus \in TerminalRunStatuses \cup {"ready_to_finalize"}
        BY <1>3, Zenon DEF Evidence
      <3> QED
        BY <1>2, <1>3, <3>1 DEF TerminalRunStatuses
    <2>2. a.family = "abort_material" =>
             lastError' \/ runStatus' \in {"failed", "aborted", "needs_recovery"}
      <3>1. a.family = "abort_material" =>
               lastError \/ runStatus \in {"failed", "aborted", "needs_recovery"}
        BY <1>3, Zenon DEF Evidence
      <3> QED
        BY <1>1, <1>2, <3>1
    <2>3. CASE a.family \notin {"finalize_material", "abort_material"}
      BY <1>1, <1>3, <2>3, Zenon DEF Evidence
    <2> QED
      BY <1>1, <2>1, <2>2, <2>3, Zenon DEF Evidence
  <1>5. TaskReady(action)' /\ FinalizeReady' = FinalizeReady
    BY <1>1 DEF Legal, TaskReady, FinalizeReady
  <1> QED
    BY <1>1, <1>2, <1>4, <1>5 DEF Legal, PendingJob, TerminalRunStatuses

\* The action about to be executed is one the legality check still allows, also
\* when the contract activated it without asking (activate_next_contract_step,
\* check_legality_tool): as long as no process dies, no event comes, no human sends
\* the run back, and no repair resets a stage before the one that leads to a
\* milestone.  Such a reset takes the task on which the contract's next step
\* depends off the completed ones.
THEOREM ExecutesLegalActions ==
    ASSUME LegalAssumptions
    PROVE  Spec => []SelectedActionIsLegal
  <1>1. Init => PlanInv /\ SelectedActionIsLegal
    BY DEF Init, InitialBoard, PlanInv, NoneAbandoned, DoneIsListed, PlanFollows, RefineStops,
       TailFollows, SelectedActionIsLegal, Tame, NoAction, Empty, Lists
  <1>2. /\ TypeInv /\ OverInv /\ JobInv /\ BoardInv /\ RunInv
        /\ PlanInv /\ SelectedActionIsLegal /\ [Next]_vars
        => PlanInv' /\ SelectedActionIsLegal'
    <2> SUFFICES ASSUME TypeInv, OverInv, JobInv, BoardInv, RunInv,
                        PlanInv, SelectedActionIsLegal, [Next]_vars
                 PROVE  PlanInv' /\ SelectedActionIsLegal'
      OBVIOUS
    <2>1. ~Crash /\ ~(\E e \in Events : Submit(e)) /\ ~ConsumeEvent /\ ~ObserveConsumes
      BY DEF LegalAssumptions, Crash, ConsumeEvent, ObserveConsumes, JobInv, TypeInv, TypeOK
    <2>2. CASE Deliberate
      <3>1. SelectedActionIsLegal'
        <4>1. CASE \E a \in Menu : Select(a)
          BY <4>1, SelectedIsLegal DEF SelectedActionIsLegal
        <4>2. CASE SelectEscalation
          BY <4>2 DEF SelectEscalation, SelectedActionIsLegal
        <4>3. CASE \E flag \in NoopFlags : SelectNothing(flag)
          BY <4>3 DEF SelectNothing, WaitBoundary, SelectedActionIsLegal
        <4> QED
          BY <2>2, <4>1, <4>2, <4>3 DEF Deliberate
      <3> QED
        BY <2>2, <3>1, PlanDeliberate
    <2>3. CASE \E next \in Caps : Activate(next)
      BY <2>3, PlanActivate, ActivatedIsLegal DEF SelectedActionIsLegal
    <2>4. CASE Execute
      <3>1. pc' = "reflect"
        BY <2>4, ExecuteOutcome DEF LegalAssumptions, PlanInv
      <3> QED
        BY <2>4, <3>1, PlanExecute DEF SelectedActionIsLegal
    <2>5. CASE Reflect
      BY <2>5, PlanReflect DEF SelectedActionIsLegal, Reflect
    <2>6. CASE Resume \/ Leave \/ RecoverWait \/ Finish
      BY <2>6, PlanOthers
      DEF SelectedActionIsLegal, Resume, Leave, WaitBoundary, RecoverWait, Finish
    <2>7. CASE OutOfRounds \/ UNCHANGED vars
      <3>1. UNCHANGED <<pc, board, runStatus, action, obs, inbox, jobs, retryCounts,
                        refinements, report, outputs, lastError, quality>>
        BY <2>7 DEF OutOfRounds, vars, progress, external, trouble, counters
      <3>2. SelectedActionIsLegal' <=> SelectedActionIsLegal
        <4>1. TaskReady(action)' <=> TaskReady(action)
          BY <3>1 DEF TaskReady
        <4>2. Evidence(action)' <=> Evidence(action)
          BY <3>1, Zenon DEF Evidence, Results
        <4>3. FinalizeReady' <=> FinalizeReady
          BY <3>1 DEF FinalizeReady
        <4>4. PendingJob(action.target)' <=> PendingJob(action.target)
          BY <3>1 DEF PendingJob
        <4> QED
          BY <3>1, <4>1, <4>2, <4>3, <4>4 DEF SelectedActionIsLegal, Legal
      <3> QED
        BY <2>7, <3>2, PlanOthers
    <2> QED
      BY <2>1, <2>2, <2>3, <2>4, <2>5, <2>6, <2>7 DEF Next, Drive
  <1>3. Spec => []BoardInv
    BY BoardInvariance DEF LegalAssumptions, Tame
  <1>4. Spec => []JobInv
    BY JobInvariance DEF LegalAssumptions
  <1>5. Spec => []RunInv
    BY RunInvariance DEF LegalAssumptions, Tame
  <1>6. TypeInv /\ KeptOver => OverInv
    BY StaysOver DEF LegalAssumptions
  <1> QED
    BY <1>1, <1>2, <1>3, <1>4, <1>5, <1>6, TypeInvariance, OverInvariance, PTL DEF Spec

=============================================================================
