----------------------------- MODULE MaterialRun -----------------------------
(***************************************************************************)
(* One material's run: the loop of AgenticMaterialController.drive         *)
(* (runtime/agentic_controller.py) over the nodes of                       *)
(* graph/runtime_nodes.py, with the council, the computing tools, the      *)
(* human and the external scheduler as its environment.                    *)
(*                                                                         *)
(* Every action below ends where the code persists the state, so a process *)
(* that dies loses its control point (pc) and nothing else.  The council   *)
(* of language-model agents is a choice among the actions in Menu that the *)
(* legality check allows, or no action at all.                             *)
(***************************************************************************)
EXTENDS TaskBoard, FiniteSets, Sequences

CONSTANTS
    Menu,               \* the actions the council may propose
    Needs,              \* Needs[c]: the stages whose outputs c's tool requires
    Erased,             \* the stages that lose their recorded output by failing
    PolicyMode,         \* council_policy_mode
    FullAutonomy,       \* runtime.full_autonomy
    AllowExternalWait,  \* runtime.allow_external_wait
    HumanAnswers,       \* the decisions an escalation may come back with
    Events,             \* the external events that may be delivered
    NoopFlags,          \* how the council may flag an arbitration without action
    RetryBudget,        \* workflow.retry_budget
    MaxRefinements,     \* workflow.max_refinement_rounds
    MaxRounds,          \* bound: council rounds in a behaviour
    MaxCrashes          \* bound: process deaths in a behaviour

RunStatuses == {"pending", "running", "waiting_external", "needs_recovery",
                "ready_to_finalize", "completed", "failed", "aborted", "skipped"}
TerminalRunStatuses == {"completed", "failed", "aborted", "skipped"}

Families == {"run_capability", "retry_capability", "rerun_from_capability",
             "repair_execution_context", "refine_sampling", "revalidate_result",
             "invalidate_channel", "escalate_human", "finalize_material",
             "abort_material"}

\* The families that mark their target started, and that need a target.
TargetedFamilies == {"run_capability", "retry_capability",
    "rerun_from_capability", "refine_sampling", "revalidate_result"}
EndingFamilies == {"finalize_material", "abort_material", "escalate_human"}

\* target 0 is no target; external asks for an external job to wait for.
Actions == [family : Families, target : 0 .. Validation, external : BOOLEAN]
NoAction == [family |-> "none", target |-> 0, external |-> FALSE]

\* The stages that are no capability: the refinement and the final report, the
\* nodes of the graph.
Elsewhere == Validation + 1
Stages == 0 .. Elsewhere

\* What an escalation comes back with; stage is the one a manual fix names.
Answers == [kind : {"skip", "abort", "retry", "previous", "manual_fix"},
            stage : Stages]

EventTypes == {"job_completed", "job_failed", "resume_requested",
               "override_skip", "override_abort", "override_resume"}
EventRecords == [id : Nat, type : EventTypes, job : Nat, target : 0 .. Validation]

Reasons == {"none", "initial", "resume", "failure", "validation", "segment"}
Qualities == {"ok", "anomaly", "poor_fit"}

ASSUME MenuAssumption ==
    /\ Menu \subseteq Actions
    /\ \A a \in Menu :
        /\ a.external => a.family = "repair_execution_context"
        /\ a.family \in TargetedFamilies => a.target \in Caps
        /\ a.external => a.target \in Caps
        /\ a.family = "refine_sampling" => a.target \notin {Prepare, Validation}

ASSUME NeedsAssumption == Needs \in [Caps -> SUBSET Caps] /\ Erased \subseteq Caps

ASSUME ModeAssumption ==
    /\ PolicyMode \in {"strict", "balanced", "permissive"}
    /\ FullAutonomy \in BOOLEAN /\ AllowExternalWait \in BOOLEAN
    /\ HumanAnswers \subseteq Answers
    /\ Events \subseteq EventRecords
    /\ NoopFlags \subseteq {"plain", "waiting", "ready", "escalate"}

ASSUME BoundsAssumption ==
    /\ RetryBudget \in Nat /\ MaxRefinements \in Nat
    /\ MaxRounds \in Nat /\ MaxCrashes \in Nat

VARIABLES
    pc,             \* where the process is; "idle" when no process runs
    board,          \* task_board
    runStatus,      \* workflow.run_status
    stageStatus,    \* workflow.stage_status
    completed,      \* workflow.completed_stages
    retryCounts,    \* workflow.retry_counts
    refinements,    \* workflow.refinement_rounds
    round,          \* deliberation.round_index
    contract,       \* the workflow contract: whether made, planned capabilities
    checkpoint,     \* execution_checkpoint: completed_capabilities, reason
    action,         \* execution.current_action
    obs,            \* execution.latest_execution_observation: target, status
    jobs,           \* execution.external_jobs
    awaiting,       \* execution.resume_markers.awaiting_capability
    inbox,          \* execution.pending_events
    consumed,       \* execution.consumed_event_ids
    lastError,      \* diagnostics.last_error is set
    recoveryStage,  \* diagnostics.recovery_summary.stage
    quality,        \* what the anomaly and fit checks see in the results
    outputs,        \* stages whose outputs physics_results holds
    report,         \* diagnostics.validation_report is there
    terminating,    \* services.termination_requested
    reported,       \* stage_status.final_report is success
    crashes         \* bound counter

flow == <<contract, checkpoint>>
progress == <<stageStatus, completed, outputs, report>>
external == <<jobs, awaiting, inbox, consumed>>
trouble == <<lastError, recoveryStage, quality>>
counters == <<retryCounts, refinements, round, crashes>>
vars == <<pc, board, runStatus, action, obs, terminating, reported,
          flow, progress, external, trouble, counters>>

TypeOK ==
    /\ pc \in {"idle", "loop", "gate", "council", "execute", "reflect",
               "recover", "finalize"}
    /\ board \in Boards
    /\ runStatus \in RunStatuses
    /\ stageStatus \in [Caps -> {"none", "success", "failed"}]
    /\ completed \subseteq Caps
    /\ retryCounts \in [Caps -> Nat]
    /\ refinements \in Nat
    /\ round \in 0 .. MaxRounds
    /\ contract \in [made : BOOLEAN, planned : SUBSET Caps]
    /\ checkpoint \in [completed : SUBSET Caps, reason : Reasons]
    /\ action \in Actions \cup {NoAction}
    /\ obs \in [target : Stages,
                status : {"none", "running", "success", "failed", "skipped"}]
    /\ jobs \subseteq [id : Nat, target : Caps, pending : BOOLEAN]
    /\ awaiting \in 0 .. Validation
    /\ inbox \in Seq(EventRecords)
    /\ consumed \subseteq Nat
    /\ lastError \in BOOLEAN
    /\ recoveryStage \in 0 .. Validation
    /\ quality \in Qualities
    /\ outputs \subseteq Caps
    /\ report \in BOOLEAN /\ terminating \in BOOLEAN /\ reported \in BOOLEAN
    /\ crashes \in 0 .. MaxCrashes

\* The initial state as the first process persists it, on its way into the loop.
Init ==
    /\ pc = "loop"
    /\ board = InitialBoard
    /\ runStatus = "pending"
    /\ stageStatus = [c \in Caps |-> "none"]
    /\ completed = {} /\ outputs = {}
    /\ retryCounts = [c \in Caps |-> 0]
    /\ refinements = 0 /\ round = 0 /\ crashes = 0
    /\ contract = [made |-> FALSE, planned |-> {}]
    /\ checkpoint = [completed |-> {}, reason |-> "none"]
    /\ action = NoAction
    /\ obs = [target |-> 0, status |-> "none"]
    /\ jobs = {} /\ awaiting = 0 /\ inbox = <<>> /\ consumed = {}
    /\ lastError = FALSE /\ recoveryStage = 0 /\ quality = "ok"
    /\ report = FALSE /\ terminating = FALSE /\ reported = FALSE

-----------------------------------------------------------------------------
(* Reading the state.                                                      *)

Results == Mobility \in outputs

PendingJob(c) == \E j \in jobs : j.target = c /\ j.pending

ComputeFailed == \E c \in Caps \ {Validation} : stageStatus[c] = "failed"

\* Mutant: the capabilities already done are not left out.
FirstPlanned(next, done) ==
    next \in contract.planned /\ \A c \in contract.planned : next <= c

\* next_capability_after: the first planned capability not yet completed.
NextPlanned(next, done) ==
    next \in contract.planned \ done /\ \A c \in contract.planned \ done : next <= c

TerminalOrFinalizable ==
    terminating \/ runStatus \in TerminalRunStatuses \cup {"ready_to_finalize"}

\* The evidence check_legality_tool requires for each family.
Evidence(a) ==
    CASE a.family = "retry_capability" -> obs.status = "failed"
      [] a.family = "rerun_from_capability" -> lastError \/ quality # "ok"
      [] a.family = "repair_execution_context" -> lastError
      [] a.family = "refine_sampling" -> quality # "ok"
      [] a.family = "revalidate_result" -> Results \/ report
      [] a.family = "invalidate_channel" -> quality = "anomaly" \/ report
      [] a.family = "finalize_material" ->
            Results \/ runStatus \in TerminalRunStatuses \cup {"ready_to_finalize"}
      [] a.family = "abort_material" ->
            lastError \/ runStatus \in {"failed", "aborted", "needs_recovery"}
      [] OTHER -> TRUE

\* What the task board must say for a stage to be run or retried.
TaskReady(a) ==
    a.family \in {"run_capability", "retry_capability"} =>
        /\ DependenciesCompleted(board, a.target)
        /\ TaskStatus(board, a.target) \notin {"active", "abandoned"}
        /\ a.family = "run_capability" => TaskStatus(board, a.target) # "completed"

\* Mutant: results without a validation report will do.
ResultsSuffice == Results

FinalizeReady == report \/ AllResolved(board)

\* check_legality_tool.  The confidence an escalation rests on and the sampling
\* points a refinement needs are data: the model lets the council have them.
Legal(a) ==
    /\ runStatus \notin TerminalRunStatuses
    /\ a.external => ~FullAutonomy \/ AllowExternalWait
    /\ runStatus = "waiting_external" /\ inbox = <<>>
          => a.family \in {"abort_material", "escalate_human"}
    /\ TaskReady(a)
    /\ a.family \in TargetedFamilies => ~PendingJob(a.target)
    /\ a.family = "retry_capability" => retryCounts[a.target] < RetryBudget
    /\ a.family = "refine_sampling" => refinements < MaxRefinements
    /\ a.family = "finalize_material" =>
          /\ FinalizeReady
          /\ runStatus # "waiting_external"
    /\ a.family = "escalate_human" /\ a.target \in Caps
          => TaskStatus(board, a.target) # "completed"
    /\ Evidence(a)

\* _deliberation_reason: why the council must meet before the next step, as
\* the class of reasons that later steps tell apart.
ReasonIn(rs, b, done, o, q, reason, mailbox) ==
    IF ~contract.made THEN "initial"
    ELSE IF mailbox # <<>> THEN "resume"
    ELSE IF rs = "waiting_external" THEN "none"
    ELSE IF reason # "none" THEN reason
    ELSE IF o.status = "failed" \/ rs = "needs_recovery" THEN "failure"
    ELSE IF o.target = Mobility /\ o.status = "success" /\ q = "poor_fit"
         THEN "validation"
    ELSE IF o.target = Validation /\ (q = "anomaly" \/ o.status = "success")
         THEN "validation"
    ELSE IF \/ q = "anomaly" /\ o.target \in {StrainLoop, Mobility}
            \/ o.target = StrainLoop /\ o.status = "success"
            \/ contract.planned \subseteq done
            \/ AllResolved(b)
            \/ rs = "ready_to_finalize"
         THEN "segment"
    ELSE "none"

DeliberationReason ==
    ReasonIn(runStatus, board, completed, obs, quality, checkpoint.reason, inbox)

CouncilMode(reason) ==
    CASE reason = "failure" -> "failure"
      [] reason = "validation" -> "validation"
      [] reason = "resume" ->
            IF obs.status = "failed" THEN "failure"
            ELSE IF obs.target = Validation THEN "validation" ELSE "segment"
      [] OTHER -> "segment"

\* Without the strict policy a contract reaches to the next milestone.
SegmentPlan(a, reason) ==
    CASE CouncilMode(reason) = "validation"  -> {}
      [] CouncilMode(reason) # "validation" ->
         CASE a.target \in Prepare .. StrainLoop -> a.target .. StrainLoop
           [] a.target = Mobility                -> {Mobility, Validation}
           [] a.target = Validation              -> {Validation}
           [] a.target = 0 -> IF reason = "initial" THEN Prepare .. StrainLoop ELSE {}

StrictPlan(a, reason) ==
    IF a.target # 0 THEN {a.target} ELSE IF reason = "initial" THEN {Prepare} ELSE {}

\* _planned_capabilities_for_selection: what the contract made with action a
\* commits to run without meeting again.
PlannedFor(a, reason) ==
    CASE a.family = "refine_sampling" -> {StrainLoop, Mobility, Validation}
      [] a.family \in EndingFamilies  -> {}
      [] CouncilMode(reason) = "validation" /\ a.family = "revalidate_result" -> {Validation}
      [] OTHER -> IF PolicyMode = "strict" THEN StrictPlan(a, reason)
                  ELSE SegmentPlan(a, reason)
-----------------------------------------------------------------------------
(* A process starts: drive, called afresh on a stored state or with an      *)
(* event to deliver.  An event is refused, and changes nothing, when the    *)
(* run is over or the event was consumed before.                           *)

Resume ==
    /\ pc = "idle"
    /\ pc' = "loop"
    /\ UNCHANGED <<board, runStatus, action, obs, terminating, reported,
                   flow, progress, external, trouble, counters>>

\* Mutants: only one of the two refusals is made.
RefusedWhenConsumed(e) == e.id \in consumed
RefusedWhenOver(e) == runStatus \in TerminalRunStatuses

EventRefused(e) == runStatus \in TerminalRunStatuses \/ e.id \in consumed

Submit(e) ==
    /\ pc = "idle"
    /\ ~EventRefused(e)
    /\ inbox' = Append(inbox, e)
    /\ pc' = "loop"
    /\ UNCHANGED <<board, runStatus, action, obs, terminating, reported,
                   jobs, awaiting, consumed, flow, progress, trouble, counters>>

-----------------------------------------------------------------------------
(* Consuming an event.                                                      *)

EventTarget(e) == IF e.target # 0 THEN e.target ELSE awaiting

Unmatched(e) ==
    /\ e.type \in {"job_completed", "job_failed"}
    /\ e.job # 0
    /\ ~ \E j \in jobs : j.id = e.job

\* clear_resolved_error_state: a success of t (0 for any stage), when the
\* latest observation is o, clears the error that t left.
Resolves(t, o) ==
    lastError /\ (t = 0 \/ recoveryStage = t \/ o = [target |-> t, status |-> "failed"])

ClearResolved(t, o) ==
    /\ lastError' = (lastError /\ ~Resolves(t, o))
    /\ recoveryStage' = IF Resolves(t, o) /\ t \in {0, recoveryStage}
                        THEN 0 ELSE recoveryStage

\* What an event makes of the run, and of the board when it concerns stage t.
EventStatus(e) ==
    CASE e.type = "override_skip"  -> "skipped"
      [] e.type = "override_abort" -> "aborted"
      [] e.type = "job_failed"     -> "needs_recovery"
      [] OTHER                     -> "running"

EventBoard(e, t) ==
    CASE e.type = "override_resume" -> ResetFrom(board, t)
      [] e.type = "job_failed"      -> Blocked(board, t)
      [] e.type = "job_completed"   -> Completed(board, t)
      [] OTHER                      -> board

\* _consume_pending_external_event.  An answer to a job nobody submitted is
\* dropped, and the run goes back to waiting.
Consume(e) ==
    LET t == EventTarget(e)
    IN  /\ inbox' = Tail(inbox)
        /\ consumed' = consumed \cup {e.id}
        /\ jobs' = {IF e.job = j.id THEN [j EXCEPT !.pending = FALSE] ELSE j : j \in jobs}
        /\ IF Unmatched(e)
           THEN /\ runStatus' = "waiting_external"
                /\ UNCHANGED <<board, obs, awaiting, terminating, lastError, recoveryStage>>
           ELSE /\ awaiting' = 0
                /\ obs' = [target |-> t,
                           status |-> IF e.type = "job_failed" THEN "failed" ELSE "success"]
                /\ terminating' = (terminating \/ e.type \in {"override_skip", "override_abort"})
                /\ runStatus' = EventStatus(e)
                /\ board' = Normalised(IF t \in Caps THEN EventBoard(e, t) ELSE board)
                /\ IF e.type = "job_completed" THEN ClearResolved(t, obs')
                   ELSE /\ lastError' = (lastError \/ e.type = "job_failed")
                        /\ UNCHANGED recoveryStage

\* Mutant: an event that names no stage records none.
NamedTarget(e) == e.target

\* The event's target, or the one last observed.
SyncTarget(e) == IF e.target # 0 THEN e.target ELSE obs'.target

\* _sync_external_event_progress.
SyncProgress(e) ==
    LET t == SyncTarget(e)
    IN  /\ completed' = IF e.type = "job_completed" /\ t \in Caps
                        THEN completed \cup {t} ELSE completed
        /\ stageStatus' =
              IF e.type \in {"job_completed", "job_failed"} /\ t \in Caps
              THEN [stageStatus EXCEPT ![t] =
                       IF e.type = "job_completed" THEN "success" ELSE "failed"]
              ELSE stageStatus

\* The loop consumes one event each time around.
ConsumeEvent ==
    /\ pc = "loop"
    /\ inbox # <<>>
    /\ Consume(Head(inbox))
    /\ SyncProgress(Head(inbox))
    /\ pc' = "gate"
    /\ UNCHANGED <<action, reported, outputs, report, quality, flow, counters>>

\* The observe_state node of a council called while the run waits consumes the
\* next event as well, but does not record the stage's progress.
ObserveConsumes ==
    /\ pc = "gate"
    /\ runStatus = "waiting_external"
    /\ inbox # <<>>
    /\ round < MaxRounds
    /\ Consume(Head(inbox))
    /\ pc' = "council"
    /\ UNCHANGED <<action, reported, quality, flow, progress, counters>>

-----------------------------------------------------------------------------
(* The gate: what the loop does next.                                       *)

AtGate == pc = "gate" \/ (pc = "loop" /\ inbox = <<>>)

RunIsOver == runStatus \in TerminalRunStatuses

\* Mutants: a process that may only wait returns, or looks again.
ReturnToWait == "finalize"
KeepLooking == "loop"

\* Where the process goes that may only wait: an autonomous run may not.
WaitBoundary == IF FullAutonomy THEN "recover" ELSE "finalize"

\* The run is over, or it waits and nothing has come.
Leave ==
    /\ AtGate
    /\ \/ /\ RunIsOver
          /\ pc' = "finalize"
       \/ /\ ~RunIsOver
          /\ runStatus = "waiting_external" /\ inbox = <<>>
          /\ pc' = WaitBoundary
    /\ UNCHANGED <<board, runStatus, action, obs, terminating, reported,
                   flow, progress, external, trouble, counters>>

\* Why the council meets, "none" when it is not due.
MeetingReason ==
    IF pc = "council" THEN (IF contract.made THEN "resume" ELSE "initial")
    ELSE IF AtGate /\ ~RunIsOver /\ runStatus # "waiting_external"
         THEN DeliberationReason ELSE "none"

\* observe_state opens a round.
OpenRound ==
    /\ MeetingReason # "none"
    /\ round < MaxRounds
    /\ round' = round + 1

Opened == IF runStatus = "pending" THEN "running" ELSE runStatus

\* The council arbitrates for a legal action, and makes a contract with it.
Select(a) ==
    /\ OpenRound
    /\ Legal(a)
    /\ action' = a
    /\ runStatus' = Opened
    /\ contract' = [made |-> TRUE, planned |-> PlannedFor(a, MeetingReason)]
    /\ checkpoint' = [completed |-> completed, reason |-> "none"]
    /\ pc' = "execute"
    /\ UNCHANGED <<board, obs, terminating, reported, progress, external, trouble,
                   retryCounts, refinements, crashes>>

\* A failure council that finds nothing to do after a relaxation failure hands
\* the material to a human, whatever the legality check would say.
SelectEscalation ==
    /\ OpenRound
    /\ "escalate" \in NoopFlags
    /\ CouncilMode(MeetingReason) = "failure"
    /\ action' = [family |-> "escalate_human", target |-> 0, external |-> FALSE]
    /\ runStatus' = Opened
    /\ contract' = [made |-> TRUE, planned |-> {}]
    /\ checkpoint' = [completed |-> completed, reason |-> "none"]
    /\ pc' = "execute"
    /\ UNCHANGED <<board, obs, terminating, reported, progress, external, trouble,
                   retryCounts, refinements, crashes>>

\* What a council that selects nothing makes of the run: in a review of the
\* validation that may be all there was to do, otherwise it is a failure.
StatusWithoutAction(flag, review, finalizable) ==
    CASE flag = "waiting" -> "waiting_external"
      [] flag = "ready"   -> "ready_to_finalize"
      [] OTHER            -> IF ~review THEN "failed"
                             ELSE IF finalizable THEN "ready_to_finalize" ELSE "skipped"

\* The council arbitrates for no action.
SelectNothing(flag) ==
    LET finalizable == Results /\ ~ComputeFailed
        review == flag = "plain" /\ MeetingReason = "validation"
    IN  /\ OpenRound
        /\ flag \in NoopFlags \ {"escalate"}
        /\ action' = NoAction
        /\ runStatus' = StatusWithoutAction(flag, review, finalizable)
        /\ terminating' = (terminating \/ (flag = "plain" /\ ~(review /\ finalizable)))
        /\ lastError' = (lastError \/ (flag = "plain" /\ ~(review /\ finalizable)))
        /\ IF review /\ finalizable /\ ~report
           THEN /\ report' = TRUE
                /\ completed' = completed \cup {Validation}
                /\ stageStatus' = [stageStatus EXCEPT ![Validation] = "success"]
           ELSE UNCHANGED <<report, completed, stageStatus>>
        /\ checkpoint' = [completed |-> completed', reason |-> "none"]
        /\ pc' = IF flag = "waiting" THEN WaitBoundary ELSE "finalize"
        /\ UNCHANGED <<board, obs, reported, contract, outputs, external,
                       recoveryStage, quality, retryCounts, refinements, crashes>>

\* The capabilities done are those of the checkpoint; the live list is read
\* only when it has none.
Done == IF checkpoint.completed # {} THEN checkpoint.completed ELSE completed

\* The next step of the contract, without a council.  The code's branch for a
\* contract with no step left cannot be reached: the council meets first (a
\* state in which it could be would be a deadlock of this model).
Activate(next) ==
    /\ AtGate
    /\ ~RunIsOver /\ runStatus # "waiting_external"
    /\ MeetingReason = "none"
    /\ NextPlanned(next, Done)
    /\ action' = [family |-> "run_capability", target |-> next, external |-> FALSE]
    /\ checkpoint' = [completed |-> completed, reason |-> "none"]
    /\ pc' = "execute"
    /\ UNCHANGED <<board, runStatus, obs, terminating, reported, contract,
                   progress, external, trouble, counters>>

\* The model's bound: no further council.
OutOfRounds ==
    /\ round = MaxRounds
    /\ \/ MeetingReason # "none"
       \/ AtGate /\ runStatus = "waiting_external" /\ inbox # <<>>
    /\ UNCHANGED vars

-----------------------------------------------------------------------------
(* Executing the selected action: execute_selected_action, or the           *)
(* controller's own handler of an escalation.                               *)

Executing ==
    /\ pc = "execute"
    /\ pc' = "reflect"
    /\ UNCHANGED <<action, reported, flow, inbox, consumed, round, crashes>>

Dispatched == Executing /\ action.family # "escalate_human" /\ Legal(action)

Observe(t, status) == obs' = [target |-> t, status |-> status]

\* An action that the legality check no longer allows fails the run.
Refused ==
    /\ Executing
    /\ action.family # "escalate_human"
    /\ ~Legal(action)
    /\ runStatus' = "failed"
    /\ Observe(action.target, "failed")
    /\ UNCHANGED <<board, terminating, progress, jobs, awaiting, trouble,
                   retryCounts, refinements>>

IsValidation ==
    /\ action.family \notin EndingFamilies
    /\ action.family = "revalidate_result" \/ action.target = Validation

IsStage == ~IsValidation /\ action.family \notin EndingFamilies \cup {"invalidate_channel"}

Launched ==
    IF action.family \in TargetedFamilies THEN Started(board, action.target) ELSE board

Resets == action.family \in
    {"rerun_from_capability", "repair_execution_context", "refine_sampling"}

Retries == action.family \in {"retry_capability", "rerun_from_capability"}

\* Every retry and rerun is counted, other families only when stage t fails.
CountRetry(counted) ==
    retryCounts' = IF counted THEN [retryCounts EXCEPT ![action.target] = @ + 1]
                   ELSE retryCounts

\* record_stage_status, after stage t ran.
RecordStage(t, ok) ==
    /\ stageStatus' = [stageStatus EXCEPT ![t] = IF ok THEN "success" ELSE "failed"]
    /\ completed' = IF ok THEN completed \cup {t} ELSE completed
    /\ outputs' = IF ok THEN outputs \cup {t}
                  ELSE IF t \in Erased THEN outputs \ {t} ELSE outputs
    /\ runStatus' = IF ok THEN "running" ELSE "needs_recovery"
    /\ Observe(t, IF ok THEN "success" ELSE "failed")

\* The tool of a computing stage returns, or raises because an input is missing.
RunStage(ok) ==
    LET t == action.target
    IN  /\ Dispatched /\ IsStage
        /\ t \notin {0, Prepare} /\ ~action.external
        /\ ok => Needs[t] \subseteq outputs
        /\ board' = Normalised(IF Resets THEN ResetFrom(Launched, t) ELSE Launched)
        /\ refinements' = IF action.family = "refine_sampling"
                          THEN refinements + 1 ELSE refinements
        /\ CountRetry(Retries \/ ~ok)
        /\ RecordStage(t, ok)
        /\ IF ok THEN ClearResolved(t, obs)
           ELSE lastError' = TRUE /\ recoveryStage' = t
        /\ IF ok /\ t = Mobility THEN quality' \in Qualities ELSE UNCHANGED quality
        /\ UNCHANGED <<terminating, report, jobs, awaiting>>

\* prepare is run by the node itself.
RunPrepare(ok) ==
    /\ Dispatched /\ IsStage
    /\ action.target = Prepare
    /\ board' = Normalised(Launched)
    /\ CountRetry(Retries)
    /\ RecordStage(Prepare, ok)
    /\ IF ok THEN ClearResolved(Prepare, obs)
       ELSE lastError' = TRUE /\ UNCHANGED recoveryStage
    /\ UNCHANGED <<terminating, report, jobs, awaiting, quality, refinements>>

\* The sampling points the council asked for may already have been computed.
RefineWithoutPoints ==
    /\ Dispatched
    /\ action.family = "refine_sampling"
    /\ board' = Normalised(Launched)
    /\ runStatus' = "needs_recovery"
    /\ Observe(action.target, "failed")
    /\ UNCHANGED <<terminating, progress, jobs, awaiting, trouble, retryCounts, refinements>>

RunValidation ==
    /\ Dispatched /\ IsValidation
    /\ board' = Normalised(Launched)
    /\ CountRetry(Retries)
    /\ report' = TRUE
    /\ stageStatus' = [stageStatus EXCEPT ![Validation] = "success"]
    /\ completed' = completed \cup {Validation}
    /\ outputs' = outputs \cup {Validation}
    /\ runStatus' = "running"
    /\ Observe(Validation, "success")
    /\ UNCHANGED <<terminating, jobs, awaiting, trouble, refinements>>

\* The stage is handed to an external scheduler, to be answered by an event.
SubmitExternalJob ==
    LET t == action.target
    IN  /\ Dispatched /\ IsStage
        /\ action.external /\ t # Prepare
        /\ board' = Normalised(ResetFrom(board, t))
        /\ jobs' = {j \in jobs : j.id # round \/ j.target # t}
                      \cup {[id |-> round, target |-> t, pending |-> TRUE]}
        /\ awaiting' = t
        /\ runStatus' = "waiting_external"
        /\ Observe(t, "running")
        /\ UNCHANGED <<terminating, progress, trouble, retryCounts, refinements>>

\* invalidate_channel and skip_channel.
DropChannel ==
    /\ Dispatched /\ ~IsValidation
    /\ action.family = "invalidate_channel"
    /\ runStatus' = "running"
    /\ Observe(action.target, "success")
    /\ UNCHANGED <<board, terminating, progress, jobs, awaiting, trouble,
                   retryCounts, refinements>>

\* A repair that names no capability.
NoTarget ==
    /\ Dispatched /\ IsStage
    /\ action.target = 0
    /\ runStatus' = "needs_recovery"
    /\ Observe(0, "failed")
    /\ UNCHANGED <<board, terminating, progress, jobs, awaiting, trouble,
                   retryCounts, refinements>>

End ==
    /\ Dispatched
    /\ action.family \in {"finalize_material", "abort_material"}
    /\ terminating' = TRUE
    /\ runStatus' = IF action.family = "finalize_material"
                    THEN "ready_to_finalize" ELSE "aborted"
    /\ Observe(action.target,
               IF action.family = "finalize_material" THEN "success" ELSE "failed")
    /\ UNCHANGED <<board, progress, jobs, awaiting, trouble, retryCounts, refinements>>

\* find_previous_stage, whose order of stages has the refinement between
\* strain_loop and mobility.
PreviousStage(t) ==
    CASE t \in {0, Prepare} -> t
      [] t = Mobility -> Elsewhere
      [] t \in Caps \ {Prepare, Mobility} -> t - 1

\* The stage the answer to an escalation about t resumes from.
ResumeStage(answer, t) ==
    CASE answer.kind = "retry"      -> IF t = 0 THEN Elsewhere ELSE t
      [] answer.kind = "previous"   -> PreviousStage(t)
      [] answer.kind = "manual_fix" -> answer.stage
      [] OTHER                      -> t

\* _execute_escalation_action waits for the human, or for the time window to
\* close, before it returns.
Escalate(answer) ==
    LET t == action.target
        stage == ResumeStage(answer, t)
    IN  /\ Executing
        /\ action.family = "escalate_human"
        /\ \/ /\ answer.kind \in {"skip", "abort"}
              /\ terminating' = TRUE
              /\ runStatus' = IF answer.kind = "skip" THEN "skipped" ELSE "failed"
              /\ Observe(t, IF answer.kind = "skip" THEN "skipped" ELSE "failed")
              /\ UNCHANGED board
           \/ /\ answer.kind \notin {"skip", "abort"}
              /\ board' = Normalised(IF stage \in Caps THEN ResetFrom(board, stage) ELSE board)
              /\ runStatus' = "running"
              /\ Observe(stage, "success")
              /\ UNCHANGED terminating
        /\ UNCHANGED <<progress, jobs, awaiting, trouble, retryCounts, refinements>>

-----------------------------------------------------------------------------
(* After the execution.                                                     *)

\* Where reflect_round moves the task of t.
Reflected(t) ==
    CASE obs.status = "success" -> Completed(board, t)
      [] obs.status = "failed"  -> Blocked(board, t)
      [] obs.status = "skipped" -> Abandoned(board, t)
      [] OTHER                  -> board

\* reflect_round moves the task, and the checkpoint is brought up to date with
\* the reason the council must meet, if it must.
Reflect ==
    LET t == IF obs.target # 0 THEN obs.target ELSE action.target
    IN  /\ pc = "reflect"
        /\ board' = Normalised(IF t \in Caps THEN Reflected(t) ELSE board)
        /\ checkpoint' = [completed |-> completed,
                          reason |-> ReasonIn(runStatus, board', completed, obs,
                                              quality, checkpoint.reason, inbox)]
        /\ pc' = IF TerminalOrFinalizable THEN "finalize" ELSE "loop"
        /\ UNCHANGED <<runStatus, action, obs, terminating, reported, contract,
                       progress, external, trouble, counters>>

\* Mutant: the job an autonomous run stops waiting for is kept.
JobsKept(c) == jobs

JobsWithout(c) == {j \in jobs : j.target # c}

\* _recover_unexpected_wait_boundary: an autonomous run that waits drops the job
\* it waits for and goes into recovery.
RecoverWait ==
    LET blocked == IF awaiting # 0 THEN awaiting ELSE action.target
    IN  /\ pc = "recover"
        /\ jobs' = JobsWithout(blocked)
        /\ awaiting' = 0
        /\ obs' = IF obs.status = "running" THEN [obs EXCEPT !.status = "failed"] ELSE obs
        /\ runStatus' = "needs_recovery"
        /\ lastError' = TRUE
        /\ pc' = "loop"
        /\ UNCHANGED <<board, action, terminating, reported, flow, progress, inbox,
                       consumed, recoveryStage, quality, counters>>

\* Mutant: a run that is ready to finalize keeps that status.
KeptStatus == IF runStatus \in {"running", "pending"} THEN "completed" ELSE runStatus

FinalStatus ==
    IF runStatus \in {"ready_to_finalize", "running", "pending"} THEN "completed" ELSE runStatus

\* _finalize_if_needed and final_report: a run that is over gets its report
\* once, and the process ends.
Finish ==
    /\ pc = "finalize"
    /\ pc' = "idle"
    /\ IF reported \/ ~TerminalOrFinalizable
       THEN UNCHANGED <<runStatus, reported, checkpoint>>
       ELSE /\ runStatus' = FinalStatus
            /\ reported' = TRUE
            /\ checkpoint' = [completed |-> completed, reason |-> "none"]
    /\ UNCHANGED <<board, action, obs, terminating, contract, progress, external,
                   trouble, counters>>

\* The process dies, or a council whose critical role fails twice raises.
Crash ==
    /\ pc \notin {"idle", "council"}
    /\ crashes < MaxCrashes
    /\ crashes' = crashes + 1
    /\ pc' = "idle"
    /\ UNCHANGED <<board, runStatus, action, obs, terminating, reported, flow,
                   progress, external, trouble, retryCounts, refinements, round>>

-----------------------------------------------------------------------------
Deliberate ==
    \/ \E a \in Menu : Select(a)
    \/ SelectEscalation
    \/ \E flag \in NoopFlags : SelectNothing(flag)

Execute ==
    \/ Refused
    \/ \E ok \in BOOLEAN : RunStage(ok) \/ RunPrepare(ok)
    \/ RefineWithoutPoints
    \/ RunValidation
    \/ SubmitExternalJob
    \/ DropChannel
    \/ NoTarget
    \/ End
    \/ \E answer \in HumanAnswers : Escalate(answer)

\* The steps of the process itself, which goes on until it returns.
Drive ==
    \/ ConsumeEvent \/ ObserveConsumes \/ Leave
    \/ Deliberate
    \/ \E next \in Caps : Activate(next)
    \/ Execute \/ Reflect \/ RecoverWait \/ Finish

Next ==
    \/ Resume
    \/ \E e \in Events : Submit(e)
    \/ Drive
    \/ OutOfRounds
    \/ Crash

Spec == Init /\ [][Next]_vars

\* A process that runs takes its steps: the loop is sequential, and every call
\* in it is bounded by a time limit.  Starting a process is up to the caller.
Fairness == WF_vars(Drive)

FairSpec == Spec /\ Fairness

-----------------------------------------------------------------------------
(* Properties.  Which runs satisfy which, and under what conditions, is the *)
(* matter of the configurations.                                           *)

\* Every capability stays on the board: no sequence of moves and resets loses a
\* task (move_task and reset_from_capability rebuild the lists by filtering).
NoTaskLost == \A c \in Caps : Held(board, c)

\* A task is on the active list only from the moment execute_selected_action
\* starts it until reflect_round moves it on.
ActiveMeansExecuting == pc # "reflect" => Empty(board, "active")

\* The action about to be executed is one the legality check still allows: the
\* contract's own steps are activated without asking it, and a refusal fails
\* the whole material.
SelectedActionIsLegal ==
    pc = "execute" => action.family = "escalate_human" \/ Legal(action)

\* Every process that an event could reach has returned: a death may leave an
\* event in the inbox, which the guard at the delivery of events no longer sees.
Undisturbed == crashes = 0 \/ Events = {}

\* A run that is over stays as it ended, whatever is delivered to it.
TerminalIsFinal ==
    [][(Undisturbed' /\ runStatus \in TerminalRunStatuses) => (runStatus' = runStatus)]_vars

\* The final report is written of a run that is over, and stays true.
ReportIsTerminal == reported => runStatus \in TerminalRunStatuses

\* A completed run has results and a validation report of them.
CompletedIsEarned == runStatus = "completed" => Results /\ report

\* An autonomous run never parks: when its process returns, it is over.
AutonomousNeverParks ==
    pc = "idle" /\ FullAutonomy /\ crashes = 0
        => reported /\ runStatus \in TerminalRunStatuses

\* A task listed as completed is a stage that did complete.
CompletedWasRun == \A c \in Caps : On(board, "completed", c) => c \in completed

\* An event takes effect once, however often it is delivered.
EventConsumedOnce ==
    [][(Undisturbed' /\ inbox # <<>> /\ inbox' = Tail(inbox))
          => Head(inbox).id \notin consumed]_vars

\* A capability has at most one job in the external scheduler.
SingleSubmission ==
    \A i, j \in jobs : i.pending /\ j.pending /\ i.target = j.target => i = j

\* A process does not go round for ever without the council: between two
\* councils it runs out of contract, fails a stage, or returns.
DriveNeverSpins ==
    \A n \in 0 .. MaxRounds - 1 :
        (round = n /\ pc # "idle") ~> (round # n \/ pc = "idle")
=============================================================================
