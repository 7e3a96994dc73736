-------------------------- MODULE MaterialRun_proofs --------------------------
(***************************************************************************)
(* Proofs about MaterialRun, for every value of its constants: what the    *)
(* operations of the task board preserve, for every board, then the type   *)
(* invariant of the run, then the task board between its steps.            *)
(***************************************************************************)
EXTENDS MaterialRun, TLAPS

USE ValidationAssumption DEF Prepare, Mobility, StrainLoop

-----------------------------------------------------------------------------
(* A board stays a board.                                                  *)

\* move_task keeps a board a board.
LEMMA MoveType ==
    ASSUME NEW b \in Boards, NEW c \in Caps, NEW s \in Lists, NEW t \in Lists
    PROVE  Move(b, c, s, t) \in Boards
  <1>1. \A f \in [Caps -> Nat], n \in Nat : [f EXCEPT ![c] = n] \in [Caps -> Nat]
    OBVIOUS
  <1>2. [b EXCEPT ![s][c] = IF @ > 0 THEN @ - 1 ELSE 0] \in Boards
    BY <1>1 DEF Boards
  <1>3. \A d \in Boards : [d EXCEPT ![t][c] = @ + 1] \in Boards
    BY <1>1 DEF Boards
  <1> QED
    BY <1>2, <1>3 DEF Move

\* So do the four moves that the nodes make.
LEMMA TaskMovesType ==
    ASSUME NEW b \in Boards, NEW c \in Caps
    PROVE  /\ Started(b, c) \in Boards
           /\ Completed(b, c) \in Boards
           /\ Blocked(b, c) \in Boards
           /\ Abandoned(b, c) \in Boards
  BY MoveType DEF Started, Completed, Blocked, Abandoned, ActiveOrPending, Lists

\* reset_from_capability keeps a board a board.
LEMMA ResetType ==
    ASSUME NEW b \in Boards, NEW c \in Caps
    PROVE  ResetFrom(b, c) \in Boards
  <1>1. \A d \in Caps : Requeued(b, d) \in Nat
    BY DEF Requeued, Boards, Lists
  <1> QED
    BY <1>1 DEF ResetFrom, Boards

\* The refill of an emptied board is a board.
LEMMA NormalisedType ==
    ASSUME NEW b \in Boards
    PROVE  Normalised(b) \in Boards
  <1>1. InitialBoard["pending"] \in [Caps -> Nat]
    BY DEF InitialBoard, Lists
  <1> QED
    BY <1>1 DEF Normalised, Boards

LEMMA InitialBoardType == InitialBoard \in Boards
  BY DEF InitialBoard, Boards

-----------------------------------------------------------------------------
(* No task is lost, and the active list holds at most the task at hand.    *)

AllHeld(b) == \A c \in Caps : Held(b, c)

\* The active list holds no task but t's, and that one once.
ActiveAtMost(b, t) ==
    /\ \A c \in Caps \ {t} : b["active"][c] = 0
    /\ t \in Caps => b["active"][t] \in {0, 1}

\* What a move makes of each count.
LEMMA MoveCounts ==
    ASSUME NEW b \in Boards, NEW c \in Caps,
           NEW s \in Lists, NEW t \in Lists, s # t
    PROVE  /\ \A l \in Lists, d \in Caps : d # c \/ l \notin {s, t} =>
                  Move(b, c, s, t)[l][d] = b[l][d]
           /\ Move(b, c, s, t)[s][c] = IF b[s][c] > 0 THEN b[s][c] - 1 ELSE 0
           /\ Move(b, c, s, t)[t][c] = b[t][c] + 1
  BY DEF Move, Boards

\* A move loses no task: the one it takes is on the target list, and the
\* others stay where they are.
LEMMA MoveKeepsTasks ==
    ASSUME NEW b \in Boards, NEW c \in Caps,
           NEW s \in Lists, NEW t \in Lists, s # t, AllHeld(b)
    PROVE  AllHeld(Move(b, c, s, t))
  <1> SUFFICES ASSUME NEW d \in Caps
               PROVE  Held(Move(b, c, s, t), d)
    BY DEF AllHeld
  <1>1. CASE d = c
    <2>1. Move(b, c, s, t)[t][c] > 0
      BY MoveCounts DEF Boards
    <2> QED
      BY <1>1, <2>1 DEF Held, On
  <1>2. CASE d # c
    BY <1>2, MoveCounts DEF AllHeld, Held, On
  <1> QED
    BY <1>1, <1>2

LEMMA TaskMovesKeepTasks ==
    ASSUME NEW b \in Boards, NEW c \in Caps, AllHeld(b)
    PROVE  /\ AllHeld(Started(b, c))
           /\ AllHeld(Completed(b, c))
           /\ AllHeld(Blocked(b, c))
           /\ AllHeld(Abandoned(b, c))
  BY MoveKeepsTasks DEF Started, Completed, Blocked, Abandoned, ActiveOrPending, Lists

\* mark_task_started, on a board with no active task.
LEMMA StartedActive ==
    ASSUME NEW b \in Boards, NEW c \in Caps, Empty(b, "active")
    PROVE  ActiveAtMost(Started(b, c), c)
  BY MoveCounts DEF Started, Empty, ActiveAtMost, Lists

\* The moves that end a task leave nothing active.
LEMMA EndedActive ==
    ASSUME NEW b \in Boards, NEW c \in Caps, ActiveAtMost(b, c)
    PROVE  /\ Empty(Completed(b, c), "active")
           /\ Empty(Blocked(b, c), "active")
           /\ Empty(Abandoned(b, c), "active")
  <1>1. Empty(Blocked(b, c), "active")
    BY MoveCounts DEF Blocked, Empty, ActiveAtMost, Lists
  <1>2. \A t \in {"completed", "abandoned"} :
           Empty(Move(b, c, ActiveOrPending(b, c), t), "active")
    <2> TAKE t \in {"completed", "abandoned"}
    <2>1. CASE On(b, "active", c)
      BY <2>1, MoveCounts DEF ActiveOrPending, On, Empty, ActiveAtMost, Lists
    <2>2. CASE ~On(b, "active", c)
      <3>1. b["active"][c] = 0
        BY <2>2 DEF On, Boards, Lists
      <3> QED
        BY <2>2, <3>1, MoveCounts DEF ActiveOrPending, Empty, ActiveAtMost, Lists
    <2> QED
      BY <2>1, <2>2
  <1> QED
    BY <1>1, <1>2 DEF Completed, Abandoned

\* A reset empties the active list.  It drops what was active before the
\* capability it resets from, so it loses no task only when nothing was.
LEMMA ResetActive ==
    ASSUME NEW b \in Boards, NEW c \in Caps
    PROVE  Empty(ResetFrom(b, c), "active")
  BY DEF ResetFrom, Empty, Lists

LEMMA ResetKeepsTasks ==
    ASSUME NEW b \in Boards, NEW c \in Caps, AllHeld(b), ActiveAtMost(b, c)
    PROVE  AllHeld(ResetFrom(b, c))
  <1> SUFFICES ASSUME NEW d \in Caps
               PROVE  Held(ResetFrom(b, c), d)
    BY DEF AllHeld
  <1>1. CASE d < c
    <2>1. PICK l \in Lists : b[l][d] > 0
      BY DEF AllHeld, Held, On
    <2>2. l # "active"
      BY <1>1, <2>1 DEF ActiveAtMost, Caps
    <2>3. ResetFrom(b, c)[l][d] = b[l][d]
      BY <1>1, <2>2 DEF ResetFrom
    <2> QED
      BY <2>1, <2>3 DEF Held, On
  <1>2. CASE ~(d < c)
    <2>1. Requeued(b, d) > 0
      BY DEF Requeued, Boards, Lists
    <2>2. ResetFrom(b, c)["pending"][d] = Requeued(b, d)
      BY <1>2 DEF ResetFrom, Lists
    <2> QED
      BY <2>1, <2>2 DEF Held, On, Lists
  <1> QED
    BY <1>1, <1>2

\* The refill touches the pending list of a board that has lost its tasks.
LEMMA NormalisedKeeps ==
    ASSUME NEW b \in Boards
    PROVE  /\ AllHeld(b) => AllHeld(Normalised(b))
           /\ Empty(b, "active") => Empty(Normalised(b), "active")
           /\ \A t : ActiveAtMost(b, t) => ActiveAtMost(Normalised(b), t)
  <1>1. Normalised(b)["active"] = b["active"]
    BY DEF Normalised, Boards, Lists
  <1>2. ASSUME AllHeld(b)  PROVE AllHeld(Normalised(b))
    <2>1. CASE Normalised(b) = b
      BY <1>2, <2>1
    <2>2. CASE Normalised(b) # b
      <3>1. Normalised(b)["pending"] = [c \in Caps |-> 1]
        BY <2>2 DEF Normalised, InitialBoard, Boards, Lists
      <3> QED
        BY <3>1 DEF AllHeld, Held, On, Lists
    <2> QED
      BY <2>1, <2>2
  <1> QED
    BY <1>1, <1>2 DEF Empty, ActiveAtMost

HIDE ValidationAssumption DEF Prepare, Mobility, StrainLoop

-----------------------------------------------------------------------------
(* What the operators of the model return.                                 *)

\* A contract plans capabilities.
LEMMA PlanType ==
    ASSUME NEW a \in Actions, NEW r \in Reasons
    PROVE  PlannedFor(a, r) \subseteq Caps
  <1>. USE ValidationAssumption DEF Actions, Caps, Prepare, StrainLoop, Mobility
  <1>1. StrictPlan(a, r) \subseteq Caps
    BY DEF StrictPlan
  <1>2. SegmentPlan(a, r) \subseteq Caps
    BY DEF SegmentPlan
  <1>3. {StrainLoop, Mobility, Validation} \subseteq Caps
    OBVIOUS
  <1> QED
    BY <1>1, <1>2, <1>3, Zenon DEF PlannedFor

\* The reason to meet is one of the known ones.
LEMMA ReasonType ==
    ASSUME NEW rs, NEW b, NEW done, NEW o, NEW q, NEW r \in Reasons, NEW m
    PROVE  ReasonIn(rs, b, done, o, q, r, m) \in Reasons
  BY Zenon DEF ReasonIn, Reasons

LEMMA EventStatusType ==
    ASSUME NEW e
    PROVE  EventStatus(e) \in RunStatuses
  BY Zenon DEF EventStatus, RunStatuses

LEMMA EventBoardType ==
    ASSUME NEW e, board \in Boards, NEW t \in Caps
    PROVE  EventBoard(e, t) \in Boards
  BY TaskMovesType, ResetType, Zenon DEF EventBoard

LEMMA ReflectedType ==
    ASSUME board \in Boards, NEW t \in Caps
    PROVE  Reflected(t) \in Boards
  BY TaskMovesType, Zenon DEF Reflected

LEMMA StatusWithoutActionType ==
    ASSUME NEW flag, NEW review, NEW finalizable
    PROVE  StatusWithoutAction(flag, review, finalizable) \in RunStatuses
  BY Zenon DEF StatusWithoutAction, RunStatuses

LEMMA ResumeStageType ==
    ASSUME NEW answer \in Answers, NEW t \in 0 .. Validation
    PROVE  ResumeStage(answer, t) \in Stages
  <1>. USE ValidationAssumption
  <1>1. t \in Stages /\ Elsewhere \in Stages /\ answer.stage \in Stages
    BY DEF Stages, Elsewhere, Answers
  <1>2. PreviousStage(t) \in Stages
    <2>1. t \in {0, Prepare} \/ t = Mobility \/ t \in Caps \ {Prepare, Mobility}
      BY DEF Caps, Prepare, Mobility
    <2>2. t \in Caps => t - 1 \in Stages
      BY DEF Caps, Stages, Elsewhere
    <2> QED
      BY <1>1, <2>1, <2>2, Zenon DEF PreviousStage
  <1> QED
    BY <1>1, <1>2, Zenon DEF ResumeStage

-----------------------------------------------------------------------------
(* Types.                                                                  *)

\* The selected action names a capability wherever its execution needs one.
ActionTargets ==
    /\ action.family \in TargetedFamilies => action.target \in Caps
    /\ action.external => action.target \in Caps

TypeInv == TypeOK /\ ActionTargets

LEMMA InitType == Init => TypeInv
  <1>. USE ValidationAssumption, BoundsAssumption
  <1> SUFFICES ASSUME Init  PROVE TypeInv
    OBVIOUS
  <1>1. NoAction \in Actions \cup {NoAction} /\ action = NoAction
    BY DEF Init
  <1>2. ActionTargets
    BY <1>1 DEF NoAction, ActionTargets, TargetedFamilies
  <1>3. TypeOK
    <2>1. /\ contract \in [made : BOOLEAN, planned : SUBSET Caps]
          /\ checkpoint \in [completed : SUBSET Caps, reason : Reasons]
          /\ obs \in [target : Stages,
                      status : {"none", "running", "success", "failed", "skipped"}]
      BY DEF Init, Reasons, Stages, Elsewhere
    <2>2. lastError \in BOOLEAN /\ report \in BOOLEAN /\ terminating \in BOOLEAN
          /\ reported \in BOOLEAN
      BY DEF Init
    <2>3. inbox \in Seq(EventRecords)
      BY DEF Init
    <2> QED
      BY <1>1, <2>1, <2>2, <2>3, InitialBoardType DEF Init, TypeOK, RunStatuses, Qualities
  <1> QED
    BY <1>2, <1>3 DEF TypeInv

\* What stays as it was stays well typed.
LEMMA StutterType ==
    ASSUME TypeInv, UNCHANGED vars
    PROVE  TypeInv'
  BY DEF TypeInv, TypeOK, ActionTargets, vars, flow, progress, external, trouble, counters

LEMMA SubmitType ==
    ASSUME TypeInv, NEW e \in Events, Submit(e)
    PROVE  TypeInv'
  <1>1. inbox' \in Seq(EventRecords)
    BY ModeAssumption DEF TypeInv, TypeOK, Submit
  <1> QED
    BY <1>1 DEF Submit, TypeInv, TypeOK, ActionTargets, flow, progress, trouble, counters

\* Consuming an event, in the loop or in observe_state.
LEMMA ConsumeType ==
    ASSUME TypeInv, inbox # <<>>, Consume(Head(inbox))
    PROVE  /\ board' \in Boards
           /\ runStatus' \in RunStatuses
           /\ obs' \in [target : 0 .. Validation,
                        status : {"none", "running", "success", "failed", "skipped"}]
              \/ obs' = obs
           /\ jobs' \subseteq [id : Nat, target : Caps, pending : BOOLEAN]
           /\ awaiting' \in 0 .. Validation
           /\ inbox' \in Seq(EventRecords)
           /\ consumed' \subseteq Nat
           /\ lastError' \in BOOLEAN /\ terminating' \in BOOLEAN
           /\ recoveryStage' \in 0 .. Validation
  <1> DEFINE e == Head(inbox)
  <1> DEFINE t == EventTarget(e)
  <1>. USE ValidationAssumption DEF TypeInv, TypeOK
  <1>1. e \in EventRecords /\ inbox' \in Seq(EventRecords)
    BY DEF Consume
  <1>2. t \in 0 .. Validation
    BY <1>1 DEF EventTarget, EventRecords
  <1>3. consumed' \subseteq Nat
    BY <1>1 DEF Consume, EventRecords
  <1>4. jobs' \subseteq [id : Nat, target : Caps, pending : BOOLEAN]
    <2> DEFINE Jobs == [id : Nat, target : Caps, pending : BOOLEAN]
    <2>1. \A j \in Jobs : [j EXCEPT !.pending = FALSE] \in Jobs
      OBVIOUS
    <2>2. jobs \subseteq Jobs
      OBVIOUS
    <2>3. jobs' = {IF e.job = j.id THEN [j EXCEPT !.pending = FALSE] ELSE j : j \in jobs}
      BY DEF Consume
    <2> HIDE DEF e, Jobs
    <2>4. jobs' \subseteq Jobs
      BY <2>1, <2>2, <2>3
    <2> QED
      BY <2>4 DEF Jobs
  <1>5. board' \in Boards
    <2>1. (IF t \in Caps THEN EventBoard(e, t) ELSE board) \in Boards
      BY EventBoardType
    <2> QED
      BY <2>1, NormalisedType DEF Consume
  <1>6. runStatus' \in RunStatuses
    BY EventStatusType DEF Consume, RunStatuses
  <1>7. lastError' \in BOOLEAN /\ terminating' \in BOOLEAN
    BY Zenon DEF Consume, ClearResolved
  <1>8. recoveryStage' \in 0 .. Validation /\ awaiting' \in 0 .. Validation
    <2>1. recoveryStage' \in {0, recoveryStage} /\ awaiting' \in {0, awaiting}
      BY Zenon DEF Consume, ClearResolved
    <2> QED
      BY <2>1
  <1>9. \/ obs' \in [target : 0 .. Validation,
                    status : {"none", "running", "success", "failed", "skipped"}]
        \/ obs' = obs
    BY <1>2 DEF Consume
  <1> QED
    BY <1>1, <1>3, <1>4, <1>5, <1>6, <1>7, <1>8, <1>9

LEMMA ConsumeStepsType ==
    ASSUME TypeInv, ConsumeEvent \/ ObserveConsumes
    PROVE  TypeInv'
  <1>. USE ValidationAssumption
  <1>1. inbox # <<>> /\ Consume(Head(inbox))
    BY DEF ConsumeEvent, ObserveConsumes
  <1>2. obs' \in [target : Stages,
                 status : {"none", "running", "success", "failed", "skipped"}]
    BY <1>1, ConsumeType DEF TypeInv, TypeOK, Stages, Elsewhere
  <1>3. completed' \subseteq Caps /\ stageStatus' \in [Caps -> {"none", "success", "failed"}]
    <2>1. CASE ConsumeEvent
      BY <2>1, Zenon DEF ConsumeEvent, SyncProgress, TypeInv, TypeOK
    <2>2. CASE ObserveConsumes
      BY <2>2 DEF ObserveConsumes, progress, TypeInv, TypeOK
    <2> QED
      BY <2>1, <2>2
  <1>4. /\ pc' \in {"gate", "council"}
        /\ UNCHANGED <<action, reported, outputs, report, quality, flow, counters>>
    BY DEF ConsumeEvent, ObserveConsumes, progress
  <1> QED
    BY <1>1, <1>2, <1>3, <1>4, ConsumeType DEF TypeInv, TypeOK, ActionTargets, flow, counters

\* Where the process is told to go when it may only wait is a place.
LEMMA LeaveType ==
    ASSUME TypeInv, Leave
    PROVE  TypeInv'
  <1>1. pc' \in {"finalize", "recover"}
    BY DEF Leave, WaitBoundary
  <1> QED
    BY <1>1 DEF Leave, TypeInv, TypeOK, ActionTargets, flow, progress, external, trouble, counters

\* The reason a round is opened for.
LEMMA MeetingReasonType ==
    ASSUME TypeInv
    PROVE  MeetingReason \in Reasons
  <1>1. DeliberationReason \in Reasons
    BY ReasonType DEF DeliberationReason, TypeInv, TypeOK
  <1> QED
    BY <1>1, Zenon DEF MeetingReason, Reasons

LEMMA RoundType ==
    ASSUME TypeInv, OpenRound
    PROVE  round' \in 0 .. MaxRounds
  BY BoundsAssumption DEF OpenRound, TypeInv, TypeOK

LEMMA SelectType ==
    ASSUME TypeInv, NEW a \in Menu, Select(a)
    PROVE  TypeInv'
  <1>1. a \in Actions
    BY MenuAssumption
  <1>2. contract' \in [made : BOOLEAN, planned : SUBSET Caps]
    BY <1>1, PlanType, MeetingReasonType DEF Select
  <1>3. runStatus' \in RunStatuses
    BY DEF Select, Opened, RunStatuses, TypeInv, TypeOK
  <1>4. checkpoint' \in [completed : SUBSET Caps, reason : Reasons]
    BY DEF Select, TypeInv, TypeOK, Reasons
  <1>5. round' \in 0 .. MaxRounds
    BY RoundType DEF Select
  <1>6. ActionTargets'
    BY MenuAssumption DEF Select, ActionTargets
  <1>7. action' = a /\ pc' = "execute"
    BY DEF Select
  <1> QED
    BY <1>1, <1>2, <1>3, <1>4, <1>5, <1>6, <1>7
    DEF Select, TypeInv, TypeOK, progress, external, trouble

LEMMA SelectEscalationType ==
    ASSUME TypeInv, SelectEscalation
    PROVE  TypeInv'
  <1>1. action' \in Actions /\ ActionTargets'
    BY ValidationAssumption
    DEF SelectEscalation, Actions, Families, ActionTargets, TargetedFamilies
  <1>2. contract' \in [made : BOOLEAN, planned : SUBSET Caps]
    BY DEF SelectEscalation
  <1>3. runStatus' \in RunStatuses
    BY DEF SelectEscalation, Opened, RunStatuses, TypeInv, TypeOK
  <1>4. checkpoint' \in [completed : SUBSET Caps, reason : Reasons]
    BY DEF SelectEscalation, TypeInv, TypeOK, Reasons
  <1>5. round' \in 0 .. MaxRounds /\ pc' = "execute"
    BY RoundType DEF SelectEscalation
  <1> QED
    BY <1>1, <1>2, <1>3, <1>4, <1>5
    DEF SelectEscalation, TypeInv, TypeOK, progress, external, trouble

LEMMA SelectNothingType ==
    ASSUME TypeInv, NEW flag \in NoopFlags, SelectNothing(flag)
    PROVE  TypeInv'
  <1>. USE ValidationAssumption
  <1>1. action' = NoAction /\ ActionTargets'
    BY DEF SelectNothing, NoAction, ActionTargets, TargetedFamilies
  <1>2. runStatus' \in RunStatuses
    BY StatusWithoutActionType DEF SelectNothing
  <1>3. terminating' \in BOOLEAN /\ lastError' \in BOOLEAN
    BY Zenon DEF SelectNothing
  <1>4. /\ report' \in BOOLEAN
        /\ completed' \subseteq Caps
        /\ stageStatus' \in [Caps -> {"none", "success", "failed"}]
    <2>1. /\ report' \in {report, TRUE}
          /\ completed' \in {completed, completed \cup {Validation}}
          /\ stageStatus' \in {stageStatus, [stageStatus EXCEPT ![Validation] = "success"]}
      BY Zenon DEF SelectNothing
    <2>2. Validation \in Caps
      BY DEF Caps
    <2>3. report' \in BOOLEAN
      BY <2>1, Zenon DEF TypeInv, TypeOK
    <2> QED
      BY <2>1, <2>2, <2>3 DEF TypeInv, TypeOK
  <1>5. checkpoint' \in [completed : SUBSET Caps, reason : Reasons]
    BY <1>4 DEF SelectNothing, Reasons
  <1>6. pc' \in {"finalize", "recover"}
    BY Zenon DEF SelectNothing, WaitBoundary
  <1>7. round' \in 0 .. MaxRounds
    BY RoundType DEF SelectNothing
  <1> QED
    BY <1>1, <1>2, <1>3, <1>4, <1>5, <1>6, <1>7
    DEF SelectNothing, TypeInv, TypeOK, external

LEMMA ActivateType ==
    ASSUME TypeInv, NEW next \in Caps, Activate(next)
    PROVE  TypeInv'
  <1>. USE ValidationAssumption
  <1>1. action' \in Actions /\ ActionTargets'
    BY DEF Activate, Actions, Families, ActionTargets, Caps
  <1>2. checkpoint' \in [completed : SUBSET Caps, reason : Reasons]
    BY DEF Activate, TypeInv, TypeOK, Reasons
  <1>3. pc' = "execute"
    BY DEF Activate
  <1> QED
    BY <1>1, <1>2, <1>3
    DEF Activate, TypeInv, TypeOK, progress, external, trouble, counters

\* What the executing steps have in common: the target is a stage, and a task
\* is started for a capability.
LEMMA LaunchedType ==
    ASSUME TypeInv
    PROVE  Launched \in Boards
  BY TaskMovesType DEF Launched, TypeInv, TypeOK, ActionTargets

LEMMA TargetType ==
    ASSUME TypeInv
    PROVE  action.target \in 0 .. Validation /\ action.target \in Stages
  <1>1. action.target \in 0 .. Validation
    BY ValidationAssumption DEF TypeInv, TypeOK, Actions, NoAction
  <1> QED
    BY <1>1, ValidationAssumption DEF Stages, Elsewhere

LEMMA ObserveType ==
    ASSUME NEW t \in Stages, NEW status \in {"none", "running", "success", "failed", "skipped"},
           Observe(t, status)
    PROVE  obs' \in [target : Stages,
                    status : {"none", "running", "success", "failed", "skipped"}]
  BY DEF Observe

LEMMA CountRetryType ==
    ASSUME TypeInv, NEW counted, CountRetry(counted)
    PROVE  retryCounts' \in [Caps -> Nat]
  <1>1. retryCounts \in [Caps -> Nat]
    BY DEF TypeInv, TypeOK
  <1>2. \A c : [retryCounts EXCEPT ![c] = @ + 1] \in [Caps -> Nat]
    <2> TAKE c
    <2>1. CASE c \in Caps
      BY <1>1, <2>1
    <2>2. CASE c \notin Caps
      <3>1. [retryCounts EXCEPT ![c] = @ + 1] = retryCounts
        BY <1>1, <2>2
      <3> QED
        BY <1>1, <3>1
    <2> QED
      BY <2>1, <2>2
  <1> QED
    BY <1>1, <1>2 DEF CountRetry

LEMMA RecordStageType ==
    ASSUME TypeInv, NEW t \in Caps, NEW ok \in BOOLEAN, RecordStage(t, ok)
    PROVE  /\ stageStatus' \in [Caps -> {"none", "success", "failed"}]
           /\ completed' \subseteq Caps /\ outputs' \subseteq Caps
           /\ runStatus' \in RunStatuses
           /\ obs' \in [target : Stages,
                        status : {"none", "running", "success", "failed", "skipped"}]
  <1>1. t \in Stages
    BY ValidationAssumption DEF Caps, Stages, Elsewhere
  <1>2. obs' \in [target : Stages,
                 status : {"none", "running", "success", "failed", "skipped"}]
    BY <1>1, ObserveType DEF RecordStage
  <1> QED
    BY <1>2 DEF RecordStage, TypeInv, TypeOK, RunStatuses

LEMMA ClearResolvedType ==
    ASSUME TypeInv, NEW t, NEW o, ClearResolved(t, o)
    PROVE  lastError' \in BOOLEAN /\ recoveryStage' \in 0 .. Validation
  <1>1. lastError' \in BOOLEAN /\ recoveryStage' \in {0, recoveryStage}
    BY Zenon DEF ClearResolved
  <1> QED
    BY <1>1, ValidationAssumption DEF TypeInv, TypeOK

\* What every executing step leaves alone.
LEMMA ExecutingType ==
    ASSUME TypeInv, Executing
    PROVE  /\ pc' = "reflect"
           /\ ActionTargets' /\ action' \in Actions \cup {NoAction}
           /\ contract' \in [made : BOOLEAN, planned : SUBSET Caps]
           /\ checkpoint' \in [completed : SUBSET Caps, reason : Reasons]
           /\ inbox' \in Seq(EventRecords) /\ consumed' \subseteq Nat
           /\ reported' \in BOOLEAN
           /\ round' \in 0 .. MaxRounds /\ crashes' \in 0 .. MaxCrashes
  BY DEF Executing, TypeInv, TypeOK, ActionTargets, flow

LEMMA RefusedType ==
    ASSUME TypeInv, Refused
    PROVE  TypeInv'
  <1>1. Executing /\ Observe(action.target, "failed") /\ runStatus' \in RunStatuses
    BY DEF Refused, RunStatuses
  <1> QED
    BY <1>1, ExecutingType, TargetType, ObserveType
    DEF Refused, TypeInv, TypeOK, progress, trouble

LEMMA RunStageType ==
    ASSUME TypeInv, NEW ok \in BOOLEAN, RunStage(ok)
    PROVE  TypeInv'
  <1> DEFINE t == action.target
  <1>. USE ValidationAssumption
  <1>1. Executing /\ t \in Caps
    BY TargetType DEF RunStage, Dispatched, Caps
  <1>2. board' \in Boards
    <2>1. (IF Resets THEN ResetFrom(Launched, t) ELSE Launched) \in Boards
      BY <1>1, LaunchedType, ResetType
    <2> QED
      BY <2>1, NormalisedType DEF RunStage
  <1>3. refinements' \in Nat
    BY DEF RunStage, TypeInv, TypeOK
  <1>4. retryCounts' \in [Caps -> Nat]
    BY CountRetryType DEF RunStage
  <1>5. RecordStage(t, ok)
    BY DEF RunStage
  <1>6. lastError' \in BOOLEAN /\ recoveryStage' \in 0 .. Validation
    <2>1. CASE ok
      BY <2>1, ClearResolvedType DEF RunStage
    <2>2. CASE ~ok
      BY <1>1, <2>2 DEF RunStage, Caps
    <2> QED
      BY <2>1, <2>2
  <1>7. quality' \in Qualities
    BY DEF RunStage, TypeInv, TypeOK
  <1>8. UNCHANGED <<terminating, report, jobs, awaiting>>
    BY DEF RunStage
  <1>9. /\ stageStatus' \in [Caps -> {"none", "success", "failed"}]
        /\ completed' \subseteq Caps /\ outputs' \subseteq Caps
        /\ runStatus' \in RunStatuses
        /\ obs' \in [target : Stages,
                     status : {"none", "running", "success", "failed", "skipped"}]
    BY <1>1, <1>5, RecordStageType
  <1> HIDE DEF t
  <1> QED
    BY <1>1, <1>2, <1>3, <1>4, <1>6, <1>7, <1>8, <1>9, ExecutingType DEF TypeInv, TypeOK

LEMMA RunPrepareType ==
    ASSUME TypeInv, NEW ok \in BOOLEAN, RunPrepare(ok)
    PROVE  TypeInv'
  <1>. USE ValidationAssumption
  <1>1. Executing /\ Prepare \in Caps
    BY DEF RunPrepare, Dispatched, Caps, Prepare
  <1>2. board' \in Boards /\ retryCounts' \in [Caps -> Nat]
    BY LaunchedType, NormalisedType, CountRetryType DEF RunPrepare
  <1>3. RecordStage(Prepare, ok)
    BY DEF RunPrepare
  <1>4. lastError' \in BOOLEAN /\ recoveryStage' \in 0 .. Validation
    <2>1. CASE ok
      BY <2>1, ClearResolvedType DEF RunPrepare
    <2>2. CASE ~ok
      BY <2>2 DEF RunPrepare, TypeInv, TypeOK
    <2> QED
      BY <2>1, <2>2
  <1>5. UNCHANGED <<terminating, report, jobs, awaiting, quality, refinements>>
    BY DEF RunPrepare
  <1>6. /\ stageStatus' \in [Caps -> {"none", "success", "failed"}]
        /\ completed' \subseteq Caps /\ outputs' \subseteq Caps
        /\ runStatus' \in RunStatuses
        /\ obs' \in [target : Stages,
                     status : {"none", "running", "success", "failed", "skipped"}]
    BY <1>1, <1>3, RecordStageType
  <1> QED
    BY <1>1, <1>2, <1>4, <1>5, <1>6, ExecutingType DEF TypeInv, TypeOK

LEMMA RefineWithoutPointsType ==
    ASSUME TypeInv, RefineWithoutPoints
    PROVE  TypeInv'
  <1>1. Executing /\ Observe(action.target, "failed") /\ runStatus' \in RunStatuses
    BY DEF RefineWithoutPoints, Dispatched, RunStatuses
  <1>2. board' \in Boards
    BY LaunchedType, NormalisedType DEF RefineWithoutPoints
  <1> QED
    BY <1>1, <1>2, ExecutingType, TargetType, ObserveType
    DEF RefineWithoutPoints, TypeInv, TypeOK, progress, trouble

LEMMA RunValidationType ==
    ASSUME TypeInv, RunValidation
    PROVE  TypeInv'
  <1>. USE ValidationAssumption
  <1>1. Executing /\ Validation \in Caps /\ Validation \in Stages
    BY DEF RunValidation, Dispatched, Caps, Stages, Elsewhere
  <1>2. board' \in Boards /\ retryCounts' \in [Caps -> Nat]
    BY LaunchedType, NormalisedType, CountRetryType DEF RunValidation
  <1>3. /\ report' \in BOOLEAN /\ runStatus' \in RunStatuses
        /\ stageStatus' \in [Caps -> {"none", "success", "failed"}]
        /\ completed' \subseteq Caps /\ outputs' \subseteq Caps
    BY <1>1 DEF RunValidation, RunStatuses, TypeInv, TypeOK
  <1>4. Observe(Validation, "success") /\ UNCHANGED <<terminating, jobs, awaiting, trouble, refinements>>
    BY DEF RunValidation
  <1> QED
    BY <1>1, <1>2, <1>3, <1>4, ExecutingType, ObserveType DEF TypeInv, TypeOK, trouble

LEMMA SubmitExternalJobType ==
    ASSUME TypeInv, SubmitExternalJob
    PROVE  TypeInv'
  <1> DEFINE t == action.target
  <1>. USE ValidationAssumption
  <1>1. Executing /\ t \in Caps /\ Observe(t, "running") /\ runStatus' \in RunStatuses
    BY DEF SubmitExternalJob, Dispatched, TypeInv, ActionTargets, RunStatuses
  <1>2. board' \in Boards
    BY <1>1, ResetType, NormalisedType DEF SubmitExternalJob, TypeInv, TypeOK
  <1>3. jobs' \subseteq [id : Nat, target : Caps, pending : BOOLEAN]
    <2>1. round \in Nat
      BY BoundsAssumption DEF TypeInv, TypeOK
    <2>2. [id |-> round, target |-> t, pending |-> TRUE]
             \in [id : Nat, target : Caps, pending : BOOLEAN]
      BY <1>1, <2>1
    <2> QED
      BY <2>2 DEF SubmitExternalJob, TypeInv, TypeOK
  <1>4. awaiting' \in 0 .. Validation
    BY <1>1 DEF SubmitExternalJob, Caps
  <1>5. UNCHANGED <<terminating, progress, trouble, retryCounts, refinements>>
    BY DEF SubmitExternalJob
  <1> QED
    BY <1>1, <1>2, <1>3, <1>4, <1>5, ExecutingType, TargetType, ObserveType
    DEF TypeInv, TypeOK, progress, trouble

\* The steps that only move the run: a channel dropped, a repair without a
\* target, the end of the material.
LEMMA RunOnlyType ==
    ASSUME TypeInv, DropChannel \/ NoTarget \/ End
    PROVE  TypeInv'
  <1>1. Executing
    BY DEF DropChannel, NoTarget, End, Dispatched
  <1>2. \E t \in Stages, status \in {"success", "failed"} : Observe(t, status)
    <2>1. 0 \in Stages
      BY ValidationAssumption DEF Stages, Elsewhere
    <2>2. CASE DropChannel \/ NoTarget
      BY <2>1, <2>2, TargetType DEF DropChannel, NoTarget
    <2>3. CASE End
      <3>1. Observe(action.target, "success") \/ Observe(action.target, "failed")
        BY <2>3, Zenon DEF End
      <3> QED
        BY <3>1, TargetType
    <2> QED
      BY <2>2, <2>3
  <1>3. obs' \in [target : Stages,
                 status : {"none", "running", "success", "failed", "skipped"}]
    BY <1>2, ObserveType
  <1>4. runStatus' \in RunStatuses /\ terminating' \in BOOLEAN
    <2>1. terminating' \in {terminating, TRUE}
      BY DEF DropChannel, NoTarget, End
    <2>2. terminating' \in BOOLEAN
      BY <2>1, Zenon DEF TypeInv, TypeOK
    <2> QED
      BY <2>2 DEF DropChannel, NoTarget, End, RunStatuses
  <1>5. UNCHANGED <<board, progress, jobs, awaiting, trouble, retryCounts, refinements>>
    BY DEF DropChannel, NoTarget, End
  <1> QED
    BY <1>1, <1>3, <1>4, <1>5, ExecutingType DEF TypeInv, TypeOK, progress, trouble

LEMMA EscalateType ==
    ASSUME TypeInv, NEW answer \in HumanAnswers, Escalate(answer)
    PROVE  TypeInv'
  <1> DEFINE t == action.target
  <1> DEFINE stage == ResumeStage(answer, t)
  <1>1. Executing /\ t \in Stages /\ stage \in Stages
    BY ModeAssumption, TargetType, ResumeStageType DEF Escalate
  <1>2. board' \in Boards
    BY ResetType, NormalisedType DEF Escalate, TypeInv, TypeOK
  <1>3. runStatus' \in RunStatuses
    BY DEF Escalate, RunStatuses
  <1>4. terminating' \in BOOLEAN
    <2>1. terminating' \in {terminating, TRUE}
      BY DEF Escalate
    <2> QED
      BY <2>1, Zenon DEF TypeInv, TypeOK
  <1>5. obs' \in [target : Stages,
                 status : {"none", "running", "success", "failed", "skipped"}]
    <2>1. Observe(t, "skipped") \/ Observe(t, "failed") \/ Observe(stage, "success")
      BY Zenon DEF Escalate
    <2> QED
      BY <1>1, <2>1, ObserveType
  <1>6. UNCHANGED <<progress, jobs, awaiting, trouble, retryCounts, refinements>>
    BY DEF Escalate
  <1> QED
    BY <1>1, <1>2, <1>3, <1>4, <1>5, <1>6, ExecutingType DEF TypeInv, TypeOK, progress, trouble

LEMMA ReflectType ==
    ASSUME TypeInv, Reflect
    PROVE  TypeInv'
  <1>1. board' \in Boards
    <2> DEFINE t == IF obs.target # 0 THEN obs.target ELSE action.target
    <2>1. (IF t \in Caps THEN Reflected(t) ELSE board) \in Boards
      BY ReflectedType DEF TypeInv, TypeOK
    <2> QED
      BY <2>1, NormalisedType DEF Reflect
  <1>2. checkpoint' \in [completed : SUBSET Caps, reason : Reasons]
    BY ReasonType DEF Reflect, TypeInv, TypeOK
  <1>3. pc' \in {"finalize", "loop"}
    BY DEF Reflect
  <1> QED
    BY <1>1, <1>2, <1>3
    DEF Reflect, TypeInv, TypeOK, ActionTargets, progress, external, trouble, counters

LEMMA RecoverWaitType ==
    ASSUME TypeInv, RecoverWait
    PROVE  TypeInv'
  <1>1. jobs' \subseteq jobs
    BY DEF RecoverWait, JobsWithout
  <1>2. obs' \in [target : Stages,
                 status : {"none", "running", "success", "failed", "skipped"}]
    BY DEF RecoverWait, TypeInv, TypeOK
  <1>3. awaiting' \in 0 .. Validation /\ runStatus' \in RunStatuses
        /\ pc' = "loop" /\ lastError' \in BOOLEAN
    BY ValidationAssumption DEF RecoverWait, RunStatuses
  <1> QED
    BY <1>1, <1>2, <1>3
    DEF RecoverWait, TypeInv, TypeOK, ActionTargets, flow, progress, counters

LEMMA FinishType ==
    ASSUME TypeInv, Finish
    PROVE  TypeInv'
  <1>1. runStatus' \in RunStatuses
    BY DEF Finish, FinalStatus, RunStatuses, TypeInv, TypeOK
  <1>2. reported' \in BOOLEAN
    <2>1. reported' \in {reported, TRUE}
      BY DEF Finish
    <2> QED
      BY <2>1, Zenon DEF TypeInv, TypeOK
  <1>3. checkpoint' \in [completed : SUBSET Caps, reason : Reasons]
    BY DEF Finish, TypeInv, TypeOK, Reasons
  <1>4. pc' = "idle"
    BY DEF Finish
  <1> QED
    BY <1>1, <1>2, <1>3, <1>4
    DEF Finish, TypeInv, TypeOK, ActionTargets, progress, external, trouble, counters

LEMMA ProcessType ==
    ASSUME TypeInv, Resume \/ Crash
    PROVE  TypeInv'
  <1>1. pc' \in {"loop", "idle"} /\ crashes' \in 0 .. MaxCrashes
    BY BoundsAssumption DEF Resume, Crash, TypeInv, TypeOK, counters
  <1> QED
    BY <1>1
    DEF Resume, Crash, TypeInv, TypeOK, ActionTargets, flow, progress, external, trouble, counters

LEMMA TypeInvariance == Spec => []TypeInv
  <1>1. TypeInv /\ [Next]_vars => TypeInv'
    <2> SUFFICES ASSUME TypeInv, [Next]_vars
                 PROVE  TypeInv'
      OBVIOUS
    <2>1. CASE Resume \/ Crash
      BY <2>1, ProcessType
    <2>2. CASE \E e \in Events : Submit(e)
      BY <2>2, SubmitType
    <2>3. CASE ConsumeEvent \/ ObserveConsumes
      BY <2>3, ConsumeStepsType
    <2>4. CASE Leave
      BY <2>4, LeaveType
    <2>5. CASE Deliberate
      BY <2>5, SelectType, SelectEscalationType, SelectNothingType DEF Deliberate
    <2>6. CASE \E next \in Caps : Activate(next)
      BY <2>6, ActivateType
    <2>7. CASE Execute
      BY <2>7, RefusedType, RunStageType, RunPrepareType, RefineWithoutPointsType,
         RunValidationType, SubmitExternalJobType, RunOnlyType, EscalateType DEF Execute
    <2>8. CASE Reflect \/ RecoverWait \/ Finish
      BY <2>8, ReflectType, RecoverWaitType, FinishType
    <2>9. CASE OutOfRounds \/ UNCHANGED vars
      BY <2>9, StutterType DEF OutOfRounds
    <2> QED
      BY <2>1, <2>2, <2>3, <2>4, <2>5, <2>6, <2>7, <2>8, <2>9 DEF Next, Drive
  <1> QED
    BY InitType, <1>1, PTL DEF Spec

\* The variables hold what their comments say in every state of every run, for
\* every pipeline, menu of actions, set of events and bound: in particular no
\* step moves a task the board cannot hold or waits for a stage there is not.
THEOREM TypeCorrect == Spec => []TypeOK
  <1>1. TypeInv => TypeOK
    BY DEF TypeInv
  <1> QED
    BY TypeInvariance, <1>1, PTL

-----------------------------------------------------------------------------
(* The task board between the steps.                                       *)

\* The stage whose task reflect_round moves.
Reflecting == IF obs.target # 0 THEN obs.target ELSE action.target

Settled(b) == AllHeld(b) /\ Empty(b, "active")
AtWork(b, t) == AllHeld(b) /\ ActiveAtMost(b, t)

\* Only the task that reflect_round is about to move can be active, and only if
\* it has an outcome to move it by.
BoardInv ==
    /\ pc # "reflect" => Settled(board)
    /\ pc = "reflect" => AtWork(board, Reflecting)
    /\ pc = "reflect" /\ obs.status \notin {"success", "failed", "skipped"} => Settled(board)
    /\ action.family = "revalidate_result" => action.target = Validation

LEMMA SettledAtWork ==
    ASSUME NEW b \in Boards, Settled(b), NEW t
    PROVE  AtWork(b, t)
  BY DEF Settled, AtWork, Empty, ActiveAtMost

LEMMA SettledMoves ==
    ASSUME NEW b \in Boards, NEW c \in Caps, AtWork(b, c)
    PROVE  /\ Settled(Completed(b, c))
           /\ Settled(Blocked(b, c))
           /\ Settled(Abandoned(b, c))
           /\ Settled(ResetFrom(b, c))
  BY EndedActive, ResetActive, ResetKeepsTasks, TaskMovesKeepTasks DEF Settled, AtWork

LEMMA SettledNormalised ==
    ASSUME NEW b \in Boards
    PROVE  /\ Settled(b) => Settled(Normalised(b))
           /\ \A t : AtWork(b, t) => AtWork(Normalised(b), t)
  BY NormalisedKeeps DEF Settled, AtWork

\* An event, whose board is settled, leaves it settled.
LEMMA ConsumeSettled ==
    ASSUME TypeInv, Settled(board), Consume(Head(inbox))
    PROVE  Settled(board')
  <1> DEFINE e == Head(inbox)
  <1> DEFINE t == EventTarget(e)
  <1>1. board \in Boards
    BY DEF TypeInv, TypeOK
  <1>2. ASSUME t \in Caps
        PROVE  Settled(EventBoard(e, t)) /\ EventBoard(e, t) \in Boards
    <2>1. AtWork(board, t)
      BY <1>1, SettledAtWork
    <2>2. /\ Settled(Completed(board, t)) /\ Settled(Blocked(board, t))
          /\ Settled(ResetFrom(board, t))
      BY <1>1, <1>2, <2>1, SettledMoves
    <2>3. EventBoard(e, t) \in {board, Completed(board, t), Blocked(board, t), ResetFrom(board, t)}
      BY Zenon DEF EventBoard
    <2> QED
      BY <1>1, <1>2, <2>2, <2>3, EventBoardType
  <1>3. board' = board \/ board' = Normalised(IF t \in Caps THEN EventBoard(e, t) ELSE board)
    BY Zenon DEF Consume
  <1> QED
    BY <1>1, <1>2, <1>3, SettledNormalised

\* What the launch of an action makes of a settled board.
LEMMA LaunchedAtWork ==
    ASSUME TypeInv, Settled(board)
    PROVE  AtWork(Launched, action.target)
  <1>1. board \in Boards
    BY DEF TypeInv, TypeOK
  <1>2. CASE action.family \in TargetedFamilies
    <2>1. action.target \in Caps
      BY <1>2 DEF TypeInv, ActionTargets
    <2> QED
      BY <1>1, <1>2, <2>1, StartedActive, TaskMovesKeepTasks DEF Launched, AtWork, Settled
  <1>3. CASE action.family \notin TargetedFamilies
    BY <1>1, <1>3, SettledAtWork DEF Launched
  <1> QED
    BY <1>2, <1>3

\* After each executing step: the board is settled, or the observation names
\* the task at work and how it ended.
LEMMA ExecuteAtWork ==
    ASSUME TypeInv, BoardInv, Execute
    PROVE  \/ Settled(board')
           \/ /\ AtWork(board', obs'.target)
              /\ obs'.target # 0
              /\ obs'.status \in {"success", "failed"}
  <1> DEFINE t == action.target
  <1>. USE ValidationAssumption
  <1>1. board \in Boards /\ Launched \in Boards
    BY LaunchedType DEF TypeInv, TypeOK
  <1>2. pc = "execute"
    BY DEF Execute, Refused, RunStage, RunPrepare, RefineWithoutPoints, RunValidation,
       SubmitExternalJob, DropChannel, NoTarget, End, Escalate, Dispatched, Executing
  <1>3. Settled(board) /\ AtWork(Launched, t)
    BY <1>2, LaunchedAtWork DEF BoardInv
  <1>4. CASE Refused \/ DropChannel \/ NoTarget \/ End
    BY <1>3, <1>4 DEF Refused, DropChannel, NoTarget, End
  <1>5. ASSUME NEW ok \in BOOLEAN, RunStage(ok)
        PROVE  /\ AtWork(board', t)
               /\ obs'.target = t /\ t # 0 /\ obs'.status \in {"success", "failed"}
    <2>1. t \in Caps
      BY <1>5, TargetType DEF RunStage, Caps
    <2>2. AtWork(IF Resets THEN ResetFrom(Launched, t) ELSE Launched, t)
      BY <1>1, <1>3, <2>1, SettledMoves, SettledAtWork, ResetType
    <2>3. (IF Resets THEN ResetFrom(Launched, t) ELSE Launched) \in Boards
      BY <1>1, <2>1, ResetType
    <2>4. AtWork(board', t)
      BY <1>5, <2>2, <2>3, SettledNormalised DEF RunStage
    <2> QED
      BY <1>5, <2>1, <2>4 DEF RunStage, RecordStage, Observe, Caps
  <1>6. ASSUME NEW ok \in BOOLEAN, RunPrepare(ok)
        PROVE  /\ AtWork(board', Prepare)
               /\ obs'.target = Prepare /\ obs'.status \in {"success", "failed"}
    BY <1>1, <1>3, <1>6, SettledNormalised DEF RunPrepare, RecordStage, Observe
  <1>7. CASE RefineWithoutPoints
    <2>1. AtWork(board', t)
      BY <1>1, <1>3, <1>7, SettledNormalised DEF RefineWithoutPoints
    <2>2. t \in Caps
      BY <1>7 DEF RefineWithoutPoints, TypeInv, ActionTargets, TargetedFamilies
    <2> QED
      BY <1>7, <2>1, <2>2 DEF RefineWithoutPoints, Observe, Caps
  <1>8. CASE RunValidation
    <2>1. t = Validation
      BY <1>8 DEF RunValidation, IsValidation, BoardInv
    <2>2. AtWork(board', Validation)
      BY <1>1, <1>3, <1>8, <2>1, SettledNormalised DEF RunValidation
    <2> QED
      BY <1>8, <2>2 DEF RunValidation, Observe
  <1>9. CASE SubmitExternalJob
    <2>1. t \in Caps
      BY <1>9 DEF SubmitExternalJob, TypeInv, ActionTargets
    <2>2. Settled(ResetFrom(board, t)) /\ ResetFrom(board, t) \in Boards
      BY <1>1, <1>3, <2>1, SettledAtWork, SettledMoves, ResetType
    <2> QED
      BY <1>9, <2>2, SettledNormalised DEF SubmitExternalJob
  <1>10. ASSUME NEW answer \in HumanAnswers, Escalate(answer)
         PROVE  Settled(board')
    <2> DEFINE stage == ResumeStage(answer, t)
    <2>1. ASSUME stage \in Caps
          PROVE  Settled(ResetFrom(board, stage)) /\ ResetFrom(board, stage) \in Boards
      BY <1>1, <1>3, <2>1, SettledAtWork, SettledMoves, ResetType
    <2>2. Settled(Normalised(IF stage \in Caps THEN ResetFrom(board, stage) ELSE board))
      BY <1>1, <1>3, <2>1, SettledNormalised
    <2> HIDE DEF stage
    <2>3. board' = board
          \/ board' = Normalised(IF stage \in Caps THEN ResetFrom(board, stage) ELSE board)
      BY <1>10 DEF Escalate, stage
    <2> QED
      BY <1>3, <2>2, <2>3
  <1> QED
    BY <1>4, <1>5, <1>6, <1>7, <1>8, <1>9, <1>10 DEF Execute, Prepare

\* reflect_round leaves the board settled.
LEMMA ReflectSettles ==
    ASSUME TypeInv, BoardInv, Reflect
    PROVE  Settled(board')
  <1> DEFINE t == Reflecting
  <1>1. board \in Boards /\ pc = "reflect" /\ AtWork(board, t)
    BY DEF TypeInv, TypeOK, Reflect, BoardInv
  <1>2. CASE t \in Caps
    <2>1. CASE obs.status \in {"success", "failed", "skipped"}
      <3>1. Settled(Reflected(t))
        BY <1>1, <1>2, <2>1, SettledMoves, Zenon DEF Reflected
      <3> QED
        BY <1>1, <1>2, <3>1, ReflectedType, SettledNormalised DEF Reflect, Reflecting
    <2>2. CASE obs.status \notin {"success", "failed", "skipped"}
      <3>1. Reflected(t) = board /\ Settled(board)
        BY <1>1, <2>2, Zenon DEF Reflected, BoardInv
      <3> QED
        BY <1>1, <1>2, <3>1, SettledNormalised DEF Reflect, Reflecting
    <2> QED
      BY <2>1, <2>2
  <1>3. CASE t \notin Caps
    <2>1. Settled(board)
      BY <1>1, <1>3 DEF AtWork, Settled, ActiveAtMost, Empty
    <2> QED
      BY <1>1, <1>3, <2>1, SettledNormalised DEF Reflect, Reflecting
  <1> QED
    BY <1>2, <1>3

LEMMA BoardInvariance ==
    ASSUME MaxCrashes = 0,
           \A a \in Menu : a.family = "revalidate_result" => a.target = Validation
    PROVE  Spec => []BoardInv
  <1>. USE ValidationAssumption
  <1>1. Init => BoardInv
    <2> SUFFICES ASSUME Init  PROVE BoardInv
      OBVIOUS
    <2>1. Settled(board)
      BY DEF Init, InitialBoard, Settled, AllHeld, Held, On, Empty, Lists
    <2> QED
      BY <2>1 DEF Init, BoardInv, NoAction
  <1>2. TypeInv /\ TypeInv' /\ BoardInv /\ [Next]_vars => BoardInv'
    <2> SUFFICES ASSUME TypeInv, TypeInv', BoardInv, [Next]_vars
                 PROVE  BoardInv'
      OBVIOUS
    <2> DEFINE Validated == action.family = "revalidate_result" => action.target = Validation
    <2>1. CASE Resume \/ (\E e \in Events : Submit(e)) \/ Leave
      BY <2>1 DEF Resume, Submit, Leave, AtGate, WaitBoundary, BoardInv
    <2>2. CASE ConsumeEvent \/ ObserveConsumes
      <3>1. /\ Consume(Head(inbox)) /\ pc # "reflect" /\ pc' # "reflect"
            /\ UNCHANGED action
        BY <2>2 DEF ConsumeEvent, ObserveConsumes
      <3> QED
        BY <3>1, ConsumeSettled DEF BoardInv
    <2>3. CASE Deliberate
      <3>1. \/ \E a \in Menu : Select(a)
            \/ SelectEscalation \/ \E flag \in NoopFlags : SelectNothing(flag)
        BY <2>3 DEF Deliberate
      <3>2. UNCHANGED board /\ pc # "reflect" /\ pc' # "reflect" /\ Validated'
        BY <3>1 DEF Select, SelectEscalation, SelectNothing, OpenRound, MeetingReason,
           AtGate, NoAction, WaitBoundary
      <3> QED
        BY <3>2 DEF BoardInv
    <2>4. CASE \E next \in Caps : Activate(next)
      BY <2>4 DEF Activate, AtGate, BoardInv
    <2>5. CASE Execute
      <3>1. pc' = "reflect" /\ UNCHANGED action
        BY <2>5 DEF Execute, Refused, RunStage, RunPrepare, RefineWithoutPoints, RunValidation,
           SubmitExternalJob, DropChannel, NoTarget, End, Escalate, Dispatched, Executing
      <3>2. CASE Settled(board')
        <4>1. AtWork(board', Reflecting')
          BY <3>2, SettledAtWork DEF TypeInv, TypeOK
        <4> QED
          BY <3>1, <3>2, <4>1 DEF BoardInv
      <3>3. CASE /\ AtWork(board', obs'.target)
                 /\ obs'.target # 0
                 /\ obs'.status \in {"success", "failed"}
        BY <3>1, <3>3 DEF BoardInv, Reflecting
      <3> QED
        BY <2>5, <3>2, <3>3, ExecuteAtWork
    <2>6. CASE Reflect
      BY <2>6, ReflectSettles DEF Reflect, BoardInv
    <2>7. CASE RecoverWait \/ Finish
      BY <2>7 DEF RecoverWait, Finish, BoardInv
    <2>8. CASE Crash
      BY <2>8 DEF Crash, TypeInv, TypeOK
    <2>9. CASE OutOfRounds \/ UNCHANGED vars
      BY <2>9 DEF OutOfRounds, vars, BoardInv, Reflecting
    <2> QED
      BY <2>1, <2>2, <2>3, <2>4, <2>5, <2>6, <2>7, <2>8, <2>9 DEF Next, Drive
  <1> QED
    BY <1>1, <1>2, TypeInvariance, PTL DEF Spec

\* As long as no process dies and the result of a validation is never revalidated
\* under the name of another stage, no task leaves the board (deliberation_loop.py,
\* and the nodes that call it).
THEOREM BoardKept ==
    ASSUME MaxCrashes = 0,
           \A a \in Menu : a.family = "revalidate_result" => a.target = Validation
    PROVE  Spec => []NoTaskLost
  <1>1. BoardInv => NoTaskLost
    BY DEF BoardInv, Settled, AtWork, AllHeld, NoTaskLost
  <1> QED
    BY <1>1, BoardInvariance, PTL

\* Under the same conditions no task is active outside the execution of its stage.
THEOREM OnlyTheExecutedIsActive ==
    ASSUME MaxCrashes = 0,
           \A a \in Menu : a.family = "revalidate_result" => a.target = Validation
    PROVE  Spec => []ActiveMeansExecuting
  <1>1. BoardInv => ActiveMeansExecuting
    BY DEF BoardInv, Settled, AtWork, AllHeld, ActiveMeansExecuting
  <1> QED
    BY <1>1, BoardInvariance, PTL
=============================================================================
