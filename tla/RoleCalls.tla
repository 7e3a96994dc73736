----------------------------- MODULE RoleCalls -----------------------------
(***************************************************************************)
(* How a council role comes to an answer (agents/base.py): a call for tool *)
(* evidence, then up to MaxAttempts structured calls of its model, each    *)
(* with a raw call to recover an answer that does not parse.  Calls to a   *)
(* provider that serves one request at a time go through a lock of the     *)
(* process (llm_client.py).  Waiting for the lock and sleeping between     *)
(* attempts are one state; the contents of prompts and answers are left    *)
(* out, what an answer says being Council's.                               *)
(***************************************************************************)
EXTENDS Naturals

CONSTANTS
    MaxAttempts,    \* structured calls of one question
    ToolEvidence    \* whether roles look for evidence first

ASSUME CallsAssumption == MaxAttempts \in Nat \ {0} /\ ToolEvidence \in BOOLEAN

VARIABLES
    serialized,     \* the roles whose provider serves one request at a time
    call            \* call[r]: where role r is with its question

\* Roles that ask a model for a decision and have a rule if it fails; one that
\* asks none; and those that need their model.
Advised == {"validation", "refinement"}
Mechanical == {"executor"}
Asking == {"planner", "recovery", "critic", "physics_judge", "cost_guardian", "orchestrator"}
Roles == Advised \cup Mechanical \cup Asking

Kinds == {"none", "evidence", "structured", "raw", "advice"}
Idle == [at |-> "idle", kind |-> "none", attempt |-> 0, round |-> 0]

CallTypeOK ==
    /\ serialized \subseteq Roles
    /\ call \in [Roles -> [at : {"idle", "waiting", "calling", "answered", "raised"},
                           kind : Kinds, attempt : 0 .. MaxAttempts, round : 0 .. 2]]
    /\ \A r \in Roles :
            /\ r \in Mechanical => call[r].at \in {"idle", "waiting", "answered"}
            /\ r \in Advised => call[r].at # "raised"
            /\ r # "planner" => call[r].round < 2

Question(kind, attempt, round) == [at |-> "waiting", kind |-> kind, attempt |-> attempt, round |-> round]

FirstStructured(round) == Question("structured", 1, round)

\* One call, for a role that has a rule to fall back on.
Advice(round) == Question("advice", 0, round)

\* A question put to a role, for the planner a second time if need be.
Asked(r, round) ==
    CASE r \in Mechanical -> Question("none", 0, round)
      [] r \in Advised -> Advice(round)
      [] OTHER -> IF ToolEvidence THEN Question("evidence", 0, round) ELSE FirstStructured(round)

Settled(r) == call[r].at \in {"answered", "raised"}

InFlight(r) == call[r].at = "calling"

\* The lock is held for the length of one call.
Send(r) ==
    /\ call[r].at = "waiting" /\ call[r].kind # "none"
    /\ r \in serialized => \A q \in serialized : ~InFlight(q)
    /\ call' = [call EXCEPT ![r].at = "calling"]
    /\ UNCHANGED serialized

\* Evidence is optional: whatever the call brings, the question is put next.
EvidenceReturns(r) ==
    /\ InFlight(r) /\ call[r].kind = "evidence"
    /\ call' = [call EXCEPT ![r] = FirstStructured(@.round)]
    /\ UNCHANGED serialized

\* An answer that does not parse is asked for again in plain text.
Unparsable(r) ==
    /\ InFlight(r) /\ call[r].kind = "structured"
    /\ call' = [call EXCEPT ![r] = [@ EXCEPT !.at = "waiting", !.kind = "raw"]]
    /\ UNCHANGED serialized

\* Any other failure, and that of the raw call, uses up the attempt.
AttemptFails(r) ==
    /\ InFlight(r) /\ call[r].kind \in {"structured", "raw"}
    /\ call' = [call EXCEPT ![r] =
                    IF @.attempt < MaxAttempts THEN Question("structured", @.attempt + 1, @.round)
                    ELSE [@ EXCEPT !.at = "raised"]]
    /\ UNCHANGED serialized

\* Mutant: a plan without a usable proposal is asked for until there is one.
AlwaysReplanned == TRUE

Replanned == call["planner"].round = 1

\* A plan without a usable proposal is asked for once more, then given up.
PlanUnusable ==
    /\ InFlight("planner") /\ call["planner"].kind \in {"structured", "raw"}
    /\ call' = [call EXCEPT !["planner"] =
                    IF Replanned THEN Asked("planner", 2) ELSE [@ EXCEPT !.at = "raised"]]
    /\ UNCHANGED serialized

\* The model's answer is taken; an advised role answers by its rule if it fails.
Answers(r) ==
    /\ InFlight(r) /\ call[r].kind \in {"structured", "raw", "advice"}
    /\ call' = [call EXCEPT ![r].at = "answered"]
    /\ UNCHANGED serialized

\* The role finds without a call that there is nothing to ask its model.
AnswersAlone(r) ==
    /\ call[r] = Asked(r, 1)
    /\ call' = [call EXCEPT ![r].at = "answered"]
    /\ UNCHANGED serialized

Calling(r) == Send(r) \/ EvidenceReturns(r) \/ Unparsable(r) \/ AttemptFails(r) \/ (r = "planner" /\ PlanUnusable)
=============================================================================
