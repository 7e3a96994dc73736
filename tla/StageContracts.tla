--------------------------- MODULE StageContracts ---------------------------
(***************************************************************************)
(* The contracts of the workflow's stages (graph/stage_contracts.py): their*)
(* order, what a change of one makes invalid, and which requests to resume *)
(* after a manual fix are accepted.                                        *)
(***************************************************************************)
EXTENDS Naturals, Sequences, SequencesExt

StageOrder ==
    <<"prepare", "relax", "scf", "band", "effective_mass", "strain_loop",
      "refinement", "mobility", "validation", "report">>

AllStages == ToSet(StageOrder)

Position(s) == CHOOSE i \in DOMAIN StageOrder : StageOrder[i] = s

\* The stages a contract names as depending on the stage: not all that follow.
Downstream(s) ==
    CASE s = "prepare" -> AllStages \ {"prepare"}
      [] s = "relax" -> {"scf", "band", "effective_mass", "strain_loop", "mobility", "validation", "report"}
      [] s = "scf" -> {"band", "effective_mass", "strain_loop", "mobility", "validation", "report"}
      [] s = "band" -> {"effective_mass", "mobility", "validation", "report"}
      [] s \in {"effective_mass", "strain_loop", "refinement"} -> {"mobility", "validation", "report"}
      [] s = "mobility" -> {"validation", "report"}
      [] s = "validation" -> {"report"}
      [] OTHER -> {}

Previous(s) == IF Position(s) = 1 THEN s ELSE StageOrder[Position(s) - 1]

Policies == {"retry_current_stage_only", "invalidate_downstream", "restart_from_stage"}

InvalidatedFor(s, policy) ==
    CASE policy = "retry_current_stage_only" -> {s}
      [] policy = "invalidate_downstream"    -> Downstream(s)
      [] policy = "restart_from_stage"       -> {s} \cup Downstream(s)

DefaultPolicy(current, s) ==
    CASE s = current -> "retry_current_stage_only"
      [] s # current /\ s = "relax" -> "restart_from_stage"
      [] OTHER -> "invalidate_downstream"

RequestValid(current, s, policy) ==
    /\ Position(s) <= Position(current)
    /\ policy = "retry_current_stage_only" => s = current
    /\ policy = "invalidate_downstream" => s # current

Resume(s, policy) == [stage |-> s, policy |-> policy]

\* What a stated modification resumes by default, before it is validated.
DefaultRule(current, modified) ==
    CASE modified \in {"INCAR", "custom"}     -> Resume(current, "retry_current_stage_only")
      [] modified = "KPOINTS"                 -> Resume("scf", "invalidate_downstream")
      [] modified \in {"POSCAR", "multiple"}  -> Resume("relax", "restart_from_stage")
=============================================================================
