--------------------------- MODULE MC_MaterialRun ---------------------------
(***************************************************************************)
(* Instances of MaterialRun for TLC.  Five capabilities stand for the      *)
(* eight: prepare 1, relax 2, strain_loop 3, mobility 4, validation 5; the *)
(* three left out (scf, band, effective_mass) only lengthen the chain.     *)
(***************************************************************************)
EXTENDS MaterialRun

RequiredInputs ==
    [c \in Caps |-> CASE c = StrainLoop -> {Prepare + 1}
                      [] c = Mobility   -> {StrainLoop}
                      [] OTHER          -> {}]

\* A failed relaxation or strain loop overwrites its scalar and list outputs;
\* the other outputs are records, which a failure merges nothing into.
ErasedByFailure == {Prepare + 1, StrainLoop}

Act(family, target) == [family |-> family, target |-> target, external |-> FALSE]

RunAll == {Act("run_capability", c) : c \in Caps}
RetryAll == {Act("retry_capability", c) : c \in Caps}
Endings == {Act("finalize_material", 0), Act("abort_material", 0)}

AutonomousMenu ==
    RunAll \cup RetryAll \cup Endings
      \cup {Act("revalidate_result", Validation), Act("repair_execution_context", 0)}

Redo ==
    {Act("refine_sampling", StrainLoop), Act("rerun_from_capability", Mobility),
     Act("rerun_from_capability", StrainLoop), Act("repair_execution_context", Prepare + 1),
     Act("invalidate_channel", Mobility)}

RedoMenu == AutonomousMenu \cup Redo

\* A repair that hands its stage to the external scheduler.
HandOver(c) == [Act("repair_execution_context", c) EXCEPT !.external = TRUE]

HandOvers == {HandOver(Prepare + 1), HandOver(StrainLoop)}

ExternalMenu == RunAll \cup Endings \cup HandOvers

\* With the last stage before a milestone handed over: what a repair that resets
\* an earlier stage does to the contract's next step is another matter.
WideMenu == AutonomousMenu \cup {HandOver(StrainLoop)}

Event(id, type, job, target) == [id |-> id, type |-> type, job |-> job, target |-> target]

\* Job ids are council rounds; nobody submits job 9.
JobEvents ==
    {Event(1, "job_completed", 3, 0), Event(2, "job_failed", 3, 0),
     Event(3, "job_completed", 4, 0), Event(4, "override_abort", 0, 0)}

LooseEvents ==
    {Event(1, "job_completed", 3, 0), Event(2, "job_completed", 9, 0),
     Event(3, "resume_requested", 0, 0), Event(4, "override_skip", 0, 0),
     Event(5, "override_resume", 0, Prepare + 1)}

AllEvents == JobEvents \cup {Event(e.id + 4, e.type, e.job, e.target) : e \in LooseEvents}

HumanMenu ==
    RunAll \cup Endings \cup {Act("escalate_human", c) : c \in {0, Prepare + 1, StrainLoop, Mobility}}

ManualMenu == RedoMenu \cup HumanMenu

AllAnswers ==
    {[kind |-> k, stage |-> 0] : k \in {"skip", "abort", "retry", "previous"}}
      \cup {[kind |-> "manual_fix", stage |-> c] : c \in {Prepare + 1, StrainLoop, Elsewhere}}

NoAnswers == {}
NoEvents == {}
=============================================================================
