----------------------------- MODULE MC_Console -----------------------------
(***************************************************************************)
(* Instances of ControlPlane for TLC: a job of each type, each in a         *)
(* directory of its own, and one for the material the batch runs.           *)
(***************************************************************************)
EXTENDS ControlPlane

KindOf == [j \in Jobs |-> j]

WorkdirOf == [j \in Jobs |-> CASE j = "single" -> "material"
                               [] j = "batch"  -> "runs"
                               [] j = "wiki"   -> "wiki_rag"]
=============================================================================
