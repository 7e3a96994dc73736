------------------------------ MODULE MC_Hitl ------------------------------
(***************************************************************************)
(* Instances of HitlExchange: the options the controller offers by default,*)
(* and a list of the council's own without the default action.  The stages *)
(* a person names are one that restarts everything, one whose contract     *)
(* passes over a stage after it and one close to the end; of the actions   *)
(* that only resume, two.                                                  *)
(***************************************************************************)
EXTENDS HitlExchange

DefaultMenu == <<"manual_fix_resume", "retry_current_stage", "rerun_previous_stage",
                 "skip_material", "abort_task">>

SomeMenus == {DefaultMenu, <<"retry_current_stage", "manual_fix_resume">>}
SomeStages == {"relax", "band", "mobility"}
SomeActions == {"retry_current_stage", "rerun_previous_stage", "skip_material", "abort_task"}
=============================================================================
