------------------------------ MODULE RunStore ------------------------------
(***************************************************************************)
(* What the saved state of a material promises to whoever restarts it: one *)
(* run is kept at a time, each save replaces it by its next version, and a *)
(* run that was given up for a newer one never comes back.  Checkpoints is *)
(* how the code keeps it, in a snapshot file and a durable checkpoint.     *)
(***************************************************************************)
EXTENDS Naturals

VARIABLES
    kept,   \* the run and the version a restart would continue; run 0: none
    last    \* the newest run that was ever kept

vars == <<kept, last>>

Nothing == [run |-> 0, version |-> 0]

Init == kept = Nothing /\ last = 0

\* The first version of a run newer than any before is saved.
Begin ==
    /\ kept = Nothing /\ last' > last
    /\ kept' = [run |-> last', version |-> 1]

\* The run kept goes on by one version.
Advance ==
    /\ kept # Nothing
    /\ kept' = [kept EXCEPT !.version = @ + 1]
    /\ UNCHANGED last

\* It is given up: by a fresh start, or with the memory that held it.
Forget ==
    /\ kept # Nothing
    /\ kept' = Nothing
    /\ UNCHANGED last

Next == Begin \/ Advance \/ Forget

Spec == Init /\ [][Next]_vars
=============================================================================
