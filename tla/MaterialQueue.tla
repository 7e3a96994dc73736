--------------------------- MODULE MaterialQueue ---------------------------
(***************************************************************************)
(* What a collection of materials promises to the batches that work it     *)
(* off: at any time one batch holds a material, only its holder settles    *)
(* it, and a material that was completed or skipped is never touched       *)
(* again.  BatchClaim is the collection and the batches as the code has    *)
(* them, and implements this for the materials whose runs end before the   *)
(* claim on them expires.                                                  *)
(***************************************************************************)
CONSTANTS
    Items,      \* the materials
    Holders,    \* the batches
    Nobody      \* holds a material that no batch works on

VARIABLES
    holder,     \* holder[i]: the batch that works on i, or Nobody
    verdict     \* verdict[i]: how the last run of i ended, or "open"

vars == <<holder, verdict>>

\* A settled material is never worked on again.
Settled == {"completed", "skipped"}

\* How a run can end.
Verdicts == Settled \cup {"failed"}

Init ==
    /\ holder = [i \in Items |-> Nobody]
    /\ verdict \in [Items -> Verdicts \cup {"open"}]

\* A batch takes a material that nobody holds and that is not settled.
Take(h, i) ==
    /\ holder[i] = Nobody
    /\ verdict[i] \notin Settled
    /\ \A j \in Items : holder[j] # h
    /\ holder' = [holder EXCEPT ![i] = h]
    /\ verdict' = [verdict EXCEPT ![i] = "open"]

\* Its holder settles it or reports its failure.
Settle(h, i, v) ==
    /\ holder[i] = h
    /\ holder' = [holder EXCEPT ![i] = Nobody]
    /\ verdict' = [verdict EXCEPT ![i] = v]

\* Its holder dies: it is as if the material had not been taken.
Drop(h, i) ==
    /\ holder[i] = h
    /\ holder' = [holder EXCEPT ![i] = Nobody]
    /\ UNCHANGED verdict

Next ==
    \E h \in Holders, i \in Items :
        \/ Take(h, i)
        \/ \E v \in Verdicts : Settle(h, i, v)
        \/ Drop(h, i)

Spec == Init /\ [][Next]_vars
=============================================================================
