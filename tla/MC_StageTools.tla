--------------------------- MODULE MC_StageTools ---------------------------
(* One direction, three strains of a first campaign and one more for a     *)
(* resampling; enough faults to use up a ladder of one promotion and to    *)
(* fail a point besides.                                                   *)
EXTENDS StageTools

OneDirection == {"x"}
SomeStrains == -1..2
FirstStrains == -1..1
Both == BOOLEAN
On == {TRUE}
=============================================================================
