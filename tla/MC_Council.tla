----------------------------- MODULE MC_Council -----------------------------
(***************************************************************************)
(* Instances of Council for TLC: two actions, one of which costs much, are *)
(* enough for roles to agree, to disagree and to propose what is illegal.  *)
(***************************************************************************)
EXTENDS Council

AllModes == {"failure_council", "validation_followup_council", "segment_council"}
CheapOnly == {{"cheap"}}
TwoPolicies == {"balanced", "strict"}
=============================================================================
