---------------------------- MODULE MC_BatchClaim ----------------------------
(***************************************************************************)
(* Instances of BatchClaim for TLC: two batches, the first material of the *)
(* collection slow or none.                                                *)
(***************************************************************************)
EXTENDS BatchClaim

CONSTANTS b1, b2

TwoBatches == {b1, b2}

OneRetrier == {b1}

FirstIsSlow == {1}

NoneIsSlow == {}

\* Materials nobody tried, and materials that failed and whose retry died.
TriedOrNot == {Untried, Claimed(Failed(Untried), Earlier)}

\* A new collection.
AllUntried == {Untried}
=============================================================================
