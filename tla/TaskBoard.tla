------------------------------ MODULE TaskBoard ------------------------------
(***************************************************************************)
(* The task board of one material: the five lists of capability tasks that *)
(* runtime/deliberation_loop.py keeps in state["task_board"], and the      *)
(* operations that move tasks between them.                                *)
(*                                                                         *)
(* A capability is its position in CAPABILITY_SEQUENCE, so "prepare" is 1  *)
(* and "validation" is the last one; each depends on the one before it.    *)
(* A list is a bag, a number of tasks for each capability: the code finds  *)
(* tasks by capability and never by position, but the same capability can  *)
(* be listed more than once, and those copies matter.                      *)
(***************************************************************************)
EXTENDS Integers

CONSTANT Validation     \* the position of the last capability (8 in the code)

ASSUME ValidationAssumption == Validation \in Nat /\ Validation >= 4

Prepare == 1
Mobility == Validation - 1
StrainLoop == Validation - 2

Caps == 1 .. Validation

Lists == {"pending", "active", "completed", "blocked", "abandoned"}

Boards == [Lists -> [Caps -> Nat]]

InitialBoard ==
    [l \in Lists |-> [c \in Caps |-> IF l = "pending" THEN 1 ELSE 0]]

On(b, l, c) == b[l][c] > 0

Empty(b, l) == \A c \in Caps : b[l][c] = 0

\* Every capability is listed somewhere.
Held(b, c) == \E l \in Lists : On(b, l, c)

-----------------------------------------------------------------------------
(* move_task takes one task out of the source list, or invents it when the *)
(* source has none, and appends it to the target list.                     *)

\* Mutant: it takes the task without looking whether the source has it.
BlindMove(b, c, source, target) ==
    [b EXCEPT ![source][c] = @ - 1, ![target][c] = @ + 1]

Move(b, c, source, target) ==
    [b EXCEPT ![source][c] = IF @ > 0 THEN @ - 1 ELSE 0,
              ![target][c] = @ + 1]

ActiveOrPending(b, c) == IF On(b, "active", c) THEN "active" ELSE "pending"

Started(b, c) == Move(b, c, "pending", "active")

\* Mutant: a task is looked for among the pending ones only.
CompletedPending(b, c) == Move(b, c, "pending", "completed")

Completed(b, c) == Move(b, c, ActiveOrPending(b, c), "completed")

Blocked(b, c) == Move(b, c, "active", "blocked")

Abandoned(b, c) == Move(b, c, ActiveOrPending(b, c), "abandoned")

\* Mutant: no new task for a capability that is neither pending nor completed.
RequeuedListed(b, d) == b["pending"][d] + b["completed"][d] + b["active"][d]

\* The copies of d that reset_from_capability leaves pending, for d at or
\* after the capability it resets from: what was pending, what was completed
\* (a new task when there is neither), and what was active.
Requeued(b, d) ==
    LET queued == b["pending"][d] + b["completed"][d]
    IN  (IF queued = 0 THEN 1 ELSE queued) + b["active"][d]

ResetFrom(b, c) ==
    [l \in Lists |-> [d \in Caps |->
        IF l = "active" THEN 0
        ELSE IF d < c THEN b[l][d]
        ELSE IF l = "pending" THEN Requeued(b, d) ELSE 0]]

\* MaterialTaskState refills a board whose pending, completed and active
\* lists are all empty each time the state is validated.
Normalised(b) ==
    IF Empty(b, "pending") /\ Empty(b, "completed") /\ Empty(b, "active")
    THEN [b EXCEPT !["pending"] = InitialBoard["pending"]]
    ELSE b

-----------------------------------------------------------------------------
(* What the rest of the runtime reads off the board.                       *)

\* The first list that holds c, in the order the legality check looks.
TaskStatus(b, c) ==
    CASE On(b, "pending", c)                                  -> "pending"
      [] ~On(b, "pending", c) /\ On(b, "active", c)           -> "active"
      [] ~On(b, "pending", c) /\ ~On(b, "active", c) /\ On(b, "completed", c)
                                                              -> "completed"
      [] \A l \in {"pending", "active", "completed"} : ~On(b, l, c) ->
            IF On(b, "blocked", c) THEN "blocked"
            ELSE IF On(b, "abandoned", c) THEN "abandoned" ELSE "unknown"

DependenciesCompleted(b, c) == c # Prepare => On(b, "completed", c - 1)

AllResolved(b) ==
    \A l \in {"pending", "active", "blocked", "abandoned"} : Empty(b, l)
=============================================================================
