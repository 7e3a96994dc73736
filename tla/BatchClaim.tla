----------------------------- MODULE BatchClaim -----------------------------
(***************************************************************************)
(* Batches that work off one MongoDB collection of materials               *)
(* (runtime/batch_runner.py, runtime/mongo_batch.py and the batch entry    *)
(* point of runtime/entrypoints.py).  A batch claims the first material    *)
(* that it may run, writes its input files, runs it to its outcome, writes *)
(* the outcome to the material's document and to its own tally, and goes   *)
(* on until no material is left for it.  Any number of batches may work on *)
(* the same collection; the claim is one atomic find-and-update, all the   *)
(* rest interleaves.                                                       *)
(*                                                                         *)
(* A claim records the batch's tag and the time, and no owner: it expires  *)
(* when running_stale_s have passed, whether its batch died or is slow.    *)
(* Time is abstracted to which claims have expired.  A document's _id is   *)
(* taken to be an ObjectId or a plain string, which is what                *)
(* _coerce_mongo_doc_id gives back unchanged.                              *)
(***************************************************************************)
EXTENDS Integers, FiniteSets

CONSTANTS
    NMaterials,   \* documents of the collection, in the order of their _id
    Batches,      \* the batches, by their tags
    Earlier,      \* the tag of batches that ran before
    Retriers,     \* the batches configured with retry_failed
    Inherited,    \* the forms of document that earlier batches left
    Slow,         \* the materials whose run may outlast the claim on it
    MaxFaults     \* bound on how often one does or a batch's process dies

Materials == 1..NMaterials

ASSUME ClaimAssumption ==
    /\ NMaterials \in Nat
    /\ Earlier \notin Batches
    /\ 0 \notin Batches
    /\ Retriers \subseteq Batches
    /\ Slow \subseteq Materials
    /\ MaxFaults \in Nat

VARIABLES
    docs,       \* docs[m]: the document of material m
    expired,    \* the materials whose started_at is older than the limit
    step,       \* step[b]: the task of the entry point batch b is at
    current,    \* current[b]: the material batch b is at, 0 between materials
    outcome,    \* outcome[b]: current_outcome, "none" when it is empty
    tally,      \* tally[b]: the item lists of batch b's state
    saved,      \* saved[b]: the lists that the thread of b was saved with
    overruns,   \* claims that expired on a batch at work, so far
    crashes     \* deaths so far

vars == <<docs, expired, step, current, outcome, tally, saved, overruns, crashes>>

bounds == <<overruns, crashes>>

local == <<step, current, outcome, tally, saved>>

\* mobility_calc.status; a document without one is pending.
Statuses == {"pending", "running", "completed", "failed", "skipped"}

\* The fields of a document whose presence tells its outcome.
Document ==
    [status : Statuses, tag : Batches \cup {Earlier},
     results : BOOLEAN, error : BOOLEAN,
     completed_at : BOOLEAN, failed_at : BOOLEAN]

\* What derive_compute_status makes of the outcome of a run; "waiting" stands
\* for the statuses of a run that is not over.
Outcomes == {"completed", "skipped", "failed", "waiting"}

\* The tasks of the entry point, and the write that aggregate_item makes
\* before it counts.
Steps == {"off", "fetch", "prepare", "run", "aggregate", "count", "finalize"}

\* The tasks during which a batch works on the material it fetched.
AtWork == {"prepare", "run", "aggregate"}

Lists == {"completed", "failed", "skipped"}

NoItems == [l \in Lists |-> {}]

WorksOn(b, m) == step[b] \in AtWork /\ current[b] = m

-----------------------------------------------------------------------------
(* The collection                                                          *)

Untried ==
    [status |-> "pending", tag |-> Earlier, results |-> FALSE,
     error |-> FALSE, completed_at |-> FALSE, failed_at |-> FALSE]

\* claim_next_material: what the claim writes.
Claimed(doc, b) == [doc EXCEPT !.status = "running", !.tag = b]

\* Mutant: the trace of an earlier failure is left.
CompletedOver(doc) ==
    [doc EXCEPT !.status = "completed", !.results = TRUE, !.completed_at = TRUE]

\* mark_completed
Completed(doc) ==
    [doc EXCEPT !.status = "completed", !.results = TRUE,
                !.completed_at = TRUE, !.error = FALSE, !.failed_at = FALSE]

\* mark_failed
Failed(doc) ==
    [doc EXCEPT !.status = "failed", !.error = TRUE, !.failed_at = TRUE,
                !.results = FALSE, !.completed_at = FALSE]

\* _mark_skipped keeps a reason in mobility_calc.error.
Skipped(doc) ==
    [doc EXCEPT !.status = "skipped", !.error = TRUE, !.completed_at = TRUE,
                !.results = FALSE, !.failed_at = FALSE]

\* The list aggregate_item counts an outcome on: one that is neither
\* completed nor skipped, of a run that waits too, counts as failed.
ListOf(o) == IF o \in {"completed", "skipped"} THEN o ELSE "failed"

\* Mutants: the outcome of a run that waits is written as it is, or not at
\* all.
MarkedAsIs(doc, o) ==
    IF ListOf(o) = "failed" THEN [Failed(doc) EXCEPT !.status = o]
    ELSE IF o = "completed" THEN Completed(doc) ELSE Skipped(doc)

MarkedWhenOver(doc, o) ==
    IF o = "waiting" THEN doc
    ELSE IF o = "failed" THEN Failed(doc)
    ELSE IF o = "completed" THEN Completed(doc) ELSE Skipped(doc)

\* The document aggregate_item leaves.
Marked(doc, o) ==
    CASE ListOf(o) = "completed" -> Completed(doc)
      [] ListOf(o) = "skipped"   -> Skipped(doc)
      [] ListOf(o) = "failed"    -> Failed(doc)

\* Mutant: its own failures too.
RetryableByAll(b, m) == b \in Retriers /\ docs[m].status = "failed"

\* A batch with retry_failed takes the failures of other batches.
Retryable(b, m) ==
    /\ b \in Retriers
    /\ docs[m].status = "failed"
    /\ docs[m].tag # b

\* Mutant: any claim may be.
AnyRunning(m) == docs[m].status = "running"

\* A claim that has expired may be of a batch that died.
Abandoned(m) == docs[m].status = "running" /\ m \in expired

\* The filter of claim_next_material.
Claimable(b, m) ==
    \/ docs[m].status = "pending"
    \/ Retryable(b, m)
    \/ Abandoned(m)

\* Documents an earlier use of the collection may have left: untried,
\* claimed by a process that died, on its first run or a retry, or ended.
Left ==
    {Untried, Claimed(Untried, Earlier), Claimed(Failed(Untried), Earlier),
     Completed(Untried), Failed(Untried), Skipped(Untried)}

ASSUME InheritedAssumption == Inherited \subseteq Left

-----------------------------------------------------------------------------
Init ==
    /\ docs \in [Materials -> Inherited]
    /\ expired = {}
    /\ step = [b \in Batches |-> "off"]
    /\ current = [b \in Batches |-> 0]
    /\ outcome = [b \in Batches |-> "none"]
    /\ tally = [b \in Batches |-> NoItems]
    /\ saved = [b \in Batches |-> NoItems]
    /\ overruns = 0
    /\ crashes = 0

\* Mutant: the lists are made anew whenever the process starts.
StartAnew(b) ==
    /\ step[b] = "off"
    /\ step' = [step EXCEPT ![b] = "fetch"]
    /\ tally' = [tally EXCEPT ![b] = NoItems]
    /\ outcome' = [outcome EXCEPT ![b] = "none"]
    /\ UNCHANGED <<docs, expired, current, saved, bounds>>

\* The process starts on the thread of its tag: with what was saved when the
\* batch last ended, or with the lists batch_init makes.
Start(b) ==
    /\ step[b] = "off"
    /\ step' = [step EXCEPT ![b] = "fetch"]
    /\ tally' = [tally EXCEPT ![b] = saved[b]]
    /\ outcome' = [outcome EXCEPT ![b] = "none"]
    /\ UNCHANGED <<docs, expired, current, saved, bounds>>

\* fetch_next: the first material in the order of _id, claimed atomically,
\* whose started_at is now.
Fetch(b, m) ==
    /\ step[b] = "fetch"
    /\ Claimable(b, m)
    /\ \A other \in Materials : Claimable(b, other) => m <= other
    /\ docs' = [docs EXCEPT ![m] = Claimed(@, b)]
    /\ expired' = expired \ {m}
    /\ current' = [current EXCEPT ![b] = m]
    /\ step' = [step EXCEPT ![b] = "prepare"]
    /\ UNCHANGED <<outcome, tally, saved, bounds>>

\* fetch_next: nothing to claim, the batch is done.
FetchNothing(b) ==
    /\ step[b] = "fetch"
    /\ \A m \in Materials : ~ Claimable(b, m)
    /\ step' = [step EXCEPT ![b] = "finalize"]
    /\ UNCHANGED <<docs, expired, current, outcome, tally, saved, bounds>>

\* prepare_item writes the input files, or makes a failed outcome.
Prepare(b, o) ==
    /\ step[b] = "prepare"
    /\ o \in {"none", "failed"}
    /\ outcome' = [outcome EXCEPT ![b] = o]
    /\ step' = [step EXCEPT ![b] = "run"]
    /\ UNCHANGED <<docs, expired, current, tally, saved, bounds>>

\* run_item runs the material unless prepare_item gave it an outcome; an
\* exception of the runner is a failed outcome.
Run(b, o) ==
    /\ step[b] = "run"
    /\ outcome[b] # "none" => o = outcome[b]
    /\ outcome' = [outcome EXCEPT ![b] = o]
    /\ step' = [step EXCEPT ![b] = "aggregate"]
    /\ UNCHANGED <<docs, expired, current, tally, saved, bounds>>

\* aggregate_item, first: the document is overwritten whatever it holds.
Write(b) ==
    /\ step[b] = "aggregate"
    /\ docs' = [docs EXCEPT ![current[b]] = Marked(@, outcome[b])]
    /\ step' = [step EXCEPT ![b] = "count"]
    /\ UNCHANGED <<expired, current, outcome, tally, saved, bounds>>

\* aggregate_item, then: the item is listed and the outcome is cleared.  The
\* state keeps the last document, which nothing reads before the next fetch.
Count(b) ==
    /\ step[b] = "count"
    /\ tally' = [tally EXCEPT ![b][ListOf(outcome[b])] = @ \cup {current[b]}]
    /\ outcome' = [outcome EXCEPT ![b] = "none"]
    /\ current' = [current EXCEPT ![b] = 0]
    /\ step' = [step EXCEPT ![b] = "fetch"]
    /\ UNCHANGED <<docs, expired, saved, bounds>>

\* finalize; the entry point saves the state of the thread as it ends.
Finalize(b) ==
    /\ step[b] = "finalize"
    /\ saved' = [saved EXCEPT ![b] = tally[b]]
    /\ step' = [step EXCEPT ![b] = "off"]
    /\ UNCHANGED <<docs, expired, current, outcome, tally, bounds>>

\* The process dies, or a task fails with an error that nothing handles (the
\* database cannot be reached): nothing of the thread is saved.
Crash(b) ==
    /\ overruns + crashes < MaxFaults
    /\ step[b] # "off"
    /\ step' = [step EXCEPT ![b] = "off"]
    /\ tally' = [tally EXCEPT ![b] = saved[b]]
    /\ outcome' = [outcome EXCEPT ![b] = "none"]
    /\ current' = [current EXCEPT ![b] = 0]
    /\ crashes' = crashes + 1
    /\ UNCHANGED <<docs, expired, saved, overruns>>

\* running_stale_s pass since a claim on a material that no batch is at: it
\* died, or another batch has taken the material over and settled it.
Expire(m) ==
    /\ docs[m].status = "running"
    /\ m \notin expired
    /\ \A b \in Batches : ~ WorksOn(b, m)
    /\ expired' = expired \cup {m}
    /\ UNCHANGED <<docs, local, bounds>>

\* They pass while a slow material is still being run.
Overrun(m) ==
    /\ docs[m].status = "running"
    /\ m \in Slow \ expired
    /\ \E b \in Batches : WorksOn(b, m)
    /\ overruns + crashes < MaxFaults
    /\ overruns' = overruns + 1
    /\ expired' = expired \cup {m}
    /\ UNCHANGED <<docs, local, crashes>>

\* One turn of the entry point's loop.
Work(b) ==
    \/ \E m \in Materials : Fetch(b, m)
    \/ FetchNothing(b)
    \/ \E o \in {"none", "failed"} : Prepare(b, o)
    \/ \E o \in Outcomes : Run(b, o)
    \/ Write(b)
    \/ Count(b)
    \/ Finalize(b)

Next ==
    \/ \E b \in Batches : Start(b) \/ Work(b) \/ Crash(b)
    \/ \E m \in Materials : Expire(m) \/ Overrun(m)

Spec == Init /\ [][Next]_vars

\* A batch that runs takes its next step; nobody has to start one.
FairSpec == Spec /\ \A b \in Batches : WF_vars(Work(b))

-----------------------------------------------------------------------------
(* Properties                                                              *)

\* Type invariant: the documents and the batches' states are of the forms
\* the claim, the marks and the tasks of the entry point give them.
TypeOK ==
    /\ docs \in [Materials -> Document]
    /\ expired \subseteq Materials
    /\ step \in [Batches -> Steps]
    /\ current \in [Batches -> Materials \cup {0}]
    /\ outcome \in [Batches -> Outcomes \cup {"none"}]
    /\ tally \in [Batches -> [Lists -> SUBSET Materials]]
    /\ saved \in [Batches -> [Lists -> SUBSET Materials]]
    /\ overruns \in Nat /\ crashes \in Nat
    /\ overruns + crashes <= MaxFaults
    /\ \A b \in Batches : step[b] \in AtWork \cup {"count"} => current[b] # 0
    /\ \A b \in Batches : step[b] \in {"aggregate", "count"} => outcome[b] # "none"

\* However many batches write to a document, and in whatever order, its
\* fields are those of one outcome: a completed material has results and no
\* trace of a failure, a failed or skipped one has a reason and no results
\* (mark_completed, mark_failed and _mark_skipped each replace whatever
\* another left).
OutcomeIsWhole ==
    \A m \in Materials :
        LET doc == docs[m] IN
        /\ doc.status = "completed" =>
              doc.results /\ doc.completed_at /\ ~ doc.error /\ ~ doc.failed_at
        /\ doc.status = "failed" =>
              ~ doc.results /\ ~ doc.completed_at /\ doc.error /\ doc.failed_at
        /\ doc.status = "skipped" =>
              ~ doc.results /\ doc.completed_at /\ doc.error /\ ~ doc.failed_at

\* As long as no process dies, a material that is marked running is being
\* run by the batch whose tag it carries, even when the claim was taken over
\* from a slower batch: no outcome, of a run that waits either, leaves a
\* material running that nobody runs.
RunningIsRun ==
    crashes = 0 =>
        \A m \in Materials :
            docs[m].status = "running" /\ docs[m].tag # Earlier =>
                WorksOn(docs[m].tag, m)

\* A batch's account of the materials it finished agrees with the
\* collection, for the materials whose runs end before their claims do: what
\* it lists is so, and as long as no process dies nothing it finished is
\* missing from its list, across restarts of the batch.
TallyIsTrue ==
    \A b \in Batches, m \in Materials \ Slow, l \in {"completed", "skipped"} :
        /\ m \in tally[b][l] => docs[m].status = l
        /\ crashes = 0 /\ step[b] # "count" /\ docs[m].tag = b
             /\ docs[m].status = l
           => m \in tally[b][l]

\* No batch.
Nobody == 0

\* The materials' holders and verdicts, as the abstract queue has them.
HolderOf(m) ==
    IF \E b \in Batches : WorksOn(b, m)
    THEN CHOOSE b \in Batches : WorksOn(b, m)
    ELSE Nobody

VerdictOf(m) ==
    IF docs[m].status \in {"pending", "running"} THEN "open" ELSE docs[m].status

Queue ==
    INSTANCE MaterialQueue WITH
        Items   <- Materials \ Slow,
        Holders <- Batches,
        holder  <- [m \in Materials \ Slow |-> HolderOf(m)],
        verdict <- [m \in Materials \ Slow |-> VerdictOf(m)]

\* The collection and its batches keep the promise of MaterialQueue for the
\* materials whose runs end before their claims do: one batch at a time works
\* on a material, only that batch writes its outcome, and a completed or
\* skipped one is never claimed again, whatever dies or is restarted.
KeepsTheQueue == Queue!Spec

\* A batch that runs gets to every material that nobody has tried
\* (mongo_batch.py:161: the guard on retried failures is there so that the first
\* failing material cannot "starve the rest of the collection").
EverythingIsTried ==
    \A b \in Batches, m \in Materials :
        step[b] # "off" /\ docs[m].status = "pending" ~>
            step[b] = "off" \/ docs[m].status # "pending"
=============================================================================
