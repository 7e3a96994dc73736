---------------------------- MODULE Checkpoints ----------------------------
(***************************************************************************)
(* Where a material's run is kept (runtime/checkpointing.py and the start  *)
(* of AgenticMaterialController.drive): a snapshot and a view of it in the *)
(* working directory, the names of its thread, and the durable checkpoint  *)
(* of that thread in a database, or in the process's memory.  Each persist *)
(* writes them one after the other; a start reads them again.              *)
(*                                                                         *)
(* A state is the run it belongs to, numbered as they begin, and a version,*)
(* one more with each persist that follows a change.  No caller names a    *)
(* thread for a start, and one process at a time drives a material.        *)
(***************************************************************************)
EXTENDS Naturals, FiniteSets

CONSTANTS
    MaxRuns,        \* bound: runs begun
    MaxVersions,    \* bound: versions of one run
    MaxThreads,     \* bound: thread ids
    MaxFaults       \* bound: process deaths and database failures

ASSUME BoundsAssumption ==
    {MaxRuns, MaxThreads, MaxFaults} \subseteq Nat /\ MaxVersions \in Nat \ {0}

NoThread == 0
ThreadIds == 1 .. MaxThreads
Threads == ThreadIds \cup {NoThread}

VARIABLES
    backend,    \* the kind of database_uri: "postgres" or "memory"
    snapshot,   \* shared_state.json
    view,       \* ui_state.json
    names,      \* the thread in thread_id.txt and langgraph_checkpoint.json
    durable,    \* durable[t]: the newest checkpoint of thread t
    proc,       \* the process: where it is, how started, its thread and state
    begun,      \* runs begun so far
    refused,    \* the last start raised CheckpointRestoreError
    cut,        \* history: a fault came between a run's first snapshot and checkpoint
    newest,     \* history: the newest run with a checkpoint
    faults      \* bound counter

vars == <<backend, snapshot, view, names, durable, proc, begun, refused, cut, newest, faults>>

States == [run : 0 .. MaxRuns, version : 0 .. MaxVersions]
NoState == [run |-> 0, version |-> 0]

Saved(t, s) == [thread |-> t, state |-> s]
NoFile == Saved(NoThread, NoState)

Down == [at |-> "down", fresh |-> FALSE, thread |-> NoThread, saved |-> NoFile, state |-> NoState]

TypeOK ==
    /\ backend \in {"postgres", "memory"}
    /\ snapshot \in [thread : Threads, state : States]
    /\ view \in [thread : Threads, state : States]
    /\ names \in Threads
    /\ durable \in [ThreadIds -> States]
    /\ proc \in [at : {"down", "idle", "forget", "wipe", "clear", "check", "load", "name",
                       "snapshot", "view", "sync", "running"},
                 fresh : BOOLEAN, thread : Threads,
                 saved : [thread : Threads, state : States], state : States]
    /\ proc.at \in {"down", "idle"} <=> proc.thread = NoThread
    /\ begun \in 0 .. MaxRuns
    /\ refused \in BOOLEAN /\ cut \in BOOLEAN
    /\ newest \in 0 .. begun
    /\ faults \in 0 .. MaxFaults

Init ==
    /\ backend \in {"postgres", "memory"}
    /\ snapshot = NoFile /\ view = NoFile /\ names = NoThread
    /\ durable = [t \in ThreadIds |-> NoState]
    /\ proc = Down
    /\ begun = 0 /\ newest = 0 /\ faults = 0
    /\ refused = FALSE /\ cut = FALSE

-----------------------------------------------------------------------------
(* Starting.                                                               *)

\* Thread ids carry a random part: a new one is one that nobody has used.
Unused == ThreadIds \ ({snapshot.thread, view.thread, names} \cup {t \in ThreadIds : durable[t] # NoState})
NewThread == CHOOSE t \in Unused : TRUE

\* Mutant: the thread of the state saved earlier is not taken up.
AlwaysNew(saved) == NewThread

\* Mutant: the thread of the state saved earlier, saved or not.
OnlySaved(saved) == saved.thread

ResolvedThread(saved) == IF saved = NoFile THEN NewThread ELSE saved.thread

\* A fresh start does not read the snapshot, so that it makes a new thread.
Start(fresh) ==
    LET saved == IF fresh THEN NoFile ELSE snapshot
    IN  /\ proc.at \in {"down", "idle"} /\ begun < MaxRuns /\ Unused # {}
        /\ proc' = [at |-> IF fresh THEN "forget" ELSE "check", fresh |-> fresh,
                    thread |-> ResolvedThread(saved), saved |-> saved, state |-> NoState]
        /\ refused' = FALSE
        /\ UNCHANGED <<backend, snapshot, view, names, durable, begun, cut, newest, faults>>

At(place) == proc.at = place
GoTo(place) == proc' = [proc EXCEPT !.at = place]

\* remove_checkpoints: the checkpoint of the new thread, of which there is
\* none; the one of the earlier run stays in the database.
ForgetThread ==
    /\ At("forget") /\ GoTo("wipe")
    /\ durable' = [durable EXCEPT ![proc.thread] = NoState]
    /\ UNCHANGED <<backend, snapshot, view, names, begun, refused, cut, newest, faults>>

\* Then its files, the snapshot before the others.
WipeSnapshot ==
    /\ At("wipe") /\ GoTo("clear")
    /\ snapshot' = NoFile
    /\ UNCHANGED <<backend, view, names, durable, begun, refused, cut, newest, faults>>

WipeRest ==
    /\ At("clear") /\ GoTo("load")
    /\ view' = NoFile /\ names' = NoThread
    /\ UNCHANGED <<backend, snapshot, durable, begun, refused, cut, newest, faults>>

\* Mutant: the snapshot serves where there is no checkpoint.
CheckNothing ==
    /\ At("check") /\ GoTo("load")
    /\ UNCHANGED <<backend, snapshot, view, names, durable, begun, refused, cut, newest, faults>>

\* A snapshot whose thread has no checkpoint is not resumed from, nor replaced.
Check ==
    /\ At("check")
    /\ IF proc.saved # NoFile /\ durable[proc.thread] = NoState
       THEN proc' = [Down EXCEPT !.at = "idle"] /\ refused' = TRUE
       ELSE GoTo("load") /\ UNCHANGED refused
    /\ UNCHANGED <<backend, snapshot, view, names, durable, begun, cut, newest, faults>>

\* The durable state goes before the snapshot's.
Loaded ==
    IF proc.fresh \/ durable[proc.thread] = NoState THEN proc.saved.state ELSE durable[proc.thread]

Load ==
    /\ At("load")
    /\ IF Loaded # NoState
       THEN proc' = [proc EXCEPT !.at = "name", !.state = Loaded] /\ UNCHANGED begun
       ELSE /\ begun' = begun + 1
            /\ proc' = [proc EXCEPT !.at = "name", !.state = [run |-> begun + 1, version |-> 1]]
    /\ UNCHANGED <<backend, snapshot, view, names, durable, refused, cut, newest, faults>>

\* thread_id.txt and the metadata; then the state as loaded is persisted.
SaveNames ==
    /\ At("name") /\ GoTo("snapshot")
    /\ names' = proc.thread
    /\ UNCHANGED <<backend, snapshot, view, durable, begun, refused, cut, newest, faults>>

-----------------------------------------------------------------------------
(* _persist_state, and the run between persists.                           *)

SaveSnapshot ==
    /\ At("snapshot") /\ GoTo("view")
    /\ snapshot' = Saved(proc.thread, proc.state)
    /\ UNCHANGED <<backend, view, names, durable, begun, refused, cut, newest, faults>>

SaveView ==
    /\ At("view") /\ GoTo("sync")
    /\ view' = Saved(proc.thread, proc.state)
    /\ UNCHANGED <<backend, snapshot, names, durable, begun, refused, cut, newest, faults>>

\* Mutant: only the state a start loads is synchronised.
SyncFirst ==
    /\ At("sync") /\ GoTo("running")
    /\ durable' = [durable EXCEPT ![proc.thread] = IF @ = NoState THEN proc.state ELSE @]
    /\ newest' = proc.state.run
    /\ UNCHANGED <<backend, snapshot, view, names, begun, refused, cut, faults>>

SaveDurable ==
    /\ At("sync") /\ GoTo("running")
    /\ durable' = [durable EXCEPT ![proc.thread] = proc.state]
    /\ newest' = proc.state.run
    /\ UNCHANGED <<backend, snapshot, view, names, begun, refused, cut, faults>>

\* The loop changes the state and persists it.
Change ==
    /\ At("running") /\ proc.state.version < MaxVersions
    /\ proc' = [proc EXCEPT !.at = "snapshot", !.state.version = @ + 1]
    /\ UNCHANGED <<backend, snapshot, view, names, durable, begun, refused, cut, newest, faults>>

\* The run returns; its process may start the material again.
Return ==
    /\ At("running")
    /\ proc' = [Down EXCEPT !.at = "idle"]
    /\ UNCHANGED <<backend, snapshot, view, names, durable, begun, refused, cut, newest, faults>>

-----------------------------------------------------------------------------
(* Faults.                                                                 *)

CutNow == At("view") \/ At("sync")
FirstPersist == proc.thread # NoThread /\ durable[proc.thread] = NoState

\* The database refuses the checkpoint: the exception ends the run.
SyncFails ==
    /\ At("sync") /\ faults < MaxFaults
    /\ proc' = [Down EXCEPT !.at = "idle"]
    /\ cut' = (cut \/ FirstPersist)
    /\ faults' = faults + 1
    /\ UNCHANGED <<backend, snapshot, view, names, durable, begun, refused, newest>>

\* The checkpoints in memory go with the process.
MemoryLost ==
    durable' = IF backend = "memory" THEN [t \in ThreadIds |-> NoState] ELSE durable

Die ==
    /\ proc.at \notin {"down", "idle"} /\ faults < MaxFaults
    /\ proc' = Down
    /\ cut' = (cut \/ (CutNow /\ FirstPersist))
    /\ faults' = faults + 1
    /\ MemoryLost
    /\ UNCHANGED <<backend, snapshot, view, names, begun, refused, newest>>

Exit ==
    /\ At("idle")
    /\ proc' = Down
    /\ MemoryLost
    /\ UNCHANGED <<backend, snapshot, view, names, begun, refused, cut, newest, faults>>

Starting == (\E fresh \in BOOLEAN : Start(fresh)) \/ ForgetThread \/ WipeSnapshot \/ WipeRest
                \/ Check \/ Load \/ SaveNames
Persisting == SaveSnapshot \/ SaveView \/ SaveDurable
Next == Starting \/ Persisting \/ Change \/ Return \/ SyncFails \/ Die \/ Exit

Spec == Init /\ [][Next]_vars

-----------------------------------------------------------------------------
(* Properties                                                              *)

\* What a restart would continue: the checkpoint of the snapshot's thread.
Kept == IF snapshot = NoFile THEN NoState ELSE durable[snapshot.thread]

Store == INSTANCE RunStore WITH kept <- Kept, last <- newest

\* Restarts see a store that keeps one run, advances it by whole persists and
\* never falls back to a run given up for a newer one, whatever dies when.
IsRunStore == Store!Spec

\* The three writes of a persist are never further apart than that persist: of
\* one run, neither the snapshot nor the view is more than a version ahead of
\* the checkpoint a restart would load, and neither is behind it, even where a
\* restart has gone back to the checkpoint and writes the files again.
TrailsByOne ==
    LET Ahead(s) == s.run = Kept.run => s.version - Kept.version \in {0, 1}
    IN  snapshot # NoFile /\ backend = "postgres" => Ahead(snapshot.state) /\ Ahead(view.state)

\* With a database, a start is refused only where a fault came between the first
\* snapshot of a run and its first checkpoint.
RefusedOnlyCut == refused /\ backend = "postgres" => cut
=============================================================================
