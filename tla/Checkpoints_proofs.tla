------------------------- MODULE Checkpoints_proofs -------------------------
(***************************************************************************)
(* Proofs about Checkpoints, for any number of runs, versions, threads and *)
(* faults: the three stores that one persist writes keep the promise of    *)
(* RunStore, are never more than a persist apart, and with a database a    *)
(* start is refused only after a fault in a first persist.                 *)
(***************************************************************************)
EXTENDS Checkpoints, TLAPS

-----------------------------------------------------------------------------
(* The invariant                                                           *)

Discarding == {"forget", "wipe", "clear"}
Before == Discarding \cup {"check", "load"}
Saving == {"name", "snapshot", "view", "sync"}

\* A start that goes on has a run left to begin and a thread.
StartOK ==
    /\ proc.at \in Before => begun < MaxRuns
    /\ proc.at \in {"down", "idle"} <=> proc.thread = NoThread

\* A fresh start has a thread without a checkpoint, and removes the snapshot
\* before it loads.
FreshOK ==
    /\ proc.at \in Discarding => proc.fresh /\ proc.saved = NoFile /\ durable[proc.thread] = NoState
    /\ proc.at = "clear" => snapshot = NoFile

\* A start that resumes works on the thread of the snapshot it read; without a
\* snapshot that thread has no checkpoint, and once checked with one it has.
ResumeOK ==
    proc.at \in {"check", "load"} =>
        /\ proc.saved = snapshot
        /\ snapshot = NoFile => durable[proc.thread] = NoState
        /\ snapshot # NoFile => proc.thread = snapshot.thread /\ ~ proc.fresh
        /\ proc.at = "load" /\ snapshot # NoFile => durable[proc.thread] # NoState

\* What is being persisted is the next version of the checkpoint's run, or that
\* version again, or the first version of a run begun since.
SavingOK ==
    proc.at \in Saving =>
        /\ proc.state.run \in 1 .. begun
        /\ durable[proc.thread] = NoState =>
               proc.state.version = 1 /\ proc.state.run > newest
        /\ durable[proc.thread] # NoState =>
               /\ proc.state.run = durable[proc.thread].run
               /\ proc.state.version - durable[proc.thread].version \in {0, 1}

\* The writes come one after the other, on the snapshot's thread.
WrittenOK ==
    /\ proc.at \in {"name", "snapshot"} =>
           /\ snapshot = NoFile => durable[proc.thread] = NoState
           /\ snapshot # NoFile => snapshot.thread = proc.thread
    /\ proc.at \in {"view", "sync", "running"} => snapshot = Saved(proc.thread, proc.state)
    /\ proc.at \in {"sync", "running"} => view = snapshot
    /\ proc.at = "running" => durable[proc.thread] = proc.state /\ proc.state.run >= 1

\* Files name a thread when they hold a state; what a restart would continue is
\* the newest run.
FilesOK ==
    /\ snapshot # NoFile => snapshot.thread # NoThread /\ snapshot.state.run >= 1
    /\ view.state.run = 0 => view.state.version = 0
    /\ Kept # NoState => Kept.run = newest /\ newest >= 1

StoreInv == StartOK /\ FreshOK /\ ResumeOK /\ SavingOK /\ WrittenOK /\ FilesOK

\* With a database, a snapshot without a checkpoint has seen a fault, or is
\* about to get its checkpoint.
CutInv ==
    /\ RefusedOnlyCut
    /\ backend = "postgres" /\ snapshot # NoFile /\ durable[snapshot.thread] = NoState =>
           cut \/ CutNow

-----------------------------------------------------------------------------
(* Type correctness                                                        *)

\* The bounds are numbers, and what stands for no state has the type of one.
LEMMA Constants ==
    /\ MaxRuns \in Nat /\ MaxFaults \in Nat /\ MaxThreads \in Nat
    /\ MaxVersions \in Nat /\ MaxVersions >= 1
    /\ NoState \in States /\ NoFile \in [thread : Threads, state : States]
    /\ ThreadIds \subseteq Nat /\ NoThread \notin ThreadIds /\ Threads = ThreadIds \cup {NoThread}
BY BoundsAssumption DEF NoState, States, NoFile, Saved, Threads, ThreadIds, NoThread

Places == {"down", "idle", "forget", "wipe", "clear", "check", "load", "name",
           "snapshot", "view", "sync", "running"}

\* What moving the process does to it.
LEMMA Moved ==
    ASSUME TypeOK, NEW p \in Places, GoTo(p)
    PROVE  /\ proc'.at = p /\ proc'.fresh = proc.fresh /\ proc'.thread = proc.thread
           /\ proc'.saved = proc.saved /\ proc'.state = proc.state
           /\ proc' \in [at : Places, fresh : BOOLEAN, thread : Threads,
                         saved : [thread : Threads, state : States], state : States]
BY DEF TypeOK, GoTo, Places

-----------------------------------------------------------------------------
(* What the steps of the process do                                        *)

\* A new thread is nobody's yet.
LEMMA NewThreadIsUnused ==
    ASSUME Unused # {}
    PROVE  NewThread \in ThreadIds /\ durable[NewThread] = NoState /\ NewThread # snapshot.thread
BY DEF Unused, NewThread

\* A process at rest, and one that starts.
ProcessOf(p) ==
    p \in [at : Places, fresh : BOOLEAN, thread : Threads,
           saved : [thread : Threads, state : States], state : States]

LEMMA Rested ==
    LET idle == [Down EXCEPT !.at = "idle"]
    IN  /\ ProcessOf(idle) /\ idle.at = "idle" /\ idle.thread = NoThread
        /\ ProcessOf(Down) /\ Down.at = "down" /\ Down.thread = NoThread
BY Constants DEF ProcessOf, Down, Places

\* A start has a thread: the snapshot's, or one without a checkpoint.
LEMMA Started ==
    ASSUME TypeOK, FilesOK, NEW fresh \in BOOLEAN, Start(fresh)
    PROVE  /\ ProcessOf(proc') /\ proc'.thread \in ThreadIds
           /\ proc'.at = IF fresh THEN "forget" ELSE "check"
           /\ proc'.fresh = fresh
           /\ proc'.saved = IF fresh THEN NoFile ELSE snapshot
           /\ proc'.saved = NoFile => durable[proc'.thread] = NoState
           /\ proc'.saved # NoFile => proc'.thread = snapshot.thread
<1> DEFINE saved == IF fresh THEN NoFile ELSE snapshot
<1> USE Constants
<1>1. saved \in [thread : Threads, state : States]
  BY DEF TypeOK
<1>2. ResolvedThread(saved) \in ThreadIds
  BY <1>1, NewThreadIsUnused DEF Start, ResolvedThread, FilesOK
<1>3. saved = NoFile => durable[ResolvedThread(saved)] = NoState
  BY NewThreadIsUnused DEF Start, ResolvedThread
<1>4. saved # NoFile => ResolvedThread(saved) = snapshot.thread
  BY DEF ResolvedThread
<1> QED
  BY <1>1, <1>2, <1>3, <1>4 DEF Start, ProcessOf, Places

\* A start loads the checkpoint of its thread, or begins a run where there is
\* none.
LEMMA LoadsTheCheckpoint ==
    ASSUME TypeOK, StoreInv, Load
    PROVE  /\ ProcessOf(proc') /\ proc'.at = "name"
           /\ proc'.thread = proc.thread /\ proc'.fresh = proc.fresh /\ proc'.saved = proc.saved
           /\ durable[proc.thread] # NoState =>
                  proc'.state = durable[proc.thread] /\ begun' = begun
           /\ durable[proc.thread] = NoState =>
                  proc'.state = [run |-> begun + 1, version |-> 1] /\ begun' = begun + 1
<1> USE Constants
<1>1. proc.thread \in ThreadIds /\ durable[proc.thread] \in States
  BY DEF StoreInv, StartOK, Load, At, TypeOK
<1>2. CASE durable[proc.thread] # NoState
  <2>1. Loaded = durable[proc.thread]
    BY <1>2 DEF StoreInv, ResumeOK, Load, At, Loaded
  <2>2. proc' = [proc EXCEPT !.at = "name", !.state = durable[proc.thread]] /\ begun' = begun
    BY <1>2, <2>1 DEF Load
  <2> QED
    BY <1>1, <1>2, <2>2 DEF TypeOK, ProcessOf, Places
<1>3. CASE durable[proc.thread] = NoState
  <2>1. Loaded = NoState
    BY <1>3 DEF StoreInv, ResumeOK, Load, At, Loaded, NoFile, Saved
  <2>2. proc' = [proc EXCEPT !.at = "name", !.state = [run |-> begun + 1, version |-> 1]] /\ begun' = begun + 1
    BY <2>1 DEF Load
  <2>3. [run |-> begun + 1, version |-> 1] \in States
    BY DEF StoreInv, StartOK, Load, At, Before, States, TypeOK
  <2> QED
    BY <1>3, <2>2, <2>3 DEF TypeOK, ProcessOf, Places
<1> QED
  BY <1>2, <1>3

\* A change is of the version and nothing else.
LEMMA ChangesTheVersion ==
    ASSUME TypeOK, Change
    PROVE  /\ ProcessOf(proc') /\ proc'.at = "snapshot"
           /\ proc'.thread = proc.thread /\ proc'.fresh = proc.fresh /\ proc'.saved = proc.saved
           /\ proc'.state.run = proc.state.run /\ proc'.state.version = proc.state.version + 1
<1> USE Constants
<1>1. [proc.state EXCEPT !.version = @ + 1] \in States
  BY DEF Change, TypeOK, States
<1>2. proc' = [proc EXCEPT !.at = "snapshot", !.state = [proc.state EXCEPT !.version = @ + 1]]
  BY DEF Change, TypeOK
<1> QED
  BY <1>1, <1>2 DEF TypeOK, ProcessOf, Places, States

-----------------------------------------------------------------------------
(* The invariant is kept                                                   *)

\* The types and the invariant are inductive together: Load keeps a run within
\* its bound because StartOK, and Start finds a typed snapshot.
LEMMA StoreStep == TypeOK /\ StoreInv /\ [Next]_vars => (TypeOK /\ StoreInv)'
<1> SUFFICES ASSUME TypeOK, StoreInv, [Next]_vars PROVE (TypeOK /\ StoreInv)'
  OBVIOUS
<1> USE Constants DEF TypeOK, ProcessOf, Places, StoreInv, StartOK, Before, Discarding, Saving, States, Saved, NoState, NoFile, FreshOK, ResumeOK, SavingOK, WrittenOK, FilesOK, Kept
<1>1. ASSUME NEW fresh \in BOOLEAN, Start(fresh) PROVE (TypeOK /\ StoreInv)'
  BY <1>1, Started DEF Start
<1>2. CASE ForgetThread
  <2>1. GoTo("wipe")
    BY <1>2 DEF ForgetThread
  <2> QED
    BY <1>2, <2>1, Moved DEF ForgetThread, At
<1>3. CASE WipeSnapshot
  <2>1. GoTo("clear")
    BY <1>3 DEF WipeSnapshot
  <2> QED
    BY <1>3, <2>1, Moved DEF WipeSnapshot, At
<1>4. CASE WipeRest
  <2>1. GoTo("load")
    BY <1>4 DEF WipeRest
  <2> QED
    BY <1>4, <2>1, Moved DEF WipeRest, At
<1>5. CASE Check
  BY <1>5, Rested, Moved DEF Check, At
<1>6. CASE Load
  BY <1>6, LoadsTheCheckpoint DEF Load, At
<1>7. CASE SaveNames
  <2>1. GoTo("snapshot")
    BY <1>7 DEF SaveNames
  <2> QED
    BY <1>7, <2>1, Moved DEF SaveNames, At
<1>8. CASE SaveSnapshot
  <2>1. GoTo("view")
    BY <1>8 DEF SaveSnapshot
  <2> QED
    BY <1>8, <2>1, Moved DEF SaveSnapshot, At
<1>9. CASE SaveView
  <2>1. GoTo("sync")
    BY <1>9 DEF SaveView
  <2> QED
    BY <1>9, <2>1, Moved DEF SaveView, At
<1>10. CASE SaveDurable
  <2>1. GoTo("running")
    BY <1>10 DEF SaveDurable
  <2> QED
    BY <1>10, <2>1, Moved DEF SaveDurable, At
<1>11. CASE Change
  BY <1>11, ChangesTheVersion DEF Change, At
<1>12. CASE Return
  BY <1>12, Rested DEF Return, At
<1>13. CASE SyncFails
  BY <1>13, Rested DEF SyncFails, At
<1>14. CASE Die
  BY <1>14, Rested DEF Die, At, MemoryLost
<1>15. CASE Exit
  BY <1>15, Rested DEF Exit, At, MemoryLost
<1>16. CASE UNCHANGED vars
  BY <1>16 DEF vars
<1> QED
  BY <1>1, <1>2, <1>3, <1>4, <1>5, <1>6, <1>7, <1>8, <1>9, <1>10, <1>11, <1>12, <1>13, <1>14, <1>15, <1>16 DEF Next, Starting, Persisting

\* A first persist that is cut short is recorded as such by what cuts it.
LEMMA CutStep == TypeOK /\ StoreInv /\ CutInv /\ [Next]_vars => CutInv'
<1> SUFFICES ASSUME TypeOK, StoreInv, CutInv, [Next]_vars PROVE CutInv'
  OBVIOUS
<1> USE Constants DEF TypeOK, ProcessOf, Places, StoreInv, StartOK, Before, Discarding, Saving, States, Saved, NoState, NoFile, FreshOK, ResumeOK, SavingOK, WrittenOK, FilesOK, Kept, CutInv, RefusedOnlyCut, CutNow, FirstPersist, At
<1>1. ASSUME NEW fresh \in BOOLEAN, Start(fresh) PROVE CutInv'
  BY <1>1, Started DEF Start
<1>2. CASE ForgetThread
  <2>1. GoTo("wipe")
    BY <1>2 DEF ForgetThread
  <2> QED
    BY <1>2, <2>1, Moved DEF ForgetThread, At
<1>3. CASE WipeSnapshot
  <2>1. GoTo("clear")
    BY <1>3 DEF WipeSnapshot
  <2> QED
    BY <1>3, <2>1, Moved DEF WipeSnapshot, At
<1>4. CASE WipeRest
  <2>1. GoTo("load")
    BY <1>4 DEF WipeRest
  <2> QED
    BY <1>4, <2>1, Moved DEF WipeRest, At
<1>5. CASE Check
  BY <1>5, Rested, Moved DEF Check, At
<1>6. CASE Load
  BY <1>6, LoadsTheCheckpoint DEF Load, At
<1>7. CASE SaveNames
  <2>1. GoTo("snapshot")
    BY <1>7 DEF SaveNames
  <2> QED
    BY <1>7, <2>1, Moved DEF SaveNames, At
<1>8. CASE SaveSnapshot
  <2>1. GoTo("view")
    BY <1>8 DEF SaveSnapshot
  <2> QED
    BY <1>8, <2>1, Moved DEF SaveSnapshot, At
<1>9. CASE SaveView
  <2>1. GoTo("sync")
    BY <1>9 DEF SaveView
  <2> QED
    BY <1>9, <2>1, Moved DEF SaveView, At
<1>10. CASE SaveDurable
  <2>1. GoTo("running")
    BY <1>10 DEF SaveDurable
  <2> QED
    BY <1>10, <2>1, Moved DEF SaveDurable, At
<1>11. CASE Change
  BY <1>11, ChangesTheVersion DEF Change, At
<1>12. CASE Return
  BY <1>12, Rested DEF Return, At
<1>13. CASE SyncFails
  <2>1. proc'.at \in {"down", "idle"} /\ refused' = refused /\ backend' = backend /\ snapshot' = snapshot
    BY <1>13, Rested DEF SyncFails
  <2>2. backend = "postgres" => durable' = durable
    BY <1>13 DEF SyncFails
  <2>3. CutNow /\ durable[snapshot.thread] = NoState => FirstPersist
    OBVIOUS
  <2>4. cut' = (cut \/ (FirstPersist))
    BY <1>13 DEF SyncFails
  <2>5. CutNow
    BY <1>13 DEF SyncFails
  <2>6. cut \/ (CutNow /\ durable[snapshot.thread] = NoState) => cut'
    BY <2>3, <2>4 DEF TypeOK
  <2> QED
    BY <2>1, <2>2, <2>6
<1>14. CASE Die
  <2>1. proc'.at \in {"down", "idle"} /\ refused' = refused /\ backend' = backend /\ snapshot' = snapshot
    BY <1>14, Rested DEF Die
  <2>2. backend = "postgres" => durable' = durable
    BY <1>14 DEF Die, MemoryLost
  <2>3. CutNow /\ durable[snapshot.thread] = NoState => FirstPersist
    OBVIOUS
  <2>4. cut' = (cut \/ (CutNow /\ FirstPersist))
    BY <1>14 DEF Die
  <2>6. cut \/ (CutNow /\ durable[snapshot.thread] = NoState) => cut'
    BY <2>3, <2>4 DEF TypeOK
  <2> QED
    BY <2>1, <2>2, <2>6
<1>15. CASE Exit
  BY <1>15, Rested DEF Exit, At, MemoryLost
<1>16. CASE UNCHANGED vars
  BY <1>16 DEF vars
<1> QED
  BY <1>1, <1>2, <1>3, <1>4, <1>5, <1>6, <1>7, <1>8, <1>9, <1>10, <1>11, <1>12, <1>13, <1>14, <1>15, <1>16 DEF Next, Starting, Persisting

\* A change is made only to the state all three stores hold.
LEMMA TrailsStep == TypeOK /\ StoreInv /\ TrailsByOne /\ [Next]_vars => TrailsByOne'
<1> SUFFICES ASSUME TypeOK, StoreInv, TrailsByOne, [Next]_vars PROVE TrailsByOne'
  OBVIOUS
<1> USE Constants DEF TypeOK, ProcessOf, Places, StoreInv, StartOK, Before, Discarding, Saving, States, Saved, NoState, NoFile, FreshOK, ResumeOK, SavingOK, WrittenOK, FilesOK, Kept, TrailsByOne
<1>1. ASSUME NEW fresh \in BOOLEAN, Start(fresh) PROVE TrailsByOne'
  BY <1>1, Started DEF Start
<1>2. CASE ForgetThread
  <2>1. GoTo("wipe")
    BY <1>2 DEF ForgetThread
  <2> QED
    BY <1>2, <2>1, Moved DEF ForgetThread, At
<1>3. CASE WipeSnapshot
  <2>1. GoTo("clear")
    BY <1>3 DEF WipeSnapshot
  <2> QED
    BY <1>3, <2>1, Moved DEF WipeSnapshot, At
<1>4. CASE WipeRest
  <2>1. GoTo("load")
    BY <1>4 DEF WipeRest
  <2> QED
    BY <1>4, <2>1, Moved DEF WipeRest, At
<1>5. CASE Check
  BY <1>5, Rested, Moved DEF Check, At
<1>6. CASE Load
  BY <1>6, LoadsTheCheckpoint DEF Load, At
<1>7. CASE SaveNames
  <2>1. GoTo("snapshot")
    BY <1>7 DEF SaveNames
  <2> QED
    BY <1>7, <2>1, Moved DEF SaveNames, At
<1>8. CASE SaveSnapshot
  <2>1. GoTo("view")
    BY <1>8 DEF SaveSnapshot
  <2> QED
    BY <1>8, <2>1, Moved DEF SaveSnapshot, At
<1>9. CASE SaveView
  <2>1. GoTo("sync")
    BY <1>9 DEF SaveView
  <2> QED
    BY <1>9, <2>1, Moved DEF SaveView, At
<1>10. CASE SaveDurable
  <2>1. GoTo("running")
    BY <1>10 DEF SaveDurable
  <2> QED
    BY <1>10, <2>1, Moved DEF SaveDurable, At
<1>11. CASE Change
  BY <1>11, ChangesTheVersion DEF Change, At
<1>12. CASE Return
  BY <1>12, Rested DEF Return, At
<1>13. CASE SyncFails
  BY <1>13, Rested DEF SyncFails, At
<1>14. CASE Die
  BY <1>14, Rested DEF Die, At, MemoryLost
<1>15. CASE Exit
  BY <1>15, Rested DEF Exit, At, MemoryLost
<1>16. CASE UNCHANGED vars
  BY <1>16 DEF vars
<1> QED
  BY <1>1, <1>2, <1>3, <1>4, <1>5, <1>6, <1>7, <1>8, <1>9, <1>10, <1>11, <1>12, <1>13, <1>14, <1>15, <1>16 DEF Next, Starting, Persisting

LEMMA StoreInit == Init => TypeOK /\ StoreInv /\ CutInv /\ TrailsByOne
<1> SUFFICES ASSUME Init PROVE TypeOK /\ StoreInv /\ CutInv /\ TrailsByOne
  OBVIOUS
<1> USE Constants DEF Init
<1>1. /\ ProcessOf(proc) /\ proc.at = "down" /\ proc.thread = NoThread
      /\ snapshot = NoFile /\ view = NoFile /\ Kept = NoState
  BY Rested DEF Kept
<1>2. TypeOK
  <2>1. backend \in {"postgres", "memory"} /\ durable \in [ThreadIds -> States] /\ names \in Threads
    OBVIOUS
  <2>2. begun \in 0 .. MaxRuns /\ newest \in 0 .. begun /\ faults \in 0 .. MaxFaults
    OBVIOUS
  <2> QED
    BY <1>1, <2>1, <2>2 DEF TypeOK, ProcessOf, Places
<1>3. StoreInv
  BY <1>1 DEF StoreInv, StartOK, FreshOK, ResumeOK, SavingOK, WrittenOK, FilesOK,
              Before, Discarding, Saving, NoFile, Saved, NoState
<1>4. CutInv /\ TrailsByOne
  BY <1>1 DEF CutInv, RefusedOnlyCut, TrailsByOne
<1> QED
  BY <1>2, <1>3, <1>4

LEMMA StoreInvAlways == Spec => []TypeOK /\ []StoreInv
<1>1. TypeOK /\ StoreInv /\ [Next]_vars => TypeOK' /\ StoreInv'
  BY StoreStep
<1> QED
  BY <1>1, StoreInit, PTL DEF Spec

-----------------------------------------------------------------------------
(* The theorems                                                            *)

\* The stores and the process keep their types: in particular a run and its
\* versions are numbered within their bounds, wherever the process dies.
THEOREM TypeCorrect == Spec => []TypeOK
BY StoreInvAlways, PTL

\* With a database, a start raises CheckpointRestoreError only where a fault came
\* between the first snapshot of a run and its first checkpoint.
THEOREM RefusalsAreCut == Spec => []RefusedOnlyCut
<1>1. TypeOK /\ StoreInv /\ CutInv /\ [Next]_vars => CutInv'
  BY CutStep
<1>2. CutInv => RefusedOnlyCut
  BY DEF CutInv
<1> QED
  BY <1>1, <1>2, StoreInit, StoreInvAlways, PTL DEF Spec

\* With a database, the snapshot and the view that a persist writes before the
\* checkpoint are never more than that persist ahead of it, and never behind.
THEOREM FilesTrailByOne == Spec => []TrailsByOne
<1>1. TypeOK /\ StoreInv /\ TrailsByOne /\ [Next]_vars => TrailsByOne'
  BY TrailsStep
<1> QED
  BY <1>1, StoreInit, StoreInvAlways, PTL DEF Spec

-----------------------------------------------------------------------------
(* The refinement                                                          *)

Step == Store!Next \/ (Kept' = Kept /\ newest' = newest)

\* The write of the snapshot does not change what a restart would continue: the
\* run it begins has no checkpoint yet.
LEMMA SnapshotKeepsTheRun ==
    ASSUME TypeOK, StoreInv, SaveSnapshot
    PROVE  Kept' = Kept
<1>1. snapshot' = Saved(proc.thread, proc.state) /\ durable' = durable /\ snapshot' # NoFile
  BY Constants DEF SaveSnapshot, At, StoreInv, SavingOK, Saving, Saved, NoFile, NoState
<1>2. Kept' = durable[proc.thread]
  BY <1>1 DEF Kept, Saved
<1> QED
  BY <1>2 DEF SaveSnapshot, At, StoreInv, WrittenOK, Kept

\* The write of the checkpoint begins the run, advances it, or writes it again.
LEMMA CheckpointIsAStep ==
    ASSUME TypeOK, StoreInv, SaveDurable
    PROVE  Step
<1> USE Constants
<1>1. /\ proc.thread \in ThreadIds /\ snapshot = Saved(proc.thread, proc.state)
      /\ proc.state.run \in 1 .. begun /\ newest \in Nat /\ snapshot # NoFile
  BY DEF SaveDurable, At, TypeOK, StoreInv, StartOK, WrittenOK, SavingOK, Saving, Saved, NoFile, NoState
<1>2. Kept = durable[proc.thread] /\ Kept' = proc.state /\ newest' = proc.state.run
  BY <1>1 DEF SaveDurable, Kept, Saved, TypeOK
<1>3. proc.state \in States /\ Kept \in States
  BY <1>1, <1>2 DEF TypeOK
<1>4. CASE Kept = NoState
  <2>1. proc.state.version = 1 /\ proc.state.run > newest
    BY <1>2, <1>4 DEF SaveDurable, At, StoreInv, SavingOK, Saving
  <2> QED
    BY <1>2, <1>3, <1>4, <2>1 DEF Step, Store!Next, Store!Begin, Store!Nothing, NoState, States
<1>5. CASE Kept # NoState
  <2>1. proc.state.run = Kept.run /\ Kept.run = newest
    BY <1>2, <1>5 DEF SaveDurable, At, StoreInv, SavingOK, FilesOK, Saving
  <2>2. proc.state.version \in {Kept.version, Kept.version + 1}
    BY <1>2, <1>3, <1>5 DEF SaveDurable, At, StoreInv, SavingOK, Saving, States
  <2>3. proc.state = Kept \/ proc.state = [Kept EXCEPT !.version = @ + 1]
    BY <1>3, <2>1, <2>2 DEF States
  <2> QED
    BY <1>2, <1>5, <2>1, <2>3 DEF Step, Store!Next, Store!Advance, Store!Nothing, NoState
<1> QED
  BY <1>4, <1>5

\* Whatever loses the memory's checkpoints gives the run up or changes nothing.
LEMMA LossIsAStep ==
    ASSUME TypeOK, StoreInv, MemoryLost, snapshot' = snapshot, newest' = newest
    PROVE  Step
<1> USE Constants
<1>1. Kept' \in {Kept, NoState}
  BY DEF MemoryLost, Kept, TypeOK, StoreInv, FilesOK
<1> QED
  BY <1>1 DEF Step, Store!Next, Store!Forget, Store!Nothing, NoState

LEMMA RunStoreStep == TypeOK /\ StoreInv /\ [Next]_vars => [Store!Next]_(Store!vars)
<1> SUFFICES ASSUME TypeOK, StoreInv, [Next]_vars PROVE Step
  BY DEF Step, Store!vars
<1> USE Constants
<1>1. CASE UNCHANGED <<snapshot, durable, newest>>
  BY <1>1 DEF Step, Kept
<1>2. CASE ForgetThread
  <2>1. durable' = durable
    BY <1>2 DEF ForgetThread, At, TypeOK, StoreInv, FreshOK, Discarding
  <2> QED
    BY <1>2, <2>1 DEF ForgetThread, Step, Kept
<1>3. CASE WipeSnapshot
  BY <1>3 DEF WipeSnapshot, Step, Kept, Store!Next, Store!Forget, Store!Nothing, NoState
<1>4. CASE SaveSnapshot
  BY <1>4, SnapshotKeepsTheRun DEF SaveSnapshot, Step
<1>5. CASE SaveDurable
  BY <1>5, CheckpointIsAStep
<1>6. CASE Die \/ Exit
  BY <1>6, LossIsAStep DEF Die, Exit
<1> QED
  BY <1>1, <1>2, <1>3, <1>4, <1>5, <1>6 DEF Next, Starting, Persisting, Start, WipeRest, Check, Load,
     SaveNames, SaveView, Change, Return, SyncFails, vars

LEMMA RunStoreInit == Init => Store!Init
BY DEF Init, Store!Init, Store!Nothing, Kept, NoState

\* Whatever dies when, restarts see a store that keeps one run, advances it by
\* whole persists and never falls back to one given up: the three writes of
\* _persist_state and the start of drive implement RunStore.
THEOREM ImplementsRunStore == Spec => IsRunStore
BY RunStoreInit, RunStoreStep, StoreInvAlways, PTL DEF Spec, IsRunStore, Store!Spec
=============================================================================
