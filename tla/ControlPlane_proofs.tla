------------------------ MODULE ControlPlane_proofs ------------------------
(***************************************************************************)
(* Theorems about the console's control plane, for any jobs and            *)
(* directories and any number of launches and events: the rows keep their   *)
(* types, and a job that is shown as disconnected, cancelled or archived    *)
(* has no process any more.                                                 *)
(*                                                                         *)
(* A row may be written from a listing of any age, so the invariant follows *)
(* the claim "this job is gone" wherever a thread carries it: in the rows,  *)
(* in the items of a scan, in the row a scan is about to write, and in a    *)
(* cancellation that has seen its process go.  The claim is safe to carry   *)
(* because a process that is gone stays gone, and a scan only makes it up   *)
(* from a look at the process, which a job that has a row did have.         *)
(***************************************************************************)
EXTENDS ControlPlane, TLAPS

-----------------------------------------------------------------------------
(* The inductive invariant. *)

Evidences == [ui : RunStatus \cup {None}, shared : RunStatus \cup {None},
              outcome : Terminal \cup {None}, summary : BOOLEAN,
              result : ExitCode \cup {None}]

Items == [id : Ids, row : Row]

Scans == [pc : {"idle", "look", "check", "write"}, todo : Seq(Items),
          seen : Evidences \cup {None}, next : Row \cup {None}]

Requests == [pc : {"idle", "spawned", "killing", "killed", "scan"}, job : Ids \cup {None}]

\* What a thread holds in each state of its scan.
ScanOK ==
    /\ scan \in [Threads -> Scans]
    /\ \A t \in Threads :
           /\ scan[t].pc \in {"check", "write"} => scan[t].todo # <<>>
           /\ scan[t].pc = "check" => scan[t].seen \in Evidences
           /\ scan[t].pc = "write" => scan[t].next \in Row

\* What a row claims of the job it is about.
Holds(id, row) == row.control \in Settled => (id \in Jobs => proc[id] = "gone")

Shown(id) == rows[id] # None

\* A row is true when it is written, and no row precedes its process.
RowsOK ==
    \A id \in Ids : Shown(id) => Holds(id, rows[id]) /\ (id \in Jobs => proc[id] # "none")

ListingOK == \A i \in 1..Len(listing) : Shown(listing[i])

\* The rows a scan has copied stay true however long it holds them.
ItemsOK ==
    \A t \in Threads : \A i \in 1..Len(scan[t].todo) :
        Shown(scan[t].todo[i].id) /\ Holds(scan[t].todo[i].id, scan[t].todo[i].row)

NextOK ==
    \A t \in Threads : scan[t].pc = "write" => Holds(scan[t].todo[1].id, scan[t].next)

ApiOK ==
    /\ api \in Requests
    /\ api.pc = "spawned" => api.job \in Jobs /\ proc[api.job] # "none"
    /\ api.pc = "killing" => api.job \in Jobs
    /\ api.pc \in {"killing", "killed"} => api.job \in Ids /\ Shown(api.job)
    /\ api.pc = "killed" => (api.job \in Jobs => proc[api.job] = "gone")

ControlInv ==
    TypeOK /\ ScanOK /\ RowsOK /\ ListingOK /\ ItemsOK /\ NextOK /\ ApiOK

-----------------------------------------------------------------------------
(* What the operators return. *)

\* A refresh makes a row of a row, whatever is read and whether or not the
\* process answers.
LEMMA RefreshedTyped ==
    ASSUME NEW row \in Row, NEW seen \in Evidences, NEW alive \in BOOLEAN
    PROVE  Refreshed(row, seen, alive) \in Row
<1>1. RuntimeOf(row, seen, alive) \in RunStatus
  <2>1. SourceOf(seen) \in {"material_outcome", "ui_state", "shared_state", "batch_summary",
                            "worker_result", "control_plane"}
    BY DEF SourceOf
  <2>2. SourceOf(seen) = "material_outcome" => seen.outcome \in RunStatus
    BY DEF SourceOf, Evidences, RunStatus, Terminal
  <2>3. SourceOf(seen) = "ui_state" => seen.ui \in RunStatus
    BY DEF SourceOf, Evidences
  <2>4. SourceOf(seen) = "shared_state" => seen.shared \in RunStatus
    BY DEF SourceOf, Evidences
  <2>5. ResultStatus(seen.result) \in RunStatus /\ "completed" \in RunStatus
        /\ "running" \in RunStatus
    BY DEF ResultStatus, RunStatus, Terminal
  <2>6. row.runtime \in RunStatus
    BY DEF Row
  <2>. QED  BY <2>1, <2>2, <2>3, <2>4, <2>5, <2>6 DEF RuntimeOf
<1>2. ControlOf(row, seen, alive) \in ControlStatus
  BY DEF ControlOf, ControlStatus, Row
<1>3. StageKnown(row, seen) \in BOOLEAN
  BY DEF StageKnown, Row
<1>. QED  BY <1>1, <1>2, <1>3 DEF Refreshed, Row

\* A refresh settles a row that was not settled only if no process answered.
LEMMA SettlesWithoutProcess ==
    ASSUME NEW row \in Row, NEW seen, NEW alive \in BOOLEAN,
           Refreshed(row, seen, alive).control \in Settled
    PROVE  row.control \in Settled \/ ~alive
BY DEF Refreshed, ControlOf, Settled, Row

LEMMA NewRowsTyped ==
    /\ \A kind : Launched(kind) \in Row /\ Launched(kind).control \notin Settled
    /\ \A runtime \in RunStatus : Imported(runtime) \in Row
    /\ \A row \in Row : row # None
    /\ \A row \in Row : [row EXCEPT !.control = "cancelled"] \in Row
BY NoneAssumption DEF Launched, Imported, Row, ControlStatus, RunStatus, Terminal, Settled

\* A row written for an identifier is listed, and nothing listed loses its row.
LEMMA UpsertKeeps ==
    ASSUME TypeOK, ListingOK, NEW id \in Ids, NEW row \in Row, Upsert(id, row)
    PROVE  /\ rows' \in [Ids -> Row \cup {None}]
           /\ listing' \in Seq(Ids)
           /\ ListingOK'
           /\ rows'[id] = row /\ row # None
           /\ \A k \in Ids \ {id} : rows'[k] = rows[k]
<1>1. row # None
  BY NewRowsTyped
<1>2. /\ rows' \in [Ids -> Row \cup {None}]
      /\ rows'[id] = row
      /\ \A k \in Ids \ {id} : rows'[k] = rows[k]
  BY DEF Upsert, TypeOK
<1>3. listing' \in Seq(Ids)
  BY DEF Upsert, TypeOK
<1>4. ListingOK'
  <2>. SUFFICES ASSUME NEW i \in 1..Len(listing')
                PROVE  rows'[listing'[i]] # None
    BY DEF ListingOK, Shown
  <2>0. listing \in Seq(Ids)
    BY DEF TypeOK
  <2>1. listing'[i] = id \/ \E k \in 1..Len(listing) : listing'[i] = listing[k]
    BY <2>0 DEF Upsert
  <2>2. CASE listing'[i] = id
    BY <1>1, <1>2, <2>2
  <2>3. CASE \E k \in 1..Len(listing) : listing'[i] = listing[k]
    <3>1. PICK k \in 1..Len(listing) : listing'[i] = listing[k]
      BY <2>3
    <3>2. listing[k] \in Ids /\ rows[listing[k]] # None
      BY <2>0 DEF ListingOK, Shown
    <3>. QED  BY <1>1, <1>2, <3>1, <3>2
  <2>. QED  BY <2>1, <2>2, <2>3
<1>. QED  BY <1>1, <1>2, <1>3, <1>4

-----------------------------------------------------------------------------
(* What no step takes back. *)

\* A row stays in the registry, a process that was started is never as good as
\* new, and one that is gone stays gone.
Later ==
    /\ \A id \in Ids : rows[id] # None => rows'[id] # None
    /\ \A j \in Jobs : proc[j] = "gone" => proc'[j] = "gone"
    /\ \A j \in Jobs : proc[j] # "none" => proc'[j] # "none"

\* What is true of a job when a thread reads it stays true while the thread
\* holds it.
LEMMA ClaimsKeep ==
    ASSUME Later, NEW id \in Ids, NEW row, Holds(id, row), Shown(id)
    PROVE  Holds(id, row)' /\ Shown(id)'
BY DEF Later, Holds, Shown

\* A step that leaves the scans alone keeps what they hold.
LEMMA ScansKeep ==
    ASSUME ControlInv, Later, scan' = scan
    PROVE  ScanOK' /\ ItemsOK' /\ NextOK'
<1>. USE DEF ControlInv
<1>1. ScanOK'
  BY DEF ScanOK
<1>2. ItemsOK'
  <2>. SUFFICES ASSUME NEW t \in Threads, NEW i \in 1..Len(scan[t].todo)
                PROVE  Shown(scan[t].todo[i].id)' /\ Holds(scan[t].todo[i].id, scan[t].todo[i].row)'
    BY DEF ItemsOK
  <2>1. scan[t].todo[i] \in Items
    BY DEF ScanOK, Scans
  <2>2. Shown(scan[t].todo[i].id) /\ Holds(scan[t].todo[i].id, scan[t].todo[i].row)
    BY DEF ItemsOK
  <2>. QED  BY <2>1, <2>2 DEF Items, Later, Holds, Shown
<1>3. NextOK'
  <2>. SUFFICES ASSUME NEW t \in Threads, scan[t].pc = "write"
                PROVE  Holds(scan[t].todo[1].id, scan[t].next)'
    BY DEF NextOK
  <2>1. Holds(scan[t].todo[1].id, scan[t].next)
    BY DEF NextOK
  <2>. QED  BY <2>1 DEF Later, Holds
<1>. QED  BY <1>1, <1>2, <1>3

\* A thread moves on: it is enough to look at what that thread holds then.
LEMMA ScanMoves ==
    ASSUME ControlInv, Later, NEW t \in Threads, NEW s \in Scans,
           scan' = [scan EXCEPT ![t] = s],
           s.pc \in {"check", "write"} => s.todo # <<>>,
           s.pc = "check" => s.seen \in Evidences,
           s.pc = "write" => s.next \in Row /\ Holds(s.todo[1].id, s.next),
           \A i \in 1..Len(s.todo) : Shown(s.todo[i].id) /\ Holds(s.todo[i].id, s.todo[i].row)
    PROVE  ScanOK' /\ ItemsOK' /\ NextOK'
<1>. USE DEF ControlInv
<1>0. /\ scan \in [Threads -> Scans]
      /\ scan'[t] = s
      /\ \A u \in Threads \ {t} : scan'[u] = scan[u]
  BY DEF ScanOK
<1>1. ScanOK'
  BY <1>0 DEF ScanOK
<1>2. ItemsOK'
  <2>. SUFFICES ASSUME NEW u \in Threads, NEW i \in 1..Len(scan'[u].todo)
                PROVE  /\ rows'[scan'[u].todo[i].id] # None
                       /\ scan'[u].todo[i].row.control \in Settled =>
                            (scan'[u].todo[i].id \in Jobs => proc'[scan'[u].todo[i].id] = "gone")
    BY DEF ItemsOK, Shown, Holds
  <2>1. scan'[u].todo[i] \in Items
    BY <1>0 DEF Scans
  <2>2. Shown(scan'[u].todo[i].id) /\ Holds(scan'[u].todo[i].id, scan'[u].todo[i].row)
    <3>1. CASE u = t
      BY <1>0, <3>1
    <3>2. CASE u # t
      BY <1>0, <3>2 DEF ItemsOK
    <3>. QED  BY <3>1, <3>2
  <2>. QED  BY <2>1, <2>2 DEF Items, Later, Holds, Shown
<1>3. NextOK'
  <2>. SUFFICES ASSUME NEW u \in Threads, scan'[u].pc = "write"
                PROVE  scan'[u].next.control \in Settled =>
                         (scan'[u].todo[1].id \in Jobs => proc'[scan'[u].todo[1].id] = "gone")
    BY DEF NextOK, Holds
  <2>1. Holds(scan'[u].todo[1].id, scan'[u].next)
    <3>1. CASE u = t
      BY <1>0, <3>1
    <3>2. CASE u # t
      BY <1>0, <3>2 DEF NextOK
    <3>. QED  BY <3>1, <3>2
  <2>. QED  BY <2>1 DEF Later, Holds
<1>. QED  BY <1>1, <1>2, <1>3

\* A true row is written for a job whose process was started.
LEMMA RowsKeep ==
    ASSUME ControlInv, NEW id \in Ids, NEW row \in Row, Upsert(id, row), proc' = proc,
           Holds(id, row), id \in Jobs => proc[id] # "none"
    PROVE  Later /\ RowsOK' /\ ListingOK' /\ rows' \in [Ids -> Row \cup {None}]
           /\ listing' \in Seq(Ids) /\ rows'[id] # None
<1>1. /\ rows' \in [Ids -> Row \cup {None}]
      /\ listing' \in Seq(Ids)
      /\ ListingOK'
      /\ rows'[id] = row /\ row # None
      /\ \A k \in Ids \ {id} : rows'[k] = rows[k]
  BY UpsertKeeps DEF ControlInv
<1>2. Later
  BY <1>1 DEF Later
<1>3. RowsOK'
  BY <1>1 DEF ControlInv, RowsOK, Shown, Holds
<1>. QED  BY <1>1, <1>2, <1>3

\* Nothing of the console changes but the processes and their files.
LEMMA ConsoleKeeps ==
    ASSUME ControlInv, Later, console' = console, TypeOK'
    PROVE  ControlInv'
<1>. USE DEF ControlInv, console
<1>1. ScanOK' /\ ItemsOK' /\ NextOK'
  BY ScansKeep
<1>2. RowsOK'
  BY DEF RowsOK, Later, Holds, Shown
<1>3. ListingOK'
  BY DEF ListingOK, Shown
<1>4. ApiOK'
  BY DEF ApiOK, Later, Shown
<1>. QED  BY <1>1, <1>2, <1>3, <1>4

-----------------------------------------------------------------------------
(* Types, and what a worker's step touches. *)

\* A step of a worker changes its place, its process and its files.
LEMMA WorkerTyped ==
    ASSUME TypeOK, NEW j \in Jobs, Working(j) \/ Raises(j) \/ Dies(j)
    PROVE  /\ proc' \in [Jobs -> {"none", "up", "gone"}]
           /\ at' \in [Jobs -> {"boot", "run", "half", "report", "saved", "exit"}]
           /\ files' \in [Dirs -> Files]
           /\ result' \in [Jobs -> ExitCode \cup {None}]
           /\ events' \in 0..MaxEvents
           /\ console' = console
           /\ Later
<1>. USE DEF TypeOK, Later, console
<1>0. DirOf[j] \in Dirs /\ ChildDir \in Dirs /\ MaxEvents \in Nat
  BY ConsoleAssumption
<1>1. ASSUME NEW fresh \in BOOLEAN, Boot(j, fresh)
      PROVE  files' \in [Dirs -> Files]
  BY <1>1, <1>0 DEF Boot, Moves, Files
<1>2. ASSUME NEW status \in {"running", "waiting_external"}, SaveState(j, status)
      PROVE  files' \in [Dirs -> Files]
  BY <1>2, <1>0 DEF SaveState, Moves, Files, RunStatus
<1>3. ASSUME SaveView(j)
      PROVE  files' \in [Dirs -> Files]
  BY <1>3, <1>0 DEF SaveView, Moves, Files
<1>4. ASSUME OpenOutcome(j)
      PROVE  files' \in [Dirs -> Files]
  BY <1>4, <1>0 DEF OpenOutcome, Moves, Files
<1>5. ASSUME NEW status \in Terminal, CloseOutcome(j, status)
      PROVE  files' \in [Dirs -> Files]
  BY <1>5, <1>0 DEF CloseOutcome, Moves, Files, RunStatus, Terminal
<1>6. ASSUME RunChild(j)
      PROVE  files' \in [Dirs -> Files]
  BY <1>6, <1>0 DEF RunChild, Moves, Files, RunStatus, Terminal
<1>7. ASSUME Summarise(j)
      PROVE  files' \in [Dirs -> Files]
  BY <1>7, <1>0 DEF Summarise, Moves, Files
<1>8. files' \in [Dirs -> Files]
  BY <1>1, <1>2, <1>3, <1>4, <1>5, <1>6, <1>7
  DEF Working, Reindex, WriteResult, TermHandled, Exits, Raises, Dies
<1>9. at' \in [Jobs -> {"boot", "run", "half", "report", "saved", "exit"}]
  BY DEF Working, Boot, SaveState, SaveView, OpenOutcome, CloseOutcome, RunChild, Summarise,
         Reindex, WriteResult, TermHandled, Exits, Raises, Dies, Moves
<1>10. result' \in [Jobs -> ExitCode \cup {None}]
  BY DEF Working, Boot, SaveState, SaveView, OpenOutcome, CloseOutcome, RunChild, Summarise,
         Reindex, WriteResult, TermHandled, Exits, Raises, Dies, ExitCode
<1>11. events' \in 0..MaxEvents
  <2>1. events' = events \/ Event
    BY DEF Working, Boot, SaveState, SaveView, OpenOutcome, CloseOutcome, RunChild, Summarise,
           Reindex, WriteResult, TermHandled, Exits, Raises, Dies, Moves
  <2>. QED  BY <1>0, <2>1 DEF Event
<1>12. proc' \in [Jobs -> {"none", "up", "gone"}]
       /\ (proc' = proc \/ (proc[j] = "up" /\ proc' = [proc EXCEPT ![j] = "gone"]))
  BY DEF Working, Boot, SaveState, SaveView, OpenOutcome, CloseOutcome, RunChild, Summarise,
         Reindex, WriteResult, TermHandled, Exits, Raises, Dies, Moves
<1>13. console' = console
  BY DEF Working, Boot, SaveState, SaveView, OpenOutcome, CloseOutcome, RunChild, Summarise,
         Reindex, WriteResult, TermHandled, Exits, Raises, Dies, Moves
<1>14. Later
  BY <1>12, <1>13
<1>. QED  BY <1>8, <1>9, <1>10, <1>11, <1>12, <1>13, <1>14

LEMMA WorkerSteps ==
    ASSUME ControlInv, NEW j \in Jobs, Working(j) \/ Raises(j) \/ Dies(j)
    PROVE  ControlInv'
<1>1. TypeOK'
  BY WorkerTyped DEF ControlInv, TypeOK, console
<1>. QED  BY <1>1, WorkerTyped, ConsoleKeeps DEF ControlInv

LEMMA InitiallyTrue == Init => ControlInv
<1>. SUFFICES ASSUME Init
              PROVE  ControlInv
  OBVIOUS
<1>. USE ConsoleAssumption DEF Init
<1>1. TypeOK
  BY DEF TypeOK, Idle, NoFiles, Files
<1>2. ScanOK
  BY DEF ScanOK, Scans, Idle
<1>3. RowsOK /\ ListingOK /\ ItemsOK /\ NextOK
  BY DEF RowsOK, ListingOK, ItemsOK, NextOK, Shown, Idle
<1>4. ApiOK
  BY DEF ApiOK, Requests
<1>. QED  BY <1>1, <1>2, <1>3, <1>4 DEF ControlInv

-----------------------------------------------------------------------------
(* The steps of a scan. *)

\* Nothing but the scan changes.
OnlyScan == UNCHANGED <<rows, listing, worker, api, events>>

LEMMA OnlyScanKeeps ==
    ASSUME ControlInv, OnlyScan, ScanOK', ItemsOK', NextOK'
    PROVE  ControlInv'
<1>. USE DEF ControlInv, OnlyScan, worker
<1>1. TypeOK'
  BY DEF TypeOK, ScanOK, Scans
<1>2. RowsOK'
  BY DEF RowsOK, Shown, Holds
<1>3. ListingOK'
  BY DEF ListingOK, Shown
<1>4. ApiOK'
  BY DEF ApiOK, Shown
<1>. QED  BY <1>1, <1>2, <1>3, <1>4

\* The listing copies rows that are there and true.
LEMMA ListingStep ==
    ASSUME ControlInv, NEW t \in Threads, ListRows(t)
    PROVE  ControlInv'
<1>. DEFINE todo == [i \in 1..Len(listing) |-> [id |-> listing[i], row |-> rows[listing[i]]]]
            s == [Idle EXCEPT !.pc = "look", !.todo = todo]
<1>1. scan' = [scan EXCEPT ![t] = s] /\ OnlyScan
  BY DEF ListRows, OnlyScan
<1>2. /\ listing \in Seq(Ids)
      /\ rows \in [Ids -> Row \cup {None}]
      /\ \A i \in 1..Len(listing) : rows[listing[i]] # None
  BY DEF ControlInv, TypeOK, ListingOK, Shown
<1>3. todo \in Seq(Items)
  <2>1. \A i \in 1..Len(listing) : [id |-> listing[i], row |-> rows[listing[i]]] \in Items
    BY <1>2 DEF Items
  <2>. QED  BY <1>2, <2>1
<1>4. Len(todo) = Len(listing)
  BY <1>2
<1>5. \A i \in 1..Len(todo) : Shown(todo[i].id) /\ Holds(todo[i].id, todo[i].row)
  BY <1>2, <1>4 DEF ControlInv, RowsOK, Shown
<1>6. Later
  BY <1>1 DEF OnlyScan, Later, worker
<1>. HIDE DEF todo
<1>7. Idle \in Scans
  BY DEF Idle, Scans
<1>8. s \in Scans /\ s.pc = "look" /\ s.todo = todo
  BY <1>3, <1>7 DEF Scans
<1>9. ScanOK' /\ ItemsOK' /\ NextOK'
  <2>. HIDE DEF s
  <2>. QED  BY <1>1, <1>5, <1>6, <1>8, ScanMoves
<1>. QED  BY <1>1, <1>9, OnlyScanKeeps

\* What is read for a row that can be parsed.
LEMMA EvidenceTyped ==
    ASSUME TypeOK, NEW id \in Ids, Evidence(id).outcome # "torn"
    PROVE  Evidence(id) \in Evidences
<1>1. id \in Jobs => DirOf[id] \in Dirs /\ result[id] \in ExitCode \cup {None}
  BY ConsoleAssumption DEF TypeOK
<1>2. id \notin Jobs => id \in Dirs
  BY DEF Ids
<1>3. \A d \in Dirs : files[d] \in Files
  BY DEF TypeOK
<1>. QED  BY <1>1, <1>2, <1>3 DEF Evidence, Evidences, Files

LEMMA LookStep ==
    ASSUME ControlInv, NEW t \in Threads, LookAtFiles(t)
    PROVE  ControlInv'
<1>. DEFINE id == scan[t].todo[1].id
            s == [scan[t] EXCEPT !.pc = "check", !.seen = Evidence(id)]
<1>1. /\ scan \in [Threads -> Scans]
      /\ scan[t] \in Scans
      /\ scan[t].todo # <<>> /\ scan[t].pc = "look"
      /\ id \in Ids
  <2>1. scan \in [Threads -> Scans] /\ scan[t] \in Scans
    BY DEF ControlInv, ScanOK
  <2>2. scan[t].todo # <<>> /\ scan[t].pc = "look"
    BY DEF LookAtFiles
  <2>3. scan[t].todo[1] \in Items
    BY <2>1, <2>2 DEF Scans
  <2>. QED  BY <2>1, <2>2, <2>3 DEF Items
<1>2. /\ Evidence(id).outcome # "torn"
      /\ scan' = [scan EXCEPT ![t].pc = "check", ![t].seen = Evidence(id)]
      /\ OnlyScan
  BY <1>1 DEF LookAtFiles, OnlyScan
<1>3. Evidence(id) \in Evidences
  BY <1>1, <1>2, EvidenceTyped DEF ControlInv
<1>. HIDE DEF id
<1>4. scan' = [scan EXCEPT ![t] = s]
  BY <1>1, <1>2
<1>5. s \in Scans /\ s.pc = "check" /\ s.todo = scan[t].todo /\ s.seen = Evidence(id)
  BY <1>1, <1>3 DEF Scans
<1>6. \A i \in 1..Len(s.todo) : Shown(s.todo[i].id) /\ Holds(s.todo[i].id, s.todo[i].row)
  BY <1>5 DEF ControlInv, ItemsOK
<1>7. Later
  BY <1>2 DEF OnlyScan, Later, worker
<1>. HIDE DEF s
<1>8. ScanOK' /\ ItemsOK' /\ NextOK'
  BY <1>1, <1>3, <1>4, <1>5, <1>6, <1>7, ScanMoves
<1>. QED  BY <1>2, <1>8, OnlyScanKeeps

\* Only here is a row settled, and not while its process answers: a job with a
\* row has had one, so that it is gone.
LEMMA CheckStep ==
    ASSUME ControlInv, NEW t \in Threads, CheckProcess(t)
    PROVE  ControlInv'
<1>. DEFINE item == scan[t].todo[1]
            next == Refreshed(item.row, scan[t].seen, Alive(item.id))
            s == [scan[t] EXCEPT !.pc = "write", !.seen = None, !.next = next]
<1>1. /\ scan \in [Threads -> Scans]
      /\ scan[t] \in Scans
      /\ scan[t].todo # <<>> /\ scan[t].pc = "check"
      /\ scan[t].seen \in Evidences
      /\ item \in Items
  BY DEF CheckProcess, ControlInv, ScanOK, Scans
<1>2. /\ scan' = [scan EXCEPT ![t].pc = "write", ![t].seen = None, ![t].next = next]
      /\ OnlyScan
  BY <1>1 DEF CheckProcess, OnlyScan
<1>3. next \in Row
  BY <1>1, RefreshedTyped DEF Items, Alive
<1>4. Holds(item.id, next)
  <2>. SUFFICES ASSUME next.control \in Settled, item.id \in Jobs
                PROVE  proc[item.id] = "gone"
    BY DEF Holds
  <2>1. item.row.control \in Settled \/ ~Alive(item.id)
    BY <1>1, SettlesWithoutProcess DEF Items, Alive
  <2>2. Shown(item.id) /\ Holds(item.id, item.row)
    BY <1>1 DEF ControlInv, ItemsOK, Scans
  <2>3. proc[item.id] \in {"up", "gone"}
    BY <1>1, <2>2 DEF ControlInv, RowsOK, TypeOK, Items
  <2>. QED  BY <2>1, <2>2, <2>3 DEF Holds, Alive
<1>. HIDE DEF next
<1>5. scan' = [scan EXCEPT ![t] = s]
  BY <1>1, <1>2
<1>6. s \in Scans /\ s.pc = "write" /\ s.todo = scan[t].todo /\ s.next = next
  BY <1>1, <1>3 DEF Scans
<1>7. \A i \in 1..Len(s.todo) : Shown(s.todo[i].id) /\ Holds(s.todo[i].id, s.todo[i].row)
  BY <1>6 DEF ControlInv, ItemsOK
<1>8. Later
  BY <1>2 DEF OnlyScan, Later, worker
<1>. HIDE DEF s
<1>9. ScanOK' /\ ItemsOK' /\ NextOK'
  BY <1>1, <1>3, <1>4, <1>5, <1>6, <1>7, <1>8, ScanMoves
<1>. QED  BY <1>2, <1>9, OnlyScanKeeps

\* The row goes to the registry, true however old the listing is.
LEMMA WriteStep ==
    ASSUME ControlInv, NEW t \in Threads, WriteRow(t)
    PROVE  ControlInv'
<1>. DEFINE id == scan[t].todo[1].id
            todo == scan[t].todo
            s == [scan[t] EXCEPT !.pc = "look", !.next = None, !.todo = Tail(todo)]
<1>1. /\ scan \in [Threads -> Scans]
      /\ scan[t] \in Scans
      /\ todo \in Seq(Items) /\ todo # <<>> /\ scan[t].pc = "write"
      /\ scan[t].next \in Row
      /\ id \in Ids
  BY DEF WriteRow, ControlInv, ScanOK, Scans, Items
<1>2. /\ Upsert(id, scan[t].next)
      /\ scan' = [scan EXCEPT ![t].pc = "look", ![t].next = None, ![t].todo = Tail(@)]
      /\ UNCHANGED <<worker, api, events>>
  BY <1>1 DEF WriteRow
<1>3. Holds(id, scan[t].next) /\ Shown(id)
  BY <1>1 DEF ControlInv, NextOK, ItemsOK
<1>4. id \in Jobs => proc[id] # "none"
  BY <1>1, <1>3 DEF ControlInv, RowsOK
<1>5. Later /\ RowsOK' /\ ListingOK' /\ rows' \in [Ids -> Row \cup {None}]
      /\ listing' \in Seq(Ids)
  BY <1>1, <1>2, <1>3, <1>4, RowsKeep DEF worker
<1>6. scan' = [scan EXCEPT ![t] = s]
  BY <1>1, <1>2
<1>7. /\ Tail(todo) \in Seq(Items)
      /\ \A i \in 1..Len(Tail(todo)) : i + 1 \in 1..Len(todo) /\ Tail(todo)[i] = todo[i + 1]
  BY <1>1
<1>8. s \in Scans /\ s.pc = "look" /\ s.todo = Tail(todo)
  BY <1>1, <1>7 DEF Scans
<1>9. \A i \in 1..Len(s.todo) : Shown(s.todo[i].id) /\ Holds(s.todo[i].id, s.todo[i].row)
  BY <1>7, <1>8 DEF ControlInv, ItemsOK
<1>. HIDE DEF s
<1>10. ScanOK' /\ ItemsOK' /\ NextOK'
  BY <1>5, <1>6, <1>8, <1>9, ScanMoves
<1>11. TypeOK'
  BY <1>2, <1>5, <1>10 DEF ControlInv, TypeOK, ScanOK, Scans, worker
<1>12. ApiOK'
  BY <1>2, <1>5 DEF ControlInv, ApiOK, Later, worker, Shown
<1>. QED  BY <1>5, <1>10, <1>11, <1>12 DEF ControlInv

\* A scan that is over, or given up, holds nothing.
LEMMA ScanOverStep ==
    ASSUME ControlInv, NEW t \in Threads, ScanRaises(t) \/ ScanEnds(t)
    PROVE  ControlInv'
<1>. USE DEF ControlInv
<1>1. /\ scan' = [scan EXCEPT ![t] = Idle]
      /\ api' = api \/ api' = [pc |-> "idle", job |-> None]
      /\ UNCHANGED <<rows, listing, worker, events>>
  BY DEF ScanRaises, ScanEnds, DoneWith
<1>2. Later
  BY <1>1 DEF Later, worker
<1>3. Idle \in Scans /\ Idle.pc = "idle" /\ Idle.todo = <<>>
  BY DEF Scans, Idle
<1>4. ScanOK' /\ ItemsOK' /\ NextOK'
  <2>1. ASSUME NEW i \in 1..Len(Idle.todo)
        PROVE  FALSE
    BY <1>3
  <2>. QED  BY <1>1, <1>2, <1>3, <2>1, ScanMoves
<1>5. ApiOK'
  BY <1>1 DEF ApiOK, Requests, worker, Shown
<1>6. TypeOK'
  BY <1>1, <1>4, <1>5 DEF TypeOK, ScanOK, Scans, ApiOK, Requests, worker
<1>7. RowsOK' /\ ListingOK'
  BY <1>1 DEF RowsOK, ListingOK, Shown, Holds, worker
<1>. QED  BY <1>4, <1>5, <1>6, <1>7

-----------------------------------------------------------------------------
(* Discoveries and requests. *)

\* One row is written, and nothing changes but the request that is served.
LEMMA RowStep ==
    ASSUME ControlInv, NEW id \in Ids, NEW row \in Row, Upsert(id, row),
           UNCHANGED <<worker, scan, events>>,
           Holds(id, row), id \in Jobs => proc[id] # "none",
           api' = api \/ (api' \in Requests /\ api'.pc = "scan")
    PROVE  ControlInv'
<1>. USE DEF ControlInv
<1>1. Later /\ RowsOK' /\ ListingOK' /\ rows' \in [Ids -> Row \cup {None}]
      /\ listing' \in Seq(Ids)
  BY RowsKeep DEF worker
<1>2. ScanOK' /\ ItemsOK' /\ NextOK'
  BY <1>1, ScansKeep
<1>3. ApiOK'
  <2>1. CASE api' = api
    BY <1>1, <2>1 DEF ApiOK, Later, Shown
  <2>2. CASE api' \in Requests /\ api'.pc = "scan"
    BY <2>2 DEF ApiOK
  <2>. QED  BY <2>1, <2>2
<1>4. TypeOK'
  BY <1>1, <1>3 DEF TypeOK, ApiOK, Requests, worker
<1>. QED  BY <1>1, <1>2, <1>3, <1>4

\* The directory of an import is no job.
LEMMA ImportsHold ==
    ASSUME NEW d \in Dirs, NEW row
    PROVE  d \in Ids /\ d \notin Jobs /\ Holds(d, row)
BY ConsoleAssumption DEF Ids, Holds

LEMMA DiscoverBatchStep ==
    ASSUME ControlInv, NEW t \in Threads, NEW d \in Dirs, DiscoverBatch(t, d)
    PROVE  ControlInv'
<1>1. Imported("completed") \in Row
  BY NewRowsTyped DEF RunStatus, Terminal
<1>. QED  BY <1>1, ImportsHold, RowStep DEF DiscoverBatch

\* The import of a child may bring that of its batch: two rows of no job.
LEMMA DiscoverMaterialStep ==
    ASSUME ControlInv, NEW t \in Threads, NEW d \in Dirs, DiscoverMaterial(t, d)
    PROVE  ControlInv'
<1>. USE DEF ControlInv
<1>1. Imported("pending") \in Row /\ Imported("running") \in Row
      /\ Imported("pending") # None /\ Imported("running") # None
  BY NewRowsTyped DEF RunStatus
<1>2. CASE Upsert(d, Imported("pending"))
  BY <1>1, <1>2, ImportsHold, RowStep DEF DiscoverMaterial
<1>3. CASE /\ rows' = [rows EXCEPT ![BatchDir] = Imported("running"),
                                  ![d] = Imported("pending")]
           /\ listing' = <<d, BatchDir>> \o listing
           /\ d = ChildDir
  <2>. DEFINE pending == Imported("pending")
              running == Imported("running")
  <2>0. /\ BatchDir \in Ids /\ d \in Ids /\ BatchDir # d
        /\ BatchDir \notin Jobs /\ d \notin Jobs
    BY <1>3, ConsoleAssumption DEF Ids
  <2>. HIDE DEF pending, running
  <2>1. rows \in [Ids -> Row \cup {None}] /\ listing \in Seq(Ids)
    BY DEF TypeOK
  <2>2. rows' = [rows EXCEPT ![BatchDir] = running, ![d] = pending]
    BY <1>3 DEF pending, running
  <2>3. running \in Row /\ pending \in Row /\ running # None /\ pending # None
    BY <1>1 DEF pending, running
  <2>4. /\ rows' \in [Ids -> Row \cup {None}]
        /\ rows'[BatchDir] # None /\ rows'[d] # None
        /\ \A k \in Ids : k # BatchDir /\ k # d => rows'[k] = rows[k]
    BY <2>0, <2>1, <2>2, <2>3
  <2>5. /\ listing' \in Seq(Ids)
        /\ \A i \in 1..Len(listing') :
               \/ listing'[i] \in {d, BatchDir}
               \/ \E k \in 1..Len(listing) : listing'[i] = listing[k]
    <3>. DEFINE imports == <<d, BatchDir>>
    <3>1. imports \in Seq(Ids) /\ Len(imports) = 2
          /\ imports[1] = d /\ imports[2] = BatchDir
      BY <2>0
    <3>2. listing' = imports \o listing
      BY <1>3
    <3>. HIDE DEF imports
    <3>3. listing' \in Seq(Ids) /\ Len(listing') = 2 + Len(listing)
      <4>1. listing \in Seq(Ids) /\ imports \in Seq(Ids)
        BY <2>1, <3>1
      <4>2. imports \o listing \in Seq(Ids)
            /\ Len(imports \o listing) = Len(imports) + Len(listing)
        BY <4>1
      <4>. QED  BY <3>1, <3>2, <4>2
    <3>4. ASSUME NEW i \in 1..Len(listing')
          PROVE  listing'[i] \in {d, BatchDir} \/ \E k \in 1..Len(listing) : listing'[i] = listing[k]
      <4>1. CASE i <= 2
        BY <2>1, <3>1, <3>2, <4>1
      <4>2. CASE i > 2
        <5>1. i - 2 \in 1..Len(listing) /\ listing'[i] = listing[i - 2]
          BY <2>1, <3>1, <3>2, <3>3, <4>2
        <5>. QED  BY <5>1
      <4>. QED  BY <4>1, <4>2
    <3>. QED  BY <3>3, <3>4
  <2>6. UNCHANGED <<worker, scan, api, events>>
    BY DEF DiscoverMaterial
  <2>7. Later
    BY <2>4, <2>6 DEF Later, worker
  <2>8. RowsOK'
    BY <2>0, <2>4, <2>6 DEF RowsOK, Shown, Holds, worker
  <2>9. ListingOK'
    <3>. SUFFICES ASSUME NEW i \in 1..Len(listing')
                  PROVE  rows'[listing'[i]] # None
      BY DEF ListingOK, Shown
    <3>1. CASE listing'[i] \in {d, BatchDir}
      BY <2>4, <3>1
    <3>2. CASE \E k \in 1..Len(listing) : listing'[i] = listing[k]
      <4>1. PICK k \in 1..Len(listing) : listing'[i] = listing[k]
        BY <3>2
      <4>2. listing[k] \in Ids /\ rows[listing[k]] # None
        BY <2>1 DEF ListingOK, Shown
      <4>. QED  BY <2>4, <4>1, <4>2
    <3>. QED  BY <2>5, <3>1, <3>2
  <2>10. ScanOK' /\ ItemsOK' /\ NextOK'
    BY <2>6, <2>7, ScansKeep
  <2>11. TypeOK'
    BY <2>4, <2>5, <2>6 DEF TypeOK, worker
  <2>12. ApiOK'
    BY <2>6, <2>7 DEF ApiOK, Later, worker, Shown
  <2>. QED  BY <2>8, <2>9, <2>10, <2>11, <2>12
<1>. QED  BY <1>2, <1>3 DEF DiscoverMaterial

\* A new row is of a process that was started.
LEMMA RegisterStep ==
    ASSUME ControlInv, Register
    PROVE  ControlInv'
<1>1. /\ api \in Requests
      /\ api.job \in Jobs /\ proc[api.job] # "none"
      /\ Upsert(api.job, Launched(Kind[api.job]))
      /\ api' = [api EXCEPT !.pc = "scan"]
      /\ UNCHANGED <<worker, scan, events>>
  BY DEF Register, ControlInv, ApiOK
<1>2. Launched(Kind[api.job]) \in Row /\ Holds(api.job, Launched(Kind[api.job]))
  BY NewRowsTyped DEF Holds
<1>3. api' \in Requests /\ api'.pc = "scan"
  BY <1>1 DEF Requests
<1>. QED  BY <1>1, <1>2, <1>3, RowStep DEF Ids

\* A cancellation is recorded of a process that was seen to be gone.
LEMMA CancelRecordedStep ==
    ASSUME ControlInv, CancelRecorded
    PROVE  ControlInv'
<1>. DEFINE row == [rows[api.job] EXCEPT !.control = "cancelled"]
<1>1. /\ api \in Requests
      /\ api.job \in Ids /\ rows[api.job] # None
      /\ api.job \in Jobs => proc[api.job] = "gone"
      /\ Upsert(api.job, row)
      /\ api' = [api EXCEPT !.pc = "scan"]
      /\ UNCHANGED <<worker, scan, events>>
  BY DEF CancelRecorded, ControlInv, ApiOK, Shown
<1>2. row \in Row
  BY <1>1, NewRowsTyped DEF ControlInv, TypeOK
<1>3. Holds(api.job, row)
  BY <1>1 DEF Holds
<1>4. api' \in Requests /\ api'.pc = "scan"
  BY <1>1 DEF Requests
<1>. QED  BY <1>1, <1>2, <1>3, <1>4, RowStep

\* The steps that write no row.
LEMMA RequestSteps ==
    ASSUME ControlInv,
           \/ \E j \in Jobs : Spawn(j)
           \/ OtherRequest
           \/ \E id \in Ids : Cancel(id)
           \/ CancelSeen \/ CancelKills
    PROVE  ControlInv'
<1>. USE DEF ControlInv
<1>1. UNCHANGED <<rows, listing, at, files, result, scan>>
  BY DEF Spawn, OtherRequest, Cancel, CancelSeen, CancelKills, worker
<1>2. /\ proc' \in [Jobs -> {"none", "up", "gone"}]
      /\ \A j \in Jobs : \/ proc'[j] = proc[j]
                         \/ proc[j] = "none" /\ proc'[j] = "up"
                         \/ proc'[j] = "gone"
  BY DEF Spawn, OtherRequest, Cancel, CancelSeen, CancelKills, worker, TypeOK, ApiOK
<1>3. events' \in 0..MaxEvents
  <2>1. events' = events \/ Event
    BY DEF Spawn, OtherRequest, Cancel, CancelSeen, CancelKills
  <2>. QED  BY <2>1, ConsoleAssumption DEF Event, TypeOK
<1>4. Later
  BY <1>1, <1>2 DEF Later
<1>5. ApiOK'
  <2>1. ASSUME NEW j \in Jobs, Spawn(j)
        PROVE  ApiOK'
    BY <2>1 DEF Spawn, ApiOK, Requests, Ids, TypeOK
  <2>2. CASE OtherRequest
    BY <2>2 DEF OtherRequest, ApiOK, Requests, worker
  <2>3. ASSUME NEW id \in Ids, Cancel(id)
        PROVE  ApiOK'
    <3>1. id \in Jobs => proc[id] \in {"up", "gone"}
      BY <2>3 DEF Cancel, RowsOK, Shown, TypeOK
    <3>. QED  BY <2>3, <3>1 DEF Cancel, ApiOK, Requests, worker, Shown, Alive
  <2>4. CASE CancelSeen
    <3>1. api.job \in Jobs /\ rows[api.job] # None /\ api.job \in Ids
      BY <2>4 DEF CancelSeen, ApiOK, Shown
    <3>2. proc[api.job] = "gone"
      BY <2>4, <3>1 DEF CancelSeen, RowsOK, Shown, TypeOK, Alive
    <3>. QED  BY <2>4, <3>1, <3>2 DEF CancelSeen, ApiOK, Requests, worker, Shown
  <2>5. CASE CancelKills
    BY <2>5, <1>1 DEF CancelKills, ApiOK, Requests, Shown, TypeOK
  <2>. QED  BY <2>1, <2>2, <2>3, <2>4, <2>5
<1>6. TypeOK'
  BY <1>1, <1>2, <1>3, <1>5 DEF TypeOK, ApiOK, Requests
<1>7. ScanOK' /\ ItemsOK' /\ NextOK'
  BY <1>1, <1>4, ScansKeep
<1>8. RowsOK' /\ ListingOK'
  BY <1>1, <1>4 DEF RowsOK, ListingOK, Later, Shown, Holds
<1>. QED  BY <1>5, <1>6, <1>7, <1>8

\* The registry outlives the console; its threads hold nothing any more.
LEMMA ConsoleDiesStep ==
    ASSUME ControlInv, ConsoleDies
    PROVE  ControlInv'
<1>. USE DEF ControlInv
<1>1. /\ scan' = [t \in Threads |-> Idle]
      /\ api' = [pc |-> "idle", job |-> None]
      /\ UNCHANGED <<rows, listing, worker>>
      /\ Event
  BY DEF ConsoleDies
<1>2. Idle \in Scans /\ Idle.pc = "idle" /\ Idle.todo = <<>>
  BY DEF Scans, Idle
<1>3. ScanOK' /\ ItemsOK' /\ NextOK'
  BY <1>1, <1>2 DEF ScanOK, ItemsOK, NextOK
<1>4. ApiOK'
  BY <1>1 DEF ApiOK, Requests
<1>5. TypeOK'
  <2>1. events' \in 0..MaxEvents
    BY <1>1, ConsoleAssumption DEF Event, TypeOK
  <2>. QED  BY <1>1, <1>2, <2>1 DEF TypeOK, worker
<1>6. RowsOK' /\ ListingOK'
  BY <1>1 DEF RowsOK, ListingOK, Shown, Holds, worker
<1>. QED  BY <1>3, <1>4, <1>5, <1>6

-----------------------------------------------------------------------------
(* The theorems. *)

LEMMA StepKeepsTrue == ControlInv /\ [Next]_vars => ControlInv'
<1>. SUFFICES ASSUME ControlInv, [Next]_vars
              PROVE  ControlInv'
  OBVIOUS
<1>1. ASSUME NEW t \in Threads, Scanning(t)
      PROVE  ControlInv'
  BY <1>1, ListingStep, LookStep, CheckStep, WriteStep, ScanOverStep DEF Scanning
<1>2. CASE Discovering
  BY <1>2, DiscoverBatchStep, DiscoverMaterialStep DEF Discovering
<1>3. CASE Serving
  BY <1>3, RegisterStep, CancelRecordedStep, RequestSteps DEF Serving
<1>4. CASE ConsoleDies
  BY <1>4, ConsoleDiesStep
<1>5. CASE OtherRequest \/ \E id \in Ids : Cancel(id)
  BY <1>5, RequestSteps
<1>6. ASSUME NEW j \in Jobs, Spawn(j)
      PROVE  ControlInv'
  BY <1>6, RequestSteps
<1>7. ASSUME NEW j \in Jobs, Working(j) \/ Raises(j) \/ Dies(j)
      PROVE  ControlInv'
  BY <1>7, WorkerSteps
<1>8. CASE UNCHANGED vars
  <2>1. Later /\ TypeOK' /\ console' = console
    BY <1>8 DEF vars, worker, console, Later, ControlInv, TypeOK
  <2>. QED  BY <2>1, ConsoleKeeps
<1>. QED  BY <1>1, <1>2, <1>3, <1>4, <1>5, <1>6, <1>7, <1>8 DEF Next

LEMMA AlwaysTrue == Spec => []ControlInv
<1>. QED  BY InitiallyTrue, StepKeepsTrue, PTL DEF Spec

\* The rows are rows, the listing names them, and workers, files and requests are
\* what the registry and the console's code provide for.
THEOREM TypeCorrect == Spec => []TypeOK
<1>1. ControlInv => TypeOK
  BY DEF ControlInv
<1>. QED  BY <1>1, AlwaysTrue, PTL

\* A launched job that the console shows as disconnected, cancelled or archived
\* (_refresh_row, cancel_job) has no process any more.
THEOREM SettlesOnlyTheGone == Spec => []SettledIsGone
<1>1. ControlInv => SettledIsGone
  BY DEF ControlInv, RowsOK, SettledIsGone, Shown, Holds, Ids
<1>. QED  BY <1>1, AlwaysTrue, PTL

=============================================================================
