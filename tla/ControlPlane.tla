---------------------------- MODULE ControlPlane ----------------------------
(***************************************************************************)
(* The web console's control plane: one row per job in the registry, worker *)
(* processes that leave files behind, a poller and a request handler that    *)
(* refresh the rows from what they see (web_console/service.py, registry.py, *)
(* worker_main.py).                                                          *)
(*                                                                         *)
(* The registry's lock covers one statement, so a refresh that lists the     *)
(* rows, reads the files, looks at the process and writes the row back is    *)
(* four steps, and any of them may find the world changed.  The registry is  *)
(* the Postgres one: it survives the console.                                *)
(*                                                                         *)
(* Abstracted: texts and times of a row; statuses that are treated alike     *)
(* ("skipped" and "aborted" as "failed", "needs_human" as                    *)
(* "waiting_external").                                                      *)
(***************************************************************************)
EXTENDS Naturals, FiniteSets, Sequences

CONSTANTS
    Jobs,         \* identifiers of the jobs that may be launched
    Dirs,         \* working directories; an imported row is named by its own
    Kind,         \* [Jobs -> {"single", "batch", "wiki"}]
    DirOf,        \* [Jobs -> Dirs]: the workdir a job is launched in
    BatchDir,     \* the root that a batch runs in
    ChildDir,     \* the workdir of the material a batch runs
    MaxLaunches,  \* jobs launched
    MaxEvents,    \* requests on a job, workers that raise or die, consoles that die
    None          \* what is absent: a row, a file, a status

ASSUME ConsoleAssumption ==
    /\ Jobs \cap Dirs = {}
    /\ Kind \in [Jobs -> {"single", "batch", "wiki"}]
    /\ DirOf \in [Jobs -> Dirs]
    /\ {BatchDir, ChildDir} \subseteq Dirs /\ BatchDir # ChildDir
    /\ \A j \in Jobs : Kind[j] = "batch" => DirOf[j] = BatchDir
    /\ MaxLaunches \in Nat /\ MaxEvents \in Nat

VARIABLES
    rows,         \* [Ids -> row or None]: the registry
    listing,      \* the rows' identifiers, newest first, as list_jobs sorts them
    proc,         \* [Jobs -> "none", "up" or "gone"]: the worker process
    at,           \* [Jobs -> ...]: where the worker's own code stands
    files,        \* [Dirs -> what the runtime left in the directory]
    result,       \* [Jobs -> exit code in the worker's result file, or None]
    scan,         \* [Threads -> the refresh a thread is in the middle of]
    api,          \* the request the handler is serving
    events

console == <<rows, listing, scan, api>>
worker == <<proc, at, files, result>>
vars == <<rows, listing, proc, at, files, result, scan, api, events>>

Ids == Jobs \cup Dirs
Threads == {"poller", "api"}

Terminal == {"completed", "failed"}
RunStatus == {"pending", "running", "waiting_external"} \cup Terminal
ControlStatus == {"starting", "live", "disconnected", "cancelled", "archived"}

Row == [pid : BOOLEAN, control : ControlStatus, runtime : RunStatus, stage : BOOLEAN]

ASSUME NoneAssumption ==
    None \notin Row \cup RunStatus \cup {"torn"} \cup {0, 1, 143}

\* The exit codes of a worker: a run that completed, one that did not, SIGTERM.
ExitCode == {0, 1, 143}

NoFiles == [ui |-> None, shared |-> None, outcome |-> None, summary |-> FALSE]
Files == [ui : RunStatus \cup {None}, shared : RunStatus \cup {None},
          outcome : Terminal \cup {None, "torn"}, summary : BOOLEAN]

Idle == [pc |-> "idle", todo |-> <<>>, seen |-> None, next |-> None]

TypeOK ==
    /\ rows \in [Ids -> Row \cup {None}]
    /\ listing \in Seq(Ids)
    /\ proc \in [Jobs -> {"none", "up", "gone"}]
    /\ at \in [Jobs -> {"boot", "run", "half", "report", "saved", "exit"}]
    /\ files \in [Dirs -> Files]
    /\ result \in [Jobs -> ExitCode \cup {None}]
    /\ \A t \in Threads : scan[t].pc \in {"idle", "look", "check", "write"}
    /\ api.pc \in {"idle", "spawned", "killing", "killed", "scan"}
    /\ events \in 0..MaxEvents

Init ==
    /\ rows = [i \in Ids |-> None]
    /\ listing = <<>>
    /\ proc = [j \in Jobs |-> "none"]
    /\ at = [j \in Jobs |-> "boot"]
    /\ files = [d \in Dirs |-> NoFiles]
    /\ result = [j \in Jobs |-> None]
    /\ scan = [t \in Threads |-> Idle]
    /\ api = [pc |-> "idle", job |-> None]
    /\ events = 0

\* One of the bounded events.
Event == events < MaxEvents /\ events' = events + 1

-----------------------------------------------------------------------------
(* The registry. *)

\* An upsert writes every column of the row it is given.
Upsert(id, row) ==
    /\ rows' = [rows EXCEPT ![id] = row]
    /\ listing' = IF rows[id] = None THEN <<id>> \o listing ELSE listing

Launched(kind) ==
    [pid |-> TRUE, control |-> "starting", stage |-> kind = "wiki",
     runtime |-> IF kind = "wiki" THEN "running" ELSE "pending"]

Imported(runtime) ==
    [pid |-> FALSE, control |-> "archived", runtime |-> runtime, stage |-> runtime = "completed"]

-----------------------------------------------------------------------------
(* What a refresh makes of a row.                                           *)

\* The evidence with the highest rank speaks; "control_plane" is no evidence.
SourceOf(seen) ==
    CASE seen.outcome # None -> "material_outcome"
      [] seen.outcome = None /\ seen.ui # None -> "ui_state"
      [] seen.outcome = None /\ seen.ui = None /\ seen.shared # None -> "shared_state"
      [] seen.outcome = None /\ seen.ui = None /\ seen.shared = None /\ seen.summary ->
             "batch_summary"
      [] seen.outcome = None /\ seen.ui = None /\ seen.shared = None /\ ~seen.summary
             /\ seen.result # None -> "worker_result"
      [] OTHER -> "control_plane"

\* "int(result.get('exit_code', 1) or 1)": an exit code of 0 reads as 1.
ResultStatus(code) ==
    IF (IF code = 0 THEN 1 ELSE code) # 0 THEN "failed" ELSE "completed"

RuntimeOf(row, seen, alive) ==
    LET source == SourceOf(seen) IN
    CASE source = "material_outcome" -> seen.outcome
      [] source = "ui_state" -> seen.ui
      [] source = "shared_state" -> seen.shared
      [] source = "batch_summary" -> "completed"
      [] source = "worker_result" -> ResultStatus(seen.result)
      [] source = "control_plane" ->
             IF alive /\ row.runtime = "pending" THEN "running" ELSE row.runtime

StageKnown(row, seen) ==
    row.stage \/ SourceOf(seen) \notin {"control_plane", "worker_result"}

ControlOf(row, seen, alive) ==
    IF row.control = "cancelled" THEN "cancelled"
    ELSE IF alive
         THEN IF SourceOf(seen) # "control_plane" \/ StageKnown(row, seen)
              THEN "live" ELSE "starting"
    ELSE IF RuntimeOf(row, seen, alive) \in Terminal \/ seen.summary THEN "archived"
    ELSE IF row.pid THEN "disconnected"
    ELSE row.control

Refreshed(row, seen, alive) ==
    [row EXCEPT
        !.runtime = RuntimeOf(row, seen, alive),
        !.control = ControlOf(row, seen, alive),
        !.stage = StageKnown(row, seen)]

\* What _refresh_row reads for a row: the files of its workdir, the batch summary
\* next to it, the result file of its job.
Evidence(id) ==
    LET d == IF id \in Jobs THEN DirOf[id] ELSE id
        f == files[d] IN
    [ui |-> f.ui, shared |-> f.shared, outcome |-> f.outcome, summary |-> f.summary,
     result |-> IF id \in Jobs THEN result[id] ELSE None]

Alive(id) == id \in Jobs /\ proc[id] = "up"

-----------------------------------------------------------------------------
(* reconcile_once: list the rows, then refresh and write back one by one.   *)

MayScan(t) ==
    /\ scan[t].pc = "idle"
    /\ t = "api" => api.pc = "scan"

\* Mutant: only the rows of jobs that may still change.
ListActiveRows(t) ==
    LET Active(id) == rows[id].control \notin {"disconnected", "cancelled", "archived"}
        active == SelectSeq(listing, Active) IN
    /\ MayScan(t)
    /\ scan' = [scan EXCEPT ![t] =
           [Idle EXCEPT !.pc = "look",
                        !.todo = [i \in 1..Len(active) |->
                                      [id |-> active[i], row |-> rows[active[i]]]]]]
    /\ UNCHANGED <<rows, listing, worker, api, events>>

ListRows(t) ==
    /\ MayScan(t)
    /\ scan' = [scan EXCEPT ![t] =
           [Idle EXCEPT !.pc = "look",
                        !.todo = [i \in 1..Len(listing) |->
                                      [id |-> listing[i], row |-> rows[listing[i]]]]]]
    /\ UNCHANGED <<rows, listing, worker, api, events>>

\* The handler answers its request when the scan is over.
DoneWith(t) == IF t = "api" THEN [pc |-> "idle", job |-> None] ELSE api

LookAtFiles(t) ==
    /\ scan[t].pc = "look" /\ scan[t].todo # <<>>
    /\ Evidence(Head(scan[t].todo).id).outcome # "torn"
    /\ scan' = [scan EXCEPT ![t].pc = "check",
                            ![t].seen = Evidence(Head(scan[t].todo).id)]
    /\ UNCHANGED <<rows, listing, worker, api, events>>

\* A file that is not JSON raises: the rest of the scan is given up.
ScanRaises(t) ==
    /\ scan[t].pc = "look" /\ scan[t].todo # <<>>
    /\ Evidence(Head(scan[t].todo).id).outcome = "torn"
    /\ scan' = [scan EXCEPT ![t] = Idle]
    /\ api' = DoneWith(t)
    /\ UNCHANGED <<rows, listing, worker, events>>

CheckProcess(t) ==
    /\ scan[t].pc = "check"
    /\ LET item == Head(scan[t].todo) IN
       scan' = [scan EXCEPT ![t].pc = "write", ![t].seen = None,
                            ![t].next = Refreshed(item.row, scan[t].seen, Alive(item.id))]
    /\ UNCHANGED <<rows, listing, worker, api, events>>

WriteRow(t) ==
    /\ scan[t].pc = "write"
    /\ Upsert(Head(scan[t].todo).id, scan[t].next)
    /\ scan' = [scan EXCEPT ![t].pc = "look", ![t].next = None, ![t].todo = Tail(@)]
    /\ UNCHANGED <<worker, api, events>>

ScanEnds(t) ==
    /\ scan[t].pc = "look" /\ scan[t].todo = <<>>
    /\ scan' = [scan EXCEPT ![t] = Idle]
    /\ api' = DoneWith(t)
    /\ UNCHANGED <<rows, listing, worker, events>>

-----------------------------------------------------------------------------
(* The discovery of directories no row knows, at the start of a full scan.  *)

\* The rows whose workdir is d: its own import and the jobs launched in it.
Knows(d) == \E i \in Ids : rows[i] # None /\ (i = d \/ (i \in Jobs /\ DirOf[i] = d))

DiscoverBatch(t, d) ==
    /\ MayScan(t)
    /\ files[d].summary
    /\ ~Knows(d)
    /\ Upsert(d, Imported("completed"))
    /\ UNCHANGED <<worker, scan, api, events>>

\* A child whose batch has no row gives it one first.
DiscoverMaterial(t, d) ==
    /\ MayScan(t)
    /\ files[d].shared # None \/ files[d].ui # None \/ files[d].outcome # None
    /\ files[d].outcome # "torn"
    /\ ~Knows(d)
    /\ IF d = ChildDir /\ ~Knows(BatchDir)
       THEN /\ rows' = [rows EXCEPT ![BatchDir] = Imported("running"),
                                    ![d] = Imported("pending")]
            /\ listing' = <<d, BatchDir>> \o listing
       ELSE Upsert(d, Imported("pending"))
    /\ UNCHANGED <<worker, scan, api, events>>

-----------------------------------------------------------------------------
(* Requests. *)

\* create_*_job: the process is started before its row exists.
Spawn(j) ==
    /\ api.pc = "idle"
    /\ proc[j] = "none"
    /\ Cardinality({k \in Jobs : proc[k] # "none"}) < MaxLaunches
    /\ proc' = [proc EXCEPT ![j] = "up"]
    /\ api' = [pc |-> "spawned", job |-> j]
    /\ UNCHANGED <<rows, listing, at, files, result, scan, events>>

Register ==
    /\ api.pc = "spawned"
    /\ Upsert(api.job, Launched(Kind[api.job]))
    /\ api' = [api EXCEPT !.pc = "scan"]
    /\ UNCHANGED <<worker, scan, events>>

\* submit_hitl_response: a request whose only trace here is its scan.
OtherRequest ==
    /\ api.pc = "idle" /\ listing # <<>>
    /\ Event
    /\ api' = [api EXCEPT !.pc = "scan"]
    /\ UNCHANGED <<rows, listing, worker, scan>>

Cancel(id) ==
    /\ api.pc = "idle"
    /\ rows[id] # None
    /\ Event
    /\ api' = [pc |-> IF Alive(id) THEN "killing" ELSE "killed", job |-> id]
    /\ UNCHANGED <<rows, listing, worker, scan>>

\* The group is gone before the deadline.
CancelSeen ==
    /\ api.pc = "killing" /\ ~Alive(api.job)
    /\ api' = [api EXCEPT !.pc = "killed"]
    /\ UNCHANGED <<rows, listing, worker, scan, events>>

\* Mutant: nothing stronger than SIGTERM is sent.
CancelGivesUp ==
    /\ api.pc = "killing" /\ Alive(api.job)
    /\ api' = [api EXCEPT !.pc = "killed"]
    /\ UNCHANGED <<rows, listing, worker, scan, events>>

\* Ten seconds later it is killed.
CancelKills ==
    /\ api.pc = "killing" /\ Alive(api.job)
    /\ proc' = [proc EXCEPT ![api.job] = "gone"]
    /\ api' = [api EXCEPT !.pc = "killed"]
    /\ UNCHANGED <<rows, listing, at, files, result, scan, events>>

CancelRecorded ==
    /\ api.pc = "killed"
    /\ Upsert(api.job, [rows[api.job] EXCEPT !.control = "cancelled"])
    /\ api' = [api EXCEPT !.pc = "scan"]
    /\ UNCHANGED <<worker, scan, events>>

\* The console dies and is started again; its threads begin anew.
ConsoleDies ==
    /\ Event
    /\ scan' = [t \in Threads |-> Idle]
    /\ api' = [pc |-> "idle", job |-> None]
    /\ UNCHANGED <<rows, listing, worker>>

-----------------------------------------------------------------------------
(* The workers. *)

Moves(j, from, to) ==
    /\ proc[j] = "up" /\ at[j] = from
    /\ at' = [at EXCEPT ![j] = to]
    /\ UNCHANGED <<proc, console, events>>

\* A fresh run removes the state its directory holds, but not its outcome; any
\* other goes on from it, and has nothing left to do when it was over.
Boot(j, fresh) ==
    LET d == DirOf[j]
        over == Kind[j] = "single" /\ ~fresh /\ files[d].shared \in Terminal IN
    /\ Moves(j, "boot", IF over THEN "saved" ELSE "run")
    /\ files' = IF Kind[j] = "single" /\ fresh
                THEN [files EXCEPT ![d].ui = None, ![d].shared = None] ELSE files
    /\ UNCHANGED result

\* A persist exports the state, then the console's view of it.
SaveState(j, status) ==
    /\ Kind[j] = "single"
    /\ Moves(j, "run", "half")
    /\ files' = [files EXCEPT ![DirOf[j]].shared = status]
    /\ UNCHANGED result

SaveView(j) ==
    LET status == files[DirOf[j]].shared IN
    /\ Kind[j] = "single"
    /\ Moves(j, "half", IF status = "running" THEN "run" ELSE "saved")
    /\ files' = [files EXCEPT ![DirOf[j]].ui = status]
    /\ UNCHANGED result

\* The outcome is not written atomically: it is truncated first.
OpenOutcome(j) ==
    /\ Kind[j] = "single"
    /\ files[DirOf[j]].shared # None
    /\ Moves(j, "run", "report")
    /\ files' = [files EXCEPT ![DirOf[j]].outcome = "torn"]
    /\ UNCHANGED result

CloseOutcome(j, status) ==
    /\ Moves(j, "report", "half")
    /\ files' = [files EXCEPT ![DirOf[j]].outcome = status, ![DirOf[j]].shared = status]
    /\ UNCHANGED result

RunChild(j) ==
    /\ Kind[j] = "batch"
    /\ Moves(j, "run", "half")
    /\ files' = [files EXCEPT ![ChildDir].shared = "completed", ![ChildDir].ui = "completed"]
    /\ UNCHANGED result

Summarise(j) ==
    /\ Kind[j] = "batch"
    /\ Moves(j, "half", "saved")
    /\ files' = [files EXCEPT ![DirOf[j]].summary = TRUE]
    /\ UNCHANGED result

Reindex(j) ==
    /\ Kind[j] = "wiki"
    /\ Moves(j, "run", "saved")
    /\ UNCHANGED <<files, result>>

\* What main returns and leaves in the result file.
WriteResult(j) ==
    /\ Moves(j, "saved", "exit")
    /\ result' = [result EXCEPT ![j] =
           IF Kind[j] = "single" /\ files[DirOf[j]].shared # "completed" THEN 1 ELSE 0]
    /\ UNCHANGED files

\* SIGTERM raises SystemExit wherever the worker is.
TermHandled(j) ==
    /\ api.pc = "killing" /\ api.job = j
    /\ proc[j] = "up" /\ at[j] \notin {"boot", "exit"}
    /\ at' = [at EXCEPT ![j] = "exit"]
    /\ result' = [result EXCEPT ![j] = 143]
    /\ UNCHANGED <<proc, files, console, events>>

Raises(j) ==
    /\ proc[j] = "up" /\ at[j] # "exit"
    /\ Event
    /\ at' = [at EXCEPT ![j] = "exit"]
    /\ result' = [result EXCEPT ![j] = 1]
    /\ UNCHANGED <<proc, files, console>>

Exits(j) ==
    /\ proc[j] = "up" /\ at[j] = "exit"
    /\ proc' = [proc EXCEPT ![j] = "gone"]
    /\ UNCHANGED <<at, files, result, console, events>>

Dies(j) ==
    /\ proc[j] = "up"
    /\ Event
    /\ proc' = [proc EXCEPT ![j] = "gone"]
    /\ UNCHANGED <<at, files, result, console>>

-----------------------------------------------------------------------------

Scanning(t) ==
    \/ ListRows(t) \/ LookAtFiles(t) \/ ScanRaises(t) \/ CheckProcess(t)
    \/ WriteRow(t) \/ ScanEnds(t)

Discovering == \E t \in Threads, d \in Dirs : DiscoverBatch(t, d) \/ DiscoverMaterial(t, d)

Serving == Register \/ CancelSeen \/ CancelKills \/ CancelRecorded

Working(j) ==
    \/ \E fresh \in BOOLEAN : Boot(j, fresh)
    \/ \E s \in {"running", "waiting_external"} : SaveState(j, s)
    \/ \E s \in Terminal : CloseOutcome(j, s)
    \/ SaveView(j) \/ OpenOutcome(j) \/ RunChild(j) \/ Summarise(j) \/ Reindex(j)
    \/ WriteResult(j) \/ TermHandled(j) \/ Exits(j)

Next ==
    \/ \E t \in Threads : Scanning(t)
    \/ Discovering
    \/ Serving
    \/ ConsoleDies
    \/ OtherRequest
    \/ \E id \in Ids : Cancel(id)
    \/ \E j \in Jobs : Spawn(j) \/ Working(j) \/ Raises(j) \/ Dies(j)

Spec == Init /\ [][Next]_vars

\* The poll loop goes on as long as the console runs, and a request handler is
\* not abandoned.  Workers and requests owe nothing.
FairSpec ==
    /\ Spec
    /\ \A t \in Threads : WF_vars(Scanning(t))
    /\ WF_vars(Serving)

-----------------------------------------------------------------------------
(* Properties. *)

Settled == {"disconnected", "cancelled", "archived"}

\* A launched job that the console shows as disconnected, cancelled or archived
\* has no process any more, whichever thread wrote the row last and from however
\* old a listing: the status is computed from a look at the process that comes
\* after the listing, and a process that is gone stays gone.
SettledIsGone ==
    \A j \in Jobs : rows[j] # None /\ rows[j].control \in Settled => proc[j] = "gone"

Torn == \E d \in Dirs : files[d].outcome = "torn"

TrulyShown(j) ==
    /\ rows[j] # None
    /\ rows[j].control \in Settled
    /\ rows[j].runtime = RuntimeOf(rows[j], Evidence(j), FALSE)

\* Once a worker is gone and has left no torn file, its row comes to say so and
\* to say what the worker's files say, and keeps saying it: no thread in the
\* middle of a scan puts an older picture back for good.
RowsComeTrue ==
    \A j \in Jobs : (proc[j] = "gone" /\ rows[j] # None /\ ~Torn) ~> []TrulyShown(j)
=============================================================================
