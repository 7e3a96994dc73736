--------------------------- MODULE StageTools_proofs ---------------------------
(***************************************************************************)
(* Theorems about the stages' tools: that a ladder of retries is bounded   *)
(* over every interruption, that a completed campaign is whole and what is *)
(* computed from it is of the plan in force, that the outputs of the       *)
(* stages agree, and that a completed point was computed by one call and   *)
(* keeps its row.                                                          *)
(***************************************************************************)
EXTENDS StageTools, TLAPS

\* Which stage a call is of, and in which directory, by where it is.
JobInv ==
    /\ job.at = "running" => job.stage \in SingleStages
    /\ job.at \in InPointAt \cup {"point"} => job.stage = "strain_loop"
    /\ job.at \in OnLadderAt => job.stage \in {"relax", "strain_loop"}
    /\ job.stage = "relax" => job.at \in OnLadderAt /\ job.place = Main
    /\ job.stage = "strain_loop" =>
           /\ job.at \in OnLadderAt \cup InPointAt \cup {"point"}
           /\ job.at # "point" => job.place \in Points

\* A directory has seen one program for each promotion saved in it and one more
\* at most; two while the promotion after the last program is not saved yet.
LadderInv ==
    /\ job.at \in {"relaxing", "retrying", "promoted", "relaxed"} =>
           job.retry = relaxDir[job.place].retries
    /\ job.at = "promoted" => job.retry < MaxRetries
    /\ job.at = "relaxing" =>
           relaxDir[job.place].runs <= job.retry + relaxDir[job.place].excused
    /\ \A p \in Places : LET dir == relaxDir[p] IN
           \/ dir.runs <= dir.retries + dir.excused
           \/ dir.retries = MaxRetries /\ dir.runs <= MaxRetries + 1 + dir.excused
           \/ /\ job.at \in {"retrying", "promoted", "relaxed"} /\ job.place = p
              /\ dir.runs <= dir.retries + 1 + dir.excused

\* The campaign that is done is whole, and the fit that is done is of its plan.
CampaignInv ==
    /\ "strain_loop" \in st.done => WholeCampaign(st.rows, st.plan)
    /\ "mobility" \in st.done => Planned(st.plan) \subseteq files.status

\* Without reuse a stage runs, and is done, only on a structure that converged.
OutputsInv ==
    ~env.reuse =>
        /\ "relax" \in st.done => st.made > 0
        /\ \A s \in SingleStages \cap st.done : "relax" \in st.done /\ st.of[s] = st.made
        /\ job.at = "running" => "relax" \in st.done
        /\ job.stage = "relax" /\ job.at = "relaxed" => relaxDir[Main].contcar > 0

Done(rows, p) == rows[p].is = "done"

\* A completed point's energies, as long as they are there, and its bands are
\* those of its row.
Recorded(rows) ==
    \A p \in Points : Done(rows, p) /\ pointDir[p].energies # Missing =>
        rows[p].scf = pointDir[p].energies /\ rows[p].band = pointDir[p].eigenval

\* What before keeps of a completed point, after has too.
Kept(before, after) ==
    \A p \in Points : Done(before, p) =>
        /\ Done(after, p)
        /\ after[p].scf = before[p].scf /\ after[p].band = before[p].band
        /\ used.fresh = 0 => after[p] = before[p]

\* Before a fresh start nothing is recovered: the energies of a completed point
\* are pruned, and no other is listed as completed in the file.
Measured(rows) ==
    \A p \in Points : Done(rows, p) =>
        pointDir[p].energies = Missing /\ rows[p].scf = rows[p].band

RowsInv ==
    /\ Recorded(st.rows)
    /\ job.stage = "strain_loop" => Recorded(job.rows) /\ Kept(st.rows, job.rows)
    /\ job.stage = "strain_loop" /\ job.at # "point" => ~Done(job.rows, job.place)
    /\ used.fresh = 0 =>
           /\ Measured(st.rows)
           /\ job.stage = "strain_loop" => Measured(job.rows)
           /\ \A p \in files.status : Done(st.rows, p)
           /\ job.at \in {"band", "edges"} => pointDir[job.place].energies = used.calls
           /\ job.at = "edges" => pointDir[job.place].eigenval = used.calls

-----------------------------------------------------------------------------
(* The order of the stages.                                                *)

LEMMA PositionsAre ==
    /\ Position("relax") = 2 /\ Position("scf") = 3 /\ Position("band") = 4
    /\ Position("effective_mass") = 5 /\ Position("strain_loop") = 6 /\ Position("mobility") = 8
  BY DEF Position, StageOrder

\* What is still done when a stage is called again.
LEMMA DoneBefore ==
    ASSUME NEW done \in SUBSET Stages, NEW s \in Stages
    PROVE  /\ StillCompleted(done, s) \subseteq done
           /\ s \notin StillCompleted(done, s)
           /\ Earlier(s) \subseteq done => Earlier(s) \subseteq StillCompleted(done, s)
           /\ "relax" \in done /\ s # "relax" => "relax" \in StillCompleted(done, s)
           /\ s = "relax" => StillCompleted(done, s) = {}
           /\ s = "strain_loop" => "mobility" \notin StillCompleted(done, s)
           /\ s # "relax" => "relax" \in Earlier(s)
           /\ s = "mobility" => "strain_loop" \in Earlier(s)
  <1>1. s \in From(s) /\ From(s) \cap Earlier(s) = {}
    BY PositionsAre DEF From, Earlier, Stages, SingleStages
  <1>2. s = "relax" => From(s) = Stages
    BY PositionsAre DEF From, Stages, SingleStages
  <1>3. s # "relax" => "relax" \in Earlier(s)
    BY PositionsAre DEF Earlier, Stages, SingleStages
  <1>4. s = "mobility" => "strain_loop" \in Earlier(s)
    BY PositionsAre DEF Earlier, Stages, SingleStages
  <1>5. s = "strain_loop" => "mobility" \in From(s)
    BY PositionsAre DEF From, Stages, SingleStages
  <1> QED
    BY <1>1, <1>2, <1>3, <1>4, <1>5 DEF StillCompleted

-----------------------------------------------------------------------------
(* Types.                                                                  *)

LEMMA IdleType == Idle \in Jobs
  <1>1. NoRow \in Rows
    BY DEF NoRow, Rows
  <1> QED
    BY <1>1 DEF Idle, Jobs, Places, Missing

LEMMA RowTypes ==
    /\ NoRow \in Rows /\ FailedRow \in Rows
    /\ \A a, b, c \in Nat : DoneRow(a, b, c) \in Rows
  BY DEF NoRow, FailedRow, DoneRow, Rows

LEMMA InitType == Init => TypeOK
  <1> SUFFICES ASSUME Init PROVE TypeOK
    OBVIOUS
  <1>1. EmptyRelaxDir \in RelaxDirs /\ EmptyPointDir \in PointDirs
    BY BoundsAreNatural DEF EmptyRelaxDir, EmptyPointDir, RelaxDirs, PointDirs, Missing
  <1>2. FreshState \in States
    BY RowTypes, ZeroIsSampled DEF FreshState, States, Missing
  <1>3. NoFiles \in [scf : Int, band : Int, effective_mass : Int, status : SUBSET Points]
    BY DEF NoFiles, Missing
  <1> QED
    BY <1>1, <1>2, <1>3, IdleType, ModesAreBoolean DEF Init, TypeOK

LEMMA OutputsType ==
    ASSUME TypeOK, NEW s \in Stages, NEW made \in Int, NEW rows \in [Points -> Rows]
    PROVE  Outputs(s, made, rows) \in States
  BY DEF TypeOK, States, Outputs

LEMMA ReturnsType ==
    ASSUME TypeOK, NEW s \in Stages, NEW made \in Int, NEW rows \in [Points -> Rows],
           Succeeds(s, made, rows) \/ Fails(s, rows)
    PROVE  st' \in States /\ job' = Idle
  <1>1. Outputs(s, made, rows) \in States /\ Outputs(s, Missing, rows) \in States
    BY OutputsType DEF Missing
  <1>2. \A state \in States : /\ [state EXCEPT !.done = StillCompleted(@, s) \cup {s}] \in States
                              /\ [state EXCEPT !.done = StillCompleted(@, s)] \in States
    BY DEF States, StillCompleted
  <1> HIDE DEF States
  <1> QED
    BY <1>1, <1>2 DEF Succeeds, Fails

LEMMA BegunType ==
    ASSUME TypeOK, NEW s \in Stages
    PROVE  Begun(s) \in States
  BY DEF TypeOK, States, Begun, StillCompleted

LEMMA OnLadderType ==
    ASSUME TypeOK, NEW j \in Jobs, NEW p \in Places
    PROVE  OnLadder(j, p) \in Jobs
  <1>1. relaxDir[p].retries \in Nat
    BY BoundsAreNatural DEF TypeOK, RelaxDirs
  <1> QED
    BY <1>1 DEF OnLadder, Jobs, OnLadderAt

LEMMA CampaignType ==
    ASSUME TypeOK, NEW plan \in [Directions -> SUBSET Strains]
    PROVE  Campaign(plan) \in Jobs
  <1>1. \A d \in Directions : <<d, 0>> \in Points
    BY ZeroIsSampled DEF Points
  <1>2. \A p \in Points : p[1] \in Directions
    BY DEF Points
  <1>3. \A p \in Points : pointDir[p].energies \in Nat /\ pointDir[p].eigenval \in Nat
    BY DEF TypeOK, PointDirs
  <1>4. ExistingRows \in [Points -> Rows]
    BY <1>1, <1>2, <1>3, RowTypes DEF ExistingRows, ZeroOf, TypeOK, States
  <1>5. [d \in Directions |-> pointDir[<<d, 0>>].eigenval] \in [Directions -> Nat]
    BY <1>1, <1>3
  <1>6. Planned(plan) \subseteq Points
    BY DEF Planned
  <1> QED
    BY <1>4, <1>5, <1>6, IdleType DEF Campaign, Jobs, Stages

-----------------------------------------------------------------------------
(* The ladder.                                                             *)

ToolInv == TypeOK /\ JobInv /\ LadderInv

OtherTypes ==
    /\ pointDir \in [Points -> PointDirs]
    /\ files \in [scf : Int, band : Int, effective_mass : Int, status : SUBSET Points]
    /\ st \in States /\ job \in Jobs
    /\ env \in [reuse : BOOLEAN, retry : BOOLEAN]
    /\ used \in [calls : Nat, faults : Nat, fresh : Nat, made : Nat]

\* What a step does to one directory, in the terms of the ladder.
LEMMA DirChanges ==
    ASSUME ToolInv, NEW p \in Places, NEW dir \in RelaxDirs,
           relaxDir' = [relaxDir EXCEPT ![p] = dir],
           OtherTypes', JobInv',
           job.place # p => job.at \notin {"retrying", "promoted", "relaxed"},
           job'.at \in {"relaxing", "retrying", "promoted", "relaxed"} =>
               job'.place = p /\ job'.retry = dir.retries,
           job'.at = "promoted" => job'.retry < MaxRetries,
           job'.at = "relaxing" => dir.runs <= job'.retry + dir.excused,
           \/ dir.runs <= dir.retries + dir.excused
           \/ dir.retries = MaxRetries /\ dir.runs <= MaxRetries + 1 + dir.excused
           \/ /\ job'.at \in {"retrying", "promoted", "relaxed"}
              /\ dir.runs <= dir.retries + 1 + dir.excused
    PROVE  ToolInv'
  <1>1. /\ relaxDir' \in [Places -> RelaxDirs] /\ relaxDir'[p] = dir
        /\ \A q \in Places : q # p => relaxDir'[q] = relaxDir[q]
    BY DEF ToolInv, TypeOK
  <1>2. TypeOK'
    BY <1>1 DEF TypeOK, OtherTypes
  <1>3. LadderInv'
    BY <1>1 DEF ToolInv, LadderInv
  <1> QED
    BY <1>2, <1>3 DEF ToolInv

LEMMA RungTypes ==
    ASSUME TypeOK
    PROVE  /\ job.place \in Places /\ relaxDir[job.place] \in RelaxDirs
           /\ job.retry \in Nat /\ MaxRetries \in Nat
  BY BoundsAreNatural DEF TypeOK, Jobs

\* What a program adds to the tallies of a directory.
Tallied(dir, n) == [dir EXCEPT !.contcar = n, !.runs = @ + 1]
Excused(dir) == [dir EXCEPT !.excused = @ + 1]

LEMMA DirTypes ==
    ASSUME NEW dir \in RelaxDirs
    PROVE  /\ dir.runs \in Nat /\ dir.excused \in Nat /\ dir.retries \in 0 .. MaxRetries
           /\ dir.contcar \in Int
  BY DEF RelaxDirs

LEMMA ExcusedTypes ==
    ASSUME NEW dir \in RelaxDirs
    PROVE  /\ Excused(dir) \in RelaxDirs
           /\ Excused(dir).runs = dir.runs /\ Excused(dir).retries = dir.retries
           /\ Excused(dir).excused = dir.excused + 1 /\ Excused(dir).contcar = dir.contcar
  BY DEF RelaxDirs, Excused

LEMMA TalliedTypes ==
    ASSUME NEW dir \in RelaxDirs, NEW n \in Int
    PROVE  /\ Tallied(dir, n) \in RelaxDirs
           /\ Tallied(dir, n).runs = dir.runs + 1 /\ Tallied(dir, n).retries = dir.retries
           /\ Tallied(dir, n).excused = dir.excused /\ Tallied(dir, n).contcar = n
  <1>1. [dir EXCEPT !.contcar = n] \in RelaxDirs
    BY DEF RelaxDirs
  <1>2. \A old \in RelaxDirs : [old EXCEPT !.runs = @ + 1] \in RelaxDirs
    BY DEF RelaxDirs
  <1>3. Tallied(dir, n) = [[dir EXCEPT !.contcar = n] EXCEPT !.runs = @ + 1]
    BY DEF Tallied, RelaxDirs
  <1>4. /\ Tallied(dir, n).runs = dir.runs + 1 /\ Tallied(dir, n).retries = dir.retries
        /\ Tallied(dir, n).excused = dir.excused /\ Tallied(dir, n).contcar = n
    BY DEF RelaxDirs, Tallied
  <1> QED
    BY <1>1, <1>2, <1>3, <1>4

\* One program more than the promotions, and one excused, is none more.
LEMMA ProgramCounted ==
    ASSUME NEW old \in RelaxDirs, NEW n \in Int, old.runs <= old.retries + old.excused
    PROVE  LET dir == Tallied(old, n)
           IN  /\ dir \in RelaxDirs /\ dir.retries = old.retries
               /\ dir.runs <= dir.retries + 1 + dir.excused
               /\ Excused(dir) \in RelaxDirs
               /\ Excused(dir).runs <= Excused(dir).retries + Excused(dir).excused
  <1> DEFINE dir == Tallied(old, n)
  <1>1. old.runs \in Nat /\ old.excused \in Nat /\ old.retries \in Int
    BY DirTypes
  <1>2. /\ dir \in RelaxDirs /\ dir.runs = old.runs + 1 /\ dir.retries = old.retries
        /\ dir.excused = old.excused
    BY TalliedTypes
  <1> HIDE DEF dir
  <1>3. /\ Excused(dir) \in RelaxDirs /\ Excused(dir).runs = dir.runs
        /\ Excused(dir).retries = dir.retries /\ Excused(dir).excused = dir.excused + 1
    BY <1>2, ExcusedTypes
  <1>4. dir.runs <= dir.retries + 1 + dir.excused
    BY <1>1, <1>2
  <1>5. Excused(dir).runs <= Excused(dir).retries + Excused(dir).excused
    BY <1>1, <1>2, <1>3
  <1> QED
    BY <1>2, <1>3, <1>4, <1>5 DEF dir

LEMMA RelaxConvergesKeeps ==
    ASSUME ToolInv, RelaxConverges
    PROVE  ToolInv'
  <1> DEFINE p == job.place
             made == IF p = Main THEN used.made + 1 ELSE st.made
             dir == Tallied(relaxDir[p], made)
  <1>1. made \in Int /\ relaxDir[p] \in RelaxDirs
    BY RungTypes DEF ToolInv, TypeOK, States
  <1>2. relaxDir' = [relaxDir EXCEPT ![p] = dir]
    BY <1>1, RungTypes DEF ToolInv, TypeOK, RelaxConverges, RelaxDirs, Tallied
  <1>3. job' = [job EXCEPT !.at = "relaxed"] /\ job' \in Jobs
    BY DEF ToolInv, TypeOK, RelaxConverges, Jobs, OnLadderAt
  <1>4. used' \in [calls : Nat, faults : Nat, fresh : Nat, made : Nat]
    BY DEF ToolInv, TypeOK, RelaxConverges
  <1>5. JobInv'
    BY <1>3 DEF ToolInv, TypeOK, Jobs, JobInv, RelaxConverges, OnLadderAt, InPointAt
  <1>6. job'.at = "relaxed" /\ job'.place = p /\ job'.retry = job.retry
    BY <1>3 DEF ToolInv, TypeOK, Jobs
  <1>7. /\ job.retry = relaxDir[p].retries /\ dir.retries = relaxDir[p].retries
        /\ dir.runs <= dir.retries + 1 + dir.excused
    <2>1. /\ job.retry = relaxDir[p].retries
          /\ relaxDir[p].runs <= relaxDir[p].retries + relaxDir[p].excused
      BY DEF RelaxConverges, ToolInv, LadderInv
    <2> QED
      BY <1>1, <2>1, ProgramCounted
  <1>8. dir \in RelaxDirs /\ p \in Places
    BY <1>1, TalliedTypes, RungTypes DEF ToolInv
  <1>9. OtherTypes' /\ job.place = p
    BY <1>3, <1>4 DEF RelaxConverges, ToolInv, TypeOK, OtherTypes
  <1> HIDE DEF dir, p
  <1> QED
    BY <1>2, <1>3, <1>4, <1>5, <1>6, <1>7, <1>8, <1>9, DirChanges

\* A failed program.
LEMMA RelaxFailsKeeps ==
    ASSUME ToolInv, RelaxGivenUp \/ RelaxFails
    PROVE  ToolInv'
  <1> DEFINE p == job.place
             lost == RelaxGivenUp
  <1>1. PICK n \in Leftover(relaxDir[p].contcar) :
            \/ /\ RelaxGivenUp /\ job' = [job EXCEPT !.at = "lost"]
               /\ relaxDir' = [relaxDir EXCEPT ![p].contcar = n, ![p].runs = @ + 1,
                                               ![p].excused = @ + 1]
            \/ /\ RelaxFails /\ job' = [job EXCEPT !.at = "retrying"]
               /\ relaxDir' = [relaxDir EXCEPT ![p].contcar = n, ![p].runs = @ + 1]
    BY DEF RelaxGivenUp, RelaxFails
  <1>2. n \in Int
    BY RungTypes DEF Leftover, Unfinished, RelaxDirs, ToolInv
  <1>3. job.at = "relaxing" /\ UNCHANGED <<pointDir, files, st, env>> /\ Fault
    BY DEF RelaxGivenUp, RelaxFails
  <1>4. used' \in [calls : Nat, faults : Nat, fresh : Nat, made : Nat]
    BY <1>3 DEF ToolInv, TypeOK, Fault
  <1>5. job' \in Jobs /\ job'.place = p /\ job'.retry = job.retry
    BY <1>1 DEF ToolInv, TypeOK, Jobs, OnLadderAt
  <1>6. OtherTypes' /\ JobInv'
    <2>1. JobInv'
      BY <1>1, <1>3 DEF ToolInv, TypeOK, Jobs, JobInv, OnLadderAt, InPointAt
    <2> QED
      BY <1>3, <1>4, <1>5, <2>1 DEF ToolInv, TypeOK, OtherTypes
  <1>7. job.retry = relaxDir[p].retries /\ relaxDir[p].runs <= job.retry + relaxDir[p].excused
    BY <1>3 DEF ToolInv, LadderInv
  <1>8. CASE job'.at = "lost"
    <2> DEFINE dir == Excused(Tallied(relaxDir[p], n))
    <2>1. relaxDir' = [relaxDir EXCEPT ![p] = dir]
      BY <1>1, <1>8, RungTypes DEF ToolInv, TypeOK, RelaxDirs, Jobs, Tallied, Excused
    <2>2. dir \in RelaxDirs /\ dir.runs <= dir.retries + dir.excused
      BY <1>2, <1>7, RungTypes, ProgramCounted DEF ToolInv
    <2> HIDE DEF dir
    <2> QED
      BY <1>3, <1>4, <1>5, <1>6, <1>8, <2>1, <2>2, RungTypes, DirChanges DEF ToolInv
  <1>9. CASE job'.at = "retrying"
    <2> DEFINE dir == Tallied(relaxDir[p], n)
    <2>1. relaxDir' = [relaxDir EXCEPT ![p] = dir]
      BY <1>1, <1>9, RungTypes DEF ToolInv, TypeOK, RelaxDirs, Jobs, Tallied, Excused
    <2>2. /\ dir \in RelaxDirs /\ dir.runs <= dir.retries + 1 + dir.excused
          /\ dir.retries = relaxDir[p].retries
      BY <1>2, <1>7, RungTypes, ProgramCounted DEF ToolInv
    <2> HIDE DEF dir
    <2> QED
      BY <1>3, <1>4, <1>5, <1>6, <1>7, <1>9, <2>1, <2>2, RungTypes, DirChanges DEF ToolInv
  <1> QED
    BY <1>1, <1>8, <1>9 DEF ToolInv, TypeOK, Jobs

LEMMA PrunedTypes ==
    ASSUME TypeOK, NEW p \in Places
    PROVE  LET dir == [relaxDir[p] EXCEPT !.retries = 0, !.runs = 0, !.excused = 0]
           IN  /\ dir \in RelaxDirs /\ dir.runs <= dir.retries + dir.excused
               /\ PrunedRelaxDir(p) = [relaxDir EXCEPT ![p] = dir]
  <1> DEFINE dir == [relaxDir[p] EXCEPT !.retries = 0, !.runs = 0, !.excused = 0]
  <1>1. relaxDir[p] \in RelaxDirs /\ relaxDir \in [Places -> RelaxDirs]
    BY DEF TypeOK
  <1>2. dir.runs = 0 /\ dir.retries = 0 /\ dir.excused = 0
    BY <1>1 DEF RelaxDirs
  <1>3. dir \in RelaxDirs
    <2>1. \A old \in RelaxDirs : [old EXCEPT !.retries = 0] \in RelaxDirs
      BY BoundsAreNatural DEF RelaxDirs
    <2>2. \A old \in RelaxDirs : [old EXCEPT !.runs = 0] \in RelaxDirs
      BY DEF RelaxDirs
    <2>3. \A old \in RelaxDirs : [old EXCEPT !.excused = 0] \in RelaxDirs
      BY DEF RelaxDirs
    <2>4. dir = [[[relaxDir[p] EXCEPT !.retries = 0] EXCEPT !.runs = 0] EXCEPT !.excused = 0]
      BY <1>1 DEF RelaxDirs
    <2> QED
      BY <1>1, <2>1, <2>2, <2>3, <2>4
  <1>4. PrunedRelaxDir(p) = [relaxDir EXCEPT ![p] = dir]
    BY <1>1 DEF PrunedRelaxDir, RelaxDirs
  <1> QED
    BY <1>2, <1>3, <1>4

\* The checkpoint is saved.
LEMMA SavedTypes ==
    ASSUME NEW dir \in RelaxDirs, NEW n \in 0 .. MaxRetries
    PROVE  LET saved == [dir EXCEPT !.retries = n]
           IN  /\ saved \in RelaxDirs /\ saved.retries = n
               /\ saved.runs = dir.runs /\ saved.excused = dir.excused
  BY DEF RelaxDirs

\* A relaxation that is not tried again.
LEMMA LadderEndKeeps ==
    ASSUME ToolInv, RetriesExhausted \/ NothingToPromote
    PROVE  ToolInv'
  <1> DEFINE p == job.place
  <1>1. job.at = "retrying" /\ job' = [job EXCEPT !.at = "lost"]
        /\ UNCHANGED <<pointDir, files, st, env, used>>
    BY DEF RetriesExhausted, NothingToPromote
  <1>2. /\ p \in Places /\ relaxDir[p] \in RelaxDirs /\ MaxRetries \in Nat
        /\ job.retry = relaxDir[p].retries /\ job.retry \in Nat
    BY <1>1, RungTypes DEF ToolInv, LadderInv
  <1>3. relaxDir[p].runs \in Nat /\ relaxDir[p].excused \in Nat /\ relaxDir[p].retries \in 0 .. MaxRetries
    BY <1>2, DirTypes
  <1>4. relaxDir[p].runs <= relaxDir[p].retries + 1 + relaxDir[p].excused
    BY <1>2, <1>3 DEF ToolInv, LadderInv
  <1>5. OtherTypes' /\ job'.at = "lost"
    BY <1>1 DEF ToolInv, TypeOK, OtherTypes, Jobs, OnLadderAt
  <1>6. JobInv'
    BY <1>1 DEF ToolInv, TypeOK, Jobs, JobInv, OnLadderAt, InPointAt
  <1>7. CASE RetriesExhausted
    <2> DEFINE dir == [relaxDir[p] EXCEPT !.retries = MaxRetries]
    <2>1. relaxDir[p].retries = MaxRetries
      BY <1>2, <1>3, <1>7 DEF RetriesExhausted, NextRetry
    <2>2. /\ dir \in RelaxDirs /\ dir.retries = MaxRetries
          /\ dir.runs = relaxDir[p].runs /\ dir.excused = relaxDir[p].excused
      BY <1>2, SavedTypes
    <2>3. relaxDir' = [relaxDir EXCEPT ![p] = dir]
      BY <1>2, <1>7 DEF RetriesExhausted, SavedCount, ToolInv, TypeOK, RelaxDirs
    <2> HIDE DEF dir
    <2> QED
      BY <1>1, <1>2, <1>3, <1>4, <1>5, <1>6, <2>1, <2>2, <2>3, DirChanges
  <1>8. CASE NothingToPromote
    <2> DEFINE dir == Excused(relaxDir[p])
    <2>1. /\ dir \in RelaxDirs /\ dir.retries = relaxDir[p].retries
          /\ dir.runs = relaxDir[p].runs /\ dir.excused = relaxDir[p].excused + 1
      BY <1>2, ExcusedTypes
    <2>2. relaxDir' = [relaxDir EXCEPT ![p] = dir]
      BY <1>2, <1>8 DEF NothingToPromote, Excused, ToolInv, TypeOK, RelaxDirs
    <2>3. dir.runs <= dir.retries + dir.excused
      BY <1>3, <1>4, <2>1
    <2> HIDE DEF dir
    <2> QED
      BY <1>1, <1>2, <1>5, <1>6, <2>1, <2>2, <2>3, DirChanges
  <1> QED
    BY <1>7, <1>8

LEMMA PromoteKeeps ==
    ASSUME ToolInv, PromoteContcar
    PROVE  ToolInv'
  <1>1. /\ job.at = "retrying" /\ job' = [job EXCEPT !.at = "promoted"]
        /\ UNCHANGED <<relaxDir, pointDir, files, st, env, used>>
        /\ job.retry + 1 <= MaxRetries
    BY DEF PromoteContcar, NextRetry
  <1>2. /\ job' \in Jobs /\ job'.at = "promoted" /\ job'.place = job.place
        /\ job'.retry = job.retry
    BY <1>1 DEF ToolInv, TypeOK, Jobs, OnLadderAt
  <1>3. JobInv'
    BY <1>1 DEF ToolInv, TypeOK, Jobs, JobInv, OnLadderAt, InPointAt
  <1>4. TypeOK'
    BY <1>1, <1>2 DEF ToolInv, TypeOK
  <1>5. LadderInv'
    BY <1>1, <1>2, RungTypes DEF ToolInv, LadderInv
  <1> QED
    BY <1>3, <1>4, <1>5 DEF ToolInv

LEMMA SaveCheckpointKeeps ==
    ASSUME ToolInv, SaveCheckpoint
    PROVE  ToolInv'
  <1> DEFINE p == job.place
             dir == [relaxDir[p] EXCEPT !.retries = job.retry + 1]
  <1>1. /\ job.at = "promoted" /\ job' = [job EXCEPT !.at = "relaxing", !.retry = job.retry + 1]
        /\ relaxDir' = [relaxDir EXCEPT ![p].retries = job.retry + 1]
        /\ UNCHANGED <<pointDir, files, st, env, used>>
    BY DEF SaveCheckpoint, SavedCount, NextRetry
  <1>2. /\ p \in Places /\ relaxDir[p] \in RelaxDirs /\ MaxRetries \in Nat
        /\ job.retry = relaxDir[p].retries /\ job.retry \in Nat /\ job.retry < MaxRetries
    BY <1>1, RungTypes DEF ToolInv, LadderInv
  <1>3. relaxDir[p].runs \in Nat /\ relaxDir[p].excused \in Nat
    BY <1>2, DirTypes
  <1>4. relaxDir[p].runs <= relaxDir[p].retries + 1 + relaxDir[p].excused
    BY <1>2, <1>3 DEF ToolInv, LadderInv
  <1>5. /\ OtherTypes' /\ job'.at = "relaxing" /\ job'.place = p /\ job'.retry = job.retry + 1
    <2>1. job \in Jobs /\ job.retry + 1 \in Nat
      BY <1>2 DEF ToolInv, TypeOK
    <2>2. job'.at = "relaxing" /\ job'.place = p /\ job'.retry = job.retry + 1
      BY <1>1, <2>1 DEF Jobs
    <2>3. job' \in Jobs
      BY <1>1, <2>1 DEF Jobs, OnLadderAt
    <2> QED
      BY <1>1, <2>2, <2>3 DEF ToolInv, TypeOK, OtherTypes
  <1>6. JobInv'
    BY <1>1 DEF ToolInv, TypeOK, Jobs, JobInv, OnLadderAt, InPointAt
  <1>7. /\ dir \in RelaxDirs /\ dir.retries = job.retry + 1
        /\ dir.runs = relaxDir[p].runs /\ dir.excused = relaxDir[p].excused
    BY <1>2, SavedTypes
  <1>8. relaxDir' = [relaxDir EXCEPT ![p] = dir]
    BY <1>1, <1>2 DEF ToolInv, TypeOK, RelaxDirs
  <1>9. dir.runs <= dir.retries + dir.excused
    BY <1>2, <1>3, <1>4, <1>7
  <1>10. dir.runs <= job'.retry + dir.excused /\ job'.retry = dir.retries
    BY <1>5, <1>7, <1>9
  <1> HIDE DEF dir
  <1> QED
    BY <1>2, <1>5, <1>6, <1>7, <1>8, <1>9, <1>10, DirChanges

\* A step on no rung.
LEMMA OffLadder ==
    ASSUME ToolInv, relaxDir' = relaxDir, OtherTypes', JobInv',
           job.at \notin {"retrying", "promoted", "relaxed"},
           job'.at \notin {"relaxing", "retrying", "promoted", "relaxed"}
    PROVE  ToolInv'
  BY DEF ToolInv, TypeOK, OtherTypes, LadderInv

\* A step onto the ladder.
LEMMA EntersLadder ==
    ASSUME ToolInv, NEW j \in Jobs, NEW p \in Places, job' = OnLadder(j, p),
           relaxDir' = relaxDir, OtherTypes', JobInv',
           job.at \notin {"retrying", "promoted", "relaxed"}
    PROVE  ToolInv'
  <1>1. /\ job'.place = p /\ job'.retry = relaxDir[p].retries
        /\ \/ job'.at = "refused"
           \/ job'.at = "relaxing" /\ ~(relaxDir[p].retries >= MaxRetries)
    BY DEF OnLadder, Jobs
  <1>2. relaxDir[p] \in RelaxDirs /\ MaxRetries \in Nat
    BY BoundsAreNatural DEF ToolInv, TypeOK
  <1>3. relaxDir[p].retries \in 0 .. MaxRetries
    BY <1>2, DirTypes
  <1>4. CASE job'.at = "refused"
    BY <1>4, OffLadder
  <1>5. CASE job'.at = "relaxing"
    <2>1. relaxDir[p].runs <= relaxDir[p].retries + relaxDir[p].excused
      BY <1>1, <1>2, <1>3, <1>5 DEF ToolInv, LadderInv
    <2>2. LadderInv'
      BY <1>1, <1>5, <2>1 DEF ToolInv, LadderInv
    <2> QED
      BY <2>2 DEF ToolInv, TypeOK, OtherTypes
  <1> QED
    BY <1>1, <1>4, <1>5

LEMMA CallsType ==
    ASSUME ToolInv, Calls
    PROVE  used' \in [calls : Nat, faults : Nat, fresh : Nat, made : Nat]
  BY DEF Calls, ToolInv, TypeOK

LEMMA FaultType ==
    ASSUME ToolInv, Fault
    PROVE  used' \in [calls : Nat, faults : Nat, fresh : Nat, made : Nat]
  BY DEF Fault, ToolInv, TypeOK

LEMMA IdleFollows ==
    ASSUME job' = Idle
    PROVE  job' \in Jobs /\ JobInv' /\ job'.at = "idle"
  BY IdleType DEF JobInv, Idle, OnLadderAt, InPointAt, SingleStages

\* The file of a stage of the single structure.
LEMMA FilesType ==
    ASSUME TypeOK, NEW s \in SingleStages, NEW n \in Int
    PROVE  /\ files[s] \in Int
           /\ [files EXCEPT ![s] = n] \in
                  [scf : Int, band : Int, effective_mass : Int, status : SUBSET Points]
  <1>1. s \in {"scf", "band", "effective_mass"}
    BY DEF SingleStages
  <1>2. CASE s = "scf"
    BY <1>2 DEF TypeOK
  <1>3. CASE s = "band"
    BY <1>3 DEF TypeOK
  <1>4. CASE s = "effective_mass"
    BY <1>4 DEF TypeOK
  <1> QED
    BY <1>1, <1>2, <1>3, <1>4

-----------------------------------------------------------------------------
(* The single structure's stages.                                          *)

LEMMA ReusedKeeps ==
    ASSUME ToolInv, NEW s \in Stages, Reused(s)
    PROVE  ToolInv'
  <1>1. StageFile(s) \in Int
    BY FilesType DEF Reused, StageFile, ToolInv, TypeOK, RelaxDirs, Places, SingleStages
  <1>2. st.rows \in [Points -> Rows]
    BY DEF ToolInv, TypeOK, States
  <1>3. st' \in States /\ job' = Idle
    BY <1>1, <1>2, ReturnsType DEF Reused, ToolInv
  <1>4. OtherTypes' /\ JobInv' /\ job'.at = "idle"
    BY <1>3, IdleFollows, CallsType DEF Reused, ToolInv, TypeOK, OtherTypes
  <1> QED
    BY <1>4, OffLadder DEF Reused, Callable

LEMMA StartRelaxKeeps ==
    ASSUME ToolInv, StartRelax
    PROVE  ToolInv'
  <1> DEFINE j == [Idle EXCEPT !.stage = "relax"]
  <1>1. j \in Jobs /\ Main \in Places
    BY IdleType DEF Jobs, Stages, Places
  <1>2. job' = OnLadder(j, Main) /\ job' \in Jobs
    BY <1>1, OnLadderType DEF StartRelax, ToolInv
  <1>3. /\ job'.stage = "relax" /\ job'.place = Main /\ job'.at \in OnLadderAt
        /\ job'.at \notin InPointAt \cup {"running", "point"}
    BY <1>1, <1>2 DEF OnLadder, Idle, OnLadderAt, InPointAt
  <1>4. JobInv'
    BY <1>3 DEF JobInv
  <1>5. st' \in States
    BY BegunType DEF StartRelax, ToolInv, Stages
  <1>6. OtherTypes'
    BY <1>2, <1>5, CallsType DEF StartRelax, ToolInv, TypeOK, OtherTypes
  <1> HIDE DEF j
  <1> QED
    BY <1>1, <1>2, <1>4, <1>6, EntersLadder DEF StartRelax, Callable

LEMMA RelaxReturnsKeeps ==
    ASSUME ToolInv, RelaxReturns
    PROVE  ToolInv'
  <1>1. st.rows \in [Points -> Rows] /\ relaxDir[Main].contcar \in Int /\ Main \in Places
    BY DEF ToolInv, TypeOK, States, RelaxDirs, Places
  <1>2. st' \in States /\ job' = Idle
    BY <1>1, ReturnsType DEF RelaxReturns, ToolInv, Stages
  <1>3. OtherTypes' /\ JobInv' /\ job'.at = "idle"
    BY <1>2, IdleFollows DEF RelaxReturns, ToolInv, TypeOK, OtherTypes
  <1>4. CASE job.at = "relaxed"
    <2>1. relaxDir' = PrunedRelaxDir(Main) /\ job.place = Main
      BY <1>4 DEF RelaxReturns, ToolInv, JobInv
    <2> QED
      BY <1>1, <1>3, <2>1, PrunedTypes, DirChanges DEF ToolInv
  <1>5. CASE job.at \in {"lost", "refused"}
    BY <1>3, <1>5, OffLadder DEF RelaxReturns
  <1> QED
    BY <1>4, <1>5 DEF RelaxReturns

LEMMA StartRunsKeeps ==
    ASSUME ToolInv, NEW s \in Stages, StartRuns(s)
    PROVE  ToolInv'
  <1>1. s \in SingleStages /\ st' \in States
    BY BegunType DEF StartRuns, ToolInv
  <1>2. files' \in [scf : Int, band : Int, effective_mass : Int, status : SUBSET Points]
    <2>1. 0 \in Int
      OBVIOUS
    <2>2. files[s] \in Int
      BY <1>1, <2>1, FilesType, Zenon DEF ToolInv
    <2>3. PICK n \in Int : files' = [files EXCEPT ![s] = n]
      BY <1>1, <2>1, <2>2 DEF StartRuns, Missing
    <2> QED
      BY <1>1, <2>3, FilesType, Zenon DEF ToolInv
  <1>3. job' \in Jobs
    BY IdleType DEF StartRuns, Jobs
  <1>4. job'.at = "running" /\ job'.stage = s
    BY DEF StartRuns, Idle
  <1>5. JobInv'
    BY <1>1, <1>4 DEF JobInv, OnLadderAt, InPointAt, SingleStages
  <1>6. OtherTypes'
    BY <1>1, <1>2, <1>3, CallsType DEF StartRuns, ToolInv, TypeOK, OtherTypes
  <1> QED
    BY <1>4, <1>5, <1>6, OffLadder DEF StartRuns, Callable

LEMMA RunEndsKeeps ==
    ASSUME ToolInv, RunEndsWell \/ RunEndsBadly
    PROVE  ToolInv'
  <1>1. job.at = "running" /\ job.stage \in SingleStages /\ job.stage \in Stages
    BY DEF RunEndsWell, RunEndsBadly, ToolInv, JobInv, Stages
  <1>2. st.rows \in [Points -> Rows] /\ st.made \in Int
    BY DEF ToolInv, TypeOK, States
  <1>3. CASE RunEndsWell /\ job.channel + 1 < RunsOf(job.stage)
    <2>1. job' = [job EXCEPT !.channel = @ + 1] /\ UNCHANGED <<files, st, relaxDir, pointDir, env, used>>
      BY <1>3 DEF RunEndsWell
    <2>2. job' \in Jobs /\ job'.at = "running" /\ job'.stage = job.stage
      BY <1>1, <2>1 DEF ToolInv, TypeOK, Jobs
    <2>3. JobInv'
      BY <1>1, <2>2 DEF JobInv, OnLadderAt, InPointAt, SingleStages
    <2> QED
      BY <1>1, <2>1, <2>2, <2>3, OffLadder DEF ToolInv, TypeOK, OtherTypes
  <1>4. CASE RunEndsWell /\ ~(job.channel + 1 < RunsOf(job.stage))
    <2>1. st' \in States /\ job' = Idle
      BY <1>1, <1>2, <1>4, ReturnsType DEF RunEndsWell, ToolInv
    <2>2. files' \in [scf : Int, band : Int, effective_mass : Int, status : SUBSET Points]
      BY <1>1, <1>2, <1>4, FilesType DEF RunEndsWell, ToolInv
    <2> QED
      BY <1>1, <1>4, <2>1, <2>2, IdleFollows, OffLadder
         DEF RunEndsWell, ToolInv, TypeOK, OtherTypes
  <1>5. CASE RunEndsBadly
    <2>1. st' \in States /\ job' = Idle
      BY <1>1, <1>2, <1>5, ReturnsType DEF RunEndsBadly, ToolInv
    <2>2. files[job.stage] \in Int
      <3>1. 0 \in Int
        OBVIOUS
      <3> QED
        BY <1>1, <3>1, FilesType, Zenon DEF ToolInv
    <2>3. files' \in [scf : Int, band : Int, effective_mass : Int, status : SUBSET Points]
      BY <1>1, <1>5, <2>2, FilesType DEF RunEndsBadly, ToolInv, Leftover, Unfinished
    <2> QED
      BY <1>1, <1>5, <2>1, <2>3, FaultType, IdleFollows, OffLadder
         DEF RunEndsBadly, ToolInv, TypeOK, OtherTypes
  <1> QED
    BY <1>3, <1>4, <1>5

-----------------------------------------------------------------------------
(* The steps of a campaign.                                                *)

LEMMA PointTypes ==
    ASSUME TypeOK, NEW p \in Points
    PROVE  /\ p[1] \in Directions /\ ZeroOf(p) \in Points /\ <<p[1], 0>> \in Points /\ p \in Places
           /\ pointDir[p].energies \in Nat /\ pointDir[p].eigenval \in Nat
           /\ pointDir[ZeroOf(p)].eigenval \in Nat /\ used.calls \in Nat
  BY ZeroIsSampled DEF TypeOK, Points, Places, ZeroOf, PointDirs

\* One file of a point.
LEMMA PointDirType ==
    ASSUME TypeOK, NEW p \in Points, NEW n \in Nat
    PROVE  /\ [pointDir EXCEPT ![p].energies = n] \in [Points -> PointDirs]
           /\ [pointDir EXCEPT ![p].eigenval = n] \in [Points -> PointDirs]
  BY DEF TypeOK, PointDirs

LEMMA CampaignStarts ==
    ASSUME ToolInv, NEW plan \in [Directions -> SUBSET Strains], job' = Campaign(plan),
           Calls, st' \in States, UNCHANGED <<relaxDir, pointDir, files, env>>,
           job.at = "idle"
    PROVE  ToolInv'
  <1>1. job' \in Jobs
    BY CampaignType DEF ToolInv
  <1>2. job'.at = "point" /\ job'.stage = "strain_loop"
    BY DEF Campaign, Idle
  <1>3. JobInv'
    BY <1>2 DEF JobInv, OnLadderAt, InPointAt, SingleStages
  <1>4. OtherTypes'
    BY <1>1, CallsType DEF ToolInv, TypeOK, OtherTypes
  <1> QED
    BY <1>2, <1>3, <1>4, OffLadder

LEMMA CampaignStartsKeeps ==
    ASSUME ToolInv, StartStrain \/ \E d \in Directions : \E extra \in SUBSET Strains : RefineSampling(d, extra)
    PROVE  ToolInv'
  <1>1. st.plan \in [Directions -> SUBSET Strains]
    BY DEF ToolInv, TypeOK, States
  <1>2. CASE StartStrain
    <2>1. st' \in States
      BY <1>2, BegunType DEF StartStrain, ToolInv, Stages
    <2> QED
      BY <1>1, <1>2, <2>1, CampaignStarts DEF StartStrain, Callable
  <1>3. ASSUME NEW d \in Directions, NEW extra \in SUBSET Strains, RefineSampling(d, extra)
        PROVE  ToolInv'
    <2> DEFINE plan == [st.plan EXCEPT ![d] = @ \cup extra]
    <2>1. plan \in [Directions -> SUBSET Strains]
      BY <1>1
    <2>2. st' = Resampled(plan) /\ job' = Campaign(plan)
      BY <1>3 DEF RefineSampling
    <2> HIDE DEF plan
    <2>3. st' \in States
      BY <2>1, <2>2 DEF Resampled, StillCompleted, ToolInv, TypeOK, States
    <2> QED
      BY <1>3, <2>1, <2>2, <2>3, CampaignStarts DEF RefineSampling
  <1> QED
    BY <1>2, <1>3

LEMMA SkipPointKeeps ==
    ASSUME ToolInv, SkipPoint
    PROVE  ToolInv'
  <1>1. PICK p \in Points :
            job' = [job EXCEPT !.left = @ \ {p},
                               !.ref[p[1]] = IF @ = Missing THEN pointDir[ZeroOf(p)].eigenval ELSE @]
    BY DEF SkipPoint, ToolInv, TypeOK, Jobs
  <1>2. /\ job.at = "point" /\ job.stage = "strain_loop"
        /\ UNCHANGED <<relaxDir, pointDir, files, st, env, used>>
    BY DEF SkipPoint, ToolInv, JobInv
  <1>3. p[1] \in Directions /\ pointDir[ZeroOf(p)].eigenval \in Nat
    BY PointTypes DEF ToolInv
  <1>4. job' \in Jobs /\ job'.at = "point" /\ job'.stage = "strain_loop"
    BY <1>1, <1>2, <1>3 DEF ToolInv, TypeOK, Jobs
  <1>5. JobInv'
    BY <1>4 DEF JobInv, OnLadderAt, InPointAt, SingleStages
  <1> QED
    BY <1>2, <1>4, <1>5, OffLadder DEF ToolInv, TypeOK, OtherTypes

LEMMA EnterPointKeeps ==
    ASSUME ToolInv, EnterPoint
    PROVE  ToolInv'
  <1>1. PICK p \in Points : job' = OnLadder(job, p)
    BY DEF EnterPoint, ToolInv, TypeOK, Jobs
  <1>2. /\ job.at = "point" /\ job.stage = "strain_loop" /\ job \in Jobs
        /\ UNCHANGED <<relaxDir, pointDir, files, st, env, used>>
    BY DEF EnterPoint, ToolInv, JobInv, TypeOK
  <1>3. p \in Places /\ job' \in Jobs
    BY <1>1, <1>2, OnLadderType DEF ToolInv, Places
  <1>4. /\ job'.stage = "strain_loop" /\ job'.place = p
        /\ job'.at \in {"relaxing", "refused"}
    BY <1>1, <1>2 DEF OnLadder, Jobs
  <1>5. JobInv'
    BY <1>4 DEF JobInv, OnLadderAt, InPointAt, SingleStages
  <1>6. OtherTypes'
    BY <1>2, <1>3 DEF ToolInv, TypeOK, OtherTypes
  <1> QED
    BY <1>1, <1>2, <1>3, <1>5, <1>6, EntersLadder

LEMMA PointRelaxedKeeps ==
    ASSUME ToolInv, PointRelaxed
    PROVE  ToolInv'
  <1>1. /\ job.stage = "strain_loop" /\ job.at = "relaxed" /\ job \in Jobs /\ job.place \in Points
        /\ relaxDir' = PrunedRelaxDir(job.place)
        /\ job' = [job EXCEPT !.at = "scf"]
        /\ UNCHANGED <<pointDir, files, st, env, used>>
    BY DEF PointRelaxed, ToolInv, JobInv, TypeOK
  <1>2. /\ job' \in Jobs /\ job'.at = "scf" /\ job'.stage = "strain_loop"
        /\ job'.place = job.place
    BY <1>1 DEF Jobs, InPointAt
  <1>3. JobInv'
    BY <1>1, <1>2 DEF JobInv, OnLadderAt, InPointAt, SingleStages
  <1>4. OtherTypes' /\ job.place \in Places
    BY <1>1, <1>2 DEF ToolInv, TypeOK, OtherTypes, Places
  <1> QED
    BY <1>1, <1>2, <1>3, <1>4, PrunedTypes, DirChanges DEF ToolInv

\* The scf and the band run of a point.
LEMMA PointRunsKeeps ==
    ASSUME ToolInv, PointScf \/ PointBand
    PROVE  ToolInv'
  <1>1. /\ job.stage = "strain_loop" /\ job.at \in {"scf", "band"} /\ job \in Jobs
        /\ job.place \in Points /\ used.calls \in Nat
        /\ UNCHANGED <<relaxDir, files, st, env, used>>
    BY DEF PointScf, PointBand, ToolInv, JobInv, TypeOK, InPointAt
  <1>2. pointDir' \in [Points -> PointDirs]
    BY <1>1, PointDirType DEF PointScf, PointBand, MeasuredEnergies, ToolInv
  <1>3. PICK at \in {"band", "edges"} : job' = [job EXCEPT !.at = at]
    BY DEF PointScf, PointBand
  <1>4. /\ job' \in Jobs /\ job'.at \in {"band", "edges"} /\ job'.stage = "strain_loop"
        /\ job'.place = job.place
    BY <1>1, <1>3 DEF Jobs, InPointAt
  <1>5. JobInv'
    BY <1>1, <1>4 DEF JobInv, OnLadderAt, InPointAt, SingleStages
  <1>6. OtherTypes'
    BY <1>1, <1>2, <1>4 DEF ToolInv, TypeOK, OtherTypes
  <1> QED
    BY <1>1, <1>4, <1>5, <1>6, OffLadder

\* The campaign goes on with the next point.
LEMMA PointEndsType ==
    ASSUME ToolInv, NEW row \in Rows, PointEnds(row), job.stage = "strain_loop", job.at # "point"
    PROVE  /\ job' \in Jobs /\ JobInv' /\ job'.at = "point" /\ job'.stage = "strain_loop"
           /\ job'.rows = [job.rows EXCEPT ![job.place] = row] /\ job'.ref = job.ref
           /\ job'.left = job.left \ {job.place}
  <1>1. job \in Jobs /\ job.place \in Points /\ Main \in Places
    BY DEF ToolInv, JobInv, TypeOK, Places
  <1>2. job' = [job EXCEPT !.rows = [@ EXCEPT ![job.place] = row], !.left = @ \ {job.place},
                           !.at = "point", !.place = Main, !.retry = 0]
    BY DEF PointEnds
  <1>3. job' \in Jobs /\ job'.at = "point" /\ job'.stage = "strain_loop"
    BY <1>1, <1>2 DEF Jobs
  <1>4. JobInv'
    BY <1>3 DEF JobInv, OnLadderAt, InPointAt, SingleStages
  <1>5. /\ job'.rows = [job.rows EXCEPT ![job.place] = row] /\ job'.ref = job.ref
        /\ job'.left = job.left \ {job.place}
    BY <1>1, <1>2 DEF Jobs
  <1> QED
    BY <1>3, <1>4, <1>5

LEMMA PointFailsKeeps ==
    ASSUME ToolInv, PointFails
    PROVE  ToolInv'
  <1>1. /\ job.stage = "strain_loop" /\ job.at \in {"lost", "refused", "scf", "band", "edges"}
        /\ PointEnds(FailedRow)
        /\ UNCHANGED <<relaxDir, files, st, env>>
    BY DEF PointFails
  <1>2. job.place \in Points
    BY <1>1 DEF ToolInv, JobInv
  <1>3. job' \in Jobs /\ JobInv' /\ job'.at = "point"
    BY <1>1, RowTypes, PointEndsType
  <1>4. pointDir \in [Points -> PointDirs] /\ used \in [calls : Nat, faults : Nat, fresh : Nat, made : Nat]
    BY DEF ToolInv, TypeOK
  <1>5. pointDir' \in [Points -> PointDirs]
    <2>1. /\ pointDir[job.place].energies \in Nat /\ pointDir[job.place].eigenval \in Nat
          /\ used.calls \in Nat
      BY <1>2, PointTypes, Zenon DEF ToolInv
    <2>2. /\ After(pointDir[job.place].energies) \subseteq Nat
          /\ After(pointDir[job.place].eigenval) \subseteq Nat
      BY <2>1 DEF After, Missing
    <2>3. \/ pointDir' = pointDir
          \/ \E n \in After(pointDir[job.place].energies) :
                 pointDir' = [pointDir EXCEPT ![job.place].energies = n]
          \/ \E n \in After(pointDir[job.place].eigenval) :
                 pointDir' = [pointDir EXCEPT ![job.place].eigenval = n]
      BY DEF PointFails
    <2>4. PICK n \in Nat : \/ pointDir' = pointDir
                           \/ pointDir' = [pointDir EXCEPT ![job.place].energies = n]
                           \/ pointDir' = [pointDir EXCEPT ![job.place].eigenval = n]
      <3>1. 0 \in Nat
        OBVIOUS
      <3> QED
        BY <2>2, <2>3, <3>1, Zenon
    <2>5. /\ [pointDir EXCEPT ![job.place].energies = n] \in [Points -> PointDirs]
          /\ [pointDir EXCEPT ![job.place].eigenval = n] \in [Points -> PointDirs]
      BY <1>2, PointDirType DEF ToolInv
    <2> QED
      BY <1>4, <2>4, <2>5, Zenon
  <1>6. used' \in [calls : Nat, faults : Nat, fresh : Nat, made : Nat]
    BY <1>4, FaultType DEF PointFails
  <1>7. OtherTypes'
    BY <1>1, <1>3, <1>5, <1>6 DEF ToolInv, TypeOK, OtherTypes
  <1> QED
    BY <1>1, <1>3, <1>7, OffLadder

\* What completing a point changes of the campaign.
LEMMA CompletedChanges ==
    ASSUME ToolInv, PointCompleted
    PROVE  /\ job.at = "edges" /\ job.stage = "strain_loop" /\ job.place \in Points
           /\ \E ref \in Nat : LET p == job.place IN
                  /\ job'.ref = [job.ref EXCEPT ![p[1]] = ref]
                  /\ job'.rows = [job.rows EXCEPT ![p] = DoneRow(pointDir[p].energies, pointDir[p].eigenval, ref)]
           /\ job' \in Jobs /\ job'.at = "point" /\ job'.stage = "strain_loop"
           /\ pointDir' = [pointDir EXCEPT ![job.place].energies = Missing]
           /\ UNCHANGED <<relaxDir, files, st, env, used>>
  <1>1. job.at = "edges" /\ job.stage = "strain_loop" /\ job.place \in Points /\ job \in Jobs
    BY DEF PointCompleted, ToolInv, JobInv, TypeOK, InPointAt
  <1> DEFINE p == job.place
             ref == IF job.ref[p[1]] = Missing THEN pointDir[p].eigenval ELSE job.ref[p[1]]
             row == DoneRow(pointDir[p].energies, pointDir[p].eigenval, ref)
  <1>2. p[1] \in Directions /\ pointDir[p].energies \in Nat /\ pointDir[p].eigenval \in Nat
    BY <1>1, PointTypes DEF ToolInv
  <1>3. ref \in Nat /\ row \in Rows
    BY <1>1, <1>2, RowTypes DEF Jobs
  <1>4. job' = [job EXCEPT !.rows = [@ EXCEPT ![p] = row], !.ref = [@ EXCEPT ![p[1]] = ref],
                           !.left = @ \ {p}, !.at = "point", !.place = Main, !.retry = 0]
    BY DEF PointCompleted
  <1> HIDE DEF ref, row
  <1>5. /\ job'.rows = [job.rows EXCEPT ![p] = row] /\ job'.ref = [job.ref EXCEPT ![p[1]] = ref]
        /\ job'.at = "point" /\ job'.stage = "strain_loop"
    BY <1>1, <1>4 DEF Jobs
  <1>6. job' \in Jobs
    <2>1. [job.rows EXCEPT ![p] = row] \in [Points -> Rows] /\ [job.ref EXCEPT ![p[1]] = ref] \in [Directions -> Nat]
      BY <1>1, <1>3 DEF Jobs
    <2> QED
      BY <1>1, <1>4, <2>1 DEF Jobs, Places
  <1> QED
    BY <1>1, <1>3, <1>5, <1>6 DEF PointCompleted, row

LEMMA PointCompletedKeeps ==
    ASSUME ToolInv, PointCompleted
    PROVE  ToolInv'
  <1>1. /\ job.at = "edges" /\ job.place \in Points
        /\ job' \in Jobs /\ job'.at = "point" /\ job'.stage = "strain_loop"
        /\ pointDir' = [pointDir EXCEPT ![job.place].energies = Missing]
        /\ UNCHANGED <<relaxDir, files, st, env, used>>
    BY CompletedChanges
  <1>2. JobInv'
    BY <1>1 DEF JobInv, OnLadderAt, InPointAt, SingleStages
  <1>3. pointDir' \in [Points -> PointDirs]
    BY <1>1, PointDirType DEF ToolInv, Missing
  <1>4. OtherTypes'
    BY <1>1, <1>3 DEF ToolInv, TypeOK, OtherTypes
  <1> QED
    BY <1>1, <1>2, <1>4, OffLadder

LEMMA StrainReturnsKeeps ==
    ASSUME ToolInv, StrainReturns
    PROVE  ToolInv'
  <1>1. st.made \in Int /\ job.rows \in [Points -> Rows] /\ "strain_loop" \in Stages
    BY DEF ToolInv, TypeOK, States, Jobs, Stages
  <1>2. st' \in States /\ job' = Idle
    BY <1>1, ReturnsType DEF StrainReturns, ToolInv
  <1> QED
    BY <1>2, IdleFollows, OffLadder DEF StrainReturns, ToolInv, TypeOK, OtherTypes

LEMMA MobilityKeeps ==
    ASSUME ToolInv, Mobility
    PROVE  ToolInv'
  <1>1. st.made \in Int /\ st.rows \in [Points -> Rows] /\ "mobility" \in Stages
    BY DEF ToolInv, TypeOK, States, Stages
  <1>2. st' \in States /\ job' = Idle
    BY <1>1, ReturnsType DEF Mobility, ToolInv
  <1>3. files' \in [scf : Int, band : Int, effective_mass : Int, status : SUBSET Points]
    BY DEF Mobility, StatusFile, CompletedIn, ToolInv, TypeOK
  <1> QED
    BY <1>2, <1>3, CallsType, IdleFollows, OffLadder DEF Mobility, Callable, ToolInv, TypeOK, OtherTypes

LEMMA DieKeeps ==
    ASSUME ToolInv, Die
    PROVE  ToolInv'
  <1>1. job' = Idle /\ used' = [used EXCEPT !.faults = @ + 1] /\ UNCHANGED <<pointDir, files, st, env>>
    BY DEF Die
  <1>2. OtherTypes' /\ JobInv' /\ job'.at = "idle"
    BY <1>1, IdleFollows DEF ToolInv, TypeOK, OtherTypes
  <1>3. CASE job.at \in {"retrying", "promoted", "relaxed"}
    <2> DEFINE p == job.place
               dir == Excused(relaxDir[p])
    <2>1. p \in Places /\ relaxDir[p] \in RelaxDirs
      BY RungTypes DEF ToolInv
    <2>2. /\ dir \in RelaxDirs /\ dir.runs = relaxDir[p].runs /\ dir.retries = relaxDir[p].retries
          /\ dir.excused = relaxDir[p].excused + 1
      BY <2>1, ExcusedTypes
    <2>3. relaxDir[p].runs <= relaxDir[p].retries + 1 + relaxDir[p].excused
      <3>1. /\ relaxDir[p].runs \in Nat /\ relaxDir[p].excused \in Nat
            /\ relaxDir[p].retries \in 0 .. MaxRetries /\ MaxRetries \in Nat
        BY <2>1, DirTypes, BoundsAreNatural
      <3> QED
        BY <2>1, <3>1 DEF ToolInv, LadderInv
    <2>4. dir.runs <= dir.retries + dir.excused
      BY <2>1, <2>2, <2>3, DirTypes
    <2>5. relaxDir' = [relaxDir EXCEPT ![p] = dir]
      BY <1>3, <2>1 DEF Die, Excused, ToolInv, TypeOK, RelaxDirs
    <2> HIDE DEF dir
    <2> QED
      BY <1>2, <2>1, <2>2, <2>4, <2>5, DirChanges
  <1>4. CASE job.at \notin {"retrying", "promoted", "relaxed"}
    BY <1>2, <1>4, OffLadder DEF Die
  <1> QED
    BY <1>3, <1>4

LEMMA StartFreshKeeps ==
    ASSUME ToolInv, StartFresh
    PROVE  ToolInv'
  <1>1. FreshState \in States
    BY RowTypes, ZeroIsSampled DEF FreshState, States, Missing
  <1>2. used' \in [calls : Nat, faults : Nat, fresh : Nat, made : Nat]
    BY DEF StartFresh, ToolInv, TypeOK
  <1>3. OtherTypes'
    BY <1>1, <1>2, IdleFollows DEF StartFresh, ToolInv, TypeOK, OtherTypes
  <1> QED
    BY <1>3, IdleFollows, OffLadder DEF StartFresh

LEMMA ToolInvariance == Spec => []ToolInv
  <1>1. Init => ToolInv
    <2> SUFFICES ASSUME Init PROVE ToolInv
      OBVIOUS
    <2>1. job = Idle /\ relaxDir = [p \in Places |-> EmptyRelaxDir]
      BY DEF Init
    <2>2. JobInv
      BY <2>1 DEF JobInv, Idle, OnLadderAt, InPointAt, SingleStages
    <2>3. LadderInv
      BY <2>1 DEF LadderInv, Idle, EmptyRelaxDir
    <2> QED
      BY <2>2, <2>3, InitType DEF ToolInv
  <1>2. ToolInv /\ [Next]_vars => ToolInv'
    <2> SUFFICES ASSUME ToolInv, [Next]_vars PROVE ToolInv'
      OBVIOUS
    <2>1. CASE LadderStep
      BY <2>1, RelaxConvergesKeeps, RelaxFailsKeeps, LadderEndKeeps, PromoteKeeps, SaveCheckpointKeeps
         DEF LadderStep
    <2>2. CASE SingleStep
      BY <2>2, ReusedKeeps, StartRelaxKeeps, RelaxReturnsKeeps, StartRunsKeeps, RunEndsKeeps
         DEF SingleStep
    <2>3. CASE StrainStep
      BY <2>3, CampaignStartsKeeps, SkipPointKeeps, EnterPointKeeps, PointRelaxedKeeps, PointRunsKeeps,
         PointFailsKeeps, PointCompletedKeeps, StrainReturnsKeeps DEF StrainStep
    <2>4. CASE Mobility
      BY <2>4, MobilityKeeps
    <2>5. CASE Die
      BY <2>5, DieKeeps
    <2>6. CASE StartFresh
      BY <2>6, StartFreshKeeps
    <2>7. CASE UNCHANGED vars
      BY <2>7 DEF vars, ToolInv, TypeOK, JobInv, LadderInv
    <2> QED
      BY <2>1, <2>2, <2>3, <2>4, <2>5, <2>6, <2>7 DEF Next
  <1> QED
    BY <1>1, <1>2, PTL DEF Spec

\* Every variable keeps its type, for every choice of the bounds.
THEOREM TypeCorrect == Spec => []TypeOK
  <1>1. ToolInv => TypeOK
    BY DEF ToolInv
  <1> QED
    BY <1>1, ToolInvariance, PTL

\* However a relaxation is interrupted and called again, its directory sees one
\* program more than the retries allowed, besides those that cost no retry.
THEOREM LaddersAreBounded == Spec => []LadderBounded
  <1>1. ToolInv => LadderBounded
    <2> SUFFICES ASSUME ToolInv, NEW p \in Places
                 PROVE  relaxDir[p].runs <= MaxRetries + 1 + relaxDir[p].excused
      BY DEF LadderBounded
    <2>1. relaxDir[p] \in RelaxDirs /\ MaxRetries \in Nat
      BY BoundsAreNatural DEF ToolInv, TypeOK
    <2>2. relaxDir[p].runs \in Nat /\ relaxDir[p].excused \in Nat /\ relaxDir[p].retries \in 0 .. MaxRetries
      BY <2>1, DirTypes
    <2> QED
      BY <2>1, <2>2 DEF ToolInv, LadderInv
  <1> QED
    BY <1>1, ToolInvariance, PTL

-----------------------------------------------------------------------------
(* What a returning tool leaves in the state.                              *)

LEMMA SucceedsChanges ==
    ASSUME TypeOK, NEW s \in Stages, NEW made \in Int, NEW rows \in [Points -> Rows],
           Succeeds(s, made, rows)
    PROVE  /\ st'.made = IF s = "relax" THEN made ELSE st.made
           /\ \A t \in SingleStages : st'.of[t] = IF t = s THEN made ELSE st.of[t]
           /\ st'.rows = IF s = "strain_loop" THEN rows ELSE st.rows
           /\ st'.plan = st.plan
           /\ st'.done = StillCompleted(st.done, s) \cup {s}
  BY DEF Succeeds, Outputs, TypeOK, States

LEMMA FailsChanges ==
    ASSUME TypeOK, NEW s \in Stages, NEW rows \in [Points -> Rows], Fails(s, rows)
    PROVE  /\ st'.made = IF s = "relax" THEN Missing ELSE st.made
           /\ \A t \in SingleStages : st'.of[t] = IF t = s THEN Missing ELSE st.of[t]
           /\ st'.rows = IF s = "strain_loop" THEN rows ELSE st.rows
           /\ st'.plan = st.plan
           /\ st'.done = StillCompleted(st.done, s)
  BY DEF Fails, Outputs, TypeOK, States, Missing

LEMMA BegunChanges ==
    ASSUME TypeOK, NEW s \in Stages, st' = Begun(s)
    PROVE  /\ st'.made = st.made /\ st'.of = st.of /\ st'.rows = st.rows /\ st'.plan = st.plan
           /\ st'.done = StillCompleted(st.done, s)
  BY DEF Begun, TypeOK, States

LEMMA ResampledChanges ==
    ASSUME TypeOK, NEW plan, st' = Resampled(plan)
    PROVE  /\ st'.made = st.made /\ st'.of = st.of /\ st'.rows = st.rows /\ st'.plan = plan
           /\ st'.done = StillCompleted(st.done, "strain_loop")
  BY DEF Resampled, TypeOK, States

\* The files of a stage of the single structure are not the status file.
LEMMA StatusStays ==
    ASSUME TypeOK, NEW s \in SingleStages, NEW n, files' = [files EXCEPT ![s] = n]
    PROVE  files'.status = files.status
  BY DEF TypeOK, SingleStages

-----------------------------------------------------------------------------
(* A completed campaign is whole.                                          *)

\* A step that completes neither the campaign nor the fit.
LEMMA CampaignStays ==
    ASSUME CampaignInv, st'.rows = st.rows, st'.plan = st.plan, files'.status = files.status,
           st'.done \cap {"strain_loop", "mobility"} \subseteq st.done
    PROVE  CampaignInv'
  BY DEF CampaignInv, WholeCampaign, FitReady, Planned, CompletedIn

LEMMA CampaignStep ==
    ASSUME TypeOK, JobInv, CampaignInv, Next
    PROVE  CampaignInv'
  <1>0. st.done \in SUBSET Stages /\ st.rows \in [Points -> Rows] /\ st.made \in Int
    BY DEF TypeOK, States
  <1>1. CASE LadderStep
    <2>1. st' = st /\ files' = files
      BY <1>1 DEF LadderStep, RelaxConverges, RelaxGivenUp, RelaxFails, RetriesExhausted,
                  NothingToPromote, PromoteContcar, SaveCheckpoint
    <2> QED
      BY <2>1, CampaignStays
  <1>2. ASSUME NEW s \in Stages, Reused(s)
        PROVE  CampaignInv'
    <2>1. s \in Stages \ {"strain_loop", "mobility"} /\ StageFile(s) \in Int
      BY <1>2, FilesType DEF Reused, StageFile, TypeOK, RelaxDirs, Places, SingleStages
    <2> QED
      BY <1>0, <1>2, <2>1, SucceedsChanges, DoneBefore, CampaignStays DEF Reused
  <1>3. ASSUME NEW s \in Stages, StartRuns(s)
        PROVE  CampaignInv'
    <2>1. files'.status = files.status /\ st' = Begun(s)
      BY <1>3, StatusStays DEF StartRuns
    <2> QED
      BY <1>0, <2>1, BegunChanges, DoneBefore, CampaignStays
  <1>4. CASE StartRelax \/ StartStrain
    <2>1. PICK s \in Stages : st' = Begun(s) /\ files' = files
      BY <1>4 DEF StartRelax, StartStrain, Stages
    <2> QED
      BY <1>0, <2>1, BegunChanges, DoneBefore, CampaignStays
  <1>5. CASE RelaxReturns
    <2>1. /\ files' = files /\ relaxDir[Main].contcar \in Int /\ "relax" \in Stages
          /\ Succeeds("relax", relaxDir[Main].contcar, st.rows) \/ Fails("relax", st.rows)
      BY <1>5 DEF RelaxReturns, TypeOK, RelaxDirs, Places, Stages
    <2>2. st'.rows = st.rows /\ st'.plan = st.plan
      BY <1>0, <2>1, SucceedsChanges, FailsChanges
    <2>3. st'.done \subseteq {"relax"}
      BY <1>0, <2>1, SucceedsChanges, FailsChanges, DoneBefore
    <2> QED
      BY <2>1, <2>2, <2>3, CampaignStays
  <1>6. CASE RunEndsWell \/ RunEndsBadly
    <2>1. job.stage \in SingleStages /\ job.stage \in Stages \ {"strain_loop", "mobility"}
      BY <1>6 DEF RunEndsWell, RunEndsBadly, JobInv, Stages, SingleStages
    <2>2. \/ st' = st /\ files' = files
          \/ /\ Succeeds(job.stage, st.made, st.rows) \/ Fails(job.stage, st.rows)
             /\ \E n : files' = [files EXCEPT ![job.stage] = n]
      BY <1>6 DEF RunEndsWell, RunEndsBadly
    <2>3. files'.status = files.status
      BY <2>1, <2>2, StatusStays
    <2>4. CASE Succeeds(job.stage, st.made, st.rows) \/ Fails(job.stage, st.rows)
      BY <1>0, <2>1, <2>3, <2>4, SucceedsChanges, FailsChanges, DoneBefore, CampaignStays
    <2> QED
      BY <2>2, <2>3, <2>4, CampaignStays
  <1>7. CASE \/ SkipPoint \/ EnterPoint \/ PointRelaxed \/ PointScf \/ PointBand \/ PointFails
             \/ PointCompleted \/ Die
    <2>1. st' = st /\ files' = files
      BY <1>7 DEF SkipPoint, EnterPoint, PointRelaxed, PointScf, PointBand, PointFails,
                  PointCompleted, Die
    <2> QED
      BY <2>1, CampaignStays
  <1>8. CASE StrainReturns
    <2>1. job.rows \in [Points -> Rows] /\ "strain_loop" \in Stages /\ files' = files
      BY <1>8 DEF StrainReturns, TypeOK, Jobs, Stages
    <2>2. CASE Succeeds("strain_loop", st.made, job.rows) /\ WholeCampaign(job.rows, st.plan)
      <3>1. st'.rows = job.rows /\ st'.plan = st.plan /\ "mobility" \notin st'.done
        BY <1>0, <2>1, <2>2, SucceedsChanges, DoneBefore
      <3>2. WholeCampaign(st'.rows, st'.plan)
        BY <2>2, <3>1
      <3> QED
        BY <3>1, <3>2 DEF CampaignInv, WholeCampaign, FitReady, Planned, CompletedIn
    <2>3. CASE Fails("strain_loop", job.rows)
      <3>1. st'.done \cap {"strain_loop", "mobility"} = {}
        BY <1>0, <2>1, <2>3, FailsChanges, DoneBefore
      <3> QED
        BY <3>1 DEF CampaignInv
    <2> QED
      BY <1>8, <2>2, <2>3 DEF StrainReturns
  <1>9. ASSUME NEW d \in Directions, NEW extra \in SUBSET Strains, RefineSampling(d, extra)
        PROVE  CampaignInv'
    <2>1. PICK plan : st' = Resampled(plan)
      BY <1>9 DEF RefineSampling
    <2>2. "strain_loop" \in Stages /\ st'.done = StillCompleted(st.done, "strain_loop")
      BY <2>1, ResampledChanges DEF Stages
    <2>3. st'.done \cap {"strain_loop", "mobility"} = {}
      BY <1>0, <2>2, DoneBefore
    <2> QED
      BY <2>3 DEF CampaignInv
  <1>10. CASE Mobility
    <2>1. "mobility" \in Stages /\ "strain_loop" \in st.done
      BY <1>0, <1>10, DoneBefore DEF Mobility, Callable, Stages
    <2>2. files'.status = CompletedIn(st.rows)
      BY <1>10 DEF Mobility, StatusFile, TypeOK
    <2>3. st'.rows = st.rows /\ st'.plan = st.plan
      BY <1>0, <1>10, <2>1, SucceedsChanges, FailsChanges DEF Mobility
    <2>4. WholeCampaign(st'.rows, st'.plan) /\ Planned(st'.plan) \subseteq files'.status
      BY <2>1, <2>2, <2>3 DEF CampaignInv, WholeCampaign
    <2> QED
      BY <2>4 DEF CampaignInv, WholeCampaign, FitReady, Planned, CompletedIn
  <1>11. CASE StartFresh
    <2>1. st'.done = {}
      BY <1>11 DEF StartFresh, FreshState
    <2> QED
      BY <2>1 DEF CampaignInv
  <1> QED
    BY <1>1, <1>2, <1>3, <1>4, <1>5, <1>6, <1>7, <1>8, <1>9, <1>10, <1>11
       DEF Next, SingleStep, StrainStep

LEMMA CampaignInvariance == Spec => []CampaignInv
  <1>1. Init => CampaignInv
    BY DEF Init, FreshState, CampaignInv
  <1>2. ToolInv /\ CampaignInv /\ [Next]_vars => CampaignInv'
    <2> SUFFICES ASSUME ToolInv, CampaignInv, [Next]_vars PROVE CampaignInv'
      OBVIOUS
    <2>1. CASE UNCHANGED vars
      BY <2>1, CampaignStays DEF vars
    <2> QED
      BY <2>1, CampaignStep DEF ToolInv
  <1> QED
    BY <1>1, <1>2, ToolInvariance, PTL DEF Spec

\* A completed campaign has every point of the plan in force, and every direction
\* the points its fit needs.
THEOREM CompletedCampaignsAreWhole == Spec => []CampaignIsWhole
  <1>1. TypeOK /\ CampaignInv => CampaignIsWhole
    <2> SUFFICES ASSUME TypeOK, CampaignInv, "strain_loop" \in st.done, NEW d \in Directions
                 PROVE  /\ \A e \in st.plan[d] : st.rows[<<d, e>>].is = "done"
                        /\ Cardinality({e \in Strains : st.rows[<<d, e>>].is = "done"}) >= MinPoints
      BY DEF CampaignIsWhole
    <2>1. FitReady(st.rows, d) /\ Planned(st.plan) \subseteq CompletedIn(st.rows)
      BY DEF CampaignInv, WholeCampaign
    <2>2. st.plan[d] \subseteq Strains
      BY DEF TypeOK, States
    <2>3. \A e \in st.plan[d] : st.rows[<<d, e>>].is = "done"
      <3> SUFFICES ASSUME NEW e \in st.plan[d] PROVE st.rows[<<d, e>>].is = "done"
        OBVIOUS
      <3>1. <<d, e>> \in Planned(st.plan)
        BY <2>2 DEF Planned, Points
      <3> QED
        BY <2>1, <3>1 DEF CompletedIn
    <2>4. {p[2] : p \in {q \in CompletedIn(st.rows) : q[1] = d}}
              = {e \in Strains : st.rows[<<d, e>>].is = "done"}
      <3>1. \A p \in CompletedIn(st.rows) : p[1] = d => p[2] \in Strains /\ st.rows[<<d, p[2]>>].is = "done"
        BY DEF CompletedIn, Points
      <3>2. \A e \in Strains : st.rows[<<d, e>>].is = "done" => <<d, e>> \in CompletedIn(st.rows)
        BY DEF CompletedIn, Points
      <3> QED
        BY <3>1, <3>2
    <2> QED
      BY <2>1, <2>3, <2>4 DEF FitReady
  <1> QED
    BY <1>1, TypeCorrect, CampaignInvariance, PTL

\* The completed fit lists every strain of the plan in force.
THEOREM FitsFollowThePlan == Spec => []FitIsOfThePlan
  <1>1. CampaignInv => FitIsOfThePlan
    BY DEF CampaignInv, FitIsOfThePlan
  <1> QED
    BY <1>1, CampaignInvariance, PTL

-----------------------------------------------------------------------------
(* Without reuse the outputs are of one structure.                         *)

\* A step that neither makes a structure nor computes from one.
LEMMA OutputsStay ==
    ASSUME OutputsInv, env' = env, st'.made = st.made,
           \A t \in SingleStages : t \in st'.done => t \in st.done /\ st'.of[t] = st.of[t],
           "relax" \in st'.done <=> "relax" \in st.done,
           job'.at = "running" => job.at = "running" \/ "relax" \in st.done,
           ~(job'.stage = "relax" /\ job'.at = "relaxed")
    PROVE  OutputsInv'
  BY DEF OutputsInv

\* Nothing is completed, and no structure of a relaxation in progress is lost.
LEMMA NothingDone ==
    ASSUME st'.done = {}, job'.at \notin {"running", "relaxed"}
    PROVE  OutputsInv'
  BY DEF OutputsInv

LEMMA OutputsStep ==
    ASSUME TypeOK, JobInv, OutputsInv, Next
    PROVE  OutputsInv'
  <1>0. st.done \in SUBSET Stages /\ st.rows \in [Points -> Rows] /\ st.made \in Int /\ job \in Jobs
    BY DEF TypeOK, States
  <1>1. CASE RelaxConverges
    <2>1. /\ st' = st /\ env' = env /\ job.at = "relaxing" /\ job' = [job EXCEPT !.at = "relaxed"]
          /\ \E made : /\ job.place = Main => made = used.made + 1
                       /\ relaxDir' = [relaxDir EXCEPT ![job.place].contcar = made, ![job.place].runs = @ + 1]
      BY <1>1 DEF RelaxConverges
    <2>2. job'.at = "relaxed" /\ job'.stage = job.stage
      BY <1>0, <2>1 DEF Jobs
    <2>3. job'.stage = "relax" => relaxDir'[Main].contcar > 0
      <3> SUFFICES ASSUME job.stage = "relax" PROVE relaxDir'[Main].contcar > 0
        BY <2>2
      <3>1. job.place = Main /\ used.made \in Nat
        BY DEF JobInv, TypeOK
      <3>2. PICK made : /\ made = used.made + 1
                        /\ relaxDir' = [relaxDir EXCEPT ![Main].contcar = made, ![Main].runs = @ + 1]
        BY <2>1, <3>1
      <3>3. relaxDir'[Main].contcar = made
        BY <3>2 DEF TypeOK, Places, RelaxDirs
      <3> QED
        BY <3>1, <3>2, <3>3
    <2> QED
      BY <2>1, <2>2, <2>3 DEF OutputsInv
  <1>2. CASE \/ RelaxGivenUp \/ RelaxFails \/ RetriesExhausted \/ NothingToPromote \/ PromoteContcar
             \/ SaveCheckpoint
    <2>1. /\ st' = st /\ env' = env
          /\ job'.at \in {"lost", "retrying", "promoted", "relaxing"}
      BY <1>0, <1>2 DEF RelaxGivenUp, RelaxFails, RetriesExhausted, NothingToPromote, PromoteContcar,
                         SaveCheckpoint, Jobs
    <2> QED
      BY <2>1, OutputsStay
  <1>3. ASSUME NEW s \in Stages, Reused(s)
        PROVE  OutputsInv'
    BY <1>3 DEF Reused, OutputsInv
  <1>4. ASSUME NEW s \in Stages, StartRuns(s)
        PROVE  OutputsInv'
    <2>1. /\ st' = Begun(s) /\ env' = env /\ s # "relax" /\ Earlier(s) \subseteq st.done
          /\ job' = [Idle EXCEPT !.stage = s, !.at = "running"]
      BY <1>4 DEF StartRuns, Callable, SingleStages
    <2>2. "relax" \in st.done /\ "relax" \in st'.done /\ st'.done \subseteq st.done
      BY <1>0, <2>1, BegunChanges, DoneBefore
    <2>3. job'.at = "running" /\ job'.stage = s
      BY <2>1 DEF Idle
    <2> QED
      BY <2>1, <2>2, <2>3, BegunChanges, OutputsStay
  <1>5. CASE StartRelax
    <2>1. st' = Begun("relax") /\ job'.at \in {"refused", "relaxing"} /\ "relax" \in Stages
      BY <1>5 DEF StartRelax, OnLadder, Idle, Stages
    <2>2. st'.done = {}
      BY <1>0, <2>1, BegunChanges, DoneBefore
    <2> QED
      BY <2>1, <2>2, NothingDone
  <1>6. CASE RelaxReturns
    <2>1. relaxDir[Main].contcar \in Int /\ "relax" \in Stages
      BY DEF TypeOK, RelaxDirs, Places, Stages
    <2>2. CASE job.at = "relaxed" /\ Succeeds("relax", relaxDir[Main].contcar, st.rows)
      <3>1. job' = Idle /\ env' = env /\ job.stage = "relax"
        BY <1>6, <2>2 DEF RelaxReturns, Succeeds
      <3>2. st'.done = {"relax"} /\ st'.made = relaxDir[Main].contcar
        BY <1>0, <2>1, <2>2, SucceedsChanges, DoneBefore
      <3> QED
        BY <2>2, <3>1, <3>2 DEF OutputsInv, Idle, SingleStages
    <2>3. CASE Fails("relax", st.rows)
      <3>1. job'.at = "idle" /\ st'.done = {}
        BY <1>0, <2>1, <2>3, FailsChanges, DoneBefore DEF Fails, Idle
      <3> QED
        BY <3>1, NothingDone
    <2> QED
      BY <1>6, <2>2, <2>3 DEF RelaxReturns
  <1>7. CASE RunEndsWell \/ RunEndsBadly
    <2>1. job.at = "running" /\ job.stage \in SingleStages /\ job.stage \in Stages \ {"relax"} /\ env' = env
      BY <1>7 DEF RunEndsWell, RunEndsBadly, JobInv, Stages, SingleStages
    <2>2. CASE st' = st /\ job' = [job EXCEPT !.channel = @ + 1]
      <3>1. job'.at = "running"
        BY <1>0, <2>1, <2>2 DEF Jobs
      <3> QED
        BY <2>1, <2>2, <3>1, OutputsStay
    <2>3. CASE Succeeds(job.stage, st.made, st.rows)
      <3>1. job'.at = "idle"
        BY <2>3 DEF Succeeds, Idle
      <3>2. /\ st'.made = st.made
            /\ \A t \in SingleStages : st'.of[t] = IF t = job.stage THEN st.made ELSE st.of[t]
            /\ st'.done = StillCompleted(st.done, job.stage) \cup {job.stage}
        BY <1>0, <2>1, <2>3, SucceedsChanges
      <3>3. /\ StillCompleted(st.done, job.stage) \subseteq st.done
            /\ "relax" \in st.done => "relax" \in StillCompleted(st.done, job.stage)
        BY <1>0, <2>1, DoneBefore
      <3> QED
        BY <2>1, <3>1, <3>2, <3>3 DEF OutputsInv
    <2>4. CASE Fails(job.stage, st.rows)
      <3>1. job'.at = "idle"
        BY <2>4 DEF Fails, Idle
      <3>2. /\ st'.made = st.made
            /\ \A t \in SingleStages : t # job.stage => st'.of[t] = st.of[t]
            /\ st'.done = StillCompleted(st.done, job.stage)
        BY <1>0, <2>1, <2>4, FailsChanges
      <3>3. /\ StillCompleted(st.done, job.stage) \subseteq st.done
            /\ job.stage \notin StillCompleted(st.done, job.stage)
            /\ "relax" \in st.done => "relax" \in StillCompleted(st.done, job.stage)
        BY <1>0, <2>1, DoneBefore
      <3>4. "relax" \in st'.done <=> "relax" \in st.done
        BY <3>2, <3>3
      <3>5. \A t \in SingleStages : t \in st'.done => t \in st.done /\ st'.of[t] = st.of[t]
        BY <3>2, <3>3
      <3> QED
        BY <2>1, <3>1, <3>2, <3>4, <3>5, OutputsStay
    <2> QED
      BY <1>7, <2>2, <2>3, <2>4 DEF RunEndsWell, RunEndsBadly
  <1>8. CASE StartStrain \/ \E d \in Directions : \E extra \in SUBSET Strains : RefineSampling(d, extra)
    <2>1. /\ "strain_loop" \in Stages /\ env' = env
          /\ st' = Begun("strain_loop") \/ \E plan : st' = Resampled(plan)
          /\ \E plan : job' = Campaign(plan)
      BY <1>8 DEF StartStrain, RefineSampling, Stages
    <2>2. st'.made = st.made /\ st'.of = st.of /\ st'.done = StillCompleted(st.done, "strain_loop")
      BY <2>1, BegunChanges, ResampledChanges
    <2>3. job'.at = "point"
      BY <2>1 DEF Campaign, Idle
    <2> QED
      BY <1>0, <2>1, <2>2, <2>3, DoneBefore, OutputsStay
  <1>9. CASE \/ SkipPoint \/ EnterPoint \/ PointRelaxed \/ PointScf \/ PointBand \/ PointFails
             \/ PointCompleted \/ Die
    <2>1. st' = st /\ env' = env
      BY <1>9 DEF SkipPoint, EnterPoint, PointRelaxed, PointScf, PointBand, PointFails,
                  PointCompleted, Die
    <2>2. job'.at \notin {"running", "relaxed"}
      <3>1. CASE SkipPoint
        <4>1. PICK left, ref : job' = [job EXCEPT !.left = left, !.ref = ref] /\ job.at = "point"
          BY <3>1 DEF SkipPoint
        <4> QED
          BY <1>0, <4>1 DEF Jobs
      <3>2. CASE EnterPoint
        BY <1>0, <3>2 DEF EnterPoint, OnLadder, Jobs
      <3>3. CASE PointRelaxed \/ PointScf \/ PointBand
        BY <1>0, <3>3 DEF PointRelaxed, PointScf, PointBand, Jobs
      <3>4. CASE PointFails
        BY <1>0, <3>4 DEF PointFails, PointEnds, Jobs
      <3>5. CASE PointCompleted
        BY <1>0, <3>5 DEF PointCompleted, Jobs
      <3>6. CASE Die
        BY <3>6 DEF Die, Idle
      <3> QED
        BY <1>9, <3>1, <3>2, <3>3, <3>4, <3>5, <3>6
    <2> QED
      BY <2>1, <2>2, OutputsStay
  <1>10. CASE StrainReturns \/ Mobility
    <2>1. PICK s \in {"strain_loop", "mobility"}, rows \in {st.rows, job.rows} :
              Succeeds(s, st.made, rows) \/ Fails(s, rows)
      BY <1>10 DEF StrainReturns, Mobility
    <2>2. /\ rows \in [Points -> Rows] /\ s \in Stages /\ s \notin SingleStages \cup {"relax"}
          /\ env' = env /\ job'.at = "idle"
      BY <1>0, <1>10, <2>1 DEF StrainReturns, Mobility, Succeeds, Fails, Idle, Jobs, Stages, SingleStages
    <2>3. /\ st'.made = st.made /\ \A t \in SingleStages : st'.of[t] = st.of[t]
          /\ \/ st'.done = StillCompleted(st.done, s)
             \/ st'.done = StillCompleted(st.done, s) \cup {s}
      BY <1>0, <2>1, <2>2, SucceedsChanges, FailsChanges
    <2>4. /\ StillCompleted(st.done, s) \subseteq st.done
          /\ "relax" \in st.done => "relax" \in StillCompleted(st.done, s)
      BY <1>0, <2>2, DoneBefore
    <2>5. "relax" \in st'.done <=> "relax" \in st.done
      BY <2>2, <2>3, <2>4
    <2>6. \A t \in SingleStages : t \in st'.done => t \in st.done /\ st'.of[t] = st.of[t]
      BY <2>2, <2>3, <2>4
    <2> QED
      BY <2>2, <2>3, <2>5, <2>6, OutputsStay
  <1>11. CASE StartFresh
    <2>1. st'.done = {} /\ job'.at = "idle"
      BY <1>11 DEF StartFresh, FreshState, Idle
    <2> QED
      BY <2>1, NothingDone
  <1> QED
    BY <1>1, <1>2, <1>3, <1>4, <1>5, <1>6, <1>7, <1>8, <1>9, <1>10, <1>11
       DEF Next, LadderStep, SingleStep, StrainStep

\* Without reuse the completed scf, band and mass stages are of the structure the
\* state names as relaxed, which converged.
THEOREM OutputsAreOfOneStructure == Spec => []OutputsAgree
  <1>1. Init => OutputsInv
    BY DEF Init, FreshState, Idle, OutputsInv
  <1>2. ToolInv /\ OutputsInv /\ [Next]_vars => OutputsInv'
    <2> SUFFICES ASSUME ToolInv, OutputsInv, [Next]_vars PROVE OutputsInv'
      OBVIOUS
    <2>1. CASE UNCHANGED vars
      BY <2>1 DEF vars, OutputsInv
    <2> QED
      BY <2>1, OutputsStep DEF ToolInv
  <1>3. OutputsInv => OutputsAgree
    BY DEF OutputsInv, OutputsAgree
  <1> QED
    BY <1>1, <1>2, <1>3, ToolInvariance, PTL DEF Spec

-----------------------------------------------------------------------------
(* A completed point was computed by one call and keeps its row.           *)

\* A step that leaves the rows, the points' files and the file listing them.
LEMMA RowsStay ==
    ASSUME RowsInv, st'.rows = st.rows, pointDir' = pointDir, files'.status = files.status,
           used'.fresh = used.fresh, job'.at \notin {"band", "edges"},
           job'.stage = "strain_loop" =>
               /\ job.stage = "strain_loop" /\ job'.rows = job.rows
               /\ job'.at = "point" \/ (job.at # "point" /\ job'.place = job.place)
    PROVE  RowsInv'
  BY DEF RowsInv, Recorded, Kept, Measured, Done

\* What is recovered when a campaign begins are rows the state has, or new ones.
LEMMA ExistingRowsKept ==
    ASSUME TypeOK, RowsInv
    PROVE  /\ Recorded(ExistingRows) /\ Kept(st.rows, ExistingRows)
           /\ used.fresh = 0 => Measured(ExistingRows)
  <1>1. \A p \in Points : ExistingRows[p] =
            IF p \in Recovered
            THEN DoneRow(pointDir[p].energies, pointDir[p].eigenval, pointDir[ZeroOf(p)].eigenval)
            ELSE st.rows[p]
    BY DEF ExistingRows
  <1>2. \A p \in Points : p \in Recovered =>
            /\ p \in files.status /\ pointDir[p].energies # Missing
            /\ Done(ExistingRows, p) /\ ExistingRows[p].scf = pointDir[p].energies
            /\ ExistingRows[p].band = pointDir[p].eigenval
    <2>1. \A p \in Recovered : p \in files.status /\ pointDir[p].energies # Missing
      BY DEF Recovered
    <2>2. \A a, b, c : LET row == DoneRow(a, b, c)
                       IN  row.is = "done" /\ row.scf = a /\ row.band = b
      BY DEF DoneRow
    <2> QED
      BY <1>1, <2>1, <2>2 DEF Done
  <1>3. used.fresh = 0 => \A p \in Points : p \notin Recovered
    BY <1>2 DEF RowsInv, Measured
  <1>4. \A p \in Points : p \notin Recovered => ExistingRows[p] = st.rows[p]
    BY <1>1
  <1>5. Recorded(ExistingRows)
    BY <1>2, <1>4 DEF Recorded, RowsInv, Done
  <1>6. Kept(st.rows, ExistingRows)
    BY <1>2, <1>3, <1>4 DEF Kept, RowsInv, Recorded, Done
  <1>7. used.fresh = 0 => Measured(ExistingRows)
    BY <1>3, <1>4 DEF Measured, RowsInv, Done
  <1> QED
    BY <1>5, <1>6, <1>7

LEMMA CampaignRows ==
    ASSUME TypeOK, RowsInv, job' = Campaign(st'.plan), st'.rows = st.rows,
           UNCHANGED <<pointDir, files>>, used'.fresh = used.fresh
    PROVE  RowsInv'
  <1>1. job'.rows = ExistingRows /\ job'.at = "point"
    BY DEF Campaign, Idle
  <1> QED
    BY <1>1, ExistingRowsKept DEF RowsInv, Recorded, Kept, Measured, Done

\* The program runs of a point change the files of a point that is not completed.
LEMMA PointRunsRows ==
    ASSUME TypeOK, JobInv, RowsInv, PointScf \/ PointBand
    PROVE  RowsInv'
  <1> DEFINE p == job.place
  <1>1. /\ job.at \in {"scf", "band"} /\ job.stage = "strain_loop" /\ p \in Points /\ job \in Jobs
        /\ UNCHANGED <<relaxDir, files, st, env, used>>
    BY DEF PointScf, PointBand, JobInv, InPointAt, TypeOK
  <1>2. ~Done(job.rows, p) /\ ~Done(st.rows, p)
    BY <1>1 DEF RowsInv, Kept
  <1>3. /\ job'.at \in {"band", "edges"} /\ job'.stage = "strain_loop" /\ job'.place = p
        /\ job'.rows = job.rows
    BY <1>1 DEF PointScf, PointBand, Jobs
  <1>4. /\ pointDir \in [Points -> PointDirs] /\ pointDir' \in [Points -> PointDirs]
        /\ \A q \in Points : q # p => pointDir'[q] = pointDir[q]
    <2>1. pointDir \in [Points -> PointDirs] /\ used.calls \in Nat
      BY DEF TypeOK
    <2> QED
      BY <1>1, <2>1, PointDirType DEF PointScf, PointBand, MeasuredEnergies
  <1>5. CASE PointScf
    <2>1. job'.at = "band" /\ pointDir'[p].energies = used.calls
      BY <1>1, <1>4, <1>5 DEF PointScf, MeasuredEnergies, PointDirs, Jobs
    <2> QED
      BY <1>1, <1>2, <1>3, <1>4, <2>1 DEF RowsInv, Recorded, Kept, Measured, Done
  <1>6. CASE PointBand
    <2>1. /\ job'.at = "edges" /\ pointDir'[p].eigenval = used.calls
          /\ pointDir'[p].energies = pointDir[p].energies /\ job.at = "band"
      BY <1>1, <1>4, <1>6 DEF PointBand, PointDirs, Jobs
    <2> QED
      BY <1>1, <1>2, <1>3, <1>4, <2>1 DEF RowsInv, Recorded, Kept, Measured, Done
  <1> QED
    BY <1>5, <1>6

LEMMA PointFailsRows ==
    ASSUME ToolInv, RowsInv, PointFails
    PROVE  RowsInv'
  <1> DEFINE p == job.place
  <1>1. /\ job.at \in {"lost", "refused", "scf", "band", "edges"} /\ job.stage = "strain_loop"
        /\ p \in Points /\ job \in Jobs /\ PointEnds(FailedRow)
        /\ UNCHANGED <<relaxDir, files, st, env>> /\ used'.fresh = used.fresh
    BY DEF PointFails, Fault, ToolInv, JobInv, TypeOK
  <1>2. ~Done(job.rows, p) /\ ~Done(st.rows, p)
    BY <1>1 DEF RowsInv, Kept
  <1>3. /\ job'.at = "point" /\ job'.stage = "strain_loop"
        /\ job'.rows = [job.rows EXCEPT ![p] = FailedRow]
    BY <1>1, PointEndsType, RowTypes
  <1>4. \A q \in Points : q # p => pointDir'[q] = pointDir[q]
    BY <1>1 DEF PointFails, ToolInv, TypeOK
  <1>5. ~Done(job'.rows, p) /\ \A q \in Points : q # p => job'.rows[q] = job.rows[q]
    BY <1>1, <1>3 DEF Jobs, FailedRow, NoRow, Done
  <1> QED
    BY <1>1, <1>2, <1>3, <1>4, <1>5 DEF RowsInv, Recorded, Kept, Measured, Done

LEMMA PointCompletedRows ==
    ASSUME ToolInv, RowsInv, PointCompleted
    PROVE  RowsInv'
  <1> DEFINE p == job.place
  <1>1. /\ job.at = "edges" /\ job.stage = "strain_loop" /\ p \in Points /\ job \in Jobs
        /\ job'.at = "point" /\ job'.stage = "strain_loop"
        /\ pointDir' = [pointDir EXCEPT ![p].energies = Missing]
        /\ UNCHANGED <<relaxDir, files, st, env, used>>
    BY CompletedChanges DEF ToolInv, TypeOK
  <1>2. PICK ref \in Nat :
            job'.rows = [job.rows EXCEPT ![p] = DoneRow(pointDir[p].energies, pointDir[p].eigenval, ref)]
    BY CompletedChanges
  <1>3. ~Done(job.rows, p) /\ ~Done(st.rows, p)
    BY <1>1 DEF RowsInv, Kept
  <1>4. pointDir'[p].energies = Missing /\ \A q \in Points : q # p => pointDir'[q] = pointDir[q]
    BY <1>1 DEF ToolInv, TypeOK, PointDirs
  <1>5. /\ Done(job'.rows, p) /\ job'.rows[p].scf = pointDir[p].energies
        /\ job'.rows[p].band = pointDir[p].eigenval
        /\ \A q \in Points : q # p => job'.rows[q] = job.rows[q]
    BY <1>1, <1>2 DEF Jobs, DoneRow, Done
  <1>6. used.fresh = 0 => pointDir[p].energies = pointDir[p].eigenval
    BY <1>1 DEF RowsInv
  <1> QED
    BY <1>1, <1>3, <1>4, <1>5, <1>6 DEF RowsInv, Recorded, Kept, Measured, Done

LEMMA RowsStep ==
    ASSUME ToolInv, RowsInv, Next
    PROVE  /\ RowsInv'
           /\ st' # FreshState => Kept(st.rows, st'.rows)
  <1>0. /\ st.done \in SUBSET Stages /\ st.rows \in [Points -> Rows] /\ st.made \in Int
        /\ job \in Jobs /\ TypeOK
    BY DEF ToolInv, TypeOK, States
  <1>a. ASSUME st'.rows = st.rows
        PROVE  Kept(st.rows, st'.rows)
    BY <1>a DEF Kept
  <1>1. CASE LadderStep
    <2>1. /\ st' = st /\ UNCHANGED <<files, pointDir>> /\ used'.fresh = used.fresh
          /\ job.at \in OnLadderAt
      BY <1>0, <1>1 DEF LadderStep, RelaxConverges, RelaxGivenUp, RelaxFails, RetriesExhausted, Fault,
                        NothingToPromote, PromoteContcar, SaveCheckpoint, TypeOK, OnLadderAt
    <2>2. /\ job'.at \in OnLadderAt /\ job'.stage = job.stage /\ job'.rows = job.rows
          /\ job'.place = job.place
      BY <1>0, <1>1 DEF LadderStep, RelaxConverges, RelaxGivenUp, RelaxFails, RetriesExhausted,
                        NothingToPromote, PromoteContcar, SaveCheckpoint, Jobs, OnLadderAt
    <2> QED
      BY <1>a, <2>1, <2>2, RowsStay DEF OnLadderAt
  <1>2. ASSUME NEW s \in Stages, Reused(s)
        PROVE  RowsInv' /\ st'.rows = st.rows
    <2>1. s \in Stages \ {"strain_loop", "mobility"} /\ StageFile(s) \in Int
      BY <1>0, <1>2, FilesType DEF Reused, StageFile, TypeOK, RelaxDirs, Places, SingleStages
    <2>2. st'.rows = st.rows /\ job' = Idle
      BY <1>0, <1>2, <2>1, SucceedsChanges DEF Reused, Succeeds
    <2> QED
      BY <1>0, <1>2, <2>2, RowsStay DEF Reused, Calls, TypeOK, Idle
  <1>3. ASSUME NEW s \in Stages, StartRuns(s)
        PROVE  RowsInv' /\ st'.rows = st.rows
    <2>1. files'.status = files.status /\ st' = Begun(s) /\ s # "strain_loop"
      BY <1>0, <1>3, StatusStays DEF StartRuns, SingleStages
    <2>2. st'.rows = st.rows /\ job'.stage = s /\ job'.at = "running"
      BY <1>0, <1>3, <2>1, BegunChanges DEF StartRuns, Idle
    <2> QED
      BY <1>0, <1>3, <2>1, <2>2, RowsStay DEF StartRuns, Calls, TypeOK
  <1>4. CASE StartRelax
    <2>1. st' = Begun("relax") /\ "relax" \in Stages
      BY <1>4 DEF StartRelax, Stages
    <2>2. st'.rows = st.rows /\ job'.stage = "relax" /\ job'.at \in {"relaxing", "refused"}
      BY <1>0, <1>4, <2>1, BegunChanges DEF StartRelax, Idle, OnLadder
    <2> QED
      BY <1>0, <1>4, <1>a, <2>2, RowsStay DEF StartRelax, Calls, TypeOK
  <1>5. CASE RelaxReturns
    <2>1. /\ relaxDir[Main].contcar \in Int /\ "relax" \in Stages
          /\ Succeeds("relax", relaxDir[Main].contcar, st.rows) \/ Fails("relax", st.rows)
      BY <1>0, <1>5 DEF RelaxReturns, TypeOK, RelaxDirs, Places, Stages
    <2>2. st'.rows = st.rows /\ job' = Idle
      BY <1>0, <2>1, SucceedsChanges, FailsChanges DEF Succeeds, Fails
    <2> QED
      BY <1>5, <1>a, <2>2, RowsStay DEF RelaxReturns, Idle
  <1>6. CASE RunEndsWell \/ RunEndsBadly
    <2>1. /\ job.stage \in SingleStages /\ job.stage \in Stages \ {"strain_loop"} /\ pointDir' = pointDir
          /\ used'.fresh = used.fresh
      BY <1>0, <1>6 DEF RunEndsWell, RunEndsBadly, Fault, ToolInv, TypeOK, JobInv, Stages, SingleStages
    <2>2. \/ st' = st /\ files' = files /\ job' = [job EXCEPT !.channel = @ + 1]
          \/ /\ Succeeds(job.stage, st.made, st.rows) \/ Fails(job.stage, st.rows)
             /\ \E n : files' = [files EXCEPT ![job.stage] = n]
      BY <1>6 DEF RunEndsWell, RunEndsBadly
    <2>3. files'.status = files.status
      BY <1>0, <2>1, <2>2, StatusStays
    <2>4. st'.rows = st.rows
      BY <1>0, <2>1, <2>2, SucceedsChanges, FailsChanges
    <2>5. job'.at \in {"idle", "running"} /\ job'.stage # "strain_loop"
      <3>1. job.at = "running"
        BY <1>6 DEF RunEndsWell, RunEndsBadly
      <3> QED
        BY <1>0, <2>1, <2>2, <3>1 DEF Succeeds, Fails, Idle, Jobs
    <2> QED
      BY <1>a, <2>1, <2>3, <2>4, <2>5, RowsStay
  <1>7. CASE StartStrain \/ \E d \in Directions : \E extra \in SUBSET Strains : RefineSampling(d, extra)
    <2>1. /\ UNCHANGED <<pointDir, files>> /\ Calls /\ "strain_loop" \in Stages
          /\ \E plan : /\ job' = Campaign(plan)
                       /\ (st' = Begun("strain_loop") /\ plan = st.plan) \/ st' = Resampled(plan)
      BY <1>7 DEF StartStrain, RefineSampling, Stages
    <2>2. used'.fresh = used.fresh
      BY <1>0, <2>1 DEF Calls, TypeOK
    <2>3. st'.rows = st.rows /\ job' = Campaign(st'.plan)
      BY <1>0, <2>1, BegunChanges, ResampledChanges
    <2> QED
      BY <1>0, <1>a, <2>1, <2>2, <2>3, CampaignRows
  <1>8. CASE SkipPoint
    <2>1. /\ job.at = "point" /\ job.stage = "strain_loop"
          /\ UNCHANGED <<pointDir, files, st, used>>
      BY <1>8 DEF SkipPoint, ToolInv, JobInv
    <2>2. PICK left, ref : job' = [job EXCEPT !.left = left, !.ref = ref]
      BY <1>8 DEF SkipPoint
    <2>3. job'.at = "point" /\ job'.rows = job.rows
      BY <1>0, <2>1, <2>2 DEF Jobs
    <2> QED
      BY <1>a, <2>1, <2>3, RowsStay
  <1>9. CASE EnterPoint
    <2>1. /\ job.at = "point" /\ job.stage = "strain_loop"
          /\ UNCHANGED <<pointDir, files, st, used>>
      BY <1>9 DEF EnterPoint, ToolInv, JobInv
    <2>2. PICK p \in job.left : job' = OnLadder(job, p) /\ ~Done(job.rows, p)
      BY <1>9 DEF EnterPoint, Skipped, Done
    <2>3. /\ job'.at \in {"relaxing", "refused"} /\ job'.rows = job.rows /\ job'.place = p
      BY <1>0, <2>2 DEF OnLadder, Jobs
    <2> QED
      BY <1>a, <2>1, <2>2, <2>3 DEF RowsInv, Recorded, Kept, Measured, Done
  <1>10. CASE PointRelaxed
    <2>1. /\ job.at = "relaxed" /\ job.stage = "strain_loop" /\ job' = [job EXCEPT !.at = "scf"]
          /\ UNCHANGED <<pointDir, files, st, used>>
      BY <1>10 DEF PointRelaxed
    <2>2. job'.at = "scf" /\ job'.rows = job.rows /\ job'.place = job.place
      BY <1>0, <2>1 DEF Jobs
    <2> QED
      BY <1>a, <2>1, <2>2, RowsStay
  <1>11. CASE PointScf \/ PointBand
    <2>1. st' = st
      BY <1>11 DEF PointScf, PointBand
    <2> QED
      BY <1>11, <1>a, <2>1, PointRunsRows DEF ToolInv
  <1>12. CASE PointFails \/ PointCompleted
    <2>1. st' = st
      BY <1>12 DEF PointFails, PointCompleted
    <2> QED
      BY <1>12, <1>a, <2>1, PointFailsRows, PointCompletedRows
  <1>13. CASE StrainReturns
    <2>1. /\ job.stage = "strain_loop" /\ job.rows \in [Points -> Rows] /\ "strain_loop" \in Stages
          /\ UNCHANGED <<pointDir, files, used>>
          /\ Succeeds("strain_loop", st.made, job.rows) \/ Fails("strain_loop", job.rows)
      BY <1>0, <1>13 DEF StrainReturns, Jobs, Stages
    <2>2. st'.rows = job.rows /\ job' = Idle
      BY <1>0, <2>1, SucceedsChanges, FailsChanges DEF Succeeds, Fails
    <2>3. Kept(st.rows, st'.rows)
      BY <2>1, <2>2 DEF RowsInv
    <2>4. RowsInv'
      <3>1. files.status \subseteq Points
        BY <1>0 DEF TypeOK
      <3> QED
        BY <2>1, <2>2, <3>1 DEF RowsInv, Recorded, Kept, Measured, Done, Idle
    <2> QED
      BY <2>3, <2>4
  <1>14. CASE Mobility
    <2>1. /\ "mobility" \in Stages /\ pointDir' = pointDir /\ used'.fresh = used.fresh
          /\ Succeeds("mobility", st.made, st.rows) \/ Fails("mobility", st.rows)
          /\ files'.status = CompletedIn(st.rows)
      BY <1>0, <1>14 DEF Mobility, Calls, StatusFile, TypeOK, Stages
    <2>2. st'.rows = st.rows /\ job' = Idle
      BY <1>0, <2>1, SucceedsChanges, FailsChanges DEF Succeeds, Fails
    <2>3. RowsInv'
      <3>1. job'.stage # "strain_loop" /\ job'.at \notin {"band", "edges"}
        BY <2>2 DEF Idle
      <3>2. (\A p \in files.status : Done(st.rows, p))'
        BY <2>1, <2>2 DEF CompletedIn, Done
      <3>3. Recorded(st.rows)' /\ (used.fresh = 0 => Measured(st.rows))'
        BY <2>1, <2>2 DEF RowsInv, Recorded, Measured, Done
      <3> QED
        BY <3>1, <3>2, <3>3 DEF RowsInv
    <2> QED
      BY <1>a, <2>2, <2>3
  <1>15. CASE Die
    <2>1. job' = Idle /\ UNCHANGED <<pointDir, files, st>> /\ used'.fresh = used.fresh
      BY <1>0, <1>15 DEF Die, TypeOK
    <2> QED
      BY <1>a, <2>1, RowsStay DEF Idle
  <1>16. CASE StartFresh
    <2>1. /\ st' = FreshState /\ job' = Idle /\ used'.fresh # 0
      BY <1>0, <1>16 DEF StartFresh, TypeOK
    <2>2. \A p \in Points : ~Done(st'.rows, p)
      BY <2>1 DEF FreshState, NoRow, Done
    <2>3. RowsInv'
      BY <2>1, <2>2 DEF RowsInv, Recorded, Idle, Done
    <2> QED
      BY <2>1, <2>3
  <1> QED
    BY <1>a, <1>1, <1>2, <1>3, <1>4, <1>5, <1>6, <1>7, <1>8, <1>9, <1>10, <1>11, <1>12, <1>13,
       <1>14, <1>15, <1>16 DEF Next, SingleStep, StrainStep

LEMMA RowsInvariance == Spec => []RowsInv
  <1>1. Init => RowsInv
    BY DEF Init, FreshState, NoRow, NoFiles, Idle, RowsInv, Recorded, Measured, Done
  <1>2. ToolInv /\ RowsInv /\ [Next]_vars => RowsInv'
    <2> SUFFICES ASSUME ToolInv, RowsInv, [Next]_vars PROVE RowsInv'
      OBVIOUS
    <2>1. CASE UNCHANGED vars
      BY <2>1 DEF vars, RowsInv, Recorded, Kept, Measured, Done
    <2> QED
      BY <2>1, RowsStep
  <1> QED
    BY <1>1, <1>2, ToolInvariance, PTL DEF Spec

\* Until a fresh start a completed point's energies and bands are of one call.
THEOREM PointsAreMeasuredOnce == Spec => []CompletedWasMeasured
  <1>1. RowsInv => CompletedWasMeasured
    BY DEF RowsInv, Measured, Done, CompletedWasMeasured
  <1> QED
    BY <1>1, RowsInvariance, PTL

\* A completed point keeps what was computed for it, and until a fresh start its
\* whole row, through every later campaign.
THEOREM CompletedRowsStay == Spec => KeepsCompletedRows
  <1>1. ASSUME ToolInv, RowsInv, [Next]_vars, st' # FreshState,
               NEW p \in {q \in Points : st.rows[q].is = "done"}
        PROVE  LET row == st'.rows[p]
               IN  /\ DoneRow(row.scf, row.band, st.rows[p].ref) = st.rows[p]
                   /\ row.is = "done"
                   /\ used.fresh = 0 => row = st.rows[p]
    <2>1. Kept(st.rows, st'.rows)
      <3>1. CASE Next
        BY <1>1, <3>1, RowsStep
      <3>2. CASE UNCHANGED vars
        BY <3>2 DEF vars, Kept
      <3> QED
        BY <1>1, <3>1, <3>2
    <2>2. st.rows[p] \in Rows /\ st.rows[p].is = "done"
      BY <1>1 DEF ToolInv, TypeOK, States
    <2>3. DoneRow(st.rows[p].scf, st.rows[p].band, st.rows[p].ref) = st.rows[p]
      BY <2>2 DEF Rows, DoneRow
    <2> QED
      BY <2>1, <2>2, <2>3 DEF Kept, Done
  <1>2. ToolInv /\ RowsInv /\ [Next]_vars =>
            [st' # FreshState =>
                \A p \in {q \in Points : st.rows[q].is = "done"} :
                    LET row == st'.rows[p]
                    IN  /\ DoneRow(row.scf, row.band, st.rows[p].ref) = st.rows[p]
                        /\ row.is = "done"
                        /\ used.fresh = 0 => row = st.rows[p]]_vars
    BY <1>1
  <1> QED
    BY <1>2, ToolInvariance, RowsInvariance, PTL DEF Spec, KeepsCompletedRows

=============================================================================
