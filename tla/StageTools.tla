----------------------------- MODULE StageTools -----------------------------
(***************************************************************************)
(* The deterministic tools of a material and the directories they work in: *)
(* the relaxation with its ladder of retries (tools/relax_retry.py), the   *)
(* scf, band and effective mass runs, the strain campaign that repeats all *)
(* three per point (tools/strain_tool.py), the mobility fit, the resampling*)
(* that widens a campaign and the cleanup a manual fix asks for.           *)
(*                                                                         *)
(* A structure is known by the relaxation that made it, a computed file by *)
(* the tool call that wrote it; 0 stands for a file that is missing, empty *)
(* or cannot be read.  Each program run (VASP) ends as it likes.  A tool's *)
(* outputs reach the state when the tool returns, so a process that dies   *)
(* leaves its files and no outputs.  The caller is the task board's rule:  *)
(* a stage is called when the stages before it are completed.              *)
(***************************************************************************)
EXTENDS Integers, FiniteSets, StageContracts

CONSTANTS
    Directions,     \* in-plane directions: x and y in the code
    Strains,        \* the strains a campaign may ever sample, in small units
    FirstPlan,      \* the strains of the first campaign
    MinPoints,      \* completed strains a direction's fit needs: 5 in the code
    MaxPoints,      \* strains a resampling fills a direction up to: 9 in the code
    Channels,       \* runs of the effective mass stage: 4 in the code
    MaxRetries,     \* promotions of CONTCAR to POSCAR before giving up: 3 in the code
    ReuseModes,     \* values of MOBILITY_REUSE_COMPLETED_VASP_STAGES
    RetryModes,     \* values of RELAX_RETRY
    MaxCalls, MaxFaults, MaxFresh     \* bounds; a death is a fault too

ASSUME BoundsAreNatural ==
    {MinPoints, MaxPoints, Channels, MaxRetries, MaxCalls, MaxFaults, MaxFresh} \subseteq Nat

ASSUME ZeroIsSampled == 0 \in FirstPlan /\ FirstPlan \subseteq Strains

ASSUME ModesAreBoolean == ReuseModes \subseteq BOOLEAN /\ RetryModes \subseteq BOOLEAN

VARIABLES
    relaxDir,   \* per directory a structure is relaxed in: CONTCAR, .relax_checkpoint, tallies
    pointDir,   \* per strain point: what its 02_scf and 03_band hold
    files,      \* the single-structure stages' files, and strain_status.csv
    st,         \* the part of the shared state the tools read and write
    job,        \* the tool call in progress
    env,        \* the environment switches of the process
    used        \* what has been used up of the bounds

vars == <<relaxDir, pointDir, files, st, job, env, used>>

Points == Directions \X Strains
Main == <<"main", 0>>
Places == {Main} \cup Points
ZeroOf(p) == <<p[1], 0>>

SingleStages == {"scf", "band", "effective_mass"}
Stages == {"relax"} \cup SingleStages \cup {"strain_loop", "mobility"}
Earlier(s) == {t \in Stages : Position(t) < Position(s)}
From(s) == {t \in Stages : Position(t) >= Position(s)}

\* What a file holds: the structure or the call it is of, or one of these.
Missing == 0
Unfinished == -1

\* contcar: the structure it is; runs: programs started here since the
\* checkpoint was last removed; excused: those that cost no retry.
EmptyRelaxDir == [contcar |-> Missing, retries |-> 0, runs |-> 0, excused |-> 0]
EmptyPointDir == [energies |-> Missing, eigenval |-> Missing]
NoFiles == [scf |-> Missing, band |-> Missing, effective_mass |-> Missing, status |-> {}]

NoRow == [is |-> "none", scf |-> 0, band |-> 0, ref |-> 0]
FailedRow == [NoRow EXCEPT !.is = "failed"]
DoneRow(scf, band, ref) == [is |-> "done", scf |-> scf, band |-> band, ref |-> ref]

\* made: the structure relaxed_structure_path names; of: per stage, the
\* structure its outputs in the state were computed from.
FreshState ==
    [made |-> Missing, of |-> [s \in SingleStages |-> Missing],
     rows |-> [p \in Points |-> NoRow], plan |-> [d \in Directions |-> FirstPlan], done |-> {}]

Idle == [stage |-> "none", at |-> "idle", place |-> Main, retry |-> 0, channel |-> 0,
         rows |-> [p \in Points |-> NoRow], left |-> {}, ref |-> [d \in Directions |-> Missing]]

Init ==
    /\ relaxDir = [p \in Places |-> EmptyRelaxDir]
    /\ pointDir = [p \in Points |-> EmptyPointDir]
    /\ files = NoFiles
    /\ st = FreshState
    /\ job = Idle
    /\ env \in [reuse : ReuseModes, retry : RetryModes]
    /\ used = [calls |-> 0, faults |-> 0, fresh |-> 0, made |-> 0]

-----------------------------------------------------------------------------
(* A tool call begins and returns: its outputs are merged into the state,  *)
(* those of a failed tool being empty.                                     *)

\* Mutant: running a stage again leaves the stages after it completed.
StaysCompleted(done, s) == done \ {s}

\* The board's reset: the stage and all after it are to be done again.
StillCompleted(done, s) == done \ From(s)

\* A stage is called when the stages before it are completed.
Callable(s) == job.at = "idle" /\ used.calls < MaxCalls /\ Earlier(s) \subseteq st.done

Calls == used' = [used EXCEPT !.calls = @ + 1]

Begun(s) == [st EXCEPT !.done = StillCompleted(@, s)]

Outputs(s, made, rows) ==
    [st EXCEPT !.made = IF s = "relax" THEN made ELSE @,
               !.of = IF s \in SingleStages THEN [@ EXCEPT ![s] = made] ELSE @,
               !.rows = IF s = "strain_loop" THEN rows ELSE @]

\* made: the structure the outputs are of.
Succeeds(s, made, rows) ==
    /\ st' = [Outputs(s, made, rows) EXCEPT !.done = StillCompleted(@, s) \cup {s}]
    /\ job' = Idle

Fails(s, rows) ==
    /\ st' = [Outputs(s, Missing, rows) EXCEPT !.done = StillCompleted(@, s)]
    /\ job' = Idle

Fault ==
    /\ used.faults < MaxFaults
    /\ used' = [used EXCEPT !.faults = @ + 1]

-----------------------------------------------------------------------------
(* The ladder of retries in the directory a structure is relaxed in.       *)

\* Mutant: every call starts on the first rung.
FromFirstRung(j, p) == [j EXCEPT !.place = p, !.retry = 0, !.at = "relaxing"]

\* The checkpoint of an earlier call is resumed, or refused when used up.
OnLadder(j, p) ==
    [j EXCEPT !.place = p, !.retry = relaxDir[p].retries,
              !.at = IF relaxDir[p].retries >= MaxRetries THEN "refused" ELSE "relaxing"]

\* What a program that did not converge may leave as CONTCAR.
Leftover(n) == {n, Unfinished}

\* Exit code zero and a converged last step: CONTCAR is the relaxed structure.
RelaxConverges ==
    /\ job.at = "relaxing"
    /\ LET made == IF job.place = Main THEN used.made + 1 ELSE st.made
       IN  /\ relaxDir' = [relaxDir EXCEPT ![job.place].contcar = made, ![job.place].runs = @ + 1]
           /\ used' = [used EXCEPT !.made = IF job.place = Main THEN made ELSE @]
    /\ job' = [job EXCEPT !.at = "relaxed"]
    /\ UNCHANGED <<pointDir, files, st, env>>

\* A failure of the environment, or any failure when retries are off, is final.
RelaxGivenUp ==
    /\ job.at = "relaxing"
    /\ Fault
    /\ \E n \in Leftover(relaxDir[job.place].contcar) :
           relaxDir' = [relaxDir EXCEPT ![job.place].contcar = n, ![job.place].runs = @ + 1,
                                        ![job.place].excused = @ + 1]
    /\ job' = [job EXCEPT !.at = "lost"]
    /\ UNCHANGED <<pointDir, files, st, env>>

\* A nonzero exit, a program that did not converge, or the ZBRENT banner.
RelaxFails ==
    /\ job.at = "relaxing" /\ env.retry
    /\ Fault
    /\ \E n \in Leftover(relaxDir[job.place].contcar) :
           relaxDir' = [relaxDir EXCEPT ![job.place].contcar = n, ![job.place].runs = @ + 1]
    /\ job' = [job EXCEPT !.at = "retrying"]
    /\ UNCHANGED <<pointDir, files, st, env>>

NextRetry == job.retry + 1

SavedCount(dirs, p, n) == [dirs EXCEPT ![p].retries = n]

RetriesExhausted ==
    /\ job.at = "retrying" /\ NextRetry > MaxRetries
    /\ relaxDir' = SavedCount(relaxDir, job.place, MaxRetries)
    /\ job' = [job EXCEPT !.at = "lost"]
    /\ UNCHANGED <<pointDir, files, st, env, used>>

\* Without a CONTCAR to go on from the attempt is lost and not counted.
NothingToPromote ==
    /\ job.at = "retrying" /\ NextRetry <= MaxRetries
    /\ relaxDir[job.place].contcar = Missing
    /\ relaxDir' = [relaxDir EXCEPT ![job.place].excused = @ + 1]
    /\ job' = [job EXCEPT !.at = "lost"]
    /\ UNCHANGED <<pointDir, files, st, env, used>>

\* POSCAR is backed up and replaced, EDIFF tightened; then the count is saved.
PromoteContcar ==
    /\ job.at = "retrying" /\ NextRetry <= MaxRetries
    /\ relaxDir[job.place].contcar # Missing
    /\ job' = [job EXCEPT !.at = "promoted"]
    /\ UNCHANGED <<relaxDir, pointDir, files, st, env, used>>

SaveCheckpoint ==
    /\ job.at = "promoted"
    /\ relaxDir' = SavedCount(relaxDir, job.place, NextRetry)
    /\ job' = [job EXCEPT !.at = "relaxing", !.retry = NextRetry]
    /\ UNCHANGED <<pointDir, files, st, env, used>>

\* A relaxed directory is pruned to its inputs and CONTCAR: the checkpoint goes.
PrunedRelaxDir(p) == [relaxDir EXCEPT ![p].retries = 0, ![p].runs = 0, ![p].excused = 0]

-----------------------------------------------------------------------------
(* The stages of the single structure.                                     *)

StageFile(s) == IF s = "relax" THEN relaxDir[Main].contcar ELSE files[s]

\* With reuse on, a file an earlier call left is taken for the stage's result.
Reused(s) ==
    /\ s \in {"relax", "scf", "band"}
    /\ Callable(s) /\ env.reuse /\ StageFile(s) # Missing
    /\ Calls
    /\ Succeeds(s, StageFile(s), st.rows)
    /\ UNCHANGED <<relaxDir, pointDir, files, env>>

\* What an unfinished run left may not be readable; then the stage is run.
MustRun(s) == s \in {"relax", "scf", "band"} /\ env.reuse => StageFile(s) \in {Missing, Unfinished}

StartRelax ==
    /\ Callable("relax") /\ MustRun("relax")
    /\ Calls
    /\ st' = Begun("relax")
    /\ job' = OnLadder([Idle EXCEPT !.stage = "relax"], Main)
    /\ UNCHANGED <<relaxDir, pointDir, files, env>>

RelaxReturns ==
    /\ job.stage = "relax"
    /\ \/ /\ job.at = "relaxed"
          /\ relaxDir' = PrunedRelaxDir(Main)
          /\ Succeeds("relax", relaxDir[Main].contcar, st.rows)
       \/ /\ job.at \in {"lost", "refused"}
          /\ Fails("relax", st.rows)
          /\ UNCHANGED relaxDir
    /\ UNCHANGED <<pointDir, files, env, used>>

StartRuns(s) ==
    /\ s \in SingleStages
    /\ Callable(s) /\ MustRun(s)
    /\ Calls
    /\ st' = Begun(s)
    /\ job' = [Idle EXCEPT !.stage = s, !.at = "running"]
    /\ files' = [files EXCEPT ![s] = IF s = "band" /\ env.reuse THEN Missing ELSE @]
    /\ UNCHANGED <<relaxDir, pointDir, env>>

RunsOf(s) == IF s = "effective_mass" THEN Channels ELSE 1

RunEndsWell ==
    /\ job.at = "running"
    /\ UNCHANGED used
    /\ IF job.channel + 1 < RunsOf(job.stage)
       THEN job' = [job EXCEPT !.channel = @ + 1] /\ UNCHANGED <<files, st>>
       ELSE files' = [files EXCEPT ![job.stage] = st.made] /\ Succeeds(job.stage, st.made, st.rows)
    /\ UNCHANGED <<relaxDir, pointDir, env>>

\* The first run that fails ends the stage.
RunEndsBadly ==
    /\ job.at = "running"
    /\ Fault
    /\ \E n \in Leftover(files[job.stage]) : files' = [files EXCEPT ![job.stage] = n]
    /\ Fails(job.stage, st.rows)
    /\ UNCHANGED <<relaxDir, pointDir, env>>

-----------------------------------------------------------------------------
(* The strain campaign.                                                    *)

Planned(plan) == {p \in Points : p[2] \in plan[p[1]]}

CompletedIn(rows) == {p \in Points : rows[p].is = "done"}

FitReady(rows, d) ==
    LET strains == {p[2] : p \in {q \in CompletedIn(rows) : q[1] = d}}
    IN  /\ Cardinality(strains) >= MinPoints
        /\ 0 \in strains
        /\ \E e \in strains : e < 0
        /\ \E e \in strains : e > 0

\* Mutant: a campaign is whole when every direction can be fitted.
Fitted(rows, plan) == \A d \in Directions : FitReady(rows, d)

WholeCampaign(rows, plan) ==
    (\A d \in Directions : FitReady(rows, d)) /\ Planned(plan) \subseteq CompletedIn(rows)

\* Points strain_status.csv calls completed and whose files can still be read.
Recovered ==
    {p \in files.status : /\ pointDir[p].energies # Missing /\ pointDir[p].eigenval # Missing
                          /\ pointDir[ZeroOf(p)].eigenval # Missing}

ExistingRows ==
    [p \in Points |-> IF p \in Recovered
                       THEN DoneRow(pointDir[p].energies, pointDir[p].eigenval, pointDir[ZeroOf(p)].eigenval)
                       ELSE st.rows[p]]

Campaign(plan) ==
    [Idle EXCEPT !.stage = "strain_loop", !.at = "point", !.rows = ExistingRows, !.left = Planned(plan),
                 !.ref = [d \in Directions |-> pointDir[<<d, 0>>].eigenval]]

StartStrain ==
    /\ Callable("strain_loop")
    /\ Calls
    /\ st' = Begun("strain_loop")
    /\ job' = Campaign(st.plan)
    /\ UNCHANGED <<relaxDir, pointDir, files, env>>

\* Mutant: a resampling leaves the fit of the smaller plan completed.
WithFitKept(plan) == [st EXCEPT !.plan = plan, !.done = @ \ {"strain_loop"}]

Resampled(plan) == [st EXCEPT !.plan = plan, !.done = StillCompleted(@, "strain_loop")]

\* A resampling adds strains to a direction up to the limit and runs the campaign.
RefineSampling(d, extra) ==
    /\ job.at = "idle" /\ used.calls < MaxCalls /\ "mobility" \in st.done
    /\ extra # {} /\ extra \cap st.plan[d] = {}
    /\ Cardinality(st.plan[d] \cup extra) <= MaxPoints
    /\ Calls
    /\ LET plan == [st.plan EXCEPT ![d] = @ \cup extra]
       IN  st' = Resampled(plan) /\ job' = Campaign(plan)
    /\ UNCHANGED <<relaxDir, pointDir, files, env>>

\* One direction after the other, its unstrained point first, then by strain.
IsNext(p) ==
    /\ p[1] = CHOOSE d \in {q[1] : q \in job.left} : TRUE
    /\ \/ p[2] = 0
       \/ /\ ZeroOf(p) \notin job.left
          /\ \A q \in job.left : q[1] = p[1] => p[2] <= q[2]

\* Mutant: only what this call completed is skipped.
NeverSkipped(p) == FALSE

Skipped(p) == job.rows[p].is = "done"

SkipPoint ==
    /\ job.at = "point"
    /\ \E p \in job.left :
           /\ IsNext(p) /\ Skipped(p)
           /\ job' = [job EXCEPT !.left = @ \ {p},
                                 !.ref[p[1]] = IF @ = Missing THEN pointDir[ZeroOf(p)].eigenval ELSE @]
    /\ UNCHANGED <<relaxDir, pointDir, files, st, env, used>>

EnterPoint ==
    /\ job.at = "point"
    /\ \E p \in job.left : IsNext(p) /\ ~Skipped(p) /\ job' = OnLadder(job, p)
    /\ UNCHANGED <<relaxDir, pointDir, files, st, env, used>>

PointRelaxed ==
    /\ job.stage = "strain_loop" /\ job.at = "relaxed"
    /\ relaxDir' = PrunedRelaxDir(job.place)
    /\ job' = [job EXCEPT !.at = "scf"]
    /\ UNCHANGED <<pointDir, files, st, env, used>>

\* Mutant: energies an earlier call left are taken for the point's.
ReusedEnergies(p) == IF pointDir[p].energies # Missing THEN pointDir[p].energies ELSE used.calls

MeasuredEnergies(p) == used.calls

PointScf ==
    /\ job.at = "scf"
    /\ UNCHANGED used
    /\ pointDir' = [pointDir EXCEPT ![job.place].energies = MeasuredEnergies(job.place)]
    /\ job' = [job EXCEPT !.at = "band"]
    /\ UNCHANGED <<relaxDir, files, st, env>>

PointBand ==
    /\ job.at = "band"
    /\ UNCHANGED used
    /\ pointDir' = [pointDir EXCEPT ![job.place].eigenval = used.calls]
    /\ job' = [job EXCEPT !.at = "edges"]
    /\ UNCHANGED <<relaxDir, files, st, env>>

\* The point ends with this row and the campaign goes on with the next one.
PointEnds(row) ==
    job' = [job EXCEPT !.rows[job.place] = row, !.left = @ \ {job.place}, !.at = "point", !.place = Main,
                       !.retry = 0]

\* A program that failed leaves its file as it was, unreadable, or readable.
After(n) == {n, Missing, used.calls}

PointFails ==
    /\ job.stage = "strain_loop"
    /\ \/ job.at \in {"lost", "refused"} /\ UNCHANGED <<pointDir, used>>
       \/ /\ job.at = "scf" /\ Fault
          /\ \E n \in After(pointDir[job.place].energies) : pointDir' = [pointDir EXCEPT ![job.place].energies = n]
       \/ /\ job.at = "band" /\ Fault
          /\ \E n \in After(pointDir[job.place].eigenval) : pointDir' = [pointDir EXCEPT ![job.place].eigenval = n]
       \/ /\ job.at = "edges" /\ job.place[2] # 0 /\ job.ref[job.place[1]] = Missing
          /\ UNCHANGED <<pointDir, used>>
    /\ PointEnds(FailedRow)
    /\ UNCHANGED <<relaxDir, files, st, env>>

\* Band edges are read at the k-points of the direction's unstrained point,
\* the one that was on disk when the campaign began if there was one.
PointCompleted ==
    /\ job.at = "edges"
    /\ LET p == job.place
           ref == IF job.ref[p[1]] = Missing THEN pointDir[p].eigenval ELSE job.ref[p[1]]
       IN  /\ p[2] = 0 \/ job.ref[p[1]] # Missing
           /\ job' = [job EXCEPT !.rows[p] = DoneRow(pointDir[p].energies, pointDir[p].eigenval, ref),
                                  !.ref[p[1]] = ref, !.left = @ \ {p}, !.at = "point", !.place = Main,
                                  !.retry = 0]
           /\ pointDir' = [pointDir EXCEPT ![p].energies = Missing]
    /\ UNCHANGED <<relaxDir, files, st, env, used>>

\* All rows go to the state, also when the campaign is not whole.
StrainReturns ==
    /\ job.stage = "strain_loop" /\ job.at = "point" /\ job.left = {}
    /\ IF WholeCampaign(job.rows, st.plan)
       THEN Succeeds("strain_loop", st.made, job.rows)
       ELSE Fails("strain_loop", job.rows)
    /\ UNCHANGED <<relaxDir, pointDir, files, env, used>>

-----------------------------------------------------------------------------
\* What strain_status.csv calls completed.
StatusFile(rows) == CompletedIn(rows)

\* The fit: it needs enough points, and writes strain_status.csv either way.
Mobility ==
    /\ Callable("mobility")
    /\ Calls
    /\ files' = [files EXCEPT !.status = StatusFile(st.rows)]
    /\ \/ /\ \A d \in Directions : FitReady(st.rows, d)
          /\ Succeeds("mobility", st.made, st.rows)
       \/ Fails("mobility", st.rows)
    /\ UNCHANGED <<relaxDir, pointDir, env>>

\* The process dies within a tool call: the files stay, nothing is returned.
Die ==
    /\ job.at # "idle" /\ used.faults < MaxFaults
    /\ used' = [used EXCEPT !.faults = @ + 1]
    /\ job' = Idle
    /\ relaxDir' = IF job.at \in {"retrying", "promoted", "relaxed"}
                   THEN [relaxDir EXCEPT ![job.place].excused = @ + 1] ELSE relaxDir
    /\ UNCHANGED <<pointDir, files, st, env>>

\* The material is started afresh: the saved state goes, the directories stay.
StartFresh ==
    /\ job.at = "idle" /\ used.fresh < MaxFresh
    /\ used' = [used EXCEPT !.fresh = @ + 1]
    /\ st' = FreshState
    /\ job' = Idle
    /\ UNCHANGED <<relaxDir, pointDir, files, env>>

LadderStep == RelaxConverges \/ RelaxGivenUp \/ RelaxFails \/ RetriesExhausted \/ NothingToPromote
              \/ PromoteContcar \/ SaveCheckpoint

SingleStep == (\E s \in Stages : Reused(s) \/ StartRuns(s)) \/ StartRelax \/ RelaxReturns
              \/ RunEndsWell \/ RunEndsBadly

StrainStep ==
    \/ StartStrain \/ SkipPoint \/ EnterPoint \/ PointRelaxed \/ PointScf \/ PointBand
    \/ PointFails \/ PointCompleted \/ StrainReturns
    \/ \E d \in Directions : \E extra \in SUBSET Strains : RefineSampling(d, extra)

Next == LadderStep \/ SingleStep \/ StrainStep \/ Mobility \/ Die \/ StartFresh

Spec == Init /\ [][Next]_vars

-----------------------------------------------------------------------------
Rows == [is : {"none", "failed", "done"}, scf : Nat, band : Nat, ref : Nat]

\* Where a tool call is; the first group is on the ladder of a relaxation.
OnLadderAt == {"relaxing", "retrying", "promoted", "relaxed", "lost", "refused"}
InPointAt == {"scf", "band", "edges"}

RelaxDirs == [contcar : Int, retries : 0..MaxRetries, runs : Nat, excused : Nat]
PointDirs == [energies : Nat, eigenval : Nat]
States == [made : Int, of : [SingleStages -> Int], rows : [Points -> Rows],
           plan : [Directions -> SUBSET Strains], done : SUBSET Stages]
Jobs == [stage : Stages \cup {"none"}, at : OnLadderAt \cup InPointAt \cup {"idle", "running", "point"},
         place : Places, retry : Nat, channel : Nat, rows : [Points -> Rows],
         left : SUBSET Points, ref : [Directions -> Nat]]

\* Types.
TypeOK ==
    /\ relaxDir \in [Places -> RelaxDirs] /\ pointDir \in [Points -> PointDirs]
    /\ files \in [scf : Int, band : Int, effective_mass : Int, status : SUBSET Points]
    /\ st \in States /\ job \in Jobs
    /\ env \in [reuse : BOOLEAN, retry : BOOLEAN]
    /\ used \in [calls : Nat, faults : Nat, fresh : Nat, made : Nat]

\* However a relaxation is interrupted and called again, by this process or the
\* next one, its directory sees one program more than the retries allowed, not
\* counting those that failed in a way that costs no retry.
LadderBounded ==
    \A p \in Places : relaxDir[p].runs <= MaxRetries + 1 + relaxDir[p].excused

\* A completed campaign has every point of the plan in force, and every
\* direction's fit has the points it needs.
CampaignIsWhole ==
    "strain_loop" \in st.done =>
        \A d \in Directions :
            /\ \A e \in st.plan[d] : st.rows[<<d, e>>].is = "done"
            /\ Cardinality({e \in Strains : st.rows[<<d, e>>].is = "done"}) >= MinPoints

\* Until a fresh start, a completed point's energies and bands were computed by
\* one call, whatever died or failed between: no row is pieced together from
\* what two campaigns left in the point's directories.
CompletedWasMeasured ==
    used.fresh = 0 => \A p \in Points : st.rows[p].is = "done" => st.rows[p].scf = st.rows[p].band

\* Without reuse the completed scf, band and mass stages are all of the
\* structure the state names as relaxed, and that relaxation converged.
OutputsAgree ==
    ~env.reuse => \A s \in SingleStages \cap st.done : st.made > 0 /\ st.of[s] = st.made

\* A completed fit lists every strain of the plan in force.
FitIsOfThePlan == "mobility" \in st.done => Planned(st.plan) \subseteq files.status

\* A point once completed keeps its row through every later campaign, failed or
\* not; after a fresh start a row read back from the files keeps what was computed
\* for it, but is read again at the band edges of each campaign's reference.
KeepsCompletedRows ==
    [][st' # FreshState =>
          \A p \in {q \in Points : st.rows[q].is = "done"} :
              LET row == st'.rows[p]
              IN  /\ DoneRow(row.scf, row.band, st.rows[p].ref) = st.rows[p]
                  /\ row.is = "done"
                  /\ used.fresh = 0 => row = st.rows[p]]_vars
=============================================================================
