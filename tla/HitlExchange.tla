---------------------------- MODULE HitlExchange ----------------------------
(***************************************************************************)
(* The exchange between a material's run and a person: an escalation writes*)
(* a payload (hitl/escalation.py), then waits for an answer, on a terminal *)
(* or in a response file, and the answer ends the material or resumes it at*)
(* a stage, after a cleanup of the working directory (hitl/cleanup.py).    *)
(*                                                                         *)
(* The answer may be written at any time, by the console or by hand: no    *)
(* writer looks whether the run is waiting, and the file is never removed. *)
(* The artifacts of a stage are one member of `files`; what the stages     *)
(* compute, and how the council comes to escalate, is left to MaterialRun. *)
(***************************************************************************)
EXTENDS StageContracts, FiniteSets

CONSTANTS
    Menus,          \* the option lists an escalation may carry
    Spoken,         \* the actions a person may write
    Named,          \* the stages a person may name in a manual fix
    WindowPolls,    \* looks at the response file before its deadline passes
    MaxEscalations, \* bound: escalations in a behaviour
    MaxAnswers,     \* bound: response files written
    MaxDeaths       \* bound: process deaths

\* The stages with a task on the board, and those that leave artifacts.
Capabilities == AllStages \ {"refinement", "report"}
LeavesFiles == Capabilities \ {"prepare"}

\* An escalation may name no target.
Nothing == "none"
Targets == Capabilities \cup {Nothing}

Resumptions == {"retry_current_stage", "rerun_previous_stage", "modify_params_and_retry",
                "copy_contcar_to_poscar_and_retry", "skip_point"}
Endings == {"skip_material", "abort_task"}
ActionNames == Resumptions \cup Endings \cup {"manual_fix_resume"}

ASSUME MenusAssumption ==
    /\ Menus \subseteq Seq(ActionNames) \ {<<>>}
    /\ Spoken \subseteq Resumptions \cup Endings /\ Named \subseteq AllStages

ASSUME BoundsAssumption ==
    {WindowPolls, MaxEscalations, MaxAnswers, MaxDeaths} \subseteq Nat

VARIABLES
    mode,       \* hitl_policy, "interactive" meaning with a terminal to prompt on
    run,        \* the process: where it is, the target, the options, the looks left
    answer,     \* the decision being applied: action, instruction, source, of
    response,   \* human_escalation_response.json: nothing, a decision, or unreadable
    done,       \* the stages whose tasks are completed
    resumed,    \* history: those of them an answer marked, no tool
    files,      \* the stages whose artifacts are in the working directory
    status,     \* workflow.run_status
    asked,      \* payloads written so far: the last is the one on disk
    spent       \* bound counters: answers, deaths

vars == <<mode, run, answer, response, done, resumed, files, status, asked, spent>>

Plain(action) == [action |-> action, fix |-> Resume(Nothing, Nothing)]
ManualFix(fix) == [action |-> "manual_fix_resume", fix |-> fix]

\* What a person may write: a manual fix names any stage and any policy, and
\* is compared with nothing, since the writer does not know the current stage.
Decisions ==
    {Plain(a) : a \in Spoken}
      \cup {ManualFix(Resume(s, p)) : s \in Named, p \in Policies}

NoDecision == Plain("none")
NoFile == [is |-> "none", says |-> NoDecision, of |-> 0]
Unreadable == [NoFile EXCEPT !.is = "unreadable"]

\* of: the payload the decision answers, the last one written before it.
NoAnswer == [says |-> NoDecision, source |-> "none", of |-> 0]
Decided(d, source, of) == [says |-> d, source |-> source, of |-> of]

Working == [at |-> "working", target |-> Nothing, stage |-> Nothing, menu |-> <<>>, polls |-> 0]

TypeOK ==
    /\ mode \in {"interactive", "skip_on_timeout", "abort_on_timeout"}
    /\ run.at \in {"working", "waiting", "prompted", "fixing", "applying", "cleaned", "over", "down"}
    /\ run.target \in Targets /\ run.stage \in Targets
    /\ run.polls \in 0 .. WindowPolls
    /\ answer.source \in {"none", "interactive", "response_file", "timeout_default"}
    /\ answer.of \in 0 .. asked
    /\ answer.says \in {Plain(a) : a \in ActionNames} \cup {NoDecision}
                        \cup {ManualFix(Resume(s, p)) : s \in AllStages, p \in Policies}
    /\ response.is \in {"none", "answer", "unreadable"} /\ response.of \in 0 .. asked
    /\ done \subseteq Capabilities /\ resumed \subseteq done
    /\ files \subseteq LeavesFiles
    /\ status \in {"running", "needs_human", "skipped", "failed", "completed"}
    /\ (status \in {"skipped", "failed", "completed"}) <=> (run.at = "over")
    /\ asked \in 0 .. MaxEscalations
    /\ spent \in [answers : 0 .. MaxAnswers, deaths : 0 .. MaxDeaths]

Init ==
    /\ mode \in {"interactive", "skip_on_timeout", "abort_on_timeout"}
    /\ run = Working
    /\ answer = NoAnswer
    /\ response = NoFile
    /\ done = {} /\ resumed = {} /\ files = {}
    /\ status = "running"
    /\ asked = 0
    /\ spent = [answers |-> 0, deaths |-> 0]

-----------------------------------------------------------------------------
(* The run between escalations.                                            *)

Before(s) == {c \in Capabilities : Position(c) < Position(s)}

\* The next stage succeeds.
Work(c) ==
    /\ run.at = "working" /\ status = "running"
    /\ c \notin done /\ Before(c) \subseteq done
    /\ done' = done \cup {c}
    /\ files' = files \cup ({c} \cap LeavesFiles)
    /\ UNCHANGED <<mode, run, answer, response, resumed, status, asked, spent>>

Finish ==
    /\ run.at = "working" /\ done = Capabilities
    /\ run' = [run EXCEPT !.at = "over"]
    /\ status' = "completed"
    /\ UNCHANGED <<mode, answer, response, done, resumed, files, asked, spent>>

\* The payload's stage: the target, else one the summaries or logs suggest.
PayloadStage(target) == IF target # Nothing THEN {target} ELSE Capabilities

\* The payload is written under every policy, before it is known who answers.
Asks(target) ==
    /\ run.at = "working" /\ status = "running" /\ asked < MaxEscalations
    /\ target # Nothing => Before(target) \subseteq done
    /\ asked' = asked + 1
    /\ status' = "needs_human"
    /\ answer' = NoAnswer
    /\ UNCHANGED <<mode, response, done, resumed, files, spent>>

AskOnTerminal(target, stage, menu) ==
    /\ mode = "interactive" /\ Asks(target)
    /\ run' = [Working EXCEPT !.at = "prompted", !.target = target, !.stage = stage, !.menu = menu]

\* Nobody is shown the options: what stage the payload names makes no difference.
AskByFile(target) ==
    /\ mode # "interactive" /\ Asks(target)
    /\ run' = [Working EXCEPT !.at = "waiting", !.target = target, !.polls = WindowPolls]

\* A file may be written at any time; only a run without a terminal reads it.
MayWrite == mode # "interactive" /\ spent.answers < MaxAnswers /\ run.at # "over"

\* The console or a person writes the response file, atomically.
Respond(d) ==
    /\ MayWrite
    /\ response' = [is |-> "answer", says |-> d, of |-> asked]
    /\ spent' = [spent EXCEPT !.answers = @ + 1]
    /\ UNCHANGED <<mode, run, answer, done, resumed, files, status, asked>>

\* Written by other means, the file may be seen before it is whole.
RespondBadly ==
    /\ MayWrite
    /\ response' = Unreadable
    /\ spent' = [spent EXCEPT !.answers = @ + 1]
    /\ UNCHANGED <<mode, run, answer, done, resumed, files, status, asked>>

-----------------------------------------------------------------------------
(* Waiting for the file.                                                   *)

\* Whoever decides, the run goes on to apply the decision.
Apply(d, source, of) ==
    /\ answer' = Decided(d, source, of)
    /\ run' = [run EXCEPT !.at = "applying", !.polls = 0]
    /\ UNCHANGED <<mode, response, done, resumed, files, status, asked, spent>>

DefaultAction == "skip_material"

\* Mutant: the stage is tried once more before the material is given up.
TimeoutRetries == IF mode = "abort_on_timeout" THEN "abort_task" ELSE "retry_current_stage"

TimeoutAction == IF mode = "abort_on_timeout" THEN "abort_task" ELSE DefaultAction

\* Before the deadline: a look at the file, then a second's sleep.
LookAway ==
    /\ response.is = "none"
    /\ run' = [run EXCEPT !.polls = @ - 1]
    /\ UNCHANGED <<mode, answer, response, done, resumed, files, status, asked, spent>>

\* Mutant: a file that cannot be read is looked at again, and the wait extended.
ReadAgain ==
    /\ response.is = "unreadable"
    /\ run' = [run EXCEPT !.polls = WindowPolls]
    /\ UNCHANGED <<mode, answer, response, done, resumed, files, status, asked, spent>>

\* A file that cannot be read counts as no answer, and ends the wait at once.
ReadFails ==
    /\ response.is = "unreadable"
    /\ Apply(Plain(TimeoutAction), "timeout_default", asked)

ReadAnswer ==
    /\ response.is = "answer"
    /\ Apply(response.says, "response_file", response.of)

\* Mutant: the deadline is checked after the sleep, before the file is looked at.
LookOnce ==
    /\ run.at = "waiting" /\ run.polls > 0
    /\ IF run.polls > 1 THEN LookAway \/ ReadFails \/ ReadAnswer
       ELSE Apply(Plain(TimeoutAction), "timeout_default", asked)

Look ==
    /\ run.at = "waiting" /\ run.polls > 0
    /\ LookAway \/ ReadFails \/ ReadAnswer

\* The deadline passed during the last sleep: the file is not looked at again.
WindowCloses ==
    /\ run.at = "waiting" /\ run.polls = 0
    /\ Apply(Plain(TimeoutAction), "timeout_default", asked)

-----------------------------------------------------------------------------
(* Prompting on the terminal.                                              *)

Choose(option) ==
    IF option = "manual_fix_resume"
    THEN /\ run' = [run EXCEPT !.at = "fixing"]
         /\ UNCHANGED <<mode, answer, response, done, resumed, files, status, asked, spent>>
    ELSE Apply(Plain(option), "interactive", asked)

\* An empty line, a closed terminal and a number out of range choose the first.
Select(i) ==
    /\ run.at = "prompted" /\ i \in DOMAIN run.menu
    /\ Choose(run.menu[i])

PromptCloses ==
    /\ run.at = "prompted"
    /\ Choose(IF DefaultAction \in ToSet(run.menu) THEN DefaultAction ELSE Head(run.menu))

\* Commands the loop accepts; it prompts again, without a time limit, on others.
\* A stage after the payload's one is refused by the resume contracts.
Command(d) ==
    /\ run.at = "fixing"
    /\ \/ d = Plain("skip_material")
       \/ d = Plain("abort_task")
       \/ d = ManualFix(DefaultRule(run.stage, "custom"))
       \/ \E s \in Named :
            LET policy == DefaultPolicy(run.stage, s)
            IN  /\ RequestValid(run.stage, s, policy)
                /\ d = ManualFix(Resume(s, policy))
    /\ Apply(d, "interactive", asked)

-----------------------------------------------------------------------------
(* Applying the decision.                                                  *)

\* The material ends as the answer says.
ApplyEnding ==
    /\ run.at = "applying" /\ answer.says.action \in Endings
    /\ status' = IF answer.says.action = "skip_material" THEN "skipped" ELSE "failed"
    /\ run' = [run EXCEPT !.at = "over"]
    /\ UNCHANGED <<mode, answer, response, done, resumed, files, asked, spent>>

\* apply_cleanup removes the artifacts of the stages the policy invalidates.
CleanUp ==
    /\ run.at = "applying" /\ answer.says.action = "manual_fix_resume"
    /\ files' = files \ InvalidatedFor(answer.says.fix.stage, answer.says.fix.policy)
    /\ run' = [run EXCEPT !.at = "cleaned"]
    /\ UNCHANGED <<mode, answer, response, done, resumed, status, asked, spent>>

\* Mutant: a manual fix resets the board from the stage that was escalated.
TargetStage == run.target

\* The stage to resume from; the previous one may be no capability.
ResumeStage ==
    CASE answer.says.action = "manual_fix_resume" -> answer.says.fix.stage
      [] answer.says.action = "rerun_previous_stage" /\ run.target # Nothing -> Previous(run.target)
      [] OTHER -> run.target

\* reset_from_capability keeps what is before the stage, and leaves the board
\* alone when the stage is no capability.
Kept(stage) == IF stage \in Capabilities THEN done \cap Before(stage) ELSE done

\* The board is reset, and the round's reflection marks the stage completed: an
\* answer is recorded as a success of the stage to resume from.
ApplyResume ==
    LET marked == {ResumeStage} \cap Capabilities
    IN  /\ \/ run.at = "applying" /\ answer.says.action \in Resumptions
           \/ run.at = "cleaned"
        /\ done' = Kept(ResumeStage) \cup marked
        /\ resumed' = (resumed \cap Kept(ResumeStage)) \cup marked
        /\ status' = "running"
        /\ run' = Working
        /\ answer' = [answer EXCEPT !.says = NoDecision]
        /\ UNCHANGED <<mode, response, files, asked, spent>>

\* The process dies and the next one loads what the last persist saved: the
\* board and the status from before the escalation.
Die ==
    /\ run.at \notin {"over", "down"} /\ spent.deaths < MaxDeaths
    /\ run' = [Working EXCEPT !.at = "down"]
    /\ answer' = NoAnswer
    /\ status' = "running"
    /\ spent' = [spent EXCEPT !.deaths = @ + 1]
    /\ UNCHANGED <<mode, response, done, resumed, files, asked>>

Restart ==
    /\ run.at = "down"
    /\ run' = Working
    /\ UNCHANGED <<mode, answer, response, done, resumed, files, status, asked, spent>>

-----------------------------------------------------------------------------
Waits == Look \/ WindowCloses
Applies == ApplyEnding \/ CleanUp \/ ApplyResume

Next ==
    \/ \E c \in Capabilities : Work(c)
    \/ Finish
    \/ \E target \in Targets : AskByFile(target)
    \/ \E target \in Targets, menu \in Menus :
            \E stage \in PayloadStage(target) : AskOnTerminal(target, stage, menu)
    \/ \E d \in Decisions : Respond(d)
    \/ RespondBadly
    \/ Waits
    \/ \E i \in 1 .. Cardinality(ActionNames) : Select(i)
    \/ PromptCloses
    \/ \E d \in Decisions \cup {Plain(a) : a \in Endings} \cup {ManualFix(DefaultRule(c, "custom")) : c \in Capabilities} :
            Command(d)
    \/ Applies
    \/ Die
    \/ Restart

Spec == Init /\ [][Next]_vars

\* The process goes on by itself while it waits for a file, applies a decision
\* or has been started again; nobody need answer.
FairSpec == Spec /\ WF_vars(Waits) /\ WF_vars(Applies) /\ WF_vars(Restart)

-----------------------------------------------------------------------------
(* Properties                                                              *)

\* Unless a process died over a cleanup or a fix named the refinement, which has a
\* contract and no task, the stages that count as completed have their artifacts,
\* whatever answers resumed the run where; those an answer itself marked completed
\* need not.
CompletedKeepsFiles ==
    spent.deaths = 0 /\ run.at # "cleaned" => ((done \ resumed) \cap LeavesFiles) \subseteq files

\* A run that waits for a file and gets no readable answer ends its material,
\* as its policy says, whatever the council recommended.
UnansweredEnds ==
    answer.source = "timeout_default" /\ run.at # "applying" =>
        status = (IF mode = "abort_on_timeout" THEN "failed" ELSE "skipped")

\* The default is taken only when there was no answer, or one written after the
\* last look.
AnswerInTimeCounts ==
    [][answer'.source = "timeout_default" /\ answer.source # "timeout_default"
            => response.is # "answer" \/ run.polls = 0]_vars

\* A wait for the response file ends, whoever writes what into it.
WaitEnds == run.at = "waiting" ~> run.at # "waiting"

\* An answer to one escalation, taken from the file, does not answer the next.
AnswersItsQuestion ==
    answer.source = "response_file" /\ answer.of > 0 => answer.of = asked
=============================================================================
