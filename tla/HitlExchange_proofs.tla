------------------------ MODULE HitlExchange_proofs ------------------------
(***************************************************************************)
(* Proofs about HitlExchange, for any menus, answers, number of polls,     *)
(* escalations and deaths: a run nobody answers ends as its policy says, an*)
(* answer in time is not lost to the default, and the cleanup of a manual  *)
(* fix and the board agree on what is completed.                           *)
(***************************************************************************)
EXTENDS HitlExchange, TLAPS

-----------------------------------------------------------------------------
(* The invariant                                                           *)

\* What a decision may be once it is taken.
Taken ==
    {Plain(a) : a \in Resumptions \cup Endings}
      \cup {ManualFix(Resume(s, p)) : s \in Named \cup Capabilities, p \in Policies}

\* A person is prompted with a menu, about a stage of the board.
RunOK ==
    /\ run = [at |-> run.at, target |-> run.target, stage |-> run.stage, menu |-> run.menu, polls |-> run.polls]
    /\ run.at = "prompted" => run.menu \in Menus
    /\ run.at \in {"prompted", "fixing"} => run.stage \in Capabilities

\* A decision that is applied is one somebody may take.
AnswerOK ==
    /\ answer = Decided(answer.says, answer.source, answer.of)
    /\ run.at \in {"applying", "cleaned"} => answer.says \in Taken
    /\ run.at = "cleaned" => answer.says.action = "manual_fix_resume"
    /\ response.is = "answer" => response.says \in Decisions

\* The default is applied as it was taken, and then the run is over.
DefaultOK ==
    answer.source = "timeout_default" =>
        \/ run.at = "applying" /\ answer.says = Plain(TimeoutAction)
        \/ run.at = "over" /\ status = (IF mode = "abort_on_timeout" THEN "failed" ELSE "skipped")

HitlInv == RunOK /\ AnswerOK /\ DefaultOK

\* What is completed, and not by an answer, has its artifacts; between a cleanup
\* and the reset of the board, what the reset will keep has.
FilesOK ==
    spent.deaths = 0 =>
        /\ run.at # "cleaned" => ((done \ resumed) \cap LeavesFiles) \subseteq files
        /\ run.at = "cleaned" => ((Kept(answer.says.fix.stage) \ resumed) \cap LeavesFiles) \subseteq files

-----------------------------------------------------------------------------
(* Stages                                                                  *)

\* The stages in their order.
LEMMA StagesAre ==
    /\ AllStages = {"prepare", "relax", "scf", "band", "effective_mass", "strain_loop",
                    "refinement", "mobility", "validation", "report"}
    /\ DOMAIN StageOrder = 1 .. 10
BY DEF AllStages, ToSet, StageOrder

\* The position of a stage, each of which is in the order once.
LEMMA PositionsAre ==
    /\ Position("prepare") = 1 /\ Position("relax") = 2 /\ Position("scf") = 3 /\ Position("band") = 4
    /\ Position("effective_mass") = 5 /\ Position("strain_loop") = 6 /\ Position("refinement") = 7
    /\ Position("mobility") = 8 /\ Position("validation") = 9 /\ Position("report") = 10
BY DEF Position, StageOrder

\* A stage that is not the refinement invalidates itself and stages after it.
LEMMA InvalidatesLater ==
    ASSUME NEW s \in AllStages, NEW p \in Policies, NEW c \in InvalidatedFor(s, p), c \in Capabilities
    PROVE  ~ Position(c) < Position(s)
BY StagesAre, PositionsAre DEF InvalidatedFor, Downstream, Policies, Capabilities

\* A cleanup removes nothing of what the reset of the board keeps, unless the
\* stage to resume from is the refinement, which is in the order of the stages
\* but has no task.
LEMMA CleanupSparesKept ==
    ASSUME NEW s \in AllStages \ {"refinement"}, NEW p \in Policies, done \subseteq Capabilities
    PROVE  Kept(s) \cap InvalidatedFor(s, p) = {}
<1>1. CASE s \in Capabilities
  BY <1>1, InvalidatesLater DEF Kept, Before
<1>2. CASE s = "report"
  BY <1>2, StagesAre DEF Kept, Capabilities, InvalidatedFor, Downstream, Policies
<1> QED
  BY <1>1, <1>2 DEF Capabilities

-----------------------------------------------------------------------------
(* Decisions                                                               *)

\* What a person may write, choose or type, and the default, may be taken.
LEMMA DecisionsAreTaken ==
    /\ Decisions \subseteq Taken
    /\ \A a \in Endings : Plain(a) \in Taken
    /\ Plain(TimeoutAction) \in Taken /\ TimeoutAction \in Endings
    /\ Taken \subseteq {Plain(a) : a \in ActionNames}
                         \cup {ManualFix(Resume(s, p)) : s \in AllStages, p \in Policies}
<1>1. Decisions \subseteq Taken
  BY MenusAssumption DEF Decisions, Taken
<1>2. TimeoutAction \in Endings
  BY DEF TimeoutAction, DefaultAction, Endings
<1>3. \A a \in Endings : Plain(a) \in Taken
  BY DEF Taken
<1>4. Taken \subseteq {Plain(a) : a \in ActionNames}
                        \cup {ManualFix(Resume(s, p)) : s \in AllStages, p \in Policies}
  BY MenusAssumption DEF Taken, ActionNames, Capabilities
<1> QED
  BY <1>1, <1>2, <1>3, <1>4

\* A policy proposed for a stage is one of the policies.
LEMMA PoliciesAre == \A current, s : DefaultPolicy(current, s) \in Policies
BY DEF DefaultPolicy, Policies

\* Options of a menu, and the one a closed prompt chooses, name actions.
LEMMA OptionsAre ==
    ASSUME NEW m \in Menus
    PROVE  /\ \A i \in DOMAIN m : m[i] \in ActionNames
           /\ (IF DefaultAction \in ToSet(m) THEN DefaultAction ELSE Head(m)) \in ActionNames
<1>1. m \in Seq(ActionNames) /\ m # <<>>
  BY MenusAssumption
<1>2. DefaultAction \in ActionNames
  BY DEF DefaultAction, ActionNames, Endings
<1> QED
  BY <1>1, <1>2

-----------------------------------------------------------------------------
(* The steps                                                               *)

Sources == {"interactive", "response_file", "timeout_default"}

\* A decision that may be taken, taken by one who may take it, is applied next.
LEMMA ApplyStep ==
    ASSUME TypeOK, HitlInv, NEW d \in Taken, NEW source \in Sources, NEW of \in 0 .. asked, Apply(d, source, of),
           run.at \in {"waiting", "prompted", "fixing"}, source = "timeout_default" => d = Plain(TimeoutAction)
    PROVE  TypeOK' /\ HitlInv' /\ (FilesOK => FilesOK')
<1>1. /\ answer' = [says |-> d, source |-> source, of |-> of]
      /\ run' = [at |-> "applying", target |-> run.target, stage |-> run.stage, menu |-> run.menu, polls |-> 0]
      /\ UNCHANGED <<mode, response, done, resumed, files, status, asked, spent>>
  BY DEF Apply, Decided, HitlInv, RunOK
<1>2. d \in {Plain(a) : a \in ActionNames} \cup {ManualFix(Resume(s, p)) : s \in AllStages, p \in Policies}
  BY DecisionsAreTaken
<1>3. TypeOK'
  BY <1>1, <1>2, BoundsAssumption DEF TypeOK, Sources
<1>4. RunOK' /\ AnswerOK'
  BY <1>1 DEF HitlInv, RunOK, AnswerOK, Decided
<1>5. DefaultOK'
  BY <1>1 DEF DefaultOK, TimeoutAction
<1>6. FilesOK => FilesOK'
  BY <1>1 DEF FilesOK
<1> QED
  BY <1>3, <1>4, <1>5, <1>6 DEF HitlInv

\* An option is applied, or starts the manual fix.
LEMMA ChooseStep ==
    ASSUME TypeOK, HitlInv, NEW option \in ActionNames, Choose(option), run.at = "prompted"
    PROVE  TypeOK' /\ HitlInv' /\ (FilesOK => FilesOK')
<1>1. CASE option = "manual_fix_resume"
  <2>1. /\ run' = [at |-> "fixing", target |-> run.target, stage |-> run.stage, menu |-> run.menu,
                   polls |-> run.polls]
        /\ UNCHANGED <<mode, answer, response, done, resumed, files, status, asked, spent>>
    BY <1>1 DEF Choose, HitlInv, RunOK
  <2>2. TypeOK'
    BY <2>1 DEF TypeOK
  <2>3. RunOK' /\ AnswerOK' /\ DefaultOK' /\ (FilesOK => FilesOK')
    BY <2>1 DEF HitlInv, RunOK, AnswerOK, DefaultOK, FilesOK, Decided, TimeoutAction
  <2> QED
    BY <2>2, <2>3 DEF HitlInv
<1>2. CASE option # "manual_fix_resume"
  <2>1. Apply(Plain(option), "interactive", asked)
    BY <1>2 DEF Choose
  <2>2. Plain(option) \in Taken
    BY <1>2 DEF Taken, ActionNames
  <2>3. asked \in 0 .. asked
    BY BoundsAssumption DEF TypeOK
  <2> QED
    BY <2>1, <2>2, <2>3, ApplyStep DEF Sources
<1> QED
  BY <1>1, <1>2

\* Every way to a decision: a look, the deadline, an option, a command.
LEMMA DecideStep ==
    ASSUME TypeOK, HitlInv, NEW d, Look \/ WindowCloses \/ (\E i \in DOMAIN run.menu : Select(i)) \/ PromptCloses
                                        \/ Command(d)
    PROVE  TypeOK' /\ HitlInv' /\ (FilesOK => FilesOK')
<1> USE DEF Sources
<1>1. asked \in 0 .. asked /\ response.of \in 0 .. asked /\ run.polls \in 0 .. WindowPolls
  BY BoundsAssumption DEF TypeOK
<1>2. CASE Look
  <2>1. run.at = "waiting" /\ run.polls > 0
    BY <1>2 DEF Look
  <2>2. CASE LookAway
    <3>1. /\ run' = [at |-> "waiting", target |-> run.target, stage |-> run.stage, menu |-> run.menu,
                     polls |-> run.polls - 1]
          /\ UNCHANGED <<mode, answer, response, done, resumed, files, status, asked, spent>>
      BY <2>1, <2>2 DEF LookAway, HitlInv, RunOK
    <3>2. run'.polls \in 0 .. WindowPolls
      BY <1>1, <2>1, <3>1, BoundsAssumption
    <3>3. TypeOK'
      BY <2>1, <3>1, <3>2 DEF TypeOK
    <3>4. RunOK' /\ AnswerOK' /\ DefaultOK' /\ (FilesOK => FilesOK')
      BY <2>1, <3>1 DEF HitlInv, RunOK, AnswerOK, DefaultOK, FilesOK, Decided, TimeoutAction
    <3> QED
      BY <3>3, <3>4 DEF HitlInv
  <2>3. CASE ReadFails
    BY <1>1, <2>1, <2>3, DecisionsAreTaken, ApplyStep DEF ReadFails
  <2>4. CASE ReadAnswer
    <3>1. response.says \in Taken
      BY <2>4, DecisionsAreTaken DEF ReadAnswer, HitlInv, AnswerOK
    <3> QED
      BY <1>1, <2>1, <2>4, <3>1, ApplyStep DEF ReadAnswer
  <2> QED
    BY <1>2, <2>2, <2>3, <2>4 DEF Look
<1>3. CASE WindowCloses
  BY <1>1, <1>3, DecisionsAreTaken, ApplyStep DEF WindowCloses
<1>4. ASSUME NEW i \in DOMAIN run.menu, Select(i)
      PROVE  TypeOK' /\ HitlInv' /\ (FilesOK => FilesOK')
  <2>1. run.at = "prompted" /\ run.menu \in Menus /\ Choose(run.menu[i])
    BY <1>4 DEF Select, HitlInv, RunOK
  <2>2. run.menu[i] \in ActionNames
    BY <2>1, OptionsAre
  <2> QED
    BY <2>1, <2>2, ChooseStep
<1>5. CASE PromptCloses
  <2> DEFINE option == IF DefaultAction \in ToSet(run.menu) THEN DefaultAction ELSE Head(run.menu)
  <2>1. run.at = "prompted" /\ run.menu \in Menus /\ Choose(option)
    BY <1>5 DEF PromptCloses, HitlInv, RunOK
  <2>2. option \in ActionNames
    BY <2>1, OptionsAre
  <2> QED
    BY <2>1, <2>2, ChooseStep
<1>6. CASE Command(d)
  <2>1. run.at = "fixing" /\ run.stage \in Capabilities /\ Apply(d, "interactive", asked)
    BY <1>6 DEF Command, HitlInv, RunOK
  <2>2. DefaultRule(run.stage, "custom") = Resume(run.stage, "retry_current_stage_only")
    BY DEF DefaultRule
  <2>3. d \in Taken
    <3>1. CASE d = ManualFix(DefaultRule(run.stage, "custom"))
      BY <2>1, <2>2, <3>1 DEF Taken, Policies
    <3>2. CASE \E s \in Named : d = ManualFix(Resume(s, DefaultPolicy(run.stage, s)))
      BY <3>2, PoliciesAre DEF Taken
    <3> QED
      BY <1>6, <3>1, <3>2, DecisionsAreTaken DEF Command, Endings
  <2> QED
    BY <1>1, <2>1, <2>3, ApplyStep
<1> QED
  BY <1>2, <1>3, <1>4, <1>5, <1>6

\* Between escalations: a stage succeeds, the run ends, the next escalation.
LEMMA WorkStep ==
    ASSUME TypeOK, HitlInv, NEW c \in Capabilities, Work(c) \/ Finish
    PROVE  TypeOK' /\ HitlInv' /\ (FilesOK => FilesOK')
<1>1. CASE Work(c)
  <2>1. /\ run.at = "working" /\ done' = done \cup {c} /\ files' = files \cup ({c} \cap LeavesFiles)
        /\ UNCHANGED <<mode, run, answer, response, resumed, status, asked, spent>>
    BY <1>1 DEF Work
  <2>2. TypeOK'
    BY <2>1 DEF TypeOK
  <2>3. HitlInv' /\ (FilesOK => FilesOK')
    BY <2>1 DEF HitlInv, RunOK, AnswerOK, DefaultOK, FilesOK, TimeoutAction
  <2> QED
    BY <2>2, <2>3
<1>2. CASE Finish
  <2>1. /\ run.at = "working" /\ status' = "completed"
        /\ run' = [at |-> "over", target |-> run.target, stage |-> run.stage, menu |-> run.menu, polls |-> run.polls]
        /\ UNCHANGED <<mode, answer, response, done, resumed, files, asked, spent>>
    BY <1>2 DEF Finish, HitlInv, RunOK
  <2>2. TypeOK'
    BY <2>1 DEF TypeOK
  <2>3. HitlInv' /\ (FilesOK => FilesOK')
    BY <2>1 DEF HitlInv, RunOK, AnswerOK, DefaultOK, FilesOK, TimeoutAction
  <2> QED
    BY <2>2, <2>3
<1> QED
  BY <1>1, <1>2

LEMMA AskStep ==
    ASSUME TypeOK, HitlInv, NEW target \in Targets,
           \/ AskByFile(target)
           \/ \E menu \in Menus : \E stage \in PayloadStage(target) : AskOnTerminal(target, stage, menu)
    PROVE  TypeOK' /\ HitlInv' /\ (FilesOK => FilesOK')
<1>1. /\ run.at = "working" /\ asked < MaxEscalations /\ asked' = asked + 1 /\ status' = "needs_human"
      /\ answer' = NoAnswer /\ UNCHANGED <<mode, response, done, resumed, files, spent>>
  BY DEF AskByFile, AskOnTerminal, Asks
<1>2. PayloadStage(target) \subseteq Capabilities
  BY DEF PayloadStage, Targets
<1>3. \/ run' = [at |-> "waiting", target |-> target, stage |-> Nothing, menu |-> <<>>, polls |-> WindowPolls]
      \/ \E menu \in Menus, stage \in PayloadStage(target) :
             run' = [at |-> "prompted", target |-> target, stage |-> stage, menu |-> menu, polls |-> 0]
  BY DEF AskByFile, AskOnTerminal, Working
<1>4. /\ asked' \in 0 .. MaxEscalations /\ 0 \in 0 .. asked' /\ response'.of \in 0 .. asked'
      /\ 0 \in 0 .. WindowPolls /\ WindowPolls \in 0 .. WindowPolls
  BY <1>1, BoundsAssumption DEF TypeOK
<1>5. TypeOK'
  BY <1>1, <1>2, <1>3, <1>4 DEF TypeOK, NoAnswer, NoDecision, Targets
<1>6. HitlInv' /\ (FilesOK => FilesOK')
  BY <1>1, <1>2, <1>3 DEF HitlInv, RunOK, AnswerOK, DefaultOK, FilesOK, NoAnswer, Decided
<1> QED
  BY <1>5, <1>6

LEMMA RespondStep ==
    ASSUME TypeOK, HitlInv, (\E d \in Decisions : Respond(d)) \/ RespondBadly
    PROVE  TypeOK' /\ HitlInv' /\ (FilesOK => FilesOK')
<1>1. /\ spent.answers < MaxAnswers /\ spent' = [answers |-> spent.answers + 1, deaths |-> spent.deaths]
      /\ UNCHANGED <<mode, run, answer, done, resumed, files, status, asked>>
  BY DEF Respond, RespondBadly, MayWrite, TypeOK
<1>2. \/ \E d \in Decisions : response' = [is |-> "answer", says |-> d, of |-> asked]
      \/ response' = [is |-> "unreadable", says |-> NoDecision, of |-> 0]
  BY DEF Respond, RespondBadly, Unreadable, NoFile
<1>3. spent' \in [answers : 0 .. MaxAnswers, deaths : 0 .. MaxDeaths] /\ 0 \in 0 .. asked /\ asked \in 0 .. asked
  BY <1>1, BoundsAssumption DEF TypeOK
<1>4. TypeOK'
  BY <1>1, <1>2, <1>3 DEF TypeOK
<1>5. HitlInv' /\ (FilesOK => FilesOK')
  BY <1>1, <1>2 DEF HitlInv, RunOK, AnswerOK, DefaultOK, FilesOK, TimeoutAction, Kept
<1> QED
  BY <1>4, <1>5

LEMMA EndingStep ==
    ASSUME TypeOK, HitlInv, ApplyEnding
    PROVE  TypeOK' /\ HitlInv' /\ (FilesOK => FilesOK')
<1>1. /\ run.at = "applying" /\ answer.says.action \in Endings
      /\ status' = IF answer.says.action = "skip_material" THEN "skipped" ELSE "failed"
      /\ run' = [at |-> "over", target |-> run.target, stage |-> run.stage, menu |-> run.menu, polls |-> run.polls]
      /\ UNCHANGED <<mode, answer, response, done, resumed, files, asked, spent>>
  BY DEF ApplyEnding, HitlInv, RunOK
<1>2. TypeOK'
  BY <1>1 DEF TypeOK
<1>3. DefaultOK'
  BY <1>1 DEF HitlInv, DefaultOK, TimeoutAction, DefaultAction, Plain
<1>4. RunOK' /\ AnswerOK' /\ (FilesOK => FilesOK')
  BY <1>1 DEF HitlInv, RunOK, AnswerOK, FilesOK
<1> QED
  BY <1>2, <1>3, <1>4 DEF HitlInv

LEMMA CleanUpStep ==
    ASSUME TypeOK, HitlInv, CleanUp
    PROVE  TypeOK' /\ HitlInv' /\ ("refinement" \notin Named /\ FilesOK => FilesOK')
<1> DEFINE s == answer.says.fix.stage
           p == answer.says.fix.policy
<1>1. /\ run.at = "applying" /\ answer.says.action = "manual_fix_resume"
      /\ files' = files \ InvalidatedFor(s, p)
      /\ run' = [at |-> "cleaned", target |-> run.target, stage |-> run.stage, menu |-> run.menu, polls |-> run.polls]
      /\ UNCHANGED <<mode, answer, response, done, resumed, status, asked, spent>>
  BY DEF CleanUp, HitlInv, RunOK
<1>2. TypeOK'
  BY <1>1 DEF TypeOK
<1>3. RunOK' /\ AnswerOK'
  BY <1>1 DEF HitlInv, RunOK, AnswerOK
<1>4. DefaultOK'
  BY <1>1 DEF HitlInv, DefaultOK, TimeoutAction, DefaultAction, Plain
<1>5. ASSUME "refinement" \notin Named, FilesOK
      PROVE  FilesOK'
  <2>1. answer.says \in Taken
    BY <1>1 DEF HitlInv, AnswerOK
  <2>2. s \in AllStages \ {"refinement"} /\ p \in Policies
    BY <1>1, <1>5, <2>1, MenusAssumption DEF Taken, Plain, ManualFix, Resume, Resumptions, Endings, Capabilities
  <2>3. Kept(s) \cap InvalidatedFor(s, p) = {} /\ Kept(s) \subseteq done
    BY <2>2, CleanupSparesKept DEF TypeOK, Kept
  <2>4. Kept(s)' = Kept(s)
    BY <1>1 DEF Kept
  <2> HIDE DEF s, p
  <2>5. ASSUME spent.deaths = 0
        PROVE  ((Kept(s) \ resumed) \cap LeavesFiles) \subseteq files'
    BY <1>1, <1>5, <2>3, <2>5 DEF FilesOK
  <2> QED
    BY <1>1, <2>4, <2>5 DEF FilesOK, s
<1> QED
  BY <1>2, <1>3, <1>4, <1>5 DEF HitlInv

LEMMA ResumeStep ==
    ASSUME TypeOK, HitlInv, ApplyResume
    PROVE  TypeOK' /\ HitlInv' /\ (FilesOK => FilesOK')
<1> DEFINE kept == Kept(ResumeStage)
           marked == {ResumeStage} \cap Capabilities
<1>1. /\ \/ run.at = "applying" /\ answer.says.action \in Resumptions
         \/ run.at = "cleaned" /\ answer.says.action = "manual_fix_resume"
      /\ done' = kept \cup marked /\ resumed' = (resumed \cap kept) \cup marked
      /\ status' = "running" /\ run' = Working
      /\ answer' = [says |-> NoDecision, source |-> answer.source, of |-> answer.of]
      /\ UNCHANGED <<mode, response, files, asked, spent>>
  BY DEF ApplyResume, HitlInv, AnswerOK, Decided
<1>2. kept \subseteq done
  BY DEF Kept
<1>3. TypeOK'
  <2>1. done' \subseteq Capabilities /\ resumed' \subseteq done'
    BY <1>1, <1>2 DEF TypeOK
  <2>2. /\ run'.at = "working" /\ run'.target \in Targets /\ run'.stage \in Targets /\ run'.polls \in 0 .. WindowPolls
    BY <1>1, BoundsAssumption DEF Working, Targets
  <2> QED
    BY <1>1, <2>1, <2>2 DEF TypeOK
<1>4. RunOK' /\ AnswerOK'
  BY <1>1 DEF HitlInv, RunOK, AnswerOK, Working, Decided
<1>5. answer.source # "timeout_default"
  BY <1>1 DEF HitlInv, DefaultOK, TimeoutAction, DefaultAction, Plain, Resumptions
<1>6. DefaultOK'
  BY <1>1, <1>5 DEF DefaultOK
<1>7. ASSUME FilesOK
      PROVE  FilesOK'
  <2>1. run.at = "cleaned" => ResumeStage = answer.says.fix.stage
    BY <1>1 DEF ResumeStage
  <2>2. spent.deaths = 0 => ((kept \ resumed) \cap LeavesFiles) \subseteq files
    BY <1>1, <1>2, <1>7, <2>1 DEF FilesOK
  <2> QED
    BY <1>1, <2>2 DEF FilesOK, Working
<1> QED
  BY <1>3, <1>4, <1>6, <1>7 DEF HitlInv

LEMMA DeathStep ==
    ASSUME TypeOK, HitlInv, Die \/ Restart
    PROVE  TypeOK' /\ HitlInv' /\ (FilesOK => FilesOK')
<1>1. CASE Die
  <2>1. /\ run.at \notin {"over", "down"} /\ spent.deaths < MaxDeaths
        /\ run' = [at |-> "down", target |-> Nothing, stage |-> Nothing, menu |-> <<>>, polls |-> 0]
        /\ answer' = NoAnswer /\ status' = "running"
        /\ spent' = [answers |-> spent.answers, deaths |-> spent.deaths + 1]
        /\ UNCHANGED <<mode, response, done, resumed, files, asked>>
    BY <1>1 DEF Die, Working, TypeOK
  <2>2. /\ spent' \in [answers : 0 .. MaxAnswers, deaths : 0 .. MaxDeaths] /\ spent'.deaths # 0
        /\ 0 \in 0 .. asked /\ 0 \in 0 .. WindowPolls
    BY <2>1, BoundsAssumption DEF TypeOK
  <2>3. TypeOK'
    BY <2>1, <2>2 DEF TypeOK, NoAnswer, NoDecision, Targets
  <2>4. HitlInv' /\ FilesOK'
    BY <2>1, <2>2 DEF HitlInv, RunOK, AnswerOK, DefaultOK, FilesOK, NoAnswer, Decided
  <2> QED
    BY <2>3, <2>4
<1>2. CASE Restart
  <2>1. /\ run.at = "down" /\ run' = Working
        /\ UNCHANGED <<mode, answer, response, done, resumed, files, status, asked, spent>>
    BY <1>2 DEF Restart
  <2>2. 0 \in 0 .. WindowPolls
    BY BoundsAssumption
  <2>3. TypeOK'
    BY <2>1, <2>2 DEF TypeOK, Working, Targets
  <2>4. HitlInv' /\ (FilesOK => FilesOK')
    BY <2>1 DEF HitlInv, RunOK, AnswerOK, DefaultOK, FilesOK, Working, Decided
  <2> QED
    BY <2>3, <2>4
<1> QED
  BY <1>1, <1>2

-----------------------------------------------------------------------------
(* The theorems                                                            *)

LEMMA HitlInit == Init => TypeOK /\ HitlInv /\ FilesOK
<1> SUFFICES ASSUME Init
             PROVE  TypeOK /\ HitlInv /\ FilesOK
  OBVIOUS
<1>1. TypeOK
  BY BoundsAssumption DEF Init, TypeOK, Working, NoAnswer, NoDecision, NoFile, Targets
<1>2. HitlInv /\ FilesOK
  BY DEF Init, HitlInv, RunOK, AnswerOK, DefaultOK, FilesOK, Working, NoAnswer, NoFile, Decided
<1> QED
  BY <1>1, <1>2

LEMMA HitlStep ==
    TypeOK /\ HitlInv /\ [Next]_vars =>
        TypeOK' /\ HitlInv' /\ ("refinement" \notin Named /\ FilesOK => FilesOK')
<1> SUFFICES ASSUME TypeOK, HitlInv, [Next]_vars
             PROVE  TypeOK' /\ HitlInv' /\ ("refinement" \notin Named /\ FilesOK => FilesOK')
  OBVIOUS
<1>1. CASE UNCHANGED vars
  <2>1. TypeOK'
    BY <1>1 DEF vars, TypeOK
  <2>2. HitlInv' /\ (FilesOK => FilesOK')
    BY <1>1 DEF vars, HitlInv, RunOK, AnswerOK, DefaultOK, FilesOK, TimeoutAction, Kept
  <2> QED
    BY <2>1, <2>2
<1>2. CASE (\E c \in Capabilities : Work(c)) \/ Finish
  <2>1. "prepare" \in Capabilities
    BY StagesAre DEF Capabilities
  <2> QED
    BY <1>2, <2>1, WorkStep
<1>3. ASSUME NEW target \in Targets,
             \/ AskByFile(target)
             \/ \E menu \in Menus : \E stage \in PayloadStage(target) : AskOnTerminal(target, stage, menu)
      PROVE  TypeOK' /\ HitlInv' /\ (FilesOK => FilesOK')
  BY <1>3, AskStep
<1>4. CASE (\E d \in Decisions : Respond(d)) \/ RespondBadly
  BY <1>4, RespondStep
<1>5. CASE Waits \/ (\E i \in 1 .. Cardinality(ActionNames) : Select(i)) \/ PromptCloses \/ \E d : Command(d)
  BY <1>5, DecideStep DEF Waits, Select
<1>6. CASE Applies
  BY <1>6, EndingStep, CleanUpStep, ResumeStep DEF Applies
<1>7. CASE Die \/ Restart
  BY <1>7, DeathStep
<1> QED
  BY <1>1, <1>2, <1>3, <1>4, <1>5, <1>6, <1>7 DEF Next

\* Both are kept, and what follows from them.
LEMMA HitlAlways == Spec => []TypeOK /\ []HitlInv
<1>1. TypeOK /\ HitlInv /\ [Next]_vars => TypeOK' /\ HitlInv'
  BY HitlStep
<1> QED
  BY HitlInit, <1>1, PTL DEF Spec

\* Every variable has its type, whoever answers what and when.
THEOREM TypeCorrect == Spec => []TypeOK
BY HitlAlways, PTL

\* A run that gets no readable answer ends its material as its policy says.
THEOREM EndsUnanswered == Spec => []UnansweredEnds
<1>1. HitlInv => UnansweredEnds
  BY DEF HitlInv, DefaultOK, UnansweredEnds
<1> QED
  BY <1>1, HitlAlways, PTL

\* The default is not taken over an answer that was there at the last look.
THEOREM TakesAnswersInTime == Spec => AnswerInTimeCounts
<1> DEFINE Fair == answer'.source = "timeout_default" /\ answer.source # "timeout_default"
                       => response.is # "answer" \/ run.polls = 0
<1>1. TypeOK /\ HitlInv /\ [Next]_vars => [Fair]_vars
  <2> SUFFICES ASSUME TypeOK, HitlInv, Next, answer'.source = "timeout_default", answer.source # "timeout_default"
               PROVE  response.is # "answer" \/ run.polls = 0
    OBVIOUS
  <2>1. CASE Look
    BY <2>1 DEF Look, LookAway, ReadFails, ReadAnswer, Apply, Decided
  <2>2. CASE WindowCloses
    BY <2>2 DEF WindowCloses
  <2>3. ASSUME NEW option, Choose(option)
        PROVE  FALSE
    BY <2>3 DEF Choose, Apply, Decided
  <2>4. ASSUME NEW d, Command(d)
        PROVE  FALSE
    BY <2>4 DEF Command, Apply, Decided
  <2>5. CASE Applies
    BY <2>5 DEF Applies, ApplyEnding, CleanUp, ApplyResume, HitlInv, AnswerOK, Decided
  <2>6. ASSUME NEW target \in Targets, Asks(target)
        PROVE  FALSE
    BY <2>6 DEF Asks, NoAnswer
  <2>7. CASE Die \/ Restart
    BY <2>7 DEF Die, Restart, NoAnswer
  <2>8. CASE (\E c \in Capabilities : Work(c)) \/ Finish \/ (\E d \in Decisions : Respond(d)) \/ RespondBadly
    BY <2>8 DEF Work, Finish, Respond, RespondBadly
  <2> QED
    BY <2>1, <2>2, <2>3, <2>4, <2>5, <2>6, <2>7, <2>8 
       DEF Next, Waits, AskByFile, AskOnTerminal, Select, PromptCloses
<1> QED
  BY <1>1, HitlAlways, PTL DEF Spec, AnswerInTimeCounts

\* The cleanup of a manual fix and the board agree on what is completed, if no
\* fix resumes at the refinement: its contract invalidates what follows it, but
\* it has no task from which the board would be reset.
THEOREM KeepsCompletedFiles ==
    ASSUME "refinement" \notin Named
    PROVE  Spec => []CompletedKeepsFiles
<1>1. TypeOK /\ HitlInv /\ FilesOK /\ [Next]_vars => FilesOK'
  BY HitlStep
<1>2. FilesOK => CompletedKeepsFiles
  BY DEF FilesOK, CompletedKeepsFiles
<1> QED
  BY <1>1, <1>2, HitlInit, HitlAlways, PTL DEF Spec
=============================================================================
