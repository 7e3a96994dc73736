------------------------------ MODULE Council ------------------------------
(***************************************************************************)
(* One council of a material's run (AgenticMaterialController._deliberate):*)
(* the roles its mode calls for propose side by side, reviewers judge the  *)
(* proposals, a critic joins where there is dissent, and the orchestrator  *)
(* chooses one action or none (agents/orchestrator.py).  A role that cannot*)
(* answer is left out, or, if it is critical, ends the attempt: the council*)
(* is then reopened once, on the answers it already has.                   *)
(*                                                                         *)
(* The state of the material does not change during a council; of it there *)
(* is what the roles see of the actions: which are legal, which costly.    *)
(* What becomes of the decision is MaterialRun's.                          *)
(***************************************************************************)
EXTENDS RoleCalls, FiniteSets, Sequences, SequencesExt

CONSTANTS
    Modes,      \* the council modes considered
    Policies,   \* the council policy modes considered
    Actions,    \* actions that may be proposed
    Costly,     \* those among them that cost much
    LegalSets,  \* what the legality check may allow of them
    Namesakes   \* whether planner and recovery may name their proposals alike

ASSUME CouncilAssumption ==
    /\ Modes \subseteq {"failure_council", "validation_followup_council", "segment_council"}
    /\ Policies \subseteq {"strict", "balanced", "permissive"}
    /\ Costly \subseteq Actions /\ LegalSets \subseteq SUBSET Actions
    /\ Namesakes \in BOOLEAN

VARIABLES
    mode,       \* council_mode
    policy,     \* council_policy_mode
    legal,      \* the actions the legality check allows
    attempt,    \* council_attempt
    phase,      \* where the attempt is, or how the council ended
    proposals,  \* the proposals made in this attempt, in order
    reviews,    \* the reviews given in this attempt
    answer,     \* answer[r]: what role r has answered in this phase
    cache,      \* council_output_cache: answers with what they were given on
    lapses,     \* lapses[a]: the critical role that ended attempt a by failing
    said,       \* history: every proposal a role has made
    decision    \* the arbitration record

council == <<mode, policy, legal, attempt, phase, proposals, reviews, answer, cache, lapses, said, decision>>
vars == <<serialized, call, council>>

Endings == {"agreed", "noop", "failed"}

\* Whose proposals the mode calls for, the critical role first.
Proposers ==
    CASE mode = "failure_council" -> <<"recovery", "planner", "executor">>
      [] mode = "validation_followup_council" -> <<"validation", "refinement", "executor">>
      [] mode = "segment_council" -> <<"planner", "executor">>

\* Ids are the agents' own, but a planner's and a recovery's are their models'.
IdOf(r) == IF Namesakes /\ r \in {"planner", "recovery"} THEN "first" ELSE r
Ids == {IdOf(r) : r \in Roles} \cup {"override", "deterministic", "none"}

Proposal(r, action) == [by |-> r, id |-> IdOf(r), action |-> action]
Review(r, objects) == [by |-> r, on |-> proposals, objects |-> objects]
Decision(action, id) == [action |-> action, id |-> id, on |-> proposals, heard |-> reviews]

NoAction == "none"
NoDecision == [action |-> NoAction, id |-> "none", on |-> <<>>, heard |-> {}]
Noop == Decision(NoAction, "none")

AllProposals == [by : Roles, id : Ids, action : Actions]

TypeOK ==
    /\ CallTypeOK
    /\ mode \in Modes /\ policy \in Policies /\ legal \in LegalSets
    /\ attempt \in 1 .. 2
    /\ phase \in {"propose", "review", "criticise", "arbitrate"} \cup Endings
    /\ proposals \in Seq(AllProposals) /\ Len(proposals) <= Len(Proposers)
    /\ \A r \in reviews : r.by \in Roles /\ r.objects \in BOOLEAN
    /\ lapses \in [1 .. 2 -> Roles \cup {"none"}]
    /\ said \subseteq AllProposals
    /\ decision.action \in Actions \cup {NoAction, "escalate_human"} /\ decision.id \in Ids
    /\ decision.action = NoAction <=> phase # "agreed"

-----------------------------------------------------------------------------
(* Who is heard in a phase, and on what.                                   *)

IsCostly == \E p \in ToSet(proposals) : p.action \in Costly
Distinct == {p.action : p \in ToSet(proposals)}
Objected == \E r \in reviews : r.objects

NeedsGuardian ==
    CASE policy = "strict" -> proposals # <<>>
      [] mode = "validation_followup_council" -> TRUE
      [] OTHER -> IsCostly

NeedsCritic ==
    CASE mode = "validation_followup_council" -> TRUE
      [] policy = "strict" -> proposals # <<>>
      [] OTHER -> Objected \/ Cardinality(Distinct) >= IF policy = "permissive" THEN 3 ELSE 2

Called ==
    CASE phase = "propose" -> Proposers
      [] phase = "review" -> IF NeedsGuardian THEN <<"physics_judge", "cost_guardian">> ELSE <<"physics_judge">>
      [] phase = "criticise" -> IF NeedsCritic THEN <<"critic">> ELSE <<>>
      [] phase = "arbitrate" -> <<"orchestrator">>
      [] OTHER -> <<>>

IsCritical(r) == r \in {"physics_judge", "orchestrator", Head(Proposers)}

\* Mutant: what a review is given on is not part of its key.
KeyOfRole(r) == [role |-> r, on |-> <<>>, heard |-> {}]

KeyOf(r) == [role |-> r, on |-> proposals, heard |-> IF r = "orchestrator" THEN reviews ELSE {}]
Cached(r) == {c \in cache : c.key = KeyOf(r)}

\* Reviewers of a serialized provider are heard one after the other.
HasTurn(r) ==
    phase = "review" /\ "physics_judge" \in serialized =>
        \A i, j \in DOMAIN Called : Called[j] = r /\ i < j => Settled(Called[i])

-----------------------------------------------------------------------------
(* What an answer may say.                                                 *)

Viable == {i \in DOMAIN proposals : proposals[i].action \in legal}
LegalIds == {proposals[i].id : i \in Viable}

\* The action of an id is that of the first proposal with it.
FirstWith(id) ==
    CHOOSE i \in DOMAIN proposals :
        proposals[i].id = id /\ \A j \in 1 .. i - 1 : proposals[j].id # id
Choice(id) == Decision(proposals[FirstWith(id)].action, id)

\* Mutant: an id is legal if it is one of a proposal.
AnyArbitrations ==
    {Choice(p.id) : p \in ToSet(proposals)} \cup {Decision(a, "override") : a \in legal} \cup {Noop}

\* A legal proposal, chosen by the model or preferred by the guardrail when the
\* model chose none or an unknown one; an action of the model's own, checked
\* again; or none, when it names an illegal proposal and no action.
Arbitrations ==
    {Choice(id) : id \in LegalIds} \cup {Decision(a, "override") : a \in legal} \cup {Noop}

Proposals(r, actions) == {<<>>} \cup {<<Proposal(r, a)>> : a \in actions}

Says(r) ==
    CASE r \in ToSet(Proposers) -> Proposals(r, Actions)
      [] r = "orchestrator" -> Arbitrations
      [] OTHER -> {Review(r, objects) : objects \in BOOLEAN}

\* Without a call: the executor repairs, recovery may escalate, the others have
\* nothing to propose, and nothing to judge where nothing, or nothing legal,
\* was proposed, or the retry budget is spent.
SaysAlone(r) ==
    CASE r \in {"executor", "recovery"} -> Proposals(r, Actions \ Costly)
      [] r \in {"planner", "validation", "refinement"} -> {<<>>}
      [] r = "orchestrator" -> IF Viable = {} \/ mode = "failure_council" THEN {Noop} ELSE {}
      [] OTHER -> IF proposals = <<>> THEN {Review(r, FALSE)} ELSE {}

\* There is something to ask a model about.
MustAsk(r) ==
    CASE r = "orchestrator" -> Viable # {}
      [] r \in ToSet(Proposers) -> TRUE
      [] OTHER -> proposals # <<>>

-----------------------------------------------------------------------------
NoAnswers == [r \in Roles |-> <<>>]

\* The roles of the phase that comes are asked, but those that have answered on
\* the same matter before.
Opened ==
    LET called == ToSet(Called')
        reused(r) == Cached(r)'
    IN  /\ call' = [r \in Roles |->
                        IF r \notin called THEN Idle
                        ELSE IF reused(r) # {} THEN [Idle EXCEPT !.at = "answered"] ELSE Asked(r, 1)]
        /\ answer' = [r \in Roles |->
                        IF r \in called /\ reused(r) # {} THEN (CHOOSE c \in reused(r) : TRUE).says ELSE <<>>]
        /\ UNCHANGED serialized

Init ==
    /\ mode \in Modes /\ policy \in Policies /\ legal \in LegalSets
    /\ serialized \in {{}, Roles}
    /\ attempt = 1 /\ phase = "propose"
    /\ proposals = <<>> /\ reviews = {} /\ cache = {} /\ said = {}
    /\ lapses = [a \in 1 .. 2 |-> "none"]
    /\ decision = NoDecision
    /\ answer = NoAnswers
    /\ call = [r \in Roles |-> IF r \in ToSet(Proposers) THEN Asked(r, 1) ELSE Idle]

\* A call of a role; what it answers is decided when its model does.
Step(r) ==
    /\ Calling(r) /\ HasTurn(r) /\ MustAsk(r)
    /\ UNCHANGED council

Speak(r, says) ==
    /\ Answers(r) /\ says \in Says(r)
    /\ answer' = [answer EXCEPT ![r] = says]
    /\ UNCHANGED <<mode, policy, legal, attempt, phase, proposals, reviews, cache, lapses, said, decision>>

SpeakAlone(r, says) ==
    /\ AnswersAlone(r) /\ HasTurn(r) /\ says \in SaysAlone(r)
    /\ answer' = [answer EXCEPT ![r] = says]
    /\ UNCHANGED <<serialized, mode, policy, legal, attempt, phase, proposals, reviews, cache, lapses, said, decision>>

\* All roles of the phase have answered or failed, and the council goes on.
Gathered == phase \notin Endings /\ \A r \in ToSet(Called) : Settled(r)
Answered == {r \in ToSet(Called) : call[r].at = "answered"}
Raised == {r \in ToSet(Called) : call[r].at = "raised"}

Remembered == cache \cup {[key |-> KeyOf(r), says |-> answer[r]] : r \in Answered}

\* Mutant: any failure ends the attempt.
AllLapsed == Raised

Lapsed == {r \in Raised : IsCritical(r)}

\* What the i-th role called has answered.
Heard(i) == IF i \in DOMAIN Called /\ Called[i] \in Answered THEN answer[Called[i]] ELSE <<>>

\* Mutant: answers from the cache come before the others.
CachedHeardFirst ==
    LET kept(i) == IF Heard(i) # <<>> /\ Cached(Called[i]) # {} THEN Heard(i) ELSE <<>>
        new(i)  == IF Heard(i) # <<>> /\ Cached(Called[i]) = {} THEN Heard(i) ELSE <<>>
    IN  kept(1) \o kept(2) \o kept(3) \o new(1) \o new(2) \o new(3)

\* Answers are taken in the order of the roles, whichever came first; no mode
\* calls for more than three proposers.
ProposalsHeard == Heard(1) \o Heard(2) \o Heard(3)

ReviewsHeard == reviews \cup {answer[r] : r \in Answered}

Over(now) == phase = now /\ Gathered /\ Lapsed = {}

\* The phase is over without a critical failure, and what it brought is kept.
Goes(from, to) ==
    /\ Over(from)
    /\ phase' = to
    /\ cache' = Remembered
    /\ UNCHANGED <<mode, policy, legal, attempt, lapses>>

ToReview ==
    /\ Goes("propose", "review")
    /\ proposals' = proposals \o ProposalsHeard
    /\ said' = said \cup ToSet(ProposalsHeard)
    /\ UNCHANGED <<reviews, decision>>
    /\ Opened

ToCriticism ==
    /\ Goes("review", "criticise")
    /\ reviews' = ReviewsHeard
    /\ UNCHANGED <<proposals, said, decision>>
    /\ Opened

ToArbitration ==
    /\ Goes("criticise", "arbitrate")
    /\ reviews' = ReviewsHeard
    /\ UNCHANGED <<proposals, said, decision>>
    /\ Opened

\* A council on a failed relaxation that finds nothing to do calls for a human.
Outcomes ==
    LET chosen == answer["orchestrator"]
    IN  {chosen} \cup IF chosen.action = NoAction /\ mode = "failure_council"
                      THEN {Decision("escalate_human", "deterministic")} ELSE {}

Close ==
    Over("arbitrate") /\ \E outcome \in Outcomes :
        /\ Goes("arbitrate", IF outcome.action = NoAction THEN "noop" ELSE "agreed")
        /\ decision' = outcome
        /\ UNCHANGED <<serialized, call, answer, proposals, reviews, said>>

MayReopen == attempt < 2

\* Mutant: the answers of an attempt that lapses are lost.
Forgotten == cache

RememberedOnLapse == Remembered

\* A critical role has failed: what the others said is kept for the next attempt.
Lapses ==
    /\ Gathered
    /\ \E r \in Lapsed : lapses' = [lapses EXCEPT ![attempt] = r]
    /\ cache' = RememberedOnLapse
    /\ said' = IF phase = "propose" THEN said \cup ToSet(ProposalsHeard) ELSE said

Reopen ==
    /\ Lapses /\ MayReopen
    /\ attempt' = attempt + 1 /\ phase' = "propose"
    /\ proposals' = <<>> /\ reviews' = {}
    /\ UNCHANGED <<mode, policy, legal, decision>>
    /\ Opened

GiveUp ==
    /\ Lapses /\ ~MayReopen
    /\ phase' = "failed"
    /\ UNCHANGED <<serialized, call, answer, mode, policy, legal, attempt, proposals, reviews, decision>>

RoleNext(r) ==
    \/ Step(r)
    \/ \E says \in Says(r) : Speak(r, says)
    \/ \E says \in SaysAlone(r) : SpeakAlone(r, says)

Chair == ToReview \/ ToCriticism \/ ToArbitration \/ Close \/ Reopen \/ GiveUp

Next == Chair \/ \E r \in Roles : RoleNext(r)

Spec == Init /\ [][Next]_vars

\* Every call returns or times out, and then its thread goes on.
FairSpec == Spec /\ WF_vars(Chair) /\ WF_vars(\E r \in Roles : RoleNext(r))

-----------------------------------------------------------------------------
(* Properties                                                              *)

\* A decision rests on reviews of exactly the proposals it was taken on: after
\* an attempt that lapsed, a review is used again only if nothing was added to
\* or missing from what it was given on.
ReviewsMatchProposals ==
    phase \in {"agreed", "noop"} =>
        decision.on = proposals /\ \A r \in decision.heard : r.on = proposals

\* Whatever the orchestrator's model answers, the action taken is one that the
\* legality check allows, or the escalation a failed relaxation calls for.
ArbitratedIsLegal == phase = "agreed" => decision.action \in legal \cup {"escalate_human"}

\* What a role has proposed in a lapsed attempt is not lost: the council decides
\* on it, though the role was not asked again.
SaidIsHeard == phase \in {"agreed", "noop"} => said \subseteq ToSet(proposals)

\* The order of the proposals is that of the roles, whichever thread answered
\* first and whichever answers are from the attempt before.
SpokenInOrder ==
    \A i, j \in DOMAIN proposals : i < j =>
        \E k, l \in DOMAIN Proposers :
            k < l /\ proposals[i].by = Proposers[k] /\ proposals[j].by = Proposers[l]

\* Only critical roles can keep a council from ending, and only if two attempts
\* lapse; the others are left out.
SmallRolesMayFail == phase = "failed" => \A a \in 1 .. 2 : lapses[a] # "none" /\ IsCritical(lapses[a])

\* Every council comes to an end, whatever fails, one call at a time or not.
CouncilEnds == <>(phase \in Endings)
=============================================================================
