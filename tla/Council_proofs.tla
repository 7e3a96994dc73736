--------------------------- MODULE Council_proofs ---------------------------
(***************************************************************************)
(* Proofs about Council, for any actions, modes, policies and number of    *)
(* attempts at a question, with and without a lock on the provider: what a *)
(* decision rests on, that nothing said is lost when a council is reopened,*)
(* the order of the proposals, and who can keep a council from ending.     *)
(***************************************************************************)
EXTENDS Council, TLAPS

-----------------------------------------------------------------------------
(* The invariant                                                           *)

\* A role without a model has no call, one with a rule to fall back on a single.
CallsOK ==
    \A r \in Roles :
        /\ r \in Mechanical => call[r].kind = "none"
        /\ r \in Advised => call[r].kind \in {"none", "advice"}

\* What a role may have said when it was given what the key names.
WellSaid(key, says) ==
    CASE key.role \in ToSet(Proposers) -> says \in Proposals(key.role, Actions)
      [] key.role = "orchestrator" ->
             /\ says.on = key.on /\ says.heard = key.heard /\ says.id \in Ids
             /\ says.action \in Actions \cup {NoAction}
             /\ ~ Namesakes => says.action \in legal \cup {NoAction}
      [] OTHER -> \E objects \in BOOLEAN : says = [by |-> key.role, on |-> key.on, objects |-> objects]

\* Answers are, in the cache and in the phase, what a role may have said; there
\* is one for a key; and a role that has one is not asked again.
AnswersOK ==
    /\ answer = [r \in Roles |-> answer[r]]
    /\ \A c \in cache : c = [key |-> c.key, says |-> c.says] /\ WellSaid(c.key, c.says)
    /\ \A c, d \in cache : c.key = d.key => c = d
    /\ \A r \in ToSet(Called) :
           /\ call[r].at = "answered" => WellSaid(KeyOf(r), answer[r])
           /\ \A c \in Cached(r) : call[r].at = "answered" /\ answer[r] = c.says

\* Reviews are of the proposals on the table, of which there are none before
\* the proposers have been heard.
ReviewsOK ==
    /\ phase = "propose" => proposals = <<>>
    /\ phase \in {"propose", "review"} => reviews = {}
    /\ \A r \in reviews : r.on = proposals

\* A proposal is its maker's, under the id of the maker.
ProposalsOK ==
    /\ \A i \in DOMAIN proposals : proposals[i].id = IdOf(proposals[i].by)
    /\ SpokenInOrder

DecisionOK ==
    /\ ReviewsMatchProposals
    /\ phase = "agreed" /\ ~ Namesakes => decision.action \in legal \cup {"escalate_human"}

\* What a proposer looks up before it is asked.
Opening(r) == [role |-> r, on |-> <<>>, heard |-> {}]

\* A proposal ever made is kept, and on the table once the proposers are heard.
SaidOK ==
    /\ \A p \in said : p.by \in ToSet(Proposers) /\ \E c \in cache : c.key = Opening(p.by) /\ c.says = <<p>>
    /\ phase \notin {"propose", "failed"} => said \subseteq ToSet(proposals)

\* An attempt that did not get through was ended by a critical role.
LapsesOK ==
    /\ attempt = 2 => lapses[1] # "none" /\ IsCritical(lapses[1])
    /\ phase = "failed" => attempt = 2 /\ lapses[2] # "none" /\ IsCritical(lapses[2])

CouncilInv == CallsOK /\ AnswersOK /\ ProposalsOK /\ ReviewsOK /\ DecisionOK /\ SaidOK /\ LapsesOK
-----------------------------------------------------------------------------
(* The roles of a phase                                                    *)

\* Every mode has two or three proposers, the first of which is critical.
LEMMA ProposersAre ==
    mode \in Modes =>
        /\ Proposers \in {<<"recovery", "planner", "executor">>, <<"validation", "refinement", "executor">>,
                          <<"planner", "executor">>}
        /\ ToSet(Proposers) \subseteq Roles
        /\ ToSet(Proposers) \cap {"physics_judge", "cost_guardian", "critic", "orchestrator"} = {}
BY CouncilAssumption DEF Proposers, ToSet, Roles, Advised, Mechanical, Asking

\* The roles of a phase are of its kind.
LEMMA CalledAre ==
    mode \in Modes =>
        /\ phase = "propose" => Called = Proposers
        /\ phase = "review" => ToSet(Called) \subseteq {"physics_judge", "cost_guardian"}
        /\ phase = "criticise" => ToSet(Called) \subseteq {"critic"}
        /\ phase = "arbitrate" => ToSet(Called) = {"orchestrator"}
        /\ phase \notin {"propose", "review", "criticise", "arbitrate"} => ToSet(Called) = {}
        /\ ToSet(Called) \subseteq Roles
BY ProposersAre DEF Called, ToSet, Roles, Advised, Mechanical, Asking

LEMMA CalledAreNext ==
    (mode \in Modes =>
        /\ phase = "propose" => Called = Proposers
        /\ phase = "review" => ToSet(Called) \subseteq {"physics_judge", "cost_guardian"}
        /\ phase = "criticise" => ToSet(Called) \subseteq {"critic"}
        /\ phase = "arbitrate" => ToSet(Called) = {"orchestrator"}
        /\ phase \notin {"propose", "review", "criticise", "arbitrate"} => ToSet(Called) = {}
        /\ ToSet(Called) \subseteq Roles)'
BY CalledAre, PTL
-----------------------------------------------------------------------------
(* Calls                                                                   *)

Call == [at : {"idle", "waiting", "calling", "answered", "raised"},
         kind : Kinds, attempt : 0 .. MaxAttempts, round : 0 .. 2]

CallOf(r, c) ==
    /\ c \in Call
    /\ r \in Mechanical => c.at \in {"idle", "waiting", "answered"} /\ c.kind = "none"
    /\ r \in Advised => c.at # "raised" /\ c.kind \in {"none", "advice"}
    /\ r # "planner" => c.round < 2

AllCalls == serialized \subseteq Roles /\ DOMAIN call = Roles /\ call = [r \in Roles |-> call[r]]
                /\ \A r \in Roles : CallOf(r, call[r])

LEMMA CallsAreTyped == AllCalls <=> CallTypeOK /\ CallsOK
<1>1. AllCalls => call \in [Roles -> Call]
  BY DEF AllCalls, CallOf
<1>2. CallTypeOK => call \in [Roles -> Call]
  BY DEF CallTypeOK, Call
<1> QED
  BY <1>1, <1>2 DEF AllCalls, CallOf, CallTypeOK, CallsOK, Call

LEMMA CallsAreTypedNext == (AllCalls <=> CallTypeOK /\ CallsOK)'
BY CallsAreTyped, PTL

\* A question starts as one its role may have.
LEMMA QuestionsAreTyped ==
    /\ \A r \in Roles : CallOf(r, Asked(r, 1)) /\ Asked(r, 1).at = "waiting"
    /\ \A r \in Roles : CallOf(r, Idle) /\ CallOf(r, [Idle EXCEPT !.at = "answered"])
    /\ CallOf("planner", Asked("planner", 2)) /\ Asked("planner", 2).at = "waiting"
<1> USE CallsAssumption
<1>1. ASSUME NEW r \in Roles
      PROVE  /\ CallOf(r, Asked(r, 1)) /\ Asked(r, 1).at = "waiting"
             /\ CallOf(r, Idle) /\ CallOf(r, [Idle EXCEPT !.at = "answered"])
  <2>1. CASE r \in Mechanical
    BY <2>1 DEF CallOf, Call, Asked, Question, Idle, Kinds, Mechanical, Advised
  <2>2. CASE r \in Advised
    BY <2>2 DEF CallOf, Call, Asked, Advice, Question, Idle, Kinds, Mechanical, Advised
  <2>3. CASE r \in Asking
    BY <2>3 DEF CallOf, Call, Asked, FirstStructured, Question, Idle, Kinds, Mechanical, Advised, Asking
  <2> QED
    BY <2>1, <2>2, <2>3 DEF Roles
<1>2. CallOf("planner", Asked("planner", 2)) /\ Asked("planner", 2).at = "waiting"
  BY DEF CallOf, Call, Asked, FirstStructured, Question, Kinds, Mechanical, Advised
<1> QED
  BY <1>1, <1>2

\* A call moves one role, to what it may be in, and does not make it answer.
LEMMA CallingMoves ==
    ASSUME AllCalls, NEW r \in Roles, Calling(r)
    PROVE  /\ AllCalls' /\ call[r].at \in {"waiting", "calling"} /\ call'[r].at # "answered"
           /\ \A q \in Roles \ {r} : call'[q] = call[q]
<1> USE CallsAssumption DEF AllCalls
<1> DEFINE Moves(q, c) == /\ call' = [call EXCEPT ![q] = c] /\ CallOf(q, c) /\ c.at # "answered"
                          /\ serialized' = serialized
<1>1. ASSUME NEW q \in Roles, NEW c, Moves(q, c)
      PROVE  /\ AllCalls' /\ call'[q].at # "answered"
             /\ \A o \in Roles \ {q} : call'[o] = call[o]
  BY <1>1
<1>2. CallOf(r, call[r])
  OBVIOUS
<1>3. CASE Send(r)
  <2>1. Moves(r, [call[r] EXCEPT !.at = "calling"]) /\ call[r].at = "waiting"
    BY <1>2, <1>3 DEF Send, CallOf, Call
  <2> QED
    BY <1>1, <2>1
<1>4. CASE EvidenceReturns(r)
  <2>1. Moves(r, FirstStructured(call[r].round)) /\ call[r].at = "calling"
    BY <1>2, <1>4 DEF EvidenceReturns, InFlight, CallOf, Call, FirstStructured, Question, Kinds
  <2> QED
    BY <1>1, <2>1
<1>5. CASE Unparsable(r)
  <2>1. Moves(r, [call[r] EXCEPT !.at = "waiting", !.kind = "raw"]) /\ call[r].at = "calling"
    BY <1>2, <1>5 DEF Unparsable, InFlight, CallOf, Call, Kinds
  <2> QED
    BY <1>1, <2>1
<1>6. CASE AttemptFails(r)
  <2> DEFINE c == IF call[r].attempt < MaxAttempts
                  THEN Question("structured", call[r].attempt + 1, call[r].round)
                  ELSE [call[r] EXCEPT !.at = "raised"]
  <2>1. CallOf(r, c) /\ c.at # "answered"
    BY <1>2, <1>6 DEF AttemptFails, InFlight, CallOf, Call, Question, Kinds
  <2>2. Moves(r, c) /\ call[r].at = "calling"
    BY <1>6, <2>1 DEF AttemptFails, InFlight
  <2> QED
    BY <1>1, <2>2
<1>7. CASE r = "planner" /\ PlanUnusable
  <2> DEFINE c == IF Replanned THEN Asked("planner", 2) ELSE [call["planner"] EXCEPT !.at = "raised"]
  <2>1. "planner" \notin Mechanical /\ "planner" \notin Advised
    BY DEF Mechanical, Advised
  <2>2. CallOf("planner", [call["planner"] EXCEPT !.at = "raised"])
    BY <1>2, <1>7, <2>1 DEF CallOf, Call
  <2>3. CallOf("planner", c) /\ c.at # "answered"
    BY <1>2, <1>7, <2>2, QuestionsAreTyped DEF CallOf, Call
  <2>4. Moves(r, c) /\ call[r].at = "calling"
    BY <1>7, <2>3 DEF PlanUnusable, InFlight
  <2> QED
    BY <1>1, <2>4
<1> QED
  BY <1>3, <1>4, <1>5, <1>6, <1>7 DEF Calling

\* An answer, of a model or without one, settles one role.
LEMMA AnsweringSettles ==
    ASSUME AllCalls, NEW r \in Roles, Answers(r) \/ AnswersAlone(r)
    PROVE  /\ AllCalls' /\ call[r].at \in {"waiting", "calling"} /\ call'[r].at = "answered"
           /\ \A q \in Roles \ {r} : call'[q] = call[q]
<1> USE DEF AllCalls
<1>1. /\ call' = [call EXCEPT ![r] = [call[r] EXCEPT !.at = "answered"]] /\ serialized' = serialized
      /\ call[r].at \in {"waiting", "calling"}
  BY QuestionsAreTyped DEF Answers, AnswersAlone, InFlight
<1>2. CallOf(r, [call[r] EXCEPT !.at = "answered"])
  BY DEF CallOf, Call
<1> QED
  BY <1>1, <1>2 DEF CallOf, Call
-----------------------------------------------------------------------------
(* Answers                                                                 *)

\* The first proposal with an id that some proposal has.
LEMMA FirstWithIsOne ==
    ASSUME TypeOK, NEW i \in DOMAIN proposals
    PROVE  /\ FirstWith(proposals[i].id) \in DOMAIN proposals
           /\ proposals[FirstWith(proposals[i].id)].id = proposals[i].id
<1> DEFINE First(k) == proposals[k].id = proposals[i].id /\ \A j \in 1 .. k - 1 : proposals[j].id # proposals[i].id
<1>1. DOMAIN proposals = 1 .. Len(proposals) /\ Len(proposals) \in 0 .. 3
  <2>1. Len(Proposers) \in {2, 3}
    BY ProposersAre DEF TypeOK
  <2>2. proposals \in Seq(AllProposals) /\ Len(proposals) <= Len(Proposers)
    BY DEF TypeOK
  <2>3. \A S : \A q \in Seq(S) : DOMAIN q = 1 .. Len(q) /\ Len(q) \in Nat
    OBVIOUS
  <2>4. DOMAIN proposals = 1 .. Len(proposals) /\ Len(proposals) \in Nat
    BY <2>2, <2>3
  <2>5. Len(proposals) <= 3
    <3>1. CASE Len(Proposers) = 2
      BY <3>1, <2>2, <2>4
    <3>2. CASE Len(Proposers) = 3
      BY <3>2, <2>2, <2>4
    <3> QED  BY <2>1, <3>1, <3>2
  <2> QED
    BY <2>4, <2>5
<1>2. \E k \in DOMAIN proposals : First(k)
  <2>1. CASE proposals[1].id = proposals[i].id
    <3>1. First(1) /\ 1 \in DOMAIN proposals
      BY <1>1, <2>1
    <3> QED  BY <3>1
  <2>2. CASE proposals[1].id # proposals[i].id /\ proposals[2].id = proposals[i].id /\ i >= 2
    <3>1. First(2) /\ 2 \in DOMAIN proposals
      BY <1>1, <2>2
    <3> QED  BY <3>1
  <2>3. CASE proposals[1].id # proposals[i].id /\ ~ (proposals[2].id = proposals[i].id /\ i >= 2)
    <3>1. i = 3
      BY <1>1, <2>3
    <3>2. First(3) /\ 3 \in DOMAIN proposals
      BY <1>1, <2>3, <3>1
    <3> QED  BY <3>2
  <2> QED
    BY <1>1, <2>1, <2>2, <2>3
<1> QED
  BY <1>2 DEF FirstWith

\* When ids tell proposals apart, the action of a legal proposal's id is legal.
LEMMA LegalByName ==
    ASSUME TypeOK, ProposalsOK, ~ Namesakes, NEW id \in LegalIds
    PROVE  proposals[FirstWith(id)].action \in legal
<1>1. PICK i \in DOMAIN proposals : proposals[i].id = id /\ proposals[i].action \in legal
  BY DEF LegalIds, Viable
<1> DEFINE k == FirstWith(id)
<1>2. k \in DOMAIN proposals /\ proposals[k].id = proposals[i].id
  BY <1>1, FirstWithIsOne
<1>3. proposals[k].by = proposals[i].by
  BY <1>2 DEF ProposalsOK, IdOf
<1>4. ASSUME NEW m \in DOMAIN Proposers, NEW n \in DOMAIN Proposers, m < n
      PROVE  Proposers[m] # Proposers[n]
  BY <1>4, ProposersAre DEF TypeOK
<1>5. i \in Nat /\ k \in Nat
  BY <1>2 DEF TypeOK
<1>6. i = k
  BY <1>2, <1>3, <1>4, <1>5 DEF ProposalsOK, SpokenInOrder
<1> QED
  BY <1>1, <1>6

\* A role says what it may.
LEMMA SaysWell ==
    ASSUME TypeOK, ProposalsOK, NEW r \in ToSet(Called), NEW says \in Says(r) \cup SaysAlone(r)
    PROVE  WellSaid(KeyOf(r), says)
<1> USE DEF KeyOf
<1>1. KeyOf(r).role = r /\ KeyOf(r).on = proposals /\ (r = "orchestrator" => KeyOf(r).heard = reviews)
  OBVIOUS
<1>2. CASE r \in ToSet(Proposers)
  <2>1. Proposals(r, Actions \ Costly) \subseteq Proposals(r, Actions) /\ <<>> \in Proposals(r, Actions)
    BY DEF Proposals
  <2>2. r # "orchestrator" /\ r \in {"recovery", "planner", "executor", "validation", "refinement"}
    BY <1>2, ProposersAre DEF TypeOK, ToSet
  <2>3. Says(r) = Proposals(r, Actions)
    BY <1>2, <2>2 DEF Says
  <2>4. SaysAlone(r) \subseteq Proposals(r, Actions)
    BY <2>1, <2>2 DEF SaysAlone
  <2> QED
    BY <1>1, <1>2, <2>2, <2>3, <2>4 DEF WellSaid
<1>3. CASE r = "orchestrator"
  <2>1. r \notin ToSet(Proposers)
    BY <1>3, ProposersAre DEF TypeOK
  <2>2. says \in Arbitrations
    BY <1>3, <2>1 DEF Says, SaysAlone, Arbitrations
  <2>3. legal \subseteq Actions
    BY CouncilAssumption DEF TypeOK
  <2>4. ASSUME NEW id \in LegalIds, says = Choice(id)
        PROVE  /\ says.on = proposals /\ says.heard = reviews /\ says.id \in Ids
               /\ says.action \in Actions /\ (~ Namesakes => says.action \in legal)
    <3>1. PICK i \in DOMAIN proposals : proposals[i].id = id
      BY DEF LegalIds, Viable
    <3>2. FirstWith(id) \in DOMAIN proposals
      BY <3>1, FirstWithIsOne
    <3>3. proposals[i] \in AllProposals /\ proposals[FirstWith(id)] \in AllProposals
      BY <3>2 DEF TypeOK
    <3>4. id \in Ids /\ proposals[FirstWith(id)].action \in Actions
      BY <3>1, <3>3 DEF AllProposals
    <3>5. ~ Namesakes => proposals[FirstWith(id)].action \in legal
      BY LegalByName
    <3> QED
      BY <2>4, <3>4, <3>5 DEF Choice, Decision
  <2>5. CASE says \in {Decision(a, "override") : a \in legal}
    BY <1>1, <1>3, <2>1, <2>3, <2>5 DEF Decision, WellSaid, Ids
  <2>6. CASE says = Noop
    BY <1>1, <1>3, <2>1, <2>6 DEF Noop, Decision, WellSaid, Ids
  <2>7. CASE says \in {Choice(id) : id \in LegalIds}
    BY <1>1, <1>3, <2>1, <2>4, <2>7 DEF WellSaid
  <2> QED
    BY <2>2, <2>5, <2>6, <2>7 DEF Arbitrations
<1>4. CASE r \notin ToSet(Proposers) /\ r # "orchestrator"
  <2>1. r \in {"physics_judge", "cost_guardian", "critic"}
    BY <1>4, CalledAre DEF TypeOK
  <2>2. \E objects \in BOOLEAN : says = Review(r, objects)
    BY <1>4, <2>1 DEF Says, SaysAlone
  <2> QED
    BY <1>1, <1>4, <2>2 DEF Review, WellSaid
<1> QED
  BY <1>2, <1>3, <1>4

-----------------------------------------------------------------------------
(* The cache                                                               *)

LEMMA WellSaidStays ==
    ASSUME NEW key, NEW says, WellSaid(key, says), UNCHANGED <<mode, legal>>
    PROVE  WellSaid(key, says)'
BY DEF WellSaid, Proposers

\* What is remembered at the end of a phase is well said, and one for a key.
LEMMA RemembersWell ==
    ASSUME TypeOK, AnswersOK, cache' = Remembered, UNCHANGED <<mode, legal>>
    PROVE  /\ \A c \in cache' : c = [key |-> c.key, says |-> c.says] /\ WellSaid(c.key, c.says)'
           /\ \A c, d \in cache' : c.key = d.key => c = d
<1> DEFINE New(r) == [key |-> KeyOf(r), says |-> answer[r]]
<1>1. \A c \in cache' : c \in cache \/ \E r \in Answered : c = New(r)
  BY DEF Remembered
<1>2. \A r \in Answered : r \in ToSet(Called) /\ call[r].at = "answered"
  BY DEF Answered
<1>3. ASSUME NEW r \in Answered, NEW d \in cache, d.key = KeyOf(r)
      PROVE  d = New(r)
  <2>1. d \in Cached(r)
    BY <1>3 DEF Cached
  <2> QED
    BY <1>2, <1>3, <2>1 DEF AnswersOK
<1>4. ASSUME NEW r \in Answered, NEW q \in Answered, KeyOf(r) = KeyOf(q)
      PROVE  r = q
  BY <1>4 DEF KeyOf
<1>5. ASSUME NEW c \in cache'
      PROVE  c = [key |-> c.key, says |-> c.says] /\ WellSaid(c.key, c.says)'
  <2>1. c = [key |-> c.key, says |-> c.says] /\ WellSaid(c.key, c.says)
    BY <1>1, <1>2 DEF AnswersOK
  <2>2. WellSaid(c.key, c.says)'
    BY <2>1, WellSaidStays
  <2> QED
    BY <2>1, <2>2
<1>6. ASSUME NEW c \in cache', NEW d \in cache', c.key = d.key
      PROVE  c = d
  BY <1>1, <1>3, <1>4, <1>6 DEF AnswersOK
<1> QED
  BY <1>5, <1>6

\* What a phase opens with: those that have an answer are not asked.
LEMMA OpensWell ==
    ASSUME Opened, AllCalls, mode' \in Modes,
           \A c \in cache' : WellSaid(c.key, c.says)',
           \A c, d \in cache' : c.key = d.key => c = d
    PROVE  /\ AllCalls'
           /\ answer' = [r \in Roles |-> answer'[r]]
           /\ \A r \in ToSet(Called') :
                 /\ call'[r].at = "answered" => WellSaid(KeyOf(r), answer[r])'
                 /\ \A c \in Cached(r)' : call'[r].at = "answered" /\ answer'[r] = c.says
<1> DEFINE called == ToSet(Called')
           reused(r) == Cached(r)'
<1>1. serialized' = serialized /\ called \subseteq Roles
  BY CalledAreNext DEF Opened
<1>2. /\ call' = [r \in Roles |-> IF r \notin called THEN Idle
                                  ELSE IF reused(r) # {} THEN [Idle EXCEPT !.at = "answered"] ELSE Asked(r, 1)]
      /\ answer' = [r \in Roles |-> IF r \in called /\ reused(r) # {}
                                    THEN (CHOOSE c \in reused(r) : TRUE).says ELSE <<>>]
  BY DEF Opened
<1>3. AllCalls'
  BY <1>1, <1>2, QuestionsAreTyped DEF AllCalls
<1>6. answer' = [r \in Roles |-> answer'[r]]
  BY <1>2
<1>4. ASSUME NEW r \in called, reused(r) = {}
      PROVE  call'[r].at # "answered"
  BY <1>1, <1>2, <1>4, QuestionsAreTyped
<1>5. ASSUME NEW r \in called, NEW c \in reused(r)
      PROVE  call'[r].at = "answered" /\ answer'[r] = c.says /\ WellSaid(KeyOf(r), answer[r])'
  <2>1. call'[r].at = "answered" /\ answer'[r] = (CHOOSE d \in reused(r) : TRUE).says
    BY <1>1, <1>2, <1>5 DEF Idle
  <2>2. PICK d \in reused(r) : answer'[r] = d.says
    BY <2>1
  <2>3. c \in cache' /\ d \in cache' /\ c.key = KeyOf(r)' /\ d.key = KeyOf(r)'
    BY DEF Cached
  <2>4. c = d
    BY <2>3
  <2>5. WellSaid(c.key, c.says)'
    BY <2>3
  <2> QED
    BY <2>1, <2>2, <2>3, <2>4, <2>5
<1> QED
  BY <1>3, <1>4, <1>5, <1>6

-----------------------------------------------------------------------------
(* The steps                                                               *)

\* Who is called, and on what, is decided by what the roles' steps leave alone.
LEMMA SameMatter ==
    ASSUME UNCHANGED <<mode, policy, legal, phase, proposals, reviews, cache>>
    PROVE  /\ Called' = Called
           /\ \A q : KeyOf(q)' = KeyOf(q) /\ Cached(q)' = Cached(q)
           /\ \A key, says : WellSaid(key, says)' <=> WellSaid(key, says)
BY DEF Called, Proposers, NeedsGuardian, NeedsCritic, IsCostly, Distinct, Objected, KeyOf, Cached, WellSaid

\* What a role's step leaves alone is all but its own call and answer.
LEMMA RoleSteps ==
    ASSUME TypeOK, CouncilInv, NEW r \in Roles, RoleNext(r)
    PROVE  /\ UNCHANGED <<mode, policy, legal, attempt, phase, proposals, reviews, cache, lapses, said, decision>>
           /\ AllCalls' /\ AnswersOK'
<1> DEFINE Same == UNCHANGED <<mode, policy, legal, attempt, phase, proposals, reviews, cache, lapses, said, decision>>
<1>1. AllCalls /\ AnswersOK /\ ProposalsOK
  BY CallsAreTyped DEF TypeOK, CouncilInv
<1>2. ASSUME Same
      PROVE  /\ Called' = Called
             /\ \A q : KeyOf(q)' = KeyOf(q) /\ Cached(q)' = Cached(q)
             /\ \A key, says : WellSaid(key, says)' <=> WellSaid(key, says)
  BY <1>2, SameMatter
<1>3. ASSUME Same, AllCalls', call[r].at \in {"waiting", "calling"},
             \A q \in Roles \ {r} : call'[q] = call[q] /\ answer'[q] = answer[q],
             answer' = [q \in Roles |-> answer'[q]],
             r \in ToSet(Called) /\ call'[r].at = "answered" => WellSaid(KeyOf(r), answer'[r])
      PROVE  AnswersOK'
  <2>1. \A c \in cache' : c = [key |-> c.key, says |-> c.says] /\ WellSaid(c.key, c.says)'
    BY <1>1, <1>2, <1>3 DEF AnswersOK
  <2>2. \A c, d \in cache' : c.key = d.key => c = d
    BY <1>1, <1>3 DEF AnswersOK
  <2>3. ASSUME NEW q \in ToSet(Called)
        PROVE  /\ call'[q].at = "answered" => WellSaid(KeyOf(q), answer'[q])
               /\ \A c \in Cached(q) : call'[q].at = "answered" /\ answer'[q] = c.says
    <3>1. q \in Roles
      BY CalledAre DEF TypeOK
    <3>2. CASE q # r
      BY <1>1, <1>3, <3>1, <3>2 DEF AnswersOK
    <3>3. CASE q = r
      BY <1>1, <1>3, <3>3 DEF AnswersOK
    <3> QED
      BY <3>2, <3>3
  <2>4. \A q \in ToSet(Called') :
           /\ call'[q].at = "answered" => WellSaid(KeyOf(q), answer[q])'
           /\ \A c \in Cached(q)' : call'[q].at = "answered" /\ answer'[q] = c.says
    BY <1>2, <1>3, <2>3
  <2> QED
    BY <1>3, <2>1, <2>2, <2>4 DEF AnswersOK
<1>4. CASE Step(r)
  <2>1. Same /\ answer' = answer /\ Calling(r)
    BY <1>4 DEF Step, council
  <2>2. /\ AllCalls' /\ call[r].at \in {"waiting", "calling"} /\ call'[r].at # "answered"
        /\ \A q \in Roles \ {r} : call'[q] = call[q]
    BY <1>1, <2>1, CallingMoves
  <2>3. answer' = [q \in Roles |-> answer'[q]]
    BY <1>1, <2>1 DEF AnswersOK
  <2> QED
    BY <1>3, <2>1, <2>2, <2>3
<1>5. ASSUME NEW says \in Says(r) \cup SaysAlone(r), Speak(r, says) \/ SpeakAlone(r, says)
      PROVE  Same /\ AllCalls' /\ AnswersOK'
  <2>1. Same /\ answer' = [answer EXCEPT ![r] = says] /\ (Answers(r) \/ AnswersAlone(r))
    BY <1>5 DEF Speak, SpeakAlone
  <2>2. /\ AllCalls' /\ call[r].at \in {"waiting", "calling"} /\ call'[r].at = "answered"
        /\ \A q \in Roles \ {r} : call'[q] = call[q]
    BY <1>1, <2>1, AnsweringSettles
  <2>3. /\ answer'[r] = says /\ \A q \in Roles \ {r} : answer'[q] = answer[q]
        /\ answer' = [q \in Roles |-> answer'[q]]
    BY <1>1, <2>1 DEF AnswersOK
  <2>4. r \in ToSet(Called) => WellSaid(KeyOf(r), says)
    BY <1>1, SaysWell
  <2> QED
    BY <1>3, <2>1, <2>2, <2>3, <2>4
<1> QED
  BY <1>4, <1>5 DEF RoleNext


\* A step that leaves all but calls and answers alone keeps the rest.
LEMMA RestStays ==
    ASSUME TypeOK, CouncilInv, AllCalls', AnswersOK',
           UNCHANGED <<mode, policy, legal, attempt, phase, proposals, reviews, cache, lapses, said, decision>>
    PROVE  TypeOK' /\ CouncilInv'
<1>1. CallTypeOK' /\ CallsOK'
  BY CallsAreTypedNext
<1>2. Proposers' = Proposers
  BY DEF Proposers
<1>3. TypeOK'
  BY <1>1, <1>2 DEF TypeOK
<1>4. ProposalsOK' /\ ReviewsOK' /\ DecisionOK'
  BY <1>2 DEF CouncilInv, ProposalsOK, SpokenInOrder, ReviewsOK, DecisionOK, ReviewsMatchProposals
<1>5. SaidOK' /\ LapsesOK'
  BY <1>2 DEF CouncilInv, SaidOK, LapsesOK, IsCritical
<1> QED
  BY <1>1, <1>3, <1>4, <1>5 DEF CouncilInv

LEMMA RoleStep ==
    ASSUME TypeOK, CouncilInv, NEW r \in Roles, RoleNext(r)
    PROVE  TypeOK' /\ CouncilInv'
BY RoleSteps, RestStays

\* The roles that answer next have what they were given remembered as they said it.
LEMMA OpensNext ==
    ASSUME TypeOK, CouncilInv, Opened, cache' = Remembered, UNCHANGED <<mode, legal>>
    PROVE  AllCalls' /\ AnswersOK'
<1>1. /\ \A c \in cache' : c = [key |-> c.key, says |-> c.says] /\ WellSaid(c.key, c.says)'
      /\ \A c, d \in cache' : c.key = d.key => c = d
  BY RemembersWell DEF CouncilInv
<1>2. AllCalls /\ mode' \in Modes
  BY CallsAreTyped DEF TypeOK, CouncilInv
<1>3. /\ AllCalls'
      /\ answer' = [r \in Roles |-> answer'[r]]
      /\ \A r \in ToSet(Called') :
            /\ call'[r].at = "answered" => WellSaid(KeyOf(r), answer[r])'
            /\ \A c \in Cached(r)' : call'[r].at = "answered" /\ answer'[r] = c.says
  BY <1>1, <1>2, OpensWell
<1> QED
  BY <1>1, <1>3 DEF AnswersOK

\* When a council ends, nobody is called any more.
LEMMA EndsNext ==
    ASSUME TypeOK, CouncilInv, cache' = Remembered, phase' \in Endings,
           UNCHANGED <<mode, legal, serialized, call, answer>>
    PROVE  AllCalls' /\ AnswersOK'
<1>1. /\ \A c \in cache' : c = [key |-> c.key, says |-> c.says] /\ WellSaid(c.key, c.says)'
      /\ \A c, d \in cache' : c.key = d.key => c = d
  BY RemembersWell DEF CouncilInv
<1>2. AllCalls'
  BY CallsAreTyped DEF TypeOK, CouncilInv, AllCalls, CallOf
<1>3. ToSet(Called') = {}
  BY CalledAreNext DEF Endings, TypeOK
<1>4. answer' = [r \in Roles |-> answer'[r]]
  BY DEF CouncilInv, AnswersOK
<1> QED
  BY <1>1, <1>2, <1>3, <1>4 DEF AnswersOK

-----------------------------------------------------------------------------
(* Proposals                                                               *)

\* An element of s is one of a part, those of earlier parts come first, and none
\* is missing.
Joins(S, a, b, c, s) ==
    /\ s \in Seq(S) /\ Len(s) <= 3 /\ (c = <<>> => Len(s) <= 2)
    /\ \A i \in DOMAIN s : a = <<s[i]>> \/ b = <<s[i]>> \/ c = <<s[i]>>
    /\ \A i, j \in DOMAIN s : i < j =>
           (a = <<s[i]>> /\ (b = <<s[j]>> \/ c = <<s[j]>>)) \/ (b = <<s[i]>> /\ c = <<s[j]>>)
    /\ \A p : a = <<p>> \/ b = <<p>> \/ c = <<p>> => \E i \in DOMAIN s : s[i] = p

\* Three parts of at most one element each are joined by concatenation.
LEMMA PartsJoin ==
    ASSUME NEW S, NEW a, NEW b, NEW c,
           \A part \in {a, b, c} : part = <<>> \/ \E p \in S : part = <<p>>,
           NEW s, s = a \o b \o c
    PROVE  Joins(S, a, b, c, s)
<1>1. /\ a \in Seq(S) /\ b \in Seq(S) /\ c \in Seq(S)
      /\ Len(a) \in {0, 1} /\ Len(b) \in {0, 1} /\ Len(c) \in {0, 1}
      /\ (a = <<>> => Len(a) = 0) /\ (b = <<>> => Len(b) = 0) /\ (c = <<>> => Len(c) = 0)
  <2>1. ASSUME NEW part \in {a, b, c}
        PROVE  part \in Seq(S) /\ Len(part) \in {0, 1} /\ (part = <<>> => Len(part) = 0)
    <3>1. CASE part = <<>>
      BY <3>1
    <3>2. ASSUME NEW p \in S, part = <<p>>
          PROVE  part \in Seq(S) /\ Len(part) = 1
      BY <3>2
    <3> QED
      BY <3>1, <3>2
  <2> QED
    BY <2>1
<1>2. /\ a \o b \in Seq(S) /\ Len(a \o b) = Len(a) + Len(b)
      /\ \A i \in 1 .. Len(a) + Len(b) : (a \o b)[i] = IF i <= Len(a) THEN a[i] ELSE b[i - Len(a)]
  BY <1>1
<1>3. /\ s \in Seq(S) /\ Len(s) = Len(a) + Len(b) + Len(c) /\ DOMAIN s = 1 .. Len(s)
      /\ \A i \in 1 .. Len(s) : s[i] = IF i <= Len(a) + Len(b) THEN (a \o b)[i] ELSE c[i - (Len(a) + Len(b))]
  BY <1>1, <1>2
<1>4. Len(s) \in Nat /\ Len(s) <= 3 /\ (c = <<>> => Len(s) <= 2)
  BY <1>1, <1>3
\* Where each part is, if it is there.
<1>5. /\ \A p : a = <<p>> => 1 \in DOMAIN s /\ s[1] = p
      /\ \A p : b = <<p>> => Len(a) + 1 \in DOMAIN s /\ s[Len(a) + 1] = p
      /\ \A p : c = <<p>> => Len(a) + Len(b) + 1 \in DOMAIN s /\ s[Len(a) + Len(b) + 1] = p
  <2>1. ASSUME NEW p, a = <<p>>
        PROVE  1 \in DOMAIN s /\ s[1] = p
    BY <1>1, <1>2, <1>3, <2>1
  <2>2. ASSUME NEW p, b = <<p>>
        PROVE  Len(a) + 1 \in DOMAIN s /\ s[Len(a) + 1] = p
    BY <1>1, <1>2, <1>3, <2>2
  <2>3. ASSUME NEW p, c = <<p>>
        PROVE  Len(a) + Len(b) + 1 \in DOMAIN s /\ s[Len(a) + Len(b) + 1] = p
    BY <1>1, <1>2, <1>3, <2>3
  <2> QED
    BY <2>1, <2>2, <2>3
<1>6. ASSUME NEW i \in DOMAIN s
      PROVE  \/ i = 1 /\ a = <<s[i]>>
             \/ i = Len(a) + 1 /\ b = <<s[i]>>
             \/ i = Len(a) + Len(b) + 1 /\ c = <<s[i]>>
  <2>1. i \in Nat /\ i >= 1 /\ i <= Len(a) + Len(b) + Len(c)
    BY <1>1, <1>3, <1>4
  <2>5. Len(a) \in {0, 1} /\ Len(b) \in {0, 1} /\ Len(c) \in {0, 1}
    BY <1>1
  <2>2. CASE i <= Len(a)
    <3>1. i = 1 /\ Len(a) = 1
      BY <2>1, <2>5, <2>2
    <3>2. \E p \in S : a = <<p>>
      BY <1>1, <3>1
    <3> QED  BY <1>5, <3>1, <3>2
  <2>3. CASE i > Len(a) /\ i <= Len(a) + Len(b)
    <3>1. i = Len(a) + 1 /\ Len(b) = 1
      BY <2>1, <2>5, <2>3
    <3>2. \E p \in S : b = <<p>>
      BY <1>1, <3>1
    <3> QED  BY <1>5, <3>1, <3>2
  <2>4. CASE i > Len(a) + Len(b)
    <3>1. i = Len(a) + Len(b) + 1 /\ Len(c) = 1
      BY <2>1, <2>5, <2>4
    <3>2. \E p \in S : c = <<p>>
      BY <1>1, <3>1
    <3> QED  BY <1>5, <3>1, <3>2
  <2> QED
    BY <1>1, <2>1, <2>2, <2>3, <2>4
<1>7. \A i, j \in DOMAIN s : i < j =>
          (a = <<s[i]>> /\ (b = <<s[j]>> \/ c = <<s[j]>>)) \/ (b = <<s[i]>> /\ c = <<s[j]>>)
  BY <1>1, <1>3, <1>4, <1>6
<1>8. \A i \in DOMAIN s : a = <<s[i]>> \/ b = <<s[i]>> \/ c = <<s[i]>>
  BY <1>6
<1>9. \A p : a = <<p>> \/ b = <<p>> \/ c = <<p>> => \E i \in DOMAIN s : s[i] = p
  BY <1>5
<1> QED
  BY <1>3, <1>4, <1>7, <1>8, <1>9 DEF Joins

\* What an answered proposer has said is nothing or one proposal of its own.
LEMMA ProposersSay ==
    ASSUME TypeOK, CouncilInv, phase = "propose", NEW r \in Answered
    PROVE  /\ r \in ToSet(Proposers)
           /\ answer[r] = <<>> \/ \E p \in AllProposals : answer[r] = <<p>> /\ p.by = r /\ p.id = IdOf(r)
<1>1. r \in ToSet(Proposers) /\ r \in ToSet(Called) /\ call[r].at = "answered" /\ r \in Roles
  BY CalledAre DEF Answered, TypeOK
<1>2. WellSaid(KeyOf(r), answer[r])
  BY <1>1 DEF CouncilInv, AnswersOK
<1>3. answer[r] \in Proposals(r, Actions)
  <2>1. KeyOf(r).role = r /\ r # "orchestrator"
    BY <1>1, ProposersAre DEF KeyOf, TypeOK
  <2> QED
    BY <1>1, <1>2, <2>1 DEF WellSaid
<1>4. \A a \in Actions : Proposal(r, a) \in AllProposals /\ Proposal(r, a).by = r /\ Proposal(r, a).id = IdOf(r)
  BY <1>1 DEF Proposal, AllProposals, Ids
<1> QED
  BY <1>1, <1>3, <1>4 DEF Proposals

\* The proposals heard are those of the roles that answered, in the roles' order.
LEMMA HeardWell ==
    ASSUME TypeOK, CouncilInv, phase = "propose", NEW s, s = ProposalsHeard
    PROVE  /\ s \in Seq(AllProposals) /\ Len(s) <= Len(Proposers)
           /\ \A i \in DOMAIN s :
                  /\ s[i].by \in Answered
                  /\ answer[s[i].by] = <<s[i]>>
                  /\ s[i].id = IdOf(s[i].by)
           /\ \A i, j \in DOMAIN s : i < j =>
                  \E k, l \in DOMAIN Proposers :
                      /\ k < l
                      /\ s[i].by = Proposers[k] /\ s[j].by = Proposers[l]
           /\ \A r \in Answered : \A p : answer[r] = <<p>> => \E i \in DOMAIN s : s[i] = p
<1>1. Called = Proposers
  BY CalledAre DEF TypeOK
<1>2. Len(Proposers) \in {2, 3} /\ DOMAIN Proposers = 1 .. Len(Proposers)
  BY ProposersAre DEF TypeOK
<1>3. ASSUME NEW k \in {1, 2, 3}
      PROVE  /\ Heard(k) = <<>> \/ \E p \in AllProposals : Heard(k) = <<p>>
             /\ \A p : Heard(k) = <<p>> =>
                    /\ k \in DOMAIN Proposers /\ p.by = Proposers[k]
                    /\ p.by \in Answered /\ answer[p.by] = <<p>> /\ p.id = IdOf(p.by)
  <2>1. CASE k \in DOMAIN Called /\ Called[k] \in Answered
    <3>1. Heard(k) = answer[Called[k]]
      BY <2>1 DEF Heard
    <3> QED
      BY <1>1, <2>1, <3>1, ProposersSay
  <2>2. CASE ~ (k \in DOMAIN Called /\ Called[k] \in Answered)
    BY <2>2 DEF Heard
  <2> QED
    BY <2>1, <2>2
<1>4. /\ s \in Seq(AllProposals) /\ Len(s) <= 3 /\ (Heard(3) = <<>> => Len(s) <= 2)
      /\ \A i \in DOMAIN s : Heard(1) = <<s[i]>> \/ Heard(2) = <<s[i]>> \/ Heard(3) = <<s[i]>>
      /\ \A i, j \in DOMAIN s : i < j =>
             \/ Heard(1) = <<s[i]>> /\ (Heard(2) = <<s[j]>> \/ Heard(3) = <<s[j]>>)
             \/ Heard(2) = <<s[i]>> /\ Heard(3) = <<s[j]>>
      /\ \A p : Heard(1) = <<p>> \/ Heard(2) = <<p>> \/ Heard(3) = <<p>> => \E i \in DOMAIN s : s[i] = p
  <2>1. \A part \in {Heard(1), Heard(2), Heard(3)} : part = <<>> \/ \E p \in AllProposals : part = <<p>>
    BY <1>3
  <2>2. Joins(AllProposals, Heard(1), Heard(2), Heard(3), s)
    BY <2>1, PartsJoin DEF ProposalsHeard
  <2> QED
    BY <2>2 DEF Joins
<1>5. Len(s) <= Len(Proposers)
  <2>1. CASE Len(Proposers) = 3
    BY <1>4, <2>1
  <2>2. CASE Len(Proposers) = 2
    <3>1. Heard(3) = <<>>
      BY <1>1, <1>2, <2>2 DEF Heard
    <3> QED
      BY <1>4, <2>2, <3>1
  <2> QED
    BY <1>2, <2>1, <2>2
<1>6. \A i \in DOMAIN s : s[i].by \in Answered /\ answer[s[i].by] = <<s[i]>> /\ s[i].id = IdOf(s[i].by)
  BY <1>3, <1>4
<1>7. ASSUME NEW i \in DOMAIN s, NEW j \in DOMAIN s, i < j
      PROVE  \E k, l \in DOMAIN Proposers : k < l /\ s[i].by = Proposers[k] /\ s[j].by = Proposers[l]
  <2>1. PICK k, l \in {1, 2, 3} : k < l /\ Heard(k) = <<s[i]>> /\ Heard(l) = <<s[j]>>
    BY <1>4, <1>7
  <2> QED
    BY <1>3, <2>1
<1>8. ASSUME NEW r \in Answered, NEW p, answer[r] = <<p>>
      PROVE  \E i \in DOMAIN s : s[i] = p
  <2>1. PICK k \in DOMAIN Proposers : Proposers[k] = r
    BY ProposersSay DEF ToSet
  <2>2. k \in {1, 2, 3} /\ Heard(k) = <<p>>
    BY <1>1, <1>2, <1>8, <2>1 DEF Heard
  <2> QED
    BY <1>4, <2>2
<1>9. \A i, j \in DOMAIN s : i < j =>
          \E k, l \in DOMAIN Proposers : k < l /\ s[i].by = Proposers[k] /\ s[j].by = Proposers[l]
  BY <1>7
<1>10. \A r \in Answered : \A p : answer[r] = <<p>> => \E i \in DOMAIN s : s[i] = p
  BY <1>8
<1>11. s \in Seq(AllProposals) /\ Len(s) <= Len(Proposers)
  BY <1>4, <1>5
<1> QED
  BY <1>6, <1>9, <1>10, <1>11

\* A proposal that was said is among those heard when its role answers from it.
LEMMA SaidIsHeardAgain ==
    ASSUME TypeOK, CouncilInv, phase = "propose"
    PROVE  said \subseteq ToSet(ProposalsHeard)
<1> SUFFICES ASSUME NEW p \in said
             PROVE  p \in ToSet(ProposalsHeard)
  OBVIOUS
<1>1. PICK c \in cache : p.by \in ToSet(Proposers) /\ c.key = Opening(p.by) /\ c.says = <<p>>
  BY DEF CouncilInv, SaidOK
<1>2. p.by # "orchestrator" /\ p.by \in ToSet(Called)
  BY <1>1, ProposersAre, CalledAre DEF TypeOK
<1>3. KeyOf(p.by) = Opening(p.by)
  BY <1>2 DEF KeyOf, Opening, CouncilInv, ReviewsOK
<1>4. c \in Cached(p.by)
  BY <1>1, <1>3 DEF Cached
<1>5. p.by \in Answered /\ answer[p.by] = <<p>>
  BY <1>1, <1>2, <1>4 DEF CouncilInv, AnswersOK, Answered
<1> QED
  BY <1>5, HeardWell DEF ToSet

\* What the proposers have said is remembered when they have been heard.
LEMMA SaidIsKept ==
    ASSUME TypeOK, CouncilInv, cache' = Remembered, UNCHANGED mode,
           said' = said \/ (phase = "propose" /\ said' = said \cup ToSet(ProposalsHeard))
    PROVE  /\ said' \subseteq AllProposals
           /\ \A p \in said' : p.by \in ToSet(Proposers') /\ \E c \in cache' : c.key = Opening(p.by) /\ c.says = <<p>>
<1>1. Proposers' = Proposers
  BY DEF Proposers
<1>2. ASSUME NEW p \in said
      PROVE  p \in AllProposals /\ p.by \in ToSet(Proposers)
             /\ \E c \in cache' : c.key = Opening(p.by) /\ c.says = <<p>>
  BY DEF TypeOK, CouncilInv, SaidOK, Remembered
<1>3. ASSUME phase = "propose", NEW p \in ToSet(ProposalsHeard)
      PROVE  p \in AllProposals /\ p.by \in ToSet(Proposers)
             /\ \E c \in cache' : c.key = Opening(p.by) /\ c.says = <<p>>
  <2>1. PICK i \in DOMAIN ProposalsHeard : ProposalsHeard[i] = p
    BY <1>3 DEF ToSet
  <2>2. p \in AllProposals /\ p.by \in Answered /\ answer[p.by] = <<p>>
    <3>1. ProposalsHeard \in Seq(AllProposals)
      BY <1>3, HeardWell
    <3>2. \A k \in DOMAIN ProposalsHeard :
              ProposalsHeard[k].by \in Answered /\ answer[ProposalsHeard[k].by] = <<ProposalsHeard[k]>>
      BY <1>3, HeardWell
    <3> QED
      BY <2>1, <3>1, <3>2
  <2>3. p.by \in ToSet(Proposers) /\ p.by # "orchestrator"
    BY <1>3, <2>2, ProposersSay, ProposersAre DEF TypeOK
  <2>4. KeyOf(p.by) = Opening(p.by)
    BY <1>3, <2>3 DEF KeyOf, Opening, CouncilInv, ReviewsOK
  <2>5. [key |-> Opening(p.by), says |-> <<p>>] \in cache'
    BY <2>2, <2>4 DEF Remembered
  <2> QED
    BY <2>2, <2>3, <2>5
<1> QED
  BY <1>1, <1>2, <1>3

\* What a reviewer or the critic has said is a review of the proposals.
LEMMA ReviewersSay ==
    ASSUME TypeOK, CouncilInv, phase \in {"review", "criticise"}, NEW r \in Answered
    PROVE  \E objects \in BOOLEAN : answer[r] = [by |-> r, on |-> proposals, objects |-> objects] /\ r \in Roles
<1>1. r \in ToSet(Called) /\ call[r].at = "answered"
  BY DEF Answered
<1>2. r \in Roles /\ r \notin ToSet(Proposers) /\ r # "orchestrator"
  BY <1>1, CalledAre, ProposersAre DEF TypeOK
<1>3. WellSaid(KeyOf(r), answer[r])
  BY <1>1 DEF CouncilInv, AnswersOK
<1>4. KeyOf(r).role = r /\ KeyOf(r).on = proposals
  BY DEF KeyOf
<1> QED
  BY <1>2, <1>3, <1>4 DEF WellSaid

-----------------------------------------------------------------------------
(* The chair's steps                                                       *)

LEMMA ToReviewStep ==
    ASSUME TypeOK, CouncilInv, ToReview
    PROVE  TypeOK' /\ CouncilInv'
<1>1. /\ phase = "propose" /\ phase' = "review" /\ cache' = Remembered
      /\ UNCHANGED <<mode, policy, legal, attempt, lapses, reviews, decision>> /\ Opened
      /\ proposals' = proposals \o ProposalsHeard /\ said' = said \cup ToSet(ProposalsHeard)
  BY DEF ToReview, Goes, Over
<1>2. AllCalls' /\ AnswersOK' /\ CallTypeOK' /\ CallsOK'
  BY <1>1, OpensNext, CallsAreTypedNext
<1>3. Proposers' = Proposers
  BY <1>1 DEF Proposers
<1>4. proposals' = ProposalsHeard
  BY <1>1, HeardWell DEF CouncilInv, ReviewsOK
<1>5. TypeOK'
  <2>1. proposals' \in Seq(AllProposals) /\ Len(proposals') <= Len(Proposers')
    BY <1>1, <1>3, <1>4, HeardWell
  <2>2. said' \subseteq AllProposals
    BY <1>1, SaidIsKept
  <2> QED
    BY <1>1, <1>2, <2>1, <2>2 DEF TypeOK, Endings
<1>6. ProposalsOK'
  <2>1. \A i \in DOMAIN proposals' : proposals'[i].id = IdOf(proposals'[i].by)
    BY <1>1, <1>4, HeardWell
  <2>2. SpokenInOrder'
    BY <1>1, <1>3, <1>4, HeardWell DEF SpokenInOrder
  <2> QED
    BY <2>1, <2>2 DEF ProposalsOK
<1>7. ReviewsOK' /\ DecisionOK'
  BY <1>1 DEF CouncilInv, ReviewsOK, DecisionOK, ReviewsMatchProposals
<1>8. SaidOK'
  BY <1>1, <1>4, SaidIsKept, SaidIsHeardAgain DEF SaidOK
<1>9. LapsesOK'
  BY <1>1, <1>3 DEF CouncilInv, LapsesOK, IsCritical
<1> QED
  BY <1>2, <1>5, <1>6, <1>7, <1>8, <1>9 DEF CouncilInv

\* Both steps that gather reviews.
LEMMA ReviewsStep ==
    ASSUME TypeOK, CouncilInv, ToCriticism \/ ToArbitration
    PROVE  TypeOK' /\ CouncilInv'
<1>1. /\ phase \in {"review", "criticise"} /\ phase' \in {"criticise", "arbitrate"} /\ cache' = Remembered
      /\ UNCHANGED <<mode, policy, legal, attempt, lapses, proposals, said, decision>> /\ Opened
      /\ reviews' = reviews \cup {answer[r] : r \in Answered}
  BY DEF ToCriticism, ToArbitration, Goes, Over, ReviewsHeard
<1>2. AllCalls' /\ AnswersOK' /\ CallTypeOK' /\ CallsOK'
  BY <1>1, OpensNext, CallsAreTypedNext
<1>3. Proposers' = Proposers
  BY <1>1 DEF Proposers
<1>4. \A v \in reviews' : v.on = proposals /\ v.by \in Roles /\ v.objects \in BOOLEAN
  <2>1. \A v \in reviews : v.on = proposals /\ v.by \in Roles /\ v.objects \in BOOLEAN
    BY DEF TypeOK, CouncilInv, ReviewsOK
  <2>2. ASSUME NEW r \in Answered
        PROVE  answer[r].on = proposals /\ answer[r].by \in Roles /\ answer[r].objects \in BOOLEAN
    <3>1. PICK objects \in BOOLEAN :
              answer[r] = [by |-> r, on |-> proposals, objects |-> objects] /\ r \in Roles
      BY <1>1, ReviewersSay
    <3> QED
      BY <3>1
  <2> QED
    BY <1>1, <2>1, <2>2
<1>5. TypeOK'
  BY <1>1, <1>2, <1>3, <1>4 DEF TypeOK, Endings
<1>6. ProposalsOK'
  BY <1>1, <1>3 DEF CouncilInv, ProposalsOK, SpokenInOrder
<1>7. ReviewsOK' /\ DecisionOK'
  BY <1>1, <1>4 DEF ReviewsOK, DecisionOK, ReviewsMatchProposals
<1>8. SaidOK'
  BY <1>1, SaidIsKept DEF CouncilInv, SaidOK
<1>9. LapsesOK'
  BY <1>1, <1>3 DEF CouncilInv, LapsesOK, IsCritical
<1> QED
  BY <1>2, <1>5, <1>6, <1>7, <1>8, <1>9 DEF CouncilInv

LEMMA CloseStep ==
    ASSUME TypeOK, CouncilInv, Close
    PROVE  TypeOK' /\ CouncilInv'
<1> DEFINE chosen == answer["orchestrator"]
<1>1. PICK outcome \in Outcomes :
          /\ phase = "arbitrate" /\ Gathered /\ Lapsed = {} /\ cache' = Remembered
          /\ phase' = IF outcome.action = NoAction THEN "noop" ELSE "agreed"
          /\ decision' = outcome
          /\ UNCHANGED <<mode, policy, legal, attempt, lapses, serialized, call, answer, proposals, reviews, said>>
  BY DEF Close, Goes, Over
<1>2. phase' \in Endings
  BY <1>1 DEF Endings
<1>3. AllCalls' /\ AnswersOK' /\ CallTypeOK' /\ CallsOK'
  BY <1>1, <1>2, EndsNext, CallsAreTypedNext
<1>4. Proposers' = Proposers
  BY <1>1 DEF Proposers
\* The orchestrator is critical: the council ends only on its answer.
<1>5. /\ chosen.on = proposals /\ chosen.heard = reviews /\ chosen.id \in Ids
      /\ chosen.action \in Actions \cup {NoAction}
      /\ ~ Namesakes => chosen.action \in legal \cup {NoAction}
  <2>1. "orchestrator" \in ToSet(Called) /\ "orchestrator" \notin ToSet(Proposers)
    BY <1>1, CalledAre, ProposersAre DEF TypeOK
  <2>2. call["orchestrator"].at = "answered"
    BY <1>1, <2>1 DEF Gathered, Settled, Lapsed, Raised, IsCritical
  <2>3. WellSaid(KeyOf("orchestrator"), chosen)
    BY <2>1, <2>2 DEF CouncilInv, AnswersOK
  <2>4. /\ KeyOf("orchestrator").role = "orchestrator"
        /\ KeyOf("orchestrator").on = proposals /\ KeyOf("orchestrator").heard = reviews
    BY DEF KeyOf
  <2> QED
    BY <2>1, <2>3, <2>4 DEF WellSaid
<1>6. /\ outcome.on = proposals /\ outcome.heard = reviews /\ outcome.id \in Ids
      /\ outcome.action \in Actions \cup {NoAction, "escalate_human"}
      /\ ~ Namesakes => outcome.action \in legal \cup {NoAction, "escalate_human"}
  <2>1. CASE outcome = chosen
    BY <1>5, <2>1
  <2>2. CASE outcome = Decision("escalate_human", "deterministic")
    BY <2>2 DEF Decision, Ids
  <2> QED
    BY <1>1, <2>1, <2>2 DEF Outcomes
<1>7. decision'.action = NoAction <=> phase' # "agreed"
  BY <1>1
<1>8. TypeOK'
  BY <1>1, <1>2, <1>3, <1>4, <1>6, <1>7 DEF TypeOK
<1>9. ProposalsOK' /\ ReviewsOK'
  BY <1>1, <1>4 DEF CouncilInv, ProposalsOK, SpokenInOrder, ReviewsOK
<1>10. DecisionOK'
  BY <1>1, <1>6 DEF CouncilInv, ReviewsOK, DecisionOK, ReviewsMatchProposals
<1>11. SaidOK'
  BY <1>1, SaidIsKept DEF CouncilInv, SaidOK
<1>12. LapsesOK'
  BY <1>1, <1>4 DEF CouncilInv, LapsesOK, IsCritical
<1> QED
  BY <1>3, <1>8, <1>9, <1>10, <1>11, <1>12 DEF CouncilInv

\* The role that ended an attempt was a critical one.
LEMMA LapsesWell ==
    ASSUME TypeOK, Lapses
    PROVE  /\ lapses' \in [1 .. 2 -> Roles \cup {"none"}]
           /\ lapses'[attempt] # "none" /\ IsCritical(lapses'[attempt])
           /\ \A a \in 1 .. 2 : a # attempt => lapses'[a] = lapses[a]
<1>1. PICK r \in Lapsed : lapses' = [lapses EXCEPT ![attempt] = r]
  BY DEF Lapses
<1>2. r \in Roles /\ IsCritical(r)
  BY CalledAre DEF TypeOK, Lapsed, Raised
<1>3. "none" \notin Roles
  BY DEF Roles, Advised, Mechanical, Asking
<1> QED
  BY <1>1, <1>2, <1>3 DEF TypeOK

LEMMA ReopenStep ==
    ASSUME TypeOK, CouncilInv, Reopen
    PROVE  TypeOK' /\ CouncilInv'
<1>1. /\ attempt = 1 /\ attempt' = 2 /\ phase' = "propose" /\ cache' = Remembered
      /\ proposals' = <<>> /\ reviews' = {} /\ UNCHANGED <<mode, policy, legal, decision>> /\ Opened
      /\ phase \notin Endings
      /\ said' = said \/ (phase = "propose" /\ said' = said \cup ToSet(ProposalsHeard))
  BY DEF Reopen, Lapses, MayReopen, RememberedOnLapse, Gathered, TypeOK
<1>2. AllCalls' /\ AnswersOK' /\ CallTypeOK' /\ CallsOK'
  BY <1>1, OpensNext, CallsAreTypedNext
<1>3. Proposers' = Proposers
  BY <1>1 DEF Proposers
<1>4. lapses' \in [1 .. 2 -> Roles \cup {"none"}] /\ lapses'[1] # "none" /\ IsCritical(lapses'[1])
  BY <1>1, LapsesWell DEF Reopen
<1>5. TypeOK'
  <2>1. proposals' \in Seq(AllProposals) /\ Len(proposals') <= Len(Proposers')
    <3>1. Len(Proposers) \in {2, 3}
      BY ProposersAre DEF TypeOK
    <3> QED
      BY <1>1, <1>3, <3>1
  <2>2. said' \subseteq AllProposals
    BY <1>1, SaidIsKept
  <2> QED
    BY <1>1, <1>2, <1>4, <2>1, <2>2 DEF TypeOK, Endings
<1>6. ProposalsOK' /\ ReviewsOK' /\ DecisionOK'
  BY <1>1 DEF ProposalsOK, SpokenInOrder, ReviewsOK, DecisionOK, ReviewsMatchProposals
<1>7. SaidOK'
  BY <1>1, SaidIsKept DEF SaidOK
<1>8. LapsesOK'
  BY <1>1, <1>3, <1>4 DEF LapsesOK, IsCritical
<1> QED
  BY <1>2, <1>5, <1>6, <1>7, <1>8 DEF CouncilInv

LEMMA GiveUpStep ==
    ASSUME TypeOK, CouncilInv, GiveUp
    PROVE  TypeOK' /\ CouncilInv'
<1>1. /\ attempt = 2 /\ phase' = "failed" /\ cache' = Remembered /\ phase \notin Endings
      /\ UNCHANGED <<serialized, call, answer, mode, policy, legal, attempt, proposals, reviews, decision>>
      /\ said' = said \/ (phase = "propose" /\ said' = said \cup ToSet(ProposalsHeard))
  BY DEF GiveUp, Lapses, MayReopen, RememberedOnLapse, Gathered, TypeOK
<1>2. AllCalls' /\ AnswersOK' /\ CallTypeOK' /\ CallsOK'
  BY <1>1, EndsNext, CallsAreTypedNext DEF Endings
<1>3. Proposers' = Proposers
  BY <1>1 DEF Proposers
<1>4. /\ lapses' \in [1 .. 2 -> Roles \cup {"none"}] /\ lapses'[1] = lapses[1]
      /\ lapses'[2] # "none" /\ IsCritical(lapses'[2])
  BY <1>1, LapsesWell DEF GiveUp
<1>5. TypeOK'
  <2>1. said' \subseteq AllProposals
    BY <1>1, SaidIsKept
  <2> QED
    BY <1>1, <1>2, <1>3, <1>4, <2>1 DEF TypeOK, Endings
<1>6. ProposalsOK' /\ ReviewsOK' /\ DecisionOK'
  BY <1>1, <1>3 DEF CouncilInv, ProposalsOK, SpokenInOrder, ReviewsOK, DecisionOK, ReviewsMatchProposals
<1>7. SaidOK'
  BY <1>1, SaidIsKept DEF SaidOK
<1>8. LapsesOK'
  BY <1>1, <1>3, <1>4 DEF CouncilInv, LapsesOK, IsCritical
<1> QED
  BY <1>2, <1>5, <1>6, <1>7, <1>8 DEF CouncilInv

-----------------------------------------------------------------------------
(* The theorems                                                            *)

LEMMA StartsWell == Init => TypeOK /\ CouncilInv
<1> SUFFICES ASSUME Init
             PROVE  TypeOK /\ CouncilInv
  OBVIOUS
<1>1. mode \in Modes /\ phase = "propose" /\ ToSet(Called) \subseteq Roles /\ Called = Proposers
  BY CalledAre DEF Init
<1>2. AllCalls
  BY QuestionsAreTyped DEF Init, AllCalls
<1>3. CallTypeOK /\ CallsOK
  BY <1>2, CallsAreTyped
<1>4. Len(Proposers) \in {2, 3}
  BY <1>1, ProposersAre
<1>5. Len(proposals) <= Len(Proposers) /\ proposals \in Seq(AllProposals)
  BY <1>4 DEF Init
<1>6. TypeOK
  BY <1>3, <1>5 DEF Init, TypeOK, NoDecision, Ids, Endings
<1>7. AnswersOK
  <2>1. \A r \in ToSet(Called) : call[r].at # "answered"
    BY <1>1, QuestionsAreTyped DEF Init
  <2> QED
    BY <2>1 DEF Init, AnswersOK, NoAnswers, Cached
<1> QED
  BY <1>3, <1>6, <1>7 DEF Init, CouncilInv, ProposalsOK, SpokenInOrder, ReviewsOK, DecisionOK, ReviewsMatchProposals,
                          SaidOK, LapsesOK, Endings

LEMMA StepsWell == TypeOK /\ CouncilInv /\ [Next]_vars => TypeOK' /\ CouncilInv'
<1> SUFFICES ASSUME TypeOK, CouncilInv, [Next]_vars
             PROVE  TypeOK' /\ CouncilInv'
  OBVIOUS
<1>1. CASE UNCHANGED vars
  <2>1. AllCalls'
    BY <1>1, CallsAreTyped DEF vars, TypeOK, CouncilInv, AllCalls, CallOf
  <2>2. AnswersOK'
    <3>1. /\ Called' = Called /\ call' = call /\ answer' = answer /\ cache' = cache
          /\ \A q : KeyOf(q)' = KeyOf(q) /\ Cached(q)' = Cached(q)
          /\ \A key, says : WellSaid(key, says)' <=> WellSaid(key, says)
      BY <1>1, SameMatter DEF vars, council
    <3>2. AnswersOK
      BY DEF CouncilInv
    <3> QED
      BY <3>1, <3>2 DEF AnswersOK
  <2> QED
    BY <1>1, <2>1, <2>2, RestStays DEF vars, council
<1>2. ASSUME NEW r \in Roles, RoleNext(r)
      PROVE  TypeOK' /\ CouncilInv'
  BY <1>2, RoleStep
<1> QED
  BY <1>1, <1>2, ToReviewStep, ReviewsStep, CloseStep, ReopenStep, GiveUpStep DEF Next, Chair

LEMMA Invariant == Spec => [](TypeOK /\ CouncilInv)
BY StartsWell, StepsWell, PTL DEF Spec

\* Every variable has its type, whatever the roles answer and however they fail.
THEOREM TypeCorrect == Spec => []TypeOK
BY Invariant, PTL

\* A decision rests on reviews of exactly the proposals it was taken on, also
\* when some of them are from the attempt before.
THEOREM DecidesOnItsReviews == Spec => []ReviewsMatchProposals
<1>1. CouncilInv => ReviewsMatchProposals
  BY DEF CouncilInv, DecisionOK
<1> QED
  BY <1>1, Invariant, PTL

\* Where ids tell the proposals apart, the action a council takes is legal or
\* the escalation a failed relaxation calls for.
THEOREM TakesLegalActions ==
    ASSUME ~ Namesakes
    PROVE  Spec => []ArbitratedIsLegal
<1>1. CouncilInv => ArbitratedIsLegal
  BY DEF CouncilInv, DecisionOK, ArbitratedIsLegal
<1> QED
  BY <1>1, Invariant, PTL

\* Nothing proposed in an attempt that lapsed is lost to the council that ends.
THEOREM HearsAllThatWasSaid == Spec => []SaidIsHeard
<1>1. CouncilInv => SaidIsHeard
  BY DEF CouncilInv, SaidOK, SaidIsHeard
<1> QED
  BY <1>1, Invariant, PTL

\* The proposals are in the order of the roles, whichever thread was first.
THEOREM HearsInOrder == Spec => []SpokenInOrder
<1>1. CouncilInv => SpokenInOrder
  BY DEF CouncilInv, ProposalsOK
<1> QED
  BY <1>1, Invariant, PTL

\* A council fails only after two attempts, each ended by a critical role.
THEOREM FailsByCriticalRoles == Spec => []SmallRolesMayFail
<1>1. CouncilInv => SmallRolesMayFail
  BY DEF CouncilInv, LapsesOK, SmallRolesMayFail
<1> QED
  BY <1>1, Invariant, PTL
=============================================================================
