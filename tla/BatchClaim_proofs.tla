-------------------------- MODULE BatchClaim_proofs --------------------------
(***************************************************************************)
(* Proofs about BatchClaim, for any number of materials, batches and       *)
(* faults: the documents are well formed, a material is running only while *)
(* the batch of its tag runs it, and the collection keeps the promise of   *)
(* MaterialQueue for the materials whose runs end before their claims do.  *)
(***************************************************************************)
EXTENDS BatchClaim, TLAPS

Steady == Materials \ Slow

-----------------------------------------------------------------------------
(* The marks                                                               *)

\* Whatever a document holds, a mark makes it one of the marked outcome, and
\* keeps its tag.
LEMMA MarksAreWhole ==
    ASSUME NEW doc \in Document, NEW o \in Outcomes
    PROVE  /\ Marked(doc, o) \in Document
           /\ Marked(doc, o).status = ListOf(o)
           /\ Marked(doc, o).tag = doc.tag
           /\ ListOf(o) \in Lists
           /\ Marked(doc, o).results = (ListOf(o) = "completed")
           /\ Marked(doc, o).error = (ListOf(o) # "completed")
           /\ Marked(doc, o).completed_at = (ListOf(o) # "failed")
           /\ Marked(doc, o).failed_at = (ListOf(o) = "failed")
<1>1. CASE o = "completed"
  <2>1. Marked(doc, o) = Completed(doc) /\ ListOf(o) = "completed"
    BY <1>1 DEF Marked, ListOf
  <2> QED  BY <2>1 DEF Completed, Document, Statuses, Lists
<1>2. CASE o = "skipped"
  <2>1. Marked(doc, o) = Skipped(doc) /\ ListOf(o) = "skipped"
    BY <1>2 DEF Marked, ListOf
  <2> QED  BY <2>1 DEF Skipped, Document, Statuses, Lists
<1>3. CASE o \in {"failed", "waiting"}
  <2>1. Marked(doc, o) = Failed(doc) /\ ListOf(o) = "failed"
    BY <1>3 DEF Marked, ListOf
  <2> QED  BY <2>1 DEF Failed, Document, Statuses, Lists
<1> QED  BY <1>1, <1>2, <1>3 DEF Outcomes

\* The forms of document that earlier batches leave are documents of one
\* outcome, tagged as theirs.
LEMMA InheritedAreWhole ==
    ASSUME NEW doc \in Inherited
    PROVE  /\ doc \in Document
           /\ doc.tag = Earlier
           /\ doc.status = "completed" =>
                doc.results /\ doc.completed_at /\ ~ doc.error /\ ~ doc.failed_at
           /\ doc.status = "failed" =>
                ~ doc.results /\ ~ doc.completed_at /\ doc.error /\ doc.failed_at
           /\ doc.status = "skipped" =>
                ~ doc.results /\ doc.completed_at /\ doc.error /\ ~ doc.failed_at
<1>1. doc \in Left
  BY InheritedAssumption
<1>2. Untried \in Document /\ Failed(Untried) \in Document
  BY DEF Untried, Failed, Document, Statuses
<1>3. CASE doc = Untried
  BY <1>2, <1>3 DEF Untried
<1>7. CASE doc = Failed(Untried)
  BY <1>2, <1>7 DEF Failed, Untried
<1>4. CASE doc \in {Claimed(Untried, Earlier), Claimed(Failed(Untried), Earlier)}
  <2>1. PICK d \in Document : doc = Claimed(d, Earlier)
    BY <1>2, <1>4
  <2>2. doc \in Document /\ doc.status = "running" /\ doc.tag = Earlier
    BY <2>1 DEF Claimed, Document, Statuses
  <2> QED  BY <2>2
<1>5. CASE doc = Completed(Untried)
  BY <1>2, <1>5 DEF Completed, Untried, Document, Statuses
<1>6. CASE doc = Skipped(Untried)
  BY <1>2, <1>6 DEF Skipped, Untried, Document, Statuses
<1> QED  BY <1>1, <1>3, <1>4, <1>5, <1>6, <1>7 DEF Left

\* A claim makes a running document of the claiming batch.
LEMMA ClaimsRun ==
    ASSUME NEW doc \in Document, NEW b \in Batches
    PROVE  /\ Claimed(doc, b) \in Document
           /\ Claimed(doc, b).status = "running"
           /\ Claimed(doc, b).tag = b
BY DEF Claimed, Document, Statuses

-----------------------------------------------------------------------------
(* Types                                                                   *)

LEMMA TypeInit == Init => TypeOK
<1> SUFFICES ASSUME Init PROVE TypeOK
  OBVIOUS
<1>1. docs \in [Materials -> Document]
  BY InheritedAreWhole DEF Init
<1>2. NoItems \in [Lists -> SUBSET Materials]
  BY DEF NoItems
<1> QED
  BY <1>1, <1>2, ClaimAssumption DEF Init, TypeOK, Steps, Outcomes, AtWork

LEMMA TypeStep == TypeOK /\ [Next]_vars => TypeOK'
<1> SUFFICES ASSUME TypeOK, [Next]_vars PROVE TypeOK'
  OBVIOUS
<1> USE DEF TypeOK, Steps, AtWork, bounds
<1>1. ASSUME NEW b \in Batches, Start(b) PROVE TypeOK'
  BY <1>1 DEF Start
<1>2. ASSUME NEW b \in Batches, NEW m \in Materials, Fetch(b, m) PROVE TypeOK'
  <2>1. Claimed(docs[m], b) \in Document
    BY ClaimsRun
  <2>2. m # 0
    BY ClaimAssumption DEF Materials
  <2> QED  BY <1>2, <2>1, <2>2 DEF Fetch
<1>3. ASSUME NEW b \in Batches, FetchNothing(b) PROVE TypeOK'
  BY <1>3 DEF FetchNothing
<1>4. ASSUME NEW b \in Batches, NEW o \in {"none", "failed"}, Prepare(b, o)
      PROVE TypeOK'
  BY <1>4 DEF Prepare, Outcomes
<1>5. ASSUME NEW b \in Batches, NEW o \in Outcomes, Run(b, o) PROVE TypeOK'
  BY <1>5 DEF Run, Outcomes
<1>6. ASSUME NEW b \in Batches, Write(b) PROVE TypeOK'
  <2>1. current[b] \in Materials /\ outcome[b] \in Outcomes
    BY <1>6 DEF Write
  <2>2. Marked(docs[current[b]], outcome[b]) \in Document
    BY <2>1, MarksAreWhole
  <2> QED  BY <1>6, <2>1, <2>2 DEF Write
<1>7. ASSUME NEW b \in Batches, Count(b) PROVE TypeOK'
  <2>1. current[b] \in Materials /\ outcome[b] \in Outcomes
    BY <1>7 DEF Count
  <2>2. ListOf(outcome[b]) \in Lists
    BY DEF ListOf, Lists
  <2>3. tally' \in [Batches -> [Lists -> SUBSET Materials]]
    BY <1>7, <2>1, <2>2 DEF Count
  <2> QED  BY <1>7, <2>3 DEF Count
<1>8. ASSUME NEW b \in Batches, Finalize(b) PROVE TypeOK'
  BY <1>8 DEF Finalize
<1>9. ASSUME NEW b \in Batches, Crash(b) PROVE TypeOK'
  BY <1>9, ClaimAssumption DEF Crash
<1>10. ASSUME NEW m \in Materials, Expire(m) PROVE TypeOK'
  BY <1>10 DEF Expire, local
<1>11. ASSUME NEW m \in Materials, Overrun(m) PROVE TypeOK'
  BY <1>11, ClaimAssumption DEF Overrun, local
<1>12. ASSUME UNCHANGED vars PROVE TypeOK'
  BY <1>12 DEF vars
<1> QED
  BY <1>1, <1>2, <1>3, <1>4, <1>5, <1>6, <1>7, <1>8, <1>9, <1>10, <1>11, <1>12
     DEF Next, Work

\* The variables keep their types, whatever fails, expires or is restarted.
THEOREM TypeCorrect == Spec => []TypeOK
BY TypeInit, TypeStep, PTL DEF Spec

-----------------------------------------------------------------------------
(* Documents and claims                                                    *)

LEMMA WholeStep == TypeOK /\ OutcomeIsWhole /\ [Next]_vars => OutcomeIsWhole'
<1> SUFFICES ASSUME TypeOK, OutcomeIsWhole, [Next]_vars PROVE OutcomeIsWhole'
  OBVIOUS
<1>1. ASSUME NEW b \in Batches, NEW m \in Materials, Fetch(b, m)
      PROVE OutcomeIsWhole'
  <2>1. docs[m] \in Document /\ docs' = [docs EXCEPT ![m] = Claimed(docs[m], b)]
    BY <1>1 DEF Fetch, TypeOK
  <2>2. docs'[m].status = "running"
    BY <2>1, ClaimsRun DEF TypeOK
  <2>3. \A n \in Materials \ {m} : docs'[n] = docs[n]
    BY <2>1 DEF TypeOK
  <2> QED  BY <2>2, <2>3 DEF OutcomeIsWhole
<1>2. ASSUME NEW b \in Batches, Write(b) PROVE OutcomeIsWhole'
  <2> DEFINE m == current[b]
             o == outcome[b]
  <2>1. m \in Materials /\ o \in Outcomes /\ docs[m] \in Document
    BY <1>2 DEF Write, TypeOK, AtWork
  <2>2. docs' = [docs EXCEPT ![m] = Marked(docs[m], o)]
    BY <1>2 DEF Write
  <2>3. docs'[m] = Marked(docs[m], o)
        /\ \A n \in Materials \ {m} : docs'[n] = docs[n]
    BY <2>1, <2>2 DEF TypeOK
  <2> HIDE DEF m, o
  <2>4. /\ docs'[m].status = ListOf(o)
        /\ docs'[m].results = (ListOf(o) = "completed")
        /\ docs'[m].error = (ListOf(o) # "completed")
        /\ docs'[m].completed_at = (ListOf(o) # "failed")
        /\ docs'[m].failed_at = (ListOf(o) = "failed")
    BY <2>1, <2>3, MarksAreWhole
  <2> QED  BY <2>3, <2>4 DEF OutcomeIsWhole
<1>3. CASE UNCHANGED docs
  BY <1>3 DEF OutcomeIsWhole
<1> QED
  BY <1>1, <1>2, <1>3
     DEF Next, Work, Start, FetchNothing, Prepare, Run, Count, Finalize, Crash,
         Expire, Overrun, vars

\* Whatever the number of batches, the order of their writes and the claims
\* that expire under them, a document's fields are those of one outcome.
THEOREM OutcomesAreWhole == Spec => []OutcomeIsWhole
<1>1. Init => OutcomeIsWhole
  BY InheritedAreWhole DEF Init, OutcomeIsWhole
<1> QED  BY <1>1, WholeStep, TypeCorrect, PTL DEF Spec

LEMMA RunningStep == TypeOK /\ RunningIsRun /\ [Next]_vars => RunningIsRun'
<1> SUFFICES ASSUME TypeOK, RunningIsRun, [Next]_vars,
                    crashes' = 0,
                    NEW m \in Materials,
                    docs'[m].status = "running", docs'[m].tag # Earlier
             PROVE  WorksOn(docs[m].tag, m)'
  BY DEF RunningIsRun
<1>0. /\ docs[m].status = "running" /\ docs[m].tag # Earlier /\ crashes = 0
         => WorksOn(docs[m].tag, m) /\ docs[m].tag \in Batches
  BY DEF RunningIsRun, TypeOK, Document
<1>1. ASSUME NEW b \in Batches, NEW n \in Materials, Fetch(b, n)
      PROVE WorksOn(docs[m].tag, m)'
  <2>1. docs[n] \in Document
        /\ docs' = [docs EXCEPT ![n] = Claimed(docs[n], b)]
        /\ step' = [step EXCEPT ![b] = "prepare"]
        /\ current' = [current EXCEPT ![b] = n]
        /\ step[b] = "fetch" /\ crashes' = crashes
    BY <1>1 DEF Fetch, TypeOK, bounds
  <2>2. CASE m = n
    <3>1. docs'[m] = Claimed(docs[m], b)
      BY <2>1, <2>2 DEF TypeOK
    <3>2. docs'[m].tag = b
      BY <2>1, <2>2, <3>1, ClaimsRun
    <3> QED  BY <2>1, <2>2, <3>2 DEF WorksOn, AtWork, TypeOK
  <2>3. CASE m # n
    <3>1. docs'[m] = docs[m]
      BY <2>1, <2>3 DEF TypeOK
    <3>2. WorksOn(docs[m].tag, m) /\ docs[m].tag \in Batches
      BY <1>0, <2>1, <3>1
    <3>3. docs[m].tag # b
      BY <2>1, <3>2 DEF WorksOn, AtWork
    <3> QED  BY <2>1, <3>1, <3>2, <3>3 DEF WorksOn, TypeOK
  <2> QED  BY <2>2, <2>3
<1>2. ASSUME NEW b \in Batches, Write(b) PROVE WorksOn(docs[m].tag, m)'
  <2> DEFINE n == current[b]
             o == outcome[b]
  <2>1. n \in Materials /\ o \in Outcomes /\ docs[n] \in Document
    BY <1>2 DEF Write, TypeOK, AtWork
  <2>2. docs' = [docs EXCEPT ![n] = Marked(docs[n], o)]
        /\ step' = [step EXCEPT ![b] = "count"]
        /\ current' = current /\ crashes' = crashes
    BY <1>2 DEF Write, bounds
  <2>3. m # n
    <3>1. Marked(docs[n], o).status # "running"
      BY <2>1, MarksAreWhole DEF Lists
    <3> QED  BY <2>1, <2>2, <3>1 DEF TypeOK
  <2>4. docs'[m] = docs[m]
    BY <2>2, <2>3 DEF TypeOK
  <2>5. WorksOn(docs[m].tag, m) /\ docs[m].tag \in Batches
    BY <1>0, <2>2, <2>4
  <2>6. docs[m].tag # b
    BY <2>3, <2>5 DEF WorksOn
  <2> QED  BY <2>2, <2>4, <2>5, <2>6 DEF WorksOn, TypeOK
<1>3. ASSUME NEW b \in Batches,
             \/ Start(b) \/ FetchNothing(b) \/ Count(b) \/ Finalize(b)
             \/ \E o \in {"none", "failed"} : Prepare(b, o)
             \/ \E o \in Outcomes : Run(b, o)
      PROVE WorksOn(docs[m].tag, m)'
  <2>1. docs' = docs /\ crashes' = crashes
    BY <1>3 DEF Start, FetchNothing, Count, Finalize, Prepare, Run, bounds
  <2>2. WorksOn(docs[m].tag, m) /\ docs[m].tag \in Batches
    BY <1>0, <2>1
  <2>3. CASE docs[m].tag # b
    BY <1>3, <2>1, <2>2, <2>3
       DEF Start, FetchNothing, Count, Finalize, Prepare, Run, WorksOn, TypeOK
  <2>4. CASE docs[m].tag = b
    BY <1>3, <2>1, <2>2, <2>4
       DEF Start, FetchNothing, Count, Finalize, Prepare, Run, WorksOn, TypeOK,
           AtWork
  <2> QED  BY <2>3, <2>4
<1>4. ASSUME NEW b \in Batches, Crash(b) PROVE FALSE
  BY <1>4 DEF Crash, TypeOK
<1>5. ASSUME (\E n \in Materials : Expire(n) \/ Overrun(n)) \/ UNCHANGED vars
      PROVE WorksOn(docs[m].tag, m)'
  <2>1. docs' = docs /\ crashes' = crashes /\ step' = step /\ current' = current
    BY <1>5 DEF Expire, Overrun, vars, local, bounds
  <2> QED  BY <1>0, <2>1 DEF WorksOn
<1> QED  BY <1>1, <1>2, <1>3, <1>4, <1>5 DEF Next, Work

\* As long as no process dies, a material that carries a batch's tag and is
\* marked running is being run by that batch, even after the batch it was
\* taken over from has written its outcome.
THEOREM RunningMaterialsRun == Spec => []RunningIsRun
<1>1. Init => RunningIsRun
  BY InheritedAreWhole DEF Init, RunningIsRun
<1> QED  BY <1>1, RunningStep, TypeCorrect, PTL DEF Spec

-----------------------------------------------------------------------------
(* One batch at a time                                                     *)

\* A steady material that a batch works on is claimed by that batch, and the
\* claim has not expired.
Held ==
    \A b \in Batches, m \in Steady :
        WorksOn(b, m) =>
            docs[m].status = "running" /\ docs[m].tag = b /\ m \notin expired

\* So nobody can claim it, and nobody else works on it.
LEMMA HeldByOne ==
    ASSUME Held, NEW b \in Batches, NEW m \in Steady, WorksOn(b, m)
    PROVE  /\ \A c \in Batches : ~ Claimable(c, m)
           /\ \A c \in Batches : WorksOn(c, m) => c = b
           /\ docs[m].status = "running"
           /\ docs[m].tag = b
BY DEF Held, Claimable, Retryable, Abandoned

LEMMA HeldStep == TypeOK /\ Held /\ [Next]_vars => Held'
<1> SUFFICES ASSUME TypeOK, Held, [Next]_vars,
                    NEW a \in Batches, NEW m \in Steady, WorksOn(a, m)'
             PROVE  docs'[m].status = "running" /\ docs'[m].tag = a
                    /\ m \notin expired'
  BY DEF Held
<1> m \in Materials /\ m \notin Slow
  BY DEF Steady
<1>0. WorksOn(a, m) =>
        docs[m].status = "running" /\ docs[m].tag = a /\ m \notin expired
  BY DEF Held
<1>1. ASSUME NEW b \in Batches, NEW n \in Materials, Fetch(b, n)
      PROVE docs'[m].status = "running" /\ docs'[m].tag = a /\ m \notin expired'
  <2>1. /\ docs[n] \in Document /\ Claimable(b, n) /\ step[b] = "fetch"
        /\ docs' = [docs EXCEPT ![n] = Claimed(docs[n], b)]
        /\ expired' = expired \ {n}
        /\ step' = [step EXCEPT ![b] = "prepare"]
        /\ current' = [current EXCEPT ![b] = n]
    BY <1>1 DEF Fetch, TypeOK
  <2>2. CASE a = b
    <3>1. m = n
      BY <2>1, <2>2 DEF WorksOn, TypeOK
    <3>2. docs'[m] = Claimed(docs[m], b)
      BY <2>1, <3>1 DEF TypeOK
    <3> QED  BY <2>1, <2>2, <3>1, <3>2, ClaimsRun
  <2>3. CASE a # b
    <3>1. WorksOn(a, m)
      BY <2>1, <2>3 DEF WorksOn, TypeOK
    <3>2. m # n
      BY <2>1, <3>1, HeldByOne
    <3>3. docs'[m] = docs[m]
      BY <2>1, <3>2 DEF TypeOK
    <3> QED  BY <1>0, <2>1, <3>1, <3>3
  <2> QED  BY <2>2, <2>3
<1>2. ASSUME NEW b \in Batches, Write(b)
      PROVE docs'[m].status = "running" /\ docs'[m].tag = a /\ m \notin expired'
  <2> DEFINE n == current[b]
  <2>1. /\ n \in Materials /\ step[b] = "aggregate" /\ WorksOn(b, n)
        /\ docs' = [docs EXCEPT ![n] = Marked(docs[n], outcome[b])]
        /\ step' = [step EXCEPT ![b] = "count"]
        /\ current' = current /\ expired' = expired
    BY <1>2 DEF Write, TypeOK, AtWork, WorksOn
  <2>2. a # b
    BY <2>1 DEF WorksOn, TypeOK, AtWork
  <2>3. WorksOn(a, m)
    BY <2>1, <2>2 DEF WorksOn, TypeOK
  <2>4. m # n
    BY <2>1, <2>2, <2>3, HeldByOne
  <2>5. docs'[m] = docs[m]
    BY <2>1, <2>4 DEF TypeOK
  <2> QED  BY <1>0, <2>1, <2>3, <2>5
<1>3. ASSUME NEW b \in Batches,
             \/ Start(b) \/ FetchNothing(b) \/ Count(b) \/ Finalize(b) \/ Crash(b)
             \/ \E o \in {"none", "failed"} : Prepare(b, o)
             \/ \E o \in Outcomes : Run(b, o)
      PROVE docs'[m].status = "running" /\ docs'[m].tag = a /\ m \notin expired'
  <2>1. docs' = docs /\ expired' = expired
    BY <1>3 DEF Start, FetchNothing, Count, Finalize, Crash, Prepare, Run
  <2>2. WorksOn(a, m)
    BY <1>3 DEF Start, FetchNothing, Count, Finalize, Crash, Prepare, Run,
                WorksOn, TypeOK, AtWork
  <2> QED  BY <1>0, <2>1, <2>2
<1>4. ASSUME NEW n \in Materials, Expire(n) \/ Overrun(n)
      PROVE docs'[m].status = "running" /\ docs'[m].tag = a /\ m \notin expired'
  <2>1. docs' = docs /\ expired' = expired \cup {n} /\ WorksOn(a, m)
    BY <1>4 DEF Expire, Overrun, local, WorksOn
  <2>2. n # m
    BY <1>4, <2>1 DEF Expire, Overrun
  <2> QED  BY <1>0, <2>1, <2>2
<1>5. CASE UNCHANGED vars
  <2>1. docs' = docs /\ expired' = expired /\ WorksOn(a, m)
    BY <1>5 DEF vars, WorksOn
  <2> QED  BY <1>0, <2>1
<1> QED  BY <1>1, <1>2, <1>3, <1>4, <1>5 DEF Next, Work

THEOREM HeldAlways == Spec => []Held
<1>1. Init => Held
  BY DEF Init, Held, WorksOn, AtWork
<1> QED  BY <1>1, HeldStep, TypeCorrect, PTL DEF Spec

-----------------------------------------------------------------------------
(* The promise of the queue                                                *)

\* The batch that works on a material is its holder.
LEMMA HolderIsWorker ==
    ASSUME Held, NEW m \in Steady
    PROVE  /\ \A b \in Batches : WorksOn(b, m) => HolderOf(m) = b
           /\ (\A b \in Batches : ~ WorksOn(b, m)) => HolderOf(m) = Nobody
           /\ HolderOf(m) \in Batches => WorksOn(HolderOf(m), m)
<1>1. CASE \E b \in Batches : WorksOn(b, m)
  <2>1. HolderOf(m) \in Batches /\ WorksOn(HolderOf(m), m)
    BY <1>1 DEF HolderOf
  <2> QED  BY <1>1, <2>1, HeldByOne
<1>2. CASE ~ \E b \in Batches : WorksOn(b, m)
  <2>1. HolderOf(m) = Nobody
    BY <1>2 DEF HolderOf
  <2> QED  BY <1>2, <2>1, ClaimAssumption DEF Nobody
<1> QED  BY <1>1, <1>2

\* The same of the next state.
LEMMA HolderIsWorkerNext ==
    ASSUME Held', NEW m \in Steady
    PROVE  /\ \A b \in Batches : WorksOn(b, m)' => HolderOf(m)' = b
           /\ (\A b \in Batches : ~ WorksOn(b, m)') => HolderOf(m)' = Nobody
<1>1. CASE \E b \in Batches : WorksOn(b, m)'
  <2>1. HolderOf(m)' \in Batches
        /\ \E b \in Batches : b = HolderOf(m)' /\ WorksOn(b, m)'
    BY <1>1 DEF HolderOf
  <2>2. \A b, c \in Batches : WorksOn(b, m)' /\ WorksOn(c, m)' => b = c
    BY DEF Held
  <2> QED  BY <1>1, <2>1, <2>2
<1>2. CASE ~ \E b \in Batches : WorksOn(b, m)'
  BY <1>2 DEF HolderOf
<1> QED  BY <1>1, <1>2

\* A step that leaves alone who works on a steady material, and its document,
\* is none of the queue.
LEMMA QueueStutters ==
    ASSUME Held, Held',
           \A m \in Steady : docs'[m].status = docs[m].status,
           \A b \in Batches, m \in Steady : WorksOn(b, m)' <=> WorksOn(b, m)
    PROVE  UNCHANGED <<[m \in Steady |-> HolderOf(m)],
                       [m \in Steady |-> VerdictOf(m)]>>
<1>1. \A m \in Steady : HolderOf(m)' = HolderOf(m)
  BY HolderIsWorker, HolderIsWorkerNext
<1>2. \A m \in Steady : VerdictOf(m)' = VerdictOf(m)
  BY DEF VerdictOf
<1> QED  BY <1>1, <1>2

LEMMA QueueStep ==
    TypeOK /\ Held /\ Held' /\ [Next]_vars => [Queue!Next]_(Queue!vars)
<1> SUFFICES ASSUME TypeOK, Held, Held', [Next]_vars
             PROVE  [Queue!Next]_(Queue!vars)
  OBVIOUS
<1> DEFINE holder == [m \in Steady |-> HolderOf(m)]
           verdict == [m \in Steady |-> VerdictOf(m)]
<1>0. ASSUME \A m \in Steady : docs'[m].status = docs[m].status,
             \A b \in Batches, m \in Steady : WorksOn(b, m)' <=> WorksOn(b, m)
      PROVE  [Queue!Next]_(Queue!vars)
  BY <1>0, QueueStutters DEF Queue!vars, Steady
<1>1. ASSUME NEW b \in Batches, NEW n \in Materials, Fetch(b, n)
      PROVE [Queue!Next]_(Queue!vars)
  <2>1. /\ docs[n] \in Document /\ Claimable(b, n) /\ step[b] = "fetch"
        /\ docs' = [docs EXCEPT ![n] = Claimed(docs[n], b)]
        /\ step' = [step EXCEPT ![b] = "prepare"]
        /\ current' = [current EXCEPT ![b] = n]
    BY <1>1 DEF Fetch, TypeOK
  <2>2. \A c \in Batches, m \in Materials :
          WorksOn(c, m)' <=> IF c = b THEN m = n ELSE WorksOn(c, m)
    BY <2>1 DEF WorksOn, TypeOK, AtWork
  <2>3. \A m \in Materials : ~ WorksOn(b, m)
    BY <2>1 DEF WorksOn, AtWork
  <2>4. \A m \in Materials \ {n} : docs'[m] = docs[m]
    BY <2>1 DEF TypeOK
  <2>5. docs'[n].status = "running"
    BY <2>1, ClaimsRun DEF TypeOK
  <2>6. CASE n \notin Steady
    BY <1>0, <2>2, <2>3, <2>4, <2>6 DEF Steady
  <2>7. CASE n \in Steady
    <3>1. \A c \in Batches : ~ WorksOn(c, n)
      BY <2>1, <2>7, HeldByOne
    <3>2. holder[n] = Nobody
      BY <2>7, <3>1, HolderIsWorker
    <3>3. verdict[n] \notin {"completed", "skipped"}
      <4>1. docs[n].status \in {"pending", "failed", "running"}
        BY <2>1 DEF Claimable, Retryable, Abandoned
      <4> QED  BY <2>7, <4>1 DEF VerdictOf
    <3>4. \A m \in Steady : holder[m] # b
      BY <2>3, HolderIsWorker DEF Steady
    <3>5. \A m \in Steady : HolderOf(m)' = IF m = n THEN b ELSE HolderOf(m)
      <4>1. HolderOf(n)' = b
        BY <2>2, <2>7, HolderIsWorkerNext DEF Steady
      <4>2. ASSUME NEW m \in Steady, m # n PROVE HolderOf(m)' = HolderOf(m)
        <5>1. \A c \in Batches : WorksOn(c, m)' <=> WorksOn(c, m)
          BY <2>2, <2>3, <4>2 DEF Steady
        <5> QED  BY <5>1, HolderIsWorker, HolderIsWorkerNext
      <4> QED  BY <4>1, <4>2
    <3>6. \A m \in Steady : VerdictOf(m)' = IF m = n THEN "open" ELSE VerdictOf(m)
      BY <2>4, <2>5 DEF VerdictOf, Steady
    <3>7. holder' = [holder EXCEPT ![n] = b] /\ verdict' = [verdict EXCEPT ![n] = "open"]
      BY <3>5, <3>6
    <3>8. Queue!Take(b, n)
      BY <2>7, <3>2, <3>3, <3>4, <3>7 DEF Queue!Take, Queue!Settled, Steady
    <3> QED  BY <2>7, <3>8 DEF Queue!Next, Steady
  <2> QED  BY <2>6, <2>7
<1>2. ASSUME NEW b \in Batches, Write(b) PROVE [Queue!Next]_(Queue!vars)
  <2> DEFINE o == ListOf(outcome[b])
  <2>0. PICK n \in Materials : n = current[b]
    BY <1>2 DEF Write, TypeOK, AtWork
  <2>1. /\ outcome[b] \in Outcomes /\ docs[n] \in Document
        /\ WorksOn(b, n)
        /\ docs' = [docs EXCEPT ![n] = Marked(docs[n], outcome[b])]
        /\ step' = [step EXCEPT ![b] = "count"] /\ current' = current
    BY <1>2, <2>0 DEF Write, TypeOK, AtWork, WorksOn
  <2>2. \A c \in Batches, m \in Materials :
          WorksOn(c, m)' <=> (c # b /\ WorksOn(c, m))
    BY <2>1 DEF WorksOn, TypeOK, AtWork
  <2>3. \A m \in Materials \ {n} : ~ WorksOn(b, m) /\ docs'[m] = docs[m]
    BY <2>1 DEF WorksOn, TypeOK
  <2>4. docs'[n].status = o /\ o \in Lists
    BY <2>1, MarksAreWhole DEF TypeOK
  <2> HIDE DEF o
  <2>5. CASE n \notin Steady
    BY <1>0, <2>2, <2>3, <2>5 DEF Steady
  <2>6. CASE n \in Steady
    <3>1. holder[n] = b
      BY <2>1, <2>6, HolderIsWorker
    <3>2. \A m \in Steady : HolderOf(m)' = IF m = n THEN Nobody ELSE HolderOf(m)
      <4>1. HolderOf(n)' = Nobody
        BY <2>1, <2>2, <2>6, HeldByOne, HolderIsWorkerNext DEF Steady
      <4>2. ASSUME NEW m \in Steady, m # n PROVE HolderOf(m)' = HolderOf(m)
        <5>1. \A c \in Batches : WorksOn(c, m)' <=> WorksOn(c, m)
          BY <2>2, <2>3, <4>2 DEF Steady
        <5> QED  BY <5>1, HolderIsWorker, HolderIsWorkerNext
      <4> QED  BY <4>1, <4>2
    <3>3. \A m \in Steady : VerdictOf(m)' = IF m = n THEN o ELSE VerdictOf(m)
      BY <2>3, <2>4 DEF VerdictOf, Steady, Lists
    <3>4. holder' = [holder EXCEPT ![n] = Nobody] /\ verdict' = [verdict EXCEPT ![n] = o]
      BY <3>2, <3>3
    <3>5. Queue!Settle(b, n, o)
      BY <3>1, <3>4 DEF Queue!Settle, Steady
    <3>6. o \in Queue!Verdicts
      BY <2>4 DEF Queue!Verdicts, Queue!Settled, Lists
    <3> QED  BY <2>6, <3>5, <3>6 DEF Queue!Next, Steady
  <2> QED  BY <2>5, <2>6
<1>3. ASSUME NEW b \in Batches, Crash(b) PROVE [Queue!Next]_(Queue!vars)
  <2>1. /\ docs' = docs /\ step' = [step EXCEPT ![b] = "off"]
        /\ current' = [current EXCEPT ![b] = 0]
    BY <1>3 DEF Crash
  <2>2. \A c \in Batches, m \in Materials :
          WorksOn(c, m)' <=> (c # b /\ WorksOn(c, m))
    BY <2>1 DEF WorksOn, TypeOK, AtWork
  <2>3. CASE \A m \in Steady : ~ WorksOn(b, m)
    BY <1>0, <2>1, <2>2, <2>3 DEF Steady
  <2>4. CASE \E m \in Steady : WorksOn(b, m)
    <3>1. PICK n \in Steady : WorksOn(b, n)
      BY <2>4
    <3>2. \A m \in Steady \ {n} : ~ WorksOn(b, m)
      BY <3>1 DEF WorksOn
    <3>3. holder[n] = b
      BY <3>1, HolderIsWorker
    <3>4. \A m \in Steady : HolderOf(m)' = IF m = n THEN Nobody ELSE HolderOf(m)
      <4>1. HolderOf(n)' = Nobody
        BY <2>2, <3>1, HeldByOne, HolderIsWorkerNext DEF Steady
      <4>2. ASSUME NEW m \in Steady, m # n PROVE HolderOf(m)' = HolderOf(m)
        <5>1. \A c \in Batches : WorksOn(c, m)' <=> WorksOn(c, m)
          BY <2>2, <3>2, <4>2 DEF Steady
        <5> QED  BY <5>1, HolderIsWorker, HolderIsWorkerNext
      <4> QED  BY <4>1, <4>2
    <3>5. holder' = [holder EXCEPT ![n] = Nobody]
      BY <3>4
    <3>6. verdict' = verdict
      BY <2>1 DEF VerdictOf
    <3>7. Queue!Drop(b, n)
      BY <3>3, <3>5, <3>6 DEF Queue!Drop, Steady
    <3> QED  BY <3>7 DEF Queue!Next, Steady
  <2> QED  BY <2>3, <2>4
<1>4. ASSUME NEW b \in Batches,
             \/ Start(b) \/ FetchNothing(b) \/ Count(b) \/ Finalize(b)
             \/ \E o \in {"none", "failed"} : Prepare(b, o)
             \/ \E o \in Outcomes : Run(b, o)
      PROVE [Queue!Next]_(Queue!vars)
  <2>1. docs' = docs
    BY <1>4 DEF Start, FetchNothing, Count, Finalize, Prepare, Run
  <2>2. \A c \in Batches, m \in Steady : WorksOn(c, m)' <=> WorksOn(c, m)
    BY <1>4 DEF Start, FetchNothing, Count, Finalize, Prepare, Run,
                WorksOn, TypeOK, AtWork
  <2> QED  BY <1>0, <2>1, <2>2
<1>5. ASSUME (\E n \in Materials : Expire(n) \/ Overrun(n)) \/ UNCHANGED vars
      PROVE [Queue!Next]_(Queue!vars)
  <2>1. docs' = docs /\ step' = step /\ current' = current
    BY <1>5 DEF Expire, Overrun, vars, local
  <2> QED  BY <1>0, <2>1 DEF WorksOn
<1> QED  BY <1>1, <1>2, <1>3, <1>4, <1>5 DEF Next, Work

LEMMA QueueInit == Init => Queue!Init
<1> SUFFICES ASSUME Init PROVE Queue!Init
  OBVIOUS
<1>1. \A m \in Steady : HolderOf(m) = Nobody
  BY DEF Init, HolderOf, WorksOn, AtWork
<1>2. \A m \in Materials : docs[m].status \in Statuses
  BY InheritedAreWhole DEF Init, Document
<1>3. \A m \in Steady : VerdictOf(m) \in Queue!Verdicts \cup {"open"}
  BY <1>2 DEF VerdictOf, Statuses, Queue!Verdicts, Queue!Settled, Steady
<1> QED  BY <1>1, <1>3 DEF Queue!Init, Steady

\* For the materials whose runs end before the claims on them do, the
\* collection and its batches implement MaterialQueue: one batch at a time
\* works on a material, only that batch writes its outcome, and a completed or
\* skipped one is never run again, whatever dies or is restarted.
THEOREM TheQueueIsKept == Spec => KeepsTheQueue
<1>1. Spec => []TypeOK /\ []Held
  BY TypeCorrect, HeldAlways
<1> QED
  BY <1>1, QueueInit, QueueStep, PTL DEF Spec, KeepsTheQueue, Queue!Spec

-----------------------------------------------------------------------------
(* The tally                                                               *)

Ends == {"completed", "skipped"}

\* A batch that does not run has the lists it would start from.
AtRest == \A b \in Batches : step[b] = "off" => tally[b] = saved[b]

\* Batch b has written the outcome of m, and not counted it.
Counting(b, m) == step[b] = "count" /\ current[b] = m

\* The document that a batch is about to count is as it wrote it, unless the
\* outcome was a failure that another batch has taken over.
CountedAs(b, m) ==
    Counting(b, m) /\ (docs[m].tag = b \/ ListOf(outcome[b]) \in Ends)
        => docs[m].status = ListOf(outcome[b])

\* What is on a list of a batch, or on the list it would start from, is so;
\* and when no process has died what is so is on the list, but for the
\* material being counted.
ListedAs(b, m, l) ==
    /\ m \in tally[b][l] \cup saved[b][l] => docs[m].status = l
    /\ crashes = 0 /\ docs[m].tag = b /\ docs[m].status = l /\ ~ Counting(b, m)
         => m \in tally[b][l]

Listed ==
    \A b \in Batches, m \in Steady, l \in Ends : CountedAs(b, m) /\ ListedAs(b, m, l)

LEMMA AtRestStep == TypeOK /\ AtRest /\ [Next]_vars => AtRest'
BY DEF Next, Work, Start, Fetch, FetchNothing, Prepare, Run, Write, Count,
       Finalize, Crash, Expire, Overrun, vars, local, TypeOK, AtRest

LEMMA ListedStep == TypeOK /\ Held /\ AtRest /\ Listed /\ [Next]_vars => Listed'
<1> SUFFICES ASSUME TypeOK, Held, AtRest, Listed, [Next]_vars,
                    NEW a \in Batches, NEW m \in Steady, NEW l \in Ends
             PROVE  CountedAs(a, m)' /\ ListedAs(a, m, l)'
  BY DEF Listed
<1> m \in Materials /\ l \in Lists
  BY DEF Steady, Ends, Lists
<1>0. CountedAs(a, m) /\ ListedAs(a, m, l)
  BY DEF Listed
<1> DEFINE Goal == CountedAs(a, m)' /\ ListedAs(a, m, l)'
<1>1. ASSUME NEW b \in Batches, NEW n \in Materials, Fetch(b, n) PROVE Goal
  <2>1. /\ docs[n] \in Document /\ Claimable(b, n) /\ step[b] = "fetch"
        /\ docs' = [docs EXCEPT ![n] = Claimed(docs[n], b)]
        /\ step' = [step EXCEPT ![b] = "prepare"]
        /\ current' = [current EXCEPT ![b] = n]
        /\ outcome' = outcome /\ tally' = tally /\ saved' = saved
        /\ crashes' = crashes
    BY <1>1 DEF Fetch, TypeOK, bounds
  <2>2. Counting(a, m)' <=> Counting(a, m)
    BY <2>1 DEF Counting, TypeOK
  <2>3. CASE m # n
    BY <1>0, <2>1, <2>2, <2>3 DEF CountedAs, ListedAs, TypeOK
  <2>4. CASE m = n
    <3>1. docs'[m].status = "running" /\ docs'[m].tag = b
      BY <2>1, <2>4, ClaimsRun DEF TypeOK
    <3>2. docs[m].status \notin Ends
      BY <2>1, <2>4 DEF Claimable, Retryable, Abandoned, Ends
    <3>3. m \notin tally[a][l] \cup saved[a][l]
      BY <1>0, <3>2 DEF ListedAs
    <3>4. Counting(a, m) => a # b /\ ListOf(outcome[a]) \notin Ends
      BY <1>0, <2>1, <3>2 DEF CountedAs, Counting
    <3> QED  BY <2>1, <2>2, <3>1, <3>3, <3>4 DEF CountedAs, ListedAs, Ends
  <2> QED  BY <2>3, <2>4
<1>2. ASSUME NEW b \in Batches, Write(b) PROVE Goal
  <2>0. PICK n \in Materials : n = current[b]
    BY <1>2 DEF Write, TypeOK, AtWork
  <2>1. /\ outcome[b] \in Outcomes /\ docs[n] \in Document /\ WorksOn(b, n)
        /\ docs' = [docs EXCEPT ![n] = Marked(docs[n], outcome[b])]
        /\ step' = [step EXCEPT ![b] = "count"]
        /\ current' = current /\ outcome' = outcome
        /\ tally' = tally /\ saved' = saved /\ crashes' = crashes
    BY <1>2, <2>0 DEF Write, TypeOK, AtWork, WorksOn, bounds
  <2>2. a # b => (Counting(a, m)' <=> Counting(a, m))
    BY <2>1 DEF Counting, TypeOK
  <2>3. Counting(b, m)' <=> m = n
    BY <2>0, <2>1 DEF Counting, TypeOK
  <2>4. CASE m # n
    <3>1. docs'[m] = docs[m]
      BY <2>1, <2>4 DEF TypeOK
    <3>2. ~ Counting(b, m)
      BY <2>1 DEF Counting, WorksOn, AtWork
    <3>3. Counting(a, m)' <=> Counting(a, m)
      BY <2>2, <2>3, <2>4, <3>2
    <3> QED  BY <1>0, <2>1, <3>1, <3>3 DEF CountedAs, ListedAs
  <2>5. CASE m = n
    <3>1. docs[m].status = "running" /\ docs[m].tag = b
      BY <2>1, <2>5, HeldByOne
    <3>2. docs'[m].status = ListOf(outcome[b]) /\ docs'[m].tag = b
      BY <2>1, <2>5, <3>1, MarksAreWhole DEF TypeOK
    <3>3. m \notin tally[a][l] \cup saved[a][l]
      BY <1>0, <3>1 DEF ListedAs, Ends
    <3>4. CASE a = b
      BY <2>1, <2>3, <2>5, <3>2, <3>3, <3>4 DEF CountedAs, ListedAs
    <3>5. CASE a # b
      <4>1. Counting(a, m) => ListOf(outcome[a]) \notin Ends
        BY <1>0, <3>1 DEF CountedAs, Ends
      <4> QED  BY <2>1, <2>2, <3>2, <3>3, <3>5, <4>1 DEF CountedAs, ListedAs
    <3> QED  BY <3>4, <3>5
  <2> QED  BY <2>4, <2>5
<1>3. ASSUME NEW b \in Batches, Count(b) PROVE Goal
  <2>0. PICK n \in Materials : n = current[b]
    BY <1>3 DEF Count, TypeOK
  <2>1. /\ docs' = docs /\ saved' = saved /\ crashes' = crashes
        /\ step[b] = "count" /\ Counting(b, n)
        /\ tally' = [tally EXCEPT ![b][ListOf(outcome[b])] = @ \cup {n}]
        /\ outcome' = [outcome EXCEPT ![b] = "none"]
        /\ step' = [step EXCEPT ![b] = "fetch"]
        /\ current' = [current EXCEPT ![b] = 0]
    BY <1>3, <2>0 DEF Count, Counting, bounds
  <2>2. CASE a # b
    <3>1. /\ Counting(a, m)' <=> Counting(a, m)
          /\ tally'[a] = tally[a] /\ outcome'[a] = outcome[a]
      BY <2>1, <2>2 DEF Counting, TypeOK
    <3> QED  BY <1>0, <2>1, <3>1 DEF CountedAs, ListedAs
  <2>3. CASE a = b
    <3>1. ~ Counting(b, m)'
      BY <2>1 DEF Counting, TypeOK
    <3>2. ListOf(outcome[b]) \in Lists
      BY DEF ListOf, Lists
    <3>3. tally'[b][l] = IF l = ListOf(outcome[b]) THEN tally[b][l] \cup {n}
                         ELSE tally[b][l]
      BY <2>1, <3>2 DEF TypeOK
    <3>4. CASE m # n
      <4>1. ~ Counting(b, m)
        BY <2>0, <3>4 DEF Counting
      <4> QED
        BY <1>0, <2>1, <2>3, <3>1, <3>3, <3>4, <4>1 DEF CountedAs, ListedAs
    <3>5. CASE m = n
      BY <1>0, <2>1, <2>3, <3>1, <3>3, <3>5 DEF CountedAs, ListedAs
    <3> QED  BY <3>4, <3>5
  <2> QED  BY <2>2, <2>3
<1>4. ASSUME NEW b \in Batches, Start(b) \/ Crash(b) \/ Finalize(b) PROVE Goal
  <2>1. docs' = docs /\ (Crash(b) => crashes' # 0)
    BY <1>4 DEF Start, Crash, Finalize, TypeOK
  <2>2. Counting(a, m)' => Counting(a, m) /\ a # b
    BY <1>4 DEF Start, Crash, Finalize, Counting, TypeOK
  <2>3. ~ Crash(b) => (Counting(a, m)' <=> Counting(a, m)) /\ crashes' = crashes
    BY <1>4 DEF Start, Finalize, Counting, TypeOK, bounds
  <2>4. a # b => outcome'[a] = outcome[a]
    BY <1>4 DEF Start, Crash, Finalize, TypeOK
  <2>5. tally'[a] \in {tally[a], saved[a]} /\ saved'[a] \in {tally[a], saved[a]}
    BY <1>4 DEF Start, Crash, Finalize, TypeOK
  <2>6. ~ Crash(b) => tally'[a] = tally[a]
    BY <1>4 DEF Start, Finalize, TypeOK, AtRest
  <2>7. CountedAs(a, m)'
    BY <1>0, <2>1, <2>2, <2>4 DEF CountedAs
  <2>8. ListedAs(a, m, l)'
    BY <1>0, <2>1, <2>3, <2>5, <2>6 DEF ListedAs
  <2> QED  BY <2>7, <2>8
<1>5. ASSUME NEW b \in Batches,
             \/ FetchNothing(b)
             \/ \E o \in {"none", "failed"} : Prepare(b, o)
             \/ \E o \in Outcomes : Run(b, o)
      PROVE Goal
  <2>1. /\ docs' = docs /\ tally' = tally /\ saved' = saved /\ crashes' = crashes
        /\ Counting(a, m)' <=> Counting(a, m)
        /\ Counting(a, m) => outcome'[a] = outcome[a]
    BY <1>5 DEF FetchNothing, Prepare, Run, Counting, TypeOK, bounds
  <2> QED  BY <1>0, <2>1 DEF CountedAs, ListedAs
<1>6. ASSUME (\E n \in Materials : Expire(n) \/ Overrun(n)) \/ UNCHANGED vars
      PROVE Goal
  <2>1. /\ docs' = docs /\ tally' = tally /\ saved' = saved /\ crashes' = crashes
        /\ outcome' = outcome /\ (Counting(a, m)' <=> Counting(a, m))
    BY <1>6 DEF Expire, Overrun, vars, local, bounds, Counting
  <2> QED  BY <1>0, <2>1 DEF CountedAs, ListedAs
<1> QED  BY <1>1, <1>2, <1>3, <1>4, <1>5, <1>6 DEF Next, Work

\* A batch's account of the materials it finished agrees with the collection,
\* for those whose runs end before their claims do: nothing on its lists was
\* changed behind its back, and without deaths nothing it finished is missing.
THEOREM TalliesAreTrue == Spec => []TallyIsTrue
<1>1. Init => AtRest /\ Listed
  <2> SUFFICES ASSUME Init PROVE AtRest /\ Listed
    OBVIOUS
  <2>1. AtRest
    BY DEF Init, AtRest
  <2>2. ASSUME NEW b \in Batches, NEW m \in Steady, NEW l \in Ends
        PROVE CountedAs(b, m) /\ ListedAs(b, m, l)
    <3>1. docs[m].tag # b
      BY InheritedAreWhole, ClaimAssumption DEF Init, Steady
    <3>2. ~ Counting(b, m) /\ m \notin tally[b][l] \cup saved[b][l]
      BY DEF Init, Counting, NoItems, Ends, Lists
    <3> QED  BY <3>1, <3>2 DEF CountedAs, ListedAs
  <2> QED  BY <2>1, <2>2 DEF Listed
<1>2. Listed => TallyIsTrue
  BY DEF Listed, ListedAs, Counting, TallyIsTrue, Ends, Steady
<1> QED
  BY <1>1, <1>2, AtRestStep, ListedStep, TypeCorrect, HeldAlways, PTL DEF Spec
=============================================================================
