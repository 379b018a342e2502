------------------------ MODULE CaseLifecycleProofs ------------------------
(***************************************************************************)
(* Theorems about CaseLifecycle, for every number of cases, deliveries,    *)
(* requests and failures: types, events that fit the review, and what      *)
(* retrieval relies on.                                                    *)
(***************************************************************************)
EXTENDS CaseLifecycle, FiniteSetTheorems, TLAPS

\* A delivery in progress has a key, and a key a case and an operation.
LEMMA TaskKey ==
    ASSUME TypeOK, NEW w \in Workers, task[w].pc \in Pc
    PROVE  /\ task[w] \in Delivery
           /\ task[w].key \in Keys
           /\ CaseOf(w) \in Cases
           /\ task[w].key[2] \in IndexOperation
           /\ task[w].key = <<CaseOf(w), task[w].key[2]>>
BY DEF TypeOK, Delivery, Free, Pc, Keys, CaseOf

\* A request between its check and its commit names a case.
LEMMA RequestCase ==
    ASSUME TypeOK, NEW a \in Clients
    PROVE  /\ request[a].step \in {"patch", "submit"} => request[a].case \in Cases
           /\ request[a].step = "reindex" =>
                 /\ request[a].key \in Keys
                 /\ request[a].key[1] \in Cases
                 /\ request[a].key[2] \in IndexOperation
BY DEF TypeOK, Request, Idle, Keys

\* What a crash gives back to the broker is a finite number of messages.
LEMMA HandlingCount ==
    ASSUME NEW k \in Keys
    PROVE  /\ Cardinality(Handling(k)) \in Nat
           /\ Cardinality(Handling(k)) > 0 <=> Handling(k) # {}
<1>1. IsFiniteSet(Handling(k))
  BY WorkersAssumption, FS_Subset DEF Handling
<1> QED
  BY <1>1, FS_CardinalityType, FS_EmptySet

\* The effect of Enqueue, whether the job is new or not.
LEMMA EnqueueEffect ==
    ASSUME TypeOK, NEW c \in Cases, NEW k \in Keys, Enqueue(c, k)
    PROVE  /\ indexStatus' = [indexStatus EXCEPT ![c] = "QUEUED"]
           /\ active' = [active EXCEPT ![c] = FALSE]
           /\ job' \in [Keys -> JobStatus]
           /\ queue' \in [Keys -> Nat]
           /\ \A i \in Keys : i # k => job'[i] = job[i] /\ queue'[i] = queue[i]
           /\ job'[k] = IF job[k] = "NONE" THEN "OWED" ELSE job[k]
BY DEF Enqueue, AddJob, TypeOK, JobStatus, jobVars

-----------------------------------------------------------------------------
(* Types *)

LEMMA InitType == Init => TypeOK
BY FaultsAssumption DEF Init, TypeOK, CaseStatus, CaseIndexStatus, JobStatus, Free, Idle

LEMMA TypeStep == TypeOK /\ [Next]_vars => TypeOK'
<1> SUFFICES ASSUME TypeOK, [Next]_vars PROVE TypeOK'
  OBVIOUS
<1> USE DEF caseVars, jobVars, CaseStatus, CaseIndexStatus, JobStatus, Retired
<1>1. ASSUME NEW c \in Cases, NEW old \in SUBSET Cases, NewDraft(c, old) PROVE TypeOK'
  BY <1>1, ContentsAssumption DEF NewDraft, TypeOK
<1>2. ASSUME NEW c \in Cases, Reviewer(c) PROVE TypeOK'
  <2>1. CASE Approve(c)
    BY <2>1, EnqueueEffect DEF Approve, TypeOK, Keys, IndexOperation
  <2>2. CASE Reject(c)
    BY <2>2 DEF Reject, TypeOK
  <2>3. CASE Disable(c)
    BY <2>3, EnqueueEffect DEF Disable, TypeOK, Keys, IndexOperation
  <2> QED
    BY <1>2, <2>1, <2>2, <2>3 DEF Reviewer
<1>3. ASSUME NEW a \in Clients, Client(a) PROVE TypeOK'
  <2>1. CASE \E c \in Cases : PatchRead(a, c) \/ SubmitRead(a, c)
    BY <2>1 DEF PatchRead, SubmitRead, TypeOK, Request
  <2>2. CASE \E c \in Cases : ReindexRead(a, c)
    BY <2>2 DEF ReindexRead, TypeOK, Request, Keys, IndexOperation
  <2>3. CASE PatchWrite(a)
    BY <2>3, RequestCase, ContentsAssumption DEF PatchWrite, TypeOK
  <2>4. CASE SubmitCommit(a)
    BY <2>4, RequestCase DEF SubmitCommit, TypeOK
  <2>5. CASE ReindexQueue(a)
    BY <2>5, RequestCase, EnqueueEffect DEF ReindexQueue, TypeOK
  <2> QED
    BY <1>3, <2>1, <2>2, <2>3, <2>4, <2>5 DEF Client
<1>4. ASSUME NEW w \in Workers, NEW k \in Keys, Take(w, k) \/ TakeReplay(w, k)
      PROVE TypeOK'
  BY <1>4 DEF Take, TakeReplay, TypeOK, Delivery, Pc
<1>5. ASSUME NEW w \in Workers, Handler(w) PROVE TypeOK'
  <2>1. task[w].pc \in Pc
    BY <1>5 DEF Handler, At, ReadCase, Upsert, Publish, Supersede, Delete, Tombstone,
               Settle, Pc
  <2>2. ASSUME NEW pc \in Pc, Goto(w, pc) PROVE task' \in [Workers -> Delivery \cup {Free}]
    BY <2>1, <2>2, TaskKey DEF Goto, TypeOK, Delivery
  <2>3. CASE ReadCase(w)
    BY <2>2, <2>3 DEF ReadCase, TypeOK, Pc
  <2>4. CASE Upsert(w)
    BY <2>1, <2>2, <2>4, TaskKey DEF Upsert, TypeOK, Pc
  <2>5. CASE Publish(w)
    BY <2>1, <2>2, <2>5, TaskKey DEF Publish, TypeOK, Pc
  <2>6. CASE Supersede(w)
    <3>1. PICK old \in supersedes[CaseOf(w)] :
             IF review[old] = "APPROVED"
             THEN /\ review' = [review EXCEPT ![old] = "SUPERSEDED"]
                  /\ Enqueue(old, <<old, "TOMBSTONE">>)
             ELSE UNCHANGED <<review, indexStatus, active, jobVars>>
      BY <2>6 DEF Supersede
    <3>2. old \in Cases
      BY <2>1, TaskKey DEF TypeOK
    <3>3. task' \in [Workers -> Delivery \cup {Free}]
      BY <2>2, <2>6 DEF Supersede, Pc
    <3>4. CASE review[old] = "APPROVED"
      <4>1. /\ <<old, "TOMBSTONE">> \in Keys
            /\ review' = [review EXCEPT ![old] = "SUPERSEDED"]
            /\ Enqueue(old, <<old, "TOMBSTONE">>)
        BY <3>1, <3>2, <3>4 DEF Keys, IndexOperation
      <4>2. UNCHANGED <<supersedes, complete, vector, request, faults>>
        BY <2>6 DEF Supersede
      <4> QED
        BY <3>2, <3>3, <4>1, <4>2, EnqueueEffect DEF TypeOK
    <3>5. CASE review[old] # "APPROVED"
      BY <2>6, <3>1, <3>3, <3>5 DEF Supersede, TypeOK
    <3> QED
      BY <3>4, <3>5
  <2>7. CASE Delete(w)
    BY <2>1, <2>2, <2>7, TaskKey DEF Delete, TypeOK, Pc
  <2>8. CASE Tombstone(w)
    BY <2>1, <2>2, <2>8, TaskKey DEF Tombstone, TypeOK, Pc
  <2>9. CASE Settle(w)
    BY <2>1, <2>9, TaskKey DEF Settle, TypeOK
  <2> QED
    BY <1>5, <2>3, <2>4, <2>5, <2>6, <2>7, <2>8, <2>9 DEF Handler
<1>6. ASSUME NEW w \in Workers, FailRetry(w) \/ FailDead(w) PROVE TypeOK'
  <2>1. task[w].pc \in Pc
    BY <1>6 DEF FailRetry, FailDead, Raises
  <2>2. faults' \in 0..MaxFaults
    BY <1>6, FaultsAssumption DEF FailRetry, FailDead, Raises, Fault, TypeOK
  <2>3. CASE FailRetry(w)
    BY <2>1, <2>2, <2>3, TaskKey DEF FailRetry, TypeOK
  <2>4. CASE FailDead(w)
    BY <2>1, <2>2, <2>4, TaskKey DEF FailDead, TypeOK
  <2> QED
    BY <1>6, <2>3, <2>4
<1>7. ASSUME NEW k \in Keys, RetryJob(k) \/ Duplicate(k) PROVE TypeOK'
  BY <1>7, FaultsAssumption DEF RetryJob, Duplicate, Fault, TypeOK
<1>8. ASSUME Crash PROVE TypeOK'
  BY <1>8, FaultsAssumption, HandlingCount DEF Crash, Fault, TypeOK
<1>9. CASE UNCHANGED vars
  BY <1>9 DEF vars, TypeOK
<1> QED
  BY <1>1, <1>2, <1>3, <1>4, <1>5, <1>6, <1>7, <1>8, <1>9
  DEF Next, CreateDraft, Revision

\* Every variable of the case tables, the queues and the worker keeps its type.
THEOREM TypeCorrect == Spec => []TypeOK
BY InitType, TypeStep, PTL DEF Spec

-----------------------------------------------------------------------------
(* The review never goes back, so what it permits stays permitted *)

\* One step of a review.
LEMMA ReviewForward ==
    ASSUME TypeOK, [Next]_vars, NEW c \in Cases
    PROVE  \/ review'[c] = review[c]
           \/ review[c] = "NONE" /\ review'[c] = "DRAFT"
           \/ review[c] = "DRAFT" /\ review'[c] = "PENDING_REVIEW"
           \/ review[c] = "PENDING_REVIEW" /\ review'[c] \in {"APPROVED", "REJECTED"}
           \/ review[c] = "APPROVED" /\ review'[c] \in Retired
<1> DEFINE Goal == \/ review'[c] = review[c]
                   \/ review[c] = "NONE" /\ review'[c] = "DRAFT"
                   \/ review[c] = "DRAFT" /\ review'[c] = "PENDING_REVIEW"
                   \/ review[c] = "PENDING_REVIEW" /\ review'[c] \in {"APPROVED", "REJECTED"}
                   \/ review[c] = "APPROVED" /\ review'[c] \in Retired
<1>1. ASSUME NEW d \in Cases, NEW old, NewDraft(d, old) PROVE Goal
  BY <1>1 DEF NewDraft, TypeOK
<1>2. ASSUME NEW d \in Cases, Reviewer(d) PROVE Goal
  BY <1>2 DEF Reviewer, Approve, Reject, Disable, TypeOK, Retired
<1>3. ASSUME NEW a \in Clients, Client(a) PROVE Goal
  <2>1. CASE SubmitCommit(a)
    BY <2>1, RequestCase DEF SubmitCommit, TypeOK
  <2>2. CASE ~SubmitCommit(a)
    BY <1>3, <2>2 DEF Client, PatchRead, SubmitRead, ReindexRead, PatchWrite, ReindexQueue,
                      caseVars
  <2> QED
    BY <2>1, <2>2
<1>4. ASSUME NEW w \in Workers, Handler(w) PROVE Goal
  <2>1. CASE Supersede(w)
    <3>1. PICK old \in supersedes[CaseOf(w)] :
             IF review[old] = "APPROVED"
             THEN review' = [review EXCEPT ![old] = "SUPERSEDED"]
             ELSE review' = review
      BY <2>1 DEF Supersede
    <3> QED
      BY <3>1 DEF TypeOK, Retired
  <2>2. CASE ~Supersede(w)
    BY <1>4, <2>2 DEF Handler, ReadCase, Upsert, Publish, Delete, Tombstone, Settle, caseVars
  <2> QED
    BY <2>1, <2>2
<1>5. CASE \/ \E w \in Workers, k \in Keys : Take(w, k) \/ TakeReplay(w, k)
           \/ \E w \in Workers : FailRetry(w) \/ FailDead(w)
           \/ \E k \in Keys : RetryJob(k) \/ Duplicate(k)
           \/ Crash
           \/ UNCHANGED vars
  BY <1>5 DEF Take, TakeReplay, FailRetry, FailDead, RetryJob, Duplicate, Crash, caseVars, vars
<1> QED
  BY <1>1, <1>2, <1>3, <1>4, <1>5 DEF Next, CreateDraft, Revision

LEMMA PermittedStays ==
    ASSUME TypeOK, [Next]_vars, NEW k \in Keys, Permitted(k)
    PROVE  Permitted(k)'
<1>1. k[1] \in Cases
  BY DEF Keys
<1>2. \/ review'[k[1]] = review[k[1]]
      \/ review[k[1]] = "APPROVED" /\ review'[k[1]] \in Retired
  BY <1>1, ReviewForward DEF Permitted, Retired
<1> QED
  BY <1>2 DEF Permitted, Retired

\* It is enough to look at the keys a step names for the first time.
LEMMA EventsKept ==
    ASSUME TypeOK, TypeOK', [Next]_vars, EventsFitReview,
           \A k \in Keys : job'[k] # "NONE" \/ queue'[k] > 0 =>
               job[k] # "NONE" \/ queue[k] > 0 \/ Permitted(k) \/ Permitted(k)',
           \A w \in Workers : task'[w].pc \in Pc => Permitted(task'[w].key),
           \A a \in Clients : request'[a].step = "reindex" => Permitted(request'[a].key)
    PROVE  EventsFitReview'
<1>1. ASSUME NEW k \in Keys, job'[k] # "NONE" \/ queue'[k] > 0 PROVE Permitted(k)'
  BY <1>1, PermittedStays DEF EventsFitReview
<1>2. ASSUME NEW w \in Workers, task'[w].pc \in Pc PROVE Permitted(task[w].key)'
  <2>1. task'[w].key \in Keys
    BY <1>2 DEF TypeOK, Delivery, Free, Pc
  <2>2. PICK k \in Keys : k = task'[w].key
    BY <2>1
  <2>3. Permitted(k)
    BY <1>2, <2>2
  <2> QED
    BY <2>2, <2>3, PermittedStays DEF Permitted
<1>3. ASSUME NEW a \in Clients, request'[a].step = "reindex"
      PROVE Permitted(request[a].key)'
  <2>1. request'[a].key \in Keys
    BY <1>3 DEF TypeOK, Request, Idle
  <2>2. PICK k \in Keys : k = request'[a].key
    BY <2>1
  <2>3. Permitted(k)
    BY <1>3, <2>2
  <2> QED
    BY <2>2, <2>3, PermittedStays DEF Permitted
<1> QED
  BY <1>1, <1>2, <1>3 DEF EventsFitReview

LEMMA EventsStep ==
    ASSUME TypeOK, TypeOK', [Next]_vars, EventsFitReview
    PROVE  EventsFitReview'
<1> DEFINE KeysFit == \A k \in Keys : job'[k] # "NONE" \/ queue'[k] > 0 =>
                          job[k] # "NONE" \/ queue[k] > 0 \/ Permitted(k) \/ Permitted(k)'
           TasksFit == \A w \in Workers : task'[w].pc \in Pc => Permitted(task'[w].key)
           RequestsFit == \A a \in Clients :
                             request'[a].step = "reindex" => Permitted(request'[a].key)
<1>0. SUFFICES KeysFit /\ TasksFit /\ RequestsFit
  BY EventsKept
<1>a. task' = task => TasksFit
  BY DEF EventsFitReview
<1>b. request' = request => RequestsFit
  BY DEF EventsFitReview
<1>c. UNCHANGED jobVars => KeysFit
  BY DEF jobVars
<1>d. ASSUME NEW c \in Cases, NEW k \in Keys, Enqueue(c, k), Permitted(k) \/ Permitted(k)'
      PROVE  KeysFit
  BY <1>d, EnqueueEffect
<1> HIDE DEF KeysFit, TasksFit, RequestsFit
<1>1. ASSUME NEW c \in Cases, NEW old, NewDraft(c, old) PROVE KeysFit /\ TasksFit /\ RequestsFit
  BY <1>1, <1>a, <1>b, <1>c DEF NewDraft
<1>2. ASSUME NEW c \in Cases, Reviewer(c) PROVE KeysFit /\ TasksFit /\ RequestsFit
  <2>1. CASE Approve(c)
    <3>1. <<c, "UPSERT">> \in Keys /\ Permitted(<<c, "UPSERT">>)'
      BY <2>1 DEF Approve, Permitted, Keys, IndexOperation, TypeOK
    <3> QED
      BY <2>1, <3>1, <1>a, <1>b, <1>d DEF Approve
  <2>2. CASE Reject(c)
    BY <2>2, <1>a, <1>b, <1>c DEF Reject
  <2>3. CASE Disable(c)
    <3>1. <<c, "TOMBSTONE">> \in Keys /\ Permitted(<<c, "TOMBSTONE">>)'
      BY <2>3 DEF Disable, Permitted, Keys, IndexOperation, Retired, TypeOK
    <3> QED
      BY <2>3, <3>1, <1>a, <1>b, <1>d DEF Disable
  <2> QED
    BY <1>2, <2>1, <2>2, <2>3 DEF Reviewer
<1>3. ASSUME NEW a \in Clients, Client(a) PROVE KeysFit /\ TasksFit /\ RequestsFit
  <2>1. CASE \E c \in Cases : PatchRead(a, c) \/ SubmitRead(a, c)
    <3>1. RequestsFit
      BY <2>1 DEF PatchRead, SubmitRead, RequestsFit, EventsFitReview, TypeOK
    <3> QED
      BY <2>1, <3>1, <1>a, <1>c DEF PatchRead, SubmitRead
  <2>2. CASE \E c \in Cases : ReindexRead(a, c)
    <3>1. PICK c \in Cases : ReindexRead(a, c)
      BY <2>2
    <3>2. PICK op \in IndexOperation :
             /\ op = (IF review[c] = "APPROVED" THEN "REINDEX" ELSE "TOMBSTONE")
             /\ request' = [request EXCEPT ![a] = [step |-> "reindex", key |-> <<c, op>>]]
      BY <3>1 DEF ReindexRead, IndexOperation
    <3>3. Permitted(<<c, op>>)
      BY <3>1, <3>2 DEF ReindexRead, Permitted
    <3>4. RequestsFit
      BY <3>2, <3>3 DEF RequestsFit, EventsFitReview, TypeOK
    <3> QED
      BY <3>1, <3>4, <1>a, <1>c DEF ReindexRead
  <2>3. CASE PatchWrite(a) \/ SubmitCommit(a)
    <3>1. RequestsFit
      BY <2>3 DEF PatchWrite, SubmitCommit, RequestsFit, EventsFitReview, TypeOK, Idle
    <3> QED
      BY <2>3, <3>1, <1>a, <1>c DEF PatchWrite, SubmitCommit
  <2>4. CASE ReindexQueue(a)
    <3>1. RequestsFit
      BY <2>4 DEF ReindexQueue, RequestsFit, EventsFitReview, TypeOK, Idle
    <3>2. request[a].key \in Keys /\ request[a].key[1] \in Cases /\ Permitted(request[a].key)
      BY <2>4, RequestCase DEF ReindexQueue, EventsFitReview
    <3> QED
      BY <2>4, <3>1, <3>2, <1>a, <1>d DEF ReindexQueue
  <2> QED
    BY <1>3, <2>1, <2>2, <2>3, <2>4 DEF Client
<1>4. ASSUME NEW w \in Workers, NEW k \in Keys, Take(w, k) \/ TakeReplay(w, k)
      PROVE KeysFit /\ TasksFit /\ RequestsFit
  <2>1. Permitted(k)
    BY <1>4 DEF Take, TakeReplay, EventsFitReview
  <2>2. KeysFit
    BY <1>4, <2>1 DEF Take, TakeReplay, KeysFit, TypeOK
  <2>3. TasksFit
    BY <1>4, <2>1 DEF Take, TakeReplay, TasksFit, EventsFitReview, TypeOK
  <2> QED
    BY <1>4, <2>2, <2>3, <1>b DEF Take, TakeReplay
<1>5. ASSUME NEW w \in Workers, task[w].pc \in Pc,
             task' = [task EXCEPT ![w] = Free] \/ \E pc \in Pc : Goto(w, pc)
      PROVE  TasksFit /\ Permitted(task[w].key) /\ task[w].key \in Keys
  <2>1. Permitted(task[w].key) /\ task[w].key \in Keys
    BY <1>5, TaskKey DEF EventsFitReview
  <2>2. \A x \in Workers \ {w} : task'[x] = task[x]
    BY <1>5 DEF TypeOK, Goto
  <2>3. task'[w] = Free \/ task'[w].key = task[w].key
    BY <1>5 DEF TypeOK, Goto
  <2> QED
    BY <2>1, <2>2, <2>3 DEF TasksFit, EventsFitReview, Free, Pc
<1>6. ASSUME NEW w \in Workers, Handler(w) PROVE KeysFit /\ TasksFit /\ RequestsFit
  <2>1. task[w].pc \in Pc
    BY <1>6 DEF Handler, At, ReadCase, Upsert, Publish, Supersede, Delete, Tombstone,
               Settle, Pc
  <2>2. RequestsFit
    BY <1>6, <1>b DEF Handler, ReadCase, Upsert, Publish, Supersede, Delete, Tombstone, Settle
  <2>3. CASE Settle(w)
    <3>1. TasksFit /\ Permitted(task[w].key) /\ task[w].key \in Keys
      BY <2>1, <2>3, <1>5 DEF Settle
    <3>2. KeysFit
      BY <2>3, <3>1 DEF Settle, KeysFit, TypeOK
    <3> QED
      BY <2>2, <3>1, <3>2
  <2>4. CASE Supersede(w)
    <3>1. TasksFit
      BY <2>1, <2>4, <1>5 DEF Supersede, Pc
    <3>2. PICK old \in supersedes[CaseOf(w)] :
             IF review[old] = "APPROVED"
             THEN /\ review' = [review EXCEPT ![old] = "SUPERSEDED"]
                  /\ Enqueue(old, <<old, "TOMBSTONE">>)
             ELSE UNCHANGED <<review, indexStatus, active, jobVars>>
      BY <2>4 DEF Supersede
    <3>3. old \in Cases /\ <<old, "TOMBSTONE">> \in Keys
      BY <2>1, TaskKey DEF TypeOK, Keys, IndexOperation
    <3>4. CASE review[old] = "APPROVED"
      <4>1. Permitted(<<old, "TOMBSTONE">>)'
        BY <3>2, <3>3, <3>4 DEF Permitted, Retired, TypeOK
      <4> QED
        BY <2>2, <3>1, <3>2, <3>3, <3>4, <4>1, <1>d
    <3>5. CASE review[old] # "APPROVED"
      BY <2>2, <3>1, <3>2, <3>5, <1>c
    <3> QED
      BY <3>4, <3>5
  <2>5. CASE ReadCase(w) \/ Upsert(w) \/ Publish(w) \/ Delete(w) \/ Tombstone(w)
    <3>1. \E pc \in Pc : Goto(w, pc)
      BY <2>5 DEF ReadCase, Upsert, Publish, Delete, Tombstone, Pc
    <3>2. UNCHANGED jobVars
      BY <2>5 DEF ReadCase, Upsert, Publish, Delete, Tombstone
    <3> QED
      BY <2>1, <2>2, <3>1, <3>2, <1>5, <1>c
  <2> QED
    BY <1>6, <2>3, <2>4, <2>5 DEF Handler
<1>7. ASSUME NEW w \in Workers, FailRetry(w) \/ FailDead(w)
      PROVE KeysFit /\ TasksFit /\ RequestsFit
  <2>1. TasksFit /\ Permitted(task[w].key) /\ task[w].key \in Keys
    BY <1>7, <1>5 DEF FailRetry, FailDead, Raises
  <2>2. KeysFit
    BY <1>7, <2>1 DEF FailRetry, FailDead, KeysFit, TypeOK
  <2> QED
    BY <1>7, <2>1, <2>2, <1>b DEF FailRetry, FailDead
<1>8. ASSUME NEW k \in Keys, RetryJob(k) \/ Duplicate(k) PROVE KeysFit /\ TasksFit /\ RequestsFit
  <2>1. KeysFit
    BY <1>8 DEF RetryJob, Duplicate, KeysFit, TypeOK
  <2> QED
    BY <1>8, <2>1, <1>a, <1>b DEF RetryJob, Duplicate
<1>9. ASSUME Crash PROVE KeysFit /\ TasksFit /\ RequestsFit
  <2>1. TasksFit
    BY <1>9 DEF Crash, TasksFit, Free, Pc
  <2>2. ASSUME NEW k \in Keys, job'[k] # "NONE" \/ queue'[k] > 0
        PROVE  job[k] # "NONE" \/ queue[k] > 0 \/ Permitted(k)
    <3>1. job'[k] = job[k] /\ queue'[k] = queue[k] + Cardinality(Handling(k))
      BY <1>9 DEF Crash
    <3>2. CASE Handling(k) = {}
      BY <2>2, <3>1, <3>2, FS_EmptySet DEF TypeOK
    <3>3. CASE Handling(k) # {}
      BY <3>3 DEF Handling, EventsFitReview
    <3> QED
      BY <3>2, <3>3
  <2> QED
    BY <1>9, <2>1, <2>2, <1>b DEF Crash, KeysFit
<1>10. CASE UNCHANGED vars
  BY <1>10, <1>a, <1>b, <1>c DEF vars
<1> QED
  BY <1>1, <1>2, <1>3, <1>4, <1>6, <1>7, <1>8, <1>9, <1>10 DEF Next, CreateDraft, Revision

\* No job, message, delivery or request gets ahead of the review it belongs to.
THEOREM EventsFollowReview == Spec => []EventsFitReview
<1>1. Init => EventsFitReview
  BY DEF Init, EventsFitReview, Free, Idle, Pc
<1> QED
  BY <1>1, InitType, TypeStep, EventsStep, PTL DEF Spec

-----------------------------------------------------------------------------
(* SearchableIsIndexed *)

\* A delivery is in the branch of _case that its operation selects.
Branches ==
    \A w \in Workers :
        /\ task[w].pc \in {"delete", "tombstone"} => task[w].key[2] = "TOMBSTONE"
        /\ task[w].pc \in {"upsert", "publish", "supersede"} => task[w].key[2] # "TOMBSTONE"

\* About to be published, and in Milvus unless it has been retired meanwhile.
VectorReady ==
    \A w \in Workers :
        At(w, "publish") /\ review[CaseOf(w)] = "APPROVED" => vector[CaseOf(w)]

\* The inductive invariant: a tombstone can only hit a retired case (the
\* Branches and EventsFitReview), so no vector disappears under a searchable one.
SearchInv == Branches /\ VectorReady /\ SearchableIsIndexed

\* A step changes a delivery's operation only by taking a new message.
LEMMA BranchesStep ==
    ASSUME TypeOK, [Next]_vars, Branches
    PROVE  Branches'
<1>1. ASSUME NEW w \in Workers, NEW k \in Keys, Take(w, k) PROVE Branches'
  BY <1>1 DEF Take, Branches, TypeOK
<1>2. ASSUME NEW w \in Workers, Handler(w) PROVE Branches'
  <2>1. CASE ReadCase(w)
    BY <2>1 DEF ReadCase, Goto, Branches, TypeOK
  <2>2. CASE Settle(w)
    BY <2>2 DEF Settle, Branches, TypeOK, Free
  <2>3. CASE Upsert(w) \/ Publish(w) \/ Supersede(w) \/ Delete(w) \/ Tombstone(w)
    BY <2>3 DEF Upsert, Publish, Supersede, Delete, Tombstone, At, Goto, Branches, TypeOK
  <2> QED
    BY <1>2, <2>1, <2>2, <2>3 DEF Handler
<1>3. ASSUME NEW w \in Workers, FailRetry(w) \/ FailDead(w) PROVE Branches'
  BY <1>3 DEF FailRetry, FailDead, Branches, TypeOK, Free
<1>4. CASE Crash
  BY <1>4 DEF Crash, Branches, Free
<1>5. CASE task' = task
  BY <1>5 DEF Branches
<1>6. ASSUME NEW c \in Cases, CreateDraft(c) \/ Reviewer(c) PROVE task' = task
  BY <1>6 DEF CreateDraft, NewDraft, Reviewer, Approve, Reject, Disable
<1>7. ASSUME NEW original \in Cases, NEW c \in Cases, Revision(original, c) PROVE task' = task
  BY <1>7 DEF Revision, NewDraft
<1>8. ASSUME NEW a \in Clients, Client(a) PROVE task' = task
  BY <1>8 DEF Client, PatchRead, SubmitRead, ReindexRead, PatchWrite, SubmitCommit, ReindexQueue
<1>9. ASSUME NEW w \in Workers, NEW k \in Keys, TakeReplay(w, k) \/ RetryJob(k) \/ Duplicate(k)
      PROVE task' = task
  BY <1>9 DEF TakeReplay, RetryJob, Duplicate
<1>10. ASSUME NEW k \in Keys, RetryJob(k) \/ Duplicate(k) PROVE task' = task
  BY <1>10 DEF RetryJob, Duplicate
<1>11. CASE UNCHANGED vars
  BY <1>5, <1>11 DEF vars
<1> QED
  BY <1>1, <1>2, <1>3, <1>4, <1>5, <1>6, <1>7, <1>8, <1>9, <1>10, <1>11 DEF Next

\* A case with a delivery is not approved a second time.
LEMMA ApprovedBefore ==
    ASSUME TypeOK, EventsFitReview, [Next]_vars, NEW w \in Workers, task[w].pc \in Pc,
           review'[CaseOf(w)] = "APPROVED"
    PROVE  review[CaseOf(w)] = "APPROVED"
<1>1. Permitted(task[w].key) /\ CaseOf(w) \in Cases
  BY TaskKey DEF EventsFitReview
<1> QED
  BY <1>1, ReviewForward DEF Permitted, CaseOf, Retired

LEMMA SearchStep ==
    ASSUME TypeOK, TypeOK', EventsFitReview, [Next]_vars, SearchInv
    PROVE  SearchInv'
<1> DEFINE Goal == VectorReady' /\ SearchableIsIndexed'
<1>0. Branches'
  BY BranchesStep DEF SearchInv
\* Deliveries and vectors stay: only Approve makes a case APPROVED, and it is QUEUED.
<1>a. ASSUME task' = task, vector' = vector PROVE VectorReady'
  <2> SUFFICES ASSUME NEW w \in Workers, task[w].pc = "publish", review'[CaseOf(w)] = "APPROVED"
               PROVE  vector[CaseOf(w)]
    BY <1>a DEF VectorReady, At, CaseOf
  <2> QED
    BY ApprovedBefore DEF SearchInv, VectorReady, At, Pc
<1>b. ASSUME vector' = vector, \A c \in Cases : Searchable(c)' => Searchable(c)
      PROVE SearchableIsIndexed'
  BY <1>b DEF SearchInv, SearchableIsIndexed
<1>c. ASSUME UNCHANGED <<review, indexStatus, active>> PROVE \A c \in Cases : Searchable(c)' = Searchable(c)
  BY <1>c DEF Searchable
<1>1. ASSUME NEW c \in Cases, NEW old, NewDraft(c, old) PROVE Goal
  BY <1>1, <1>a, <1>b DEF NewDraft, Searchable, TypeOK
<1>2. ASSUME NEW c \in Cases, Reviewer(c) PROVE Goal
  BY <1>2, <1>a, <1>b DEF Reviewer, Approve, Reject, Disable, Enqueue, Searchable, TypeOK
<1>3. ASSUME NEW a \in Clients, Client(a) PROVE Goal
  <2>1. CASE SubmitCommit(a)
    BY <2>1, <1>a, <1>b, RequestCase DEF SubmitCommit, Searchable, TypeOK
  <2>2. CASE ReindexQueue(a)
    BY <2>2, <1>a, <1>b, RequestCase DEF ReindexQueue, Enqueue, Searchable, TypeOK
  <2>3. CASE PatchWrite(a) \/ \E c \in Cases : PatchRead(a, c) \/ SubmitRead(a, c) \/ ReindexRead(a, c)
    BY <2>3, <1>a, <1>b, <1>c DEF PatchRead, PatchWrite, SubmitRead, ReindexRead, caseVars
  <2> QED
    BY <1>3, <2>1, <2>2, <2>3 DEF Client
<1>4. ASSUME NEW w \in Workers, NEW k \in Keys, Take(w, k) \/ TakeReplay(w, k) PROVE Goal
  <2>1. VectorReady'
    BY <1>4 DEF Take, TakeReplay, SearchInv, VectorReady, At, CaseOf, TypeOK, caseVars
  <2> QED
    BY <1>4, <2>1, <1>b, <1>c DEF Take, TakeReplay, caseVars
\* A delivery moves on or ends, anywhere but into "publish".
<1>d. ASSUME NEW w \in Workers, vector' = vector,
             \/ task' = [task EXCEPT ![w] = Free]
             \/ \E pc \in Pc \ {"publish"} : Goto(w, pc)
      PROVE VectorReady'
  <2> SUFFICES ASSUME NEW v \in Workers, task'[v].pc = "publish",
                      review'[task'[v].key[1]] = "APPROVED"
               PROVE  vector[task'[v].key[1]]
    BY <1>d DEF VectorReady, At, CaseOf
  <2>1. task'[v] = task[v]
    BY <1>d DEF Goto, Free, TypeOK
  <2> QED
    BY <2>1, ApprovedBefore DEF SearchInv, VectorReady, At, Pc, CaseOf
<1>5. ASSUME NEW w \in Workers, Handler(w) PROVE Goal
  <2>0. task[w].pc \in Pc /\ CaseOf(w) \in Cases
    BY <1>5, TaskKey DEF Handler, At, ReadCase, Upsert, Publish, Supersede, Delete, Tombstone,
               Settle, Pc
  <2>1. CASE ReadCase(w)
    BY <2>1, <1>b, <1>c, <1>d DEF ReadCase, caseVars, Pc
  <2>2. CASE Upsert(w)
    <3>1. \A c \in Cases : vector[c] => vector'[c]
      BY <2>2 DEF Upsert, TypeOK
    <3>2. VectorReady'
      BY <2>0, <2>2, <3>1 DEF Upsert, Goto, SearchInv, VectorReady, At, CaseOf, TypeOK, caseVars,
                              Delivery, Keys, Free
    <3>3. SearchableIsIndexed'
      BY <2>2, <3>1, <1>c DEF Upsert, SearchInv, SearchableIsIndexed, caseVars
    <3> QED
      BY <3>2, <3>3
  <2>3. CASE Publish(w)
    <3>1. VectorReady'
      BY <2>3, <1>d DEF Publish, Pc
    <3>2. ASSUME NEW c \in Cases, Searchable(c)' PROVE vector'[c]
      <4>1. CASE c = CaseOf(w)
        BY <2>3, <3>2, <4>1 DEF Publish, SearchInv, VectorReady, Searchable
      <4>2. CASE c # CaseOf(w)
        BY <2>0, <2>3, <3>2, <4>2 DEF Publish, SearchInv, SearchableIsIndexed, Searchable, TypeOK
      <4> QED
        BY <4>1, <4>2
    <3> QED
      BY <3>1, <3>2 DEF SearchableIsIndexed
  <2>4. CASE Supersede(w)
    <3>1. VectorReady'
      BY <2>4, <1>d DEF Supersede, Pc
    <3>2. PICK old \in supersedes[CaseOf(w)] :
             IF review[old] = "APPROVED"
             THEN /\ review' = [review EXCEPT ![old] = "SUPERSEDED"]
                  /\ Enqueue(old, <<old, "TOMBSTONE">>)
             ELSE UNCHANGED <<review, indexStatus, active, jobVars>>
      BY <2>4 DEF Supersede
    <3>3. old \in Cases
      BY <2>0 DEF TypeOK
    <3>4. \A c \in Cases : Searchable(c)' => Searchable(c)
      BY <3>2, <3>3 DEF Searchable, Enqueue, TypeOK
    <3> QED
      BY <2>4, <3>1, <3>4, <1>b DEF Supersede
  <2>5. CASE Delete(w)
    <3>1. task[w].key[2] = "TOMBSTONE" /\ Permitted(task[w].key)
      BY <2>0, <2>5 DEF Delete, At, SearchInv, Branches, EventsFitReview
    <3>2. review[CaseOf(w)] \in Retired /\ review' = review
      BY <2>5, <3>1 DEF Permitted, CaseOf, Delete, caseVars
    <3>3. \A c \in Cases : review[c] = "APPROVED" => vector'[c] = vector[c]
      BY <2>5, <3>2 DEF Delete, Retired, TypeOK
    <3>4. VectorReady'
      BY <2>0, <2>5, <3>2, <3>3, TaskKey DEF Delete, Goto, SearchInv, VectorReady, At, CaseOf, TypeOK,
                  Delivery, Keys, Free, Pc
    <3>5. SearchableIsIndexed'
      BY <2>5, <3>3, <1>c DEF Delete, SearchInv, SearchableIsIndexed, Searchable, caseVars
    <3> QED
      BY <3>4, <3>5
  <2>6. CASE Tombstone(w)
    BY <2>0, <2>6, <1>b, <1>d DEF Tombstone, Searchable, TypeOK, Pc
  <2>7. CASE Settle(w)
    BY <2>7, <1>b, <1>c, <1>d DEF Settle, caseVars
  <2> QED
    BY <1>5, <2>1, <2>2, <2>3, <2>4, <2>5, <2>6, <2>7 DEF Handler
<1>6. ASSUME NEW w \in Workers, FailRetry(w) \/ FailDead(w) PROVE Goal
  <2>1. CaseOf(w) \in Cases
    BY <1>6, TaskKey DEF FailRetry, FailDead, Raises
  <2>2. CASE FailRetry(w)
    BY <2>2, <1>b, <1>c, <1>d DEF FailRetry, caseVars
  <2>3. CASE FailDead(w)
    BY <2>1, <2>3, <1>b, <1>d DEF FailDead, Searchable, TypeOK
  <2> QED
    BY <1>6, <2>2, <2>3
<1>7. ASSUME NEW k \in Keys, RetryJob(k) \/ Duplicate(k) PROVE Goal
  BY <1>7, <1>a, <1>b, <1>c DEF RetryJob, Duplicate, caseVars
<1>8. ASSUME Crash PROVE Goal
  <2>1. VectorReady'
    BY <1>8 DEF Crash, VectorReady, At, Free
  <2> QED
    BY <1>8, <2>1, <1>b, <1>c DEF Crash, caseVars
<1>9. ASSUME UNCHANGED vars PROVE Goal
  <2>1. UNCHANGED <<review, indexStatus, active, vector, task>>
    BY <1>9 DEF vars, caseVars
  <2> QED
    BY <2>1, <1>a, <1>b, <1>c
<1> QED
  BY <1>0, <1>1, <1>2, <1>3, <1>4, <1>5, <1>6, <1>7, <1>8, <1>9
  DEF Next, CreateDraft, Revision, SearchInv

\* Whatever MySQLProvider.case_candidates returns has its vector in Milvus.
THEOREM SearchIsBacked == Spec => []SearchableIsIndexed
<1>1. Init => SearchInv
  BY DEF Init, SearchInv, Branches, VectorReady, SearchableIsIndexed, Searchable, At, Free
<1>2. SearchInv => SearchableIsIndexed
  BY DEF SearchInv
<1> QED
  BY <1>1, <1>2, InitType, TypeStep, SearchStep, EventsFollowReview, PTL DEF Spec

-----------------------------------------------------------------------------
(* PredecessorRetired *)

Decided == {"APPROVED", "REJECTED"} \cup Retired

\* A revision replaces one case, and one that was approved or rejected.
Lineage ==
    \A c \in Cases : \A old \in supersedes[c] :
        /\ review[old] \in Decided
        /\ \A other \in supersedes[c] : other = old

\* The handler has returned, so _queue_superseded_case has run.
OldHandled ==
    \A w \in Workers :
        At(w, "finish") /\ task[w].key[2] # "TOMBSTONE" =>
            \A old \in supersedes[CaseOf(w)] : review[old] # "APPROVED"

\* The inductive invariant.
LineageInv == Branches /\ Lineage /\ OldHandled /\ PredecessorRetired

\* What has been decided is not approved afterwards.
LEMMA NotApprovedAgain ==
    ASSUME TypeOK, [Next]_vars, NEW c \in Cases, review[c] \in Decided
    PROVE  /\ review'[c] \in Decided
           /\ review'[c] = "APPROVED" => review[c] = "APPROVED"
BY ReviewForward DEF Decided, Retired

LEMMA LineageStep ==
    ASSUME TypeOK, TypeOK', EventsFitReview, [Next]_vars, LineageInv
    PROVE  LineageInv'
<1> DEFINE Goal == Lineage' /\ OldHandled' /\ PredecessorRetired'
<1>0. Branches'
  BY BranchesStep DEF LineageInv
<1>a. ASSUME supersedes' = supersedes PROVE Lineage'
  BY <1>a, NotApprovedAgain DEF LineageInv, Lineage, TypeOK
\* Predecessors that are not APPROVED stay so.
<1>b. ASSUME NEW c \in Cases, supersedes' = supersedes,
             \A old \in supersedes[c] : review[old] # "APPROVED"
      PROVE  \A old \in supersedes'[c] : review'[old] # "APPROVED"
  BY <1>b, NotApprovedAgain DEF LineageInv, Lineage, TypeOK
\* Deliveries that were at "finish" before.
<1>c. ASSUME supersedes' = supersedes,
             \A w \in Workers : task'[w].pc = "finish" => task'[w] = task[w]
      PROVE  OldHandled'
  <2> SUFFICES ASSUME NEW w \in Workers, task'[w].pc = "finish",
                      task'[w].key[2] # "TOMBSTONE"
               PROVE  \A old \in supersedes'[task'[w].key[1]] : review'[old] # "APPROVED"
    BY DEF OldHandled, At, CaseOf
  <2>1. task'[w] = task[w]
    BY <1>c
  <2>2. CaseOf(w) \in Cases
    BY <2>1, TaskKey DEF Pc
  <2>3. \A old \in supersedes[CaseOf(w)] : review[old] # "APPROVED"
    BY <2>1 DEF LineageInv, OldHandled, At
  <2> QED
    BY <2>1, <2>2, <2>3, <1>b, <1>c DEF CaseOf
\* Jobs that were DONE before.
<1>d. ASSUME supersedes' = supersedes,
             \A k \in Keys : job'[k] = "DONE" => job[k] = "DONE"
      PROVE  PredecessorRetired'
  <2> SUFFICES ASSUME NEW c \in Cases, NEW op \in {"UPSERT", "REINDEX"},
                      job'[<<c, op>>] = "DONE"
               PROVE  \A old \in supersedes'[c] : review'[old] # "APPROVED"
    BY DEF PredecessorRetired
  <2>1. <<c, op>> \in Keys
    BY DEF Keys, IndexOperation
  <2> QED
    BY <2>1, <1>b, <1>d DEF LineageInv, PredecessorRetired
<1>1. ASSUME NEW c \in Cases, NEW old \in SUBSET Cases, NewDraft(c, old),
             \A o \in old : review[o] \in Decided /\ old = {o}
      PROVE  Goal
  <2>1. review[c] = "NONE" /\ review' = [review EXCEPT ![c] = "DRAFT"]
        /\ supersedes' = [supersedes EXCEPT ![c] = old] /\ UNCHANGED <<job, task>>
    BY <1>1 DEF NewDraft, jobVars
  <2>2. \A d \in Cases : review[d] \in Decided => review'[d] = review[d] /\ d # c
    BY <2>1 DEF Decided, Retired, TypeOK
  <2>3. Lineage'
    BY <1>1, <2>1, <2>2 DEF LineageInv, Lineage, TypeOK
  <2>4. \A k \in Keys : job[k] # "NONE" => k[1] # c
    BY <2>1 DEF EventsFitReview, Permitted, Retired
  <2>5. PredecessorRetired'
    <3> SUFFICES ASSUME NEW d \in Cases, NEW op \in {"UPSERT", "REINDEX"},
                        job[<<d, op>>] = "DONE"
                 PROVE  \A o \in supersedes'[d] : review'[o] # "APPROVED"
      BY <2>1 DEF PredecessorRetired
    <3>1. d # c
      BY <2>4 DEF Keys, IndexOperation
    <3>2. \A o \in supersedes[d] : review[o] # "APPROVED" /\ o \in Cases
      BY DEF LineageInv, PredecessorRetired, TypeOK
    <3> QED
      BY <2>1, <3>1, <3>2 DEF TypeOK
  <2>6. OldHandled'
    <3> SUFFICES ASSUME NEW w \in Workers, At(w, "finish"), task[w].key[2] # "TOMBSTONE"
                 PROVE  \A o \in supersedes'[CaseOf(w)] : review'[o] # "APPROVED"
      BY <2>1 DEF OldHandled, At, CaseOf
    <3>1. CaseOf(w) \in Cases /\ Permitted(task[w].key)
      BY TaskKey DEF At, Pc, EventsFitReview
    <3>2. CaseOf(w) # c
      BY <2>1, <3>1 DEF Permitted, CaseOf, Retired
    <3>3. \A o \in supersedes[CaseOf(w)] : review[o] # "APPROVED" /\ o \in Cases
      BY <3>1 DEF LineageInv, OldHandled, TypeOK
    <3> QED
      BY <2>1, <3>1, <3>2, <3>3 DEF TypeOK
  <2> QED
    BY <2>3, <2>5, <2>6
<1>2. ASSUME NEW c \in Cases, Reviewer(c) PROVE Goal
  <2>1. UNCHANGED <<supersedes, task>>
    BY <1>2 DEF Reviewer, Approve, Reject, Disable
  <2>2. \A k \in Keys : job'[k] = "DONE" => job[k] = "DONE"
    <3>1. CASE Approve(c)
      BY <3>1 DEF Approve, Enqueue, AddJob, jobVars, TypeOK
    <3>2. CASE Disable(c)
      BY <3>2 DEF Disable, Enqueue, AddJob, jobVars, TypeOK
    <3>3. CASE Reject(c)
      BY <3>3 DEF Reject, jobVars
    <3> QED
      BY <1>2, <3>1, <3>2, <3>3 DEF Reviewer
  <2> QED
    BY <2>1, <2>2, <1>a, <1>c, <1>d
<1>3. ASSUME NEW a \in Clients, Client(a) PROVE Goal
  <2>1. UNCHANGED <<supersedes, task>>
    BY <1>3 DEF Client, PatchRead, SubmitRead, ReindexRead, PatchWrite, SubmitCommit,
                ReindexQueue, caseVars
  <2>2. \A k \in Keys : job'[k] = "DONE" => job[k] = "DONE"
    <3>1. CASE ReindexQueue(a)
      BY <3>1 DEF ReindexQueue, Enqueue, AddJob, jobVars, TypeOK
    <3>2. CASE ~ReindexQueue(a)
      BY <1>3, <3>2 DEF Client, PatchRead, SubmitRead, ReindexRead, PatchWrite, SubmitCommit,
                        jobVars
    <3> QED
      BY <3>1, <3>2
  <2> QED
    BY <2>1, <2>2, <1>a, <1>c, <1>d
<1>4. ASSUME NEW w \in Workers, NEW k \in Keys, Take(w, k) \/ TakeReplay(w, k) PROVE Goal
  <2>1. UNCHANGED supersedes /\ \A v \in Workers : task'[v].pc = "finish" => task'[v] = task[v]
    BY <1>4 DEF Take, TakeReplay, caseVars, TypeOK
  <2>2. \A i \in Keys : job'[i] = "DONE" => job[i] = "DONE"
    BY <1>4 DEF Take, TakeReplay, TypeOK
  <2> QED
    BY <2>1, <2>2, <1>a, <1>c, <1>d
<1>5. ASSUME NEW w \in Workers, Handler(w) PROVE Goal
  <2>0. /\ task[w].pc \in Pc /\ CaseOf(w) \in Cases /\ UNCHANGED supersedes
        /\ task[w].key \in Keys
        /\ task[w].key = <<CaseOf(w), task[w].key[2]>>
    BY <1>5, TaskKey DEF Handler, At, ReadCase, Upsert, Publish, Supersede, Delete, Tombstone,
               Settle, Pc, caseVars
  <2>1. CASE ReadCase(w) \/ Upsert(w) \/ Delete(w)
    <3>1. \A v \in Workers : task'[v].pc = "finish" => task'[v] = task[v]
      BY <2>1 DEF ReadCase, Upsert, Delete, Goto, TypeOK
    <3>2. job' = job
      BY <2>1 DEF ReadCase, Upsert, Delete, jobVars
    <3> QED
      BY <2>0, <3>1, <3>2, <1>a, <1>c, <1>d
  \* A delivery that comes to "finish" with the old version handled.
  <2>a. ASSUME Goto(w, "finish"),
               task[w].key[2] # "TOMBSTONE" =>
                   \A old \in supersedes[CaseOf(w)] : review'[old] # "APPROVED"
        PROVE  OldHandled'
    <3> SUFFICES ASSUME NEW v \in Workers, task'[v].pc = "finish",
                        task'[v].key[2] # "TOMBSTONE"
                 PROVE  \A old \in supersedes[task'[v].key[1]] : review'[old] # "APPROVED"
      BY <2>0 DEF OldHandled, At, CaseOf
    <3>1. CASE v = w
      BY <2>a, <3>1 DEF Goto, CaseOf, TypeOK
    <3>2. CASE v # w
      <4>1. task'[v] = task[v]
        BY <2>a, <3>2 DEF Goto, TypeOK
      <4>2. CaseOf(v) \in Cases
        BY <4>1, TaskKey DEF Pc
      <4>3. \A old \in supersedes[CaseOf(v)] : review[old] # "APPROVED"
        BY <4>1 DEF LineageInv, OldHandled, At
      <4> QED
        BY <2>0, <4>1, <4>2, <4>3, <1>b DEF CaseOf
    <3> QED
      BY <3>1, <3>2
  <2>2. CASE Publish(w)
    <3>1. job' = job /\ review' = review
      BY <2>2 DEF Publish, jobVars
    <3>2. OldHandled'
      <4>1. CASE supersedes[CaseOf(w)] = {}
        BY <2>2, <2>a, <4>1 DEF Publish
      <4>2. CASE supersedes[CaseOf(w)] # {}
        <5>1. \A v \in Workers : task'[v].pc = "finish" => task'[v] = task[v]
          BY <2>2, <4>2 DEF Publish, Goto, TypeOK
        <5> QED
          BY <2>0, <5>1, <1>c
      <4> QED
        BY <4>1, <4>2
    <3> QED
      BY <2>0, <3>1, <3>2, <1>a, <1>d
  <2>3. CASE Supersede(w)
    <3>1. PICK old \in supersedes[CaseOf(w)] :
             IF review[old] = "APPROVED"
             THEN /\ review' = [review EXCEPT ![old] = "SUPERSEDED"]
                  /\ Enqueue(old, <<old, "TOMBSTONE">>)
             ELSE UNCHANGED <<review, indexStatus, active, jobVars>>
      BY <2>3 DEF Supersede
    <3>2. old \in Cases /\ \A other \in supersedes[CaseOf(w)] : other = old
      BY <2>0 DEF LineageInv, Lineage, TypeOK
    <3>3. review'[old] # "APPROVED"
      BY <3>1, <3>2 DEF TypeOK
    <3>4. OldHandled'
      BY <2>3, <3>2, <3>3, <2>a DEF Supersede
    <3>5. \A k \in Keys : job'[k] = "DONE" => job[k] = "DONE"
      BY <3>1 DEF Enqueue, AddJob, jobVars, TypeOK
    <3> QED
      BY <2>0, <3>4, <3>5, <1>a, <1>d
  <2>4. CASE Tombstone(w)
    <3>1. task[w].key[2] = "TOMBSTONE"
      BY <2>4 DEF Tombstone, At, LineageInv, Branches
    <3>2. Goto(w, "finish") /\ job' = job
      BY <2>4 DEF Tombstone, jobVars
    <3> QED
      BY <2>0, <3>1, <3>2, <2>a, <1>a, <1>d
  <2>5. CASE Settle(w)
    <3>1. OldHandled'
      <4>1. \A v \in Workers : task'[v].pc = "finish" => task'[v] = task[v]
        BY <2>5 DEF Settle, Free, TypeOK
      <4> QED
        BY <2>0, <4>1, <1>c
    <3>2. PredecessorRetired'
      <4> SUFFICES ASSUME NEW c \in Cases, NEW op \in {"UPSERT", "REINDEX"},
                          job'[<<c, op>>] = "DONE"
                   PROVE  \A old \in supersedes[c] : review[old] # "APPROVED"
        BY <2>0, <2>5, <1>b DEF PredecessorRetired, Settle, caseVars
      <4>1. <<c, op>> \in Keys
        BY DEF Keys, IndexOperation
      <4>2. CASE job[<<c, op>>] = "DONE"
        BY <4>2 DEF LineageInv, PredecessorRetired
      <4>3. CASE job[<<c, op>>] # "DONE"
        <5>1. task[w].key = <<c, op>> /\ At(w, "finish")
          BY <2>0, <2>5, <4>1, <4>3 DEF Settle, TypeOK, At
        <5>2. CaseOf(w) = c /\ task[w].key[2] # "TOMBSTONE"
          BY <5>1 DEF CaseOf
        <5> QED
          BY <5>1, <5>2 DEF LineageInv, OldHandled
      <4> QED
        BY <4>2, <4>3
    <3> QED
      BY <2>0, <3>1, <3>2, <1>a
  <2> QED
    BY <1>5, <2>1, <2>2, <2>3, <2>4, <2>5 DEF Handler
<1>6. ASSUME NEW w \in Workers, FailRetry(w) \/ FailDead(w) PROVE Goal
  <2>1. UNCHANGED supersedes /\ \A v \in Workers : task'[v].pc = "finish" => task'[v] = task[v]
    BY <1>6 DEF FailRetry, FailDead, caseVars, Free, TypeOK
  <2>2. \A k \in Keys : job'[k] = "DONE" => job[k] = "DONE"
    BY <1>6 DEF FailRetry, FailDead, TypeOK
  <2> QED
    BY <2>1, <2>2, <1>a, <1>c, <1>d
<1>7. ASSUME NEW k \in Keys, RetryJob(k) \/ Duplicate(k) PROVE Goal
  <2>1. UNCHANGED <<supersedes, task>>
    BY <1>7 DEF RetryJob, Duplicate, caseVars
  <2>2. \A i \in Keys : job'[i] = "DONE" => job[i] = "DONE"
    BY <1>7 DEF RetryJob, Duplicate, TypeOK
  <2> QED
    BY <2>1, <2>2, <1>a, <1>c, <1>d
<1>8. ASSUME Crash PROVE Goal
  <2>1. UNCHANGED <<supersedes, job>> /\ \A v \in Workers : task'[v].pc # "finish"
    BY <1>8 DEF Crash, caseVars, Free
  <2> QED
    BY <2>1, <1>a, <1>c, <1>d
<1>9. ASSUME UNCHANGED vars PROVE Goal
  <2>1. UNCHANGED <<supersedes, job, task>>
    BY <1>9 DEF vars, caseVars, jobVars
  <2> QED
    BY <2>1, <1>a, <1>c, <1>d
<1>10. ASSUME NEW c \in Cases, CreateDraft(c) PROVE Goal
  BY <1>1, <1>10 DEF CreateDraft
<1>11. ASSUME NEW original \in Cases, NEW c \in Cases, Revision(original, c) PROVE Goal
  <2>1. {original} \in SUBSET Cases /\ \A o \in {original} : review[o] \in Decided
    BY <1>11 DEF Revision, Decided
  <2> QED
    BY <1>1, <1>11, <2>1 DEF Revision
<1> HIDE DEF Goal
<1>12. Goal
  BY <1>2, <1>3, <1>4, <1>5, <1>6, <1>7, <1>8, <1>9, <1>10, <1>11 DEF Next
<1> QED
  BY <1>0, <1>12 DEF LineageInv, Goal

\* The index job of a revision ends as INDEXED or DEGRADED only after the version
\* it replaces has left APPROVED.
THEOREM PredecessorsRetire == Spec => []PredecessorRetired
<1>1. Init => LineageInv
  BY DEF Init, LineageInv, Branches, Lineage, OldHandled, PredecessorRetired, At, Free, Keys,
         IndexOperation
<1>2. LineageInv => PredecessorRetired
  BY DEF LineageInv
<1> QED
  BY <1>1, <1>2, InitType, TypeStep, LineageStep, EventsFollowReview, PTL DEF Spec

-----------------------------------------------------------------------------
(* QueuedIsServed, while nobody reindexes *)

\* The operation that a QUEUED case waits for.
Awaited(c) == IF review[c] = "APPROVED" THEN "UPSERT" ELSE "TOMBSTONE"

Served ==
    \A c \in Cases : indexStatus[c] = "QUEUED" =>
        review[c] \in {"APPROVED"} \cup Retired /\ job[<<c, Awaited(c)>>] = "OWED"

\* A delivery that is about to settle the awaited job has written the index status.
EndsServed ==
    \A w \in Workers :
        task[w].pc \in {"supersede", "finish", "stale"} /\ task[w].key[2] = Awaited(CaseOf(w))
            => indexStatus[CaseOf(w)] # "QUEUED"

ActiveIsIndexed == \A c \in Cases : active[c] => indexStatus[c] # "QUEUED"

\* The inductive invariant.  It fails as soon as queue_index may write QUEUED for
\* a key whose job is settled: that is the finding of the reindex run.
ServedInv ==
    /\ \A a \in Clients : request[a].step # "reindex"
    /\ Served
    /\ EndsServed
    /\ ActiveIsIndexed

LEMMA AwaitedKey ==
    ASSUME NEW c \in Cases
    PROVE  <<c, Awaited(c)>> \in Keys
BY DEF Awaited, Keys, IndexOperation

\* Nothing but a job's own key becomes anything but OWED, nothing becomes QUEUED.
LEMMA ServedStays ==
    ASSUME TypeOK, TypeOK', EventsFitReview, [Next]_vars, ServedInv,
           review' = review,
           \A c \in Cases : indexStatus'[c] = "QUEUED" => indexStatus[c] = "QUEUED",
           \A c \in Cases : indexStatus'[c] = "QUEUED" =>
               job'[<<c, Awaited(c)>>] \in {"OWED", job[<<c, Awaited(c)>>]}
    PROVE  Served'
BY DEF ServedInv, Served, Awaited

\* Deliveries that have come no further.
LEMMA EndsServedStays ==
    ASSUME TypeOK, EventsFitReview, ServedInv, review' = review,
           \A c \in Cases : indexStatus'[c] = "QUEUED" => indexStatus[c] = "QUEUED",
           \A w \in Workers : task'[w].pc \in {"supersede", "finish", "stale"} => task'[w] = task[w]
    PROVE  EndsServed'
<1> SUFFICES ASSUME NEW w \in Workers, task'[w].pc \in {"supersede", "finish", "stale"},
                    task'[w].key[2] = Awaited(CaseOf(w))'
             PROVE  indexStatus'[task'[w].key[1]] # "QUEUED"
  BY DEF EndsServed, CaseOf
<1>1. task'[w] = task[w] /\ CaseOf(w) \in Cases
  BY TaskKey DEF Pc
<1>2. task[w].key[2] = Awaited(CaseOf(w))
  BY <1>1 DEF Awaited, CaseOf
<1>3. indexStatus[CaseOf(w)] # "QUEUED"
  BY <1>1, <1>2 DEF ServedInv, EndsServed
<1> QED
  BY <1>1, <1>3 DEF CaseOf

\* A case enters its wait with a job that is new.
LEMMA EnqueueServed ==
    ASSUME TypeOK, TypeOK', EventsFitReview, [Next]_vars, ServedInv,
           NEW c \in Cases, NEW op \in {"UPSERT", "TOMBSTONE"},
           ~Permitted(<<c, op>>),
           NEW status \in {"APPROVED"} \cup Retired,
           op = IF status = "APPROVED" THEN "UPSERT" ELSE "TOMBSTONE",
           review' = [review EXCEPT ![c] = status],
           Enqueue(c, <<c, op>>),
           \A w \in Workers : task'[w].pc \in {"supersede", "finish", "stale"} =>
               /\ task[w].pc \in {"supersede", "finish", "stale"}
               /\ task'[w].key = task[w].key
    PROVE  Served' /\ EndsServed' /\ ActiveIsIndexed'
<1>1. <<c, op>> \in Keys
  BY DEF Keys, IndexOperation
<1>2. job[<<c, op>>] = "NONE"
  BY <1>1 DEF EventsFitReview
<1>3. /\ indexStatus' = [indexStatus EXCEPT ![c] = "QUEUED"]
      /\ active' = [active EXCEPT ![c] = FALSE]
      /\ job'[<<c, op>>] = "OWED"
      /\ \A k \in Keys : k # <<c, op>> => job'[k] = job[k]
  BY <1>1, <1>2, EnqueueEffect
<1>4. review'[c] = status /\ Awaited(c)' = op
  BY DEF Awaited, TypeOK
<1>5. \A d \in Cases : d # c => review'[d] = review[d] /\ Awaited(d)' = Awaited(d)
                            /\ indexStatus'[d] = indexStatus[d]
  BY <1>3 DEF Awaited, TypeOK
<1>6. Served'
  <2> SUFFICES ASSUME NEW d \in Cases, indexStatus'[d] = "QUEUED"
               PROVE  review'[d] \in {"APPROVED"} \cup Retired /\ job'[<<d, Awaited(d)'>>] = "OWED"
    BY DEF Served
  <2>1. CASE d = c
    BY <1>3, <1>4, <2>1
  <2>2. CASE d # c
    <3>1. <<d, Awaited(d)>> \in Keys /\ <<d, Awaited(d)>> # <<c, op>>
      BY <2>2, AwaitedKey
    <3>2. job[<<d, Awaited(d)>>] = "OWED" /\ review[d] \in {"APPROVED"} \cup Retired
      BY <1>5, <2>2 DEF ServedInv, Served
    <3> QED
      BY <1>3, <1>5, <2>2, <3>1, <3>2
  <2> QED
    BY <2>1, <2>2
<1>7. EndsServed'
  <2> SUFFICES ASSUME NEW w \in Workers, task'[w].pc \in {"supersede", "finish", "stale"},
                      task'[w].key[2] = Awaited(CaseOf(w))'
               PROVE  indexStatus'[task'[w].key[1]] # "QUEUED"
    BY DEF EndsServed, CaseOf
  <2>1. /\ task[w].pc \in {"supersede", "finish", "stale"} /\ task[w].pc \in Pc
        /\ task'[w].key = task[w].key
    BY DEF Pc
  <2>2. CaseOf(w) \in Cases /\ task[w].key = <<CaseOf(w), task[w].key[2]>>
        /\ Permitted(task[w].key)
    BY <2>1, TaskKey DEF EventsFitReview
  <2>3. CaseOf(w) # c
    <3> SUFFICES ASSUME CaseOf(w) = c PROVE FALSE
      OBVIOUS
    <3>1. task[w].key[2] = op
      BY <1>4, <2>1 DEF Awaited, CaseOf
    <3> QED
      BY <2>2, <3>1
  <2>4. task[w].key[2] = Awaited(CaseOf(w))
    BY <1>5, <2>1, <2>2, <2>3 DEF Awaited, CaseOf
  <2> QED
    BY <1>5, <2>1, <2>2, <2>3, <2>4 DEF ServedInv, EndsServed, CaseOf
<1>8. ActiveIsIndexed'
  BY <1>3 DEF ServedInv, ActiveIsIndexed, TypeOK
<1> QED
  BY <1>6, <1>7, <1>8

LEMMA ServedStep ==
    ASSUME "reindex" \notin Requests, TypeOK, TypeOK', EventsFitReview, [Next]_vars, ServedInv
    PROVE  ServedInv'
<1> DEFINE Goal == Served' /\ EndsServed' /\ ActiveIsIndexed'
           Ending == {"supersede", "finish", "stale"}
<1>0. \A a \in Clients : request'[a].step # "reindex"
  <2>1. ASSUME NEW a \in Clients, Client(a) PROVE \A b \in Clients : request'[b].step # "reindex"
    BY <2>1 DEF Client, PatchRead, SubmitRead, ReindexRead, PatchWrite, SubmitCommit,
                ReindexQueue, ServedInv, Idle, TypeOK
  <2>2. ASSUME NEW c \in Cases, CreateDraft(c) \/ Reviewer(c) PROVE request' = request
    BY <2>2 DEF CreateDraft, NewDraft, Reviewer, Approve, Reject, Disable
  <2>3. ASSUME NEW original \in Cases, NEW c \in Cases, Revision(original, c)
        PROVE request' = request
    BY <2>3 DEF Revision, NewDraft
  <2>4. ASSUME NEW w \in Workers, NEW k \in Keys, Take(w, k) \/ TakeReplay(w, k)
        PROVE request' = request
    BY <2>4 DEF Take, TakeReplay
  <2>5. ASSUME NEW w \in Workers, Handler(w) \/ FailRetry(w) \/ FailDead(w)
        PROVE request' = request
    BY <2>5 DEF Handler, ReadCase, Upsert, Publish, Supersede, Delete, Tombstone, Settle,
                FailRetry, FailDead
  <2>6. ASSUME NEW k \in Keys, RetryJob(k) \/ Duplicate(k) PROVE request' = request
    BY <2>6 DEF RetryJob, Duplicate
  <2>7. CASE Crash \/ UNCHANGED vars
    BY <2>7 DEF Crash, vars, ServedInv
  <2> QED
    BY <2>1, <2>2, <2>3, <2>4, <2>5, <2>6, <2>7 DEF Next, ServedInv
\* A step of a review that is not an approval or a retirement: nobody waits there.
<1>a. ASSUME NEW c \in Cases, review[c] \notin {"APPROVED"} \cup Retired, NEW status \in CaseStatus,
             status # "APPROVED",
             review' = [review EXCEPT ![c] = status],
             UNCHANGED <<indexStatus, active, job, task>>
      PROVE  Goal
  <2>1. indexStatus[c] # "QUEUED"
    BY <1>a DEF ServedInv, Served
  <2>2. \A d \in Cases : d # c => review'[d] = review[d] /\ Awaited(d)' = Awaited(d)
    BY <1>a DEF Awaited, TypeOK
  <2>3. Awaited(c)' = Awaited(c)
    BY <1>a DEF Awaited, TypeOK
  <2>4. Served'
    BY <1>a, <2>1, <2>2 DEF ServedInv, Served
  <2>5. EndsServed'
    <3> SUFFICES ASSUME NEW w \in Workers, task[w].pc \in Ending,
                        task[w].key[2] = Awaited(CaseOf(w))'
                 PROVE  indexStatus[CaseOf(w)] # "QUEUED"
      BY <1>a DEF EndsServed, CaseOf
    <3>1. CaseOf(w) \in Cases
      BY TaskKey DEF Pc
    <3>2. Awaited(CaseOf(w))' = Awaited(CaseOf(w))
      BY <1>a, <2>2, <2>3, <3>1 DEF Awaited, CaseOf
    <3> QED
      BY <3>2 DEF ServedInv, EndsServed
  <2>6. ActiveIsIndexed'
    BY <1>a DEF ServedInv, ActiveIsIndexed
  <2> QED
    BY <2>4, <2>5, <2>6
<1>1. ASSUME NEW c \in Cases, NEW old, NewDraft(c, old) PROVE Goal
  BY <1>1, <1>a DEF NewDraft, CaseStatus, Retired, jobVars
<1>2. ASSUME NEW c \in Cases, Reviewer(c) PROVE Goal
  <2>1. CASE Approve(c)
    <3>1. ~Permitted(<<c, "UPSERT">>)
      BY <2>1 DEF Approve, Permitted, Retired
    <3> QED
      BY <2>1, <3>1, EnqueueServed DEF Approve
  <2>2. CASE Reject(c)
    BY <2>2, <1>a DEF Reject, CaseStatus, Retired, jobVars
  <2>3. CASE Disable(c)
    <3>1. ~Permitted(<<c, "TOMBSTONE">>)
      BY <2>3 DEF Disable, Permitted, Retired
    <3> QED
      BY <2>3, <3>1, EnqueueServed DEF Disable, Retired
  <2> QED
    BY <1>2, <2>1, <2>2, <2>3 DEF Reviewer
\* Nothing relevant changes.
<1>b. ASSUME UNCHANGED <<review, indexStatus, active>>,
             \A c \in Cases : indexStatus[c] = "QUEUED" =>
                 job'[<<c, Awaited(c)>>] \in {"OWED", job[<<c, Awaited(c)>>]},
             \A w \in Workers : task'[w].pc \in Ending => task'[w] = task[w]
      PROVE  Goal
  <2>1. Served'
    BY <1>b, ServedStays
  <2>2. EndsServed'
    BY <1>b, EndsServedStays
  <2>3. ActiveIsIndexed'
    BY <1>b DEF ServedInv, ActiveIsIndexed
  <2> QED
    BY <2>1, <2>2, <2>3
<1>3. ASSUME NEW a \in Clients, Client(a) PROVE Goal
  <2>1. CASE SubmitCommit(a)
    <3>1. request[a].case \in Cases
      BY <2>1, RequestCase DEF SubmitCommit
    <3>2. CASE review[request[a].case] = "DRAFT"
      <4>1. review' = [review EXCEPT ![request[a].case] = "PENDING_REVIEW"]
            /\ UNCHANGED <<indexStatus, active, job, task>>
        BY <2>1, <3>1, <3>2 DEF SubmitCommit, jobVars
      <4> QED
        BY <3>1, <3>2, <4>1, <1>a DEF CaseStatus, Retired
    <3>3. CASE review[request[a].case] # "DRAFT"
      <4>1. UNCHANGED <<review, indexStatus, active, job, task>>
        BY <2>1, <3>1, <3>3 DEF SubmitCommit, jobVars, TypeOK
      <4> QED
        BY <4>1, <1>b
    <3> QED
      BY <3>2, <3>3
  <2>2. CASE ~SubmitCommit(a)
    <3>1. ~ReindexQueue(a)
      BY DEF ReindexQueue, ServedInv
    <3>2. UNCHANGED <<review, indexStatus, active, job, task>>
      BY <1>3, <2>2, <3>1 DEF Client, PatchRead, SubmitRead, ReindexRead, PatchWrite, caseVars,
                              jobVars
    <3> QED
      BY <3>2, <1>b
  <2> QED
    BY <2>1, <2>2
<1>4. ASSUME NEW w \in Workers, NEW k \in Keys, Take(w, k) \/ TakeReplay(w, k) PROVE Goal
  <2>1. \A i \in Keys : job'[i] \in {"OWED", job[i]}
    BY <1>4 DEF Take, TakeReplay, TypeOK
  <2>2. /\ UNCHANGED <<review, indexStatus, active>>
        /\ \A v \in Workers : task'[v].pc \in Ending => task'[v] = task[v]
    BY <1>4 DEF Take, TakeReplay, caseVars, TypeOK
  <2> QED
    BY <2>1, <2>2, <1>b, AwaitedKey
<1>5. ASSUME NEW w \in Workers, Handler(w) PROVE Goal
  <2>0. /\ task[w].pc \in Pc /\ CaseOf(w) \in Cases /\ task[w].key \in Keys
        /\ task[w].key = <<CaseOf(w), task[w].key[2]>>
        /\ Permitted(task[w].key)
    BY <1>5, TaskKey DEF Handler, At, ReadCase, Upsert, Publish, Supersede, Delete, Tombstone,
               Settle, Pc, EventsFitReview
  \* Deliveries other than w keep their place, and w has seen to its case.
  <2>a. ASSUME NEW pc \in Pc, Goto(w, pc), review' = review,
               \A c \in Cases : indexStatus'[c] = "QUEUED" => indexStatus[c] = "QUEUED",
               pc \in Ending /\ task[w].key[2] = Awaited(CaseOf(w)) => indexStatus'[CaseOf(w)] # "QUEUED"
        PROVE  EndsServed'
    <3> SUFFICES ASSUME NEW v \in Workers, task'[v].pc \in Ending,
                        task'[v].key[2] = Awaited(CaseOf(v))'
                 PROVE  indexStatus'[task'[v].key[1]] # "QUEUED"
      BY DEF EndsServed, CaseOf
    <3>1. CASE v = w
      BY <2>a, <3>1 DEF Goto, CaseOf, Awaited, TypeOK
    <3>2. CASE v # w
      <4>1. task'[v] = task[v]
        BY <2>a, <3>2 DEF Goto, TypeOK
      <4>2. CaseOf(v) \in Cases
        BY <4>1, TaskKey DEF Pc
      <4>3. task[v].key[2] = Awaited(CaseOf(v))
        BY <2>a, <4>1 DEF Awaited, CaseOf
      <4>4. indexStatus[CaseOf(v)] # "QUEUED"
        BY <4>1, <4>3 DEF ServedInv, EndsServed
      <4> QED
        BY <2>a, <4>1, <4>2, <4>4 DEF CaseOf
    <3> QED
      BY <3>1, <3>2
  <2>1. CASE ReadCase(w)
    <3>1. UNCHANGED <<review, indexStatus, active, job>>
      BY <2>1 DEF ReadCase, caseVars, jobVars
    <3>2. PICK pc \in {"stale", "delete", "upsert"} : Goto(w, pc) /\ (pc = "stale" => IsStale(w))
      BY <2>1 DEF ReadCase
    <3>3. ASSUME pc = "stale", task[w].key[2] = Awaited(CaseOf(w))
          PROVE  indexStatus[CaseOf(w)] # "QUEUED"
      <4>1. CASE review[CaseOf(w)] = "APPROVED"
        BY <3>2, <3>3, <4>1 DEF IsStale, Awaited
      <4>2. CASE review[CaseOf(w)] # "APPROVED"
        <5>1. review[CaseOf(w)] \in Retired /\ task[w].key[2] = "TOMBSTONE"
          BY <2>0, <3>3, <4>2 DEF Permitted, CaseOf, Awaited
        <5>2. active[CaseOf(w)]
          BY <3>2, <3>3, <5>1 DEF IsStale
        <5> QED
          BY <2>0, <5>2 DEF ServedInv, ActiveIsIndexed
      <4> QED
        BY <4>1, <4>2
    <3>4. EndsServed'
      BY <3>1, <3>2, <3>3, <2>a DEF Pc
    <3>5. Served'
      BY <3>1, ServedStays
    <3>6. ActiveIsIndexed'
      BY <3>1 DEF ServedInv, ActiveIsIndexed
    <3> QED
      BY <3>4, <3>5, <3>6
  <2>2. CASE Upsert(w) \/ Delete(w)
    <3>1. UNCHANGED <<review, indexStatus, active, job>>
          /\ \A v \in Workers : task'[v].pc \in Ending => task'[v] = task[v]
      BY <2>2 DEF Upsert, Delete, Goto, caseVars, jobVars, TypeOK
    <3> QED
      BY <3>1, <1>b
  <2>3. CASE Publish(w) \/ Tombstone(w)
    <3>1. PICK pc \in Pc : Goto(w, pc)
      BY <2>3 DEF Publish, Tombstone, Pc
    <3>2. /\ UNCHANGED <<review, job>>
          /\ indexStatus'[CaseOf(w)] # "QUEUED"
          /\ \A c \in Cases : c # CaseOf(w) => indexStatus'[c] = indexStatus[c] /\ active'[c] = active[c]
      BY <2>0, <2>3 DEF Publish, Tombstone, jobVars, TypeOK
    <3>3. EndsServed'
      BY <3>1, <3>2, <2>a
    <3>4. Served'
      BY <3>2, ServedStays
    <3>5. ActiveIsIndexed'
      BY <3>2 DEF ServedInv, ActiveIsIndexed
    <3> QED
      BY <3>3, <3>4, <3>5
  <2>4. CASE Supersede(w)
    <3>1. PICK old \in supersedes[CaseOf(w)] :
             IF review[old] = "APPROVED"
             THEN /\ review' = [review EXCEPT ![old] = "SUPERSEDED"]
                  /\ Enqueue(old, <<old, "TOMBSTONE">>)
             ELSE UNCHANGED <<review, indexStatus, active, jobVars>>
      BY <2>4 DEF Supersede
    <3>2. old \in Cases /\ At(w, "supersede") /\ Goto(w, "finish")
      BY <2>0, <2>4 DEF Supersede, TypeOK
    <3>3. CASE review[old] = "APPROVED"
      <4>1. ~Permitted(<<old, "TOMBSTONE">>)
        BY <3>3 DEF Permitted, Retired
      <4>2. \A v \in Workers : task'[v].pc \in Ending =>
               task[v].pc \in Ending /\ task'[v].key = task[v].key
        BY <3>2 DEF Goto, At, TypeOK
      <4>3. /\ review' = [review EXCEPT ![old] = "SUPERSEDED"]
            /\ Enqueue(old, <<old, "TOMBSTONE">>)
        BY <3>1, <3>3
      <4> QED
        BY <3>2, <4>1, <4>2, <4>3, EnqueueServed DEF Retired
    <3>4. CASE review[old] # "APPROVED"
      <4>1. UNCHANGED <<review, indexStatus, active, job>>
        BY <3>1, <3>4 DEF jobVars
      <4>2. EndsServed'
        BY <3>2, <4>1, <2>a DEF Pc, At, ServedInv, EndsServed
      <4>3. Served'
        BY <4>1, ServedStays
      <4>4. ActiveIsIndexed'
        BY <4>1 DEF ServedInv, ActiveIsIndexed
      <4> QED
        BY <4>2, <4>3, <4>4
    <3> QED
      BY <3>3, <3>4
  <2>5. CASE Settle(w)
    <3>1. /\ UNCHANGED <<review, indexStatus, active>>
          /\ \A v \in Workers : task'[v].pc \in Ending => task'[v] = task[v]
          /\ task[w].pc \in Ending
      BY <2>5 DEF Settle, caseVars, Free, TypeOK
    <3>2. ASSUME NEW c \in Cases, indexStatus[c] = "QUEUED"
          PROVE  job'[<<c, Awaited(c)>>] = job[<<c, Awaited(c)>>]
      <4>1. task[w].key # <<c, Awaited(c)>>
        BY <2>0, <3>1, <3>2 DEF ServedInv, EndsServed
      <4> QED
        BY <2>0, <2>5, <4>1, AwaitedKey DEF Settle, TypeOK
    <3> QED
      BY <3>1, <3>2, <1>b
  <2> QED
    BY <1>5, <2>1, <2>2, <2>3, <2>4, <2>5 DEF Handler
<1>6. ASSUME NEW w \in Workers, FailRetry(w) \/ FailDead(w) PROVE Goal
  <2>0. CaseOf(w) \in Cases /\ task[w].key \in Keys
        /\ task[w].key = <<CaseOf(w), task[w].key[2]>>
    BY <1>6, TaskKey DEF FailRetry, FailDead, Raises
  <2>1. CASE FailRetry(w)
    <3>1. \A k \in Keys : job'[k] \in {"OWED", job[k]}
      BY <2>1 DEF FailRetry, TypeOK
    <3>2. /\ UNCHANGED <<review, indexStatus, active>>
          /\ \A v \in Workers : task'[v].pc \in Ending => task'[v] = task[v]
      BY <2>1 DEF FailRetry, caseVars, Free, TypeOK
    <3> QED
      BY <3>1, <3>2, <1>b, AwaitedKey
  <2>2. CASE FailDead(w)
    <3>1. /\ review' = review
          /\ indexStatus'[CaseOf(w)] = "FAILED"
          /\ \A c \in Cases : c # CaseOf(w) => indexStatus'[c] = indexStatus[c]
          /\ \A c \in Cases : active'[c] => active[c]
          /\ \A v \in Workers : task'[v].pc \in Ending => task'[v] = task[v]
      BY <2>0, <2>2 DEF FailDead, Free, TypeOK
    <3>2. ASSUME NEW c \in Cases, indexStatus'[c] = "QUEUED"
          PROVE  job'[<<c, Awaited(c)>>] = job[<<c, Awaited(c)>>]
      <4>1. <<c, Awaited(c)>> # task[w].key
        BY <2>0, <3>1, <3>2
      <4> QED
        BY <2>0, <2>2, <4>1, AwaitedKey DEF FailDead, TypeOK
    <3>3. Served'
      BY <3>1, <3>2, ServedStays
    <3>4. EndsServed'
      BY <3>1, EndsServedStays
    <3>5. ActiveIsIndexed'
      BY <3>1 DEF ServedInv, ActiveIsIndexed
    <3> QED
      BY <3>3, <3>4, <3>5
  <2> QED
    BY <1>6, <2>1, <2>2
<1>7. ASSUME NEW k \in Keys, RetryJob(k) \/ Duplicate(k) PROVE Goal
  <2>1. \A i \in Keys : job'[i] \in {"OWED", job[i]}
    BY <1>7 DEF RetryJob, Duplicate, TypeOK
  <2>2. UNCHANGED <<review, indexStatus, active, task>>
    BY <1>7 DEF RetryJob, Duplicate, caseVars
  <2> QED
    BY <2>1, <2>2, <1>b, AwaitedKey
<1>8. ASSUME Crash PROVE Goal
  <2>1. UNCHANGED <<review, indexStatus, active, job>> /\ \A v \in Workers : task'[v].pc \notin Ending
    BY <1>8 DEF Crash, caseVars, Free
  <2> QED
    BY <2>1, <1>b
<1>9. ASSUME UNCHANGED vars PROVE Goal
  <2>1. UNCHANGED <<review, indexStatus, active, job, task>>
    BY <1>9 DEF vars, caseVars, jobVars
  <2> QED
    BY <2>1, <1>b
<1> HIDE DEF Goal
<1>10. Goal
  BY <1>1, <1>2, <1>3, <1>4, <1>5, <1>6, <1>7, <1>8, <1>9 DEF Next, CreateDraft, Revision
<1> QED
  BY <1>0, <1>10 DEF ServedInv, Goal

\* As long as reindex is not used, every case that waits as QUEUED has an index
\* job that is still owed, over failures, retries, duplicates and crashes.
THEOREM QueuedCasesAreServed ==
    ASSUME "reindex" \notin Requests
    PROVE  Spec => []QueuedIsServed
<1>1. Init => ServedInv
  BY DEF Init, ServedInv, Served, EndsServed, ActiveIsIndexed, Idle, Free
<1>2. ServedInv => QueuedIsServed
  BY DEF ServedInv, Served, QueuedIsServed, Awaited, IndexOperation
<1>3. TypeOK /\ TypeOK' /\ EventsFitReview /\ [Next]_vars /\ ServedInv => ServedInv'
  BY ServedStep
<1> QED
  BY <1>1, <1>2, <1>3, InitType, TypeStep, EventsFollowReview, PTL DEF Spec
=============================================================================
