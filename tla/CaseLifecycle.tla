--------------------------- MODULE CaseLifecycle ---------------------------
(***************************************************************************)
(* The life of a diagnosis case: drafts, review, revision and disabling    *)
(* through the API (src/energy_agent/cases), and the index worker's        *)
(* handler that makes an approved case searchable and takes a retired one  *)
(* out (IndexingHandlerRegistry._case).  index_execution_mode is           *)
(* "rabbitmq", so every index change goes through a job.                   *)
(*                                                                         *)
(* How a job travels is the business of IndexPipeline; here a job key has  *)
(* a status and a number of messages, and Duplicate, Crash and the         *)
(* handler's failures stand for what that module shows can happen.  Every  *)
(* transaction and every provider call is a step of its own.  The graph    *)
(* projection only decides between INDEXED and DEGRADED.                   *)
(***************************************************************************)
EXTENDS Integers, FiniteSets

CONSTANTS
    Cases,       \* case ids; a revision takes a fresh one
    Workers,     \* deliveries the index worker handles at a time
    Clients,     \* API requests that are in flight at a time
    Requests,    \* the kinds of them that this instance has
    Contents,    \* whether a draft or an edit may be complete, or incomplete
    FaultKinds,  \* the failures of this instance
    MaxFaults    \* bound: how many failures happen

ASSUME WorkersAssumption == IsFiniteSet(Workers)
ASSUME RequestsAssumption == Requests \subseteq {"patch", "submit", "reindex"}
ASSUME ContentsAssumption == Contents \subseteq BOOLEAN
ASSUME FaultsAssumption == MaxFaults \in Nat

VARIABLES
    review,       \* DiagnosisCaseModel.review_status, "NONE" while there is no row
    indexStatus,  \* DiagnosisCaseModel.index_status
    active,       \* DiagnosisCaseModel.is_active
    supersedes,   \* DiagnosisCaseModel.supersedes_case_id, {} or a single case
    complete,     \* missing_case_fields finds nothing in the row
    vector,       \* Milvus holds the case
    job,          \* IndexJobModel.status per key
    queue,        \* messages per key between outbox and worker
    task,         \* the deliveries in progress
    request,      \* the API requests between their check and their commit
    faults        \* failures so far

caseVars == <<review, indexStatus, active, supersedes, complete>>
jobVars == <<job, queue>>
vars == <<caseVars, vector, jobVars, task, request, faults>>

-----------------------------------------------------------------------------
(* Types *)

CaseStatus == {"DRAFT", "PENDING_REVIEW", "APPROVED", "REJECTED", "DISABLED", "SUPERSEDED"}

Retired == {"DISABLED", "SUPERSEDED"}

\* RUNNING is declared too, but no code writes it to a case.
CaseIndexStatus == {"PENDING", "QUEUED", "INDEXED", "DEGRADED", "TOMBSTONED", "FAILED"}

IndexOperation == {"UPSERT", "REINDEX", "TOMBSTONE"}

\* _add_job identifies a job by case, version and operation; the version of a
\* case never changes.
Keys == Cases \X IndexOperation

\* OWED is PENDING, QUEUED and RUNNING; DONE is INDEXED, DEGRADED and TOMBSTONED.
JobStatus == {"NONE", "OWED", "DONE", "STALE", "FAILED"}

Free == [pc |-> "free"]

(* Where a delivery stands in handle():                                    *)
(*   read       start() committed, the case row not read yet               *)
(*   upsert, publish, supersede     the UPSERT and REINDEX branch          *)
(*   delete, tombstone              the TOMBSTONE branch                   *)
(*   stale      StaleIndexEventError raised                                *)
(*   finish     the handler returned                                       *)
Pc == {"read", "upsert", "publish", "supersede", "delete", "tombstone", "stale", "finish"}

Delivery == [pc : Pc, key : Keys]

Idle == [step |-> "idle"]

\* "reindex" carries the operation reindex() chose from what it read.
Request ==
    [step : {"patch", "submit"}, case : Cases] \cup [step : {"reindex"}, key : Keys]

Fault(kind) ==
    /\ kind \in FaultKinds
    /\ faults < MaxFaults
    /\ faults' = faults + 1

\* _add_job: a key that exists already is returned as it is.
AddJob(k) ==
    IF job[k] = "NONE"
    THEN /\ job' = [job EXCEPT ![k] = "OWED"]
         /\ queue' = [queue EXCEPT ![k] = @ + 1]
    ELSE UNCHANGED jobVars

-----------------------------------------------------------------------------
Init ==
    /\ review = [c \in Cases |-> "NONE"]
    /\ indexStatus = [c \in Cases |-> "PENDING"]
    /\ active = [c \in Cases |-> FALSE]
    /\ supersedes = [c \in Cases |-> {}]
    /\ complete = [c \in Cases |-> FALSE]
    /\ vector = [c \in Cases |-> FALSE]
    /\ job = [k \in Keys |-> "NONE"]
    /\ queue = [k \in Keys |-> 0]
    /\ task = [w \in Workers |-> Free]
    /\ request = [a \in Clients |-> Idle]
    /\ faults = 0

-----------------------------------------------------------------------------
(* The API: CaseApplicationService *)

\* A row with review_status DRAFT, index_status PENDING and is_active FALSE;
\* what the review and the diagnosis result left empty is still missing.
NewDraft(c, old) ==
    /\ review[c] = "NONE"
    /\ review' = [review EXCEPT ![c] = "DRAFT"]
    /\ supersedes' = [supersedes EXCEPT ![c] = old]
    /\ \E full \in Contents : complete' = [complete EXCEPT ![c] = full]
    /\ UNCHANGED <<indexStatus, active, vector, jobVars, task, request, faults>>

\* review_diagnosis with CONFIRMED, through _create_draft.
CreateDraft(c) == NewDraft(c, {})

\* revision: the original stays as it is.
Revision(original, c) ==
    /\ review[original] \in {"APPROVED", "REJECTED"}
    /\ NewDraft(c, {original})

\* update_draft reads the row without a lock ...
PatchRead(a, c) ==
    /\ "patch" \in Requests
    /\ request[a] = Idle
    /\ review[c] = "DRAFT"
    /\ request' = [request EXCEPT ![a] = [step |-> "patch", case |-> c]]
    /\ UNCHANGED <<caseVars, vector, jobVars, task, faults>>

\* ... and its UPDATE writes the edited columns, whatever the row is by now.
PatchWrite(a) ==
    /\ request[a].step = "patch"
    /\ \E full \in Contents :
          complete' = [complete EXCEPT ![request[a].case] = full]
    /\ request' = [request EXCEPT ![a] = Idle]
    /\ UNCHANGED <<review, indexStatus, active, supersedes, vector, jobVars, task, faults>>

\* submit checks the fields of the row it read; one that is past DRAFT already
\* stays so and ends in a conflict ...
SubmitRead(a, c) ==
    /\ "submit" \in Requests
    /\ request[a] = Idle
    /\ review[c] = "DRAFT"
    /\ complete[c]
    /\ request' = [request EXCEPT ![a] = [step |-> "submit", case |-> c]]
    /\ UNCHANGED <<caseVars, vector, jobVars, task, faults>>

\* ... and transition() checks the status under the row lock.
SubmitCommit(a) ==
    /\ request[a].step = "submit"
    /\ review' = [review EXCEPT ![request[a].case] =
                     IF @ = "DRAFT" THEN "PENDING_REVIEW" ELSE @]
    /\ request' = [request EXCEPT ![a] = Idle]
    /\ UNCHANGED <<indexStatus, active, supersedes, complete, vector, jobVars, task, faults>>

\* The row leaves the search set and waits for job k.
Enqueue(c, k) ==
    /\ indexStatus' = [indexStatus EXCEPT ![c] = "QUEUED"]
    /\ active' = [active EXCEPT ![c] = FALSE]
    /\ AddJob(k)

Approve(c) ==
    /\ review[c] = "PENDING_REVIEW"
    /\ review' = [review EXCEPT ![c] = "APPROVED"]
    /\ Enqueue(c, <<c, "UPSERT">>)
    /\ UNCHANGED <<supersedes, complete, vector, task, request, faults>>

Reject(c) ==
    /\ review[c] = "PENDING_REVIEW"
    /\ review' = [review EXCEPT ![c] = "REJECTED"]
    /\ UNCHANGED <<indexStatus, active, supersedes, complete, vector, jobVars, task,
                   request, faults>>

Disable(c) ==
    /\ review[c] = "APPROVED"
    /\ review' = [review EXCEPT ![c] = "DISABLED"]
    /\ Enqueue(c, <<c, "TOMBSTONE">>)
    /\ UNCHANGED <<supersedes, complete, vector, task, request, faults>>

\* Mutant: the operation is taken from is_active instead of the review status.
ReindexReadByActive(a, c) ==
    /\ "reindex" \in Requests
    /\ request[a] = Idle
    /\ review[c] \in {"APPROVED"} \cup Retired
    /\ indexStatus[c] \in {"FAILED", "PENDING", "DEGRADED"}
    /\ LET op == IF active[c] THEN "REINDEX" ELSE "TOMBSTONE" IN
       request' = [request EXCEPT ![a] = [step |-> "reindex", key |-> <<c, op>>]]
    /\ UNCHANGED <<caseVars, vector, jobVars, task, faults>>

\* reindex decides on the operation from an unlocked read ...
ReindexRead(a, c) ==
    /\ "reindex" \in Requests
    /\ request[a] = Idle
    /\ review[c] \in {"APPROVED"} \cup Retired
    /\ indexStatus[c] \in {"FAILED", "PENDING", "DEGRADED"}
    /\ LET op == IF review[c] = "APPROVED" THEN "REINDEX" ELSE "TOMBSTONE" IN
       request' = [request EXCEPT ![a] = [step |-> "reindex", key |-> <<c, op>>]]
    /\ UNCHANGED <<caseVars, vector, jobVars, task, faults>>

\* ... and queue_index applies it without looking at the row again.
ReindexQueue(a) ==
    /\ request[a].step = "reindex"
    /\ Enqueue(request[a].key[1], request[a].key)
    /\ request' = [request EXCEPT ![a] = Idle]
    /\ UNCHANGED <<review, supersedes, complete, vector, task, faults>>

\* IndexRepository.retry, from the operator's CLI.
RetryJob(k) ==
    /\ job[k] = "FAILED"
    /\ job' = [job EXCEPT ![k] = "OWED"]
    /\ queue' = [queue EXCEPT ![k] = @ + 1]
    /\ UNCHANGED <<caseVars, vector, task, request, faults>>

-----------------------------------------------------------------------------
(* The index worker *)

At(w, pc) == task[w].pc = pc

CaseOf(w) == task[w].key[1]

Goto(w, pc) == task' = [task EXCEPT ![w] = [pc |-> pc, key |-> task[w].key]]

\* start() takes the job unless it is terminal, FAILED included.
Take(w, k) ==
    /\ task[w] = Free
    /\ queue[k] > 0
    /\ queue' = [queue EXCEPT ![k] = @ - 1]
    /\ job[k] \notin {"DONE", "STALE"}
    /\ job' = [job EXCEPT ![k] = "OWED"]
    /\ task' = [task EXCEPT ![w] = [pc |-> "read", key |-> k]]
    /\ UNCHANGED <<caseVars, vector, request, faults>>

\* A message of a terminal job is acknowledged and forgotten.
TakeReplay(w, k) ==
    /\ task[w] = Free
    /\ queue[k] > 0
    /\ queue' = [queue EXCEPT ![k] = @ - 1]
    /\ job[k] \in {"DONE", "STALE"}
    /\ UNCHANGED <<caseVars, vector, job, task, request, faults>>

\* Whether the event still describes the row that _case reads.
IsStale(w) ==
    IF task[w].key[2] = "TOMBSTONE"
    THEN active[CaseOf(w)] \/ review[CaseOf(w)] \notin Retired
    ELSE review[CaseOf(w)] # "APPROVED"

\* _case reads the row without a lock; everything below acts on this read.
ReadCase(w) ==
    /\ At(w, "read")
    /\ Goto(w, CASE IsStale(w) -> "stale"
                 [] ~IsStale(w) /\ task[w].key[2] = "TOMBSTONE" -> "delete"
                 [] OTHER -> "upsert")
    /\ UNCHANGED <<caseVars, vector, jobVars, request, faults>>

\* Mutant: a failed milvus.upsert is swallowed.
UpsertSwallowed(w) ==
    /\ At(w, "upsert")
    /\ \E stored \in BOOLEAN : vector' = [vector EXCEPT ![CaseOf(w)] = @ \/ stored]
    /\ Goto(w, "publish")
    /\ UNCHANGED <<caseVars, jobVars, request, faults>>

\* embed and milvus.upsert.
Upsert(w) ==
    /\ At(w, "upsert")
    /\ vector' = [vector EXCEPT ![CaseOf(w)] = TRUE]
    /\ Goto(w, "publish")
    /\ UNCHANGED <<caseVars, jobVars, request, faults>>

\* Mutant: the old version is superseded only by a fully INDEXED one, which is
\* the condition review_case has.
PublishDegradedKeepsOld(w) ==
    /\ At(w, "publish")
    /\ active' = [active EXCEPT ![CaseOf(w)] = TRUE]
    /\ \E s \in {"INDEXED", "DEGRADED"} :
          /\ indexStatus' = [indexStatus EXCEPT ![CaseOf(w)] = s]
          /\ Goto(w, IF s = "INDEXED" /\ supersedes[CaseOf(w)] # {}
                     THEN "supersede" ELSE "finish")
    /\ UNCHANGED <<review, supersedes, complete, vector, jobVars, request, faults>>

\* The graph projection succeeds or degrades, and _set_case_index writes the
\* row unconditionally.
Publish(w) ==
    /\ At(w, "publish")
    /\ \E s \in {"INDEXED", "DEGRADED"} :
          indexStatus' = [indexStatus EXCEPT ![CaseOf(w)] = s]
    /\ active' = [active EXCEPT ![CaseOf(w)] = TRUE]
    /\ Goto(w, IF supersedes[CaseOf(w)] = {} THEN "finish" ELSE "supersede")
    /\ UNCHANGED <<review, supersedes, complete, vector, jobVars, request, faults>>

\* _queue_superseded_case: the old version, under its lock, if still APPROVED.
Supersede(w) ==
    /\ At(w, "supersede")
    /\ \E old \in supersedes[CaseOf(w)] :
          IF review[old] = "APPROVED"
          THEN /\ review' = [review EXCEPT ![old] = "SUPERSEDED"]
               /\ Enqueue(old, <<old, "TOMBSTONE">>)
          ELSE UNCHANGED <<review, indexStatus, active, jobVars>>
    /\ Goto(w, "finish")
    /\ UNCHANGED <<supersedes, complete, vector, request, faults>>

\* milvus.delete.
Delete(w) ==
    /\ At(w, "delete")
    /\ vector' = [vector EXCEPT ![CaseOf(w)] = FALSE]
    /\ Goto(w, "tombstone")
    /\ UNCHANGED <<caseVars, jobVars, request, faults>>

Tombstone(w) ==
    /\ At(w, "tombstone")
    /\ indexStatus' = [indexStatus EXCEPT ![CaseOf(w)] = "TOMBSTONED"]
    /\ active' = [active EXCEPT ![CaseOf(w)] = FALSE]
    /\ Goto(w, "finish")
    /\ UNCHANGED <<review, supersedes, complete, vector, jobVars, request, faults>>

\* finish() and ack.
Settle(w) ==
    /\ task[w].pc \in {"stale", "finish"}
    /\ job' = [job EXCEPT ![task[w].key] = IF At(w, "stale") THEN "STALE" ELSE "DONE"]
    /\ task' = [task EXCEPT ![w] = Free]
    /\ UNCHANGED <<caseVars, vector, queue, request, faults>>

\* An await of the handler raised.
Raises(w) == task[w].pc \in Pc \ {"stale"} /\ Fault("handler")

\* fail() with a delay, and the message goes to the retry queue.
FailRetry(w) ==
    /\ Raises(w)
    /\ job' = [job EXCEPT ![task[w].key] = "OWED"]
    /\ queue' = [queue EXCEPT ![task[w].key] = @ + 1]
    /\ task' = [task EXCEPT ![w] = Free]
    /\ UNCHANGED <<caseVars, vector, request>>

\* Mutant: fail() leaves the case row alone.
FailDeadJobOnly(w) ==
    /\ Raises(w)
    /\ job' = [job EXCEPT ![task[w].key] = "FAILED"]
    /\ task' = [task EXCEPT ![w] = Free]
    /\ UNCHANGED <<caseVars, vector, queue, request>>

\* fail() for good: the job and the case are FAILED in one transaction.
FailDead(w) ==
    /\ Raises(w)
    /\ job' = [job EXCEPT ![task[w].key] = "FAILED"]
    /\ indexStatus' = [indexStatus EXCEPT ![CaseOf(w)] = "FAILED"]
    /\ active' = [active EXCEPT ![CaseOf(w)] = FALSE]
    /\ task' = [task EXCEPT ![w] = Free]
    /\ UNCHANGED <<review, supersedes, complete, vector, queue, request>>

Handling(k) == {w \in Workers : task[w].pc \in Pc /\ task[w].key = k}

\* The worker process dies; the broker redelivers what it held.
Crash ==
    /\ Fault("crash")
    /\ queue' = [k \in Keys |-> queue[k] + Cardinality(Handling(k))]
    /\ task' = [w \in Workers |-> Free]
    /\ UNCHANGED <<caseVars, vector, job, request>>

\* The publisher sent the message again (see IndexPipeline).
Duplicate(k) ==
    /\ queue[k] > 0
    /\ Fault("duplicate")
    /\ queue' = [queue EXCEPT ![k] = @ + 1]
    /\ UNCHANGED <<caseVars, vector, job, task, request>>

-----------------------------------------------------------------------------
Reviewer(c) == Approve(c) \/ Reject(c) \/ Disable(c)

Client(a) ==
    \/ \E c \in Cases : PatchRead(a, c) \/ SubmitRead(a, c) \/ ReindexRead(a, c)
    \/ PatchWrite(a)
    \/ SubmitCommit(a)
    \/ ReindexQueue(a)

Handler(w) ==
    \/ ReadCase(w)
    \/ Upsert(w)
    \/ Publish(w)
    \/ Supersede(w)
    \/ Delete(w)
    \/ Tombstone(w)
    \/ Settle(w)

Next ==
    \/ \E c \in Cases : CreateDraft(c) \/ Reviewer(c)
    \/ \E original, c \in Cases : Revision(original, c)
    \/ \E a \in Clients : Client(a)
    \/ \E w \in Workers, k \in Keys : Take(w, k) \/ TakeReplay(w, k)
    \/ \E w \in Workers : Handler(w) \/ FailRetry(w) \/ FailDead(w)
    \/ \E k \in Keys : RetryJob(k) \/ Duplicate(k)
    \/ Crash

\* The broker delivers what is queued and a callback goes on; nobody has to
\* send a request.
Fairness ==
    /\ \A k \in Keys : WF_vars(\E w \in Workers : Take(w, k) \/ TakeReplay(w, k))
    /\ \A w \in Workers : WF_vars(Handler(w))

Spec == Init /\ [][Next]_vars /\ Fairness

-----------------------------------------------------------------------------
(* Properties *)

\* Every variable has its type.
TypeOK ==
    /\ review \in [Cases -> CaseStatus \cup {"NONE"}]
    /\ indexStatus \in [Cases -> CaseIndexStatus]
    /\ active \in [Cases -> BOOLEAN]
    /\ supersedes \in [Cases -> SUBSET Cases]
    /\ complete \in [Cases -> BOOLEAN]
    /\ vector \in [Cases -> BOOLEAN]
    /\ job \in [Keys -> JobStatus]
    /\ queue \in [Keys -> Nat]
    /\ task \in [Workers -> Delivery \cup {Free}]
    /\ request \in [Clients -> Request \cup {Idle}]
    /\ faults \in 0..MaxFaults

\* The job for key k may exist in the case's review status.
Permitted(k) ==
    review[k[1]] \in Retired \cup (IF k[2] = "TOMBSTONE" THEN {} ELSE {"APPROVED"})

\* No event ever gets ahead of the review: whatever names an index operation, a
\* job, a message, a delivery or a reindex request that has made its choice,
\* belongs to a case that was approved, and a TOMBSTONE to one that is retired
\* for good.
EventsFitReview ==
    /\ \A k \in Keys : job[k] # "NONE" \/ queue[k] > 0 => Permitted(k)
    /\ \A w \in Workers : task[w].pc \in Pc => Permitted(task[w].key)
    /\ \A a \in Clients : request[a].step = "reindex" => Permitted(request[a].key)

\* The condition of MySQLProvider.case_candidates: the case may be retrieved.
Searchable(c) ==
    /\ review[c] = "APPROVED"
    /\ indexStatus[c] \in {"INDEXED", "DEGRADED"}
    /\ active[c]

\* What MySQL offers for retrieval is in Milvus: whatever overlaps with the
\* worker, no tombstone takes the vector of a case that is still searchable.
SearchableIsIndexed == \A c \in Cases : Searchable(c) => vector[c]

\* The index job of a revision is done only once the version it replaces is no
\* longer APPROVED, over retries, duplicates and crashes between _set_case_index
\* and _queue_superseded_case.
PredecessorRetired ==
    \A c \in Cases : \A op \in {"UPSERT", "REINDEX"} :
        job[<<c, op>>] = "DONE" => \A old \in supersedes[c] : review[old] # "APPROVED"

\* A case that waits as QUEUED waits for a job that is still owed.
QueuedIsServed ==
    \A c \in Cases : indexStatus[c] = "QUEUED" =>
        \E op \in IndexOperation : job[<<c, op>>] = "OWED"

\* Two versions of a case do not stay searchable side by side.
OldVersionLeaves ==
    \A c, old \in Cases :
        old \in supersedes[c] /\ Searchable(c) /\ Searchable(old)
            ~> ~(Searchable(c) /\ Searchable(old))

\* A retired case leaves Milvus: once its TOMBSTONE job is settled, no vector of
\* it is left.
TombstoneRemovesVector ==
    \A c \in Cases :
        review[c] \in Retired /\ job[<<c, "TOMBSTONE">>] \in {"DONE", "STALE"}
            => ~vector[c]
=============================================================================
