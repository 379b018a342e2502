--------------------------- MODULE IndexPipeline ---------------------------
(***************************************************************************)
(* The asynchronous index pipeline of src/energy_agent/indexing: jobs and  *)
(* their outbox rows in MySQL, the publisher loop that moves outbox rows   *)
(* to RabbitMQ, the broker's main, retry and dead queues, and the          *)
(* consumer callbacks that run a handler and settle the job.               *)
(*                                                                         *)
(* One worker process holds the publisher loop and the consumer.  The      *)
(* broker hands it up to prefetch_count unacknowledged deliveries; each is *)
(* one element of Slots and runs IndexConsumer.consume as its own task.    *)
(* Every transaction of the repository is one step, every broker call is   *)
(* another, so any two tasks interleave between them.                      *)
(*                                                                         *)
(* What a handler does to the entity is left out here (module              *)
(* CaseLifecycle has it): it returns a terminal status or raises.          *)
(***************************************************************************)
EXTENDS Integers, Sequences, FiniteSets

CONSTANTS
    Jobs,         \* job keys: (entity_type, entity_id, entity_version, operation)
    Slots,        \* deliveries the broker may leave unacknowledged (prefetch)
    Results,      \* the statuses a handler returns in this instance
    MaxAttempts,  \* IndexJobCreate.max_attempts
    PublishLimit, \* the limit of pending_outbox
    MaxRows,      \* bound: an operator retries while the outbox is shorter
    FaultKinds,   \* the failures of this instance
    MaxFaults     \* bound: how many failures happen

ASSUME ResultsAssumption == Results \subseteq {"INDEXED", "DEGRADED", "TOMBSTONED"}
ASSUME SlotsAssumption == IsFiniteSet(Slots)
ASSUME AttemptsAssumption == MaxAttempts \in Nat \ {0}
ASSUME LimitAssumption == PublishLimit \in Nat \ {0}
ASSUME BoundsAssumption == MaxRows \in Nat /\ MaxFaults \in Nat

VARIABLES
    status,     \* IndexJobModel.status, "NONE" while there is no row
    attempt,    \* IndexJobModel.attempt_count
    outbox,     \* IndexOutboxModel rows, in id order
    publisher,  \* the publish_once in progress: rows left, and its next step
    main,       \* messages per job in the main queue
    retry,      \* messages per job waiting out their TTL in the retry queue
    dead,       \* messages per job in the dead queue, which nobody consumes
    slot,       \* the unacknowledged deliveries and where their task stands
    faults      \* failures so far

jobVars == <<status, attempt, outbox>>
queues == <<main, retry, dead>>
vars == <<status, attempt, outbox, publisher, main, retry, dead, slot, faults>>

-----------------------------------------------------------------------------
(* Types *)

\* The states start() returns untouched, and consume() acknowledges as a replay.
Done == {"INDEXED", "DEGRADED", "TOMBSTONED", "STALE"}

\* Work the pipeline still owes the entity.
Owed == {"PENDING", "QUEUED", "RUNNING"}

IndexJobStatus == Owed \cup Done \cup {"FAILED"}

Row == [job : Jobs, published : BOOLEAN]

(* Where the task of a delivery stands:                                    *)
(*   received  delivered, start() not yet run                              *)
(*   handling  job started, handlers.handle in progress                    *)
(*   finished  finish() committed, ack() still to do inside the try block  *)
(*   requeue   fail() committed a retry, publish to the retry queue next   *)
(*   bury      fail() committed FAILED, publish to the dead queue next     *)
(*   ack       only ack() is left, outside the try block                   *)
(*   hung      the callback raised: neither acknowledged nor rejected      *)
Pc == {"received", "handling", "finished", "requeue", "bury", "ack", "hung"}

Free == [pc |-> "free"]

Delivery == [pc : Pc, job : Jobs, attempt : 0..MaxAttempts]

Rows == DOMAIN outbox

PendingRows == {i \in Rows : ~outbox[i].published}

Idle == [step |-> "idle", batch |-> {}]

Fault(kind) ==
    /\ kind \in FaultKinds
    /\ faults < MaxFaults
    /\ faults' = faults + 1

-----------------------------------------------------------------------------
(* Producers: whoever asks for indexing, and the operator's CLI *)

Init ==
    /\ status = [j \in Jobs |-> "NONE"]
    /\ attempt = [j \in Jobs |-> 0]
    /\ outbox = <<>>
    /\ publisher = Idle
    /\ main = [j \in Jobs |-> 0]
    /\ retry = [j \in Jobs |-> 0]
    /\ dead = [j \in Jobs |-> 0]
    /\ slot = [s \in Slots |-> Free]
    /\ faults = 0

\* _add_job: the job and its outbox row, in the caller's transaction.  A key
\* that exists already is returned as it is and changes nothing.
AddJob(j) ==
    /\ status[j] = "NONE"
    /\ status' = [status EXCEPT ![j] = "PENDING"]
    /\ outbox' = Append(outbox, [job |-> j, published |-> FALSE])
    /\ UNCHANGED <<attempt, publisher, queues, slot, faults>>

\* IndexRepository.retry, from "indexing.cli retry": only a FAILED job, which
\* starts over with a fresh outbox row.
Retry(j) ==
    /\ status[j] = "FAILED"
    /\ Len(outbox) < MaxRows
    /\ status' = [status EXCEPT ![j] = "PENDING"]
    /\ attempt' = [attempt EXCEPT ![j] = 0]
    /\ outbox' = Append(outbox, [job |-> j, published |-> FALSE])
    /\ UNCHANGED <<publisher, queues, slot, faults>>

-----------------------------------------------------------------------------
(* OutboxPublisher.publish_once *)

\* The oldest PublishLimit pending rows; the loop works through this snapshot.
PendingOutbox ==
    {i \in PendingRows : Cardinality({k \in PendingRows : k < i}) < PublishLimit}

ReadOutbox ==
    /\ publisher.step = "idle"
    /\ PendingRows # {}
    /\ publisher' = [step |-> "publish", batch |-> PendingOutbox]
    /\ UNCHANGED <<jobVars, queues, slot, faults>>

\* The row the loop stands at.
IsCurrent(i) == i \in publisher.batch /\ \A k \in publisher.batch : i <= k

\* The loop moves on to the next row, or publish_once returns.
NextRow(i) ==
    publisher' = IF publisher.batch = {i} THEN Idle
                 ELSE [step |-> "publish", batch |-> publisher.batch \ {i}]

\* The broker confirmed the message; mark_published is the next await.
PublishConfirmed ==
    /\ publisher.step = "publish"
    /\ \E i \in publisher.batch :
          /\ IsCurrent(i)
          /\ main' = [main EXCEPT ![outbox[i].job] = @ + 1]
    /\ publisher' = [step |-> "mark", batch |-> publisher.batch]
    /\ UNCHANGED <<jobVars, retry, dead, slot, faults>>

\* Mutant: the failed publish is swallowed and the row counted as sent.
PublishRefusedSwallowed ==
    /\ publisher.step = "publish"
    /\ Fault("publish")
    /\ \E i \in publisher.batch :
          /\ IsCurrent(i)
          /\ outbox' = [outbox EXCEPT ![i] = [job |-> @.job, published |-> TRUE]]
          /\ NextRow(i)
    /\ UNCHANGED <<status, attempt, queues, slot>>

\* publish raised (circuit open, no channel, broker refused): the row stays
\* PENDING for a later poll and the loop goes on.
PublishRefused ==
    /\ publisher.step = "publish"
    /\ Fault("publish")
    /\ \E i \in publisher.batch : IsCurrent(i) /\ NextRow(i)
    /\ UNCHANGED <<jobVars, queues, slot>>

\* publish timed out after the broker had taken the message.
PublishUnconfirmed ==
    /\ publisher.step = "publish"
    /\ Fault("unconfirmed")
    /\ \E i \in publisher.batch :
          /\ IsCurrent(i)
          /\ main' = [main EXCEPT ![outbox[i].job] = @ + 1]
          /\ NextRow(i)
    /\ UNCHANGED <<jobVars, retry, dead, slot>>

\* Mutant: the job is moved to QUEUED but the row keeps its status.
MarkPublishedRowKept ==
    /\ publisher.step = "mark"
    /\ \E i \in publisher.batch :
          /\ IsCurrent(i)
          /\ status' = [status EXCEPT ![outbox[i].job] =
                           IF @ = "PENDING" THEN "QUEUED" ELSE @]
          /\ NextRow(i)
    /\ UNCHANGED <<attempt, outbox, queues, slot, faults>>

\* mark_published: row to PUBLISHED, and the job to QUEUED unless a consumer
\* has already moved it on.
MarkPublished ==
    /\ publisher.step = "mark"
    /\ \E i \in publisher.batch :
          /\ IsCurrent(i)
          /\ outbox' = [outbox EXCEPT ![i] = [job |-> @.job, published |-> TRUE]]
          /\ status' = [status EXCEPT ![outbox[i].job] =
                           IF @ = "PENDING" THEN "QUEUED" ELSE @]
          /\ NextRow(i)
    /\ UNCHANGED <<attempt, queues, slot, faults>>

\* mark_published raised: handled like a failed publish, the row stays PENDING.
MarkFailed ==
    /\ publisher.step = "mark"
    /\ Fault("mark")
    /\ \E i \in publisher.batch : IsCurrent(i) /\ NextRow(i)
    /\ UNCHANGED <<jobVars, queues, slot>>

-----------------------------------------------------------------------------
(* IndexConsumer.consume *)

At(s, pc) == slot[s].pc = pc

Task(pc, j, n) == [pc |-> pc, job |-> j, attempt |-> n]

Goto(s, pc) == slot' = [slot EXCEPT ![s] = Task(pc, slot[s].job, slot[s].attempt)]

Deliver(s, j) ==
    /\ slot[s] = Free
    /\ main[j] > 0
    /\ main' = [main EXCEPT ![j] = @ - 1]
    /\ slot' = [slot EXCEPT ![s] = Task("received", j, 0)]
    /\ UNCHANGED <<jobVars, publisher, retry, dead, faults>>

\* start() found a terminal job: nothing to do but acknowledge.
StartReplay(s) ==
    /\ At(s, "received")
    /\ status[slot[s].job] \in Done
    /\ Goto(s, "ack")
    /\ UNCHANGED <<jobVars, publisher, queues, faults>>

\* Mutant: start() without the check for terminal states.
StartAnyStatus(s) ==
    LET j == slot[s].job IN
    /\ At(s, "received")
    /\ attempt[j] < MaxAttempts
    /\ status' = [status EXCEPT ![j] = "RUNNING"]
    /\ attempt' = [attempt EXCEPT ![j] = @ + 1]
    /\ slot' = [slot EXCEPT ![s] = Task("handling", j, attempt[j] + 1)]
    /\ UNCHANGED <<outbox, publisher, queues, faults>>

\* Mutant: start() without the validator on attempt_count.
StartAnyAttempt(s) ==
    LET j == slot[s].job IN
    /\ At(s, "received")
    /\ status[j] \notin Done
    /\ status' = [status EXCEPT ![j] = "RUNNING"]
    /\ attempt' = [attempt EXCEPT ![j] = @ + 1]
    /\ slot' = [slot EXCEPT ![s] = Task("handling", j, attempt[j] + 1)]
    /\ UNCHANGED <<outbox, publisher, queues, faults>>

\* start() takes the job, FAILED jobs included, and counts the attempt.
Start(s) ==
    LET j == slot[s].job IN
    /\ At(s, "received")
    /\ status[j] \notin Done
    /\ attempt[j] < MaxAttempts
    /\ status' = [status EXCEPT ![j] = "RUNNING"]
    /\ attempt' = [attempt EXCEPT ![j] = @ + 1]
    /\ slot' = [slot EXCEPT ![s] = Task("handling", j, attempt[j] + 1)]
    /\ UNCHANGED <<outbox, publisher, queues, faults>>

\* The attempts are used up: IndexJobRecord.validate_attempts raises inside
\* the transaction, which rolls back, and the exception leaves consume().
StartOverrun(s) ==
    /\ At(s, "received")
    /\ status[slot[s].job] \notin Done
    /\ attempt[slot[s].job] = MaxAttempts
    /\ Goto(s, "hung")
    /\ UNCHANGED <<jobVars, publisher, queues, faults>>

\* handle() returned and finish() committed its status.
Finish(s, result) ==
    /\ At(s, "handling")
    /\ status' = [status EXCEPT ![slot[s].job] = result]
    /\ Goto(s, "finished")
    /\ UNCHANGED <<attempt, outbox, publisher, queues, faults>>

\* handle() raised StaleIndexEventError.
FinishStale(s) ==
    /\ At(s, "handling")
    /\ status' = [status EXCEPT ![slot[s].job] = "STALE"]
    /\ Goto(s, "ack")
    /\ UNCHANGED <<attempt, outbox, publisher, queues, faults>>

\* Mutant: the last attempt is retried once more.
should_dead_letter_late(attempt_count, retryable) ==
    ~retryable \/ attempt_count > MaxAttempts

should_dead_letter(attempt_count, retryable) ==
    ~retryable \/ attempt_count >= MaxAttempts

\* The except branch up to the commit of fail(): the status it writes does not
\* depend on the one it finds.
Fail(s, retryable) ==
    LET isDead == should_dead_letter(slot[s].attempt, retryable) IN
    /\ status' = [status EXCEPT ![slot[s].job] =
                     IF isDead THEN "FAILED" ELSE "QUEUED"]
    /\ Goto(s, IF isDead THEN "bury" ELSE "requeue")
    /\ UNCHANGED <<attempt, outbox, publisher, queues>>

HandlerRaises(s, retryable) ==
    /\ At(s, "handling")
    /\ Fail(s, retryable)
    /\ UNCHANGED faults

\* finish() raised: the handler's work is done, the except branch retries it.
FinishFails(s) ==
    /\ At(s, "handling")
    /\ Fault("database")
    /\ Fail(s, TRUE)

\* ack() raised inside the try block: a finished job is failed.
AckFailsInTry(s) ==
    /\ At(s, "finished")
    /\ Fault("ack")
    /\ Fail(s, TRUE)

Requeue(s) ==
    /\ At(s, "requeue")
    /\ retry' = [retry EXCEPT ![slot[s].job] = @ + 1]
    /\ Goto(s, "ack")
    /\ UNCHANGED <<jobVars, publisher, main, dead, faults>>

Bury(s) ==
    /\ At(s, "bury")
    /\ dead' = [dead EXCEPT ![slot[s].job] = @ + 1]
    /\ Goto(s, "ack")
    /\ UNCHANGED <<jobVars, publisher, main, retry, faults>>

Ack(s) ==
    /\ slot[s].pc \in {"finished", "ack"}
    /\ slot' = [slot EXCEPT ![s] = Free]
    /\ UNCHANGED <<jobVars, publisher, queues, faults>>

\* A transaction (start, or fail after a handler error) or a broker call
\* outside the try block raised: the exception leaves consume().
CallbackRaises(s) ==
    /\ \/ At(s, "received") /\ Fault("database")
       \/ At(s, "handling") /\ Fault("database")
       \/ slot[s].pc \in {"requeue", "bury"} /\ Fault("republish")
       \/ At(s, "ack") /\ Fault("ack")
    /\ Goto(s, "hung")
    /\ UNCHANGED <<jobVars, publisher, queues>>

\* The publish timed out, but the broker has the copy.
RepublishUnconfirmed(s) ==
    /\ Fault("republish")
    /\ \/ /\ At(s, "requeue")
          /\ retry' = [retry EXCEPT ![slot[s].job] = @ + 1]
          /\ UNCHANGED dead
       \/ /\ At(s, "bury")
          /\ dead' = [dead EXCEPT ![slot[s].job] = @ + 1]
          /\ UNCHANGED retry
    /\ Goto(s, "hung")
    /\ UNCHANGED <<jobVars, publisher, main>>

-----------------------------------------------------------------------------
(* The broker *)

\* x-message-ttl: an expired message is dead-lettered to the main queue.
RetryExpires(j) ==
    /\ retry[j] > 0
    /\ retry' = [retry EXCEPT ![j] = @ - 1]
    /\ main' = [main EXCEPT ![j] = @ + 1]
    /\ UNCHANGED <<jobVars, publisher, dead, slot, faults>>

Unacked(j) == {s \in Slots : slot[s].pc \in Pc /\ slot[s].job = j}

\* The channel is gone: the broker requeues every unacknowledged delivery and
\* the client cancels the callbacks that were running on it.
DropChannel ==
    /\ main' = [j \in Jobs |-> main[j] + Cardinality(Unacked(j))]
    /\ slot' = [s \in Slots |-> Free]
    /\ UNCHANGED <<jobVars, retry, dead>>

\* The robust connection reconnects; the publisher loop goes on.
ConnectionLost ==
    /\ Fault("connection")
    /\ DropChannel
    /\ UNCHANGED publisher

\* The worker process dies and is restarted.
Crash ==
    /\ Fault("crash")
    /\ DropChannel
    /\ publisher' = Idle

-----------------------------------------------------------------------------
Request == \E j \in Jobs : AddJob(j) \/ Retry(j)

Publisher ==
    \/ ReadOutbox
    \/ PublishConfirmed
    \/ MarkPublished

PublisherFault == PublishRefused \/ PublishUnconfirmed \/ MarkFailed

Consumer(s) ==
    \/ StartReplay(s)
    \/ Start(s)
    \/ StartOverrun(s)
    \/ \E result \in Results : Finish(s, result)
    \/ FinishStale(s)
    \/ \E retryable \in BOOLEAN : HandlerRaises(s, retryable)
    \/ Requeue(s)
    \/ Bury(s)
    \/ Ack(s)

ConsumerFault(s) ==
    \/ FinishFails(s)
    \/ AckFailsInTry(s)
    \/ CallbackRaises(s)
    \/ RepublishUnconfirmed(s)

Next ==
    \/ Request
    \/ Publisher
    \/ PublisherFault
    \/ \E s \in Slots, j \in Jobs : Deliver(s, j)
    \/ \E s \in Slots : Consumer(s) \/ ConsumerFault(s)
    \/ \E j \in Jobs : RetryExpires(j)
    \/ ConnectionLost
    \/ Crash

\* The publisher polls forever, the broker delivers what is queued and expires
\* what has waited, and a callback that can go on does.
Fairness ==
    /\ WF_vars(Publisher)
    /\ \A j \in Jobs : WF_vars(\E s \in Slots : Deliver(s, j))
    /\ \A s \in Slots : WF_vars(Consumer(s))
    /\ \A j \in Jobs : WF_vars(RetryExpires(j))

Spec == Init /\ [][Next]_vars /\ Fairness

-----------------------------------------------------------------------------
(* Properties *)

\* Every variable has its type; a batch holds rows of the outbox that are still
\* pending, and an idle publisher has none.
TypeOK ==
    /\ status \in [Jobs -> IndexJobStatus \cup {"NONE"}]
    /\ attempt \in [Jobs -> 0..MaxAttempts]
    /\ outbox \in Seq(Row)
    /\ publisher \in [step : {"idle", "publish", "mark"}, batch : SUBSET PendingRows]
    /\ publisher.step = "idle" => publisher.batch = {}
    /\ main \in [Jobs -> Nat] /\ retry \in [Jobs -> Nat] /\ dead \in [Jobs -> Nat]
    /\ slot \in [Slots -> Delivery \cup {Free}]
    /\ faults \in 0..MaxFaults

\* A delivery whose message will come back, be copied to another queue, or
\* stays with the broker.
Holding == {"received", "handling", "requeue", "hung"}

\* A row the publisher has sent and is about to mark no longer promises a message.
BeingMarked(i) == publisher.step = "mark" /\ IsCurrent(i)

Holders(j) == {s \in Slots : slot[s].pc \in Holding /\ slot[s].job = j}

InFlight(j) == main[j] > 0 \/ retry[j] > 0 \/ Holders(j) # {}

UnsentRows(j) == {i \in PendingRows : outbox[i].job = j /\ ~BeingMarked(i)}

WillBePublished(j) == UnsentRows(j) # {}

\* No job is forgotten: while its row in MySQL says there is work to do, an
\* outbox row will still be published for it or the broker holds a message for
\* it.  Every acknowledgement, every mark_published and every crash between two
\* of the repository's transactions could break this.
NoLostJob == \A j \in Jobs : status[j] \in Owed => InFlight(j) \/ WillBePublished(j)

\* A job is given up loudly: the job row says FAILED only if a copy of the
\* message is in the dead queue for the operator, or is still on its way there.
NoSilentFailure ==
    \A j \in Jobs : status[j] = "FAILED" =>
        \/ dead[j] > 0
        \/ InFlight(j)
        \/ \E s \in Slots : At(s, "bury") /\ slot[s].job = j

\* No job is forgotten and none is given up in silence, whatever fails between two
\* transactions, publishes or acknowledgements.
JobsKept == NoLostJob /\ NoSilentFailure

\* A finished job is only ever reopened by a delivery that was already running
\* it (a duplicate that started before the first one finished, or an ack that
\* raised), never by a message that arrives afterwards: start() filters those.
DoneReopenedOnlyByOverlap ==
    [][\A j \in Jobs : status[j] \in Done /\ status'[j] \notin Done =>
          \E s \in Slots : /\ slot[s].pc \in {"handling", "finished"}
                           /\ slot[s].job = j
                           /\ slot'[s].pc \in {"requeue", "bury"}]_vars

\* While no message is duplicated (the only failures are publishes the broker
\* refused), a job that is owed has exactly one message, in the outbox, in a
\* queue or with a delivery, and a settled job has none: no two deliveries ever
\* work on the same job, and none arrives late.
OneMessage ==
    \A j \in Jobs :
        Cardinality(UnsentRows(j)) + main[j] + retry[j] + Cardinality(Holders(j))
            = IF status[j] \in Owed THEN 1 ELSE 0

-----------------------------------------------------------------------------
(* Refinement *)

\* The ledger the job rows stand for.
Ledger == [j \in Jobs |->
              CASE status[j] = "NONE" -> "absent"
                [] status[j] \in Owed -> "owed"
                [] status[j] \in Done -> "done"
                [] status[j] = "FAILED" -> "failed"]

Contract == INSTANCE IndexJobs WITH ledger <- Ledger

\* While no message is duplicated (the only failures are publishes the broker
\* refused), the pipeline keeps the contract of IndexJobs: a finished job stays
\* finished, and every job is settled.
ImplementsIndexJobs == Contract!Spec
=============================================================================
