------------------------ MODULE IndexPipelineProofs ------------------------
(***************************************************************************)
(* Theorems about IndexPipeline, for every number of jobs, deliveries,     *)
(* attempts and failures: types, no lost job, no late reopening and, while *)
(* nothing duplicates a message, the safety part of IndexJobs.             *)
(***************************************************************************)
EXTENDS IndexPipeline, FiniteSetTheorems, TLAPS

\* The loop's next step is well formed, and only ever forgets rows.
LEMMA NextRowType ==
    ASSUME NEW P, publisher \in [step : {"idle", "publish", "mark"}, batch : SUBSET P],
           NEW i \in publisher.batch, NextRow(i)
    PROVE  /\ publisher' \in [step : {"idle", "publish"}, batch : SUBSET (P \ {i})]
           /\ publisher'.batch = publisher.batch \ {i}
           /\ publisher'.step = "idle" => publisher'.batch = {}
BY DEF NextRow, Idle

\* What the broker holds unacknowledged for a job is a finite number of messages.
LEMMA UnackedCount ==
    ASSUME NEW j \in Jobs
    PROVE  /\ Cardinality(Unacked(j)) \in Nat
           /\ Cardinality(Unacked(j)) > 0 <=> Unacked(j) # {}
<1>1. IsFiniteSet(Unacked(j))
  BY SlotsAssumption, FS_Subset DEF Unacked
<1> QED
  BY <1>1, FS_CardinalityType, FS_EmptySet

\* One more row, at the end.
LEMMA AppendRow ==
    ASSUME outbox \in Seq(Row), NEW j \in Jobs,
           outbox' = Append(outbox, [job |-> j, published |-> FALSE])
    PROVE  /\ outbox' \in Seq(Row)
           /\ Rows' = Rows \cup {Len(outbox) + 1}
           /\ \A i \in Rows : outbox'[i] = outbox[i]
           /\ outbox'[Len(outbox) + 1] = [job |-> j, published |-> FALSE]
           /\ PendingRows \subseteq PendingRows'
BY DEF Row, Rows, PendingRows

\* Overwriting one element of a sequence.
LEMMA ReplaceElement ==
    ASSUME NEW S, NEW q \in Seq(S), NEW i \in 1..Len(q), NEW e \in S
    PROVE  /\ [q EXCEPT ![i] = e] \in Seq(S)
           /\ DOMAIN [q EXCEPT ![i] = e] = 1..Len(q)
           /\ [q EXCEPT ![i] = e][i] = e
           /\ \A k \in 1..Len(q) : k # i => [q EXCEPT ![i] = e][k] = q[k]
OBVIOUS

\* Marking a row published only removes it from the pending ones.
LEMMA PublishRow ==
    ASSUME outbox \in Seq(Row), NEW i \in PendingRows,
           outbox' = [outbox EXCEPT ![i] = [job |-> @.job, published |-> TRUE]]
    PROVE  /\ outbox' \in Seq(Row)
           /\ PendingRows' = PendingRows \ {i}
           /\ \A k \in Rows : outbox'[k].job = outbox[k].job
<1> DEFINE marked == [job |-> outbox[i].job, published |-> TRUE]
<1>1. i \in 1..Len(outbox) /\ outbox[i] \in Row
  BY DEF Rows, PendingRows
<1>2. marked \in Row /\ marked.job = outbox[i].job /\ marked.published
  BY <1>1 DEF Row
<1>3. outbox' = [outbox EXCEPT ![i] = marked]
  OBVIOUS
<1> HIDE DEF marked
<1>4. /\ outbox' \in Seq(Row) /\ DOMAIN outbox' = 1..Len(outbox)
      /\ outbox'[i] = marked
      /\ \A k \in 1..Len(outbox) : k # i => outbox'[k] = outbox[k]
  <2>1. /\ [outbox EXCEPT ![i] = marked] \in Seq(Row)
        /\ DOMAIN [outbox EXCEPT ![i] = marked] = 1..Len(outbox)
        /\ [outbox EXCEPT ![i] = marked][i] = marked
        /\ \A k \in 1..Len(outbox) : k # i => [outbox EXCEPT ![i] = marked][k] = outbox[k]
    BY <1>1, <1>2, ReplaceElement
  <2> QED
    BY <1>3, <2>1, Zenon
<1>5. Rows = 1..Len(outbox) /\ Rows' = Rows
  BY <1>4 DEF Rows
<1>6. \A k \in Rows : outbox'[k].job = outbox[k].job
  BY <1>2, <1>4, <1>5
<1>7. PendingRows' = PendingRows \ {i}
  BY <1>2, <1>4, <1>5 DEF PendingRows
<1> QED
  BY <1>4, <1>6, <1>7

\* A row of the publisher's batch names a job.
LEMMA RowJob ==
    ASSUME TypeOK, NEW i \in publisher.batch
    PROVE  i \in PendingRows /\ outbox[i].job \in Jobs
<1>1. i \in PendingRows
  BY DEF TypeOK
<1>2. outbox[i] \in Row
  BY <1>1 DEF TypeOK, PendingRows, Rows
<1> QED
  BY <1>1, <1>2 DEF Row

\* The steps of a consumer callback that leave the outbox and the publisher
\* alone keep the types if what they write has its type.
LEMMA ConsumerType ==
    ASSUME TypeOK, NEW s \in Slots, Consumer(s) \/ ConsumerFault(s)
    PROVE  TypeOK'
<1> USE AttemptsAssumption, BoundsAssumption
<1>0. slot[s].pc \in Pc
  BY DEF Consumer, ConsumerFault, StartReplay, Start, StartOverrun, Finish,
     FinishStale, HandlerRaises, Requeue, Bury, Ack, FinishFails, AckFailsInTry,
     CallbackRaises, RepublishUnconfirmed, At, Pc
<1>1. /\ slot[s] \in Delivery
      /\ slot[s].job \in Jobs
  BY <1>0 DEF TypeOK, Free, Pc, Delivery
<1>2. UNCHANGED <<outbox, publisher>> /\ PendingRows' = PendingRows
  BY DEF Consumer, ConsumerFault, StartReplay, Start, StartOverrun, Finish,
     FinishStale, HandlerRaises, Requeue, Bury, Ack, FinishFails, AckFailsInTry,
     CallbackRaises, RepublishUnconfirmed, Fail, jobVars, PendingRows, Rows
<1>3. slot' \in [Slots -> Delivery \cup {Free}]
  <2>1. ASSUME NEW pc \in Pc, Goto(s, pc) PROVE slot' \in [Slots -> Delivery \cup {Free}]
    <3>1. Task(pc, slot[s].job, slot[s].attempt) \in Delivery
      BY <1>1 DEF Delivery, Task
    <3> QED
      BY <3>1, <2>1 DEF Goto, TypeOK
  <2>2. CASE Start(s)
    <3>1. Task("handling", slot[s].job, attempt[slot[s].job] + 1) \in Delivery
      BY <1>1, <2>2 DEF Start, TypeOK, Delivery, Pc, Task
    <3> QED
      BY <2>2, <3>1 DEF Start, TypeOK
  <2>3. CASE Ack(s)
    BY <2>3 DEF Ack, TypeOK
  <2>4. ASSUME NEW retryable \in BOOLEAN, Fail(s, retryable)
        PROVE  slot' \in [Slots -> Delivery \cup {Free}]
    BY <2>1, <2>4 DEF Fail, Pc
  <2> QED
    BY <2>1, <2>2, <2>3, <2>4 DEF Consumer, ConsumerFault, StartReplay, StartOverrun, Finish,
       FinishStale, HandlerRaises, Requeue, Bury, FinishFails, AckFailsInTry,
       CallbackRaises, RepublishUnconfirmed, Pc
<1>4. status' \in [Jobs -> IndexJobStatus \cup {"NONE"}]
  <2>1. \/ status' = status
        \/ \E v \in IndexJobStatus : status' = [status EXCEPT ![slot[s].job] = v]
    BY ResultsAssumption
    DEF IndexJobStatus, Owed, Done, Consumer, ConsumerFault, StartReplay, Start,
       StartOverrun, Finish, FinishStale, HandlerRaises, Requeue, Bury, Ack,
       FinishFails, AckFailsInTry, CallbackRaises, RepublishUnconfirmed, Fail, jobVars
  <2> QED
    BY <1>1, <2>1 DEF TypeOK
<1>5. attempt' \in [Jobs -> 0..MaxAttempts]
  <2>1. CASE Start(s)
    BY <1>1, <2>1 DEF Start, TypeOK
  <2>2. CASE attempt' = attempt
    BY <2>2 DEF TypeOK
  <2> QED
    BY <2>1, <2>2
    DEF Consumer, ConsumerFault, StartReplay, StartOverrun, Finish, FinishStale,
       HandlerRaises, Requeue, Bury, Ack, FinishFails, AckFailsInTry,
       CallbackRaises, RepublishUnconfirmed, Fail, jobVars
<1>7. faults' \in 0..MaxFaults
  <2>1. faults' = faults \/ \E kind \in FaultKinds : Fault(kind)
    BY DEF Consumer, ConsumerFault, StartReplay, Start, StartOverrun, Finish,
       FinishStale, HandlerRaises, Requeue, Bury, Ack, FinishFails, AckFailsInTry,
       CallbackRaises, RepublishUnconfirmed, Fault
  <2> QED
    BY <2>1 DEF Fault, TypeOK
<1>6. main' \in [Jobs -> Nat] /\ retry' \in [Jobs -> Nat] /\ dead' \in [Jobs -> Nat]
  <2>1. CASE UNCHANGED queues
    BY <2>1 DEF TypeOK, queues
  <2>2. [retry EXCEPT ![slot[s].job] = @ + 1] \in [Jobs -> Nat]
    BY <1>1 DEF TypeOK
  <2>3. [dead EXCEPT ![slot[s].job] = @ + 1] \in [Jobs -> Nat]
    BY <1>1 DEF TypeOK
  <2>4. CASE Requeue(s)
    BY <2>2, <2>4 DEF Requeue, TypeOK
  <2>5. CASE Bury(s)
    BY <2>3, <2>5 DEF Bury, TypeOK
  <2>6. CASE RepublishUnconfirmed(s)
    BY <2>2, <2>3, <2>6 DEF RepublishUnconfirmed, TypeOK
  <2> QED
    BY <2>1, <2>4, <2>5, <2>6
    DEF Consumer, ConsumerFault, StartReplay, Start, StartOverrun, Finish, FinishStale,
       HandlerRaises, Ack, FinishFails, AckFailsInTry, CallbackRaises, Fail
<1> QED
  BY <1>2, <1>3, <1>4, <1>5, <1>6, <1>7 DEF TypeOK

\* Init establishes the types, every step keeps them.
THEOREM TypeCorrect == Spec => []TypeOK
<1>1. Init => TypeOK
  BY AttemptsAssumption, BoundsAssumption
  DEF Init, TypeOK, IndexJobStatus, Idle, Free, PendingRows, Rows
<1>2. TypeOK /\ [Next]_vars => TypeOK'
  <2> SUFFICES ASSUME TypeOK, [Next]_vars PROVE TypeOK'
    OBVIOUS
  <2> USE AttemptsAssumption, BoundsAssumption
  <2>1. ASSUME NEW j \in Jobs, AddJob(j) PROVE TypeOK'
    <3>1. /\ outbox' \in Seq(Row)
          /\ PendingRows \subseteq PendingRows'
      BY <2>1, AppendRow DEF AddJob, TypeOK
    <3>2. publisher' \in [step : {"idle", "publish", "mark"}, batch : SUBSET PendingRows']
      BY <2>1, <3>1 DEF AddJob, TypeOK
    <3> QED
      BY <2>1, <3>1, <3>2 DEF AddJob, TypeOK, IndexJobStatus, Owed, queues
  <2>2. ASSUME NEW j \in Jobs, Retry(j) PROVE TypeOK'
    <3>1. /\ outbox' \in Seq(Row)
          /\ PendingRows \subseteq PendingRows'
      BY <2>2, AppendRow DEF Retry, TypeOK
    <3>2. publisher' \in [step : {"idle", "publish", "mark"}, batch : SUBSET PendingRows']
      BY <2>2, <3>1 DEF Retry, TypeOK
    <3> QED
      BY <2>2, <3>1, <3>2 DEF Retry, TypeOK, IndexJobStatus, Owed, queues
  <2>3. CASE ReadOutbox
    BY <2>3 DEF ReadOutbox, TypeOK, jobVars, queues, PendingRows, Rows, PendingOutbox
  <2>4. CASE PublishConfirmed
    <3>1. main' \in [Jobs -> Nat]
      BY <2>4, RowJob DEF PublishConfirmed, TypeOK
    <3>2. publisher' \in [step : {"mark"}, batch : SUBSET PendingRows]
      BY <2>4 DEF PublishConfirmed, TypeOK
    <3>3. PendingRows' = PendingRows
      BY <2>4 DEF PublishConfirmed, jobVars, PendingRows, Rows
    <3> QED
      BY <2>4, <3>1, <3>2, <3>3 DEF PublishConfirmed, TypeOK, jobVars
  <2>5. CASE PublishRefused
    <3>1. /\ publisher' \in [step : {"idle", "publish"}, batch : SUBSET PendingRows]
          /\ publisher'.step = "idle" => publisher'.batch = {}
      BY <2>5, NextRowType DEF PublishRefused, TypeOK
    <3>2. PendingRows' = PendingRows
      BY <2>5 DEF PublishRefused, jobVars, PendingRows, Rows
    <3> QED
      BY <2>5, <3>1, <3>2 DEF PublishRefused, Fault, TypeOK, jobVars, queues
  <2>6. CASE PublishUnconfirmed
    <3>1. main' \in [Jobs -> Nat]
      BY <2>6, RowJob DEF PublishUnconfirmed, TypeOK
    <3>2. /\ publisher' \in [step : {"idle", "publish"}, batch : SUBSET PendingRows]
          /\ publisher'.step = "idle" => publisher'.batch = {}
      BY <2>6, NextRowType DEF PublishUnconfirmed, TypeOK
    <3>3. PendingRows' = PendingRows
      BY <2>6 DEF PublishUnconfirmed, jobVars, PendingRows, Rows
    <3> QED
      BY <2>6, <3>1, <3>2, <3>3 DEF PublishUnconfirmed, Fault, TypeOK, jobVars
  <2>7. CASE MarkPublished
    <3>1. PICK i \in publisher.batch :
             /\ outbox' = [outbox EXCEPT ![i] = [job |-> @.job, published |-> TRUE]]
             /\ status' = [status EXCEPT ![outbox[i].job] =
                              IF @ = "PENDING" THEN "QUEUED" ELSE @]
             /\ NextRow(i)
      BY <2>7 DEF MarkPublished
    <3>2. outbox' \in Seq(Row) /\ PendingRows' = PendingRows \ {i}
      BY <3>1, PublishRow DEF TypeOK
    <3>3. /\ publisher' \in [step : {"idle", "publish"}, batch : SUBSET PendingRows']
          /\ publisher'.step = "idle" => publisher'.batch = {}
      BY <3>1, <3>2, NextRowType DEF TypeOK
    <3>4. status' \in [Jobs -> IndexJobStatus \cup {"NONE"}]
      BY <3>1, RowJob DEF TypeOK, IndexJobStatus, Owed
    <3> QED
      BY <2>7, <3>2, <3>3, <3>4 DEF MarkPublished, TypeOK, queues
  <2>8. CASE MarkFailed
    <3>1. /\ publisher' \in [step : {"idle", "publish"}, batch : SUBSET PendingRows]
          /\ publisher'.step = "idle" => publisher'.batch = {}
      BY <2>8, NextRowType DEF MarkFailed, TypeOK
    <3>2. PendingRows' = PendingRows
      BY <2>8 DEF MarkFailed, jobVars, PendingRows, Rows
    <3> QED
      BY <2>8, <3>1, <3>2 DEF MarkFailed, Fault, TypeOK, jobVars, queues
  <2>9. ASSUME NEW s \in Slots, NEW j \in Jobs, Deliver(s, j) PROVE TypeOK'
    BY <2>9 DEF Deliver, Task, TypeOK, jobVars, PendingRows, Rows, Delivery, Pc
  <2>10. ASSUME NEW s \in Slots, Consumer(s) PROVE TypeOK'
    BY <2>10, ConsumerType DEF Consumer, HandlerRaises
  <2>11. ASSUME NEW s \in Slots, ConsumerFault(s) PROVE TypeOK'
    BY <2>11, ConsumerType DEF ConsumerFault
  <2>12. ASSUME NEW j \in Jobs, RetryExpires(j) PROVE TypeOK'
    BY <2>12 DEF RetryExpires, TypeOK, jobVars, PendingRows, Rows
  <2>13. CASE ConnectionLost
    BY <2>13, UnackedCount
    DEF ConnectionLost, DropChannel, Fault, TypeOK, jobVars, PendingRows, Rows
  <2>14. CASE Crash
    BY <2>14, UnackedCount
    DEF Crash, DropChannel, Fault, TypeOK, jobVars, PendingRows, Rows, Idle
  <2>15. CASE UNCHANGED vars
    BY <2>15 DEF vars, TypeOK, PendingRows, Rows
  <2> QED
    BY <2>1, <2>2, <2>3, <2>4, <2>5, <2>6, <2>7, <2>8, <2>9, <2>10, <2>11, <2>12,
       <2>13, <2>14, <2>15
    DEF Next, Request, Publisher, PublisherFault
<1> QED
  BY <1>1, <1>2, PTL DEF Spec

-----------------------------------------------------------------------------
(* No job is lost *)

\* While the outbox stands and the publisher does not start marking a row, what
\* will be published still will be.
LEMMA StillPublished ==
    ASSUME outbox' = outbox, publisher' = publisher \/ publisher'.step # "mark",
           NEW j \in Jobs, WillBePublished(j)
    PROVE  WillBePublished(j)'
BY DEF WillBePublished, UnsentRows, PendingRows, Rows, BeingMarked, IsCurrent

\* The copies a step makes of its message.
Copies(j, toRetry, toDead) ==
    retry'[j] = retry[j] + toRetry /\ dead'[j] = dead[j] + toDead

Moves(s, from, to) == slot[s].pc \in from /\ slot'[s].pc \in to

\* What one step of a consumer callback does to its own delivery, of job j:
\* acknowledge it,
Drops(s, j) ==
    Moves(s, {"finished", "ack"}, {"free"}) /\ status'[j] = status[j] /\ Copies(j, 0, 0)
\* recognise it as a replay of a finished job,
Replays(s, j) ==
    /\ Moves(s, {"received"}, {"ack"})
    /\ status[j] \in Done /\ status'[j] = status[j] /\ Copies(j, 0, 0)
\* start the job,
Begins(s, j) ==
    /\ Moves(s, {"received"}, {"handling"})
    /\ status[j] \notin Done /\ status'[j] = "RUNNING" /\ Copies(j, 0, 0)
\* die with the message unacknowledged,
Hangs(s, j) ==
    /\ Moves(s, {"received", "handling", "requeue", "bury", "ack"}, {"hung"})
    /\ status'[j] = status[j] /\ Copies(j, 0, 0)
\* finish the job,
Completes(s, j) ==
    Moves(s, {"handling"}, {"finished", "ack"}) /\ status'[j] \in Done /\ Copies(j, 0, 0)
\* fail it, to be tried again or given up,
Fails(s, j) ==
    /\ \/ Moves(s, {"handling", "finished"}, {"requeue"}) /\ status'[j] = "QUEUED"
       \/ Moves(s, {"handling", "finished"}, {"bury"}) /\ status'[j] = "FAILED"
    /\ Copies(j, 0, 0)
\* or copy the message to the retry or to the dead queue.
Forwards(s, j) ==
    /\ status'[j] = status[j]
    /\ \/ Moves(s, {"requeue"}, {"ack", "hung"}) /\ Copies(j, 1, 0)
       \/ Moves(s, {"bury"}, {"ack", "hung"}) /\ Copies(j, 0, 1)

Move(s, j) ==
    \/ Drops(s, j) \/ Replays(s, j) \/ Begins(s, j) \/ Hangs(s, j)
    \/ Completes(s, j) \/ Fails(s, j) \/ Forwards(s, j)

\* What it does to everything else: nothing.
Frame(s, j) ==
    /\ \A t \in Slots \ {s} : slot'[t] = slot[t]
    /\ outbox' = outbox /\ publisher' = publisher /\ main' = main
    /\ \A k \in Jobs \ {j} : status'[k] = status[k] /\ Copies(k, 0, 0)
    /\ slot'[s].pc # "free" => slot'[s].job = j

\* Every step of a consumer callback is one of these moves, within its frame.
LEMMA ConsumerMoves ==
    ASSUME TypeOK, NEW s \in Slots, Consumer(s) \/ ConsumerFault(s),
           NEW j, j = slot[s].job
    PROVE  j \in Jobs /\ Frame(s, j) /\ Move(s, j)
<1>1. slot[s].pc \in Pc
  BY DEF Consumer, ConsumerFault, StartReplay, Start, StartOverrun, Finish,
     FinishStale, HandlerRaises, Requeue, Bury, Ack, FinishFails, AckFailsInTry,
     CallbackRaises, RepublishUnconfirmed, At, Pc
<1>2. j \in Jobs
  BY <1>1 DEF TypeOK, Free, Pc, Delivery
<1> USE DEF Frame, Move, Copies, Moves
<1>3. ASSUME NEW pc, Goto(s, pc)
      PROVE  /\ slot'[s].pc = pc /\ slot'[s].job = j
             /\ \A t \in Slots \ {s} : slot'[t] = slot[t]
  BY <1>3 DEF Goto, Task, TypeOK
<1>q. /\ \A k \in Jobs : retry[k] \in Nat /\ dead[k] \in Nat
      /\ status \in [Jobs -> IndexJobStatus \cup {"NONE"}]
      /\ retry \in [Jobs -> Nat] /\ dead \in [Jobs -> Nat]
      /\ slot \in [Slots -> Delivery \cup {Free}]
  BY DEF TypeOK
<1>4. CASE Ack(s)
  BY <1>2, <1>4, <1>q DEF Ack, Free, jobVars, queues, Drops
<1>5. CASE StartReplay(s)
  BY <1>2, <1>3, <1>5, <1>q DEF StartReplay, At, jobVars, queues, Replays
<1>5a. CASE StartOverrun(s)
  BY <1>2, <1>3, <1>5a, <1>q DEF StartOverrun, At, jobVars, queues, Hangs
<1>6. CASE Start(s)
  BY <1>2, <1>6, <1>q DEF Start, Task, At, queues, Begins
<1>7. ASSUME NEW result \in Results, Finish(s, result) PROVE status'[j] \in Done
  BY <1>2, <1>7, <1>q, ResultsAssumption DEF Finish, Done
<1>8. CASE \E result \in Results : Finish(s, result)
  <2> PICK result \in Results : Finish(s, result)
    BY <1>8
  <2>1. status'[j] \in Done
    BY <1>7
  <2> QED
    BY <1>2, <1>3, <1>q, <2>1 DEF Finish, At, queues, Completes
<1>9. CASE FinishStale(s)
  BY <1>2, <1>3, <1>9, <1>q DEF FinishStale, Done, At, queues, Completes
<1>10. ASSUME NEW retryable \in BOOLEAN, Fail(s, retryable)
       PROVE  /\ \A t \in Slots \ {s} : slot'[t] = slot[t]
              /\ slot'[s].job = j
              /\ \/ slot'[s].pc = "requeue" /\ status' = [status EXCEPT ![j] = "QUEUED"]
                 \/ slot'[s].pc = "bury" /\ status' = [status EXCEPT ![j] = "FAILED"]
              /\ UNCHANGED <<outbox, publisher, main, retry, dead>>
  BY <1>3, <1>10 DEF Fail, queues
<1>11. CASE \/ \E retryable \in BOOLEAN : HandlerRaises(s, retryable)
            \/ FinishFails(s) \/ AckFailsInTry(s)
  <2>1. slot[s].pc \in {"handling", "finished"} /\ \E retryable \in BOOLEAN : Fail(s, retryable)
    BY <1>11 DEF HandlerRaises, FinishFails, AckFailsInTry, At
  <2> QED
    BY <1>2, <1>10, <1>q, <2>1 DEF Fails
<1>12. CASE CallbackRaises(s)
  BY <1>2, <1>3, <1>12, <1>q DEF CallbackRaises, At, jobVars, queues, Hangs
<1>13. CASE Requeue(s)
  BY <1>2, <1>3, <1>13, <1>q DEF Requeue, At, jobVars, Forwards
<1>14. CASE Bury(s)
  BY <1>2, <1>3, <1>14, <1>q DEF Bury, At, jobVars, Forwards
<1>15. CASE RepublishUnconfirmed(s)
  BY <1>2, <1>3, <1>15, <1>q DEF RepublishUnconfirmed, At, jobVars, Forwards
<1> QED
  BY <1>2, <1>4, <1>5, <1>5a, <1>6, <1>8, <1>9, <1>11, <1>12, <1>13, <1>14, <1>15
  DEF Consumer, ConsumerFault

\* The two promises for one job.
Buried(j) == \E t \in Slots : slot[t].pc = "bury" /\ slot[t].job = j

Kept(j) ==
    /\ status[j] \in Owed => InFlight(j) \/ WillBePublished(j)
    /\ status[j] = "FAILED" => dead[j] > 0 \/ InFlight(j) \/ Buried(j)

LEMMA KeptEach == JobsKept <=> \A j \in Jobs : Kept(j)
BY DEF JobsKept, NoLostJob, NoSilentFailure, Kept, Buried, At

\* A consumer callback never drops the last message of a job it still owes, nor
\* that of a job it gave up before the dead queue has a copy.
LEMMA ConsumerKeeps ==
    ASSUME TypeOK, NEW s \in Slots, Consumer(s) \/ ConsumerFault(s),
           NEW k \in Jobs, Kept(k)
    PROVE  Kept(k)'
<1>1. PICK j \in Jobs : j = slot[s].job /\ Frame(s, j) /\ Move(s, j)
  BY ConsumerMoves
<1>2. /\ retry[k] \in Nat /\ dead[k] \in Nat /\ main[k] \in Nat
      /\ retry'[k] \in {retry[k], retry[k] + 1} /\ dead'[k] \in {dead[k], dead[k] + 1}
  <2>1. retry[k] \in Nat /\ dead[k] \in Nat /\ main[k] \in Nat
    BY DEF TypeOK
  <2>2. Copies(k, 0, 0) \/ Copies(k, 1, 0) \/ Copies(k, 0, 1)
    BY <1>1 DEF Frame, Move, Drops, Replays, Begins, Hangs, Completes, Fails, Forwards
  <2> QED
    BY <2>1, <2>2 DEF Copies
<1>3. WillBePublished(k) => WillBePublished(k)'
  BY <1>1, StillPublished DEF Frame
<1>4. ASSUME NEW t \in Slots, t # s, slot[t].job = k
      PROVE  /\ slot[t].pc \in Holding => InFlight(k)'
             /\ slot[t].pc = "bury" => Buried(k)'
  BY <1>1, <1>4 DEF Frame, InFlight, Holders, Buried
<1>5. main[k] > 0 \/ retry[k] > 0 => InFlight(k)'
  <2>1. main' = main
    BY <1>1 DEF Frame
  <2> QED
    BY <1>2, <2>1 DEF InFlight, Holders
<1>6. CASE k # j
  <2>1. status'[k] = status[k]
    BY <1>1, <1>6 DEF Frame
  <2>2. InFlight(k) => InFlight(k)'
    BY <1>1, <1>4, <1>5, <1>6 DEF InFlight, Holders
  <2>3. Buried(k) => Buried(k)'
    BY <1>1, <1>4, <1>6 DEF Buried
  <2>4. dead[k] > 0 => dead'[k] > 0
    BY <1>2
  <2> QED
    BY <1>3, <2>1, <2>2, <2>3, <2>4 DEF Kept
<1>7. CASE k = j /\ Drops(s, j)
  BY <1>1, <1>2, <1>3, <1>4, <1>5, <1>7 DEF Kept, Drops, Moves, Copies, InFlight, Holders, Buried, Holding
<1>8. CASE k = j /\ Replays(s, j)
  BY <1>8 DEF Kept, Replays, Done, Owed
<1>9. CASE k = j /\ Begins(s, j)
  BY <1>1, <1>9 DEF Kept, Begins, Moves, InFlight, Holders, Holding, Frame
<1>10. CASE k = j /\ Hangs(s, j)
  BY <1>1, <1>10 DEF Kept, Hangs, Moves, InFlight, Holders, Holding, Frame
<1>11. CASE k = j /\ Completes(s, j)
  BY <1>11 DEF Kept, Completes, Done, Owed
<1>12. CASE k = j /\ Fails(s, j)
  BY <1>1, <1>12 DEF Kept, Fails, Moves, InFlight, Holders, Holding, Frame, Buried, Owed
<1>13. CASE k = j /\ Forwards(s, j)
  <2>1. CASE Moves(s, {"requeue"}, {"ack", "hung"}) /\ Copies(j, 1, 0)
    BY <1>2, <1>13, <2>1 DEF Kept, Copies, InFlight, Holders
  <2>2. CASE Moves(s, {"bury"}, {"ack", "hung"}) /\ Copies(j, 0, 1)
    <3>1. dead'[k] > 0
      BY <1>2, <1>13, <2>2 DEF Copies
    <3>2. InFlight(k) => InFlight(k)'
      BY <1>1, <1>4, <1>5, <1>13, <2>2 DEF InFlight, Holders, Moves, Holding
    <3> QED
      BY <1>3, <1>13, <3>1, <3>2 DEF Kept, Forwards, Owed
  <2> QED
    BY <1>13, <2>1, <2>2 DEF Forwards
<1> QED
  BY <1>1, <1>6, <1>7, <1>8, <1>9, <1>10, <1>11, <1>12, <1>13 DEF Move

\* Dropping the channel turns what was unacknowledged into queued messages.
LEMMA DropChannelKeeps ==
    ASSUME TypeOK, DropChannel, publisher' = publisher \/ publisher' = Idle,
           NEW k \in Jobs, Kept(k)
    PROVE  Kept(k)'
<1>1. /\ main[k] \in Nat /\ main' = [j \in Jobs |-> main[j] + Cardinality(Unacked(j))]
      /\ retry' = retry /\ dead' = dead /\ status' = status /\ outbox' = outbox
  BY DEF TypeOK, DropChannel, jobVars
<1>2. Unacked(k) # {} => main'[k] > 0
  BY <1>1, UnackedCount
<1>3. main[k] > 0 => main'[k] > 0
  BY <1>1, UnackedCount
<1>4. InFlight(k) \/ Buried(k) => InFlight(k)'
  BY <1>1, <1>2, <1>3 DEF InFlight, Holders, Buried, Holding, Unacked, Pc
<1>5. WillBePublished(k) => WillBePublished(k)'
  BY <1>1, StillPublished DEF Idle
<1> QED
  BY <1>1, <1>4, <1>5 DEF Kept

\* Neither does the publisher: it marks a row only once the broker has its message.
LEMMA PublisherKeeps ==
    ASSUME TypeOK, Publisher \/ PublisherFault, NEW k \in Jobs, Kept(k)
    PROVE  Kept(k)'
<1>1. /\ retry' = retry /\ dead' = dead /\ slot' = slot
      /\ Buried(k)' = Buried(k)
  BY DEF Publisher, PublisherFault, ReadOutbox, PublishConfirmed, MarkPublished,
     PublishRefused, PublishUnconfirmed, MarkFailed, queues, Buried
<1>2. CASE ReadOutbox \/ PublishRefused \/ MarkFailed
  <2>1. main' = main /\ status' = status /\ outbox' = outbox /\ publisher'.step # "mark"
    BY <1>2 DEF ReadOutbox, PublishRefused, MarkFailed, NextRow, Idle, queues, jobVars
  <2> QED
    BY <1>1, <2>1, StillPublished DEF Kept, InFlight, Holders
<1>3. CASE PublishConfirmed \/ PublishUnconfirmed
  <2>1. PICK i \in publisher.batch :
           IsCurrent(i) /\ main' = [main EXCEPT ![outbox[i].job] = @ + 1]
    BY <1>3 DEF PublishConfirmed, PublishUnconfirmed
  <2>2. /\ status' = status /\ outbox' = outbox
        /\ publisher'.step = "mark" => publisher'.batch = publisher.batch
    BY <1>3 DEF PublishConfirmed, PublishUnconfirmed, NextRow, Idle, jobVars
  <2>3. /\ main[k] \in Nat /\ main'[k] \in {main[k], main[k] + 1}
        /\ outbox[i].job = k => main'[k] > 0
    BY <2>1, RowJob DEF TypeOK
  <2>4. InFlight(k) => InFlight(k)'
    BY <1>1, <2>3 DEF InFlight, Holders
  <2>5. WillBePublished(k) => WillBePublished(k)' \/ InFlight(k)'
    <3> SUFFICES ASSUME NEW r \in PendingRows, outbox[r].job = k, r # i
                 PROVE  WillBePublished(k)'
      BY <2>3 DEF WillBePublished, UnsentRows, InFlight, Holders
    <3>1. ~BeingMarked(r)'
      <4>1. i \in Int /\ r \in Int
        BY <2>1, RowJob DEF TypeOK, PendingRows, Rows
      <4> QED
        BY <2>1, <2>2, <4>1 DEF BeingMarked, IsCurrent
    <3> QED
      BY <2>2, <3>1 DEF WillBePublished, UnsentRows, PendingRows, Rows
  <2> QED
    BY <1>1, <2>2, <2>4, <2>5 DEF Kept
<1>4. CASE MarkPublished
  <2>1. PICK i \in publisher.batch :
           /\ IsCurrent(i)
           /\ outbox' = [outbox EXCEPT ![i] = [job |-> @.job, published |-> TRUE]]
           /\ status' = [status EXCEPT ![outbox[i].job] =
                            IF @ = "PENDING" THEN "QUEUED" ELSE @]
           /\ NextRow(i)
    BY <1>4 DEF MarkPublished
  <2>2. /\ main' = main /\ publisher.step = "mark" /\ publisher'.step # "mark"
    BY <1>4, <2>1 DEF MarkPublished, queues, NextRow, Idle
  <2>3. /\ PendingRows' = PendingRows \ {i}
        /\ \A r \in Rows : outbox'[r].job = outbox[r].job
    BY <2>1, RowJob, PublishRow DEF TypeOK
  <2>4. WillBePublished(k) => WillBePublished(k)'
    BY <2>1, <2>2, <2>3 DEF WillBePublished, UnsentRows, BeingMarked, PendingRows
  <2>5. InFlight(k) => InFlight(k)'
    BY <1>1, <2>2 DEF InFlight, Holders
  <2>6. /\ status'[k] \in Owed => status[k] \in Owed
        /\ status'[k] = "FAILED" => status[k] = "FAILED"
    BY <2>1, RowJob DEF TypeOK, Owed
  <2> QED
    BY <1>1, <2>4, <2>5, <2>6 DEF Kept
<1> QED
  BY <1>2, <1>3, <1>4 DEF Publisher, PublisherFault

\* A request writes the job and the row that will publish it in one transaction.
LEMMA RequestKeeps ==
    ASSUME TypeOK, NEW j \in Jobs, AddJob(j) \/ Retry(j), NEW k \in Jobs, Kept(k)
    PROVE  Kept(k)'
<1>1. /\ outbox' = Append(outbox, [job |-> j, published |-> FALSE])
      /\ status' = [status EXCEPT ![j] = "PENDING"]
      /\ UNCHANGED <<publisher, main, retry, dead, slot>>
  BY DEF AddJob, Retry, queues
<1> DEFINE new == Len(outbox) + 1
<1>2. /\ Rows' = Rows \cup {new}
      /\ \A i \in Rows : outbox'[i] = outbox[i]
      /\ outbox'[new] = [job |-> j, published |-> FALSE]
      /\ PendingRows \subseteq PendingRows'
  BY <1>1, AppendRow DEF TypeOK
<1>3. \A i : BeingMarked(i)' <=> BeingMarked(i)
  BY <1>1 DEF BeingMarked, IsCurrent
<1>4. new \notin publisher.batch
  BY DEF TypeOK, PendingRows, Rows
<1>5. WillBePublished(j)'
  BY <1>2, <1>3, <1>4 DEF WillBePublished, UnsentRows, PendingRows, BeingMarked, IsCurrent
<1>6. WillBePublished(k) => WillBePublished(k)'
  BY <1>2, <1>3 DEF WillBePublished, UnsentRows, PendingRows
<1>7. (InFlight(k) => InFlight(k)') /\ (Buried(k) => Buried(k)')
  BY <1>1 DEF InFlight, Holders, Buried
<1>8. (k = j => status'[k] = "PENDING") /\ (k # j => status'[k] = status[k])
  BY <1>1 DEF TypeOK
<1> QED
  BY <1>1, <1>5, <1>6, <1>7, <1>8 DEF Kept

\* The broker only moves messages.
LEMMA BrokerKeeps ==
    ASSUME TypeOK, NEW j \in Jobs, RetryExpires(j) \/ \E s \in Slots : Deliver(s, j),
           NEW k \in Jobs, Kept(k)
    PROVE  Kept(k)'
<1>1. UNCHANGED <<status, outbox, publisher, dead>>
  BY DEF RetryExpires, Deliver, jobVars
<1>2. WillBePublished(k) => WillBePublished(k)'
  BY <1>1, StillPublished
<1>3. CASE RetryExpires(j)
  <2>1. InFlight(k) => InFlight(k)'
    BY <1>3 DEF RetryExpires, InFlight, Holders, TypeOK
  <2>2. Buried(k) => Buried(k)'
    BY <1>3 DEF RetryExpires, Buried
  <2> QED
    BY <1>1, <1>2, <2>1, <2>2 DEF Kept
<1>4. ASSUME NEW s \in Slots, Deliver(s, j) PROVE Kept(k)'
  <2>1. /\ slot[s].pc = "free" /\ slot'[s].pc = "received" /\ slot'[s].job = j
        /\ \A t \in Slots \ {s} : slot'[t] = slot[t]
        /\ retry' = retry /\ (k # j => main'[k] = main[k])
    BY <1>4 DEF Deliver, Task, Free, TypeOK
  <2>2. k = j => InFlight(k)'
    BY <2>1 DEF InFlight, Holders, Holding
  <2>3. k # j => (InFlight(k) => InFlight(k)')
    BY <2>1 DEF InFlight, Holders, Holding
  <2>4. Buried(k) => Buried(k)'
    BY <2>1 DEF Buried
  <2> QED
    BY <1>1, <1>2, <2>2, <2>3, <2>4 DEF Kept
<1> QED
  BY <1>3, <1>4

\* No job whose row asks for work is without a message or a row that will become
\* one, and no job is given up without a dead letter, whatever fails and however
\* often: the transactional outbox, publish before acknowledge, and fail() before
\* the dead letter are enough.  The two promises are inductive together with the
\* types; the row being marked is what the first must not count.
THEOREM JobsAreKept == Spec => []JobsKept
<1> DEFINE Inv == \A k \in Jobs : Kept(k)
<1>1. Init => Inv
  BY DEF Init, Kept, Owed
<1>2. TypeOK /\ Inv /\ [Next]_vars => Inv'
  <2> SUFFICES ASSUME TypeOK, [Next]_vars, NEW k \in Jobs, Kept(k) PROVE Kept(k)'
    OBVIOUS
  <2>1. CASE Request
    BY <2>1, RequestKeeps DEF Request
  <2>2. CASE Publisher \/ PublisherFault
    BY <2>2, PublisherKeeps
  <2>3. CASE \E s \in Slots, j \in Jobs : Deliver(s, j)
    BY <2>3, BrokerKeeps
  <2>4. CASE \E s \in Slots : Consumer(s) \/ ConsumerFault(s)
    BY <2>4, ConsumerKeeps
  <2>5. CASE \E j \in Jobs : RetryExpires(j)
    BY <2>5, BrokerKeeps
  <2>6. CASE ConnectionLost \/ Crash
    BY <2>6, DropChannelKeeps DEF ConnectionLost, Crash
  <2>7. CASE UNCHANGED vars
    BY <2>7 DEF vars, Kept, InFlight, Holders, Buried, WillBePublished, UnsentRows, PendingRows, Rows,
       BeingMarked, IsCurrent
  <2> QED
    BY <2>1, <2>2, <2>3, <2>4, <2>5, <2>6, <2>7 DEF Next
<1>3. Inv => JobsKept
  BY KeptEach
<1> QED
  BY <1>1, <1>2, <1>3, TypeCorrect, PTL DEF Spec

\* Only a delivery that was already at work on a finished job reopens it: start()
\* turns away every message that arrives later.
THEOREM DoneIsReopenedOnlyByOverlap == Spec => DoneReopenedOnlyByOverlap
<1> DEFINE Overlap ==
      \A j \in Jobs : status[j] \in Done /\ status'[j] \notin Done =>
          \E s \in Slots : /\ slot[s].pc \in {"handling", "finished"}
                           /\ slot[s].job = j
                           /\ slot'[s].pc \in {"requeue", "bury"}
<1>1. TypeOK /\ [Next]_vars => [Overlap]_vars
  <2> SUFFICES ASSUME TypeOK, [Next]_vars PROVE [Overlap]_vars
    OBVIOUS
  <2>1. CASE Request
    BY <2>1 DEF Request, AddJob, Retry, TypeOK, Done
  <2>2. CASE Publisher \/ PublisherFault
    <3>1. CASE status' = status
      BY <3>1
    <3>2. CASE MarkPublished
      <4>1. PICK i \in publisher.batch :
               status' = [status EXCEPT ![outbox[i].job] = IF @ = "PENDING" THEN "QUEUED" ELSE @]
        BY <3>2 DEF MarkPublished
      <4> QED
        BY <4>1, RowJob DEF TypeOK, Done
    <3> QED
      BY <2>2, <3>1, <3>2 DEF Publisher, PublisherFault, ReadOutbox, PublishConfirmed,
         PublishRefused, PublishUnconfirmed, MarkFailed, jobVars
  <2>3. ASSUME NEW s \in Slots, Consumer(s) \/ ConsumerFault(s) PROVE Overlap
    <3>1. PICK j \in Jobs : j = slot[s].job /\ Frame(s, j) /\ Move(s, j)
      BY <2>3, ConsumerMoves
    <3>2. \A k \in Jobs \ {j} : status'[k] = status[k]
      BY <3>1 DEF Frame
    <3>3. status[j] \in Done /\ status'[j] \notin Done => Fails(s, j)
      BY <3>1 DEF Move, Drops, Replays, Begins, Hangs, Completes, Forwards
    <3> QED
      BY <3>1, <3>2, <3>3 DEF Fails, Moves
  <2>4. CASE \/ \E s \in Slots, j \in Jobs : Deliver(s, j)
             \/ \E j \in Jobs : RetryExpires(j)
             \/ ConnectionLost \/ Crash \/ UNCHANGED vars
    BY <2>4 DEF Deliver, RetryExpires, ConnectionLost, Crash, DropChannel, jobVars, vars
  <2> QED
    BY <2>1, <2>2, <2>3, <2>4 DEF Next
<1> QED
  BY <1>1, TypeCorrect, PTL DEF Spec, DoneReopenedOnlyByOverlap

-----------------------------------------------------------------------------
(* One message each, and the refinement of IndexJobs: while nothing duplicates a
   message, a job has at most one of them.                                     *)

\* The only failures are publishes of the outbox that the broker refused.
NoDuplication == FaultKinds \subseteq {"publish"}

InQueues(j) == main[j] + retry[j]

HasMessage(j) == UnsentRows(j) # {} \/ Holders(j) # {} \/ InQueues(j) = 1

\* At most one message, and only for a job that is owed.
Solo(j) ==
    /\ \A a, b \in UnsentRows(j) : a = b
    /\ \A a, b \in Holders(j) : a = b
    /\ InQueues(j) \in {0, 1}
    /\ UnsentRows(j) # {} => Holders(j) = {} /\ InQueues(j) = 0
    /\ Holders(j) # {} => InQueues(j) = 0
    /\ HasMessage(j) => status[j] \in Owed

\* Without faults a callback is hung only by start(), and a finished job is
\* acknowledged.
LEMMA FaultFree ==
    ASSUME TypeOK, NoDuplication, NEW s \in Slots, Consumer(s) \/ ConsumerFault(s)
    PROVE  /\ slot'[s].pc = "hung" => slot[s].pc = "received"
           /\ slot[s].pc = "finished" => slot'[s].pc = "free"
<1>1. ~ConsumerFault(s)
  BY DEF NoDuplication, ConsumerFault, FinishFails, AckFailsInTry, CallbackRaises,
     RepublishUnconfirmed, Fault
<1>2. ASSUME NEW pc, Goto(s, pc) PROVE slot'[s].pc = pc
  BY <1>2 DEF Goto, Task, TypeOK
<1>3. CASE StartReplay(s) \/ StartOverrun(s) \/ FinishStale(s) \/ Requeue(s) \/ Bury(s)
  BY <1>2, <1>3 DEF StartReplay, StartOverrun, FinishStale, Requeue, Bury, At
<1>4. CASE \E result \in Results : Finish(s, result)
  BY <1>2, <1>4 DEF Finish, At
<1>5. CASE \E retryable \in BOOLEAN : HandlerRaises(s, retryable)
  BY <1>2, <1>5 DEF HandlerRaises, Fail, At
<1>6. CASE Start(s)
  BY <1>6 DEF Start, Task, At, TypeOK
<1>7. CASE Ack(s)
  BY <1>7 DEF Ack, Free, TypeOK
<1> QED
  BY <1>1, <1>3, <1>4, <1>5, <1>6, <1>7 DEF Consumer

LEMMA ConsumerSolo ==
    ASSUME TypeOK, NoDuplication, NEW s \in Slots, Consumer(s) \/ ConsumerFault(s),
           NEW k \in Jobs, Solo(k)
    PROVE  Solo(k)'
<1>1. PICK j \in Jobs : j = slot[s].job /\ Frame(s, j) /\ Move(s, j)
  BY ConsumerMoves
<1>2. UnsentRows(k)' = UnsentRows(k)
  BY <1>1 DEF Frame, UnsentRows, PendingRows, Rows, BeingMarked, IsCurrent
<1>3. main[k] \in Nat /\ retry[k] \in Nat /\ main'[k] = main[k]
  BY <1>1 DEF TypeOK, Frame
<1>4. CASE k # j
  <2>1. status'[k] = status[k] /\ retry'[k] = retry[k]
    BY <1>1, <1>3, <1>4 DEF Frame, Copies
  <2>2. Holders(k)' = Holders(k)
    BY <1>1, <1>4 DEF Frame, Holders, Holding
  <2> QED
    BY <1>2, <1>3, <2>1, <2>2 DEF Solo, HasMessage, InQueues
<1>5. ASSUME k = j, retry'[k] = retry[k], Holders(k)' = Holders(k),
             status'[k] \in Owed \/ status'[k] = status[k]
      PROVE  Solo(k)'
  BY <1>2, <1>3, <1>5 DEF Solo, HasMessage, InQueues
<1>6. ASSUME k = j, retry'[k] = retry[k], s \in Holders(k), Holders(k)' = Holders(k) \ {s}
      PROVE  Solo(k)'
  BY <1>2, <1>3, <1>6 DEF Solo, HasMessage, InQueues
<1>7. slot[s].pc \in Holding /\ k = j => status[k] \in Owed
  BY <1>1 DEF Solo, HasMessage, Holders
<1>8. \A t \in Slots \ {s} : slot'[t] = slot[t]
  BY <1>1 DEF Frame
<1>9. slot'[s].pc # "free" => slot'[s].job = j
  BY <1>1 DEF Frame
<1>10. CASE k = j /\ (Drops(s, j) \/ Replays(s, j) \/ Begins(s, j) \/ Hangs(s, j))
  <2>1. retry'[k] = retry[k]
    BY <1>3, <1>10 DEF Drops, Replays, Begins, Hangs, Copies
  <2>2. CASE Drops(s, j)
    BY <1>1, <1>5, <1>8, <1>10, <2>1, <2>2 DEF Drops, Moves, Holders, Holding
  <2>3. ~Replays(s, j)
    BY <1>7, <1>10 DEF Replays, Moves, Holding, Done, Owed
  <2>4. CASE Begins(s, j)
    BY <1>1, <1>5, <1>8, <1>9, <1>10, <2>1, <2>4 DEF Begins, Moves, Holders, Holding, Owed
  <2>5. CASE Hangs(s, j)
    BY <1>1, <1>5, <1>8, <1>9, <1>10, <2>1, <2>5, FaultFree DEF Hangs, Moves, Holders, Holding
  <2> QED
    BY <1>10, <2>2, <2>3, <2>4, <2>5
<1>11. CASE k = j /\ Completes(s, j)
  BY <1>1, <1>3, <1>6, <1>8, <1>11 DEF Completes, Moves, Copies, Holders, Holding
<1>12. CASE k = j /\ Fails(s, j)
  <2>1. retry'[k] = retry[k] /\ slot[s].pc = "handling"
    BY <1>3, <1>12, FaultFree DEF Fails, Moves, Copies
  <2>2. CASE slot'[s].pc = "requeue" /\ status'[j] = "QUEUED"
    BY <1>1, <1>5, <1>8, <1>9, <1>12, <2>1, <2>2 DEF Holders, Holding, Owed
  <2>3. CASE slot'[s].pc = "bury"
    BY <1>1, <1>6, <1>8, <1>12, <2>1, <2>3 DEF Holders, Holding
  <2> QED
    BY <1>12, <2>2, <2>3 DEF Fails, Moves
<1>13. CASE k = j /\ Forwards(s, j)
  <2>1. status'[k] = status[k] /\ slot'[s].pc = "ack"
    BY <1>13, FaultFree DEF Forwards, Moves
  <2>2. CASE slot[s].pc = "requeue" /\ retry'[k] = retry[k] + 1
    <3>1. s \in Holders(k) /\ Holders(k)' = Holders(k) \ {s}
      BY <1>1, <1>8, <1>13, <2>1, <2>2 DEF Holders, Holding
    <3> QED
      BY <1>2, <1>3, <1>7, <1>13, <2>1, <2>2, <3>1 DEF Solo, HasMessage, InQueues, Holding
  <2>3. CASE slot[s].pc = "bury" /\ retry'[k] = retry[k]
    BY <1>1, <1>5, <1>8, <1>13, <2>1, <2>3 DEF Holders, Holding
  <2> QED
    BY <1>3, <1>13, <2>2, <2>3 DEF Forwards, Moves, Copies
<1> QED
  BY <1>1, <1>4, <1>10, <1>11, <1>12, <1>13 DEF Move

LEMMA PublisherSolo ==
    ASSUME TypeOK, NoDuplication, Publisher \/ PublisherFault, NEW k \in Jobs, Solo(k)
    PROVE  Solo(k)'
<1>1. /\ retry' = retry /\ Holders(k)' = Holders(k)
      /\ main[k] \in Nat /\ retry[k] \in Nat
  BY DEF Publisher, PublisherFault, ReadOutbox, PublishConfirmed, MarkPublished,
     PublishRefused, PublishUnconfirmed, MarkFailed, queues, Holders, TypeOK
<1>2. CASE ReadOutbox \/ PublishRefused
  <2>1. main' = main /\ status' = status /\ UnsentRows(k)' = UnsentRows(k)
    <3>1. /\ main' = main /\ status' = status /\ outbox' = outbox
          /\ publisher.step # "mark" /\ publisher'.step # "mark"
      BY <1>2 DEF ReadOutbox, PublishRefused, NextRow, Idle, queues, jobVars
    <3> QED
      BY <3>1 DEF UnsentRows, PendingRows, Rows, BeingMarked
  <2>2. InQueues(k)' = InQueues(k)
    BY <1>1, <2>1 DEF InQueues
  <2> QED
    BY <1>1, <2>1, <2>2 DEF Solo, HasMessage
<1>3. CASE PublishConfirmed
  <2>1. PICK i \in publisher.batch :
           IsCurrent(i) /\ main' = [main EXCEPT ![outbox[i].job] = @ + 1]
    BY <1>3 DEF PublishConfirmed
  <2>2. /\ status' = status /\ outbox' = outbox
        /\ publisher.step = "publish" /\ publisher'.step = "mark"
        /\ publisher'.batch = publisher.batch
    BY <1>3 DEF PublishConfirmed, jobVars
  <2>3. i \in PendingRows /\ outbox[i].job \in Jobs
    BY <2>1, RowJob
  <2>4. PendingRows \subseteq Int /\ PendingRows' = PendingRows
    BY <2>2 DEF TypeOK, PendingRows, Rows
  <2>5. \A r \in PendingRows : ~BeingMarked(r) /\ (BeingMarked(r)' <=> r = i)
    <3>1. \A r \in PendingRows : IsCurrent(r) <=> r = i
      BY <2>1, <2>3, <2>4 DEF IsCurrent
    <3>2. \A r : IsCurrent(r)' <=> IsCurrent(r)
      BY <2>2 DEF IsCurrent
    <3> QED
      BY <2>2, <3>1, <3>2 DEF BeingMarked
  <2>6. UnsentRows(k)' = UnsentRows(k) \ {i}
    BY <2>2, <2>4, <2>5 DEF UnsentRows
  <2>7. CASE outbox[i].job = k
    <3>1. i \in UnsentRows(k)
      BY <2>3, <2>5, <2>7 DEF UnsentRows
    <3>2. main'[k] = main[k] + 1
      BY <2>1, <2>7 DEF TypeOK
    <3> QED
      BY <1>1, <2>2, <2>6, <3>1, <3>2 DEF Solo, HasMessage, InQueues
  <2>8. CASE outbox[i].job # k
    <3>1. i \notin UnsentRows(k)
      BY <2>8 DEF UnsentRows
    <3>2. main'[k] = main[k]
      BY <2>1, <2>3, <2>8 DEF TypeOK
    <3> QED
      BY <1>1, <2>2, <2>6, <3>1, <3>2 DEF Solo, HasMessage, InQueues
  <2> QED
    BY <2>7, <2>8
<1>4. CASE MarkPublished
  <2>1. PICK i \in publisher.batch :
           /\ IsCurrent(i)
           /\ outbox' = [outbox EXCEPT ![i] = [job |-> @.job, published |-> TRUE]]
           /\ status' = [status EXCEPT ![outbox[i].job] =
                            IF @ = "PENDING" THEN "QUEUED" ELSE @]
           /\ NextRow(i)
    BY <1>4 DEF MarkPublished
  <2>2. main' = main /\ publisher.step = "mark" /\ publisher'.step # "mark"
    BY <1>4, <2>1 DEF MarkPublished, queues, NextRow, Idle
  <2>3. /\ PendingRows' = PendingRows \ {i}
        /\ \A r \in Rows : outbox'[r].job = outbox[r].job
        /\ i \in PendingRows /\ PendingRows \subseteq Rows /\ PendingRows \subseteq Int
    BY <2>1, RowJob, PublishRow DEF TypeOK, PendingRows, Rows
  <2>4. \A r \in PendingRows : ~BeingMarked(r)' /\ (BeingMarked(r) <=> r = i)
    BY <2>1, <2>2, <2>3 DEF BeingMarked, IsCurrent
  <2>5. UnsentRows(k)' = UnsentRows(k)
    BY <2>3, <2>4 DEF UnsentRows
  <2>6. status[k] \in Owed => status'[k] \in Owed
    BY <2>1, RowJob DEF TypeOK, Owed
  <2> QED
    BY <1>1, <2>2, <2>5, <2>6 DEF Solo, HasMessage, InQueues
<1> QED
  BY <1>2, <1>3, <1>4
  DEF NoDuplication, Publisher, PublisherFault, PublishUnconfirmed, MarkFailed, Fault

LEMMA RequestSolo ==
    ASSUME TypeOK, NEW j \in Jobs, AddJob(j) \/ Retry(j), NEW k \in Jobs, Solo(k)
    PROVE  Solo(k)'
<1>1. /\ outbox' = Append(outbox, [job |-> j, published |-> FALSE])
      /\ status[j] \notin Owed /\ status' = [status EXCEPT ![j] = "PENDING"]
      /\ UNCHANGED <<publisher, main, retry, slot>>
  BY DEF AddJob, Retry, queues, Owed
<1> DEFINE new == Len(outbox) + 1
<1>2. /\ Rows' = Rows \cup {new} /\ new \notin Rows
      /\ \A i \in Rows : outbox'[i] = outbox[i]
      /\ outbox'[new].job = j /\ ~outbox'[new].published
  <2>1. outbox \in Seq(Row)
    BY DEF TypeOK
  <2>2. outbox'[new] = [job |-> j, published |-> FALSE]
    BY <1>1, <2>1, AppendRow
  <2> QED
    BY <1>1, <2>1, <2>2, AppendRow DEF Rows
<1>3. PendingRows' = PendingRows \cup {new}
  BY <1>2 DEF PendingRows
<1>4. \A i : BeingMarked(i)' <=> BeingMarked(i)
  BY <1>1 DEF BeingMarked, IsCurrent
<1>5. ~BeingMarked(new)
  BY <1>2 DEF TypeOK, PendingRows, BeingMarked, IsCurrent
<1>6. UnsentRows(k)' = IF k = j THEN UnsentRows(k) \cup {new} ELSE UnsentRows(k)
  BY <1>2, <1>3, <1>4, <1>5 DEF UnsentRows, PendingRows
<1>7. Holders(k)' = Holders(k) /\ InQueues(k)' = InQueues(k)
  BY <1>1 DEF Holders, InQueues
<1>8. CASE k = j
  <2>1. ~HasMessage(k) /\ status'[k] = "PENDING"
    BY <1>1, <1>8 DEF Solo, TypeOK
  <2>2. UnsentRows(k)' = {new}
    BY <1>6, <1>8, <2>1 DEF HasMessage
  <2> QED
    BY <1>7, <2>1, <2>2 DEF Solo, HasMessage, Owed
<1>9. CASE k # j
  BY <1>1, <1>6, <1>7, <1>9 DEF Solo, HasMessage, TypeOK
<1> QED
  BY <1>8, <1>9

LEMMA BrokerSolo ==
    ASSUME TypeOK, NEW j \in Jobs, RetryExpires(j) \/ \E s \in Slots : Deliver(s, j),
           NEW k \in Jobs, Solo(k)
    PROVE  Solo(k)'
<1>1. /\ UNCHANGED <<status, outbox, publisher>>
      /\ main[k] \in Nat /\ retry[k] \in Nat
  BY DEF RetryExpires, Deliver, jobVars, TypeOK
<1>2. UnsentRows(k)' = UnsentRows(k)
  BY <1>1 DEF UnsentRows, PendingRows, Rows, BeingMarked, IsCurrent
<1>3. CASE RetryExpires(j)
  <2>1. InQueues(k)' = InQueues(k)
    BY <1>1, <1>3 DEF RetryExpires, InQueues, TypeOK
  <2>2. Holders(k)' = Holders(k)
    BY <1>3 DEF RetryExpires, Holders
  <2> QED
    BY <1>1, <1>2, <2>1, <2>2 DEF Solo, HasMessage
<1>4. ASSUME NEW s \in Slots, Deliver(s, j) PROVE Solo(k)'
  <2>1. /\ slot[s].pc = "free" /\ slot'[s].pc = "received" /\ slot'[s].job = j
        /\ \A t \in Slots \ {s} : slot'[t] = slot[t]
        /\ retry' = retry /\ main[j] > 0
        /\ (k # j => main'[k] = main[k]) /\ main'[j] = main[j] - 1
    BY <1>4 DEF Deliver, Task, Free, TypeOK
  <2>2. CASE k = j
    <3>1. Holders(k)' = Holders(k) \cup {s}
      BY <2>1, <2>2 DEF Holders, Holding
    <3>2. InQueues(k) = 1 /\ InQueues(k)' = 0 /\ Holders(k) = {} /\ UnsentRows(k) = {}
      BY <1>1, <2>1, <2>2 DEF Solo, InQueues
    <3> QED
      BY <1>1, <1>2, <3>1, <3>2 DEF Solo, HasMessage
  <2>3. CASE k # j
    <3>1. Holders(k)' = Holders(k)
      BY <2>1, <2>3 DEF Holders, Holding
    <3> QED
      BY <1>1, <1>2, <2>1, <2>3, <3>1 DEF Solo, HasMessage, InQueues
  <2> QED
    BY <2>2, <2>3
<1> QED
  BY <1>3, <1>4

\* Without duplication a job never has two messages.
LEMMA SoloEach == NoDuplication => (Spec => [](\A k \in Jobs : Solo(k)))
<1> SUFFICES ASSUME NoDuplication PROVE Spec => [](\A k \in Jobs : Solo(k))
  OBVIOUS
<1> DEFINE Inv == \A k \in Jobs : Solo(k)
<1>1. Init => Inv
  <2> SUFFICES ASSUME Init, NEW k \in Jobs PROVE Solo(k)
    OBVIOUS
  <2>1. UnsentRows(k) = {} /\ Holders(k) = {} /\ InQueues(k) = 0
    BY DEF Init, UnsentRows, PendingRows, Rows, Holders, Holding, Free, InQueues
  <2> QED
    BY <2>1 DEF Solo, HasMessage
<1>2. TypeOK /\ Inv /\ [Next]_vars => Inv'
  <2> SUFFICES ASSUME TypeOK, [Next]_vars, NEW k \in Jobs, Solo(k) PROVE Solo(k)'
    OBVIOUS
  <2>1. CASE Request
    BY <2>1, RequestSolo DEF Request
  <2>2. CASE Publisher \/ PublisherFault
    BY <2>2, PublisherSolo
  <2>3. CASE \E s \in Slots, j \in Jobs : Deliver(s, j)
    BY <2>3, BrokerSolo
  <2>4. CASE \E s \in Slots : Consumer(s) \/ ConsumerFault(s)
    BY <2>4, ConsumerSolo
  <2>5. CASE \E j \in Jobs : RetryExpires(j)
    BY <2>5, BrokerSolo
  <2>6. ~(ConnectionLost \/ Crash)
    BY DEF NoDuplication, ConnectionLost, Crash, Fault
  <2>7. CASE UNCHANGED vars
    BY <2>7 DEF vars, Solo, HasMessage, InQueues, Holders, UnsentRows, PendingRows, Rows,
       BeingMarked, IsCurrent
  <2> QED
    BY <2>1, <2>2, <2>3, <2>4, <2>5, <2>6, <2>7 DEF Next
<1> QED
  BY <1>1, <1>2, TypeCorrect, PTL DEF Spec

\* Without duplication an owed job has exactly one message and a settled one has
\* none.  At most one is the inductive part (Solo); at least one is JobsAreKept.
THEOREM OneMessageEach == NoDuplication => (Spec => []OneMessage)
<1>3. TypeOK /\ (\A k \in Jobs : Solo(k)) /\ JobsKept => OneMessage
  <2> SUFFICES ASSUME TypeOK, \A k \in Jobs : Solo(k), JobsKept, NEW j \in Jobs
               PROVE  Cardinality(UnsentRows(j)) + main[j] + retry[j] + Cardinality(Holders(j))
                         = IF status[j] \in Owed THEN 1 ELSE 0
    BY DEF OneMessage
  <2>1. ASSUME NEW S, \A a, b \in S : a = b
        PROVE  (S = {} /\ Cardinality(S) = 0) \/ (S # {} /\ Cardinality(S) = 1)
    <3>1. CASE S = {}
      BY <3>1, FS_EmptySet
    <3>2. CASE S # {}
      <4>1. PICK x : x \in S
        BY <3>2
      <4>2. S = {x}
        BY <2>1, <4>1
      <4> QED
        BY <3>2, <4>2, FS_Singleton
    <3> QED
      BY <3>1, <3>2
  <2>2. Solo(j) /\ main[j] \in Nat /\ retry[j] \in Nat
    BY DEF TypeOK
  <2>3. status[j] \in Owed <=> HasMessage(j)
    BY <2>2 DEF JobsKept, NoLostJob, Solo, HasMessage, InFlight, WillBePublished, InQueues
  <2>4. /\ \/ UnsentRows(j) = {} /\ Cardinality(UnsentRows(j)) = 0
           \/ UnsentRows(j) # {} /\ Cardinality(UnsentRows(j)) = 1
        /\ \/ Holders(j) = {} /\ Cardinality(Holders(j)) = 0
           \/ Holders(j) # {} /\ Cardinality(Holders(j)) = 1
    BY <2>1, <2>2 DEF Solo
  <2> DEFINE u == Cardinality(UnsentRows(j))
             h == Cardinality(Holders(j))
  <2>5. /\ u \in {0, 1} /\ h \in {0, 1} /\ InQueues(j) \in {0, 1}
        /\ u = 1 => h = 0 /\ InQueues(j) = 0
        /\ h = 1 => InQueues(j) = 0
        /\ HasMessage(j) <=> (u = 1 \/ h = 1 \/ InQueues(j) = 1)
    BY <2>2, <2>4 DEF Solo, HasMessage
  <2> HIDE DEF u, h
  <2>6. u + main[j] + retry[j] + h = IF HasMessage(j) THEN 1 ELSE 0
    BY <2>2, <2>5 DEF InQueues
  <2> QED
    BY <2>3, <2>6 DEF u, h
<1> QED
  BY <1>3, SoloEach, TypeCorrect, JobsAreKept, PTL

-----------------------------------------------------------------------------
(* Refinement *)

\* The ledger entry of a job, from its status alone.
Entry(st) ==
    CASE st = "NONE" -> "absent"
      [] st \in Owed -> "owed"
      [] st \in Done -> "done"
      [] st = "FAILED" -> "failed"

LEMMA Entries ==
    /\ Ledger = [j \in Jobs |-> Entry(status[j])]
    /\ Entry("NONE") = "absent" /\ Entry("FAILED") = "failed"
    /\ \A st \in Owed : Entry(st) = "owed"
    /\ \A st \in Done : Entry(st) = "done"
BY DEF Ledger, Entry, Owed, Done

\* A step that changes no entry, or one as the contract allows, is a step of it.
LEMMA LedgerStep ==
    ASSUME NEW j \in Jobs, \A k \in Jobs \ {j} : status'[k] = status[k],
           \/ Entry(status'[j]) = Entry(status[j])
           \/ status[j] = "NONE" /\ status'[j] \in Owed
           \/ status[j] \in Owed /\ status'[j] \in Done
           \/ status[j] \in Owed /\ status'[j] = "FAILED"
           \/ status[j] = "FAILED" /\ status'[j] \in Owed
    PROVE  [Contract!Next]_Ledger
<1>1. /\ Ledger = [k \in Jobs |-> Entry(status[k])]
      /\ Ledger' = [k \in Jobs |-> Entry(status'[k])]
  BY Entries DEF Ledger, Entry
<1>2. Ledger' = [Ledger EXCEPT ![j] = Entry(status'[j])]
  BY <1>1
<1>3. CASE Entry(status'[j]) = Entry(status[j])
  BY <1>1, <1>3
<1>4. Ledger[j] = Entry(status[j])
  BY <1>1
<1>5. CASE status[j] = "NONE" /\ status'[j] \in Owed
  BY <1>2, <1>4, <1>5, Entries DEF Contract!Next, Contract!Ask
<1>6. CASE status[j] \in Owed /\ status'[j] \in Done
  BY <1>2, <1>4, <1>6, Entries DEF Contract!Next, Contract!Complete
<1>7. CASE status[j] \in Owed /\ status'[j] = "FAILED"
  BY <1>2, <1>4, <1>7, Entries DEF Contract!Next, Contract!GiveUp
<1>8. CASE status[j] = "FAILED" /\ status'[j] \in Owed
  BY <1>2, <1>4, <1>8, Entries DEF Contract!Next, Contract!AskAgain
<1> QED
  BY <1>3, <1>5, <1>6, <1>7, <1>8

\* While nothing duplicates a message the pipeline keeps the safety part of the
\* contract (Contract!Safety; TLC checks the fairness part): a job goes from
\* asked for to done or given up, done is final, and only the operator reopens
\* what was given up.
THEOREM PipelineImplementsContract == NoDuplication => (Spec => Contract!Safety)
<1> SUFFICES ASSUME NoDuplication PROVE Spec => Contract!Safety
  OBVIOUS
<1>1. Init => Contract!Init
  BY Entries DEF Init, Contract!Init
<1>2. TypeOK /\ (\A k \in Jobs : Solo(k)) /\ [Next]_vars => [Contract!Next]_Ledger
  <2> SUFFICES ASSUME TypeOK, \A k \in Jobs : Solo(k), [Next]_vars
               PROVE  [Contract!Next]_Ledger
    OBVIOUS
  <2>1. ASSUME NEW j \in Jobs, AddJob(j) \/ Retry(j) PROVE [Contract!Next]_Ledger
    BY <2>1, LedgerStep DEF AddJob, Retry, TypeOK, Owed
  <2>2. CASE status' = status
    BY <2>2 DEF Ledger
  <2>3. CASE MarkPublished
    <3>1. PICK i \in publisher.batch :
             status' = [status EXCEPT ![outbox[i].job] = IF @ = "PENDING" THEN "QUEUED" ELSE @]
      BY <2>3 DEF MarkPublished
    <3>2. /\ outbox[i].job \in Jobs
          /\ \A k \in Jobs \ {outbox[i].job} : status'[k] = status[k]
          /\ \/ status'[outbox[i].job] = status[outbox[i].job]
             \/ status[outbox[i].job] \in Owed /\ status'[outbox[i].job] \in Owed
      BY <3>1, RowJob DEF TypeOK, Owed
    <3>3. Entry(status'[outbox[i].job]) = Entry(status[outbox[i].job])
      BY <3>2, Entries
    <3> QED
      BY <3>2, <3>3, LedgerStep
  <2>4. ASSUME NEW s \in Slots, Consumer(s) \/ ConsumerFault(s) PROVE [Contract!Next]_Ledger
    <3>1. PICK j \in Jobs : j = slot[s].job /\ Frame(s, j) /\ Move(s, j)
      BY <2>4, ConsumerMoves
    <3>2. \A k \in Jobs \ {j} : status'[k] = status[k]
      BY <3>1 DEF Frame
    <3>3. slot[s].pc \in Holding => status[j] \in Owed
      BY <3>1 DEF Solo, HasMessage, Holders
    <3>4. \/ status'[j] = status[j]
          \/ status[j] \in Owed /\ status'[j] \in Owed \cup Done \cup {"FAILED"}
      <4>1. CASE Drops(s, j) \/ Replays(s, j) \/ Hangs(s, j) \/ Forwards(s, j)
        BY <4>1 DEF Drops, Replays, Hangs, Forwards
      <4>2. CASE Begins(s, j) \/ Completes(s, j)
        BY <3>3, <4>2 DEF Begins, Completes, Moves, Holding, Owed
      <4>3. CASE Fails(s, j)
        BY <2>4, <3>3, <4>3, FaultFree DEF Fails, Moves, Holding, Owed
      <4> QED
        BY <3>1, <4>1, <4>2, <4>3 DEF Move
    <3> QED
      BY <3>2, <3>4, LedgerStep, Entries
  <2> QED
    BY <2>1, <2>2, <2>3, <2>4
    DEF Next, vars, Request, Publisher, PublisherFault, ReadOutbox, PublishConfirmed,
       PublishRefused, PublishUnconfirmed, MarkFailed, Deliver, RetryExpires,
       ConnectionLost, Crash, DropChannel, jobVars
<1> QED
  BY <1>1, <1>2, SoloEach, TypeCorrect, PTL DEF Spec, Contract!Safety
=============================================================================
