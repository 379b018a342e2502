--------------------------- MODULE KnowledgeIndex ---------------------------
(***************************************************************************)
(* How the versions of a manual and the maintenance tickets get into the   *)
(* vector index: DocumentIngestionService, the ticket indexing script and  *)
(* the dataset reload write rows and index jobs; IndexHandlerRuntime, run  *)
(* by the consumers of indexing/service.py and by the queue drainer, reads *)
(* a row, upserts its vector and publishes INDEXED, in three steps.        *)
(*                                                                         *)
(* The outbox, the broker's acknowledgements and the failing of fail() are *)
(* IndexPipeline's; here a job has one message, taken, put back or dead.   *)
(* Diagnosis cases are CaseLifecycle's.                                    *)
(***************************************************************************)
EXTENDS Naturals, Sequences, FiniteSets, Functions

CONSTANTS
    Versions,        \* versions of one document
    DatasetVersion,  \* the one the dataset has
    Tickets,
    Consumers,       \* workers that handle one message at a time
    Drainers,        \* workers that handle a batch (evaluation/drain_index_queue.py)
    BatchSize,       \* batch_size of drain
    MaxAttempts,     \* index_max_attempts
    MaxGen,          \* bound: generations of a ticket or of a version
    MaxRequests,     \* bound: ingestions, ticket queueings, reviews, scripts, reloads
    MaxFaults        \* bound: failures of a provider, and crashes

ASSUME KnowledgeAssumption ==
    /\ {BatchSize, MaxAttempts, MaxGen} \subseteq Nat \ {0}
    /\ {MaxRequests, MaxFaults} \subseteq Nat
    /\ Consumers \cap Drainers = {}
    /\ IsFiniteSet(Versions) /\ IsFiniteSet(Tickets)
    /\ DatasetVersion \in Versions

VARIABLES
    queued,      \* index_execution_mode = "rabbitmq"
    doc,         \* manual_document by version
    chunkOn,     \* versions whose manual_chunk rows are effective
    manualVec,   \* <<version, generation>> with vectors in Milvus
    ticket,      \* maintenance_ticket
    ticketVec,   \* generation of the ticket's vector, 0 for none
    job,         \* index_job
    queue,       \* jobs with a message in the index queue or in the retry queue
    work,        \* what each worker is doing
    syncing,     \* status that an ingestion without queue has still to write, by version
    script,      \* the ticket indexing script without queue
    reload,      \* how far the dataset reload is
    raced,       \* tickets queued again while a handler held an earlier reading of them
    flipped,     \* tickets whose verification has changed
    requests,
    faults

index == <<queued, doc, chunkOn, manualVec, ticket, ticketVec, job, queue, work,
           syncing, script, reload, raced, flipped, requests, faults>>

-----------------------------------------------------------------------------
(* Types *)

Gens == 1..MaxGen
ScriptGen == MaxGen + 1     \* the generation the script gives all its vectors
Workers == Consumers \cup Drainers
ManualJobs == [kind : {"manual"}, id : Versions, gen : Gens]
TicketJobs == [kind : {"ticket"}, id : Tickets, gen : Gens]
Jobs == ManualJobs \cup TicketJobs
ManualJob(v, g) == [kind |-> "manual", id |-> v, gen |-> g]
TicketJob(t, g) == [kind |-> "ticket", id |-> t, gen |-> g]

Statuses == {"PENDING", "QUEUED", "INDEXED", "DEGRADED", "FAILED"}
Doc == [status : Statuses \cup {"none"}, approved : BOOLEAN, effective : BOOLEAN, gen : 0..MaxGen]
NoDoc == [status |-> "none", approved |-> FALSE, effective |-> FALSE, gen |-> 0]
Ticket == [status : Statuses, verified : BOOLEAN, gen : 0..MaxGen]
Job == [status : {"none", "QUEUED", "RUNNING", "INDEXED", "STALE", "FAILED"},
        attempts : 0..MaxAttempts]
NoJob == [status |-> "none", attempts |-> 0]
NewJob == [status |-> "QUEUED", attempts |-> 0]

\* A worker has groups to process: the first is at a stage, and a group of manuals,
\* which is handled one after the other, at a position.
Work == [todo : Seq(Seq(Jobs)), stage : {"idle", "read", "upsert", "publish", "finish"}, pos : Nat]
Idle == [todo |-> <<>>, stage |-> "idle", pos |-> 1]
NoScript == [stage |-> "idle", rows |-> {}]

IndexTypeOK ==
    /\ queued \in BOOLEAN
    /\ doc \in [Versions -> Doc]
    /\ chunkOn \subseteq Versions
    /\ manualVec \subseteq Versions \X Gens
    /\ ticket \in [Tickets -> Ticket]
    /\ ticketVec \in [Tickets -> 0..ScriptGen]
    /\ job \in [Jobs -> Job]
    /\ queue \subseteq Jobs
    /\ work \in [Workers -> Work]
    /\ syncing \in [Versions -> {"none", "upsert", "INDEXED", "DEGRADED", "FAILED"}]
    /\ script \in [stage : {"idle", "upsert", "publish"}, rows : SUBSET Tickets]
    /\ reload \in {"none", "rows", "jobs", "done"}
    /\ raced \subseteq Tickets
    /\ flipped \subseteq Tickets
    /\ requests \in 0..MaxRequests
    /\ faults \in 0..MaxFaults

\* The tickets come from outside, verified or not; nothing is indexed yet.
IndexInit ==
    /\ queued \in BOOLEAN
    /\ doc = [v \in Versions |-> NoDoc]
    /\ chunkOn = {}
    /\ manualVec = {}
    /\ ticket \in [Tickets -> [status : {"PENDING"}, verified : BOOLEAN, gen : {0}]]
    /\ ticketVec = [t \in Tickets |-> 0]
    /\ job = [j \in Jobs |-> NoJob]
    /\ queue = {}
    /\ work = [w \in Workers |-> Idle]
    /\ syncing = [v \in Versions |-> "none"]
    /\ script = NoScript
    /\ reload = "none"
    /\ raced = {}
    /\ flipped = {}
    /\ requests = 0
    /\ faults = 0

Fault == faults < MaxFaults /\ faults' = faults + 1
Request == requests < MaxRequests /\ requests' = requests + 1

-----------------------------------------------------------------------------
(* Manuals: ManualDocumentRepository and DocumentIngestionService *)

\* Mutant: the chunks of the version that was effective stay effective.
CreatePendingKeepsChunks(v, approved, effective) ==
    /\ doc' = [u \in Versions |->
                 CASE u = v -> [status |-> IF queued THEN "QUEUED" ELSE "PENDING",
                                approved |-> approved, effective |-> effective,
                                gen |-> doc[v].gen + 1]
                   [] u # v /\ effective -> [doc[u] EXCEPT !.effective = FALSE]
                   [] OTHER -> doc[u]]
    /\ chunkOn' = IF effective THEN chunkOn \cup {v} ELSE chunkOn

\* create_pending: one transaction.
CreatePending(v, approved, effective) ==
    /\ doc' = [u \in Versions |->
                 CASE u = v -> [status |-> IF queued THEN "QUEUED" ELSE "PENDING",
                                approved |-> approved, effective |-> effective,
                                gen |-> doc[v].gen + 1]
                   [] u # v /\ effective -> [doc[u] EXCEPT !.effective = FALSE]
                   [] OTHER -> doc[u]]
    /\ chunkOn' = IF effective THEN {v} ELSE chunkOn

\* ingest of a new version; a version that exists is answered or refused, and nothing
\* changes.
Ingest(v, approved, effective) ==
    /\ Request
    /\ reload \in {"none", "done"}
    /\ doc[v].status = "none"
    /\ doc[v].gen < MaxGen
    /\ CreatePending(v, approved, effective)
    /\ IF queued
       THEN /\ job' = [job EXCEPT ![ManualJob(v, doc[v].gen + 1)] = NewJob]
            /\ queue' = queue \cup {ManualJob(v, doc[v].gen + 1)}
            /\ UNCHANGED syncing
       ELSE /\ syncing' = [syncing EXCEPT ![v] = "upsert"]
            /\ UNCHANGED <<job, queue>>
    /\ UNCHANGED <<queued, manualVec, ticket, ticketVec, work, script, reload,
                   raced, flipped, faults>>

\* Without a queue ingest goes on to embed and upsert: it has no providers, it
\* succeeds, or a provider fails.
SyncUpsert(v) ==
    /\ syncing[v] = "upsert"
    /\ \/ /\ syncing' = [syncing EXCEPT ![v] = "DEGRADED"]
          /\ UNCHANGED <<manualVec, faults>>
       \/ /\ syncing' = [syncing EXCEPT ![v] = "INDEXED"]
          /\ manualVec' = manualVec \cup {<<v, doc[v].gen>>}
          /\ UNCHANGED faults
       \/ /\ Fault
          /\ syncing' = [syncing EXCEPT ![v] = "FAILED"]
          /\ UNCHANGED manualVec
    /\ UNCHANGED <<queued, doc, chunkOn, ticket, ticketVec, job, queue, work, script,
                   reload, raced, flipped, requests>>

\* set_index_status, whatever has happened to the version since.
SyncPublish(v) ==
    /\ syncing[v] \in Statuses
    /\ doc' = [doc EXCEPT ![v].status = syncing[v]]
    /\ syncing' = [syncing EXCEPT ![v] = "none"]
    /\ UNCHANGED <<queued, chunkOn, manualVec, ticket, ticketVec, job, queue, work,
                   script, reload, raced, flipped, faults, requests>>

\* The ingestion's process ends; a version left PENDING stays so.
SyncCrash(v) ==
    /\ syncing[v] # "none"
    /\ Fault
    /\ syncing' = [syncing EXCEPT ![v] = "none"]
    /\ UNCHANGED <<queued, doc, chunkOn, manualVec, ticket, ticketVec, job, queue, work,
                   script, reload, raced, flipped, requests>>

-----------------------------------------------------------------------------
(* Tickets: retrieval/ingestion/index_tickets.py *)

\* Workers that have read the ticket and not yet published it.
Holding(w, t) ==
    /\ work[w].stage \in {"upsert", "publish"}
    /\ \E i \in DOMAIN Head(work[w].todo) :
          Head(work[w].todo)[i].kind = "ticket" /\ Head(work[w].todo)[i].id = t

\* The script with a queue: a generation and a job for each verified ticket, read
\* again under a lock.
QueueTicket(t) ==
    /\ Request
    /\ queued
    /\ reload \in {"none", "done"}
    /\ ticket[t].verified
    /\ ticket[t].gen < MaxGen
    /\ LET g == ticket[t].gen + 1 IN
         /\ ticket' = [ticket EXCEPT ![t].gen = g, ![t].status = "QUEUED"]
         /\ job' = [job EXCEPT ![TicketJob(t, g)] = NewJob]
         /\ queue' = queue \cup {TicketJob(t, g)}
    /\ raced' = IF \E w \in Workers : Holding(w, t) THEN raced \cup {t} ELSE raced
    /\ UNCHANGED <<queued, doc, chunkOn, manualVec, ticketVec, work, syncing, script,
                   reload, flipped, faults>>

\* The script without a queue reads the verified tickets, ...
ScriptRead ==
    /\ Request
    /\ ~queued
    /\ reload \in {"none", "done"}
    /\ script.stage = "idle"
    /\ \E t \in Tickets : ticketVec[t] # ScriptGen
    /\ script' = [stage |-> "upsert", rows |-> {t \in Tickets : ticket[t].verified}]
    /\ UNCHANGED <<queued, doc, chunkOn, manualVec, ticket, ticketVec, job, queue, work,
                   syncing, reload, raced, flipped, faults>>

\* ... upserts them, or raises, ...
ScriptUpsert ==
    /\ script.stage = "upsert"
    /\ \/ /\ ticketVec' = [t \in Tickets |-> IF t \in script.rows THEN ScriptGen ELSE ticketVec[t]]
          /\ script' = [script EXCEPT !.stage = "publish"]
          /\ UNCHANGED faults
       \/ /\ Fault
          /\ script' = NoScript
          /\ UNCHANGED ticketVec
    /\ UNCHANGED <<queued, doc, chunkOn, manualVec, ticket, job, queue, work, syncing,
                   reload, raced, flipped, requests>>

\* ... and publishes them, verified or not by now; index_generation is not written.
ScriptPublish ==
    /\ script.stage = "publish"
    /\ ticket' = [t \in Tickets |-> IF t \in script.rows
                                    THEN [ticket[t] EXCEPT !.status = "INDEXED"] ELSE ticket[t]]
    /\ script' = NoScript
    /\ UNCHANGED <<queued, doc, chunkOn, manualVec, ticketVec, job, queue, work, syncing,
                   reload, raced, flipped, faults, requests>>

\* The ticket system verifies a ticket, or takes the verification back.
ReviewTicket(t) ==
    /\ Request
    /\ t \notin flipped
    /\ reload \in {"none", "done"}
    /\ ticket' = [ticket EXCEPT ![t].verified = ~@]
    /\ flipped' = flipped \cup {t}
    /\ UNCHANGED <<queued, doc, chunkOn, manualVec, ticketVec, job, queue, work, syncing,
                   script, reload, raced, faults>>

-----------------------------------------------------------------------------
(* Dataset reload: evaluation/reload_dataset.py, run while nothing else writes *)

Quiet ==
    /\ \A w \in Workers : work[w] = Idle
    /\ \A v \in Versions : syncing[v] = "none"
    /\ script = NoScript

\* The business tables are truncated; vectors and messages stay.  By the bound a reload
\* is the last request.
ReloadTruncate ==
    /\ requests < MaxRequests
    /\ requests' = MaxRequests
    /\ reload = "none"
    /\ Quiet
    /\ reload' = "rows"
    /\ doc' = [v \in Versions |-> [NoDoc EXCEPT !.gen = doc[v].gen]]
    /\ chunkOn' = {}
    /\ ticket' = [t \in Tickets |-> [ticket[t] EXCEPT !.verified = FALSE, !.status = "PENDING"]]
    /\ job' = [j \in Jobs |-> NoJob]
    /\ raced' = {}
    /\ UNCHANGED <<queued, manualVec, ticketVec, queue, work, syncing, script, flipped, faults>>

\* The tickets of the dataset, some of them verified.
LoadedTickets(verified) ==
    [t \in Tickets |->
        IF t \in verified
        THEN [status |-> "QUEUED", verified |-> TRUE, gen |-> ticket[t].gen + 1]
        ELSE ticket[t]]

\* The dataset's version of the document, approved and effective or neither.
LoadedDocument(current) ==
    [status |-> IF current THEN "QUEUED" ELSE "PENDING", approved |-> current,
     effective |-> current, gen |-> doc[DatasetVersion].gen + 1]

\* Both are inserted, and the chunks of the document.
ReloadRows(current) ==
    /\ reload = "rows"
    /\ Quiet
    /\ reload' = "jobs"
    /\ doc[DatasetVersion].gen < MaxGen
    /\ doc' = [doc EXCEPT ![DatasetVersion] = LoadedDocument(current)]
    /\ chunkOn' = IF current THEN {DatasetVersion} ELSE {}
    /\ \E verified \in SUBSET {t \in Tickets : ticket[t].gen < MaxGen} :
          ticket' = LoadedTickets(verified)
    /\ UNCHANGED <<queued, manualVec, ticketVec, job, queue, work, syncing, script, raced,
                   flipped, faults, requests>>

\* One transaction adds the jobs of what is effective and of what is verified.
ReloadJobs ==
    /\ reload = "jobs"
    /\ reload' = "done"
    /\ LET new == {ManualJob(v, doc[v].gen) : v \in {u \in Versions : doc[u].effective}}
                  \cup {TicketJob(t, ticket[t].gen) : t \in {s \in Tickets : ticket[s].verified}}
       IN /\ job' = [j \in Jobs |-> IF j \in new THEN NewJob ELSE job[j]]
          /\ queue' = queue \cup new
    /\ UNCHANGED <<queued, doc, chunkOn, manualVec, ticket, ticketVec, work, syncing, script,
                   raced, flipped, faults, requests>>

-----------------------------------------------------------------------------
(* Workers *)

Orders(S) == {s \in [1..Cardinality(S) -> S] : \A i, j \in DOMAIN s : i # j => s[i] # s[j]}

Group(w) == Head(work[w].todo)

\* What the handlers work on at once: a manual, or all the tickets of the group.
Current(w) ==
    IF Group(w)[1].kind = "manual" THEN {Group(w)[work[w].pos]} ELSE Range(Group(w))

\* Start with what is to do, or be idle.
Doing(todo) == IF todo = <<>> THEN Idle ELSE [todo |-> todo, stage |-> "read", pos |-> 1]

\* A group of its own, unless there is nothing in it.
NonEmpty(group) == IF group = <<>> THEN <<>> ELSE <<group>>

\* One message for a consumer, a batch for a drainer.
Receive(w, taken) ==
    /\ work[w].stage = "idle"
    /\ reload \in {"none", "done"}
    /\ taken # {}
    /\ Cardinality(taken) <= IF w \in Consumers THEN 1 ELSE BatchSize

\* Those that are neither unknown nor done, and of them those whose attempts are used up.
Live(taken) == {j \in taken : job[j].status \in {"QUEUED", "RUNNING", "FAILED"}}
Spent(taken) == {j \in Live(taken) : job[j].attempts >= MaxAttempts}

\* start() counts an attempt.
Started(jobs) ==
    [j \in Jobs |-> IF j \in jobs
                    THEN [status |-> "RUNNING", attempts |-> job[j].attempts + 1] ELSE job[j]]

\* Messages received and started: those whose job is unknown or done are dropped, the
\* others are grouped by kind.
Take(w, taken) ==
    LET of(kind) == {j \in Live(taken) : j.kind = kind}
    IN /\ Receive(w, taken)
       /\ Spent(taken) = {}
       /\ queue' = queue \ taken
       /\ job' = Started(Live(taken))
       /\ \E manuals \in Orders(of("manual")), tickets \in Orders(of("ticket")) :
             work' = [work EXCEPT ![w] = Doing(NonEmpty(manuals) \o NonEmpty(tickets))]
       /\ UNCHANGED <<queued, doc, chunkOn, manualVec, ticket, ticketVec, syncing, script,
                      reload, raced, flipped, faults, requests>>

\* validate_attempts raises in start(), whose transaction rolls back.  A consumer's
\* message hangs unacknowledged.  drain() ends: of what comes before the spent message
\* it has started or dropped some, and all it has not dropped is delivered again.
TakeOverrun(w, taken) ==
    /\ Receive(w, taken)
    /\ Spent(taken) # {}
    /\ IF w \in Consumers
       THEN queue' = queue \ taken /\ UNCHANGED job
       ELSE /\ \E dropped \in SUBSET (taken \ Live(taken)) : queue' = queue \ dropped
            /\ \E started \in SUBSET (Live(taken) \ Spent(taken)) : job' = Started(started)
    /\ UNCHANGED <<queued, doc, chunkOn, manualVec, ticket, ticketVec, work, syncing, script,
                   reload, raced, flipped, faults, requests>>

Takes(w) == \E taken \in SUBSET queue : Take(w, taken) \/ TakeOverrun(w, taken)

\* PermanentIndexError of _manual, ...
Missing(j) == j.kind = "manual" /\ doc[j.id].gen # j.gen

\* ... StaleIndexEventError of _manual, ...
StaleManual(j) == ~doc[j.id].effective \/ ~doc[j.id].approved

\* Mutant: a ticket's event is stale only when the ticket is no longer verified.
StaleUnverified(j) == ~ticket[j.id].verified

\* ... and of _ticket and _ticket_batch.
StaleTicket(j) == ticket[j.id].gen # j.gen \/ ~ticket[j.id].verified

Stale(j) == IF j.kind = "manual" THEN Missing(j) \/ StaleManual(j) ELSE StaleTicket(j)

\* should_dead_letter.
Dead(j) == job[j].attempts >= MaxAttempts

\* IndexRepository.fail: a ticket is marked whatever its generation, a document only
\* by its own.
Fail(j, dead) ==
    /\ job' = [job EXCEPT ![j].status = IF dead THEN "FAILED" ELSE "QUEUED"]
    /\ ticket' = IF dead /\ j.kind = "ticket"
                 THEN [ticket EXCEPT ![j.id].status = "FAILED"] ELSE ticket
    /\ doc' = IF dead /\ j.kind = "manual" /\ doc[j.id].gen = j.gen
              THEN [doc EXCEPT ![j.id].status = "FAILED"] ELSE doc

\* Mutant: the drainer gives up on the whole group.
DrainFailsTogether(w, stale) ==
    LET group == Group(w)
        all == Range(group)
    IN /\ work' = [work EXCEPT ![w] = Doing(Tail(work[w].todo))]
       /\ job' = [j \in Jobs |-> IF j \in all THEN [job[j] EXCEPT !.status = "FAILED"] ELSE job[j]]
       /\ UNCHANGED <<queue, ticket, doc>>

\* Mutant: a job to retry gets its status, but no new message.
RaiseForgets(w, stale) ==
    LET group == Group(w)
        middle == Len(group) \div 2
        rest == Tail(work[w].todo)
        j == group[1]
        dead == Dead(j) \/ (stale /\ Missing(j))
    IN IF Len(group) > 1
       THEN /\ work' = [work EXCEPT ![w] = Doing(<<SubSeq(group, 1, middle),
                                                  SubSeq(group, middle + 1, Len(group))>> \o rest)]
            /\ UNCHANGED <<job, queue, ticket, doc>>
       ELSE /\ work' = [work EXCEPT ![w] = Doing(rest)]
            /\ IF stale /\ ~Missing(j) /\ w \in Consumers
               THEN /\ job' = [job EXCEPT ![j].status = "STALE"]
                    /\ UNCHANGED <<queue, ticket, doc>>
               ELSE /\ Fail(j, dead)
                    /\ UNCHANGED queue

\* The handlers raise.  _process of the drainer halves a group, and calls _fail for a
\* group of one; consume tells a stale event from a failure.
Raise(w, stale) ==
    LET group == Group(w)
        middle == Len(group) \div 2
        rest == Tail(work[w].todo)
        j == group[1]
        dead == Dead(j) \/ (stale /\ Missing(j))
    IN IF Len(group) > 1
       THEN /\ work' = [work EXCEPT ![w] = Doing(<<SubSeq(group, 1, middle),
                                                  SubSeq(group, middle + 1, Len(group))>> \o rest)]
            /\ UNCHANGED <<job, queue, ticket, doc>>
       ELSE /\ work' = [work EXCEPT ![w] = Doing(rest)]
            /\ IF stale /\ ~Missing(j) /\ w \in Consumers
               THEN /\ job' = [job EXCEPT ![j].status = "STALE"]
                    /\ UNCHANGED <<queue, ticket, doc>>
               ELSE /\ Fail(j, dead)
                    /\ queue' = IF dead THEN queue ELSE queue \cup {j}

\* The rows are read and checked, one event of a group at fault for all.
Read(w) ==
    /\ work[w].stage = "read"
    /\ IF \E j \in Current(w) : Stale(j)
       THEN Raise(w, TRUE)
       ELSE /\ work' = [work EXCEPT ![w].stage = "upsert"]
            /\ UNCHANGED <<job, queue, ticket, doc>>
    /\ UNCHANGED <<queued, chunkOn, manualVec, ticketVec, syncing, script, reload, raced,
                   flipped, faults, requests>>

\* Mutant: a provider's failure is logged, and the handler goes on.
UpsertSwallows(w) ==
    /\ work[w].stage = "upsert"
    /\ Fault
    /\ work' = [work EXCEPT ![w].stage = "publish"]
    /\ UNCHANGED <<queued, doc, chunkOn, manualVec, ticket, ticketVec, job, queue, syncing,
                   script, reload, raced, flipped, requests>>

\* The chunks of a manual have ids of their version and generation.
ManualVectors(w) == manualVec \cup {<<j.id, j.gen>> : j \in Current(w) \cap ManualJobs}

\* The vector of a ticket has the ticket's id: the last row of a batch wins.
TicketVectors(w) ==
    [t \in Tickets |->
        LET rows == {i \in DOMAIN Group(w) : Group(w)[i].kind = "ticket" /\ Group(w)[i].id = t}
        IN IF rows = {} THEN ticketVec[t]
           ELSE Group(w)[CHOOSE i \in rows : \A k \in rows : k <= i].gen]

\* Embedding and Milvus, which may fail.
Upsert(w) ==
    /\ work[w].stage = "upsert"
    /\ \/ /\ manualVec' = ManualVectors(w)
          /\ ticketVec' = TicketVectors(w)
          /\ work' = [work EXCEPT ![w].stage = "publish"]
          /\ UNCHANGED <<job, queue, ticket, doc, faults>>
       \/ /\ Fault
          /\ Raise(w, FALSE)
          /\ UNCHANGED <<manualVec, ticketVec>>
    /\ UNCHANGED <<queued, chunkOn, syncing, script, reload, raced, flipped, requests>>

\* INDEXED, where the version is still effective, ...
PublishedManuals(w) ==
    [v \in Versions |->
        IF doc[v].effective /\ \E j \in Current(w) \cap ManualJobs : j.id = v
        THEN [doc[v] EXCEPT !.status = "INDEXED"] ELSE doc[v]]

\* ... or the ticket still verified; the generation is not compared again.
PublishedTickets(w) ==
    [t \in Tickets |->
        IF ticket[t].verified /\ \E j \in Current(w) \cap TicketJobs : j.id = t
        THEN [ticket[t] EXCEPT !.status = "INDEXED"] ELSE ticket[t]]

\* A group of manuals goes on to its next one.
Publish(w) ==
    /\ work[w].stage = "publish"
    /\ doc' = PublishedManuals(w)
    /\ ticket' = PublishedTickets(w)
    /\ work' = IF Group(w)[1].kind = "manual" /\ work[w].pos < Len(Group(w))
               THEN [work EXCEPT ![w].stage = "read", ![w].pos = @ + 1]
               ELSE [work EXCEPT ![w].stage = "finish"]
    /\ UNCHANGED <<queued, chunkOn, manualVec, ticketVec, job, queue, syncing, script, reload,
                   raced, flipped, faults, requests>>

\* finish and acknowledge the next message of the group.
Finish(w) ==
    /\ work[w].stage = "finish"
    /\ job' = [job EXCEPT ![Group(w)[1]].status = "INDEXED"]
    /\ work' = [work EXCEPT ![w] =
                  IF Len(Group(w)) > 1
                  THEN [work[w] EXCEPT !.todo = <<Tail(Group(w))>> \o Tail(work[w].todo)]
                  ELSE Doing(Tail(work[w].todo))]
    /\ UNCHANGED <<queued, doc, chunkOn, manualVec, ticket, ticketVec, queue, syncing, script,
                   reload, raced, flipped, faults, requests>>

\* The worker dies; what it has not acknowledged is delivered again.
Crash(w) ==
    /\ work[w].stage # "idle"
    /\ Fault
    /\ queue' = queue \cup UNION {Range(g) : g \in Range(work[w].todo)}
    /\ work' = [work EXCEPT ![w] = Idle]
    /\ UNCHANGED <<queued, doc, chunkOn, manualVec, ticket, ticketVec, job, syncing, script,
                   reload, raced, flipped, requests>>

-----------------------------------------------------------------------------

WorkerStep(w) == Read(w) \/ Upsert(w) \/ Publish(w) \/ Finish(w)

IndexNext ==
    \/ \E v \in Versions, approved, effective \in BOOLEAN : Ingest(v, approved, effective)
    \/ \E v \in Versions : SyncUpsert(v) \/ SyncPublish(v) \/ SyncCrash(v)
    \/ \E t \in Tickets : QueueTicket(t) \/ ReviewTicket(t)
    \/ ScriptRead \/ ScriptUpsert \/ ScriptPublish
    \/ ReloadTruncate \/ ReloadJobs \/ \E current \in BOOLEAN : ReloadRows(current)
    \/ \E w \in Workers : WorkerStep(w) \/ Crash(w) \/ Takes(w)

\* The workers together go on: as long as one can take a message or make a step, one does.
IndexFairness ==
    WF_index(\E w \in Workers : WorkerStep(w) \/ Takes(w))
=============================================================================
