---------------------------- MODULE SessionIntake ----------------------------
(***************************************************************************)
(* What the requests of one actor meet before a diagnosis runs, once the   *)
(* middleware lets them pass: create_session with its idempotency key and  *)
(* the de-duplication of alarms, and the slots of concurrent streams.      *)
(* DiagnosisSession takes over where a session has been opened.            *)
(*                                                                         *)
(* A step ends where the code awaits.  A retry is another request with the *)
(* same payload and key.  All alarms are of one device and category, so    *)
(* they share one row of diagnosis_alarm_dedup.  A session has the name of *)
(* the request that opened it.                                             *)
(***************************************************************************)
EXTENDS Naturals, Sequences, FiniteSets, Functions

CONSTANTS
    MaxRequests,   \* bound: requests of the actor, numbered as they come
    Alarms,        \* alarm ids of one device and category
    Keys,          \* idempotency keys
    Payloads,      \* what the actor may send
    StreamLimit,   \* rate_limit_stream_concurrent
    MaxFaults      \* bound: failures of Redis and MySQL, disconnects and crashes

ASSUME IntakeBounds == {MaxRequests, StreamLimit, MaxFaults} \subseteq Nat

VARIABLES
    req,         \* the requests
    session,     \* diagnosis_session by the request that opened it
    runs,        \* sessions with a run, in the order of created_at
    memory,      \* sessions whose memory has been saved
    dedup,       \* the row of diagnosis_alarm_dedup; hit_count, which only grows, is left out
    ended,       \* sessions alarms need not share: failed, out of their window, or replaced by
                 \* one that was opened at the same time
    slots,       \* the counter of streams in Redis, 0 without the key
    ttl,         \* of that key: none, armed by the last acquire, or due to run out
    leaked,      \* streams lost without a release since the key was last made
    drifted,     \* the key has expired while a stream was open
    faults

vars == <<req, session, runs, memory, dedup, ended, slots, ttl,
          leaked, drifted, faults>>

opening == <<session, runs, memory, dedup, ended>>
streams == <<slots, ttl, leaked, drifted>>

-----------------------------------------------------------------------------
(* Types *)

Requests == 1..MaxRequests
Nobody == 0
NoKey == "no key"
NoAlarm == "no alarm"
NoRow == [session |-> Nobody]

Payload ==
    [kind : {"create"}, alarm : Alarms \cup {NoAlarm}, key : Keys \cup {NoKey}]
    \cup {[kind |-> "stream"]}

ASSUME PayloadsAssumption == Payloads \subseteq Payload

\* Where a request waits.  register has read the row, or seen that there is none.
CreateStages == {"lookup", "dedup", "merged", "session", "run", "memory", "register",
                 "insert", "update", "answer"}
StreamStages == {"acquire", "streaming"}
Stages == CreateStages \cup StreamStages
Ends == {"answered", "refused", "failed"}

\* A request; after is the set of those that had ended when it came.
NoRequest == [stage |-> "none"]
Request ==
    {NoRequest}
    \cup [stage : Stages \cup Ends, payload : Payload, after : SUBSET Requests,
          session : Requests \cup {Nobody}, merged : BOOLEAN]

Row == {NoRow} \cup [session : Requests, alarms : SUBSET Alarms, live : BOOLEAN]

Ended(r) == req[r].stage \in Ends
Creates(r) == req[r] # NoRequest /\ req[r].payload.kind = "create"
Open == {r \in Requests : req[r].stage = "streaming"}

\* Two requests of which one came when the other had ended.
Apart(r, s) == r \in req[s].after \/ s \in req[r].after

\* Every variable stays in its domain, and a session has one run of its creation.
TypeOK ==
    /\ req \in [Requests -> Request]
    /\ session \in [Requests -> {"none", "INIT", "FAILED"}]
    /\ runs \in Seq(Requests) /\ IsInjective(runs)
    /\ memory \subseteq Requests
    /\ dedup \in Row
    /\ ended \subseteq Requests
    /\ slots \in 0..StreamLimit
    /\ ttl \in {"none", "armed", "due"}
    /\ leaked \in 0..MaxFaults
    /\ drifted \in BOOLEAN
    /\ faults \in 0..MaxFaults

Init ==
    /\ req = [r \in Requests |-> NoRequest]
    /\ session = [r \in Requests |-> "none"]
    /\ runs = <<>>
    /\ memory = {}
    /\ dedup = NoRow
    /\ ended = {}
    /\ slots = 0
    /\ ttl = "none"
    /\ leaked = 0
    /\ drifted = FALSE
    /\ faults = 0

Fault == faults < MaxFaults /\ faults' = faults + 1

-----------------------------------------------------------------------------
(* A request arrives *)

\* Where create_session goes: each part of it is left out where it does not apply.
AfterLookup(p) == IF p.alarm # NoAlarm THEN "dedup" ELSE "session"
Entry(p) ==
    IF p.kind = "stream" THEN "acquire"
    ELSE IF p.key # NoKey THEN "lookup" ELSE AfterLookup(p)

Arrive(r, p) ==
    /\ req[r] = NoRequest
    /\ \A s \in Requests : s < r => req[s] # NoRequest
    /\ req' = [req EXCEPT ![r] = [stage |-> Entry(p), payload |-> p, session |-> Nobody,
                                  merged |-> FALSE, after |-> {s \in Requests : Ended(s)}]]
    /\ UNCHANGED <<opening, streams, faults>>

-----------------------------------------------------------------------------
(* create_session *)

To(r, stage) == req' = [req EXCEPT ![r].stage = stage]

\* Where the runs with the key are, the last of which find_idempotent_global returns.
Keyed(k) == {i \in DOMAIN runs : req[runs[i]].payload.key = k}
LastOf(I) == {i \in I : \A j \in I : j <= i}

Answer(r, s, merged) ==
    req' = [req EXCEPT ![r].stage = "answered", ![r].session = s, ![r].merged = merged]

\* Mutant: the payload is not compared.
LookupByKey(r) ==
    LET p == req[r].payload
    IN /\ req[r].stage = "lookup"
       /\ \/ Keyed(p.key) = {} /\ To(r, AfterLookup(p))
          \/ \E i \in LastOf(Keyed(p.key)) : Answer(r, runs[i], FALSE)
       /\ UNCHANGED <<opening, streams, faults>>

\* The answer to an earlier request with the key, a conflict, or neither.
Lookup(r) ==
    LET p == req[r].payload
    IN /\ req[r].stage = "lookup"
       /\ \/ Keyed(p.key) = {} /\ To(r, AfterLookup(p))
          \/ \E i \in LastOf(Keyed(p.key)) :
                IF req[runs[i]].payload = p THEN Answer(r, runs[i], FALSE) ELSE To(r, "refused")
       /\ UNCHANGED <<opening, streams, faults>>

\* The row is within its window and its session has not failed.
Current == dedup # NoRow /\ dedup.live /\ session[dedup.session] # "FAILED"

\* AlarmDedupRepository.hit.
Hit(r) ==
    /\ req[r].stage = "dedup"
    /\ IF Current
       THEN /\ dedup' = [dedup EXCEPT !.alarms = @ \cup {req[r].payload.alarm}]
            /\ req' = [req EXCEPT ![r].stage = "merged", ![r].session = dedup.session]
       ELSE /\ To(r, "session")
            /\ UNCHANGED dedup
    /\ UNCHANGED <<session, runs, memory, ended, streams, faults>>

\* The session is read, the audit written and the answer sent.
AnswerMerged(r) ==
    /\ req[r].stage = "merged"
    /\ Answer(r, req[r].session, TRUE)
    /\ UNCHANGED <<opening, streams, faults>>

\* Mutant: the session is registered for merging as soon as it has a row.
CreateSessionRegisters(r) ==
    /\ req[r].stage = "session"
    /\ session' = [session EXCEPT ![r] = "INIT"]
    /\ dedup' = IF req[r].payload.alarm = NoAlarm THEN dedup
                ELSE [session |-> r, alarms |-> {req[r].payload.alarm}, live |-> TRUE]
    /\ To(r, "run")
    /\ UNCHANGED <<runs, memory, ended, streams, faults>>

CreateSession(r) ==
    /\ req[r].stage = "session"
    /\ session' = [session EXCEPT ![r] = "INIT"]
    /\ To(r, "run")
    /\ UNCHANGED <<runs, memory, dedup, ended, streams, faults>>

CreateRun(r) ==
    /\ req[r].stage = "run"
    /\ runs' = Append(runs, r)
    /\ To(r, "memory")
    /\ UNCHANGED <<session, memory, dedup, ended, streams, faults>>

SaveMemory(r) ==
    /\ req[r].stage = "memory"
    /\ memory' = memory \cup {r}
    /\ To(r, IF req[r].payload.alarm # NoAlarm THEN "register" ELSE "answer")
    /\ UNCHANGED <<session, runs, dedup, ended, streams, faults>>

\* register reads the row without a lock, ...
RegisterRead(r) ==
    /\ req[r].stage = "register"
    /\ To(r, IF dedup = NoRow THEN "insert" ELSE "update")
    /\ UNCHANGED <<opening, streams, faults>>

\* Mutant: a row that is there stays as it is.
RegisterKeeps(r) ==
    /\ req[r].stage \in {"insert", "update"}
    /\ IF dedup = NoRow
       THEN /\ dedup' = [session |-> r, alarms |-> {req[r].payload.alarm}, live |-> TRUE]
            /\ To(r, "answer")
       ELSE /\ To(r, "answer")
            /\ UNCHANGED dedup
    /\ UNCHANGED <<session, runs, memory, ended, streams, faults>>

\* ... and writes it: an insert fails when somebody else has inserted it since, an
\* update replaces whatever is there.
Register(r) ==
    /\ req[r].stage \in {"insert", "update"}
    /\ IF req[r].stage = "insert" /\ dedup # NoRow
       THEN /\ To(r, "failed")
            /\ UNCHANGED <<dedup, ended>>
       ELSE /\ dedup' = [session |-> r, alarms |-> {req[r].payload.alarm}, live |-> TRUE]
            /\ ended' = IF dedup = NoRow \/ Apart(dedup.session, r) THEN ended
                        ELSE ended \cup {dedup.session}
            /\ To(r, "answer")
    /\ UNCHANGED <<session, runs, memory, streams, faults>>

\* The audit is written and the answer sent.
AnswerNew(r) ==
    /\ req[r].stage = "answer"
    /\ Answer(r, r, FALSE)
    /\ UNCHANGED <<opening, streams, faults>>

\* A write or a read raises, the client goes, or the process ends.
Aborts(r) ==
    /\ req[r].stage \in CreateStages
    /\ Fault
    /\ To(r, "failed")
    /\ UNCHANGED <<opening, streams>>

\* The window passes without another alarm, ...
DedupExpires ==
    /\ Current
    /\ dedup' = [dedup EXCEPT !.live = FALSE]
    /\ ended' = ended \cup {dedup.session}
    /\ UNCHANGED <<req, session, runs, memory, streams, faults>>

\* ... or a diagnosis of the session fails (DiagnosisSession).  What becomes of a session
\* that is not in a current row is not looked at here.
SessionFails ==
    /\ Current
    /\ \E r \in Requests : req[r].stage = "answered" /\ req[r].session = dedup.session
    /\ session' = [session EXCEPT ![dedup.session] = "FAILED"]
    /\ ended' = ended \cup {dedup.session}
    /\ UNCHANGED <<req, runs, memory, dedup, streams, faults>>

-----------------------------------------------------------------------------
(* stream_message *)

\* Mutant: a request that is refused releases the slot it did not get.
AcquireReleases(r) ==
    /\ req[r].stage = "acquire"
    /\ \/ /\ ttl' = "armed"
          /\ slots' = IF slots < StreamLimit THEN slots + 1 ELSE slots - 1
          /\ To(r, IF slots < StreamLimit THEN "streaming" ELSE "refused")
          /\ UNCHANGED faults
       \/ /\ Fault
          /\ To(r, "refused")
          /\ UNCHANGED <<slots, ttl>>
    /\ UNCHANGED <<opening, leaked, drifted>>

\* Mutant: the key gets no TTL.
AcquireForever(r) ==
    /\ req[r].stage = "acquire"
    /\ \/ /\ slots' = IF slots < StreamLimit THEN slots + 1 ELSE slots
          /\ To(r, IF slots < StreamLimit THEN "streaming" ELSE "refused")
          /\ UNCHANGED <<ttl, faults>>
       \/ /\ Fault
          /\ To(r, "refused")
          /\ UNCHANGED <<slots, ttl>>
    /\ UNCHANGED <<opening, leaked, drifted>>

\* acquire_stream arms the TTL before it looks at the limit; refused over the limit,
\* and in every mode without Redis.
Acquire(r) ==
    /\ req[r].stage = "acquire"
    /\ \/ /\ ttl' = "armed"
          /\ slots' = IF slots < StreamLimit THEN slots + 1 ELSE slots
          /\ To(r, IF slots < StreamLimit THEN "streaming" ELSE "refused")
          /\ UNCHANGED faults
       \/ /\ Fault
          /\ To(r, "refused")
          /\ UNCHANGED <<slots, ttl>>
    /\ UNCHANGED <<opening, leaked, drifted>>

\* The generator ends and releases its slot, whatever the counter stands at.
EndStream(r) ==
    /\ req[r].stage = "streaming"
    /\ To(r, "answered")
    /\ slots' = IF slots > 0 THEN slots - 1 ELSE 0
    /\ ttl' = IF slots > 1 THEN ttl ELSE "none"
    /\ UNCHANGED <<opening, leaked, drifted, faults>>

\* A stream ends and does not release: the client goes before the generator starts, the
\* release, which is not shielded, is cancelled with it or fails, or the process ends.
LoseStream(r) ==
    /\ r \in Open
    /\ Fault
    /\ To(r, "failed")
    /\ leaked' = leaked + 1
    /\ UNCHANGED <<opening, slots, ttl, drifted>>

\* A client beyond Requests acquires before the key expires: it is refused, and tries
\* again as Retry-After tells it to, or it streams and releases.  The counter is as
\* before, and the key is kept for another 300 seconds.
Knock ==
    /\ slots > 0
    /\ ttl = "due"
    /\ ttl' = "armed"
    /\ UNCHANGED <<req, opening, slots, leaked, drifted, faults>>

\* Almost 300 seconds without an acquire, ...
TtlRunsDown ==
    /\ slots > 0
    /\ ttl = "armed"
    /\ ttl' = "due"
    /\ UNCHANGED <<req, opening, slots, leaked, drifted, faults>>

\* ... and 300.
SlotsExpire ==
    /\ slots > 0
    /\ ttl = "due"
    /\ slots' = 0
    /\ ttl' = "none"
    /\ leaked' = 0
    /\ drifted' = (drifted \/ Open # {})
    /\ UNCHANGED <<req, opening, faults>>

-----------------------------------------------------------------------------

RequestStep(r) ==
    \/ Lookup(r) \/ Hit(r) \/ AnswerMerged(r) \/ CreateSession(r) \/ CreateRun(r)
    \/ SaveMemory(r) \/ RegisterRead(r) \/ Register(r) \/ AnswerNew(r)
    \/ Acquire(r) \/ EndStream(r)

Next ==
    \/ \E r \in Requests, p \in Payloads : Arrive(r, p)
    \/ \E r \in Requests : RequestStep(r) \/ Aborts(r) \/ LoseStream(r)
    \/ DedupExpires \/ SessionFails \/ Knock \/ TtlRunsDown \/ SlotsExpire

\* The server goes on with every request it has, and time passes.  Nobody has to knock,
\* and nobody has to stop.
Spec ==
    /\ Init
    /\ [][Next]_vars
    /\ \A r \in Requests : WF_vars(RequestStep(r))
    /\ WF_vars(TtlRunsDown) /\ WF_vars(SlotsExpire)

-----------------------------------------------------------------------------
(* Properties *)

\* Whatever session an answer names has its row and its run, although other requests
\* stopped half way; an alarm is merged only into a session that has its memory too.
\* (The types are checked with it: a session has one run of its creation.)
AnsweredIsComplete ==
    /\ TypeOK
    /\ \A r \in Requests :
          req[r].stage = "answered" /\ Creates(r) =>
              /\ session[req[r].session] # "none"
              /\ req[r].session \in Range(runs)
              /\ req[r].merged => req[r].session \in memory

\* Requests that share a key but do not overlap: one run between them, however often
\* the client repeats after a failure; and no answer names the session of another
\* payload, unless it says merged.
KeyOpensOne ==
    /\ \A r, s \in Range(runs) :
          r # s /\ req[r].payload.key = req[s].payload.key => req[r].payload.key = NoKey \/ ~Apart(r, s)
    /\ \A r \in Requests :
          req[r].stage = "answered" /\ Creates(r) /\ ~req[r].merged =>
              req[req[r].session].payload = req[r].payload

\* Alarms of one device and category that come one after the other share a session:
\* two registered sessions have overlapped, or the window of one had passed or its
\* diagnosis failed.
AlarmsShareSession ==
    \A r, s \in Requests :
        r # s /\ {r, s} \cap ended = {} =>
            ~(/\ \A t \in {r, s} : req[t].stage = "answered" /\ req[t].session = t
              /\ \A t \in {r, s} : Creates(t) /\ req[t].payload.alarm # NoAlarm
              /\ Apart(r, s))

\* While the row names a session it lists the alarms of all the requests that were told
\* they had been merged into it.
MergedIsRecorded ==
    \A r \in Requests :
        req[r].stage = "answered" /\ req[r].merged /\ dedup.session = req[r].session =>
            req[r].payload.alarm \in dedup.alarms

\* De-duplication keeps its promise to alarms that come one after the other, over
\* requests that stop half way, windows that pass and diagnoses that fail.
AlarmsMerge == AlarmsShareSession /\ MergedIsRecorded

\* The counter of streams is the number of the open ones and of those lost without a
\* release, and so no more than the limit are open, unless the key has expired under
\* an open stream.
StreamsCounted == ~drifted => slots = Cardinality(Open) + leaked

\* Slots come back, those of lost streams too: the counter does not stay above zero,
\* unless clients, admitted or refused, keep acquiring before the key expires.
SlotsReturn == []<><<Knock>>_vars \/ ((slots > 0) ~> (slots = 0))
=============================================================================
