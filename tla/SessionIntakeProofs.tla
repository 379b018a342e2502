------------------------- MODULE SessionIntakeProofs -------------------------
(***************************************************************************)
(* Theorems about SessionIntake, for every number of requests and faults,  *)
(* every limit of streams and whatever alarms, keys and payloads are used. *)
(***************************************************************************)
EXTENDS SessionIntake, FiniteSetTheorems, TLAPS

-----------------------------------------------------------------------------
(* The inductive invariant *)

HasAlarm == {"dedup", "merged", "register", "insert", "update"}
HasMemory == {"register", "insert", "update", "answer"}
HasRun == {"memory"} \cup HasMemory
HasSession == {"run"} \cup HasRun

\* Where a request whose session is in the row can be.
Done == {"answer", "answered", "failed"}

\* What a request is shows in where it waits.
Kinds ==
    \A r \in Requests :
        /\ req[r].stage \in CreateStages => req[r].payload.kind = "create"
        /\ req[r].stage \in StreamStages => req[r].payload.kind = "stream" /\ ~req[r].merged
        /\ req[r].stage \in HasAlarm => req[r].payload.alarm # NoAlarm

\* The parts of a session are made in this order, and only by create_session.
Progress ==
    /\ \A r \in Requests :
          /\ req[r].stage \in HasSession \ {"answer"} => session[r] = "INIT"
          /\ req[r].stage \in HasRun => r \in Range(runs)
          /\ req[r].stage \in HasMemory => r \in memory
    /\ \A r \in Range(runs) :
          /\ session[r] # "none"
          /\ Creates(r)
          /\ req[r].stage \in HasRun \cup {"answered", "failed"}
    /\ memory \subseteq Range(runs)

\* The row is of a session that was complete, and one that cannot be shared has ended.
RowComplete ==
    dedup # NoRow =>
        /\ dedup.session \in memory
        /\ req[dedup.session].stage \in Done
        /\ Current \/ dedup.session \in ended

\* A request told, or to be told, that it was merged.
Joined(r) == req[r].stage = "merged" \/ (req[r].stage = "answered" /\ req[r].merged)

JoinedRecorded ==
    \A r \in Requests : Joined(r) =>
        /\ req[r].session \in memory
        /\ req[req[r].session].stage \in Done
        /\ req[r].payload.kind = "create"
        /\ dedup.session = req[r].session => req[r].payload.alarm \in dedup.alarms

AnsweredNames ==
    \A r \in Requests : req[r].stage = "answered" /\ Creates(r) =>
        /\ req[r].session \in Range(runs)
        /\ ~req[r].merged => req[req[r].session].payload = req[r].payload

Shape == Kinds /\ Progress /\ RowComplete /\ JoinedRecorded /\ AnsweredNames

\* Those that had ended when a request came stay where they are.
AfterEnded == \A r \in Requests : req[r].stage # "none" => \A s \in req[r].after : Ended(s)

\* Whoever is past the lookup had no run with the key before it.
NoTwin ==
    \A r \in Requests :
        /\ req[r].stage \in CreateStages \ {"lookup"} \/ r \in Range(runs)
        /\ req[r].payload.key # NoKey
        => \A s \in req[r].after \cap Range(runs) : req[s].payload.key # req[r].payload.key

\* A session that is opened for an alarm and may still be shared is the one in the row.
Opened(r) ==
    /\ Creates(r)
    /\ req[r].payload.alarm # NoAlarm
    /\ req[r].stage = "answer" \/ (req[r].stage = "answered" /\ req[r].session = r)

OpenedIsRow == \A r \in Requests \ ended : Opened(r) => dedup # NoRow /\ dedup.session = r

\* Whoever opens a session for an alarm found no session to share that was before it.
Late ==
    \A r \in Requests :
        /\ req[r].stage \in (HasSession \ {"answer"}) \cup {"session"}
        /\ req[r].payload.alarm # NoAlarm
        /\ dedup # NoRow
        /\ dedup.session \in req[r].after
        => dedup.session \in ended

Order == AfterEnded /\ NoTwin /\ OpenedIsRow /\ Late

Counts == StreamsCounted /\ leaked <= faults

Inv == TypeOK /\ Shape /\ Order /\ Counts

-----------------------------------------------------------------------------
(* How a request moves *)

\* r goes on to the stage, and keeps what it came with; nobody else moves.
Moves(r, stage) ==
    /\ req' \in [Requests -> Request]
    /\ req[r] # NoRequest /\ req'[r] # NoRequest
    /\ req'[r].stage = stage
    /\ req'[r].payload = req[r].payload
    /\ req'[r].after = req[r].after
    /\ \A s \in Requests \ {r} : req'[s] = req[s]

\* What it has been told is as it was.
Keeps(r) == req'[r].session = req[r].session /\ req'[r].merged = req[r].merged

\* A request that has come is a record with these fields.
LEMMA RequestFields ==
    ASSUME TypeOK, NEW r \in Requests, req[r].stage # "none"
    PROVE  /\ req[r] \in [stage : Stages \cup Ends, payload : Payload, after : SUBSET Requests,
                          session : Requests \cup {Nobody}, merged : BOOLEAN]
           /\ req[r] # NoRequest
BY DEF TypeOK, Request, NoRequest

LEMMA ToMoves ==
    ASSUME TypeOK, NEW r \in Requests, req[r].stage # "none", NEW stage \in Stages \cup Ends,
           To(r, stage)
    PROVE  Moves(r, stage) /\ Keeps(r)
<1> DEFINE new == [req[r] EXCEPT !.stage = stage]
<1>1. req \in [Requests -> Request] /\ req' = [req EXCEPT ![r] = new]
  BY DEF To, TypeOK
<1>2. /\ new \in Request /\ new # NoRequest /\ req[r] # NoRequest
      /\ new.stage = stage /\ new.payload = req[r].payload /\ new.after = req[r].after
      /\ new.session = req[r].session /\ new.merged = req[r].merged
  BY RequestFields DEF Request, NoRequest
<1> QED
  BY <1>1, <1>2 DEF Moves, Keeps

LEMMA AnswerMoves ==
    ASSUME TypeOK, NEW r \in Requests, req[r].stage # "none",
           NEW s \in Requests, NEW merged \in BOOLEAN, Answer(r, s, merged)
    PROVE  Moves(r, "answered") /\ req'[r].session = s /\ req'[r].merged = merged
<1> DEFINE new == [req[r] EXCEPT !.stage = "answered", !.session = s, !.merged = merged]
<1>1. req \in [Requests -> Request] /\ req' = [req EXCEPT ![r] = new]
  BY DEF Answer, TypeOK
<1>2. "answered" \in Ends
  BY DEF Ends
<1>3. /\ new \in Request /\ new # NoRequest /\ req[r] # NoRequest
      /\ new.stage = "answered" /\ new.payload = req[r].payload /\ new.after = req[r].after
      /\ new.session = s
  BY <1>2, RequestFields DEF Request, NoRequest
<1>4. new.merged = merged
  BY RequestFields
<1> HIDE DEF new
<1>5. req'[r] = new /\ req' \in [Requests -> Request] /\ \A x \in Requests \ {r} : req'[x] = req[x]
  BY <1>1, <1>3
<1> QED
  BY <1>3, <1>4, <1>5 DEF Moves

LEMMA MergeMoves ==
    ASSUME TypeOK, NEW r \in Requests, req[r].stage # "none", NEW s \in Requests,
           req' = [req EXCEPT ![r].stage = "merged", ![r].session = s]
    PROVE  Moves(r, "merged") /\ req'[r].session = s
<1> DEFINE new == [req[r] EXCEPT !.stage = "merged", !.session = s]
<1>1. req \in [Requests -> Request] /\ req' = [req EXCEPT ![r] = new]
  BY DEF TypeOK
<1>2. "merged" \in Stages
  BY DEF Stages, CreateStages
<1>3. /\ new \in Request /\ new # NoRequest /\ req[r] # NoRequest
      /\ new.stage = "merged" /\ new.payload = req[r].payload /\ new.after = req[r].after
      /\ new.session = s
  BY <1>2, RequestFields DEF Request, NoRequest
<1> QED
  BY <1>1, <1>3 DEF Moves

\* What the range of the runs becomes, and a session gets only one.
LEMMA RunsAppend ==
    ASSUME runs \in Seq(Requests), IsInjective(runs), NEW r \in Requests, r \notin Range(runs),
           runs' = Append(runs, r)
    PROVE  runs' \in Seq(Requests) /\ IsInjective(runs)' /\ Range(runs)' = Range(runs) \cup {r}
<1>1. /\ runs' \in Seq(Requests) /\ DOMAIN runs = 1..Len(runs) /\ DOMAIN runs' = 1..(Len(runs) + 1)
      /\ Len(runs) \in Nat
      /\ \A i \in 1..Len(runs) : runs'[i] = runs[i]
      /\ runs'[Len(runs) + 1] = r
  OBVIOUS
<1>2. Range(runs)' = Range(runs) \cup {r}
  BY <1>1 DEF Range
<1>3. IsInjective(runs)'
  BY <1>1 DEF IsInjective, Range
<1> QED
  BY <1>1, <1>2, <1>3
\* Everything that is named is a request.
Named ==
    /\ Range(runs) \subseteq Requests
    /\ memory \subseteq Requests
    /\ dedup # NoRow => dedup.session \in Requests
    /\ \A r \in Requests : req[r].stage # "none" =>
          req[r].after \subseteq Requests /\ req[r] # NoRequest
    /\ NoRequest.stage = "none"

LEMMA Names ==
    ASSUME TypeOK
    PROVE  Named
<1>1. Range(runs) \subseteq Requests
  BY DEF TypeOK, Range
<1>2. dedup # NoRow => dedup.session \in Requests
  BY DEF TypeOK, Row
<1>3. \A r \in Requests : req[r].stage # "none" =>
         req[r].after \subseteq Requests /\ req[r] # NoRequest
  BY RequestFields
<1> QED
  BY <1>1, <1>2, <1>3 DEF Named, TypeOK, NoRequest

-----------------------------------------------------------------------------
(* One lemma per action, about sessions and alarms *)

LEMMA CreateRunKeeps ==
    ASSUME TypeOK, Shape, Order, NEW r \in Requests, CreateRun(r)
    PROVE  Shape' /\ Order' /\ runs' \in Seq(Requests) /\ IsInjective(runs)'
<1>1. Moves(r, "memory") /\ Keeps(r)
  BY ToMoves DEF CreateRun, Stages, CreateStages
<1>2. r \notin Range(runs)
  BY DEF CreateRun, Shape, Progress, HasRun, HasMemory
<1>3. runs' \in Seq(Requests) /\ IsInjective(runs)' /\ Range(runs)' = Range(runs) \cup {r}
  BY <1>2, RunsAppend DEF TypeOK, CreateRun
<1>4. req[r].stage = "run" /\ UNCHANGED <<session, memory, dedup, ended>>
  BY DEF CreateRun
<1>0. Named
  BY Names
<1> USE <1>0, <1>1, <1>3, <1>4 DEF Moves, Keeps, Named
<1>5. Kinds'
  BY DEF Shape, Kinds, CreateStages, StreamStages, HasAlarm
<1>6. Progress'
  <2>1. req[r].payload.kind = "create" /\ session[r] = "INIT"
    BY DEF Shape, Kinds, Progress, HasSession, CreateStages
  <2>2. \A x \in Requests :
           /\ req'[x].stage \in HasSession \ {"answer"} => session[x] = "INIT"
           /\ req'[x].stage \in HasRun => x \in Range(runs)'
           /\ req'[x].stage \in HasMemory => x \in memory
    BY <2>1 DEF Shape, Progress, HasMemory
  <2>3. Creates(r)' /\ req'[r].stage \in HasRun
    BY <2>1 DEF Creates, HasRun
  <2>4. \A x \in Range(runs) : session[x] # "none" /\ Creates(x)' /\ req'[x].stage \in HasRun \cup {"answered", "failed"}
    BY <1>2 DEF Shape, Progress, Creates
  <2>5. memory' \subseteq Range(runs)'
    BY DEF Shape, Progress
  <2> QED
    BY <2>1, <2>2, <2>3, <2>4, <2>5 DEF Progress
<1>7. RowComplete'
  BY DEF Shape, RowComplete, Current, Done
<1>8. JoinedRecorded'
  BY DEF Shape, JoinedRecorded, Joined, Done
<1>9. AnsweredNames'
  BY DEF Shape, AnsweredNames, Creates
<1>10. AfterEnded'
  BY DEF Order, AfterEnded, Ended, Ends
<1>11. NoTwin'
  <2>1. \A x \in Requests : req[x].stage # "none" => r \notin req[x].after
    BY DEF Order, AfterEnded, Ended, Ends
  <2>2. \A x \in Range(runs) : req[x].stage # "none"
    BY DEF Shape, Progress, HasRun, HasMemory
  <2>3. \A x \in Requests : req'[x].payload = req[x].payload /\ req'[x].after = req[x].after
    OBVIOUS
  <2>4. ASSUME NEW x \in Requests,
               req'[x].stage \in CreateStages \ {"lookup"} \/ x \in Range(runs)'
        PROVE  /\ req[x].stage \in CreateStages \ {"lookup"} \/ x \in Range(runs)
               /\ req[x].stage # "none"
    BY <2>2, <2>4 DEF CreateStages
  <2> QED
    BY <2>1, <2>3, <2>4 DEF Order, NoTwin
<1>12. OpenedIsRow'
  BY DEF Order, OpenedIsRow, Opened, Creates
<1>13. Late'
  BY DEF Order, Late, HasSession, HasRun, HasMemory
<1> QED
  BY <1>5, <1>6, <1>7, <1>8, <1>9, <1>10, <1>11, <1>12, <1>13 DEF Shape, Order

\* A request that goes on has not ended, so nobody came after its end.
LEMMA MoveAfterEnded ==
    ASSUME TypeOK, AfterEnded, NEW r \in Requests, NEW stage, Moves(r, stage),
           req[r].stage \notin Ends, req[r].stage # "none"
    PROVE  /\ AfterEnded'
           /\ \A x \in Requests : req[x].stage # "none" => r \notin req[x].after
<1>1. Named
  BY Names
<1>2. \A x \in Requests : req[x].stage # "none" => r \notin req[x].after
  BY DEF AfterEnded, Ended
<1>3. AfterEnded'
  BY <1>1, <1>2 DEF Moves, AfterEnded, Ended, Named
<1> QED
  BY <1>2, <1>3

\* Nobody gets past the lookup but by it.
LEMMA MoveNoTwin ==
    ASSUME TypeOK, NoTwin, NEW r \in Requests, NEW stage, Moves(r, stage), UNCHANGED runs,
           stage \in CreateStages \ {"lookup"} => req[r].stage \in CreateStages \ {"lookup"}
    PROVE  NoTwin'
<1>1. Named
  BY Names
<1>2. \A x \in Requests : req'[x].payload = req[x].payload /\ req'[x].after = req[x].after
  BY DEF Moves
<1>3. ASSUME NEW x \in Requests,
             req'[x].stage \in CreateStages \ {"lookup"} \/ x \in Range(runs)'
      PROVE  req[x].stage \in CreateStages \ {"lookup"} \/ x \in Range(runs)
  BY <1>3 DEF Moves
<1>4. Range(runs)' = Range(runs) /\ Range(runs) \subseteq Requests
  BY <1>1 DEF Named
<1> QED
  BY <1>2, <1>3, <1>4 DEF NoTwin

\* A request that stops leaves what it has made.
LEMMA StopKeeps ==
    ASSUME TypeOK, Shape, Order, NEW r \in Requests, NEW stage \in {"failed", "refused"},
           Moves(r, stage), Keeps(r), req[r].stage \in Stages, UNCHANGED opening,
           stage = "refused" => r \notin Range(runs)
    PROVE  Shape' /\ Order'
<1>0. Named
  BY Names
<1>1. req[r].stage \notin Ends /\ req[r].stage # "none"
  BY DEF Stages, CreateStages, StreamStages, Ends
<1> USE <1>0, <1>1 DEF Moves, Keeps, Named, opening
<1>2. Kinds'
  BY DEF Shape, Kinds, CreateStages, StreamStages, HasAlarm
<1>3. Progress'
  BY DEF Shape, Progress, HasSession, HasRun, HasMemory, Creates
<1>4. RowComplete'
  BY DEF Shape, RowComplete, Progress, Current, Done
<1>5. JoinedRecorded'
  BY DEF Shape, JoinedRecorded, Progress, Joined, Done
<1>6. AnsweredNames'
  BY DEF Shape, AnsweredNames, Creates
<1>7. AfterEnded'
  BY MoveAfterEnded DEF Order
<1>8. NoTwin'
  BY MoveNoTwin DEF Order, CreateStages
<1>9. OpenedIsRow'
  BY DEF Order, OpenedIsRow, Opened, Creates
<1>10. Late'
  BY DEF Order, Late, HasSession, HasRun, HasMemory
<1> QED
  BY <1>2, <1>3, <1>4, <1>5, <1>6, <1>7, <1>8, <1>9, <1>10 DEF Shape, Order

\* A stream has nothing to do with sessions.
LEMMA StreamKeeps ==
    ASSUME TypeOK, Shape, Order, NEW r \in Requests, NEW stage \in {"streaming", "answered"},
           Moves(r, stage), Keeps(r), req[r].stage \in StreamStages, UNCHANGED opening
    PROVE  Shape' /\ Order'
<1>0. Named
  BY Names
<1>1. req[r].stage \notin Ends /\ req[r].stage # "none"
  BY DEF StreamStages, Ends
<1>2. req[r].payload.kind = "stream" /\ ~req[r].merged /\ r \notin Range(runs)
  BY DEF Shape, Kinds, Progress, StreamStages, HasRun, HasMemory
<1> USE <1>0, <1>1, <1>2 DEF Moves, Keeps, Named, opening
<1>3. Kinds'
  BY DEF Shape, Kinds, CreateStages, StreamStages, HasAlarm
<1>4. Progress'
  BY DEF Shape, Progress, HasSession, HasRun, HasMemory, Creates
<1>5. RowComplete'
  BY DEF Shape, RowComplete, Progress, Current
<1>6. JoinedRecorded'
  BY DEF Shape, JoinedRecorded, Progress, Joined
<1>7. AnsweredNames'
  BY DEF Shape, AnsweredNames, Creates
<1>8. AfterEnded'
  BY MoveAfterEnded DEF Order
<1>9. NoTwin'
  BY MoveNoTwin DEF Order, CreateStages
<1>10. OpenedIsRow'
  BY DEF Order, OpenedIsRow, Opened, Creates
<1>11. Late'
  BY DEF Order, Late, HasSession, HasRun, HasMemory
<1> QED
  BY <1>3, <1>4, <1>5, <1>6, <1>7, <1>8, <1>9, <1>10, <1>11 DEF Shape, Order

LEMMA CreateSessionKeeps ==
    ASSUME TypeOK, Shape, Order, NEW r \in Requests, CreateSession(r)
    PROVE  Shape' /\ Order'
<1>0. Named
  BY Names
<1>1. Moves(r, "run") /\ Keeps(r)
  BY ToMoves DEF CreateSession, Stages, CreateStages
<1>2. req[r].stage = "session" /\ session' = [session EXCEPT ![r] = "INIT"]
      /\ UNCHANGED <<runs, memory, dedup, ended>>
  BY DEF CreateSession
<1>3. r \notin Range(runs)
  BY <1>2 DEF Shape, Progress, HasRun, HasMemory
<1>4. session \in [Requests -> {"none", "INIT", "FAILED"}]
  BY DEF TypeOK
<1> USE <1>0, <1>1, <1>2, <1>3, <1>4 DEF Moves, Keeps, Named
<1>5. Kinds'
  BY DEF Shape, Kinds, CreateStages, StreamStages, HasAlarm
<1>6. Progress'
  BY DEF Shape, Progress, HasSession, HasRun, HasMemory, Creates
<1>7. RowComplete'
  BY DEF Shape, RowComplete, Progress, Current
<1>8. JoinedRecorded'
  BY DEF Shape, JoinedRecorded, Progress, Joined
<1>9. AnsweredNames'
  BY DEF Shape, AnsweredNames, Creates
<1>10. AfterEnded'
  BY MoveAfterEnded DEF Order, Ends
<1>11. NoTwin'
  BY MoveNoTwin DEF Order, CreateStages
<1>12. OpenedIsRow'
  BY DEF Order, OpenedIsRow, Opened, Creates
<1>13. Late'
  BY DEF Order, Late, HasSession, HasRun, HasMemory
<1> QED
  BY <1>5, <1>6, <1>7, <1>8, <1>9, <1>10, <1>11, <1>12, <1>13 DEF Shape, Order

LEMMA SaveMemoryKeeps ==
    ASSUME TypeOK, Shape, Order, NEW r \in Requests, SaveMemory(r)
    PROVE  Shape' /\ Order'
<1>0. Named
  BY Names
<1> DEFINE next == IF req[r].payload.alarm # NoAlarm THEN "register" ELSE "answer"
<1>1. Moves(r, next) /\ Keeps(r)
  BY ToMoves DEF SaveMemory, Stages, CreateStages
<1>2. req[r].stage = "memory" /\ memory' = memory \cup {r}
      /\ UNCHANGED <<session, runs, dedup, ended>>
  BY DEF SaveMemory
<1>3. r \in Range(runs)
  BY <1>2 DEF Shape, Progress, HasRun
<1> USE <1>0, <1>1, <1>2, <1>3 DEF Moves, Keeps, Named
<1>5. Kinds'
  BY DEF Shape, Kinds, CreateStages, StreamStages, HasAlarm
<1>6. Progress'
  BY DEF Shape, Progress, HasSession, HasRun, HasMemory, Creates
<1>7. RowComplete'
  BY DEF Shape, RowComplete, Progress, Current, Done
<1>8. JoinedRecorded'
  BY DEF Shape, JoinedRecorded, Progress, Joined, Done
<1>9. AnsweredNames'
  BY DEF Shape, AnsweredNames, Creates
<1>10. AfterEnded'
  BY MoveAfterEnded DEF Order, Ends
<1>11. NoTwin'
  BY MoveNoTwin DEF Order, CreateStages
<1>12. OpenedIsRow'
  BY DEF Order, OpenedIsRow, Opened, Creates
<1>13. Late'
  BY DEF Order, Late, HasSession, HasRun, HasMemory
<1> QED
  BY <1>5, <1>6, <1>7, <1>8, <1>9, <1>10, <1>11, <1>12, <1>13 DEF Shape, Order

\* find_idempotent_global: no run has the key, or the last that has is the answer.
LEMMA LookupKeeps ==
    ASSUME TypeOK, Shape, Order, NEW r \in Requests, Lookup(r)
    PROVE  Shape' /\ Order'
<1>0. Named
  BY Names
<1>1. req[r].stage = "lookup" /\ UNCHANGED opening
  BY DEF Lookup
<1>2. r \notin Range(runs) /\ r \notin memory /\ req[r].payload.kind = "create"
  BY <1>1 DEF Shape, Progress, Kinds, HasRun, HasMemory, CreateStages
<1>3. CASE Keyed(req[r].payload.key) = {} /\ To(r, AfterLookup(req[r].payload))
  <2> DEFINE next == AfterLookup(req[r].payload)
  <2>1. next \in {"dedup", "session"} /\ (next = "dedup" => req[r].payload.alarm # NoAlarm)
        /\ (next = "session" => req[r].payload.alarm = NoAlarm)
    BY DEF AfterLookup
  <2>2. Moves(r, next) /\ Keeps(r)
    BY <1>1, <1>3, <2>1, ToMoves DEF Stages, CreateStages
  <2>3. \A s \in Range(runs) : req[s].payload.key # req[r].payload.key
    BY <1>3 DEF Keyed, Range
  <2> HIDE DEF next
  <2> USE <1>0, <1>1, <1>2, <2>1, <2>2 DEF Moves, Keeps, Named, opening
  <2>5. Kinds'
    BY DEF Shape, Kinds, CreateStages, StreamStages, HasAlarm
  <2>6. Progress'
    BY DEF Shape, Progress, HasSession, HasRun, HasMemory, Creates
  <2>7. RowComplete'
    BY DEF Shape, RowComplete, Progress, Current, Done
  <2>8. JoinedRecorded'
    BY DEF Shape, JoinedRecorded, Progress, Joined, Done
  <2>9. AnsweredNames'
    BY DEF Shape, AnsweredNames, Creates
  <2>10. AfterEnded'
    BY MoveAfterEnded DEF Order, Ends
  <2>11. NoTwin'
    <3>1. \A x \in Requests : req'[x].payload = req[x].payload /\ req'[x].after = req[x].after
      OBVIOUS
    <3>2. Range(runs)' = Range(runs)
      OBVIOUS
    <3>3. ASSUME NEW x \in Requests \ {r},
                 req'[x].stage \in CreateStages \ {"lookup"} \/ x \in Range(runs)',
                 req'[x].payload.key # NoKey, NEW s \in req'[x].after \cap Range(runs)'
          PROVE  req'[s].payload.key # req'[x].payload.key
      BY <3>1, <3>2, <3>3 DEF Order, NoTwin
    <3>4. \A s \in Range(runs) : req'[s].payload.key # req'[r].payload.key
      BY <2>3, <3>1
    <3> QED
      BY <3>2, <3>3, <3>4 DEF NoTwin
  <2>12. OpenedIsRow'
    BY DEF Order, OpenedIsRow, Opened, Creates
  <2>13. Late'
    BY DEF Order, Late, HasSession, HasRun, HasMemory
  <2> QED
    BY <2>5, <2>6, <2>7, <2>8, <2>9, <2>10, <2>11, <2>12, <2>13 DEF Shape, Order
<1>4. ASSUME NEW i \in LastOf(Keyed(req[r].payload.key)), req[runs[i]].payload = req[r].payload,
             Answer(r, runs[i], FALSE)
      PROVE  Shape' /\ Order'
  <2>1. runs[i] \in Range(runs)
    BY DEF LastOf, Keyed, Range
  <2>2. Moves(r, "answered") /\ req'[r].session = runs[i] /\ req'[r].merged = FALSE
    BY <1>0, <1>1, <1>4, <2>1, AnswerMoves DEF Named
  <2>3. runs[i] # r
    BY <1>2, <2>1
  <2> USE <1>0, <1>1, <1>2, <1>4, <2>1, <2>2, <2>3 DEF Moves, Named, opening
  <2>5. Kinds'
    BY DEF Shape, Kinds, CreateStages, StreamStages, HasAlarm
  <2>6. Progress'
    BY DEF Shape, Progress, HasSession, HasRun, HasMemory, Creates
  <2>7. RowComplete'
    BY DEF Shape, RowComplete, Progress, Current, Done
  <2>8. JoinedRecorded'
    BY DEF Shape, JoinedRecorded, Progress, Joined, Done
  <2>9. AnsweredNames'
    BY DEF Shape, AnsweredNames, Creates
  <2>10. AfterEnded'
    BY MoveAfterEnded DEF Order, Ends
  <2>11. NoTwin'
    BY MoveNoTwin DEF Order, CreateStages
  <2>12. OpenedIsRow'
    BY DEF Order, OpenedIsRow, Opened, Creates
  <2>13. Late'
    BY DEF Order, Late, HasSession, HasRun, HasMemory
  <2> QED
    BY <2>5, <2>6, <2>7, <2>8, <2>9, <2>10, <2>11, <2>12, <2>13 DEF Shape, Order
<1>5. CASE To(r, "refused")
  <2>1. Moves(r, "refused") /\ Keeps(r)
    BY <1>1, <1>5, ToMoves DEF Ends
  <2> QED
    BY <1>1, <1>2, <2>1, StopKeeps DEF Stages, CreateStages
<1> QED
  BY <1>3, <1>4, <1>5 DEF Lookup

\* An alarm is merged into the row, or no session can be shared.
LEMMA HitKeeps ==
    ASSUME TypeOK, Shape, Order, NEW r \in Requests, Hit(r)
    PROVE  Shape' /\ Order'
<1>0. Named
  BY Names
<1>1. req[r].stage = "dedup" /\ UNCHANGED <<session, runs, memory, ended>>
  BY DEF Hit
<1>2. /\ r \notin Range(runs) /\ r \notin memory /\ req[r].payload.kind = "create"
      /\ req[r].payload.alarm # NoAlarm
  BY <1>1 DEF Shape, Progress, Kinds, HasRun, HasMemory, CreateStages, HasAlarm
<1>3. CASE Current
  <2>1. dedup # NoRow /\ dedup.session \in Requests
    BY <1>0, <1>3 DEF Current, Named
  <2>2. Moves(r, "merged") /\ req'[r].session = dedup.session
    BY <1>1, <1>3, <2>1, MergeMoves DEF Hit
  <2>3. /\ dedup' # NoRow /\ dedup'.session = dedup.session /\ dedup'.live = dedup.live
        /\ dedup'.alarms = dedup.alarms \cup {req[r].payload.alarm}
    BY <1>3, <2>1 DEF Hit, TypeOK, Row, NoRow
  <2>4. /\ dedup.session \in memory /\ req[dedup.session].stage \in Done
        /\ dedup.session # r
    BY <1>2, <2>1 DEF Shape, RowComplete
  <2> USE <1>0, <1>1, <1>2, <2>1, <2>2, <2>3, <2>4 DEF Moves, Named
  <2>5. Kinds'
    BY DEF Shape, Kinds, CreateStages, StreamStages, HasAlarm
  <2>6. Progress'
    BY DEF Shape, Progress, HasSession, HasRun, HasMemory, Creates
  <2>7. RowComplete'
    BY <1>3 DEF Shape, RowComplete, Current
  <2>8. JoinedRecorded'
    BY DEF Shape, JoinedRecorded, Progress, Joined, Done
  <2>9. AnsweredNames'
    BY DEF Shape, AnsweredNames, Creates
  <2>10. AfterEnded'
    BY MoveAfterEnded DEF Order, Ends
  <2>11. NoTwin'
    BY MoveNoTwin DEF Order, CreateStages
  <2>12. OpenedIsRow'
    BY DEF Order, OpenedIsRow, Opened, Creates
  <2>13. Late'
    BY DEF Order, Late, HasSession, HasRun, HasMemory
  <2> QED
    BY <2>5, <2>6, <2>7, <2>8, <2>9, <2>10, <2>11, <2>12, <2>13 DEF Shape, Order
<1>4. CASE ~Current
  <2>1. Moves(r, "session") /\ Keeps(r) /\ UNCHANGED dedup
    BY <1>1, <1>4, ToMoves DEF Hit, Stages, CreateStages
  <2>2. dedup # NoRow => dedup.session \in ended
    BY <1>4 DEF Shape, RowComplete
  <2> USE <1>0, <1>1, <1>2, <2>1, <2>2 DEF Moves, Keeps, Named
  <2>5. Kinds'
    BY DEF Shape, Kinds, CreateStages, StreamStages, HasAlarm
  <2>6. Progress'
    BY DEF Shape, Progress, HasSession, HasRun, HasMemory, Creates
  <2>7. RowComplete'
    BY DEF Shape, RowComplete, Progress, Current, Done
  <2>8. JoinedRecorded'
    BY DEF Shape, JoinedRecorded, Progress, Joined, Done
  <2>9. AnsweredNames'
    BY DEF Shape, AnsweredNames, Creates
  <2>10. AfterEnded'
    BY MoveAfterEnded DEF Order, Ends
  <2>11. NoTwin'
    BY MoveNoTwin DEF Order, CreateStages
  <2>12. OpenedIsRow'
    BY DEF Order, OpenedIsRow, Opened, Creates
  <2>13. Late'
    BY DEF Order, Late
  <2> QED
    BY <2>5, <2>6, <2>7, <2>8, <2>9, <2>10, <2>11, <2>12, <2>13 DEF Shape, Order
<1> QED
  BY <1>3, <1>4

\* An answer to a request that opened a session or was merged into one.
LEMMA AnswersKeep ==
    ASSUME TypeOK, Shape, Order, NEW r \in Requests, AnswerMerged(r) \/ AnswerNew(r)
    PROVE  Shape' /\ Order'
<1>0. Named
  BY Names
<1>1. req[r].stage \in {"merged", "answer"} /\ UNCHANGED opening
  BY DEF AnswerMerged, AnswerNew
<1>2. PICK s \in Requests, merged \in BOOLEAN :
         /\ Answer(r, s, merged)
         /\ req[r].stage = "merged" => s = req[r].session /\ merged
         /\ req[r].stage = "answer" => s = r /\ ~merged
  <2>1. CASE AnswerMerged(r)
    <3>1. req[r].session \in Requests
      BY <1>0, <2>1 DEF AnswerMerged, Shape, JoinedRecorded, Joined, Named
    <3> QED
      BY <2>1, <3>1 DEF AnswerMerged
  <2>2. CASE AnswerNew(r)
    BY <2>2 DEF AnswerNew
  <2> QED
    BY <2>1, <2>2
<1>3. Moves(r, "answered") /\ req'[r].session = s /\ req'[r].merged = merged
  BY <1>1, <1>2, AnswerMoves
<1>4. /\ req[r].payload.kind = "create"
      /\ req[r].stage = "merged" => s \in memory /\ req[s].stage \in Done /\ s # r
      /\ req[r].stage = "answer" => r \in memory /\ r \in Range(runs)
  BY <1>1, <1>2 DEF Shape, Kinds, Progress, JoinedRecorded, Joined, CreateStages, HasRun, HasMemory, Done
<1> USE <1>0, <1>1, <1>2, <1>3, <1>4 DEF Moves, Named, opening
<1>5. Kinds'
  BY DEF Shape, Kinds, CreateStages, StreamStages, HasAlarm
<1>6. Progress'
  BY DEF Shape, Progress, HasSession, HasRun, HasMemory, Creates
<1>7. RowComplete'
  BY DEF Shape, RowComplete, Progress, Current, Done
<1>8. JoinedRecorded'
  BY DEF Shape, JoinedRecorded, Progress, Joined, Done
<1>9. AnsweredNames'
  BY DEF Shape, AnsweredNames, Progress, Creates
<1>10. AfterEnded'
  BY MoveAfterEnded DEF Order, Ends
<1>11. NoTwin'
  BY MoveNoTwin DEF Order, CreateStages
<1>12. OpenedIsRow'
  BY DEF Order, OpenedIsRow, Opened, Creates
<1>13. Late'
  BY DEF Order, Late, HasSession, HasRun, HasMemory
<1> QED
  BY <1>5, <1>6, <1>7, <1>8, <1>9, <1>10, <1>11, <1>12, <1>13 DEF Shape, Order

LEMMA RegisterReadKeeps ==
    ASSUME TypeOK, Shape, Order, NEW r \in Requests, RegisterRead(r)
    PROVE  Shape' /\ Order'
<1>0. Named
  BY Names
<1> DEFINE next == IF dedup = NoRow THEN "insert" ELSE "update"
<1>1. Moves(r, next) /\ Keeps(r)
  BY ToMoves DEF RegisterRead, Stages, CreateStages
<1>2. req[r].stage = "register" /\ UNCHANGED opening /\ next \in {"insert", "update"}
  BY DEF RegisterRead
<1> HIDE DEF next
<1> USE <1>0, <1>1, <1>2 DEF Moves, Keeps, Named, opening
<1>5. Kinds'
  BY DEF Shape, Kinds, CreateStages, StreamStages, HasAlarm
<1>6. Progress'
  BY DEF Shape, Progress, HasSession, HasRun, HasMemory, Creates
<1>7. RowComplete'
  BY DEF Shape, RowComplete, Progress, Current, Done
<1>8. JoinedRecorded'
  BY DEF Shape, JoinedRecorded, Progress, Joined, Done
<1>9. AnsweredNames'
  BY DEF Shape, AnsweredNames, Creates
<1>10. AfterEnded'
  BY MoveAfterEnded DEF Order, Ends
<1>11. NoTwin'
  BY MoveNoTwin DEF Order, CreateStages
<1>12. OpenedIsRow'
  BY DEF Order, OpenedIsRow, Opened, Creates
<1>13. Late'
  BY DEF Order, Late, HasSession, HasRun, HasMemory
<1> QED
  BY <1>5, <1>6, <1>7, <1>8, <1>9, <1>10, <1>11, <1>12, <1>13 DEF Shape, Order

\* The row is replaced.  The session it named ends, for it was opened at the same time.
LEMMA RegisterReplaces ==
    ASSUME TypeOK, Shape, Order, NEW r \in Requests, Register(r)
    PROVE  Shape' /\ Order'
<1>0. Named
  BY Names
<1>1. req[r].stage \in {"insert", "update"} /\ UNCHANGED <<session, runs, memory>>
  BY DEF Register
<1>2. CASE req[r].stage = "insert" /\ dedup # NoRow
  <2>1. Moves(r, "failed") /\ Keeps(r) /\ UNCHANGED opening
    BY <1>1, <1>2, ToMoves DEF Register, Ends, opening
  <2> QED
    BY <1>1, <2>1, StopKeeps DEF Stages, CreateStages
<1>3. CASE ~(req[r].stage = "insert" /\ dedup # NoRow)
  <2>1. Moves(r, "answer") /\ Keeps(r)
    BY <1>1, <1>3, ToMoves DEF Register, Stages, CreateStages
  <2>2. dedup' = [session |-> r, alarms |-> {req[r].payload.alarm}, live |-> TRUE]
    BY <1>3 DEF Register
  <2>3. /\ dedup' # NoRow /\ dedup'.session = r /\ dedup'.alarms = {req[r].payload.alarm}
        /\ dedup'.live
    BY <2>2 DEF NoRow
  <2>4. /\ r \in memory /\ r \in Range(runs) /\ session[r] = "INIT"
        /\ req[r].payload.kind = "create"
    BY <1>1 DEF Shape, Progress, Kinds, HasSession, HasRun, HasMemory, CreateStages
  <2>5. req[r].stage \notin Done /\ req[r].stage \notin Ends /\ req[r].stage # "none"
    BY <1>1 DEF Done, Ends
  <2>6. \A x \in Requests : req[x].stage # "none" => r \notin req[x].after
    BY <2>1, <2>5, MoveAfterEnded DEF Order
  <2>7. ended \subseteq ended' /\ (dedup # NoRow => dedup.session \in ended')
    <3>1. CASE dedup = NoRow
      BY <1>3, <3>1 DEF Register
    <3>2. CASE dedup # NoRow
      <4>1. dedup.session \in Requests /\ req[dedup.session].stage # "none"
        BY <1>0, <3>2 DEF Named, Shape, RowComplete, Done
      <4>2. r \notin req[dedup.session].after
        BY <2>6, <4>1
      <4>3. req[r].payload.alarm # NoAlarm
        BY <1>1 DEF Shape, Kinds, HasAlarm
      <4>4. dedup.session \in req[r].after => dedup.session \in ended
        BY <1>1, <3>2, <4>3 DEF Order, Late, HasSession, HasRun, HasMemory
      <4>5. ended' = IF Apart(dedup.session, r) THEN ended ELSE ended \cup {dedup.session}
        BY <1>3, <3>2 DEF Register
      <4> QED
        BY <4>2, <4>4, <4>5 DEF Apart
    <3> QED
      BY <3>1, <3>2
  <2> USE <1>0, <1>1, <2>1, <2>3, <2>4, <2>5 DEF Moves, Keeps, Named
  <2>8. Kinds'
    BY DEF Shape, Kinds, CreateStages, StreamStages, HasAlarm
  <2>9. Progress'
    BY DEF Shape, Progress, HasSession, HasRun, HasMemory, Creates
  <2>10. RowComplete'
    BY DEF RowComplete, Current, Done
  <2>11. JoinedRecorded'
    <3>1. ASSUME NEW x \in Requests, Joined(x)'
          PROVE  Joined(x) /\ x # r /\ req'[x] = req[x]
      BY <3>1 DEF Joined
    <3>2. ASSUME NEW x \in Requests, Joined(x)
          PROVE  req[x].session # r /\ req[x].session \in Requests
      BY <3>2 DEF Shape, JoinedRecorded
    <3> QED
      BY <3>1, <3>2 DEF Shape, JoinedRecorded
  <2>12. AnsweredNames'
    BY DEF Shape, AnsweredNames, Creates
  <2>13. AfterEnded'
    BY MoveAfterEnded DEF Order
  <2>14. NoTwin'
    BY MoveNoTwin DEF Order, CreateStages
  <2>15. OpenedIsRow'
    <3>1. ASSUME NEW x \in Requests \ ended', Opened(x)', x # r
          PROVE  FALSE
      <4>1. Opened(x) /\ x \notin ended
        BY <2>7, <3>1 DEF Opened, Creates
      <4>2. dedup # NoRow /\ dedup.session = x
        BY <4>1 DEF Order, OpenedIsRow
      <4> QED
        BY <2>7, <3>1, <4>2
    <3> QED
      BY <3>1 DEF OpenedIsRow
  <2>16. Late'
    BY <2>6 DEF Late, HasSession, HasRun, HasMemory
  <2> QED
    BY <2>8, <2>9, <2>10, <2>11, <2>12, <2>13, <2>14, <2>15, <2>16 DEF Shape, Order
<1> QED
  BY <1>2, <1>3

\* The session in the row stops being one to share.
LEMMA RowEnds ==
    ASSUME TypeOK, Shape, Order, DedupExpires \/ SessionFails
    PROVE  Shape' /\ Order'
<1>0. Named
  BY Names
<1>1. /\ dedup # NoRow /\ dedup' # NoRow /\ dedup'.session = dedup.session
      /\ dedup'.alarms = dedup.alarms
      /\ ended' = ended \cup {dedup.session}
      /\ UNCHANGED <<req, runs, memory>>
  BY DEF DedupExpires, SessionFails, Current, TypeOK, Row, NoRow
<1>2. req[dedup.session].stage \in Done /\ dedup.session \in Requests
  BY <1>0, <1>1 DEF Shape, RowComplete, Named
<1>3. /\ \A x \in Requests \ {dedup.session} : session'[x] = session[x]
      /\ session[dedup.session] # "none" => session'[dedup.session] # "none"
  BY <1>2 DEF DedupExpires, SessionFails, TypeOK
<1> USE <1>0, <1>1, <1>2, <1>3 DEF Named
<1>5. Kinds'
  BY DEF Shape, Kinds
<1>6. Progress'
  <2>1. \A x \in Requests : req[x].stage \in HasSession \ {"answer"} => x # dedup.session
    BY DEF HasSession, HasRun, HasMemory, Done
  <2>2. \A x \in Requests : req[x].stage \in HasSession \ {"answer"} => session'[x] = "INIT"
    BY <2>1 DEF Shape, Progress
  <2>3. \A x \in Range(runs) : session'[x] # "none"
    BY DEF Shape, Progress
  <2> QED
    BY <2>2, <2>3 DEF Shape, Progress, Creates
<1>7. RowComplete'
  BY DEF Shape, RowComplete
<1>8. JoinedRecorded'
  BY DEF Shape, JoinedRecorded, Joined
<1>9. AnsweredNames'
  BY DEF Shape, AnsweredNames, Creates
<1>10. AfterEnded'
  BY DEF Order, AfterEnded, Ended
<1>11. NoTwin'
  BY DEF Order, NoTwin
<1>12. OpenedIsRow'
  BY DEF Order, OpenedIsRow, Opened, Creates
<1>13. Late'
  BY DEF Order, Late
<1> QED
  BY <1>5, <1>6, <1>7, <1>8, <1>9, <1>10, <1>11, <1>12, <1>13 DEF Shape, Order

\* A request comes with nothing made.
LEMMA ArriveKeeps ==
    ASSUME TypeOK, Shape, Order, NEW r \in Requests, NEW p \in Payloads, Arrive(r, p)
    PROVE  Shape' /\ Order' /\ req' \in [Requests -> Request]
<1> DEFINE new == [stage |-> Entry(p), payload |-> p, session |-> Nobody,
                   merged |-> FALSE, after |-> {s \in Requests : Ended(s)}]
<1>0. Named
  BY Names
<1>1. req[r] = NoRequest /\ req' = [req EXCEPT ![r] = new] /\ UNCHANGED opening
      /\ req \in [Requests -> Request]
  BY DEF Arrive, TypeOK
<1>2. p \in Payload
  BY PayloadsAssumption
<1>3. /\ Entry(p) \in {"acquire", "lookup", "dedup", "session"}
      /\ Entry(p) = "acquire" <=> p.kind = "stream"
      /\ Entry(p) # "acquire" => p.kind = "create"
      /\ Entry(p) = "dedup" => p.alarm # NoAlarm
      /\ Entry(p) = "session" => p.alarm = NoAlarm /\ p.key = NoKey
      /\ Entry(p) = "dedup" => p.key = NoKey
  BY <1>2 DEF Payload, Entry, AfterLookup
<1>4. new \in Request /\ new # NoRequest
  BY <1>2, <1>3 DEF Request, NoRequest, Stages, CreateStages, StreamStages
<1>5. /\ req'[r] = new /\ req' \in [Requests -> Request]
      /\ \A x \in Requests \ {r} : req'[x] = req[x]
  BY <1>1, <1>4
<1>6. /\ new.stage = Entry(p) /\ new.payload = p /\ ~new.merged
      /\ \A s \in new.after : s \in Requests /\ Ended(s)
  OBVIOUS
<1> HIDE DEF new
<1>7. r \notin Range(runs) /\ r \notin memory /\ (dedup # NoRow => dedup.session # r)
      /\ \A x \in Requests : Joined(x) => req[x].session # r
  BY <1>0, <1>1 DEF Shape, Progress, RowComplete, JoinedRecorded, Done, Named, HasRun, HasMemory
<1>8. req[r].stage = "none" /\ ~Ended(r) /\ ~Joined(r)
  BY <1>0, <1>1 DEF Named, Ended, Ends, Joined
<1> USE <1>0, <1>3, <1>5, <1>6, <1>7, <1>8 DEF Named
<1>10. UNCHANGED <<session, runs, memory, dedup, ended>>
  BY <1>1 DEF opening
<1> USE <1>10
<1>11. Kinds'
  BY DEF Shape, Kinds, CreateStages, StreamStages, HasAlarm
<1>12. Progress'
  BY DEF Shape, Progress, HasSession, HasRun, HasMemory, Creates
<1>13. RowComplete'
  BY DEF Shape, RowComplete, Current
<1>14. JoinedRecorded'
  BY DEF Shape, JoinedRecorded, Joined
<1>15. AnsweredNames'
  BY DEF Shape, AnsweredNames, Creates
<1>16. AfterEnded'
  BY DEF Order, AfterEnded, Ended
<1>17. NoTwin'
  <2>1. ASSUME NEW x \in Requests \ {r},
               req'[x].stage \in CreateStages \ {"lookup"} \/ x \in Range(runs)',
               req'[x].payload.key # NoKey, NEW s \in req'[x].after \cap Range(runs)'
        PROVE  req'[s].payload.key # req'[x].payload.key
    BY <2>1 DEF Order, NoTwin
  <2>2. req'[r].stage \in CreateStages \ {"lookup"} => req'[r].payload.key = NoKey
    BY DEF CreateStages
  <2> QED
    BY <2>1, <2>2 DEF NoTwin
<1>18. OpenedIsRow'
  BY DEF Order, OpenedIsRow, Opened, Creates
<1>19. Late'
  BY DEF Order, Late, HasSession, HasRun, HasMemory
<1> QED
  BY <1>11, <1>12, <1>13, <1>14, <1>15, <1>16, <1>17, <1>18, <1>19 DEF Shape, Order

-----------------------------------------------------------------------------
(* Types and streams *)

\* The steps of create_session, and those of stream_message.
CreateStep(r) ==
    \/ Lookup(r) \/ Hit(r) \/ AnswerMerged(r) \/ CreateSession(r) \/ CreateRun(r)
    \/ SaveMemory(r) \/ RegisterRead(r) \/ Register(r) \/ AnswerNew(r) \/ Aborts(r)

StreamStep(r) == Acquire(r) \/ EndStream(r) \/ LoseStream(r)

LEMMA CreateMoves ==
    ASSUME TypeOK, Shape, NEW r \in Requests, CreateStep(r)
    PROVE  req[r].stage \in CreateStages /\ \E stage \in CreateStages \cup Ends : Moves(r, stage)
<1>0. Named
  BY Names
<1>1. req[r].stage \in CreateStages /\ req[r].stage # "none"
  BY DEF CreateStep, Lookup, Hit, AnswerMerged, CreateSession, CreateRun, SaveMemory,
     RegisterRead, Register, AnswerNew, Aborts, CreateStages
<1>2. ASSUME NEW stage \in CreateStages \cup Ends, To(r, stage)
      PROVE  \E x \in CreateStages \cup Ends : Moves(r, x)
  BY <1>1, <1>2, ToMoves DEF Stages
<1>3. ASSUME NEW s \in Requests, NEW merged \in BOOLEAN, Answer(r, s, merged)
      PROVE  \E x \in CreateStages \cup Ends : Moves(r, x)
  BY <1>1, <1>3, AnswerMoves DEF Ends
<1>4. CASE Lookup(r)
  <2>1. AfterLookup(req[r].payload) \in CreateStages /\ "refused" \in Ends
    BY DEF AfterLookup, CreateStages, Ends
  <2>2. \A i \in LastOf(Keyed(req[r].payload.key)) : runs[i] \in Requests
    BY <1>0 DEF LastOf, Keyed, Range, Named
  <2> QED
    BY <1>1, <1>2, <1>3, <1>4, <2>1, <2>2 DEF Lookup
<1>5. CASE Hit(r)
  <2>1. CASE Current
    <3>1. dedup.session \in Requests
      BY <1>0, <2>1 DEF Current, Named
    <3>2. Moves(r, "merged")
      BY <1>1, <1>5, <2>1, <3>1, MergeMoves DEF Hit
    <3> QED
      BY <1>1, <3>2 DEF CreateStages
  <2>2. CASE ~Current
    BY <1>2, <1>5, <2>2 DEF Hit, CreateStages
  <2> QED
    BY <2>1, <2>2
<1>6. CASE AnswerMerged(r)
  <2>1. req[r].session \in Requests
    BY <1>0, <1>6 DEF AnswerMerged, Shape, JoinedRecorded, Joined, Named
  <2> QED
    BY <1>1, <1>3, <1>6, <2>1 DEF AnswerMerged
<1>7. CASE AnswerNew(r)
  BY <1>1, <1>3, <1>7 DEF AnswerNew
<1>8. CASE CreateSession(r) \/ CreateRun(r) \/ SaveMemory(r) \/ RegisterRead(r)
  BY <1>2, <1>8 DEF CreateSession, CreateRun, SaveMemory, RegisterRead, CreateStages
<1>9. CASE Register(r) \/ Aborts(r)
  BY <1>2, <1>9 DEF Register, Aborts, CreateStages, Ends
<1> QED
  BY <1>1, <1>4, <1>5, <1>6, <1>7, <1>8, <1>9 DEF CreateStep

LEMMA StreamMoves ==
    ASSUME TypeOK, NEW r \in Requests, StreamStep(r)
    PROVE  /\ req[r].stage \in StreamStages
           /\ Keeps(r)
           /\ \E stage \in {"streaming", "refused", "answered", "failed"} :
                 Moves(r, stage) /\ (stage = "streaming" => Acquire(r))
<1>1. req[r].stage \in StreamStages /\ req[r].stage # "none"
  BY DEF StreamStep, Acquire, EndStream, LoseStream, Open, StreamStages
<1>2. PICK stage \in {"streaming", "refused", "answered", "failed"} :
         To(r, stage) /\ (stage = "streaming" => Acquire(r))
  BY DEF StreamStep, Acquire, EndStream, LoseStream
<1>3. Moves(r, stage) /\ Keeps(r)
  BY <1>1, <1>2, ToMoves DEF Stages, StreamStages, Ends
<1> QED
  BY <1>1, <1>2, <1>3

\* Sessions and alarms, whatever happens.
LEMMA OpeningStep ==
    ASSUME TypeOK, Shape, Order, [Next]_vars
    PROVE  Shape' /\ Order'
<1>1. ASSUME NEW r \in Requests, StreamStep(r) PROVE Shape' /\ Order'
  <2>1. UNCHANGED opening
    BY <1>1 DEF StreamStep, Acquire, EndStream, LoseStream
  <2>2. PICK stage \in {"streaming", "refused", "answered", "failed"} : Moves(r, stage)
    BY <1>1, StreamMoves
  <2>3. req[r].stage \in StreamStages /\ Keeps(r) /\ r \notin Range(runs)
    BY <1>1, StreamMoves DEF Shape, Progress, StreamStages, HasRun, HasMemory
  <2> QED
    BY <2>1, <2>2, <2>3, StreamKeeps, StopKeeps DEF Stages
<1>2. ASSUME NEW r \in Requests, Aborts(r) PROVE Shape' /\ Order'
  <2>1. req[r].stage \in Stages /\ req[r].stage # "none" /\ UNCHANGED opening
    BY <1>2 DEF Aborts, Stages, CreateStages
  <2>2. Moves(r, "failed") /\ Keeps(r)
    BY <1>2, <2>1, ToMoves DEF Aborts, Ends
  <2> QED
    BY <2>1, <2>2, StopKeeps
<1>3. CASE UNCHANGED <<req, opening>>
  BY <1>3 DEF opening, Shape, Kinds, Progress, RowComplete, JoinedRecorded, AnsweredNames, Joined,
     Creates, Current, Order, AfterEnded, Ended, NoTwin, OpenedIsRow, Opened, Late
<1>4. CASE Knock \/ TtlRunsDown \/ SlotsExpire \/ UNCHANGED vars
  BY <1>3, <1>4 DEF Knock, TtlRunsDown, SlotsExpire, vars, opening
<1>5. ASSUME NEW r \in Requests, RequestStep(r) PROVE Shape' /\ Order'
  BY <1>1, <1>5, LookupKeeps, HitKeeps, AnswersKeep, CreateSessionKeeps, CreateRunKeeps,
     SaveMemoryKeeps, RegisterReadKeeps, RegisterReplaces DEF RequestStep, StreamStep
<1> QED
  BY <1>1, <1>2, <1>4, <1>5, RowEnds, ArriveKeeps DEF Next, StreamStep

\* Every request stays one.
LEMMA RequestType ==
    ASSUME TypeOK, Shape, Order, [Next]_vars
    PROVE  req' \in [Requests -> Request]
<1>1. ASSUME NEW r \in Requests, CreateStep(r) \/ StreamStep(r)
      PROVE  req' \in [Requests -> Request]
  BY <1>1, CreateMoves, StreamMoves DEF Moves
<1>2. CASE UNCHANGED req
  BY <1>2 DEF TypeOK
<1>3. CASE DedupExpires \/ SessionFails \/ Knock \/ TtlRunsDown \/ SlotsExpire \/ UNCHANGED vars
  BY <1>2, <1>3 DEF DedupExpires, SessionFails, Knock, TtlRunsDown, SlotsExpire, vars
<1> QED
  BY <1>1, <1>3, ArriveKeeps DEF Next, RequestStep, CreateStep, StreamStep

\* The tables of create_session.
LEMMA OpeningType ==
    ASSUME TypeOK, Shape, Order, [Next]_vars
    PROVE  /\ session' \in [Requests -> {"none", "INIT", "FAILED"}]
           /\ runs' \in Seq(Requests) /\ IsInjective(runs)'
           /\ memory' \subseteq Requests
           /\ dedup' \in Row
           /\ ended' \subseteq Requests
<1>0. Named
  BY Names
<1>1. runs' \in Seq(Requests) /\ IsInjective(runs)'
  <2>1. ASSUME NEW r \in Requests, CreateRun(r) PROVE runs' \in Seq(Requests) /\ IsInjective(runs)'
    BY <2>1, CreateRunKeeps
  <2>2. (\E r \in Requests : CreateRun(r)) \/ UNCHANGED runs
    BY DEF Next, Arrive, RequestStep, Lookup, Hit, AnswerMerged, CreateSession, SaveMemory,
       RegisterRead, Register, AnswerNew, Acquire, EndStream, Aborts, LoseStream, DedupExpires,
       Knock, TtlRunsDown, SlotsExpire, SessionFails, opening, vars
  <2> QED
    BY <2>1, <2>2 DEF TypeOK
<1>2. session' \in [Requests -> {"none", "INIT", "FAILED"}]
  BY DEF TypeOK, Next, Arrive, RequestStep, Lookup, Hit, AnswerMerged, CreateSession, CreateRun,
     SaveMemory, RegisterRead, Register, AnswerNew, Acquire, EndStream, Aborts, LoseStream,
     DedupExpires, Knock, TtlRunsDown, SlotsExpire, SessionFails, opening, vars
<1>3. memory' \subseteq Requests
  BY DEF TypeOK, Next, Arrive, RequestStep, Lookup, Hit, AnswerMerged, CreateSession, CreateRun,
     SaveMemory, RegisterRead, Register, AnswerNew, Acquire, EndStream, Aborts, LoseStream,
     DedupExpires, Knock, TtlRunsDown, SlotsExpire, SessionFails, opening, vars
<1>4. ASSUME NEW r \in Requests, req[r].stage \in HasAlarm
      PROVE  req[r].payload.alarm \in Alarms
  <2>1. req[r].payload \in Payload /\ req[r].payload.kind = "create" /\ req[r].payload.alarm # NoAlarm
    BY <1>4, RequestFields DEF Shape, Kinds, HasAlarm, CreateStages
  <2> QED
    BY <2>1 DEF Payload
<1>5. ASSUME NEW r \in Requests, Hit(r) \/ Register(r) PROVE dedup' \in Row
  <2>1. req[r].payload.alarm \in Alarms
    BY <1>4, <1>5 DEF Hit, Register, HasAlarm
  <2>2. CASE UNCHANGED dedup
    BY <2>2 DEF TypeOK
  <2>3. CASE Hit(r) /\ Current
    BY <2>1, <2>3 DEF Hit, TypeOK, Row, Current
  <2>4. CASE dedup' = [session |-> r, alarms |-> {req[r].payload.alarm}, live |-> TRUE]
    BY <2>1, <2>4 DEF Row
  <2> QED
    BY <1>5, <2>2, <2>3, <2>4 DEF Hit, Register
<1>6. CASE DedupExpires
  BY <1>1, <1>2, <1>3, <1>6, <1>0 DEF DedupExpires, Current, TypeOK, Row, Named
<1>7. ended' \subseteq Requests
  BY <1>0 DEF TypeOK, Next, Arrive, RequestStep, Lookup, Hit, AnswerMerged, CreateSession, CreateRun,
     SaveMemory, RegisterRead, Register, AnswerNew, Acquire, EndStream, Aborts, LoseStream,
     DedupExpires, Knock, TtlRunsDown, SlotsExpire, SessionFails, Current, opening, vars, Named
<1>8. (\E r \in Requests : Hit(r) \/ Register(r)) \/ DedupExpires \/ UNCHANGED dedup
  BY DEF Next, Arrive, RequestStep, Lookup, AnswerMerged, CreateSession, CreateRun, SaveMemory,
     RegisterRead, AnswerNew, Acquire, EndStream, Aborts, LoseStream,
     Knock, TtlRunsDown, SlotsExpire, SessionFails, opening, vars
<1> QED
  BY <1>1, <1>2, <1>3, <1>5, <1>6, <1>7, <1>8 DEF TypeOK

\* Those who stream are some of the requests.
LEMMA OpenFinite ==
    /\ IsFiniteSet(Open) /\ Cardinality(Open) \in Nat
    /\ Cardinality(Open) = 0 => Open = {}
<1>1. IsFiniteSet(1..MaxRequests)
  BY FS_Interval, IntakeBounds
<1>2. IsFiniteSet(Open)
  BY <1>1, FS_Subset DEF Open, Requests
<1> QED
  BY <1>2, FS_CardinalityType, FS_EmptySet

\* acquire and release count; a lost stream is counted as leaked.
LEMMA CountStep ==
    ASSUME TypeOK, Shape, Order, Counts, [Next]_vars
    PROVE  /\ slots' \in 0..StreamLimit
           /\ leaked' \in 0..MaxFaults
           /\ faults' \in 0..MaxFaults
           /\ Counts'
<1>0. /\ slots \in 0..StreamLimit /\ leaked \in 0..MaxFaults /\ faults \in 0..MaxFaults
      /\ StreamLimit \in Nat /\ MaxFaults \in Nat
  BY IntakeBounds DEF TypeOK
<1>1. Cardinality(Open) \in Nat /\ IsFiniteSet(Open) /\ (Cardinality(Open) = 0 => Open = {})
  BY OpenFinite
<1>2. ASSUME Open' = Open, UNCHANGED streams, faults' = faults \/ Fault
      PROVE  /\ slots' \in 0..StreamLimit /\ leaked' \in 0..MaxFaults /\ faults' \in 0..MaxFaults
             /\ Counts'
  <2>1. slots' = slots /\ leaked' = leaked /\ drifted' = drifted
    BY <1>2 DEF streams
  <2>2. faults' \in 0..MaxFaults /\ leaked' <= faults'
    BY <1>0, <1>2, <2>1 DEF Fault, Counts
  <2>3. StreamsCounted'
    BY <1>2, <2>1 DEF Counts, StreamsCounted
  <2> QED
    BY <1>0, <2>1, <2>2, <2>3 DEF Counts
<1>3. ASSUME NEW r \in Requests, CreateStep(r)
      PROVE  Open' = Open /\ UNCHANGED streams /\ (faults' = faults \/ Fault)
  <2>1. PICK stage \in CreateStages \cup Ends : Moves(r, stage)
    BY <1>3, CreateMoves
  <2>2. req[r].stage \in CreateStages
    BY <1>3, CreateMoves
  <2>3. Open' = Open
    BY <2>1, <2>2 DEF Open, Moves, CreateStages, Ends
  <2> QED
    BY <1>3, <2>3 DEF CreateStep, Lookup, Hit, AnswerMerged, CreateSession, CreateRun, SaveMemory,
       RegisterRead, Register, AnswerNew, Aborts
<1>4. ASSUME NEW r \in Requests, NEW p \in Payloads, Arrive(r, p)
      PROVE  Open' = Open /\ UNCHANGED streams /\ faults' = faults
  <2>1. Entry(p) # "streaming"
    BY DEF Entry, AfterLookup
  <2>2. NoRequest.stage # "streaming"
    BY DEF NoRequest
  <2>3. req \in [Requests -> Request]
    BY DEF TypeOK
  <2> QED
    BY <1>4, <2>1, <2>2, <2>3 DEF Arrive, Open
<1>5. CASE DedupExpires \/ SessionFails \/ UNCHANGED vars
  BY <1>2, <1>5 DEF DedupExpires, SessionFails, vars, streams, Open
<1>6. ASSUME NEW r \in Requests, StreamStep(r)
      PROVE  /\ slots' \in 0..StreamLimit /\ leaked' \in 0..MaxFaults /\ faults' \in 0..MaxFaults
             /\ Counts'
  <2>0. r \in Open => Cardinality(Open) # 0
    BY <1>1
  <2>1. CASE Acquire(r) /\ slots < StreamLimit /\ slots' = slots + 1
    <3>1. To(r, "streaming") /\ UNCHANGED <<leaked, drifted, faults>> /\ req[r].stage = "acquire"
      BY <1>0, <2>1 DEF Acquire
    <3>2. Moves(r, "streaming")
      BY <3>1, ToMoves DEF Stages, StreamStages
    <3>3. Open' = Open \cup {r} /\ r \notin Open
      BY <3>1, <3>2 DEF Moves, Open
    <3>4. Cardinality(Open') = Cardinality(Open) + 1
      BY <1>1, <3>3, FS_AddElement
    <3>5. StreamsCounted'
      BY <1>0, <1>1, <2>1, <3>1, <3>4 DEF Counts, StreamsCounted
    <3> QED
      BY <1>0, <2>1, <3>1, <3>5 DEF Counts
  <2>2. CASE Acquire(r) /\ slots' = slots
    <3>1. To(r, "refused") /\ UNCHANGED <<leaked, drifted>> /\ req[r].stage = "acquire"
          /\ (faults' = faults \/ Fault)
      BY <1>0, <2>2 DEF Acquire
    <3>2. Moves(r, "refused")
      BY <3>1, ToMoves DEF Ends
    <3>3. Open' = Open
      BY <3>1, <3>2 DEF Moves, Open
    <3>4. faults' \in 0..MaxFaults /\ leaked' <= faults'
      BY <1>0, <3>1 DEF Fault, Counts
    <3>5. StreamsCounted'
      BY <2>2, <3>1, <3>3 DEF Counts, StreamsCounted
    <3> QED
      BY <1>0, <2>2, <3>1, <3>4, <3>5 DEF Counts
  <2>3. CASE EndStream(r)
    <3>1. To(r, "answered") /\ UNCHANGED <<leaked, drifted, faults>> /\ req[r].stage = "streaming"
      BY <2>3 DEF EndStream
    <3>2. slots' = IF slots > 0 THEN slots - 1 ELSE 0
      BY <2>3 DEF EndStream
    <3>3. Moves(r, "answered")
      BY <3>1, ToMoves DEF Ends
    <3>4. Open' = Open \ {r} /\ r \in Open
      BY <3>1, <3>3 DEF Moves, Open
    <3>5. Cardinality(Open') = Cardinality(Open) - 1
      BY <1>1, <3>4, FS_RemoveElement
    <3>6. StreamsCounted'
      BY <1>0, <1>1, <2>0, <3>1, <3>2, <3>4, <3>5 DEF Counts, StreamsCounted
    <3> QED
      BY <1>0, <3>1, <3>2, <3>6 DEF Counts
  <2>4. CASE LoseStream(r)
    <3>1. To(r, "failed") /\ UNCHANGED <<slots, drifted>> /\ req[r].stage = "streaming"
          /\ leaked' = leaked + 1 /\ faults < MaxFaults /\ faults' = faults + 1
      BY <2>4 DEF LoseStream, Open, Fault
    <3>2. Moves(r, "failed")
      BY <3>1, ToMoves DEF Ends
    <3>3. Open' = Open \ {r} /\ r \in Open
      BY <3>1, <3>2 DEF Moves, Open
    <3>4. Cardinality(Open') = Cardinality(Open) - 1
      BY <1>1, <3>3, FS_RemoveElement
    <3>5. StreamsCounted'
      BY <1>0, <1>1, <2>0, <3>1, <3>3, <3>4 DEF Counts, StreamsCounted
    <3> QED
      BY <1>0, <3>1, <3>5 DEF Counts
  <2>5. Acquire(r) => (slots < StreamLimit /\ slots' = slots + 1) \/ slots' = slots
    BY DEF Acquire
  <2> QED
    BY <1>6, <2>1, <2>2, <2>3, <2>4, <2>5 DEF StreamStep
<1>7. CASE SlotsExpire
  <2>1. slots' = 0 /\ leaked' = 0 /\ UNCHANGED <<req, faults>> /\ (Open # {} => drifted')
    BY <1>7 DEF SlotsExpire
  <2>2. Open' = Open
    BY <2>1 DEF Open
  <2>3. StreamsCounted'
    BY <1>1, <2>1, <2>2, FS_EmptySet DEF StreamsCounted
  <2> QED
    BY <1>0, <2>1, <2>3 DEF Counts
<1>8. CASE Knock \/ TtlRunsDown
  <2>1. UNCHANGED <<req, slots, leaked, drifted, faults>>
    BY <1>8 DEF Knock, TtlRunsDown
  <2> QED
    BY <1>0, <2>1 DEF Counts, StreamsCounted, Open
<1> QED
  BY <1>2, <1>3, <1>4, <1>5, <1>6, <1>7, <1>8 DEF Next, RequestStep, CreateStep, StreamStep

\* The two flags of the counter.
LEMMA FlagsType ==
    ASSUME TypeOK, [Next]_vars
    PROVE  ttl' \in {"none", "armed", "due"} /\ drifted' \in BOOLEAN
<1>1. CASE UNCHANGED streams
  BY <1>1 DEF TypeOK, streams
<1>2. CASE Knock \/ TtlRunsDown \/ SlotsExpire
  BY <1>2 DEF Knock, TtlRunsDown, SlotsExpire, TypeOK
<1>3. ASSUME NEW r \in Requests, StreamStep(r) PROVE ttl' \in {"none", "armed", "due"} /\ drifted' \in BOOLEAN
  BY <1>3 DEF StreamStep, Acquire, EndStream, LoseStream, TypeOK
<1>4. Knock \/ TtlRunsDown \/ SlotsExpire \/ UNCHANGED streams \/ \E r \in Requests : StreamStep(r)
  BY DEF Next, Arrive, RequestStep, Lookup, Hit, AnswerMerged, CreateSession, CreateRun,
     SaveMemory, RegisterRead, Register, AnswerNew, Aborts, DedupExpires, SessionFails,
     StreamStep, streams, vars
<1> QED
  BY <1>1, <1>2, <1>3, <1>4

-----------------------------------------------------------------------------
(* The theorems *)

LEMMA InitInv == Init => Inv
<1> SUFFICES ASSUME Init PROVE Inv
  OBVIOUS
<1>1. /\ req = [r \in Requests |-> NoRequest] /\ NoRequest.stage = "none" /\ runs = <<>>
      /\ memory = {} /\ dedup = NoRow /\ NoRequest \in Request /\ NoRow \in Row
  BY DEF Init, NoRequest, Request, Row
<1>2. Range(runs) = {}
  BY <1>1 DEF Range
<1>3. ttl \in {"none", "armed", "due"} /\ drifted \in BOOLEAN
  BY DEF Init
<1>4. runs \in Seq(Requests) /\ IsInjective(runs)
  BY <1>1 DEF IsInjective
<1>5. TypeOK
  BY <1>1, <1>3, <1>4, IntakeBounds DEF Init, TypeOK
<1>6. \A r \in Requests : req[r] = NoRequest /\ req[r].stage = "none"
  BY <1>1
<1>7. Kinds /\ Progress
  BY <1>1, <1>2, <1>6 DEF Kinds, Progress, CreateStages, StreamStages, HasAlarm, HasSession, HasRun, HasMemory
<1>8. RowComplete /\ JoinedRecorded /\ AnsweredNames
  BY <1>1, <1>6 DEF RowComplete, JoinedRecorded, Joined, AnsweredNames
<1>9. Order
  BY <1>1, <1>2, <1>6 DEF Order, AfterEnded, NoTwin, OpenedIsRow, Opened, Creates, Late, CreateStages
<1>10. Open = {}
  BY <1>6 DEF Open
<1>11. Counts
  BY <1>10, FS_EmptySet DEF Init, Counts, StreamsCounted
<1> QED
  BY <1>5, <1>7, <1>8, <1>9, <1>11 DEF Inv, Shape

LEMMA NextInv ==
    ASSUME Inv, [Next]_vars
    PROVE  Inv'
<1>1. TypeOK /\ Shape /\ Order /\ Counts
  BY DEF Inv
<1>2. TypeOK'
  BY <1>1, RequestType, OpeningType, CountStep, FlagsType DEF TypeOK
<1> QED
  BY <1>1, <1>2, OpeningStep, CountStep DEF Inv

LEMMA SpecInv == Spec => []Inv
BY InitInv, NextInv, PTL DEF Spec

\* Whatever session create_session answers with is complete, although any number of
\* other requests may have stopped half way: a session gets into the row of
\* diagnosis_alarm_dedup only when it has its memory, and has its run before that.
THEOREM AnswersAreComplete == Spec => []AnsweredIsComplete
<1>1. Inv => AnsweredIsComplete
  <2> SUFFICES ASSUME Inv PROVE AnsweredIsComplete
    OBVIOUS
  <2>1. ASSUME NEW r \in Requests, req[r].stage = "answered", Creates(r)
        PROVE  /\ req[r].session \in Range(runs) /\ session[req[r].session] # "none"
               /\ req[r].merged => req[r].session \in memory
    BY <2>1 DEF Inv, Shape, AnsweredNames, Progress, JoinedRecorded, Joined
  <2> QED
    BY <2>1 DEF Inv, AnsweredIsComplete
<1> QED
  BY <1>1, SpecInv, PTL

\* An idempotency key opens one run among requests that do not overlap, however many
\* repeat it, and an answer that does not say merged is of the same payload.
THEOREM KeysOpenOne == Spec => []KeyOpensOne
<1>1. Inv => KeyOpensOne
  <2> SUFFICES ASSUME Inv PROVE KeyOpensOne
    OBVIOUS
  <2>1. Named
    BY Names DEF Inv
  <2>2. ASSUME NEW r \in Range(runs), NEW s \in Range(runs),
               req[r].payload.key = req[s].payload.key, req[r].payload.key # NoKey
        PROVE  s \notin req[r].after
    BY <2>1, <2>2 DEF Inv, Order, NoTwin, Named
  <2> QED
    BY <2>2 DEF Inv, Shape, AnsweredNames, KeyOpensOne, Apart
<1> QED
  BY <1>1, SpecInv, PTL

\* Alarms of one device and category that come one after the other share a session, and
\* its row lists them, over any number of overlapping requests, aborts and windows.
THEOREM AlarmsAreMerged == Spec => []AlarmsMerge
<1>1. Inv => AlarmsMerge
  <2> SUFFICES ASSUME Inv PROVE AlarmsMerge
    OBVIOUS
  <2>1. AlarmsShareSession
    BY DEF Inv, Order, OpenedIsRow, Opened, AlarmsShareSession
  <2>2. MergedIsRecorded
    BY DEF Inv, Shape, JoinedRecorded, Joined, MergedIsRecorded
  <2> QED
    BY <2>1, <2>2 DEF AlarmsMerge
<1> QED
  BY <1>1, SpecInv, PTL

\* The counter of streams is that of the open and the lost ones, for any limit and any
\* number of requests, until the key expires under an open stream.
THEOREM StreamsAreCounted == Spec => []StreamsCounted
<1>1. Inv => StreamsCounted
  BY DEF Inv, Counts
<1> QED
  BY <1>1, SpecInv, PTL
=============================================================================
