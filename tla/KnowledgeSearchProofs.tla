----------------------- MODULE KnowledgeSearchProofs -----------------------
(***************************************************************************)
(* Theorems about KnowledgeSearch and the index it searches, for every     *)
(* number of versions, tickets, workers, attempts and failures.            *)
(***************************************************************************)
EXTENDS KnowledgeSearch, FiniteSetTheorems, SequenceTheorems, WellFoundedInduction,
        NaturalsInduction, TLAPS

-----------------------------------------------------------------------------
(* The inductive invariant *)

Kinds == {"manual", "ticket"}

\* The generation of the row that a job is about.
RowGen(j) == IF j.kind = "manual" THEN doc[j.id].gen ELSE ticket[j.id].gen

\* Jobs of the row's generation, or of an earlier one.
Past == {j \in Jobs : j.gen <= RowGen(j)}

\* Groups of events of S, all of one kind.
Groups(S) ==
    {g \in Seq(S) : g # <<>> /\ \E kind \in Kinds : \A i \in 1..Len(g) : g[i].kind = kind}

Handling == {"read", "upsert", "publish"}

\* What a worker can be doing with events of S.
Works(S) ==
    {x \in [todo : Seq(Groups(S)), stage : {"idle", "read", "upsert", "publish", "finish"}, pos : Nat] :
        /\ x.stage = "idle" <=> x.todo = <<>>
        /\ x.stage \in Handling => x.pos \in 1..Len(Head(x.todo))}

\* Workers and jobs are about rows that there are or were.
EventsPast ==
    /\ work \in [Workers -> Works(Past)]
    /\ \A j \in Jobs : job[j].status # "none" => j \in Past

\* A row that a manual or a chunk can be found by has a generation.
RowsHaveGen ==
    /\ \A v \in Versions : doc[v].effective => doc[v].status # "none"
    /\ \A v \in Versions : doc[v].status # "none" => doc[v].gen # 0
    /\ \A v \in Versions : syncing[v] # "none" => doc[v].status # "none"
    /\ \A v \in chunkOn : doc[v].gen # 0
    /\ reload = "rows" => \A t \in Tickets : ~ticket[t].verified
    /\ reload = "jobs" => \A t \in Tickets : ticket[t].verified => ticket[t].gen # 0

IndexShape == IndexTypeOK /\ EventsPast /\ RowsHaveGen

\* An event that worker w has read and not yet published.
Held(w, j) == work[w].stage \in {"upsert", "publish"} /\ j \in Current(w)

\* The vectors of the manuals: whoever is about to write INDEXED has upserted that of
\* the row's generation.
ManualsIndexed ==
    /\ \A v \in Versions : doc[v].status = "INDEXED" => <<v, doc[v].gen>> \in manualVec
    /\ \A v \in Versions : syncing[v] = "INDEXED" => <<v, doc[v].gen>> \in manualVec
    /\ \A w \in Workers : \A j \in ManualJobs : Held(w, j) =>
          /\ doc[j.id].gen = j.gen /\ doc[j.id].status # "none"
          /\ work[w].stage = "publish" => <<j.id, j.gen>> \in manualVec

\* The vectors of the tickets.
TicketsIndexed ==
    /\ \A t \in Tickets : ticket[t].status = "INDEXED" => ticketVec[t] # 0
    /\ script.stage = "publish" => \A t \in script.rows : ticketVec[t] # 0
    /\ \A w \in Workers : \A j \in TicketJobs :
          Held(w, j) /\ work[w].stage = "publish" => ticketVec[j.id] # 0

\* With the queue, the vector is that of the last generation.
LatestInv ==
    queued =>
        /\ script.stage = "idle"
        /\ \A t \in Tickets \ raced : ticket[t].status = "INDEXED" => ticketVec[t] = ticket[t].gen
        /\ \A w \in Workers : \A j \in TicketJobs : Held(w, j) /\ j.id \notin raced =>
              /\ ticket[j.id].gen = j.gen
              /\ work[w].stage = "publish" => ticketVec[j.id] = ticket[j.id].gen

OneChunked == \A u, v \in chunkOn : u = v

\* A search that waits for its vectors will find what was INDEXED when it began.
SearchFacts ==
    /\ search.stage = "vector" => search.indexed \subseteq Known
    /\ CompleteIsSearched

-----------------------------------------------------------------------------
(* Events, groups and work *)

LEMMA JobFields ==
    ASSUME NEW j \in Jobs
    PROVE  /\ j.kind \in Kinds /\ j.gen \in Gens /\ j.gen \in Nat /\ j.gen # 0
           /\ j.kind = "manual" <=> j \in ManualJobs
           /\ j.kind = "ticket" <=> j \in TicketJobs
           /\ j \in ManualJobs => j.id \in Versions /\ j = ManualJob(j.id, j.gen)
           /\ j \in TicketJobs => j.id \in Tickets /\ j = TicketJob(j.id, j.gen)
BY KnowledgeAssumption
   DEF Jobs, ManualJobs, TicketJobs, Kinds, Gens, ManualJob, TicketJob

LEMMA MakeJob ==
    /\ \A v \in Versions, g \in Gens : ManualJob(v, g) \in ManualJobs /\ ManualJob(v, g) \in Jobs
    /\ \A t \in Tickets, g \in Gens : TicketJob(t, g) \in TicketJobs /\ TicketJob(t, g) \in Jobs
BY DEF Jobs, ManualJobs, TicketJobs, ManualJob, TicketJob

\* Every nonempty set of positions has a last one.
LEMMA LastPosition ==
    ASSUME NEW n \in Nat, NEW I \in SUBSET (1..n), I # {}
    PROVE  \E i \in I : \A k \in I : k <= i
<1> DEFINE T == {m \in Nat : n - m \in I}
<1>1. T # {} /\ T \subseteq Nat
  <2>1. PICK i \in I : TRUE
    OBVIOUS
  <2>2. n - i \in Nat /\ n - (n - i) = i
    BY <2>1
  <2> QED
    BY <2>1, <2>2
<1> HIDE DEF T
<1>2. PICK m \in T : \A k \in T : ~(<<k, m>> \in OpToRel(<, Nat))
  BY <1>1, NatLessThanWellFounded, WFMin
<1>3. ASSUME NEW k \in T PROVE m <= k
  <2>1. k \in Nat /\ m \in Nat
    BY <1>1
  <2>2. ASSUME k < m PROVE <<k, m>> \in OpToRel(<, Nat)
    BY <2>1, <2>2, Zenon DEF OpToRel
  <2>3. ~(k < m)
    BY <1>2, <1>3, <2>2, Zenon
  <2> QED
    BY <2>1, <2>3
<1>4. n - m \in I /\ m \in Nat
  BY <1>2 DEF T
<1>5. ASSUME NEW k \in I PROVE k <= n - m
  <2>1. n - k \in Nat /\ n - (n - k) = k
    OBVIOUS
  <2>2. n - k \in T
    BY <2>1 DEF T
  <2> QED
    BY <1>3, <1>4, <2>1, <2>2
<1> QED
  BY <1>4, <1>5

\* A group is a nonempty sequence of events of one kind.
LEMMA GroupFields ==
    ASSUME NEW S, NEW g \in Groups(S)
    PROVE  /\ g \in Seq(S) /\ Len(g) \in Nat /\ Len(g) >= 1 /\ DOMAIN g = 1..Len(g)
           /\ 1 \in 1..Len(g)
           /\ \A i \in 1..Len(g) : g[i] \in S /\ g[i].kind = g[1].kind
           /\ Range(g) \subseteq S
           /\ g[1] \in Range(g)
<1>1. /\ g \in Seq(S) /\ g # <<>>
      /\ \E kind \in Kinds : \A i \in 1..Len(g) : g[i].kind = kind
  BY DEF Groups
<1>2. Len(g) \in Nat \ {0} /\ DOMAIN g = 1..Len(g) /\ \A i \in 1..Len(g) : g[i] \in S
  BY <1>1, EmptySeq, LenProperties, ElementOfSeq
<1> QED
  BY <1>1, <1>2 DEF Range

LEMMA GroupMonotonic ==
    ASSUME NEW S, NEW T, S \subseteq T
    PROVE  Groups(S) \subseteq Groups(T) /\ Seq(Groups(S)) \subseteq Seq(Groups(T))
<1>1. Groups(S) \subseteq Groups(T)
  BY SeqMonotonic DEF Groups
<1> QED
  BY <1>1, SeqMonotonic

LEMMA WorksMonotonic ==
    ASSUME NEW S, NEW T, S \subseteq T
    PROVE  Works(S) \subseteq Works(T)
BY GroupMonotonic DEF Works

LEMMA WorksTyped ==
    ASSUME NEW S, S \subseteq Jobs
    PROVE  Works(S) \subseteq Work
<1>1. Groups(S) \subseteq Seq(Jobs)
  BY SeqMonotonic DEF Groups
<1>2. Seq(Groups(S)) \subseteq Seq(Seq(Jobs))
  BY <1>1, SeqMonotonic
<1> QED
  BY <1>2 DEF Works, Work

LEMMA DoingWorks ==
    ASSUME NEW S, NEW todo \in Seq(Groups(S))
    PROVE  /\ Doing(todo) \in Works(S)
           /\ Doing(todo).stage \notin {"upsert", "publish"}
<1>1. CASE todo = <<>>
  BY <1>1 DEF Doing, Idle, Works, Handling
<1>2. CASE todo # <<>>
  <2>1. Head(todo) \in Groups(S)
    BY <1>2, HeadTailProperties
  <2>2. 1 \in 1..Len(Head(todo))
    BY <2>1, GroupFields
  <2>3. Doing(todo) = [todo |-> todo, stage |-> "read", pos |-> 1]
    BY <1>2 DEF Doing
  <2> QED
    BY <1>2, <2>2, <2>3 DEF Works, Handling
<1> QED
  BY <1>1, <1>2

LEMMA IdleWorks == \A S : Idle \in Works(S) /\ Idle.stage = "idle"
BY DEF Idle, Works, Handling

\* The halves of a group are groups.
LEMMA Halves ==
    ASSUME NEW S, NEW g \in Groups(S), Len(g) > 1
    PROVE  /\ SubSeq(g, 1, Len(g) \div 2) \in Groups(S)
           /\ SubSeq(g, (Len(g) \div 2) + 1, Len(g)) \in Groups(S)
<1> DEFINE m == Len(g) \div 2
<1>1. /\ g \in Seq(S) /\ Len(g) \in Nat
      /\ \A i \in 1..Len(g) : g[i] \in S /\ g[i].kind = g[1].kind
      /\ g[1].kind \in Kinds
  <2>1. g[1].kind \in Kinds
    BY GroupFields DEF Groups
  <2> QED
    BY <2>1, GroupFields
<1>2. m \in Nat /\ 1 <= m /\ m < Len(g)
  BY <1>1
<1> HIDE DEF m
<1>3. ASSUME NEW a \in Nat, NEW b \in Nat, 1 <= a, a <= b, b <= Len(g)
      PROVE  SubSeq(g, a, b) \in Groups(S)
  <2>1. \A i \in a..b : g[i] \in S
    BY <1>1, <1>3
  <2>2. /\ SubSeq(g, a, b) \in Seq(S)
        /\ Len(SubSeq(g, a, b)) = b - a + 1
        /\ \A i \in 1..(b - a + 1) : SubSeq(g, a, b)[i] = g[a + i - 1]
    BY <1>3, <2>1, SubSeqProperties
  <2>3. SubSeq(g, a, b) # <<>>
    BY <1>3, <2>2, EmptySeq
  <2>4. ASSUME NEW i \in 1..(b - a + 1) PROVE SubSeq(g, a, b)[i].kind = g[1].kind
    BY <1>1, <1>3, <2>2
  <2> QED
    BY <1>1, <2>2, <2>3, <2>4 DEF Groups
<1>4. SubSeq(g, 1, m) \in Groups(S) /\ SubSeq(g, m + 1, Len(g)) \in Groups(S)
  BY <1>1, <1>2, <1>3
<1> QED
  BY <1>4 DEF m

\* What is left of a group of more than one event is a group.
LEMMA RestOfGroup ==
    ASSUME NEW S, NEW g \in Groups(S), Len(g) > 1
    PROVE  Tail(g) \in Groups(S)
<1>1. /\ g \in Seq(S) /\ Len(g) \in Nat /\ g # <<>>
      /\ \A i \in 1..Len(g) : g[i].kind = g[1].kind
      /\ g[1].kind \in Kinds
  <2>1. g[1].kind \in Kinds /\ g # <<>>
    BY GroupFields DEF Groups
  <2> QED
    BY <2>1, GroupFields
<1>2. /\ Tail(g) \in Seq(S) /\ Len(Tail(g)) = Len(g) - 1
      /\ \A i \in 1..Len(Tail(g)) : Tail(g)[i] = g[i + 1]
  BY <1>1, HeadTailProperties
<1>3. Tail(g) # <<>>
  <2>1. Len(Tail(g)) # 0
    BY <1>1, <1>2
  <2> QED
    BY <2>1, EmptySeq
<1>4. \A i \in 1..Len(Tail(g)) : Tail(g)[i].kind = g[1].kind
  BY <1>1, <1>2
<1> QED
  BY <1>1, <1>2, <1>3, <1>4 DEF Groups

\* What a worker that is not idle works on.
LEMMA WorkFields ==
    ASSUME work \in [Workers -> Works(Past)], NEW w \in Workers, work[w].stage # "idle"
    PROVE  /\ work[w].todo \in Seq(Groups(Past)) /\ work[w].todo # <<>>
           /\ Group(w) \in Groups(Past)
           /\ Tail(work[w].todo) \in Seq(Groups(Past))
           /\ work[w].pos \in Nat
           /\ work[w].stage \in Handling => work[w].pos \in 1..Len(Group(w))
<1>1. /\ work[w].todo \in Seq(Groups(Past)) /\ work[w].todo # <<>>
      /\ work[w].pos \in Nat
      /\ work[w].stage \in Handling => work[w].pos \in 1..Len(Group(w))
  BY DEF Works, Group
<1> QED
  BY <1>1, HeadTailProperties DEF Group

\* What it handles at once.
LEMMA CurrentFields ==
    ASSUME work \in [Workers -> Works(Past)], NEW w \in Workers, work[w].stage \in Handling
    PROVE  /\ Current(w) \subseteq Range(Group(w))
           /\ Range(Group(w)) \subseteq Past
           /\ Group(w)[1].kind = "ticket" => Current(w) = Range(Group(w))
           /\ \A j \in Range(Group(w)) : j.kind = Group(w)[1].kind
           /\ Len(Group(w)) = 1 => Current(w) = {Group(w)[1]}
<1>1. Group(w) \in Groups(Past) /\ work[w].pos \in 1..Len(Group(w))
  BY WorkFields DEF Handling
<1>2. /\ DOMAIN Group(w) = 1..Len(Group(w)) /\ Len(Group(w)) \in Nat
      /\ \A i \in 1..Len(Group(w)) : Group(w)[i].kind = Group(w)[1].kind
      /\ Range(Group(w)) \subseteq Past
  BY <1>1, GroupFields
<1>3. Current(w) = {Group(w)[work[w].pos]} \/ Current(w) = Range(Group(w))
  BY DEF Current
<1>4. Len(Group(w)) = 1 => Current(w) = {Group(w)[1]}
  BY <1>1, <1>2, <1>3 DEF Range
<1> QED
  BY <1>1, <1>2, <1>3, <1>4 DEF Current, Range

\* Rows whose status may have changed, to one of S, and nothing else.
DocsMarked(S) ==
    \A v \in Versions : \/ doc'[v] = doc[v]
                        \/ \E s \in S : doc'[v] = [doc[v] EXCEPT !.status = s]

TicketsMarked(S) ==
    \A t \in Tickets : \/ ticket'[t] = ticket[t]
                       \/ \E s \in S : ticket'[t] = [ticket[t] EXCEPT !.status = s]

LEMMA MarkTyped ==
    ASSUME NEW s \in Statuses
    PROVE  /\ \A x \in Doc : [x EXCEPT !.status = s] \in Doc
           /\ \A x \in Ticket : [x EXCEPT !.status = s] \in Ticket
<1>1. ASSUME NEW x \in Doc PROVE [x EXCEPT !.status = s] \in Doc
  BY <1>1 DEF Doc
<1>2. ASSUME NEW x \in Ticket PROVE [x EXCEPT !.status = s] \in Ticket
  BY <1>2 DEF Ticket
<1> QED
  BY <1>1, <1>2

LEMMA MarkTicket ==
    ASSUME ticket \in [Tickets -> Ticket], NEW t \in Tickets, NEW s \in Statuses,
           ticket' = [ticket EXCEPT ![t].status = s]
    PROVE  ticket' \in [Tickets -> Ticket] /\ TicketsMarked({s})
<1>1. ticket' = [ticket EXCEPT ![t] = [ticket[t] EXCEPT !.status = s]]
  OBVIOUS
<1>2. [ticket[t] EXCEPT !.status = s] \in Ticket
  BY MarkTyped
<1> QED
  BY <1>1, <1>2 DEF TicketsMarked

LEMMA MarkDoc ==
    ASSUME doc \in [Versions -> Doc], NEW v \in Versions, NEW s \in Statuses,
           doc' = [doc EXCEPT ![v].status = s]
    PROVE  doc' \in [Versions -> Doc] /\ DocsMarked({s})
<1>1. doc' = [doc EXCEPT ![v] = [doc[v] EXCEPT !.status = s]]
  OBVIOUS
<1>2. [doc[v] EXCEPT !.status = s] \in Doc
  BY MarkTyped
<1> QED
  BY <1>1, <1>2 DEF DocsMarked

\* The handlers raise: the group is halved, or its one event has an outcome.
LEMMA RaiseEffect ==
    ASSUME IndexTypeOK, work \in [Workers -> Works(Past)],
           NEW w \in Workers, work[w].stage # "idle", NEW stale \in BOOLEAN, Raise(w, stale)
    PROVE  /\ \E x \in Works(Past) : /\ x.stage \notin {"upsert", "publish"}
                                     /\ work' = [work EXCEPT ![w] = x]
           /\ doc' \in [Versions -> Doc] /\ DocsMarked({"FAILED"})
           /\ \A v \in Versions : doc'[v] = doc[v] \/ doc[v].gen # 0
           /\ ticket' \in [Tickets -> Ticket] /\ TicketsMarked({"FAILED"})
           /\ \/ job' = job /\ queue' = queue
              \/ /\ Len(Group(w)) = 1 /\ Group(w)[1] \in Past
                 /\ \E s \in {"STALE", "FAILED", "QUEUED"} :
                       job' = [job EXCEPT ![Group(w)[1]].status = s]
                 /\ queue' \in {queue, queue \cup {Group(w)[1]}}
<1> DEFINE g == Group(w)
           rest == Tail(work[w].todo)
<1>1. g \in Groups(Past) /\ rest \in Seq(Groups(Past))
  BY WorkFields
<1>2. Len(g) \in Nat /\ Len(g) >= 1 /\ g[1] \in Past
  BY <1>1, GroupFields
<1>5. Len(g) > 1 \/ Len(g) = 1
  <2>1. \A n \in Nat : n >= 1 => n > 1 \/ n = 1
    OBVIOUS
  <2> QED
    BY <1>2, <2>1, Zenon
<1> HIDE DEF g, rest
<1>3. CASE Len(g) > 1
  <2> DEFINE m == Len(g) \div 2
             todo == <<SubSeq(g, 1, m), SubSeq(g, m + 1, Len(g))>> \o rest
  <2>1. /\ work' = [work EXCEPT ![w] = Doing(todo)]
        /\ UNCHANGED <<job, queue, ticket, doc>>
    BY <1>3 DEF Raise, g, rest
  <2>2. SubSeq(g, 1, m) \in Groups(Past) /\ SubSeq(g, m + 1, Len(g)) \in Groups(Past)
    BY <1>1, <1>3, Halves
  <2>3. <<SubSeq(g, 1, m), SubSeq(g, m + 1, Len(g))>> \in Seq(Groups(Past))
    BY <2>2
  <2>4. todo \in Seq(Groups(Past))
    BY <1>1, <2>3, ConcatProperties
  <2> HIDE DEF todo
  <2>5. Doing(todo) \in Works(Past) /\ Doing(todo).stage \notin {"upsert", "publish"}
    BY <2>4, DoingWorks
  <2> QED
    BY <2>1, <2>5 DEF IndexTypeOK, DocsMarked, TicketsMarked
<1>4. CASE Len(g) = 1
  <2>1. Doing(rest) \in Works(Past) /\ Doing(rest).stage \notin {"upsert", "publish"}
    BY <1>1, DoingWorks
  <2>2. work' = [work EXCEPT ![w] = Doing(rest)]
    BY <1>4 DEF Raise, g, rest
  <2>3. CASE stale /\ ~Missing(g[1]) /\ w \in Consumers
    <3>1. /\ job' = [job EXCEPT ![g[1]].status = "STALE"]
          /\ UNCHANGED <<queue, ticket, doc>>
      BY <1>4, <2>3 DEF Raise, g, rest
    <3> QED
      BY <1>2, <1>4, <2>1, <2>2, <3>1 DEF IndexTypeOK, DocsMarked, TicketsMarked, g
  <2>4. CASE ~(stale /\ ~Missing(g[1]) /\ w \in Consumers)
    <3> DEFINE dead == Dead(g[1]) \/ (stale /\ Missing(g[1]))
    <3>1. /\ Fail(g[1], dead)
          /\ queue' = IF dead THEN queue ELSE queue \cup {g[1]}
      BY <1>4, <2>4 DEF Raise, g, rest
    <3> HIDE DEF dead
    <3>2. g[1] \in Jobs
      BY <1>2 DEF Past
    <3>3. ticket' \in [Tickets -> Ticket] /\ TicketsMarked({"FAILED"})
      <4>1. \/ ticket' = ticket
            \/ g[1].kind = "ticket" /\ ticket' = [ticket EXCEPT ![g[1].id].status = "FAILED"]
        BY <3>1 DEF Fail
      <4> QED
        BY <3>2, <4>1, JobFields, MarkTicket DEF IndexTypeOK, TicketsMarked, Statuses
    <3>4. /\ doc' \in [Versions -> Doc] /\ DocsMarked({"FAILED"})
          /\ \A v \in Versions : doc'[v] = doc[v] \/ doc[v].gen # 0
      <4>1. \/ doc' = doc
            \/ /\ g[1].kind = "manual" /\ doc[g[1].id].gen = g[1].gen
               /\ doc' = [doc EXCEPT ![g[1].id].status = "FAILED"]
        BY <3>1 DEF Fail
      <4> QED
        BY <3>2, <4>1, JobFields, MarkDoc DEF IndexTypeOK, DocsMarked, Statuses
    <3>5. \E s \in {"STALE", "FAILED", "QUEUED"} : job' = [job EXCEPT ![g[1]].status = s]
      BY <3>1 DEF Fail
    <3>6. queue' \in {queue, queue \cup {g[1]}}
      BY <3>1
    <3> QED
      BY <1>2, <1>4, <2>1, <2>2, <3>3, <3>4, <3>5, <3>6 DEF g
  <2> QED
    BY <2>3, <2>4
<1> QED
  BY <1>3, <1>4, <1>5, Zenon

-----------------------------------------------------------------------------
(* Types, and what they rest on *)

\* The generation of a row only grows, and with it the events that are past.
LEMMA PastGrows ==
    ASSUME IndexTypeOK, doc' \in [Versions -> Doc], ticket' \in [Tickets -> Ticket],
           \A v \in Versions : doc[v].gen <= doc'[v].gen,
           \A t \in Tickets : ticket[t].gen <= ticket'[t].gen
    PROVE  Past \subseteq Past'
<1> SUFFICES ASSUME NEW j \in Jobs, j.gen <= RowGen(j) PROVE j.gen <= RowGen(j)'
  BY DEF Past
<1>1. j.gen \in Nat
  BY JobFields
<1>2. CASE j.kind = "manual"
  <2>1. j.id \in Versions /\ RowGen(j) = doc[j.id].gen /\ RowGen(j)' = doc'[j.id].gen
    BY <1>2, JobFields DEF RowGen
  <2>2. doc[j.id].gen \in Nat /\ doc'[j.id].gen \in Nat
    BY <2>1, KnowledgeAssumption DEF IndexTypeOK, Doc
  <2> QED
    BY <1>1, <2>1, <2>2
<1>3. CASE j.kind = "ticket"
  <2>1. j.id \in Tickets /\ RowGen(j) = ticket[j.id].gen /\ RowGen(j)' = ticket'[j.id].gen
    BY <1>3, JobFields DEF RowGen
  <2>2. ticket[j.id].gen \in Nat /\ ticket'[j.id].gen \in Nat
    BY <2>1, KnowledgeAssumption DEF IndexTypeOK, Ticket
  <2> QED
    BY <1>1, <2>1, <2>2
<1> QED
  BY <1>2, <1>3, JobFields DEF Kinds

LEMMA EventsKept ==
    ASSUME EventsPast, Past \subseteq Past', work' \in [Workers -> Works(Past)],
           \A j \in Jobs : job'[j].status # "none" => job[j].status # "none" \/ j \in Past'
    PROVE  EventsPast'
<1>1. Works(Past) \subseteq Works(Past')
  BY WorksMonotonic
<1>2. work' \in [Workers -> Works(Past')]
  BY <1>1
<1> QED
  BY <1>2 DEF EventsPast

\* A worker that goes on with work on past events.
LEMMA WorkerMoves ==
    ASSUME IndexTypeOK, EventsPast, NEW w \in Workers, NEW x \in Works(Past),
           work' = [work EXCEPT ![w] = x]
    PROVE  /\ work' \in [Workers -> Works(Past)] /\ work' \in [Workers -> Work]
           /\ work'[w] = x /\ \A u \in Workers : u # w => work'[u] = work[u]
<1>1. Works(Past) \subseteq Work
  BY WorksTyped DEF Past
<1> QED
  BY <1>1 DEF EventsPast

\* A status changes and nothing else.
LEMMA DocMarkedFields ==
    ASSUME IndexTypeOK, NEW S, DocsMarked(S), NEW v \in Versions
    PROVE  /\ doc'[v].gen = doc[v].gen
           /\ doc'[v].effective = doc[v].effective
           /\ doc'[v].approved = doc[v].approved
           /\ doc'[v].status \in S \cup {doc[v].status}
<1>1. doc[v] \in Doc
  BY DEF IndexTypeOK
<1>2. CASE doc'[v] = doc[v]
  BY <1>2
<1>3. ASSUME NEW s \in S, doc'[v] = [doc[v] EXCEPT !.status = s]
      PROVE  /\ doc'[v].gen = doc[v].gen
             /\ doc'[v].effective = doc[v].effective
             /\ doc'[v].approved = doc[v].approved
             /\ doc'[v].status = s
  BY <1>1, <1>3 DEF Doc
<1> QED
  BY <1>2, <1>3 DEF DocsMarked

LEMMA TicketMarkedFields ==
    ASSUME IndexTypeOK, NEW S, TicketsMarked(S), NEW t \in Tickets
    PROVE  /\ ticket'[t].gen = ticket[t].gen
           /\ ticket'[t].verified = ticket[t].verified
           /\ ticket'[t].status \in S \cup {ticket[t].status}
<1>1. ticket[t] \in Ticket
  BY DEF IndexTypeOK
<1>2. CASE ticket'[t] = ticket[t]
  BY <1>2
<1>3. ASSUME NEW s \in S, ticket'[t] = [ticket[t] EXCEPT !.status = s]
      PROVE  /\ ticket'[t].gen = ticket[t].gen
             /\ ticket'[t].verified = ticket[t].verified
             /\ ticket'[t].status = s
  BY <1>1, <1>3 DEF Ticket
<1> QED
  BY <1>2, <1>3 DEF TicketsMarked

\* Marking rows keeps what they have been marked for.
LEMMA MarkedKeeps ==
    ASSUME IndexTypeOK, RowsHaveGen, doc' \in [Versions -> Doc], ticket' \in [Tickets -> Ticket],
           NEW S, DocsMarked(S), TicketsMarked(S), "none" \notin S,
           \A v \in Versions : doc'[v] = doc[v] \/ doc[v].gen # 0,
           \A v \in Versions : syncing'[v] # "none" => syncing[v] # "none",
           chunkOn' = chunkOn, reload' = reload
    PROVE  Past \subseteq Past' /\ RowsHaveGen'
<1>1. Past \subseteq Past'
  <2>1. \A v \in Versions : doc[v].gen <= doc'[v].gen
    BY DocMarkedFields, KnowledgeAssumption DEF IndexTypeOK, Doc
  <2>2. \A t \in Tickets : ticket[t].gen <= ticket'[t].gen
    BY TicketMarkedFields, KnowledgeAssumption DEF IndexTypeOK, Ticket
  <2> QED
    BY <2>1, <2>2, PastGrows
<1>2. \A v \in Versions : doc'[v].effective => doc'[v].status # "none"
  BY DocMarkedFields DEF RowsHaveGen
<1>3. \A v \in Versions : doc'[v].status # "none" => doc'[v].gen # 0
  BY DocMarkedFields DEF RowsHaveGen
<1>4. \A v \in chunkOn' : doc'[v].gen # 0
  BY DocMarkedFields DEF RowsHaveGen, IndexTypeOK
<1>7. \A v \in Versions : syncing'[v] # "none" => doc'[v].status # "none"
  BY DocMarkedFields DEF RowsHaveGen
<1>5. reload' = "rows" => \A t \in Tickets : ~ticket'[t].verified
  BY TicketMarkedFields DEF RowsHaveGen
<1>6. reload' = "jobs" => \A t \in Tickets : ticket'[t].verified => ticket'[t].gen # 0
  BY TicketMarkedFields DEF RowsHaveGen
<1> QED
  BY <1>1, <1>2, <1>3, <1>4, <1>5, <1>6, <1>7 DEF RowsHaveGen

LEMMA StageWorks ==
    ASSUME NEW S, NEW x \in Works(S), x.stage \in Handling, NEW s \in {"upsert", "publish", "finish"}
    PROVE  [x EXCEPT !.stage = s] \in Works(S)
BY DEF Works, Handling

LEMMA NextWorks ==
    ASSUME NEW S, NEW x \in Works(S), x.stage \in Handling, NEW n \in 1..Len(Head(x.todo)), n \in Nat
    PROVE  /\ [x EXCEPT !.stage = "read", !.pos = n] \in Works(S)
           /\ [x EXCEPT !.stage = "read", !.pos = n].stage = "read"
<1> DEFINE stages == {"idle", "read", "upsert", "publish", "finish"}
           y == [x EXCEPT !.stage = "read", !.pos = n]
<1>1. x \in [todo : Seq(Groups(S)), stage : stages, pos : Nat] /\ x.todo # <<>>
  BY DEF Works, Handling
<1>2. y \in [todo : Seq(Groups(S)), stage : stages, pos : Nat]
  BY <1>1
<1>3. y.todo = x.todo /\ y.stage = "read" /\ y.pos = n
  BY <1>1
<1> HIDE DEF y
<1>4. y \in Works(S) /\ y.stage = "read"
  BY <1>1, <1>2, <1>3 DEF Works, Handling
<1> QED
  BY <1>4 DEF y

\* The vectors that an upsert leaves.
LEMMA UpsertVectors ==
    ASSUME IndexTypeOK, EventsPast, NEW w \in Workers, work[w].stage = "upsert"
    PROVE  /\ manualVec \subseteq ManualVectors(w) /\ ManualVectors(w) \subseteq Versions \X Gens
           /\ \A j \in Current(w) \cap ManualJobs : <<j.id, j.gen>> \in ManualVectors(w)
           /\ TicketVectors(w) \in [Tickets -> 0..ScriptGen]
           /\ \A t \in Tickets :
                 \/ /\ TicketVectors(w)[t] = ticketVec[t]
                    /\ \A j \in Current(w) \cap TicketJobs : j.id # t
                 \/ \E j \in Current(w) \cap TicketJobs : j.id = t /\ TicketVectors(w)[t] = j.gen
<1>1. work[w].stage \in Handling /\ work[w].stage # "idle" /\ work \in [Workers -> Works(Past)]
  BY DEF Handling, EventsPast
<1>2. /\ Group(w) \in Groups(Past)
      /\ Len(Group(w)) \in Nat /\ DOMAIN Group(w) = 1..Len(Group(w)) /\ 1 \in 1..Len(Group(w))
      /\ \A i \in 1..Len(Group(w)) : Group(w)[i] \in Past /\ Group(w)[i].kind = Group(w)[1].kind
  BY <1>1, WorkFields, GroupFields
<1>3. /\ Current(w) \subseteq Range(Group(w)) /\ Range(Group(w)) \subseteq Jobs
      /\ Group(w)[1].kind = "ticket" => Current(w) = Range(Group(w))
      /\ \A j \in Range(Group(w)) : j.kind = Group(w)[1].kind
  BY <1>1, CurrentFields DEF Past
<1>4. \A j \in Current(w) \cap ManualJobs : j.id \in Versions /\ j.gen \in Gens
  BY <1>3, JobFields
<1>5. /\ manualVec \subseteq ManualVectors(w) /\ ManualVectors(w) \subseteq Versions \X Gens
      /\ \A j \in Current(w) \cap ManualJobs : <<j.id, j.gen>> \in ManualVectors(w)
  BY <1>4 DEF ManualVectors, IndexTypeOK
<1>6. ASSUME NEW t \in Tickets
      PROVE  \/ /\ TicketVectors(w)[t] = ticketVec[t]
                /\ \A j \in Current(w) \cap TicketJobs : j.id # t
             \/ \E j \in Current(w) \cap TicketJobs : j.id = t /\ TicketVectors(w)[t] = j.gen
  <2> DEFINE rows == {i \in DOMAIN Group(w) : Group(w)[i].kind = "ticket" /\ Group(w)[i].id = t}
  <2>1. TicketVectors(w)[t] =
           IF rows = {} THEN ticketVec[t]
           ELSE Group(w)[CHOOSE i \in rows : \A k \in rows : k <= i].gen
    BY DEF TicketVectors
  <2>2. rows \in SUBSET (1..Len(Group(w)))
    BY <1>2
  <2>3. CASE rows = {}
    <3>1. ASSUME NEW j \in Current(w) \cap TicketJobs PROVE j.id # t
      <4>1. PICK i \in DOMAIN Group(w) : j = Group(w)[i]
        BY <1>3 DEF Range
      <4>2. j.kind = "ticket"
        BY DEF TicketJobs
      <4> QED
        BY <2>3, <4>1, <4>2
    <3> QED
      BY <2>1, <2>3, <3>1
  <2>4. CASE rows # {}
    <3>1. \E i \in rows : \A k \in rows : k <= i
      BY <1>2, <2>2, <2>4, LastPosition
    <3>2. PICK i \in rows : TicketVectors(w)[t] = Group(w)[i].gen
      BY <2>1, <2>4, <3>1
    <3>3. /\ i \in 1..Len(Group(w)) /\ Group(w)[i].kind = "ticket" /\ Group(w)[i].id = t
          /\ Group(w)[i] \in Range(Group(w))
      BY <1>2 DEF Range
    <3>4. Group(w)[i] \in Current(w) \cap TicketJobs
      BY <1>2, <1>3, <3>3, JobFields
    <3> QED
      BY <3>2, <3>3, <3>4
  <2> QED
    BY <2>3, <2>4
<1>7. TicketVectors(w) \in [Tickets -> 0..ScriptGen]
  <2>1. ASSUME NEW t \in Tickets PROVE TicketVectors(w)[t] \in 0..ScriptGen
    <3>1. ticketVec[t] \in 0..ScriptGen
      BY DEF IndexTypeOK
    <3>2. \A j \in Current(w) : j.gen \in 0..ScriptGen
      BY <1>3, JobFields, KnowledgeAssumption DEF Gens, ScriptGen
    <3> QED
      BY <1>6, <3>1, <3>2
  <2>2. TicketVectors(w) = [t \in Tickets |-> TicketVectors(w)[t]]
    BY DEF TicketVectors
  <2> QED
    BY <2>1, <2>2
<1> QED
  BY <1>5, <1>6, <1>7

unmovedByWorkers == <<queued, chunkOn, syncing, script, reload, raced, flipped, requests>>

LEMMA RaiseShape ==
    ASSUME IndexShape, NEW w \in Workers, work[w].stage # "idle", NEW stale \in BOOLEAN,
           Raise(w, stale), UNCHANGED <<unmovedByWorkers, manualVec, ticketVec>>,
           faults' \in Nat, faults <= faults', faults' <= MaxFaults
    PROVE  IndexShape'
<1>0. /\ IndexTypeOK /\ EventsPast /\ RowsHaveGen
      /\ work \in [Workers -> Works(Past)]
  BY DEF IndexShape, EventsPast
<1>1. PICK x \in Works(Past) : work' = [work EXCEPT ![w] = x]
  BY <1>0, RaiseEffect
<1>2. /\ doc' \in [Versions -> Doc] /\ DocsMarked({"FAILED"})
      /\ \A v \in Versions : doc'[v] = doc[v] \/ doc[v].gen # 0
      /\ ticket' \in [Tickets -> Ticket] /\ TicketsMarked({"FAILED"})
  BY <1>0, RaiseEffect
<1>3. UNCHANGED <<queued, chunkOn, syncing, script, reload, raced, flipped, requests,
                  manualVec, ticketVec>>
  BY DEF unmovedByWorkers
<1>4. Past \subseteq Past' /\ RowsHaveGen'
  BY <1>0, <1>2, <1>3, MarkedKeeps
<1>5. work' \in [Workers -> Works(Past)] /\ work' \in [Workers -> Work]
  BY <1>0, <1>1, WorkerMoves
<1>6. /\ job' \in [Jobs -> Job]
      /\ \A j \in Jobs : job'[j].status # "none" => job[j].status # "none" \/ j \in Past
  <2>1. CASE job' = job
    BY <1>0, <2>1 DEF IndexTypeOK
  <2>2. ASSUME NEW s \in {"STALE", "FAILED", "QUEUED"}, Group(w)[1] \in Past,
               job' = [job EXCEPT ![Group(w)[1]].status = s]
        PROVE  <1>6!1
    <3>1. Group(w)[1] \in Jobs
      BY <2>2 DEF Past
    <3> QED
      BY <1>0, <2>2, <3>1 DEF IndexTypeOK, Job
  <2>3. ASSUME NEW s \in {"STALE", "FAILED", "QUEUED"}, Group(w)[1] \in Past,
               job' = [job EXCEPT ![Group(w)[1]].status = s]
        PROVE  <1>6!2
    <3>1. Group(w)[1] \in Jobs
      BY <2>3 DEF Past
    <3> QED
      BY <1>0, <2>3, <3>1 DEF IndexTypeOK, Job
  <2> QED
    BY <1>0, <2>1, <2>2, <2>3, RaiseEffect
<1>7. queue' \subseteq Jobs
  <2>1. queue' = queue \/ (Group(w)[1] \in Past /\ queue' = queue \cup {Group(w)[1]})
    BY <1>0, RaiseEffect
  <2>2. queue \subseteq Jobs /\ Past \subseteq Jobs
    BY <1>0 DEF IndexTypeOK, Past
  <2> QED
    BY <2>1, <2>2
<1>8. IndexTypeOK'
  BY <1>0, <1>2, <1>3, <1>5, <1>6, <1>7 DEF IndexTypeOK
<1>9. EventsPast'
  BY <1>0, <1>4, <1>5, <1>6, EventsKept
<1> QED
  BY <1>4, <1>8, <1>9 DEF IndexShape

\* A worker moves to another stage; what else changes are vectors and statuses.
LEMMA StageShape ==
    ASSUME IndexShape, NEW w \in Workers, NEW x \in Works(Past), work' = [work EXCEPT ![w] = x],
           UNCHANGED <<unmovedByWorkers, queue, faults>>,
           doc' \in [Versions -> Doc], DocsMarked({"INDEXED"}),
           \A v \in Versions : doc'[v] = doc[v] \/ doc[v].gen # 0,
           ticket' \in [Tickets -> Ticket], TicketsMarked({"INDEXED"}),
           manualVec' \subseteq Versions \X Gens, ticketVec' \in [Tickets -> 0..ScriptGen],
           job' \in [Jobs -> Job],
           \A j \in Jobs : job'[j].status # "none" => job[j].status # "none" \/ j \in Past
    PROVE  IndexShape'
<1>0. IndexTypeOK /\ EventsPast /\ RowsHaveGen
  BY DEF IndexShape
<1>1. UNCHANGED <<queued, chunkOn, syncing, script, reload, raced, flipped, requests, queue, faults>>
  BY DEF unmovedByWorkers
<1>2. Past \subseteq Past' /\ RowsHaveGen'
  BY <1>0, <1>1, MarkedKeeps
<1>3. work' \in [Workers -> Works(Past)] /\ work' \in [Workers -> Work]
  BY <1>0, WorkerMoves
<1>4. IndexTypeOK'
  BY <1>0, <1>1, <1>3 DEF IndexTypeOK
<1>5. EventsPast'
  BY <1>0, <1>2, <1>3, EventsKept
<1> QED
  BY <1>2, <1>4, <1>5 DEF IndexShape

\* What finish leaves of the group, and the groups after it.
LEMMA FinishWorks ==
    ASSUME work \in [Workers -> Works(Past)], NEW w \in Workers, Finish(w)
    PROVE  \E x \in Works(Past) : /\ work' = [work EXCEPT ![w] = x]
                                  /\ x.stage \notin {"upsert", "publish"}
<1>1. /\ work[w].todo \in Seq(Groups(Past)) /\ work[w].todo # <<>>
      /\ Group(w) \in Groups(Past) /\ Tail(work[w].todo) \in Seq(Groups(Past))
      /\ work[w].pos \in Nat /\ work[w].stage = "finish"
  BY WorkFields DEF Finish
<1>2. CASE Len(Group(w)) > 1
  <2> DEFINE todo == <<Tail(Group(w))>> \o Tail(work[w].todo)
             x == [work[w] EXCEPT !.todo = todo]
  <2>1. <<Tail(Group(w))>> \in Seq(Groups(Past))
    BY <1>1, <1>2, RestOfGroup
  <2>2. /\ todo \in Seq(Groups(Past)) /\ Len(todo) = 1 + Len(Tail(work[w].todo))
        /\ Len(Tail(work[w].todo)) \in Nat
    BY <1>1, <2>1, ConcatProperties, LenProperties
  <2>3. todo # <<>>
    <3>1. Len(todo) # 0
      BY <2>2
    <3> QED
      BY <3>1, EmptySeq
  <2>4. work[w] \in [todo : Seq(Groups(Past)), stage : {"idle", "read", "upsert", "publish", "finish"},
                     pos : Nat]
    BY DEF Works
  <2>6. work' = [work EXCEPT ![w] = x]
    BY <1>2 DEF Finish
  <2> HIDE DEF todo
  <2>5. x = [todo |-> todo, stage |-> "finish", pos |-> work[w].pos]
    BY <1>1, <2>4
  <2> HIDE DEF x
  <2>7. x \in Works(Past) /\ x.stage \notin {"upsert", "publish"}
    BY <1>1, <2>2, <2>3, <2>5 DEF Works, Handling
  <2> QED
    BY <2>6, <2>7
<1>3. CASE ~(Len(Group(w)) > 1)
  <2>1. work' = [work EXCEPT ![w] = Doing(Tail(work[w].todo))]
    BY <1>3 DEF Finish
  <2> QED
    BY <1>1, <2>1, DoingWorks
<1> QED
  BY <1>2, <1>3

\* Who publishes: the effective version of the event, or the verified ticket.
LEMMA PublishEffect ==
    ASSUME IndexTypeOK, EventsPast, RowsHaveGen, NEW w \in Workers, Publish(w)
    PROVE  /\ doc' \in [Versions -> Doc] /\ DocsMarked({"INDEXED"})
           /\ \A v \in Versions : doc'[v] = doc[v] \/ doc[v].gen # 0
           /\ \A v \in Versions : doc'[v] = doc[v] \/ \E j \in Current(w) \cap ManualJobs : j.id = v
           /\ ticket' \in [Tickets -> Ticket] /\ TicketsMarked({"INDEXED"})
           /\ \A t \in Tickets : ticket'[t] = ticket[t] \/ \E j \in Current(w) \cap TicketJobs : j.id = t
           /\ \E x \in Works(Past) : /\ work' = [work EXCEPT ![w] = x]
                                     /\ x.stage \notin {"upsert", "publish"}
<1>1. /\ doc' \in [Versions -> Doc] /\ DocsMarked({"INDEXED"})
      /\ \A v \in Versions : doc'[v] = doc[v] \/ doc[v].gen # 0
      /\ \A v \in Versions : doc'[v] = doc[v] \/ \E j \in Current(w) \cap ManualJobs : j.id = v
  <2>1. doc' = PublishedManuals(w)
    BY DEF Publish
  <2>2. \A v \in Versions : [doc[v] EXCEPT !.status = "INDEXED"] \in Doc
    BY MarkTyped DEF Statuses, IndexTypeOK
  <2>3. doc' \in [Versions -> Doc]
    BY <2>1, <2>2 DEF PublishedManuals, IndexTypeOK
  <2>4. DocsMarked({"INDEXED"})
    BY <2>1 DEF PublishedManuals, DocsMarked
  <2>5. \A v \in Versions : doc'[v] = doc[v] \/ doc[v].gen # 0
    BY <2>1 DEF PublishedManuals, RowsHaveGen
  <2>6. \A v \in Versions : doc'[v] = doc[v] \/ \E j \in Current(w) \cap ManualJobs : j.id = v
    BY <2>1 DEF PublishedManuals
  <2> QED
    BY <2>3, <2>4, <2>5, <2>6
<1>2. /\ ticket' \in [Tickets -> Ticket] /\ TicketsMarked({"INDEXED"})
      /\ \A t \in Tickets : ticket'[t] = ticket[t] \/ \E j \in Current(w) \cap TicketJobs : j.id = t
  <2>1. ticket' = PublishedTickets(w)
    BY DEF Publish
  <2>2. \A t \in Tickets : [ticket[t] EXCEPT !.status = "INDEXED"] \in Ticket
    BY MarkTyped DEF Statuses, IndexTypeOK
  <2> QED
    BY <2>1, <2>2 DEF PublishedTickets, TicketsMarked, IndexTypeOK
<1>3. \E x \in Works(Past) : work' = [work EXCEPT ![w] = x] /\ x.stage \notin {"upsert", "publish"}
  <2>0. /\ work[w] \in Works(Past) /\ work[w].stage = "publish"
        /\ work[w].pos \in 1..Len(Group(w)) /\ Len(Group(w)) \in Nat
    BY WorkFields, GroupFields DEF Publish, EventsPast, Handling
  <2>1. CASE Group(w)[1].kind = "manual" /\ work[w].pos < Len(Group(w))
    <3> DEFINE x == [work[w] EXCEPT !.stage = "read", !.pos = work[w].pos + 1]
    <3>1. work' = [work EXCEPT ![w] = x]
      BY <2>1 DEF Publish, EventsPast
    <3>2. work[w].pos + 1 \in 1..Len(Head(work[w].todo)) /\ work[w].pos + 1 \in Nat
      BY <2>0, <2>1 DEF Group
    <3>3. x \in Works(Past) /\ x.stage = "read"
      BY <2>0, <3>2, NextWorks DEF Handling
    <3> QED
      BY <3>1, <3>3
  <2>2. CASE ~(Group(w)[1].kind = "manual" /\ work[w].pos < Len(Group(w)))
    <3> DEFINE x == [work[w] EXCEPT !.stage = "finish"]
    <3>1. work' = [work EXCEPT ![w] = x]
      BY <2>2 DEF Publish, EventsPast
    <3>2. x \in Works(Past) /\ x.stage = "finish"
      BY <2>0, StageWorks DEF Handling, Works
    <3> QED
      BY <3>1, <3>2
  <2> QED
    BY <2>1, <2>2
<1> QED
  BY <1>1, <1>2, <1>3

\* Nothing but a status or a vector changes.
LEMMA Unmarked ==
    ASSUME IndexTypeOK, UNCHANGED <<doc, ticket>>
    PROVE  /\ doc' \in [Versions -> Doc] /\ ticket' \in [Tickets -> Ticket]
           /\ \A S : DocsMarked(S) /\ TicketsMarked(S)
           /\ \A v \in Versions : doc'[v] = doc[v]
BY DEF IndexTypeOK, DocsMarked, TicketsMarked

LEMMA UnmarkedKeeps ==
    ASSUME IndexTypeOK, RowsHaveGen, UNCHANGED <<doc, ticket, chunkOn, reload>>,
           \A v \in Versions : syncing'[v] # "none" => syncing[v] # "none"
    PROVE  Past \subseteq Past' /\ RowsHaveGen'
<1>1. DocsMarked({"FAILED"}) /\ TicketsMarked({"FAILED"})
  BY Unmarked
<1> QED
  BY <1>1, Unmarked, MarkedKeeps

LEMMA WorkerShape ==
    ASSUME IndexShape, NEW w \in Workers, WorkerStep(w)
    PROVE  IndexShape'
<1>0. /\ IndexTypeOK /\ EventsPast /\ RowsHaveGen
      /\ work \in [Workers -> Works(Past)] /\ work[w] \in Works(Past)
      /\ faults \in Nat /\ MaxFaults \in Nat /\ faults <= MaxFaults
  BY KnowledgeAssumption DEF IndexShape, EventsPast, IndexTypeOK
<1>j. /\ job \in [Jobs -> Job]
      /\ manualVec \subseteq Versions \X Gens /\ ticketVec \in [Tickets -> 0..ScriptGen]
  BY <1>0 DEF IndexTypeOK
<1>1. CASE Read(w)
  <2>1. /\ work[w].stage = "read" /\ faults' = faults
        /\ UNCHANGED <<unmovedByWorkers, manualVec, ticketVec>>
    BY <1>1 DEF Read, unmovedByWorkers
  <2>2. CASE \E j \in Current(w) : Stale(j)
    <3>1. Raise(w, TRUE)
      BY <1>1, <2>2 DEF Read
    <3>2. work[w].stage # "idle" /\ faults' \in Nat /\ faults <= faults' /\ faults' <= MaxFaults
      BY <1>0, <2>1
    <3> QED
      BY <2>1, <3>1, <3>2, RaiseShape
  <2>3. CASE ~(\E j \in Current(w) : Stale(j))
    <3> DEFINE x == [work[w] EXCEPT !.stage = "upsert"]
    <3>1. work' = [work EXCEPT ![w] = x] /\ UNCHANGED <<job, queue, ticket, doc>>
      BY <1>0, <1>1, <2>3 DEF Read
    <3>2. x \in Works(Past)
      BY <1>0, <2>1, StageWorks DEF Handling
    <3> HIDE DEF x
    <3> QED
      BY <1>0, <1>j, <2>1, <3>1, <3>2, Unmarked, StageShape
  <2> QED
    BY <2>2, <2>3
<1>2. CASE Upsert(w)
  <2>1. work[w].stage = "upsert" /\ UNCHANGED unmovedByWorkers
    BY <1>2 DEF Upsert, unmovedByWorkers
  <2>2. CASE Fault /\ Raise(w, FALSE) /\ UNCHANGED <<manualVec, ticketVec>>
    <3>1. faults' \in Nat /\ faults <= faults' /\ faults' <= MaxFaults
      BY <1>0, <2>2 DEF Fault
    <3> QED
      BY <1>0, <2>1, <2>2, <3>1, RaiseShape
  <2>3. CASE /\ manualVec' = ManualVectors(w)
             /\ ticketVec' = TicketVectors(w)
             /\ work' = [work EXCEPT ![w].stage = "publish"]
             /\ UNCHANGED <<job, queue, ticket, doc, faults>>
    <3> DEFINE x == [work[w] EXCEPT !.stage = "publish"]
    <3>1. work' = [work EXCEPT ![w] = x]
      BY <1>0, <2>3
    <3>2. x \in Works(Past)
      BY <1>0, <2>1, StageWorks DEF Handling
    <3>3. manualVec' \subseteq Versions \X Gens /\ ticketVec' \in [Tickets -> 0..ScriptGen]
      BY <1>0, <2>1, <2>3, UpsertVectors
    <3> HIDE DEF x
    <3> QED
      BY <1>0, <1>j, <2>1, <2>3, <3>1, <3>2, <3>3, Unmarked, StageShape
  <2> QED
    BY <1>2, <2>2, <2>3 DEF Upsert
<1>3. CASE Publish(w)
  <2>1. UNCHANGED <<unmovedByWorkers, queue, faults, manualVec, ticketVec, job>>
    BY <1>3 DEF Publish, unmovedByWorkers
  <2> QED
    BY <1>0, <1>j, <1>3, <2>1, PublishEffect, StageShape
<1>4. CASE Finish(w)
  <2>1. /\ UNCHANGED <<unmovedByWorkers, queue, faults, manualVec, ticketVec, doc, ticket>>
        /\ job' = [job EXCEPT ![Group(w)[1]].status = "INDEXED"]
        /\ work[w].stage = "finish"
    BY <1>4 DEF Finish, unmovedByWorkers
  <2>2. Group(w)[1] \in Past /\ Group(w)[1] \in Jobs
    BY <1>0, <2>1, WorkFields, GroupFields DEF Past
  <2>3. job' \in [Jobs -> Job]
    BY <1>j, <2>1, <2>2 DEF Job
  <2>4. \A j \in Jobs : job'[j].status # "none" => job[j].status # "none" \/ j \in Past
    BY <1>j, <2>1, <2>2 DEF Job
  <2> QED
    BY <1>0, <1>j, <1>4, <2>1, <2>3, <2>4, Unmarked, FinishWorks, StageShape
<1> QED
  BY <1>1, <1>2, <1>3, <1>4 DEF WorkerStep

LEMMA CrashShape ==
    ASSUME IndexShape, NEW w \in Workers, Crash(w)
    PROVE  IndexShape'
<1>0. /\ IndexTypeOK /\ EventsPast /\ RowsHaveGen
      /\ work \in [Workers -> Works(Past)]
  BY DEF IndexShape, EventsPast
<1>1. /\ work' = [work EXCEPT ![w] = Idle]
      /\ UNCHANGED <<queued, doc, chunkOn, manualVec, ticket, ticketVec, job, syncing, script,
                     reload, raced, flipped, requests>>
      /\ faults' \in 0..MaxFaults /\ faults' = faults + 1
      /\ queue' = queue \cup UNION {Range(g) : g \in Range(work[w].todo)}
  BY <1>0, KnowledgeAssumption DEF Crash, Fault, IndexTypeOK
<1>2. UNION {Range(g) : g \in Range(work[w].todo)} \subseteq Past
  <2>1. work[w].todo \in Seq(Groups(Past))
    BY <1>0, WorkFields DEF Crash
  <2>2. Range(work[w].todo) \subseteq Groups(Past)
    BY <2>1, LenProperties DEF Range
  <2> QED
    BY <2>2, GroupFields
<1>3. work' \in [Workers -> Works(Past)] /\ work' \in [Workers -> Work]
  BY <1>0, <1>1, IdleWorks, WorkerMoves
<1>4. IndexTypeOK'
  BY <1>0, <1>1, <1>2, <1>3 DEF IndexTypeOK, Past
<1>5. Past \subseteq Past' /\ RowsHaveGen'
  BY <1>0, <1>1, UnmarkedKeeps
<1>6. EventsPast'
  BY <1>0, <1>1, <1>3, <1>5, EventsKept
<1> QED
  BY <1>4, <1>5, <1>6 DEF IndexShape

LEMMA JobsFinite == IsFiniteSet(Jobs)
<1>1. IsFiniteSet(Gens) /\ IsFiniteSet(Versions) /\ IsFiniteSet(Tickets)
  BY KnowledgeAssumption, FS_Interval DEF Gens
<1>2. IsFiniteSet(ManualJobs)
  <2> DEFINE f == [p \in Versions \X Gens |-> ManualJob(p[1], p[2])]
  <2>1. f \in Surjection(Versions \X Gens, ManualJobs)
    <3>1. f \in [Versions \X Gens -> ManualJobs]
      BY MakeJob
    <3>2. ASSUME NEW j \in ManualJobs PROVE \E p \in Versions \X Gens : f[p] = j
      <4>1. j.id \in Versions /\ j.gen \in Gens /\ j = ManualJob(j.id, j.gen)
        BY JobFields DEF Jobs
      <4>2. <<j.id, j.gen>> \in Versions \X Gens /\ f[<<j.id, j.gen>>] = ManualJob(j.id, j.gen)
        BY <4>1
      <4> QED
        BY <4>1, <4>2
    <3> QED
      BY <3>1, <3>2 DEF Surjection
  <2> QED
    BY <1>1, <2>1, FS_Product, FS_Surjection
<1>3. IsFiniteSet(TicketJobs)
  <2> DEFINE f == [p \in Tickets \X Gens |-> TicketJob(p[1], p[2])]
  <2>1. f \in Surjection(Tickets \X Gens, TicketJobs)
    <3>1. f \in [Tickets \X Gens -> TicketJobs]
      BY MakeJob
    <3>2. ASSUME NEW j \in TicketJobs PROVE \E p \in Tickets \X Gens : f[p] = j
      <4>1. j.id \in Tickets /\ j.gen \in Gens /\ j = TicketJob(j.id, j.gen)
        BY JobFields DEF Jobs
      <4>2. <<j.id, j.gen>> \in Tickets \X Gens /\ f[<<j.id, j.gen>>] = TicketJob(j.id, j.gen)
        BY <4>1
      <4> QED
        BY <4>1, <4>2
    <3> QED
      BY <3>1, <3>2 DEF Surjection
  <2> QED
    BY <1>1, <2>1, FS_Product, FS_Surjection
<1> QED
  BY <1>2, <1>3, FS_Union DEF Jobs

\* Events of one kind, in any order, are a group or nothing.
LEMMA OrderedGroup ==
    ASSUME NEW S, S \subseteq Past, NEW kind \in Kinds, \A j \in S : j.kind = kind, NEW g \in Orders(S)
    PROVE  NonEmpty(g) \in Seq(Groups(Past))
<1>1. Cardinality(S) \in Nat
  BY JobsFinite, FS_Subset, FS_CardinalityType DEF Past
<1>2. g \in [1..Cardinality(S) -> S]
  BY DEF Orders
<1>3. g \in Seq(Past) /\ \A i \in 1..Len(g) : g[i].kind = kind
  BY <1>1, <1>2
<1>4. CASE g = <<>>
  BY <1>4 DEF NonEmpty
<1>5. CASE g # <<>>
  <2>1. g \in Groups(Past)
    BY <1>3, <1>5 DEF Groups
  <2>2. <<g>> \in Seq(Groups(Past))
    BY <2>1
  <2> QED
    BY <1>5, <2>2 DEF NonEmpty
<1> QED
  BY <1>4, <1>5

\* Jobs that are started count an attempt, and have one.
LEMMA StartedJobs ==
    ASSUME IndexTypeOK, NEW S, \A j \in S : job[j].attempts < MaxAttempts
    PROVE  /\ Started(S) \in [Jobs -> Job]
           /\ \A j \in Jobs : \/ Started(S)[j] = job[j]
                              \/ j \in S /\ Started(S)[j].status = "RUNNING"
<1>1. ASSUME NEW j \in Jobs, j \in S
      PROVE  [status |-> "RUNNING", attempts |-> job[j].attempts + 1] \in Job
  <2>1. job[j].attempts \in 0..MaxAttempts /\ MaxAttempts \in Nat
    BY <1>1, KnowledgeAssumption DEF IndexTypeOK, Job
  <2>2. job[j].attempts + 1 \in 0..MaxAttempts
    BY <1>1, <2>1
  <2> QED
    BY <2>2 DEF Job
<1>2. \A j \in Jobs : job[j] \in Job
  BY DEF IndexTypeOK
<1> QED
  BY <1>1, <1>2 DEF Started

\* What a worker takes is an attempt of jobs that are known.
LEMMA TakeEffect ==
    ASSUME IndexTypeOK, EventsPast, NEW w \in Workers, Takes(w)
    PROVE  /\ \E x \in Works(Past) : /\ work' = [work EXCEPT ![w] = x]
                                     /\ x.stage \notin {"upsert", "publish"}
           /\ job' \in [Jobs -> Job] /\ queue' \subseteq queue
           /\ \A j \in Jobs : job'[j] = job[j] \/ (job[j].status # "none" /\ job'[j].status = "RUNNING")
<1>1. PICK taken \in SUBSET queue : Take(w, taken) \/ TakeOverrun(w, taken)
  BY DEF Takes
<1>2. taken \subseteq Jobs /\ work \in [Workers -> Works(Past)] /\ job \in [Jobs -> Job]
  BY DEF IndexTypeOK, EventsPast
<1>3. ASSUME NEW S \in SUBSET (Live(taken) \ Spent(taken))
      PROVE  /\ Started(S) \in [Jobs -> Job]
             /\ \A j \in Jobs : \/ Started(S)[j] = job[j]
                                \/ job[j].status # "none" /\ Started(S)[j].status = "RUNNING"
  <2>1. ASSUME NEW j \in S PROVE job[j].attempts < MaxAttempts /\ job[j].status # "none"
    <3>1. j \in Jobs /\ ~(job[j].attempts >= MaxAttempts) /\ job[j].status # "none"
      BY <1>2, <1>3 DEF Live, Spent
    <3>2. job[j].attempts \in Nat /\ MaxAttempts \in Nat
      BY <1>2, <3>1, KnowledgeAssumption DEF Job
    <3> QED
      BY <3>1, <3>2
  <2> QED
    BY <2>1, StartedJobs
<1>4. CASE Take(w, taken)
  <2> DEFINE of(kind) == {j \in Live(taken) : j.kind = kind}
  <2>1. PICK manuals \in Orders(of("manual")), tickets \in Orders(of("ticket")) :
             work' = [work EXCEPT ![w] = Doing(NonEmpty(manuals) \o NonEmpty(tickets))]
    BY <1>4 DEF Take
  <2>2. of("manual") \subseteq Past /\ of("ticket") \subseteq Past
    BY <1>2 DEF EventsPast, Live
  <2>3. NonEmpty(manuals) \in Seq(Groups(Past))
    BY <2>2, OrderedGroup DEF Kinds
  <2>4. NonEmpty(tickets) \in Seq(Groups(Past))
    BY <2>2, OrderedGroup DEF Kinds
  <2>5. NonEmpty(manuals) \o NonEmpty(tickets) \in Seq(Groups(Past))
    BY <2>3, <2>4, ConcatProperties
  <2>6. /\ Doing(NonEmpty(manuals) \o NonEmpty(tickets)) \in Works(Past)
        /\ Doing(NonEmpty(manuals) \o NonEmpty(tickets)).stage \notin {"upsert", "publish"}
    BY <2>5, DoingWorks
  <2>7. /\ job' = Started(Live(taken)) /\ queue' = queue \ taken
        /\ Live(taken) \in SUBSET (Live(taken) \ Spent(taken))
    BY <1>4 DEF Take
  <2> QED
    BY <1>3, <2>1, <2>6, <2>7
<1>5. CASE TakeOverrun(w, taken)
  <2>1. work[w].stage = "idle" /\ work' = work /\ queue' \subseteq queue
    BY <1>5 DEF TakeOverrun, Receive
  <2>2. work[w] \in Works(Past) /\ work' = [work EXCEPT ![w] = work[w]]
    BY <1>2, <2>1
  <2>3. job' = job \/ \E S \in SUBSET (Live(taken) \ Spent(taken)) : job' = Started(S)
    BY <1>5 DEF TakeOverrun
  <2> QED
    BY <1>2, <1>3, <2>1, <2>2, <2>3
<1> QED
  BY <1>1, <1>4, <1>5

LEMMA TakeShape ==
    ASSUME IndexShape, NEW w \in Workers, Takes(w)
    PROVE  IndexShape'
<1>0. /\ IndexTypeOK /\ EventsPast /\ RowsHaveGen
      /\ work \in [Workers -> Works(Past)]
  BY DEF IndexShape, EventsPast
<1>1. UNCHANGED <<queued, doc, chunkOn, manualVec, ticket, ticketVec, syncing, script,
                  reload, raced, flipped, faults, requests>>
  BY DEF Takes, Take, TakeOverrun
<1>2. work' \in [Workers -> Works(Past)] /\ work' \in [Workers -> Work]
  BY <1>0, TakeEffect, WorkerMoves
<1>3. \A j \in Jobs : job'[j].status # "none" => job[j].status # "none"
  BY <1>0, TakeEffect
<1>4. job' \in [Jobs -> Job] /\ queue' \subseteq Jobs
  BY <1>0, TakeEffect DEF IndexTypeOK
<1>5. IndexTypeOK'
  BY <1>0, <1>1, <1>2, <1>4 DEF IndexTypeOK
<1>6. Past \subseteq Past' /\ RowsHaveGen'
  BY <1>0, <1>1, UnmarkedKeeps
<1>7. EventsPast'
  BY <1>0, <1>2, <1>3, <1>6, EventsKept
<1> QED
  BY <1>5, <1>6, <1>7 DEF IndexShape

\* The row of version v is written anew, and that of no other but to take it out of
\* effect.
NewRow(v) ==
    /\ doc' \in [Versions -> Doc]
    /\ doc'[v].gen = doc[v].gen + 1
    /\ doc'[v].status \in {"QUEUED", "PENDING"}
    /\ \A u \in Versions : u # v =>
          /\ doc'[u].gen = doc[u].gen
          /\ doc'[u].status = doc[u].status
          /\ doc'[u].approved = doc[u].approved
          /\ doc'[u].effective => doc[u].effective

LEMMA CreateEffect ==
    ASSUME IndexTypeOK, NEW v \in Versions, NEW approved \in BOOLEAN, NEW effective \in BOOLEAN,
           doc[v].gen < MaxGen, CreatePending(v, approved, effective)
    PROVE  NewRow(v) /\ chunkOn' \in {{v}, chunkOn}
<1> DEFINE new == [status |-> IF queued THEN "QUEUED" ELSE "PENDING", approved |-> approved,
                   effective |-> effective, gen |-> doc[v].gen + 1]
<1>0. \A u \in Versions : doc[u] \in Doc
  BY DEF IndexTypeOK
<1>1. new \in Doc /\ new.gen = doc[v].gen + 1 /\ new.status \in {"QUEUED", "PENDING"}
  BY <1>0, KnowledgeAssumption DEF Doc, Statuses
<1>2. doc'[v] = new
  BY DEF CreatePending
<1>3. ASSUME NEW u \in Versions, u # v
      PROVE  doc'[u] = IF effective THEN [doc[u] EXCEPT !.effective = FALSE] ELSE doc[u]
  BY <1>3 DEF CreatePending
<1> HIDE DEF new
<1>4. ASSUME NEW u \in Versions, u # v
      PROVE  /\ doc'[u] \in Doc
             /\ doc'[u].gen = doc[u].gen
             /\ doc'[u].status = doc[u].status
             /\ doc'[u].approved = doc[u].approved
             /\ doc'[u].effective => doc[u].effective
  <2>1. doc[u] \in Doc
    BY <1>0
  <2>2. CASE effective
    <3>1. doc'[u] = [doc[u] EXCEPT !.effective = FALSE]
      BY <1>3, <1>4, <2>2
    <3> QED
      BY <2>1, <3>1 DEF Doc
  <2>3. CASE ~effective
    <3>1. doc'[u] = doc[u]
      BY <1>3, <1>4, <2>3
    <3> QED
      BY <2>1, <3>1
  <2> QED
    BY <2>2, <2>3
<1>5. doc' \in [Versions -> Doc]
  <2>1. doc' = [u \in Versions |-> doc'[u]]
    BY DEF CreatePending
  <2> QED
    BY <1>1, <1>2, <1>4, <2>1
<1>6. chunkOn' \in {{v}, chunkOn}
  BY DEF CreatePending
<1> QED
  BY <1>1, <1>2, <1>4, <1>5, <1>6 DEF NewRow

LEMMA LoadedEffect ==
    ASSUME IndexTypeOK, NEW current \in BOOLEAN, ReloadRows(current)
    PROVE  /\ NewRow(DatasetVersion) /\ DatasetVersion \in Versions
           /\ chunkOn' \in {{DatasetVersion}, {}}
           /\ ticket' \in [Tickets -> Ticket]
           /\ \A t \in Tickets :
                 \/ ticket'[t] = ticket[t]
                 \/ ticket'[t].gen = ticket[t].gen + 1 /\ ticket'[t].status = "QUEUED"
<1>1. DatasetVersion \in Versions
  BY KnowledgeAssumption
<1>2. LoadedDocument(current) \in Doc
  BY <1>1, KnowledgeAssumption DEF ReloadRows, LoadedDocument, IndexTypeOK, Doc, Statuses
<1>3. /\ LoadedDocument(current).gen = doc[DatasetVersion].gen + 1
      /\ LoadedDocument(current).status \in {"QUEUED", "PENDING"}
  BY DEF LoadedDocument
<1>4. NewRow(DatasetVersion)
  <2>1. doc' = [doc EXCEPT ![DatasetVersion] = LoadedDocument(current)]
    BY DEF ReloadRows
  <2> QED
    BY <1>1, <1>2, <1>3, <2>1 DEF NewRow, IndexTypeOK
<1>5. PICK verified \in SUBSET {t \in Tickets : ticket[t].gen < MaxGen} :
         ticket' = LoadedTickets(verified)
  BY DEF ReloadRows
<1>6. ASSUME NEW t \in Tickets
      PROVE  /\ ticket'[t] \in Ticket
             /\ \/ ticket'[t] = ticket[t]
                \/ ticket'[t].gen = ticket[t].gen + 1 /\ ticket'[t].status = "QUEUED"
  <2>1. ticket[t] \in Ticket
    BY DEF IndexTypeOK
  <2>2. CASE t \in verified
    <3>1. ticket'[t] = [status |-> "QUEUED", verified |-> TRUE, gen |-> ticket[t].gen + 1]
      BY <1>5, <2>2 DEF LoadedTickets
    <3>2. ticket[t].gen + 1 \in 0..MaxGen
      BY <2>1, <2>2, KnowledgeAssumption DEF Ticket
    <3> QED
      BY <3>1, <3>2 DEF Ticket, Statuses
  <2>3. CASE t \notin verified
    BY <1>5, <2>1, <2>3 DEF LoadedTickets
  <2> QED
    BY <2>2, <2>3
<1>7. ticket' \in [Tickets -> Ticket]
  <2>1. ticket' = [t \in Tickets |-> ticket'[t]]
    BY <1>5 DEF LoadedTickets
  <2> QED
    BY <1>6, <2>1
<1>8. chunkOn' \in {{DatasetVersion}, {}}
  BY DEF ReloadRows
<1> QED
  BY <1>1, <1>4, <1>6, <1>7, <1>8

\* A new row keeps what is known of rows.
LEMMA NewRowKeeps ==
    ASSUME IndexTypeOK, RowsHaveGen, NEW v \in Versions, NewRow(v),
           chunkOn' \in {{}, {v}, chunkOn},
           \A u \in Versions : u # v /\ syncing'[u] # "none" => syncing[u] # "none"
    PROVE  /\ \A u \in Versions : doc'[u].effective => doc'[u].status # "none"
           /\ \A u \in Versions : doc'[u].status # "none" => doc'[u].gen # 0
           /\ \A u \in Versions : syncing'[u] # "none" => doc'[u].status # "none"
           /\ \A u \in chunkOn' : doc'[u].gen # 0
           /\ \A u \in Versions : doc[u].gen <= doc'[u].gen
<1>1. \A u \in Versions : doc[u].gen \in Nat
  BY KnowledgeAssumption DEF IndexTypeOK, Doc
<1>2. doc'[v].gen # 0 /\ doc[v].gen <= doc'[v].gen /\ doc'[v].status # "none"
  BY <1>1 DEF NewRow
<1>3. ASSUME NEW u \in Versions, u # v
      PROVE  /\ doc'[u].effective => doc'[u].status # "none"
             /\ doc'[u].status # "none" => doc'[u].gen # 0
             /\ syncing'[u] # "none" => doc'[u].status # "none"
             /\ u \in chunkOn => doc'[u].gen # 0
             /\ doc[u].gen <= doc'[u].gen
  <2>1. /\ doc'[u].gen = doc[u].gen /\ doc'[u].status = doc[u].status
        /\ doc'[u].effective => doc[u].effective
    BY <1>3 DEF NewRow
  <2>2. doc'[u].effective => doc'[u].status # "none"
    BY <2>1 DEF RowsHaveGen
  <2> QED
    BY <1>1, <1>3, <2>1, <2>2 DEF RowsHaveGen
<1>4. chunkOn' \subseteq Versions /\ \A u \in chunkOn' : u = v \/ u \in chunkOn
  BY DEF IndexTypeOK
<1> QED
  BY <1>2, <1>3, <1>4

\* Jobs that are added are jobs.
LEMMA JobsAdded ==
    ASSUME IndexTypeOK, NEW N \in SUBSET Jobs,
           job' = [j \in Jobs |-> IF j \in N THEN NewJob ELSE job[j]],
           queue' = queue \cup N
    PROVE  /\ job' \in [Jobs -> Job] /\ queue' \subseteq Jobs
           /\ \A j \in Jobs : job'[j].status # "none" => job[j].status # "none" \/ j \in N
<1>1. NewJob \in Job
  BY KnowledgeAssumption DEF NewJob, Job
<1>2. job' \in [Jobs -> Job] /\ queue' \subseteq Jobs
  BY <1>1 DEF IndexTypeOK
<1> QED
  BY <1>2

LEMMA AddedAlone ==
    ASSUME IndexTypeOK, NEW k \in Jobs, job' = [job EXCEPT ![k] = NewJob]
    PROVE  job' = [j \in Jobs |-> IF j \in {k} THEN NewJob ELSE job[j]]
BY DEF IndexTypeOK

LEMMA IngestShape ==
    ASSUME IndexShape, NEW v \in Versions, NEW approved \in BOOLEAN, NEW effective \in BOOLEAN,
           Ingest(v, approved, effective)
    PROVE  IndexShape'
<1>0. /\ IndexTypeOK /\ EventsPast /\ RowsHaveGen
      /\ work \in [Workers -> Works(Past)]
  BY DEF IndexShape, EventsPast
<1>1. /\ UNCHANGED <<queued, manualVec, ticket, ticketVec, work, script, reload, raced, flipped, faults>>
      /\ requests' \in 0..MaxRequests
  BY <1>0, KnowledgeAssumption DEF Ingest, Request, IndexTypeOK
<1>2. NewRow(v) /\ chunkOn' \in {{v}, chunkOn}
  BY <1>0, CreateEffect DEF Ingest
<1>3. doc[v].gen + 1 \in Gens /\ doc[v].gen \in Nat
  BY <1>0, KnowledgeAssumption DEF Ingest, Gens, IndexTypeOK, Doc
<1> DEFINE k == ManualJob(v, doc[v].gen + 1)
<1>4. k \in Jobs /\ k.kind = "manual" /\ k.id = v /\ k.gen = doc[v].gen + 1
  BY <1>3, MakeJob DEF ManualJob
<1>5. \A u \in Versions : u # v /\ syncing'[u] # "none" => syncing[u] # "none"
  BY <1>0 DEF Ingest, IndexTypeOK
<1>6. syncing' \in [Versions -> {"none", "upsert", "INDEXED", "DEGRADED", "FAILED"}]
  BY <1>0 DEF Ingest, IndexTypeOK
<1>7. /\ \A u \in Versions : doc'[u].effective => doc'[u].status # "none"
      /\ \A u \in Versions : doc'[u].status # "none" => doc'[u].gen # 0
      /\ \A u \in Versions : syncing'[u] # "none" => doc'[u].status # "none"
      /\ \A u \in chunkOn' : doc'[u].gen # 0
      /\ \A u \in Versions : doc[u].gen <= doc'[u].gen
  BY <1>0, <1>2, <1>5, NewRowKeeps
<1>8. RowsHaveGen'
  BY <1>0, <1>1, <1>7 DEF RowsHaveGen
<1>9. Past \subseteq Past'
  <2>1. \A t \in Tickets : ticket[t].gen <= ticket'[t].gen
    BY <1>0, <1>1, KnowledgeAssumption DEF IndexTypeOK, Ticket
  <2> QED
    BY <1>0, <1>1, <1>2, <1>7, <2>1, PastGrows DEF NewRow, IndexTypeOK
<1>10. k \in Past'
  BY <1>2, <1>3, <1>4 DEF Past, RowGen, NewRow
<1>11. /\ job' \in [Jobs -> Job] /\ queue' \subseteq Jobs
       /\ \A j \in Jobs : job'[j].status # "none" => job[j].status # "none" \/ j \in Past'
  <2>1. CASE queued
    <3>1. job' = [job EXCEPT ![k] = NewJob] /\ queue' = queue \cup {k}
      BY <2>1 DEF Ingest
    <3> HIDE DEF k
    <3>2. job' = [j \in Jobs |-> IF j \in {k} THEN NewJob ELSE job[j]]
      BY <1>0, <1>4, <3>1, AddedAlone
    <3> QED
      BY <1>0, <1>1, <1>4, <1>10, <3>1, <3>2, JobsAdded
  <2>2. CASE ~queued
    <3>1. UNCHANGED <<job, queue>>
      BY <2>2 DEF Ingest
    <3> QED
      BY <1>0, <1>1, <3>1 DEF IndexTypeOK
  <2> QED
    BY <2>1, <2>2
<1>12. chunkOn' \subseteq Versions
  BY <1>0, <1>2 DEF IndexTypeOK
<1>13. IndexTypeOK'
  BY <1>0, <1>1, <1>2, <1>6, <1>11, <1>12 DEF IndexTypeOK, NewRow
<1>14. EventsPast'
  BY <1>0, <1>1, <1>9, <1>11, EventsKept
<1> QED
  BY <1>8, <1>11, <1>13, <1>14 DEF IndexShape

\* The writes of an ingestion without a queue.
LEMMA SyncShape ==
    ASSUME IndexShape, NEW v \in Versions, SyncUpsert(v) \/ SyncPublish(v) \/ SyncCrash(v)
    PROVE  IndexShape'
<1>0. /\ IndexTypeOK /\ EventsPast /\ RowsHaveGen
      /\ work \in [Workers -> Works(Past)]
      /\ faults \in Nat /\ MaxFaults \in Nat
  BY KnowledgeAssumption DEF IndexShape, EventsPast, IndexTypeOK
<1>1. /\ UNCHANGED <<queued, chunkOn, ticket, ticketVec, job, queue, work, script, reload,
                     raced, flipped, requests>>
      /\ faults' \in Nat /\ faults <= faults' /\ faults' <= MaxFaults
  BY <1>0 DEF SyncUpsert, SyncPublish, SyncCrash, Fault, IndexTypeOK
<1>2. /\ syncing' \in [Versions -> {"none", "upsert", "INDEXED", "DEGRADED", "FAILED"}]
      /\ \A u \in Versions : syncing'[u] # "none" => syncing[u] # "none"
  BY <1>0 DEF SyncUpsert, SyncPublish, SyncCrash, IndexTypeOK
<1>3. manualVec' \subseteq Versions \X Gens
  <2>1. SyncUpsert(v) => doc[v].gen \in Gens
    BY <1>0, KnowledgeAssumption DEF SyncUpsert, RowsHaveGen, IndexTypeOK, Doc, Gens
  <2> QED
    BY <1>0, <2>1 DEF SyncUpsert, SyncPublish, SyncCrash, IndexTypeOK
<1>4. /\ doc' \in [Versions -> Doc] /\ DocsMarked(Statuses)
      /\ \A u \in Versions : doc'[u] = doc[u] \/ doc[u].gen # 0
  <2>1. CASE SyncPublish(v)
    <3>1. doc[v].gen # 0 /\ syncing[v] \in Statuses /\ doc' = [doc EXCEPT ![v].status = syncing[v]]
      BY <1>0, <2>1 DEF SyncPublish, RowsHaveGen, Statuses
    <3>2. doc' \in [Versions -> Doc] /\ DocsMarked({syncing[v]})
      BY <1>0, <3>1, MarkDoc DEF IndexTypeOK
    <3>3. DocsMarked(Statuses)
      BY <3>1, <3>2 DEF DocsMarked
    <3>4. \A u \in Versions : u # v => doc'[u] = doc[u]
      BY <1>0, <3>1 DEF IndexTypeOK
    <3> QED
      BY <3>1, <3>2, <3>3, <3>4
  <2>2. CASE ~SyncPublish(v)
    <3>1. doc' = doc
      BY <2>2 DEF SyncUpsert, SyncCrash
    <3> QED
      BY <1>0, <3>1 DEF IndexTypeOK, DocsMarked
  <2> QED
    BY <2>1, <2>2
<1>5. TicketsMarked(Statuses) /\ "none" \notin Statuses /\ ticket' \in [Tickets -> Ticket]
  BY <1>0, <1>1 DEF TicketsMarked, Statuses, IndexTypeOK
<1>6. Past \subseteq Past' /\ RowsHaveGen'
  BY <1>0, <1>1, <1>2, <1>4, <1>5, MarkedKeeps
<1>7. IndexTypeOK'
  BY <1>0, <1>1, <1>2, <1>3, <1>4 DEF IndexTypeOK
<1>8. EventsPast'
  BY <1>0, <1>1, <1>6, EventsKept
<1> QED
  BY <1>6, <1>7, <1>8 DEF IndexShape

\* A ticket that is queued gets the next generation.
LEMMA QueueEffect ==
    ASSUME IndexTypeOK, NEW t \in Tickets, QueueTicket(t)
    PROVE  /\ ticket' \in [Tickets -> Ticket]
           /\ ticket'[t].gen = ticket[t].gen + 1 /\ ticket'[t].status = "QUEUED"
           /\ ticket'[t].verified = ticket[t].verified
           /\ \A s \in Tickets : s # t => ticket'[s] = ticket[s]
<1> DEFINE x == [ticket[t] EXCEPT !.gen = ticket[t].gen + 1, !.status = "QUEUED"]
<1>1. ticket[t] \in Ticket /\ ticket[t].gen < MaxGen /\ ticket \in [Tickets -> Ticket]
  BY DEF IndexTypeOK, QueueTicket
<1>2. ticket' = [ticket EXCEPT ![t] = x]
  BY <1>1 DEF QueueTicket
<1>3. ticket[t].gen + 1 \in 0..MaxGen
  BY <1>1, KnowledgeAssumption DEF Ticket
<1>4. x \in Ticket
  BY <1>1, <1>3 DEF Ticket, Statuses
<1>5. x.gen = ticket[t].gen + 1 /\ x.status = "QUEUED" /\ x.verified = ticket[t].verified
  BY <1>1 DEF Ticket
<1> HIDE DEF x
<1> QED
  BY <1>1, <1>2, <1>4, <1>5

\* A review changes the verification of a ticket and nothing else.
LEMMA ReviewEffect ==
    ASSUME IndexTypeOK, NEW t \in Tickets, ReviewTicket(t)
    PROVE  /\ ticket' \in [Tickets -> Ticket]
           /\ \A s \in Tickets : ticket'[s].gen = ticket[s].gen /\ ticket'[s].status = ticket[s].status
           /\ \A s \in Tickets : s # t => ticket'[s] = ticket[s]
<1> DEFINE x == [ticket[t] EXCEPT !.verified = ~ticket[t].verified]
<1>1. ticket[t] \in Ticket /\ ticket \in [Tickets -> Ticket]
  BY DEF IndexTypeOK
<1>2. ticket' = [ticket EXCEPT ![t] = x]
  BY <1>1 DEF ReviewTicket
<1>3. (~ticket[t].verified) \in BOOLEAN
  OBVIOUS
<1>4. x \in Ticket
  BY <1>1, <1>3 DEF Ticket
<1>5. x.gen = ticket[t].gen /\ x.status = ticket[t].status
  BY <1>1 DEF Ticket
<1> HIDE DEF x
<1> QED
  BY <1>1, <1>2, <1>4, <1>5

LEMMA QueueShape ==
    ASSUME IndexShape, NEW t \in Tickets, QueueTicket(t)
    PROVE  IndexShape'
<1>0. IndexTypeOK /\ EventsPast /\ RowsHaveGen /\ work \in [Workers -> Works(Past)]
  BY DEF IndexShape, EventsPast
<1>1. /\ UNCHANGED <<queued, doc, chunkOn, manualVec, ticketVec, work, syncing, script, reload,
                     flipped, faults>>
      /\ requests' \in 0..MaxRequests /\ raced' \subseteq Tickets /\ reload \in {"none", "done"}
  BY <1>0, KnowledgeAssumption DEF QueueTicket, Request, IndexTypeOK
<1>2. /\ ticket' \in [Tickets -> Ticket] /\ ticket'[t].gen = ticket[t].gen + 1
      /\ \A s \in Tickets : s # t => ticket'[s] = ticket[s]
  BY <1>0, QueueEffect
<1>3. ticket[t].gen + 1 \in Gens /\ ticket[t].gen \in Nat
  BY <1>0, KnowledgeAssumption DEF QueueTicket, Gens, IndexTypeOK, Ticket
<1>4. Past \subseteq Past'
  <2>1. \A s \in Tickets : ticket[s].gen <= ticket'[s].gen
    BY <1>0, <1>2, <1>3, KnowledgeAssumption DEF IndexTypeOK, Ticket
  <2>2. \A v \in Versions : doc[v].gen <= doc'[v].gen
    BY <1>0, <1>1, KnowledgeAssumption DEF IndexTypeOK, Doc
  <2> QED
    BY <1>0, <1>1, <1>2, <2>1, <2>2, PastGrows DEF IndexTypeOK
<1>5. RowsHaveGen'
  BY <1>0, <1>1 DEF RowsHaveGen
<1> DEFINE k == TicketJob(t, ticket[t].gen + 1)
<1>6. k \in Jobs /\ k.kind = "ticket" /\ k.id = t /\ k.gen = ticket[t].gen + 1
  BY <1>3, MakeJob DEF TicketJob
<1>7. k \in Past'
  BY <1>2, <1>3, <1>6 DEF Past, RowGen
<1>8. job' = [job EXCEPT ![k] = NewJob] /\ queue' = queue \cup {k}
  BY DEF QueueTicket
<1> HIDE DEF k
<1>9. /\ job' \in [Jobs -> Job] /\ queue' \subseteq Jobs
      /\ \A j \in Jobs : job'[j].status # "none" => job[j].status # "none" \/ j \in Past'
  <2>1. job' = [j \in Jobs |-> IF j \in {k} THEN NewJob ELSE job[j]]
    BY <1>0, <1>6, <1>8, AddedAlone
  <2> QED
    BY <1>0, <1>1, <1>6, <1>7, <1>8, <2>1, JobsAdded
<1>10. IndexTypeOK'
  BY <1>0, <1>1, <1>2, <1>9 DEF IndexTypeOK
<1>11. EventsPast'
  BY <1>0, <1>1, <1>4, <1>9, EventsKept
<1> QED
  BY <1>5, <1>9, <1>10, <1>11 DEF IndexShape

LEMMA ReviewShape ==
    ASSUME IndexShape, NEW t \in Tickets, ReviewTicket(t)
    PROVE  IndexShape'
<1>0. IndexTypeOK /\ EventsPast /\ RowsHaveGen /\ work \in [Workers -> Works(Past)]
  BY DEF IndexShape, EventsPast
<1>1. /\ UNCHANGED <<queued, doc, chunkOn, manualVec, ticketVec, job, queue, work, syncing, script,
                     reload, raced, faults>>
      /\ requests' \in 0..MaxRequests /\ flipped' \subseteq Tickets /\ reload \in {"none", "done"}
  BY <1>0, KnowledgeAssumption DEF ReviewTicket, Request, IndexTypeOK
<1>2. ticket' \in [Tickets -> Ticket] /\ \A s \in Tickets : ticket'[s].gen = ticket[s].gen
  BY <1>0, ReviewEffect
<1>3. Past \subseteq Past'
  <2>1. \A s \in Tickets : ticket[s].gen <= ticket'[s].gen
    BY <1>0, <1>2, KnowledgeAssumption DEF IndexTypeOK, Ticket
  <2>2. \A v \in Versions : doc[v].gen <= doc'[v].gen
    BY <1>0, <1>1, KnowledgeAssumption DEF IndexTypeOK, Doc
  <2> QED
    BY <1>0, <1>1, <1>2, <2>1, <2>2, PastGrows DEF IndexTypeOK
<1>4. RowsHaveGen'
  BY <1>0, <1>1 DEF RowsHaveGen
<1>5. IndexTypeOK'
  BY <1>0, <1>1, <1>2 DEF IndexTypeOK
<1>6. EventsPast'
  BY <1>0, <1>1, <1>3, EventsKept
<1> QED
  BY <1>4, <1>5, <1>6 DEF IndexShape

\* What the script without a queue writes.
LEMMA ScriptEffect ==
    ASSUME IndexTypeOK, ScriptRead \/ ScriptUpsert \/ ScriptPublish
    PROVE  /\ UNCHANGED <<queued, doc, chunkOn, manualVec, job, queue, work, syncing, reload,
                          raced, flipped>>
           /\ ticket' \in [Tickets -> Ticket] /\ TicketsMarked({"INDEXED"})
           /\ ticketVec' \in [Tickets -> 0..ScriptGen]
           /\ \A t \in Tickets : ticketVec'[t] = ticketVec[t] \/ ticketVec'[t] = ScriptGen
           /\ script' \in [stage : {"idle", "upsert", "publish"}, rows : SUBSET Tickets]
           /\ requests' \in 0..MaxRequests
           /\ faults' \in 0..MaxFaults /\ faults <= faults'
<1>0. /\ ticket \in [Tickets -> Ticket] /\ ticketVec \in [Tickets -> 0..ScriptGen]
      /\ script \in [stage : {"idle", "upsert", "publish"}, rows : SUBSET Tickets]
      /\ faults \in 0..MaxFaults /\ faults \in Nat /\ MaxFaults \in Nat
      /\ requests \in 0..MaxRequests /\ MaxRequests \in Nat
      /\ ScriptGen \in 0..ScriptGen
  BY KnowledgeAssumption DEF IndexTypeOK, ScriptGen
<1>1. CASE ScriptRead
  <2>1. script' = [stage |-> "upsert", rows |-> {t \in Tickets : ticket[t].verified}]
    BY <1>1 DEF ScriptRead
  <2>2. script' \in [stage : {"idle", "upsert", "publish"}, rows : SUBSET Tickets]
    BY <2>1
  <2> QED
    BY <1>0, <1>1, <2>2 DEF ScriptRead, Request, TicketsMarked
<1>2. CASE ScriptUpsert
  <2>1. script' \in [stage : {"idle", "upsert", "publish"}, rows : SUBSET Tickets]
    BY <1>0, <1>2 DEF ScriptUpsert, NoScript
  <2>2. /\ ticketVec' \in [Tickets -> 0..ScriptGen]
        /\ \A t \in Tickets : ticketVec'[t] = ticketVec[t] \/ ticketVec'[t] = ScriptGen
    BY <1>0, <1>2 DEF ScriptUpsert
  <2> QED
    BY <1>0, <1>2, <2>1, <2>2 DEF ScriptUpsert, Fault, TicketsMarked
<1>3. CASE ScriptPublish
  <2>1. script' \in [stage : {"idle", "upsert", "publish"}, rows : SUBSET Tickets]
    BY <1>0, <1>3 DEF ScriptPublish, NoScript
  <2>2. ticket' = [t \in Tickets |-> IF t \in script.rows
                                     THEN [ticket[t] EXCEPT !.status = "INDEXED"] ELSE ticket[t]]
    BY <1>3 DEF ScriptPublish
  <2>3. \A t \in Tickets : [ticket[t] EXCEPT !.status = "INDEXED"] \in Ticket
    BY <1>0, MarkTyped DEF Statuses
  <2>4. ticket' \in [Tickets -> Ticket] /\ TicketsMarked({"INDEXED"})
    BY <1>0, <2>2, <2>3 DEF TicketsMarked
  <2> QED
    BY <1>0, <1>3, <2>1, <2>4 DEF ScriptPublish
<1> QED
  BY <1>1, <1>2, <1>3

LEMMA ScriptShape ==
    ASSUME IndexShape, ScriptRead \/ ScriptUpsert \/ ScriptPublish
    PROVE  IndexShape'
<1>0. /\ IndexTypeOK /\ EventsPast /\ RowsHaveGen
      /\ work \in [Workers -> Works(Past)]
      /\ faults \in Nat
  BY KnowledgeAssumption DEF IndexShape, EventsPast, IndexTypeOK
<1>1. /\ UNCHANGED <<queued, doc, chunkOn, manualVec, job, queue, work, syncing, reload,
                     raced, flipped>>
      /\ ticket' \in [Tickets -> Ticket] /\ TicketsMarked({"INDEXED"})
      /\ faults' \in 0..MaxFaults /\ faults <= faults'
  BY <1>0, ScriptEffect
<1>2. doc' \in [Versions -> Doc] /\ DocsMarked({"INDEXED"}) /\ \A v \in Versions : doc'[v] = doc[v]
  BY <1>0, <1>1 DEF IndexTypeOK, DocsMarked
<1>3. Past \subseteq Past' /\ RowsHaveGen'
  BY <1>0, <1>1, <1>2, MarkedKeeps
<1>4. IndexTypeOK'
  BY <1>0, ScriptEffect DEF IndexTypeOK
<1>5. EventsPast'
  BY <1>0, <1>1, <1>3, EventsKept
<1> QED
  BY <1>3, <1>4, <1>5 DEF IndexShape

\* The rows are gone, but for the generations.
LEMMA TruncateEffect ==
    ASSUME IndexTypeOK, ReloadTruncate
    PROVE  /\ doc' \in [Versions -> Doc]
           /\ \A v \in Versions : /\ doc'[v].status = "none" /\ ~doc'[v].effective
                                  /\ doc'[v].gen = doc[v].gen
           /\ ticket' \in [Tickets -> Ticket]
           /\ \A t \in Tickets : /\ ticket'[t].status = "PENDING" /\ ~ticket'[t].verified
                                 /\ ticket'[t].gen = ticket[t].gen
           /\ \A j \in Jobs : job'[j].status = "none"
           /\ job' \in [Jobs -> Job]
           /\ \A w \in Workers : work[w].stage = "idle"
           /\ \A v \in Versions : syncing[v] = "none"
           /\ script.stage = "idle"
<1>0. doc \in [Versions -> Doc] /\ ticket \in [Tickets -> Ticket]
  BY DEF IndexTypeOK
<1>1. ASSUME NEW v \in Versions
      PROVE  /\ doc'[v] \in Doc /\ doc'[v].status = "none" /\ ~doc'[v].effective
             /\ doc'[v].gen = doc[v].gen
  <2>1. doc'[v] = [NoDoc EXCEPT !.gen = doc[v].gen]
    BY DEF ReloadTruncate
  <2>2. doc[v].gen \in 0..MaxGen
    BY <1>0 DEF Doc
  <2>3. doc'[v] = [status |-> "none", approved |-> FALSE, effective |-> FALSE, gen |-> doc[v].gen]
    BY <2>1 DEF NoDoc
  <2> QED
    BY <2>2, <2>3 DEF Doc
<1>2. ASSUME NEW t \in Tickets
      PROVE  /\ ticket'[t] \in Ticket /\ ticket'[t].status = "PENDING" /\ ~ticket'[t].verified
             /\ ticket'[t].gen = ticket[t].gen
  <2>1. ticket'[t] = [ticket[t] EXCEPT !.verified = FALSE, !.status = "PENDING"]
    BY DEF ReloadTruncate
  <2>2. ticket[t] \in Ticket
    BY <1>0
  <2>3. ticket'[t] \in Ticket
    BY <2>1, <2>2 DEF Ticket, Statuses
  <2>4. ticket'[t].status = "PENDING" /\ ticket'[t].gen = ticket[t].gen
    BY <2>1, <2>2 DEF Ticket
  <2>5. ~ticket'[t].verified
    BY <2>1, <2>2 DEF Ticket
  <2> QED
    BY <2>3, <2>4, <2>5
<1>3. doc' \in [Versions -> Doc] /\ ticket' \in [Tickets -> Ticket]
  <2>1. doc' = [v \in Versions |-> doc'[v]] /\ ticket' = [t \in Tickets |-> ticket'[t]]
    BY DEF ReloadTruncate
  <2> QED
    BY <1>1, <1>2, <2>1
<1>4. NoJob \in Job /\ NoJob.status = "none"
  BY KnowledgeAssumption DEF NoJob, Job
<1>5. job' \in [Jobs -> Job] /\ \A j \in Jobs : job'[j].status = "none"
  BY <1>4 DEF ReloadTruncate
<1>6. (\A w \in Workers : work[w].stage = "idle") /\ script.stage = "idle"
  <2>1. Quiet
    BY DEF ReloadTruncate
  <2> QED
    BY <2>1 DEF Quiet, Idle, NoScript
<1>7. \A v \in Versions : syncing[v] = "none"
  BY DEF ReloadTruncate, Quiet
<1> QED
  BY <1>1, <1>2, <1>3, <1>5, <1>6, <1>7

LEMMA TruncateShape ==
    ASSUME IndexShape, ReloadTruncate
    PROVE  IndexShape'
<1>0. IndexTypeOK /\ EventsPast /\ RowsHaveGen /\ work \in [Workers -> Works(Past)]
  BY DEF IndexShape, EventsPast
<1>1. /\ UNCHANGED <<queued, manualVec, ticketVec, queue, work, syncing, script, flipped, faults>>
      /\ requests' \in 0..MaxRequests /\ reload' = "rows" /\ chunkOn' = {} /\ raced' = {}
  <2>1. requests' = MaxRequests
    BY DEF ReloadTruncate
  <2>2. MaxRequests \in 0..MaxRequests
    BY KnowledgeAssumption
  <2>3. /\ UNCHANGED <<queued, manualVec, ticketVec, queue, work, syncing, script, flipped, faults>>
        /\ reload' = "rows" /\ chunkOn' = {} /\ raced' = {}
    BY DEF ReloadTruncate
  <2> QED
    BY <2>1, <2>2, <2>3
<1>2. IndexTypeOK'
  BY <1>0, <1>1, TruncateEffect DEF IndexTypeOK
<1>3. RowsHaveGen'
  <2>1. /\ \A v \in Versions : doc'[v].effective => doc'[v].status # "none"
        /\ \A v \in Versions : doc'[v].status # "none" => doc'[v].gen # 0
        /\ \A v \in Versions : syncing'[v] # "none" => doc'[v].status # "none"
    BY <1>0, <1>1, TruncateEffect
  <2>2. \A t \in Tickets : ~ticket'[t].verified
    BY <1>0, TruncateEffect
  <2> QED
    BY <1>1, <2>1, <2>2 DEF RowsHaveGen
<1>4. Past \subseteq Past'
  <2>1. \A v \in Versions : doc[v].gen <= doc'[v].gen
    BY <1>0, TruncateEffect, KnowledgeAssumption DEF IndexTypeOK, Doc
  <2>2. \A t \in Tickets : ticket[t].gen <= ticket'[t].gen
    BY <1>0, TruncateEffect, KnowledgeAssumption DEF IndexTypeOK, Ticket
  <2> QED
    BY <1>0, <2>1, <2>2, TruncateEffect, PastGrows
<1>5. EventsPast'
  BY <1>0, <1>1, <1>4, TruncateEffect, EventsKept
<1> QED
  BY <1>2, <1>3, <1>5 DEF IndexShape

LEMMA RowsShape ==
    ASSUME IndexShape, NEW current \in BOOLEAN, ReloadRows(current)
    PROVE  IndexShape'
<1>0. IndexTypeOK /\ EventsPast /\ RowsHaveGen /\ work \in [Workers -> Works(Past)]
  BY DEF IndexShape, EventsPast
<1>1. /\ UNCHANGED <<queued, manualVec, ticketVec, job, queue, work, syncing, script, raced,
                     flipped, faults, requests>>
      /\ reload = "rows" /\ reload' = "jobs"
  BY DEF ReloadRows
<1>2. /\ NewRow(DatasetVersion) /\ DatasetVersion \in Versions
      /\ chunkOn' \in {{DatasetVersion}, {}}
      /\ ticket' \in [Tickets -> Ticket]
      /\ \A t \in Tickets : ticket'[t] = ticket[t] \/ ticket'[t].gen = ticket[t].gen + 1
  BY <1>0, LoadedEffect
<1>3. IndexTypeOK'
  BY <1>0, <1>1, <1>2 DEF IndexTypeOK, NewRow
<1>4. /\ \A u \in Versions : doc'[u].effective => doc'[u].status # "none"
      /\ \A u \in Versions : doc'[u].status # "none" => doc'[u].gen # 0
      /\ \A u \in Versions : syncing'[u] # "none" => doc'[u].status # "none"
      /\ \A u \in chunkOn' : doc'[u].gen # 0
      /\ \A u \in Versions : doc[u].gen <= doc'[u].gen
  BY <1>0, <1>1, <1>2, NewRowKeeps
<1>5. \A t \in Tickets : ticket[t].gen \in Nat
  BY <1>0, KnowledgeAssumption DEF IndexTypeOK, Ticket
<1>6. \A t \in Tickets : ticket'[t].verified => ticket'[t].gen # 0
  BY <1>0, <1>1, <1>2, <1>5 DEF RowsHaveGen
<1>7. RowsHaveGen'
  BY <1>1, <1>4, <1>6 DEF RowsHaveGen
<1>8. Past \subseteq Past'
  <2>1. \A t \in Tickets : ticket[t].gen <= ticket'[t].gen
    BY <1>2, <1>5
  <2> QED
    BY <1>0, <1>2, <1>4, <2>1, PastGrows DEF NewRow
<1>9. EventsPast'
  BY <1>0, <1>1, <1>8, EventsKept
<1> QED
  BY <1>3, <1>7, <1>9 DEF IndexShape

LEMMA JobsShape ==
    ASSUME IndexShape, ReloadJobs
    PROVE  IndexShape'
<1>0. IndexTypeOK /\ EventsPast /\ RowsHaveGen /\ work \in [Workers -> Works(Past)]
  BY DEF IndexShape, EventsPast
<1>1. /\ UNCHANGED <<queued, doc, chunkOn, manualVec, ticket, ticketVec, work, syncing, script,
                     raced, flipped, faults, requests>>
      /\ reload = "jobs" /\ reload' = "done"
  BY DEF ReloadJobs
<1> DEFINE new == {ManualJob(v, doc[v].gen) : v \in {u \in Versions : doc[u].effective}}
                  \cup {TicketJob(t, ticket[t].gen) : t \in {s \in Tickets : ticket[s].verified}}
<1>2. /\ job' = [j \in Jobs |-> IF j \in new THEN NewJob ELSE job[j]]
      /\ queue' = queue \cup new
  BY DEF ReloadJobs
<1>3. ASSUME NEW v \in Versions, doc[v].effective PROVE ManualJob(v, doc[v].gen) \in Past
  <2>1. doc[v].gen # 0
    BY <1>0, <1>3 DEF RowsHaveGen
  <2>2. doc[v].gen \in Gens /\ doc[v].gen \in Nat
    BY <1>0, <2>1, KnowledgeAssumption DEF IndexTypeOK, Doc, Gens
  <2>3. ManualJob(v, doc[v].gen) \in Jobs
    BY <2>2, MakeJob
  <2> QED
    BY <2>2, <2>3 DEF Past, RowGen, ManualJob
<1>4. ASSUME NEW t \in Tickets, ticket[t].verified PROVE TicketJob(t, ticket[t].gen) \in Past
  <2>1. ticket[t].gen # 0
    BY <1>0, <1>1, <1>4 DEF RowsHaveGen
  <2>2. ticket[t].gen \in Gens /\ ticket[t].gen \in Nat
    BY <1>0, <2>1, KnowledgeAssumption DEF IndexTypeOK, Ticket, Gens
  <2>3. TicketJob(t, ticket[t].gen) \in Jobs
    BY <2>2, MakeJob
  <2> QED
    BY <2>2, <2>3 DEF Past, RowGen, TicketJob
<1>5. new \subseteq Past /\ new \in SUBSET Jobs
  BY <1>3, <1>4 DEF Past
<1> HIDE DEF new
<1>6. /\ job' \in [Jobs -> Job] /\ queue' \subseteq Jobs
      /\ \A j \in Jobs : job'[j].status # "none" => job[j].status # "none" \/ j \in new
  BY <1>0, <1>1, <1>2, <1>5, JobsAdded
<1>7. RowsHaveGen'
  BY <1>0, <1>1 DEF RowsHaveGen
<1>8. Past \subseteq Past'
  BY <1>1 DEF Past, RowGen
<1>9. EventsPast'
  BY <1>0, <1>1, <1>5, <1>6, <1>8, EventsKept
<1>10. IndexTypeOK'
  BY <1>0, <1>1, <1>6 DEF IndexTypeOK
<1> QED
  BY <1>6, <1>7, <1>9, <1>10 DEF IndexShape

LEMMA InitShape == IndexInit => IndexShape
<1> SUFFICES ASSUME IndexInit PROVE IndexShape
  OBVIOUS
<1>1. NoDoc \in Doc /\ NoJob \in Job /\ Idle \in Work /\ 0 \in 0..ScriptGen
  BY KnowledgeAssumption DEF NoDoc, Doc, NoJob, Job, Idle, Work, ScriptGen
<1>2. ticket \in [Tickets -> Ticket] /\ \A t \in Tickets : ticket[t].status = "PENDING"
  BY KnowledgeAssumption DEF IndexInit, Ticket, Statuses
<1>3. 0 \in 0..MaxRequests /\ 0 \in 0..MaxFaults
  BY KnowledgeAssumption
<1>4. IndexTypeOK
  BY <1>1, <1>2, <1>3 DEF IndexInit, IndexTypeOK, NoScript
<1>5. EventsPast
  BY IdleWorks DEF IndexInit, EventsPast, NoJob
<1>6. RowsHaveGen
  BY DEF IndexInit, RowsHaveGen, NoDoc
<1> QED
  BY <1>4, <1>5, <1>6 DEF IndexShape

\* Every step of the index keeps its shape.
LEMMA IndexStepShape ==
    ASSUME IndexShape, IndexNext
    PROVE  IndexShape'
BY IngestShape, SyncShape, QueueShape, ReviewShape, ScriptShape, TruncateShape, RowsShape, JobsShape,
   WorkerShape, CrashShape, TakeShape
   DEF IndexNext

-----------------------------------------------------------------------------
(* What workers hold *)

LEMMA HeldUnchanged ==
    ASSUME work' = work
    PROVE  \A w, j : /\ Held(w, j)' <=> Held(w, j)
                     /\ work'[w].stage = work[w].stage
BY DEF Held, Current, Group

\* A worker that goes back to reading, to finishing or to waiting holds nothing.
LEMMA HeldReleased ==
    ASSUME work \in [Workers -> Works(Past)], NEW w \in Workers, NEW x,
           work' = [work EXCEPT ![w] = x], x.stage \notin {"upsert", "publish"}
    PROVE  \A u \in Workers : \A j : Held(u, j)' =>
              /\ u # w /\ Held(u, j)
              /\ work'[u].stage = work[u].stage
<1> SUFFICES ASSUME NEW u \in Workers, NEW j, Held(u, j)'
             PROVE  u # w /\ Held(u, j) /\ work'[u].stage = work[u].stage
  OBVIOUS
<1>1. work'[w] = x
  OBVIOUS
<1>2. u # w
  BY <1>1 DEF Held
<1>3. work'[u] = work[u]
  BY <1>2
<1> QED
  BY <1>2, <1>3 DEF Held, Current, Group

\* A worker that goes on holds what it has at hand.
LEMMA HeldAdvanced ==
    ASSUME work \in [Workers -> Works(Past)], NEW w \in Workers, NEW s,
           work' = [work EXCEPT ![w].stage = s]
    PROVE  \A u \in Workers : \A j : Held(u, j)' =>
              \/ u = w /\ j \in Current(w) /\ work'[u].stage = s
              \/ u # w /\ Held(u, j) /\ work'[u].stage = work[u].stage
<1> SUFFICES ASSUME NEW u \in Workers, NEW j, Held(u, j)'
             PROVE  \/ u = w /\ j \in Current(w) /\ work'[u].stage = s
                    \/ u # w /\ Held(u, j) /\ work'[u].stage = work[u].stage
  OBVIOUS
<1>1. CASE u # w
  <2>1. work'[u] = work[u]
    BY <1>1
  <2> QED
    BY <1>1, <2>1 DEF Held, Current, Group
<1>2. CASE u = w
  <2>1. work[w] \in [todo : Seq(Groups(Past)), stage : {"idle", "read", "upsert", "publish", "finish"},
                     pos : Nat]
    BY DEF Works
  <2>2. work'[w].todo = work[w].todo /\ work'[w].pos = work[w].pos /\ work'[w].stage = s
    BY <2>1
  <2>3. Current(w)' = Current(w)
    BY <2>2 DEF Current, Group
  <2> QED
    BY <1>2, <2>2, <2>3 DEF Held
<1> QED
  BY <1>1, <1>2

\* A worker lets go of its events, ...
Released(w) ==
    /\ \E x \in Works(Past) : x.stage \notin {"upsert", "publish"} /\ work' = [work EXCEPT ![w] = x]
    /\ DocsMarked({"FAILED"}) /\ TicketsMarked({"FAILED"})
    /\ UNCHANGED <<manualVec, ticketVec>>

\* ... has found none of them stale, ...
HasRead(w) ==
    /\ work[w].stage = "read" /\ \A j \in Current(w) : ~Stale(j)
    /\ work' = [work EXCEPT ![w].stage = "upsert"]
    /\ UNCHANGED <<doc, ticket, manualVec, ticketVec>>

\* ... has written their vectors, ...
HasUpserted(w) ==
    /\ work[w].stage = "upsert"
    /\ manualVec' = ManualVectors(w) /\ ticketVec' = TicketVectors(w)
    /\ work' = [work EXCEPT ![w].stage = "publish"]
    /\ UNCHANGED <<doc, ticket>>

\* ... or publishes them.
LEMMA WorkerEffect ==
    ASSUME IndexShape, NEW w \in Workers,
           WorkerStep(w) \/ Crash(w) \/ Takes(w)
    PROVE  /\ Released(w) \/ HasRead(w) \/ HasUpserted(w) \/ Publish(w)
           /\ UNCHANGED <<queued, chunkOn, syncing, script, reload, raced, flipped>>
<1>0. IndexTypeOK /\ EventsPast /\ RowsHaveGen /\ work \in [Workers -> Works(Past)]
  BY DEF IndexShape, EventsPast
<1>1. UNCHANGED <<queued, chunkOn, syncing, script, reload, raced, flipped>>
  BY DEF WorkerStep, Read, Upsert, Publish, Finish, Crash, Takes, Take, TakeOverrun
<1>2. ASSUME NEW stale \in BOOLEAN, Raise(w, stale), work[w].stage # "idle",
             UNCHANGED <<manualVec, ticketVec>>
      PROVE  Released(w)
  <2>1. \E x \in Works(Past) : x.stage \notin {"upsert", "publish"} /\ work' = [work EXCEPT ![w] = x]
    BY <1>0, <1>2, RaiseEffect
  <2>2. DocsMarked({"FAILED"}) /\ TicketsMarked({"FAILED"})
    BY <1>0, <1>2, RaiseEffect
  <2> QED
    BY <1>2, <2>1, <2>2 DEF Released
<1>3. CASE Read(w)
  <2>1. work[w].stage = "read" /\ UNCHANGED <<manualVec, ticketVec>>
    BY <1>3 DEF Read
  <2>2. CASE \E j \in Current(w) : Stale(j)
    <3>1. Raise(w, TRUE)
      BY <1>3, <2>2 DEF Read
    <3> QED
      BY <1>1, <1>2, <2>1, <3>1
  <2>3. CASE ~(\E j \in Current(w) : Stale(j))
    <3>1. work' = [work EXCEPT ![w].stage = "upsert"] /\ UNCHANGED <<ticket, doc>>
      BY <1>3, <2>3 DEF Read
    <3> QED
      BY <1>1, <2>1, <2>3, <3>1 DEF HasRead
  <2> QED
    BY <2>2, <2>3
<1>4. CASE Upsert(w)
  <2>1. work[w].stage = "upsert"
    BY <1>4 DEF Upsert
  <2>2. CASE Raise(w, FALSE) /\ UNCHANGED <<manualVec, ticketVec>>
    BY <1>1, <1>2, <2>1, <2>2
  <2>3. CASE /\ manualVec' = ManualVectors(w)
             /\ ticketVec' = TicketVectors(w)
             /\ work' = [work EXCEPT ![w].stage = "publish"]
             /\ UNCHANGED <<ticket, doc>>
    BY <1>1, <2>1, <2>3 DEF HasUpserted
  <2> QED
    BY <1>4, <2>2, <2>3 DEF Upsert
<1>5. CASE Publish(w)
  BY <1>1, <1>5
<1>6. ASSUME UNCHANGED <<doc, ticket, manualVec, ticketVec>>,
             \E x \in Works(Past) : x.stage \notin {"upsert", "publish"} /\ work' = [work EXCEPT ![w] = x]
      PROVE  Released(w)
  BY <1>0, <1>6, Unmarked DEF Released
<1>7. CASE Finish(w)
  <2>1. UNCHANGED <<doc, ticket, manualVec, ticketVec>>
    BY <1>7 DEF Finish
  <2> QED
    BY <1>0, <1>1, <1>6, <1>7, <2>1, FinishWorks
<1>8. CASE Crash(w)
  <2>1. UNCHANGED <<doc, ticket, manualVec, ticketVec>> /\ work' = [work EXCEPT ![w] = Idle]
    BY <1>8 DEF Crash
  <2> QED
    BY <1>1, <1>6, <2>1, IdleWorks
<1>9. CASE Takes(w)
  <2>1. UNCHANGED <<doc, ticket, manualVec, ticketVec>>
    BY <1>9 DEF Takes, Take, TakeOverrun
  <2>2. \E x \in Works(Past) : x.stage \notin {"upsert", "publish"} /\ work' = [work EXCEPT ![w] = x]
    BY <1>0, <1>9, TakeEffect
  <2> QED
    BY <1>1, <1>6, <2>1, <2>2
<1> QED
  BY <1>3, <1>4, <1>5, <1>7, <1>8, <1>9 DEF WorkerStep

-----------------------------------------------------------------------------
(* INDEXED is not ahead of the vectors *)

LEMMA WorkerManuals ==
    ASSUME IndexShape, ManualsIndexed, NEW w \in Workers,
           Released(w) \/ HasRead(w) \/ HasUpserted(w) \/ Publish(w), syncing' = syncing
    PROVE  ManualsIndexed'
<1>0. IndexTypeOK /\ EventsPast /\ RowsHaveGen /\ work \in [Workers -> Works(Past)]
  BY DEF IndexShape, EventsPast
<1>m. ManualJobs \subseteq Jobs /\ \A j \in ManualJobs : j.id \in Versions /\ j.kind = "manual"
  BY DEF Jobs, ManualJobs
<1>1. CASE Released(w)
  <2>1. PICK x \in Works(Past) : x.stage \notin {"upsert", "publish"} /\ work' = [work EXCEPT ![w] = x]
    BY <1>1 DEF Released
  <2>2. manualVec' = manualVec /\ DocsMarked({"FAILED"})
    BY <1>1 DEF Released
  <2>3. \A v \in Versions : doc'[v].gen = doc[v].gen /\ doc'[v].status \in {"FAILED", doc[v].status}
    BY <1>0, <2>2, DocMarkedFields
  <2>4. \A v \in Versions : doc'[v].status = "INDEXED" => <<v, doc'[v].gen>> \in manualVec'
    BY <2>2, <2>3 DEF ManualsIndexed
  <2>5. \A v \in Versions : syncing'[v] = "INDEXED" => <<v, doc'[v].gen>> \in manualVec'
    BY <2>2, <2>3 DEF ManualsIndexed
  <2>6. ASSUME NEW u \in Workers, NEW j \in ManualJobs, Held(u, j)'
        PROVE  /\ doc'[j.id].gen = j.gen /\ doc'[j.id].status # "none"
               /\ work'[u].stage = "publish" => <<j.id, j.gen>> \in manualVec'
    <3>1. Held(u, j) /\ work'[u].stage = work[u].stage
      BY <1>0, <2>1, <2>6, HeldReleased
    <3> QED
      BY <1>m, <2>2, <2>3, <3>1 DEF ManualsIndexed
  <2> QED
    BY <2>4, <2>5, <2>6 DEF ManualsIndexed
<1>2. CASE HasRead(w)
  <2>1. /\ work' = [work EXCEPT ![w].stage = "upsert"] /\ \A j \in Current(w) : ~Stale(j)
        /\ UNCHANGED <<doc, manualVec>>
    BY <1>2 DEF HasRead
  <2>2. ASSUME NEW j \in Current(w) \cap ManualJobs
        PROVE  doc[j.id].gen = j.gen /\ doc[j.id].status # "none"
    <3>1. ~StaleManual(j) /\ ~Missing(j)
      BY <1>m, <2>1 DEF Stale
    <3>2. doc[j.id].gen = j.gen
      BY <1>m, <3>1 DEF Missing
    <3>3. doc[j.id].effective
      BY <3>1 DEF StaleManual
    <3> QED
      BY <1>0, <1>m, <3>2, <3>3 DEF RowsHaveGen
  <2>3. ASSUME NEW u \in Workers, NEW j \in ManualJobs, Held(u, j)'
        PROVE  /\ doc'[j.id].gen = j.gen /\ doc'[j.id].status # "none"
               /\ work'[u].stage = "publish" => <<j.id, j.gen>> \in manualVec'
    <3>1. \/ u = w /\ j \in Current(w) /\ work'[u].stage = "upsert"
          \/ u # w /\ Held(u, j) /\ work'[u].stage = work[u].stage
      BY <1>0, <2>1, <2>3, HeldAdvanced
    <3> QED
      BY <2>1, <2>2, <3>1 DEF ManualsIndexed
  <2> QED
    BY <2>1, <2>3 DEF ManualsIndexed
<1>3. CASE HasUpserted(w)
  <2>1. /\ work' = [work EXCEPT ![w].stage = "publish"] /\ work[w].stage = "upsert"
        /\ manualVec' = ManualVectors(w) /\ doc' = doc
    BY <1>3 DEF HasUpserted
  <2>2. /\ manualVec \subseteq manualVec'
        /\ \A j \in Current(w) \cap ManualJobs : <<j.id, j.gen>> \in manualVec'
    BY <1>0, <2>1, UpsertVectors
  <2>3. ASSUME NEW u \in Workers, NEW j \in ManualJobs, Held(u, j)'
        PROVE  /\ doc'[j.id].gen = j.gen /\ doc'[j.id].status # "none"
               /\ work'[u].stage = "publish" => <<j.id, j.gen>> \in manualVec'
    <3>1. \/ u = w /\ j \in Current(w)
          \/ Held(u, j) /\ work'[u].stage = work[u].stage
      BY <1>0, <2>1, <2>3, HeldAdvanced
    <3>2. Held(u, j)
      BY <2>1, <3>1 DEF Held
    <3> QED
      BY <2>1, <2>2, <3>1, <3>2 DEF ManualsIndexed
  <2> QED
    BY <2>1, <2>2, <2>3 DEF ManualsIndexed
<1>4. CASE Publish(w)
  <2>1. work[w].stage = "publish" /\ manualVec' = manualVec
    BY <1>4 DEF Publish
  <2>2. /\ DocsMarked({"INDEXED"})
        /\ \A v \in Versions : doc'[v] = doc[v] \/ \E j \in Current(w) \cap ManualJobs : j.id = v
    BY <1>0, <1>4, PublishEffect
  <2>3. PICK x \in Works(Past) : work' = [work EXCEPT ![w] = x] /\ x.stage \notin {"upsert", "publish"}
    BY <1>0, <1>4, PublishEffect
  <2>4. \A v \in Versions : doc'[v].gen = doc[v].gen /\ doc'[v].status \in {"INDEXED", doc[v].status}
    BY <1>0, <2>2, DocMarkedFields
  <2>5. ASSUME NEW j \in Current(w) \cap ManualJobs
        PROVE  <<j.id, doc[j.id].gen>> \in manualVec
    <3>1. Held(w, j)
      BY <2>1 DEF Held
    <3> QED
      BY <2>1, <3>1 DEF ManualsIndexed
  <2>6. ASSUME NEW v \in Versions, doc'[v].status = "INDEXED" PROVE <<v, doc'[v].gen>> \in manualVec'
    <3>1. CASE doc'[v] = doc[v]
      BY <2>1, <2>6, <3>1 DEF ManualsIndexed
    <3>2. CASE \E j \in Current(w) \cap ManualJobs : j.id = v
      BY <2>1, <2>4, <2>5, <3>2
    <3> QED
      BY <2>2, <3>1, <3>2
  <2>7. \A v \in Versions : syncing'[v] = "INDEXED" => <<v, doc'[v].gen>> \in manualVec'
    BY <2>1, <2>4 DEF ManualsIndexed
  <2>8. ASSUME NEW u \in Workers, NEW j \in ManualJobs, Held(u, j)'
        PROVE  /\ doc'[j.id].gen = j.gen /\ doc'[j.id].status # "none"
               /\ work'[u].stage = "publish" => <<j.id, j.gen>> \in manualVec'
    <3>1. Held(u, j) /\ work'[u].stage = work[u].stage
      BY <1>0, <2>3, <2>8, HeldReleased
    <3> QED
      BY <1>m, <2>1, <2>4, <3>1 DEF ManualsIndexed
  <2> QED
    BY <2>6, <2>7, <2>8 DEF ManualsIndexed
<1> QED
  BY <1>1, <1>2, <1>3, <1>4

LEMMA RestManuals ==
    ASSUME ManualsIndexed, UNCHANGED <<doc, syncing, work, manualVec>>
    PROVE  ManualsIndexed'
BY HeldUnchanged DEF ManualsIndexed

LEMMA IngestManuals ==
    ASSUME IndexShape, ManualsIndexed, NEW v \in Versions, NEW approved \in BOOLEAN,
           NEW effective \in BOOLEAN, Ingest(v, approved, effective)
    PROVE  ManualsIndexed'
<1>0. IndexTypeOK /\ RowsHaveGen
  BY DEF IndexShape
<1>1. doc[v].status = "none" /\ UNCHANGED <<manualVec, work>>
  BY DEF Ingest
<1>2. NewRow(v)
  BY <1>0, CreateEffect DEF Ingest
<1>3. /\ doc'[v].status # "INDEXED"
      /\ \A u \in Versions : u # v => doc'[u].gen = doc[u].gen /\ doc'[u].status = doc[u].status
  BY <1>2 DEF NewRow
<1>4. syncing'[v] # "INDEXED" /\ \A u \in Versions : u # v => syncing'[u] = syncing[u]
  <2>1. syncing[v] = "none"
    BY <1>0, <1>1 DEF RowsHaveGen
  <2> QED
    BY <1>0, <2>1 DEF Ingest, IndexTypeOK
<1>5. \A u \in Versions : doc'[u].status = "INDEXED" => <<u, doc'[u].gen>> \in manualVec'
  BY <1>1, <1>3 DEF ManualsIndexed
<1>6. \A u \in Versions : syncing'[u] = "INDEXED" => <<u, doc'[u].gen>> \in manualVec'
  BY <1>1, <1>3, <1>4 DEF ManualsIndexed
<1>7. ASSUME NEW w \in Workers, NEW j \in ManualJobs, Held(w, j)'
      PROVE  /\ doc'[j.id].gen = j.gen /\ doc'[j.id].status # "none"
             /\ work'[w].stage = "publish" => <<j.id, j.gen>> \in manualVec'
  <2>1. Held(w, j) /\ work'[w].stage = work[w].stage
    BY <1>1, <1>7, HeldUnchanged
  <2>2. j.id \in Versions
    BY DEF ManualJobs
  <2> QED
    BY <1>1, <1>3, <2>1, <2>2 DEF ManualsIndexed
<1> QED
  BY <1>5, <1>6, <1>7 DEF ManualsIndexed

LEMMA SyncManuals ==
    ASSUME IndexShape, ManualsIndexed, NEW v \in Versions,
           SyncUpsert(v) \/ SyncPublish(v) \/ SyncCrash(v)
    PROVE  ManualsIndexed'
<1>0. IndexTypeOK /\ RowsHaveGen /\ doc \in [Versions -> Doc]
  BY DEF IndexShape, IndexTypeOK
<1>m. \A j \in ManualJobs : j.id \in Versions
  BY DEF ManualJobs
<1>1. manualVec \subseteq manualVec' /\ work' = work
  BY DEF SyncUpsert, SyncPublish, SyncCrash
<1>2. \A u \in Versions : /\ doc'[u].gen = doc[u].gen
                          /\ \/ doc'[u].status = doc[u].status
                             \/ u = v /\ doc'[u].status = syncing[v] /\ syncing[v] \in Statuses
  <2>1. CASE SyncPublish(v)
    <3>1. syncing[v] \in Statuses /\ doc' = [doc EXCEPT ![v].status = syncing[v]]
      BY <2>1 DEF SyncPublish
    <3>2. DocsMarked({syncing[v]})
      BY <1>0, <3>1, MarkDoc
    <3>3. \A u \in Versions : u # v => doc'[u] = doc[u]
      BY <1>0, <3>1
    <3> QED
      BY <1>0, <3>1, <3>2, <3>3, DocMarkedFields
  <2>2. CASE ~SyncPublish(v)
    <3>1. doc' = doc
      BY <2>2 DEF SyncUpsert, SyncCrash
    <3> QED
      BY <3>1
  <2> QED
    BY <2>1, <2>2
<1>3. \A u \in Versions : syncing'[u] = "INDEXED" =>
         syncing[u] = "INDEXED" \/ <<u, doc[u].gen>> \in manualVec'
  BY <1>0 DEF SyncUpsert, SyncPublish, SyncCrash, IndexTypeOK
<1>4. \A u \in Versions : doc'[u].status = "INDEXED" => <<u, doc'[u].gen>> \in manualVec'
  BY <1>1, <1>2 DEF ManualsIndexed
<1>5. \A u \in Versions : syncing'[u] = "INDEXED" => <<u, doc'[u].gen>> \in manualVec'
  BY <1>1, <1>2, <1>3 DEF ManualsIndexed
<1>6. ASSUME NEW w \in Workers, NEW j \in ManualJobs, Held(w, j)'
      PROVE  /\ doc'[j.id].gen = j.gen /\ doc'[j.id].status # "none"
             /\ work'[w].stage = "publish" => <<j.id, j.gen>> \in manualVec'
  <2>1. Held(w, j) /\ work'[w].stage = work[w].stage
    BY <1>1, <1>6, HeldUnchanged
  <2> QED
    BY <1>m, <1>1, <1>2, <2>1 DEF ManualsIndexed, Statuses
<1> QED
  BY <1>4, <1>5, <1>6 DEF ManualsIndexed

\* A reload finds nobody holding anything.
LEMMA ReloadManuals ==
    ASSUME IndexShape, ManualsIndexed,
           ReloadTruncate \/ \E current \in BOOLEAN : ReloadRows(current)
    PROVE  ManualsIndexed'
<1>0. IndexTypeOK
  BY DEF IndexShape
<1>1. Quiet /\ UNCHANGED <<manualVec, work, syncing>>
  BY DEF ReloadTruncate, ReloadRows
<1>2. /\ \A w \in Workers : work'[w].stage = "idle"
      /\ \A v \in Versions : syncing'[v] = "none"
  BY <1>1 DEF Quiet, Idle
<1>3. \A v \in Versions : doc'[v].status = "INDEXED" =>
         doc[v].status = "INDEXED" /\ doc'[v].gen = doc[v].gen
  <2>1. CASE ReloadTruncate
    BY <1>0, <2>1, TruncateEffect
  <2>2. CASE \E current \in BOOLEAN : ReloadRows(current)
    BY <1>0, <2>2, LoadedEffect DEF NewRow
  <2> QED
    BY <2>1, <2>2
<1> QED
  BY <1>1, <1>2, <1>3 DEF ManualsIndexed, Held

LEMMA ManualsStep ==
    ASSUME IndexShape, ManualsIndexed, IndexNext
    PROVE  ManualsIndexed'
<1>1. CASE \E v \in Versions, approved, effective \in BOOLEAN : Ingest(v, approved, effective)
  BY <1>1, IngestManuals
<1>2. CASE \E v \in Versions : SyncUpsert(v) \/ SyncPublish(v) \/ SyncCrash(v)
  BY <1>2, SyncManuals
<1>3. CASE \E t \in Tickets : QueueTicket(t) \/ ReviewTicket(t)
  <2>1. UNCHANGED <<doc, syncing, work, manualVec>>
    BY <1>3 DEF QueueTicket, ReviewTicket
  <2> QED
    BY <2>1, RestManuals
<1>4. CASE ScriptRead \/ ScriptUpsert \/ ScriptPublish \/ ReloadJobs
  <2>1. UNCHANGED <<doc, syncing, work, manualVec>>
    BY <1>4 DEF ScriptRead, ScriptUpsert, ScriptPublish, ReloadJobs
  <2> QED
    BY <2>1, RestManuals
<1>5. CASE ReloadTruncate \/ \E current \in BOOLEAN : ReloadRows(current)
  BY <1>5, ReloadManuals
<1>6. CASE \E w \in Workers : WorkerStep(w) \/ Crash(w) \/ Takes(w)
  BY <1>6, WorkerEffect, WorkerManuals
<1> QED
  BY <1>1, <1>2, <1>3, <1>4, <1>5, <1>6 DEF IndexNext

LEMMA WorkerTickets ==
    ASSUME IndexShape, TicketsIndexed, NEW w \in Workers,
           Released(w) \/ HasRead(w) \/ HasUpserted(w) \/ Publish(w), script' = script
    PROVE  TicketsIndexed'
<1>0. /\ IndexTypeOK /\ EventsPast /\ RowsHaveGen /\ work \in [Workers -> Works(Past)]
      /\ script.rows \subseteq Tickets
  BY DEF IndexShape, EventsPast, IndexTypeOK
<1>m. \A j \in TicketJobs : j.id \in Tickets /\ j.gen # 0
  BY KnowledgeAssumption DEF TicketJobs, Gens
<1>1. CASE Released(w)
  <2>1. PICK x \in Works(Past) : x.stage \notin {"upsert", "publish"} /\ work' = [work EXCEPT ![w] = x]
    BY <1>1 DEF Released
  <2>2. ticketVec' = ticketVec /\ TicketsMarked({"FAILED"})
    BY <1>1 DEF Released
  <2>3. \A t \in Tickets : ticket'[t].status \in {"FAILED", ticket[t].status}
    BY <1>0, <2>2, TicketMarkedFields
  <2>4. \A t \in Tickets : ticket'[t].status = "INDEXED" => ticketVec'[t] # 0
    BY <2>2, <2>3 DEF TicketsIndexed
  <2>5. ASSUME NEW u \in Workers, NEW j \in TicketJobs, Held(u, j)', work'[u].stage = "publish"
        PROVE  ticketVec'[j.id] # 0
    <3>1. Held(u, j) /\ work'[u].stage = work[u].stage
      BY <1>0, <2>1, <2>5, HeldReleased
    <3> QED
      BY <2>2, <2>5, <3>1 DEF TicketsIndexed
  <2> QED
    BY <2>2, <2>4, <2>5 DEF TicketsIndexed
<1>2. CASE HasRead(w)
  <2>1. work' = [work EXCEPT ![w].stage = "upsert"] /\ UNCHANGED <<ticket, ticketVec>>
    BY <1>2 DEF HasRead
  <2>2. ASSUME NEW u \in Workers, NEW j \in TicketJobs, Held(u, j)', work'[u].stage = "publish"
        PROVE  ticketVec'[j.id] # 0
    <3>1. Held(u, j) /\ work'[u].stage = work[u].stage
      BY <1>0, <2>1, <2>2, HeldAdvanced
    <3> QED
      BY <2>1, <2>2, <3>1 DEF TicketsIndexed
  <2> QED
    BY <2>1, <2>2 DEF TicketsIndexed
<1>3. CASE HasUpserted(w)
  <2>1. /\ work' = [work EXCEPT ![w].stage = "publish"] /\ work[w].stage = "upsert"
        /\ ticketVec' = TicketVectors(w) /\ ticket' = ticket
    BY <1>3 DEF HasUpserted
  <2>2. \A t \in Tickets :
           \/ /\ ticketVec'[t] = ticketVec[t]
              /\ \A j \in Current(w) \cap TicketJobs : j.id # t
           \/ ticketVec'[t] # 0
    BY <1>0, <1>m, <2>1, UpsertVectors
  <2>3. ASSUME NEW u \in Workers, NEW j \in TicketJobs, Held(u, j)', work'[u].stage = "publish"
        PROVE  ticketVec'[j.id] # 0
    <3>1. \/ j \in Current(w)
          \/ Held(u, j) /\ work'[u].stage = work[u].stage
      BY <1>0, <2>1, <2>3, HeldAdvanced
    <3> QED
      BY <1>m, <2>2, <2>3, <3>1 DEF TicketsIndexed
  <2>4. \A t \in Tickets : ticket'[t].status = "INDEXED" => ticketVec'[t] # 0
    BY <2>1, <2>2 DEF TicketsIndexed
  <2>5. script'.stage = "publish" => \A t \in script'.rows : ticketVec'[t] # 0
    BY <1>0, <2>2 DEF TicketsIndexed
  <2> QED
    BY <2>3, <2>4, <2>5 DEF TicketsIndexed
<1>4. CASE Publish(w)
  <2>1. work[w].stage = "publish" /\ ticketVec' = ticketVec
    BY <1>4 DEF Publish
  <2>2. \A t \in Tickets : ticket'[t] = ticket[t] \/ \E j \in Current(w) \cap TicketJobs : j.id = t
    BY <1>0, <1>4, PublishEffect
  <2>3. PICK x \in Works(Past) : work' = [work EXCEPT ![w] = x] /\ x.stage \notin {"upsert", "publish"}
    BY <1>0, <1>4, PublishEffect
  <2>4. \A j \in Current(w) \cap TicketJobs : ticketVec[j.id] # 0
    BY <2>1 DEF TicketsIndexed, Held
  <2>5. \A t \in Tickets : ticket'[t].status = "INDEXED" => ticketVec'[t] # 0
    BY <2>1, <2>2, <2>4 DEF TicketsIndexed
  <2>6. ASSUME NEW u \in Workers, NEW j \in TicketJobs, Held(u, j)', work'[u].stage = "publish"
        PROVE  ticketVec'[j.id] # 0
    <3>1. Held(u, j) /\ work'[u].stage = work[u].stage
      BY <1>0, <2>3, <2>6, HeldReleased
    <3> QED
      BY <2>1, <2>6, <3>1 DEF TicketsIndexed
  <2> QED
    BY <2>1, <2>5, <2>6 DEF TicketsIndexed
<1> QED
  BY <1>1, <1>2, <1>3, <1>4

\* Steps of the tickets and of the rows: no vector is taken away, and what is called
\* INDEXED was so, or was upserted by the script.
LEMMA RestTickets ==
    ASSUME IndexShape, TicketsIndexed, work' = work,
           \A t \in Tickets : ticketVec'[t] = ticketVec[t] \/ ticketVec'[t] # 0,
           \A t \in Tickets : \/ ticket'[t].status # "INDEXED" \/ ticket'[t].status = ticket[t].status
                              \/ script.stage = "publish" /\ t \in script.rows,
           script'.stage = "publish" =>
               /\ script'.rows \subseteq Tickets
               /\ script = script' \/ \A t \in script'.rows : ticketVec'[t] # 0
    PROVE  TicketsIndexed'
<1>m. \A j \in TicketJobs : j.id \in Tickets
  BY DEF TicketJobs
<1>1. \A t \in Tickets : ticket'[t].status = "INDEXED" => ticketVec'[t] # 0
  BY DEF TicketsIndexed
<1>2. script'.stage = "publish" => \A t \in script'.rows : ticketVec'[t] # 0
  BY DEF TicketsIndexed
<1>3. ASSUME NEW u \in Workers, NEW j \in TicketJobs, Held(u, j)', work'[u].stage = "publish"
      PROVE  ticketVec'[j.id] # 0
  <2>1. Held(u, j) /\ work'[u].stage = work[u].stage
    BY <1>3, HeldUnchanged
  <2> QED
    BY <1>m, <1>3, <2>1 DEF TicketsIndexed
<1> QED
  BY <1>1, <1>2, <1>3 DEF TicketsIndexed

LEMMA TicketsStep ==
    ASSUME IndexShape, TicketsIndexed, IndexNext
    PROVE  TicketsIndexed'
<1>0. /\ IndexTypeOK /\ script.rows \subseteq Tickets /\ ScriptGen # 0
      /\ script \in [stage : {"idle", "upsert", "publish"}, rows : SUBSET Tickets]
      /\ ticket \in [Tickets -> Ticket]
  BY KnowledgeAssumption DEF IndexShape, IndexTypeOK, ScriptGen
<1>1. CASE \E v \in Versions, approved, effective \in BOOLEAN : Ingest(v, approved, effective)
  <2>1. UNCHANGED <<work, ticketVec, ticket, script>>
    BY <1>1 DEF Ingest
  <2> QED
    BY <1>0, <2>1, RestTickets
<1>2. CASE \E v \in Versions : SyncUpsert(v) \/ SyncPublish(v) \/ SyncCrash(v)
  <2>1. UNCHANGED <<work, ticketVec, ticket, script>>
    BY <1>2 DEF SyncUpsert, SyncPublish, SyncCrash
  <2> QED
    BY <1>0, <2>1, RestTickets
<1>3. CASE \E t \in Tickets : QueueTicket(t)
  <2>1. PICK t \in Tickets : QueueTicket(t)
    BY <1>3
  <2>2. UNCHANGED <<work, ticketVec, script>>
    BY <2>1 DEF QueueTicket
  <2>3. \A s \in Tickets : ticket'[s].status # "INDEXED" \/ ticket'[s].status = ticket[s].status
    BY <1>0, <2>1, QueueEffect
  <2> QED
    BY <1>0, <2>2, <2>3, RestTickets
<1>4. CASE \E t \in Tickets : ReviewTicket(t)
  <2>1. PICK t \in Tickets : ReviewTicket(t)
    BY <1>4
  <2>2. UNCHANGED <<work, ticketVec, script>>
    BY <2>1 DEF ReviewTicket
  <2>3. \A s \in Tickets : ticket'[s].status = ticket[s].status
    BY <1>0, <2>1, ReviewEffect
  <2> QED
    BY <1>0, <2>2, <2>3, RestTickets
<1>5. CASE ScriptRead \/ ScriptUpsert \/ ScriptPublish
  <2>1. work' = work
    BY <1>5 DEF ScriptRead, ScriptUpsert, ScriptPublish
  <2>2. \A t \in Tickets : ticketVec'[t] = ticketVec[t] \/ ticketVec'[t] # 0
    BY <1>0, <1>5, ScriptEffect
  <2>3. \A t \in Tickets : \/ ticket'[t].status = ticket[t].status
                           \/ script.stage = "publish" /\ t \in script.rows
    <3>1. CASE ScriptRead \/ ScriptUpsert
      <4>1. ticket' = ticket
        BY <3>1 DEF ScriptRead, ScriptUpsert
      <4> QED
        BY <4>1
    <3>2. CASE ScriptPublish
      <4>1. /\ script.stage = "publish"
            /\ \A t \in Tickets : t \notin script.rows => ticket'[t] = ticket[t]
        BY <3>2 DEF ScriptPublish
      <4> QED
        BY <4>1
    <3> QED
      BY <1>5, <3>1, <3>2
  <2>4. ASSUME script'.stage = "publish"
        PROVE  script'.rows \subseteq Tickets /\ \A t \in script'.rows : ticketVec'[t] # 0
    <3>1. ScriptUpsert
      BY <1>5, <2>4 DEF ScriptRead, ScriptPublish, NoScript
    <3>2. /\ ticketVec' = [t \in Tickets |-> IF t \in script.rows THEN ScriptGen ELSE ticketVec[t]]
          /\ script' = [script EXCEPT !.stage = "publish"]
      BY <2>4, <3>1 DEF ScriptUpsert, NoScript
    <3>3. script'.rows = script.rows
      BY <1>0, <3>2
    <3> QED
      BY <1>0, <3>2, <3>3
  <2> QED
    BY <2>1, <2>2, <2>3, <2>4, RestTickets
<1>6. CASE ReloadJobs
  <2>1. UNCHANGED <<work, ticketVec, ticket, script>>
    BY <1>6 DEF ReloadJobs
  <2> QED
    BY <1>0, <2>1, RestTickets
<1>7. CASE ReloadTruncate
  <2>1. UNCHANGED <<work, ticketVec, script>>
    BY <1>7 DEF ReloadTruncate
  <2>2. \A t \in Tickets : ticket'[t].status # "INDEXED"
    BY <1>0, <1>7, TruncateEffect
  <2> QED
    BY <1>0, <2>1, <2>2, RestTickets
<1>8. CASE \E current \in BOOLEAN : ReloadRows(current)
  <2>1. UNCHANGED <<work, ticketVec, script>>
    BY <1>8 DEF ReloadRows
  <2>2. \A t \in Tickets : ticket'[t].status # "INDEXED" \/ ticket'[t].status = ticket[t].status
    BY <1>0, <1>8, LoadedEffect
  <2> QED
    BY <1>0, <2>1, <2>2, RestTickets
<1>9. CASE \E w \in Workers : WorkerStep(w) \/ Crash(w) \/ Takes(w)
  BY <1>9, WorkerEffect, WorkerTickets
<1> QED
  BY <1>1, <1>2, <1>3, <1>4, <1>5, <1>6, <1>7, <1>8, <1>9 DEF IndexNext

-----------------------------------------------------------------------------
(* Searches *)

\* What a search has read.
LEMMA RowsRead ==
    ASSUME IndexShape, NEW mode \in Modes
    PROVE  /\ ManualCandidates(mode) \subseteq Rows /\ TicketCandidates \subseteq Rows
           /\ \A r \in ManualCandidates(mode) :
                 r.source = "manual" /\ r.id \in Versions /\ r.gen = doc[r.id].gen
           /\ \A r \in TicketCandidates : r.source = "ticket" /\ r.id \in Tickets
<1>1. ASSUME NEW v \in chunkOn
      PROVE  /\ ManualRow(v) \in Rows /\ v \in Versions
             /\ ManualRow(v).source = "manual" /\ ManualRow(v).id = v /\ ManualRow(v).gen = doc[v].gen
  <2>1. v \in Versions /\ doc[v].gen # 0 /\ doc[v].gen \in 0..MaxGen
    BY DEF IndexShape, IndexTypeOK, RowsHaveGen, Doc
  <2>2. doc[v].gen \in Gens
    BY <2>1, KnowledgeAssumption DEF Gens
  <2> QED
    BY <2>1, <2>2 DEF ManualRow, Rows
<1>2. \A t \in Tickets : /\ TicketRow(t) \in Rows
                         /\ TicketRow(t).source = "ticket" /\ TicketRow(t).id = t
  BY DEF TicketRow, Rows
<1>3. \A r \in ManualCandidates(mode) : \E v \in chunkOn : r = ManualRow(v)
  BY DEF ManualCandidates
<1>4. \A r \in TicketCandidates : \E t \in Tickets : r = TicketRow(t)
  BY DEF TicketCandidates
<1> QED
  BY <1>1, <1>2, <1>3, <1>4

\* The answers of a search whose vector channel found these rows.
Answers(indexed, vector) ==
    [stage : {"answered"}, partial : BOOLEAN, missed : {indexed \ vector},
     full : {Cardinality(vector) = TopN}]

\* A search ends with an error, or with an answer that tells of what has degraded and
\* misses what was not found.
LEMMA EndingFields ==
    ASSUME NEW mode, NEW rows, NEW indexed, NEW vector, NEW degraded,
           NEW e \in Endings(mode, rows, indexed, vector, degraded)
    PROVE  /\ e = Raised \/ e \in Answers(indexed, vector)
           /\ e.stage \in {"raised", "answered"}
           /\ e.stage = "answered" /\ ~e.partial =>
                 degraded = {} /\ e.missed = indexed \ vector /\ e.full = (Cardinality(vector) = TopN)
<1>1. e = Raised \/ e \in Answers(indexed, vector)
  BY DEF Endings, Answers
<1>2. Raised.stage = "raised"
  BY DEF Raised
<1>3. CASE e = Raised
  BY <1>2, <1>3
<1>4. CASE e \in Answers(indexed, vector)
  <2>1. /\ e.stage = "answered" /\ e.missed = indexed \ vector /\ e # Raised
        /\ e.full = (Cardinality(vector) = TopN)
    BY <1>2, <1>4 DEF Answers
  <2>2. PICK rewriting, rerank : e.partial = (degraded \cup rewriting \cup rerank # {})
    BY <2>1 DEF Endings
  <2>3. ~e.partial => degraded = {}
    BY <2>2
  <2> QED
    BY <1>4, <2>1, <2>3
<1> QED
  BY <1>1, <1>3, <1>4

LEMMA SearchTyped ==
    ASSUME IndexShape, search \in Search,
           VectorSearch \/ \E source \in Sources, mode \in Modes : StartSearch(source, mode)
    PROVE  search' \in Search
<1>1. Raised \in Search
  BY DEF Raised, Search
<1>2. ASSUME NEW mode, NEW rows, NEW indexed \in SUBSET Rows, NEW vector, NEW degraded
      PROVE  Endings(mode, rows, indexed, vector, degraded) \subseteq Search
  <2>1. Answers(indexed, vector) \subseteq Search
    <3>1. indexed \ vector \in SUBSET Rows /\ (Cardinality(vector) = TopN) \in BOOLEAN
      OBVIOUS
    <3>2. Answers(indexed, vector)
          \subseteq [stage : {"answered"}, partial : BOOLEAN, missed : SUBSET Rows, full : BOOLEAN]
      BY <3>1, Zenon DEF Answers
    <3> QED
      BY <3>2 DEF Search
  <2> QED
    BY <1>1, <2>1 DEF Endings, Answers
<1>3. CASE VectorSearch
  <2>1. search.stage = "vector"
    BY <1>3 DEF VectorSearch
  <2>2. search.indexed \in SUBSET Rows
    BY <2>1 DEF Search
  <2>3. \/ search' = Raised
        \/ \E vector, degraded :
              search' \in Endings(search.mode, search.rows, search.indexed, vector, degraded)
    BY <1>3 DEF VectorSearch
  <2> QED
    BY <1>1, <1>2, <2>2, <2>3
<1>4. ASSUME NEW source \in Sources, NEW mode \in Modes, StartSearch(source, mode)
      PROVE  search' \in Search
  <2> DEFINE rows == IF source = "manual" THEN ManualCandidates(mode) ELSE TicketCandidates
  <2>1. rows \in SUBSET Rows
    BY RowsRead
  <2>2. search' \in IF mode = "keyword_only"
                    THEN Endings(mode, rows, {}, {}, {})
                    ELSE {[stage |-> "vector", mode |-> mode, rows |-> rows, indexed |-> Indexed(rows)]}
    BY <1>4 DEF StartSearch
  <2> HIDE DEF rows
  <2>3. Indexed(rows) \in SUBSET Rows
    BY <2>1 DEF Indexed
  <2>4. [stage |-> "vector", mode |-> mode, rows |-> rows, indexed |-> Indexed(rows)] \in Search
    BY <2>1, <2>3 DEF Search
  <2>5. {} \in SUBSET Rows
    OBVIOUS
  <2> QED
    BY <1>2, <2>2, <2>4, <2>5
<1> QED
  BY <1>3, <1>4

\* No step takes a vector away.
LEMMA VectorsStay ==
    ASSUME IndexShape, IndexNext
    PROVE  /\ manualVec \subseteq manualVec'
           /\ \A t \in Tickets : ticketVec[t] # 0 => ticketVec'[t] # 0
<1>0. IndexTypeOK /\ EventsPast /\ ScriptGen # 0
  BY KnowledgeAssumption DEF IndexShape, ScriptGen
<1>1. CASE \E w \in Workers : WorkerStep(w) \/ Crash(w) \/ Takes(w)
  <2>1. PICK w \in Workers : WorkerStep(w) \/ Crash(w) \/ Takes(w)
    BY <1>1
  <2>2. CASE HasUpserted(w)
    <3>1. work[w].stage = "upsert" /\ manualVec' = ManualVectors(w) /\ ticketVec' = TicketVectors(w)
      BY <2>2 DEF HasUpserted
    <3>2. \A j \in TicketJobs : j.gen # 0
      BY KnowledgeAssumption DEF TicketJobs, Gens
    <3> QED
      BY <1>0, <3>1, <3>2, UpsertVectors
  <2>3. CASE Released(w) \/ HasRead(w) \/ Publish(w)
    <3>1. UNCHANGED <<manualVec, ticketVec>>
      BY <2>3 DEF Released, HasRead, Publish
    <3> QED
      BY <3>1
  <2> QED
    BY <2>1, <2>2, <2>3, WorkerEffect
<1>2. CASE ScriptRead \/ ScriptUpsert \/ ScriptPublish
  BY <1>0, <1>2, ScriptEffect
<1>3. CASE \E v \in Versions : SyncUpsert(v) \/ SyncPublish(v) \/ SyncCrash(v)
  <2>1. manualVec \subseteq manualVec' /\ ticketVec' = ticketVec
    BY <1>3 DEF SyncUpsert, SyncPublish, SyncCrash
  <2> QED
    BY <2>1
<1>4. CASE \/ \E v \in Versions, approved, effective \in BOOLEAN : Ingest(v, approved, effective)
           \/ \E t \in Tickets : QueueTicket(t) \/ ReviewTicket(t)
           \/ ReloadTruncate \/ ReloadJobs \/ \E current \in BOOLEAN : ReloadRows(current)
  <2>1. UNCHANGED <<manualVec, ticketVec>>
    BY <1>4 DEF Ingest, QueueTicket, ReviewTicket, ReloadTruncate, ReloadJobs, ReloadRows
  <2> QED
    BY <2>1
<1> QED
  BY <1>1, <1>2, <1>3, <1>4 DEF IndexNext

\* What the index and the searches keep, step by step.
VectorInv == IndexShape /\ search \in Search /\ ManualsIndexed /\ TicketsIndexed

LEMMA ShapeUnchanged ==
    ASSUME UNCHANGED index
    PROVE  /\ IndexShape => IndexShape'
           /\ ManualsIndexed => ManualsIndexed'
           /\ TicketsIndexed => TicketsIndexed'
           /\ LatestInv => LatestInv'
           /\ OneChunked => OneChunked'
<1>1. UNCHANGED <<queued, doc, chunkOn, manualVec, ticket, ticketVec, job, queue, work,
                  syncing, script, reload, raced, flipped, requests, faults>>
  BY DEF index
<1>2. Past' = Past
  BY <1>1 DEF Past, RowGen
<1>3. IndexTypeOK => IndexTypeOK'
  BY <1>1 DEF IndexTypeOK
<1>4. EventsPast => EventsPast'
  BY <1>1, <1>2 DEF EventsPast
<1>5. RowsHaveGen => RowsHaveGen'
  BY <1>1 DEF RowsHaveGen
<1>6. \A w, j : Held(w, j)' <=> Held(w, j)
  BY <1>1, HeldUnchanged
<1>7. (ManualsIndexed => ManualsIndexed') /\ (TicketsIndexed => TicketsIndexed')
  BY <1>1, <1>6 DEF ManualsIndexed, TicketsIndexed
<1>8. (LatestInv => LatestInv') /\ (OneChunked => OneChunked')
  BY <1>1, <1>6 DEF LatestInv, OneChunked
<1> QED
  BY <1>3, <1>4, <1>5, <1>7, <1>8 DEF IndexShape

LEMMA VectorInvInit == Init => VectorInv
<1> SUFFICES ASSUME Init PROVE VectorInv
  OBVIOUS
<1>1. IndexShape
  BY InitShape DEF Init
<1>2. search \in Search
  BY DEF Init, NoSearch, Search
<1>3. /\ \A v \in Versions : doc[v].status = "none" /\ syncing[v] = "none"
      /\ \A w \in Workers : work[w].stage = "idle"
      /\ script.stage = "idle"
  BY DEF Init, IndexInit, NoDoc, Idle, NoScript
<1>4. \A t \in Tickets : ticket[t].status = "PENDING"
  BY DEF Init, IndexInit
<1> QED
  BY <1>1, <1>2, <1>3, <1>4 DEF VectorInv, ManualsIndexed, TicketsIndexed, Held

LEMMA VectorInvStep == VectorInv /\ [Next]_vars => VectorInv'
<1> SUFFICES ASSUME VectorInv, [Next]_vars PROVE VectorInv'
  OBVIOUS
<1>0. IndexShape /\ search \in Search /\ ManualsIndexed /\ TicketsIndexed
  BY DEF VectorInv
<1>1. CASE IndexNext /\ UNCHANGED search
  BY <1>0, <1>1, IndexStepShape, ManualsStep, TicketsStep DEF VectorInv
<1>2. CASE VectorSearch \/ \E source \in Sources, mode \in Modes : StartSearch(source, mode)
  <2>1. UNCHANGED index
    BY <1>2 DEF VectorSearch, StartSearch
  <2> QED
    BY <1>0, <1>2, <2>1, ShapeUnchanged, SearchTyped DEF VectorInv
<1>3. CASE UNCHANGED vars
  <2>1. UNCHANGED index /\ search' = search
    BY <1>3 DEF vars
  <2> QED
    BY <1>0, <2>1, ShapeUnchanged DEF VectorInv
<1> QED
  BY <1>1, <1>2, <1>3 DEF Next

LEMMA VectorsAreKept == Spec => []VectorInv
BY VectorInvInit, VectorInvStep, PTL DEF Spec

\* INDEXED is never ahead of the vectors, however many workers upsert and publish, die
\* or are given a message again: what IndexHandlerRuntime, set_index_status and the
\* ticket script publish has been upserted (and every variable has its type).
THEOREM IndexedVectors == Spec => []IndexedHasVector
<1>1. VectorInv => IndexedHasVector
  BY DEF VectorInv, IndexedHasVector, TypeOK, IndexShape, ManualsIndexed, TicketsIndexed
<1> QED
  BY <1>1, VectorsAreKept, PTL

-----------------------------------------------------------------------------
(* What an answer quotes, and what it misses *)

LEMMA OneChunkedStep ==
    ASSUME IndexShape, OneChunked, IndexNext
    PROVE  OneChunked'
<1>0. IndexTypeOK
  BY DEF IndexShape
<1>1. ASSUME \/ \E v : chunkOn' = {v}
             \/ chunkOn' = {} \/ chunkOn' = chunkOn
      PROVE  OneChunked'
  BY <1>1 DEF OneChunked
<1>2. CASE \E v \in Versions, approved, effective \in BOOLEAN : Ingest(v, approved, effective)
  <2>1. PICK v \in Versions, approved, effective \in BOOLEAN : Ingest(v, approved, effective)
    BY <1>2
  <2>2. chunkOn' \in {{v}, chunkOn}
    BY <1>0, <2>1, CreateEffect DEF Ingest
  <2> QED
    BY <1>1, <2>2
<1>3. CASE \E v \in Versions : SyncUpsert(v) \/ SyncPublish(v) \/ SyncCrash(v)
  BY <1>1, <1>3 DEF SyncUpsert, SyncPublish, SyncCrash
<1>4. CASE \E t \in Tickets : QueueTicket(t) \/ ReviewTicket(t)
  BY <1>1, <1>4 DEF QueueTicket, ReviewTicket
<1>5. CASE ScriptRead \/ ScriptUpsert \/ ScriptPublish \/ ReloadTruncate \/ ReloadJobs
  BY <1>1, <1>5 DEF ScriptRead, ScriptUpsert, ScriptPublish, ReloadTruncate, ReloadJobs
<1>6. CASE \E current \in BOOLEAN : ReloadRows(current)
  <2>1. chunkOn' \in {{DatasetVersion}, {}}
    BY <1>0, <1>6, LoadedEffect
  <2> QED
    BY <1>1, <2>1
<1>7. CASE \E w \in Workers : WorkerStep(w) \/ Crash(w) \/ Takes(w)
  BY <1>1, <1>7, WorkerEffect
<1> QED
  BY <1>2, <1>3, <1>4, <1>5, <1>6, <1>7 DEF IndexNext

\* Whoever writes the rows of a version, the chunks of one version at most are effective:
\* create_pending and the reload take the others out of effect in the same transaction.
\* So an answer quotes one version of the document.
THEOREM OneVersionIsQuoted == Spec => []OneVersionQuoted
<1>1. Init => OneChunked
  BY DEF Init, IndexInit, OneChunked
<1>2. VectorInv /\ OneChunked /\ [Next]_vars => OneChunked'
  <2> SUFFICES ASSUME VectorInv, OneChunked, [Next]_vars PROVE OneChunked'
    OBVIOUS
  <2>1. CASE IndexNext
    BY <2>1, OneChunkedStep DEF VectorInv
  <2>2. CASE ~IndexNext
    <3>1. chunkOn' = chunkOn
      BY <2>2 DEF Next, vars, VectorSearch, StartSearch, index
    <3> QED
      BY <3>1 DEF OneChunked
  <2> QED
    BY <2>1, <2>2
<1>3. OneChunked => OneVersionQuoted
  <2> SUFFICES ASSUME OneChunked, NEW mode \in Modes PROVE Cardinality(ManualCandidates(mode)) <= 1
    BY DEF OneVersionQuoted
  <2>1. ManualCandidates(mode) = {} \/ \E r : ManualCandidates(mode) = {r}
    <3>1. CASE ManualCandidates(mode) = {}
      BY <3>1
    <3>2. CASE ManualCandidates(mode) # {}
      <4>1. PICK r \in ManualCandidates(mode) : TRUE
        BY <3>2
      <4>2. \A s \in ManualCandidates(mode) : \E v \in chunkOn : s = ManualRow(v)
        BY DEF ManualCandidates
      <4>3. \A s \in ManualCandidates(mode) : s = r
        BY <4>1, <4>2 DEF OneChunked
      <4> QED
        BY <4>1, <4>3
    <3> QED
      BY <3>1, <3>2
  <2>2. Cardinality(ManualCandidates(mode)) \in {0, 1}
    BY <2>1, FS_EmptySet, FS_Singleton, Zenon
  <2> QED
    BY <2>2
<1> QED
  BY <1>1, <1>2, <1>3, VectorsAreKept, PTL DEF Spec

LEMMA SearchFactsStep ==
    ASSUME VectorInv, SearchFacts, Next
    PROVE  SearchFacts'
<1>0. IndexShape /\ search \in Search /\ ManualsIndexed /\ TicketsIndexed
  BY DEF VectorInv
<1>1. CASE IndexNext /\ UNCHANGED search
  <2>1. /\ manualVec \subseteq manualVec' /\ search' = search
        /\ \A t \in Tickets : ticketVec[t] # 0 => ticketVec'[t] # 0
    BY <1>0, <1>1, VectorsStay
  <2>2. CASE search.stage = "vector"
    <3>1. \A r \in search.rows : r.source = "manual" \/ r.id \in Tickets
      BY <1>0, <2>2 DEF Search, Rows
    <3>2. Known \subseteq Known'
      BY <2>1, <3>1 DEF Known
    <3> QED
      BY <2>1, <2>2, <3>2 DEF SearchFacts, CompleteIsSearched
  <2>3. CASE search.stage # "vector"
    BY <2>1, <2>3 DEF SearchFacts, CompleteIsSearched
  <2> QED
    BY <2>2, <2>3
<1>2. CASE VectorSearch
  <2>1. search.indexed \subseteq Known
    BY <1>2 DEF VectorSearch, SearchFacts
  <2>2. \/ \E vector \in Hits :
              search' \in Endings(search.mode, search.rows, search.indexed, vector, {})
        \/ search' \in Endings(search.mode, search.rows, search.indexed, {}, {"embedding", "milvus"})
        \/ search' = Raised
    BY <1>2 DEF VectorSearch
  <2>3. CASE search' = Raised
    BY <2>3 DEF Raised, SearchFacts, CompleteIsSearched
  <2>4. ASSUME NEW vector \in Hits,
               search' \in Endings(search.mode, search.rows, search.indexed, vector, {})
        PROVE  SearchFacts'
    <3>1. search'.stage \in {"raised", "answered"}
      BY <2>4, EndingFields
    <3>2. search'.stage = "answered" /\ ~search'.partial =>
              search'.missed = search.indexed \ vector /\ search'.full = (Cardinality(vector) = TopN)
      BY <2>4, EndingFields
    <3>3. Cardinality(vector) = TopN \/ search.indexed \ vector = {}
      BY <2>1, <2>4 DEF Hits
    <3> QED
      BY <3>1, <3>2, <3>3 DEF SearchFacts, CompleteIsSearched
  <2>5. CASE search' \in Endings(search.mode, search.rows, search.indexed, {}, {"embedding", "milvus"})
    <3>1. search'.stage \in {"raised", "answered"}
      BY <2>5, EndingFields
    <3>2. ~(search'.stage = "answered" /\ ~search'.partial)
      BY <2>5, EndingFields
    <3> QED
      BY <3>1, <3>2 DEF SearchFacts, CompleteIsSearched
  <2> QED
    BY <2>2, <2>3, <2>4, <2>5
<1>3. ASSUME NEW source \in Sources, NEW mode \in Modes, StartSearch(source, mode)
      PROVE  SearchFacts'
  <2> DEFINE rows == IF source = "manual" THEN ManualCandidates(mode) ELSE TicketCandidates
  <2>1. search' \in IF mode = "keyword_only"
                    THEN Endings(mode, rows, {}, {}, {})
                    ELSE {[stage |-> "vector", mode |-> mode, rows |-> rows, indexed |-> Indexed(rows)]}
    BY <1>3 DEF StartSearch
  <2>2. UNCHANGED <<manualVec, ticketVec>>
    BY <1>3 DEF StartSearch, index
  <2>3. ASSUME NEW r \in Indexed(rows)
        PROVE  /\ r \in rows
               /\ IF r.source = "manual" THEN <<r.id, r.gen>> \in manualVec ELSE ticketVec[r.id] # 0
    <3>1. r \in rows
      BY DEF Indexed
    <3>2. CASE source = "manual"
      <4>1. r.source = "manual" /\ r.id \in Versions /\ r.gen = doc[r.id].gen
        BY <1>0, <3>1, <3>2, RowsRead
      <4>2. doc[r.id].status = "INDEXED"
        BY <4>1 DEF Indexed
      <4> QED
        BY <1>0, <3>1, <4>1, <4>2 DEF ManualsIndexed
    <3>3. CASE source # "manual"
      <4>1. r.source = "ticket" /\ r.id \in Tickets
        BY <1>0, <3>1, <3>3, RowsRead
      <4>2. ticket[r.id].status = "INDEXED"
        BY <4>1 DEF Indexed
      <4> QED
        BY <1>0, <3>1, <4>1, <4>2 DEF TicketsIndexed
    <3> QED
      BY <3>2, <3>3
  <2> HIDE DEF rows
  <2>4. CASE mode = "keyword_only"
    <3>1. search' \in Endings(mode, rows, {}, {}, {})
      BY <2>1, <2>4
    <3>2. /\ search'.stage \in {"raised", "answered"}
          /\ search'.stage = "answered" /\ ~search'.partial => search'.missed = {} \ {}
      BY <3>1, EndingFields
    <3> QED
      BY <3>2 DEF SearchFacts, CompleteIsSearched
  <2>5. CASE mode # "keyword_only"
    <3>1. search' = [stage |-> "vector", mode |-> mode, rows |-> rows, indexed |-> Indexed(rows)]
      BY <2>1, <2>5
    <3>2. search'.stage = "vector" /\ search'.rows = rows /\ search'.indexed = Indexed(rows)
      BY <3>1
    <3>3. search'.indexed \subseteq Known'
      BY <2>2, <2>3, <3>2 DEF Known
    <3> QED
      BY <3>2, <3>3 DEF SearchFacts, CompleteIsSearched
  <2> QED
    BY <2>4, <2>5
<1> QED
  BY <1>1, <1>2, <1>3 DEF Next

\* An answer that is not called partial has searched the vectors: it has found all the
\* rows that were INDEXED when RetrievalService.search read them, or vector_top_n of them,
\* although the index goes on changing between that reading and the vector search: no step
\* takes a vector away.
THEOREM CompleteAnswersAreSearched == Spec => []CompleteIsSearched
<1>1. Init => SearchFacts
  BY DEF Init, NoSearch, SearchFacts, CompleteIsSearched
<1>2. VectorInv /\ SearchFacts /\ [Next]_vars => SearchFacts'
  <2> SUFFICES ASSUME VectorInv, SearchFacts, [Next]_vars PROVE SearchFacts'
    OBVIOUS
  <2>1. CASE Next
    BY <2>1, SearchFactsStep
  <2>2. CASE UNCHANGED vars
    <3>1. UNCHANGED <<search, manualVec, ticketVec>>
      BY <2>2 DEF vars, index
    <3>2. Known' = Known
      BY <3>1 DEF Known
    <3> QED
      BY <3>1, <3>2 DEF SearchFacts, CompleteIsSearched
  <2> QED
    BY <2>1, <2>2
<1>3. SearchFacts => CompleteIsSearched
  BY DEF SearchFacts
<1> QED
  BY <1>1, <1>2, <1>3, VectorsAreKept, PTL DEF Spec

-----------------------------------------------------------------------------
(* The vector of the last generation *)

LEMMA WorkerLatest ==
    ASSUME IndexShape, LatestInv, queued, NEW w \in Workers,
           Released(w) \/ HasRead(w) \/ HasUpserted(w) \/ Publish(w), UNCHANGED <<script, raced>>
    PROVE  LatestInv'
<1>0. IndexTypeOK /\ EventsPast /\ RowsHaveGen /\ work \in [Workers -> Works(Past)]
  BY DEF IndexShape, EventsPast
<1>m. \A j \in TicketJobs : j.id \in Tickets /\ j.kind = "ticket"
  BY DEF TicketJobs
<1>l. /\ script.stage = "idle"
      /\ \A t \in Tickets \ raced : ticket[t].status = "INDEXED" => ticketVec[t] = ticket[t].gen
      /\ \A u \in Workers : \A j \in TicketJobs : Held(u, j) /\ j.id \notin raced =>
            /\ ticket[j.id].gen = j.gen
            /\ work[u].stage = "publish" => ticketVec[j.id] = ticket[j.id].gen
  BY DEF LatestInv
<1>g. SUFFICES /\ \A t \in Tickets \ raced : ticket'[t].status = "INDEXED" => ticketVec'[t] = ticket'[t].gen
               /\ \A u \in Workers : \A j \in TicketJobs : Held(u, j)' /\ j.id \notin raced =>
                     /\ ticket'[j.id].gen = j.gen
                     /\ work'[u].stage = "publish" => ticketVec'[j.id] = ticket'[j.id].gen
  BY <1>l DEF LatestInv
<1>1. CASE Released(w)
  <2>1. PICK x \in Works(Past) : x.stage \notin {"upsert", "publish"} /\ work' = [work EXCEPT ![w] = x]
    BY <1>1 DEF Released
  <2>2. ticketVec' = ticketVec /\ TicketsMarked({"FAILED"})
    BY <1>1 DEF Released
  <2>3. \A t \in Tickets : ticket'[t].gen = ticket[t].gen /\ ticket'[t].status \in {"FAILED", ticket[t].status}
    BY <1>0, <2>2, TicketMarkedFields
  <2>4. \A u \in Workers : \A j : Held(u, j)' => Held(u, j) /\ work'[u].stage = work[u].stage
    BY <1>0, <2>1, HeldReleased
  <2> QED
    BY <1>l, <1>m, <2>2, <2>3, <2>4
<1>2. CASE HasRead(w)
  <2>1. /\ work' = [work EXCEPT ![w].stage = "upsert"] /\ \A j \in Current(w) : ~Stale(j)
        /\ UNCHANGED <<ticket, ticketVec>>
    BY <1>2 DEF HasRead
  <2>2. \A j \in Current(w) \cap TicketJobs : ticket[j.id].gen = j.gen
    BY <1>m, <2>1 DEF Stale, StaleTicket
  <2>3. \A u \in Workers : \A j : Held(u, j)' =>
           \/ u = w /\ j \in Current(w) /\ work'[u].stage = "upsert"
           \/ u # w /\ Held(u, j) /\ work'[u].stage = work[u].stage
    BY <1>0, <2>1, HeldAdvanced
  <2> QED
    BY <1>l, <2>1, <2>2, <2>3
<1>3. CASE HasUpserted(w)
  <2>1. /\ work' = [work EXCEPT ![w].stage = "publish"] /\ work[w].stage = "upsert"
        /\ ticketVec' = TicketVectors(w) /\ ticket' = ticket
    BY <1>3 DEF HasUpserted
  <2>2. \A j \in Current(w) : Held(w, j)
    BY <2>1 DEF Held
  <2>3. \A j \in Current(w) \cap TicketJobs : j.id \notin raced => ticket[j.id].gen = j.gen
    BY <1>l, <2>2
  <2>4. \A t \in Tickets : \/ /\ ticketVec'[t] = ticketVec[t]
                              /\ \A j \in Current(w) \cap TicketJobs : j.id # t
                           \/ t \in raced \/ ticketVec'[t] = ticket[t].gen
    BY <1>0, <2>1, <2>3, UpsertVectors
  <2>5. \A u \in Workers : \A j : Held(u, j)' =>
           \/ u = w /\ j \in Current(w) /\ work'[u].stage = "publish"
           \/ u # w /\ Held(u, j) /\ work'[u].stage = work[u].stage
    BY <1>0, <2>1, HeldAdvanced
  <2>6. \A t \in Tickets \ raced : ticket'[t].status = "INDEXED" => ticketVec'[t] = ticket'[t].gen
    BY <1>l, <2>1, <2>4
  <2>7. ASSUME NEW u \in Workers, NEW j \in TicketJobs, Held(u, j)', j.id \notin raced
        PROVE  /\ ticket'[j.id].gen = j.gen
               /\ work'[u].stage = "publish" => ticketVec'[j.id] = ticket'[j.id].gen
    BY <1>l, <1>m, <2>1, <2>3, <2>4, <2>5, <2>7
  <2> QED
    BY <2>6, <2>7
<1>4. CASE Publish(w)
  <2>1. work[w].stage = "publish" /\ ticketVec' = ticketVec
    BY <1>4 DEF Publish
  <2>2. /\ TicketsMarked({"INDEXED"})
        /\ \A t \in Tickets : ticket'[t] = ticket[t] \/ \E j \in Current(w) \cap TicketJobs : j.id = t
    BY <1>0, <1>4, PublishEffect
  <2>3. PICK x \in Works(Past) : work' = [work EXCEPT ![w] = x] /\ x.stage \notin {"upsert", "publish"}
    BY <1>0, <1>4, PublishEffect
  <2>4. \A t \in Tickets : ticket'[t].gen = ticket[t].gen
    BY <1>0, <2>2, TicketMarkedFields
  <2>5. \A u \in Workers : \A j : Held(u, j)' => Held(u, j) /\ work'[u].stage = work[u].stage
    BY <1>0, <2>3, HeldReleased
  <2>6. \A j \in Current(w) \cap TicketJobs : j.id \notin raced => ticketVec[j.id] = ticket[j.id].gen
    BY <1>l, <2>1 DEF Held
  <2>7. \A t \in Tickets \ raced : ticket'[t].status = "INDEXED" => ticketVec'[t] = ticket'[t].gen
    BY <1>l, <2>1, <2>2, <2>4, <2>6
  <2> QED
    BY <1>l, <1>m, <2>1, <2>4, <2>5, <2>7
<1> QED
  BY <1>1, <1>2, <1>3, <1>4

\* Whoever holds an event of a ticket that is queued again has raced.
LEMMA QueueLatest ==
    ASSUME IndexShape, LatestInv, queued, NEW t \in Tickets, QueueTicket(t)
    PROVE  LatestInv'
<1>0. IndexTypeOK /\ work \in [Workers -> Works(Past)]
  BY DEF IndexShape, EventsPast
<1>m. \A j \in TicketJobs : j.id \in Tickets /\ j.kind = "ticket"
  BY DEF TicketJobs
<1>1. UNCHANGED <<queued, work, ticketVec, script>> /\ raced \subseteq raced'
  BY DEF QueueTicket
<1>2. ticket'[t].status = "QUEUED" /\ \A s \in Tickets : s # t => ticket'[s] = ticket[s]
  BY <1>0, QueueEffect
<1>3. ASSUME NEW w \in Workers, NEW j \in TicketJobs, Held(w, j), j.id = t PROVE t \in raced'
  <2>1. work[w].stage \in {"upsert", "publish"} /\ j \in Current(w)
    BY <1>3 DEF Held
  <2>2. j \in Range(Group(w))
    BY <1>0, <2>1, CurrentFields DEF Handling
  <2>3. Holding(w, t)
    BY <1>m, <1>3, <2>1, <2>2 DEF Holding, Range, Group
  <2> QED
    BY <2>3 DEF QueueTicket
<1>4. \A w, j : (Held(w, j)' <=> Held(w, j)) /\ work'[w].stage = work[w].stage
  BY <1>1, HeldUnchanged
<1>5. \A s \in Tickets \ raced' : ticket'[s].status = "INDEXED" => ticketVec'[s] = ticket'[s].gen
  BY <1>1, <1>2 DEF LatestInv
<1>6. ASSUME NEW w \in Workers, NEW j \in TicketJobs, Held(w, j)', j.id \notin raced'
      PROVE  /\ ticket'[j.id].gen = j.gen
             /\ work'[w].stage = "publish" => ticketVec'[j.id] = ticket'[j.id].gen
  <2>1. Held(w, j) /\ j.id # t
    BY <1>3, <1>4, <1>6
  <2>2. j.id \notin raced /\ ticket'[j.id] = ticket[j.id]
    BY <1>m, <1>1, <1>2, <1>6, <2>1
  <2> QED
    BY <1>1, <1>4, <2>1, <2>2 DEF LatestInv
<1> QED
  BY <1>1, <1>5, <1>6 DEF LatestInv

LEMMA RestLatest ==
    ASSUME LatestInv, UNCHANGED <<work, ticketVec, script, raced>>,
           \A t \in Tickets : ticket'[t].gen = ticket[t].gen /\ ticket'[t].status = ticket[t].status,
           queued' = queued
    PROVE  LatestInv'
<1>1. \A w, j : (Held(w, j)' <=> Held(w, j)) /\ work'[w].stage = work[w].stage
  BY HeldUnchanged
<1>2. \A j \in TicketJobs : j.id \in Tickets
  BY DEF TicketJobs
<1> QED
  BY <1>1, <1>2 DEF LatestInv

LEMMA ReloadLatest ==
    ASSUME IndexShape, LatestInv, queued,
           ReloadTruncate \/ \E current \in BOOLEAN : ReloadRows(current)
    PROVE  LatestInv'
<1>0. IndexTypeOK
  BY DEF IndexShape
<1>1. Quiet /\ UNCHANGED <<work, ticketVec, script>>
  BY DEF ReloadTruncate, ReloadRows
<1>2. \A w \in Workers : \A j : ~Held(w, j)'
  BY <1>1 DEF Quiet, Idle, Held
<1>3. \A t \in Tickets \ raced' : ticket'[t].status = "INDEXED" => ticketVec'[t] = ticket'[t].gen
  <2>1. CASE ReloadTruncate
    BY <1>0, <2>1, TruncateEffect
  <2>2. CASE \E current \in BOOLEAN : ReloadRows(current)
    <3>1. raced' = raced
      BY <2>2 DEF ReloadRows
    <3>2. \A t \in Tickets : ticket'[t] = ticket[t] \/ ticket'[t].status = "QUEUED"
      BY <1>0, <2>2, LoadedEffect
    <3> QED
      BY <1>1, <3>1, <3>2 DEF LatestInv
  <2> QED
    BY <2>1, <2>2
<1> QED
  BY <1>1, <1>2, <1>3 DEF LatestInv

LEMMA LatestStep ==
    ASSUME IndexShape, LatestInv, IndexNext
    PROVE  LatestInv'
<1>0. IndexTypeOK /\ queued' = queued
  BY DEF IndexShape, IndexNext, Ingest, SyncUpsert, SyncPublish, SyncCrash, QueueTicket, ReviewTicket,
         ScriptRead, ScriptUpsert, ScriptPublish, ReloadTruncate, ReloadRows, ReloadJobs,
         WorkerStep, Read, Upsert, Publish, Finish, Crash, Takes, Take, TakeOverrun
<1> SUFFICES ASSUME queued PROVE LatestInv'
  BY <1>0 DEF LatestInv
<1>1. CASE \/ \E v \in Versions, approved, effective \in BOOLEAN : Ingest(v, approved, effective)
           \/ \E v \in Versions : SyncUpsert(v) \/ SyncPublish(v) \/ SyncCrash(v)
           \/ ReloadJobs
  <2>1. UNCHANGED <<work, ticket, ticketVec, script, raced>>
    BY <1>1 DEF Ingest, SyncUpsert, SyncPublish, SyncCrash, ReloadJobs
  <2> QED
    BY <1>0, <2>1, RestLatest
<1>2. CASE \E t \in Tickets : QueueTicket(t)
  BY <1>2, QueueLatest
<1>3. CASE \E t \in Tickets : ReviewTicket(t)
  <2>1. PICK t \in Tickets : ReviewTicket(t)
    BY <1>3
  <2>2. UNCHANGED <<work, ticketVec, script, raced>>
    BY <2>1 DEF ReviewTicket
  <2> QED
    BY <1>0, <2>1, <2>2, ReviewEffect, RestLatest
<1>4. ~(ScriptRead \/ ScriptUpsert \/ ScriptPublish)
  BY DEF LatestInv, ScriptRead, ScriptUpsert, ScriptPublish
<1>5. CASE ReloadTruncate \/ \E current \in BOOLEAN : ReloadRows(current)
  BY <1>5, ReloadLatest
<1>6. CASE \E w \in Workers : WorkerStep(w) \/ Crash(w) \/ Takes(w)
  BY <1>6, WorkerEffect, WorkerLatest
<1> QED
  BY <1>1, <1>2, <1>3, <1>4, <1>5, <1>6 DEF IndexNext

\* With the queue, INDEXED means the vector of the last generation, unless the ticket was
\* queued again while a handler held an earlier reading of it: _ticket and _ticket_batch
\* upsert the last row of a batch, and check the generation when they read.
THEOREM VectorsAreOfLatest == Spec => []VectorOfLatest
<1>1. Init => LatestInv
  <2> SUFFICES ASSUME Init PROVE LatestInv
    OBVIOUS
  <2>1. \A t \in Tickets : ticket[t].status = "PENDING"
    BY DEF Init, IndexInit
  <2>2. script.stage = "idle" /\ \A w \in Workers : work[w].stage = "idle"
    BY DEF Init, IndexInit, NoScript, Idle
  <2> QED
    BY <2>1, <2>2 DEF LatestInv, Held
<1>2. VectorInv /\ LatestInv /\ [Next]_vars => LatestInv'
  <2> SUFFICES ASSUME VectorInv, LatestInv, [Next]_vars PROVE LatestInv'
    OBVIOUS
  <2>1. CASE IndexNext
    BY <2>1, LatestStep DEF VectorInv
  <2>2. CASE ~IndexNext
    <3>1. UNCHANGED index
      BY <2>2 DEF Next, vars, VectorSearch, StartSearch
    <3> QED
      BY <3>1, ShapeUnchanged
  <2> QED
    BY <2>1, <2>2
<1>3. LatestInv => VectorOfLatest
  BY DEF LatestInv, VectorOfLatest
<1> QED
  BY <1>1, <1>2, <1>3, VectorsAreKept, PTL DEF Spec

-----------------------------------------------------------------------------
(* A failed job has a cause *)

\* A row is written anew with a later generation, or does not come back into effect but
\* by a review.
RowsAge ==
    /\ \A v \in Versions : \/ doc'[v].gen > doc[v].gen
                           \/ /\ doc'[v].gen = doc[v].gen
                              /\ doc'[v].effective /\ doc'[v].approved =>
                                     doc[v].effective /\ doc[v].approved
    /\ \A t \in Tickets : \/ ticket'[t].gen > ticket[t].gen
                          \/ /\ ticket'[t].gen = ticket[t].gen
                             /\ ticket'[t].verified => ticket[t].verified \/ t \in flipped'
    /\ flipped \subseteq flipped'
    /\ faults <= faults'

LEMMA MarkedAge ==
    ASSUME IndexTypeOK, NEW S, DocsMarked(S), TicketsMarked(S), flipped' = flipped, faults <= faults'
    PROVE  RowsAge
<1>1. \A v \in Versions : /\ doc'[v].gen = doc[v].gen
                          /\ doc'[v].effective = doc[v].effective /\ doc'[v].approved = doc[v].approved
  BY DocMarkedFields
<1>2. \A t \in Tickets : ticket'[t].gen = ticket[t].gen /\ ticket'[t].verified = ticket[t].verified
  BY TicketMarkedFields
<1> QED
  BY <1>1, <1>2 DEF RowsAge

LEMMA NewRowAges ==
    ASSUME IndexTypeOK, NEW v \in Versions, NewRow(v)
    PROVE  \A u \in Versions : \/ doc'[u].gen > doc[u].gen
                               \/ /\ doc'[u].gen = doc[u].gen
                                  /\ doc'[u].effective /\ doc'[u].approved =>
                                         doc[u].effective /\ doc[u].approved
<1>1. doc[v].gen \in Nat /\ doc'[v].gen = doc[v].gen + 1
  BY KnowledgeAssumption DEF IndexTypeOK, Doc, NewRow
<1>2. \A u \in Versions : u # v => /\ doc'[u].gen = doc[u].gen
                                   /\ doc'[u].approved = doc[u].approved
                                   /\ doc'[u].effective => doc[u].effective
  BY DEF NewRow
<1> QED
  BY <1>1, <1>2

LEMMA RowsOnlyAge ==
    ASSUME IndexShape, IndexNext
    PROVE  RowsAge
<1>0. /\ IndexTypeOK /\ EventsPast /\ RowsHaveGen
      /\ faults \in Nat /\ \A t \in Tickets : ticket[t].gen \in Nat
  BY KnowledgeAssumption DEF IndexShape, IndexTypeOK, Ticket
<1>1. CASE \E v \in Versions, approved, effective \in BOOLEAN : Ingest(v, approved, effective)
  <2>1. PICK v \in Versions, approved, effective \in BOOLEAN : Ingest(v, approved, effective)
    BY <1>1
  <2>2. UNCHANGED <<ticket, flipped, faults>>
    BY <2>1 DEF Ingest
  <2>3. NewRow(v)
    BY <1>0, <2>1, CreateEffect DEF Ingest
  <2> QED
    BY <1>0, <2>2, <2>3, NewRowAges DEF RowsAge
<1>2. CASE \E v \in Versions : SyncUpsert(v) \/ SyncPublish(v) \/ SyncCrash(v)
  <2>1. PICK v \in Versions : SyncUpsert(v) \/ SyncPublish(v) \/ SyncCrash(v)
    BY <1>2
  <2>2. UNCHANGED <<ticket, flipped>> /\ faults <= faults'
    BY <1>0, <2>1 DEF SyncUpsert, SyncPublish, SyncCrash, Fault
  <2>3. DocsMarked({syncing[v]})
    <3>1. CASE SyncPublish(v)
      BY <1>0, <3>1, MarkDoc DEF SyncPublish, IndexTypeOK
    <3>2. CASE SyncUpsert(v) \/ SyncCrash(v)
      <4>1. doc' = doc
        BY <3>2 DEF SyncUpsert, SyncCrash
      <4> QED
        BY <4>1 DEF DocsMarked
    <3> QED
      BY <2>1, <3>1, <3>2
  <2>4. TicketsMarked({syncing[v]})
    BY <2>2 DEF TicketsMarked
  <2> QED
    BY <1>0, <2>2, <2>3, <2>4, MarkedAge
<1>3. CASE \E t \in Tickets : QueueTicket(t)
  <2>1. PICK t \in Tickets : QueueTicket(t)
    BY <1>3
  <2>2. UNCHANGED <<doc, flipped, faults>>
    BY <2>1 DEF QueueTicket
  <2>3. ticket'[t].gen > ticket[t].gen /\ \A s \in Tickets : s # t => ticket'[s] = ticket[s]
    BY <1>0, <2>1, QueueEffect
  <2> QED
    BY <1>0, <2>2, <2>3 DEF RowsAge
<1>4. CASE \E t \in Tickets : ReviewTicket(t)
  <2>1. PICK t \in Tickets : ReviewTicket(t)
    BY <1>4
  <2>2. UNCHANGED <<doc, faults>> /\ flipped' = flipped \cup {t}
    BY <2>1 DEF ReviewTicket
  <2>3. /\ \A s \in Tickets : ticket'[s].gen = ticket[s].gen
        /\ \A s \in Tickets : s # t => ticket'[s] = ticket[s]
    BY <1>0, <2>1, ReviewEffect
  <2> QED
    BY <1>0, <2>2, <2>3 DEF RowsAge
<1>5. CASE ScriptRead \/ ScriptUpsert \/ ScriptPublish
  <2>1. UNCHANGED <<doc, flipped>> /\ TicketsMarked({"INDEXED"}) /\ faults <= faults'
    BY <1>0, <1>5, ScriptEffect
  <2>2. DocsMarked({"INDEXED"})
    BY <2>1 DEF DocsMarked
  <2> QED
    BY <1>0, <2>1, <2>2, MarkedAge
<1>6. CASE ReloadJobs
  <2>1. UNCHANGED <<doc, ticket, flipped, faults>>
    BY <1>6 DEF ReloadJobs
  <2> QED
    BY <1>0, <2>1 DEF RowsAge
<1>7. CASE ReloadTruncate
  <2>1. UNCHANGED <<flipped, faults>>
    BY <1>7 DEF ReloadTruncate
  <2>2. \A v \in Versions : ~doc'[v].effective /\ doc'[v].gen = doc[v].gen
    BY <1>0, <1>7, TruncateEffect
  <2>3. \A t \in Tickets : ~ticket'[t].verified /\ ticket'[t].gen = ticket[t].gen
    BY <1>0, <1>7, TruncateEffect
  <2> QED
    BY <1>0, <2>1, <2>2, <2>3 DEF RowsAge
<1>8. CASE \E current \in BOOLEAN : ReloadRows(current)
  <2>1. UNCHANGED <<flipped, faults>>
    BY <1>8 DEF ReloadRows
  <2>2. NewRow(DatasetVersion) /\ DatasetVersion \in Versions
    BY <1>0, <1>8, LoadedEffect
  <2>3. \A t \in Tickets : ticket'[t] = ticket[t] \/ ticket'[t].gen > ticket[t].gen
    BY <1>0, <1>8, LoadedEffect
  <2> QED
    BY <1>0, <2>1, <2>2, <2>3, NewRowAges DEF RowsAge
<1>9. CASE \E w \in Workers : WorkerStep(w) \/ Crash(w) \/ Takes(w)
  <2>1. PICK w \in Workers : WorkerStep(w) \/ Crash(w) \/ Takes(w)
    BY <1>9
  <2>2. flipped' = flipped /\ (Released(w) \/ HasRead(w) \/ HasUpserted(w) \/ Publish(w))
    BY <2>1, WorkerEffect
  <2>3. faults <= faults'
    <3>1. faults' = faults \/ Fault
      <4>1. Read(w) \/ Publish(w) \/ Finish(w) => faults' = faults
        BY DEF Read, Publish, Finish
      <4>2. Upsert(w) \/ Crash(w) => faults' = faults \/ Fault
        BY DEF Upsert, Crash
      <4>3. Takes(w) => faults' = faults
        BY DEF Takes, Take, TakeOverrun
      <4> QED
        BY <2>1, <4>1, <4>2, <4>3 DEF WorkerStep
    <3> QED
      BY <1>0, <3>1 DEF Fault
  <2>4. CASE Released(w)
    BY <1>0, <2>2, <2>3, <2>4, MarkedAge DEF Released
  <2>5. CASE HasRead(w) \/ HasUpserted(w)
    <3>1. UNCHANGED <<doc, ticket>>
      BY <2>5 DEF HasRead, HasUpserted
    <3> QED
      BY <1>0, <2>2, <2>3, <3>1, Unmarked, MarkedAge
  <2>6. CASE Publish(w)
    <3>1. DocsMarked({"INDEXED"}) /\ TicketsMarked({"INDEXED"})
      BY <1>0, <2>6, PublishEffect
    <3> QED
      BY <1>0, <2>2, <2>3, <3>1, MarkedAge
  <2> QED
    BY <2>2, <2>4, <2>5, <2>6
<1> QED
  BY <1>1, <1>2, <1>3, <1>4, <1>5, <1>6, <1>7, <1>8, <1>9 DEF IndexNext

\* An event that is stale stays stale, unless its ticket is reviewed.
LEMMA StaleStays ==
    ASSUME IndexTypeOK, IndexTypeOK', RowsAge, NEW j \in Past, Stale(j)
    PROVE  Stale(j)' \/ (j.kind = "ticket" /\ j.id \in flipped')
<1>0. j \in Jobs /\ j.gen \in Nat /\ j.gen <= RowGen(j) /\ j.kind \in Kinds
  BY JobFields DEF Past
<1>1. CASE j.kind = "manual"
  <2>1. j.id \in Versions
    BY <1>0, <1>1, JobFields
  <2>2. doc[j.id].gen \in Nat /\ doc'[j.id].gen \in Nat /\ j.gen <= doc[j.id].gen
    BY <1>0, <1>1, <2>1, KnowledgeAssumption DEF IndexTypeOK, Doc, RowGen
  <2>3. (Missing(j) \/ StaleManual(j)) /\ (Missing(j)' \/ StaleManual(j)' => Stale(j)')
    BY <1>1, Zenon DEF Stale
  <2>4. CASE doc'[j.id].gen > doc[j.id].gen
    <3>1. doc'[j.id].gen # j.gen
      BY <1>0, <2>2, <2>4
    <3> QED
      BY <1>1, <2>3, <3>1 DEF Missing
  <2>5. CASE /\ doc'[j.id].gen = doc[j.id].gen
             /\ doc'[j.id].effective /\ doc'[j.id].approved => doc[j.id].effective /\ doc[j.id].approved
    <3>1. Missing(j)' \/ StaleManual(j)'
      BY <2>3, <2>5 DEF Missing, StaleManual
    <3> QED
      BY <2>3, <3>1
  <2> QED
    BY <2>1, <2>4, <2>5 DEF RowsAge
<1>2. CASE j.kind = "ticket"
  <2>1. j.id \in Tickets
    BY <1>0, <1>2, JobFields
  <2>2. ticket[j.id].gen \in Nat /\ ticket'[j.id].gen \in Nat /\ j.gen <= ticket[j.id].gen
    BY <1>0, <1>2, <2>1, KnowledgeAssumption DEF IndexTypeOK, Ticket, RowGen
  <2>3. StaleTicket(j) /\ (StaleTicket(j)' => Stale(j)')
    <3>1. j.kind # "manual"
      BY <1>2
    <3> QED
      BY <3>1, Zenon DEF Stale
  <2>4. CASE ticket'[j.id].gen > ticket[j.id].gen
    <3>1. ticket'[j.id].gen # j.gen
      BY <1>0, <2>2, <2>4
    <3> QED
      BY <2>3, <3>1 DEF StaleTicket
  <2>5. CASE /\ ticket'[j.id].gen = ticket[j.id].gen
             /\ ticket'[j.id].verified => ticket[j.id].verified \/ j.id \in flipped'
    <3>1. StaleTicket(j)' \/ j.id \in flipped'
      BY <2>3, <2>5 DEF StaleTicket
    <3> QED
      BY <1>2, <2>3, <3>1
  <2> QED
    BY <2>1, <2>4, <2>5 DEF RowsAge
<1> QED
  BY <1>0, <1>1, <1>2 DEF Kinds

\* A job fails when a provider does, or as the one event of its group, which is stale.
LEMMA NewFailures ==
    ASSUME IndexShape, IndexNext
    PROVE  \A j \in Jobs : job'[j].status = "FAILED" =>
              job[j].status = "FAILED" \/ faults' > 0 \/ (j \in Past /\ Stale(j))
<1>0. /\ IndexTypeOK /\ EventsPast /\ job \in [Jobs -> Job] /\ faults \in Nat
      /\ work \in [Workers -> Works(Past)]
  BY KnowledgeAssumption DEF IndexShape, IndexTypeOK, EventsPast
<1>1. CASE \E v \in Versions, approved, effective \in BOOLEAN : Ingest(v, approved, effective)
  <2>1. \/ job' = job
        \/ \E k : job' = [job EXCEPT ![k] = NewJob]
    BY <1>1 DEF Ingest
  <2> QED
    BY <1>0, <2>1 DEF NewJob
<1>2. CASE \E t \in Tickets : QueueTicket(t)
  <2>1. \E k : job' = [job EXCEPT ![k] = NewJob]
    BY <1>2 DEF QueueTicket
  <2> QED
    BY <1>0, <2>1 DEF NewJob
<1>3. CASE \/ \E v \in Versions : SyncUpsert(v) \/ SyncPublish(v) \/ SyncCrash(v)
           \/ \E t \in Tickets : ReviewTicket(t)
           \/ ScriptRead \/ ScriptUpsert \/ ScriptPublish
           \/ \E current \in BOOLEAN : ReloadRows(current)
           \/ \E w \in Workers : Publish(w) \/ Crash(w)
  <2>1. job' = job
    BY <1>3 DEF SyncUpsert, SyncPublish, SyncCrash, ReviewTicket, ScriptRead, ScriptUpsert,
                ScriptPublish, ReloadRows, Publish, Crash
  <2> QED
    BY <2>1
<1>4. CASE ReloadTruncate
  BY <1>0, <1>4, TruncateEffect
<1>5. CASE ReloadJobs
  <2>1. \A j \in Jobs : job'[j] = NewJob \/ job'[j] = job[j]
    BY <1>5 DEF ReloadJobs
  <2> QED
    BY <2>1 DEF NewJob
<1>6. CASE \E w \in Workers : Takes(w)
  BY <1>0, <1>6, TakeEffect
<1>7. CASE \E w \in Workers : Finish(w)
  <2>1. PICK w \in Workers : Finish(w)
    BY <1>7
  <2>2. job' = [job EXCEPT ![Group(w)[1]].status = "INDEXED"]
    BY <2>1 DEF Finish
  <2> QED
    BY <1>0, <2>2 DEF Job
<1>8. CASE \E w \in Workers : Upsert(w)
  <2>1. PICK w \in Workers : Upsert(w)
    BY <1>8
  <2>2. job' = job \/ Fault
    BY <2>1 DEF Upsert
  <2>3. CASE job' = job
    BY <2>3
  <2>4. CASE Fault
    <3>1. faults' > 0
      BY <1>0, <2>4 DEF Fault
    <3> QED
      BY <3>1
  <2> QED
    BY <2>2, <2>3, <2>4
<1>9. CASE \E w \in Workers : Read(w)
  <2>1. PICK w \in Workers : Read(w)
    BY <1>9
  <2>2. work[w].stage = "read"
    BY <2>1 DEF Read
  <2>3. CASE job' = job
    BY <2>3
  <2>4. CASE job' # job
    <3>1. Raise(w, TRUE) /\ \E j \in Current(w) : Stale(j)
      BY <2>1, <2>4 DEF Read
    <3>2. /\ Len(Group(w)) = 1 /\ Group(w)[1] \in Past
          /\ \E s : job' = [job EXCEPT ![Group(w)[1]].status = s]
      BY <1>0, <2>2, <2>4, <3>1, RaiseEffect
    <3>3. Stale(Group(w)[1])
      BY <1>0, <2>2, <3>1, <3>2, CurrentFields DEF Handling
    <3>4. \A j \in Jobs : j # Group(w)[1] => job'[j] = job[j]
      BY <1>0, <3>2
    <3> QED
      BY <3>2, <3>3, <3>4
  <2> QED
    BY <2>3, <2>4
<1> QED
  BY <1>1, <1>2, <1>3, <1>4, <1>5, <1>6, <1>7, <1>8, <1>9 DEF IndexNext, WorkerStep

\* A job fails for a reason of its own, whatever batch of the drainer it was in: _process
\* halves a group until the event at fault is alone.
THEOREM JobsFailForCause == Spec => []FailsForCause
<1>1. Init => FailsForCause
  BY DEF Init, IndexInit, FailsForCause, NoJob
<1>2. VectorInv /\ FailsForCause /\ [Next]_vars => FailsForCause'
  <2> SUFFICES ASSUME VectorInv, FailsForCause, [Next]_vars PROVE FailsForCause'
    OBVIOUS
  <2>1. CASE IndexNext
    <3>1. IndexShape /\ IndexTypeOK /\ IndexTypeOK' /\ EventsPast
      BY <2>1, IndexStepShape DEF VectorInv, IndexShape
    <3>2. RowsAge
      BY <2>1, <3>1, RowsOnlyAge
    <3> SUFFICES ASSUME NEW j \in Jobs, job'[j].status = "FAILED"
                 PROVE  \/ faults' > 0 \/ Stale(j)' \/ (j.kind = "ticket" /\ j.id \in flipped')
      BY DEF FailsForCause
    <3>3. CASE faults' > 0
      BY <3>3
    <3>4. CASE j \in Past /\ Stale(j)
      BY <3>1, <3>2, <3>4, StaleStays
    <3>5. CASE job[j].status = "FAILED"
      <4>1. j \in Past
        BY <3>1, <3>5 DEF EventsPast
      <4>2. faults \in Nat /\ faults' \in Nat /\ faults <= faults' /\ flipped \subseteq flipped'
        BY <3>1, <3>2, KnowledgeAssumption DEF IndexTypeOK, RowsAge
      <4>3. faults > 0 \/ Stale(j) \/ (j.kind = "ticket" /\ j.id \in flipped)
        BY <3>5 DEF FailsForCause
      <4>4. CASE faults > 0
        <5>1. faults' > 0
          BY <4>2, <4>4
        <5> QED
          BY <5>1
      <4>5. CASE Stale(j)
        BY <3>1, <3>2, <4>1, <4>5, StaleStays
      <4>6. CASE j.kind = "ticket" /\ j.id \in flipped
        BY <4>2, <4>6
      <4> QED
        BY <4>3, <4>4, <4>5, <4>6
    <3> QED
      BY <2>1, <3>1, <3>3, <3>4, <3>5, NewFailures
  <2>2. CASE ~IndexNext
    <3>1. UNCHANGED <<job, faults, doc, ticket, flipped>>
      BY <2>2 DEF Next, vars, VectorSearch, StartSearch, index
    <3> QED
      BY <3>1 DEF FailsForCause, Stale, Missing, StaleManual, StaleTicket
  <2> QED
    BY <2>1, <2>2
<1> QED
  BY <1>1, <1>2, VectorsAreKept, PTL DEF Spec
=============================================================================
