--------------------------- MODULE KnowledgeSearch ---------------------------
(***************************************************************************)
(* RetrievalService.search over the manuals and tickets of KnowledgeIndex. *)
(* A search reads the candidate rows once, ranks them by keywords, awaits  *)
(* the embedding and Milvus, awaits the reranker, and answers with what    *)
(* has degraded.  The index goes on changing until the vectors are there.  *)
(*                                                                         *)
(* Scores are abstracted: keyword ranking keeps any of the rows it is      *)
(* given, and thresholds, diversity and limits keep any of the candidates. *)
(***************************************************************************)
EXTENDS KnowledgeIndex

CONSTANT TopN        \* vector_top_n

ASSUME TopNAssumption == TopN \in Nat \ {0}

VARIABLE search      \* the search: searches share nothing but the index

vars == <<index, search>>

-----------------------------------------------------------------------------
(* Types *)

Sources == {"manual", "ticket"}
Modes == {"hybrid", "keyword_only", "vector_only"}

\* A row is its identity in Milvus: the chunk of a version and its generation, or a
\* ticket.
Rows == [source : {"manual"}, id : Versions, gen : Gens]
        \cup [source : {"ticket"}, id : Tickets, gen : {0}]
ManualRow(v) == [source |-> "manual", id |-> v, gen |-> doc[v].gen]
TicketRow(t) == [source |-> "ticket", id |-> t, gen |-> 0]

\* A search waits for its vectors with the rows it has read, of which indexed had the
\* index_status INDEXED; or it has answered, with partial_result, and missed those of
\* the indexed rows that the vector channel did not find, which was full at TopN hits.
Search ==
    [stage : {"none", "raised"}]
    \cup [stage : {"vector"}, mode : Modes, rows : SUBSET Rows, indexed : SUBSET Rows]
    \cup [stage : {"answered"}, partial : BOOLEAN, missed : SUBSET Rows, full : BOOLEAN]

NoSearch == [stage |-> "none"]
Raised == [stage |-> "raised"]

\* Every variable of the index and the search stays in its domain.
TypeOK ==
    /\ IndexTypeOK
    /\ search \in Search

Init ==
    /\ IndexInit
    /\ search = NoSearch

-----------------------------------------------------------------------------
(* RetrievalService.search *)

\* manual_candidates: chunks that are effective, and but for keywords alone those of a
\* document that is approved, effective and indexed.
ManualCandidates(mode) ==
    {ManualRow(v) : v \in {u \in chunkOn :
        mode # "keyword_only" => doc[u].approved /\ doc[u].effective /\ doc[u].status = "INDEXED"}}

\* ticket_candidates, verified_only.
TicketCandidates == {TicketRow(t) : t \in {u \in Tickets : ticket[u].verified}}

Indexed(rows) ==
    {r \in rows : IF r.source = "manual" THEN doc[r.id].status = "INDEXED"
                                         ELSE ticket[r.id].status = "INDEXED"}

\* The rows that keywords may find.
KeywordHits(mode, rows) == IF mode = "vector_only" THEN {{}} ELSE SUBSET rows

\* rewrite_query reports when the model that should help the rules did not.
Rewritings == SUBSET {"QUERY_REWRITE_FAILED"}

\* merge_candidates: one candidate for each identity, whichever channel found it.
Merged(keyword, vector) == keyword \cup vector

\* The reranker answers, or is not configured or unavailable.
Rerankings(mode, merged) == IF merged # {} /\ mode = "hybrid" THEN SUBSET {"reranker"} ELSE {{}}

\* What a search ends with once its channels have answered: the error that all of
\* them failed, the error of a reranker that answers what the provider refuses, or an
\* answer that names what has degraded.
Endings(mode, rows, indexed, vector, degraded) ==
    {e \in {Raised} \cup [stage : {"answered"}, partial : BOOLEAN, missed : {indexed \ vector},
                          full : {Cardinality(vector) = TopN}] :
       \E keyword \in KeywordHits(mode, rows), rewriting \in Rewritings :
         LET merged == Merged(keyword, vector)
         IN IF merged = {} /\ mode = "vector_only" /\ rows # {}
            THEN e = Raised
            ELSE \/ e = Raised /\ merged # {} /\ mode = "hybrid"
                 \/ \E rerank \in Rerankings(mode, merged) :
                       /\ e.stage = "answered"
                       /\ e.partial = (degraded \cup rewriting \cup rerank # {})}

\* The rows are read; a search by keywords alone asks for no vectors, and misses none.
StartSearch(source, mode) ==
    /\ search.stage = "none"
    /\ LET rows == IF source = "manual" THEN ManualCandidates(mode) ELSE TicketCandidates
       IN search' \in IF mode = "keyword_only"
                      THEN Endings(mode, rows, {}, {}, {})
                      ELSE {[stage |-> "vector", mode |-> mode, rows |-> rows,
                             indexed |-> Indexed(rows)]}
    /\ UNCHANGED index

\* The candidates that Milvus knows, ...
Known == {r \in search.rows : IF r.source = "manual" THEN <<r.id, r.gen>> \in manualVec
                                                     ELSE ticketVec[r.id] # 0}

\* ... and what it answers: TopN of them, by distance, or all when there are fewer.
Hits == {S \in SUBSET Known : Cardinality(S) = TopN \/ (S = Known /\ Cardinality(S) < TopN)}

\* Mutant: a vector search that fails is only logged.
VectorSearchSilent ==
    LET ends(vector, degraded) ==
            Endings(search.mode, search.rows, search.indexed, vector, degraded)
    IN /\ search.stage = "vector"
       /\ \/ \E vector \in Hits : search' \in ends(vector, {})
          \/ search' \in ends({}, {})
          \/ search' = Raised
       /\ UNCHANGED index

\* The vector channel: answered, not configured or unavailable, or an error that search
\* lets through (an answer of the wrong form or dimension, a refused request).
VectorSearch ==
    LET ends(vector, degraded) ==
            Endings(search.mode, search.rows, search.indexed, vector, degraded)
    IN /\ search.stage = "vector"
       /\ \/ \E vector \in Hits : search' \in ends(vector, {})
          \/ search' \in ends({}, {"embedding", "milvus"})
          \/ search' = Raised
       /\ UNCHANGED index

Next ==
    \/ IndexNext /\ UNCHANGED search
    \/ \E source \in Sources, mode \in Modes : StartSearch(source, mode)
    \/ VectorSearch

Spec == Init /\ [][Next]_vars /\ IndexFairness

-----------------------------------------------------------------------------
(* Properties *)

\* INDEXED is never ahead of the vectors: a version or a ticket that its row calls
\* INDEXED has its vector in Milvus (for a version, that of its generation), although
\* the upsert and the status are written by separate steps of several workers (and
\* every variable has its type).
IndexedHasVector ==
    /\ TypeOK
    /\ \A v \in Versions : doc[v].status = "INDEXED" => <<v, doc[v].gen>> \in manualVec
    /\ \A t \in Tickets : ticket[t].status = "INDEXED" => ticketVec[t] # 0

\* With the queue, INDEXED means indexed as of the last generation, unless the ticket
\* was queued again while a handler was between its reading and its publishing: then
\* the older event may overwrite the newer vector, as _ticket compares the generation
\* only when it reads.
VectorOfLatest ==
    queued => \A t \in Tickets \ raced :
                 ticket[t].status = "INDEXED" => ticketVec[t] = ticket[t].gen

\* A job fails for a reason of its own: a provider failed or a worker crashed, or its
\* event is stale.  One bad event of the drainer's batch does not take the others with it.
FailsForCause ==
    \A j \in Jobs :
        job[j].status = "FAILED" =>
            \/ faults > 0
            \/ Stale(j)
            \/ j.kind = "ticket" /\ j.id \in flipped

\* An answer can quote one version of the document only, in every mode and through
\* every switch from one effective version to the next.
OneVersionQuoted ==
    \A mode \in Modes : Cardinality(ManualCandidates(mode)) <= 1

\* What an answer does not call partial has been searched: the vector channel, if the
\* search asked for it, found all the rows that were INDEXED when the search read them,
\* or as many hits as it may have.  A fallback is never reported as full success.
CompleteIsSearched ==
    search.stage = "answered" /\ ~search.partial => search.missed = {} \/ search.full

\* A job that no delivery can bring to an end: its attempts are used up, as a worker
\* died in the last one, or drain() raised after it had started the job.
Stuck(j) ==
    /\ job[j].status \in {"QUEUED", "RUNNING"}
    /\ job[j].attempts = MaxAttempts
    /\ \A w \in Workers : j \notin UNION {Range(g) : g \in Range(work[w].todo)}

\* A queued job of the effective and approved version of the manual gets an outcome: the
\* version is INDEXED or FAILED, or another one has taken its place.  The one exception
\* is a job whose last attempt was cut short.
DocSettles ==
    \A v \in Versions :
        doc[v].status = "QUEUED" /\ doc[v].effective /\ doc[v].approved
            /\ job[ManualJob(v, doc[v].gen)].status # "none"
        ~> \/ doc[v].status # "QUEUED" \/ ~doc[v].effective
           \/ Stuck(ManualJob(v, doc[v].gen))
=============================================================================
