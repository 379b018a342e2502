---------------------------- MODULE ToolExecutor ----------------------------
(***************************************************************************)
(* Calls to a service through its circuit breaker: the tools of a run, by  *)
(* ToolExecutor.execute, and the clients that use a breaker of their own   *)
(* (ModelGateway, the embedding, reranker, Milvus and RabbitMQ providers). *)
(* Breakers share nothing, so a behaviour has one client, and the callers  *)
(* are the diagnosis runs, requests and workers that use it at once.       *)
(*                                                                         *)
(* A step ends where the code awaits.  An attempt has the outcomes the     *)
(* client tells apart; time is whether the recovery timeout has passed.    *)
(***************************************************************************)
EXTENDS Naturals, FiniteSets

CONSTANTS
    Callers,         \* those who call at the same time
    Clients,         \* clients considered, one at a time
    MaxAttempts,     \* DEFAULT_MAX_ATTEMPTS, or max_retries + 1
    MaxToolCalls,    \* MAX_TOOL_CALLS_PER_RUN
    Threshold,       \* failure_threshold
    MaxFaults        \* bound: answers and writes that fail for other reasons than the service

\* Tools with a breaker, tools without one, and a name that is not registered.
GuardedTools == {"query_timeseries_window", "query_graph_relations"}
Tools == GuardedTools \cup {"get_device_profile", "search_manual_chunks", "unregistered"}
HttpClients == {"model", "embedding", "reranker"}
Providers == HttpClients \cup {"milvus", "rabbitmq"}

ASSUME ClientsAssumption == Clients \subseteq Tools \cup Providers
ASSUME BoundsAssumption ==
    /\ MaxAttempts \in Nat \ {0}
    /\ MaxToolCalls \in Nat
    /\ Threshold \in Nat \ {0}
    /\ MaxFaults \in Nat

VARIABLES
    client,    \* whose breaker this is
    breaker,   \* the CircuitBreaker; failure_count only counts up to the threshold
    due,       \* the recovery timeout has passed since opened_at
    up,        \* whether the service answers
    call,      \* what each caller awaits
    budget,    \* executor.calls of the caller's run, up to one above the limit
    lost,      \* a call has ended without a word to the breaker, and no other since with one
    faults

vars == <<client, breaker, due, up, call, budget, lost, faults>>

-----------------------------------------------------------------------------
(* Types *)

None == [stage |-> "none"]
Statuses == {"OK", "NOT_FOUND", "PARTIAL_SUCCESS", "TIMEOUT", "DEGRADED", "FAILED"}
FailedStatuses == {"TIMEOUT", "DEGRADED", "FAILED"}

Breaker ==
    [state : {"CLOSED", "OPEN", "HALF_OPEN"}, failures : 0..Threshold, probe : BOOLEAN]

\* A caller waits for the service, or for tool_logger, with the result it logs: in
\* the try block, or in a handler of an exception.
Call ==
    {None}
    \cup [stage : {"service"}, attempt : 1..MaxAttempts]
    \cup [stage : {"log", "log_failure"}, attempt : 1..MaxAttempts, result : Statuses]

Guarded == client \in GuardedTools \cup Providers
IsTool == client \in Tools

\* An answer without content is NOT_FOUND; a service that is down gives none.
Found == IF up THEN {"OK", "NOT_FOUND"} ELSE {}

\* The device's or the alarm's row, or None.
DeviceAnswers == Found

\* A summary for each metric; when every one is missing nothing was found.
TimeseriesAnswers == Found

\* Retrieval has fallbacks of its own, and its result is never empty: it is partial
\* when the search of one of its sources was.
RetrievalAnswers == {"OK", "PARTIAL_SUCCESS"}

\* The handler of graph_tools turns a failure of Neo4j into an answer.
GraphAnswers == IF up THEN Found ELSE {"DEGRADED"}

Answers(c) ==
    CASE c \in Providers -> IF up THEN {"OK"} ELSE {}
      [] c = "query_graph_relations" -> GraphAnswers
      [] c = "query_timeseries_window" -> TimeseriesAnswers
      [] c = "search_manual_chunks" -> RetrievalAnswers
      [] OTHER -> DeviceAnswers

Init ==
    /\ client \in Clients
    /\ breaker = [state |-> "CLOSED", failures |-> 0, probe |-> FALSE]
    /\ due = FALSE
    /\ up = TRUE
    /\ call = [r \in Callers |-> None]
    /\ budget = [r \in Callers |-> 0]
    /\ lost = FALSE
    /\ faults = 0

-----------------------------------------------------------------------------
(* CircuitBreaker *)

\* Mutant: nobody is let through a half-open circuit after the first probe.
RefusesHalfOpen ==
    /\ Guarded
    /\ \/ breaker.state = "OPEN" /\ ~due
       \/ breaker.state = "HALF_OPEN"

\* allow().
Refuses ==
    /\ Guarded
    /\ \/ breaker.state = "OPEN" /\ ~due
       \/ breaker.state = "HALF_OPEN" /\ breaker.probe

Allow ==
    /\ ~Refuses
    /\ breaker' = IF breaker.state = "CLOSED" \/ ~Guarded THEN breaker
                  ELSE [breaker EXCEPT !.state = "HALF_OPEN", !.probe = TRUE]
    /\ UNCHANGED <<due, lost>>

\* Mutant: a success closes the circuit and forgets the failures only when probing.
RecordSuccessKeepsCount ==
    IF Guarded
    THEN /\ breaker' = [breaker EXCEPT !.state = "CLOSED", !.probe = FALSE,
                                       !.failures = IF breaker.state = "HALF_OPEN" THEN 0 ELSE @]
         /\ due' = FALSE
         /\ lost' = FALSE
    ELSE UNCHANGED <<breaker, due, lost>>

RecordSuccess ==
    IF Guarded
    THEN /\ breaker' = [state |-> "CLOSED", failures |-> 0, probe |-> FALSE]
         /\ due' = FALSE
         /\ lost' = FALSE
    ELSE UNCHANGED <<breaker, due, lost>>

RecordFailure ==
    IF Guarded
    THEN LET n == IF breaker.failures < Threshold THEN breaker.failures + 1 ELSE Threshold
             opens == breaker.state = "HALF_OPEN" \/ n = Threshold
         IN /\ breaker' = [state |-> IF opens THEN "OPEN" ELSE breaker.state,
                           failures |-> n, probe |-> FALSE]
            /\ due' = (due /\ ~opens)
            /\ lost' = FALSE
    ELSE UNCHANGED <<breaker, due, lost>>

\* Mutant: a failure that does not count leaves the probe flag set.
RecordUncountedHolds ==
    UNCHANGED <<breaker, due>> /\ lost' = FALSE

\* record_failure(countable=False).
RecordUncounted ==
    /\ breaker' = [breaker EXCEPT !.probe = FALSE]
    /\ lost' = FALSE
    /\ UNCHANGED due

\* The call ends by an exception that no handler records.
NoRecord ==
    /\ lost' = Guarded
    /\ UNCHANGED <<breaker, due>>

\* The clock reaches opened_at + recovery_timeout_seconds.
Elapses ==
    /\ breaker.state = "OPEN"
    /\ ~due
    /\ due' = TRUE
    /\ UNCHANGED <<client, breaker, up, call, budget, lost, faults>>

-----------------------------------------------------------------------------
(* Starting and ending a call *)

Fault == faults < MaxFaults /\ faults' = faults + 1
NoFault == UNCHANGED faults

Return(r) ==
    /\ call' = [call EXCEPT ![r] = None]
    /\ UNCHANGED <<client, up, budget>>

Retry(r) ==
    /\ call' = [call EXCEPT ![r] = [stage |-> "service", attempt |-> @.attempt + 1]]
    /\ UNCHANGED <<client, breaker, due, up, budget, lost>>

Spent(r) == IF IsTool THEN {budget[r] + 1, MaxToolCalls + 1} ELSE {0}
Spend(r) == budget' = [budget EXCEPT ![r] = CHOOSE n \in Spent(r) : \A m \in Spent(r) : n <= m]

\* The arguments do not fit the schema of the tool.
ArgumentsInvalid == IsTool /\ Fault

\* The run is out of tool calls, the tool is unknown, its arguments are invalid, or
\* the circuit is open: no attempt is made.
Turned(r) ==
    /\ call[r] = None
    /\ \/ NoFault /\ (client = "unregistered" \/ Refuses \/ (IsTool /\ budget[r] >= MaxToolCalls))
       \/ ArgumentsInvalid
    /\ Spend(r)
    /\ UNCHANGED <<client, breaker, due, up, call, lost>>

Start(r) ==
    /\ call[r] = None
    /\ client # "unregistered"
    /\ IsTool => budget[r] < MaxToolCalls
    /\ Allow
    /\ Spend(r)
    /\ call' = [call EXCEPT ![r] = [stage |-> "service", attempt |-> 1]]
    /\ UNCHANGED <<client, up, faults>>

\* The next diagnosis has an executor of its own.
NextRun(r) ==
    /\ call[r] = None
    /\ budget[r] > 0
    /\ budget' = [budget EXCEPT ![r] = 0]
    /\ UNCHANGED <<client, breaker, due, up, call, lost, faults>>

\* The caller is cancelled at its await: CancelledError is no Exception.
Cancelled(r) ==
    /\ call[r] # None
    /\ Fault
    /\ NoRecord
    /\ Return(r)

-----------------------------------------------------------------------------
(* ToolExecutor.execute *)

ToolWaits(r) == IsTool /\ call[r].stage = "service"

Logging(r, stage, result) ==
    /\ call' = [call EXCEPT ![r] = [stage |-> stage, attempt |-> @.attempt, result |-> result]]
    /\ UNCHANGED <<client, breaker, due, up, budget, lost>>

ToolAnswers(r) ==
    /\ ToolWaits(r)
    /\ \E status \in Answers(client) : Logging(r, "log", status)
    /\ NoFault

\* TimeoutError or ConnectionError, here or from tool_logger in the try block.
Unreachable(r, status) ==
    \/ call[r].attempt < MaxAttempts /\ Retry(r)
    \/ call[r].attempt = MaxAttempts /\ Logging(r, "log_failure", status)

\* graph_tools turns every exception into an answer: only wait_for can time out.
ToolUnreachable(r) ==
    /\ ToolWaits(r)
    /\ ~up
    /\ \E status \in {"TIMEOUT", "DEGRADED"} :
          /\ client = "query_graph_relations" => status = "TIMEOUT"
          /\ Unreachable(r, status)
    /\ NoFault

\* Any other exception.
ToolRaises(r) ==
    /\ ToolWaits(r)
    /\ client # "query_graph_relations"
    /\ Fault
    /\ Logging(r, "log_failure", "FAILED")

\* tool_logger has written the result; the breaker is told and execute returns.
Logged(r) ==
    /\ call[r].stage \in {"log", "log_failure"}
    /\ IF call[r].result \in FailedStatuses THEN RecordFailure ELSE RecordSuccess
    /\ Return(r)
    /\ NoFault

\* tool_logger raises: in the try block execute takes it for a failure of the tool.
LogFails(r) ==
    /\ Fault
    /\ \/ /\ call[r].stage = "log"
          /\ \/ \E status \in {"TIMEOUT", "DEGRADED"} : Unreachable(r, status)
             \/ Logging(r, "log_failure", "FAILED")
       \/ /\ call[r].stage = "log_failure"
          /\ NoRecord
          /\ Return(r)

-----------------------------------------------------------------------------
(* The clients with a breaker of their own *)

Attempts == IF client \in HttpClients THEN MaxAttempts ELSE 1

ProviderWaits(r) == client \in Providers /\ call[r].stage = "service"

ProviderAnswers(r) ==
    /\ ProviderWaits(r)
    /\ Answers(client) # {}
    /\ RecordSuccess
    /\ Return(r)
    /\ NoFault

\* Timeout, network error, or status 429 or 5xx.
ProviderUnreachable(r) ==
    /\ ProviderWaits(r)
    /\ ~up
    /\ \/ call[r].attempt < Attempts /\ Retry(r)
       \/ call[r].attempt = Attempts /\ RecordFailure /\ Return(r)
    /\ NoFault

\* The answer cannot be used: it has the wrong shape, count or dimension.
ProviderInvalid(r) ==
    /\ ProviderWaits(r)
    /\ client \in HttpClients
    /\ Fault
    /\ RecordUncounted
    /\ Return(r)

\* The request is refused with a status 4xx other than 429.  ModelGateway counts an
\* HTTPStatusError; the embedding and reranker clients have no handler for it.
ProviderRejects(r) ==
    /\ ProviderWaits(r)
    /\ client \in HttpClients
    /\ Fault
    /\ IF client = "model" THEN RecordFailure ELSE NoRecord
    /\ Return(r)

-----------------------------------------------------------------------------

\* The service goes down or comes back.
ServiceChanges ==
    /\ up' = ~up
    /\ UNCHANGED <<client, breaker, due, call, budget, lost, faults>>

CallStep(r) ==
    \/ ToolAnswers(r) \/ ToolUnreachable(r) \/ Logged(r)
    \/ ProviderAnswers(r) \/ ProviderUnreachable(r)

FaultStep(r) ==
    \/ Cancelled(r) \/ ToolRaises(r) \/ LogFails(r)
    \/ ProviderInvalid(r) \/ ProviderRejects(r)

Next ==
    \/ \E r \in Callers : Start(r) \/ Turned(r) \/ NextRun(r) \/ CallStep(r) \/ FaultStep(r)
    \/ Elapses
    \/ ServiceChanges

\* Every await has a timeout, time passes, and diagnoses keep coming: somebody calls
\* whenever that is possible again and again.
Fairness ==
    /\ \A r \in Callers : WF_vars(CallStep(r)) /\ WF_vars(NextRun(r))
    /\ WF_vars(Elapses)
    /\ SF_vars(\E r \in Callers : Start(r))

Spec == Init /\ [][Next]_vars /\ Fairness

-----------------------------------------------------------------------------
(* Properties *)

InFlight == {r \in Callers : call[r] # None}

\* Every variable stays in its domain; no call makes more than max_attempts attempts.
TypeOK ==
    /\ client \in Clients
    /\ breaker \in Breaker
    /\ due \in BOOLEAN
    /\ up \in BOOLEAN
    /\ call \in [Callers -> Call]
    /\ budget \in [Callers -> 0..(MaxToolCalls + 1)]
    /\ lost \in BOOLEAN
    /\ faults \in 0..MaxFaults

\* The circuit is closed exactly while fewer failures than the threshold have
\* followed the last success, in whatever order late results of calls that began
\* before it opened come in (and every variable has its type).
ClosedBelowThreshold ==
    /\ TypeOK
    /\ breaker.state = "CLOSED" <=> breaker.failures < Threshold

\* The half-open probe flag is never left set: somebody is calling who will clear it,
\* or a call has ended without record_success or record_failure.  A flag left set
\* rejects every later call of the dependency.
ProbeReleased == breaker.probe /\ InFlight = {} => lost

\* Once the service is back for good its circuit closes, unless a probe was lost.
CircuitCloses == <>[]up => []<>(breaker.state = "CLOSED" \/ lost)
=============================================================================
