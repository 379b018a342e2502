------------------------- MODULE ToolExecutorProofs -------------------------
(***************************************************************************)
(* Theorems about ToolExecutor, for every number of callers, attempts and  *)
(* failures, every threshold and every client.                             *)
(***************************************************************************)
EXTENDS ToolExecutor, TLAPS

-----------------------------------------------------------------------------
(* The breaker *)

\* The state follows the count.
Counted == breaker.state = "CLOSED" <=> breaker.failures < Threshold

\* A step of a caller meets the breaker in one of these ways.
Recorded == RecordSuccess \/ RecordFailure \/ RecordUncounted \/ NoRecord

\* What each method of CircuitBreaker, and a call that uses none, keeps: a half-open
\* circuit has all its failures, so one more opens it.
LEMMA BreakerStep ==
    ASSUME breaker \in Breaker, Counted, Allow \/ Recorded
    PROVE  breaker' \in Breaker /\ Counted'
<1> USE BoundsAssumption DEF Counted, Breaker
<1>0. CASE breaker' = breaker
  BY <1>0
<1>1. CASE Allow
  BY <1>1 DEF Allow, Refuses
<1>2. CASE RecordSuccess
  <2>1. CASE Guarded
    <3>1. breaker' = [state |-> "CLOSED", failures |-> 0, probe |-> FALSE]
      BY <1>2, <2>1 DEF RecordSuccess
    <3> QED
      BY <3>1
  <2> QED
    BY <1>0, <1>2, <2>1 DEF RecordSuccess
<1>3. CASE RecordFailure
  <2> DEFINE n == IF breaker.failures < Threshold THEN breaker.failures + 1 ELSE Threshold
             opens == breaker.state = "HALF_OPEN" \/ n = Threshold
  <2>1. CASE Guarded
    <3>1. breaker' = [state |-> IF opens THEN "OPEN" ELSE breaker.state,
                      failures |-> n, probe |-> FALSE]
      BY <1>3, <2>1 DEF RecordFailure
    <3> QED
      BY <3>1
  <2> QED
    BY <1>0, <1>3, <2>1 DEF RecordFailure
<1>4. CASE RecordUncounted
  BY <1>4 DEF RecordUncounted
<1>5. CASE NoRecord
  BY <1>0, <1>5 DEF NoRecord
<1> QED
  BY <1>1, <1>2, <1>3, <1>4, <1>5 DEF Recorded

\* The clock and the history stay Boolean.
LEMMA FlagsStep ==
    ASSUME due \in BOOLEAN, lost \in BOOLEAN, Allow \/ Recorded
    PROVE  due' \in BOOLEAN /\ lost' \in BOOLEAN
<1>1. CASE Allow
  BY <1>1 DEF Allow
<1>2. CASE RecordSuccess
  BY <1>2 DEF RecordSuccess
<1>3. CASE RecordFailure
  BY <1>3 DEF RecordFailure
<1>4. CASE RecordUncounted
  BY <1>4 DEF RecordUncounted
<1>5. CASE NoRecord
  BY <1>5 DEF NoRecord, Guarded
<1> QED
  BY <1>1, <1>2, <1>3, <1>4, <1>5 DEF Recorded

\* Whoever records anything clears the probe; whoever does not is known to be lost.
LEMMA ProbeStep ==
    ASSUME breaker \in Breaker, Recorded, breaker'.probe
    PROVE  breaker.probe /\ (lost' \/ ~Guarded)
<1> USE BoundsAssumption DEF Breaker
<1>1. CASE RecordSuccess
  <2>1. CASE Guarded
    <3>1. breaker' = [state |-> "CLOSED", failures |-> 0, probe |-> FALSE]
      BY <1>1, <2>1 DEF RecordSuccess
    <3> QED
      BY <3>1
  <2> QED
    BY <1>1, <2>1 DEF RecordSuccess
<1>2. CASE RecordFailure
  <2>1. CASE Guarded
    <3>1. breaker'.probe = FALSE
      BY <1>2, <2>1 DEF RecordFailure
    <3> QED
      BY <3>1
  <2> QED
    BY <1>2, <2>1 DEF RecordFailure
<1>3. CASE RecordUncounted
  BY <1>3 DEF RecordUncounted
<1>4. CASE NoRecord
  BY <1>4 DEF NoRecord
<1> QED
  BY <1>1, <1>2, <1>3, <1>4 DEF Recorded

-----------------------------------------------------------------------------
(* Types *)

\* The call goes on with its breaker untouched, or ends and says so or not.
Waits(r) ==
    /\ \E c \in Call \ {None} : call' = [call EXCEPT ![r] = c]
    /\ UNCHANGED <<client, breaker, due, up, budget, lost>>
Ends(r) == Recorded /\ Return(r)

\* A call in flight has its attempt, and a result once it is logged.
LEMMA CallInFlight ==
    ASSUME TypeOK, NEW r \in Callers
    PROVE  /\ call[r].stage \in {"service", "log", "log_failure"} =>
                 call[r] # None /\ call[r].attempt \in 1..MaxAttempts
           /\ call[r].stage \in {"log", "log_failure"} => call[r].result \in Statuses
           /\ call[r] # None => call[r].stage \in {"service", "log", "log_failure"}
BY DEF TypeOK, Call, None

LEMMA RetryWaits ==
    ASSUME TypeOK, NEW r \in Callers, call[r] # None, call[r].attempt < MaxAttempts, Retry(r)
    PROVE  Waits(r)
<1> DEFINE c == [stage |-> "service", attempt |-> call[r].attempt + 1]
<1>1. call[r].attempt \in 1..MaxAttempts
  BY CallInFlight
<1>2. c \in Call \ {None}
  BY <1>1, BoundsAssumption DEF Call, None
<1>3. call' = [call EXCEPT ![r] = c]
  BY DEF Retry
<1> QED
  BY <1>2, <1>3 DEF Waits, Retry

LEMMA LoggingWaits ==
    ASSUME TypeOK, NEW r \in Callers, call[r] # None, NEW stage \in {"log", "log_failure"},
           NEW result \in Statuses, Logging(r, stage, result)
    PROVE  Waits(r)
<1> DEFINE c == [stage |-> stage, attempt |-> call[r].attempt, result |-> result]
<1>1. call[r].attempt \in 1..MaxAttempts
  BY CallInFlight
<1>2. c \in Call \ {None}
  BY <1>1 DEF Call, None
<1>3. call' = [call EXCEPT ![r] = c]
  BY DEF Logging
<1> QED
  BY <1>2, <1>3 DEF Waits, Logging

LEMMA UnreachableWaits ==
    ASSUME TypeOK, NEW r \in Callers, call[r] # None, NEW status \in Statuses,
           Unreachable(r, status)
    PROVE  Waits(r)
BY RetryWaits, LoggingWaits DEF Unreachable

\* Every answer of a tool is a status.
LEMMA AnswersAreStatuses ==
    Answers(client) \subseteq Statuses
BY DEF Answers, Found, DeviceAnswers, TimeseriesAnswers, RetrievalAnswers, GraphAnswers, Statuses

\* What a caller in flight can do: go on, or end its call.
LEMMA CallerSteps ==
    ASSUME TypeOK, NEW r \in Callers, CallStep(r) \/ FaultStep(r)
    PROVE  /\ Waits(r) \/ Ends(r)
           /\ call[r] # None
           /\ faults' \in 0..MaxFaults
<1> DEFINE Goal == Waits(r) \/ Ends(r)
<1>0. call[r] # None
  BY CallInFlight DEF CallStep, FaultStep, ToolAnswers, ToolUnreachable, Logged, ProviderAnswers,
     ProviderUnreachable, Cancelled, ToolRaises, LogFails, ProviderInvalid, ProviderRejects,
     ToolWaits, ProviderWaits
<1>1. faults' \in 0..MaxFaults
  BY BoundsAssumption DEF TypeOK, CallStep, FaultStep, ToolAnswers, ToolUnreachable, Logged,
     ProviderAnswers, ProviderUnreachable, Cancelled, ToolRaises, LogFails, ProviderInvalid,
     ProviderRejects, Fault, NoFault
<1>2. ToolAnswers(r) => Goal
  <2> SUFFICES ASSUME ToolAnswers(r) PROVE Waits(r)
    OBVIOUS
  <2>1. PICK status \in Answers(client) : Logging(r, "log", status)
    BY DEF ToolAnswers
  <2>2. status \in Statuses
    BY AnswersAreStatuses
  <2> QED
    BY <1>0, <2>1, <2>2, LoggingWaits
<1>3. \A status \in {"TIMEOUT", "DEGRADED"} : Unreachable(r, status) => Waits(r)
  BY <1>0, UnreachableWaits DEF Statuses
<1>4. ToolUnreachable(r) => Goal
  BY <1>3 DEF ToolUnreachable
<1>5. Logged(r) => Goal
  BY DEF Logged, Ends, Recorded
<1>6. ProviderAnswers(r) => Goal
  BY DEF ProviderAnswers, Ends, Recorded
<1>7. ProviderUnreachable(r) => Goal
  <2>1. Attempts \in Nat /\ Attempts <= MaxAttempts
    BY BoundsAssumption DEF Attempts
  <2>2. call[r].attempt \in 1..MaxAttempts
    BY <1>0, CallInFlight
  <2>3. call[r].attempt < Attempts => call[r].attempt < MaxAttempts
    BY <2>1, <2>2, BoundsAssumption
  <2>4. call[r].attempt < Attempts /\ Retry(r) => Waits(r)
    BY <1>0, <2>3, RetryWaits
  <2> QED
    BY <2>4 DEF ProviderUnreachable, Ends, Recorded
<1>8. Cancelled(r) => Goal
  BY DEF Cancelled, Ends, Recorded
<1>9. Logging(r, "log_failure", "FAILED") => Waits(r)
  BY <1>0, LoggingWaits DEF Statuses
<1>10. ToolRaises(r) => Goal
  BY <1>9 DEF ToolRaises
<1>11. LogFails(r) => Goal
  BY <1>3, <1>9 DEF LogFails, Ends, Recorded
<1>12. ProviderInvalid(r) => Goal
  BY DEF ProviderInvalid, Ends, Recorded
<1>13. ProviderRejects(r) => Goal
  BY DEF ProviderRejects, Ends, Recorded
<1> QED
  BY <1>0, <1>1, <1>2, <1>4, <1>5, <1>6, <1>7, <1>8, <1>10, <1>11, <1>12, <1>13
  DEF CallStep, FaultStep

\* The budget counts up to one above the limit.
LEMMA SpendType ==
    ASSUME TypeOK, NEW r \in Callers, Spend(r)
    PROVE  budget' \in [Callers -> 0..(MaxToolCalls + 1)]
<1> DEFINE least == CHOOSE n \in Spent(r) : \A m \in Spent(r) : n <= m
<1>1. budget[r] \in 0..(MaxToolCalls + 1)
  BY DEF TypeOK
<1>2. \E n \in Spent(r) : \A m \in Spent(r) : n <= m
  <2>1. CASE ~IsTool
    BY <2>1 DEF Spent
  <2>2. CASE IsTool
    BY <1>1, <2>2, BoundsAssumption DEF Spent
  <2> QED
    BY <2>1, <2>2
<1>3. least \in Spent(r) /\ \A m \in Spent(r) : least <= m
  BY <1>2
<1>4. least \in 0..(MaxToolCalls + 1)
  <2>1. CASE ~IsTool
    BY <1>3, <2>1, BoundsAssumption DEF Spent
  <2>2. CASE IsTool
    BY <1>1, <1>3, <2>2, BoundsAssumption DEF Spent
  <2> QED
    BY <2>1, <2>2
<1> QED
  BY <1>4 DEF TypeOK, Spend

LEMMA InitType == Init => TypeOK /\ Counted
<1> SUFFICES ASSUME Init PROVE TypeOK /\ Counted
  OBVIOUS
<1>1. due \in BOOLEAN /\ up \in BOOLEAN /\ lost \in BOOLEAN /\ client \in Clients
  BY DEF Init
<1>2. breaker \in Breaker /\ Counted
  BY BoundsAssumption DEF Init, Breaker, Counted
<1>3. call \in [Callers -> Call]
  BY DEF Init, Call
<1>4. budget \in [Callers -> 0..(MaxToolCalls + 1)] /\ faults \in 0..MaxFaults
  BY BoundsAssumption DEF Init
<1> QED
  BY <1>1, <1>2, <1>3, <1>4 DEF TypeOK

LEMMA TypeStep ==
    ASSUME TypeOK, Counted, [Next]_vars
    PROVE  TypeOK' /\ Counted'
<1>0. breaker \in Breaker /\ due \in BOOLEAN /\ lost \in BOOLEAN
  BY DEF TypeOK
<1>1. ASSUME NEW r \in Callers, Start(r) PROVE TypeOK' /\ Counted'
  <2>1. budget' \in [Callers -> 0..(MaxToolCalls + 1)]
    BY <1>1, SpendType DEF Start
  <2>2. [stage |-> "service", attempt |-> 1] \in Call
    BY BoundsAssumption DEF Call
  <2>3. call' \in [Callers -> Call]
    BY <1>1, <2>2 DEF Start, TypeOK
  <2>4. breaker' \in Breaker /\ Counted' /\ due' \in BOOLEAN /\ lost' \in BOOLEAN
    BY <1>0, <1>1, BreakerStep, FlagsStep DEF Start
  <2> QED
    BY <1>1, <2>1, <2>3, <2>4 DEF Start, TypeOK
<1>2. ASSUME NEW r \in Callers, Turned(r) PROVE TypeOK' /\ Counted'
  <2>1. budget' \in [Callers -> 0..(MaxToolCalls + 1)]
    BY <1>2, SpendType DEF Turned
  <2>2. faults' \in 0..MaxFaults
    BY <1>2, BoundsAssumption DEF Turned, ArgumentsInvalid, Fault, NoFault, TypeOK
  <2> QED
    BY <1>2, <2>1, <2>2 DEF Turned, TypeOK, Counted
<1>3. ASSUME NEW r \in Callers, NextRun(r) PROVE TypeOK' /\ Counted'
  BY <1>3, BoundsAssumption DEF NextRun, TypeOK, Counted
<1>4. ASSUME NEW r \in Callers, CallStep(r) \/ FaultStep(r) PROVE TypeOK' /\ Counted'
  <2>1. faults' \in 0..MaxFaults
    BY <1>4, CallerSteps
  <2>2. CASE Waits(r)
    BY <2>1, <2>2 DEF Waits, TypeOK, Counted
  <2>3. CASE Ends(r)
    <3>1. call' \in [Callers -> Call]
      BY <2>3 DEF Ends, Return, TypeOK, Call
    <3>2. breaker' \in Breaker /\ Counted' /\ due' \in BOOLEAN /\ lost' \in BOOLEAN
      BY <1>0, <2>3, BreakerStep, FlagsStep DEF Ends
    <3> QED
      BY <2>1, <2>3, <3>1, <3>2 DEF Ends, Return, TypeOK
  <2> QED
    BY <1>4, <2>2, <2>3, CallerSteps
<1>5. CASE Elapses
  BY <1>5 DEF Elapses, TypeOK, Counted
<1>6. CASE ServiceChanges
  BY <1>6 DEF ServiceChanges, TypeOK, Counted
<1>7. CASE UNCHANGED vars
  BY <1>7 DEF vars, TypeOK, Counted
<1> QED
  BY <1>1, <1>2, <1>3, <1>4, <1>5, <1>6, <1>7 DEF Next

\* The circuit is closed exactly while fewer failures than the threshold have been
\* counted, in whatever order the results of any number of overlapping calls come in.
THEOREM BreakerCounts == Spec => []ClosedBelowThreshold
<1>1. TypeOK /\ Counted => ClosedBelowThreshold
  BY DEF Counted, ClosedBelowThreshold
<1> QED
  BY InitType, TypeStep, <1>1, PTL DEF Spec

-----------------------------------------------------------------------------
(* The probe *)

\* A probe belongs to a breaker that is used, and to somebody in flight or lost.
ProbeHeld == breaker.probe => Guarded /\ (InFlight # {} \/ lost)

LEMMA ProbeHeldStep ==
    ASSUME TypeOK, ProbeHeld, [Next]_vars
    PROVE  ProbeHeld'
<1>1. client' = client
  BY CallerSteps DEF Next, vars, Start, Turned, NextRun, Elapses, ServiceChanges, Waits, Ends, Return
<1>2. Guarded' <=> Guarded
  BY <1>1 DEF Guarded
<1>3. ASSUME NEW r \in Callers, Start(r) PROVE ProbeHeld'
  <2>1. r \in InFlight'
    BY <1>3 DEF Start, InFlight, TypeOK, None
  <2>2. breaker'.probe => Guarded
    BY <1>3 DEF Start, Allow, ProbeHeld
  <2> QED
    BY <1>2, <2>1, <2>2 DEF ProbeHeld
<1>4. ASSUME NEW r \in Callers, CallStep(r) \/ FaultStep(r) PROVE ProbeHeld'
  <2>1. CASE Waits(r)
    <3>1. r \in InFlight'
      BY <2>1 DEF Waits, InFlight, TypeOK
    <3> QED
      BY <1>2, <2>1, <3>1 DEF Waits, ProbeHeld
  <2>2. CASE Ends(r)
    BY <1>2, <2>2, ProbeStep DEF Ends, ProbeHeld, TypeOK
  <2> QED
    BY <1>4, <2>1, <2>2, CallerSteps
<1>5. CASE UNCHANGED <<breaker, call, lost>>
  BY <1>2, <1>5 DEF ProbeHeld, InFlight
<1>6. CASE Elapses \/ ServiceChanges \/ UNCHANGED vars
  BY <1>5, <1>6 DEF Elapses, ServiceChanges, vars
<1>7. CASE \E r \in Callers : Turned(r) \/ NextRun(r)
  BY <1>5, <1>7 DEF Turned, NextRun
<1> QED
  BY <1>3, <1>4, <1>6, <1>7 DEF Next

\* The probe of a half-open circuit is never left set with nobody to clear it, unless
\* a call has ended without a word to the breaker.
THEOREM ProbeIsReleased == Spec => []ProbeReleased
<1>1. Init => ProbeHeld
  BY DEF Init, ProbeHeld
<1>2. ProbeHeld => ProbeReleased
  BY DEF ProbeHeld, ProbeReleased
<1> QED
  BY InitType, TypeStep, ProbeHeldStep, <1>1, <1>2, PTL DEF Spec
=============================================================================
