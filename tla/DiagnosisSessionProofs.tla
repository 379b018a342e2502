----------------------- MODULE DiagnosisSessionProofs -----------------------
(***************************************************************************)
(* Theorems about DiagnosisSession, for every number of calls, keys,       *)
(* questions, nodes and failures.                                          *)
(***************************************************************************)
EXTENDS DiagnosisSession, TLAPS

-----------------------------------------------------------------------------
(* Types *)

LEMMA InitType == Init => TypeOK
<1> SUFFICES ASSUME Init PROVE TypeOK
  OBVIOUS
<1> USE BoundsAssumption DEF Init, Runs, DiagnosisPhase
<1>1. memory \in Memory \cup {NoMemory}
  <2>1. CASE memory = NoMemory
    BY <2>1
  <2>2. CASE memory # NoMemory
    <3>1. memory = [phase |-> "INIT", run |-> InitRun, revision |-> 1,
                    questions |-> {}, resolved |-> {}, final |-> FALSE]
      BY <2>2
    <3>2. InitRun \in Runs /\ "INIT" \in DiagnosisPhase /\ 1 \in Nat \ {0} /\ FALSE \in BOOLEAN
      OBVIOUS
    <3> QED
      BY <3>1, <3>2 DEF Memory
  <2> QED
    BY <2>1, <2>2
<1>2. state \in [Calls -> State]
  BY DEF Initial, State
<1>3. /\ ask \in [Calls -> Request]
      /\ seen \in [Calls -> Row]
      /\ held \in [Calls -> SUBSET Row]
  BY DEF Request, Row
<1> QED
  BY <1>1, <1>2, <1>3 DEF TypeOK, RunStatus

\* What a call writes to its own state has the type of the state.
LEMMA StateType ==
    ASSUME TypeOK, NEW c \in Calls
    PROVE  /\ \A rev \in Nat \ {0}, qs \in SUBSET Questions :
                 Initial(rev, qs) \in State
           /\ \A p \in DiagnosisPhase, qs \in SUBSET Questions, f \in BOOLEAN,
                 n \in 0..(MaxNodes + 1) :
                 Update(c, p, qs, f, n) => state' \in [Calls -> State]
           /\ \A f \in BOOLEAN : Payload(c, f) \in Memory
           /\ \A l : LeaveAs(c, l) => state' \in [Calls -> State] /\ pc'[c] = l
           /\ EndUpdate(c) => held' \in [Calls -> SUBSET Row]
           /\ \A p \in DiagnosisPhase, r \in Runs : UpdateSession(c, p, r) =>
                 /\ phase' \in DiagnosisPhase /\ current' \in Runs
                 /\ held' \in [Calls -> SUBSET Row]
           /\ memory.revision + 1 \in Nat \ {0}
           /\ History \in SUBSET Questions
<1> USE BoundsAssumption
<1>1. \A rev \in Nat \ {0}, qs \in SUBSET Questions : Initial(rev, qs) \in State
  BY DEF Initial, State, DiagnosisPhase
<1>2. state \in [Calls -> State] /\ state[c] \in State
  BY DEF TypeOK
<1>3. \A p \in DiagnosisPhase, qs \in SUBSET Questions, f \in BOOLEAN,
         n \in 0..(MaxNodes + 1) : Update(c, p, qs, f, n) => state' \in [Calls -> State]
  BY <1>2 DEF Update, State
<1>4. \A f \in BOOLEAN : Payload(c, f) \in Memory
  BY <1>2 DEF Payload, Memory, State, Runs
<1>5. \A l : LeaveAs(c, l) => state' \in [Calls -> State] /\ pc'[c] = l
  BY <1>1, <1>2 DEF LeaveAs, Goto, TypeOK
<1>6. /\ memory.revision + 1 \in Nat \ {0}
      /\ History \in SUBSET Questions
  BY DEF TypeOK, Memory, NoMemory, History
<1>7. EndUpdate(c) => held' \in [Calls -> SUBSET Row]
  BY DEF EndUpdate, TypeOK
<1>8. \A p \in DiagnosisPhase, r \in Runs : UpdateSession(c, p, r) =>
         /\ phase' \in DiagnosisPhase /\ current' \in Runs
         /\ held' \in [Calls -> SUBSET Row]
  BY <1>7 DEF UpdateSession, TypeOK
<1> QED
  BY <1>1, <1>3, <1>4, <1>5, <1>6, <1>7, <1>8

LEMMA TypeStep == TypeOK /\ [Next]_vars => TypeOK'
<1> SUFFICES ASSUME TypeOK, [Next]_vars PROVE TypeOK'
  OBVIOUS
<1> USE BoundsAssumption
    DEF stored, local, DiagnosisPhase, RunStatus, InFlight, Workflow, Goto
<1>1. ASSUME NEW c \in Calls, NEW r \in Requests, Enter(c, r) PROVE TypeOK'
  <2>1. [phase |-> phase, run |-> current] \in Row
    BY DEF Row, TypeOK
  <2> QED
    BY <1>1, <2>1, RequestsAssumption DEF Enter, TypeOK
<1>2. ASSUME NEW c \in Calls, Continue(c) PROVE TypeOK'
  <2> USE StateType
  <2>1. CASE Load(c)
    <3>1. ask[c].answers \cup History \in SUBSET Questions
      BY DEF TypeOK, Request
    <3>2. Initial(memory.revision + 1, ask[c].answers \cup History) \in State
      BY <3>1
    <3> QED
      BY <2>1, <3>2 DEF Load, StartFrom, TypeOK
  <2>2. CASE LoadExplain(c)
    BY <2>2 DEF LoadExplain, TypeOK
  <2>3. CASE Refuse(c) \/ CreateRefused(c)
    BY <2>3 DEF Refuse, CreateRefused, Leave, LeaveAs, TypeOK
  <2>4. CASE Create(c)
    BY <2>4 DEF Create, TypeOK
  <2>5. CASE Explained(c)
    BY <2>5 DEF Explained, Leave, LeaveAs, TypeOK
  <2>6. CASE Mark(c)
    BY <2>6 DEF Mark, Runs, TypeOK
  <2>7. CASE Node(c)
    <3>1. state[c].questions \in SUBSET Questions /\ state[c].phase \in DiagnosisPhase
      BY DEF TypeOK, State
    <3>2. state[c].left - 1 \in 0..(MaxNodes + 1)
      BY <2>7 DEF Node, TypeOK, State
    <3>3. state' \in [Calls -> State]
      BY <2>7, <3>1, <3>2 DEF Node
    <3> QED
      BY <2>7, <3>3 DEF Node, TypeOK
  <2>8. CASE NodeStops(c)
    <3>1. state[c].left - 1 \in 0..(MaxNodes + 1)
      BY <2>8 DEF NodeStops, TypeOK, State
    <3>2. state' \in [Calls -> State]
      BY <2>8, <3>1 DEF NodeStops
    <3> QED
      BY <2>8, <3>2 DEF NodeStops, TypeOK
  <2>9. CASE NodeAsks(c)
    <3>1. PICK qs \in SUBSET Questions, draft \in BOOLEAN :
             /\ Update(c, "NEED_USER_INPUT", qs, draft, 0)
             /\ result' = [result EXCEPT ![c] = @ \/ draft]
      BY <2>9 DEF NodeAsks
    <3>2. state' \in [Calls -> State]
      BY <3>1
    <3>3. result' \in [Runs -> BOOLEAN]
      BY <3>1 DEF TypeOK
    <3> QED
      BY <2>9, <3>2, <3>3 DEF NodeAsks, TypeOK
  <2>10. CASE NodeCompletes(c)
    <3>1. state[c].questions \in SUBSET Questions
      BY DEF TypeOK, State
    <3>2. state' \in [Calls -> State]
      <4>1. Update(c, "COMPLETED", state[c].questions, TRUE, 0)
        BY <2>10 DEF NodeCompletes
      <4>2. TRUE \in BOOLEAN /\ 0 \in 0..(MaxNodes + 1) /\ "COMPLETED" \in DiagnosisPhase
        OBVIOUS
      <4> HIDE DEF DiagnosisPhase
      <4> QED
        BY <3>1, <4>1, <4>2
    <3>3. result \in [Runs -> BOOLEAN] /\ result' = [result EXCEPT ![c] = TRUE]
      BY <2>10 DEF NodeCompletes, TypeOK
    <3>4. result' \in [Runs -> BOOLEAN]
      BY <3>3
    <3> QED
      BY <2>10, <3>2, <3>4 DEF NodeCompletes, TypeOK
  <2>11. CASE LogSession(c) \/ SaveSession(c)
    <3>1. c \in Runs /\ state[c].phase \in DiagnosisPhase
      BY DEF Runs, State, TypeOK
    <3> HIDE DEF DiagnosisPhase
    <3> QED
      BY <2>11, <3>1 DEF LogSession, SaveSession, TypeOK
  <2>12. CASE LogMemory(c)
    BY <2>12 DEF LogMemory, TypeOK
  <2>13. CASE FinishRun(c)
    BY <2>13 DEF FinishRun, TypeOK
  <2>14. CASE SaveMemory(c)
    <3>1. Payload(c, state[c].final) \in Memory
      BY DEF TypeOK, State
    <3> QED
      BY <2>14, <3>1 DEF SaveMemory, Leave, LeaveAs, TypeOK
  <2>15. CASE FailRun(c) \/ CancelRun(c)
    BY <2>15 DEF FailRun, CancelRun, TypeOK
  <2>16. CASE FailSession(c)
    BY <2>16 DEF FailSession, Leave, LeaveAs, Runs, TypeOK
  <2>17. CASE CancelSession(c)
    <3>1. seen[c].run \in Runs /\ seen[c].phase \in DiagnosisPhase
      BY DEF Row, TypeOK
    <3> HIDE DEF DiagnosisPhase
    <3> QED
      BY <2>17, <3>1 DEF CancelSession, Leave, LeaveAs, TypeOK
  <2>18. CASE SelectSession(c)
    <3>1. [phase |-> phase, run |-> current] \in Row
      BY DEF Row, TypeOK
    <3>2. held' \in [Calls -> SUBSET Row]
      BY <2>18, <3>1 DEF SelectSession, TypeOK
    <3> QED
      BY <2>18, <3>2 DEF SelectSession, TypeOK
  <2> QED
    BY <1>2, <2>1, <2>2, <2>3, <2>4, <2>5, <2>6, <2>7, <2>8, <2>9, <2>10, <2>11, <2>12,
       <2>13, <2>14, <2>15, <2>16, <2>17, <2>18
       DEF Continue
<1>3. ASSUME NEW c \in Calls, Raise(c) \/ Cancel(c) PROVE TypeOK'
  BY <1>3, StateType DEF Raise, Cancel, Fault, TypeOK
<1>4. ASSUME NEW c \in Calls, CancelUnguarded(c) \/ Abandon(c) PROVE TypeOK'
  <2>1. state' \in [Calls -> State] /\ held' \in [Calls -> SUBSET Row]
    BY <1>4, StateType DEF CancelUnguarded, Abandon
  <2>2. faults' \in 0..MaxFaults
    BY <1>4 DEF CancelUnguarded, Abandon, Fault, TypeOK
  <2> QED
    BY <1>4, <2>1, <2>2 DEF CancelUnguarded, Abandon, LeaveAs, TypeOK
<1>5. CASE ReviewRead \/ ReviewSelect \/ ReviewWrite
  BY <1>5 DEF ReviewRead, ReviewSelect, ReviewWrite, TypeOK
<1>6. CASE MemoryExpires
  BY <1>6 DEF MemoryExpires, Fault, TypeOK
<1>7. CASE UNCHANGED vars
  BY <1>7 DEF vars, TypeOK
<1> QED
  BY <1>1, <1>2, <1>3, <1>4, <1>5, <1>6, <1>7 DEF Next

\* The type invariant holds for every instance of the session.
THEOREM TypeCorrect == Spec => []TypeOK
BY InitType, TypeStep, PTL DEF Spec

-----------------------------------------------------------------------------
(* Whoever sees a session as COMPLETED finds the result *)

\* A call that has computed COMPLETED has a result, and one that has read it found
\* a session with a result.
SeenHasResult ==
    \A c \in Calls :
        /\ state[c].phase = "COMPLETED" => result[c]
        /\ seen[c].phase = "COMPLETED" => \E r \in Runs : result[r]

ResultInv == TypeOK /\ CompletedHasResult /\ SeenHasResult

\* No step takes a result away.
LEMMA ResultsStay ==
    ASSUME TypeOK, [Next]_vars, NEW r \in Runs, result[r]
    PROVE  result'[r]
<1>1. result \in [Runs -> BOOLEAN]
  BY DEF TypeOK
<1>2. ASSUME NEW c \in Calls, NodeAsks(c) PROVE result'[r]
  <2>1. PICK draft \in BOOLEAN : result' = [result EXCEPT ![c] = @ \/ draft]
    BY <1>2 DEF NodeAsks
  <2>2. CASE r = c
    BY <1>1, <2>1, <2>2
  <2>3. CASE r # c
    BY <1>1, <2>1, <2>3
  <2> QED
    BY <2>2, <2>3
<1>3. ASSUME NEW c \in Calls, NodeCompletes(c) PROVE result'[r]
  BY <1>1, <1>3 DEF NodeCompletes
<1>4. CASE UNCHANGED result
  BY <1>4
<1>5. CASE UNCHANGED vars
  BY <1>4, <1>5 DEF vars, stored
<1> QED
  BY <1>2, <1>3, <1>4, <1>5
     DEF Next, stored, Enter, Continue, Load, StartFrom, LoadExplain, Refuse, Create,
         CreateRefused, Explained, Mark, Node, NodeStops, LogSession, LogMemory,
         FinishRun, SaveSession, SaveMemory, FailRun, FailSession, CancelRun,
         CancelSession, SelectSession, Raise, Cancel, CancelUnguarded, Abandon, ReviewRead,
         ReviewSelect, ReviewWrite, MemoryExpires

\* Only memory_writer makes a state COMPLETED, after it has stored the result.
LEMMA StateCompletes ==
    ASSUME TypeOK, [Next]_vars, NEW d \in Calls, state'[d].phase = "COMPLETED"
    PROVE  state[d].phase = "COMPLETED" \/ result'[d]
<1> USE DEF TypeOK
<1>1. ASSUME NEW c \in Calls, Load(c) \/ \E l : LeaveAs(c, l)
      PROVE state[d].phase = "COMPLETED"
  BY <1>1 DEF Load, StartFrom, LeaveAs, Initial
<1>2. ASSUME NEW c \in Calls, Node(c) \/ NodeStops(c) \/ NodeAsks(c)
      PROVE state[d].phase = "COMPLETED"
  BY <1>2 DEF Node, NodeStops, NodeAsks, Update
<1>3. ASSUME NEW c \in Calls, NodeCompletes(c)
      PROVE state[d].phase = "COMPLETED" \/ result'[d]
  BY <1>3 DEF NodeCompletes, Update, Runs
<1>4. CASE UNCHANGED state
  BY <1>4
<1>5. CASE UNCHANGED vars
  BY <1>4, <1>5 DEF vars, local
<1> HIDE DEF TypeOK
<1> QED
  BY <1>1, <1>2, <1>3, <1>4, <1>5
     DEF Next, stored, local, Enter, Continue, LoadExplain, Refuse, Create, Leave,
         CreateRefused, Explained, Mark, LogSession, LogMemory, FinishRun,
         SaveSession, SaveMemory, FailRun, FailSession, CancelRun, CancelSession, SelectSession,
         Raise, Cancel, CancelUnguarded, Abandon, ReviewRead, ReviewSelect, ReviewWrite,
         MemoryExpires

\* A call reads the phase and the run of the session together.
LEMMA SeenTogether ==
    ASSUME TypeOK, [Next]_vars, NEW d \in Calls
    PROVE  seen'[d] = seen[d] \/ seen'[d] = [phase |-> phase, run |-> current]
<1>1. ASSUME NEW c \in Calls, NEW r \in Requests, Enter(c, r)
      PROVE seen'[d] = seen[d] \/ seen'[d] = [phase |-> phase, run |-> current]
  BY <1>1 DEF Enter, TypeOK
<1>2. CASE UNCHANGED seen
  BY <1>2
<1>3. CASE UNCHANGED vars
  BY <1>2, <1>3 DEF vars, local
<1> QED
  BY <1>1, <1>2, <1>3
     DEF Next, stored, local, Continue, Load, LoadExplain, Refuse, StartFrom,
         Create, CreateRefused, Explained, Mark, Node, NodeStops, NodeAsks,
         NodeCompletes, LogSession, LogMemory, FinishRun, SaveSession, SaveMemory,
         FailRun, FailSession, CancelRun, CancelSession, SelectSession, Raise, Cancel,
         CancelUnguarded, Abandon,
         ReviewRead, ReviewSelect, ReviewWrite, MemoryExpires

\* A call sets the session to its own phase, or back to what it has read.
LEMMA SessionCompletes ==
    ASSUME TypeOK, [Next]_vars, phase' = "COMPLETED"
    PROVE  \/ phase = "COMPLETED"
           \/ \E c \in Calls : "COMPLETED" \in {state[c].phase, seen[c].phase}
<1> DEFINE Goal == \/ phase = "COMPLETED"
                   \/ \E c \in Calls : "COMPLETED" \in {state[c].phase, seen[c].phase}
<1>1. ASSUME NEW c \in Calls, Mark(c) \/ FailSession(c) PROVE Goal
  BY <1>1 DEF Mark, FailSession, UpdateSession
<1>2. ASSUME NEW c \in Calls, LogSession(c) \/ SaveSession(c) PROVE Goal
  BY <1>2 DEF LogSession, SaveSession, UpdateSession
<1>3. ASSUME NEW c \in Calls, CancelSession(c) PROVE Goal
  BY <1>3 DEF CancelSession, UpdateSession
<1>4. CASE ReviewWrite
  BY <1>4 DEF ReviewWrite
<1>5. ASSUME phase' = phase PROVE Goal
  BY <1>5
<1>6. CASE UNCHANGED vars
  BY <1>5, <1>6 DEF vars, stored
<1> HIDE DEF Goal
<1>7. ASSUME NEW c \in Calls, Continue(c) PROVE Goal
  BY <1>1, <1>2, <1>3, <1>5, <1>7
     DEF Continue, stored, Load, LoadExplain, Refuse, StartFrom, Create, CreateRefused,
         Explained, Node, NodeStops, NodeAsks, NodeCompletes, LogMemory, FinishRun,
         SaveMemory, FailRun, CancelRun, SelectSession
<1>8. ASSUME NEW c \in Calls, Raise(c) \/ Cancel(c) \/ CancelUnguarded(c) \/ Abandon(c) PROVE Goal
  BY <1>5, <1>8 DEF Raise, Cancel, CancelUnguarded, Abandon, stored
<1>9. ASSUME NEW c \in Calls, NEW r \in Requests, Enter(c, r) PROVE Goal
  BY <1>5, <1>9 DEF Enter, stored
<1>10. CASE ReviewRead \/ ReviewSelect \/ MemoryExpires
  BY <1>5, <1>10 DEF ReviewRead, ReviewSelect, MemoryExpires, stored
<1> QED
  BY <1>4, <1>6, <1>7, <1>8, <1>9, <1>10 DEF Next, Goal

\* A call writes its own run and its own phase to memory.
LEMMA MemoryCompletes ==
    ASSUME TypeOK, [Next]_vars, memory' # NoMemory, memory'.phase = "COMPLETED"
    PROVE  \/ memory' = memory
           \/ \E c \in Calls : memory'.run = c /\ state[c].phase = "COMPLETED"
<1>1. ASSUME NEW c \in Calls, LogMemory(c) \/ SaveMemory(c)
      PROVE \E e \in Calls : memory'.run = e /\ state[e].phase = "COMPLETED"
  BY <1>1 DEF LogMemory, SaveMemory, Payload
<1>2. ~MemoryExpires
  BY DEF MemoryExpires
<1>3. CASE UNCHANGED memory
  BY <1>3
<1>4. CASE UNCHANGED vars
  BY <1>3, <1>4 DEF vars, stored
<1> QED
  BY <1>1, <1>2, <1>3, <1>4
     DEF Next, stored, Enter, Continue, Load, LoadExplain, Refuse, StartFrom,
         Create, CreateRefused, Explained, Mark, Node, NodeStops, NodeAsks,
         NodeCompletes, LogSession, FinishRun, SaveSession, FailRun, FailSession,
         CancelRun, CancelSession, SelectSession, Raise, Cancel, CancelUnguarded, Abandon,
         ReviewRead, ReviewSelect, ReviewWrite

LEMMA ResultStep == ResultInv /\ [Next]_vars => ResultInv'
<1> SUFFICES ASSUME ResultInv, [Next]_vars PROVE ResultInv'
  OBVIOUS
<1> USE DEF ResultInv
<1>1. TypeOK /\ TypeOK'
  BY TypeStep
<1>2. \A r \in Runs : result[r] => result'[r]
  BY <1>1, ResultsStay
<1>3. ASSUME NEW d \in Calls PROVE state'[d].phase = "COMPLETED" => result'[d]
  BY <1>1, <1>2, StateCompletes DEF SeenHasResult, Runs
<1>4. ASSUME \E r \in Runs : result[r] PROVE \E r \in Runs : result'[r]
  BY <1>2, <1>4
<1>5. ASSUME NEW d \in Calls, seen'[d].phase = "COMPLETED"
      PROVE  \E r \in Runs : result'[r]
  <2>1. seen[d].phase = "COMPLETED" \/ phase = "COMPLETED"
    BY <1>1, <1>5, SeenTogether
  <2> QED
    BY <1>4, <2>1 DEF CompletedHasResult, SeenHasResult
<1>6. phase' = "COMPLETED" => \E r \in Runs : result'[r]
  <2>1. \A c \in Calls : c \in Runs
    BY DEF Runs
  <2> QED
    BY <1>1, <1>4, <2>1, SessionCompletes DEF CompletedHasResult, SeenHasResult
<1>7. memory' # NoMemory => (memory'.phase = "COMPLETED" => result'[memory'.run])
  <2>1. memory # NoMemory => memory.run \in Runs
    BY <1>1 DEF TypeOK, Memory
  <2>2. \A c \in Calls : c \in Runs
    BY DEF Runs
  <2> QED
    BY <1>1, <1>2, <2>1, <2>2, MemoryCompletes DEF CompletedHasResult, SeenHasResult
<1> QED
  BY <1>1, <1>3, <1>5, <1>6, <1>7 DEF CompletedHasResult, SeenHasResult

\* Whatever calls overlap, fail or are cancelled, and whichever columns of the row
\* they write, a session that is COMPLETED has a result in MySQL, and one that is
\* COMPLETED in memory has that of the run memory names.
THEOREM CompletedResult == Spec => []CompletedHasResult
<1>1. Init => ResultInv
  BY InitType DEF Init, ResultInv, CompletedHasResult, SeenHasResult, Initial
<1>2. ResultInv => CompletedHasResult
  BY DEF ResultInv
<1> QED
  BY <1>1, <1>2, ResultStep, PTL DEF Spec

-----------------------------------------------------------------------------
(* One run per idempotency key *)

Early == {"idle", "load", "create", "explain"}

\* A call has a run from Create on.
RunFitsPc ==
    \A c \in Calls :
        /\ pc[c] \in Early => run[c] = "none"
        /\ pc[c] \in InFlight \ Early => run[c] # "none"

KeyInv == TypeOK /\ OneRunPerKey /\ RunFitsPc

LEMMA KeyStep == KeyInv /\ [Next]_vars => KeyInv'
<1> SUFFICES ASSUME KeyInv, [Next]_vars PROVE KeyInv'
  OBVIOUS
<1>1. TypeOK /\ TypeOK' /\ OneRunPerKey /\ RunFitsPc
  BY TypeStep DEF KeyInv
<1> DEFINE Goal == OneRunPerKey' /\ RunFitsPc'
<1> USE DEF Early, InFlight, Workflow, Goto
<1>2. ASSUME NEW c \in Calls, NEW r \in Requests, Enter(c, r) PROVE Goal
  <2>1. run[c] = "none" /\ run' = run
    BY <1>1, <1>2 DEF Enter, RunFitsPc, stored
  <2>2. \A d \in Calls : d # c => ask'[d] = ask[d] /\ pc'[d] = pc[d]
    BY <1>1, <1>2 DEF Enter, TypeOK
  <2>3. pc'[c] = "load"
    BY <1>1, <1>2 DEF Enter, TypeOK
  <2> QED
    BY <1>1, <2>1, <2>2, <2>3 DEF OneRunPerKey, RunFitsPc
<1>3. ASSUME NEW c \in Calls, Create(c) PROVE Goal
  <2>1. /\ ask' = ask
        /\ pc'[c] \in {"mark", "explained"}
        /\ run'[c] = "running"
        /\ \A d \in Calls : d # c => run'[d] = run[d] /\ pc'[d] = pc[d]
    BY <1>1, <1>3 DEF Create, TypeOK
  <2>2. \A d \in Calls : run[d] # "none" => ask[d].key \cap ask[c].key = {}
    BY <1>3 DEF Create, SameKey
  <2> QED
    BY <1>1, <2>1, <2>2 DEF OneRunPerKey, RunFitsPc
<1>4. ASSUME NEW c \in Calls,
             Explained(c) \/ FinishRun(c) \/ FailRun(c) \/ CancelRun(c)
      PROVE Goal
  <2>1. pc[c] \in InFlight \ Early /\ run[c] # "none"
    BY <1>1, <1>4 DEF Explained, FinishRun, FailRun, CancelRun, RunFitsPc
  <2>2. /\ ask' = ask
        /\ pc'[c] \in {"done", "saveSession", "failSession", "cancelSession"}
        /\ run'[c] # "none"
        /\ \A d \in Calls : d # c => run'[d] = run[d] /\ pc'[d] = pc[d]
    BY <1>1, <1>4 DEF Explained, FinishRun, FailRun, CancelRun, Leave, LeaveAs, TypeOK
  <2> QED
    BY <1>1, <2>1, <2>2 DEF OneRunPerKey, RunFitsPc
<1>5. ASSUME UNCHANGED <<run, ask>>, NEW c \in Calls,
             \A d \in Calls : d # c => pc'[d] = pc[d],
             \/ pc[c] \in Early /\ pc'[c] \in Early \cup {"done", "lost"}
             \/ pc[c] \in InFlight \ Early /\ pc'[c] \in (InFlight \ Early) \cup {"done", "lost"}
      PROVE Goal
  BY <1>1, <1>5 DEF OneRunPerKey, RunFitsPc
<1>6. ASSUME UNCHANGED <<run, ask, pc>> PROVE Goal
  BY <1>1, <1>6 DEF OneRunPerKey, RunFitsPc
<1> HIDE DEF Goal
<1>7. ASSUME NEW c \in Calls, Continue(c) PROVE Goal
  <2>1. CASE Load(c) \/ LoadExplain(c) \/ Refuse(c) \/ CreateRefused(c)
    BY <1>1, <1>5, <2>1
       DEF Load, StartFrom, LoadExplain, Refuse, CreateRefused, Leave, LeaveAs, stored, TypeOK
  <2>2. CASE \/ Mark(c) \/ Node(c) \/ NodeStops(c) \/ NodeAsks(c) \/ NodeCompletes(c)
             \/ LogSession(c) \/ LogMemory(c) \/ SaveSession(c)
    BY <1>1, <1>5, <2>2
       DEF Mark, Node, NodeStops, NodeAsks, NodeCompletes, LogSession, LogMemory,
           SaveSession, stored, TypeOK
  <2>3. CASE SaveMemory(c) \/ FailSession(c) \/ CancelSession(c)
    BY <1>1, <1>5, <2>3 DEF SaveMemory, FailSession, CancelSession, Leave, LeaveAs, TypeOK
  <2>4. CASE SelectSession(c)
    BY <1>6, <2>4 DEF SelectSession, stored
  <2> QED
    BY <1>3, <1>4, <1>7, <2>1, <2>2, <2>3, <2>4 DEF Continue
<1>8. ASSUME NEW c \in Calls, Raise(c) \/ Cancel(c) PROVE Goal
  BY <1>1, <1>5, <1>8 DEF Raise, Cancel, stored, TypeOK
<1>9. ASSUME NEW c \in Calls, CancelUnguarded(c) \/ Abandon(c) PROVE Goal
  BY <1>1, <1>5, <1>9 DEF CancelUnguarded, Unguarded, Abandon, LeaveAs, stored, TypeOK
<1>10. ASSUME ReviewRead \/ ReviewSelect \/ ReviewWrite \/ MemoryExpires \/ UNCHANGED vars
       PROVE  Goal
  BY <1>6, <1>10 DEF ReviewRead, ReviewSelect, ReviewWrite, MemoryExpires, vars, stored, local
<1> QED
  BY <1>1, <1>2, <1>7, <1>8, <1>9, <1>10 DEF Next, Goal, KeyInv

\* Calls that repeat a key, however they overlap, make one run: find_idempotent
\* alone does not see to it, the unique constraint does.
THEOREM KeyHasOneRun == Spec => []OneRunPerKey
<1>1. Init => KeyInv
  BY InitType DEF Init, KeyInv, OneRunPerKey, RunFitsPc, Early, InFlight, Workflow
<1>2. KeyInv => OneRunPerKey
  BY DEF KeyInv
<1> QED
  BY <1>1, <1>2, KeyStep, PTL DEF Spec

-----------------------------------------------------------------------------
(* Calls that come one after the other leave terminal sessions alone *)

Reading == {"load", "create", "explain", "explained", "mark"}

\* What holds of a call while it is the only one: until Mark the session is as
\* the call read it, from Mark on it names the run of the call.
CallFacts(c) ==
    /\ state[c].phase # "FAILED"
    /\ pc[c] \in InFlight => seen[c].phase # "FAILED" /\ phase # "FAILED"
    /\ pc[c] \in Reading => phase = seen[c].phase
    /\ pc[c] \in {"create", "mark"} => seen[c].phase # "COMPLETED"
    /\ pc[c] \in InFlight \ Reading => current = c
    /\ pc[c] \in Workflow \cup {"finish", "failRun", "cancelRun", "mark"} => run[c] = "running"
    /\ pc[c] \in {"failSession", "cancelSession"} => run[c] # "completed"
    /\ pc[c] = "saveSession" /\ run[c] = "completed" => state[c].phase = "COMPLETED"
    /\ pc[c] \notin Updating => held[c] = {}
    /\ \A row \in held[c] : row.phase = phase /\ row.run = current

OneAtATime ==
    /\ \A c, d \in Active : c = d
    /\ reviewer # "idle" => Active = {} /\ phase # "FAILED"

TurnInv == TypeOK /\ OneAtATime /\ \A c \in Calls : CallFacts(c)

\* A call in flight is alone.
LEMMA InFlightAlone ==
    ASSUME TurnInv, NEW c \in Calls, pc[c] \in InFlight
    PROVE  /\ reviewer = "idle"
           /\ \A d \in Calls : d # c => pc[d] \notin InFlight
BY DEF TurnInv, OneAtATime, Active, TypeOK

\* The row that an update of a lone call has read is the row as it is: the update
\* writes what it is to write.
LEMMA UpdateAlone ==
    ASSUME TypeOK, NEW c \in Calls, CallFacts(c), NEW p, NEW r, UpdateSession(c, p, r)
    PROVE  phase' = p /\ current' = r /\ held' = [held EXCEPT ![c] = {}]
BY DEF CallFacts, UpdateSession, EndUpdate

\* A step of a call that keeps what holds of it keeps it for all calls.
LEMMA AloneStep ==
    ASSUME TurnInv, TypeOK', NEW c \in Calls, pc[c] \in InFlight,
           reviewer' = reviewer,
           \A d \in Calls : d # c =>
               pc'[d] = pc[d] /\ state'[d] = state[d] /\ held'[d] = held[d],
           CallFacts(c)'
    PROVE  TurnInv'
<1>1. reviewer' = "idle" /\ \A d \in Calls : d # c => pc'[d] \notin InFlight
  BY InFlightAlone
<1>2. ASSUME NEW d \in Calls, d # c PROVE CallFacts(d)'
  BY <1>1, <1>2 DEF TurnInv, CallFacts, InFlight, Reading, Workflow, Updating
<1> QED
  BY <1>1, <1>2 DEF TurnInv, OneAtATime, Active

LEMMA InitTurn == Init => TurnInv
BY InitType
   DEF Init, TurnInv, OneAtATime, Active, CallFacts, Initial, InFlight, Workflow, Reading

LEMMA TurnStep == ~Overlap /\ TurnInv /\ [Next]_vars => TurnInv'
<1> SUFFICES ASSUME ~Overlap, TurnInv, [Next]_vars PROVE TurnInv'
  OBVIOUS
<1>1. TypeOK /\ TypeOK' /\ \A c \in Calls : CallFacts(c)
  BY TypeStep DEF TurnInv
<1> USE DEF InFlight, Workflow, Reading, Updating, Goto, EndUpdate
<1>2. ASSUME NEW c \in Calls, NEW r \in Requests, Enter(c, r) PROVE TurnInv'
  <2>1. /\ Active = {} /\ reviewer' = "idle" /\ phase # "FAILED"
        /\ UNCHANGED <<phase, current, run, state, held>>
    BY <1>2 DEF Enter, stored
  <2>2. /\ pc'[c] = "load" /\ seen'[c].phase = phase
        /\ \A d \in Calls : d # c => pc'[d] = pc[d]
    BY <1>1, <1>2 DEF Enter, TypeOK
  <2>3. \A d \in Calls : pc[d] \notin InFlight
    BY <2>1 DEF Active
  <2>4. CallFacts(c)'
    BY <1>1, <2>1, <2>2, <2>3 DEF CallFacts
  <2>5. ASSUME NEW d \in Calls, d # c PROVE CallFacts(d)'
    BY <1>1, <2>1, <2>2, <2>3, <2>5 DEF CallFacts
  <2>6. OneAtATime'
    BY <2>1, <2>2, <2>3 DEF OneAtATime, Active
  <2> QED
    BY <1>1, <2>4, <2>5, <2>6 DEF TurnInv
<1>3. ASSUME NEW c \in Calls, Continue(c) PROVE TurnInv'
  <2> USE DEF TypeOK, CallFacts
  <2>1. pc[c] \in InFlight
    BY <1>3 DEF Continue, Load, StartFrom, LoadExplain, Refuse, Create, CreateRefused,
                Explained, Mark, Node, NodeStops, NodeAsks, NodeCompletes, LogSession,
                LogMemory, FinishRun, SaveSession, SaveMemory, FailRun, FailSession,
                CancelRun, CancelSession, SelectSession
  <2>2. CASE Load(c)
    <3>1. CallFacts(c)'
      BY <1>1, <2>2 DEF Load, StartFrom, Initial, stored
    <3> QED
      BY <1>1, <2>1, <2>2, <3>1, AloneStep DEF Load, StartFrom
  <2>3. CASE LoadExplain(c) \/ Create(c)
    <3>1. CallFacts(c)'
      BY <1>1, <2>3 DEF LoadExplain, Create, stored
    <3> QED
      BY <1>1, <2>1, <2>3, <3>1, AloneStep DEF LoadExplain, Create
  <2>4. CASE Refuse(c) \/ CreateRefused(c) \/ Explained(c) \/ SaveMemory(c)
    <3>1. CallFacts(c)'
      BY <1>1, <2>4 DEF Refuse, CreateRefused, Explained, SaveMemory, Leave, LeaveAs, Initial
    <3> QED
      BY <1>1, <2>1, <2>4, <3>1, AloneStep
         DEF Refuse, CreateRefused, Explained, SaveMemory, Leave, LeaveAs
  <2>5. CASE Mark(c)
    <3>1. phase' = "INIT" /\ current' = c /\ held' = [held EXCEPT ![c] = {}]
      BY <1>1, <2>5, UpdateAlone DEF Mark
    <3>2. CallFacts(c)'
      BY <1>1, <2>5, <3>1 DEF Mark
    <3> QED
      BY <1>1, <2>1, <2>5, <3>1, <3>2, AloneStep DEF Mark
  <2>6. CASE Node(c) \/ NodeStops(c) \/ NodeAsks(c) \/ NodeCompletes(c)
    <3>1. /\ state'[c].phase # "FAILED"
          /\ \A d \in Calls : d # c => state'[d] = state[d]
      BY <1>1, <2>6 DEF Node, NodeStops, NodeAsks, NodeCompletes, Update
    <3>2. /\ pc[c] = "node" /\ pc' = [pc EXCEPT ![c] = "logSession"]
          /\ UNCHANGED <<phase, current, run, seen, held, reviewer>>
      BY <2>6 DEF Node, NodeStops, NodeAsks, NodeCompletes, stored
    <3>3. CallFacts(c)'
      BY <1>1, <3>1, <3>2
    <3> QED
      BY <1>1, <2>1, <3>1, <3>2, <3>3, AloneStep
  <2>7. CASE LogSession(c) \/ SaveSession(c)
    <3>1. /\ phase' = state[c].phase /\ current' = c
          /\ held' = [held EXCEPT ![c] = {}]
      BY <1>1, <2>7, UpdateAlone DEF LogSession, SaveSession
    <3>2. CallFacts(c)'
      BY <1>1, <2>7, <3>1 DEF LogSession, SaveSession
    <3> QED
      BY <1>1, <2>1, <2>7, <3>1, <3>2, AloneStep DEF LogSession, SaveSession
  <2>8. CASE LogMemory(c) \/ FinishRun(c) \/ FailRun(c) \/ CancelRun(c)
    <3>1. CallFacts(c)'
      BY <1>1, <2>8 DEF LogMemory, FinishRun, FailRun, CancelRun
    <3> QED
      BY <1>1, <2>1, <2>8, <3>1, AloneStep DEF LogMemory, FinishRun, FailRun, CancelRun
  <2>9. CASE FailSession(c) \/ CancelSession(c)
    <3>1. held' = [held EXCEPT ![c] = {}]
      BY <1>1, <2>9, UpdateAlone DEF FailSession, CancelSession
    <3>2. CallFacts(c)'
      BY <1>1, <2>9, <3>1 DEF FailSession, CancelSession, Leave, LeaveAs, Initial
    <3> QED
      BY <1>1, <2>1, <2>9, <3>1, <3>2, AloneStep DEF FailSession, CancelSession, Leave, LeaveAs
  <2>10. CASE SelectSession(c)
    <3>1. CallFacts(c)'
      BY <1>1, <2>10 DEF SelectSession, stored
    <3> QED
      BY <1>1, <2>1, <2>10, <3>1, AloneStep DEF SelectSession
  <2> QED
    BY <1>3, <2>2, <2>3, <2>4, <2>5, <2>6, <2>7, <2>8, <2>9, <2>10 DEF Continue
<1>4. ASSUME NEW c \in Calls, Raise(c) \/ Cancel(c) PROVE TurnInv'
  <2>1. CallFacts(c)'
    BY <1>1, <1>4 DEF Raise, Cancel, stored, TypeOK, CallFacts
  <2> QED
    BY <1>1, <1>4, <2>1, AloneStep DEF Raise, Cancel, TypeOK
<1>5. ASSUME NEW c \in Calls, CancelUnguarded(c) \/ Abandon(c) PROVE TurnInv'
  <2>1. CallFacts(c)'
    BY <1>1, <1>5
       DEF CancelUnguarded, Unguarded, Abandon, LeaveAs, Initial, stored, TypeOK, CallFacts
  <2> QED
    BY <1>1, <1>5, <2>1, AloneStep DEF CancelUnguarded, Unguarded, Abandon, LeaveAs, TypeOK
<1>6. CASE ReviewRead \/ ReviewSelect
  BY <1>1, <1>6 DEF ReviewRead, ReviewSelect, stored, local, TurnInv, OneAtATime, Active,
                    CallFacts
<1>7. CASE ReviewWrite
  BY <1>1, <1>7 DEF ReviewWrite, local, TurnInv, OneAtATime, Active, CallFacts
<1>8. CASE MemoryExpires \/ UNCHANGED vars
  BY <1>1, <1>8
     DEF MemoryExpires, vars, stored, local, TurnInv, OneAtATime, Active, CallFacts
<1> QED
  BY <1>2, <1>3, <1>4, <1>5, <1>6, <1>7, <1>8 DEF Next

TerminalStep ==
    /\ phase = "FAILED" => phase' = "FAILED"
    /\ phase = "COMPLETED" /\ run[current] = "completed"
           => phase' \in {"COMPLETED", "NEED_USER_INPUT"}

LEMMA TerminalKept == TurnInv /\ [Next]_vars => TerminalStep
<1> SUFFICES ASSUME TurnInv, [Next]_vars PROVE TerminalStep
  OBVIOUS
<1>1. TypeOK /\ OneAtATime /\ \A c \in Calls : CallFacts(c)
  BY DEF TurnInv
<1>2. ASSUME phase' = phase PROVE TerminalStep
  BY <1>2 DEF TerminalStep
<1>3. ASSUME NEW c \in Calls,
             \/ Mark(c) \/ LogSession(c) \/ SaveSession(c) \/ FailSession(c) \/ CancelSession(c)
      PROVE TerminalStep
  <2>1. \/ Mark(c) /\ phase' = "INIT"
        \/ (LogSession(c) \/ SaveSession(c)) /\ phase' = state[c].phase
        \/ FailSession(c) /\ phase' = "FAILED"
        \/ CancelSession(c) /\ phase' = seen[c].phase
    BY <1>1, <1>3, UpdateAlone DEF Mark, LogSession, SaveSession, FailSession, CancelSession
  <2> QED
    BY <1>1, <2>1
       DEF Mark, LogSession, SaveSession, FailSession, CancelSession, CallFacts,
           TerminalStep, InFlight, Workflow, Reading
<1>4. ASSUME ReviewWrite PROVE TerminalStep
  BY <1>1, <1>4 DEF ReviewWrite, OneAtATime, TerminalStep
<1>5. ASSUME NEW c \in Calls, Continue(c) PROVE TerminalStep
  BY <1>2, <1>3, <1>5
     DEF Continue, stored, Load, LoadExplain, Refuse, StartFrom, Create, CreateRefused,
         Explained, Node, NodeStops, NodeAsks, NodeCompletes, LogMemory, FinishRun,
         SaveMemory, FailRun, CancelRun, SelectSession
<1>6. ASSUME NEW c \in Calls, Raise(c) \/ Cancel(c) \/ CancelUnguarded(c) \/ Abandon(c)
      PROVE TerminalStep
  BY <1>2, <1>6 DEF Raise, Cancel, CancelUnguarded, Abandon, stored
<1>7. ASSUME NEW c \in Calls, NEW r \in Requests, Enter(c, r) PROVE TerminalStep
  BY <1>2, <1>7 DEF Enter, stored
<1>8. ASSUME ReviewRead \/ ReviewSelect \/ MemoryExpires \/ UNCHANGED vars PROVE TerminalStep
  BY <1>2, <1>8 DEF ReviewRead, ReviewSelect, MemoryExpires, vars, stored
<1> QED
  BY <1>4, <1>5, <1>6, <1>7, <1>8 DEF Next

\* If the calls on a session come one after the other, a FAILED session stays
\* FAILED and a COMPLETED one is reopened by reviews only, for every number of
\* calls and whatever fails, is cancelled or expires.
THEOREM TerminalStays == ASSUME ~Overlap PROVE Spec => TerminalIsFinal
<1>1. Init => TurnInv
  BY InitTurn
<1>2. TurnInv /\ [Next]_vars => TurnInv'
  BY TurnStep
<1>3. TurnInv /\ [Next]_vars => [TerminalStep]_vars
  BY TerminalKept
<1> QED
  BY <1>1, <1>2, <1>3, PTL DEF Spec, TerminalIsFinal, TerminalStep
-----------------------------------------------------------------------------
(* Calls that come one after the other build on the memory of each other *)

\* From Load to its last write a call has resolved questions that it is going to
\* write to memory.
Writing == {"create", "mark", "finish", "saveSession", "saveMemory"} \cup Workflow

CallStep(c) == Continue(c) \/ Raise(c) \/ Cancel(c) \/ CancelUnguarded(c) \/ Abandon(c)

\* A step of a call is about that call: another one keeps all it has.
LEMMA OtherCalls ==
    ASSUME TypeOK, NEW c \in Calls, CallStep(c), NEW d \in Calls, d # c
    PROVE  /\ pc'[d] = pc[d] /\ state'[d] = state[d] /\ run'[d] = run[d]
           /\ ask'[d] = ask[d] /\ seen'[d] = seen[d]
<1>1. ask' = ask /\ seen' = seen
  BY DEF CallStep, Continue, Load, StartFrom, LoadExplain, Refuse, Create, CreateRefused,
         Explained, Mark, Node, NodeStops, NodeAsks, NodeCompletes, LogSession, LogMemory,
         FinishRun, SaveSession, SaveMemory, FailRun, FailSession, CancelRun, CancelSession,
         SelectSession, Raise, Cancel, CancelUnguarded, Abandon
<1>2. pc'[d] = pc[d]
  BY DEF CallStep, Continue, Load, StartFrom, LoadExplain, Refuse, Create, CreateRefused,
         Explained, Mark, Node, NodeStops, NodeAsks, NodeCompletes, LogSession, LogMemory,
         FinishRun, SaveSession, SaveMemory, FailRun, FailSession, CancelRun, CancelSession,
         SelectSession, Raise, Cancel, CancelUnguarded, Abandon, Goto, Leave, LeaveAs, TypeOK
<1>3. state'[d] = state[d]
  BY DEF CallStep, Continue, Load, StartFrom, LoadExplain, Refuse, Create, CreateRefused,
         Explained, Mark, Node, NodeStops, NodeAsks, NodeCompletes, LogSession, LogMemory,
         FinishRun, SaveSession, SaveMemory, FailRun, FailSession, CancelRun, CancelSession,
         SelectSession, Raise, Cancel, CancelUnguarded, Abandon, Update, Leave, LeaveAs, TypeOK
<1>4. run'[d] = run[d]
  BY DEF CallStep, Continue, Load, StartFrom, LoadExplain, Refuse, Create, CreateRefused,
         Explained, Mark, Node, NodeStops, NodeAsks, NodeCompletes, LogSession, LogMemory,
         FinishRun, SaveSession, SaveMemory, FailRun, FailSession, CancelRun, CancelSession,
         SelectSession, Raise, Cancel, CancelUnguarded, Abandon, stored, TypeOK
<1> QED
  BY <1>1, <1>2, <1>3, <1>4

\* What a step does to memory and to what the call is going to write there.
LEMMA CallWrites ==
    ASSUME TypeOK, NEW c \in Calls, CallStep(c)
    PROVE  /\ pc[c] \in InFlight
           /\ ask' = ask /\ seen' = seen
           /\ \/ memory' = memory
              \/ /\ pc[c] \in {"logMemory", "saveMemory"}
                 /\ \E f \in BOOLEAN : memory' = Payload(c, f)
           /\ \/ pc'[c] \notin Writing
              \/ Load(c)
              \/ pc[c] \in Writing /\ state'[c].resolved = state[c].resolved
<1> USE DEF InFlight, Workflow, Writing, Goto
<1>1. ASSUME \/ LoadExplain(c) \/ Refuse(c) \/ CreateRefused(c) \/ Explained(c)
             \/ FailRun(c) \/ FailSession(c) \/ CancelRun(c) \/ CancelSession(c)
             \/ Raise(c) \/ Cancel(c) \/ CancelUnguarded(c) \/ Abandon(c)
      PROVE  /\ pc[c] \in InFlight /\ pc'[c] \notin Writing
             /\ UNCHANGED <<ask, seen, memory>>
  BY <1>1 DEF LoadExplain, Refuse, CreateRefused, Explained, FailRun, FailSession, CancelRun,
              CancelSession, Raise, Cancel, CancelUnguarded, Unguarded, Abandon, Leave, LeaveAs,
              stored, TypeOK
<1>2. ASSUME Load(c) PROVE pc[c] \in InFlight /\ UNCHANGED <<ask, seen, memory>>
  BY <1>2 DEF Load, StartFrom, stored
<1>3. ASSUME \/ Create(c) \/ Mark(c) \/ LogSession(c) \/ FinishRun(c) \/ SaveSession(c)
             \/ SelectSession(c)
      PROVE  /\ pc[c] \in InFlight
             /\ UNCHANGED <<ask, seen, memory, state>>
             /\ pc'[c] \in Writing => pc[c] \in Writing
  BY <1>3 DEF Create, Mark, LogSession, FinishRun, SaveSession, SelectSession, Updating,
              stored, TypeOK
<1>4. ASSUME Node(c) \/ NodeStops(c) \/ NodeAsks(c) \/ NodeCompletes(c)
      PROVE  /\ pc[c] = "node"
             /\ UNCHANGED <<ask, seen, memory>>
             /\ state'[c].resolved = state[c].resolved
  BY <1>4 DEF Node, NodeStops, NodeAsks, NodeCompletes, Update, stored, TypeOK
<1>5. ASSUME LogMemory(c)
      PROVE  /\ pc[c] = "logMemory"
             /\ UNCHANGED <<ask, seen, state>>
             /\ memory' = Payload(c, FALSE)
  BY <1>5 DEF LogMemory
<1>6. ASSUME SaveMemory(c)
      PROVE  /\ pc[c] = "saveMemory"
             /\ pc'[c] \notin Writing
             /\ UNCHANGED <<ask, seen>>
             /\ memory' = Payload(c, state[c].final)
             /\ state[c].final \in BOOLEAN
  BY <1>6 DEF SaveMemory, Leave, LeaveAs, TypeOK, State
<1> QED
  BY <1>1, <1>2, <1>3, <1>4, <1>5, <1>6 DEF CallStep, Continue

-----------------------------------------------------------------------------
(* The answers of the user stay *)

\* A run that took answers and ended well.
Answered(c) == run[c] \in {"completed", "waiting_input"} /\ seen[c].phase # "COMPLETED"

\* What a call is going to write has its own answers and those of every run before
\* it; when its workflow has returned, memory has them too.
AnswerFacts(c) ==
    /\ pc[c] = "idle" => run[c] = "none"
    /\ pc[c] \in {"explain", "explained"} => seen[c].phase = "COMPLETED"
    /\ pc[c] \in Writing =>
          /\ ask[c].answers \subseteq state[c].resolved
          /\ \A d \in Calls : Answered(d) => ask[d].answers \subseteq state[c].resolved
    /\ pc[c] \in {"finish", "saveSession", "saveMemory"} =>
          memory # NoMemory /\ state[c].resolved \subseteq memory.resolved

AnswersInv ==
    /\ \A c \in Calls : Answered(c) => memory # NoMemory /\ ask[c].answers \subseteq memory.resolved
    /\ \A c \in Calls : AnswerFacts(c)

\* What a run has written to memory is there.
LEMMA PayloadResolved ==
    ASSUME NEW c \in Calls, NEW f
    PROVE  Payload(c, f) # NoMemory /\ Payload(c, f).resolved = state[c].resolved
<1>1. Payload(c, f).revision = state[c].revision /\ Payload(c, f).resolved = state[c].resolved
  BY DEF Payload
<1>2. Payload(c, f) # NoMemory
  <2>1. "phase" \in DOMAIN Payload(c, f)
    BY DEF Payload
  <2>2. "phase" \notin DOMAIN NoMemory
    BY DEF NoMemory
  <2> QED
    BY <2>1, <2>2
<1> QED
  BY <1>1, <1>2

\* Memory of a run that ended before this call is what the call started from.
LEMMA LoadTakesAnswers ==
    ASSUME TypeOK, AnswersInv, NEW c \in Calls, Load(c)
    PROVE  /\ ask[c].answers \subseteq state'[c].resolved
           /\ \A d \in Calls : Answered(d) => ask[d].answers \subseteq state'[c].resolved
<1>1. state'[c].resolved = ask[c].answers \cup History
  BY DEF Load, StartFrom, Initial, TypeOK
<1>2. \A d \in Calls : Answered(d) => ask[d].answers \subseteq History
  BY DEF AnswersInv, History
<1> QED
  BY <1>1, <1>2

\* Only FinishRun adds a run that took answers and ended well.
LEMMA AnsweredBefore ==
    ASSUME TypeOK, AnswersInv, NEW c \in Calls, CallStep(c)
    PROVE  /\ \A d \in Calls : d # c => (Answered(d)' <=> Answered(d))
           /\ Answered(c)' => Answered(c) \/ pc[c] = "finish"
<1>1. \A d \in Calls : d # c => (Answered(d)' <=> Answered(d))
  BY OtherCalls DEF Answered
<1>2. seen' = seen
  BY CallWrites
<1>3. ASSUME pc[c] # "finish", seen[c].phase # "COMPLETED"
      PROVE  run'[c] \in {"completed", "waiting_input"} => run'[c] = run[c]
  <2>1. ~Explained(c) /\ ~FinishRun(c)
    BY <1>3 DEF AnswersInv, AnswerFacts, Explained, FinishRun
  <2> QED
    BY <2>1 DEF CallStep, Continue, Load, StartFrom, LoadExplain, Refuse, Create, CreateRefused,
         Mark, Node, NodeStops, NodeAsks, NodeCompletes, LogSession, LogMemory,
         SaveSession, SaveMemory, FailRun, FailSession, CancelRun, CancelSession, SelectSession,
         Raise, Cancel, CancelUnguarded, Abandon, stored, TypeOK
<1> QED
  BY <1>1, <1>2, <1>3 DEF Answered

LEMMA CallKeepsAnswers ==
    ASSUME TurnInv, AnswersInv, NEW c \in Calls, CallStep(c)
    PROVE  AnswersInv'
<1>1. TypeOK
  BY DEF TurnInv
<1>2. /\ pc[c] \in InFlight /\ ask' = ask /\ seen' = seen
      /\ AnswerFacts(c)
  BY <1>1, CallWrites DEF AnswersInv
<1>3. ASSUME pc'[c] \in Writing
      PROVE  /\ ask[c].answers \subseteq state'[c].resolved
             /\ \A d \in Calls : Answered(d) => ask[d].answers \subseteq state'[c].resolved
  <2>1. CASE Load(c)
    BY <1>1, <2>1, LoadTakesAnswers
  <2>2. CASE ~Load(c)
    BY <1>1, <1>2, <1>3, <2>2, CallWrites DEF AnswerFacts
  <2> QED
    BY <2>1, <2>2
<1>4. \/ memory' = memory
      \/ /\ pc[c] \in {"logMemory", "saveMemory"}
         /\ memory' # NoMemory
         /\ memory'.resolved = state[c].resolved
  BY <1>1, CallWrites, PayloadResolved
<1>5. ASSUME NEW d \in Calls, Answered(d)'
      PROVE  memory' # NoMemory /\ ask[d].answers \subseteq memory'.resolved
  <2>1. CASE Answered(d)
    BY <1>2, <1>4, <2>1 DEF AnswersInv, AnswerFacts, Writing, Workflow
  <2>2. CASE ~Answered(d)
    <3>1. d = c /\ pc[c] = "finish"
      BY <1>1, <1>5, <2>2, AnsweredBefore
    <3> QED
      BY <1>2, <1>4, <3>1 DEF AnswerFacts, Writing
  <2> QED
    BY <2>1, <2>2
<1>6. AnswerFacts(c)'
  <2>1. pc'[c] # "idle"
    BY <1>1 DEF CallStep, Continue, Load, StartFrom, LoadExplain, Refuse, Create, CreateRefused,
         Explained, Mark, Node, NodeStops, NodeAsks, NodeCompletes, LogSession, LogMemory,
         FinishRun, SaveSession, SaveMemory, FailRun, FailSession, CancelRun, CancelSession,
         SelectSession, Raise, Cancel, CancelUnguarded, Abandon, Goto, Leave, LeaveAs,
         Updating, TypeOK
  <2>2. pc'[c] \in {"explain", "explained"} => seen[c].phase = "COMPLETED"
    BY <1>1, <1>2
       DEF CallStep, Continue, Load, StartFrom, LoadExplain, Refuse, Create, CreateRefused,
         Explained, Mark, Node, NodeStops, NodeAsks, NodeCompletes, LogSession, LogMemory,
         FinishRun, SaveSession, SaveMemory, FailRun, FailSession, CancelRun, CancelSession,
         SelectSession, Raise, Cancel, CancelUnguarded, Abandon, Goto, Leave, LeaveAs, TypeOK,
         AnswerFacts
  <2>3. ASSUME pc'[c] \in Writing, NEW d \in Calls, Answered(d)'
        PROVE  ask[d].answers \subseteq state'[c].resolved
    <3>1. CASE Answered(d)
      BY <1>3, <2>3, <3>1
    <3>2. CASE ~Answered(d)
      BY <1>1, <1>3, <2>3, <3>2, AnsweredBefore
    <3> QED
      BY <3>1, <3>2
  <2>4. ASSUME pc'[c] \in {"finish", "saveSession", "saveMemory"}
        PROVE  memory' # NoMemory /\ state'[c].resolved \subseteq memory'.resolved
    <3>1. LogMemory(c) \/ FinishRun(c) \/ SaveSession(c) \/ SelectSession(c)
      BY <1>1, <2>4
         DEF CallStep, Continue, Load, StartFrom, LoadExplain, Refuse, Create, CreateRefused,
           Explained, Mark, Node, NodeStops, NodeAsks, NodeCompletes, LogSession,
           SaveMemory, FailRun, FailSession, CancelRun, CancelSession,
           Raise, Cancel, CancelUnguarded, Abandon, Goto, Leave, LeaveAs, TypeOK
    <3>2. state' = state
      BY <3>1 DEF LogMemory, FinishRun, SaveSession, SelectSession
    <3>3. CASE LogMemory(c)
      BY <3>2, <3>3, PayloadResolved DEF LogMemory
    <3>4. CASE FinishRun(c) \/ SaveSession(c) \/ SelectSession(c)
      BY <1>2, <2>4, <3>2, <3>4 DEF FinishRun, SaveSession, SelectSession, stored, AnswerFacts
    <3> QED
      BY <3>1, <3>3, <3>4
  <2> QED
    BY <1>2, <1>3, <2>1, <2>2, <2>3, <2>4 DEF AnswerFacts
<1>7. ASSUME NEW d \in Calls, d # c PROVE AnswerFacts(d)'
  <2>1. /\ pc'[d] = pc[d] /\ run'[d] = run[d] /\ seen'[d] = seen[d]
        /\ pc[d] \notin InFlight
        /\ AnswerFacts(d)
    BY <1>1, <1>2, <1>7, OtherCalls, InFlightAlone DEF AnswersInv
  <2> QED
    BY <2>1 DEF AnswerFacts, Writing, InFlight, Workflow
<1> QED
  BY <1>2, <1>5, <1>6, <1>7 DEF AnswersInv

LEMMA AnswersStep ==
    ASSUME TurnInv, [Next]_vars, AnswersInv, "expire" \notin FaultKinds
    PROVE  AnswersInv'
<1>1. TypeOK
  BY DEF TurnInv
<1>2. ASSUME NEW c \in Calls, NEW r \in Requests, Enter(c, r) PROVE AnswersInv'
  <2>1. /\ UNCHANGED <<memory, state, run>>
        /\ pc[c] = "idle" /\ pc'[c] = "load" /\ run[c] = "none"
        /\ \A d \in Calls : d # c => pc'[d] = pc[d] /\ ask'[d] = ask[d] /\ seen'[d] = seen[d]
    BY <1>1, <1>2 DEF Enter, Goto, stored, TypeOK, AnswersInv, AnswerFacts
  <2>2. \A d \in Calls : Answered(d)' <=> Answered(d)
    BY <2>1 DEF Answered
  <2>3. ~Answered(c)
    BY <2>1 DEF Answered
  <2>4. AnswerFacts(c)'
    BY <2>1 DEF AnswerFacts, Writing, Workflow
  <2>5. ASSUME NEW d \in Calls, d # c PROVE AnswerFacts(d)'
    BY <2>1, <2>2, <2>3, <2>5 DEF AnswersInv, AnswerFacts
  <2> QED
    BY <2>1, <2>2, <2>3, <2>4, <2>5 DEF AnswersInv
<1>3. CASE ReviewRead \/ ReviewSelect \/ ReviewWrite \/ UNCHANGED vars
  BY <1>3 DEF ReviewRead, ReviewSelect, ReviewWrite, vars, stored, local, AnswersInv,
              AnswerFacts, Answered
<1>4. ~MemoryExpires
  BY DEF MemoryExpires, Fault
<1> QED
  BY <1>2, <1>3, <1>4, CallKeepsAnswers DEF Next, CallStep

\* If the calls on a session come one after the other and its memory does not
\* expire, what the user answered in a run that ended well is in memory through
\* every later run, those that raise, are cancelled or die included.
THEOREM AnswersAreKept ==
    ASSUME ~Overlap, "expire" \notin FaultKinds
    PROVE  Spec => []AnswersKept
<1>1. Init => AnswersInv
  BY DEF Init, AnswersInv, AnswerFacts, Answered, Writing, Workflow
<1>2. TurnInv /\ [Next]_vars => TurnInv'
  BY TurnStep
<1>3. TurnInv /\ [Next]_vars /\ AnswersInv => AnswersInv'
  BY AnswersStep
<1>4. AnswersInv => AnswersKept
  BY DEF AnswersInv, AnswersKept, Answered
<1> QED
  BY <1>1, <1>2, <1>3, <1>4, InitTurn, PTL DEF Spec
=============================================================================
