-------------------------- MODULE DiagnosisSession --------------------------
(***************************************************************************)
(* One diagnosis session and the calls of DiagnosisExecutionService that   *)
(* work on it: the session row and the runs in MySQL, the session memory   *)
(* in Redis, and what each call read before it began to write.  Every      *)
(* write is an await of its own and nothing holds a lock over two of them. *)
(* A call of a repository is one transaction and one step, except for the  *)
(* update of the session row, which reads the row without a lock and then  *)
(* writes the columns in which it differs from what it read: two steps.    *)
(* A call can be cancelled at any await (the client of the stream          *)
(* disconnects); only what the except branch for it does is shielded.      *)
(*                                                                         *)
(* The workflow is a number of nodes, each followed by log_step; the last  *)
(* one asks the user (clarification_generator) or completes the session    *)
(* (memory_writer).  Calls that are refused at once (unknown or FAILED     *)
(* session, a key that has a run, a stale expected_memory_revision) change *)
(* nothing and are left out.                                               *)
(***************************************************************************)
EXTENDS Integers

CONSTANTS
    Calls,       \* diagnose calls; the run a call creates has its name
    InitRun,     \* the run that create_session made
    Keys,        \* idempotency keys
    Questions,   \* ids of clarification questions, which runs use again
    Requests,    \* the requests of this instance
    Overlap,     \* whether calls overlap or come one after the other
    MaxNodes,    \* bound: nodes a workflow may run before its last one
    FaultKinds,  \* the failures of this instance
    MaxFaults    \* bound: how many failures happen

ASSUME RunsAssumption == InitRun \notin Calls
ASSUME OverlapAssumption == Overlap \in BOOLEAN
ASSUME BoundsAssumption == MaxNodes \in Nat /\ MaxFaults \in Nat

VARIABLES
    phase,      \* DiagnosisSessionModel.phase
    current,    \* DiagnosisSessionModel.run_id
    memory,     \* the SessionMemoryPayload in Redis
    run,        \* DiagnosisRunModel.status per call, "none" while there is no row
    result,     \* which runs have a DiagnosisResultModel
    pc,         \* where each call stands
    ask,        \* the request of each call
    seen,       \* the session row each call read at its start
    state,      \* the DiagnosisState of each call's workflow
    held,       \* the session row that an update has read, {} if none is open
    reviewer,   \* where a review stands
    faults      \* failures so far

stored == <<phase, current, memory, run, result>>
local == <<pc, ask, seen, state, held>>
vars == <<stored, local, reviewer, faults>>

-----------------------------------------------------------------------------
(* Types *)

Runs == Calls \cup {InitRun}

\* WORKING stands for PLAN_READY, DATA_FETCHING, EVIDENCE_READY, DRAFT_READY
\* and REVIEWING, which no condition tells apart.
DiagnosisPhase == {"INIT", "WORKING", "NEED_USER_INPUT", "COMPLETED", "FAILED"}

RunStatus == {"none", "running", "completed", "waiting_input", "failed", "cancelled"}

Memory ==
    [phase : DiagnosisPhase, run : Runs, revision : Nat \ {0},
     questions : SUBSET Questions, resolved : SUBSET Questions, final : BOOLEAN]

NoMemory == [revision |-> 0]

\* key is {} or a single key; answers names the questions answered.
Request == [key : SUBSET Keys, answers : SUBSET Questions]

ASSUME RequestsAssumption == Requests \subseteq Request

State ==
    [phase : DiagnosisPhase, revision : Nat \ {0}, questions : SUBSET Questions,
     resolved : SUBSET Questions, final : BOOLEAN, left : 0..(MaxNodes + 1)]

(* left is how many nodes the workflow may still run; 0 after its last.    *)
(*                                                                         *)
(* Where a call stands:                                                    *)
(*   load                  session row read, memory not yet                *)
(*   create, mark          about to insert the run, to update the session  *)
(*   explain, explained    the same for _explain_previous                  *)
(*   node                  a node of the workflow is running               *)
(*   logSession, logMemory the two writes of log_step                      *)
(*   finish, saveSession, saveMemory      the workflow has returned        *)
(*   failRun, failSession                 it has raised                    *)
(*   cancelRun, cancelSession             it was cancelled                 *)
(* and, when the call is over, done or, if it was cut off, lost.           *)
Workflow == {"node", "logSession", "logMemory"}

Row == [phase : DiagnosisPhase, run : Runs]

\* In the middle of sessions.update, or about to begin it.
Updating == {"mark", "logSession", "saveSession", "failSession", "cancelSession"}

InFlight ==
    {"load", "create", "mark", "explain", "explained", "finish", "saveSession",
     "saveMemory", "failRun", "failSession", "cancelRun", "cancelSession"} \cup Workflow

Active == {c \in Calls : pc[c] \in InFlight}

Fault(kind) ==
    /\ kind \in FaultKinds
    /\ faults < MaxFaults
    /\ faults' = faults + 1

\* The DiagnosisState a workflow starts from.
Initial(rev, answered) ==
    [phase |-> "INIT", revision |-> rev, questions |-> {}, resolved |-> answered,
     final |-> FALSE, left |-> MaxNodes + 1]

\* create_session has returned; its last write, to Redis, may have been lost.
Init ==
    /\ phase = "INIT"
    /\ current = InitRun
    /\ memory \in {NoMemory,
                   [phase |-> "INIT", run |-> InitRun, revision |-> 1,
                    questions |-> {}, resolved |-> {}, final |-> FALSE]}
    /\ run = [c \in Calls |-> "none"]
    /\ result = [r \in Runs |-> FALSE]
    /\ pc = [c \in Calls |-> "idle"]
    /\ ask = [c \in Calls |-> [key |-> {}, answers |-> {}]]
    /\ seen = [c \in Calls |-> [phase |-> "INIT", run |-> InitRun]]
    /\ state = [c \in Calls |-> Initial(1, {})]
    /\ held = [c \in Calls |-> {}]
    /\ reviewer = "idle"
    /\ faults = 0

-----------------------------------------------------------------------------
(* diagnose, up to the start of the workflow *)

Goto(c, label) == pc' = [pc EXCEPT ![c] = label]

\* The transaction of an update is committed or, if the call is cut off, rolled back.
EndUpdate(c) == held' = [held EXCEPT ![c] = {}]

\* The call is over: what it had in its variables is gone.
LeaveAs(c, label) ==
    /\ Goto(c, label)
    /\ state' = [state EXCEPT ![c] = Initial(1, {})]

\* The call returns or raises.
Leave(c) == LeaveAs(c, "done")

\* The runs that carry the key of call c: find_idempotent, and the unique
\* constraint on (session_id, idempotency_key).
SameKey(c) == {d \in Calls : run[d] # "none" /\ ask[d].key \cap ask[c].key # {}}

\* Mutant: a FAILED session takes calls.
EnterAnyPhase(c, r) ==
    /\ pc[c] = "idle"
    /\ Overlap \/ (Active = {} /\ reviewer = "idle")
    /\ \A d \in Calls : run[d] # "none" => ask[d].key \cap r.key = {}
    /\ ask' = [ask EXCEPT ![c] = r]
    /\ seen' = [seen EXCEPT ![c] = [phase |-> phase, run |-> current]]
    /\ Goto(c, "load")
    /\ UNCHANGED <<stored, state, held, reviewer, faults>>

\* sessions.get and find_idempotent.
Enter(c, r) ==
    /\ pc[c] = "idle"
    /\ Overlap \/ (Active = {} /\ reviewer = "idle")
    /\ \A d \in Calls : run[d] # "none" => ask[d].key \cap r.key = {}
    /\ phase # "FAILED"
    /\ ask' = [ask EXCEPT ![c] = r]
    /\ seen' = [seen EXCEPT ![c] = [phase |-> phase, run |-> current]]
    /\ Goto(c, "load")
    /\ UNCHANGED <<stored, state, held, reviewer, faults>>

\* Answers are accepted for questions that are asked and not yet resolved.
Acceptable(c) ==
    \/ ask[c].answers = {}
    \/ /\ memory # NoMemory
       /\ ask[c].answers \subseteq memory.questions \ memory.resolved

\* user_feedback_history of the memory.
History == IF memory = NoMemory THEN {} ELSE memory.resolved

StartFrom(c, rev, answered) ==
    /\ pc[c] = "load"
    /\ seen[c].phase # "COMPLETED"
    /\ Acceptable(c)
    /\ state' = [state EXCEPT ![c] = Initial(rev, answered)]
    /\ Goto(c, "create")
    /\ UNCHANGED <<stored, ask, seen, held, reviewer, faults>>

\* Mutant: the answers of earlier runs are dropped.
LoadForgets(c) == StartFrom(c, memory.revision + 1, ask[c].answers)

\* memory.get; the workflow starts from what memory had, one revision later.
Load(c) == StartFrom(c, memory.revision + 1, ask[c].answers \cup History)

\* There is a result to explain, in memory or in MySQL.
Explainable ==
    \/ memory # NoMemory /\ memory.final
    \/ \E r \in Runs : result[r]

\* A COMPLETED session only takes explain_previous_result.
LoadExplain(c) ==
    /\ pc[c] = "load"
    /\ seen[c].phase = "COMPLETED"
    /\ Explainable
    /\ Goto(c, "explain")
    /\ UNCHANGED <<stored, ask, seen, state, held, reviewer, faults>>

\* The session is COMPLETED and the message another one, or an answer is to no
\* open question.
Refuse(c) ==
    /\ pc[c] = "load"
    /\ seen[c].phase = "COMPLETED" \/ ~Acceptable(c)
    /\ Leave(c)
    /\ UNCHANGED <<stored, ask, seen, held, reviewer, faults>>

\* Mutant: the table has no unique constraint on the key.
CreateAnyKey(c) ==
    /\ pc[c] \in {"create", "explain"}
    /\ run' = [run EXCEPT ![c] = "running"]
    /\ Goto(c, IF pc[c] = "create" THEN "mark" ELSE "explained")
    /\ UNCHANGED <<phase, current, memory, result, ask, seen, state, held, reviewer, faults>>

\* runs.create, with the user's message on the timeline.
Create(c) ==
    /\ pc[c] \in {"create", "explain"}
    /\ SameKey(c) = {}
    /\ run' = [run EXCEPT ![c] = "running"]
    /\ Goto(c, IF pc[c] = "create" THEN "mark" ELSE "explained")
    /\ UNCHANGED <<phase, current, memory, result, ask, seen, state, held, reviewer, faults>>

\* Another call with the same key was faster: the INSERT fails.
CreateRefused(c) ==
    /\ pc[c] \in {"create", "explain"}
    /\ SameKey(c) # {}
    /\ Leave(c)
    /\ UNCHANGED <<stored, ask, seen, held, reviewer, faults>>

Explained(c) ==
    /\ pc[c] = "explained"
    /\ run' = [run EXCEPT ![c] = "completed"]
    /\ Leave(c)
    /\ UNCHANGED <<phase, current, memory, result, ask, seen, held, reviewer, faults>>

\* sessions.update reads the row without a lock ...
SelectSession(c) ==
    /\ pc[c] \in Updating
    /\ held[c] = {}
    /\ held' = [held EXCEPT ![c] = {[phase |-> phase, run |-> current]}]
    /\ UNCHANGED <<stored, pc, ask, seen, state, reviewer, faults>>

\* ... and writes the columns in which the new values differ from what it read.
UpdateSession(c, p, r) ==
    /\ \E old \in held[c] :
          /\ phase' = IF old.phase = p THEN phase ELSE p
          /\ current' = IF old.run = r THEN current ELSE r
    /\ EndUpdate(c)

Mark(c) ==
    /\ pc[c] = "mark"
    /\ UpdateSession(c, "INIT", c)
    /\ Goto(c, "node")
    /\ UNCHANGED <<memory, run, result, ask, seen, state, reviewer, faults>>

-----------------------------------------------------------------------------
(* The workflow *)

Update(c, p, qs, final, left) ==
    state' = [state EXCEPT ![c] =
        [phase |-> p, revision |-> state[c].revision, questions |-> qs,
         resolved |-> state[c].resolved, final |-> final, left |-> left]]

\* A node that is not the last one.
Node(c) ==
    /\ pc[c] = "node"
    /\ state[c].left > 1
    /\ \E p \in {state[c].phase, "WORKING"} :
          Update(c, p, state[c].questions, FALSE, state[c].left - 1)
    /\ Goto(c, "logSession")
    /\ UNCHANGED <<stored, ask, seen, held, reviewer, faults>>

\* entity_parser, plan_builder or clarification_applier cannot go on.
NodeStops(c) ==
    /\ pc[c] = "node"
    /\ state[c].left > 1
    /\ \E qs \in (SUBSET Questions) \ {{}} :
          Update(c, "NEED_USER_INPUT", qs, FALSE, state[c].left - 1)
    /\ Goto(c, "logSession")
    /\ UNCHANGED <<stored, ask, seen, held, reviewer, faults>>

\* clarification_generator: the questions there are, or one per gap; a draft
\* that the guardrails stopped is stored as a result.
NodeAsks(c) ==
    /\ pc[c] = "node"
    /\ \E qs \in (SUBSET Questions) \ {{}}, draft \in BOOLEAN :
          /\ state[c].questions \in {{}, qs}
          /\ Update(c, "NEED_USER_INPUT", qs, draft, 0)
          /\ result' = [result EXCEPT ![c] = @ \/ draft]
    /\ Goto(c, "logSession")
    /\ UNCHANGED <<phase, current, memory, run, ask, seen, held, reviewer, faults>>

\* Mutant: the result is only kept in the state.
NodeCompletesUnsaved(c) ==
    /\ pc[c] = "node"
    /\ state[c].phase = "WORKING"
    /\ Update(c, "COMPLETED", state[c].questions, TRUE, 0)
    /\ Goto(c, "logSession")
    /\ UNCHANGED <<stored, ask, seen, held, reviewer, faults>>

\* memory_writer: results.upsert, then the phase.
NodeCompletes(c) ==
    /\ pc[c] = "node"
    /\ state[c].phase = "WORKING"
    /\ Update(c, "COMPLETED", state[c].questions, TRUE, 0)
    /\ result' = [result EXCEPT ![c] = TRUE]
    /\ Goto(c, "logSession")
    /\ UNCHANGED <<phase, current, memory, run, ask, seen, held, reviewer, faults>>

LogSession(c) ==
    /\ pc[c] = "logSession"
    /\ UpdateSession(c, state[c].phase, c)
    /\ Goto(c, "logMemory")
    /\ UNCHANGED <<memory, run, result, ask, seen, state, reviewer, faults>>

\* _memory_payload.
Payload(c, final) ==
    [phase |-> state[c].phase, run |-> c, revision |-> state[c].revision,
     questions |-> state[c].questions, resolved |-> state[c].resolved, final |-> final]

LogMemory(c) ==
    /\ pc[c] = "logMemory"
    /\ memory' = Payload(c, FALSE)
    /\ Goto(c, IF state[c].left = 0 THEN "finish" ELSE "node")
    /\ UNCHANGED <<phase, current, run, result, ask, seen, state, held, reviewer, faults>>

-----------------------------------------------------------------------------
(* diagnose, after the workflow *)

FinishRun(c) ==
    /\ pc[c] = "finish"
    /\ run' = [run EXCEPT ![c] =
                  IF state[c].phase = "COMPLETED" THEN "completed" ELSE "waiting_input"]
    /\ Goto(c, "saveSession")
    /\ UNCHANGED <<phase, current, memory, result, ask, seen, state, held, reviewer, faults>>

SaveSession(c) ==
    /\ pc[c] = "saveSession"
    /\ UpdateSession(c, state[c].phase, c)
    /\ Goto(c, "saveMemory")
    /\ UNCHANGED <<memory, run, result, ask, seen, state, reviewer, faults>>

SaveMemory(c) ==
    /\ pc[c] = "saveMemory"
    /\ memory' = Payload(c, state[c].final)
    /\ Leave(c)
    /\ UNCHANGED <<phase, current, run, result, ask, seen, held, reviewer, faults>>

\* Mutant: the exception handler forgets the run.
RaiseForgetsRun(c) ==
    /\ pc[c] \in Workflow
    /\ Fault("raise")
    /\ Goto(c, "failSession")
    /\ EndUpdate(c)
    /\ UNCHANGED <<stored, ask, seen, state, reviewer>>

\* A node, or a write of log_step, raised.
Raise(c) ==
    /\ pc[c] \in Workflow
    /\ Fault("raise")
    /\ Goto(c, "failRun")
    /\ EndUpdate(c)
    /\ UNCHANGED <<stored, ask, seen, state, reviewer>>

FailRun(c) ==
    /\ pc[c] = "failRun"
    /\ run' = [run EXCEPT ![c] = "failed"]
    /\ Goto(c, "failSession")
    /\ UNCHANGED <<phase, current, memory, result, ask, seen, state, held, reviewer, faults>>

FailSession(c) ==
    /\ pc[c] = "failSession"
    /\ UpdateSession(c, "FAILED", c)
    /\ Leave(c)
    /\ UNCHANGED <<memory, run, result, ask, seen, reviewer, faults>>

\* The client disconnected while the workflow ran; what follows is shielded from
\* the cancellation.
Cancel(c) ==
    /\ pc[c] \in Workflow
    /\ Fault("cancel")
    /\ Goto(c, "cancelRun")
    /\ EndUpdate(c)
    /\ UNCHANGED <<stored, ask, seen, state, reviewer>>

CancelRun(c) ==
    /\ pc[c] = "cancelRun"
    /\ run' = [run EXCEPT ![c] = "cancelled"]
    /\ Goto(c, "cancelSession")
    /\ UNCHANGED <<phase, current, memory, result, ask, seen, state, held, reviewer, faults>>

\* The session row is set back to what the call read; memory is not.
CancelSession(c) ==
    /\ pc[c] = "cancelSession"
    /\ UpdateSession(c, seen[c].phase, seen[c].run)
    /\ Leave(c)
    /\ UNCHANGED <<memory, run, result, ask, seen, reviewer, faults>>

\* The awaits that are in no try: those before the workflow, of which the last
\* ones write the answers to the timeline after Mark, those after it, and those of
\* the except branch for a workflow that raised.
Unguarded(c) ==
    \/ pc[c] \in InFlight \ (Workflow \cup {"cancelRun", "cancelSession"})
    \/ pc[c] = "node" /\ state[c].left = MaxNodes + 1

\* The client disconnected there: the call ends, the run and the session stay as
\* they are.
CancelUnguarded(c) ==
    /\ Unguarded(c)
    /\ Fault("cancel")
    /\ LeaveAs(c, "lost")
    /\ EndUpdate(c)
    /\ UNCHANGED <<stored, ask, seen, reviewer>>

\* A write outside the workflow raised, or the process died.
Abandon(c) ==
    /\ pc[c] \in InFlight
    /\ Fault("abandon")
    /\ LeaveAs(c, "lost")
    /\ EndUpdate(c)
    /\ UNCHANGED <<stored, ask, seen, reviewer>>

-----------------------------------------------------------------------------
(* Others *)

\* review_diagnosis checks the session and its latest result ...
ReviewRead ==
    /\ reviewer = "idle"
    /\ Overlap \/ Active = {}
    /\ phase \in {"COMPLETED", "NEED_USER_INPUT"}
    /\ \E r \in Runs : result[r]
    /\ reviewer' = "checked"
    /\ UNCHANGED <<stored, local, faults>>

\* ... and with NEEDS_MORE_INFO updates it: it reads the row ...
ReviewSelect ==
    /\ reviewer = "checked"
    /\ reviewer' = IF phase = "NEED_USER_INPUT" THEN "keep" ELSE "change"
    /\ UNCHANGED <<stored, local, faults>>

\* ... and writes the phase if it was another one, whatever it is by now.
ReviewWrite ==
    /\ reviewer \in {"keep", "change"}
    /\ phase' = IF reviewer = "change" THEN "NEED_USER_INPUT" ELSE phase
    /\ reviewer' = "idle"
    /\ UNCHANGED <<current, memory, run, result, local, faults>>

\* The time to live of the key in Redis is over.
MemoryExpires ==
    /\ memory # NoMemory
    /\ Fault("expire")
    /\ memory' = NoMemory
    /\ UNCHANGED <<phase, current, run, result, local, reviewer>>

-----------------------------------------------------------------------------
Continue(c) ==
    \/ Load(c) \/ LoadExplain(c) \/ Refuse(c)
    \/ Create(c) \/ CreateRefused(c) \/ Explained(c) \/ Mark(c)
    \/ Node(c) \/ NodeStops(c) \/ NodeAsks(c) \/ NodeCompletes(c)
    \/ LogSession(c) \/ LogMemory(c)
    \/ FinishRun(c) \/ SaveSession(c) \/ SaveMemory(c)
    \/ FailRun(c) \/ FailSession(c)
    \/ CancelRun(c) \/ CancelSession(c)
    \/ SelectSession(c)

Next ==
    \/ \E c \in Calls, r \in Requests : Enter(c, r)
    \/ \E c \in Calls : Continue(c) \/ Raise(c) \/ Cancel(c) \/ CancelUnguarded(c) \/ Abandon(c)
    \/ ReviewRead \/ ReviewSelect \/ ReviewWrite \/ MemoryExpires

\* A call that has been entered goes on; nobody has to call, review or fail.
Fairness == \A c \in Calls : WF_vars(Continue(c))

Spec == Init /\ [][Next]_vars /\ Fairness

-----------------------------------------------------------------------------
(* Properties *)

\* Every variable has its type.
TypeOK ==
    /\ phase \in DiagnosisPhase
    /\ current \in Runs
    /\ memory \in Memory \cup {NoMemory}
    /\ run \in [Calls -> RunStatus]
    /\ result \in [Runs -> BOOLEAN]
    /\ pc \in [Calls -> InFlight \cup {"idle", "done", "lost"}]
    /\ ask \in [Calls -> Request]
    /\ seen \in [Calls -> Row]
    /\ state \in [Calls -> State]
    /\ held \in [Calls -> SUBSET Row]
    /\ reviewer \in {"idle", "checked", "keep", "change"}
    /\ faults \in 0..MaxFaults

\* Whoever sees a session as COMPLETED in its row finds a result of it in MySQL,
\* whatever calls overlap, fail, are cancelled or set the row back: the last error
\* of _explain_previous is never raised.  In memory the result is that of the run
\* that memory names.
CompletedHasResult ==
    /\ phase = "COMPLETED" => \E r \in Runs : result[r]
    /\ memory # NoMemory => (memory.phase = "COMPLETED" => result[memory.run])

\* A client that repeats a call with its key gets one run, even if the repeat
\* passes find_idempotent before the first call has inserted its run.
OneRunPerKey ==
    \A c, d \in Calls :
        run[c] # "none" /\ run[d] # "none" /\ ask[c].key \cap ask[d].key # {} => c = d

\* A FAILED session stays FAILED, and a COMPLETED one whose run has been
\* finished is only reopened by a review, whatever calls are sent to it.
TerminalIsFinal ==
    [][/\ phase = "FAILED" => phase' = "FAILED"
       /\ phase = "COMPLETED" /\ run[current] = "completed"
              => phase' \in {"COMPLETED", "NEED_USER_INPUT"}]_vars

\* What a user has answered in a run that ended well stays in memory through
\* all later runs, those that fail or are cancelled included.
AnswersKept ==
    memory # NoMemory =>
        \A c \in Calls :
            run[c] \in {"completed", "waiting_input"} /\ seen[c].phase # "COMPLETED"
                => ask[c].answers \subseteq memory.resolved

\* A run comes to an end unless its call was cut off outside the workflow.
RunsEnd ==
    \A c \in Calls : run[c] = "running" ~> run[c] # "running" \/ pc[c] = "lost"

\* A session does not stay in a working phase, except that of such a call.
SessionSettles ==
    phase = "WORKING" ~> phase # "WORKING" \/ (current \in Calls /\ pc[current] = "lost")

\* diagnose leaves nothing half done behind it when its workflow raises or is
\* cancelled at any of its awaits: runs end and the session settles.
CallsSettle == RunsEnd /\ SessionSettles
=============================================================================
