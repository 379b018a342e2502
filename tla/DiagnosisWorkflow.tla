------------------------- MODULE DiagnosisWorkflow --------------------------
(***************************************************************************)
(* The node graph of build_diagnosis_graph over the turns of one session.  *)
(* DiagnosisSession says when a turn may run and how its writes meet those *)
(* of other calls; here one turn runs at a time and each node is one step  *)
(* together with the log_step that follows it: the state is validated and  *)
(* saved, so that between turns st is the session memory.                  *)
(*                                                                         *)
(* Texts are reduced to what the nodes ask of them: which templates their  *)
(* terms hit, whether they name a device and an alarm, whether the input   *)
(* rules object.  Evidence is the set of its source types, a cause the set *)
(* of kinds of evidence it cites, a tool call its outcome.                 *)
(***************************************************************************)
EXTENDS Naturals, FiniteSets

CONSTANTS
    Templates,       \* templates of the registry
    Fitting,         \* those for the type of the session's device
    AlarmHits,       \* those with a term in the name of the session's alarm
    LongTemplates,   \* those whose plan has more than max_steps steps
    RiskyTemplates,  \* those with an inspection step of high risk
    Messages,        \* what a user may write
    HasModel,        \* whether a model gateway is configured
    MaxTurns,        \* bound: turns of the session
    MaxOdd           \* bound: tools and models that do not answer as hoped

NoTemplate == "no template"

ASSUME TemplatesAssumption ==
    /\ Fitting \cup AlarmHits \cup LongTemplates \cup RiskyTemplates \subseteq Templates
    /\ NoTemplate \notin Templates
ASSUME MessagesAssumption ==
    Messages \subseteq [hits : SUBSET Templates, device : BOOLEAN, alarm : BOOLEAN,
                        violations : SUBSET {"INPUT"}]
ASSUME WorkflowBounds == HasModel \in BOOLEAN /\ MaxTurns \in Nat /\ MaxOdd \in Nat

VARIABLES
    node,    \* the node about to run; "idle", "completed" or "failed" outside a turn
    msg,     \* user_message of the turn
    follow,  \* followup_mode = "answer_clarification"
    st,      \* the DiagnosisState
    found,   \* tool_data of this turn: the sources that gave something
    row,     \* device and alarm of the session row
    turns,   \* turns so far
    odd      \* odd answers so far

vars == <<node, msg, follow, st, found, row, turns, odd>>

-----------------------------------------------------------------------------
(* Types *)

NoResponse == [none |-> TRUE]
NoMessage == [none |-> TRUE]

Nodes ==
    {"intent_router", "entity_parser", "clarification_applier", "plan_builder",
     "tool_dispatcher", "timeseries_fetcher", "ticket_fetcher", "doc_retriever",
     "graph_fetcher", "evidence_aggregator", "gap_detector",
     "clarification_generator", "reason_generator", "response_generator",
     "rule_checker", "memory_writer"}

Phases ==
    {"INIT", "PLAN_READY", "DATA_FETCHING", "EVIDENCE_READY", "NEED_USER_INPUT",
     "DRAFT_READY", "REVIEWING", "COMPLETED", "FAILED"}

Sources == {"device", "alarm", "timeseries", "manual", "ticket", "case", "graph"}
Components == {"influxdb", "neo4j", "retrieval"}
Gaps == {"NO_DEVICE", "NO_ALARM", "NO_TIMESERIES", "NO_KNOWLEDGE"}
Unsafe == {"UNSUPPORTED_STRONG_CLAIM", "UNKNOWN_EVIDENCE_REFERENCE", "GRAPH_ONLY_STRONG_CLAIM"}
Violations ==
    {"INPUT", "TOO_MANY_CLARIFICATIONS", "UNREGISTERED_TEMPLATE",
     "PLAN_STEP_LIMIT_EXCEEDED", "HIGH_RISK_ACTION_UNSAFE", "EMPTY_SUMMARY",
     "NO_VERIFIABLE_ROOT_CAUSE"} \cup Unsafe
Errors == Gaps \cup Violations \cup {"NO_ENTITY", "NO_TEMPLATE"}
QuestionIds ==
    {"guardrail_input", "missing_entity", "guardrail_plan", "template_route",
     "gap_1", "gap_2", "gap_3", "model"}

\* What a cause cites: graph evidence, other evidence, ids that do not exist; one
\* of each kind that check_generation tells apart.
Supports == {{}, {"other"}, {"graph"}, {"graph", "other"}, {"other", "unknown"}}

\* byModel says who wrote the causes: the model, or the rules and the guardrails.
Response == [causes : SUBSET Supports, byModel : BOOLEAN, blank : BOOLEAN, notes : BOOLEAN]

DiagnosisState ==
    [phase : Phases, device : {"none", "id", "full"}, alarm : {"none", "id", "full"},
     template : Templates \cup {NoTemplate}, evidence : SUBSET Sources,
     causes : SUBSET Supports, questions : SUBSET QuestionIds, feedback : SUBSET QuestionIds,
     errors : SUBSET Errors, degraded : SUBSET Components,
     decision : {"none", "PASSED", "BLOCKED", "NEED_USER_INPUT"},
     response : Response \cup {NoResponse}]

\* validate_phase_requirements.
Valid(s) ==
    /\ s.phase = "NEED_USER_INPUT" => s.questions # {}
    /\ s.phase = "COMPLETED" => s.response # NoResponse

\* Mutant: the template is not among what the memory keeps.
RestoredNoTemplate(s, answered) ==
    [s EXCEPT !.phase = "INIT", !.questions = {}, !.errors = {}, !.decision = "none",
              !.response = NoResponse, !.feedback = @ \cup answered, !.template = NoTemplate]

\* What _memory_payload does not keep starts afresh.
Restored(s, answered) ==
    [s EXCEPT !.phase = "INIT", !.questions = {}, !.errors = {}, !.decision = "none",
              !.response = NoResponse, !.feedback = @ \cup answered]

Blank(r) ==
    [phase |-> "INIT", device |-> r.device, alarm |-> r.alarm, template |-> NoTemplate,
     evidence |-> {}, causes |-> {}, questions |-> {}, feedback |-> {}, errors |-> {},
     degraded |-> {}, decision |-> "none", response |-> NoResponse]

Init ==
    /\ node = "idle"
    /\ msg = NoMessage
    /\ follow = FALSE
    /\ row \in {[device |-> "none", alarm |-> "none"], [device |-> "id", alarm |-> "full"]}
    /\ st = Blank(row)
    /\ found = {}
    /\ turns = 0
    /\ odd = 0

-----------------------------------------------------------------------------
(* The frame of a turn *)

Running == node \in Nodes

\* diagnose builds the state from the memory.  A question that has been answered
\* under the same id is not pending again; the user answers all that is, or nothing.
Begin ==
    /\ node = "idle"
    /\ turns < MaxTurns
    /\ \E m \in Messages, f \in BOOLEAN, answered \in {{}, st.questions \ st.feedback} :
          /\ msg' = m
          /\ follow' = f
          /\ st' = Restored(st, answered)
    /\ node' = "intent_router"
    /\ found' = {}
    /\ turns' = turns + 1
    /\ UNCHANGED <<row, odd>>

\* The request and tool_data live as long as the turn does.
Leave(next, data) ==
    /\ node' = next
    /\ msg' = IF next \in Nodes THEN msg ELSE NoMessage
    /\ follow' = (follow /\ next \in Nodes)
    /\ found' = IF next \in Nodes THEN data ELSE {}
    /\ UNCHANGED <<row, turns>>

\* The node returned its update: log_step validates and saves it.
Return(new, next, data) ==
    /\ Leave(IF Valid(new) THEN next ELSE "failed", data)
    /\ st' = IF Valid(new) THEN new ELSE [st EXCEPT !.phase = "FAILED"]

Step(name, new, next) ==
    /\ node = name
    /\ Return(new, next, found)
    /\ UNCHANGED odd

\* Something other than the plain answer happened.
Odd == odd < MaxOdd /\ odd' = odd + 1
Plain == UNCHANGED odd

\* The client disconnects: the memory keeps what was saved.
Cancelled ==
    /\ Running
    /\ Odd
    /\ Leave("idle", found)
    /\ UNCHANGED st

\* A node, or a write of log_step, raises.
Raises ==
    /\ Running
    /\ Odd
    /\ Leave("failed", found)
    /\ st' = [st EXCEPT !.phase = "FAILED"]

\* The memory in Redis has expired; the session row is left.
MemoryExpires ==
    /\ node = "idle"
    /\ Odd
    /\ st' = Blank(row)
    /\ UNCHANGED <<node, msg, follow, found, row, turns>>

-----------------------------------------------------------------------------
(* Routing and parsing *)

IntentRouter ==
    Step("intent_router", st,
         IF follow /\ st.evidence # {} THEN "clarification_applier" ELSE "entity_parser")

\* check_input.
InputViolations ==
    msg.violations \cup IF Cardinality(st.feedback) > 3 THEN {"TOO_MANY_CLARIFICATIONS"} ELSE {}

Asking(s, question, errors) ==
    [s EXCEPT !.phase = "NEED_USER_INPUT", !.questions = {question}, !.errors = errors]

\* _extract_entity_ids fills in what the session does not know yet.
Named(known, inText) == IF known = "none" /\ inText THEN "id" ELSE known

EntityParser ==
    LET device == Named(st.device, msg.device)
        alarm == Named(st.alarm, msg.alarm)
    IN Step("entity_parser",
            IF InputViolations # {}
            THEN [Asking(st, "guardrail_input", InputViolations) EXCEPT !.decision = "BLOCKED"]
            ELSE IF "none" \in {device, alarm}
            THEN Asking(st, "missing_entity", {"NO_ENTITY"})
            ELSE [st EXCEPT !.device = device, !.alarm = alarm, !.decision = "PASSED"],
            IF InputViolations # {} \/ "none" \in {device, alarm}
            THEN "clarification_generator" ELSE "tool_dispatcher")

\* check_plan: the plan is the six read tools and the steps of the template.
PlanViolations(t) ==
    (IF t = NoTemplate THEN {"UNREGISTERED_TEMPLATE"} ELSE {})
    \cup (IF t \in LongTemplates THEN {"PLAN_STEP_LIMIT_EXCEEDED"} ELSE {})

ClarificationApplier ==
    LET ready == [st EXCEPT !.phase = "EVIDENCE_READY", !.questions = {}, !.errors = {}]
        violations == PlanViolations(st.template)
    IN Step("clarification_applier",
            IF violations = {}
            THEN [ready EXCEPT !.decision = "PASSED"]
            ELSE [Asking(ready, "guardrail_plan", violations) EXCEPT !.decision = "BLOCKED"],
            "gap_detector")

\* TemplateRegistry.route.  The text is never empty here.
Score(t) ==
    (IF st.device = "full" THEN 4 ELSE 0)
    + (IF st.alarm = "full" /\ t \in AlarmHits THEN 3 ELSE 0)
    + (IF t \in msg.hits THEN 1 ELSE 0)

Routable ==
    {t \in Templates : /\ st.device = "full" => t \in Fitting
                       /\ t \in msg.hits \/ (st.alarm = "full" /\ t \in AlarmHits)}

Routed == {t \in Routable : \A u \in Routable : Score(u) <= Score(t)}

PlanBuilder ==
    LET t == CHOOSE t \in Routed : TRUE
        violations == PlanViolations(t)
    IN Step("plan_builder",
            IF Cardinality(Routed) # 1
            THEN Asking(st, "template_route", {"NO_TEMPLATE"})
            ELSE IF violations # {}
            THEN [st EXCEPT !.template = t, !.decision = "BLOCKED", !.errors = violations]
            ELSE [st EXCEPT !.template = t, !.decision = "PASSED", !.phase = "PLAN_READY"],
            IF Cardinality(Routed) # 1 \/ violations # {}
            THEN "clarification_generator" ELSE "timeseries_fetcher")

-----------------------------------------------------------------------------
(* Fetching: the outcomes are those ToolExecutor returns *)

Failures == {"TIMEOUT", "DEGRADED", "FAILED"}

\* A tool gave sources; components are what the node reports as degraded.
Fetched(name, new, sources, next) ==
    /\ node = name
    /\ Return(new, next, found \cup sources)

\* get_device_profile and get_alarm_detail; either may fail or find nothing.
ToolDispatcher ==
    \E got \in SUBSET {"device", "alarm"} :
        /\ IF got = {"device", "alarm"} THEN Plain ELSE Odd
        /\ Fetched("tool_dispatcher",
                   [st EXCEPT !.phase = "DATA_FETCHING",
                              !.device = IF "device" \in got THEN "full" ELSE @,
                              !.alarm = IF "alarm" \in got THEN "full" ELSE @],
                   got, "plan_builder")

TimeseriesFetcher ==
    \E status \in {"OK", "NOT_FOUND"} \cup Failures :
        /\ IF status = "OK" THEN Plain ELSE Odd
        /\ Fetched("timeseries_fetcher",
                   [st EXCEPT !.degraded = @ \cup IF status \in Failures THEN {"influxdb"} ELSE {}],
                   IF status = "OK" THEN {"timeseries"} ELSE {},
                   "ticket_fetcher")

\* RetrievalService answers, perhaps with degraded channels or nothing, or the
\* call fails and there is no metadata to read.
Searched(name, sources, next) ==
    \E got \in SUBSET sources, partial \in BOOLEAN, failed \in BOOLEAN :
        /\ failed => got = {} /\ ~partial
        /\ IF got # {} /\ ~partial THEN Plain ELSE Odd
        /\ Fetched(name, [st EXCEPT !.degraded = @ \cup IF partial THEN {"retrieval"} ELSE {}],
                   got, next)

TicketFetcher == Searched("ticket_fetcher", {"ticket", "case"}, "doc_retriever")

DocRetriever == Searched("doc_retriever", {"manual"}, "graph_fetcher")

GraphFetcher ==
    \E status \in {"OK", "NOT_FOUND"} \cup Failures :
        /\ IF status = "OK" THEN Plain ELSE Odd
        /\ Fetched("graph_fetcher",
                   [st EXCEPT !.degraded = @ \cup IF status = "DEGRADED" THEN {"neo4j"} ELSE {}],
                   IF status = "OK" THEN {"graph"} ELSE {},
                   "evidence_aggregator")

EvidenceAggregator ==
    Step("evidence_aggregator",
         [st EXCEPT !.phase = "EVIDENCE_READY", !.evidence = found], "gap_detector")

\* Mutant: an answer makes up for any missing evidence.
MissingForgiving(s) ==
    (IF "device" \notin s.evidence /\ s.feedback = {} THEN {"NO_DEVICE"} ELSE {})
    \cup (IF "alarm" \notin s.evidence THEN {"NO_ALARM"} ELSE {})
    \cup (IF "timeseries" \notin s.evidence /\ s.feedback = {} THEN {"NO_TIMESERIES"} ELSE {})
    \cup (IF s.evidence \cap {"manual", "ticket", "case"} = {} THEN {"NO_KNOWLEDGE"} ELSE {})

Missing(s) ==
    (IF "device" \notin s.evidence THEN {"NO_DEVICE"} ELSE {})
    \cup (IF "alarm" \notin s.evidence THEN {"NO_ALARM"} ELSE {})
    \cup (IF "timeseries" \notin s.evidence /\ s.feedback = {} THEN {"NO_TIMESERIES"} ELSE {})
    \cup (IF s.evidence \cap {"manual", "ticket", "case"} = {} THEN {"NO_KNOWLEDGE"} ELSE {})

GapDetector ==
    Step("gap_detector", [st EXCEPT !.errors = Missing(st)],
         IF Missing(st) = {} THEN "reason_generator" ELSE "clarification_generator")

-----------------------------------------------------------------------------
(* Generating: by rules, then by the model if there is one and it answers *)

\* Mutant: the model may also replace questions that a node has asked.
ClarificationGeneratorRewords ==
    LET gaps == {<<1, "gap_1">>, <<2, "gap_2">>, <<3, "gap_3">>}
        own == IF st.questions # {} THEN st.questions
               ELSE {g[2] : g \in {x \in gaps : x[1] <= Cardinality(st.errors)}}
        fromTemplate == st.template # NoTemplate /\ "NO_TIMESERIES" \in st.errors
    IN \E qs \in {own, {"model"}, {}} :
          /\ qs # own => HasModel /\ ~fromTemplate
          /\ IF qs = own THEN Plain ELSE Odd
          /\ node = "clarification_generator"
          /\ Return([st EXCEPT !.phase = "NEED_USER_INPUT", !.questions = qs], "idle", found)

\* The questions that are there, or one per gap, which the model may replace
\* unless they come from the template.
ClarificationGenerator ==
    LET gaps == {<<1, "gap_1">>, <<2, "gap_2">>, <<3, "gap_3">>}
        own == IF st.questions # {} THEN st.questions
               ELSE {g[2] : g \in {x \in gaps : x[1] <= Cardinality(st.errors)}}
        fromTemplate == st.template # NoTemplate /\ "NO_TIMESERIES" \in st.errors
    IN \E qs \in {own, {"model"}, {}} :
          /\ qs # own => HasModel /\ st.questions = {} /\ ~fromTemplate
          /\ IF qs = own THEN Plain ELSE Odd
          /\ node = "clarification_generator"
          /\ Return([st EXCEPT !.phase = "NEED_USER_INPUT", !.questions = qs], "idle", found)

\* evaluate_candidate_rules: a rule cites evidence that has its terms, or the
\* first two pieces of evidence, which there are.
RuleSupports ==
    {s \in Supports : s # {} /\ "unknown" \notin s /\ ("graph" \in s => "graph" \in st.evidence)}

\* At most two causes tell all the cases apart.
UpToTwo(S) == {{}} \cup {{s, t} : s, t \in S}

\* The model, asked when the rules found something, may name any causes.
ReasonGenerator ==
    \E causes \in UpToTwo(IF HasModel THEN Supports ELSE RuleSupports) :
        /\ IF causes = {{"other"}} THEN Plain ELSE Odd
        /\ Fetched("reason_generator",
                   [st EXCEPT !.phase = "DRAFT_READY", !.causes = causes], {},
                   "response_generator")

\* The model is asked to polish the draft; what it writes takes its place.
ResponseGenerator ==
    LET draft == [causes |-> st.causes, byModel |-> FALSE, blank |-> FALSE, notes |-> TRUE]
        written == [causes : {{}, {{"other"}}, Supports}, byModel : {TRUE},
                    blank : BOOLEAN, notes : BOOLEAN]
    IN \E r \in {draft} \cup written :
          /\ r # draft => HasModel
          /\ IF r = draft THEN Plain ELSE Odd
          /\ Fetched("response_generator", [st EXCEPT !.response = r], {}, "rule_checker")

-----------------------------------------------------------------------------
(* The guardrails of rule_checker *)

\* check_generation for one cause.
CauseViolations(s) ==
    IF s = {} THEN {"UNSUPPORTED_STRONG_CLAIM"}
    ELSE IF "unknown" \in s THEN {"UNKNOWN_EVIDENCE_REFERENCE"}
    ELSE IF s = {"graph"} THEN {"GRAPH_ONLY_STRONG_CLAIM"}
    ELSE {}

Supported(causes) == {s \in causes : CauseViolations(s) = {}}

\* check_output: actions of high risk need evidence of two kinds and safety notes.
OutputViolations ==
    (IF /\ st.template \in RiskyTemplates
        /\ \/ Cardinality(st.evidence \ {"graph", "device", "alarm"}) < 2
           \/ ~st.response.notes
     THEN {"HIGH_RISK_ACTION_UNSAFE"} ELSE {})
    \cup (IF st.response.blank THEN {"EMPTY_SUMMARY"} ELSE {})

\* evaluate.
Judged(causes) == (UNION {CauseViolations(s) : s \in causes}) \cup OutputViolations

\* sanitize_response replaces the causes of the response if those of the state were
\* unsafe; it does not look at the causes of the response themselves.
Sanitized(r, causes) ==
    IF Judged(causes) \cap Unsafe = {} THEN r
    ELSE [r EXCEPT !.causes = Supported(causes), !.byModel = FALSE,
                   !.blank = IF Supported(causes) = {} THEN FALSE ELSE @]

\* Mutant: a draft without any supported cause passes.
RuleCheckerLax ==
    LET kept == Supported(st.causes)
        violations == Judged(kept)
        new == [st EXCEPT !.causes = kept, !.response = Sanitized(st.response, st.causes)]
    IN Step("rule_checker",
            IF violations = {} THEN [new EXCEPT !.phase = "REVIEWING", !.decision = "PASSED"]
            ELSE [new EXCEPT !.errors = violations, !.decision = "BLOCKED"],
            IF violations = {} THEN "memory_writer" ELSE "clarification_generator")

RuleChecker ==
    LET kept == Supported(st.causes)
        violations == Judged(kept) \cup IF kept = {} THEN {"NO_VERIFIABLE_ROOT_CAUSE"} ELSE {}
        new == [st EXCEPT !.causes = kept, !.response = Sanitized(st.response, st.causes)]
    IN Step("rule_checker",
            IF violations = {} THEN [new EXCEPT !.phase = "REVIEWING", !.decision = "PASSED"]
            ELSE [new EXCEPT !.errors = @ \cup violations,
                             !.decision = IF kept = {} THEN "NEED_USER_INPUT" ELSE "BLOCKED"],
            IF violations = {} THEN "memory_writer" ELSE "clarification_generator")

MemoryWriter == Step("memory_writer", [st EXCEPT !.phase = "COMPLETED"], "completed")

-----------------------------------------------------------------------------

NodeStep ==
    \/ IntentRouter \/ EntityParser \/ ClarificationApplier \/ PlanBuilder
    \/ ToolDispatcher \/ TimeseriesFetcher \/ TicketFetcher \/ DocRetriever
    \/ GraphFetcher \/ EvidenceAggregator \/ GapDetector \/ ClarificationGenerator
    \/ ReasonGenerator \/ ResponseGenerator \/ RuleChecker \/ MemoryWriter

Next == Begin \/ NodeStep \/ Cancelled \/ Raises \/ MemoryExpires

Spec == Init /\ [][Next]_vars

-----------------------------------------------------------------------------
(* Properties *)

\* Every variable stays in its domain; no node of the graph leaves an error, a question
\* or a degraded component that diagnose would not know how to store.
TypeOK ==
    /\ node \in Nodes \cup {"idle", "completed", "failed"}
    /\ msg \in Messages \cup {NoMessage}
    /\ follow \in BOOLEAN
    /\ st \in DiagnosisState
    /\ found \subseteq Sources
    /\ row \in [device : {"none", "id"}, alarm : {"none", "id", "full"}]
    /\ turns \in 0..MaxTurns
    /\ odd \in 0..MaxOdd

\* The state fits its model and the assert statements of the nodes hold, also in a turn
\* that starts from what an earlier turn, cancelled at any node, left in the memory:
\* whoever fetches knows the device and the alarm, whoever reasons has a template.
AssertionsHold ==
    /\ TypeOK
    /\ node \in {"tool_dispatcher", "plan_builder", "timeseries_fetcher", "ticket_fetcher",
                 "doc_retriever", "graph_fetcher"} => "none" \notin {st.device, st.alarm}
    /\ node \in {"timeseries_fetcher", "reason_generator", "response_generator"}
          => st.template # NoTemplate

\* A completed diagnosis rests on the device, the alarm and some knowledge, and
\* on time series unless the user was asked (the degradation matrix: InfluxDB
\* lost means NEED_USER_INPUT), whichever turn fetched them; and it used a template
\* for the type of the device, though a turn that did not know it may have chosen it.
ConclusionIsGrounded ==
    node = "completed" =>
        /\ {"device", "alarm"} \subseteq st.evidence
        /\ st.evidence \cap {"manual", "ticket", "case"} # {}
        /\ "timeseries" \in st.evidence \/ st.feedback # {}
        /\ st.template \in Fitting

\* The guardrails have judged the causes of the state that completes: there is one,
\* each cites known evidence that is not only from the graph, and a template with
\* actions of high risk has evidence of two kinds and safety notes.  The response
\* that is stored names the same causes, unless the model wrote it anew.
ConclusionIsGuarded ==
    node = "completed" =>
        /\ st.causes # {}
        /\ \A s \in st.causes : s \cap {"other", "unknown"} = {"other"}
        /\ ~st.response.byModel => st.response.causes = st.causes
        /\ ~st.response.blank
        /\ st.template \in RiskyTemplates =>
              /\ st.response.notes
              /\ Cardinality(st.evidence \cap {"timeseries", "manual", "ticket", "case"}) >= 2

\* How DiagnosisSession sums the nodes up: its Node, NodeStops, NodeAsks, NodeCompletes.
Coarse(p) ==
    IF p \in {"PLAN_READY", "DATA_FETCHING", "EVIDENCE_READY", "DRAFT_READY", "REVIEWING"}
    THEN "WORKING" ELSE p

SessionNode ==
    /\ node' \in Nodes
    /\ Coarse(st'.phase) \in {Coarse(st.phase), "WORKING"}
    /\ st'.questions = st.questions

SessionNodeStops == node' \in Nodes /\ st'.phase = "NEED_USER_INPUT" /\ st'.questions # {}

SessionNodeAsks ==
    /\ node' = "idle"
    /\ st'.phase = "NEED_USER_INPUT"
    /\ st'.questions # {}
    /\ st.questions \in {{}, st'.questions}

SessionNodeCompletes ==
    /\ node' = "completed"
    /\ Coarse(st.phase) = "WORKING"
    /\ st'.phase = "COMPLETED"
    /\ st'.response # NoResponse

\* Each step of a node of build_diagnosis_graph, with its log_step, is one of the four
\* steps DiagnosisSession allows a call in flight, or the call fails: a node that asks
\* leaves questions, none is reworded once asked, and only a working state completes.
NodesAsInSession ==
    [][NodeStep => \/ SessionNode \/ SessionNodeStops \/ SessionNodeAsks
                   \/ SessionNodeCompletes \/ node' = "failed"]_vars
=============================================================================
