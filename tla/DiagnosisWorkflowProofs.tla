----------------------- MODULE DiagnosisWorkflowProofs ----------------------
(***************************************************************************)
(* Theorems about DiagnosisWorkflow, for every registry of templates, every *)
(* text, every number of turns and of odd answers, with or without a model. *)
(***************************************************************************)
EXTENDS DiagnosisWorkflow, FiniteSetTheorems, TLAPS

Outside == {"idle", "completed", "failed"}
Planned == {"timeseries_fetcher", "ticket_fetcher", "doc_retriever", "graph_fetcher",
            "evidence_aggregator"}
Fetchers == {"tool_dispatcher", "plan_builder"} \cup Planned
Reasoners == {"reason_generator", "response_generator", "rule_checker", "memory_writer",
              "completed"}

-----------------------------------------------------------------------------
(* The inductive invariant, of a place in the graph, a state and the data *)

\* No question is pending where the turn begins.
Unasked(n, s) == n \in {"intent_router", "clarification_applier"} => s.questions = {}

\* The parser is the only way to the fetchers.
Known(n, s) == n \in Fetchers => s.device # "none" /\ s.alarm # "none"

\* The profile of the device, once there, decides the template: in the evidence of
\* any turn, in this turn's data, and in the plan.
Fits(n, s, f) ==
    /\ "device" \in s.evidence => s.device = "full" /\ s.template \in Fitting
    /\ "device" \in f => s.device = "full"
    /\ n \in Planned => s.template # NoTemplate /\ (s.device = "full" => s.template \in Fitting)

\* Nobody reasons with a gap, and what is judged has been written.
Reasoned(n, s) ==
    /\ n \in Reasoners => Missing(s) = {}
    /\ n \in {"rule_checker", "memory_writer", "completed"} =>
          /\ s.response \in Response
          /\ ~s.response.byModel => s.response.causes = s.causes

\* The verdict of rule_checker.
Cleared(s) ==
    /\ s.causes # {}
    /\ \A c \in s.causes : c \cap {"other", "unknown"} = {"other"}
    /\ ~s.response.blank
    /\ s.template \in RiskyTemplates =>
          /\ s.response.notes
          /\ Cardinality(s.evidence \cap {"timeseries", "manual", "ticket", "case"}) >= 2

Reviewed(n, s) ==
    /\ n \in {"memory_writer", "completed"} => Cleared(s)
    /\ n = "memory_writer" => s.phase = "REVIEWING"

Good(n, s, f) ==
    Unasked(n, s) /\ Known(n, s) /\ Fits(n, s, f) /\ Reasoned(n, s) /\ Reviewed(n, s)

\* A turn has its message, and its data end with it.
Spoken == IF node \in Nodes THEN msg \in Messages ELSE found = {}

Inv == TypeOK /\ Spoken /\ Good(node, st, found)

-----------------------------------------------------------------------------
(* The frame of a turn *)

\* What Leave makes of the variables of a turn.
LEMMA LeaveType ==
    ASSUME TypeOK, NEW next \in Nodes \cup Outside, NEW data \in SUBSET Sources,
           Leave(next, data)
    PROVE  /\ node' = next
           /\ msg' \in Messages \cup {NoMessage}
           /\ next \in Nodes => msg' = msg
           /\ follow' \in BOOLEAN
           /\ found' = IF next \in Nodes THEN data ELSE {}
           /\ found' \subseteq Sources
           /\ row' = row
           /\ turns' = turns
<1>1. follow' \in BOOLEAN
  BY DEF Leave
<1> QED
  BY <1>1 DEF Leave, TypeOK

\* A call that fails or is cancelled leaves a good state: what was saved stays.
LEMMA StoppedGood ==
    ASSUME st \in DiagnosisState, Good(node, st, found), NEW n \in {"idle", "failed"}
    PROVE  /\ Good(n, st, {})
           /\ [st EXCEPT !.phase = "FAILED"] \in DiagnosisState
           /\ Good(n, [st EXCEPT !.phase = "FAILED"], {})
<1>1. [st EXCEPT !.phase = "FAILED"] \in DiagnosisState
  BY DEF DiagnosisState, Phases
<1>2. Good(n, st, {})
  BY DEF Good, Unasked, Known, Fits, Reasoned, Reviewed, Fetchers, Planned, Reasoners
<1>3. Good(n, [st EXCEPT !.phase = "FAILED"], {})
  BY DEF Good, Unasked, Known, Fits, Reasoned, Reviewed, Fetchers, Planned, Reasoners,
         DiagnosisState
<1> QED
  BY <1>1, <1>2, <1>3

\* A node keeps the invariant when what it returns is good at the node it goes to.
LEMMA ReturnKeeps ==
    ASSUME Inv, Running, NEW next \in Nodes \cup Outside, NEW data \in SUBSET Sources,
           NEW new \in DiagnosisState, Good(next, new, IF next \in Nodes THEN data ELSE {}),
           Return(new, next, data), odd' \in 0..MaxOdd
    PROVE  Inv'
<1> DEFINE to == IF Valid(new) THEN next ELSE "failed"
<1>1. to \in Nodes \cup Outside /\ Leave(to, data)
  BY DEF Return, Outside
<1>2. /\ node' = to
      /\ msg' \in Messages \cup {NoMessage}
      /\ to \in Nodes => msg' = msg
      /\ follow' \in BOOLEAN
      /\ found' = IF to \in Nodes THEN data ELSE {}
      /\ found' \subseteq Sources
      /\ row' = row
      /\ turns' = turns
  BY <1>1, LeaveType DEF Inv
<1>3. st' \in DiagnosisState /\ Good(node', st', found')
  <2>1. CASE Valid(new)
    BY <1>2, <2>1 DEF Return
  <2>2. CASE ~Valid(new)
    <3>1. node' = "failed" /\ found' = {} /\ st' = [st EXCEPT !.phase = "FAILED"]
      BY <1>2, <2>2 DEF Return, Nodes
    <3> QED
      BY <3>1, StoppedGood DEF Inv, TypeOK
  <2> QED
    BY <2>1, <2>2
<1>4. Spoken'
  BY <1>2 DEF Inv, Spoken, Running
<1> QED
  BY <1>1, <1>2, <1>3, <1>4 DEF Inv, TypeOK, Outside

\* The same for a node that fetches nothing and whose answer is never odd.
LEMMA StepKeeps ==
    ASSUME Inv, NEW name \in Nodes, NEW next \in Nodes, NEW new \in DiagnosisState,
           Good(next, new, found), Step(name, new, next)
    PROVE  Inv'
<1>1. odd' \in 0..MaxOdd /\ Return(new, next, found) /\ found \in SUBSET Sources /\ Running
  BY DEF Step, Inv, TypeOK, Running
<1> QED
  BY <1>1, ReturnKeeps

LEMMA OddType ==
    ASSUME TypeOK, Odd \/ Plain
    PROVE  odd' \in 0..MaxOdd
BY WorkflowBounds DEF TypeOK, Odd, Plain

-----------------------------------------------------------------------------
(* One lemma per node *)

LEMMA IntentRouterKeeps ==
    ASSUME Inv, IntentRouter
    PROVE  Inv'
<1> DEFINE next == IF follow /\ st.evidence # {} THEN "clarification_applier" ELSE "entity_parser"
<1>1. "intent_router" \in Nodes /\ next \in Nodes /\ st \in DiagnosisState
  BY DEF Nodes, Inv, TypeOK
<1>2. Good(next, st, found)
  BY DEF IntentRouter, Step, Inv, Good, Unasked, Known, Fits, Reasoned, Reviewed, Fetchers,
         Planned, Reasoners
<1> QED
  BY <1>1, <1>2, StepKeeps DEF IntentRouter

\* A state in which nothing but the fields of a question has changed.
LEMMA AskingType ==
    ASSUME NEW s \in DiagnosisState, NEW q \in QuestionIds, NEW e \in SUBSET Errors,
           NEW d \in {"none", "PASSED", "BLOCKED", "NEED_USER_INPUT"}
    PROVE  /\ Asking(s, q, e) \in DiagnosisState
           /\ [Asking(s, q, e) EXCEPT !.decision = d] \in DiagnosisState
           /\ Asking(s, q, e).evidence = s.evidence
           /\ Asking(s, q, e).device = s.device
           /\ Asking(s, q, e).template = s.template
           /\ Asking(s, q, e).feedback = s.feedback
           /\ Asking(s, q, e).response = s.response
BY DEF Asking, DiagnosisState, Phases

LEMMA EntityParserKeeps ==
    ASSUME Inv, EntityParser
    PROVE  Inv'
<1> DEFINE device == Named(st.device, msg.device)
           alarm == Named(st.alarm, msg.alarm)
           blocked == [Asking(st, "guardrail_input", InputViolations) EXCEPT !.decision = "BLOCKED"]
           asking == Asking(st, "missing_entity", {"NO_ENTITY"})
           parsed == [st EXCEPT !.device = device, !.alarm = alarm, !.decision = "PASSED"]
<1>0. st \in DiagnosisState /\ node = "entity_parser" /\ Good("entity_parser", st, found)
  BY DEF Inv, TypeOK, EntityParser, Step
<1>1. {"entity_parser", "clarification_generator", "tool_dispatcher"} \subseteq Nodes
  BY DEF Nodes
<1>2. CASE InputViolations # {}
  <2>1. InputViolations \subseteq Errors
    <3>1. msg.violations \subseteq {"INPUT"}
      BY <1>0, <1>1, MessagesAssumption DEF Inv, Spoken
    <3> QED
      BY <3>1 DEF InputViolations, Errors, Violations
  <2>2. blocked \in DiagnosisState
    BY <1>0, <2>1, AskingType DEF QuestionIds
  <2>3. Good("clarification_generator", blocked, found)
    BY <1>0, <2>2 DEF Asking, DiagnosisState, Good, Unasked, Known, Fits, Reasoned, Reviewed,
       Fetchers, Planned, Reasoners
  <2>4. Step("entity_parser", blocked, "clarification_generator")
    BY <1>2 DEF EntityParser
  <2> QED
    BY <1>1, <2>2, <2>3, <2>4, StepKeeps
<1>3. CASE InputViolations = {} /\ "none" \in {device, alarm}
  <2>1. asking \in DiagnosisState
    BY <1>0, AskingType DEF QuestionIds, Errors
  <2>2. Good("clarification_generator", asking, found)
    BY <1>0, <2>1 DEF Asking, DiagnosisState, Good, Unasked, Known, Fits, Reasoned, Reviewed,
       Fetchers, Planned, Reasoners
  <2>3. Step("entity_parser", asking, "clarification_generator")
    BY <1>3 DEF EntityParser
  <2> QED
    BY <1>1, <2>1, <2>2, <2>3, StepKeeps
<1>4. CASE InputViolations = {} /\ "none" \notin {device, alarm}
  <2>1. /\ device \in {"id", "full"} /\ (st.device = "full" => device = "full")
        /\ alarm \in {"id", "full"}
    BY <1>0, <1>4 DEF Named, DiagnosisState
  <2>2. parsed \in DiagnosisState
    BY <1>0, <2>1 DEF DiagnosisState
  <2>3. Good("tool_dispatcher", parsed, found)
    BY <1>0, <2>1, <2>2 DEF DiagnosisState, Good, Unasked, Known, Fits, Reasoned, Reviewed,
       Fetchers, Planned, Reasoners
  <2>4. Step("entity_parser", parsed, "tool_dispatcher")
    BY <1>4 DEF EntityParser
  <2> QED
    BY <1>1, <2>2, <2>3, <2>4, StepKeeps
<1> QED
  BY <1>2, <1>3, <1>4

LEMMA ClarificationApplierKeeps ==
    ASSUME Inv, ClarificationApplier
    PROVE  Inv'
<1> DEFINE ready == [st EXCEPT !.phase = "EVIDENCE_READY", !.questions = {}, !.errors = {}]
           violations == PlanViolations(st.template)
           passed == [ready EXCEPT !.decision = "PASSED"]
           blocked == [Asking(ready, "guardrail_plan", violations) EXCEPT !.decision = "BLOCKED"]
<1>0. st \in DiagnosisState /\ Good("clarification_applier", st, found)
  BY DEF Inv, TypeOK, ClarificationApplier, Step
<1>1. {"clarification_applier", "gap_detector"} \subseteq Nodes
  BY DEF Nodes
<1>2. ready \in DiagnosisState
  BY <1>0 DEF DiagnosisState, Phases
<1>3. CASE violations = {}
  <2>1. passed \in DiagnosisState
    BY <1>0 DEF DiagnosisState, Phases
  <2>2. Good("gap_detector", passed, found)
    BY <1>0, <2>1 DEF DiagnosisState, Good, Unasked, Known, Fits, Reasoned, Reviewed, Fetchers,
       Planned, Reasoners
  <2>3. Step("clarification_applier", passed, "gap_detector")
    BY <1>3 DEF ClarificationApplier
  <2> QED
    BY <1>1, <2>1, <2>2, <2>3, StepKeeps
<1>4. CASE violations # {}
  <2>1. violations \subseteq Errors
    BY DEF PlanViolations, Errors, Violations
  <2>2. blocked \in DiagnosisState
    BY <1>2, <2>1, AskingType DEF QuestionIds
  <2>3. Good("gap_detector", blocked, found)
    BY <1>0, <2>2 DEF Asking, DiagnosisState, Good, Unasked, Known, Fits, Reasoned, Reviewed,
       Fetchers, Planned, Reasoners
  <2>4. Step("clarification_applier", blocked, "gap_detector")
    BY <1>4 DEF ClarificationApplier
  <2> QED
    BY <1>1, <2>2, <2>3, <2>4, StepKeeps
<1> QED
  BY <1>3, <1>4

\* One template is routed to: it is in the registry, and fits a device that is known.
LEMMA RoutedFits ==
    ASSUME Cardinality(Routed) = 1
    PROVE  LET t == CHOOSE t \in Routed : TRUE
           IN t \in Templates /\ t # NoTemplate /\ (st.device = "full" => t \in Fitting)
<1>1. Routed # {}
  BY FS_EmptySet
<1>2. (CHOOSE t \in Routed : TRUE) \in Routed
  BY <1>1
<1> QED
  BY <1>2, TemplatesAssumption DEF Routed, Routable

LEMMA PlanBuilderKeeps ==
    ASSUME Inv, PlanBuilder
    PROVE  Inv'
<1> DEFINE t == CHOOSE t \in Routed : TRUE
           violations == PlanViolations(t)
           asking == Asking(st, "template_route", {"NO_TEMPLATE"})
           blocked == [st EXCEPT !.template = t, !.decision = "BLOCKED", !.errors = violations]
           ready == [st EXCEPT !.template = t, !.decision = "PASSED", !.phase = "PLAN_READY"]
<1>0. st \in DiagnosisState /\ Good("plan_builder", st, found)
  BY DEF Inv, TypeOK, PlanBuilder, Step
<1>1. {"plan_builder", "clarification_generator", "timeseries_fetcher"} \subseteq Nodes
  BY DEF Nodes
<1>2. CASE Cardinality(Routed) # 1
  <2>1. asking \in DiagnosisState
    BY <1>0, AskingType DEF QuestionIds, Errors
  <2>2. Good("clarification_generator", asking, found)
    BY <1>0, <2>1 DEF Asking, DiagnosisState, Good, Unasked, Known, Fits, Reasoned, Reviewed,
       Fetchers, Planned, Reasoners
  <2>3. Step("plan_builder", asking, "clarification_generator")
    BY <1>2 DEF PlanBuilder
  <2> QED
    BY <1>1, <2>1, <2>2, <2>3, StepKeeps
<1>3. CASE Cardinality(Routed) = 1 /\ violations # {}
  <2>0. t \in Templates /\ t # NoTemplate /\ (st.device = "full" => t \in Fitting)
    BY <1>3, RoutedFits
  <2>1. violations \subseteq Errors
    BY DEF PlanViolations, Errors, Violations
  <2> HIDE DEF t, violations
  <2>2. blocked \in DiagnosisState
    BY <1>0, <2>0, <2>1 DEF DiagnosisState
  <2>3. Good("clarification_generator", blocked, found)
    BY <1>0, <2>0, <2>2 DEF DiagnosisState, Good, Unasked, Known, Fits, Reasoned, Reviewed,
       Fetchers, Planned, Reasoners
  <2>4. Step("plan_builder", blocked, "clarification_generator")
    BY <1>3 DEF PlanBuilder, t, violations
  <2> QED
    BY <1>1, <2>2, <2>3, <2>4, StepKeeps
<1>4. CASE Cardinality(Routed) = 1 /\ violations = {}
  <2>0. t \in Templates /\ t # NoTemplate /\ (st.device = "full" => t \in Fitting)
    BY <1>4, RoutedFits
  <2> HIDE DEF t, violations
  <2>1. ready \in DiagnosisState
    BY <1>0, <2>0 DEF DiagnosisState, Phases
  <2>2. Good("timeseries_fetcher", ready, found)
    BY <1>0, <2>0, <2>1 DEF DiagnosisState, Good, Unasked, Known, Fits, Reasoned, Reviewed,
       Fetchers, Planned, Reasoners
  <2>3. Step("plan_builder", ready, "timeseries_fetcher")
    BY <1>4 DEF PlanBuilder, t, violations
  <2> QED
    BY <1>1, <2>1, <2>2, <2>3, StepKeeps
<1> QED
  BY <1>2, <1>3, <1>4

\* A node that fetches.
LEMMA FetchKeeps ==
    ASSUME Inv, NEW name \in Nodes, NEW next \in Nodes, NEW new \in DiagnosisState,
           NEW sources \in SUBSET Sources, Good(next, new, found \cup sources),
           Fetched(name, new, sources, next), Odd \/ Plain
    PROVE  Inv'
<1>1. found \cup sources \in SUBSET Sources /\ Running /\ Return(new, next, found \cup sources)
  BY DEF Fetched, Inv, TypeOK, Running
<1>2. odd' \in 0..MaxOdd
  BY OddType DEF Inv
<1> QED
  BY <1>1, <1>2, ReturnKeeps

LEMMA ToolDispatcherKeeps ==
    ASSUME Inv, ToolDispatcher
    PROVE  Inv'
<1>1. PICK got \in SUBSET {"device", "alarm"} :
         /\ IF got = {"device", "alarm"} THEN Plain ELSE Odd
         /\ Fetched("tool_dispatcher",
                    [st EXCEPT !.phase = "DATA_FETCHING",
                               !.device = IF "device" \in got THEN "full" ELSE @,
                               !.alarm = IF "alarm" \in got THEN "full" ELSE @],
                    got, "plan_builder")
  BY DEF ToolDispatcher
<1> DEFINE new == [st EXCEPT !.phase = "DATA_FETCHING",
                             !.device = IF "device" \in got THEN "full" ELSE @,
                             !.alarm = IF "alarm" \in got THEN "full" ELSE @]
<1>2. st \in DiagnosisState /\ Good("tool_dispatcher", st, found)
  BY <1>1 DEF Inv, TypeOK, Fetched
<1>3. new \in DiagnosisState
  BY <1>2 DEF DiagnosisState, Phases
<1>4. Good("plan_builder", new, found \cup got)
  BY <1>2, <1>3 DEF DiagnosisState, Good, Unasked, Known, Fits, Reasoned, Reviewed, Fetchers,
     Planned, Reasoners
<1>5. got \in SUBSET Sources /\ {"tool_dispatcher", "plan_builder"} \subseteq Nodes
  BY DEF Sources, Nodes
<1>6. Odd \/ Plain
  BY <1>1
<1> QED
  BY <1>1, <1>3, <1>4, <1>5, <1>6, FetchKeeps

\* The fetchers between the plan and the aggregator change nothing but degraded.
LEMMA PlannedKeeps ==
    ASSUME Inv, NEW name \in Planned \ {"evidence_aggregator"}, NEW next \in Planned,
           NEW sources \in SUBSET (Sources \ {"device"}), NEW lost \in SUBSET Components,
           Fetched(name, [st EXCEPT !.degraded = @ \cup lost], sources, next), Odd \/ Plain
    PROVE  Inv'
<1> DEFINE new == [st EXCEPT !.degraded = @ \cup lost]
<1>1. st \in DiagnosisState /\ Good(name, st, found)
  BY DEF Inv, TypeOK, Fetched
<1>2. new \in DiagnosisState
  BY <1>1 DEF DiagnosisState
<1>3. Good(next, new, found \cup sources)
  BY <1>1, <1>2 DEF DiagnosisState, Good, Unasked, Known, Fits, Reasoned, Reviewed, Fetchers,
     Planned, Reasoners
<1>4. name \in Nodes /\ next \in Nodes
  BY DEF Planned, Nodes
<1> QED
  BY <1>2, <1>3, <1>4, FetchKeeps

LEMMA TimeseriesFetcherKeeps ==
    ASSUME Inv, TimeseriesFetcher
    PROVE  Inv'
<1>1. PICK status \in {"OK", "NOT_FOUND"} \cup Failures :
         /\ IF status = "OK" THEN Plain ELSE Odd
         /\ Fetched("timeseries_fetcher",
                    [st EXCEPT !.degraded = @ \cup IF status \in Failures THEN {"influxdb"} ELSE {}],
                    IF status = "OK" THEN {"timeseries"} ELSE {},
                    "ticket_fetcher")
  BY DEF TimeseriesFetcher
<1> DEFINE lost == IF status \in Failures THEN {"influxdb"} ELSE {}
           sources == IF status = "OK" THEN {"timeseries"} ELSE {}
<1>2. lost \in SUBSET Components /\ sources \in SUBSET (Sources \ {"device"})
  BY DEF Components, Sources
<1>3. Odd \/ Plain
  BY <1>1
<1>4. {"timeseries_fetcher", "ticket_fetcher"} \subseteq Planned
  BY DEF Planned
<1>5. Fetched("timeseries_fetcher", [st EXCEPT !.degraded = @ \cup lost], sources, "ticket_fetcher")
  BY <1>1
<1> HIDE DEF lost, sources
<1> QED
  BY <1>2, <1>3, <1>4, <1>5, PlannedKeeps

LEMMA GraphFetcherKeeps ==
    ASSUME Inv, GraphFetcher
    PROVE  Inv'
<1>1. PICK status \in {"OK", "NOT_FOUND"} \cup Failures :
         /\ IF status = "OK" THEN Plain ELSE Odd
         /\ Fetched("graph_fetcher",
                    [st EXCEPT !.degraded = @ \cup IF status = "DEGRADED" THEN {"neo4j"} ELSE {}],
                    IF status = "OK" THEN {"graph"} ELSE {},
                    "evidence_aggregator")
  BY DEF GraphFetcher
<1> DEFINE lost == IF status = "DEGRADED" THEN {"neo4j"} ELSE {}
           sources == IF status = "OK" THEN {"graph"} ELSE {}
<1>2. lost \in SUBSET Components /\ sources \in SUBSET (Sources \ {"device"})
  BY DEF Components, Sources
<1>3. Odd \/ Plain
  BY <1>1
<1>4. {"graph_fetcher", "evidence_aggregator"} \subseteq Planned
  BY DEF Planned
<1>5. Fetched("graph_fetcher", [st EXCEPT !.degraded = @ \cup lost], sources, "evidence_aggregator")
  BY <1>1
<1> HIDE DEF lost, sources
<1> QED
  BY <1>2, <1>3, <1>4, <1>5, PlannedKeeps

\* The two nodes that search.
LEMMA SearchedKeeps ==
    ASSUME Inv, NEW name \in Planned \ {"evidence_aggregator"}, NEW next \in Planned,
           NEW sources \in SUBSET (Sources \ {"device"}), Searched(name, sources, next)
    PROVE  Inv'
<1>1. PICK got \in SUBSET sources, partial \in BOOLEAN :
         /\ IF got # {} /\ ~partial THEN Plain ELSE Odd
         /\ Fetched(name, [st EXCEPT !.degraded = @ \cup IF partial THEN {"retrieval"} ELSE {}],
                    got, next)
  BY DEF Searched
<1> DEFINE lost == IF partial THEN {"retrieval"} ELSE {}
<1>2. lost \in SUBSET Components /\ got \in SUBSET (Sources \ {"device"})
  BY DEF Components
<1>3. Odd \/ Plain
  BY <1>1
<1>4. Fetched(name, [st EXCEPT !.degraded = @ \cup lost], got, next)
  BY <1>1
<1> HIDE DEF lost
<1> QED
  BY <1>2, <1>3, <1>4, PlannedKeeps

LEMMA SearchesKeep ==
    ASSUME Inv, TicketFetcher \/ DocRetriever
    PROVE  Inv'
<1>1. {"ticket_fetcher", "doc_retriever", "graph_fetcher"} \subseteq Planned \ {"evidence_aggregator"}
  BY DEF Planned
<1>2. {"ticket", "case"} \in SUBSET (Sources \ {"device"}) /\ {"manual"} \in SUBSET (Sources \ {"device"})
  BY DEF Sources
<1> QED
  BY <1>1, <1>2, SearchedKeeps DEF TicketFetcher, DocRetriever

LEMMA EvidenceAggregatorKeeps ==
    ASSUME Inv, EvidenceAggregator
    PROVE  Inv'
<1> DEFINE new == [st EXCEPT !.phase = "EVIDENCE_READY", !.evidence = found]
<1>0. st \in DiagnosisState /\ Good("evidence_aggregator", st, found) /\ found \subseteq Sources
  BY DEF Inv, TypeOK, EvidenceAggregator, Step
<1>1. new \in DiagnosisState
  BY <1>0 DEF DiagnosisState, Phases
<1>2. Good("gap_detector", new, found)
  BY <1>0, <1>1 DEF DiagnosisState, Good, Unasked, Known, Fits, Reasoned, Reviewed, Fetchers,
     Planned, Reasoners
<1>3. {"evidence_aggregator", "gap_detector"} \subseteq Nodes
  BY DEF Nodes
<1> QED
  BY <1>1, <1>2, <1>3, StepKeeps DEF EvidenceAggregator

\* What is missing depends on the evidence and the answers alone.
LEMMA MissingOf ==
    ASSUME NEW s, NEW u, s.evidence = u.evidence, s.feedback = u.feedback
    PROVE  Missing(s) = Missing(u)
BY DEF Missing

LEMMA GapDetectorKeeps ==
    ASSUME Inv, GapDetector
    PROVE  Inv'
<1> DEFINE new == [st EXCEPT !.errors = Missing(st)]
           next == IF Missing(st) = {} THEN "reason_generator" ELSE "clarification_generator"
<1>0. st \in DiagnosisState /\ Good("gap_detector", st, found)
  BY DEF Inv, TypeOK, GapDetector, Step
<1>1. Missing(st) \subseteq Errors
  BY DEF Missing, Errors, Gaps
<1>2. new \in DiagnosisState
  BY <1>0, <1>1 DEF DiagnosisState
<1>3. new.evidence = st.evidence /\ new.feedback = st.feedback
  BY <1>0 DEF DiagnosisState
<1>4. Missing(new) = Missing(st)
  BY <1>3, MissingOf
<1>5. Good(next, new, found)
  BY <1>0, <1>2, <1>4 DEF DiagnosisState, Good, Unasked, Known, Fits, Reasoned, Reviewed, Fetchers,
     Planned, Reasoners
<1>6. {"gap_detector", "reason_generator", "clarification_generator"} \subseteq Nodes
  BY DEF Nodes
<1> QED
  BY <1>2, <1>5, <1>6, StepKeeps DEF GapDetector

LEMMA ClarificationGeneratorKeeps ==
    ASSUME Inv, ClarificationGenerator
    PROVE  Inv'
<1> DEFINE gaps == {<<1, "gap_1">>, <<2, "gap_2">>, <<3, "gap_3">>}
           own == IF st.questions # {} THEN st.questions
                  ELSE {g[2] : g \in {x \in gaps : x[1] <= Cardinality(st.errors)}}
<1>1. PICK qs \in {own, {"model"}, {}} :
         /\ IF qs = own THEN Plain ELSE Odd
         /\ node = "clarification_generator"
         /\ Return([st EXCEPT !.phase = "NEED_USER_INPUT", !.questions = qs], "idle", found)
  BY DEF ClarificationGenerator
<1> DEFINE new == [st EXCEPT !.phase = "NEED_USER_INPUT", !.questions = qs]
<1>2. st \in DiagnosisState /\ Good("clarification_generator", st, found) /\ found \in SUBSET Sources
  BY <1>1 DEF Inv, TypeOK
<1>3. qs \subseteq QuestionIds
  <2>1. own \subseteq QuestionIds
    BY <1>2 DEF QuestionIds, DiagnosisState
  <2> QED
    BY <2>1 DEF QuestionIds
<1> HIDE DEF own
<1>4. new \in DiagnosisState
  BY <1>2, <1>3 DEF DiagnosisState, Phases
<1>5. Good("idle", new, {})
  BY <1>2, <1>4 DEF DiagnosisState, Good, Unasked, Known, Fits, Reasoned, Reviewed, Fetchers,
     Planned, Reasoners
<1>6. "idle" \in Nodes \cup Outside /\ "idle" \notin Nodes /\ Running
  BY <1>1 DEF Nodes, Outside, Running
<1>7. odd' \in 0..MaxOdd
  BY <1>1, OddType DEF Inv
<1> QED
  BY <1>1, <1>2, <1>4, <1>5, <1>6, <1>7, ReturnKeeps

LEMMA ReasonGeneratorKeeps ==
    ASSUME Inv, ReasonGenerator
    PROVE  Inv'
<1>1. PICK causes \in UpToTwo(IF HasModel THEN Supports ELSE RuleSupports) :
         /\ IF causes = {{"other"}} THEN Plain ELSE Odd
         /\ Fetched("reason_generator",
                    [st EXCEPT !.phase = "DRAFT_READY", !.causes = causes], {},
                    "response_generator")
  BY DEF ReasonGenerator
<1> DEFINE new == [st EXCEPT !.phase = "DRAFT_READY", !.causes = causes]
<1>2. st \in DiagnosisState /\ Good("reason_generator", st, found)
  BY <1>1 DEF Inv, TypeOK, Fetched
<1>3. causes \subseteq Supports
  <2>1. \A s \in (IF HasModel THEN Supports ELSE RuleSupports) : s \in Supports
    BY DEF RuleSupports
  <2> QED
    BY <2>1 DEF UpToTwo
<1>4. new \in DiagnosisState
  BY <1>2, <1>3 DEF DiagnosisState, Phases
<1>5. new.evidence = st.evidence /\ new.feedback = st.feedback
  BY <1>2 DEF DiagnosisState
<1>6. Missing(new) = Missing(st)
  BY <1>5, MissingOf
<1>7. Good("response_generator", new, found \cup {})
  BY <1>2, <1>4, <1>6 DEF DiagnosisState, Good, Unasked, Known, Fits, Reasoned, Reviewed, Fetchers,
     Planned, Reasoners
<1>8. {} \in SUBSET Sources /\ {"reason_generator", "response_generator"} \subseteq Nodes
  BY DEF Nodes
<1>9. Odd \/ Plain
  BY <1>1
<1> QED
  BY <1>1, <1>4, <1>7, <1>8, <1>9, FetchKeeps

LEMMA ResponseGeneratorKeeps ==
    ASSUME Inv, ResponseGenerator
    PROVE  Inv'
<1> DEFINE draft == [causes |-> st.causes, byModel |-> FALSE, blank |-> FALSE, notes |-> TRUE]
           written == [causes : {{}, {{"other"}}, Supports}, byModel : {TRUE},
                       blank : BOOLEAN, notes : BOOLEAN]
<1>1. PICK r \in {draft} \cup written :
         /\ IF r = draft THEN Plain ELSE Odd
         /\ Fetched("response_generator", [st EXCEPT !.response = r], {}, "rule_checker")
  BY DEF ResponseGenerator
<1> DEFINE new == [st EXCEPT !.response = r]
<1>2. st \in DiagnosisState /\ Good("response_generator", st, found)
  BY <1>1 DEF Inv, TypeOK, Fetched
<1>3. r \in Response /\ (~r.byModel => r.causes = st.causes)
  <2>1. draft \in Response
    BY <1>2 DEF DiagnosisState, Response
  <2>2. {{}, {{"other"}}, Supports} \subseteq SUBSET Supports
    BY DEF Supports
  <2>3. written \subseteq Response
    BY <2>2 DEF Response
  <2>4. \A w \in written : w.byModel
    OBVIOUS
  <2>5. draft.causes = st.causes
    OBVIOUS
  <2> HIDE DEF draft, written
  <2> QED
    BY <2>1, <2>3, <2>4, <2>5
<1>4. new \in DiagnosisState
  BY <1>2, <1>3 DEF DiagnosisState
<1>5. new.evidence = st.evidence /\ new.feedback = st.feedback
  BY <1>2 DEF DiagnosisState
<1>6. Missing(new) = Missing(st)
  BY <1>5, MissingOf
<1>7. Good("rule_checker", new, found \cup {})
  BY <1>2, <1>3, <1>4, <1>6 DEF DiagnosisState, Good, Unasked, Known, Fits, Reasoned, Reviewed,
     Fetchers, Planned, Reasoners
<1>8. {} \in SUBSET Sources /\ {"response_generator", "rule_checker"} \subseteq Nodes
  BY DEF Nodes
<1>9. Odd \/ Plain
  BY <1>1
<1> QED
  BY <1>1, <1>4, <1>7, <1>8, <1>9, FetchKeeps

-----------------------------------------------------------------------------
(* rule_checker *)

\* A cause without violations cites evidence that exists and is not only the graph's.
LEMMA SupportedCites ==
    ASSUME NEW s \in Supports, CauseViolations(s) = {}
    PROVE  s \cap {"other", "unknown"} = {"other"}
BY DEF Supports, CauseViolations

\* What sanitize_response keeps of a response.
LEMMA SanitizedType ==
    ASSUME NEW r \in Response, NEW causes \in SUBSET Supports
    PROVE  /\ Sanitized(r, causes) \in Response
           /\ Sanitized(r, causes).notes = r.notes
           /\ Sanitized(r, causes).blank => r.blank
           /\ (~r.byModel => r.causes = causes) =>
                 LET s == Sanitized(r, causes) IN ~s.byModel => s.causes = Supported(causes)
<1>1. Supported(causes) \subseteq Supports
  BY DEF Supported
<1>2. ASSUME Judged(causes) \cap Unsafe = {} PROVE Supported(causes) = causes
  <2>1. ASSUME NEW s \in causes PROVE CauseViolations(s) = {}
    <3>1. CauseViolations(s) \subseteq Unsafe
      BY DEF CauseViolations, Unsafe
    <3>2. CauseViolations(s) \subseteq Judged(causes)
      BY DEF Judged
    <3> QED
      BY <1>2, <3>1, <3>2
  <2> QED
    BY <2>1 DEF Supported
<1> QED
  BY <1>1, <1>2 DEF Sanitized, Response

\* A response that check_output has nothing against.
LEMMA OutputCleared ==
    ASSUME st \in DiagnosisState, st.response \in Response, OutputViolations = {}
    PROVE  /\ ~st.response.blank
           /\ st.template \in RiskyTemplates =>
                 /\ st.response.notes
                 /\ Cardinality(st.evidence \cap {"timeseries", "manual", "ticket", "case"}) >= 2
<1>1. st.evidence \ {"graph", "device", "alarm"}
         = st.evidence \cap {"timeseries", "manual", "ticket", "case"}
  BY DEF DiagnosisState, Sources
<1>2. IsFiniteSet(st.evidence \cap {"timeseries", "manual", "ticket", "case"})
  <2>1. IsFiniteSet({"timeseries"} \cup {"manual"} \cup {"ticket"} \cup {"case"})
    BY FS_Singleton, FS_Union
  <2> QED
    BY <2>1, FS_Subset
<1>3. Cardinality(st.evidence \ {"graph", "device", "alarm"}) \in Nat
  BY <1>1, <1>2, FS_CardinalityType
<1>4. ~st.response.blank
  BY DEF OutputViolations
<1>5. ASSUME st.template \in RiskyTemplates
      PROVE  st.response.notes /\ ~(Cardinality(st.evidence \ {"graph", "device", "alarm"}) < 2)
  BY <1>5 DEF OutputViolations
<1> QED
  BY <1>1, <1>3, <1>4, <1>5

LEMMA RuleCheckerKeeps ==
    ASSUME Inv, RuleChecker
    PROVE  Inv'
<1> DEFINE kept == Supported(st.causes)
           violations == Judged(kept) \cup IF kept = {} THEN {"NO_VERIFIABLE_ROOT_CAUSE"} ELSE {}
           answer == Sanitized(st.response, st.causes)
           new == [st EXCEPT !.causes = kept, !.response = answer]
           passed == [new EXCEPT !.phase = "REVIEWING", !.decision = "PASSED"]
           stopped == [new EXCEPT !.errors = @ \cup violations,
                                  !.decision = IF kept = {} THEN "NEED_USER_INPUT" ELSE "BLOCKED"]
<1>0. st \in DiagnosisState /\ Good("rule_checker", st, found)
  BY DEF Inv, TypeOK, RuleChecker, Step
<1>1. st.response \in Response /\ st.causes \subseteq Supports
  BY <1>0 DEF Good, Reasoned, DiagnosisState
<1>2. kept \subseteq Supports
  BY <1>1 DEF Supported
<1>3. /\ answer \in Response /\ answer.notes = st.response.notes
      /\ answer.blank => st.response.blank
      /\ ~answer.byModel => answer.causes = kept
  BY <1>0, <1>1, SanitizedType DEF Good, Reasoned
<1>4. {"rule_checker", "memory_writer", "clarification_generator"} \subseteq Nodes
  BY DEF Nodes
<1>5. violations \subseteq Errors
  <2>1. \A s \in kept : CauseViolations(s) \subseteq Errors
    BY DEF CauseViolations, Errors, Violations, Unsafe
  <2>2. OutputViolations \subseteq Errors
    BY DEF OutputViolations, Errors, Violations
  <2> QED
    BY <2>1, <2>2 DEF Judged, Errors, Violations
<1>6. CASE violations = {}
  <2>1. OutputViolations = {} /\ kept # {}
    BY <1>6 DEF Judged
  <2>2. \A s \in kept : s \cap {"other", "unknown"} = {"other"}
    <3>1. \A s \in kept : CauseViolations(s) = {} /\ s \in Supports
      BY <1>2 DEF Supported
    <3> QED
      BY <3>1, SupportedCites
  <2>3. Step("rule_checker", passed, "memory_writer")
    BY <1>6 DEF RuleChecker
  <2>4. /\ ~st.response.blank
        /\ st.template \in RiskyTemplates =>
              /\ st.response.notes
              /\ Cardinality(st.evidence \cap {"timeseries", "manual", "ticket", "case"}) >= 2
    BY <1>0, <1>1, <2>1, OutputCleared
  <2> HIDE DEF kept, answer
  <2>5. passed \in DiagnosisState
    BY <1>0, <1>2, <1>3 DEF DiagnosisState, Phases
  <2>6. /\ passed.evidence = st.evidence /\ passed.feedback = st.feedback
        /\ passed.device = st.device /\ passed.template = st.template
        /\ passed.response = answer /\ passed.causes = kept /\ passed.phase = "REVIEWING"
    BY <1>0 DEF DiagnosisState
  <2> HIDE DEF passed
  <2>7. Missing(passed) = Missing(st)
    BY <2>6, MissingOf
  <2>8. Cleared(passed)
    BY <1>3, <2>1, <2>2, <2>4, <2>6 DEF Cleared
  <2>9. Good("memory_writer", passed, found)
    BY <1>0, <1>3, <2>6, <2>7, <2>8 DEF Good, Unasked, Known, Fits, Reasoned, Reviewed,
       Fetchers, Planned, Reasoners
  <2> QED
    BY <1>4, <2>3, <2>5, <2>9, StepKeeps
<1>7. CASE violations # {}
  <2>1. Step("rule_checker", stopped, "clarification_generator")
    BY <1>7 DEF RuleChecker
  <2> HIDE DEF kept, answer, violations
  <2>2. stopped \in DiagnosisState
    BY <1>0, <1>2, <1>3, <1>5 DEF DiagnosisState
  <2>3. Good("clarification_generator", stopped, found)
    BY <1>0, <2>2 DEF DiagnosisState, Good, Unasked, Known, Fits, Reasoned, Reviewed,
       Fetchers, Planned, Reasoners
  <2> QED
    BY <1>4, <2>1, <2>2, <2>3, StepKeeps
<1> QED
  BY <1>6, <1>7

LEMMA MemoryWriterKeeps ==
    ASSUME Inv, MemoryWriter
    PROVE  Inv'
<1> DEFINE new == [st EXCEPT !.phase = "COMPLETED"]
<1>0. st \in DiagnosisState /\ Good("memory_writer", st, found) /\ found \in SUBSET Sources
  BY DEF Inv, TypeOK, MemoryWriter, Step
<1>1. new \in DiagnosisState
  BY <1>0 DEF DiagnosisState, Phases
<1>2. /\ new.evidence = st.evidence /\ new.feedback = st.feedback
      /\ new.device = st.device /\ new.template = st.template
      /\ new.response = st.response /\ new.causes = st.causes
  BY <1>0 DEF DiagnosisState
<1> HIDE DEF new
<1>3. Missing(new) = Missing(st)
  BY <1>2, MissingOf
<1>4. Cleared(new)
  BY <1>0, <1>2 DEF Good, Reviewed, Cleared
<1>5. Good("completed", new, {})
  BY <1>0, <1>2, <1>3, <1>4 DEF Good, Unasked, Known, Fits, Reasoned, Reviewed, Fetchers, Planned,
     Reasoners
<1>6. "completed" \in Nodes \cup Outside /\ "completed" \notin Nodes
  BY DEF Nodes, Outside
<1>7. Running /\ Return(new, "completed", found) /\ odd' \in 0..MaxOdd
  BY DEF MemoryWriter, Step, Running, Nodes, Inv, TypeOK, new
<1> QED
  BY <1>0, <1>1, <1>5, <1>6, <1>7, ReturnKeeps

-----------------------------------------------------------------------------
(* The beginning and the end of a turn *)

\* A session without memory, for the row it has.
LEMMA BlankGood ==
    ASSUME NEW r \in [device : {"none", "id"}, alarm : {"none", "id", "full"}]
    PROVE  Blank(r) \in DiagnosisState /\ Good("idle", Blank(r), {})
<1>1. Blank(r) \in DiagnosisState
  BY DEF Blank, DiagnosisState, Phases
<1>2. Good("idle", Blank(r), {})
  BY DEF Blank, Good, Unasked, Known, Fits, Reasoned, Reviewed, Fetchers, Planned, Reasoners
<1> QED
  BY <1>1, <1>2

LEMMA InitInv == Init => Inv
<1> SUFFICES ASSUME Init PROVE Inv
  OBVIOUS
<1>1. row \in [device : {"none", "id"}, alarm : {"none", "id", "full"}]
  BY DEF Init
<1>2. st \in DiagnosisState /\ Good(node, st, found)
  BY <1>1, BlankGood DEF Init
<1>3. follow \in BOOLEAN
  BY DEF Init
<1>4. turns \in 0..MaxTurns /\ odd \in 0..MaxOdd
  BY WorkflowBounds DEF Init
<1>5. "idle" \notin Nodes
  BY DEF Nodes
<1> QED
  BY <1>1, <1>2, <1>3, <1>4, <1>5 DEF Init, Inv, TypeOK, Spoken

LEMMA BeginKeeps ==
    ASSUME Inv, Begin
    PROVE  Inv'
<1>1. PICK m \in Messages, f \in BOOLEAN, answered \in {{}, st.questions \ st.feedback} :
         msg' = m /\ follow' = f /\ st' = Restored(st, answered)
  BY DEF Begin
<1>2. st \in DiagnosisState /\ Good(node, st, found)
  BY DEF Inv, TypeOK
<1>3. answered \subseteq QuestionIds
  BY <1>2 DEF DiagnosisState
<1>4. st' \in DiagnosisState
  BY <1>1, <1>2, <1>3 DEF Restored, DiagnosisState, Phases
<1>5. /\ st'.questions = {} /\ st'.evidence = st.evidence
      /\ st'.device = st.device /\ st'.template = st.template
  BY <1>1, <1>2 DEF Restored, DiagnosisState
<1>6. node' = "intent_router" /\ found' = {}
  BY DEF Begin
<1>7. Good(node', st', found')
  BY <1>2, <1>5, <1>6 DEF Good, Unasked, Known, Fits, Reasoned, Reviewed, Fetchers, Planned, Reasoners
<1>8. turns' \in 0..MaxTurns
  BY WorkflowBounds DEF Begin, Inv, TypeOK
<1>9. "intent_router" \in Nodes
  BY DEF Nodes
<1>10. follow' \in BOOLEAN
  BY <1>1
<1> QED
  BY <1>1, <1>4, <1>6, <1>7, <1>8, <1>9, <1>10 DEF Begin, Inv, TypeOK, Spoken

LEMMA StopKeeps ==
    ASSUME Inv, Cancelled \/ Raises
    PROVE  Inv'
<1>1. odd' \in 0..MaxOdd
  BY OddType DEF Cancelled, Raises, Inv
<1>2. PICK next \in {"idle", "failed"} : Leave(next, found)
  BY DEF Cancelled, Raises
<1>3. next \in Nodes \cup Outside /\ next \notin Nodes /\ found \in SUBSET Sources
  BY DEF Nodes, Outside, Inv, TypeOK
<1>4. /\ node' = next
      /\ msg' \in Messages \cup {NoMessage}
      /\ follow' \in BOOLEAN
      /\ found' = {}
      /\ row' = row
      /\ turns' = turns
  BY <1>2, <1>3, LeaveType DEF Inv
<1>5. st' = st \/ st' = [st EXCEPT !.phase = "FAILED"]
  BY DEF Cancelled, Raises
<1>6. st' \in DiagnosisState /\ Good(node', st', found')
  BY <1>4, <1>5, StoppedGood DEF Inv, TypeOK
<1> QED
  BY <1>1, <1>3, <1>4, <1>6 DEF Inv, TypeOK, Spoken, Outside

LEMMA MemoryExpiresKeeps ==
    ASSUME Inv, MemoryExpires
    PROVE  Inv'
<1>1. odd' \in 0..MaxOdd
  BY OddType DEF MemoryExpires, Inv
<1>2. Blank(row) \in DiagnosisState /\ Good("idle", Blank(row), {})
  BY BlankGood DEF Inv, TypeOK
<1>3. node = "idle" /\ node \notin Nodes /\ found = {}
  BY DEF MemoryExpires, Inv, Spoken, Nodes
<1> QED
  BY <1>1, <1>2, <1>3 DEF MemoryExpires, Inv, TypeOK, Spoken

LEMMA NextInv ==
    ASSUME Inv, [Next]_vars
    PROVE  Inv'
<1>1. CASE UNCHANGED vars
  BY <1>1 DEF vars, Inv, TypeOK, Spoken, Good, Unasked, Known, Fits, Reasoned, Reviewed, Cleared,
     Missing
<1>2. CASE NodeStep
  BY <1>2, IntentRouterKeeps, EntityParserKeeps, ClarificationApplierKeeps, PlanBuilderKeeps,
     ToolDispatcherKeeps, TimeseriesFetcherKeeps, SearchesKeep, GraphFetcherKeeps,
     EvidenceAggregatorKeeps, GapDetectorKeeps, ClarificationGeneratorKeeps, ReasonGeneratorKeeps,
     ResponseGeneratorKeeps, RuleCheckerKeeps, MemoryWriterKeeps
  DEF NodeStep
<1> QED
  BY <1>1, <1>2, BeginKeeps, StopKeeps, MemoryExpiresKeeps DEF Next

LEMMA SpecInv == Spec => []Inv
BY InitInv, NextInv, PTL DEF Spec

-----------------------------------------------------------------------------
(* The theorems *)

\* The assert statements of the nodes hold in every turn, whatever an earlier one that
\* was cancelled, failed or forgotten left in the memory: the parser is the only way to
\* the fetchers, and nobody reasons without the device, whose presence in the evidence
\* means that the plan has a template.
THEOREM NodesMeetTheirAsserts == Spec => []AssertionsHold
<1>1. Inv => AssertionsHold
  <2> SUFFICES ASSUME Inv PROVE AssertionsHold
    OBVIOUS
  <2>1. node \in {"reason_generator", "response_generator"} => st.template # NoTemplate
    <3> SUFFICES ASSUME node \in {"reason_generator", "response_generator"}
                 PROVE  st.template # NoTemplate
      OBVIOUS
    <3>1. Missing(st) = {}
      BY DEF Inv, Good, Reasoned, Reasoners
    <3>2. "device" \in st.evidence
      BY <3>1 DEF Missing
    <3> QED
      BY <3>2, TemplatesAssumption DEF Inv, Good, Fits
  <2>2. node \in Fetchers => "none" \notin {st.device, st.alarm}
    BY DEF Inv, Good, Known
  <2>3. node = "timeseries_fetcher" => st.template # NoTemplate
    BY DEF Inv, Good, Fits, Planned
  <2> QED
    BY <2>1, <2>2, <2>3 DEF Inv, AssertionsHold, Fetchers, Planned
<1> QED
  BY <1>1, SpecInv, PTL

\* A diagnosis is completed only on the device, the alarm, some knowledge and the time
\* series or an answer, and by a template for the type of the device, in any sequence of
\* turns, lost memories and failing tools.
THEOREM ConclusionsAreGrounded == Spec => []ConclusionIsGrounded
<1>1. Inv => ConclusionIsGrounded
  <2> SUFFICES ASSUME Inv, node = "completed"
               PROVE  /\ {"device", "alarm"} \subseteq st.evidence
                      /\ st.evidence \cap {"manual", "ticket", "case"} # {}
                      /\ "timeseries" \in st.evidence \/ st.feedback # {}
                      /\ st.template \in Fitting
    BY DEF ConclusionIsGrounded
  <2>1. Missing(st) = {}
    BY DEF Inv, Good, Reasoned, Reasoners
  <2>2. "device" \in st.evidence /\ "alarm" \in st.evidence
    BY <2>1 DEF Missing
  <2>3. st.evidence \cap {"manual", "ticket", "case"} # {}
    BY <2>1 DEF Missing
  <2>4. "timeseries" \in st.evidence \/ st.feedback # {}
    BY <2>1 DEF Missing
  <2>5. st.template \in Fitting
    BY <2>2 DEF Inv, Good, Fits
  <2> QED
    BY <2>2, <2>3, <2>4, <2>5
<1> QED
  BY <1>1, SpecInv, PTL

\* Whatever causes the model named in reason_generator, the state that completes has
\* passed the guardrails, though rule_checker judges the draft before it sanitizes it;
\* a response that the model did not write anew has the causes that passed.
THEOREM ConclusionsAreGuarded == Spec => []ConclusionIsGuarded
<1>1. Inv => ConclusionIsGuarded
  BY DEF Inv, Good, Reasoned, Reviewed, Cleared, ConclusionIsGuarded
<1> QED
  BY <1>1, SpecInv, PTL

-----------------------------------------------------------------------------
(* The nodes as DiagnosisSession sees them *)

\* What NodesAsInSession allows a node.
AsInSession ==
    SessionNode \/ SessionNodeStops \/ SessionNodeAsks \/ SessionNodeCompletes \/ node' = "failed"

\* A node that returns to the graph goes on as Node does, or has asked.
LEMMA GoesOn ==
    ASSUME NEW new, NEW next \in Nodes, NEW data, Return(new, next, data),
           \/ Coarse(new.phase) \in {Coarse(st.phase), "WORKING"} /\ new.questions = st.questions
           \/ new.phase = "NEED_USER_INPUT" /\ new.questions # {}
    PROVE  AsInSession
<1>1. CASE Valid(new)
  <2>1. node' = next /\ st' = new
    BY <1>1 DEF Return, Leave
  <2> QED
    BY <2>1 DEF AsInSession, SessionNode, SessionNodeStops
<1>2. CASE ~Valid(new)
  BY <1>2 DEF Return, Leave, AsInSession
<1> QED
  BY <1>1, <1>2

LEMMA AskedIsAsked ==
    ASSUME NEW s \in DiagnosisState, NEW q, NEW e, NEW d
    PROVE  /\ Asking(s, q, e).phase = "NEED_USER_INPUT" /\ Asking(s, q, e).questions # {}
           /\ [Asking(s, q, e) EXCEPT !.decision = d].phase = "NEED_USER_INPUT"
           /\ [Asking(s, q, e) EXCEPT !.decision = d].questions # {}
BY DEF Asking, DiagnosisState

LEMMA NodesAsSession ==
    ASSUME Inv, NodeStep
    PROVE  AsInSession
<1> USE DEF Step, Fetched
<1>0. st \in DiagnosisState /\ Good(node, st, found)
  BY DEF Inv, TypeOK
<1>1. CASE IntentRouter
  BY <1>0, <1>1, GoesOn DEF IntentRouter, Nodes
<1>2. CASE EntityParser
  <2> DEFINE device == Named(st.device, msg.device)
             alarm == Named(st.alarm, msg.alarm)
             blocked == [Asking(st, "guardrail_input", InputViolations) EXCEPT !.decision = "BLOCKED"]
             asking == Asking(st, "missing_entity", {"NO_ENTITY"})
             parsed == [st EXCEPT !.device = device, !.alarm = alarm, !.decision = "PASSED"]
  <2>1. \E new \in {blocked, asking, parsed}, next \in Nodes : Return(new, next, found)
    BY <1>2 DEF EntityParser, Nodes
  <2>2. blocked.phase = "NEED_USER_INPUT" /\ blocked.questions # {}
    BY <1>0, AskedIsAsked
  <2>3. asking.phase = "NEED_USER_INPUT" /\ asking.questions # {}
    BY <1>0, AskedIsAsked
  <2>4. parsed.phase = st.phase /\ parsed.questions = st.questions
    BY <1>0 DEF DiagnosisState
  <2> HIDE DEF blocked, asking, parsed
  <2> QED
    BY <2>1, <2>2, <2>3, <2>4, GoesOn
<1>3. CASE ClarificationApplier
  <2> DEFINE ready == [st EXCEPT !.phase = "EVIDENCE_READY", !.questions = {}, !.errors = {}]
             passed == [ready EXCEPT !.decision = "PASSED"]
             blocked == [Asking(ready, "guardrail_plan", PlanViolations(st.template))
                         EXCEPT !.decision = "BLOCKED"]
  <2>1. \E new \in {blocked, passed}, next \in Nodes : Return(new, next, found)
    BY <1>3 DEF ClarificationApplier, Nodes
  <2>2. ready \in DiagnosisState
    BY <1>0 DEF DiagnosisState, Phases
  <2>3. blocked.phase = "NEED_USER_INPUT" /\ blocked.questions # {}
    BY <2>2, AskedIsAsked
  <2>4. st.questions = {}
    BY <1>0, <1>3 DEF ClarificationApplier, Good, Unasked
  <2>5. Coarse(passed.phase) = "WORKING" /\ passed.questions = st.questions
    BY <1>0, <2>4 DEF DiagnosisState, Coarse
  <2> HIDE DEF blocked, passed
  <2> QED
    BY <2>1, <2>3, <2>5, GoesOn
<1>4. CASE PlanBuilder
  <2> DEFINE t == CHOOSE t \in Routed : TRUE
             asking == Asking(st, "template_route", {"NO_TEMPLATE"})
             blocked == [st EXCEPT !.template = t, !.decision = "BLOCKED",
                                   !.errors = PlanViolations(t)]
             ready == [st EXCEPT !.template = t, !.decision = "PASSED", !.phase = "PLAN_READY"]
  <2>1. \E new \in {asking, blocked, ready}, next \in Nodes : Return(new, next, found)
    BY <1>4 DEF PlanBuilder, Nodes
  <2>2. asking.phase = "NEED_USER_INPUT" /\ asking.questions # {}
    BY <1>0, AskedIsAsked
  <2>3. blocked.phase = st.phase /\ blocked.questions = st.questions
    BY <1>0 DEF DiagnosisState
  <2>4. Coarse(ready.phase) = "WORKING" /\ ready.questions = st.questions
    BY <1>0 DEF DiagnosisState, Coarse
  <2> HIDE DEF asking, blocked, ready
  <2> QED
    BY <2>1, <2>2, <2>3, <2>4, GoesOn
<1>5. CASE ToolDispatcher
  BY <1>0, <1>5, GoesOn DEF ToolDispatcher, Nodes, DiagnosisState, Coarse
<1>6. CASE TimeseriesFetcher
  BY <1>0, <1>6, GoesOn DEF TimeseriesFetcher, Nodes, DiagnosisState
<1>7. CASE TicketFetcher \/ DocRetriever
  BY <1>0, <1>7, GoesOn DEF TicketFetcher, DocRetriever, Searched, Nodes, DiagnosisState
<1>8. CASE GraphFetcher
  BY <1>0, <1>8, GoesOn DEF GraphFetcher, Nodes, DiagnosisState
<1>9. CASE EvidenceAggregator
  BY <1>0, <1>9, GoesOn DEF EvidenceAggregator, Nodes, DiagnosisState, Coarse
<1>10. CASE GapDetector
  BY <1>0, <1>10, GoesOn DEF GapDetector, Nodes, DiagnosisState
<1>11. CASE ClarificationGenerator
  BY <1>0, <1>11 DEF ClarificationGenerator, AsInSession, SessionNodeAsks, Return, Leave, Valid, DiagnosisState
<1>12. CASE ReasonGenerator
  BY <1>0, <1>12, GoesOn DEF ReasonGenerator, Nodes, DiagnosisState, Coarse
<1>13. CASE ResponseGenerator
  BY <1>0, <1>13, GoesOn DEF ResponseGenerator, Nodes, DiagnosisState
<1>14. CASE RuleChecker
  BY <1>0, <1>14, GoesOn DEF RuleChecker, Nodes, DiagnosisState, Coarse
<1>15. CASE MemoryWriter
  BY <1>0, <1>15 DEF MemoryWriter, AsInSession, SessionNodeCompletes, Return, Leave, Valid,
     DiagnosisState, Good, Reviewed, Coarse
<1> QED
  BY <1>1, <1>2, <1>3, <1>4, <1>5, <1>6, <1>7, <1>8, <1>9, <1>10, <1>11, <1>12, <1>13, <1>14,
     <1>15 DEF NodeStep

\* Every node of the graph takes one of the four steps that DiagnosisSession knows of a
\* call in flight, or the call fails: the session's theorems rest on no other.
THEOREM NodesAreSessionSteps == Spec => NodesAsInSession
<1>1. Inv /\ [Next]_vars =>
        [NodeStep => \/ SessionNode \/ SessionNodeStops \/ SessionNodeAsks
                     \/ SessionNodeCompletes \/ node' = "failed"]_vars
  BY NodesAsSession DEF AsInSession
<1> QED
  BY <1>1, SpecInv, PTL DEF Spec, NodesAsInSession
=============================================================================
