------------------------------ MODULE Telemetry ------------------------------
(***************************************************************************)
(* What agents that share one ObservabilityService record                  *)
(* (observability.py, observed.py): spans with one active span per service,*)
(* generations below the active span, and metric rows that are read,       *)
(* changed in memory and written back (record_metric_add,                  *)
(* record_metric_once of repositories.py; READ COMMITTED, no unique        *)
(* constraint).  One metric of each kind stands for those of its kind.     *)
(*                                                                         *)
(* Nothing under src/apps passes an ObservabilityService to its provider:  *)
(* the agents here are those of the class's docstring.                     *)
(***************************************************************************)
EXTENDS Integers, FiniteSetsExt

CONSTANTS
  Agents,      \* asyncio tasks that open agent spans
  Tasks,       \* task ids
  NoTask,      \* task_id None
  MaxSpans,    \* bound: agent spans opened
  MaxGen       \* bound: LLM generations per span

ASSUME TelemetryAssumption == NoTask \notin Tasks /\ MaxSpans \in Nat /\ MaxGen \in Nat

VARIABLES
  agent,       \* [pc, span, task, seen, read, prev, gens] of each agent
  spans,       \* agent spans opened so far; a span is its number, 0 the root
  activeSpan,  \* _active_span
  openSpans,   \* spans that have not ended
  metrics,     \* rows: [id, name, task, value]
  nested,      \* history: generations as <<own span, span recorded below>>
  counted,     \* history: generations committed, by task
  failed,      \* history: tasks a recording of which raised
  overlapped,  \* history: tasks whose metrics two transactions worked on at once
  spansShared, \* history: a span was opened while another one was open
  spansCrossed \* history: a span was closed while another one was active

spanVars == <<spans, activeSpan, openSpans, nested, spansShared, spansCrossed>>
telemetryVars == <<agent, spanVars, metrics, counted, failed, overlapped>>

Owners == Tasks \cup {NoTask}
Names == {"tokens", "energy", "latency"}
Rows == [id : Nat, name : Names, task : Owners, value : Nat]
NoRow == [id |-> 0, value |-> 0]
Idle == [pc |-> "idle", span |-> 0, task |-> NoTask, seen |-> NoRow, read |-> 0,
         prev |-> 0, gens |-> 0]

TelemetryInit ==
  /\ agent = [a \in Agents |-> Idle]
  /\ spans = 0 /\ activeSpan = 0 /\ openSpans = {} /\ metrics = {}
  /\ nested = {} /\ counted = [t \in Owners |-> 0] /\ failed = {} /\ overlapped = {}
  /\ spansShared = FALSE /\ spansCrossed = FALSE

-----------------------------------------------------------------------------
(* Queries.  Without a task record_metric_once() asks for the rows of any task,
   record_metric_add() for those without one. *)
RowsToAdd(name, task) == {r \in metrics : r.name = name /\ r.task = task}
RowsOnce(name, task) == {r \in metrics : r.name = name /\ (task = NoTask \/ r.task = task)}

(* Another agent is in the middle of a transaction over metrics of a's task. *)
Overlaps(a) ==
  \E b \in Agents \ {a} : /\ agent[b].pc \in {"adding", "once", "closing"}
                          /\ agent[b].task = agent[a].task

NoteOverlap(a) ==
  overlapped' = IF Overlaps(a) THEN overlapped \cup {agent[a].task} ELSE overlapped

(* scalar_one_or_none(): one row, none, or MultipleResultsFound *)
Query(a, rows, pc, onError) ==
  /\ NoteOverlap(a)
  /\ IF Cardinality(rows) > 1
     THEN /\ agent' = [agent EXCEPT ![a].pc = onError]
          /\ failed' = failed \cup {agent[a].task}
     ELSE /\ \E r \in IF rows = {} THEN {NoRow} ELSE rows :
               agent' = [agent EXCEPT ![a].pc = pc,
                           ![a].seen = [id |-> r.id, value |-> r.value]]
          /\ UNCHANGED failed

NewRow(name, task, value) ==
  metrics' = metrics \cup
    {[id |-> Cardinality(metrics) + 1, name |-> name, task |-> task, value |-> value]}

(* record_metric_once(): a row only when there was none *)
InsertOnce(a, name, value) ==
  IF agent[a].seen = NoRow THEN NewRow(name, agent[a].task, value) ELSE UNCHANGED metrics

(* A mutant: the new value replaces the old one. *)
WriteOver(a) ==
  metrics' = {IF r.id = agent[a].seen.id THEN [r EXCEPT !.value = 1] ELSE r : r \in metrics}

(* record_metric_add(): the value read before, plus one, is written back. *)
WriteBack(a) ==
  metrics' = {IF r.id = agent[a].seen.id THEN [r EXCEPT !.value = agent[a].seen.value + 1]
              ELSE r : r \in metrics}

-----------------------------------------------------------------------------
(* agent_span(): the span that was active is kept for the end. *)
OpenSpan(a, t) ==
  /\ agent[a].pc = "idle" /\ spans < MaxSpans
  /\ spans' = spans + 1
  /\ agent' = [agent EXCEPT ![a] = [Idle EXCEPT !.pc = "open", !.span = spans + 1,
                                      !.task = t, !.prev = activeSpan]]
  /\ activeSpan' = spans + 1 /\ openSpans' = openSpans \cup {spans + 1}
  /\ spansShared' = (spansShared \/ openSpans # {})
  /\ UNCHANGED <<metrics, nested, counted, failed, overlapped, spansCrossed>>

(* record_llm_generation(), called by ObservedLLMProvider.complete(): the row of
   the task is read; without a task record_metrics() takes over. *)
BeginGeneration(a) ==
  /\ agent[a].pc = "open" /\ agent[a].gens < MaxGen
  /\ LET t == agent[a].task
     IN Query(a, IF t = NoTask THEN RowsOnce("tokens", t) ELSE RowsToAdd("tokens", t),
              "adding", "raised")
  /\ UNCHANGED <<spanVars, metrics, counted>>

(* ... and the generation is recorded below the span that is active by now. *)
CommitGeneration(a) ==
  /\ agent[a].pc = "adding"
  /\ IF agent[a].task = NoTask \/ agent[a].seen = NoRow
     THEN InsertOnce(a, "tokens", 1)
     ELSE WriteBack(a)
  /\ counted' = [counted EXCEPT ![agent[a].task] = @ + 1]
  /\ agent' = [agent EXCEPT ![a].pc = "open", ![a].gens = @ + 1]
  /\ nested' = nested \cup {<<agent[a].span, activeSpan>>}
  /\ UNCHANGED <<spans, activeSpan, openSpans, failed, overlapped, spansShared, spansCrossed>>

(* record_agent_step_completion(): the tokens of the task are read in a
   transaction of their own; with several rows the last one counts. *)
ReadTokens(a) ==
  /\ agent[a].pc = "open" /\ agent[a].task # NoTask
  /\ LET rows == RowsToAdd("tokens", agent[a].task)
     IN \E r \in IF rows = {} THEN {NoRow} ELSE rows :
          agent' = [agent EXCEPT ![a].pc = "measured", ![a].read = r.value]
  /\ UNCHANGED <<spanVars, metrics, counted, failed, overlapped>>

BeginEnergy(a) ==
  /\ agent[a].pc = "measured"
  /\ Query(a, RowsOnce("energy", agent[a].task), "once", "raised")
  /\ UNCHANGED <<spanVars, metrics, counted>>

CommitEnergy(a) ==
  /\ agent[a].pc = "once"
  /\ InsertOnce(a, "energy", agent[a].read)
  /\ agent' = [agent EXCEPT ![a].pc = "done"]
  /\ UNCHANGED <<spanVars, counted, failed, overlapped>>

(* A mutant: the span stays active. *)
CloseSpanStillActive(a) ==
  /\ agent[a].pc \in {"open", "done", "raised"}
  /\ spansCrossed' = (spansCrossed \/ activeSpan # agent[a].span)
  /\ Query(a, RowsOnce("latency", agent[a].task), "closing", "idle")
  /\ UNCHANGED <<spans, activeSpan, openSpans, nested, spansShared, metrics, counted>>

(* The end of agent_span(), also after an exception: the span that was active
   at its beginning becomes active again, then the latency is recorded.  When
   that raises the span is never ended. *)
CloseSpan(a) ==
  /\ agent[a].pc \in {"open", "done", "raised"}
  /\ activeSpan' = agent[a].prev
  /\ spansCrossed' = (spansCrossed \/ activeSpan # agent[a].span)
  /\ Query(a, RowsOnce("latency", agent[a].task), "closing", "idle")
  /\ UNCHANGED <<spans, openSpans, nested, spansShared, metrics, counted>>

EndSpan(a) ==
  /\ agent[a].pc = "closing"
  /\ InsertOnce(a, "latency", 0)
  /\ agent' = [agent EXCEPT ![a] = Idle] /\ openSpans' = openSpans \ {agent[a].span}
  /\ UNCHANGED <<spans, activeSpan, nested, spansShared, spansCrossed, counted, failed, overlapped>>

TelemetryNext ==
  \E a \in Agents :
    \/ \E t \in Owners : OpenSpan(a, t)
    \/ BeginGeneration(a) \/ CommitGeneration(a) \/ ReadTokens(a)
    \/ BeginEnergy(a) \/ CommitEnergy(a) \/ CloseSpan(a) \/ EndSpan(a)

TelemetrySpec == TelemetryInit /\ [][TelemetryNext]_telemetryVars

-----------------------------------------------------------------------------
(* Properties *)

(* Type invariant. *)
TelemetryTypeOK ==
  /\ agent \in [Agents ->
       [pc : {"idle", "open", "adding", "measured", "once", "done", "closing", "raised"},
        span : 0..MaxSpans, task : Owners, seen : [id : Nat, value : Nat], read : Nat,
        prev : 0..MaxSpans, gens : 0..MaxGen]]
  /\ spans \in 0..MaxSpans /\ activeSpan \in 0..MaxSpans /\ openSpans \subseteq 1..MaxSpans
  /\ metrics \subseteq Rows
  /\ nested \subseteq (0..MaxSpans) \X (0..MaxSpans)
  /\ counted \in [Owners -> Nat] /\ failed \subseteq Owners /\ overlapped \subseteq Owners
  /\ spansShared \in BOOLEAN /\ spansCrossed \in BOOLEAN

(* No tokens are lost and no row is doubled for a task whose transactions did
   not overlap: its only row counts every generation.  And a recording raises only
   after such an overlap, or without a task: record_metric_once() then finds the
   rows of several tasks. *)
TokensAddUp ==
  /\ \A t \in Tasks \ overlapped :
       LET rows == RowsToAdd("tokens", t)
       IN IF counted[t] = 0 THEN rows = {}
          ELSE \E r \in rows : rows = {r} /\ r.value = counted[t]
  /\ failed \subseteq overlapped \cup {NoTask}

(* A generation is recorded below its own agent's span as long as no two spans
   were open together; and while no span was closed out of turn, the active span
   is one whose agent is still inside it. *)
AttributionIsRight ==
  /\ \A n \in nested : n[2] = n[1] \/ spansShared
  /\ activeSpan = 0 \/ spansCrossed
       \/ \E a \in Agents : agent[a].span = activeSpan /\ agent[a].pc # "idle"
=============================================================================
