# A formal model of the AI4SWEng orchestrator

This directory holds TLA+ specifications of the core of the platform in this
repository, the TLC configurations that check them on small instances, and
machine-checked proofs of their main properties for every instance.  Paths are
relative to the repository; `W` stands for
`src/apps/orchestrator/src/engine/workflow_runner.py` and `G` for
`graph_nodes.py` next to it.

Contents: 1 the system, 2 modelling conventions, 3 the modules, 4 what TLC
checks, 5 what is proved, 6 where code and documents disagree, 7 what is not
modelled, 8 the plan.

## 1. The system

The platform turns a user's request into a pipeline of KIOs ("knowledge and
intelligence objects", agents that each do one software-engineering task) and
runs the pipeline step by step, with human approvals (HITL) after chosen steps.
Every service is a single-process asyncio program; they talk over HTTP and
NATS/JetStream and share a PostgreSQL database through the Session Manager.

| Component | State it keeps | Operations | Talks to | What makes it correct |
|---|---|---|---|---|
| Workflow runner (`W`) | `_active` entries, `_session_locks`, compiled graph | run, approve, cancel, rehydrate, graph run and resume, failure handling, cleanup | all below | one graph run per session, nobody forgotten, every run settles, an accepted answer has effect |
| LangGraph workflow (`G`, `workflow_graph.py`, `graph_state.py`) | one thread per session in the checkpointer | plan, run_kio, hitl, advance, complete nodes; two conditional edges | KIO client, Session client, scheduler | steps in order, no gated step passed without its answer |
| Retry manager | attempts per session | register, should_retry, wait_and_increment, reset, cleanup | run_kio node | the bound on attempts holds across steps |
| Timeout monitor | none (reads `_active`) | sweep | runner.cancel | never a session a human is asked about |
| Orchestrator state machine | mode, workflow counter, degraded agents | one method per event | runner, registry, lifespan | the mode agrees with the counter and the agents |
| Agent registry, task scheduler | announced agents, `last_seen`, stale mark | announcement, lookup, capability check | state machine, KIO client | the stale mark and the degraded set never drift apart |
| KIO client | cached HTTP clients | execute (NATS, then HTTP), invalidate | KIOs, registry | never calls an address that was left |
| JetStream transport, KIO shell base | stream, consumers, pending replies | request/reply, ack/nak, redelivery, `/execute`, `/compensate` | KIO client | a job's result is not lost, a job is not run needlessly twice |
| Session Manager, artifact store | workflows, tasks, approvals, artifacts, messages, metrics; objects | one transaction per request, an upload before it | database, object store | a state only changes by a request, one checkpoint per step, every row's payload can be read |
| Session client | none | HTTP calls with retries | Session Manager | a retried call does not act twice |
| Compensation engine, provenance manager | none | walk the artifacts backwards, delete; follow the parents | KIOs, Session Manager | nothing registered is forgotten, the walk ends |
| Event bus, event stream, dashboard store | subscriber queues; session and question panel of the tab | publish, subscribe, start, approve | browser | the panel shows the open question, and the answer goes to that question |
| Orchestrator API | none | run, prompt, status, approve, cancel, events | runner | the guards of each request |
| LM engine client (planner) | none | plan_workflow | LM engine | always answers with a pipeline |
| KIO1..13 (the handlers) | none; they read the artifact before them | one handler each | LLM, Session Manager | findings, tests, reviews and patches reach the KIO they are made for; a PASS is earned |
| NATS client with message log | rows of the messages table | publish, request, subscribe | database, NATS | no key is published twice or skipped for good |
| Observability | the active span, metric rows | agent span, generation, metrics | database | tokens add up, generations belong to their agent |
| LM engine, LLM providers, MCP and capability registries, A2A client, authentication, migrations | little or static | | | outside the core, see section 7 |

**How the parts interact on one request.**  `POST /run` calls
`runner.run`, which creates the session in the Session Manager, puts an entry
in `_active` and spawns `_run_graph`.  That task takes the session's lock and
calls `ainvoke`; LangGraph writes a checkpoint after each node.  `run_kio`
schedules the step, executes the KIO, stores the artifact and the progress.
`hitl` creates an approval, shows it in the entry and interrupts: `ainvoke`
returns, `_check_graph_state` sets `PENDING_REVIEW`, the lock is released.
`POST /approve` pops the pending checkpoint, resolves it and spawns
`_resume_graph`, which re-enters the `hitl` node from its start with the answer.
Meanwhile `cancel`, the timeout monitor and agent announcements run on the
same event loop, at any await.

**What is hard.**  Tasks of the same session interleave at every await
(approval, cancellation, deadline, graph run); state is read before an await
and used after it (`approve`, `_check_graph_state`, `_handle_failure`); the
counter of the state machine is shared by all sessions, and a session can be
finished by two parties; Session Manager calls can take effect and lose their
reply; the process can restart, and only the database and the checkpoints
survive; nodes are re-run from their beginning; a KIO can replace the pipeline
it is part of; agents come, go and move while the scheduler and the HTTP cache
use what they said earlier.  A request that its client gave up is still carried
out by the Session Manager, next to its repetition; a bounded queue drops the
event that would have cleared the question on a screen; a KIO's output reaches
the KIO it is meant for only through all those between them.  `PROJECT.json` lists these hazards one by one
with the line where each bites and the properties that cover it.

## 2. Modelling conventions

- **An action is the code between two awaits.**  On one event loop a task runs
  alone until it awaits.  An action starts with the effect and the reply of
  the call that was awaited, continues to the next await, and the task's `pc`
  names the call that is now outstanding.  While it is, every other task may
  act.  Synchronous code (the state machine, the registry) is one action per
  method.
- **Failures.**  `Failing` names the remote calls that may raise, `MaxFaults`
  bounds how often.  With `LostReplies` a Session Manager call may also take
  effect and raise (`Applied`, and the second disjuncts of the `...Fails`
  actions).  A failure whose caller swallows it is part of the caller's action
  (`TryStatus`, `Register`).
- **Restarts.**  `Restart` loses every task and all in-process state and
  rehydrates any subset of the sessions that `rehydrate` accepts (it goes on
  after a session it cannot load).  It is one step: the server does not serve
  before the lifespan has finished rehydrating.
- **LangGraph** is a library, modelled from how `W` and `G` use it: a checkpoint
  at every node boundary (`Enter`), a resume reloads the last checkpoint, and
  the answer given to the resume is consumed by a `hitl` node only.  An
  interrupt pauses the thread only if its checkpoint is still the latest.
- **Data.**  Of the graph state only what steers control is kept: pipeline,
  gates, step, whether the KIO asked for a review, whether the feedback is a
  rejection word, whether a provider switch is pending or done, whether an
  artifact exists.  Message texts, artifact contents, events and logs are left
  out.  A pipeline is a sequence over `Kio`; the pipelines that requests and
  KIO answers may carry are constants.
- **Clients.**  `Impatient` lets a client approve a question before the status
  shows `PENDING_REVIEW`.  That is real: the dashboard shows the question when
  the `HITL_CHECKPOINT` event arrives, which `hitl_node` emits before the graph
  run has returned.  `Cancels` lets clients cancel and runs carry a deadline.
  A *polite* instance (`Polite` in `WorkflowPromise_proofs`) has neither, loses
  no replies, never fails `resolve_checkpoint` and is not restarted.
- Operators preceded by "A mutant:" are wrong variants of the operator after
  them.  No action uses them; they are there to see that a property would
  notice the mistake.

## 3. The modules

| Module | Models | State | Actions |
|---|---|---|---|
| `OrchestratorState` | `orchestrator_state.py` | `mode` = `_state`, `workflows` = `_active_workflows`, `degraded` = `_degraded_agents` | one per method |
| `AgentRegistry` (extends it) | `agent_registry.py`, `task_scheduler.py`, client cache of `kio_client.py` | `known`, `endpoint` = `_agents`; `aged` = `last_seen` too old; `stale` = `_stale_notified`; `able` = supported tasks; `client` = `_http_clients` | `Announce` (`handle_announcement`), `Age` (time), `Schedule` (`TaskScheduler.schedule`), `OpenClient` (`_get_http_client`), `Runner` (events of the runner and the lifespan) |
| `GatedPipeline` | what the engine promises | stage, step, gate, answer, outcome of a session | abstract steps of a pipeline |
| `WorkflowEngine` | `W`, `G`, `workflow_graph.py`, `retry_manager.py`, `timeout_monitor.py`, and the tables of the Session Manager they write | see below | see below |
| `MCWorkflowEngine` | small instances | | |
| `JobPromise` | what the transport promises | outcome of a job's call, its handler runs, its place in the stream | abstract steps of a job, without timers |
| `KioTransport` | `kio_client.py` (`execute`), `jetstream.py`, the job path of `kio_base.py` | see below | see below |
| `SessionStore` | `session_client.py`, `session_service.py`, `repositories.py`, `artifact_store.py`, `compensation_engine.py`, `provenance_manager.py` | see below | see below |
| `EventStream` | `event_bus.py`, the `/run`, `/approve`, `/events` handlers, `workflow.ts` | see below | see below |
| `KioPipeline` | the handlers of `kio1`..`kio13`, the planner of `lm_client.py`, the graph around them | see below | see below |
| `MessageLog` | `nats_client.py` and the messages table | `publisher`, `logged`, `keyOf` | `Call`, `Check...` (`message_exists`), `SaveMessage`, `Send`, `FailToSend` |
| `Telemetry` | `observability.py`, `observed.py` and the metric rows | `agent`, `activeSpan`, `openSpans`, `metrics` | `OpenSpan`, `CloseSpan`, `EndSpan` (`agent_span`), `Begin`/`CommitGeneration`, `ReadTokens`, `Begin`/`CommitEnergy` |
| `MCAgents` | `KioTransport` and `AgentRegistry` on small instances | `part`: the one that moves | |
| `MCServices` | the five modules above on small instances | `part`: the one that moves | |
| `*_proofs` | the theorems of section 5: those of `WorkflowEngine` in `WorkflowEngine_proofs` (types and locks) and `WorkflowPromise_proofs` (gates, counting, the promise), those of `MessageLog`, `Telemetry` and `MCServices` in `Services_proofs` | | |

`WorkflowEngine` variables: `active` is `_active` (status, pending checkpoint,
artifacts, deadline; `submitted` tells entries made by `run` from rehydrated
ones, and the value `Popped` tells a removed `pending_checkpoint_id` key from
an empty one); `lock` is `_session_locks`; `task` the asyncio tasks; `retry` the
retry manager's counters (-1 for an unregistered session); `graph` the
checkpointer's thread of each session; `db`, `approval`, `stored` the workflow
state, the approvals and the artifacts in the database.  The orchestrator state
machine is instantiated, so `WorkflowSubmitted` and `WorkflowFinished` are the
very actions of `OrchestratorState`.

| Code | Actions |
|---|---|
| `run` W:96 | `Run`, `RunLost` |
| `approve` W:274 | `Approve` up to the await, then `Resolve` or `ResolveFails` |
| `cancel` W:367, timeout monitor | `Cancel`, `Cancelled`; `Expire`, `TimedOut`, `TimeoutFailed` |
| `_run_graph`, `_resume_graph` W:309 | `Begin` (lock, first or resumed), `Check` (`_check_graph_state`, release) |
| `_handle_failure` W:422, `_cleanup_session` W:455 | `Raise`, `Unwind`, `Cleanup` |
| `rehydrate` W:191 | `Restart`, `Rehydratable`, `RestoredEntry` |
| `plan_node` G:41 | `Plan`, `Planned` |
| `run_kio_node` G:81 | `Dispatch`, `NoCapableAgent`, `KioReturns`, `KioRaises`, `Backoff`, `Register`, `Progress`, `ProgressFails` |
| `hitl_node` G:348 | `Hitl`, `HitlFails`, with `CreateCheckpoint` of the Session Manager |
| `advance_node` G:407, `complete_node` G:460 | `Advance`, `Complete`, `CompleteFails` |
| `should_hitl`, `should_continue` G:494 | `Gated`, `Continue` |

Details a reader may stumble over: a KIO result with status `FAILED` is treated
by the code like any result, so `KioReturns` covers it; `update_progress` writes
`ACTIVE`, which the database stores as `RUNNING`; `resolve_checkpoint` marks an
approval approved whatever the answer was, the rejection travels as feedback in
the graph; `update_status` never checks the state it overwrites; the branch of
`Unwind` that compensates is written as the code has it although the code never
reaches it (section 6).

`KioTransport` opens up the one call that `Dispatch` makes: `call`, `waited` are
where `execute` is and how long it has waited, `allowed` the handler's limit for
the job, `queue`, `deliveries`, `unacked` the message in the `KIO_JOBS` stream
and its consumer, `run`, `age` the handler runs of the job (one per delivery and
one for HTTP), `up` the KIO process, `lost` and `crashes` what went wrong.

| Code | Actions |
|---|---|
| `KioClient.execute`, `_execute_nats`, `JetStreamManager.request_reply` | `Request`, `RequestFails`, `RequestTimesOut`; the reply is in `Answer` |
| `KioClient._execute_http`, `_get_http_client` (its timeout) | `Post`, `PostTimesOut` |
| `subscribe_requests`, `_poll_loop`, `_dispatch` | `Deliver`, `DeliveryLost` |
| `ConsumerConfig`, `StreamConfig` (enforced by the NATS server) | `AckWaitOver`, `Expire` |
| `_handle`, `_invoke_handler`, `/execute` | `HandlerEnds`, then for a delivery `Ack` / `AckLost` and `Reply` / `ReplyLost` |
| the container and its restart policy | `Crash`, `Restart` |
| the clocks | `Tick` |

Four timers race: the reply timeout, the HTTP client's timeout, the handler's
limit and the consumer's `ack_wait`.  Time is therefore explicit; `Tick` advances
every running timer and is disabled while one of them, or a step that only
sends, is due.  One tick is 10 s, the headroom that `kio_base.py` leaves, so
the model assumes that sending a message takes less than the headroom.

`SessionStore` follows one session.  `call` is what each side of the
orchestrator (the graph run, the API) waits for, with the attempt of
`_with_retry`; `inflight` the requests the Session Manager has, where `live`
tells whether the client still waits for this one; `sessions`, `wf`, `rows`,
`approvals` are the tables and `objects` the bucket; `comp` and `lineage` are a
compensation and a lineage query.  `acked` and `doubtful` are history: the state
each side was last told it had written, and the requests that were given up.

| Code | Actions |
|---|---|
| `create_session`, `register_artifact`, `update_status`, `update_progress`, `create_checkpoint`, `resolve_checkpoint` of the client | `CreateSession`, `RegisterArtifact`, `UpdateStatus`, `CreateCheckpoint`, `ResolveCheckpoint` |
| `_with_retry` and httpx's errors | `Start`, `NextAttempt` within `LoseRequest`, `GiveUp` (read timeout) and `FailRequest` (a 500, which is not retried) |
| the service and its transactions | `ServeCreate`, `ServeStatus`, `Upload` then `InsertRow`, `ServeAsk` then on a duplicate `ReuseCheckpoint`, `ServeResolve` |
| `_handle_failure`, `compensate`, `_compensate_one` | `HandleFailure`, `CompensateStart`, `CompensateFetch`, `CompensateOne`, `CompensateClose` |
| `get_lineage` | `LineageStart`, `LineageTurn`, `LineageEnd`, `LineageCut` |

`EventStream` has the sessions of one browser tab: `stage` and `ckpt` are where
a session's graph is and what its entry shows as pending, `queue` the tab's
queue on the bus, `tab` the store with its session and its question panel,
`approval` and `starting` the two requests the tab may have open.  `upset`
records for each session why the panel may differ from it: its last event that
would change the panel was missed (dropped by the full queue, or before the
connection, or with a closed stream); something else has changed the panel since
(an event of another session or of another user, `startWorkflow`, the reply to an
approval); its last answer came early, before the run that asked had ended; one of
its questions was delivered late, after its answer; the reply to an answer was
lost.  The first two pass with the next event of the session that reaches the tab.
The session's actions are those of `run_kio_node` to `cancel` reduced to the
events they emit; `Deliver` is the generator of `/events` together with the
store's handler.  An event has an owner as in the code: those of the graph's
nodes have none (`G`:33) and go to every subscriber, those of the runner bear the
user of the session's entry, so `Foreign` holds both kinds.  `RunFails` is the
`catch` of `startWorkflow`: a refusal (429, 422), an error or a lost reply leaves
the old session and stream in place with the panel cleared.

`KioPipeline` keeps the graph state that the KIOs see and the list `runs` of the
KIO runs that returned, with what each read and made.  A list in an artifact is
abstracted to its origin: the number of the run that made it.  There is one
action per handler (`Kio7Skips` is the early return of KIO 7); the parsing of
LLM replies, and their failure, is a choice among the artifacts a handler can
make of them.  `PlanWorkflow`, `Answer`, `AnswerSwitch` and `KioFails` are the
graph nodes around them.  A workflow begins with the planner, with the
`kio_sequence` of `POST /run` or with the router alone; a plan may name an id that
does not exist (`"unknown"`): the planner drops it, a client's or the router's
sequence keeps it, and its step can only fail.

## 4. What TLC checks

| Run | Instance | Shows |
|---|---|---|
| `agents` | either `AgentRegistry`: 2 agents, 2 addresses, counter up to 2 | `ModeAgrees`, `ShutdownIsFinal`, `DegradedAreStale`, `NoDispatchToDegraded`, `ClientTracksRegistry`, and the liveness property `StaleAgentReturns` |
| | or `KioTransport`: 1 job, the timers of `config.py`, task timeouts of 50 s and 400 s, 2 losses of any kind, 2 crashes | the transport implements `JobPromise` (`KeepsPromise`), `OneDeliveryRuns`, `FailureMeansCrash`, `JobSurvivesCrashes`, `EveryCallEnds`, `TypeOK` (with the bounds on timers and deliveries) |
| `engine_gates` | 1 session, 2 tasks, every request and reroute, 3 faults, polite clients | the engine implements `GatedPipeline` (`KeepsPromise`), `NobodyForgotten`, `EveryRunSettles`, `TypeOK` (with the bound on attempts) |
| `engine_sessions` | 3 sessions, 3 tasks, 2 faults, polite clients, symmetric | `WorkflowsCounted`: sessions are counted exactly |
| `engine_open` | 1 session, 3 tasks, every call may fail or lose its reply (1 fault), cancel, deadline, impatient approvals, 1 restart, symmetric | `LiveRunsOnce`, `NoPhantomWork`, `PendingIsReal`, `WaitingHasQuestion`, `GateNeedsAnswer` |
| `services` | each of `SessionStore`, `Telemetry`, `MessageLog`, `EventStream`, `KioPipeline` on its own | the seventeen properties of the paragraphs below |
| seven `violation` runs | see section 6 | a document's claim that the code does not keep |

**What the properties say.**  `KeepsPromise`: the pipeline's steps are passed
in order, a gated step only on an answer given to that very step, and the
recorded outcome is final; the stage, step and gate are read off the
checkpointer, the outcome off the database, the answer off the task that carries
it.  `NobodyForgotten`: a submitted session that no task works on is
paused, and its entry shows the question the graph is paused at, so a human can
answer it.  `EveryRunSettles`: every submitted session ends or reaches that
point.  `LiveRunsOnce`: the one graph run inside a live session holds its lock,
so no KIO job is dispatched and no checkpoint written by two runs.
`WorkflowsCounted` and `NoPhantomWork`: the state machine's counter is the
number of submitted sessions; under cancellations it may be lower (a session
that is cancelled while it completes is finished twice) but never higher.
`PendingIsReal`, `WaitingHasQuestion`: the entry, the approvals and the workflow
state in the database agree about which question is open.  `GateNeedsAnswer`: a
graph leaves its `hitl` node only in a session for which an answer was accepted.

`OneDeliveryRuns`: the stream never has a job run twice at once, because the
handler is cut off before `ack_wait` ends.  `KeepsPromise` of the transport: read
without its timers, a job is run by one handler of the stream at a time, by none
after an acknowledgement that arrived (so a failed reply is no reason to run it
again), and once more over HTTP at most; its call returns what a run that ended
has made, raises only after a crash, and its outcome is final.  That is what
`WorkflowEngine` takes a KIO call to be.  `FailureMeansCrash`: `execute` raises only if the KIO
died; NATS failures are made up for over HTTP, a lost reply included, which two
documents say fails the session (section 6, `lost_reply`).  (An address that changes under
an open HTTP request and a broken HTTP connection to a living KIO are outside
the model.)  `JobSurvivesCrashes`: a published job is delivered until a handler
has ended.  All but `EveryCallEnds` speak of *usual* jobs (`JobPromise` calls them
limited): a
task timeout from the request may exceed every other timer, and such a job does
run twice at once.

*Session Manager.*  `SameQuestion`: however often a question is asked again,
everybody hears one checkpoint per step.  `WaitingHasPending`: a late repetition
does not put a decided session back to waiting.  `StatusIsExplained`: the stored
state is one that a side was told of, unless the server carried out a request
that had been given up (a late first attempt may overwrite a newer state, and a
repeated creation leaves a second row).  `PayloadIsSomewhere`: whichever
attempt uploads and whichever inserts the row, the payload can be read (that
compensation deletes nothing, section 6, helps).  `StoredIsPrefix`: a lost
registration loses all later ones, because a row needs its parent, so a lineage
is never silently cut in its middle.  `RolledBackOrExplained`: a compensated
run leaves a stored artifact behind only if its registration had been given up
or the list of artifacts could not be read.

*Messages and telemetry.*  `KeySentOnce`: an idempotency key is published once,
unless two calls looked it up at the same time.  `SkippedIsElsewhere`: a publish
that returns without sending leaves its message with somebody who has sent it,
is about to, or failed.  `TokensAddUp`: a task's row counts all its generations
unless two transactions on it overlapped.  `AttributionIsRight`: a generation
is recorded below its own agent's span as long as no two spans were open
together; the active span is then one that somebody is in.  These properties
say exactly under which overlaps the code's claims stop holding.

*Browser.*  `ApprovesWhatIsShown`: the answer is taken for the question the user
was looking at, unless it was shown again after its answer or an answer's reply
was lost (`POST /approve` names the session, not the question).
`PanelFollowsServer`: when all events are delivered, the last telling one of the
tab's session among them, and nothing else has changed the panel since, the
panel shows the pending question of the tab's session; it shows nothing else
than that session's last question, and not even that once a KIO has finished
behind it or the session is closed.  The exceptions are what the code really does
(section 6): foreign events, a start that fails and an approval's reply change the
panel, and a dropped event is not repeated.

*KIOs.*  `PassIsBacked`: KIO 8's own verdict PASS rests on KIO 5, 6, 7 and 8 run
in a row, with bugs a reviewer saw, patches for these bugs and no failed test
(errors and an empty suite are not failures to it).  `WorkArrives`: the tests of
KIO 4 are run exactly when only KIO 5 and 6 stand between it and KIO 7, and KIO 5
works on all recorded findings unless it has code or nearer findings, or could
not read them.  `PatcherHearsReviewer`: what a reviewer said at the gate before
KIO 6, and nothing else, is its feedback.  `PlanIsCarriedOut`: a workflow that is
done has run its plan, given or made, from the first step to the last, and KIO 8
was among them when KIO 2 made the plan, unless a router or planner in its middle
replaced it.  That the report comes last, as KIO 2 tells its LLM, the code does not
ensure (section 6).

**Why some hold only for polite clients.**  After a cancellation or a timeout
the graph of the session keeps running (section 6), so the outcome is
overwritten and the counter decremented twice: `KeepsPromise` and
`WorkflowsCounted` are false there.  An early approval is dropped (section 6),
so the session it was given to stays behind.  When `resolve_checkpoint` fails
the pending checkpoint is not put back, and `NobodyForgotten` fails.

**Bounds.**  Two KIOs and pipelines of length 1 to 3 give a first, a middle and
a last step, a KIO that occurs twice (its approval is found instead of created),
gated and ungated steps, and answers that make the pipeline longer, shorter than
the steps already done, or gated elsewhere.  Two tasks let an approval meet a
graph run that has not ended; three add a cancellation or a deadline.  Three
faults in `engine_gates` suffice for an attempt, its retry and the switched
provider to fail.  Three sessions in `engine_sessions` let the counter go
through every value while the others pause, fail and finish.  With a restart and
a fault in the same run, state left behind by the failed call is rehydrated.
Interactions between sessions go only through the state machine's counter, which
is why the richer runs have one session.  Jobs of one KIO interact only through
its crashes, so `agents` has one; its timers have their real values in
ticks of 10 s, since their order and distances are what matters.  Two losses
cover an acknowledgement lost together with its reply; two crashes stay below
the three deliveries, so that crashes alone do not use them up, while a lost
delivery and two crashes do.  Symmetry is used only in runs that check no
liveness.  Deadlock checking is off where the system legitimately stops: when
every session or call is over and the bounds are used up.

In `agents`, too, the two components share nothing, so a behaviour picks one.

**Bounds of `services`.**  The five components share nothing, so a behaviour
picks one (`part`) and the state spaces add up instead of multiplying.
`SessionStore`: one step that asks, three artifacts (a first, a middle and a last
of a chain), a lineage limit of two (reached and not reached), three attempts as
in the code, four calls and one fault, which lets one request linger next to its
repetition and two later calls.  `Telemetry`: two agents, one task and the
missing one, three spans (nested, overlapping, one after the other), one
generation each.  `MessageLog`: two callers, envelopes and keys, four calls (two
at once, each repeated), one failure.  `EventStream`: two sessions, a queue of
one (full at every second event), two questions and one foreign event, lost
connection or reply, failed start, or cancellation.  `KioPipeline`: eight sequences
that an LLM may reply or a client may give, which contain every KIO and an unknown
one, the complete chain from findings to the report, the
fallbacks, routers and planners in the middle, an optional gate, six runs and one
mishap.  `compensation_deletes` needs one artifact and no fault.
Deadlock checking is off since bounded systems come to rest.

**Fairness.**  `Spec` assumes weak fairness of each task's run steps (including
the failure of the call it waits for) and of each task's call steps: the event
loop runs every ready task, and every awaited call has a client-side timeout and
so returns or raises.  Clients, deadlines, faults as such and restarts are never
forced.  `RegSpec` assumes that each KIO keeps announcing itself, which the
capability loop of `kio_base.py` does.  `KioTransport`'s `Spec` assumes that
clocks run, that both event loops run ready tasks, that `asyncio.wait_for` ends
every handler, that the poll loop goes on fetching, and that a crashed KIO is
restarted (`restart: unless-stopped` in `docker-compose.yml`).  The five modules of
`services` state safety only and assume no fairness.

## 5. What is proved

For all values of the constants that satisfy the named assumptions
(`EngineConstants`, `EndpointsDistinct`, `TransportConstants`,
`StoreAssumption`, `LogAssumption`, `TelemetryAssumption`, `StreamAssumption`,
`PipelineAssumption`): any number of sessions, tasks, KIOs, pipelines, retries,
faults and restarts, any timeouts with a headroom, losses and crashes; any number
of artifacts, questions, attempts and calls; any callers, envelopes and keys; any
agents, tasks and spans; any number of a tab's sessions and questions, any queue
and traffic; any plans, replies and gates.  The assumptions fix types, that the
"none" values are no members of their sets, and that a limit the code needs is not
zero, and for the transport that the headroom is below the client's timeout.

| Theorem | Statement |
|---|---|
| `OrchTyped`, `ModeAgreesAlways`, `ShutdownIsFinalAlways` | `OrchSpec` keeps its types, `ModeAgrees` and `ShutdownIsFinal` |
| `RegistryImplementsState` | `RegSpec => OrchSpec`: the composition drives the state machine only through its events |
| `ModeAgreesWithRegistry`, `ShutdownSurvivesAnnouncements` | so the two properties carry over to the composition |
| `RegistryInvariant`, `RegistryTyped`, `DegradedAreStaleAlways`, `ClientTracksRegistryAlways`, `NoDispatchToDegradedAlways` | `RegSpec => []RegInv` and its consequences |
| `EngineInvariant`, `EngineTyped`, `LiveRunsOnceAlways`, `OneRunPerSession` | `Spec => []EngineInv` and its consequences |
| `PendingIsRealAlways`, `WaitingHasQuestionAlways` | the database, the entry and the approvals agree |
| `GateNeedsAnswerAlways` | no gate opens on its own |
| `NoPhantomWorkAlways` | `Spec => []NoPhantomWork`: no workflow is counted that is gone |
| `PoliteInvariant`, `NobodyIsForgotten`, `WorkflowsAreCounted` | `Polite` implies `Spec => []NobodyForgotten` and `Spec => []WorkflowsCounted` |
| `PromiseIsKept` | `Polite` implies `Spec => KeepsPromise`: the engine implements `GatedPipeline` |
| `TransportInvariant`, `TransportTyped`, `OneDeliveryRunsAlways`, `AnsweredIsOverAlways`, `FailureMeansCrashAlways` | `KioTransport`'s `Spec => []TransportInv` and its consequences |
| `TransportKeepsPromise` | `Spec => KeepsPromise`: the transport implements `JobPromise` |
| `StoreTypesHold` | `SessionStore` keeps its types and bounds |
| `QuestionsAreTheSame`, `WaitingIsForAQuestion`, `StatesAreExplained`, `PayloadsAreReadable`, `ArtifactsAreAPrefix`, `RollbackIsExplained`, `RepliesAreUnique` | the six safety properties of `SessionStore` and that every call that waits has exactly one message to answer it |
| `LogIsTyped`, `KeysAreSentOnce`, `NothingIsSkippedForGood` | `LogSpec` keeps its types, `KeySentOnce` and `SkippedIsElsewhere` |
| `TelemetryIsTyped`, `AttributionIsAlwaysRight`, `TokensAlwaysAddUp` | `TelemetrySpec` keeps its types, `AttributionIsRight` and `TokensAddUp` |
| `StreamTypesHold`, `ApprovalIsOfWhatIsShown`, `PanelAlwaysFollowsServer` | `StreamSpec` keeps its types, `ApprovesWhatIsShown` and `PanelFollowsServer` |
| `PlansAreCleaned` | what the planner keeps of any reply names at most `MaxPlan` existing KIOs, none twice and not the router |
| `PipelineTypesHold`, `PlansAreCarriedOut` | `PipelineSpec` keeps its types and `PlanIsCarriedOut` |
| `ServicesImplementTheirParts`, `ServicesTypesHold` | the composition that the run checks implements each of the five components, and keeps `ServicesTypeOK` |
| `ReviewerIsHeard`, `ReportsAreBacked`, `WorkIsHandedOn` | `PipelineSpec` keeps `PatcherHearsReviewer`, `PassIsBacked` and `WorkArrives` |

**The invariants.**

- `RegInv` is the conjunction of the type invariant, `ModeAgrees`,
  `DegradedAreStale` and `ClientTracksRegistry`.  `DegradedAreStale` is
  inductive together with the types (a stale entry is an aged one, so the
  announcement that clears the age clears the mark); `NoDispatchToDegraded`
  follows because a degraded agent is stale, hence aged, hence unresolvable.
- `EngineInv` adds to the types and `LiveRunsOnce` what a task at each point may
  know: `TaskOK` says that a task past its start belongs to a created session,
  that a run inside the graph has a thread behind it, and that its step
  indexes its pipeline where the code is about to index it; `SessionOK` that an
  entry with a pending checkpoint belongs to a session with a thread, and that a
  thread paused at, or about to enter, a node has a KIO to run.  Without these the type
  invariant fails at `CurrentKio` (an index past the pipeline's end) and the
  lock property at a resume that would enter a node it never stopped at.
- The gates: `QuestionInv` adds to `EngineInv` that a paused thread's question,
  and a pending checkpoint shown in the entry, have both been asked in the
  Session Manager; `AnswerInv` adds that as long as nobody has answered for a
  session it has at most one run, which carries no answer and works on the step
  the checkpointer shows.  `GateOpens` then shows that the only step from `hitl`
  to `advance` is taken by a run that carries an answer (`GraphEffects` enumerates
  what a step may do to a checkpoint).
- Counting: `CountInv` says that the finite set of submitted sessions is a set of
  live entries and no smaller than the counter.  `CountEffects` shows that every
  step adds one session to both, takes one from the counter (unless it is zero)
  and at most one from the set, leaves both alone, or is the restart that empties
  them, so the proof about cardinalities has a case per kind of step and not per
  action.
- Polite clients: `Polite` assumes that nobody cancels and no run carries a deadline, that
  clients answer only what is open, that no reply of the Session Manager is
  lost, that `resolve_checkpoint` does not fail and that the process does not
  restart; any other call may still fail, for any number of sessions, tasks and
  retries.  The runs `engine_gates` and `engine_sessions` satisfy it, and it cannot
  be dropped: the runs that lift parts of it refute documented claims (section 6).
  `PoliteInv` is inductive relative to `EngineInv`: a session has at most one
  task (`TasksOK`); the entry, thread and question of a session fit together
  (`EntryOK`), are at rest when no task owns it (`FreeOK`), and are what the point
  of its task needs otherwise (`OwnedOK`).  An action is looked at only for its own
  session (`Takes`, with the frame lemma `PoliteFrame` for the others), and each
  kind of turn is mapped to a step of `GatedPipeline` or a stutter
  (`TurnIsPromised`).
- `TransportInv` relates the timers.  `Current`: a usual handler that runs, or has
  ended without acknowledging, belongs to the last delivery, and while the message
  is in the stream the handler's age is the time since that delivery; so
  `ack_wait` cannot end before the handler does.  `Attended`: a caller that waits for
  the HTTP answer has waited exactly as long as the handler behind it runs, so it
  never gives up on a usual one.  `Queued`: a message that may be delivered has
  deliveries left.  Only the order of the timers is used, never their values
  (lemma `Timers`).  For the refinement, `RunsBehind` adds that HTTP runs a job
  exactly while a caller attends it, once, and that no delivery has run that was not
  made; then every step is one of `JobPromise` or not seen by it.  `Current` is
  what opens the guard of the abstract `Start` (the last handler is gone) and
  `TimesOutUnusual` that of `Raise` (only an unusual job outlives its caller).
- `SessionStore`: `StoreInv` is the conjunction of the types, `OneReplyAwaited`
  (each side that waits has exactly one live message, that of its attempt) and
  `MessagesInOrder`: a message nobody waits for belongs to a doubtful request,
  an attempt that goes to insert a row with a pointer has put its object, and one
  that goes to reuse a checkpoint has found the step's row.  The lemma
  `StepIsTraffic` reduces every step to what it does to the messages, so that
  `StoreInv` is proved once for all handlers.  The types (`StoreTypesHold`) add
  what the tables hold (`ContentsTyped`) and a bound on the calls that counts those
  a compensation makes beyond `MaxCalls` (`Bounded`).  Each property then has a small
  invariant on top (`QuestionsInv`, `CreatedOnce` and `WrittenInv`, `RowsInv`,
  `LineageInv`): the rows are gapless because a parent is checked at the insert,
  and the lineage walk has either seen artifact 1 or is above it.  For the
  rollback, `RunOnlyReports` says that a run which is being compensated waits for
  status updates only, so a row that appears during the walk comes from a
  doubtful request, which is what `RollbackInv` allows.
- `MessageLog`: a key that no two calls looked up at once is inserted only while it
  has no row and published only when it has one (`KeysAreOrderly`); a row's writer
  has sent its message, is about to or failed (`RowsAreSettled`).  The first bounds
  the publishes, the second finds the sender behind a skipped one.
- `PipelineInv` says what every run read (the artifact of the run before it, or
  nothing after a repetition with another provider: `ReadsAreChained`), which KIO
  leaves which trace in its artifact (`RunsLeaveTraces`), that bugs pass a reviewer
  before another KIO sees them, and how test files come on and go back to their
  maker (`TestsArePassed`, proved by the lemma `OneRunFurther` from the run
  before), and what KIO 5 and 7 have taken up (`WorkIsTaken`).  Nothing is needed
  of the plan for these, so they hold for plans that no planner would make.
- That plans are carried out needs `PlanInv`: the plan's types, and while nobody
  but the first KIO has replanned, that the runs are the plan's first steps, as many
  as the step counter says at each point of the graph (`FollowsPlan`).  The planners'
  loops over a reply are recursive functions in the model.  What a loop keeps is
  proved by induction over its turns, stated for a set of numbers (`SetInduction`,
  from the well-foundedness of the naturals) because a rule for predicates cannot be
  instantiated; `RecursionExists` gives such a function its recursive equation and
  `RecursionKeeps` its result.
- `Telemetry`: `IdsAreUnique` and `RoomForGeneration` belong to the types.
  `TokensInv`: two transactions on one task are on record (`OverlapsAreKnown`), what
  a transaction has read is still the row unless they were (`ReadsAreRows`), and so
  there is one row of each metric (`OneRowEach`).  `SpansInv`: as long as no two
  spans were open together whoever is inside its span is alone (`AloneInside`), and
  as long as they close in turn the active span is the last one that somebody is
  inside, and each one's predecessor the next (`SpansAreNested`).
- `EventStream`: `ApprovalInv` says that what was taken is of the tab's session
  (`TakenIsOfTab`) and that a question the panel shows, or a request was sent for, is
  still open (`ShownIsOpen`), unless a question came late or an answer went unheard.
  `PanelInv` looks at what the tab will be told: `Tells(s, x)` says that the panel
  will show `x` as far as session `s` is concerned, because its last telling event
  in the queue says so (`EndsIn`), or because there is none (`Silent`) and the panel
  shows it already, unless it was overwritten; `Right` which `x` agree with the
  session, and `PanelCatchesUp` that the tab will be told one of them unless an event
  was missed or an answer came early.  `AnswersAreSettled` says that an answer closes
  its question before the next one is asked.  It holds for every session, that of
  the tab or not, so that a failed start which leaves a session without a tab, and a
  tab that keeps its old session, need no case of their own.
- The composition: a step is one of a single part and a stutter of all others
  (`EachPartMoves`), so each component's theorems hold of it.

Each step lemma treats one action; frame lemmas (`MoveTask`, `EnterTask`,
`Others`, `SameSessions`, ...) say once what the primitives leave alone.

**Only model-checked.**  The liveness properties `StaleAgentReturns`,
`EveryRunSettles`, `JobSurvivesCrashes` and `EveryCallEnds` (liveness under
fairness is out of the prover's reach), and the seven refuted claims.  Every other
property of a passing run is a theorem.

## 6. Where code and documents disagree

| Run | Claim | What the code does |
|---|---|---|
| `restart_approval` | W:194: restored sessions can be approved | `rehydrate` reads the pending checkpoint from the graph state, where no node ever puts it; a restored session shows `PENDING_REVIEW` and cannot be approved |
| `timeout_terminal` | W:391: FAILED is terminal after a timeout | the graph is not stopped; its next update overwrites FAILED |
| `lost_approval` | W:275: `approve` resumes the graph | an approval given before the graph run has left the lock is accepted, and its resume is skipped |
| `transport_headroom` | `codereview.md:104`: the KIO answers before the orchestrator's timeout fires | over NATS that timeout is 120 s and the handler's limit 290 s: a slower job is still running when it is posted again over HTTP, and runs twice |
| `lost_reply` | `kio_base.py`:400, `codereview.md`:207: when the reply is lost after the acknowledgement, the orchestrator times out and marks the session FAILED | `execute` catches the timeout and posts the same envelope over HTTP: the handler runs a second time (the duplicate LLM call that acknowledging first is to avoid) and the call returns |
| `failure_compensation` | W:432: a failure compensates the artifacts registered before it | the entry's artifact list is never filled, so nothing is compensated |
| `compensation_deletes` | `compensation_engine.py`:5, `todo.md`:165: the payload of a compensated artifact is deleted from the object store | the response model of `GET /sessions/{id}/artifacts` has no `s3_key`, so the compensation never learns the key and deletes no object |

Noticed while reading, and visible in the models as they follow the code, but
not made into runs:

- `_with_retry` never retries a 5xx, contrary to `session_client.py`:3 and
  `codereview.md`:96: `raise_for_status` is called outside it.
- A failed registration is "non-fatal" (`G`), but the next artifact names it
  as its parent, so all later registrations of the session fail.
- A resumed `hitl_node` emits `HITL_CHECKPOINT` for the question just answered.
  `POST /approve` names the session only, so an approval repeated after a lost
  reply answers the next question.
- The event stream ignores its session id and filters by owner only after the
  queue, so events of others can fill it.  The nodes of the graph emit without an
  owner (`G`:33), `HITL_CHECKPOINT`, `KIO_DONE` and `WORKFLOW_COMPLETED` among them:
  these go to every user, contrary to `event_bus.py`:20 and :63, and the store shows
  or clears the question of any session for them.
- When `POST /run` fails, `startWorkflow` has cleared the panel of a session that
  stays the tab's and may wait for an answer; no event shows its question again.
- `codereview.md` L2 says that the status poll covers events lost by the stream; the
  store never sets the question panel from the status.
- KIO 2 tells its LLM that a plan must end with kio8 (`kio2/main.py`:71) and claims to
  enforce it (:140, "must start with kio2, end with kio8"); line 143 only looks
  whether kio8 is in the plan, so that kio2, kio8, kio3 is accepted.
- KIO 3 reads attributes that `RepoFinding` does not have, so the findings of its
  analysis never survive; KIO 13 looks for keys that nobody sends; KIO 8's own
  verdict counts errors and an empty suite as a PASS; a step repeated with
  another provider has lost the artifact it should read.
- `update_progress` sends `ACTIVE` with metadata the server ignores.
- `_active_span` belongs to the whole `ObservabilityService`, whose documentation
  claims that agents may share it.

## 7. What is not modelled, and why

- **Reads** of the API (`get_state`, health, listings) change nothing.  One is
  worth a look: `GET /status` reads the pending checkpoint after an await and fails
  if an approval popped the key meanwhile (`router.py`:176).
- The **rate limit** of `POST /run` counts active sessions at the time of the
  request (for the browser its refusal is one of those in `RunFails`); the **ownership check** and **authentication** are out of scope.
- **LLM providers, prompts and the parsing of their replies** (`src/shared/llm`,
  the LM engine) are text processing around external services; their outcomes
  are choices in `KioPipeline`.  The chunking of `bug_detector_llm.py` is called by
  no application.
- **Checkpointer**: it is assumed to answer; its in-memory fallback is left out.
  A **NATS connection** that gives up reconnecting is left out.
- **Time** in the engine: deadlines and backoffs end at any time.
- **Observability**: nested spans, the export to Langfuse and the resource monitor.
  No application under `src/apps` uses the service; the agents in `Telemetry` are
  those its documentation describes.  The same holds of the NATS client in
  `MessageLog`.
- **Session Manager**: reports and evidence, which the orchestrator never calls.
- **KIO ids**: all ids that no KIO has are one, `"unknown"`; a KIO may not carry a
  plan with an id that is no string.
- **Dashboard**: rendering, the event list, the status poll and the reset.
- The A2A client makes one request over the transport that `KioTransport`
  models.  Migrations, configuration, the capability table and the MCP registry
  are static.

## 8. Plan

Done: the engine, its abstract promise, agent discovery, the KIO transport, the
Session Manager with its client, compensation and lineage, the message log, the
telemetry, the event stream up to the browser, and the artifacts of the KIOs; the
safety theorems of section 5.  What would add most, in this order:

1. The engine's Session Manager calls as a proved abstraction of `SessionStore`, as
   `JobPromise` is one of `KioTransport`.
2. Liveness of the event stream: which reconnection would let the panel always
   catch up.
3. The rate limit and the status read of the API next to the engine.
