---------------------------- MODULE WorkflowEngine ----------------------------
(***************************************************************************)
(* The workflow engine of the orchestrator: WorkflowRunner                 *)
(* (workflow_runner.py), the LangGraph nodes it drives (graph_nodes.py,    *)
(* workflow_graph.py), the retry manager, the timeout monitor, and the     *)
(* part of the Session Manager's database they write.                      *)
(*                                                                         *)
(* The process is one asyncio event loop.  A task runs alone until it      *)
(* awaits, so an action is the code between two awaits of one task: it     *)
(* begins with the effect and the reply of the call that was awaited and   *)
(* ends at the next await, which is the task's new pc.  A call may stay    *)
(* outstanding for as long as other tasks keep running.                    *)
(***************************************************************************)
EXTENDS Integers, Sequences, FiniteSets

CONSTANTS
  Session,       \* workflow sessions that may be created
  Task,          \* asyncio tasks (graph runs, approvals, cancellations)
  Kio,           \* KIO ids
  NoSession, NoTask, NoKio,  \* absence
  Popped,        \* pending_checkpoint_id removed from the dict by approve()
  Requests,      \* [plan, gates] of POST /run; the empty plan asks the planner
  Reroutes,      \* [plan, gates] a KIO may answer with (dynamic pipeline)
  Fallback,      \* is llm_provider_fallback configured?
  MaxRetries,    \* retry_policy["max_retries"], 1 in the code
  Cancels,       \* may clients cancel, and runs carry a deadline?
  Impatient,     \* may clients approve a gate the status does not show yet?
  Failing,       \* the remote calls that may raise, a subset of Calls
  LostReplies,   \* may a Session Manager call take effect and still raise?
  MaxFaults,     \* bound on the failures injected
  MaxRestarts    \* bound on the process restarts

PlanType == Seq(Kio)

Calls == {"create_session", "schedule", "execute", "register_artifact",
          "update_progress", "create_hitl_checkpoint", "resolve_checkpoint",
          "update_status"}

ASSUME EngineConstants ==
  /\ Requests \subseteq [plan : PlanType, gates : SUBSET Kio]
  /\ Reroutes \subseteq [plan : PlanType, gates : SUBSET Kio]
  /\ \A r \in Reroutes : Len(r.plan) > 1
  /\ NoSession \notin Session /\ NoTask \notin Task
  /\ NoKio \notin Kio /\ Popped \notin Kio \cup {NoKio}
  /\ {Fallback, Cancels, Impatient, LostReplies} \subseteq BOOLEAN
  /\ Failing \subseteq Calls
  /\ MaxRetries \in Nat /\ MaxFaults \in Nat /\ MaxRestarts \in Nat

VARIABLES
  active,        \* WorkflowRunner._active: the in-process runtime state
  lock,          \* _session_locks: the task holding the session's lock
  task,          \* the asyncio tasks in flight
  retry,         \* RetryManager._state: attempts made, -1 if not registered
  mode, workflows, degraded,  \* the orchestrator state machine
  graph,         \* LangGraph checkpointer (PostgreSQL): one thread per session
  db,            \* Session Manager: workflows.state
  approval,      \* Session Manager: the approval of each step "post_<kio>"
  stored,        \* Session Manager: sessions with a registered artifact
  faults, restarts            \* how much of the two bounds is used up

orchVars == <<mode, workflows, degraded>>
durableVars == <<graph, db, approval, stored>>
boundVars == <<faults, restarts>>
vars == <<active, lock, task, retry, orchVars, durableVars, boundVars>>

(* Agents coming and going are composed with this state machine in         *)
(* AgentRegistry; the runner only submits and finishes workflows.          *)
OSM == INSTANCE OrchestratorState WITH Agent <- {}

-----------------------------------------------------------------------------
(* WorkflowGraphState, as far as the control flow depends on it: feedback  *)
(* is kept as "was it a rejection word", the last result as "did the KIO   *)
(* ask for a review", artifacts as "is there any".                         *)
GraphState == [plan : PlanType, gates : SUBSET Kio, step : Nat, review : BOOLEAN,
               rejected : BOOLEAN, override : BOOLEAN, retryPending : BOOLEAN,
               artifacts : BOOLEAN]

InitialState(r) == [plan |-> r.plan, gates |-> r.gates, step |-> 0, review |-> FALSE,
                    rejected |-> FALSE, override |-> FALSE, retryPending |-> FALSE,
                    artifacts |-> FALSE]

EmptyState == InitialState([plan |-> <<>>, gates |-> {}])

Node == {"plan", "run_kio", "hitl", "advance", "complete"}
Thread == [next : Node \cup {"none", "end"}, paused : BOOLEAN, g : GraphState]

(* Where a task is: the nodes a graph run is about to enter, and the calls *)
(* it awaits inside them or in the runner.                                 *)
RunPC == Node \cup {"planning", "executing", "backoff", "registering", "progress",
                    "checking", "failing", "compensating", "compensated"}
CancelPC == {"cancelling", "timing_out", "timed_out"}
TaskType == [pc : {"idle", "spawned", "resolving"} \cup RunPC \cup CancelPC,
             of : Session \cup {NoSession}, g : GraphState,
             answer : {"none", "yes", "no"}, ck : Kio \cup {NoKio}, undo : BOOLEAN]
IdleTask == [pc |-> "idle", of |-> NoSession, g |-> EmptyState, answer |-> "none",
             ck |-> NoKio, undo |-> FALSE]

EntryStatus == {"QUEUED", "VALIDATING", "READY", "DISPATCHED", "RUNNING", "ACTIVE",
                "BLOCKED", "PENDING_REVIEW", "FAILED", "CANCELLED", "TIMEOUT"}
Entry == [status : EntryStatus \cup {"none"}, pending : Kio \cup {NoKio, Popped},
          artifacts : BOOLEAN, deadline : BOOLEAN, submitted : BOOLEAN]
NoEntry == [status |-> "none", pending |-> NoKio, artifacts |-> FALSE,
            deadline |-> FALSE, submitted |-> FALSE]

Terminal == {"COMPLETED", "FAILED", "TIMEOUT", "CANCELLED", "COMPENSATING", "COMPENSATED"}
DbState == {"none", "CREATED", "RUNNING", "WAITING"} \cup Terminal

TypeOK ==
  /\ active \in [Session -> Entry]
  /\ lock \in [Session -> Task \cup {NoTask}]
  /\ task \in [Task -> TaskType]
  /\ retry \in [Session -> -1..MaxRetries]
  /\ OSM!OrchTypeOK
  /\ graph \in [Session -> Thread]
  /\ db \in [Session -> DbState]
  /\ approval \in [Session -> [Kio -> {"none", "PENDING", "APPROVED"}]]
  /\ stored \subseteq Session
  /\ faults \in 0..MaxFaults /\ restarts \in 0..MaxRestarts

Init ==
  /\ active = [s \in Session |-> NoEntry]
  /\ lock = [s \in Session |-> NoTask]
  /\ task = [t \in Task |-> IdleTask]
  /\ retry = [s \in Session |-> -1]
  /\ OSM!OrchInit
  /\ graph = [s \in Session |-> [next |-> "none", paused |-> FALSE, g |-> EmptyState]]
  /\ db = [s \in Session |-> "none"]
  /\ approval = [s \in Session |-> [k \in Kio |-> "none"]]
  /\ stored = {}
  /\ faults = 0 /\ restarts = 0

-----------------------------------------------------------------------------
(* Helpers *)

Live(s) == active[s].status # "none"          \* session_id in _active
SetStatus(s, st) ==
  IF Live(s) THEN [active EXCEPT ![s].status = st] ELSE active
SetPending(s, st, p) ==
  IF Live(s) THEN [active EXCEPT ![s].status = st, ![s].pending = p] ELSE active

At(t, p) == task[t].pc = p
Goto(t, p) == task' = [task EXCEPT ![t].pc = p]
End(t) == task' = [task EXCEPT ![t] = IdleTask]

(* A node returned g: LangGraph writes the checkpoint and enters next. *)
Enter(t, next, g) ==
  /\ task' = [task EXCEPT ![t].pc = next, ![t].g = g]
  /\ graph' = [graph EXCEPT ![task[t].of] = [next |-> next, paused |-> FALSE, g |-> g]]

CurrentKio(g) == g.plan[g.step + 1]
HasKio(g) == g.step < Len(g.plan)

NoFault == UNCHANGED boundVars
Fault(call) ==
  /\ call \in Failing
  /\ faults < MaxFaults
  /\ faults' = faults + 1
  /\ UNCHANGED restarts

(* The state update of a Session Manager call that raises: none, unless    *)
(* only the reply was lost.                                                *)
Applied(written) == {db} \cup (IF LostReplies THEN {written} ELSE {})

(* A status update whose failure is swallowed by its caller. *)
TryStatus(s, st) ==
  \/ db' = [db EXCEPT ![s] = st] /\ NoFault
  \/ UNCHANGED db /\ Fault("update_status")

(* An exception leaves ainvoke: the handler marks the entry FAILED and     *)
(* remembers whether the entry lists artifacts to compensate, before it    *)
(* awaits the status update.                                               *)
Raise(t) ==
  LET s == task[t].of IN
  /\ active' = SetStatus(s, "FAILED")
  /\ task' = [task EXCEPT ![t].pc = "failing", ![t].undo = active[s].artifacts]

(* _cleanup_session, then workflow_finished. *)
Cleanup(s) ==
  /\ active' = [active EXCEPT ![s] = NoEntry]
  /\ lock' = [lock EXCEPT ![s] = NoTask]
  /\ OSM!WorkflowFinished

(* A mutant: the run forgets to leave the lock. *)
KeepLock(t) == UNCHANGED lock

(* Leaving `async with lock`: a lock dropped by a cleanup is another       *)
(* object by now.                                                          *)
Release(t) ==
  LET s == task[t].of
  IN  lock' = [lock EXCEPT ![s] = IF lock[s] = t THEN NoTask ELSE lock[s]]

-----------------------------------------------------------------------------
(* The runner's API *)

(* run(): create_session, then the entry, then create_task(_run_graph). *)
Run(s, t, r, timed) ==
  /\ db[s] = "none" /\ At(t, "idle")
  /\ db' = [db EXCEPT ![s] = "CREATED"]
  /\ active' = [active EXCEPT ![s] =
       [status |-> "QUEUED", pending |-> NoKio, artifacts |-> FALSE,
        deadline |-> timed, submitted |-> TRUE]]
  /\ OSM!WorkflowSubmitted
  /\ task' = [task EXCEPT ![t] = [IdleTask EXCEPT !.pc = "spawned", !.of = s,
                                                  !.g = InitialState(r)]]
  /\ UNCHANGED <<lock, retry, graph, approval, stored, boundVars>>

(* The session is created but the reply is lost: run() raises, or its      *)
(* retry creates another session and this one is never started.            *)
RunLost(s) ==
  /\ db[s] = "none" /\ LostReplies
  /\ Fault("create_session")
  /\ db' = [db EXCEPT ![s] = "CREATED"]
  /\ UNCHANGED <<active, lock, task, retry, orchVars, graph, approval, stored>>

(* A mutant: the graph is resumed without waiting for the checkpoint to be *)
(* resolved.                                                               *)
ApproveUnresolved(s, t, a) ==
  /\ Live(s) /\ active[s].pending \in Kio /\ At(t, "idle")
  /\ Impatient \/ active[s].status = "PENDING_REVIEW"
  /\ active' = [active EXCEPT ![s].status = "RUNNING", ![s].pending = Popped]
  /\ task' = [task EXCEPT ![t] = [IdleTask EXCEPT !.pc = "spawned", !.of = s,
                                    !.answer = a, !.ck = active[s].pending]]
  /\ UNCHANGED <<lock, retry, orchVars, durableVars, boundVars>>

(* approve(), up to its await: the session is known, a checkpoint is       *)
(* pending, and popping it keeps a second caller out.                      *)
Approve(s, t, a) ==
  /\ Live(s) /\ active[s].pending \in Kio /\ At(t, "idle")
  /\ Impatient \/ active[s].status = "PENDING_REVIEW"
  /\ active' = [active EXCEPT ![s].status = "RUNNING", ![s].pending = Popped]
  /\ task' = [task EXCEPT ![t] = [IdleTask EXCEPT !.pc = "resolving", !.of = s,
                                    !.answer = a, !.ck = active[s].pending]]
  /\ UNCHANGED <<lock, retry, orchVars, durableVars, boundVars>>

(* The checkpoint is resolved, and create_task(_resume_graph) follows. *)
Resolve(t) ==
  LET s == task[t].of IN
  /\ At(t, "resolving")
  /\ approval' = [approval EXCEPT ![s][task[t].ck] = "APPROVED"]
  /\ db' = [db EXCEPT ![s] = "RUNNING"]
  /\ Goto(t, "spawned")
  /\ UNCHANGED <<active, lock, retry, orchVars, graph, stored, boundVars>>

(* resolve_checkpoint raised: the request fails, nothing is put back. *)
ResolveFails(t) ==
  LET s == task[t].of IN
  /\ At(t, "resolving")
  /\ Fault("resolve_checkpoint")
  /\ \/ UNCHANGED <<approval, db>>
     \/ /\ LostReplies
        /\ approval' = [approval EXCEPT ![s][task[t].ck] = "APPROVED"]
        /\ db' = [db EXCEPT ![s] = "RUNNING"]
  /\ End(t)
  /\ UNCHANGED <<active, lock, retry, orchVars, graph, stored>>

(* cancel(reason CANCELLED), called by the API on a session that is not in *)
(* a terminal state.                                                       *)
Cancel(s, t) ==
  /\ Cancels /\ Live(s) /\ At(t, "idle")
  /\ active[s].status \notin {"FAILED", "CANCELLED", "TIMEOUT"}
  /\ active' = SetStatus(s, "CANCELLED")
  /\ task' = [task EXCEPT ![t] = [IdleTask EXCEPT !.pc = "cancelling", !.of = s]]
  /\ UNCHANGED <<lock, retry, orchVars, durableVars, boundVars>>

Cancelled(t) ==
  LET s == task[t].of IN
  /\ At(t, "cancelling")
  /\ TryStatus(s, "CANCELLED")
  /\ Cleanup(s)
  /\ End(t)
  /\ UNCHANGED <<retry, graph, approval, stored>>

(* The timeout monitor's sweep, one session at a time: cancel(reason       *)
(* TASK_TIMEOUT) on a session past its deadline that nobody waits for.     *)
Expire(s, t) ==
  /\ Live(s) /\ active[s].deadline /\ At(t, "idle")
  /\ active[s].status \notin {"FAILED", "TIMEOUT", "CANCELLED", "PENDING_REVIEW", "BLOCKED"}
  /\ \A u \in Task : task[u].pc \notin {"timing_out", "timed_out"}
  /\ active' = SetStatus(s, "TIMEOUT")
  /\ task' = [task EXCEPT ![t] = [IdleTask EXCEPT !.pc = "timing_out", !.of = s]]
  /\ UNCHANGED <<lock, retry, orchVars, durableVars, boundVars>>

TimedOut(t) ==
  LET s == task[t].of IN
  /\ At(t, "timing_out")
  /\ TryStatus(s, "TIMEOUT")
  /\ active' = SetStatus(s, "FAILED")
  /\ Goto(t, "timed_out")
  /\ UNCHANGED <<lock, retry, orchVars, graph, approval, stored>>

TimeoutFailed(t) ==
  LET s == task[t].of IN
  /\ At(t, "timed_out")
  /\ TryStatus(s, "FAILED")
  /\ Cleanup(s)
  /\ End(t)
  /\ UNCHANGED <<retry, graph, approval, stored>>

-----------------------------------------------------------------------------
(* The graph run: _run_graph and _resume_graph *)

(* A mutant: the lock is never found taken. *)
AlwaysFree(s) == TRUE

(* not lock.locked() *)
Free(s) == lock[s] = NoTask

(* A second run on a session whose lock is taken is skipped.  Otherwise a  *)
(* first run starts the thread at "plan"; a resumed one loads the last     *)
(* checkpoint and re-enters the node it stopped before; the answer is      *)
(* consumed by that node only.                                             *)
Begin(t) ==
  LET s == task[t].of
      first == task[t].answer = "none"
      node == IF graph[s].next = "end" THEN "checking" ELSE graph[s].next
  IN
  /\ At(t, "spawned")
  /\ \/ /\ ~Free(s)
        /\ End(t)
        /\ UNCHANGED <<lock, graph>>
     \/ /\ Free(s)
        /\ lock' = [lock EXCEPT ![s] = t]
        /\ IF first
           THEN Enter(t, "plan", task[t].g)
           ELSE /\ task' = [task EXCEPT ![t].pc = node, ![t].g = graph[s].g,
                              ![t].answer = IF node = "hitl" THEN @ ELSE "none"]
                /\ UNCHANGED graph
  /\ UNCHANGED <<active, retry, orchVars, db, approval, stored, boundVars>>

(* plan_node: a given pipeline is taken as it is, an empty one planned. *)
Plan(t) ==
  LET s == task[t].of IN
  /\ At(t, "plan")
  /\ IF task[t].g.plan # <<>>
     THEN /\ active' = SetStatus(s, "READY")
          /\ Enter(t, "run_kio", task[t].g)
     ELSE /\ active' = SetStatus(s, "VALIDATING")
          /\ Goto(t, "planning")
          /\ UNCHANGED graph
  /\ UNCHANGED <<lock, retry, orchVars, db, approval, stored, boundVars>>

(* The planner never raises and never answers with an empty plan. *)
Planned(t) ==
  LET s == task[t].of IN
  /\ At(t, "planning")
  /\ \E r \in Requests :
       /\ r.plan # <<>>
       /\ Enter(t, "run_kio", [task[t].g EXCEPT !.plan = r.plan])
  /\ active' = SetStatus(s, "READY")
  /\ UNCHANGED <<lock, retry, orchVars, db, approval, stored, boundVars>>

(* run_kio_node up to kio.execute: RetryManager.register keeps the counter *)
(* of a session it knows.                                                  *)
Dispatch(t) ==
  LET s == task[t].of IN
  /\ At(t, "run_kio") /\ HasKio(task[t].g)
  /\ active' = SetStatus(s, "DISPATCHED")
  /\ retry' = [retry EXCEPT ![s] = IF retry[s] = -1 THEN 0 ELSE retry[s]]
  /\ Goto(t, "executing")
  /\ UNCHANGED <<lock, orchVars, durableVars, boundVars>>

(* TaskScheduler.schedule returned None: the exception is raised before    *)
(* the retry loop.                                                         *)
NoCapableAgent(t) ==
  /\ At(t, "run_kio")
  /\ Fault("schedule")
  /\ Raise(t)
  /\ UNCHANGED <<lock, retry, orchVars, durableVars>>

(* The KIO answered, with or without a review request, possibly with a new *)
(* pipeline, for which it may or may not name the gates.  A result with    *)
(* status FAILED is a result like any other.                               *)
KioReturns(t) ==
  LET s == task[t].of
      g == task[t].g
  IN
  /\ At(t, "executing")
  /\ \E review \in BOOLEAN, r \in Reroutes \cup {[plan |-> g.plan, gates |-> g.gates]} :
     \E gates \in {g.gates, r.gates} :
       task' = [task EXCEPT ![t].pc = "registering",
                  ![t].g = [g EXCEPT !.review = review, !.plan = r.plan, !.gates = gates]]
  /\ retry' = [retry EXCEPT ![s] = IF retry[s] = -1 THEN -1 ELSE 0]
  /\ active' = SetStatus(s, "ACTIVE")
  /\ UNCHANGED <<lock, orchVars, durableVars, boundVars>>

(* A mutant: one attempt too many. *)
RetryOnceMore(s) == retry[s] # -1 /\ retry[s] <= MaxRetries

(* RetryManager.should_retry *)
ShouldRetry(s) == retry[s] # -1 /\ retry[s] < MaxRetries

(* kio.execute raised: retry, else offer the other LLM provider at a gate, *)
(* else give up.  The attempt is counted before the backoff is slept.      *)
KioRaises(t) ==
  LET s == task[t].of
      g == task[t].g
      retries == ShouldRetry(s) /\ ~g.override
      offers == ~retries /\ Fallback /\ ~g.override
  IN
  /\ At(t, "executing")
  /\ Fault("execute")
  /\ \/ /\ retries
        /\ retry' = [retry EXCEPT ![s] = @ + 1]
        /\ Goto(t, "backoff")
        /\ UNCHANGED <<active, graph>>
     \/ /\ offers
        /\ Enter(t, "hitl", [g EXCEPT !.review = TRUE, !.rejected = FALSE,
                                      !.retryPending = TRUE])
        /\ UNCHANGED <<active, retry>>
     \/ /\ ~retries /\ ~offers
        /\ Raise(t)
        /\ UNCHANGED <<retry, graph>>
  /\ UNCHANGED <<lock, orchVars, db, approval, stored>>

(* The backoff is over; RETRYING is overwritten before the next await. *)
Backoff(t) ==
  /\ At(t, "backoff")
  /\ active' = SetStatus(task[t].of, "RUNNING")
  /\ Goto(t, "executing")
  /\ UNCHANGED <<lock, retry, orchVars, durableVars, boundVars>>

(* register_artifact: a failure is logged and the workflow goes on. *)
Register(t) ==
  /\ At(t, "registering")
  /\ \/ stored' = stored \cup {task[t].of} /\ NoFault
     \/ UNCHANGED stored /\ Fault("register_artifact")
  /\ Goto(t, "progress")
  /\ UNCHANGED <<active, lock, retry, orchVars, graph, db, approval>>

(* A mutant: hitl_after is not looked at. *)
GatedByKioOnly(g) == g.retryPending \/ g.review

(* should_hitl *)
Gated(g) == g.retryPending \/ g.review \/ CurrentKio(g) \in g.gates

(* update_progress, the node's return and the conditional edge.  A new     *)
(* pipeline may be shorter than the steps already done: the edge then      *)
(* fails on its index.                                                     *)
Progress(t) ==
  LET s == task[t].of
      g == [task[t].g EXCEPT !.artifacts = TRUE, !.rejected = FALSE]
  IN
  /\ At(t, "progress")
  /\ db' = [db EXCEPT ![s] = "RUNNING"]
  /\ IF HasKio(g)
     THEN /\ Enter(t, IF Gated(g) THEN "hitl" ELSE "advance", g)
          /\ UNCHANGED active
     ELSE /\ Raise(t)
          /\ UNCHANGED graph
  /\ UNCHANGED <<lock, retry, orchVars, approval, stored, boundVars>>

ProgressFails(t) ==
  /\ At(t, "progress")
  /\ Fault("update_progress")
  /\ db' \in Applied([db EXCEPT ![task[t].of] = "RUNNING"])
  /\ Raise(t)
  /\ UNCHANGED <<lock, retry, orchVars, graph, approval, stored>>

(* A mutant: the approval is not stored with the checkpoint. *)
CheckpointOnly(s, k) ==
  /\ db' = [db EXCEPT ![s] = IF approval[s][k] = "none" THEN "WAITING" ELSE @]
  /\ UNCHANGED approval

(* A mutant: reusing an answered checkpoint marks the session waiting.     *)
WaitOnReuse(s, k) ==
  /\ approval' = [approval EXCEPT ![s][k] = IF @ = "none" THEN "PENDING" ELSE @]
  /\ db' = [db EXCEPT ![s] = "WAITING"]

(* create_hitl_checkpoint in the Session Manager: the first call for a     *)
(* step creates the approval and marks the session waiting; a later one    *)
(* finds the existing approval and changes nothing.                        *)
CreateCheckpoint(s, k) ==
  IF approval[s][k] = "none"
  THEN /\ approval' = [approval EXCEPT ![s][k] = "PENDING"]
       /\ db' = [db EXCEPT ![s] = "WAITING"]
  ELSE UNCHANGED <<approval, db>>

(* hitl_node: it runs from its start again when the graph is resumed, and  *)
(* only then interrupt() returns the answer.  An interrupt belongs to the  *)
(* checkpoint it was raised from, so it pauses the thread only while that  *)
(* is still the latest one.                                                *)
Hitl(t) ==
  LET s == task[t].of
      g == task[t].g
      k == CurrentKio(g)
  IN
  /\ At(t, "hitl")
  /\ CreateCheckpoint(s, k)
  /\ active' = SetPending(s, "BLOCKED", k)
  /\ IF task[t].answer = "none"
     THEN /\ graph' = [graph EXCEPT ![s].paused =
                          @ \/ (graph[s].next = "hitl" /\ graph[s].g = g)]
          /\ Goto(t, "checking")
     ELSE LET h == [g EXCEPT !.rejected = (task[t].answer = "no")] IN
          /\ graph' = [graph EXCEPT ![s] = [next |-> "advance", paused |-> FALSE, g |-> h]]
          /\ task' = [task EXCEPT ![t] = [@ EXCEPT !.pc = "advance", !.g = h,
                                                   !.answer = "none"]]
  /\ UNCHANGED <<lock, retry, orchVars, stored, boundVars>>

HitlFails(t) ==
  /\ At(t, "hitl")
  /\ Fault("create_hitl_checkpoint")
  /\ \/ UNCHANGED <<approval, db>>
     \/ LostReplies /\ CreateCheckpoint(task[t].of, CurrentKio(task[t].g))
  /\ Raise(t)
  /\ UNCHANGED <<lock, retry, orchVars, graph, stored>>

(* should_continue *)
Continue(g) == IF HasKio(g) THEN "run_kio" ELSE "complete"

(* advance_node: a pending provider switch reruns the same step, with the  *)
(* other provider if the human agreed; otherwise the step is done.         *)
Advance(t) ==
  LET s == task[t].of
      g == task[t].g
      switched == [g EXCEPT !.retryPending = FALSE, !.override = TRUE, !.rejected = FALSE]
      refused == [g EXCEPT !.retryPending = FALSE]
      done == [g EXCEPT !.step = @ + 1]
  IN
  /\ At(t, "advance")
  /\ \/ /\ g.retryPending /\ g.rejected
        /\ active' = SetStatus(s, "FAILED")
        /\ Enter(t, Continue(refused), refused)
     \/ /\ g.retryPending /\ ~g.rejected
        /\ active' = SetPending(s, "ACTIVE", NoKio)
        /\ Enter(t, Continue(switched), switched)
     \/ /\ ~g.retryPending
        /\ active' = SetPending(s, "ACTIVE", NoKio)
        /\ Enter(t, Continue(done), done)
  /\ UNCHANGED <<lock, retry, orchVars, db, approval, stored, boundVars>>

(* A mutant: the state machine is not told that the workflow finished. *)
CompleteUncounted(t) ==
  LET s == task[t].of IN
  /\ At(t, "complete")
  /\ db' = [db EXCEPT ![s] = "COMPLETED"]
  /\ active' = [active EXCEPT ![s] = NoEntry]
  /\ retry' = [retry EXCEPT ![s] = -1]
  /\ graph' = [graph EXCEPT ![s] = [next |-> "end", paused |-> FALSE, g |-> task[t].g]]
  /\ Goto(t, "checking")
  /\ UNCHANGED <<orchVars, lock, approval, stored, boundVars>>

(* complete_node *)
Complete(t) ==
  LET s == task[t].of IN
  /\ At(t, "complete")
  /\ db' = [db EXCEPT ![s] = "COMPLETED"]
  /\ active' = [active EXCEPT ![s] = NoEntry]
  /\ OSM!WorkflowFinished
  /\ retry' = [retry EXCEPT ![s] = -1]
  /\ graph' = [graph EXCEPT ![s] = [next |-> "end", paused |-> FALSE, g |-> task[t].g]]
  /\ Goto(t, "checking")
  /\ UNCHANGED <<lock, approval, stored, boundVars>>

CompleteFails(t) ==
  /\ At(t, "complete")
  /\ Fault("update_status")
  /\ db' \in Applied([db EXCEPT ![task[t].of] = "COMPLETED"])
  /\ Raise(t)
  /\ UNCHANGED <<lock, retry, orchVars, graph, approval, stored>>

(* A mutant: the pause is not published. *)
CheckSilently(t) ==
  /\ At(t, "checking")
  /\ Release(t)
  /\ End(t)
  /\ UNCHANGED <<active, retry, orchVars, durableVars, boundVars>>

(* ainvoke returned: _check_graph_state publishes a pause, and the lock is *)
(* released.                                                               *)
Check(t) ==
  LET s == task[t].of IN
  /\ At(t, "checking")
  /\ active' = IF graph[s].paused
               THEN SetPending(s, "PENDING_REVIEW", CurrentKio(graph[s].g))
               ELSE active
  /\ Release(t)
  /\ End(t)
  /\ UNCHANGED <<retry, orchVars, durableVars, boundVars>>

(* _handle_failure after its first await, and the compensation it starts   *)
(* for the artifacts the entry lists: its walk is best effort and never    *)
(* raises, so only its two status updates show.  The entry and the lock go *)
(* last, in one step with the counter.                                     *)
UnwindStatus == [failing |-> "FAILED", compensating |-> "COMPENSATING",
                 compensated |-> "COMPENSATED"]

Unwind(t) ==
  LET s == task[t].of
      last == At(t, "compensated") \/ (At(t, "failing") /\ ~task[t].undo)
  IN
  /\ task[t].pc \in DOMAIN UnwindStatus
  /\ TryStatus(s, UnwindStatus[task[t].pc])
  /\ IF last
     THEN /\ Cleanup(s)
          /\ End(t)
     ELSE /\ Goto(t, IF At(t, "failing") THEN "compensating" ELSE "compensated")
          /\ UNCHANGED <<active, lock, orchVars>>
  /\ UNCHANGED <<retry, graph, approval, stored>>

-----------------------------------------------------------------------------
(* The process *)

(* What _to_session_dict makes of a database state that rehydrate accepts. *)
Rehydratable(s) == db[s] \in {"CREATED", "RUNNING", "WAITING"} /\ graph[s].next # "none"

(* No node ever returns a checkpoint id, so the pending_checkpoint_id read *)
(* back from the graph state is always empty.                              *)
RestoredEntry(s) ==
  [status |-> IF db[s] = "WAITING" THEN "PENDING_REVIEW" ELSE "ACTIVE",
   pending |-> NoKio, artifacts |-> graph[s].g.artifacts,
   deadline |-> FALSE, submitted |-> FALSE]

(* The process dies with every task and all in-process state.  The next    *)
(* one rehydrates the sessions it can list and load, before it serves.     *)
Restart ==
  /\ restarts < MaxRestarts
  /\ restarts' = restarts + 1
  /\ task' = [t \in Task |-> IdleTask]
  /\ lock' = [s \in Session |-> NoTask]
  /\ retry' = [s \in Session |-> -1]
  /\ mode' = "INITIALIZING" /\ workflows' = 0 /\ degraded' = {}
  /\ \E loaded \in SUBSET {s \in Session : Rehydratable(s)} :
       active' = [s \in Session |-> IF s \in loaded THEN RestoredEntry(s) ELSE NoEntry]
  /\ UNCHANGED <<durableVars, faults>>

RunStep(t) ==
  \/ Begin(t) \/ Plan(t) \/ Planned(t) \/ Dispatch(t) \/ KioReturns(t) \/ Backoff(t)
  \/ Register(t) \/ Progress(t) \/ Hitl(t) \/ Advance(t) \/ Complete(t) \/ Check(t)
  \/ Unwind(t)

RunFault(t) ==
  \/ NoCapableAgent(t) \/ KioRaises(t) \/ ProgressFails(t) \/ HitlFails(t)
  \/ CompleteFails(t)

CallStep(t) ==
  \/ Resolve(t) \/ ResolveFails(t) \/ Cancelled(t) \/ TimedOut(t) \/ TimeoutFailed(t)

ClientStep(s, t) ==
  \/ \E r \in Requests, timed \in {FALSE, Cancels} : Run(s, t, r, timed)
  \/ \E a \in {"yes", "no"} : Approve(s, t, a)
  \/ Cancel(s, t)
  \/ Expire(s, t)

Next ==
  \/ \E t \in Task : RunStep(t) \/ RunFault(t) \/ CallStep(t)
  \/ \E s \in Session, t \in Task : ClientStep(s, t)
  \/ \E s \in Session : RunLost(s)
  \/ Restart

(* Fairness: the event loop runs every ready task, and every awaited call  *)
(* returns or raises, because all of them carry a client-side timeout.     *)
(* Clients, deadlines, faults and restarts are never forced.               *)
Spec ==
  /\ Init
  /\ [][Next]_vars
  /\ \A t \in Task : WF_vars(RunStep(t) \/ RunFault(t)) /\ WF_vars(CallStep(t))

-----------------------------------------------------------------------------
(* Properties *)

Owned(s) == \E t \in Task : task[t].of = s      \* some task works on s
Inside(t) == task[t].pc \in RunPC               \* t is in `async with lock`
Approvable(s) ==
  /\ graph[s].paused
  /\ active[s].status = "PENDING_REVIEW"
  /\ active[s].pending = CurrentKio(graph[s].g)

(* As long as a session has a runtime entry, its lock is held by the one   *)
(* graph run that is inside: no KIO job is dispatched twice and no graph   *)
(* checkpoint is written by two runs, whatever approvals, cancellations    *)
(* and deadlines interleave with it.                                       *)
LiveRunsOnce == \A t \in Task : Inside(t) /\ Live(task[t].of) => lock[task[t].of] = t

(* A session submitted to this process that no task works on is one a      *)
(* human can answer: it is paused, and the status shows the question the   *)
(* graph is paused at.  Nothing falls between the graph run, the approval  *)
(* and the cleanup.                                                        *)
NobodyForgotten ==
  \A s \in Session : active[s].submitted /\ ~Owned(s) => Approvable(s)

(* The orchestrator state machine counts the sessions that are running:    *)
(* each run is submitted once and finished once.                           *)
WorkflowsCounted == workflows = Cardinality({s \in Session : active[s].submitted})

(* For any clients the count never exceeds what is running: although a     *)
(* session may be finished twice, none is left counted after it is gone,   *)
(* so the orchestrator cannot stay ACTIVE without work.                    *)
NoPhantomWork == workflows <= Cardinality({s \in Session : active[s].submitted})

(* A checkpoint shown as pending exists in the Session Manager: an         *)
(* approval never refers to a question that was not asked.                 *)
PendingIsReal ==
  \A s \in Session : active[s].pending \in Kio => approval[s][active[s].pending] # "none"

(* The database reports a session as waiting for a human only while a      *)
(* question is open.                                                       *)
WaitingHasQuestion ==
  \A s \in Session : db[s] = "WAITING" => \E k \in Kio : approval[s][k] = "PENDING"

(* No gate opens on its own: a graph leaves the hitl node only after some  *)
(* human answer for that session was accepted, in this process or before   *)
(* a restart, whatever clients and faults do.                              *)
GateNeedsAnswer ==
  [][\A s \in Session :
       graph[s].next = "hitl" /\ graph'[s].next = "advance" =>
         \E k \in Kio : approval[s][k] = "APPROVED"]_vars

(* Every graph run comes to an end, and a session that was submitted is    *)
(* then over or waits for a human who can answer it.                       *)
EveryRunSettles ==
  \A s \in Session : active[s].submitted ~> (~Live(s) \/ Approvable(s))

(* The engine keeps the promise of GatedPipeline.  The stage, the step and *)
(* its gate are read off the checkpointer, the outcome off the database,   *)
(* and an answer is in force while the task that carries it is alive.      *)
GateOf(s) ==
  LET g == graph[s].g IN
  graph[s].next \in Node /\ HasKio(g) /\ CurrentKio(g) \in g.gates
OutcomeOf(s) ==
  CASE db[s] = "COMPLETED" -> "completed"
    [] db[s] \in Terminal \ {"COMPLETED"} -> "failed"
    [] OTHER -> "open"
CarriesAnswer(s) == \E t \in Task : task[t].of = s /\ task[t].answer # "none"

Promise == INSTANCE GatedPipeline WITH
  stage <- [s \in Session |-> graph[s].next],
  step <- [s \in Session |-> graph[s].g.step],
  gated <- [s \in Session |-> GateOf(s)],
  granted <- [s \in Session |-> CarriesAnswer(s)],
  outcome <- [s \in Session |-> OutcomeOf(s)]

(* For clients that answer what the status asks, the steps are passed in   *)
(* order, no gated step is passed without the answer to its own question,  *)
(* and nothing moves after the outcome is recorded.                        *)
KeepsPromise == Promise!PipelineSpec

-----------------------------------------------------------------------------
(* Claims of the comments and documents that the code does not keep; each  *)
(* is the subject of a run that is expected to fail.                       *)

(* workflow_runner.py:194-197: rehydrate restores sessions "so approve()   *)
(* and get_state() work correctly without a new run() call".               *)
RestoredIsApprovable ==
  \A s \in Session :
    Live(s) /\ active[s].status = "PENDING_REVIEW" => active[s].pending \in Kio

(* workflow_runner.py:391 calls FAILED "(terminal)": only compensation may *)
(* follow it.                                                              *)
FailedIsTerminal ==
  [][\A s \in Session : db[s] = "FAILED" =>
       db'[s] \in {"FAILED", "COMPENSATING", "COMPENSATED"}]_vars

(* workflow_runner.py:275: approve() will "Resume the interrupted graph    *)
(* after human approval".                                                  *)
AnswerResumes ==
  \A s \in Session :
    (\E t \in Task : At(t, "resolving") /\ task[t].of = s /\ graph[s].paused)
      ~> ~graph[s].paused

(* workflow_runner.py:432: a failure will "trigger compensation for any    *)
(* artifacts registered before the failure".                               *)
FailureIsCompensated ==
  \A s \in Session : (db[s] = "FAILED" /\ s \in stored) ~> db[s] = "COMPENSATED"
=============================================================================
