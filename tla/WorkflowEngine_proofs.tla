------------------------ MODULE WorkflowEngine_proofs ------------------------
(***************************************************************************)
(* Proofs about the workflow engine, for every set of sessions, tasks and  *)
(* KIOs, every pipeline, any number of faults and restarts, and every      *)
(* combination of client behaviours.                                       *)
(***************************************************************************)
EXTENDS WorkflowEngine, TLAPS

(* What holds of a task: it works on a session that was created; its graph *)
(* has been started if it is past `spawned`; the step it is at has a KIO;  *)
(* and it holds the lock if it is inside while the session has an entry.   *)
TaskOK(t) ==
  LET s == task[t].of IN
  /\ ~At(t, "idle") => s \in Session /\ db[s] # "none"
  /\ At(t, "resolving") => task[t].answer # "none"
  /\ (Inside(t) \/ At(t, "resolving") \/ (At(t, "spawned") /\ task[t].answer # "none"))
       => graph[s].next # "none"
  /\ (At(t, "plan") \/ At(t, "planning") \/ (At(t, "spawned") /\ task[t].answer = "none"))
       => task[t].g.step = 0
  /\ (At(t, "run_kio") \/ At(t, "executing") \/ At(t, "backoff") \/ At(t, "hitl"))
       => HasKio(task[t].g)
  /\ Inside(t) /\ Live(s) => lock[s] = t

(* What holds of a session: only a created one has an entry, only a        *)
(* started one a pending checkpoint, and the step its checkpointed graph   *)
(* would resume at has a KIO.                                              *)
SessionOK(s) ==
  /\ Live(s) => db[s] # "none"
  /\ active[s].pending \in Kio => db[s] # "none" /\ graph[s].next # "none"
  /\ graph[s].next = "plan" => graph[s].g.step = 0
  /\ graph[s].next \in {"run_kio", "hitl"} => HasKio(graph[s].g)
  /\ graph[s].paused => graph[s].next = "hitl"

(* Neither the types nor the lock property is inductive by itself: which   *)
(* node a resumed run enters, which KIO is read from the pipeline and who  *)
(* may own a new session all depend on the rest.                           *)
EngineInv ==
  /\ TypeOK
  /\ \A t \in Task : TaskOK(t)
  /\ \A s \in Session : SessionOK(s)

-----------------------------------------------------------------------------
(* Fields of the records, and what the primitives of the engine do. *)

PC == {"idle", "spawned", "resolving"} \cup RunPC \cup CancelPC

(* The fields of a task, one by one. *)
LEMMA TaskFields ==
  ASSUME NEW x \in TaskType
  PROVE  /\ x.pc \in PC /\ x.of \in Session \cup {NoSession} /\ x.g \in GraphState
         /\ x.answer \in {"none", "yes", "no"} /\ x.ck \in Kio \cup {NoKio}
         /\ x.undo \in BOOLEAN
BY DEF TaskType, PC

(* The fields of a checkpointed thread, one by one. *)
LEMMA ThreadFields ==
  ASSUME NEW x \in Thread
  PROVE  /\ x.next \in Node \cup {"none", "end"}
         /\ x.paused \in BOOLEAN
         /\ x.g \in GraphState
BY DEF Thread

(* Reading the current KIO is safe when the step has one. *)
LEMMA CurrentKioType ==
  ASSUME NEW g \in GraphState, HasKio(g)
  PROVE  CurrentKio(g) \in Kio
<1>1. g.plan \in Seq(Kio) /\ g.step \in Nat
  BY DEF GraphState, PlanType
<1>2. g.step + 1 \in 1..Len(g.plan)
  BY <1>1 DEF HasKio
<1>3. QED
  BY <1>1, <1>2 DEF CurrentKio

(* Goto moves one task and leaves its session, state and answer alone. *)
LEMMA MoveTask ==
  ASSUME task \in [Task -> TaskType], NEW t \in Task, NEW p \in PC, Goto(t, p)
  PROVE  /\ task' \in [Task -> TaskType]
         /\ task'[t].pc = p /\ task'[t].of = task[t].of /\ task'[t].g = task[t].g
         /\ task'[t].answer = task[t].answer
         /\ \A u \in Task : u # t => task'[u] = task[u]
<1> DEFINE x == [task[t] EXCEPT !.pc = p]
<1>1. task[t] \in TaskType
  OBVIOUS
<1>2. /\ x \in TaskType
      /\ x.pc = p /\ x.of = task[t].of /\ x.g = task[t].g /\ x.answer = task[t].answer
  BY <1>1 DEF TaskType, PC
<1>3. task' = [task EXCEPT ![t] = x]
  BY DEF Goto
<1> HIDE DEF x
<1>4. QED
  BY <1>2, <1>3

(* End makes one task idle. *)
LEMMA EndTask ==
  ASSUME task \in [Task -> TaskType], NEW t \in Task, End(t)
  PROVE  /\ task' \in [Task -> TaskType]
         /\ task'[t].pc = "idle"
         /\ \A u \in Task : u # t => task'[u] = task[u]
<1>1. IdleTask \in TaskType /\ IdleTask.pc = "idle"
  BY DEF IdleTask, TaskType, EmptyState, InitialState, GraphState, PlanType
<1>2. QED
  BY <1>1 DEF End

(* Enter moves one task to a node and checkpoints the state it enters with. *)
LEMMA EnterTask ==
  ASSUME task \in [Task -> TaskType], graph \in [Session -> Thread],
         NEW t \in Task, NEW p \in Node, NEW g \in GraphState, Enter(t, p, g)
  PROVE  /\ task' \in [Task -> TaskType]
         /\ task'[t].pc = p /\ task'[t].of = task[t].of /\ task'[t].g = g
         /\ task'[t].answer = task[t].answer
         /\ \A u \in Task : u # t => task'[u] = task[u]
         /\ graph' \in [Session -> Thread]
         /\ \A s \in Session :
              /\ s = task[t].of => graph'[s] = [next |-> p, paused |-> FALSE, g |-> g]
              /\ s # task[t].of => graph'[s] = graph[s]
<1> DEFINE x == [task[t] EXCEPT !.pc = p, !.g = g]
           y == [next |-> p, paused |-> FALSE, g |-> g]
<1>1. task[t] \in TaskType
  OBVIOUS
<1>2. /\ x \in TaskType
      /\ x.pc = p /\ x.of = task[t].of /\ x.g = g /\ x.answer = task[t].answer
  BY <1>1 DEF TaskType, RunPC
<1>3. y \in Thread
  BY DEF Thread
<1>4. /\ task' = [task EXCEPT ![t] = x]
      /\ graph' = [graph EXCEPT ![task[t].of] = y]
  BY DEF Enter
<1>5. task' \in [Task -> TaskType] /\ task'[t] = x
  <2> HIDE DEF x
  <2> QED BY <1>2, <1>4
<1>6. \A u \in Task : u # t => task'[u] = task[u]
  BY <1>4
<1>7. /\ graph' \in [Session -> Thread]
      /\ \A s \in Session : /\ s = task[t].of => graph'[s] = y
                            /\ s # task[t].of => graph'[s] = graph[s]
  <2> HIDE DEF y
  <2> QED BY <1>3, <1>4
<1>8. QED
  BY <1>2, <1>5, <1>6, <1>7

(* A new status neither adds nor removes an entry or a pending checkpoint. *)
LEMMA StatusEntry ==
  ASSUME active \in [Session -> Entry], NEW s \in Session, NEW st \in EntryStatus,
         active' = SetStatus(s, st)
  PROVE  /\ active' \in [Session -> Entry]
         /\ \A r \in Session : /\ active'[r].pending = active[r].pending
                               /\ Live(r)' <=> Live(r)
<1> DEFINE e == [active[s] EXCEPT !.status = st]
<1>1. active[s] \in Entry
  OBVIOUS
<1>2. e \in Entry /\ e.pending = active[s].pending /\ e.status = st /\ st # "none"
  BY <1>1 DEF Entry, EntryStatus
<1>3. active' = IF Live(s) THEN [active EXCEPT ![s] = e] ELSE active
  BY DEF SetStatus
<1> HIDE DEF e
<1>4. QED
  BY <1>2, <1>3 DEF Live

(* A pending checkpoint is only written into an entry that exists. *)
LEMMA PendingEntry ==
  ASSUME active \in [Session -> Entry], NEW s \in Session, NEW st \in EntryStatus,
         NEW k \in Kio \cup {NoKio, Popped}, active' = SetPending(s, st, k)
  PROVE  /\ active' \in [Session -> Entry]
         /\ \A r \in Session : /\ \/ active'[r].pending = active[r].pending
                                  \/ r = s /\ active'[r].pending = k /\ Live(s)
                               /\ Live(r)' <=> Live(r)
<1> DEFINE e == [active[s] EXCEPT !.status = st, !.pending = k]
<1>1. active[s] \in Entry
  OBVIOUS
<1>2. e \in Entry /\ e.pending = k /\ e.status = st /\ st # "none"
  BY <1>1 DEF Entry, EntryStatus
<1>3. active' = IF Live(s) THEN [active EXCEPT ![s] = e] ELSE active
  BY DEF SetPending
<1> HIDE DEF e
<1>4. QED
  BY <1>2, <1>3 DEF Live

(* An exception keeps the entry, or its absence, and moves the task on. *)
LEMMA RaiseFacts ==
  ASSUME TypeOK, NEW t \in Task, task[t].of \in Session, Raise(t)
  PROVE  /\ active' \in [Session -> Entry]
         /\ \A r \in Session : /\ active'[r].pending = active[r].pending
                               /\ Live(r)' <=> Live(r)
         /\ task' \in [Task -> TaskType]
         /\ task'[t].pc = "failing" /\ task'[t].of = task[t].of
         /\ \A u \in Task : u # t => task'[u] = task[u]
<1> DEFINE s == task[t].of
           x == [task[t] EXCEPT !.pc = "failing", !.undo = active[s].artifacts]
<1>1. active[s].artifacts \in BOOLEAN
  BY DEF TypeOK, Entry
<1>2. task[t] \in TaskType
  BY DEF TypeOK
<1>3. x \in TaskType /\ x.pc = "failing" /\ x.of = s
  BY <1>1, <1>2 DEF TaskType, RunPC
<1>4. task' = [task EXCEPT ![t] = x] /\ active' = SetStatus(s, "FAILED")
  BY DEF Raise
<1>5. "FAILED" \in EntryStatus
  BY DEF EntryStatus
<1>6. active \in [Session -> Entry] /\ task \in [Task -> TaskType]
  BY DEF TypeOK
<1> HIDE DEF x
<1>7. /\ active' \in [Session -> Entry]
      /\ \A r \in Session : /\ active'[r].pending = active[r].pending
                            /\ Live(r)' <=> Live(r)
  BY <1>4, <1>5, <1>6, StatusEntry
<1>8. QED
  BY <1>3, <1>4, <1>6, <1>7

(* _cleanup_session removes one entry and one lock and keeps the counters typed. *)
LEMMA CleanupFacts ==
  ASSUME TypeOK, NEW s \in Session, Cleanup(s)
  PROVE  /\ active' \in [Session -> Entry]
         /\ \A r \in Session : r # s => active'[r] = active[r]
         /\ active'[s].pending = NoKio
         /\ active'[s].status = "none"
         /\ lock' \in [Session -> Task \cup {NoTask}]
         /\ \A r \in Session : r # s => lock'[r] = lock[r]
         /\ OSM!OrchTypeOK'
<1>1. NoEntry \in Entry /\ NoEntry.status = "none" /\ NoEntry.pending = NoKio
  BY DEF NoEntry, Entry
<1>2. /\ active \in [Session -> Entry] /\ lock \in [Session -> Task \cup {NoTask}]
      /\ OSM!OrchTypeOK
  BY DEF TypeOK
<1>3. /\ active' = [active EXCEPT ![s] = NoEntry]
      /\ lock' = [lock EXCEPT ![s] = NoTask]
      /\ OSM!WorkflowFinished
  BY DEF Cleanup
<1>4. OSM!OrchTypeOK'
  BY <1>2, <1>3 DEF OSM!OrchTypeOK, OSM!WorkflowFinished, OSM!Mode
<1>5. QED
  BY <1>1, <1>2, <1>3, <1>4 DEF Live

(* The tasks that do not move keep what they know, as long as graphs and   *)
(* sessions stay started, only new sessions get an entry, and nobody takes *)
(* a lock away from a session that keeps its entry.                        *)
LEMMA Others ==
  ASSUME EngineInv, NEW t \in Task,
         \A u \in Task : u # t => task'[u] = task[u],
         \A s \in Session : /\ graph[s].next # "none" => graph'[s].next # "none"
                            /\ db[s] # "none" => db'[s] # "none"
                            /\ Live(s)' => Live(s) \/ db[s] = "none"
                            /\ \A u \in Task : u # t /\ lock[s] = u /\ Live(s)' => lock'[s] = u,
         TaskOK(t)'
  PROVE  \A u \in Task : TaskOK(u)'
<1> TAKE u \in Task
<1>1. CASE u = t
  BY <1>1
<1>2. CASE u # t
  <2>1. task'[u] = task[u] /\ TaskOK(u) /\ u \in Task
    BY <1>2 DEF EngineInv
  <2>2. ~At(u, "idle") => task[u].of \in Session /\ db[task[u].of] # "none"
    BY <2>1 DEF TaskOK
  <2>3. Inside(u) => ~At(u, "idle")
    BY DEF Inside, At, RunPC, Node
  <2>4. QED
    BY <2>1, <2>2, <2>3, <1>2 DEF TaskOK, At, Inside
<1>3. QED
  BY <1>1, <1>2

(* What an action may use of the task it belongs to. *)
LEMMA Known ==
  ASSUME EngineInv, NEW t \in Task, ~At(t, "idle")
  PROVE  /\ TypeOK /\ TaskOK(t)
         /\ active \in [Session -> Entry] /\ task \in [Task -> TaskType]
         /\ graph \in [Session -> Thread] /\ db \in [Session -> DbState]
         /\ task[t].of \in Session /\ db[task[t].of] # "none"
         /\ SessionOK(task[t].of)
         /\ task[t].g \in GraphState /\ graph[task[t].of].g \in GraphState
<1>1. TypeOK /\ TaskOK(t)
  BY DEF EngineInv
<1>2. /\ active \in [Session -> Entry] /\ task \in [Task -> TaskType]
      /\ graph \in [Session -> Thread] /\ db \in [Session -> DbState]
  BY <1>1 DEF TypeOK
<1>3. task[t].of \in Session /\ db[task[t].of] # "none"
  BY <1>1 DEF TaskOK
<1>4. task[t] \in TaskType /\ graph[task[t].of] \in Thread
  BY <1>2, <1>3
<1>5. QED
  BY <1>1, <1>2, <1>3, <1>4, TaskFields, ThreadFields DEF EngineInv

(* Every session is as good as before when graph and database are not      *)
(* touched and no entry, and no pending checkpoint, appears from nowhere.  *)
LEMMA SameSessions ==
  ASSUME EngineInv, UNCHANGED graph,
         \A s \in Session :
           /\ db[s] # "none" => db'[s] # "none"
           /\ Live(s)' => Live(s) \/ db'[s] # "none"
           /\ active'[s].pending \in Kio =>
                active[s].pending \in Kio \/ (db[s] # "none" /\ graph[s].next # "none")
  PROVE  \A s \in Session : SessionOK(s)'
<1> TAKE s \in Session
<1>1. SessionOK(s)
  BY DEF EngineInv
<1>2. QED
  BY <1>1 DEF SessionOK

(* The ways a task moves on, each for several actions below. *)
LEMMA EnterStep ==
  ASSUME EngineInv, NEW t \in Task, Inside(t),
         NEW p \in Node, NEW g \in GraphState, Enter(t, p, g),
         p = "plan" => g.step = 0,
         p \in {"run_kio", "hitl"} => HasKio(g),
         UNCHANGED lock,
         \A s \in Session :
           /\ db[s] # "none" => db'[s] # "none"
           /\ Live(s)' <=> Live(s)
           /\ active'[s].pending \in Kio => active[s].pending \in Kio \/ s = task[t].of
  PROVE  /\ task' \in [Task -> TaskType] /\ graph' \in [Session -> Thread]
         /\ \A u \in Task : TaskOK(u)'
         /\ \A s \in Session : SessionOK(s)'
<1> DEFINE s == task[t].of
<1>1. ~At(t, "idle")
  BY DEF Inside, At, RunPC, Node
<1>2. /\ task' \in [Task -> TaskType] /\ task'[t].pc = p
      /\ task'[t].of = s /\ task'[t].g = g
      /\ \A u \in Task : u # t => task'[u] = task[u]
      /\ graph' \in [Session -> Thread]
      /\ \A r \in Session : /\ r = s => graph'[r] = [next |-> p, paused |-> FALSE, g |-> g]
                            /\ r # s => graph'[r] = graph[r]
  BY <1>1, Known, EnterTask
<1>3. TaskOK(t) /\ s \in Session /\ db[s] # "none" /\ p # "none"
  BY <1>1, Known DEF Node
<1>4. TaskOK(t)'
  BY <1>2, <1>3 DEF TaskOK, At, Inside, Node
<1>5. \A u \in Task : TaskOK(u)'
  BY <1>2, <1>3, <1>4, Others
<1>6. \A r \in Session : SessionOK(r)'
  BY <1>2, <1>3 DEF EngineInv, SessionOK
<1>7. QED
  BY <1>2, <1>5, <1>6

(* An await inside the same node: graph and lock stay as they are. *)
LEMMA GotoStep ==
  ASSUME EngineInv, NEW t \in Task, ~At(t, "idle"),
         NEW p \in PC, Goto(t, p),
         p \in RunPC => Inside(t),
         p \notin {"resolving", "plan"},
         p = "planning" => At(t, "plan"),
         p = "spawned" => At(t, "resolving"),
         p \in {"run_kio", "executing", "backoff", "hitl"} => HasKio(task[t].g),
         UNCHANGED <<lock, graph>>,
         \A s \in Session :
           /\ db[s] # "none" => db'[s] # "none"
           /\ Live(s)' <=> Live(s)
           /\ active'[s].pending \in Kio => active[s].pending \in Kio
  PROVE  /\ task' \in [Task -> TaskType]
         /\ \A u \in Task : TaskOK(u)'
         /\ \A s \in Session : SessionOK(s)'
<1> DEFINE s == task[t].of
<1>1. /\ task' \in [Task -> TaskType] /\ task'[t].pc = p
      /\ task'[t].of = s /\ task'[t].g = task[t].g /\ task'[t].answer = task[t].answer
      /\ \A u \in Task : u # t => task'[u] = task[u]
  BY Known, MoveTask
<1>2. TaskOK(t) /\ s \in Session /\ db[s] # "none"
  BY Known
<1>3. TaskOK(t)'
  BY <1>1, <1>2 DEF TaskOK, At, Inside
<1>4. \A u \in Task : TaskOK(u)'
  BY <1>1, <1>3, Others
<1>5. \A r \in Session : SessionOK(r)'
  BY SameSessions
<1>6. QED
  BY <1>1, <1>4, <1>5

(* An exception leaves the node: the run goes on to its failure handler. *)
LEMMA RaiseStep ==
  ASSUME EngineInv, NEW t \in Task, Inside(t), Raise(t),
         UNCHANGED <<lock, graph>>,
         \A s \in Session : db[s] # "none" => db'[s] # "none"
  PROVE  /\ active' \in [Session -> Entry] /\ task' \in [Task -> TaskType]
         /\ \A u \in Task : TaskOK(u)'
         /\ \A s \in Session : SessionOK(s)'
<1> DEFINE s == task[t].of
<1>1. ~At(t, "idle")
  BY DEF Inside, At, RunPC, Node
<1>2. TypeOK /\ TaskOK(t) /\ s \in Session /\ db[s] # "none"
  BY <1>1, Known
<1>3. /\ active' \in [Session -> Entry]
      /\ \A r \in Session : /\ active'[r].pending = active[r].pending
                            /\ Live(r)' <=> Live(r)
      /\ task' \in [Task -> TaskType]
      /\ task'[t].pc = "failing" /\ task'[t].of = s
      /\ \A u \in Task : u # t => task'[u] = task[u]
  BY <1>2, RaiseFacts
<1>4. TaskOK(t)'
  BY <1>2, <1>3 DEF TaskOK, At, Inside
<1>5. \A u \in Task : TaskOK(u)'
  BY <1>3, <1>4, Others
<1>6. \A r \in Session : SessionOK(r)'
  BY <1>3, SameSessions
<1>7. QED
  BY <1>3, <1>5, <1>6

(* The last step of a failure, a cancellation or a timeout. *)
LEMMA CleanupStep ==
  ASSUME EngineInv, NEW t \in Task, ~At(t, "idle"), Cleanup(task[t].of), End(t),
         UNCHANGED graph,
         \A s \in Session : db[s] # "none" => db'[s] # "none"
  PROVE  /\ active' \in [Session -> Entry] /\ task' \in [Task -> TaskType]
         /\ lock' \in [Session -> Task \cup {NoTask}] /\ OSM!OrchTypeOK'
         /\ \A u \in Task : TaskOK(u)'
         /\ \A s \in Session : SessionOK(s)'
<1> DEFINE s == task[t].of
<1>1. TypeOK /\ s \in Session /\ task \in [Task -> TaskType]
  BY Known
<1>2. /\ active' \in [Session -> Entry]
      /\ \A r \in Session : r # s => active'[r] = active[r]
      /\ active'[s].pending = NoKio
      /\ active'[s].status = "none"
      /\ lock' \in [Session -> Task \cup {NoTask}]
      /\ \A r \in Session : r # s => lock'[r] = lock[r]
      /\ OSM!OrchTypeOK'
  BY <1>1, CleanupFacts
<1>3. /\ task' \in [Task -> TaskType] /\ task'[t].pc = "idle"
      /\ \A u \in Task : u # t => task'[u] = task[u]
  BY <1>1, EndTask
<1>4. TaskOK(t)'
  BY <1>3 DEF TaskOK, At, Inside, RunPC, Node
<1>5. \A r \in Session : Live(r)' => Live(r)
  BY <1>2 DEF Live
<1>6. \A r \in Session, u \in Task : lock[r] = u /\ Live(r)' => lock'[r] = u
  BY <1>2 DEF Live
<1>7. \A u \in Task : TaskOK(u)'
  BY <1>3, <1>4, <1>5, <1>6, Others
<1>8. NoKio \notin Kio
  BY EngineConstants
<1>9. \A r \in Session : active'[r].pending \in Kio => active[r].pending \in Kio
  BY <1>2, <1>8
<1>10. \A r \in Session : SessionOK(r)'
  BY <1>5, <1>9, SameSessions
<1>11. QED
  BY <1>2, <1>3, <1>7, <1>10

-----------------------------------------------------------------------------
(* What the calls of the engine write. *)

(* The bounds on faults and restarts are kept by every call. *)
LEMMA Bounds ==
  ASSUME TypeOK, NEW call, NoFault \/ Fault(call)
  PROVE  faults' \in 0..MaxFaults /\ restarts' \in 0..MaxRestarts
BY EngineConstants DEF TypeOK, NoFault, Fault, boundVars

(* A session keeps a database state whether or not a write takes effect. *)
LEMMA DbFacts ==
  ASSUME db \in [Session -> DbState], NEW s \in Session, NEW st \in DbState,
         st # "none", db' \in {db, [db EXCEPT ![s] = st]}
  PROVE  /\ db' \in [Session -> DbState]
         /\ \A r \in Session : db[r] # "none" => db'[r] # "none"
OBVIOUS

(* A status update whose failure is swallowed. *)
LEMMA TryStatusFacts ==
  ASSUME TypeOK, NEW s \in Session, NEW st \in DbState, st # "none", TryStatus(s, st)
  PROVE  /\ db' \in [Session -> DbState]
         /\ \A r \in Session : db[r] # "none" => db'[r] # "none"
         /\ faults' \in 0..MaxFaults /\ restarts' \in 0..MaxRestarts
<1>1. db' \in {db, [db EXCEPT ![s] = st]}
  BY DEF TryStatus
<1>2. NoFault \/ Fault("update_status")
  BY DEF TryStatus
<1>3. QED
  BY <1>1, <1>2, Bounds, DbFacts DEF TypeOK

(* create_hitl_checkpoint keeps the approvals and the database typed. *)
LEMMA CheckpointFacts ==
  ASSUME TypeOK, NEW s \in Session, NEW k \in Kio, CreateCheckpoint(s, k)
  PROVE  /\ db' \in [Session -> DbState]
         /\ \A r \in Session : db[r] # "none" => db'[r] # "none"
         /\ approval' \in [Session -> [Kio -> {"none", "PENDING", "APPROVED"}]]
<1>1. "WAITING" \in DbState /\ db \in [Session -> DbState]
  BY DEF DbState, TypeOK
<1>2. db' \in {db, [db EXCEPT ![s] = "WAITING"]}
  BY DEF CreateCheckpoint
<1>3. approval' \in [Session -> [Kio -> {"none", "PENDING", "APPROVED"}]]
  BY DEF CreateCheckpoint, TypeOK
<1>4. QED
  BY <1>1, <1>2, <1>3, DbFacts

(* A task is replaced by another one. *)
LEMMA NewTask ==
  ASSUME task \in [Task -> TaskType], NEW t \in Task, NEW x \in TaskType,
         task' = [task EXCEPT ![t] = x]
  PROVE  /\ task' \in [Task -> TaskType] /\ task'[t] = x
         /\ \A u \in Task : u # t => task'[u] = task[u]
OBVIOUS

(* A task that ends takes nothing with it but its own lock. *)
LEMMA EndStep ==
  ASSUME EngineInv, NEW t \in Task, ~At(t, "idle"), End(t), UNCHANGED graph,
         \A s \in Session :
           /\ db[s] # "none" => db'[s] # "none"
           /\ Live(s)' <=> Live(s)
           /\ active'[s].pending \in Kio =>
                active[s].pending \in Kio \/ (db[s] # "none" /\ graph[s].next # "none")
           /\ \A u \in Task : u # t /\ lock[s] = u => lock'[s] = u
  PROVE  /\ task' \in [Task -> TaskType]
         /\ \A u \in Task : TaskOK(u)'
         /\ \A s \in Session : SessionOK(s)'
<1>1. /\ task' \in [Task -> TaskType] /\ task'[t].pc = "idle"
      /\ \A u \in Task : u # t => task'[u] = task[u]
  BY Known, EndTask
<1>2. TaskOK(t)'
  BY <1>1 DEF TaskOK, At, Inside, RunPC, Node
<1>3. \A u \in Task : TaskOK(u)'
  BY <1>1, <1>2, Others
<1>4. \A s \in Session : SessionOK(s)'
  <2> TAKE s \in Session
  <2>1. SessionOK(s)
    BY DEF EngineInv
  <2>2. QED
    BY <2>1, SameSessions DEF SessionOK
<1>5. QED
  BY <1>1, <1>3, <1>4

-----------------------------------------------------------------------------
(* One lemma per action of a graph run. *)

(* Begin: the lock is found free and taken, or the run is skipped. *)
LEMMA BeginStep == ASSUME EngineInv, NEW t \in Task, Begin(t) PROVE EngineInv'
<1> DEFINE s == task[t].of
<1>1. At(t, "spawned") /\ ~At(t, "idle")
  BY DEF Begin, At
<1>2. /\ UNCHANGED <<active, retry, orchVars, db, approval, stored, boundVars>>
      /\ TypeOK /\ TaskOK(t) /\ SessionOK(s) /\ s \in Session
  BY <1>1, Known DEF Begin
<1>3. CASE ~Free(s)
  <2>1. End(t) /\ UNCHANGED <<lock, graph>>
    BY <1>3 DEF Begin
  <2>2. /\ task' \in [Task -> TaskType] /\ task'[t].pc = "idle"
        /\ \A u \in Task : u # t => task'[u] = task[u]
    BY <1>1, <2>1, Known, EndTask
  <2>3. TypeOK'
    BY <1>2, <2>1, <2>2 DEF TypeOK, OSM!OrchTypeOK, orchVars, boundVars
  <2>4. TaskOK(t)'
    BY <2>2 DEF TaskOK, At, Inside, RunPC, Node
  <2>5. \A u \in Task : TaskOK(u)'
    BY <1>2, <2>1, <2>2, <2>4, Others DEF Live
  <2>6. \A r \in Session : SessionOK(r)'
    BY <1>2, <2>1, SameSessions DEF Live
  <2>7. QED
    BY <2>3, <2>5, <2>6 DEF EngineInv
<1>4. CASE Free(s) /\ task[t].answer = "none"
  <2>1. lock' = [lock EXCEPT ![s] = t] /\ Enter(t, "plan", task[t].g)
    BY <1>4 DEF Begin
  <2>2. task[t].g \in GraphState /\ "plan" \in Node /\ task[t].g.step = 0
    BY <1>1, <1>2, <1>4, Known DEF Node, TaskOK
  <2>3. /\ task' \in [Task -> TaskType] /\ task'[t].pc = "plan"
        /\ task'[t].of = s /\ task'[t].g = task[t].g
        /\ \A u \in Task : u # t => task'[u] = task[u]
        /\ graph' \in [Session -> Thread]
        /\ \A r \in Session :
             /\ r = s => graph'[r] = [next |-> "plan", paused |-> FALSE, g |-> task[t].g]
             /\ r # s => graph'[r] = graph[r]
    BY <1>1, <2>1, <2>2, Known, EnterTask
  <2>4. TypeOK'
    BY <1>2, <2>1, <2>3 DEF TypeOK, OSM!OrchTypeOK, orchVars, boundVars
  <2>5. lock'[s] = t /\ \A r \in Session : r # s => lock'[r] = lock[r]
    BY <1>2, <2>1 DEF TypeOK
  <2>6. TaskOK(t)'
    BY <1>2, <2>2, <2>3, <2>5, Known, <1>1 DEF TaskOK, At, Inside
  <2>7. lock[s] = NoTask /\ NoTask \notin Task
    BY <1>4, EngineConstants DEF Free
  <2>8. \A u \in Task : TaskOK(u)'
    BY <1>2, <2>3, <2>5, <2>6, <2>7, Others DEF Live
  <2>9. \A r \in Session : SessionOK(r)'
    BY <1>2, <2>2, <2>3 DEF SessionOK, Live, EngineInv
  <2>10. QED
    BY <2>4, <2>8, <2>9 DEF EngineInv
<1>5. CASE Free(s) /\ task[t].answer # "none"
  <2> DEFINE p == IF graph[s].next = "end" THEN "checking" ELSE graph[s].next
             a == IF p = "hitl" THEN task[t].answer ELSE "none"
             x == [task[t] EXCEPT !.pc = p, !.g = graph[s].g, !.answer = a]
  <2>1. /\ lock' = [lock EXCEPT ![s] = t]
        /\ task' = [task EXCEPT ![t] = x]
        /\ UNCHANGED graph
    BY <1>5 DEF Begin
  <2>2. /\ graph[s].g \in GraphState /\ graph[s] \in Thread /\ task[t] \in TaskType
        /\ graph[s].next # "none"
    BY <1>1, <1>2, <1>5, Known DEF TaskOK
  <2>3. p \in Node \cup {"checking"}
    BY <2>2, ThreadFields
  <2>4. x \in TaskType /\ x.pc = p /\ x.of = s /\ x.g = graph[s].g
    BY <2>2, <2>3 DEF TaskType, RunPC
  <2>5. /\ task' \in [Task -> TaskType] /\ task'[t] = x
        /\ \A u \in Task : u # t => task'[u] = task[u]
    <3> HIDE DEF x
    <3> QED BY <1>2, <2>1, <2>4 DEF TypeOK
  <2>6. TypeOK'
    BY <1>2, <2>1, <2>5 DEF TypeOK, OSM!OrchTypeOK, orchVars, boundVars
  <2>7. lock'[s] = t /\ \A r \in Session : r # s => lock'[r] = lock[r]
    BY <1>2, <2>1 DEF TypeOK
  <2>8. task'[t].pc = p /\ task'[t].of = s /\ task'[t].g = graph[s].g
    BY <2>4, <2>5
  <2>9. TaskOK(t)'
    <3> HIDE DEF x
    <3>1. db'[s] # "none" /\ graph'[s].next # "none"
      BY <1>1, <1>2, <2>1, <2>2, Known
    <3>2. p = graph[s].next \/ p = "checking"
      OBVIOUS
    <3>3. /\ p = "plan" => graph[s].g.step = 0
          /\ p \in {"run_kio", "hitl"} => HasKio(graph[s].g)
      BY <1>2, <3>2 DEF SessionOK
    <3> HIDE DEF p
    <3>4. QED
      BY <1>2, <2>3, <2>7, <2>8, <3>1, <3>3 DEF TaskOK, At, Inside, Node
  <2>10. lock[s] = NoTask /\ NoTask \notin Task
    BY <1>5, EngineConstants DEF Free
  <2>11. \A u \in Task : TaskOK(u)'
    BY <1>2, <2>1, <2>5, <2>7, <2>9, <2>10, Others DEF Live
  <2>12. \A r \in Session : SessionOK(r)'
    BY <1>2, <2>1, SameSessions DEF Live
  <2>13. QED
    BY <2>6, <2>11, <2>12 DEF EngineInv
<1>6. QED
  BY <1>3, <1>4, <1>5

(* A non-empty pipeline whose first step is still to be done has a KIO. *)
LEMMA FirstKio ==
  ASSUME NEW g \in GraphState, g.plan # <<>>, g.step = 0
  PROVE  HasKio(g)
<1>1. g.plan \in Seq(Kio)
  BY DEF GraphState, PlanType
<1>2. QED
  BY <1>1 DEF HasKio

(* Plan: a given pipeline is entered at its first step. *)
LEMMA PlanStep == ASSUME EngineInv, NEW t \in Task, Plan(t) PROVE EngineInv'
<1> DEFINE s == task[t].of
           g == task[t].g
<1>1. At(t, "plan") /\ Inside(t) /\ ~At(t, "idle")
  BY DEF Plan, At, Inside, RunPC, Node
<1>2. /\ UNCHANGED <<lock, retry, orchVars, db, approval, stored, boundVars>>
      /\ TypeOK /\ TaskOK(t) /\ s \in Session /\ g \in GraphState /\ g.step = 0
      /\ active \in [Session -> Entry]
  BY <1>1, Known DEF Plan, TaskOK
<1>3. CASE g.plan # <<>>
  <2>1. active' = SetStatus(s, "READY") /\ Enter(t, "run_kio", g)
    BY <1>3 DEF Plan
  <2>2. "READY" \in EntryStatus /\ "run_kio" \in Node
    BY DEF EntryStatus, Node
  <2>3. /\ active' \in [Session -> Entry]
        /\ \A r \in Session : /\ active'[r].pending = active[r].pending
                              /\ Live(r)' <=> Live(r)
    BY <1>2, <2>1, <2>2, StatusEntry
  <2>4. HasKio(g)
    BY <1>2, <1>3, FirstKio
  <2>5. /\ task' \in [Task -> TaskType] /\ graph' \in [Session -> Thread]
        /\ \A u \in Task : TaskOK(u)'
        /\ \A r \in Session : SessionOK(r)'
    BY <1>1, <1>2, <2>1, <2>2, <2>3, <2>4, EnterStep
  <2>6. QED
    BY <1>2, <2>3, <2>5 DEF EngineInv, TypeOK, OSM!OrchTypeOK, orchVars, boundVars
<1>4. CASE g.plan = <<>>
  <2>1. active' = SetStatus(s, "VALIDATING") /\ Goto(t, "planning") /\ UNCHANGED graph
    BY <1>4 DEF Plan
  <2>2. "VALIDATING" \in EntryStatus /\ "planning" \in PC
    BY DEF EntryStatus, PC, RunPC
  <2>3. /\ active' \in [Session -> Entry]
        /\ \A r \in Session : /\ active'[r].pending = active[r].pending
                              /\ Live(r)' <=> Live(r)
    BY <1>2, <2>1, <2>2, StatusEntry
  <2>4. /\ task' \in [Task -> TaskType]
        /\ \A u \in Task : TaskOK(u)'
        /\ \A r \in Session : SessionOK(r)'
    BY <1>1, <1>2, <2>1, <2>2, <2>3, GotoStep
  <2>5. QED
    BY <1>2, <2>1, <2>3, <2>4 DEF EngineInv, TypeOK, OSM!OrchTypeOK, orchVars, boundVars
<1>5. QED
  BY <1>3, <1>4

(* Planned: the planner answers with a pipeline that is not empty. *)
LEMMA PlannedStep == ASSUME EngineInv, NEW t \in Task, Planned(t) PROVE EngineInv'
<1> DEFINE s == task[t].of
<1>1. At(t, "planning") /\ Inside(t) /\ ~At(t, "idle")
  BY DEF Planned, At, Inside, RunPC, Node
<1>2. /\ UNCHANGED <<lock, retry, orchVars, db, approval, stored, boundVars>>
      /\ active' = SetStatus(s, "READY")
      /\ TypeOK /\ TaskOK(t) /\ s \in Session
      /\ task[t].g \in GraphState /\ task[t].g.step = 0
      /\ active \in [Session -> Entry]
  BY <1>1, Known DEF Planned, TaskOK
<1>3. PICK r \in Requests :
        r.plan # <<>> /\ Enter(t, "run_kio", [task[t].g EXCEPT !.plan = r.plan])
  BY DEF Planned
<1> DEFINE h == [task[t].g EXCEPT !.plan = r.plan]
<1>4. r.plan \in PlanType
  BY EngineConstants
<1>5. h \in GraphState /\ h.plan = r.plan /\ h.step = 0
  BY <1>2, <1>4 DEF GraphState
<1>6. "READY" \in EntryStatus /\ "run_kio" \in Node
  BY DEF EntryStatus, Node
<1>7. /\ active' \in [Session -> Entry]
      /\ \A q \in Session : /\ active'[q].pending = active[q].pending
                            /\ Live(q)' <=> Live(q)
  BY <1>2, <1>6, StatusEntry
<1>8. Enter(t, "run_kio", h)
  BY <1>3
<1>9. HasKio(h)
  <2> HIDE DEF h
  <2> QED BY <1>3, <1>5, FirstKio
<1>10. /\ task' \in [Task -> TaskType] /\ graph' \in [Session -> Thread]
       /\ \A u \in Task : TaskOK(u)'
       /\ \A q \in Session : SessionOK(q)'
  <2> HIDE DEF h
  <2> QED BY <1>1, <1>2, <1>5, <1>6, <1>7, <1>8, <1>9, EnterStep
<1>11. QED
  BY <1>2, <1>7, <1>10 DEF EngineInv, TypeOK, OSM!OrchTypeOK, orchVars, boundVars

(* Dispatch: the KIO is called, the retry counter registered. *)
LEMMA DispatchStep == ASSUME EngineInv, NEW t \in Task, Dispatch(t) PROVE EngineInv'
<1> DEFINE s == task[t].of
<1>1. At(t, "run_kio") /\ Inside(t) /\ ~At(t, "idle") /\ HasKio(task[t].g)
  BY DEF Dispatch, At, Inside, RunPC, Node
<1>2. /\ UNCHANGED <<lock, orchVars, durableVars, boundVars>>
      /\ active' = SetStatus(s, "DISPATCHED") /\ Goto(t, "executing")
      /\ retry' = [retry EXCEPT ![s] = IF retry[s] = -1 THEN 0 ELSE retry[s]]
      /\ TypeOK /\ s \in Session /\ active \in [Session -> Entry]
  BY <1>1, Known DEF Dispatch
<1>3. "DISPATCHED" \in EntryStatus /\ "executing" \in PC
  BY DEF EntryStatus, PC, RunPC
<1>4. /\ active' \in [Session -> Entry]
      /\ \A r \in Session : /\ active'[r].pending = active[r].pending
                            /\ Live(r)' <=> Live(r)
  BY <1>2, <1>3, StatusEntry
<1>5. /\ task' \in [Task -> TaskType]
      /\ \A u \in Task : TaskOK(u)'
      /\ \A r \in Session : SessionOK(r)'
  BY <1>1, <1>2, <1>3, <1>4, GotoStep DEF durableVars
<1>6. retry' \in [Session -> -1..MaxRetries]
  BY <1>2, EngineConstants DEF TypeOK
<1>7. QED
  BY <1>2, <1>4, <1>5, <1>6
     DEF EngineInv, TypeOK, OSM!OrchTypeOK, orchVars, durableVars, boundVars

(* Backoff: the same step is tried again. *)
LEMMA BackoffStep == ASSUME EngineInv, NEW t \in Task, Backoff(t) PROVE EngineInv'
<1> DEFINE s == task[t].of
<1>1. At(t, "backoff") /\ Inside(t) /\ ~At(t, "idle")
  BY DEF Backoff, At, Inside, RunPC, Node
<1>2. /\ UNCHANGED <<lock, retry, orchVars, durableVars, boundVars>>
      /\ active' = SetStatus(s, "RUNNING") /\ Goto(t, "executing")
      /\ TypeOK /\ TaskOK(t) /\ s \in Session /\ active \in [Session -> Entry]
  BY <1>1, Known DEF Backoff
<1>3. "RUNNING" \in EntryStatus /\ "executing" \in PC /\ HasKio(task[t].g)
  BY <1>1, <1>2 DEF EntryStatus, PC, RunPC, TaskOK
<1>4. /\ active' \in [Session -> Entry]
      /\ \A r \in Session : /\ active'[r].pending = active[r].pending
                            /\ Live(r)' <=> Live(r)
  BY <1>2, <1>3, StatusEntry
<1>5. /\ task' \in [Task -> TaskType]
      /\ \A u \in Task : TaskOK(u)'
      /\ \A r \in Session : SessionOK(r)'
  BY <1>1, <1>2, <1>3, <1>4, GotoStep DEF durableVars
<1>6. QED
  BY <1>2, <1>4, <1>5
     DEF EngineInv, TypeOK, OSM!OrchTypeOK, orchVars, durableVars, boundVars

(* Register: the artifact is stored or its failure logged. *)
LEMMA RegisterStep == ASSUME EngineInv, NEW t \in Task, Register(t) PROVE EngineInv'
<1>1. At(t, "registering") /\ Inside(t) /\ ~At(t, "idle")
  BY DEF Register, At, Inside, RunPC, Node
<1>2. /\ UNCHANGED <<active, lock, retry, orchVars, graph, db, approval>>
      /\ Goto(t, "progress") /\ TypeOK /\ task[t].of \in Session
  BY <1>1, Known DEF Register
<1>3. "progress" \in PC
  BY DEF PC, RunPC
<1>4. /\ task' \in [Task -> TaskType]
      /\ \A u \in Task : TaskOK(u)'
      /\ \A r \in Session : SessionOK(r)'
  BY <1>1, <1>2, <1>3, GotoStep DEF Live
<1>5. stored' \subseteq Session /\ faults' \in 0..MaxFaults /\ restarts' \in 0..MaxRestarts
  BY <1>2, EngineConstants DEF Register, TypeOK, NoFault, Fault, boundVars
<1>6. QED
  BY <1>2, <1>4, <1>5 DEF EngineInv, TypeOK, OSM!OrchTypeOK, orchVars

(* KioReturns: the result may bring another pipeline of any length. *)
LEMMA KioReturnsStep == ASSUME EngineInv, NEW t \in Task, KioReturns(t) PROVE EngineInv'
<1> DEFINE s == task[t].of
           g == task[t].g
<1>1. At(t, "executing") /\ Inside(t) /\ ~At(t, "idle")
  BY DEF KioReturns, At, Inside, RunPC, Node
<1>2. /\ UNCHANGED <<lock, orchVars, durableVars, boundVars>>
      /\ active' = SetStatus(s, "ACTIVE")
      /\ retry' = [retry EXCEPT ![s] = IF retry[s] = -1 THEN -1 ELSE 0]
      /\ TypeOK /\ TaskOK(t) /\ s \in Session /\ active \in [Session -> Entry]
      /\ g \in GraphState
  BY <1>1, Known DEF KioReturns
<1>3. PICK review \in BOOLEAN, r \in Reroutes \cup {[plan |-> g.plan, gates |-> g.gates]} :
        \E gates \in {g.gates, r.gates} :
          task' = [task EXCEPT ![t].pc = "registering",
                     ![t].g = [g EXCEPT !.review = review, !.plan = r.plan, !.gates = gates]]
  BY DEF KioReturns
<1>3a. PICK gates \in {g.gates, r.gates} :
         task' = [task EXCEPT ![t].pc = "registering",
                    ![t].g = [g EXCEPT !.review = review, !.plan = r.plan, !.gates = gates]]
  BY <1>3
<1> DEFINE h == [g EXCEPT !.review = review, !.plan = r.plan, !.gates = gates]
           x == [task[t] EXCEPT !.pc = "registering", !.g = h]
<1>4. r.plan \in PlanType /\ gates \in SUBSET Kio
  BY <1>2, EngineConstants DEF GraphState
<1>5. h \in GraphState
  BY <1>2, <1>4 DEF GraphState
<1>6. x \in TaskType /\ x.pc = "registering" /\ x.of = s
  <2>1. task[t] \in TaskType
    BY <1>2 DEF TypeOK
  <2> HIDE DEF h
  <2> QED BY <1>5, <2>1 DEF TaskType, RunPC
<1>7. task' = [task EXCEPT ![t] = x]
  BY <1>3a
<1>8. /\ task' \in [Task -> TaskType] /\ task'[t] = x
      /\ \A u \in Task : u # t => task'[u] = task[u]
  <2> HIDE DEF x
  <2> QED BY <1>2, <1>6, <1>7 DEF TypeOK
<1>9. "ACTIVE" \in EntryStatus
  BY DEF EntryStatus
<1>10. /\ active' \in [Session -> Entry]
       /\ \A q \in Session : /\ active'[q].pending = active[q].pending
                             /\ Live(q)' <=> Live(q)
  BY <1>2, <1>9, StatusEntry
<1>11. task'[t].pc = "registering" /\ task'[t].of = s
  BY <1>6, <1>8
<1>12. TaskOK(t)'
  <2> HIDE DEF x, h
  <2> QED BY <1>1, <1>2, <1>10, <1>11 DEF TaskOK, At, Inside, durableVars
<1>13. \A u \in Task : TaskOK(u)'
  BY <1>2, <1>8, <1>10, <1>12, Others DEF durableVars
<1>14. \A q \in Session : SessionOK(q)'
  BY <1>2, <1>10, SameSessions DEF durableVars
<1>15. retry' \in [Session -> -1..MaxRetries]
  BY <1>2, EngineConstants DEF TypeOK
<1>16. QED
  BY <1>2, <1>8, <1>10, <1>13, <1>14, <1>15
     DEF EngineInv, TypeOK, OSM!OrchTypeOK, orchVars, durableVars, boundVars

(* NoCapableAgent: the exception leaves the node. *)
LEMMA NoCapableAgentStep ==
  ASSUME EngineInv, NEW t \in Task, NoCapableAgent(t)
  PROVE  EngineInv'
<1>1. At(t, "run_kio") /\ Inside(t) /\ ~At(t, "idle")
  BY DEF NoCapableAgent, At, Inside, RunPC, Node
<1>2. /\ UNCHANGED <<lock, retry, orchVars, durableVars>>
      /\ Fault("schedule") /\ Raise(t) /\ TypeOK
  BY <1>1, Known DEF NoCapableAgent
<1>3. faults' \in 0..MaxFaults /\ restarts' \in 0..MaxRestarts
  BY <1>2, Bounds
<1>4. /\ active' \in [Session -> Entry] /\ task' \in [Task -> TaskType]
      /\ \A u \in Task : TaskOK(u)'
      /\ \A s \in Session : SessionOK(s)'
  BY <1>1, <1>2, RaiseStep DEF durableVars
<1>5. QED
  BY <1>2, <1>3, <1>4 DEF EngineInv, TypeOK, OSM!OrchTypeOK, orchVars, durableVars

(* KioRaises: retry, a question to the human, or failure. *)
LEMMA KioRaisesStep == ASSUME EngineInv, NEW t \in Task, KioRaises(t) PROVE EngineInv'
<1> DEFINE s == task[t].of
           g == task[t].g
           retries == ShouldRetry(s) /\ ~g.override
           offers == ~retries /\ Fallback /\ ~g.override
<1>1. At(t, "executing") /\ Inside(t) /\ ~At(t, "idle")
  BY DEF KioRaises, At, Inside, RunPC, Node
<1>2. /\ UNCHANGED <<lock, orchVars, db, approval, stored>>
      /\ Fault("execute") /\ TypeOK /\ TaskOK(t) /\ s \in Session
      /\ active \in [Session -> Entry] /\ g \in GraphState
  BY <1>1, Known DEF KioRaises
<1>3. faults' \in 0..MaxFaults /\ restarts' \in 0..MaxRestarts
  BY <1>2, Bounds
<1>4. HasKio(g)
  BY <1>1, <1>2 DEF TaskOK
<1>5. CASE /\ retries /\ retry' = [retry EXCEPT ![s] = @ + 1]
           /\ Goto(t, "backoff") /\ UNCHANGED <<active, graph>>
  <2>1. "backoff" \in PC
    BY DEF PC, RunPC
  <2>2. /\ task' \in [Task -> TaskType]
        /\ \A u \in Task : TaskOK(u)'
        /\ \A r \in Session : SessionOK(r)'
    BY <1>1, <1>2, <1>4, <1>5, <2>1, GotoStep DEF Live
  <2>3. retry \in [Session -> -1..MaxRetries] /\ retry[s] < MaxRetries
    BY <1>2, <1>5 DEF TypeOK, ShouldRetry
  <2>4. retry' \in [Session -> -1..MaxRetries]
    BY <1>2, <1>5, <2>3, EngineConstants
  <2>5. QED
    BY <1>2, <1>3, <1>5, <2>2, <2>4 DEF EngineInv, TypeOK, OSM!OrchTypeOK, orchVars
<1>6. CASE /\ offers /\ UNCHANGED <<active, retry>>
           /\ Enter(t, "hitl", [g EXCEPT !.review = TRUE, !.rejected = FALSE,
                                         !.retryPending = TRUE])
  <2> DEFINE h == [g EXCEPT !.review = TRUE, !.rejected = FALSE, !.retryPending = TRUE]
  <2>1. h \in GraphState /\ HasKio(h) /\ "hitl" \in Node
    BY <1>2, <1>4 DEF GraphState, HasKio, Node
  <2>2. Enter(t, "hitl", h)
    BY <1>6
  <2>3. /\ task' \in [Task -> TaskType] /\ graph' \in [Session -> Thread]
        /\ \A u \in Task : TaskOK(u)'
        /\ \A r \in Session : SessionOK(r)'
    <3> HIDE DEF h
    <3> QED BY <1>1, <1>2, <1>6, <2>1, <2>2, EnterStep DEF Live
  <2>4. QED
    BY <1>2, <1>3, <1>6, <2>3 DEF EngineInv, TypeOK, OSM!OrchTypeOK, orchVars
<1>7. CASE ~retries /\ ~offers /\ Raise(t) /\ UNCHANGED <<retry, graph>>
  <2>1. /\ active' \in [Session -> Entry] /\ task' \in [Task -> TaskType]
        /\ \A u \in Task : TaskOK(u)'
        /\ \A r \in Session : SessionOK(r)'
    BY <1>1, <1>2, <1>7, RaiseStep
  <2>2. QED
    BY <1>2, <1>3, <1>7, <2>1 DEF EngineInv, TypeOK, OSM!OrchTypeOK, orchVars
<1>8. QED
  BY <1>5, <1>6, <1>7 DEF KioRaises

(* Progress: the gate is looked up only when the step has a KIO. *)
LEMMA ProgressStep == ASSUME EngineInv, NEW t \in Task, Progress(t) PROVE EngineInv'
<1> DEFINE s == task[t].of
           g == [task[t].g EXCEPT !.artifacts = TRUE, !.rejected = FALSE]
           p == IF Gated(g) THEN "hitl" ELSE "advance"
<1>1. At(t, "progress") /\ Inside(t) /\ ~At(t, "idle")
  BY DEF Progress, At, Inside, RunPC, Node
<1>2. /\ UNCHANGED <<lock, retry, orchVars, approval, stored, boundVars>>
      /\ db' = [db EXCEPT ![s] = "RUNNING"]
      /\ TypeOK /\ s \in Session /\ active \in [Session -> Entry]
      /\ task[t].g \in GraphState
  BY <1>1, Known DEF Progress
<1>3. /\ db' \in [Session -> DbState]
      /\ \A r \in Session : db[r] # "none" => db'[r] # "none"
  BY <1>2, DbFacts DEF TypeOK, DbState
<1>4. CASE HasKio(g)
  <2>1. Enter(t, p, g) /\ UNCHANGED active
    BY <1>4 DEF Progress
  <2>2. g \in GraphState /\ p \in Node \ {"plan", "run_kio"}
    BY <1>2 DEF GraphState, Node
  <2>3. /\ task' \in [Task -> TaskType] /\ graph' \in [Session -> Thread]
        /\ \A u \in Task : TaskOK(u)'
        /\ \A r \in Session : SessionOK(r)'
    <3> HIDE DEF g, p
    <3> QED BY <1>1, <1>2, <1>3, <1>4, <2>1, <2>2, EnterStep DEF Live
  <2>4. QED
    BY <1>2, <1>3, <2>1, <2>3 DEF EngineInv, TypeOK, OSM!OrchTypeOK, orchVars, boundVars
<1>5. CASE ~HasKio(g)
  <2>1. Raise(t) /\ UNCHANGED graph
    BY <1>5 DEF Progress
  <2>2. /\ active' \in [Session -> Entry] /\ task' \in [Task -> TaskType]
        /\ \A u \in Task : TaskOK(u)'
        /\ \A r \in Session : SessionOK(r)'
    BY <1>1, <1>2, <1>3, <2>1, RaiseStep
  <2>3. QED
    BY <1>2, <1>3, <2>1, <2>2 DEF EngineInv, TypeOK, OSM!OrchTypeOK, orchVars, boundVars
<1>6. QED
  BY <1>4, <1>5

(* ProgressFails: the exception leaves the node. *)
LEMMA ProgressFailsStep ==
  ASSUME EngineInv, NEW t \in Task, ProgressFails(t)
  PROVE  EngineInv'
<1>1. At(t, "progress") /\ Inside(t) /\ ~At(t, "idle")
  BY DEF ProgressFails, At, Inside, RunPC, Node
<1>2. /\ UNCHANGED <<lock, retry, orchVars, graph, approval, stored>>
      /\ Fault("update_progress") /\ Raise(t) /\ TypeOK /\ task[t].of \in Session
      /\ db' \in {db, [db EXCEPT ![task[t].of] = "RUNNING"]}
  BY <1>1, Known DEF ProgressFails, Applied
<1>3. /\ db' \in [Session -> DbState]
      /\ \A r \in Session : db[r] # "none" => db'[r] # "none"
  BY <1>2, DbFacts DEF TypeOK, DbState
<1>4. faults' \in 0..MaxFaults /\ restarts' \in 0..MaxRestarts
  BY <1>2, Bounds
<1>5. /\ active' \in [Session -> Entry] /\ task' \in [Task -> TaskType]
      /\ \A u \in Task : TaskOK(u)'
      /\ \A s \in Session : SessionOK(s)'
  BY <1>1, <1>2, <1>3, RaiseStep
<1>6. QED
  BY <1>2, <1>3, <1>4, <1>5 DEF EngineInv, TypeOK, OSM!OrchTypeOK, orchVars

(* Hitl: the run pauses, or passes the gate with its answer. *)
LEMMA HitlStep == ASSUME EngineInv, NEW t \in Task, Hitl(t) PROVE EngineInv'
<1> DEFINE s == task[t].of
           g == task[t].g
           k == CurrentKio(g)
<1>1. At(t, "hitl") /\ Inside(t) /\ ~At(t, "idle")
  BY DEF Hitl, At, Inside, RunPC, Node
<1>2. /\ UNCHANGED <<lock, retry, orchVars, stored, boundVars>>
      /\ CreateCheckpoint(s, k) /\ active' = SetPending(s, "BLOCKED", k)
      /\ TypeOK /\ TaskOK(t) /\ s \in Session
      /\ active \in [Session -> Entry] /\ task \in [Task -> TaskType]
      /\ graph \in [Session -> Thread] /\ g \in GraphState
  BY <1>1, Known DEF Hitl
<1>3. HasKio(g) /\ k \in Kio
  BY <1>1, <1>2, CurrentKioType DEF TaskOK
<1>4. /\ db' \in [Session -> DbState]
      /\ \A r \in Session : db[r] # "none" => db'[r] # "none"
      /\ approval' \in [Session -> [Kio -> {"none", "PENDING", "APPROVED"}]]
  BY <1>2, <1>3, CheckpointFacts
<1>5. "BLOCKED" \in EntryStatus
  BY DEF EntryStatus
<1>6. /\ active' \in [Session -> Entry]
      /\ \A r \in Session : /\ \/ active'[r].pending = active[r].pending
                               \/ r = s /\ active'[r].pending = k /\ Live(s)
                            /\ Live(r)' <=> Live(r)
  BY <1>2, <1>3, <1>5, PendingEntry
<1>7. db[s] # "none" /\ graph[s].next # "none"
  BY <1>1, <1>2 DEF TaskOK, At
<1>8. CASE task[t].answer = "none"
  <2> DEFINE b == graph[s].paused \/ (graph[s].next = "hitl" /\ graph[s].g = g)
             y == [graph[s] EXCEPT !.paused = b]
  <2>1. graph' = [graph EXCEPT ![s] = y] /\ Goto(t, "checking")
    BY <1>8 DEF Hitl
  <2>2. graph[s] \in Thread /\ SessionOK(s)
    BY <1>2 DEF EngineInv
  <2>3. b \in BOOLEAN /\ (b => graph[s].next = "hitl")
    BY <2>2, ThreadFields DEF SessionOK
  <2>4. /\ y \in Thread /\ y.next = graph[s].next /\ y.g = graph[s].g
        /\ y.paused => y.next = "hitl"
    <3> HIDE DEF b
    <3> QED BY <2>2, <2>3 DEF Thread
  <2>5. /\ graph' \in [Session -> Thread] /\ graph'[s] = y
        /\ \A r \in Session : r # s => graph'[r] = graph[r]
    <3> HIDE DEF y
    <3> QED BY <1>2, <2>1, <2>4
  <2>6. "checking" \in PC
    BY DEF PC, RunPC
  <2>7. /\ task' \in [Task -> TaskType] /\ task'[t].pc = "checking"
        /\ task'[t].of = s
        /\ \A u \in Task : u # t => task'[u] = task[u]
    BY <1>2, <2>1, <2>6, MoveTask
  <2> HIDE DEF y
  <2>8. graph'[s].next # "none"
    BY <1>7, <2>4, <2>5
  <2>9. TaskOK(t)'
    BY <1>1, <1>2, <1>4, <1>6, <1>7, <2>7, <2>8 DEF TaskOK, At, Inside
  <2>10. \A r \in Session : graph[r].next # "none" => graph'[r].next # "none"
    BY <2>5, <2>8
  <2>11. \A u \in Task : TaskOK(u)'
    BY <1>2, <1>4, <1>6, <2>7, <2>9, <2>10, Others
  <2>12. \A r \in Session : SessionOK(r)'
    BY <1>4, <1>6, <1>7, <2>2, <2>4, <2>5 DEF EngineInv, SessionOK
  <2>13. QED
    BY <1>2, <1>4, <1>6, <2>5, <2>7, <2>11, <2>12
       DEF EngineInv, TypeOK, OSM!OrchTypeOK, orchVars, boundVars
<1>9. CASE task[t].answer # "none"
  <2> DEFINE h == [g EXCEPT !.rejected = (task[t].answer = "no")]
             x == [task[t] EXCEPT !.pc = "advance", !.g = h, !.answer = "none"]
             y == [next |-> "advance", paused |-> FALSE, g |-> h]
  <2>1. graph' = [graph EXCEPT ![s] = y] /\ task' = [task EXCEPT ![t] = x]
    BY <1>9 DEF Hitl
  <2>2. h \in GraphState
    BY <1>2 DEF GraphState
  <2>3. x \in TaskType /\ x.pc = "advance" /\ x.of = s /\ y \in Thread
    <3>1. task[t] \in TaskType
      BY <1>2
    <3> HIDE DEF h
    <3> QED BY <2>2, <3>1 DEF TaskType, RunPC, Thread, Node
  <2>4. /\ task' \in [Task -> TaskType] /\ task'[t] = x
        /\ \A u \in Task : u # t => task'[u] = task[u]
    <3> HIDE DEF x
    <3> QED BY <1>2, <2>1, <2>3, NewTask
  <2>5. /\ graph' \in [Session -> Thread]
        /\ graph'[s].next = "advance" /\ graph'[s].paused = FALSE
        /\ \A r \in Session : r # s => graph'[r] = graph[r]
    BY <1>2, <2>1, <2>3
  <2>6. task'[t].pc = "advance" /\ task'[t].of = s
    BY <2>3, <2>4
  <2> HIDE DEF x
  <2>7. TaskOK(t)'
    BY <1>1, <1>2, <1>4, <1>6, <1>7, <2>5, <2>6 DEF TaskOK, At, Inside
  <2>8. \A u \in Task : TaskOK(u)'
    BY <1>2, <1>4, <1>6, <2>4, <2>5, <2>7, Others
  <2>9. \A r \in Session : SessionOK(r)'
    BY <1>4, <1>6, <1>7, <2>5 DEF EngineInv, SessionOK
  <2>10. QED
    BY <1>2, <1>4, <1>6, <2>4, <2>5, <2>8, <2>9
       DEF EngineInv, TypeOK, OSM!OrchTypeOK, orchVars, boundVars
<1>10. QED
  BY <1>8, <1>9

(* HitlFails: the exception leaves the node. *)
LEMMA HitlFailsStep == ASSUME EngineInv, NEW t \in Task, HitlFails(t) PROVE EngineInv'
<1> DEFINE s == task[t].of
<1>1. At(t, "hitl") /\ Inside(t) /\ ~At(t, "idle")
  BY DEF HitlFails, At, Inside, RunPC, Node
<1>2. /\ UNCHANGED <<lock, retry, orchVars, graph, stored>>
      /\ Fault("create_hitl_checkpoint") /\ Raise(t)
      /\ TypeOK /\ TaskOK(t) /\ s \in Session /\ task[t].g \in GraphState
      /\ UNCHANGED <<approval, db>> \/ CreateCheckpoint(s, CurrentKio(task[t].g))
  BY <1>1, Known DEF HitlFails
<1>3. CurrentKio(task[t].g) \in Kio
  BY <1>1, <1>2, CurrentKioType DEF TaskOK
<1>4. /\ db' \in [Session -> DbState]
      /\ \A r \in Session : db[r] # "none" => db'[r] # "none"
      /\ approval' \in [Session -> [Kio -> {"none", "PENDING", "APPROVED"}]]
  BY <1>2, <1>3, CheckpointFacts DEF TypeOK
<1>5. faults' \in 0..MaxFaults /\ restarts' \in 0..MaxRestarts
  BY <1>2, Bounds
<1>6. /\ active' \in [Session -> Entry] /\ task' \in [Task -> TaskType]
      /\ \A u \in Task : TaskOK(u)'
      /\ \A r \in Session : SessionOK(r)'
  BY <1>1, <1>2, <1>4, RaiseStep
<1>7. QED
  BY <1>2, <1>4, <1>5, <1>6 DEF EngineInv, TypeOK, OSM!OrchTypeOK, orchVars

(* Advance: the same step again, or the next one, or the end. *)
LEMMA AdvanceStep == ASSUME EngineInv, NEW t \in Task, Advance(t) PROVE EngineInv'
<1> DEFINE s == task[t].of
           g == task[t].g
           switched == [g EXCEPT !.retryPending = FALSE, !.override = TRUE, !.rejected = FALSE]
           refused == [g EXCEPT !.retryPending = FALSE]
           done == [g EXCEPT !.step = @ + 1]
<1>1. At(t, "advance") /\ Inside(t) /\ ~At(t, "idle")
  BY DEF Advance, At, Inside, RunPC, Node
<1>2. /\ UNCHANGED <<lock, retry, orchVars, db, approval, stored, boundVars>>
      /\ TypeOK /\ s \in Session /\ active \in [Session -> Entry] /\ g \in GraphState
  BY <1>1, Known DEF Advance
<1>3. switched \in GraphState /\ refused \in GraphState /\ done \in GraphState
  <2>1. switched \in GraphState
    BY <1>2 DEF GraphState
  <2>2. refused \in GraphState
    BY <1>2 DEF GraphState
  <2>3. g.step + 1 \in Nat
    BY <1>2 DEF GraphState
  <2>4. done \in GraphState
    BY <1>2, <2>3 DEF GraphState
  <2>5. QED
    BY <2>1, <2>2, <2>4
<1>4. PICK h \in {switched, refused, done} :
        /\ Enter(t, Continue(h), h)
        /\ active' \in {SetStatus(s, "FAILED"), SetPending(s, "ACTIVE", NoKio)}
  BY DEF Advance
<1> HIDE DEF switched, refused, done
<1>5. h \in GraphState
  BY <1>3, <1>4
<1>6. /\ Continue(h) \in Node \ {"plan", "hitl"}
      /\ Continue(h) = "run_kio" => HasKio(h)
  BY DEF Continue, Node
<1>7. {"FAILED", "ACTIVE"} \subseteq EntryStatus /\ NoKio \notin Kio
  BY EngineConstants DEF EntryStatus
<1>8. /\ active' \in [Session -> Entry]
      /\ \A r \in Session : /\ active'[r].pending \in Kio => active[r].pending \in Kio
                            /\ Live(r)' <=> Live(r)
  <2>1. CASE active' = SetStatus(s, "FAILED")
    BY <1>2, <1>7, <2>1, StatusEntry
  <2>2. CASE active' = SetPending(s, "ACTIVE", NoKio)
    <3>1. /\ active' \in [Session -> Entry]
          /\ \A r \in Session : /\ \/ active'[r].pending = active[r].pending
                                   \/ r = s /\ active'[r].pending = NoKio /\ Live(s)
                                /\ Live(r)' <=> Live(r)
      BY <1>2, <1>7, <2>2, PendingEntry
    <3>2. QED
      BY <1>7, <3>1
  <2>3. QED
    BY <1>4, <2>1, <2>2
<1>9. /\ task' \in [Task -> TaskType] /\ graph' \in [Session -> Thread]
      /\ \A u \in Task : TaskOK(u)'
      /\ \A r \in Session : SessionOK(r)'
  BY <1>1, <1>2, <1>4, <1>5, <1>6, <1>8, EnterStep
<1>10. QED
  BY <1>2, <1>8, <1>9 DEF EngineInv, TypeOK, OSM!OrchTypeOK, orchVars, boundVars

(* Complete: the entry goes while the run still holds its lock. *)
LEMMA CompleteStep == ASSUME EngineInv, NEW t \in Task, Complete(t) PROVE EngineInv'
<1> DEFINE s == task[t].of
           y == [next |-> "end", paused |-> FALSE, g |-> task[t].g]
<1>1. At(t, "complete") /\ Inside(t) /\ ~At(t, "idle")
  BY DEF Complete, At, Inside, RunPC, Node
<1>2. /\ UNCHANGED <<lock, approval, stored, boundVars>>
      /\ db' = [db EXCEPT ![s] = "COMPLETED"]
      /\ active' = [active EXCEPT ![s] = NoEntry]
      /\ retry' = [retry EXCEPT ![s] = -1]
      /\ graph' = [graph EXCEPT ![s] = y]
      /\ OSM!WorkflowFinished /\ Goto(t, "checking")
      /\ TypeOK /\ s \in Session /\ task[t].g \in GraphState
      /\ active \in [Session -> Entry] /\ task \in [Task -> TaskType]
      /\ graph \in [Session -> Thread]
  BY <1>1, Known DEF Complete
<1>3. NoEntry \in Entry /\ NoEntry.status = "none" /\ NoEntry.pending = NoKio
  BY DEF NoEntry, Entry
<1>4. /\ active' \in [Session -> Entry] /\ active'[s].status = "none"
      /\ active'[s].pending = NoKio
      /\ \A r \in Session : r # s => active'[r] = active[r]
  BY <1>2, <1>3
<1>5. y \in Thread /\ y.next = "end" /\ y.paused = FALSE
  BY <1>2 DEF Thread
<1>6. /\ graph' \in [Session -> Thread] /\ graph'[s] = y
      /\ \A r \in Session : r # s => graph'[r] = graph[r]
  <2> HIDE DEF y
  <2> QED BY <1>2, <1>5
<1>7. "checking" \in PC
  BY DEF PC, RunPC
<1>8. /\ task' \in [Task -> TaskType] /\ task'[t].pc = "checking" /\ task'[t].of = s
      /\ \A u \in Task : u # t => task'[u] = task[u]
  BY <1>2, <1>7, MoveTask
<1>9. /\ db' \in [Session -> DbState] /\ db'[s] # "none"
      /\ \A r \in Session : db[r] # "none" => db'[r] # "none"
  BY <1>2 DEF TypeOK, DbState, Terminal
<1>10. OSM!OrchTypeOK' /\ retry' \in [Session -> -1..MaxRetries]
  BY <1>2, EngineConstants DEF TypeOK, OSM!OrchTypeOK, OSM!WorkflowFinished, OSM!Mode
<1> HIDE DEF y
<1>11. TaskOK(t)'
  BY <1>2, <1>4, <1>5, <1>6, <1>8, <1>9 DEF TaskOK, At, Inside, Live
<1>12. \A r \in Session :
         /\ graph[r].next # "none" => graph'[r].next # "none"
         /\ Live(r)' => Live(r)
  BY <1>4, <1>5, <1>6 DEF Live
<1>13. \A u \in Task : TaskOK(u)'
  BY <1>2, <1>8, <1>9, <1>11, <1>12, Others
<1>14. NoKio \notin Kio
  BY EngineConstants
<1>15. \A r \in Session : SessionOK(r)'
  BY <1>4, <1>5, <1>6, <1>9, <1>14 DEF EngineInv, SessionOK, Live
<1>16. QED
  BY <1>2, <1>4, <1>6, <1>8, <1>9, <1>10, <1>13, <1>15
     DEF EngineInv, TypeOK, boundVars

(* CompleteFails: the exception leaves the node. *)
LEMMA CompleteFailsStep ==
  ASSUME EngineInv, NEW t \in Task, CompleteFails(t)
  PROVE  EngineInv'
<1>1. At(t, "complete") /\ Inside(t) /\ ~At(t, "idle")
  BY DEF CompleteFails, At, Inside, RunPC, Node
<1>2. /\ UNCHANGED <<lock, retry, orchVars, graph, approval, stored>>
      /\ Fault("update_status") /\ Raise(t) /\ TypeOK /\ task[t].of \in Session
      /\ db' \in {db, [db EXCEPT ![task[t].of] = "COMPLETED"]}
  BY <1>1, Known DEF CompleteFails, Applied
<1>3. /\ db' \in [Session -> DbState]
      /\ \A r \in Session : db[r] # "none" => db'[r] # "none"
  BY <1>2, DbFacts DEF TypeOK, DbState, Terminal
<1>4. faults' \in 0..MaxFaults /\ restarts' \in 0..MaxRestarts
  BY <1>2, Bounds
<1>5. /\ active' \in [Session -> Entry] /\ task' \in [Task -> TaskType]
      /\ \A u \in Task : TaskOK(u)'
      /\ \A s \in Session : SessionOK(s)'
  BY <1>1, <1>2, <1>3, RaiseStep
<1>6. QED
  BY <1>2, <1>3, <1>4, <1>5 DEF EngineInv, TypeOK, OSM!OrchTypeOK, orchVars

(* Check: a pause is published for a question that has a KIO. *)
LEMMA CheckStep == ASSUME EngineInv, NEW t \in Task, Check(t) PROVE EngineInv'
<1> DEFINE s == task[t].of
           k == CurrentKio(graph[s].g)
<1>1. At(t, "checking") /\ Inside(t) /\ ~At(t, "idle")
  BY DEF Check, At, Inside, RunPC, Node
<1>2. /\ UNCHANGED <<retry, orchVars, durableVars, boundVars>>
      /\ Release(t) /\ End(t)
      /\ TypeOK /\ TaskOK(t) /\ SessionOK(s) /\ s \in Session
      /\ active \in [Session -> Entry] /\ graph[s].g \in GraphState
  BY <1>1, Known DEF Check
<1>3. graph[s].paused => k \in Kio
  BY <1>2, CurrentKioType DEF SessionOK
<1>4. db[s] # "none" /\ graph[s].next # "none"
  BY <1>1, <1>2 DEF TaskOK, At
<1>5. /\ active' \in [Session -> Entry]
      /\ \A r \in Session :
           /\ active'[r].pending \in Kio =>
                active[r].pending \in Kio \/ (db[r] # "none" /\ graph[r].next # "none")
           /\ Live(r)' <=> Live(r)
  <2>1. CASE graph[s].paused
    <3>1. "PENDING_REVIEW" \in EntryStatus
      BY DEF EntryStatus
    <3>2. active' = SetPending(s, "PENDING_REVIEW", k)
      BY <2>1 DEF Check
    <3>3. /\ active' \in [Session -> Entry]
          /\ \A r \in Session : /\ \/ active'[r].pending = active[r].pending
                                   \/ r = s /\ active'[r].pending = k /\ Live(s)
                                /\ Live(r)' <=> Live(r)
      BY <1>2, <1>3, <2>1, <3>1, <3>2, PendingEntry
    <3>4. QED
      BY <1>4, <3>3
  <2>2. CASE ~graph[s].paused
    BY <1>2, <2>2 DEF Check, Live
  <2>3. QED
    BY <2>1, <2>2
<1>6. /\ lock' \in [Session -> Task \cup {NoTask}]
      /\ \A r \in Session, u \in Task : u # t /\ lock[r] = u => lock'[r] = u
  BY <1>2 DEF Release, TypeOK
<1>7. /\ task' \in [Task -> TaskType]
      /\ \A u \in Task : TaskOK(u)'
      /\ \A r \in Session : SessionOK(r)'
  BY <1>1, <1>2, <1>5, <1>6, EndStep DEF durableVars
<1>8. QED
  BY <1>2, <1>5, <1>6, <1>7
     DEF EngineInv, TypeOK, OSM!OrchTypeOK, orchVars, durableVars, boundVars

(* Unwind: the failure and compensation statuses, then the cleanup. *)
LEMMA UnwindStep == ASSUME EngineInv, NEW t \in Task, Unwind(t) PROVE EngineInv'
<1> DEFINE s == task[t].of
           st == UnwindStatus[task[t].pc]
<1>1. task[t].pc \in {"failing", "compensating", "compensated"}
  BY DEF Unwind, UnwindStatus
<1>2. ~At(t, "idle") /\ Inside(t)
  BY <1>1 DEF At, Inside, RunPC
<1>3. st \in DbState /\ st # "none"
  BY <1>1 DEF UnwindStatus, DbState, Terminal
<1>4. /\ TryStatus(s, st) /\ UNCHANGED <<retry, graph, approval, stored>>
      /\ TypeOK /\ s \in Session
  BY <1>2, Known DEF Unwind
<1> HIDE DEF st
<1>5. /\ db' \in [Session -> DbState]
      /\ \A r \in Session : db[r] # "none" => db'[r] # "none"
      /\ faults' \in 0..MaxFaults /\ restarts' \in 0..MaxRestarts
  BY <1>3, <1>4, TryStatusFacts
<1>6. CASE Cleanup(s) /\ End(t)
  <2>1. /\ active' \in [Session -> Entry] /\ task' \in [Task -> TaskType]
        /\ lock' \in [Session -> Task \cup {NoTask}] /\ OSM!OrchTypeOK'
        /\ \A u \in Task : TaskOK(u)'
        /\ \A r \in Session : SessionOK(r)'
    BY <1>2, <1>4, <1>5, <1>6, CleanupStep
  <2>2. QED
    BY <1>4, <1>5, <2>1 DEF EngineInv, TypeOK
<1>7. ASSUME NEW p \in {"compensating", "compensated"},
             Goto(t, p), UNCHANGED <<active, lock, orchVars>>
      PROVE  EngineInv'
  <2>1. p \in PC /\ p \notin {"resolving", "plan", "planning", "spawned", "run_kio",
                              "executing", "backoff", "hitl"}
    BY DEF PC, RunPC
  <2>2. /\ task' \in [Task -> TaskType]
        /\ \A u \in Task : TaskOK(u)'
        /\ \A r \in Session : SessionOK(r)'
    BY <1>2, <1>4, <1>5, <1>7, <2>1, GotoStep DEF Live
  <2>3. QED
    BY <1>4, <1>5, <1>7, <2>2 DEF EngineInv, TypeOK, OSM!OrchTypeOK, orchVars
<1>8. QED
  BY <1>6, <1>7 DEF Unwind

-----------------------------------------------------------------------------
(* One lemma per action of the API calls and of the process. *)

(* Resolve: the resumed run is spawned with its answer. *)
LEMMA ResolveStep == ASSUME EngineInv, NEW t \in Task, Resolve(t) PROVE EngineInv'
<1> DEFINE s == task[t].of
<1>1. At(t, "resolving") /\ ~At(t, "idle")
  BY DEF Resolve, At
<1>2. /\ UNCHANGED <<active, lock, retry, orchVars, graph, stored, boundVars>>
      /\ approval' = [approval EXCEPT ![s][task[t].ck] = "APPROVED"]
      /\ db' = [db EXCEPT ![s] = "RUNNING"]
      /\ Goto(t, "spawned") /\ TypeOK /\ s \in Session
  BY <1>1, Known DEF Resolve
<1>3. /\ db' \in [Session -> DbState]
      /\ \A r \in Session : db[r] # "none" => db'[r] # "none"
  BY <1>2, DbFacts DEF TypeOK, DbState
<1>4. approval' \in [Session -> [Kio -> {"none", "PENDING", "APPROVED"}]]
  BY <1>2 DEF TypeOK
<1>5. "spawned" \in PC /\ "spawned" \notin RunPC
  BY DEF PC, RunPC, Node
<1>6. /\ task' \in [Task -> TaskType]
      /\ \A u \in Task : TaskOK(u)'
      /\ \A r \in Session : SessionOK(r)'
  BY <1>1, <1>2, <1>3, <1>5, GotoStep DEF Live
<1>7. QED
  BY <1>2, <1>3, <1>4, <1>6 DEF EngineInv, TypeOK, OSM!OrchTypeOK, orchVars, boundVars

(* ResolveFails: the approval request ends. *)
LEMMA ResolveFailsStep ==
  ASSUME EngineInv, NEW t \in Task, ResolveFails(t)
  PROVE  EngineInv'
<1> DEFINE s == task[t].of
<1>1. At(t, "resolving") /\ ~At(t, "idle")
  BY DEF ResolveFails, At
<1>2. /\ UNCHANGED <<active, lock, retry, orchVars, graph, stored>>
      /\ approval' \in {approval, [approval EXCEPT ![s][task[t].ck] = "APPROVED"]}
      /\ db' \in {db, [db EXCEPT ![s] = "RUNNING"]}
      /\ Fault("resolve_checkpoint") /\ End(t) /\ TypeOK /\ s \in Session
  BY <1>1, Known DEF ResolveFails
<1>3. /\ db' \in [Session -> DbState]
      /\ \A r \in Session : db[r] # "none" => db'[r] # "none"
  BY <1>2, DbFacts DEF TypeOK, DbState
<1>4. approval' \in [Session -> [Kio -> {"none", "PENDING", "APPROVED"}]]
  <2>1. CASE approval' = approval
    BY <1>2, <2>1 DEF TypeOK
  <2>2. CASE approval' = [approval EXCEPT ![s][task[t].ck] = "APPROVED"]
    BY <1>2, <2>2 DEF TypeOK
  <2>3. QED
    BY <1>2, <2>1, <2>2
<1>5. faults' \in 0..MaxFaults /\ restarts' \in 0..MaxRestarts
  BY <1>2, Bounds
<1>6. /\ task' \in [Task -> TaskType]
      /\ \A u \in Task : TaskOK(u)'
      /\ \A r \in Session : SessionOK(r)'
  BY <1>1, <1>2, <1>3, EndStep DEF Live
<1>7. QED
  BY <1>2, <1>3, <1>4, <1>5, <1>6 DEF EngineInv, TypeOK, OSM!OrchTypeOK, orchVars

(* Cancelled: the cancellation cleans up. *)
LEMMA CancelledStep == ASSUME EngineInv, NEW t \in Task, Cancelled(t) PROVE EngineInv'
<1> DEFINE s == task[t].of
<1>1. At(t, "cancelling") /\ ~At(t, "idle")
  BY DEF Cancelled, At
<1>2. /\ UNCHANGED <<retry, graph, approval, stored>>
      /\ TryStatus(s, "CANCELLED") /\ Cleanup(s) /\ End(t) /\ TypeOK /\ s \in Session
  BY <1>1, Known DEF Cancelled
<1>3. "CANCELLED" \in DbState
  BY DEF DbState, Terminal
<1>4. /\ db' \in [Session -> DbState]
      /\ \A r \in Session : db[r] # "none" => db'[r] # "none"
      /\ faults' \in 0..MaxFaults /\ restarts' \in 0..MaxRestarts
  BY <1>2, <1>3, TryStatusFacts
<1>5. /\ active' \in [Session -> Entry] /\ task' \in [Task -> TaskType]
      /\ lock' \in [Session -> Task \cup {NoTask}] /\ OSM!OrchTypeOK'
      /\ \A u \in Task : TaskOK(u)'
      /\ \A r \in Session : SessionOK(r)'
  BY <1>1, <1>2, <1>4, CleanupStep
<1>6. QED
  BY <1>2, <1>4, <1>5 DEF EngineInv, TypeOK

(* TimeoutFailed: the deadline cleans up. *)
LEMMA TimeoutFailedStep ==
  ASSUME EngineInv, NEW t \in Task, TimeoutFailed(t)
  PROVE  EngineInv'
<1> DEFINE s == task[t].of
<1>1. At(t, "timed_out") /\ ~At(t, "idle")
  BY DEF TimeoutFailed, At
<1>2. /\ UNCHANGED <<retry, graph, approval, stored>>
      /\ TryStatus(s, "FAILED") /\ Cleanup(s) /\ End(t) /\ TypeOK /\ s \in Session
  BY <1>1, Known DEF TimeoutFailed
<1>3. "FAILED" \in DbState
  BY DEF DbState, Terminal
<1>4. /\ db' \in [Session -> DbState]
      /\ \A r \in Session : db[r] # "none" => db'[r] # "none"
      /\ faults' \in 0..MaxFaults /\ restarts' \in 0..MaxRestarts
  BY <1>2, <1>3, TryStatusFacts
<1>5. /\ active' \in [Session -> Entry] /\ task' \in [Task -> TaskType]
      /\ lock' \in [Session -> Task \cup {NoTask}] /\ OSM!OrchTypeOK'
      /\ \A u \in Task : TaskOK(u)'
      /\ \A r \in Session : SessionOK(r)'
  BY <1>1, <1>2, <1>4, CleanupStep
<1>6. QED
  BY <1>2, <1>4, <1>5 DEF EngineInv, TypeOK

(* TimedOut: the deadline marks the entry FAILED. *)
LEMMA TimedOutStep == ASSUME EngineInv, NEW t \in Task, TimedOut(t) PROVE EngineInv'
<1> DEFINE s == task[t].of
<1>1. At(t, "timing_out") /\ ~At(t, "idle")
  BY DEF TimedOut, At
<1>2. /\ UNCHANGED <<lock, retry, orchVars, graph, approval, stored>>
      /\ TryStatus(s, "TIMEOUT") /\ active' = SetStatus(s, "FAILED")
      /\ Goto(t, "timed_out") /\ TypeOK /\ s \in Session /\ active \in [Session -> Entry]
  BY <1>1, Known DEF TimedOut
<1>3. "TIMEOUT" \in DbState /\ "FAILED" \in EntryStatus
  BY DEF DbState, Terminal, EntryStatus
<1>4. /\ db' \in [Session -> DbState]
      /\ \A r \in Session : db[r] # "none" => db'[r] # "none"
      /\ faults' \in 0..MaxFaults /\ restarts' \in 0..MaxRestarts
  BY <1>2, <1>3, TryStatusFacts
<1>5. /\ active' \in [Session -> Entry]
      /\ \A r \in Session : /\ active'[r].pending = active[r].pending
                            /\ Live(r)' <=> Live(r)
  BY <1>2, <1>3, StatusEntry
<1>6. "timed_out" \in PC /\ "timed_out" \notin RunPC
  BY DEF PC, RunPC, CancelPC, Node
<1>7. /\ task' \in [Task -> TaskType]
      /\ \A u \in Task : TaskOK(u)'
      /\ \A r \in Session : SessionOK(r)'
  BY <1>1, <1>2, <1>4, <1>5, <1>6, GotoStep
<1>8. QED
  BY <1>2, <1>4, <1>5, <1>7 DEF EngineInv, TypeOK, OSM!OrchTypeOK, orchVars

(* A new task that is not yet inside: cancel(), the timeout monitor and    *)
(* approve() start one for a session that has an entry.                    *)
LEMMA SpawnStep ==
  ASSUME EngineInv, NEW s \in Session, NEW t \in Task, NEW x \in TaskType,
         task' = [task EXCEPT ![t] = x], x.of = s, Live(s),
         x.pc \in {"resolving", "cancelling", "timing_out"},
         x.pc = "resolving" => x.answer # "none" /\ graph[s].next # "none",
         UNCHANGED <<lock, durableVars>>,
         \A r \in Session : /\ active'[r].pending \in Kio => active[r].pending \in Kio
                            /\ Live(r)' <=> Live(r)
  PROVE  /\ task' \in [Task -> TaskType]
         /\ \A u \in Task : TaskOK(u)'
         /\ \A r \in Session : SessionOK(r)'
<1>1. TypeOK /\ SessionOK(s) /\ db[s] # "none"
  BY DEF EngineInv, SessionOK
<1>2. /\ task' \in [Task -> TaskType] /\ task'[t] = x
      /\ \A u \in Task : u # t => task'[u] = task[u]
  BY <1>1, NewTask DEF TypeOK
<1>3. TaskOK(t)'
  BY <1>1, <1>2 DEF TaskOK, At, Inside, RunPC, Node, durableVars
<1>4. \A u \in Task : TaskOK(u)'
  BY <1>2, <1>3, Others DEF durableVars
<1>5. \A r \in Session : SessionOK(r)'
  BY SameSessions DEF durableVars
<1>6. QED
  BY <1>2, <1>4, <1>5

(* The idle task is a task. *)
LEMMA IdleTaskType == IdleTask \in TaskType
BY DEF IdleTask, TaskType, EmptyState, InitialState, GraphState, PlanType

(* Approve: the pending checkpoint moves from the entry to the task. *)
LEMMA ApproveStep ==
  ASSUME EngineInv, NEW s \in Session, NEW t \in Task, NEW a \in {"yes", "no"},
         Approve(s, t, a)
  PROVE  EngineInv'
<1> DEFINE e == [active[s] EXCEPT !.status = "RUNNING", !.pending = Popped]
           x == [IdleTask EXCEPT !.pc = "resolving", !.of = s, !.answer = a,
                                 !.ck = active[s].pending]
<1>1. /\ UNCHANGED <<lock, retry, orchVars, durableVars, boundVars>>
      /\ active' = [active EXCEPT ![s] = e] /\ task' = [task EXCEPT ![t] = x]
      /\ Live(s) /\ active[s].pending \in Kio
  BY DEF Approve
<1>2. TypeOK /\ SessionOK(s) /\ active \in [Session -> Entry]
  BY DEF EngineInv, TypeOK
<1>3. active[s] \in Entry
  BY <1>2
<1>4. e \in Entry /\ e.status = "RUNNING" /\ e.pending = Popped
  BY <1>3 DEF Entry, EntryStatus
<1>5. x \in TaskType /\ x.pc = "resolving" /\ x.of = s /\ x.answer = a
  BY <1>1, IdleTaskType DEF TaskType
<1>6. /\ active' \in [Session -> Entry] /\ active'[s] = e
      /\ \A r \in Session : r # s => active'[r] = active[r]
  <2> HIDE DEF e
  <2> QED BY <1>1, <1>2, <1>4
<1>7. graph[s].next # "none"
  BY <1>1, <1>2 DEF SessionOK
<1>8. \A r \in Session : /\ active'[r].pending \in Kio => active[r].pending \in Kio
                         /\ Live(r)' <=> Live(r)
  BY <1>1, <1>4, <1>6 DEF Live
<1>9. /\ task' \in [Task -> TaskType]
      /\ \A u \in Task : TaskOK(u)'
      /\ \A r \in Session : SessionOK(r)'
  <2> HIDE DEF x, e
  <2> QED BY <1>1, <1>5, <1>7, <1>8, SpawnStep
<1>10. QED
  BY <1>1, <1>2, <1>6, <1>9
     DEF EngineInv, TypeOK, OSM!OrchTypeOK, orchVars, durableVars, boundVars

(* Cancel: the cancellation starts beside the run. *)
LEMMA CancelStep ==
  ASSUME EngineInv, NEW s \in Session, NEW t \in Task, Cancel(s, t)
  PROVE  EngineInv'
<1> DEFINE x == [IdleTask EXCEPT !.pc = "cancelling", !.of = s]
<1>1. /\ UNCHANGED <<lock, retry, orchVars, durableVars, boundVars>>
      /\ active' = SetStatus(s, "CANCELLED") /\ task' = [task EXCEPT ![t] = x]
      /\ Live(s)
  BY DEF Cancel
<1>2. TypeOK /\ active \in [Session -> Entry] /\ "CANCELLED" \in EntryStatus
  BY DEF EngineInv, TypeOK, EntryStatus
<1>3. x \in TaskType /\ x.pc = "cancelling" /\ x.of = s
  BY IdleTaskType DEF TaskType, CancelPC
<1>4. /\ active' \in [Session -> Entry]
      /\ \A r \in Session : /\ active'[r].pending = active[r].pending
                            /\ Live(r)' <=> Live(r)
  BY <1>1, <1>2, StatusEntry
<1>5. /\ task' \in [Task -> TaskType]
      /\ \A u \in Task : TaskOK(u)'
      /\ \A r \in Session : SessionOK(r)'
  <2> HIDE DEF x
  <2> QED BY <1>1, <1>3, <1>4, SpawnStep
<1>6. QED
  BY <1>1, <1>2, <1>4, <1>5
     DEF EngineInv, TypeOK, OSM!OrchTypeOK, orchVars, durableVars, boundVars

(* Expire: the deadline starts beside the run. *)
LEMMA ExpireStep ==
  ASSUME EngineInv, NEW s \in Session, NEW t \in Task, Expire(s, t)
  PROVE  EngineInv'
<1> DEFINE x == [IdleTask EXCEPT !.pc = "timing_out", !.of = s]
<1>1. /\ UNCHANGED <<lock, retry, orchVars, durableVars, boundVars>>
      /\ active' = SetStatus(s, "TIMEOUT") /\ task' = [task EXCEPT ![t] = x]
      /\ Live(s)
  BY DEF Expire
<1>2. TypeOK /\ active \in [Session -> Entry] /\ "TIMEOUT" \in EntryStatus
  BY DEF EngineInv, TypeOK, EntryStatus
<1>3. x \in TaskType /\ x.pc = "timing_out" /\ x.of = s
  BY IdleTaskType DEF TaskType, CancelPC
<1>4. /\ active' \in [Session -> Entry]
      /\ \A r \in Session : /\ active'[r].pending = active[r].pending
                            /\ Live(r)' <=> Live(r)
  BY <1>1, <1>2, StatusEntry
<1>5. /\ task' \in [Task -> TaskType]
      /\ \A u \in Task : TaskOK(u)'
      /\ \A r \in Session : SessionOK(r)'
  <2> HIDE DEF x
  <2> QED BY <1>1, <1>3, <1>4, SpawnStep
<1>6. QED
  BY <1>1, <1>2, <1>4, <1>5
     DEF EngineInv, TypeOK, OSM!OrchTypeOK, orchVars, durableVars, boundVars

(* Run: a session nobody worked on before gets an entry and a task. *)
LEMMA RunStarts ==
  ASSUME EngineInv, NEW s \in Session, NEW t \in Task, NEW r \in Requests,
         NEW timed \in {FALSE, Cancels}, Run(s, t, r, timed)
  PROVE  EngineInv'
<1> DEFINE e == [status |-> "QUEUED", pending |-> NoKio, artifacts |-> FALSE,
                 deadline |-> timed, submitted |-> TRUE]
           g == InitialState(r)
           x == [IdleTask EXCEPT !.pc = "spawned", !.of = s, !.g = g]
<1>1. /\ UNCHANGED <<lock, retry, graph, approval, stored, boundVars>>
      /\ db' = [db EXCEPT ![s] = "CREATED"] /\ db[s] = "none"
      /\ active' = [active EXCEPT ![s] = e] /\ task' = [task EXCEPT ![t] = x]
      /\ OSM!WorkflowSubmitted
  BY DEF Run
<1>2. /\ TypeOK /\ active \in [Session -> Entry] /\ db \in [Session -> DbState]
      /\ task \in [Task -> TaskType]
  BY DEF EngineInv, TypeOK
<1>3. e \in Entry /\ e.pending \notin Kio
  BY EngineConstants DEF Entry, EntryStatus
<1>4. /\ active' \in [Session -> Entry] /\ active'[s] = e
      /\ \A q \in Session : q # s => active'[q] = active[q]
  <2> HIDE DEF e
  <2> QED BY <1>1, <1>2, <1>3
<1>5. r.plan \in PlanType /\ r.gates \in SUBSET Kio
  BY EngineConstants
<1>6. g \in GraphState /\ g.step = 0
  BY <1>5 DEF InitialState, GraphState
<1>7. /\ x \in TaskType /\ x.pc = "spawned" /\ x.of = s /\ x.g = g
      /\ x.answer = "none"
  <2>1. IdleTask.answer = "none"
    BY DEF IdleTask
  <2> HIDE DEF g
  <2> QED BY <1>6, <2>1, IdleTaskType DEF TaskType, IdleTask
<1>8. /\ task' \in [Task -> TaskType] /\ task'[t] = x
      /\ \A u \in Task : u # t => task'[u] = task[u]
  <2> HIDE DEF x
  <2> QED BY <1>1, <1>2, <1>7, NewTask
<1>9. /\ db' \in [Session -> DbState] /\ db'[s] = "CREATED"
      /\ \A q \in Session : q # s => db'[q] = db[q]
  BY <1>1, <1>2 DEF DbState
<1>10. OSM!OrchTypeOK'
  BY <1>1, <1>2 DEF TypeOK, OSM!OrchTypeOK, OSM!WorkflowSubmitted, OSM!Mode
<1> HIDE DEF x, e, g
<1>11. TaskOK(t)'
  BY <1>6, <1>7, <1>8, <1>9 DEF TaskOK, At, Inside, RunPC, Node
<1>12. \A q \in Session : Live(q)' => Live(q) \/ db[q] = "none"
  BY <1>1, <1>4 DEF Live
<1>13. \A u \in Task : TaskOK(u)'
  BY <1>1, <1>8, <1>9, <1>11, <1>12, Others
<1>14. \A q \in Session : SessionOK(q)'
  BY <1>1, <1>3, <1>4, <1>9 DEF EngineInv, SessionOK, Live
<1>15. QED
  BY <1>1, <1>2, <1>4, <1>8, <1>9, <1>10, <1>13, <1>14
     DEF EngineInv, TypeOK, boundVars

(* RunLost: only the database learns of the session. *)
LEMMA RunLostStep ==
  ASSUME EngineInv, NEW s \in Session, RunLost(s)
  PROVE  EngineInv'
<1>1. /\ UNCHANGED <<active, lock, task, retry, orchVars, graph, approval, stored>>
      /\ db' = [db EXCEPT ![s] = "CREATED"] /\ Fault("create_session")
  BY DEF RunLost
<1>2. TypeOK
  BY DEF EngineInv
<1>3. /\ db' \in [Session -> DbState]
      /\ \A r \in Session : db[r] # "none" => db'[r] # "none"
  BY <1>1, <1>2, DbFacts DEF TypeOK, DbState
<1>4. faults' \in 0..MaxFaults /\ restarts' \in 0..MaxRestarts
  BY <1>1, <1>2, Bounds
<1>5. \A t \in Task : TaskOK(t)'
  BY <1>1, <1>3 DEF EngineInv, TaskOK, At, Inside, Live
<1>6. \A r \in Session : SessionOK(r)'
  BY <1>1, <1>3, SameSessions DEF Live
<1>7. QED
  BY <1>1, <1>2, <1>3, <1>4, <1>5, <1>6
     DEF EngineInv, TypeOK, OSM!OrchTypeOK, orchVars

(* Restart: no task survives, and no entry has a pending checkpoint. *)
LEMMA RestartStep == ASSUME EngineInv, Restart PROVE EngineInv'
<1>1. /\ restarts < MaxRestarts /\ restarts' = restarts + 1
      /\ task' = [t \in Task |-> IdleTask]
      /\ lock' = [s \in Session |-> NoTask]
      /\ retry' = [s \in Session |-> -1]
      /\ mode' = "INITIALIZING" /\ workflows' = 0 /\ degraded' = {}
      /\ UNCHANGED <<durableVars, faults>>
  BY DEF Restart
<1>2. PICK loaded \in SUBSET {s \in Session : Rehydratable(s)} :
        active' = [s \in Session |-> IF s \in loaded THEN RestoredEntry(s) ELSE NoEntry]
  BY DEF Restart
<1>3. TypeOK /\ graph \in [Session -> Thread]
  BY DEF EngineInv, TypeOK
<1>4. /\ NoEntry \in Entry /\ NoEntry.pending = NoKio /\ NoEntry.status = "none"
      /\ NoKio \notin Kio
  BY EngineConstants DEF NoEntry, Entry
<1>5. \A s \in Session : /\ RestoredEntry(s) \in Entry
                         /\ RestoredEntry(s).pending = NoKio
  <2> TAKE s \in Session
  <2>1. graph[s].g \in GraphState
    BY <1>3, ThreadFields
  <2>2. graph[s].g.artifacts \in BOOLEAN
    BY <2>1 DEF GraphState
  <2>3. QED
    BY <2>2 DEF RestoredEntry, Entry, EntryStatus
<1>6. \A s \in loaded : db[s] # "none" /\ graph[s].next # "none"
  BY DEF Rehydratable
<1>7. /\ active' \in [Session -> Entry]
      /\ \A s \in Session : /\ active'[s].pending = NoKio
                            /\ active'[s].status # "none" => db[s] # "none"
  BY <1>2, <1>4, <1>5, <1>6
<1>8. \A s \in Session : SessionOK(s)'
  BY <1>1, <1>3, <1>4, <1>7, SameSessions DEF Live, durableVars
<1>9. IdleTask.pc = "idle"
  BY DEF IdleTask
<1>10. \A t \in Task : TaskOK(t)'
  BY <1>1, <1>9 DEF TaskOK, At, Inside, RunPC, Node
<1>11. /\ task' \in [Task -> TaskType] /\ lock' \in [Session -> Task \cup {NoTask}]
       /\ retry' \in [Session -> -1..MaxRetries] /\ restarts' \in 0..MaxRestarts
       /\ OSM!OrchTypeOK'
  BY <1>1, <1>3, IdleTaskType, EngineConstants DEF OSM!OrchTypeOK, OSM!Mode, TypeOK
<1>12. QED
  BY <1>1, <1>3, <1>7, <1>8, <1>10, <1>11 DEF EngineInv, TypeOK, durableVars

-----------------------------------------------------------------------------
(* The theorems. *)

(* The invariant holds initially. *)
LEMMA InitEstablishes == ASSUME Init PROVE EngineInv
<1>1. NoEntry \in Entry /\ NoEntry.status = "none" /\ NoEntry.pending = NoKio
  BY DEF NoEntry, Entry
<1>2. IdleTask \in TaskType /\ IdleTask.pc = "idle"
  BY IdleTaskType DEF IdleTask
<1>3. EmptyState \in GraphState
  BY DEF EmptyState, InitialState, GraphState, PlanType
<1> DEFINE y == [next |-> "none", paused |-> FALSE, g |-> EmptyState]
<1>4. y \in Thread /\ y.next = "none" /\ y.paused = FALSE
  BY <1>3 DEF Thread
<1>5. graph = [s \in Session |-> y]
  BY DEF Init
<1> HIDE DEF y
<1>6. OSM!OrchTypeOK
  BY DEF Init, OSM!OrchInit, OSM!OrchTypeOK, OSM!Mode
<1>7. /\ active \in [Session -> Entry] /\ task \in [Task -> TaskType]
      /\ graph \in [Session -> Thread]
  BY <1>1, <1>2, <1>4, <1>5 DEF Init
<1>8. /\ lock \in [Session -> Task \cup {NoTask}] /\ retry \in [Session -> -1..MaxRetries]
      /\ db \in [Session -> DbState]
      /\ approval \in [Session -> [Kio -> {"none", "PENDING", "APPROVED"}]]
      /\ stored \subseteq Session
      /\ faults \in 0..MaxFaults /\ restarts \in 0..MaxRestarts
  BY EngineConstants DEF Init, DbState
<1>9. TypeOK
  BY <1>6, <1>7, <1>8 DEF TypeOK
<1>10. \A t \in Task : TaskOK(t)
  BY <1>2 DEF Init, TaskOK, At, Inside, RunPC, Node
<1>11. NoKio \notin Kio
  BY EngineConstants
<1>12. \A s \in Session : SessionOK(s)
  BY <1>1, <1>4, <1>5, <1>11 DEF Init, SessionOK, Live
<1>13. QED
  BY <1>9, <1>10, <1>12 DEF EngineInv

(* A stuttering step keeps the invariant. *)
LEMMA Stutter == ASSUME EngineInv, UNCHANGED vars PROVE EngineInv'
<1>1. TypeOK'
  BY DEF EngineInv, TypeOK, vars, orchVars, durableVars, boundVars, OSM!OrchTypeOK
<1>2. (\A t \in Task : TaskOK(t))'
  BY DEF EngineInv, TaskOK, vars, durableVars, At, Inside, Live
<1>3. (\A s \in Session : SessionOK(s))'
  BY DEF EngineInv, SessionOK, vars, durableVars, Live
<1>4. QED
  BY <1>1, <1>2, <1>3 DEF EngineInv

(* Every step keeps the invariant, by one lemma per action. *)
LEMMA StepKeeps == ASSUME EngineInv, [Next]_vars PROVE EngineInv'
<1>1. ASSUME NEW t \in Task, RunStep(t) PROVE EngineInv'
  BY <1>1, BeginStep, PlanStep, PlannedStep, DispatchStep, KioReturnsStep, BackoffStep,
     RegisterStep, ProgressStep, HitlStep, AdvanceStep, CompleteStep, CheckStep,
     UnwindStep DEF RunStep
<1>2. ASSUME NEW t \in Task, RunFault(t) PROVE EngineInv'
  BY <1>2, NoCapableAgentStep, KioRaisesStep, ProgressFailsStep, HitlFailsStep,
     CompleteFailsStep DEF RunFault
<1>3. ASSUME NEW t \in Task, CallStep(t) PROVE EngineInv'
  BY <1>3, ResolveStep, ResolveFailsStep, CancelledStep, TimedOutStep,
     TimeoutFailedStep DEF CallStep
<1>4. ASSUME NEW s \in Session, NEW t \in Task, ClientStep(s, t) PROVE EngineInv'
  BY <1>4, RunStarts, ApproveStep, CancelStep, ExpireStep DEF ClientStep
<1>5. ASSUME NEW s \in Session, RunLost(s) PROVE EngineInv'
  BY <1>5, RunLostStep
<1>6. CASE Restart
  BY <1>6, RestartStep
<1>7. CASE UNCHANGED vars
  BY <1>7, Stutter
<1>8. QED
  BY <1>1, <1>2, <1>3, <1>4, <1>5, <1>6, <1>7 DEF Next

(* The inductive invariant holds of every behaviour, with or without the   *)
(* fairness of Spec.                                                       *)
THEOREM EngineInvariant == Spec => []EngineInv
<1>1. Init => EngineInv
  BY InitEstablishes
<1>2. EngineInv /\ [Next]_vars => EngineInv'
  BY StepKeeps
<1>3. QED
  BY <1>1, <1>2, PTL DEF Spec

(* No interleaving of runs, approvals, cancellations, deadlines, faults    *)
(* and restarts takes a variable out of its type; in particular the KIO a  *)
(* run dispatches or asks about always exists, and no retry counter passes *)
(* max_retries.                                                            *)
THEOREM EngineTyped == Spec => []TypeOK
<1>1. EngineInv => TypeOK
  BY DEF EngineInv
<1>2. QED
  BY <1>1, EngineInvariant, PTL

(* As long as a session has a runtime entry, the graph run that is inside  *)
(* its lock is the one that holds it, for any number of sessions, tasks,   *)
(* faults and restarts.                                                    *)
THEOREM LiveRunsOnceAlways == Spec => []LiveRunsOnce
<1>1. EngineInv => LiveRunsOnce
  BY DEF EngineInv, TaskOK, LiveRunsOnce
<1>2. QED
  BY <1>1, EngineInvariant, PTL

(* Two graph runs are never inside the same session together while it has  *)
(* an entry: the reading of the lock property that the users of the lock   *)
(* rely on.                                                                *)
THEOREM OneRunPerSession ==
  Spec => [](\A t, u \in Task :
               Inside(t) /\ Inside(u) /\ task[t].of = task[u].of /\ Live(task[t].of)
                 => t = u)
<1>1. EngineInv => \A t, u \in Task :
        Inside(t) /\ Inside(u) /\ task[t].of = task[u].of /\ Live(task[t].of) => t = u
  BY DEF EngineInv, TaskOK
<1>2. QED
  BY <1>1, EngineInvariant, PTL
=============================================================================
