------------------------ MODULE WorkflowPromise_proofs ------------------------
(***************************************************************************)
(* Proofs about what the engine promises, on top of the invariant of       *)
(* WorkflowEngine_proofs.  First the human gates, whatever the clients do: *)
(* what the status shows as pending was asked, the database waits only for *)
(* an open question, and no gate opens before some human answered.  Then   *)
(* the workflows themselves: none is counted that is gone; and for polite  *)
(* clients every workflow is counted, nobody is forgotten and the engine   *)
(* implements GatedPipeline.                                               *)
(*                                                                         *)
(* For polite clients a session has at most one task.  The invariant says  *)
(* how the task, the entry, the lock, the checkpointed graph and the       *)
(* database of a session fit together as long as it has one, and how when  *)
(* it has none.  Each action then only has to be looked at for the session *)
(* of its task (Takes).                                                    *)
(***************************************************************************)
EXTENDS WorkflowEngine_proofs, FiniteSetTheorems

-----------------------------------------------------------------------------
(* The human gates *)

Asked(s, k) == approval[s][k] # "none"
Answered(s) == \E k \in Kio : approval[s][k] = "APPROVED"

-----------------------------------------------------------------------------
(* Which actions write what. *)

(* Questions are asked and answered in the hitl node and by approve(). *)
LEMMA ApprovalWriters ==
  ASSUME [Next]_vars
  PROVE  \/ UNCHANGED approval
         \/ \E t \in Task : Resolve(t) \/ ResolveFails(t) \/ Hitl(t) \/ HitlFails(t)
<1>1. ASSUME NEW t \in Task, RunStep(t), ~Hitl(t) PROVE UNCHANGED approval
  BY <1>1 DEF RunStep, Begin, Plan, Planned, Dispatch, KioReturns, Backoff, Register,
     Progress, Advance, Complete, Check, Unwind, durableVars
<1>2. ASSUME NEW t \in Task, RunFault(t), ~HitlFails(t) PROVE UNCHANGED approval
  BY <1>2 DEF RunFault, NoCapableAgent, KioRaises, ProgressFails, CompleteFails, durableVars
<1>3. ASSUME NEW t \in Task, CallStep(t), ~Resolve(t), ~ResolveFails(t)
      PROVE  UNCHANGED approval
  BY <1>3 DEF CallStep, Cancelled, TimedOut, TimeoutFailed
<1>4. ASSUME NEW s \in Session, NEW t \in Task, ClientStep(s, t) PROVE UNCHANGED approval
  BY <1>4 DEF ClientStep, Run, Approve, Cancel, Expire, durableVars
<1>5. ASSUME NEW s \in Session, RunLost(s) PROVE UNCHANGED approval
  BY <1>5 DEF RunLost
<1>6. Restart \/ UNCHANGED vars => UNCHANGED approval
  BY DEF Restart, vars, durableVars
<1>7. QED
  BY <1>1, <1>2, <1>3, <1>4, <1>5, <1>6 DEF Next

(* A question that was asked stays asked, one that was answered stays      *)
(* answered.                                                               *)
LEMMA ApprovalsGrow ==
  ASSUME EngineInv, [Next]_vars, NEW s \in Session, NEW k \in Kio
  PROVE  /\ approval[s][k] # "none" => approval'[s][k] # "none"
         /\ approval[s][k] = "APPROVED" => approval'[s][k] = "APPROVED"
<1>1. approval \in [Session -> [Kio -> {"none", "PENDING", "APPROVED"}]]
  BY DEF EngineInv, TypeOK
<1>2. ASSUME NEW r, NEW j, approval' = [approval EXCEPT ![r][j] = "APPROVED"]
      PROVE  /\ approval[s][k] # "none" => approval'[s][k] # "none"
             /\ approval[s][k] = "APPROVED" => approval'[s][k] = "APPROVED"
  BY <1>1, <1>2
<1>3. ASSUME NEW r, NEW j, CreateCheckpoint(r, j)
      PROVE  /\ approval[s][k] # "none" => approval'[s][k] # "none"
             /\ approval[s][k] = "APPROVED" => approval'[s][k] = "APPROVED"
  BY <1>1, <1>3 DEF CreateCheckpoint
<1>4. ASSUME NEW t \in Task, Resolve(t) \/ ResolveFails(t)
      PROVE  \/ UNCHANGED approval
             \/ approval' = [approval EXCEPT ![task[t].of][task[t].ck] = "APPROVED"]
  BY <1>4 DEF Resolve, ResolveFails
<1>5. ASSUME NEW t \in Task, Hitl(t) \/ HitlFails(t)
      PROVE  \/ UNCHANGED approval
             \/ CreateCheckpoint(task[t].of, CurrentKio(task[t].g))
  BY <1>5 DEF Hitl, HitlFails
<1>6. QED
  BY <1>2, <1>3, <1>4, <1>5, ApprovalWriters

(* The graph is checkpointed by the run that is at one of its nodes. *)
LEMMA GraphWriters ==
  ASSUME [Next]_vars
  PROVE  \/ UNCHANGED graph
         \/ \E t \in Task : \/ Begin(t) \/ Plan(t) \/ Planned(t) \/ KioRaises(t)
                            \/ Progress(t) \/ Hitl(t) \/ Advance(t) \/ Complete(t)
<1>1. ASSUME NEW t \in Task, \/ Dispatch(t) \/ KioReturns(t) \/ Backoff(t)
                             \/ Register(t) \/ Check(t) \/ Unwind(t)
      PROVE  UNCHANGED graph
  BY <1>1 DEF Dispatch, KioReturns, Backoff, Register, Check, Unwind, durableVars
<1>2. ASSUME NEW t \in Task, RunFault(t), ~KioRaises(t) PROVE UNCHANGED graph
  BY <1>2 DEF RunFault, NoCapableAgent, ProgressFails, HitlFails, CompleteFails, durableVars
<1>3. ASSUME NEW t \in Task, CallStep(t) PROVE UNCHANGED graph
  BY <1>3 DEF CallStep, Resolve, ResolveFails, Cancelled, TimedOut, TimeoutFailed
<1>4. ASSUME NEW s \in Session, NEW t \in Task, ClientStep(s, t) PROVE UNCHANGED graph
  BY <1>4 DEF ClientStep, Run, Approve, Cancel, Expire, durableVars
<1>5. ASSUME NEW s \in Session, RunLost(s) PROVE UNCHANGED graph
  BY <1>5 DEF RunLost
<1>6. Restart \/ UNCHANGED vars => UNCHANGED graph
  BY DEF Restart, vars, durableVars
<1>7. QED
  BY <1>1, <1>2, <1>3, <1>4, <1>5, <1>6 DEF Next, RunStep

(* What a write of the graph does to a session: nothing, or it is the      *)
(* writer's own session; a pause is only kept, or set by the hitl node.    *)
GraphEffect(s) ==
  \/ graph'[s] = graph[s]
  \/ graph'[s].paused = FALSE
  \/ \E u \in Task : /\ Hitl(u) /\ task[u].of = s
                     /\ graph'[s].g = graph[s].g
                     /\ graph'[s].paused => graph[s].paused \/ graph[s].g = task[u].g

(* Every step of the engine has one of these effects on the graph of a     *)
(* session, action by action.                                              *)
LEMMA GraphEffects ==
  ASSUME EngineInv, [Next]_vars, NEW s \in Session
  PROVE  GraphEffect(s)
<1>1. graph \in [Session -> Thread]
  BY DEF EngineInv, TypeOK
<1>2. ASSUME NEW t \in Task, NEW p, NEW g, Enter(t, p, g) PROVE GraphEffect(s)
  BY <1>1, <1>2 DEF Enter, GraphEffect
<1>3. ASSUME NEW t \in Task,
             \/ Begin(t) \/ Plan(t) \/ Planned(t) \/ KioRaises(t) \/ Progress(t) \/ Advance(t)
      PROVE  UNCHANGED graph \/ \E p, g : Enter(t, p, g)
  <2>1. Begin(t) => UNCHANGED graph \/ \E p, g : Enter(t, p, g)
    BY DEF Begin
  <2>2. Plan(t) => UNCHANGED graph \/ \E p, g : Enter(t, p, g)
    BY DEF Plan
  <2>3. Planned(t) => UNCHANGED graph \/ \E p, g : Enter(t, p, g)
    BY DEF Planned
  <2>4. KioRaises(t) => UNCHANGED graph \/ \E p, g : Enter(t, p, g)
    BY DEF KioRaises
  <2>5. Progress(t) => UNCHANGED graph \/ \E p, g : Enter(t, p, g)
    BY DEF Progress
  <2>6. Advance(t) => UNCHANGED graph \/ \E p, g : Enter(t, p, g)
    BY DEF Advance
  <2>7. QED
    BY <1>3, <2>1, <2>2, <2>3, <2>4, <2>5, <2>6
<1>4. ASSUME NEW t \in Task, Complete(t) PROVE GraphEffect(s)
  BY <1>1, <1>4 DEF Complete, GraphEffect
<1>5. ASSUME NEW t \in Task, Hitl(t) PROVE GraphEffect(s)
  <2> DEFINE g == task[t].g
  <2>1. graph[s] \in Thread
    BY <1>1
  <2>2. CASE task[t].of # s
    BY <1>1, <1>5, <2>2 DEF Hitl, GraphEffect
  <2>3. CASE task[t].of = s /\ task[t].answer = "none"
    <3> DEFINE b == graph[s].paused \/ (graph[s].next = "hitl" /\ graph[s].g = g)
    <3>1. graph' = [graph EXCEPT ![s] = [graph[s] EXCEPT !.paused = b]]
      BY <1>5, <2>3 DEF Hitl
    <3>2. graph'[s] = [graph[s] EXCEPT !.paused = b]
      BY <1>1, <3>1
    <3>3. graph'[s].paused = b /\ graph'[s].g = graph[s].g
      <4> HIDE DEF b
      <4> QED BY <2>1, <3>2 DEF Thread
    <3>4. graph[s].paused \in BOOLEAN
      BY <2>1, ThreadFields
    <3>5. graph'[s].paused => graph[s].paused \/ graph[s].g = g
      BY <3>3, <3>4
    <3> HIDE DEF b
    <3>6. QED
      BY <1>5, <2>3, <3>3, <3>5 DEF GraphEffect
  <2>4. CASE task[t].of = s /\ task[t].answer # "none"
    <3> DEFINE h == [g EXCEPT !.rejected = (task[t].answer = "no")]
    <3>1. graph' = [graph EXCEPT ![s] = [next |-> "advance", paused |-> FALSE, g |-> h]]
      BY <1>5, <2>4 DEF Hitl
    <3> HIDE DEF h
    <3>2. graph'[s].paused = FALSE
      BY <1>1, <3>1
    <3>3. QED
      BY <3>2 DEF GraphEffect
  <2>5. QED
    BY <2>2, <2>3, <2>4
<1>6. UNCHANGED graph => GraphEffect(s)
  BY DEF GraphEffect
<1>7. QED
  BY <1>2, <1>3, <1>4, <1>5, <1>6, GraphWriters

-----------------------------------------------------------------------------
(* What is pending was asked. *)

(* A pending checkpoint appears in the hitl node that created it, or when  *)
(* a run finds the graph paused at it.                                     *)
PendingEffect(s) ==
  \/ active'[s].pending \in Kio => active'[s].pending = active[s].pending
  \/ \E t \in Task : /\ Hitl(t) /\ task[t].of = s
                     /\ active'[s].pending = CurrentKio(task[t].g)
  \/ graph[s].paused /\ active'[s].pending = CurrentKio(graph[s].g)

(* Every step of the engine changes what a session's status shows as       *)
(* pending in one of these ways.                                           *)
LEMMA PendingEffects ==
  ASSUME EngineInv, [Next]_vars, NEW s \in Session
  PROVE  PendingEffect(s)
<1>1. active \in [Session -> Entry] /\ graph \in [Session -> Thread] /\ TypeOK
  BY DEF EngineInv, TypeOK
<1>2. {NoKio, Popped} \cap Kio = {}
  BY EngineConstants
<1>3. ASSUME NEW r \in Session, NEW st \in EntryStatus, active' = SetStatus(r, st)
      PROVE  PendingEffect(s)
  BY <1>1, <1>3, StatusEntry DEF PendingEffect
<1>4. ASSUME UNCHANGED active PROVE PendingEffect(s)
  BY <1>4 DEF PendingEffect
<1>5. ASSUME NEW r \in Session, Cleanup(r) PROVE PendingEffect(s)
  BY <1>1, <1>2, <1>5, CleanupFacts DEF PendingEffect
<1>6. ASSUME NEW t \in Task, task[t].of \in Session, Raise(t) PROVE PendingEffect(s)
  BY <1>1, <1>6, RaiseFacts DEF PendingEffect
<1>7. {"READY", "VALIDATING", "DISPATCHED", "ACTIVE", "RUNNING", "FAILED", "CANCELLED",
       "TIMEOUT", "BLOCKED", "PENDING_REVIEW"} \subseteq EntryStatus
  BY DEF EntryStatus
<1>8. ASSUME NEW t \in Task, RunStep(t) PROVE PendingEffect(s)
  <2>1. ~At(t, "idle")
    BY <1>8 DEF RunStep, At, Begin, Plan, Planned, Dispatch, KioReturns, Backoff, Register,
       Progress, Hitl, Advance, Complete, Check, Unwind, UnwindStatus
  <2>2. task[t].of \in Session
    BY <2>1, Known
  <2>3. CASE Begin(t) \/ Register(t)
    BY <1>4, <2>3 DEF Begin, Register
  <2>4. CASE Plan(t)
    BY <1>3, <1>7, <2>2, <2>4 DEF Plan
  <2>5. CASE Planned(t)
    BY <1>3, <1>7, <2>2, <2>5 DEF Planned
  <2>6. CASE Dispatch(t)
    BY <1>3, <1>7, <2>2, <2>6 DEF Dispatch
  <2>7. CASE KioReturns(t)
    BY <1>3, <1>7, <2>2, <2>7 DEF KioReturns
  <2>8. CASE Backoff(t)
    BY <1>3, <1>7, <2>2, <2>8 DEF Backoff
  <2>9. CASE Progress(t)
    BY <1>4, <1>6, <2>2, <2>9 DEF Progress
  <2>10. CASE Hitl(t)
    <3> DEFINE k == CurrentKio(task[t].g)
    <3>1. active' = SetPending(task[t].of, "BLOCKED", k)
      BY <2>10 DEF Hitl
    <3>2. task[t].g \in GraphState /\ HasKio(task[t].g)
      BY <2>1, <2>10, Known DEF TaskOK, Hitl
    <3>3. k \in Kio
      BY <3>2, CurrentKioType
    <3>4. \/ active'[s].pending = active[s].pending
          \/ s = task[t].of /\ active'[s].pending = k
      BY <1>1, <1>7, <2>2, <3>1, <3>3, PendingEntry
    <3>5. QED
      BY <2>10, <3>4 DEF PendingEffect
  <2>11. CASE Advance(t)
    <3>1. \/ active' = SetStatus(task[t].of, "FAILED")
          \/ active' = SetPending(task[t].of, "ACTIVE", NoKio)
      BY <2>11 DEF Advance
    <3>2. CASE active' = SetStatus(task[t].of, "FAILED")
      BY <1>3, <1>7, <2>2, <3>2
    <3>3. CASE active' = SetPending(task[t].of, "ACTIVE", NoKio)
      <4>1. active'[s].pending = active[s].pending \/ active'[s].pending = NoKio
        BY <1>1, <1>7, <2>2, <3>3, PendingEntry
      <4>2. QED
        BY <1>2, <4>1 DEF PendingEffect
    <3>4. QED
      BY <3>1, <3>2, <3>3
  <2>12. CASE Complete(t)
    <3>1. active' = [active EXCEPT ![task[t].of] = NoEntry] /\ NoEntry.pending = NoKio
      BY <2>12 DEF Complete, NoEntry
    <3>2. active'[s] = active[s] \/ active'[s].pending = NoKio
      BY <1>1, <3>1
    <3>3. QED
      BY <1>2, <3>2 DEF PendingEffect
  <2>13. CASE Check(t)
    <3> DEFINE r == task[t].of
               k == CurrentKio(graph[r].g)
    <3>1. CASE graph[r].paused
      <4>1. active' = SetPending(r, "PENDING_REVIEW", k)
        BY <2>13, <3>1 DEF Check
      <4>2. graph[r].g \in GraphState /\ HasKio(graph[r].g)
        BY <2>1, <3>1, Known DEF SessionOK
      <4>3. k \in Kio
        BY <4>2, CurrentKioType
      <4>4. active'[s].pending = active[s].pending \/ (s = r /\ active'[s].pending = k)
        BY <1>1, <1>7, <2>2, <4>1, <4>3, PendingEntry
      <4>5. QED
        BY <3>1, <4>4 DEF PendingEffect
    <3>2. CASE ~graph[r].paused
      BY <1>4, <2>13, <3>2 DEF Check
    <3>3. QED
      BY <3>1, <3>2
  <2>14. CASE Unwind(t)
    BY <1>4, <1>5, <2>2, <2>14 DEF Unwind
  <2>15. QED
    BY <1>8, <2>3, <2>4, <2>5, <2>6, <2>7, <2>8, <2>9, <2>10, <2>11, <2>12, <2>13, <2>14
       DEF RunStep
<1>9. ASSUME NEW t \in Task, RunFault(t) PROVE PendingEffect(s)
  <2>1. ~At(t, "idle")
    BY <1>9 DEF RunFault, At, NoCapableAgent, KioRaises, ProgressFails, HitlFails,
       CompleteFails
  <2>2. task[t].of \in Session
    BY <2>1, Known
  <2>3. Raise(t) \/ UNCHANGED active
    BY <1>9 DEF RunFault, NoCapableAgent, KioRaises, ProgressFails, HitlFails,
       CompleteFails
  <2>4. QED
    BY <1>4, <1>6, <2>2, <2>3
<1>10. ASSUME NEW t \in Task, CallStep(t) PROVE PendingEffect(s)
  <2>1. ~At(t, "idle")
    BY <1>10 DEF CallStep, At, Resolve, ResolveFails, Cancelled, TimedOut, TimeoutFailed
  <2>2. task[t].of \in Session
    BY <2>1, Known
  <2>3. CASE Resolve(t) \/ ResolveFails(t)
    BY <1>4, <2>3 DEF Resolve, ResolveFails
  <2>4. CASE Cancelled(t) \/ TimeoutFailed(t)
    BY <1>5, <2>2, <2>4 DEF Cancelled, TimeoutFailed
  <2>5. CASE TimedOut(t)
    BY <1>3, <1>7, <2>2, <2>5 DEF TimedOut
  <2>6. QED
    BY <1>10, <2>3, <2>4, <2>5 DEF CallStep
<1>11. ASSUME NEW r \in Session, NEW t \in Task, ClientStep(r, t) PROVE PendingEffect(s)
  <2>1. ASSUME NEW e, active' = [active EXCEPT ![r] = e], e.pending \in {NoKio, Popped}
        PROVE  PendingEffect(s)
    BY <1>1, <1>2, <2>1 DEF PendingEffect
  <2>2. ASSUME NEW q \in Requests, NEW timed, Run(r, t, q, timed) PROVE PendingEffect(s)
    BY <2>1, <2>2 DEF Run
  <2>3. ASSUME NEW a, Approve(r, t, a) PROVE PendingEffect(s)
    <3> DEFINE e == [active[r] EXCEPT !.status = "RUNNING", !.pending = Popped]
    <3>1. active[r] \in Entry
      BY <1>1
    <3>2. e.pending = Popped
      BY <3>1 DEF Entry
    <3>3. active' = [active EXCEPT ![r] = e]
      BY <2>3 DEF Approve
    <3>4. QED
      <4> HIDE DEF e
      <4> QED BY <2>1, <3>2, <3>3
  <2>4. Cancel(r, t) \/ Expire(r, t) => PendingEffect(s)
    BY <1>3, <1>7 DEF Cancel, Expire
  <2>5. QED
    BY <1>11, <2>2, <2>3, <2>4 DEF ClientStep
<1>12. ASSUME NEW r \in Session, RunLost(r) PROVE PendingEffect(s)
  BY <1>4, <1>12 DEF RunLost
<1>13. CASE Restart
  <2>1. PICK loaded \in SUBSET {r \in Session : Rehydratable(r)} :
          active' = [r \in Session |-> IF r \in loaded THEN RestoredEntry(r) ELSE NoEntry]
    BY <1>13 DEF Restart
  <2>2. RestoredEntry(s).pending = NoKio /\ NoEntry.pending = NoKio
    BY DEF RestoredEntry, NoEntry
  <2>3. active'[s].pending = NoKio
    BY <2>1, <2>2
  <2>4. QED
    BY <1>2, <2>3 DEF PendingEffect
<1>14. CASE UNCHANGED vars
  BY <1>4, <1>14 DEF vars
<1>15. QED
  BY <1>8, <1>9, <1>10, <1>11, <1>12, <1>13, <1>14 DEF Next

(* The pause of the graph and the status it is published in both show a    *)
(* question that the Session Manager knows.                                *)
QuestionOK(s) ==
  /\ graph[s].paused => Asked(s, CurrentKio(graph[s].g))
  /\ active[s].pending \in Kio => Asked(s, active[s].pending)
QuestionInv == EngineInv /\ \A s \in Session : QuestionOK(s)

(* A run at the hitl node has asked its question when it moves on. *)
LEMMA HitlAsks ==
  ASSUME EngineInv, NEW t \in Task, Hitl(t)
  PROVE  approval'[task[t].of][CurrentKio(task[t].g)] # "none"
<1> DEFINE s == task[t].of
           k == CurrentKio(task[t].g)
<1>1. At(t, "hitl") /\ ~At(t, "idle") /\ CreateCheckpoint(s, k)
  BY DEF Hitl, At
<1>2. /\ s \in Session /\ task[t].g \in GraphState /\ HasKio(task[t].g)
      /\ approval \in [Session -> [Kio -> {"none", "PENDING", "APPROVED"}]]
  BY <1>1, Known DEF TaskOK, TypeOK
<1>3. k \in Kio
  BY <1>2, CurrentKioType
<1>4. QED
  BY <1>1, <1>2, <1>3 DEF CreateCheckpoint

(* Every step of the engine keeps the two halves of QuestionOK: the hitl   *)
(* node asks before it pauses or shows the question, and what was asked is *)
(* never taken back.                                                       *)
LEMMA QuestionStep == ASSUME QuestionInv, [Next]_vars PROVE QuestionInv'
<1>1. EngineInv /\ EngineInv' /\ graph \in [Session -> Thread]
  BY StepKeeps DEF QuestionInv, EngineInv, TypeOK
<1>2. ASSUME NEW s \in Session PROVE QuestionOK(s)'
  <2>1. QuestionOK(s) /\ SessionOK(s) /\ SessionOK(s)' /\ graph'[s].g \in GraphState
        /\ graph[s].g \in GraphState
    BY <1>1, ThreadFields DEF QuestionInv, EngineInv, TypeOK
  <2>2. graph[s].paused => CurrentKio(graph[s].g) \in Kio
    BY <2>1, CurrentKioType DEF SessionOK
  <2>3. \A k \in Kio : approval[s][k] # "none" => approval'[s][k] # "none"
    BY <1>1, ApprovalsGrow
  <2>4. ASSUME NEW t \in Task, Hitl(t), task[t].of = s
        PROVE  approval'[s][CurrentKio(task[t].g)] # "none"
    BY <1>1, <2>4, HitlAsks
  <2>5. graph'[s].paused => approval'[s][CurrentKio(graph'[s].g)] # "none"
    <3>1. CASE graph'[s] = graph[s]
      BY <2>1, <2>2, <2>3, <3>1 DEF QuestionOK, Asked
    <3>2. CASE graph'[s].paused = FALSE
      BY <3>2
    <3>3. ASSUME NEW t \in Task, Hitl(t), task[t].of = s, graph'[s].g = graph[s].g,
                 graph'[s].paused => graph[s].paused \/ graph[s].g = task[t].g
          PROVE  graph'[s].paused => approval'[s][CurrentKio(graph'[s].g)] # "none"
      BY <2>1, <2>2, <2>3, <2>4, <3>3 DEF QuestionOK, Asked
    <3>4. QED
      BY <1>1, <3>1, <3>2, <3>3, GraphEffects DEF GraphEffect, QuestionInv
  <2>6. active'[s].pending \in Kio => approval'[s][active'[s].pending] # "none"
    <3>1. CASE active'[s].pending \in Kio => active'[s].pending = active[s].pending
      BY <2>1, <2>3, <3>1 DEF QuestionOK, Asked
    <3>2. ASSUME NEW t \in Task, Hitl(t), task[t].of = s,
                 active'[s].pending = CurrentKio(task[t].g)
          PROVE  approval'[s][active'[s].pending] # "none"
      BY <2>4, <3>2
    <3>3. CASE graph[s].paused /\ active'[s].pending = CurrentKio(graph[s].g)
      BY <2>1, <2>2, <2>3, <3>3 DEF QuestionOK, Asked
    <3>4. QED
      BY <1>1, <3>1, <3>2, <3>3, PendingEffects DEF PendingEffect
  <2>7. QED
    BY <2>5, <2>6 DEF QuestionOK, Asked
<1>3. QED
  BY <1>1, <1>2 DEF QuestionInv

(* Whatever checkpoint the status shows as pending, the Session Manager    *)
(* has created: approve() never resolves a question that was not asked.    *)
THEOREM PendingIsRealAlways == Spec => []PendingIsReal
<1>1. Init => QuestionInv
  <2> SUFFICES ASSUME Init PROVE QuestionInv
    OBVIOUS
  <2>1. NoKio \notin Kio
    BY EngineConstants
  <2>2. EngineInv
    BY InitEstablishes
  <2>3. \A s \in Session : graph[s].paused = FALSE /\ active[s].pending = NoKio
    BY DEF Init, NoEntry
  <2>4. QED
    BY <2>1, <2>2, <2>3 DEF QuestionInv, QuestionOK
<1>2. QuestionInv /\ [Next]_vars => QuestionInv'
  BY QuestionStep
<1>3. QuestionInv => PendingIsReal
  BY DEF QuestionInv, QuestionOK, Asked, PendingIsReal
<1>4. QED
  BY <1>1, <1>2, <1>3, PTL DEF Spec

-----------------------------------------------------------------------------
(* The database waits only for an open question. *)

(* Only the hitl node makes a session wait. *)
LEMMA WaitingWriters ==
  ASSUME EngineInv, [Next]_vars, NEW s \in Session, db'[s] = "WAITING"
  PROVE  db[s] = "WAITING" \/ \E t \in Task : Hitl(t) \/ HitlFails(t)
<1>1. db \in [Session -> DbState]
  BY DEF EngineInv, TypeOK
<1>2. ASSUME NEW r, NEW st, st # "WAITING", db' \in {db, [db EXCEPT ![r] = st]}
      PROVE  db[s] = "WAITING"
  BY <1>1, <1>2
<1>3. ASSUME NEW r, NEW st, st # "WAITING", TryStatus(r, st) PROVE db[s] = "WAITING"
  BY <1>2, <1>3 DEF TryStatus
<1>4. ASSUME NEW t \in Task, RunStep(t), ~Hitl(t) PROVE db[s] = "WAITING"
  <2>1. CASE \/ Begin(t) \/ Plan(t) \/ Planned(t) \/ Dispatch(t) \/ KioReturns(t)
             \/ Backoff(t) \/ Register(t) \/ Advance(t) \/ Check(t)
    BY <2>1 DEF Begin, Plan, Planned, Dispatch, KioReturns, Backoff, Register, Advance,
       Check, durableVars
  <2>2. CASE Progress(t)
    BY <1>2, <2>2 DEF Progress
  <2>3. CASE Complete(t)
    BY <1>2, <2>3 DEF Complete
  <2>4. CASE Unwind(t)
    <3>1. task[t].pc \in {"failing", "compensating", "compensated"}
      BY <2>4 DEF Unwind, UnwindStatus
    <3>2. UnwindStatus[task[t].pc] # "WAITING"
      BY <3>1 DEF UnwindStatus
    <3>3. TryStatus(task[t].of, UnwindStatus[task[t].pc])
      BY <2>4 DEF Unwind
    <3>4. QED
      BY <1>3, <3>2, <3>3
  <2>5. QED
    BY <1>4, <2>1, <2>2, <2>3, <2>4 DEF RunStep
<1>5. ASSUME NEW t \in Task, RunFault(t), ~HitlFails(t) PROVE db[s] = "WAITING"
  <2>1. CASE NoCapableAgent(t) \/ KioRaises(t)
    BY <2>1 DEF NoCapableAgent, KioRaises, durableVars
  <2>2. CASE ProgressFails(t)
    BY <1>2, <2>2 DEF ProgressFails, Applied
  <2>3. CASE CompleteFails(t)
    BY <1>2, <2>3 DEF CompleteFails, Applied
  <2>4. QED
    BY <1>5, <2>1, <2>2, <2>3 DEF RunFault
<1>6. ASSUME NEW t \in Task, CallStep(t) PROVE db[s] = "WAITING"
  BY <1>2, <1>3, <1>6 DEF CallStep, Resolve, ResolveFails, Cancelled, TimedOut, TimeoutFailed
<1>7. ASSUME NEW r \in Session, NEW t \in Task, ClientStep(r, t) PROVE db[s] = "WAITING"
  <2>1. ASSUME NEW q \in Requests, NEW timed, Run(r, t, q, timed) PROVE db[s] = "WAITING"
    BY <1>2, <2>1 DEF Run
  <2>2. ASSUME NEW a, Approve(r, t, a) PROVE db[s] = "WAITING"
    BY <2>2 DEF Approve, durableVars
  <2>3. Cancel(r, t) \/ Expire(r, t) => db[s] = "WAITING"
    BY DEF Cancel, Expire, durableVars
  <2>4. QED
    BY <1>7, <2>1, <2>2, <2>3 DEF ClientStep
<1>8. ASSUME NEW r \in Session, RunLost(r) PROVE db[s] = "WAITING"
  BY <1>2, <1>8 DEF RunLost
<1>9. Restart \/ UNCHANGED vars => db[s] = "WAITING"
  BY DEF Restart, vars, durableVars
<1>10. QED
  BY <1>4, <1>5, <1>6, <1>7, <1>8, <1>9 DEF Next

(* Every step of the engine keeps an open question behind WAITING: the     *)
(* hitl node sets both at once, an answer clears both at once.             *)
LEMMA WaitingStep ==
  ASSUME EngineInv, WaitingHasQuestion, [Next]_vars
  PROVE  WaitingHasQuestion'
<1> SUFFICES ASSUME NEW s \in Session, db'[s] = "WAITING"
             PROVE  \E k \in Kio : approval'[s][k] = "PENDING"
  BY DEF WaitingHasQuestion
<1>1. /\ db \in [Session -> DbState]
      /\ approval \in [Session -> [Kio -> {"none", "PENDING", "APPROVED"}]]
  BY DEF EngineInv, TypeOK
<1>2. CASE UNCHANGED approval /\ db[s] = "WAITING"
  BY <1>2 DEF WaitingHasQuestion
<1>3. ASSUME NEW t \in Task, Hitl(t) \/ HitlFails(t)
      PROVE  \E k \in Kio : approval'[s][k] = "PENDING"
  <2> DEFINE k == CurrentKio(task[t].g)
  <2>1. At(t, "hitl") /\ ~At(t, "idle")
    BY <1>3 DEF Hitl, HitlFails, At
  <2>2. task[t].of \in Session /\ task[t].g \in GraphState /\ HasKio(task[t].g)
    BY <2>1, Known DEF TaskOK
  <2>3. k \in Kio
    BY <2>2, CurrentKioType
  <2>4. UNCHANGED <<approval, db>> \/ CreateCheckpoint(task[t].of, k)
    BY <1>3 DEF Hitl, HitlFails
  <2> HIDE DEF k
  <2>5. CASE UNCHANGED <<approval, db>>
    BY <1>2, <2>5
  <2>6. CASE CreateCheckpoint(task[t].of, k)
    BY <1>1, <1>2, <2>2, <2>3, <2>6 DEF CreateCheckpoint, WaitingHasQuestion
  <2>7. QED
    BY <2>4, <2>5, <2>6
<1>4. ASSUME NEW t \in Task, Resolve(t) \/ ResolveFails(t)
      PROVE  \E k \in Kio : approval'[s][k] = "PENDING"
  <2>1. \/ UNCHANGED <<approval, db>>
        \/ /\ approval' = [approval EXCEPT ![task[t].of][task[t].ck] = "APPROVED"]
           /\ db' = [db EXCEPT ![task[t].of] = "RUNNING"]
    BY <1>4 DEF Resolve, ResolveFails
  <2>2. CASE UNCHANGED <<approval, db>>
    BY <1>2, <2>2
  <2>3. CASE /\ approval' = [approval EXCEPT ![task[t].of][task[t].ck] = "APPROVED"]
             /\ db' = [db EXCEPT ![task[t].of] = "RUNNING"]
    <3>1. s # task[t].of
      BY <1>1, <2>3
    <3>2. approval'[s] = approval[s] /\ db'[s] = db[s]
      BY <1>1, <2>3, <3>1
    <3>3. QED
      BY <3>2 DEF WaitingHasQuestion
  <2>4. QED
    BY <2>1, <2>2, <2>3
<1>5. QED
  BY <1>2, <1>3, <1>4, ApprovalWriters, WaitingWriters

(* The Session Manager reports a session as waiting for a human only while *)
(* one of its questions is open, for any clients, faults and restarts.     *)
THEOREM WaitingHasQuestionAlways == Spec => []WaitingHasQuestion
<1>1. Init => WaitingHasQuestion
  BY DEF Init, WaitingHasQuestion
<1>2. EngineInv /\ WaitingHasQuestion /\ [Next]_vars => WaitingHasQuestion'
  BY WaitingStep
<1>3. QED
  BY <1>1, <1>2, EngineInvariant, PTL DEF Spec

-----------------------------------------------------------------------------
(* No gate opens on its own. *)

(* t is a graph run of s, or about to be one. *)
Runs(t, s) == task[t].of = s /\ task[t].pc \in RunPC \cup {"spawned"}

(* The places between entering run_kio and leaving it. *)
Working == {"run_kio", "executing", "backoff", "registering", "progress"}

(* As long as nobody has answered for a session, it has one run at most,   *)
(* which carries no answer and whose work is on the step that the          *)
(* checkpointer shows.                                                     *)
AnswerInv ==
  /\ \A t \in Task : At(t, "resolving") => task[t].ck \in Kio
  /\ \A s \in Session : ~Answered(s) =>
       \A t \in Task : Runs(t, s) =>
         /\ \A u \in Task : Runs(u, s) => u = t
         /\ task[t].answer = "none"
         /\ task[t].pc \in Working => graph[s].next = "run_kio"

(* A step of one task keeps the invariant if it starts no second run and   *)
(* leaves the graphs of other sessions alone.                              *)
LEMMA AnswerFrame ==
  ASSUME EngineInv, AnswerInv, [Next]_vars, NEW t \in Task,
         \A u \in Task : u # t => task'[u] = task[u],
         task'[t].pc = "resolving" => task'[t].ck \in Kio,
         \A s \in Session :
           /\ Runs(t, s)' =>
                Runs(t, s) \/ Answered(s)' \/ (\A u \in Task : ~Runs(u, s))
           /\ ~Answered(s) /\ ~Answered(s)' /\ Runs(t, s)' =>
                /\ task'[t].answer = "none"
                /\ task'[t].pc \in Working => graph'[s].next = "run_kio"
           /\ Runs(t, s) \/ graph'[s] = graph[s]
  PROVE  AnswerInv'
<1>1. ASSUME NEW u \in Task, task'[u].pc = "resolving" PROVE task'[u].ck \in Kio
  BY <1>1 DEF AnswerInv, At
<1>2. ASSUME NEW s \in Session, ~Answered(s)', NEW u \in Task, Runs(u, s)'
      PROVE  /\ \A v \in Task : Runs(v, s)' => v = u
             /\ task'[u].answer = "none"
             /\ task'[u].pc \in Working => graph'[s].next = "run_kio"
  <2>1. ~Answered(s)
    BY <1>2, ApprovalsGrow DEF Answered
  <2>2. \A v \in Task : v # t => (Runs(v, s)' <=> Runs(v, s))
    BY DEF Runs
  <2>3. \A v, w \in Task : Runs(v, s) /\ Runs(w, s) => v = w
    BY <2>1 DEF AnswerInv
  <2>4. Runs(t, s)' => Runs(t, s) \/ (\A v \in Task : ~Runs(v, s))
    BY <1>2
  <2>5. \A v \in Task : Runs(v, s)' => v = u
    BY <1>2, <2>2, <2>3, <2>4
  <2>6. CASE u = t
    BY <1>2, <2>1, <2>5, <2>6
  <2>7. CASE u # t
    <3>1. Runs(u, s) /\ ~Runs(t, s) /\ task'[u] = task[u]
      BY <1>2, <2>2, <2>3, <2>7
    <3>2. graph'[s] = graph[s]
      BY <3>1
    <3>3. QED
      BY <2>1, <2>5, <3>1, <3>2 DEF AnswerInv
  <2>8. QED
    BY <2>6, <2>7
<1>3. QED
  BY <1>1, <1>2 DEF AnswerInv, At

(* A task that moves on inside its run, or leaves it, keeps the invariant  *)
(* if it enters the work on a step only from the work on that step.        *)
LEMMA GotoAnswers ==
  ASSUME EngineInv, AnswerInv, [Next]_vars, NEW t \in Task, ~At(t, "idle"),
         NEW p \in PC, Goto(t, p), p \notin {"spawned", "resolving"},
         p \in RunPC => Inside(t), p \in Working => task[t].pc \in Working,
         \A s \in Session : s # task[t].of \/ p \in Working => graph'[s] = graph[s],
         p \notin RunPC => UNCHANGED graph
  PROVE  AnswerInv'
<1>1. /\ task'[t].pc = p /\ task'[t].of = task[t].of
      /\ task'[t].answer = task[t].answer
      /\ \A u \in Task : u # t => task'[u] = task[u]
  BY Known, MoveTask
<1>2. ASSUME NEW s \in Session, Runs(t, s)' PROVE Runs(t, s)
  BY <1>1, <1>2 DEF Runs, Inside
<1>3. ASSUME NEW s \in Session, ~Answered(s), Runs(t, s)'
      PROVE  /\ task'[t].answer = "none"
             /\ task'[t].pc \in Working => graph'[s].next = "run_kio"
  BY <1>1, <1>2, <1>3 DEF AnswerInv
<1>4. ASSUME NEW s \in Session PROVE Runs(t, s) \/ graph'[s] = graph[s]
  BY <1>4 DEF Runs, Inside
<1>5. QED
  BY <1>1, <1>2, <1>3, <1>4, AnswerFrame

(* A run that writes its checkpoint and enters the next node keeps the     *)
(* invariant: the checkpointer shows the node it enters.                   *)
LEMMA EnterAnswers ==
  ASSUME EngineInv, AnswerInv, [Next]_vars, NEW t \in Task,
         Inside(t) \/ At(t, "spawned"),
         NEW p \in Node, NEW g \in GraphState, Enter(t, p, g)
  PROVE  AnswerInv'
<1>1. ~At(t, "idle")
  BY DEF Inside, At, RunPC, Node
<1>2. /\ task'[t].pc = p /\ task'[t].of = task[t].of
      /\ task'[t].answer = task[t].answer
      /\ \A u \in Task : u # t => task'[u] = task[u]
      /\ \A s \in Session :
           /\ s = task[t].of => graph'[s] = [next |-> p, paused |-> FALSE, g |-> g]
           /\ s # task[t].of => graph'[s] = graph[s]
  BY <1>1, Known, EnterTask
<1>3. \A s \in Session : Runs(t, s)' => Runs(t, s)
  BY <1>2 DEF Runs, Inside, At
<1>4. p \in Working => p = "run_kio"
  BY DEF Node, Working
<1>5. ASSUME NEW s \in Session, ~Answered(s), Runs(t, s)'
      PROVE  /\ task'[t].answer = "none"
             /\ task'[t].pc \in Working => graph'[s].next = "run_kio"
  <2>1. s = task[t].of /\ task[t].answer = "none"
    BY <1>3, <1>5 DEF AnswerInv, Runs
  <2>2. graph'[s].next = p
    BY <1>2, <2>1
  <2>3. QED
    BY <1>2, <1>4, <2>1, <2>2
<1>6. \A s \in Session : Runs(t, s) \/ graph'[s] = graph[s]
  BY <1>2 DEF Runs, Inside, At
<1>7. p # "resolving"
  BY DEF Node
<1>8. QED
  BY <1>2, <1>3, <1>5, <1>6, <1>7, AnswerFrame

(* A task that becomes anything but a run: idle, or a call of the API. *)
LEMMA OtherAnswers ==
  ASSUME EngineInv, AnswerInv, [Next]_vars, NEW t \in Task, UNCHANGED graph,
         \A u \in Task : u # t => task'[u] = task[u],
         task'[t].pc \notin RunPC \cup {"spawned"},
         task'[t].pc = "resolving" => task'[t].ck \in Kio
  PROVE  AnswerInv'
<1>1. \A s \in Session : ~Runs(t, s)'
  BY DEF Runs
<1>2. QED
  BY <1>1, AnswerFrame

(* A task that ends keeps the invariant.                                   *)
LEMMA EndAnswers ==
  ASSUME EngineInv, AnswerInv, [Next]_vars, NEW t \in Task, ~At(t, "idle"),
         End(t), UNCHANGED graph
  PROVE  AnswerInv'
<1>1. task'[t].pc = "idle" /\ \A u \in Task : u # t => task'[u] = task[u]
  BY Known, EndTask
<1>2. QED
  BY <1>1, OtherAnswers DEF RunPC, Node

(* A run that raises keeps the invariant: it goes on with its failure      *)
(* handling and carries the answer it carried.                             *)
LEMMA RaiseAnswers ==
  ASSUME EngineInv, AnswerInv, [Next]_vars, NEW t \in Task, Inside(t),
         Raise(t), UNCHANGED graph
  PROVE  AnswerInv'
<1>1. ~At(t, "idle")
  BY DEF Inside, At, RunPC, Node
<1>2. TypeOK /\ task[t].of \in Session
  BY <1>1, Known
<1>3. /\ task'[t].pc = "failing" /\ task'[t].of = task[t].of
      /\ \A u \in Task : u # t => task'[u] = task[u]
  BY <1>2, RaiseFacts
<1>4. task'[t].answer = task[t].answer
  <2>1. task[t] \in TaskType
    BY <1>2 DEF TypeOK
  <2>2. task' = [task EXCEPT ![t] = [task[t] EXCEPT !.pc = "failing",
                                        !.undo = active[task[t].of].artifacts]]
    BY DEF Raise
  <2>3. task'[t] = [task[t] EXCEPT !.pc = "failing", !.undo = active[task[t].of].artifacts]
    BY <1>2, <2>2 DEF TypeOK
  <2>4. QED
    BY <2>1, <2>3 DEF TaskType
<1>5. \A s \in Session : Runs(t, s)' => Runs(t, s)
  BY <1>3 DEF Runs, Inside
<1>6. "failing" \notin Working /\ "failing" # "resolving"
  BY DEF Working
<1>7. \A s \in Session : ~Answered(s) /\ Runs(t, s)' => task'[t].answer = "none"
  BY <1>4, <1>5 DEF AnswerInv
<1>8. QED
  BY <1>3, <1>5, <1>6, <1>7, AnswerFrame

(* AnswerInv is inductive relative to EngineInv: a first run starts on a   *)
(* session that has none, and a second run is started by approve() after   *)
(* its answer is in the database.                                          *)
LEMMA AnswerStep == ASSUME EngineInv, AnswerInv, [Next]_vars PROVE AnswerInv'
<1>1. ASSUME UNCHANGED <<task, graph>> PROVE AnswerInv'
  <2>1. \A s \in Session : Answered(s) => Answered(s)'
    BY ApprovalsGrow DEF Answered
  <2>2. QED
    BY <1>1, <2>1 DEF AnswerInv, At, Runs
<1>2. ASSUME NEW t \in Task, RunStep(t) PROVE AnswerInv'
  <2> DEFINE s == task[t].of
             g == task[t].g
  <2>1. \/ At(t, "spawned") /\ Begin(t)
        \/ Inside(t) /\ ~Begin(t)
    BY <1>2 DEF RunStep, At, Inside, RunPC, Node, Begin, Plan, Planned, Dispatch,
       KioReturns, Backoff, Register, Progress, Hitl, Advance, Complete, Check, Unwind,
       UnwindStatus
  <2>2. ~At(t, "idle")
    BY <2>1 DEF At, Inside, RunPC, Node
  <2>3. /\ s \in Session /\ TaskOK(t) /\ g \in GraphState
        /\ task \in [Task -> TaskType] /\ graph \in [Session -> Thread] /\ TypeOK
    BY <2>2, Known
  <2>4. {"planning", "executing", "backoff", "registering", "progress", "checking",
         "failing", "compensating", "compensated"} \subseteq PC
        /\ Node \subseteq PC /\ Node = {"plan", "run_kio", "hitl", "advance", "complete"}
    BY DEF PC, RunPC, Node
  <2>5. CASE Begin(t) /\ ~Free(s)
    BY <2>2, <2>5, EndAnswers DEF Begin
  <2>6. CASE Begin(t) /\ Free(s) /\ task[t].answer = "none"
    BY <2>1, <2>3, <2>4, <2>6, EnterAnswers DEF Begin
  <2>7. CASE Begin(t) /\ Free(s) /\ task[t].answer # "none"
    <3> DEFINE p == IF graph[s].next = "end" THEN "checking" ELSE graph[s].next
               x == [task[t] EXCEPT !.pc = p, !.g = graph[s].g,
                                    !.answer = IF p = "hitl" THEN @ ELSE "none"]
    <3>1. task' = [task EXCEPT ![t] = x] /\ UNCHANGED graph
      BY <2>7 DEF Begin
    <3>2. task[t] \in TaskType
      BY <2>3
    <3>3. x.pc = p /\ x.of = s
      BY <3>2 DEF TaskType
    <3>4. task'[t] = x /\ \A u \in Task : u # t => task'[u] = task[u]
      <4> HIDE DEF x
      <4> QED BY <2>3, <3>1
    <3>5. Answered(s)
      BY <2>1, <2>3, <2>7 DEF AnswerInv, Runs, At, Inside, RunPC, Node
    <3>6. graph[s].next # "resolving"
      BY <2>3, ThreadFields DEF Node
    <3>7. task'[t].pc # "resolving" /\ task'[t].of = s
      <4> HIDE DEF x
      <4> QED BY <3>3, <3>4, <3>6
    <3>8. Runs(t, s)
      BY <2>1, <2>7 DEF Runs, At, Inside
    <3> HIDE DEF x, p
    <3>9. \A r \in Session : Runs(t, r)' => r = s
      BY <3>7 DEF Runs
    <3>10. QED
      BY <3>1, <3>4, <3>5, <3>7, <3>8, <3>9, AnswerFrame
  <2>8. CASE Plan(t)
    <3>1. CASE g.plan # <<>>
      BY <2>1, <2>3, <2>4, <2>8, <3>1, EnterAnswers DEF Plan
    <3>2. CASE g.plan = <<>>
      <4>1. Inside(t) /\ Goto(t, "planning") /\ UNCHANGED graph
        BY <2>1, <2>8, <3>2 DEF Plan, At, Inside, RunPC, Node
      <4>2. "planning" \notin Working
        BY DEF Working
      <4>3. QED
        BY <2>2, <2>4, <4>1, <4>2, GotoAnswers
    <3>3. QED
      BY <3>1, <3>2
  <2>9. CASE Planned(t)
    <3>1. PICK r \in Requests : Enter(t, "run_kio", [g EXCEPT !.plan = r.plan])
      BY <2>9 DEF Planned
    <3>2. r.plan \in PlanType
      BY EngineConstants
    <3>3. [g EXCEPT !.plan = r.plan] \in GraphState
      BY <2>3, <3>2 DEF GraphState
    <3>4. QED
      BY <2>1, <2>4, <3>1, <3>3, EnterAnswers DEF At
  <2>10. CASE Dispatch(t)
    <3>1. Inside(t) /\ Goto(t, "executing") /\ UNCHANGED graph /\ task[t].pc \in Working
      BY <2>10 DEF Dispatch, durableVars, At, Inside, RunPC, Node, Working
    <3>2. QED
      BY <2>2, <2>4, <3>1, GotoAnswers
  <2>11. CASE KioReturns(t)
    <3>1. PICK h : task' = [task EXCEPT ![t].pc = "registering", ![t].g = h]
      BY <2>11 DEF KioReturns
    <3>2. task[t] \in TaskType /\ task[t].pc \in Working /\ UNCHANGED graph
      BY <2>3, <2>11 DEF KioReturns, At, Working, durableVars
    <3>3. /\ task'[t].pc = "registering" /\ task'[t].of = s
          /\ task'[t].answer = task[t].answer
          /\ \A u \in Task : u # t => task'[u] = task[u]
      BY <2>3, <3>1, <3>2 DEF TaskType
    <3>4. Runs(t, s)
      BY <2>1, <2>11 DEF KioReturns, At, Inside, Runs
    <3>5. \A r \in Session : Runs(t, r)' => r = s
      BY <3>3 DEF Runs
    <3>6. ~Answered(s) => /\ task'[t].answer = "none"
                          /\ task'[t].pc \in Working => graph'[s].next = "run_kio"
      BY <2>3, <3>2, <3>3, <3>4 DEF AnswerInv
    <3>7. QED
      BY <3>2, <3>3, <3>4, <3>5, <3>6, AnswerFrame
  <2>12. CASE Backoff(t)
    <3>1. Inside(t) /\ Goto(t, "executing") /\ UNCHANGED graph /\ task[t].pc \in Working
      BY <2>12 DEF Backoff, durableVars, At, Inside, RunPC, Working
    <3>2. QED
      BY <2>2, <2>4, <3>1, GotoAnswers
  <2>13. CASE Register(t)
    <3>1. Inside(t) /\ Goto(t, "progress") /\ UNCHANGED graph /\ task[t].pc \in Working
      BY <2>13 DEF Register, At, Inside, RunPC, Working
    <3>2. QED
      BY <2>2, <2>4, <3>1, GotoAnswers
  <2>14. CASE Progress(t)
    <3> DEFINE h == [g EXCEPT !.artifacts = TRUE, !.rejected = FALSE]
    <3>1. h \in GraphState /\ Inside(t)
      BY <2>3, <2>14 DEF GraphState, Progress, At, Inside, RunPC
    <3>2. \/ Enter(t, IF Gated(h) THEN "hitl" ELSE "advance", h)
          \/ Raise(t) /\ UNCHANGED graph
      BY <2>14 DEF Progress
    <3> HIDE DEF h
    <3>3. QED
      BY <2>4, <3>1, <3>2, EnterAnswers, RaiseAnswers
  <2>15. CASE Hitl(t)
    <3>1. Runs(t, s) /\ graph' = [graph EXCEPT ![s] = graph'[s]]
      BY <2>1, <2>3, <2>15 DEF Hitl, Runs, At, Inside, RunPC, Node
    <3>2. \A r \in Session : Runs(t, r) \/ graph'[r] = graph[r]
      BY <2>3, <3>1
    <3>3. CASE task[t].answer = "none"
      <4>1. Goto(t, "checking") /\ Inside(t)
        BY <2>15, <3>3 DEF Hitl, At, Inside, RunPC, Node
      <4>2. "checking" \notin Working /\ "checking" \in RunPC
        BY DEF Working, RunPC
      <4>3. \A r \in Session : r # s => graph'[r] = graph[r]
        BY <2>3, <3>1
      <4>4. QED
        BY <2>2, <2>4, <4>1, <4>2, <4>3, GotoAnswers
    <3>4. CASE task[t].answer # "none"
      <4>1. Answered(s)
        BY <2>3, <3>1, <3>4 DEF AnswerInv
      <4>2. PICK h : task' = [task EXCEPT ![t] = [task[t] EXCEPT !.pc = "advance", !.g = h,
                                                                !.answer = "none"]]
        BY <2>15, <3>4 DEF Hitl
      <4>3. task[t] \in TaskType
        BY <2>3
      <4>4. /\ task'[t].pc = "advance" /\ task'[t].of = s
            /\ \A u \in Task : u # t => task'[u] = task[u]
        BY <2>3, <4>2, <4>3 DEF TaskType
      <4>5. \A r \in Session : Runs(t, r)' => r = s
        BY <4>4 DEF Runs
      <4>6. QED
        BY <3>1, <3>2, <4>1, <4>4, <4>5, AnswerFrame
    <3>5. QED
      BY <3>3, <3>4
  <2>16. CASE Advance(t)
    <3> DEFINE switched == [g EXCEPT !.retryPending = FALSE, !.override = TRUE,
                                     !.rejected = FALSE]
               refused == [g EXCEPT !.retryPending = FALSE]
               done == [g EXCEPT !.step = @ + 1]
    <3>1. switched \in GraphState
      BY <2>3 DEF GraphState
    <3>2. refused \in GraphState
      BY <2>3 DEF GraphState
    <3>3. g.step + 1 \in Nat
      BY <2>3 DEF GraphState
    <3>4. done \in GraphState
      BY <2>3, <3>3 DEF GraphState
    <3>5. \E h \in {switched, refused, done} : Enter(t, Continue(h), h)
      BY <2>16 DEF Advance
    <3>6. \A h : Continue(h) \in Node
      BY DEF Continue, Node
    <3>7. Inside(t)
      BY <2>16 DEF Advance, At, Inside, RunPC, Node
    <3> HIDE DEF switched, refused, done
    <3>8. QED
      BY <3>1, <3>2, <3>4, <3>5, <3>6, <3>7, EnterAnswers
  <2>17. CASE Complete(t)
    <3>1. /\ Goto(t, "checking") /\ Inside(t)
          /\ \A r \in Session : r # s => graph'[r] = graph[r]
      BY <2>3, <2>17 DEF Complete, At, Inside, RunPC, Node
    <3>2. "checking" \notin Working /\ "checking" \in RunPC
      BY DEF Working, RunPC
    <3>3. QED
      BY <2>2, <2>4, <3>1, <3>2, GotoAnswers
  <2>18. CASE Check(t)
    BY <2>2, <2>18, EndAnswers DEF Check, durableVars
  <2>19. CASE Unwind(t)
    <3>1. End(t) \/ \E p \in {"compensating", "compensated"} : Goto(t, p)
      BY <2>19 DEF Unwind
    <3>2. Inside(t) /\ UNCHANGED graph
      BY <2>19 DEF Unwind, UnwindStatus, Inside, RunPC
    <3>3. {"compensating", "compensated"} \cap (Working \cup {"spawned", "resolving"}) = {}
      BY DEF Working
    <3>4. QED
      BY <2>2, <2>4, <3>1, <3>2, <3>3, EndAnswers, GotoAnswers
  <2>20. QED
    BY <1>2, <2>5, <2>6, <2>7, <2>8, <2>9, <2>10, <2>11, <2>12, <2>13, <2>14, <2>15,
       <2>16, <2>17, <2>18, <2>19 DEF RunStep
<1>3. ASSUME NEW t \in Task, RunFault(t) PROVE AnswerInv'
  <2>1. Inside(t) /\ ~At(t, "idle")
    BY <1>3 DEF RunFault, At, Inside, RunPC, Node, NoCapableAgent, KioRaises,
       ProgressFails, HitlFails, CompleteFails
  <2>2. CASE NoCapableAgent(t) \/ ProgressFails(t) \/ HitlFails(t) \/ CompleteFails(t)
    <3>1. Raise(t) /\ UNCHANGED graph
      BY <2>2 DEF NoCapableAgent, ProgressFails, HitlFails, CompleteFails, durableVars
    <3>2. QED
      BY <2>1, <3>1, RaiseAnswers
  <2>3. CASE KioRaises(t)
    <3> DEFINE h == [task[t].g EXCEPT !.review = TRUE, !.rejected = FALSE,
                                      !.retryPending = TRUE]
    <3>1. \/ Goto(t, "backoff") /\ UNCHANGED graph
          \/ Enter(t, "hitl", h)
          \/ Raise(t) /\ UNCHANGED graph
      BY <2>3 DEF KioRaises
    <3>2. task[t].g \in GraphState
      BY <2>1, Known
    <3>3. h \in GraphState /\ "hitl" \in Node
      BY <3>2 DEF GraphState, Node
    <3>4. task[t].pc \in Working /\ "backoff" \in PC
      BY <2>3 DEF KioRaises, At, Working, PC, RunPC
    <3> HIDE DEF h
    <3>5. CASE Goto(t, "backoff") /\ UNCHANGED graph
      BY <2>1, <3>4, <3>5, GotoAnswers
    <3>6. CASE Enter(t, "hitl", h)
      BY <2>1, <3>3, <3>6, EnterAnswers
    <3>7. CASE Raise(t) /\ UNCHANGED graph
      BY <2>1, <3>7, RaiseAnswers
    <3>8. QED
      BY <3>1, <3>5, <3>6, <3>7
  <2>4. QED
    BY <1>3, <2>2, <2>3 DEF RunFault
<1>4. ASSUME NEW t \in Task, CallStep(t) PROVE AnswerInv'
  <2>1. ~At(t, "idle") /\ UNCHANGED graph
    BY <1>4 DEF CallStep, At, Resolve, ResolveFails, Cancelled, TimedOut, TimeoutFailed
  <2>2. CASE ResolveFails(t) \/ Cancelled(t) \/ TimeoutFailed(t)
    BY <2>1, <2>2, EndAnswers DEF ResolveFails, Cancelled, TimeoutFailed
  <2>3. CASE TimedOut(t)
    <3>1. Goto(t, "timed_out")
      BY <2>3 DEF TimedOut
    <3>2. "timed_out" \in PC /\ "timed_out" \notin RunPC \cup Working
      BY DEF PC, CancelPC, RunPC, Node, Working
    <3>3. QED
      BY <2>1, <3>1, <3>2, GotoAnswers
  <2>4. CASE Resolve(t)
    <3>1. /\ task \in [Task -> TaskType] /\ task[t].of \in Session
          /\ approval \in [Session -> [Kio -> {"none", "PENDING", "APPROVED"}]]
      BY <2>1, Known DEF TypeOK
    <3>2. PICK s \in Session : s = task[t].of
      BY <3>1
    <3>3. /\ Goto(t, "spawned") /\ At(t, "resolving")
          /\ approval' = [approval EXCEPT ![s][task[t].ck] = "APPROVED"]
      BY <2>4, <3>2 DEF Resolve
    <3>4. PICK k \in Kio : k = task[t].ck
      BY <3>3 DEF AnswerInv
    <3>5. approval'[s][k] = "APPROVED"
      BY <3>1, <3>3, <3>4
    <3>6. Answered(s)'
      BY <3>5 DEF Answered
    <3>7. "spawned" \in PC
      BY DEF PC
    <3>8. /\ task'[t].pc = "spawned" /\ task'[t].of = s
          /\ \A u \in Task : u # t => task'[u] = task[u]
      BY <3>1, <3>2, <3>3, <3>7, MoveTask
    <3>9. ASSUME NEW r \in Session, Runs(t, r)'
          PROVE  Answered(r)'
      <4>1. r = s
        BY <3>8, <3>9 DEF Runs
      <4>2. QED
        BY <3>6, <4>1
    <3>10. QED
      BY <2>1, <3>8, <3>9, AnswerFrame
  <2>5. QED
    BY <1>4, <2>2, <2>3, <2>4 DEF CallStep
<1>5. ASSUME NEW s \in Session, NEW t \in Task, ClientStep(s, t) PROVE AnswerInv'
  <2>1. task \in [Task -> TaskType] /\ UNCHANGED graph
    BY <1>5 DEF EngineInv, TypeOK, ClientStep, Run, Approve, Cancel, Expire, durableVars
  <2>2. ASSUME NEW x, task' = [task EXCEPT ![t] = x],
               x.pc \in {"cancelling", "timing_out", "resolving"},
               x.pc = "resolving" => x.ck \in Kio
        PROVE  AnswerInv'
    <3>1. task'[t] = x /\ \A u \in Task : u # t => task'[u] = task[u]
      BY <2>1, <2>2
    <3>2. x.pc \notin RunPC \cup {"spawned"}
      BY <2>2 DEF RunPC, Node
    <3>3. QED
      BY <2>1, <2>2, <3>1, <3>2, OtherAnswers
  <2>3. CASE Cancel(s, t)
    <3> DEFINE x == [IdleTask EXCEPT !.pc = "cancelling", !.of = s]
    <3>1. task' = [task EXCEPT ![t] = x] /\ x.pc = "cancelling"
      BY <2>3 DEF Cancel, IdleTask
    <3> HIDE DEF x
    <3>2. QED
      BY <2>2, <3>1
  <2>4. CASE Expire(s, t)
    <3> DEFINE x == [IdleTask EXCEPT !.pc = "timing_out", !.of = s]
    <3>1. task' = [task EXCEPT ![t] = x] /\ x.pc = "timing_out"
      BY <2>4 DEF Expire, IdleTask
    <3> HIDE DEF x
    <3>2. QED
      BY <2>2, <3>1
  <2>5. ASSUME NEW a, Approve(s, t, a) PROVE AnswerInv'
    <3> DEFINE x == [IdleTask EXCEPT !.pc = "resolving", !.of = s, !.answer = a,
                                     !.ck = active[s].pending]
    <3>1. /\ task' = [task EXCEPT ![t] = x]
          /\ x.pc = "resolving" /\ x.ck \in Kio
      BY <2>5 DEF Approve, IdleTask
    <3> HIDE DEF x
    <3>2. QED
      BY <2>2, <3>1
  <2>6. ASSUME NEW r \in Requests, NEW timed, Run(s, t, r, timed) PROVE AnswerInv'
    <3> DEFINE x == [IdleTask EXCEPT !.pc = "spawned", !.of = s, !.g = InitialState(r)]
    <3>1. /\ task' = [task EXCEPT ![t] = x] /\ db[s] = "none"
          /\ x.pc = "spawned" /\ x.of = s /\ x.answer = "none"
      BY <2>6 DEF Run, IdleTask
    <3> HIDE DEF x
    <3>2. task'[t] = x /\ \A u \in Task : u # t => task'[u] = task[u]
      BY <2>1, <3>1
    <3>3. \A u \in Task : ~Runs(u, s)
      BY <3>1 DEF EngineInv, TaskOK, Runs, At, RunPC, Node
    <3>4. \A q \in Session : Runs(t, q)' => q = s
      BY <3>1, <3>2 DEF Runs
    <3>5. task'[t].pc \notin Working /\ task'[t].pc # "resolving"
      BY <3>1, <3>2 DEF Working
    <3>6. QED
      BY <2>1, <3>1, <3>2, <3>3, <3>4, <3>5, AnswerFrame
  <2>7. QED
    BY <1>5, <2>3, <2>4, <2>5, <2>6 DEF ClientStep
<1>6. ASSUME NEW s \in Session, RunLost(s) PROVE AnswerInv'
  BY <1>1, <1>6 DEF RunLost
<1>7. CASE Restart
  <2>1. task' = [t \in Task |-> IdleTask] /\ IdleTask.pc = "idle"
    BY <1>7 DEF Restart, IdleTask
  <2>2. \A t \in Task : task'[t].pc = "idle"
    BY <2>1
  <2>3. "idle" \notin RunPC \cup {"spawned", "resolving"}
    BY DEF RunPC, Node
  <2>4. QED
    BY <2>2, <2>3 DEF AnswerInv, At, Runs
<1>8. CASE UNCHANGED vars
  BY <1>1, <1>8 DEF vars, durableVars
<1>9. QED
  BY <1>2, <1>3, <1>4, <1>5, <1>6, <1>7, <1>8 DEF Next
-----------------------------------------------------------------------------
(* The one step that takes a thread from the gate to the step behind it is *)
(* the hitl node of a run that carries an answer: every other node that    *)
(* writes a checkpoint writes another next node, or is inside a step that  *)
(* the checkpointer shows as running.                                      *)
LEMMA GateOpens ==
  ASSUME EngineInv, AnswerInv, [Next]_vars, NEW s \in Session,
         graph[s].next = "hitl", graph'[s].next = "advance"
  PROVE  Answered(s)
<1>1. /\ graph \in [Session -> Thread] /\ graph[s] \in Thread
      /\ task \in [Task -> TaskType]
  BY DEF EngineInv, TypeOK
<1>2. \E t \in Task : \/ Begin(t) \/ Plan(t) \/ Planned(t) \/ KioRaises(t)
                      \/ Progress(t) \/ Hitl(t) \/ Advance(t) \/ Complete(t)
  BY GraphWriters
<1>3. ASSUME NEW t \in Task, NEW p, NEW g, Enter(t, p, g)
      PROVE  p = "advance" /\ s = task[t].of
  BY <1>1, <1>3 DEF Enter
<1>4. ASSUME NEW t \in Task,
             Begin(t) \/ Plan(t) \/ Planned(t) \/ KioRaises(t) \/ Advance(t)
      PROVE  FALSE
  <2>1. \A g : Continue(g) # "advance"
    BY DEF Continue
  <2>2. Begin(t) => UNCHANGED graph \/ Enter(t, "plan", task[t].g)
    BY DEF Begin
  <2>3. Plan(t) => UNCHANGED graph \/ \E g : Enter(t, "run_kio", g)
    BY DEF Plan
  <2>4. Planned(t) => UNCHANGED graph \/ \E g : Enter(t, "run_kio", g)
    BY DEF Planned
  <2>5. KioRaises(t) => UNCHANGED graph \/ \E g : Enter(t, "hitl", g)
    BY DEF KioRaises
  <2>6. Advance(t) => \E g, h : Enter(t, Continue(h), g)
    BY DEF Advance
  <2>7. QED
    BY <1>3, <1>4, <2>1, <2>2, <2>3, <2>4, <2>5, <2>6
<1>5. ASSUME NEW t \in Task, Complete(t) PROVE FALSE
  BY <1>1, <1>5 DEF Complete
<1>6. ASSUME NEW t \in Task, Progress(t) PROVE Answered(s)
  <2>1. UNCHANGED graph \/ \E p, g : Enter(t, p, g)
    BY <1>6 DEF Progress
  <2>2. s = task[t].of
    BY <1>3, <2>1
  <2>3. Runs(t, s) /\ task[t].pc \in Working
    BY <1>6, <2>2 DEF Progress, At, Runs, Working, RunPC
  <2>4. ~Answered(s) => graph[s].next = "run_kio"
    BY <2>3 DEF AnswerInv
  <2>5. QED
    BY <2>4
<1>7. ASSUME NEW t \in Task, Hitl(t) PROVE Answered(s)
  <2>1. CASE task[t].of # s
    BY <1>1, <1>7, <2>1 DEF Hitl
  <2>2. CASE task[t].of = s /\ task[t].answer = "none"
    <3> DEFINE b == graph[s].paused \/ (graph[s].next = "hitl" /\ graph[s].g = task[t].g)
    <3>1. graph' = [graph EXCEPT ![s] = [graph[s] EXCEPT !.paused = b]]
      BY <1>7, <2>2 DEF Hitl
    <3> HIDE DEF b
    <3>2. graph'[s].next = graph[s].next
      BY <1>1, <3>1 DEF Thread
    <3>3. QED
      BY <3>2
  <2>3. CASE task[t].of = s /\ task[t].answer # "none"
    <3>1. Runs(t, s)
      BY <1>7, <2>3 DEF Hitl, At, Runs, RunPC, Node
    <3>2. QED
      BY <2>3, <3>1 DEF AnswerInv
  <2>4. QED
    BY <2>1, <2>2, <2>3
<1>8. QED
  BY <1>2, <1>4, <1>5, <1>6, <1>7

(* No gate opens on its own: a graph leaves the hitl node only after some  *)
(* human answer for that session was accepted, for any number of sessions, *)
(* tasks, faults and restarts and for clients of every kind.               *)
THEOREM GateNeedsAnswerAlways == Spec => GateNeedsAnswer
<1>1. Init => AnswerInv
  <2> SUFFICES ASSUME Init PROVE AnswerInv
    OBVIOUS
  <2>1. \A t \in Task : task[t].pc = "idle"
    BY DEF Init, IdleTask
  <2>2. "idle" \notin RunPC \cup {"spawned", "resolving"}
    BY DEF RunPC, Node
  <2>3. QED
    BY <2>1, <2>2 DEF AnswerInv, At, Runs
<1>2. EngineInv /\ AnswerInv /\ [Next]_vars => AnswerInv'
  BY AnswerStep
<1>3. EngineInv /\ AnswerInv /\ [Next]_vars =>
        [\A s \in Session :
           graph[s].next = "hitl" /\ graph'[s].next = "advance" =>
             \E k \in Kio : approval[s][k] = "APPROVED"]_vars
  BY GateOpens DEF Answered
<1>4. QED
  BY <1>1, <1>2, <1>3, EngineInvariant, PTL DEF Spec, GateNeedsAnswer

-----------------------------------------------------------------------------
(* The workflows *)

(* Clients that neither cancel nor approve too early and set no deadline,  *)
(* and a process that is not restarted, loses no replies and can always    *)
(* resolve a checkpoint.  Any other call may fail.                         *)
Polite == /\ ~Cancels /\ ~Impatient /\ ~LostReplies
          /\ "resolve_checkpoint" \notin Failing /\ MaxRestarts = 0

-----------------------------------------------------------------------------
(* Counting *)

Submitted == {s \in Session : active[s].submitted}

(* Only an entry counts as submitted. *)
NoGhosts == \A s \in Session : active[s].submitted => Live(s)

(* What a step does to the count and to the sessions that are counted. *)
Counts == \E s \in Session : /\ Submitted' = Submitted \cup {s} /\ s \notin Submitted
                             /\ workflows' = workflows + 1
Uncounts(t) == /\ task[t].pc \notin {"idle", "checking"}
               /\ Submitted' = Submitted \ {task[t].of}
               /\ workflows' = IF workflows > 0 THEN workflows - 1 ELSE 0
Recounts == Submitted' = Submitted /\ workflows' = workflows
Resets == Submitted' = {} /\ workflows' = 0

(* A new status or pending checkpoint does not change what is counted. *)
LEMMA CountSame ==
  ASSUME active \in [Session -> Entry], NoGhosts, UNCHANGED workflows,
         \/ UNCHANGED active
         \/ \E s, st : st # "none" /\ active' = SetStatus(s, st)
         \/ \E s, st, k : st # "none" /\ active' = SetPending(s, st, k)
         \/ \E s, st, k : /\ st # "none"
                         /\ active' = [active EXCEPT ![s].status = st, ![s].pending = k]
  PROVE  Recounts /\ NoGhosts'
<1>1. ASSUME NEW s, NEW st, st # "none", active' = SetStatus(s, st)
      PROVE  Recounts /\ NoGhosts'
  <2>1. ASSUME NEW r \in Session
        PROVE  active'[r].submitted = active[r].submitted /\ (Live(r) => Live(r)')
    <3>1. active[r] \in Entry
      OBVIOUS
    <3>2. active'[r] \in {active[r], [active[r] EXCEPT !.status = st]}
      BY <1>1 DEF SetStatus
    <3>3. QED
      BY <1>1, <3>1, <3>2 DEF Entry, Live
  <2>2. QED
    BY <1>1, <2>1 DEF Recounts, Submitted, NoGhosts
<1>2. ASSUME NEW s, NEW st, NEW k, st # "none",
             \/ active' = SetPending(s, st, k)
             \/ active' = [active EXCEPT ![s].status = st, ![s].pending = k]
      PROVE  Recounts /\ NoGhosts'
  <2>1. ASSUME NEW r \in Session
        PROVE  active'[r].submitted = active[r].submitted /\ (Live(r) => Live(r)')
    <3>1. active[r] \in Entry
      OBVIOUS
    <3>2. active'[r] \in {active[r], [active[r] EXCEPT !.status = st, !.pending = k]}
      BY <1>2 DEF SetPending
    <3>3. QED
      BY <1>2, <3>1, <3>2 DEF Entry, Live
  <2>2. QED
    BY <1>2, <2>1 DEF Recounts, Submitted, NoGhosts
<1>3. UNCHANGED active => Recounts /\ NoGhosts'
  BY DEF Recounts, Submitted, NoGhosts, Live
<1>4. QED
  BY <1>1, <1>2, <1>3

(* _cleanup_session with workflow_finished, and complete_node. *)
LEMMA CountDown ==
  ASSUME active \in [Session -> Entry], NoGhosts, NEW t \in Task, task[t].of \in Session,
         task[t].pc \notin {"idle", "checking"},
         active' = [active EXCEPT ![task[t].of] = NoEntry], OSM!WorkflowFinished
  PROVE  Uncounts(t) /\ NoGhosts'
<1>1. ~NoEntry.submitted
  BY DEF NoEntry
<1>2. Submitted' = Submitted \ {task[t].of} /\ NoGhosts'
  BY <1>1 DEF Submitted, NoGhosts, Live
<1>3. QED
  BY <1>2 DEF Uncounts, OSM!WorkflowFinished

(* Every step counts a new session, uncounts one, or leaves the count alone,
   but for a restart, which forgets all. *)
LEMMA CountEffects ==
  ASSUME EngineInv, NoGhosts, [Next]_vars
  PROVE  /\ NoGhosts'
         /\ Counts \/ Recounts \/ Resets \/ \E t \in Task : Uncounts(t)
<1>1. active \in [Session -> Entry] /\ db \in [Session -> DbState]
  BY DEF EngineInv, TypeOK
<1>2. ASSUME NEW t \in Task, RunStep(t) PROVE NoGhosts' /\ (Recounts \/ Uncounts(t))
  <2>1. CASE Complete(t)
    <3>1. At(t, "complete") /\ ~At(t, "idle")
      BY <2>1 DEF Complete, At
    <3>2. task[t].of \in Session /\ task[t].pc \notin {"idle", "checking"}
      BY <3>1, Known DEF At
    <3>3. QED
      BY <1>1, <2>1, <3>2, CountDown DEF Complete
  <2>2. CASE Unwind(t)
    <3>1. task[t].pc \in {"failing", "compensating", "compensated"}
      BY <2>2 DEF Unwind, UnwindStatus
    <3>2. task[t].of \in Session /\ task[t].pc \notin {"idle", "checking"}
      BY <3>1, Known DEF At
    <3>3. CASE Cleanup(task[t].of)
      BY <1>1, <3>2, <3>3, CountDown DEF Cleanup
    <3>4. CASE UNCHANGED <<active, orchVars>>
      BY <1>1, <3>4, CountSame DEF orchVars
    <3>5. QED
      BY <2>2, <3>3, <3>4 DEF Unwind
  <2>3. CASE Begin(t)
    BY <1>1, <2>3, CountSame DEF Begin, orchVars
  <2>4. CASE Plan(t)
    BY <1>1, <2>4, CountSame DEF Plan, orchVars
  <2>5. CASE Planned(t)
    BY <1>1, <2>5, CountSame DEF Planned, orchVars
  <2>6. CASE Dispatch(t)
    BY <1>1, <2>6, CountSame DEF Dispatch, orchVars
  <2>7. CASE KioReturns(t)
    BY <1>1, <2>7, CountSame DEF KioReturns, orchVars
  <2>8. CASE Backoff(t)
    BY <1>1, <2>8, CountSame DEF Backoff, orchVars
  <2>9. CASE Register(t)
    BY <1>1, <2>9, CountSame DEF Register, orchVars
  <2>10. CASE Progress(t)
    BY <1>1, <2>10, CountSame DEF Progress, Raise, orchVars
  <2>11. CASE Hitl(t)
    BY <1>1, <2>11, CountSame DEF Hitl, orchVars
  <2>12. CASE Advance(t)
    BY <1>1, <2>12, CountSame DEF Advance, orchVars
  <2>13. CASE Check(t)
    BY <1>1, <2>13, CountSame DEF Check, orchVars
  <2>14. QED
    BY <1>2, <2>1, <2>2, <2>3, <2>4, <2>5, <2>6, <2>7, <2>8, <2>9, <2>10, <2>11, <2>12,
       <2>13 DEF RunStep
<1>3. ASSUME NEW t \in Task, RunFault(t) PROVE NoGhosts' /\ Recounts
  <2>1. /\ UNCHANGED workflows
        /\ UNCHANGED active \/ Raise(t)
    BY <1>3 DEF RunFault, NoCapableAgent, KioRaises, ProgressFails, HitlFails, CompleteFails,
       orchVars
  <2>2. QED
    BY <1>1, <2>1, CountSame DEF Raise
<1>4. ASSUME NEW t \in Task, CallStep(t) PROVE NoGhosts' /\ (Recounts \/ Uncounts(t))
  <2>1. CASE Resolve(t) \/ ResolveFails(t)
    BY <1>1, <2>1, CountSame DEF Resolve, ResolveFails, orchVars
  <2>2. CASE TimedOut(t)
    BY <1>1, <2>2, CountSame DEF TimedOut, orchVars
  <2>3. CASE Cancelled(t) \/ TimeoutFailed(t)
    <3>1. Cleanup(task[t].of) /\ task[t].pc \in {"cancelling", "timed_out"}
      BY <2>3 DEF Cancelled, TimeoutFailed, At
    <3>2. task[t].of \in Session /\ task[t].pc \notin {"idle", "checking"}
      BY <3>1, Known DEF At
    <3>3. QED
      BY <1>1, <3>1, <3>2, CountDown DEF Cleanup
  <2>4. QED
    BY <1>4, <2>1, <2>2, <2>3 DEF CallStep
<1>5. ASSUME NEW s \in Session, NEW t \in Task, ClientStep(s, t)
      PROVE  NoGhosts' /\ (Recounts \/ Counts)
  <2>1. ASSUME NEW r, NEW timed, Run(s, t, r, timed) PROVE NoGhosts' /\ Counts
    <3>1. ~Live(s)
      BY <2>1 DEF EngineInv, SessionOK, Run
    <3>2. ~active[s].submitted
      BY <3>1 DEF NoGhosts
    <3>3. Submitted' = Submitted \cup {s} /\ NoGhosts'
      BY <1>1, <2>1 DEF Run, Submitted, NoGhosts, Live
    <3>4. QED
      BY <2>1, <3>2, <3>3 DEF Counts, Submitted, Run, OSM!WorkflowSubmitted
  <2>2. ASSUME NEW a, Approve(s, t, a) PROVE NoGhosts' /\ Recounts
    BY <1>1, <2>2, CountSame DEF Approve, orchVars
  <2>3. CASE Cancel(s, t)
    BY <1>1, <2>3, CountSame DEF Cancel, orchVars
  <2>4. CASE Expire(s, t)
    BY <1>1, <2>4, CountSame DEF Expire, orchVars
  <2>5. QED
    BY <1>5, <2>1, <2>2, <2>3, <2>4 DEF ClientStep
<1>6. ASSUME NEW s \in Session, RunLost(s) PROVE NoGhosts' /\ Recounts
  BY <1>1, <1>6, CountSame DEF RunLost, orchVars
<1>7. UNCHANGED vars => NoGhosts' /\ Recounts
  BY <1>1, CountSame DEF vars, orchVars
<1>8. CASE Restart
  <2>1. PICK loaded \in SUBSET {s \in Session : Rehydratable(s)} :
          active' = [s \in Session |-> IF s \in loaded THEN RestoredEntry(s) ELSE NoEntry]
    BY <1>8 DEF Restart
  <2>2. \A s \in Session : ~active'[s].submitted
    BY <2>1 DEF RestoredEntry, NoEntry
  <2>3. QED
    BY <1>8, <2>2 DEF Restart, NoGhosts, Resets, Submitted
<1>9. QED
  BY <1>2, <1>3, <1>4, <1>5, <1>6, <1>7, <1>8 DEF Next

(* What is counted is finite, and the count does not exceed it. *)
CountInv ==
  /\ NoGhosts
  /\ workflows \in Nat
  /\ IsFiniteSet(Submitted)
  /\ workflows <= Cardinality(Submitted)

(* Every step keeps the count below what is running. *)
LEMMA CountStep == ASSUME EngineInv, CountInv, [Next]_vars PROVE CountInv'
<1>1. /\ NoGhosts'
      /\ Counts \/ Recounts \/ Resets \/ \E t \in Task : Uncounts(t)
  BY CountEffects DEF CountInv
<1>2. /\ workflows \in Nat /\ IsFiniteSet(Submitted) /\ Cardinality(Submitted) \in Nat
      /\ workflows <= Cardinality(Submitted)
  BY FS_CardinalityType DEF CountInv
<1>3. CASE Counts
  <2>1. PICK s \in Session : /\ Submitted' = Submitted \cup {s} /\ s \notin Submitted
                             /\ workflows' = workflows + 1
    BY <1>3 DEF Counts
  <2>2. /\ IsFiniteSet(Submitted \cup {s})
        /\ Cardinality(Submitted \cup {s}) = Cardinality(Submitted) + 1
    BY <1>2, <2>1, FS_AddElement
  <2>3. QED
    BY <1>1, <1>2, <2>1, <2>2 DEF CountInv
<1>4. ASSUME NEW t \in Task, Uncounts(t) PROVE CountInv'
  <2> DEFINE s == task[t].of
  <2>1. /\ Submitted' = Submitted \ {s}
        /\ workflows' = IF workflows > 0 THEN workflows - 1 ELSE 0
    BY <1>4 DEF Uncounts
  <2>2. /\ IsFiniteSet(Submitted \ {s}) /\ Cardinality(Submitted \ {s}) \in Nat
        /\ Cardinality(Submitted \ {s}) =
             IF s \in Submitted THEN Cardinality(Submitted) - 1 ELSE Cardinality(Submitted)
    BY <1>2, FS_RemoveElement, FS_CardinalityType
  <2>3. workflows' \in Nat /\ workflows' <= Cardinality(Submitted \ {s})
    BY <1>2, <2>1, <2>2
  <2>4. QED
    BY <1>1, <2>1, <2>2, <2>3 DEF CountInv
<1>5. CASE Recounts
  BY <1>1, <1>2, <1>5 DEF CountInv, Recounts
<1>6. CASE Resets
  BY <1>1, <1>6, FS_EmptySet DEF CountInv, Resets
<1>7. QED
  BY <1>1, <1>3, <1>4, <1>5, <1>6

(* Whatever clients, faults and restarts do, the orchestrator never counts *)
(* a workflow that is gone: a session is counted when it is submitted, and *)
(* every way out of the engine takes at least its own count away.          *)
THEOREM NoPhantomWorkAlways == Spec => []NoPhantomWork
<1>1. Init => CountInv
  <2>1. ASSUME Init PROVE Submitted = {} /\ workflows = 0 /\ NoGhosts
    BY <2>1 DEF Init, Submitted, NoEntry, NoGhosts, OSM!OrchInit
  <2>2. QED
    BY <2>1, FS_EmptySet DEF CountInv
<1>2. EngineInv /\ CountInv /\ [Next]_vars => CountInv'
  BY CountStep
<1>3. CountInv => NoPhantomWork
  BY DEF CountInv, NoPhantomWork, Submitted
<1>4. QED
  BY <1>1, <1>2, <1>3, EngineInvariant, PTL DEF Spec
-----------------------------------------------------------------------------
(* Polite clients *)

(* An entry of a polite client: nothing but its own run can end it. *)
EntryOK(s) ==
  /\ Live(s) <=> active[s].submitted
  /\ ~active[s].deadline /\ ~active[s].artifacts
  /\ active[s].submitted => db[s] \notin Terminal

(* The graph of the session was never started. *)
Fresh(s) == graph[s].next = "none" /\ graph[s].g.step = 0

(* A session that no task works on *)
FreeOK(s) ==
  /\ lock[s] = NoTask
  /\ active[s].submitted => Approvable(s)
  /\ db[s] = "none" => Fresh(s)

(* A task waits for its turn until it is inside, and inside the checkpoint *)
(* is the one it entered its node with.                                    *)
Waiting == {"spawned", "resolving"}
Planning == {"plan", "planning"}
Running == {"run_kio", "executing", "backoff", "registering", "progress"}
Exact == {"hitl", "advance", "complete"}

OwnedOK(t) ==
  LET s == task[t].of
      p == task[t].pc
      g == task[t].g
  IN
  /\ p \in Waiting \cup Planning \cup Running \cup Exact \cup {"checking", "failing"}
  /\ ~task[t].undo
  /\ active[s].submitted \/ p = "checking"
  /\ active[s].status # "PENDING_REVIEW"
  /\ lock[s] = IF p \in Waiting THEN NoTask ELSE t
  /\ p \in Waiting => IF task[t].answer = "none" THEN Fresh(s) ELSE graph[s].paused
  /\ p \in Planning => graph[s].next = "plan" /\ graph[s].g.step = g.step
  /\ p \in Running => graph[s].next = "run_kio" /\ graph[s].g.step = g.step
  /\ p \in Exact => graph[s].next = p /\ graph[s].g = g
  /\ p = "advance" => HasKio(g)
  /\ p = "complete" => ~HasKio(g)
  /\ p = "checking" => graph[s].paused \/ ~active[s].submitted

(* Idle tasks are blank, and a session has one task at a time. *)
TasksOK ==
  /\ \A t \in Task : At(t, "idle") => task[t] = IdleTask
  /\ \A t, u \in Task : ~At(t, "idle") /\ task[t].of = task[u].of => t = u

PoliteInv ==
  /\ TasksOK
  /\ \A s \in Session : EntryOK(s) /\ (~Owned(s) => FreeOK(s))
  /\ \A t \in Task : ~At(t, "idle") => OwnedOK(t)

(* What a step of task t for session s leaves alone. *)
Only(t, s) ==
  /\ \A u \in Task : u # t => task'[u] = task[u]
  /\ \A r \in Session : r # s => /\ active'[r] = active[r] /\ lock'[r] = lock[r]
                                 /\ graph'[r] = graph[r] /\ db'[r] = db[r]

(* The session is the task's own, or becomes it. *)
Mine(t, s) == task[t].of = s \/ (At(t, "idle") /\ ~Owned(s))

(* What a step leaves behind: a task at work, or a session on its own. *)
Leaves(t, s) == \/ ~At(t, "idle")' /\ task'[t].of = s /\ OwnedOK(t)'
                \/ task'[t] = IdleTask /\ FreeOK(s)'

(* A step for one session is looked at for that session only. *)
LEMMA PoliteFrame ==
  ASSUME EngineInv, PoliteInv, NEW t \in Task, NEW s \in Session,
         Only(t, s), Mine(t, s), EntryOK(s)', Leaves(t, s)
  PROVE  PoliteInv'
<1>1. IdleTask.of = NoSession /\ NoSession \notin Session /\ IdleTask.pc = "idle"
  BY EngineConstants DEF IdleTask
<1>2. \A u \in Task : /\ At(u, "idle") => task[u] = IdleTask
                      /\ ~At(u, "idle") => task[u].of \in Session
  BY DEF PoliteInv, TasksOK, EngineInv, TaskOK
<1>3. \A u \in Task : u # t => task[u].of # s
  BY <1>1, <1>2 DEF Mine, Owned, PoliteInv, TasksOK
<1>4. TasksOK'
  BY <1>1, <1>2, <1>3 DEF PoliteInv, TasksOK, Only, Leaves, At
<1>5. ASSUME NEW r \in Session, r # s
      PROVE  EntryOK(r)' /\ (~Owned(r)' => FreeOK(r)')
  <2>1. EntryOK(r)'
    BY <1>5 DEF PoliteInv, EntryOK, Only, Live
  <2>2. task[t].of # r /\ task'[t].of # r
    BY <1>1, <1>2, <1>5 DEF Mine, Leaves
  <2>3. Owned(r)' <=> Owned(r)
    BY <2>2 DEF Owned, Only
  <2>4. FreeOK(r) => FreeOK(r)'
    BY <1>5 DEF Only, FreeOK, Approvable, Fresh
  <2>5. QED
    BY <2>1, <2>3, <2>4 DEF PoliteInv
<1>6. ~Owned(s)' => FreeOK(s)'
  BY DEF Leaves, Owned
<1>7. ASSUME NEW u \in Task, ~At(u, "idle")' PROVE OwnedOK(u)'
  <2>1. CASE u = t
    BY <1>1, <1>7, <2>1 DEF Leaves, At
  <2>2. CASE u # t
    <3>1. task'[u] = task[u] /\ task[u].of \in Session /\ task[u].of # s /\ OwnedOK(u)
      BY <1>2, <1>3, <1>7, <2>2 DEF Only, PoliteInv, At
    <3>2. QED
      BY <3>1 DEF Only, OwnedOK, Fresh
  <2>3. QED
    BY <2>1, <2>2
<1>8. QED
  BY <1>4, <1>5, <1>6, <1>7 DEF PoliteInv

-----------------------------------------------------------------------------
(* The steps of GatedPipeline, for one session *)

(* The session stays where it is. *)
Stays(s) == /\ graph'[s].next = graph[s].next /\ graph'[s].g.step = graph[s].g.step
            /\ GateOf(s)' = GateOf(s)

(* The session moves on, while it is open. *)
MovesOn(s, from, to) ==
  /\ graph[s].next = from /\ graph'[s].next = to
  /\ OutcomeOf(s) = "open"

Turn(s) ==
  \/ /\ Stays(s) /\ OutcomeOf(s)' = OutcomeOf(s)
     /\ \/ CarriesAnswer(s)' = CarriesAnswer(s)
        \/ CarriesAnswer(s) /\ ~CarriesAnswer(s)'
        \/ /\ ~CarriesAnswer(s) /\ CarriesAnswer(s)'
           /\ graph[s].next = "hitl" /\ OutcomeOf(s) = "open"
  \/ Stays(s) /\ OutcomeOf(s) = "open" /\ OutcomeOf(s)' = "failed" /\ ~CarriesAnswer(s)'
  \/ /\ CarriesAnswer(s)' = CarriesAnswer(s) /\ OutcomeOf(s)' = OutcomeOf(s)
     /\ graph'[s].g.step = graph[s].g.step
     /\ \/ MovesOn(s, "none", "plan") \/ MovesOn(s, "plan", "run_kio")
        \/ MovesOn(s, "run_kio", "hitl")
        \/ MovesOn(s, "run_kio", "advance") /\ ~GateOf(s)'
        \/ MovesOn(s, "advance", "run_kio") /\ GateOf(s)' = GateOf(s)
  \/ /\ CarriesAnswer(s) /\ ~CarriesAnswer(s)' /\ OutcomeOf(s)' = OutcomeOf(s)
     /\ MovesOn(s, "hitl", "advance") /\ graph'[s].g.step = graph[s].g.step
     /\ GateOf(s)' = GateOf(s)
  \/ /\ CarriesAnswer(s)' = CarriesAnswer(s) /\ OutcomeOf(s)' = OutcomeOf(s)
     /\ \E to \in {"run_kio", "complete"} : MovesOn(s, "advance", to)
     /\ graph'[s].g.step = graph[s].g.step + 1
  \/ /\ CarriesAnswer(s)' = CarriesAnswer(s) /\ OutcomeOf(s)' = "completed"
     /\ MovesOn(s, "complete", "end") /\ graph'[s].g.step = graph[s].g.step
     /\ GateOf(s)' = GateOf(s)

(* A turn of one session is a step of GatedPipeline. *)
LEMMA TurnIsPromised ==
  ASSUME NEW t \in Task, NEW s \in Session, Only(t, s),
         task[t].of \in {s, NoSession}, task'[t].of \in {s, NoSession}, Turn(s)
  PROVE  Promise!PipelineNext \/ UNCHANGED Promise!pipelineVars
<1> DEFINE St == [r \in Session |-> graph[r].next]
           Sp == [r \in Session |-> graph[r].g.step]
           Ga == [r \in Session |-> GateOf(r)]
           Gr == [r \in Session |-> CarriesAnswer(r)]
           Ou == [r \in Session |-> OutcomeOf(r)]
<1>1. ASSUME NEW r \in Session, r # s
      PROVE  /\ graph'[r] = graph[r] /\ GateOf(r)' = GateOf(r)
             /\ CarriesAnswer(r)' = CarriesAnswer(r) /\ OutcomeOf(r)' = OutcomeOf(r)
  <2>1. graph'[r] = graph[r] /\ db'[r] = db[r]
    BY <1>1 DEF Only
  <2>2. task[t].of # r /\ task'[t].of # r
    BY <1>1, EngineConstants
  <2>3. CarriesAnswer(r)' = CarriesAnswer(r)
    BY <2>2 DEF CarriesAnswer, Only
  <2>4. QED
    BY <2>1, <2>3 DEF GateOf, OutcomeOf
<1>2. GateOf(s) \in BOOLEAN /\ GateOf(s)' \in BOOLEAN
  BY DEF GateOf
<1>3. CarriesAnswer(s) \in BOOLEAN /\ CarriesAnswer(s)' \in BOOLEAN
  BY DEF CarriesAnswer
<1>4. /\ St' = [St EXCEPT ![s] = graph'[s].next]
      /\ Sp' = [Sp EXCEPT ![s] = graph'[s].g.step]
  BY <1>1
<1>5. Ga' = [Ga EXCEPT ![s] = GateOf(s)']
  BY <1>1
<1>6. Gr' = [Gr EXCEPT ![s] = CarriesAnswer(s)']
  BY <1>1
<1>7. Ou' = [Ou EXCEPT ![s] = OutcomeOf(s)']
  BY <1>1
<1>8. /\ graph'[s].next = graph[s].next => UNCHANGED St
      /\ graph'[s].g.step = graph[s].g.step => UNCHANGED Sp
      /\ OutcomeOf(s)' = OutcomeOf(s) => UNCHANGED Ou
  BY <1>1
<1>9. GateOf(s)' = GateOf(s) => UNCHANGED Ga
  BY <1>1
<1>10. CarriesAnswer(s)' = CarriesAnswer(s) => UNCHANGED Gr
  BY <1>1
<1>11. /\ St[s] = graph[s].next /\ Sp[s] = graph[s].g.step /\ Ou[s] = OutcomeOf(s)
       /\ Ga[s] = GateOf(s) /\ Gr[s] = CarriesAnswer(s)
  OBVIOUS
<1> HIDE DEF St, Sp, Ga, Gr, Ou
<1>12. CASE Stays(s) /\ OutcomeOf(s)' = OutcomeOf(s) /\ CarriesAnswer(s)' = CarriesAnswer(s)
  <2>1. /\ UNCHANGED <<St, Sp, Ga, Gr, Ou>>
    BY <1>2, <1>3, <1>4, <1>5, <1>6, <1>7, <1>8, <1>9, <1>10, <1>11, <1>12
       DEF Stays, MovesOn
  <2>2. UNCHANGED Promise!pipelineVars
    BY <2>1 DEF Promise!pipelineVars, St, Sp, Ga, Gr, Ou
  <2>3. QED
    BY <2>2 DEF Promise!PipelineNext
<1>13. CASE /\ Stays(s) /\ OutcomeOf(s)' = OutcomeOf(s)
           /\ CarriesAnswer(s) /\ ~CarriesAnswer(s)'
  <2>1. /\ UNCHANGED <<St, Sp, Ga, Ou>>
        /\ Gr[s]
        /\ Gr' = [Gr EXCEPT ![s] = FALSE]
    BY <1>2, <1>3, <1>4, <1>5, <1>6, <1>7, <1>8, <1>9, <1>10, <1>11, <1>13
       DEF Stays, MovesOn
  <2>2. Promise!Withdraw(s)
    BY <2>1 DEF Promise!Withdraw, St, Sp, Ga, Gr, Ou
  <2>3. QED
    BY <2>2 DEF Promise!PipelineNext
<1>14. CASE /\ Stays(s) /\ OutcomeOf(s)' = OutcomeOf(s)
           /\ ~CarriesAnswer(s) /\ CarriesAnswer(s)'
          /\ graph[s].next = "hitl" /\ OutcomeOf(s) = "open"
  <2>1. /\ UNCHANGED <<St, Sp, Ga, Ou>>
        /\ ~Gr[s] /\ St[s] = "hitl" /\ Ou[s] = "open"
        /\ Gr' = [Gr EXCEPT ![s] = TRUE]
    BY <1>2, <1>3, <1>4, <1>5, <1>6, <1>7, <1>8, <1>9, <1>10, <1>11, <1>14
       DEF Stays, MovesOn
  <2>2. Promise!Answer(s)
    BY <2>1 DEF Promise!Answer, St, Sp, Ga, Gr, Ou
  <2>3. QED
    BY <2>2 DEF Promise!PipelineNext
<1>15. CASE /\ Stays(s) /\ OutcomeOf(s) = "open" /\ OutcomeOf(s)' = "failed"
           /\ ~CarriesAnswer(s)'
  <2>1. /\ UNCHANGED <<St, Sp, Ga>>
        /\ Ou[s] = "open"
        /\ Ou' = [Ou EXCEPT ![s] = "failed"]
        /\ Gr' = [Gr EXCEPT ![s] = FALSE]
    BY <1>2, <1>3, <1>4, <1>5, <1>6, <1>7, <1>8, <1>9, <1>10, <1>11, <1>15
       DEF Stays, MovesOn
  <2>2. Promise!Abort(s)
    BY <2>1 DEF Promise!Abort, St, Sp, Ga, Gr, Ou
  <2>3. QED
    BY <2>2 DEF Promise!PipelineNext
<1>16. CASE /\ CarriesAnswer(s)' = CarriesAnswer(s) /\ OutcomeOf(s)' = OutcomeOf(s)
          /\ graph'[s].g.step = graph[s].g.step
          /\ MovesOn(s, "none", "plan")
  <2>1. /\ UNCHANGED <<Sp, Gr, Ou>>
        /\ Ou[s] = "open" /\ St[s] = "none"
        /\ St' = [St EXCEPT ![s] = "plan"]
        /\ \E b \in BOOLEAN : Ga' = [Ga EXCEPT ![s] = b]
    BY <1>2, <1>3, <1>4, <1>5, <1>6, <1>7, <1>8, <1>9, <1>10, <1>11, <1>16
       DEF Stays, MovesOn
  <2>2. Promise!Start(s)
    BY <2>1 DEF Promise!Start, Promise!Move, Promise!Regate, St, Sp, Ga, Gr, Ou
  <2>3. QED
    BY <2>2 DEF Promise!PipelineNext
<1>17. CASE /\ CarriesAnswer(s)' = CarriesAnswer(s) /\ OutcomeOf(s)' = OutcomeOf(s)
          /\ graph'[s].g.step = graph[s].g.step
          /\ MovesOn(s, "plan", "run_kio")
  <2>1. /\ UNCHANGED <<Sp, Gr, Ou>>
        /\ Ou[s] = "open" /\ St[s] = "plan"
        /\ St' = [St EXCEPT ![s] = "run_kio"]
        /\ \E b \in BOOLEAN : Ga' = [Ga EXCEPT ![s] = b]
    BY <1>2, <1>3, <1>4, <1>5, <1>6, <1>7, <1>8, <1>9, <1>10, <1>11, <1>17
       DEF Stays, MovesOn
  <2>2. Promise!Schedule(s)
    BY <2>1 DEF Promise!Schedule, Promise!Move, Promise!Regate, St, Sp, Ga, Gr, Ou
  <2>3. QED
    BY <2>2 DEF Promise!PipelineNext
<1>18. CASE /\ CarriesAnswer(s)' = CarriesAnswer(s) /\ OutcomeOf(s)' = OutcomeOf(s)
          /\ graph'[s].g.step = graph[s].g.step
          /\ MovesOn(s, "run_kio", "hitl")
  <2>1. /\ UNCHANGED <<Sp, Gr, Ou>>
        /\ Ou[s] = "open" /\ St[s] = "run_kio"
        /\ St' = [St EXCEPT ![s] = "hitl"]
        /\ \E b \in BOOLEAN : Ga' = [Ga EXCEPT ![s] = b]
    BY <1>2, <1>3, <1>4, <1>5, <1>6, <1>7, <1>8, <1>9, <1>10, <1>11, <1>18
       DEF Stays, MovesOn
  <2>2. Promise!Deliver(s)
    BY <2>1 DEF Promise!Deliver, Promise!Move, Promise!Regate, St, Sp, Ga, Gr, Ou
  <2>3. QED
    BY <2>2 DEF Promise!PipelineNext
<1>19. CASE /\ CarriesAnswer(s)' = CarriesAnswer(s) /\ OutcomeOf(s)' = OutcomeOf(s)
          /\ graph'[s].g.step = graph[s].g.step
          /\ MovesOn(s, "run_kio", "advance") /\ ~GateOf(s)'
  <2>1. /\ UNCHANGED <<Sp, Gr, Ou>>
        /\ Ou[s] = "open" /\ St[s] = "run_kio"
        /\ St' = [St EXCEPT ![s] = "advance"]
        /\ Ga' = [Ga EXCEPT ![s] = FALSE]
    BY <1>2, <1>3, <1>4, <1>5, <1>6, <1>7, <1>8, <1>9, <1>10, <1>11, <1>19
       DEF Stays, MovesOn
  <2>2. Promise!Deliver(s)
    BY <2>1 DEF Promise!Deliver, Promise!Move, St, Sp, Ga, Gr, Ou
  <2>3. QED
    BY <2>2 DEF Promise!PipelineNext
<1>20. CASE /\ CarriesAnswer(s)' = CarriesAnswer(s) /\ OutcomeOf(s)' = OutcomeOf(s)
          /\ graph'[s].g.step = graph[s].g.step
          /\ MovesOn(s, "advance", "run_kio") /\ GateOf(s)' = GateOf(s)
  <2>1. /\ UNCHANGED <<Sp, Ga, Gr, Ou>>
        /\ Ou[s] = "open" /\ St[s] = "advance"
        /\ St' = [St EXCEPT ![s] = "run_kio"]
    BY <1>2, <1>3, <1>4, <1>5, <1>6, <1>7, <1>8, <1>9, <1>10, <1>11, <1>20
       DEF Stays, MovesOn
  <2>2. Promise!Repeat(s)
    BY <2>1 DEF Promise!Repeat, Promise!Move, St, Sp, Ga, Gr, Ou
  <2>3. QED
    BY <2>2 DEF Promise!PipelineNext
<1>21. CASE /\ CarriesAnswer(s) /\ ~CarriesAnswer(s)' /\ OutcomeOf(s)' = OutcomeOf(s)
          /\ MovesOn(s, "hitl", "advance")
          /\ graph'[s].g.step = graph[s].g.step /\ GateOf(s)' = GateOf(s)
  <2>1. /\ UNCHANGED <<Sp, Ga, Ou>>
        /\ Ou[s] = "open" /\ St[s] = "hitl"
        /\ St' = [St EXCEPT ![s] = "advance"]
        /\ Gr[s] /\ Gr' = [Gr EXCEPT ![s] = FALSE]
    BY <1>2, <1>3, <1>4, <1>5, <1>6, <1>7, <1>8, <1>9, <1>10, <1>11, <1>21
       DEF Stays, MovesOn
  <2>2. Promise!Release(s)
    BY <2>1 DEF Promise!Release, Promise!Move, St, Sp, Ga, Gr, Ou
  <2>3. QED
    BY <2>2 DEF Promise!PipelineNext
<1>22. CASE /\ CarriesAnswer(s)' = CarriesAnswer(s) /\ OutcomeOf(s)' = OutcomeOf(s)
          /\ \E to \in {"run_kio", "complete"} : MovesOn(s, "advance", to)
          /\ graph'[s].g.step = graph[s].g.step + 1
  <2>1. /\ UNCHANGED <<Gr, Ou>>
        /\ Ou[s] = "open" /\ St[s] = "advance"
        /\ \E to \in {"run_kio", "complete"} : St' = [St EXCEPT ![s] = to]
        /\ Sp' = [Sp EXCEPT ![s] = @ + 1]
        /\ \E b \in BOOLEAN : Ga' = [Ga EXCEPT ![s] = b]
    BY <1>2, <1>3, <1>4, <1>5, <1>6, <1>7, <1>8, <1>9, <1>10, <1>11, <1>22
       DEF Stays, MovesOn
  <2>2. Promise!Pass(s)
    BY <2>1 DEF Promise!Pass, Promise!Move, Promise!Regate, St, Sp, Ga, Gr, Ou
  <2>3. QED
    BY <2>2 DEF Promise!PipelineNext
<1>23. CASE /\ CarriesAnswer(s)' = CarriesAnswer(s) /\ OutcomeOf(s)' = "completed"
          /\ MovesOn(s, "complete", "end")
          /\ graph'[s].g.step = graph[s].g.step /\ GateOf(s)' = GateOf(s)
  <2>1. /\ UNCHANGED <<Sp, Ga, Gr>>
        /\ Ou[s] = "open" /\ St[s] = "complete"
        /\ St' = [St EXCEPT ![s] = "end"]
        /\ Ou' = [Ou EXCEPT ![s] = "completed"]
    BY <1>2, <1>3, <1>4, <1>5, <1>6, <1>7, <1>8, <1>9, <1>10, <1>11, <1>23
       DEF Stays, MovesOn
  <2>2. Promise!Finish(s)
    BY <2>1 DEF Promise!Finish, Promise!Move, St, Sp, Ga, Gr, Ou
  <2>3. QED
    BY <2>2 DEF Promise!PipelineNext
<1>24. QED
  BY <1>12, <1>13, <1>14, <1>15, <1>16, <1>17, <1>18, <1>19, <1>20, <1>21,
     <1>22, <1>23 DEF Turn
-----------------------------------------------------------------------------
(* Steps of one session *)

(* All that has to be known of a step of task t for session s. *)
Takes(t, s) == Only(t, s) /\ Mine(t, s) /\ EntryOK(s)' /\ Leaves(t, s) /\ Turn(s)

(* A step that takes a session properly keeps the invariant and the promise. *)
LEMMA TakesKeeps ==
  ASSUME EngineInv, PoliteInv, NEW t \in Task, NEW s \in Session, Takes(t, s)
  PROVE  PoliteInv' /\ (Promise!PipelineNext \/ UNCHANGED Promise!pipelineVars)
<1>1. PoliteInv'
  BY PoliteFrame DEF Takes
<1>2. IdleTask.of = NoSession
  BY DEF IdleTask
<1>3. task[t].of \in {s, NoSession} /\ task'[t].of \in {s, NoSession}
  BY <1>2 DEF Takes, Mine, Leaves, PoliteInv, TasksOK
<1>4. QED
  BY <1>1, <1>3, TurnIsPromised DEF Takes

(* What a task at work knows. *)
LEMMA Own ==
  ASSUME EngineInv, PoliteInv, NEW t \in Task, ~At(t, "idle")
  PROVE  /\ TypeOK /\ TaskOK(t) /\ OwnedOK(t)
         /\ task[t].of \in Session /\ Mine(t, task[t].of)
         /\ EntryOK(task[t].of) /\ SessionOK(task[t].of)
BY Known DEF PoliteInv, Mine

(* The answer for a session is the one its only task carries. *)
LEMMA AnswerOfTask ==
  ASSUME EngineInv, PoliteInv, NEW t \in Task, NEW s \in Session,
         Only(t, s), Mine(t, s), Leaves(t, s)
  PROVE  /\ CarriesAnswer(s) = (task[t].answer # "none")
         /\ CarriesAnswer(s)' = (task'[t].answer # "none")
<1>1. IdleTask.of = NoSession /\ NoSession \notin Session /\ IdleTask.answer = "none"
  BY EngineConstants DEF IdleTask
<1>2. \A u \in Task : /\ At(u, "idle") => task[u] = IdleTask
                      /\ ~At(u, "idle") => task[u].of \in Session
  BY DEF PoliteInv, TasksOK, EngineInv, TaskOK
<1>3. \A u \in Task : u # t => task[u].of # s
  BY <1>1, <1>2 DEF Mine, Owned, PoliteInv, TasksOK
<1>4. CarriesAnswer(s) = (task[t].answer # "none")
  BY <1>1, <1>2, <1>3 DEF CarriesAnswer, Mine
<1>5. CarriesAnswer(s)' = (task'[t].answer # "none")
  BY <1>1, <1>3 DEF CarriesAnswer, Leaves, Only
<1>6. QED
  BY <1>4, <1>5

(* The entry gets another status, but not that of a pause. *)
Marked(s) ==
  /\ \A r \in Session : r # s => active'[r] = active[r]
  /\ active'[s].submitted = active[s].submitted
  /\ Live(s)' <=> Live(s)
  /\ ~active'[s].deadline /\ ~active'[s].artifacts
  /\ active'[s].status # "PENDING_REVIEW"

(* A status update marks the entry. *)
LEMMA MarkStatus ==
  ASSUME active \in [Session -> Entry], NEW s \in Session, EntryOK(s),
         active[s].status # "PENDING_REVIEW", NEW st \in EntryStatus \ {"PENDING_REVIEW"},
         active' = SetStatus(s, st)
  PROVE  Marked(s)
<1> DEFINE e == [active[s] EXCEPT !.status = st]
<1>1. active[s] \in Entry /\ st # "none"
  BY DEF EntryStatus
<1>2. /\ e.status = st /\ e.submitted = active[s].submitted
      /\ e.deadline = active[s].deadline /\ e.artifacts = active[s].artifacts
  BY <1>1 DEF Entry
<1>3. active' = IF Live(s) THEN [active EXCEPT ![s] = e] ELSE active
  BY DEF SetStatus
<1> HIDE DEF e
<1>4. QED
  BY <1>1, <1>2, <1>3 DEF Marked, EntryOK, Live

(* So does one that sets the pending checkpoint as well. *)
LEMMA MarkPending ==
  ASSUME active \in [Session -> Entry], NEW s \in Session, EntryOK(s),
         active[s].status # "PENDING_REVIEW", NEW st \in EntryStatus \ {"PENDING_REVIEW"},
         NEW k, active' = SetPending(s, st, k)
  PROVE  Marked(s)
<1> DEFINE e == [active[s] EXCEPT !.status = st, !.pending = k]
<1>1. active[s] \in Entry /\ st # "none"
  BY DEF EntryStatus
<1>2. /\ e.status = st /\ e.submitted = active[s].submitted
      /\ e.deadline = active[s].deadline /\ e.artifacts = active[s].artifacts
  BY <1>1 DEF Entry
<1>3. active' = IF Live(s) THEN [active EXCEPT ![s] = e] ELSE active
  BY DEF SetPending
<1> HIDE DEF e
<1>4. QED
  BY <1>1, <1>2, <1>3 DEF Marked, EntryOK, Live

(* The database may learn anything but an outcome. *)
Records(s) ==
  /\ \A r \in Session : r # s => db'[r] = db[r]
  /\ db'[s] = db[s] \/ (db'[s] \notin Terminal /\ db[s] \notin Terminal)

(* Such a write leaves the outcome open, or as it was. *)
LEMMA RecordsOutcome ==
  ASSUME NEW s \in Session, Records(s) PROVE OutcomeOf(s)' = OutcomeOf(s)
BY DEF Records, OutcomeOf, Terminal

(* The graph stays where it is. *)
LEMMA QuietTurn ==
  ASSUME EngineInv, PoliteInv, NEW t \in Task, ~At(t, "idle"),
         NEW s \in Session, s = task[t].of, UNCHANGED graph,
         \A u \in Task : u # t => task'[u] = task[u],
         task'[t].of = s, task'[t].answer = task[t].answer,
         ~At(t, "idle")', OwnedOK(t)',
         \A r \in Session : r # s => lock'[r] = lock[r],
         Marked(s), Records(s)
  PROVE  Takes(t, s)
<1>1. /\ Mine(t, s) /\ EntryOK(s)
  BY Own
<1>2. Only(t, s)
  BY DEF Only, Marked, Records
<1>3. EntryOK(s)'
  BY <1>1 DEF EntryOK, Marked, Records
<1>4. Leaves(t, s)
  BY DEF Leaves
<1>5. CarriesAnswer(s)' = CarriesAnswer(s)
  BY <1>1, <1>2, <1>4, AnswerOfTask
<1>6. Stays(s)
  BY DEF Stays, GateOf
<1>7. Turn(s)
  BY <1>1, <1>5, <1>6, RecordsOutcome DEF Turn
<1>8. QED
  BY <1>1, <1>2, <1>3, <1>4, <1>7 DEF Takes

(* The edges of the graph, for a node that returned g. *)
Edge(th, to, g) ==
  \/ th.next = "plan" /\ to = "run_kio" /\ g.step = th.g.step
  \/ th.next = "run_kio" /\ to = "hitl" /\ g.step = th.g.step
  \/ /\ th.next = "run_kio" /\ to = "advance"
     /\ g.step = th.g.step /\ CurrentKio(g) \notin g.gates
  \/ /\ th.next = "advance" /\ to = "run_kio" /\ HasKio(g)
     /\ g.step = th.g.step /\ g.plan = th.g.plan /\ g.gates = th.g.gates
  \/ th.next = "advance" /\ to \in {"run_kio", "complete"} /\ g.step = th.g.step + 1

(* The node returned: the run goes along one edge. *)
LEMMA EnterTurn ==
  ASSUME EngineInv, PoliteInv, NEW t \in Task,
         NEW s \in Session, s = task[t].of,
         task[t].pc \in Planning \cup Running \cup Exact,
         NEW to \in Node, NEW g \in GraphState, Enter(t, to, g),
         Edge(graph[s], to, g), to = "advance" => HasKio(g),
         to = "complete" => ~HasKio(g),
         UNCHANGED lock, Marked(s), Records(s)
  PROVE  Takes(t, s)
<1> DEFINE th == [next |-> to, paused |-> FALSE, g |-> g]
<1>1. ~At(t, "idle")
  BY DEF At, Planning, Running, Exact
<1>2. /\ TypeOK /\ Mine(t, s) /\ EntryOK(s) /\ OwnedOK(t)
  BY <1>1, Own
<1>3. /\ task' \in [Task -> TaskType]
      /\ task'[t].pc = to /\ task'[t].of = s /\ task'[t].g = g
      /\ task'[t].answer = task[t].answer
      /\ \A u \in Task : u # t => task'[u] = task[u]
      /\ graph'[s] = th
      /\ \A r \in Session : r # s => graph'[r] = graph[r]
  BY <1>2, EnterTask DEF TypeOK
<1>4. task'[t].undo = task[t].undo
  BY <1>2 DEF Enter, TypeOK, TaskType
<1>5. active[s].submitted /\ lock[s] = t /\ ~task[t].undo
  BY <1>2 DEF OwnedOK, Planning, Running, Exact, Waiting
<1>6. Only(t, s)
  BY <1>3 DEF Only, Marked, Records
<1>7. EntryOK(s)'
  BY <1>2 DEF EntryOK, Marked, Records
<1>8. OwnedOK(t)'
  <2>1. graph'[s].next = to /\ graph'[s].g = g
    BY <1>3
  <2>2. /\ active'[s].submitted /\ active'[s].status # "PENDING_REVIEW"
        /\ lock'[s] = t /\ ~task'[t].undo
    BY <1>4, <1>5 DEF Marked
  <2>3. /\ to \in Planning \cup Running \cup Exact
        /\ to \notin Waiting /\ to # "checking"
        /\ to \in Planning => to = "plan"
        /\ to \in Running => to = "run_kio"
    BY DEF Node, Planning, Running, Exact, Waiting
  <2>4. QED
    BY <1>3, <2>1, <2>2, <2>3 DEF OwnedOK
<1>9. Leaves(t, s)
  BY <1>3, <1>8 DEF Leaves, At, Node
<1>10. CarriesAnswer(s)' = CarriesAnswer(s)
  BY <1>2, <1>3, <1>6, <1>9, AnswerOfTask
<1>11. OutcomeOf(s) = "open" /\ OutcomeOf(s)' = OutcomeOf(s)
  BY <1>2, <1>5, RecordsOutcome DEF EntryOK, OutcomeOf, Terminal
<1>12. graph'[s].next = to /\ graph'[s].g = g
  BY <1>3
<1>13. Turn(s)
  BY <1>10, <1>11, <1>12 DEF Turn, Edge, MovesOn, GateOf, Node, HasKio, CurrentKio
<1>14. QED
  BY <1>2, <1>6, <1>7, <1>9, <1>13 DEF Takes

(* An await inside the same phase. *)
LEMMA GotoTurn ==
  ASSUME EngineInv, PoliteInv, NEW t \in Task,
         NEW s \in Session, s = task[t].of, NEW p \in PC, Goto(t, p),
         \/ task[t].pc \in Planning /\ p \in Planning
         \/ task[t].pc \in Running /\ p \in Running
         \/ task[t].pc = "resolving" /\ p = "spawned",
         UNCHANGED <<graph, lock>>, Marked(s), Records(s)
  PROVE  Takes(t, s)
<1>1. ~At(t, "idle") /\ p # "idle"
  BY DEF At, Planning, Running
<1>2. TypeOK /\ OwnedOK(t)
  BY <1>1, Own
<1>3. /\ task'[t].pc = p /\ task'[t].of = s /\ task'[t].g = task[t].g
      /\ task'[t].answer = task[t].answer
      /\ \A u \in Task : u # t => task'[u] = task[u]
  BY <1>2, MoveTask DEF TypeOK
<1>4. task'[t].undo = task[t].undo
  BY <1>2 DEF Goto, TypeOK, TaskType
<1>5. OwnedOK(t)'
  <2>1. /\ active'[s].submitted = active[s].submitted
        /\ active'[s].status # "PENDING_REVIEW"
        /\ graph'[s] = graph[s] /\ lock'[s] = lock[s] /\ (Fresh(s) => Fresh(s)')
    BY DEF Marked, Fresh
  <2>2. QED
    BY <1>2, <1>3, <1>4, <2>1 DEF OwnedOK, Planning, Running, Waiting, Exact
<1>6. ~At(t, "idle")'
  BY <1>1, <1>3 DEF At
<1>7. QED
  BY <1>1, <1>3, <1>5, <1>6, QuietTurn

(* An exception: the entry of a polite client lists no artifacts. *)
LEMMA RaiseTurn ==
  ASSUME EngineInv, PoliteInv, NEW t \in Task,
         NEW s \in Session, s = task[t].of, Raise(t),
         task[t].pc \in Running \cup Exact,
         UNCHANGED <<graph, lock>>, Records(s)
  PROVE  Takes(t, s)
<1>1. ~At(t, "idle")
  BY DEF At, Running, Exact
<1>2. /\ TypeOK /\ OwnedOK(t) /\ EntryOK(s) /\ task \in [Task -> TaskType]
      /\ active \in [Session -> Entry]
  BY <1>1, Own DEF TypeOK
<1>3. active' = SetStatus(s, "FAILED")
  BY DEF Raise
<1>4. Marked(s)
  BY <1>2, <1>3, MarkStatus DEF EntryStatus, OwnedOK
<1> DEFINE x == [task[t] EXCEPT !.pc = "failing", !.undo = active[s].artifacts]
<1>5. /\ x.pc = "failing" /\ x.of = s /\ x.answer = task[t].answer
      /\ x.undo = active[s].artifacts
  BY <1>2 DEF TaskType
<1>6. task' = [task EXCEPT ![t] = x]
  BY DEF Raise
<1> HIDE DEF x
<1>7. /\ task'[t] = x
      /\ \A u \in Task : u # t => task'[u] = task[u]
  BY <1>2, <1>6
<1>8. OwnedOK(t)'
  <2>1. active[s].submitted /\ lock[s] = t /\ ~active[s].artifacts
    BY <1>2 DEF OwnedOK, EntryOK, Running, Exact, Waiting
  <2>2. QED
    BY <1>4, <1>5, <1>7, <2>1 DEF OwnedOK, Marked, Waiting, Planning, Running, Exact
<1>9. ~At(t, "idle")'
  BY <1>5, <1>7 DEF At
<1>10. QED
  BY <1>1, <1>4, <1>5, <1>7, <1>8, <1>9, QuietTurn

-----------------------------------------------------------------------------
(* The actions *)

(* Plan: a given pipeline is entered, an empty one planned. *)
LEMMA PlanTakes ==
  ASSUME EngineInv, PoliteInv, NEW t \in Task, NEW s \in Session, s = task[t].of, Plan(t)
  PROVE  Takes(t, s)
<1>1. task[t].pc = "plan" /\ ~At(t, "idle") /\ UNCHANGED <<lock, db>>
  BY DEF Plan, At
<1>2. /\ OwnedOK(t) /\ EntryOK(s) /\ task[t].g \in GraphState
      /\ active \in [Session -> Entry]
  BY <1>1, Own, Known
<1>3. Records(s)
  BY <1>1 DEF Records
<1>4. CASE task[t].g.plan # <<>>
  <2>1. active' = SetStatus(s, "READY") /\ Enter(t, "run_kio", task[t].g)
    BY <1>4 DEF Plan
  <2>2. Marked(s)
    BY <1>2, <2>1, MarkStatus DEF EntryStatus, OwnedOK
  <2>3. Edge(graph[s], "run_kio", task[t].g)
    BY <1>1, <1>2 DEF Edge, OwnedOK, Planning
  <2>4. QED
    BY <1>1, <1>2, <1>3, <2>1, <2>2, <2>3, EnterTurn DEF Node, Planning
<1>5. CASE task[t].g.plan = <<>>
  <2>1. active' = SetStatus(s, "VALIDATING") /\ Goto(t, "planning") /\ UNCHANGED graph
    BY <1>5 DEF Plan
  <2>2. Marked(s)
    BY <1>2, <2>1, MarkStatus DEF EntryStatus, OwnedOK
  <2>3. QED
    BY <1>1, <1>3, <2>1, <2>2, GotoTurn DEF PC, RunPC, Planning
<1>6. QED
  BY <1>4, <1>5

(* Planned: the pipeline of the planner is entered at its first step. *)
LEMMA PlannedTakes ==
  ASSUME EngineInv, PoliteInv, NEW t \in Task, NEW s \in Session, s = task[t].of, Planned(t)
  PROVE  Takes(t, s)
<1>1. /\ task[t].pc = "planning" /\ ~At(t, "idle") /\ UNCHANGED <<lock, db>>
      /\ active' = SetStatus(s, "READY")
  BY DEF Planned, At
<1>2. /\ OwnedOK(t) /\ EntryOK(s) /\ task[t].g \in GraphState
      /\ active \in [Session -> Entry]
  BY <1>1, Own, Known
<1>3. Records(s) /\ Marked(s)
  BY <1>1, <1>2, MarkStatus DEF Records, EntryStatus, OwnedOK
<1>4. PICK r \in Requests : Enter(t, "run_kio", [task[t].g EXCEPT !.plan = r.plan])
  BY DEF Planned
<1> DEFINE h == [task[t].g EXCEPT !.plan = r.plan]
<1>5. r.plan \in PlanType
  BY EngineConstants
<1>6. h \in GraphState /\ h.step = task[t].g.step
  BY <1>2, <1>5 DEF GraphState
<1>7. Enter(t, "run_kio", h)
  BY <1>4
<1> HIDE DEF h
<1>8. Edge(graph[s], "run_kio", h)
  BY <1>1, <1>2, <1>6 DEF Edge, OwnedOK, Planning
<1>9. QED
  BY <1>1, <1>3, <1>6, <1>7, <1>8, EnterTurn DEF Node, Planning

(* Dispatch, Backoff, Register: the run goes on within its step. *)
LEMMA DispatchTakes ==
  ASSUME EngineInv, PoliteInv, NEW t \in Task, NEW s \in Session, s = task[t].of,
         Dispatch(t) \/ Backoff(t) \/ Register(t)
  PROVE  Takes(t, s)
<1>1. /\ ~At(t, "idle") /\ task[t].pc \in Running /\ UNCHANGED <<lock, graph, db>>
      /\ \E p \in Running : Goto(t, p)
      /\ \/ \E st \in {"DISPATCHED", "RUNNING"} : active' = SetStatus(s, st)
         \/ UNCHANGED active
  BY DEF Dispatch, Backoff, Register, At, Running, durableVars
<1>2. /\ OwnedOK(t) /\ EntryOK(s) /\ active \in [Session -> Entry]
  BY <1>1, Own, Known
<1>3. Records(s)
  BY <1>1 DEF Records
<1>4. Marked(s)
  <2>1. CASE UNCHANGED active
    BY <1>2, <2>1 DEF Marked, EntryOK, OwnedOK, Live
  <2>2. ASSUME NEW st \in {"DISPATCHED", "RUNNING"}, active' = SetStatus(s, st)
        PROVE  Marked(s)
    BY <1>2, <2>2, MarkStatus DEF EntryStatus, OwnedOK
  <2>3. QED
    BY <1>1, <2>1, <2>2
<1>5. \A p \in Running : p \in PC
  BY DEF Running, PC, RunPC, Node
<1>6. QED
  BY <1>1, <1>3, <1>4, <1>5, GotoTurn

(* KioReturns: the new pipeline stays with the task until it is checkpointed. *)
LEMMA KioReturnsTakes ==
  ASSUME EngineInv, PoliteInv, NEW t \in Task, NEW s \in Session, s = task[t].of,
         KioReturns(t)
  PROVE  Takes(t, s)
<1> DEFINE g == task[t].g
<1>1. /\ task[t].pc = "executing" /\ ~At(t, "idle") /\ UNCHANGED <<lock, graph, db>>
      /\ active' = SetStatus(s, "ACTIVE")
  BY DEF KioReturns, At, durableVars
<1>2. /\ OwnedOK(t) /\ EntryOK(s) /\ g \in GraphState /\ task \in [Task -> TaskType]
      /\ active \in [Session -> Entry]
  BY <1>1, Own, Known
<1>3. Records(s) /\ Marked(s)
  BY <1>1, <1>2, MarkStatus DEF Records, EntryStatus, OwnedOK
<1>4. PICK review \in BOOLEAN, r \in Reroutes \cup {[plan |-> g.plan, gates |-> g.gates]} :
        \E gates \in {g.gates, r.gates} :
          task' = [task EXCEPT ![t].pc = "registering",
                               ![t].g = [g EXCEPT !.review = review, !.plan = r.plan,
                                                  !.gates = gates]]
  BY DEF KioReturns
<1>4a. PICK gates \in {g.gates, r.gates} :
         task' = [task EXCEPT ![t].pc = "registering",
                    ![t].g = [g EXCEPT !.review = review, !.plan = r.plan, !.gates = gates]]
  BY <1>4
<1> DEFINE h == [g EXCEPT !.review = review, !.plan = r.plan, !.gates = gates]
           x == [task[t] EXCEPT !.pc = "registering", !.g = h]
<1>5. h.step = g.step
  BY <1>2 DEF GraphState
<1>6. /\ x.pc = "registering" /\ x.of = s /\ x.answer = task[t].answer
      /\ x.undo = task[t].undo /\ x.g = h
  BY <1>2 DEF TaskType
<1>7. task' = [task EXCEPT ![t] = x]
  BY <1>4a
<1> HIDE DEF x, h
<1>8. /\ task'[t] = x
      /\ \A u \in Task : u # t => task'[u] = task[u]
  BY <1>2, <1>7
<1>9. OwnedOK(t)'
  <2>1. active'[s].submitted /\ active'[s].status # "PENDING_REVIEW" /\ graph'[s] = graph[s]
    BY <1>1, <1>2, <1>3 DEF OwnedOK, Marked
  <2>2. QED
    BY <1>1, <1>2, <1>5, <1>6, <1>8, <2>1
       DEF OwnedOK, Waiting, Planning, Running, Exact
<1>10. ~At(t, "idle")'
  BY <1>6, <1>8 DEF At
<1>11. QED
  BY <1>1, <1>3, <1>6, <1>8, <1>9, <1>10, QuietTurn

(* And no update at all. *)
LEMMA MarkSame ==
  ASSUME NEW s \in Session, EntryOK(s), active[s].status # "PENDING_REVIEW",
         UNCHANGED active
  PROVE  Marked(s)
BY DEF Marked, EntryOK, Live

(* KioRaises: retried, offered to the human, or given up. *)
LEMMA KioRaisesTakes ==
  ASSUME EngineInv, PoliteInv, NEW t \in Task, NEW s \in Session, s = task[t].of,
         KioRaises(t)
  PROVE  Takes(t, s)
<1> DEFINE g == task[t].g
           h == [g EXCEPT !.review = TRUE, !.rejected = FALSE, !.retryPending = TRUE]
<1>1. task[t].pc = "executing" /\ ~At(t, "idle") /\ UNCHANGED <<lock, db>>
  BY DEF KioRaises, At
<1>2. /\ OwnedOK(t) /\ EntryOK(s) /\ g \in GraphState
      /\ active \in [Session -> Entry]
  BY <1>1, Own, Known
<1>3. Records(s)
  BY <1>1 DEF Records
<1>4. UNCHANGED active => Marked(s)
  BY <1>2, MarkSame DEF OwnedOK
<1>5. CASE Goto(t, "backoff") /\ UNCHANGED <<active, graph>>
  BY <1>1, <1>3, <1>4, <1>5, GotoTurn DEF PC, RunPC, Running
<1>6. CASE Enter(t, "hitl", h) /\ UNCHANGED active
  <2>1. h \in GraphState /\ h.step = g.step
    BY <1>2 DEF GraphState
  <2> HIDE DEF h
  <2>2. Edge(graph[s], "hitl", h)
    BY <1>1, <1>2, <2>1 DEF Edge, OwnedOK, Running
  <2>3. QED
    BY <1>1, <1>3, <1>4, <1>6, <2>1, <2>2, EnterTurn DEF Node, Running
<1>7. CASE Raise(t) /\ UNCHANGED graph
  BY <1>1, <1>3, <1>7, RaiseTurn DEF Running
<1>8. QED
  BY <1>5, <1>6, <1>7 DEF KioRaises

(* Progress: only a step whose KIO is not gated goes past the human. *)
LEMMA ProgressTakes ==
  ASSUME EngineInv, PoliteInv, NEW t \in Task, NEW s \in Session, s = task[t].of,
         Progress(t)
  PROVE  Takes(t, s)
<1> DEFINE g == [task[t].g EXCEPT !.artifacts = TRUE, !.rejected = FALSE]
<1>1. /\ task[t].pc = "progress" /\ ~At(t, "idle") /\ UNCHANGED lock
      /\ db' = [db EXCEPT ![s] = "RUNNING"]
  BY DEF Progress, At
<1>2. /\ OwnedOK(t) /\ EntryOK(s) /\ task[t].g \in GraphState
      /\ active \in [Session -> Entry] /\ db \in [Session -> DbState]
  BY <1>1, Own, Known
<1>3. Records(s)
  BY <1>1, <1>2 DEF Records, OwnedOK, EntryOK, Terminal
<1>4. UNCHANGED active => Marked(s)
  BY <1>2, MarkSame DEF OwnedOK
<1>5. g \in GraphState /\ g.step = task[t].g.step
  BY <1>2 DEF GraphState
<1>6. \/ /\ HasKio(g) /\ Enter(t, IF Gated(g) THEN "hitl" ELSE "advance", g)
         /\ UNCHANGED active
      \/ Raise(t) /\ UNCHANGED graph
  BY DEF Progress
<1> HIDE DEF g
<1>7. CASE HasKio(g) /\ Gated(g) /\ Enter(t, "hitl", g) /\ UNCHANGED active
  <2>1. Edge(graph[s], "hitl", g)
    BY <1>1, <1>2, <1>5 DEF Edge, OwnedOK, Running
  <2>2. QED
    BY <1>1, <1>3, <1>4, <1>5, <1>7, <2>1, EnterTurn DEF Node, Running
<1>8. CASE HasKio(g) /\ ~Gated(g) /\ Enter(t, "advance", g) /\ UNCHANGED active
  <2>1. Edge(graph[s], "advance", g)
    BY <1>1, <1>2, <1>5, <1>8 DEF Edge, OwnedOK, Running, Gated
  <2>2. QED
    BY <1>1, <1>3, <1>4, <1>5, <1>8, <2>1, EnterTurn DEF Node, Running
<1>9. CASE Raise(t) /\ UNCHANGED graph
  BY <1>1, <1>3, <1>9, RaiseTurn DEF Running
<1>10. QED
  BY <1>6, <1>7, <1>8, <1>9

(* No reply is lost, so a call that raises has written nothing. *)
LEMMA FaultTakes ==
  ASSUME EngineInv, PoliteInv, ~LostReplies,
         NEW t \in Task, NEW s \in Session, s = task[t].of,
         NoCapableAgent(t) \/ ProgressFails(t) \/ HitlFails(t) \/ CompleteFails(t)
  PROVE  Takes(t, s)
<1>1. /\ task[t].pc \in Running \cup Exact /\ Raise(t) /\ UNCHANGED <<lock, graph>>
      /\ UNCHANGED db
  BY DEF NoCapableAgent, ProgressFails, HitlFails, CompleteFails, At, Running, Exact,
         Applied, durableVars
<1>2. QED
  BY <1>1, RaiseTurn DEF Records

(* Advance: the step is passed, or runs again with its gate as it was. *)
LEMMA AdvanceTakes ==
  ASSUME EngineInv, PoliteInv, NEW t \in Task, NEW s \in Session, s = task[t].of,
         Advance(t)
  PROVE  Takes(t, s)
<1> DEFINE g == task[t].g
           switched == [g EXCEPT !.retryPending = FALSE, !.override = TRUE, !.rejected = FALSE]
           refused == [g EXCEPT !.retryPending = FALSE]
           done == [g EXCEPT !.step = @ + 1]
<1>1. task[t].pc = "advance" /\ ~At(t, "idle") /\ UNCHANGED <<lock, db>>
  BY DEF Advance, At
<1>2. /\ OwnedOK(t) /\ EntryOK(s) /\ g \in GraphState
      /\ active \in [Session -> Entry]
  BY <1>1, Own, Known
<1>3. PICK h \in {switched, refused, done} :
        /\ Enter(t, Continue(h), h)
        /\ active' \in {SetStatus(s, "FAILED"), SetPending(s, "ACTIVE", NoKio)}
  BY DEF Advance
<1>4. Records(s) /\ Marked(s)
  BY <1>1, <1>2, <1>3, MarkStatus, MarkPending DEF Records, EntryStatus, OwnedOK
<1>5. HasKio(g) /\ graph[s].next = "advance" /\ graph[s].g = g
  BY <1>1, <1>2 DEF OwnedOK, Exact
<1>6. /\ h \in GraphState
      /\ \/ h.step = g.step /\ h.plan = g.plan /\ h.gates = g.gates
         \/ h.step = g.step + 1
  <2>1. h = switched => /\ h \in GraphState
                        /\ h.step = g.step /\ h.plan = g.plan /\ h.gates = g.gates
    BY <1>2 DEF GraphState
  <2>2. h = refused => /\ h \in GraphState
                       /\ h.step = g.step /\ h.plan = g.plan /\ h.gates = g.gates
    BY <1>2 DEF GraphState
  <2>3. h = done => h \in GraphState /\ h.step = g.step + 1
    <3>1. g.step + 1 \in Nat
      BY <1>2 DEF GraphState
    <3>2. QED
      BY <1>2, <3>1 DEF GraphState
  <2>4. QED
    BY <2>1, <2>2, <2>3
<1> HIDE DEF switched, refused, done
<1>7. /\ Continue(h) \in {"run_kio", "complete"}
      /\ Continue(h) = "complete" => ~HasKio(h)
  BY DEF Continue
<1>8. Edge(graph[s], Continue(h), h)
  BY <1>5, <1>6, <1>7 DEF Edge, HasKio, Continue
<1>9. QED
  BY <1>1, <1>3, <1>4, <1>6, <1>7, <1>8, EnterTurn DEF Node, Exact

(* Hitl: the thread pauses at the question, or the answer opens the gate. *)
LEMMA HitlTakes ==
  ASSUME EngineInv, PoliteInv, NEW t \in Task, NEW s \in Session, s = task[t].of,
         Hitl(t)
  PROVE  Takes(t, s)
<1> DEFINE g == task[t].g
           k == CurrentKio(g)
           h == [g EXCEPT !.rejected = (task[t].answer = "no")]
<1>1. /\ task[t].pc = "hitl" /\ ~At(t, "idle") /\ UNCHANGED lock
      /\ CreateCheckpoint(s, k) /\ active' = SetPending(s, "BLOCKED", k)
  BY DEF Hitl, At
<1>2. /\ OwnedOK(t) /\ EntryOK(s) /\ g \in GraphState /\ Mine(t, s)
      /\ active \in [Session -> Entry] /\ db \in [Session -> DbState]
      /\ task \in [Task -> TaskType] /\ graph \in [Session -> Thread]
  BY <1>1, Own, Known
<1>3. /\ active[s].submitted /\ lock[s] = t /\ ~task[t].undo
      /\ graph[s].next = "hitl" /\ graph[s].g = g
  BY <1>1, <1>2 DEF OwnedOK, Exact, Waiting
<1>4. Records(s)
  BY <1>1, <1>2, <1>3 DEF Records, CreateCheckpoint, EntryOK, Terminal
<1>5. Marked(s)
  BY <1>1, <1>2, MarkPending DEF EntryStatus, OwnedOK
<1>6. EntryOK(s)'
  BY <1>2, <1>4, <1>5 DEF EntryOK, Marked, Records
<1>7. OutcomeOf(s) = "open" /\ OutcomeOf(s)' = OutcomeOf(s)
  BY <1>2, <1>3, <1>4, RecordsOutcome DEF EntryOK, OutcomeOf, Terminal
<1>8. CASE task[t].answer = "none"
  <2> DEFINE x == [task[t] EXCEPT !.pc = "checking"]
             th == [graph[s] EXCEPT !.paused = TRUE]
  <2>1. task' = [task EXCEPT ![t] = x] /\ graph' = [graph EXCEPT ![s] = th]
    <3>1. graph' = [graph EXCEPT ![s].paused =
                      @ \/ (graph[s].next = "hitl" /\ graph[s].g = g)]
      BY <1>8 DEF Hitl
    <3>2. graph' = [graph EXCEPT ![s].paused = TRUE]
      BY <1>2, <1>3, <3>1
    <3>3. QED
      BY <1>8, <3>2 DEF Hitl, Goto
  <2>2. /\ x.pc = "checking" /\ x.of = s /\ x.answer = task[t].answer /\ ~x.undo
        /\ th.next = graph[s].next /\ th.g = graph[s].g /\ th.paused = TRUE
    BY <1>2, <1>3 DEF TaskType, Thread
  <2> HIDE DEF x, th
  <2>3. /\ task'[t] = x /\ graph'[s] = th
        /\ \A u \in Task : u # t => task'[u] = task[u]
        /\ \A r \in Session : r # s => graph'[r] = graph[r]
    BY <1>2, <2>1
  <2>4. Only(t, s)
    BY <1>1, <1>4, <1>5, <2>3 DEF Only, Marked, Records
  <2>5. OwnedOK(t)'
    BY <1>1, <1>3, <1>5, <2>2, <2>3
       DEF OwnedOK, Marked, Waiting, Planning, Running, Exact
  <2>6. Leaves(t, s)
    BY <2>2, <2>3, <2>5 DEF Leaves, At
  <2>7. CarriesAnswer(s)' = CarriesAnswer(s)
    BY <1>2, <2>2, <2>3, <2>4, <2>6, AnswerOfTask
  <2>8. Stays(s)
    BY <2>2, <2>3 DEF Stays, GateOf
  <2>9. QED
    BY <1>2, <1>6, <1>7, <2>4, <2>6, <2>7, <2>8 DEF Takes, Turn
<1>9. CASE task[t].answer # "none"
  <2> DEFINE x == [task[t] EXCEPT !.pc = "advance", !.g = h, !.answer = "none"]
             th == [next |-> "advance", paused |-> FALSE, g |-> h]
  <2>1. task' = [task EXCEPT ![t] = x] /\ graph' = [graph EXCEPT ![s] = th]
    BY <1>9 DEF Hitl
  <2>2. h.step = g.step /\ h.plan = g.plan /\ h.gates = g.gates
    BY <1>2 DEF GraphState
  <2> HIDE DEF h
  <2>3. /\ x.pc = "advance" /\ x.of = s /\ x.answer = "none" /\ ~x.undo /\ x.g = h
        /\ th.next = "advance" /\ th.g = h
    BY <1>2, <1>3 DEF TaskType
  <2> HIDE DEF x, th
  <2>4. /\ task'[t] = x /\ graph'[s] = th
        /\ \A u \in Task : u # t => task'[u] = task[u]
        /\ \A r \in Session : r # s => graph'[r] = graph[r]
    BY <1>2, <2>1
  <2>5. Only(t, s)
    BY <1>1, <1>4, <1>5, <2>4 DEF Only, Marked, Records
  <2>6. HasKio(h)
    BY <1>1, <2>2, Own DEF TaskOK, At, HasKio
  <2>7. OwnedOK(t)'
    BY <1>1, <1>3, <1>5, <2>3, <2>4, <2>6
       DEF OwnedOK, Marked, Waiting, Planning, Running, Exact
  <2>8. Leaves(t, s)
    BY <2>3, <2>4, <2>7 DEF Leaves, At
  <2>9. CarriesAnswer(s) /\ ~CarriesAnswer(s)'
    BY <1>2, <1>9, <2>3, <2>4, <2>5, <2>8, AnswerOfTask
  <2>10. GateOf(s)' = GateOf(s)
    BY <1>3, <2>2, <2>3, <2>4 DEF GateOf, Node, HasKio, CurrentKio
  <2>11. Turn(s)
    BY <1>3, <1>7, <2>2, <2>3, <2>4, <2>9, <2>10 DEF Turn, MovesOn
  <2>12. QED
    BY <1>2, <1>6, <2>5, <2>8, <2>11 DEF Takes
<1>10. QED
  BY <1>8, <1>9

(* Complete: the outcome is recorded and the entry goes; the run still has *)
(* to leave its lock.                                                      *)
LEMMA CompleteTakes ==
  ASSUME EngineInv, PoliteInv, NEW t \in Task, NEW s \in Session, s = task[t].of,
         Complete(t)
  PROVE  Takes(t, s)
<1> DEFINE x == [task[t] EXCEPT !.pc = "checking"]
           th == [next |-> "end", paused |-> FALSE, g |-> task[t].g]
<1>1. /\ task[t].pc = "complete" /\ ~At(t, "idle") /\ UNCHANGED lock
      /\ db' = [db EXCEPT ![s] = "COMPLETED"] /\ active' = [active EXCEPT ![s] = NoEntry]
      /\ task' = [task EXCEPT ![t] = x] /\ graph' = [graph EXCEPT ![s] = th]
  BY DEF Complete, At, Goto
<1>2. /\ OwnedOK(t) /\ EntryOK(s) /\ task[t].g \in GraphState /\ Mine(t, s)
      /\ active \in [Session -> Entry] /\ db \in [Session -> DbState]
      /\ task \in [Task -> TaskType] /\ graph \in [Session -> Thread]
  BY <1>1, Own, Known
<1>3. /\ active[s].submitted /\ lock[s] = t /\ ~task[t].undo /\ ~HasKio(graph[s].g)
      /\ graph[s].next = "complete" /\ graph[s].g = task[t].g
  BY <1>1, <1>2 DEF OwnedOK, Exact, Waiting
<1>4. /\ x.pc = "checking" /\ x.of = s /\ x.answer = task[t].answer /\ ~x.undo
      /\ th.next = "end" /\ th.g = graph[s].g
  BY <1>2, <1>3 DEF TaskType
<1> HIDE DEF x, th
<1>5. /\ task'[t] = x /\ graph'[s] = th /\ active'[s] = NoEntry /\ db'[s] = "COMPLETED"
      /\ \A u \in Task : u # t => task'[u] = task[u]
      /\ \A r \in Session : r # s => /\ graph'[r] = graph[r] /\ active'[r] = active[r]
                                     /\ db'[r] = db[r]
  BY <1>1, <1>2
<1>6. Only(t, s)
  BY <1>1, <1>5 DEF Only
<1>7. EntryOK(s)'
  BY <1>5 DEF EntryOK, NoEntry, Live
<1>8. OwnedOK(t)'
  BY <1>1, <1>3, <1>4, <1>5 DEF OwnedOK, NoEntry, Waiting, Planning, Running, Exact
<1>9. Leaves(t, s)
  BY <1>4, <1>5, <1>8 DEF Leaves, At
<1>10. CarriesAnswer(s)' = CarriesAnswer(s)
  BY <1>2, <1>4, <1>5, <1>6, <1>9, AnswerOfTask
<1>11. OutcomeOf(s) = "open" /\ OutcomeOf(s)' = "completed"
  BY <1>2, <1>3, <1>5 DEF EntryOK, OutcomeOf, Terminal
<1>12. GateOf(s)' = GateOf(s)
  BY <1>3, <1>4, <1>5 DEF GateOf, Node
<1>13. Turn(s)
  BY <1>3, <1>4, <1>5, <1>10, <1>11, <1>12 DEF Turn, MovesOn
<1>14. QED
  BY <1>2, <1>6, <1>7, <1>9, <1>13 DEF Takes

(* A run that ends leaves nothing but the session. *)
LEMMA EndTurn ==
  ASSUME EngineInv, PoliteInv, NEW t \in Task, ~At(t, "idle"),
         NEW s \in Session, s = task[t].of, End(t), UNCHANGED graph,
         \A r \in Session : r # s => /\ active'[r] = active[r] /\ lock'[r] = lock[r]
                                     /\ db'[r] = db[r],
         EntryOK(s)', FreeOK(s)',
         \/ OutcomeOf(s)' = OutcomeOf(s)
         \/ OutcomeOf(s) = "open" /\ OutcomeOf(s)' = "failed"
  PROVE  Takes(t, s)
<1>1. task \in [Task -> TaskType] /\ Mine(t, s)
  BY Known, Own
<1>2. task'[t] = IdleTask /\ \A u \in Task : u # t => task'[u] = task[u]
  BY <1>1 DEF End
<1>3. Only(t, s) /\ Leaves(t, s)
  BY <1>2 DEF Only, Leaves
<1>4. IdleTask.answer = "none"
  BY DEF IdleTask
<1>5. /\ ~CarriesAnswer(s)'
      /\ CarriesAnswer(s) \/ CarriesAnswer(s)' = CarriesAnswer(s)
  BY <1>1, <1>2, <1>3, <1>4, AnswerOfTask
<1>6. Stays(s)
  BY DEF Stays, GateOf
<1>7. Turn(s)
  BY <1>5, <1>6 DEF Turn
<1>8. QED
  BY <1>1, <1>3, <1>7 DEF Takes

(* Check: a session that is left on its own shows its question. *)
LEMMA CheckTakes ==
  ASSUME EngineInv, PoliteInv, NEW t \in Task, NEW s \in Session, s = task[t].of,
         Check(t)
  PROVE  Takes(t, s)
<1>1. /\ task[t].pc = "checking" /\ ~At(t, "idle") /\ End(t) /\ Release(t)
      /\ UNCHANGED <<graph, db>>
  BY DEF Check, At, durableVars
<1>2. /\ OwnedOK(t) /\ EntryOK(s) /\ TypeOK /\ db[s] # "none"
      /\ active \in [Session -> Entry] /\ lock \in [Session -> Task \cup {NoTask}]
  BY <1>1, Own, Known DEF TypeOK
<1>3. lock' = [lock EXCEPT ![s] = NoTask]
  BY <1>1, <1>2 DEF Release, OwnedOK, Waiting
<1>4. CASE graph[s].paused /\ Live(s)
  <2> DEFINE k == CurrentKio(graph[s].g)
             e == [active[s] EXCEPT !.status = "PENDING_REVIEW", !.pending = k]
  <2>1. active' = [active EXCEPT ![s] = e]
    BY <1>4 DEF Check, SetPending
  <2>2. /\ e.status = "PENDING_REVIEW" /\ e.pending = k /\ e.submitted = active[s].submitted
        /\ e.deadline = active[s].deadline /\ e.artifacts = active[s].artifacts
    BY <1>2 DEF Entry
  <2> HIDE DEF e, k
  <2>3. active'[s] = e /\ \A r \in Session : r # s => active'[r] = active[r]
    BY <1>2, <2>1
  <2>4. EntryOK(s)'
    BY <1>1, <1>2, <1>4, <2>2, <2>3 DEF EntryOK, Live
  <2>5. FreeOK(s)'
    BY <1>1, <1>2, <1>3, <1>4, <2>2, <2>3 DEF FreeOK, Approvable, k
  <2>6. OutcomeOf(s)' = OutcomeOf(s)
    BY <1>1 DEF OutcomeOf
  <2>7. QED
    BY <1>1, <1>2, <1>3, <2>3, <2>4, <2>5, <2>6, EndTurn
<1>5. CASE ~(graph[s].paused /\ Live(s))
  <2>1. UNCHANGED active
    BY <1>5 DEF Check, SetPending
  <2>2. ~active[s].submitted
    BY <1>1, <1>2, <1>5 DEF OwnedOK, EntryOK
  <2>3. EntryOK(s)'
    BY <1>1, <1>2, <2>1 DEF EntryOK, Live
  <2>4. FreeOK(s)'
    BY <1>1, <1>2, <1>3, <2>1, <2>2 DEF FreeOK
  <2>5. OutcomeOf(s)' = OutcomeOf(s)
    BY <1>1 DEF OutcomeOf
  <2>6. QED
    BY <1>1, <1>2, <1>3, <2>1, <2>3, <2>4, <2>5, EndTurn
<1>6. QED
  BY <1>4, <1>5

(* Unwind: without artifacts to undo, the first status update is the last. *)
LEMMA UnwindTakes ==
  ASSUME EngineInv, PoliteInv, NEW t \in Task, NEW s \in Session, s = task[t].of,
         Unwind(t)
  PROVE  Takes(t, s)
<1>1. ~At(t, "idle")
  BY DEF Unwind, UnwindStatus, At
<1>2. /\ OwnedOK(t) /\ EntryOK(s) /\ TypeOK /\ db[s] # "none"
      /\ active \in [Session -> Entry] /\ lock \in [Session -> Task \cup {NoTask}]
      /\ db \in [Session -> DbState]
  BY <1>1, Own, Known DEF TypeOK
<1>3. task[t].pc = "failing" /\ ~task[t].undo /\ active[s].submitted
  BY <1>2 DEF Unwind, UnwindStatus, OwnedOK, Waiting, Planning, Running, Exact
<1>4. /\ TryStatus(s, "FAILED") /\ Cleanup(s) /\ End(t) /\ UNCHANGED graph
  BY <1>3 DEF Unwind, UnwindStatus, At
<1>5. /\ active'[s] = NoEntry /\ lock'[s] = NoTask
      /\ \A r \in Session : r # s => active'[r] = active[r] /\ lock'[r] = lock[r]
  BY <1>2, <1>4 DEF Cleanup
<1>6. /\ db'[s] \in {db[s], "FAILED"}
      /\ \A r \in Session : r # s => db'[r] = db[r]
  BY <1>2, <1>4 DEF TryStatus
<1>7. EntryOK(s)' /\ FreeOK(s)'
  BY <1>2, <1>5, <1>6 DEF EntryOK, FreeOK, NoEntry, Live
<1>8. \/ OutcomeOf(s)' = OutcomeOf(s)
      \/ OutcomeOf(s) = "open" /\ OutcomeOf(s)' = "failed"
  BY <1>2, <1>3, <1>6 DEF EntryOK, OutcomeOf, Terminal
<1>9. QED
  BY <1>1, <1>4, <1>5, <1>6, <1>7, <1>8, EndTurn

(* Begin: the lock is free, a first run starts the thread, and a resumed   *)
(* one enters the node that asked.                                         *)
LEMMA BeginTakes ==
  ASSUME EngineInv, PoliteInv, NEW t \in Task, NEW s \in Session, s = task[t].of,
         Begin(t)
  PROVE  Takes(t, s)
<1>1. task[t].pc = "spawned" /\ ~At(t, "idle") /\ UNCHANGED <<active, db>>
  BY DEF Begin, At
<1>2. /\ OwnedOK(t) /\ EntryOK(s) /\ SessionOK(s) /\ TypeOK /\ TaskOK(t) /\ Mine(t, s)
      /\ active \in [Session -> Entry] /\ lock \in [Session -> Task \cup {NoTask}]
      /\ task \in [Task -> TaskType] /\ graph \in [Session -> Thread]
      /\ task[t].g \in GraphState /\ graph[s].g \in GraphState
  BY <1>1, Own, Known DEF TypeOK
<1>3. /\ Free(s) /\ active[s].submitted /\ ~task[t].undo
      /\ active[s].status # "PENDING_REVIEW"
  BY <1>1, <1>2 DEF OwnedOK, Waiting, Free
<1>4. lock' = [lock EXCEPT ![s] = t]
  BY <1>3 DEF Begin
<1>5. lock'[s] = t /\ \A r \in Session : r # s => lock'[r] = lock[r]
  BY <1>2, <1>4
<1>6. EntryOK(s)' /\ Records(s) /\ Marked(s)
  BY <1>1, <1>2, <1>3, MarkSame DEF EntryOK, Records, Live
<1>7. CASE task[t].answer = "none"
  <2>1. Enter(t, "plan", task[t].g)
    BY <1>3, <1>7 DEF Begin
  <2>2. /\ task'[t].pc = "plan" /\ task'[t].of = s /\ task'[t].g = task[t].g
        /\ task'[t].answer = task[t].answer
        /\ \A u \in Task : u # t => task'[u] = task[u]
        /\ graph'[s] = [next |-> "plan", paused |-> FALSE, g |-> task[t].g]
        /\ \A r \in Session : r # s => graph'[r] = graph[r]
    BY <1>2, <2>1, EnterTask DEF Node
  <2>3. task'[t].undo = task[t].undo
    BY <1>2, <2>1 DEF Enter, TaskType
  <2>4. graph'[s].next = "plan" /\ graph'[s].g = task[t].g
    BY <2>2
  <2>5. graph[s].next = "none" /\ graph[s].g.step = 0 /\ task[t].g.step = 0
    BY <1>1, <1>2, <1>7 DEF OwnedOK, Waiting, Fresh, TaskOK, At
  <2>6. Only(t, s)
    BY <1>1, <1>5, <2>2 DEF Only
  <2>7. OwnedOK(t)'
    BY <1>1, <1>3, <1>5, <2>2, <2>3, <2>4
       DEF OwnedOK, Waiting, Planning, Running, Exact
  <2>8. Leaves(t, s)
    BY <2>2, <2>7 DEF Leaves, At
  <2>9. CarriesAnswer(s)' = CarriesAnswer(s)
    BY <1>2, <2>2, <2>6, <2>8, AnswerOfTask
  <2>10. OutcomeOf(s) = "open" /\ OutcomeOf(s)' = OutcomeOf(s)
    BY <1>2, <1>3, <1>6, RecordsOutcome DEF EntryOK, OutcomeOf, Terminal
  <2>11. Turn(s)
    BY <2>4, <2>5, <2>9, <2>10 DEF Turn, MovesOn
  <2>12. QED
    BY <1>2, <1>6, <2>6, <2>8, <2>11 DEF Takes
<1>8. CASE task[t].answer # "none"
  <2> DEFINE x == [task[t] EXCEPT !.pc = "hitl", !.g = graph[s].g]
  <2>1. graph[s].paused /\ graph[s].next = "hitl" /\ HasKio(graph[s].g)
    BY <1>1, <1>2, <1>8 DEF OwnedOK, Waiting, SessionOK
  <2>2. task' = [task EXCEPT ![t].pc = "hitl", ![t].g = graph[s].g,
                             ![t].answer = task[t].answer] /\ UNCHANGED graph
    BY <1>2, <1>3, <1>8, <2>1 DEF Begin
  <2>3. task' = [task EXCEPT ![t] = x]
    BY <1>2, <2>2 DEF TaskType
  <2>4. /\ x.pc = "hitl" /\ x.of = s /\ x.g = graph[s].g /\ ~x.undo
        /\ x.answer = task[t].answer
    BY <1>2, <1>3 DEF TaskType
  <2> HIDE DEF x
  <2>5. task'[t] = x /\ \A u \in Task : u # t => task'[u] = task[u]
    BY <1>2, <2>3
  <2>6. OwnedOK(t)'
    BY <1>1, <1>3, <1>5, <2>1, <2>2, <2>4, <2>5
       DEF OwnedOK, Waiting, Planning, Running, Exact
  <2>7. ~At(t, "idle")'
    BY <2>4, <2>5 DEF At
  <2>8. QED
    BY <1>1, <1>5, <1>6, <2>2, <2>4, <2>5, <2>6, <2>7, QuietTurn
<1>9. QED
  BY <1>7, <1>8

(* Resolve: the answer goes with the task. *)
LEMMA ResolveTakes ==
  ASSUME EngineInv, PoliteInv, NEW t \in Task, NEW s \in Session, s = task[t].of,
         Resolve(t)
  PROVE  Takes(t, s)
<1>1. /\ task[t].pc = "resolving" /\ ~At(t, "idle") /\ Goto(t, "spawned")
      /\ db' = [db EXCEPT ![s] = "RUNNING"] /\ UNCHANGED <<active, lock, graph>>
  BY DEF Resolve, At
<1>2. OwnedOK(t) /\ EntryOK(s) /\ db \in [Session -> DbState]
  BY <1>1, Own, Known
<1>3. Records(s) /\ Marked(s)
  BY <1>1, <1>2, MarkSame DEF Records, OwnedOK, EntryOK, Terminal
<1>4. QED
  BY <1>1, <1>3, GotoTurn DEF PC

(* Run: a session nobody knew gets its task. *)
LEMMA RunTakes ==
  ASSUME EngineInv, PoliteInv, NEW t \in Task, NEW s \in Session,
         NEW r \in Requests, Run(s, t, r, FALSE)
  PROVE  Takes(t, s)
<1> DEFINE x == [IdleTask EXCEPT !.pc = "spawned", !.of = s, !.g = InitialState(r)]
           e == [status |-> "QUEUED", pending |-> NoKio, artifacts |-> FALSE,
                 deadline |-> FALSE, submitted |-> TRUE]
<1>1. /\ db[s] = "none" /\ At(t, "idle") /\ UNCHANGED <<lock, graph>>
      /\ db' = [db EXCEPT ![s] = "CREATED"] /\ active' = [active EXCEPT ![s] = e]
      /\ task' = [task EXCEPT ![t] = x]
  BY DEF Run
<1>2. /\ active \in [Session -> Entry] /\ task \in [Task -> TaskType]
      /\ db \in [Session -> DbState]
  BY DEF EngineInv, TypeOK
<1>3. /\ x.pc = "spawned" /\ x.of = s /\ x.answer = "none" /\ ~x.undo
      /\ IdleTask.answer = "none" /\ IdleTask.of = NoSession /\ IdleTask.pc = "idle"
  BY DEF IdleTask
<1> HIDE DEF x
<1>4. /\ task'[t] = x /\ active'[s] = e /\ db'[s] = "CREATED"
      /\ \A u \in Task : u # t => task'[u] = task[u]
      /\ \A q \in Session : q # s => active'[q] = active[q] /\ db'[q] = db[q]
  BY <1>1, <1>2
<1>5. ~Owned(s) /\ task[t] = IdleTask
  <2>1. \A u \in Task : task[u].of # s
    BY <1>1, <1>3, EngineConstants DEF EngineInv, TaskOK, PoliteInv, TasksOK
  <2>2. QED
    BY <1>1, <2>1 DEF Owned, PoliteInv, TasksOK
<1>6. FreeOK(s) /\ Fresh(s)
  BY <1>1, <1>5 DEF PoliteInv, FreeOK
<1>7. Only(t, s) /\ Mine(t, s)
  BY <1>1, <1>4, <1>5 DEF Only, Mine
<1>8. EntryOK(s)'
  BY <1>4 DEF EntryOK, Live, Terminal
<1>9. OwnedOK(t)'
  <2>1. lock'[s] = NoTask /\ Fresh(s)'
    BY <1>1, <1>6 DEF FreeOK, Fresh
  <2>2. QED
    BY <1>3, <1>4, <2>1 DEF OwnedOK, Waiting, Planning, Running, Exact
<1>10. Leaves(t, s)
  BY <1>3, <1>4, <1>9 DEF Leaves, At
<1>11. CarriesAnswer(s)' = CarriesAnswer(s)
  BY <1>3, <1>4, <1>5, <1>7, <1>10, AnswerOfTask
<1>12. OutcomeOf(s)' = OutcomeOf(s)
  BY <1>1, <1>4 DEF OutcomeOf, Terminal
<1>13. Stays(s)
  BY <1>1 DEF Stays, GateOf
<1>14. QED
  BY <1>7, <1>8, <1>10, <1>11, <1>12, <1>13 DEF Takes, Turn

(* Approve: a session that shows its question has no other task. *)
LEMMA ApproveTakes ==
  ASSUME EngineInv, PoliteInv, ~Impatient, NEW t \in Task, NEW s \in Session,
         NEW a \in {"yes", "no"}, Approve(s, t, a)
  PROVE  Takes(t, s)
<1> DEFINE x == [IdleTask EXCEPT !.pc = "resolving", !.of = s, !.answer = a,
                                 !.ck = active[s].pending]
           e == [active[s] EXCEPT !.status = "RUNNING", !.pending = Popped]
<1>1. /\ Live(s) /\ At(t, "idle") /\ UNCHANGED <<lock, graph, db>>
      /\ active[s].status = "PENDING_REVIEW"
      /\ active' = [active EXCEPT ![s] = e] /\ task' = [task EXCEPT ![t] = x]
  BY DEF Approve, durableVars
<1>2. /\ active \in [Session -> Entry] /\ task \in [Task -> TaskType]
      /\ EntryOK(s) /\ SessionOK(s)
  BY DEF EngineInv, TypeOK, PoliteInv
<1>3. /\ x.pc = "resolving" /\ x.of = s /\ x.answer = a /\ ~x.undo
      /\ IdleTask.answer = "none" /\ IdleTask.of = NoSession /\ IdleTask.pc = "idle"
  BY DEF IdleTask
<1>4. /\ e.status = "RUNNING" /\ e.submitted = active[s].submitted
      /\ e.deadline = active[s].deadline /\ e.artifacts = active[s].artifacts
  BY <1>2 DEF Entry
<1> HIDE DEF x, e
<1>5. /\ task'[t] = x /\ active'[s] = e
      /\ \A u \in Task : u # t => task'[u] = task[u]
      /\ \A q \in Session : q # s => active'[q] = active[q]
  BY <1>1, <1>2
<1>6. ~Owned(s) /\ task[t] = IdleTask
  <2>1. ASSUME NEW u \in Task, task[u].of = s PROVE FALSE
    <3>1. ~At(u, "idle")
      BY <1>3, <2>1, EngineConstants DEF PoliteInv, TasksOK
    <3>2. active[s].status # "PENDING_REVIEW"
      BY <2>1, <3>1 DEF PoliteInv, OwnedOK
    <3>3. QED
      BY <1>1, <3>2
  <2>2. QED
    BY <1>1, <2>1 DEF Owned, PoliteInv, TasksOK
<1>7. /\ lock[s] = NoTask /\ active[s].submitted /\ graph[s].paused
      /\ graph[s].next = "hitl"
  BY <1>1, <1>2, <1>6 DEF PoliteInv, FreeOK, EntryOK, Approvable, SessionOK
<1>8. Only(t, s) /\ Mine(t, s)
  BY <1>1, <1>5, <1>6 DEF Only, Mine
<1>9. EntryOK(s)'
  BY <1>1, <1>2, <1>4, <1>5, <1>7 DEF EntryOK, Live
<1>10. OwnedOK(t)'
  <2>1. /\ active'[s].submitted /\ active'[s].status = "RUNNING"
        /\ lock'[s] = NoTask /\ graph'[s].paused
    BY <1>1, <1>4, <1>5, <1>7
  <2>2. /\ task'[t].pc = "resolving" /\ task'[t].of = s /\ ~task'[t].undo
        /\ task'[t].answer # "none"
    BY <1>3, <1>5
  <2>3. QED
    BY <2>1, <2>2 DEF OwnedOK, Waiting, Planning, Running, Exact
<1>11. Leaves(t, s)
  BY <1>3, <1>5, <1>10 DEF Leaves, At
<1>12. ~CarriesAnswer(s) /\ CarriesAnswer(s)'
  BY <1>3, <1>5, <1>6, <1>8, <1>11, AnswerOfTask
<1>13. OutcomeOf(s) = "open" /\ OutcomeOf(s)' = OutcomeOf(s)
  BY <1>1, <1>2, <1>7 DEF EntryOK, OutcomeOf, Terminal
<1>14. Stays(s)
  BY <1>1 DEF Stays, GateOf
<1>15. QED
  BY <1>7, <1>8, <1>9, <1>11, <1>12, <1>13, <1>14 DEF Takes, Turn

-----------------------------------------------------------------------------
(* The theorems about polite clients *)

(* Without cancellations and deadlines no other task exists, without       *)
(* restarts none disappears.                                               *)
LEMMA PoliteStep ==
  ASSUME Polite, EngineInv, PoliteInv, [Next]_vars
  PROVE  PoliteInv' /\ (Promise!PipelineNext \/ UNCHANGED Promise!pipelineVars)
<1>1. /\ ~Cancels /\ ~Impatient /\ ~LostReplies
      /\ "resolve_checkpoint" \notin Failing /\ MaxRestarts = 0
  BY DEF Polite
<1>2. \A t \in Task, s \in Session :
        Takes(t, s) =>
          PoliteInv' /\ (Promise!PipelineNext \/ UNCHANGED Promise!pipelineVars)
  BY TakesKeeps
<1>3. ASSUME NEW t \in Task, RunStep(t) \/ RunFault(t) \/ CallStep(t)
      PROVE  task[t].of \in Session /\ Takes(t, task[t].of)
  <2>1. ~At(t, "idle")
    BY <1>3 DEF RunStep, RunFault, CallStep, At, Begin, Plan, Planned, Dispatch, KioReturns,
       Backoff, Register, Progress, Hitl, Advance, Complete, Check, Unwind, UnwindStatus,
       NoCapableAgent, KioRaises, ProgressFails, HitlFails, CompleteFails,
       Resolve, ResolveFails, Cancelled, TimedOut, TimeoutFailed
  <2>2. OwnedOK(t) /\ task[t].of \in Session
    BY <2>1, Own
  <2>3. ~Cancelled(t) /\ ~TimedOut(t) /\ ~TimeoutFailed(t) /\ ~ResolveFails(t)
    BY <1>1, <2>2 DEF Cancelled, TimedOut, TimeoutFailed, ResolveFails, At, Fault,
       OwnedOK, Waiting, Planning, Running, Exact
  <2>4. PICK s \in Session : s = task[t].of
    BY <2>2
  <2>5. RunStep(t) => Takes(t, s)
    BY <2>4, BeginTakes, PlanTakes, PlannedTakes, DispatchTakes, KioReturnsTakes,
       ProgressTakes, HitlTakes, AdvanceTakes, CompleteTakes, CheckTakes, UnwindTakes
       DEF RunStep
  <2>6. RunFault(t) => Takes(t, s)
    BY <1>1, <2>4, KioRaisesTakes, FaultTakes DEF RunFault
  <2>7. CallStep(t) => Takes(t, s)
    BY <2>3, <2>4, ResolveTakes DEF CallStep
  <2>8. QED
    BY <1>3, <2>2, <2>4, <2>5, <2>6, <2>7
<1>4. ASSUME NEW s \in Session, NEW t \in Task, ClientStep(s, t) PROVE Takes(t, s)
  <2>1. ~Cancel(s, t) /\ ~Expire(s, t)
    BY <1>1 DEF Cancel, Expire, PoliteInv, EntryOK
  <2>2. CASE \E r \in Requests, timed \in {FALSE, Cancels} : Run(s, t, r, timed)
    <3>1. Cancels = FALSE
      BY <1>1, EngineConstants
    <3>2. PICK r \in Requests : Run(s, t, r, FALSE)
      BY <2>2, <3>1
    <3>3. QED
      BY <3>2, RunTakes
  <2>3. CASE \E a \in {"yes", "no"} : Approve(s, t, a)
    BY <1>1, <2>3, ApproveTakes
  <2>4. QED
    BY <1>4, <2>1, <2>2, <2>3 DEF ClientStep
<1>5. \A s \in Session : ~RunLost(s)
  BY <1>1 DEF RunLost
<1>6. ~Restart
  BY <1>1 DEF Restart, EngineInv, TypeOK
<1>7. CASE UNCHANGED vars
  <2>1. PoliteInv'
    BY <1>7 DEF vars, durableVars, PoliteInv, TasksOK, EntryOK, FreeOK, OwnedOK, Fresh,
       Approvable, Owned, Live, At
  <2>2. UNCHANGED Promise!pipelineVars
    BY <1>7 DEF vars, durableVars, Promise!pipelineVars, GateOf, CarriesAnswer, OutcomeOf
  <2>3. QED
    BY <2>1, <2>2
<1>8. QED
  BY <1>2, <1>3, <1>4, <1>5, <1>6, <1>7 DEF Next

(* Initially nobody works and no session is known. *)
LEMMA PoliteInit == ASSUME Init PROVE PoliteInv
<1>1. /\ IdleTask.of = NoSession /\ IdleTask.pc = "idle" /\ NoSession \notin Session
      /\ NoEntry.status = "none" /\ ~NoEntry.submitted /\ ~NoEntry.deadline
      /\ ~NoEntry.artifacts /\ EmptyState.step = 0
  BY EngineConstants DEF IdleTask, NoEntry, EmptyState, InitialState
<1>2. TasksOK /\ \A t \in Task : At(t, "idle")
  BY <1>1 DEF Init, TasksOK, At
<1>3. \A s \in Session : EntryOK(s)
  BY <1>1 DEF Init, EntryOK, Live
<1>4. \A s \in Session : FreeOK(s)
  BY <1>1 DEF Init, FreeOK, Fresh
<1>5. QED
  BY <1>2, <1>3, <1>4 DEF PoliteInv

(* The invariant of polite clients holds of every behaviour. *)
THEOREM PoliteInvariant == ASSUME Polite PROVE Spec => []PoliteInv
<1>1. Init => PoliteInv
  BY PoliteInit
<1>2. EngineInv /\ PoliteInv /\ [Next]_vars => PoliteInv'
  BY PoliteStep
<1>3. QED
  BY <1>1, <1>2, EngineInvariant, PTL DEF Spec

(* For polite clients, any number of sessions, tasks and faults: a session *)
(* that no task works on is paused at a question that the status shows, so *)
(* nothing falls between the graph run, the approval and the cleanup.      *)
THEOREM NobodyIsForgotten == ASSUME Polite PROVE Spec => []NobodyForgotten
<1>1. PoliteInv => NobodyForgotten
  BY DEF PoliteInv, NobodyForgotten, FreeOK
<1>2. QED
  BY <1>1, PoliteInvariant, PTL

(* For polite clients each run is counted once and uncounted once, so the  *)
(* orchestrator reports work exactly while there is some.                  *)
THEOREM WorkflowsAreCounted == ASSUME Polite PROVE Spec => []WorkflowsCounted
<1> DEFINE Exactly == CountInv /\ workflows = Cardinality(Submitted)
<1>1. Init => Exactly
  <2>1. ASSUME Init PROVE Submitted = {} /\ workflows = 0 /\ NoGhosts
    BY <2>1 DEF Init, Submitted, NoEntry, NoGhosts, OSM!OrchInit
  <2>2. QED
    BY <2>1, FS_EmptySet DEF CountInv
<1>2. EngineInv /\ PoliteInv /\ Exactly /\ [Next]_vars => Exactly'
  <2> SUFFICES ASSUME EngineInv, PoliteInv, Exactly, [Next]_vars PROVE Exactly'
    OBVIOUS
  <2>1. CountInv' /\ (Counts \/ Recounts \/ Resets \/ \E t \in Task : Uncounts(t))
    BY CountStep, CountEffects DEF CountInv
  <2>2. IsFiniteSet(Submitted) /\ Cardinality(Submitted) \in Nat
    BY FS_CardinalityType DEF CountInv
  <2>3. CASE Counts
    <3>1. PICK s \in Session : /\ Submitted' = Submitted \cup {s} /\ s \notin Submitted
                               /\ workflows' = workflows + 1
      BY <2>3 DEF Counts
    <3>2. Cardinality(Submitted \cup {s}) = Cardinality(Submitted) + 1
      BY <2>2, <3>1, FS_AddElement
    <3>3. QED
      BY <2>1, <3>1, <3>2
  <2>4. ASSUME NEW t \in Task, Uncounts(t) PROVE Exactly'
    <3> DEFINE s == task[t].of
    <3>1. /\ Submitted' = Submitted \ {s} /\ ~At(t, "idle") /\ ~At(t, "checking")
          /\ workflows' = IF workflows > 0 THEN workflows - 1 ELSE 0
      BY <2>4 DEF Uncounts, At
    <3>2. s \in Submitted
      BY <3>1, Own DEF OwnedOK, Submitted, At
    <3>3. /\ Cardinality(Submitted \ {s}) = Cardinality(Submitted) - 1
          /\ Cardinality(Submitted \ {s}) \in Nat
      BY <2>2, <3>2, FS_RemoveElement, FS_CardinalityType
    <3>4. workflows' = Cardinality(Submitted \ {s})
      BY <2>2, <3>1, <3>3
    <3>5. QED
      BY <2>1, <3>1, <3>4
  <2>5. CASE Recounts
    BY <2>1, <2>5 DEF Recounts
  <2>6. CASE Resets
    BY <2>1, <2>6, FS_EmptySet DEF Resets
  <2>7. QED
    BY <2>1, <2>3, <2>4, <2>5, <2>6
<1>3. Exactly => WorkflowsCounted
  BY DEF WorkflowsCounted, Submitted
<1> HIDE DEF Exactly
<1>4. QED
  BY <1>1, <1>2, <1>3, EngineInvariant, PoliteInvariant, PTL DEF Spec

(* For polite clients the engine implements GatedPipeline: steps are       *)
(* passed in order, no gated step without the answer to its own question,  *)
(* and nothing moves after the outcome is recorded.                        *)
THEOREM PromiseIsKept == ASSUME Polite PROVE Spec => KeepsPromise
<1>1. Init => Promise!PipelineInit
  <2> SUFFICES ASSUME Init PROVE Promise!PipelineInit
    OBVIOUS
  <2>1. IdleTask.answer = "none" /\ EmptyState.step = 0
    BY DEF IdleTask, EmptyState, InitialState
  <2>2. \A s \in Session : /\ graph[s].next = "none" /\ graph[s].g.step = 0
                           /\ OutcomeOf(s) = "open"
    BY <2>1 DEF Init, OutcomeOf, Terminal
  <2>3. \A s \in Session : GateOf(s) = FALSE
    BY <2>2 DEF GateOf, Node
  <2>4. \A s \in Session : CarriesAnswer(s) = FALSE
    BY <2>1 DEF Init, CarriesAnswer
  <2>5. QED
    BY <2>2, <2>3, <2>4 DEF Promise!PipelineInit
<1>2. EngineInv /\ PoliteInv /\ [Next]_vars => [Promise!PipelineNext]_Promise!pipelineVars
  BY PoliteStep
<1>3. QED
  BY <1>1, <1>2, EngineInvariant, PoliteInvariant, PTL
     DEF Spec, KeepsPromise, Promise!PipelineSpec
=============================================================================
