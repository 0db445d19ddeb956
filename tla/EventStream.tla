---------------------------- MODULE EventStream ----------------------------
(***************************************************************************)
(* A session seen from the browser: the event bus of the orchestrator      *)
(* (event_bus.py) with the queue of one subscriber, the API calls of the   *)
(* dashboard (router.py, client.ts) and the dashboard's store              *)
(* (workflow.ts).  The session itself is reduced to what it emits and when *)
(* (workflow_runner.py, graph_nodes.py).                                   *)
(*                                                                         *)
(* One browser tab starts the sessions 1, 2, ... of one user, while those  *)
(* before may still run; other users' events come from outside.  NOTE      *)
(* stands for the events that the store only appends to its list.          *)
(***************************************************************************)
EXTENDS Integers, Sequences, FiniteSets

CONSTANTS
  MaxSessions,  \* bound: sessions the tab starts
  QueueSize,    \* sse_queue_maxsize
  MaxAsked,     \* bound: questions of all sessions
  MaxTraffic    \* bound: foreign events, lost connections, failed and lost replies, cancellations

ASSUME StreamAssumption ==
  /\ MaxSessions \in Nat \ {0} /\ QueueSize \in Nat \ {0}
  /\ MaxAsked \in Nat /\ MaxTraffic \in Nat

VARIABLES
  stage,      \* where the graph of each session is
  ckpt,       \* pending_checkpoint_id of its entry: None, a value, no key, no entry
  asked,      \* number of questions it has asked
  moved,      \* history: a KIO has finished since its last question
  queue,      \* the tab's queue on the bus
  connected,  \* the tab is subscribed
  traffic,    \* how often MaxTraffic has been drawn on
  tab,        \* the store: [session, panel]
  approval,   \* the tab's approve request: [at, shown, taken]
  starting,   \* the tab's run request: the session it made, 0 before, -1 none
  upset       \* history: why the panel may differ from each session

serverVars == <<stage, ckpt, asked, moved>>
streamVars == <<serverVars, queue, connected, traffic, tab, approval, starting, upset>>

Runs == 1..MaxSessions
NoQuestion == [session |-> 0, no |-> 0]
Question(s) == [session |-> s, no |-> asked[s]]
NoApproval == [at |-> "none", shown |-> NoQuestion, taken |-> NoQuestion]

Stranger == -1  \* session of another user

(* An event; its owner is "other" when it bears the name of another user, and "user"
   when it bears the one of the tab's user or none. *)
Event(type, s) ==
  [type |-> type, session |-> s, no |-> IF s \in Runs THEN asked[s] ELSE 0, owner |-> "user"]

StreamInit ==
  /\ stage = [s \in Runs |-> "none"] /\ ckpt = [s \in Runs |-> "none"]
  /\ asked = [s \in Runs |-> 0] /\ moved = [s \in Runs |-> FALSE]
  /\ queue = <<>> /\ connected = FALSE /\ traffic = 0
  /\ tab = [session |-> 0, panel |-> NoQuestion]
  /\ approval = NoApproval /\ starting = -1
  /\ upset = [s \in Runs |-> {}]

-----------------------------------------------------------------------------
(* A mutant: a finished KIO does not clear the panel. *)
EndsOnly == {"HITL_APPROVED", "WORKFLOW_COMPLETED", "WORKFLOW_FAILED"}

(* Events after which the store shows no question, and those that change the panel *)
Clearing == {"HITL_APPROVED", "KIO_DONE", "WORKFLOW_COMPLETED", "WORKFLOW_FAILED"}
Telling(e, s) == e.session = s /\ e.type \in Clearing \cup {"HITL_CHECKPOINT"}

Heard == connected /\ Len(queue) < QueueSize

(* The causes for a session after an event of it: what was missed before does not
   matter once a later event is on its way. *)
After(e, s, causes) ==
  (CASE ~Telling(e, s) -> upset[s]
     [] Telling(e, s) /\ Heard -> upset[s] \ {"missed", "early"}
     [] OTHER -> upset[s] \cup {"missed"}) \cup causes

(* A mutant: one event too many. *)
PublishOneMore(e, causes) ==
  /\ queue' = IF connected /\ Len(queue) <= QueueSize THEN Append(queue, e) ELSE queue
  /\ upset' = [upset EXCEPT ![e.session] = After(e, e.session, causes)]

(* EventBus.publish(): put_nowait() on the queue, which drops the event when it
   is full, whoever the events in it belong to; nobody keeps it for later. *)
Publish(e, causes) ==
  /\ queue' = IF Heard THEN Append(queue, e) ELSE queue
  /\ upset' = [upset EXCEPT ![e.session] = After(e, e.session, causes)]

(* The events that a closing stream takes with it *)
DropQueue ==
  /\ connected' = FALSE /\ queue' = <<>>
  /\ upset' = [s \in Runs |->
       IF \E i \in DOMAIN queue : Telling(queue[i], s) THEN upset[s] \cup {"missed"} ELSE upset[s]]

(* The panel is changed by something else than an event of these sessions. *)
Overwritten(sessions) ==
  [s \in Runs |-> IF s \in sessions THEN upset[s] \cup {"overwritten"} ELSE upset[s]]

TabUnchanged == UNCHANGED <<connected, traffic, tab, approval, starting>>

Go(s, from, to) == /\ stage[s] \in from
                   /\ stage' = [stage EXCEPT ![s] = to]

(* pending_checkpoint_id of a session that still has its entry *)
SetCheckpoint(s, value) ==
  ckpt' = IF ckpt[s] = "dropped" THEN ckpt ELSE [ckpt EXCEPT ![s] = value]

(* run_kio_node *)
Dispatch(s) ==
  /\ Go(s, {"ready"}, "dispatched")
  /\ Publish(Event("NOTE", s), {})
  /\ UNCHANGED <<ckpt, asked, moved>> /\ TabUnchanged

StepDone(s) ==
  /\ Go(s, {"dispatched"}, "done")
  /\ moved' = [moved EXCEPT ![s] = TRUE]
  /\ Publish(Event("KIO_DONE", s), {})
  /\ UNCHANGED <<ckpt, asked>> /\ TabUnchanged

(* The questions of all sessions, as <<session, number>> *)
AskedSoFar == {q \in Runs \X (1..MaxAsked) : q[2] <= asked[q[1]]}

(* hitl_node up to its interrupt, after a KIO that is done or failed for good *)
Ask(s) ==
  /\ Go(s, {"dispatched", "done"}, "blocked") /\ Cardinality(AskedSoFar) < MaxAsked
  /\ asked' = [asked EXCEPT ![s] = @ + 1]
  /\ SetCheckpoint(s, "set") /\ moved' = [moved EXCEPT ![s] = FALSE]
  /\ Publish([Event("HITL_CHECKPOINT", s) EXCEPT !.no = asked[s] + 1], {})
  /\ TabUnchanged

(* _check_graph_state() after the interrupt *)
CheckState(s) ==
  /\ Go(s, {"blocked"}, "review")
  /\ SetCheckpoint(s, "set")
  /\ UNCHANGED <<asked, moved, queue, upset>> /\ TabUnchanged

(* A resumed graph runs hitl_node from its beginning: it asks once more. *)
Reenter(s) ==
  /\ Go(s, {"resumed"}, "reentered")
  /\ SetCheckpoint(s, "set")
  /\ Publish(Event("HITL_CHECKPOINT", s), {})
  /\ UNCHANGED <<asked, moved>> /\ TabUnchanged

(* advance_node *)
NextStep(s) ==
  /\ Go(s, {"done", "reentered"}, "ready")
  /\ SetCheckpoint(s, "none")
  /\ UNCHANGED <<asked, moved, queue, upset>> /\ TabUnchanged

(* complete_node and _handle_failure(): the entry is dropped. *)
Finish(s, from, type) ==
  /\ Go(s, from, "gone")
  /\ ckpt' = [ckpt EXCEPT ![s] = "dropped"]
  /\ Publish(Event(type, s), {})
  /\ UNCHANGED <<asked, moved>> /\ TabUnchanged

(* cancel() drops the entry, after a timeout with WORKFLOW_FAILED as the last
   event; the graph goes on. *)
Cancel(s) ==
  /\ stage[s] # "none" /\ ckpt[s] # "dropped"
  /\ ckpt' = [ckpt EXCEPT ![s] = "dropped"]
  /\ \E type \in {"WORKFLOW_CANCELLED", "WORKFLOW_FAILED"} : Publish(Event(type, s), {})
  /\ traffic < MaxTraffic /\ traffic' = traffic + 1
  /\ UNCHANGED <<stage, asked, moved, connected, tab, approval, starting>>

Live == {"ready", "dispatched", "done", "blocked", "review", "resumed", "reentered"}

Session(s) ==
  \/ Dispatch(s) \/ StepDone(s) \/ Ask(s) \/ CheckState(s) \/ Reenter(s) \/ NextStep(s)
  \/ Finish(s, {"ready"}, "WORKFLOW_COMPLETED")
  \/ Finish(s, {"dispatched"}, "WORKFLOW_FAILED")
  \/ Cancel(s)

(* What comes from outside: the events of other users and heartbeats, which are a
   NOTE.  The nodes of the graph emit events without an owner; those of the runner
   bear the one of the session's entry, unless it is gone. *)
OwnedTypes == {"NOTE", "HITL_APPROVED", "WORKFLOW_FAILED"}
Foreign ==
  {Event(type, Stranger) : type \in Clearing \cup {"NOTE", "HITL_CHECKPOINT"}}
    \cup {[Event(type, Stranger) EXCEPT !.owner = "other"] : type \in OwnedTypes}

Traffic ==
  /\ traffic < MaxTraffic /\ connected /\ traffic' = traffic + 1
  /\ \E e \in Foreign : queue' = IF Heard THEN Append(queue, e) ELSE queue
  /\ UNCHANGED <<serverVars, connected, tab, approval, starting, upset>>

-----------------------------------------------------------------------------
(* The store *)

(* startWorkflow() clears the store, the old stream stays open. *)
StartWorkflow ==
  /\ starting = -1 /\ approval = NoApproval
  /\ \E s \in Runs : stage[s] = "none"
  /\ starting' = 0 /\ tab' = [tab EXCEPT !.panel = NoQuestion]
  /\ upset' = IF tab.panel = NoQuestion THEN upset ELSE Overwritten(Runs)
  /\ UNCHANGED <<serverVars, queue, connected, traffic, approval>>

(* POST /run: the session exists and may run before the reply arrives. *)
ServeRun ==
  /\ starting = 0
  /\ \E s \in Runs :
       /\ stage[s] = "none" /\ \A r \in 1..(s - 1) : stage[r] # "none"
       /\ stage' = [stage EXCEPT ![s] = "ready"] /\ starting' = s
       /\ queue' = IF Heard THEN Append(queue, Event("NOTE", s)) ELSE queue
       /\ upset' = [upset EXCEPT ![s] = IF tab.panel = NoQuestion THEN {} ELSE {"overwritten"}]
  /\ UNCHANGED <<ckpt, asked, moved, connected, traffic, tab, approval>>

(* The reply: connectStream() closes the stream that was open; the panel stays,
   also with a question that the old stream has shown since startWorkflow(). *)
RunReply ==
  /\ starting > 0
  /\ tab' = [tab EXCEPT !.session = starting]
  /\ starting' = -1
  /\ DropQueue
  /\ UNCHANGED <<serverVars, traffic, approval>>

(* The request is refused or fails, or its reply is lost: the store keeps the
   session and the stream that it had, with the panel cleared, and a session that
   was made runs on without a tab. *)
RunFails ==
  /\ starting # -1 /\ traffic < MaxTraffic
  /\ starting' = -1 /\ traffic' = traffic + 1
  /\ UNCHANGED <<serverVars, queue, connected, tab, approval, upset>>

(* GET /events; EventSource connects again by itself after a loss. *)
Connect ==
  /\ ~connected /\ tab.session > 0
  /\ connected' = TRUE
  /\ UNCHANGED <<serverVars, queue, traffic, tab, approval, starting, upset>>

LoseConnection ==
  /\ connected /\ traffic < MaxTraffic /\ traffic' = traffic + 1
  /\ DropQueue
  /\ UNCHANGED <<serverVars, tab, approval, starting>>

(* The session waits for the answer to this question. *)
Pending(s, no) == ckpt[s] = "set" /\ stage[s] \in {"blocked", "review"} /\ no = asked[s]

(* A question that is delivered when nobody waits for its answer any more *)
Late(e) == e.type = "HITL_CHECKPOINT" /\ ~Pending(e.session, e.no)

(* subscribe() yields the next event unless another user's name is on it; the
   stream's handler looks neither at its session nor at its owner. *)
Deliver ==
  /\ connected /\ queue # <<>>
  /\ queue' = Tail(queue)
  /\ LET e == Head(queue)
         shown == CASE e.owner = "other" -> tab.panel
                    [] e.owner = "user" /\ e.type = "HITL_CHECKPOINT" -> [session |-> e.session, no |-> e.no]
                    [] e.owner = "user" /\ e.type \in Clearing -> NoQuestion
                    [] OTHER -> tab.panel
     IN /\ tab' = [tab EXCEPT !.panel = shown]
        /\ upset' = [s \in Runs |->
             IF Telling(e, s)
             THEN (upset[s] \ {"overwritten"}) \cup (IF Late(e) THEN {"late"} ELSE {})
             ELSE IF shown = tab.panel THEN upset[s] ELSE upset[s] \cup {"overwritten"}]
  /\ UNCHANGED <<serverVars, connected, traffic, approval, starting>>

-----------------------------------------------------------------------------
(* Approving: the request names the tab's session, not the question. *)
Approve ==
  /\ tab.panel # NoQuestion /\ tab.session > 0 /\ approval = NoApproval /\ starting = -1
  /\ approval' = [at |-> "sent", shown |-> tab.panel, taken |-> NoQuestion]
  /\ UNCHANGED <<serverVars, queue, connected, traffic, tab, starting, upset>>

(* POST /approve: 404 or 409 without a pending checkpoint; otherwise approve()
   takes whichever is pending. *)
ServeApprove ==
  /\ approval.at = "sent"
  /\ LET s == tab.session
     IN IF ckpt[s] = "set"
        THEN /\ ckpt' = [ckpt EXCEPT ![s] = "popped"]
             /\ approval' = [approval EXCEPT !.at = "resolving", !.taken = Question(s)]
        ELSE /\ UNCHANGED ckpt
             /\ approval' = [approval EXCEPT !.at = "refused"]
  /\ UNCHANGED <<stage, asked, moved, queue, connected, traffic, tab, starting, upset>>

(* After resolve_checkpoint(): HITL_APPROVED, and the graph resumes unless the
   run that asked still holds the session's lock. *)
Resume ==
  /\ approval.at = "resolving"
  /\ LET s == tab.session
     IN /\ stage' = IF stage[s] = "review" THEN [stage EXCEPT ![s] = "resumed"] ELSE stage
        /\ Publish(Event("HITL_APPROVED", s), IF stage[s] = "blocked" THEN {"early"} ELSE {})
  /\ approval' = [approval EXCEPT !.at = "approved"]
  /\ UNCHANGED <<ckpt, asked, moved, connected, traffic, tab, starting>>

(* A mutant: the reply leaves the panel to the events. *)
ApproveReplyOnly ==
  /\ approval.at = "approved"
  /\ approval' = NoApproval
  /\ UNCHANGED <<serverVars, queue, connected, traffic, tab, starting, upset>>

(* The reply clears the panel, whatever it shows by now. *)
ApproveReply ==
  /\ approval.at = "approved"
  /\ approval' = NoApproval
  /\ tab' = [tab EXCEPT !.panel = NoQuestion]
  /\ upset' = IF tab.panel \in {NoQuestion, approval.taken} THEN upset ELSE Overwritten(Runs)
  /\ UNCHANGED <<serverVars, queue, connected, traffic, starting>>

(* An error leaves it, also when only the reply was lost. *)
ApproveError ==
  /\ \/ approval.at = "refused" /\ UNCHANGED <<traffic, upset>>
     \/ /\ approval.at = "approved" /\ traffic < MaxTraffic /\ traffic' = traffic + 1
        /\ upset' = [upset EXCEPT ![tab.session] = @ \cup {"unheard"}]
  /\ approval' = NoApproval
  /\ UNCHANGED <<serverVars, queue, connected, tab, starting>>

Client == \/ StartWorkflow \/ ServeRun \/ RunReply \/ RunFails
          \/ Approve \/ ServeApprove \/ Resume \/ ApproveReply \/ ApproveError

StreamNext ==
  \/ \E s \in Runs : Session(s)
  \/ Traffic \/ Connect \/ LoseConnection \/ Deliver \/ Client

StreamSpec == StreamInit /\ [][StreamNext]_streamVars

-----------------------------------------------------------------------------
(* Properties *)

Stages == Live \cup {"none", "gone"}
Questions == [session : -1..MaxSessions, no : 0..MaxAsked]
Events == [type : {"NOTE", "HITL_CHECKPOINT", "HITL_APPROVED", "KIO_DONE",
                   "WORKFLOW_COMPLETED", "WORKFLOW_FAILED", "WORKFLOW_CANCELLED"},
           session : -1..MaxSessions, no : 0..MaxAsked, owner : {"user", "other"}]
Causes == {"missed", "overwritten", "early", "late", "unheard"}

(* Type invariant; the queue keeps its bound. *)
StreamTypeOK ==
  /\ stage \in [Runs -> Stages] /\ ckpt \in [Runs -> {"none", "set", "popped", "dropped"}]
  /\ asked \in [Runs -> 0..MaxAsked] /\ moved \in [Runs -> BOOLEAN]
  /\ queue \in Seq(Events) /\ Len(queue) <= QueueSize /\ connected \in BOOLEAN
  /\ traffic \in 0..MaxTraffic /\ starting \in -1..MaxSessions
  /\ tab \in [session : 0..MaxSessions, panel : Questions]
  /\ approval \in [at : {"none", "sent", "resolving", "approved", "refused"},
                   shown : Questions, taken : Questions]
  /\ upset \in [Runs -> SUBSET Causes]

(* The approval that the session takes is of the question the user was looking
   at, unless that was a question of another session, or one that was shown again
   after its answer, or whose answer the browser did not get confirmed. *)
ApprovesWhatIsShown ==
  approval.taken # NoQuestion /\ approval.shown.session = approval.taken.session =>
    approval.taken = approval.shown \/ upset[tab.session] \cap {"late", "unheard"} # {}

(* Once every event has been delivered the panel shows the pending question of
   the tab's session; without one it shows none, or the last question of the
   session while no KIO has finished since, nor the session itself.  This takes that
   the last event with which the session would change the panel reached the tab, that
   nothing else has changed the panel since (an event of another session or user,
   a start that then failed, the reply to an approval) and that the last answer did
   not come before its run had ended. *)
PanelFollowsServer ==
  tab.session > 0 /\ queue = <<>> /\ upset[tab.session] \subseteq {"late", "unheard"} =>
    LET s == tab.session
    IN /\ Pending(s, asked[s]) => tab.panel = Question(s)
       /\ tab.panel # NoQuestion => tab.panel = Question(s) /\ ~moved[s] /\ stage[s] # "gone"
=============================================================================
