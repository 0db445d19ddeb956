------------------------ MODULE EventStream_proofs ------------------------
(***************************************************************************)
(* Proofs about the browser tab behind the event bus.                      *)
(***************************************************************************)
EXTENDS EventStream, FiniteSetTheorems, TLAPS

Types == {"NOTE", "HITL_CHECKPOINT", "HITL_APPROVED", "KIO_DONE",
          "WORKFLOW_COMPLETED", "WORKFLOW_FAILED", "WORKFLOW_CANCELLED"}

Approvals == [at : {"none", "sent", "resolving", "approved", "refused"},
              shown : Questions, taken : Questions]

(* A request is of the tab's session, and none is under way while another session
   is started. *)
ApprovalOfTab ==
  /\ approval.at # "none" => tab.session \in Runs
  /\ approval.at = "none" \/ starting # -1 => approval = NoApproval

StreamTyped == StreamTypeOK /\ ApprovalOfTab

-----------------------------------------------------------------------------
(* Types *)

LEMMA NothingAsked ==
  /\ NoQuestion \in Questions /\ NoQuestion.session = 0 /\ NoQuestion.no = 0
  /\ NoApproval \in Approvals /\ NoApproval.at = "none" /\ NoApproval.taken = NoQuestion
<1>1. NoQuestion \in Questions /\ NoQuestion.session = 0 /\ NoQuestion.no = 0
  BY StreamAssumption DEF NoQuestion, Questions
<1>2. QED
  BY <1>1 DEF NoApproval, Approvals

(* Room for a question of one session while the questions of all keep their bound *)
LEMMA RoomToAsk ==
  ASSUME asked \in [Runs -> 0..MaxAsked], NEW s \in Runs, Cardinality(AskedSoFar) < MaxAsked
  PROVE  asked[s] + 1 \in 1..MaxAsked
<1> USE StreamAssumption DEF Runs
<1>1. SUFFICES ASSUME asked[s] = MaxAsked PROVE FALSE
  OBVIOUS
<1> DEFINE own == [n \in 1..MaxAsked |-> <<s, n>>]
<1>2. own \in Injection(1..MaxAsked, AskedSoFar)
  <2>1. \A n \in 1..MaxAsked : <<s, n>> \in AskedSoFar
    BY <1>1 DEF AskedSoFar
  <2>2. own \in [1..MaxAsked -> AskedSoFar]
    BY <2>1
  <2>3. QED
    BY <2>2 DEF Injection, IsInjective
<1>3. IsFiniteSet(AskedSoFar)
  <2>1. IsFiniteSet(1..MaxSessions) /\ IsFiniteSet(1..MaxAsked)
    BY FS_Interval
  <2>2. IsFiniteSet(Runs \X (1..MaxAsked))
    BY <2>1, FS_Product
  <2>3. AskedSoFar \subseteq Runs \X (1..MaxAsked)
    BY DEF AskedSoFar
  <2>4. QED
    BY <2>2, <2>3, FS_Subset
<1>4. Cardinality(1..MaxAsked) <= Cardinality(AskedSoFar)
  BY <1>2, <1>3, FS_Injection DEF ExistsInjection
<1>5. Cardinality(1..MaxAsked) = MaxAsked /\ Cardinality(AskedSoFar) \in Nat
  BY <1>3, FS_Interval, FS_CardinalityType
<1>6. QED
  BY <1>4, <1>5

LEMMA EventTyped ==
  ASSUME asked \in [Runs -> 0..MaxAsked], NEW type \in Types, NEW s \in Runs \cup {Stranger}
  PROVE  /\ Event(type, s) \in Events /\ Event(type, s).session = s /\ Event(type, s).type = type
         /\ Event(type, s).owner = "user"
  BY StreamAssumption DEF Event, Events, Types, Runs, Stranger

(* The question that a session asks next *)
LEMMA AskedEvent ==
  ASSUME asked \in [Runs -> 0..MaxAsked], NEW s \in Runs, NEW n \in 0..MaxAsked
  PROVE  [Event("HITL_CHECKPOINT", s) EXCEPT !.no = n]
           = [type |-> "HITL_CHECKPOINT", session |-> s, no |-> n, owner |-> "user"]
<1>1. Event("HITL_CHECKPOINT", s) = [type |-> "HITL_CHECKPOINT", session |-> s, no |-> asked[s], owner |-> "user"]
  BY DEF Event
<1>2. QED
  BY <1>1

LEMMA ForeignTyped ==
  ASSUME asked \in [Runs -> 0..MaxAsked], NEW e \in Foreign
  PROVE  e \in Events /\ e.session = Stranger
<1>1. PICK type \in Types, owner \in {"user", "other"} : e = [Event(type, Stranger) EXCEPT !.owner = owner]
  <2>1. PICK type \in Types : e = Event(type, Stranger) \/ e = [Event(type, Stranger) EXCEPT !.owner = "other"]
    BY DEF Foreign, OwnedTypes, Clearing, Types
  <2>2. [Event(type, Stranger) EXCEPT !.owner = "user"] = Event(type, Stranger)
    BY DEF Event
  <2>3. QED
    BY <2>1, <2>2
<1>2. Event(type, Stranger) = [type |-> type, session |-> Stranger, no |-> 0, owner |-> "user"]
  BY DEF Event, Stranger, Runs
<1>3. e = [type |-> type, session |-> Stranger, no |-> 0, owner |-> owner]
  BY <1>1, <1>2
<1>4. QED
  BY <1>3, StreamAssumption DEF Events, Types, Stranger

(* The queue keeps its type and its bound; the causes of one session change, and
   those that can pass are "missed" and "early". *)
LEMMA PublishTyped ==
  ASSUME queue \in Seq(Events), Len(queue) <= QueueSize, upset \in [Runs -> SUBSET Causes],
         NEW e \in Events, e.session \in Runs, NEW causes \in SUBSET Causes, Publish(e, causes)
  PROVE  /\ queue' \in Seq(Events) /\ Len(queue') <= QueueSize
         /\ upset' \in [Runs -> SUBSET Causes]
         /\ \A s \in Runs : upset[s] \ {"missed", "early"} \subseteq upset'[s]
         /\ causes \subseteq upset'[e.session]
         /\ \A s \in Runs : s # e.session => upset'[s] = upset[s]
         /\ queue' = queue \/ queue' = Append(queue, e)
<1>1. queue' \in Seq(Events) /\ Len(queue') <= QueueSize /\ (queue' = queue \/ queue' = Append(queue, e))
  BY StreamAssumption DEF Publish, Heard
<1>2. /\ After(e, e.session, causes) \in SUBSET Causes /\ causes \subseteq After(e, e.session, causes)
      /\ upset[e.session] \ {"missed", "early"} \subseteq After(e, e.session, causes)
  <2>1. \/ After(e, e.session, causes) = upset[e.session] \cup causes
        \/ After(e, e.session, causes) = (upset[e.session] \ {"missed", "early"}) \cup causes
        \/ After(e, e.session, causes) = (upset[e.session] \cup {"missed"}) \cup causes
    BY Zenon DEF After
  <2>2. upset[e.session] \in SUBSET Causes /\ "missed" \in Causes
    BY DEF Causes
  <2>3. QED
    BY <2>1, <2>2
<1>3. upset' = [upset EXCEPT ![e.session] = After(e, e.session, causes)]
  BY DEF Publish
<1>4. QED
  BY <1>1, <1>2, <1>3

LEMMA EmptyQueue == <<>> \in Seq(Events) /\ Len(<<>>) = 0 /\ 0 <= QueueSize
<1>1. <<>> \in Seq(Events)
  OBVIOUS
<1>2. Len(<<>>) = 0
  OBVIOUS
<1>3. QED
  BY <1>1, <1>2, StreamAssumption

LEMMA DropQueueTyped ==
  ASSUME upset \in [Runs -> SUBSET Causes], DropQueue
  PROVE  /\ queue' \in Seq(Events) /\ Len(queue') <= QueueSize /\ connected' \in BOOLEAN
         /\ upset' \in [Runs -> SUBSET Causes] /\ \A s \in Runs : upset[s] \subseteq upset'[s]
<1>1. queue' = <<>> /\ connected' = FALSE
  BY DEF DropQueue
<1>2. upset' \in [Runs -> SUBSET Causes] /\ \A s \in Runs : upset[s] \subseteq upset'[s]
  BY DEF DropQueue, Causes
<1>3. queue' \in Seq(Events) /\ Len(queue') <= QueueSize
  BY <1>1, EmptyQueue
<1>4. QED
  BY <1>1, <1>2, <1>3

LEMMA OverwrittenTyped ==
  ASSUME upset \in [Runs -> SUBSET Causes], NEW sessions, upset' = Overwritten(sessions)
  PROVE  upset' \in [Runs -> SUBSET Causes] /\ \A s \in Runs : upset[s] \subseteq upset'[s]
  BY DEF Overwritten, Causes

LEMMA StreamTypedInit == ASSUME StreamInit PROVE StreamTyped
<1> USE StreamAssumption DEF StreamInit
<1>1. /\ stage \in [Runs -> Stages] /\ ckpt \in [Runs -> {"none", "set", "popped", "dropped"}]
      /\ asked \in [Runs -> 0..MaxAsked] /\ moved \in [Runs -> BOOLEAN]
  BY DEF Stages
<1>2. queue \in Seq(Events) /\ Len(queue) <= QueueSize /\ connected \in BOOLEAN
  BY EmptyQueue
<1>3. /\ traffic \in 0..MaxTraffic /\ starting \in -1..MaxSessions
      /\ upset \in [Runs -> SUBSET Causes]
      /\ tab \in [session : 0..MaxSessions, panel : Questions] /\ approval \in Approvals
  BY NothingAsked
<1>4. ApprovalOfTab
  BY NothingAsked DEF ApprovalOfTab
<1>5. QED
  BY <1>1, <1>2, <1>3, <1>4 DEF StreamTyped, StreamTypeOK, Approvals

(* What a session does to the server and to the queue: the state of that session
   alone, and at most one event of it. *)
LEMMA SessionEffect ==
  ASSUME StreamTypeOK, NEW s \in Runs, Session(s)
  PROVE  /\ UNCHANGED <<connected, tab, approval, starting>>
         /\ stage' \in [Runs -> Stages] /\ ckpt' \in [Runs -> {"none", "set", "popped", "dropped"}]
         /\ asked' \in [Runs -> 0..MaxAsked] /\ moved' \in [Runs -> BOOLEAN]
         /\ traffic' \in 0..MaxTraffic
         /\ stage[s] # "none" /\ stage'[s] # "none"
         /\ \A r \in Runs : r # s => /\ stage'[r] = stage[r] /\ ckpt'[r] = ckpt[r]
                                     /\ asked'[r] = asked[r] /\ moved'[r] = moved[r]
         /\ asked[s] <= asked'[s]
         /\ stage[s] \in {"blocked", "review"} =>
              stage'[s] \in {"blocked", "review"} /\ asked'[s] = asked[s]
         /\ \/ UNCHANGED <<queue, upset>>
            \/ \E e \in Events : e.session = s /\ e.owner = "user" /\ Publish(e, {})
<1> USE StreamAssumption DEF StreamTypeOK
<1>0. \A type \in Types : Event(type, s) \in Events /\ Event(type, s).session = s /\ Event(type, s).owner = "user"
  BY EventTyped
<1>1. CASE Dispatch(s)
  <2>1. Event("NOTE", s) \in Events /\ Event("NOTE", s).session = s /\ Event("NOTE", s).owner = "user"
    BY <1>0 DEF Types
  <2>2. QED
    BY <1>1, <2>1 DEF Dispatch, Go, TabUnchanged, Stages, Live
<1>2. CASE StepDone(s)
  <2>1. Event("KIO_DONE", s) \in Events /\ Event("KIO_DONE", s).session = s /\ Event("KIO_DONE", s).owner = "user"
    BY <1>0 DEF Types
  <2>2. QED
    BY <1>2, <2>1 DEF StepDone, Go, TabUnchanged, Stages, Live
<1>3. CASE Ask(s)
  <2>1. asked[s] + 1 \in 1..MaxAsked
    BY <1>3, RoomToAsk DEF Ask
  <2> DEFINE e == [type |-> "HITL_CHECKPOINT", session |-> s, no |-> asked[s] + 1, owner |-> "user"]
  <2>2. e \in Events /\ e.session = s /\ e.owner = "user"
    BY <2>1 DEF Events, Runs
  <2>3. Publish(e, {})
    BY <1>3, <2>1, AskedEvent DEF Ask
  <2> HIDE DEF e
  <2>4. QED
    BY <1>3, <2>1, <2>2, <2>3 DEF Ask, Go, TabUnchanged, SetCheckpoint, Stages, Live
<1>4. CASE CheckState(s)
  BY <1>4 DEF CheckState, Go, TabUnchanged, SetCheckpoint, Stages, Live
<1>5. CASE Reenter(s)
  <2>1. Event("HITL_CHECKPOINT", s) \in Events /\ Event("HITL_CHECKPOINT", s).session = s /\ Event("HITL_CHECKPOINT", s).owner = "user"
    BY <1>0 DEF Types
  <2>2. QED
    BY <1>5, <2>1 DEF Reenter, Go, TabUnchanged, SetCheckpoint, Stages, Live
<1>6. CASE NextStep(s)
  BY <1>6 DEF NextStep, Go, TabUnchanged, SetCheckpoint, Stages, Live
<1>7. ASSUME NEW from \in {"ready", "dispatched"}, NEW type \in Types, Finish(s, {from}, type)
      PROVE  /\ UNCHANGED <<connected, traffic, tab, approval, starting, asked, moved>>
             /\ stage' = [stage EXCEPT ![s] = "gone"] /\ stage[s] \in {"ready", "dispatched"}
             /\ ckpt' = [ckpt EXCEPT ![s] = "dropped"]
             /\ \E e \in Events : e.session = s /\ e.owner = "user" /\ Publish(e, {})
  BY <1>0, <1>7 DEF Finish, Go, TabUnchanged
<1>8. CASE Finish(s, {"ready"}, "WORKFLOW_COMPLETED") \/ Finish(s, {"dispatched"}, "WORKFLOW_FAILED")
  <2>1. /\ UNCHANGED <<connected, traffic, tab, approval, starting, asked, moved>>
        /\ stage' = [stage EXCEPT ![s] = "gone"] /\ stage[s] \in {"ready", "dispatched"}
        /\ ckpt' = [ckpt EXCEPT ![s] = "dropped"]
        /\ \E e \in Events : e.session = s /\ e.owner = "user" /\ Publish(e, {})
    BY <1>7, <1>8 DEF Types
  <2>2. QED
    BY <2>1 DEF Stages
<1>9. CASE Cancel(s)
  <2>1. PICK type \in Types : Publish(Event(type, s), {})
    BY <1>9 DEF Cancel, Types
  <2>2. QED
    BY <1>0, <1>9, <2>1 DEF Cancel
<1>10. QED
  BY <1>1, <1>2, <1>3, <1>4, <1>5, <1>6, <1>8, <1>9 DEF Session

LEMMA ReplyOpensSession ==
  ASSUME StreamTypeOK, RunReply
  PROVE  tab' \in [session : 0..MaxSessions, panel : Questions] /\ starting' \in -1..MaxSessions
<1>1. starting \in 0..MaxSessions /\ tab \in [session : 0..MaxSessions, panel : Questions]
  BY StreamAssumption DEF RunReply, StreamTypeOK
<1>2. tab' = [tab EXCEPT !.session = starting] /\ starting' = -1
  BY DEF RunReply
<1>3. tab' \in [session : 0..MaxSessions, panel : Questions]
  BY <1>1, <1>2
<1>4. QED
  BY <1>2, <1>3, StreamAssumption

LEMMA ApprovalKept ==
  ASSUME approval \in Approvals, NEW q \in Questions,
         \/ approval' = [approval EXCEPT !.at = "resolving", !.taken = q]
         \/ approval' = [approval EXCEPT !.at = "refused"]
         \/ approval' = [approval EXCEPT !.at = "approved"]
  PROVE  /\ approval' \in Approvals /\ approval'.at \in {"resolving", "refused", "approved"}
         /\ approval'.shown = approval.shown
         /\ approval'.taken = IF approval'.at = "resolving" THEN q ELSE approval.taken
  BY DEF Approvals

LEMMA ErrorLeaves ==
  ASSUME StreamTypeOK, ApproveError
  PROVE  /\ approval' = NoApproval
         /\ upset' \in [Runs -> SUBSET Causes] /\ \A s \in Runs : upset[s] \subseteq upset'[s]
         /\ approval.at = "refused" \/ "unheard" \in upset'[tab.session] \/ tab.session \notin Runs
         /\ \A s \in Runs : upset'[s] = upset[s] \/ upset'[s] = upset[s] \cup {"unheard"}
         /\ traffic' \in 0..MaxTraffic
         /\ UNCHANGED <<serverVars, queue, connected, tab, starting>>
<1>1. CASE approval.at = "refused" /\ UNCHANGED <<traffic, upset>>
  BY <1>1 DEF StreamTypeOK, ApproveError
<1>2. CASE /\ traffic < MaxTraffic /\ traffic' = traffic + 1
           /\ upset' = [upset EXCEPT ![tab.session] = @ \cup {"unheard"}]
  <2>1. traffic' \in 0..MaxTraffic
    BY <1>2, StreamAssumption DEF StreamTypeOK
  <2>2. /\ upset' \in [Runs -> SUBSET Causes] /\ \A s \in Runs : upset[s] \subseteq upset'[s]
        /\ "unheard" \in upset'[tab.session] \/ tab.session \notin Runs
        /\ \A s \in Runs : upset'[s] = upset[s] \/ upset'[s] = upset[s] \cup {"unheard"}
    BY <1>2 DEF StreamTypeOK, Causes
  <2>3. QED
    BY <1>2, <2>1, <2>2 DEF ApproveError
<1>3. QED
  BY <1>1, <1>2 DEF ApproveError

(* What a delivery shows *)
LEMMA DeliverEffect ==
  ASSUME StreamTypeOK, Deliver
  PROVE  /\ connected /\ queue # <<>> /\ queue' = Tail(queue) /\ Head(queue) \in Events
         /\ UNCHANGED <<serverVars, connected, traffic, approval, starting>>
         /\ tab' \in [session : 0..MaxSessions, panel : Questions] /\ tab'.session = tab.session
         /\ upset' \in [Runs -> SUBSET Causes]
         /\ LET e == Head(queue)
            IN /\ \/ tab'.panel = tab.panel
                  \/ tab'.panel = NoQuestion
                  \/ /\ e.type = "HITL_CHECKPOINT"
                     /\ tab'.panel = [session |-> e.session, no |-> e.no]
               /\ e.owner = "user" /\ e.type = "HITL_CHECKPOINT" => tab'.panel = [session |-> e.session, no |-> e.no]
               /\ e.owner = "user" /\ e.type \in Clearing => tab'.panel = NoQuestion
               /\ \A s \in Runs :
                    /\ upset[s] \ {"overwritten"} \subseteq upset'[s]
                    /\ upset'[s] \subseteq upset[s] \cup {"overwritten", "late"}
                    /\ ~Telling(e, s) => upset[s] \subseteq upset'[s]
                    /\ ~Telling(e, s) /\ tab'.panel # tab.panel => "overwritten" \in upset'[s]
                    /\ e.session = s /\ e.type = "HITL_CHECKPOINT" /\ ~Pending(s, e.no) => "late" \in upset'[s]
<1> DEFINE e == Head(queue)
<1>1. /\ tab \in [session : 0..MaxSessions, panel : Questions] /\ e \in Events /\ NoQuestion \in Questions
      /\ upset \in [Runs -> SUBSET Causes]
  BY NothingAsked DEF StreamTypeOK, Deliver
<1>2. [session |-> e.session, no |-> e.no] \in Questions
  BY <1>1 DEF Events, Questions
<1>3. "HITL_CHECKPOINT" \notin Clearing
  BY DEF Clearing
<1>4. PICK shown :
        /\ shown = CASE e.owner = "other" -> tab.panel
                     [] e.owner = "user" /\ e.type = "HITL_CHECKPOINT" -> [session |-> e.session, no |-> e.no]
                     [] e.owner = "user" /\ e.type \in Clearing -> NoQuestion
                     [] OTHER -> tab.panel
        /\ tab' = [tab EXCEPT !.panel = shown]
        /\ upset' = [s \in Runs |->
             IF Telling(e, s)
             THEN (upset[s] \ {"overwritten"}) \cup (IF Late(e) THEN {"late"} ELSE {})
             ELSE IF shown = tab.panel THEN upset[s] ELSE upset[s] \cup {"overwritten"}]
  BY Zenon DEF Deliver
<1>5. /\ \/ shown = tab.panel \/ shown = NoQuestion
         \/ e.type = "HITL_CHECKPOINT" /\ shown = [session |-> e.session, no |-> e.no]
      /\ e.owner = "user" /\ e.type = "HITL_CHECKPOINT" => shown = [session |-> e.session, no |-> e.no]
      /\ e.owner = "user" /\ e.type \in Clearing => shown = NoQuestion
  BY <1>3, <1>4, Zenon
<1> HIDE DEF e
<1>6. /\ tab' \in [session : 0..MaxSessions, panel : Questions] /\ tab'.session = tab.session
      /\ tab'.panel = shown
  BY <1>1, <1>2, <1>4, <1>5
<1>7. \A s \in Runs : upset'[s] = IF Telling(e, s)
             THEN (upset[s] \ {"overwritten"}) \cup (IF Late(e) THEN {"late"} ELSE {})
             ELSE IF shown = tab.panel THEN upset[s] ELSE upset[s] \cup {"overwritten"}
  BY <1>4
<1>8. upset' \in [Runs -> SUBSET Causes]
  BY <1>1, <1>4 DEF Causes
<1>9. \A s \in Runs :
        /\ upset[s] \ {"overwritten"} \subseteq upset'[s]
        /\ upset'[s] \subseteq upset[s] \cup {"overwritten", "late"}
        /\ ~Telling(e, s) => upset[s] \subseteq upset'[s]
        /\ ~Telling(e, s) /\ tab'.panel # tab.panel => "overwritten" \in upset'[s]
        /\ e.session = s /\ e.type = "HITL_CHECKPOINT" /\ ~Pending(s, e.no) => "late" \in upset'[s]
  BY <1>6, <1>7 DEF Telling, Late
<1>10. QED
  BY <1>1, <1>5, <1>6, <1>8, <1>9 DEF Deliver, e

LEMMA StreamTypedStep ==
  ASSUME StreamTyped, [StreamNext]_streamVars
  PROVE  StreamTyped'
<1> USE StreamAssumption DEF StreamTyped, StreamTypeOK
<1>a. upset \in [Runs -> SUBSET Causes] /\ approval \in Approvals
  BY DEF Approvals
<1>b. /\ NoQuestion \in Questions /\ NoApproval \in Approvals /\ NoApproval.at = "none"
  BY NothingAsked
<1> HIDE DEF Approvals
<1>1. ASSUME NEW s \in Runs, Session(s) PROVE StreamTyped'
  <2>1. /\ queue' \in Seq(Events) /\ Len(queue') <= QueueSize /\ upset' \in [Runs -> SUBSET Causes]
    <3>1. CASE UNCHANGED <<queue, upset>>
      BY <1>a, <3>1
    <3>2. CASE \E e \in Events : e.session = s /\ e.owner = "user" /\ Publish(e, {})
      BY <1>a, <3>2, PublishTyped
    <3>3. QED
      BY <1>1, <3>1, <3>2, SessionEffect
  <2>2. StreamTypeOK'
    BY <1>1, <2>1, SessionEffect
  <2>3. QED
    BY <1>1, <2>2, SessionEffect DEF ApprovalOfTab
<1>2. CASE Traffic
  <2>1. PICK e \in Foreign : queue' = IF Heard THEN Append(queue, e) ELSE queue
    BY <1>2 DEF Traffic
  <2>2. queue' \in Seq(Events) /\ Len(queue') <= QueueSize
    BY <2>1, ForeignTyped DEF Heard
  <2>3. QED
    BY <1>2, <2>2 DEF Traffic, serverVars, ApprovalOfTab
<1>3. CASE Connect
  BY <1>3 DEF Connect, serverVars, ApprovalOfTab
<1>4. CASE LoseConnection
  <2>1. /\ queue' \in Seq(Events) /\ Len(queue') <= QueueSize /\ connected' \in BOOLEAN
        /\ upset' \in [Runs -> SUBSET Causes]
    BY <1>a, <1>4, DropQueueTyped DEF LoseConnection
  <2>2. QED
    BY <1>4, <2>1 DEF LoseConnection, serverVars, ApprovalOfTab
<1>5. CASE Deliver
  <2>1. Head(queue) \in Events /\ Tail(queue) \in Seq(Events) /\ Len(Tail(queue)) <= QueueSize
    BY <1>5 DEF Deliver
  <2>2. /\ tab' \in [session : 0..MaxSessions, panel : Questions] /\ tab'.session = tab.session
        /\ upset' \in [Runs -> SUBSET Causes]
    BY <1>5, DeliverEffect
  <2>3. QED
    BY <1>5, <2>1, <2>2 DEF Deliver, serverVars, ApprovalOfTab
<1>6. CASE StartWorkflow
  <2>1. tab' \in [session : 0..MaxSessions, panel : Questions] /\ tab'.session = tab.session
    BY <1>6, <1>b DEF StartWorkflow
  <2>2. starting' \in -1..MaxSessions
    BY <1>6 DEF StartWorkflow
  <2>3. upset' \in [Runs -> SUBSET Causes]
    BY <1>6, <1>a, OverwrittenTyped DEF StartWorkflow
  <2>4. QED
    BY <1>6, <2>1, <2>2, <2>3, <1>b DEF StartWorkflow, serverVars, ApprovalOfTab
<1>7. CASE ServeRun
  <2>1. PICK s \in Runs : /\ stage' = [stage EXCEPT ![s] = "ready"] /\ starting' = s
                          /\ queue' = IF Heard THEN Append(queue, Event("NOTE", s)) ELSE queue
                          /\ upset' = [upset EXCEPT ![s] = IF tab.panel = NoQuestion THEN {}
                                                          ELSE {"overwritten"}]
    BY <1>7 DEF ServeRun
  <2>2. Event("NOTE", s) \in Events
    BY EventTyped DEF Types
  <2>3. /\ queue' \in Seq(Events) /\ Len(queue') <= QueueSize
        /\ upset' \in [Runs -> SUBSET Causes]
    BY <2>1, <2>2 DEF Heard, Causes
  <2>4. stage' \in [Runs -> Stages] /\ starting' \in -1..MaxSessions
    BY <2>1 DEF Stages, Live, Runs
  <2>5. QED
    BY <1>7, <2>3, <2>4 DEF ServeRun, ApprovalOfTab
<1>8. CASE RunReply
  <2>1. /\ queue' \in Seq(Events) /\ Len(queue') <= QueueSize /\ connected' \in BOOLEAN
        /\ upset' \in [Runs -> SUBSET Causes]
    BY <1>a, <1>8, DropQueueTyped DEF RunReply
  <2>3. tab' \in [session : 0..MaxSessions, panel : Questions] /\ starting' \in -1..MaxSessions
    BY <1>8, ReplyOpensSession
  <2>4. ApprovalOfTab'
    BY <1>8, <1>b DEF RunReply, ApprovalOfTab
  <2>5. QED
    BY <1>8, <2>1, <2>3, <2>4 DEF RunReply, serverVars
<1>9. CASE Approve
  <2>1. approval' \in Approvals /\ approval'.at = "sent" /\ tab.session \in Runs
    BY <1>9, <1>b DEF Approve, Approvals, Runs
  <2>2. QED
    BY <1>9, <2>1 DEF Approve, serverVars, ApprovalOfTab, Approvals
<1>10. CASE ServeApprove
  <2>1. tab.session \in Runs
    BY <1>10 DEF ServeApprove, ApprovalOfTab
  <2>2. Question(tab.session) \in Questions
    BY <2>1 DEF Question, Questions, Runs
  <2>3. approval' \in Approvals /\ approval'.at # "none"
    <3>1. approval' = [approval EXCEPT !.at = "resolving", !.taken = Question(tab.session)]
          \/ approval' = [approval EXCEPT !.at = "refused"]
      BY <1>10 DEF ServeApprove
    <3>2. QED
      BY <1>a, <2>2, <3>1, ApprovalKept
  <2>4. ckpt' \in [Runs -> {"none", "set", "popped", "dropped"}]
    <3>1. ckpt' = [ckpt EXCEPT ![tab.session] = "popped"] \/ ckpt' = ckpt
      BY <1>10 DEF ServeApprove
    <3>2. QED
      BY <3>1
  <2>5. starting = -1
    BY <1>10, <1>b DEF ServeApprove, ApprovalOfTab
  <2>6. QED
    BY <1>10, <2>1, <2>3, <2>4, <2>5 DEF ServeApprove, ApprovalOfTab, Approvals
<1>11. CASE Resume
  <2>1. tab.session \in Runs /\ starting = -1
    BY <1>11, <1>b DEF Resume, ApprovalOfTab
  <2>2. Event("HITL_APPROVED", tab.session) \in Events /\ Event("HITL_APPROVED", tab.session).session \in Runs
    BY <2>1, EventTyped DEF Types
  <2>3. PICK causes \in SUBSET Causes : Publish(Event("HITL_APPROVED", tab.session), causes)
    BY <1>11 DEF Resume, Causes
  <2>4. queue' \in Seq(Events) /\ Len(queue') <= QueueSize /\ upset' \in [Runs -> SUBSET Causes]
    BY <1>a, <2>2, <2>3, PublishTyped
  <2>5. approval' \in Approvals /\ approval'.at = "approved"
    BY <1>11, <1>a DEF Resume, Approvals
  <2>6. stage' \in [Runs -> Stages]
    BY <1>11 DEF Resume, Stages, Live
  <2>7. QED
    BY <1>11, <2>1, <2>4, <2>5, <2>6 DEF Resume, ApprovalOfTab, Approvals
<1>12. CASE ApproveReply
  <2>1. tab' \in [session : 0..MaxSessions, panel : Questions]
    BY <1>12, <1>b DEF ApproveReply
  <2>2. upset' \in [Runs -> SUBSET Causes]
    BY <1>12, <1>a, OverwrittenTyped DEF ApproveReply
  <2>3. QED
    BY <1>12, <1>b, <2>1, <2>2 DEF ApproveReply, serverVars, ApprovalOfTab, Approvals
<1>13. CASE ApproveError
  <2>1. /\ upset' \in [Runs -> SUBSET Causes] /\ traffic' \in 0..MaxTraffic /\ approval' = NoApproval
        /\ UNCHANGED <<serverVars, queue, connected, tab, starting>>
    BY <1>13, <1>a, ErrorLeaves
  <2>2. QED
    BY <1>b, <2>1 DEF serverVars, ApprovalOfTab, Approvals
<1>14. CASE RunFails
  <2>1. traffic' \in 0..MaxTraffic /\ starting' \in -1..MaxSessions
    BY <1>14 DEF RunFails
  <2>2. QED
    BY <1>14, <2>1, <1>b DEF RunFails, serverVars, ApprovalOfTab
<1>15. CASE UNCHANGED streamVars
  BY <1>15 DEF streamVars, serverVars, ApprovalOfTab
<1>16. QED
  BY <1>1, <1>2, <1>3, <1>4, <1>5, <1>6, <1>7, <1>8, <1>9, <1>10, <1>11, <1>12, <1>13, <1>14, <1>15
     DEF StreamNext, Client

(* However many sessions the tab starts: every variable keeps its type, and the
   queue on the bus its bound. *)
THEOREM StreamTypesHold == StreamSpec => []StreamTypeOK
<1>1. StreamTyped => StreamTypeOK
  BY DEF StreamTyped
<1>2. QED
  BY <1>1, StreamTypedInit, StreamTypedStep, PTL DEF StreamSpec

LEMMA StreamIsTyped == StreamSpec => []StreamTyped
  BY StreamTypedInit, StreamTypedStep, PTL DEF StreamSpec

-----------------------------------------------------------------------------
(* Sessions that the tab can name *)

(* A session that the tab can name exists: by its events, which do not bear another
   user's name, by its panel, by the reply it waits for. *)
KnownEvent(e, stages) ==
  e.session # 0 /\ (e.session \in Runs => stages[e.session] # "none" /\ e.owner = "user")

SessionsAreKnown ==
  /\ tab.panel.session = 0 => tab.panel = NoQuestion
  /\ \A s \in Runs :
       tab.panel.session = s \/ tab.session = s \/ starting = s => stage[s] # "none"
  /\ \A i \in DOMAIN queue : KnownEvent(queue[i], stage)

LEMMA AppendEvent ==
  ASSUME NEW q \in Seq(Events), NEW e \in Events
  PROVE  /\ DOMAIN Append(q, e) = 1..(Len(q) + 1) /\ DOMAIN q = 1..Len(q) /\ Len(q) \in Nat
         /\ Append(q, e)[Len(q) + 1] = e
         /\ \A i \in 1..Len(q) : Append(q, e)[i] = q[i]
  OBVIOUS

LEMMA TakeEvent ==
  ASSUME NEW q \in Seq(Events), q # <<>>
  PROVE  /\ DOMAIN q = 1..Len(q) /\ DOMAIN Tail(q) = 1..(Len(q) - 1) /\ Len(q) \in Nat \ {0}
         /\ Head(q) = q[1] /\ Head(q) \in Events
         /\ \A i \in 1..(Len(q) - 1) : Tail(q)[i] = q[i + 1]
<1>1. Len(q) \in Nat \ {0} /\ DOMAIN q = 1..Len(q)
  OBVIOUS
<1>2. Head(q) = q[1] /\ Head(q) \in Events
  BY <1>1
<1>3. Tail(q) \in Seq(Events) /\ Len(Tail(q)) = Len(q) - 1
  BY <1>1
<1>4. DOMAIN Tail(q) = 1..(Len(q) - 1) /\ \A i \in 1..(Len(q) - 1) : Tail(q)[i] = q[i + 1]
  BY <1>1, <1>3
<1>5. QED
  BY <1>1, <1>2, <1>4

LEMMA KnownInit == ASSUME StreamInit PROVE SessionsAreKnown
<1>1. /\ tab.panel = NoQuestion /\ tab.session = 0 /\ starting = -1 /\ queue = <<>>
      /\ NoQuestion.session = 0
  BY NothingAsked DEF StreamInit
<1>2. QED
  BY <1>1 DEF SessionsAreKnown, Runs

LEMMA PublishKnown ==
  ASSUME StreamTypeOK, NEW e \in Events, queue' = queue \/ queue' = Append(queue, e),
         \A r \in Runs : stage[r] # "none" => stage'[r] # "none",
         \A i \in DOMAIN queue : KnownEvent(queue[i], stage),
         e.session # 0, e.session \in Runs => stage'[e.session] # "none" /\ e.owner = "user"
  PROVE  \A i \in DOMAIN queue' : KnownEvent(queue'[i], stage')
<1>1. \A i \in DOMAIN queue : KnownEvent(queue[i], stage')
  BY DEF KnownEvent
<1>2. KnownEvent(e, stage')
  BY DEF KnownEvent
<1>3. CASE queue' = queue
  BY <1>1, <1>3
<1>4. CASE queue' = Append(queue, e)
  BY <1>1, <1>2, <1>4, AppendEvent DEF StreamTypeOK, KnownEvent
<1>5. QED
  BY <1>3, <1>4

LEMMA KnownStep ==
  ASSUME StreamTyped, SessionsAreKnown, [StreamNext]_streamVars
  PROVE  SessionsAreKnown'
<1> StreamTypeOK /\ ApprovalOfTab
  BY DEF StreamTyped
<1>a. queue \in Seq(Events) /\ tab \in [session : 0..MaxSessions, panel : Questions]
  BY DEF StreamTypeOK
<1>1. ASSUME NEW s \in Runs, Session(s) PROVE SessionsAreKnown'
  <2>1. /\ UNCHANGED <<connected, tab, starting>> /\ stage[s] # "none" /\ stage'[s] # "none"
        /\ \A r \in Runs : r # s => stage'[r] = stage[r]
    BY <1>1, SessionEffect
  <2>2. \A r \in Runs : stage[r] # "none" => stage'[r] # "none"
    BY <2>1
  <2>3. \A i \in DOMAIN queue' : KnownEvent(queue'[i], stage')
    <3>1. CASE queue' = queue
      BY <2>2, <3>1 DEF SessionsAreKnown, KnownEvent
    <3>2. CASE \E e \in Events : e.session = s /\ e.owner = "user" /\ Publish(e, {})
      <4>1. PICK e \in Events : e.session = s /\ e.owner = "user" /\ Publish(e, {})
        BY <3>2
      <4>2. queue' = queue \/ queue' = Append(queue, e)
        BY <4>1 DEF Publish
      <4>3. QED
        BY <2>1, <2>2, <4>1, <4>2, PublishKnown DEF SessionsAreKnown, Runs
    <3>3. QED
      BY <1>1, <3>1, <3>2, SessionEffect
  <2>4. QED
    BY <2>1, <2>2, <2>3 DEF SessionsAreKnown
<1>2. CASE Traffic
  <2>1. PICK e \in Foreign : queue' = IF Heard THEN Append(queue, e) ELSE queue
    BY <1>2 DEF Traffic
  <2>2. e \in Events /\ e.session = Stranger /\ Stranger # 0 /\ Stranger \notin Runs
    BY ForeignTyped DEF Stranger, Runs, StreamTypeOK
  <2>3. UNCHANGED <<stage, tab, starting>>
    BY <1>2 DEF Traffic, serverVars
  <2>4. \A i \in DOMAIN queue' : KnownEvent(queue'[i], stage')
    BY <2>1, <2>2, <2>3, PublishKnown DEF SessionsAreKnown
  <2>5. QED
    BY <2>3, <2>4 DEF SessionsAreKnown
<1>3. CASE Connect \/ RunFails
  BY <1>3, <1>a DEF Connect, RunFails, serverVars, SessionsAreKnown, KnownEvent, Runs
<1>4. CASE LoseConnection
  BY <1>4 DEF LoseConnection, DropQueue, serverVars, SessionsAreKnown, KnownEvent
<1>5. CASE Deliver
  <2>1. /\ queue # <<>> /\ queue' = Tail(queue) /\ tab'.session = tab.session
        /\ UNCHANGED <<stage, connected, starting>>
    BY <1>5, DeliverEffect DEF serverVars
  <2>2. \A i \in DOMAIN queue' : \E j \in DOMAIN queue : queue'[i] = queue[j]
    BY <1>a, <2>1, TakeEvent
  <2>3. 1 \in DOMAIN queue /\ Head(queue) = queue[1] /\ Head(queue) \in Events
    BY <1>a, <2>1, TakeEvent
  <2>4. \/ tab'.panel = tab.panel
        \/ tab'.panel = NoQuestion
        \/ tab'.panel = [session |-> Head(queue).session, no |-> Head(queue).no]
    BY <1>5, DeliverEffect
  <2>a. KnownEvent(Head(queue), stage)
    BY <2>3 DEF SessionsAreKnown
  <2>5. /\ tab'.panel.session = 0 => tab'.panel = NoQuestion
        /\ \A s \in Runs : tab'.panel.session = s => stage[s] # "none"
    BY <2>a, <2>4, NothingAsked DEF SessionsAreKnown, KnownEvent, Runs
  <2>6. QED
    BY <2>1, <2>2, <2>5 DEF SessionsAreKnown, KnownEvent
<1>6. CASE StartWorkflow
  <2>1. tab'.session = tab.session /\ tab'.panel = NoQuestion /\ starting' = 0
    BY <1>6, <1>a DEF StartWorkflow
  <2>2. QED
    BY <1>6, <2>1, NothingAsked DEF StartWorkflow, serverVars, SessionsAreKnown, KnownEvent, Runs
<1>7. CASE ServeRun
  <2>1. PICK s \in Runs : /\ stage' = [stage EXCEPT ![s] = "ready"] /\ starting' = s
                          /\ queue' = IF Heard THEN Append(queue, Event("NOTE", s)) ELSE queue
    BY <1>7 DEF ServeRun
  <2>2. /\ Event("NOTE", s) \in Events /\ Event("NOTE", s).session = s
        /\ Event("NOTE", s).owner = "user"
    BY EventTyped DEF Types, StreamTypeOK
  <2>3. \A r \in Runs : stage[r] # "none" \/ r = s => stage'[r] # "none"
    BY <2>1 DEF StreamTypeOK
  <2>4. \A i \in DOMAIN queue' : KnownEvent(queue'[i], stage')
    <3>1. queue' = queue \/ queue' = Append(queue, Event("NOTE", s))
      BY <2>1
    <3>2. Event("NOTE", s).session # 0 /\ stage'[s] # "none"
      BY <2>2, <2>3 DEF Runs
    <3>3. QED
      BY <2>2, <2>3, <3>1, <3>2, PublishKnown DEF SessionsAreKnown
  <2>5. QED
    BY <1>7, <2>1, <2>3, <2>4 DEF ServeRun, SessionsAreKnown
<1>8. CASE RunReply
  <2>1. tab'.session = starting /\ tab'.panel = tab.panel /\ starting' = -1 /\ starting > 0
    BY <1>8, <1>a DEF RunReply
  <2>2. QED
    BY <1>8, <2>1 DEF RunReply, DropQueue, serverVars, SessionsAreKnown, KnownEvent, Runs
<1>9. CASE Approve \/ ServeApprove \/ ApproveError
  BY <1>9, ErrorLeaves DEF Approve, ServeApprove, serverVars, SessionsAreKnown, KnownEvent
<1>10. CASE Resume
  <2>1. tab.session \in Runs
    BY <1>10 DEF Resume, ApprovalOfTab
  <2>2. \A r \in Runs : stage[r] # "none" => stage'[r] # "none"
    BY <1>10, <2>1 DEF Resume, StreamTypeOK
  <2>3. /\ Event("HITL_APPROVED", tab.session) \in Events
        /\ Event("HITL_APPROVED", tab.session).session = tab.session
        /\ Event("HITL_APPROVED", tab.session).owner = "user"
    BY <2>1, EventTyped DEF Types, StreamTypeOK
  <2>4. queue' = queue \/ queue' = Append(queue, Event("HITL_APPROVED", tab.session))
    BY <1>10 DEF Resume, Publish
  <2>5. stage[tab.session] # "none"
    BY <2>1 DEF SessionsAreKnown
  <2>6. \A i \in DOMAIN queue' : KnownEvent(queue'[i], stage')
    BY <2>1, <2>2, <2>3, <2>4, <2>5, PublishKnown DEF SessionsAreKnown, Runs
  <2>7. QED
    BY <1>10, <2>2, <2>6 DEF Resume, SessionsAreKnown
<1>11. CASE ApproveReply
  <2>1. tab'.session = tab.session /\ tab'.panel = NoQuestion
    BY <1>11, <1>a DEF ApproveReply
  <2>2. QED
    BY <1>11, <2>1, NothingAsked DEF ApproveReply, serverVars, SessionsAreKnown, KnownEvent, Runs
<1>12. CASE UNCHANGED streamVars
  BY <1>12 DEF streamVars, serverVars, SessionsAreKnown, KnownEvent
<1>13. QED
  BY <1>1, <1>2, <1>3, <1>4, <1>5, <1>6, <1>7, <1>8, <1>9, <1>10, <1>11, <1>12
     DEF StreamNext, Client

-----------------------------------------------------------------------------
(* The question that is approved *)

(* What the session took is a question that it has asked. *)
TakenIsOfTab ==
  /\ approval.at \in {"none", "sent", "refused"} => approval.taken = NoQuestion
  /\ approval.at \in {"resolving", "approved"} =>
       approval.taken.session = tab.session /\ approval.taken.no <= asked[tab.session]

(* The session has not gone on since it asked this question. *)
IsOpen(p) == stage[p.session] \in {"blocked", "review"} /\ p.no = asked[p.session]

(* Without a late question and an unheard answer, a question is open while the panel
   shows it, unless the session has taken its answer, and while a request for it is on
   its way. *)
ShownIsOpen ==
  \A s \in Runs : upset[s] \cap {"late", "unheard"} = {} =>
    /\ tab.panel.session = s /\ (approval.at \in {"none", "sent", "refused"} \/ s # tab.session) =>
         IsOpen(tab.panel)
    /\ approval.at = "sent" /\ approval.shown.session = s /\ s = tab.session => IsOpen(approval.shown)

ApprovalInv == TakenIsOfTab /\ ShownIsOpen /\ ApprovesWhatIsShown

LEMMA ApprovalInit == ASSUME StreamInit PROVE ApprovalInv
  BY NothingAsked DEF StreamInit, ApprovalInv, TakenIsOfTab, ShownIsOpen, ApprovesWhatIsShown, Runs

LEMMA AnswerIsOfRun ==
  ASSUME StreamTyped, TakenIsOfTab
  PROVE  approval.taken # NoQuestion => tab.session \in Runs
  BY NothingAsked DEF StreamTyped, StreamTypeOK, ApprovalOfTab, TakenIsOfTab

LEMMA SessionLeavesCauses ==
  ASSUME StreamTypeOK, NEW s \in Runs, Session(s)
  PROVE  /\ \A r \in Runs : upset[r] \ {"missed", "early"} \subseteq upset'[r]
         /\ \A r \in Runs : r # s => upset'[r] = upset[r]
<1>1. CASE UNCHANGED <<queue, upset>>
  BY <1>1
<1>2. CASE \E e \in Events : e.session = s /\ e.owner = "user" /\ Publish(e, {})
  BY <1>2, PublishTyped DEF StreamTypeOK
<1>3. QED
  BY <1>1, <1>2, SessionEffect

(* A session leaves an open question open, and no number decreases. *)
LEMMA SessionKeepsApproval ==
  ASSUME StreamTyped, SessionsAreKnown, ApprovalInv, NEW s \in Runs, Session(s)
  PROVE  ApprovalInv'
<1> StreamTypeOK /\ ApprovalOfTab
  BY DEF StreamTyped
<1>1. /\ UNCHANGED <<connected, tab, approval, starting>>
      /\ \A r \in Runs : asked[r] <= asked'[r]
      /\ \A r \in Runs : stage[r] \in {"blocked", "review"} =>
           stage'[r] \in {"blocked", "review"} /\ asked'[r] = asked[r]
  <2>1. /\ UNCHANGED <<connected, tab, approval, starting>>
        /\ \A r \in Runs : r # s => stage'[r] = stage[r] /\ asked'[r] = asked[r]
        /\ asked[s] <= asked'[s]
        /\ stage[s] \in {"blocked", "review"} =>
             stage'[s] \in {"blocked", "review"} /\ asked'[s] = asked[s]
    BY SessionEffect
  <2>2. \A r \in Runs : asked[r] \in Int
    BY DEF StreamTypeOK
  <2>3. \A r \in Runs : asked[r] <= asked'[r]
    BY <2>1, <2>2
  <2>4. QED
    BY <2>1, <2>3
<1>2. \A r \in Runs : upset[r] \ {"missed", "early"} \subseteq upset'[r]
  BY SessionLeavesCauses
<1>3. TakenIsOfTab'
  <2>1. ASSUME approval.at \in {"resolving", "approved"}
        PROVE  approval.taken.no <= asked'[tab.session]
    <3>1. tab.session \in Runs
      BY <2>1 DEF ApprovalOfTab
    <3>2. asked[tab.session] <= asked'[tab.session] /\ approval.taken.no <= asked[tab.session]
      BY <1>1, <2>1, <3>1 DEF ApprovalInv, TakenIsOfTab
    <3>3. /\ asked[tab.session] \in Int /\ asked'[tab.session] \in Int /\ approval.taken.no \in Int
      BY <3>1, SessionEffect DEF StreamTypeOK, Questions
    <3>4. QED
      BY <3>2, <3>3
  <2>2. QED
    BY <1>1, <2>1 DEF ApprovalInv, TakenIsOfTab
<1>4. ShownIsOpen'
  <2>1. \A r \in Runs : \A p \in Questions : p.session = r /\ IsOpen(p) => IsOpen(p)'
    BY <1>1 DEF IsOpen
  <2>2. tab.panel \in Questions /\ approval.shown \in Questions
    BY DEF StreamTypeOK
  <2>3. SUFFICES ASSUME NEW r \in Runs, upset'[r] \cap {"late", "unheard"} = {}
                 PROVE  /\ tab.panel.session = r
                             /\ (approval.at \in {"none", "sent", "refused"} \/ r # tab.session) =>
                             IsOpen(tab.panel)'
                        /\ approval.at = "sent" /\ approval.shown.session = r /\ r = tab.session =>
                             IsOpen(approval.shown)'
    BY <1>1 DEF ShownIsOpen, IsOpen
  <2>4. upset[r] \cap {"late", "unheard"} = {}
    BY <1>2, <2>3
  <2>5. /\ tab.panel.session = r /\ (approval.at \in {"none", "sent", "refused"} \/ r # tab.session) =>
              IsOpen(tab.panel)
        /\ approval.at = "sent" /\ approval.shown.session = r /\ r = tab.session => IsOpen(approval.shown)
    BY <2>4 DEF ApprovalInv, ShownIsOpen
  <2>6. /\ tab.panel.session = r /\ IsOpen(tab.panel) => IsOpen(tab.panel)'
        /\ approval.shown.session = r /\ IsOpen(approval.shown) => IsOpen(approval.shown)'
    BY <1>1, <2>2, <2>1 DEF IsOpen
  <2>7. QED
    BY <2>5, <2>6
<1>5. ApprovesWhatIsShown'
  BY <1>1, <1>2, AnswerIsOfRun DEF ApprovalInv, ApprovesWhatIsShown
<1>6. QED
  BY <1>3, <1>4, <1>5 DEF ApprovalInv

(* Steps that leave the sessions and the request alone, and the panel or clear it *)
LEMMA OthersKeepApproval ==
  ASSUME StreamTyped, SessionsAreKnown, ApprovalInv, \A s \in Runs : upset[s] \subseteq upset'[s],
         UNCHANGED <<stage, asked, approval>>,
         tab'.session = tab.session \/ approval = NoApproval,
         tab'.panel = tab.panel \/ tab'.panel = NoQuestion
  PROVE  ApprovalInv'
<1>1. TakenIsOfTab'
  BY NothingAsked DEF ApprovalInv, TakenIsOfTab
<1>2. ShownIsOpen'
  BY NothingAsked DEF ApprovalInv, ShownIsOpen, IsOpen, Runs
<1>3. ApprovesWhatIsShown'
  BY NothingAsked, AnswerIsOfRun DEF ApprovalInv, ApprovesWhatIsShown
<1>4. QED
  BY <1>1, <1>2, <1>3 DEF ApprovalInv

LEMMA DeliverKeepsApproval ==
  ASSUME StreamTyped, SessionsAreKnown, ApprovalInv, Deliver
  PROVE  ApprovalInv'
<1> StreamTypeOK
  BY DEF StreamTyped
<1> DEFINE e == Head(queue)
<1>1. /\ tab'.session = tab.session
      /\ \A s \in Runs : upset[s] \ {"overwritten"} \subseteq upset'[s]
      /\ UNCHANGED <<stage, asked, ckpt, approval>>
  BY DeliverEffect DEF serverVars
<1>2. \/ tab'.panel = tab.panel
      \/ tab'.panel = NoQuestion
      \/ /\ tab'.panel = [session |-> e.session, no |-> e.no]
         /\ e.session \in Runs /\ ~Pending(e.session, e.no) => "late" \in upset'[e.session]
  BY DeliverEffect
<1>3. TakenIsOfTab' /\ ApprovesWhatIsShown'
  BY <1>1, AnswerIsOfRun DEF ApprovalInv, TakenIsOfTab, ApprovesWhatIsShown
<1> HIDE DEF e
<1>4. ShownIsOpen'
  <2>1. CASE tab'.panel = tab.panel
    BY <1>1, <2>1 DEF ApprovalInv, ShownIsOpen, IsOpen
  <2>2. CASE tab'.panel = NoQuestion
    BY <1>1, <2>2, NothingAsked DEF ApprovalInv, ShownIsOpen, IsOpen, Runs
  <2>3. CASE /\ tab'.panel = [session |-> e.session, no |-> e.no]
             /\ e.session \in Runs /\ ~Pending(e.session, e.no) => "late" \in upset'[e.session]
    BY <1>1, <2>3 DEF ApprovalInv, ShownIsOpen, IsOpen, Pending
  <2>4. QED
    BY <1>2, <2>1, <2>2, <2>3
<1>5. QED
  BY <1>3, <1>4 DEF ApprovalInv

(* A session that is new is shown nowhere. *)
LEMMA ServeRunKeepsApproval ==
  ASSUME StreamTyped, SessionsAreKnown, ApprovalInv, ServeRun
  PROVE  ApprovalInv'
<1> StreamTypeOK /\ ApprovalOfTab
  BY DEF StreamTyped
<1>1. PICK s \in Runs : /\ stage[s] = "none" /\ starting' = s
                        /\ stage' = [stage EXCEPT ![s] = "ready"]
                        /\ upset' = [upset EXCEPT ![s] = IF tab.panel = NoQuestion THEN {}
                                                        ELSE {"overwritten"}]
  BY DEF ServeRun
<1>2. approval = NoApproval /\ UNCHANGED <<asked, tab, approval>>
  BY DEF ServeRun, ApprovalOfTab
<1>3. tab.panel.session # s
  BY <1>1 DEF SessionsAreKnown
<1>4. \A r \in Runs : r # s => upset'[r] = upset[r] /\ stage'[r] = stage[r]
  BY <1>1 DEF StreamTypeOK
<1>5. ShownIsOpen'
  BY <1>2, <1>3, <1>4, NothingAsked DEF ApprovalInv, ShownIsOpen, IsOpen
<1>6. QED
  BY <1>2, <1>5, NothingAsked DEF ApprovalInv, TakenIsOfTab, ApprovesWhatIsShown

LEMMA ApproveKeepsApproval ==
  ASSUME StreamTyped, SessionsAreKnown, ApprovalInv, Approve
  PROVE  ApprovalInv'
<1>1. /\ approval = NoApproval /\ tab.panel # NoQuestion
      /\ approval' = [at |-> "sent", shown |-> tab.panel, taken |-> NoQuestion]
      /\ UNCHANGED <<stage, asked, tab, upset>>
  BY DEF Approve, serverVars
<1>2. TakenIsOfTab' /\ ApprovesWhatIsShown'
  BY <1>1 DEF TakenIsOfTab, ApprovesWhatIsShown
<1>3. ShownIsOpen'
  BY <1>1, NothingAsked DEF ApprovalInv, ShownIsOpen, IsOpen
<1>4. QED
  BY <1>2, <1>3 DEF ApprovalInv

(* What is taken is the question that is open, if it is of this session. *)
LEMMA ServeKeepsApproval ==
  ASSUME StreamTyped, SessionsAreKnown, ApprovalInv, ServeApprove
  PROVE  ApprovalInv'
<1> StreamTypeOK /\ ApprovalOfTab
  BY DEF StreamTyped
<1>1. /\ approval.at = "sent" /\ tab.session \in Runs
      /\ UNCHANGED <<stage, asked, tab, upset>>
  BY DEF ServeApprove, ApprovalOfTab
<1>2. approval \in Approvals /\ Question(tab.session) \in Questions
      /\ Question(tab.session) = [session |-> tab.session, no |-> asked[tab.session]]
  BY <1>1 DEF StreamTypeOK, Approvals, Question, Questions, Runs
<1>3. CASE approval' = [approval EXCEPT !.at = "resolving", !.taken = Question(tab.session)]
  <2>1. /\ approval'.at = "resolving" /\ approval'.shown = approval.shown
        /\ approval'.taken = Question(tab.session)
    BY <1>2, <1>3 DEF Approvals
  <2>2. TakenIsOfTab'
    BY <1>1, <1>2, <2>1, StreamAssumption DEF TakenIsOfTab, StreamTypeOK
  <2>3. ShownIsOpen'
    BY <1>1, <2>1 DEF ApprovalInv, ShownIsOpen, IsOpen
  <2>4. ASSUME approval.shown.session = tab.session, upset[tab.session] \cap {"late", "unheard"} = {}
        PROVE  approval.shown = Question(tab.session)
    <3>1. approval.shown.no = asked[tab.session] /\ approval.shown \in Questions
      BY <1>1, <2>4 DEF ApprovalInv, ShownIsOpen, IsOpen, StreamTypeOK
    <3>2. QED
      BY <1>2, <2>4, <3>1 DEF Questions
  <2>5. ApprovesWhatIsShown'
    BY <1>1, <1>2, <2>1, <2>4 DEF ApprovesWhatIsShown
  <2>6. QED
    BY <2>2, <2>3, <2>5 DEF ApprovalInv
<1>4. CASE approval' = [approval EXCEPT !.at = "refused"]
  <2>1. /\ approval'.at = "refused" /\ approval'.shown = approval.shown
        /\ approval'.taken = approval.taken
    BY <1>2, <1>4 DEF Approvals
  <2>2. TakenIsOfTab' /\ ApprovesWhatIsShown'
    BY <1>1, <2>1 DEF ApprovalInv, TakenIsOfTab, ApprovesWhatIsShown
  <2>3. ShownIsOpen'
    BY <1>1, <2>1 DEF ApprovalInv, ShownIsOpen, IsOpen
  <2>4. QED
    BY <2>2, <2>3 DEF ApprovalInv
<1>5. QED
  BY <1>3, <1>4 DEF ServeApprove

LEMMA ResumeKeepsApproval ==
  ASSUME StreamTyped, SessionsAreKnown, ApprovalInv, Resume
  PROVE  ApprovalInv'
<1> StreamTypeOK /\ ApprovalOfTab
  BY DEF StreamTyped
<1>1. /\ approval.at = "resolving" /\ UNCHANGED <<asked, tab>> /\ tab.session \in Runs
      /\ approval' = [approval EXCEPT !.at = "approved"]
      /\ \A r \in Runs : r # tab.session => stage'[r] = stage[r]
  BY DEF Resume, ApprovalOfTab, StreamTypeOK
<1>a. \A r \in Runs : upset[r] \ {"missed", "early"} \subseteq upset'[r]
  <2>1. Event("HITL_APPROVED", tab.session) \in Events /\ Event("HITL_APPROVED", tab.session).session \in Runs
    BY <1>1, EventTyped DEF Types, StreamTypeOK
  <2>2. PICK causes \in SUBSET Causes : Publish(Event("HITL_APPROVED", tab.session), causes)
    BY DEF Resume, Causes
  <2>3. QED
    BY <2>1, <2>2, PublishTyped DEF StreamTypeOK
<1>2. approval'.at = "approved" /\ approval'.shown = approval.shown /\ approval'.taken = approval.taken
  BY <1>1, ApprovalKept, NothingAsked DEF StreamTypeOK, Approvals
<1>3. QED
  BY <1>1, <1>a, <1>2 DEF ApprovalInv, TakenIsOfTab, ShownIsOpen, ApprovesWhatIsShown, IsOpen

(* An answer empties the panel; an error leaves it, but then nothing was approved
   or the answer was not heard. *)
LEMMA AnswerKeepsApproval ==
  ASSUME StreamTyped, SessionsAreKnown, ApprovalInv, ApproveReply \/ ApproveError
  PROVE  ApprovalInv'
<1> StreamTypeOK
  BY DEF StreamTyped
<1>1. CASE ApproveReply
  <2>1. approval' = NoApproval /\ tab'.panel = NoQuestion
    BY <1>1 DEF ApproveReply, StreamTypeOK
  <2>2. QED
    BY <2>1, NothingAsked DEF ApprovalInv, TakenIsOfTab, ShownIsOpen, ApprovesWhatIsShown, Runs
<1>2. CASE ApproveError
  <2>1. approval' = NoApproval /\ UNCHANGED <<stage, asked, tab>>
    BY <1>2 DEF ApproveError, serverVars
  <2>2. /\ \A s \in Runs : upset[s] \subseteq upset'[s]
        /\ approval.at = "refused" \/ "unheard" \in upset'[tab.session] \/ tab.session \notin Runs
    BY <1>2, ErrorLeaves
  <2>3. ShownIsOpen'
    BY <2>1, <2>2, NothingAsked DEF ApprovalInv, ShownIsOpen, IsOpen
  <2>4. QED
    BY <2>1, <2>3, NothingAsked DEF ApprovalInv, TakenIsOfTab, ApprovesWhatIsShown
<1>3. QED
  BY <1>1, <1>2

LEMMA ApprovalStep ==
  ASSUME StreamTyped, SessionsAreKnown, ApprovalInv, [StreamNext]_streamVars
  PROVE  ApprovalInv'
<1>a. /\ tab \in [session : 0..MaxSessions, panel : Questions] /\ ApprovalOfTab
      /\ upset \in [Runs -> SUBSET Causes]
  BY DEF StreamTyped, StreamTypeOK
<1>1. CASE Traffic \/ Connect \/ RunFails \/ UNCHANGED streamVars
  <2>1. UNCHANGED <<stage, asked, approval, tab, upset>>
    BY <1>1 DEF Traffic, Connect, RunFails, streamVars, serverVars
  <2>2. QED
    BY <2>1, OthersKeepApproval
<1>2. CASE StartWorkflow
  <2>1. tab'.session = tab.session /\ tab'.panel = NoQuestion
    BY <1>2, <1>a DEF StartWorkflow
  <2>2. \A s \in Runs : upset[s] \subseteq upset'[s]
    BY <1>2, <1>a, OverwrittenTyped DEF StartWorkflow
  <2>3. QED
    BY <1>2, <2>1, <2>2, OthersKeepApproval DEF StartWorkflow, serverVars
<1>3. CASE RunReply \/ LoseConnection
  <2>1. /\ tab'.panel = tab.panel /\ (tab'.session = tab.session \/ approval = NoApproval)
        /\ UNCHANGED <<stage, asked, approval>>
    BY <1>3, <1>a DEF RunReply, LoseConnection, serverVars, ApprovalOfTab
  <2>2. \A s \in Runs : upset[s] \subseteq upset'[s]
    BY <1>3, <1>a, DropQueueTyped DEF RunReply, LoseConnection
  <2>3. QED
    BY <1>3, <2>1, <2>2, OthersKeepApproval
<1>4. QED
  BY <1>1, <1>2, <1>3, SessionKeepsApproval, DeliverKeepsApproval, ServeRunKeepsApproval,
     ApproveKeepsApproval, ServeKeepsApproval, ResumeKeepsApproval, AnswerKeepsApproval
     DEF StreamNext, Client

LEMMA ApprovalHolds == StreamSpec => [](SessionsAreKnown /\ ApprovalInv)
  BY KnownInit, KnownStep, ApprovalInit, ApprovalStep, StreamIsTyped, PTL DEF StreamSpec

(* However many sessions, questions and faults there are: an approval that the
   session takes is of the question the user was looking at, with the exceptions that
   the property names. *)
THEOREM ApprovalIsOfWhatIsShown == StreamSpec => []ApprovesWhatIsShown
<1>1. ApprovalInv => ApprovesWhatIsShown
  BY DEF ApprovalInv
<1>2. QED
  BY <1>1, ApprovalHolds, PTL

-----------------------------------------------------------------------------
(* What the panel will show once the queue is empty *)

(* What an event of a session that changes the panel shows *)
Shows(e) == IF e.type \in Clearing THEN NoQuestion ELSE [session |-> e.session, no |-> e.no]

(* The last event in a queue that session s would change the panel with shows x;
   there is none. *)
EndsIn(q, s, x) ==
  \E i \in DOMAIN q : /\ Telling(q[i], s) /\ Shows(q[i]) = x
                      /\ \A j \in DOMAIN q : j > i => ~Telling(q[j], s)
Silent(q, s) == \A i \in DOMAIN q : ~Telling(q[i], s)

LEMMA AppendEnds ==
  ASSUME NEW q \in Seq(Events), NEW e \in Events, NEW s
  PROVE  /\ Telling(e, s) => /\ ~Silent(Append(q, e), s)
                             /\ \A x : EndsIn(Append(q, e), s, x) => x = Shows(e)
         /\ ~Telling(e, s) => /\ Silent(Append(q, e), s) <=> Silent(q, s)
                              /\ \A x : EndsIn(Append(q, e), s, x) => EndsIn(q, s, x)
<1>1. /\ DOMAIN Append(q, e) = 1..(Len(q) + 1) /\ DOMAIN q = 1..Len(q) /\ Len(q) \in Nat
      /\ Append(q, e)[Len(q) + 1] = e
      /\ \A i \in 1..Len(q) : Append(q, e)[i] = q[i]
  BY AppendEvent
<1>2. /\ Len(q) + 1 \in 1..(Len(q) + 1)
      /\ \A i \in 1..(Len(q) + 1) : i \in 1..Len(q) \/ i = Len(q) + 1
      /\ \A i \in 1..Len(q) : i \in 1..(Len(q) + 1) /\ Len(q) + 1 > i
  BY <1>1
<1>3. ASSUME Telling(e, s)
      PROVE  ~Silent(Append(q, e), s) /\ \A x : EndsIn(Append(q, e), s, x) => x = Shows(e)
  BY <1>1, <1>2, <1>3 DEF EndsIn, Silent
<1>4. ASSUME ~Telling(e, s)
      PROVE  (Silent(Append(q, e), s) <=> Silent(q, s)) /\ \A x : EndsIn(Append(q, e), s, x) => EndsIn(q, s, x)
  BY <1>1, <1>2, <1>4 DEF EndsIn, Silent
<1>5. QED
  BY <1>3, <1>4

LEMMA TakeEnds ==
  ASSUME NEW q \in Seq(Events), q # <<>>, NEW s
  PROVE  /\ \A x : EndsIn(Tail(q), s, x) => EndsIn(q, s, x)
         /\ Silent(Tail(q), s) /\ Telling(Head(q), s) => EndsIn(q, s, Shows(Head(q)))
         /\ Silent(Tail(q), s) /\ ~Telling(Head(q), s) => Silent(q, s)
<1>1. /\ DOMAIN q = 1..Len(q) /\ DOMAIN Tail(q) = 1..(Len(q) - 1) /\ Len(q) \in Nat \ {0}
      /\ Head(q) = q[1]
      /\ \A i \in 1..(Len(q) - 1) : Tail(q)[i] = q[i + 1]
  BY TakeEvent
<1>2. /\ \A i \in 1..(Len(q) - 1) : i + 1 \in 1..Len(q)
      /\ \A i \in 1..Len(q) : i = 1 \/ (i - 1 \in 1..(Len(q) - 1) /\ (i - 1) + 1 = i)
      /\ \A i \in 1..(Len(q) - 1) : \A j \in 1..Len(q) : j > i + 1 => j # 1 /\ j - 1 > i
      /\ 1 \in 1..Len(q)
  BY <1>1
<1>3. \A j \in 1..Len(q) : j # 1 => j - 1 \in 1..(Len(q) - 1) /\ Tail(q)[j - 1] = q[j]
  BY <1>1, <1>2
<1>4. ASSUME NEW x, EndsIn(Tail(q), s, x) PROVE EndsIn(q, s, x)
  <2>1. PICK i \in 1..(Len(q) - 1) : /\ Telling(Tail(q)[i], s) /\ Shows(Tail(q)[i]) = x
                                     /\ \A j \in 1..(Len(q) - 1) : j > i => ~Telling(Tail(q)[j], s)
    BY <1>1, <1>4 DEF EndsIn
  <2>2. i + 1 \in DOMAIN q /\ q[i + 1] = Tail(q)[i]
    BY <1>1, <1>2
  <2>3. \A j \in 1..Len(q) : j > i + 1 => ~Telling(q[j], s)
    BY <1>2, <1>3, <2>1
  <2>4. QED
    BY <1>1, <2>1, <2>2, <2>3 DEF EndsIn
<1>5. ASSUME Silent(Tail(q), s) PROVE \A j \in 1..Len(q) : j # 1 => ~Telling(q[j], s)
  BY <1>1, <1>3, <1>5 DEF Silent
<1>6. ASSUME Silent(Tail(q), s), Telling(Head(q), s) PROVE EndsIn(q, s, Shows(Head(q)))
  <2>1. \A j \in 1..Len(q) : j > 1 => ~Telling(q[j], s)
    BY <1>5, <1>6
  <2>2. QED
    BY <1>1, <1>2, <1>6, <2>1 DEF EndsIn
<1>7. ASSUME Silent(Tail(q), s), ~Telling(Head(q), s) PROVE Silent(q, s)
  BY <1>1, <1>5, <1>7 DEF Silent
<1>8. QED
  BY <1>4, <1>6, <1>7

(* What a session will have told the panel once the queue is empty *)
Tells(s, x) ==
  \/ EndsIn(queue, s, x)
  \/ Silent(queue, s) /\ "overwritten" \notin upset[s] /\ tab.panel = x

(* An event that is not missed is what the queue ends in, if it tells the panel
   anything. *)
LEMMA PublishTells ==
  ASSUME StreamTypeOK, NEW e \in Events, e.session \in Runs, NEW causes \in SUBSET Causes,
         Publish(e, causes), NEW s \in Runs, "missed" \notin upset'[s], tab' = tab
  PROVE  /\ Telling(e, s) => \A x : Tells(s, x)' => x = Shows(e)
         /\ ~Telling(e, s) => upset[s] \subseteq upset'[s] /\ \A x : Tells(s, x)' => Tells(s, x)
<1>1. queue \in Seq(Events) /\ upset \in [Runs -> SUBSET Causes]
  BY DEF StreamTypeOK
<1>2. /\ queue' = IF Heard THEN Append(queue, e) ELSE queue
      /\ upset' = [upset EXCEPT ![e.session] = After(e, e.session, causes)]
  BY DEF Publish
<1>3. CASE Telling(e, s)
  <2>1. e.session = s
    BY <1>3 DEF Telling
  <2>2. upset'[s] = After(e, s, causes)
    BY <1>1, <1>2, <2>1
  <2>3. ~Heard => After(e, s, causes) = (upset[s] \cup {"missed"}) \cup causes
    BY <1>3, Zenon DEF After
  <2>4. queue' = Append(queue, e)
    BY <1>2, <2>2, <2>3
  <2>5. QED
    BY <1>1, <1>3, <2>4, AppendEnds DEF Tells
<1>4. CASE ~Telling(e, s)
  <2>1. upset[s] \subseteq upset'[s]
    <3>1. CASE e.session = s
      <4>1. After(e, s, causes) = upset[s] \cup causes
        BY <1>4, Zenon DEF After
      <4>2. QED
        BY <1>1, <1>2, <3>1, <4>1
    <3>2. CASE e.session # s
      BY <1>1, <1>2, <3>2
    <3>3. QED
      BY <3>1, <3>2
  <2>2. /\ \A x : EndsIn(queue', s, x) => EndsIn(queue, s, x)
        /\ Silent(queue', s) => Silent(queue, s)
    BY <1>1, <1>2, <1>4, AppendEnds
  <2>3. QED
    BY <1>4, <2>1, <2>2 DEF Tells
<1>5. QED
  BY <1>3, <1>4

(* A stream that closes takes no event of a session with it, or one was missed. *)
LEMMA DropQueueTells ==
  ASSUME StreamTypeOK, DropQueue, NEW s \in Runs, "missed" \notin upset'[s], tab'.panel = tab.panel
  PROVE  upset[s] \subseteq upset'[s] /\ \A x : Tells(s, x)' => Tells(s, x)
<1>1. queue' = <<>> /\ upset'[s] = upset[s] /\ Silent(queue, s)
  BY DEF DropQueue, Silent
<1>2. \A x : ~EndsIn(queue', s, x)
  BY <1>1 DEF EndsIn
<1>3. QED
  BY <1>1, <1>2 DEF Tells

-----------------------------------------------------------------------------
(* The panel catches up with the sessions *)

Waiting(s) == stage[s] \in {"blocked", "review"} /\ ckpt[s] # "dropped"

(* A KIO that finishes does so before the next question, and an answer that was
   taken closed its question. *)
AnswersAreSettled ==
  /\ \A s \in Runs : stage[s] \in {"blocked", "review", "resumed", "reentered"} => ~moved[s]
  /\ approval.at = "approved" /\ "early" \notin upset[tab.session] =>
       approval.taken.no < asked[tab.session] \/ ~Waiting(tab.session)

(* What a panel that is to follow session s may show *)
Right(s, x) ==
  /\ Waiting(s) => x = Question(s)
  /\ x # NoQuestion => x = Question(s) /\ ~moved[s] /\ stage[s] # "gone"

(* Whatever a session will have told is right, unless the last was missed or the
   session gave up its question for an early answer. *)
PanelCatchesUp ==
  \A s \in Runs : upset[s] \cap {"missed", "early"} = {} =>
    \A x : Tells(s, x) => Right(s, x)

PanelInv == AnswersAreSettled /\ PanelCatchesUp

LEMMA PanelInit == ASSUME StreamInit PROVE PanelInv
<1>1. AnswersAreSettled
  BY NothingAsked DEF StreamInit, AnswersAreSettled
<1>2. /\ tab.panel = NoQuestion /\ \A s \in Runs : ~Waiting(s)
      /\ \A s : \A x : ~EndsIn(queue, s, x)
  BY DEF StreamInit, Waiting, EndsIn
<1>3. QED
  BY <1>1, <1>2 DEF PanelInv, PanelCatchesUp, Tells, Right

(* A step of a session tells the panel nothing, that no question is open, or which
   one is. *)
LEMMA SessionTells ==
  ASSUME StreamTypeOK, AnswersAreSettled, NEW s \in Runs, Session(s)
  PROVE  /\ stage'[s] \in {"blocked", "review", "resumed", "reentered"} => ~moved'[s]
         /\ \/ /\ asked'[s] = asked[s] /\ moved'[s] = moved[s]
               /\ stage'[s] = "gone" => stage[s] = "gone"
               /\ Waiting(s)' => Waiting(s)
               /\ \/ UNCHANGED <<queue, upset>>
                  \/ \E e \in Events : e.session = s /\ Publish(e, {}) /\ ~Telling(e, s)
            \/ /\ ~Waiting(s)'
               /\ \E e \in Events : /\ e.session = s /\ Publish(e, {}) /\ Telling(e, s)
                                    /\ Shows(e) = NoQuestion
            \/ /\ ~moved'[s] /\ stage'[s] # "gone" /\ (asked[s] < asked'[s] \/ ~Waiting(s)')
               /\ \E e \in Events : /\ e.session = s /\ Publish(e, {}) /\ Telling(e, s)
                                    /\ Shows(e) = [session |-> s, no |-> asked'[s]]
<1> USE DEF StreamTypeOK, AnswersAreSettled, Go, SetCheckpoint, Waiting
<1>1. \A type \in Types : /\ Event(type, s) \in Events /\ Event(type, s).session = s
                          /\ Event(type, s).type = type /\ Event(type, s).no = asked[s]
  BY EventTyped DEF Event
<1>2. ASSUME NEW type \in Types
      PROVE  /\ type \in Clearing => Telling(Event(type, s), s) /\ Shows(Event(type, s)) = NoQuestion
             /\ type = "HITL_CHECKPOINT" =>
                  /\ Telling(Event(type, s), s)
                  /\ Shows(Event(type, s)) = [session |-> s, no |-> asked[s]]
             /\ type \in {"NOTE", "WORKFLOW_CANCELLED"} => ~Telling(Event(type, s), s)
  BY <1>1 DEF Telling, Shows, Clearing
<1>3. CASE Dispatch(s)
  <2>1. Event("NOTE", s) \in Events /\ Event("NOTE", s).session = s /\ ~Telling(Event("NOTE", s), s)
    BY <1>1, <1>2 DEF Types
  <2>2. QED
    BY <1>3, <2>1 DEF Dispatch
<1>4. CASE StepDone(s)
  <2>1. /\ Event("KIO_DONE", s) \in Events /\ Telling(Event("KIO_DONE", s), s)
        /\ Shows(Event("KIO_DONE", s)) = NoQuestion /\ Event("KIO_DONE", s).session = s
    BY <1>1, <1>2 DEF Types, Clearing
  <2>2. QED
    BY <1>4, <2>1 DEF StepDone
<1>5. CASE Ask(s)
  <2> DEFINE e == [type |-> "HITL_CHECKPOINT", session |-> s, no |-> asked[s] + 1, owner |-> "user"]
  <2>1. asked[s] + 1 \in 1..MaxAsked
    BY <1>5, RoomToAsk DEF Ask
  <2>2. e \in Events /\ e.session = s /\ Telling(e, s) /\ Shows(e) = [session |-> s, no |-> asked[s] + 1]
    BY <2>1, StreamAssumption DEF Events, Runs, Telling, Shows, Clearing
  <2>3. Publish(e, {})
    <3>1. asked \in [Runs -> 0..MaxAsked] /\ asked[s] + 1 \in 0..MaxAsked
      BY <2>1, StreamAssumption
    <3>2. [Event("HITL_CHECKPOINT", s) EXCEPT !.no = asked[s] + 1] = e
      BY <3>1, AskedEvent
    <3>3. QED
      BY <1>5, <3>2 DEF Ask
  <2>4. /\ asked'[s] = asked[s] + 1 /\ moved'[s] = FALSE /\ stage'[s] = "blocked"
        /\ asked[s] < asked'[s]
    BY <1>5, <2>1, StreamAssumption DEF Ask
  <2> HIDE DEF e
  <2>5. QED
    BY <2>2, <2>3, <2>4
<1>6. CASE CheckState(s)
  BY <1>6 DEF CheckState
<1>7. CASE Reenter(s)
  <2>1. /\ Event("HITL_CHECKPOINT", s) \in Events /\ Telling(Event("HITL_CHECKPOINT", s), s)
        /\ Shows(Event("HITL_CHECKPOINT", s)) = [session |-> s, no |-> asked[s]]
        /\ Event("HITL_CHECKPOINT", s).session = s
    BY <1>1, <1>2 DEF Types
  <2>2. QED
    BY <1>7, <2>1 DEF Reenter
<1>8. CASE NextStep(s)
  BY <1>8 DEF NextStep
<1>9. CASE Finish(s, {"ready"}, "WORKFLOW_COMPLETED") \/ Finish(s, {"dispatched"}, "WORKFLOW_FAILED")
  <2>1. \A type \in {"WORKFLOW_COMPLETED", "WORKFLOW_FAILED"} :
          /\ Event(type, s) \in Events /\ Event(type, s).session = s
          /\ Telling(Event(type, s), s) /\ Shows(Event(type, s)) = NoQuestion
    BY <1>1, <1>2 DEF Types, Clearing
  <2>2. stage'[s] = "gone"
    BY <1>9 DEF Finish
  <2>3. \E e \in Events : e.session = s /\ Publish(e, {}) /\ Telling(e, s) /\ Shows(e) = NoQuestion
    BY <1>9, <2>1 DEF Finish
  <2>4. QED
    BY <2>2, <2>3
<1>10. CASE Cancel(s)
  <2>1. PICK type \in {"WORKFLOW_CANCELLED", "WORKFLOW_FAILED"} : Publish(Event(type, s), {})
    BY <1>10 DEF Cancel
  <2>2. Event(type, s) \in Events /\ Event(type, s).session = s
    BY <1>1 DEF Types
  <2>3. \/ ~Telling(Event(type, s), s)
        \/ Telling(Event(type, s), s) /\ Shows(Event(type, s)) = NoQuestion
    BY <1>2 DEF Types, Clearing
  <2>4. ckpt'[s] = "dropped" /\ stage' = stage /\ asked' = asked /\ moved' = moved
    BY <1>10 DEF Cancel
  <2>5. QED
    BY <2>1, <2>2, <2>3, <2>4
<1>11. QED
  BY <1>3, <1>4, <1>5, <1>6, <1>7, <1>8, <1>9, <1>10 DEF Session

LEMMA SessionKeepsSettled ==
  ASSUME StreamTyped, ApprovalInv, AnswersAreSettled, NEW s \in Runs, Session(s)
  PROVE  AnswersAreSettled'
<1> StreamTypeOK /\ ApprovalOfTab
  BY DEF StreamTyped
<1>1. /\ UNCHANGED <<connected, tab, approval, starting>>
      /\ \A r \in Runs : r # s => /\ stage'[r] = stage[r] /\ moved'[r] = moved[r]
                                  /\ asked'[r] = asked[r] /\ ckpt'[r] = ckpt[r]
      /\ upset \in [Runs -> SUBSET Causes]
  BY SessionEffect DEF StreamTypeOK
<1>2. \A r \in Runs : r # s => upset'[r] = upset[r]
  BY SessionLeavesCauses
<1>3. stage'[s] \in {"blocked", "review", "resumed", "reentered"} => ~moved'[s]
  BY SessionTells
<1>4. ASSUME approval.at = "approved", "early" \notin upset'[s], tab.session = s, Waiting(s)'
      PROVE  approval.taken.no < asked'[s]
  <2>1. approval.taken.no <= asked[s]
    BY <1>4 DEF ApprovalInv, TakenIsOfTab
  <2>2. asked[s] \in Int /\ asked'[s] \in Int /\ approval.taken.no \in Int
    BY SessionEffect DEF StreamTypeOK, Questions
  <2>3. CASE asked[s] < asked'[s]
    BY <2>1, <2>2, <2>3
  <2>4. CASE /\ asked'[s] = asked[s] /\ Waiting(s)
             /\ \/ UNCHANGED <<queue, upset>>
                \/ \E e \in Events : e.session = s /\ Publish(e, {}) /\ ~Telling(e, s)
    <3>1. "early" \notin upset[s]
      <4>1. CASE UNCHANGED <<queue, upset>>
        BY <1>4, <4>1
      <4>2. ASSUME NEW e \in Events, e.session = s, Publish(e, {}), ~Telling(e, s)
            PROVE  "early" \notin upset[s]
        <5>1. upset'[s] = After(e, s, {})
          BY <1>1, <4>2 DEF Publish
        <5>2. After(e, s, {}) = upset[s] \cup {}
          BY <4>2, Zenon DEF After
        <5>3. QED
          BY <1>4, <5>1, <5>2
      <4>3. QED
        BY <2>4, <4>1, <4>2
    <3>2. QED
      BY <1>4, <2>4, <3>1 DEF AnswersAreSettled
  <2>5. QED
    BY <1>4, <2>3, <2>4, SessionTells
<1>5. approval.at = "approved" => tab.session \in Runs
  BY DEF ApprovalOfTab
<1>6. \A r \in Runs : r # s => (Waiting(r)' <=> Waiting(r))
  BY <1>1 DEF Waiting
<1>7. ASSUME approval.at = "approved", "early" \notin upset'[tab.session]
      PROVE  approval.taken.no < asked'[tab.session] \/ ~Waiting(tab.session)'
  <2>1. CASE tab.session = s
    BY <1>1, <1>4, <1>7, <2>1 DEF Waiting
  <2>2. CASE tab.session # s
    <3>1. /\ asked'[tab.session] = asked[tab.session] /\ upset'[tab.session] = upset[tab.session]
          /\ stage'[tab.session] = stage[tab.session] /\ ckpt'[tab.session] = ckpt[tab.session]
      BY <1>1, <1>2, <1>5, <1>7, <2>2
    <3>2. QED
      BY <1>1, <1>7, <3>1 DEF AnswersAreSettled, Waiting
  <2>3. QED
    BY <2>1, <2>2
<1>8. QED
  BY <1>1, <1>3, <1>7 DEF AnswersAreSettled

LEMMA SessionKeepsPanel ==
  ASSUME StreamTyped, PanelInv, NEW s \in Runs, Session(s)
  PROVE  PanelCatchesUp'
<1> StreamTypeOK
  BY DEF StreamTyped
<1>1. /\ UNCHANGED tab
      /\ \A r \in Runs : r # s => /\ stage'[r] = stage[r] /\ moved'[r] = moved[r]
                                  /\ asked'[r] = asked[r] /\ ckpt'[r] = ckpt[r]
      /\ \/ UNCHANGED <<queue, upset>>
         \/ \E e \in Events : e.session = s /\ Publish(e, {})
  BY SessionEffect
<1>2. SUFFICES ASSUME NEW r \in Runs, upset'[r] \cap {"missed", "early"} = {}, NEW x, Tells(r, x)'
               PROVE  Right(r, x)'
  BY DEF PanelCatchesUp
<1>3. ASSUME \/ UNCHANGED <<queue, upset>>
             \/ \E e \in Events : e.session \in Runs /\ Publish(e, {}) /\ ~Telling(e, r)
      PROVE  Right(r, x)
  <2>1. CASE UNCHANGED <<queue, upset>>
    BY <1>1, <1>2, <2>1 DEF PanelInv, PanelCatchesUp, Tells
  <2>2. CASE \E e \in Events : e.session \in Runs /\ Publish(e, {}) /\ ~Telling(e, r)
    <3>1. upset[r] \subseteq upset'[r] /\ Tells(r, x)
      BY <1>1, <1>2, <2>2, PublishTells
    <3>2. QED
      BY <1>2, <3>1 DEF PanelInv, PanelCatchesUp
  <2>3. QED
    BY <1>3, <2>1, <2>2
<1>4. ASSUME NEW e \in Events, e.session \in Runs, Publish(e, {}), Telling(e, r)
      PROVE  x = Shows(e)
  BY <1>1, <1>2, <1>4, PublishTells
<1>5. CASE r # s
  <2>1. \A e : e.session = s => ~Telling(e, r)
    BY <1>5 DEF Telling
  <2>2. Right(r, x)
    BY <1>1, <1>3, <2>1
  <2>3. QED
    BY <1>1, <1>5, <2>2 DEF Right, Waiting, Question
<1>6. CASE r = s
  <2>1. CASE /\ asked'[s] = asked[s] /\ moved'[s] = moved[s]
             /\ stage'[s] = "gone" => stage[s] = "gone"
             /\ Waiting(s)' => Waiting(s)
             /\ \/ UNCHANGED <<queue, upset>>
                \/ \E e \in Events : e.session = s /\ Publish(e, {}) /\ ~Telling(e, s)
    <3>1. Right(r, x)
      BY <1>3, <1>6, <2>1
    <3>2. QED
      BY <1>6, <2>1, <3>1 DEF Right, Question
  <2>2. CASE /\ ~Waiting(s)'
             /\ \E e \in Events : /\ e.session = s /\ Publish(e, {}) /\ Telling(e, s)
                                  /\ Shows(e) = NoQuestion
    BY <1>4, <1>6, <2>2 DEF Right
  <2>3. CASE /\ ~moved'[s] /\ stage'[s] # "gone"
             /\ \E e \in Events : /\ e.session = s /\ Publish(e, {}) /\ Telling(e, s)
                                  /\ Shows(e) = [session |-> s, no |-> asked'[s]]
    BY <1>4, <1>6, <2>3 DEF Right, Question
  <2>4. QED
    BY <2>1, <2>2, <2>3, SessionTells DEF PanelInv
<1>7. QED
  BY <1>5, <1>6

(* Steps that change neither the sessions nor what they will have told *)
LEMMA QuietKeepsPanel ==
  ASSUME PanelInv, UNCHANGED <<stage, asked, moved>>,
         \A s \in Runs : ckpt'[s] = "dropped" <=> ckpt[s] = "dropped",
         \A s \in Runs : "missed" \notin upset'[s] =>
           upset[s] \cap {"missed", "early"} \subseteq upset'[s] /\ \A x : Tells(s, x)' => Tells(s, x)
  PROVE  PanelCatchesUp'
<1>1. SUFFICES ASSUME NEW s \in Runs, upset'[s] \cap {"missed", "early"} = {}, NEW x, Tells(s, x)'
               PROVE  Right(s, x)'
  BY DEF PanelCatchesUp
<1>2. Tells(s, x) /\ upset[s] \cap {"missed", "early"} = {}
  BY <1>1
<1>3. Right(s, x)
  BY <1>2 DEF PanelInv, PanelCatchesUp
<1>4. QED
  BY <1>3 DEF Right, Waiting, Question

LEMMA DeliverKeepsPanel ==
  ASSUME StreamTyped, SessionsAreKnown, PanelInv, Deliver
  PROVE  PanelCatchesUp'
<1> StreamTypeOK
  BY DEF StreamTyped
<1> DEFINE e == Head(queue)
<1>1. /\ queue \in Seq(Events) /\ queue # <<>> /\ queue' = Tail(queue)
      /\ UNCHANGED <<stage, ckpt, asked, moved>> /\ e \in Events
  BY DeliverEffect DEF StreamTypeOK, serverVars
<1>2. KnownEvent(e, stage)
  BY <1>1, TakeEvent DEF SessionsAreKnown
<1>3. /\ e.owner = "user" /\ e.type = "HITL_CHECKPOINT" => tab'.panel = [session |-> e.session, no |-> e.no]
      /\ e.owner = "user" /\ e.type \in Clearing => tab'.panel = NoQuestion
      /\ \A s \in Runs :
           /\ upset[s] \ {"overwritten"} \subseteq upset'[s]
           /\ ~Telling(e, s) => upset[s] \subseteq upset'[s]
           /\ ~Telling(e, s) /\ tab'.panel # tab.panel => "overwritten" \in upset'[s]
  BY DeliverEffect
<1> HIDE DEF e
<1>4. ASSUME NEW s \in Runs, NEW x, Tells(s, x)' PROVE Tells(s, x)
  <2>1. /\ \A y : EndsIn(queue', s, y) => EndsIn(queue, s, y)
        /\ Silent(queue', s) /\ Telling(e, s) => EndsIn(queue, s, Shows(e))
        /\ Silent(queue', s) /\ ~Telling(e, s) => Silent(queue, s)
    BY <1>1, TakeEnds DEF e
  <2>2. CASE EndsIn(queue', s, x)
    BY <2>1, <2>2 DEF Tells
  <2>3. CASE Silent(queue', s) /\ "overwritten" \notin upset'[s] /\ tab'.panel = x /\ Telling(e, s)
    <3>1. e.session \in Runs /\ e.owner = "user"
      BY <1>2, <2>3 DEF Telling, KnownEvent
    <3>2. x = Shows(e)
      BY <1>3, <2>3, <3>1 DEF Telling, Shows, Clearing
    <3>3. QED
      BY <2>1, <2>3, <3>2 DEF Tells
  <2>4. CASE Silent(queue', s) /\ "overwritten" \notin upset'[s] /\ tab'.panel = x /\ ~Telling(e, s)
    BY <1>3, <2>1, <2>4 DEF Tells
  <2>5. QED
    BY <1>4, <2>2, <2>3, <2>4 DEF Tells
<1>5. \A s \in Runs : upset[s] \cap {"missed", "early"} \subseteq upset'[s]
  BY <1>3
<1>6. QED
  BY <1>1, <1>4, <1>5, QuietKeepsPanel

(* Events of others, and a panel that is cleared as another question is shown *)
LEMMA OthersKeepPanel ==
  ASSUME StreamTyped, PanelInv, Traffic \/ StartWorkflow
  PROVE  PanelCatchesUp'
<1> StreamTypeOK
  BY DEF StreamTyped
<1>a. upset \in [Runs -> SUBSET Causes] /\ queue \in Seq(Events)
  BY DEF StreamTypeOK
<1>1. CASE Traffic
  <2>1. PICK e \in Foreign : queue' = IF Heard THEN Append(queue, e) ELSE queue
    BY <1>1 DEF Traffic
  <2>2. e \in Events /\ \A s \in Runs : ~Telling(e, s)
    BY ForeignTyped DEF StreamTypeOK, Telling, Stranger, Runs
  <2>3. UNCHANGED <<stage, ckpt, asked, moved, tab, upset>>
    BY <1>1 DEF Traffic, serverVars
  <2>4. \A s \in Runs : /\ \A x : EndsIn(queue', s, x) => EndsIn(queue, s, x)
                        /\ Silent(queue', s) => Silent(queue, s)
    BY <1>a, <2>1, <2>2, AppendEnds
  <2>5. \A s \in Runs : \A x : Tells(s, x)' => Tells(s, x)
    BY <2>3, <2>4 DEF Tells
  <2>6. QED
    BY <2>3, <2>5, QuietKeepsPanel
<1>2. CASE StartWorkflow
  <2>1. /\ UNCHANGED <<stage, ckpt, asked, moved, queue>> /\ tab'.panel = NoQuestion
        /\ \A s \in Runs : upset[s] \subseteq upset'[s]
        /\ \A s \in Runs : tab'.panel # tab.panel => "overwritten" \in upset'[s]
    BY <1>2, <1>a DEF StartWorkflow, serverVars, StreamTypeOK, Overwritten
  <2>2. \A s \in Runs : \A x : Tells(s, x)' => Tells(s, x)
    BY <2>1 DEF Tells
  <2>3. QED
    BY <2>1, <2>2, QuietKeepsPanel
<1>3. QED
  BY <1>1, <1>2

(* A new session has told nothing, and a panel that it has not changed shows no
   question. *)
LEMMA ServeRunKeepsPanel ==
  ASSUME StreamTyped, SessionsAreKnown, PanelInv, ServeRun
  PROVE  PanelCatchesUp'
<1> StreamTypeOK
  BY DEF StreamTyped
<1>1. PICK s \in Runs : /\ stage[s] = "none" /\ stage' = [stage EXCEPT ![s] = "ready"]
                        /\ queue' = IF Heard THEN Append(queue, Event("NOTE", s)) ELSE queue
                        /\ upset' = [upset EXCEPT ![s] = IF tab.panel = NoQuestion THEN {}
                                                        ELSE {"overwritten"}]
                        /\ UNCHANGED <<ckpt, asked, moved, tab>>
  BY DEF ServeRun
<1>2. Event("NOTE", s) \in Events /\ \A r : ~Telling(Event("NOTE", s), r)
  BY EventTyped DEF Types, StreamTypeOK, Telling, Clearing
<1>3. \A r \in Runs : /\ \A x : EndsIn(queue', r, x) => EndsIn(queue, r, x)
                      /\ Silent(queue', r) => Silent(queue, r)
  BY <1>1, <1>2, AppendEnds DEF StreamTypeOK
<1>4. SUFFICES ASSUME NEW r \in Runs, upset'[r] \cap {"missed", "early"} = {}, NEW x, Tells(r, x)'
               PROVE  Right(r, x)'
  BY DEF PanelCatchesUp
<1>5. CASE r = s
  <2>1. ~EndsIn(queue, s, x)
    BY <1>1 DEF SessionsAreKnown, KnownEvent, Telling, EndsIn
  <2>2. tab.panel = x /\ "overwritten" \notin upset'[s]
    BY <1>1, <1>3, <1>4, <1>5, <2>1 DEF Tells
  <2>3. x = NoQuestion /\ stage'[s] = "ready"
    BY <1>1, <2>2 DEF StreamTypeOK
  <2>4. QED
    BY <1>5, <2>3 DEF Right, Waiting
<1>6. CASE r # s
  <2>1. upset'[r] = upset[r] /\ stage'[r] = stage[r]
    BY <1>1, <1>6 DEF StreamTypeOK
  <2>2. Tells(r, x)
    BY <1>1, <1>3, <1>4, <2>1 DEF Tells
  <2>3. Right(r, x)
    BY <1>4, <2>1, <2>2 DEF PanelInv, PanelCatchesUp
  <2>4. QED
    BY <1>1, <2>1, <2>3 DEF Right, Waiting, Question
<1>7. QED
  BY <1>5, <1>6

(* HITL_APPROVED ends what the queue says; the session has left its question, or
   the answer was early. *)
LEMMA ResumeKeepsPanel ==
  ASSUME StreamTyped, ApprovalInv, PanelInv, Resume
  PROVE  PanelInv'
<1> StreamTypeOK /\ ApprovalOfTab
  BY DEF StreamTyped
<1> DEFINE e == Event("HITL_APPROVED", tab.session)
<1>1. /\ tab.session \in Runs /\ UNCHANGED <<ckpt, asked, moved, tab>>
  BY DEF Resume, ApprovalOfTab
<1>2. e \in Events /\ e.session = tab.session /\ Telling(e, tab.session) /\ Shows(e) = NoQuestion
  BY <1>1, EventTyped DEF Types, StreamTypeOK, Telling, Shows, Clearing
<1>3. PICK causes \in SUBSET Causes : /\ Publish(e, causes)
                                      /\ stage[tab.session] = "blocked" => "early" \in causes
  BY DEF Resume, Causes
<1>4. stage' = IF stage[tab.session] = "review" THEN [stage EXCEPT ![tab.session] = "resumed"] ELSE stage
  BY DEF Resume
<1> HIDE DEF e
<1>5. /\ stage[tab.session] = "blocked" => "early" \in upset'[tab.session]
      /\ \A s \in Runs : s # tab.session => upset'[s] = upset[s] /\ ~Telling(e, s)
  BY <1>1, <1>2, <1>3, PublishTyped DEF StreamTypeOK, Telling
<1>6. Waiting(tab.session)' => "early" \in upset'[tab.session]
  BY <1>1, <1>4, <1>5 DEF StreamTypeOK, Waiting
<1>7. AnswersAreSettled'
  <2>1. \A s \in Runs : stage'[s] \in {"blocked", "review", "resumed", "reentered"} => ~moved[s]
    BY <1>1, <1>4 DEF PanelInv, AnswersAreSettled, StreamTypeOK
  <2>2. Waiting(tab.session)' => "early" \in upset'[tab'.session]
    BY <1>1, <1>6
  <2>3. QED
    BY <1>1, <2>1, <2>2 DEF AnswersAreSettled, Waiting
<1>8. PanelCatchesUp'
  <2>1. SUFFICES ASSUME NEW s \in Runs, upset'[s] \cap {"missed", "early"} = {}, NEW x, Tells(s, x)'
                 PROVE  Right(s, x)'
    BY DEF PanelCatchesUp
  <2>2. CASE s = tab.session
    <3>1. x = NoQuestion
      BY <1>1, <1>2, <1>3, <2>1, <2>2, PublishTells
    <3>2. ~Waiting(s)'
      BY <1>1, <1>6, <2>1, <2>2 DEF Waiting
    <3>3. QED
      BY <3>1, <3>2 DEF Right
  <2>3. CASE s # tab.session
    <3>1. Tells(s, x) /\ upset[s] \cap {"missed", "early"} = {}
      BY <1>1, <1>2, <1>3, <1>5, <2>1, <2>3, PublishTells
    <3>2. Right(s, x) /\ stage'[s] = stage[s]
      BY <1>4, <2>3, <3>1 DEF PanelInv, PanelCatchesUp, StreamTypeOK
    <3>3. QED
      BY <1>1, <3>2 DEF Right, Waiting, Question
  <2>4. QED
    BY <2>2, <2>3
<1>9. QED
  BY <1>7, <1>8 DEF PanelInv

(* The reply to an approval takes away no other question than the one that was
   answered, or it has overwritten one. *)
LEMMA ReplyKeepsPanel ==
  ASSUME StreamTyped, ApprovalInv, PanelInv, ApproveReply
  PROVE  PanelInv'
<1> StreamTypeOK /\ ApprovalOfTab
  BY DEF StreamTyped
<1>1. /\ approval.at = "approved" /\ approval' = NoApproval /\ tab'.panel = NoQuestion
      /\ UNCHANGED <<stage, ckpt, asked, moved, queue>> /\ tab'.session = tab.session
      /\ upset' = IF tab.panel \in {NoQuestion, approval.taken} THEN upset ELSE Overwritten(Runs)
  BY DEF ApproveReply, StreamTypeOK, serverVars
<1>2. AnswersAreSettled'
  BY <1>1, NothingAsked DEF PanelInv, AnswersAreSettled
<1>3. PanelCatchesUp'
  <2>1. SUFFICES ASSUME NEW s \in Runs, upset'[s] \cap {"missed", "early"} = {}, NEW x, Tells(s, x)'
                 PROVE  Right(s, x)
    BY <1>1 DEF PanelCatchesUp, Right, Waiting, Question
  <2>2. upset[s] \subseteq upset'[s]
    BY <1>1, OverwrittenTyped DEF StreamTypeOK
  <2>3. \A y : Tells(s, y) => Right(s, y)
    BY <2>1, <2>2 DEF PanelInv, PanelCatchesUp
  <2>4. CASE EndsIn(queue, s, x)
    BY <2>3, <2>4 DEF Tells
  <2>5. CASE Silent(queue, s) /\ "overwritten" \notin upset'[s] /\ x = NoQuestion
    <3>1. upset' = upset /\ tab.panel \in {NoQuestion, approval.taken}
      BY <1>1, <2>5 DEF Overwritten
    <3>2. Right(s, tab.panel)
      BY <2>3, <2>5, <3>1 DEF Tells
    <3>3. ASSUME Waiting(s) PROVE FALSE
      <4>1. tab.panel = Question(s) /\ Question(s) # NoQuestion
        BY <3>2, <3>3, NothingAsked DEF Right, Question, Runs
      <4>2. approval.taken = Question(s)
        BY <3>1, <4>1
      <4>3. tab.session = s /\ approval.taken.no = asked[s]
        BY <1>1, <4>2 DEF ApprovalInv, TakenIsOfTab, Question
      <4>4. approval.taken.no < asked[s]
        BY <1>1, <2>1, <3>1, <3>3, <4>3 DEF PanelInv, AnswersAreSettled
      <4>5. asked[s] \in Int
        BY DEF StreamTypeOK
      <4>6. QED
        BY <4>3, <4>4, <4>5
    <3>4. QED
      BY <2>5, <3>3 DEF Right
  <2>6. QED
    BY <1>1, <2>1, <2>4, <2>5 DEF Tells
<1>4. QED
  BY <1>2, <1>3 DEF PanelInv

LEMMA PanelStep ==
  ASSUME StreamTyped, SessionsAreKnown, ApprovalInv, PanelInv, [StreamNext]_streamVars
  PROVE  PanelInv'
<1> StreamTypeOK /\ ApprovalOfTab
  BY DEF StreamTyped
<1>a. ASSUME UNCHANGED <<stage, asked, moved>>, tab'.session = tab.session \/ approval'.at # "approved",
             approval' = approval \/ approval'.at # "approved",
             \A s \in Runs : ckpt'[s] = "dropped" <=> ckpt[s] = "dropped",
             \A s \in Runs : "early" \in upset[s] => "early" \in upset'[s]
      PROVE  AnswersAreSettled'
  <2>1. CASE approval'.at # "approved"
    BY <1>a, <2>1 DEF PanelInv, AnswersAreSettled
  <2>2. CASE approval' = approval /\ tab'.session = tab.session /\ approval.at = "approved"
    <3>1. tab.session \in Runs
      BY <2>2 DEF ApprovalOfTab
    <3>2. QED
      BY <1>a, <2>2, <3>1 DEF PanelInv, AnswersAreSettled, Waiting
  <2>3. QED
    BY <1>a, <2>1, <2>2
<1>1. ASSUME NEW s \in Runs, Session(s) PROVE PanelInv'
  BY <1>1, SessionKeepsSettled, SessionKeepsPanel DEF PanelInv
<1>2. CASE Traffic \/ StartWorkflow
  <2>1. /\ UNCHANGED <<stage, asked, moved, ckpt, approval>> /\ tab'.session = tab.session
        /\ \A s \in Runs : upset[s] \subseteq upset'[s]
    BY <1>2, OverwrittenTyped DEF Traffic, StartWorkflow, serverVars, StreamTypeOK
  <2>2. AnswersAreSettled'
    BY <1>a, <2>1
  <2>3. QED
    BY <1>2, <2>2, OthersKeepPanel DEF PanelInv
<1>3. CASE Connect \/ Approve \/ RunFails \/ UNCHANGED streamVars
  <2>1. /\ UNCHANGED <<stage, asked, moved, ckpt, tab, upset, queue>>
        /\ approval' = approval \/ approval'.at # "approved"
    BY <1>3 DEF Connect, Approve, RunFails, streamVars, serverVars
  <2>2. \A s \in Runs : \A x : Tells(s, x)' => Tells(s, x)
    BY <2>1 DEF Tells
  <2>3. PanelCatchesUp'
    BY <2>1, <2>2, QuietKeepsPanel
  <2>4. QED
    BY <1>a, <2>1, <2>3 DEF PanelInv
<1>4. CASE LoseConnection \/ RunReply
  <2>1. /\ UNCHANGED <<stage, asked, moved, ckpt, approval>> /\ tab'.panel = tab.panel /\ DropQueue
        /\ tab'.session = tab.session \/ approval.at # "approved"
    BY <1>4, NothingAsked DEF LoseConnection, RunReply, serverVars, StreamTypeOK, ApprovalOfTab
  <2>2. \A s \in Runs : upset[s] \subseteq upset'[s]
    BY <2>1, DropQueueTyped DEF StreamTypeOK
  <2>3. \A s \in Runs : "missed" \notin upset'[s] => \A x : Tells(s, x)' => Tells(s, x)
    BY <2>1, DropQueueTells
  <2>4. PanelCatchesUp'
    BY <2>1, <2>2, <2>3, QuietKeepsPanel
  <2>5. QED
    BY <1>a, <2>1, <2>2, <2>4 DEF PanelInv
<1>5. CASE Deliver
  <2>1. /\ UNCHANGED <<stage, asked, moved, ckpt, approval>> /\ tab'.session = tab.session
        /\ \A s \in Runs : upset[s] \ {"overwritten"} \subseteq upset'[s]
    BY <1>5, DeliverEffect DEF serverVars
  <2>2. AnswersAreSettled'
    BY <1>a, <2>1
  <2>3. QED
    BY <1>5, <2>2, DeliverKeepsPanel DEF PanelInv
<1>6. CASE ServeRun
  <2>1. PICK s \in Runs : stage' = [stage EXCEPT ![s] = "ready"]
    BY <1>6 DEF ServeRun
  <2>2. UNCHANGED <<moved, approval>> /\ approval = NoApproval
    BY <1>6 DEF ServeRun, ApprovalOfTab
  <2>3. AnswersAreSettled'
    BY <2>1, <2>2, NothingAsked DEF PanelInv, AnswersAreSettled, StreamTypeOK
  <2>4. QED
    BY <1>6, <2>3, ServeRunKeepsPanel DEF PanelInv
<1>7. CASE ServeApprove
  <2>1. UNCHANGED <<stage, asked, moved, tab, upset, queue>>
    BY <1>7 DEF ServeApprove
  <2>2. approval'.at # "approved"
    <3>1. approval \in Approvals /\ tab.session \in Runs
      BY <1>7 DEF StreamTypeOK, Approvals, ServeApprove, ApprovalOfTab
    <3>2. Question(tab.session) \in Questions
      BY <3>1 DEF Question, Questions, Runs, StreamTypeOK
    <3>3. QED
      BY <1>7, <3>1, <3>2 DEF ServeApprove, Approvals
  <2>3. \A s \in Runs : ckpt'[s] = "dropped" <=> ckpt[s] = "dropped"
    BY <1>7 DEF ServeApprove, StreamTypeOK
  <2>4. \A s \in Runs : \A x : Tells(s, x)' => Tells(s, x)
    BY <2>1 DEF Tells
  <2>5. PanelCatchesUp'
    BY <2>1, <2>3, <2>4, QuietKeepsPanel
  <2>6. QED
    BY <1>a, <2>1, <2>2, <2>3, <2>5 DEF PanelInv
<1>8. CASE ApproveError
  <2>1. /\ UNCHANGED <<stage, asked, moved, ckpt, tab, queue>> /\ approval'.at # "approved"
        /\ \A s \in Runs : upset'[s] = upset[s] \/ upset'[s] = upset[s] \cup {"unheard"}
    BY <1>8, ErrorLeaves, NothingAsked DEF serverVars
  <2>2. \A s \in Runs : upset[s] \subseteq upset'[s] /\ \A x : Tells(s, x)' => Tells(s, x)
    BY <2>1 DEF Tells
  <2>3. PanelCatchesUp'
    BY <2>1, <2>2, QuietKeepsPanel
  <2>4. QED
    BY <1>a, <2>1, <2>2, <2>3 DEF PanelInv
<1>9. QED
  BY <1>1, <1>2, <1>3, <1>4, <1>5, <1>6, <1>7, <1>8, ResumeKeepsPanel, ReplyKeepsPanel
     DEF StreamNext, Client

LEMMA PanelIsEndOfQueue ==
  ASSUME StreamTyped, PanelInv
  PROVE  PanelFollowsServer
<1>1. SUFFICES ASSUME tab.session > 0, queue = <<>>, upset[tab.session] \subseteq {"late", "unheard"}
               PROVE  /\ Pending(tab.session, asked[tab.session]) => tab.panel = Question(tab.session)
                      /\ tab.panel # NoQuestion =>
                           /\ tab.panel = Question(tab.session) /\ ~moved[tab.session]
                           /\ stage[tab.session] # "gone"
  BY DEF PanelFollowsServer
<1>2. tab.session \in Runs
  BY <1>1 DEF StreamTyped, StreamTypeOK, Runs
<1>3. Tells(tab.session, tab.panel)
  BY <1>1 DEF Tells, Silent
<1>4. Right(tab.session, tab.panel)
  BY <1>1, <1>2, <1>3 DEF PanelInv, PanelCatchesUp
<1>5. QED
  BY <1>4 DEF Right, Waiting, Pending

(* However many sessions, questions and faults there are: once every event has
   been delivered the panel shows the question of the tab's session that is pending,
   and no other than the last one of that session, in which nothing has finished
   since.  What the property sets aside, it names: an event that was missed and not
   followed by another one, a change of the panel by anything but the session's own
   events (of another session or user, by startWorkflow(), also when the request
   then fails, or by the reply to an approval), and an answer that came while its
   run had not ended. *)
THEOREM PanelAlwaysFollowsServer == StreamSpec => []PanelFollowsServer
<1>1. StreamSpec => []PanelInv
  BY PanelInit, PanelStep, ApprovalHolds, StreamIsTyped, PTL DEF StreamSpec
<1>2. QED
  BY <1>1, PanelIsEndOfQueue, StreamIsTyped, PTL

=============================================================================
