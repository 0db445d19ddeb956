------------------------ MODULE SessionStore_proofs ------------------------
(***************************************************************************)
(* Proofs about the session store.  All of them rest on one fact about the *)
(* client: for a call that waits there is one message whose reply it will  *)
(* take, and every other message was given up and is on record as such.    *)
(* A step does one of a few things to the messages (MessageStep, below),   *)
(* so the facts about messages are proved from that, and each fact about   *)
(* the tables from the actions that write them.                            *)
(***************************************************************************)
EXTENDS SessionStore, SequenceTheorems, TLAPS

-----------------------------------------------------------------------------
(* Requests, calls and messages *)

TrafficTyped ==
  /\ call \in [Sides -> Calls \cup {NoCall}]
  /\ inflight \subseteq Messages
  /\ calls \in Nat

ReplyAwaited(t) == {m \in inflight : m.live /\ m.side = t}

(* What a step can do to the messages: a side starts a call, a request is lost
   or given up and perhaps sent again, the server works on it or ends it. *)
Starts(t, req) ==
  /\ t \in Sides /\ req \in Requests /\ Start(t, req) /\ UNCHANGED doubtful
  /\ req.op \in {"create", "artifact", "ask"} => t = "run" /\ comp.pc = "off" /\ comp' = comp
  /\ req.op = "create" => calls = 0
  /\ req.op = "resolve" => t = "api"
Loses(m) == m.live /\ NextAttempt(m.side, inflight \ {m}) /\ UNCHANGED <<calls, doubtful>>
Leaves(m) == /\ m.live /\ calls' = calls /\ doubtful' = doubtful \cup {m.req}
             /\ NextAttempt(m.side, (inflight \ {m}) \cup {[m EXCEPT !.live = FALSE]})
WorksOn(m, stage) == /\ inflight' = (inflight \ {m}) \cup {[m EXCEPT !.stage = stage]}
                     /\ stage \in {"put", "inline", "conflict"}
                     /\ stage = "put" => m.req.op = "artifact" /\ objects' = objects \cup {m.req.id}
                     /\ stage = "conflict" => m.req.op = "ask" /\ AskedBefore(m.req.step)
                     /\ UNCHANGED <<call, calls, doubtful>>
Ends(m) == inflight' = inflight \ {m} /\ Answered(m) /\ UNCHANGED <<calls, doubtful>>

MessageStep ==
  \/ \E t, req : Starts(t, req)
  \/ \E m \in inflight : Loses(m) \/ Leaves(m) \/ Ends(m) \/ \E stage : WorksOn(m, stage)
  \/ UNCHANGED <<call, inflight, calls, doubtful>>

(* What a request of each kind looks like *)
LEMMA RequestShape ==
  ASSUME NEW req \in Requests
  PROVE  /\ req.op \in {"create", "status", "artifact", "ask", "resolve"}
         /\ req.op = "create" => req = [op |-> "create"]
         /\ req.op = "status" => req = [op |-> "status", to |-> req.to] /\ req.to \in Statuses
         /\ req.op = "artifact" => req = [op |-> "artifact", id |-> req.id] /\ req.id \in 1..NumArtifacts
         /\ req.op = "ask" => req = [op |-> "ask", step |-> req.step] /\ req.step \in Steps
         /\ req.op = "resolve" => req.id \in Nat \ {0} /\ req.to \in {"APPROVED", "REJECTED"}
<1>1. CASE req \in [op : {"create"}]
  BY <1>1
<1>2. CASE req \in [op : {"status"}, to : Statuses]
  BY <1>2
<1>3. CASE req \in [op : {"artifact"}, id : 1..NumArtifacts]
  BY <1>3
<1>4. CASE req \in [op : {"ask"}, step : Steps]
  BY <1>4
<1>5. CASE req \in [op : {"resolve"}, id : Nat \ {0}, to : {"APPROVED", "REJECTED"}]
  BY <1>5
<1>6. QED
  BY <1>1, <1>2, <1>3, <1>4, <1>5 DEF Requests

LEMMA RequestsExist ==
  /\ [op |-> "create"] \in Requests
  /\ \A to \in Statuses : [op |-> "status", to |-> to] \in Requests
  /\ \A id \in 1..NumArtifacts : [op |-> "artifact", id |-> id] \in Requests
  /\ \A p \in Steps : [op |-> "ask", step |-> p] \in Requests
  /\ \A id \in Nat \ {0}, to \in {"APPROVED", "REJECTED"} :
       [op |-> "resolve", id |-> id, to |-> to] \in Requests
<1>1. [op |-> "create"] \in [op : {"create"}]
  OBVIOUS
<1>2. \A to \in Statuses : [op |-> "status", to |-> to] \in [op : {"status"}, to : Statuses]
  OBVIOUS
<1>3. \A id \in 1..NumArtifacts :
        [op |-> "artifact", id |-> id] \in [op : {"artifact"}, id : 1..NumArtifacts]
  OBVIOUS
<1>4. \A p \in Steps : [op |-> "ask", step |-> p] \in [op : {"ask"}, step : Steps]
  OBVIOUS
<1>5. \A id \in Nat \ {0}, to \in {"APPROVED", "REJECTED"} :
        [op |-> "resolve", id |-> id, to |-> to]
          \in [op : {"resolve"}, id : Nat \ {0}, to : {"APPROVED", "REJECTED"}]
  OBVIOUS
<1>6. QED
  BY <1>1, <1>2, <1>3, <1>4, <1>5 DEF Requests

(* The message of a call, and a message with a field changed *)
LEMMA MessageFields ==
  /\ \A t \in Sides, c \in Calls :
       LET m == MessageOf(t, c)
       IN /\ m \in Messages /\ m.live /\ m.side = t /\ m.req = c.req /\ m.attempt = c.attempt
          /\ m.stage = "received"
  /\ \A m \in Messages :
       LET g == [m EXCEPT !.live = FALSE]
       IN g \in Messages /\ ~g.live /\ g.side = m.side /\ g.req = m.req /\ g.stage = m.stage
  /\ \A m \in Messages, stage \in {"put", "inline", "conflict"} :
       LET w == [m EXCEPT !.stage = stage]
       IN /\ w \in Messages /\ w.live = m.live /\ w.side = m.side /\ w.req = m.req
          /\ w.attempt = m.attempt /\ w.stage = stage
  BY DEF MessageOf, Messages, Calls

LEMMA CallFields ==
  /\ NoCall \notin Calls
  /\ \A req \in Requests, n \in Nat :
       LET c == [req |-> req, n |-> n, attempt |-> 1] IN c \in Calls /\ c.req = req
  /\ \A c \in Calls : c.attempt < MaxAttempts =>
       LET d == [c EXCEPT !.attempt = @ + 1] IN d \in Calls /\ d.req = c.req
  BY StoreAssumption DEF NoCall, Calls

-----------------------------------------------------------------------------
(* Types *)

Approval == [step : Steps, decision : {"PENDING", "APPROVED", "REJECTED"}]

(* Compensations; nothing is asked of what is known of the artifacts. *)
CompTyped ==
  /\ comp = [pc |-> comp.pc, total |-> comp.total, left |-> comp.left, meta |-> comp.meta,
             blind |-> comp.blind, undone |-> comp.undone]
  /\ comp.pc \in {"off", "failing", "marking", "walking", "done"}
  /\ comp.total \in Nat /\ comp.left \in Nat /\ comp.blind \in BOOLEAN
  /\ \A a \in DOMAIN comp.meta : comp.meta[a] = Described(a)

LineageTyped ==
  /\ lineage = [pc |-> lineage.pc, at |-> lineage.at, seen |-> lineage.seen, cut |-> lineage.cut]
  /\ lineage.pc \in {"off", "walking", "done"}

TablesTyped ==
  /\ sessions \in Nat /\ made \in 0..NumArtifacts
  /\ approvals \in Seq(Approval)
  /\ CompTyped /\ LineageTyped
  /\ calls = 0 => inflight = {} /\ comp.pc = "off"

Typed == TrafficTyped /\ TablesTyped

(* Every step is one of those of MessageStep. *)
LEMMA StepIsTraffic ==
  ASSUME Typed, [StoreNext]_storeVars
  PROVE  MessageStep
<1> USE DEF Typed
<1>1. ASSUME NEW t \in Sides, NEW req \in Requests, Start(t, req), UNCHANGED doubtful,
             req.op \in {"create", "artifact", "ask"} => t = "run" /\ comp.pc = "off" /\ comp' = comp,
             req.op = "create" => calls = 0, req.op = "resolve" => t = "api"
      PROVE  MessageStep
  BY <1>1 DEF Starts, MessageStep
<1>2. CASE RunCalls
  <2>1. "run" \in Sides
    BY DEF Sides
  <2>2. CASE CreateSession
    <3>1. comp.pc = "off" /\ calls = 0
      BY <2>2 DEF CreateSession, TablesTyped
    <3>2. QED
      BY <1>1, <2>1, <2>2, <3>1, RequestsExist DEF CreateSession, Quiet, walkVars
  <2>3. CASE comp.pc = "off" /\ RegisterArtifact
    <3>1. made + 1 \in 1..NumArtifacts
      BY <2>3, StoreAssumption DEF RegisterArtifact, TablesTyped
    <3>2. QED
      BY <1>1, <2>1, <2>3, <3>1, RequestsExist DEF RegisterArtifact, Quiet, walkVars
  <2>4. ASSUME NEW status \in Statuses, UpdateStatus("run", status) PROVE MessageStep
    BY <1>1, <2>1, <2>4, RequestsExist DEF UpdateStatus, Quiet, walkVars
  <2>5. ASSUME NEW p \in Steps, comp.pc = "off", CreateCheckpoint(p) PROVE MessageStep
    BY <1>1, <2>1, <2>5, RequestsExist DEF CreateCheckpoint, Quiet, walkVars
  <2>6. QED
    BY <1>2, <2>2, <2>3, <2>4, <2>5 DEF RunCalls, Statuses
<1>3. CASE ApiCalls
  <2>1. "api" \in Sides
    BY DEF Sides
  <2>2. ASSUME NEW status \in ApiStatuses, UpdateStatus("api", status) PROVE MessageStep
    <3>1. status \in Statuses
      BY StoreAssumption DEF Statuses
    <3>2. QED
      BY <1>1, <2>1, <2>2, <3>1, RequestsExist DEF UpdateStatus, Quiet, walkVars
  <2>3. ASSUME NEW id \in DOMAIN approvals, NEW d \in {"APPROVED", "REJECTED"},
               ResolveCheckpoint(id, d)
        PROVE  MessageStep
    <3>1. id \in Nat \ {0}
      BY DEF TablesTyped
    <3>2. QED
      BY <1>1, <2>1, <2>3, <3>1, RequestsExist DEF ResolveCheckpoint, Quiet, walkVars
  <2>4. QED
    BY <1>3, <2>2, <2>3 DEF ApiCalls
<1>4. CASE Compensate
  <2>1. "run" \in Sides /\ {"FAILED", "COMPENSATING", "COMPENSATED"} \subseteq Statuses
    BY DEF Sides, Statuses
  <2>2. CASE HandleFailure
    BY <1>1, <2>1, <2>2, RequestsExist DEF HandleFailure
  <2>3. CASE CompensateStart
    BY <1>1, <2>1, <2>3, RequestsExist DEF CompensateStart
  <2>4. CASE CompensateClose
    BY <1>1, <2>1, <2>4, RequestsExist DEF CompensateClose
  <2>5. CASE CompensateFetch \/ CompensateOne
    BY <2>5 DEF CompensateFetch, CompensateOne, clientVars, MessageStep
  <2>6. QED
    BY <1>4, <2>2, <2>3, <2>4, <2>5 DEF Compensate
<1>5. CASE QueryLineage
  BY <1>5 DEF QueryLineage, clientVars, MessageStep
<1>6. ASSUME NEW m \in inflight, LoseRequest(m) \/ GiveUp(m) \/ FailRequest(m)
      PROVE  MessageStep
  BY <1>6 DEF LoseRequest, GiveUp, FailRequest, Loses, Leaves, Ends, MessageStep
<1>7. ASSUME NEW m \in inflight, Serve(m) PROVE MessageStep
  <2>1. calls' = calls /\ doubtful' = doubtful
    BY <1>7 DEF Serve
  <2>2. CASE ServeCreate(m) \/ ServeStatus(m) \/ InsertRow(m) \/ ReuseCheckpoint(m) \/ ServeResolve(m)
    BY <2>1, <2>2 DEF ServeCreate, ServeStatus, InsertRow, ReuseCheckpoint, ServeResolve,
                      Commit, Answered, Ends, MessageStep
  <2>3. CASE Upload(m)
    BY <2>1, <2>3 DEF Upload, WorksOn, MessageStep
  <2>4. CASE ServeAsk(m)
    BY <2>1, <2>4 DEF ServeAsk, Commit, Answered, WorksOn, Ends, MessageStep
  <2>5. QED
    BY <1>7, <2>2, <2>3, <2>4 DEF Serve
<1>8. CASE UNCHANGED storeVars
  BY <1>8 DEF storeVars, clientVars, MessageStep
<1>9. QED
  BY <1>2, <1>3, <1>4, <1>5, <1>6, <1>7, <1>8 DEF StoreNext

(* A message that is not given up belongs to the call of its side. *)
LEMMA LiveIsAwaited ==
  ASSUME TrafficTyped, OneReplyAwaited, NEW m \in inflight, m.live
  PROVE  /\ m \in Messages /\ m.side \in Sides
         /\ call[m.side] \in Calls /\ m.req = call[m.side].req
         /\ \A g \in inflight : g.live /\ g.side = m.side => g = m
<1>1. m \in Messages /\ m.side \in Sides
  BY DEF TrafficTyped, Messages
<1>2. m \in ReplyAwaited(m.side)
  BY DEF ReplyAwaited
<1>3. PICK a \in ReplyAwaited(m.side) : ReplyAwaited(m.side) = {a} /\ a.req = call[m.side].req
                                   /\ call[m.side] # NoCall
  BY <1>1, <1>2 DEF OneReplyAwaited, ReplyAwaited
<1>4. QED
  BY <1>1, <1>2, <1>3 DEF TrafficTyped, ReplyAwaited

(* MessageStep keeps the types of calls and messages. *)
LEMMA TrafficTypedStep ==
  ASSUME TrafficTyped, OneReplyAwaited, MessageStep
  PROVE  TrafficTyped'
<1> USE DEF TrafficTyped
<1>1. ASSUME NEW t, NEW req, Starts(t, req) PROVE TrafficTyped'
  <2> DEFINE c == [req |-> req, n |-> calls + 1, attempt |-> 1]
  <2>1. c \in Calls /\ t \in Sides
    BY <1>1, CallFields DEF Starts
  <2>2. MessageOf(t, c) \in Messages
    BY <2>1, MessageFields
  <2>3. call' = [call EXCEPT ![t] = c] /\ inflight' = inflight \cup {MessageOf(t, c)}
        /\ calls' = calls + 1
    BY <1>1 DEF Starts, Start
  <2> HIDE DEF c
  <2>4. QED
    BY <2>1, <2>2, <2>3
<1>2. ASSUME NEW m \in inflight, NEW rest \in SUBSET Messages, NextAttempt(m.side, rest),
             m.live, calls' = calls, call[m.side] \in Calls
      PROVE  TrafficTyped'
  <2> DEFINE c == [call[m.side] EXCEPT !.attempt = @ + 1]
  <2>1. m.side \in Sides
    BY DEF Messages
  <2>2. CASE call[m.side].attempt < MaxAttempts
    <3>1. c \in Calls
      BY <1>2, <2>2, CallFields
    <3>2. MessageOf(m.side, c) \in Messages
      BY <2>1, <3>1, MessageFields
    <3>3. call' = [call EXCEPT ![m.side] = c] /\ inflight' = rest \cup {MessageOf(m.side, c)}
      BY <1>2, <2>2 DEF NextAttempt
    <3> HIDE DEF c
    <3>4. QED
      BY <1>2, <3>1, <3>2, <3>3
  <2>3. CASE ~(call[m.side].attempt < MaxAttempts)
    <3>1. call' = [call EXCEPT ![m.side] = NoCall] /\ inflight' = rest
      BY <1>2, <2>3 DEF NextAttempt
    <3>2. QED
      BY <1>2, <3>1
  <2>4. QED
    BY <2>2, <2>3
<1>3. ASSUME NEW m \in inflight, Loses(m) PROVE TrafficTyped'
  <2>1. call[m.side] \in Calls /\ inflight \ {m} \in SUBSET Messages
    BY <1>3, LiveIsAwaited DEF Loses
  <2>2. QED
    BY <1>2, <1>3, <2>1 DEF Loses
<1>4. ASSUME NEW m \in inflight, Leaves(m) PROVE TrafficTyped'
  <2> DEFINE rest == (inflight \ {m}) \cup {[m EXCEPT !.live = FALSE]}
  <2>1. call[m.side] \in Calls
    BY <1>4, LiveIsAwaited DEF Leaves
  <2>2. rest \in SUBSET Messages
    BY MessageFields
  <2>3. QED
    BY <1>2, <1>4, <2>1, <2>2 DEF Leaves
<1>5. ASSUME NEW m \in inflight, NEW stage, WorksOn(m, stage) PROVE TrafficTyped'
  <2>1. [m EXCEPT !.stage = stage] \in Messages
    BY <1>5, MessageFields DEF WorksOn
  <2>2. QED
    BY <1>5, <2>1 DEF WorksOn
<1>6. ASSUME NEW m \in inflight, Ends(m) PROVE TrafficTyped'
  BY <1>6 DEF Ends, Answered
<1>7. CASE UNCHANGED <<call, inflight, calls, doubtful>>
  BY <1>7
<1>8. QED
  BY <1>1, <1>3, <1>4, <1>5, <1>6, <1>7 DEF MessageStep

(* What a side waits for after its next attempt: the message of that attempt, or
   nothing when there is none. *)
LEMMA NextIsAwaited ==
  ASSUME TrafficTyped, OneReplyAwaited, NEW m \in inflight, m.live,
         NEW rest \in SUBSET Messages, NextAttempt(m.side, rest),
         \A g \in rest : g.live => g \in inflight /\ g # m,
         \A g \in inflight : g.live => g = m \/ g \in rest
  PROVE  OneReplyAwaited'
<1>1. /\ m.side \in Sides /\ call[m.side] \in Calls /\ m.req = call[m.side].req
      /\ \A g \in inflight : g.live /\ g.side = m.side => g = m
  BY LiveIsAwaited
<1>2. {g \in rest : g.live /\ g.side = m.side} = {}
  BY <1>1
<1>3. ASSUME NEW t \in Sides, t # m.side
      PROVE  {g \in rest : g.live /\ g.side = t} = ReplyAwaited(t)
  BY <1>1, <1>3 DEF ReplyAwaited
<1> DEFINE c == [call[m.side] EXCEPT !.attempt = @ + 1]
<1>4. CASE call[m.side].attempt < MaxAttempts
  <2>1. c \in Calls
    BY <1>1, <1>4, CallFields
  <2>2. call' = [call EXCEPT ![m.side] = c] /\ inflight' = rest \cup {MessageOf(m.side, c)}
    BY <1>4 DEF NextAttempt
  <2> HIDE DEF c
  <2>3. /\ MessageOf(m.side, c).live /\ MessageOf(m.side, c).side = m.side
        /\ MessageOf(m.side, c).req = c.req /\ MessageOf(m.side, c).attempt = c.attempt
    BY <1>1, <2>1, MessageFields
  <2>4. c # NoCall
    BY <2>1, CallFields
  <2>5. ReplyAwaited(m.side)' = {MessageOf(m.side, c)} /\ call'[m.side] = c
    BY <1>1, <1>2, <2>2, <2>3 DEF ReplyAwaited, TrafficTyped
  <2>6. ASSUME NEW t \in Sides, t # m.side PROVE ReplyAwaited(t)' = ReplyAwaited(t) /\ call'[t] = call[t]
    BY <1>3, <2>2, <2>3, <2>6 DEF ReplyAwaited, TrafficTyped
  <2>7. QED
    BY <2>3, <2>4, <2>5, <2>6 DEF OneReplyAwaited, ReplyAwaited
<1>5. CASE ~(call[m.side].attempt < MaxAttempts)
  <2>1. call' = [call EXCEPT ![m.side] = NoCall] /\ inflight' = rest
    BY <1>5 DEF NextAttempt
  <2>2. ReplyAwaited(m.side)' = {} /\ call'[m.side] = NoCall
    BY <1>1, <1>2, <2>1 DEF ReplyAwaited, TrafficTyped
  <2>3. ASSUME NEW t \in Sides, t # m.side PROVE ReplyAwaited(t)' = ReplyAwaited(t) /\ call'[t] = call[t]
    BY <1>3, <2>1, <2>3 DEF ReplyAwaited, TrafficTyped
  <2>4. QED
    BY <2>2, <2>3 DEF OneReplyAwaited, ReplyAwaited
<1>6. QED
  BY <1>4, <1>5

LEMMA OneReplyStep ==
  ASSUME TrafficTyped, OneReplyAwaited, MessageStep
  PROVE  OneReplyAwaited'
<1>1. ASSUME NEW t, NEW req, Starts(t, req) PROVE OneReplyAwaited'
  <2> DEFINE c == [req |-> req, n |-> calls + 1, attempt |-> 1]
             g == MessageOf(t, c)
  <2>1. c \in Calls /\ t \in Sides /\ c # NoCall
    BY <1>1, CallFields DEF Starts, TrafficTyped
  <2>2. g.live /\ g.side = t /\ g.req = c.req /\ g.attempt = c.attempt
    BY <2>1, MessageFields
  <2>3. call[t] = NoCall /\ call' = [call EXCEPT ![t] = c] /\ inflight' = inflight \cup {g}
    BY <1>1 DEF Starts, Start
  <2> HIDE DEF c, g
  <2>4. ReplyAwaited(t) = {}
    BY <2>1, <2>3 DEF OneReplyAwaited, ReplyAwaited
  <2>5. ReplyAwaited(t)' = {g} /\ call'[t] = c
    BY <2>1, <2>2, <2>3, <2>4 DEF ReplyAwaited, TrafficTyped
  <2>6. ASSUME NEW u \in Sides, u # t PROVE ReplyAwaited(u)' = ReplyAwaited(u) /\ call'[u] = call[u]
    BY <2>2, <2>3, <2>6 DEF ReplyAwaited, TrafficTyped
  <2>7. QED
    BY <2>1, <2>2, <2>5, <2>6 DEF OneReplyAwaited, ReplyAwaited
<1>2. ASSUME NEW m \in inflight, Loses(m) PROVE OneReplyAwaited'
  <2>1. inflight \ {m} \in SUBSET Messages
    BY DEF TrafficTyped
  <2>2. QED
    BY <1>2, <2>1, NextIsAwaited DEF Loses
<1>3. ASSUME NEW m \in inflight, Leaves(m) PROVE OneReplyAwaited'
  <2> DEFINE gone == [m EXCEPT !.live = FALSE]
             rest == (inflight \ {m}) \cup {gone}
  <2>1. gone \in Messages /\ ~gone.live
    BY MessageFields DEF TrafficTyped
  <2>2. m.live /\ NextAttempt(m.side, rest)
    BY <1>3 DEF Leaves
  <2> HIDE DEF gone
  <2>3. rest \in SUBSET Messages
    BY <2>1 DEF TrafficTyped
  <2>4. QED
    BY <2>1, <2>2, <2>3, NextIsAwaited
<1>4. ASSUME NEW m \in inflight, NEW stage, WorksOn(m, stage) PROVE OneReplyAwaited'
  <2> DEFINE w == [m EXCEPT !.stage = stage]
  <2>1. /\ w.live = m.live /\ w.side = m.side /\ w.req = m.req /\ w.attempt = m.attempt
    BY <1>4, MessageFields DEF WorksOn, TrafficTyped
  <2>2. inflight' = (inflight \ {m}) \cup {w} /\ call' = call
    BY <1>4 DEF WorksOn
  <2> HIDE DEF w
  <2>3. ASSUME NEW t \in Sides
        PROVE  ReplyAwaited(t)' = IF m \in ReplyAwaited(t) THEN (ReplyAwaited(t) \ {m}) \cup {w} ELSE ReplyAwaited(t)
    BY <2>1, <2>2 DEF ReplyAwaited
  <2>4. ASSUME NEW t \in Sides, call[t] = NoCall PROVE ReplyAwaited(t)' = {}
    BY <2>3, <2>4 DEF OneReplyAwaited, ReplyAwaited
  <2>5. ASSUME NEW t \in Sides, call[t] # NoCall
        PROVE  \E a \in ReplyAwaited(t)' : ReplyAwaited(t)' = {a} /\ a.req = call[t].req
                                      /\ a.attempt = call[t].attempt
    <3>1. PICK a \in ReplyAwaited(t) : ReplyAwaited(t) = {a} /\ a.req = call[t].req
                                  /\ a.attempt = call[t].attempt
      BY <2>5 DEF OneReplyAwaited, ReplyAwaited
    <3>2. CASE a = m
      BY <2>1, <2>3, <3>1, <3>2
    <3>3. CASE a # m
      BY <2>3, <3>1, <3>3
    <3>4. QED
      BY <3>2, <3>3
  <2>6. QED
    BY <2>2, <2>4, <2>5 DEF OneReplyAwaited, ReplyAwaited
<1>5. ASSUME NEW m \in inflight, Ends(m) PROVE OneReplyAwaited'
  <2>1. inflight' = inflight \ {m}
    BY <1>5 DEF Ends
  <2>2. CASE m.live
    <3>1. m.side \in Sides /\ \A g \in inflight : g.live /\ g.side = m.side => g = m
      BY <2>2, LiveIsAwaited
    <3>2. call' = [call EXCEPT ![m.side] = NoCall]
      BY <1>5, <2>2 DEF Ends, Answered
    <3>3. ReplyAwaited(m.side)' = {} /\ call'[m.side] = NoCall
      BY <2>1, <3>1, <3>2 DEF ReplyAwaited, TrafficTyped
    <3>4. ASSUME NEW t \in Sides, t # m.side PROVE ReplyAwaited(t)' = ReplyAwaited(t) /\ call'[t] = call[t]
      BY <2>1, <3>2, <3>4 DEF ReplyAwaited, TrafficTyped
    <3>5. QED
      BY <3>3, <3>4 DEF OneReplyAwaited, ReplyAwaited
  <2>3. CASE ~m.live
    <3>1. call' = call
      BY <1>5, <2>3 DEF Ends, Answered
    <3>2. \A t : ReplyAwaited(t)' = ReplyAwaited(t)
      BY <2>1, <2>3 DEF ReplyAwaited
    <3>3. QED
      BY <3>1, <3>2 DEF OneReplyAwaited, ReplyAwaited
  <2>4. QED
    BY <2>2, <2>3
<1>6. CASE UNCHANGED <<call, inflight, calls, doubtful>>
  BY <1>6 DEF OneReplyAwaited
<1>7. QED
  BY <1>1, <1>2, <1>3, <1>4, <1>5, <1>6 DEF MessageStep

-----------------------------------------------------------------------------
(* Types of the tables *)

LEMMA StoreTypedInit == ASSUME StoreInit PROVE Typed /\ OneReplyAwaited
<1>1. /\ \A t \in Sides : call[t] = NoCall
      /\ inflight = {} /\ calls = 0 /\ sessions = 0 /\ approvals = <<>> /\ made = 0 /\ heard = {}
      /\ comp = [pc |-> "off", total |-> 0, left |-> 0, meta |-> <<>>, blind |-> FALSE, undone |-> {}]
      /\ lineage = [pc |-> "off", at |-> 0, seen |-> {}, cut |-> FALSE]
  BY DEF StoreInit
<1>2. TrafficTyped
  BY <1>1 DEF StoreInit, TrafficTyped
<1>3. OneReplyAwaited
  BY <1>1 DEF OneReplyAwaited
<1>4. CompTyped
  BY <1>1 DEF CompTyped
<1>5. LineageTyped
  BY <1>1 DEF LineageTyped
<1>6. TablesTyped
  BY <1>1, <1>4, <1>5, StoreAssumption DEF TablesTyped
<1>7. QED
  BY <1>2, <1>3, <1>6 DEF Typed

(* Compensation *)
LEMMA CompTypedStep ==
  ASSUME Typed, [StoreNext]_storeVars
  PROVE  CompTyped'
<1> USE DEF Typed, TablesTyped
<1>1. CASE HandleFailure
  <2>1. PICK total \in 0..made : comp' = [comp EXCEPT !.pc = "failing", !.total = total, !.left = total]
    BY <1>1 DEF HandleFailure
  <2>2. total \in Nat
    BY StoreAssumption
  <2>3. comp' = [pc |-> "failing", total |-> total, left |-> total, meta |-> comp.meta,
                 blind |-> comp.blind, undone |-> comp.undone]
    BY <2>1 DEF CompTyped
  <2>4. QED
    BY <2>2, <2>3 DEF CompTyped
<1>2. CASE CompensateStart
  <2>1. comp' = [pc |-> "marking", total |-> comp.total, left |-> comp.left, meta |-> comp.meta,
                 blind |-> comp.blind, undone |-> comp.undone]
    BY <1>2 DEF CompensateStart, CompTyped
  <2>2. QED
    BY <2>1 DEF CompTyped
<1>3. CASE CompensateFetch
  <2>1. CASE comp' = [comp EXCEPT !.pc = "walking", !.meta = [a \in DOMAIN rows |-> Described(a)]]
    <3>1. comp' = [pc |-> "walking", total |-> comp.total, left |-> comp.left,
                   meta |-> [a \in DOMAIN rows |-> Described(a)],
                   blind |-> comp.blind, undone |-> comp.undone]
      BY <2>1 DEF CompTyped
    <3>2. QED
      BY <3>1 DEF CompTyped
  <2>2. CASE comp' = [comp EXCEPT !.pc = "walking", !.blind = TRUE]
    <3>1. comp' = [pc |-> "walking", total |-> comp.total, left |-> comp.left, meta |-> comp.meta,
                   blind |-> TRUE, undone |-> comp.undone]
      BY <2>2 DEF CompTyped
    <3>2. QED
      BY <3>1 DEF CompTyped
  <2>3. QED
    BY <1>3, <2>1, <2>2 DEF CompensateFetch
<1>4. CASE CompensateOne
  <2>1. PICK undone : comp' = [comp EXCEPT !.left = @ - 1, !.undone = undone]
    BY <1>4 DEF CompensateOne, CompTyped
  <2>2. comp' = [pc |-> comp.pc, total |-> comp.total, left |-> comp.left - 1, meta |-> comp.meta,
                 blind |-> comp.blind, undone |-> undone]
    BY <2>1 DEF CompTyped
  <2>3. comp.left - 1 \in Nat
    BY <1>4 DEF CompensateOne, CompTyped
  <2>4. QED
    BY <2>2, <2>3 DEF CompTyped
<1>5. CASE CompensateClose
  <2>1. comp' = [pc |-> "done", total |-> comp.total, left |-> comp.left, meta |-> comp.meta,
                 blind |-> comp.blind, undone |-> comp.undone]
    BY <1>5 DEF CompensateClose, CompTyped
  <2>2. QED
    BY <2>1 DEF CompTyped
<1>6. CASE comp' = comp
  BY <1>6 DEF CompTyped
<1>7. Compensate \/ comp' = comp
  BY DEF StoreNext, RunCalls, ApiCalls, CreateSession, RegisterArtifact, UpdateStatus, CreateCheckpoint,
         ResolveCheckpoint, Quiet, walkVars, QueryLineage, LoseRequest, GiveUp, FailRequest, Serve, storeVars
<1>8. QED
  BY <1>1, <1>2, <1>3, <1>4, <1>5, <1>6, <1>7 DEF Compensate

(* What a step writes: a variable keeps its value but for the actions named. *)
LEMMA WhoWrites ==
  ASSUME [StoreNext]_storeVars
  PROVE  /\ comp' = comp \/ Compensate
         /\ lineage' = lineage \/ QueryLineage
         /\ made' = made \/ RegisterArtifact
         /\ sessions' = sessions \/ \E m \in inflight : ServeCreate(m)
         /\ rows' = rows \/ \E m \in inflight : InsertRow(m)
         /\ objects' = objects \/ CompensateOne \/ \E m \in inflight : Upload(m)
         /\ approvals' = approvals \/ \E m \in inflight : ServeAsk(m) \/ ServeResolve(m)
         /\ heard' = heard \/ \E m \in inflight : ServeAsk(m) \/ ReuseCheckpoint(m)
         /\ \/ wf' = wf /\ acked' = acked
            \/ \E m \in inflight : ServeCreate(m) \/ ServeStatus(m) \/ ServeAsk(m) \/ ServeResolve(m)
<1> DEFINE Still == UNCHANGED <<comp, lineage, made, tableVars, heard, acked>>
<1>1. CASE RunCalls
  <2>1. RegisterArtifact \/ UNCHANGED made
    BY <1>1 DEF RunCalls, CreateSession, UpdateStatus, CreateCheckpoint
  <2>2. UNCHANGED <<comp, lineage, tableVars, heard, acked>>
    BY <1>1 DEF RunCalls, CreateSession, RegisterArtifact, UpdateStatus, CreateCheckpoint, Quiet, walkVars
  <2>3. QED
    BY <2>1, <2>2 DEF tableVars
<1>2. CASE ApiCalls
  <2>1. Still
    BY <1>2 DEF ApiCalls, UpdateStatus, ResolveCheckpoint, Quiet, walkVars
  <2>2. QED
    BY <2>1 DEF tableVars
<1>3. CASE Compensate
  <2>1. CompensateOne \/ UNCHANGED objects
    BY <1>3 DEF Compensate, HandleFailure, CompensateStart, CompensateFetch, CompensateClose, tableVars
  <2>2. UNCHANGED <<lineage, made, sessions, wf, rows, approvals, heard, acked>>
    BY <1>3 DEF Compensate, HandleFailure, CompensateStart, CompensateFetch, CompensateOne,
                CompensateClose, tableVars, clientVars
  <2>3. QED
    BY <1>3, <2>1, <2>2
<1>4. CASE QueryLineage
  BY <1>4 DEF QueryLineage, clientVars, tableVars
<1>5. ASSUME NEW m \in inflight, LoseRequest(m) \/ GiveUp(m) \/ FailRequest(m) PROVE Still
  BY <1>5 DEF LoseRequest, GiveUp, FailRequest, walkVars
<1>6. ASSUME NEW m \in inflight, Serve(m)
      PROVE  /\ UNCHANGED <<comp, lineage, made>>
             /\ sessions' = sessions \/ ServeCreate(m)
             /\ rows' = rows \/ InsertRow(m)
             /\ objects' = objects \/ Upload(m)
             /\ approvals' = approvals \/ ServeAsk(m) \/ ServeResolve(m)
             /\ heard' = heard \/ ServeAsk(m) \/ ReuseCheckpoint(m)
             /\ \/ wf' = wf /\ acked' = acked
                \/ ServeCreate(m) \/ ServeStatus(m) \/ ServeAsk(m) \/ ServeResolve(m)
  <2>1. UNCHANGED <<comp, lineage, made>> /\ (heard' = heard \/ ServeAsk(m) \/ ReuseCheckpoint(m))
    BY <1>6 DEF Serve, walkVars
  <2>2. CASE ServeCreate(m)
    BY <2>1, <2>2 DEF ServeCreate
  <2>3. CASE ServeStatus(m)
    BY <2>1, <2>3 DEF ServeStatus
  <2>4. CASE Upload(m)
    BY <2>1, <2>4 DEF Upload
  <2>5. CASE InsertRow(m)
    BY <2>1, <2>5 DEF InsertRow
  <2>6. CASE ServeResolve(m)
    BY <2>1, <2>6 DEF ServeResolve
  <2>7. CASE ServeAsk(m)
    BY <2>1, <2>7 DEF ServeAsk
  <2>8. CASE ReuseCheckpoint(m)
    BY <2>1, <2>8 DEF ReuseCheckpoint
  <2>9. QED
    BY <1>6, <2>2, <2>3, <2>4, <2>5, <2>6, <2>7, <2>8 DEF Serve
<1>7. CASE UNCHANGED storeVars
  <2>1. Still
    BY <1>7 DEF storeVars, clientVars, walkVars
  <2>2. QED
    BY <2>1 DEF tableVars
<1>8. ASSUME Still PROVE comp' = comp /\ UNCHANGED <<lineage, made, sessions, wf, rows, objects, approvals, heard, acked>>
  BY <1>8 DEF tableVars
<1>9. CASE \E m \in inflight : LoseRequest(m) \/ GiveUp(m) \/ FailRequest(m)
  BY <1>5, <1>8, <1>9
<1>10. CASE \E m \in inflight : Serve(m)
  BY <1>6, <1>10
<1>11. QED
  BY <1>1, <1>2, <1>3, <1>4, <1>7, <1>9, <1>10 DEF StoreNext

(* Queries *)
LEMMA LineageStep ==
  ASSUME LineageTyped, [StoreNext]_storeVars
  PROVE  /\ LineageTyped'
         /\ \/ lineage' = lineage
            \/ LineageStart \/ LineageTurn \/ LineageEnd \/ LineageCut
<1>1. CASE lineage' = lineage
  BY <1>1 DEF LineageTyped
<1>2. CASE LineageStart
  <2>1. PICK a : lineage' = [lineage EXCEPT !.pc = "walking", !.at = a]
    BY <1>2 DEF LineageStart
  <2>2. QED
    BY <1>2, <2>1 DEF LineageTyped
<1>3. CASE LineageTurn
  BY <1>3 DEF LineageTurn, LineageTyped
<1>4. CASE LineageEnd \/ LineageCut
  BY <1>4 DEF LineageEnd, LineageCut, LineageTyped
<1>5. QED
  BY <1>1, <1>2, <1>3, <1>4, WhoWrites DEF QueryLineage

LEMMA TypedStep ==
  ASSUME Typed, OneReplyAwaited, [StoreNext]_storeVars
  PROVE  Typed' /\ OneReplyAwaited'
<1> USE DEF Typed
<1>1. MessageStep
  BY StepIsTraffic
<1>2. TrafficTyped' /\ OneReplyAwaited'
  BY <1>1, TrafficTypedStep, OneReplyStep
<1>3. CompTyped' /\ LineageTyped'
  BY CompTypedStep, LineageStep DEF TablesTyped
<1>4. sessions' \in Nat
  BY WhoWrites DEF ServeCreate, TablesTyped
<1>5. made' \in 0..NumArtifacts
  BY WhoWrites, StoreAssumption DEF RegisterArtifact, TablesTyped
<1>6. approvals' \in Seq(Approval)
  <2>1. approvals \in Seq(Approval)
    BY DEF TablesTyped
  <2>2. ASSUME NEW m \in inflight, ServeAsk(m) PROVE approvals' \in Seq(Approval)
    <3>1. m.req.step \in Steps
      BY <2>2, RequestShape DEF ServeAsk, TrafficTyped, Messages
    <3>2. [step |-> m.req.step, decision |-> "PENDING"] \in Approval
      BY <3>1 DEF Approval
    <3>3. QED
      BY <2>1, <2>2, <3>2 DEF ServeAsk
  <2>3. ASSUME NEW m \in inflight, ServeResolve(m) PROVE approvals' \in Seq(Approval)
    <3>1. m.req.to \in {"APPROVED", "REJECTED"}
      BY <2>3, RequestShape DEF ServeResolve, TrafficTyped, Messages
    <3>2. CASE m.req.id \in 1..Len(approvals)
      <4> DEFINE old == approvals[m.req.id]
      <4>1. [old EXCEPT !.decision = m.req.to] \in Approval
        <5>1. old \in Approval
          BY <2>1, <3>2
        <5> HIDE DEF old
        <5>2. QED
          BY <3>1, <5>1 DEF Approval
      <4>2. approvals' = [approvals EXCEPT ![m.req.id] = [old EXCEPT !.decision = m.req.to]]
        BY <2>3 DEF ServeResolve
      <4> HIDE DEF old
      <4>3. QED
        BY <2>1, <3>2, <4>1, <4>2, ExceptSeq
    <3>3. CASE m.req.id \notin 1..Len(approvals)
      <4>1. approvals' = approvals
        BY <2>1, <2>3, <3>3 DEF ServeResolve
      <4>2. QED
        BY <2>1, <4>1
    <3>4. QED
      BY <3>2, <3>3
  <2>4. QED
    BY <2>1, <2>2, <2>3, WhoWrites
<1>7. calls' = 0 => inflight' = {} /\ comp'.pc = "off"
  <2>1. calls' = calls \/ \E t, req : Start(t, req) /\ calls' = calls + 1
    BY <1>1 DEF MessageStep, Starts, Start, Loses, Leaves, Ends, WorksOn
  <2>2. calls' = 0 => calls = 0 /\ inflight' = {}
    <3>1. calls' = 0 => calls' = calls
      BY <2>1 DEF TrafficTyped
    <3>2. ASSUME calls' = 0, inflight = {} PROVE inflight' = {}
      <4>1. ASSUME NEW t, NEW req, Starts(t, req) PROVE FALSE
        <5>1. calls' = calls + 1
          BY <4>1 DEF Starts, Start
        <5>2. QED
          BY <3>1, <3>2, <5>1 DEF TrafficTyped
      <4>2. QED
        BY <1>1, <3>2, <4>1 DEF MessageStep
    <3>3. QED
      BY <3>1, <3>2 DEF TablesTyped
  <2>3. ASSUME calls' = 0 PROVE comp' = comp
    <3>1. comp.pc = "off" /\ calls = 0
      BY <2>2, <2>3 DEF TablesTyped
    <3>2. ~HandleFailure
      BY <2>3, <3>1 DEF HandleFailure, Start
    <3>3. QED
      BY <3>1, <3>2, WhoWrites DEF Compensate, CompensateStart, CompensateFetch, CompensateOne, CompensateClose
  <2>4. QED
    BY <2>1, <2>2, <2>3 DEF TablesTyped
<1>8. QED
  BY <1>2, <1>3, <1>4, <1>5, <1>6, <1>7 DEF TablesTyped

-----------------------------------------------------------------------------
(* Messages *)

(* Where a message comes from: it was there, a call or a next attempt has sent
   it, it was given up, or the server has worked on it. *)
LEMMA WhereFrom ==
  ASSUME TrafficTyped, OneReplyAwaited, MessageStep, NEW g \in inflight'
  PROVE  \/ g \in inflight
         \/ g.live /\ g.stage = "received" /\ Starts(g.side, g.req)
         \/ \E m \in inflight :
              /\ g.req = m.req /\ g.side = m.side
              /\ \/ g.live /\ g.stage = "received"
                 \/ ~g.live /\ g.stage = m.stage /\ m.req \in doubtful'
                 \/ g.live = m.live /\ WorksOn(m, g.stage)
<1>1. ASSUME NEW t, NEW req, Starts(t, req), g \notin inflight
      PROVE  g.live /\ g.stage = "received" /\ Starts(g.side, g.req)
  <2> DEFINE c == [req |-> req, n |-> calls + 1, attempt |-> 1]
  <2>1. c \in Calls /\ c.req = req /\ t \in Sides
    BY <1>1, CallFields DEF Starts, TrafficTyped
  <2>2. inflight' = inflight \cup {MessageOf(t, c)}
    BY <1>1 DEF Starts, Start
  <2> HIDE DEF c
  <2>3. g = MessageOf(t, c) /\ g.live /\ g.side = t /\ g.req = req /\ g.stage = "received"
    BY <1>1, <2>1, <2>2, MessageFields
  <2>4. QED
    BY <1>1, <2>3
<1>2. ASSUME NEW m \in inflight, m.live, NEW rest, NextAttempt(m.side, rest), g \notin rest
      PROVE  g.req = m.req /\ g.side = m.side /\ g.live /\ g.stage = "received"
  <2> DEFINE c == [call[m.side] EXCEPT !.attempt = @ + 1]
  <2>1. call[m.side] \in Calls /\ m.req = call[m.side].req /\ m.side \in Sides
    BY <1>2, LiveIsAwaited
  <2>2. call[m.side].attempt < MaxAttempts /\ inflight' = rest \cup {MessageOf(m.side, c)}
    BY <1>2 DEF NextAttempt
  <2>3. c \in Calls /\ c.req = m.req
    BY <2>1, <2>2, CallFields
  <2> HIDE DEF c
  <2>4. g = MessageOf(m.side, c)
    BY <1>2, <2>2
  <2>5. QED
    BY <2>1, <2>3, <2>4, MessageFields
<1>3. ASSUME NEW m \in inflight, Loses(m), g \notin inflight
      PROVE  g.req = m.req /\ g.side = m.side /\ g.live /\ g.stage = "received"
  BY <1>2, <1>3 DEF Loses
<1>4. ASSUME NEW m \in inflight, Leaves(m), g \notin inflight
      PROVE  g.req = m.req /\ g.side = m.side
             /\ \/ g.live /\ g.stage = "received"
                \/ ~g.live /\ g.stage = m.stage /\ m.req \in doubtful'
  <2> DEFINE gone == [m EXCEPT !.live = FALSE]
             rest == (inflight \ {m}) \cup {gone}
  <2>1. ~gone.live /\ gone.side = m.side /\ gone.req = m.req /\ gone.stage = m.stage
    BY MessageFields DEF TrafficTyped
  <2>2. m.live /\ NextAttempt(m.side, rest) /\ m.req \in doubtful'
    BY <1>4 DEF Leaves
  <2> HIDE DEF gone
  <2>3. CASE g = gone
    BY <2>1, <2>2, <2>3
  <2>4. CASE g # gone
    <3>1. g \notin rest
      BY <1>4, <2>4
    <3> HIDE DEF rest
    <3>2. QED
      BY <1>2, <2>2, <3>1
  <2>5. QED
    BY <2>3, <2>4
<1>5. ASSUME NEW m \in inflight, NEW stage, WorksOn(m, stage), g \notin inflight
      PROVE  g.req = m.req /\ g.side = m.side /\ g.live = m.live /\ g.stage = stage
  <2>1. g = [m EXCEPT !.stage = stage] /\ stage \in {"put", "inline", "conflict"}
    BY <1>5 DEF WorksOn
  <2>2. QED
    BY <2>1, MessageFields DEF TrafficTyped
<1>6. ASSUME NEW m \in inflight, Ends(m) PROVE g \in inflight
  BY <1>6 DEF Ends
<1>7. CASE UNCHANGED <<call, inflight, calls, doubtful>>
  BY <1>7
<1>8. QED
  BY <1>1, <1>3, <1>4, <1>5, <1>6, <1>7 DEF MessageStep

LEMMA DoubtGrows == ASSUME MessageStep PROVE doubtful \subseteq doubtful'
  BY DEF MessageStep, Starts, Loses, Leaves, WorksOn, Ends

(* What holds of every message, whoever waits for it: a request that was given
   up is on record, artifacts are registered and questions asked by the run
   alone, an object that was put is there, a conflict has a row. *)
MessagesInOrder ==
  \A m \in inflight :
    /\ ~m.live => m.req \in doubtful
    /\ m.req.op \in {"create", "artifact", "ask"} => m.side = "run"
    /\ m.stage = "put" => m.req.op = "artifact" /\ m.req.id \in objects
    /\ m.stage = "conflict" => m.req.op = "ask" /\ AskedBefore(m.req.step)

(* No step takes an object away: the artifacts that the compensation is told of
   have no key. *)
LEMMA ObjectsStay ==
  ASSUME Typed, [StoreNext]_storeVars PROVE objects \subseteq objects'
<1>1. ASSUME CompensateOne PROVE objects' = objects
  BY <1>1 DEF CompensateOne, Typed, TablesTyped, CompTyped, Described
<1>2. ASSUME NEW m \in inflight, Upload(m) PROVE objects \subseteq objects'
  BY <1>2 DEF Upload
<1>3. QED
  BY <1>1, <1>2, WhoWrites

(* A question that was asked stays asked. *)
LEMMA AskedStaysAsked ==
  ASSUME Typed, [StoreNext]_storeVars
  PROVE  /\ Len(approvals) \in Nat /\ DOMAIN approvals = 1..Len(approvals)
         /\ DOMAIN approvals \subseteq DOMAIN approvals'
         /\ \A i \in DOMAIN approvals : approvals'[i].step = approvals[i].step
<1>1. approvals \in Seq(Approval)
  BY DEF Typed, TablesTyped
<1>2. ASSUME NEW m \in inflight, ServeAsk(m)
      PROVE  approvals' = approvals \/ \E e : approvals' = Append(approvals, e)
  BY <1>2 DEF ServeAsk
<1>3. ASSUME NEW m \in inflight, ServeResolve(m)
      PROVE  /\ DOMAIN approvals' = DOMAIN approvals
             /\ \A i \in DOMAIN approvals : approvals'[i].step = approvals[i].step
  <2>1. approvals' = [approvals EXCEPT ![m.req.id].decision = m.req.to]
    BY <1>3 DEF ServeResolve
  <2>2. \A i \in DOMAIN approvals : approvals[i] \in Approval
    BY <1>1
  <2>3. QED
    BY <2>1, <2>2 DEF Approval
<1>4. QED
  BY <1>1, <1>2, <1>3, WhoWrites

LEMMA MessagesInOrderStep ==
  ASSUME Typed, OneReplyAwaited, MessagesInOrder, [StoreNext]_storeVars
  PROVE  MessagesInOrder'
<1>1. MessageStep /\ TrafficTyped /\ doubtful \subseteq doubtful' /\ objects \subseteq objects'
  BY StepIsTraffic, DoubtGrows, ObjectsStay DEF Typed
<1>2. \A p : AskedBefore(p) => AskedBefore(p)'
  BY AskedStaysAsked DEF AskedBefore
<1> DEFINE InOrder(g) == /\ ~g.live => g.req \in doubtful'
                         /\ g.req.op \in {"create", "artifact", "ask"} => g.side = "run"
                         /\ g.stage = "put" => g.req.op = "artifact" /\ g.req.id \in objects'
                         /\ g.stage = "conflict" => g.req.op = "ask" /\ AskedBefore(g.req.step)'
<1>3. ASSUME NEW g \in inflight' PROVE InOrder(g)
  <2>1. CASE g \in inflight
    BY <1>1, <1>2, <2>1 DEF MessagesInOrder
  <2>2. CASE g.live /\ g.stage = "received" /\ Starts(g.side, g.req)
    BY <2>2 DEF Starts
  <2>3. ASSUME NEW m \in inflight, g.req = m.req, g.side = m.side,
               \/ g.live /\ g.stage = "received"
               \/ ~g.live /\ g.stage = m.stage /\ m.req \in doubtful'
        PROVE  InOrder(g)
    BY <1>1, <1>2, <2>3 DEF MessagesInOrder
  <2>4. ASSUME NEW m \in inflight, g.req = m.req, g.side = m.side, g.live = m.live,
               WorksOn(m, g.stage)
        PROVE  InOrder(g)
    <3>1. /\ g.stage = "put" => m.req.op = "artifact" /\ m.req.id \in objects'
          /\ g.stage = "conflict" => m.req.op = "ask" /\ AskedBefore(m.req.step)'
      BY <1>2, <2>4 DEF WorksOn
    <3>2. QED
      BY <1>1, <2>4, <3>1 DEF MessagesInOrder
  <2>5. QED
    BY <1>1, <1>3, <2>1, <2>2, <2>3, <2>4, WhereFrom
<1>4. QED
  BY <1>3 DEF MessagesInOrder, AskedBefore

LEMMA MessagesInOrderInit == ASSUME StoreInit PROVE MessagesInOrder
  BY DEF StoreInit, MessagesInOrder

StoreInv == Typed /\ OneReplyAwaited /\ MessagesInOrder

LEMMA StoreInvInit == ASSUME StoreInit PROVE StoreInv
  BY StoreTypedInit, MessagesInOrderInit DEF StoreInv

LEMMA StoreInvStep == ASSUME StoreInv, [StoreNext]_storeVars PROVE StoreInv'
  BY TypedStep, MessagesInOrderStep DEF StoreInv

(* However often the client repeats a request and however late the server is,
   each side that waits has exactly one message that will answer it. *)
THEOREM RepliesAreUnique == StoreSpec => []OneReplyAwaited
<1>1. StoreInv => OneReplyAwaited
  BY DEF StoreInv
<1>2. QED
  BY <1>1, StoreInvInit, StoreInvStep, PTL DEF StoreSpec

-----------------------------------------------------------------------------
(* Questions *)

(* A step has one approval, and who heard of a checkpoint heard of this one. *)
QuestionsInv ==
  /\ heard \subseteq Steps \X (Nat \ {0})
  /\ \A x \in heard : x[2] \in DOMAIN approvals /\ approvals[x[2]].step = x[1]
  /\ \A i, j \in DOMAIN approvals : approvals[i].step = approvals[j].step => i = j

LEMMA QuestionsStep ==
  ASSUME StoreInv, QuestionsInv, [StoreNext]_storeVars
  PROVE  QuestionsInv'
<1> USE DEF StoreInv, Typed
<1>1. /\ approvals \in Seq(Approval) /\ Len(approvals) \in Nat
      /\ DOMAIN approvals = 1..Len(approvals)
  BY DEF TablesTyped
<1>2. /\ DOMAIN approvals \subseteq DOMAIN approvals'
      /\ \A i \in DOMAIN approvals : approvals'[i].step = approvals[i].step
  BY AskedStaysAsked
<1>3. \A i, j \in DOMAIN approvals' : approvals'[i].step = approvals'[j].step => i = j
  <2>1. ASSUME NEW m \in inflight, ServeAsk(m), approvals' # approvals
        PROVE  \A i, j \in DOMAIN approvals' : approvals'[i].step = approvals'[j].step => i = j
    <3>1. /\ approvals' = Append(approvals, [step |-> m.req.step, decision |-> "PENDING"])
          /\ \A i \in DOMAIN approvals : approvals[i].step # m.req.step
      BY <2>1 DEF ServeAsk, AskedBefore
    <3>2. /\ approvals'[Len(approvals) + 1].step = m.req.step
          /\ DOMAIN approvals' = 1..(Len(approvals) + 1)
      BY <1>1, <3>1
    <3>3. \A i \in DOMAIN approvals' : i \in DOMAIN approvals \/ i = Len(approvals) + 1
      BY <1>1, <3>2
    <3>4. QED
      BY <1>2, <3>1, <3>2, <3>3 DEF QuestionsInv
  <2>2. ASSUME NEW m \in inflight, ServeResolve(m) PROVE DOMAIN approvals' = DOMAIN approvals
    BY <2>2 DEF ServeResolve
  <2>3. QED
    BY <1>2, <2>1, <2>2, WhoWrites DEF QuestionsInv
<1>4. ASSUME NEW x \in heard
      PROVE  x \in Steps \X (Nat \ {0}) /\ x[2] \in DOMAIN approvals' /\ approvals'[x[2]].step = x[1]
  BY <1>2, <1>4 DEF QuestionsInv
<1>5. ASSUME NEW m \in inflight, ServeAsk(m), NEW x \in heard' \ heard
      PROVE  x \in Steps \X (Nat \ {0}) /\ x[2] \in DOMAIN approvals' /\ approvals'[x[2]].step = x[1]
  <2>1. m.req.step \in Steps
    BY <1>5, RequestShape DEF ServeAsk, TrafficTyped, Messages
  <2>2. /\ approvals' = Append(approvals, [step |-> m.req.step, decision |-> "PENDING"])
        /\ x = <<m.req.step, Len(approvals) + 1>>
    BY <1>5 DEF ServeAsk
  <2>3. /\ approvals'[Len(approvals) + 1].step = m.req.step
        /\ DOMAIN approvals' = 1..(Len(approvals) + 1)
    BY <1>1, <2>2
  <2>4. QED
    BY <1>1, <2>1, <2>2, <2>3
<1>6. ASSUME NEW m \in inflight, ReuseCheckpoint(m), NEW x \in heard' \ heard
      PROVE  x \in Steps \X (Nat \ {0}) /\ x[2] \in DOMAIN approvals' /\ approvals'[x[2]].step = x[1]
  <2>1. m.req.step \in Steps /\ AskedBefore(m.req.step) /\ approvals' = approvals
    BY <1>6, RequestShape DEF ReuseCheckpoint, TrafficTyped, Messages, MessagesInOrder
  <2>2. IdOf(m.req.step) \in DOMAIN approvals /\ approvals[IdOf(m.req.step)].step = m.req.step
    BY <2>1 DEF AskedBefore, IdOf
  <2>3. x = <<m.req.step, IdOf(m.req.step)>>
    BY <1>6 DEF ReuseCheckpoint
  <2>4. QED
    BY <1>1, <2>1, <2>2, <2>3
<1>7. \A x \in heard' :
        x \in Steps \X (Nat \ {0}) /\ x[2] \in DOMAIN approvals' /\ approvals'[x[2]].step = x[1]
  BY <1>4, <1>5, <1>6, WhoWrites
<1>8. QED
  BY <1>3, <1>7 DEF QuestionsInv

(* However often a question is asked again, lost, or overtaken by its answer, its
   step has one checkpoint, and this is the one that everybody heard of. *)
THEOREM QuestionsAreTheSame == StoreSpec => []SameQuestion
<1>1. StoreInit => QuestionsInv
  BY DEF StoreInit, QuestionsInv
<1>2. QuestionsInv => SameQuestion
  <2> SUFFICES ASSUME QuestionsInv PROVE SameQuestion
    OBVIOUS
  <2>1. ASSUME NEW x \in heard, NEW y \in heard, x[1] = y[1] PROVE x = y
    <3>1. x[2] = y[2]
      BY <2>1 DEF QuestionsInv
    <3>2. x = <<x[1], x[2]>> /\ y = <<y[1], y[2]>>
      BY DEF QuestionsInv
    <3>3. QED
      BY <2>1, <3>1, <3>2
  <2>2. QED
    BY <2>1 DEF QuestionsInv, SameQuestion
<1>3. QED
  BY <1>1, <1>2, StoreInvInit, StoreInvStep, QuestionsStep, PTL DEF StoreSpec

LEMMA WaitingStep ==
  ASSUME StoreInv, WaitingHasPending, [StoreNext]_storeVars
  PROVE  WaitingHasPending'
<1> USE DEF StoreInv, Typed
<1>1. SUFFICES ASSUME wf' = "WAITING"
               PROVE  \E i \in DOMAIN approvals' : approvals'[i].decision = "PENDING"
  BY DEF WaitingHasPending
<1>2. ASSUME NEW m \in inflight, ServeAsk(m), approvals' # approvals
      PROVE  \E i \in DOMAIN approvals' : approvals'[i].decision = "PENDING"
  <2>1. approvals' = Append(approvals, [step |-> m.req.step, decision |-> "PENDING"])
    BY <1>2 DEF ServeAsk
  <2>2. /\ Len(approvals) + 1 \in DOMAIN approvals'
        /\ approvals'[Len(approvals) + 1].decision = "PENDING"
    BY <2>1 DEF TablesTyped
  <2>3. QED
    BY <2>2
<1>3. ASSUME NEW m \in inflight, ServeCreate(m) \/ ServeStatus(m) \/ ServeResolve(m)
      PROVE  wf' = wf /\ ~ServeResolve(m)
  <2>1. m.req \in Requests /\ m.req.op \in {"create", "status", "resolve"}
    BY <1>3 DEF ServeCreate, ServeStatus, ServeResolve, TrafficTyped, Messages
  <2>2. Writes(m.req) # "WAITING"
    BY <2>1, RequestShape DEF Writes, StateOf, Statuses
  <2>3. QED
    BY <1>1, <1>3, <2>2 DEF ServeCreate, ServeStatus, ServeResolve, Commit
<1>4. ASSUME NEW m \in inflight, ServeAsk(m), approvals' = approvals PROVE wf' = wf
  <2>1. Len(Append(approvals, [step |-> m.req.step, decision |-> "PENDING"])) = Len(approvals) + 1
        /\ Len(approvals) \in Nat
    BY DEF TablesTyped
  <2>2. QED
    BY <1>4, <2>1 DEF ServeAsk
<1>5. CASE \E m \in inflight : ServeAsk(m)
  BY <1>1, <1>2, <1>4, <1>5 DEF WaitingHasPending
<1>6. CASE ~ \E m \in inflight : ServeAsk(m)
  <2>1. wf' = wf /\ approvals' = approvals
    BY <1>3, <1>6, WhoWrites
  <2>2. QED
    BY <1>1, <2>1 DEF WaitingHasPending
<1>7. QED
  BY <1>5, <1>6

(* A session waits only while one of its questions is open: the repetition of a
   question finds the old checkpoint and leaves the state alone, and a decision
   takes the state with it. *)
THEOREM WaitingIsForAQuestion == StoreSpec => []WaitingHasPending
<1>1. StoreInit => WaitingHasPending
  BY DEF StoreInit, WaitingHasPending
<1>2. QED
  BY <1>1, StoreInvInit, StoreInvStep, WaitingStep, PTL DEF StoreSpec

-----------------------------------------------------------------------------
(* The state of the session *)

(* As long as no creation was given up, there is at most one, under way or done. *)
CreatedOnce ==
  /\ calls = 0 => sessions = 0
  /\ [op |-> "create"] \notin doubtful =>
       /\ sessions <= 1
       /\ \A m \in inflight : m.req.op = "create" => sessions = 0

LEMMA CreatedOnceStep ==
  ASSUME StoreInv, CreatedOnce, [StoreNext]_storeVars
  PROVE  CreatedOnce'
<1> USE DEF StoreInv, Typed
<1>1. MessageStep /\ TrafficTyped' /\ OneReplyAwaited'
  BY StepIsTraffic, StoreInvStep
<1>2. doubtful \subseteq doubtful'
  BY <1>1, DoubtGrows
<1>3. calls' = 0 => sessions' = 0
  <2>1. calls \in Nat /\ (calls' = calls \/ calls' = calls + 1)
    BY <1>1 DEF MessageStep, Starts, Start, Loses, Leaves, Ends, WorksOn, TrafficTyped
  <2>2. calls' = 0 => calls = 0 /\ inflight = {} /\ sessions = 0
    BY <2>1 DEF CreatedOnce, TablesTyped
  <2>3. QED
    BY <2>2, WhoWrites
<1>4. ASSUME [op |-> "create"] \notin doubtful'
      PROVE  sessions' <= 1 /\ \A g \in inflight' : g.req.op = "create" => sessions' = 0
  <2>1. /\ sessions \in Nat /\ sessions <= 1
        /\ \A m \in inflight : m.req.op = "create" => sessions = 0
    BY <1>2, <1>4 DEF CreatedOnce, TablesTyped
  <2>2. ASSUME NEW m \in inflight, m.req.op = "create" PROVE m.live /\ m.side = "run"
    <3>1. m.req = [op |-> "create"]
      BY <2>2, RequestShape DEF TrafficTyped, Messages
    <3>2. QED
      BY <1>2, <1>4, <2>2, <3>1 DEF MessagesInOrder
  <2>3. ASSUME NEW m \in inflight, ServeCreate(m)
        PROVE  sessions' <= 1 /\ \A g \in inflight' : g.req.op # "create"
    <3>1. m.req.op = "create" /\ sessions' = sessions + 1
      BY <2>3 DEF ServeCreate
    <3>2. inflight' = inflight \ {m}
      BY <2>3 DEF ServeCreate, Commit
    <3>3. \A g \in inflight : g.req.op = "create" => g = m
      BY <2>2, <3>1, LiveIsAwaited
    <3>4. QED
      BY <2>1, <3>1, <3>2, <3>3
  <2>4. ASSUME sessions' = sessions, NEW g \in inflight', g.req.op = "create"
        PROVE  sessions' = 0
    <3>1. CASE \E m \in inflight : g.req = m.req
      BY <2>1, <2>4, <3>1
    <3>2. CASE Starts(g.side, g.req)
      BY <2>4, <3>2 DEF Starts, CreatedOnce
    <3>3. QED
      BY <1>1, <3>1, <3>2, WhereFrom
  <2>5. QED
    BY <2>1, <2>3, <2>4, WhoWrites
<1>5. QED
  BY <1>3, <1>4 DEF CreatedOnce

(* The state was written by a call that was answered or by a doubtful one. *)
WrittenInv ==
  /\ acked \in [Sides -> States]
  /\ wf # "none" => \/ \E t \in Sides : wf = acked[t]
                    \/ \E req \in doubtful : wf = Writes(req)

LEMMA WritesState ==
  ASSUME NEW req \in Requests, req.op \in {"create", "status", "ask", "resolve"}
  PROVE  Writes(req) \in States
<1>1. CASE req.op = "create"
  BY <1>1 DEF Writes, States
<1>2. CASE req.op = "status"
  BY <1>2, RequestShape DEF Writes, StateOf, States, Statuses
<1>3. CASE req.op = "ask"
  BY <1>3 DEF Writes, States
<1>4. CASE req.op = "resolve"
  BY <1>4 DEF Writes, States
<1>5. QED
  BY <1>1, <1>2, <1>3, <1>4

LEMMA WrittenStep ==
  ASSUME StoreInv, WrittenInv, [StoreNext]_storeVars
  PROVE  WrittenInv'
<1> USE DEF StoreInv, Typed
<1>1. doubtful \subseteq doubtful'
  BY StepIsTraffic, DoubtGrows
<1>2. CASE wf' = wf /\ acked' = acked
  BY <1>1, <1>2 DEF WrittenInv
<1>3. ASSUME NEW m \in inflight, Commit(m), Writes(m.req) \in States
      PROVE  WrittenInv'
  <2>1. m.side \in Sides
    BY DEF TrafficTyped, Messages
  <2>2. CASE m.live
    <3>1. wf' = Writes(m.req) /\ acked' = [acked EXCEPT ![m.side] = Writes(m.req)]
      BY <1>3, <2>2 DEF Commit
    <3>2. QED
      BY <1>3, <2>1, <3>1 DEF WrittenInv
  <2>3. CASE ~m.live
    <3>1. wf' = Writes(m.req) /\ acked' = acked /\ m.req \in doubtful'
      BY <1>1, <1>3, <2>3 DEF Commit, MessagesInOrder
    <3>2. QED
      BY <3>1 DEF WrittenInv
  <2>4. QED
    BY <2>2, <2>3
<1>4. ASSUME NEW m \in inflight, m.req.op \in {"create", "status", "ask", "resolve"}
      PROVE  Writes(m.req) \in States
  BY <1>4, WritesState DEF TrafficTyped, Messages
<1>5. ASSUME NEW m \in inflight, ServeCreate(m) \/ ServeStatus(m) \/ ServeAsk(m) \/ ServeResolve(m)
      PROVE  \/ Commit(m) /\ m.req.op \in {"create", "status", "ask", "resolve"}
             \/ wf' = wf /\ acked' = acked
  BY <1>5 DEF ServeCreate, ServeStatus, ServeAsk, ServeResolve
<1>6. QED
  BY <1>2, <1>3, <1>4, <1>5, WhoWrites

(* Whatever is lost, repeated or late, a state that no side was told of comes
   from a request that its client had given up, and so does a second session. *)
THEOREM StatesAreExplained == StoreSpec => []StatusIsExplained
<1>1. StoreInit => CreatedOnce /\ WrittenInv
  BY DEF StoreInit, CreatedOnce, WrittenInv, Sides, States
<1>2. StoreInv /\ CreatedOnce /\ WrittenInv => StatusIsExplained
  BY DEF StoreInv, Typed, TablesTyped, CreatedOnce, WrittenInv, StatusIsExplained
<1>3. QED
  BY <1>1, <1>2, StoreInvInit, StoreInvStep, CreatedOnceStep, WrittenStep, PTL DEF StoreSpec

-----------------------------------------------------------------------------
(* Artifacts *)

(* Rows have a shape, their payload and all the rows before them. *)
RowsInv ==
  /\ \A a \in DOMAIN rows : rows[a] \in [parent : 0..NumArtifacts, offloaded : BOOLEAN]
  /\ \A a \in DOMAIN rows : a \in 1..NumArtifacts /\ rows[a].parent = a - 1 /\ Readable(a)
  /\ \A a \in DOMAIN rows : \A b \in 1..a : b \in DOMAIN rows

LEMMA RowsStep ==
  ASSUME StoreInv, RowsInv, [StoreNext]_storeVars
  PROVE  RowsInv'
<1> USE DEF StoreInv, Typed
<1>1. objects \subseteq objects'
  BY ObjectsStay
<1>2. ASSUME NEW m \in inflight, InsertRow(m), rows' # rows PROVE RowsInv'
  <2> DEFINE a == m.req.id
             row == [parent |-> a - 1, offloaded |-> m.stage = "put"]
  <2>1. m.req.op = "artifact" /\ a \notin DOMAIN rows /\ (a = 1 \/ a - 1 \in DOMAIN rows)
        /\ rows' = [b \in DOMAIN rows \cup {a} |-> IF b = a THEN row ELSE rows[b]]
    BY <1>2 DEF InsertRow, ParentExists
  <2>2. a \in 1..NumArtifacts
    BY <2>1, RequestShape DEF TrafficTyped, Messages
  <2>3. row.parent = a - 1 /\ row \in [parent : 0..NumArtifacts, offloaded : BOOLEAN]
    BY <2>2, StoreAssumption
  <2>4. row.offloaded => a \in objects'
    BY <1>1 DEF MessagesInOrder
  <2> HIDE DEF row, a
  <2>5. /\ DOMAIN rows' = DOMAIN rows \cup {a} /\ rows'[a] = row
        /\ \A b \in DOMAIN rows : rows'[b] = rows[b]
    BY <2>1
  <2>6. \A b \in DOMAIN rows' : \A c \in 1..b : c \in DOMAIN rows'
    <3>1. \A c \in 1..a : c = a \/ c \in 1..(a - 1)
      BY <2>2
    <3>2. \A c \in 1..a : c \in DOMAIN rows'
      BY <2>1, <2>2, <2>5, <3>1 DEF RowsInv
    <3>3. QED
      BY <2>5, <3>2 DEF RowsInv
  <2>7. QED
    BY <1>1, <2>2, <2>3, <2>4, <2>5, <2>6 DEF RowsInv, Readable
<1>3. CASE rows' = rows
  BY <1>1, <1>3 DEF RowsInv, Readable
<1>4. QED
  BY <1>2, <1>3, WhoWrites

LEMMA RowsInit == ASSUME StoreInit PROVE RowsInv
  BY DEF StoreInit, RowsInv

(* Whichever attempt uploads and whichever inserts the row, a row that points to
   the object store has its object there. *)
THEOREM PayloadsAreReadable == StoreSpec => []PayloadIsSomewhere
<1>1. RowsInv => PayloadIsSomewhere
  BY DEF RowsInv, PayloadIsSomewhere
<1>2. QED
  BY <1>1, RowsInit, RowsStep, StoreInvInit, StoreInvStep, PTL DEF StoreSpec

(* A query walks down the parents: it has seen nothing below where it is, and it
   comes to the end of the chain through the first artifact. *)
LineageInv ==
  /\ lineage.at \in 0..NumArtifacts
  /\ lineage.pc = "off" => lineage.seen = {}
  /\ \A x \in lineage.seen : x \in Nat /\ x > lineage.at
  /\ lineage.pc = "walking" /\ lineage.at = 0 => 1 \in lineage.seen
  /\ lineage.pc = "done" /\ ~lineage.cut =>
       1 \in lineage.seen \/ Cardinality(lineage.seen) = MaxChain

LEMMA LineageInvStep ==
  ASSUME StoreInv, RowsInv, LineageInv, [StoreNext]_storeVars
  PROVE  LineageInv'
<1>1. LineageTyped /\ made \in 0..NumArtifacts
  BY DEF StoreInv, Typed, TablesTyped
<1>2. CASE lineage' = lineage
  BY <1>2 DEF LineageInv
<1>3. CASE LineageStart
  <2>1. PICK a \in 1..made : lineage' = [lineage EXCEPT !.pc = "walking", !.at = a]
    BY <1>3 DEF LineageStart
  <2>2. lineage'.pc = "walking" /\ lineage'.at = a /\ lineage'.seen = {}
    BY <1>1, <1>3, <2>1 DEF LineageStart, LineageTyped, LineageInv
  <2>3. QED
    BY <1>1, <1>3, <2>2, StoreAssumption DEF LineageInv
<1>4. CASE LineageTurn
  <2>1. /\ lineage'.pc = "walking" /\ lineage'.at = lineage.at - 1
        /\ lineage'.seen = lineage.seen \cup {lineage.at}
        /\ lineage.at \in 1..NumArtifacts
    BY <1>1, <1>4 DEF LineageTurn, LineageTyped, RowsInv
  <2>2. lineage'.at \in 0..NumArtifacts /\ \A x \in lineage'.seen : x \in Nat /\ x > lineage'.at
    BY <2>1, StoreAssumption DEF LineageInv
  <2>3. lineage'.at = 0 => 1 \in lineage'.seen
    BY <2>1
  <2>4. QED
    BY <2>1, <2>2, <2>3 DEF LineageInv
<1>5. CASE LineageEnd
  <2>1. lineage'.pc = "done" /\ lineage'.at = lineage.at /\ lineage'.seen = lineage.seen
    BY <1>1, <1>5 DEF LineageEnd, LineageTyped
  <2>2. lineage.at \notin lineage.seen
    BY StoreAssumption DEF LineageInv
  <2>3. 1 \in lineage.seen \/ Cardinality(lineage.seen) = MaxChain
    BY <1>5, <2>2 DEF LineageEnd, LineageInv
  <2>4. QED
    BY <2>1, <2>3 DEF LineageInv
<1>6. CASE LineageCut
  <2>1. lineage'.pc = "done" /\ lineage'.cut /\ lineage'.at = lineage.at
        /\ lineage'.seen = lineage.seen
    BY <1>1, <1>6 DEF LineageCut, LineageTyped
  <2>2. QED
    BY <2>1 DEF LineageInv
<1>7. QED
  BY <1>1, <1>2, <1>3, <1>4, <1>5, <1>6, LineageStep

(* The stored artifacts of a session are the first ones that it made, and a query
   that nothing cuts comes to the first of them, or to the limit of its length. *)
THEOREM ArtifactsAreAPrefix == StoreSpec => []StoredIsPrefix
<1>1. StoreInit => LineageInv
  BY StoreAssumption DEF StoreInit, LineageInv
<1>2. RowsInv /\ LineageInv => StoredIsPrefix
  BY DEF RowsInv, LineageInv, StoredIsPrefix
<1>3. QED
  BY <1>1, <1>2, RowsInit, RowsStep, LineageInvStep, StoreInvInit, StoreInvStep, PTL DEF StoreSpec

-----------------------------------------------------------------------------
(* Compensation *)

(* Once the run has failed, its side waits for nothing but the state of the
   session: an artifact that is registered now was given up before. *)
RunOnlyReports ==
  comp.pc # "off" => call["run"] = NoCall \/ call["run"].req.op = "status"

LEMMA RunOnlyReportsStep ==
  ASSUME StoreInv, RunOnlyReports, [StoreNext]_storeVars
  PROVE  RunOnlyReports'
<1> USE DEF StoreInv, Typed
<1>1. MessageStep /\ call \in [Sides -> Calls \cup {NoCall}] /\ "run" \in Sides
  BY StepIsTraffic DEF TrafficTyped, Sides
<1>2. CASE HandleFailure
  <2>1. Start("run", [op |-> "status", to |-> "FAILED"])
    BY <1>2 DEF HandleFailure
  <2>2. call'["run"].req.op = "status"
    BY <1>1, <2>1 DEF Start
  <2>3. QED
    BY <2>2 DEF RunOnlyReports
<1>3. CASE comp.pc = "off" /\ ~HandleFailure
  <2>1. comp' = comp
    BY <1>3, WhoWrites DEF Compensate, CompensateStart, CompensateFetch, CompensateOne, CompensateClose
  <2>2. QED
    BY <1>3, <2>1 DEF RunOnlyReports
<1>4. CASE comp.pc # "off"
  <2>1. call["run"] = NoCall \/ call["run"].req.op = "status"
    BY <1>4 DEF RunOnlyReports
  <2>2. ASSUME NEW t, NEW req, Starts(t, req)
        PROVE  call'["run"] = call["run"] \/ call'["run"].req.op = "status"
    <3>1. CASE t = "run"
      <4>1. req.op = "status"
        BY <1>4, <2>2, <3>1, RequestShape DEF Starts
      <4>2. call'["run"].req = req
        BY <1>1, <2>2, <3>1 DEF Starts, Start
      <4>3. QED
        BY <4>1, <4>2
    <3>2. CASE t # "run"
      BY <1>1, <2>2, <3>2 DEF Starts, Start
    <3>3. QED
      BY <3>1, <3>2
  <2>3. ASSUME NEW m \in inflight, m.live, NEW rest, NextAttempt(m.side, rest)
        PROVE  \/ call'["run"] = call["run"] \/ call'["run"] = NoCall
               \/ call["run"] # NoCall /\ call'["run"].req = call["run"].req
    <3>1. m.side \in Sides /\ call[m.side] \in Calls /\ call[m.side] # NoCall
      BY <2>3, LiveIsAwaited, CallFields
    <3>2. CASE call[m.side].attempt < MaxAttempts
      <4> DEFINE c == [call[m.side] EXCEPT !.attempt = @ + 1]
      <4>1. c.req = call[m.side].req
        BY <3>1, <3>2, CallFields
      <4>2. call' = [call EXCEPT ![m.side] = c]
        BY <2>3, <3>2 DEF NextAttempt
      <4> HIDE DEF c
      <4>3. QED
        BY <1>1, <3>1, <4>1, <4>2
    <3>3. CASE ~(call[m.side].attempt < MaxAttempts)
      <4>1. call' = [call EXCEPT ![m.side] = NoCall]
        BY <2>3, <3>3 DEF NextAttempt
      <4>2. QED
        BY <1>1, <3>1, <4>1
    <3>4. QED
      BY <3>2, <3>3
  <2>4. ASSUME NEW m \in inflight, Ends(m)
        PROVE  call'["run"] = call["run"] \/ call'["run"] = NoCall
    BY <1>1, <2>4 DEF Ends, Answered
  <2>5. QED
    BY <1>1, <2>1, <2>2, <2>3, <2>4 DEF MessageStep, Loses, Leaves, WorksOn, RunOnlyReports
<1>5. QED
  BY <1>2, <1>3, <1>4

(* What is stored was on the list, or was registered by a doubtful request. *)
Listed(a) == a \in DOMAIN comp.meta \/ comp.blind \/ [op |-> "artifact", id |-> a] \in doubtful
Undone(a) == a \in comp.undone \/ comp.blind \/ [op |-> "artifact", id |-> a] \in doubtful

RollbackInv ==
  /\ DOMAIN rows \subseteq 1..NumArtifacts
  /\ comp.pc \in {"off", "failing", "marking"} => comp.left = comp.total
  /\ comp.pc \in {"walking", "done"} =>
       \A a \in DOMAIN rows : Listed(a) /\ (comp.left < a /\ a <= comp.total => Undone(a))

(* The compensation is where it was, but rows may come. *)
LEMMA RollbackWaits ==
  ASSUME StoreInv, RowsInv, RunOnlyReports, RollbackInv, [StoreNext]_storeVars, comp' = comp
  PROVE  RollbackInv'
<1> USE DEF StoreInv, Typed
<1>1. doubtful \subseteq doubtful' /\ DOMAIN rows' \subseteq 1..NumArtifacts
  BY StepIsTraffic, DoubtGrows, RowsStep DEF RowsInv
<1>2. ASSUME comp.pc \in {"walking", "done"}, NEW m \in inflight, InsertRow(m),
             NEW a \in DOMAIN rows' \ DOMAIN rows
      PROVE  [op |-> "artifact", id |-> a] \in doubtful
  <2>1. m.req.op = "artifact" /\ a = m.req.id
    BY <1>2 DEF InsertRow
  <2>2. m.req = [op |-> "artifact", id |-> a]
    BY <2>1, RequestShape DEF TrafficTyped, Messages
  <2>3. m.side = "run" /\ (~m.live => m.req \in doubtful)
    BY <2>1 DEF MessagesInOrder
  <2>4. m.live => call["run"] # NoCall /\ m.req = call["run"].req
    BY <2>3, LiveIsAwaited, CallFields
  <2>5. ~m.live
    BY <1>2, <2>1, <2>4 DEF RunOnlyReports
  <2>6. QED
    BY <2>2, <2>3, <2>5
<1>3. ASSUME comp.pc \in {"walking", "done"}, NEW a \in DOMAIN rows', a \notin DOMAIN rows
      PROVE  [op |-> "artifact", id |-> a] \in doubtful'
  BY <1>1, <1>2, <1>3, WhoWrites
<1>4. ASSUME comp.pc \in {"walking", "done"}, NEW a \in DOMAIN rows'
      PROVE  Listed(a)' /\ (comp.left < a /\ a <= comp.total => Undone(a)')
  <2>1. CASE a \in DOMAIN rows
    BY <1>1, <1>4, <2>1 DEF RollbackInv, Listed, Undone
  <2>2. CASE a \notin DOMAIN rows
    BY <1>3, <1>4, <2>2 DEF Listed, Undone
  <2>3. QED
    BY <2>1, <2>2
<1>5. QED
  BY <1>1, <1>4 DEF RollbackInv, Listed, Undone

LEMMA RollbackStep ==
  ASSUME StoreInv, RowsInv, RunOnlyReports, RollbackInv, [StoreNext]_storeVars
  PROVE  RollbackInv'
<1> USE DEF StoreInv, Typed, TablesTyped
<1>1. CompTyped /\ comp.left \in Nat /\ comp.total \in Nat
  BY DEF CompTyped
<1>2. CASE comp' = comp
  BY <1>2, RollbackWaits
<1>3. CASE HandleFailure
  <2>1. PICK total : comp' = [comp EXCEPT !.pc = "failing", !.total = total, !.left = total]
    BY <1>3 DEF HandleFailure
  <2>2. comp'.pc = "failing" /\ comp'.left = comp'.total
    BY <1>1, <2>1 DEF CompTyped
  <2>3. rows' = rows
    BY <1>3 DEF HandleFailure, tableVars
  <2>4. QED
    BY <2>2, <2>3 DEF RollbackInv
<1>4. CASE CompensateStart
  <2>1. comp'.pc = "marking" /\ comp'.left = comp.left /\ comp'.total = comp.total /\ comp.pc = "failing"
    BY <1>1, <1>4 DEF CompensateStart, CompTyped
  <2>2. rows' = rows
    BY <1>4 DEF CompensateStart, tableVars
  <2>3. QED
    BY <2>1, <2>2 DEF RollbackInv
<1>5. CASE CompensateFetch
  <2>1. /\ comp'.pc = "walking" /\ comp'.left = comp.left /\ comp'.total = comp.total
        /\ comp'.blind \/ DOMAIN comp'.meta = DOMAIN rows
        /\ comp.pc = "marking" /\ rows' = rows
    <3>1. comp.pc = "marking" /\ rows' = rows
      BY <1>5 DEF CompensateFetch, tableVars
    <3>2. CASE comp' = [comp EXCEPT !.pc = "walking", !.meta = [a \in DOMAIN rows |-> Described(a)]]
      BY <1>1, <3>1, <3>2 DEF CompTyped
    <3>3. CASE comp' = [comp EXCEPT !.pc = "walking", !.blind = TRUE]
      BY <1>1, <3>1, <3>3 DEF CompTyped
    <3>4. QED
      BY <1>5, <3>2, <3>3 DEF CompensateFetch
  <2>2. comp'.left = comp'.total /\ comp'.left \in Nat
    BY <1>1, <2>1 DEF RollbackInv
  <2>3. \A a \in DOMAIN rows' : Listed(a)' /\ ~(comp'.left < a /\ a <= comp'.total)
    BY <2>1, <2>2, StoreAssumption DEF Listed, RollbackInv
  <2>4. QED
    BY <2>1, <2>3 DEF RollbackInv, Listed, Undone
<1>6. CASE CompensateOne
  <2> DEFINE undone == IF comp.left \in DOMAIN comp.meta THEN comp.undone \cup {comp.left}
                       ELSE comp.undone
  <2>1. /\ comp' = [comp EXCEPT !.left = @ - 1, !.undone = undone]
        /\ comp.undone \subseteq undone
        /\ comp.left \in DOMAIN comp.meta => comp.left \in undone
    BY <1>1, <1>6 DEF CompensateOne, CompTyped
  <2> HIDE DEF undone
  <2>2. /\ comp'.pc = comp.pc /\ comp'.left = comp.left - 1 /\ comp'.total = comp.total
        /\ comp'.meta = comp.meta /\ comp'.blind = comp.blind /\ comp'.undone = undone
    BY <1>1, <2>1 DEF CompTyped
  <2>3. comp.pc = "walking" /\ rows' = rows /\ doubtful' = doubtful
    BY <1>6 DEF CompensateOne
  <2>4. ASSUME NEW a \in DOMAIN rows'
        PROVE  Listed(a)' /\ (comp'.left < a /\ a <= comp'.total => Undone(a)')
    <3>1. Listed(a) /\ a \in Nat /\ (comp.left < a /\ a <= comp.total => Undone(a))
      BY <2>3, StoreAssumption DEF RollbackInv
    <3>2. Listed(a)'
      BY <2>2, <2>3, <3>1 DEF Listed
    <3>3. CASE a = comp.left
      BY <2>1, <2>2, <2>3, <3>1, <3>3 DEF Listed, Undone
    <3>4. CASE a # comp.left
      <4>1. comp'.left < a => comp.left < a
        BY <1>1, <2>2, <3>1, <3>4
      <4>2. QED
        BY <2>1, <2>2, <2>3, <3>1, <3>2, <4>1 DEF Undone
    <3>5. QED
      BY <3>2, <3>3, <3>4
  <2>5. QED
    BY <2>2, <2>3, <2>4 DEF RollbackInv, Listed, Undone
<1>7. CASE CompensateClose
  <2>1. /\ comp'.pc = "done" /\ comp'.left = comp.left /\ comp'.total = comp.total
        /\ comp'.meta = comp.meta /\ comp'.blind = comp.blind /\ comp'.undone = comp.undone
        /\ comp.pc = "walking"
    BY <1>1, <1>7 DEF CompensateClose, CompTyped
  <2>2. rows' = rows /\ doubtful' = doubtful
    BY <1>7 DEF CompensateClose, tableVars
  <2>3. QED
    BY <2>1, <2>2 DEF RollbackInv, Listed, Undone
<1>8. QED
  BY <1>2, <1>3, <1>4, <1>5, <1>6, <1>7, WhoWrites DEF Compensate

(* Of the artifacts that a compensation was asked to roll back, the producer of
   every one that is stored has been told when the walk is over, or its
   registration was given up by the client, or the list could not be read. *)
THEOREM RollbackIsExplained == StoreSpec => []RolledBackOrExplained
<1>1. StoreInit => RunOnlyReports /\ RollbackInv
  BY DEF StoreInit, RunOnlyReports, RollbackInv
<1>2. StoreInv /\ RollbackInv => RolledBackOrExplained
  BY DEF RollbackInv, Undone, RolledBackOrExplained
<1>3. QED
  BY <1>1, <1>2, RowsInit, RowsStep, RunOnlyReportsStep, RollbackStep, StoreInvInit, StoreInvStep,
     PTL DEF StoreSpec

-----------------------------------------------------------------------------
(* Types of the contents *)

(* What is left of the types: the tables' contents, the records of the past, and
   the bounds, where a call of the compensation comes on top of the others. *)
StageOf(pc) == CASE pc = "off" -> 0 [] pc = "failing" -> 1 [] pc = "marking" -> 2
                 [] pc = "walking" -> 2 [] OTHER -> 3

Bounded ==
  /\ storeFaults \in 0..MaxFaults
  /\ calls <= MaxCalls + StageOf(comp.pc)

ContentsTyped ==
  /\ wf \in States /\ objects \subseteq 1..NumArtifacts
  /\ heard \subseteq Steps \X (Nat \ {0}) /\ doubtful \subseteq Requests

LEMMA CallsAdd ==
  /\ \A t, req : Start(t, req) => calls' = calls + 1
  /\ \A pc \in {"off", "failing", "marking", "walking", "done"} : StageOf(pc) \in 0..3
  /\ StageOf("off") = 0 /\ StageOf("failing") = 1 /\ StageOf("marking") = 2
  /\ StageOf("walking") = 2 /\ StageOf("done") = 3
  BY DEF Start, StageOf

LEMMA BoundedStep ==
  ASSUME StoreInv, Bounded, [StoreNext]_storeVars
  PROVE  Bounded'
<1>1. /\ calls \in Nat /\ MaxCalls \in Nat \ {0} /\ MaxFaults \in Nat /\ storeFaults \in 0..MaxFaults
      /\ CompTyped /\ StageOf(comp.pc) \in 0..3 /\ calls <= MaxCalls + StageOf(comp.pc)
  BY StoreAssumption, CallsAdd DEF StoreInv, Typed, TrafficTyped, TablesTyped, CompTyped, Bounded
<1>2. ASSUME calls' = calls + 1, calls < MaxCalls, comp' = comp, storeFaults' = storeFaults
      PROVE  Bounded'
  BY <1>1, <1>2 DEF Bounded
<1>3. ASSUME calls' = calls, comp' = comp,
             storeFaults' = storeFaults \/ (storeFaults < MaxFaults /\ storeFaults' = storeFaults + 1)
      PROVE  Bounded'
  BY <1>1, <1>3 DEF Bounded
<1>4. CASE RunCalls
  <2>1. CASE CreateSession
    <3>1. calls = 0 /\ comp' = comp /\ storeFaults' = storeFaults /\ calls' = calls + 1
      BY <2>1, CallsAdd DEF CreateSession, Quiet, walkVars
    <3>2. QED
      BY <1>1, <1>2, <3>1
  <2>2. CASE ~CreateSession
    <3>1. calls < MaxCalls /\ comp' = comp /\ storeFaults' = storeFaults /\ calls' = calls + 1
      BY <1>4, <2>2, CallsAdd DEF RunCalls, RegisterArtifact, UpdateStatus, CreateCheckpoint, Quiet, walkVars
    <3>2. QED
      BY <1>2, <3>1
  <2>3. QED
    BY <2>1, <2>2
<1>5. CASE ApiCalls
  <2>1. calls < MaxCalls /\ comp' = comp /\ storeFaults' = storeFaults /\ calls' = calls + 1
    BY <1>5, CallsAdd DEF ApiCalls, UpdateStatus, ResolveCheckpoint, Quiet, walkVars
  <2>2. QED
    BY <1>2, <2>1
<1>6. CASE Compensate
  <2>1. ASSUME calls' = calls + 1, storeFaults' = storeFaults, StageOf(comp'.pc) = StageOf(comp.pc) + 1
        PROVE  Bounded'
    BY <1>1, <2>1 DEF Bounded
  <2>2. CASE HandleFailure
    <3>1. comp.pc = "off" /\ comp'.pc = "failing" /\ calls' = calls + 1 /\ storeFaults' = storeFaults
      BY <1>1, <2>2, CallsAdd DEF HandleFailure, CompTyped
    <3>2. QED
      BY <2>1, <3>1, CallsAdd
  <2>3. CASE CompensateStart
    <3>1. comp.pc = "failing" /\ comp'.pc = "marking" /\ calls' = calls + 1 /\ storeFaults' = storeFaults
      BY <1>1, <2>3, CallsAdd DEF CompensateStart, CompTyped
    <3>2. QED
      BY <2>1, <3>1, CallsAdd
  <2>4. CASE CompensateFetch
    <3>1. comp.pc = "marking" /\ comp'.pc = "walking" /\ calls' = calls
      BY <1>1, <2>4 DEF CompensateFetch, CompTyped, clientVars
    <3>2. storeFaults' = storeFaults \/ (storeFaults < MaxFaults /\ storeFaults' = storeFaults + 1)
      BY <2>4 DEF CompensateFetch
    <3>3. QED
      BY <1>1, <3>1, <3>2, CallsAdd DEF Bounded
  <2>5. CASE CompensateOne
    <3>1. comp'.pc = comp.pc /\ calls' = calls /\ storeFaults' = storeFaults
      BY <1>1, <2>5 DEF CompensateOne, CompTyped, clientVars
    <3>2. QED
      BY <1>1, <3>1 DEF Bounded
  <2>6. CASE CompensateClose
    <3>1. comp.pc = "walking" /\ comp'.pc = "done" /\ calls' = calls + 1 /\ storeFaults' = storeFaults
      BY <1>1, <2>6, CallsAdd DEF CompensateClose, CompTyped
    <3>2. QED
      BY <2>1, <3>1, CallsAdd
  <2>7. QED
    BY <1>6, <2>2, <2>3, <2>4, <2>5, <2>6 DEF Compensate
<1>7. CASE QueryLineage
  <2>1. comp' = comp /\ calls' = calls
    BY <1>7 DEF QueryLineage, clientVars
  <2>2. storeFaults' = storeFaults \/ (storeFaults < MaxFaults /\ storeFaults' = storeFaults + 1)
    BY <1>7 DEF QueryLineage, LineageTurn, LineageEnd, LineageCut
  <2>3. QED
    BY <1>3, <2>1, <2>2
<1>8. ASSUME NEW m \in inflight, LoseRequest(m) \/ GiveUp(m) \/ FailRequest(m) \/ Serve(m)
      PROVE  Bounded'
  <2>1. comp' = comp /\ calls' = calls
    BY <1>8 DEF LoseRequest, GiveUp, FailRequest, Serve, walkVars
  <2>2. storeFaults' = storeFaults \/ (storeFaults < MaxFaults /\ storeFaults' = storeFaults + 1)
    BY <1>8 DEF LoseRequest, GiveUp, FailRequest, Serve
  <2>3. QED
    BY <1>3, <2>1, <2>2
<1>9. CASE UNCHANGED storeVars
  <2>1. comp' = comp /\ calls' = calls /\ storeFaults' = storeFaults
    BY <1>9 DEF storeVars, clientVars, walkVars
  <2>2. QED
    BY <1>3, <2>1
<1>10. QED
  BY <1>4, <1>5, <1>6, <1>7, <1>8, <1>9 DEF StoreNext

LEMMA ContentsStep ==
  ASSUME StoreInv, ContentsTyped, WrittenInv, [StoreNext]_storeVars
  PROVE  ContentsTyped'
<1> USE DEF StoreInv, Typed
<1>1. ASSUME NEW m \in inflight
      PROVE  /\ m.req \in Requests
             /\ m.req.op = "artifact" => m.req.id \in 1..NumArtifacts
             /\ m.req.op = "ask" => m.req.step \in Steps
  BY RequestShape DEF TrafficTyped, Messages
<1>2. wf' \in States
  <2>1. CASE wf' = wf
    BY <2>1 DEF ContentsTyped
  <2>2. ASSUME NEW m \in inflight, Commit(m), m.req.op \in {"create", "status", "ask", "resolve"}
        PROVE  wf' \in States
    <3>1. wf' = Writes(m.req)
      BY <2>2 DEF Commit
    <3>2. Writes(m.req) \in States
      BY <1>1, <2>2, WritesState
    <3>3. QED
      BY <3>1, <3>2
  <2>3. ASSUME NEW m \in inflight, ServeCreate(m) \/ ServeStatus(m) \/ ServeAsk(m) \/ ServeResolve(m)
        PROVE  \/ Commit(m) /\ m.req.op \in {"create", "status", "ask", "resolve"}
               \/ wf' = wf
    BY <2>3 DEF ServeCreate, ServeStatus, ServeAsk, ServeResolve
  <2>4. QED
    BY <2>1, <2>2, <2>3, WhoWrites
<1>3. objects' \subseteq 1..NumArtifacts
  <2>1. ASSUME NEW m \in inflight, Upload(m) PROVE objects' \subseteq 1..NumArtifacts
    <3>1. m.req.id \in 1..NumArtifacts /\ objects' \subseteq objects \cup {m.req.id}
      BY <1>1, <2>1 DEF Upload
    <3>2. QED
      BY <3>1 DEF ContentsTyped
  <2>2. CompensateOne => objects' \subseteq objects
    BY DEF CompensateOne
  <2>3. QED
    BY <2>1, <2>2, WhoWrites DEF ContentsTyped
<1>4. heard' \subseteq Steps \X (Nat \ {0})
  <2>1. Len(approvals) \in Nat /\ DOMAIN approvals = 1..Len(approvals)
    BY AskedStaysAsked
  <2>2. ASSUME NEW m \in inflight, ServeAsk(m) PROVE heard' \subseteq Steps \X (Nat \ {0})
    <3>1. m.req.step \in Steps /\ heard' \subseteq heard \cup {<<m.req.step, Len(approvals) + 1>>}
      BY <1>1, <2>2 DEF ServeAsk
    <3>2. QED
      BY <2>1, <3>1 DEF ContentsTyped
  <2>3. ASSUME NEW m \in inflight, ReuseCheckpoint(m) PROVE heard' \subseteq Steps \X (Nat \ {0})
    <3>1. m.req.step \in Steps /\ heard' \subseteq heard \cup {<<m.req.step, IdOf(m.req.step)>>}
      BY <1>1, <2>3 DEF ReuseCheckpoint
    <3>2. AskedBefore(m.req.step)
      BY <2>3 DEF ReuseCheckpoint, MessagesInOrder
    <3>3. IdOf(m.req.step) \in Nat \ {0}
      BY <2>1, <3>2 DEF AskedBefore, IdOf
    <3>4. QED
      BY <3>1, <3>3 DEF ContentsTyped
  <2>4. QED
    BY <2>2, <2>3, WhoWrites DEF ContentsTyped
<1>5. doubtful' \subseteq Requests
  <2>1. MessageStep
    BY StepIsTraffic
  <2>2. doubtful' = doubtful \/ \E m \in inflight : doubtful' = doubtful \cup {m.req}
    BY <2>1 DEF MessageStep, Starts, Loses, Leaves, WorksOn, Ends
  <2>3. QED
    BY <1>1, <2>2 DEF ContentsTyped
<1>6. QED
  BY <1>2, <1>3, <1>4, <1>5 DEF ContentsTyped

(* Every variable of the store keeps its type: no table ever holds a state, a row
   or a question that its schema does not know, whatever request was served late
   or twice. *)
THEOREM StoreTypesHold == StoreSpec => []StoreTypeOK
<1>1. StoreInit => Bounded /\ ContentsTyped
  <2> SUFFICES ASSUME StoreInit PROVE Bounded /\ ContentsTyped
    OBVIOUS
  <2>1. comp.pc = "off" /\ calls = 0 /\ storeFaults = 0 /\ wf = "none" /\ objects = {} /\ heard = {} /\ doubtful = {}
    BY DEF StoreInit
  <2>2. Bounded
    BY <2>1, StoreAssumption, CallsAdd DEF Bounded
  <2>3. ContentsTyped
    BY <2>1 DEF ContentsTyped, States
  <2>4. QED
    BY <2>2, <2>3
<1>2. StoreInit => WrittenInv
  BY DEF StoreInit, WrittenInv, Sides, States
<1>3. StoreInv /\ RowsInv /\ WrittenInv /\ Bounded /\ ContentsTyped => StoreTypeOK
  <2> SUFFICES ASSUME StoreInv, RowsInv, WrittenInv, Bounded, ContentsTyped PROVE StoreTypeOK
    OBVIOUS
  <2>1. calls \in 0..(MaxCalls + 3)
    <3>1. StageOf(comp.pc) \in 0..3 /\ calls \in Nat /\ MaxCalls \in Nat
      BY CallsAdd, StoreAssumption DEF StoreInv, Typed, TrafficTyped, TablesTyped, CompTyped
    <3>2. QED
      BY <3>1 DEF Bounded
  <2>2. DOMAIN rows \subseteq 1..NumArtifacts
    BY DEF RowsInv
  <2>3. \A a \in DOMAIN rows : rows[a] \in [parent : 0..NumArtifacts, offloaded : BOOLEAN]
    BY DEF RowsInv
  <2>4. approvals \in Seq([step : Steps, decision : {"PENDING", "APPROVED", "REJECTED"}])
    BY DEF StoreInv, Typed, TablesTyped, Approval
  <2>5. QED
    BY <2>1, <2>2, <2>3, <2>4 DEF StoreInv, Typed, TrafficTyped, TablesTyped, WrittenInv, Bounded,
          ContentsTyped, StoreTypeOK
<1>4. QED
  BY <1>1, <1>2, <1>3, RowsInit, RowsStep, WrittenStep, BoundedStep, ContentsStep,
     StoreInvInit, StoreInvStep, PTL DEF StoreSpec
=============================================================================
