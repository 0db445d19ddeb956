---------------------------- MODULE SessionStore ----------------------------
(***************************************************************************)
(* The Session Manager as the orchestrator uses it: the client that        *)
(* retries (session_client.py), the service and its transactions           *)
(* (session_service.py, repositories.py, session_provider.py), the object  *)
(* store behind it (artifact_store.py), and two walks over what it keeps:  *)
(* the compensation (compensation_engine.py) and the lineage query         *)
(* (provenance_manager.py).                                                *)
(*                                                                         *)
(* One session is followed.  Its run (graph_nodes.py) registers artifacts  *)
(* 1, 2, ... in this order, each with its predecessor as parent, reports   *)
(* progress, asks questions and completes; the API side resolves           *)
(* questions and cancels.  A run that fails is compensated.  A request     *)
(* stays at the server after its client has given it up.                   *)
(***************************************************************************)
EXTENDS Integers, Sequences, FiniteSets

CONSTANTS
  ApiStatuses,   \* statuses that cancel() may write
  Steps,         \* workflow steps that may end in a question
  NumArtifacts,  \* artifacts the run produces at most
  MaxAttempts,   \* _MAX_RETRIES of session_client.py
  MaxChain,      \* _MAX_CHAIN_DEPTH of provenance_manager.py
  MaxCalls,      \* bound: calls, those of the compensation apart
  MaxFaults      \* bound: faults of the network, the object store and the database

ASSUME StoreAssumption ==
  /\ ApiStatuses \subseteq {"CANCELLED", "TIMEOUT", "FAILED"}
  /\ NumArtifacts \in Nat /\ MaxCalls \in Nat \ {0} /\ MaxFaults \in Nat
  /\ MaxAttempts \in Nat \ {0} /\ MaxChain \in Nat \ {0}

VARIABLES
  call,       \* what each side of the orchestrator is waiting for
  inflight,   \* requests at the Session Manager
  calls,      \* calls made so far
  storeFaults,
  sessions,   \* rows of the workflows table
  wf,         \* state of the row whose id the client received
  rows,       \* artifact rows of the session: id -> [parent, offloaded]
  objects,    \* artifacts with an object in the bucket
  approvals,  \* approval rows in order of creation: [step, decision]
  made,       \* artifacts the run has produced
  heard,      \* <<step, checkpoint id>> pairs the client was answered
  comp,       \* the compensation: [pc, total, left, meta, blind, undone]
  lineage,    \* a lineage query: [pc, at, seen, cut]
  acked,      \* history: state last written by an answered call, per side
  doubtful    \* history: requests given up while the server had them

clientVars == <<call, calls, made, heard>>
tableVars == <<sessions, wf, rows, objects, approvals>>
walkVars == <<comp, lineage>>
storeVars == <<clientVars, inflight, storeFaults, tableVars, walkVars, acked, doubtful>>

Sides == {"run", "api"}
States == {"none", "CREATED", "RUNNING", "WAITING", "COMPLETED", "FAILED",
           "TIMEOUT", "CANCELLED", "COMPENSATING", "COMPENSATED"}
Statuses == {"ACTIVE", "COMPLETED", "FAILED", "TIMEOUT", "CANCELLED", "COMPENSATING", "COMPENSATED"}

Requests ==
  [op : {"create"}] \cup [op : {"status"}, to : Statuses]
    \cup [op : {"artifact"}, id : 1..NumArtifacts]
    \cup [op : {"ask"}, step : Steps]
    \cup [op : {"resolve"}, id : Nat \ {0}, to : {"APPROVED", "REJECTED"}]

Calls == [req : Requests, n : Nat, attempt : 1..MaxAttempts]
NoCall == [attempt |-> 0]
Messages == [req : Requests, n : Nat, attempt : 1..MaxAttempts, side : Sides,
             stage : {"received", "put", "inline", "conflict"}, live : BOOLEAN]

(* state_map of update_status(): the orchestrator's word for a state *)
StateOf(status) == IF status = "ACTIVE" THEN "RUNNING" ELSE status

(* The state a request writes, "none" when it writes none. *)
Writes(req) ==
  CASE req.op = "create" -> "CREATED"
    [] req.op = "status" -> StateOf(req.to)
    [] req.op = "ask" -> "WAITING"
    [] req.op = "resolve" -> IF req.to = "APPROVED" THEN "RUNNING" ELSE "FAILED"
    [] OTHER -> "none"

StoreInit ==
  /\ call = [t \in Sides |-> NoCall]
  /\ inflight = {} /\ calls = 0 /\ storeFaults = 0
  /\ sessions = 0 /\ wf = "none" /\ rows = <<>> /\ objects = {} /\ approvals = <<>>
  /\ made = 0 /\ heard = {}
  /\ comp = [pc |-> "off", total |-> 0, left |-> 0, meta |-> <<>>, blind |-> FALSE, undone |-> {}]
  /\ lineage = [pc |-> "off", at |-> 0, seen |-> {}, cut |-> FALSE]
  /\ acked = [t \in Sides |-> "none"] /\ doubtful = {}

-----------------------------------------------------------------------------
(* The client *)

MessageOf(t, c) ==
  [req |-> c.req, n |-> c.n, attempt |-> c.attempt, side |-> t,
   stage |-> "received", live |-> TRUE]

(* _with_retry(), first attempt *)
Start(t, req) ==
  /\ call[t] = NoCall
  /\ LET c == [req |-> req, n |-> calls + 1, attempt |-> 1]
     IN /\ call' = [call EXCEPT ![t] = c]
        /\ inflight' = inflight \cup {MessageOf(t, c)}
  /\ calls' = calls + 1

(* The call of the side that waits for m ends; nobody waits for a message that
   was given up. *)
Answered(m) == call' = IF m.live THEN [call EXCEPT ![m.side] = NoCall] ELSE call

(* _with_retry() after a ConnectError, ReadTimeout or RemoteProtocolError; rest
   are the messages that stay at the server. *)
NextAttempt(t, rest) ==
  LET c == [call[t] EXCEPT !.attempt = @ + 1]
  IN IF call[t].attempt < MaxAttempts
     THEN /\ call' = [call EXCEPT ![t] = c]
          /\ inflight' = rest \cup {MessageOf(t, c)}
     ELSE /\ call' = [call EXCEPT ![t] = NoCall]
          /\ inflight' = rest

Quiet == UNCHANGED <<storeFaults, tableVars, walkVars, acked, doubtful>>

CreateSession == /\ sessions = 0 /\ calls = 0
                 /\ Start("run", [op |-> "create"])
                 /\ UNCHANGED <<made, heard>> /\ Quiet

(* run_kio_node: the next artifact of the pipeline, whatever became of the last *)
RegisterArtifact ==
  /\ wf # "none" /\ made < NumArtifacts
  /\ Start("run", [op |-> "artifact", id |-> made + 1])
  /\ made' = made + 1
  /\ UNCHANGED heard /\ Quiet

(* update_progress() sends the status ACTIVE; the server drops the metadata. *)
UpdateStatus(t, status) ==
  /\ wf # "none"
  /\ Start(t, [op |-> "status", to |-> status])
  /\ UNCHANGED <<made, heard>> /\ Quiet

CreateCheckpoint(p) ==
  /\ wf # "none"
  /\ Start("run", [op |-> "ask", step |-> p])
  /\ UNCHANGED <<made, heard>> /\ Quiet

ResolveCheckpoint(id, decision) ==
  /\ \E p \in Steps : <<p, id>> \in heard
  /\ Start("api", [op |-> "resolve", id |-> id, to |-> decision])
  /\ UNCHANGED <<made, heard>> /\ Quiet

-----------------------------------------------------------------------------
(* The network *)

(* ConnectError or RemoteProtocolError: the request is gone before it had an
   effect on the tables, the reply comes back as an error. *)
LoseRequest(m) ==
  /\ storeFaults < MaxFaults /\ m.live
  /\ storeFaults' = storeFaults + 1
  /\ NextAttempt(m.side, inflight \ {m})
  /\ UNCHANGED <<calls, made, heard, tableVars, walkVars, acked, doubtful>>

(* ReadTimeout: the client turns away, the server works on. *)
GiveUp(m) ==
  /\ storeFaults < MaxFaults /\ m.live
  /\ storeFaults' = storeFaults + 1
  /\ NextAttempt(m.side, (inflight \ {m}) \cup {[m EXCEPT !.live = FALSE]})
  /\ doubtful' = doubtful \cup {m.req}
  /\ UNCHANGED <<calls, made, heard, tableVars, walkVars, acked>>

(* A database error: session_scope() rolls back and the reply is a 500, which
   raise_for_status() raises outside _with_retry(). *)
FailRequest(m) ==
  /\ storeFaults < MaxFaults
  /\ storeFaults' = storeFaults + 1
  /\ inflight' = inflight \ {m}
  /\ Answered(m)
  /\ UNCHANGED <<calls, made, heard, tableVars, walkVars, acked, doubtful>>

-----------------------------------------------------------------------------
(* The Session Manager *)

(* A transaction that writes the state of the session and answers. *)
Commit(m) ==
  /\ wf' = Writes(m.req)
  /\ acked' = IF m.live THEN [acked EXCEPT ![m.side] = Writes(m.req)] ELSE acked
  /\ inflight' = inflight \ {m}
  /\ Answered(m)

(* create_session(): every request makes a row of its own; the client knows the
   one whose id it received. *)
ServeCreate(m) ==
  /\ m.req.op = "create"
  /\ sessions' = sessions + 1
  /\ IF m.live THEN Commit(m)
     ELSE inflight' = inflight \ {m} /\ UNCHANGED <<call, wf, acked>>
  /\ UNCHANGED <<rows, objects, approvals>>

(* A mutant: the reply does not wait for the commit. *)
ServeStatusUncommitted(m) == /\ m.req.op = "status"
                             /\ acked' = [acked EXCEPT ![m.side] = Writes(m.req)]
                             /\ inflight' = inflight \ {m}
                             /\ Answered(m)
                             /\ UNCHANGED <<sessions, wf, rows, objects, approvals>>

(* update_status() *)
ServeStatus(m) == /\ m.req.op = "status"
                  /\ Commit(m)
                  /\ UNCHANGED <<sessions, rows, objects, approvals>>

(* A mutant: a failed upload is not noticed. *)
UploadUnchecked(m) ==
  /\ m.req.op = "artifact" /\ m.stage = "received"
  /\ inflight' = (inflight \ {m}) \cup {[m EXCEPT !.stage = "put"]}
  /\ objects' \in {objects, objects \cup {m.req.id}}
  /\ UNCHANGED <<call, sessions, wf, rows, approvals, acked>>

(* register_artifact() before its transaction: the payload goes to the object
   store, or stays inline when the store is off or the upload fails. *)
Upload(m) ==
  /\ m.req.op = "artifact" /\ m.stage = "received"
  /\ \E stage \in {"put", "inline"} :
       /\ inflight' = (inflight \ {m}) \cup {[m EXCEPT !.stage = stage]}
       /\ objects' = IF stage = "put" THEN objects \cup {m.req.id} ELSE objects
  /\ UNCHANGED <<call, sessions, wf, rows, approvals, acked>>

(* A mutant: the table has no such key. *)
NoForeignKey(a) == TRUE

(* The parent must exist: foreign key of the artifacts table. *)
ParentExists(a) == a = 1 \/ a - 1 \in DOMAIN rows

(* create_artifact(): a second row with this id or a row without its parent is
   an IntegrityError, hence a 500. *)
InsertRow(m) ==
  /\ m.req.op = "artifact" /\ m.stage \in {"put", "inline"}
  /\ LET a == m.req.id
         row == [parent |-> a - 1, offloaded |-> m.stage = "put"]
     IN rows' = IF a \notin DOMAIN rows /\ ParentExists(a)
                THEN [b \in DOMAIN rows \cup {a} |-> IF b = a THEN row ELSE rows[b]]
                ELSE rows
  /\ inflight' = inflight \ {m}
  /\ Answered(m)
  /\ UNCHANGED <<sessions, wf, objects, approvals, acked>>

(* The id of the approval of a step: index of its row. *)
IdOf(p) == CHOOSE i \in DOMAIN approvals : approvals[i].step = p

(* A mutant: the key of the task is not unique. *)
NoUniqueKey(p) == FALSE

(* create_hitl_checkpoint(): task, approval and state in one transaction; the
   idempotency key of the task is unique. *)
AskedBefore(p) == \E i \in DOMAIN approvals : approvals[i].step = p

ServeAsk(m) ==
  /\ m.req.op = "ask" /\ m.stage = "received"
  /\ IF AskedBefore(m.req.step)
     THEN /\ inflight' = (inflight \ {m}) \cup {[m EXCEPT !.stage = "conflict"]}
          /\ UNCHANGED <<call, wf, approvals, heard, acked>>
     ELSE /\ approvals' = Append(approvals, [step |-> m.req.step, decision |-> "PENDING"])
          /\ heard' = IF m.live THEN heard \cup {<<m.req.step, Len(approvals) + 1>>} ELSE heard
          /\ Commit(m)
  /\ UNCHANGED <<sessions, rows, objects>>

(* A mutant: the session waits again. *)
ReuseCheckpointWaiting(m) ==
  /\ m.req.op = "ask" /\ m.stage = "conflict"
  /\ heard' = IF m.live THEN heard \cup {<<m.req.step, IdOf(m.req.step)>>} ELSE heard
  /\ Commit(m)
  /\ UNCHANGED <<sessions, rows, objects, approvals>>

(* except IntegrityError: the existing checkpoint is looked up in a second
   transaction and reported as PENDING, decided or not. *)
ReuseCheckpoint(m) ==
  /\ m.req.op = "ask" /\ m.stage = "conflict"
  /\ inflight' = inflight \ {m}
  /\ heard' = IF m.live THEN heard \cup {<<m.req.step, IdOf(m.req.step)>>} ELSE heard
  /\ Answered(m)
  /\ UNCHANGED <<sessions, wf, rows, objects, approvals, acked>>

(* resolve_checkpoint(): decision and state in one transaction; a decision that
   exists is overwritten. *)
ServeResolve(m) ==
  /\ m.req.op = "resolve"
  /\ approvals' = [approvals EXCEPT ![m.req.id].decision = m.req.to]
  /\ Commit(m)
  /\ UNCHANGED <<sessions, rows, objects>>

Serve(m) ==
  \/ /\ \/ ServeCreate(m) \/ ServeStatus(m) \/ Upload(m) \/ InsertRow(m) \/ ServeResolve(m)
     /\ UNCHANGED <<heard, calls, made, storeFaults, walkVars, doubtful>>
  \/ /\ ServeAsk(m) \/ ReuseCheckpoint(m)
     /\ UNCHANGED <<calls, made, storeFaults, walkVars, doubtful>>

(* get_artifact_content(): _resolve_artifact_data() takes the object when the row
   has a key, the inline payload otherwise. *)
Readable(a) == rows[a].offloaded => a \in objects

-----------------------------------------------------------------------------
(* The compensation *)

(* _handle_failure(): the run has ended; its state is written, then compensate()
   gets the artifacts of the session's entry.  run() leaves that list empty and
   nothing adds to it, but rehydrate() fills it with those of the graph's thread:
   the ones made before the restart. *)
HandleFailure ==
  /\ comp.pc = "off" /\ wf # "none"
  /\ \E total \in 0..made :
       comp' = [comp EXCEPT !.pc = "failing", !.total = total, !.left = total]
  /\ Start("run", [op |-> "status", to |-> "FAILED"])
  /\ UNCHANGED <<made, heard, storeFaults, tableVars, lineage, acked, doubtful>>

(* compensate() with an empty list does nothing. *)
CompensateStart ==
  /\ comp.pc = "failing" /\ comp.total > 0
  /\ comp' = [comp EXCEPT !.pc = "marking"]
  /\ Start("run", [op |-> "status", to |-> "COMPENSATING"])
  /\ UNCHANGED <<made, heard, storeFaults, tableVars, lineage, acked, doubtful>>

(* What GET /artifacts tells of an artifact: ArtifactResponse has no s3_key, so
   the pointer that get_artifacts() reads is dropped from the reply. *)
Described(a) == [producer |-> "kio", s3_key |-> "none"]

(* get_artifacts() is one request without retries; when it fails nothing is
   known of the artifacts. *)
CompensateFetch ==
  /\ comp.pc = "marking" /\ call["run"] = NoCall
  /\ \/ /\ comp' = [comp EXCEPT !.pc = "walking",
                      !.meta = [a \in DOMAIN rows |-> Described(a)]]
        /\ UNCHANGED storeFaults
     \/ /\ storeFaults < MaxFaults /\ storeFaults' = storeFaults + 1
        /\ comp' = [comp EXCEPT !.pc = "walking", !.blind = TRUE]
  /\ UNCHANGED <<clientVars, inflight, tableVars, lineage, acked, doubtful>>

(* A mutant: an artifact that is not in the list ends the walk. *)
CompensateUntilUnknown ==
  /\ comp.pc = "walking" /\ comp.left > 0
  /\ LET a == comp.left
         known == a \in DOMAIN comp.meta
     IN /\ objects' = IF known /\ comp.meta[a].s3_key # "none" THEN objects \ {a} ELSE objects
        /\ comp' = [comp EXCEPT !.left = IF known THEN @ - 1 ELSE 0,
                      !.undone = IF known THEN @ \cup {a} ELSE @]
  /\ UNCHANGED <<clientVars, inflight, storeFaults, sessions, wf, rows, approvals,
                 lineage, acked, doubtful>>

(* _compensate_one(), from the last artifact to the first: the object when its
   key is known, the producer's DELETE when the producer is known *)
CompensateOne ==
  /\ comp.pc = "walking" /\ comp.left > 0
  /\ LET a == comp.left
         known == a \in DOMAIN comp.meta
     IN /\ objects' = IF known /\ comp.meta[a].s3_key # "none" THEN objects \ {a} ELSE objects
        /\ comp' = [comp EXCEPT !.left = @ - 1,
                      !.undone = IF known THEN @ \cup {a} ELSE @]
  /\ UNCHANGED <<clientVars, inflight, storeFaults, sessions, wf, rows, approvals,
                 lineage, acked, doubtful>>

CompensateClose ==
  /\ comp.pc = "walking" /\ comp.left = 0
  /\ comp' = [comp EXCEPT !.pc = "done"]
  /\ Start("run", [op |-> "status", to |-> "COMPENSATED"])
  /\ UNCHANGED <<made, heard, storeFaults, tableVars, lineage, acked, doubtful>>

Compensate == HandleFailure \/ CompensateStart \/ CompensateFetch \/ CompensateOne \/ CompensateClose

-----------------------------------------------------------------------------
(* The lineage query *)

LineageStart ==
  /\ lineage.pc = "off" /\ made > 0
  /\ \E a \in 1..made : lineage' = [lineage EXCEPT !.pc = "walking", !.at = a]

(* One turn of the loop of get_lineage(): the parent of the artifact just read *)
LineageTurn ==
  /\ lineage.pc = "walking" /\ lineage.at \in DOMAIN rows
  /\ lineage.at \notin lineage.seen /\ Cardinality(lineage.seen) < MaxChain
  /\ lineage' = [lineage EXCEPT !.at = rows[lineage.at].parent, !.seen = @ \cup {lineage.at}]
  /\ UNCHANGED storeFaults

(* The loop ends at a root, at a repetition or at the depth limit. *)
LineageEnd ==
  /\ lineage.pc = "walking"
  /\ lineage.at = 0 \/ lineage.at \in lineage.seen \/ Cardinality(lineage.seen) = MaxChain
  /\ lineage' = [lineage EXCEPT !.pc = "done"]
  /\ UNCHANGED storeFaults

(* get_artifact() answers None for a row that is missing and for a request that
   fails: the chain is cut without a word. *)
LineageCut ==
  /\ lineage.pc = "walking" /\ lineage.at > 0
  /\ \/ lineage.at \notin DOMAIN rows /\ UNCHANGED storeFaults
     \/ storeFaults < MaxFaults /\ storeFaults' = storeFaults + 1
  /\ lineage' = [lineage EXCEPT !.pc = "done", !.cut = TRUE]

QueryLineage ==
  /\ \/ LineageTurn \/ LineageEnd \/ LineageCut
     \/ LineageStart /\ UNCHANGED storeFaults
  /\ UNCHANGED <<clientVars, inflight, tableVars, comp, acked, doubtful>>

-----------------------------------------------------------------------------
RunCalls == \/ CreateSession
            \/ /\ calls < MaxCalls /\ comp.pc = "off"
               /\ \/ RegisterArtifact
                  \/ UpdateStatus("run", "ACTIVE") \/ UpdateStatus("run", "COMPLETED")
                  \/ \E p \in Steps : CreateCheckpoint(p)

ApiCalls == /\ calls < MaxCalls
            /\ \/ \E status \in ApiStatuses : UpdateStatus("api", status)
               \/ \E id \in DOMAIN approvals, d \in {"APPROVED", "REJECTED"} : ResolveCheckpoint(id, d)

StoreNext ==
  \/ RunCalls \/ ApiCalls \/ Compensate \/ QueryLineage
  \/ \E m \in inflight : LoseRequest(m) \/ GiveUp(m) \/ FailRequest(m) \/ Serve(m)

StoreSpec == StoreInit /\ [][StoreNext]_storeVars

-----------------------------------------------------------------------------
(* Properties *)

(* Type invariant. *)
StoreTypeOK ==
  /\ call \in [Sides -> Calls \cup {NoCall}]
  /\ inflight \subseteq Messages
  /\ calls \in 0..(MaxCalls + 3) /\ storeFaults \in 0..MaxFaults
  /\ sessions \in Nat /\ wf \in States
  /\ DOMAIN rows \subseteq 1..NumArtifacts
  /\ \A a \in DOMAIN rows : rows[a] \in [parent : 0..NumArtifacts, offloaded : BOOLEAN]
  /\ objects \subseteq 1..NumArtifacts
  /\ approvals \in Seq([step : Steps, decision : {"PENDING", "APPROVED", "REJECTED"}])
  /\ made \in 0..NumArtifacts
  /\ heard \subseteq Steps \X (Nat \ {0})
  /\ acked \in [Sides -> States] /\ doubtful \subseteq Requests

(* A client that has not given a request up is still answered: for every call
   that waits there is exactly one message whose reply it will take, and the
   replies of earlier attempts cannot be taken for it. *)
OneReplyAwaited ==
  \A t \in Sides :
    LET awaited == {m \in inflight : m.live /\ m.side = t}
    IN IF call[t] = NoCall THEN awaited = {}
       ELSE \E m \in awaited : awaited = {m} /\ m.req = call[t].req /\ m.attempt = call[t].attempt

(* The payload of every registered artifact can be read: an offloaded row has
   its object, whichever attempts uploaded and whichever inserted the row. *)
PayloadIsSomewhere == \A a \in DOMAIN rows : Readable(a)

(* One lost registration loses all that follow: the rows of a session are the
   first artifacts of its chain, without a gap, because a row needs its parent.
   So a lineage that was not cut reaches the first artifact, or is as long as the
   limit allows. *)
StoredIsPrefix ==
  /\ \A a \in DOMAIN rows : \A b \in 1..a : b \in DOMAIN rows
  /\ lineage.pc = "done" /\ ~lineage.cut =>
       1 \in lineage.seen \/ Cardinality(lineage.seen) = MaxChain

(* However often create_hitl_checkpoint() is retried, and whatever overtakes it,
   everybody hears the same checkpoint for a step, and it exists. *)
SameQuestion ==
  /\ \A x, y \in heard : x[1] = y[1] => x = y
  /\ \A x \in heard : x[2] \in DOMAIN approvals /\ approvals[x[2]].step = x[1]
  /\ \A i, j \in DOMAIN approvals : approvals[i].step = approvals[j].step => i = j

(* A session that waits for a human has a question without an answer: a late
   duplicate of create_hitl_checkpoint() does not ask a decided question again. *)
WaitingHasPending ==
  wf = "WAITING" => \E i \in DOMAIN approvals : approvals[i].decision = "PENDING"

(* The stored state is the last one that a side was told it had written, unless
   the server carried out a request that its client had given up; and only such
   a request leaves a second session row behind. *)
StatusIsExplained ==
  /\ wf # "none" => \/ \E t \in Sides : wf = acked[t]
                    \/ \E req \in doubtful : wf = Writes(req)
  /\ sessions > 1 => [op |-> "create"] \in doubtful

(* What the compensation leaves behind: an artifact that it was asked to roll
   back, that is stored and whose producer was not told, was registered by a
   request its client had given up, or the list of artifacts could not be read. *)
RolledBackOrExplained ==
  comp.pc = "walking" \/ comp.pc = "done" =>
    \A a \in DOMAIN rows : comp.left < a /\ a <= comp.total =>
      a \in comp.undone \/ comp.blind \/ [op |-> "artifact", id |-> a] \in doubtful

(* compensation_engine.py:5: the payload of a compensated artifact is deleted
   from the object store. *)
CompensatedIsDeleted ==
  comp.pc = "done" => comp.undone \cap objects = {}
=============================================================================
