----------------------------- MODULE KioTransport -----------------------------
(***************************************************************************)
(* How a job reaches a KIO and its result comes back: KioClient.execute    *)
(* (kio_client.py), the JetStream request/reply with its pull consumer     *)
(* (jetstream.py), and the KIO shell that runs the handler (kio_base.py).  *)
(* A job is one envelope.  It is published to a durable work queue, the    *)
(* shell acknowledges it after the handler and then replies over core      *)
(* NATS; a caller that gets no reply in time posts the same envelope over  *)
(* HTTP.  WorkflowEngine sees all this as one call that returns or raises, *)
(* of which JobPromise says what it may rely on.                           *)
(*                                                                         *)
(* Four timers run against each other, so time is explicit: one tick is    *)
(* the headroom that the shell leaves between the end of a handler and the *)
(* client's timeout.                                                       *)
(***************************************************************************)
EXTENDS Integers, FiniteSets

CONSTANTS
  Job,             \* message ids of the envelopes sent to one KIO
  MaxDeliver,      \* nats_max_deliver
  RequestTimeout,  \* nats_request_timeout, in ticks
  ClientTimeout,   \* kio_client_timeout, in ticks
  Headroom,        \* what _handle and /execute subtract from it
  TaskTimeouts,    \* payload["timeout_seconds"] that a run may carry, in ticks
  Losable,         \* what may be lost, a subset of LossKinds
  MaxLosses,       \* bound on the losses
  MaxCrashes       \* bound on the crashes of the KIO

LossKinds == {"publish", "delivery", "ack", "reply", "expired"}

ASSUME TransportConstants ==
  /\ {MaxDeliver, RequestTimeout, Headroom} \subseteq Nat \ {0}
  /\ ClientTimeout \in Nat /\ Headroom < ClientTimeout
  /\ TaskTimeouts \subseteq Nat
  /\ Losable \subseteq LossKinds
  /\ {MaxLosses, MaxCrashes} \subseteq Nat

VARIABLES
  call,        \* where execute() is, for each envelope
  waited,      \* ticks of the wait it is in
  allowed,     \* ticks a handler may take for the job
  queue,       \* the message in the KIO_JOBS stream
  deliveries,  \* how often it was delivered
  unacked,     \* ticks since the delivery that is not acknowledged
  run,         \* the handler runs of each job, one per delivery and one for HTTP
  age,         \* ticks each of them has been running
  up,          \* is the KIO process running?
  lost,        \* what was lost of which job
  crashes      \* crashes so far

callVars == <<call, waited, allowed>>
streamVars == <<queue, deliveries, unacked>>
kioVars == <<run, age, up>>
vars == <<callVars, streamVars, kioVars, lost, crashes>>

Http == 0
Delivery == 1..MaxDeliver
Run == Delivery \cup {Http}

AckWait == ClientTimeout            \* ack_wait of the consumer

(* A mutant: the handler may use all the time the caller has. *)
NoHeadroom == ClientTimeout

(* What asyncio.wait_for grants the handler of a job without a timeout of  *)
(* its own.                                                                *)
HandlerTimeout == ClientTimeout - Headroom

TypeOK ==
  /\ call \in [Job -> {"idle", "waiting", "falling_back", "posted", "returned", "raised"}]
  /\ waited \in [Job -> Nat]
  /\ \A j \in Job : waited[j] <= IF call[j] = "waiting" THEN RequestTimeout ELSE ClientTimeout
  /\ allowed \in [Job -> {HandlerTimeout} \cup TaskTimeouts]
  /\ queue \in [Job -> {"absent", "ready", "pending", "given_up", "gone"}]
  /\ deliveries \in [Job -> 0..MaxDeliver]
  /\ unacked \in [Job -> 0..AckWait]
  /\ run \in [Job -> [Run -> {"none", "running", "finished", "acked", "over", "dead"}]]
  /\ age \in [Job -> [Run -> Nat]]
  /\ \A j \in Job, r \in Run : run[j][r] = "running" => age[j][r] <= allowed[j]
  /\ up \in BOOLEAN
  /\ lost \subseteq Job \X Losable
  /\ crashes \in 0..MaxCrashes

Init ==
  /\ call = [j \in Job |-> "idle"] /\ waited = [j \in Job |-> 0]
  /\ allowed = [j \in Job |-> HandlerTimeout]
  /\ queue = [j \in Job |-> "absent"] /\ deliveries = [j \in Job |-> 0]
  /\ unacked = [j \in Job |-> 0]
  /\ run = [j \in Job |-> [r \in Run |-> "none"]]
  /\ age = [j \in Job |-> [r \in Run |-> 0]]
  /\ up = TRUE /\ lost = {} /\ crashes = 0

-----------------------------------------------------------------------------
(* Helpers *)

Lose(j, what) ==
  /\ what \in Losable /\ Cardinality(lost) < MaxLosses
  /\ lost' = lost \cup {<<j, what>>}
NothingLost == UNCHANGED <<lost, crashes>>

CallTo(j, c) ==
  /\ call' = [call EXCEPT ![j] = c]
  /\ waited' = [waited EXCEPT ![j] = 0]
  /\ UNCHANGED allowed

RunTo(j, r, st) ==
  /\ run' = [run EXCEPT ![j][r] = st]
  /\ age' = [age EXCEPT ![j][r] = 0]
  /\ UNCHANGED up

(* A mutant: a late reply replaces the outcome of a call that has ended.   *)
AnswerAnyone(j, c) == IF call[j] = "idle" THEN UNCHANGED callVars ELSE CallTo(j, "returned")

(* The first reply completes the future of a caller that still waits for   *)
(* it; for anyone else there is no subscription any more.                  *)
Answer(j, c) ==
  IF call[j] = c THEN CallTo(j, "returned") ELSE UNCHANGED callVars

-----------------------------------------------------------------------------
(* The caller *)

(* The envelope of a new call; its payload may carry a timeout. *)
Begin(j, c) ==
  /\ call[j] = "idle"
  /\ call' = [call EXCEPT ![j] = c]
  /\ \E t \in {HandlerTimeout} \cup TaskTimeouts : allowed' = [allowed EXCEPT ![j] = t]
  /\ UNCHANGED waited

(* request_reply: subscribe for the reply, publish, wait for it. *)
Request(j) ==
  /\ Begin(j, "waiting")
  /\ queue' = [queue EXCEPT ![j] = "ready"]
  /\ UNCHANGED <<deliveries, unacked, kioVars>> /\ NothingLost

(* Connecting, subscribing or publishing raises; the message may be in the *)
(* stream nevertheless.                                                    *)
RequestFails(j) ==
  /\ Begin(j, "falling_back")
  /\ Lose(j, "publish")
  /\ queue' \in {queue, [queue EXCEPT ![j] = "ready"]}
  /\ UNCHANGED <<deliveries, unacked, kioVars, crashes>>

(* A mutant: the caller waits again instead of giving up. *)
WaitAgain(j) ==
  /\ call[j] = "waiting" /\ waited[j] = RequestTimeout
  /\ CallTo(j, "waiting")
  /\ UNCHANGED <<streamVars, kioVars>> /\ NothingLost

(* A mutant: a timeout of the reply is the failure of the call. *)
TimeoutRaises(j) ==
  /\ call[j] = "waiting" /\ waited[j] = RequestTimeout
  /\ CallTo(j, "raised")
  /\ UNCHANGED <<streamVars, kioVars>> /\ NothingLost

(* No reply in time: unsubscribe, and fall back to HTTP. *)
RequestTimesOut(j) ==
  /\ call[j] = "waiting" /\ waited[j] = RequestTimeout
  /\ CallTo(j, "falling_back")
  /\ UNCHANGED <<streamVars, kioVars>> /\ NothingLost

(* POST /execute with the same envelope. *)
Post(j) ==
  /\ call[j] = "falling_back"
  /\ \/ /\ up
        /\ CallTo(j, "posted")
        /\ RunTo(j, Http, "running")
     \/ /\ ~up
        /\ CallTo(j, "raised")
        /\ UNCHANGED kioVars
  /\ UNCHANGED streamVars /\ NothingLost

PostTimesOut(j) ==
  /\ call[j] = "posted" /\ waited[j] = ClientTimeout
  /\ CallTo(j, "raised")
  /\ UNCHANGED <<streamVars, kioVars>> /\ NothingLost

-----------------------------------------------------------------------------
(* The stream and its pull consumer *)

(* A mutant: the message is acknowledged as soon as it is fetched. *)
DeliverAcked(j) ==
  /\ up /\ queue[j] = "ready"
  /\ queue' = [queue EXCEPT ![j] = "gone"]
  /\ deliveries' = [deliveries EXCEPT ![j] = @ + 1]
  /\ unacked' = [unacked EXCEPT ![j] = 0]
  /\ RunTo(j, deliveries[j] + 1, "running")
  /\ UNCHANGED callVars /\ NothingLost

(* _poll_loop fetches the message and _dispatch starts the handler. *)
Deliver(j) ==
  /\ up /\ queue[j] = "ready"
  /\ queue' = [queue EXCEPT ![j] = "pending"]
  /\ deliveries' = [deliveries EXCEPT ![j] = @ + 1]
  /\ unacked' = [unacked EXCEPT ![j] = 0]
  /\ RunTo(j, deliveries[j] + 1, "running")
  /\ UNCHANGED callVars /\ NothingLost

(* The message is delivered to a fetch that has just timed out. *)
DeliveryLost(j) ==
  /\ up /\ queue[j] = "ready"
  /\ Lose(j, "delivery")
  /\ queue' = [queue EXCEPT ![j] = "pending"]
  /\ deliveries' = [deliveries EXCEPT ![j] = @ + 1]
  /\ unacked' = [unacked EXCEPT ![j] = 0]
  /\ UNCHANGED <<callVars, kioVars, crashes>>

(* A mutant: one delivery too many. *)
RedeliverOnceMore(j) == deliveries[j] <= MaxDeliver

MayRedeliver(j) == deliveries[j] < MaxDeliver

(* No acknowledgement within ack_wait. *)
AckWaitOver(j) ==
  /\ queue[j] = "pending" /\ unacked[j] = AckWait
  /\ queue' = [queue EXCEPT ![j] = IF MayRedeliver(j) THEN "ready" ELSE "given_up"]
  /\ unacked' = [unacked EXCEPT ![j] = 0]
  /\ UNCHANGED <<callVars, deliveries, kioVars>> /\ NothingLost

(* nats_stream_max_age: a message leaves the stream with age, in whatever  *)
(* state it is; the age is far beyond the other timers and not counted.    *)
Expire(j) ==
  /\ queue[j] \in {"ready", "pending", "given_up"}
  /\ Lose(j, "expired")
  /\ queue' = [queue EXCEPT ![j] = "gone"]
  /\ UNCHANGED <<callVars, deliveries, unacked, kioVars, crashes>>

-----------------------------------------------------------------------------
(* The KIO shell *)

(* The handler returned, raised or ran into its timeout: each becomes a    *)
(* result.  /execute answers with it at once.                              *)
HandlerEnds(j, r) ==
  /\ run[j][r] = "running"
  /\ IF r = Http
     THEN RunTo(j, r, "over") /\ Answer(j, "posted")
     ELSE RunTo(j, r, "finished") /\ UNCHANGED callVars
  /\ UNCHANGED streamVars /\ NothingLost

(* msg.ack() removes the message, which may be waiting for redelivery. *)
Ack(j, r) ==
  /\ run[j][r] = "finished"
  /\ RunTo(j, r, "acked")
  /\ queue' = [queue EXCEPT ![j] = "gone"]
  /\ unacked' = [unacked EXCEPT ![j] = 0]
  /\ UNCHANGED <<callVars, deliveries>> /\ NothingLost

(* The server does not get it; ack() does not wait for a confirmation. *)
AckLost(j, r) ==
  /\ run[j][r] = "finished"
  /\ Lose(j, "ack")
  /\ RunTo(j, r, "acked")
  /\ UNCHANGED <<callVars, streamVars, crashes>>

(* publish_reply *)
Reply(j, r) ==
  /\ run[j][r] = "acked"
  /\ RunTo(j, r, "over")
  /\ Answer(j, "waiting")
  /\ UNCHANGED streamVars /\ NothingLost

(* The reply is not published or does not arrive; the nak that _dispatch   *)
(* attempts is refused, because the message was acknowledged.              *)
ReplyLost(j, r) ==
  /\ run[j][r] = "acked"
  /\ Lose(j, "reply")
  /\ RunTo(j, r, "over")
  /\ UNCHANGED <<callVars, streamVars, crashes>>

(* The process dies with its handlers; the connections they answer break. *)
Crash ==
  /\ up /\ crashes < MaxCrashes
  /\ crashes' = crashes + 1
  /\ up' = FALSE
  /\ run' = [j \in Job |-> [r \in Run |->
               IF run[j][r] \in {"running", "finished", "acked"} THEN "dead" ELSE run[j][r]]]
  /\ age' = [j \in Job |-> [r \in Run |-> 0]]
  /\ call' = [j \in Job |-> IF call[j] = "posted" THEN "raised" ELSE call[j]]
  /\ waited' = [j \in Job |-> IF call[j] = "posted" THEN 0 ELSE waited[j]]
  /\ UNCHANGED <<allowed, streamVars, lost>>

Restart ==
  /\ ~up /\ up' = TRUE
  /\ UNCHANGED <<callVars, streamVars, run, age, lost, crashes>>

-----------------------------------------------------------------------------
(* Time passes while something is timed and nothing is due.  The steps of  *)
(* shell and caller that only send take less than a tick.                  *)
Timed(j) ==
  \/ call[j] \in {"waiting", "posted"}
  \/ queue[j] = "pending"
  \/ \E r \in Run : run[j][r] = "running"
Due(j) ==
  \/ call[j] = "falling_back"
  \/ call[j] = "waiting" /\ waited[j] = RequestTimeout
  \/ call[j] = "posted" /\ waited[j] = ClientTimeout
  \/ queue[j] = "pending" /\ unacked[j] = AckWait
  \/ \E r \in Run : \/ run[j][r] \in {"finished", "acked"}
                    \/ run[j][r] = "running" /\ age[j][r] = allowed[j]

Elapse(n, timing) == IF timing THEN n + 1 ELSE n

Tick ==
  /\ \E j \in Job : Timed(j)
  /\ \A j \in Job : ~Due(j)
  /\ waited' = [j \in Job |-> Elapse(waited[j], call[j] \in {"waiting", "posted"})]
  /\ unacked' = [j \in Job |-> Elapse(unacked[j], queue[j] = "pending")]
  /\ age' = [j \in Job |-> [r \in Run |-> Elapse(age[j][r], run[j][r] = "running")]]
  /\ UNCHANGED <<call, allowed, queue, deliveries, run, up, lost, crashes>>

CallStep(j) == RequestTimesOut(j) \/ Post(j) \/ PostTimesOut(j)
StreamStep(j) == Deliver(j) \/ AckWaitOver(j)
ShellStep(j, r) == HandlerEnds(j, r) \/ (r \in Delivery /\ (Ack(j, r) \/ Reply(j, r)))
Loss(j) ==
  \/ RequestFails(j) \/ DeliveryLost(j) \/ Expire(j)
  \/ \E r \in Delivery : AckLost(j, r) \/ ReplyLost(j, r)

Next ==
  \/ \E j \in Job : Request(j) \/ CallStep(j) \/ StreamStep(j) \/ Loss(j)
  \/ \E j \in Job, r \in Run : ShellStep(j, r)
  \/ Crash \/ Restart \/ Tick

(* Fairness: timers fire, the event loops of both processes run every      *)
(* ready task, a handler ends by its timeout at the latest, the poll loop  *)
(* fetches what is there, and a crashed KIO is restarted (the containers   *)
(* are).  Requests, losses and crashes are never forced.                   *)
Fairness ==
  /\ WF_vars(Tick) /\ WF_vars(Restart)
  /\ \A j \in Job : WF_vars(CallStep(j)) /\ WF_vars(StreamStep(j))
  /\ \A j \in Job, r \in Run : WF_vars(ShellStep(j, r))

Spec == Init /\ [][Next]_vars /\ Fairness

-----------------------------------------------------------------------------
(* Properties *)

(* The job has no timeout of its own, or one that leaves the headroom. *)
Usual(j) == allowed[j] <= HandlerTimeout

(* Two deliveries of one job never run at the same time: the handler is    *)
(* cut off before the consumer's ack_wait lets the message be delivered    *)
(* again, whatever was lost and however often the KIO crashed.             *)
OneDeliveryRuns ==
  \A j \in Job : Usual(j) =>
    \A q, r \in Delivery : run[j][q] = "running" /\ run[j][r] = "running" => q = r

(* A job whose handler has ended is not delivered again because its reply  *)
(* failed: only the loss of the acknowledgement itself may repeat it.      *)
AnsweredIsOver ==
  \A j \in Job, r \in Delivery :
    run[j][r] \in {"acked", "over"} /\ <<j, "ack">> \notin lost => queue[j] = "gone"

(* execute() raises only if the KIO process died: whatever NATS loses is   *)
(* made up for over HTTP, and the handler's result reaches the HTTP client *)
(* before it gives up.  That covers a reply that is lost after its         *)
(* acknowledgement, which the comment at kio_base.py:397 expects to fail   *)
(* the session: see LostReplyFails.                                        *)
FailureMeansCrash ==
  \A j \in Job : call[j] = "raised" /\ Usual(j) => crashes > 0

(* A published job survives restarts of the KIO: it is delivered until a   *)
(* handler has ended, unless the transport itself lost something or the    *)
(* crashes use up its deliveries (MaxCrashes < MaxDeliver).                *)
JobSurvivesCrashes ==
  \A j \in Job :
    queue[j] = "ready" /\ Usual(j) ~>
      (lost # {} \/ \E r \in Delivery : run[j][r] \in {"acked", "over"})

(* Every call ends, whatever is lost: it does not stay on its way, and a   *)
(* call that has left it never goes back (KeepsPromise).                   *)
EveryCallEnds ==
  \A j \in Job : []<>(call[j] \notin {"waiting", "falling_back", "posted"})

(* The transport keeps the promise of JobPromise: read without its timers, *)
(* every step is one of a job that is run by one handler of the stream at  *)
(* a time and by HTTP once, is over when it is acknowledged, and is        *)
(* answered by a run that ended or, after a crash only, by an exception.   *)
OutcomeOf(j) == IF call[j] \in {"waiting", "falling_back", "posted"} THEN "open" ELSE call[j]
WorkOf(j, r) ==
  CASE run[j][r] = "running" -> "working"
    [] run[j][r] = "finished" -> "ended"
    [] run[j][r] = "acked" -> "settled"
    [] OTHER -> run[j][r]

Promise == INSTANCE JobPromise WITH
  outcome <- [j \in Job |-> OutcomeOf(j)],
  limited <- [j \in Job |-> Usual(j)],
  offered <- [j \in Job |-> queue[j] \in {"ready", "pending"}],
  doubtful <- [j \in Job |-> <<j, "ack">> \in lost],
  work <- [j \in Job |-> [r \in Run |-> WorkOf(j, r)]],
  died <- crashes > 0

KeepsPromise == Promise!PromiseSpec

(* codereview.md:104: the headroom "ensures the KIO sends a FAILED         *)
(* response before the orchestrator's outer timeout fires".                *)
HeadroomSuffices ==
  \A j \in Job : call[j] = "falling_back" /\ Usual(j) /\ lost = {} =>
    \A r \in Delivery : run[j][r] # "running"

(* kio_base.py:400-401: "If we ack first and the reply fails, the          *)
(* orchestrator times out and marks the session FAILED" (codereview.md,    *)
(* L4, says the same): a call whose reply is lost ends with an exception.  *)
LostReplyFails ==
  \A j \in Job : (call[j] = "waiting" /\ <<j, "reply">> \in lost) ~> call[j] = "raised"
=============================================================================
