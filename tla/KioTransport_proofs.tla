-------------------------- MODULE KioTransport_proofs --------------------------
(***************************************************************************)
(* Safety of the KIO transport for any timeouts, bounds and losses: the    *)
(* relation between the timers is what makes redelivery and the HTTP       *)
(* fallback sound, and what lets JobPromise do without timers.             *)
(***************************************************************************)
EXTENDS KioTransport, TLAPS

(* A usual handler that runs, or has ended and not acknowledged, is that   *)
(* of the last delivery; while its message is in the stream its age is the *)
(* time since that delivery.                                               *)
Current(j, r) ==
  run[j][r] \in {"running", "finished"} /\ Usual(j) =>
    /\ r = deliveries[j]
    /\ \/ queue[j] = "gone"
       \/ /\ queue[j] = "pending" /\ unacked[j] <= HandlerTimeout
          /\ run[j][r] = "running" => age[j][r] = unacked[j]

(* A caller that waits for the HTTP answer waits exactly as long as the    *)
(* handler behind it runs.                                                 *)
Attended(j) ==
  call[j] = "posted" /\ Usual(j) => run[j][Http] = "running" /\ age[j][Http] = waited[j]

(* Nothing is in the stream and no handler runs before the request; a      *)
(* message that may be delivered has deliveries left.                      *)
Queued(j) ==
  /\ call[j] = "idle" => queue[j] = "absent" /\ waited[j] = 0
                           /\ \A r \in Run : run[j][r] = "none"
  /\ queue[j] = "absent" => deliveries[j] = 0
  /\ queue[j] = "ready" => deliveries[j] < MaxDeliver

TransportInv ==
  /\ TypeOK
  /\ \A j \in Job : Queued(j) /\ Attended(j)
  /\ \A j \in Job, r \in Delivery : Current(j, r)
  /\ ~up => crashes > 0
  /\ AnsweredIsOver
  /\ FailureMeansCrash

-----------------------------------------------------------------------------
(* The order of the timers. *)
LEMMA Timers ==
  /\ HandlerTimeout \in Nat /\ AckWait \in Nat /\ ClientTimeout \in Nat
  /\ HandlerTimeout < AckWait /\ HandlerTimeout < ClientTimeout
  /\ RequestTimeout \in Nat /\ MaxDeliver \in Nat /\ MaxDeliver > 0
  /\ MaxCrashes \in Nat
  BY TransportConstants DEF HandlerTimeout, AckWait

(* HTTP is not one of the deliveries. *)
LEMMA Runs ==
  /\ Http \in Run /\ Http \notin Delivery /\ Delivery \subseteq Run
  /\ \A r \in Run : r # Http => r \in Delivery
  BY Timers DEF Http, Run, Delivery

Stage == {"none", "running", "finished", "acked", "over", "dead"}
CallStage == {"idle", "waiting", "falling_back", "posted", "returned", "raised"}

(* The caller of one job moves on. *)
LEMMA CallMoves ==
  ASSUME TypeOK, NEW j \in Job, NEW c \in CallStage, CallTo(j, c)
  PROVE  /\ call' \in [Job -> CallStage] /\ waited' \in [Job -> Nat]
         /\ allowed' = allowed
         /\ call'[j] = c /\ waited'[j] = 0
         /\ \A i \in Job \ {j} : call'[i] = call[i] /\ waited'[i] = waited[i]
         /\ \A i \in Job : waited'[i] <= IF call'[i] = "waiting" THEN RequestTimeout
                                                                ELSE ClientTimeout
<1>1. /\ call \in [Job -> CallStage] /\ waited \in [Job -> Nat]
      /\ call' = [call EXCEPT ![j] = c] /\ waited' = [waited EXCEPT ![j] = 0]
      /\ allowed' = allowed
  BY DEF TypeOK, CallStage, CallTo
<1>2. /\ call'[j] = c /\ waited'[j] = 0
      /\ \A i \in Job \ {j} : call'[i] = call[i] /\ waited'[i] = waited[i]
  BY <1>1
<1>3. \A i \in Job : waited[i] <= IF call[i] = "waiting" THEN RequestTimeout ELSE ClientTimeout
  BY DEF TypeOK
<1>4. ASSUME NEW i \in Job
      PROVE  waited'[i] <= IF call'[i] = "waiting" THEN RequestTimeout ELSE ClientTimeout
  <2>1. CASE i = j BY <1>2, <2>1, Timers
  <2>2. CASE i # j BY <1>2, <1>3, <2>2
  <2> QED BY <2>1, <2>2
<1>5. call' \in [Job -> CallStage] /\ waited' \in [Job -> Nat] BY <1>1
<1> QED BY <1>1, <1>2, <1>4, <1>5

(* One handler run moves on. *)
LEMMA RunMoves ==
  ASSUME TypeOK, NEW j \in Job, NEW r \in Run, NEW st \in Stage, RunTo(j, r, st)
  PROVE  /\ run' \in [Job -> [Run -> Stage]] /\ age' \in [Job -> [Run -> Nat]]
         /\ run'[j][r] = st /\ age'[j][r] = 0 /\ up' = up
         /\ \A i \in Job, q \in Run :
              i # j \/ q # r => run'[i][q] = run[i][q] /\ age'[i][q] = age[i][q]
<1>1. /\ run \in [Job -> [Run -> Stage]] /\ age \in [Job -> [Run -> Nat]]
      /\ run' = [run EXCEPT ![j][r] = st] /\ age' = [age EXCEPT ![j][r] = 0] /\ up' = up
  BY DEF TypeOK, Stage, RunTo
<1>3. run' \in [Job -> [Run -> Stage]] /\ age' \in [Job -> [Run -> Nat]]
  BY <1>1
<1>4. \A i \in Job, q \in Run :
        /\ run'[i][q] = IF i = j /\ q = r THEN st ELSE run[i][q]
        /\ age'[i][q] = IF i = j /\ q = r THEN 0 ELSE age[i][q]
  BY <1>1
<1> QED BY <1>1, <1>3, <1>4

(* A loss is recorded and nothing that was lost is forgotten. *)
LEMMA Losses ==
  ASSUME TypeOK, NEW j \in Job, NEW what, Lose(j, what)
  PROVE  lost' \subseteq Job \X Losable /\ lost \subseteq lost' /\ <<j, what>> \in lost'
  BY DEF TypeOK, Lose

-----------------------------------------------------------------------------
(* What the caller does *)

(* A call that is under way and moves on without touching the KIO. *)
LEMMA CallOnly ==
  ASSUME TransportInv, NEW j \in Job, NEW c \in CallStage \ {"idle", "posted"},
         CallTo(j, c), c = "raised" /\ Usual(j) => crashes > 0,
         UNCHANGED <<streamVars, kioVars, lost, crashes>>
  PROVE  TransportInv'
<1>1. UNCHANGED <<queue, deliveries, unacked, run, age, up, lost, crashes>>
  BY DEF streamVars, kioVars
<1>2. /\ call' \in [Job -> CallStage] /\ waited' \in [Job -> Nat]
      /\ call'[j] = c /\ allowed' = allowed
      /\ \A i \in Job \ {j} : call'[i] = call[i] /\ waited'[i] = waited[i]
      /\ \A i \in Job : waited'[i] <= IF call'[i] = "waiting" THEN RequestTimeout
                                                              ELSE ClientTimeout
  BY CallMoves DEF TransportInv
<1>3. TypeOK' BY <1>1, <1>2 DEF TransportInv, TypeOK, CallStage
<1>4. \A i \in Job : Queued(i)' BY <1>1, <1>2 DEF TransportInv, Queued
<1>5. \A i \in Job : Attended(i)' BY <1>1, <1>2 DEF TransportInv, Attended, Usual
<1>6. \A i \in Job, r \in Delivery : Current(i, r)' BY <1>1, <1>2 DEF TransportInv, Current, Usual
<1>7. AnsweredIsOver' BY <1>1 DEF TransportInv, AnsweredIsOver
<1>8. FailureMeansCrash' BY <1>1, <1>2 DEF TransportInv, FailureMeansCrash, Usual
<1> QED BY <1>1, <1>3, <1>4, <1>5, <1>6, <1>7, <1>8 DEF TransportInv

(* A call that begins, and may leave its message in the stream. *)
LEMMA CallBegins ==
  ASSUME TransportInv, NEW j \in Job, NEW c \in {"waiting", "falling_back"},
         Begin(j, c),
         queue' \in {queue, [queue EXCEPT ![j] = "ready"]},
         lost' \subseteq Job \X Losable, lost \subseteq lost',
         UNCHANGED <<deliveries, unacked, kioVars, crashes>>
  PROVE  TransportInv'
<1>1. UNCHANGED <<deliveries, unacked, run, age, up, crashes, waited>>
  BY DEF kioVars, Begin
<1>2. /\ call' \in [Job -> CallStage]
      /\ call[j] = "idle" /\ call'[j] = c
      /\ \A i \in Job \ {j} : call'[i] = call[i]
      /\ allowed' \in [Job -> {HandlerTimeout} \cup TaskTimeouts]
      /\ \A i \in Job \ {j} : allowed'[i] = allowed[i]
  BY DEF Begin, CallStage, TransportInv, TypeOK
<1>3. /\ queue[j] = "absent" /\ deliveries[j] = 0 /\ deliveries[j] < MaxDeliver
      /\ \A r \in Run : run[j][r] = "none"
  BY <1>2, Timers DEF TransportInv, Queued
<1>4. /\ queue' \in [Job -> {"absent", "ready", "pending", "given_up", "gone"}]
      /\ queue'[j] \in {"absent", "ready"}
      /\ \A i \in Job \ {j} : queue'[i] = queue[i]
  BY <1>3 DEF TransportInv, TypeOK
<1>5. TypeOK'
  <2>1. waited[j] <= RequestTimeout /\ waited[j] <= ClientTimeout
    BY <1>2, Timers DEF TransportInv, Queued
  <2> QED BY <1>1, <1>2, <1>3, <1>4, <2>1 DEF TransportInv, TypeOK, CallStage
<1>6. \A i \in Job : Queued(i)'
  BY <1>1, <1>2, <1>3, <1>4 DEF TransportInv, Queued
<1>7. \A i \in Job : Attended(i)' BY <1>1, <1>2 DEF TransportInv, Attended, Usual
<1>8. \A i \in Job, r \in Delivery : Current(i, r)'
  <2>1. \A r \in Delivery : Current(j, r)' BY <1>1, <1>3, Runs DEF Current
  <2>2. \A i \in Job \ {j}, r \in Delivery : Current(i, r)'
    BY <1>1, <1>2, <1>4 DEF TransportInv, Current, Usual
  <2> QED BY <2>1, <2>2
<1>9. AnsweredIsOver' BY <1>1, <1>3, <1>4 DEF TransportInv, AnsweredIsOver
<1>10. FailureMeansCrash' BY <1>1, <1>2 DEF TransportInv, FailureMeansCrash, Usual
<1> QED BY <1>1, <1>5, <1>6, <1>7, <1>8, <1>9, <1>10 DEF TransportInv

(* The HTTP request starts a handler run, which the caller attends. *)
LEMMA PostStep == ASSUME TransportInv, NEW j \in Job, Post(j) PROVE TransportInv'
<1>1. CASE ~up
  <2>1. /\ CallTo(j, "raised") /\ crashes > 0 /\ "raised" \in CallStage \ {"idle", "posted"}
        /\ UNCHANGED <<streamVars, kioVars, lost, crashes>>
    BY <1>1 DEF Post, NothingLost, CallStage, TransportInv
  <2> QED BY <2>1, CallOnly
<1>2. CASE up
  <2>1. /\ call[j] = "falling_back"
        /\ CallTo(j, "posted") /\ RunTo(j, Http, "running")
        /\ UNCHANGED <<queue, deliveries, unacked, lost, crashes>>
    BY <1>2 DEF Post, NothingLost, streamVars
  <2>2. /\ call' \in [Job -> CallStage] /\ waited' \in [Job -> Nat]
        /\ call'[j] = "posted" /\ waited'[j] = 0 /\ allowed' = allowed
        /\ \A i \in Job \ {j} : call'[i] = call[i] /\ waited'[i] = waited[i]
        /\ \A i \in Job : waited'[i] <= IF call'[i] = "waiting" THEN RequestTimeout
                                                                ELSE ClientTimeout
    <3>1. "posted" \in CallStage BY DEF CallStage
    <3> QED BY <2>1, <3>1, CallMoves DEF TransportInv
  <2>3. /\ run' \in [Job -> [Run -> Stage]] /\ age' \in [Job -> [Run -> Nat]]
        /\ run'[j][Http] = "running" /\ age'[j][Http] = 0 /\ up' = up
        /\ \A i \in Job, q \in Run :
             i # j \/ q # Http => run'[i][q] = run[i][q] /\ age'[i][q] = age[i][q]
    <3>1. "running" \in Stage /\ Http \in Run BY Runs DEF Stage
    <3> QED BY <2>1, <3>1, RunMoves DEF TransportInv
  <2>4. TypeOK'
    <3>1. \A i \in Job, q \in Run : run'[i][q] = "running" => age'[i][q] <= allowed'[i]
      <4>1. allowed[j] \in Nat BY Timers, TransportConstants DEF TransportInv, TypeOK
      <4>2. 0 <= allowed[j] BY <4>1
      <4>3. \A i \in Job, q \in Run : run[i][q] = "running" => age[i][q] <= allowed[i]
        BY DEF TransportInv, TypeOK
      <4> QED BY <2>2, <2>3, <4>2, <4>3
    <3> QED BY <2>1, <2>2, <2>3, <3>1 DEF TransportInv, TypeOK, CallStage, Stage
  <2>5. \A i \in Job : Queued(i)'
    <3>1. \A i \in Job \ {j} : \A q \in Run : run'[i][q] = run[i][q] BY <2>3
    <3>2. Queued(j)' BY <2>1, <2>2 DEF TransportInv, Queued
    <3>3. \A i \in Job \ {j} : Queued(i)'
      BY <2>1, <2>2, <3>1 DEF TransportInv, Queued
    <3> QED BY <3>2, <3>3
  <2>6. \A i \in Job : Attended(i)' BY <2>2, <2>3, Runs DEF TransportInv, Attended, Usual
  <2>7. \A i \in Job, r \in Delivery : run'[i][r] = run[i][r] /\ age'[i][r] = age[i][r]
    BY <2>3, Runs
  <2>8. \A i \in Job, r \in Delivery : Current(i, r)'
    BY <2>1, <2>2, <2>7 DEF TransportInv, Current, Usual
  <2>9. AnsweredIsOver' BY <2>1, <2>7 DEF TransportInv, AnsweredIsOver
  <2>10. FailureMeansCrash' BY <2>1, <2>2 DEF TransportInv, FailureMeansCrash, Usual
  <2> QED BY <2>1, <2>3, <2>4, <2>5, <2>6, <2>8, <2>9, <2>10 DEF TransportInv
<1> QED BY <1>1, <1>2

(* The HTTP client gives up only on an unusual handler: the time of any    *)
(* other is over before its own.                                           *)
LEMMA TimesOutUnusual ==
  ASSUME TransportInv, NEW j \in Job, PostTimesOut(j) PROVE ~Usual(j)
<1>1. SUFFICES ASSUME call[j] = "posted", waited[j] = ClientTimeout, Usual(j) PROVE FALSE
  BY DEF PostTimesOut
<1>2. age[j][Http] = ClientTimeout /\ run[j][Http] = "running"
  BY <1>1 DEF TransportInv, Attended
<1>3. age[j][Http] <= allowed[j] /\ age[j][Http] \in Nat /\ allowed[j] \in Nat
  BY <1>2, Runs, Timers, TransportConstants DEF TransportInv, TypeOK
<1> QED BY <1>1, <1>2, <1>3, Timers DEF Usual

(* The caller's steps keep the invariant. *)
LEMMA CallerStep ==
  ASSUME TransportInv, NEW j \in Job, Request(j) \/ RequestFails(j) \/ CallStep(j)
  PROVE  TransportInv'
<1>1. CASE Request(j)
  <2>1. /\ Begin(j, "waiting")
        /\ queue' \in {queue, [queue EXCEPT ![j] = "ready"]}
        /\ lost' = lost /\ UNCHANGED <<deliveries, unacked, kioVars, crashes>>
    BY <1>1 DEF Request, NothingLost
  <2>2. lost' \subseteq Job \X Losable /\ lost \subseteq lost'
    BY <2>1 DEF TransportInv, TypeOK
  <2> QED BY <2>1, <2>2, CallBegins
<1>2. CASE RequestFails(j)
  <2>1. /\ Begin(j, "falling_back") /\ Lose(j, "publish")
        /\ queue' \in {queue, [queue EXCEPT ![j] = "ready"]}
        /\ UNCHANGED <<deliveries, unacked, kioVars, crashes>>
    BY <1>2 DEF RequestFails
  <2>2. lost' \subseteq Job \X Losable /\ lost \subseteq lost'
    BY <2>1, Losses DEF TransportInv
  <2> QED BY <2>1, <2>2, CallBegins
<1>3. CASE RequestTimesOut(j)
  <2>1. /\ CallTo(j, "falling_back") /\ "falling_back" \in CallStage \ {"idle", "posted"}
        /\ UNCHANGED <<streamVars, kioVars, lost, crashes>>
    BY <1>3 DEF RequestTimesOut, NothingLost, CallStage
  <2> QED BY <2>1, CallOnly
<1>4. CASE PostTimesOut(j)
  <2>1. /\ CallTo(j, "raised") /\ "raised" \in CallStage \ {"idle", "posted"}
        /\ UNCHANGED <<streamVars, kioVars, lost, crashes>>
    BY <1>4 DEF PostTimesOut, NothingLost, CallStage
  <2> QED BY <1>4, <2>1, TimesOutUnusual, CallOnly
<1> QED BY <1>1, <1>2, <1>3, <1>4, PostStep DEF CallStep
-----------------------------------------------------------------------------
(* What the stream does *)

(* The next delivery starts a run of its own, and no other run of a usual  *)
(* job is left.                                                            *)
LEMMA DeliverStep == ASSUME TransportInv, NEW j \in Job, Deliver(j) PROVE TransportInv'
<1>1. /\ queue[j] = "ready" /\ RunTo(j, deliveries[j] + 1, "running")
      /\ queue' = [queue EXCEPT ![j] = "pending"]
      /\ deliveries' = [deliveries EXCEPT ![j] = @ + 1]
      /\ unacked' = [unacked EXCEPT ![j] = 0]
      /\ UNCHANGED <<call, waited, allowed, lost, crashes>>
  BY DEF Deliver, callVars, NothingLost
<1>2. deliveries[j] \in Nat /\ deliveries[j] < MaxDeliver /\ call[j] # "idle"
  BY <1>1, Timers DEF TransportInv, Queued, TypeOK
<1>3. PICK d \in Delivery : d = deliveries[j] + 1 /\ d \in Run /\ d # Http
  BY <1>2, Timers DEF Run, Delivery, Http
<1>4. /\ run' \in [Job -> [Run -> Stage]] /\ age' \in [Job -> [Run -> Nat]]
      /\ run'[j][d] = "running" /\ age'[j][d] = 0 /\ up' = up
      /\ \A i \in Job, q \in Run :
           i # j \/ q # d => run'[i][q] = run[i][q] /\ age'[i][q] = age[i][q]
  <2>1. "running" \in Stage BY DEF Stage
  <2> QED BY <1>1, <1>3, <2>1, RunMoves DEF TransportInv
<1>5. /\ deliveries'[j] = d /\ unacked'[j] = 0 /\ queue'[j] = "pending"
      /\ \A i \in Job \ {j} : /\ deliveries'[i] = deliveries[i] /\ queue'[i] = queue[i]
                              /\ unacked'[i] = unacked[i]
  BY <1>1, <1>3 DEF TransportInv, TypeOK
<1>6. TypeOK'
  <2>1. \A i \in Job, q \in Run : run'[i][q] = "running" => age'[i][q] <= allowed'[i]
    <3>1. 0 <= allowed[j]
      <4>1. allowed[j] \in Nat BY Timers, TransportConstants DEF TransportInv, TypeOK
      <4> QED BY <4>1
    <3>2. \A i \in Job, q \in Run : run[i][q] = "running" => age[i][q] <= allowed[i]
      BY DEF TransportInv, TypeOK
    <3> QED BY <1>1, <1>4, <3>1, <3>2
  <2>2. deliveries' \in [Job -> 0..MaxDeliver] /\ unacked' \in [Job -> 0..AckWait]
    BY <1>1, <1>2, Timers DEF TransportInv, TypeOK
  <2> QED BY <1>1, <1>4, <2>1, <2>2 DEF TransportInv, TypeOK, Stage
<1>7. \A i \in Job : Queued(i)'
  <2>1. \A i \in Job \ {j} : \A q \in Run : run'[i][q] = run[i][q] BY <1>4
  <2>2. \A i \in Job \ {j} : Queued(i)' BY <1>1, <1>5, <2>1 DEF TransportInv, Queued
  <2>3. Queued(j)' BY <1>1, <1>2, <1>5 DEF Queued
  <2> QED BY <2>2, <2>3
<1>8. \A i \in Job : Attended(i)'
  BY <1>1, <1>3, <1>4, Runs DEF TransportInv, Attended, Usual
<1>9. \A i \in Job, r \in Delivery : Current(i, r)'
  <2>1. Current(j, d)' BY <1>4, <1>5, Timers DEF Current
  <2>2. ASSUME NEW r \in Delivery, r # d PROVE Current(j, r)'
    <3>1. run'[j][r] = run[j][r] BY <1>4, <2>2, Runs
    <3> QED BY <1>1, <3>1 DEF TransportInv, Current, Usual
  <2>3. ASSUME NEW i \in Job \ {j}, NEW r \in Delivery PROVE Current(i, r)'
    <3>1. run'[i][r] = run[i][r] /\ age'[i][r] = age[i][r] BY <1>4, Runs
    <3> QED BY <1>1, <1>5, <3>1 DEF TransportInv, Current, Usual
  <2> QED BY <2>1, <2>2, <2>3
<1>10. AnsweredIsOver'
  BY <1>1, <1>4, <1>5, Runs DEF TransportInv, AnsweredIsOver
<1>11. FailureMeansCrash' BY <1>1 DEF TransportInv, FailureMeansCrash, Usual
<1> QED BY <1>1, <1>4, <1>6, <1>7, <1>8, <1>9, <1>10, <1>11 DEF TransportInv

(* The message moves in the stream while no run of the job is affected.    *)
LEMMA QueueOnly ==
  ASSUME TransportInv, NEW j \in Job, NEW st \in {"ready", "pending", "given_up", "gone"},
         queue[j] # "absent", queue[j] # "gone",
         queue' = [queue EXCEPT ![j] = st],
         st = "ready" => deliveries'[j] < MaxDeliver,
         deliveries' \in [Job -> 0..MaxDeliver],
         \A i \in Job \ {j} : deliveries'[i] = deliveries[i],
         unacked' \in {unacked, [unacked EXCEPT ![j] = 0]},
         IF st = "gone" THEN deliveries' = deliveries
         ELSE \A r \in Delivery : Usual(j) => run[j][r] \notin {"running", "finished"},
         lost' \subseteq Job \X Losable, lost \subseteq lost',
         UNCHANGED <<callVars, kioVars, crashes>>
  PROVE  TransportInv'
<1>1. UNCHANGED <<call, waited, allowed, run, age, up, crashes>>
  BY DEF callVars, kioVars
<1>2. /\ queue'[j] = st
      /\ \A i \in Job \ {j} : queue'[i] = queue[i] /\ unacked'[i] = unacked[i]
  BY DEF TransportInv, TypeOK
<1>3. call[j] # "idle" BY DEF TransportInv, Queued
<1>4. TypeOK'
  <2>1. unacked \in [Job -> 0..AckWait] /\ 0 \in 0..AckWait
    BY Timers DEF TransportInv, TypeOK
  <2>2. unacked' \in [Job -> 0..AckWait] BY <2>1
  <2> QED BY <1>1, <2>2 DEF TransportInv, TypeOK
<1>5. \A i \in Job : Queued(i)'
  BY <1>1, <1>2, <1>3 DEF TransportInv, Queued
<1>6. \A i \in Job : Attended(i)' BY <1>1 DEF TransportInv, Attended, Usual
<1>7. \A i \in Job, r \in Delivery : Current(i, r)'
  BY <1>1, <1>2 DEF TransportInv, Current, Usual
<1>8. AnsweredIsOver' BY <1>1, <1>2 DEF TransportInv, AnsweredIsOver
<1>9. FailureMeansCrash' BY <1>1 DEF TransportInv, FailureMeansCrash, Usual
<1> QED BY <1>1, <1>4, <1>5, <1>6, <1>7, <1>8, <1>9 DEF TransportInv

(* The other steps of the stream keep the invariant. *)
LEMMA StreamStepKeeps ==
  ASSUME TransportInv, NEW j \in Job, StreamStep(j) \/ DeliveryLost(j) \/ Expire(j)
  PROVE  TransportInv'
<1>1. lost \subseteq Job \X Losable /\ deliveries \in [Job -> 0..MaxDeliver]
  BY DEF TransportInv, TypeOK
<1>2. CASE AckWaitOver(j)
  <2> DEFINE st == IF MayRedeliver(j) THEN "ready" ELSE "given_up"
  <2>1. /\ queue[j] = "pending" /\ unacked[j] = AckWait
        /\ queue' = [queue EXCEPT ![j] = st] /\ unacked' = [unacked EXCEPT ![j] = 0]
        /\ UNCHANGED <<callVars, deliveries, kioVars, lost, crashes>>
    BY <1>2 DEF AckWaitOver, NothingLost
  <2>2. \A r \in Delivery : Usual(j) => run[j][r] \notin {"running", "finished"}
    BY <2>1, Timers DEF TransportInv, Current
  <2>3. st \in {"ready", "pending", "given_up", "gone"} /\ (st = "ready" => deliveries[j] < MaxDeliver)
    BY DEF MayRedeliver
  <2> HIDE DEF st
  <2> QED BY <1>1, <2>1, <2>2, <2>3, QueueOnly
<1>3. ASSUME queue[j] = "ready"
      PROVE  \A r \in Delivery : Usual(j) => run[j][r] \notin {"running", "finished"}
  BY <1>3 DEF TransportInv, Current
<1>4. CASE DeliveryLost(j)
  <2>1. /\ queue[j] = "ready" /\ Lose(j, "delivery")
        /\ queue' = [queue EXCEPT ![j] = "pending"]
        /\ deliveries' = [deliveries EXCEPT ![j] = @ + 1]
        /\ unacked' = [unacked EXCEPT ![j] = 0]
        /\ UNCHANGED <<callVars, kioVars, crashes>>
    BY <1>4 DEF DeliveryLost
  <2>2. deliveries[j] < MaxDeliver BY <2>1 DEF TransportInv, Queued
  <2>3. /\ deliveries' \in [Job -> 0..MaxDeliver]
        /\ \A i \in Job \ {j} : deliveries'[i] = deliveries[i]
    BY <1>1, <2>1, <2>2, Timers
  <2>4. lost' \subseteq Job \X Losable /\ lost \subseteq lost'
    BY <2>1, Losses DEF TransportInv
  <2> QED BY <1>3, <2>1, <2>3, <2>4, QueueOnly
<1>5. CASE Expire(j)
  <2>1. /\ queue[j] \in {"ready", "pending", "given_up"} /\ Lose(j, "expired")
        /\ queue' = [queue EXCEPT ![j] = "gone"]
        /\ UNCHANGED <<callVars, deliveries, unacked, kioVars, crashes>>
    BY <1>5 DEF Expire
  <2>2. lost' \subseteq Job \X Losable /\ lost \subseteq lost'
    BY <2>1, Losses DEF TransportInv
  <2> QED BY <1>1, <2>1, <2>2, QueueOnly
<1> QED BY <1>2, <1>4, <1>5, DeliverStep DEF StreamStep
-----------------------------------------------------------------------------
(* What the KIO shell does *)

(* A handler run ends or passes one of the steps after it, and may answer  *)
(* its caller.                                                             *)
LEMMA RunOnly ==
  ASSUME TransportInv, NEW j \in Job, NEW r \in Run, NEW st \in {"finished", "acked", "over"},
         run[j][r] # "none", RunTo(j, r, st),
         UNCHANGED callVars \/ CallTo(j, "returned"),
         r = Http => call'[j] # "posted",
         st = "finished" => run[j][r] = "running",
         r \in Delivery /\ st # "finished" => <<j, "ack">> \in lost' \/ queue[j] = "gone",
         lost' \subseteq Job \X Losable, lost \subseteq lost',
         UNCHANGED <<streamVars, crashes>>
  PROVE  TransportInv'
<1>1. UNCHANGED <<queue, deliveries, unacked, crashes>> BY DEF streamVars
<1>2. /\ run' \in [Job -> [Run -> Stage]] /\ age' \in [Job -> [Run -> Nat]]
      /\ run'[j][r] = st /\ age'[j][r] = 0 /\ up' = up
      /\ \A i \in Job, q \in Run :
           i # j \/ q # r => run'[i][q] = run[i][q] /\ age'[i][q] = age[i][q]
  <2>1. st \in Stage BY DEF Stage
  <2> QED BY <2>1, RunMoves DEF TransportInv
<1>3. call[j] # "idle" BY DEF TransportInv, Queued
<1>4. /\ call' \in [Job -> CallStage] /\ waited' \in [Job -> Nat] /\ allowed' = allowed
      /\ call'[j] \in {call[j], "returned"}
      /\ call'[j] = "posted" => waited'[j] = waited[j]
      /\ \A i \in Job \ {j} : call'[i] = call[i] /\ waited'[i] = waited[i]
      /\ \A i \in Job : waited'[i] <= IF call'[i] = "waiting" THEN RequestTimeout
                                                              ELSE ClientTimeout
  <2>1. CASE UNCHANGED callVars
    BY <2>1 DEF callVars, TransportInv, TypeOK, CallStage
  <2>2. CASE CallTo(j, "returned")
    <3>1. "returned" \in CallStage BY DEF CallStage
    <3> QED BY <2>2, <3>1, CallMoves DEF TransportInv
  <2> QED BY <2>1, <2>2
<1>5. TypeOK'
  <2>1. \A i \in Job, q \in Run : run'[i][q] = "running" => age'[i][q] <= allowed'[i]
    BY <1>2, <1>4 DEF TransportInv, TypeOK
  <2> QED BY <1>1, <1>2, <1>4, <2>1 DEF TransportInv, TypeOK, Stage, CallStage
<1>6. \A i \in Job : Queued(i)'
  <2>1. Queued(j)' BY <1>1, <1>3, <1>4 DEF TransportInv, Queued
  <2>2. ASSUME NEW i \in Job \ {j} PROVE Queued(i)'
    <3>1. \A q \in Run : run'[i][q] = run[i][q] BY <1>2
    <3> QED BY <1>1, <1>4, <3>1 DEF TransportInv, Queued
  <2> QED BY <2>1, <2>2
<1>7. \A i \in Job : Attended(i)'
  <2>1. CASE r = Http BY <1>2, <1>4, <2>1, Runs DEF TransportInv, Attended, Usual
  <2>2. CASE r # Http
    <3>1. \A i \in Job : run'[i][Http] = run[i][Http] /\ age'[i][Http] = age[i][Http]
      BY <1>2, <2>2, Runs
    <3> QED BY <1>4, <3>1 DEF TransportInv, Attended, Usual
  <2> QED BY <2>1, <2>2
<1>8. ASSUME NEW i \in Job, NEW q \in Delivery PROVE Current(i, q)'
  <2>1. CASE i = j /\ q = r BY <1>1, <1>2, <1>4, <2>1 DEF TransportInv, Current, Usual
  <2>2. CASE i # j \/ q # r
    <3>1. run'[i][q] = run[i][q] /\ age'[i][q] = age[i][q] BY <1>2, <2>2, Runs
    <3> QED BY <1>1, <1>4, <3>1 DEF TransportInv, Current, Usual
  <2> QED BY <2>1, <2>2
<1>9. AnsweredIsOver'
  <2>1. ASSUME NEW i \in Job, NEW q \in Delivery,
               run'[i][q] \in {"acked", "over"}, <<i, "ack">> \notin lost'
        PROVE  queue'[i] = "gone"
    <3>1. CASE i = j /\ q = r BY <1>1, <1>2, <2>1, <3>1
    <3>2. CASE i # j \/ q # r
      <4>1. run'[i][q] = run[i][q] BY <1>2, <3>2, Runs
      <4> QED BY <1>1, <2>1, <4>1 DEF TransportInv, AnsweredIsOver
    <3> QED BY <3>1, <3>2
  <2> QED BY <2>1 DEF AnsweredIsOver
<1>10. FailureMeansCrash' BY <1>1, <1>4 DEF TransportInv, FailureMeansCrash, Usual
<1> QED BY <1>1, <1>2, <1>5, <1>6, <1>7, <1>8, <1>9, <1>10 DEF TransportInv

(* An acknowledgement that arrives removes the message for good.           *)
LEMMA AckStep ==
  ASSUME TransportInv, NEW j \in Job, NEW r \in Delivery, Ack(j, r) PROVE TransportInv'
<1>1. /\ run[j][r] = "finished" /\ RunTo(j, r, "acked")
      /\ queue' = [queue EXCEPT ![j] = "gone"] /\ unacked' = [unacked EXCEPT ![j] = 0]
      /\ UNCHANGED <<call, waited, allowed, deliveries, lost, crashes>>
  BY DEF Ack, callVars, NothingLost
<1>2. /\ run' \in [Job -> [Run -> Stage]] /\ age' \in [Job -> [Run -> Nat]]
      /\ run'[j][r] = "acked" /\ age'[j][r] = 0 /\ up' = up
      /\ \A i \in Job, q \in Run :
           i # j \/ q # r => run'[i][q] = run[i][q] /\ age'[i][q] = age[i][q]
  <2>1. "acked" \in Stage BY DEF Stage
  <2> QED BY <1>1, <2>1, Runs, RunMoves DEF TransportInv
<1>3. /\ queue'[j] = "gone"
      /\ \A i \in Job \ {j} : queue'[i] = queue[i] /\ unacked'[i] = unacked[i]
  BY <1>1 DEF TransportInv, TypeOK
<1>4. call[j] # "idle" BY <1>1, Runs DEF TransportInv, Queued
<1>5. TypeOK'
  <2>1. \A i \in Job, q \in Run : run'[i][q] = "running" => age'[i][q] <= allowed'[i]
    BY <1>1, <1>2 DEF TransportInv, TypeOK
  <2>2. unacked' \in [Job -> 0..AckWait]
    <3>1. unacked \in [Job -> 0..AckWait] /\ 0 \in 0..AckWait
      BY Timers DEF TransportInv, TypeOK
    <3> QED BY <1>1, <3>1
  <2> QED BY <1>1, <1>2, <2>1, <2>2 DEF TransportInv, TypeOK, Stage
<1>6. \A i \in Job : Queued(i)'
  <2>1. Queued(j)' BY <1>1, <1>3, <1>4 DEF TransportInv, Queued
  <2>2. ASSUME NEW i \in Job \ {j} PROVE Queued(i)'
    <3>1. \A q \in Run : run'[i][q] = run[i][q] BY <1>2
    <3> QED BY <1>1, <1>3, <3>1 DEF TransportInv, Queued
  <2> QED BY <2>1, <2>2
<1>7. \A i \in Job : Attended(i)'
  <2>1. \A i \in Job : run'[i][Http] = run[i][Http] /\ age'[i][Http] = age[i][Http]
    BY <1>2, Runs
  <2> QED BY <1>1, <2>1 DEF TransportInv, Attended, Usual
<1>8. ASSUME NEW i \in Job, NEW q \in Delivery PROVE Current(i, q)'
  <2>1. CASE i # j
    <3>1. run'[i][q] = run[i][q] /\ age'[i][q] = age[i][q] BY <1>2, <2>1, Runs
    <3> QED BY <1>1, <1>3, <2>1, <3>1 DEF TransportInv, Current, Usual
  <2>2. CASE i = j /\ q = r BY <1>2, <2>2 DEF Current
  <2>3. CASE i = j /\ q # r
    <3>1. run'[j][q] = run[j][q] BY <1>2, <2>3, Runs
    <3>2. Usual(j) => run[j][q] \notin {"running", "finished"}
      BY <1>1, <2>3 DEF TransportInv, Current
    <3> QED BY <1>1, <2>3, <3>1, <3>2 DEF Current, Usual
  <2> QED BY <2>1, <2>2, <2>3
<1>9. AnsweredIsOver'
  <2>1. ASSUME NEW i \in Job \ {j}, NEW q \in Delivery PROVE run'[i][q] = run[i][q]
    BY <1>2, Runs
  <2> QED BY <1>1, <1>3, <2>1 DEF TransportInv, AnsweredIsOver
<1>10. FailureMeansCrash' BY <1>1 DEF TransportInv, FailureMeansCrash, Usual
<1> QED BY <1>1, <1>2, <1>5, <1>6, <1>7, <1>8, <1>9, <1>10 DEF TransportInv

(* The steps of the shell keep the invariant. *)
LEMMA ShellStepKeeps ==
  ASSUME TransportInv, NEW j \in Job, NEW r \in Run,
         ShellStep(j, r) \/ (r \in Delivery /\ (AckLost(j, r) \/ ReplyLost(j, r)))
  PROVE  TransportInv'
<1>1. lost \subseteq Job \X Losable BY DEF TransportInv, TypeOK
<1>2. CASE HandlerEnds(j, r) /\ r = Http
  <2>1. /\ run[j][r] = "running" /\ RunTo(j, r, "over") /\ Answer(j, "posted")
        /\ UNCHANGED <<streamVars, crashes>> /\ lost' = lost
    BY <1>2 DEF HandlerEnds, NothingLost
  <2>2. /\ UNCHANGED callVars \/ CallTo(j, "returned")
        /\ call'[j] # "posted"
    <3>1. CASE call[j] = "posted"
      <4>1. CallTo(j, "returned") /\ "returned" \in CallStage
        BY <2>1, <3>1 DEF Answer, CallStage
      <4> QED BY <4>1, CallMoves DEF TransportInv
    <3>2. CASE call[j] # "posted" BY <2>1, <3>2 DEF Answer, callVars
    <3> QED BY <3>1, <3>2
  <2>3. run[j][r] # "none" /\ r \notin Delivery BY <1>2, <2>1, Runs
  <2> QED BY <1>1, <2>1, <2>2, <2>3, RunOnly
<1>3. CASE HandlerEnds(j, r) /\ r # Http
  <2>1. /\ run[j][r] = "running" /\ RunTo(j, r, "finished") /\ UNCHANGED callVars
        /\ UNCHANGED <<streamVars, crashes>> /\ lost' = lost
    BY <1>3 DEF HandlerEnds, NothingLost
  <2>2. run[j][r] # "none" BY <2>1
  <2> QED BY <1>1, <1>3, <2>1, <2>2, RunOnly
<1>4. CASE r \in Delivery /\ Ack(j, r) BY <1>4, AckStep
<1>5. CASE r \in Delivery /\ AckLost(j, r)
  <2>1. /\ run[j][r] # "none" /\ RunTo(j, r, "acked") /\ Lose(j, "ack")
        /\ UNCHANGED <<callVars, streamVars, crashes>>
    BY <1>5 DEF AckLost
  <2>2. lost' \subseteq Job \X Losable /\ lost \subseteq lost' /\ <<j, "ack">> \in lost'
    BY <2>1, Losses DEF TransportInv
  <2>3. r # Http BY <1>5, Runs
  <2> QED BY <2>1, <2>2, <2>3, RunOnly
<1>6. ASSUME r \in Delivery, run[j][r] = "acked"
      PROVE  <<j, "ack">> \in lost \/ queue[j] = "gone"
  BY <1>6 DEF TransportInv, AnsweredIsOver
<1>7. CASE r \in Delivery /\ Reply(j, r)
  <2>1. /\ run[j][r] = "acked" /\ RunTo(j, r, "over") /\ Answer(j, "waiting")
        /\ UNCHANGED <<streamVars, crashes>> /\ lost' = lost
    BY <1>7 DEF Reply, NothingLost
  <2>2. UNCHANGED callVars \/ CallTo(j, "returned") BY <2>1 DEF Answer
  <2>3. r # Http /\ run[j][r] # "none" BY <1>7, <2>1, Runs
  <2> QED BY <1>1, <1>6, <1>7, <2>1, <2>2, <2>3, RunOnly
<1>8. CASE r \in Delivery /\ ReplyLost(j, r)
  <2>1. /\ run[j][r] = "acked" /\ RunTo(j, r, "over") /\ Lose(j, "reply")
        /\ UNCHANGED <<callVars, streamVars, crashes>>
    BY <1>8 DEF ReplyLost
  <2>2. lost' \subseteq Job \X Losable /\ lost \subseteq lost'
    BY <2>1, Losses DEF TransportInv
  <2>3. r # Http /\ run[j][r] # "none" BY <1>8, <2>1, Runs
  <2> QED BY <1>6, <1>8, <2>1, <2>2, <2>3, RunOnly
<1> QED BY <1>2, <1>3, <1>4, <1>5, <1>7, <1>8 DEF ShellStep

-----------------------------------------------------------------------------
(* Crashes, restarts and time *)

(* A crash leaves no run that is current, and answers whoever attends one. *)
LEMMA CrashStep == ASSUME TransportInv, Crash PROVE TransportInv'
<1>1. /\ crashes < MaxCrashes /\ crashes' = crashes + 1 /\ up' = FALSE
      /\ UNCHANGED <<allowed, queue, deliveries, unacked, lost>>
      /\ age' = [j \in Job |-> [r \in Run |-> 0]]
  BY DEF Crash, streamVars
<1>2. crashes \in 0..MaxCrashes /\ crashes' \in 0..MaxCrashes /\ crashes' > 0
  BY <1>1, Timers DEF TransportInv, TypeOK
<1>3. /\ run' \in [Job -> [Run -> Stage]]
      /\ \A j \in Job, r \in Run :
           run'[j][r] = IF run[j][r] \in {"running", "finished", "acked"} THEN "dead"
                        ELSE run[j][r]
  BY DEF Crash, TransportInv, TypeOK, Stage
<1>4. /\ call' \in [Job -> CallStage] /\ waited' \in [Job -> Nat]
      /\ \A j \in Job :
           /\ call'[j] = IF call[j] = "posted" THEN "raised" ELSE call[j]
           /\ waited'[j] = IF call[j] = "posted" THEN 0 ELSE waited[j]
  BY DEF Crash, TransportInv, TypeOK, CallStage
<1>5. TypeOK'
  <2>1. ASSUME NEW j \in Job
        PROVE  waited'[j] <= IF call'[j] = "waiting" THEN RequestTimeout ELSE ClientTimeout
    <3>1. waited[j] <= IF call[j] = "waiting" THEN RequestTimeout ELSE ClientTimeout
      BY DEF TransportInv, TypeOK
    <3>2. CASE call[j] = "posted" BY <1>4, <3>2, Timers
    <3>3. CASE call[j] # "posted" BY <1>4, <3>1, <3>3
    <3> QED BY <3>2, <3>3
  <2>2. age' \in [Job -> [Run -> Nat]] BY <1>1
  <2>3. \A j \in Job, r \in Run : run'[j][r] # "running" BY <1>3
  <2> QED BY <1>1, <1>2, <1>3, <1>4, <2>1, <2>2, <2>3 DEF TransportInv, TypeOK, Stage, CallStage
<1>6. \A j \in Job : Queued(j)'
  <2>1. ASSUME NEW j \in Job, call'[j] = "idle"
        PROVE  /\ queue'[j] = "absent" /\ waited'[j] = 0
               /\ \A r \in Run : run'[j][r] = "none"
    <3>1. call[j] = "idle" BY <1>4, <2>1
    <3>2. queue[j] = "absent" /\ waited[j] = 0 /\ \A r \in Run : run[j][r] = "none"
      BY <3>1 DEF TransportInv, Queued
    <3> QED BY <1>1, <1>3, <1>4, <3>1, <3>2
  <2>2. ASSUME NEW j \in Job
        PROVE  /\ queue'[j] = "absent" => deliveries'[j] = 0
               /\ queue'[j] = "ready" => deliveries'[j] < MaxDeliver
    BY <1>1 DEF TransportInv, Queued
  <2> QED BY <2>1, <2>2 DEF Queued
<1>7. \A j \in Job : Attended(j)' BY <1>4 DEF Attended
<1>8. \A j \in Job, r \in Delivery : Current(j, r)' BY <1>3, Runs DEF Current
<1>9. AnsweredIsOver' BY <1>1, <1>3, Runs DEF TransportInv, AnsweredIsOver
<1>10. FailureMeansCrash' BY <1>2 DEF FailureMeansCrash
<1> QED BY <1>2, <1>5, <1>6, <1>7, <1>8, <1>9, <1>10 DEF TransportInv

(* Time passes only until the first timer is due. *)
LEMMA TickStep == ASSUME TransportInv, Tick PROVE TransportInv'
<1>1. /\ UNCHANGED <<call, allowed, queue, deliveries, run, up, lost, crashes>>
      /\ \A j \in Job : ~Due(j)
  BY DEF Tick
<1>2. /\ waited' \in [Job -> Nat] /\ age' \in [Job -> [Run -> Nat]]
      /\ unacked \in [Job -> 0..AckWait]
      /\ \A j \in Job :
           /\ waited'[j] = IF call[j] \in {"waiting", "posted"} THEN waited[j] + 1 ELSE waited[j]
           /\ unacked'[j] = IF queue[j] = "pending" THEN unacked[j] + 1 ELSE unacked[j]
           /\ \A r \in Run :
                age'[j][r] = IF run[j][r] = "running" THEN age[j][r] + 1 ELSE age[j][r]
  BY DEF Tick, Elapse, TransportInv, TypeOK
<1>3. \A j \in Job : waited'[j] <= IF call'[j] = "waiting" THEN RequestTimeout ELSE ClientTimeout
  <2>1. ASSUME NEW j \in Job
        PROVE  waited'[j] <= IF call[j] = "waiting" THEN RequestTimeout ELSE ClientTimeout
    <3>1. /\ waited[j] \in Nat
          /\ waited[j] <= IF call[j] = "waiting" THEN RequestTimeout ELSE ClientTimeout
      BY DEF TransportInv, TypeOK
    <3>2. CASE call[j] = "waiting"
      <4>1. waited[j] # RequestTimeout BY <1>1, <3>2 DEF Due
      <4>2. waited'[j] = waited[j] + 1 BY <1>2, <3>2
      <4> QED BY <3>1, <3>2, <4>1, <4>2, Timers
    <3>3. CASE call[j] = "posted"
      <4>1. waited[j] # ClientTimeout BY <1>1, <3>3 DEF Due
      <4>2. waited'[j] = waited[j] + 1 BY <1>2, <3>3
      <4> QED BY <3>1, <3>3, <4>1, <4>2, Timers
    <3>4. CASE call[j] \notin {"waiting", "posted"} BY <1>2, <3>1, <3>4
    <3> QED BY <3>2, <3>3, <3>4
  <2> QED BY <1>1, <2>1
<1>4. unacked' \in [Job -> 0..AckWait]
  <2>1. ASSUME NEW j \in Job PROVE unacked'[j] \in 0..AckWait
    <3>1. unacked[j] \in 0..AckWait BY <1>2
    <3>2. CASE queue[j] = "pending"
      <4>1. unacked[j] # AckWait BY <1>1, <3>2 DEF Due
      <4>2. unacked'[j] = unacked[j] + 1 BY <1>2, <3>2
      <4> QED BY <3>1, <4>1, <4>2, Timers
    <3>3. CASE queue[j] # "pending" BY <1>2, <3>1, <3>3
    <3> QED BY <3>2, <3>3
  <2>2. unacked' = [j \in Job |-> unacked'[j]] BY DEF Tick
  <2> QED BY <2>1, <2>2
<1>5. ASSUME NEW j \in Job, NEW r \in Run, run[j][r] = "running" PROVE age'[j][r] <= allowed[j]
  <2>1. age[j][r] \in Nat /\ allowed[j] \in Nat /\ age[j][r] <= allowed[j]
    BY <1>5, Timers, TransportConstants DEF TransportInv, TypeOK
  <2>2. age[j][r] # allowed[j] BY <1>1, <1>5 DEF Due
  <2>3. age'[j][r] = age[j][r] + 1 BY <1>2, <1>5
  <2> QED BY <2>1, <2>2, <2>3
<1>6. TypeOK' BY <1>1, <1>2, <1>3, <1>4, <1>5 DEF TransportInv, TypeOK
<1>7. \A j \in Job : Queued(j)' BY <1>1, <1>2 DEF TransportInv, Queued
<1>8. \A j \in Job : Attended(j)'
  BY <1>1, <1>2, Runs DEF TransportInv, Attended, Usual
<1>9. ASSUME NEW j \in Job, NEW r \in Delivery, run[j][r] \in {"running", "finished"}, Usual(j),
             queue[j] # "gone"
      PROVE  /\ unacked'[j] <= HandlerTimeout /\ queue[j] = "pending"
             /\ age'[j][r] = unacked'[j]
  <2>1. run[j][r] = "running" BY <1>1, <1>9, Runs DEF Due
  <2>2. queue[j] = "pending" /\ age[j][r] = unacked[j] BY <1>9, <2>1 DEF TransportInv, Current
  <2>3. age'[j][r] = unacked'[j] BY <1>2, <2>1, <2>2, Runs
  <2>4. /\ age'[j][r] <= allowed[j] /\ age'[j][r] \in Nat
        /\ allowed[j] \in Nat /\ allowed[j] <= HandlerTimeout
    BY <1>2, <1>5, <1>9, <2>1, Runs, Timers, TransportConstants
    DEF TransportInv, TypeOK, Usual
  <2> QED BY <2>2, <2>3, <2>4, Timers
<1>10. \A j \in Job, r \in Delivery : Current(j, r)'
  BY <1>1, <1>9 DEF TransportInv, Current, Usual
<1>11. AnsweredIsOver' BY <1>1 DEF TransportInv, AnsweredIsOver
<1>12. FailureMeansCrash' BY <1>1 DEF TransportInv, FailureMeansCrash, Usual
<1> QED BY <1>1, <1>6, <1>7, <1>8, <1>10, <1>11, <1>12 DEF TransportInv

(* A restart, and steps that change nothing. *)
LEMMA QuietStep == ASSUME TransportInv, Restart \/ UNCHANGED vars PROVE TransportInv'
<1>1. /\ UNCHANGED <<call, waited, allowed, queue, deliveries, unacked, run, age, lost, crashes>>
      /\ up' = TRUE \/ up' = up
  BY DEF Restart, vars, callVars, streamVars, kioVars
<1>2. TypeOK' BY <1>1 DEF TransportInv, TypeOK
<1>3. \A j \in Job : Queued(j)' /\ Attended(j)'
  BY <1>1 DEF TransportInv, Queued, Attended, Usual
<1>4. \A j \in Job, r \in Delivery : Current(j, r)' BY <1>1 DEF TransportInv, Current, Usual
<1>5. AnsweredIsOver' /\ FailureMeansCrash'
  BY <1>1 DEF TransportInv, AnsweredIsOver, FailureMeansCrash, Usual
<1>6. (~up => crashes > 0)' BY <1>1 DEF TransportInv
<1> QED BY <1>2, <1>3, <1>4, <1>5, <1>6 DEF TransportInv

-----------------------------------------------------------------------------
(* The inductive invariant of the transport: what a running handler, a     *)
(* waiting caller and the message in the stream know of each other.        *)
THEOREM TransportInvariant == Spec => []TransportInv
<1>1. ASSUME Init PROVE TransportInv
  <2>1. TypeOK BY <1>1, Timers DEF Init, TypeOK
  <2> QED BY <1>1, <2>1, Timers, Runs DEF Init, TransportInv, Queued, Attended, Current,
                                          AnsweredIsOver, FailureMeansCrash
<1>2. ASSUME TransportInv, [Next]_vars PROVE TransportInv'
  <2>1. CASE \E j \in Job : Request(j) \/ RequestFails(j) \/ CallStep(j)
    BY <1>2, <2>1, CallerStep
  <2>2. CASE \E j \in Job : StreamStep(j) \/ DeliveryLost(j) \/ Expire(j)
    BY <1>2, <2>2, StreamStepKeeps
  <2>3. CASE \E j \in Job, r \in Run :
               ShellStep(j, r) \/ (r \in Delivery /\ (AckLost(j, r) \/ ReplyLost(j, r)))
    BY <1>2, <2>3, ShellStepKeeps
  <2>4. CASE Crash BY <1>2, <2>4, CrashStep
  <2>5. CASE Tick BY <1>2, <2>5, TickStep
  <2>6. CASE Restart \/ UNCHANGED vars BY <1>2, <2>6, QuietStep
  <2>7. ASSUME NEW j \in Job, Loss(j)
        PROVE  \/ RequestFails(j) \/ DeliveryLost(j) \/ Expire(j)
               \/ \E r \in Run : r \in Delivery /\ (AckLost(j, r) \/ ReplyLost(j, r))
    BY <2>7, Runs DEF Loss
  <2> QED BY <1>2, <2>1, <2>2, <2>3, <2>4, <2>5, <2>6, <2>7 DEF Next
<1> QED BY <1>1, <1>2, PTL DEF Spec

(* Type correctness of the transport: no timer runs past its bound and no  *)
(* message is delivered more often than max_deliver.                       *)
THEOREM TransportTyped == Spec => []TypeOK
<1>1. TransportInv => TypeOK BY DEF TransportInv
<1> QED BY <1>1, TransportInvariant, PTL

(* Two deliveries of one job never run at the same time, for any timeouts  *)
(* that leave a headroom.                                                  *)
THEOREM OneDeliveryRunsAlways == Spec => []OneDeliveryRuns
<1>1. TransportInv => OneDeliveryRuns BY DEF TransportInv, Current, OneDeliveryRuns
<1> QED BY <1>1, TransportInvariant, PTL

(* A failed reply never makes the stream run a job again.                  *)
THEOREM AnsweredIsOverAlways == Spec => []AnsweredIsOver
<1>1. TransportInv => AnsweredIsOver BY DEF TransportInv
<1> QED BY <1>1, TransportInvariant, PTL

(* execute() raises for no other reason than a crash of the KIO.           *)
THEOREM FailureMeansCrashAlways == Spec => []FailureMeansCrash
<1>1. TransportInv => FailureMeansCrash BY DEF TransportInv
<1> QED BY <1>1, TransportInvariant, PTL

-----------------------------------------------------------------------------
(* The transport read without its timers *)

(* The runs behind a call: HTTP runs a job while its caller attends it, and no    *)
(* delivery has run that was not made.                                     *)
RunsBehind(j) ==
  /\ call[j] \in {"idle", "waiting", "falling_back"} => run[j][Http] = "none"
  /\ call[j] = "posted" => run[j][Http] = "running"
  /\ \A r \in Delivery : r > deliveries[j] => run[j][r] = "none"

Offered(j) == queue[j] \in {"ready", "pending"}
Doubtful(j) == <<j, "ack">> \in lost

(* What a step leaves alone of what the promise speaks of *)
SameOutcome == \A j \in Job : OutcomeOf(j)' = OutcomeOf(j)
SameLimits == \A j \in Job : Usual(j)' = Usual(j)
SameOffers == \A j \in Job : Offered(j)' = Offered(j)
SameDoubts == \A j \in Job : Doubtful(j)' = Doubtful(j)
SameWork == \A j \in Job, r \in Run : WorkOf(j, r)' = WorkOf(j, r)

LEMMA OutcomeStays ==
  ASSUME SameOutcome PROVE [i \in Job |-> OutcomeOf(i)]' = [i \in Job |-> OutcomeOf(i)]
  BY DEF SameOutcome
LEMMA LimitsStay ==
  ASSUME SameLimits PROVE [i \in Job |-> Usual(i)]' = [i \in Job |-> Usual(i)]
  BY DEF SameLimits
LEMMA OffersStay ==
  ASSUME SameOffers
  PROVE  [i \in Job |-> queue[i] \in {"ready", "pending"}]' = [i \in Job |-> queue[i] \in {"ready", "pending"}]
  BY DEF SameOffers, Offered
LEMMA DoubtsStay ==
  ASSUME SameDoubts PROVE [i \in Job |-> <<i, "ack">> \in lost]' = [i \in Job |-> <<i, "ack">> \in lost]
  BY DEF SameDoubts, Doubtful
LEMMA WorkStays ==
  ASSUME SameWork
  PROVE  [i \in Job |-> [q \in Run |-> WorkOf(i, q)]]' = [i \in Job |-> [q \in Run |-> WorkOf(i, q)]]
<1>1. \A i \in Job : [q \in Run |-> WorkOf(i, q)]' = [q \in Run |-> WorkOf(i, q)]
  BY DEF SameWork
<1> QED BY <1>1

LEMMA OutcomeTurns ==
  ASSUME NEW j \in Job, NEW c, OutcomeOf(j)' = c,
         \A i \in Job \ {j} : OutcomeOf(i)' = OutcomeOf(i)
  PROVE  [i \in Job |-> OutcomeOf(i)]' = [[i \in Job |-> OutcomeOf(i)] EXCEPT ![j] = c]
  OBVIOUS
LEMMA OffersTurn ==
  ASSUME NEW j \in Job, \A i \in Job \ {j} : Offered(i)' = Offered(i)
  PROVE  [i \in Job |-> queue[i] \in {"ready", "pending"}]'
           = [[i \in Job |-> queue[i] \in {"ready", "pending"}] EXCEPT ![j] = Offered(j)']
  BY DEF Offered
LEMMA WorkTurns ==
  ASSUME NEW j \in Job, NEW r \in Run, NEW w, WorkOf(j, r)' = w,
         \A i \in Job, q \in Run : i # j \/ q # r => WorkOf(i, q)' = WorkOf(i, q)
  PROVE  [i \in Job |-> [q \in Run |-> WorkOf(i, q)]]'
           = [[i \in Job |-> [q \in Run |-> WorkOf(i, q)]] EXCEPT ![j][r] = w]
<1>1. \A i \in Job \ {j} : [q \in Run |-> WorkOf(i, q)]' = [q \in Run |-> WorkOf(i, q)]
  OBVIOUS
<1>2. [q \in Run |-> WorkOf(j, q)]' = [[q \in Run |-> WorkOf(j, q)] EXCEPT ![r] = w]
  OBVIOUS
<1> QED BY <1>1, <1>2

(* Only a lost acknowledgement makes a job doubtful. *)
LEMMA OtherLosses ==
  ASSUME NEW j, NEW what, Lose(j, what), what # "ack" PROVE SameDoubts
  BY DEF Lose, SameDoubts, Doubtful

(* A step that only time, the stream or the KIO's container takes part in  *)
LEMMA StutterStep ==
  ASSUME \A i \in Job : RunsBehind(i), UNCHANGED <<call, allowed, run, crashes>>,
         TypeOK, \A i \in Job : deliveries'[i] \in {deliveries[i], deliveries[i] + 1},
         SameOffers, SameDoubts
  PROVE  (\A i \in Job : RunsBehind(i)') /\ UNCHANGED Promise!promiseVars
<1>1. ASSUME NEW i \in Job PROVE RunsBehind(i)'
  <2>1. deliveries[i] \in Nat BY Timers DEF TypeOK
  <2>2. ASSUME NEW r \in Delivery, r > deliveries'[i] PROVE run[i][r] = "none"
    <3>1. r \in Nat BY Timers DEF Delivery
    <3>2. r > deliveries[i] BY <2>1, <2>2, <3>1
    <3> QED BY <3>2 DEF RunsBehind
  <2> QED BY <2>2 DEF RunsBehind
<1>2. SameOutcome /\ SameLimits /\ SameWork
  BY DEF SameOutcome, SameLimits, SameWork, OutcomeOf, Usual, WorkOf
<1> QED BY <1>1, <1>2, OutcomeStays, LimitsStay, OffersStay, DoubtsStay, WorkStays
        DEF Promise!promiseVars

(* A call begins. *)
LEMMA BeginPromised ==
  ASSUME TransportInv, \A i \in Job : RunsBehind(i), NEW j \in Job, Request(j) \/ RequestFails(j)
  PROVE  (\A i \in Job : RunsBehind(i)') /\ Promise!Submit(j)
<1>1. /\ call[j] = "idle" /\ call'[j] \in {"waiting", "falling_back"}
      /\ \A i \in Job \ {j} : call'[i] = call[i] /\ allowed'[i] = allowed[i]
      /\ queue' \in {queue, [queue EXCEPT ![j] = "ready"]}
      /\ UNCHANGED <<deliveries, run, crashes>>
  BY DEF Request, RequestFails, Begin, NothingLost, kioVars, TransportInv, TypeOK
<1>2. SameDoubts
  BY OtherLosses DEF Request, RequestFails, NothingLost, SameDoubts, Doubtful
<1>3. \A i \in Job \ {j} : queue'[i] = queue[i] BY <1>1 DEF TransportInv, TypeOK
<1>4. \A i \in Job : RunsBehind(i)' BY <1>1 DEF RunsBehind
<1>5. SameWork BY <1>1 DEF SameWork, WorkOf
<1>6. /\ OutcomeOf(j) = "idle" /\ OutcomeOf(j)' = "open"
      /\ \A i \in Job \ {j} : OutcomeOf(i)' = OutcomeOf(i)
  BY <1>1 DEF OutcomeOf
<1>7. \E l \in BOOLEAN : [i \in Job |-> Usual(i)]' = [[i \in Job |-> Usual(i)] EXCEPT ![j] = l]
  <2>1. Usual(j)' \in BOOLEAN BY DEF Usual
  <2>2. \A i \in Job \ {j} : Usual(i)' = Usual(i) BY <1>1 DEF Usual
  <2>3. [i \in Job |-> Usual(i)]' = [[i \in Job |-> Usual(i)] EXCEPT ![j] = Usual(j)'] BY <2>2
  <2> QED BY <2>1, <2>3
<1>8. \E o \in BOOLEAN :
        [i \in Job |-> queue[i] \in {"ready", "pending"}]'
          = [[i \in Job |-> queue[i] \in {"ready", "pending"}] EXCEPT ![j] = o]
  <2>1. Offered(j)' \in BOOLEAN BY DEF Offered
  <2>2. \A i \in Job \ {j} : Offered(i)' = Offered(i) BY <1>3 DEF Offered
  <2> QED BY <2>1, <2>2, OffersTurn
<1>9. UNCHANGED (crashes > 0) BY <1>1
<1> QED BY <1>2, <1>4, <1>5, <1>6, <1>7, <1>8, <1>9, OutcomeTurns, DoubtsStay, WorkStays
        DEF Promise!Submit, Promise!Turns, Promise!Offer

(* A call moves on without touching the KIO. *)
LEMMA CallMovesOn ==
  ASSUME TransportInv, \A i \in Job : RunsBehind(i), NEW j \in Job,
         NEW c \in {"falling_back", "raised"}, call[j] \in {"waiting", "falling_back", "posted"},
         c = "falling_back" => call[j] # "posted", c = "raised" => (Usual(j) => crashes > 0),
         CallTo(j, c), UNCHANGED <<streamVars, kioVars, lost, crashes>>
  PROVE  /\ \A i \in Job : RunsBehind(i)'
         /\ Promise!Raise(j) \/ UNCHANGED Promise!promiseVars
<1>1. /\ call'[j] = c /\ allowed' = allowed
      /\ \A i \in Job \ {j} : call'[i] = call[i]
  <2>1. c \in CallStage BY DEF CallStage
  <2> QED BY <2>1, CallMoves DEF TransportInv
<1>2. UNCHANGED <<queue, deliveries, run, lost, crashes>> BY DEF streamVars, kioVars
<1>3. \A i \in Job : RunsBehind(i)' BY <1>1, <1>2 DEF RunsBehind
<1>4. SameLimits /\ SameOffers /\ SameDoubts /\ SameWork
  BY <1>1, <1>2 DEF SameLimits, SameOffers, SameDoubts, SameWork, Usual, Offered, Doubtful, WorkOf
<1>5. OutcomeOf(j) = "open" BY DEF OutcomeOf
<1>6. UNCHANGED (crashes > 0) BY <1>2
<1>7. CASE c = "raised"
  <2>1. OutcomeOf(j)' = "raised" /\ \A i \in Job \ {j} : OutcomeOf(i)' = OutcomeOf(i)
    BY <1>1, <1>7 DEF OutcomeOf
  <2>2. Promise!Turns(j, "open", "raised") BY <1>5, <2>1, OutcomeTurns DEF Promise!Turns
  <2>3. Promise!Raise(j)
    BY <1>4, <1>6, <1>7, <2>2, LimitsStay, OffersStay, DoubtsStay, WorkStays DEF Promise!Raise
  <2> QED BY <1>3, <2>3
<1>8. CASE c = "falling_back"
  <2>1. SameOutcome BY <1>1, <1>5, <1>8 DEF SameOutcome, OutcomeOf
  <2> QED BY <1>3, <1>4, <1>6, <2>1, OutcomeStays, LimitsStay, OffersStay, DoubtsStay, WorkStays
          DEF Promise!promiseVars
<1> QED BY <1>7, <1>8

(* A run moves from one stage to another, and nothing else happens to the KIO. *)
LEMMA RunMovesOn ==
  ASSUME TransportInv, NEW j \in Job, NEW r \in Run, NEW st \in Stage \ {"none"}, RunTo(j, r, st)
  PROVE  /\ run'[j][r] = st
         /\ \A i \in Job, q \in Run : i # j \/ q # r => run'[i][q] = run[i][q]
         /\ \A from, to : WorkOf(j, r) = from /\ WorkOf(j, r)' = to =>
              Promise!Works(j, r, from, to)
<1>1. /\ run'[j][r] = st
      /\ \A i \in Job, q \in Run : i # j \/ q # r => run'[i][q] = run[i][q]
  BY RunMoves DEF TransportInv
<1>2. \A i \in Job, q \in Run : i # j \/ q # r => WorkOf(i, q)' = WorkOf(i, q)
  BY <1>1 DEF WorkOf
<1> QED BY <1>1, <1>2, WorkTurns DEF Promise!Works

(* A POST starts the run of HTTP, or finds the KIO down. *)
LEMMA PostPromised ==
  ASSUME TransportInv, \A i \in Job : RunsBehind(i), NEW j \in Job, Post(j)
  PROVE  /\ \A i \in Job : RunsBehind(i)'
         /\ Promise!Post(j) \/ Promise!Raise(j) \/ UNCHANGED Promise!promiseVars
<1>1. CASE ~up
  <2>1. /\ CallTo(j, "raised") /\ crashes > 0 /\ call[j] = "falling_back"
        /\ UNCHANGED <<streamVars, kioVars, lost, crashes>>
    BY <1>1 DEF Post, NothingLost, TransportInv
  <2> QED BY <2>1, CallMovesOn
<1>2. CASE up
  <2>1. /\ call[j] = "falling_back" /\ CallTo(j, "posted") /\ RunTo(j, Http, "running")
        /\ UNCHANGED <<queue, deliveries, lost, crashes>>
    BY <1>2 DEF Post, NothingLost, streamVars
  <2>2. /\ call'[j] = "posted" /\ allowed' = allowed
        /\ \A i \in Job \ {j} : call'[i] = call[i]
    <3>1. "posted" \in CallStage BY DEF CallStage
    <3> QED BY <2>1, <3>1, CallMoves DEF TransportInv
  <2>3. /\ run'[j][Http] = "running"
        /\ \A i \in Job, q \in Run : i # j \/ q # Http => run'[i][q] = run[i][q]
        /\ \A from, to : WorkOf(j, Http) = from /\ WorkOf(j, Http)' = to =>
              Promise!Works(j, Http, from, to)
    <3>1. "running" \in Stage \ {"none"} /\ Http \in Run BY Runs DEF Stage
    <3> QED BY <2>1, <3>1, RunMovesOn
  <2>4. run[j][Http] = "none" BY <2>1 DEF RunsBehind
  <2>5. \A i \in Job : RunsBehind(i)' BY <2>1, <2>2, <2>3, Runs DEF RunsBehind
  <2>6. Promise!Works(j, Http, "none", "working") BY <2>3, <2>4 DEF WorkOf
  <2>7. SameOutcome /\ SameLimits /\ SameOffers /\ SameDoubts /\ OutcomeOf(j) = "open"
    BY <2>1, <2>2 DEF SameOutcome, SameLimits, SameOffers, SameDoubts, OutcomeOf, Usual,
                      Offered, Doubtful
  <2>8. UNCHANGED (crashes > 0) BY <2>1
  <2>9. Promise!Post(j)
    BY <2>6, <2>7, <2>8, OutcomeStays, LimitsStay, OffersStay, DoubtsStay DEF Promise!Post
  <2> QED BY <2>5, <2>9
<1> QED BY <1>1, <1>2

(* The stream has the job run only if no usual handler can be left.        *)
LEMMA DeliverPromised ==
  ASSUME TransportInv, \A i \in Job : RunsBehind(i), NEW j \in Job, Deliver(j)
  PROVE  /\ \A i \in Job : RunsBehind(i)'
         /\ \E r \in Delivery : Promise!Start(j, r)
<1>1. /\ queue[j] = "ready" /\ RunTo(j, deliveries[j] + 1, "running")
      /\ queue' = [queue EXCEPT ![j] = "pending"]
      /\ deliveries' = [deliveries EXCEPT ![j] = @ + 1]
      /\ UNCHANGED <<call, allowed, lost, crashes>>
  BY DEF Deliver, callVars, NothingLost
<1>2. deliveries[j] \in Nat /\ deliveries[j] < MaxDeliver
  BY <1>1, Timers DEF TransportInv, Queued, TypeOK
<1>3. PICK d \in Delivery : d = deliveries[j] + 1 /\ d \in Run /\ d # Http
  BY <1>2, Timers DEF Run, Delivery, Http
<1>4. /\ run'[j][d] = "running"
      /\ \A i \in Job, q \in Run : i # j \/ q # d => run'[i][q] = run[i][q]
      /\ \A from, to : WorkOf(j, d) = from /\ WorkOf(j, d)' = to => Promise!Works(j, d, from, to)
  <2>1. "running" \in Stage \ {"none"} BY DEF Stage
  <2> QED BY <1>1, <1>3, <2>1, RunMovesOn
<1>5. run[j][d] = "none" BY <1>2, <1>3 DEF RunsBehind
<1>6. Promise!Works(j, d, "none", "working") BY <1>4, <1>5 DEF WorkOf
<1>7. ASSUME NEW i \in Job PROVE RunsBehind(i)'
  <2>1. run'[i][Http] = run[i][Http] BY <1>3, <1>4, Runs
  <2>2. ASSUME NEW r \in Delivery, r > deliveries'[i] PROVE run'[i][r] = "none"
    <3>1. r \in Nat /\ r \in Run BY Timers, Runs DEF Delivery
    <3>2. deliveries[i] \in Nat /\ deliveries'[i] = IF i = j THEN deliveries[j] + 1 ELSE deliveries[i]
      BY <1>1, Timers DEF TransportInv, TypeOK
    <3>3. r > deliveries[i] /\ (i # j \/ r # d) BY <1>2, <1>3, <2>2, <3>1, <3>2
    <3> QED BY <1>4, <3>1, <3>3 DEF RunsBehind
  <2> QED BY <1>1, <2>1, <2>2 DEF RunsBehind
<1>8. Usual(j) => \A q \in Delivery : WorkOf(j, q) \notin {"working", "ended"}
  <2>1. ASSUME Usual(j), NEW q \in Delivery PROVE run[j][q] \notin {"running", "finished"}
    BY <1>1, <2>1 DEF TransportInv, Current
  <2>2. ASSUME Usual(j), NEW q \in Delivery PROVE run[j][q] \in Stage
    BY <2>2, Runs DEF TransportInv, TypeOK, Stage
  <2> QED BY <2>1, <2>2 DEF WorkOf, Stage
<1>9. SameOutcome /\ SameLimits /\ SameOffers /\ SameDoubts /\ Offered(j)
  BY <1>1 DEF SameOutcome, SameLimits, SameOffers, SameDoubts, OutcomeOf, Usual, Offered,
              Doubtful, TransportInv, TypeOK
<1>10. UNCHANGED (crashes > 0) BY <1>1
<1>11. \A q \in Delivery : [i \in Job |-> [p \in Run |-> WorkOf(i, p)]][j][q] = WorkOf(j, q)
  BY Runs
<1>12. Promise!Start(j, d)
  BY <1>6, <1>8, <1>9, <1>10, <1>11, OutcomeStays, LimitsStay, OffersStay, DoubtsStay
  DEF Promise!Start, Offered
<1> QED BY <1>3, <1>7, <1>12

(* The message leaves the stream. *)
LEMMA WithdrawPromised ==
  ASSUME TransportInv, \A i \in Job : RunsBehind(i), NEW j \in Job,
         queue' \in {[queue EXCEPT ![j] = "given_up"], [queue EXCEPT ![j] = "gone"]},
         UNCHANGED <<callVars, deliveries, run, crashes>>, SameDoubts
  PROVE  (\A i \in Job : RunsBehind(i)') /\ Promise!Withdraw(j)
<1>1. UNCHANGED <<call, allowed, deliveries, run, crashes>> BY DEF callVars
<1>2. Offered(j)' = FALSE /\ \A i \in Job \ {j} : Offered(i)' = Offered(i)
  BY DEF Offered, TransportInv, TypeOK
<1>3. \A i \in Job : RunsBehind(i)' BY <1>1 DEF RunsBehind
<1>4. SameOutcome /\ SameLimits /\ SameWork
  BY <1>1 DEF SameOutcome, SameLimits, SameWork, OutcomeOf, Usual, WorkOf
<1>5. UNCHANGED (crashes > 0) BY <1>1
<1> QED BY <1>2, <1>3, <1>4, <1>5, OutcomeStays, LimitsStay, DoubtsStay, WorkStays, OffersTurn
        DEF Promise!Withdraw, Promise!Offer

LEMMA StreamPromised ==
  ASSUME TransportInv, \A i \in Job : RunsBehind(i), NEW j \in Job,
         StreamStep(j) \/ DeliveryLost(j) \/ Expire(j)
  PROVE  /\ \A i \in Job : RunsBehind(i)'
         /\ \/ \E r \in Delivery : Promise!Start(j, r)
            \/ Promise!Withdraw(j) \/ UNCHANGED Promise!promiseVars
<1>1. TypeOK BY DEF TransportInv
<1>2. CASE AckWaitOver(j)
  <2>1. /\ queue[j] = "pending"
        /\ queue' = [queue EXCEPT ![j] = IF MayRedeliver(j) THEN "ready" ELSE "given_up"]
        /\ UNCHANGED <<callVars, deliveries, kioVars, lost, crashes>>
    BY <1>2 DEF AckWaitOver, NothingLost
  <2>2. SameDoubts BY <2>1 DEF SameDoubts, Doubtful
  <2>3. CASE MayRedeliver(j)
    <3>1. queue'[j] = "ready" /\ \A i \in Job \ {j} : queue'[i] = queue[i]
      BY <1>1, <2>1, <2>3 DEF TypeOK
    <3>2. SameOffers BY <2>1, <3>1 DEF SameOffers, Offered
    <3> QED BY <1>1, <2>1, <2>2, <3>2, StutterStep DEF callVars, kioVars
  <2>4. CASE ~MayRedeliver(j)
    <3>1. queue' = [queue EXCEPT ![j] = "given_up"] BY <2>1, <2>4
    <3> QED BY <2>1, <2>2, <3>1, WithdrawPromised DEF kioVars
  <2> QED BY <2>3, <2>4
<1>3. CASE DeliveryLost(j)
  <2>1. /\ queue[j] = "ready" /\ Lose(j, "delivery")
        /\ queue' = [queue EXCEPT ![j] = "pending"]
        /\ deliveries' = [deliveries EXCEPT ![j] = @ + 1]
        /\ UNCHANGED <<callVars, kioVars, crashes>>
    BY <1>3 DEF DeliveryLost
  <2>2. SameDoubts BY <2>1, OtherLosses
  <2>3. SameOffers BY <1>1, <2>1 DEF SameOffers, Offered, TypeOK
  <2>4. \A i \in Job : deliveries'[i] \in {deliveries[i], deliveries[i] + 1}
    BY <1>1, <2>1 DEF TypeOK
  <2> QED BY <1>1, <2>1, <2>2, <2>3, <2>4, StutterStep DEF callVars, kioVars
<1>4. CASE Expire(j)
  <2>1. /\ Lose(j, "expired") /\ queue' = [queue EXCEPT ![j] = "gone"]
        /\ UNCHANGED <<callVars, deliveries, kioVars, crashes>>
    BY <1>4 DEF Expire
  <2>2. SameDoubts BY <2>1, OtherLosses
  <2> QED BY <2>1, <2>2, WithdrawPromised DEF kioVars
<1> QED BY <1>2, <1>3, <1>4, DeliverPromised DEF StreamStep

(* The run of HTTP ends with the answer to whoever attends it. *)
LEMMA RespondPromised ==
  ASSUME TransportInv, \A i \in Job : RunsBehind(i), NEW j \in Job, HandlerEnds(j, Http)
  PROVE  (\A i \in Job : RunsBehind(i)') /\ Promise!Respond(j)
<1>1. /\ run[j][Http] = "running" /\ RunTo(j, Http, "over") /\ Answer(j, "posted")
      /\ UNCHANGED <<queue, deliveries, lost, crashes>>
  BY DEF HandlerEnds, NothingLost, streamVars
<1>2. call[j] \in {"posted", "returned", "raised"}
  BY <1>1 DEF RunsBehind, TransportInv, TypeOK
<1>3. /\ call'[j] = IF call[j] = "posted" THEN "returned" ELSE call[j]
      /\ \A i \in Job \ {j} : call'[i] = call[i]
      /\ allowed' = allowed
  <2>1. "returned" \in CallStage BY DEF CallStage
  <2> QED BY <1>1, <2>1, CallMoves DEF Answer, callVars, TransportInv
<1>4. /\ run'[j][Http] = "over"
      /\ \A i \in Job, q \in Run : i # j \/ q # Http => run'[i][q] = run[i][q]
      /\ \A from, to : WorkOf(j, Http) = from /\ WorkOf(j, Http)' = to =>
            Promise!Works(j, Http, from, to)
  <2>1. "over" \in Stage \ {"none"} /\ Http \in Run BY Runs DEF Stage
  <2> QED BY <1>1, <2>1, RunMovesOn
<1>5. Promise!Works(j, Http, "working", "over") BY <1>1, <1>4 DEF WorkOf
<1>6. \A i \in Job : RunsBehind(i)'
  <2>1. RunsBehind(j)' BY <1>1, <1>2, <1>3, <1>4, Runs DEF RunsBehind
  <2>2. \A i \in Job \ {j} : RunsBehind(i)' BY <1>1, <1>3, <1>4, Runs DEF RunsBehind
  <2> QED BY <2>1, <2>2
<1>7. /\ OutcomeOf(j)' = IF OutcomeOf(j) = "open" THEN "returned" ELSE OutcomeOf(j)
      /\ \A i \in Job \ {j} : OutcomeOf(i)' = OutcomeOf(i)
  BY <1>2, <1>3 DEF OutcomeOf
<1>8. SameLimits /\ SameOffers /\ SameDoubts
  BY <1>1, <1>3 DEF SameLimits, SameOffers, SameDoubts, Usual, Offered, Doubtful
<1>9. UNCHANGED (crashes > 0) BY <1>1
<1>10. [i \in Job |-> OutcomeOf(i)]'
         = [[i \in Job |-> OutcomeOf(i)] EXCEPT ![j] = IF @ = "open" THEN "returned" ELSE @]
  BY <1>7
<1> QED BY <1>5, <1>6, <1>8, <1>9, <1>10, LimitsStay, OffersStay, DoubtsStay DEF Promise!Respond

(* A delivery's run ends, is acknowledged, and answers. *)
LEMMA ShellPromised ==
  ASSUME TransportInv, \A i \in Job : RunsBehind(i), NEW j \in Job, NEW r \in Delivery,
         \/ HandlerEnds(j, r) \/ Ack(j, r) \/ Reply(j, r)
         \/ AckLost(j, r) \/ ReplyLost(j, r)
  PROVE  /\ \A i \in Job : RunsBehind(i)'
         /\ \/ Promise!End(j, r) \/ Promise!Settle(j, r)
            \/ Promise!SettleFails(j, r) \/ Promise!Return(j, r)
<1>1. r \in Run /\ r # Http BY Runs
<1>2. UNCHANGED <<deliveries, crashes>> /\ run[j][r] # "none"
  BY <1>1 DEF HandlerEnds, Ack, Reply, AckLost, ReplyLost, NothingLost, streamVars
<1>3. \E st \in {"finished", "acked", "over"} : RunTo(j, r, st)
  BY <1>1 DEF HandlerEnds, Ack, Reply, AckLost, ReplyLost
<1>4. UNCHANGED <<call, waited, allowed>> \/ (call[j] = "waiting" /\ CallTo(j, "returned"))
  <2>1. UNCHANGED callVars \/ (call[j] = "waiting" /\ CallTo(j, "returned"))
    <3>1. CASE HandlerEnds(j, r) BY <1>1, <3>1 DEF HandlerEnds
    <3>2. CASE Ack(j, r) BY <3>2 DEF Ack
    <3>3. CASE Reply(j, r) BY <3>3 DEF Reply, Answer
    <3>4. CASE AckLost(j, r) BY <3>4 DEF AckLost
    <3>5. CASE ReplyLost(j, r) BY <3>5 DEF ReplyLost
    <3> QED BY <3>1, <3>2, <3>3, <3>4, <3>5
  <2> QED BY <2>1 DEF callVars
<1>5. /\ \A i \in Job, q \in Run : i # j \/ q # r => run'[i][q] = run[i][q]
      /\ \A st \in {"finished", "acked", "over"} : RunTo(j, r, st) => run'[j][r] = st
      /\ \A from, to : WorkOf(j, r) = from /\ WorkOf(j, r)' = to => Promise!Works(j, r, from, to)
  <2>1. {"finished", "acked", "over"} \subseteq Stage \ {"none"} BY DEF Stage
  <2> QED BY <1>1, <1>3, <2>1, RunMovesOn
<1>6. /\ call'[j] = call[j] \/ (call[j] = "waiting" /\ call'[j] = "returned")
      /\ \A i \in Job \ {j} : call'[i] = call[i]
      /\ allowed' = allowed
  <2>1. "returned" \in CallStage BY DEF CallStage
  <2> QED BY <1>4, <2>1, CallMoves DEF TransportInv
<1>7. ASSUME NEW i \in Job PROVE RunsBehind(i)'
  <2>1. run'[i][Http] = run[i][Http] BY <1>1, <1>5, Runs
  <2>2. ASSUME NEW q \in Delivery, q > deliveries[i] PROVE run'[i][q] = "none"
    <3>1. q \in Run /\ run[i][q] = "none" BY <2>2, Runs DEF RunsBehind
    <3> QED BY <1>2, <1>5, <3>1
  <2>3. call'[i] \in {"idle", "waiting", "falling_back", "posted"} => call'[i] = call[i]
    BY <1>6
  <2> QED BY <1>2, <2>1, <2>2, <2>3 DEF RunsBehind
<1>8. SameLimits BY <1>6 DEF SameLimits, Usual
<1>9. UNCHANGED (crashes > 0) BY <1>2
<1>10. CASE HandlerEnds(j, r)
  <2>1. /\ run[j][r] = "running" /\ RunTo(j, r, "finished")
        /\ UNCHANGED <<call, queue, lost>>
    BY <1>1, <1>10 DEF HandlerEnds, NothingLost, callVars, streamVars
  <2>2. Promise!Works(j, r, "working", "ended") BY <1>5, <2>1 DEF WorkOf
  <2>3. SameOutcome /\ SameOffers /\ SameDoubts
    BY <2>1 DEF SameOutcome, SameOffers, SameDoubts, OutcomeOf, Offered, Doubtful
  <2>4. Promise!End(j, r)
    BY <1>8, <1>9, <2>2, <2>3, OutcomeStays, LimitsStay, OffersStay, DoubtsStay DEF Promise!End
  <2> QED BY <1>7, <2>4
<1>11. CASE Ack(j, r)
  <2>1. /\ run[j][r] = "finished" /\ RunTo(j, r, "acked")
        /\ queue' = [queue EXCEPT ![j] = "gone"] /\ UNCHANGED <<call, lost>>
    BY <1>11 DEF Ack, NothingLost, callVars
  <2>2. Promise!Works(j, r, "ended", "settled") BY <1>5, <2>1 DEF WorkOf
  <2>3. SameOutcome /\ SameDoubts
    BY <2>1 DEF SameOutcome, SameDoubts, OutcomeOf, Doubtful
  <2>4. Offered(j)' = FALSE /\ \A i \in Job \ {j} : Offered(i)' = Offered(i)
    BY <2>1 DEF Offered, TransportInv, TypeOK
  <2>5. Promise!Settle(j, r)
    BY <1>8, <1>9, <2>2, <2>3, <2>4, OutcomeStays, LimitsStay, OffersTurn, DoubtsStay
    DEF Promise!Settle, Promise!Offer
  <2> QED BY <1>7, <2>5
<1>12. CASE AckLost(j, r)
  <2>1. /\ run[j][r] = "finished" /\ RunTo(j, r, "acked") /\ Lose(j, "ack")
        /\ UNCHANGED <<call, queue>>
    BY <1>12 DEF AckLost, callVars, streamVars
  <2>2. Promise!Works(j, r, "ended", "settled") BY <1>5, <2>1 DEF WorkOf
  <2>3. SameOutcome /\ SameOffers
    BY <2>1 DEF SameOutcome, SameOffers, OutcomeOf, Offered
  <2>4. (<<j, "ack">> \in lost)' = TRUE
        /\ \A i \in Job \ {j} : (<<i, "ack">> \in lost)' = (<<i, "ack">> \in lost)
    BY <2>1 DEF Lose
  <2>5. [i \in Job |-> <<i, "ack">> \in lost]'
          = [[i \in Job |-> <<i, "ack">> \in lost] EXCEPT ![j] = TRUE]
    BY <2>4
  <2>6. Promise!SettleFails(j, r)
    BY <1>8, <1>9, <2>2, <2>3, <2>5, OutcomeStays, LimitsStay, OffersStay
    DEF Promise!SettleFails
  <2> QED BY <1>7, <2>6
<1>13. CASE Reply(j, r) \/ ReplyLost(j, r)
  <2>1. run[j][r] = "acked" /\ RunTo(j, r, "over") /\ UNCHANGED queue
    BY <1>13 DEF Reply, ReplyLost, streamVars
  <2>2. Promise!Works(j, r, "settled", "over") BY <1>5, <2>1 DEF WorkOf
  <2>3. SameOffers BY <2>1 DEF SameOffers, Offered
  <2>4. SameDoubts
    BY <1>13, OtherLosses DEF Reply, ReplyLost, NothingLost, SameDoubts, Doubtful
  <2>5. Promise!Turns(j, "open", "returned") \/ UNCHANGED [i \in Job |-> OutcomeOf(i)]
    <3>1. CASE call[j] = "waiting" /\ call'[j] = "returned"
      <4>1. /\ OutcomeOf(j) = "open" /\ OutcomeOf(j)' = "returned"
            /\ \A i \in Job \ {j} : OutcomeOf(i)' = OutcomeOf(i)
        BY <1>6, <3>1 DEF OutcomeOf
      <4> QED BY <4>1, OutcomeTurns DEF Promise!Turns
    <3>2. CASE call'[j] = call[j]
      <4>1. SameOutcome BY <1>6, <3>2 DEF SameOutcome, OutcomeOf
      <4> QED BY <4>1, OutcomeStays
    <3> QED BY <1>6, <3>1, <3>2
  <2>6. Promise!Return(j, r)
    BY <1>8, <1>9, <2>2, <2>3, <2>4, <2>5, LimitsStay, OffersStay, DoubtsStay
    DEF Promise!Return
  <2> QED BY <1>7, <2>6
<1> QED BY <1>10, <1>11, <1>12, <1>13

(* A crash ends all runs, and the calls that attend one. *)
LEMMA CrashPromised ==
  ASSUME TransportInv, \A i \in Job : RunsBehind(i), Crash
  PROVE  (\A i \in Job : RunsBehind(i)') /\ Promise!Crash
<1>1. /\ UNCHANGED <<allowed, queue, deliveries, lost>> /\ (crashes > 0)' = TRUE
  <2>1. crashes \in Nat /\ crashes' = crashes + 1
    BY Timers DEF Crash, TransportInv, TypeOK
  <2> QED BY <2>1 DEF Crash, streamVars
<1>2. /\ \A i \in Job, q \in Run :
            run'[i][q] = IF run[i][q] \in {"running", "finished", "acked"} THEN "dead"
                         ELSE run[i][q]
      /\ \A i \in Job : call'[i] = IF call[i] = "posted" THEN "raised" ELSE call[i]
  BY DEF Crash
<1>3. /\ \A i \in Job, q \in Run : run[i][q] \in Stage
      /\ \A i \in Job : call[i] \in CallStage
  BY DEF TransportInv, TypeOK, Stage, CallStage
<1>4. ASSUME NEW i \in Job PROVE RunsBehind(i)'
  <2>1. call'[i] \in {"idle", "waiting", "falling_back"} => run'[i][Http] = "none"
    <3>1. ASSUME call'[i] \in {"idle", "waiting", "falling_back"} PROVE call'[i] = call[i]
      BY <1>2, <3>1
    <3>2. run[i][Http] = "none" => run'[i][Http] = "none" BY <1>2, Runs
    <3> QED BY <3>1, <3>2 DEF RunsBehind
  <2>2. call'[i] # "posted" BY <1>2
  <2>3. \A q \in Delivery : run[i][q] = "none" => run'[i][q] = "none" BY <1>2, Runs
  <2> QED BY <1>1, <2>1, <2>2, <2>3 DEF RunsBehind
<1>5. SameLimits /\ SameOffers /\ SameDoubts
  BY <1>1 DEF SameLimits, SameOffers, SameDoubts, Usual, Offered, Doubtful
<1>6. ASSUME NEW i \in Job, NEW q \in Run
      PROVE  WorkOf(i, q)' = IF WorkOf(i, q) \in {"working", "ended", "settled"} THEN "dead"
                             ELSE WorkOf(i, q)
  BY <1>2, <1>3 DEF WorkOf, Stage
<1>7. ASSUME NEW i \in Job
      PROVE  OutcomeOf(i)' = IF OutcomeOf(i) = "open" /\ WorkOf(i, Http) = "working" THEN "raised"
                             ELSE OutcomeOf(i)
  <2>1. CASE call[i] = "posted"
    <3>1. run[i][Http] = "running" /\ call'[i] = "raised" BY <1>2, <2>1 DEF RunsBehind
    <3> QED BY <2>1, <3>1 DEF OutcomeOf, WorkOf
  <2>2. CASE call[i] # "posted"
    <3>1. OutcomeOf(i) = "open" => WorkOf(i, Http) = "none"
      <4>1. call[i] \in {"waiting", "falling_back"} => run[i][Http] = "none" BY DEF RunsBehind
      <4>2. run[i][Http] = "none" => WorkOf(i, Http) = "none" BY DEF WorkOf
      <4>3. OutcomeOf(i) = "open" => call[i] \in {"waiting", "falling_back"}
        BY <1>3, <2>2 DEF OutcomeOf, CallStage
      <4> QED BY <4>1, <4>2, <4>3
    <3>2. OutcomeOf(i)' = OutcomeOf(i) BY <1>2, <2>2 DEF OutcomeOf
    <3> QED BY <3>1, <3>2
  <2> QED BY <2>1, <2>2
<1>8. Promise!Crash
  <2>1. [i \in Job |-> [q \in Run |-> WorkOf(i, q)]]'
          = [i \in Job |-> [q \in Run |->
               IF WorkOf(i, q) \in {"working", "ended", "settled"} THEN "dead" ELSE WorkOf(i, q)]]
    BY <1>6
  <2>2. [i \in Job |-> OutcomeOf(i)]'
          = [i \in Job |-> IF OutcomeOf(i) = "open" /\ WorkOf(i, Http) = "working" THEN "raised"
                           ELSE OutcomeOf(i)]
    BY <1>7
  <2> QED BY <1>1, <1>5, <2>1, <2>2, LimitsStay, OffersStay, DoubtsStay, Runs
          DEF Promise!Crash, Run
<1> QED BY <1>4, <1>8

LEMMA CallPromised ==
  ASSUME TransportInv, \A i \in Job : RunsBehind(i), NEW j \in Job,
         RequestTimesOut(j) \/ PostTimesOut(j)
  PROVE  /\ \A i \in Job : RunsBehind(i)'
         /\ Promise!Raise(j) \/ UNCHANGED Promise!promiseVars
<1>1. CASE RequestTimesOut(j)
  <2>1. /\ CallTo(j, "falling_back") /\ call[j] = "waiting"
        /\ UNCHANGED <<streamVars, kioVars, lost, crashes>>
    BY <1>1 DEF RequestTimesOut, NothingLost
  <2> QED BY <2>1, CallMovesOn
<1>2. CASE PostTimesOut(j)
  <2>1. /\ CallTo(j, "raised") /\ call[j] = "posted"
        /\ UNCHANGED <<streamVars, kioVars, lost, crashes>>
    BY <1>2 DEF PostTimesOut, NothingLost
  <2> QED BY <1>2, <2>1, TimesOutUnusual, CallMovesOn
<1> QED BY <1>1, <1>2

(* Time, restarts and steps that change nothing are not seen. *)
LEMMA QuietPromised ==
  ASSUME TransportInv, \A i \in Job : RunsBehind(i), Tick \/ Restart \/ UNCHANGED vars
  PROVE  (\A i \in Job : RunsBehind(i)') /\ UNCHANGED Promise!promiseVars
<1>1. UNCHANGED <<call, allowed, queue, deliveries, run, lost, crashes>>
  BY DEF Tick, Restart, vars, callVars, streamVars, kioVars
<1>2. SameOffers /\ SameDoubts BY <1>1 DEF SameOffers, SameDoubts, Offered, Doubtful
<1>3. TypeOK BY DEF TransportInv
<1> QED BY <1>1, <1>2, <1>3, StutterStep

(* Every step keeps the invariant and is one that the promise allows. *)
LEMMA StepIsPromised ==
  ASSUME TransportInv, \A i \in Job : RunsBehind(i), [Next]_vars
  PROVE  /\ \A i \in Job : RunsBehind(i)'
         /\ [Promise!PromiseNext]_(Promise!promiseVars)
<1>1. CASE \E j \in Job : Request(j) \/ RequestFails(j)
  BY <1>1, BeginPromised DEF Promise!PromiseNext
<1>2. CASE \E j \in Job : RequestTimesOut(j) \/ PostTimesOut(j)
  BY <1>2, CallPromised DEF Promise!PromiseNext
<1>3. CASE \E j \in Job : Post(j) BY <1>3, PostPromised DEF Promise!PromiseNext
<1>4. CASE \E j \in Job : StreamStep(j) \/ DeliveryLost(j) \/ Expire(j)
  BY <1>4, StreamPromised DEF Promise!PromiseNext
<1>5. CASE \E j \in Job : HandlerEnds(j, Http)
  BY <1>5, RespondPromised DEF Promise!PromiseNext
<1>6. CASE \E j \in Job, r \in Delivery :
             \/ HandlerEnds(j, r) \/ Ack(j, r) \/ Reply(j, r)
             \/ AckLost(j, r) \/ ReplyLost(j, r)
  BY <1>6, ShellPromised DEF Promise!PromiseNext
<1>7. CASE Crash BY <1>7, CrashPromised DEF Promise!PromiseNext
<1>8. CASE Tick \/ Restart \/ UNCHANGED vars BY <1>8, QuietPromised
<1>9. ASSUME NEW j \in Job, NEW r \in Run, ShellStep(j, r)
      PROVE  \/ HandlerEnds(j, Http)
             \/ r \in Delivery /\ (HandlerEnds(j, r) \/ Ack(j, r) \/ Reply(j, r))
  BY <1>9, Runs DEF ShellStep
<1> QED BY <1>1, <1>2, <1>3, <1>4, <1>5, <1>6, <1>7, <1>8, <1>9 DEF Next, CallStep, Loss

(* For any timeouts with a headroom, losses and crashes: read without its  *)
(* timers, the transport implements JobPromise.                            *)
THEOREM TransportKeepsPromise == Spec => KeepsPromise
<1>1. Init => Promise!PromiseInit /\ \A i \in Job : RunsBehind(i)
  <2>1. SUFFICES ASSUME Init PROVE Promise!PromiseInit /\ \A i \in Job : RunsBehind(i)
    OBVIOUS
  <2>2. \A i \in Job : RunsBehind(i) BY <2>1, Runs DEF Init, RunsBehind
  <2>3. \A i \in Job : /\ OutcomeOf(i) = "idle" /\ Usual(i) = TRUE
                       /\ (queue[i] \in {"ready", "pending"}) = FALSE
                       /\ (<<i, "ack">> \in lost) = FALSE
                       /\ \A q \in Run : WorkOf(i, q) = "none"
    BY <2>1, Timers DEF Init, OutcomeOf, Usual, WorkOf
  <2>4. (crashes > 0) = FALSE BY <2>1 DEF Init
  <2>5. [i \in Job |-> [q \in Run |-> WorkOf(i, q)]] = [i \in Job |-> [q \in Run |-> "none"]]
    BY <2>3
  <2> QED BY <2>2, <2>3, <2>4, <2>5 DEF Promise!PromiseInit, Run
<1>2. TransportInv /\ (\A i \in Job : RunsBehind(i)) /\ [Next]_vars =>
        /\ (\A i \in Job : RunsBehind(i))'
        /\ [Promise!PromiseNext]_(Promise!promiseVars)
  BY StepIsPromised
<1>3. QED BY <1>1, <1>2, TransportInvariant, PTL DEF Spec, KeepsPromise, Promise!PromiseSpec
=============================================================================
