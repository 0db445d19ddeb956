--------------------------- MODULE Services_proofs ---------------------------
(***************************************************************************)
(* Proofs about the components around the workflow engine: first about the *)
(* two that have no module of proofs of their own, the message log and the *)
(* telemetry, then about all five together.                                *)
(*                                                                         *)
(* Both properties of the log are about an idempotency key, whichever      *)
(* envelopes carry it.  That a key is published once needs what its row    *)
(* says about the calls under way: the key is inserted only while it has   *)
(* no row and sent only once it has one.  That a skipped publish is not    *)
(* lost needs that whoever wrote a row sends its message or fails.         *)
(*                                                                         *)
(* Both properties of the telemetry are about agents that share a service. *)
(* A task's row is counted against the generations of its agents as long   *)
(* as no two transactions have overlapped unnoticed; a span is attributed  *)
(* to the right task because a history variable knows who has taken over   *)
(* the shared context.                                                     *)
(***************************************************************************)
EXTENDS MCServices, SessionStore_proofs, EventStream_proofs, KioPipeline_proofs, FiniteSetTheorems

-----------------------------------------------------------------------------
(* The message log *)

Inserts(c, k) == publisher[c].pc = "inserting" /\ KeyAt(c) = k
Sends(c, k) == publisher[c].pc = "sending" /\ KeyAt(c) = k
Publishes(c, k) == Sends(c, k) /\ publisher[c].op = "publish"

(* What holds of a key that no two calls looked up together. *)
Orderly(k) ==
  /\ sent[k] <= 1
  /\ SameKey(k) = {} => sent[k] = 0
  /\ \A c \in Callers : Inserts(c, k) => SameKey(k) = {}
  /\ \A c \in Callers : Publishes(c, k) => SameKey(k) # {} /\ sent[k] = 0
  /\ \A c, d \in Callers : Inserts(c, k) /\ Inserts(d, k) => c = d
  /\ \A c, d \in Callers : Publishes(c, k) /\ Publishes(d, k) => c = d

KeysAreOrderly == \A k \in Keys \ raced : Orderly(k)

(* The message with this key reached NATS, failed on its way, or is under way. *)
Settled(k) ==
  \/ sent[k] > 0 \/ k \in broken
  \/ \E e \in requested : keyOf[e] = k
  \/ \E c \in Callers : Sends(c, k)

RowsAreSettled == \A e \in logged : Settled(keyOf[e])

-----------------------------------------------------------------------------
(* The fields of a call that is under way *)
LEMMA UnderWay ==
  ASSUME LogTypeOK, NEW c \in Callers, publisher[c].pc # "idle"
  PROVE  /\ publisher[c] \in Publishing
         /\ publisher[c].env \in Envelopes /\ KeyAt(c) \in Keys
         /\ publisher[c].op \in {"publish", "request"}
<1>1. publisher[c] \in Publishing \cup {NoPublish}
  BY DEF LogTypeOK
<1>2. NoPublish.pc = "idle"
  BY DEF NoPublish
<1>3. publisher[c] \in Publishing
  BY <1>1, <1>2
<1>4. QED
  BY <1>3 DEF Publishing, KeyAt, LogTypeOK

(* An idle caller is at none of the stages of a call. *)
LEMMA IdleIsNowhere ==
  /\ NoPublish.pc = "idle"
  /\ \A pc \in {"checking", "inserting", "sending"} : NoPublish.pc # pc
  BY DEF NoPublish

LEMMA TypeInit == ASSUME LogInit PROVE LogTypeOK
  BY LogAssumption DEF LogInit, LogTypeOK

LEMMA TypeStep ==
  ASSUME LogTypeOK, [LogNext]_logVars
  PROVE  LogTypeOK'
<1> USE DEF LogTypeOK
<1>1. ASSUME NEW c \in Callers, NEW e \in Envelopes, NEW op \in {"publish", "request"},
             Call(c, e, op)
      PROVE  LogTypeOK'
  <2>1. [pc |-> "checking", env |-> e, op |-> op] \in Publishing
    BY DEF Publishing
  <2>2. published' \in 0..MaxPublish
    BY <1>1, LogAssumption DEF Call
  <2>3. QED
    BY <1>1, <2>1, <2>2 DEF Call
<1>2. ASSUME NEW c \in Callers, LeaveCall(c)
      PROVE  publisher' \in [Callers -> Publishing \cup {NoPublish}]
  BY <1>2 DEF LeaveCall
<1>3. ASSUME NEW c \in Callers, publisher[c].pc # "idle",
             NEW pc \in {"inserting", "sending"}, Move(c, pc)
      PROVE  publisher' \in [Callers -> Publishing \cup {NoPublish}]
  <2>1. publisher[c] \in Publishing
    BY <1>3, UnderWay
  <2>2. [publisher[c] EXCEPT !.pc = pc] \in Publishing
    BY <2>1 DEF Publishing
  <2>3. publisher' = [publisher EXCEPT ![c] = [publisher[c] EXCEPT !.pc = pc]]
    BY <1>3 DEF Move
  <2>4. QED
    BY <2>2, <2>3
<1>4. ASSUME NEW c \in Callers, CheckRaises(c) PROVE LogTypeOK'
  BY <1>2, <1>4 DEF CheckRaises
<1>5. ASSUME NEW c \in Callers, CheckFinds(c) PROVE LogTypeOK'
  <2>1. KeyAt(c) \in Keys
    BY <1>5, UnderWay DEF CheckFinds
  <2>2. CASE publisher[c].op = "publish"
    BY <1>2, <1>5, <2>1, <2>2 DEF CheckFinds
  <2>3. CASE publisher[c].op # "publish"
    BY <1>3, <1>5, <2>3 DEF CheckFinds
  <2>4. QED
    BY <2>2, <2>3
<1>6. ASSUME NEW c \in Callers, CheckMisses(c) PROVE LogTypeOK'
  <2>1. KeyAt(c) \in Keys
    BY <1>6, UnderWay DEF CheckMisses
  <2>2. publisher' \in [Callers -> Publishing \cup {NoPublish}]
    BY <1>3, <1>6 DEF CheckMisses
  <2>3. QED
    BY <1>6, <2>1, <2>2 DEF CheckMisses
<1>7. ASSUME NEW c \in Callers, SaveMessage(c) PROVE LogTypeOK'
  <2>1. publisher[c].env \in Envelopes
    BY <1>7, UnderWay DEF SaveMessage
  <2>2. publisher' \in [Callers -> Publishing \cup {NoPublish}]
    BY <1>2, <1>3, <1>7 DEF SaveMessage
  <2>3. QED
    BY <1>7, <2>1, <2>2 DEF SaveMessage
<1>8. ASSUME NEW c \in Callers, Send(c) PROVE LogTypeOK'
  <2>1. KeyAt(c) \in Keys /\ publisher[c].env \in Envelopes
    BY <1>8, UnderWay DEF Send
  <2>2. publisher' \in [Callers -> Publishing \cup {NoPublish}]
    BY <1>2, <1>8 DEF Send
  <2>3. QED
    BY <1>8, <2>1, <2>2 DEF Send
<1>9. ASSUME NEW c \in Callers, FailToSend(c) PROVE LogTypeOK'
  <2>1. KeyAt(c) \in Keys
    BY <1>9, UnderWay DEF FailToSend
  <2>2. publisher' \in [Callers -> Publishing \cup {NoPublish}]
    BY <1>2, <1>9 DEF FailToSend
  <2>3. logFaults' \in 0..MaxLogFaults
    BY <1>9, LogAssumption DEF FailToSend
  <2>4. QED
    BY <1>9, <2>1, <2>2, <2>3 DEF FailToSend
<1>10. CASE UNCHANGED logVars
  BY <1>10 DEF logVars
<1>11. QED
  BY <1>1, <1>4, <1>5, <1>6, <1>7, <1>8, <1>9, <1>10 DEF LogNext

(* Calls, envelopes, keys and counters stay in their ranges, and a caller that
   is not idle has an envelope and an operation. *)
THEOREM LogIsTyped == LogSpec => []LogTypeOK
  BY TypeInit, TypeStep, PTL DEF LogSpec

-----------------------------------------------------------------------------
(* One key, one message *)

(* A step of one caller leaves the others where they are. *)
LEMMA OthersStay ==
  ASSUME LogTypeOK, NEW c \in Callers, UNCHANGED keyOf,
         \/ LeaveCall(c)
         \/ \E v : publisher' = [publisher EXCEPT ![c] = v]
         \/ \E pc : Move(c, pc)
  PROVE  \A d \in Callers \ {c} :
           /\ publisher'[d] = publisher[d]
           /\ \A k : /\ Inserts(d, k)' <=> Inserts(d, k)
                     /\ Sends(d, k)' <=> Sends(d, k)
                     /\ Publishes(d, k)' <=> Publishes(d, k)
<1>1. \A d \in Callers \ {c} : publisher'[d] = publisher[d]
  BY DEF LeaveCall, Move, LogTypeOK
<1>2. QED
  BY <1>1 DEF Inserts, Sends, Publishes, KeyAt

(* A caller that leaves is at no stage any more. *)
LEMMA LeaverIsGone ==
  ASSUME LogTypeOK, NEW c \in Callers, LeaveCall(c)
  PROVE  \A k : ~Inserts(c, k)' /\ ~Sends(c, k)' /\ ~Publishes(c, k)'
<1>1. publisher'[c] = NoPublish
  BY DEF LeaveCall, LogTypeOK
<1>2. QED
  BY <1>1, IdleIsNowhere DEF Inserts, Sends, Publishes

(* A caller that moves on keeps its envelope and its operation. *)
LEMMA MoverKeepsCall ==
  ASSUME LogTypeOK, NEW c \in Callers, publisher[c].pc # "idle", UNCHANGED keyOf,
         NEW pc \in {"inserting", "sending"}, Move(c, pc)
  PROVE  /\ publisher'[c].pc = pc /\ KeyAt(c)' = KeyAt(c)
         /\ publisher'[c].op = publisher[c].op
<1>1. publisher[c] \in Publishing
  BY UnderWay
<1>2. publisher'[c] = [publisher[c] EXCEPT !.pc = pc]
  BY DEF Move, LogTypeOK
<1>3. publisher'[c] = [pc |-> pc, env |-> publisher[c].env, op |-> publisher[c].op]
  BY <1>1, <1>2 DEF Publishing
<1>4. QED
  BY <1>3 DEF KeyAt

LEMMA OrderlyInit == ASSUME LogInit PROVE KeysAreOrderly
<1>1. \A c \in Callers : publisher[c].pc = "idle"
  BY IdleIsNowhere DEF LogInit
<1>2. QED
  BY <1>1 DEF LogInit, KeysAreOrderly, Orderly, SameKey, Inserts, Sends, Publishes

(* A caller that leaves, without a trace in the table or at NATS, disturbs no key. *)
LEMMA LeavingIsOrderly ==
  ASSUME LogTypeOK, KeysAreOrderly, NEW c \in Callers, LeaveCall(c),
         UNCHANGED <<keyOf, logged, sent, raced>>
  PROVE  KeysAreOrderly'
<1>1. SUFFICES ASSUME NEW k \in Keys \ raced PROVE Orderly(k)'
  BY DEF KeysAreOrderly
<1>2. Orderly(k)
  BY <1>1 DEF KeysAreOrderly
<1>3. SameKey(k)' = SameKey(k) /\ sent'[k] = sent[k]
  BY DEF SameKey
<1>4. \A d \in Callers : (Inserts(d, k)' => Inserts(d, k)) /\ (Publishes(d, k)' => Publishes(d, k))
  BY OthersStay, LeaverIsGone
<1>5. QED
  BY <1>2, <1>3, <1>4 DEF Orderly

LEMMA OrderlyStep ==
  ASSUME LogTypeOK, KeysAreOrderly, [LogNext]_logVars
  PROVE  KeysAreOrderly'
<1>1. ASSUME NEW c \in Callers, NEW e \in Envelopes, NEW op \in {"publish", "request"},
             Call(c, e, op)
      PROVE  KeysAreOrderly'
  <2>1. SUFFICES ASSUME NEW k \in Keys \ raced PROVE Orderly(k)'
    BY <1>1 DEF KeysAreOrderly, Call
  <2>2. Orderly(k)
    BY <2>1 DEF KeysAreOrderly
  <2>3. SameKey(k)' = SameKey(k) /\ sent'[k] = sent[k]
    BY <1>1 DEF SameKey, Call
  <2>4. publisher'[c].pc = "checking"
    BY <1>1 DEF Call, LogTypeOK
  <2>5. ~Inserts(c, k)' /\ ~Publishes(c, k)'
    BY <2>4 DEF Inserts, Sends, Publishes
  <2>6. \A d \in Callers \ {c} : (Inserts(d, k)' <=> Inserts(d, k))
                                 /\ (Publishes(d, k)' <=> Publishes(d, k))
    BY <1>1, OthersStay DEF Call
  <2>7. QED
    BY <2>2, <2>3, <2>5, <2>6 DEF Orderly
<1>2. ASSUME NEW c \in Callers, CheckRaises(c) PROVE KeysAreOrderly'
  BY <1>2, LeavingIsOrderly DEF CheckRaises
<1>3. ASSUME NEW c \in Callers, CheckFinds(c) PROVE KeysAreOrderly'
  <2>1. CASE publisher[c].op = "publish"
    BY <1>3, <2>1, LeavingIsOrderly DEF CheckFinds
  <2>2. CASE publisher[c].op # "publish"
    <3>1. SUFFICES ASSUME NEW k \in Keys \ raced PROVE Orderly(k)'
      BY <1>3 DEF KeysAreOrderly, CheckFinds
    <3>2. Orderly(k)
      BY <3>1 DEF KeysAreOrderly
    <3>3. Move(c, "sending") /\ UNCHANGED keyOf /\ publisher[c].pc # "idle"
      BY <1>3, <2>2 DEF CheckFinds
    <3>4. publisher'[c].pc = "sending" /\ publisher'[c].op # "publish"
      BY <2>2, <3>3, MoverKeepsCall
    <3>5. ~Inserts(c, k)' /\ ~Publishes(c, k)'
      BY <3>4 DEF Inserts, Publishes
    <3>6. \A d \in Callers \ {c} : (Inserts(d, k)' <=> Inserts(d, k))
                                   /\ (Publishes(d, k)' <=> Publishes(d, k))
      BY <3>3, OthersStay
    <3>7. SameKey(k)' = SameKey(k) /\ sent'[k] = sent[k]
      BY <1>3 DEF SameKey, CheckFinds
    <3>8. QED
      BY <3>2, <3>5, <3>6, <3>7 DEF Orderly
  <2>3. QED
    BY <2>1, <2>2
<1>4. ASSUME NEW c \in Callers, CheckMisses(c) PROVE KeysAreOrderly'
  <2>1. SUFFICES ASSUME NEW k \in Keys \ raced' PROVE Orderly(k)'
    BY DEF KeysAreOrderly
  <2>2. k \notin raced
    BY <1>4, <2>1 DEF CheckMisses
  <2>3. Orderly(k)
    BY <2>1, <2>2 DEF KeysAreOrderly
  <2>4. Move(c, "inserting") /\ UNCHANGED keyOf /\ publisher[c].pc # "idle"
    BY <1>4 DEF CheckMisses
  <2>5. publisher'[c].pc = "inserting" /\ KeyAt(c)' = KeyAt(c)
    BY <2>4, MoverKeepsCall
  <2>6. \A d \in Callers \ {c} : (Inserts(d, k)' <=> Inserts(d, k))
                                 /\ (Publishes(d, k)' <=> Publishes(d, k))
    BY <2>4, OthersStay
  <2>7. SameKey(k)' = SameKey(k) /\ sent'[k] = sent[k]
    BY <1>4 DEF SameKey, CheckMisses
  <2>8. ~Publishes(c, k)'
    BY <2>5 DEF Sends, Publishes
  <2>9. Inserts(c, k)' => KeyAt(c) = k
    BY <2>5 DEF Inserts
  <2>10. Inserts(c, k)' => SameKey(k) = {}
    BY <1>4, <2>9 DEF CheckMisses
  <2>11. Inserts(c, k)' => \A d \in Callers \ {c} : ~Inserts(d, k)
    BY <1>4, <2>1, <2>9 DEF CheckMisses, Inserts
  <2>12. QED
    BY <2>3, <2>6, <2>7, <2>8, <2>10, <2>11 DEF Orderly
<1>5. ASSUME NEW c \in Callers, SaveMessage(c) PROVE KeysAreOrderly'
  <2>1. CASE publisher[c].env \in logged
    BY <1>5, <2>1, LeavingIsOrderly DEF SaveMessage
  <2>2. CASE publisher[c].env \notin logged
    <3>1. SUFFICES ASSUME NEW k \in Keys \ raced PROVE Orderly(k)'
      BY <1>5 DEF KeysAreOrderly, SaveMessage
    <3>2. Orderly(k)
      BY <3>1 DEF KeysAreOrderly
    <3>3. Move(c, "sending") /\ UNCHANGED keyOf /\ publisher[c].pc # "idle" /\ sent' = sent
      BY <1>5, <2>2 DEF SaveMessage
    <3>4. publisher'[c].pc = "sending" /\ KeyAt(c)' = KeyAt(c)
      BY <3>3, MoverKeepsCall
    <3>5. \A d \in Callers \ {c} : (Inserts(d, k)' <=> Inserts(d, k))
                                   /\ (Publishes(d, k)' <=> Publishes(d, k))
      BY <3>3, OthersStay
    <3>6. ~Inserts(c, k)'
      BY <3>4 DEF Inserts
    <3>7. SameKey(k)' = IF KeyAt(c) = k THEN SameKey(k) \cup {publisher[c].env} ELSE SameKey(k)
      BY <1>5, <2>2 DEF SaveMessage, SameKey, KeyAt
    <3>8. CASE KeyAt(c) = k
      <4>1. Inserts(c, k)
        BY <1>5, <3>8 DEF SaveMessage, Inserts
      <4>2. SameKey(k) = {} /\ sent[k] = 0
        BY <3>2, <4>1 DEF Orderly
      <4>3. SameKey(k)' # {}
        BY <3>7, <3>8
      <4>4. \A d \in Callers \ {c} : ~Inserts(d, k)' /\ ~Publishes(d, k)'
        BY <3>2, <3>5, <4>1, <4>2 DEF Orderly
      <4>5. QED
        BY <3>3, <3>6, <4>2, <4>3, <4>4 DEF Orderly
    <3>9. CASE KeyAt(c) # k
      <4>1. ~Publishes(c, k)'
        BY <3>4, <3>9 DEF Sends, Publishes
      <4>2. QED
        BY <3>2, <3>3, <3>5, <3>6, <3>7, <3>9, <4>1 DEF Orderly
    <3>10. QED
      BY <3>8, <3>9
  <2>3. QED
    BY <2>1, <2>2
<1>6. ASSUME NEW c \in Callers, Send(c) PROVE KeysAreOrderly'
  <2>1. CASE publisher[c].op # "publish"
    BY <1>6, <2>1, LeavingIsOrderly DEF Send
  <2>2. CASE publisher[c].op = "publish"
    <3>1. SUFFICES ASSUME NEW k \in Keys \ raced PROVE Orderly(k)'
      BY <1>6 DEF KeysAreOrderly, Send
    <3>2. Orderly(k)
      BY <3>1 DEF KeysAreOrderly
    <3>3. LeaveCall(c) /\ UNCHANGED keyOf /\ SameKey(k)' = SameKey(k)
      BY <1>6 DEF Send, SameKey
    <3>4. \A d \in Callers \ {c} : (Inserts(d, k)' <=> Inserts(d, k))
                                   /\ (Publishes(d, k)' <=> Publishes(d, k))
      BY <3>3, OthersStay
    <3>5. ~Inserts(c, k)' /\ ~Publishes(c, k)'
      BY <3>3, LeaverIsGone
    <3>6. CASE KeyAt(c) = k
      <4>1. Publishes(c, k)
        BY <1>6, <2>2, <3>6 DEF Send, Sends, Publishes
      <4>2. sent[k] = 0 /\ SameKey(k) # {}
        BY <3>2, <4>1 DEF Orderly
      <4>3. sent'[k] = 1
        BY <1>6, <2>2, <3>6, <4>2 DEF Send, LogTypeOK
      <4>4. \A d \in Callers \ {c} : ~Publishes(d, k)
        BY <3>2, <4>1 DEF Orderly
      <4>5. QED
        BY <3>2, <3>3, <3>4, <3>5, <4>2, <4>3, <4>4 DEF Orderly
    <3>7. CASE KeyAt(c) # k
      <4>1. sent'[k] = sent[k]
        BY <1>6, <2>2, <3>7 DEF Send, LogTypeOK
      <4>2. QED
        BY <3>2, <3>3, <3>4, <3>5, <4>1 DEF Orderly
    <3>8. QED
      BY <3>6, <3>7
  <2>3. QED
    BY <2>1, <2>2
<1>7. ASSUME NEW c \in Callers, FailToSend(c) PROVE KeysAreOrderly'
  BY <1>7, LeavingIsOrderly DEF FailToSend
<1>8. CASE UNCHANGED logVars
  BY <1>8 DEF logVars, KeysAreOrderly, Orderly, SameKey, Inserts, Sends, Publishes, KeyAt
<1>9. QED
  BY <1>1, <1>2, <1>3, <1>4, <1>5, <1>6, <1>7, <1>8 DEF LogNext

(* Whatever the callers, envelopes and keys, and however calls are repeated after
   a failure, a key that was not looked up by two calls at once is published at
   most once: publish() looks the key up, then inserts, then sends. *)
THEOREM KeysAreSentOnce == LogSpec => []KeySentOnce
<1>1. LogTypeOK /\ KeysAreOrderly => KeySentOnce
  BY DEF KeysAreOrderly, Orderly, KeySentOnce
<1>2. QED
  BY <1>1, TypeInit, TypeStep, OrderlyInit, OrderlyStep, PTL DEF LogSpec

-----------------------------------------------------------------------------
(* Nothing is skipped into the void *)

(* Once settled, a key stays settled. *)
LEMMA SettledStaysSettled ==
  ASSUME LogTypeOK, LogTypeOK', [LogNext]_logVars, NEW k \in Keys, Settled(k)
  PROVE  Settled(k)'
<1>1. ASSUME NEW c \in Callers, Sends(c, k), ~Sends(c, k)' PROVE Settled(k)'
  <2>1. ASSUME NEW d \in Callers, d # c, UNCHANGED keyOf,
               \/ LeaveCall(d)
               \/ \E v : publisher' = [publisher EXCEPT ![d] = v]
               \/ \E pc : Move(d, pc)
        PROVE  FALSE
    BY <1>1, <2>1, OthersStay
  <2>2. publisher[c].pc = "sending" /\ KeyAt(c) = k /\ publisher[c] # NoPublish
    BY <1>1, IdleIsNowhere DEF Sends
  <2>3. ASSUME NEW d \in Callers, NEW e \in Envelopes, NEW op \in {"publish", "request"},
               Call(d, e, op)
        PROVE  FALSE
    BY <2>1, <2>2, <2>3 DEF Call
  <2>4. ASSUME NEW d \in Callers, CheckRaises(d) PROVE FALSE
    BY <2>1, <2>2, <2>4 DEF CheckRaises
  <2>5. ASSUME NEW d \in Callers, CheckFinds(d) PROVE FALSE
    BY <2>1, <2>2, <2>5 DEF CheckFinds
  <2>6. ASSUME NEW d \in Callers, CheckMisses(d) PROVE FALSE
    BY <2>1, <2>2, <2>6 DEF CheckMisses
  <2>7. ASSUME NEW d \in Callers, SaveMessage(d) PROVE FALSE
    BY <2>1, <2>2, <2>7 DEF SaveMessage
  <2>8. ASSUME NEW d \in Callers, Send(d) PROVE Settled(k)'
    <3>1. d = c
      BY <2>1, <2>8 DEF Send
    <3>2. CASE publisher[c].op = "publish"
      <4>1. sent'[k] = sent[k] + 1 /\ sent[k] \in Nat
        BY <2>2, <2>8, <3>1, <3>2 DEF Send, LogTypeOK
      <4>2. QED
        BY <4>1 DEF Settled
    <3>3. CASE publisher[c].op # "publish"
      <4>1. publisher[c].env \in requested' /\ keyOf'[publisher[c].env] = k
        BY <2>2, <2>8, <3>1, <3>3 DEF Send, KeyAt
      <4>2. QED
        BY <4>1 DEF Settled
    <3>4. QED
      BY <3>2, <3>3
  <2>9. ASSUME NEW d \in Callers, FailToSend(d) PROVE Settled(k)'
    <3>1. d = c
      BY <2>1, <2>9 DEF FailToSend
    <3>2. QED
      BY <2>2, <2>9, <3>1 DEF FailToSend, Settled
  <2>10. CASE UNCHANGED logVars
    BY <1>1, <2>10 DEF logVars, Sends, KeyAt
  <2>11. QED
    BY <2>3, <2>4, <2>5, <2>6, <2>7, <2>8, <2>9, <2>10 DEF LogNext
<1>2. sent'[k] >= sent[k] /\ broken \subseteq broken' /\ requested \subseteq requested'
      /\ keyOf' = keyOf
  <2>1. sent[k] \in Nat
    BY DEF LogTypeOK
  <2>2. ASSUME NEW c \in Callers, Send(c)
        PROVE  sent'[k] >= sent[k] /\ broken' = broken /\ requested \subseteq requested'
               /\ keyOf' = keyOf
    <3>1. sent'[k] \in {sent[k], sent[k] + 1}
      BY <2>2 DEF Send, LogTypeOK
    <3>2. QED
      BY <2>1, <2>2, <3>1 DEF Send
  <2>3. ASSUME NEW c \in Callers,
               \/ \E e \in Envelopes, op \in {"publish", "request"} : Call(c, e, op)
               \/ CheckRaises(c) \/ CheckFinds(c) \/ CheckMisses(c) \/ SaveMessage(c)
               \/ FailToSend(c)
        PROVE  UNCHANGED <<sent, requested, keyOf>> /\ broken \subseteq broken'
    BY <2>3 DEF Call, CheckRaises, CheckFinds, CheckMisses, SaveMessage, FailToSend
  <2>4. CASE UNCHANGED logVars
    BY <2>1, <2>4 DEF logVars
  <2>5. QED
    BY <2>1, <2>2, <2>3, <2>4 DEF LogNext
<1>3. QED
  BY <1>1, <1>2 DEF Settled, LogTypeOK

LEMMA SettledInit == ASSUME LogInit PROVE RowsAreSettled /\ SkippedIsElsewhere
  BY DEF LogInit, RowsAreSettled, SkippedIsElsewhere

(* A key that is skipped has a row, and a key with a row is settled; a caller
   that writes a row goes on to send. *)
LEMMA SettledStep ==
  ASSUME LogTypeOK, LogTypeOK', RowsAreSettled, SkippedIsElsewhere, [LogNext]_logVars
  PROVE  RowsAreSettled' /\ SkippedIsElsewhere'
<1>1. \A k \in Keys : Settled(k) => Settled(k)'
  BY SettledStaysSettled
<1>2. keyOf' = keyOf
  BY DEF LogNext, logVars, Call, CheckRaises, CheckFinds, CheckMisses, SaveMessage, Send,
         FailToSend
<1>3. ASSUME NEW e \in logged' PROVE Settled(keyOf[e])'
  <2>1. e \in Envelopes /\ keyOf[e] \in Keys
    BY <1>2, <1>3 DEF LogTypeOK
  <2>2. CASE e \in logged
    <3>1. Settled(keyOf[e])
      BY <2>2 DEF RowsAreSettled
    <3>2. QED
      BY <1>1, <1>2, <2>1, <3>1 DEF Settled, Sends, KeyAt
  <2>3. CASE e \notin logged
    <3>1. PICK c \in Callers : SaveMessage(c)
      BY <1>3, <2>3 DEF LogNext, logVars, Call, CheckRaises, CheckFinds, CheckMisses, Send,
                        FailToSend
    <3>2. e = publisher[c].env /\ Move(c, "sending") /\ publisher[c].pc # "idle"
      BY <1>3, <2>3, <3>1 DEF SaveMessage
    <3>3. publisher'[c].pc = "sending" /\ KeyAt(c)' = keyOf[e]
      BY <1>2, <3>2, MoverKeepsCall DEF KeyAt
    <3>4. QED
      BY <1>2, <3>3 DEF Settled, Sends, KeyAt
  <2>4. QED
    BY <2>2, <2>3
<1>4. ASSUME NEW k \in skipped' PROVE Settled(k)'
  <2>1. CASE k \in skipped
    BY <1>1, <2>1 DEF SkippedIsElsewhere, Settled, Sends, LogTypeOK
  <2>2. CASE k \notin skipped
    <3>1. PICK c \in Callers : CheckFinds(c)
      BY <1>4, <2>2 DEF LogNext, logVars, Call, CheckRaises, CheckMisses, SaveMessage, Send,
                        FailToSend
    <3>2. k = KeyAt(c) /\ Cardinality(SameKey(k)) = 1
      BY <1>4, <2>2, <3>1 DEF CheckFinds
    <3>3. SameKey(k) # {}
      BY <3>2, FS_EmptySet
    <3>4. PICK e \in logged : keyOf[e] = k
      BY <3>3 DEF SameKey
    <3>5. Settled(k) /\ k \in Keys
      BY <3>4 DEF RowsAreSettled, LogTypeOK
    <3>6. QED
      BY <1>1, <3>5
  <2>3. QED
    BY <2>1, <2>2
<1>5. RowsAreSettled'
  BY <1>2, <1>3 DEF RowsAreSettled
<1>6. SkippedIsElsewhere'
  BY <1>4 DEF SkippedIsElsewhere, Settled, Sends
<1>7. QED
  BY <1>5, <1>6

(* A publish that returns without sending has found a row, and the caller that
   wrote the row has sent its message, is about to, or failed in between: the
   one case in which a message is lost. *)
THEOREM NothingIsSkippedForGood == LogSpec => []SkippedIsElsewhere
  BY TypeInit, TypeStep, SettledInit, SettledStep, PTL DEF LogSpec

-----------------------------------------------------------------------------
(* The telemetry *)

AgentState ==
  [pc : {"idle", "open", "adding", "measured", "once", "done", "closing", "raised"},
   span : 0..MaxSpans, task : Owners, seen : [id : Nat, value : Nat], read : Nat,
   prev : 0..MaxSpans, gens : 0..MaxGen]

(* An agent in a transaction over the rows of one metric *)
InTransaction == {"adding", "once", "closing"}
Metric(pc) == CASE pc = "adding" -> "tokens" [] pc = "once" -> "energy" [] OTHER -> "latency"

(* Ids are given in order and belong to one row. *)
IdsAreUnique ==
  /\ IsFiniteSet(metrics) /\ Cardinality(metrics) \in Nat
  /\ \A r \in metrics : r.id \in 1..Cardinality(metrics)
  /\ \A r, q \in metrics : r.id = q.id => r = q

(* No room for a generation is left unguarded. *)
RoomForGeneration == \A a \in Agents : agent[a].pc = "adding" => agent[a].gens < MaxGen

TelemetryTyped == TelemetryTypeOK /\ IdsAreUnique /\ RoomForGeneration

-----------------------------------------------------------------------------
(* The inductive invariants *)

(* Two transactions over the metrics of one task are never unnoticed. *)
OverlapsAreKnown ==
  \A a, b \in Agents :
    /\ a # b /\ agent[a].task = agent[b].task
    /\ agent[a].pc \in InTransaction /\ agent[b].pc \in InTransaction
    => agent[a].task \in overlapped

(* What a transaction has read, with the row it writes back to. *)
ReadsAreRows ==
  \A a \in Agents : agent[a].pc \in InTransaction /\ agent[a].task \in Tasks =>
    LET hits == RowsToAdd(Metric(agent[a].pc), agent[a].task)
    IN /\ agent[a].seen = NoRow \/ \E r \in hits : r.id = agent[a].seen.id
       /\ agent[a].task \notin overlapped =>
            \/ agent[a].seen = NoRow /\ hits = {}
            \/ \E r \in hits : agent[a].seen = [id |-> r.id, value |-> r.value]

(* Every metric of a task without overlaps has one row. *)
OneRowEach ==
  \A t \in Tasks \ overlapped : \A name \in Names :
    \A r, q \in RowsToAdd(name, t) : r = q

TokensInv == OverlapsAreKnown /\ ReadsAreRows /\ OneRowEach /\ TokensAddUp

Open(a) == agent[a].pc # "idle"
Inside(a) == agent[a].pc \notin {"idle", "closing"}

(* Spans are numbered in the order they were opened. *)
SpansAreOrdered ==
  /\ \A a \in Agents : Open(a) => agent[a].span \in openSpans /\ agent[a].prev < agent[a].span
  /\ \A a, b \in Agents : Open(a) /\ Open(b) /\ agent[a].span = agent[b].span => a = b
  /\ \A n \in openSpans : n <= spans
  /\ activeSpan <= spans

(* As long as no two spans were open together, an agent that is inside its
   span is the only one, and its span is active. *)
AloneInside ==
  spansShared \/ \A a \in Agents : Open(a) =>
    /\ openSpans = {agent[a].span}
    /\ Inside(a) => activeSpan = agent[a].span

(* As long as spans close in turn they are nested: the active span is the last
   one that an agent is inside, and each one's predecessor is the next. *)
SpansAreNested ==
  spansCrossed \/
    /\ activeSpan = 0 \/ \E a \in Agents : Inside(a) /\ agent[a].span = activeSpan
    /\ \A a \in Agents : Inside(a) =>
         /\ agent[a].span <= activeSpan
         /\ agent[a].prev = 0 \/ \E b \in Agents : Inside(b) /\ agent[b].span = agent[a].prev
         /\ \A b \in Agents : Inside(b) /\ agent[b].span < agent[a].span =>
              agent[b].span <= agent[a].prev

SpansInv == SpansAreOrdered /\ AloneInside /\ SpansAreNested /\ AttributionIsRight

-----------------------------------------------------------------------------
(* What the primitives do *)

(* A query moves one agent, with what it has read, or makes it fail. *)
LEMMA QueryEffect ==
  ASSUME TelemetryTypeOK, NEW a \in Agents, NEW hits, NEW pc, NEW onError,
         hits \subseteq metrics, Query(a, hits, pc, onError)
  PROVE  /\ NoteOverlap(a)
         /\ \A b \in Agents : b # a => agent'[b] = agent[b]
         /\ Cardinality(hits) > 1 =>
              /\ agent' = [agent EXCEPT ![a] = [agent[a] EXCEPT !.pc = onError]]
              /\ failed' = failed \cup {agent[a].task}
         /\ ~(Cardinality(hits) > 1) =>
              /\ failed' = failed
              /\ \E seen \in [id : Nat, value : Nat] :
                   /\ agent' = [agent EXCEPT ![a] = [agent[a] EXCEPT !.pc = pc, !.seen = seen]]
                   /\ \/ hits = {} /\ seen = NoRow
                      \/ \E r \in hits : seen = [id |-> r.id, value |-> r.value]
<1>1. agent[a] \in AgentState
  BY DEF TelemetryTypeOK, AgentState
<1>2. CASE Cardinality(hits) > 1
  BY <1>1, <1>2 DEF Query, AgentState, TelemetryTypeOK
<1>3. CASE ~(Cardinality(hits) > 1)
  <2>1. PICK r \in IF hits = {} THEN {NoRow} ELSE hits :
          agent' = [agent EXCEPT ![a].pc = pc, ![a].seen = [id |-> r.id, value |-> r.value]]
    BY <1>3 DEF Query
  <2>2. [id |-> r.id, value |-> r.value] \in [id : Nat, value : Nat]
    <3>1. CASE hits = {}
      BY <3>1, <2>1 DEF NoRow
    <3>2. CASE hits # {}
      BY <3>2, <2>1 DEF Rows, TelemetryTypeOK
    <3>3. QED
      BY <3>1, <3>2
  <2>3. agent' = [agent EXCEPT ![a] = [agent[a] EXCEPT !.pc = pc,
                                          !.seen = [id |-> r.id, value |-> r.value]]]
    BY <2>1, <1>1 DEF AgentState, TelemetryTypeOK
  <2>4. \/ hits = {} /\ [id |-> r.id, value |-> r.value] = NoRow
        \/ \E q \in hits : [id |-> r.id, value |-> r.value] = [id |-> q.id, value |-> q.value]
    BY <2>1 DEF NoRow
  <2>5. QED
    BY <1>3, <2>2, <2>3, <2>4 DEF Query, TelemetryTypeOK
<1>4. QED
  BY <1>2, <1>3

LEMMA InsertEffect ==
  ASSUME IdsAreUnique, metrics \subseteq Rows, NEW name \in Names, NEW t \in Owners,
         NEW value \in Nat, NewRow(name, t, value)
  PROVE  /\ IdsAreUnique' /\ metrics' \subseteq Rows
         /\ \E new \in Rows : /\ new.value = value
                              /\ RowsToAdd(name, t)' = RowsToAdd(name, t) \cup {new}
         /\ \A n, u : n # name \/ u # t => RowsToAdd(n, u)' = RowsToAdd(n, u)
<1> DEFINE new == [id |-> Cardinality(metrics) + 1, name |-> name, task |-> t, value |-> value]
<1>1. metrics' = metrics \cup {new}
  BY DEF NewRow
<1>2. new \in Rows /\ new.id = Cardinality(metrics) + 1 /\ new.name = name /\ new.task = t
      /\ new.value = value
  BY DEF Rows, IdsAreUnique
<1>3. new \notin metrics
  BY <1>2 DEF IdsAreUnique
<1> HIDE DEF new
<1>4. IsFiniteSet(metrics') /\ Cardinality(metrics') = Cardinality(metrics) + 1
  BY <1>1, <1>3, FS_AddElement DEF IdsAreUnique
<1>5. IdsAreUnique'
  <2>1. \A r \in metrics : r.id \in 1..Cardinality(metrics) /\ r.id # new.id
    BY <1>2 DEF IdsAreUnique
  <2>2. \A r, q \in metrics' : r.id = q.id => r = q
    BY <1>1, <2>1 DEF IdsAreUnique
  <2>3. \A r \in metrics' : r.id \in 1..Cardinality(metrics')
    BY <1>1, <1>2, <1>4, <2>1 DEF IdsAreUnique
  <2>4. QED
    BY <1>4, <2>2, <2>3 DEF IdsAreUnique
<1>6. RowsToAdd(name, t)' = RowsToAdd(name, t) \cup {new}
  BY <1>1, <1>2 DEF RowsToAdd
<1>7. \A n, u : n # name \/ u # t => RowsToAdd(n, u)' = RowsToAdd(n, u)
  BY <1>1, <1>2 DEF RowsToAdd
<1>8. QED
  BY <1>1, <1>2, <1>5, <1>6, <1>7

LEMMA WriteBackEffect ==
  ASSUME IdsAreUnique, metrics \subseteq Rows, NEW a \in Agents, NEW name, NEW t,
         agent[a].seen.value \in Nat, NEW old \in RowsToAdd(name, t), old.id = agent[a].seen.id,
         WriteBack(a)
  PROVE  /\ IdsAreUnique' /\ metrics' \subseteq Rows
         /\ \E new \in Rows : /\ new.value = agent[a].seen.value + 1 /\ new.id = old.id
                              /\ RowsToAdd(name, t)' = (RowsToAdd(name, t) \ {old}) \cup {new}
         /\ \A n, u : n # name \/ u # t => RowsToAdd(n, u)' = RowsToAdd(n, u)
<1> DEFINE new == [old EXCEPT !.value = agent[a].seen.value + 1]
<1>1. old \in metrics /\ old.name = name /\ old.task = t /\ old \in Rows
  BY DEF RowsToAdd
<1>2. /\ new \in Rows /\ new.id = old.id /\ new.name = name /\ new.task = t
      /\ new.value = agent[a].seen.value + 1
  BY <1>1 DEF Rows
<1>3. metrics' = (metrics \ {old}) \cup {new}
  <2>1. \A r \in metrics : r.id = agent[a].seen.id <=> r = old
    BY <1>1 DEF IdsAreUnique
  <2>2. metrics' = {IF r = old THEN new ELSE r : r \in metrics}
    BY <2>1 DEF WriteBack
  <2>3. QED
    BY <1>1, <2>2
<1> HIDE DEF new
<1>4. new \notin metrics \ {old}
  BY <1>1, <1>2 DEF IdsAreUnique
<1>5. IsFiniteSet(metrics') /\ Cardinality(metrics') = Cardinality(metrics)
  <2>1. /\ IsFiniteSet(metrics \ {old}) 
        /\ Cardinality(metrics \ {old}) = Cardinality(metrics) - 1
    BY <1>1, FS_RemoveElement DEF IdsAreUnique
  <2>2. Cardinality(metrics') = Cardinality(metrics \ {old}) + 1 /\ IsFiniteSet(metrics')
    BY <1>3, <1>4, <2>1, FS_AddElement
  <2>3. QED
    BY <2>1, <2>2 DEF IdsAreUnique
<1>6. IdsAreUnique'
  <2>1. \A r \in metrics' : r.id \in 1..Cardinality(metrics)
    BY <1>1, <1>2, <1>3 DEF IdsAreUnique
  <2>2. \A r \in metrics \ {old} : r.id # new.id
    BY <1>1, <1>2 DEF IdsAreUnique
  <2>3. \A r, q \in metrics' : r.id = q.id => r = q
    BY <1>3, <2>2 DEF IdsAreUnique
  <2>4. Cardinality(metrics') \in Nat
    BY <1>5 DEF IdsAreUnique
  <2>5. QED
    BY <1>5, <2>1, <2>3, <2>4 DEF IdsAreUnique
<1>7. RowsToAdd(name, t)' = (RowsToAdd(name, t) \ {old}) \cup {new}
  BY <1>1, <1>2, <1>3 DEF RowsToAdd
<1>8. \A n, u : n # name \/ u # t => RowsToAdd(n, u)' = RowsToAdd(n, u)
  BY <1>1, <1>2, <1>3 DEF RowsToAdd
<1>9. QED
  BY <1>2, <1>3, <1>6, <1>7, <1>8

-----------------------------------------------------------------------------
(* Types *)

LEMMA IdleState ==
  /\ Idle \in AgentState /\ Idle.pc = "idle" /\ Idle.span = 0
  /\ NoRow \in [id : Nat, value : Nat] /\ NoRow.id = 0
  BY TelemetryAssumption DEF Idle, AgentState, NoRow, Owners

(* The state of an agent that has just opened its span *)
LEMMA OpenState ==
  ASSUME TelemetryTypeOK, NEW a \in Agents, NEW t \in Owners, OpenSpan(a, t)
  PROVE  \E new \in AgentState :
           /\ agent' = [agent EXCEPT ![a] = new]
           /\ new.pc = "open" /\ new.span = spans + 1 /\ new.task = t /\ new.prev = activeSpan
<1> DEFINE new == [Idle EXCEPT !.pc = "open", !.span = spans + 1, !.task = t, !.prev = activeSpan]
<1>1. spans + 1 \in 0..MaxSpans /\ activeSpan \in 0..MaxSpans /\ 0 \in 0..MaxGen
  BY TelemetryAssumption DEF OpenSpan, TelemetryTypeOK
<1>2. Idle \in AgentState
  BY IdleState
<1>3. new \in AgentState
  BY <1>1, <1>2 DEF AgentState
<1>4. new.pc = "open" /\ new.span = spans + 1 /\ new.task = t /\ new.prev = activeSpan
  BY <1>2 DEF AgentState
<1>5. agent' = [agent EXCEPT ![a] = new]
  BY DEF OpenSpan
<1>6. QED
  BY <1>3, <1>4, <1>5

LEMMA TelemetryTypedInit == ASSUME TelemetryInit PROVE TelemetryTyped
<1>1. TelemetryTypeOK
  BY IdleState, TelemetryAssumption DEF TelemetryInit, TelemetryTypeOK, AgentState
<1>2. IdsAreUnique
  BY FS_EmptySet DEF TelemetryInit, IdsAreUnique
<1>3. RoomForGeneration
  BY IdleState DEF TelemetryInit, RoomForGeneration
<1>4. QED
  BY <1>1, <1>2, <1>3 DEF TelemetryTyped

(* A query leaves the types alone and does not start a generation without room. *)
LEMMA QueryTyped ==
  ASSUME TelemetryTyped, NEW a \in Agents, NEW hits,
         NEW pc \in {"adding", "once", "closing"}, NEW onError \in {"raised", "idle"},
         pc = "adding" => agent[a].gens < MaxGen,
         hits \subseteq metrics, Query(a, hits, pc, onError)
  PROVE  /\ agent' \in [Agents -> AgentState] /\ RoomForGeneration'
         /\ failed' \subseteq Owners /\ overlapped' \subseteq Owners
<1>1. agent \in [Agents -> AgentState] /\ agent[a] \in AgentState
  BY DEF TelemetryTyped, TelemetryTypeOK, AgentState
<1>2. PICK new \in AgentState :
        /\ agent' = [agent EXCEPT ![a] = new] /\ new.gens = agent[a].gens
        /\ new.pc = onError \/ new.pc = pc
  <2> TelemetryTypeOK
    BY DEF TelemetryTyped
  <2>1. CASE Cardinality(hits) > 1
    <3>1. /\ agent' = [agent EXCEPT ![a] = [agent[a] EXCEPT !.pc = onError]]
          /\ failed' = failed \cup {agent[a].task}
      BY <2>1, QueryEffect
    <3>2. /\ [agent[a] EXCEPT !.pc = onError] \in AgentState
          /\ [agent[a] EXCEPT !.pc = onError].gens = agent[a].gens
          /\ [agent[a] EXCEPT !.pc = onError].pc = onError
      BY <1>1 DEF AgentState
    <3>3. QED
      BY <3>1, <3>2
  <2>2. CASE ~(Cardinality(hits) > 1)
    <3>1. PICK seen \in [id : Nat, value : Nat] :
            /\ agent' = [agent EXCEPT ![a] = [agent[a] EXCEPT !.pc = pc, !.seen = seen]]
            /\ (hits = {} /\ seen = NoRow) \/ \E r \in hits : seen = [id |-> r.id, value |-> r.value]
      BY <2>2, QueryEffect
    <3>2. /\ [agent[a] EXCEPT !.pc = pc, !.seen = seen] \in AgentState
          /\ [agent[a] EXCEPT !.pc = pc, !.seen = seen].gens = agent[a].gens
          /\ [agent[a] EXCEPT !.pc = pc, !.seen = seen].pc = pc
      BY <1>1 DEF AgentState
    <3>3. QED
      BY <3>1, <3>2
  <2>3. QED
    BY <2>1, <2>2
<1>3. agent' \in [Agents -> AgentState]
  BY <1>1, <1>2
<1>4. RoomForGeneration'
  BY <1>1, <1>2 DEF RoomForGeneration, TelemetryTyped
<1>5. failed' \subseteq Owners /\ overlapped' \subseteq Owners
  <2>1. agent[a].task \in Owners
    BY <1>1 DEF AgentState
  <2>2. QED
    BY <2>1 DEF Query, NoteOverlap, TelemetryTyped, TelemetryTypeOK
<1>6. QED
  BY <1>3, <1>4, <1>5

(* What the agent has in hand when it commits. *)
LEMMA InsertTyped ==
  ASSUME TelemetryTyped, NEW a \in Agents, NEW name \in Names, NEW value \in Nat,
         InsertOnce(a, name, value)
  PROVE  metrics' \subseteq Rows /\ IdsAreUnique'
<1>1. agent[a].task \in Owners
  BY DEF TelemetryTyped, TelemetryTypeOK
<1>2. CASE NewRow(name, agent[a].task, value)
  BY <1>1, <1>2, InsertEffect DEF TelemetryTyped, TelemetryTypeOK
<1>3. CASE UNCHANGED metrics
  BY <1>3 DEF TelemetryTyped, TelemetryTypeOK, IdsAreUnique
<1>4. QED
  BY <1>2, <1>3 DEF InsertOnce

LEMMA WriteBackTyped ==
  ASSUME TelemetryTyped, NEW a \in Agents, WriteBack(a)
  PROVE  metrics' \subseteq Rows /\ IdsAreUnique'
<1>1. agent[a].seen.value \in Nat /\ metrics \subseteq Rows /\ IdsAreUnique
  BY DEF TelemetryTyped, TelemetryTypeOK
<1>2. ASSUME NEW old \in metrics, old.id = agent[a].seen.id
      PROVE  metrics' \subseteq Rows /\ IdsAreUnique'
  <2>1. old \in RowsToAdd(old.name, old.task)
    BY <1>2 DEF RowsToAdd
  <2>2. QED
    BY <1>1, <1>2, <2>1, WriteBackEffect
<1>3. CASE \A old \in metrics : old.id # agent[a].seen.id
  <2>1. metrics' = metrics
    BY <1>3 DEF WriteBack
  <2>2. QED
    BY <1>1, <2>1 DEF IdsAreUnique
<1>4. QED
  BY <1>2, <1>3

LEMMA TelemetryTypedStep ==
  ASSUME TelemetryTyped, [TelemetryNext]_telemetryVars
  PROVE  TelemetryTyped'
<1> USE DEF TelemetryTyped, TelemetryTypeOK
<1> agent \in [Agents -> AgentState] /\ metrics \subseteq Rows
  BY DEF AgentState
<1>1. ASSUME NEW a \in Agents, NEW t \in Owners, OpenSpan(a, t) PROVE TelemetryTyped'
  <2>1. spans + 1 \in 1..MaxSpans
    BY <1>1, TelemetryAssumption DEF OpenSpan
  <2>2. PICK new \in AgentState : new.pc = "open" /\ agent' = [agent EXCEPT ![a] = new]
    BY <1>1, OpenState
  <2>4. agent' \in [Agents -> AgentState] /\ RoomForGeneration'
    BY <2>2 DEF RoomForGeneration
  <2>5. IdsAreUnique'
    BY <1>1 DEF OpenSpan, IdsAreUnique
  <2>6. QED
    BY <1>1, <2>1, <2>4, <2>5 DEF OpenSpan, AgentState
<1>2. ASSUME NEW a \in Agents, BeginGeneration(a) PROVE TelemetryTyped'
  <2>1. /\ RowsOnce("tokens", agent[a].task) \subseteq metrics
        /\ RowsToAdd("tokens", agent[a].task) \subseteq metrics
    BY DEF RowsOnce, RowsToAdd
  <2>2. agent[a].gens < MaxGen
    BY <1>2 DEF BeginGeneration
  <2>3. /\ agent' \in [Agents -> AgentState] /\ RoomForGeneration'
        /\ failed' \subseteq Owners /\ overlapped' \subseteq Owners
    <3>1. CASE agent[a].task = NoTask
      BY <1>2, <2>1, <2>2, <3>1, QueryTyped DEF BeginGeneration
    <3>2. CASE agent[a].task # NoTask
      BY <1>2, <2>1, <2>2, <3>2, QueryTyped DEF BeginGeneration
    <3>3. QED
      BY <3>1, <3>2
  <2>4. QED
    BY <1>2, <2>3 DEF BeginGeneration, AgentState, spanVars, IdsAreUnique
<1>3. ASSUME NEW a \in Agents, CommitGeneration(a) PROVE TelemetryTyped'
  <2>1. metrics' \subseteq Rows /\ IdsAreUnique'
    <3>1. CASE agent[a].task = NoTask \/ agent[a].seen = NoRow
      BY <1>3, <3>1, InsertTyped DEF CommitGeneration, Names
    <3>2. CASE ~(agent[a].task = NoTask \/ agent[a].seen = NoRow)
      BY <1>3, <3>2, WriteBackTyped DEF CommitGeneration
    <3>3. QED
      BY <3>1, <3>2
  <2>2. agent[a] \in AgentState /\ agent[a].gens < MaxGen
    BY <1>3 DEF CommitGeneration, RoomForGeneration
  <2>3. agent' = [agent EXCEPT ![a] = [agent[a] EXCEPT !.pc = "open", !.gens = agent[a].gens + 1]]
    BY <1>3, <2>2 DEF CommitGeneration
  <2>4. agent[a].gens + 1 \in 0..MaxGen
    BY <2>2, TelemetryAssumption DEF AgentState
  <2>8. /\ [agent[a] EXCEPT !.pc = "open", !.gens = agent[a].gens + 1] \in AgentState
        /\ [agent[a] EXCEPT !.pc = "open", !.gens = agent[a].gens + 1].pc = "open"
    BY <2>2, <2>4 DEF AgentState
  <2>5. agent' \in [Agents -> AgentState] /\ RoomForGeneration'
    BY <2>3, <2>8 DEF RoomForGeneration
  <2>6. counted' \in [Owners -> Nat] /\ nested' \subseteq (0..MaxSpans) \X (0..MaxSpans)
    BY <1>3, <2>2 DEF CommitGeneration, AgentState
  <2>7. QED
    BY <1>3, <2>1, <2>5, <2>6 DEF CommitGeneration, AgentState
<1>4. ASSUME NEW a \in Agents, ReadTokens(a) PROVE TelemetryTyped'
  <2>1. PICK value \in Nat :
          agent' = [agent EXCEPT ![a] = [agent[a] EXCEPT !.pc = "measured", !.read = value]]
    <3>1. PICK r \in IF RowsToAdd("tokens", agent[a].task) = {} THEN {NoRow}
                     ELSE RowsToAdd("tokens", agent[a].task) :
            agent' = [agent EXCEPT ![a].pc = "measured", ![a].read = r.value]
      BY <1>4 DEF ReadTokens
    <3>2. r.value \in Nat
      BY <3>1, IdleState DEF RowsToAdd, Rows
    <3>3. QED
      BY <3>1, <3>2
  <2>2. /\ [agent[a] EXCEPT !.pc = "measured", !.read = value] \in AgentState
        /\ [agent[a] EXCEPT !.pc = "measured", !.read = value].pc = "measured"
    BY <2>1 DEF AgentState
  <2>3. agent' \in [Agents -> AgentState] /\ RoomForGeneration'
    BY <2>1, <2>2 DEF RoomForGeneration
  <2>4. QED
    BY <1>4, <2>3 DEF ReadTokens, AgentState, spanVars, IdsAreUnique
<1>5. ASSUME NEW a \in Agents, BeginEnergy(a) PROVE TelemetryTyped'
  <2>1. RowsOnce("energy", agent[a].task) \subseteq metrics
    BY DEF RowsOnce
  <2>2. /\ agent' \in [Agents -> AgentState] /\ RoomForGeneration'
        /\ failed' \subseteq Owners /\ overlapped' \subseteq Owners
    BY <1>5, <2>1, QueryTyped DEF BeginEnergy
  <2>3. QED
    BY <1>5, <2>2 DEF BeginEnergy, AgentState, spanVars, IdsAreUnique
<1>6. ASSUME NEW a \in Agents, CommitEnergy(a) PROVE TelemetryTyped'
  <2>1. metrics' \subseteq Rows /\ IdsAreUnique'
    BY <1>6, InsertTyped DEF CommitEnergy, Names, AgentState
  <2>2. agent' \in [Agents -> AgentState] /\ RoomForGeneration'
    BY <1>6 DEF CommitEnergy, AgentState, RoomForGeneration
  <2>3. QED
    BY <1>6, <2>1, <2>2 DEF CommitEnergy, AgentState, spanVars
<1>7. ASSUME NEW a \in Agents, CloseSpan(a) PROVE TelemetryTyped'
  <2>1. RowsOnce("latency", agent[a].task) \subseteq metrics
    BY DEF RowsOnce
  <2>2. /\ agent' \in [Agents -> AgentState] /\ RoomForGeneration'
        /\ failed' \subseteq Owners /\ overlapped' \subseteq Owners
    BY <1>7, <2>1, QueryTyped DEF CloseSpan
  <2>3. activeSpan' \in 0..MaxSpans /\ spansCrossed' \in BOOLEAN
    BY <1>7 DEF CloseSpan, AgentState
  <2>4. QED
    BY <1>7, <2>2, <2>3 DEF CloseSpan, AgentState, IdsAreUnique
<1>8. ASSUME NEW a \in Agents, EndSpan(a) PROVE TelemetryTyped'
  <2>1. metrics' \subseteq Rows /\ IdsAreUnique'
    BY <1>8, InsertTyped DEF EndSpan, Names
  <2>2. agent' \in [Agents -> AgentState] /\ RoomForGeneration'
    BY <1>8, IdleState DEF EndSpan, RoomForGeneration
  <2>3. QED
    BY <1>8, <2>1, <2>2 DEF EndSpan, AgentState
<1>9. CASE UNCHANGED telemetryVars
  BY <1>9 DEF telemetryVars, spanVars, IdsAreUnique, RoomForGeneration
<1>10. QED
  BY <1>1, <1>2, <1>3, <1>4, <1>5, <1>6, <1>7, <1>8, <1>9 DEF TelemetryNext

(* Metrics, spans and agents stay in their ranges; ids are unique although they
   are given by counting rows, since no row is ever deleted. *)
THEOREM TelemetryIsTyped == TelemetrySpec => []TelemetryTyped
  BY TelemetryTypedInit, TelemetryTypedStep, PTL DEF TelemetrySpec

-----------------------------------------------------------------------------
(* Attribution *)

(* Where an agent stands in its span is not changed by what it records. *)
SameSpan(b) ==
  /\ agent'[b].span = agent[b].span /\ agent'[b].prev = agent[b].prev
  /\ Open(b)' <=> Open(b)
  /\ Inside(b)' <=> Inside(b)

LEMMA OthersSpan ==
  ASSUME NEW a \in Agents, \A b \in Agents : b # a => agent'[b] = agent[b]
  PROVE  \A b \in Agents : b # a => SameSpan(b)
  BY DEF SameSpan, Open, Inside

(* A query keeps the span of its agent. *)
LEMMA QuerySpan ==
  ASSUME TelemetryTypeOK, NEW a \in Agents, NEW hits, NEW pc, NEW onError,
         hits \subseteq metrics, Query(a, hits, pc, onError)
  PROVE  /\ \A b \in Agents : b # a => SameSpan(b)
         /\ agent'[a].span = agent[a].span /\ agent'[a].prev = agent[a].prev
         /\ agent'[a].pc \in {pc, onError}
<1>1. agent[a] \in AgentState /\ agent \in [Agents -> AgentState]
  BY DEF TelemetryTypeOK, AgentState
<1>2. CASE Cardinality(hits) > 1
  <2>1. /\ agent' = [agent EXCEPT ![a] = [agent[a] EXCEPT !.pc = onError]]
        /\ failed' = failed \cup {agent[a].task}
    BY <1>2, QueryEffect
  <2>2. QED
    BY <1>1, <2>1, OthersSpan DEF AgentState
<1>3. CASE ~(Cardinality(hits) > 1)
  <2>1. PICK seen \in [id : Nat, value : Nat] :
          /\ agent' = [agent EXCEPT ![a] = [agent[a] EXCEPT !.pc = pc, !.seen = seen]]
          /\ (hits = {} /\ seen = NoRow) \/ \E r \in hits : seen = [id |-> r.id, value |-> r.value]
    BY <1>3, QueryEffect
  <2>2. QED
    BY <1>1, <2>1, OthersSpan DEF AgentState
<1>4. QED
  BY <1>2, <1>3

(* What an agent records inside its span leaves all spans alone; a generation
   is noted below the span that is active. *)
LEMMA RecordingSpan ==
  ASSUME TelemetryTypeOK, NEW a \in Agents,
         \/ BeginGeneration(a) \/ CommitGeneration(a) \/ ReadTokens(a)
         \/ BeginEnergy(a) \/ CommitEnergy(a)
  PROVE  /\ \A b \in Agents : SameSpan(b)
         /\ UNCHANGED <<spans, activeSpan, openSpans, spansShared, spansCrossed>>
         /\ \/ nested' = nested
            \/ Inside(a) /\ nested' = nested \cup {<<agent[a].span, activeSpan>>}
<1>1. agent[a] \in AgentState /\ agent \in [Agents -> AgentState]
  BY DEF TelemetryTypeOK, AgentState
<1>2. CASE BeginGeneration(a)
  <2>1. PICK hits : hits \subseteq metrics /\ Query(a, hits, "adding", "raised")
    BY <1>2 DEF BeginGeneration, RowsOnce, RowsToAdd
  <2>2. SameSpan(a)
    BY <1>2, <2>1, QuerySpan DEF BeginGeneration, SameSpan, Open, Inside
  <2>3. QED
    BY <1>2, <2>1, <2>2, QuerySpan DEF BeginGeneration, spanVars
<1>3. CASE CommitGeneration(a)
  <2>1. agent' = [agent EXCEPT ![a] = [agent[a] EXCEPT !.pc = "open", !.gens = agent[a].gens + 1]]
    BY <1>1, <1>3 DEF CommitGeneration
  <2>2. SameSpan(a)
    BY <1>1, <1>3, <2>1 DEF CommitGeneration, SameSpan, Open, Inside, AgentState
  <2>3. QED
    BY <1>1, <1>3, <2>1, <2>2, OthersSpan DEF CommitGeneration, Inside
<1>4. CASE ReadTokens(a)
  <2>1. PICK value : agent' = [agent EXCEPT ![a] = [agent[a] EXCEPT !.pc = "measured", !.read = value]]
    BY <1>1, <1>4 DEF ReadTokens
  <2>2. SameSpan(a)
    BY <1>1, <1>4, <2>1 DEF ReadTokens, SameSpan, Open, Inside, AgentState
  <2>3. QED
    BY <1>1, <1>4, <2>1, <2>2, OthersSpan DEF ReadTokens, spanVars
<1>5. CASE BeginEnergy(a)
  <2>1. RowsOnce("energy", agent[a].task) \subseteq metrics
    BY DEF RowsOnce
  <2>2. SameSpan(a)
    BY <1>5, <2>1, QuerySpan DEF BeginEnergy, SameSpan, Open, Inside
  <2>3. QED
    BY <1>5, <2>1, <2>2, QuerySpan DEF BeginEnergy, spanVars
<1>6. CASE CommitEnergy(a)
  <2>1. agent' = [agent EXCEPT ![a] = [agent[a] EXCEPT !.pc = "done"]]
    BY <1>1, <1>6 DEF CommitEnergy
  <2>2. SameSpan(a)
    BY <1>1, <1>6, <2>1 DEF CommitEnergy, SameSpan, Open, Inside, AgentState
  <2>3. QED
    BY <1>1, <1>6, <2>1, <2>2, OthersSpan DEF CommitEnergy, spanVars
<1>7. QED
  BY <1>2, <1>3, <1>4, <1>5, <1>6

LEMMA SpansInit == ASSUME TelemetryInit PROVE SpansInv
<1>1. \A a \in Agents : ~Open(a) /\ ~Inside(a)
  BY IdleState DEF TelemetryInit, Open, Inside
<1>2. QED
  BY <1>1 DEF TelemetryInit, SpansInv, SpansAreOrdered, AloneInside, SpansAreNested, AttributionIsRight

(* The four kinds of steps: a span is opened, kept, closed or ended. *)
LEMMA OpenKeepsSpans ==
  ASSUME TelemetryTyped, SpansInv, NEW a \in Agents, NEW t \in Owners, OpenSpan(a, t)
  PROVE  SpansInv'
<1> TelemetryTypeOK
  BY DEF TelemetryTyped
<1>1. PICK new \in AgentState :
        /\ agent' = [agent EXCEPT ![a] = new]
        /\ new.pc = "open" /\ new.span = spans + 1 /\ new.task = t /\ new.prev = activeSpan
  BY OpenState
<1>2. agent'[a] = new /\ \A b \in Agents : b # a => agent'[b] = agent[b]
  BY <1>1 DEF TelemetryTypeOK
<1>3. /\ ~Open(a) /\ ~Inside(a) /\ Open(a)' /\ Inside(a)'
      /\ agent'[a].span = spans + 1 /\ agent'[a].prev = activeSpan
      /\ \A b \in Agents : b # a => SameSpan(b)
  BY <1>1, <1>2, OthersSpan DEF OpenSpan, Open, Inside
<1>4. /\ spans \in Nat /\ activeSpan \in Nat /\ openSpans \subseteq Nat
      /\ \A b \in Agents : agent[b].span \in Nat /\ agent[b].prev \in Nat
  BY TelemetryAssumption DEF TelemetryTypeOK
<1>5. /\ spans' = spans + 1 /\ activeSpan' = spans + 1 /\ openSpans' = openSpans \cup {spans + 1}
      /\ spansShared' = (spansShared \/ openSpans # {}) /\ spansCrossed' = spansCrossed
      /\ nested' = nested
  BY DEF OpenSpan
<1> USE DEF SameSpan
<1>6. SpansAreOrdered'
  BY <1>3, <1>4, <1>5 DEF SpansInv, SpansAreOrdered
<1>7. AloneInside'
  <2>1. SUFFICES ASSUME ~spansShared' PROVE \A b \in Agents : Open(b)' =>
                   openSpans' = {agent'[b].span} /\ (Inside(b)' => activeSpan' = agent'[b].span)
    BY DEF AloneInside
  <2>2. openSpans = {}
    BY <1>5, <2>1
  <2>3. \A b \in Agents : b # a => ~Open(b)'
    BY <1>3, <2>2 DEF SpansInv, SpansAreOrdered
  <2>4. QED
    BY <1>3, <1>5, <2>2, <2>3
<1>8. SpansAreNested'
  <2>1. SUFFICES ASSUME ~spansCrossed
                 PROVE  /\ activeSpan' = 0 \/ \E b \in Agents : Inside(b)' /\ agent'[b].span = activeSpan'
                        /\ \A b \in Agents : Inside(b)' =>
                             /\ agent'[b].span <= activeSpan'
                             /\ \/ agent'[b].prev = 0
                                \/ \E c \in Agents : Inside(c)' /\ agent'[c].span = agent'[b].prev
                             /\ \A c \in Agents : Inside(c)' /\ agent'[c].span < agent'[b].span =>
                                  agent'[c].span <= agent'[b].prev
    BY <1>5 DEF SpansAreNested
  <2>2. /\ activeSpan = 0 \/ \E b \in Agents : Inside(b) /\ agent[b].span = activeSpan
        /\ \A b \in Agents : Inside(b) =>
             /\ agent[b].span <= activeSpan /\ agent[b].span <= spans
             /\ agent[b].prev = 0 \/ \E c \in Agents : Inside(c) /\ agent[c].span = agent[b].prev
             /\ \A c \in Agents : Inside(c) /\ agent[c].span < agent[b].span =>
                  agent[c].span <= agent[b].prev
    BY <2>1 DEF SpansInv, SpansAreNested, SpansAreOrdered, Inside, Open
  <2>3. ASSUME NEW b \in Agents, b # a, Inside(b)'
        PROVE  /\ agent'[b].span <= activeSpan'
               /\ agent'[b].prev = 0 \/ \E c \in Agents : Inside(c)' /\ agent'[c].span = agent'[b].prev
               /\ \A c \in Agents : Inside(c)' /\ agent'[c].span < agent'[b].span =>
                    agent'[c].span <= agent'[b].prev
    <3>1. Inside(b) /\ agent'[b].span = agent[b].span /\ agent'[b].prev = agent[b].prev
      BY <1>3, <2>3
    <3>2. agent[b].span <= spans
      BY <2>2, <3>1
    <3>3. agent'[b].span <= activeSpan'
      BY <1>4, <1>5, <3>1, <3>2
    <3>4. agent'[b].prev = 0 \/ \E c \in Agents : Inside(c)' /\ agent'[c].span = agent'[b].prev
      BY <1>3, <2>2, <3>1
    <3>5. \A c \in Agents : Inside(c)' /\ agent'[c].span < agent'[b].span =>
            agent'[c].span <= agent'[b].prev
      BY <1>3, <1>4, <2>2, <3>1, <3>2
    <3>6. QED
      BY <3>3, <3>4, <3>5
  <2>4. /\ agent'[a].span <= activeSpan'
        /\ agent'[a].prev = 0 \/ \E c \in Agents : Inside(c)' /\ agent'[c].span = agent'[a].prev
        /\ \A c \in Agents : Inside(c)' /\ agent'[c].span < agent'[a].span =>
             agent'[c].span <= agent'[a].prev
    BY <1>3, <1>4, <1>5, <2>2
  <2>5. QED
    BY <1>3, <1>5, <2>3, <2>4
<1>9. AttributionIsRight'
  BY <1>3, <1>5 DEF SpansInv, AttributionIsRight, Open
<1>10. QED
  BY <1>6, <1>7, <1>8, <1>9 DEF SpansInv

LEMMA RecordingKeepsSpans ==
  ASSUME TelemetryTyped, SpansInv, NEW a \in Agents,
         \A b \in Agents : SameSpan(b),
         UNCHANGED <<spans, activeSpan, openSpans, spansShared, spansCrossed>>,
         \/ nested' = nested
         \/ Inside(a) /\ nested' = nested \cup {<<agent[a].span, activeSpan>>}
  PROVE  SpansInv'
<1> USE DEF SameSpan
<1>1. SpansAreOrdered'
  BY DEF SpansInv, SpansAreOrdered
<1>2. AloneInside'
  BY DEF SpansInv, AloneInside
<1>3. SpansAreNested'
  BY DEF SpansInv, SpansAreNested
<1>4. \A n \in nested' : n[2] = n[1] \/ spansShared'
  <2>1. Inside(a) => activeSpan = agent[a].span \/ spansShared
    BY DEF SpansInv, AloneInside, Inside, Open
  <2>2. QED
    BY <2>1 DEF SpansInv, AttributionIsRight
<1>5. activeSpan' = 0 \/ spansCrossed' \/ \E b \in Agents : agent'[b].span = activeSpan' /\ Open(b)'
  BY DEF SpansInv, AttributionIsRight, Open
<1>6. QED
  BY <1>1, <1>2, <1>3, <1>4, <1>5 DEF SpansInv, AttributionIsRight, Open

(* A span that closes while it is active uncovers its predecessor. *)
LEMMA CloseKeepsSpans ==
  ASSUME TelemetryTyped, SpansInv, NEW a \in Agents, CloseSpan(a)
  PROVE  SpansInv'
<1> TelemetryTypeOK
  BY DEF TelemetryTyped
<1>1. RowsOnce("latency", agent[a].task) \subseteq metrics
  BY DEF RowsOnce
<1>2. /\ \A b \in Agents : b # a => SameSpan(b)
      /\ agent'[a].span = agent[a].span /\ agent'[a].prev = agent[a].prev
      /\ agent'[a].pc \in {"closing", "idle"}
  BY <1>1, QuerySpan DEF CloseSpan
<1>3. Inside(a) /\ Open(a) /\ ~Inside(a)'
  BY <1>2 DEF CloseSpan, Inside, Open
<1>4. /\ spans \in Nat /\ activeSpan \in Nat /\ openSpans \subseteq Nat
      /\ \A b \in Agents : agent[b].span \in Nat /\ agent[b].prev \in Nat
  BY TelemetryAssumption DEF TelemetryTypeOK
<1>5. /\ activeSpan' = agent[a].prev /\ spansCrossed' = (spansCrossed \/ activeSpan # agent[a].span)
      /\ UNCHANGED <<spans, openSpans, nested, spansShared>>
  BY DEF CloseSpan
<1> USE DEF SameSpan
<1>6. SpansAreOrdered'
  <2>1. agent[a].prev < agent[a].span /\ agent[a].span <= spans
    BY <1>3 DEF SpansInv, SpansAreOrdered
  <2>2. activeSpan' <= spans'
    BY <1>4, <1>5, <2>1
  <2>3. QED
    BY <1>2, <1>3, <1>5, <2>2 DEF SpansInv, SpansAreOrdered
<1>7. AloneInside'
  <2>1. SUFFICES ASSUME ~spansShared' PROVE \A b \in Agents : Open(b)' =>
                   openSpans' = {agent'[b].span} /\ (Inside(b)' => activeSpan' = agent'[b].span)
    BY DEF AloneInside
  <2>2. \A b \in Agents : Open(b) => openSpans = {agent[b].span}
    BY <1>5, <2>1 DEF SpansInv, AloneInside
  <2>3. \A b \in Agents : Open(b) => b = a
    BY <1>3, <2>2 DEF SpansInv, SpansAreOrdered
  <2>4. QED
    BY <1>2, <1>3, <1>5, <2>2, <2>3
<1>8. SpansAreNested' /\ (activeSpan' = 0 \/ spansCrossed'
                            \/ \E b \in Agents : Inside(b)' /\ agent'[b].span = activeSpan')
  <2>1. SUFFICES ASSUME ~spansCrossed, activeSpan = agent[a].span
                 PROVE  /\ activeSpan' = 0 \/ \E b \in Agents : Inside(b)' /\ agent'[b].span = activeSpan'
                        /\ \A b \in Agents : Inside(b)' =>
                             /\ agent'[b].span <= activeSpan'
                             /\ \/ agent'[b].prev = 0
                                \/ \E c \in Agents : Inside(c)' /\ agent'[c].span = agent'[b].prev
                             /\ \A c \in Agents : Inside(c)' /\ agent'[c].span < agent'[b].span =>
                                  agent'[c].span <= agent'[b].prev
    BY <1>5 DEF SpansAreNested
  <2>2. \A b \in Agents : Inside(b) =>
             /\ agent[b].span <= activeSpan /\ agent[b].prev < agent[b].span
             /\ agent[b].prev = 0 \/ \E c \in Agents : Inside(c) /\ agent[c].span = agent[b].prev
             /\ \A c \in Agents : Inside(c) /\ agent[c].span < agent[b].span =>
                  agent[c].span <= agent[b].prev
    BY <2>1 DEF SpansInv, SpansAreNested, SpansAreOrdered, Inside, Open
  <2>3. ASSUME NEW b \in Agents, Inside(b)'
        PROVE  /\ b # a /\ Inside(b) /\ agent[b].span < agent[a].span
               /\ agent'[b].span = agent[b].span /\ agent'[b].prev = agent[b].prev
    <3>1. b # a /\ Inside(b)
      BY <1>2, <1>3, <2>3
    <3>2. agent[b].span # agent[a].span
      BY <1>3, <3>1 DEF SpansInv, SpansAreOrdered, Inside, Open
    <3>3. QED
      BY <1>2, <1>4, <2>1, <2>2, <3>1, <3>2
  <2>4. activeSpan' = 0 \/ \E b \in Agents : Inside(b)' /\ agent'[b].span = activeSpan'
    <3>1. CASE agent[a].prev = 0
      BY <1>5, <3>1
    <3>2. CASE agent[a].prev # 0
      <4>1. PICK c \in Agents : Inside(c) /\ agent[c].span = agent[a].prev
        BY <1>3, <2>2, <3>2
      <4>2. c # a
        BY <1>3, <1>4, <2>2, <4>1
      <4>3. QED
        BY <1>2, <1>5, <4>1, <4>2
    <3>3. QED
      BY <3>1, <3>2
  <2>5. ASSUME NEW b \in Agents, Inside(b)'
        PROVE  /\ agent'[b].span <= activeSpan'
               /\ agent'[b].prev = 0 \/ \E c \in Agents : Inside(c)' /\ agent'[c].span = agent'[b].prev
               /\ \A c \in Agents : Inside(c)' /\ agent'[c].span < agent'[b].span =>
                    agent'[c].span <= agent'[b].prev
    <3>1. /\ b # a /\ Inside(b) /\ agent[b].span < agent[a].span
          /\ agent'[b].span = agent[b].span /\ agent'[b].prev = agent[b].prev
      BY <2>3, <2>5
    <3>2. agent'[b].span <= activeSpan'
      BY <1>3, <1>5, <2>2, <3>1
    <3>3. agent'[b].prev = 0 \/ \E c \in Agents : Inside(c)' /\ agent'[c].span = agent'[b].prev
      <4>1. CASE agent[b].prev = 0
        BY <3>1, <4>1
      <4>2. CASE agent[b].prev # 0
        <5>1. PICK c \in Agents : Inside(c) /\ agent[c].span = agent[b].prev
          BY <2>2, <3>1, <4>2
        <5>2. agent[c].span < agent[a].span
          BY <1>4, <2>2, <3>1, <5>1
        <5>3. c # a
          BY <1>4, <5>2
        <5>4. QED
          BY <1>2, <3>1, <5>1, <5>3
      <4>3. QED
        BY <4>1, <4>2
    <3>4. \A c \in Agents : Inside(c)' /\ agent'[c].span < agent'[b].span =>
            agent'[c].span <= agent'[b].prev
      BY <2>2, <2>3, <3>1
    <3>5. QED
      BY <3>2, <3>3, <3>4
  <2>6. QED
    BY <2>4, <2>5
<1>9. AttributionIsRight'
  BY <1>5, <1>8 DEF SpansInv, AttributionIsRight, Inside
<1>10. QED
  BY <1>6, <1>7, <1>8, <1>9 DEF SpansInv

LEMMA EndKeepsSpans ==
  ASSUME TelemetryTyped, SpansInv, NEW a \in Agents, EndSpan(a)
  PROVE  SpansInv'
<1>1. agent'[a] = Idle /\ \A b \in Agents : b # a => agent'[b] = agent[b]
  BY DEF EndSpan, TelemetryTyped, TelemetryTypeOK
<1>2. /\ Open(a) /\ ~Inside(a) /\ ~Open(a)' /\ ~Inside(a)'
      /\ \A b \in Agents : b # a => SameSpan(b)
  BY <1>1, IdleState, OthersSpan DEF EndSpan, Open, Inside
<1>3. /\ openSpans' = openSpans \ {agent[a].span}
      /\ UNCHANGED <<spans, activeSpan, nested, spansShared, spansCrossed>>
  BY DEF EndSpan
<1> USE DEF SameSpan
<1>4. SpansAreOrdered'
  BY <1>2, <1>3 DEF SpansInv, SpansAreOrdered
<1>5. AloneInside'
  <2>1. SUFFICES ASSUME ~spansShared PROVE \A b \in Agents : ~Open(b)'
    BY <1>3 DEF AloneInside
  <2>2. \A b \in Agents : Open(b) => b = a
    BY <1>2, <2>1 DEF SpansInv, AloneInside, SpansAreOrdered
  <2>3. QED
    BY <1>2, <2>2
<1>6. SpansAreNested' /\ (activeSpan' = 0 \/ spansCrossed'
                            \/ \E b \in Agents : Inside(b)' /\ agent'[b].span = activeSpan')
  <2>1. \A b \in Agents : /\ Inside(b)' <=> Inside(b)
                          /\ Inside(b) => agent'[b].span = agent[b].span /\ agent'[b].prev = agent[b].prev
    BY <1>2
  <2>2. QED
    BY <1>3, <2>1 DEF SpansInv, SpansAreNested
<1>7. AttributionIsRight'
  BY <1>3, <1>6 DEF SpansInv, AttributionIsRight, Inside
<1>8. QED
  BY <1>4, <1>5, <1>6, <1>7 DEF SpansInv

LEMMA SpansStep ==
  ASSUME TelemetryTyped, SpansInv, [TelemetryNext]_telemetryVars
  PROVE  SpansInv'
<1>1. ASSUME NEW a \in Agents,
             \/ BeginGeneration(a) \/ CommitGeneration(a) \/ ReadTokens(a)
             \/ BeginEnergy(a) \/ CommitEnergy(a)
      PROVE  SpansInv'
  BY <1>1, RecordingSpan, RecordingKeepsSpans DEF TelemetryTyped
<1>2. CASE UNCHANGED telemetryVars
  <2>1. /\ UNCHANGED <<spans, activeSpan, openSpans, spansShared, spansCrossed>> /\ nested' = nested
        /\ UNCHANGED agent
    BY <1>2 DEF telemetryVars, spanVars
  <2>2. \A b \in Agents : SameSpan(b)
    BY <2>1 DEF SameSpan, Open, Inside
  <2>3. QED
    BY <2>1, <2>2 DEF SpansInv, SpansAreOrdered, AloneInside, SpansAreNested, AttributionIsRight,
                      SameSpan, Open, Inside
<1>3. QED
  BY <1>1, <1>2, OpenKeepsSpans, CloseKeepsSpans, EndKeepsSpans DEF TelemetryNext

(* However many agents overlap: a generation is recorded below its own span
   unless two spans were open together, and the active span is one that its agent
   is still inside unless spans were closed out of turn. *)
THEOREM AttributionIsAlwaysRight == TelemetrySpec => []AttributionIsRight
<1>1. SpansInv => AttributionIsRight
  BY DEF SpansInv
<1>2. QED
  BY <1>1, SpansInit, SpansStep, TelemetryIsTyped, PTL DEF TelemetrySpec

-----------------------------------------------------------------------------
(* The tokens *)

LEMMA TokensInit == ASSUME TelemetryInit PROVE TokensInv
<1>1. \A a \in Agents : agent[a].pc \notin InTransaction
  BY IdleState DEF TelemetryInit, InTransaction
<1>2. \A name, t : RowsToAdd(name, t) = {}
  BY DEF TelemetryInit, RowsToAdd
<1>3. \A t \in Tasks : counted[t] = 0
  BY DEF TelemetryInit, Owners
<1>4. OverlapsAreKnown /\ ReadsAreRows /\ OneRowEach
  BY <1>1, <1>2 DEF OverlapsAreKnown, ReadsAreRows, OneRowEach
<1>5. TokensAddUp
  BY <1>2, <1>3 DEF TelemetryInit, TokensAddUp
<1>6. QED
  BY <1>4, <1>5 DEF TokensInv

(* Rows depend on the metrics alone. *)
LEMMA SameRows == ASSUME metrics' = metrics PROVE \A name, t : RowsToAdd(name, t)' = RowsToAdd(name, t)
  BY DEF RowsToAdd

(* Outside a transaction nothing is known of the rows. *)
LEMMA QuietKeepsTokens ==
  ASSUME TokensInv, NEW a \in Agents,
         \A b \in Agents : b # a => agent'[b] = agent[b],
         agent'[a].pc \notin InTransaction,
         UNCHANGED <<metrics, counted, failed, overlapped>>
  PROVE  TokensInv'
<1>1. \A name, t : RowsToAdd(name, t)' = RowsToAdd(name, t)
  BY SameRows
<1>2. OverlapsAreKnown'
  BY DEF TokensInv, OverlapsAreKnown
<1>3. ReadsAreRows'
  BY <1>1 DEF TokensInv, ReadsAreRows
<1>4. OneRowEach' /\ TokensAddUp'
  BY <1>1 DEF TokensInv, OneRowEach, TokensAddUp
<1>5. QED
  BY <1>2, <1>3, <1>4 DEF TokensInv

(* A finite set without two members has at most one. *)
LEMMA NoTwoMembers ==
  ASSUME NEW S, \A x, y \in S : x = y
  PROVE  ~(Cardinality(S) > 1)
<1>1. CASE S = {}
  BY <1>1, FS_EmptySet
<1>2. CASE S # {}
  <2>1. PICK x \in S : TRUE
    BY <1>2
  <2>2. S = {x}
    BY <2>1
  <2>3. QED
    BY <2>2, FS_Singleton
<1>3. QED
  BY <1>1, <1>2

(* A query that finds several rows follows an overlap; one that finds a row
   has read what is there. *)
LEMMA QueryKeepsTokens ==
  ASSUME TelemetryTyped, TokensInv, NEW a \in Agents, NEW hits,
         NEW pc \in InTransaction, NEW onError,
         agent[a].pc \notin InTransaction, onError \notin InTransaction,
         hits \subseteq metrics,
         agent[a].task \in Tasks => hits = RowsToAdd(Metric(pc), agent[a].task),
         Query(a, hits, pc, onError), UNCHANGED <<metrics, counted>>
  PROVE  TokensInv'
<1> DEFINE t == agent[a].task
<1> TelemetryTypeOK
  BY DEF TelemetryTyped
<1>1. t \in Owners /\ agent[a] \in AgentState
  BY DEF TelemetryTypeOK, AgentState
<1>2. \A name, u : RowsToAdd(name, u)' = RowsToAdd(name, u)
  BY SameRows
<1>3. NoteOverlap(a) /\ \A b \in Agents : b # a => agent'[b] = agent[b]
  BY QueryEffect
<1>4. overlapped \subseteq overlapped'
  BY <1>3 DEF NoteOverlap
<1>5. Metric(pc) \in Names
  BY DEF Metric, Names
<1>6. CASE Cardinality(hits) > 1
  <2>1. /\ agent' = [agent EXCEPT ![a] = [agent[a] EXCEPT !.pc = onError]]
        /\ failed' = failed \cup {t}
    BY <1>6, QueryEffect
  <2>2. agent'[a].pc \notin InTransaction
    BY <1>1, <2>1 DEF AgentState, TelemetryTypeOK
  <2>3. t \in overlapped \cup {NoTask}
    <3>1. SUFFICES ASSUME t \in Tasks \ overlapped PROVE FALSE
      BY <1>1 DEF Owners
    <3>2. \A r, q \in hits : r = q
      BY <1>5, <3>1 DEF TokensInv, OneRowEach
    <3>3. QED
      BY <1>6, <3>2, NoTwoMembers
  <2>4. OverlapsAreKnown'
    BY <1>3, <1>4, <2>2 DEF TokensInv, OverlapsAreKnown
  <2>5. ReadsAreRows'
    BY <1>2, <1>3, <1>4, <2>2 DEF TokensInv, ReadsAreRows
  <2>6. OneRowEach'
    BY <1>2, <1>4 DEF TokensInv, OneRowEach
  <2>7. TokensAddUp'
    BY <1>2, <1>4, <2>1, <2>3 DEF TokensInv, TokensAddUp
  <2>8. QED
    BY <2>4, <2>5, <2>6, <2>7 DEF TokensInv
<1>7. CASE ~(Cardinality(hits) > 1)
  <2>1. PICK seen \in [id : Nat, value : Nat] :
           /\ agent' = [agent EXCEPT ![a] = [agent[a] EXCEPT !.pc = pc, !.seen = seen]]
           /\ \/ hits = {} /\ seen = NoRow
              \/ \E r \in hits : seen = [id |-> r.id, value |-> r.value]
    BY <1>7, QueryEffect
  <2>2. failed' = failed
    BY <1>7, QueryEffect
  <2>3. agent'[a].pc = pc /\ agent'[a].task = t /\ agent'[a].seen = seen
    BY <1>1, <2>1 DEF AgentState, TelemetryTypeOK
  <2>4. OverlapsAreKnown'
    <3>1. ASSUME NEW b \in Agents, b # a, agent[b].task = t, agent[b].pc \in InTransaction
          PROVE  t \in overlapped'
      BY <1>3, <3>1 DEF NoteOverlap, Overlaps, InTransaction
    <3>2. QED
      BY <1>3, <1>4, <2>3, <3>1 DEF TokensInv, OverlapsAreKnown
  <2>5. ReadsAreRows'
    <3>1. t \in Tasks =>
            LET found == RowsToAdd(Metric(pc), t)
            IN \/ seen = NoRow /\ found = {}
               \/ \E r \in found : seen = [id |-> r.id, value |-> r.value] /\ r.id = seen.id
      BY <2>1
    <3>2. QED
      BY <1>2, <1>3, <1>4, <2>3, <3>1 DEF TokensInv, ReadsAreRows
  <2>6. OneRowEach' /\ TokensAddUp'
    BY <1>2, <1>4, <2>2 DEF TokensInv, OneRowEach, TokensAddUp
  <2>7. QED
    BY <2>4, <2>5, <2>6 DEF TokensInv
<1>8. QED
  BY <1>6, <1>7

(* What a commit does to the rows: those of one metric of one task, no id of
   which disappears; without an overlap there is one afterwards, and it holds the
   first value, the value it had, or one token more than was counted. *)
LEMMA CommitRows ==
  ASSUME TelemetryTyped, TokensInv, NEW a \in Agents, agent[a].pc \in InTransaction,
         NEW t \in Owners, t = agent[a].task,
         NEW name \in Names, name = Metric(agent[a].pc), NEW value \in Nat,
         \/ InsertOnce(a, name, value) /\ (name = "tokens" => value = 1)
              /\ (name = "tokens" => agent[a].seen = NoRow \/ t = NoTask)
         \/ WriteBack(a) /\ name = "tokens" /\ t \in Tasks /\ agent[a].seen # NoRow
  PROVE  /\ \A n, u : u \in Tasks /\ (n # name \/ u # t) => RowsToAdd(n, u)' = RowsToAdd(n, u)
         /\ \A r \in RowsToAdd(name, t) : \E q \in RowsToAdd(name, t)' : q.id = r.id
         /\ t \in Tasks \ overlapped =>
              \E q : /\ RowsToAdd(name, t)' = {q}
                     /\ name = "tokens" => q.value = counted[t] + 1
<1>1. /\ IdsAreUnique /\ metrics \subseteq Rows /\ agent[a].seen.value \in Nat
      /\ agent[a].seen \in [id : Nat, value : Nat]
  BY DEF TelemetryTyped, TelemetryTypeOK
<1>2. \A r \in metrics : r.id # 0
  BY <1>1 DEF IdsAreUnique
<1>3. t \in Tasks \ overlapped =>
        \/ agent[a].seen = NoRow /\ RowsToAdd(name, t) = {}
        \/ /\ agent[a].seen # NoRow
           /\ \E r : /\ RowsToAdd(name, t) = {r}
                     /\ agent[a].seen.id = r.id /\ agent[a].seen.value = r.value
  <2>1. SUFFICES ASSUME t \in Tasks \ overlapped, ~(agent[a].seen = NoRow /\ RowsToAdd(name, t) = {})
                 PROVE  /\ agent[a].seen # NoRow
                        /\ \E r : /\ RowsToAdd(name, t) = {r}
                                  /\ agent[a].seen.id = r.id /\ agent[a].seen.value = r.value
    OBVIOUS
  <2>2. PICK r \in RowsToAdd(name, t) : agent[a].seen = [id |-> r.id, value |-> r.value]
    BY <2>1 DEF TokensInv, ReadsAreRows
  <2>3. RowsToAdd(name, t) = {r}
    BY <2>1, <2>2 DEF TokensInv, OneRowEach
  <2>4. agent[a].seen.id = r.id /\ agent[a].seen.value = r.value
    BY <2>2
  <2>5. agent[a].seen # NoRow
    BY <1>2, <2>2, <2>4 DEF NoRow, RowsToAdd
  <2>6. QED
    BY <2>3, <2>4, <2>5
<1>4. t \in Tasks \ overlapped /\ name = "tokens" =>
        IF counted[t] = 0 THEN RowsToAdd(name, t) = {}
        ELSE \E r \in RowsToAdd(name, t) : RowsToAdd(name, t) = {r} /\ r.value = counted[t]
  BY DEF TokensInv, TokensAddUp
<1>5. CASE NewRow(name, t, value) /\ agent[a].seen = NoRow /\ (name = "tokens" => value = 1)
  <2>1. PICK new \in Rows : new.value = value /\ RowsToAdd(name, t)' = RowsToAdd(name, t) \cup {new}
    BY <1>1, <1>5, InsertEffect
  <2>2. \A n, u : n # name \/ u # t => RowsToAdd(n, u)' = RowsToAdd(n, u)
    BY <1>1, <1>5, InsertEffect
  <2>3. t \in Tasks \ overlapped =>
          /\ RowsToAdd(name, t)' = {new}
          /\ name = "tokens" => new.value = counted[t] + 1
    BY <1>3, <1>4, <1>5, <2>1
  <2>4. QED
    BY <2>1, <2>2, <2>3
<1>6. CASE metrics' = metrics /\ agent[a].seen # NoRow /\ (name = "tokens" => t = NoTask)
  <2>1. \A n, u : RowsToAdd(n, u)' = RowsToAdd(n, u)
    BY <1>6, SameRows
  <2>2. QED
    BY <1>3, <1>6, <2>1, TelemetryAssumption
<1>7. CASE WriteBack(a) /\ name = "tokens" /\ t \in Tasks /\ agent[a].seen # NoRow
  <2>1. PICK old \in RowsToAdd(name, t) : old.id = agent[a].seen.id
    BY <1>7 DEF TokensInv, ReadsAreRows
  <2>2. PICK new \in Rows : /\ new.value = agent[a].seen.value + 1 /\ new.id = old.id
                            /\ RowsToAdd(name, t)' = (RowsToAdd(name, t) \ {old}) \cup {new}
    BY <1>1, <1>7, <2>1, WriteBackEffect
  <2>3. \A n, u : n # name \/ u # t => RowsToAdd(n, u)' = RowsToAdd(n, u)
    BY <1>1, <1>7, <2>1, WriteBackEffect
  <2>4. t \notin overlapped => RowsToAdd(name, t)' = {new} /\ new.value = counted[t] + 1
    BY <1>3, <1>4, <1>7, <2>1, <2>2
  <2>5. \A r \in RowsToAdd(name, t) : \E q \in RowsToAdd(name, t)' : q.id = r.id
    BY <2>2
  <2>6. QED
    BY <1>7, <2>3, <2>4, <2>5
<1>8. QED
  BY <1>5, <1>6, <1>7 DEF InsertOnce

LEMMA CommitKeepsTokens ==
  ASSUME TelemetryTyped, TokensInv, NEW a \in Agents, agent[a].pc \in InTransaction,
         NEW t \in Owners, t = agent[a].task,
         NEW name \in Names, name = Metric(agent[a].pc), NEW value \in Nat,
         \/ InsertOnce(a, name, value) /\ (name = "tokens" => value = 1)
              /\ (name = "tokens" => agent[a].seen = NoRow \/ t = NoTask)
         \/ WriteBack(a) /\ name = "tokens" /\ t \in Tasks /\ agent[a].seen # NoRow,
         \A b \in Agents : b # a => agent'[b] = agent[b],
         agent'[a].pc \notin InTransaction, UNCHANGED <<failed, overlapped>>,
         counted' = IF name = "tokens" THEN [counted EXCEPT ![t] = @ + 1] ELSE counted
  PROVE  TokensInv'
<1>1. \A n, u : u \in Tasks /\ (n # name \/ u # t) => RowsToAdd(n, u)' = RowsToAdd(n, u)
  BY CommitRows, Z3
<1>2. \A r \in RowsToAdd(name, t) : \E q \in RowsToAdd(name, t)' : q.id = r.id
  BY CommitRows, Z3
<1>3. t \in Tasks \ overlapped => \E q : /\ RowsToAdd(name, t)' = {q}
                                         /\ name = "tokens" => q.value = counted[t] + 1
  BY CommitRows, Z3
<1>4. OverlapsAreKnown'
  BY DEF TokensInv, OverlapsAreKnown
<1>5. ReadsAreRows'
  <2>1. ASSUME NEW b \in Agents, agent'[b].pc \in InTransaction, agent'[b].task \in Tasks,
               NEW n, NEW u, n = Metric(agent'[b].pc), u = agent'[b].task
        PROVE  LET hits == RowsToAdd(n, u)'
               IN /\ agent'[b].seen = NoRow \/ \E r \in hits : r.id = agent'[b].seen.id
                  /\ u \notin overlapped =>
                       \/ agent'[b].seen = NoRow /\ hits = {}
                       \/ \E r \in hits : agent'[b].seen = [id |-> r.id, value |-> r.value]
    <3>1. b # a /\ agent'[b] = agent[b]
      BY <2>1
    <3>2. /\ agent[b].seen = NoRow \/ \E r \in RowsToAdd(n, u) : r.id = agent[b].seen.id
          /\ u \notin overlapped =>
               \/ agent[b].seen = NoRow /\ RowsToAdd(n, u) = {}
               \/ \E r \in RowsToAdd(n, u) : agent[b].seen = [id |-> r.id, value |-> r.value]
      BY <2>1, <3>1 DEF TokensInv, ReadsAreRows
    <3>3. CASE n # name \/ u # t
      BY <1>1, <2>1, <3>1, <3>2, <3>3
    <3>4. CASE n = name /\ u = t
      <4>1. u \in overlapped
        BY <2>1, <3>1, <3>4 DEF TokensInv, OverlapsAreKnown
      <4>2. agent[b].seen = NoRow \/ \E q \in RowsToAdd(n, u)' : q.id = agent[b].seen.id
        BY <1>2, <3>2, <3>4
      <4>3. QED
        BY <3>1, <3>4, <4>1, <4>2
    <3>5. QED
      BY <3>3, <3>4
  <2>2. QED
    BY <2>1 DEF ReadsAreRows, RowsToAdd
<1>6. OneRowEach'
  BY <1>1, <1>3 DEF TokensInv, OneRowEach
<1>7. TokensAddUp'
  <2>1. ASSUME NEW u \in Tasks \ overlapped
        PROVE  IF counted'[u] = 0 THEN RowsToAdd("tokens", u)' = {}
               ELSE \E r \in RowsToAdd("tokens", u)' :
                      RowsToAdd("tokens", u)' = {r} /\ r.value = counted'[u]
    <3>1. counted \in [Owners -> Nat] /\ u \in Owners
      BY DEF TelemetryTyped, TelemetryTypeOK, Owners
    <3>2. CASE "tokens" # name \/ u # t
      <4>1. counted'[u] = counted[u]
        BY <3>1, <3>2
      <4>2. RowsToAdd("tokens", u)' = RowsToAdd("tokens", u)
        BY <1>1, <3>2
      <4>3. QED
        BY <4>1, <4>2 DEF TokensInv, TokensAddUp
    <3>3. CASE "tokens" = name /\ u = t
      <4>1. counted'[u] = counted[u] + 1 /\ counted[u] \in Nat
        BY <3>1, <3>3
      <4>2. QED
        BY <1>3, <3>3, <4>1
    <3>4. QED
      BY <3>2, <3>3
  <2>2. QED
    BY <2>1 DEF TokensAddUp, TokensInv
<1>8. QED
  BY <1>4, <1>5, <1>6, <1>7 DEF TokensInv

LEMMA TokensStep ==
  ASSUME TelemetryTyped, TokensInv, [TelemetryNext]_telemetryVars
  PROVE  TokensInv'
<1> TelemetryTypeOK
  BY DEF TelemetryTyped
<1> USE DEF InTransaction
<1>1. \A a \in Agents : agent[a] \in AgentState
  BY DEF TelemetryTypeOK, AgentState
<1>2. \A a \in Agents : agent[a].task \in Owners
  BY DEF TelemetryTypeOK
<1>3. \A name : RowsOnce(name, NoTask) \subseteq metrics
  BY DEF RowsOnce
<1>4. \A name, t : RowsToAdd(name, t) \subseteq metrics /\ RowsOnce(name, t) \subseteq metrics
  BY DEF RowsOnce, RowsToAdd
<1>5. \A name, t : t \in Tasks => RowsOnce(name, t) = RowsToAdd(name, t) /\ t # NoTask
  BY TelemetryAssumption DEF RowsOnce, RowsToAdd
<1>6. ASSUME NEW a \in Agents, NEW t \in Owners, OpenSpan(a, t) PROVE TokensInv'
  <2>1. PICK new \in AgentState : agent' = [agent EXCEPT ![a] = new] /\ new.pc = "open"
    BY <1>6, OpenState
  <2>2. agent'[a].pc = "open" /\ \A b \in Agents : b # a => agent'[b] = agent[b]
    BY <2>1 DEF TelemetryTypeOK
  <2>3. QED
    BY <1>6, <2>2, QuietKeepsTokens DEF OpenSpan
<1>7. ASSUME NEW a \in Agents, BeginGeneration(a) PROVE TokensInv'
  <2> DEFINE hits == IF agent[a].task = NoTask THEN RowsOnce("tokens", agent[a].task)
                     ELSE RowsToAdd("tokens", agent[a].task)
  <2>1. Query(a, hits, "adding", "raised")
    BY <1>7 DEF BeginGeneration
  <2>2. hits \subseteq metrics
    BY <1>4
  <2>3. agent[a].task \in Tasks => hits = RowsToAdd(Metric("adding"), agent[a].task)
    BY <1>5 DEF Metric
  <2>4. agent[a].pc \notin InTransaction /\ UNCHANGED <<metrics, counted>>
    BY <1>7 DEF BeginGeneration
  <2> HIDE DEF hits
  <2>5. QED
    BY <2>1, <2>2, <2>3, <2>4, QueryKeepsTokens
<1>8. ASSUME NEW a \in Agents, CommitGeneration(a) PROVE TokensInv'
  <2>1. agent[a].pc = "adding" /\ Metric("adding") = "tokens" /\ "tokens" \in Names
    BY <1>8 DEF CommitGeneration, Metric, Names
  <2>2. agent' = [agent EXCEPT ![a] = [agent[a] EXCEPT !.pc = "open", !.gens = agent[a].gens + 1]]
    BY <1>1, <1>8 DEF CommitGeneration, AgentState
  <2>3. agent'[a].pc = "open" /\ \A b \in Agents : b # a => agent'[b] = agent[b]
    BY <1>1, <2>2 DEF TelemetryTypeOK, AgentState
  <2>4. \/ InsertOnce(a, "tokens", 1) /\ (agent[a].seen = NoRow \/ agent[a].task = NoTask)
        \/ WriteBack(a) /\ agent[a].task \in Tasks /\ agent[a].seen # NoRow
    BY <1>2, <1>8 DEF CommitGeneration, Owners
  <2>5. UNCHANGED <<failed, overlapped>> /\ counted' = [counted EXCEPT ![agent[a].task] = @ + 1]
    BY <1>8 DEF CommitGeneration
  <2>6. QED
    BY <1>2, <2>1, <2>3, <2>4, <2>5, CommitKeepsTokens
<1>9. ASSUME NEW a \in Agents, ReadTokens(a) PROVE TokensInv'
  <2>1. PICK value : agent' = [agent EXCEPT ![a] = [agent[a] EXCEPT !.pc = "measured", !.read = value]]
    BY <1>1, <1>9 DEF ReadTokens
  <2>2. agent'[a].pc = "measured" /\ \A b \in Agents : b # a => agent'[b] = agent[b]
    BY <1>1, <2>1 DEF TelemetryTypeOK, AgentState
  <2>3. QED
    BY <1>9, <2>2, QuietKeepsTokens DEF ReadTokens
<1>10. ASSUME NEW a \in Agents, BeginEnergy(a) PROVE TokensInv'
  <2>1. Query(a, RowsOnce("energy", agent[a].task), "once", "raised")
        /\ agent[a].pc \notin InTransaction /\ UNCHANGED <<metrics, counted>>
    BY <1>10 DEF BeginEnergy
  <2>2. agent[a].task \in Tasks =>
          RowsOnce("energy", agent[a].task) = RowsToAdd(Metric("once"), agent[a].task)
    BY <1>5 DEF Metric
  <2>3. QED
    BY <1>4, <2>1, <2>2, QueryKeepsTokens
<1>11. ASSUME NEW a \in Agents, CommitEnergy(a) PROVE TokensInv'
  <2>1. agent[a].pc = "once" /\ Metric("once") = "energy" /\ "energy" \in Names
    BY <1>11 DEF CommitEnergy, Metric, Names
  <2>2. agent' = [agent EXCEPT ![a] = [agent[a] EXCEPT !.pc = "done"]]
    BY <1>1, <1>11 DEF CommitEnergy, AgentState
  <2>3. agent'[a].pc = "done" /\ \A b \in Agents : b # a => agent'[b] = agent[b]
    BY <1>1, <2>2 DEF TelemetryTypeOK, AgentState
  <2>4. agent[a].read \in Nat /\ InsertOnce(a, "energy", agent[a].read)
        /\ UNCHANGED <<counted, failed, overlapped>>
    BY <1>11 DEF CommitEnergy, TelemetryTypeOK
  <2>5. QED
    BY <1>2, <2>1, <2>3, <2>4, CommitKeepsTokens
<1>12. ASSUME NEW a \in Agents, CloseSpan(a) PROVE TokensInv'
  <2>1. Query(a, RowsOnce("latency", agent[a].task), "closing", "idle")
        /\ agent[a].pc \notin InTransaction /\ UNCHANGED <<metrics, counted>>
    BY <1>12 DEF CloseSpan
  <2>2. agent[a].task \in Tasks =>
          RowsOnce("latency", agent[a].task) = RowsToAdd(Metric("closing"), agent[a].task)
    BY <1>5 DEF Metric
  <2>3. QED
    BY <1>4, <2>1, <2>2, QueryKeepsTokens
<1>13. ASSUME NEW a \in Agents, EndSpan(a) PROVE TokensInv'
  <2>1. agent[a].pc = "closing" /\ Metric("closing") = "latency" /\ "latency" \in Names
    BY <1>13 DEF EndSpan, Metric, Names
  <2>2. agent'[a] = Idle /\ \A b \in Agents : b # a => agent'[b] = agent[b]
    BY <1>13 DEF EndSpan, TelemetryTypeOK
  <2>3. agent'[a].pc \notin InTransaction
    BY <2>2, IdleState
  <2>4. InsertOnce(a, "latency", 0) /\ UNCHANGED <<counted, failed, overlapped>>
    BY <1>13 DEF EndSpan
  <2>5. QED
    BY <1>2, <2>1, <2>2, <2>3, <2>4, CommitKeepsTokens
<1>14. CASE UNCHANGED telemetryVars
  <2>1. UNCHANGED <<agent, metrics, counted, failed, overlapped>>
    BY <1>14 DEF telemetryVars
  <2>2. \A name, t : RowsToAdd(name, t)' = RowsToAdd(name, t)
    BY <2>1, SameRows
  <2>3. QED
    BY <2>1, <2>2 DEF TokensInv, OverlapsAreKnown, ReadsAreRows, OneRowEach, TokensAddUp
<1>15. QED
  BY <1>6, <1>7, <1>8, <1>9, <1>10, <1>11, <1>12, <1>13, <1>14 DEF TelemetryNext

(* However many agents share the service: the tokens of a task whose
   transactions did not overlap add up in one row, and recording raises only after an
   overlap or without a task. *)
THEOREM TokensAlwaysAddUp == TelemetrySpec => []TokensAddUp
<1>1. TokensInv => TokensAddUp
  BY DEF TokensInv
<1>2. QED
  BY <1>1, TokensInit, TokensStep, TelemetryIsTyped, PTL DEF TelemetrySpec

-----------------------------------------------------------------------------
(* The components together *)

(* A step of the composition is a step of one component and a stutter of the
   others. *)
LEMMA EachPartMoves ==
  ASSUME [ServicesNext]_<<part, storeVars, telemetryVars, logVars, streamVars, pipelineVars>>
  PROVE  /\ [StoreNext]_storeVars /\ [TelemetryNext]_telemetryVars /\ [LogNext]_logVars
         /\ [StreamNext]_streamVars /\ [PipelineNext]_pipelineVars
<1>1. CASE StoreMoves
  BY <1>1 DEF StoreMoves
<1>2. CASE TelemetryMoves
  BY <1>2 DEF TelemetryMoves
<1>3. CASE LogMoves
  BY <1>3 DEF LogMoves
<1>4. CASE StreamMoves
  BY <1>4 DEF StreamMoves
<1>5. CASE PipelineMoves
  BY <1>5 DEF PipelineMoves
<1>6. CASE UNCHANGED <<part, storeVars, telemetryVars, logVars, streamVars, pipelineVars>>
  BY <1>6
<1>7. QED
  BY <1>1, <1>2, <1>3, <1>4, <1>5, <1>6 DEF ServicesNext

(* The run that checks the five components together checks each of them: what is
   proved of one of them holds of the composition. *)
THEOREM ServicesImplementTheirParts ==
  ServicesSpec => StoreSpec /\ TelemetrySpec /\ LogSpec /\ StreamSpec /\ PipelineSpec
<1>1. ServicesInit => StoreInit /\ TelemetryInit /\ LogInit /\ StreamInit /\ PipelineInit
  BY DEF ServicesInit
<1>2. QED
  BY <1>1, EachPartMoves, PTL DEF ServicesSpec, StoreSpec, TelemetrySpec, LogSpec, StreamSpec, PipelineSpec

(* Every variable of the five components keeps its type. *)
THEOREM ServicesTypesHold == ServicesSpec => []ServicesTypeOK
<1>1. /\ StoreTypeOK /\ TelemetryTyped /\ LogTypeOK /\ StreamTypeOK /\ PipelineTypeOK
      => ServicesTypeOK
  BY DEF ServicesTypeOK, TelemetryTyped
<1>2. QED
  BY <1>1, ServicesImplementTheirParts, StoreTypesHold, TelemetryIsTyped, LogIsTyped, StreamTypesHold,
     PipelineTypesHold, PTL
=============================================================================
