----------------------------- MODULE MessageLog -----------------------------
(***************************************************************************)
(* NatsMessagingClient (nats_client.py): an envelope is written to the     *)
(* messages table before it is published, and skipped when its idempotency *)
(* key is there already.  message_id is unique in the table, the           *)
(* idempotency key is not (models.py).                                     *)
(*                                                                         *)
(* Callers publish an envelope, and publish again when that raised or      *)
(* their process died: the same envelope, or a new one with the same key.  *)
(***************************************************************************)
EXTENDS Integers, FiniteSets

CONSTANTS
  Callers,     \* coroutines that publish or request
  Envelopes,   \* message ids
  Keys,        \* idempotency keys
  MaxPublish,  \* bound: calls of publish() and request()
  MaxLogFaults \* bound: failures between the table and NATS

ASSUME LogAssumption == MaxPublish \in Nat /\ MaxLogFaults \in Nat

VARIABLES
  publisher,   \* what each caller is doing: [pc, env, op]
  keyOf,       \* idempotency key of every envelope
  logged,      \* message ids in the table
  published,   \* calls made so far
  logFaults,   \* faults so far
  sent,        \* history: publishes that reached NATS, by key
  requested,   \* history: envelopes that request() sent
  skipped,     \* history: keys of publishes that returned without sending
  broken,      \* history: keys a call of which failed between table and NATS
  raced        \* history: keys that two calls looked up before either insert

logVars == <<publisher, keyOf, logged, published, logFaults, sent, requested, skipped, broken, raced>>

Publishing == [pc : {"checking", "inserting", "sending"}, env : Envelopes, op : {"publish", "request"}]
NoPublish == [pc |-> "idle"]

LogInit ==
  /\ publisher = [c \in Callers |-> NoPublish]
  /\ keyOf \in [Envelopes -> Keys]
  /\ logged = {} /\ published = 0 /\ logFaults = 0
  /\ sent = [k \in Keys |-> 0] /\ requested = {} /\ skipped = {} /\ broken = {} /\ raced = {}

KeyAt(c) == keyOf[publisher[c].env]

(* A mutant: the lookup finds nothing. *)
NoRowFound(k) == {}

(* Rows that message_exists() asks for *)
SameKey(k) == {e \in logged : keyOf[e] = k}

Move(c, pc) == publisher' = [publisher EXCEPT ![c].pc = pc]
LeaveCall(c) == publisher' = [publisher EXCEPT ![c] = NoPublish]

-----------------------------------------------------------------------------
Call(c, e, op) ==
  /\ publisher[c] = NoPublish /\ published < MaxPublish
  /\ published' = published + 1
  /\ publisher' = [publisher EXCEPT ![c] = [pc |-> "checking", env |-> e, op |-> op]]
  /\ UNCHANGED <<keyOf, logged, logFaults, sent, requested, skipped, broken, raced>>

(* message_exists(): raises when several rows have the key. *)
CheckRaises(c) ==
  /\ publisher[c].pc = "checking" /\ Cardinality(SameKey(KeyAt(c))) > 1
  /\ LeaveCall(c)
  /\ UNCHANGED <<keyOf, logged, published, logFaults, sent, requested, skipped, broken, raced>>

(* A key that is there: publish() returns, request() sends all the same. *)
CheckFinds(c) ==
  /\ publisher[c].pc = "checking" /\ Cardinality(SameKey(KeyAt(c))) = 1
  /\ IF publisher[c].op = "publish"
     THEN LeaveCall(c) /\ skipped' = skipped \cup {KeyAt(c)}
     ELSE Move(c, "sending") /\ UNCHANGED skipped
  /\ UNCHANGED <<keyOf, logged, published, logFaults, sent, requested, broken, raced>>

CheckMisses(c) ==
  /\ publisher[c].pc = "checking" /\ SameKey(KeyAt(c)) = {}
  /\ Move(c, "inserting")
  /\ raced' = IF \E d \in Callers \ {c} : publisher[d].pc = "inserting" /\ KeyAt(d) = KeyAt(c)
              THEN raced \cup {KeyAt(c)} ELSE raced
  /\ UNCHANGED <<keyOf, logged, published, logFaults, sent, requested, skipped, broken>>

(* A mutant: the call ends with the row. *)
SaveMessageOnly(c) ==
  /\ publisher[c].pc = "inserting"
  /\ logged' = logged \cup {publisher[c].env}
  /\ LeaveCall(c)
  /\ UNCHANGED <<keyOf, published, logFaults, sent, requested, skipped, broken, raced>>

(* save_message() and the commit: a second row with the message id raises. *)
SaveMessage(c) ==
  /\ publisher[c].pc = "inserting"
  /\ IF publisher[c].env \in logged
     THEN LeaveCall(c) /\ UNCHANGED logged
     ELSE Move(c, "sending") /\ logged' = logged \cup {publisher[c].env}
  /\ UNCHANGED <<keyOf, published, logFaults, sent, requested, skipped, broken, raced>>

Send(c) ==
  /\ publisher[c].pc = "sending"
  /\ IF publisher[c].op = "publish"
     THEN sent' = [sent EXCEPT ![KeyAt(c)] = @ + 1] /\ UNCHANGED requested
     ELSE requested' = requested \cup {publisher[c].env} /\ UNCHANGED sent
  /\ LeaveCall(c)
  /\ UNCHANGED <<keyOf, logged, published, logFaults, skipped, broken, raced>>

(* NATS refuses the message, or the process dies after the commit. *)
FailToSend(c) ==
  /\ publisher[c].pc = "sending" /\ logFaults < MaxLogFaults
  /\ logFaults' = logFaults + 1
  /\ broken' = broken \cup {KeyAt(c)}
  /\ LeaveCall(c)
  /\ UNCHANGED <<keyOf, logged, published, sent, requested, skipped, raced>>

LogNext ==
  \E c \in Callers :
    \/ \E e \in Envelopes, op \in {"publish", "request"} : Call(c, e, op)
    \/ CheckRaises(c) \/ CheckFinds(c) \/ CheckMisses(c)
    \/ SaveMessage(c) \/ Send(c) \/ FailToSend(c)

LogSpec == LogInit /\ [][LogNext]_logVars

-----------------------------------------------------------------------------
(* Properties *)

(* Type invariant. *)
LogTypeOK ==
  /\ publisher \in [Callers -> Publishing \cup {NoPublish}]
  /\ keyOf \in [Envelopes -> Keys]
  /\ logged \subseteq Envelopes
  /\ published \in 0..MaxPublish /\ logFaults \in 0..MaxLogFaults
  /\ sent \in [Keys -> Nat] /\ requested \subseteq Envelopes
  /\ skipped \subseteq Keys /\ broken \subseteq Keys /\ raced \subseteq Keys

(* A key is published at most once, whoever retries and with whichever envelope,
   unless two calls with two envelopes looked it up at the same time. *)
KeySentOnce == \A k \in Keys : sent[k] <= 1 \/ k \in raced

(* A publish that returned without sending left nothing undone: its key was
   sent, is being sent, or a call that had written it failed before it sent. *)
SkippedIsElsewhere ==
  \A k \in skipped :
    \/ sent[k] > 0 \/ k \in broken
    \/ \E e \in requested : keyOf[e] = k
    \/ \E c \in Callers : publisher[c].pc = "sending" /\ KeyAt(c) = k
=============================================================================
