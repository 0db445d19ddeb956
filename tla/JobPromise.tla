------------------------------ MODULE JobPromise ------------------------------
(***************************************************************************)
(* What the transport promises about a job: its call returns what one run  *)
(* of the handler made of it, or raises when the KIO died; the stream has  *)
(* the job run by one handler at a time and never again once a run has     *)
(* been acknowledged; HTTP adds one run at most.  There are no timers      *)
(* here: that timers alone can keep handlers apart and callers patient is  *)
(* what KioTransport, which implements this specification, has to show.    *)
(***************************************************************************)
EXTENDS Naturals

CONSTANTS
  Job,
  Delivery,  \* the runs that the stream may start for a job
  Http       \* the run that its caller may start

VARIABLES
  outcome,   \* of the call
  limited,   \* must the handler leave the headroom?
  offered,   \* is the job in the stream?
  doubtful,  \* was an acknowledgement of the job lost?
  work,      \* the handler runs of each job
  died       \* has the KIO died?

promiseVars == <<outcome, limited, offered, doubtful, work, died>>

PromiseInit ==
  /\ outcome = [j \in Job |-> "idle"]
  /\ limited = [j \in Job |-> TRUE]
  /\ offered = [j \in Job |-> FALSE]
  /\ doubtful = [j \in Job |-> FALSE]
  /\ work = [j \in Job |-> [r \in Delivery \cup {Http} |-> "none"]]
  /\ died = FALSE

-----------------------------------------------------------------------------
(* A handler run, or the call, of a job gets from one stage to another. *)
Works(j, r, from, to) ==
  /\ work[j][r] = from
  /\ work' = [work EXCEPT ![j][r] = to]
Turns(j, from, to) ==
  /\ outcome[j] = from
  /\ outcome' = [outcome EXCEPT ![j] = to]
Offer(j, o) == offered' = [offered EXCEPT ![j] = o]

Submit(j) ==
  /\ Turns(j, "idle", "open")
  /\ \E l \in BOOLEAN : limited' = [limited EXCEPT ![j] = l]
  /\ \E o \in BOOLEAN : Offer(j, o)
  /\ UNCHANGED <<doubtful, work, died>>

(* The stream gives the job up, because of its age or its deliveries. *)
Withdraw(j) ==
  /\ Offer(j, FALSE)
  /\ UNCHANGED <<outcome, limited, doubtful, work, died>>

(* The stream has the job run, by one handler after another. *)
Start(j, r) ==
  /\ offered[j]
  /\ limited[j] => \A q \in Delivery : work[j][q] \notin {"working", "ended"}
  /\ Works(j, r, "none", "working")
  /\ UNCHANGED <<outcome, limited, offered, doubtful, died>>

End(j, r) ==
  /\ Works(j, r, "working", "ended")
  /\ UNCHANGED <<outcome, limited, offered, doubtful, died>>

Settle(j, r) ==
  /\ Works(j, r, "ended", "settled")
  /\ Offer(j, FALSE)
  /\ UNCHANGED <<outcome, limited, doubtful, died>>

SettleFails(j, r) ==
  /\ Works(j, r, "ended", "settled")
  /\ doubtful' = [doubtful EXCEPT ![j] = TRUE]
  /\ UNCHANGED <<outcome, limited, offered, died>>

(* The result gets to the caller, or to nobody. *)
Return(j, r) ==
  /\ Works(j, r, "settled", "over")
  /\ Turns(j, "open", "returned") \/ UNCHANGED outcome
  /\ UNCHANGED <<limited, offered, doubtful, died>>

Post(j) ==
  /\ outcome[j] = "open"
  /\ Works(j, Http, "none", "working")
  /\ UNCHANGED <<outcome, limited, offered, doubtful, died>>

(* Whoever still waits for the answer to a POST gets it. *)
Respond(j) ==
  /\ Works(j, Http, "working", "over")
  /\ outcome' = [outcome EXCEPT ![j] = IF @ = "open" THEN "returned" ELSE @]
  /\ UNCHANGED <<limited, offered, doubtful, died>>

Raise(j) ==
  /\ limited[j] => died
  /\ Turns(j, "open", "raised")
  /\ UNCHANGED <<limited, offered, doubtful, work, died>>

(* All runs are lost, and with them the answers to a POST. *)
Crash ==
  /\ died' = TRUE
  /\ work' = [j \in Job |-> [r \in Delivery \cup {Http} |->
                IF work[j][r] \in {"working", "ended", "settled"} THEN "dead" ELSE work[j][r]]]
  /\ outcome' = [j \in Job |->
                   IF outcome[j] = "open" /\ work[j][Http] = "working" THEN "raised" ELSE outcome[j]]
  /\ UNCHANGED <<limited, offered, doubtful>>

PromiseNext ==
  \/ \E j \in Job : Submit(j) \/ Withdraw(j) \/ Post(j) \/ Respond(j) \/ Raise(j)
  \/ \E j \in Job, r \in Delivery :
       Start(j, r) \/ End(j, r) \/ Settle(j, r) \/ SettleFails(j, r) \/ Return(j, r)
  \/ Crash

PromiseSpec == PromiseInit /\ [][PromiseNext]_promiseVars
=============================================================================
