---------------------------- MODULE GatedPipeline ----------------------------
(***************************************************************************)
(* What the workflow engine promises its users about a session: the steps  *)
(* of the pipeline are passed one at a time and in order, a step that      *)
(* needs a human is passed only on an answer given to that very step, and  *)
(* the recorded outcome is final.  How this is kept across LangGraph runs, *)
(* the runner's entry, the locks and the Session Manager is the subject of *)
(* WorkflowEngine, which implements this specification.                    *)
(***************************************************************************)
EXTENDS Naturals

CONSTANT Session

VARIABLES
  stage,     \* where the session's pipeline is
  step,      \* steps passed so far
  gated,     \* does the current step need a human?
  granted,   \* has the human answered the question of the current step?
  outcome    \* what is recorded of the session

pipelineVars == <<stage, step, gated, granted, outcome>>

Stage == {"none", "plan", "run_kio", "hitl", "advance", "complete", "end"}

PipelineTypeOK ==
  /\ stage \in [Session -> Stage]
  /\ step \in [Session -> Nat]
  /\ gated \in [Session -> BOOLEAN]
  /\ granted \in [Session -> BOOLEAN]
  /\ outcome \in [Session -> {"open", "completed", "failed"}]

PipelineInit ==
  /\ stage = [s \in Session |-> "none"]
  /\ step = [s \in Session |-> 0]
  /\ gated = [s \in Session |-> FALSE]
  /\ granted = [s \in Session |-> FALSE]
  /\ outcome = [s \in Session |-> "open"]

-----------------------------------------------------------------------------
(* The stage of s moves from one to another while it is still open. *)
Move(s, from, to) ==
  /\ outcome[s] = "open" /\ stage[s] = from
  /\ stage' = [stage EXCEPT ![s] = to]

(* The gate of the current step is fixed by the pipeline it belongs to. *)
Regate(s) == \E b \in BOOLEAN : gated' = [gated EXCEPT ![s] = b]

Start(s) ==
  /\ Move(s, "none", "plan")
  /\ Regate(s)
  /\ UNCHANGED <<step, granted, outcome>>

Schedule(s) ==
  /\ Move(s, "plan", "run_kio")
  /\ Regate(s)
  /\ UNCHANGED <<step, granted, outcome>>

(* The step's KIO is done, and may have changed the rest of the pipeline:  *)
(* a gated step goes to the human, any other one may.                      *)
Deliver(s) ==
  /\ \/ Move(s, "run_kio", "hitl") /\ Regate(s)
     \/ /\ Move(s, "run_kio", "advance")
        /\ gated' = [gated EXCEPT ![s] = FALSE]
  /\ UNCHANGED <<step, granted, outcome>>

Answer(s) ==
  /\ outcome[s] = "open" /\ stage[s] = "hitl" /\ ~granted[s]
  /\ granted' = [granted EXCEPT ![s] = TRUE]
  /\ UNCHANGED <<stage, step, gated, outcome>>

(* An answer may be lost with the run it was for. *)
Withdraw(s) ==
  /\ granted[s]
  /\ granted' = [granted EXCEPT ![s] = FALSE]
  /\ UNCHANGED <<stage, step, gated, outcome>>

(* The gate opens, and uses the answer up. *)
Release(s) ==
  /\ granted[s]
  /\ Move(s, "hitl", "advance")
  /\ granted' = [granted EXCEPT ![s] = FALSE]
  /\ UNCHANGED <<step, gated, outcome>>

(* One step is passed. *)
Pass(s) ==
  /\ \E to \in {"run_kio", "complete"} : Move(s, "advance", to)
  /\ step' = [step EXCEPT ![s] = @ + 1]
  /\ Regate(s)
  /\ UNCHANGED <<granted, outcome>>

(* The same step runs again, with the other LLM provider. *)
Repeat(s) ==
  /\ Move(s, "advance", "run_kio")
  /\ UNCHANGED <<step, gated, granted, outcome>>

Finish(s) ==
  /\ Move(s, "complete", "end")
  /\ outcome' = [outcome EXCEPT ![s] = "completed"]
  /\ UNCHANGED <<step, gated, granted>>

Abort(s) ==
  /\ outcome[s] = "open"
  /\ outcome' = [outcome EXCEPT ![s] = "failed"]
  /\ granted' = [granted EXCEPT ![s] = FALSE]
  /\ UNCHANGED <<stage, step, gated>>

PipelineNext ==
  \E s \in Session :
    \/ Start(s) \/ Schedule(s) \/ Deliver(s) \/ Answer(s) \/ Withdraw(s) \/ Release(s)
    \/ Pass(s) \/ Repeat(s) \/ Finish(s) \/ Abort(s)

PipelineSpec == PipelineInit /\ [][PipelineNext]_pipelineVars
=============================================================================
