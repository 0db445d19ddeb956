-------------------------- MODULE OrchestratorState --------------------------
(***************************************************************************)
(* The orchestrator-level state machine of                                 *)
(* apps/orchestrator/src/engine/orchestrator_state.py.  It is one object   *)
(* per process, updated synchronously by the callers of its methods: the   *)
(* agent registry reports agents coming and going, the workflow runner     *)
(* reports workflows starting and finishing, the lifespan reports the      *)
(* shutdown.  Every method is one action here.                             *)
(***************************************************************************)
EXTENDS Integers, FiniteSets

CONSTANT Agent    \* the KIO ids that may register

VARIABLES
  mode,           \* _state
  workflows,      \* _active_workflows
  degraded        \* _degraded_agents

orchVars == <<mode, workflows, degraded>>

Mode == {"INITIALIZING", "IDLE", "ACTIVE", "DEGRADED", "RECOVERY", "SHUTDOWN"}

OrchTypeOK ==
  /\ mode \in Mode
  /\ workflows \in Nat
  /\ degraded \subseteq Agent

OrchInit ==
  /\ mode = "INITIALIZING"
  /\ workflows = 0
  /\ degraded = {}

-----------------------------------------------------------------------------
(* The mode a healthy orchestrator with n workflows is in. *)
WorkMode(n) == IF n > 0 THEN "ACTIVE" ELSE "IDLE"

(* An agent that is no longer degraded takes the orchestrator out of       *)
(* DEGRADED only when it was the last one.                                 *)
Healed(k) == mode = "DEGRADED" /\ degraded \ {k} = {}

AgentRegistered(k) ==
  /\ degraded' = degraded \ {k}
  /\ mode' = IF mode = "INITIALIZING" \/ Healed(k) THEN WorkMode(workflows) ELSE mode
  /\ UNCHANGED workflows

AgentRecovered(k) ==
  /\ degraded' = degraded \ {k}
  /\ mode' = IF Healed(k) THEN WorkMode(workflows) ELSE mode
  /\ UNCHANGED workflows

AgentFailureDetected(k) ==
  /\ degraded' = degraded \cup {k}
  /\ mode' = IF mode = "ACTIVE" THEN "DEGRADED" ELSE mode
  /\ UNCHANGED workflows

WorkflowSubmitted ==
  /\ workflows' = workflows + 1
  /\ mode' = IF mode = "IDLE" THEN "ACTIVE" ELSE mode
  /\ UNCHANGED degraded

(* A mutant: the last workflow leaves the orchestrator ACTIVE. *)
ForgetfulFinish ==
  /\ workflows' = IF workflows > 0 THEN workflows - 1 ELSE 0
  /\ UNCHANGED <<mode, degraded>>

(* The counter is clamped at zero: finishing twice is tolerated. *)
WorkflowFinished ==
  LET left == IF workflows > 0 THEN workflows - 1 ELSE 0
  IN  /\ workflows' = left
      /\ mode' = IF left = 0 /\ mode = "ACTIVE" THEN "IDLE" ELSE mode
      /\ UNCHANGED degraded

CriticalFailure ==
  /\ mode' = IF mode = "SHUTDOWN" THEN mode ELSE "RECOVERY"
  /\ UNCHANGED <<workflows, degraded>>

(* A mutant: restoring restarts the work even after the shutdown. *)
RestoreAlways ==
  /\ mode' = WorkMode(workflows)
  /\ UNCHANGED <<workflows, degraded>>

SystemRestored ==
  /\ mode' = IF mode = "RECOVERY" THEN WorkMode(workflows) ELSE mode
  /\ UNCHANGED <<workflows, degraded>>

Shutdown ==
  /\ mode' = "SHUTDOWN"
  /\ UNCHANGED <<workflows, degraded>>

OrchNext ==
  \/ \E k \in Agent : \/ AgentRegistered(k)
                      \/ AgentRecovered(k)
                      \/ AgentFailureDetected(k)
  \/ WorkflowSubmitted
  \/ WorkflowFinished
  \/ CriticalFailure
  \/ SystemRestored
  \/ Shutdown

OrchSpec == OrchInit /\ [][OrchNext]_orchVars

-----------------------------------------------------------------------------
(* IDLE is reported only while no workflow is counted, ACTIVE only while   *)
(* one is, and DEGRADED only while some agent is known to be down: the     *)
(* summary() served to operators is consistent whatever the order in which *)
(* registrations, failures, submissions and completions interleave.        *)
ModeAgrees ==
  /\ mode = "IDLE" => workflows = 0
  /\ mode = "ACTIVE" => workflows > 0
  /\ mode = "DEGRADED" => degraded # {}

(* Nothing that still arrives during the graceful shutdown (announcements, *)
(* workflows finishing, a restore) takes the orchestrator out of SHUTDOWN. *)
ShutdownIsFinal == [][mode = "SHUTDOWN" => mode' = "SHUTDOWN"]_orchVars
=============================================================================
