------------------------------- MODULE MCAgents -------------------------------
(***************************************************************************)
(* One run for the two components between the workflow engine and the KIO  *)
(* processes: the transport of jobs (KioTransport) and the discovery of    *)
(* agents (AgentRegistry).  They share no state: the transport model has   *)
(* one KIO at a fixed address, and the registry model stops where a job is *)
(* sent.  The run starts one of them and leaves the other in its initial   *)
(* state.                                                                  *)
(***************************************************************************)
EXTENDS KioTransport, AgentRegistry

VARIABLE part      \* the component that runs: "transport" or "registry"

agentsVars == <<vars, registryVars, part>>

AgentsInit == Init /\ RegInit /\ part \in {"transport", "registry"}

TransportMoves == part = "transport" /\ Next /\ UNCHANGED <<registryVars, part>>
RegistryMoves == part = "registry" /\ RegNext /\ UNCHANGED <<vars, part>>

(* The fairness of each component.  Nothing of the transport that is fair  *)
(* is enabled in its initial state.                                        *)
AgentsSpec ==
  /\ AgentsInit
  /\ [][TransportMoves \/ RegistryMoves]_agentsVars
  /\ Fairness
  /\ \A k \in Agent : WF_registryVars(part = "registry" /\ AnnounceAny(k))
=============================================================================
