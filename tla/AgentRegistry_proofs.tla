------------------------- MODULE AgentRegistry_proofs -------------------------
(***************************************************************************)
(* Proofs about the orchestrator state machine, for every set of agents    *)
(* and any number of workflows, and about agent discovery.  The degraded   *)
(* set of the state machine and the stale marks of the registry determine  *)
(* each other, so the inductive invariant of discovery is the type         *)
(* invariant, this equality, and what the HTTP client cache owes to the    *)
(* endpoint-change callbacks.                                              *)
(***************************************************************************)
EXTENDS AgentRegistry, TLAPS

-----------------------------------------------------------------------------
(* The state machine by itself, for any number of workflows *)

(* Every method keeps the three fields well typed. *)
LEMMA OrchTypeStep == OrchTypeOK /\ [OrchNext]_orchVars => OrchTypeOK'
<1> SUFFICES ASSUME OrchTypeOK, [OrchNext]_orchVars
             PROVE  OrchTypeOK'
  OBVIOUS
<1> USE DEF OrchTypeOK, Mode, WorkMode
<1>1. ASSUME NEW k \in Agent, AgentRegistered(k) \/ AgentRecovered(k)
      PROVE  OrchTypeOK'
  BY <1>1 DEF AgentRegistered, AgentRecovered
<1>2. ASSUME NEW k \in Agent, AgentFailureDetected(k)
      PROVE  OrchTypeOK'
  BY <1>2 DEF AgentFailureDetected
<1>3. CASE WorkflowSubmitted
  BY <1>3 DEF WorkflowSubmitted
<1>4. CASE WorkflowFinished
  BY <1>4 DEF WorkflowFinished
<1>5. CASE CriticalFailure \/ SystemRestored \/ Shutdown
  BY <1>5 DEF CriticalFailure, SystemRestored, Shutdown
<1>6. CASE UNCHANGED orchVars
  BY <1>6 DEF orchVars
<1>7. QED
  BY <1>1, <1>2, <1>3, <1>4, <1>5, <1>6 DEF OrchNext

(* The fields of the state machine are always well typed; in particular    *)
(* the workflow counter never becomes negative, because workflow_finished  *)
(* clamps it.                                                              *)
THEOREM OrchTyped == OrchSpec => []OrchTypeOK
<1>1. OrchInit => OrchTypeOK
  BY DEF OrchInit, OrchTypeOK, Mode
<1>2. QED
  BY <1>1, OrchTypeStep, PTL DEF OrchSpec

(* ModeAgrees is inductive relative to the types, one operation at a time. *)
LEMMA ModeAgreesStep == OrchTypeOK /\ ModeAgrees /\ [OrchNext]_orchVars => ModeAgrees'
<1> SUFFICES ASSUME OrchTypeOK, ModeAgrees, [OrchNext]_orchVars
             PROVE  ModeAgrees'
  OBVIOUS
<1> USE DEF OrchTypeOK, ModeAgrees, WorkMode, Healed
<1>1. ASSUME NEW k \in Agent, AgentRegistered(k)
      PROVE  ModeAgrees'
  BY <1>1 DEF AgentRegistered
<1>2. ASSUME NEW k \in Agent, AgentRecovered(k)
      PROVE  ModeAgrees'
  BY <1>2 DEF AgentRecovered
<1>3. ASSUME NEW k \in Agent, AgentFailureDetected(k)
      PROVE  ModeAgrees'
  BY <1>3 DEF AgentFailureDetected
<1>4. CASE WorkflowSubmitted
  BY <1>4 DEF WorkflowSubmitted
<1>5. CASE WorkflowFinished
  BY <1>5 DEF WorkflowFinished
<1>6. CASE CriticalFailure \/ SystemRestored \/ Shutdown
  BY <1>6 DEF CriticalFailure, SystemRestored, Shutdown
<1>7. CASE UNCHANGED orchVars
  BY <1>7 DEF orchVars
<1>8. QED
  BY <1>1, <1>2, <1>3, <1>4, <1>5, <1>6, <1>7 DEF OrchNext

(* The reported mode always agrees with the workflow counter and with the  *)
(* set of degraded agents.                                                 *)
THEOREM ModeAgreesAlways == OrchSpec => []ModeAgrees
<1>1. OrchInit => ModeAgrees
  BY DEF OrchInit, ModeAgrees
<1>2. QED
  BY <1>1, ModeAgreesStep, OrchTyped, PTL DEF OrchSpec

(* Once the lifespan has signalled the shutdown, no event leaves it. *)
THEOREM ShutdownIsFinalAlways == OrchSpec => ShutdownIsFinal
<1>1. [OrchNext]_orchVars => [mode = "SHUTDOWN" => mode' = "SHUTDOWN"]_orchVars
  BY DEF OrchNext, orchVars, AgentRegistered, AgentRecovered, AgentFailureDetected,
         WorkflowSubmitted, WorkflowFinished, CriticalFailure, SystemRestored,
         Shutdown, Healed
<1>2. QED
  BY <1>1, PTL DEF OrchSpec, ShutdownIsFinal

-----------------------------------------------------------------------------
(* The registry, the scheduler and the client cache *)

RegInv == RegTypeOK /\ ModeAgrees /\ DegradedAreStale /\ ClientTracksRegistry

(* The sentinels are three different values, none of them an endpoint. *)
LEMMA Sentinels ==
  /\ NoEndpoint \notin Endpoint /\ ConfigEndpoint \notin Endpoint
  /\ NoClient \notin Endpoint
  /\ NoEndpoint # ConfigEndpoint /\ NoClient # NoEndpoint /\ NoClient # ConfigEndpoint
  BY EndpointsDistinct

(* What a registry step does to the state machine is one of its events, or *)
(* nothing: its own invariants carry over.                                 *)
LEMMA RegStepIsOrchStep ==
  ASSUME [RegNext]_registryVars
  PROVE  [OrchNext]_orchVars
<1>1. ASSUME NEW k \in Agent, NEW ep, NEW ok, Announce(k, ep, ok)
      PROVE  OrchNext
  BY <1>1 DEF Announce, OrchNext
<1>2. ASSUME NEW k \in Agent, Notice(k) PROVE [OrchNext]_orchVars
  BY <1>2 DEF Notice, OrchNext
<1>3. Runner => OrchNext
  BY DEF Runner, OrchNext
<1>4. ASSUME NEW k \in Agent, Age(k) PROVE UNCHANGED orchVars
  BY <1>4 DEF Age
<1>5. ASSUME NEW k \in Agent, Schedule(k) \/ OpenClient(k) PROVE Notice(k)
  BY <1>5 DEF Schedule, OpenClient
<1>6. UNCHANGED registryVars => UNCHANGED orchVars
  BY DEF registryVars, orchVars
<1>7. QED
  BY <1>1, <1>2, <1>3, <1>4, <1>5, <1>6 DEF RegNext, AnnounceAny

(* An announcement renews the entry and clears the agent's stale mark and  *)
(* its place in the degraded set in one step; a cached client survives it  *)
(* only if the endpoint is the same, or none is announced.                 *)
LEMMA AnnounceKeeps ==
  ASSUME RegInv, NEW k \in Agent, NEW ep \in Endpoint \cup {NoEndpoint},
         NEW ok \in BOOLEAN, Announce(k, ep, ok), OrchTypeOK'
  PROVE  RegTypeOK' /\ DegradedAreStale' /\ ClientTracksRegistry'
<1> USE DEF RegInv
<1>1. RegTypeOK'
  <2>1. client' \in [Agent -> Endpoint \cup {ConfigEndpoint, NoClient}]
    BY DEF Announce, FireCallbacks, RegTypeOK
  <2>2. QED
    BY <2>1 DEF Announce, RegTypeOK
<1>2. DegradedAreStale'
  BY DEF Announce, AgentRegistered, DegradedAreStale
<1>3. ASSUME NEW j \in known', endpoint'[j] # NoEndpoint
      PROVE  client'[j] \in {NoClient, ConfigEndpoint, endpoint'[j]}
  <2>1. j \in Agent /\ client \in [Agent -> Endpoint \cup {ConfigEndpoint, NoClient}]
        /\ endpoint \in [Agent -> Endpoint \cup {NoEndpoint}]
    BY <1>1, <1>3 DEF RegTypeOK
  <2>2. CASE j # k
    <3>1. j \in known /\ endpoint'[j] = endpoint[j] /\ client'[j] = client[j]
      BY <1>3, <2>1, <2>2 DEF Announce, FireCallbacks
    <3>2. QED
      BY <1>3, <3>1 DEF ClientTracksRegistry
  <2>3. CASE j = k
    <3>1. endpoint'[k] = ep
      BY <2>1 DEF Announce
    <3>2. CASE k \notin known \/ endpoint[k] # ep
      BY <1>3, <2>1, <2>3, <3>1, <3>2 DEF Announce, FireCallbacks
    <3>3. CASE k \in known /\ endpoint[k] = ep
      <4>1. client' = client
        BY <3>3 DEF Announce, FireCallbacks
      <4>2. QED
        BY <1>3, <2>3, <3>1, <3>3, <4>1 DEF ClientTracksRegistry
    <3>4. QED
      BY <3>2, <3>3
  <2>4. QED
    BY <2>2, <2>3
<1>4. QED
  BY <1>1, <1>2, <1>3 DEF ClientTracksRegistry

(* Agent discovery implements the state machine it drives: composed with   *)
(* the registry, the scheduler and the client cache, the orchestrator goes *)
(* through no mode change that the state machine alone does not allow.     *)
THEOREM RegistryImplementsState == RegSpec => OrchSpec
<1>1. RegInit => OrchInit
  BY DEF RegInit
<1>2. QED
  BY <1>1, RegStepIsOrchStep, PTL DEF RegSpec, OrchSpec

(* Nothing that arrives during the shutdown, an announcement included,     *)
(* takes the composed orchestrator out of SHUTDOWN.                        *)
THEOREM ShutdownSurvivesAnnouncements == RegSpec => ShutdownIsFinal
  BY RegistryImplementsState, ShutdownIsFinalAlways, PTL

(* The reported mode agrees with the counter and the degraded set, however *)
(* the registry, the scheduler and the runner interleave.                  *)
THEOREM ModeAgreesWithRegistry == RegSpec => []ModeAgrees
  BY RegistryImplementsState, ModeAgreesAlways, PTL

(* The first lookup of an aged entry adds the agent to both records.       *)
LEMMA NoticeKeeps ==
  ASSUME RegInv, NEW k \in Agent, Notice(k), UNCHANGED <<known, endpoint, able, aged>>
  PROVE  stale' \subseteq aged' /\ DegradedAreStale'
  BY DEF RegInv, RegTypeOK, Notice, AgentFailureDetected, DegradedAreStale, orchVars

(* Every step of agent discovery keeps the invariant.                      *)
LEMMA RegStep == ASSUME RegInv, [RegNext]_registryVars PROVE RegInv'
<1>1. [OrchNext]_orchVars
  BY RegStepIsOrchStep
<1>2. OrchTypeOK' /\ ModeAgrees'
  BY <1>1, OrchTypeStep, ModeAgreesStep DEF RegInv, RegTypeOK
<1>3. ASSUME NEW k \in Agent, AnnounceAny(k) PROVE RegInv'
  BY <1>2, <1>3, AnnounceKeeps DEF AnnounceAny, RegInv
<1>4. ASSUME NEW k \in Agent, Age(k) PROVE RegInv'
  BY <1>2, <1>4 DEF Age, RegInv, RegTypeOK, DegradedAreStale, ClientTracksRegistry, orchVars
<1>5. ASSUME NEW k \in Agent, Schedule(k) PROVE RegInv'
  BY <1>2, <1>5, NoticeKeeps DEF Schedule, RegInv, RegTypeOK, ClientTracksRegistry
<1>6. ASSUME NEW k \in Agent, OpenClient(k) PROVE RegInv'
  <2>1. UNCHANGED <<known, endpoint, able, aged>> /\ Notice(k)
    BY <1>6 DEF OpenClient
  <2>2. client' = [client EXCEPT ![k] =
                     IF EndpointOf(k) = NoEndpoint THEN ConfigEndpoint ELSE EndpointOf(k)]
    BY <1>6 DEF OpenClient
  <2>3. EndpointOf(k) \in {NoEndpoint, endpoint[k]}
    BY DEF EndpointOf
  <2>4. /\ client \in [Agent -> Endpoint \cup {ConfigEndpoint, NoClient}]
        /\ endpoint \in [Agent -> Endpoint \cup {NoEndpoint}] /\ known \subseteq Agent
    BY DEF RegInv, RegTypeOK
  <2>5. client' \in [Agent -> Endpoint \cup {ConfigEndpoint, NoClient}]
    BY <2>2, <2>3, <2>4
  <2>6. ClientTracksRegistry'
    BY <2>1, <2>2, <2>3, <2>4 DEF RegInv, ClientTracksRegistry
  <2>7. QED
    BY <1>2, <2>1, <2>5, <2>6, NoticeKeeps DEF RegInv, RegTypeOK
<1>7. CASE Runner
  <2>1. UNCHANGED regVars /\ degraded' = degraded
    BY <1>7 DEF Runner, WorkflowSubmitted, WorkflowFinished, CriticalFailure,
       SystemRestored, Shutdown
  <2>2. QED
    BY <1>2, <2>1 DEF RegInv, RegTypeOK, DegradedAreStale, ClientTracksRegistry, regVars
<1>8. CASE UNCHANGED registryVars
  BY <1>2, <1>8 DEF RegInv, RegTypeOK, DegradedAreStale, ClientTracksRegistry,
     registryVars, regVars, orchVars
<1>9. QED
  BY <1>3, <1>4, <1>5, <1>6, <1>7, <1>8 DEF RegNext

(* The invariant of agent discovery, for any agents and endpoints: the     *)
(* state machine and the registry agree on who is degraded, and no cached  *)
(* client points at an address the registry has moved away from.           *)
THEOREM RegistryInvariant == RegSpec => []RegInv
<1>1. RegInit => RegInv
  BY DEF RegInit, OrchInit, RegInv, RegTypeOK, OrchTypeOK, Mode, ModeAgrees,
     DegradedAreStale, ClientTracksRegistry
<1>2. QED
  BY <1>1, RegStep, PTL DEF RegSpec

(* Type correctness of agent discovery. *)
THEOREM RegistryTyped == RegSpec => []RegTypeOK
<1>1. RegInv => RegTypeOK
  BY DEF RegInv
<1>2. QED
  BY <1>1, RegistryInvariant, PTL

(* The degraded set never disagrees with the registry's stale marks. *)
THEOREM DegradedAreStaleAlways == RegSpec => []DegradedAreStale
<1>1. RegInv => DegradedAreStale
  BY DEF RegInv
<1>2. QED
  BY <1>1, RegistryInvariant, PTL

(* A cached HTTP client never points at an address the registry has moved  *)
(* away from.                                                              *)
THEOREM ClientTracksRegistryAlways == RegSpec => []ClientTracksRegistry
<1>1. RegInv => ClientTracksRegistry
  BY DEF RegInv
<1>2. QED
  BY <1>1, RegistryInvariant, PTL

(* The scheduler grants no step to an agent that is reported as degraded:  *)
(* a degraded agent is stale, a stale entry is aged, and an aged entry     *)
(* resolves to no endpoint.                                                *)
THEOREM NoDispatchToDegradedAlways == RegSpec => []NoDispatchToDegraded
<1>1. RegInv => NoDispatchToDegraded
  BY DEF RegInv, RegTypeOK, DegradedAreStale, NoDispatchToDegraded, Grants, EndpointOf
<1>2. QED
  BY <1>1, RegistryInvariant, PTL
=============================================================================
