---------------------------- MODULE AgentRegistry ----------------------------
(***************************************************************************)
(* Agent discovery in the orchestrator: the registry of announced KIOs     *)
(* (agent_registry.py), the scheduler's capability check                   *)
(* (task_scheduler.py) and the HTTP client cache of the KIO client         *)
(* (kio_client.py), all feeding the orchestrator state machine.  The three *)
(* objects share one event loop and never suspend between a lookup and its *)
(* effect, so every call is one step.                                      *)
(***************************************************************************)
EXTENDS OrchestratorState

CONSTANTS
  Endpoint,       \* (host, port) pairs a KIO may announce
  NoEndpoint,     \* an announcement without host or port; "not resolvable"
  ConfigEndpoint, \* the static address of the configuration's port map
  NoClient,       \* no HTTP client cached for the KIO
  MaxWorkflows    \* bound on the workflows the environment submits

ASSUME EndpointsDistinct ==
  /\ NoEndpoint \notin Endpoint
  /\ ConfigEndpoint \notin Endpoint \cup {NoEndpoint}
  /\ NoClient \notin Endpoint \cup {NoEndpoint, ConfigEndpoint}
  /\ MaxWorkflows \in Nat

VARIABLES
  known,          \* KIOs with an entry in _agents
  endpoint,       \* the host and port of that entry
  able,           \* KIOs whose supported_tasks admit their own task type
  aged,           \* KIOs whose last_seen is older than the stale threshold
  stale,          \* KIOs whose entry carries _stale_notified
  client          \* endpoint each cached HTTP client was opened to

regVars == <<known, endpoint, able, aged, stale, client>>
registryVars == <<orchVars, regVars>>

RegTypeOK ==
  /\ OrchTypeOK
  /\ known \subseteq Agent
  /\ endpoint \in [Agent -> Endpoint \cup {NoEndpoint}]
  /\ able \subseteq known
  /\ aged \subseteq known
  /\ stale \subseteq aged
  /\ client \in [Agent -> Endpoint \cup {ConfigEndpoint, NoClient}]

RegInit ==
  /\ OrchInit
  /\ known = {} /\ able = {} /\ aged = {} /\ stale = {}
  /\ endpoint = [k \in Agent |-> NoEndpoint]
  /\ client = [k \in Agent |-> NoClient]

-----------------------------------------------------------------------------
(* A mutant: the age of the entry is not looked at. *)
EndpointIgnoringAge(k) == IF k \in known THEN endpoint[k] ELSE NoEndpoint

(* get_endpoint: an aged or incomplete entry resolves to nothing. *)
EndpointOf(k) == IF k \in known \ aged THEN endpoint[k] ELSE NoEndpoint

(* A mutant: the failure is reported without remembering that it was. *)
NoticeUnflagged(k) ==
  IF k \in aged
  THEN /\ AgentFailureDetected(k)
       /\ UNCHANGED stale
  ELSE UNCHANGED <<orchVars, stale>>

(* The side effect of get_endpoint: the first lookup that finds the entry  *)
(* aged reports the failure, and later ones stay silent.                   *)
Notice(k) ==
  IF k \in aged \ stale
  THEN /\ AgentFailureDetected(k)
       /\ stale' = stale \cup {k}
  ELSE UNCHANGED <<orchVars, stale>>

(* A mutant: a changed endpoint does not reach the KIO client. *)
NoCallback(k, ep) == UNCHANGED client

(* The endpoint-change callbacks: KioClient._invalidate_client. *)
FireCallbacks(k, ep) ==
  IF ep # NoEndpoint /\ (k \notin known \/ endpoint[k] # ep)
  THEN client' = [client EXCEPT ![k] = NoClient]
  ELSE UNCHANGED client

(* A mutant: only a new endpoint counts as a sign of life. *)
AnnounceMoveOnly(k, ep, ok) ==
  /\ known' = known \cup {k}
  /\ endpoint' = [endpoint EXCEPT ![k] = ep]
  /\ able' = IF ok THEN able \cup {k} ELSE able \ {k}
  /\ aged' = aged \ {k}
  /\ stale' = stale \ {k}
  /\ IF endpoint[k] # ep THEN AgentRegistered(k) ELSE UNCHANGED orchVars
  /\ FireCallbacks(k, ep)

(* A mutant: the stale mark survives the announcement. *)
AnnounceStillStale(k, ep, ok) ==
  /\ known' = known \cup {k}
  /\ endpoint' = [endpoint EXCEPT ![k] = ep]
  /\ able' = IF ok THEN able \cup {k} ELSE able \ {k}
  /\ aged' = aged \ {k}
  /\ UNCHANGED stale
  /\ AgentRegistered(k)
  /\ FireCallbacks(k, ep)

(* handle_announcement replaces the entry, so the stale mark goes with the *)
(* old one.  Both branches report the agent as registered; the second one  *)
(* also as recovered, which then finds nothing left to do.                 *)
Announce(k, ep, ok) ==
  /\ known' = known \cup {k}
  /\ endpoint' = [endpoint EXCEPT ![k] = ep]
  /\ able' = IF ok THEN able \cup {k} ELSE able \ {k}
  /\ aged' = aged \ {k}
  /\ stale' = stale \ {k}
  /\ AgentRegistered(k)
  /\ FireCallbacks(k, ep)

(* No announcement for longer than agent_stale_threshold. *)
Age(k) ==
  /\ k \in known \ aged
  /\ aged' = aged \cup {k}
  /\ UNCHANGED <<orchVars, known, endpoint, able, stale, client>>

(* TaskScheduler.schedule returns k: either the registry is empty, or k    *)
(* resolves to an endpoint and declares its own task type.                 *)
Grants(k) == known = {} \/ (EndpointOf(k) # NoEndpoint /\ k \in able)

(* The scheduler's lookup, whatever it answers. *)
Schedule(k) ==
  /\ known # {}
  /\ Notice(k)
  /\ UNCHANGED <<known, endpoint, able, aged, client>>

(* KioClient._get_http_client, for a granted job on its HTTP path or for   *)
(* a health check: reuse the cached client if it points at the current     *)
(* endpoint, open a new one otherwise.                                     *)
OpenClient(k) ==
  /\ Notice(k)
  /\ client' = [client EXCEPT ![k] =
                  IF EndpointOf(k) = NoEndpoint THEN ConfigEndpoint ELSE EndpointOf(k)]
  /\ UNCHANGED <<known, endpoint, able, aged>>

(* The workflow runner and the lifespan. *)
Runner ==
  /\ \/ workflows < MaxWorkflows /\ WorkflowSubmitted
     \/ WorkflowFinished
     \/ CriticalFailure
     \/ SystemRestored
     \/ Shutdown
  /\ UNCHANGED regVars

AnnounceAny(k) ==
  \E ep \in Endpoint \cup {NoEndpoint}, ok \in BOOLEAN : Announce(k, ep, ok)

RegNext ==
  \/ \E k \in Agent : AnnounceAny(k) \/ Age(k) \/ Schedule(k) \/ OpenClient(k)
  \/ Runner

(* Fairness: every KIO runs kio_base's capability loop, so it keeps        *)
(* announcing itself.                                                      *)
RegSpec == RegInit /\ [][RegNext]_registryVars /\ \A k \in Agent : WF_registryVars(AnnounceAny(k))

-----------------------------------------------------------------------------
(* The orchestrator's degraded set and the registry's stale marks are two  *)
(* records of one fact, kept by different objects at different times: they *)
(* never disagree, so no agent stays degraded after its entry was renewed, *)
(* and no failure is reported twice or forgotten.                          *)
DegradedAreStale == degraded = stale

(* The scheduler never grants a step to an agent that the orchestrator     *)
(* reports as degraded, although the two learn about it separately.        *)
NoDispatchToDegraded == \A k \in Agent : Grants(k) => k \notin degraded

(* A cached HTTP client never points at an address the registry has moved  *)
(* away from: a KIO that restarts elsewhere is not called at its old place *)
(* (announcements without an address say nothing about where it is).       *)
ClientTracksRegistry ==
  \A k \in known :
    endpoint[k] # NoEndpoint => client[k] \in {NoClient, ConfigEndpoint, endpoint[k]}

(* A degraded agent that keeps announcing itself is eventually trusted     *)
(* again, even if it comes back at the address it always had.              *)
StaleAgentReturns == \A k \in Agent : []<>(k \notin degraded)
=============================================================================
