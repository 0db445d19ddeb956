--------------------------- MODULE MCWorkflowEngine ---------------------------
(* Small instances of the workflow engine for TLC. *)
EXTENDS WorkflowEngine, TLC

CONSTANTS k1, k2

(* Sound where no liveness is checked. *)
Symmetric == Permutations(Session) \cup Permutations(Task)

(* POST /prompt starts with the router KIO alone, which may answer with    *)
(* the pipeline to run; POST /run names the pipeline or asks the planner.  *)
Prompt == [plan |-> <<k1>>, gates |-> {k1}]
Planner == [plan |-> <<>>, gates |-> {}]
TwoGates == [plan |-> <<k1, k2>>, gates |-> {k1, k2}]

(* Longer and shorter than what was asked for, and gated elsewhere. *)
LongRoute == [plan |-> <<k1, k2, k1>>, gates |-> {k2}]
ShortRoute == [plan |-> <<k2, k1>>, gates |-> {}]

OnePrompt == {Prompt}
OnePipeline == {TwoGates}
PlannedOrGated == {Planner, TwoGates}
AllRequests == {Prompt, Planner, TwoGates}
NoReroutes == {}
OneReroute == {ShortRoute}
AllReroutes == {LongRoute, ShortRoute}
=============================================================================
