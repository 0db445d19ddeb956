----------------------------- MODULE MCServices -----------------------------
(***************************************************************************)
(* The components around the workflow engine, checked in one run: each of  *)
(* them is a closed system of its own, so a behaviour picks one at the     *)
(* start and the others stay where they are.                               *)
(***************************************************************************)
EXTENDS SessionStore, Telemetry, MessageLog, EventStream, KioPipeline

VARIABLE part  \* the component that moves

MCReplies ==
  {<<>>, <<"kio1">>, <<"kio1", "kio5", "kio6", "kio7">>, <<"kio2", "kio9">>,
   <<"kio3", "kio4", "kio5", "kio6", "kio7", "kio8">>, <<"kio12", "kio5", "kio6", "kio7">>,
   <<"kio3", "kio11", "kio5">>, <<"kio10", "unknown", "kio3", "kio13">>}
MCHitlChoices == {{}, {"kio4"}}

ServicesInit ==
  /\ part \in {"store", "telemetry", "log", "stream", "pipeline"}
  /\ StoreInit /\ TelemetryInit /\ StreamInit
  (* Only the part that moves needs more than one initial state. *)
  /\ LogInit /\ (part # "log" => keyOf = [e \in Envelopes |-> CHOOSE k \in Keys : TRUE])
  /\ PipelineInit
  /\ part # "pipeline" => at = "plan" /\ gates = {} /\ input = [code |-> TRUE, repo |-> TRUE]

StoreMoves == /\ part = "store" /\ StoreNext
              /\ UNCHANGED <<part, telemetryVars, logVars, streamVars, pipelineVars>>
TelemetryMoves == /\ part = "telemetry" /\ TelemetryNext
                  /\ UNCHANGED <<part, storeVars, logVars, streamVars, pipelineVars>>
LogMoves == /\ part = "log" /\ LogNext
            /\ UNCHANGED <<part, storeVars, telemetryVars, streamVars, pipelineVars>>
StreamMoves == /\ part = "stream" /\ StreamNext
               /\ UNCHANGED <<part, storeVars, telemetryVars, logVars, pipelineVars>>
PipelineMoves == /\ part = "pipeline" /\ PipelineNext
                 /\ UNCHANGED <<part, storeVars, telemetryVars, logVars, streamVars>>

ServicesNext == StoreMoves \/ TelemetryMoves \/ LogMoves \/ StreamMoves \/ PipelineMoves

ServicesSpec ==
  ServicesInit /\ [][ServicesNext]_<<part, storeVars, telemetryVars, logVars, streamVars, pipelineVars>>

(* Type invariant: that of every component. *)
ServicesTypeOK ==
  StoreTypeOK /\ TelemetryTypeOK /\ LogTypeOK /\ StreamTypeOK /\ PipelineTypeOK
=============================================================================
