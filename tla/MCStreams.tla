------------------------------ MODULE MCStreams ------------------------------
(***************************************************************************)
(* What the gateway relays from a device to a browser: its telemetry and   *)
(* its terminals, two parts that share no state.  A behaviour is one of    *)
(* the part it starts with.                                                *)
(***************************************************************************)
EXTENDS Telemetry, RTTYS

VARIABLE active     \* "telemetry" or "terminals"

streamsVars == <<active, vars, rttyVars>>

InTelemetry(A) == active = "telemetry" /\ A /\ UNCHANGED <<active, rttyVars>>
InTerminals(A) == active = "terminals" /\ A /\ UNCHANGED <<active, vars>>

\* With terminals, no device has telemetry on.
StreamsInit ==
    /\ active \in {"telemetry", "terminals"}
    /\ Init /\ (active = "terminals" => ~deviceOn)
    /\ RttyInit

StreamsNext == InTelemetry(Next) \/ InTerminals(RttyNext)

\* What Telemetry!FairSpec assumes.
StreamsFairness ==
    /\ WF_streamsVars(InTelemetry(Process_telemetry))
    /\ WF_streamsVars(InTelemetry(Notify))
    /\ WF_streamsVars(InTelemetry(LifeTimePasses))
    /\ WF_streamsVars(InTelemetry(DeviceReceives))
    /\ WF_streamsVars(InTelemetry(DeviceSends))

StreamsSpec == StreamsInit /\ [][StreamsNext]_streamsVars /\ StreamsFairness
=============================================================================
