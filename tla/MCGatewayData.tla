----------------------------- MODULE MCGatewayData -----------------------------
(***************************************************************************)
(* The calls that the gateway serves and the tables, caches and files they *)
(* rest on, in one run: to the parts of GatewayData come the device calls  *)
(* and the JSON form of the objects.  Of these parts only safety is        *)
(* checked.                                                                *)
(***************************************************************************)
EXTENDS MCDeviceCommands, GatewayData, JsonObjects

CONSTANTS m1, m2

Serials == {<<0, 1>>, <<1, 1>>}
SimulatedSerials == {<<1, 1>>}

Defaults == {[models |-> {m1}, platform |-> "ap"],
             [models |-> {AnyModel}, platform |-> "switch"]}

\* A device that is not connected, one with statistics that cannot be parsed,
\* and others.
Row_(connected, heard, sanity, stats) ==
    [known |-> TRUE, Connected |-> connected, certificate |-> "verified",
     LastContact |-> heard, Sanity |-> sanity, stats |-> stats, uptime |-> heard]

Gone == [known |-> FALSE, stats |-> "none"]

MCFound ==
    {[devices |-> <<Gone, Row_(TRUE, 1, 100, "good"), Row_(TRUE, 2, 91, "bad"), Gone>>,
      commands |-> <<"ping", "", "ping", "leds">>],
     [devices |-> <<Row_(FALSE, 1, 61, "none"), Row_(TRUE, 1, 60, "good")>>,
      commands |-> <<>>]}

NoObject == /\ type = "none" /\ object = <<>> /\ json = <<>> /\ copy = <<>>
            /\ written = FALSE /\ omitted = FALSE /\ reads = 0

DataInit ==
    /\ GatewayInit
    /\ DcInit
    /\ Idling("commands", device.kind = Silence.kind /\ request = Silence.request)
    /\ IF active = "json" THEN JsonInit ELSE NoObject

DataNext ==
    \/ GatewayNext /\ UNCHANGED <<dcVars, jsonVars>>
    \/ active = "commands" /\ DcNext /\ UNCHANGED <<gatewayVars, jsonVars>>
    \/ active = "json" /\ JsonNext /\ UNCHANGED <<gatewayVars, dcVars>>

dataVars == <<gatewayVars, dcVars, jsonVars>>

DataSpec == DataInit /\ [][DataNext]_dataVars
================================================================================
