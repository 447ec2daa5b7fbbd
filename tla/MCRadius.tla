------------------------------ MODULE MCRadius ------------------------------
(***************************************************************************)
(* The three parts of the RADIUS proxy: the packets it edits, the sessions *)
(* it tracks and the destinations it keeps connected.  They share no state *)
(* with each other, so a behaviour exercises one of them, chosen initially.*)
(***************************************************************************)
EXTENDS RadiusPacket, RadiusTracker, RadiusProxy

CONSTANTS a1, a2

VARIABLE part   \* the part this behaviour exercises

vars == <<pktVars, trkVars, prxVars, part>>

A(t, v) == [type |-> t, value |-> v]

MCValue == {<<>>, <<1>>, <<2, 3>>, <<0, 4, 1>>}

MCPacket ==
    {<<>>,
     <<A(1, <<2, 3>>), A(2, <<1>>)>>,
     <<A(2, <<>>), A(1, <<1>>), A(2, <<0, 4, 1>>)>>,
     <<A(1, <<>>), A(1, <<1>>), A(1, <<2, 3>>), A(2, <<1>>)>>}

Pool(a, t, e) == [ip |-> a, type |-> t, enabled |-> e]

MCConfig ==
    {{Pool(a1, "generic", TRUE), Pool(a2, "orion", TRUE)},
     {Pool(a1, "globalreach", TRUE), Pool(a2, "radsec", FALSE)},
     {Pool(a2, "radsec", TRUE)}, {}, {Pool(a1, "udp", TRUE)}}

Init ==
    /\ part \in {"packet", "tracker", "proxy"}
    /\ IF part = "packet" THEN PktInit ELSE attributes = <<>> /\ Attrs_ = <<>>
    /\ TrkInit
    /\ PrxInit

Next ==
    \/ part = "packet" /\ PktNext /\ UNCHANGED <<trkVars, prxVars, part>>
    \/ part = "tracker" /\ TrkNext /\ UNCHANGED <<pktVars, prxVars, part>>
    \/ part = "proxy" /\ PrxNext /\ UNCHANGED <<pktVars, trkVars, part>>

\* The tracker's thread, its timer and the threads of the destinations run,
\* time passes, and a server that is tried for ever accepts in the end.
Fairness ==
    /\ WF_vars(part = "tracker" /\ TrackerSteps /\ UNCHANGED <<pktVars, prxVars, part>>)
    /\ WF_vars(part = "tracker" /\ GarbageCollection /\ UNCHANGED <<pktVars, prxVars, part>>)
    /\ \A d \in Device :
        WF_vars(part = "tracker" /\ Age(d) /\ UNCHANGED <<pktVars, prxVars, part>>)
    /\ \A a \in Ip :
        /\ WF_vars(part = "proxy" /\ ThreadSteps(a) /\ UNCHANGED <<pktVars, trkVars, part>>)
        /\ SF_vars(part = "proxy" /\ ConnectSucceeds(a) /\ UNCHANGED <<pktVars, trkVars, part>>)

FairSpec == Init /\ [][Next]_vars /\ Fairness
=============================================================================
