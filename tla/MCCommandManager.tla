-------------------------- MODULE MCCommandManager --------------------------
(***************************************************************************)
(* Instances of CommandManager for TLC.  Every cfg picks some of the       *)
(* commands below.                                                         *)
(***************************************************************************)
EXTENDS CommandManager

CONSTANTS
    conf,      \* a configure, retried later
    upgr,      \* an upgrade, retried later
    script,    \* a deferred script
    cfgup,     \* the configure that LookForUpgrade posts
    recover,   \* the reboot that Process_recovery posts
    other,     \* a configure of the other device
    d1, d2

MCSerialNumber == [u \in Cmd |-> IF u = other THEN d2 ELSE d1]

MCCommand ==
    [u \in Cmd |-> CASE u = script  -> "script"
                     [] u = recover -> "reboot"
                     [] u = upgr    -> "upgrade"
                     [] OTHER       -> "configure"]

MCOrigin ==
    [u \in Cmd |-> CASE u = cfgup   -> "upgrade"
                     [] u = recover -> "recovery"
                     [] OTHER       -> "rest"]

(* The scenes of the scheduler: the scheduled upgrade with a configure, as *)
(* long as no entry of the map is 10 minutes old; the scheduled upgrade    *)
(* with the reboot of a recovery event; a configure of LookForUpgrade      *)
(* without others.                                                         *)
Scene ==
    LET about == {u \in Cmd : pc[u] # "idle"}
    IN  /\ about \subseteq {upgr, conf} \/ about \subseteq {upgr, recover} \/ about = {cfgup}
        /\ conf \in about => aged = {}
=============================================================================
