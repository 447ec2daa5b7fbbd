--------------------------- MODULE MCDeviceConfig ---------------------------
(***************************************************************************)
(* Instances of DeviceConfig for TLC.  The first call wants newConfig,     *)
(* every other one otherConfig.                                            *)
(***************************************************************************)
EXTENDS DeviceConfig

CONSTANTS newConfig, otherConfig, call1

MCWanted == [c \in Calls |-> IF c = call1 THEN newConfig ELSE otherConfig]
=============================================================================
