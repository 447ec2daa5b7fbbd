-------------------------- MODULE MCDeviceSessions --------------------------
(* Small instances of DeviceSessions. *)
EXTENDS DeviceSessions, TLC

Symmetry == Permutations(Conn) \cup Permutations(Serial)
=============================================================================
