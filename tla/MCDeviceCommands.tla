-------------------------- MODULE MCDeviceCommands --------------------------
(***************************************************************************)
(* Scenarios for DeviceCommands: one call of every command with good and   *)
(* bad bodies on five kinds of devices, and every pair of calls that leave *)
(* upload slots or terminals behind.                                       *)
(***************************************************************************)
EXTENDS DeviceCommands, TLC

CONSTANTS u1, u2, p1, p2

GoodBody == [method |-> "post", command |-> "ping", parameters |-> TRUE, role |-> "root",
         internal |-> FALSE, serial |-> "same", fields |-> TRUE, values |-> TRUE,
         when |-> FALSE, signature |-> FALSE, deferred |-> TRUE, script |-> TRUE,
         scriptId |-> "none", type |-> "shell", override |-> TRUE,
         statusOnly |-> FALSE, strict |-> FALSE]

Absent == [GoodBody EXCEPT !.method = "none"]

Method(c) == CASE c \in {"rtty", "packages"} -> "get"
               [] c = "unpackage" -> "delete"
               [] OTHER -> "post"

Varied ==
    {[GoodBody EXCEPT !.method = Method(c), !.command = c, !.role = r, !.serial = s,
                  !.fields = f, !.values = v, !.when = w] :
        c \in PostCommands \cup {"rtty", "packages", "unpackage"}, r \in {"root", "csr"},
        s \in {"missing", "same", "other"}, f \in BOOLEAN, v \in BOOLEAN, w \in BOOLEAN}

Scripts ==
    {[GoodBody EXCEPT !.command = "script", !.role = r, !.internal = (r = "none"),
                  !.signature = g, !.deferred = d, !.script = s, !.scriptId = i, !.type = t] :
        r \in {"root", "admin", "none"}, g \in BOOLEAN, d \in BOOLEAN, s \in BOOLEAN,
        i \in {"none", "unknown", "admin"}, t \in {"shell", "diagnostic", "other"}}

Special ==
    {[GoodBody EXCEPT !.command = "unknown"], [GoodBody EXCEPT !.parameters = FALSE],
     [GoodBody EXCEPT !.command = "telemetry", !.statusOnly = TRUE],
     [GoodBody EXCEPT !.command = "configure", !.strict = TRUE],
     [GoodBody EXCEPT !.command = "upgrade", !.signature = TRUE],
     [GoodBody EXCEPT !.command = "wifiscan", !.override = FALSE]}

Slots ==
    {[GoodBody EXCEPT !.command = "trace"], [GoodBody EXCEPT !.command = "script"],
     [GoodBody EXCEPT !.command = "script", !.deferred = FALSE],
     [GoodBody EXCEPT !.command = "rtty", !.method = "get"]}

Plain == [simulated |-> FALSE, restricted |-> FALSE, upgrade |-> FALSE,
          signable |-> FALSE, developer |-> FALSE, dfs |-> FALSE, rtty |-> FALSE]

Restricted ==
    [Plain EXCEPT !.restricted = TRUE, !.upgrade = TRUE, !.dfs = TRUE, !.rtty = TRUE]

DeviceKinds == {Plain, [Plain EXCEPT !.simulated = TRUE], Restricted,
          [Restricted EXCEPT !.signable = TRUE], [Restricted EXCEPT !.developer = TRUE]}

\* Nobody calls.
Silence == [kind |-> Plain, request |-> (u1 :> Absent @@ u2 :> Absent)]

MCScenario ==
    {Silence} \cup
    {[kind |-> k, request |-> (u1 :> q @@ u2 :> Absent)] :
        k \in DeviceKinds, q \in Varied \cup Scripts \cup Special}
    \cup
    {[kind |-> Plain, request |-> r] : r \in [CommandUuid -> Slots]}
=============================================================================
