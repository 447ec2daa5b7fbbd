------------------------ MODULE DeviceCommandsProofs ------------------------
(***************************************************************************)
(* Proofs about the REST calls that act on a device (DeviceCommands), for  *)
(* any number of calls and upload threads and any requests.                *)
(***************************************************************************)
EXTENDS DeviceCommands, WellFoundedInduction, NaturalsInduction, TLAPS

DcTypes ==
    /\ device \in [kind : DeviceKind, exists : BOOLEAN, connected : BOOLEAN]
    /\ request \in [CommandUuid -> CommandRequest]
    /\ stage \in [CommandUuid -> {"absent", "new", "admitted", "refused", "ready",
                                  "unsent", "sent", "done", "lost"}]
    /\ known \in [CommandUuid -> [developer : BOOLEAN, dfs : BOOLEAN, rtty : BOOLEAN]]
    /\ params = [u \in CommandUuid |-> params[u]]
    /\ \A u \in CommandUuid : params[u].waiting \in BOOLEAN
    /\ slots \in [CommandUuid -> {"none", "open", "expired"}]
    /\ rows \in [CommandUuid -> {NoRow} \cup CommandRow]
    /\ files \subseteq CommandUuid /\ terminals \subseteq CommandUuid
    /\ lost \subseteq CommandUuid
    /\ upload \in [Uploader -> {Idle} \cup
                      [step : {"found", "reading", "stored"}, uuid : CommandUuid]]

(* A call that was not let through has left nothing behind, and no device  *)
(* knows of it.                                                            *)
Untouched(u) ==
    stage[u] \in {"absent", "new", "admitted", "refused"} =>
        /\ rows[u] = NoRow /\ slots[u] = "none" /\ u \notin files \cup terminals
        /\ ~Uploading(u)

(* The row is inserted at the end of the call. *)
RowComesLast(u) == Underway(u) => rows[u] = NoRow

(* What the gates let through. *)
Gated(u) ==
    /\ stage[u] = "new" => request[u].method # "none"
    /\ stage[u] = "admitted" =>
         /\ \/ request[u].method = "post" /\ request[u].command \in PostCommands
            \/ request[u].method = "get" /\ request[u].command \in {"rtty", "packages"}
            \/ request[u].method = "delete" /\ request[u].command = "unpackage"
         /\ request[u].command = "upgrade" => ~known[u].developer

(* What the handlers let through. *)
Fitting(u) ==
    Underway(u) =>
       /\ device.kind.simulated /\ device.exists =>
             request[u].command \in {"configure", "upgrade", "reboot", "factory", "leds", "ping"}
       /\ request[u].command = "upgrade" /\ device.kind.upgrade => params[u].signed
       /\ request[u].serial = "other" => \/ request[u].role \in {"root", "admin"}
                                         \/ request[u].command = "fixedconfig"
                                         \/ request[u].method = "get"

(* A file that is promised, or will be when the row is inserted: the       *)
(* device may still deliver it, or has, or it is lost.  A file that is     *)
(* there and still promised is that of a thread that will tell the row.    *)
Owed(u) ==
    \/ rows[u] # NoRow /\ rows[u].waiting
    \/ Underway(u) /\ params[u].waiting

Telling(u) == \E p \in Uploader : upload[p].step = "stored" /\ upload[p].uuid = u

Promised(u) ==
    Owed(u) => /\ slots[u] # "none" \/ Uploading(u) \/ u \in lost
               /\ u \in files => u \in lost \/ Telling(u)

CallInv(u) == Untouched(u) /\ RowComesLast(u) /\ Gated(u) /\ Fitting(u) /\ Promised(u)

DcInv == DcTypes /\ \A u \in CommandUuid : CallInv(u)

-----------------------------------------------------------------------------
(* A list of checks that refuses nothing. *)

LEMMA RefusalNone ==
    ASSUME NEW n \in Nat, NEW checks, DOMAIN checks = 1..n,
           \A i \in 1..n : checks[i][2] # "none", Refusal(checks) = "none"
    PROVE  \A k \in 1..n : ~checks[k][1]
<1> SUFFICES ASSUME NEW k \in 1..n, checks[k][1] PROVE FALSE
  OBVIOUS
<1> DEFINE T == {i \in 1..n : checks[i][1]}
           First(i) == checks[i][1] /\ \A j \in 1 .. i - 1 : ~checks[j][1]
           c == CHOOSE i \in DOMAIN checks : First(i)
<1>1. T \subseteq Nat /\ T # {}
  OBVIOUS
<1>2. PICK m \in T : \A i \in T : ~(<<i, m>> \in OpToRel(<, Nat))
  <2> HIDE DEF T
  <2> QED
    BY <1>1, NatLessThanWellFounded, WFMin, Zenon
<1>3. \A i \in T : ~(i < m)
  BY <1>1, <1>2, Zenon DEF OpToRel
<1>4. m \in DOMAIN checks /\ First(m)
  BY <1>3
<1>5. c \in DOMAIN checks /\ First(c)
  <2> HIDE DEF First
  <2> QED
    BY <1>4
<1>6. Refusal(checks) = checks[c][2]
  BY DEF Refusal
<1> QED
  BY <1>5, <1>6

LEMMA OneCheck ==
    ASSUME NEW a, a[2] # "none", Refusal(<<a>>) = "none"
    PROVE  ~a[1]
<1> DEFINE c == <<a>>
<1>1. DOMAIN c = 1..1 /\ \A i \in 1..1 : c[i][2] # "none"
  OBVIOUS
<1>2. c[1] = a /\ Refusal(c) = "none"
  OBVIOUS
<1> HIDE DEF c
<1>3. \A k \in 1..1 : ~c[k][1]
  BY <1>1, <1>2, RefusalNone
<1> QED
  BY <1>2, <1>3

LEMMA TwoChecks ==
    ASSUME NEW a, NEW b, a[2] # "none", b[2] # "none", Refusal(<<a, b>>) = "none"
    PROVE  ~a[1] /\ ~b[1]
<1> DEFINE c == <<a, b>>
<1>1. DOMAIN c = 1..2 /\ \A i \in 1..2 : c[i][2] # "none"
  OBVIOUS
<1>2. c[1] = a /\ c[2] = b /\ Refusal(c) = "none"
  OBVIOUS
<1> HIDE DEF c
<1>3. \A k \in 1..2 : ~c[k][1]
  BY <1>1, <1>2, RefusalNone
<1> QED
  BY <1>2, <1>3

LEMMA ThreeChecks ==
    ASSUME NEW a, NEW b, NEW e, a[2] # "none", b[2] # "none", e[2] # "none",
           Refusal(<<a, b, e>>) = "none"
    PROVE  ~a[1] /\ ~b[1] /\ ~e[1]
<1> DEFINE c == <<a, b, e>>
<1>1. DOMAIN c = 1..3 /\ \A i \in 1..3 : c[i][2] # "none"
  OBVIOUS
<1>2. c[1] = a /\ c[2] = b /\ c[3] = e /\ Refusal(c) = "none"
  OBVIOUS
<1> HIDE DEF c
<1>3. \A k \in 1..3 : ~c[k][1]
  BY <1>1, <1>2, RefusalNone
<1> QED
  BY <1>2, <1>3

LEMMA FourChecks ==
    ASSUME NEW a, NEW b, NEW e, NEW f, a[2] # "none", b[2] # "none",
           e[2] # "none", f[2] # "none", Refusal(<<a, b, e, f>>) = "none"
    PROVE  ~a[1] /\ ~b[1] /\ ~e[1] /\ ~f[1]
<1> DEFINE c == <<a, b, e, f>>
<1>1. DOMAIN c = 1..4 /\ \A i \in 1..4 : c[i][2] # "none"
  OBVIOUS
<1>2. c[1] = a /\ c[2] = b /\ c[3] = e /\ c[4] = f /\ Refusal(c) = "none"
  OBVIOUS
<1> HIDE DEF c
<1>3. \A k \in 1..4 : ~c[k][1]
  BY <1>1, <1>2, RefusalNone
<1> QED
  BY <1>2, <1>3

LEMMA FiveChecks ==
    ASSUME NEW a, NEW b, NEW e, NEW f, NEW g, a[2] # "none", b[2] # "none",
           e[2] # "none", f[2] # "none", g[2] # "none",
           Refusal(<<a, b, e, f, g>>) = "none"
    PROVE  ~a[1] /\ ~b[1] /\ ~e[1] /\ ~f[1] /\ ~g[1]
<1> DEFINE c == <<a, b, e, f, g>>
<1>1. DOMAIN c = 1..5 /\ \A i \in 1..5 : c[i][2] # "none"
  OBVIOUS
<1>2. /\ c[1] = a /\ c[2] = b /\ c[3] = e /\ c[4] = f /\ c[5] = g
      /\ Refusal(c) = "none"
  OBVIOUS
<1> HIDE DEF c
<1>3. \A k \in 1..5 : ~c[k][1]
  BY <1>1, <1>2, RefusalNone
<1> QED
  BY <1>2, <1>3

-----------------------------------------------------------------------------
(* What the handlers let through, and what they hand on. *)

(* A request that is let through asks for nothing that a simulator cannot  *)
(* answer, is signed if it has to be, and is for its own device or from an *)
(* operator who may do more.                                               *)
Fit(q, d, r, p) ==
    /\ IsDeviceSimulated(d) =>
          q.command \in {"configure", "upgrade", "reboot", "factory", "leds", "ping"}
    /\ q.command = "upgrade" /\ ~r.developer /\ d.kind.upgrade => p.signed
    /\ q.serial = "other" /\ q.method # "get" /\ q.command # "fixedconfig" =>
          q.role \in {"root", "admin"}

(* Whoever waits for a file has a slot for it. *)
Sound(q, d, r, p) ==
    /\ Proceeds(p) => Fit(q, d, r, p)
    /\ p.waiting \in BOOLEAN /\ (p.waiting => p.slot)

Template == [refusal : {"none"}, retry : BOOLEAN, when : BOOLEAN, waiting : BOOLEAN,
             slot : BOOLEAN, terminal : BOOLEAN, signed : BOOLEAN, direct : BOOLEAN,
             row : BOOLEAN]

Restriction == [developer : BOOLEAN, dfs : BOOLEAN, rtty : BOOLEAN]
Dev == [kind : DeviceKind, exists : BOOLEAN, connected : BOOLEAN]

LEMMA CheckedFields ==
    ASSUME NEW c, NEW t \in Template
    PROVE  LET p == Checked(c, t)
           IN  /\ Proceeds(p) => Refusal(c) = "none"
               /\ p.waiting = t.waiting /\ p.slot = t.slot /\ p.signed = t.signed
               /\ p.waiting \in BOOLEAN
  BY DEF Checked, Template, Proceeds

LEMMA Templates ==
    ASSUME NEW q \in CommandRequest
    PROVE  /\ NoParams \in Template /\ ~NoParams.waiting
           /\ At(q, NoParams) \in Template /\ ~At(q, NoParams).waiting
           /\ Retried(NoParams) \in Template /\ ~Retried(NoParams).waiting
           /\ Retried(At(q, NoParams)) \in Template
           /\ ~Retried(At(q, NoParams)).waiting
<1>1. NoParams \in Template /\ ~NoParams.waiting
  BY DEF NoParams, Template
<1>2. At(q, NoParams) \in Template /\ ~At(q, NoParams).waiting
  BY DEF NoParams, Template, At, CommandRequest
<1>3. ASSUME NEW t \in Template, ~t.waiting
      PROVE  Retried(t) \in Template /\ ~Retried(t).waiting
  BY <1>3 DEF Template, Retried
<1> QED
  BY <1>1, <1>2, <1>3

(* A handler whose checks make its request fit, and that waits for nothing.*)
LEMMA SoundUnlessRefused ==
    ASSUME NEW q, NEW d, NEW r, NEW c, NEW t \in Template, ~t.waiting,
           Refusal(c) = "none" => Fit(q, d, r, Checked(c, t))
    PROVE  Sound(q, d, r, Checked(c, t))
  BY CheckedFields DEF Sound

LEMMA ScriptIsSound ==
    ASSUME NEW q \in CommandRequest, NEW d \in Dev, NEW r \in Restriction,
           q.command = "script"
    PROVE  Sound(q, d, r, Script(q, d, r))
<1> DEFINE diagnostic == q.type = "diagnostic"
           stored     == q.scriptId # "none"
           unsigned   == ~r.developer /\ d.kind.restricted /\ ~q.signature
           c == << NotSimulated(d), <<~q.fields, "InvalidJSONDocument">>,
                   <<q.script /\ stored, "InvalidScriptSelection">>,
                   <<~q.internal /\ q.role # "root" /\ ~stored, "ACCESS_DENIED">>,
                   <<~q.script /\ ~stored /\ ~diagnostic, "InvalidScriptSelection">>,
                   <<diagnostic /\ (stored \/ q.script), "InvalidScriptSelection">>,
                   <<q.serial # "same", "SerialNumberMismatch">>,
                   <<~q.values, "InvalidURI">>,
                   StillThere(d),
                   <<q.scriptId = "unknown", "MissingOrInvalidParameters">>,
                   <<stored /\ ~MayRun(q), "ACCESS_DENIED">>,
                   <<~stored /\ q.type \notin {"shell", "bundle", "diagnostic"},
                     "MissingOrInvalidParameters">>,
                   <<unsigned /\ ~d.kind.signable, "DeviceRequiresSignature">> >>
           t == [NoParams EXCEPT !.waiting = q.deferred, !.slot = TRUE,
                                 !.signed = q.signature]
<1>1. Script(q, d, r) = Checked(c, t)
  BY DEF Script
<1>2. t \in Template /\ t.slot
  BY DEF NoParams, Template, CommandRequest
<1>3. ASSUME Refusal(c) = "none"
      PROVE  ~IsDeviceSimulated(d) /\ q.serial = "same"
  <2>1. DOMAIN c = 1..13 /\ \A i \in 1..13 : c[i][2] # "none"
    BY DEF NotSimulated, StillThere
  <2>2. c[1][1] = IsDeviceSimulated(d) /\ c[7][1] = (q.serial # "same")
    BY DEF NotSimulated
  <2> HIDE DEF c
  <2>3. \A k \in 1..13 : ~c[k][1]
    BY <1>3, <2>1, RefusalNone
  <2>4. ~c[1][1] /\ ~c[7][1]
    BY <2>3
  <2> QED
    BY <2>2, <2>4
<1> HIDE DEF c, t
<1>4. Refusal(c) = "none" => Fit(q, d, r, Checked(c, t))
  BY <1>3 DEF Fit
<1> QED
  BY <1>1, <1>2, <1>4, CheckedFields DEF Sound

LEMMA UpgradeIsSound ==
    ASSUME NEW q \in CommandRequest, NEW d \in Dev, NEW r \in Restriction,
           q.command = "upgrade"
    PROVE  Sound(q, d, r, Upgrade(q, d, r))
<1> DEFINE signed == q.signature \/ (d.kind.upgrade /\ d.kind.signable)
           c == <<Complete(q), SameSerial(q), StillThere(d),
                  <<~r.developer /\ ~signed /\ d.kind.upgrade, "DeviceRequiresSignature">> >>
           s == [NoParams EXCEPT !.signed = signed]
           t == Retried(At(q, s))
<1>1. Upgrade(q, d, r) = Checked(c, t)
  BY DEF Upgrade
<1>2. s \in Template /\ ~s.waiting /\ s.signed = signed
  BY DEF NoParams, Template
<1>3. t \in Template /\ ~t.waiting /\ t.signed = signed
  <2> HIDE DEF s, signed
  <2>1. /\ At(q, s) \in Template /\ ~At(q, s).waiting /\ At(q, s).signed = signed
    BY <1>2 DEF At, Template, CommandRequest
  <2> QED
    BY <2>1 DEF Retried, Template
<1>4. ASSUME Refusal(c) = "none"
      PROVE  (~r.developer /\ d.kind.upgrade => signed) /\ q.serial # "other"
  <2> DEFINE last == <<~r.developer /\ ~signed /\ d.kind.upgrade, "DeviceRequiresSignature">>
  <2>1. /\ last[1] = (~r.developer /\ ~signed /\ d.kind.upgrade) /\ last[2] # "none"
        /\ Complete(q)[2] # "none" /\ SameSerial(q)[2] # "none"
        /\ StillThere(d)[2] # "none" /\ SameSerial(q)[1] = (q.serial = "other")
    BY DEF Complete, SameSerial, StillThere
  <2>2. Refusal(<<Complete(q), SameSerial(q), StillThere(d), last>>) = "none"
    BY <1>4
  <2> HIDE DEF last
  <2>3. ~last[1] /\ ~SameSerial(q)[1]
    BY <2>1, <2>2, FourChecks
  <2> QED
    BY <2>1, <2>3
<1> HIDE DEF c, t, signed
<1>5. Refusal(c) = "none" => Fit(q, d, r, Checked(c, t))
  BY <1>3, <1>4, CheckedFields DEF Fit
<1> QED
  BY <1>1, <1>3, <1>5, SoundUnlessRefused

(* The serial number of the body is looked at before anything is sent. *)
LEMMA SerialIsChecked ==
    ASSUME NEW q \in CommandRequest, NEW d \in Dev
    PROVE  /\ NotSimulated(d)[1] = IsDeviceSimulated(d) /\ NotSimulated(d)[2] # "none"
           /\ RootOrAdmin(q)[1] = (q.role \notin {"root", "admin"})
           /\ RootOrAdmin(q)[2] # "none"
           /\ SameSerial(q)[1] = (q.serial = "other") /\ SameSerial(q)[2] # "none"
           /\ WellFormed(q)[2] # "none" /\ ValidValues(q)[2] # "none"
           /\ Complete(q)[2] # "none" /\ SerialPresent(q)[2] # "none"
           /\ StillThere(d)[2] # "none"
  BY DEF NotSimulated, RootOrAdmin, SameSerial, WellFormed, ValidValues, Complete,
         SerialPresent, StillThere

LEMMA ConnectionlessAreSound ==
    ASSUME NEW q \in CommandRequest, NEW d \in Dev, NEW r \in Restriction,
           q.command \in {"configure", "reboot", "factory", "leds", "ping"}
    PROVE  /\ Sound(q, d, r, DoConfigure(q, d, r))
           /\ Sound(q, d, r, Reboot(q, d, r)) /\ Sound(q, d, r, Factory(q, d, r))
           /\ Sound(q, d, r, LEDs(q, d, r)) /\ Sound(q, d, r, Ping(q, d, r))
<1>1. ASSUME q.serial # "other", NEW p
      PROVE  Fit(q, d, r, p)
  BY <1>1 DEF Fit
<1>2. Sound(q, d, r, DoConfigure(q, d, r))
  <2> DEFINE a == <<~q.values, "ConfigBlockInvalid">>
             c == <<Complete(q), SameSerial(q), StillThere(d), a>>
  <2>1. a[2] # "none"
    OBVIOUS
  <2> HIDE DEF a
  <2>2. ASSUME Refusal(c) = "none" PROVE q.serial # "other"
    <3>1. Complete(q)[2] # "none" /\ SameSerial(q)[2] # "none" /\ StillThere(d)[2] # "none"
      BY SerialIsChecked
    <3>2. ~SameSerial(q)[1]
      BY <2>1, <2>2, <3>1, FourChecks
    <3> QED
      BY <3>2, SerialIsChecked
  <2> HIDE DEF c
  <2>3. Sound(q, d, r, Checked(c, Retried(At(q, NoParams))))
    BY <1>1, <2>2, Templates, SoundUnlessRefused
  <2> QED
    BY <2>3 DEF DoConfigure, c, a
<1>3. Sound(q, d, r, Reboot(q, d, r)) /\ Sound(q, d, r, Ping(q, d, r))
  <2> DEFINE c == <<SerialPresent(q), SameSerial(q)>>
  <2>1. Refusal(c) = "none" => q.serial # "other"
    BY SerialIsChecked, TwoChecks
  <2> HIDE DEF c
  <2>2. Sound(q, d, r, Checked(c, At(q, NoParams))) /\ Sound(q, d, r, Checked(c, NoParams))
    BY <1>1, <2>1, Templates, SoundUnlessRefused
  <2> QED
    BY <2>2 DEF Reboot, Ping, c
<1>4. Sound(q, d, r, Factory(q, d, r))
  <2> DEFINE c == <<Complete(q), SameSerial(q)>>
  <2>1. Refusal(c) = "none" => q.serial # "other"
    BY SerialIsChecked, TwoChecks
  <2> HIDE DEF c
  <2>2. Sound(q, d, r, Checked(c, Retried(At(q, NoParams))))
    BY <1>1, <2>1, Templates, SoundUnlessRefused
  <2> QED
    BY <2>2 DEF Factory, c
<1>5. Sound(q, d, r, LEDs(q, d, r))
  <2> DEFINE c == <<Complete(q), SameSerial(q), ValidValues(q)>>
  <2>1. ASSUME Refusal(c) = "none" PROVE q.serial # "other"
    <3>1. Complete(q)[2] # "none" /\ SameSerial(q)[2] # "none" /\ ValidValues(q)[2] # "none"
      BY SerialIsChecked
    <3>2. ~SameSerial(q)[1]
      BY <2>1, <3>1, ThreeChecks
    <3> QED
      BY <3>2, SerialIsChecked
  <2> HIDE DEF c
  <2>2. Sound(q, d, r, Checked(c, At(q, NoParams)))
    BY <1>1, <2>1, Templates, SoundUnlessRefused
  <2> QED
    BY <2>2 DEF LEDs, c
<1> QED
  BY <1>2, <1>3, <1>4, <1>5

(* These come from an operator who may do more, for a device that is none  *)
(* of the simulator's; the serial number in the body matters to two.       *)
LEMMA PrivilegedAreSound ==
    ASSUME NEW q \in CommandRequest, NEW d \in Dev, NEW r \in Restriction,
           q.command \in {"certupdate", "transfer", "powercycle", "cablediagnostics",
                          "reenroll", "rrm", "package", "unpackage"}
    PROVE  /\ Sound(q, d, r, CertUpdate(q, d, r)) /\ Sound(q, d, r, Transfer(q, d, r))
           /\ Sound(q, d, r, PowerCycle(q, d, r))
           /\ Sound(q, d, r, CableDiagnostics(q, d, r))
           /\ Sound(q, d, r, ReEnroll(q, d, r)) /\ Sound(q, d, r, RRM(q, d, r))
           /\ Sound(q, d, r, PackageInstall(q, d, r))
           /\ Sound(q, d, r, DeletePackages(q, d, r))
<1>1. ASSUME ~NotSimulated(d)[1], ~RootOrAdmin(q)[1], NEW p
      PROVE  Fit(q, d, r, p)
  BY <1>1, SerialIsChecked DEF Fit
<1>2. /\ NotSimulated(d)[2] # "none" /\ RootOrAdmin(q)[2] # "none"
      /\ WellFormed(q)[2] # "none" /\ SameSerial(q)[2] # "none"
  BY SerialIsChecked
<1>3. /\ Sound(q, d, r, CertUpdate(q, d, r)) /\ Sound(q, d, r, Transfer(q, d, r))
      /\ Sound(q, d, r, PowerCycle(q, d, r)) /\ Sound(q, d, r, ReEnroll(q, d, r))
      /\ Sound(q, d, r, CableDiagnostics(q, d, r))
  <2> DEFINE c == <<RootOrAdmin(q), NotSimulated(d), WellFormed(q)>>
  <2>1. Refusal(c) = "none" => ~NotSimulated(d)[1] /\ ~RootOrAdmin(q)[1]
    BY <1>2, ThreeChecks
  <2> HIDE DEF c
  <2>2. /\ Sound(q, d, r, Checked(c, NoParams))
        /\ Sound(q, d, r, Checked(c, At(q, NoParams)))
    BY <1>1, <2>1, Templates, SoundUnlessRefused
  <2> QED
    BY <2>2 DEF CertUpdate, Transfer, PowerCycle, CableDiagnostics, ReEnroll, c
<1>4. Sound(q, d, r, RRM(q, d, r))
  <2> DEFINE a == <<~q.values, "InvalidRRMAction">>
             c == <<NotSimulated(d), RootOrAdmin(q), WellFormed(q), a>>
             t == [NoParams EXCEPT !.direct = TRUE]
  <2>1. a[2] # "none"
    OBVIOUS
  <2> HIDE DEF a
  <2>2. Refusal(c) = "none" => ~NotSimulated(d)[1] /\ ~RootOrAdmin(q)[1]
    BY <1>2, <2>1, FourChecks
  <2>3. t \in Template /\ ~t.waiting
    BY DEF NoParams, Template
  <2> HIDE DEF c, t
  <2>4. Sound(q, d, r, Checked(c, t))
    BY <1>1, <2>2, <2>3, SoundUnlessRefused
  <2> QED
    BY <2>4 DEF RRM, c, t, a
<1>5. Sound(q, d, r, PackageInstall(q, d, r)) /\ Sound(q, d, r, DeletePackages(q, d, r))
  <2> DEFINE a == <<q.serial = "missing", "MissingOrInvalidParameters">>
             c == <<RootOrAdmin(q), NotSimulated(d), a, SameSerial(q), WellFormed(q)>>
  <2>1. a[2] # "none"
    OBVIOUS
  <2> HIDE DEF a
  <2>2. Refusal(c) = "none" => ~NotSimulated(d)[1] /\ ~RootOrAdmin(q)[1]
    BY <1>2, <2>1, FiveChecks
  <2> HIDE DEF c
  <2>3. Sound(q, d, r, Checked(c, NoParams))
    BY <1>1, <2>2, Templates, SoundUnlessRefused
  <2> QED
    BY <2>3 DEF PackageInstall, DeletePackages, c, a
<1> QED
  BY <1>3, <1>4, <1>5

(* These are for no simulated device, and for the device that the body     *)
(* names.                                                                  *)
LEMMA OwnDeviceIsSound ==
    ASSUME NEW q \in CommandRequest, NEW d \in Dev, NEW r \in Restriction,
           q.command \in {"trace", "wifiscan", "eventqueue", "request", "telemetry"}
    PROVE  /\ Sound(q, d, r, Trace(q, d, r)) /\ Sound(q, d, r, WifiScan(q, d, r))
           /\ Sound(q, d, r, EventQueue(q, d, r)) /\ Sound(q, d, r, MakeRequest(q, d, r))
           /\ Sound(q, d, r, Telemetry(q, d, r))
<1>1. ASSUME ~NotSimulated(d)[1], q.serial # "other", NEW p
      PROVE  Fit(q, d, r, p)
  BY <1>1, SerialIsChecked DEF Fit
<1>2. /\ NotSimulated(d)[2] # "none" /\ Complete(q)[2] # "none"
      /\ SameSerial(q)[2] # "none"
  BY SerialIsChecked
<1> DEFINE c == <<NotSimulated(d), Complete(q), SameSerial(q)>>
<1>3. ASSUME Refusal(c) = "none"
      PROVE  ~NotSimulated(d)[1] /\ q.serial # "other"
  <2>1. ~NotSimulated(d)[1] /\ ~SameSerial(q)[1]
    BY <1>2, <1>3, ThreeChecks
  <2> QED
    BY <2>1, SerialIsChecked
<1> HIDE DEF c
<1>4. Sound(q, d, r, Trace(q, d, r))
  <2> DEFINE t == [NoParams EXCEPT !.waiting = TRUE, !.slot = TRUE]
  <2>1. t \in Template /\ t.slot
    BY DEF NoParams, Template
  <2> HIDE DEF t
  <2>2. Sound(q, d, r, Checked(c, t))
    BY <1>1, <1>3, <2>1, CheckedFields DEF Sound
  <2> QED
    BY <2>2 DEF Trace, c, t
<1>5. Sound(q, d, r, EventQueue(q, d, r))
  <2>1. Sound(q, d, r, Checked(c, NoParams))
    BY <1>1, <1>3, Templates, SoundUnlessRefused
  <2> QED
    BY <2>1 DEF EventQueue, c
<1>6. Sound(q, d, r, Telemetry(q, d, r))
  <2> DEFINE t == [NoParams EXCEPT !.direct = TRUE, !.row = ~q.statusOnly]
  <2>1. t \in Template /\ ~t.waiting
    BY DEF NoParams, Template
  <2> HIDE DEF t
  <2>2. Sound(q, d, r, Checked(c, t))
    BY <1>1, <1>3, <2>1, SoundUnlessRefused
  <2> QED
    BY <2>2 DEF Telemetry, c, t
<1>7. Sound(q, d, r, WifiScan(q, d, r))
  <2> DEFINE a == <<q.serial = "missing", "InternalError">>
             b == <<~r.developer /\ r.dfs /\ q.override, "DeviceIsRestricted">>
             e == <<NotSimulated(d), a, SameSerial(q), b>>
  <2>1. a[2] # "none" /\ b[2] # "none"
    OBVIOUS
  <2> HIDE DEF a, b
  <2>2. ASSUME Refusal(e) = "none"
        PROVE  ~NotSimulated(d)[1] /\ q.serial # "other"
    <3>1. ~NotSimulated(d)[1] /\ ~SameSerial(q)[1]
      BY <1>2, <2>1, <2>2, FourChecks
    <3> QED
      BY <3>1, SerialIsChecked
  <2> HIDE DEF e
  <2>3. Sound(q, d, r, Checked(e, NoParams))
    BY <1>1, <2>2, Templates, SoundUnlessRefused
  <2> QED
    BY <2>3 DEF WifiScan, e, a, b
<1>8. Sound(q, d, r, MakeRequest(q, d, r))
  <2> DEFINE a == <<q.serial = "other" \/ ~q.values, "MissingOrInvalidParameters">>
             e == <<NotSimulated(d), Complete(q), a>>
  <2>1. a[2] # "none" /\ a[1] = (q.serial = "other" \/ ~q.values)
    OBVIOUS
  <2> HIDE DEF a
  <2>2. ASSUME Refusal(e) = "none"
        PROVE  ~NotSimulated(d)[1] /\ q.serial # "other"
    <3>1. ~NotSimulated(d)[1] /\ ~a[1]
      BY <1>2, <2>1, <2>2, ThreeChecks
    <3> QED
      BY <2>1, <3>1
  <2> HIDE DEF e
  <2>3. Sound(q, d, r, Checked(e, At(q, NoParams)))
    BY <1>1, <2>2, Templates, SoundUnlessRefused
  <2> QED
    BY <2>3 DEF MakeRequest, e, a
<1> QED
  BY <1>4, <1>5, <1>6, <1>7, <1>8

(* These are for no simulated device; no body is forwarded, or any. *)
LEMMA AnySerialIsSound ==
    ASSUME NEW q \in CommandRequest, NEW d \in Dev, NEW r \in Restriction,
           \/ q.command = "fixedconfig"
           \/ q.method = "get" /\ q.command \in {"rtty", "packages"}
    PROVE  /\ Sound(q, d, r, FixedConfig(q, d, r)) /\ Sound(q, d, r, Rtty(q, d, r))
           /\ Sound(q, d, r, GetPackages(q, d, r))
<1>1. ASSUME ~NotSimulated(d)[1], NEW p
      PROVE  Fit(q, d, r, p)
  BY <1>1, SerialIsChecked DEF Fit
<1>2. /\ NotSimulated(d)[2] # "none" /\ WellFormed(q)[2] # "none"
      /\ StillThere(d)[2] # "none"
  BY SerialIsChecked
<1>3. Sound(q, d, r, FixedConfig(q, d, r))
  <2> DEFINE c == <<NotSimulated(d), WellFormed(q)>>
  <2>1. Refusal(c) = "none" => ~NotSimulated(d)[1]
    BY <1>2, TwoChecks
  <2> HIDE DEF c
  <2>2. Sound(q, d, r, Checked(c, NoParams))
    BY <1>1, <2>1, Templates, SoundUnlessRefused
  <2> QED
    BY <2>2 DEF FixedConfig, c
<1>4. Sound(q, d, r, GetPackages(q, d, r))
  <2> DEFINE c == <<NotSimulated(d)>>
  <2>1. Refusal(c) = "none" => ~NotSimulated(d)[1]
    BY <1>2, OneCheck
  <2> HIDE DEF c
  <2>2. Sound(q, d, r, Checked(c, NoParams))
    BY <1>1, <2>1, Templates, SoundUnlessRefused
  <2> QED
    BY <2>2 DEF GetPackages, c
<1>5. Sound(q, d, r, Rtty(q, d, r))
  <2> DEFINE a == <<~r.developer /\ r.rtty, "DeviceIsRestricted">>
             b == <<~RttyEnabled, "ServiceUnavailable">>
             e == <<MaxTerminals # 0 /\ Cardinality(terminals) = MaxTerminals,
                    "MaximumRTTYSessionsReached">>
             c == <<NotSimulated(d), a, b, StillThere(d), e>>
             t == [NoParams EXCEPT !.terminal = TRUE]
  <2>1. a[2] # "none" /\ b[2] # "none" /\ e[2] # "none"
    OBVIOUS
  <2> HIDE DEF a, b, e
  <2>2. Refusal(c) = "none" => ~NotSimulated(d)[1]
    BY <1>2, <2>1, FiveChecks
  <2>3. t \in Template /\ ~t.waiting
    BY DEF NoParams, Template
  <2> HIDE DEF c, t
  <2>4. Sound(q, d, r, Checked(c, t))
    BY <1>1, <2>2, <2>3, SoundUnlessRefused
  <2> QED
    BY <2>4 DEF Rtty, c, t, a, b, e
<1> QED
  BY <1>3, <1>4, <1>5

(* Every handler: what the gates let through has one. *)
LEMMA HandlingIsSound ==
    ASSUME NEW q \in CommandRequest, NEW d \in Dev, NEW r \in Restriction,
           \/ q.method = "post" /\ q.command \in PostCommands
           \/ q.method = "get" /\ q.command \in {"rtty", "packages"}
           \/ q.method = "delete" /\ q.command = "unpackage"
    PROVE  Sound(q, d, r, Handling(q, d, r))
<1>1. CASE q.command = "script"
  BY <1>1, ScriptIsSound DEF Handling
<1>2. CASE q.command = "upgrade"
  BY <1>2, UpgradeIsSound DEF Handling
<1>3. CASE q.command \in {"configure", "reboot", "factory", "leds", "ping"}
  <2>1. Handling(q, d, r) \in {DoConfigure(q, d, r), Reboot(q, d, r), Factory(q, d, r),
                               LEDs(q, d, r), Ping(q, d, r)}
    BY <1>3 DEF Handling
  <2> QED
    BY <1>3, <2>1, ConnectionlessAreSound
<1>4. CASE q.command \in {"certupdate", "transfer", "powercycle", "cablediagnostics",
                          "reenroll", "rrm", "package", "unpackage"}
  <2>1. Handling(q, d, r) \in
            {CertUpdate(q, d, r), Transfer(q, d, r), PowerCycle(q, d, r),
             CableDiagnostics(q, d, r), ReEnroll(q, d, r), RRM(q, d, r),
             PackageInstall(q, d, r), DeletePackages(q, d, r)}
    BY <1>4 DEF Handling
  <2> QED
    BY <1>4, <2>1, PrivilegedAreSound
<1>5. CASE q.command \in {"trace", "wifiscan", "eventqueue", "request", "telemetry"}
  <2>1. Handling(q, d, r) \in {Trace(q, d, r), WifiScan(q, d, r), EventQueue(q, d, r),
                               MakeRequest(q, d, r), Telemetry(q, d, r)}
    BY <1>5 DEF Handling
  <2> QED
    BY <1>5, <2>1, OwnDeviceIsSound
<1>6. CASE \/ q.command = "fixedconfig"
           \/ q.method = "get" /\ q.command \in {"rtty", "packages"}
  <2>1. Handling(q, d, r) \in {FixedConfig(q, d, r), Rtty(q, d, r), GetPackages(q, d, r)}
    BY <1>6 DEF Handling
  <2> QED
    BY <1>6, <2>1, AnySerialIsSound
<1> QED
  BY <1>1, <1>2, <1>3, <1>4, <1>5, <1>6 DEF PostCommands

-----------------------------------------------------------------------------
(* The steps. *)

LEMMA DcInitInv == DcInit => DcInv
<1> SUFFICES ASSUME DcInit PROVE DcInv
  OBVIOUS
<1>1. PICK s \in Scenario :
          /\ device = [kind |-> s.kind, exists |-> TRUE, connected |-> TRUE]
          /\ request = s.request
  BY DEF DcInit
<1>2. s.kind \in DeviceKind /\ s.request \in [CommandUuid -> CommandRequest]
  BY CommandsAssumption
<1>3. device \in Dev /\ request \in [CommandUuid -> CommandRequest]
  BY <1>1, <1>2 DEF Dev
<1>4. DcTypes
  <2>1. /\ known \in [CommandUuid -> [developer : BOOLEAN, dfs : BOOLEAN, rtty : BOOLEAN]]
        /\ \A u \in CommandUuid : params[u].waiting \in BOOLEAN
        /\ params = [u \in CommandUuid |-> params[u]]
    BY DEF DcInit, Default, NoParams
  <2>2. /\ stage \in [CommandUuid -> {"absent", "new", "admitted", "refused", "ready",
                                      "unsent", "sent", "done", "lost"}]
        /\ rows \in [CommandUuid -> {NoRow} \cup CommandRow]
        /\ slots \in [CommandUuid -> {"none", "open", "expired"}]
        /\ files = {} /\ terminals = {} /\ lost = {}
    BY DEF DcInit
  <2>3. upload \in [Uploader -> {Idle} \cup
                       [step : {"found", "reading", "stored"}, uuid : CommandUuid]]
    BY DEF DcInit
  <2> QED
    BY <1>3, <2>1, <2>2, <2>3 DEF DcTypes, Dev
<1>5. ASSUME NEW u \in CommandUuid
      PROVE  CallInv(u)
  <2>1. stage[u] \in {"absent", "new"} /\ ~Uploading(u)
        /\ (stage[u] = "new" => request[u].method # "none")
    BY CommandsAssumption DEF DcInit, Uploading, Idle
  <2> QED
    BY <2>1 DEF DcInit, CallInv, Untouched, RowComesLast, Gated, Fitting, Promised,
                Owed, Underway
<1> QED
  BY <1>4, <1>5 DEF DcInv

(* What the gates let through. *)
LEMMA GatesHold ==
    ASSUME NEW u \in CommandUuid
    PROVE  /\ Refusal(DoPost(u)) = "none" => request[u].command \in PostCommands
           /\ Refusal(DoGet(u)) = "none" => request[u].command \in {"rtty", "packages"}
           /\ Refusal(DoDelete(u)) = "none" => request[u].command = "unpackage"
<1>1. ASSUME Refusal(DoPost(u)) = "none" PROVE request[u].command \in PostCommands
  <2>1. DOMAIN DoPost(u) = 1..6 /\ \A i \in 1..6 : DoPost(u)[i][2] # "none"
    BY DEF DoPost
  <2>2. DoPost(u)[4][1] = (request[u].command \notin PostCommands)
    BY DEF DoPost
  <2>3. \A i \in 1..6 : ~DoPost(u)[i][1]
    BY <1>1, <2>1, RefusalNone
  <2>4. ~DoPost(u)[4][1]
    BY <2>3
  <2> QED
    BY <2>2, <2>4
<1>2. ASSUME Refusal(DoGet(u)) = "none" PROVE request[u].command \in {"rtty", "packages"}
  <2>1. DOMAIN DoGet(u) = 1..5 /\ \A i \in 1..5 : DoGet(u)[i][2] # "none"
    BY DEF DoGet
  <2>2. DoGet(u)[3][1] = (request[u].command \notin {"rtty", "packages"})
    BY DEF DoGet
  <2>3. \A i \in 1..5 : ~DoGet(u)[i][1]
    BY <1>2, <2>1, RefusalNone
  <2>4. ~DoGet(u)[3][1]
    BY <2>3
  <2> QED
    BY <2>2, <2>4
<1>3. ASSUME Refusal(DoDelete(u)) = "none" PROVE request[u].command = "unpackage"
  <2>1. DOMAIN DoDelete(u) = 1..4 /\ \A i \in 1..4 : DoDelete(u)[i][2] # "none"
    BY DEF DoDelete
  <2>2. DoDelete(u)[3][1] = (request[u].command # "unpackage")
    BY DEF DoDelete
  <2>3. \A i \in 1..4 : ~DoDelete(u)[i][1]
    BY <1>3, <2>1, RefusalNone
  <2>4. ~DoDelete(u)[3][1]
    BY <2>3
  <2> QED
    BY <2>2, <2>4
<1> QED
  BY <1>1, <1>2, <1>3

(* A step of another call, of an upload or of the device: a call that is   *)
(* not at work itself may lose its row, an expired slot and its file.      *)
LEMMA Bystander ==
    ASSUME DcInv, NEW v \in CommandUuid, UNCHANGED request,
           Uploading(v)' <=> Uploading(v), Telling(v)' <=> Telling(v),
           stage'[v] = stage[v], known'[v] = known[v], params'[v] = params[v],
           device'.kind = device.kind, device'.exists => device.exists,
           rows'[v] \in {rows[v], NoRow},
           \/ slots'[v] = slots[v]
           \/ slots'[v] = "none" /\ v \in lost'
           \/ slots[v] # "none" /\ slots'[v] # "none",
           lost \subseteq lost', v \in files' => v \in files,
           v \in terminals' => v \in terminals
    PROVE  CallInv(v)'
<1>1. CallInv(v)
  BY DEF DcInv
<1>2. Underway(v)' <=> Underway(v)
  BY DEF Underway
<1>3. Untouched(v)' /\ RowComesLast(v)' /\ Gated(v)' /\ Fitting(v)'
  BY <1>1, <1>2 DEF CallInv, Untouched, RowComesLast, Gated, Fitting
<1>4. Owed(v)' => Owed(v)
  BY <1>2 DEF Owed
<1>5. Promised(v)'
  BY <1>1, <1>2, <1>4 DEF CallInv, Promised
<1> QED
  BY <1>3, <1>5 DEF CallInv

LEMMA SameUploads ==
    ASSUME NEW v \in CommandUuid, UNCHANGED upload
    PROVE  (Uploading(v)' <=> Uploading(v)) /\ (Telling(v)' <=> Telling(v))
  BY DEF Uploading, Telling

LEMMA ArriveKeeps ==
    ASSUME DcInv, NEW u \in CommandUuid, Arrive(u)
    PROVE  DcInv'
<1> USE DEF DcInv
<1>1. /\ UNCHANGED <<device, request, params, slots, rows, files, upload, terminals, lost>>
      /\ stage[u] = "new" /\ CallInv(u)
  BY DEF Arrive
<1>2. request[u].method \in {"post", "get", "delete"}
  BY <1>1 DEF CallInv, Gated, DcTypes, CommandRequest
<1>3. Restrictions(u) \in [developer : BOOLEAN, dfs : BOOLEAN, rtty : BOOLEAN]
  BY DEF Restrictions, Default, DcTypes, DeviceKind
<1>4. \/ stage' = [stage EXCEPT ![u] = "refused"] /\ UNCHANGED known
      \/ /\ stage' = [stage EXCEPT ![u] = "admitted"]
         /\ known' = [known EXCEPT ![u] = Restrictions(u)]
  BY DEF Arrive
<1>5. \A v \in CommandUuid \ {u} : stage'[v] = stage[v] /\ known'[v] = known[v]
  BY <1>4 DEF DcTypes
<1>6. DcTypes'
  <2>1. known' \in [CommandUuid -> [developer : BOOLEAN, dfs : BOOLEAN, rtty : BOOLEAN]]
    BY <1>3, <1>4 DEF DcTypes
  <2>2. stage' \in [CommandUuid -> {"absent", "new", "admitted", "refused", "ready",
                                    "unsent", "sent", "done", "lost"}]
    BY <1>4 DEF DcTypes
  <2> QED
    BY <1>1, <2>1, <2>2 DEF DcTypes
<1>7. stage'[u] \in {"refused", "admitted"}
  BY <1>4 DEF DcTypes
<1>8. Uploading(u)' <=> Uploading(u)
  BY <1>1 DEF Uploading
<1>9. Gated(u)'
  <2>1. ASSUME stage'[u] = "admitted"
        PROVE  /\ \/ request[u].method = "post" /\ request[u].command \in PostCommands
                  \/ request[u].method = "get" /\ request[u].command \in {"rtty", "packages"}
                  \/ request[u].method = "delete" /\ request[u].command = "unpackage"
               /\ request[u].command = "upgrade" => ~known'[u].developer
    <3>1. /\ known' = [known EXCEPT ![u] = Restrictions(u)]
          /\ Refusal(CASE request[u].method = "post"   -> DoPost(u)
                       [] request[u].method = "get"    -> DoGet(u)
                       [] request[u].method = "delete" -> DoDelete(u)) = "none"
      BY <2>1 DEF Arrive, DcTypes
    <3>2. \/ request[u].method = "post" /\ request[u].command \in PostCommands
          \/ request[u].method = "get" /\ request[u].command \in {"rtty", "packages"}
          \/ request[u].method = "delete" /\ request[u].command = "unpackage"
      BY <1>2, <3>1, GatesHold
    <3>3. ASSUME request[u].command = "upgrade" PROVE ~known'[u].developer
      <4>1. request[u].method = "post"
        BY <3>2, <3>3
      <4>2. known'[u] = Default
        BY <3>1, <3>3, <4>1 DEF Restrictions, RequireConnection, DcTypes
      <4> QED
        BY <4>2 DEF Default
    <3> QED
      BY <3>2, <3>3
  <2> QED
    BY <1>1, <1>7, <2>1 DEF Gated
<1>10. CallInv(u)'
  BY <1>1, <1>7, <1>8, <1>9
     DEF CallInv, Untouched, RowComesLast, Fitting, Promised, Owed, Underway
<1>11. ASSUME NEW v \in CommandUuid, v # u PROVE CallInv(v)'
  BY <1>1, <1>5, <1>11, SameUploads, Bystander
<1> QED
  BY <1>6, <1>10, <1>11

(* AddCommand gives the row of its own call a value, and drops or keeps    *)
(* every other.                                                            *)
LEMMA AddCommandRows ==
    ASSUME DcTypes, NEW u \in CommandUuid, NEW waiting \in BOOLEAN,
           NEW status \in {"pending", "failed", "completed"},
           rows' = AddCommand(u, status, waiting)
    PROVE  /\ rows' \in [CommandUuid -> {NoRow} \cup CommandRow]
           /\ rows'[u] = [status |-> status, waiting |-> waiting]
           /\ \A v \in CommandUuid \ {u} : rows'[v] \in {rows[v], NoRow}
<1>1. rows'[u] = [status |-> status, waiting |-> waiting]
  BY DEF AddCommand
<1>2. \A v \in CommandUuid \ {u} : rows'[v] \in {rows[v], NoRow}
  BY DEF AddCommand
<1>3. \A v \in CommandUuid : rows'[v] \in {NoRow} \cup CommandRow
  BY <1>1, <1>2 DEF DcTypes, CommandRow
<1>4. rows' = [v \in CommandUuid |-> rows'[v]]
  BY DEF AddCommand
<1> QED
  BY <1>1, <1>2, <1>3, <1>4

LEMMA HandleKeeps ==
    ASSUME DcInv, NEW u \in CommandUuid, Handle(u)
    PROVE  DcInv'
<1> USE DEF DcInv
<1> DEFINE q == request[u]
           r == known[u]
           p == Handling(q, device, r)
<1>1. /\ UNCHANGED <<device, request, known, files, upload>>
      /\ stage[u] = "admitted" /\ CallInv(u)
  BY DEF Handle
<1>2. /\ q \in CommandRequest /\ r \in Restriction /\ device \in Dev
      /\ \/ q.method = "post" /\ q.command \in PostCommands
         \/ q.method = "get" /\ q.command \in {"rtty", "packages"}
         \/ q.method = "delete" /\ q.command = "unpackage"
  BY <1>1 DEF DcTypes, Dev, Restriction, CallInv, Gated
<1>3. Sound(q, device, r, p)
  BY <1>2, HandlingIsSound
<1>4. /\ params' = [params EXCEPT ![u] = p]
      /\ stage' = [stage EXCEPT ![u] = CASE ~Proceeds(p) -> "refused"
                                        [] Proceeds(p) /\ p.direct -> "done"
                                        [] OTHER -> "ready"]
      /\ IF TakesSlot(p)
         THEN slots' = AddUUID(u) /\ lost' = lost \cup Dropped(u)
         ELSE UNCHANGED <<slots, lost>>
      /\ rows' = IF Proceeds(p) /\ p.direct /\ p.row
                 THEN AddCommand(u, "completed", FALSE) ELSE rows
      /\ terminals' = IF Proceeds(p) /\ p.terminal
                      THEN terminals \cup {u} ELSE terminals
  BY DEF Handle
<1> HIDE DEF p, q, r
<1>5. /\ rows' \in [CommandUuid -> {NoRow} \cup CommandRow]
      /\ \A v \in CommandUuid \ {u} : rows'[v] \in {rows[v], NoRow}
      /\ rows'[u] = rows[u] \/ (rows'[u] = [status |-> "completed", waiting |-> FALSE]
                                /\ Proceeds(p) /\ p.direct)
  <2>1. CASE Proceeds(p) /\ p.direct /\ p.row
    <3>1. rows' = AddCommand(u, "completed", FALSE)
      BY <1>4, <2>1
    <3> QED
      BY <2>1, <3>1, AddCommandRows
  <2>2. CASE ~(Proceeds(p) /\ p.direct /\ p.row)
    BY <1>4, <2>2 DEF DcTypes
  <2> QED
    BY <2>1, <2>2
<1>6. /\ slots' \in [CommandUuid -> {"none", "open", "expired"}]
      /\ lost \subseteq lost' /\ lost' \subseteq CommandUuid
      /\ TakesSlot(p) => slots'[u] = "open"
      /\ ~TakesSlot(p) => slots'[u] = slots[u]
      /\ \A v \in CommandUuid \ {u} :
            slots'[v] = slots[v] \/ (slots'[v] = "none" /\ v \in lost')
  <2>1. CASE TakesSlot(p)
    BY <1>4, <2>1 DEF AddUUID, Dropped, DcTypes
  <2>2. CASE ~TakesSlot(p)
    BY <1>4, <2>2 DEF DcTypes
  <2> QED
    BY <2>1, <2>2
<1>7. /\ stage' \in [CommandUuid -> {"absent", "new", "admitted", "refused", "ready",
                                     "unsent", "sent", "done", "lost"}]
      /\ \/ stage'[u] = "refused" /\ ~Proceeds(p)
         \/ stage'[u] = "ready" /\ Proceeds(p) /\ ~p.direct
         \/ stage'[u] = "done" /\ Proceeds(p) /\ p.direct
      /\ \A v \in CommandUuid \ {u} : stage'[v] = stage[v]
  BY <1>4 DEF DcTypes
<1>8. /\ params' = [v \in CommandUuid |-> params'[v]] /\ params'[u] = p
      /\ \A v \in CommandUuid \ {u} : params'[v] = params[v]
  BY <1>4 DEF DcTypes
<1>9. DcTypes'
  <2>1. p.waiting \in BOOLEAN
    BY <1>3 DEF Sound
  <2>2. \A v \in CommandUuid : params'[v].waiting \in BOOLEAN
    BY <1>8, <2>1 DEF DcTypes
  <2>3. terminals' \subseteq CommandUuid
    BY <1>4 DEF DcTypes
  <2> QED
    BY <1>1, <1>5, <1>6, <1>7, <1>8, <2>2, <2>3 DEF DcTypes
<1>10. CallInv(u)'
  <2>1. /\ rows[u] = NoRow /\ slots[u] = "none" /\ u \notin files \cup terminals
        /\ ~Uploading(u) /\ ~Uploading(u)'
    BY <1>1, SameUploads DEF CallInv, Untouched
  <2>2. Untouched(u)'
    <3>1. SUFFICES ASSUME ~Proceeds(p) PROVE Untouched(u)'
      BY <1>7 DEF Untouched
    <3>2. rows'[u] = NoRow /\ slots'[u] = "none" /\ u \notin terminals' /\ files' = files
      BY <1>1, <1>4, <1>5, <1>6, <2>1, <3>1 DEF TakesSlot
    <3> QED
      BY <2>1, <3>2 DEF Untouched
  <2>3. RowComesLast(u)'
    BY <1>5, <1>7, <2>1 DEF RowComesLast, Underway
  <2>4. Gated(u)'
    BY <1>7 DEF Gated
  <2>5. Fitting(u)'
    <3>1. SUFFICES ASSUME Proceeds(p) PROVE Fitting(u)'
      BY <1>7 DEF Fitting, Underway
    <3>2. Fit(q, device, r, p)
      BY <1>3, <3>1 DEF Sound
    <3>3. q.command = "upgrade" => ~r.developer
      BY <1>1 DEF CallInv, Gated, q, r
    <3> QED
      BY <1>1, <1>8, <3>2, <3>3 DEF Fitting, Fit, IsDeviceSimulated, q
  <2>6. Promised(u)'
    <3>1. Owed(u)' => Proceeds(p) /\ p.waiting
      BY <1>5, <1>7, <1>8, <2>1 DEF Owed, Underway
    <3>2. Owed(u)' => slots'[u] = "open"
      BY <1>3, <1>6, <3>1 DEF Sound, TakesSlot
    <3> QED
      BY <1>1, <2>1, <3>2 DEF Promised
  <2> QED
    BY <2>2, <2>3, <2>4, <2>5, <2>6 DEF CallInv
<1>11. ASSUME NEW v \in CommandUuid, v # u PROVE CallInv(v)'
  <2>1. (Uploading(v)' <=> Uploading(v)) /\ (Telling(v)' <=> Telling(v))
    BY <1>1, SameUploads
  <2>2. v \in terminals' => v \in terminals
    BY <1>4, <1>11
  <2>3. /\ stage'[v] = stage[v] /\ known'[v] = known[v] /\ params'[v] = params[v]
        /\ rows'[v] \in {rows[v], NoRow}
        /\ slots'[v] = slots[v] \/ (slots'[v] = "none" /\ v \in lost')
    BY <1>1, <1>5, <1>6, <1>7, <1>8, <1>11
  <2> QED
    BY <1>1, <1>6, <2>1, <2>2, <2>3, Bystander
<1> QED
  BY <1>9, <1>10, <1>11

(* The end of a call: the row is inserted, waiting for its file or not. *)
LEMMA RowEnds ==
    ASSUME DcInv, NEW u \in CommandUuid, NEW s \in {"unsent", "done"},
           NEW status \in {"pending", "failed", "completed"}, NEW waiting \in BOOLEAN,
           stage[u] \in {"ready", "sent"}, waiting => params[u].waiting,
           stage' = [stage EXCEPT ![u] = s], rows' = AddCommand(u, status, waiting),
           UNCHANGED <<device, request, known, params, slots, files, upload, terminals, lost>>
    PROVE  DcInv'
<1> USE DEF DcInv
<1>1. /\ rows' \in [CommandUuid -> {NoRow} \cup CommandRow]
      /\ rows'[u] = [status |-> status, waiting |-> waiting]
      /\ \A v \in CommandUuid \ {u} : rows'[v] \in {rows[v], NoRow}
  BY AddCommandRows
<1>2. /\ stage' \in [CommandUuid -> {"absent", "new", "admitted", "refused", "ready",
                                     "unsent", "sent", "done", "lost"}]
      /\ stage'[u] = s /\ \A v \in CommandUuid \ {u} : stage'[v] = stage[v]
  BY DEF DcTypes
<1>3. DcTypes'
  BY <1>1, <1>2 DEF DcTypes
<1>4. CallInv(u)'
  <2>1. Untouched(u)' /\ RowComesLast(u)' /\ Gated(u)' /\ Fitting(u)'
    BY <1>2 DEF Untouched, RowComesLast, Gated, Fitting, Underway
  <2>2. Owed(u)' => Owed(u)
    BY <1>1, <1>2 DEF Owed, Underway
  <2>3. (Uploading(u)' <=> Uploading(u)) /\ (Telling(u)' <=> Telling(u))
    BY SameUploads
  <2>4. Promised(u)
    BY DEF CallInv
  <2>5. Promised(u)'
    BY <2>2, <2>3, <2>4 DEF Promised
  <2> QED
    BY <2>1, <2>5 DEF CallInv
<1>5. ASSUME NEW v \in CommandUuid, v # u PROVE CallInv(v)'
  <2>1. (Uploading(v)' <=> Uploading(v)) /\ (Telling(v)' <=> Telling(v))
    BY SameUploads
  <2>2. stage'[v] = stage[v] /\ rows'[v] \in {rows[v], NoRow}
    BY <1>1, <1>2, <1>5
  <2> QED
    BY <2>1, <2>2, Bystander
<1> QED
  BY <1>3, <1>4, <1>5

LEMMA WaitForCommandKeeps ==
    ASSUME DcInv, NEW u \in CommandUuid, WaitForCommand(u)
    PROVE  DcInv'
<1> USE DEF DcInv
<1>1. /\ UNCHANGED <<device, request, known, params, slots, files, upload, terminals, lost>>
      /\ stage[u] = "ready" /\ params[u].waiting \in BOOLEAN
  BY DEF WaitForCommand, DcTypes
<1>2. ASSUME NEW status \in {"pending", "failed"},
             rows' = AddCommand(u, status, params[u].waiting),
             stage' = [stage EXCEPT ![u] = "unsent"]
      PROVE  DcInv'
  BY <1>1, <1>2, RowEnds
<1>3. ASSUME stage' = [stage EXCEPT ![u] = "sent"], UNCHANGED rows
      PROVE  DcInv'
  <2>1. DcTypes' /\ stage'[u] = "sent" /\ \A v \in CommandUuid \ {u} : stage'[v] = stage[v]
    BY <1>1, <1>3 DEF DcTypes
  <2>2. ASSUME NEW v \in CommandUuid PROVE CallInv(v)'
    <3>1. (Uploading(v)' <=> Uploading(v)) /\ (Telling(v)' <=> Telling(v))
      BY <1>1, SameUploads
    <3>2. CallInv(v)
      OBVIOUS
    <3>3. CASE v = u
      BY <1>1, <1>3, <2>1, <3>1, <3>2, <3>3
         DEF CallInv, Untouched, RowComesLast, Gated, Fitting, Promised, Owed, Underway
    <3>4. CASE v # u
      <4>1. stage'[v] = stage[v]
        BY <2>1, <3>4
      <4> QED
        BY <1>1, <1>3, <3>1, <4>1, Bystander
    <3> QED
      BY <3>3, <3>4
  <2> QED
    BY <2>1, <2>2
<1> QED
  BY <1>2, <1>3 DEF WaitForCommand

LEMMA AnsweredKeeps ==
    ASSUME DcInv, NEW u \in CommandUuid,
           NEW o \in {"success", "error", "malformed", "timeout"}, Answered(u, o)
    PROVE  DcInv'
<1>1. StatusOf(u, o) \in {"pending", "failed", "completed"}
  BY DEF StatusOf
<1>2. StillWaiting(u, o) \in BOOLEAN /\ (StillWaiting(u, o) => params[u].waiting)
  BY DEF StillWaiting
<1>3. stage[u] = "sent" /\ stage' = [stage EXCEPT ![u] = "done"]
      /\ rows' = AddCommand(u, StatusOf(u, o), StillWaiting(u, o))
      /\ UNCHANGED <<device, request, known, params, slots, files, upload, terminals, lost>>
  BY DEF Answered
<1> QED
  BY <1>1, <1>2, <1>3, RowEnds

-----------------------------------------------------------------------------
(* The upload threads. *)

(* A step of one thread is seen only by the calls it leaves and takes up. *)
LEMMA OtherUploads ==
    ASSUME DcTypes, NEW p \in Uploader, NEW s, NEW w,
           upload' = [upload EXCEPT ![p] = [step |-> s, uuid |-> w]],
           NEW v \in CommandUuid, v # w, v # upload[p].uuid
    PROVE  (Uploading(v)' <=> Uploading(v)) /\ (Telling(v)' <=> Telling(v))
<1>1. /\ upload'[p] = [step |-> s, uuid |-> w]
      /\ \A x \in Uploader \ {p} : upload'[x] = upload[x]
  BY DEF DcTypes
<1>2. ~(upload'[p].uuid = v) /\ ~(upload[p].uuid = v)
  BY <1>1
<1> QED
  BY <1>1, <1>2 DEF Uploading, Telling

LEMMA ThreadAtWork ==
    ASSUME DcTypes, NEW p \in Uploader
    PROVE  /\ upload[p].step = "idle" => upload[p] = Idle
           /\ upload[p].step # "idle" => /\ upload[p].uuid \in CommandUuid
                                         /\ Uploading(upload[p].uuid)
           /\ upload[p].step \in {"idle", "found", "reading", "stored"}
<1>1. upload[p] = Idle \/ upload[p] \in [step : {"found", "reading", "stored"},
                                         uuid : CommandUuid]
  BY DEF DcTypes
<1> QED
  BY <1>1 DEF Idle, Uploading

LEMMA FindKeeps ==
    ASSUME DcInv, NEW u \in CommandUuid, NEW p \in Uploader, Find(p, u)
    PROVE  DcInv'
<1> USE DEF DcInv
<1>1. /\ UNCHANGED <<device, request, stage, known, params, slots, rows, files,
                     terminals, lost>>
      /\ stage[u] \in {"sent", "done"} /\ upload[p] = Idle
      /\ upload' = [upload EXCEPT ![p] = [step |-> "found", uuid |-> u]]
  BY ThreadAtWork DEF Find, SetUpload
<1>2. DcTypes'
  BY <1>1 DEF DcTypes
<1>3. Uploading(u)' /\ (Telling(u) => Telling(u)')
  BY <1>1 DEF Uploading, Telling, DcTypes, Idle
<1>4. CallInv(u)
  OBVIOUS
<1>5. CallInv(u)'
  BY <1>1, <1>3, <1>4
     DEF CallInv, Untouched, RowComesLast, Gated, Fitting, Promised, Owed, Underway
<1>6. ASSUME NEW v \in CommandUuid, v # u PROVE CallInv(v)'
  <2>1. v # upload[p].uuid
    BY <1>1, CommandsAssumption DEF Idle
  <2>2. (Uploading(v)' <=> Uploading(v)) /\ (Telling(v)' <=> Telling(v))
    BY <1>1, <1>6, <2>1, OtherUploads
  <2> QED
    BY <1>1, <2>2, Bystander
<1> QED
  BY <1>2, <1>5, <1>6

LEMMA RemoveRequestKeeps ==
    ASSUME DcInv, NEW p \in Uploader, RemoveRequest(p)
    PROVE  DcInv'
<1> USE DEF DcInv
<1>0. PICK u : u = upload[p].uuid
  OBVIOUS
<1>1. /\ UNCHANGED <<device, request, stage, known, params, rows, files, terminals, lost>>
      /\ upload[p].step = "found" /\ slots' = [slots EXCEPT ![u] = "none"]
      /\ upload' = [upload EXCEPT ![p] = [step |-> "reading", uuid |-> u]]
  BY <1>0 DEF RemoveRequest, SetUpload
<1>2. u \in CommandUuid /\ Uploading(u)
  BY <1>0, <1>1, ThreadAtWork
<1>3. DcTypes'
  BY <1>1, <1>2 DEF DcTypes
<1>4. Uploading(u)' /\ (Telling(u) => Telling(u)')
  BY <1>1, <1>2 DEF Uploading, Telling, DcTypes
<1>5. CallInv(u)
  BY <1>2
<1>6. CallInv(u)'
  BY <1>1, <1>2, <1>4, <1>5
     DEF CallInv, Untouched, RowComesLast, Gated, Fitting, Promised, Owed, Underway
<1>7. ASSUME NEW v \in CommandUuid, v # u PROVE CallInv(v)'
  <2>1. (Uploading(v)' <=> Uploading(v)) /\ (Telling(v)' <=> Telling(v))
    BY <1>0, <1>1, <1>7, OtherUploads
  <2>2. slots'[v] = slots[v]
    BY <1>1, <1>7 DEF DcTypes
  <2> QED
    BY <1>1, <2>1, <2>2, Bystander
<1> QED
  BY <1>2, <1>3, <1>6, <1>7

LEMMA InsertKeeps ==
    ASSUME DcInv, NEW p \in Uploader, Insert(p)
    PROVE  DcInv'
<1> USE DEF DcInv
<1>0. PICK u : u = upload[p].uuid
  OBVIOUS
<1>1. /\ UNCHANGED <<device, request, stage, known, params, slots, rows, terminals, lost>>
      /\ upload[p].step = "reading"
      /\ \/ files' \in {files, files \cup {u}}
            /\ upload' = [upload EXCEPT ![p] = [step |-> "stored", uuid |-> u]]
         \/ u \in files /\ files' = files
            /\ upload' = [upload EXCEPT ![p] = Idle]
  BY <1>0 DEF Insert, SetUpload, Idle
<1>2. u \in CommandUuid /\ Uploading(u)
  BY <1>0, <1>1, ThreadAtWork
<1>3. DcTypes'
  BY <1>1, <1>2 DEF DcTypes
<1>4. CallInv(u)
  BY <1>2
<1>5. CallInv(u)'
  <2>1. Untouched(u)' /\ RowComesLast(u)' /\ Gated(u)' /\ Fitting(u)'
    BY <1>1, <1>2, <1>4
       DEF CallInv, Untouched, RowComesLast, Gated, Fitting, Underway
  <2>2. Promised(u)'
    <3>1. CASE /\ files' \in {files, files \cup {u}}
               /\ upload' = [upload EXCEPT ![p] = [step |-> "stored", uuid |-> u]]
      <4>1. Telling(u)' /\ Uploading(u)'
        BY <3>1 DEF Telling, Uploading, DcTypes
      <4> QED
        BY <4>1 DEF Promised
    <3>2. CASE /\ u \in files /\ files' = files
               /\ upload' = [upload EXCEPT ![p] = Idle]
      <4>1. Telling(u) => Telling(u)' /\ Uploading(u)'
        BY <1>1, <3>2 DEF Telling, Uploading, DcTypes
      <4>2. Owed(u)' => Owed(u)
        BY <1>1 DEF Owed, Underway
      <4>3. Owed(u) => u \in lost \/ Telling(u)
        BY <1>4, <3>2 DEF CallInv, Promised
      <4> QED
        BY <1>1, <4>1, <4>2, <4>3 DEF Promised
    <3> QED
      BY <1>1, <3>1, <3>2
  <2> QED
    BY <2>1, <2>2 DEF CallInv
<1>6. ASSUME NEW v \in CommandUuid, v # u PROVE CallInv(v)'
  <2>1. (Uploading(v)' <=> Uploading(v)) /\ (Telling(v)' <=> Telling(v))
    <3>1. v # NoUuid
      BY CommandsAssumption
    <3> QED
      BY <1>0, <1>1, <1>6, <3>1, OtherUploads DEF Idle
  <2>2. v \in files' => v \in files
    BY <1>1, <1>6
  <2> QED
    BY <1>1, <2>1, <2>2, Bystander
<1> QED
  BY <1>2, <1>3, <1>5, <1>6

LEMMA UpdateRowKeeps ==
    ASSUME DcInv, NEW p \in Uploader, UpdateRow(p)
    PROVE  DcInv'
<1> USE DEF DcInv
<1>0. PICK u : u = upload[p].uuid
  OBVIOUS
<1>1. /\ UNCHANGED <<device, request, stage, known, params, slots, files, terminals>>
      /\ upload[p].step \in {"stored", "reading"}
      /\ rows' = NotWaiting(u)
      /\ lost' = IF rows[u] = NoRow THEN lost \cup {u} ELSE lost
      /\ upload' = [upload EXCEPT ![p] = Idle]
  BY <1>0 DEF UpdateRow, SetUpload, Idle
<1>2. u \in CommandUuid /\ Uploading(u)
  BY <1>0, <1>1, ThreadAtWork
<1>3. /\ rows' \in [CommandUuid -> {NoRow} \cup CommandRow]
      /\ rows[u] = NoRow => rows'[u] = NoRow
      /\ rows[u] # NoRow => ~rows'[u].waiting
      /\ \A v \in CommandUuid \ {u} : rows'[v] = rows[v]
  <2>1. CASE rows[u] = NoRow
    BY <1>1, <1>2, <2>1 DEF NotWaiting, DcTypes
  <2>2. CASE rows[u] # NoRow
    <3>1. rows' = [rows EXCEPT ![u].waiting = FALSE] /\ rows[u] \in CommandRow
      BY <1>1, <1>2, <2>2 DEF NotWaiting, DcTypes
    <3>2. rows'[u] = [rows[u] EXCEPT !.waiting = FALSE]
          /\ \A v \in CommandUuid \ {u} : rows'[v] = rows[v]
      BY <1>2, <3>1 DEF DcTypes
    <3>3. rows'[u] \in CommandRow /\ ~rows'[u].waiting
      <4>1. \A r \in CommandRow : /\ [r EXCEPT !.waiting = FALSE] \in CommandRow
                          /\ ~[r EXCEPT !.waiting = FALSE].waiting
        BY DEF CommandRow
      <4> QED
        BY <3>1, <3>2, <4>1
    <3>4. DOMAIN rows' = CommandUuid /\ rows' = [v \in CommandUuid |-> rows'[v]]
      BY <3>1 DEF DcTypes
    <3>5. \A v \in CommandUuid : rows'[v] \in {NoRow} \cup CommandRow
      BY <3>2, <3>3 DEF DcTypes
    <3> QED
      BY <2>2, <3>2, <3>3, <3>4, <3>5
  <2> QED
    BY <2>1, <2>2
<1>4. DcTypes'
  BY <1>1, <1>2, <1>3 DEF DcTypes
<1>5. CallInv(u)
  BY <1>2
<1>6. CallInv(u)'
  <2>1. Untouched(u)' /\ RowComesLast(u)' /\ Gated(u)' /\ Fitting(u)'
    BY <1>1, <1>2, <1>3, <1>5
       DEF CallInv, Untouched, RowComesLast, Gated, Fitting, Underway
  <2>2. CASE rows[u] = NoRow
    BY <1>1, <2>1, <2>2 DEF CallInv, Promised
  <2>3. CASE rows[u] # NoRow
    <3>1. ~Underway(u)'
      BY <1>1, <1>5, <2>3 DEF CallInv, RowComesLast, Underway
    <3>2. ~Owed(u)'
      BY <1>3, <2>3, <3>1 DEF Owed
    <3> QED
      BY <2>1, <3>2 DEF CallInv, Promised
  <2> QED
    BY <2>2, <2>3
<1>7. ASSUME NEW v \in CommandUuid, v # u PROVE CallInv(v)'
  <2>1. (Uploading(v)' <=> Uploading(v)) /\ (Telling(v)' <=> Telling(v))
    <3>1. v # NoUuid
      BY CommandsAssumption
    <3> QED
      BY <1>0, <1>1, <1>7, <3>1, OtherUploads DEF Idle
  <2>2. rows'[v] = rows[v] /\ lost \subseteq lost'
    BY <1>1, <1>3, <1>7
  <2> QED
    BY <1>1, <2>1, <2>2, Bystander
<1> QED
  BY <1>2, <1>4, <1>6, <1>7

-----------------------------------------------------------------------------
(* Operators, the device, the clock and the restart. *)

LEMMA RemovalKeeps ==
    ASSUME DcInv, NEW u \in CommandUuid, DeleteCommand(u) \/ RemoveAttachedFile(u)
    PROVE  DcInv'
<1> USE DEF DcInv
<1>1. /\ UNCHANGED <<device, request, stage, known, params, slots, upload, terminals, lost>>
      /\ rows' \in [CommandUuid -> {NoRow} \cup CommandRow]
      /\ \A v \in CommandUuid : rows'[v] \in {rows[v], NoRow}
      /\ files' \subseteq files
  BY DEF DeleteCommand, RemoveAttachedFile, DcTypes
<1>2. DcTypes'
  BY <1>1 DEF DcTypes
<1>3. ASSUME NEW v \in CommandUuid PROVE CallInv(v)'
  <2>1. (Uploading(v)' <=> Uploading(v)) /\ (Telling(v)' <=> Telling(v))
    BY <1>1, SameUploads
  <2> QED
    BY <1>1, <2>1, Bystander
<1> QED
  BY <1>2, <1>3

LEMMA DeviceChangesKeeps ==
    ASSUME DcInv, DeviceChanges
    PROVE  DcInv'
<1> USE DEF DcInv
<1>1. /\ UNCHANGED <<request, stage, known, params, slots, rows, files, upload, terminals, lost>>
      /\ device \in Dev
  BY DEF DeviceChanges, DcTypes, Dev
<1>2. device' \in Dev /\ device'.kind = device.kind /\ (device'.exists => device.exists)
  BY <1>1 DEF DeviceChanges, Dev
<1>3. DcTypes'
  BY <1>1, <1>2 DEF DcTypes, Dev
<1>4. ASSUME NEW v \in CommandUuid PROVE CallInv(v)'
  <2>1. (Uploading(v)' <=> Uploading(v)) /\ (Telling(v)' <=> Telling(v))
    BY <1>1, SameUploads
  <2> QED
    BY <1>1, <1>2, <2>1, Bystander
<1> QED
  BY <1>3, <1>4

LEMMA ExpireKeeps ==
    ASSUME DcInv, NEW u \in CommandUuid, Expire(u)
    PROVE  DcInv'
<1> USE DEF DcInv
<1>1. /\ UNCHANGED <<device, request, stage, known, params, rows, files, upload, terminals, lost>>
      /\ slots[u] = "open" /\ slots' = [slots EXCEPT ![u] = "expired"]
  BY DEF Expire
<1>2. DcTypes'
  BY <1>1 DEF DcTypes
<1>3. ASSUME NEW v \in CommandUuid PROVE CallInv(v)'
  <2>1. (Uploading(v)' <=> Uploading(v)) /\ (Telling(v)' <=> Telling(v))
    BY <1>1, SameUploads
  <2>2. slots'[v] = slots[v] \/ (slots[v] # "none" /\ slots'[v] # "none")
    BY <1>1 DEF DcTypes
  <2> QED
    BY <1>1, <2>1, <2>2, Bystander
<1> QED
  BY <1>2, <1>3

(* Whatever an upload or a slot was for is lost. *)
LEMMA RestartKeeps ==
    ASSUME DcInv, Restart
    PROVE  DcInv'
<1> USE DEF DcInv
<1>1. /\ UNCHANGED <<device, request, known, params, rows, files>> /\ terminals' = {}
      /\ \A u \in CommandUuid :
            /\ stage'[u] = IF stage[u] \in {"admitted", "ready", "sent"}
                           THEN "lost" ELSE stage[u]
            /\ slots'[u] = "none"
            /\ u \in lost' <=> u \in lost \/ slots[u] # "none" \/ Uploading(u)
      /\ \A p \in Uploader : upload'[p] = Idle
      /\ lost' \subseteq CommandUuid
  BY DEF Restart, DcTypes
<1>2. DcTypes'
  <2>1. /\ stage' \in [CommandUuid -> {"absent", "new", "admitted", "refused", "ready",
                                       "unsent", "sent", "done", "lost"}]
        /\ slots' \in [CommandUuid -> {"none", "open", "expired"}]
        /\ upload' \in [Uploader -> {Idle} \cup
                           [step : {"found", "reading", "stored"}, uuid : CommandUuid]]
    BY DEF Restart, DcTypes
  <2> QED
    BY <1>1, <2>1 DEF DcTypes
<1>3. ASSUME NEW u \in CommandUuid PROVE CallInv(u)'
  <2>1. CallInv(u) /\ ~Uploading(u)'
    BY <1>1, CommandsAssumption DEF Uploading, Idle
  <2>2. /\ stage'[u] \in {"absent", "new", "refused"} => stage'[u] = stage[u]
        /\ stage'[u] \notin {"admitted", "ready", "sent"}
    BY <1>1
  <2>3. Untouched(u)' /\ RowComesLast(u)' /\ Gated(u)' /\ Fitting(u)'
    BY <1>1, <2>1, <2>2
       DEF CallInv, Untouched, RowComesLast, Gated, Fitting, Underway
  <2>4. Owed(u)' => Owed(u)
    BY <1>1, <2>2 DEF Owed, Underway
  <2>5. Owed(u) => u \in lost'
    BY <1>1, <2>1 DEF CallInv, Promised
  <2> QED
    BY <2>3, <2>4, <2>5 DEF CallInv, Promised
<1> QED
  BY <1>2, <1>3

-----------------------------------------------------------------------------
(* The theorems. *)

LEMMA DcStep == DcInv /\ [DcNext]_dcVars => DcInv'
<1> SUFFICES ASSUME DcInv, [DcNext]_dcVars PROVE DcInv'
  OBVIOUS
<1>1. ASSUME NEW u \in CommandUuid,
             \/ Arrive(u) \/ Handle(u) \/ WaitForCommand(u)
             \/ \E o \in {"success", "error", "malformed", "timeout"} : Answered(u, o)
             \/ DeleteCommand(u) \/ RemoveAttachedFile(u) \/ Expire(u)
             \/ \E p \in Uploader : Find(p, u)
      PROVE  DcInv'
  BY <1>1, ArriveKeeps, HandleKeeps, WaitForCommandKeeps, AnsweredKeeps, RemovalKeeps,
     ExpireKeeps, FindKeeps
<1>2. ASSUME NEW p \in Uploader, RemoveRequest(p) \/ Insert(p) \/ UpdateRow(p)
      PROVE  DcInv'
  BY <1>2, RemoveRequestKeeps, InsertKeeps, UpdateRowKeeps
<1>3. CASE DeviceChanges \/ Restart
  BY <1>3, DeviceChangesKeeps, RestartKeeps
<1>4. CASE UNCHANGED dcVars
  BY <1>4 DEF dcVars, DcInv, DcTypes, CallInv, Untouched, RowComesLast, Gated, Fitting,
              Promised, Owed, Telling, Uploading, Underway
<1> QED
  BY <1>1, <1>2, <1>3, <1>4 DEF DcNext

LEMMA DcAlways == DcSpec => []DcInv
  BY DcInitInv, DcStep, PTL DEF DcSpec

(* Whoever is told that the file of a command is still to come (the 202 of *)
(* RESTAPI_file) can rely on it: the slot is open or a thread uploads it,  *)
(* or it is one of the lost ones.                                          *)
THEOREM PromisedFilesCome == DcSpec => []AcceptedMeansComing
<1>1. DcInv => AcceptedMeansComing
  <2> SUFFICES ASSUME DcInv, NEW u \in CommandUuid, FileAnswer(u) = "Accepted"
               PROVE  slots[u] # "none" \/ Uploading(u) \/ u \in lost
    BY DEF AcceptedMeansComing
  <2>1. Owed(u)
    BY DEF FileAnswer, Owed
  <2> QED
    BY <2>1 DEF DcInv, CallInv, Promised
<1> QED
  BY <1>1, DcAlways, PTL

(* The checks of RESTAPI_device_commandHandler hold for every request and  *)
(* however the device changes between them: what is refused leaves         *)
(* nothing, and what is sent is fit for its device and from an operator    *)
(* who may send it.                                                        *)
THEOREM ChecksAlwaysHold == DcSpec => []ChecksHold
<1>1. DcInv => ChecksHold
  <2> SUFFICES ASSUME DcInv PROVE ChecksHold
    OBVIOUS
  <2>1. \A u \in CommandUuid : Untouched(u) /\ Fitting(u)
    BY DEF DcInv, CallInv
  <2>2. RefusedLeavesNothing
    BY <2>1 DEF RefusedLeavesNothing, Untouched
  <2>3. SimulatedIsSpared /\ RestrictedUpgradeIsSigned /\ ForeignBodyNeedsRole
    BY <2>1 DEF SimulatedIsSpared, RestrictedUpgradeIsSigned, ForeignBodyNeedsRole, Fitting
  <2> QED
    BY <2>2, <2>3 DEF ChecksHold
<1> QED
  BY <1>1, DcAlways, PTL
=============================================================================
