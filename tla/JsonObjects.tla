----------------------------- MODULE JsonObjects ------------------------------
(***************************************************************************)
(* The JSON form of the objects the gateway stores, serves and receives.   *)
(* An object is written by to_json, may lose a field on its way (a client  *)
(* sends only the fields it knows), and is read by from_json once or twice *)
(* into the same object, as a connection does with the restrictions its    *)
(* device reports.  A plain value is 0 until it is set to 1; a value that  *)
(* to_json takes from elsewhere is 2.                                      *)
(***************************************************************************)
EXTENDS Naturals, Sequences, FiniteSets, TLC
LOCAL INSTANCE GatewayObjects
LOCAL INSTANCE SecurityObjects
LOCAL INSTANCE SharedObjects

VARIABLES
    type,       \* the type of the object
    object,     \* the object that is written
    json,       \* the fields of its JSON form; NoFields before to_json
    written,    \* to_json has run
    omitted,    \* a field was left out by the sender
    copy,       \* the object that from_json fills
    reads       \* how often from_json ran on it

jsonVars == <<type, object, json, written, omitted, copy, reads>>

Types == GatewayTypes @@ SecurityTypes @@ ProvTypes @@ SharedTypes

MaxReads == 2

----------------------------------------------------------------------------
(* Enumerations *)

\* The constants of each enumeration that is written by name.
Constants ==
    [ USER_ROLE |-> {"root", "admin", "subscriber", "partner", "csr", "system",
                     "installer", "noc", "accounting", "unknown"},
      ResourceAccessType |-> {"NONE", "READ", "MODIFY", "DELETE", "CREATE",
                              "TEST", "MOVE"},
      LocationType |-> {"SERVICE", "EQUIPMENT", "AUTO", "MANUAL", "SPECIAL",
                        "UNKNOWN", "CORPORATE"},
      ContactType |-> {"SUBSCRIBER", "USER", "INSTALLER", "CSR", "MANAGER",
                       "BUSINESSOWNER", "TECHNICIAN", "CORPORATE",
                       "UNKNOWN"} ]

\* What a name that is not recognised is read as.
Fallback ==
    [ USER_ROLE |-> "unknown", ResourceAccessType |-> "NONE",
      LocationType |-> "UNKNOWN", ContactType |-> "UNKNOWN" ]

UserTypeFromString(s) ==
    IF s \in {"root", "admin", "subscriber", "partner", "csr", "system",
              "installer", "noc", "accounting"}
      THEN s ELSE "unknown"

ResourceAccessTypeFromString(s) ==
    IF s \in {"READ", "MODIFY", "DELETE", "CREATE", "TEST", "MOVE"}
      THEN s ELSE "NONE"

location_from_string(s) ==
    IF s \in {"SERVICE", "EQUIPMENT", "AUTO", "MANUAL", "SPECIAL", "UNKNOWN",
              "CORPORATE"}
      THEN s ELSE "UNKNOWN"

\* MANAGER is not among the names it knows.
contact_from_string(s) ==
    IF s \in {"SUBSCRIBER", "USER", "INSTALLER", "CSR", "BUSINESSOWNER",
              "TECHNICIAN", "CORPORATE", "UNKNOWN"}
      THEN s ELSE "UNKNOWN"

FromString(enum, s) ==
    CASE enum = "USER_ROLE" -> UserTypeFromString(s)
      [] enum = "ResourceAccessType" -> ResourceAccessTypeFromString(s)
      [] enum = "LocationType" -> location_from_string(s)
      [] enum = "ContactType" -> contact_from_string(s)

----------------------------------------------------------------------------
(* Objects *)

Members(t) == DOMAIN Types[t]

RECURSIVE Fresh(_)
\* A newly constructed object.
Fresh(t) ==
    [m \in Members(t) |->
        LET f == Types[t][m]
        IN  CASE f.kind \in {"value", "computed"} -> 0
              [] f.kind \in {"list", "appended", "many"} -> <<>>
              [] f.kind = "document" -> ""
              [] f.kind = "named" -> Fallback[f.of]
              [] f.kind = "one" -> Fresh(f.of)]

RECURSIVE Filled(_, _, _)
\* An object whose members S are set, enumerations to the constant e.
Filled(t, S, e) ==
    [m \in Members(t) |->
        LET f == Types[t][m]
        IN  CASE m \notin S -> Fresh(t)[m]
              [] m \in S /\ f.kind \in {"value", "computed"} -> 1
              [] m \in S /\ f.kind \in {"list", "appended"} -> <<1>>
              [] m \in S /\ f.kind = "document" -> "document"
              [] m \in S /\ f.kind = "named" ->
                     IF e \in Constants[f.of] THEN e ELSE Fallback[f.of]
              [] m \in S /\ f.kind = "one" -> Filled(f.of, Members(f.of), e)
              [] m \in S /\ f.kind = "many" ->
                     <<Filled(f.of, Members(f.of), e)>>]

\* All members set, or all but one, or none; every constant of an enumeration.
Objects(t) ==
    LET Enums == {Types[t][m].of : m \in {n \in Members(t) :
                                              Types[t][n].kind = "named"}}
        Names == UNION {Constants[k] : k \in Enums} \cup {NoType}
        Sets == {Members(t) \ {m} : m \in Members(t)} \cup {Members(t), {}}
    IN  {Filled(t, S, e) : S \in Sets, e \in Names}

----------------------------------------------------------------------------
(* Writing and reading *)

RECURSIVE to_json(_, _)
\* The fields to_json sets.  An empty document is written as {}.
to_json(t, o) ==
    [m \in {n \in Members(t) : Types[t][n].written} |->
        LET f == Types[t][m]
        IN  CASE f.kind \in {"value", "list", "appended", "named"} -> o[m]
              [] f.kind = "computed" -> 2
              [] f.kind = "document" -> IF o[m] = "" THEN "{}" ELSE o[m]
              [] f.kind = "one" -> to_json(f.of, o[m])
              [] f.kind = "many" ->
                     [i \in DOMAIN o[m] |-> to_json(f.of, o[m][i])]]

RECURSIVE from_json(_, _, _)
\* The lists are not cleared before they are read.
field_from_jsonMutant(f, x, v) ==
    CASE f.kind \in {"value", "computed", "document"} -> x
      [] f.kind \in {"appended", "list"} -> v \o x
      [] f.kind = "named" -> FromString(f.of, x)
      [] f.kind = "one" -> from_json(f.of, x, v)
      [] f.kind = "many" ->
             v \o [i \in DOMAIN x |-> from_json(f.of, x[i], Fresh(f.of))]

\* What field_from_json makes of a member that holds v when its field is x:
\* vectors of structures and of pairs grow.
field_from_json(f, x, v) ==
    CASE f.kind \in {"value", "computed", "list", "document"} -> x
      [] f.kind = "appended" -> v \o x
      [] f.kind = "named" -> FromString(f.of, x)
      [] f.kind = "one" -> from_json(f.of, x, v)
      [] f.kind = "many" ->
             v \o [i \in DOMAIN x |-> from_json(f.of, x[i], Fresh(f.of))]

\* The object o after from_json: a member without a field keeps its value.
from_json(t, j, o) ==
    [m \in Members(t) |->
        IF Types[t][m].read /\ m \in DOMAIN j
          THEN field_from_json(Types[t][m], j[m], o[m])
          ELSE o[m]]

JsonInit ==
    /\ type \in DOMAIN Types
    /\ object \in Objects(type)
    /\ json = NoFields
    /\ written = FALSE
    /\ omitted = FALSE
    /\ copy = Fresh(type)
    /\ reads = 0

\* to_string(Object), or an answer built with to_json.
to_string ==
    /\ ~written
    /\ json' = to_json(type, object)
    /\ written' = TRUE
    /\ UNCHANGED <<type, object, omitted, copy, reads>>

\* The sender of a request leaves one field out.
Omit ==
    /\ written /\ ~omitted /\ reads = 0
    /\ \E n \in DOMAIN json : json' = [m \in DOMAIN json \ {n} |-> json[m]]
    /\ omitted' = TRUE
    /\ UNCHANGED <<type, object, written, copy, reads>>

\* to_object, from_request, or from_json on an object already in use.
Read ==
    /\ written /\ reads < MaxReads
    /\ copy' = from_json(type, json, copy)
    /\ reads' = reads + 1
    /\ UNCHANGED <<type, object, json, written, omitted>>

JsonNext == to_string \/ Omit \/ Read

JsonSpec == JsonInit /\ [][JsonNext]_jsonVars

----------------------------------------------------------------------------
(* Properties *)

\* The types with both a to_json and a from_json that read something.
TwoWay == {t \in DOMAIN Types : /\ \E m \in Members(t) : Types[t][m].read
                                /\ \E m \in Members(t) : Types[t][m].written}

\* The members that a round trip is known to lose.
Lost ==
    { <<"Device", "deviceType">>, <<"Device", "blackListed">>,
      <<"HealthCheck", "values">>, <<"HealthCheck", "SerialNumber">>,
      <<"ConnectionState", "totalConnectionTime">>,
      <<"ConnectionState", "hasRADIUSSessions">>,
      <<"ConnectionState", "verifiedCertificate">>,
      <<"ConnectionState", "PendingUUID">>,
      <<"WebToken", "errorCode">>, <<"WebToken", "id_token_">>,
      <<"UserInfoAndPolicy", "tokenInfo">>,
      <<"ApiKeyEntry", "created">>, <<"ApiKeyEntryList", "apiKeys">>,
      <<"ManagementPolicy", "venue">>, <<"ManagementRole", "inUse">>,
      <<"DeviceTimePointAnalysis", "timestamp">>,
      <<"DeviceTimePointList", "stats">>, <<"HomeDeviceMode", "leaseTime">>,
      <<"AccessPoint", "deviceMode">>, <<"AccessPointList", "list">>,
      <<"SubscriberInfo", "accessPoints">> }

\* An object that was written and read back into a fresh one is the object
\* that was written, but for the members of Lost, an empty document that
\* comes back as {}, and a contact's type MANAGER that comes back as UNKNOWN.
RoundTripKeeps ==
    (reads = 1 /\ ~omitted /\ type \in TwoWay) =>
        \A m \in Members(type) :
            \/ copy[m] = object[m]
            \/ <<type, m>> \in Lost
            \/ Types[type][m].kind = "document" /\ object[m] = ""
            \/ type = "Contact" /\ m = "type" /\ object[m] = "MANAGER"

RECURSIVE Grows(_)
\* A member that is or holds a vector of structures or of pairs.
Grows(f) ==
    \/ f.kind \in {"appended", "many"}
    \/ f.kind = "one" /\ \E m \in Members(f.of) : Grows(Types[f.of][m])

\* Reading the same document a second time into the same object, as a device
\* that connects twice makes its connection do, changes no member but the
\* vectors of structures and of pairs, which double.
SecondReadOnlyAppends ==
    [][reads = 1 /\ Read =>
         \A m \in Members(type) :
             copy'[m] = copy[m] \/ Grows(Types[type][m])]_jsonVars

\* Both: nothing gets lost or changed but what is listed, however an object
\* is read.
ObjectsKeep == []RoundTripKeeps /\ SecondReadOnlyAppends
==============================================================================
