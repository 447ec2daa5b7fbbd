------------------------------ MODULE Catalog ------------------------------
(***************************************************************************)
(* The small tables an administrator edits through the REST API: default   *)
(* configurations, default firmware, scripts and the black list, whose     *)
(* cache decides which devices may connect; the choice of a configuration  *)
(* for a device that connects for the first time; and the cache of         *)
(* platforms and capabilities, which is kept in files.                     *)
(*                                                                         *)
(* A request is one or more reads followed by a write, each a statement of *)
(* its own: requests of two threads mix between them.                      *)
(***************************************************************************)
EXTENDS Integers, FiniteSets

CONSTANTS Key,            \* names, device types, ids or serial numbers
          Value,          \* what a request stores
          DefaultConfig,  \* default configurations: the models one is for, and its platform
          Editor,         \* threads of the REST server
          Model_,         \* device models ("compatible")
          Platform_,      \* platforms a device may report
          AnyModel, NoPlatform, NoValue, Torn,
          UseProvisioning, UseDefaults

ASSUME CatalogAssumption ==
  DefaultConfig \subseteq [models : (SUBSET (Model_ \cup {AnyModel})) \ {{}},
                          platform : Platform_ \ {NoPlatform}]

VARIABLES
  store,     \* the table of this behaviour
  row,       \* the table: for each key its value, or NoValue
  cache,     \* BlackListDevices
  asked,     \* what a thread is doing
  overlap,   \* ghost: keys that two requests have worked on at a time
  given,     \* the last device provisioned, and what it was given
  Platforms_, \* CapabilitiesCache, by model
  loaded,    \* PlatformsLoaded_
  file       \* plat_cache.json, or Torn

catVars == <<store, row, cache, asked, overlap, given, Platforms_, loaded, file>>

NoRequest == [op |-> "none"]

Kinds == {"configs", "firmwares", "scripts", "blacklist", "platforms"}

RowValues == IF store = "configs" THEN DefaultConfig ELSE Value

Nothing == [given |-> "nothing"]

CatInit ==
  /\ store \in Kinds
  /\ row = [k \in Key |-> NoValue]
  /\ cache = [k \in Key |-> NoValue]
  /\ asked = [e \in Editor |-> NoRequest]
  /\ overlap = {}
  /\ given = Nothing
  /\ Platforms_ = [m \in Model_ |-> NoPlatform]
  /\ loaded = FALSE
  /\ file = [m \in Model_ |-> NoPlatform]

\* A request on key k begins; the row the statement names is body
Begin(e, op, k, body, v, at) ==
  /\ asked' = [asked EXCEPT ![e] =
       [op |-> op, key |-> k, body |-> body, value |-> v, at |-> at]]
  /\ overlap' = IF \E f \in Editor \ {e} : asked[f] # NoRequest /\ asked[f].body = body
                THEN overlap \cup {body} ELSE overlap
  /\ UNCHANGED <<row, cache, store, given, Platforms_, loaded, file>>

Refuse(e) ==
  /\ asked' = [asked EXCEPT ![e] = NoRequest]
  /\ UNCHANGED <<row, cache, overlap, store, given, Platforms_, loaded, file>>

Goto(e, at) ==
  /\ asked' = [asked EXCEPT ![e].at = at]
  /\ UNCHANGED <<row, cache, overlap, store, given, Platforms_, loaded, file>>

----------------------------------------------------------------------------
\* Default configurations.  POST looks for the name of the path twice, and
\* inserts under the name in the body.

DefaultConfigurationAlreadyExists(k) == row[k] # NoValue

PostConfig(e) ==
  /\ store = "configs" /\ asked[e] = NoRequest
  /\ \E k, b \in Key, v \in RowValues :
       /\ ~DefaultConfigurationAlreadyExists(k)
       /\ Begin(e, "post", k, b, v, "select")

CreateDefaultConfiguration(e) ==
  /\ store = "configs" /\ asked[e].op = "post" /\ asked[e].at = "select"
  /\ IF row[asked[e].key] # NoValue THEN Refuse(e) ELSE Goto(e, "insert")

PutConfig(e) ==
  /\ store = "configs" /\ asked[e] = NoRequest
  /\ \E k \in Key, v \in RowValues :
       /\ row[k] # NoValue
       /\ Begin(e, "put", k, k, v, "update")

DeleteConfig_(e) ==
  /\ store = "configs" /\ asked[e] = NoRequest
  /\ \E k \in Key : Begin(e, "delete", k, k, NoValue, "delete")

\* Default firmware.  POST looks for the type of the path, then for the
\* type in the body, and inserts that.

DefaultFirmwareAlreadyExists(k) == row[k] # NoValue

PostFirmware(e) ==
  /\ store = "firmwares" /\ asked[e] = NoRequest
  /\ \E k, b \in Key, v \in RowValues :
       /\ ~DefaultFirmwareAlreadyExists(k)
       /\ Begin(e, "post", k, b, v, "select")

CreateDefaultFirmware(e) ==
  /\ store = "firmwares" /\ asked[e].op = "post" /\ asked[e].at = "select"
  /\ IF row[asked[e].body] # NoValue THEN Refuse(e) ELSE Goto(e, "insert")

PutFirmware(e) ==
  /\ store = "firmwares" /\ asked[e] = NoRequest
  /\ \E k \in Key, v \in RowValues :
       /\ row[k] # NoValue
       /\ Begin(e, "put", k, k, v, "update")

DeleteFirmware(e) ==
  /\ store = "firmwares" /\ asked[e] = NoRequest
  /\ \E k \in Key : Begin(e, "delete", k, k, NoValue, "delete")

\* Scripts.  POST makes an id that nothing has.

PostScript(e) ==
  /\ store = "scripts" /\ asked[e] = NoRequest
  /\ \E k \in Key, v \in RowValues :
       /\ row[k] = NoValue /\ \A f \in Editor : asked[f] # NoRequest => asked[f].body # k
       /\ Begin(e, "post", k, k, v, "insert")

PutScript(e) ==
  /\ store = "scripts" /\ asked[e] = NoRequest
  /\ \E k \in Key, v \in RowValues :
       /\ row[k] # NoValue
       /\ Begin(e, "put", k, k, v, "update")

DeleteScript(e) ==
  /\ store = "scripts" /\ asked[e] = NoRequest
  /\ \E k \in Key : Begin(e, "delete", k, k, NoValue, "delete")

\* The black list.  POST asks the cache, PUT and DELETE the table.

IsBlackListed(k) == cache[k] # NoValue

PostBlackList(e) ==
  /\ store = "blacklist" /\ asked[e] = NoRequest
  /\ \E k \in Key, v \in RowValues :
       /\ ~IsBlackListed(k)
       /\ Begin(e, "post", k, k, v, "insert")

PutBlackList(e) ==
  /\ store = "blacklist" /\ asked[e] = NoRequest
  /\ \E k \in Key, v \in RowValues :
       /\ row[k] # NoValue
       /\ Begin(e, "put", k, k, v, "update")

DeleteBlackList(e) ==
  /\ store = "blacklist" /\ asked[e] = NoRequest
  /\ \E k \in Key :
       /\ row[k] # NoValue
       /\ Begin(e, "delete", k, k, NoValue, "delete")

----------------------------------------------------------------------------
\* The statements

\* After a statement only the black list has a cache to bring up to date
AfterStatement(e) ==
  asked' = [asked EXCEPT ![e] =
              IF store = "blacklist" THEN [@ EXCEPT !.at = "cache"] ELSE NoRequest]

\* Mutated form of InsertRow
InsertRowMutant(e) ==
  /\ asked[e] # NoRequest /\ asked[e].at = "insert"
  /\ row' = [row EXCEPT ![asked[e].body] = asked[e].value]
  /\ AfterStatement(e)
  /\ UNCHANGED <<cache, overlap, store, given, Platforms_, loaded, file>>

\* INSERT into a table whose key is primary: it fails if the row is there
InsertRow(e) ==
  /\ asked[e] # NoRequest /\ asked[e].at = "insert"
  /\ IF row[asked[e].body] # NoValue THEN Refuse(e)
     ELSE /\ row' = [row EXCEPT ![asked[e].body] = asked[e].value]
          /\ AfterStatement(e)
          /\ UNCHANGED <<cache, overlap, store, given, Platforms_, loaded, file>>

\* UPDATE ... WHERE key: nothing if the row has gone
UpdateRow_(e) ==
  /\ asked[e] # NoRequest /\ asked[e].at = "update"
  /\ row' = [row EXCEPT ![asked[e].key] = IF @ = NoValue THEN NoValue ELSE asked[e].value]
  /\ AfterStatement(e)
  /\ UNCHANGED <<cache, overlap, store, given, Platforms_, loaded, file>>

DeleteRow(e) ==
  /\ asked[e] # NoRequest /\ asked[e].at = "delete"
  /\ row' = [row EXCEPT ![asked[e].key] = NoValue]
  /\ AfterStatement(e)
  /\ UNCHANGED <<cache, overlap, store, given, Platforms_, loaded, file>>

\* Mutated form of Cached
CachedMutant(r) == IF r.op = "put" THEN cache[r.body] ELSE r.value

\* What AddBlackListDevice, UpdateBlackListDevice and DeleteBlackListDevice
\* leave in BlackListDevices: PUT does not look whether it updated a row
Cached(r) == IF r.op = "delete" THEN NoValue ELSE r.value

UpdateCache(e) ==
  /\ asked[e] # NoRequest /\ asked[e].at = "cache"
  /\ cache' = [cache EXCEPT ![asked[e].body] = Cached(asked[e])]
  /\ asked' = [asked EXCEPT ![e] = NoRequest]
  /\ UNCHANGED <<row, overlap, store, given, Platforms_, loaded, file>>

----------------------------------------------------------------------------
\* CreateDefaultDevice: provisioning, else a default configuration, else
\* what is built in

\* Mutated form of ForModel
ForModelMutant(m, p) == {k \in Key : row[k] # NoValue /\ NoPlatform = p}

\* FindDefaultConfigurationForModel compares the platform of the record it
\* is to fill, which is empty, with that of the device
ForModel(m, p) ==
  {k \in Key : /\ row[k] # NoValue
               /\ m \in row[k].models \/ AnyModel \in row[k].models
               /\ NoPlatform = p}

Provision(m, p) ==
  /\ store = "configs"
  /\ \/ /\ UseProvisioning
        /\ given' = [given |-> "provisioned"]
     \/ given' \in (IF UseDefaults /\ ForModel(m, p) # {}
                    THEN {[given |-> "default", config |-> row[k], model |-> m, platform |-> p] :
                            k \in ForModel(m, p)}
                    ELSE {[given |-> "builtin"]})
  /\ UNCHANGED <<store, row, cache, asked, overlap, Platforms_, loaded, file>>

----------------------------------------------------------------------------
\* CapabilitiesCache, for the platforms; the capabilities are kept alike

Load == IF loaded THEN Platforms_
        ELSE IF file = Torn THEN [m \in Model_ |-> NoPlatform] ELSE file

\* Mutated form of AddCapabilities
AddCapabilitiesMutant(m, p) ==
  /\ store = "platforms" /\ p # NoPlatform
  /\ loaded' = TRUE
  /\ Platforms_' = [Load EXCEPT ![m] = p]
  /\ file' = IF Load[m] = NoPlatform THEN Platforms_' ELSE file
  /\ UNCHANGED <<store, row, cache, asked, overlap, given>>

\* Add: load on first use, store, and save what has changed
AddCapabilities(m, p) ==
  /\ store = "platforms"
  /\ p # NoPlatform
  /\ loaded' = TRUE
  /\ Platforms_' = [Load EXCEPT ![m] = p]
  /\ file' = IF Load[m] # p THEN Platforms_' ELSE file
  /\ UNCHANGED <<store, row, cache, asked, overlap, given>>

\* GetPlatform: an access point, if nothing else is known
GetPlatform(m) == IF Load[m] = NoPlatform THEN "ap" ELSE Load[m]

\* The gateway stops, perhaps while the file is being written;
\* InitializeBlackListCache reads the table
RestartCatalog ==
  /\ cache' = IF store = "blacklist" THEN row ELSE cache
  /\ asked' = [e \in Editor |-> NoRequest]
  /\ overlap' = {}
  /\ loaded' = FALSE
  /\ Platforms_' = [m \in Model_ |-> NoPlatform]
  /\ file' \in IF loaded THEN {file, Torn} ELSE {file}
  /\ given' = Nothing
  /\ UNCHANGED <<store, row>>

CatNext ==
  \/ \E e \in Editor :
       \/ PostConfig(e) \/ CreateDefaultConfiguration(e) \/ PutConfig(e) \/ DeleteConfig_(e)
       \/ PostFirmware(e) \/ CreateDefaultFirmware(e) \/ PutFirmware(e) \/ DeleteFirmware(e)
       \/ PostScript(e) \/ PutScript(e) \/ DeleteScript(e)
       \/ PostBlackList(e) \/ PutBlackList(e) \/ DeleteBlackList(e)
       \/ InsertRow(e) \/ UpdateRow_(e) \/ DeleteRow(e) \/ UpdateCache(e)
  \/ \E m \in Model_, p \in Platform_ : Provision(m, p) \/ AddCapabilities(m, p)
  \/ RestartCatalog

CatSpec == CatInit /\ [][CatNext]_catVars

----------------------------------------------------------------------------
\* While no two requests on a serial number have overlapped, what the
\* gateway refuses at the door is what the black list says, as soon as the
\* request is over.  (A PUT and a DELETE that overlap leave an entry in the
\* cache without a row: the device is refused, and cannot be removed from
\* the black list, until the gateway restarts.)
BlackListEnforced ==
  store = "blacklist" /\ (\A e \in Editor : asked[e] = NoRequest) =>
    \A k \in Key \ overlap : cache[k] = row[k]

\* Whatever overlaps, a request to create never changes a row that another
\* one created: the row stays as it is until a PUT or a DELETE.
CreationNeverOverwrites ==
  [][\A k \in Key : row[k] # NoValue /\ row'[k] # row[k] =>
       \E e \in Editor : asked[e] # NoRequest /\ asked[e].op \in {"put", "delete"}
                         /\ asked[e].key = k]_catVars

\* A device is given a default configuration only if that was made for its
\* model or for all, and a device whose platform is known never gets one
\* of another platform.
ConfigurationFitsModel ==
  given.given = "default" =>
    /\ {given.model, AnyModel} \cap given.config.models # {}
    /\ given.platform \in {NoPlatform, given.config.platform}

\* Once loaded, the platforms in memory are those in the file, whole: what
\* is learnt of a model survives a restart, unless the file was torn.
PlatformsAreSaved == loaded /\ file # Torn => file = Platforms_
============================================================================
