---------------------------- MODULE GatewayObjects ----------------------------
(***************************************************************************)
(* The objects of RESTAPI_GWobjects and of the notifications to the UI:    *)
(* which members their to_json writes and their from_json reads.  A member *)
(* is named by its JSON name, or by its own name if JSON never carries it. *)
(***************************************************************************)
EXTENDS JsonFields

(* RESTAPI_GWobjects *)

Device ==
    Values({"serialNumber", "macAddress", "manufacturer", "UUID",
       "createdTimestamp", "lastConfigurationChange",
       "lastConfigurationDownload", "lastFWUpdate", "owner", "location",
       "venue", "firmware", "compatible", "fwUpdatePolicy", "devicePassword",
       "subscriber", "entity", "modified", "locale", "restrictedDevice",
       "pendingConfiguration", "pendingConfigurationCmd", "pendingUUID",
       "simulated", "lastRecordedContact", "certificateExpiryDate",
       "connectReason"}) @@ Many("notes", "NoteInfo") @@
       One("restrictionDetails", "DeviceRestrictions") @@
       Documents({"configuration"}) @@
       Computed({"deviceType"}) @@ WrittenOnly(Computed({"blackListed"}))

Statistics ==
    WrittenOnly(Values({"UUID", "recorded"}) @@ Documents({"data"})) @@
       Unsaid({"SerialNumber"})

Capabilities ==
    WrittenOnly(Values({"firstUpdate", "lastUpdate"}) @@
       Documents({"capabilities"}))

DeviceLog ==
    WrittenOnly(Values({"log", "severity", "recorded", "logType", "UUID"}) @@
       Documents({"data"})) @@ Unsaid({"SerialNumber"})

HealthCheck ==
    Values({"UUID", "sanity", "recorded"}) @@
       WrittenOnly(Documents({"values"})) @@ Unsaid({"SerialNumber"})

DefaultFirmware ==
    Values({"deviceType", "description", "uri", "revision",
       "imageCreationDate", "created", "lastModified"})

CommandDetails ==
    WrittenOnly(Values({"UUID", "serialNumber", "command", "errorText",
       "submittedBy", "status", "submitted", "executed", "completed", "when",
       "errorCode", "custom", "waitingForFile", "attachFile", "executionTime",
       "lastTry", "deferred"}) @@ Documents({"details", "results"})) @@
       Unsaid({"AttachSize", "AttachType"})

DefaultConfiguration ==
    Values({"name", "description", "created", "lastModified", "platform"}) @@
       Lists({"modelIds"}) @@ Documents({"configuration"})

BlackListedDevice == Values({"serialNumber", "author", "reason", "created"})

ConnectionState ==
    Values({"ipAddress", "txBytes", "rxBytes", "messageCount", "UUID",
       "connected", "firmware", "lastContact", "associations_2G",
       "associations_5G", "associations_6G", "webSocketClients",
       "websocketPackets", "kafkaClients", "kafkaPackets", "locale", "started",
       "sessionId", "connectionCompletionTime",
       "certificateExpiryDate", "certificateIssuerName", "connectReason",
       "uptime", "compatible", "hasGPS", "sanity",
       "memoryUsed", "load", "temperature"}) @@
       Computed({"totalConnectionTime", "hasRADIUSSessions"}) @@
       WrittenOnly(Values({"verifiedCertificate"})) @@ Unsaid({"PendingUUID"})

DeviceConnectionStatistics ==
    Values({"averageConnectionTime", "connectedDevices", "connectingDevices"})

RttySessionDetails ==
    WrittenOnly(Values({"serialNumber", "server", "port", "token", "timeout",
       "connectionId", "commandUUID", "started", "viewport", "password"}))

GWDashboard ==
    WrittenOnly(Counts({"commands", "upTimes", "memoryUsed", "load1", "load5",
       "load15", "vendors", "status", "deviceType", "healths", "certificates",
       "lastContact", "associations"}) @@ Values({"snapshot",
       "numberOfDevices"}))

CapabilitiesModel == WrittenOnly(Values({"deviceType", "capabilities"}))

ScriptRequest ==
    Values({"serialNumber", "timeout", "type", "scriptId", "script", "when",
       "signature", "deferred", "uri"})

RadiusProxyPoolList == Many("pools", "RadiusProxyPool")

RadiusProxyPool ==
    Values({"name", "description", "useByDefault", "radsecKeepAlive",
       "poolProxyIp", "radsecPoolType", "enabled"}) @@ One("authConfig",
       "RadiusProxyServerConfig") @@ One("acctConfig",
       "RadiusProxyServerConfig") @@ One("coaConfig",
       "RadiusProxyServerConfig")

RadiusProxyServerConfig ==
    Values({"strategy", "monitor", "monitorMethod"}) @@
       Lists({"methodParameters"}) @@ Many("servers", "RadiusProxyServerEntry")

RadiusProxyServerEntry ==
    Values({"name", "ip", "port", "weight", "secret", "certificate", "radsec",
       "allowSelfSigned", "radsecPort", "radsecSecret", "radsecCert",
       "radsecKey", "ignore"}) @@ Lists({"radsecCacerts", "radsecRealms"})

ScriptEntry ==
    Values({"id", "name", "description", "uri", "content", "version", "type",
       "created", "modified", "author", "deferred", "timeout",
       "defaultUploadURI"}) @@ Lists({"restricted"})

ScriptEntryList == Many("scripts", "ScriptEntry")

RangeOptions ==
    WrittenOnly(Values({"NO_IR", "AUTO_BW", "DFS", "NO_OUTDOOR",
       "wmmrule_ETSI", "NO_OFDM"}))

FrequencyRange ==
    WrittenOnly(Values({"from", "to", "channelWidth", "powerDb"}) @@
       One("options", "RangeOptions"))

RegulatoryCountryInfo ==
    WrittenOnly(Values({"country", "domain"}) @@ Many("ranges",
       "FrequencyRange"))

DeviceRestrictionsKeyInfo == Values({"vendor", "algo"})

\* Mutant: from_json forgets the restriction of the console.
DeviceRestrictionsMutant ==
    Values({"dfs", "ssh", "rtty", "developer", "upgrade", "commands"})
       @@ Lists({"country"}) @@ One("key_info", "DeviceRestrictionsKeyInfo")
       @@ WrittenOnly(Values({"tty"}))

DeviceRestrictions ==
    Values({"dfs", "ssh", "rtty", "tty", "developer", "upgrade", "commands"})
       @@ Lists({"country"}) @@ One("key_info", "DeviceRestrictionsKeyInfo")

RADIUSSession ==
    WrittenOnly(Values({"started", "lastTransaction", "destination",
       "serialNumber", "userName", "accountingSessionId",
       "accountingMultiSessionId", "inputPackets", "outputPackets",
       "inputOctets", "outputOctets", "inputGigaWords", "outputGigaWords",
       "sessionTime", "callingStationId", "chargeableUserIdentity",
       "interface", "secret", "nasId", "calledStationId"})) @@
       Unsaid({"accountingPacket"})

RADIUSSessionList == WrittenOnly(Many("sessions", "RADIUSSession"))

RadiusCoADMParameters ==
    Values({"accountingSessionId", "accountingMultiSessionId",
       "callingStationId", "chargeableUserIdentity", "userName"})

DeviceTransferRequest == ReadOnly(Values({"serialNumber", "server", "port"}))

DeviceCertificateUpdateRequest ==
    ReadOnly(Values({"serial", "encodedCertificate"}))

PowerCyclePort == ReadOnly(Values({"name", "cycle"}))

PowerCycleRequest ==
    ReadOnly(Values({"serial", "when"}) @@ Many("ports", "PowerCyclePort"))

FixedConfig == ReadOnly(Values({"serial", "country"}))

CableDiagnostics == ReadOnly(Values({"serial", "when"}) @@ Lists({"ports"}))

ReEnroll == ReadOnly(Values({"serial", "when"}))

PackageInfo == Values({"name", "version"})

PackageList ==
    WrittenOnly(Values({"serialNumber", "FirstUpdate", "LastUpdate"}) @@
       Many("packageArray", "PackageInfo")) @@ Unsaid({"packageStringArray"})

ToBeInstalled == Values({"name", "url"})

PackageInstall ==
    ReadOnly(Values({"serialNumber", "when"}) @@ Many("packages",
       "ToBeInstalled"))

ToBeRemoved == Values({"name"})

PackageRemove ==
    ReadOnly(Values({"serialNumber"}) @@ Many("packages", "ToBeRemoved")) @@
       Unsaid({"when"})

(* UI_GW_WebSocketNotifications and WebSocketLogger *)

DeviceWithStatus ==
    WrittenOnly(Device @@ Computed({"ipAddress", "txBytes", "rxBytes",
       "messageCount", "connected", "lastContact", "verifiedCertificate",
       "associations_2G", "associations_5G", "associations_6G",
       "hasRADIUSSessions", "hasGPS", "sanity", "memoryUsed", "load",
       "temperature"}))

SingleDevice == Values({"serialNumber"})

SingleDeviceConfigurationChange ==
    Values({"serialNumber", "oldUUID", "newUUID"})

SingleDeviceFirmwareChange == Values({"serialNumber", "newFirmware"})

NumberOfConnection ==
    Values({"numberOfDevices", "averageConnectedTime",
       "numberOfConnectingDevices", "rx", "tx"})

WebSocketNotification ==
    Values({"notification_id", "type_id"}) @@ One("content", "NumberOfConnection")

NotificationLogMessage ==
    Values({"msg", "level", "timestamp", "source", "thread_name", "thread_id"})

\* The types of this module, by name.
GatewayTypes ==
    [ Device |-> Device, Statistics |-> Statistics,
      Capabilities |-> Capabilities, DeviceLog |-> DeviceLog,
      HealthCheck |-> HealthCheck, DefaultFirmware |-> DefaultFirmware,
      CommandDetails |-> CommandDetails,
      DefaultConfiguration |-> DefaultConfiguration,
      BlackListedDevice |-> BlackListedDevice,
      ConnectionState |-> ConnectionState,
      DeviceConnectionStatistics |-> DeviceConnectionStatistics,
      RttySessionDetails |-> RttySessionDetails, GWDashboard |-> GWDashboard,
      CapabilitiesModel |-> CapabilitiesModel,
      ScriptRequest |-> ScriptRequest,
      RadiusProxyPoolList |-> RadiusProxyPoolList,
      RadiusProxyPool |-> RadiusProxyPool,
      RadiusProxyServerConfig |-> RadiusProxyServerConfig,
      RadiusProxyServerEntry |-> RadiusProxyServerEntry,
      ScriptEntry |-> ScriptEntry, ScriptEntryList |-> ScriptEntryList,
      RangeOptions |-> RangeOptions, FrequencyRange |-> FrequencyRange,
      RegulatoryCountryInfo |-> RegulatoryCountryInfo,
      DeviceRestrictionsKeyInfo |-> DeviceRestrictionsKeyInfo,
      DeviceRestrictions |-> DeviceRestrictions,
      RADIUSSession |-> RADIUSSession,
      RADIUSSessionList |-> RADIUSSessionList,
      RadiusCoADMParameters |-> RadiusCoADMParameters,
      DeviceTransferRequest |-> DeviceTransferRequest,
      DeviceCertificateUpdateRequest |-> DeviceCertificateUpdateRequest,
      PowerCyclePort |-> PowerCyclePort,
      PowerCycleRequest |-> PowerCycleRequest, FixedConfig |-> FixedConfig,
      CableDiagnostics |-> CableDiagnostics, ReEnroll |-> ReEnroll,
      PackageInfo |-> PackageInfo, PackageList |-> PackageList,
      ToBeInstalled |-> ToBeInstalled, PackageInstall |-> PackageInstall,
      ToBeRemoved |-> ToBeRemoved, PackageRemove |-> PackageRemove,
      DeviceWithStatus |-> DeviceWithStatus, SingleDevice |-> SingleDevice,
      SingleDeviceConfigurationChange |-> SingleDeviceConfigurationChange,
      SingleDeviceFirmwareChange |-> SingleDeviceFirmwareChange,
      NumberOfConnection |-> NumberOfConnection,
      WebSocketNotification |-> WebSocketNotification,
      NotificationLogMessage |-> NotificationLogMessage ]
==============================================================================
