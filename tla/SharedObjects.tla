---------------------------- MODULE SharedObjects ----------------------------
(***************************************************************************)
(* The objects shared with the analytics, certificate, firmware, load      *)
(* simulation and subscriber services.                                     *)
(***************************************************************************)
EXTENDS ProvObjects

(* RESTAPI_AnalyticsObjects *)

AnalyticsReport == Unsaid({"snapShot"})

VenueInfo ==
    Values({"id", "name", "description", "retention", "interval",
       "monitorSubVenues"})

BoardInfo == ObjectInfo @@ Many("venueList", "VenueInfo")

DeviceInfo ==
    Values({"boardId", "type", "serialNumber", "deviceType", "lastContact",
       "lastPing", "lastState", "lastFirmware", "lastFirmwareUpdate",
       "lastConnection", "lastDisconnection", "pings", "states", "connected",
       "connectionIp", "associations_2g", "associations_5g", "associations_6g",
       "health", "lastHealth", "locale", "uptime", "memory"})

DeviceInfoList == Many("devices", "DeviceInfo")

UE_rate == Values({"bitrate", "mcs", "nss", "ht", "sgi", "chwidth"})

UETimePoint ==
    Values({"station", "rssi", "tx_bytes", "rx_bytes", "tx_duration",
       "rx_packets", "tx_packets", "tx_retries", "tx_failed", "connected",
       "inactive", "tx_bytes_bw", "rx_bytes_bw", "tx_packets_bw",
       "rx_packets_bw", "tx_failed_pct", "tx_retries_pct", "tx_duration_pct",
       "tx_bytes_delta", "rx_bytes_delta", "tx_packets_delta",
       "rx_packets_delta", "tx_failed_delta", "tx_retries_delta",
       "tx_duration_delta"}) @@ One("tx_rate", "UE_rate") @@ One("rx_rate",
       "UE_rate") @@ Many("tidstats", "TIDstat_entry")

APTimePoint ==
    Values({"collisions", "multicast", "rx_bytes", "rx_dropped", "rx_errors",
       "rx_packets", "tx_bytes", "tx_packets", "tx_dropped", "tx_errors",
       "tx_bytes_bw", "rx_bytes_bw", "rx_dropped_pct", "tx_dropped_pct",
       "rx_packets_bw", "tx_packets_bw", "rx_errors_pct", "tx_errors_pct",
       "tx_bytes_delta", "rx_bytes_delta", "rx_dropped_delta",
       "tx_dropped_delta", "rx_packets_delta", "tx_packets_delta",
       "rx_errors_delta", "tx_errors_delta"})

TIDstat_entry ==
    Values({"rx_msdu", "tx_msdu", "tx_msdu_failed", "tx_msdu_retries"})

RadioTimePoint ==
    Values({"band", "channel_width", "active_ms", "busy_ms", "receive_ms",
       "transmit_ms", "tx_power", "channel", "temperature", "noise",
       "active_pct", "busy_pct", "receive_pct", "transmit_pct"})

AveragePoint == Values({"min", "max", "avg"})

SSIDTimePoint ==
    Values({"bssid", "mode", "ssid", "band", "channel"}) @@
       Many("associations", "UETimePoint") @@ One("tx_bytes_bw",
       "AveragePoint") @@ One("rx_bytes_bw", "AveragePoint") @@
       One("tx_packets_bw", "AveragePoint") @@ One("rx_packets_bw",
       "AveragePoint") @@ One("tx_failed_pct", "AveragePoint") @@
       One("tx_retries_pct", "AveragePoint") @@ One("tx_duration_pct",
       "AveragePoint")

DeviceTimePoint ==
    Values({"id", "boardId", "timestamp", "serialNumber"}) @@ One("ap_data",
       "APTimePoint") @@ One("device_info", "DeviceInfo") @@ Many("ssid_data",
       "SSIDTimePoint") @@ Many("radio_data", "RadioTimePoint")

DeviceTimePointAnalysis ==
    One("noise", "AveragePoint") @@ One("temperature", "AveragePoint") @@
       One("active_pct", "AveragePoint") @@ One("busy_pct", "AveragePoint") @@
       One("receive_pct", "AveragePoint") @@ One("transmit_pct",
       "AveragePoint") @@ One("tx_power", "AveragePoint") @@ One("tx_bytes_bw",
       "AveragePoint") @@ One("rx_bytes_bw", "AveragePoint") @@
       One("rx_dropped_pct", "AveragePoint") @@ One("tx_dropped_pct",
       "AveragePoint") @@ One("rx_packets_bw", "AveragePoint") @@
       One("tx_packets_bw", "AveragePoint") @@ One("rx_errors_pct",
       "AveragePoint") @@ One("tx_errors_pct", "AveragePoint") @@
       Unsaid({"timestamp"})

DeviceTimePointList ==
    Many("points", "DeviceTimePoint") @@ Many("stats",
       "DeviceTimePointAnalysis")

DeviceTimePointStats == Values({"firstPoint", "lastPoint", "count"})

WifiClientRate == Values({"bitrate", "chwidth", "mcs", "nss", "vht"})

WifiClientHistory ==
    Values({"timestamp", "station_id", "bssid", "ssid", "rssi", "rx_bitrate",
       "rx_chwidth", "rx_mcs", "rx_nss", "rx_vht", "tx_bitrate", "tx_chwidth",
       "tx_mcs", "tx_nss", "tx_vht", "rx_bytes", "tx_bytes", "rx_duration",
       "tx_duration", "rx_packets", "tx_packets", "ipv4", "ipv6",
       "channel_width", "noise", "tx_power", "channel", "active_ms", "busy_ms",
       "receive_ms", "mode", "ack_signal", "ack_signal_avg", "connected",
       "inactive", "tx_retries", "venue_id"})

(* RESTAPI_CertObjects *)

CertificateEntry ==
    Values({"id", "entity", "creator", "type", "status", "certificate", "key",
       "devid", "cas", "manufacturer", "model", "redirector", "commonName",
       "certificateId", "batch", "created", "modified", "revoked",
       "revokeCount", "synched", "expiryDate"})

EntityEntry ==
    Values({"id", "creator", "name", "description", "defaultRedirector",
       "apiKey", "serverEnrollmentProfile", "clientEnrollmentProfile",
       "organization", "created", "modified", "suspended", "deleted"}) @@
       Many("notes", "NoteInfo")

BatchEntry ==
    Values({"id", "entity", "creator", "name", "description", "manufacturer",
       "model", "redirector", "submitted", "started", "completed", "modified"})
       @@ Lists({"commonNames", "jobHistory"}) @@ Many("notes", "NoteInfo")

JobEntry ==
    Values({"id", "entity", "creator", "batch", "status", "command",
       "submitted", "started", "completed", "requesterUsername"}) @@
       Lists({"commonNames", "completedNames", "errorNames"}) @@
       Pairs({"parameters"})

DashBoardYearlyStats ==
    WrittenOnly(Values({"year"}) @@ Counts({"activeCerts", "revokedCerts"}))

CertDashboard ==
    WrittenOnly(Values({"snapshot", "numberOfIssuedCerts",
       "numberOfRevokedCerts"}) @@ Counts({"activeCertsPerOrganization",
       "revokedCertsPerOrganization", "numberOfRedirectors", "deviceTypes",
       "monthlyNumberOfCerts"}) @@ Many("monthlyNumberOfCertsPerOrgPerYear",
       "DashBoardYearlyStats"))

(* RESTAPI_FMSObjects *)

Firmware ==
    Values({"id", "release", "deviceType", "description", "revision", "uri",
       "image", "imageDate", "size", "downloadCount", "firmwareHash", "owner",
       "location", "uploader", "digest", "latest", "created"}) @@ Many("notes",
       "NoteInfo")

FirmwareList == Many("firmwares", "Firmware")

DeviceType ==
    Values({"id", "deviceType", "manufacturer", "model", "policy",
       "lastUpdate", "created"}) @@ Many("notes", "NoteInfo")

DeviceTypeList == Many("deviceTypes", "DeviceType")

RevisionHistoryEntry ==
    Values({"id", "serialNumber", "fromRelease", "toRelease", "commandUUID",
       "revisionId", "upgraded"})

RevisionHistoryEntryList == Many("deviceTypes", "RevisionHistoryEntry")

FirmwareAgeDetails ==
    Values({"latestId", "image", "imageDate", "revision", "uri", "age",
       "latest"})

DeviceConnectionInformation ==
    Values({"serialNumber", "revision", "deviceType", "endPoint", "lastUpdate",
       "status"})

DeviceReport ==
    WrittenOnly(Counts({"ouis", "revisions", "deviceTypes", "status",
       "endPoints", "usingLatest", "unknownFirmwares", "totalSecondsOld"}) @@
       Values({"snapshot", "numberOfDevices"}))

DeviceInformation ==
    Values({"serialNumber", "currentFirmware", "currentFirmwareDate",
       "latestFirmware", "latestFirmwareDate", "latestFirmwareAvailable",
       "latestFirmwareURI"}) @@ One("history", "RevisionHistoryEntryList")

DeviceCurrentInfo == Values({"serialNumber", "revision", "upgraded"})

DeviceCurrentInfoList == Many("devices", "DeviceCurrentInfo")

(* RESTAPI_OWLSobjects *)

SimulationDetails ==
    Values({"id", "name", "gateway", "certificate", "key", "macPrefix",
       "deviceType", "devices", "healthCheckInterval", "stateInterval",
       "minAssociations", "maxAssociations", "minClients", "maxClients",
       "simulationLength", "threads", "clientInterval", "keepAlive",
       "reconnectInterval", "concurrentDevices"})

SimulationDetailsList == Many("list", "SimulationDetails")

SimulationStatus ==
    WrittenOnly(Values({"id", "simulationId", "state", "tx", "rx", "msgsTx",
       "msgsRx", "liveDevices", "timeToFullDevices", "startTime", "endTime",
       "errorDevices", "owner", "expectedDevices"}))

OWLSDashboard == NoFields

(* RESTAPI_SubObjects *)

HomeDeviceMode ==
    Values({"enableLEDS", "type", "subnet", "subnetMask", "startIP", "endIP",
       "created", "modified", "subnetV6", "subnetMaskV6", "startIPV6",
       "endIPV6"}) @@ Unsaid({"leaseTime"})

IPReservation == Values({"nickname", "ipAddress", "macAddress"})

IPReservationList ==
    Values({"id", "created", "modified"}) @@ Many("reservations",
       "IPReservation")

DnsConfiguration ==
    Values({"ISP", "custom", "primary", "secondary", "primaryV6",
       "secondaryV6"})

InternetConnection ==
    Values({"type", "username", "password", "ipAddress", "subnetMask",
       "defaultGateway", "sendHostname", "primaryDns", "secondaryDns",
       "created", "modified", "ipV6Support", "ipAddressV6", "subnetMaskV6",
       "defaultGatewayV6", "primaryDnsV6", "secondaryDnsV6"})

WifiNetwork ==
    Values({"type", "name", "password", "encryption"}) @@ Lists({"bands"})

WifiNetworkList ==
    Many("wifiNetworks", "WifiNetwork") @@ Values({"created", "modified"})

AccessTime == Values({"day"}) @@ Lists({"rangeList"})

AccessTimes ==
    Many("schedule", "AccessTime") @@ Values({"created", "modified"})

SubsSubscriberDevice ==
    Values({"name", "description", "macAddress", "manufacturer",
       "firstContact", "lastContact", "group", "icon", "suspended", "ip"}) @@
       Many("schedule", "AccessTimes")

SubsSubscriberDeviceList ==
    Many("devices", "SubsSubscriberDevice") @@ Values({"created", "modified"})

Association ==
    Values({"name", "ssid", "macAddress", "rssi", "power", "ipv4", "ipv6",
       "tx", "rx", "manufacturer"})

AssociationList ==
    Many("associations", "Association") @@ Values({"created", "modified"})

ClientEntry ==
    Values({"macAddress", "speed", "mode", "ipv4", "ipv6", "tx", "rx",
       "manufacturer"})

ClientList == Many("clients", "Client") @@ Values({"created", "modified"})

SubsLocation ==
    Values({"buildingName", "city", "state", "postal", "country"}) @@
       Lists({"addressLines", "phones", "mobiles"})

RadioHE == Values({"multipleBSSID", "ema", "bssColor"})

RadioRates == Values({"beacon", "multicast"})

RadioInformation ==
    Values({"band", "bandwidth", "channel", "country", "channelMode",
       "channelWidth", "requireMode", "txpower", "legacyRates",
       "beaconInterval", "dtimPeriod", "maximumClients", "allowDFS", "mimo"})
       @@ One("rates", "RadioRates") @@ One("he", "RadioHE") @@
       Lists({"rawInfo"})

AccessPoint ==
    Values({"id", "macAddress", "serialNumber", "name", "deviceType",
       "automaticUpgrade", "configurationUUID", "currentFirmware",
       "currentFirmwareDate", "latestFirmware", "latestFirmwareDate",
       "newFirmwareAvailable", "latestFirmwareURI"}) @@
       One("subscriberDevices", "SubsSubscriberDeviceList") @@
       One("ipReservations", "IPReservationList") @@ One("address",
       "SubsLocation") @@ One("wifiNetworks", "WifiNetworkList") @@
       One("internetConnection", "InternetConnection") @@ One("deviceMode",
       "HomeDeviceMode") @@ One("dnsConfiguration", "DnsConfiguration") @@
       Many("radios", "RadioInformation")

AccessPointList == Many("list", "AccessPoint")

SubscriberInfo ==
    Values({"id", "userId", "firstName", "initials", "lastName", "phoneNumber",
       "secondaryEmail", "created", "modified"}) @@ One("accessPoints",
       "AccessPointList") @@ One("serviceAddress", "SubsLocation") @@
       One("billingAddress", "SubsLocation")

StatsEntry == Values({"timestamp", "tx", "rx"})

StatsBlock ==
    Values({"modified"}) @@ Many("external", "StatsEntry") @@ Many("internal",
       "StatsEntry")

\* The types of this module, by name.
SharedTypes ==
    [ AnalyticsReport |-> AnalyticsReport, VenueInfo |-> VenueInfo,
      BoardInfo |-> BoardInfo, DeviceInfo |-> DeviceInfo,
      DeviceInfoList |-> DeviceInfoList, UE_rate |-> UE_rate,
      UETimePoint |-> UETimePoint, APTimePoint |-> APTimePoint,
      TIDstat_entry |-> TIDstat_entry, RadioTimePoint |-> RadioTimePoint,
      AveragePoint |-> AveragePoint, SSIDTimePoint |-> SSIDTimePoint,
      DeviceTimePoint |-> DeviceTimePoint,
      DeviceTimePointAnalysis |-> DeviceTimePointAnalysis,
      DeviceTimePointList |-> DeviceTimePointList,
      DeviceTimePointStats |-> DeviceTimePointStats,
      WifiClientRate |-> WifiClientRate,
      WifiClientHistory |-> WifiClientHistory,
      CertificateEntry |-> CertificateEntry, EntityEntry |-> EntityEntry,
      BatchEntry |-> BatchEntry, JobEntry |-> JobEntry,
      DashBoardYearlyStats |-> DashBoardYearlyStats,
      CertDashboard |-> CertDashboard, Firmware |-> Firmware,
      FirmwareList |-> FirmwareList, DeviceType |-> DeviceType,
      DeviceTypeList |-> DeviceTypeList,
      RevisionHistoryEntry |-> RevisionHistoryEntry,
      RevisionHistoryEntryList |-> RevisionHistoryEntryList,
      FirmwareAgeDetails |-> FirmwareAgeDetails,
      DeviceConnectionInformation |-> DeviceConnectionInformation,
      DeviceReport |-> DeviceReport, DeviceInformation |-> DeviceInformation,
      DeviceCurrentInfo |-> DeviceCurrentInfo,
      DeviceCurrentInfoList |-> DeviceCurrentInfoList,
      SimulationDetails |-> SimulationDetails,
      SimulationDetailsList |-> SimulationDetailsList,
      SimulationStatus |-> SimulationStatus, OWLSDashboard |-> OWLSDashboard,
      HomeDeviceMode |-> HomeDeviceMode, IPReservation |-> IPReservation,
      IPReservationList |-> IPReservationList,
      DnsConfiguration |-> DnsConfiguration,
      InternetConnection |-> InternetConnection, WifiNetwork |-> WifiNetwork,
      WifiNetworkList |-> WifiNetworkList, AccessTime |-> AccessTime,
      AccessTimes |-> AccessTimes,
      SubsSubscriberDevice |-> SubsSubscriberDevice,
      SubsSubscriberDeviceList |-> SubsSubscriberDeviceList,
      Association |-> Association, AssociationList |-> AssociationList,
      Client |-> ClientEntry, ClientList |-> ClientList,
      SubsLocation |-> SubsLocation, RadioHE |-> RadioHE,
      RadioRates |-> RadioRates, RadioInformation |-> RadioInformation,
      AccessPoint |-> AccessPoint, AccessPointList |-> AccessPointList,
      SubscriberInfo |-> SubscriberInfo, StatsEntry |-> StatsEntry,
      StatsBlock |-> StatsBlock ]
==============================================================================
