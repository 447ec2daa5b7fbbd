----------------------------- MODULE ProvObjects -----------------------------
(***************************************************************************)
(* The objects of RESTAPI_ProvObjects, shared with the provisioning        *)
(* service.  Those that embed ObjectInfo write and read its members beside *)
(* their own (info.to_json(Obj)).                                          *)
(***************************************************************************)
EXTENDS JsonFields

(* RESTAPI_ProvObjects *)

ObjectInfo ==
    Values({"id", "name", "description", "created", "modified"}) @@
       Many("notes", "NoteInfo") @@ Lists({"tags"})

ManagementPolicyEntry ==
    Lists({"users", "resources", "access"}) @@ Values({"policy"})

ManagementPolicy ==
    ObjectInfo @@ Many("entries", "ManagementPolicyEntry") @@ Lists({"inUse"})
       @@ Values({"entity"}) @@ Unsaid({"venue"})

Entity ==
    ObjectInfo @@ Values({"parent", "managementPolicy"}) @@ Lists({"venues",
       "children", "contacts", "locations", "deviceConfiguration", "devices",
       "sourceIP", "variables", "managementPolicies", "managementRoles",
       "maps", "configurations"}) @@ One("deviceRules", "DeviceRules")

DiGraphEntry == Values({"parent", "child"})

Venue ==
    ObjectInfo @@ Values({"parent", "entity", "design", "managementPolicy",
       "location"}) @@ Lists({"children", "devices", "deviceConfiguration",
       "contacts", "sourceIP", "variables", "managementPolicies",
       "managementRoles", "maps", "configurations", "boards"}) @@
       Many("topology", "DiGraphEntry") @@ One("deviceRules", "DeviceRules")

Operator ==
    ObjectInfo @@ Values({"managementPolicy", "defaultOperator",
       "registrationId"}) @@ Lists({"managementRoles", "sourceIP"}) @@
       One("deviceRules", "DeviceRules") @@ Many("variables", "Variable")

OperatorList == Many("operators", "Operator")

ServiceClass ==
    ObjectInfo @@ Values({"operatorId", "managementPolicy", "cost", "currency",
       "period", "billingCode", "defaultService"}) @@ Many("variables",
       "Variable")

ServiceClassList == Many("serviceClasses", "ServiceClass")

UserInfoDigest == Values({"id", "entity", "children"})

ManagementRole ==
    ObjectInfo @@ Values({"managementPolicy", "entity", "venue"}) @@
       Lists({"users"}) @@ Unsaid({"inUse"})

ProvLocation ==
    ObjectInfo @@ Named("type", "LocationType") @@ Values({"buildingName",
       "city", "state", "postal", "country", "geoCode", "entity",
       "managementPolicy"}) @@ Lists({"addressLines", "phones", "mobiles",
       "inUse"})

OperatorLocation ==
    ObjectInfo @@ Values({"type", "buildingName", "city", "state", "postal",
       "country", "geoCode", "operatorId", "subscriberDeviceId",
       "managementPolicy"}) @@ Lists({"addressLines", "phones", "mobiles"})

SubLocation ==
    Values({"type", "buildingName", "city", "state", "postal", "country",
       "geoCode"}) @@ Lists({"addressLines", "phones", "mobiles"})

OperatorLocationList == Many("locations", "OperatorLocation")

Contact ==
    ObjectInfo @@ Named("type", "ContactType") @@ Values({"title",
       "salutation", "firstname", "lastname", "initials", "visual",
       "primaryEmail", "secondaryEmail", "accessPIN", "entity",
       "managementPolicy"}) @@ Lists({"mobiles", "phones", "inUse"})

OperatorContact ==
    ObjectInfo @@ Values({"type", "title", "salutation", "firstname",
       "lastname", "initials", "visual", "primaryEmail", "secondaryEmail",
       "accessPIN", "operatorId", "subscriberDeviceId", "managementPolicy"}) @@
       Lists({"mobiles", "phones"})

SubContact ==
    Values({"type", "title", "salutation", "firstname", "lastname", "initials",
       "visual", "primaryEmail", "secondaryEmail", "accessPIN"}) @@
       Lists({"mobiles", "phones"})

OperatorContactList == Many("contacts", "OperatorContact")

InventoryTag ==
    ObjectInfo @@ Values({"serialNumber", "venue", "entity", "subscriber",
       "deviceType", "qrCode", "geoCode", "location", "contact",
       "deviceConfiguration", "managementPolicy", "state", "devClass",
       "locale", "realMacAddress", "doNotAllowOverrides", "imported",
       "connected", "platform"}) @@ One("deviceRules", "DeviceRules")

InventoryConfigApplyResult ==
    Values({"appliedConfiguration", "errorCode"}) @@ Lists({"warnings",
       "errors"})

InventoryTagList == Many("taglist", "InventoryTag")

DeviceConfigurationElement ==
    Values({"name", "description", "weight", "configuration"})

DeviceConfiguration ==
    ObjectInfo @@ Values({"managementPolicy", "subscriberOnly", "entity",
       "venue", "subscriber"}) @@ Lists({"deviceTypes", "inUse", "variables"})
       @@ Many("configuration", "DeviceConfigurationElement") @@
       One("deviceRules", "DeviceRules")

ProvReport == WrittenOnly(Values({"snapshot"}) @@ Counts({"devices"}))

ExpandedUseEntry == Values({"uuid", "name", "description"})

ExpandedUseEntryList ==
    Values({"type"}) @@ Many("entries", "ExpandedUseEntry")

ExpandedUseEntryMapList == Many("entries", "ExpandedUseEntryList")

UuidList == Lists({"list"})

ObjectACL ==
    One("users", "UuidList") @@ One("roles", "UuidList") @@ Values({"access"})

ObjectACLList == Many("list", "ObjectACL")

Map ==
    ObjectInfo @@ Values({"data", "entity", "creator", "visibility",
       "managementPolicy", "venue"}) @@ One("access", "ObjectACLList")

SerialNumberList == Lists({"serialNumbers"})

MapList == Many("list", "Map")

SignupEntry ==
    ObjectInfo @@ Values({"email", "userId", "macAddress", "serialNumber",
       "submitted", "completed", "status", "error", "statusCode", "deviceID",
       "registrationId", "operatorId"})

Variable == Values({"type", "weight", "prefix", "value"})

VariableList == Many("variables", "Variable")

VariableBlock ==
    ObjectInfo @@ Many("variables", "Variable") @@ Values({"entity", "venue",
       "subscriber", "inventory", "managementPolicy"}) @@
       Lists({"configurations"})

VariableBlockList == Many("variableBlocks", "VariableBlock")

ConfigurationDetails ==
    Many("configuration", "DeviceConfigurationElement") @@ Values({"rrm",
       "firmwareRCOnly", "firmwareUpgrade"})

ProvSubscriberDevice ==
    ObjectInfo @@ Values({"serialNumber", "deviceType", "operatorId",
       "subscriberId", "managementPolicy", "serviceClass", "qrCode", "geoCode",
       "state", "locale", "billingCode", "suspended", "realMacAddress"}) @@
       One("location", "SubLocation") @@ One("contact", "SubContact") @@
       One("deviceRules", "DeviceRules") @@ Many("configuration",
       "DeviceConfigurationElement")

ProvSubscriberDeviceList == Many("subscriberDevices", "ProvSubscriberDevice")

VenueDeviceList == Values({"id", "name", "description"}) @@ Lists({"devices"})

DeviceRules == Values({"rcOnly", "rrm", "firmwareUpgrade"})

RRMAlgorithmDetails == Values({"name", "parameters"})

RRMDetails ==
    Values({"vendor", "schedule"}) @@ Many("algorithms", "RRMAlgorithmDetails")

ConfigurationOverride ==
    Values({"source", "reason", "parameterName", "parameterType",
       "parameterValue", "modified"})

ConfigurationOverrideList ==
    Values({"serialNumber", "managementPolicy"}) @@ Many("overrides",
       "ConfigurationOverride")

GLBLRAccountInfo ==
    ObjectInfo @@ Values({"privateKey", "country", "province", "city",
       "organization", "commonName", "CSR", "CSRPrivateKey", "CSRPublicKey",
       "GlobalReachAcctId"})

GLBLRCertificateInfo ==
    Values({"id", "name", "accountId", "csr", "certificate",
       "certificateChain", "certificateId", "expiresAt", "created"})

GooglOrionAccountInfo ==
    ObjectInfo @@ Values({"privateKey", "certificate"}) @@ Lists({"cacerts"})

RADIUSServer == Values({"Hostname", "IP", "Port", "Secret"})

RADIUSEndPointRadiusType ==
    Many("Authentication", "RADIUSServer") @@ Many("Accounting",
       "RADIUSServer") @@ Many("CoA", "RADIUSServer") @@
       Values({"AccountingInterval"})

RADIUSEndPointRadsecType ==
    Values({"Hostname", "IP", "Port", "Secret", "OpenRoamingType",
       "UseOpenRoamingAccount", "Weight", "Certificate", "PrivateKey",
       "AllowSelfSigned"}) @@ Lists({"CaCerts"})

RADIUSEndPoint ==
    ObjectInfo @@ Values({"Type", "PoolStrategy", "Index", "UseGWProxy",
       "NasIdentifier", "AccountingInterval"}) @@ Many("RadsecServers",
       "RADIUSEndPointRadsecType") @@ Many("RadiusServers",
       "RADIUSEndPointRadiusType") @@ Lists({"UsedBy"})

RADIUSEndpointUpdateStatus ==
    Values({"lastUpdate", "lastConfigurationChange"})

\* The types of this module, by name.
ProvTypes ==
    [ ObjectInfo |-> ObjectInfo,
      ManagementPolicyEntry |-> ManagementPolicyEntry,
      ManagementPolicy |-> ManagementPolicy, Entity |-> Entity,
      DiGraphEntry |-> DiGraphEntry, Venue |-> Venue, Operator |-> Operator,
      OperatorList |-> OperatorList, ServiceClass |-> ServiceClass,
      ServiceClassList |-> ServiceClassList,
      UserInfoDigest |-> UserInfoDigest, ManagementRole |-> ManagementRole,
      ProvLocation |-> ProvLocation, OperatorLocation |-> OperatorLocation,
      SubLocation |-> SubLocation,
      OperatorLocationList |-> OperatorLocationList, Contact |-> Contact,
      OperatorContact |-> OperatorContact, SubContact |-> SubContact,
      OperatorContactList |-> OperatorContactList,
      InventoryTag |-> InventoryTag,
      InventoryConfigApplyResult |-> InventoryConfigApplyResult,
      InventoryTagList |-> InventoryTagList,
      DeviceConfigurationElement |-> DeviceConfigurationElement,
      DeviceConfiguration |-> DeviceConfiguration, ProvReport |-> ProvReport,
      ExpandedUseEntry |-> ExpandedUseEntry,
      ExpandedUseEntryList |-> ExpandedUseEntryList,
      ExpandedUseEntryMapList |-> ExpandedUseEntryMapList,
      UuidList |-> UuidList, ObjectACL |-> ObjectACL,
      ObjectACLList |-> ObjectACLList, Map |-> Map,
      SerialNumberList |-> SerialNumberList, MapList |-> MapList,
      SignupEntry |-> SignupEntry, Variable |-> Variable,
      VariableList |-> VariableList, VariableBlock |-> VariableBlock,
      VariableBlockList |-> VariableBlockList,
      ConfigurationDetails |-> ConfigurationDetails,
      ProvSubscriberDevice |-> ProvSubscriberDevice,
      ProvSubscriberDeviceList |-> ProvSubscriberDeviceList,
      VenueDeviceList |-> VenueDeviceList, DeviceRules |-> DeviceRules,
      RRMAlgorithmDetails |-> RRMAlgorithmDetails, RRMDetails |-> RRMDetails,
      ConfigurationOverride |-> ConfigurationOverride,
      ConfigurationOverrideList |-> ConfigurationOverrideList,
      GLBLRAccountInfo |-> GLBLRAccountInfo,
      GLBLRCertificateInfo |-> GLBLRCertificateInfo,
      GooglOrionAccountInfo |-> GooglOrionAccountInfo,
      RADIUSServer |-> RADIUSServer,
      RADIUSEndPointRadiusType |-> RADIUSEndPointRadiusType,
      RADIUSEndPointRadsecType |-> RADIUSEndPointRadsecType,
      RADIUSEndPoint |-> RADIUSEndPoint,
      RADIUSEndpointUpdateStatus |-> RADIUSEndpointUpdateStatus ]
==============================================================================
