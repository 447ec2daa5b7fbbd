--------------------------- MODULE SecurityObjects ---------------------------
(***************************************************************************)
(* The objects of RESTAPI_SecurityObjects: users, tokens, API keys, notes. *)
(* The gateway receives users and tokens from the security service.        *)
(***************************************************************************)
EXTENDS JsonFields

(* RESTAPI_SecurityObjects *)

AclTemplate ==
    Values({"Read", "ReadWrite", "ReadWriteCreate", "Delete", "PortalLogin"})

WebToken ==
    Values({"access_token", "refresh_token", "token_type", "expires_in",
       "idle_timeout", "created", "username", "userMustChangePassword",
       "lastRefresh"}) @@ One("aclTemplate", "AclTemplate") @@
       WrittenOnly(Values({"errorCode"})) @@ Unsaid({"id_token_"})

MobilePhoneNumber == Values({"number", "verified", "primary"})

MfaAuthInfo == Values({"enabled", "method"})

UserLoginLoginExtensions ==
    Many("mobiles", "MobilePhoneNumber") @@ One("mfa", "MfaAuthInfo") @@
       Values({"authenticatorSecret"})

MFAChallengeRequest == Values({"uuid", "question", "created", "method"})

MFAChallengeResponse == Values({"uuid", "answer"})

UserInfo ==
    Values({"id", "name", "description", "avatar", "email", "validated",
       "validationEmail", "validationDate", "creationDate", "validationURI",
       "changePassword", "lastLogin", "currentLoginURI", "lastPasswordChange",
       "lastEmailCheck", "waitingForEmailCheck", "locale", "location", "owner",
       "suspended", "blackListed", "securityPolicy", "securityPolicyChange",
       "currentPassword", "oauthType", "oauthUserInfo", "modified",
       "signingUp"}) @@ Many("notes", "NoteInfo") @@ Named("userRole",
       "USER_ROLE") @@ One("userTypeProprietaryInfo",
       "UserLoginLoginExtensions") @@ Lists({"lastPasswords"})

UserInfoList == Many("users", "UserInfo")

InternalServiceInfo == Values({"privateURI", "publicURI", "token"})

InternalSystemServices ==
    Values({"key", "version"}) @@ Many("services", "InternalServiceInfo")

SystemEndpoint ==
    Values({"type", "id", "vendor", "uri", "authenticationType"})

SystemEndpointList == Many("endpoints", "SystemEndpoint")

UserInfoAndPolicy ==
    One("tokenInfo", "WebToken") @@ One("userInfo", "UserInfo")

NoteInfo == Values({"created", "createdBy", "note"})

ProfileAction == Values({"resource"}) @@ Named("access", "ResourceAccessType")

SecurityProfile ==
    Values({"id", "name", "description", "role"}) @@ Many("policy",
       "ProfileAction") @@ Many("notes", "NoteInfo")

SecurityProfileList == Many("profiles", "SecurityProfile")

ActionLink ==
    Values({"id", "action", "userId", "actionTemplate", "locale", "message",
       "sent", "created", "expires", "completed", "canceled", "userAction"}) @@
       Pairs({"variables"})

Preferences == Values({"id", "modified"}) @@ Pairs({"data"})

SubMfaConfig == Values({"id", "type", "sms", "email"})

Token ==
    Values({"token", "refreshToken", "tokenType", "userName", "created",
       "expires", "idleTimeout", "revocationDate", "lastRefresh"})

LoginRecordInfo ==
    WrittenOnly(Values({"sessionId", "userId", "email", "login", "logout"}))

ApiKeyAccessRight == Values({"service", "access"})

ApiKeyAccessRightList == Many("acls", "ApiKeyAccessRight")

ApiKeyEntry ==
    Values({"id", "userUuid", "name", "apiKey", "salt", "description",
       "expiresOn", "lastUse"}) @@ One("rights", "ApiKeyAccessRightList") @@
       Unsaid({"created"})

ApiKeyEntryList == Many("apiKeys", "ApiKeyEntry")

ExtraSystemConfiguration == Values({"parameterName", "parameterValue"})

\* The types of this module, by name.
SecurityTypes ==
    [ AclTemplate |-> AclTemplate, WebToken |-> WebToken,
      MobilePhoneNumber |-> MobilePhoneNumber, MfaAuthInfo |-> MfaAuthInfo,
      UserLoginLoginExtensions |-> UserLoginLoginExtensions,
      MFAChallengeRequest |-> MFAChallengeRequest,
      MFAChallengeResponse |-> MFAChallengeResponse, UserInfo |-> UserInfo,
      UserInfoList |-> UserInfoList,
      InternalServiceInfo |-> InternalServiceInfo,
      InternalSystemServices |-> InternalSystemServices,
      SystemEndpoint |-> SystemEndpoint,
      SystemEndpointList |-> SystemEndpointList,
      UserInfoAndPolicy |-> UserInfoAndPolicy, NoteInfo |-> NoteInfo,
      ProfileAction |-> ProfileAction, SecurityProfile |-> SecurityProfile,
      SecurityProfileList |-> SecurityProfileList, ActionLink |-> ActionLink,
      Preferences |-> Preferences, SubMfaConfig |-> SubMfaConfig,
      Token |-> Token, LoginRecordInfo |-> LoginRecordInfo,
      ApiKeyAccessRight |-> ApiKeyAccessRight,
      ApiKeyAccessRightList |-> ApiKeyAccessRightList,
      ApiKeyEntry |-> ApiKeyEntry, ApiKeyEntryList |-> ApiKeyEntryList,
      ExtraSystemConfiguration |-> ExtraSystemConfiguration ]
==============================================================================
