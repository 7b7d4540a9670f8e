------------------------------- MODULE Resources -------------------------------
(***************************************************************************)
(* The resources a caller reconciles with one request per operation, as    *)
(* what their update payloads put on the wire, what their deletes make of  *)
(* an entity that is gone, and what is acknowledged before it is applied.  *)
(* A field of a payload is one of                                          *)
(*   "always"    sent whatever it holds                                    *)
(*   "nonempty"  tagged omitempty: dropped when it is empty                *)
(*   "pointer"   a pointer to a plain value tagged omitempty: dropped when *)
(*               it is nil, so that it can point to an empty value         *)
(* A reference tagged omitempty, a pointer to a struct, is "nonempty": nil *)
(* is what it holds when it is empty, and nil is dropped.                  *)
(* A delete is "absentOk" when a 404 counts as deleted, "absentFails" when *)
(* it is returned, "none" when the entity is there once and for all.  The  *)
(* methods in acked wait for what was acknowledged to be applied, but for  *)
(* a while only, and succeed then (ReadBack, AsyncDelete).                 *)
(*                                                                         *)
(* Left out are fields nobody reads back as they were written (a password, *)
(* the settings document of an app, where secrets come back masked and     *)
(* references expanded), fields the server fills in or lets nobody update, *)
(* and the endpoints of apps, whose handlers may refuse what they report.  *)
(* A bundle's values are reconciled one by one.                            *)
(***************************************************************************)
EXTENDS Naturals

Always(fields)     == [f \in fields |-> "always"]
NonEmpty(fields)   == [f \in fields |-> "nonempty"]
Pointers(fields)   == [f \in fields |-> "pointer"]
References(fields) == NonEmpty(fields)

\* f and g have no field in common.
f ++ g == [x \in DOMAIN f \union DOMAIN g |-> IF x \in DOMAIN f THEN f[x] ELSE g[x]]

AsyncResource(send, delete, acked) == [send |-> send, delete |-> delete, acked |-> acked]
Resource(send, delete)             == AsyncResource(send, delete, {})

ProjectResource ==
    Resource(NonEmpty({"name", "description", "fromEmail", "replyToEmail"})
                 ++ References({"leader"}) ++ Pointers({"archived"}), "absentOk")

ProjectFieldResource ==
    Resource(NonEmpty({"defaultValues", "emptyFieldText", "$type"})
                 ++ References({"field", "bundle"}) ++ Pointers({"canBeEmpty", "isPublic"}),
             "absentOk")

ProjectTimeTracking ==
    Resource(Always({"enabled"}) ++ References({"estimate", "timeSpent"}), "none")

CustomFieldResource ==
    Resource(NonEmpty({"name"}) ++ References({"fieldType", "fieldDefaults"})
                 ++ Pointers({"localizedName", "aliases", "isAutoAttached",
                              "isDisplayedInIssueList"}), "absentOk")

IssueLinkTypeResource ==
    Resource(NonEmpty({"name", "sourceToTarget", "targetToSource", "directed", "aggregation",
                       "localizedName", "localizedSourceToTarget", "localizedTargetToSource"}),
             "absentOk")

\* Role, scope and holder are structs, sent in any case: an assignment is written
\* as a whole, and is the one or the other.
AssignedRoleResource == Resource(Always({"assignment"}), "absentOk")

\* The guest account, looked up first to succeed the user, is always there.
UserResource ==
    AsyncResource(NonEmpty({"login", "fullName", "email", "banned"}), "absentOk", {"delete"})

\* The one flag SetUserBanned, BanUser and UnbanUser write.
UserBan == AsyncResource(Always({"banned"}), "absentOk", {"delete"})

GroupResource ==
    Resource(NonEmpty({"name", "description", "autoJoin", "autoJoinDomain", "icon", "subGroups",
                       "requireTwoFactorAuthentication", "viewers", "updaters", "ownUsers", "users"})
                 ++ References({"parentGroup"}), "absentFails")

BundleResource == Resource(NonEmpty({"name"}), "absentOk")

EnumValueReplacement ==
    AsyncResource(Always({"name", "localizedName", "description", "archived"})
                 ++ Pointers({"ordinal"}), "absentOk", {"delete"})

StateValueReplacement ==
    AsyncResource(Always({"name", "localizedName", "description", "archived", "isResolved"})
                 ++ Pointers({"ordinal"}), "absentOk", {"delete"})

OwnedValueReplacement ==
    AsyncResource(Always({"name", "description", "archived", "owner"})
                 ++ Pointers({"ordinal"}), "absentOk", {"delete"})

\* UpdateStateBundleValue sends the value as it is read.
StateValueUpdate ==
    AsyncResource(NonEmpty({"name", "localizedName", "description", "isResolved", "archived",
                            "ordinal"}), "absentOk", {"delete"})

WorkItemTypeResource == Resource(Always({"name", "autoAttached"}), "absentOk")

SystemSettingsResource ==
    Resource(Always({"administratorEmail", "maxExportItems", "maxUploadFileSize",
                     "allowStatisticsCollection", "isApplicationReadOnly", "baseUrl"}), "none")

MailServerResource ==
    Resource(Always({"isEnabled", "mailProtocol", "host", "port", "anonymous", "login", "from",
                     "replyTo"}), "none")

AppGlobalConfigResource == Resource(Pointers({"enabled"}), "none")

AppVisibility == Resource(Always({"permittedGroups", "permittedUsers"}), "none")

RoleResource ==
    AsyncResource(NonEmpty({"name", "description", "permissions"}), "absentOk", {"update"})

ServiceResource ==
    AsyncResource(NonEmpty({"name"})
                      ++ Always({"homeUrl", "description", "redirectUris", "baseUrls", "trusted",
                                 "consentRequired", "clientCredentialsFlowEnabled",
                                 "authCodeFlowEnabled", "pkceRequired", "implicitFlowEnabled",
                                 "resourceOwnerFlowEnabled"}), "absentOk", {"update"})

OAuth2AuthModuleResource ==
    AsyncResource(NonEmpty({"name", "clientId", "serverUrl", "tokenUrl", "userIdPath",
                            "syncInterval"})
                      ++ Always({"disabled", "redirectUri", "iconUrl", "extensionGrantType",
                                 "connectionTimeout", "readTimeout", "backgroundSyncEnabled",
                                 "allowedCreateNewUsers", "scope", "formClientAuth", "userInfoUrl",
                                 "idpLogoutUrl", "userEmailUrl", "userAvatarUrl", "userEmailPath",
                                 "userEmailVerifiedPath", "userNamePath", "fullNamePath",
                                 "userPictureIdPath", "userPictureUrlPattern",
                                 "emailVerifiedByDefault", "userGroupsPath", "default"}),
                  "absentFails", {"update"})

AzureAuthModuleResource ==
    AsyncResource(NonEmpty({"name", "clientId", "syncInterval"})
                      ++ Always({"disabled", "redirectUri", "iconUrl", "extensionGrantType",
                                 "connectionTimeout", "readTimeout", "backgroundSyncEnabled",
                                 "allowedCreateNewUsers", "tenant", "requestGroupPermission",
                                 "requestIdToken", "default"}), "absentFails", {"update"})

(***************************************************************************)
(* What json.Marshal makes of a field.  Unset is a nil pointer, or a value *)
(* the caller never touched, Empty a value that is empty, such as a        *)
(* reference to nothing.                                                   *)
(***************************************************************************)
Empty == "empty"
Unset == "unset"

\* Mutation: every field is tagged omitempty.
SentUnlessEmpty(class, value) == value \notin {Empty, Unset}

\* Mutation: no field is tagged omitempty.
SentAlways(class, value) == TRUE

Sent(class, value) ==
    CASE class = "always"   -> TRUE
      [] class = "nonempty" -> value \notin {Empty, Unset}
      [] class = "pointer"  -> value # Unset

\* A field that is sent without having been set carries its zero value.
OnTheWire(value) == IF value = Unset THEN Empty ELSE value

\* Whether the payload can carry the value at all: omitempty loses an empty one.
Expressible(class, value) == class # "nonempty" \/ value # Empty
=============================================================================
