---------------------------- MODULE MCReconciler ----------------------------
(***************************************************************************)
(* Instances of Reconciler for TLC.  The kinds are all that occur in the   *)
(* client: two fields of one resource, its delete, and what of it is       *)
(* acknowledged early.  They are checked with a client built as it comes,  *)
(* at a server that answers a duplicate with 409; where there is one field *)
(* and one worker, at all servers, with all failures, and with all lists   *)
(* of up to MaxOptions options.                                            *)
(***************************************************************************)
EXTENDS Reconciler

CONSTANTS MaxOptions, Limited, Unbounded

\* The fields two workers may manage, or the only field of a resource.
Pairs(fields) ==
    {p \in fields \X (fields \union {"none"}) : p[1] # p[2] /\ (p[2] = "none" <=> fields = {p[1]})}

KindsOf(resource) ==
    LET class(f) == IF f = "none" THEN "none" ELSE resource.send[f]
    IN {[send |-> (Owner :> class(p[1]) @@ Other :> class(p[2])),
         delete |-> resource.delete, acked |-> resource.acked] : p \in Pairs(DOMAIN resource.send)}

\* Every resource of the client.
MCResources ==
    {ProjectResource, ProjectFieldResource, ProjectTimeTracking, CustomFieldResource,
     IssueLinkTypeResource, AssignedRoleResource, UserResource, UserBan, GroupResource,
     BundleResource, EnumValueReplacement, StateValueReplacement, OwnedValueReplacement,
     StateValueUpdate, WorkItemTypeResource, SystemSettingsResource, MailServerResource,
     AppGlobalConfigResource, AppVisibility, RoleResource, ServiceResource,
     OAuth2AuthModuleResource, AzureAuthModuleResource}

MCKinds == UNION {KindsOf(r) : r \in MCResources}

MCValues == {Empty, "set"}

MCOptions ==
    {WithHTTPClient(h) : h \in GivenClients \union {NoClient}}
        \union {WithTimeout(t) : t \in 0..1} \union {WithLabel}

\* One http.Client without a limit, one with.
MCGivenTimeouts == Limited :> 1 @@ Unbounded :> Unlimited

\* Refusals for good, one of which is a 5xx, and each status that may clear, with
\* delays that a Duration can hold, and some that come out negative or short.
MCFailures ==
    {[status |-> s, header |-> NoHeader] :
        s \in {StatusForbidden, StatusConflict, StatusInternalServerError,
               StatusNotImplemented, StatusBadGateway, StatusGatewayTimeout}}
        \union {[status |-> StatusTooManyRequests, header |-> Header("seconds", n)] : n \in {0, 3, 20, 30}}
        \union {[status |-> StatusServiceUnavailable, header |-> h] :
                    h \in {Header("date", 5), Header("date", 300), Header("junk", 0)}}

Refusals(statuses) == {f \in MCFailures : f.status \in statuses}

MCSoloKinds == {k \in MCKinds : k.send[Other] = "none"}

MCCases ==
    [kind : MCKinds, duplicate : {"conflict"}, opts : {<<>>},
     failures : {Refusals({StatusForbidden, StatusConflict, StatusServiceUnavailable})}]
        \union [kind : MCSoloKinds, duplicate : Duplicates, opts : {<<>>}, failures : {MCFailures}]
        \union [kind : MCSoloKinds, duplicate : {"conflict"},
                opts : BoundedSeq(MCOptions, MaxOptions),
                failures : {Refusals({StatusForbidden, StatusServiceUnavailable})}]

\* Enough for one worker to meet each failure.
MCFewCases ==
    [kind : MCSoloKinds, duplicate : {"conflict"}, opts : {<<>>}, failures : {MCFailures}]
=============================================================================
