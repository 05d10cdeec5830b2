---------------------------- MODULE WebhookServer ----------------------------
(***************************************************************************)
(* Requests and what the server tells of them (http.ts): the auth hook     *)
(* warns of unregistered sources; handlers end with an audit entry; admins *)
(* manage their org's webhooks while deliveries are on their way; admins   *)
(* come and go, services are registered, the process restarts.             *)
(***************************************************************************)
EXTENDS AuditEvents, SourceRegistry

CONSTANTS
    RequestIds,
    Tokens,        \* the tokens in use: user, org, service, or an invalid one
    NoUser,        \* the user of an invalid token
    Places,        \* where service tokens are used from: <<ip, region header>>
    SourceSets,    \* what services register
    Admins,        \* members of orgs at the start: <<user, org>>
    EventSets,     \* events that webhooks are created with
    Patches,       \* bodies of PATCH /v1/webhooks/:id
    Actions,       \* what file and runtime routes log
    Routes,        \* what requests ask for
    ServiceRoutes, \* what requests with service tokens ask for, of these
    MaxOutside     \* bound: registrations, departures and restarts together

ASSUME RoutesAssumption ==
    /\ RequestIds \subseteq Nat
    /\ Routes \subseteq {"serve", "create", "patch", "delete", "list", "deliveries", "log"}

VARIABLES
    req,           \* the requests that have arrived
    admins,        \* org_memberships
    outside        \* how often something happened besides the requests

vars == <<eventVars, services, req, admins, outside>>

serverVars == <<admins, outside, services>>

Entry(r, org, action) == [org |-> org, action |-> action, req |-> r]

AnswerWith(r, outcome) ==
    req' = [req EXCEPT ![r].phase = "answered", ![r].outcome = outcome]

Answered(r) == r \in DOMAIN req /\ req[r].phase \in {"answered", "lost"}

At(r, phase, kinds) == r \in DOMAIN req /\ req[r].phase = phase /\ req[r].kind \in kinds

\* audit: the entry of a handler that leaves the webhooks as they are.
Audit(r, org, action) == RecordAudit(Entry(r, org, action), endpoints, deliveries)

\* The auth hook.  An invalid token is logged and answered; a token used from
\* a source its service did not register is logged, and served.  The row keeps
\* where the request came from and what was registered then.
Arrive(r, token, kind, arg, ip, region) ==
    LET valid == token.user # NoUser
    IN  /\ r = Cardinality(DOMAIN req) + 1
        /\ req' = [s \in DOMAIN req \cup {r} |-> IF s # r THEN req[s] ELSE
                      [kind |-> kind, arg |-> arg, token |-> token,
                       ip |-> ip, region |-> region,
                       registered |-> SourcesOf(token.org, token.service),
                       outcome |-> IF valid THEN "pending" ELSE "unauthorized", shown |-> {},
                       phase |-> IF ~valid THEN "answered"
                                 ELSE IF kind = "serve" THEN "apply" ELSE "admin"]]
        /\ IF ~valid THEN Audit(r, NoOrg, "auth_fail")
           ELSE IF SourceWarning(token.org, token.service, ip, region)
           THEN Audit(r, token.org, "warning")
           ELSE UNCHANGED eventVars
        /\ UNCHANGED serverVars

\* A file or runtime route that ends with its entry; which action it logs is
\* decided by what it finds.
Serve(r) ==
    /\ At(r, "apply", {"serve"})
    /\ \E action \in Actions : Audit(r, req[r].token.org, action)
    /\ AnswerWith(r, "ok")
    /\ UNCHANGED serverVars

\* The log is asked for by org, the webhooks are those of the token's org.
AskedOrg(r) == IF req[r].kind = "log" THEN req[r].arg.org ELSE req[r].token.org

\* requireOrgAdmin, awaited before the webhook routes do anything.
RequireOrgAdmin(r) ==
    /\ At(r, "admin", {"create", "patch", "delete", "list", "deliveries", "log"})
    /\ IF <<req[r].token.user, AskedOrg(r)>> \in admins
       THEN req' = [req EXCEPT ![r].phase = "apply"]
       ELSE AnswerWith(r, "forbidden")
    /\ UNCHANGED <<serverVars, eventVars>>

\* POST /v1/webhooks: a new endpoint may be told of its own creation.
PostWebhook(r) ==
    LET org == req[r].token.org
        events == req[r].arg.events
    IN  /\ At(r, "apply", {"create"})
        /\ IF ~ValidEvents(events) THEN AnswerWith(r, "invalid") /\ UNCHANGED eventVars
           ELSE IF org \notin LocalOrgs THEN AnswerWith(r, "failed") /\ UNCHANGED eventVars
           ELSE /\ RecordAudit(Entry(r, org, "webhook"), Created(org, events), deliveries)
                /\ AnswerWith(r, "ok")
        /\ UNCHANGED serverVars

\* PATCH /v1/webhooks/:id
PatchWebhook(r) ==
    LET org == req[r].token.org
        w == req[r].arg.id
        patch == req[r].arg.patch
    IN  /\ At(r, "apply", {"patch"})
        /\ IF ~Has(org, w) THEN AnswerWith(r, "missing") /\ UNCHANGED eventVars
           ELSE IF patch.events # {} /\ ~ValidEvents(patch.events)
           THEN AnswerWith(r, "invalid") /\ UNCHANGED eventVars
           ELSE /\ RecordAudit(Entry(r, org, "webhook"),
                               [endpoints EXCEPT ![w] = Patched(@, patch)], deliveries)
                /\ AnswerWith(r, "ok")
        /\ UNCHANGED serverVars

\* DELETE /v1/webhooks/:id: its own end is told to the others only.
DeleteWebhook(r) ==
    LET org == req[r].token.org
        w == req[r].arg.id
    IN  /\ At(r, "apply", {"delete"})
        /\ IF ~Has(org, w) THEN AnswerWith(r, "missing") /\ UNCHANGED eventVars
           ELSE /\ RecordAudit(Entry(r, org, "webhook"), EndpointsWithout(w),
                               DeliveriesWithout(w))
                /\ AnswerWith(r, "ok")
        /\ UNCHANGED serverVars

Show(r, found) ==
    /\ req' = [req EXCEPT ![r].phase = "answered", ![r].outcome = "ok", ![r].shown = found]
    /\ UNCHANGED <<serverVars, eventVars>>

\* GET /v1/webhooks, GET /v1/webhooks/:id/deliveries, GET /v1/audit/:org
GetWebhooks(r) == At(r, "apply", {"list"}) /\ Show(r, Webhooks(AskedOrg(r)))

GetDeliveries(r) ==
    /\ At(r, "apply", {"deliveries"})
    /\ IF Has(AskedOrg(r), req[r].arg.id) THEN Show(r, Deliveries(req[r].arg.id))
       ELSE AnswerWith(r, "missing") /\ UNCHANGED <<serverVars, eventVars>>

GetAudit(r) == At(r, "apply", {"log"}) /\ Show(r, RecentAudit(AskedOrg(r)))

-----------------------------------------------------------------------------

Outside == outside < MaxOutside /\ outside' = outside + 1

\* The operator's "service upsert".
Register ==
    /\ Outside
    /\ \E token \in Tokens, sources \in SourceSets :
          token.service # NoService /\ UpsertService(token.org, token.service, sources)
    /\ UNCHANGED <<eventVars, req, admins>>

\* revokeGrant on an org, by whichever way.
AdminLeaves ==
    /\ Outside
    /\ \E admin \in admins : admins' = admins \ {admin}
    /\ UNCHANGED <<eventVars, req, services>>

Restart ==
    /\ Outside
    /\ CutOff
    /\ req' = [r \in DOMAIN req |-> IF Answered(r) THEN req[r] ELSE [req[r] EXCEPT !.phase = "lost"]]
    /\ UNCHANGED <<admins, services>>

Init ==
    /\ EventsInit /\ services = <<>>
    /\ req = <<>> /\ admins = Admins /\ outside = 0

NoArg == [events |-> {}]

Begin(r) ==
    \E token \in Tokens, kind \in Routes :
        \E arg \in CASE kind \in {"serve", "list"} -> {NoArg}
                     [] kind = "log" -> {[org |-> org] : org \in LocalOrgs}
                     [] kind = "create" -> {[events |-> e] : e \in EventSets}
                     [] kind \in {"delete", "deliveries"} -> {[id |-> w] : w \in DOMAIN endpoints}
                     [] kind = "patch" -> {[id |-> w, patch |-> p] : w \in DOMAIN endpoints, p \in Patches} :
           \/ token.service = NoService /\ Arrive(r, token, kind, arg, 0, NoText)
           \/ /\ token.service # NoService /\ kind \in ServiceRoutes
              /\ \E place \in Places : Arrive(r, token, kind, arg, place[1], place[2])

Progress(r) ==
    \/ Serve(r) \/ RequireOrgAdmin(r)
    \/ PostWebhook(r) \/ PatchWebhook(r) \/ DeleteWebhook(r)
    \/ GetWebhooks(r) \/ GetDeliveries(r) \/ GetAudit(r)

CallEnds == \E d \in calls : Settle(d) /\ UNCHANGED <<serverVars, req>>

Next ==
    \/ \E r \in RequestIds : Begin(r) \/ Progress(r)
    \/ CallEnds
    \/ Register \/ AdminLeaves \/ Restart

Spec == Init /\ [][Next]_vars

\* Every call ends: with its answer, or ten seconds after it began.
FairSpec == Spec /\ WF_vars(CallEnds)

-----------------------------------------------------------------------------

\* No org hears of another: every delivery, and every call on its way, carries
\* an entry of its endpoint's own org, whatever happened to the endpoint since;
\* and what an admin is shown of webhooks, deliveries and the log is of the org
\* asked for, whose admin that was at the start.
NothingAcrossOrgs ==
    /\ \A d \in calls \cup DOMAIN deliveries : audit[d[1]].org = audit[d[2]].org
    /\ \A r \in DOMAIN req : \A n \in req[r].shown :
          audit[n].org = AskedOrg(r) /\ <<req[r].token.user, AskedOrg(r)>> \in Admins

\* The sources that a source stands for, said without bits: a block is the
\* interval of addresses that share its leading bits, a region covers the
\* header that names it, and every source the header that repeats it.
AddressesOf(source) ==
    IF source.kind = "address" THEN {source.address}
    ELSE IF source.kind = "block" /\ source.bits <= AddressBits
    THEN LET size == 2 ^ (AddressBits - source.bits)
             first == source.address - (source.address % size)
         IN  first .. first + size - 1
    ELSE {}

Registered(sources, ip, region) ==
    \/ \E source \in sources : ip \in AddressesOf(source)
    \/ region # NoText /\ (region \in sources \/ RegionOf(region) \in sources)

\* Warnings are true and complete: a request is warned of exactly when its
\* service had registered sources at the time and none of them stands for
\* where it came from; and no other entry of such a request, through however
\* many handlers, restarts and registrations, is in the log before the warning.
WarningsAreTrue ==
    \A n \in DOMAIN audit :
        LET row == req[audit[n].req]
            foreign == /\ row.registered # {}
                       /\ ~Registered(row.registered, row.ip, row.region)
        IN  /\ audit[n].action = "warning" => foreign
            /\ foreign => \E m \in 1 .. n : /\ audit[m].req = audit[n].req
                                            /\ audit[m].action = "warning"

\* A deleted endpoint leaves no delivery behind, also when a call that was on
\* its way at the time ends later.
DeletedLeavesNothing == \A d \in DOMAIN deliveries : d[1] \in DOMAIN endpoints

\* When no more requests come, every delivery is settled in the end, except
\* those whose calls a restart cut off: nothing else leaves one pending.
DeliveriesSettle ==
    <>[](\A d \in DOMAIN deliveries : deliveries[d] = "pending" => d \in lost)

=============================================================================
