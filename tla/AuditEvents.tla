----------------------------- MODULE AuditEvents -----------------------------
(***************************************************************************)
(* The audit log and the webhooks that are told of it (audit.ts,           *)
(* webhooks.ts): endpoints, their deliveries, and the HTTP call of each    *)
(* delivery, which is made once, right after its row is inserted, and may  *)
(* end long after its endpoint was changed or deleted.                     *)
(*                                                                         *)
(* An endpoint is named by the log entry of its creation, a delivery by    *)
(* its endpoint and its entry.  URLs, secrets and payloads are left out.   *)
(***************************************************************************)
EXTENDS Naturals, Sequences, FiniteSets

CONSTANTS
    LocalOrgs,      \* orgs with a row in the SQLite database
    NoOrg,          \* "-", the org of a request without a valid token
    Events          \* actions an endpoint may name

VARIABLES
    audit,        \* the log
    endpoints,    \* webhook_endpoints, by id
    deliveries,   \* webhook_deliveries, by endpoint and entry
    calls,        \* HTTP calls on their way
    lost          \* auxiliary: calls that a restart cut off

eventVars == <<audit, endpoints, deliveries, calls, lost>>

Statuses == {"pending", "delivered", "failed"}

EventsInit ==
    /\ audit = <<>> /\ endpoints = <<>> /\ deliveries = <<>>
    /\ calls = {} /\ lost = {}

\* A bug to catch: the org of the endpoint is not asked for.
SubscribedAnywhere(endpoint, entry) ==
    /\ entry.org # NoOrg
    /\ endpoint.enabled
    /\ endpoint.events \cap {"*", entry.action} # {}

\* queueWebhookEvent: the enabled endpoints of the org that named the action.
Subscribed(endpoint, entry) ==
    /\ entry.org # NoOrg
    /\ endpoint.org = entry.org
    /\ endpoint.enabled
    /\ endpoint.events \cap {"*", entry.action} # {}

\* recordAudit, when the handler has left the endpoints and deliveries as
\* given: the entry is logged, and a delivery is inserted and sent to every
\* endpoint that subscribed.
RecordAudit(entry, rows, sent) ==
    LET n == Len(audit) + 1
        new == {<<w, n>> : w \in {v \in DOMAIN rows : Subscribed(rows[v], entry)}}
    IN  /\ audit' = Append(audit, entry)
        /\ endpoints' = rows
        /\ deliveries' = [d \in DOMAIN sent \cup new |->
                             IF d \in new THEN "pending" ELSE sent[d]]
        /\ calls' = calls \cup new
        /\ UNCHANGED lost

-----------------------------------------------------------------------------
(***************************************************************************)
(* The endpoints                                                           *)
(***************************************************************************)

\* normalizeEvents: every event is known, none twice, at least one.
ValidEvents(events) == events # {} /\ events \subseteq Events \cup {"*"}

\* createWebhook.  With PostgreSQL accounts the org has no row in SQLite, and
\* the foreign key refuses the endpoint.
Created(org, events) ==
    [v \in DOMAIN endpoints \cup {Len(audit) + 1} |->
        IF v = Len(audit) + 1
        THEN [org |-> org, events |-> events, enabled |-> TRUE]
        ELSE endpoints[v]]

\* getWebhook
Has(org, w) == w \in DOMAIN endpoints /\ endpoints[w].org = org

\* recentAudit, listWebhooks, listWebhookDeliveries, each as log entries.  (The
\* model's logs are shorter than the limits on how many are shown.)
RecentAudit(org) == {n \in DOMAIN audit : audit[n].org = org}
Webhooks(org) == {w \in DOMAIN endpoints : endpoints[w].org = org}
Deliveries(w) == {d[2] : d \in {e \in DOMAIN deliveries : e[1] = w}}

\* updateWebhook writes every column: those the patch names, and the others as
\* they were when the row was read.
Patched(row, patch) ==
    [row EXCEPT !.events = IF patch.events = {} THEN @ ELSE patch.events,
                !.enabled = IF patch.enabled = "unset" THEN @ ELSE patch.enabled = "on"]

\* deleteWebhook, and the deliveries the foreign key deletes with it.
EndpointsWithout(w) == [v \in DOMAIN endpoints \ {w} |-> endpoints[v]]
DeliveriesWithout(w) ==
    [d \in {e \in DOMAIN deliveries : e[1] # w} |-> deliveries[d]]

-----------------------------------------------------------------------------
(***************************************************************************)
(* The calls                                                               *)
(***************************************************************************)

\* A bug to catch: the row is written whether it is still there or not.
RecordedAnyway(d, status) ==
    deliveries' = [e \in DOMAIN deliveries \cup {d} |-> IF e = d THEN status ELSE deliveries[e]]

\* A bug to catch: only what an enabled endpoint answers is written down.
RecordedEnabled(d, status) ==
    deliveries' = [e \in DOMAIN deliveries |->
                      IF e = d /\ endpoints[d[1]].enabled THEN status ELSE deliveries[e]]

\* What deliver writes when the call has ended, where the row still is.  (The
\* last status of the endpoint is left out.)
Record(d, status) ==
    deliveries' = [e \in DOMAIN deliveries |-> IF e = d THEN status ELSE deliveries[e]]

\* deliver ends: with a 2xx; or with another status, a refusal, a redirect or,
\* after ten seconds, the timeout.
Settle(d) ==
    /\ d \in calls
    /\ \E status \in Statuses \ {"pending"} : Record(d, status)
    /\ calls' = calls \ {d}
    /\ UNCHANGED <<audit, endpoints, lost>>

\* A restart: calls are cut off, nobody resumes a pending delivery.
CutOff ==
    /\ calls' = {} /\ lost' = lost \cup calls
    /\ UNCHANGED <<audit, endpoints, deliveries>>

=============================================================================
