------------------------- MODULE WebhookServer_proofs -------------------------
(***************************************************************************)
(* Theorems about WebhookServer, for any numbers of requests, tokens, orgs *)
(* and endpoints: orgs hear nothing of one another, and a deleted endpoint *)
(* leaves no delivery behind.                                              *)
(***************************************************************************)
EXTENDS WebhookServer, Integers, FiniteSetTheorems, TLAPS

(***************************************************************************)
(* The types that the steps rely on.                                       *)
(***************************************************************************)

EntryOrgs == {NoOrg} \cup {token.org : token \in Tokens}

Entries ==
    [org : EntryOrgs, action : Actions \cup {"auth_fail", "warning", "webhook"}, req : RequestIds]

Args ==
    {NoArg} \cup {[events |-> e] : e \in EventSets} \cup [org : LocalOrgs]
        \cup [id : Nat] \cup [id : Nat, patch : Patches]

Rows ==
    [kind : Routes, arg : Args, token : Tokens,
     ip : {0} \cup {place[1] : place \in Places},
     region : {NoText} \cup {place[2] : place \in Places},
     registered : {{}} \cup SourceSets,
     outcome : {"pending", "ok", "unauthorized", "forbidden", "invalid", "missing", "failed"},
     shown : SUBSET Nat, phase : {"apply", "admin", "answered", "lost"}]

EndpointFields == {"org", "events", "enabled"}

ReqInv ==
    /\ \E k \in Nat : DOMAIN req = 1 .. k
    /\ DOMAIN req \subseteq RequestIds
    /\ req \in [DOMAIN req -> Rows]
    /\ admins \subseteq Admins
    /\ services \in [DOMAIN services -> SourceSets]

LogInv ==
    /\ audit \in Seq(Entries)
    /\ DOMAIN endpoints \subseteq DOMAIN audit
    /\ \A w \in DOMAIN endpoints : DOMAIN endpoints[w] = EndpointFields

\* Every endpoint is of the org of the entry that it is named after, and so
\* is every entry it is told of.
EventInv ==
    /\ \A w \in DOMAIN endpoints : endpoints[w].org = audit[w].org
    /\ \A d \in calls \cup DOMAIN deliveries :
          /\ d[1] \in DOMAIN audit /\ d[2] \in DOMAIN audit
          /\ audit[d[1]].org = audit[d[2]].org
    /\ DeletedLeavesNothing

\* A request that got past requireOrgAdmin was made by an admin of its org.
ShownInv ==
    /\ \A r \in DOMAIN req :
          req[r].phase = "apply" /\ req[r].kind # "serve" =>
              <<req[r].token.user, AskedOrg(r)>> \in Admins
    /\ \A r \in DOMAIN req : \A n \in req[r].shown :
          /\ n \in DOMAIN audit
          /\ audit[n].org = AskedOrg(r) /\ <<req[r].token.user, AskedOrg(r)>> \in Admins

WebInv == ReqInv /\ LogInv /\ EventInv /\ ShownInv

-----------------------------------------------------------------------------
(***************************************************************************)
(* What one entry does to the log, the endpoints and the deliveries.       *)
(***************************************************************************)

\* The rows a handler may leave behind: those there were, and one named after
\* the entry that is about to be logged.
RowsKept(entry, rows) ==
    /\ DOMAIN rows \subseteq DOMAIN endpoints \cup {Len(audit) + 1}
    /\ \A w \in DOMAIN rows :
          /\ DOMAIN rows[w] = EndpointFields
          /\ rows[w].org = IF w = Len(audit) + 1 THEN entry.org ELSE endpoints[w].org

LEMMA LogGrows ==
    ASSUME LogInv, NEW entry \in Entries, NEW rows, NEW sent, RecordAudit(entry, rows, sent)
    PROVE  /\ audit' \in Seq(Entries)
           /\ DOMAIN audit' = DOMAIN audit \cup {Len(audit) + 1}
           /\ Len(audit) + 1 \notin DOMAIN audit
           /\ audit'[Len(audit) + 1] = entry
           /\ \A n \in DOMAIN audit : n < Len(audit) + 1 /\ audit'[n] = audit[n]
           /\ DOMAIN audit \subseteq Nat
  BY DEF LogInv, RecordAudit

LEMMA EventsKept ==
    ASSUME LogInv, EventInv, NEW entry \in Entries, NEW rows, NEW sent,
           RecordAudit(entry, rows, sent), RowsKept(entry, rows),
           DOMAIN sent \subseteq DOMAIN deliveries,
           \A d \in DOMAIN sent : d[1] \in DOMAIN rows
    PROVE  LogInv' /\ EventInv'
  <1> DEFINE n == Len(audit) + 1
             new == {<<w, n>> : w \in {v \in DOMAIN rows : Subscribed(rows[v], entry)}}
  <1>1. /\ audit' \in Seq(Entries)
        /\ DOMAIN audit' = DOMAIN audit \cup {n} /\ n \notin DOMAIN audit
        /\ audit'[n] = entry
        /\ \A m \in DOMAIN audit : audit'[m] = audit[m]
    BY LogGrows
  <1>2. /\ endpoints' = rows
        /\ calls' = calls \cup new
        /\ DOMAIN deliveries' = DOMAIN sent \cup new
    BY DEF RecordAudit
  <1>3. \A w \in DOMAIN rows : w \in DOMAIN audit' /\ rows[w].org = audit'[w].org
    BY <1>1 DEF RowsKept, LogInv, EventInv
  <1>4. \A d \in new : /\ d[1] \in DOMAIN rows /\ d[2] = n
                       /\ rows[d[1]].org = entry.org
    BY DEF Subscribed
  <1> HIDE DEF n, new
  <1>5. LogInv'
    BY <1>1, <1>2, <1>3 DEF RowsKept, LogInv
  <1>6. \A d \in calls' \cup DOMAIN deliveries' :
            /\ d[1] \in DOMAIN audit' /\ d[2] \in DOMAIN audit'
            /\ audit'[d[1]].org = audit'[d[2]].org
    <2> TAKE d \in calls' \cup DOMAIN deliveries'
    <2>1. CASE d \in new
      BY <2>1, <1>1, <1>3, <1>4
    <2>2. CASE d \in calls \cup DOMAIN deliveries
      BY <2>2, <1>1 DEF EventInv
    <2> QED
      BY <2>1, <2>2, <1>2
  <1>7. DeletedLeavesNothing'
    BY <1>2, <1>4 DEF DeletedLeavesNothing
  <1> QED
    BY <1>2, <1>3, <1>5, <1>6, <1>7 DEF EventInv

\* Nothing but the log has changed about what requests were shown.
LEMMA ShownKept ==
    ASSUME ShownInv, DOMAIN req' = DOMAIN req,
           \A n \in DOMAIN audit : n \in DOMAIN audit' /\ audit'[n] = audit[n],
           \A s \in DOMAIN req :
              /\ req'[s].kind = req[s].kind /\ req'[s].arg = req[s].arg
              /\ req'[s].token = req[s].token /\ req'[s].shown = req[s].shown
              /\ req'[s].phase = "apply" /\ req'[s].kind # "serve" =>
                    <<req[s].token.user, AskedOrg(s)>> \in Admins
    PROVE  ShownInv'
  <1>1. \A s \in DOMAIN req : AskedOrg(s)' = AskedOrg(s)
    BY DEF AskedOrg
  <1>2. \A s \in DOMAIN req' :
            req'[s].phase = "apply" /\ req'[s].kind # "serve" =>
                <<req'[s].token.user, AskedOrg(s)'>> \in Admins
    BY <1>1
  <1>3. \A s \in DOMAIN req' : \A n \in req'[s].shown :
            /\ n \in DOMAIN audit'
            /\ audit'[n].org = AskedOrg(s)' /\ <<req'[s].token.user, AskedOrg(s)'>> \in Admins
    <2> TAKE s \in DOMAIN req'
    <2> TAKE n \in req'[s].shown
    <2>1. s \in DOMAIN req /\ n \in req[s].shown
      OBVIOUS
    <2>2. /\ n \in DOMAIN audit
          /\ audit[n].org = AskedOrg(s) /\ <<req[s].token.user, AskedOrg(s)>> \in Admins
      BY <2>1 DEF ShownInv
    <2> QED
      BY <1>1, <2>1, <2>2
  <1> QED
    BY <1>2, <1>3 DEF ShownInv

-----------------------------------------------------------------------------
(***************************************************************************)
(* The steps of requests.                                                  *)
(***************************************************************************)

LEMMA AnswerFrame ==
    ASSUME ReqInv, NEW r \in DOMAIN req, NEW outcome, AnswerWith(r, outcome),
           outcome \in {"ok", "forbidden", "invalid", "missing", "failed"},
           UNCHANGED serverVars
    PROVE  /\ ReqInv'
           /\ DOMAIN req' = DOMAIN req
           /\ \A s \in DOMAIN req :
                 /\ req'[s].kind = req[s].kind /\ req'[s].arg = req[s].arg
                 /\ req'[s].token = req[s].token /\ req'[s].shown = req[s].shown
                 /\ req'[s].phase = IF s = r THEN "answered" ELSE req[s].phase
  <1>1. /\ req' = [req EXCEPT ![r].phase = "answered", ![r].outcome = outcome]
        /\ admins' = admins /\ services' = services
    BY DEF AnswerWith, serverVars
  <1>2. req \in [DOMAIN req -> Rows]
    BY DEF ReqInv
  <1>3. PICK row : row = [req[r] EXCEPT !.phase = "answered", !.outcome = outcome]
    OBVIOUS
  <1>4. /\ row \in Rows
        /\ row.kind = req[r].kind /\ row.arg = req[r].arg
        /\ row.token = req[r].token /\ row.shown = req[r].shown /\ row.phase = "answered"
    BY <1>2, <1>3 DEF Rows
  <1>5. req' = [req EXCEPT ![r] = row]
    BY <1>1, <1>2, <1>3 DEF Rows
  <1>6. req' \in [DOMAIN req -> Rows]
    BY <1>2, <1>4, <1>5
  <1>7. ReqInv'
    BY <1>1, <1>5, <1>6 DEF ReqInv
  <1> QED
    BY <1>4, <1>5, <1>7

\* A handler that ends with an entry.
LEMMA HandlerKeeps ==
    ASSUME WebInv, NEW r \in DOMAIN req, NEW entry \in Entries, NEW rows, NEW sent,
           RecordAudit(entry, rows, sent), entry.req = r, RowsKept(entry, rows),
           DOMAIN sent \subseteq DOMAIN deliveries,
           \A d \in DOMAIN sent : d[1] \in DOMAIN rows,
           AnswerWith(r, "ok"), UNCHANGED serverVars
    PROVE  WebInv'
  <1>1. /\ ReqInv'
        /\ DOMAIN req' = DOMAIN req
        /\ \A s \in DOMAIN req :
              /\ req'[s].kind = req[s].kind /\ req'[s].arg = req[s].arg
              /\ req'[s].token = req[s].token /\ req'[s].shown = req[s].shown
              /\ req'[s].phase = IF s = r THEN "answered" ELSE req[s].phase
    BY AnswerFrame DEF WebInv
  <1>2. LogInv' /\ EventInv'
    BY EventsKept DEF WebInv
  <1>4. \A n \in DOMAIN audit : n \in DOMAIN audit' /\ audit'[n] = audit[n]
    BY LogGrows DEF WebInv
  <1>5. \A s \in DOMAIN req : req'[s].phase = "apply" /\ req'[s].kind # "serve" =>
                                  <<req[s].token.user, AskedOrg(s)>> \in Admins
    BY <1>1 DEF WebInv, ShownInv
  <1>6. ShownInv'
    BY <1>1, <1>4, <1>5, ShownKept DEF WebInv
  <1> QED
    BY <1>1, <1>2, <1>6 DEF WebInv

\* The log and the endpoints stay as they are.
LEMMA QuietEvents ==
    ASSUME WebInv, UNCHANGED eventVars, ReqInv', DOMAIN req' = DOMAIN req,
           \A s \in DOMAIN req :
              /\ req'[s].kind = req[s].kind /\ req'[s].arg = req[s].arg
              /\ req'[s].token = req[s].token,
           ShownInv'
    PROVE  WebInv'
  <1>1. /\ audit' = audit /\ endpoints' = endpoints
        /\ deliveries' = deliveries /\ calls' = calls
    BY DEF eventVars
  <1>2. LogInv' /\ EventInv'
    BY <1>1 DEF WebInv, LogInv, EventInv, DeletedLeavesNothing
  <1> QED
    BY <1>2 DEF WebInv

LEMMA AnswerKeeps ==
    ASSUME WebInv, NEW r \in DOMAIN req, NEW outcome, AnswerWith(r, outcome),
           outcome \in {"ok", "forbidden", "invalid", "missing", "failed"},
           UNCHANGED <<serverVars, eventVars>>
    PROVE  WebInv'
  <1>1. /\ ReqInv'
        /\ DOMAIN req' = DOMAIN req
        /\ \A s \in DOMAIN req :
              /\ req'[s].kind = req[s].kind /\ req'[s].arg = req[s].arg
              /\ req'[s].token = req[s].token /\ req'[s].shown = req[s].shown
              /\ req'[s].phase = IF s = r THEN "answered" ELSE req[s].phase
    BY AnswerFrame DEF WebInv
  <1>2. audit' = audit
    BY DEF eventVars
  <1>3. \A s \in DOMAIN req : req'[s].phase = "apply" /\ req'[s].kind # "serve" =>
                                  <<req[s].token.user, AskedOrg(s)>> \in Admins
    BY <1>1 DEF WebInv, ShownInv
  <1>4. ShownInv'
    BY <1>1, <1>2, <1>3, ShownKept DEF WebInv
  <1> QED
    BY <1>1, <1>4, QuietEvents

\* What is shown is of the org asked for.
LEMMA ShowKeeps ==
    ASSUME WebInv, NEW r \in DOMAIN req, NEW found, Show(r, found),
           req[r].phase = "apply", req[r].kind # "serve",
           \A n \in found : n \in DOMAIN audit /\ audit[n].org = AskedOrg(r)
    PROVE  WebInv'
  <1>1. /\ req' = [req EXCEPT ![r].phase = "answered", ![r].outcome = "ok", ![r].shown = found]
        /\ admins' = admins /\ audit' = audit /\ services' = services
    BY DEF Show, serverVars, eventVars
  <1>2. found \in SUBSET Nat
    BY DEF WebInv, LogInv
  <1>3. req' \in [DOMAIN req -> Rows]
    <2> DEFINE row == [req[r] EXCEPT !.phase = "answered", !.outcome = "ok", !.shown = found]
    <2>1. req \in [DOMAIN req -> Rows]
      BY DEF WebInv, ReqInv
    <2>2. row \in Rows
      BY <2>1, <1>2 DEF Rows
    <2>3. req' = [req EXCEPT ![r] = row]
      BY <1>1, <2>1 DEF Rows
    <2> QED
      BY <2>1, <2>2, <2>3
  <1>4. /\ DOMAIN req' = DOMAIN req
        /\ \A s \in DOMAIN req :
              /\ req'[s].kind = req[s].kind /\ req'[s].arg = req[s].arg
              /\ req'[s].token = req[s].token
              /\ req'[s].shown = IF s = r THEN found ELSE req[s].shown
              /\ req'[s].phase = IF s = r THEN "answered" ELSE req[s].phase
    BY <1>1 DEF WebInv, ReqInv, Rows
  <1>5. \A s \in DOMAIN req : AskedOrg(s)' = AskedOrg(s)
    BY <1>4 DEF AskedOrg
  <1>6. <<req[r].token.user, AskedOrg(r)>> \in Admins
    BY DEF WebInv, ShownInv
  <1>7. \A s \in DOMAIN req' :
            req'[s].phase = "apply" /\ req'[s].kind # "serve" =>
                <<req'[s].token.user, AskedOrg(s)'>> \in Admins
    BY <1>4, <1>5 DEF WebInv, ShownInv
  <1>8. \A s \in DOMAIN req' : \A n \in req'[s].shown :
            /\ n \in DOMAIN audit'
            /\ audit'[n].org = AskedOrg(s)' /\ <<req'[s].token.user, AskedOrg(s)'>> \in Admins
    <2> TAKE s \in DOMAIN req'
    <2> TAKE n \in req'[s].shown
    <2>1. CASE s = r
      <3>1. n \in found
        BY <2>1, <1>4
      <3>2. n \in DOMAIN audit /\ audit[n].org = AskedOrg(r)
        BY <3>1
      <3> QED
        BY <2>1, <3>2, <1>1, <1>4, <1>5, <1>6
    <2>2. CASE s # r
      <3>1. /\ n \in DOMAIN audit
            /\ audit[n].org = AskedOrg(s) /\ <<req[s].token.user, AskedOrg(s)>> \in Admins
        BY <2>2, <1>4 DEF WebInv, ShownInv
      <3> QED
        BY <3>1, <1>1, <1>4, <1>5
    <2> QED
      BY <2>1, <2>2
  <1>9. ShownInv'
    BY <1>7, <1>8 DEF ShownInv
  <1>10. ReqInv' /\ UNCHANGED eventVars
    BY <1>1, <1>3, <1>4 DEF WebInv, ReqInv, Show
  <1> QED
    BY <1>4, <1>9, <1>10, QuietEvents

\* The auth hook: one more request, and perhaps an entry about it.
LEMMA ArriveFrame ==
    ASSUME ReqInv, NEW r \in RequestIds, NEW token \in Tokens, NEW kind \in Routes,
           NEW arg \in Args, NEW ip \in {0} \cup {place[1] : place \in Places},
           NEW region \in {NoText} \cup {place[2] : place \in Places},
           Arrive(r, token, kind, arg, ip, region)
    PROVE  /\ ReqInv'
           /\ r \notin DOMAIN req /\ DOMAIN req' = DOMAIN req \cup {r}
           /\ \A s \in DOMAIN req : req'[s] = req[s]
           /\ req'[r].shown = {}
           /\ req'[r].phase = "apply" => req'[r].kind = "serve"
  <1> DEFINE valid == token.user # NoUser
  <1>1. PICK k \in Nat : DOMAIN req = 1 .. k
    BY DEF ReqInv
  <1>2. Cardinality(1 .. k) = k
    BY FS_Interval
  <1>3. r = k + 1
    BY <1>1, <1>2 DEF Arrive
  <1>4. PICK registered : registered = SourcesOf(token.org, token.service)
    OBVIOUS
  <1>5. registered \in {{}} \cup SourceSets
    BY <1>4 DEF SourcesOf, ReqInv
  <1>6. PICK row : row = [kind |-> kind, arg |-> arg, token |-> token,
                          ip |-> ip, region |-> region, registered |-> registered,
                          outcome |-> IF valid THEN "pending" ELSE "unauthorized", shown |-> {},
                          phase |-> IF ~valid THEN "answered"
                                    ELSE IF kind = "serve" THEN "apply" ELSE "admin"]
    OBVIOUS
  <1>7. req' = [s \in DOMAIN req \cup {r} |-> IF s # r THEN req[s] ELSE row]
    BY <1>4, <1>6 DEF Arrive
  <1>8. /\ row \in Rows /\ row.shown = {}
        /\ row.phase = "apply" => row.kind = "serve"
    BY <1>5, <1>6 DEF Rows
  <1>9. r \notin DOMAIN req /\ DOMAIN req \cup {r} = 1 .. k + 1
    BY <1>1, <1>3
  <1>10. ReqInv'
    <2>1. \E m \in Nat : DOMAIN req' = 1 .. m
      BY <1>7, <1>9
    <2>2. req' \in [DOMAIN req' -> Rows]
      BY <1>7, <1>8 DEF ReqInv
    <2>3. DOMAIN req' \subseteq RequestIds
      BY <1>7 DEF ReqInv
    <2>4. admins' \subseteq Admins /\ services' \in [DOMAIN services' -> SourceSets]
      BY DEF Arrive, serverVars, ReqInv
    <2> QED
      BY <2>1, <2>2, <2>3, <2>4 DEF ReqInv
  <1> QED
    BY <1>7, <1>8, <1>9, <1>10

LEMMA EndpointsKept ==
    ASSUME LogInv, NEW entry
    PROVE  RowsKept(entry, endpoints)
  <1>1. Len(audit) + 1 \notin DOMAIN audit
    BY DEF LogInv
  <1> QED
    BY <1>1 DEF LogInv, RowsKept

LEMMA ArriveKeeps ==
    ASSUME WebInv, NEW r \in RequestIds, NEW token \in Tokens, NEW kind \in Routes,
           NEW arg \in Args, NEW ip \in {0} \cup {place[1] : place \in Places},
           NEW region \in {NoText} \cup {place[2] : place \in Places},
           Arrive(r, token, kind, arg, ip, region)
    PROVE  WebInv'
  <1>1. /\ ReqInv'
        /\ r \notin DOMAIN req /\ DOMAIN req' = DOMAIN req \cup {r}
        /\ \A s \in DOMAIN req : req'[s] = req[s]
        /\ req'[r].shown = {}
        /\ req'[r].phase = "apply" => req'[r].kind = "serve"
    BY ArriveFrame DEF WebInv
  <1>2. \/ UNCHANGED eventVars
        \/ \E entry \in {Entry(r, token.org, "warning"), Entry(r, NoOrg, "auth_fail")} :
              RecordAudit(entry, endpoints, deliveries)
    BY DEF Arrive, Audit
  <1>3. {Entry(r, token.org, "warning"), Entry(r, NoOrg, "auth_fail")} \subseteq Entries
    BY DEF Entry, Entries, EntryOrgs
  <1>4. \A s \in DOMAIN req : AskedOrg(s)' = AskedOrg(s)
    BY <1>1 DEF AskedOrg
  <1>5. \A s \in DOMAIN req :
            /\ req[s].phase = "apply" /\ req[s].kind # "serve" =>
                   <<req[s].token.user, AskedOrg(s)>> \in Admins
            /\ \A m \in req[s].shown :
                  /\ m \in DOMAIN audit
                  /\ audit[m].org = AskedOrg(s) /\ <<req[s].token.user, AskedOrg(s)>> \in Admins
    BY DEF WebInv, ShownInv
  <1>6. ASSUME \A m \in DOMAIN audit : m \in DOMAIN audit' /\ audit'[m] = audit[m]
        PROVE  ShownInv'
    <2>1. \A s \in DOMAIN req' :
              req'[s].phase = "apply" /\ req'[s].kind # "serve" =>
                  <<req'[s].token.user, AskedOrg(s)'>> \in Admins
      BY <1>1, <1>4, <1>5
    <2>2. \A s \in DOMAIN req' : \A m \in req'[s].shown :
              /\ m \in DOMAIN audit'
              /\ audit'[m].org = AskedOrg(s)' /\ <<req'[s].token.user, AskedOrg(s)'>> \in Admins
      <3> TAKE s \in DOMAIN req'
      <3> TAKE m \in req'[s].shown
      <3>1. s \in DOMAIN req /\ m \in req[s].shown
        BY <1>1
      <3> QED
        BY <3>1, <1>1, <1>4, <1>5, <1>6
    <2> QED
      BY <2>1, <2>2 DEF ShownInv
  <1>7. CASE UNCHANGED eventVars
    <2>1. /\ audit' = audit /\ endpoints' = endpoints
          /\ deliveries' = deliveries /\ calls' = calls
      BY <1>7 DEF eventVars
    <2>2. LogInv' /\ EventInv'
      BY <2>1 DEF WebInv, LogInv, EventInv, DeletedLeavesNothing
    <2> QED
      BY <1>1, <1>6, <2>1, <2>2 DEF WebInv
  <1>8. ASSUME NEW entry \in Entries, RecordAudit(entry, endpoints, deliveries)
        PROVE  WebInv'
    <2>1. \A m \in DOMAIN audit : m \in DOMAIN audit' /\ audit'[m] = audit[m]
      BY <1>8, LogGrows DEF WebInv
    <2>2. \A d \in DOMAIN deliveries : d[1] \in DOMAIN endpoints
      BY DEF WebInv, EventInv, DeletedLeavesNothing
    <2>3. LogInv' /\ EventInv'
      BY <1>8, <2>2, EventsKept, EndpointsKept DEF WebInv
    <2> QED
      BY <1>1, <1>6, <2>1, <2>3 DEF WebInv
  <1> QED
    BY <1>2, <1>3, <1>7, <1>8

LEMMA EntryTyped ==
    ASSUME ReqInv, NEW r \in DOMAIN req, NEW action \in Actions \cup {"webhook"}
    PROVE  /\ Entry(r, req[r].token.org, action) \in Entries
           /\ Entry(r, req[r].token.org, action).req = r
           /\ Entry(r, req[r].token.org, action).org = req[r].token.org
  <1>1. req[r].token.org \in EntryOrgs /\ r \in RequestIds
    BY DEF ReqInv, Rows, EntryOrgs
  <1> QED
    BY <1>1 DEF Entry, Entries

LEMMA ServeKeeps ==
    ASSUME WebInv, NEW r, Serve(r)
    PROVE  WebInv'
  <1>1. r \in DOMAIN req
    BY DEF Serve, At
  <1>2. PICK action \in Actions : Audit(r, req[r].token.org, action)
    BY DEF Serve
  <1>3. \A d \in DOMAIN deliveries : d[1] \in DOMAIN endpoints
    BY DEF WebInv, EventInv, DeletedLeavesNothing
  <1>4. /\ Entry(r, req[r].token.org, action) \in Entries
        /\ Entry(r, req[r].token.org, action).req = r
    BY <1>1, EntryTyped DEF WebInv
  <1>5. RowsKept(Entry(r, req[r].token.org, action), endpoints)
    BY EndpointsKept DEF WebInv
  <1> QED
    BY <1>1, <1>2, <1>3, <1>4, <1>5, HandlerKeeps DEF Audit, Serve

LEMMA PostWebhookKeeps ==
    ASSUME WebInv, NEW r, PostWebhook(r)
    PROVE  WebInv'
  <1> DEFINE org == req[r].token.org
             entry == Entry(r, org, "webhook")
             rows == Created(org, req[r].arg.events)
  <1>1. r \in DOMAIN req /\ UNCHANGED serverVars
    BY DEF PostWebhook, At
  <1>2. CASE UNCHANGED eventVars /\ \E outcome \in {"invalid", "failed"} : AnswerWith(r, outcome)
    BY <1>1, <1>2, AnswerKeeps
  <1>3. CASE RecordAudit(entry, rows, deliveries) /\ AnswerWith(r, "ok")
    <2>1. entry \in Entries /\ entry.req = r /\ entry.org = org
      BY <1>1, EntryTyped DEF WebInv
    <2>2. /\ DOMAIN rows = DOMAIN endpoints \cup {Len(audit) + 1}
          /\ rows[Len(audit) + 1].org = org
          /\ DOMAIN rows[Len(audit) + 1] = EndpointFields
          /\ \A w \in DOMAIN endpoints : w # Len(audit) + 1 => rows[w] = endpoints[w]
      BY DEF Created, EndpointFields
    <2>3. \A d \in DOMAIN deliveries : d[1] \in DOMAIN rows
      BY <2>2 DEF WebInv, EventInv, DeletedLeavesNothing
    <2> HIDE DEF entry, rows
    <2>4. RowsKept(entry, rows)
      BY <2>1, <2>2 DEF RowsKept, WebInv, LogInv
    <2> QED
      BY <1>1, <1>3, <2>1, <2>3, <2>4, HandlerKeeps
  <1> QED
    BY <1>2, <1>3 DEF PostWebhook

LEMMA PatchWebhookKeeps ==
    ASSUME WebInv, NEW r, PatchWebhook(r)
    PROVE  WebInv'
  <1> DEFINE org == req[r].token.org
             entry == Entry(r, org, "webhook")
             w == req[r].arg.id
             rows == [endpoints EXCEPT ![w] = Patched(@, req[r].arg.patch)]
  <1>1. r \in DOMAIN req /\ UNCHANGED serverVars
    BY DEF PatchWebhook, At
  <1>2. CASE UNCHANGED eventVars /\ \E outcome \in {"invalid", "missing"} : AnswerWith(r, outcome)
    BY <1>1, <1>2, AnswerKeeps
  <1>3. CASE RecordAudit(entry, rows, deliveries) /\ AnswerWith(r, "ok")
    <2>1. entry \in Entries /\ entry.req = r
      BY <1>1, EntryTyped DEF WebInv
    <2>2. /\ DOMAIN rows = DOMAIN endpoints
          /\ \A v \in DOMAIN endpoints :
                DOMAIN rows[v] = DOMAIN endpoints[v] /\ rows[v].org = endpoints[v].org
      BY DEF Patched, WebInv, LogInv, EndpointFields
    <2>3. \A d \in DOMAIN deliveries : d[1] \in DOMAIN rows
      BY <2>2 DEF WebInv, EventInv, DeletedLeavesNothing
    <2>4. RowsKept(entry, endpoints)
      BY EndpointsKept DEF WebInv
    <2> HIDE DEF entry, rows
    <2>5. RowsKept(entry, rows)
      BY <2>2, <2>4 DEF RowsKept
    <2> QED
      BY <1>1, <1>3, <2>1, <2>3, <2>5, HandlerKeeps
  <1> QED
    BY <1>2, <1>3 DEF PatchWebhook

LEMMA DeleteWebhookKeeps ==
    ASSUME WebInv, NEW r, DeleteWebhook(r)
    PROVE  WebInv'
  <1> DEFINE org == req[r].token.org
             entry == Entry(r, org, "webhook")
             w == req[r].arg.id
             rows == EndpointsWithout(w)
             sent == DeliveriesWithout(w)
  <1>1. r \in DOMAIN req /\ UNCHANGED serverVars
    BY DEF DeleteWebhook, At
  <1>2. CASE UNCHANGED eventVars /\ AnswerWith(r, "missing")
    BY <1>1, <1>2, AnswerKeeps
  <1>3. CASE RecordAudit(entry, rows, sent) /\ AnswerWith(r, "ok")
    <2>1. entry \in Entries /\ entry.req = r
      BY <1>1, EntryTyped DEF WebInv
    <2>2. /\ DOMAIN rows = DOMAIN endpoints \ {w}
          /\ \A v \in DOMAIN rows : rows[v] = endpoints[v]
      BY DEF EndpointsWithout
    <2>3. DOMAIN sent = {d \in DOMAIN deliveries : d[1] # w}
      BY DEF DeliveriesWithout
    <2>4. \A d \in DOMAIN sent : d[1] \in DOMAIN rows
      BY <2>2, <2>3 DEF WebInv, EventInv, DeletedLeavesNothing
    <2>5. RowsKept(entry, endpoints)
      BY EndpointsKept DEF WebInv
    <2> HIDE DEF entry, rows, sent
    <2>6. RowsKept(entry, rows)
      BY <2>2, <2>5 DEF RowsKept
    <2> QED
      BY <1>1, <1>3, <2>1, <2>3, <2>4, <2>6, HandlerKeeps
  <1> QED
    BY <1>2, <1>3 DEF DeleteWebhook

LEMMA ReadsKeep ==
    ASSUME WebInv, NEW r, GetWebhooks(r) \/ GetDeliveries(r) \/ GetAudit(r)
    PROVE  WebInv'
  <1>1. r \in DOMAIN req /\ req[r].phase = "apply" /\ req[r].kind # "serve"
    BY DEF GetWebhooks, GetDeliveries, GetAudit, At
  <1>2. CASE GetWebhooks(r)
    <2>1. \A n \in Webhooks(AskedOrg(r)) : n \in DOMAIN audit /\ audit[n].org = AskedOrg(r)
      BY DEF Webhooks, WebInv, LogInv, EventInv
    <2> QED
      BY <1>1, <1>2, <2>1, ShowKeeps DEF GetWebhooks
  <1>3. CASE GetAudit(r)
    <2>1. \A n \in RecentAudit(AskedOrg(r)) : n \in DOMAIN audit /\ audit[n].org = AskedOrg(r)
      BY DEF RecentAudit
    <2> QED
      BY <1>1, <1>3, <2>1, ShowKeeps DEF GetAudit
  <1>4. CASE GetDeliveries(r) /\ Has(AskedOrg(r), req[r].arg.id)
    <2>1. \A n \in Deliveries(req[r].arg.id) : n \in DOMAIN audit /\ audit[n].org = AskedOrg(r)
      <3> TAKE n \in Deliveries(req[r].arg.id)
      <3>1. PICK d \in DOMAIN deliveries : d[1] = req[r].arg.id /\ n = d[2]
        BY DEF Deliveries
      <3>2. audit[req[r].arg.id].org = AskedOrg(r)
        BY <1>4 DEF Has, WebInv, EventInv
      <3> QED
        BY <3>1, <3>2 DEF WebInv, EventInv
    <2> QED
      BY <1>1, <1>4, <2>1, ShowKeeps DEF GetDeliveries
  <1>5. CASE GetDeliveries(r) /\ ~Has(AskedOrg(r), req[r].arg.id)
    BY <1>1, <1>5, AnswerKeeps DEF GetDeliveries
  <1> QED
    BY <1>2, <1>3, <1>4, <1>5

\* Those who pass are admins now, and all admins were so at the start.
LEMMA RequireOrgAdminKeeps ==
    ASSUME WebInv, NEW r, RequireOrgAdmin(r)
    PROVE  WebInv'
  <1>1. r \in DOMAIN req /\ UNCHANGED <<serverVars, eventVars>>
    BY DEF RequireOrgAdmin, At
  <1>2. CASE AnswerWith(r, "forbidden")
    BY <1>1, <1>2, AnswerKeeps
  <1>3. CASE /\ <<req[r].token.user, AskedOrg(r)>> \in admins
             /\ req' = [req EXCEPT ![r].phase = "apply"]
    <2>1. req' \in [DOMAIN req -> Rows]
      BY <1>3 DEF WebInv, ReqInv, Rows
    <2>2. /\ DOMAIN req' = DOMAIN req
          /\ \A s \in DOMAIN req :
                /\ req'[s].kind = req[s].kind /\ req'[s].arg = req[s].arg
                /\ req'[s].token = req[s].token /\ req'[s].shown = req[s].shown
                /\ s # r => req'[s].phase = req[s].phase
      BY <1>3 DEF WebInv, ReqInv, Rows
    <2>3. <<req[r].token.user, AskedOrg(r)>> \in Admins
      BY <1>3 DEF WebInv, ReqInv
    <2>4. \A s \in DOMAIN req : req'[s].phase = "apply" /\ req'[s].kind # "serve" =>
                                    <<req[s].token.user, AskedOrg(s)>> \in Admins
      BY <2>2, <2>3 DEF WebInv, ShownInv
    <2>5. audit' = audit
      BY <1>1 DEF eventVars
    <2>6. ShownInv'
      BY <2>2, <2>4, <2>5, ShownKept DEF WebInv
    <2>7. ReqInv'
      BY <1>1, <2>1, <2>2 DEF WebInv, ReqInv, serverVars
    <2> QED
      BY <1>1, <2>2, <2>6, <2>7, QuietEvents
  <1> QED
    BY <1>2, <1>3 DEF RequireOrgAdmin

-----------------------------------------------------------------------------
(***************************************************************************)
(* What happens besides the requests.                                      *)
(***************************************************************************)

LEMMA SettleKeeps ==
    ASSUME WebInv, CallEnds
    PROVE  WebInv'
  <1>1. PICK d \in calls : Settle(d) /\ UNCHANGED <<serverVars, req>>
    BY DEF CallEnds
  <1>2. /\ audit' = audit /\ endpoints' = endpoints /\ calls' \subseteq calls
        /\ req' = req /\ admins' = admins /\ services' = services
    BY <1>1 DEF Settle, serverVars
  <1>3. DOMAIN deliveries' = DOMAIN deliveries
    BY <1>1 DEF Settle, Record
  <1>4. ReqInv' /\ LogInv' /\ EventInv'
    BY <1>2, <1>3 DEF WebInv, ReqInv, LogInv, EventInv, DeletedLeavesNothing
  <1>5. ShownInv'
    BY <1>2 DEF WebInv, ShownInv, AskedOrg
  <1> QED
    BY <1>4, <1>5 DEF WebInv

LEMMA RestartKeeps ==
    ASSUME WebInv, Restart
    PROVE  WebInv'
  <1>1. /\ audit' = audit /\ endpoints' = endpoints /\ deliveries' = deliveries
        /\ calls' = {} /\ admins' = admins /\ services' = services
    BY DEF Restart, CutOff
  <1>2. req' = [r \in DOMAIN req |-> IF Answered(r) THEN req[r] ELSE [req[r] EXCEPT !.phase = "lost"]]
    BY DEF Restart
  <1>3. req' \in [DOMAIN req -> Rows]
    BY <1>2 DEF WebInv, ReqInv, Rows
  <1>4. /\ DOMAIN req' = DOMAIN req
        /\ \A s \in DOMAIN req :
              /\ req'[s].kind = req[s].kind /\ req'[s].arg = req[s].arg
              /\ req'[s].token = req[s].token /\ req'[s].shown = req[s].shown
              /\ req'[s].phase = "apply" => req[s].phase = "apply"
    BY <1>2 DEF WebInv, ReqInv, Rows
  <1>5. \A s \in DOMAIN req : req'[s].phase = "apply" /\ req'[s].kind # "serve" =>
                                  <<req[s].token.user, AskedOrg(s)>> \in Admins
    BY <1>4 DEF WebInv, ShownInv
  <1>6. ShownInv'
    BY <1>1, <1>4, <1>5, ShownKept DEF WebInv
  <1>7. ReqInv'
    BY <1>1, <1>3, <1>4 DEF WebInv, ReqInv
  <1>8. LogInv' /\ EventInv'
    BY <1>1 DEF WebInv, LogInv, EventInv, DeletedLeavesNothing
  <1> QED
    BY <1>6, <1>7, <1>8 DEF WebInv

LEMMA OutsideKeeps ==
    ASSUME WebInv, Register \/ AdminLeaves
    PROVE  WebInv'
  <1>1. UNCHANGED eventVars /\ req' = req /\ admins' \subseteq admins
    BY DEF Register, AdminLeaves
  <1>2. audit' = audit
    BY <1>1 DEF eventVars
  <1>3. services' \in [DOMAIN services' -> SourceSets]
    BY DEF Register, AdminLeaves, UpsertService, WebInv, ReqInv
  <1>4. ShownInv' /\ ReqInv'
    BY <1>1, <1>2, <1>3 DEF WebInv, ShownInv, ReqInv, AskedOrg
  <1> QED
    BY <1>1, <1>4, QuietEvents

-----------------------------------------------------------------------------

LEMMA InitHolds == Init => WebInv
  <1> SUFFICES ASSUME Init PROVE WebInv
    OBVIOUS
  <1>1. audit = <<>> /\ endpoints = <<>> /\ deliveries = <<>> /\ calls = {} /\ req = <<>>
        /\ admins = Admins /\ services = <<>>
    BY DEF Init, EventsInit
  <1>2. DOMAIN req = 1 .. 0
    BY <1>1
  <1> QED
    BY <1>1, <1>2
    DEF WebInv, ReqInv, LogInv, EventInv, ShownInv, DeletedLeavesNothing

\* What requests may carry is what the invariant says of it.
LEMMA BeginKeeps ==
    ASSUME WebInv, NEW r \in RequestIds, Begin(r)
    PROVE  WebInv'
  <1>1. DOMAIN endpoints \subseteq Nat
    BY DEF WebInv, LogInv
  <1>2. \E token \in Tokens, kind \in Routes, arg \in Args :
            \E ip \in {0} \cup {place[1] : place \in Places},
               region \in {NoText} \cup {place[2] : place \in Places} :
                  Arrive(r, token, kind, arg, ip, region)
    BY <1>1, RoutesAssumption DEF Begin, Args
  <1> QED
    BY <1>2, ArriveKeeps

LEMMA StepHolds == WebInv /\ [Next]_vars => WebInv'
  <1> SUFFICES ASSUME WebInv, [Next]_vars PROVE WebInv'
    OBVIOUS
  <1>1. CASE \E r \in RequestIds : Begin(r)
    BY <1>1, BeginKeeps
  <1>2. CASE \E r \in RequestIds : Progress(r)
    <2>1. PICK r \in RequestIds : Progress(r)
      BY <1>2
    <2> QED
      BY <2>1, ServeKeeps, RequireOrgAdminKeeps, PostWebhookKeeps, PatchWebhookKeeps,
         DeleteWebhookKeeps, ReadsKeep DEF Progress
  <1>3. CASE CallEnds
    BY <1>3, SettleKeeps
  <1>4. CASE Register \/ AdminLeaves
    BY <1>4, OutsideKeeps
  <1>5. CASE Restart
    BY <1>5, RestartKeeps
  <1>6. CASE UNCHANGED vars
    <2>1. UNCHANGED eventVars /\ req' = req /\ admins' = admins /\ services' = services
      BY <1>6 DEF vars
    <2>2. audit' = audit
      BY <2>1 DEF eventVars
    <2>3. ShownInv' /\ ReqInv'
      BY <2>1, <2>2 DEF WebInv, ShownInv, ReqInv, AskedOrg
    <2> QED
      BY <2>1, <2>3, QuietEvents
  <1> QED
    BY <1>1, <1>2, <1>3, <1>4, <1>5, <1>6 DEF Next

LEMMA InvariantHolds == Spec => []WebInv
  BY InitHolds, StepHolds, PTL DEF Spec

\* No delivery, no call on its way and nothing an admin is shown belongs to
\* another org: for any endpoints that are created, patched and deleted while
\* calls are on their way, and any restarts (webhooks.ts, queueWebhookEvent).
THEOREM OrgsHearNothing == Spec => []NothingAcrossOrgs
  <1>1. WebInv => NothingAcrossOrgs
    BY DEF WebInv, EventInv, ShownInv, NothingAcrossOrgs
  <1> QED
    BY <1>1, InvariantHolds, PTL

\* A call that ends after its endpoint is gone writes nothing
\* (webhooks.ts, deliver and deleteWebhook).
THEOREM DeletedIsGone == Spec => []DeletedLeavesNothing
  <1>1. WebInv => DeletedLeavesNothing
    BY DEF WebInv, EventInv
  <1> QED
    BY <1>1, InvariantHolds, PTL

=============================================================================
