--------------------------- MODULE AccessRequests ---------------------------
(***************************************************************************)
(* Requests with a bearer token or a session cookie (http.ts): the auth    *)
(* hook, which reads the token once and hands the handler a copy; the      *)
(* routes that create orgs, tokens, users and grants and take them away;   *)
(* and the check every file and runtime route makes of its path.  Each     *)
(* awaited call of a handler is an action: others run in between.          *)
(* What a route that only reads has found so far is kept as "shown".       *)
(***************************************************************************)
EXTENDS AccountTables

CONSTANTS
    RequestIds,      \* the requests that may arrive, each at most once
    Kinds,           \* which routes they take
    FileAsks,        \* what file routes ask for: records of path and access
    ScopeAsks,       \* scopes that tokens are minted with
    AdminAsks,       \* bodies of the admin routes: email, target, access
    MaxCalls         \* bound: requests and operator commands in a behaviour

ASSUME RequestsAssumption ==
    /\ RequestIds \subseteq Nat /\ MaxCalls \in Nat
    /\ \A ask \in AdminAsks :
          /\ ask.email \in Emails /\ ask.access \in GrantAccess
          /\ Len(ask.target) \in 1 .. 3 /\ (Len(ask.target) = 1 => ask.access = "admin")

VARIABLES
    req,   \* the requests that have arrived
    ops    \* how many commands the operator has run

requestVars == <<req, ops>>

MoreCalls == Cardinality(DOMAIN req) + ops < MaxCalls

\* Requests are numbered in the order they arrive.
NextRequest(r) == MoreCalls /\ r = Cardinality(DOMAIN req) + 1

Answered(r) == r \in DOMAIN req /\ req[r].phase \in {"answered", "lost"}

In(r, kind, phase) == r \in DOMAIN req /\ req[r].kind = kind /\ req[r].phase = phase

AnswerWith(r, outcome) ==
    req' = [req EXCEPT ![r].phase = "answered", ![r].outcome = outcome]

Go(r, phase) == req' = [req EXCEPT ![r].phase = phase]

NewRequest(kind, phase, id, token, arg) ==
    [kind |-> kind, phase |-> phase, id |-> id, token |-> token, arg |-> arg,
     email |-> token.email, lookup |-> 1, shown |-> {}, outcome |-> "pending"]

\* The auth hook: verifyToken, and the handler's copy of the row.
Arrive(r, kind, phase, id, arg) ==
    /\ kind \in Kinds
    /\ NextRequest(r)
    /\ req' = Put(req, r, IF Live(id)
                          THEN NewRequest(kind, phase, id, tokens[id], arg)
                          ELSE [NewRequest(kind, "answered", id, tokens[id], arg)
                                  EXCEPT !.outcome = "unauthorized"])
    /\ UNCHANGED <<accountVars, ops>>

\* A restart, or a call that throws: the rest of the request is never done.
LoseRequest(r) ==
    /\ r \in DOMAIN req /\ ~Answered(r)
    /\ Go(r, "lost")
    /\ UNCHANGED <<accountVars, ops>>

-----------------------------------------------------------------------------
(***************************************************************************)
(* Looking grants up for a path: one step in SQLite, up to three commands  *)
(* in PostgreSQL, the first that allows deciding.                          *)
(***************************************************************************)

Decision(r, path, access) ==
    LET email == req[r].email
        k == req[r].lookup
    IN  IF backend = "sqlite"
        THEN IF AuthorizeGrant(email, path, access) THEN "allowed" ELSE "denied"
        ELSE IF k <= Lookups(path) /\ GrantedAt(email, path, access, k) THEN "allowed"
             ELSE IF k < Lookups(path) THEN "undecided" ELSE "denied"

NextLookup(r) == req' = [req EXCEPT ![r].lookup = @ + 1]

\* A bug to catch: only the org of the path is compared with the token.
AuthorizeFileByOrg(r) ==
    /\ In(r, "file", "authorize")
    /\ AnswerWith(r, IF Org(req[r].arg.path) = req[r].token.org THEN "ok" ELSE "forbidden")
    /\ UNCHANGED <<accountVars, ops>>

\* parseAndAuthorize: the org of the token, then its scopes, then the grants
\* of its user.
AuthorizeFile(r) ==
    LET path == req[r].arg.path
        access == req[r].arg.access
    IN  /\ In(r, "file", "authorize")
        /\ IF ~NormalizedPath(path) THEN AnswerWith(r, "invalid")
           ELSE IF Org(path) # req[r].token.org THEN AnswerWith(r, "forbidden")
           ELSE IF Authorize(req[r].token.scopes, path, access) THEN AnswerWith(r, "ok")
           ELSE CASE Decision(r, path, access) = "allowed" -> AnswerWith(r, "ok")
                  [] Decision(r, path, access) = "denied" -> AnswerWith(r, "forbidden")
                  [] OTHER -> NextLookup(r)
        /\ UNCHANGED <<accountVars, ops>>

-----------------------------------------------------------------------------
(***************************************************************************)
(* POST /v1/orgs, POST /v1/tokens, DELETE /v1/tokens/:id                   *)
(***************************************************************************)

PostOrg(r) ==
    LET org == req[r].arg.org IN
    /\ In(r, "org", "create")
    /\ \/ req[r].email = NoUser /\ AnswerWith(r, "invalid") /\ UNCHANGED accountVars
       \/ /\ req[r].email # NoUser
          /\ org \in DOMAIN orgs /\ AnswerWith(r, "conflict") /\ UNCHANGED accountVars
       \/ /\ req[r].email # NoUser
          /\ CreateOrganization(org, req[r].email) /\ AnswerWith(r, "ok")
          /\ UNCHANGED <<backend, users, tokens>>
    /\ UNCHANGED ops

\* A bug to catch: a scope the caller lacks is minted all the same.
CheckNoScope(r) ==
    /\ In(r, "mint", "scope")
    /\ Go(r, "insert")
    /\ UNCHANGED <<accountVars, ops>>

\* Every scope asked for must be allowed to the caller, by the scopes of the
\* token, which must match the pattern as it is written, or by grants on the
\* probe, which throws where the probe is no path.  The requests of the model
\* ask for one scope each.
CheckScope(r) ==
    LET scope == CHOOSE s \in req[r].arg.scopes : TRUE IN
    /\ In(r, "mint", "scope")
    /\ IF req[r].email = NoUser THEN AnswerWith(r, "invalid")
       ELSE IF Authorize(req[r].token.scopes, scope.path, scope.access) THEN Go(r, "insert")
       ELSE IF ~NormalizedPath(Probe(scope.path)) THEN AnswerWith(r, "forbidden")
       ELSE CASE Decision(r, Probe(scope.path), scope.access) = "allowed" -> Go(r, "insert")
              [] Decision(r, Probe(scope.path), scope.access) = "denied" ->
                    AnswerWith(r, "forbidden")
              [] OTHER -> NextLookup(r)
    /\ UNCHANGED <<accountVars, ops>>

PostToken(r) ==
    LET org == req[r].token.org
        scopes == req[r].arg.scopes
    IN  /\ In(r, "mint", "insert")
        /\ \/ /\ MintAccepted(org, scopes, req[r].email)
              /\ InsertToken(org, scopes, req[r].email, TRUE)
              /\ AnswerWith(r, "ok")
           \/ /\ ~MintAccepted(org, scopes, req[r].email)
              /\ AnswerWith(r, "invalid") /\ UNCHANGED tokens
        /\ UNCHANGED <<backend, users, orgs, grants, given, ops>>

\* A bug to catch: the token of another user is taken for the caller's own.
FindAnyToken(r) ==
    /\ In(r, "revoke", "find")
    /\ IF req[r].arg.id \in DOMAIN tokens /\ tokens[req[r].arg.id].org = req[r].token.org
       THEN Go(r, "update") ELSE AnswerWith(r, "missing")
    /\ UNCHANGED <<accountVars, ops>>

\* listTokens of the org of the caller's token; one's own needs no admin.
FindToken(r) ==
    LET id == req[r].arg.id IN
    /\ In(r, "revoke", "find")
    /\ IF id \notin ListTokens(req[r].token.org)
       THEN AnswerWith(r, "missing")
       ELSE IF req[r].email = NoUser THEN AnswerWith(r, "forbidden")
       ELSE IF tokens[id].email = req[r].email THEN Go(r, "update")
       ELSE Go(r, "admin")
    /\ UNCHANGED <<accountVars, ops>>

CheckTokenAdmin(r) ==
    /\ In(r, "revoke", "admin")
    /\ IF IsOrgAdmin(req[r].email, req[r].token.org) THEN Go(r, "update")
       ELSE AnswerWith(r, "forbidden")
    /\ UNCHANGED <<accountVars, ops>>

DeleteToken(r) ==
    LET id == req[r].arg.id IN
    /\ In(r, "revoke", "update")
    /\ \/ RevokeToken(id) /\ AnswerWith(r, "ok")
       \/ tokens[id].revoked /\ AnswerWith(r, "missing") /\ UNCHANGED tokens
    /\ UNCHANGED <<backend, users, orgs, grants, given, ops>>

-----------------------------------------------------------------------------
(***************************************************************************)
(* GET /v1/me, GET /v1/tokens                                              *)
(***************************************************************************)

Show(r, phase, found) ==
    req' = [req EXCEPT ![r].phase = phase, ![r].shown = found,
                       ![r].outcome = IF phase = "answered" THEN "ok" ELSE @]

\* The user's orgs and then the user's grants in the token's org; a token
\* without user has neither.
Me(r) ==
    /\ \/ In(r, "me", "names")
          /\ Show(r, IF req[r].email = NoUser THEN "answered" ELSE "own",
                  AccessibleOrgs(req[r].email))
       \/ In(r, "me", "own")
          /\ Show(r, "answered", req[r].shown \cup UserGrants(req[r].email, req[r].token.org))
    /\ UNCHANGED <<accountVars, ops>>

\* Every token of the org, and then those of it that the caller may see: the
\* caller's own or, for an admin, all.
GetTokens(r) ==
    LET mine == {id \in req[r].shown : tokens[id].email = req[r].email}
        admin == IsOrgAdmin(req[r].email, req[r].token.org)
    IN  /\ \/ In(r, "tokens", "rows") /\ Show(r, "filter", ListTokens(req[r].token.org))
           \/ In(r, "tokens", "filter")
              /\ Show(r, "answered", IF req[r].email = NoUser THEN {}
                                     ELSE IF admin THEN req[r].shown ELSE mine)
        /\ UNCHANGED <<accountVars, ops>>

-----------------------------------------------------------------------------
(***************************************************************************)
(* The routes for org admins: POST /v1/users, POST /v1/users/verify, GET,  *)
(* POST and DELETE /v1/grants.  The org is the one of the body, not        *)
(* necessarily the token's.                                                *)
(***************************************************************************)

AdminKinds == {"user", "verify", "grant", "ungrant", "grants"}

AdminOrg(r) ==
    IF req[r].kind \in {"grant", "ungrant"} THEN req[r].arg.target[1] ELSE req[r].arg.org

RequireOrgAdmin(r) ==
    /\ r \in DOMAIN req /\ req[r].kind \in AdminKinds /\ req[r].phase = "admin"
    /\ IF IsOrgAdmin(req[r].email, AdminOrg(r)) THEN Go(r, "apply")
       ELSE AnswerWith(r, "forbidden")
    /\ UNCHANGED <<accountVars, ops>>

PostUser(r) ==
    /\ In(r, "user", "apply")
    /\ \/ CreateUser(req[r].arg.email, TRUE) /\ AnswerWith(r, "ok")
       \/ /\ req[r].arg.email \in DOMAIN users
          /\ AnswerWith(r, "conflict") /\ UNCHANGED users
    /\ UNCHANGED <<backend, orgs, grants, tokens, given, ops>>

\* The update goes to the SQLite database whichever store serves: with
\* PostgreSQL it finds no user there.
PostVerify(r) ==
    LET email == req[r].arg.email IN
    /\ In(r, "verify", "apply")
    /\ \/ backend = "sqlite" /\ VerifyUserEmail(email) /\ AnswerWith(r, "ok")
       \/ /\ backend = "postgres" \/ email \notin DOMAIN users
          /\ AnswerWith(r, "missing") /\ UNCHANGED users
    /\ UNCHANGED <<backend, orgs, grants, tokens, given, ops>>

GetGrants(r) ==
    /\ In(r, "grants", "apply")
    /\ Show(r, "answered", OrgGrants(req[r].arg.org))
    /\ UNCHANGED <<accountVars, ops>>

PostGrant(r) ==
    LET grant == req[r].arg IN
    /\ In(r, "grant", "apply") /\ backend = "sqlite"
    /\ \/ Grant(grant.email, grant.target, grant.access) /\ AnswerWith(r, "ok")
       \/ /\ ~GrantFound(grant.email, grant.target)
          /\ AnswerWith(r, "missing") /\ UNCHANGED <<grants, given>>
    /\ UNCHANGED <<backend, users, orgs, tokens, ops>>

\* The PostgreSQL store looks the user and the org up in commands of their own.
AssertUserOrg(r) ==
    LET grant == req[r].arg IN
    /\ In(r, "grant", "apply") /\ backend = "postgres"
    /\ IF GrantFound(grant.email, grant.target) THEN Go(r, "upsert") ELSE AnswerWith(r, "missing")
    /\ UNCHANGED <<accountVars, ops>>

InsertGrant(r) ==
    LET grant == req[r].arg IN
    /\ In(r, "grant", "upsert")
    /\ UpsertGrant(grant.email, grant.target, grant.access)
    /\ AnswerWith(r, "ok")
    /\ UNCHANGED <<backend, users, orgs, tokens, ops>>

DeleteGrant(r) ==
    LET grant == req[r].arg IN
    /\ In(r, "ungrant", "apply")
    /\ \/ RevokeGrant(grant.email, grant.target) /\ AnswerWith(r, "ok")
       \/ /\ <<grant.email, grant.target>> \notin DOMAIN grants
          /\ AnswerWith(r, "missing") /\ UNCHANGED grants
    /\ UNCHANGED <<backend, users, orgs, tokens, given, ops>>

-----------------------------------------------------------------------------
(***************************************************************************)
(* The operator's command line (server/src/cli.ts) works on the SQLite     *)
(* file, each command one call, while the server runs.                     *)
(***************************************************************************)

Operator == backend = "sqlite" /\ MoreCalls /\ ops' = ops + 1 /\ UNCHANGED <<backend, req>>

OperatorOrg == Operator /\ UNCHANGED <<users, grants, tokens, given>>
                 /\ \E org \in Orgs : CreateOrg(org)

OperatorUser == Operator /\ UNCHANGED <<orgs, grants, tokens, given>>
                 /\ \E email \in Emails :
                       \/ \E verified \in BOOLEAN : CreateUser(email, verified)
                       \/ VerifyUserEmail(email)

\* token create: any scopes of the org; what it gives counts as a grant on all
\* that the pattern is on.
OperatorToken ==
    /\ Operator /\ UNCHANGED <<users, orgs, grants>>
    /\ \E org \in DOMAIN orgs, scope \in ScopeAsks, email \in DOMAIN users \cup {NoUser} :
          /\ MintAccepted(org, {scope}, email)
          /\ InsertToken(org, {scope}, email, FALSE)
          /\ given' = given \cup {<<email, Below(scope.path), scope.access>>}

OperatorRevoke == Operator /\ UNCHANGED <<users, orgs, grants, given>>
                    /\ \E id \in DOMAIN tokens : RevokeToken(id)

OperatorGrant ==
    /\ Operator /\ UNCHANGED <<users, orgs, tokens>>
    /\ \E ask \in AdminAsks :
          \/ Grant(ask.email, ask.target, ask.access)
          \/ RevokeGrant(ask.email, ask.target) /\ UNCHANGED given

OperatorNext ==
    OperatorOrg \/ OperatorUser \/ OperatorToken \/ OperatorRevoke \/ OperatorGrant

-----------------------------------------------------------------------------

BeginRequest(r, id) ==
    \/ \E ask \in FileAsks : Arrive(r, "file", "authorize", id, ask)
    \/ \E org \in Orgs : Arrive(r, "org", "create", id, [org |-> org])
    \/ \E scope \in ScopeAsks : Arrive(r, "mint", "scope", id, [scopes |-> {scope}])
    \/ \E target \in DOMAIN tokens : Arrive(r, "revoke", "find", id, [id |-> target])
    \/ Arrive(r, "me", "names", id, [org |-> tokens[id].org])
    \/ Arrive(r, "tokens", "rows", id, [org |-> tokens[id].org])
    \/ \E org \in DOMAIN orgs : Arrive(r, "grants", "admin", id, [org |-> org])
    \/ \E ask \in AdminAsks, kind \in {"user", "verify"} :
          Arrive(r, kind, "admin", id, [email |-> ask.email, org |-> ask.target[1]])
    \/ \E ask \in AdminAsks, kind \in {"grant", "ungrant"} : Arrive(r, kind, "admin", id, ask)

RequestProgress(r) ==
    \/ AuthorizeFile(r)
    \/ PostOrg(r)
    \/ CheckScope(r) \/ PostToken(r)
    \/ FindToken(r) \/ CheckTokenAdmin(r) \/ DeleteToken(r)
    \/ Me(r) \/ GetTokens(r)
    \/ RequireOrgAdmin(r) \/ PostUser(r) \/ PostVerify(r) \/ GetGrants(r)
    \/ PostGrant(r) \/ AssertUserOrg(r) \/ InsertGrant(r) \/ DeleteGrant(r)

=============================================================================
