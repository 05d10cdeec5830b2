---------------------------- MODULE AccountServer ----------------------------
(***************************************************************************)
(* The server's accounts as a whole: sign-ins, requests with tokens and    *)
(* the operator's commands interleave, call by call, over one set of       *)
(* tables, also while those are copied from SQLite to PostgreSQL.          *)
(***************************************************************************)
EXTENDS AccountMigration

\* What is given is given on an org, a repo or a runtime, or on what the pattern
\* of an operator's token is on, and on all that is below.
Target(target) ==
    /\ target \in Seq(STRING) /\ Len(target) >= 1 /\ ValidOrgName(target[1])
    /\ \A i \in DOMAIN target : target[i] # AnyRest

\* The target covers the path, or all that the pattern matches: "*" stands for
\* any segment and nothing else for more than itself.
Covers(target, path) ==
    /\ Len(target) <= Len(path)
    /\ \A i \in 1 .. Len(target) : SegmentMatches(target[i], path[i])

\* What mints may make of the target: where it ends in a repo or a runtime whose
\* name is "_", the probe of "**" finds it, and it counts as all of its kind.
Reaches(target, path) ==
    /\ Len(target) <= Len(path)
    /\ \A i \in 1 .. Len(target) :
          SegmentMatches(target[i], path[i]) \/ (i = Len(target) /\ target[i] = AnyName)

\* Whether one of these grants gives the user the access on the path ...
Gave(gifts, email, path, access) ==
    \E g \in gifts : g[1] = email /\ Covers(g[2], path) /\ AccessAllows(g[3], access)

\* ... or lets the user mint a token for it.
MayMint(gifts, email, path, access) ==
    \E g \in gifts : g[1] = email /\ Reaches(g[2], path) /\ AccessAllows(g[3], access)

\* A token that is a session, or may do no more than its owner may mint.
Fits(token, gifts) ==
    \/ IsSession(token)
    \/ \A scope \in token.scopes :
          scope.path \in Seq(STRING) /\ MayMint(gifts, token.email, scope.path, scope.access)

\* The path that a session's scope is on.
SessionPath(path) == Len(path) = 2 /\ path[2] = SessionName

IsToken(t) ==
    t = [org |-> t.org, scopes |-> t.scopes, email |-> t.email,
         expires |-> t.expires, expired |-> t.expired, revoked |-> t.revoked]

ScopesWithin(token) == \A scope \in token.scopes : scope.path[1] = token.org

\* Orgs and the targets of grants have passed ORG_RE and assertName; the paths
\* of files and the patterns of scopes may be any.
ASSUME NamesAssumption ==
    /\ \A org \in Orgs \cup {BootstrapOrg} : Target(<<org>>)
    /\ \A ask \in AdminAsks : Target(ask.target)
    /\ \A scope \in ScopeAsks : scope.path \in Seq(STRING) /\ Len(scope.path) >= 1
    /\ \A ask \in FileAsks : ask.path \in Seq(STRING)

\* Whether one of these grants is on something in the org.
Welcome(gifts, email, org) == \E g \in gifts : g[1] = email /\ g[2][1] = org

\* Sessions are of orgs in which their users were given something ...
SessionsWelcome(table, gifts) ==
    \A id \in DOMAIN table :
        IsSession(table[id]) => Welcome(gifts, table[id].email, table[id].org)

\* ... and orgs that a user made had that user as admin.
OwnersGiven(table, gifts) ==
    \A org \in DOMAIN table :
        table[org] = "owner" => \E email \in Emails : <<email, <<org>>, "admin">> \in gifts

\* What the tables hold at first: rows that fit together, numbered tokens, and
\* everything within what was granted.
ASSUME InitialAssumption ==
    \A a \in InitialAccounts :
        /\ a.backend \in {"sqlite", "postgres"}
        /\ UsersTyped(a.users) /\ OrgsTyped(a.orgs)
        /\ GrantsTyped(a.grants, DOMAIN a.users, DOMAIN a.orgs)
        /\ TokensTyped(a.tokens, DOMAIN a.users, DOMAIN a.orgs)
        /\ \E n \in 0 .. MaxTokens : DOMAIN a.tokens = 1 .. n
        /\ \A id \in DOMAIN a.tokens :
              IsToken(a.tokens[id]) /\ ScopesWithin(a.tokens[id]) /\ Fits(a.tokens[id], a.given)
        /\ \A g \in DOMAIN a.grants : <<g[1], g[2], a.grants[g]>> \in a.given
        /\ \A g \in a.given : Target(g[2])
        /\ SessionsWelcome(a.tokens, a.given) /\ OwnersGiven(a.orgs, a.given)

vars == <<accountVars, requestVars, copy>>

Init == AccountsInit /\ req = <<>> /\ ops = 0 /\ CopyInit

Begin(r) ==
    \/ BeginKeyname(r)
    \/ BeginLogin(r)
    \/ \E id \in DOMAIN tokens : BeginRequest(r, id) \/ BeginSessionRequest(r, id)

Progress(r) == RequestProgress(r) \/ SignInProgress(r)

Serving ==
    \/ \E r \in RequestIds : Begin(r) \/ Progress(r) \/ LoseRequest(r)
    \/ OperatorNext
    \/ \E id \in DOMAIN tokens : TokenExpires(id) /\ UNCHANGED requestVars

Next == (Serving /\ BesideMigration) \/ MigrationNext

Spec == Init /\ [][Next]_vars

\* The event loop gets to every request whose next call can be made.
FairSpec == Spec /\ \A r \in RequestIds : WF_vars(Progress(r) /\ BesideMigration)

Outcomes == {"pending", "ok", "unauthorized", "forbidden", "invalid", "missing",
             "conflict", "failed", "unverified"}

TypeOK ==
    /\ AccountsTypeOK
    /\ DOMAIN req \subseteq RequestIds
    /\ \A r \in DOMAIN req : req[r].outcome \in Outcomes /\ req[r].kind \in Kinds
    /\ Cardinality(DOMAIN req) + ops <= MaxCalls

-----------------------------------------------------------------------------
(***************************************************************************)
(* Tokens.                                                                 *)
(***************************************************************************)

\* A revoked token is never used again as another session: no switch that was
\* on its way when it was revoked gives its row a new org or new scopes.
RevokedIsFinal ==
    [][\A id \in DOMAIN tokens :
          tokens[id].revoked => tokens'[id] = [tokens[id] EXCEPT !.expired = tokens'[id].expired]]_vars

\* The scopes of a token lie in the token's own org, through every mint and
\* every switch of orgs.
ScopesWithinOrg == \A id \in DOMAIN tokens : ScopesWithin(tokens[id])

\* What an API token may do its owner was once given, or could mint from a grant
\* on a name "_": tokens that mint tokens, patterns within patterns, sessions
\* that change orgs and grants that come and go in between never add up to more.
TokensWithinGrants ==
    \A id \in DOMAIN tokens :
        ~IsSession(tokens[id]) =>
            \A scope \in tokens[id].scopes :
                MayMint(given, tokens[id].email, scope.path, scope.access)

\* A session is opened in an org, and switched to an org, in which its user
\* was given something.
SessionsWithinGrants == SessionsWelcome(tokens, given)

\* A file request is let through only for what its caller was given at some
\* time: with a session exactly that, with an API token what could be minted
\* from it.  The path of the session's own scope is no file.
AccessWithinGrants ==
    \A r \in DOMAIN req :
        LET path == req[r].arg.path
            access == req[r].arg.access
        IN  req[r].kind = "file" /\ req[r].outcome = "ok" =>
            IF IsSession(req[r].token)
            THEN SessionPath(path) \/ Gave(given, req[r].email, path, access)
            ELSE MayMint(given, req[r].email, path, access)

\* A session has no rights of its own, but for the path of its scope: the grants
\* of its user allow the request in the very step that lets it through, whatever
\* was granted before.
SessionsFollowGrants ==
    [][\A r \in DOMAIN req :
          /\ req[r].kind = "file" /\ req[r].outcome = "pending" /\ req'[r].outcome = "ok"
          /\ IsSession(req[r].token) /\ ~SessionPath(req[r].arg.path)
          => AuthorizeGrant(req[r].email, req[r].arg.path, req[r].arg.access)]_vars

\* README, "API": "List own tokens, or org tokens for org admins", "Revoke own
\* token, or any org token for org admins"; grants are listed, made and taken
\* away by admins of their own org.  Whoever was answered "ok" owns the tokens
\* in question or has at some time been admin of the org.
OthersOnlyByAdmins ==
    \A r \in DOMAIN req :
        LET admin(org) == <<req[r].email, <<org>>, "admin">> \in given
            own(id) == id \in DOMAIN tokens => tokens[id].email = req[r].email
        IN  req[r].outcome = "ok" =>
            /\ req[r].kind = "revoke" => own(req[r].arg.id) \/ admin(req[r].token.org)
            /\ req[r].kind = "tokens" =>
                   \A id \in req[r].shown : own(id) \/ admin(req[r].token.org)
            /\ req[r].kind = "grants" =>
                   \A g \in req[r].shown : admin(g[2][1])
            /\ req[r].kind \in {"grant", "ungrant"} => admin(req[r].arg.target[1])

\* A sign-in retires the earlier session of its own user and no other token,
\* also when the cookie's token is switched or revoked meanwhile.
SignInKeepsOtherTokens ==
    [][\A r \in DOMAIN req : \A id \in DOMAIN tokens :
          /\ req[r].kind = "keyname" /\ req[r].phase # req'[r].phase
          /\ ~tokens[id].revoked /\ tokens'[id].revoked
          => tokens[id].email = req[r].email /\ IsSession(tokens[id])]_vars

\* A logout answered 204 has ended the session it was sent with, also when the
\* session moved to another org between the auth hook and the handler.
LogoutEndsSession ==
    \A r \in DOMAIN req :
        req[r].kind = "logout" /\ req[r].outcome = "ok" /\ IsSession(req[r].token) =>
            tokens[req[r].id].revoked

-----------------------------------------------------------------------------
(***************************************************************************)
(* Users, orgs and grants.                                                 *)
(***************************************************************************)

\* An org that a user made, or the bootstrap, has had its owner from the start,
\* whatever stopped in between.
OrgsHaveOwners == OwnersGiven(orgs, given)

\* With the SQLite store a user once linked to a subject stays linked to it,
\* whoever signs in at the same time.  (With PostgreSQL two first sign-ins for
\* one email may both pass the check before either links.)
LinksAreStable ==
    [][\A user \in DOMAIN users :
          backend = "sqlite" /\ users[user].subject \in Subjects
             => users'[user].subject = users[user].subject]_vars

\* A migration during which no account changed hands the server the very same
\* users, orgs, grants and tokens.  (The rows are read table by table beside a
\* running server: what changes meanwhile may be there or not.)
CutOverKeepsAccounts ==
    [][backend' # backend /\ copy.quiet => UNCHANGED <<users, orgs, grants, tokens>>]_vars

\* Every request is answered, unless it is lost.
RequestsAnswered == \A r \in RequestIds : (r \in DOMAIN req) ~> Answered(r)

=============================================================================
