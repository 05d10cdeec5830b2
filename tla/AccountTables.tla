---------------------------- MODULE AccountTables ----------------------------
(***************************************************************************)
(* The tables users, orgs, org_memberships, repo_grants, runtime_grants    *)
(* and tokens, and the calls of AuthStore on them (users.ts, grants.ts,    *)
(* tokens.ts, auth-store.ts).  The SQLite store makes each call in one     *)
(* step.  The PostgreSQL store makes the same changes with a command each; *)
(* where it reads before it writes what a concurrent request may change,   *)
(* the request makes the calls one by one (SignInRequests: the Keyname     *)
(* link, AccessRequests: the grant lookups).                               *)
(*                                                                         *)
(* The three grant tables are one function from user and target: a target  *)
(* is the path <<org>>, <<org, repo>> or <<org, repo, runtime>>.  Passwords *)
(* and secrets are compared, never changed: a caller presents the right    *)
(* one.                                                                    *)
(***************************************************************************)
EXTENDS AccessScopes, FiniteSets

CONSTANTS
    Emails,           \* user names
    NoUser,           \* a token without owner
    Subjects,         \* immutable Keyname ids
    NoSubject,        \* a user not linked to Keyname
    OrgOrder,         \* the org names, as ORDER BY org lists them
    MaxTokens,        \* bound: tokens ever minted, those of Init included
    MaxExpired,       \* bound: tokens that expire
    InitialAccounts   \* the contents of the tables a run starts from

\* A Keyname id never reads as an email.
ASSUME AccountsAssumption ==
    /\ NoUser \notin Emails /\ NoSubject \notin Subjects \cup Emails /\ Subjects \cap Emails = {}
    /\ OrgOrder \in Seq(STRING) /\ MaxTokens \in Nat /\ MaxExpired \in Nat

VARIABLES
    backend,   \* which store the server was started with
    users,     \* users: verified_at is set, keyname_subject
    orgs,      \* orgs; "by" tells who made it (auxiliary)
    grants,    \* user and target -> access
    tokens,    \* token rows, by id
    given      \* auxiliary: every grant ever made: user, target, access

accountVars == <<backend, users, orgs, grants, tokens, given>>

Orgs == ToSet(OrgOrder)

\* keyname_subject holds an email where an early version wrote it.
UserRows == [verified : BOOLEAN, subject : Subjects \cup Emails \cup {NoSubject}]

\* A grant on an org is on its administration; every row refers to rows that
\* exist, with or without a foreign key.
GrantsTyped(table, people, places) ==
    /\ table = [g \in DOMAIN table |-> table[g]]
    /\ \A g \in DOMAIN table :
          /\ g = <<g[1], g[2]>> /\ g[1] \in people /\ g[2][1] \in places
          /\ Len(g[2]) \in 1 .. 3 /\ table[g] \in GrantAccess
          /\ Len(g[2]) = 1 => table[g] = "admin"

TokensTyped(table, people, places) ==
    \A id \in DOMAIN table :
        /\ table[id].org \in places /\ table[id].email \in people \cup {NoUser}
        /\ {table[id].expires, table[id].expired, table[id].revoked} \subseteq BOOLEAN

UsersTyped(table) == DOMAIN table \subseteq Emails /\ \A e \in DOMAIN table : table[e] \in UserRows

OrgsTyped(table) ==
    DOMAIN table \subseteq Orgs /\ \A o \in DOMAIN table : table[o] \in {"operator", "owner"}

\* The id of the latest token.  In the code an id is random, and so is never
\* seen again: a server on PostgreSQL counts on from beyond those of SQLite.
LastToken == Cardinality(DOMAIN tokens) + (IF backend = "postgres" THEN MaxTokens ELSE 0)

NewToken == LastToken + 1

AccountsTypeOK ==
    /\ backend \in {"sqlite", "postgres"}
    /\ UsersTyped(users) /\ OrgsTyped(orgs)
    /\ GrantsTyped(grants, DOMAIN users, DOMAIN orgs)
    /\ TokensTyped(tokens, DOMAIN users, DOMAIN orgs)
    /\ IsFiniteSet(DOMAIN tokens) /\ DOMAIN tokens \subseteq 1 .. LastToken

AccountsInit ==
    \E accounts \in InitialAccounts :
        /\ backend = accounts.backend
        /\ users = accounts.users
        /\ orgs = accounts.orgs
        /\ grants = accounts.grants
        /\ tokens = accounts.tokens
        /\ given = accounts.given

\* f with x mapped to y, whether x was in its domain or not.
Put(f, x, y) == [z \in DOMAIN f \cup {x} |-> IF z = x THEN y ELSE f[z]]

-----------------------------------------------------------------------------
(***************************************************************************)
(* users                                                                   *)
(***************************************************************************)

\* createUser; an email that has a row is a ConflictError.
CreateUser(email, verified) ==
    /\ email \notin DOMAIN users
    /\ users' = Put(users, email, [verified |-> verified, subject |-> NoSubject])

\* verifyUserEmail
VerifyUserEmail(email) ==
    /\ email \in DOMAIN users
    /\ users' = [users EXCEPT ![email].verified = TRUE]

\* The users Keyname finds: linked to the subject; linked by an early version
\* to the email; not linked at all.
BySubject(subject) == {e \in DOMAIN users : users[e].subject = subject}
Unlinked == BySubject(NoSubject)

\* UPDATE users SET keyname_subject, verified_at WHERE email.
Link(email, subject) ==
    users' = [users EXCEPT ![email] = [verified |-> TRUE, subject |-> subject]]

-----------------------------------------------------------------------------
(***************************************************************************)
(* orgs and grants                                                         *)
(***************************************************************************)

IsOrgAdmin(email, org) == <<email, <<org>>>> \in DOMAIN grants

AccessibleOrgs(email) == {g[2][1] : g \in {h \in DOMAIN grants : h[1] = email}}

HasAnyGrant(email, org) == org \in AccessibleOrgs(email)

\* ORDER BY org, the first row.
FirstOrg(names) ==
    LET i == CHOOSE k \in DOMAIN OrgOrder :
                /\ OrgOrder[k] \in names
                /\ \A j \in 1 .. k - 1 : OrgOrder[j] \notin names
    IN  OrgOrder[i]

\* Whether the grant of the target of length k that covers the path allows it:
\* k = 1 is isOrgAdmin, 2 the row of repo_grants, 3 the row of runtime_grants.
GrantedAt(email, path, access, k) ==
    LET grant == <<email, SubSeq(path, 1, k)>> IN
    grant \in DOMAIN grants /\ AccessAllows(grants[grant], access)

\* How many lookups authorizeGrant makes for a path.
Lookups(path) == IF Len(path) < 2 THEN 0 ELSE IF Len(path) = 2 THEN 2 ELSE 3

\* authorizeGrant of the SQLite store: the three lookups at once.
AuthorizeGrant(email, path, access) ==
    \E k \in 1 .. Lookups(path) : GrantedAt(email, path, access, k)

\* grantOrgAdmin, grantRepo, grantRuntime: the user and the org must exist; an
\* earlier access on the same target is replaced.
GrantFound(email, target) == email \in DOMAIN users /\ target[1] \in DOMAIN orgs

\* The upsert by itself, a command of the PostgreSQL store.
UpsertGrant(email, target, access) ==
    /\ grants' = Put(grants, <<email, target>>, access)
    /\ given' = given \cup {<<email, target, access>>}

\* A bug to catch: neither the user nor the org is looked up.
GrantUnchecked(email, target, access) == UpsertGrant(email, target, access)

Grant(email, target, access) ==
    GrantFound(email, target) /\ UpsertGrant(email, target, access)

\* listOrgGrants, listUserGrants: each grant as user, target and access.
OrgGrants(org) ==
    {<<g[1], g[2], grants[g]>> : g \in {h \in DOMAIN grants : h[2][1] = org}}

UserGrants(email, org) == {g \in OrgGrants(org) : g[1] = email}

\* revokeGrant deletes the row of exactly this target.
RevokeGrant(email, target) ==
    /\ <<email, target>> \in DOMAIN grants
    /\ grants' = [g \in DOMAIN grants \ {<<email, target>>} |-> grants[g]]

\* createOrg, which only the operator calls by itself: an org without owner.
CreateOrg(org) ==
    /\ org \notin DOMAIN orgs
    /\ orgs' = Put(orgs, org, "operator")

\* A bug to catch: the org is inserted and its owner's membership is not.
CreateOrganizationOnly(org, owner) ==
    /\ org \notin DOMAIN orgs
    /\ orgs' = Put(orgs, org, "owner")
    /\ UNCHANGED <<grants, given>>

\* createOrganization: the org and its owner's membership, one transaction.
CreateOrganization(org, owner) ==
    /\ org \notin DOMAIN orgs
    /\ owner \in DOMAIN users
    /\ orgs' = Put(orgs, org, "owner")
    /\ grants' = Put(grants, <<owner, <<org>>>>, "admin")
    /\ given' = given \cup {<<owner, <<org>>, "admin">>}

\* isEmpty
IsEmpty == users = <<>> /\ orgs = <<>>

-----------------------------------------------------------------------------
(***************************************************************************)
(* tokens                                                                  *)
(***************************************************************************)

Live(id) == id \in DOMAIN tokens /\ ~tokens[id].revoked /\ ~tokens[id].expired

IsSession(token) ==
    Cardinality(token.scopes) = 1
        /\ \A scope \in token.scopes : scope.path = <<token.org, SessionName>>

\* listTokens: the revoked and the expired ones as well.
ListTokens(org) == {id \in DOMAIN tokens : tokens[id].org = org}

\* What mintToken of either store asks before it inserts ...
ScopesAccepted(org, scopes) ==
    ValidOrgName(org) /\ org \in DOMAIN orgs /\ ValidScopes(scopes, org)

\* ... and the SQLite store also of the owner, who must be verified.
MintAccepted(org, scopes, email) ==
    /\ ScopesAccepted(org, scopes)
    /\ backend = "sqlite" /\ email # NoUser => email \in DOMAIN users /\ users[email].verified

InsertToken(org, scopes, email, expires) ==
    /\ Cardinality(DOMAIN tokens) < MaxTokens
    /\ tokens' = Put(tokens, NewToken,
                     [org |-> org, scopes |-> scopes, email |-> email,
                      expires |-> expires, expired |-> FALSE, revoked |-> FALSE])

\* A bug to catch: the token keeps the scopes of the org it leaves.
SwitchTokenOrgOnly(id, org) ==
    /\ id \in DOMAIN tokens /\ ~tokens[id].revoked
    /\ tokens' = [tokens EXCEPT ![id].org = org]

\* A bug to catch: a revoked token is switched as well.
SwitchTokenOrgOfAny(id, org) ==
    /\ id \in DOMAIN tokens
    /\ tokens' = [tokens EXCEPT ![id].org = org, ![id].scopes = SessionScopes(org)]

\* switchTokenOrg: whatever its scopes were, the token is a session of the org
\* from now on.  A revoked token is a NotFoundError.
SwitchTokenOrg(id, org) ==
    /\ id \in DOMAIN tokens /\ ~tokens[id].revoked
    /\ tokens' = [tokens EXCEPT ![id].org = org, ![id].scopes = SessionScopes(org)]

\* revokeToken; once revoked it is a NotFoundError.
RevokeToken(id) ==
    /\ id \in DOMAIN tokens /\ ~tokens[id].revoked
    /\ tokens' = [tokens EXCEPT ![id].revoked = TRUE]

\* The expiry time of a token passes.
TokenExpires(id) ==
    /\ id \in DOMAIN tokens /\ tokens[id].expires /\ ~tokens[id].expired
    /\ Cardinality({t \in DOMAIN tokens : tokens[t].expired}) < MaxExpired
    /\ tokens' = [tokens EXCEPT ![id].expired = TRUE]
    /\ UNCHANGED <<backend, users, orgs, grants, given>>

=============================================================================
