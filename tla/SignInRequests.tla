--------------------------- MODULE SignInRequests ---------------------------
(***************************************************************************)
(* The ways into a session and out of it (http.ts): signing in with        *)
(* Keyname, whose first user may bootstrap the server; the legacy password *)
(* and Tailscale logins; switching the org of a session; logging out.      *)
(*                                                                         *)
(* resolveKeynameIdentity is one step in SQLite; in PostgreSQL its reads   *)
(* and writes are commands of their own, and another sign-in may run       *)
(* between any two of them.                                                *)
(***************************************************************************)
EXTENDS AccessRequests

CONSTANTS
    Identities,        \* what Keyname may answer: records of subject and email
    ClaimSingleUser,   \* DOTLOCKER_KEYNAME_CLAIM_SINGLE_LEGACY_USER
    BootstrapEmails,   \* who may bootstrap; {} when bootstrapping is off
    BootstrapOrg,      \* DOTLOCKER_BOOTSTRAP_ORG
    NoOrg              \* a login that names no org

ASSUME SignInAssumption ==
    /\ ClaimSingleUser \in BOOLEAN
    /\ NoOrg \notin Orgs /\ BootstrapOrg \in Orgs
    /\ \A i \in Identities : i.subject \in Subjects /\ i.email \in Emails

\* A sign-in presents no token; id is the token in the browser's cookie, or 0.
NoToken(email) == [org |-> NoOrg, scopes |-> {}, email |-> email]

BeginSignIn(r, kind, phase, email, cookie, arg) ==
    /\ kind \in Kinds
    /\ NextRequest(r)
    /\ req' = Put(req, r, NewRequest(kind, phase, cookie, NoToken(email), arg))
    /\ UNCHANGED <<accountVars, ops>>

\* verifyKeynameSession answered; without an answer the request ends with 401
\* and nothing is done.
BeginKeyname(r) ==
    \E identity \in Identities, cookie \in DOMAIN tokens \cup {0} :
        BeginSignIn(r, "keyname", IF backend = "sqlite" THEN "resolve" ELSE "subject",
                    NoUser, cookie,
                    [identity |-> identity, candidate |-> NoUser, again |-> FALSE])

Subject(r) == req[r].arg.identity.subject
Email(r) == req[r].arg.identity.email

Found(r, user) == req' = [req EXCEPT ![r].phase = "orgs", ![r].email = user]

\* A PostgreSQL command saw a candidate: the next one claims it.
Candidate(r, phase, user) ==
    req' = [req EXCEPT ![r].phase = phase, ![r].arg.candidate = user]

\* No user for the identity: 404, unless the server may be bootstrapped.
NotProvisioned(r) ==
    IF BootstrapEmails # {} /\ ~req[r].arg.again THEN Go(r, "empty")
    ELSE AnswerWith(r, "missing")

OnlyUsers == UNCHANGED <<backend, orgs, grants, tokens, given, ops>>

LinkedElsewhere(user, subject) ==
    users[user].subject \notin {NoSubject, subject}

\* A bug to catch: the link of another identity is overwritten.
ResolveOverLink(r) ==
    /\ In(r, "keyname", "resolve") /\ OnlyUsers
    /\ \/ Email(r) \in DOMAIN users /\ Link(Email(r), Subject(r)) /\ Found(r, Email(r))
       \/ Email(r) \notin DOMAIN users /\ NotProvisioned(r) /\ UNCHANGED users

\* The SQLite store: by subject; by an early version's link to the email; by
\* email; the single user that is not linked, if that is switched on.
Resolve(r) ==
    /\ In(r, "keyname", "resolve")
    /\ OnlyUsers
    /\ IF BySubject(Subject(r)) # {}
       THEN (\E user \in BySubject(Subject(r)) : Found(r, user)) /\ UNCHANGED users
       ELSE IF BySubject(Email(r)) # {}
       THEN \E user \in BySubject(Email(r)) : Link(user, Subject(r)) /\ Found(r, user)
       ELSE IF Email(r) \in DOMAIN users
       THEN IF LinkedElsewhere(Email(r), Subject(r))
            THEN AnswerWith(r, "conflict") /\ UNCHANGED users
            ELSE Link(Email(r), Subject(r)) /\ Found(r, Email(r))
       ELSE IF ClaimSingleUser /\ Cardinality(Unlinked) = 1
       THEN \E user \in Unlinked : Link(user, Subject(r)) /\ Found(r, user)
       ELSE NotProvisioned(r) /\ UNCHANGED users

\* The PostgreSQL store, command by command.
SelectBySubject(r) ==
    /\ In(r, "keyname", "subject")
    /\ IF BySubject(Subject(r)) = {} THEN Go(r, "legacy")
       ELSE \E user \in BySubject(Subject(r)) : Found(r, user)
    /\ OnlyUsers /\ UNCHANGED users

SelectLegacy(r) ==
    /\ In(r, "keyname", "legacy")
    /\ IF BySubject(Email(r)) = {} THEN Go(r, "email")
       ELSE \E user \in BySubject(Email(r)) : Candidate(r, "claimLegacy", user)
    /\ OnlyUsers /\ UNCHANGED users

SelectByEmail(r) ==
    /\ In(r, "keyname", "email")
    /\ IF Email(r) \notin DOMAIN users
       THEN IF ClaimSingleUser THEN Go(r, "candidates") ELSE NotProvisioned(r)
       ELSE IF LinkedElsewhere(Email(r), Subject(r)) THEN AnswerWith(r, "conflict")
       ELSE Candidate(r, "link", Email(r))
    /\ OnlyUsers /\ UNCHANGED users

SelectCandidates(r) ==
    /\ In(r, "keyname", "candidates")
    /\ IF Cardinality(Unlinked) = 1
       THEN \E user \in Unlinked : Candidate(r, "claimSingle", user)
       ELSE NotProvisioned(r)
    /\ OnlyUsers /\ UNCHANGED users

\* UPDATE ... WHERE the link is still the one read.  The unique index on the
\* subject makes it fail when another user took the subject meanwhile.
ClaimCandidate(r) ==
    LET user == req[r].arg.candidate
        legacy == req[r].phase = "claimLegacy"
        expected == IF legacy THEN Email(r) ELSE NoSubject
    IN  /\ r \in DOMAIN req /\ req[r].kind = "keyname"
        /\ req[r].phase \in {"claimLegacy", "claimSingle"}
        /\ OnlyUsers
        /\ IF users[user].subject # expected
           THEN (IF legacy THEN Go(r, "email") ELSE NotProvisioned(r)) /\ UNCHANGED users
           ELSE IF BySubject(Subject(r)) # {}
           THEN AnswerWith(r, "failed") /\ UNCHANGED users
           ELSE Link(user, Subject(r)) /\ Found(r, user)

\* UPDATE ... WHERE email, whatever the link is by now.
LinkByEmail(r) ==
    LET user == req[r].arg.candidate IN
    /\ In(r, "keyname", "link")
    /\ OnlyUsers
    /\ IF BySubject(Subject(r)) \ {user} # {}
       THEN AnswerWith(r, "failed") /\ UNCHANGED users
       ELSE Link(user, Subject(r)) /\ Found(r, user)

\* resolveOrBootstrapKeynameIdentity: the first user and its org, in an empty
\* server, and then the identity is resolved once more.
CheckEmpty(r) ==
    /\ In(r, "keyname", "empty")
    /\ IF IsEmpty /\ Email(r) \in BootstrapEmails THEN Go(r, "createUser")
       ELSE AnswerWith(r, "missing")
    /\ OnlyUsers /\ UNCHANGED users

BootstrapUser(r) ==
    /\ In(r, "keyname", "createUser")
    /\ OnlyUsers
    /\ \/ CreateUser(Email(r), TRUE) /\ Go(r, "createOrg")
       \/ Email(r) \in DOMAIN users /\ AnswerWith(r, "conflict") /\ UNCHANGED users

BootstrapOrganization(r) ==
    /\ In(r, "keyname", "createOrg")
    /\ \/ /\ CreateOrganization(BootstrapOrg, Email(r))
          /\ req' = [req EXCEPT ![r].phase = IF backend = "sqlite" THEN "resolve" ELSE "subject",
                                ![r].arg.again = TRUE]
       \/ /\ BootstrapOrg \in DOMAIN orgs
          /\ AnswerWith(r, "conflict") /\ UNCHANGED <<orgs, grants, given>>
    /\ UNCHANGED <<backend, users, tokens, ops>>

-----------------------------------------------------------------------------

BeginLogin(r) ==
    \/ \E email \in Emails, org \in DOMAIN orgs \cup {NoOrg} :
          BeginSignIn(r, "login", "password", email, 0, [org |-> org])
    \/ \E email \in Emails, org \in DOMAIN orgs :
          BeginSignIn(r, "tailscale", "any", email, 0, [org |-> org])

\* assertPassword and the verified check.  No code of the server turns TOTP on.
CheckPassword(r) ==
    /\ In(r, "login", "password")
    /\ IF req[r].email \in DOMAIN users /\ users[req[r].email].verified
       THEN Go(r, IF req[r].arg.org = NoOrg THEN "orgs" ELSE "any")
       ELSE AnswerWith(r, "unauthorized")
    /\ UNCHANGED <<accountVars, ops>>

\* accessibleOrgs; the first one is the session's.  A login goes on to ask
\* hasAnyGrant of it.
ChooseOrg(r) ==
    LET names == AccessibleOrgs(req[r].email) IN
    /\ r \in DOMAIN req /\ req[r].phase = "orgs"
    /\ IF names = {} THEN AnswerWith(r, "forbidden")
       ELSE req' = [req EXCEPT ![r].phase = IF req[r].kind = "login" THEN "any" ELSE "open",
                               ![r].token.org = FirstOrg(names)]
    /\ UNCHANGED <<accountVars, ops>>

\* The org of a login or a switch: the one named or, for a login, the first.
WantedOrg(r) ==
    IF req[r].arg.org = NoOrg THEN req[r].token.org ELSE req[r].arg.org

\* A bug to catch: the grants of the user in the org are not asked for.
CheckNoGrant(r) ==
    /\ r \in DOMAIN req /\ req[r].phase = "any"
    /\ req' = [req EXCEPT ![r].phase = IF req[r].kind = "switch" THEN "update" ELSE "open",
                          ![r].token.org = IF req[r].kind = "switch" THEN @ ELSE WantedOrg(r)]
    /\ UNCHANGED <<accountVars, ops>>

\* hasAnyGrant
CheckAnyGrant(r) ==
    /\ r \in DOMAIN req /\ req[r].phase = "any"
    /\ IF HasAnyGrant(req[r].email, WantedOrg(r))
       THEN req' = [req EXCEPT ![r].phase = IF req[r].kind = "switch" THEN "update" ELSE "open",
                               ![r].token.org = IF req[r].kind = "switch" THEN @ ELSE WantedOrg(r)]
       ELSE AnswerWith(r, "forbidden")
    /\ UNCHANGED <<accountVars, ops>>

\* mintToken with the session scope, for twelve hours or as asked.
OpenSession(r) ==
    LET org == req[r].token.org
        scopes == SessionScopes(org)
    IN  /\ r \in DOMAIN req /\ req[r].phase = "open"
        /\ \/ /\ MintAccepted(org, scopes, req[r].email)
              /\ InsertToken(org, scopes, req[r].email, TRUE)
              /\ IF req[r].kind = "keyname" /\ req[r].id # 0 THEN Go(r, "prior")
                 ELSE AnswerWith(r, "ok")
           \/ /\ ~MintAccepted(org, scopes, req[r].email)
              /\ AnswerWith(r, "unverified") /\ UNCHANGED tokens
        /\ UNCHANGED <<backend, users, orgs, grants, given, ops>>

\* A bug to catch: whoever's session the cookie holds is revoked.
CheckPriorLive(r) ==
    /\ In(r, "keyname", "prior")
    /\ IF Live(req[r].id) THEN Go(r, "revokePrior") ELSE AnswerWith(r, "ok")
    /\ UNCHANGED <<accountVars, ops>>

\* The cookie of an earlier session of the same user ...
CheckPrior(r) ==
    LET prior == tokens[req[r].id] IN
    /\ In(r, "keyname", "prior")
    /\ IF Live(req[r].id) /\ prior.email = req[r].email /\ IsSession(prior)
       THEN Go(r, "revokePrior") ELSE AnswerWith(r, "ok")
    /\ UNCHANGED <<accountVars, ops>>

\* A bug to catch: a session that was revoked meanwhile is waited for.
RevokePriorOnce(r) ==
    /\ In(r, "keyname", "revokePrior")
    /\ RevokeToken(req[r].id)
    /\ AnswerWith(r, "ok")
    /\ UNCHANGED <<backend, users, orgs, grants, given, ops>>

\* ... which is revoked, unless that was done meanwhile.
RevokePrior(r) ==
    /\ In(r, "keyname", "revokePrior")
    /\ RevokeToken(req[r].id) \/ (tokens[req[r].id].revoked /\ UNCHANGED tokens)
    /\ AnswerWith(r, "ok")
    /\ UNCHANGED <<backend, users, orgs, grants, given, ops>>

-----------------------------------------------------------------------------

BeginSessionRequest(r, id) ==
    \/ \E org \in Orgs : Arrive(r, "switch", IF tokens[id].email = NoUser THEN "invalid" ELSE "any",
                                id, [org |-> org])
    \/ Arrive(r, "logout", "revoke", id, [org |-> NoOrg])

RejectSwitch(r) ==
    /\ In(r, "switch", "invalid")
    /\ AnswerWith(r, "invalid")
    /\ UNCHANGED <<accountVars, ops>>

SwitchOrg(r) ==
    /\ In(r, "switch", "update")
    /\ \/ SwitchTokenOrg(req[r].id, req[r].arg.org) /\ AnswerWith(r, "ok")
       \/ tokens[req[r].id].revoked /\ AnswerWith(r, "missing") /\ UNCHANGED tokens
    /\ UNCHANGED <<backend, users, orgs, grants, given, ops>>

\* A bug to catch: the row is asked whether it is still a session of the org
\* the request came with.
LogoutOfOrg(r) ==
    /\ In(r, "logout", "revoke")
    /\ IF tokens[req[r].id].scopes = SessionScopes(req[r].token.org)
       THEN \/ RevokeToken(req[r].id) /\ AnswerWith(r, "ok")
            \/ tokens[req[r].id].revoked /\ AnswerWith(r, "missing") /\ UNCHANGED tokens
       ELSE AnswerWith(r, "ok") /\ UNCHANGED tokens
    /\ UNCHANGED <<backend, users, orgs, grants, given, ops>>

\* The hook's copy of the token tells whether it is a session; an API token
\* survives its logout.
Logout(r) ==
    /\ In(r, "logout", "revoke")
    /\ IF IsSession(req[r].token)
       THEN \/ RevokeToken(req[r].id) /\ AnswerWith(r, "ok")
            \/ tokens[req[r].id].revoked /\ AnswerWith(r, "missing") /\ UNCHANGED tokens
       ELSE AnswerWith(r, "ok") /\ UNCHANGED tokens
    /\ UNCHANGED <<backend, users, orgs, grants, given, ops>>

SignInProgress(r) ==
    \/ Resolve(r) \/ SelectBySubject(r) \/ SelectLegacy(r) \/ SelectByEmail(r)
    \/ SelectCandidates(r) \/ ClaimCandidate(r) \/ LinkByEmail(r)
    \/ CheckEmpty(r) \/ BootstrapUser(r) \/ BootstrapOrganization(r)
    \/ CheckPassword(r) \/ ChooseOrg(r) \/ CheckAnyGrant(r) \/ OpenSession(r)
    \/ CheckPrior(r) \/ RevokePrior(r)
    \/ RejectSwitch(r) \/ SwitchOrg(r) \/ Logout(r)

=============================================================================
