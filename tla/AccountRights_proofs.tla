-------------------------- MODULE AccountRights_proofs --------------------------
(***************************************************************************)
(* Theorems about AccountServer, for any users, orgs, requests and         *)
(* commands, both stores and the change from one to the other: the tables  *)
(* fit together, orgs have owners, sessions are where their users may be,  *)
(* and whoever was answered "ok" was entitled to it.                       *)
(*                                                                         *)
(* What a request has read and goes on from may have changed in between:   *)
(* the invariant says for each phase what of it still holds.               *)
(***************************************************************************)
EXTENDS AccountServer_proofs, WellFoundedInduction, NaturalsInduction

\* What a request relies on: what was given, who and which orgs exist, the
\* tokens and the latest one, the store, and whether it has been the only one.
World ==
    [gifts |-> given, people |-> DOMAIN users, places |-> DOMAIN orgs, table |-> tokens,
     last |-> LastToken, store |-> backend, alone |-> copy.phase = "none"]

AdminIn(w, email, org) == <<email, <<org>>, "admin">> \in w.gifts

OwnsToken(w, email, id) == id \in DOMAIN w.table => w.table[id].email = email

\* In the midst of resolving an identity with commands of PostgreSQL.
Resolving == {"subject", "legacy", "email", "candidates", "claimLegacy", "claimSingle", "link"}

SignIns == {"keyname", "login", "tailscale"}

\* Which kinds of requests are in the phases that several share, and what they
\* asked for.
WellAsked(row, w) ==
    /\ row.kind \in Kinds /\ row.outcome \in Outcomes
    /\ row.phase = "orgs" => row.kind \in {"keyname", "login"}
    /\ row.phase = "any" => row.kind \in {"login", "tailscale", "switch"}
    /\ row.phase = "open" => row.kind \in SignIns
    /\ row.kind \in SignIns =>
          row.token = [org |-> row.token.org, scopes |-> row.token.scopes, email |-> row.token.email]
    /\ row.kind = "keyname" =>
          /\ row.arg = [identity |-> row.arg.identity, candidate |-> row.arg.candidate,
                        again |-> row.arg.again]
          /\ row.arg.identity \in Identities
    /\ row.kind = "org" => row.arg.org \in Orgs
    /\ row.kind = "revoke" => row.arg.id \in 1 .. w.last
    /\ row.kind = "tokens" => row.shown \subseteq 1 .. w.last
    /\ row.kind \in {"user", "verify"} => row.arg.email \in Emails
    /\ row.kind \in {"grant", "ungrant"} => row.arg \in AdminAsks
    /\ row.kind = "switch" => row.arg.org \in Orgs

MayRevoke(row, w) == OwnsToken(w, row.email, row.arg.id) \/ AdminIn(w, row.email, row.token.org)

\* What an answer "ok" says about the caller, or has done.
Entitled(row, w) ==
    /\ row.kind = "revoke" => MayRevoke(row, w)
    /\ row.kind = "tokens" =>
          \A id \in row.shown : OwnsToken(w, row.email, id) \/ AdminIn(w, row.email, row.token.org)
    /\ row.kind = "grants" => \A g \in row.shown : AdminIn(w, row.email, g[2][1])
    /\ row.kind \in {"grant", "ungrant"} => AdminIn(w, row.email, row.arg.target[1])
    /\ row.kind = "logout" /\ w.alone /\ IsSession(row.token)
          => row.id \in DOMAIN w.table /\ w.table[row.id].revoked

\* What a request has found out by the time it is in its phase.
FoundOut(row, w) ==
    /\ row.kind = "mint" => row.email \in w.people \cup {NoUser}
    /\ row.kind = "mint" /\ IsSession(row.token) => Welcome(w.gifts, row.email, row.token.org)
    /\ row.kind = "revoke" /\ row.phase = "update" => MayRevoke(row, w)
    /\ row.kind = "grants" /\ row.phase = "apply" => AdminIn(w, row.email, row.arg.org)
    /\ row.kind \in {"grant", "ungrant"} /\ row.phase \in {"apply", "upsert"}
          => AdminIn(w, row.email, row.arg.target[1])
    /\ row.kind = "grant" /\ row.phase = "upsert"
          => row.arg.email \in w.people /\ row.arg.target[1] \in w.places
    /\ row.kind = "switch" => row.id \in DOMAIN w.table /\ w.table[row.id].email = row.email
    /\ row.kind = "switch" /\ row.phase = "update"
          => row.arg.org \in w.places /\ Welcome(w.gifts, row.email, row.arg.org)
    /\ row.kind = "logout" => row.id \in DOMAIN w.table
    /\ row.phase = "open" => row.email \in w.people /\ Welcome(w.gifts, row.email, row.token.org)
    /\ row.phase \in {"claimLegacy", "claimSingle", "link"} => row.arg.candidate \in w.people
    /\ row.phase = "revokePrior"
          => /\ row.id \in DOMAIN w.table /\ w.table[row.id].email = row.email
             /\ IsSession(w.table[row.id])
    /\ row.phase \in Resolving => w.store = "postgres"

RowKnows(row, w) ==
    /\ WellAsked(row, w)
    /\ row.outcome = "ok" => Entitled(row, w)
    /\ row.phase \notin Ended => row.outcome = "pending" /\ FoundOut(row, w)

RowsKnow == \A r \in DOMAIN req : RowKnows(req[r], World)

CountInv ==
    /\ DOMAIN req \subseteq RequestIds /\ IsFiniteSet(DOMAIN req) /\ ops \in Nat
    /\ DOMAIN req = 1 .. Cardinality(DOMAIN req)
    /\ Cardinality(DOMAIN req) + ops <= MaxCalls

\* The tables: rows that fit together, owners and sessions.
TablesInv ==
    /\ AccountsTypeOK /\ Cardinality(DOMAIN tokens) <= MaxTokens
    /\ OwnersGiven(orgs, given) /\ SessionsWelcome(tokens, given)

\* The rows on their way to PostgreSQL fit together as well; each of their
\* tokens is still there; and when nothing changed since the script began, they
\* are all that there is.
CopyPhases == {"none", "copying", "verifying", "done", "failed"}

RowsTyped(rows, gifts) ==
    LET people == DOMAIN rows["users"]
        places == DOMAIN rows["orgs"]
    IN  /\ UsersTyped(rows["users"]) /\ OrgsTyped(rows["orgs"])
        /\ \A table \in GrantTables : GrantsTyped(rows[table], people, places)
        /\ TokensTyped(rows["tokens"], people, places)
        /\ OwnersGiven(rows["orgs"], gifts) /\ SessionsWelcome(rows["tokens"], gifts)

CopyOrder ==
    /\ copy.phase \in CopyPhases /\ copy.at \in 1 .. 6
    /\ copy.phase = "none" => copy.at = 1
    /\ copy.phase \in {"none", "copying"} =>
          \A i \in copy.at .. 6 : copy.rows[Tables[i]] = <<>>

CopyBehind ==
    backend = "sqlite" =>
        \A id \in DOMAIN copy.rows["tokens"] :
            id \in DOMAIN tokens /\ copy.rows["tokens"][id].email = tokens[id].email

Copied == IF copy.phase = "copying" THEN 1 .. copy.at - 1 ELSE 1 .. 6

CopyQuiet ==
    backend = "sqlite" /\ copy.quiet /\ copy.phase \in {"copying", "verifying", "done"} =>
        \A i \in Copied : copy.rows[Tables[i]] = Rows(Tables[i])

MovedInv == RowsTyped(copy.rows, given) /\ CopyOrder /\ CopyBehind /\ CopyQuiet

AInv == TablesInv /\ RowsKnow /\ CountInv /\ MovedInv

-----------------------------------------------------------------------------
(***************************************************************************)
(* What stays true of a request while others go on.                        *)
(***************************************************************************)

\* Gifts are remembered, and ids are never used again.
Remembers(w, w2) ==
    /\ w.gifts \subseteq w2.gifts
    /\ w.last \in Nat /\ w2.last \in Nat /\ w.last <= w2.last
    /\ \A id \in DOMAIN w2.table :
          \/ id \in DOMAIN w.table /\ w2.table[id].email = w.table[id].email
          \/ id \notin 1 .. w.last
    /\ w2.alone => w.alone /\ \A id \in DOMAIN w.table :
                                 id \in DOMAIN w2.table /\ (w.table[id].revoked => w2.table[id].revoked)

\* With the same store nothing but grants is taken away.
Grows(w, w2) ==
    /\ Remembers(w, w2)
    /\ w.people \subseteq w2.people /\ w.places \subseteq w2.places /\ w2.store = w.store
    /\ \A id \in DOMAIN w.table :
          /\ id \in DOMAIN w2.table /\ w2.table[id].email = w.table[id].email
          /\ IsSession(w.table[id]) => IsSession(w2.table[id])

LEMMA AskedStays ==
    ASSUME NEW row, NEW w, NEW w2, WellAsked(row, w), Remembers(w, w2)
    PROVE  WellAsked(row, w2)
  <1>1. \A id : id \in 1 .. w.last => id \in 1 .. w2.last
    BY DEF Remembers
  <1> QED
    BY <1>1 DEF WellAsked

LEMMA OwnershipStays ==
    ASSUME NEW w, NEW w2, Remembers(w, w2), NEW email, NEW id \in 1 .. w.last,
           OwnsToken(w, email, id)
    PROVE  OwnsToken(w2, email, id)
  BY DEF Remembers, OwnsToken

LEMMA AdminStays ==
    ASSUME NEW w, NEW w2, Remembers(w, w2), NEW email, NEW org, AdminIn(w, email, org)
    PROVE  AdminIn(w2, email, org)
  BY DEF Remembers, AdminIn

LEMMA MayRevokeStays ==
    ASSUME NEW row, NEW w, NEW w2, Remembers(w, w2), row.arg.id \in 1 .. w.last, MayRevoke(row, w)
    PROVE  MayRevoke(row, w2)
  BY OwnershipStays, AdminStays DEF MayRevoke

LEMMA EntitledStays ==
    ASSUME NEW row, NEW w, NEW w2, WellAsked(row, w), Remembers(w, w2), Entitled(row, w)
    PROVE  Entitled(row, w2)
  <1>1. row.kind = "revoke" => MayRevoke(row, w2)
    BY MayRevokeStays DEF WellAsked, Entitled
  <1>2. ASSUME row.kind = "tokens", NEW id \in row.shown
        PROVE  OwnsToken(w2, row.email, id) \/ AdminIn(w2, row.email, row.token.org)
    <2>1. id \in 1 .. w.last
      BY <1>2 DEF WellAsked
    <2> QED
      BY <1>2, <2>1, OwnershipStays, AdminStays DEF Entitled
  <1>3. row.kind = "grants" => \A g \in row.shown : AdminIn(w2, row.email, g[2][1])
    BY AdminStays DEF Entitled
  <1>4. row.kind \in {"grant", "ungrant"} => AdminIn(w2, row.email, row.arg.target[1])
    BY AdminStays DEF Entitled
  <1>5. row.kind = "logout" /\ w2.alone /\ IsSession(row.token)
          => row.id \in DOMAIN w2.table /\ w2.table[row.id].revoked
    BY DEF Entitled, Remembers
  <1> QED
    BY <1>1, <1>2, <1>3, <1>4, <1>5 DEF Entitled

LEMMA FindingsStay ==
    ASSUME NEW row, NEW w, NEW w2, WellAsked(row, w), Grows(w, w2), FoundOut(row, w)
    PROVE  FoundOut(row, w2)
  <1>1. Remembers(w, w2)
    BY DEF Grows
  <1>2. \A email, org : Welcome(w.gifts, email, org) => Welcome(w2.gifts, email, org)
    BY <1>1 DEF Remembers, Welcome
  <1>3. /\ row.kind = "revoke" /\ row.phase = "update" => MayRevoke(row, w2)
        /\ row.kind = "grants" /\ row.phase = "apply" => AdminIn(w2, row.email, row.arg.org)
        /\ row.kind \in {"grant", "ungrant"} /\ row.phase \in {"apply", "upsert"}
              => AdminIn(w2, row.email, row.arg.target[1])
    BY <1>1, MayRevokeStays, AdminStays DEF FoundOut, WellAsked
  <1> QED
    BY <1>2, <1>3 DEF FoundOut, Grows

LEMMA RowStays ==
    ASSUME NEW row, NEW w, NEW w2, RowKnows(row, w), Grows(w, w2)
    PROVE  RowKnows(row, w2)
  BY AskedStays, EntitledStays, FindingsStay DEF RowKnows, Grows

-----------------------------------------------------------------------------
(***************************************************************************)
(* What a step of the server does to the tables.                           *)
(***************************************************************************)

\* With the SQLite store no link to a subject is written over another.
UserStep ==
    \/ UNCHANGED users
    \/ \E email \in Emails, verified \in BOOLEAN : CreateUser(email, verified)
    \/ \E email \in Emails : VerifyUserEmail(email)
    \/ \E user \in DOMAIN users, subject \in Subjects :
          /\ Link(user, subject)
          /\ backend = "sqlite" => users[user].subject \notin Subjects \ {subject}

OrgStep ==
    \/ UNCHANGED orgs
    \/ \E org \in Orgs : CreateOrg(org)
    \/ \E org \in Orgs, owner \in DOMAIN users : CreateOrganization(org, owner)

GrantRowsStep ==
    \/ UNCHANGED grants
    \/ \E target : \E email \in DOMAIN users, access \in GrantAccess :
          /\ target[1] \in DOMAIN orgs' /\ Len(target) \in 1 .. 3 /\ (Len(target) = 1 => access = "admin")
          /\ grants' = Put(grants, <<email, target>>, access)
    \/ \E email, target : RevokeGrant(email, target)

TokenRowsStep ==
    \/ UNCHANGED tokens
    \/ \E scopes : \E org \in DOMAIN orgs, email \in DOMAIN users \cup {NoUser}, expires \in BOOLEAN :
          /\ InsertToken(org, scopes, email, expires) /\ scopes # {}
          /\ Welcome(given', email, org)
    \/ \E id : \E org \in DOMAIN orgs :
          SwitchTokenOrg(id, org) /\ Welcome(given', tokens[id].email, org)
    \/ \E id : RevokeToken(id)
    \/ \E id : TokenExpires(id)

RightsStep ==
    /\ UserStep /\ OrgStep /\ GrantRowsStep /\ TokenRowsStep
    /\ given \subseteq given' /\ backend' = backend /\ copy'.phase = copy.phase

LEMMA UsersGrow ==
    ASSUME AccountsTypeOK, UserStep
    PROVE  UsersTyped(users') /\ DOMAIN users \subseteq DOMAIN users'
  <1>1. DOMAIN users \subseteq Emails /\ \A e \in DOMAIN users : users[e] \in UserRows
    BY DEF AccountsTypeOK, UsersTyped
  <1>2. CASE UNCHANGED users
    BY <1>1, <1>2 DEF UsersTyped
  <1>3. ASSUME NEW email \in Emails, NEW verified \in BOOLEAN, CreateUser(email, verified)
        PROVE  UsersTyped(users') /\ DOMAIN users \subseteq DOMAIN users'
    <2>1. [verified |-> verified, subject |-> NoSubject] \in UserRows
      BY DEF UserRows
    <2> QED
      BY <1>1, <1>3, <2>1 DEF UsersTyped, CreateUser, Put
  <1>4. ASSUME NEW email \in Emails, VerifyUserEmail(email)
        PROVE  UsersTyped(users') /\ DOMAIN users \subseteq DOMAIN users'
    <2>1. email \in DOMAIN users /\ [users[email] EXCEPT !.verified = TRUE] \in UserRows
      BY <1>1, <1>4 DEF UserRows, VerifyUserEmail
    <2> QED
      BY <1>1, <1>4, <2>1 DEF UsersTyped, VerifyUserEmail
  <1>5. ASSUME NEW user \in DOMAIN users, NEW subject \in Subjects, Link(user, subject)
        PROVE  UsersTyped(users') /\ DOMAIN users \subseteq DOMAIN users'
    <2>1. [verified |-> TRUE, subject |-> subject] \in UserRows
      BY DEF UserRows
    <2> QED
      BY <1>1, <1>5, <2>1 DEF UsersTyped, Link
  <1> QED
    BY <1>2, <1>3, <1>4, <1>5 DEF UserStep

LEMMA OrgsGrow ==
    ASSUME AccountsTypeOK, OwnersGiven(orgs, given), given \subseteq given', OrgStep
    PROVE  /\ OrgsTyped(orgs') /\ DOMAIN orgs \subseteq DOMAIN orgs'
           /\ OwnersGiven(orgs', given')
  <1>1. /\ DOMAIN orgs \subseteq Orgs /\ \A o \in DOMAIN orgs : orgs[o] \in {"operator", "owner"}
        /\ OwnersGiven(orgs, given') /\ DOMAIN users \subseteq Emails
    BY DEF AccountsTypeOK, OrgsTyped, OwnersGiven, UsersTyped
  <1>2. CASE UNCHANGED orgs
    BY <1>1, <1>2 DEF OrgsTyped, OwnersGiven
  <1>3. ASSUME NEW org \in Orgs, CreateOrg(org)
        PROVE  /\ OrgsTyped(orgs') /\ DOMAIN orgs \subseteq DOMAIN orgs'
               /\ OwnersGiven(orgs', given')
    BY <1>1, <1>3 DEF CreateOrg, Put, OrgsTyped, OwnersGiven
  <1>4. ASSUME NEW org \in Orgs, NEW owner \in DOMAIN users, CreateOrganization(org, owner)
        PROVE  /\ OrgsTyped(orgs') /\ DOMAIN orgs \subseteq DOMAIN orgs'
               /\ OwnersGiven(orgs', given')
    <2>1. owner \in Emails /\ <<owner, <<org>>, "admin">> \in given'
      BY <1>1, <1>4 DEF CreateOrganization
    <2>2. /\ DOMAIN orgs' = DOMAIN orgs \cup {org}
          /\ \A o \in DOMAIN orgs' : orgs'[o] = IF o = org THEN "owner" ELSE orgs[o]
      BY <1>4 DEF CreateOrganization, Put
    <2> QED
      BY <1>1, <2>1, <2>2 DEF OrgsTyped, OwnersGiven
  <1> QED
    BY <1>2, <1>3, <1>4 DEF OrgStep

LEMMA GrantsFit ==
    ASSUME AccountsTypeOK, GrantRowsStep, DOMAIN users \subseteq DOMAIN users',
           DOMAIN orgs \subseteq DOMAIN orgs'
    PROVE  GrantsTyped(grants', DOMAIN users', DOMAIN orgs')
  <1> DEFINE Fit(g, access) ==
                /\ g = <<g[1], g[2]>> /\ g[1] \in DOMAIN users' /\ g[2][1] \in DOMAIN orgs'
                /\ Len(g[2]) \in 1 .. 3 /\ access \in GrantAccess
                /\ Len(g[2]) = 1 => access = "admin"
  <1>1. /\ grants = [g \in DOMAIN grants |-> grants[g]]
        /\ \A g \in DOMAIN grants : Fit(g, grants[g])
    BY DEF AccountsTypeOK, GrantsTyped
  <1>2. ASSUME grants' = [g \in DOMAIN grants' |-> grants'[g]],
               \A g \in DOMAIN grants' : Fit(g, grants'[g])
        PROVE  GrantsTyped(grants', DOMAIN users', DOMAIN orgs')
    BY <1>2 DEF GrantsTyped
  <1>3. CASE UNCHANGED grants
    BY <1>1, <1>2, <1>3
  <1>4. ASSUME NEW email \in DOMAIN users, NEW target, NEW access \in GrantAccess,
               target[1] \in DOMAIN orgs', Len(target) \in 1 .. 3, Len(target) = 1 => access = "admin",
               grants' = Put(grants, <<email, target>>, access)
        PROVE  GrantsTyped(grants', DOMAIN users', DOMAIN orgs')
    <2>1. PICK new : new = <<email, target>>
      OBVIOUS
    <2>2. Fit(new, access)
      BY <1>4, <2>1
    <2> HIDE DEF Fit
    <2>3. /\ grants' = [g \in DOMAIN grants \cup {new} |-> IF g = new THEN access ELSE grants[g]]
      BY <1>4, <2>1 DEF Put
    <2>4. \A g \in DOMAIN grants' : Fit(g, grants'[g])
      BY <1>1, <2>2, <2>3
    <2> QED
      BY <1>2, <2>3, <2>4
  <1>5. ASSUME NEW email, NEW target, RevokeGrant(email, target)
        PROVE  GrantsTyped(grants', DOMAIN users', DOMAIN orgs')
    <2> HIDE DEF Fit
    <2>1. grants' = [g \in DOMAIN grants \ {<<email, target>>} |-> grants[g]]
      BY <1>5 DEF RevokeGrant
    <2> QED
      BY <1>1, <1>2, <2>1
  <1> HIDE DEF Fit
  <1> QED
    BY <1>3, <1>4, <1>5 DEF GrantRowsStep

\* Whoever may mint anything in an org was given something there.
LEMMA MintsAreWelcome ==
    ASSUME NEW gifts, AllTargets(gifts), NEW email, NEW path, NEW access, NEW org,
           path[1] = org, MayMint(gifts, email, path, access)
    PROVE  Welcome(gifts, email, org)
  <1>1. PICK g \in gifts : g[1] = email /\ Reaches(g[2], path)
    BY DEF MayMint
  <1>2. PICK t : t = g[2]
    OBVIOUS
  <1>3. Len(t) \in Nat /\ Len(t) >= 1 /\ ValidOrgName(t[1])
    BY <1>2, TargetSegments DEF AllTargets
  <1>4. SegmentMatches(t[1], path[1]) \/ t[1] = AnyName
    BY <1>1, <1>2, <1>3 DEF Reaches
  <1>5. t[1] = org
    BY <1>3, <1>4 DEF SegmentMatches, ValidOrgName
  <1> QED
    BY <1>1, <1>2, <1>5 DEF Welcome

\* A row of tokens as it should be.
TokenFit(row, gifts, people, places) ==
    /\ row.org \in places /\ row.email \in people \cup {NoUser}
    /\ {row.expires, row.expired, row.revoked} \subseteq BOOLEAN
    /\ IsSession(row) => Welcome(gifts, row.email, row.org)

TokensFit(table, gifts, people, places) ==
    \A id \in DOMAIN table : TokenFit(table[id], gifts, people, places)

LEMMA TokensFitParts ==
    ASSUME NEW table, NEW gifts, NEW people, NEW places
    PROVE  TokensFit(table, gifts, people, places)
             <=> TokensTyped(table, people, places) /\ SessionsWelcome(table, gifts)
  BY DEF TokensFit, TokenFit, TokensTyped, SessionsWelcome

\* A token that stays, or moves on.
TokenGoesOn(row, row2) ==
    /\ row2.email = row.email /\ (IsSession(row) => IsSession(row2))
    /\ row.revoked => row2.revoked

\* Every token goes on, and the ids of new ones are new.
TokensGoOn ==
    /\ LastToken \in Nat /\ LastToken' \in Nat /\ LastToken <= LastToken'
    /\ \A id \in DOMAIN tokens : id \in DOMAIN tokens' /\ TokenGoesOn(tokens[id], tokens'[id])
    /\ \A id \in DOMAIN tokens' \ DOMAIN tokens : id \notin 1 .. LastToken

TokensCounted ==
    /\ IsFiniteSet(DOMAIN tokens) /\ DOMAIN tokens \subseteq 1 .. LastToken
    /\ Cardinality(DOMAIN tokens) <= MaxTokens

\* The next state's tokens, when one of them moved or none was added.
LEMMA SameTokens ==
    ASSUME IInv, TablesInv, backend' = backend, NEW people, NEW places, NEW gifts,
           TokensFit(tokens, gifts, people, places),
           DOMAIN tokens' = DOMAIN tokens,
           \A id \in DOMAIN tokens :
              \/ tokens'[id] = tokens[id]
              \/ TokenFit(tokens'[id], gifts, people, places) /\ TokenGoesOn(tokens[id], tokens'[id])
    PROVE  TokensFit(tokens', gifts, people, places) /\ TokensGoOn /\ TokensCounted'
  <1>1. LastToken' = LastToken /\ LastToken \in Nat
    BY NewTokenNumber DEF LastToken, IInv
  <1>2. TokensCounted'
    BY <1>1 DEF TablesInv, AccountsTypeOK, TokensCounted
  <1>3. \A id \in DOMAIN tokens : TokenGoesOn(tokens[id], tokens'[id])
    BY DEF TokenGoesOn
  <1> QED
    BY <1>1, <1>2, <1>3 DEF TokensFit, TokensGoOn

LEMMA TokensGrow ==
    ASSUME IInv, TablesInv, TokenRowsStep, given \subseteq given', backend' = backend,
           NEW people, DOMAIN users \subseteq people, NEW places, DOMAIN orgs \subseteq places
    PROVE  TokensFit(tokens', given', people, places) /\ TokensGoOn /\ TokensCounted'
  <1>1. \A email, org : Welcome(given, email, org) => Welcome(given', email, org)
    BY DEF Welcome
  <1>2. TokensTyped(tokens, DOMAIN users, DOMAIN orgs) /\ SessionsWelcome(tokens, given)
    BY DEF TablesInv, AccountsTypeOK
  <1>3. TokensFit(tokens, given', people, places)
    BY <1>1, <1>2 DEF TokensFit, TokenFit, TokensTyped, SessionsWelcome
  <1>4. \A id \in DOMAIN tokens : IsToken(tokens[id]) /\ tokens[id].revoked \in BOOLEAN
    BY <1>2 DEF IInv, TokenTable, TokensTyped
  <1>5. CASE UNCHANGED tokens
    BY <1>3, <1>5, SameTokens
  <1>6. ASSUME NEW org \in DOMAIN orgs, NEW scopes, NEW email \in DOMAIN users \cup {NoUser},
               NEW expires \in BOOLEAN, InsertToken(org, scopes, email, expires), scopes # {},
               Welcome(given', email, org)
        PROVE  TokensFit(tokens', given', people, places) /\ TokensGoOn /\ TokensCounted'
    <2>1. PICK row : row = [org |-> org, scopes |-> scopes, email |-> email,
                            expires |-> expires, expired |-> FALSE, revoked |-> FALSE]
      OBVIOUS
    <2>2. /\ row.org = org /\ row.email = email /\ row.scopes = scopes
          /\ row.expires \in BOOLEAN /\ row.expired = FALSE /\ row.revoked = FALSE
      BY <2>1
    <2>3. IsSession(row) => Welcome(given', email, org)
      BY <1>6
    <2>4. TokenFit(row, given', people, places)
      BY <2>2, <2>3 DEF TokenFit
    <2>5. /\ DOMAIN tokens' = DOMAIN tokens \cup {NewToken}
          /\ \A id \in DOMAIN tokens' : tokens'[id] = IF id = NewToken THEN row ELSE tokens[id]
          /\ Cardinality(DOMAIN tokens) < MaxTokens
      BY <1>6, <2>1 DEF InsertToken, Put
    <2>6. /\ LastToken \in Nat /\ NewToken = LastToken + 1 /\ LastToken' = LastToken + 1
          /\ NewToken \notin DOMAIN tokens /\ DOMAIN tokens \subseteq 1 .. LastToken
      BY <2>5, NewTokenNumber, TokenAdded DEF IInv
    <2>7. IsFiniteSet(DOMAIN tokens) /\ IsFiniteSet(DOMAIN tokens')
          /\ Cardinality(DOMAIN tokens') = Cardinality(DOMAIN tokens) + 1
          /\ Cardinality(DOMAIN tokens) \in Nat
      BY <2>5, <2>6, FS_AddElement, FS_CardinalityType DEF TablesInv, AccountsTypeOK
    <2>8. TokensCounted'
      BY <2>5, <2>6, <2>7, AccountsAssumption DEF TokensCounted
    <2>9. TokensFit(tokens', given', people, places)
      BY <1>3, <2>4, <2>5 DEF TokensFit
    <2>10. \A id \in DOMAIN tokens : tokens'[id] = tokens[id]
      BY <2>5, <2>6
    <2>11. TokensGoOn
      BY <2>5, <2>6, <2>10 DEF TokensGoOn, TokenGoesOn
    <2> QED
      BY <2>8, <2>9, <2>11
  <1>7. ASSUME NEW id, NEW org \in DOMAIN orgs, SwitchTokenOrg(id, org),
               Welcome(given', tokens[id].email, org)
        PROVE  TokensFit(tokens', given', people, places) /\ TokensGoOn /\ TokensCounted'
    <2>1. /\ id \in DOMAIN tokens /\ DOMAIN tokens' = DOMAIN tokens
          /\ \A t \in DOMAIN tokens \ {id} : tokens'[t] = tokens[t]
          /\ tokens'[id] = [tokens[id] EXCEPT !.org = org, !.scopes = SessionScopes(org)]
      BY <1>7 DEF SwitchTokenOrg
    <2>2. /\ tokens'[id].org = org /\ tokens'[id].scopes = SessionScopes(org)
          /\ tokens'[id].email = tokens[id].email /\ tokens'[id].expires = tokens[id].expires
          /\ tokens'[id].expired = tokens[id].expired /\ tokens'[id].revoked = tokens[id].revoked
      BY <1>4, <2>1 DEF IsToken
    <2>3. IsSession(tokens'[id])
      BY <2>2, SessionIsSession
    <2>4. TokenFit(tokens'[id], given', people, places) /\ TokenGoesOn(tokens[id], tokens'[id])
      BY <1>3, <1>7, <2>1, <2>2, <2>3 DEF TokensFit, TokenFit, TokenGoesOn
    <2> QED
      BY <1>3, <2>1, <2>4, SameTokens
  <1>8. ASSUME NEW id, RevokeToken(id) \/ TokenExpires(id)
        PROVE  TokensFit(tokens', given', people, places) /\ TokensGoOn /\ TokensCounted'
    <2>1. /\ id \in DOMAIN tokens /\ DOMAIN tokens' = DOMAIN tokens
          /\ \A t \in DOMAIN tokens \ {id} : tokens'[t] = tokens[t]
          /\ \/ tokens'[id] = [tokens[id] EXCEPT !.revoked = TRUE]
             \/ tokens'[id] = [tokens[id] EXCEPT !.expired = TRUE]
      BY <1>8 DEF RevokeToken, TokenExpires
    <2>2. /\ tokens'[id].org = tokens[id].org /\ tokens'[id].scopes = tokens[id].scopes
          /\ tokens'[id].email = tokens[id].email /\ tokens'[id].expires = tokens[id].expires
          /\ tokens'[id].expired \in {tokens[id].expired, TRUE}
          /\ tokens'[id].revoked \in {tokens[id].revoked, TRUE}
      BY <1>4, <2>1 DEF IsToken
    <2>3. IsSession(tokens'[id]) <=> IsSession(tokens[id])
      BY <2>2 DEF IsSession
    <2>4. TokenFit(tokens[id], given', people, places)
      BY <1>3, <2>1 DEF TokensFit
    <2>5. TokenFit(tokens'[id], given', people, places)
      BY <2>2, <2>3, <2>4 DEF TokenFit
    <2>6. TokenGoesOn(tokens[id], tokens'[id])
      BY <2>2, <2>3 DEF TokenGoesOn
    <2> QED
      BY <1>3, <2>1, <2>5, <2>6, SameTokens
  <1> QED
    BY <1>5, <1>6, <1>7, <1>8 DEF TokenRowsStep

\* The tables fit together after the step, and the world has grown.
LEMMA TablesGrow ==
    ASSUME IInv, TablesInv, RightsStep
    PROVE  TablesInv' /\ Grows(World, World')
  <1>1. /\ given \subseteq given' /\ backend' = backend /\ copy'.phase = copy.phase
        /\ UserStep /\ OrgStep /\ GrantRowsStep /\ TokenRowsStep
        /\ AccountsTypeOK /\ OwnersGiven(orgs, given)
    BY DEF RightsStep, TablesInv
  <1>2. UsersTyped(users') /\ DOMAIN users \subseteq DOMAIN users'
    BY <1>1, UsersGrow
  <1>3. OrgsTyped(orgs') /\ DOMAIN orgs \subseteq DOMAIN orgs' /\ OwnersGiven(orgs', given')
    BY <1>1, OrgsGrow
  <1>4. GrantsTyped(grants', DOMAIN users', DOMAIN orgs')
    BY <1>1, <1>2, <1>3, GrantsFit
  <1>5. TokensFit(tokens', given', DOMAIN users', DOMAIN orgs') /\ TokensGoOn /\ TokensCounted'
    BY <1>1, <1>2, <1>3, TokensGrow
  <1>6. TokensTyped(tokens', DOMAIN users', DOMAIN orgs') /\ SessionsWelcome(tokens', given')
    BY <1>5, TokensFitParts
  <1>7. TablesInv'
    BY <1>1, <1>2, <1>3, <1>4, <1>5, <1>6 DEF TablesInv, AccountsTypeOK, TokensCounted
  <1>8. PICK w, w2 : w = World /\ w2 = World'
    OBVIOUS
  <1>9. /\ w.gifts = given /\ w.people = DOMAIN users /\ w.places = DOMAIN orgs /\ w.table = tokens
        /\ w.last = LastToken /\ w.store = backend /\ w.alone = (copy.phase = "none")
    BY <1>8 DEF World
  <1>10. /\ w2.gifts = given' /\ w2.people = DOMAIN users' /\ w2.places = DOMAIN orgs'
         /\ w2.table = tokens' /\ w2.last = LastToken' /\ w2.store = backend
         /\ w2.alone = (copy.phase = "none")
    BY <1>1, <1>8 DEF World
  <1>11. Remembers(w, w2)
    BY <1>1, <1>5, <1>9, <1>10 DEF Remembers, TokensGoOn, TokenGoesOn
  <1>12. Grows(w, w2)
    BY <1>2, <1>3, <1>5, <1>9, <1>10, <1>11 DEF Grows, TokensGoOn, TokenGoesOn
  <1> QED
    BY <1>7, <1>8, <1>12

-----------------------------------------------------------------------------
(***************************************************************************)
(* What a step of the server does to the requests.                         *)
(***************************************************************************)

Ready == IInv /\ AInv /\ copy'.phase = copy.phase

Fine == RightsStep /\ RowsKnow' /\ CountInv'

LEMMA QuietRights ==
    ASSUME Ready, UNCHANGED accountVars
    PROVE  RightsStep
  BY DEF Ready, accountVars, RightsStep, UserStep, OrgStep, GrantRowsStep, TokenRowsStep

\* Every request knows what it knew.
LEMMA RowsNow ==
    ASSUME Ready, RightsStep
    PROVE  \A r \in DOMAIN req : RowKnows(req[r], World')
  <1>1. PICK w, w2 : w = World /\ w2 = World'
    OBVIOUS
  <1>2. Grows(w, w2) /\ \A r \in DOMAIN req : RowKnows(req[r], w)
    BY <1>1, TablesGrow DEF Ready, AInv, RowsKnow
  <1>3. \A r \in DOMAIN req : RowKnows(req[r], w2)
    BY <1>2, RowStays
  <1> QED
    BY <1>1, <1>3

LEMMA OneFine ==
    ASSUME Ready, RightsStep, UNCHANGED ops, NEW r \in DOMAIN req, DOMAIN req' = DOMAIN req,
           \A q \in DOMAIN req \ {r} : req'[q] = req[q], RowKnows(req'[r], World')
    PROVE  Fine
  <1>1. RowsKnow'
    BY RowsNow DEF RowsKnow
  <1>2. CountInv'
    BY DEF CountInv, Ready, AInv
  <1> QED
    BY <1>1, <1>2 DEF Fine

LEMMA AnswerFine ==
    ASSUME Ready, RightsStep, UNCHANGED ops, NEW r \in DOMAIN req, NEW outcome \in Outcomes,
           AnswerWith(r, outcome), outcome = "ok" => Entitled(req[r], World')
    PROVE  Fine
  <1>1. Keeps(r) /\ req'[r].phase = "answered" /\ req'[r].outcome = outcome
    BY AnswerKeeps DEF Ready, IInv
  <1>2. PICK w : w = World'
    OBVIOUS
  <1>3. RowKnows(req[r], w) /\ (outcome = "ok" => Entitled(req[r], w))
    BY <1>2, RowsNow
  <1>4. WellAsked(req'[r], w)
    BY <1>1, <1>3 DEF RowKnows, WellAsked, Keeps
  <1>5. outcome = "ok" => Entitled(req'[r], w)
    BY <1>1, <1>3 DEF Entitled, MayRevoke, Keeps
  <1>6. RowKnows(req'[r], w)
    BY <1>1, <1>4, <1>5 DEF RowKnows, Ended
  <1> QED
    BY <1>1, <1>2, <1>6, OneFine DEF Keeps

\* The request goes on to a phase, with what it must have found out by then.
LEMMA GoFine ==
    ASSUME Ready, RightsStep, UNCHANGED ops, NEW r \in DOMAIN req, NEW phase, Keeps(r),
           req'[r].phase = phase, req'[r].outcome = req[r].outcome, req[r].phase \notin Ended,
           phase # "open", phase \in {"orgs", "any"} => req[r].kind = "login",
           phase \notin Ended => FoundOut(req'[r], World')
    PROVE  Fine
  <1>1. PICK w : w = World'
    OBVIOUS
  <1>2. RowKnows(req[r], w) /\ (phase \notin Ended => FoundOut(req'[r], w))
    BY <1>1, RowsNow
  <1>3. WellAsked(req'[r], w)
    BY <1>2 DEF RowKnows, WellAsked, Keeps
  <1>4. req'[r].outcome = "ok" => Entitled(req'[r], w)
    BY <1>2 DEF RowKnows, Entitled, MayRevoke, Keeps
  <1>5. RowKnows(req'[r], w)
    BY <1>2, <1>3, <1>4 DEF RowKnows
  <1> QED
    BY <1>1, <1>5, OneFine DEF Keeps

\* The next lookup for the same answer.
LEMMA LookupFine ==
    ASSUME Ready, UNCHANGED accountVars, UNCHANGED ops, NEW r \in DOMAIN req, NextLookup(r)
    PROVE  Fine
  <1>1. Keeps(r) /\ req'[r].phase = req[r].phase /\ req'[r].outcome = req[r].outcome
    BY LookupKeeps DEF Ready, IInv
  <1>2. PICK w : w = World'
    OBVIOUS
  <1>3. RightsStep
    BY QuietRights
  <1>4. RowKnows(req[r], w)
    BY <1>2, <1>3, RowsNow
  <1>5. WellAsked(req'[r], w)
    BY <1>1, <1>4 DEF RowKnows, WellAsked, Keeps
  <1>6. req'[r].outcome = "ok" => Entitled(req'[r], w)
    BY <1>1, <1>4 DEF RowKnows, Entitled, MayRevoke, Keeps
  <1>7. req'[r].phase \notin Ended => req'[r].outcome = "pending" /\ FoundOut(req'[r], w)
    BY <1>1, <1>4 DEF RowKnows, FoundOut, MayRevoke, Keeps
  <1>8. RowKnows(req'[r], w)
    BY <1>5, <1>6, <1>7 DEF RowKnows
  <1> QED
    BY <1>1, <1>2, <1>3, <1>8, OneFine DEF Keeps

\* No request moves.
LEMMA NoneFine ==
    ASSUME Ready, RightsStep, UNCHANGED req, ops' = ops \/ (MoreCalls /\ ops' = ops + 1)
    PROVE  Fine
  <1>1. RowsKnow'
    BY RowsNow DEF RowsKnow
  <1>2. CountInv'
    <2>1. Cardinality(DOMAIN req) \in Nat /\ ops \in Nat /\ MaxCalls \in Nat
          /\ Cardinality(DOMAIN req) + ops <= MaxCalls
      BY FS_CardinalityType, RequestsAssumption DEF CountInv, Ready, AInv
    <2>2. ops' \in Nat /\ Cardinality(DOMAIN req) + ops' <= MaxCalls
      BY <2>1 DEF MoreCalls
    <2> QED
      BY <2>2 DEF CountInv, Ready, AInv
  <1> QED
    BY <1>1, <1>2 DEF Fine

\* A request arrives.
LEMMA ArriveFine ==
    ASSUME Ready, UNCHANGED <<accountVars, ops>>, NEW r \in RequestIds, NextRequest(r),
           DOMAIN req' = DOMAIN req \cup {r}, \A q \in DOMAIN req \ {r} : req'[q] = req[q],
           RowKnows(req'[r], World')
    PROVE  Fine
  <1>1. RightsStep
    BY QuietRights
  <1>2. RowsKnow'
    BY <1>1, RowsNow DEF RowsKnow
  <1>3. /\ IsFiniteSet(DOMAIN req) /\ Cardinality(DOMAIN req) \in Nat /\ ops \in Nat /\ MaxCalls \in Nat
        /\ DOMAIN req = 1 .. Cardinality(DOMAIN req)
        /\ Cardinality(DOMAIN req) + ops < MaxCalls /\ r = Cardinality(DOMAIN req) + 1
    BY FS_CardinalityType, RequestsAssumption DEF CountInv, Ready, AInv, NextRequest, MoreCalls
  <1>4. r \notin DOMAIN req
    BY <1>3
  <1>5. IsFiniteSet(DOMAIN req') /\ Cardinality(DOMAIN req') = Cardinality(DOMAIN req) + 1
    BY <1>3, <1>4, FS_AddElement
  <1>6. DOMAIN req' = 1 .. Cardinality(DOMAIN req')
    BY <1>3, <1>5
  <1>7. DOMAIN req' \subseteq RequestIds /\ ops' = ops
    BY DEF CountInv, Ready, AInv
  <1>8. Cardinality(DOMAIN req') + ops' <= MaxCalls
    BY <1>3, <1>5, <1>7
  <1>9. CountInv'
    BY <1>3, <1>5, <1>6, <1>7, <1>8, Zenon DEF CountInv
  <1> QED
    BY <1>1, <1>2, <1>9 DEF Fine

-----------------------------------------------------------------------------
(***************************************************************************)
(* Requests with a token.                                                  *)
(***************************************************************************)

\* A grant in the table was given, to somebody who exists.
LEMMA AdminGiven ==
    ASSUME Ready, NEW email, NEW org, IsOrgAdmin(email, org)
    PROVE  AdminIn(World, email, org)
  <1>1. PICK g : g = <<email, <<org>>>>
    OBVIOUS
  <1>2. g \in DOMAIN grants /\ g[1] = email /\ g[2] = <<org>>
    BY <1>1 DEF IsOrgAdmin
  <1>3. Len(g[2]) = 1
    BY <1>2
  <1>4. grants[g] = "admin"
    BY <1>2, <1>3 DEF Ready, AInv, TablesInv, AccountsTypeOK, GrantsTyped
  <1>5. <<g[1], g[2], grants[g]>> \in given
    BY <1>2 DEF Ready, IInv, GrantsInv
  <1> QED
    BY <1>2, <1>4, <1>5 DEF AdminIn, World

LEMMA GrantWelcomes ==
    ASSUME Ready, NEW email, NEW org, HasAnyGrant(email, org)
    PROVE  /\ email \in DOMAIN users /\ org \in DOMAIN orgs
           /\ Welcome(given, email, org)
  <1>1. PICK g \in DOMAIN grants : g[1] = email /\ g[2][1] = org
    BY DEF HasAnyGrant, AccessibleOrgs
  <1>2. g[1] \in DOMAIN users /\ g[2][1] \in DOMAIN orgs
    BY DEF Ready, AInv, TablesInv, AccountsTypeOK, GrantsTyped
  <1>3. PICK gift : gift = <<g[1], g[2], grants[g]>>
    OBVIOUS
  <1>4. gift \in given /\ gift[1] = email /\ gift[2][1] = org
    BY <1>1, <1>3 DEF Ready, IInv, GrantsInv
  <1> QED
    BY <1>1, <1>2, <1>4 DEF Welcome

\* The world of a step that changes no account.
LEMMA SameWorld ==
    ASSUME Ready, UNCHANGED accountVars
    PROVE  RightsStep /\ World' = World
  <1>1. LastToken' = LastToken
    BY DEF LastToken, accountVars
  <1> QED
    BY <1>1, QuietRights DEF Ready, World, accountVars

LEMMA KnownRow ==
    ASSUME Ready, NEW r \in DOMAIN req
    PROVE  RowKnows(req[r], World)
  BY DEF Ready, AInv, RowsKnow

LEMMA OrganizationStep ==
    ASSUME Ready, NEW org \in Orgs, NEW owner, CreateOrganization(org, owner),
           UNCHANGED <<backend, users, tokens>>
    PROVE  RightsStep
  <1>1. PICK target, access : target = <<org>> /\ access = "admin"
    OBVIOUS
  <1>2. /\ owner \in DOMAIN users /\ org \in DOMAIN orgs' /\ given \subseteq given'
        /\ grants' = Put(grants, <<owner, target>>, access)
    BY <1>1 DEF CreateOrganization, Put
  <1>3. /\ target[1] \in DOMAIN orgs' /\ Len(target) \in 1 .. 3 /\ access \in GrantAccess
        /\ Len(target) = 1 => access = "admin"
    BY <1>1, <1>2 DEF GrantAccess
  <1>4. GrantRowsStep
    BY <1>2, <1>3 DEF GrantRowsStep
  <1>5. OrgStep
    BY <1>2 DEF OrgStep
  <1> QED
    BY <1>2, <1>4, <1>5 DEF RightsStep, UserStep, TokenRowsStep, Ready

LEMMA AskedGrantStep ==
    ASSUME Ready, NEW ask \in AdminAsks, ask.email \in DOMAIN users, ask.target[1] \in DOMAIN orgs,
           UpsertGrant(ask.email, ask.target, ask.access), UNCHANGED <<backend, users, orgs, tokens>>
    PROVE  RightsStep
  <1>1. PICK email, target, access : email = ask.email /\ target = ask.target /\ access = ask.access
    OBVIOUS
  <1>2. /\ email \in DOMAIN users /\ target[1] \in DOMAIN orgs' /\ Len(target) \in 1 .. 3
        /\ access \in GrantAccess /\ (Len(target) = 1 => access = "admin")
        /\ grants' = Put(grants, <<email, target>>, access) /\ given \subseteq given'
    BY <1>1, RequestsAssumption DEF UpsertGrant
  <1>3. GrantRowsStep
    BY <1>2 DEF GrantRowsStep
  <1> QED
    BY <1>2, <1>3 DEF RightsStep, UserStep, OrgStep, TokenRowsStep, Ready

LEMMA UngrantStep ==
    ASSUME Ready, NEW email, NEW target, RevokeGrant(email, target),
           UNCHANGED <<backend, users, orgs, tokens, given>>
    PROVE  RightsStep
  BY DEF RightsStep, UserStep, OrgStep, GrantRowsStep, TokenRowsStep, Ready

LEMMA RevokeStep ==
    ASSUME Ready, NEW id, RevokeToken(id), UNCHANGED <<backend, users, orgs, grants, given>>
    PROVE  RightsStep
  BY DEF RightsStep, UserStep, OrgStep, GrantRowsStep, TokenRowsStep, Ready

\* Nothing but users changes.
LEMMA OnlyUsersStep ==
    ASSUME Ready, UserStep, UNCHANGED <<backend, orgs, grants, tokens, given>>
    PROVE  RightsStep
  BY DEF RightsStep, OrgStep, GrantRowsStep, TokenRowsStep, Ready

LEMMA FileFine ==
    ASSUME Ready, NEW r, AuthorizeFile(r) PROVE Fine
  <1>1. /\ r \in DOMAIN req /\ req[r].kind = "file" /\ UNCHANGED accountVars /\ UNCHANGED ops
        /\ NextLookup(r) \/ \E outcome \in Outcomes : AnswerWith(r, outcome)
    BY DEF AuthorizeFile, In, Outcomes
  <1>2. Entitled(req[r], World')
    BY <1>1 DEF Entitled
  <1> QED
    BY <1>1, <1>2, QuietRights, LookupFine, AnswerFine

LEMMA OrgFine ==
    ASSUME Ready, NEW r, PostOrg(r) PROVE Fine
  <1>1. /\ r \in DOMAIN req /\ req[r].kind = "org" /\ UNCHANGED ops
        /\ \E outcome \in Outcomes : AnswerWith(r, outcome)
        /\ \/ UNCHANGED accountVars
           \/ /\ CreateOrganization(req[r].arg.org, req[r].email)
              /\ UNCHANGED <<backend, users, tokens>>
    BY DEF PostOrg, In, Outcomes
  <1>2. req[r].arg.org \in Orgs
    BY <1>1, KnownRow DEF RowKnows, WellAsked
  <1>3. Entitled(req[r], World')
    BY <1>1 DEF Entitled
  <1>4. RightsStep
    BY <1>1, <1>2, QuietRights, OrganizationStep
  <1> QED
    BY <1>1, <1>3, <1>4, AnswerFine

LEMMA MintFine ==
    ASSUME Ready, NEW r, CheckScope(r) \/ PostToken(r) PROVE Fine
  <1>1. r \in DOMAIN req /\ req[r].kind = "mint" /\ UNCHANGED ops
    BY DEF CheckScope, PostToken, In
  <1>2. Entitled(req[r], World')
    BY <1>1 DEF Entitled
  <1>3. CASE CheckScope(r)
    <2>1. /\ UNCHANGED accountVars /\ req[r].phase = "scope"
          /\ NextLookup(r) \/ Go(r, "insert") \/ \E outcome \in Outcomes : AnswerWith(r, outcome)
      BY <1>3 DEF CheckScope, In, Outcomes
    <2>2. RightsStep
      BY <2>1, QuietRights
    <2>3. CASE Go(r, "insert")
      <3>1. Keeps(r) /\ req'[r].phase = "insert" /\ req'[r].outcome = req[r].outcome
        BY <1>1, <2>3, GoKeeps DEF Ready, IInv
      <3>2. PICK w : w = World'
        OBVIOUS
      <3>3. FoundOut(req[r], w)
        BY <1>1, <2>1, <2>2, <3>2, RowsNow DEF RowKnows, Ended
      <3>4. FoundOut(req'[r], w)
        BY <1>1, <3>1, <3>3 DEF FoundOut, Keeps, Resolving
      <3> QED
        BY <1>1, <2>1, <2>2, <3>1, <3>2, <3>4, GoFine DEF Ended
    <2> QED
      BY <1>1, <1>2, <2>1, <2>2, <2>3, LookupFine, AnswerFine
  <1>4. CASE PostToken(r)
    <2> DEFINE org == req[r].token.org
               scopes == req[r].arg.scopes
               email == req[r].email
    <2>1. /\ \E outcome \in Outcomes : AnswerWith(r, outcome)
          /\ UNCHANGED <<backend, users, orgs, grants, given>> /\ req[r].phase = "insert"
          /\ UNCHANGED tokens \/ (MintAccepted(org, scopes, email) /\ InsertToken(org, scopes, email, TRUE))
      BY <1>4 DEF PostToken, In, Outcomes
    <2>2. /\ email \in DOMAIN users \cup {NoUser}
          /\ IsSession(req[r].token) => Welcome(given, email, org)
      <3>1. FoundOut(req[r], World)
        BY <1>1, <2>1, KnownRow DEF RowKnows, Ended
      <3> QED
        BY <1>1, <3>1 DEF FoundOut, World
    <2>3. PICK scope \in ScopeAsks :
             req[r].arg = [scopes |-> {scope}] /\ MintAllowed(req[r], scope, given)
      BY <1>1, <2>1 DEF Ready, IInv, RowsInv, RowFits, MintRow
    <2>4. scopes = {scope}
      BY <2>3
    <2>5. AllTargets(given)
      BY DEF Ready, IInv, GrantsInv
    <2>6. ASSUME MintAccepted(org, scopes, email) PROVE Welcome(given', email, org)
      <3>1. scope.path[1] = org
        BY <2>4, <2>6 DEF MintAccepted, ScopesAccepted, ValidScopes, ValidScopePath
      <3>2. MayMint(given, email, scope.path, scope.access) => Welcome(given, email, org)
        BY <2>5, <3>1, MintsAreWelcome
      <3> QED
        BY <2>1, <2>2, <2>3, <3>2 DEF MintAllowed
    <2> HIDE DEF org, scopes, email
    <2>7. TokenRowsStep
      BY <2>1, <2>2, <2>4, <2>6 DEF TokenRowsStep, MintAccepted, ScopesAccepted
    <2>8. RightsStep
      BY <2>1, <2>7 DEF RightsStep, UserStep, OrgStep, GrantRowsStep, Ready
    <2> QED
      BY <1>1, <1>2, <2>1, <2>8, AnswerFine
  <1> QED
    BY <1>3, <1>4

\* Whoever revokes a token owns it, or is admin of the org it was found in.
LEMMA RevokeFine ==
    ASSUME Ready, NEW r, FindToken(r) \/ CheckTokenAdmin(r) \/ DeleteToken(r) PROVE Fine
  <1>1. r \in DOMAIN req /\ req[r].kind = "revoke" /\ UNCHANGED ops
    BY DEF FindToken, CheckTokenAdmin, DeleteToken, In
  <1>2. ASSUME UNCHANGED accountVars, NEW phase \in {"admin", "update"}, Go(r, phase),
               req[r].phase \notin Ended, phase = "update" => MayRevoke(req[r], World)
        PROVE  Fine
    <2>1. Keeps(r) /\ req'[r].phase = phase /\ req'[r].outcome = req[r].outcome
      BY <1>1, <1>2, GoKeeps DEF Ready, IInv
    <2>2. PICK w : w = World'
      OBVIOUS
    <2>3. RightsStep /\ w = World
      BY <1>2, <2>2, SameWorld
    <2>4. FoundOut(req'[r], w)
      BY <1>1, <1>2, <2>1, <2>3 DEF FoundOut, Keeps, Resolving, MayRevoke
    <2> QED
      BY <1>1, <1>2, <2>1, <2>2, <2>3, <2>4, GoFine
  <1>3. ASSUME RightsStep, NEW outcome \in Outcomes \ {"ok"}, AnswerWith(r, outcome) PROVE Fine
    BY <1>1, <1>3, AnswerFine
  <1>4. CASE FindToken(r)
    <2>1. UNCHANGED accountVars /\ req[r].phase \notin Ended
      BY <1>4 DEF FindToken, In, Ended
    <2>2. \/ \E outcome \in Outcomes \ {"ok"} : AnswerWith(r, outcome)
          \/ Go(r, "admin")
          \/ Go(r, "update") /\ tokens[req[r].arg.id].email = req[r].email
      BY <1>4 DEF FindToken, Outcomes
    <2>3. tokens[req[r].arg.id].email = req[r].email => MayRevoke(req[r], World)
      BY DEF MayRevoke, OwnsToken, World
    <2> QED
      BY <1>2, <1>3, <2>1, <2>2, <2>3, QuietRights
  <1>5. CASE CheckTokenAdmin(r)
    <2>1. UNCHANGED accountVars /\ req[r].phase \notin Ended
      BY <1>5 DEF CheckTokenAdmin, In, Ended
    <2>2. \/ \E outcome \in Outcomes \ {"ok"} : AnswerWith(r, outcome)
          \/ Go(r, "update") /\ IsOrgAdmin(req[r].email, req[r].token.org)
      BY <1>5 DEF CheckTokenAdmin, Outcomes
    <2>3. IsOrgAdmin(req[r].email, req[r].token.org) => MayRevoke(req[r], World)
      BY AdminGiven DEF MayRevoke
    <2> QED
      BY <1>2, <1>3, <2>1, <2>2, <2>3, QuietRights
  <1>6. CASE DeleteToken(r)
    <2>1. /\ req[r].phase = "update" /\ UNCHANGED <<backend, users, orgs, grants, given>>
          /\ UNCHANGED tokens \/ RevokeToken(req[r].arg.id)
          /\ \E outcome \in Outcomes : AnswerWith(r, outcome)
      BY <1>6 DEF DeleteToken, In, Outcomes
    <2>2. RightsStep
      BY <2>1, RevokeStep, QuietRights DEF accountVars
    <2>3. PICK w : w = World'
      OBVIOUS
    <2>4. Entitled(req[r], w)
      BY <1>1, <2>1, <2>2, <2>3, RowsNow DEF RowKnows, FoundOut, Entitled, Ended
    <2> QED
      BY <1>1, <2>1, <2>2, <2>3, <2>4, AnswerFine
  <1> QED
    BY <1>4, <1>5, <1>6

\* A route that only reads shows what the caller may see.
LEMMA ShowFine ==
    ASSUME Ready, UNCHANGED accountVars, UNCHANGED ops, NEW r \in DOMAIN req,
           req[r].kind \in {"me", "tokens", "grants"}, req[r].phase \notin Ended,
           NEW phase \in {"own", "filter", "answered"}, NEW found, Show(r, phase, found),
           req[r].kind = "tokens" => found \subseteq 1 .. LastToken,
           phase = "answered" /\ req[r].kind = "tokens" =>
              \A id \in found : \/ OwnsToken(World, req[r].email, id)
                                \/ AdminIn(World, req[r].email, req[r].token.org),
           phase = "answered" /\ req[r].kind = "grants" =>
              \A g \in found : AdminIn(World, req[r].email, g[2][1])
    PROVE  Fine
  <1>1. PICK w : w = World
    OBVIOUS
  <1>2. RightsStep /\ World' = w
    BY <1>1, SameWorld
  <1>3. /\ IsRow(req[r]) /\ RowKnows(req[r], w)
    BY <1>1, KnownRow DEF Ready, IInv, RowsInv, RowFits
  <1>4. /\ DOMAIN req' = DOMAIN req /\ \A q \in DOMAIN req \ {r} : req'[q] = req[q]
        /\ req'[r].kind = req[r].kind /\ req'[r].token = req[r].token
        /\ req'[r].arg = req[r].arg /\ req'[r].email = req[r].email
        /\ req'[r].phase = phase /\ req'[r].shown = found
        /\ req'[r].outcome = IF phase = "answered" THEN "ok" ELSE req[r].outcome
    BY <1>3 DEF Show, IsRow
  <1>5. w.last = LastToken
    BY <1>1 DEF World
  <1>6. WellAsked(req'[r], w)
    BY <1>3, <1>4, <1>5 DEF RowKnows, WellAsked, Outcomes, SignIns
  <1>7. req'[r].outcome = "ok" => Entitled(req'[r], w)
    BY <1>1, <1>3, <1>4 DEF RowKnows, Entitled
  <1>8. FoundOut(req'[r], w)
    BY <1>4 DEF FoundOut, Resolving
  <1>9. RowKnows(req'[r], w)
    BY <1>3, <1>4, <1>6, <1>7, <1>8 DEF RowKnows, Ended
  <1> QED
    BY <1>2, <1>4, <1>9, OneFine

LEMMA ReadFine ==
    ASSUME Ready, NEW r, Me(r) \/ GetTokens(r) \/ GetGrants(r) PROVE Fine
  <1>1. /\ r \in DOMAIN req /\ UNCHANGED accountVars /\ UNCHANGED ops /\ req[r].phase \notin Ended
    BY DEF Me, GetTokens, GetGrants, In, Ended
  <1>2. RowKnows(req[r], World)
    BY <1>1, KnownRow
  <1>3. CASE Me(r)
    <2>1. req[r].kind = "me" /\ \E phase \in {"own", "answered"} : \E found : Show(r, phase, found)
      BY <1>3 DEF Me, In
    <2> QED
      BY <1>1, <2>1, ShowFine
  <1>4. CASE GetTokens(r)
    <2>1. req[r].kind = "tokens"
      BY <1>4 DEF GetTokens, In
    <2>2. CASE Show(r, "filter", ListTokens(req[r].token.org))
      <3>1. ListTokens(req[r].token.org) \subseteq 1 .. LastToken
        BY DEF ListTokens, Ready, AInv, TablesInv, AccountsTypeOK
      <3> QED
        BY <1>1, <2>1, <2>2, <3>1, ShowFine
    <2>3. ASSUME NEW found, Show(r, "answered", found), found \subseteq req[r].shown,
                 \/ IsOrgAdmin(req[r].email, req[r].token.org)
                 \/ \A id \in found : tokens[id].email = req[r].email
          PROVE  Fine
      <3>1. found \subseteq 1 .. LastToken
        BY <1>2, <2>1, <2>3 DEF RowKnows, WellAsked, World
      <3>2. \A id \in found : \/ OwnsToken(World, req[r].email, id)
                              \/ AdminIn(World, req[r].email, req[r].token.org)
        BY <2>3, AdminGiven DEF OwnsToken, World
      <3> QED
        BY <1>1, <2>1, <2>3, <3>1, <3>2, ShowFine
    <2>4. \/ Show(r, "filter", ListTokens(req[r].token.org))
          \/ Show(r, "answered", {})
          \/ IsOrgAdmin(req[r].email, req[r].token.org) /\ Show(r, "answered", req[r].shown)
          \/ Show(r, "answered", {id \in req[r].shown : tokens[id].email = req[r].email})
      BY <1>4 DEF GetTokens
    <2> QED
      BY <2>2, <2>3, <2>4
  <1>5. CASE GetGrants(r)
    <2>1. /\ req[r].kind = "grants" /\ req[r].phase = "apply"
          /\ Show(r, "answered", OrgGrants(req[r].arg.org))
      BY <1>5 DEF GetGrants, In
    <2>2. AdminIn(World, req[r].email, req[r].arg.org)
      BY <1>1, <1>2, <2>1 DEF RowKnows, FoundOut
    <2>3. \A g \in OrgGrants(req[r].arg.org) : g[2][1] = req[r].arg.org
      BY DEF OrgGrants
    <2> QED
      BY <1>1, <2>1, <2>2, <2>3, ShowFine
  <1> QED
    BY <1>3, <1>4, <1>5

LEMMA AdminFine ==
    ASSUME Ready, NEW r, RequireOrgAdmin(r) PROVE Fine
  <1>1. /\ r \in DOMAIN req /\ req[r].kind \in AdminKinds /\ req[r].phase = "admin"
        /\ UNCHANGED accountVars /\ UNCHANGED ops
        /\ \/ IsOrgAdmin(req[r].email, AdminOrg(r)) /\ Go(r, "apply")
           \/ AnswerWith(r, "forbidden")
    BY DEF RequireOrgAdmin
  <1>2. PICK w : w = World
    OBVIOUS
  <1>3. RightsStep /\ World' = w
    BY <1>1, <1>2, SameWorld
  <1>4. CASE IsOrgAdmin(req[r].email, AdminOrg(r)) /\ Go(r, "apply")
    <2>1. Keeps(r) /\ req'[r].phase = "apply" /\ req'[r].outcome = req[r].outcome
      BY <1>1, <1>4, GoKeeps DEF Ready, IInv
    <2>2. AdminIn(w, req[r].email, AdminOrg(r))
      BY <1>2, <1>4, AdminGiven
    <2>3. FoundOut(req'[r], w)
      BY <1>1, <2>1, <2>2 DEF FoundOut, Keeps, Resolving, AdminOrg, AdminKinds
    <2> QED
      BY <1>1, <1>3, <2>1, <2>3, GoFine DEF Ended
  <1>5. CASE AnswerWith(r, "forbidden")
    BY <1>1, <1>3, <1>5, AnswerFine DEF Outcomes
  <1> QED
    BY <1>1, <1>4, <1>5

LEMMA UserFine ==
    ASSUME Ready, NEW r, PostUser(r) \/ PostVerify(r) PROVE Fine
  <1>1. /\ r \in DOMAIN req /\ req[r].kind \in {"user", "verify"} /\ UNCHANGED ops
        /\ UNCHANGED <<backend, orgs, grants, tokens, given>>
        /\ \E outcome \in Outcomes : AnswerWith(r, outcome)
        /\ \/ UNCHANGED users
           \/ CreateUser(req[r].arg.email, TRUE) \/ VerifyUserEmail(req[r].arg.email)
    BY DEF PostUser, PostVerify, In, Outcomes
  <1>2. req[r].arg.email \in Emails
    BY <1>1, KnownRow DEF RowKnows, WellAsked
  <1>3. UserStep
    BY <1>1, <1>2 DEF UserStep
  <1>4. Entitled(req[r], World')
    BY <1>1 DEF Entitled
  <1> QED
    BY <1>1, <1>3, <1>4, OnlyUsersStep, AnswerFine

\* Grants are made and taken away by admins of the org.
LEMMA GrantFine ==
    ASSUME Ready, NEW r, PostGrant(r) \/ AssertUserOrg(r) \/ InsertGrant(r) \/ DeleteGrant(r)
    PROVE  Fine
  <1> DEFINE ask == req[r].arg
  <1>1. /\ r \in DOMAIN req /\ req[r].kind \in {"grant", "ungrant"} /\ UNCHANGED ops
        /\ req[r].phase \in {"apply", "upsert"}
    BY DEF PostGrant, AssertUserOrg, InsertGrant, DeleteGrant, In
  <1>2. RowKnows(req[r], World) /\ ask \in AdminAsks /\ FoundOut(req[r], World)
    BY <1>1, KnownRow DEF RowKnows, WellAsked, Ended
  <1>3. ASSUME RightsStep PROVE Entitled(req[r], World')
    <2>1. PICK w : w = World'
      OBVIOUS
    <2>2. FoundOut(req[r], w)
      BY <1>1, <1>3, <2>1, RowsNow DEF RowKnows, Ended
    <2>3. Entitled(req[r], w)
      BY <1>1, <2>2 DEF FoundOut, Entitled
    <2> QED
      BY <2>1, <2>3
  <1>4. CASE AssertUserOrg(r)
    <2>1. /\ UNCHANGED accountVars /\ req[r].kind = "grant"
          /\ \/ GrantFound(ask.email, ask.target) /\ Go(r, "upsert")
             \/ AnswerWith(r, "missing")
      BY <1>4 DEF AssertUserOrg, In
    <2>2. PICK w : w = World
      OBVIOUS
    <2>3. RightsStep /\ World' = w
      BY <2>1, <2>2, SameWorld
    <2>4. CASE GrantFound(ask.email, ask.target) /\ Go(r, "upsert")
      <3>1. Keeps(r) /\ req'[r].phase = "upsert" /\ req'[r].outcome = req[r].outcome
        BY <1>1, <2>4, GoKeeps DEF Ready, IInv
      <3>2. ask.email \in w.people /\ ask.target[1] \in w.places
        BY <2>2, <2>4 DEF GrantFound, World
      <3>3. FoundOut(req[r], w)
        BY <1>2, <2>2
      <3>4. FoundOut(req'[r], w)
        BY <1>1, <2>1, <3>1, <3>2, <3>3 DEF FoundOut, Keeps, Resolving
      <3> QED
        BY <1>1, <2>3, <3>1, <3>4, GoFine DEF Ended
    <2>5. CASE AnswerWith(r, "missing")
      BY <1>1, <2>3, <2>5, AnswerFine DEF Outcomes
    <2> QED
      BY <2>1, <2>4, <2>5
  <1>5. CASE PostGrant(r) \/ InsertGrant(r)
    <2>1. /\ UNCHANGED <<backend, users, orgs, tokens>>
          /\ \E outcome \in Outcomes : AnswerWith(r, outcome)
          /\ \/ UNCHANGED <<grants, given>>
             \/ UpsertGrant(ask.email, ask.target, ask.access)
      BY <1>5 DEF PostGrant, InsertGrant, Grant, Outcomes
    <2>2. CASE UNCHANGED <<grants, given>>
      <3>1. RightsStep
        BY <2>1, <2>2, QuietRights DEF accountVars
      <3> QED
        BY <1>1, <1>3, <2>1, <3>1, AnswerFine
    <2>3. CASE UpsertGrant(ask.email, ask.target, ask.access) /\ ~UNCHANGED <<grants, given>>
      <3>1. ask.email \in DOMAIN users /\ ask.target[1] \in DOMAIN orgs
        <4>1. CASE PostGrant(r)
          BY <2>3, <4>1 DEF PostGrant, Grant, GrantFound
        <4>2. CASE InsertGrant(r)
          BY <1>2, <4>2 DEF InsertGrant, In, FoundOut, World
        <4> QED
          BY <1>5, <4>1, <4>2
      <3> HIDE DEF ask
      <3>2. RightsStep
        BY <1>2, <2>1, <2>3, <3>1, AskedGrantStep
      <3> QED
        BY <1>1, <1>3, <2>1, <3>2, AnswerFine
    <2> QED
      BY <2>1, <2>2, <2>3
  <1>6. CASE DeleteGrant(r)
    <2>1. /\ UNCHANGED <<backend, users, orgs, tokens, given>>
          /\ \E outcome \in Outcomes : AnswerWith(r, outcome)
          /\ UNCHANGED grants \/ RevokeGrant(ask.email, ask.target)
      BY <1>6 DEF DeleteGrant, Outcomes
    <2>2. RightsStep
      BY <2>1, QuietRights, UngrantStep DEF accountVars
    <2> QED
      BY <1>1, <1>3, <2>1, <2>2, AnswerFine
  <1> QED
    BY <1>4, <1>5, <1>6

LEMMA RequestsFine ==
    ASSUME Ready, NEW r, RequestProgress(r) PROVE Fine
  BY FileFine, OrgFine, MintFine, RevokeFine, ReadFine, AdminFine, UserFine, GrantFine
     DEF RequestProgress

-----------------------------------------------------------------------------
(***************************************************************************)
(* Sign-ins.                                                               *)
(***************************************************************************)

\* A command that finds a user, or one that may be the user.
LEMMA FoundFine ==
    ASSUME Ready, RightsStep, UNCHANGED ops, NEW r \in DOMAIN req, req[r].kind = "keyname",
           req[r].phase \notin Ended,
           \/ \E user : Found(r, user)
           \/ \E user \in DOMAIN users', phase \in {"claimLegacy", "claimSingle", "link"} :
                 Candidate(r, phase, user) /\ backend = "postgres"
    PROVE  Fine
  <1>1. PICK w : w = World'
    OBVIOUS
  <1>2. RowKnows(req[r], w) /\ IsRow(req[r])
    BY <1>1, RowsNow DEF Ready, IInv, RowsInv, RowFits
  <1>3. /\ req[r].arg = [identity |-> req[r].arg.identity, candidate |-> req[r].arg.candidate,
                         again |-> req[r].arg.again]
        /\ req[r].arg.identity \in Identities
    BY <1>2 DEF RowKnows, WellAsked
  <1>4. DOMAIN req' = DOMAIN req /\ \A q \in DOMAIN req \ {r} : req'[q] = req[q]
    BY DEF Found, Candidate
  <1>5. ASSUME NEW user, Found(r, user) PROVE RowKnows(req'[r], w)
    <2>1. /\ req'[r].kind = "keyname" /\ req'[r].token = req[r].token /\ req'[r].arg = req[r].arg
          /\ req'[r].phase = "orgs" /\ req'[r].outcome = req[r].outcome
      BY <1>2, <1>5 DEF Found, IsRow
    <2>2. WellAsked(req'[r], w)
      BY <1>2, <2>1 DEF RowKnows, WellAsked, SignIns
    <2> QED
      BY <1>2, <2>1, <2>2 DEF RowKnows, Entitled, FoundOut, Resolving
  <1>6. ASSUME NEW user \in DOMAIN users', NEW phase \in {"claimLegacy", "claimSingle", "link"},
               Candidate(r, phase, user), backend = "postgres"
        PROVE  RowKnows(req'[r], w)
    <2>1. /\ req'[r].kind = "keyname" /\ req'[r].token = req[r].token
          /\ req'[r].phase = phase /\ req'[r].outcome = req[r].outcome
          /\ req'[r].arg = [req[r].arg EXCEPT !.candidate = user]
      BY <1>2, <1>6 DEF Candidate, IsRow
    <2>2. /\ req'[r].arg.candidate = user /\ req'[r].arg.identity = req[r].arg.identity
          /\ req'[r].arg = [identity |-> req'[r].arg.identity, candidate |-> req'[r].arg.candidate,
                            again |-> req'[r].arg.again]
      BY <1>3, <2>1
    <2>3. WellAsked(req'[r], w)
      BY <1>2, <1>3, <2>1, <2>2 DEF RowKnows, WellAsked, SignIns
    <2>4. w.store = "postgres" /\ w.people = DOMAIN users'
      BY <1>1, <1>6 DEF World, RightsStep
    <2>5. FoundOut(req'[r], w)
      BY <1>6, <2>1, <2>2, <2>4 DEF FoundOut
    <2> QED
      BY <1>2, <2>1, <2>3, <2>5 DEF RowKnows, Entitled
  <1> QED
    BY <1>1, <1>4, <1>5, <1>6, OneFine

\* An identity goes on to a phase that asks for nothing but PostgreSQL.
LEMMA IdentityGoes ==
    ASSUME Ready, RightsStep, UNCHANGED ops, NEW r \in DOMAIN req, req[r].kind = "keyname",
           req[r].phase \notin Ended,
           NEW phase \in {"legacy", "email", "candidates", "empty", "createUser", "createOrg"},
           Go(r, phase), phase \in {"legacy", "email", "candidates"} => backend = "postgres"
    PROVE  Fine
  <1>1. PICK w : w = World'
    OBVIOUS
  <1>2. Keeps(r) /\ req'[r].phase = phase /\ req'[r].outcome = req[r].outcome
    BY GoKeeps DEF Ready, IInv
  <1>3. w.store = backend
    BY <1>1 DEF World, RightsStep
  <1>4. FoundOut(req'[r], w)
    BY <1>2, <1>3 DEF FoundOut, Keeps, Resolving
  <1> QED
    BY <1>1, <1>2, <1>4, GoFine

LEMMA IdentityFine ==
    ASSUME Ready, RightsStep, UNCHANGED ops, NEW r \in DOMAIN req, req[r].kind = "keyname",
           req[r].phase \notin Ended,
           \/ \E outcome \in Outcomes : AnswerWith(r, outcome)
           \/ \E user : Found(r, user)
           \/ \E user \in DOMAIN users', phase \in {"claimLegacy", "claimSingle", "link"} :
                 Candidate(r, phase, user) /\ backend = "postgres"
           \/ NotProvisioned(r)
           \/ \E phase \in {"legacy", "email", "candidates"} : Go(r, phase) /\ backend = "postgres"
           \/ \E phase \in {"createUser", "createOrg"} : Go(r, phase)
    PROVE  Fine
  <1>1. Entitled(req[r], World')
    BY DEF Entitled
  <1>2. ASSUME NEW outcome \in Outcomes, AnswerWith(r, outcome) PROVE Fine
    BY <1>1, <1>2, AnswerFine
  <1>3. CASE NotProvisioned(r)
    <2>1. Go(r, "empty") \/ AnswerWith(r, "missing")
      BY <1>3 DEF NotProvisioned
    <2> QED
      BY <1>2, <2>1, IdentityGoes DEF Outcomes
  <1> QED
    BY <1>2, <1>3, FoundFine, IdentityGoes

\* The row of a sign-in with Keyname.
LEMMA KeynameKnows ==
    ASSUME Ready, NEW r \in DOMAIN req, req[r].kind = "keyname", req[r].phase \notin Ended
    PROVE  /\ Subject(r) \in Subjects /\ Email(r) \in Emails
           /\ req[r].phase \in Resolving => backend = "postgres"
           /\ req[r].phase \in {"claimLegacy", "claimSingle", "link"}
                 => req[r].arg.candidate \in DOMAIN users
  <1>1. RowKnows(req[r], World)
    BY KnownRow
  <1>2. req[r].arg.identity \in Identities /\ FoundOut(req[r], World)
    BY <1>1 DEF RowKnows, WellAsked
  <1> QED
    BY <1>2, SignInAssumption DEF FoundOut, World, Subject, Email

LEMMA LinkIsUserStep ==
    ASSUME NEW user \in DOMAIN users, NEW subject \in Subjects, Link(user, subject),
           backend = "sqlite" => users[user].subject \notin Subjects \ {subject}
    PROVE  UserStep
  BY DEF UserStep

\* The SQLite store resolves an identity at once, and links nobody who is linked.
LEMMA ResolveFine ==
    ASSUME Ready, NEW r, Resolve(r) PROVE Fine
  <1>1. /\ r \in DOMAIN req /\ req[r].kind = "keyname" /\ req[r].phase \notin Ended
        /\ UNCHANGED <<backend, orgs, grants, tokens, given>> /\ UNCHANGED ops
    BY DEF Resolve, In, Ended, OnlyUsers
  <1>2. Subject(r) \in Subjects /\ Email(r) \in Emails
    BY <1>1, KeynameKnows
  <1>3. PICK subject, email : subject = Subject(r) /\ email = Email(r)
    OBVIOUS
  <1>4. /\ UNCHANGED users \/ \E user \in DOMAIN users : /\ Link(user, subject)
                                                        /\ users[user].subject \in {email, NoSubject, subject}
        /\ \/ \E outcome \in Outcomes : AnswerWith(r, outcome)
           \/ \E user : Found(r, user)
           \/ NotProvisioned(r)
    <2>1. CASE BySubject(subject) # {}
      BY <1>3, <2>1 DEF Resolve
    <2>2. CASE BySubject(subject) = {} /\ BySubject(email) # {}
      BY <1>3, <2>2 DEF Resolve, BySubject
    <2>3. CASE BySubject(subject) = {} /\ BySubject(email) = {} /\ email \in DOMAIN users
      BY <1>3, <2>3 DEF Resolve, LinkedElsewhere, Outcomes
    <2>4. CASE BySubject(subject) = {} /\ BySubject(email) = {} /\ email \notin DOMAIN users
      BY <1>3, <2>4 DEF Resolve, Unlinked, BySubject
    <2> QED
      BY <2>1, <2>2, <2>3, <2>4
  <1>5. UserStep
    <2>1. ASSUME NEW user \in DOMAIN users, Link(user, subject),
                 users[user].subject \in {email, NoSubject, subject}
          PROVE  UserStep
      BY <1>2, <1>3, <2>1, LinkIsUserStep, AccountsAssumption
    <2> QED
      BY <1>4, <2>1 DEF UserStep
  <1> QED
    BY <1>1, <1>4, <1>5, OnlyUsersStep, IdentityFine

\* The commands of the PostgreSQL store that only read.
LEMMA SelectFine ==
    ASSUME Ready, NEW r, SelectBySubject(r) \/ SelectLegacy(r) \/ SelectByEmail(r) \/ SelectCandidates(r)
    PROVE  Fine
  <1>1. /\ r \in DOMAIN req /\ req[r].kind = "keyname" /\ req[r].phase \notin Ended
        /\ req[r].phase \in Resolving
        /\ UNCHANGED accountVars /\ UNCHANGED ops
    BY DEF SelectBySubject, SelectLegacy, SelectByEmail, SelectCandidates, In, Ended, OnlyUsers,
           accountVars, Resolving
  <1>2. backend = "postgres" /\ UNCHANGED users
    BY <1>1, KeynameKnows DEF accountVars
  <1>3. \/ \E outcome \in Outcomes : AnswerWith(r, outcome)
        \/ \E user : Found(r, user)
        \/ \E user \in DOMAIN users, phase \in {"claimLegacy", "claimSingle", "link"} :
              Candidate(r, phase, user)
        \/ NotProvisioned(r)
        \/ \E phase \in {"legacy", "email", "candidates"} : Go(r, phase)
    <2>1. CASE SelectBySubject(r)
      BY <2>1 DEF SelectBySubject
    <2>2. CASE SelectLegacy(r)
      BY <2>2 DEF SelectLegacy, BySubject
    <2>3. CASE SelectByEmail(r)
      BY <2>3 DEF SelectByEmail, Outcomes
    <2>4. CASE SelectCandidates(r)
      BY <2>4 DEF SelectCandidates, Unlinked, BySubject
    <2> QED
      BY <2>1, <2>2, <2>3, <2>4
  <1> QED
    BY <1>1, <1>2, <1>3, QuietRights, IdentityFine

\* Those that link a user.
LEMMA ClaimFine ==
    ASSUME Ready, NEW r, ClaimCandidate(r) \/ LinkByEmail(r) PROVE Fine
  <1>1. /\ r \in DOMAIN req /\ req[r].kind = "keyname" /\ req[r].phase \notin Ended
        /\ req[r].phase \in {"claimLegacy", "claimSingle", "link"} /\ req[r].phase \in Resolving
        /\ UNCHANGED <<backend, orgs, grants, tokens, given>> /\ UNCHANGED ops
    BY DEF ClaimCandidate, LinkByEmail, In, Ended, OnlyUsers, Resolving
  <1>2. PICK user, subject : user = req[r].arg.candidate /\ subject = Subject(r)
    OBVIOUS
  <1>3. backend = "postgres" /\ user \in DOMAIN users /\ subject \in Subjects
    BY <1>1, <1>2, KeynameKnows
  <1>4. /\ UNCHANGED users \/ Link(user, subject)
        /\ \/ \E outcome \in Outcomes : AnswerWith(r, outcome)
           \/ Found(r, user)
           \/ NotProvisioned(r)
           \/ \E phase \in {"legacy", "email", "candidates"} : Go(r, phase)
    BY <1>2 DEF ClaimCandidate, LinkByEmail, Outcomes
  <1>5. UserStep
    BY <1>3, <1>4, LinkIsUserStep DEF UserStep
  <1> QED
    BY <1>1, <1>3, <1>4, <1>5, OnlyUsersStep, IdentityFine

LEMMA BootstrapFine ==
    ASSUME Ready, NEW r, CheckEmpty(r) \/ BootstrapUser(r) \/ BootstrapOrganization(r) PROVE Fine
  <1>1. /\ r \in DOMAIN req /\ req[r].kind = "keyname" /\ req[r].phase \notin Ended /\ UNCHANGED ops
    BY DEF CheckEmpty, BootstrapUser, BootstrapOrganization, In, Ended, OnlyUsers
  <1>2. Email(r) \in Emails
    BY <1>1, KeynameKnows
  <1>3. CASE CheckEmpty(r) \/ BootstrapUser(r)
    <2>1. /\ UNCHANGED <<backend, orgs, grants, tokens, given>>
          /\ UNCHANGED users \/ CreateUser(Email(r), TRUE)
          /\ \/ \E outcome \in Outcomes : AnswerWith(r, outcome)
             \/ \E phase \in {"createUser", "createOrg"} : Go(r, phase)
      BY <1>3 DEF CheckEmpty, BootstrapUser, OnlyUsers, Outcomes
    <2>2. UserStep
      BY <1>2, <2>1 DEF UserStep
    <2> QED
      BY <1>1, <2>1, <2>2, OnlyUsersStep, IdentityFine
  <1>4. CASE BootstrapOrganization(r)
    <2> DEFINE phase == IF backend = "sqlite" THEN "resolve" ELSE "subject"
    <2>1. /\ \/ CreateOrganization(BootstrapOrg, Email(r)) /\ UNCHANGED <<backend, users, tokens>>
             \/ UNCHANGED accountVars
          /\ \/ AnswerWith(r, "conflict")
             \/ req' = [req EXCEPT ![r].phase = phase, ![r].arg.again = TRUE]
      BY <1>4 DEF BootstrapOrganization, accountVars
    <2> HIDE DEF phase
    <2>2. RightsStep
      BY <2>1, SignInAssumption, OrganizationStep, QuietRights
    <2>3. CASE AnswerWith(r, "conflict")
      BY <1>1, <2>2, <2>3, IdentityFine DEF Outcomes
    <2>4. CASE req' = [req EXCEPT ![r].phase = phase, ![r].arg.again = TRUE]
      <3>1. PICK w : w = World'
        OBVIOUS
      <3>2. RowKnows(req[r], w) /\ IsRow(req[r])
        BY <1>1, <2>2, <3>1, RowsNow DEF Ready, IInv, RowsInv, RowFits
      <3>3. /\ req[r].arg = [identity |-> req[r].arg.identity, candidate |-> req[r].arg.candidate,
                             again |-> req[r].arg.again]
            /\ req[r].arg.identity \in Identities
        BY <1>1, <3>2 DEF RowKnows, WellAsked
      <3>4. /\ DOMAIN req' = DOMAIN req /\ \A q \in DOMAIN req \ {r} : req'[q] = req[q]
            /\ req'[r].kind = "keyname" /\ req'[r].token = req[r].token
            /\ req'[r].phase = phase /\ req'[r].outcome = req[r].outcome
            /\ req'[r].arg = [req[r].arg EXCEPT !.again = TRUE]
        BY <1>1, <2>4, <3>2 DEF IsRow
      <3>5. /\ req'[r].arg.identity = req[r].arg.identity
            /\ req'[r].arg = [identity |-> req'[r].arg.identity, candidate |-> req'[r].arg.candidate,
                              again |-> req'[r].arg.again]
        BY <3>3, <3>4
      <3>6. phase \in {"resolve", "subject"} /\ (phase = "subject" => w.store = "postgres")
        BY <2>2, <3>1 DEF phase, World, RightsStep, Ready, AInv, TablesInv, AccountsTypeOK
      <3>7. WellAsked(req'[r], w)
        BY <1>1, <3>2, <3>3, <3>4, <3>5, <3>6 DEF RowKnows, WellAsked, SignIns
      <3>8. FoundOut(req'[r], w)
        BY <3>4, <3>6 DEF FoundOut, Resolving
      <3>9. RowKnows(req'[r], w)
        BY <1>1, <3>2, <3>4, <3>7, <3>8 DEF RowKnows, Entitled
      <3> QED
        BY <1>1, <2>2, <3>1, <3>4, <3>9, OneFine
    <2> QED
      BY <2>1, <2>3, <2>4
  <1> QED
    BY <1>3, <1>4

\* The first of some orgs is one of them.
LEMMA FirstIsOne ==
    ASSUME NEW names, names # {}, names \subseteq Orgs
    PROVE  FirstOrg(names) \in names
  <1> DEFINE at == {k \in DOMAIN OrgOrder : OrgOrder[k] \in names}
  <1>1. at # {} /\ at \subseteq Nat /\ DOMAIN OrgOrder = 1 .. Len(OrgOrder) /\ Len(OrgOrder) \in Nat
    <2>1. DOMAIN OrgOrder = 1 .. Len(OrgOrder) /\ Len(OrgOrder) \in Nat
      BY AccountsAssumption, LenProperties
    <2>2. PICK org \in names : org \in Orgs
      OBVIOUS
    <2>3. PICK k \in DOMAIN OrgOrder : OrgOrder[k] = org
      BY <2>2 DEF Orgs, ToSet
    <2> QED
      BY <2>1, <2>2, <2>3
  <1> HIDE DEF at
  <1>2. PICK k \in at : \A j \in at : ~ (<<j, k>> \in OpToRel(<, Nat))
    BY <1>1, NatLessThanWellFounded, WFMin
  <1>3. \A j \in at : ~(j < k)
    BY <1>1, <1>2 DEF OpToRel
  <1>4. /\ k \in DOMAIN OrgOrder /\ OrgOrder[k] \in names
        /\ \A j \in 1 .. k - 1 : OrgOrder[j] \notin names
    BY <1>1, <1>3 DEF at
  <1>5. PICK i : i = CHOOSE n \in DOMAIN OrgOrder :
                        /\ OrgOrder[n] \in names
                        /\ \A j \in 1 .. n - 1 : OrgOrder[j] \notin names
    OBVIOUS
  <1>6. OrgOrder[i] \in names
    BY <1>4, <1>5
  <1> QED
    BY <1>5, <1>6 DEF FirstOrg

\* A session, or a switch, is for an org in which its user has a grant.
LEMMA WelcomeFine ==
    ASSUME Ready, UNCHANGED accountVars, UNCHANGED ops, NEW r \in DOMAIN req,
           NEW phase \in {"any", "open", "update"}, NEW org,
           req' = [req EXCEPT ![r].phase = phase, ![r].token.org = org],
           req[r].phase \notin Ended,
           phase = "any" => req[r].kind = "login",
           phase = "open" => req[r].kind \in SignIns /\ HasAnyGrant(req[r].email, org),
           phase = "update" => /\ req[r].kind = "switch" /\ org = req[r].token.org
                               /\ HasAnyGrant(req[r].email, req[r].arg.org)
    PROVE  Fine
  <1>1. PICK w : w = World
    OBVIOUS
  <1>2. RightsStep /\ World' = w
    BY <1>1, SameWorld
  <1>3. RowKnows(req[r], w) /\ IsRow(req[r])
    BY <1>1, KnownRow DEF Ready, IInv, RowsInv, RowFits
  <1>4. /\ DOMAIN req' = DOMAIN req /\ \A q \in DOMAIN req \ {r} : req'[q] = req[q]
        /\ req'[r].kind = req[r].kind /\ req'[r].arg = req[r].arg /\ req'[r].email = req[r].email
        /\ req'[r].id = req[r].id /\ req'[r].phase = phase /\ req'[r].outcome = req[r].outcome
        /\ req'[r].token = [req[r].token EXCEPT !.org = org]
    BY <1>3 DEF IsRow
  <1>5. /\ req[r].outcome = "pending" /\ FoundOut(req[r], w) /\ WellAsked(req[r], w)
        /\ req[r].kind \in {"login", "tailscale", "keyname", "switch"}
    BY <1>3 DEF RowKnows, SignIns
  <1>6. ASSUME req[r].kind \in SignIns
        PROVE  /\ req'[r].token = [org |-> org, scopes |-> req'[r].token.scopes, email |-> req'[r].token.email]
               /\ req'[r].token.org = org
    <2>1. req[r].token = [org |-> req[r].token.org, scopes |-> req[r].token.scopes, email |-> req[r].token.email]
      BY <1>5, <1>6 DEF WellAsked
    <2> QED
      BY <1>4, <2>1
  <1>7. WellAsked(req'[r], w)
    BY <1>4, <1>5, <1>6 DEF WellAsked, SignIns
  <1>8. w.gifts = given /\ w.people = DOMAIN users /\ w.places = DOMAIN orgs
    BY <1>1 DEF World
  <1>9. CASE phase = "any"
    <2>1. FoundOut(req'[r], w)
      BY <1>4, <1>9 DEF FoundOut, Resolving
    <2> QED
      BY <1>2, <1>4, <1>5, <1>7, <2>1, OneFine DEF RowKnows
  <1>10. CASE phase = "open"
    <2>1. req[r].email \in w.people /\ Welcome(w.gifts, req[r].email, org)
      BY <1>8, <1>10, GrantWelcomes
    <2>2. FoundOut(req'[r], w)
      BY <1>4, <1>6, <1>10, <2>1 DEF FoundOut, Resolving, SignIns
    <2> QED
      BY <1>2, <1>4, <1>5, <1>7, <2>2, OneFine DEF RowKnows
  <1>11. CASE phase = "update"
    <2>1. /\ req[r].arg.org \in w.places /\ Welcome(w.gifts, req[r].email, req[r].arg.org)
      BY <1>8, <1>11, GrantWelcomes
    <2>2. FoundOut(req'[r], w)
      BY <1>4, <1>5, <1>11, <2>1 DEF FoundOut, Resolving
    <2> QED
      BY <1>2, <1>4, <1>5, <1>7, <2>2, OneFine DEF RowKnows
  <1> QED
    BY <1>9, <1>10, <1>11

LEMMA ChooseFine ==
    ASSUME Ready, NEW r, ChooseOrg(r) PROVE Fine
  <1> DEFINE names == AccessibleOrgs(req[r].email)
             org == FirstOrg(names)
  <1>1. /\ r \in DOMAIN req /\ UNCHANGED accountVars /\ UNCHANGED ops /\ req[r].phase = "orgs"
        /\ req[r].phase \notin Ended
    BY DEF ChooseOrg, Ended
  <1>2. req[r].kind \in {"keyname", "login"}
    BY <1>1, KnownRow DEF RowKnows, WellAsked
  <1>3. CASE AnswerWith(r, "forbidden")
    <2>1. Entitled(req[r], World')
      BY <1>2 DEF Entitled
    <2> QED
      BY <1>1, <1>3, <2>1, QuietRights, AnswerFine DEF Outcomes
  <1>4. ASSUME names # {},
               NEW phase, phase = IF req[r].kind = "login" THEN "any" ELSE "open",
               req' = [req EXCEPT ![r].phase = phase, ![r].token.org = org]
        PROVE  Fine
    <2>1. names \subseteq Orgs
      BY DEF AccessibleOrgs, Ready, AInv, TablesInv, AccountsTypeOK, GrantsTyped, OrgsTyped
    <2>2. HasAnyGrant(req[r].email, org)
      BY <1>4, <2>1, FirstIsOne DEF HasAnyGrant
    <2> HIDE DEF org, names
    <2> QED
      BY <1>1, <1>2, <1>4, <2>2, WelcomeFine DEF SignIns
  <1> QED
    BY <1>3, <1>4 DEF ChooseOrg

LEMMA AnyGrantFine ==
    ASSUME Ready, NEW r, CheckAnyGrant(r) PROVE Fine
  <1> DEFINE org == IF req[r].kind = "switch" THEN req[r].token.org ELSE WantedOrg(r)
             phase == IF req[r].kind = "switch" THEN "update" ELSE "open"
  <1>1. /\ r \in DOMAIN req /\ UNCHANGED accountVars /\ UNCHANGED ops /\ req[r].phase = "any"
        /\ req[r].phase \notin Ended
    BY DEF CheckAnyGrant, Ended
  <1>2. /\ req[r].kind \in {"login", "tailscale", "switch"}
        /\ req[r].kind = "switch" => req[r].arg.org \in Orgs
    BY <1>1, KnownRow DEF RowKnows, WellAsked
  <1>3. CASE AnswerWith(r, "forbidden")
    <2>1. Entitled(req[r], World')
      BY <1>2 DEF Entitled
    <2> QED
      BY <1>1, <1>3, <2>1, QuietRights, AnswerFine DEF Outcomes
  <1>4. ASSUME HasAnyGrant(req[r].email, WantedOrg(r)),
               req' = [req EXCEPT ![r].phase = phase, ![r].token.org = org]
        PROVE  Fine
    <2>1. req[r].kind = "switch" => WantedOrg(r) = req[r].arg.org
      BY <1>2, SignInAssumption DEF WantedOrg
    <2>2. /\ phase \in {"open", "update"}
          /\ phase = "open" => req[r].kind \in SignIns /\ org = WantedOrg(r)
          /\ phase = "update" => req[r].kind = "switch" /\ org = req[r].token.org
      BY <1>2 DEF SignIns
    <2> HIDE DEF org, phase
    <2> QED
      BY <1>1, <1>4, <2>1, <2>2, WelcomeFine
  <1> QED
    BY <1>3, <1>4 DEF CheckAnyGrant

LEMMA PasswordFine ==
    ASSUME Ready, NEW r, CheckPassword(r) PROVE Fine
  <1>1. /\ r \in DOMAIN req /\ req[r].kind = "login" /\ req[r].phase \notin Ended
        /\ UNCHANGED accountVars /\ UNCHANGED ops
        /\ \/ AnswerWith(r, "unauthorized")
           \/ \E phase \in {"orgs", "any"} : Go(r, phase)
    BY DEF CheckPassword, In, Ended
  <1>2. CASE AnswerWith(r, "unauthorized")
    BY <1>1, <1>2, QuietRights, AnswerFine DEF Outcomes
  <1>3. ASSUME NEW phase \in {"orgs", "any"}, Go(r, phase) PROVE Fine
    <2>1. Keeps(r) /\ req'[r].phase = phase /\ req'[r].outcome = req[r].outcome
      BY <1>1, <1>3, GoKeeps DEF Ready, IInv
    <2>2. FoundOut(req'[r], World')
      BY <1>1, <2>1 DEF FoundOut, Keeps, Resolving
    <2> QED
      BY <1>1, <2>1, <2>2, QuietRights, GoFine
  <1> QED
    BY <1>1, <1>2, <1>3

\* A session is opened where its user was given something.
LEMMA OpenFine ==
    ASSUME Ready, NEW r, OpenSession(r) PROVE Fine
  <1> DEFINE org == req[r].token.org
             scopes == SessionScopes(org)
             email == req[r].email
  <1>1. /\ r \in DOMAIN req /\ req[r].phase = "open" /\ req[r].phase \notin Ended /\ UNCHANGED ops
        /\ UNCHANGED <<backend, users, orgs, grants, given>>
        /\ \/ MintAccepted(org, scopes, email) /\ InsertToken(org, scopes, email, TRUE)
           \/ UNCHANGED tokens
        /\ \/ \E outcome \in Outcomes : AnswerWith(r, outcome)
           \/ req[r].kind = "keyname" /\ Go(r, "prior")
    BY DEF OpenSession, Ended, Outcomes
  <1>2. req[r].kind \in SignIns /\ email \in DOMAIN users /\ Welcome(given, email, org)
    <2>1. RowKnows(req[r], World)
      BY <1>1, KnownRow
    <2> QED
      BY <1>1, <2>1 DEF RowKnows, WellAsked, FoundOut, World
  <1>3. scopes # {}
    BY DEF SessionScopes
  <1> HIDE DEF org, scopes, email
  <1>4. RightsStep
    <2>1. TokenRowsStep
      BY <1>1, <1>2, <1>3 DEF TokenRowsStep, MintAccepted, ScopesAccepted
    <2> QED
      BY <1>1, <2>1 DEF RightsStep, UserStep, OrgStep, GrantRowsStep, Ready
  <1>5. CASE \E outcome \in Outcomes : AnswerWith(r, outcome)
    <2>1. Entitled(req[r], World')
      BY <1>2 DEF Entitled, SignIns
    <2> QED
      BY <1>1, <1>4, <1>5, <2>1, AnswerFine
  <1>6. CASE req[r].kind = "keyname" /\ Go(r, "prior")
    <2>1. Keeps(r) /\ req'[r].phase = "prior" /\ req'[r].outcome = req[r].outcome
      BY <1>1, <1>6, GoKeeps DEF Ready, IInv
    <2>2. FoundOut(req'[r], World')
      BY <1>6, <2>1 DEF FoundOut, Keeps, Resolving
    <2> QED
      BY <1>1, <1>4, <2>1, <2>2, GoFine
  <1> QED
    BY <1>1, <1>5, <1>6

\* The earlier session of the same user, and its end.
LEMMA PriorFine ==
    ASSUME Ready, NEW r, CheckPrior(r) \/ RevokePrior(r) PROVE Fine
  <1>1. /\ r \in DOMAIN req /\ req[r].kind = "keyname" /\ req[r].phase \notin Ended /\ UNCHANGED ops
    BY DEF CheckPrior, RevokePrior, In, Ended
  <1>2. Entitled(req[r], World')
    BY <1>1 DEF Entitled
  <1>3. CASE CheckPrior(r)
    <2>1. UNCHANGED accountVars
      BY <1>3 DEF CheckPrior
    <2>2. CASE AnswerWith(r, "ok")
      BY <1>1, <1>2, <2>1, <2>2, QuietRights, AnswerFine DEF Outcomes
    <2>3. CASE /\ Go(r, "revokePrior") /\ Live(req[r].id)
               /\ tokens[req[r].id].email = req[r].email /\ IsSession(tokens[req[r].id])
      <3>1. Keeps(r) /\ req'[r].phase = "revokePrior" /\ req'[r].outcome = req[r].outcome
        BY <1>1, <2>3, GoKeeps DEF Ready, IInv
      <3>2. PICK w : w = World'
        OBVIOUS
      <3>3. w.table = tokens
        BY <2>1, <3>2 DEF World, accountVars
      <3>4. FoundOut(req'[r], w)
        BY <1>1, <2>3, <3>1, <3>3 DEF FoundOut, Keeps, Resolving, Live
      <3> QED
        BY <1>1, <2>1, <3>1, <3>2, <3>4, QuietRights, GoFine
    <2> QED
      BY <1>3, <2>2, <2>3 DEF CheckPrior
  <1>4. CASE RevokePrior(r)
    <2>1. /\ UNCHANGED <<backend, users, orgs, grants, given>> /\ AnswerWith(r, "ok")
          /\ UNCHANGED tokens \/ RevokeToken(req[r].id)
      BY <1>4 DEF RevokePrior
    <2>2. RightsStep
      BY <2>1, RevokeStep, QuietRights DEF accountVars
    <2> QED
      BY <1>1, <1>2, <2>1, <2>2, AnswerFine DEF Outcomes
  <1> QED
    BY <1>3, <1>4

\* A session moves to an org where its user was given something.
LEMMA SwitchFine ==
    ASSUME Ready, NEW r, RejectSwitch(r) \/ SwitchOrg(r) PROVE Fine
  <1>1. /\ r \in DOMAIN req /\ req[r].kind = "switch" /\ req[r].phase \notin Ended /\ UNCHANGED ops
        /\ \E outcome \in Outcomes : AnswerWith(r, outcome)
    BY DEF RejectSwitch, SwitchOrg, In, Ended, Outcomes
  <1>2. Entitled(req[r], World')
    BY <1>1 DEF Entitled
  <1>3. PICK id, org : id = req[r].id /\ org = req[r].arg.org
    OBVIOUS
  <1>4. CASE UNCHANGED accountVars
    BY <1>1, <1>2, <1>4, QuietRights, AnswerFine
  <1>5. CASE SwitchOrg(r) /\ SwitchTokenOrg(id, org)
    <2>1. req[r].phase = "update" /\ UNCHANGED <<backend, users, orgs, grants, given>>
      BY <1>5 DEF SwitchOrg, In
    <2>2. /\ id \in DOMAIN tokens /\ tokens[id].email = req[r].email /\ org \in DOMAIN orgs
          /\ Welcome(given, req[r].email, org)
      <3>1. RowKnows(req[r], World)
        BY <1>1, KnownRow
      <3> QED
        BY <1>1, <1>3, <2>1, <3>1 DEF RowKnows, FoundOut, World
    <2>3. TokenRowsStep
      BY <1>5, <2>1, <2>2 DEF TokenRowsStep
    <2>4. RightsStep
      BY <2>1, <2>3 DEF RightsStep, UserStep, OrgStep, GrantRowsStep, Ready
    <2> QED
      BY <1>1, <1>2, <2>4, AnswerFine
  <1> QED
    BY <1>3, <1>4, <1>5 DEF RejectSwitch, SwitchOrg, accountVars

\* After a logout answered "ok" the session is revoked.
LEMMA LogoutFine ==
    ASSUME Ready, NEW r, Logout(r) PROVE Fine
  <1>1. PICK id : id = req[r].id
    OBVIOUS
  <1>2. /\ r \in DOMAIN req /\ req[r].kind = "logout" /\ req[r].phase \notin Ended /\ UNCHANGED ops
        /\ UNCHANGED <<backend, users, orgs, grants, given>>
        /\ \/ RevokeToken(id) /\ AnswerWith(r, "ok")
           \/ UNCHANGED tokens /\ AnswerWith(r, "missing")
           \/ UNCHANGED tokens /\ AnswerWith(r, "ok") /\ ~IsSession(req[r].token)
    BY <1>1 DEF Logout, In, Ended
  <1>3. RightsStep
    BY <1>2, RevokeStep, QuietRights DEF accountVars
  <1>4. PICK w : w = World'
    OBVIOUS
  <1>5. w.table = tokens'
    BY <1>4 DEF World
  <1>6. CASE RevokeToken(id) /\ AnswerWith(r, "ok")
    <2>1. id \in DOMAIN tokens' /\ tokens'[id].revoked
      <3>1. id \in DOMAIN tokens /\ tokens' = [tokens EXCEPT ![id].revoked = TRUE]
        BY <1>6 DEF RevokeToken
      <3>2. IsToken(tokens[id])
        BY <3>1 DEF Ready, IInv, TokenTable
      <3> QED
        BY <3>1, <3>2 DEF IsToken
    <2>2. Entitled(req[r], w)
      BY <1>1, <1>2, <1>5, <2>1 DEF Entitled
    <2> QED
      BY <1>2, <1>3, <1>4, <1>6, <2>2, AnswerFine DEF Outcomes
  <1>7. CASE AnswerWith(r, "missing")
    BY <1>2, <1>3, <1>7, AnswerFine DEF Outcomes
  <1>8. CASE AnswerWith(r, "ok") /\ ~IsSession(req[r].token)
    <2>1. Entitled(req[r], w)
      BY <1>2, <1>8 DEF Entitled
    <2> QED
      BY <1>2, <1>3, <1>4, <1>8, <2>1, AnswerFine DEF Outcomes
  <1> QED
    BY <1>2, <1>6, <1>7, <1>8

LEMMA SignInFine ==
    ASSUME Ready, NEW r, SignInProgress(r) PROVE Fine
  BY ResolveFine, SelectFine, ClaimFine, BootstrapFine, PasswordFine, ChooseFine, AnyGrantFine,
     OpenFine, PriorFine, SwitchFine, LogoutFine
     DEF SignInProgress

-----------------------------------------------------------------------------
(***************************************************************************)
(* Requests arrive and are lost, the operator works, tokens expire.        *)
(***************************************************************************)

FirstPhases == {"authorize", "create", "scope", "find", "names", "rows", "admin",
                "invalid", "any", "revoke"}

\* What the request asks for, before anything was looked up.
AsksFor(kind, phase, arg) ==
    /\ kind \notin SignIns /\ phase \in FirstPhases /\ (phase = "any" => kind = "switch")
    /\ kind \in {"org", "switch"} => arg.org \in Orgs
    /\ kind = "revoke" => arg.id \in DOMAIN tokens
    /\ kind \in {"user", "verify"} => arg.email \in Emails
    /\ kind \in {"grant", "ungrant"} => arg \in AdminAsks

LEMMA ArrivalFine ==
    ASSUME Ready, NEW r \in RequestIds, NEW kind, NEW phase, NEW id \in DOMAIN tokens, NEW arg,
           Arrive(r, kind, phase, id, arg), AsksFor(kind, phase, arg)
    PROVE  Fine
  <1>1. PICK w : w = World
    OBVIOUS
  <1>2. /\ UNCHANGED accountVars /\ UNCHANGED ops /\ NextRequest(r) /\ kind \in Kinds /\ World' = w
        /\ w.table = tokens /\ w.last = LastToken /\ w.people = DOMAIN users
        /\ DOMAIN tokens \subseteq 1 .. LastToken
    BY <1>1, SameWorld DEF Arrive, Ready, AInv, TablesInv, AccountsTypeOK, World
  <1>3. /\ tokens[id].email \in DOMAIN users \cup {NoUser}
        /\ IsSession(tokens[id]) => Welcome(w.gifts, tokens[id].email, tokens[id].org)
    BY <1>1 DEF Ready, AInv, TablesInv, AccountsTypeOK, TokensTyped, SessionsWelcome, World
  <1> DEFINE asked == NewRequest(kind, phase, id, tokens[id], arg)
             refused == [NewRequest(kind, "answered", id, tokens[id], arg)
                           EXCEPT !.outcome = "unauthorized"]
  <1>4. /\ asked.kind = kind /\ asked.phase = phase /\ asked.token = tokens[id] /\ asked.arg = arg
        /\ asked.email = tokens[id].email /\ asked.id = id /\ asked.shown = {}
        /\ asked.outcome = "pending"
    BY DEF NewRequest
  <1>5. /\ refused.kind = kind /\ refused.phase = "answered" /\ refused.arg = arg
        /\ refused.shown = {} /\ refused.outcome = "unauthorized"
    BY DEF NewRequest
  <1>6. /\ DOMAIN req' = DOMAIN req \cup {r} /\ \A q \in DOMAIN req \ {r} : req'[q] = req[q]
        /\ req'[r] = asked \/ req'[r] = refused
    BY DEF Arrive, Put
  <1> HIDE DEF asked, refused
  <1>7. arg.id \in DOMAIN tokens => arg.id \in 1 .. w.last
    BY <1>2
  <1>8. WellAsked(asked, w) /\ WellAsked(refused, w)
    <2>1. /\ kind \notin SignIns /\ phase \notin {"orgs", "open"} /\ (phase = "any" => kind = "switch")
          /\ kind = "revoke" => arg.id \in 1 .. w.last
          /\ {"pending", "unauthorized"} \subseteq Outcomes
      BY <1>7 DEF AsksFor, FirstPhases, Outcomes
    <2>2. kind # "keyname" /\ {} \subseteq 1 .. w.last
      BY <2>1 DEF SignIns
    <2>3. WellAsked(asked, w)
      BY <1>2, <1>4, <2>1, <2>2 DEF WellAsked, AsksFor
    <2>4. WellAsked(refused, w)
      BY <1>2, <1>5, <2>1, <2>2 DEF WellAsked, AsksFor
    <2> QED
      BY <2>3, <2>4
  <1>9. FoundOut(asked, w)
    BY <1>2, <1>3, <1>4 DEF FoundOut, AsksFor, FirstPhases, Resolving
  <1>10. RowKnows(asked, w) /\ RowKnows(refused, w)
    BY <1>4, <1>5, <1>8, <1>9 DEF RowKnows, Ended
  <1> QED
    BY <1>2, <1>6, <1>10, ArriveFine

LEMMA RequestArrivesFine ==
    ASSUME Ready, NEW r \in RequestIds, NEW id \in DOMAIN tokens,
           BeginRequest(r, id) \/ BeginSessionRequest(r, id)
    PROVE  Fine
  <1>1. \E kind, phase, arg : Arrive(r, kind, phase, id, arg) /\ AsksFor(kind, phase, arg)
    <2>1. CASE \E ask \in FileAsks : Arrive(r, "file", "authorize", id, ask)
      BY <2>1 DEF AsksFor, SignIns, FirstPhases
    <2>2. CASE \E org \in Orgs : Arrive(r, "org", "create", id, [org |-> org])
      BY <2>2 DEF AsksFor, SignIns, FirstPhases
    <2>3. CASE \E scope \in ScopeAsks : Arrive(r, "mint", "scope", id, [scopes |-> {scope}])
      BY <2>3 DEF AsksFor, SignIns, FirstPhases
    <2>4. CASE \E ask \in AdminAsks, kind \in {"grant", "ungrant"} : Arrive(r, kind, "admin", id, ask)
      BY <2>4 DEF AsksFor, SignIns, FirstPhases
    <2>5. CASE \E ask \in AdminAsks, kind \in {"user", "verify"} :
                  Arrive(r, kind, "admin", id, [email |-> ask.email, org |-> ask.target[1]])
      <3>1. PICK ask \in AdminAsks, kind \in {"user", "verify"} :
                  Arrive(r, kind, "admin", id, [email |-> ask.email, org |-> ask.target[1]])
        BY <2>5
      <3>2. AsksFor(kind, "admin", [email |-> ask.email, org |-> ask.target[1]])
        BY <3>1, RequestsAssumption DEF AsksFor, SignIns, FirstPhases
      <3> QED
        BY <3>1, <3>2
    <2>6. CASE \E target \in DOMAIN tokens : Arrive(r, "revoke", "find", id, [id |-> target])
      BY <2>6 DEF AsksFor, SignIns, FirstPhases
    <2>7. CASE \/ Arrive(r, "me", "names", id, [org |-> tokens[id].org])
               \/ Arrive(r, "tokens", "rows", id, [org |-> tokens[id].org])
      <3>1. PICK kind \in {"me", "tokens"}, phase \in {"names", "rows"} :
                 Arrive(r, kind, phase, id, [org |-> tokens[id].org])
        BY <2>7
      <3>2. AsksFor(kind, phase, [org |-> tokens[id].org])
        BY DEF AsksFor, SignIns, FirstPhases
      <3> QED
        BY <3>1, <3>2
    <2>8. CASE \E org \in DOMAIN orgs : Arrive(r, "grants", "admin", id, [org |-> org])
      BY <2>8 DEF AsksFor, SignIns, FirstPhases
    <2>9. CASE BeginSessionRequest(r, id)
      <3>1. \/ \E org \in Orgs, phase \in {"invalid", "any"} : Arrive(r, "switch", phase, id, [org |-> org])
            \/ Arrive(r, "logout", "revoke", id, [org |-> NoOrg])
        BY <2>9 DEF BeginSessionRequest
      <3>2. \A org \in Orgs, phase \in {"invalid", "any"} : AsksFor("switch", phase, [org |-> org])
        BY DEF AsksFor, SignIns, FirstPhases
      <3>3. AsksFor("logout", "revoke", [org |-> NoOrg])
        BY DEF AsksFor, SignIns, FirstPhases
      <3> QED
        BY <3>1, <3>2, <3>3
    <2> QED
      BY <2>1, <2>2, <2>3, <2>4, <2>5, <2>6, <2>7, <2>8, <2>9 DEF BeginRequest
  <1> QED
    BY <1>1, ArrivalFine

LEMMA SignInArrivesFine ==
    ASSUME Ready, NEW r \in RequestIds, BeginKeyname(r) \/ BeginLogin(r) PROVE Fine
  <1>1. PICK kind, phase, email, cookie, arg :
          /\ BeginSignIn(r, kind, phase, email, cookie, arg) /\ kind \in SignIns
          /\ phase \in {"resolve", "subject", "password", "any"}
          /\ phase = "any" => kind = "tailscale"
          /\ phase = "subject" => backend = "postgres"
          /\ kind = "keyname" =>
                /\ arg = [identity |-> arg.identity, candidate |-> arg.candidate, again |-> arg.again]
                /\ arg.identity \in Identities
    <2>1. CASE BeginKeyname(r)
      <3>1. PICK identity \in Identities, cookie \in DOMAIN tokens \cup {0} :
              BeginSignIn(r, "keyname", IF backend = "sqlite" THEN "resolve" ELSE "subject",
                          NoUser, cookie,
                          [identity |-> identity, candidate |-> NoUser, again |-> FALSE])
        BY <2>1 DEF BeginKeyname
      <3>2. PICK kind, phase, arg :
              /\ kind = "keyname" /\ phase = IF backend = "sqlite" THEN "resolve" ELSE "subject"
              /\ arg = [identity |-> identity, candidate |-> NoUser, again |-> FALSE]
        OBVIOUS
      <3>3. /\ BeginSignIn(r, kind, phase, NoUser, cookie, arg)
        BY <3>1, <3>2
      <3>4. /\ arg.identity \in Identities
            /\ arg = [identity |-> arg.identity, candidate |-> arg.candidate, again |-> arg.again]
            /\ backend \in {"sqlite", "postgres"}
        BY <3>2 DEF Ready, AInv, TablesInv, AccountsTypeOK
      <3> QED
        BY <3>2, <3>3, <3>4 DEF SignIns
    <2>2. CASE BeginLogin(r)
      <3>1. PICK kind, phase, email, org :
               /\ BeginSignIn(r, kind, phase, email, 0, [org |-> org])
               /\ <<kind, phase>> \in {<<"login", "password">>, <<"tailscale", "any">>}
        BY <2>2 DEF BeginLogin
      <3> QED
        BY <3>1 DEF SignIns
    <2> QED
      BY <2>1, <2>2
  <1>2. PICK w : w = World
    OBVIOUS
  <1>3. /\ UNCHANGED accountVars /\ UNCHANGED ops /\ NextRequest(r) /\ kind \in Kinds
    BY <1>1 DEF BeginSignIn
  <1>4. World' = w /\ w.store = backend
    BY <1>2, <1>3, SameWorld DEF World
  <1> DEFINE row == NewRequest(kind, phase, cookie, NoToken(email), arg)
  <1>5. /\ row.kind = kind /\ row.phase = phase /\ row.outcome = "pending" /\ row.arg = arg
        /\ row.token = [org |-> row.token.org, scopes |-> row.token.scopes, email |-> row.token.email]
    BY DEF NewRequest, NoToken
  <1>6. /\ DOMAIN req' = DOMAIN req \cup {r} /\ \A q \in DOMAIN req \ {r} : req'[q] = req[q]
        /\ req'[r] = row
    BY <1>1 DEF BeginSignIn, Put
  <1> HIDE DEF row
  <1>7. WellAsked(row, w)
    BY <1>1, <1>3, <1>5 DEF WellAsked, SignIns, Outcomes
  <1>8. FoundOut(row, w)
    BY <1>1, <1>4, <1>5 DEF FoundOut, SignIns, Resolving
  <1>9. RowKnows(row, w)
    BY <1>5, <1>7, <1>8 DEF RowKnows
  <1> QED
    BY <1>3, <1>4, <1>6, <1>9, ArriveFine

LEMMA LossFine ==
    ASSUME Ready, NEW r, LoseRequest(r) PROVE Fine
  <1>1. r \in DOMAIN req /\ Go(r, "lost") /\ UNCHANGED accountVars /\ UNCHANGED ops
        /\ req[r].phase \notin Ended
    BY DEF LoseRequest, Answered, Ended
  <1>2. Keeps(r) /\ req'[r].phase = "lost" /\ req'[r].outcome = req[r].outcome
    BY <1>1, GoKeeps DEF Ready, IInv
  <1> QED
    BY <1>1, <1>2, QuietRights, GoFine DEF Ended

\* What a pattern of an org is on lies in the org.
LEMMA BelowOrg ==
    ASSUME NEW path \in Seq(STRING), NEW org, ValidOrgName(org), ValidScopePath(path, org)
    PROVE  Below(path)[1] = org
  <1>1. PICK t : t = Below(path)
    OBVIOUS
  <1>2. path[1] = org /\ Target(t) /\ Covers(t, path)
    BY <1>1, BelowCovers DEF ValidScopePath
  <1>3. Len(t) \in Nat /\ Len(t) >= 1 /\ ValidOrgName(t[1])
    BY <1>2, TargetSegments
  <1> QED
    BY <1>1, <1>2, <1>3 DEF Covers, SegmentMatches, ValidOrgName

\* The operator's commands.
LEMMA OperatorFine ==
    ASSUME Ready, OperatorNext PROVE Fine
  <1>1. /\ UNCHANGED <<backend, req>> /\ MoreCalls /\ ops' = ops + 1
    BY DEF OperatorNext, OperatorOrg, OperatorUser, OperatorToken, OperatorRevoke, OperatorGrant,
           Operator
  <1>2. RightsStep
    <2>1. CASE OperatorOrg
      BY <1>1, <2>1 DEF OperatorOrg, RightsStep, UserStep, OrgStep, GrantRowsStep, TokenRowsStep, Ready
    <2>2. CASE OperatorUser
      <3>1. UserStep
        BY <2>2 DEF OperatorUser, UserStep
      <3> QED
        BY <1>1, <2>2, <3>1, OnlyUsersStep DEF OperatorUser
    <2>3. CASE OperatorToken
      <3>1. PICK org \in DOMAIN orgs, scope \in ScopeAsks, email \in DOMAIN users \cup {NoUser} :
              /\ MintAccepted(org, {scope}, email) /\ InsertToken(org, {scope}, email, FALSE)
              /\ given' = given \cup {<<email, Below(scope.path), scope.access>>}
        BY <2>3 DEF OperatorToken
      <3>2. PICK scopes, target : scopes = {scope} /\ target = Below(scope.path)
        OBVIOUS
      <3>3. target[1] = org
        BY <3>1, <3>2, NamesAssumption, BelowOrg
           DEF MintAccepted, ScopesAccepted, ValidScopes
      <3>4. Welcome(given', email, org)
        <4>1. PICK gift : gift = <<email, target, scope.access>>
          OBVIOUS
        <4>2. gift \in given' /\ gift[1] = email /\ gift[2] = target
          BY <3>1, <3>2, <4>1
        <4> QED
          BY <3>3, <4>2 DEF Welcome
      <3>5. TokenRowsStep
        BY <3>1, <3>2, <3>4 DEF TokenRowsStep
      <3> QED
        BY <1>1, <2>3, <3>5
           DEF OperatorToken, RightsStep, UserStep, OrgStep, GrantRowsStep, Ready
    <2>4. CASE OperatorRevoke
      BY <1>1, <2>4, RevokeStep DEF OperatorRevoke
    <2>5. CASE OperatorGrant
      <3>1. PICK ask \in AdminAsks :
               \/ Grant(ask.email, ask.target, ask.access)
               \/ RevokeGrant(ask.email, ask.target) /\ UNCHANGED given
        BY <2>5 DEF OperatorGrant
      <3>2. UNCHANGED <<backend, users, orgs, tokens>>
        BY <1>1, <2>5 DEF OperatorGrant
      <3> QED
        BY <3>1, <3>2, AskedGrantStep, UngrantStep DEF Grant, GrantFound
    <2> QED
      BY <2>1, <2>2, <2>3, <2>4, <2>5 DEF OperatorNext
  <1> QED
    BY <1>1, <1>2, NoneFine

\* Whatever the server does.
LEMMA ServingFine ==
    ASSUME Ready, Serving PROVE Fine
  <1>1. CASE \E r \in RequestIds : Begin(r) \/ Progress(r) \/ LoseRequest(r)
    BY <1>1, RequestArrivesFine, SignInArrivesFine, RequestsFine, SignInFine, LossFine
       DEF Begin, Progress
  <1>2. CASE \E id \in DOMAIN tokens : TokenExpires(id) /\ UNCHANGED requestVars
    <2>1. PICK id : TokenExpires(id) /\ UNCHANGED requestVars
      BY <1>2
    <2>2. RightsStep
      BY <2>1 DEF TokenExpires, RightsStep, UserStep, OrgStep, GrantRowsStep, TokenRowsStep, Ready
    <2> QED
      BY <2>1, <2>2, NoneFine DEF requestVars
  <1> QED
    BY <1>1, <1>2, OperatorFine DEF Serving

-----------------------------------------------------------------------------
(***************************************************************************)
(* The rows on their way to PostgreSQL.                                    *)
(***************************************************************************)

LEMMA RowsStayTyped ==
    ASSUME NEW rows, NEW gifts, NEW more, gifts \subseteq more, RowsTyped(rows, gifts)
    PROVE  RowsTyped(rows, more)
  BY DEF RowsTyped, OwnersGiven, SessionsWelcome, Welcome

LEMMA SameRows ==
    ASSUME UNCHANGED accountVars, NEW table PROVE Rows(table)' = Rows(table)
  <1>1. PICK g, o, u, t : g = grants /\ o = orgs /\ u = users /\ t = tokens
    OBVIOUS
  <1>2. g = grants' /\ o = orgs' /\ u = users' /\ t = tokens'
    BY <1>1 DEF accountVars
  <1> QED
    BY <1>1, <1>2 DEF Rows, GrantRows

\* The server goes on beside the script: what it changes ends the quiet.
LEMMA BesidesFine ==
    ASSUME IInv, AInv, Serving, BesideMigration PROVE AInv' /\ Fine
  <1>1. PICK quiet : /\ copy' = [copy EXCEPT !.quiet = quiet]
                     /\ quiet => copy.quiet /\ (copy.phase = "none" \/ UNCHANGED accountVars)
    BY DEF BesideMigration
  <1>2. /\ copy'.phase = copy.phase /\ copy'.at = copy.at /\ copy'.rows = copy.rows
        /\ copy'.quiet = quiet
    BY <1>1 DEF IInv, CopyInv
  <1>3. Ready
    BY <1>2 DEF Ready
  <1>4. Fine
    BY <1>3, ServingFine
  <1>5. given \subseteq given' /\ backend' = backend
    BY <1>4 DEF Fine, RightsStep
  <1>6. TablesInv' /\ Grows(World, World')
    BY <1>4, TablesGrow DEF Fine, AInv
  <1>7. RowsTyped(copy.rows, given')
    BY <1>5, RowsStayTyped DEF AInv, MovedInv
  <1>8. CopyOrder'
    BY <1>2 DEF AInv, MovedInv, CopyOrder
  <1>9. CopyBehind'
    <2>1. \A id \in DOMAIN tokens : id \in DOMAIN tokens' /\ tokens'[id].email = tokens[id].email
      BY <1>6 DEF Grows, World
    <2> QED
      BY <1>2, <1>5, <2>1 DEF AInv, MovedInv, CopyBehind
  <1>10. CopyQuiet'
    <2>1. CASE copy'.quiet /\ copy.phase # "none"
      <3>1. UNCHANGED accountVars /\ copy.quiet
        BY <1>1, <1>2, <2>1
      <3>2. \A table : Rows(table)' = Rows(table)
        BY <3>1, SameRows
      <3>3. Copied' = Copied
        BY <1>2 DEF Copied
      <3> QED
        BY <1>2, <1>5, <3>1, <3>2, <3>3 DEF AInv, MovedInv, CopyQuiet
    <2>2. CASE ~copy'.quiet \/ copy.phase = "none"
      BY <1>2, <2>2 DEF CopyQuiet
    <2> QED
      BY <2>1, <2>2
  <1>11. MovedInv'
    BY <1>2, <1>7, <1>8, <1>9, <1>10 DEF MovedInv
  <1> QED
    BY <1>4, <1>6, <1>11 DEF AInv, Fine

\* A step of the script that leaves the server's tables and requests alone.
LEMMA ScriptStep ==
    ASSUME IInv, AInv, UNCHANGED <<accountVars, req>>,
           ops' = ops \/ (MoreCalls /\ ops' = ops + 1),
           copy'.phase = "none" => copy.phase = "none", MovedInv'
    PROVE  AInv'
  <1>1. TablesInv'
    BY DEF accountVars, AInv, TablesInv, AccountsTypeOK, LastToken
  <1>2. PICK w, w2 : w = World /\ w2 = World'
    OBVIOUS
  <1>3. /\ w.gifts = w2.gifts /\ w.people = w2.people /\ w.places = w2.places /\ w.table = w2.table
        /\ w.last = w2.last /\ w.store = w2.store /\ (w2.alone => w.alone) /\ w.last \in Nat
    <2>1. LastToken' = LastToken /\ LastToken \in Nat
      BY NewTokenNumber DEF accountVars, LastToken, IInv
    <2> QED
      BY <1>2, <2>1 DEF World, accountVars
  <1>4. Grows(w, w2)
    BY <1>3 DEF Grows, Remembers
  <1>5. RowsKnow'
    <2>1. \A r \in DOMAIN req : RowKnows(req[r], w)
      BY <1>2 DEF AInv, RowsKnow
    <2>2. \A r \in DOMAIN req : RowKnows(req[r], w2)
      BY <1>4, <2>1, RowStays
    <2> QED
      BY <1>2, <2>2 DEF RowsKnow
  <1>6. CountInv'
    <2>1. Cardinality(DOMAIN req) \in Nat /\ ops \in Nat /\ MaxCalls \in Nat
          /\ Cardinality(DOMAIN req) + ops <= MaxCalls
      BY FS_CardinalityType, RequestsAssumption DEF CountInv, AInv
    <2>2. ops' \in Nat /\ Cardinality(DOMAIN req) + ops' <= MaxCalls
      BY <2>1 DEF MoreCalls
    <2> QED
      BY <2>2 DEF CountInv, AInv
  <1> QED
    BY <1>1, <1>5, <1>6 DEF AInv

LEMMA BeginFine ==
    ASSUME IInv, AInv, BeginMigration PROVE AInv'
  <1>1. /\ UNCHANGED <<accountVars, req>> /\ MoreCalls /\ ops' = ops + 1 /\ copy.phase = "none"
        /\ copy'.phase = "copying" /\ copy'.at = copy.at /\ copy'.rows = copy.rows
    BY DEF BeginMigration, IInv, CopyInv
  <1>2. copy.at = 1 /\ MovedInv
    BY <1>1 DEF AInv, MovedInv, CopyOrder
  <1>3. CopyOrder'
    BY <1>1, <1>2 DEF MovedInv, CopyOrder, CopyPhases
  <1>4. CopyBehind'
    BY <1>1, <1>2 DEF MovedInv, CopyBehind, accountVars
  <1>5. Copied' = {}
    BY <1>1, <1>2 DEF Copied
  <1>6. MovedInv'
    BY <1>1, <1>2, <1>3, <1>4, <1>5 DEF MovedInv, CopyQuiet, accountVars
  <1> QED
    BY <1>1, <1>6, ScriptStep

\* The tables in the script's order.
LEMMA TablesInOrder ==
    /\ Len(Tables) = 6
    /\ Tables[1] = "orgs" /\ Tables[2] = "users" /\ Tables[3] = "tokens"
    /\ Tables[4] = "org_memberships" /\ Tables[5] = "repo_grants" /\ Tables[6] = "runtime_grants"
  BY DEF Tables

LEMMA RowsOfTables ==
    /\ Rows("orgs") = orgs /\ Rows("users") = users /\ Rows("tokens") = tokens
    /\ Rows("org_memberships") = GrantRows(1) /\ Rows("repo_grants") = GrantRows(2)
    /\ Rows("runtime_grants") = GrantRows(3)
  BY DEF Rows

LEMMA GrantRowsFit ==
    ASSUME AccountsTypeOK, NEW n, NEW people, NEW places,
           \A g \in DOMAIN GrantRows(n) : g[1] \in people /\ g[2][1] \in places
    PROVE  GrantsTyped(GrantRows(n), people, places)
  <1>1. PICK table : table = GrantRows(n)
    OBVIOUS
  <1>2. /\ table = [g \in DOMAIN table |-> table[g]]
        /\ \A g \in DOMAIN table : g \in DOMAIN grants /\ table[g] = grants[g]
    BY <1>1 DEF GrantRows
  <1>3. GrantsTyped(grants, DOMAIN users, DOMAIN orgs)
    BY DEF AccountsTypeOK
  <1>4. GrantsTyped(table, people, places)
    BY <1>1, <1>2, <1>3 DEF GrantsTyped
  <1> QED
    BY <1>1, <1>4

\* Read in this order, rows follow those they refer to.
LEMMA CopiedTyped ==
    ASSUME IInv, AInv, copy.phase = "copying", NEW table, table = Tables[copy.at],
           Refers(table, Rows(table)), NEW rows, rows = [copy.rows EXCEPT ![table] = Rows(table)]
    PROVE  RowsTyped(rows, given)
  <1>1. /\ copy.at \in 1 .. 6 /\ RowsTyped(copy.rows, given)
        /\ \A i \in copy.at .. 6 : copy.rows[Tables[i]] = <<>>
        /\ TablesInv /\ AccountsTypeOK
    BY DEF AInv, MovedInv, CopyOrder, TablesInv
  <1>2. /\ DOMAIN copy.rows = {"orgs", "users", "tokens"} \cup GrantTables
        /\ \A t \in DOMAIN copy.rows : rows[t] = IF t = table THEN Rows(table) ELSE copy.rows[t]
    BY DEF IInv, CopyInv
  <1>3. \A people, places : GrantsTyped(<<>>, people, places) /\ TokensTyped(<<>>, people, places)
    BY DEF GrantsTyped, TokensTyped
  <1>4. SessionsWelcome(<<>>, given)
    BY DEF SessionsWelcome
  <1>5. CASE copy.at = 1
    <2>1. /\ table = "orgs" /\ rows["orgs"] = orgs /\ rows["users"] = copy.rows["users"]
          /\ rows["tokens"] = <<>> /\ \A t \in GrantTables : rows[t] = <<>>
      BY <1>1, <1>2, <1>5, TablesInOrder, RowsOfTables DEF GrantTables
    <2>2. OrgsTyped(orgs) /\ OwnersGiven(orgs, given) /\ UsersTyped(rows["users"])
      BY <1>1, <2>1 DEF TablesInv, AccountsTypeOK, RowsTyped
    <2> QED
      BY <1>3, <1>4, <2>1, <2>2 DEF RowsTyped
  <1>6. CASE copy.at = 2
    <2>1. /\ table = "users" /\ rows["users"] = users /\ rows["orgs"] = copy.rows["orgs"]
          /\ rows["tokens"] = <<>> /\ \A t \in GrantTables : rows[t] = <<>>
      BY <1>1, <1>2, <1>6, TablesInOrder, RowsOfTables DEF GrantTables
    <2>2. /\ UsersTyped(users) /\ OrgsTyped(rows["orgs"]) /\ OwnersGiven(rows["orgs"], given)
      BY <1>1, <2>1 DEF AccountsTypeOK, RowsTyped
    <2> QED
      BY <1>3, <1>4, <2>1, <2>2 DEF RowsTyped
  <1>7. CASE copy.at = 3
    <2>1. /\ table = "tokens" /\ rows["tokens"] = tokens /\ Rows(table) = tokens
          /\ rows["orgs"] = copy.rows["orgs"] /\ rows["users"] = copy.rows["users"]
          /\ \A t \in GrantTables : rows[t] = copy.rows[t]
      BY <1>1, <1>2, <1>7, TablesInOrder, RowsOfTables DEF GrantTables
    <2>2. \A id \in DOMAIN tokens : /\ tokens[id].org \in DOMAIN rows["orgs"]
                                    /\ tokens[id].email \in DOMAIN rows["users"] \cup {NoUser}
      BY <2>1 DEF Refers
    <2>3. TokensTyped(tokens, DOMAIN rows["users"], DOMAIN rows["orgs"]) /\ SessionsWelcome(tokens, given)
      BY <1>1, <2>2 DEF TablesInv, AccountsTypeOK, TokensTyped
    <2> QED
      BY <1>1, <2>1, <2>3 DEF RowsTyped
  <1>8. CASE copy.at \in 4 .. 6
    <2>1. PICK n : Rows(table) = GrantRows(n) /\ table \in GrantTables
      BY <1>8, TablesInOrder, RowsOfTables DEF GrantTables
    <2>2. /\ rows["orgs"] = copy.rows["orgs"] /\ rows["users"] = copy.rows["users"]
          /\ rows["tokens"] = copy.rows["tokens"]
          /\ \A t \in GrantTables : rows[t] = IF t = table THEN GrantRows(n) ELSE copy.rows[t]
      BY <1>2, <2>1 DEF GrantTables
    <2>3. \A g \in DOMAIN GrantRows(n) : /\ g[1] \in DOMAIN rows["users"]
                                         /\ g[2][1] \in DOMAIN rows["orgs"]
      BY <2>1, <2>2 DEF Refers, GrantTables
    <2>4. GrantsTyped(GrantRows(n), DOMAIN rows["users"], DOMAIN rows["orgs"])
      BY <1>1, <2>3, GrantRowsFit
    <2> QED
      BY <1>1, <2>2, <2>4 DEF RowsTyped
  <1> QED
    BY <1>1, <1>5, <1>6, <1>7, <1>8

LEMMA CopyFine ==
    ASSUME IInv, AInv, CopyTable PROVE AInv'
  <1>1. PICK table : table = Tables[copy.at]
    OBVIOUS
  <1>2. /\ UNCHANGED <<accountVars, req>> /\ UNCHANGED ops /\ copy.phase = "copying"
        /\ MovedInv /\ copy.at \in 1 .. 6
    BY DEF CopyTable, requestVars, AInv, MovedInv, CopyOrder
  <1>3. /\ copy = [phase |-> copy.phase, at |-> copy.at, quiet |-> copy.quiet, rows |-> copy.rows]
        /\ DOMAIN copy.rows = {"orgs", "users", "tokens"} \cup GrantTables
    BY DEF IInv, CopyInv
  <1>4. CASE copy' = [copy EXCEPT !.phase = "failed"]
    <2>1. copy'.phase = "failed" /\ copy'.rows = copy.rows /\ copy'.at = copy.at
      BY <1>3, <1>4
    <2>2. MovedInv'
      BY <1>2, <2>1
         DEF MovedInv, CopyOrder, CopyPhases, CopyBehind, CopyQuiet, accountVars
    <2> QED
      BY <1>2, <2>1, <2>2, ScriptStep
  <1>5. CASE Refers(table, Rows(table)) /\ copy' = [Onward("verifying") EXCEPT !.rows[table] = Rows(table)]
    <2>1. PICK new, rows : new = Rows(table) /\ rows = [copy.rows EXCEPT ![table] = new]
      OBVIOUS
    <2>2. /\ copy'.rows = rows /\ copy'.quiet = copy.quiet
          /\ copy.at < 6 => copy'.at = copy.at + 1 /\ copy'.phase = "copying"
          /\ copy.at = 6 => copy'.at = 1 /\ copy'.phase = "verifying"
      <3>1. PICK c : c = Onward("verifying")
        OBVIOUS
      <3>2. copy' = [c EXCEPT !.rows = [c.rows EXCEPT ![table] = new]]
        BY <1>5, <2>1, <3>1
      <3>3. CASE copy.at < 6
        BY <1>2, <1>3, <2>1, <3>1, <3>2, <3>3, TablesInOrder DEF Onward
      <3>4. CASE copy.at = 6
        BY <1>2, <1>3, <2>1, <3>1, <3>2, <3>4, TablesInOrder DEF Onward
      <3> QED
        BY <1>2, <3>3, <3>4
    <2>3. RowsTyped(rows, given)
      BY <1>1, <1>2, <1>5, <2>1, CopiedTyped
    <2>4. \A i, j \in 1 .. 6 : Tables[i] = Tables[j] => i = j
      BY TablesInOrder
    <2>5. \A i \in 1 .. 6 : Tables[i] \in DOMAIN copy.rows
      BY <1>3, TablesInOrder DEF GrantTables
    <2>6. \A i \in 1 .. 6 : rows[Tables[i]] = IF i = copy.at THEN new ELSE copy.rows[Tables[i]]
      BY <1>1, <1>2, <2>1, <2>4, <2>5
    <2>7. CopyOrder'
      <3>1. \A i \in copy.at .. 6 : copy.rows[Tables[i]] = <<>>
        BY <1>2 DEF MovedInv, CopyOrder
      <3>2. CASE copy.at < 6
        <4>1. \A i \in copy.at + 1 .. 6 : rows[Tables[i]] = <<>>
          BY <1>2, <2>6, <3>1
        <4> QED
          BY <1>2, <2>2, <3>2, <4>1 DEF CopyOrder, CopyPhases
      <3>3. CASE copy.at = 6
        BY <2>2, <3>3 DEF CopyOrder, CopyPhases
      <3> QED
        BY <1>2, <3>2, <3>3
    <2>8. CopyBehind'
      <3>1. rows["tokens"] = tokens \/ rows["tokens"] = copy.rows["tokens"]
        <4>1. table = "tokens" => new = tokens
          BY <2>1, RowsOfTables
        <4>2. "tokens" \in DOMAIN copy.rows
          BY <1>3
        <4> QED
          BY <2>1, <4>1, <4>2
      <3> QED
        BY <1>2, <2>2, <3>1 DEF MovedInv, CopyBehind, accountVars
    <2>9. CopyQuiet'
      <3>1. \A t : Rows(t)' = Rows(t)
        BY <1>2, SameRows
      <3>2. Copied = 1 .. copy.at - 1 /\ Copied' = 1 .. copy.at
        <4>1. CASE copy.at = 6
          BY <1>2, <2>2, <4>1 DEF Copied
        <4>2. CASE copy.at # 6
          <5>1. copy'.at = copy.at + 1 /\ copy'.phase = "copying" /\ copy.at \in Nat
            BY <1>2, <2>2, <4>2
          <5>2. (copy.at + 1) - 1 = copy.at
            BY <5>1
          <5> QED
            BY <1>2, <5>1, <5>2 DEF Copied
        <4> QED
          BY <4>1, <4>2
      <3>3. ASSUME backend = "sqlite", copy.quiet, NEW i \in 1 .. copy.at
            PROVE  rows[Tables[i]] = Rows(Tables[i])
        <4>1. CASE i = copy.at
          BY <1>1, <1>2, <2>1, <2>6, <4>1
        <4>2. CASE i # copy.at
          BY <1>2, <2>6, <3>2, <3>3, <4>2 DEF MovedInv, CopyQuiet
        <4> QED
          BY <4>1, <4>2
      <3> QED
        BY <1>2, <2>2, <3>1, <3>2, <3>3 DEF CopyQuiet, accountVars
    <2>10. MovedInv'
      BY <1>2, <2>2, <2>3, <2>7, <2>8, <2>9 DEF MovedInv, accountVars
    <2>11. copy'.phase # "none"
      BY <1>2, <2>2
    <2> QED
      BY <1>2, <2>10, <2>11, ScriptStep
  <1> QED
    BY <1>1, <1>4, <1>5 DEF CopyTable

LEMMA VerifyFine ==
    ASSUME IInv, AInv, VerifyTable PROVE AInv'
  <1>1. /\ UNCHANGED <<accountVars, req>> /\ UNCHANGED ops /\ copy.phase = "verifying"
        /\ MovedInv /\ copy.at \in 1 .. 6
        /\ copy' = Onward("done") \/ copy' = [copy EXCEPT !.phase = "failed"]
    BY DEF VerifyTable, requestVars, AInv, MovedInv, CopyOrder
  <1>2. copy = [phase |-> copy.phase, at |-> copy.at, quiet |-> copy.quiet, rows |-> copy.rows]
    BY DEF IInv, CopyInv
  <1>3. /\ copy'.rows = copy.rows /\ copy'.quiet = copy.quiet /\ copy'.at \in 1 .. 6
        /\ copy'.phase \in {"verifying", "done", "failed"}
    <2>1. CASE copy' = [copy EXCEPT !.phase = "failed"]
      BY <1>1, <1>2, <2>1
    <2>2. CASE copy.at < 6 /\ copy' = [copy EXCEPT !.at = @ + 1]
      BY <1>1, <1>2, <2>2
    <2>3. CASE copy' = [copy EXCEPT !.at = 1, !.phase = "done"]
      BY <1>1, <1>2, <2>3
    <2> QED
      BY <1>1, <2>1, <2>2, <2>3, TablesInOrder DEF Onward
  <1>4. CopyOrder' /\ CopyBehind'
    BY <1>1, <1>3 DEF MovedInv, CopyOrder, CopyPhases, CopyBehind, accountVars
  <1>5. CopyQuiet'
    <2>1. Copied' = 1 .. 6 /\ Copied = 1 .. 6
      BY <1>1, <1>3 DEF Copied
    <2>2. \A t : Rows(t)' = Rows(t)
      BY <1>1, SameRows
    <2> QED
      BY <1>1, <1>3, <2>1, <2>2 DEF MovedInv, CopyQuiet, accountVars
  <1>6. MovedInv'
    BY <1>1, <1>3, <1>4, <1>5 DEF MovedInv, accountVars
  <1> QED
    BY <1>1, <1>3, <1>6, ScriptStep

\* The rows that were granted, put together, fit.
LEMMA MovedGrants ==
    ASSUME RowsTyped(copy.rows, given), CutOver
    PROVE  GrantsTyped(grants', DOMAIN users', DOMAIN orgs')
  <1> DEFINE granted == {copy.rows["org_memberships"], copy.rows["repo_grants"], copy.rows["runtime_grants"]}
  <1>1. /\ users' = copy.rows["users"] /\ orgs' = copy.rows["orgs"]
        /\ grants' = [g \in UNION {DOMAIN table : table \in granted} |->
                        (CHOOSE table \in granted : g \in DOMAIN table)[g]]
    BY DEF CutOver
  <1>2. \A table \in granted : GrantsTyped(table, DOMAIN users', DOMAIN orgs')
    BY <1>1 DEF RowsTyped, GrantTables
  <1> HIDE DEF granted
  <1>3. ASSUME NEW g \in DOMAIN grants'
        PROVE  \E table \in granted : g \in DOMAIN table /\ grants'[g] = table[g]
    <2>1. PICK table : table = CHOOSE t \in granted : g \in DOMAIN t
      OBVIOUS
    <2>2. table \in granted /\ g \in DOMAIN table
      BY <1>1, <2>1
    <2>3. grants'[g] = table[g]
      BY <1>1, <2>1
    <2> QED
      BY <2>2, <2>3
  <1>4. grants' = [g \in DOMAIN grants' |-> grants'[g]]
    BY <1>1
  <1> QED
    BY <1>2, <1>3, <1>4 DEF GrantsTyped

LEMMA CutOverFine ==
    ASSUME IInv, AInv, CutOver PROVE AInv'
  <1>1. /\ copy.phase = "done" /\ backend = "sqlite" /\ backend' = "postgres"
        /\ users' = copy.rows["users"] /\ orgs' = copy.rows["orgs"] /\ tokens' = copy.rows["tokens"]
        /\ DOMAIN req' = DOMAIN req
        /\ \A r \in DOMAIN req : req'[r] = IF Answered(r) THEN req[r] ELSE [req[r] EXCEPT !.phase = "lost"]
        /\ UNCHANGED <<given, ops, copy>>
    BY DEF CutOver
  <1>2. /\ RowsTyped(copy.rows, given) /\ CopyOrder /\ IInv'
        /\ \A id \in DOMAIN tokens' : id \in DOMAIN tokens /\ tokens'[id].email = tokens[id].email
    BY <1>1, CutOverStep DEF AInv, MovedInv, CopyBehind
  <1>3. /\ IsFiniteSet(DOMAIN tokens) /\ Cardinality(DOMAIN tokens) <= MaxTokens
        /\ LastToken = Cardinality(DOMAIN tokens)
    <2>1. IsFiniteSet(DOMAIN tokens) /\ Cardinality(DOMAIN tokens) <= MaxTokens
      BY DEF AInv, TablesInv, AccountsTypeOK
    <2> QED
      BY <1>1, <2>1, FS_CardinalityType DEF LastToken
  <1>4. /\ IsFiniteSet(DOMAIN tokens') /\ Cardinality(DOMAIN tokens') <= Cardinality(DOMAIN tokens)
        /\ Cardinality(DOMAIN tokens') \in Nat /\ Cardinality(DOMAIN tokens) \in Nat /\ MaxTokens \in Nat
    <2>1. DOMAIN tokens' \subseteq DOMAIN tokens
      BY <1>2
    <2> QED
      BY <1>3, <2>1, FS_Subset, FS_CardinalityType, AccountsAssumption
  <1>5. LastToken' = Cardinality(DOMAIN tokens') + MaxTokens /\ LastToken \in Nat /\ LastToken' \in Nat
        /\ LastToken <= LastToken'
    BY <1>1, <1>3, <1>4 DEF LastToken
  <1>6. TablesInv'
    <2>1. DOMAIN tokens' \subseteq 1 .. LastToken'
      BY <1>2, <1>5 DEF IInv, TokenTable, Numbered
    <2>2. /\ UsersTyped(users') /\ OrgsTyped(orgs')
          /\ TokensTyped(tokens', DOMAIN users', DOMAIN orgs')
          /\ OwnersGiven(orgs', given') /\ SessionsWelcome(tokens', given')
      BY <1>1, <1>2 DEF RowsTyped
    <2>3. GrantsTyped(grants', DOMAIN users', DOMAIN orgs')
      BY <1>2, MovedGrants
    <2>4. Cardinality(DOMAIN tokens') <= MaxTokens
      BY <1>3, <1>4
    <2> QED
      BY <1>1, <1>4, <2>1, <2>2, <2>3, <2>4 DEF TablesInv, AccountsTypeOK
  <1>7. PICK w, w2 : w = World /\ w2 = World'
    OBVIOUS
  <1>8. /\ w.gifts = given /\ w2.gifts = given /\ w.table = tokens /\ w2.table = tokens'
        /\ w.last = LastToken /\ w2.last = LastToken' /\ ~w2.alone
    BY <1>1, <1>7 DEF World
  <1>9. Remembers(w, w2)
    BY <1>2, <1>5, <1>8 DEF Remembers
  <1>10. ASSUME NEW r \in DOMAIN req PROVE RowKnows(req'[r], w2)
    <2>1. RowKnows(req[r], w) /\ IsRow(req[r])
      BY <1>7 DEF AInv, RowsKnow, IInv, RowsInv, RowFits
    <2>2. /\ req'[r].kind = req[r].kind /\ req'[r].outcome = req[r].outcome
          /\ req'[r].token = req[r].token /\ req'[r].arg = req[r].arg /\ req'[r].email = req[r].email
          /\ req'[r].id = req[r].id /\ req'[r].shown = req[r].shown
          /\ req'[r].phase \in Ended
      <3>1. CASE Answered(r)
        BY <1>1, <3>1 DEF Answered, Ended
      <3>2. CASE ~Answered(r)
        BY <1>1, <2>1, <3>2 DEF IsRow, Ended
      <3> QED
        BY <3>1, <3>2
    <2>3. WellAsked(req[r], w2) /\ (req[r].outcome = "ok" => Entitled(req[r], w2))
      BY <1>9, <2>1, AskedStays, EntitledStays DEF RowKnows
    <2>4. WellAsked(req'[r], w2)
      BY <2>2, <2>3 DEF WellAsked, Ended
    <2>5. req'[r].outcome = "ok" => Entitled(req'[r], w2)
      BY <2>2, <2>3 DEF Entitled, MayRevoke
    <2> QED
      BY <2>2, <2>4, <2>5 DEF RowKnows
  <1>11. RowsKnow'
    BY <1>1, <1>7, <1>10 DEF RowsKnow
  <1>12. CountInv'
    BY <1>1 DEF CountInv, AInv
  <1>13. MovedInv'
    BY <1>1, <1>2 DEF MovedInv, CopyOrder, CopyBehind, CopyQuiet
  <1> QED
    BY <1>6, <1>11, <1>12, <1>13 DEF AInv

-----------------------------------------------------------------------------
(***************************************************************************)
(* The theorems.                                                           *)
(***************************************************************************)

LEMMA InitAInv == Init => AInv
  <1> SUFFICES ASSUME Init PROVE AInv
    OBVIOUS
  <1>1. IInv
    BY InitIInv
  <1>2. PICK a \in InitialAccounts :
          /\ backend = a.backend /\ users = a.users /\ orgs = a.orgs /\ grants = a.grants
          /\ tokens = a.tokens /\ given = a.given
    BY DEF Init, AccountsInit
  <1>3. TablesInv
    <2>1. PICK n \in 0 .. MaxTokens : DOMAIN tokens = 1 .. n
      BY <1>2, InitialAssumption
    <2>2. n \in Nat /\ IsFiniteSet(1 .. n) /\ Cardinality(1 .. n) = n /\ n <= MaxTokens
      BY AccountsAssumption, FS_Interval
    <2>3. DOMAIN tokens \subseteq 1 .. LastToken
      BY <2>1, <2>2, AccountsAssumption DEF LastToken
    <2>4. /\ backend \in {"sqlite", "postgres"}
          /\ UsersTyped(users) /\ OrgsTyped(orgs)
          /\ GrantsTyped(grants, DOMAIN users, DOMAIN orgs)
          /\ TokensTyped(tokens, DOMAIN users, DOMAIN orgs)
          /\ SessionsWelcome(tokens, given) /\ OwnersGiven(orgs, given)
      BY <1>2, InitialAssumption
    <2> QED
      BY <2>1, <2>2, <2>3, <2>4 DEF TablesInv, AccountsTypeOK
  <1>4. RowsKnow
    BY DEF Init, RowsKnow
  <1>5. CountInv
    <2>1. DOMAIN req = {} /\ ops = 0
      BY DEF Init
    <2>2. Cardinality({}) = 0 /\ IsFiniteSet({}) /\ 1 .. 0 = {}
      BY FS_EmptySet
    <2> QED
      BY <2>1, <2>2, RequestsAssumption DEF CountInv
  <1>6. /\ copy.phase = "none" /\ copy.at = 1
        /\ \A table \in {"orgs", "users", "tokens"} \cup GrantTables : copy.rows[table] = <<>>
    BY DEF Init, CopyInit, GrantTables
  <1>7. RowsTyped(copy.rows, given)
    BY <1>6 DEF RowsTyped, GrantTables, UsersTyped, OrgsTyped, GrantsTyped, TokensTyped,
                OwnersGiven, SessionsWelcome
  <1>8. CopyOrder
    <2>1. \A i \in 1 .. 6 : Tables[i] \in {"orgs", "users", "tokens"} \cup GrantTables
      BY TablesInOrder DEF GrantTables
    <2>2. \A i \in 1 .. 6 : copy.rows[Tables[i]] = <<>>
      BY <1>6, <2>1
    <2>3. copy.phase \in CopyPhases /\ copy.at \in 1 .. 6 /\ copy.at = 1
      BY <1>6 DEF CopyPhases
    <2> QED
      BY <2>2, <2>3 DEF CopyOrder
  <1>9. MovedInv
    BY <1>6, <1>7, <1>8 DEF MovedInv, CopyBehind, CopyQuiet
  <1> QED
    BY <1>3, <1>4, <1>5, <1>9 DEF AInv

LEMMA NextAInv == IInv /\ AInv /\ [Next]_vars => AInv'
  <1> SUFFICES ASSUME IInv, AInv, [Next]_vars PROVE AInv'
    OBVIOUS
  <1>1. CASE Serving /\ BesideMigration
    BY <1>1, BesidesFine
  <1>2. CASE MigrationNext
    BY <1>2, BeginFine, CopyFine, VerifyFine, CutOverFine DEF MigrationNext
  <1>3. CASE UNCHANGED vars
    <2>1. UNCHANGED <<accountVars, req, ops, copy>>
      BY <1>3 DEF vars, requestVars
    <2>2. \A t : Rows(t)' = Rows(t)
      BY <2>1, SameRows
    <2>3. Copied' = Copied
      BY <2>1 DEF Copied
    <2>4. MovedInv'
      BY <2>1, <2>2, <2>3 DEF AInv, MovedInv, CopyOrder, CopyBehind, CopyQuiet, accountVars
    <2> QED
      BY <2>1, <2>4, ScriptStep
  <1> QED
    BY <1>1, <1>2, <1>3 DEF Next

LEMMA AlwaysAInv == Spec => [](IInv /\ AInv)
  <1>1. Init => IInv /\ AInv
    BY InitIInv, InitAInv
  <1>2. IInv /\ AInv /\ [Next]_vars => (IInv /\ AInv)'
    BY NextIInv, NextAInv
  <1> QED
    BY <1>1, <1>2, PTL DEF Spec

\* Every row refers to rows that exist, for good, also in PostgreSQL, and no
\* request is counted twice.
THEOREM AccountsTypeCorrect == Spec => []TypeOK
  <1>1. IInv /\ AInv => TypeOK
    <2> SUFFICES ASSUME AInv PROVE TypeOK
      OBVIOUS
    <2>1. \A r \in DOMAIN req : req[r].outcome \in Outcomes /\ req[r].kind \in Kinds
      BY DEF AInv, RowsKnow, RowKnows, WellAsked
    <2> QED
      BY <2>1 DEF AInv, TablesInv, CountInv, TypeOK
  <1> QED
    BY <1>1, AlwaysAInv, PTL

\* A session is only ever of an org in which its user was given something.
THEOREM SessionsStayWithinGrants == Spec => []SessionsWithinGrants
  <1>1. IInv /\ AInv => SessionsWithinGrants
    BY DEF AInv, TablesInv, SessionsWithinGrants
  <1> QED
    BY <1>1, AlwaysAInv, PTL

\* No org that a user made is ever without an owner from the start.
THEOREM OrgsAlwaysHaveOwners == Spec => []OrgsHaveOwners
  <1>1. IInv /\ AInv => OrgsHaveOwners
    BY DEF AInv, TablesInv, OrgsHaveOwners
  <1> QED
    BY <1>1, AlwaysAInv, PTL

\* Whoever is answered "ok" about others' tokens, or about grants, has been an
\* admin of the org.
THEOREM OnlyAdminsReachOthers == Spec => []OthersOnlyByAdmins
  <1>1. IInv /\ AInv => OthersOnlyByAdmins
    <2> SUFFICES ASSUME AInv, NEW r \in DOMAIN req, req[r].outcome = "ok"
                 PROVE  LET admin(org) == <<req[r].email, <<org>>, "admin">> \in given
                            own(id) == id \in DOMAIN tokens => tokens[id].email = req[r].email
                        IN  /\ req[r].kind = "revoke" => own(req[r].arg.id) \/ admin(req[r].token.org)
                            /\ req[r].kind = "tokens" =>
                                   \A id \in req[r].shown : own(id) \/ admin(req[r].token.org)
                            /\ req[r].kind = "grants" =>
                                   \A g \in req[r].shown : admin(g[2][1])
                            /\ req[r].kind \in {"grant", "ungrant"} => admin(req[r].arg.target[1])
      BY DEF OthersOnlyByAdmins
    <2>1. PICK w : w = World
      OBVIOUS
    <2>2. Entitled(req[r], w) /\ w.gifts = given /\ w.table = tokens
      BY <2>1 DEF AInv, RowsKnow, RowKnows, World
    <2> QED
      BY <2>2 DEF Entitled, MayRevoke, OwnsToken, AdminIn
  <1> QED
    BY <1>1, AlwaysAInv, PTL

\* The three tables of grants hold all of them.
LEMMA GrantsInTables ==
    ASSUME AccountsTypeOK, CutOver,
           copy.rows["org_memberships"] = GrantRows(1), copy.rows["repo_grants"] = GrantRows(2),
           copy.rows["runtime_grants"] = GrantRows(3)
    PROVE  grants' = grants
  <1> DEFINE granted == {copy.rows["org_memberships"], copy.rows["repo_grants"], copy.rows["runtime_grants"]}
  <1>1. grants' = [g \in UNION {DOMAIN table : table \in granted} |->
                        (CHOOSE table \in granted : g \in DOMAIN table)[g]]
    BY DEF CutOver
  <1>2. \A table \in granted : \A g \in DOMAIN table : g \in DOMAIN grants /\ table[g] = grants[g]
    BY DEF GrantRows
  <1>3. /\ grants = [g \in DOMAIN grants |-> grants[g]]
        /\ \A g \in DOMAIN grants : Len(g[2]) \in 1 .. 3
    BY DEF AccountsTypeOK, GrantsTyped
  <1>4. \A g \in DOMAIN grants : \E table \in granted : g \in DOMAIN table
    <2>1. \A n : DOMAIN GrantRows(n) = {g \in DOMAIN grants : Len(g[2]) = n}
      BY DEF GrantRows
    <2>2. \A n \in 1 .. 3 : GrantRows(n) \in granted
      BY DEF granted
    <2> HIDE DEF granted
    <2> QED
      BY <1>3, <2>1, <2>2
  <1> HIDE DEF granted
  <1>5. DOMAIN grants' = DOMAIN grants
    BY <1>1, <1>2, <1>4
  <1>6. ASSUME NEW g \in DOMAIN grants PROVE grants'[g] = grants[g]
    <2>1. PICK table : table = CHOOSE t \in granted : g \in DOMAIN t
      OBVIOUS
    <2>2. table \in granted /\ g \in DOMAIN table
      BY <1>4, <2>1
    <2> QED
      BY <1>1, <1>2, <1>5, <2>1, <2>2
  <1>7. grants' = [g \in DOMAIN grants' |-> grants'[g]]
    BY <1>1
  <1> QED
    BY <1>3, <1>5, <1>6, <1>7

\* A migration in a quiet time loses nothing and adds nothing.
THEOREM CutOverKeepsThem == Spec => CutOverKeepsAccounts
  <1>1. IInv /\ AInv /\ [Next]_vars =>
           [backend' # backend /\ copy.quiet => UNCHANGED <<users, orgs, grants, tokens>>]_vars
    <2> SUFFICES ASSUME IInv, AInv, Next, backend' # backend, copy.quiet
                 PROVE  UNCHANGED <<users, orgs, grants, tokens>>
      OBVIOUS
    <2>1. CutOver
      BY ServingStore DEF Next, MigrationNext, BeginMigration, CopyTable, VerifyTable, accountVars
    <2>2. /\ users' = copy.rows["users"] /\ orgs' = copy.rows["orgs"] /\ tokens' = copy.rows["tokens"]
          /\ backend = "sqlite" /\ copy.phase = "done"
      BY <2>1 DEF CutOver
    <2>3. \A i \in 1 .. 6 : copy.rows[Tables[i]] = Rows(Tables[i])
      BY <2>2 DEF AInv, MovedInv, CopyQuiet, Copied
    <2>4. /\ copy.rows["orgs"] = orgs /\ copy.rows["users"] = users /\ copy.rows["tokens"] = tokens
          /\ copy.rows["org_memberships"] = GrantRows(1) /\ copy.rows["repo_grants"] = GrantRows(2)
          /\ copy.rows["runtime_grants"] = GrantRows(3)
      BY <2>3, TablesInOrder, RowsOfTables
    <2>5. grants' = grants
      BY <2>1, <2>4, GrantsInTables DEF AInv, TablesInv
    <2> QED
      BY <2>2, <2>4, <2>5
  <1> QED
    BY <1>1, AlwaysAInv, PTL DEF Spec, CutOverKeepsAccounts

-----------------------------------------------------------------------------
(***************************************************************************)
(* Without a change of stores.                                             *)
(***************************************************************************)

NoCopy == copy.phase = "none"

LEMMA OnlyServing ==
    ASSUME "migrate" \notin Kinds, NoCopy, Next PROVE Serving /\ BesideMigration
  BY DEF NoCopy, Next, MigrationNext, BeginMigration, CopyTable, VerifyTable, CutOver

LEMMA NeverCopied ==
    ASSUME "migrate" \notin Kinds PROVE Spec => [](IInv /\ AInv /\ NoCopy)
  <1>1. Init => NoCopy
    BY DEF Init, CopyInit, NoCopy
  <1>2. IInv /\ NoCopy /\ [Next]_vars => NoCopy'
    BY OnlyServing, ServingBesides DEF NoCopy, vars
  <1> QED
    BY <1>1, <1>2, AlwaysAInv, PTL DEF Spec

\* A logout answered "ok" has ended the session for good.
THEOREM LogoutsEndSessions ==
    ASSUME "migrate" \notin Kinds PROVE Spec => []LogoutEndsSession
  <1>1. IInv /\ AInv /\ NoCopy => LogoutEndsSession
    <2> SUFFICES ASSUME AInv, NoCopy, NEW r \in DOMAIN req, req[r].kind = "logout",
                        req[r].outcome = "ok", IsSession(req[r].token)
                 PROVE  tokens[req[r].id].revoked
      BY DEF LogoutEndsSession
    <2>1. PICK w : w = World
      OBVIOUS
    <2>2. Entitled(req[r], w) /\ w.table = tokens /\ w.alone
      BY <2>1 DEF AInv, RowsKnow, RowKnows, World, NoCopy
    <2> QED
      BY <2>2 DEF Entitled
  <1> QED
    BY <1>1, NeverCopied, PTL

\* With the SQLite store the link of a user to a subject is never overwritten.
THEOREM LinksStayStable ==
    ASSUME "migrate" \notin Kinds PROVE Spec => LinksAreStable
  <1>1. IInv /\ AInv /\ NoCopy /\ [Next]_vars =>
           [\A user \in DOMAIN users :
              backend = "sqlite" /\ users[user].subject \in Subjects
                 => users'[user].subject = users[user].subject]_vars
    <2> SUFFICES ASSUME IInv, AInv, NoCopy, Next, NEW user \in DOMAIN users,
                        backend = "sqlite", users[user].subject \in Subjects
                 PROVE  users'[user].subject = users[user].subject
      OBVIOUS
    <2>1. UserStep
      BY OnlyServing, BesidesFine DEF Fine, RightsStep
    <2>2. \A e \in DOMAIN users : users[e] \in UserRows
      BY DEF AInv, TablesInv, AccountsTypeOK, UsersTyped
    <2>3. ASSUME NEW email, NEW verified, CreateUser(email, verified)
          PROVE  users'[user].subject = users[user].subject
      BY <2>3 DEF CreateUser, Put
    <2>4. ASSUME NEW email, VerifyUserEmail(email)
          PROVE  users'[user].subject = users[user].subject
      BY <2>2, <2>4 DEF VerifyUserEmail, UserRows
    <2>5. ASSUME NEW other \in DOMAIN users, NEW subject \in Subjects, Link(other, subject),
                 users[other].subject \notin Subjects \ {subject}
          PROVE  users'[user].subject = users[user].subject
      BY <2>5 DEF Link
    <2> QED
      BY <2>1, <2>3, <2>4, <2>5 DEF UserStep
  <1> QED
    BY <1>1, NeverCopied, PTL DEF Spec, LinksAreStable

\* Which steps revoke a token: the routes that delete a token or end a session,
\* the retired session of a sign-in and the operator.
NoneRevoked == \A id \in DOMAIN tokens : tokens'[id].revoked => tokens[id].revoked

LEMMA SameNoneRevoked == UNCHANGED tokens => NoneRevoked
  BY DEF NoneRevoked

LEMMA MintNoneRevoked ==
    ASSUME IInv, NEW org, NEW scopes, NEW email, NEW expires, InsertToken(org, scopes, email, expires)
    PROVE  NoneRevoked
  BY NewTokenNumber DEF IInv, InsertToken, Put, NoneRevoked

LEMMA SwitchNoneRevoked ==
    ASSUME IInv, NEW id, NEW org, SwitchTokenOrg(id, org) PROVE NoneRevoked
  <1>1. \A t \in DOMAIN tokens : IsToken(tokens[t])
    BY DEF IInv, TokenTable
  <1> QED
    BY <1>1 DEF SwitchTokenOrg, IsToken, NoneRevoked

LEMMA ExpiryNoneRevoked ==
    ASSUME IInv, NEW id, TokenExpires(id) PROVE NoneRevoked
  <1>1. \A t \in DOMAIN tokens : IsToken(tokens[t])
    BY DEF IInv, TokenTable
  <1> QED
    BY <1>1 DEF TokenExpires, IsToken, NoneRevoked

LEMMA WhoRevokes ==
    ASSUME IInv, Serving
    PROVE  \/ NoneRevoked \/ UNCHANGED req
           \/ \E r \in RequestIds : DeleteToken(r) \/ RevokePrior(r) \/ Logout(r)
  <1>1. ASSUME NEW r, RequestProgress(r) PROVE NoneRevoked \/ DeleteToken(r)
    <2>1. CASE PostToken(r)
      BY <2>1, SameNoneRevoked, MintNoneRevoked DEF PostToken
    <2>2. CASE ~PostToken(r)
      <3>1. UNCHANGED tokens \/ DeleteToken(r)
        BY <1>1, <2>2
           DEF RequestProgress, AuthorizeFile, PostOrg, CheckScope, FindToken, CheckTokenAdmin, Me,
               GetTokens, RequireOrgAdmin, PostUser, PostVerify, GetGrants, PostGrant,
               AssertUserOrg, InsertGrant, DeleteGrant, accountVars
      <3> QED
        BY <3>1, SameNoneRevoked
    <2> QED
      BY <2>1, <2>2
  <1>2. ASSUME NEW r, SignInProgress(r) PROVE NoneRevoked \/ RevokePrior(r) \/ Logout(r)
    <2>1. CASE OpenSession(r)
      BY <2>1, SameNoneRevoked, MintNoneRevoked DEF OpenSession
    <2>2. CASE SwitchOrg(r)
      BY <2>2, SameNoneRevoked, SwitchNoneRevoked DEF SwitchOrg
    <2>3. CASE ~OpenSession(r) /\ ~SwitchOrg(r)
      <3>1. UNCHANGED tokens \/ RevokePrior(r) \/ Logout(r)
        BY <1>2, <2>3
           DEF SignInProgress, Resolve, SelectBySubject, SelectLegacy, SelectByEmail,
               SelectCandidates, ClaimCandidate, LinkByEmail, CheckEmpty, BootstrapUser,
               BootstrapOrganization, CheckPassword, ChooseOrg, CheckAnyGrant, CheckPrior,
               RejectSwitch, OnlyUsers, accountVars
      <3> QED
        BY <3>1, SameNoneRevoked
    <2> QED
      BY <2>1, <2>2, <2>3
  <1>3. ASSUME NEW r, Begin(r) \/ LoseRequest(r) PROVE NoneRevoked
    <2>1. UNCHANGED tokens
      BY <1>3 DEF Begin, BeginKeyname, BeginLogin, BeginSignIn, BeginRequest, BeginSessionRequest,
                  Arrive, LoseRequest, accountVars
    <2> QED
      BY <2>1, SameNoneRevoked
  <1>4. OperatorNext => UNCHANGED req
    BY DEF OperatorNext, OperatorOrg, OperatorUser, OperatorToken, OperatorRevoke, OperatorGrant,
           Operator
  <1> QED
    BY <1>1, <1>2, <1>3, <1>4, ExpiryNoneRevoked DEF Serving, Progress

\* A sign-in retires nothing but an earlier session of its own user.
THEOREM SignInsKeepOtherTokens ==
    ASSUME "migrate" \notin Kinds PROVE Spec => SignInKeepsOtherTokens
  <1>1. IInv /\ AInv /\ NoCopy /\ [Next]_vars =>
           [\A r \in DOMAIN req : \A id \in DOMAIN tokens :
              /\ req[r].kind = "keyname" /\ req[r].phase # req'[r].phase
              /\ ~tokens[id].revoked /\ tokens'[id].revoked
              => tokens[id].email = req[r].email /\ IsSession(tokens[id])]_vars
    <2> SUFFICES ASSUME IInv, AInv, NoCopy, Next, NEW r \in DOMAIN req, NEW id \in DOMAIN tokens,
                        req[r].kind = "keyname", req[r].phase # req'[r].phase,
                        ~tokens[id].revoked, tokens'[id].revoked
                 PROVE  tokens[id].email = req[r].email /\ IsSession(tokens[id])
      OBVIOUS
    <2>1. PICK q \in RequestIds : DeleteToken(q) \/ RevokePrior(q) \/ Logout(q)
      BY OnlyServing, WhoRevokes DEF NoneRevoked
    <2>2. q = r
      <3>1. \E outcome : AnswerWith(q, outcome)
        BY <2>1 DEF DeleteToken, RevokePrior, Logout
      <3> QED
        BY <3>1 DEF AnswerWith
    <2>3. In(r, "keyname", "revokePrior") /\ (UNCHANGED tokens \/ RevokeToken(req[r].id))
      BY <2>1, <2>2 DEF DeleteToken, RevokePrior, Logout, In
    <2>4. id = req[r].id
      BY <2>3 DEF RevokeToken
    <2>5. RowKnows(req[r], World)
      BY DEF AInv, RowsKnow
    <2> QED
      BY <2>3, <2>4, <2>5 DEF In, RowKnows, FoundOut, World, Ended
  <1> QED
    BY <1>1, NeverCopied, PTL DEF Spec, SignInKeepsOtherTokens

=============================================================================
