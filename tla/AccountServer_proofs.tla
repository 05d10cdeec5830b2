------------------------- MODULE AccountServer_proofs -------------------------
(***************************************************************************)
(* Theorems about AccountServer, for any users, orgs, paths, scopes,       *)
(* requests and commands, both stores: nobody gets, mints or sees more     *)
(* than was ever given, and revoked tokens stay revoked.                   *)
(***************************************************************************)
EXTENDS AccountServer, FiniteSetTheorems, SequenceTheorems, TLAPS

(***************************************************************************)
(* Paths, scopes and grants.                                               *)
(***************************************************************************)

\* What paths and patterns are made of (no prover knows that "**" is a string).
Words == STRING \cup {AnyRest, AnyName}

LEMMA StringsAreWords ==
    ASSUME NEW p \in Seq(STRING) PROVE p \in Seq(Words)
  BY SeqMonotonic DEF Words

\* All but the last segment.
LEMMA FrontSegments ==
    ASSUME NEW p \in Seq(Words), Len(p) > 0
    PROVE  /\ Front(p) \in Seq(Words) /\ Len(Front(p)) = Len(p) - 1
           /\ \A i \in 1 .. Len(p) - 1 : Front(p)[i] = p[i]
  <1>1. Front(p) = SubSeq(p, 1, Len(p) - 1)
    BY DEF Front
  <1> DEFINE m == Len(p) - 1
  <1>2. m \in Nat /\ m <= Len(p)
    OBVIOUS
  <1> HIDE DEF m
  <1>3. SubSeq(p, 1, m) \in Seq(Words)
    BY <1>2
  <1>4. Len(SubSeq(p, 1, m)) = m
    BY <1>2
  <1>5. \A i \in 1 .. m : SubSeq(p, 1, m)[i] = p[i]
    BY <1>2
  <1> QED
    BY <1>1, <1>3, <1>4, <1>5 DEF m

LEMMA MarksDiffer ==
    /\ AnySegment # AnyRest /\ AnySegment # SessionName /\ AnyRest # SessionName
    /\ AnyName # AnyRest /\ AnyName # AnySegment
  BY Zenon DEF AnySegment, AnyRest, AnyName, SessionName

\* A target, segment by segment.
LEMMA TargetSegments ==
    ASSUME NEW t, Target(t)
    PROVE  /\ t \in Seq(Words) /\ Len(t) \in Nat /\ Len(t) >= 1 /\ ValidOrgName(t[1])
           /\ \A i \in 1 .. Len(t) : t[i] # AnyRest
  BY StringsAreWords, LenProperties DEF Target

\* What is matched by a pattern within the reach of a target is itself within
\* its reach, whether a path or a pattern.
LEMMA ReachesMatched ==
    ASSUME NEW t, Target(t), NEW scope, scope.path \in Seq(Words), Reaches(t, scope.path),
           NEW path \in Seq(Words), NEW access, ScopeMatches(scope, path, access)
    PROVE  scope.access = access /\ Reaches(t, path)
  <1> DEFINE n == Len(scope.path)
             p == scope.path
  <1>1. PICK m : m = Len(t)
    OBVIOUS
  <1>2. m \in Nat /\ m >= 1 /\ \A i \in 1 .. m : t[i] # AnyRest
    BY <1>1, TargetSegments
  <1>3. /\ m <= n
        /\ \A i \in 1 .. m : SegmentMatches(t[i], p[i]) \/ (i = m /\ t[i] = AnyName)
    BY <1>1 DEF Reaches
  <1>4. /\ scope.access = access
        /\ IF p[n] = AnyRest THEN Len(path) >= n ELSE Len(path) = n
        /\ \A i \in 1 .. (IF p[n] = AnyRest THEN n - 1 ELSE n) : SegmentMatches(p[i], path[i])
    BY DEF ScopeMatches
  <1>5. PICK size \in Nat : size = Len(path)
    BY LenProperties
  <1>6. n \in Nat /\ size >= n
    BY <1>4, <1>5, LenProperties
  <1> HIDE DEF n, p
  <1>7. m <= size
    BY <1>2, <1>3, <1>6
  <1>8. ASSUME NEW i \in 1 .. m
        PROVE  SegmentMatches(t[i], path[i]) \/ (i = m /\ t[i] = AnyName)
    <2>1. CASE t[i] = AnySegment
      BY <2>1 DEF SegmentMatches
    <2>2. CASE i = m /\ t[i] = AnyName
      BY <2>2
    <2>3. CASE t[i] # AnySegment /\ ~(i = m /\ t[i] = AnyName)
      <3>1. t[i] = p[i] /\ p[i] # AnyRest /\ p[i] # AnySegment
        BY <1>2, <1>3, <2>3 DEF SegmentMatches
      <3>2. i \in 1 .. (IF p[n] = AnyRest THEN n - 1 ELSE n)
        <4>1. i \in 1 .. n /\ (p[n] = AnyRest => i # n)
          BY <1>2, <1>3, <1>6, <3>1
        <4> QED
          BY <1>6, <4>1
      <3>3. SegmentMatches(p[i], path[i])
        BY <1>4, <3>2
      <3> QED
        BY <3>1, <3>3 DEF SegmentMatches
    <2> QED
      BY <2>1, <2>2, <2>3
  <1> QED
    BY <1>1, <1>4, <1>5, <1>7, <1>8 DEF Reaches

\* Every gift is on a target.
AllTargets(gifts) == \A g \in gifts : Target(g[2])

\* What was given may be minted.
LEMMA GaveMints ==
    ASSUME NEW gifts, NEW email, NEW path, NEW access, Gave(gifts, email, path, access)
    PROVE  MayMint(gifts, email, path, access)
  BY DEF Gave, MayMint, Covers, Reaches

\* The scope of a session matches one path only.
LEMMA SessionMatches ==
    ASSUME NEW token, IsSession(token), NEW path, NEW access,
           Authorize(token.scopes, path, access)
    PROVE  SessionPath(path)
  <1>1. PICK scope \in token.scopes : ScopeMatches(scope, path, access)
    BY DEF Authorize
  <1>2. scope.path = <<token.org, SessionName>>
    BY DEF IsSession
  <1>3. Len(scope.path) = 2 /\ scope.path[2] = SessionName
    BY <1>2
  <1> QED
    BY <1>1, <1>3, MarksDiffer DEF ScopeMatches, SegmentMatches, SessionPath

\* What the scopes of an API token allow its owner may mint.
LEMMA ScopesGive ==
    ASSUME NEW gifts, AllTargets(gifts), NEW token, Fits(token, gifts), ~IsSession(token),
           NEW path \in Seq(Words), NEW access, Authorize(token.scopes, path, access)
    PROVE  MayMint(gifts, token.email, path, access)
  <1>1. PICK scope \in token.scopes : ScopeMatches(scope, path, access)
    BY DEF Authorize
  <1>2. scope.path \in Seq(STRING) /\ MayMint(gifts, token.email, scope.path, scope.access)
    BY DEF Fits
  <1>3. PICK g \in gifts :
           g[1] = token.email /\ Reaches(g[2], scope.path) /\ AccessAllows(g[3], scope.access)
    BY <1>2 DEF MayMint
  <1>4. scope.access = access /\ Reaches(g[2], path)
    BY <1>1, <1>2, <1>3, StringsAreWords, ReachesMatched DEF AllTargets
  <1> QED
    BY <1>3, <1>4 DEF MayMint

\* Every grant in the table was given.
GrantsInv ==
    /\ \A g \in DOMAIN grants : <<g[1], g[2], grants[g]>> \in given
    /\ AllTargets(given)

\* The grant of a part of a path.
LEMMA GrantSegments ==
    ASSUME GrantsInv, NEW email, NEW path \in Seq(Words), NEW access,
           NEW k \in 1 .. Lookups(path), GrantedAt(email, path, access, k),
           NEW t, t = SubSeq(path, 1, k)
    PROVE  /\ k \in Nat /\ 1 <= k /\ k <= Len(path) /\ Len(path) \in Nat
           /\ Len(t) = k /\ \A i \in 1 .. k : t[i] = path[i]
           /\ \E g \in given : g[1] = email /\ g[2] = t /\ AccessAllows(g[3], access)
  <1>1. Len(path) \in Nat
    BY LenProperties
  <1>2. k \in Nat /\ 1 <= k /\ k <= Len(path)
    <2>1. PICK n \in Nat : n = Len(path)
      BY <1>1
    <2>2. PICK l : l = Lookups(path)
      OBVIOUS
    <2>3. l = IF n < 2 THEN 0 ELSE IF n = 2 THEN 2 ELSE 3
      BY <2>1, <2>2, Zenon DEF Lookups
    <2>4. l \in Nat /\ l <= n
      BY <2>3
    <2>5. k \in 1 .. l
      BY <2>2
    <2>6. k \in Nat /\ 1 <= k /\ k <= n
      BY <2>4, <2>5
    <2> QED
      BY <2>1, <2>6, Zenon
  <1>3. Len(t) = k /\ \A i \in 1 .. k : t[i] = path[i]
    BY <1>1, <1>2
  <1>4. <<email, t>> \in DOMAIN grants /\ AccessAllows(grants[<<email, t>>], access)
    BY DEF GrantedAt
  <1>5. <<email, t, grants[<<email, t>>]>> \in given
    BY <1>4 DEF GrantsInv
  <1> QED
    BY <1>1, <1>2, <1>3, <1>4, <1>5

LEMMA GrantGives ==
    ASSUME GrantsInv, NEW email, NEW path \in Seq(Words), NEW access,
           NEW k \in 1 .. Lookups(path), GrantedAt(email, path, access, k)
    PROVE  Gave(given, email, path, access)
  <1>1. PICK t : t = SubSeq(path, 1, k)
    OBVIOUS
  <1>2. /\ k <= Len(path) /\ Len(t) = k
        /\ \A i \in 1 .. k : t[i] = path[i]
        /\ \E g \in given : g[1] = email /\ g[2] = t /\ AccessAllows(g[3], access)
    BY <1>1, GrantSegments
  <1>3. Covers(t, path)
    BY <1>2 DEF Covers, SegmentMatches
  <1> QED
    BY <1>2, <1>3 DEF Gave

\* The probe of a scope finds grants that reach everything in the scope: those
\* on the name that the probe puts in place of "**" count as all of their kind.
LEMMA ProbeGives ==
    ASSUME GrantsInv, NEW email, NEW path \in Seq(Words), Len(path) >= 1, NEW access,
           NEW k \in 1 .. Lookups(Probe(path)), GrantedAt(email, Probe(path), access, k)
    PROVE  MayMint(given, email, path, access)
  <1>1. PICK n \in Nat : n = Len(path)
    BY LenProperties
  <1>2. CASE path[n] # AnyRest
    <2>1. Probe(path) = path
      BY <1>1, <1>2 DEF Probe
    <2> QED
      BY <2>1, GrantGives, GaveMints
  <1>3. CASE path[n] = AnyRest
    <2>1. PICK f, probe : f = Front(path) /\ probe = Probe(path)
      OBVIOUS
    <2>2. /\ f \in Seq(Words) /\ Len(f) = n - 1 /\ probe = Append(f, AnyName)
          /\ \A i \in 1 .. n - 1 : f[i] = path[i]
      BY <1>1, <1>3, <2>1, FrontSegments DEF Probe
    <2>3. AnyName \in Words
      BY DEF Words
    <2>4. /\ probe \in Seq(Words) /\ Len(probe) = n
          /\ \A i \in 1 .. n - 1 : probe[i] = path[i]
          /\ probe[n] = AnyName
      BY <1>1, <2>2, <2>3, AppendProperties
    <2>5. k \in 1 .. Lookups(probe) /\ GrantedAt(email, probe, access, k)
      BY <2>1
    <2>6. PICK t : t = SubSeq(probe, 1, k)
      OBVIOUS
    <2>7. /\ k \in Nat /\ 1 <= k /\ k <= n
          /\ Len(t) = k /\ \A i \in 1 .. k : t[i] = probe[i]
          /\ \E g \in given : g[1] = email /\ g[2] = t /\ AccessAllows(g[3], access)
      BY <2>4, <2>5, <2>6, GrantSegments
    <2>8. ASSUME NEW i \in 1 .. k
          PROVE  SegmentMatches(t[i], path[i]) \/ (i = k /\ t[i] = AnyName)
      <3>1. CASE i = n
        BY <1>1, <2>4, <2>7, <3>1
      <3>2. CASE i # n
        BY <1>1, <2>4, <2>7, <3>2 DEF SegmentMatches
      <3> QED
        BY <3>1, <3>2
    <2>9. Reaches(t, path)
      BY <1>1, <2>7, <2>8 DEF Reaches
    <2> QED
      BY <2>7, <2>9 DEF MayMint
  <1> QED
    BY <1>2, <1>3

-----------------------------------------------------------------------------
(***************************************************************************)
(* The invariant.                                                          *)
(***************************************************************************)

\* Tokens are numbered, with a gap between those of SQLite and of PostgreSQL.
Numbered(table, gap) ==
    IsFiniteSet(DOMAIN table) /\ DOMAIN table \subseteq 1 .. Cardinality(DOMAIN table) + gap

\* A table of tokens within what was given.
TokenTable(table, gifts) ==
    /\ Numbered(table, MaxTokens)
    /\ \A id \in DOMAIN table :
          IsToken(table[id]) /\ ScopesWithin(table[id]) /\ Fits(table[id], gifts)

GrantTable(table, gifts) == \A g \in DOMAIN table : <<g[1], g[2], table[g]>> \in gifts

IsRow(row) ==
    row = [kind |-> row.kind, phase |-> row.phase, id |-> row.id, token |-> row.token,
           arg |-> row.arg, email |-> row.email, lookup |-> row.lookup,
           shown |-> row.shown, outcome |-> row.outcome]

\* The kinds of requests that rights depend on, and what their rows hold: what
\* was asked for, and the rights that have been found so far.
Ended == {"answered", "lost"}

FileAllowed(row, gifts) ==
    IF IsSession(row.token)
    THEN SessionPath(row.arg.path) \/ Gave(gifts, row.email, row.arg.path, row.arg.access)
    ELSE MayMint(gifts, row.email, row.arg.path, row.arg.access)

FileRow(row, gifts) ==
    /\ row.phase \in {"authorize"} \cup Ended
    /\ row.arg \in FileAsks /\ row.email = row.token.email /\ Fits(row.token, gifts)
    /\ row.outcome = "ok" => FileAllowed(row, gifts)

\* A session may also mint its own scope again.
MintAllowed(row, scope, gifts) ==
    \/ MayMint(gifts, row.email, scope.path, scope.access)
    \/ IsSession(row.token) /\ SessionPath(scope.path)

MintRow(row, gifts) ==
    /\ row.phase \in {"scope", "insert"} \cup Ended
    /\ row.email = row.token.email /\ Fits(row.token, gifts)
    /\ \E scope \in ScopeAsks :
          /\ row.arg = [scopes |-> {scope}]
          /\ row.phase = "insert" => MintAllowed(row, scope, gifts)

OrgRow(row) == row.phase \in {"create"} \cup Ended /\ row.arg.org \in Orgs

GrantRow(row) == row.phase \in {"admin", "apply", "upsert"} \cup Ended /\ row.arg \in AdminAsks

RowFits(row, gifts) ==
    /\ IsRow(row) /\ row.lookup \in Nat \ {0}
    /\ row.kind = "file" => FileRow(row, gifts)
    /\ row.kind = "mint" => MintRow(row, gifts)
    /\ row.kind = "org" => OrgRow(row)
    /\ row.kind = "grant" => GrantRow(row)

RowsInv == \A r \in DOMAIN req : RowFits(req[r], given)

GrantTables == {"org_memberships", "repo_grants", "runtime_grants"}

CopyInv ==
    /\ copy = [phase |-> copy.phase, at |-> copy.at, quiet |-> copy.quiet, rows |-> copy.rows]
    /\ DOMAIN copy.rows = {"orgs", "users", "tokens"} \cup GrantTables
    /\ TokenTable(copy.rows["tokens"], given)
    /\ \A table \in GrantTables : GrantTable(copy.rows[table], given)

NumbersInv == backend # "postgres" => Numbered(tokens, 0)

IInv == TokenTable(tokens, given) /\ NumbersInv /\ GrantsInv /\ RowsInv /\ CopyInv

\* What was given stays given, and what fitted it still fits.
LEMMA GivenStays ==
    ASSUME NEW gifts, NEW more, gifts \subseteq more
    PROVE  /\ \A email, path, access : Gave(gifts, email, path, access) => Gave(more, email, path, access)
           /\ \A email, path, access : MayMint(gifts, email, path, access) => MayMint(more, email, path, access)
           /\ \A token : Fits(token, gifts) => Fits(token, more)
           /\ \A table : TokenTable(table, gifts) => TokenTable(table, more)
           /\ \A table : GrantTable(table, gifts) => GrantTable(table, more)
           /\ \A row : RowFits(row, gifts) => RowFits(row, more)
  <1>1. \A email, path, access : Gave(gifts, email, path, access) => Gave(more, email, path, access)
    BY DEF Gave
  <1>2. \A email, path, access : MayMint(gifts, email, path, access) => MayMint(more, email, path, access)
    BY DEF MayMint
  <1>3. ASSUME NEW token, Fits(token, gifts) PROVE Fits(token, more)
    BY <1>2, <1>3 DEF Fits
  <1>4. ASSUME NEW table, TokenTable(table, gifts) PROVE TokenTable(table, more)
    BY <1>3, <1>4 DEF TokenTable
  <1>5. ASSUME NEW table, GrantTable(table, gifts) PROVE GrantTable(table, more)
    BY <1>5 DEF GrantTable
  <1>6. ASSUME NEW row, RowFits(row, gifts) PROVE RowFits(row, more)
    <2>1. FileRow(row, gifts) => FileRow(row, more)
      BY <1>1, <1>2, <1>3 DEF FileRow, FileAllowed
    <2>2. MintRow(row, gifts) => MintRow(row, more)
      BY <1>2, <1>3 DEF MintRow, MintAllowed
    <2> QED
      BY <1>6, <2>1, <2>2 DEF RowFits
  <1> QED
    BY <1>1, <1>2, <1>3, <1>4, <1>5, <1>6

-----------------------------------------------------------------------------
(***************************************************************************)
(* What a step does to the requests.                                       *)
(***************************************************************************)

\* Only this request moves, and what was asked by whom stays.
Keeps(r) ==
    /\ r \in DOMAIN req /\ DOMAIN req' = DOMAIN req
    /\ \A q \in DOMAIN req \ {r} : req'[q] = req[q]
    /\ IsRow(req'[r]) /\ req'[r].lookup \in Nat \ {0}
    /\ req'[r].kind = req[r].kind /\ req'[r].token = req[r].token
    /\ req'[r].arg = req[r].arg /\ req'[r].email = req[r].email
    /\ req'[r].id = req[r].id /\ req'[r].shown = req[r].shown

LEMMA AnswerKeeps ==
    ASSUME RowsInv, NEW r \in DOMAIN req, NEW outcome, AnswerWith(r, outcome)
    PROVE  Keeps(r) /\ req'[r].phase = "answered" /\ req'[r].outcome = outcome
  <1>1. IsRow(req[r]) /\ req[r].lookup \in Nat \ {0}
    BY DEF RowsInv, RowFits
  <1> QED
    BY <1>1 DEF AnswerWith, Keeps, IsRow

LEMMA GoKeeps ==
    ASSUME RowsInv, NEW r \in DOMAIN req, NEW phase, Go(r, phase)
    PROVE  Keeps(r) /\ req'[r].phase = phase /\ req'[r].outcome = req[r].outcome
  <1>1. IsRow(req[r]) /\ req[r].lookup \in Nat \ {0}
    BY DEF RowsInv, RowFits
  <1> QED
    BY <1>1 DEF Go, Keeps, IsRow

LEMMA LookupKeeps ==
    ASSUME RowsInv, NEW r \in DOMAIN req, NextLookup(r)
    PROVE  Keeps(r) /\ req'[r].phase = req[r].phase /\ req'[r].outcome = req[r].outcome
  <1>1. IsRow(req[r]) /\ req[r].lookup \in Nat \ {0}
    BY DEF RowsInv, RowFits
  <1> QED
    BY <1>1 DEF NextLookup, Keeps, IsRow

\* A request whose rights are of no interest here moves, and no other does.
RightKinds == {"file", "mint", "org", "grant"}

Others(r) ==
    /\ r \in DOMAIN req /\ DOMAIN req' = DOMAIN req
    /\ \A q \in DOMAIN req \ {r} : req'[q] = req[q]
    /\ IsRow(req'[r]) /\ req'[r].lookup \in Nat \ {0}
    /\ req'[r].kind = req[r].kind /\ req[r].kind \notin RightKinds

\* No request for a file is let through by this step.
NoneAllowed ==
    \A q \in DOMAIN req : req[q].kind = "file" /\ req'[q].outcome = "ok" => req[q].outcome = "ok"

\* The requests after one of them moved or arrived.
LEMMA OneMoves ==
    ASSUME RowsInv, given \subseteq given', NEW r, DOMAIN req' = DOMAIN req \cup {r},
           \A q \in DOMAIN req \ {r} : req'[q] = req[q], RowFits(req'[r], given')
    PROVE  RowsInv'
  <1>1. \A q \in DOMAIN req : RowFits(req[q], given')
    BY GivenStays DEF RowsInv
  <1>2. \A q \in DOMAIN req' : RowFits(req'[q], given')
    BY <1>1
  <1> QED
    BY <1>2 DEF RowsInv

LEMMA OthersMove ==
    ASSUME RowsInv, given \subseteq given', NEW r, Others(r)
    PROVE  RowsInv' /\ NoneAllowed
  <1>1. RowFits(req'[r], given')
    BY DEF Others, RowFits, RightKinds
  <1>2. RowsInv'
    BY <1>1, OneMoves DEF Others
  <1> QED
    BY <1>2 DEF NoneAllowed, Others, RightKinds

-----------------------------------------------------------------------------
(***************************************************************************)
(* What a step of the server does to tokens and grants.                    *)
(***************************************************************************)

\* The scopes of a session in the org.
OnlySession(scopes, org) ==
    Cardinality(scopes) = 1 /\ \A scope \in scopes : scope.path = <<org, SessionName>>

MintStep(org, scopes, email, expires) ==
    /\ ScopesAccepted(org, scopes)
    /\ InsertToken(org, scopes, email, expires)
    /\ \/ OnlySession(scopes, org)
       \/ \A scope \in scopes :
             scope.path \in Seq(STRING) /\ MayMint(given', email, scope.path, scope.access)

TokenStep ==
    \/ UNCHANGED tokens
    \/ \E org, scopes, email, expires : MintStep(org, scopes, email, expires)
    \/ \E id, org : SwitchTokenOrg(id, org)
    \/ \E id : RevokeToken(id)
    \/ \E id : TokenExpires(id)

GrantStep ==
    \/ UNCHANGED <<grants, given>>
    \/ \E email, target, access : Target(target) /\ UpsertGrant(email, target, access)
    \/ UNCHANGED given /\ \E email, target : RevokeGrant(email, target)
    \/ UNCHANGED grants /\ \E g : Target(g[2]) /\ given' = given \cup {g}

LEMMA GrantsStay ==
    ASSUME GrantsInv, GrantStep
    PROVE  given \subseteq given' /\ GrantsInv'
  <1>1. CASE UNCHANGED <<grants, given>>
    BY <1>1 DEF GrantsInv, AllTargets
  <1>2. ASSUME NEW email, NEW target, NEW access, Target(target), UpsertGrant(email, target, access)
        PROVE  given \subseteq given' /\ GrantsInv'
    <2>1. /\ given' = given \cup {<<email, target, access>>}
          /\ DOMAIN grants' = DOMAIN grants \cup {<<email, target>>}
          /\ \A g \in DOMAIN grants' : grants'[g] = IF g = <<email, target>> THEN access ELSE grants[g]
      BY <1>2 DEF UpsertGrant, Put
    <2>2. \A g \in DOMAIN grants' : <<g[1], g[2], grants'[g]>> \in given'
      BY <2>1 DEF GrantsInv
    <2>3. \A g \in given' : Target(g[2])
      BY <1>2, <2>1 DEF GrantsInv, AllTargets
    <2> QED
      BY <2>1, <2>2, <2>3 DEF GrantsInv, AllTargets
  <1>3. ASSUME UNCHANGED given, NEW email, NEW target, RevokeGrant(email, target)
        PROVE  given \subseteq given' /\ GrantsInv'
    BY <1>3 DEF RevokeGrant, GrantsInv, AllTargets
  <1>4. ASSUME UNCHANGED grants, NEW h, Target(h[2]), given' = given \cup {h}
        PROVE  given \subseteq given' /\ GrantsInv'
    BY <1>4 DEF GrantsInv, AllTargets
  <1> QED
    BY <1>1, <1>2, <1>3, <1>4 DEF GrantStep

LEMMA SessionIsSession ==
    ASSUME NEW org
    PROVE  /\ OnlySession(SessionScopes(org), org)
           /\ \A token : token.org = org /\ token.scopes = SessionScopes(org) =>
                            IsSession(token) /\ ScopesWithin(token)
  <1>1. PICK scopes : scopes = SessionScopes(org)
    OBVIOUS
  <1>2. scopes = {[path |-> <<org, SessionName>>, access |-> "read"]}
    BY <1>1 DEF SessionScopes
  <1>3. Cardinality(scopes) = 1
    BY <1>2, FS_Singleton
  <1>4. \A scope \in scopes : scope.path = <<org, SessionName>>
    BY <1>2
  <1> QED
    BY <1>1, <1>3, <1>4 DEF OnlySession, IsSession, ScopesWithin

\* A new token takes the next number.
LEMMA NewTokenNumber ==
    ASSUME TokenTable(tokens, given), NumbersInv
    PROVE  /\ LastToken \in Nat /\ NewToken = LastToken + 1
           /\ DOMAIN tokens \subseteq 1 .. LastToken /\ NewToken \notin DOMAIN tokens
  <1> DEFINE n == Cardinality(DOMAIN tokens)
             gap == IF backend = "postgres" THEN MaxTokens ELSE 0
  <1>1. n \in Nat /\ gap \in Nat
    BY AccountsAssumption, FS_CardinalityType DEF TokenTable, Numbered
  <1>2. LastToken = n + gap /\ DOMAIN tokens \subseteq 1 .. n + gap
    BY DEF LastToken, TokenTable, NumbersInv, Numbered
  <1> HIDE DEF n, gap
  <1> QED
    BY <1>1, <1>2 DEF NewToken

LEMMA TokenAdded ==
    ASSUME TokenTable(tokens, given), NumbersInv, DOMAIN tokens' = DOMAIN tokens \cup {NewToken},
           backend' = backend
    PROVE  Numbered(tokens, MaxTokens)' /\ NumbersInv' /\ LastToken' = LastToken + 1
  <1> DEFINE n == Cardinality(DOMAIN tokens)
             gap == IF backend = "postgres" THEN MaxTokens ELSE 0
  <1>1. n \in Nat /\ gap \in Nat /\ gap <= MaxTokens /\ MaxTokens \in Nat
    BY AccountsAssumption, FS_CardinalityType DEF TokenTable, Numbered
  <1>2. /\ IsFiniteSet(DOMAIN tokens) /\ DOMAIN tokens \subseteq 1 .. n + gap
        /\ NewToken = n + gap + 1 /\ LastToken = n + gap
    BY <1>1, NewTokenNumber DEF LastToken, NewToken, TokenTable, NumbersInv, Numbered
  <1>3. IsFiniteSet(DOMAIN tokens') /\ Cardinality(DOMAIN tokens') = n + 1
    BY <1>2, NewTokenNumber, FS_AddElement
  <1>4. LastToken' = n + 1 + gap
    BY <1>3 DEF LastToken
  <1> HIDE DEF n
  <1>5. DOMAIN tokens' \subseteq 1 .. n + 1 + gap
    BY <1>1, <1>2
  <1>6. Numbered(tokens, MaxTokens)'
    BY <1>1, <1>3, <1>5 DEF Numbered
  <1>7. NumbersInv'
    BY <1>1, <1>3, <1>5 DEF NumbersInv, Numbered
  <1> QED
    BY <1>1, <1>2, <1>4, <1>6, <1>7

LEMMA TokensStay ==
    ASSUME TokenTable(tokens, given), NumbersInv, given \subseteq given', TokenStep, backend' = backend
    PROVE  TokenTable(tokens, given)' /\ NumbersInv'
  <1>1. TokenTable(tokens, given')
    BY GivenStays
  <1>2. CASE UNCHANGED tokens
    BY <1>1, <1>2 DEF TokenTable, NumbersInv, Numbered
  <1>3. ASSUME NEW org, NEW scopes, NEW email, NEW expires, MintStep(org, scopes, email, expires)
        PROVE  TokenTable(tokens, given)' /\ NumbersInv'
    <2>1. PICK row : row = [org |-> org, scopes |-> scopes, email |-> email,
                            expires |-> expires, expired |-> FALSE, revoked |-> FALSE]
      OBVIOUS
    <2>2. /\ DOMAIN tokens' = DOMAIN tokens \cup {NewToken}
          /\ \A id \in DOMAIN tokens' : tokens'[id] = IF id = NewToken THEN row ELSE tokens[id]
      BY <1>3, <2>1 DEF MintStep, InsertToken, Put
    <2>3. IsToken(row) /\ row.org = org /\ row.scopes = scopes /\ row.email = email
      BY <2>1 DEF IsToken
    <2>4. ScopesWithin(row)
      BY <1>3, <2>3 DEF MintStep, ScopesAccepted, ValidScopes, ValidScopePath, ScopesWithin
    <2>5. Fits(row, given')
      BY <1>3, <2>3 DEF MintStep, Fits, OnlySession, IsSession
    <2>6. Numbered(tokens, MaxTokens)' /\ NumbersInv'
      BY <2>2, TokenAdded
    <2>7. \A id \in DOMAIN tokens' :
             IsToken(tokens'[id]) /\ ScopesWithin(tokens'[id]) /\ Fits(tokens'[id], given')
      BY <1>1, <2>2, <2>3, <2>4, <2>5 DEF TokenTable
    <2> QED
      BY <2>6, <2>7 DEF TokenTable
  <1>4. ASSUME NEW id, NEW org, SwitchTokenOrg(id, org)
        PROVE  TokenTable(tokens, given)' /\ NumbersInv'
    <2>1. IsToken(tokens[id])
      BY <1>4 DEF SwitchTokenOrg, TokenTable
    <2>2. /\ DOMAIN tokens' = DOMAIN tokens
          /\ \A t \in DOMAIN tokens \ {id} : tokens'[t] = tokens[t]
          /\ IsToken(tokens'[id]) /\ tokens'[id].org = org /\ tokens'[id].scopes = SessionScopes(org)
      BY <1>4, <2>1 DEF SwitchTokenOrg, IsToken
    <2>3. ScopesWithin(tokens'[id]) /\ Fits(tokens'[id], given')
      BY <2>2, SessionIsSession DEF Fits
    <2> QED
      BY <1>1, <2>2, <2>3 DEF TokenTable, NumbersInv, Numbered
  <1>5. ASSUME NEW id, RevokeToken(id) \/ TokenExpires(id)
        PROVE  TokenTable(tokens, given)' /\ NumbersInv'
    <2>1. id \in DOMAIN tokens /\ IsToken(tokens[id]) /\ ScopesWithin(tokens[id]) /\ Fits(tokens[id], given')
      BY <1>1, <1>5 DEF RevokeToken, TokenExpires, TokenTable
    <2>2. /\ DOMAIN tokens' = DOMAIN tokens
          /\ \A t \in DOMAIN tokens \ {id} : tokens'[t] = tokens[t]
          /\ IsToken(tokens'[id]) /\ tokens'[id].org = tokens[id].org
          /\ tokens'[id].scopes = tokens[id].scopes /\ tokens'[id].email = tokens[id].email
      BY <1>5, <2>1 DEF RevokeToken, TokenExpires, IsToken
    <2>3. ScopesWithin(tokens'[id]) /\ Fits(tokens'[id], given')
      BY <2>1, <2>2 DEF ScopesWithin, Fits, IsSession
    <2> QED
      BY <1>1, <2>2, <2>3 DEF TokenTable, NumbersInv, Numbered
  <1> QED
    BY <1>2, <1>3, <1>4, <1>5 DEF TokenStep

-----------------------------------------------------------------------------
(***************************************************************************)
(* Requests with a token.                                                  *)
(***************************************************************************)

\* A session's request for a file that this step lets through has its grant.
FollowsGrants ==
    \A q \in DOMAIN req :
        /\ req[q].kind = "file" /\ req[q].outcome = "pending" /\ req'[q].outcome = "ok"
        /\ IsSession(req[q].token) /\ ~SessionPath(req[q].arg.path)
        => AuthorizeGrant(req[q].email, req[q].arg.path, req[q].arg.access)

Safe == TokenStep /\ GrantStep /\ RowsInv' /\ FollowsGrants

LEMMA QuietGrants ==
    ASSUME UNCHANGED <<grants, given>> PROVE GrantStep /\ given \subseteq given'
  BY DEF GrantStep

LEMMA NoneFollows == NoneAllowed => FollowsGrants
  BY DEF NoneAllowed, FollowsGrants

\* A decision of the store in favour rests on a grant.
LEMMA DecisionGrants ==
    ASSUME NEW r, NEW path, NEW access, req[r].lookup \in Nat \ {0}, Lookups(path) \in Nat,
           Decision(r, path, access) = "allowed"
    PROVE  /\ AuthorizeGrant(req[r].email, path, access)
           /\ \E k \in 1 .. Lookups(path) : GrantedAt(req[r].email, path, access, k)
  <1>1. CASE backend = "sqlite"
    BY <1>1 DEF Decision, AuthorizeGrant
  <1>2. CASE backend # "sqlite"
    BY <1>2 DEF Decision, AuthorizeGrant
  <1> QED
    BY <1>1, <1>2

LEMMA LookupsNat == \A path : Lookups(path) \in Nat
  BY DEF Lookups

LEMMA FileStep ==
    ASSUME IInv, NEW r, AuthorizeFile(r) PROVE Safe
  <1> DEFINE path == req[r].arg.path
             access == req[r].arg.access
  <1>1. /\ r \in DOMAIN req /\ req[r].kind = "file" /\ req[r].phase = "authorize"
        /\ UNCHANGED accountVars
    BY DEF AuthorizeFile, In
  <1>2. RowFits(req[r], given) /\ FileRow(req[r], given)
    BY <1>1 DEF IInv, RowsInv, RowFits
  <1>3. /\ TokenStep /\ GrantStep /\ given \subseteq given' /\ given' = given
    BY <1>1, QuietGrants DEF accountVars, TokenStep
  <1>4. path \in Seq(Words)
    BY <1>2, NamesAssumption, StringsAreWords DEF FileRow
  <1>5. AllTargets(given) /\ GrantsInv
    BY DEF IInv, GrantsInv
  <1>6. ASSUME Authorize(req[r].token.scopes, path, access)
        PROVE  FileAllowed(req[r], given) /\ (IsSession(req[r].token) => SessionPath(path))
    <2>1. CASE IsSession(req[r].token)
      BY <1>6, <2>1, SessionMatches DEF FileAllowed
    <2>2. CASE ~IsSession(req[r].token)
      <3>1. MayMint(given, req[r].token.email, path, access)
        BY <1>2, <1>4, <1>5, <1>6, <2>2, ScopesGive DEF FileRow
      <3> QED
        BY <1>2, <2>2, <3>1 DEF FileRow, FileAllowed
    <2> QED
      BY <2>1, <2>2
  <1>7. ASSUME Decision(r, path, access) = "allowed"
        PROVE  FileAllowed(req[r], given) /\ AuthorizeGrant(req[r].email, path, access)
    <2>1. /\ AuthorizeGrant(req[r].email, path, access)
          /\ \E k \in 1 .. Lookups(path) : GrantedAt(req[r].email, path, access, k)
      BY <1>2, <1>7, LookupsNat, DecisionGrants DEF RowFits
    <2>2. Gave(given, req[r].email, path, access)
      BY <1>4, <1>5, <2>1, GrantGives
    <2> QED
      BY <2>1, <2>2, GaveMints DEF FileAllowed
  <1>8. \/ NextLookup(r)
        \/ \E outcome : AnswerWith(r, outcome) /\ outcome # "ok"
        \/ /\ AnswerWith(r, "ok")
           /\ Authorize(req[r].token.scopes, path, access) \/ Decision(r, path, access) = "allowed"
    BY DEF AuthorizeFile
  <1> HIDE DEF path, access
  <1>9. CASE NextLookup(r)
    <2>1. Keeps(r) /\ req'[r].phase = req[r].phase /\ req'[r].outcome = req[r].outcome
      BY <1>1, <1>9, LookupKeeps DEF IInv
    <2>2. RowFits(req'[r], given')
      BY <1>1, <1>2, <1>3, <2>1 DEF RowFits, FileRow, FileAllowed, Keeps
    <2>3. RowsInv'
      BY <1>3, <2>1, <2>2, OneMoves DEF Keeps, IInv
    <2>4. NoneAllowed
      BY <2>1 DEF NoneAllowed, Keeps
    <2> QED
      BY <1>3, <2>3, <2>4, NoneFollows DEF Safe
  <1>10. ASSUME NEW outcome, AnswerWith(r, outcome), outcome # "ok" PROVE Safe
    <2>1. Keeps(r) /\ req'[r].phase = "answered" /\ req'[r].outcome = outcome
      BY <1>1, <1>10, AnswerKeeps DEF IInv
    <2>2. RowFits(req'[r], given')
      BY <1>1, <1>2, <1>3, <1>10, <2>1 DEF RowFits, FileRow, Keeps, Ended
    <2>3. RowsInv'
      BY <1>3, <2>1, <2>2, OneMoves DEF Keeps, IInv
    <2>4. NoneAllowed
      BY <1>10, <2>1 DEF NoneAllowed, Keeps
    <2> QED
      BY <1>3, <2>3, <2>4, NoneFollows DEF Safe
  <1>11. ASSUME AnswerWith(r, "ok"),
                Authorize(req[r].token.scopes, path, access) \/ Decision(r, path, access) = "allowed"
         PROVE  Safe
    <2>1. Keeps(r) /\ req'[r].phase = "answered" /\ req'[r].outcome = "ok"
      BY <1>1, <1>11, AnswerKeeps DEF IInv
    <2>2. FileAllowed(req[r], given)
      BY <1>6, <1>7, <1>11
    <2>3. RowFits(req'[r], given')
      BY <1>1, <1>2, <1>3, <2>1, <2>2 DEF RowFits, FileRow, FileAllowed, Keeps, Ended
    <2>4. RowsInv'
      BY <1>3, <2>1, <2>3, OneMoves DEF Keeps, IInv
    <2>5. IsSession(req[r].token) => SessionPath(path) \/ AuthorizeGrant(req[r].email, path, access)
      BY <1>6, <1>7, <1>11
    <2>6. FollowsGrants
      BY <2>1, <2>5 DEF FollowsGrants, Keeps, path, access
    <2> QED
      BY <1>3, <2>4, <2>6 DEF Safe
  <1> QED
    BY <1>8, <1>9, <1>10, <1>11

\* A request of another kind moves: nothing but tokens and grants to look at.
LEMMA OtherStep ==
    ASSUME IInv, NEW r, Others(r), TokenStep, GrantStep PROVE Safe
  <1>1. given \subseteq given'
    BY GrantsStay DEF IInv
  <1> QED
    BY <1>1, OthersMove, NoneFollows DEF IInv, Safe

LEMMA AnswerOthers ==
    ASSUME IInv, NEW r \in DOMAIN req, req[r].kind \notin RightKinds,
           (\E outcome : AnswerWith(r, outcome)) \/ (\E phase : Go(r, phase))
    PROVE  Others(r)
  <1>1. Keeps(r)
    BY AnswerKeeps, GoKeeps DEF IInv
  <1> QED
    BY <1>1 DEF Keeps, Others

LEMMA ScopeStep ==
    ASSUME IInv, NEW r, CheckScope(r) PROVE Safe
  <1>1. /\ r \in DOMAIN req /\ req[r].kind = "mint" /\ req[r].phase = "scope"
        /\ UNCHANGED accountVars
    BY DEF CheckScope, In
  <1>2. RowFits(req[r], given) /\ MintRow(req[r], given)
    BY <1>1 DEF IInv, RowsInv, RowFits
  <1>3. /\ TokenStep /\ GrantStep /\ given \subseteq given' /\ given' = given
    BY <1>1, QuietGrants DEF accountVars, TokenStep
  <1>4. PICK scope \in ScopeAsks : req[r].arg = [scopes |-> {scope}]
    BY <1>2 DEF MintRow
  <1> DEFINE asked == CHOOSE s \in req[r].arg.scopes : TRUE
  <1>5. asked \in req[r].arg.scopes
    BY <1>4
  <1>6. asked = scope
    BY <1>4, <1>5
  <1> DEFINE path == scope.path
             access == scope.access
  <1>7. path \in Seq(Words) /\ Len(path) >= 1
    BY <1>4, NamesAssumption, StringsAreWords
  <1>8. AllTargets(given) /\ GrantsInv
    BY DEF IInv, GrantsInv
  <1>9. req[r].email = req[r].token.email /\ Fits(req[r].token, given) /\ req[r].lookup \in Nat \ {0}
    BY <1>2 DEF MintRow, RowFits
  <1>10. ASSUME Authorize(req[r].token.scopes, path, access)
         PROVE  MintAllowed(req[r], scope, given)
    <2>1. CASE IsSession(req[r].token)
      BY <1>10, <2>1, SessionMatches DEF MintAllowed
    <2>2. CASE ~IsSession(req[r].token)
      <3>1. MayMint(given, req[r].token.email, path, access)
        BY <1>7, <1>8, <1>9, <1>10, <2>2, ScopesGive
      <3> QED
        BY <1>9, <3>1 DEF MintAllowed
    <2> QED
      BY <2>1, <2>2
  <1>11. ASSUME Decision(r, Probe(path), access) = "allowed"
         PROVE  MintAllowed(req[r], scope, given)
    <2>1. \E k \in 1 .. Lookups(Probe(path)) : GrantedAt(req[r].email, Probe(path), access, k)
      BY <1>9, <1>11, LookupsNat, DecisionGrants
    <2>2. MayMint(given, req[r].email, path, access)
      BY <1>7, <1>8, <2>1, ProbeGives
    <2> QED
      BY <2>2 DEF MintAllowed
  <1>12. \/ NextLookup(r)
         \/ \E outcome : AnswerWith(r, outcome) /\ outcome # "ok"
         \/ /\ Go(r, "insert")
            /\ Authorize(req[r].token.scopes, path, access) \/ Decision(r, Probe(path), access) = "allowed"
    <2>1. \/ NextLookup(r)
          \/ \E outcome : AnswerWith(r, outcome) /\ outcome # "ok"
          \/ /\ Go(r, "insert")
             /\ \/ Authorize(req[r].token.scopes, asked.path, asked.access)
                \/ Decision(r, Probe(asked.path), asked.access) = "allowed"
      BY DEF CheckScope
    <2> QED
      BY <1>6, <2>1
  <1> HIDE DEF asked, path, access
  <1>13. CASE NextLookup(r)
    <2>1. Keeps(r) /\ req'[r].phase = req[r].phase /\ req'[r].outcome = req[r].outcome
      BY <1>1, <1>13, LookupKeeps DEF IInv
    <2>2. MintRow(req'[r], given')
      BY <1>1, <1>2, <1>3, <1>4, <2>1 DEF MintRow, MintAllowed, Keeps
    <2>3. RowFits(req'[r], given')
      BY <1>1, <2>1, <2>2 DEF RowFits, Keeps
    <2>4. RowsInv' /\ NoneAllowed
      BY <1>1, <1>3, <2>1, <2>3, OneMoves DEF Keeps, IInv, NoneAllowed
    <2> QED
      BY <1>3, <2>4, NoneFollows DEF Safe
  <1>14. ASSUME NEW outcome, AnswerWith(r, outcome) PROVE Safe
    <2>1. Keeps(r) /\ req'[r].phase = "answered" /\ req'[r].outcome = outcome
      BY <1>1, <1>14, AnswerKeeps DEF IInv
    <2>2. MintRow(req'[r], given')
      BY <1>1, <1>2, <1>3, <1>4, <2>1 DEF MintRow, MintAllowed, Keeps, Ended
    <2>3. RowFits(req'[r], given')
      BY <1>1, <2>1, <2>2 DEF RowFits, Keeps
    <2>4. RowsInv' /\ NoneAllowed
      BY <1>1, <1>3, <2>1, <2>3, OneMoves DEF Keeps, IInv, NoneAllowed
    <2> QED
      BY <1>3, <2>4, NoneFollows DEF Safe
  <1>15. ASSUME Go(r, "insert"),
                Authorize(req[r].token.scopes, path, access) \/ Decision(r, Probe(path), access) = "allowed"
         PROVE  Safe
    <2>1. Keeps(r) /\ req'[r].phase = "insert" /\ req'[r].outcome = req[r].outcome
      BY <1>1, <1>15, GoKeeps DEF IInv
    <2>2. MintAllowed(req[r], scope, given)
      BY <1>10, <1>11, <1>15
    <2>3. MintRow(req'[r], given')
      BY <1>1, <1>2, <1>3, <1>4, <2>1, <2>2 DEF MintRow, MintAllowed, Keeps
    <2>4. RowFits(req'[r], given')
      BY <1>1, <2>1, <2>3 DEF RowFits, Keeps
    <2>5. RowsInv' /\ NoneAllowed
      BY <1>1, <1>3, <2>1, <2>4, OneMoves DEF Keeps, IInv, NoneAllowed
    <2> QED
      BY <1>3, <2>5, NoneFollows DEF Safe
  <1> QED
    BY <1>12, <1>13, <1>14, <1>15

\* An answer ends a request whatever it is, but for files.
LEMMA AnswerStep ==
    ASSUME IInv, NEW r \in DOMAIN req, req[r].kind # "file", NEW outcome, AnswerWith(r, outcome),
           TokenStep, GrantStep
    PROVE  Safe
  <1>1. Keeps(r) /\ req'[r].phase = "answered" /\ req'[r].outcome = outcome
    BY AnswerKeeps DEF IInv
  <1>2. RowFits(req[r], given) /\ given \subseteq given'
    BY GrantsStay DEF IInv, RowsInv
  <1>3. RowFits(req[r], given')
    BY <1>2, GivenStays
  <1>4. req[r].kind = "mint" => MintRow(req'[r], given')
    BY <1>1, <1>3 DEF RowFits, MintRow, MintAllowed, Keeps, Ended
  <1>5. RowFits(req'[r], given')
    BY <1>1, <1>3, <1>4 DEF RowFits, OrgRow, GrantRow, Keeps, Ended
  <1>6. RowsInv' /\ NoneAllowed
    BY <1>1, <1>2, <1>5, OneMoves DEF Keeps, IInv, NoneAllowed
  <1> QED
    BY <1>6, NoneFollows DEF Safe

LEMMA TokenPosted ==
    ASSUME IInv, NEW r, PostToken(r) PROVE Safe
  <1> DEFINE org == req[r].token.org
             scopes == req[r].arg.scopes
  <1>1. /\ r \in DOMAIN req /\ req[r].kind = "mint" /\ req[r].phase = "insert"
        /\ UNCHANGED <<grants, given>>
        /\ \E outcome : AnswerWith(r, outcome)
        /\ \/ UNCHANGED tokens
           \/ MintAccepted(org, scopes, req[r].email) /\ InsertToken(org, scopes, req[r].email, TRUE)
    BY DEF PostToken, In
  <1>2. MintRow(req[r], given)
    BY <1>1 DEF IInv, RowsInv, RowFits
  <1>3. PICK scope \in ScopeAsks :
           req[r].arg = [scopes |-> {scope}] /\ MintAllowed(req[r], scope, given)
    BY <1>1, <1>2 DEF MintRow
  <1>4. scopes = {scope} /\ scope.path \in Seq(STRING)
    BY <1>3, NamesAssumption
  <1> HIDE DEF org, scopes
  <1>5. ASSUME MayMint(given, req[r].email, scope.path, scope.access)
        PROVE  \A s \in scopes : s.path \in Seq(STRING) /\ MayMint(given', req[r].email, s.path, s.access)
    BY <1>1, <1>4, <1>5
  <1>6. ASSUME SessionPath(scope.path), MintAccepted(org, scopes, req[r].email)
        PROVE  OnlySession(scopes, org)
    <2>1. scope.path[1] = org
      BY <1>4, <1>6 DEF MintAccepted, ScopesAccepted, ValidScopes, ValidScopePath
    <2>2. scope.path = <<org, SessionName>>
      BY <1>4, <1>6, <2>1 DEF SessionPath
    <2> QED
      BY <1>4, <2>2, FS_Singleton DEF OnlySession
  <1>7. ASSUME MintAccepted(org, scopes, req[r].email), InsertToken(org, scopes, req[r].email, TRUE)
        PROVE  MintStep(org, scopes, req[r].email, TRUE)
    BY <1>3, <1>5, <1>6, <1>7 DEF MintStep, MintAccepted, MintAllowed
  <1>8. TokenStep
    BY <1>1, <1>7 DEF TokenStep
  <1> QED
    BY <1>1, <1>8, QuietGrants, AnswerStep

LEMMA OrgPosted ==
    ASSUME IInv, NEW r, PostOrg(r) PROVE Safe
  <1>1. /\ r \in DOMAIN req /\ req[r].kind = "org" /\ req[r].phase = "create"
        /\ UNCHANGED tokens /\ \E outcome : AnswerWith(r, outcome)
        /\ UNCHANGED <<grants, given>> \/ UpsertGrant(req[r].email, <<req[r].arg.org>>, "admin")
    BY DEF PostOrg, In, accountVars, CreateOrganization, UpsertGrant
  <1>2. req[r].arg.org \in Orgs
    BY <1>1 DEF IInv, RowsInv, RowFits, OrgRow
  <1>3. Target(<<req[r].arg.org>>)
    BY <1>2, NamesAssumption
  <1>4. GrantStep /\ TokenStep
    BY <1>1, <1>3 DEF GrantStep, TokenStep
  <1> QED
    BY <1>1, <1>4, AnswerStep

LEMMA GrantPosted ==
    ASSUME IInv, NEW r, PostGrant(r) \/ AssertUserOrg(r) \/ InsertGrant(r) PROVE Safe
  <1>1. /\ r \in DOMAIN req /\ req[r].kind = "grant" /\ req[r].phase \in {"apply", "upsert"}
        /\ UNCHANGED tokens
    BY DEF PostGrant, AssertUserOrg, InsertGrant, In, accountVars
  <1>2. RowFits(req[r], given) /\ req[r].arg \in AdminAsks
    BY <1>1 DEF IInv, RowsInv, RowFits, GrantRow
  <1>3. Target(req[r].arg.target) /\ TokenStep
    BY <1>1, <1>2, NamesAssumption DEF TokenStep
  <1>4. CASE PostGrant(r) \/ InsertGrant(r)
    <2>1. /\ \E outcome : AnswerWith(r, outcome)
          /\ \/ UNCHANGED <<grants, given>>
             \/ UpsertGrant(req[r].arg.email, req[r].arg.target, req[r].arg.access)
      BY <1>4 DEF PostGrant, InsertGrant, Grant
    <2>2. GrantStep
      BY <1>3, <2>1 DEF GrantStep
    <2> QED
      BY <1>1, <1>3, <2>1, <2>2, AnswerStep
  <1>5. CASE AssertUserOrg(r)
    <2>1. UNCHANGED <<grants, given>> /\ (Go(r, "upsert") \/ \E outcome : AnswerWith(r, outcome))
      BY <1>5 DEF AssertUserOrg, accountVars
    <2>2. CASE Go(r, "upsert")
      <3>1. Keeps(r) /\ req'[r].phase = "upsert"
        BY <1>1, <2>2, GoKeeps DEF IInv
      <3>2. RowFits(req'[r], given')
        BY <1>1, <1>2, <3>1 DEF RowFits, GrantRow, Keeps
      <3>3. RowsInv' /\ NoneAllowed
        BY <1>1, <2>1, <3>1, <3>2, OneMoves DEF Keeps, IInv, NoneAllowed
      <3> QED
        BY <1>3, <2>1, <3>3, QuietGrants, NoneFollows DEF Safe
    <2> QED
      BY <1>1, <1>3, <2>1, <2>2, QuietGrants, AnswerStep
  <1> QED
    BY <1>4, <1>5

LEMMA AdminChecked ==
    ASSUME IInv, NEW r, RequireOrgAdmin(r) PROVE Safe
  <1>1. /\ r \in DOMAIN req /\ req[r].kind \in AdminKinds /\ req[r].phase = "admin"
        /\ UNCHANGED accountVars
        /\ Go(r, "apply") \/ \E outcome : AnswerWith(r, outcome)
    BY DEF RequireOrgAdmin
  <1>2. TokenStep /\ GrantStep /\ given \subseteq given' /\ given' = given
    BY <1>1, QuietGrants DEF accountVars, TokenStep
  <1>3. req[r].kind \notin {"file", "mint", "org"}
    BY <1>1 DEF AdminKinds
  <1>4. CASE Go(r, "apply")
    <2>1. Keeps(r) /\ req'[r].phase = "apply"
      BY <1>1, <1>4, GoKeeps DEF IInv
    <2>2. RowFits(req[r], given)
      BY <1>1 DEF IInv, RowsInv
    <2>3. RowFits(req'[r], given')
      BY <1>3, <2>1, <2>2 DEF RowFits, GrantRow, Keeps
    <2>4. RowsInv' /\ NoneAllowed
      BY <1>2, <1>3, <2>1, <2>3, OneMoves DEF Keeps, IInv, NoneAllowed
    <2> QED
      BY <1>2, <2>4, NoneFollows DEF Safe
  <1> QED
    BY <1>1, <1>2, <1>3, <1>4, AnswerStep

\* The routes that only read keep what they found.
LEMMA ShowOthers ==
    ASSUME IInv, NEW r \in DOMAIN req, req[r].kind \notin RightKinds,
           NEW phase, NEW found, Show(r, phase, found)
    PROVE  Others(r)
  <1>1. IsRow(req[r]) /\ req[r].lookup \in Nat \ {0}
    BY DEF IInv, RowsInv, RowFits
  <1> QED
    BY <1>1 DEF Show, Others, IsRow

LEMMA OtherRequests ==
    ASSUME IInv, NEW r,
           \/ FindToken(r) \/ CheckTokenAdmin(r) \/ DeleteToken(r)
           \/ Me(r) \/ GetTokens(r)
           \/ PostUser(r) \/ PostVerify(r) \/ GetGrants(r) \/ DeleteGrant(r)
    PROVE  Safe
  <1>1. CASE FindToken(r) \/ CheckTokenAdmin(r) \/ DeleteToken(r)
    <2>1. /\ r \in DOMAIN req /\ req[r].kind = "revoke"
          /\ UNCHANGED <<grants, given>>
          /\ UNCHANGED tokens \/ \E id : RevokeToken(id)
          /\ (\E outcome : AnswerWith(r, outcome)) \/ (\E phase : Go(r, phase))
      BY <1>1 DEF FindToken, CheckTokenAdmin, DeleteToken, In, accountVars
    <2>2. Others(r)
      BY <2>1, AnswerOthers DEF RightKinds
    <2> QED
      BY <2>1, <2>2, QuietGrants, OtherStep DEF TokenStep
  <1>2. CASE Me(r) \/ GetTokens(r) \/ GetGrants(r)
    <2>1. /\ r \in DOMAIN req /\ req[r].kind \in {"me", "tokens", "grants"}
          /\ UNCHANGED <<tokens, grants, given>>
          /\ \E phase, found : Show(r, phase, found)
      BY <1>2 DEF Me, GetTokens, GetGrants, In, accountVars
    <2>2. Others(r)
      BY <2>1, ShowOthers DEF RightKinds
    <2> QED
      BY <2>1, <2>2, QuietGrants, OtherStep DEF TokenStep
  <1>3. CASE PostUser(r) \/ PostVerify(r) \/ DeleteGrant(r)
    <2>1. /\ r \in DOMAIN req /\ req[r].kind \in {"user", "verify", "ungrant"}
          /\ UNCHANGED <<tokens, given>>
          /\ UNCHANGED grants \/ \E email, target : RevokeGrant(email, target)
          /\ \E outcome : AnswerWith(r, outcome)
      BY <1>3 DEF PostUser, PostVerify, DeleteGrant, In
    <2>2. Others(r)
      BY <2>1, AnswerOthers DEF RightKinds
    <2> QED
      BY <2>1, <2>2, OtherStep DEF TokenStep, GrantStep
  <1> QED
    BY <1>1, <1>2, <1>3

LEMMA RequestSteps ==
    ASSUME IInv, NEW r, RequestProgress(r) PROVE Safe
  BY FileStep, ScopeStep, TokenPosted, OrgPosted, GrantPosted, AdminChecked, OtherRequests
     DEF RequestProgress

-----------------------------------------------------------------------------
(***************************************************************************)
(* Sign-ins.                                                               *)
(***************************************************************************)

\* A request for files, tokens, orgs or grants is in none of these phases.
LEMMA SignInKinds ==
    ASSUME IInv, NEW r \in DOMAIN req, req[r].phase \in {"orgs", "any", "open"}
    PROVE  req[r].kind \notin RightKinds
  <1>1. RowFits(req[r], given)
    BY DEF IInv, RowsInv
  <1> QED
    BY <1>1 DEF RowFits, FileRow, MintRow, OrgRow, GrantRow, Ended, RightKinds

LEMMA FoundOthers ==
    ASSUME IInv, NEW r \in DOMAIN req, req[r].kind \notin RightKinds,
           \/ \E user : Found(r, user)
           \/ \E phase, user : Candidate(r, phase, user)
           \/ NotProvisioned(r)
    PROVE  Others(r)
  <1>1. IsRow(req[r]) /\ req[r].lookup \in Nat \ {0}
    BY DEF IInv, RowsInv, RowFits
  <1>2. ASSUME NEW user, Found(r, user) PROVE Others(r)
    BY <1>1, <1>2 DEF Found, Others, IsRow
  <1>3. ASSUME NEW phase, NEW user, Candidate(r, phase, user) PROVE Others(r)
    BY <1>1, <1>3 DEF Candidate, Others, IsRow
  <1>4. CASE NotProvisioned(r)
    BY <1>4, AnswerOthers DEF NotProvisioned
  <1> QED
    BY <1>2, <1>3, <1>4

LEMMA IdentitySteps ==
    ASSUME IInv, NEW r,
           \/ Resolve(r) \/ SelectBySubject(r) \/ SelectLegacy(r) \/ SelectByEmail(r)
           \/ SelectCandidates(r) \/ ClaimCandidate(r) \/ LinkByEmail(r)
           \/ CheckEmpty(r) \/ BootstrapUser(r)
    PROVE  Safe
  <1>1. /\ r \in DOMAIN req /\ req[r].kind = "keyname" /\ OnlyUsers
        /\ \/ \E outcome : AnswerWith(r, outcome)
           \/ \E phase : Go(r, phase)
           \/ \E user : Found(r, user)
           \/ \E phase, user : Candidate(r, phase, user)
           \/ NotProvisioned(r)
    <2>1. CASE Resolve(r)
      BY <2>1 DEF Resolve, In
    <2>2. CASE SelectBySubject(r) \/ SelectLegacy(r) \/ SelectByEmail(r) \/ SelectCandidates(r)
      BY <2>2 DEF SelectBySubject, SelectLegacy, SelectByEmail, SelectCandidates, In
    <2>3. CASE ClaimCandidate(r) \/ LinkByEmail(r)
      BY <2>3 DEF ClaimCandidate, LinkByEmail, In
    <2>4. CASE CheckEmpty(r) \/ BootstrapUser(r)
      BY <2>4 DEF CheckEmpty, BootstrapUser, In
    <2> QED
      BY <2>1, <2>2, <2>3, <2>4
  <1>2. Others(r)
    BY <1>1, FoundOthers, AnswerOthers DEF RightKinds
  <1> QED
    BY <1>1, <1>2, QuietGrants, OtherStep DEF OnlyUsers, TokenStep

LEMMA BootstrapStep ==
    ASSUME IInv, NEW r, BootstrapOrganization(r) PROVE Safe
  <1>1. r \in DOMAIN req /\ req[r].kind = "keyname" /\ UNCHANGED tokens
    BY DEF BootstrapOrganization, In
  <1>2. UNCHANGED <<grants, given>> \/ UpsertGrant(Email(r), <<BootstrapOrg>>, "admin")
    BY DEF BootstrapOrganization, CreateOrganization, UpsertGrant
  <1>3. Target(<<BootstrapOrg>>)
    BY NamesAssumption
  <1>4. GrantStep /\ TokenStep
    BY <1>1, <1>2, <1>3 DEF GrantStep, TokenStep
  <1>5. IsRow(req[r]) /\ req[r].lookup \in Nat \ {0}
    BY <1>1 DEF IInv, RowsInv, RowFits
  <1>6. ASSUME \E outcome : AnswerWith(r, outcome) PROVE Others(r)
    BY <1>1, <1>6, AnswerOthers DEF RightKinds
  <1>7. ASSUME req' = [req EXCEPT ![r].phase = IF backend = "sqlite" THEN "resolve" ELSE "subject",
                                  ![r].arg.again = TRUE]
        PROVE  Others(r)
    BY <1>1, <1>5, <1>7 DEF Others, IsRow, RightKinds
  <1>8. Others(r)
    BY <1>6, <1>7 DEF BootstrapOrganization
  <1> QED
    BY <1>4, <1>8, OtherStep

LEMMA SessionSteps ==
    ASSUME IInv, NEW r,
           \/ CheckPassword(r) \/ ChooseOrg(r) \/ CheckAnyGrant(r)
           \/ CheckPrior(r) \/ RevokePrior(r) \/ RejectSwitch(r) \/ SwitchOrg(r) \/ Logout(r)
    PROVE  Safe
  <1>1. /\ r \in DOMAIN req /\ UNCHANGED <<grants, given>>
        /\ UNCHANGED tokens \/ (\E id : RevokeToken(id)) \/ (\E id, org : SwitchTokenOrg(id, org))
    BY DEF CheckPassword, ChooseOrg, CheckAnyGrant, CheckPrior, RevokePrior, RejectSwitch,
           SwitchOrg, Logout, In, accountVars
  <1>2. CASE ChooseOrg(r) \/ CheckAnyGrant(r)
    <2>1. req[r].kind \notin RightKinds
      BY <1>1, <1>2, SignInKinds DEF ChooseOrg, CheckAnyGrant
    <2>2. IsRow(req[r]) /\ req[r].lookup \in Nat \ {0}
      BY <1>1 DEF IInv, RowsInv, RowFits
    <2>3. ASSUME \E outcome : AnswerWith(r, outcome) PROVE Others(r)
      BY <1>1, <2>1, <2>3, AnswerOthers
    <2>4. CASE ChooseOrg(r)
      <3> DEFINE phase == IF req[r].kind = "login" THEN "any" ELSE "open"
                 org == FirstOrg(AccessibleOrgs(req[r].email))
      <3>1. \/ \E outcome : AnswerWith(r, outcome)
            \/ req' = [req EXCEPT ![r].phase = phase, ![r].token.org = org]
        BY <2>4 DEF ChooseOrg
      <3> HIDE DEF phase, org
      <3>2. Others(r)
        BY <1>1, <2>1, <2>2, <2>3, <3>1 DEF Others, IsRow
      <3> QED
        BY <3>2, <1>1, QuietGrants, OtherStep, <2>4 DEF TokenStep, ChooseOrg, accountVars
    <2>5. CASE CheckAnyGrant(r)
      <3> DEFINE phase == IF req[r].kind = "switch" THEN "update" ELSE "open"
                 org == IF req[r].kind = "switch" THEN req[r].token.org ELSE WantedOrg(r)
      <3>1. \/ \E outcome : AnswerWith(r, outcome)
            \/ req' = [req EXCEPT ![r].phase = phase, ![r].token.org = org]
        BY <2>5 DEF CheckAnyGrant
      <3> HIDE DEF phase, org
      <3>2. Others(r)
        BY <1>1, <2>1, <2>2, <2>3, <3>1 DEF Others, IsRow
      <3> QED
        BY <3>2, <1>1, QuietGrants, OtherStep, <2>5 DEF TokenStep, CheckAnyGrant, accountVars
    <2> QED
      BY <1>2, <2>4, <2>5
  <1>3. CASE ~(ChooseOrg(r) \/ CheckAnyGrant(r))
    <2>1. /\ req[r].kind \in {"login", "keyname", "switch", "logout"}
          /\ (\E outcome : AnswerWith(r, outcome)) \/ (\E phase : Go(r, phase))
      BY <1>3 DEF CheckPassword, CheckPrior, RevokePrior, RejectSwitch, SwitchOrg, Logout, In
    <2>2. Others(r)
      BY <1>1, <2>1, AnswerOthers DEF RightKinds
    <2> QED
      BY <1>1, <2>2, QuietGrants, OtherStep DEF TokenStep
  <1> QED
    BY <1>2, <1>3

LEMMA SessionOpens ==
    ASSUME IInv, NEW r, OpenSession(r) PROVE Safe
  <1> DEFINE org == req[r].token.org
  <1>1. /\ r \in DOMAIN req /\ req[r].phase = "open" /\ UNCHANGED <<grants, given>>
        /\ (\E outcome : AnswerWith(r, outcome)) \/ (\E phase : Go(r, phase))
        /\ \/ UNCHANGED tokens
           \/ /\ MintAccepted(org, SessionScopes(org), req[r].email)
              /\ InsertToken(org, SessionScopes(org), req[r].email, TRUE)
    BY DEF OpenSession
  <1>2. req[r].kind \notin RightKinds
    BY <1>1, SignInKinds
  <1>3. Others(r)
    BY <1>1, <1>2, AnswerOthers
  <1> HIDE DEF org
  <1>4. TokenStep
    BY <1>1, SessionIsSession DEF TokenStep, MintStep, MintAccepted
  <1> QED
    BY <1>1, <1>3, <1>4, QuietGrants, OtherStep

LEMMA SignInSteps ==
    ASSUME IInv, NEW r, SignInProgress(r) PROVE Safe
  BY IdentitySteps, BootstrapStep, SessionSteps, SessionOpens DEF SignInProgress

-----------------------------------------------------------------------------
(***************************************************************************)
(* Arrivals, losses, expiry and the operator.                              *)
(***************************************************************************)

\* What the row of a new request must hold.
Asked(kind, phase, arg) ==
    /\ kind = "file" => phase = "authorize" /\ arg \in FileAsks
    /\ kind = "mint" => phase = "scope" /\ \E scope \in ScopeAsks : arg = [scopes |-> {scope}]
    /\ kind = "org" => phase = "create" /\ arg.org \in Orgs
    /\ kind = "grant" => phase = "admin" /\ arg \in AdminAsks

LEMMA RowArrives ==
    ASSUME IInv, NEW r, UNCHANGED accountVars,
           DOMAIN req' = DOMAIN req \cup {r}, \A q \in DOMAIN req \ {r} : req'[q] = req[q],
           RowFits(req'[r], given), req'[r].outcome # "ok"
    PROVE  Safe
  <1>1. TokenStep /\ GrantStep /\ given \subseteq given' /\ given' = given
    BY QuietGrants DEF accountVars, TokenStep
  <1>2. RowsInv' /\ NoneAllowed
    BY <1>1, OneMoves DEF IInv, NoneAllowed
  <1> QED
    BY <1>1, <1>2, NoneFollows DEF Safe

LEMMA ArriveStep ==
    ASSUME IInv, NEW r, NEW kind, NEW phase, NEW id \in DOMAIN tokens, NEW arg,
           Arrive(r, kind, phase, id, arg), Asked(kind, phase, arg)
    PROVE  Safe
  <1>1. Fits(tokens[id], given)
    BY DEF IInv, TokenTable
  <1> DEFINE asked == NewRequest(kind, phase, id, tokens[id], arg)
             refused == [NewRequest(kind, "answered", id, tokens[id], arg)
                           EXCEPT !.outcome = "unauthorized"]
  <1>2. /\ IsRow(asked) /\ asked.kind = kind /\ asked.phase = phase /\ asked.token = tokens[id]
        /\ asked.arg = arg /\ asked.email = tokens[id].email /\ asked.lookup = 1
        /\ asked.outcome = "pending"
    BY DEF NewRequest, IsRow
  <1>3. /\ IsRow(refused) /\ refused.kind = kind /\ refused.phase = "answered"
        /\ refused.token = tokens[id] /\ refused.arg = arg /\ refused.email = tokens[id].email
        /\ refused.lookup = 1 /\ refused.outcome = "unauthorized"
    BY DEF NewRequest, IsRow
  <1>4. /\ DOMAIN req' = DOMAIN req \cup {r} /\ \A q \in DOMAIN req \ {r} : req'[q] = req[q]
        /\ req'[r] = asked \/ req'[r] = refused
        /\ UNCHANGED accountVars
    BY DEF Arrive, Put
  <1> HIDE DEF asked, refused
  <1>5. RowFits(asked, given) /\ asked.outcome # "ok"
    BY <1>1, <1>2 DEF RowFits, FileRow, MintRow, OrgRow, GrantRow, Asked
  <1>6. RowFits(refused, given) /\ refused.outcome # "ok"
    BY <1>1, <1>3 DEF RowFits, FileRow, MintRow, OrgRow, GrantRow, Asked, Ended
  <1> QED
    BY <1>4, <1>5, <1>6, RowArrives

LEMMA RequestArrives ==
    ASSUME IInv, NEW r, NEW id \in DOMAIN tokens,
           BeginRequest(r, id) \/ BeginSessionRequest(r, id)
    PROVE  Safe
  <1>1. \E kind, phase, arg : Arrive(r, kind, phase, id, arg) /\ Asked(kind, phase, arg)
    <2>1. CASE \E ask \in FileAsks : Arrive(r, "file", "authorize", id, ask)
      BY <2>1 DEF Asked
    <2>2. CASE \E org \in Orgs : Arrive(r, "org", "create", id, [org |-> org])
      BY <2>2 DEF Asked
    <2>3. CASE \E scope \in ScopeAsks : Arrive(r, "mint", "scope", id, [scopes |-> {scope}])
      BY <2>3 DEF Asked
    <2>4. CASE \E ask \in AdminAsks, kind \in {"grant", "ungrant"} : Arrive(r, kind, "admin", id, ask)
      BY <2>4 DEF Asked
    <2>5. CASE \E ask \in AdminAsks, kind \in {"user", "verify"} :
                  Arrive(r, kind, "admin", id, [email |-> ask.email, org |-> ask.target[1]])
      BY <2>5 DEF Asked
    <2>6. CASE \E target \in DOMAIN tokens : Arrive(r, "revoke", "find", id, [id |-> target])
      BY <2>6 DEF Asked
    <2>7. CASE \/ Arrive(r, "me", "names", id, [org |-> tokens[id].org])
               \/ Arrive(r, "tokens", "rows", id, [org |-> tokens[id].org])
      <3>1. PICK kind, phase : /\ Arrive(r, kind, phase, id, [org |-> tokens[id].org])
                              /\ kind \notin RightKinds
        BY <2>7 DEF RightKinds
      <3>2. Asked(kind, phase, [org |-> tokens[id].org])
        BY <3>1 DEF Asked, RightKinds
      <3> QED
        BY <3>1, <3>2
    <2>8. CASE \E org \in DOMAIN orgs : Arrive(r, "grants", "admin", id, [org |-> org])
      BY <2>8 DEF Asked
    <2>9. CASE BeginSessionRequest(r, id)
      <3>1. PICK kind, phase, arg : Arrive(r, kind, phase, id, arg) /\ kind \notin RightKinds
        <4>1. PICK kind \in {"switch", "logout"}, phase \in {"invalid", "any", "revoke"},
                   org \in Orgs \cup {NoOrg} : Arrive(r, kind, phase, id, [org |-> org])
          BY <2>9 DEF BeginSessionRequest
        <4> QED
          BY <4>1 DEF RightKinds
      <3>2. Asked(kind, phase, arg)
        BY <3>1 DEF Asked, RightKinds
      <3> QED
        BY <3>1, <3>2
    <2> QED
      BY <2>1, <2>2, <2>3, <2>4, <2>5, <2>6, <2>7, <2>8, <2>9 DEF BeginRequest
  <1> QED
    BY <1>1, ArriveStep

LEMMA SignInArrives ==
    ASSUME IInv, NEW r, BeginKeyname(r) \/ BeginLogin(r) PROVE Safe
  <1>1. PICK kind, phase, email, cookie, arg :
           BeginSignIn(r, kind, phase, email, cookie, arg) /\ kind \notin RightKinds
    <2>1. CASE BeginKeyname(r)
      BY <2>1 DEF BeginKeyname, RightKinds
    <2>2. CASE BeginLogin(r)
      <3>1. PICK kind, phase, email, org :
               BeginSignIn(r, kind, phase, email, 0, [org |-> org]) /\ kind \in {"login", "tailscale"}
        BY <2>2 DEF BeginLogin
      <3> QED
        BY <3>1 DEF RightKinds
    <2> QED
      BY <2>1, <2>2
  <1> DEFINE row == NewRequest(kind, phase, cookie, NoToken(email), arg)
  <1>2. IsRow(row) /\ row.kind = kind /\ row.lookup = 1 /\ row.outcome = "pending"
    BY DEF NewRequest, IsRow
  <1>3. /\ DOMAIN req' = DOMAIN req \cup {r} /\ \A q \in DOMAIN req \ {r} : req'[q] = req[q]
        /\ req'[r] = row /\ UNCHANGED accountVars
    BY <1>1 DEF BeginSignIn, Put
  <1> HIDE DEF row
  <1>4. RowFits(row, given)
    BY <1>1, <1>2 DEF RowFits, RightKinds
  <1> QED
    BY <1>2, <1>3, <1>4, RowArrives

LEMMA LossStep ==
    ASSUME IInv, NEW r, LoseRequest(r) PROVE Safe
  <1>1. r \in DOMAIN req /\ Go(r, "lost") /\ UNCHANGED accountVars
    BY DEF LoseRequest
  <1>2. Keeps(r) /\ req'[r].phase = "lost" /\ req'[r].outcome = req[r].outcome
    BY <1>1, GoKeeps DEF IInv
  <1>3. RowFits(req[r], given) /\ given' = given
    BY <1>1 DEF IInv, RowsInv, accountVars
  <1>4. req[r].kind = "mint" => MintRow(req'[r], given)
    BY <1>2, <1>3 DEF RowFits, MintRow, MintAllowed, Keeps, Ended
  <1>5. RowFits(req'[r], given)
    BY <1>2, <1>3, <1>4 DEF RowFits, FileRow, FileAllowed, OrgRow, GrantRow, Keeps, Ended
  <1>6. RowsInv' /\ NoneAllowed
    BY <1>2, <1>3, <1>5, OneMoves DEF Keeps, IInv, NoneAllowed
  <1> QED
    BY <1>1, <1>6, QuietGrants, NoneFollows DEF Safe, accountVars, TokenStep

\* No request moves.
LEMMA QuietRequests ==
    ASSUME IInv, UNCHANGED req, TokenStep, GrantStep PROVE Safe
  <1>1. \A r \in DOMAIN req : RowFits(req[r], given')
    BY GivenStays, GrantsStay DEF IInv, RowsInv
  <1>2. RowsInv' /\ NoneAllowed
    BY <1>1 DEF RowsInv, NoneAllowed
  <1> QED
    BY <1>2, NoneFollows DEF Safe

\* What a pattern is on is a target that covers all the pattern matches.
LEMMA BelowCovers ==
    ASSUME NEW path \in Seq(STRING), NEW org, ValidOrgName(org), ValidScopePath(path, org)
    PROVE  Target(Below(path)) /\ Covers(Below(path), path)
  <1>1. PICK n \in Nat : n = Len(path)
    BY LenProperties
  <1>2. PICK t : t = Below(path)
    OBVIOUS
  <1>3. /\ n >= 2 /\ ValidOrgName(path[1]) /\ DOMAIN path = 1 .. n
        /\ \A i \in 1 .. n - 1 : path[i] # AnyRest
    BY <1>1 DEF ValidScopePath
  <1>4. CASE path[n] = AnyRest
    <2>1. t = SubSeq(path, 1, n - 1)
      BY <1>1, <1>2, <1>4 DEF Below, Front
    <2>2. PICK m \in Nat : m = n - 1
      BY <1>3
    <2>3. t \in Seq(STRING) /\ Len(t) = m /\ \A i \in 1 .. m : t[i] = path[i]
      BY <1>1, <2>1, <2>2
    <2>4. DOMAIN t = 1 .. m
      BY <2>3
    <2> QED
      BY <1>1, <1>2, <1>3, <2>2, <2>3, <2>4 DEF Target, Covers, SegmentMatches
  <1>5. CASE path[n] # AnyRest
    <2>1. t = path
      BY <1>1, <1>2, <1>5 DEF Below
    <2>2. \A i \in 1 .. n : path[i] # AnyRest
      BY <1>3, <1>5
    <2> QED
      BY <1>1, <1>2, <1>3, <2>1, <2>2 DEF Target, Covers, SegmentMatches
  <1> QED
    BY <1>4, <1>5

LEMMA OperatorTokenStep ==
    ASSUME IInv, OperatorToken PROVE Safe
  <1>1. PICK org \in DOMAIN orgs, scope \in ScopeAsks, email \in DOMAIN users \cup {NoUser} :
          /\ MintAccepted(org, {scope}, email)
          /\ InsertToken(org, {scope}, email, FALSE)
          /\ given' = given \cup {<<email, Below(scope.path), scope.access>>}
    BY DEF OperatorToken
  <1>2. UNCHANGED <<req, grants>>
    BY DEF OperatorToken, Operator
  <1>3. /\ scope.path \in Seq(STRING) /\ ValidOrgName(org) /\ ValidScopePath(scope.path, org)
    BY <1>1, NamesAssumption DEF MintAccepted, ScopesAccepted, ValidScopes
  <1>4. PICK target : target = Below(scope.path)
    OBVIOUS
  <1>5. Target(target) /\ Covers(target, scope.path)
    BY <1>3, <1>4, BelowCovers
  <1> DEFINE gift == <<email, target, scope.access>>
  <1>6. gift[1] = email /\ gift[2] = target /\ gift[3] = scope.access /\ given' = given \cup {gift}
    BY <1>1, <1>4
  <1> HIDE DEF gift
  <1>7. AccessAllows(scope.access, scope.access)
    BY DEF AccessAllows
  <1>8. Gave(given', email, scope.path, scope.access)
    BY <1>5, <1>6, <1>7 DEF Gave
  <1>9. MayMint(given', email, scope.path, scope.access)
    BY <1>8, GaveMints
  <1>10. TokenStep
    <2>1. PICK scopes : scopes = {scope}
      OBVIOUS
    <2>2. \A s \in scopes : s.path \in Seq(STRING) /\ MayMint(given', email, s.path, s.access)
      BY <1>3, <1>9, <2>1
    <2>3. MintStep(org, scopes, email, FALSE)
      BY <1>1, <2>1, <2>2 DEF MintStep, MintAccepted
    <2> QED
      BY <2>3 DEF TokenStep
  <1>11. GrantStep
    BY <1>2, <1>5, <1>6 DEF GrantStep
  <1> QED
    BY <1>2, <1>10, <1>11, QuietRequests

LEMMA OperatorSteps ==
    ASSUME IInv, OperatorNext PROVE Safe
  <1>1. CASE OperatorOrg \/ OperatorUser \/ OperatorRevoke
    <2>1. /\ UNCHANGED <<req, grants, given>>
          /\ UNCHANGED tokens \/ \E id : RevokeToken(id)
      BY <1>1 DEF OperatorOrg, OperatorUser, OperatorRevoke, Operator
    <2>2. TokenStep /\ GrantStep
      BY <2>1, QuietGrants DEF TokenStep
    <2> QED
      BY <2>1, <2>2, QuietRequests
  <1>2. CASE OperatorGrant
    <2>1. PICK ask \in AdminAsks :
             \/ Grant(ask.email, ask.target, ask.access)
             \/ RevokeGrant(ask.email, ask.target) /\ UNCHANGED given
      BY <1>2 DEF OperatorGrant
    <2>2. GrantStep
      BY <2>1, NamesAssumption DEF GrantStep, Grant
    <2>3. UNCHANGED <<req, tokens>>
      BY <1>2 DEF OperatorGrant, Operator
    <2> QED
      BY <2>2, <2>3, QuietRequests DEF TokenStep
  <1> QED
    BY <1>1, <1>2, OperatorTokenStep DEF OperatorNext

LEMMA ServingSteps ==
    ASSUME IInv, Serving PROVE Safe
  <1>1. CASE \E r \in RequestIds : Begin(r) \/ Progress(r) \/ LoseRequest(r)
    BY <1>1, RequestArrives, SignInArrives, RequestSteps, SignInSteps, LossStep DEF Begin, Progress
  <1>2. CASE \E id \in DOMAIN tokens : TokenExpires(id) /\ UNCHANGED requestVars
    <2>1. /\ \E id : TokenExpires(id)
          /\ UNCHANGED <<req, grants, given>>
      BY <1>2 DEF TokenExpires, requestVars
    <2> QED
      BY <2>1, QuietGrants, QuietRequests DEF TokenStep
  <1> QED
    BY <1>1, <1>2, OperatorSteps DEF Serving

-----------------------------------------------------------------------------
(***************************************************************************)
(* The migration.                                                          *)
(***************************************************************************)

LEMMA CopyStays ==
    ASSUME CopyInv, given \subseteq given', copy'.rows = copy.rows,
           copy' = [phase |-> copy'.phase, at |-> copy'.at, quiet |-> copy'.quiet, rows |-> copy'.rows]
    PROVE  CopyInv'
  <1>1. /\ TokenTable(copy.rows["tokens"], given')
        /\ \A table \in GrantTables : GrantTable(copy.rows[table], given')
    BY GivenStays DEF CopyInv
  <1> QED
    BY <1>1 DEF CopyInv

\* Only the cut-over changes stores.
LEMMA ServingStore ==
    ASSUME IInv, Serving PROVE backend' = backend
  <1>1. ASSUME NEW r, RequestProgress(r) PROVE backend' = backend
    BY <1>1 DEF RequestProgress, AuthorizeFile, PostOrg, CheckScope, PostToken, FindToken,
                CheckTokenAdmin, DeleteToken, Me, GetTokens, RequireOrgAdmin, PostUser, PostVerify,
                GetGrants, PostGrant, AssertUserOrg, InsertGrant, DeleteGrant, accountVars
  <1>2. ASSUME NEW r, SignInProgress(r) PROVE backend' = backend
    BY <1>2 DEF SignInProgress, Resolve, SelectBySubject, SelectLegacy, SelectByEmail,
                SelectCandidates, ClaimCandidate, LinkByEmail, CheckEmpty, BootstrapUser,
                BootstrapOrganization, CheckPassword, ChooseOrg, CheckAnyGrant, OpenSession,
                CheckPrior, RevokePrior, RejectSwitch, SwitchOrg, Logout, OnlyUsers, accountVars
  <1>3. ASSUME NEW r, Begin(r) \/ LoseRequest(r) PROVE backend' = backend
    BY <1>3 DEF Begin, BeginKeyname, BeginLogin, BeginSignIn, BeginRequest, BeginSessionRequest,
                Arrive, LoseRequest, accountVars
  <1>4. OperatorNext => backend' = backend
    BY DEF OperatorNext, OperatorOrg, OperatorUser, OperatorToken, OperatorRevoke, OperatorGrant,
           Operator
  <1> QED
    BY <1>1, <1>2, <1>3, <1>4 DEF Serving, Progress, TokenExpires

LEMMA ServingBesides ==
    ASSUME IInv, Serving, BesideMigration
    PROVE  IInv' /\ Safe /\ copy'.phase = copy.phase
  <1>1. Safe
    BY ServingSteps
  <1>2. given \subseteq given' /\ GrantsInv'
    BY <1>1, GrantsStay DEF IInv, Safe
  <1>3. TokenTable(tokens, given)' /\ NumbersInv'
    BY <1>1, <1>2, ServingStore, TokensStay DEF IInv, Safe
  <1>4. PICK quiet : copy' = [copy EXCEPT !.quiet = quiet]
    BY DEF BesideMigration
  <1>5. /\ copy' = [phase |-> copy'.phase, at |-> copy'.at, quiet |-> copy'.quiet, rows |-> copy'.rows]
        /\ copy'.rows = copy.rows /\ copy'.phase = copy.phase
    BY <1>4 DEF IInv, CopyInv
  <1>6. CopyInv'
    BY <1>2, <1>5, CopyStays DEF IInv
  <1> QED
    BY <1>1, <1>2, <1>3, <1>5, <1>6 DEF IInv, Safe

\* Nothing but the copy changes.
LEMMA OnlyCopy ==
    ASSUME IInv, UNCHANGED <<accountVars, requestVars>>, CopyInv'
    PROVE  IInv'
  BY DEF IInv, NumbersInv, accountVars, requestVars, GrantsInv, RowsInv

LEMMA BeginMigrationStep ==
    ASSUME IInv, BeginMigration PROVE IInv'
  <1>1. /\ copy' = [phase |-> copy'.phase, at |-> copy'.at, quiet |-> copy'.quiet, rows |-> copy'.rows]
        /\ copy'.rows = copy.rows
    BY DEF BeginMigration, IInv, CopyInv
  <1>2. UNCHANGED <<backend, tokens, grants, given, req>>
    BY DEF BeginMigration, accountVars
  <1>3. CopyInv'
    BY <1>1, <1>2, CopyStays DEF IInv
  <1> QED
    BY <1>2, <1>3 DEF IInv, NumbersInv, GrantsInv, RowsInv

LEMMA OnwardKeeps ==
    ASSUME CopyInv, NEW phase
    PROVE  LET c == Onward(phase) IN
           c = [phase |-> c.phase, at |-> c.at, quiet |-> c.quiet, rows |-> c.rows] /\ c.rows = copy.rows
  <1>1. CASE copy.at < Len(Tables)
    BY <1>1 DEF Onward, CopyInv
  <1>2. CASE ~(copy.at < Len(Tables))
    BY <1>2 DEF Onward, CopyInv
  <1> QED
    BY <1>1, <1>2

LEMMA CopyTableStep ==
    ASSUME IInv, CopyTable PROVE IInv'
  <1>1. PICK table : table = Tables[copy.at]
    OBVIOUS
  <1>2. UNCHANGED <<accountVars, requestVars>>
    BY DEF CopyTable
  <1>3. CopyInv /\ TokenTable(tokens, given) /\ GrantsInv /\ given' = given
    BY <1>2 DEF IInv, accountVars
  <1>4. CASE copy' = [copy EXCEPT !.phase = "failed"]
    <2>1. /\ copy' = [phase |-> copy'.phase, at |-> copy'.at, quiet |-> copy'.quiet, rows |-> copy'.rows]
          /\ copy'.rows = copy.rows
      BY <1>3, <1>4 DEF CopyInv
    <2> QED
      BY <1>2, <1>3, <2>1, CopyStays, OnlyCopy
  <1>5. CASE copy' = [Onward("verifying") EXCEPT !.rows[table] = Rows(table)]
    <2>1. PICK c : c = Onward("verifying")
      OBVIOUS
    <2>2. c = [phase |-> c.phase, at |-> c.at, quiet |-> c.quiet, rows |-> c.rows] /\ c.rows = copy.rows
      BY <1>3, <2>1, OnwardKeeps
    <2>3. PICK new : new = Rows(table)
      OBVIOUS
    <2>4. copy' = [c EXCEPT !.rows = [c.rows EXCEPT ![table] = new]]
      BY <1>5, <2>1, <2>3
    <2>5. /\ copy' = [phase |-> copy'.phase, at |-> copy'.at, quiet |-> copy'.quiet, rows |-> copy'.rows]
          /\ copy'.rows = [copy.rows EXCEPT ![table] = new]
      BY <2>2, <2>4
    <2>6. table = "tokens" => TokenTable(new, given)
      BY <1>3, <2>3 DEF Rows
    <2>7. table \in GrantTables => GrantTable(new, given)
      <3>1. table \in GrantTables => \E n \in Nat : new = GrantRows(n)
        BY <2>3 DEF Rows, GrantTables
      <3>2. \A n \in Nat : GrantTable(GrantRows(n), given)
        BY <1>3 DEF GrantRows, GrantTable, GrantsInv
      <3> QED
        BY <3>1, <3>2
    <2>8. /\ DOMAIN copy'.rows = DOMAIN copy.rows
          /\ \A t \in DOMAIN copy.rows : copy'.rows[t] = IF t = table THEN new ELSE copy.rows[t]
      BY <2>5
    <2>9. TokenTable(copy'.rows["tokens"], given')
      BY <1>3, <2>6, <2>8 DEF CopyInv
    <2>10. \A t \in GrantTables : GrantTable(copy'.rows[t], given')
      BY <1>3, <2>7, <2>8 DEF CopyInv
    <2>11. CopyInv'
      BY <1>3, <2>5, <2>8, <2>9, <2>10 DEF CopyInv
    <2> QED
      BY <1>2, <2>11, OnlyCopy
  <1> QED
    BY <1>1, <1>4, <1>5 DEF CopyTable

LEMMA VerifyTableStep ==
    ASSUME IInv, VerifyTable PROVE IInv'
  <1>1. UNCHANGED <<accountVars, requestVars>> /\ CopyInv
    BY DEF VerifyTable, IInv
  <1>2. copy' = Onward("done") \/ copy' = [copy EXCEPT !.phase = "failed"]
    BY DEF VerifyTable
  <1>3. /\ copy' = [phase |-> copy'.phase, at |-> copy'.at, quiet |-> copy'.quiet, rows |-> copy'.rows]
        /\ copy'.rows = copy.rows
    <2>1. CASE copy' = Onward("done")
      BY <1>1, <2>1, OnwardKeeps
    <2>2. CASE copy' = [copy EXCEPT !.phase = "failed"]
      BY <1>1, <2>2 DEF CopyInv
    <2> QED
      BY <1>2, <2>1, <2>2
  <1>4. given \subseteq given'
    BY <1>1 DEF accountVars
  <1> QED
    BY <1>1, <1>3, <1>4, CopyStays, OnlyCopy

\* PostgreSQL serves what was copied; every request under way is lost.
LEMMA CutOverStep ==
    ASSUME IInv, CutOver PROVE IInv'
  <1> DEFINE granted == {copy.rows["org_memberships"], copy.rows["repo_grants"], copy.rows["runtime_grants"]}
  <1>1. /\ tokens' = copy.rows["tokens"] /\ given' = given /\ copy' = copy
        /\ grants' = [g \in UNION {DOMAIN table : table \in granted} |->
                        (CHOOSE table \in granted : g \in DOMAIN table)[g]]
        /\ req' = [r \in DOMAIN req |-> IF Answered(r) THEN req[r] ELSE [req[r] EXCEPT !.phase = "lost"]]
    BY DEF CutOver
  <1>2. CopyInv /\ TokenTable(tokens', given')
    BY <1>1 DEF IInv, CopyInv
  <1>3. GrantTable(grants', given')
    <2>1. \A table \in granted : GrantTable(table, given)
      BY <1>2 DEF CopyInv, GrantTables
    <2> HIDE DEF granted
    <2>2. ASSUME NEW g \in DOMAIN grants'
          PROVE  <<g[1], g[2], grants'[g]>> \in given
      <3>1. PICK table : table = CHOOSE t \in granted : g \in DOMAIN t
        OBVIOUS
      <3>2. table \in granted /\ g \in DOMAIN table
        BY <1>1, <3>1
      <3>3. grants'[g] = table[g]
        BY <1>1, <3>1
      <3> QED
        BY <2>1, <3>2, <3>3 DEF GrantTable
    <2> QED
      BY <1>1, <2>2 DEF GrantTable
  <1>4. ASSUME NEW r \in DOMAIN req PROVE RowFits(req'[r], given)
    <2>1. RowFits(req[r], given)
      BY DEF IInv, RowsInv
    <2>2. CASE Answered(r)
      BY <1>1, <2>1, <2>2
    <2>3. CASE ~Answered(r)
      <3>1. req'[r] = [req[r] EXCEPT !.phase = "lost"]
        BY <1>1, <2>3
      <3>2. /\ IsRow(req'[r]) /\ req'[r].phase = "lost" /\ req'[r].outcome = req[r].outcome
            /\ req'[r].kind = req[r].kind /\ req'[r].token = req[r].token
            /\ req'[r].arg = req[r].arg /\ req'[r].email = req[r].email
            /\ req'[r].lookup = req[r].lookup
        BY <2>1, <3>1 DEF RowFits, IsRow
      <3>3. req[r].kind = "mint" => MintRow(req'[r], given)
        BY <2>1, <3>2 DEF RowFits, MintRow, Ended
      <3> QED
        BY <2>1, <3>2, <3>3 DEF RowFits, FileRow, FileAllowed, OrgRow, GrantRow, Ended
    <2> QED
      BY <2>2, <2>3
  <1>5. RowsInv'
    BY <1>1, <1>4 DEF RowsInv
  <1>6. GrantsInv'
    BY <1>1, <1>3 DEF IInv, GrantsInv, GrantTable
  <1>7. CopyInv'
    BY <1>1, <1>2 DEF CopyInv
  <1>8. NumbersInv'
    BY DEF CutOver, NumbersInv
  <1> QED
    BY <1>2, <1>5, <1>6, <1>7, <1>8 DEF IInv

-----------------------------------------------------------------------------
(***************************************************************************)
(* The theorems.                                                           *)
(***************************************************************************)

LEMMA InitIInv == Init => IInv
  <1> SUFFICES ASSUME Init PROVE IInv
    OBVIOUS
  <1>1. PICK a \in InitialAccounts :
           grants = a.grants /\ tokens = a.tokens /\ given = a.given
    BY DEF Init, AccountsInit
  <1>2. /\ \E n \in 0 .. MaxTokens : DOMAIN a.tokens = 1 .. n
        /\ \A id \in DOMAIN a.tokens :
              IsToken(a.tokens[id]) /\ ScopesWithin(a.tokens[id]) /\ Fits(a.tokens[id], a.given)
        /\ \A g \in DOMAIN a.grants : <<g[1], g[2], a.grants[g]>> \in a.given
        /\ \A g \in a.given : Target(g[2])
    BY <1>1, InitialAssumption
  <1>3. TokenTable(tokens, given) /\ NumbersInv
    <2>1. PICK n \in 0 .. MaxTokens : DOMAIN tokens = 1 .. n
      BY <1>1, <1>2
    <2>2. n \in Nat /\ IsFiniteSet(1 .. n) /\ Cardinality(1 .. n) = n
      BY AccountsAssumption, FS_Interval
    <2>3. Numbered(tokens, 0) /\ Numbered(tokens, MaxTokens)
      BY <2>1, <2>2, AccountsAssumption DEF Numbered
    <2> QED
      BY <1>1, <1>2, <2>3 DEF TokenTable, NumbersInv
  <1>4. GrantsInv
    BY <1>1, <1>2 DEF GrantsInv, AllTargets
  <1>5. RowsInv
    BY DEF Init, RowsInv
  <1>6. /\ copy = [phase |-> copy.phase, at |-> copy.at, quiet |-> copy.quiet, rows |-> copy.rows]
        /\ DOMAIN copy.rows = {"orgs", "users", "tokens"} \cup GrantTables
        /\ \A table \in DOMAIN copy.rows : copy.rows[table] = <<>>
    BY DEF Init, CopyInit, GrantTables
  <1>7. TokenTable(<<>>, given) /\ GrantTable(<<>>, given)
    BY FS_EmptySet DEF TokenTable, Numbered, GrantTable
  <1>8. CopyInv
    BY <1>6, <1>7 DEF CopyInv
  <1> QED
    BY <1>3, <1>4, <1>5, <1>8 DEF IInv

LEMMA NextIInv == IInv /\ [Next]_vars => IInv'
  <1> SUFFICES ASSUME IInv, [Next]_vars PROVE IInv'
    OBVIOUS
  <1>1. CASE Serving /\ BesideMigration
    BY <1>1, ServingBesides
  <1>2. CASE MigrationNext
    BY <1>2, BeginMigrationStep, CopyTableStep, VerifyTableStep, CutOverStep DEF MigrationNext
  <1>3. CASE UNCHANGED vars
    <2>1. UNCHANGED <<accountVars, requestVars>> /\ CopyInv'
      BY <1>3 DEF vars, accountVars, IInv, CopyInv
    <2> QED
      BY <2>1, OnlyCopy
  <1> QED
    BY <1>1, <1>2, <1>3 DEF Next

LEMMA Inductive == Spec => []IInv
  <1>1. Init => IInv
    BY InitIInv
  <1>2. IInv /\ [Next]_vars => IInv'
    BY NextIInv
  <1> QED
    BY <1>1, <1>2, PTL DEF Spec

\* The scopes of every token stay within its org.
THEOREM ScopesStayWithinOrg == Spec => []ScopesWithinOrg
  <1>1. IInv => ScopesWithinOrg
    BY DEF IInv, TokenTable, ScopesWithinOrg
  <1> QED
    BY <1>1, Inductive, PTL

\* API tokens never add up to more than their owners were given.
THEOREM TokensStayWithinGrants == Spec => []TokensWithinGrants
  <1>1. IInv => TokensWithinGrants
    BY DEF IInv, TokenTable, Fits, TokensWithinGrants
  <1> QED
    BY <1>1, Inductive, PTL

\* No file request is let through for more than its caller was ever given.
THEOREM AccessStaysWithinGrants == Spec => []AccessWithinGrants
  <1>1. IInv => AccessWithinGrants
    BY DEF IInv, RowsInv, RowFits, FileRow, FileAllowed, AccessWithinGrants
  <1> QED
    BY <1>1, Inductive, PTL

\* A session opens no file that the grants of its user do not allow right then.
THEOREM SessionsNeedGrants == Spec => SessionsFollowGrants
  <1>1. IInv /\ [Next]_vars =>
           [\A r \in DOMAIN req :
              /\ req[r].kind = "file" /\ req[r].outcome = "pending" /\ req'[r].outcome = "ok"
              /\ IsSession(req[r].token) /\ ~SessionPath(req[r].arg.path)
              => AuthorizeGrant(req[r].email, req[r].arg.path, req[r].arg.access)]_vars
    <2> SUFFICES ASSUME IInv, Next PROVE FollowsGrants
      BY DEF FollowsGrants
    <2>1. CASE Serving /\ BesideMigration
      BY <2>1, ServingSteps DEF Safe
    <2>2. CASE BeginMigration \/ CopyTable \/ VerifyTable
      BY <2>2 DEF BeginMigration, CopyTable, VerifyTable, requestVars, FollowsGrants
    <2>3. CASE CutOver
      <3>1. ASSUME NEW r \in DOMAIN req PROVE req'[r].outcome = req[r].outcome
        <4>1. IsRow(req[r])
          BY DEF IInv, RowsInv, RowFits
        <4>2. req'[r] = req[r] \/ req'[r] = [req[r] EXCEPT !.phase = "lost"]
          BY <2>3 DEF CutOver
        <4> QED
          BY <4>1, <4>2 DEF IsRow
      <3> QED
        BY <3>1 DEF FollowsGrants
    <2> QED
      BY <2>1, <2>2, <2>3 DEF Next, MigrationNext
  <1> QED
    BY <1>1, Inductive, PTL DEF Spec, SessionsFollowGrants

\* Without a change of stores, a revoked token stays as it was for good.
THEOREM RevokedStaysRevoked ==
    ASSUME "migrate" \notin Kinds PROVE Spec => RevokedIsFinal
  <1> DEFINE NoCopy == copy.phase = "none"
  <1>1. Init => NoCopy
    BY DEF Init, CopyInit
  <1>2. IInv /\ NoCopy /\ Next => Serving /\ BesideMigration
    BY DEF Next, MigrationNext, BeginMigration, CopyTable, VerifyTable, CutOver
  <1>3. IInv /\ NoCopy /\ [Next]_vars => NoCopy'
    <2>1. ASSUME IInv, NoCopy, Next PROVE NoCopy'
      BY <1>2, <2>1, ServingBesides
    <2>2. ASSUME NoCopy, UNCHANGED vars PROVE NoCopy'
      BY <2>2 DEF vars
    <2> QED
      BY <2>1, <2>2
  <1>4. IInv /\ NoCopy /\ [Next]_vars =>
           [\A id \in DOMAIN tokens :
              tokens[id].revoked =>
                  tokens'[id] = [tokens[id] EXCEPT !.expired = tokens'[id].expired]]_vars
    <2> SUFFICES ASSUME IInv, NoCopy, Next, NEW id \in DOMAIN tokens, tokens[id].revoked
                 PROVE  tokens'[id] = [tokens[id] EXCEPT !.expired = tokens'[id].expired]
      OBVIOUS
    <2>1. TokenStep /\ IsToken(tokens[id]) /\ TokenTable(tokens, given) /\ NumbersInv
      BY <1>2, ServingSteps DEF Safe, IInv, TokenTable
    <2>2. CASE tokens'[id] = tokens[id]
      BY <2>1, <2>2 DEF IsToken
    <2>3. ASSUME NEW t, TokenExpires(t) PROVE tokens'[id] = [tokens[id] EXCEPT !.expired = tokens'[id].expired]
      <3>1. CASE t = id
        BY <2>1, <2>3, <3>1 DEF TokenExpires, IsToken
      <3>2. CASE t # id
        BY <2>2, <2>3, <3>2 DEF TokenExpires
      <3> QED
        BY <3>1, <3>2
    <2>4. ASSUME NEW t, RevokeToken(t) \/ \E org : SwitchTokenOrg(t, org) PROVE tokens'[id] = tokens[id]
      BY <2>4 DEF RevokeToken, SwitchTokenOrg
    <2>5. ASSUME NEW org, NEW scopes, NEW email, NEW expires, MintStep(org, scopes, email, expires)
          PROVE  tokens'[id] = tokens[id]
      BY <2>1, <2>5, NewTokenNumber DEF MintStep, InsertToken, Put
    <2> QED
      BY <2>1, <2>2, <2>3, <2>4, <2>5 DEF TokenStep
  <1> HIDE DEF NoCopy
  <1> QED
    BY <1>1, <1>3, <1>4, Inductive, PTL DEF Spec, RevokedIsFinal

=============================================================================
