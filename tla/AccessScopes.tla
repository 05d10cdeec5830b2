---------------------------- MODULE AccessScopes ----------------------------
(***************************************************************************)
(* Paths, token scopes and access levels (shared/src/path.ts, scope.ts and *)
(* the access comparison of grants.ts).  A path is the sequence of its     *)
(* segments: org, repo, runtime and file; a scope is a path pattern with   *)
(* one access.  The characters of a segment are abstracted: but for the    *)
(* wildcards, every segment of the model is one that SEGMENT_RE accepts.   *)
(***************************************************************************)
EXTENDS Naturals, Sequences, SequencesExt

Access == {"read", "write"}

GrantAccess == Access \cup {"admin"}

\* In a pattern, "*" stands for one segment, "**" for one or more.
AnySegment == "*"
AnyRest == "**"

\* A name that stands for any other when a scope is probed, and one that stands
\* for a session.
AnyName == "_"
SessionName == "_session"

\* SEGMENT_RE takes AnyName for a name like any other; ORG_RE, which wants a
\* letter first, does not.
ValidOrgName(name) == name \notin {AnySegment, AnyRest, AnyName}

\* A path the code accepts has an org, at least one more segment, and no
\* wildcard.
NormalizedPath(path) ==
    /\ Len(path) >= 2
    /\ ValidOrgName(path[1])
    /\ \A i \in 1 .. Len(path) : path[i] \notin {AnySegment, AnyRest}

Org(path) == path[1]

SegmentMatches(pattern, segment) == pattern \in {AnySegment, segment}

\* A bug to catch: the access of the scope is not compared.
ScopeMatchesAnyAccess(scope, path, access) ==
    LET n == Len(scope.path) IN
    /\ Len(path) >= n
    /\ \A i \in 1 .. n : scope.path[i] = AnyRest \/ SegmentMatches(scope.path[i], path[i])

\* "**" comes last and stands for one segment or more; without it the lengths
\* agree.  Write does not imply read.
ScopeMatches(scope, path, access) ==
    LET n == Len(scope.path)
        deep == scope.path[n] = AnyRest
    IN  /\ scope.access = access
        /\ IF deep THEN Len(path) >= n ELSE Len(path) = n
        /\ \A i \in 1 .. (IF deep THEN n - 1 ELSE n) :
                SegmentMatches(scope.path[i], path[i])

Authorize(scopes, path, access) ==
    \E scope \in scopes : ScopeMatches(scope, path, access)

ValidScopePath(path, org) ==
    /\ Len(path) >= 2
    /\ path[1] = org
    /\ \A i \in 1 .. Len(path) - 1 : path[i] # AnyRest

ValidScopes(scopes, org) ==
    /\ scopes # {}
    /\ \A scope \in scopes : scope.access \in Access /\ ValidScopePath(scope.path, org)

\* A session's only scope names a file that does not exist: what a session may
\* do is decided by the grants of its user.
SessionScopes(org) == {[path |-> <<org, SessionName>>, access |-> "read"]}

\* A grant on "admin" gives everything, on "write" also reading.
AccessAllows(grant, request) ==
    \/ grant = "admin"
    \/ grant = request
    \/ grant = "write" /\ request = "read"

\* What a scope is on: "p/**" is on all that is below p.
Below(path) == IF path[Len(path)] = AnyRest THEN Front(path) ELSE path

\* The path whose grants decide on a scope: "p/**" asks for "p/_".
Probe(path) ==
    IF path[Len(path)] = AnyRest THEN Append(Front(path), AnyName) ELSE path

=============================================================================
