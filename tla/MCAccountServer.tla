--------------------------- MODULE MCAccountServer ---------------------------
(* Model values and starting points for AccountServer. *)
EXTENDS AccountServer

MCOrgOrder == <<"acme", "beta">>

Row(org, scopes, email, expires) ==
    [org |-> org, scopes |-> scopes, email |-> email,
     expires |-> expires, expired |-> FALSE, revoked |-> FALSE]

WithGiven(a, more) ==
    [backend |-> a.backend, users |-> a.users, orgs |-> a.orgs, grants |-> a.grants,
     tokens |-> a.tokens,
     given |-> {<<g[1], g[2], a.grants[g]>> : g \in DOMAIN a.grants} \cup more]

\* Nobody has signed in yet.
Empty(kind) ==
    WithGiven([backend |-> kind, users |-> <<>>, orgs |-> <<>>, grants |-> <<>>,
               tokens |-> <<>>], {})

\* alice owns acme and may read beta's repo; bob, linked by an early version to
\* his email, owns beta.  alice has a session of acme, bob one of beta.
TwoOrgs(kind) ==
    WithGiven(
      [backend |-> kind,
       users |-> "alice" :> [verified |-> TRUE, subject |-> NoSubject]
              @@ "bob" :> [verified |-> FALSE, subject |-> "bob"],
       orgs |-> "acme" :> "owner" @@ "beta" :> "owner",
       grants |-> <<"alice", <<"acme">>>> :> "admin" @@ <<"bob", <<"beta">>>> :> "admin"
               @@ <<"alice", <<"beta", "repo">>>> :> "read",
       tokens |-> 1 :> Row("acme", SessionScopes("acme"), "alice", TRUE)
               @@ 2 :> Row("beta", SessionScopes("beta"), "bob", TRUE)], {})

\* alice owns acme; bob may read one repo of it and write another, whose name
\* is "_".  alice has a session, bob a session and a token that the operator
\* gave him for the runtime only.
OneTeam(kind) ==
    WithGiven(
      [backend |-> kind,
       users |-> "alice" :> [verified |-> TRUE, subject |-> "s1"]
              @@ "bob" :> [verified |-> TRUE, subject |-> NoSubject],
       orgs |-> "acme" :> "owner" @@ "beta" :> "owner",
       grants |-> <<"alice", <<"acme">>>> :> "admin" @@ <<"bob", <<"acme", "repo">>>> :> "read"
               @@ <<"bob", <<"acme", "_">>>> :> "write"
               @@ <<"bob", <<"beta">>>> :> "admin",
       tokens |-> 1 :> Row("acme", SessionScopes("acme"), "alice", FALSE)
               @@ 2 :> Row("acme", SessionScopes("acme"), "bob", FALSE)
               @@ 3 :> Row("acme", {[path |-> <<"acme", "repo", "rt", "**">>, access |-> "read"]},
                           "bob", FALSE)],
      {<<"bob", <<"acme", "repo", "rt">>, "read">>})

MCSignIns == {Empty(b) : b \in {"sqlite", "postgres"}} \cup {TwoOrgs(b) : b \in {"sqlite", "postgres"}}

MCTeams == {OneTeam(b) : b \in {"sqlite", "postgres"}}

MCIdentities ==
    {[subject |-> "s1", email |-> "alice"], [subject |-> "s2", email |-> "alice"],
     [subject |-> "s2", email |-> "bob"], [subject |-> "s3", email |-> "carol"]}

Ask(email, target, access) == [email |-> email, target |-> target, access |-> access]

MCAdminAsks ==
    {Ask("bob", <<"acme">>, "admin"), Ask("bob", <<"acme", "repo">>, "write"),
     Ask("bob", <<"acme", "repo", "rt">>, "read"), Ask("carol", <<"acme", "repo">>, "admin"),
     Ask("alice", <<"beta", "repo">>, "write"), Ask("alice", <<"acme">>, "admin")}

Asks(path, access) == [path |-> path, access |-> access]

MCFileAsks ==
    {Asks(<<"acme", "repo", "rt", "f">>, "read"), Asks(<<"acme", "repo", "rt", "f">>, "write"),
     Asks(<<"acme", "_session">>, "read"), Asks(<<"acme">>, "read"),
     Asks(<<"beta", "repo", "rt", "f">>, "read")}

MCScopeAsks ==
    {Asks(<<"acme", "**">>, "write"), Asks(<<"acme", "repo", "**">>, "read"),
     Asks(<<"acme", "repo", "rt", "*">>, "read"), Asks(<<"acme", "*", "rt", "**">>, "write"),
     Asks(<<"acme", "_session">>, "read"), Asks(<<"beta", "repo", "**">>, "read")}

None == {}

MCMoreOrgs == <<"acme", "beta", "gamma">>

=============================================================================
