-------------------------- MODULE AccountMigration --------------------------
(***************************************************************************)
(* scripts/workflow/migrate-sqlite-to-postgres.ts over the account tables: *)
(* it reads them from the SQLite file one after another, inserts their     *)
(* rows into PostgreSQL in one transaction, and counts both sides table by *)
(* table when that has committed.  Nothing stops the server meanwhile.     *)
(* The operator then starts the server on PostgreSQL, unless the script    *)
(* failed.                                                                 *)
(*                                                                         *)
(* The script's other tables (services, versions, webhooks, the audit log) *)
(* take the same way and are not the accounts' part.                       *)
(***************************************************************************)
EXTENDS SignInRequests

VARIABLE copy   \* the script: its phase, the table it is at, the rows inserted,
                \* and whether no account changed since it began (auxiliary)

\* A bug to catch: a table is left out of the list, as public_files is.
TablesButOne == <<"orgs", "users", "tokens", "org_memberships", "repo_grants">>

\* In this order every row follows the rows it refers to.
Tables == <<"orgs", "users", "tokens", "org_memberships", "repo_grants", "runtime_grants">>

GrantRows(n) ==
    LET rows == {g \in DOMAIN grants : Len(g[2]) = n} IN [g \in rows |-> grants[g]]

Rows(table) ==
    CASE table = "orgs" -> orgs
      [] table = "users" -> users
      [] table = "tokens" -> tokens
      [] table = "org_memberships" -> GrantRows(1)
      [] table = "repo_grants" -> GrantRows(2)
      [] table = "runtime_grants" -> GrantRows(3)

CopyInit ==
    copy = [phase |-> "none", at |-> 1, quiet |-> TRUE,
            rows |-> [table \in {"orgs", "users", "tokens", "org_memberships",
                                 "repo_grants", "runtime_grants"} |-> <<>>]]

\* The REFERENCES of the PostgreSQL tables.
Refers(table, rows) ==
    CASE table = "tokens" ->
            \A id \in DOMAIN rows : /\ rows[id].org \in DOMAIN copy.rows["orgs"]
                                    /\ rows[id].email \in DOMAIN copy.rows["users"] \cup {NoUser}
      [] table \in {"org_memberships", "repo_grants", "runtime_grants"} ->
            \A g \in DOMAIN rows : /\ g[1] \in DOMAIN copy.rows["users"]
                                   /\ g[2][1] \in DOMAIN copy.rows["orgs"]
      [] OTHER -> TRUE

\* The script goes on to its next table, and after the last one to a phase.
Onward(phase) ==
    IF copy.at < Len(Tables) THEN [copy EXCEPT !.at = @ + 1]
    ELSE [copy EXCEPT !.at = 1, !.phase = phase]

\* The tables are made, and found empty: no server has used them yet.
BeginMigration ==
    /\ "migrate" \in Kinds
    /\ copy.phase = "none" /\ backend = "sqlite"
    /\ MoreCalls /\ ops' = ops + 1
    /\ copy' = [copy EXCEPT !.phase = "copying"]
    /\ UNCHANGED <<accountVars, req>>

\* One table, as it is now.  A row whose references are missing rolls
\* everything back; the last table commits.
CopyTable ==
    LET table == Tables[copy.at] IN
    /\ copy.phase = "copying"
    /\ copy' = IF Refers(table, Rows(table))
               THEN [Onward("verifying") EXCEPT !.rows[table] = Rows(table)]
               ELSE [copy EXCEPT !.phase = "failed"]
    /\ UNCHANGED <<accountVars, requestVars>>

\* The rows of one table are counted; nothing is undone when they differ.
VerifyTable ==
    LET table == Tables[copy.at] IN
    /\ copy.phase = "verifying"
    /\ copy' = IF Cardinality(DOMAIN Rows(table)) = Cardinality(DOMAIN copy.rows[table])
               THEN Onward("done")
               ELSE [copy EXCEPT !.phase = "failed"]
    /\ UNCHANGED <<accountVars, requestVars>>

\* The server is stopped and started on PostgreSQL.
CutOver ==
    LET rows == copy.rows
        granted == {rows["org_memberships"], rows["repo_grants"], rows["runtime_grants"]}
    IN  /\ copy.phase = "done" /\ backend = "sqlite"
        /\ backend' = "postgres"
        /\ users' = rows["users"] /\ orgs' = rows["orgs"] /\ tokens' = rows["tokens"]
        /\ grants' = [g \in UNION {DOMAIN table : table \in granted} |->
                        (CHOOSE table \in granted : g \in DOMAIN table)[g]]
        /\ req' = [r \in DOMAIN req |->
                     IF Answered(r) THEN req[r] ELSE [req[r] EXCEPT !.phase = "lost"]]
        /\ UNCHANGED <<given, ops, copy>>

MigrationNext == BeginMigration \/ CopyTable \/ VerifyTable \/ CutOver

\* Every other step of the server, while the script is at work or not.
BesideMigration ==
    copy' = [copy EXCEPT !.quiet = @ /\ (copy.phase = "none" \/ UNCHANGED accountVars)]

=============================================================================
