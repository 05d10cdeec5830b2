SPECIFICATION Spec
CONSTANTS
    Emails = {"alice", "bob", "carol"}
    NoUser = "nobody"
    Subjects = {"s1", "s2", "s3"}
    NoSubject = "unlinked"
    OrgOrder <- MCMoreOrgs
    MaxTokens = 6
    MaxExpired = 1
    InitialAccounts <- MCTeams
    RequestIds = {1, 2}
    Kinds = {"file", "org", "mint", "revoke", "user", "verify", "grant", "ungrant", "grants", "me", "tokens",
             "switch", "migrate"}
    FileAsks <- MCFileAsks
    ScopeAsks <- MCScopeAsks
    AdminAsks <- MCAdminAsks
    MaxCalls = 2
    Identities <- MCIdentities
    ClaimSingleUser = TRUE
    BootstrapEmails = {"alice", "carol"}
    BootstrapOrg = "acme"
    NoOrg = "none"
CHECK_DEADLOCK FALSE
INVARIANT TypeOK
INVARIANT TokensWithinGrants
INVARIANT AccessWithinGrants
INVARIANT OthersOnlyByAdmins
PROPERTY SessionsFollowGrants
PROPERTY CutOverKeepsAccounts
