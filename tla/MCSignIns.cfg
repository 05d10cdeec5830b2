SPECIFICATION FairSpec
CONSTANTS
    Emails = {"alice", "bob", "carol"}
    NoUser = "nobody"
    Subjects = {"s1", "s2", "s3"}
    NoSubject = "unlinked"
    OrgOrder <- MCOrgOrder
    MaxTokens = 4
    MaxExpired = 1
    InitialAccounts <- MCSignIns
    RequestIds = {1, 2}
    Kinds = {"keyname", "login", "tailscale", "switch", "logout"}
    FileAsks <- None
    ScopeAsks <- None
    AdminAsks <- None
    MaxCalls = 2
    Identities <- MCIdentities
    ClaimSingleUser = TRUE
    BootstrapEmails = {"alice", "carol"}
    BootstrapOrg = "acme"
    NoOrg = "none"
CHECK_DEADLOCK FALSE
INVARIANT ScopesWithinOrg
INVARIANT SessionsWithinGrants
INVARIANT OrgsHaveOwners
INVARIANT LogoutEndsSession
PROPERTY SignInKeepsOtherTokens
PROPERTY RevokedIsFinal
PROPERTY LinksAreStable
PROPERTY RequestsAnswered
