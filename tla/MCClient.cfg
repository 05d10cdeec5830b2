SPECIFICATION FairSpec
CONSTANTS
    Unset = Unset
    Empty = Empty
    BadOrgs <- MCBadOrgs
    BadNames <- MCBadNames
    Runtimes = {"dev", "prod"}
    Dirs = {"w", "o"}
    Contents = {"x", "y"}
    EditPaths <- MCEditPaths
    RemoteTrees <- MCRemoteTrees
    Workspaces <- MCWorkspaces
    DetailsText = DetailsText
    None = None
CHECK_DEADLOCK FALSE
INVARIANT PullCopiesHead
INVARIANT PushFollowsRules
INVARIANT PullThenPushUnchanged
INVARIANT SourcesAreTrue
INVARIANT InitIsRemembered
PROPERTY CommandsEnd
