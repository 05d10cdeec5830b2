SPECIFICATION FairSpec
CONSTANTS
    AddressBits = 2
    NoService = "none"
    LocalOrgs = {"acme"}
    NoOrg = "-"
    Events = {"put", "deny", "warning", "webhook", "auth_fail"}
    RequestIds = {1, 2, 3}
    Tokens <- MCTokens
    NoUser = "nobody"
    Places <- MCPlaces
    SourceSets <- MCSourceSets
    Admins <- MCAdmins
    EventSets <- MCEventSets
    Patches <- MCPatches
    Actions = {"put"}
    Routes = {"serve", "create", "patch", "delete", "list", "deliveries", "log"}
    ServiceRoutes = {"serve", "log"}
    MaxOutside = 1
CHECK_DEADLOCK FALSE
INVARIANT NothingAcrossOrgs
INVARIANT WarningsAreTrue
INVARIANT DeletedLeavesNothing
PROPERTY DeliveriesSettle
