\* Parts that never run together share their model values.
CONSTANTS
    Tokens = {a1, a2, a3}
    Refreshers = {b1, b2}
    Admins = {b1, b2}
    Rows = {c1, c2}
    MaxTime = 1
    Users = {u1, u2}
    Founder = u1
    Invites = {c1, c2}
    Requests = {b1, b2}
    Scopes = {c1, c2}
    RoleOf <- OneRoleOf
    Unscoped = {c1}
    Editors = {b1, b2}
    MaxPolicies = 3
    Deliveries = {b1, b2}
    MaxEvents = 2
    SYNC_EXPORT_ROW_LIMIT = 1
    Clients = {b1, b2}
    MaxLost = 2
    Pendings = {c1, c2}
    Sweeps = {b1, b2}
    MaxUnnoted = 1
    Logins = {b1, b2}
    LOCKOUT_THRESHOLD = 2
    MaxFailures = 5
    SignIns = {a1, a2, a3}
    Secrets = {c1, c2}
    Runs = {1, 2, 3}
    Orgs = {o1, o2, o3}
    Templates = {"founder", "viewer"}
    Fixtures = {"founder"}
    Safes = {c1, c2}
    OrgOf <- Org
    Forms = {f1}
    Connects = {b1, b2}
    Challenges = {h1}
    MaxAttempts = 2
    Tabs = {"pending", "fulfilled"}
    Inbox = {c1, c2}
    Fetches = {b1}
    Decides = {b1, b2}
    Events = {1, 2, 3}
    EventType <- AuditedTypes
    Filters <- AuditFilters
    Loads = {b1, b2}
    PageLimit = 1
    MaxItems = 2
    BrowserTabs = {b1, b2}
    AccessTokens = {a1, a2, a3}
    UserOf <- TokenUsers
    NoToken = "none"
    Polls = {b1, b2}
    Proposals = {c1, c2}
    MaxProposed = 2
    Moments = {0, 1, 2}
SPECIFICATION Spec
CHECK_DEADLOCK FALSE
INVARIANTS
    ServicesTypeOK
    TokenWorksOnce
    EscapeBounded
    OverlapBounded
    SessionsEndWithAccess
    AcceptedOnce
    
    
    
    RepeatsBounded
    RemindedOnceInOrder
    LockoutHolds
    
    OneCompleteOrg
    WalletsConnectInOrder
    AckedDecisionStands
    PagesCoverLog
    ActsAsShown
    
PROPERTIES
    EndedStaysEnded
