SPECIFICATION Spec
CONSTANTS
    alice = alice  bob = bob  projacct = projacct
    home = home  proj = proj  p1 = p1  pw1 = pw1
    t1 = t1  t2 = t2  t3 = t3  None = None
    projacct2 = projacct2  proj2 = proj2  p2 = p2
    Users = {alice, bob}
    InternalFlags = {FALSE}
    Refs <- MCTokenRefs
    UpdateTypes = {"expiration"}
    Owners = {alice, bob, projacct, projacct2}
    Workers = {w1}
    Resources = {proj, proj2}
    Projects = {p1, p2}
    Passwords = {pw1}
    ResOwner <- MCResOwnerTwoProjects
    ProjectOf <- MCProjectOfTwoProjects
    ProjectAdmins <- MCProjectAdminsTwoProjects
    TokenFor <- MCTokenFor
    ForeignRows <- MCForeignRows
    ListFilterSets <- MCTwoProjectFilters
    ExpInputs = {12}
    SigTTL = 6
    MaxId = 3
    MaxSalt = 1
    MaxRequests = 3
    StartTime = 6
    Step = 6
    MaxTime = 12
    EnableExpiredSharesCleanup = TRUE
PROPERTY ListAuthorized
