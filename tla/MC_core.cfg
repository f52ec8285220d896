SPECIFICATION Spec
CONSTANTS
    alice = alice  bob = bob  projacct = projacct
    home = home  proj = proj  p1 = p1  pw1 = pw1
    t1 = t1  t2 = t2  t3 = t3  None = None
    projacct2 = projacct2  proj2 = proj2  p2 = p2
    Users = {alice}
    InternalFlags = {FALSE}
    Refs <- MCTokenRefs
    UpdateTypes = {"expiration", "password"}
    Owners = {alice, bob, projacct}
    Workers = {w1, w2}
    Resources = {home}
    Projects = {p1}
    Passwords = {pw1}
    ResOwner <- MCResOwner
    ProjectOf <- MCProjectOf
    ProjectAdmins <- MCProjectAdmins
    TokenFor <- MCTokenFor
    ForeignRows <- MCForeignRows
    ListFilterSets <- MCNoFilters
    ExpInputs = {12}
    SigTTL = 6
    MaxId = 3
    MaxSalt = 2
    MaxRequests = 5
    StartTime = 6
    Step = 6
    MaxTime = 18
    EnableExpiredSharesCleanup = TRUE
INVARIANT TypeOK
SYMMETRY MCSymmetry
