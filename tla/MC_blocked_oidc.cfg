SPECIFICATION ServiceSpec
CONSTANTS
    c1 = c1
    n1 = n1
    n2 = n2
    i1 = i1
    g1 = g1
    mail = mail
    Absent = Absent
    Callers = {c1}
    Names = {n1, n2}
    Issuers = {i1}
    ConfIssuer = i1
    Groups = {g1}
    Directory <- MCDirectory
    IdFeatures <- MCIdFeatures
    MappingFiles <- MCMappingFiles
    ClaimInputs <- MCClaimInputs
    MailsWithAt = {mail}
    BlockedUsers = {n1}
    ClientIds = {Absent, n1}
    ManagerConfs = {"", "oidc"}
    NewFuncs = {"json", "oidc"}
    Plugins = {}
INVARIANT BlockedNeverAuthenticated
