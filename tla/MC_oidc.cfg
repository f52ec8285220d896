SPECIFICATION Spec
CONSTANTS
    c1 = c1
    c2 = c2
    n1 = n1
    n2 = n2
    i1 = i1
    i2 = i2
    g1 = g1
    g2 = g2
    mail = mail
    Absent = Absent
    Callers <- MCOneCaller
    Names <- MCNames
    Issuers <- MCIssuers
    ConfIssuer = i1
    Groups <- MCGroups
    Directory <- MCDirectory
    IdFeatures <- MCIdFeatures
    MappingFiles <- MCMappingFiles
    ClaimInputs <- MCClaimInputs
    MailsWithAt = {mail}
INVARIANT TypeOK NoAssertionPanic MappedIdentity
