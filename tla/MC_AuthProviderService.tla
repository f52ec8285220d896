----------------------- MODULE MC_AuthProviderService -----------------------
EXTENDS AuthProviderService

CONSTANTS c1, n1, n2, i1, g1, mail

MCDirectory == n1 :> [id |-> n1, idp |-> i1, uid |-> 7, gid |-> 7]
MCMappingFiles == {<<>>}

MCIdFeatures == (n1 :> {}) @@ (n2 :> {})

\* Tokens of either subject, with or without uid and gid.
MCClaimInputs ==
    [sub : {n1, n2}, iss : {Absent}, email : {mail},
     emailVerified : {Absent}, preferredUsername : {Absent}, name : {Absent},
     uid : {Nil, Float(5)}, gid : {Float(5)}, groups : {Absent}]
=============================================================================
