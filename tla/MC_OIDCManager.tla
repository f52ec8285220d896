--------------------------- MODULE MC_OIDCManager ---------------------------
EXTENDS OIDCManager

CONSTANTS c1, c2, n1, n2, i1, i2, g1, g2, mail

MCCallers == {c1, c2}
MCOneCaller == {c1}
MCNames == {n1, n2}
MCIssuers == {i1, i2}
MCGroups == {g1, g2}

\* n1 is known to the gateway; n2 is not (GetUserByClaim answers NOT_FOUND).
MCDirectory == n1 :> [id |-> n1, idp |-> i1, uid |-> 7, gid |-> 7]

\* n2 is a guest id ("guest..."), n1 a primary one.
MCIdFeatures == (n1 :> {}) @@ (n2 :> {"guestPrefix"})

\* No mapping file; a file mapping g1 of i1 and g2 of i2 to n1; and a file
\* that maps g1 twice, which Configure refuses.
MCMappingFiles ==
    { <<>>,
      << [iss |-> i1, group |-> g1, username |-> n1],
         [iss |-> i2, group |-> g2, username |-> n1] >>,
      << [iss |-> i1, group |-> g1, username |-> n1],
         [iss |-> i2, group |-> g1, username |-> n2] >> }

\* Userinfo claims: any subject, issuer present or not, email present or
\* not, uid and gid absent, 0 or non-zero, and group claims.
MCClaimInputs ==
    [sub : MCNames, iss : {Absent, i2}, email : {Absent, mail},
     emailVerified : {Absent}, preferredUsername : {Absent}, name : {Absent},
     uid : {Nil, Float(0), Float(5)}, gid : {Nil, Float(5)},
     groups : {Absent, {g1}, {g2}, {g1, g2}}]

\* One token shape, for the provider race.
MCOneClaim ==
    {[sub |-> n1, iss |-> Absent, email |-> mail, emailVerified |-> Absent,
      preferredUsername |-> Absent, name |-> Absent, uid |-> Float(5),
      gid |-> Float(5), groups |-> Absent]}

MCSymmetry == Permutations(MCCallers)
=============================================================================
