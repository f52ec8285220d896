---------------------------- MODULE OIDCManager ----------------------------
(***************************************************************************)
(* The OIDC auth manager (src/pkg/auth/manager/oidc/oidc.go).              *)
(*                                                                         *)
(* Configure builds the group -> user mapping once.  Authenticate, run by  *)
(* many gRPC goroutines at once, first obtains the cached am.provider      *)
(* (getOIDCProvider reads it, and on nil calls oidc.NewProvider and writes *)
(* it, with no lock), then fetches the userinfo claims, fills defaults,    *)
(* lets resolveUser override the identity through the gateway, and builds *)
(* the user with Go type assertions on the claims map.                     *)
(*                                                                         *)
(* A claim value keeps the Go dynamic type the assertions test: numbers    *)
(* decoded from JSON are float64, resolveUser stores int64.  Strings are   *)
(* model values; an id string is described by the features getUserType    *)
(* reads (IdFeatures).                                                     *)
(***************************************************************************)
EXTENDS Naturals, FiniteSets, Sequences, Functions, TLC

CONSTANTS
    Callers,      \* goroutines calling Authenticate
    Names,        \* subjects, usernames and opaque ids
    Issuers,      \* issuer URLs
    ConfIssuer,   \* am.c.Issuer
    Groups,       \* group names of the group claim
    Directory,    \* gateway users by username: [id, idp, uid, gid]
    IdFeatures,   \* Names -> SUBSET {"guestPrefix", "at"}
    MappingFiles, \* users-mapping files: sequences of entries
    ClaimInputs,  \* userinfo claim maps the provider may return
    MailsWithAt,  \* email claim values containing "@"
    Absent        \* a claim missing from the map (nil)

Entry == [iss : Issuers, group : Groups, username : Names]

\* A number claim: its Go type and value.
Nil == [t |-> "nil", v |-> 0]
Float(n) == [t |-> "float", v |-> n]
Int64(n) == [t |-> "int64", v |-> n]

(***************************************************************************)
(* Configure                                                               *)
(***************************************************************************)
\* The loop over the file's entries fails on a group met a second time.
DuplicateGroup(es) ==
    \E i, j \in DOMAIN es : i < j /\ es[i].group = es[j].group

\* Otherwise it keys every entry by its group.
BuildMapping(es) ==
    [g \in {es[i].group : i \in DOMAIN es} |->
        es[CHOOSE i \in DOMAIN es : es[i].group = g]]

\* Configure: {the mapping}, or {} when it returns an error.
Configure(es) == IF DuplicateGroup(es) THEN {} ELSE {BuildMapping(es)}

(***************************************************************************)
(* Claims                                                                  *)
(***************************************************************************)
\* Mutant: preferred_username falls back to the email before the id claim.
WithDefaultsEmailFirst(cl) ==
    [cl EXCEPT !.iss = IF @ = Absent THEN ConfIssuer ELSE @,
               !.emailVerified = IF @ = Absent THEN FALSE ELSE @,
               !.preferredUsername =
                   IF @ # Absent THEN @ ELSE IF cl.email # Absent THEN cl.email ELSE cl.sub,
               !.name = IF @ # Absent THEN @ ELSE cl.sub]

\* Authenticate's defaults for claims the provider left out (IDClaim is sub).
WithDefaults(cl) ==
    [cl EXCEPT !.iss = IF @ = Absent THEN ConfIssuer ELSE @,
               !.emailVerified = IF @ = Absent THEN FALSE ELSE @,
               !.preferredUsername =
                   IF @ # Absent THEN @ ELSE IF cl.sub # Absent THEN cl.sub ELSE cl.email,
               !.name = IF @ # Absent THEN @ ELSE cl.sub]

\* getUserID: a float64 claim truncated, anything else 0.
GetUserID(x) == IF x.t = "float" THEN x.v ELSE 0

GroupsOf(cl) == IF cl.groups = Absent THEN {} ELSE cl.groups

\* The end of resolveUser ({claims}, or {} for an error), given the claims after the uid/gid store and
\* the mapped groups of the token: with a mapping, the one group the token
\* shares with the entries of its issuer names the user; without one, the
\* subject is looked up when uid or gid is 0.  A lookup (GetUserByClaim
\* "username") that fails, or answers not OK, is an error; otherwise the
\* directory user's identity overrides the claims.
ResolveFrom(mapping, c1, uid, gid, own, gwOk) ==
    LET mapped == DOMAIN mapping # {}
        resolve == mapped \/ uid = 0 \/ gid = 0
        value == IF mapped THEN mapping[CHOOSE g \in own : TRUE].username ELSE c1.sub
    IN  CASE mapped /\ c1.groups = Absent -> {}
          [] mapped /\ Cardinality(own) # 1 -> {}
          [] ~resolve -> {c1}
          [] ~gwOk \/ value \notin DOMAIN Directory -> {}
          [] OTHER -> {[c1 EXCEPT !.preferredUsername = value,
                                 !.sub = Directory[value].id,
                                 !.iss = Directory[value].idp,
                                 !.uid = Int64(Directory[value].uid),
                                 !.gid = Int64(Directory[value].gid)]}

\* Mutant: the int64 uid/gid are not written back to the claims.
ResolveUserKeepFloat(mapping, cl, gwOk) ==
    LET own == {g \in GroupsOf(cl) \cap DOMAIN mapping : mapping[g].iss = cl.iss}
    IN  ResolveFrom(mapping, cl, GetUserID(cl.uid), GetUserID(cl.gid), own, gwOk)

\* Mutant: the mapping entries are not filtered by the token's issuer.
ResolveUserAnyIssuer(mapping, cl, gwOk) ==
    LET uid == GetUserID(cl.uid)
        gid == GetUserID(cl.gid)
        c1 == IF uid # 0 /\ gid # 0
              THEN [cl EXCEPT !.uid = Int64(uid), !.gid = Int64(gid)] ELSE cl
    IN  ResolveFrom(mapping, c1, uid, gid, GroupsOf(c1) \cap DOMAIN mapping, gwOk)

\* resolveUser: {the claims it leaves}, or {} for an error.  Non-zero uid and gid
\* are stored back as int64; the mapping entries are those of the token's
\* issuer.
ResolveUser(mapping, cl, gwOk) ==
    LET uid == GetUserID(cl.uid)
        gid == GetUserID(cl.gid)
        c1 == IF uid # 0 /\ gid # 0
              THEN [cl EXCEPT !.uid = Int64(uid), !.gid = Int64(gid)] ELSE cl
        own == {g \in GroupsOf(c1) \cap DOMAIN mapping : mapping[g].iss = c1.iss}
    IN  ResolveFrom(mapping, c1, uid, gid, own, gwOk)

\* Results of a call.
NoResult == [kind |-> "none"]
Failed == [kind |-> "error"]
Panicked == [kind |-> "panic"]

\* getUserType
GetUserType(upn) ==
    IF "guestPrefix" \in IdFeatures[upn] THEN "LIGHTWEIGHT"
    ELSE IF "at" \in IdFeatures[upn] THEN "FEDERATED"
    ELSE "PRIMARY"

\* The type assertions building user.User: the uid and gid claims must be
\* int64, email_verified a bool (the id, iss and string claims always are).
AssertionsHold(r) ==
    /\ r.uid.t = "int64" /\ r.gid.t = "int64"
    /\ r.emailVerified \in BOOLEAN

\* Authenticate after getOIDCProvider: the result of one call given the
\* claims and whether UserInfo, the gateway lookup and GetUserGroups succeed.
\* A lightweight or federated user's display name takes the part of the
\* mail after "@" (strings.Split(...)[1]), which panics when there is none.
AuthResult(mapping, cl, uiOk, gwOk, grpOk) ==
    LET d == WithDefaults(cl)
        rs == ResolveUser(mapping, d, gwOk)
        r == CHOOSE x \in rs : TRUE
    IN  CASE ~uiOk -> Failed
          [] d.name = Absent \/ d.email = Absent -> Failed
          [] rs = {} -> Failed
          [] ~grpOk -> Failed
          [] ~AssertionsHold(r) -> Panicked
          [] GetUserType(r.sub) # "PRIMARY" /\ r.email \notin MailsWithAt -> Panicked
          [] OTHER -> [kind |-> "user", id |-> r.sub, idp |-> r.iss, username |-> r.preferredUsername,
                       uid |-> r.uid.v, gid |-> r.gid.v, type |-> GetUserType(r.sub)]

(***************************************************************************)
(* State and actions                                                       *)
(***************************************************************************)
VARIABLES
    mapping,   \* am.oidcUsersMapping
    provider,  \* am.provider: 0 for nil, else the provider's number
    built,     \* providers oidc.NewProvider has returned
    handed,    \* providers getOIDCProvider has returned
    pc,        \* [Callers -> {"idle", "newprovider", "userinfo"}]
    tok,       \* claims of each caller's last token
    ret        \* result of each caller's last call

vars == <<mapping, provider, built, handed, pc, tok, ret>>

\* getOIDCProvider reads am.provider: non-nil is returned at once.
ProviderCheck(c) ==
    /\ pc[c] = "idle"
    /\ IF provider # 0
       THEN /\ pc' = [pc EXCEPT ![c] = "userinfo"]
            /\ handed' = handed \cup {provider}
       ELSE /\ pc' = [pc EXCEPT ![c] = "newprovider"]
            /\ UNCHANGED handed
    /\ UNCHANGED <<mapping, provider, built, tok, ret>>

\* oidc.NewProvider returns; on success am.provider is overwritten.
ProviderCreate(c) ==
    /\ pc[c] = "newprovider"
    /\ \/ /\ provider' = built + 1
          /\ built' = built + 1
          /\ handed' = handed \cup {built + 1}
          /\ pc' = [pc EXCEPT ![c] = "userinfo"]
          /\ UNCHANGED ret
       \/ /\ pc' = [pc EXCEPT ![c] = "idle"]
          /\ ret' = [ret EXCEPT ![c] = Failed]
          /\ UNCHANGED <<provider, built, handed>>
    /\ UNCHANGED <<mapping, tok>>

\* The rest of Authenticate: it reads only the configuration and asks the
\* provider and the gateway, so it is one step.
AuthFinish(c) ==
    /\ pc[c] = "userinfo"
    /\ \E cl \in ClaimInputs, uiOk, gwOk, grpOk \in BOOLEAN :
         /\ tok' = [tok EXCEPT ![c] = cl]
         /\ ret' = [ret EXCEPT ![c] = AuthResult(mapping, cl, uiOk, gwOk, grpOk)]
    /\ pc' = [pc EXCEPT ![c] = "idle"]
    /\ UNCHANGED <<mapping, provider, built, handed>>

\* New: a manager exists only when Configure succeeded.
Init ==
    /\ mapping \in UNION {Configure(es) : es \in MappingFiles}
    /\ provider = 0
    /\ built = 0
    /\ handed = {}
    /\ pc = [c \in Callers |-> "idle"]
    /\ tok = [c \in Callers |-> Absent]
    /\ ret = [c \in Callers |-> NoResult]

Next ==
    \E c \in Callers :
        \/ ProviderCheck(c)
        \/ ProviderCreate(c)
        \/ AuthFinish(c)

Spec == Init /\ [][Next]_vars

(***************************************************************************)
(* Properties                                                              *)
(***************************************************************************)
IsUser(x) == x.kind = "user"

TypeOK ==
    /\ mapping \in UNION {[G -> Entry] : G \in SUBSET Groups}
    /\ provider \in 0..Cardinality(Callers)
    /\ built \in 0..Cardinality(Callers)
    /\ handed \subseteq 1..built
    /\ pc \in [Callers -> {"idle", "newprovider", "userinfo"}]
    /\ tok \in [Callers -> ClaimInputs \cup {Absent}]
    /\ \A c \in Callers :
         ret[c] \in {NoResult, Failed, Panicked} \/ (IsUser(ret[c]) /\ ret[c].id \in Names /\ ret[c].username \in Names)

\* Whatever claims a standard provider returns (uid and gid as JSON numbers,
\* present or not, zero or not), Authenticate never panics on its type
\* assertions: every path through resolveUser leaves int64 uid and gid.
NoAssertionPanic == \A c \in Callers : ret[c] # Panicked

\* With a users mapping, a token logs in only as the directory user of the
\* one mapping entry whose group it carries and whose issuer is the token's
\* issuer (the configured one when the claim is missing).
MappedIdentity ==
    \A c \in Callers :
        (DOMAIN mapping # {} /\ IsUser(ret[c])) =>
          LET iss == IF tok[c].iss = Absent THEN ConfIssuer ELSE tok[c].iss
              own == {g \in GroupsOf(tok[c]) \cap DOMAIN mapping : mapping[g].iss = iss}
          IN  \E g \in own :
                /\ own = {g}
                /\ ret[c].id = Directory[mapping[g].username].id
                /\ ret[c].idp = Directory[mapping[g].username].idp

=============================================================================
