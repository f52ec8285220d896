--------------------------- MODULE PublicShareSQL ---------------------------
(***************************************************************************)
(* The SQL public-link share manager (package sql, src/unnamed/part_000):  *)
(* the oc_share table it reads and writes, the request goroutines that     *)
(* call CreatePublicShare, UpdatePublicShare, GetPublicShare,              *)
(* ListPublicShares, RevokePublicShare and GetPublicShareByToken           *)
(* concurrently, and the janitor goroutine started by New.                 *)
(*                                                                         *)
(* Every manager method is one or more actions.  A method that issues one  *)
(* SQL statement is one action (the statement is atomic in the store); a   *)
(* method that issues several, or reads the clock after reading a row, is  *)
(* split at each statement, and the goroutine's locals are kept in wk.     *)
(* Time is counted in hours; the clock advances by Step.                   *)
(***************************************************************************)
EXTENDS Naturals, Sequences, FiniteSets, FiniteSetsExt, Functions, TLC

CONSTANTS
    Users,          \* user ids that call the manager
    Owners,         \* user ids that own resources (Users and project accounts)
    Workers,        \* request goroutines
    Resources,      \* resources a public share can point to
    ResOwner,       \* rInfo.Owner of each resource
    Projects,       \* project spaces
    ProjectOf,      \* project whose space holds a resource, or None
    ProjectAdmins,  \* members of "cernbox-project-<p>-admins"
    Passwords,      \* non-empty plaintext passwords a grant may carry
    TokenFor,       \* token utils.RandString(15) draws for the row with id i
    ForeignRows,    \* rows of other share types already in oc_share
    ExpInputs,      \* non-zero grant expirations (hours) a request may carry
    ListFilterSets, \* filter lists a ListPublicShares request may carry
    InternalFlags,  \* values of the internal argument of CreatePublicShare
    Refs,           \* share references (by id or by token) requests carry
    UpdateTypes,    \* update types UpdatePublicShare requests carry
    SigTTL,         \* validity window publicshare.AddSignature gives
    MaxId,          \* bound on auto-increment ids
    MaxSalt,        \* bound on bcrypt hashes computed (each has a fresh salt)
    MaxRequests,    \* bound on the calls made to the manager
    StartTime, Step, MaxTime, \* the clock
    EnableExpiredSharesCleanup,
    None

Ids == 1..MaxId
PublicTokens == {TokenFor[i] : i \in Ids}

ASSUME /\ IsInjective(TokenFor) /\ DOMAIN TokenFor = Ids
       /\ None \notin PublicTokens \cup Users \cup Owners \cup Projects
       /\ \A r \in Resources : ResOwner[r] \in Owners
       /\ \A r \in Resources : ProjectOf[r] \in Projects \cup {None}
       /\ Users \subseteq Owners
       /\ EnableExpiredSharesCleanup \in BOOLEAN
       /\ InternalFlags \subseteq BOOLEAN

VARIABLES
    db,      \* oc_share: id -> row
    nextId,  \* the table's auto-increment counter
    salt,    \* number of bcrypt hashes computed so far
    now,     \* time.Now(), in hours
    issued,  \* signatures handed out by AddSignature, with the token and
             \* password hash they were issued under (history)
    wk,      \* locals of each request goroutine
    requests \* number of calls made to the manager so far

vars == <<db, nextId, salt, now, issued, wk, requests>>

(***************************************************************************)
(* Data                                                                    *)
(***************************************************************************)
\* hashPassword: "1|" + bcrypt(password, cost); bcrypt draws a fresh salt,
\* so two hashes of one password differ.
Hashes == [pw : Passwords, salt : 1..MaxSalt]
\* share_with = '' (the column is read through coalesce(share_with, '')).
NoHash == None
Times == 0..MaxTime
Row == [type : {"public", "other"}, owner : Owners, creator : Owners,
        token : PublicTokens \cup {None}, resource : Resources,
        hash : Hashes \cup {NoHash} \cup Owners,   \* share_with column
        exp : Times \cup {None}, orphan : BOOLEAN, internal : BOOLEAN]
Sig == [token : PublicTokens, hash : Hashes, exp : Nat]
Issued == [val : Sig, token : PublicTokens, under : Hashes]
Ref == [by : {"id"}, id : Ids] \cup [by : {"token"}, token : PublicTokens]
Update == [type : {"metadata"}] \cup [type : {"expiration"}, exp : {0} \cup ExpInputs]
            \cup [type : {"password"}, pw : {""} \cup Passwords]
Attempt == [kind : {"none"}] \cup [kind : {"password"}, pw : Passwords]
            \cup [kind : {"signature"}, sig : Sig, exp : Nat]
Filter == [type : {"resource"}, val : Resources]
            \cup [type : {"owner", "creator"}, val : Owners]
ASSUME /\ Refs \subseteq Ref
       /\ UpdateTypes \subseteq {"metadata", "expiration", "password"}
Status == {"ok", "NotFound", "InvalidCredentials"}
\* Locals of a request goroutine; status and results hold what the last
\* call returned until the goroutine takes the next request.
Idle == [pc |-> "idle", op |-> None, user |-> None, ref |-> None,
         sign |-> FALSE, row |-> None, attempt |-> None, rows |-> <<>>,
         status |-> None, results |-> {}]

(***************************************************************************)
(* Helpers translated from the manager                                     *)
(***************************************************************************)
\* expired(s): expiration set and time.Unix(exp).Before(time.Now())
Expired(r, t) == r.exp # None /\ r.exp < t

\* time.Now().Format("2006-01-02 03:04:05"): layout "03" is the 12-hour
\* clock with no AM/PM marker, hour 0 printing as 12.  MySQL reads the
\* string back as a 24-hour DATETIME.
Hour12(h) == IF h % 12 = 0 THEN 12 ELSE h % 12
FormatNow(t) == (t \div 24) * 24 + Hour12(t % 24)

\* cleanupExpiredShares: update oc_share set orphan = 1 where expiration
\* IS NOT NULL AND expiration < <formatted now>; a no-op when disabled.
CleanupExpiredShares(d, t) ==
    IF ~EnableExpiredSharesCleanup THEN d
    ELSE [i \in DOMAIN d |->
            IF d[i].exp # None /\ d[i].exp < FormatNow(t)
            THEN [d[i] EXCEPT !.orphan = TRUE] ELSE d[i]]

\* "id=? AND (uid_owner=? or uid_initiator=?)" or the same with token=?:
\* the selector of UpdatePublicShare and RevokePublicShare.
Selected(d, ref, u) ==
    {i \in DOMAIN d :
        /\ IF ref.by = "id" THEN i = ref.id ELSE d[i].token = ref.token
        /\ u \in {d[i].owner, d[i].creator}}

\* getByID / getByToken: (orphan = 0 or orphan IS NULL) AND share_type=?,
\* then id=? AND (uid_owner=? OR uid_initiator=?), or token=?.
GetMatch(d, ref, u) ==
    {i \in DOMAIN d :
        /\ ~d[i].orphan /\ d[i].type = "public"
        /\ IF ref.by = "id" THEN i = ref.id /\ u \in {d[i].owner, d[i].creator}
                            ELSE d[i].token = ref.token}

\* CreateSignature(token, pw, expiration): deterministic in its inputs.
CreateSignature(tkn, h, e) == [token |-> tkn, hash |-> h, exp |-> e]

\* AddSignature(share, pw): a signature valid for SigTTL from now, recorded
\* with the share it was issued for.
AddSignature(r, t) == [val |-> CreateSignature(r.token, r.hash, t + SigTTL),
                       token |-> r.token, under |-> r.hash]

\* checkPasswordHash: bcrypt compare after trimming the "1|" version tag.
CheckPasswordHash(p, h) == h \in Hashes /\ h.pw = p

\* authenticate(share, pw, auth): password first, then signature.
Authenticate(r, a, t) ==
    CASE a.kind = "password"  -> CheckPasswordHash(a.pw, r.hash)
      [] a.kind = "signature" -> /\ ~(t > a.exp)
                                 /\ a.sig = CreateSignature(r.token, r.hash, a.exp)
      [] OTHER                -> FALSE

\* uidOwnerFilters: the ownership predicate is dropped when some resource
\* filter lies in a project space whose admin group holds u.  statOk is the
\* set of resources whose Stat call answered CODE_OK.
Unrestricted(u, filters, statOk) ==
    \E f \in filters :
        /\ f.type = "resource"
        /\ f.val \in statOk
        /\ ProjectOf[f.val] # None
        /\ u \in ProjectAdmins[ProjectOf[f.val]]

\* The WHERE clause of ListPublicShares: filters of one kind OR-ed, kinds
\* AND-ed, then the ownership predicate unless uidOwnerFilters dropped it.
ListPredicate(r, u, filters, statOk) ==
    LET ofKind(k) == {f \in filters : f.type = k}
        holds(k, val) == ofKind(k) = {} \/ \E f \in ofKind(k) : f.val = val
    IN  /\ ~r.orphan /\ r.type = "public" /\ ~r.internal
        /\ holds("resource", r.resource)
        /\ holds("owner", r.owner)
        /\ holds("creator", r.creator)
        /\ Unrestricted(u, filters, statOk) \/ u \in {r.owner, r.creator}


\* The goroutine serving user u returns from method op with status st and the shares it
\* built from rows (none unless st = "ok").
Finish(w, op, u, st, shares) ==
    wk' = [wk EXCEPT ![w] = [Idle EXCEPT !.op = op, !.user = u,
                                         !.status = st, !.results = shares]]

(***************************************************************************)
(* Init                                                                    *)
(***************************************************************************)
Init ==
    /\ db = [i \in 1..Len(ForeignRows) |-> ForeignRows[i]]
    /\ nextId = Len(ForeignRows) + 1
    /\ salt = 0
    /\ now = StartTime
    /\ issued = {}
    /\ wk = [w \in Workers |-> Idle]
    /\ requests = 0

(***************************************************************************)
(* CreatePublicShare: one insert.  The token is fresh (RandString(15) is   *)
(* taken never to collide), the password is hashed when non-empty, and an  *)
(* expiration of 0 seconds is not stored.                                  *)
(***************************************************************************)
CreatePublicShare(u, res, pw, e, internal) ==
    /\ nextId <= MaxId
    /\ pw # "" => salt < MaxSalt
    /\ LET h == IF pw = "" THEN NoHash ELSE [pw |-> pw, salt |-> salt + 1]
       IN db' = db @@ (nextId :> [type |-> "public", owner |-> ResOwner[res],
                                 creator |-> u, token |-> TokenFor[nextId],
                                 resource |-> res, hash |-> h,
                                 exp |-> IF e = 0 THEN None ELSE e,
                                 orphan |-> FALSE, internal |-> internal])
    /\ nextId' = nextId + 1
    /\ salt' = IF pw = "" THEN salt ELSE salt + 1
    /\ UNCHANGED <<now, issued, wk>>

(***************************************************************************)
(* UpdatePublicShare, first statement: the update of one field group, with *)
(* stime, scoped by id or token and owner/creator, but neither by          *)
(* share_type nor by orphan.  A new password is hashed before the update;  *)
(* an empty one clears share_with; an expiration is stored as              *)
(* time.Unix(seconds), so 0 becomes the epoch.  The rows affected are not  *)
(* checked: the method goes on to GetPublicShare(ref, sign=false).         *)
(* share_name, permissions, description and stime are not modelled.       *)
(***************************************************************************)
\* Mutant: the new password is stored without hashPassword.
UpdatedRowPlaintext(r, upd, s) ==
    CASE upd.type = "expiration" -> [r EXCEPT !.exp = upd.exp]
      [] upd.type = "password"   -> [r EXCEPT !.hash = IF upd.pw = "" THEN NoHash
                                                  ELSE upd.pw]
      [] OTHER                   -> r

UpdatedRow(r, upd, s) ==
    CASE upd.type = "expiration" -> [r EXCEPT !.exp = upd.exp]
      [] upd.type = "password"   -> [r EXCEPT !.hash = IF upd.pw = "" THEN NoHash
                                                  ELSE [pw |-> upd.pw, salt |-> s]]
      [] OTHER                   -> r

UpdatePublicShare(w, u, ref, upd) ==
    LET hashes == upd.type = "password" /\ upd.pw # ""
        sel == Selected(db, ref, u)
    IN  /\ wk[w].pc = "idle"
        /\ hashes => salt < MaxSalt
        /\ db' = [i \in DOMAIN db |->
                    IF i \in sel THEN UpdatedRow(db[i], upd, salt + 1) ELSE db[i]]
        /\ salt' = IF hashes THEN salt + 1 ELSE salt
        /\ wk' = [wk EXCEPT ![w] = [Idle EXCEPT !.pc = "upd_get", !.op = "update",
                                                !.user = u, !.ref = ref]]
        /\ UNCHANGED <<nextId, now, issued>>

(***************************************************************************)
(* GetPublicShare: getByID or getByToken reads the row; then the clock is  *)
(* read: an expired share triggers cleanupExpiredShares and NotFound,      *)
(* otherwise the share is returned, signed when asked and protected.       *)
(***************************************************************************)
GetSelect(w, op, u, ref, sign) ==
    LET m == GetMatch(db, ref, u)
    IN  IF m = {} THEN Finish(w, op, u, "NotFound", {})
        ELSE wk' = [wk EXCEPT ![w] = [Idle EXCEPT !.pc = "get_check", !.op = op,
                        !.user = u, !.ref = ref, !.sign = sign,
                        !.row = db[CHOOSE i \in m : TRUE]]]

GetPublicShare(w, u, ref, sign) ==
    /\ wk[w].pc = "idle"
    /\ GetSelect(w, "get", u, ref, sign)
    /\ UNCHANGED <<db, nextId, salt, now, issued>>

\* The GetPublicShare call that ends UpdatePublicShare.
UpdateGet(w) ==
    /\ wk[w].pc = "upd_get"
    /\ GetSelect(w, "update", wk[w].user, wk[w].ref, FALSE)
    /\ UNCHANGED <<db, nextId, salt, now, issued>>

GetExpired(w) ==
    /\ wk[w].pc = "get_check"
    /\ Expired(wk[w].row, now)
    /\ db' = CleanupExpiredShares(db, now)
    /\ Finish(w, wk[w].op, wk[w].user, "NotFound", {})
    /\ UNCHANGED <<nextId, salt, now, issued>>

GetReturn(w) ==
    LET r == wk[w].row
    IN  /\ wk[w].pc = "get_check"
        /\ ~Expired(r, now)
        /\ issued' = IF r.hash # NoHash /\ wk[w].sign
                     THEN issued \cup {AddSignature(r, now)} ELSE issued
        /\ Finish(w, wk[w].op, wk[w].user, "ok", {r})
        /\ UNCHANGED <<db, nextId, salt, now>>

(***************************************************************************)
(* ListPublicShares: uidOwnerFilters (one Stat per project-space resource  *)
(* filter, a failed Stat skipped), one query read as a consistent snapshot,*)
(* then one row per step in id order: an expired row triggers             *)
(* cleanupExpiredShares and is left out, any other is kept (and signed).   *)
(***************************************************************************)
ListPublicShares(w, u, filters, sign) ==
    LET projRes == {f.val : f \in {g \in filters : g.type = "resource"
                                         /\ ProjectOf[g.val] # None}}
    IN  /\ wk[w].pc = "idle"
        /\ \E statOk \in SUBSET projRes :
             LET snap == {i \in DOMAIN db : ListPredicate(db[i], u, filters, statOk)}
             IN  IF snap = {} THEN Finish(w, "list", u, "ok", {})
                 ELSE wk' = [wk EXCEPT ![w] = [Idle EXCEPT !.pc = "list_scan",
                                 !.op = "list", !.user = u, !.sign = sign,
                                 !.rows = Restrict(db, snap)]]
        /\ UNCHANGED <<db, nextId, salt, now, issued>>

\* After one row: return when the cursor is drained, else go on.
ListContinue(w, results) ==
    LET rest == DOMAIN wk[w].rows \ {Min(DOMAIN wk[w].rows)}
    IN  IF rest = {} THEN Finish(w, "list", wk[w].user, "ok", results)
        ELSE wk' = [wk EXCEPT ![w].rows = Restrict(wk[w].rows, rest),
                              ![w].results = results]

ListScanExpired(w) ==
    LET r == wk[w].rows[Min(DOMAIN wk[w].rows)]
    IN  /\ wk[w].pc = "list_scan"
        /\ Expired(r, now)
        /\ db' = CleanupExpiredShares(db, now)
        /\ ListContinue(w, wk[w].results)
        /\ UNCHANGED <<nextId, salt, now, issued>>

ListScanKeep(w) ==
    LET r == wk[w].rows[Min(DOMAIN wk[w].rows)]
    IN  /\ wk[w].pc = "list_scan"
        /\ ~Expired(r, now)
        /\ issued' = IF r.hash # NoHash /\ wk[w].sign
                     THEN issued \cup {AddSignature(r, now)} ELSE issued
        /\ ListContinue(w, wk[w].results \cup {r})
        /\ UNCHANGED <<db, nextId, salt, now>>

(***************************************************************************)
(* RevokePublicShare: one delete scoped by id or token and owner/creator,  *)
(* not by share_type.  Zero rows affected returns NotFound and changes     *)
(* nothing, so only the deleting case is a step.                           *)
(***************************************************************************)
RevokePublicShare(u, ref) ==
    LET sel == Selected(db, ref, u)
    IN  /\ sel # {}
        /\ db' = Restrict(db, DOMAIN db \ sel)
        /\ UNCHANGED <<nextId, salt, now, issued, wk>>

(***************************************************************************)
(* GetPublicShareByToken: the row is read by share_type and token only     *)
(* (no orphan condition); then the clock: expired -> cleanup and NotFound; *)
(* empty share_with -> the share; otherwise authenticate decides, and a    *)
(* granted share is signed when asked.                                     *)
(***************************************************************************)
Attempts ==
    {[kind |-> "none"]} \cup {[kind |-> "password", pw |-> p] : p \in Passwords}
    \cup UNION {{[kind |-> "signature", sig |-> x.val, exp |-> e] :
                      e \in {x.val.exp, x.val.exp + Step}} : x \in issued}

GetPublicShareByToken(w, tkn, a, sign) ==
    LET m == {i \in DOMAIN db : db[i].type = "public" /\ db[i].token = tkn}
    IN  /\ wk[w].pc = "idle"
        /\ IF m = {} THEN Finish(w, "auth", None, "NotFound", {})
           ELSE wk' = [wk EXCEPT ![w] = [Idle EXCEPT !.pc = "auth_check",
                          !.op = "auth", !.sign = sign, !.attempt = a,
                          !.row = db[CHOOSE i \in m : TRUE]]]
        /\ UNCHANGED <<db, nextId, salt, now, issued>>

AuthExpired(w) ==
    /\ wk[w].pc = "auth_check"
    /\ Expired(wk[w].row, now)
    /\ db' = CleanupExpiredShares(db, now)
    /\ Finish(w, "auth", None, "NotFound", {})
    /\ UNCHANGED <<nextId, salt, now, issued>>

AuthOpen(w) ==
    /\ wk[w].pc = "auth_check"
    /\ ~Expired(wk[w].row, now)
    /\ wk[w].row.hash = NoHash
    /\ Finish(w, "auth", None, "ok", {wk[w].row})
    /\ UNCHANGED <<db, nextId, salt, now, issued>>

AuthGranted(w) ==
    LET r == wk[w].row
    IN  /\ wk[w].pc = "auth_check"
        /\ ~Expired(r, now)
        /\ r.hash # NoHash
        /\ Authenticate(r, wk[w].attempt, now)
        /\ issued' = IF wk[w].sign THEN issued \cup {AddSignature(r, now)}
                     ELSE issued
        /\ Finish(w, "auth", None, "ok", {r})
        /\ UNCHANGED <<db, nextId, salt, now>>

AuthDenied(w) ==
    LET r == wk[w].row
    IN  /\ wk[w].pc = "auth_check"
        /\ ~Expired(r, now)
        /\ r.hash # NoHash
        /\ ~Authenticate(r, wk[w].attempt, now)
        /\ Finish(w, "auth", None, "InvalidCredentials", {})
        /\ UNCHANGED <<db, nextId, salt, now, issued>>

(***************************************************************************)
(* startJanitorRun: on every ticker tick, cleanupExpiredShares.  The loop  *)
(* runs only when cleanup is enabled.                                      *)
(***************************************************************************)
JanitorRun ==
    /\ EnableExpiredSharesCleanup
    /\ db' = CleanupExpiredShares(db, now)
    /\ UNCHANGED <<nextId, salt, now, issued, wk>>

Tick ==
    /\ now + Step <= MaxTime
    /\ now' = now + Step
    /\ UNCHANGED <<db, nextId, salt, issued, wk>>

\* The next statement of the call goroutine w is serving.
Continue(w) ==
    /\ \/ UpdateGet(w) \/ GetExpired(w) \/ GetReturn(w)
       \/ ListScanExpired(w) \/ ListScanKeep(w)
       \/ AuthExpired(w) \/ AuthOpen(w) \/ AuthGranted(w) \/ AuthDenied(w)
    /\ UNCHANGED requests

\* A call made to the manager by a client, counted against MaxRequests.
Request(A) == requests < MaxRequests /\ A /\ requests' = requests + 1

Next ==
    \/ Request(\E u \in Users, res \in Resources, pw \in {""} \cup Passwords,
                 e \in {0} \cup ExpInputs, internal \in InternalFlags :
                   CreatePublicShare(u, res, pw, e, internal))
    \/ Request(\E w \in Workers, u \in Users, ref \in Refs :
                 \/ \E upd \in {x \in Update : x.type \in UpdateTypes} :
                      UpdatePublicShare(w, u, ref, upd)
                 \/ \E sign \in BOOLEAN : GetPublicShare(w, u, ref, sign))
    \/ Request(\E u \in Users, ref \in Refs : RevokePublicShare(u, ref))
    \/ Request(\E w \in Workers, u \in Users, fs \in ListFilterSets, sign \in BOOLEAN :
                 ListPublicShares(w, u, fs, sign))
    \/ Request(\E w \in Workers, tkn \in PublicTokens, a \in Attempts, sign \in BOOLEAN :
                 GetPublicShareByToken(w, tkn, a, sign))
    \/ \E w \in Workers : Continue(w)
    \/ JanitorRun /\ UNCHANGED requests
    \/ Tick /\ UNCHANGED requests

Spec == Init /\ [][Next]_vars

(***************************************************************************)
(* Properties                                                              *)
(***************************************************************************)
LocalOK(l) ==
    /\ l.pc \in {"idle", "upd_get", "get_check", "list_scan", "auth_check"}
    /\ l.op \in {None, "get", "update", "list", "auth"}
    /\ l.user \in Users \cup {None}
    /\ l.ref \in Ref \cup {None}
    /\ l.sign \in BOOLEAN
    /\ l.row \in Row \cup {None}
    /\ l.attempt \in Attempt \cup {None}
    /\ DOMAIN l.rows \subseteq Ids /\ \A i \in DOMAIN l.rows : l.rows[i] \in Row
    /\ l.status \in Status \cup {None}
    /\ l.results \subseteq Row

TypeOK ==
    /\ DOMAIN db \subseteq Ids /\ \A i \in DOMAIN db : db[i] \in Row
    /\ nextId \in 1..MaxId + 1
    /\ salt \in 0..MaxSalt
    /\ now \in Times
    /\ issued \subseteq Issued
    /\ DOMAIN wk = Workers /\ \A w \in Workers : LocalOK(wk[w])
    /\ requests \in 0..MaxRequests

\* Goroutine w returns successfully from a read in this step.
ReturnsOk(w) == wk[w].pc # "idle" /\ wk'[w].pc = "idle" /\ wk'[w].status = "ok"

(***************************************************************************)
(* Properties the spec states and the code breaks (checked in violation   *)
(* runs)                                                                   *)
(***************************************************************************)
\* cleanupExpiredShares, from the janitor or from a read, sets orphan only
\* on rows whose expiration has passed (spec: the janitor "marks expired
\* shares as reclaimable"); a live share is never soft-deleted.
SweepOnlyOrphansExpired ==
    [][\A i \in DOMAIN db \cap DOMAIN db' :
         (~db[i].orphan /\ db'[i].orphan) => Expired(db[i], now)]_vars

\* An orphaned share is excluded from all reads, the public lookup
\* GetPublicShareByToken included: it never grants access to a share whose
\* row was orphaned when it read it.
AuthNeverServesOrphan ==
    [][\A w \in Workers :
         (ReturnsOk(w) /\ wk[w].pc = "auth_check") => ~wk[w].row.orphan]_vars

\* UpdatePublicShare succeeds only for the share's owner or creator (the
\* selector's scope); a caller whose update touched no row gets NotFound.
UpdateOnlyByOwnerOrCreator ==
    [][\A w \in Workers :
         (wk[w].op = "update" /\ ReturnsOk(w))
         => \A r \in wk'[w].results : wk[w].user \in {r.owner, r.creator}]_vars

\* oc_share holds every share type, and the manager handles only public
\* links (spec \S4: always scoped to one share type): no call and no
\* cleanup sweep deletes or rewrites a row of another share type.  The
\* statements of RevokePublicShare, UpdatePublicShare and
\* cleanupExpiredShares carry no share_type condition.
OtherShareTypesUntouched ==
    [][\A i \in DOMAIN db :
         db[i].type # "public" => i \in DOMAIN db' /\ db'[i] = db[i]]_vars

\* ListPublicShares returns a share only to its owner or creator, or to an
\* admin of the project space that holds the share's resource.
ListAuthorized ==
    [][\A w \in Workers :
         \A r \in wk'[w].results \ wk[w].results :
           wk[w].op = "list" =>
             \/ wk[w].user \in {r.owner, r.creator}
             \/ /\ ProjectOf[r.resource] # None
                /\ wk[w].user \in ProjectAdmins[ProjectOf[r.resource]]]_vars

==============================================================================
