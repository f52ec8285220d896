------------------------ MODULE AuthProviderService ------------------------
(***************************************************************************)
(* The authprovider gRPC service (src/internal/grpc/services/authprovider) *)
(* in front of the oidc auth manager.  Authenticate refuses a request      *)
(* whose ClientId is a blocked user, calls authmgr.Authenticate otherwise, *)
(* and maps the manager's result to a status: the oidc manager's state and *)
(* steps are those of OIDCManager, which this module extends.  A panic in  *)
(* the handler is turned into an INTERNAL status by the recovery           *)
(* interceptor.                                                            *)
(***************************************************************************)
EXTENDS OIDCManager

CONSTANTS
    BlockedUsers,  \* sharedconf.GetBlockedUsers()
    ClientIds,     \* ClientId of requests: Absent stands for ""
    ManagerConfs,  \* auth_manager values a configuration may give
    NewFuncs,      \* managers registered in the auth registry's NewFuncs
    Plugins        \* managers plugin.Load finds as a plugin

VARIABLE
    resp       \* status of each caller's last response

serviceVars == <<vars, resp>>

\* The error-type switch of Authenticate, and the recovery interceptor.
\* The oidc manager wraps every error it returns (fmt.Errorf, errors.Wrap),
\* so its errors reach the default case.
\* recoveryFunc: a panic in a handler becomes codes.Internal.
RecoveryStatus == "INTERNAL"

StatusOf(r) ==
    CASE r.kind = "user" -> "OK"
      [] r.kind = "invalid_credentials" -> "PERMISSION_DENIED"
      [] r.kind = "not_found" -> "NOT_FOUND"
      [] r.kind = "panic" -> RecoveryStatus
      [] OTHER -> "UNAUTHENTICATED"

\* A request arrives: a blocked ClientId is refused before the manager is
\* called; otherwise the manager's getOIDCProvider starts.
Authenticate(c, id) ==
    /\ pc[c] = "idle"
    /\ \/ /\ id \in BlockedUsers
          /\ resp' = [resp EXCEPT ![c] = "PERMISSION_DENIED"]
          /\ UNCHANGED <<mapping, provider, built, handed, pc, tok, ret>>
       \/ /\ id \notin BlockedUsers
          /\ ProviderCheck(c)
          /\ resp' = [resp EXCEPT ![c] = "none"]

\* The manager's remaining steps; the response is sent when it returns.
ManagerCreate(c) ==
    /\ ProviderCreate(c)
    /\ resp' = [resp EXCEPT ![c] = IF pc'[c] = "idle" THEN StatusOf(ret'[c]) ELSE @]

ManagerFinish(c) ==
    /\ AuthFinish(c)
    /\ resp' = [resp EXCEPT ![c] = StatusOf(ret'[c])]

\* config.init: the manager defaults to "json".
AuthManagerOf(m) == IF m = "" THEN "json" ELSE m

\* getAuthManager: an empty name is an error; a plugin is loaded first;
\* otherwise a registered manager is built; anything else is NotFound.
GetAuthManager(m) ==
    CASE m = "" -> "error"
      [] m \in Plugins -> "plugin"
      [] m \in NewFuncs -> m
      [] OTHER -> "error"

\* New: the service runs with the oidc manager (whose Configure is the
\* manager's Init; a refused mapping file fails New, so no state exists).
ServiceInit ==
    /\ \E m \in ManagerConfs : GetAuthManager(AuthManagerOf(m)) = "oidc"
    /\ Init
    /\ resp = [c \in Callers |-> "none"]

ServiceNext ==
    \E c \in Callers :
        \/ \E id \in ClientIds : Authenticate(c, id)
        \/ ManagerCreate(c)
        \/ ManagerFinish(c)

ServiceSpec == ServiceInit /\ [][ServiceNext]_serviceVars

(***************************************************************************)
(* Properties                                                              *)
(***************************************************************************)
\* The blocked-users list keeps its users out: the service never answers
\* OK with a user whose username is blocked.
BlockedNeverAuthenticated ==
    \A c \in Callers :
        resp[c] = "OK" => ret[c].username \notin BlockedUsers

=============================================================================
