--------------------------- MODULE MeshDirectory ---------------------------
(***************************************************************************)
(* The mesh directory HTTP service (meshdirectory.go) asking the OCM       *)
(* provider authorizer gRPC service (ocmproviderauthorizer.go) for the     *)
(* list of mesh providers, through the gateway.                            *)
(*                                                                         *)
(*   browser --GET /providers--> meshdirectory.serveJSON                   *)
(*        --ListAllProviders--> gateway --ListAllProviders--> authorizer   *)
(*        --pa.ListAllProviders--> driver                                  *)
(*                                                                         *)
(* Each hop is a step: a gRPC call is a request to the next hop, and its   *)
(* answer travels back hop by hop.  An answer is either a transport error  *)
(* (the Go error of the call) or a response with a status and a list.     *)
(* The drivers (json, mentix, open) are outside src/: a driver answers     *)
(* with a list of providers or an error.  Provider names and the JSON      *)
(* text are abstracted to sets of model values and "null".                 *)
(***************************************************************************)
EXTENDS Naturals

CONSTANTS
    Providers,    \* mesh providers a driver may list
    Heads,        \* first path segments of requests to the mesh directory
    Drivers,      \* driver names a configuration may give ("" included)
    Registered,   \* drivers registered in registry.NewFuncs
    Prefixes,     \* mesh directory prefixes a configuration may give
    MaxRequests,  \* requests served in a behaviour
    DriverError,  \* the error a driver answers with
    Nil           \* a nil slice or a nil response

ASSUME /\ "providers" \in Heads /\ "" \in Drivers /\ "" \in Prefixes
       /\ MaxRequests \in Nat

VARIABLES
    prefix,    \* svc.conf.Prefix of the mesh directory
    pa,        \* the authorizer service's driver, or Nil when New failed
    hop,       \* where the current request is: "idle", "gateway",
               \* "authorizer", "driver", "back" or "done"
    answer,    \* the answer travelling back to the caller
    listed,    \* what the driver answered for the current request
    response,  \* the HTTP response of the current request
    served,    \* requests served so far
    probe      \* the response of the last GetInfoByDomain or
               \* IsProviderAllowed call, or Nil

vars == <<prefix, pa, hop, answer, listed, response, served, probe>>

Lists == SUBSET Providers \cup {Nil}
\* A gRPC answer: a Go error (with a nil response) or a response.
TransportError == [err |-> TRUE, status |-> Nil, providers |-> Nil]
Reply(st, l) == [err |-> FALSE, status |-> st, providers |-> l]
Answers == {TransportError} \cup {Reply(st, l) : st \in {"OK", "INTERNAL"}, l \in Lists}
\* An HTTP response: the app, a server error, or the marshalled list.
Page(kind, code, body) == [kind |-> kind, code |-> code, body |-> body]
Responses == {Nil} \cup {Page("app", 200, Nil), Page("error", 500, Nil)}
                     \cup {Page("json", 200, l) : l \in Lists}

(***************************************************************************)
(* Configuration (New of both services)                                    *)
(***************************************************************************)
\* meshdirectory config.init: the prefix defaults to "meshdir".
MeshPrefix(p) == IF p = "" THEN "meshdir" ELSE p

\* ocmproviderauthorizer config.init: the driver defaults to "json".
DriverOf(d) == IF d = "" THEN "json" ELSE d

\* getProviderAuthorizer and New: a registered driver is built (its
\* constructor may fail); an unknown one is NotFound; either error fails
\* New and the service is not served.
NewAuthorizer(d) ==
    IF DriverOf(d) \in Registered THEN {DriverOf(d), Nil} ELSE {Nil}

Init ==
    /\ prefix \in {MeshPrefix(p) : p \in Prefixes}
    /\ pa \in UNION {NewAuthorizer(d) : d \in Drivers}
    /\ hop = "idle"
    /\ answer = Nil
    /\ listed = Nil
    /\ response = Nil
    /\ served = 0
    /\ probe = Nil

(***************************************************************************)
(* The mesh directory: Handler and serveJSON                               *)
(***************************************************************************)
\* Handler: ShiftPath gives the first segment; "providers" goes to
\* serveJSON, which asks getClient for a gateway client (pool may fail:
\* 500) and calls ListAllProviders; anything else is the single-page app.
Handler(head) ==
    /\ hop \in {"idle", "done"} /\ served < MaxRequests
    /\ served' = served + 1
    /\ listed' = Nil /\ answer' = Nil
    /\ \/ head # "providers" /\ hop' = "done"
          /\ response' = Page("app", 200, Nil)
       \/ head = "providers" /\ hop' = "done"
          /\ response' = Page("error", 500, Nil)
       \/ head = "providers" /\ hop' = "gateway" /\ response' = Nil
    /\ UNCHANGED <<prefix, pa, probe>>

\* json.Marshal(providers.Providers): a nil slice is "null" (Nil).
\* serveJSON after the call: an error is a 500; otherwise the list is
\* marshalled and written, whatever the response status says; w.Write
\* sends 200 first, so a failing write cannot turn it into a 500, and the
\* trailing WriteHeader(200) is superfluous.
ServeJSONReply ==
    /\ hop = "back"
    /\ hop' = "done"
    /\ response' = IF answer.err THEN Page("error", 500, Nil)
                   ELSE Page("json", 200, answer.providers)
    /\ UNCHANGED <<prefix, pa, answer, listed, served, probe>>

(***************************************************************************)
(* The gateway pass-through                                                *)
(***************************************************************************)
\* The gateway's forwarding of a provider-API call (the pattern of its
\* pass-throughs, e.g. GenerateInviteToken): no client for the service is
\* an INTERNAL response with no payload and no error; a failed call is a
\* transport error; otherwise the service's response is returned as is.
GatewayForward ==
    /\ hop = "gateway"
    /\ \/ hop' = "back" /\ answer' = Reply("INTERNAL", Nil)
       \/ hop' = "authorizer" /\ UNCHANGED answer
    /\ UNCHANGED <<prefix, pa, listed, response, served, probe>>

GatewayReturn ==
    /\ hop = "authorizer" /\ pa = Nil
    /\ hop' = "back" /\ answer' = TransportError
    /\ UNCHANGED <<prefix, pa, listed, response, served, probe>>

(***************************************************************************)
(* The provider authorizer service                                         *)
(***************************************************************************)
\* service.ListAllProviders: a driver error is an INTERNAL status with no
\* providers and a nil Go error; otherwise OK with the driver's list.
ListAllProviders(res) ==
    IF res = DriverError THEN Reply("INTERNAL", Nil) ELSE Reply("OK", res)

\* The authorizer serves the call; the driver answers; the response goes
\* back through the gateway unchanged (or is lost in transport).
AuthorizerServe ==
    /\ hop = "authorizer" /\ pa # Nil
    /\ \E res \in Lists \cup {DriverError} :
         /\ listed' = res
         /\ hop' = "back"
         /\ answer' \in {ListAllProviders(res), TransportError}
    /\ UNCHANGED <<prefix, pa, response, served, probe>>

\* GetInfoByDomain: the driver's ProviderInfo for the domain with OK, or
\* INTERNAL with no info when the driver answers an error (the drivers,
\* outside src/, decide which domains they know).
GetInfoByDomain ==
    /\ pa # Nil /\ served < MaxRequests
    /\ \E res \in Providers \cup {DriverError} :
         probe' = [op |-> "info",
                   reply |-> IF res = DriverError THEN Reply("INTERNAL", Nil)
                             ELSE Reply("OK", res)]
    /\ served' = served + 1
    /\ UNCHANGED <<prefix, pa, hop, answer, listed, response>>

\* IsProviderAllowed: OK when the driver allows the provider; a refusal and
\* a failure of the driver are both INTERNAL.
IsProviderAllowed ==
    /\ pa # Nil /\ served < MaxRequests
    /\ \E allowed \in BOOLEAN :
         probe' = [op |-> "allowed",
                   reply |-> Reply(IF allowed THEN "OK" ELSE "INTERNAL", Nil)]
    /\ served' = served + 1
    /\ UNCHANGED <<prefix, pa, hop, answer, listed, response>>

Next ==
    \/ \E h \in Heads : Handler(h)
    \/ ServeJSONReply \/ GatewayForward \/ GatewayReturn \/ AuthorizerServe
    \/ GetInfoByDomain \/ IsProviderAllowed

Spec == Init /\ [][Next]_vars

(***************************************************************************)
(* Properties                                                              *)
(***************************************************************************)
TypeOK ==
    /\ prefix \in {MeshPrefix(p) : p \in Prefixes}
    /\ pa \in Registered \cup {Nil}
    /\ hop \in {"idle", "gateway", "authorizer", "back", "done"}
    /\ answer \in Answers \cup {Nil}
    /\ listed \in Lists \cup {DriverError}
    /\ response \in Responses
    /\ served \in 0..MaxRequests
    /\ probe \in {Nil} \cup [op : {"info", "allowed"}, reply : Answers]

\* serveJSON answers every failure to obtain the providers with
\* APIErrorServerError: a 200 response to /providers carries the list the
\* driver returned for that request.
SuccessCarriesList ==
    (hop = "done" /\ response.kind = "json")
      => listed \notin {Nil, DriverError} /\ response.body = listed

=============================================================================
