---------------------------- MODULE TracerCache ----------------------------
(***************************************************************************)
(* What tracerProvider promises its callers, without the lock: the cache   *)
(* is a write-once map from service name to tracer provider, and a call    *)
(* for a name returns the provider the map holds for it, adding one when   *)
(* there is none.  Each call takes effect in one atomic step; steps of the *)
(* implementation that change neither the map nor a caller's result       *)
(* (taking the lock, a miss, Init replacing the exporter) are stuttering.  *)
(***************************************************************************)
CONSTANTS
    Names,      \* service names
    Callers,    \* goroutines calling tracerProvider
    Providers,  \* tracer providers
    None

VARIABLES
    reg,  \* name -> provider, for the names looked up so far
    ret   \* caller -> the name and provider its last call returned

vars == <<reg, ret>>

Init ==
    /\ DOMAIN reg = {}
    /\ ret = [c \in Callers |-> None]

\* reg' keeps every entry of reg and adds at most the entry for n.
Keeps(n) ==
    /\ DOMAIN reg' \subseteq DOMAIN reg \cup {n}
    /\ \A m \in DOMAIN reg : m \in DOMAIN reg' /\ reg'[m] = reg[m]

\* A call for n: a cached entry is returned as is; otherwise an entry is
\* added and returned.
Get(c, n) ==
    /\ Keeps(n)
    /\ n \in DOMAIN reg'
    /\ reg'[n] \in Providers
    /\ ret' = [ret EXCEPT ![c] = [name |-> n, tp |-> reg'[n]]]

Next == \E c \in Callers, n \in Names : Get(c, n)

\* Constrains the primed variables rather than enumerating them: the
\* module is checked as a property of TracerProviders.
Spec == Init /\ [][Next]_vars

=============================================================================
