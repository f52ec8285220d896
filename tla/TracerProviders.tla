-------------------------- MODULE TracerProviders --------------------------
(***************************************************************************)
(* The tracer-provider cache of package tracing (src/unnamed/part_000):    *)
(* tracerProvider(name), called by SpanStart, by GrpcMiddleware.           *)
(* SetInterceptors and by the HTTP middleware, holds t.mux while it looks  *)
(* the name up in t.reg and, on a miss, builds a provider over the current *)
(* exporter t.exp and stores it.  Init, run once through initOnce, replaces *)
(* t.exp with a Jaeger exporter when the configuration yields one; it does *)
(* not take t.mux.                                                         *)
(***************************************************************************)
EXTENDS Naturals, FiniteSets, TLC

CONSTANTS
    Names,         \* service names
    Callers,       \* goroutines calling tracerProvider
    MaxProviders,  \* bound on SDK tracer providers built
    None

\* t.noop: the no-op tracer provider, shared by every name it is stored for.
NoopProvider == [id |-> 0, exp |-> "none"]
Exporters == {"noop_exporter", "jaeger"}
Provider == [id : 1..MaxProviders, exp : Exporters] \cup {NoopProvider}

\* The tracing configuration Init decodes: agent is "" or "host:port" or
\* an address net.SplitHostPort rejects; newErr is jaegerExporter.New
\* failing; decodeErr is newConfig failing.
Config == [decodeErr : BOOLEAN, agent : {"", "host:port", "bad"},
           collector : {"", "url"}, newErr : BOOLEAN]

VARIABLES
    reg,       \* t.reg: name -> provider
    exp,       \* t.exp
    initDone,  \* initOnce has run
    built,     \* number of SDK providers built
    holder,    \* goroutine holding t.mux, or None
    pc,        \* [Callers -> {"idle", "create"}]
    want,      \* name a caller is looking up
    ret        \* last provider returned to each caller, with its name

vars == <<reg, exp, initDone, built, holder, pc, want, ret>>

(***************************************************************************)
(* Init: initOnce.Do.  Two endpoints, a bad agent address, no endpoint or  *)
(* a failing jaegerExporter.New each log and return, leaving t.exp as it   *)
(* was.                                                                    *)
(***************************************************************************)
ExporterConfigured(c) ==
    /\ ~c.decodeErr
    /\ ~(c.agent # "" /\ c.collector # "")
    /\ c.agent # "" \/ c.collector # ""
    /\ c.agent # "bad"
    /\ ~c.newErr

InitTracing(c) ==
    /\ ~initDone
    /\ initDone' = TRUE
    /\ exp' = IF ExporterConfigured(c) THEN "jaeger" ELSE exp
    /\ UNCHANGED <<reg, built, holder, pc, want, ret>>

(***************************************************************************)
(* tracerProvider(name)                                                    *)
(***************************************************************************)
\* Mutant: the lookup and the store are not under t.mux.
TracerProviderLoadNoLock(c, n) ==
    /\ pc[c] = "idle"
    /\ IF n \in DOMAIN reg
       THEN /\ ret' = [ret EXCEPT ![c] = [name |-> n, tp |-> reg[n]]]
            /\ UNCHANGED <<pc, want>>
       ELSE /\ pc' = [pc EXCEPT ![c] = "create"]
            /\ want' = [want EXCEPT ![c] = n]
            /\ UNCHANGED ret
    /\ UNCHANGED <<reg, exp, initDone, built, holder>>

\* Lock t.mux and load: a hit returns the cached provider (and unlocks).
TracerProviderLoad(c, n) ==
    /\ pc[c] = "idle"
    /\ holder = None
    /\ IF n \in DOMAIN reg
       THEN /\ ret' = [ret EXCEPT ![c] = [name |-> n, tp |-> reg[n]]]
            /\ UNCHANGED <<holder, pc, want>>
       ELSE /\ holder' = c
            /\ pc' = [pc EXCEPT ![c] = "create"]
            /\ want' = [want EXCEPT ![c] = n]
            /\ UNCHANGED ret
    /\ UNCHANGED <<reg, exp, initDone, built>>

\* Mutant: the provider is stored under the caller instead of the name.
TracerProviderCreateKeyedByCaller(c) ==
    /\ pc[c] = "create"
    /\ built < MaxProviders
    /\ \E hostOk \in BOOLEAN :
         LET tp == IF hostOk THEN [id |-> built + 1, exp |-> exp] ELSE NoopProvider
         IN  /\ reg' = (c :> tp) @@ reg
             /\ built' = IF hostOk THEN built + 1 ELSE built
             /\ ret' = [ret EXCEPT ![c] = [name |-> want[c], tp |-> tp]]
    /\ holder' = None
    /\ pc' = [pc EXCEPT ![c] = "idle"]
    /\ want' = [want EXCEPT ![c] = None]
    /\ UNCHANGED <<exp, initDone>>

\* A miss: os.Hostname or resource.Merge failing stores t.noop; otherwise a
\* new SDK provider batching to t.exp is stored.  Then unlock and return.
TracerProviderCreate(c) ==
    /\ pc[c] = "create"
    /\ built < MaxProviders
    /\ \E hostOk \in BOOLEAN :
         LET tp == IF hostOk THEN [id |-> built + 1, exp |-> exp] ELSE NoopProvider
         IN  /\ reg' = (want[c] :> tp) @@ reg
             /\ built' = IF hostOk THEN built + 1 ELSE built
             /\ ret' = [ret EXCEPT ![c] = [name |-> want[c], tp |-> tp]]
    /\ holder' = None
    /\ pc' = [pc EXCEPT ![c] = "idle"]
    /\ want' = [want EXCEPT ![c] = None]
    /\ UNCHANGED <<exp, initDone>>

Init ==
    /\ reg = <<>>
    /\ exp = "noop_exporter"
    /\ initDone = FALSE
    /\ built = 0
    /\ holder = None
    /\ pc = [c \in Callers |-> "idle"]
    /\ want = [c \in Callers |-> None]
    /\ ret = [c \in Callers |-> None]

Next ==
    \/ \E c \in Config : InitTracing(c)
    \/ \E c \in Callers, n \in Names : TracerProviderLoad(c, n)
    \/ \E c \in Callers : TracerProviderCreate(c)

Spec == Init /\ [][Next]_vars

(***************************************************************************)
(* Properties                                                              *)
(***************************************************************************)
TypeOK ==
    /\ DOMAIN reg \subseteq Names /\ \A n \in DOMAIN reg : reg[n] \in Provider
    /\ exp \in Exporters
    /\ initDone \in BOOLEAN
    /\ built \in 0..MaxProviders
    /\ holder \in Callers \cup {None}
    /\ pc \in [Callers -> {"idle", "create"}]
    /\ want \in [Callers -> Names \cup {None}]
    /\ ret \in [Callers -> [name : Names, tp : Provider] \cup {None}]

\* The cache seen through t.reg and the callers' results.
Cache == INSTANCE TracerCache WITH Providers <- Provider

\* t.mux makes tracerProvider an atomic write-once cache: no entry of t.reg
\* is ever replaced, and every call returns the provider t.reg holds for
\* its name, so no caller keeps spans going to a provider (and batcher)
\* that a concurrent miss replaced, and one service never has two.
ImplementsTracerCache == Cache!Spec

=============================================================================
