-------------------------- MODULE StaticRegistry --------------------------
(***************************************************************************)
(* The static auth registry (pkg/auth/registry/static): New builds it from *)
(* a map of rules, auth type -> provider address, and it answers          *)
(* ListProviders and GetProvider from that map.  The map is never written *)
(* after New, so concurrent callers only read it and one caller's view of *)
(* a request is the whole story.  A ProviderInfo is a record of type and   *)
(* address; a nil *ProviderInfo is Nil.  Go's map iteration order is       *)
(* unspecified, so a listing may give the rules in any order.              *)
(***************************************************************************)
EXTENDS Naturals, Sequences, SequencesExt

CONSTANTS
    AuthTypes,    \* auth types a rule or a request may name
    Addresses,    \* provider addresses
    GatewaySVC,   \* sharedconf.GetGatewaySVC(""), the default address
    ConfRules,    \* rule maps a configuration may give (the empty one too)
    Nil

ASSUME GatewaySVC \in Addresses /\ "basic" \in AuthTypes

VARIABLES
    rules,  \* reg.rules
    out     \* the answer of the last call, or Nil before any call

vars == <<rules, out>>

Info(t, a) == [type |-> t, addr |-> a]
Infos == {Info(t, a) : t \in AuthTypes, a \in Addresses}

\* config.init: an empty rule map becomes {"basic": the gateway}.
ConfigInit(r) == IF DOMAIN r = {} THEN ("basic" :> GatewaySVC) ELSE r

\* New: parseConfig, then c.init(), then the reg holds c.Rules.
Init ==
    /\ rules \in {ConfigInit(r) : r \in ConfRules}
    /\ out = Nil

\* The ProviderInfo of every rule, in some iteration order.
RuleInfos == {Info(t, rules[t]) : t \in DOMAIN rules}

\* ListProviders: the slice is made with len(rules) elements (nil pointers)
\* and each rule is then appended after them.
ListProviders ==
    /\ \E order \in SetToSeqs(RuleInfos) :
         out' = [op |-> "list",
                 val |-> [i \in 1..Cardinality(DOMAIN rules) |-> Nil] \o order]
    /\ UNCHANGED rules

\* GetProvider: the rule of the auth type, or a NotFound error.
GetProvider(t) ==
    /\ out' = [op |-> "get", type |-> t,
               val |-> IF t \in DOMAIN rules THEN Info(t, rules[t])
                       ELSE "NotFound"]
    /\ UNCHANGED rules

Next == ListProviders \/ \E t \in AuthTypes : GetProvider(t)

Spec == Init /\ [][Next]_vars

(***************************************************************************)
(* Properties                                                              *)
(***************************************************************************)
\* ListProviders sizes its slice by len(r.rules) and fills it from the
\* rules: a listing holds the ProviderInfo of every rule exactly once and
\* nothing else (no nil entry a client would dereference), so each entry is
\* what GetProvider answers for that entry's type.
ListMatchesRules ==
    out # Nil /\ out.op = "list" => out.val \in SetToSeqs(RuleInfos)

=============================================================================
