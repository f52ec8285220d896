------------------------- MODULE MC_StaticRegistry -------------------------
EXTENDS StaticRegistry

\* Rule maps of a configuration: none (the default applies), one rule, and
\* two rules on different providers.
MCConfRules ==
    { [t \in {} |-> GatewaySVC],
      "bearer" :> "authprovider_oidc",
      ("basic" :> "authprovider_json") @@ ("machine" :> "authprovider_machine") }

=============================================================================
