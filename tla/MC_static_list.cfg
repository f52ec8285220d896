CONSTANTS
    AuthTypes = {"basic", "bearer", "machine"}
    Addresses = {"gateway", "authprovider_oidc", "authprovider_json", "authprovider_machine"}
    GatewaySVC = "gateway"
    ConfRules <- MCConfRules
    Nil = Nil
SPECIFICATION Spec
INVARIANT ListMatchesRules
