------------------------- MODULE MC_MeshDirectory -------------------------
(***************************************************************************)
(* One provider, a request to /providers and one to the app, the default  *)
(* driver, a registered and an unknown one, and two requests.             *)
(***************************************************************************)
EXTENDS MeshDirectory

MCHeads == {"providers", "index.html"}
MCDrivers == {"", "json", "nosuch"}
MCRegistered == {"json", "mentix"}
MCPrefixes == {"", "mesh"}
=============================================================================
