------------------------ MODULE MC_TracingDispatch ------------------------
(***************************************************************************)
(* URLs over {"/", "a", "b"} up to 4 characters.  Services register their  *)
(* prefixes in the form rhttp services return them: "" for the root, or    *)
(* segments without a leading or trailing slash.                           *)
(***************************************************************************)
EXTENDS TracingDispatch

MCAlphabet == {"/", "a", "b"}
MCServicePrefixes == {<<>>, <<"a">>, <<"b">>, <<"a", "/", "b">>}
MCPaths == Str
=============================================================================
