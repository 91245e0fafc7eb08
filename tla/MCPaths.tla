------------------------------- MODULE MCPaths --------------------------------
(***************************************************************************)
(* All short paths.                                                        *)
(***************************************************************************)
EXTENDS PathRules

(* "/data" and "/"; with the latter and "." the user's root is "/".         *)
MCDataRoots == {<<"data">>, <<"">>}
MCSubdirs == {<<"">>, <<".">>, <<"u">>, <<"u", "">>, <<"tenants", "", "u">>, <<"u", "..", "v">>,
              <<"", "u">>, <<"..">>}
===============================================================================
