---------------------------- MODULE MCBlacklist ----------------------------
(***************************************************************************)
(* Values of Blacklist's constants for TLC.                                *)
(***************************************************************************)
EXTENDS Blacklist, TLC

CONSTANTS exact, broken

\* One rule with a pattern, one whose regex does not compile.
MCHits == [r \in Rules |-> IF r = exact THEN {"/billing"} ELSE {}]

\* No list, one method, two methods, one method twice.
MCEdits == {<<>>, <<"GET">>, <<"POST", "GET">>, <<"GET", "GET">>}
=============================================================================
