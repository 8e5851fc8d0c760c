--------------------------- MODULE MCProvisioning ---------------------------
(***************************************************************************)
(* Values of Provisioning's constants for TLC.                             *)
(***************************************************************************)
EXTENDS Provisioning, TLC

CONSTANTS p1, r1

MCCredentials == <<"cookie", "token">>

\* A policy and a rule; a rule alone.
MCRequested == {<<p1, r1>>, <<r1>>}

MCSymmetry == Permutations(Calls) \cup Permutations(Users) \cup Permutations(URLs)
=============================================================================
