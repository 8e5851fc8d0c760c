----------------------------- MODULE MCOwnerApi -----------------------------
(***************************************************************************)
(* Values of the constants of Auth and PolicyResolver for TLC, and one     *)
(* specification for these and Blacklist: what an owner does about         *)
(* accounts, the policies of a link and its blacklist, and the checks      *)
(* against the blacklist.                                                  *)
(***************************************************************************)
EXTENDS Auth, PolicyResolver, MCBlacklist

\* A negative limit, zero, one above it and NULL; a violation count below and
\* above the default of 3.
MCPolicies ==
    [maxRequests : {Nil, -1, 0, 2}, maxBytes : {Nil, 1}, maxTTL : {5},
     maxViolations : {Nil, 1, 10}]

MCSymmetry ==
    Permutations(Calls) \cup Permutations(Emails) \cup Permutations(Passwords)

\* The first request that is checked overwrites the method and the path.
BlacklistStart ==
    /\ BlacklistInit
    /\ method = [c \in Checks |-> "GET"]
    /\ path = [c \in Checks |-> "/"]

\* The components share no variable, so their interleavings show nothing that
\* each alone does not: each moves while the others are where they began.
OwnerNext ==
    \/ ResolverInit /\ BlacklistStart /\ AuthNext /\ UNCHANGED <<attached, blVars>>
    \/ AuthInit /\ BlacklistStart /\ ResolverNext /\ UNCHANGED <<authVars, blVars>>
    \/ AuthInit /\ ResolverInit /\ BlacklistNext /\ UNCHANGED <<authVars, attached>>

OwnerInit == AuthInit /\ ResolverInit /\ BlacklistStart

OwnerSpec == OwnerInit /\ [][OwnerNext]_<<authVars, attached, blVars>>
=============================================================================
