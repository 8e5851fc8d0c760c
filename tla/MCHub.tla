------------------------------- MODULE MCHub -------------------------------
(***************************************************************************)
(* Values of Hub's constants for TLC: two users with one link each, and    *)
(* two subscribers, both of the first user.                                *)
(***************************************************************************)
EXTENDS Hub, TLC

CONSTANTS l1, l2, s1, s2

MCOwner == (l1 :> "alice") @@ (l2 :> "bob")

MCCaller == [s \in Subscribers |-> "alice"]

\* One client asks for everything, as the SSE feed does; the other, of the gRPC
\* stream, for its own link or for that of the other user.
MCFilters == (s1 :> {AllLinks}) @@ (s2 :> Links)
=============================================================================
