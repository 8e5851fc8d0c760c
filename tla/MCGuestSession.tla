--------------------------- MODULE MCGuestSession ---------------------------
(***************************************************************************)
(* Values of GuestSession's constants for TLC: the browsers of one office  *)
(* share an address, a phone has its own; one session has a cookie and a   *)
(* token with a header of its own, the other a cookie and a bearer token.  *)
(***************************************************************************)
EXTENDS GuestSession, TLC

CONSTANTS l1, l2

MCIP == [c \in Clients |-> IF c = "phone" THEN "mobile" ELSE "office"]

MCAgent == [c \in Clients |-> c]

MCCookies == (l1 :> {"cookie1"}) @@ (l2 :> {"cookie2"})

MCTokens == (l1 :> {<<"X-Auth", "token1">>}) @@ (l2 :> {<<"Authorization", "token2">>})

MCSymmetry == Permutations(Requests)
=============================================================================
