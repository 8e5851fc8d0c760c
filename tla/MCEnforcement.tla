--------------------------- MODULE MCEnforcement ---------------------------
(***************************************************************************)
(* Values of Enforcement's constants for TLC.                              *)
(***************************************************************************)
EXTENDS Enforcement, TLC

\* Every limit is set and is reached after a few requests.
MCPolicy ==
    [l \in Links |-> [maxRequests |-> 2, maxBytes |-> 2, maxViolations |-> 2,
                      ttl |-> TRUE, expires |-> TRUE]]

\* One request is allowed; traffic, TTL and expiry are not limited.
MCRequestPolicy ==
    [l \in Links |-> [maxRequests |-> 1, maxBytes |-> Nil, maxViolations |-> 1,
                      ttl |-> FALSE, expires |-> FALSE]]

\* Every counter is limited, no deadline.
MCCounterPolicy ==
    [l \in Links |-> [maxRequests |-> 2, maxBytes |-> 1, maxViolations |-> 1,
                      ttl |-> FALSE, expires |-> FALSE]]

MCSymmetry == Permutations(Requests)
=============================================================================
