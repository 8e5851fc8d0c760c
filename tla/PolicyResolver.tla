--------------------------- MODULE PolicyResolver ---------------------------
(***************************************************************************)
(* service.PolicyResolver: the access policies attached to a link are      *)
(* folded, in whatever order the query returns them, into one effective    *)
(* policy.  Policies are attached when a link is created and go away when  *)
(* the owner deletes them (link_policies cascades).                        *)
(***************************************************************************)
EXTENDS Integers, SequencesExt

CONSTANTS
    Policies,      \* access_policies rows, see Rows
    Nil,           \* NULL, and a nil pointer
    MaxAttached    \* bound: policies attached to the link

ASSUME NilAssumption == Nil \notin Int

\* handleCreatePolicy stores what the form says, and neither it nor the table
\* asks for a limit to be positive.
Optional == Int \cup {Nil}

Rows == [maxRequests : Optional, maxBytes : Optional, maxTTL : Optional,
         maxViolations : Optional]

ASSUME ResolverAssumption == Policies \subseteq Rows /\ MaxAttached \in Nat

VARIABLE attached    \* what ListForLink returns: rows in no particular order

DefaultMaxViolationCount == 3

-----------------------------------------------------------------------------

\* nil taken for the smaller value.
NilIsSmaller(a, b) ==
    IF a = Nil \/ b = Nil THEN Nil
    ELSE IF a < b THEN a ELSE b

\* minPtr: nil behaves as infinity.
MinPtr(a, b) ==
    IF a = Nil THEN b
    ELSE IF b = Nil THEN a
    ELSE IF a < b THEN a ELSE b

Unlimited == [maxRequests |-> Nil, maxBytes |-> Nil, maxTTL |-> Nil,
              maxViolations |-> DefaultMaxViolationCount]

\* The body of Resolve's loop.
MinEachField(eff, p) ==
    [maxRequests   |-> MinPtr(eff.maxRequests, p.maxRequests),
     maxBytes      |-> MinPtr(eff.maxBytes, p.maxBytes),
     maxTTL        |-> MinPtr(eff.maxTTL, p.maxTTL),
     maxViolations |-> MinPtr(eff.maxViolations, p.maxViolations)]

\* Resolve: eff[i] is the result after i turns of the loop.
Resolve(policies) ==
    LET eff[i \in 0..Len(policies)] ==
            IF i = 0 THEN Unlimited ELSE MinEachField(eff[i - 1], policies[i])
    IN  eff[Len(policies)]

-----------------------------------------------------------------------------

ResolverInit == attached = <<>>

\* AttachToLink; the row may show up anywhere in the next query.
AttachPolicy(p, i) ==
    /\ Len(attached) < MaxAttached
    /\ attached' = InsertAt(attached, i, p)

\* handleDeletePolicy.
Delete(i) == attached' = RemoveAt(attached, i)

ResolverNext ==
    \/ \E p \in Policies, i \in 1..Len(attached) + 1 : AttachPolicy(p, i)
    \/ \E i \in DOMAIN attached : Delete(i)

ResolverSpec == ResolverInit /\ [][ResolverNext]_attached

-----------------------------------------------------------------------------
(* Properties.                                                             *)

\* The limits the attached policies state for a field.
Stated(field) == {attached[i][field] : i \in DOMAIN attached} \ {Nil}

\* v is the least of a set of limits, Nil if there is none.
IsLeast(v, limits) ==
    IF limits = {} THEN v = Nil ELSE v \in limits /\ \A w \in limits : v <= w

\* "most-restrictive-wins [...] A NULL field on any one policy does not
\* participate": for every list and every order, each optional limit of the
\* result is the least that is stated; the violation limit is no looser than
\* any that is stated, is one of them or the default of 3, and is the default
\* where none is stated (Resolve, minPtr).  Whether a policy may raise it above
\* the default is left open: the documentation says so, Resolve does not do it.
MostRestrictiveWins ==
    /\ \A field \in {"maxRequests", "maxBytes", "maxTTL"} :
          IsLeast(Resolve(attached)[field], Stated(field))
    /\ LET stated == Stated("maxViolations")
           limit  == Resolve(attached).maxViolations
       IN  /\ \A w \in stated : limit <= w
           /\ limit \in stated \cup {DefaultMaxViolationCount}
           /\ stated = {} => limit = DefaultMaxViolationCount
=============================================================================
