-------------------------- MODULE QuotaGateProofs --------------------------
(***************************************************************************)
(* The bound of QuotaGate, for every set of links, every finite set of     *)
(* slots and every limit.                                                  *)
(***************************************************************************)
EXTENDS QuotaGate, FiniteSetTheorems, TLAPS

\* What adding or removing a slot does to the number of slots of a link.
LEMMA SlotCount ==
    ASSUME GateConstants, NEW S \in SUBSET Slots, NEW s \in Slots
    PROVE  /\ IsFiniteSet(S)
           /\ Cardinality(S) \in Nat
           /\ Cardinality(S) <= Cardinality(Slots)
           /\ s \notin S => Cardinality(S \cup {s}) = Cardinality(S) + 1
           /\ s \in S => Cardinality(S \ {s}) = Cardinality(S) - 1
<1>1. IsFiniteSet(S) /\ Cardinality(S) <= Cardinality(Slots)
    BY FS_Subset DEF GateConstants
<1>2. Cardinality(S) \in Nat
    BY <1>1, FS_CardinalityType
<1>3. s \notin S => Cardinality(S \cup {s}) = Cardinality(S) + 1
    BY <1>1, FS_AddElement
<1>4. s \in S => Cardinality(S \ {s}) = Cardinality(S) - 1
    BY <1>1, FS_RemoveElement
<1>. QED  BY <1>1, <1>2, <1>3, <1>4

\* There is at least one slot.
LEMMA SlotsCardinality ==
    ASSUME GateConstants PROVE Cardinality(Slots) \in Nat \ {0}
    BY FS_CardinalityType, FS_EmptySet DEF GateConstants

LEMMA GateInitInv == ASSUME GateConstants PROVE GateInit => GateInv
<1> SUFFICES ASSUME GateInit PROVE GateInv
    OBVIOUS
<1>1. Cardinality({}) = 0
    BY FS_EmptySet
<1>2. Cardinality(Slots) \in Nat \ {0}
    BY SlotsCardinality
<1>3. GateTypeOK /\ SentAdmitted
    BY DEF GateInit, GateTypeOK, SentAdmitted
<1>4. Accounting
    BY <1>1 DEF GateInit, Accounting
<1>5. AdmittedBound
    BY <1>1, <1>2 DEF GateConstants, GateInit, AdmittedBound
<1>. QED  BY <1>3, <1>4, <1>5 DEF GateInv

\* Every step keeps the invariant; only the link l of the step changes.
LEMMA GateNextInv ==
    ASSUME GateConstants PROVE GateInv /\ [GateNext]_gateVars => GateInv'
<1> SUFFICES ASSUME GateInv, [GateNext]_gateVars PROVE GateInv'
    OBVIOUS
<1> USE DEF GateInv, GateTypeOK, SentAdmitted, Accounting, AdmittedBound
<1>0. Cardinality(Slots) \in Nat \ {0} /\ Limit \in [Links -> Nat \cup {NoLimit}]
    BY SlotsCardinality DEF GateConstants
<1>1. ASSUME NEW l \in Links, NEW s \in Slots, Admit(l, s) PROVE GateInv'
  <2>1. /\ Cardinality(admitted[l] \cup {s}) = Cardinality(admitted[l]) + 1
        /\ Cardinality(admitted[l] \cup {s}) <= Cardinality(Slots)
        /\ Cardinality(admitted[l]) \in Nat
    <3>1. admitted[l] \cup {s} \in SUBSET Slots
        OBVIOUS
    <3>. QED  BY <1>1, <3>1, SlotCount DEF Admit
  <2>2. GateTypeOK' /\ SentAdmitted' /\ Accounting'
    BY <1>1 DEF Admit
  <2>3. AdmittedBound'
    <3> SUFFICES ASSUME NEW k \in Links, Limit[k] # NoLimit
                 PROVE  counted'[k] + Cardinality(admitted'[k])
                          <= Limit[k] - 1 + Cardinality(Slots)
        BY DEF AdmittedBound
    <3>1. CASE k # l
        BY <1>1, <3>1 DEF Admit
    <3>2. CASE k = l
        BY <1>0, <1>1, <2>1, <3>2 DEF Admit, Open
    <3>. QED  BY <3>1, <3>2
  <2>. QED  BY <2>2, <2>3
<1>2. ASSUME NEW l \in Links, NEW s \in Slots, Send(l, s) PROVE GateInv'
  <2>1. /\ Cardinality(sent[l] \cup {s}) = Cardinality(sent[l]) + 1
        /\ Cardinality(sent[l]) \in Nat
    BY <1>2, SlotCount DEF Send
  <2>2. GateTypeOK' /\ SentAdmitted' /\ AdmittedBound'
    BY <1>2 DEF Send
  <2>3. Accounting'
    <3> SUFFICES ASSUME NEW k \in Links
                 PROVE  forwarded'[k] = counted'[k] + Cardinality(sent'[k]) + lost'[k]
        BY DEF Accounting
    <3>1. CASE k # l
        BY <1>2, <3>1 DEF Send
    <3>2. CASE k = l
        BY <1>2, <2>1, <3>2 DEF Send
    <3>. QED  BY <3>1, <3>2
  <2>. QED  BY <2>2, <2>3
<1>3. ASSUME NEW l \in Links, NEW s \in Slots, Settle(l, s) \/ Lose(l, s)
      PROVE  GateInv'
  <2>1. /\ Cardinality(sent[l] \ {s}) = Cardinality(sent[l]) - 1
        /\ Cardinality(admitted[l] \ {s}) = Cardinality(admitted[l]) - 1
        /\ Cardinality(sent[l]) \in Nat
        /\ Cardinality(admitted[l]) \in Nat
    BY <1>3, SlotCount DEF Settle, Lose
  <2>2. GateTypeOK' /\ SentAdmitted'
    BY <1>3 DEF Settle, Lose
  <2>3. Accounting'
    <3> SUFFICES ASSUME NEW k \in Links
                 PROVE  forwarded'[k] = counted'[k] + Cardinality(sent'[k]) + lost'[k]
        BY DEF Accounting
    <3>1. CASE k # l
        BY <1>3, <3>1 DEF Settle, Lose
    <3>2. CASE k = l /\ Settle(l, s)
        BY <2>1, <3>2 DEF Settle
    <3>3. CASE k = l /\ Lose(l, s)
        BY <2>1, <3>3 DEF Lose
    <3>. QED  BY <1>3, <3>1, <3>2, <3>3
  <2>4. AdmittedBound'
    <3> SUFFICES ASSUME NEW k \in Links, Limit[k] # NoLimit
                 PROVE  counted'[k] + Cardinality(admitted'[k])
                          <= Limit[k] - 1 + Cardinality(Slots)
        BY DEF AdmittedBound
    <3>1. CASE k # l
        BY <1>3, <3>1 DEF Settle, Lose
    <3>2. CASE k = l /\ Settle(l, s)
        BY <1>0, <2>1, <3>2 DEF Settle
    <3>3. CASE k = l /\ Lose(l, s)
        BY <1>0, <2>1, <3>3 DEF Lose
    <3>. QED  BY <1>3, <3>1, <3>2, <3>3
  <2>. QED  BY <2>2, <2>3, <2>4
<1>4. ASSUME NEW l \in Links, NEW s \in Slots, Drop(l, s) PROVE GateInv'
  <2>1. /\ Cardinality(admitted[l] \ {s}) = Cardinality(admitted[l]) - 1
        /\ Cardinality(admitted[l]) \in Nat
    BY <1>4, SlotCount DEF Drop
  <2>2. GateTypeOK' /\ SentAdmitted' /\ Accounting'
    BY <1>4 DEF Drop
  <2>3. AdmittedBound'
    <3> SUFFICES ASSUME NEW k \in Links, Limit[k] # NoLimit
                 PROVE  counted'[k] + Cardinality(admitted'[k])
                          <= Limit[k] - 1 + Cardinality(Slots)
        BY DEF AdmittedBound
    <3>1. CASE k # l
        BY <1>4, <3>1 DEF Drop
    <3>2. CASE k = l
        BY <1>0, <1>4, <2>1, <3>2 DEF Drop
    <3>. QED  BY <3>1, <3>2
  <2>. QED  BY <2>2, <2>3
<1>5. ASSUME LoseAll PROVE GateInv'
  <2>1. Cardinality({}) = 0
    BY FS_EmptySet
  <2>2. \A l \in Links : Cardinality(sent[l]) \in Nat /\ Cardinality(admitted[l]) \in Nat
    BY SlotCount DEF GateConstants
  <2>3. GateTypeOK' /\ SentAdmitted'
    BY <1>5, <2>2 DEF LoseAll
  <2>4. Accounting'
    BY <1>5, <2>1, <2>2 DEF LoseAll
  <2>5. AdmittedBound'
    BY <1>0, <1>5, <2>1, <2>2 DEF LoseAll
  <2>. QED  BY <2>3, <2>4, <2>5
<1>6. CASE UNCHANGED gateVars
    BY <1>6 DEF gateVars
<1>. QED  BY <1>1, <1>2, <1>3, <1>4, <1>5, <1>6 DEF GateNext

LEMMA GateInvOverrun == ASSUME GateConstants PROVE GateInv => GateOverrun
<1> SUFFICES ASSUME GateInv, NEW l \in Links, Limit[l] # NoLimit
             PROVE  forwarded[l] <= Limit[l] - 1 + Cardinality(Slots) + lost[l]
    BY DEF GateOverrun
<1>1. /\ Cardinality(sent[l]) \in Nat
      /\ Cardinality(admitted[l]) \in Nat
      /\ Cardinality(sent[l]) <= Cardinality(admitted[l])
  <2>1. IsFiniteSet(admitted[l]) /\ sent[l] \in SUBSET admitted[l]
    BY SlotCount DEF GateConstants, GateInv, GateTypeOK, SentAdmitted
  <2>. QED  BY <2>1, FS_Subset, FS_CardinalityType
<1>. QED  BY <1>1, SlotsCardinality
          DEF GateConstants, GateInv, GateTypeOK, Accounting, AdmittedBound

\* The promise holds of every behaviour of the gate.
THEOREM GateOverrunTheorem ==
    ASSUME GateConstants PROVE GateSpec => []GateOverrun
    BY GateInitInv, GateNextInv, GateInvOverrun, PTL DEF GateSpec
=============================================================================
