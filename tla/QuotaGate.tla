----------------------------- MODULE QuotaGate -----------------------------
(***************************************************************************)
(* What limit enforcement promises about the number of requests that reach *)
(* the target site, with no store, no schedule and no policy in sight.     *)
(*                                                                         *)
(* A slot (a request being served) is admitted while fewer than Limit      *)
(* requests have been counted, is then sent to the target, and is counted  *)
(* only afterwards; it may also be dropped before it is sent, or be lost,  *)
(* that is sent and never counted.  Enforcement implements this.           *)
(***************************************************************************)
EXTENDS Integers, FiniteSets

CONSTANTS Links, Slots, Limit

NoLimit == -1

\* What a use of the gate must provide.
GateConstants ==
    /\ IsFiniteSet(Slots) /\ Slots # {}
    /\ Limit \in [Links -> Nat \cup {NoLimit}]

VARIABLES
    counted,    \* Links -> requests counted
    admitted,   \* Links -> slots admitted, sent or not, and not yet counted
    sent,       \* Links -> those of them that have been sent
    forwarded,  \* Links -> requests sent, ever
    lost        \* Links -> requests sent and never counted

gateVars == <<counted, admitted, sent, forwarded, lost>>

GateInit ==
    /\ counted = [l \in Links |-> 0]
    /\ admitted = [l \in Links |-> {}]
    /\ sent = [l \in Links |-> {}]
    /\ forwarded = [l \in Links |-> 0]
    /\ lost = [l \in Links |-> 0]

Open(l) == Limit[l] = NoLimit \/ counted[l] < Limit[l]

Admit(l, s) ==
    /\ s \notin admitted[l]
    /\ Open(l)
    /\ admitted' = [admitted EXCEPT ![l] = @ \cup {s}]
    /\ UNCHANGED <<counted, sent, forwarded, lost>>

Send(l, s) ==
    /\ s \in admitted[l] \ sent[l]
    /\ sent' = [sent EXCEPT ![l] = @ \cup {s}]
    /\ forwarded' = [forwarded EXCEPT ![l] = @ + 1]
    /\ UNCHANGED <<counted, admitted, lost>>

Settle(l, s) ==
    /\ s \in sent[l]
    /\ counted' = [counted EXCEPT ![l] = @ + 1]
    /\ sent' = [sent EXCEPT ![l] = @ \ {s}]
    /\ admitted' = [admitted EXCEPT ![l] = @ \ {s}]
    /\ UNCHANGED <<forwarded, lost>>

Drop(l, s) ==
    /\ s \in admitted[l] \ sent[l]
    /\ admitted' = [admitted EXCEPT ![l] = @ \ {s}]
    /\ UNCHANGED <<counted, sent, forwarded, lost>>

Lose(l, s) ==
    /\ s \in sent[l]
    /\ lost' = [lost EXCEPT ![l] = @ + 1]
    /\ sent' = [sent EXCEPT ![l] = @ \ {s}]
    /\ admitted' = [admitted EXCEPT ![l] = @ \ {s}]
    /\ UNCHANGED <<counted, forwarded>>

LoseAll ==
    /\ lost' = [l \in Links |-> lost[l] + Cardinality(sent[l])]
    /\ sent' = [l \in Links |-> {}]
    /\ admitted' = [l \in Links |-> {}]
    /\ UNCHANGED <<counted, forwarded>>

GateNext ==
    \/ \E l \in Links, s \in Slots :
          Admit(l, s) \/ Send(l, s) \/ Settle(l, s) \/ Drop(l, s) \/ Lose(l, s)
    \/ LoseAll

GateSpec == GateInit /\ [][GateNext]_gateVars

-----------------------------------------------------------------------------
(* The inductive invariant, in named parts.                                *)

GateTypeOK ==
    /\ counted \in [Links -> Nat]
    /\ admitted \in [Links -> SUBSET Slots]
    /\ sent \in [Links -> SUBSET Slots]
    /\ forwarded \in [Links -> Nat]
    /\ lost \in [Links -> Nat]

SentAdmitted == \A l \in Links : sent[l] \subseteq admitted[l]

\* No request disappears: it is counted, lost or still under way.
Accounting ==
    \A l \in Links : forwarded[l] = counted[l] + Cardinality(sent[l]) + lost[l]

\* The quota plus what may still be under way when it is used up.
AdmittedBound ==
    \A l \in Links : Limit[l] # NoLimit =>
        counted[l] + Cardinality(admitted[l]) <= Limit[l] - 1 + Cardinality(Slots)

GateInv == GateTypeOK /\ SentAdmitted /\ Accounting /\ AdmittedBound

\* The promise: the limit is exceeded by less than the number of slots, not
\* counting requests that were lost.
GateOverrun ==
    \A l \in Links : Limit[l] # NoLimit =>
        forwarded[l] <= Limit[l] - 1 + Cardinality(Slots) + lost[l]
=============================================================================
