---------------------------- MODULE CounterStore ----------------------------
(***************************************************************************)
(* The counters of one shared link as limiter.CounterStore keeps them in   *)
(* Redis: three integer keys, each of which may be absent.  Every operator *)
(* is the effect of one pipeline on the three keys of one link.            *)
(***************************************************************************)
EXTENDS Integers

\* The three keys of a link, in the order in which every pipeline names them.
Fields == {"requests", "bytes", "violations"}

\* A key that Redis does not hold (redis.Nil).
Nil == -1

\* A row of usage_counters, and what Get returns: a number for every field.
Counters == [Fields -> Nat]

\* What Redis holds for a link.
Keys == [Fields -> Nat \cup {Nil}]

ZeroCounters == [f \in Fields |-> 0]

NoKeys == [f \in Fields |-> Nil]

\* intOrZero: a missing key reads as 0.
IntOrZero(v) == IF v = Nil THEN 0 ELSE v

\* CounterStore.Get.
GetCounters(keys) == [f \in Fields |-> IntOrZero(keys[f])]

\* SETNX replaced by SET: the seed overwrites a live counter.
SetInsteadOfSetNX(v, seed) == seed

\* SETNX of one key.
SetNX(v, seed) == IF v = Nil THEN seed ELSE v

\* The prefixes of the warm-load pipeline: a broken connection may stop the
\* pipeline after any of its commands.
WarmPrefixes == {{}, {"requests"}, {"requests", "bytes"}, Fields}

\* CounterStore.WarmLoad, cut off after the keys in done.
WarmLoad(keys, seed, done) ==
    [f \in Fields |-> IF f \in done THEN SetNX(keys[f], seed[f]) ELSE keys[f]]

\* INCRBY: a missing key counts as 0 and is created.
IncrBy(keys, f, delta) == [keys EXCEPT ![f] = IntOrZero(@) + delta]
=============================================================================
