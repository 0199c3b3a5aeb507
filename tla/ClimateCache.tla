---------------------------- MODULE ClimateCache ----------------------------
(***************************************************************************)
(* The modifier -surface ...,cache and -ocean ...,cache: the model below it *)
(* is updated every few years only, and its outputs are kept in between.    *)
(* PSCache and POCache have the same schedule.                              *)
(***************************************************************************)
EXTENDS Integers

CONSTANTS Second,          \* one second, in units of time
          CacheInterval    \* years between updates of the input model

ASSUME CacheAssumption ==
  /\ Second \in Nat \ {0}
  /\ CacheInterval \in Nat
  /\ CacheInterval >= Second

Never == -1

CacheState == [next : Int, at : Int]

CacheInit(t) == [next |-> t, at |-> Never]

(* An update a little early, because of rounding, is an update.             *)
Due(c, t) == t >= c.next \/ c.next - t < Second

(* The next update is due an interval after this one was due.               *)
CacheUpdate(c, t) ==
  IF Due(c, t) THEN [next |-> c.next + CacheInterval, at |-> t] ELSE c

CacheLimit(c, t) == IF c.next - t < Second THEN CacheInterval ELSE c.next - t
=============================================================================
