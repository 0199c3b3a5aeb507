------------------------------ MODULE SnowCover ------------------------------
(***************************************************************************)
(* The snow of the temperature-index model (PSTemperatureIndex) at one      *)
(* point.  An update over [t, t + d) samples temperature and precipitation  *)
(* N times a year, and a unit of time is such an interval; snow falls and   *)
(* melts in each, and the cover is removed when a balance year begins.      *)
(***************************************************************************)
EXTENDS Integers

CONSTANTS Year,          \* its length
          BalanceDay,    \* the start of the balance year in it
          Snowfall,      \* accumulation at each time of the year
          MeltCapacity   \* snow that the degree days of that time can melt

ASSUME SnowAssumption ==
  /\ Year \in Nat \ {0}
  /\ BalanceDay \in 0..(Year - 1)
  /\ Snowfall \in [0..(Year - 1) -> Nat]
  /\ MeltCapacity \in [0..(Year - 1) -> Nat]

NoCall == <<-1, -1>>     \* m_t and m_dt are NaN

(* History kept with the snow: when the oldest of it fell, the last sample  *)
(* of the last update, the balance year of the last reset and how often it  *)
(* was reset for that year, and the starts of balance years that a run      *)
(* skipped, because it began then or later and none before had a sample.    *)
SnowState ==
  [depth : Nat, next : Int, call : Int \X Int,
   oldest : Int, last : Int, resetFor : Int, resets : Nat,
   skipped : SUBSET Int]

(* The start of the balance year that t is in.                              *)
BalanceYearStart(t) ==
  LET b == (t \div Year) * Year + BalanceDay IN IF b > t THEN b - Year ELSE b

ComputeNextBalanceYearStart(t) ==
  LET b == (t \div Year) * Year + BalanceDay IN IF b > t THEN b ELSE b + Year

(* init_impl(): the depth comes from the file.                              *)
SnowInit(s, t) ==
  [s EXCEPT !.call = NoCall, !.next = ComputeNextBalanceYearStart(t),
            !.skipped = @ \cup {b \in {BalanceYearStart(t)} : s.last < b}]

Bare(t) ==
  [depth |-> 0, next |-> ComputeNextBalanceYearStart(t), call |-> NoCall,
   oldest |-> t, last |-> t - 1, resetFor |-> -1, resets |-> 0, skipped |-> {}]

(* A sample at or after the start of the next balance year removes the      *)
(* snow; the while loop goes to the first start after the sample.           *)
Reset(s, t) ==
  IF t < s.next THEN s
  ELSE [s EXCEPT !.depth = 0,
                 !.next = @ + Year * ((t - @) \div Year + 1),
                 !.resetFor = BalanceYearStart(t),
                 !.resets = IF s.resetFor = BalanceYearStart(t) THEN @ + 1 ELSE 1]

(* PDDMassBalance::step(): what the degree days cannot melt stays.          *)
FallAndMelt(s, t) ==
  LET fallen == s.depth + Snowfall[t % Year]
      left   == IF MeltCapacity[t % Year] <= fallen
                  THEN fallen - MeltCapacity[t % Year] ELSE 0
  IN  [s EXCEPT !.depth = left, !.oldest = IF s.depth = 0 THEN t ELSE @]

Series(s, t, d) ==
  LET after[k \in 0..d] ==
        IF k = 0 THEN s ELSE FallAndMelt(Reset(after[k - 1], t + k - 1), t + k - 1)
  IN  after[d]

(* update_impl(): the next start is computed again from the model time,     *)
(* which is the beginning of the step.  Snow over the ocean does not stick. *)
SnowUpdate(s, t, d, ocean) ==
  IF s.call = <<t, d>> THEN s
  ELSE LET after == Series(s, t, d)
       IN  [depth |-> IF ocean THEN 0 ELSE after.depth, oldest |-> after.oldest,
            call |-> <<t, d>>, next |-> ComputeNextBalanceYearStart(t),
            last |-> t + d - 1, resetFor |-> after.resetFor,
            resets |-> after.resets, skipped |-> after.skipped]
=============================================================================
