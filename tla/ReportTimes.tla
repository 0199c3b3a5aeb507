---------------------------- MODULE ReportTimes -----------------------------
(***************************************************************************)
(* Requested times, shared by the modules on spatial reports and on scalar  *)
(* time series: how an argument such as -extra_times is read and how the    *)
(* adaptive time step is kept from passing the next requested time.         *)
(***************************************************************************)
EXTENDS Integers, Sequences

Increasing(s) == \A i, j \in 1..Len(s) : i < j => s[i] < s[j]

Distance(a, b) == IF a < b THEN b - a ELSE a - b

(* Time::parse_times(): a range a:dt:b keeps the times within the run, a    *)
(* list all of them.                                                        *)
ParseTimes(s, from, to, ranged) ==
  LET within == {i \in 1..Len(s) : from =< s[i] /\ s[i] =< to}
      first  == CHOOSE i \in within : \A k \in within : i =< k
      last   == CHOOSE i \in within : \A k \in within : k =< i
  IN  IF ~ranged THEN s
      ELSE IF within = {} THEN <<>> ELSE SubSeq(s, first, last)

(* reporting_max_timestep(): the time to the next requested time, or to the *)
(* one after it when the step would be shorter than a second (tol); 0: no   *)
(* limit.                                                                   *)
ReportLimit(s, t, tol) ==
  LET later == {i \in 1..Len(s) : s[i] > t}
      j     == CHOOSE i \in later : \A k \in later : i =< k
  IN  IF later = {} THEN 0
      ELSE IF s[j] - t >= tol THEN s[j] - t
      ELSE IF j + 1 =< Len(s) THEN s[j + 1] - t ELSE 0
=============================================================================
