----------------------------- MODULE ModelClock -----------------------------
(***************************************************************************)
(* What the rest of the program may assume of the time-stepping loop of     *)
(* IceModel::run(): a clock that only moves forward, never passes the end   *)
(* of the run by more than Slack, and a loop that returns only when the     *)
(* clock has reached the end, when it was interrupted, or when a sub-model  *)
(* gave up.  TimeStepping implements this module; the modules that model    *)
(* the users of the clock (reporting, caching, forcing) are driven by it.   *)
(***************************************************************************)
EXTENDS Integers

CONSTANTS Start,      \* model time at which the run begins
          EndTimes,   \* the ends a caller may ask IceModel::run_to() for
          Slack       \* how far the last step may carry the clock past the end

VARIABLES now,     \* Time::current()
          end,     \* Time::end()
          phase    \* "ready", "running", "done" or "failed"

clock == <<now, end, phase>>

Init ==
  /\ now = Start
  /\ end = Start
  /\ phase = "ready"

(* A caller sets the end of the run and enters the loop.                    *)
Begin ==
  /\ phase \in {"ready", "done"}
  /\ end' \in EndTimes
  /\ now' = now
  /\ phase' = IF now < end' THEN "running" ELSE "done"

(* One pass of the loop.  A pass that reaches the end leaves the loop; a    *)
(* pass may also leave it early (a termination signal).                     *)
Tick ==
  /\ phase = "running"
  /\ now' > now
  /\ now' =< end + Slack
  /\ end' = end
  /\ phase' \in IF now' < end THEN {"running", "done"} ELSE {"done"}

(* A sub-model throws: the program stops with the clock where it was.       *)
Abort ==
  /\ phase = "running"
  /\ phase' = "failed"
  /\ UNCHANGED <<now, end>>

Next == Begin \/ Tick \/ Abort

Spec == Init /\ [][Next]_clock
=============================================================================
