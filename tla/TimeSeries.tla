----------------------------- MODULE TimeSeries -----------------------------
(***************************************************************************)
(* Scalar time series (-ts_file): the interpolation buffer of every         *)
(* DiagnosticTimeseries, the records it holds back, and the file all the    *)
(* diagnostics share, over a chain of runs that resume from saved states.   *)
(*                                                                          *)
(* All diagnostics are updated and saved together, so they share one buffer *)
(* of times and of records; they are flushed one after the other.  In place *)
(* of a value the model keeps the time at which the quantity was sampled.   *)
(***************************************************************************)
EXTENDS ReportTimes

CONSTANTS Start,       \* time of the model state the first run starts from
          MaxRuns,     \* bound on the number of runs
          Plans,       \* what may be asked of a chain of runs:
                       \* requests: -ts_times, ranged: given as a range;
                       \* appending: runs after the first use -ts_append;
                       \* stops, crashes: runs may be ended by SIGTERM, killed;
                       \* ends: the ends of runs, which bound the clock
          BufferSize,  \* timeseries_buffer_size
          Diags        \* the diagnostics (-ts_vars), in the order of their names

PlanType == [requests : Seq(Nat), ranged : BOOLEAN, appending : BOOLEAN,
             stops : BOOLEAN, crashes : BOOLEAN, ends : SUBSET Nat]

DiagSet == {Diags[i] : i \in 1..Len(Diags)}

ASSUME TimeSeriesAssumption ==
  /\ Start \in Nat /\ MaxRuns \in Nat
  /\ \A p \in Plans :
       /\ p \in PlanType /\ Increasing(p.requests)
       /\ \E last \in p.ends \cup {Start} : \A e \in p.ends \cup {Start} : e =< last
  /\ BufferSize \in Nat \ {0}
  /\ Diags \in Seq(DiagSet) /\ Len(Diags) > 0
  /\ \A i, j \in 1..Len(Diags) : Diags[i] = Diags[j] => i = j

VARIABLES plan,      \* the options of the chain of runs
          phase,     \* where the program is, see TypeOK
          start, end, now,
          prev,      \* the beginning of the last step
          saved,     \* time of the latest backup or output file
          runs,      \* number of runs started
          times,     \* ts_times; <<>> once save_ts is off
          current,   \* current_ts + 1
          mT,        \* m_t: times of the interpolation buffer
          mV,        \* m_v: its values
          pending,   \* m_time, m_time_bounds and m_values
          toFlush,   \* diagnostics still to be flushed
          mStart,    \* m_start of each diagnostic
          axis,      \* the file: times and bounds
          column     \* the file: values of each diagnostic

runVars    == <<start, end, runs>>
bufferVars == <<times, current, mT, mV>>
fileVars   == <<mStart, axis, column>>
vars == <<plan, phase, now, prev, saved, runVars, bufferVars, pending, toFlush,
          fileVars>>

Requests == plan.requests

(* What NC_NOFILL leaves in a record nobody has written.                    *)
Garbage == [at |-> -1, ends |-> <<>>, samples |-> <<>>, step |-> <<>>]

-----------------------------------------------------------------------------
(* init_timeseries(): times before the last record of the file and before   *)
(* the start of the run are dropped.                                        *)
DropEarlyInclusive(s, t) ==              \* mutant: =< for <
  LET kept == {n \in 1..Len(s) + 1 : n =< Len(s) => s[n] > t}
      n    == CHOOSE m \in kept : \A k \in kept : m =< k
  IN  SubSeq(s, n, Len(s))

DropEarly(s, t) ==
  LET kept == {n \in 1..Len(s) + 1 : n =< Len(s) => s[n] >= t}
      n    == CHOOSE m \in kept : \A k \in kept : m =< k
  IN  SubSeq(s, n, Len(s))

LastTime == axis[Len(axis)].at

(* append(): an element goes at the front when the times would be three.    *)
Push(q, t) == IF Len(mT) = 2 THEN Tail(Append(q, t)) ELSE Append(q, t)

(* interp(): the values come from the first two elements of the buffer;     *)
(* with a single time the record is NaN (no samples).                       *)
Samples == IF Len(mT) = 1 THEN <<>> ELSE SubSeq(mV, 1, 2)

NewRecord == [at |-> times[current], lo |-> times[current - 1],
              ends |-> mT, samples |-> Samples, step |-> <<prev, now>>]

(* Only the interpolating branch of interp() tests whether the buffer is    *)
(* full.                                                                    *)
FlushNow(q) == Len(mT) = 2 /\ Len(q) = BufferSize

(* write_timeseries(), first part: if a time is due all the diagnostics are *)
(* updated with the quantity at time t.                                     *)
UpdateAtStart(t) ==                      \* mutant: append() stores a, not b
  IF current =< Len(times) /\ times[current] =< t
  THEN /\ mT' = Push(mT, now)
       /\ mV' = Push(mV, t)
       /\ phase' = "saving"
  ELSE UNCHANGED <<mT, mV>> /\ phase' = "loop"

Update(t) ==
  IF current =< Len(times) /\ times[current] =< t
  THEN /\ mT' = Push(mT, t)
       /\ mV' = Push(mV, t)
       /\ phase' = "saving"
  ELSE UNCHANGED <<mT, mV>> /\ phase' = "loop"

-----------------------------------------------------------------------------
Init ==
  /\ plan \in Plans
  /\ phase = "idle"
  /\ start = Start /\ end = Start /\ now = Start /\ prev = Start
  /\ saved = Start /\ runs = 0
  /\ times = <<>> /\ current = 1
  /\ mT = <<>> /\ mV = <<>> /\ pending = <<>>
  /\ toFlush = <<>>
  /\ mStart = [d \in DiagSet |-> 0]
  /\ axis = <<>>
  /\ column = [d \in DiagSet |-> <<>>]

(* init_timeseries() and DiagnosticTimeseries::init(): without -ts_append   *)
(* an existing file is moved aside; with it, the last value in the file is  *)
(* put into the interpolation buffer.                                       *)
StartRun(newEnd) ==
  LET append == plan.appending /\ runs > 0
      asked  == ParseTimes(Requests, saved, newEnd, plan.ranged)
      fresh  == IF append /\ axis # <<>> THEN DropEarly(asked, LastTime)
                                         ELSE asked
  IN
  /\ phase = "idle" /\ runs < MaxRuns
  /\ saved < newEnd
  /\ start' = saved /\ now' = saved /\ prev' = saved /\ end' = newEnd
  /\ runs' = runs + 1
  /\ times' = DropEarly(fresh, saved)
  /\ current' = 1
  /\ mT' = <<>>
  /\ mV' = IF append /\ axis # <<>> THEN <<LastTime>> ELSE <<>>
  /\ pending' = <<>>
  /\ toFlush' = <<>>
  /\ axis' = IF append THEN axis ELSE <<>>
  /\ column' = IF append THEN column ELSE [d \in DiagSet |-> <<>>]
  /\ mStart' = [d \in DiagSet |-> Len(axis')]
  /\ phase' = "begin"
  /\ UNCHANGED <<plan, saved>>

(* The write_timeseries() at the beginning of run().                        *)
Begin ==
  /\ phase = "begin"
  /\ Update(now)
  /\ UNCHANGED <<plan, now, prev, saved, runVars, times, current, pending, toFlush,
                 fileVars>>

(* step() and the first part of write_timeseries().                         *)
Step(t) ==
  /\ phase = "loop"
  /\ now < end /\ now < t /\ t =< end
  /\ prev' = now
  /\ now' = t
  /\ Update(t)
  /\ UNCHANGED <<plan, saved, runVars, times, current, pending, toFlush, fileVars>>

(* write_timeseries(), second part: one requested time after the other; the *)
(* first is the left end of the first interval.                             *)
SaveFirst ==
  /\ phase = "saving"
  /\ current = 1 /\ times # <<>> /\ times[1] =< now
  /\ current' = 2
  /\ UNCHANGED <<plan, phase, now, prev, saved, runVars, times, mT, mV, pending,
                 toFlush, fileVars>>

Save ==
  /\ phase = "saving"
  /\ current > 1 /\ current =< Len(times)
  /\ times[current] =< now
  /\ current' = current + 1
  /\ pending' = Append(pending, NewRecord)
  /\ toFlush' = IF FlushNow(pending') THEN Diags ELSE <<>>
  /\ phase' = IF FlushNow(pending') THEN "flushing" ELSE "saving"
  /\ UNCHANGED <<plan, now, prev, saved, runVars, times, mT, mV, fileVars>>

SavedAll ==
  /\ phase = "saving"
  /\ current =< Len(times) => times[current] > now
  /\ phase' = "loop"
  /\ UNCHANGED <<plan, now, prev, saved, runVars, bufferVars, pending, toFlush,
                 fileVars>>

(* flush_timeseries(), after a spatial report, a snapshot, a backup (which  *)
(* has been written by then) or a signal.                                   *)
RequestFlush(backup) ==
  /\ phase = "loop" /\ pending # <<>> /\ now > start
  /\ phase' = "flushing"
  /\ toFlush' = Diags
  /\ saved' = IF backup THEN now ELSE saved
  /\ UNCHANGED <<plan, now, prev, runVars, bufferVars, pending, fileVars>>

(* flush() of one diagnostic: the first one to be flushed extends the time  *)
(* axis, the others find it extended.                                       *)
FlushStart(d) ==
  IF axis # <<>> /\ LastTime < pending[1].at THEN Len(axis) ELSE mStart[d]

WriteAfter(col, first, recs) ==          \* mutant: after the values there are
  col \o [k \in 1..Len(recs) |-> [at |-> recs[k].at, ends |-> recs[k].ends,
                                  samples |-> recs[k].samples,
                                  step |-> recs[k].step]]

WriteFrom(col, first, recs) ==
  [k \in 1..first + Len(recs) |->
     IF k > first THEN [at |-> recs[k - first].at, ends |-> recs[k - first].ends,
                        samples |-> recs[k - first].samples,
                        step |-> recs[k - first].step]
     ELSE IF k =< Len(col) THEN col[k] ELSE Garbage]

Flush ==
  LET d     == Head(toFlush)
      first == FlushStart(d)
      marks == [k \in 1..Len(pending) |-> [at |-> pending[k].at,
                                          lo |-> pending[k].lo]]
  IN
  /\ phase \in {"flushing", "closing"}
  /\ toFlush # <<>> /\ pending # <<>>
  /\ axis' = IF Len(axis) = first THEN axis \o marks ELSE axis
  /\ column' = [column EXCEPT ![d] = WriteFrom(@, first, pending)]
  /\ mStart' = [mStart EXCEPT ![d] = first + Len(pending)]
  /\ toFlush' = Tail(toFlush)
  /\ pending' = IF Len(toFlush) = 1 THEN <<>> ELSE pending
  /\ UNCHANGED <<plan, phase, now, prev, saved, runVars, bufferVars>>

FlushDone ==
  /\ phase \in {"flushing", "closing"}
  /\ pending = <<>>
  /\ phase' = IF phase = "closing" THEN "idle" ELSE "saving"
  /\ toFlush' = <<>>
  /\ UNCHANGED <<plan, now, prev, saved, runVars, bufferVars, pending, fileVars>>

(* The loop ends, or endOfTimeStepHook() leaves it; the output file is      *)
(* written, then the destructors flush what is left.                        *)
Finish ==
  /\ phase = "loop"
  /\ now >= end \/ (plan.stops /\ now > start)
  /\ saved' = now
  /\ toFlush' = Diags
  /\ phase' = "closing"
  /\ UNCHANGED <<plan, now, prev, runVars, bufferVars, pending, fileVars>>

Kill ==
  /\ plan.crashes
  /\ phase # "idle"
  /\ phase' = "idle"
  /\ UNCHANGED <<plan, now, prev, saved, runVars, bufferVars, pending, toFlush,
                 fileVars>>

Clock == LET ends == plan.ends \cup {Start}
             last == CHOOSE e \in ends : \A f \in ends : f =< e
         IN  Start..last

Next ==
  \/ \E e \in plan.ends : StartRun(e)
  \/ Begin
  \/ \E t \in Clock : Step(t)
  \/ SaveFirst \/ Save \/ SavedAll
  \/ \E backup \in BOOLEAN : RequestFlush(backup)
  \/ Flush \/ FlushDone
  \/ Finish
  \/ Kill

Spec == Init /\ [][Next]_vars

-----------------------------------------------------------------------------
TypeOK ==
  /\ plan \in Plans
  /\ phase \in {"idle", "begin", "loop", "saving", "flushing", "closing"}
  /\ {start, end, now, prev, saved, runs} \subseteq Nat
  /\ times \in Seq(Nat) /\ current \in 1..Len(times) + 1
  /\ mT \in Seq(Nat) /\ Len(mT) =< 2 /\ mV \in Seq(Nat)
  /\ toFlush \in Seq(DiagSet)
  /\ mStart \in [DiagSet -> Nat]
  /\ DOMAIN column = DiagSet

(* The records of every diagnostic stand beside their times on the axis the *)
(* diagnostics share, whatever part of a flush a kill left undone.          *)
ColumnsAligned ==
  \A d \in DiagSet :
     /\ Len(column[d]) =< Len(axis)
     /\ \A k \in 1..Len(column[d]) :
           column[d][k] # Garbage => column[d][k].at = axis[k].at

(* No time is on the axis twice or out of order, over all the runs that     *)
(* append to the file.                                                      *)
AxisIncreasing ==
  \A k \in 2..Len(axis) : axis[k - 1].at < axis[k].at

(* Between runs the file has a value of every diagnostic at every requested *)
(* time passed, after the first.                                            *)
SeriesComplete ==
  phase = "idle" =>
    \A i \in 2..Len(Requests) :
       Start < Requests[i] /\ Requests[i] =< now =>
          \A d \in DiagSet :
             \E k \in 1..Len(column[d]) : column[d][k].at = Requests[i]

(* It is so for runs that begin and end at requested times, are not cut     *)
(* short, and write to one file.                                            *)
AlignedSeriesComplete ==
  /\ plan.appending /\ ~plan.stops /\ ~plan.crashes
  /\ plan.ends \cup {Start} \subseteq {Requests[i] : i \in 1..Len(Requests)}
  => SeriesComplete

(* interp() never meets a requested time outside its buffer (it would       *)
(* throw), however many steps pass between requested times.                 *)
RequestWithinBuffer ==
  phase = "saving" /\ current \in 2..Len(times) /\ Len(mT) >= 2 =>
     (times[current] =< now =>
        mT[1] =< times[current] /\ times[current] =< mT[2])

(* When the first requested time is not after the start of the run, no more *)
(* records wait than the buffer may hold.                                   *)
BufferBound ==
  times # <<>> /\ times[1] =< start /\ phase \in {"loop", "saving"} =>
    Len(pending) < BufferSize

(* Timeseries.cc: what a chain of runs leaves in a file that is appended to *)
(* is a table, with a column for every diagnostic beside one axis of        *)
(* increasing times, and the buffers stay within their bounds.              *)
SeriesConsistent == TypeOK /\ ColumnsAligned /\ AxisIncreasing /\ BufferBound

(* A record is interpolated from the quantity at the ends of its buffer.    *)
SamplesMatchTimes ==
  \A d \in DiagSet, k \in 1..Len(axis) :
     k =< Len(column[d]) /\ column[d][k].samples # <<>> =>
        column[d][k].samples = column[d][k].ends

(* It is so in files that no run appends to.                                *)
NewFileSamplesMatch == ~plan.appending => SamplesMatchTimes

(* Timeseries::interp(): the buffer holds the requested time, and values    *)
(* that belong to its times, however many steps pass between two requests.  *)
InterpolationRight == RequestWithinBuffer /\ NewFileSamplesMatch

(* What the manual says of the values: they are interpolated in between the *)
(* actual time steps.                                                       *)
WithinLastStep ==
  \A d \in DiagSet, k \in 1..Len(axis) :
     k =< Len(column[d]) /\ column[d][k].samples # <<>> =>
        column[d][k].ends = column[d][k].step

(* What the manual says of the records: every one is interpolated.          *)
NoMissingValue ==
  \A d \in DiagSet, k \in 1..Len(axis) :
     k =< Len(column[d]) /\ column[d][k] # Garbage => column[d][k].samples # <<>>
=============================================================================
