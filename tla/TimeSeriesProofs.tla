-------------------------- MODULE TimeSeriesProofs --------------------------
(***************************************************************************)
(* For every list of requested times, size of the buffer, number of         *)
(* diagnostics and chain of runs: the file stays a table, interp() finds    *)
(* what it needs in its buffer, and runs that continue each other at        *)
(* requested times leave a complete series.                                 *)
(*                                                                          *)
(* The invariant has two parts.  TableInv says how the list of times, the   *)
(* interpolation buffer, the records that wait and the file belong together *)
(* in every run, and what a flush that is half done leaves.  CompleteInv    *)
(* says where each requested time is: in the file, among the records that   *)
(* wait, or still in the list.                                              *)
(***************************************************************************)
EXTENDS TimeSeries, WellFoundedInduction, SequenceTheorems, TLAPS

-----------------------------------------------------------------------------
(* The parts of the invariant.                                              *)
Marks   == [at : Nat, lo : Nat]
Records == [at : Nat, lo : Nat, ends : Seq(Nat), samples : Seq(Nat), step : Seq(Nat)]
Entries == [at : Int, ends : Seq(Nat), samples : Seq(Nat), step : Seq(Nat)]

Active   == phase # "idle"
Flushing == phase \in {"flushing", "closing"}

(* The first record that waits is that of the time with this index.         *)
FirstHeld == current - Len(pending)

(* Some diagnostics have been flushed, others have not.                     *)
Begun      == toFlush # <<>> /\ Len(toFlush) < Len(Diags)
Unflushed(i) == i > Len(Diags) - Len(toFlush)

FileTypes ==
  /\ pending \in Seq(Records)
  /\ axis \in Seq(Marks)
  /\ column \in [DiagSet -> Seq(Entries)]

(* The list of a run begins at its start or later, and in time order.       *)
RunTimes ==
  /\ Increasing(times)
  /\ \A j \in 1..Len(times) : start =< times[j]
  /\ start =< now

(* What the interpolation buffer holds: the times of the last two updates,  *)
(* the latest of which is the present one when a time is due.               *)
BufferInv ==
  /\ Len(mT) =< Len(mV)
  /\ ~plan.appending => mV = mT
  /\ \A k \in 1..Len(mT) : mT[k] =< now
  /\ Len(mT) = 2 => mT[1] < mT[2]
  /\ Len(mT) = 2 /\ current =< Len(times) => mT[1] < times[current]
  /\ phase = "begin" => current = 1 /\ mT = <<>> /\ pending = <<>> /\ now = start
  /\ phase \in {"loop", "closing"} /\ current =< Len(times) => now < times[current]
  /\ phase \in {"saving", "flushing"} /\ current =< Len(times) /\ times[current] =< now
       => mT # <<>> /\ mT[Len(mT)] = now

(* From the start of a run that was asked for its start on, there is a      *)
(* value to interpolate from.                                               *)
FullInv ==
  times # <<>> /\ times[1] =< start /\ phase \in {"loop", "saving", "flushing"} =>
    /\ Len(mT) > 0
    /\ Len(pending) =< BufferSize
    /\ phase # "flushing" => Len(pending) < BufferSize
    /\ phase # "loop" /\ current =< Len(times) /\ times[current] =< now /\ start < now
         => Len(mT) = 2

(* The records that wait are those of the last times consumed.              *)
HeldInv ==
  /\ pending # <<>> => Len(pending) =< current - 2
  /\ \A k \in 1..Len(pending) : pending[k].at = times[FirstHeld - 1 + k]
  /\ ~plan.appending => \A k \in 1..Len(pending) :
        pending[k].samples # <<>> => pending[k].samples = pending[k].ends

(* Times still to be written are later than the axis, which is as long as   *)
(* every diagnostic takes it for; during a flush the axis is ahead.         *)
FlushInv ==
  /\ ~Flushing => toFlush = <<>>
  /\ phase = "flushing" /\ pending # <<>> => toFlush # <<>>
  /\ phase = "closing" /\ pending # <<>> => toFlush # <<>>
  /\ Len(toFlush) =< Len(Diags)
  /\ \A k \in 1..Len(toFlush) : toFlush[k] = Diags[Len(Diags) - Len(toFlush) + k]
  /\ \A d \in DiagSet : Len(column[d]) =< mStart[d]
  /\ ~Begun =>
       /\ \A d \in DiagSet : mStart[d] = Len(axis)
       /\ \A j \in 2..Len(times), k \in 1..Len(axis) :
             FirstHeld =< j => axis[k].at < times[j]
  /\ Begun =>
       /\ pending # <<>> /\ Len(pending) =< Len(axis)
       /\ \A k \in 1..Len(pending) :
             axis[Len(axis) - Len(pending) + k].at = pending[k].at
       /\ \A i \in 1..Len(Diags) :
             mStart[Diags[i]] = IF Unflushed(i) THEN Len(axis) - Len(pending) ELSE Len(axis)
       /\ \A j \in 2..Len(times), k \in 1..Len(axis) :
             current =< j => axis[k].at < times[j]

ColumnSamples ==
  ~plan.appending => \A d \in DiagSet : \A k \in 1..Len(column[d]) :
     column[d][k].samples # <<>> => column[d][k].samples = column[d][k].ends

TableInv ==
  /\ TypeOK /\ FileTypes /\ ColumnsAligned /\ AxisIncreasing /\ ColumnSamples
  /\ Active => RunTimes /\ BufferInv /\ FullInv /\ HeldInv /\ FlushInv

-----------------------------------------------------------------------------
Requested == {Requests[i] : i \in 1..Len(Requests)}
Aligned ==
  /\ plan.appending /\ ~plan.stops /\ ~plan.crashes
  /\ plan.ends \cup {Start} \subseteq Requested

HasRecord(d, t) == \E k \in 1..Len(column[d]) : column[d][k].at = t

CompleteTo(t) ==
  \A i \in 2..Len(Requests) :
     Start < Requests[i] /\ Requests[i] =< t => \A d \in DiagSet : HasRecord(d, Requests[i])

(* Between runs the file is complete to the time of the saved state.        *)
IdleComplete ==
  /\ now = saved /\ now \in Requested /\ CompleteTo(now)
  /\ runs = 0 => now = Start

(* Within a run, what is requested before its end and is not in the file is *)
(* still to be saved or waits to be flushed.                                *)
RunComplete ==
  /\ runs > 0 /\ now =< end /\ end \in plan.ends /\ CompleteTo(start)
  /\ phase = "closing" => now = end /\ saved = end
  /\ \A i \in 1..Len(Requests) : start =< Requests[i] /\ Requests[i] =< end =>
        \E j \in 1..Len(times) : times[j] = Requests[i]
  /\ times # <<>> /\ times[1] = start
  /\ \A j \in 1..current - 1 : times[j] =< now
  /\ \A j \in 2..FirstHeld - 1 : \A d \in DiagSet : HasRecord(d, times[j])
  /\ Begun => \A i \in 1..Len(Diags) : ~Unflushed(i) =>
        \A j \in 2..current - 1 : HasRecord(Diags[i], times[j])

CompleteInv ==
  Aligned =>
    /\ \A k \in 1..Len(axis) : axis[k].at =< now
    /\ phase = "idle" => IdleComplete
    /\ Active => RunComplete

IInv == TableInv /\ CompleteInv

-----------------------------------------------------------------------------
(* The lists of requested times.                                            *)

(* A set of times or of indices has a least element.                        *)
LEMMA Least ==
  ASSUME NEW S \in SUBSET Nat, S # {}
  PROVE  \E m \in S : \A k \in S : m =< k
<1> DEFINE R == OpToRel(<, Nat)
<1>1. \A x, y \in Nat : x < y => <<x, y>> \in R
  BY DEF OpToRel
<1>2. IsWellFoundedOn(R, Nat)
  BY NatLessThanWellFounded
<1> HIDE DEF R
<1>3. PICK m \in S : \A y \in S : ~(<<y, m>> \in R)
  BY <1>2, WFMin
<1>4. SUFFICES ASSUME NEW k \in S PROVE m =< k
  OBVIOUS
<1>5. k \in Nat /\ m \in Nat
  OBVIOUS
<1>6. ~(k < m)
  BY <1>1, <1>3, <1>5
<1> QED
  BY <1>5, <1>6

(* A set of indices up to n has a greatest element.                         *)
LEMMA Greatest ==
  ASSUME NEW n \in Nat, NEW S \in SUBSET (1..n), S # {}
  PROVE  \E m \in S : \A k \in S : k =< m
<1> DEFINE T == {x \in 0..n : n - x \in S}
<1>1. PICK i \in S : TRUE
  OBVIOUS
<1>2. n - i \in T
  BY <1>1
<1>3. T \in SUBSET Nat /\ T # {}
  <2>1. \A x \in T : x \in Nat
    OBVIOUS
  <2> HIDE DEF T
  <2> QED
    BY <1>2, <2>1
<1>4. PICK x \in T : \A y \in T : x =< y
  BY <1>3, Least
<1>5. n - x \in S
  BY <1>4
<1>6. ASSUME NEW k \in S PROVE k =< n - x
  <2>1. k \in 1..n
    OBVIOUS
  <2>2. n - k \in T
    <3>1. n - k \in 0..n /\ n - (n - k) = k
      BY <2>1
    <3> QED
      BY <3>1
  <2>3. x \in 0..n /\ x =< n - k
    BY <1>4, <2>2
  <2> QED
    BY <2>1, <2>3
<1> QED
  BY <1>5, <1>6

(* A part of a list of requested times is one too.                          *)
LEMMA PartOf ==
  ASSUME NEW s \in Seq(Nat), Increasing(s),
         NEW m \in 1..Len(s), NEW n \in m..Len(s)
  PROVE  /\ SubSeq(s, m, n) \in Seq(Nat)
         /\ Len(SubSeq(s, m, n)) = n - m + 1
         /\ \A j \in 1..n - m + 1 : SubSeq(s, m, n)[j] = s[m + j - 1]
         /\ Increasing(SubSeq(s, m, n))
<1>1. Len(s) \in Nat /\ m \in Nat /\ n \in Nat
  OBVIOUS
<1>2. \A j \in m..n : s[j] \in Nat
  BY <1>1
<1> DEFINE p == SubSeq(s, m, n)
<1>5. p \in Seq(Nat) /\ Len(p) = n - m + 1 /\ \A j \in 1..n - m + 1 : p[j] = s[m + j - 1]
  BY <1>1, SubSeqProperties
<1> HIDE DEF p
<1>7. Increasing(p)
  <2> SUFFICES ASSUME NEW i \in 1..n - m + 1, NEW j \in 1..n - m + 1, i < j
               PROVE  p[i] < p[j]
    BY <1>5 DEF Increasing
  <2>1. m + i - 1 \in 1..Len(s) /\ m + j - 1 \in 1..Len(s) /\ m + i - 1 < m + j - 1
    BY <1>1
  <2> QED
    BY <1>5, <2>1 DEF Increasing
<1> QED
  BY <1>5, <1>7 DEF p

(* q holds the times of s that are not earlier than t, and no others.       *)
DroppedTo(s, q, t) ==
  /\ q \in Seq(Nat) /\ Increasing(q)
  /\ \A j \in 1..Len(q) : t =< q[j] /\ \E i \in 1..Len(s) : q[j] = s[i]
  /\ \A i \in 1..Len(s) : t =< s[i] => \E j \in 1..Len(q) : q[j] = s[i]

LEMMA DropEarlyIs ==
  ASSUME NEW s \in Seq(Nat), Increasing(s), NEW t \in Nat,
         NEW q, q = DropEarly(s, t)
  PROVE  DroppedTo(s, q, t)
<1> DEFINE kept == {n \in 1..Len(s) + 1 : n =< Len(s) => s[n] >= t}
           n    == CHOOSE m \in kept : \A k \in kept : m =< k
<1>1. Len(s) \in Nat
  OBVIOUS
<1>2. kept \in SUBSET Nat /\ Len(s) + 1 \in kept
  BY <1>1
<1>3. n \in kept /\ \A k \in kept : n =< k
  <2>1. \E m \in kept : \A k \in kept : m =< k
    <3> HIDE DEF kept
    <3> QED
      BY <1>2, Least
  <2> QED
    BY <2>1
<1>4. q = SubSeq(s, n, Len(s))
  BY DEF DropEarly
<1> HIDE DEF n
<1>5. n \in 1..Len(s) + 1 /\ (n =< Len(s) => s[n] >= t)
  BY <1>3
<1>6. \A i \in 1..Len(s) : i < n => s[i] < t
  <2> SUFFICES ASSUME NEW i \in 1..Len(s), i < n PROVE s[i] < t
    OBVIOUS
  <2>1. i \notin kept
    BY <1>1, <1>3, <1>5
  <2>2. s[i] \in Nat
    OBVIOUS
  <2> QED
    BY <1>1, <2>1, <2>2
<1>7. CASE n = Len(s) + 1
  <2>1. q = <<>>
    BY <1>1, <1>4, <1>7, SubSeqEmpty
  <2>2. q \in Seq(Nat) /\ Len(q) = 0 /\ Increasing(q)
    BY <2>1 DEF Increasing
  <2>3. \A i \in 1..Len(s) : s[i] < t /\ s[i] \in Nat
    BY <1>1, <1>6, <1>7
  <2> QED
    BY <2>2, <2>3 DEF DroppedTo
<1>8. CASE n =< Len(s)
  <2>1. n \in 1..Len(s) /\ Len(s) \in n..Len(s)
    BY <1>1, <1>5, <1>8
  <2>2. /\ q \in Seq(Nat) /\ Increasing(q) /\ Len(q) = Len(s) - n + 1
        /\ \A j \in 1..Len(s) - n + 1 : q[j] = s[n + j - 1]
    BY <1>4, <2>1, PartOf
  <2>3. ASSUME NEW j \in 1..Len(q)
        PROVE  t =< q[j] /\ \E i \in 1..Len(s) : q[j] = s[i]
    <3>1. n + j - 1 \in 1..Len(s) /\ q[j] = s[n + j - 1] /\ j \in Nat
      BY <1>1, <2>1, <2>2
    <3>2. s[n] =< s[n + j - 1]
      <4>1. CASE j = 1
        <5>1. n + j - 1 = n /\ s[n] \in Nat
          BY <1>1, <2>1, <4>1
        <5> QED
          BY <5>1
      <4>2. CASE j # 1
        <5>0. s[n] \in Nat /\ s[n + j - 1] \in Nat
          BY <2>1, <3>1
        <5>1. n < n + j - 1 /\ s[n] \in Nat /\ s[n + j - 1] \in Nat
          BY <2>1, <3>1, <4>2, <5>0
        <5>2. s[n] < s[n + j - 1]
          BY <2>1, <3>1, <5>1 DEF Increasing
        <5> QED
          BY <5>1, <5>2
      <4> QED
        BY <4>1, <4>2
    <3>3. s[n] \in Nat /\ s[n + j - 1] \in Nat /\ s[n] >= t
      BY <1>5, <1>8, <2>1, <3>1
    <3>4. t =< q[j]
      BY <3>1, <3>2, <3>3
    <3> QED
      BY <3>1, <3>4
  <2>4. ASSUME NEW i \in 1..Len(s), t =< s[i]
        PROVE  \E j \in 1..Len(q) : q[j] = s[i]
    <3>1. s[i] \in Nat /\ ~(i < n)
      BY <1>6, <2>4
    <3>2. i - n + 1 \in 1..Len(q) /\ n + (i - n + 1) - 1 = i
      BY <1>1, <2>1, <2>2, <3>1
    <3> QED
      BY <2>2, <3>2
  <2> QED
    BY <2>2, <2>3, <2>4 DEF DroppedTo
<1> QED
  BY <1>1, <1>5, <1>7, <1>8

(* What Time::parse_times() keeps.                                          *)
CutToRun(s, p, from, to) ==
  /\ p \in Seq(Nat) /\ Increasing(p)
  /\ \A i \in 1..Len(s) : from =< s[i] /\ s[i] =< to => \E j \in 1..Len(p) : p[j] = s[i]

LEMMA ParseTimesIs ==
  ASSUME NEW s \in Seq(Nat), Increasing(s), NEW from \in Nat, NEW to \in Nat,
         NEW ranged \in BOOLEAN, NEW p, p = ParseTimes(s, from, to, ranged)
  PROVE  CutToRun(s, p, from, to)
<1> USE DEF CutToRun
<1> DEFINE within == {i \in 1..Len(s) : from =< s[i] /\ s[i] =< to}
           first  == CHOOSE i \in within : \A k \in within : i =< k
           last   == CHOOSE i \in within : \A k \in within : k =< i
<1>1. Len(s) \in Nat
  OBVIOUS
<1>2. p = IF ~ranged THEN s ELSE IF within = {} THEN <<>> ELSE SubSeq(s, first, last)
  BY DEF ParseTimes
<1>3. CASE ~ranged
  <2>1. p = s
    BY <1>2, <1>3
  <2> QED
    BY <1>1, <1>3, <2>1
<1>4. CASE ranged /\ within = {}
  <2>1. p = <<>>
    BY <1>2, <1>4
  <2>2. p \in Seq(Nat) /\ Len(p) = 0
    BY <2>1
  <2>3. Increasing(p)
    BY <1>1, <2>2 DEF Increasing
  <2> QED
    BY <1>4, <2>2, <2>3
<1>5. CASE ranged /\ within # {}
  <2>1. within \in SUBSET (1..Len(s)) /\ within \in SUBSET Nat
    BY <1>1
  <2>2. first \in within /\ \A k \in within : first =< k
    <3>1. \E i \in within : \A k \in within : i =< k
      <4> HIDE DEF within
      <4> QED
        BY <1>5, <2>1, Least
    <3> QED
      BY <3>1
  <2>3. last \in within /\ \A k \in within : k =< last
    <3>1. \E i \in within : \A k \in within : k =< i
      <4> HIDE DEF within
      <4> QED
        BY <1>1, <1>5, <2>1, Greatest
    <3> QED
      BY <3>1
  <2>4. p = SubSeq(s, first, last)
    BY <1>2, <1>5
  <2> HIDE DEF first, last
  <2>5. first \in 1..Len(s) /\ last \in first..Len(s)
    BY <1>1, <2>2, <2>3
  <2>6. /\ p \in Seq(Nat) /\ Len(p) = last - first + 1 /\ Increasing(p)
        /\ \A j \in 1..last - first + 1 : p[j] = s[first + j - 1]
    BY <2>4, <2>5, PartOf
  <2>7. ASSUME NEW i \in 1..Len(s), from =< s[i] /\ s[i] =< to
        PROVE  \E j \in 1..Len(p) : p[j] = s[i]
    <3>1. i \in within
      BY <2>7
    <3>2. first =< i /\ i =< last
      BY <2>2, <2>3, <3>1
    <3>3. i - first + 1 \in 1..Len(p) /\ first + (i - first + 1) - 1 = i
      BY <2>5, <2>6, <3>2
    <3> QED
      BY <2>6, <3>3
  <2> QED
    BY <1>5, <2>6, <2>7
<1> QED
  BY <1>3, <1>4, <1>5

-----------------------------------------------------------------------------
(* The steps other than those of a flush and the start of a run.            *)

LEMMA Typed ==
  ASSUME TypeOK
  PROVE  /\ start \in Nat /\ end \in Nat /\ now \in Nat /\ prev \in Nat
         /\ saved \in Nat /\ runs \in Nat
         /\ current \in Nat /\ current >= 1 /\ current =< Len(times) + 1
         /\ Len(times) \in Nat /\ \A j \in 1..Len(times) : times[j] \in Nat
         /\ Len(mT) \in Nat /\ Len(mT) =< 2 /\ \A k \in 1..Len(mT) : mT[k] \in Nat
         /\ Len(mV) \in Nat /\ \A k \in 1..Len(mV) : mV[k] \in Nat
         /\ Len(toFlush) \in Nat /\ Len(Diags) \in Nat
<1>1. /\ times \in Seq(Nat) /\ mT \in Seq(Nat) /\ mV \in Seq(Nat)
      /\ toFlush \in Seq(DiagSet) /\ Len(mT) =< 2 /\ current \in 1..Len(times) + 1
  BY DEF TypeOK
<1>2. start \in Nat /\ end \in Nat /\ now \in Nat /\ prev \in Nat /\ saved \in Nat /\ runs \in Nat
  BY DEF TypeOK
<1>3. Diags \in Seq(DiagSet)
  BY TimeSeriesAssumption
<1>4. Len(times) \in Nat /\ \A j \in 1..Len(times) : times[j] \in Nat
  BY <1>1
<1>5. Len(mT) \in Nat /\ \A k \in 1..Len(mT) : mT[k] \in Nat
  BY <1>1
<1>6. Len(mV) \in Nat /\ \A k \in 1..Len(mV) : mV[k] \in Nat
  BY <1>1
<1>7. Len(toFlush) \in Nat /\ Len(Diags) \in Nat
  BY <1>1, <1>3
<1>8. current \in Nat /\ current >= 1 /\ current =< Len(times) + 1
  BY <1>1, <1>4
<1>9. Len(mT) \in Nat /\ Len(mT) =< 2
  BY <1>1, <1>5
<1> QED
  BY <1>2, <1>4, <1>5, <1>6, <1>7, <1>8, <1>9

LEMMA Later ==
  ASSUME TypeOK, RunTimes, NEW i \in 1..Len(times), NEW j \in 1..Len(times), i < j
  PROVE  times[i] < times[j]
BY DEF RunTimes, Increasing

LEMMA KeepFile ==
  ASSUME FileTypes, ColumnsAligned, AxisIncreasing, ColumnSamples,
         UNCHANGED <<plan, axis, column>>, pending' \in Seq(Records)
  PROVE  FileTypes' /\ ColumnsAligned' /\ AxisIncreasing' /\ ColumnSamples'
<1>1. FileTypes'
  BY DEF FileTypes
<1>2. ColumnsAligned'
  BY DEF ColumnsAligned
<1>3. AxisIncreasing'
  BY DEF AxisIncreasing
<1>4. ColumnSamples'
  BY DEF ColumnSamples
<1> QED
  BY <1>1, <1>2, <1>3, <1>4

(* What append() leaves of a buffer that holds at most two times.           *)
LEMMA PushIs ==
  ASSUME TypeOK, NEW q \in Seq(Nat), Len(mT) =< Len(q), NEW t \in Nat, NEW r, r = Push(q, t)
  PROVE  /\ r \in Seq(Nat)
         /\ Len(mT) # 2 => Len(r) = Len(q) + 1 /\ (Len(mT) = 1 => r[1] = q[1])
         /\ Len(mT) = 2 => Len(r) = Len(q) /\ r[1] = q[2]
         /\ r[Len(r)] = t
<1>1. Len(q) \in Nat /\ Len(mT) \in Nat /\ Len(mT) =< 2
  BY Typed
<1>2. PICK a : a = Append(q, t)
  OBVIOUS
<1>3. /\ a \in Seq(Nat) /\ Len(a) = Len(q) + 1 /\ a[Len(q) + 1] = t
      /\ \A k \in 1..Len(q) : a[k] = q[k]
  BY <1>2, AppendProperties
<1>4. CASE Len(mT) # 2
  <2>1. r = a
    BY <1>2, <1>4 DEF Push
  <2>2. Len(mT) = 1 => 1 \in 1..Len(q)
    BY <1>1
  <2> QED
    BY <1>3, <1>4, <2>1, <2>2
<1>5. CASE Len(mT) = 2
  <2>1. r = Tail(a)
    BY <1>2, <1>5 DEF Push
  <2>2. a # <<>>
    <3>1. Append(q, t) # <<>>
      BY AppendProperties
    <3> QED
      BY <1>2, <3>1, Zenon
  <2>3. r \in Seq(Nat) /\ Len(r) = Len(a) - 1 /\ \A k \in 1..Len(r) : r[k] = a[k + 1]
    BY <1>3, <2>1, <2>2, HeadTailProperties
  <2>4. Len(r) = Len(q) /\ Len(q) \in 1..Len(r)
    BY <1>1, <1>3, <1>5, <2>3
  <2>5. r[Len(r)] = t
    BY <1>1, <1>3, <2>3, <2>4
  <2>6. r[1] = q[2]
    <3>1. 1 \in 1..Len(r) /\ 2 \in 1..Len(q) /\ 1 + 1 = 2
      BY <1>1, <1>5, <2>4
    <3>2. r[1] = a[1 + 1] /\ a[2] = q[2]
      BY <1>3, <2>3, <3>1
    <3> QED
      BY <3>1, <3>2
  <2> QED
    BY <1>5, <2>3, <2>4, <2>5, <2>6
<1> QED
  BY <1>4, <1>5

(* So the buffer of times holds the latest two, or the first one.           *)
LEMMA PushTimes ==
  ASSUME TypeOK, Len(mT) =< Len(mV), NEW t \in Nat,
         NEW r, r = Push(mT, t), NEW w, w = Push(mV, t)
  PROVE  /\ r \in Seq(Nat) /\ w \in Seq(Nat)
         /\ Len(r) >= 1 /\ Len(r) =< 2 /\ Len(r) =< Len(w)
         /\ r[Len(r)] = t
         /\ Len(mT) = 0 => Len(r) = 1
         /\ Len(mT) > 0 => Len(r) = 2 /\ r[1] = mT[Len(mT)]
<1>1. mT \in Seq(Nat) /\ mV \in Seq(Nat)
  BY DEF TypeOK
<1>2. PICK n \in Nat, m \in Nat : n = Len(mT) /\ m = Len(mV) /\ n =< 2 /\ n =< m
  BY <1>1, Typed
<1>3. Len(mT) =< Len(mT)
  BY <1>2
<1>4. /\ r \in Seq(Nat)
      /\ Len(mT) # 2 => Len(r) = Len(mT) + 1 /\ (Len(mT) = 1 => r[1] = mT[1])
      /\ Len(mT) = 2 => Len(r) = Len(mT) /\ r[1] = mT[2]
      /\ r[Len(r)] = t
  <2>1. PICK q : q = mT
    OBVIOUS
  <2>2. q \in Seq(Nat) /\ Len(mT) =< Len(q) /\ r = Push(q, t)
    BY <1>1, <1>3, <2>1
  <2>3. /\ r \in Seq(Nat)
        /\ Len(mT) # 2 => Len(r) = Len(q) + 1 /\ (Len(mT) = 1 => r[1] = q[1])
        /\ Len(mT) = 2 => Len(r) = Len(q) /\ r[1] = q[2]
        /\ r[Len(r)] = t
    <3>1. r \in Seq(Nat) /\ r[Len(r)] = t
      BY <2>2, PushIs
    <3>2. Len(mT) # 2 => Len(r) = Len(q) + 1
      BY <2>2, PushIs
    <3>3. Len(mT) # 2 => (Len(mT) = 1 => r[1] = q[1])
      BY <2>2, PushIs
    <3>4. Len(mT) = 2 => Len(r) = Len(q)
      BY <2>2, PushIs
    <3>5. Len(mT) = 2 => r[1] = q[2]
      BY <2>2, PushIs
    <3> QED
      BY <3>1, <3>2, <3>3, <3>4, <3>5, Zenon
  <2> QED
    BY <2>1, <2>3, Zenon
<1>5. /\ w \in Seq(Nat)
      /\ Len(mT) # 2 => Len(w) = Len(mV) + 1
      /\ Len(mT) = 2 => Len(w) = Len(mV)
  BY <1>1, PushIs
<1>6. /\ n # 2 => Len(r) = n + 1 /\ Len(w) = m + 1 /\ (n = 1 => r[1] = mT[1])
      /\ n = 2 => Len(r) = n /\ Len(w) = m /\ r[1] = mT[2]
  BY <1>2, <1>4, <1>5, Zenon
<1>7. CASE n # 2
  <2>1. n = 1 => r[1] = mT[1]
    BY <1>6, <1>7
  <2> QED
    <3>1. n \in {0, 1} /\ Len(r) = n + 1 /\ Len(w) = m + 1
      BY <1>2, <1>6, <1>7
    <3>2. Len(r) >= 1 /\ Len(r) =< 2 /\ Len(r) =< Len(w)
      BY <1>2, <3>1
    <3>3. n = 0 => Len(r) = 1
      BY <3>1
    <3>4. n > 0 => Len(r) = 2 /\ r[1] = mT[n]
      BY <2>1, <3>1
    <3> QED
      BY <1>2, <1>4, <1>5, <3>2, <3>3, <3>4, Zenon
<1>8. CASE n = 2
  <2>1. r[1] = mT[2]
    BY <1>6, <1>8
  <2> QED
    <3>1. Len(r) = 2 /\ Len(w) = m /\ 2 =< m
      BY <1>2, <1>6, <1>8
    <3>2. Len(r) >= 1 /\ Len(r) =< 2 /\ Len(r) =< Len(w)
      BY <3>1
    <3>3. n = 0 => Len(r) = 1
      BY <1>8
    <3>4. n > 0 => Len(r) = 2 /\ r[1] = mT[n]
      BY <1>6, <1>8, <2>1
    <3> QED
      BY <1>2, <1>4, <1>5, <3>2, <3>3, <3>4, Zenon
<1> QED
  BY <1>7, <1>8

(* append() at a step, or at the beginning of a run.                        *)
LEMMA UpdateKeepsBuffer ==
  ASSUME TypeOK, RunTimes, BufferInv, FullInv, phase \in {"begin", "loop"},
         NEW t \in Nat, now' = t, Update(t),
         phase = "begin" => t = now, phase = "loop" => now < t,
         UNCHANGED <<plan, start, times, current, pending>>
  PROVE  /\ mT' \in Seq(Nat) /\ mV' \in Seq(Nat) /\ Len(mT') =< 2
         /\ phase' \in {"saving", "loop"}
         /\ BufferInv' /\ FullInv'
<1>1. Len(mT) \in Nat /\ Len(mT) =< 2 /\ Len(mV) \in Nat /\ Len(times) \in Nat /\ current \in Nat /\ current >= 1
  BY Typed
<1>2. \A k \in 1..Len(mT) : mT[k] \in Nat
  BY Typed
<1>3. now \in Nat /\ start \in Nat /\ \A j \in 1..Len(times) : times[j] \in Nat
  BY Typed
<1>4. mT \in Seq(Nat) /\ mV \in Seq(Nat)
  BY DEF TypeOK
<1>5. /\ Len(mT) =< Len(mV)
      /\ ~plan.appending => mV = mT
      /\ \A k \in 1..Len(mT) : mT[k] =< now
      /\ phase = "begin" => current = 1 /\ mT = <<>> /\ pending = <<>> /\ now = start
      /\ phase = "loop" /\ current =< Len(times) => now < times[current]
  BY DEF BufferInv
<1>6. now =< t /\ start =< now
  BY <1>3 DEF RunTimes
<1>7. CASE current =< Len(times) /\ times[current] =< t
  <2>1. mT' = Push(mT, t) /\ mV' = Push(mV, t) /\ phase' = "saving"
    BY <1>7 DEF Update
  <2>2. PICK r, w : r = mT' /\ w = mV'
    OBVIOUS
  <2>3. /\ r \in Seq(Nat) /\ w \in Seq(Nat)
        /\ Len(r) >= 1 /\ Len(r) =< 2 /\ Len(r) =< Len(w)
        /\ r[Len(r)] = t
        /\ Len(mT) = 0 => Len(r) = 1
        /\ Len(mT) > 0 => Len(r) = 2 /\ r[1] = mT[Len(mT)]
    <3>1. r = Push(mT, t) /\ w = Push(mV, t)
      BY <2>1, <2>2
    <3> QED
      BY <1>5, <3>1, PushTimes
  <2>6. ~plan.appending => w = r
    BY <1>5, <2>1, <2>2
  <2>10. Len(r) = 2 => phase = "loop" /\ r[1] =< now /\ r[1] < t /\ r[1] < times[current]
    <3> SUFFICES ASSUME Len(r) = 2
                 PROVE  phase = "loop" /\ r[1] =< now /\ r[1] < t /\ r[1] < times[current]
      OBVIOUS
    <3>1. Len(mT) # 0 /\ Len(mT) > 0
      BY <1>1, <2>3
    <3>2. phase = "loop" /\ now < t /\ now < times[current]
      BY <1>5, <1>7, <3>1, EmptySeq
    <3>3. r[1] = mT[Len(mT)] /\ Len(mT) \in 1..Len(mT)
      BY <1>1, <2>3, <3>1
    <3>4. r[1] =< now /\ r[1] \in Nat
      BY <1>2, <1>5, <3>3
    <3>5. times[current] \in Nat
      BY <1>1, <1>3, <1>7
    <3> QED
      BY <1>3, <3>2, <3>4, <3>5
  <2>9. \A k \in 1..Len(r) : r[k] =< t
    <3> SUFFICES ASSUME NEW k \in 1..Len(r) PROVE r[k] =< t
      OBVIOUS
    <3>1. k = Len(r) \/ (k = 1 /\ Len(r) = 2)
      BY <2>3
    <3>2. CASE k = Len(r)
      BY <2>3, <3>2
    <3>3. CASE k = 1 /\ Len(r) = 2
      <4>1. r[1] < t /\ 1 \in 1..Len(r)
        BY <2>10, <3>3
      <4>2. r[1] \in Nat
        BY <2>3, <4>1
      <4> QED
        BY <3>3, <4>1, <4>2
    <3> QED
      BY <3>1, <3>2, <3>3
  <2>11. BufferInv'
    <3>1. /\ Len(r) =< Len(w) /\ (~plan.appending => w = r)
          /\ \A k \in 1..Len(r) : r[k] =< t
          /\ Len(r) = 2 => r[1] < r[2]
          /\ Len(r) = 2 /\ current =< Len(times) => r[1] < times[current]
          /\ Len(r) >= 1 /\ r[Len(r)] = t
      <4>1. Len(r) = 2 => r[1] < r[2]
        BY <2>3, <2>10
      <4>2. Len(r) >= 1
        BY <2>3
      <4> QED
        BY <2>3, <2>6, <2>9, <2>10, <4>1, <4>2, Zenon
    <3>2. r # <<>>
      BY <3>1
    <3> QED
      BY <2>1, <2>2, <3>1, <3>2 DEF BufferInv
  <2>12. FullInv'
    <3> SUFFICES ASSUME times # <<>> /\ times[1] =< start
                 PROVE  /\ Len(r) > 0
                        /\ Len(pending) =< BufferSize
                        /\ Len(pending) < BufferSize
                        /\ start < t => Len(r) = 2
      BY <2>1, <2>2 DEF FullInv
    <3>1. CASE phase = "begin"
      <4>1. t = start /\ Len(pending) = 0
        BY <1>5, <3>1
      <4>2. BufferSize \in Nat /\ BufferSize > 0
        BY TimeSeriesAssumption
      <4> QED
        <5>1. Len(r) > 0
          BY <2>3
        <5>2. Len(pending) =< BufferSize /\ Len(pending) < BufferSize
          BY <4>1, <4>2
        <5>3. ~(start < t)
          BY <1>3, <4>1
        <5> QED
          BY <5>1, <5>2, <5>3
    <3>2. CASE phase = "loop"
      <4>1. Len(mT) > 0 /\ Len(pending) =< BufferSize /\ Len(pending) < BufferSize
        BY <3>2 DEF FullInv
      <4>2. Len(r) = 2
        BY <2>3, <4>1
      <4> QED
        BY <4>1, <4>2
    <3> QED
      BY <3>1, <3>2
  <2>13. mT' \in Seq(Nat) /\ mV' \in Seq(Nat) /\ Len(mT') =< 2
    BY <2>2, <2>3
  <2> QED
    BY <2>1, <2>11, <2>12, <2>13
<1>8. CASE ~(current =< Len(times) /\ times[current] =< t)
  <2>1. UNCHANGED <<mT, mV>> /\ phase' = "loop"
    BY <1>8 DEF Update
  <2>2. current =< Len(times) => t < times[current]
    BY <1>1, <1>3, <1>8
  <2>3. \A k \in 1..Len(mT) : mT[k] =< t
    BY <1>2, <1>3, <1>5, <1>6
  <2>4. Len(mT) = 2 => mT[1] < mT[2]
    BY DEF BufferInv
  <2>5. Len(mT) = 2 /\ current =< Len(times) => mT[1] < times[current]
    BY DEF BufferInv
  <2>6. BufferInv'
    BY <1>5, <2>1, <2>2, <2>3, <2>4, <2>5 DEF BufferInv
  <2>7. FullInv'
    <3>1. CASE phase = "begin"
      <4> SUFFICES ASSUME times # <<>>, times[1] =< start PROVE FALSE
        BY <2>1 DEF FullInv
      <4>1. Len(times) >= 1
        <5>1. times \in Seq(Nat)
          BY DEF TypeOK
        <5> QED
          BY <1>1, <5>1, EmptySeq
      <4> QED
        BY <1>1, <1>3, <1>5, <2>2, <3>1, <4>1
    <3>2. CASE phase = "loop"
      BY <2>1, <3>2 DEF FullInv
    <3> QED
      BY <3>1, <3>2
  <2>8. mT' \in Seq(Nat) /\ mV' \in Seq(Nat) /\ Len(mT') =< 2
    BY <1>1, <1>4, <2>1
  <2> QED
    BY <2>1, <2>6, <2>7, <2>8
<1> QED
  BY <1>7, <1>8

(* Begin and Step.                                                          *)
LEMMA UpdateKeeps ==
  ASSUME TableInv, Active, Begin \/ \E t \in Clock : Step(t)
  PROVE  TableInv'
<1>1. /\ TypeOK /\ FileTypes /\ ColumnsAligned /\ AxisIncreasing /\ ColumnSamples
      /\ RunTimes /\ BufferInv /\ FullInv /\ HeldInv /\ FlushInv
  BY DEF TableInv
<1>2. \A t \in Clock : t \in Nat
  BY TimeSeriesAssumption DEF Clock
<1>3. now \in Nat /\ start \in Nat /\ start =< now /\ now =< now
  BY <1>1, Typed DEF RunTimes
<1>4. PICK t \in Nat : /\ now' = t /\ Update(t) /\ phase \in {"begin", "loop"}
                       /\ phase = "begin" => t = now
                       /\ phase = "loop" => now < t
                       /\ prev' \in {prev, now} /\ now =< t
  <2>1. CASE Begin
    BY <1>3, <2>1 DEF Begin
  <2>2. CASE \E t \in Clock : Step(t)
    <3>1. PICK t \in Clock : Step(t)
      BY <2>2
    <3>2. t \in Nat /\ now =< t
      BY <1>2, <1>3, <3>1 DEF Step
    <3> QED
      BY <3>1, <3>2 DEF Step
  <2> QED
    BY <2>1, <2>2
<1>5. UNCHANGED <<plan, saved, start, end, runs, times, current, pending, toFlush, mStart,
                  axis, column>>
  BY DEF Begin, Step, runVars, fileVars
<1>6. /\ mT' \in Seq(Nat) /\ mV' \in Seq(Nat) /\ Len(mT') =< 2
      /\ phase' \in {"saving", "loop"}
      /\ BufferInv' /\ FullInv'
  BY <1>1, <1>4, <1>5, UpdateKeepsBuffer
<1>7. TypeOK'
  <2>1. prev' \in Nat /\ now' \in Nat
    BY <1>1, <1>4, Typed
  <2> QED
    BY <1>1, <1>5, <1>6, <2>1 DEF TypeOK
<1>8. FileTypes' /\ ColumnsAligned' /\ AxisIncreasing' /\ ColumnSamples'
  <2>1. pending \in Seq(Records)
    BY <1>1 DEF FileTypes
  <2> QED
    BY <1>1, <1>5, <2>1, KeepFile
<1>9. RunTimes'
  BY <1>1, <1>3, <1>4, <1>5 DEF RunTimes
<1>10. HeldInv'
  BY <1>1, <1>5 DEF HeldInv, FirstHeld
<1>11. FlushInv'
  <2>1. toFlush = <<>>
    BY <1>1, <1>4 DEF FlushInv, Flushing
  <2> QED
    BY <1>1, <1>4, <1>5, <1>6, <2>1 DEF FlushInv, FirstHeld, Flushing, Begun, Unflushed
<1> QED
  BY <1>6, <1>7, <1>8, <1>9, <1>10, <1>11 DEF TableInv

(* The second part of write_timeseries(), at a time that leaves no record.  *)
LEMMA SaveFirstKeeps ==
  ASSUME TableInv, Active, SaveFirst
  PROVE  TableInv'
<1>1. /\ TypeOK /\ FileTypes /\ ColumnsAligned /\ AxisIncreasing /\ ColumnSamples
      /\ RunTimes /\ BufferInv /\ FullInv /\ HeldInv /\ FlushInv
  BY DEF TableInv
<1>2. /\ phase = "saving" /\ current = 1 /\ times # <<>> /\ times[1] =< now /\ current' = 2
      /\ UNCHANGED <<plan, phase, now, prev, saved, start, end, runs, times, mT, mV,
                     pending, toFlush, mStart, axis, column>>
  BY DEF SaveFirst, runVars, fileVars
<1>3. Len(times) \in Nat /\ Len(times) >= 1
  <2>1. times \in Seq(Nat)
    BY <1>1 DEF TypeOK
  <2> QED
    BY <1>2, <2>1, EmptySeq
<1>4. TypeOK'
  <2>1. current' \in 1..Len(times) + 1
    BY <1>2, <1>3
  <2> QED
    BY <1>1, <1>2, <2>1 DEF TypeOK
<1>5. FileTypes' /\ ColumnsAligned' /\ AxisIncreasing' /\ ColumnSamples'
  <2>1. pending \in Seq(Records)
    BY <1>1 DEF FileTypes
  <2> QED
    BY <1>1, <1>2, <2>1, KeepFile
<1>6. RunTimes'
  BY <1>1, <1>2 DEF RunTimes
<1>7. pending = <<>>
  <2>1. ~(Len(pending) =< current - 2)
    <3>1. pending \in Seq(Records)
      BY <1>1 DEF FileTypes
    <3>2. Len(pending) \in Nat
      BY <3>1
    <3> QED
      BY <1>2, <3>2
  <2> QED
    BY <1>1, <2>1 DEF HeldInv
<1>8. BufferInv'
  <2>1. mT # <<>> /\ mT[Len(mT)] = now
    BY <1>1, <1>2, <1>3 DEF BufferInv
  <2>2. Len(mT) = 2 /\ 2 =< Len(times) => mT[1] < times[2]
    <3> SUFFICES ASSUME Len(mT) = 2, 2 =< Len(times) PROVE mT[1] < times[2]
      OBVIOUS
    <3>1. mT[1] < times[1]
      BY <1>1, <1>2, <1>3 DEF BufferInv
    <3>2. times[1] < times[2]
      BY <1>1, <1>3, Later
    <3>3. mT[1] \in Nat /\ times[1] \in Nat /\ times[2] \in Nat
      BY <1>1, <1>3, Typed
    <3> QED
      BY <3>1, <3>2, <3>3
  <2>3. /\ Len(mT) =< Len(mV)
        /\ ~plan.appending => mV = mT
        /\ \A k \in 1..Len(mT) : mT[k] =< now
        /\ Len(mT) = 2 => mT[1] < mT[2]
    BY <1>1 DEF BufferInv
  <2> QED
    BY <1>2, <2>1, <2>2, <2>3 DEF BufferInv
<1>9. FullInv'
  BY <1>1, <1>2, <1>3 DEF FullInv
<1>10. HeldInv'
  <2>1. Len(pending) = 0
    BY <1>7, EmptySeq
  <2> QED
    BY <1>2, <1>7, <2>1 DEF HeldInv
<1>11. FlushInv'
  <2>1. toFlush = <<>>
    BY <1>1, <1>2 DEF FlushInv, Flushing
  <2>2. Len(pending) = 0
    BY <1>7, EmptySeq
  <2>3. FirstHeld = 1 /\ FirstHeld' = 2
    BY <1>2, <2>2 DEF FirstHeld
  <2>4. ~Begun /\ ~Begun'
    BY <1>2, <2>1 DEF Begun
  <2>5. \A j \in 2..Len(times), k \in 1..Len(axis) : axis[k].at < times[j]
    <3>1. \A j \in 2..Len(times) : FirstHeld =< j
      BY <1>3, <2>3
    <3> QED
      BY <1>1, <2>4, <3>1 DEF FlushInv
  <2>6. \A d \in DiagSet : mStart[d] = Len(axis)
    BY <1>1, <2>4 DEF FlushInv
  <2> QED
    BY <1>1, <1>2, <1>7, <2>1, <2>4, <2>5, <2>6 DEF FlushInv, Flushing
<1> QED
  BY <1>4, <1>5, <1>6, <1>8, <1>9, <1>10, <1>11 DEF TableInv

(* At the others a record is held back until the buffer is full.            *)
LEMMA NewRecordIs ==
  ASSUME TypeOK, BufferInv, mT # <<>>, current > 1, current =< Len(times)
  PROVE  /\ NewRecord \in Records
         /\ NewRecord.at = times[current]
         /\ ~plan.appending /\ NewRecord.samples # <<>> => NewRecord.samples = NewRecord.ends
<1>1. mT \in Seq(Nat) /\ mV \in Seq(Nat)
  BY DEF TypeOK
<1>2. PICK n \in Nat, m \in Nat : n = Len(mT) /\ m = Len(mV) /\ n =< 2
  BY <1>1, Typed
<1>3. n =< m /\ n >= 1
  <2>1. n =< m
    BY <1>2 DEF BufferInv
  <2>2. n # 0
    BY <1>1, <1>2, EmptySeq
  <2> QED
    BY <2>1, <2>2
<1>4. /\ times[current] \in Nat /\ times[current - 1] \in Nat
      /\ prev \in Nat /\ now \in Nat
  <2>1. current \in 1..Len(times) /\ current - 1 \in 1..Len(times)
    BY Typed
  <2> QED
    BY <2>1, Typed
<1>5. CASE n = 1
  <2>1. Samples = <<>>
    BY <1>2, <1>5 DEF Samples
  <2>2. Samples \in Seq(Nat)
    BY <2>1
  <2> QED
    BY <1>1, <1>4, <2>1, <2>2 DEF NewRecord, Records
<1>6. CASE n = 2
  <2>1. Samples = SubSeq(mV, 1, 2)
    BY <1>2, <1>6 DEF Samples
  <2>2. 1 \in 1..Len(mV) /\ 2 \in 1..Len(mV) /\ 2 \in 1..Len(mV) + 1
    BY <1>2, <1>3, <1>6
  <2>3. Samples \in Seq(Nat)
    BY <1>1, <2>1, <2>2, SubSeqProperties
  <2>4. ~plan.appending => Samples = mT
    <3>1. ~plan.appending => mV = mT
      BY DEF BufferInv
    <3>2. SubSeq(mT, 1, Len(mT)) = mT
      BY <1>1, SubSeqFull
    <3> QED
      BY <1>2, <1>6, <2>1, <3>1, <3>2
  <2> QED
    BY <1>1, <1>4, <2>3, <2>4 DEF NewRecord, Records
<1> QED
  BY <1>2, <1>3, <1>5, <1>6

(* Outside a flush, and when one is about to start.                         *)
LEMMA FlushOutside ==
  ASSUME \/ toFlush' = <<>> /\ (phase' \notin {"flushing", "closing"} \/ pending' = <<>>)
         \/ toFlush' = Diags /\ phase' \in {"flushing", "closing"},
         UNCHANGED <<mStart, column, axis, times>>,
         \A d \in DiagSet : Len(column[d]) =< mStart[d],
         \A d \in DiagSet : mStart[d] = Len(axis),
         \A j \in 2..Len(times), k \in 1..Len(axis) : FirstHeld' =< j => axis[k].at < times[j]
  PROVE  FlushInv'
<1>1. PICK q : q = toFlush'
  OBVIOUS
<1>2. Len(Diags) \in Nat /\ Len(Diags) > 0 /\ Diags # <<>>
  <2>1. Len(Diags) \in Nat /\ Len(Diags) > 0
    BY TimeSeriesAssumption
  <2> QED
    BY <2>1, EmptySeq
<1>3. /\ Len(q) =< Len(Diags)
      /\ \A k \in 1..Len(q) : q[k] = Diags[Len(Diags) - Len(q) + k]
      /\ q = <<>> \/ Len(q) = Len(Diags)
  <2>1. CASE q = Diags
    <3>1. \A n \in Nat : \A k \in 1..n : n - n + k = k
      OBVIOUS
    <3> QED
      BY <1>2, <2>1, <3>1
  <2>2. CASE q = <<>>
    <3>1. Len(q) = 0
      BY <2>2, EmptySeq
    <3>2. \A k \in 1..Len(q) : FALSE
      BY <3>1
    <3>3. Len(q) =< Len(Diags)
      BY <1>2, <3>1
    <3> QED
      BY <2>2, <3>2, <3>3
  <2> QED
    BY <1>1, <2>1, <2>2
<1>4. ~Begun'
  <2>1. q = <<>> \/ ~(Len(q) < Len(Diags))
    BY <1>2, <1>3
  <2> QED
    BY <1>1, <2>1 DEF Begun
<1>5. /\ ~Flushing' => q = <<>>
      /\ phase' = "flushing" /\ pending' # <<>> => q # <<>>
      /\ phase' = "closing" /\ pending' # <<>> => q # <<>>
  BY <1>1, <1>2 DEF Flushing
<1> QED
  BY <1>1, <1>3, <1>4, <1>5 DEF FlushInv

LEMMA SaveKeeps ==
  ASSUME TableInv, Active, Save
  PROVE  TableInv'
<1>1. /\ TypeOK /\ FileTypes /\ ColumnsAligned /\ AxisIncreasing /\ ColumnSamples
      /\ RunTimes /\ BufferInv /\ FullInv /\ HeldInv /\ FlushInv
  BY DEF TableInv
<1>2. /\ phase = "saving" /\ current > 1 /\ current =< Len(times) /\ times[current] =< now
      /\ current' = current + 1
      /\ pending' = Append(pending, NewRecord)
      /\ toFlush' = IF FlushNow(pending') THEN Diags ELSE <<>>
      /\ phase' = IF FlushNow(pending') THEN "flushing" ELSE "saving"
      /\ UNCHANGED <<plan, now, prev, saved, start, end, runs, times, mT, mV,
                     mStart, axis, column>>
  BY DEF Save, runVars, fileVars
<1>3. Len(times) \in Nat /\ current \in Nat /\ now \in Nat /\ start \in Nat
      /\ \A j \in 1..Len(times) : times[j] \in Nat
  BY <1>1, Typed
<1>4. PICK n \in Nat : n = Len(pending)
  <2>1. pending \in Seq(Records)
    BY <1>1 DEF FileTypes
  <2> QED
    BY <2>1
<1>5. mT # <<>> /\ mT[Len(mT)] = now
  BY <1>1, <1>2 DEF BufferInv
<1>6. /\ NewRecord \in Records /\ NewRecord.at = times[current]
      /\ ~plan.appending /\ NewRecord.samples # <<>> => NewRecord.samples = NewRecord.ends
  BY <1>1, <1>2, <1>5, NewRecordIs
<1>7. PICK p, r : p = pending' /\ r = NewRecord
  OBVIOUS
<1>8. /\ p \in Seq(Records) /\ p # <<>> /\ Len(p) = n + 1 /\ p[n + 1] = r
      /\ \A k \in 1..n : p[k] = pending[k]
  <2>1. pending \in Seq(Records) /\ r \in Records /\ p = Append(pending, r)
    BY <1>1, <1>2, <1>6, <1>7 DEF FileTypes
  <2>2. /\ Append(pending, r) \in Seq(Records) /\ Append(pending, r) # <<>>
        /\ Len(Append(pending, r)) = Len(pending) + 1
        /\ \A k \in 1..Len(pending) : Append(pending, r)[k] = pending[k]
        /\ Append(pending, r)[Len(pending) + 1] = r
    BY <2>1, AppendProperties
  <2> QED
    BY <1>4, <2>1, <2>2, Zenon
<1>9. TypeOK'
  <2>1. current' \in 1..Len(times) + 1
    BY <1>2, <1>3
  <2>2. toFlush' \in Seq(DiagSet)
    BY <1>2, TimeSeriesAssumption
  <2>3. phase' \in {"idle", "begin", "loop", "saving", "flushing", "closing"}
    BY <1>2
  <2> QED
    BY <1>1, <1>2, <2>1, <2>2, <2>3 DEF TypeOK
<1>10. FileTypes' /\ ColumnsAligned' /\ AxisIncreasing' /\ ColumnSamples'
  BY <1>1, <1>2, <1>7, <1>8, KeepFile
<1>11. RunTimes'
  BY <1>1, <1>2 DEF RunTimes
<1>12. BufferInv'
  <2>2. Len(mT) = 2 /\ current + 1 =< Len(times) => mT[1] < times[current + 1]
    <3> SUFFICES ASSUME Len(mT) = 2, current + 1 =< Len(times) PROVE mT[1] < times[current + 1]
      OBVIOUS
    <3>1. mT[1] < times[current]
      BY <1>1, <1>2 DEF BufferInv
    <3>2. current \in 1..Len(times) /\ current + 1 \in 1..Len(times) /\ current < current + 1
      BY <1>2, <1>3
    <3>3. times[current] < times[current + 1]
      BY <1>1, <3>2, Later
    <3>4. mT[1] \in Nat
      BY <1>1, Typed
    <3> QED
      BY <1>3, <3>1, <3>2, <3>3, <3>4
  <2>3. /\ Len(mT) =< Len(mV)
        /\ ~plan.appending => mV = mT
        /\ \A k \in 1..Len(mT) : mT[k] =< now
        /\ Len(mT) = 2 => mT[1] < mT[2]
    BY <1>1 DEF BufferInv
  <2> QED
    BY <1>2, <1>5, <2>2, <2>3 DEF BufferInv
<1>13. FullInv'
  <2> SUFFICES ASSUME times # <<>>, times[1] =< start
               PROVE  /\ Len(mT) = 2 /\ Len(p) =< BufferSize
                      /\ phase' # "flushing" => Len(p) < BufferSize
    BY <1>2, <1>7 DEF FullInv
  <2>1. /\ Len(pending) < BufferSize
        /\ start < now => Len(mT) = 2
    BY <1>1, <1>2 DEF FullInv
  <2>2. start < now
    <3>1. 1 \in 1..Len(times) /\ current \in 1..Len(times) /\ 1 < current
      BY <1>2, <1>3
    <3>2. times[1] < times[current]
      BY <1>1, <3>1, Later
    <3>3. start =< times[1]
      BY <1>1, <3>1 DEF RunTimes
    <3> QED
      BY <1>2, <1>3, <3>1, <3>2, <3>3
  <2>3. BufferSize \in Nat
    BY TimeSeriesAssumption
  <2>4. Len(p) =< BufferSize
    BY <1>4, <1>8, <2>1, <2>3
  <2>5. phase' # "flushing" => Len(p) # BufferSize
    BY <1>2, <1>7, <2>1, <2>2 DEF FlushNow
  <2> QED
    BY <1>8, <2>1, <2>2, <2>3, <2>4, <2>5
<1>14. pending # <<>> => n =< current - 2
  BY <1>1, <1>4 DEF HeldInv
<1>15. n + 1 =< current - 1
  <2>1. CASE pending # <<>>
    BY <1>3, <1>14, <2>1
  <2>2. CASE pending = <<>>
    <3>1. n = 0
      BY <1>4, <2>2, EmptySeq
    <3> QED
      BY <1>2, <1>3, <3>1
  <2> QED
    BY <2>1, <2>2
<1>16. FirstHeld = current - n /\ FirstHeld' = current - n
  <2>1. PICK c, m : c = current' /\ m = Len(pending')
    OBVIOUS
  <2>2. c = current + 1
    BY <1>2, <2>1
  <2>3. m = n + 1
    BY <1>7, <1>8, <2>1
  <2>4. FirstHeld' = c - m
    BY <2>1 DEF FirstHeld
  <2>5. c - m = current - n
    BY <1>3, <2>2, <2>3
  <2> QED
    BY <1>4, <2>4, <2>5 DEF FirstHeld
<1>17. HeldInv'
  <2>1. \A k \in 1..n + 1 : p[k].at = times[current - n - 1 + k]
    <3> SUFFICES ASSUME NEW k \in 1..n + 1 PROVE p[k].at = times[current - n - 1 + k]
      OBVIOUS
    <3>1. CASE k = n + 1
      <4>1. current - n - 1 + k = current
        BY <1>3, <3>1
      <4> QED
        BY <1>6, <1>7, <1>8, <3>1, <4>1
    <3>2. CASE k # n + 1
      <4>1. k \in 1..n
        BY <3>2
      <4> QED
        BY <1>1, <1>4, <1>8, <1>16, <4>1 DEF HeldInv
    <3> QED
      BY <3>1, <3>2
  <2>2. ASSUME ~plan.appending, NEW k \in 1..n + 1, p[k].samples # <<>>
        PROVE  p[k].samples = p[k].ends
    <3>1. CASE k = n + 1
      BY <1>6, <1>7, <1>8, <2>2, <3>1
    <3>2. CASE k # n + 1
      <4>1. k \in 1..n
        BY <3>2
      <4> QED
        BY <1>1, <1>4, <1>8, <2>2, <4>1 DEF HeldInv
    <3> QED
      BY <3>1, <3>2
  <2>3. Len(p) =< current' - 2
    BY <1>2, <1>3, <1>8, <1>15
  <2> QED
    BY <1>2, <1>7, <1>8, <1>16, <2>1, <2>2, <2>3 DEF HeldInv
<1>18. FlushInv'
  <2>1. toFlush = <<>>
    BY <1>1, <1>2 DEF FlushInv, Flushing
  <2>3. ~Begun
    BY <2>1 DEF Begun
  <2>4. /\ \A d \in DiagSet : Len(column[d]) =< mStart[d]
        /\ \A d \in DiagSet : mStart[d] = Len(axis)
        /\ \A j \in 2..Len(times), k \in 1..Len(axis) :
             FirstHeld =< j => axis[k].at < times[j]
    BY <1>1, <2>3 DEF FlushInv
  <2>5. \A j \in 2..Len(times), k \in 1..Len(axis) :
             FirstHeld' =< j => axis[k].at < times[j]
    BY <1>16, <2>4
  <2> QED
    BY <1>2, <2>4, <2>5, FlushOutside
<1> QED
  BY <1>9, <1>10, <1>11, <1>12, <1>13, <1>17, <1>18 DEF TableInv

(* The steps that change the phase of the program and what is to be flushed. *)
PhaseStep ==
  \/ SavedAll
  \/ \E backup \in BOOLEAN : RequestFlush(backup)
  \/ FlushDone
  \/ Finish

LEMMA PhaseKeeps ==
  ASSUME TableInv, Active, PhaseStep
  PROVE  TableInv'
<1>1. /\ TypeOK /\ FileTypes /\ ColumnsAligned /\ AxisIncreasing /\ ColumnSamples
      /\ RunTimes /\ BufferInv /\ FullInv /\ HeldInv /\ FlushInv
  BY DEF TableInv
<1>2. /\ UNCHANGED <<plan, now, prev, start, end, runs, times, current, mT, mV, pending,
                     mStart, axis, column>>
      /\ saved' \in {saved, now}
  BY DEF PhaseStep, SavedAll, RequestFlush, FlushDone, Finish, runVars, bufferVars, fileVars
<1>3. \/ phase = "saving" /\ phase' = "loop" /\ toFlush' = toFlush
         /\ (current =< Len(times) => times[current] > now)
      \/ phase = "loop" /\ phase' = "flushing" /\ toFlush' = Diags
      \/ phase = "loop" /\ phase' = "closing" /\ toFlush' = Diags
      \/ phase = "flushing" /\ phase' = "saving" /\ toFlush' = <<>> /\ pending = <<>>
      \/ phase = "closing" /\ phase' = "idle" /\ toFlush' = <<>> /\ pending = <<>>
  BY DEF PhaseStep, SavedAll, RequestFlush, FlushDone, Finish, bufferVars
<1>4. Len(times) \in Nat /\ current \in Nat /\ now \in Nat /\ start \in Nat /\ saved \in Nat
      /\ current >= 1 /\ \A j \in 1..Len(times) : times[j] \in Nat
  BY <1>1, Typed
<1>5. (toFlush' = Diags \/ toFlush' = <<>>) /\ (phase = "saving" => toFlush' = <<>>)
  BY <1>1, <1>3 DEF FlushInv, Flushing
<1>6. ~Begun
  <2>1. ~Flushing => toFlush = <<>>
    BY <1>1 DEF FlushInv
  <2>2. CASE pending = <<>>
    BY <1>1, <2>2 DEF FlushInv
  <2>3. CASE phase \in {"saving", "loop"}
    BY <2>1, <2>3 DEF Begun, Flushing
  <2> QED
    BY <1>3, <2>2, <2>3
<1>7. TypeOK'
  <2>1. saved' \in Nat
    BY <1>2, <1>4
  <2>2. toFlush' \in Seq(DiagSet)
    <3>1. Diags \in Seq(DiagSet) /\ <<>> \in Seq(DiagSet)
      BY TimeSeriesAssumption
    <3> QED
      BY <1>5, <3>1
  <2>3. phase' \in {"idle", "begin", "loop", "saving", "flushing", "closing"}
    BY <1>3
  <2> QED
    BY <1>1, <1>2, <2>1, <2>2, <2>3 DEF TypeOK
<1>8. FileTypes' /\ ColumnsAligned' /\ AxisIncreasing' /\ ColumnSamples'
  <2>1. pending \in Seq(Records)
    BY <1>1 DEF FileTypes
  <2> QED
    BY <1>1, <1>2, <2>1, KeepFile
<1>9. RunTimes'
  BY <1>1, <1>2 DEF RunTimes
<1>10. phase' # "idle" => BufferInv'
  <2>1. SUFFICES ASSUME phase' # "idle" PROVE BufferInv'
    OBVIOUS
  <2>2. /\ Len(mT) =< Len(mV)
        /\ ~plan.appending => mV = mT
        /\ \A k \in 1..Len(mT) : mT[k] =< now
        /\ Len(mT) = 2 => mT[1] < mT[2]
        /\ Len(mT) = 2 /\ current =< Len(times) => mT[1] < times[current]
    BY <1>1 DEF BufferInv
  <2>3. phase' \in {"loop", "closing"} /\ current =< Len(times) => now < times[current]
    <3>1. phase = "loop" /\ current =< Len(times) => now < times[current]
      BY <1>1 DEF BufferInv
    <3>2. phase' = "loop" \/ phase = "loop" \/ phase' = "saving"
      BY <1>3, <2>1
    <3>3. phase' = "loop" /\ current =< Len(times) => now < times[current]
      <4>1. phase' = "loop" => phase = "saving"
        BY <1>3
      <4> QED
        BY <1>3, <1>4, <4>1
    <3> QED
      BY <3>1, <3>2, <3>3
  <2>4. phase' \in {"saving", "flushing"} /\ current =< Len(times) /\ times[current] =< now
          => mT # <<>> /\ mT[Len(mT)] = now
    <3>1. phase = "flushing" /\ current =< Len(times) /\ times[current] =< now
            => mT # <<>> /\ mT[Len(mT)] = now
      BY <1>1 DEF BufferInv
    <3>2. phase = "loop" /\ current =< Len(times) => ~(times[current] =< now)
      <4>1. phase = "loop" /\ current =< Len(times) => now < times[current]
        BY <1>1 DEF BufferInv
      <4> QED
        BY <1>4, <4>1
    <3> QED
      BY <1>3, <3>1, <3>2
  <2>5. phase' # "begin"
    BY <1>3
  <2> QED
    BY <1>2, <2>2, <2>3, <2>4, <2>5 DEF BufferInv
<1>11. FullInv'
  <2> SUFFICES ASSUME times # <<>>, times[1] =< start, phase' \in {"loop", "saving", "flushing"}
               PROVE  /\ Len(mT) > 0 /\ Len(pending) =< BufferSize
                      /\ phase' # "flushing" => Len(pending) < BufferSize
                      /\ phase' # "loop" /\ current =< Len(times) /\ times[current] =< now
                           /\ start < now => Len(mT) = 2
    BY <1>2 DEF FullInv
  <2>1. phase \in {"loop", "saving", "flushing"}
    BY <1>3
  <2>2. /\ Len(mT) > 0 /\ Len(pending) =< BufferSize
        /\ phase # "flushing" => Len(pending) < BufferSize
        /\ phase # "loop" /\ current =< Len(times) /\ times[current] =< now
             /\ start < now => Len(mT) = 2
    BY <1>1, <2>1 DEF FullInv
  <2>3. phase' # "flushing" => Len(pending) < BufferSize
    <3>1. CASE pending = <<>>
      <4>1. Len(pending) = 0
        BY <3>1, EmptySeq
      <4>2. BufferSize \in Nat /\ BufferSize > 0
        BY TimeSeriesAssumption
      <4> QED
        BY <4>1, <4>2
    <3>2. CASE pending # <<>>
      BY <1>3, <2>1, <2>2, <3>2
    <3> QED
      BY <3>1, <3>2
  <2>4. phase' # "loop" /\ current =< Len(times) /\ times[current] =< now /\ start < now
          => Len(mT) = 2
    <3>1. phase = "loop" /\ current =< Len(times) => ~(times[current] =< now)
      <4>1. phase = "loop" /\ current =< Len(times) => now < times[current]
        BY <1>1 DEF BufferInv
      <4> QED
        BY <1>4, <4>1
    <3> QED
      BY <2>2, <3>1
  <2> QED
    BY <2>2, <2>3, <2>4
<1>12. HeldInv'
  BY <1>1, <1>2 DEF HeldInv, FirstHeld
<1>13. FlushInv'
  <2>1. FirstHeld' = FirstHeld
    BY <1>2 DEF FirstHeld
  <2>2. /\ \A d \in DiagSet : Len(column[d]) =< mStart[d]
        /\ \A d \in DiagSet : mStart[d] = Len(axis)
        /\ \A j \in 2..Len(times), k \in 1..Len(axis) :
             FirstHeld' =< j => axis[k].at < times[j]
    BY <1>1, <1>6, <2>1 DEF FlushInv
  <2>3. \/ toFlush' = <<>> /\ (phase' \notin {"flushing", "closing"} \/ pending' = <<>>)
        \/ toFlush' = Diags /\ phase' \in {"flushing", "closing"}
    BY <1>2, <1>3, <1>5
  <2> QED
    BY <1>2, <2>2, <2>3, FlushOutside
<1> QED
  BY <1>7, <1>8, <1>9, <1>10, <1>11, <1>12, <1>13 DEF TableInv, Active

(* A run that is killed leaves the file as it is.                           *)
LEMMA KillKeeps ==
  ASSUME TableInv, Kill
  PROVE  TableInv'
<1>1. /\ TypeOK /\ FileTypes /\ ColumnsAligned /\ AxisIncreasing /\ ColumnSamples
  BY DEF TableInv
<1>2. phase' = "idle" /\ UNCHANGED <<plan, now, prev, saved, start, end, runs, times, current,
                                     mT, mV, pending, toFlush, mStart, axis, column>>
  BY DEF Kill, runVars, bufferVars, fileVars
<1>3. TypeOK'
  BY <1>1, <1>2 DEF TypeOK
<1>4. FileTypes' /\ ColumnsAligned' /\ AxisIncreasing' /\ ColumnSamples'
  <2>1. pending \in Seq(Records)
    BY <1>1 DEF FileTypes
  <2> QED
    BY <1>1, <1>2, <2>1, KeepFile
<1> QED
  BY <1>2, <1>3, <1>4 DEF TableInv, Active

-----------------------------------------------------------------------------
(* flush() of one diagnostic.                                               *)

(* What is written: the records that wait, where the diagnostic or the      *)
(* length of the axis has the file end, and garbage before it when the      *)
(* diagnostic missed a flush.                                               *)
WrittenAs(w, col, first, recs) ==
  /\ w \in Seq(Entries) /\ Len(w) = first + Len(recs)
  /\ \A k \in 1..Len(recs) :
       /\ w[first + k].at = recs[k].at
       /\ w[first + k].ends = recs[k].ends
       /\ w[first + k].samples = recs[k].samples
  /\ \A k \in 1..first : w[k] = IF k =< Len(col) THEN col[k] ELSE Garbage

LEMMA WriteIs ==
  ASSUME NEW col \in Seq(Entries), NEW recs \in Seq(Records), NEW first \in Nat,
         NEW w, w = WriteFrom(col, first, recs)
  PROVE  WrittenAs(w, col, first, recs)
<1>1. PICK n \in Nat, m \in Nat : n = Len(recs) /\ m = Len(col)
  OBVIOUS
<1>2. Garbage \in Entries
  <2>1. <<>> \in Seq(Nat)
    OBVIOUS
  <2> QED
    BY <2>1 DEF Garbage, Entries
<1> DEFINE E(k) == IF k > first THEN [at |-> recs[k - first].at, ends |-> recs[k - first].ends,
                                      samples |-> recs[k - first].samples,
                                      step |-> recs[k - first].step]
                   ELSE IF k =< Len(col) THEN col[k] ELSE Garbage
<1>3. w = [k \in 1..first + n |-> E(k)]
  BY <1>1 DEF WriteFrom
<1>4. ASSUME NEW k \in 1..n PROVE recs[k] \in Records
  BY <1>1, <1>4
<1>5. ASSUME NEW k \in 1..first + n, k > first
      PROVE  k - first \in 1..n /\ E(k) \in Entries
  <2>1. k - first \in 1..n
    BY <1>5
  <2>2. recs[k - first] \in Records
    BY <1>4, <2>1
  <2>3. /\ recs[k - first].at \in Int /\ recs[k - first].ends \in Seq(Nat)
        /\ recs[k - first].samples \in Seq(Nat) /\ recs[k - first].step \in Seq(Nat)
    <3>1. \A rec \in Records : /\ rec.at \in Int /\ rec.ends \in Seq(Nat)
                               /\ rec.samples \in Seq(Nat) /\ rec.step \in Seq(Nat)
      BY DEF Records
    <3> QED
      BY <2>2, <3>1
  <2> QED
    BY <1>5, <2>1, <2>3 DEF Entries
<1>6. ASSUME NEW k \in 1..first + n, ~(k > first)
      PROVE  E(k) \in Entries
  <2>1. k \in Nat /\ (k =< m => k \in 1..m)
    OBVIOUS
  <2>2. k =< m => col[k] \in Entries
    BY <1>1, <2>1
  <2> QED
    BY <1>1, <1>2, <1>6, <2>2
<1> HIDE DEF E
<1>7. w \in [1..first + n -> Entries]
  BY <1>3, <1>5, <1>6
<1>8. first + n \in Nat
  OBVIOUS
<1>9. w \in Seq(Entries) /\ Len(w) = first + n
  BY <1>7, <1>8
<1>10. ASSUME NEW k \in 1..n
       PROVE  /\ w[first + k].at = recs[k].at
              /\ w[first + k].ends = recs[k].ends
              /\ w[first + k].samples = recs[k].samples
  <2>1. first + k \in 1..first + n /\ first + k > first /\ first + k - first = k
    OBVIOUS
  <2>2. w[first + k] = E(first + k)
    BY <1>3, <2>1
  <2>3. E(first + k) = [at |-> recs[k].at, ends |-> recs[k].ends,
                        samples |-> recs[k].samples, step |-> recs[k].step]
    BY <2>1 DEF E
  <2> QED
    BY <2>2, <2>3
<1>11. ASSUME NEW k \in 1..first
       PROVE  w[k] = IF k =< Len(col) THEN col[k] ELSE Garbage
  <2>1. k \in 1..first + n /\ ~(k > first)
    OBVIOUS
  <2>2. w[k] = E(k)
    BY <1>3, <2>1
  <2> QED
    BY <2>1, <2>2 DEF E
<1> QED
  BY <1>1, <1>9, <1>10, <1>11 DEF WrittenAs

(* The records that wait are in the order of their times, and earlier than  *)
(* those the run still has to come to.                                      *)
LEMMA HeldTimes ==
  ASSUME TypeOK, RunTimes, HeldInv, NEW n \in Nat, n = Len(pending), pending # <<>>
  PROVE  /\ FirstHeld = current - n /\ FirstHeld \in Nat /\ FirstHeld >= 2
         /\ \A k \in 1..n : /\ FirstHeld - 1 + k \in 2..Len(times)
                            /\ pending[k].at = times[FirstHeld - 1 + k]
                            /\ pending[k].at \in Nat
         /\ \A k, l \in 1..n : k < l => pending[k].at < pending[l].at
         /\ \A k \in 1..n, j \in 2..Len(times) : current =< j => pending[k].at < times[j]
<1>1. /\ Len(times) \in Nat /\ current \in Nat /\ current =< Len(times) + 1
      /\ \A j \in 1..Len(times) : times[j] \in Nat
  BY Typed
<1>2. n =< current - 2
  BY DEF HeldInv
<1>3. PICK f \in Nat : f = FirstHeld /\ f = current - n /\ f >= 2
  <2>1. FirstHeld = current - n
    BY DEF FirstHeld
  <2>2. current - n \in Nat /\ current - n >= 2
    BY <1>1, <1>2
  <2> QED
    BY <2>1, <2>2
<1>4. ASSUME NEW k \in 1..n
      PROVE  /\ f - 1 + k \in 2..Len(times) /\ f - 1 + k < current
             /\ pending[k].at = times[f - 1 + k] /\ pending[k].at \in Nat
  <2>1. f - 1 + k \in 2..Len(times) /\ f - 1 + k < current
    BY <1>1, <1>3
  <2>2. pending[k].at = times[f - 1 + k]
    BY <1>3 DEF HeldInv
  <2>3. f - 1 + k \in 1..Len(times)
    BY <1>1, <2>1
  <2> QED
    BY <1>1, <2>1, <2>2, <2>3
<1>5. ASSUME NEW k \in 1..n, NEW l \in 1..n, k < l PROVE pending[k].at < pending[l].at
  <2>1. /\ f - 1 + k \in 1..Len(times) /\ f - 1 + l \in 1..Len(times)
        /\ f - 1 + k < f - 1 + l
    BY <1>1, <1>4, <1>5
  <2>2. times[f - 1 + k] < times[f - 1 + l]
    BY <2>1, Later
  <2> QED
    BY <1>4, <2>2
<1>6. ASSUME NEW k \in 1..n, NEW j \in 2..Len(times), current =< j
      PROVE  pending[k].at < times[j]
  <2>1. f - 1 + k \in 1..Len(times) /\ j \in 1..Len(times) /\ f - 1 + k < j
    BY <1>1, <1>4, <1>6
  <2>2. times[f - 1 + k] < times[j]
    BY <2>1, Later
  <2> QED
    BY <1>4, <2>2
<1> QED
  BY <1>3, <1>4, <1>5, <1>6

(* The file the flush of a diagnostic leaves, when its records go after the *)
(* first ones of the axis, and the place of the diagnostic among the others. *)
FlushedAt(first, i) ==
  /\ i = Len(Diags) - Len(toFlush) + 1
  /\ Head(toFlush) = Diags[i]
  /\ FlushStart(Diags[i]) = first
  /\ axis' \in Seq(Marks)
  /\ first =< Len(axis) /\ Len(axis) =< Len(axis') /\ Len(axis') = first + Len(pending)
  /\ \A k \in 1..Len(axis) : axis'[k] = axis[k]
  /\ \A k \in 1..Len(pending) : axis'[first + k].at = pending[k].at
  /\ \A k \in 2..Len(axis') : axis'[k - 1].at < axis'[k].at
  /\ \A j \in 1..Len(Diags) : mStart[Diags[j]] = IF j >= i THEN first ELSE Len(axis')
  /\ \A j \in 2..Len(times), k \in 1..Len(axis') : current =< j => axis'[k].at < times[j]

LEMMA FlushShape ==
  ASSUME TableInv, Active, Flush
  PROVE  \E first \in Nat, i \in 1..Len(Diags) : FlushedAt(first, i)
<1>1. /\ TypeOK /\ FileTypes /\ AxisIncreasing
      /\ RunTimes /\ BufferInv /\ FullInv /\ HeldInv /\ FlushInv
  BY DEF TableInv
<1>2. toFlush # <<>> /\ pending # <<>>
  BY DEF Flush
<1>3. pending \in Seq(Records) /\ axis \in Seq(Marks) /\ toFlush \in Seq(DiagSet)
  BY <1>1 DEF FileTypes, TypeOK
<1>4. PICK n \in Nat, a \in Nat, q \in Nat, m \in Nat :
        /\ n = Len(pending) /\ n > 0 /\ a = Len(axis)
        /\ q = Len(toFlush) /\ m = Len(Diags) /\ 0 < q /\ q =< m
  <2>1. Len(pending) \in Nat /\ Len(axis) \in Nat /\ Len(toFlush) \in Nat
    BY <1>3
  <2>2. Len(pending) # 0 /\ Len(toFlush) # 0
    BY <1>2, <1>3, EmptySeq
  <2>3. Len(Diags) \in Nat /\ Len(toFlush) =< Len(Diags)
    BY <1>1, TimeSeriesAssumption DEF FlushInv
  <2> QED
    BY <2>1, <2>2, <2>3
<1>5. PICK i \in 1..m : i = m - q + 1
  <2>1. m - q + 1 \in 1..m
    BY <1>4
  <2> QED
    BY <2>1
<1>6. Head(toFlush) = Diags[i]
  <2>1. Head(toFlush) = toFlush[1]
    BY <1>2, <1>3
  <2>2. 1 \in 1..Len(toFlush)
    BY <1>4
  <2>3. toFlush[1] = Diags[m - q + 1]
    BY <1>1, <1>4, <2>2 DEF FlushInv
  <2> QED
    BY <1>5, <2>1, <2>3
<1>7. /\ FirstHeld = current - n /\ FirstHeld \in Nat /\ FirstHeld >= 2
      /\ \A k \in 1..n : /\ FirstHeld - 1 + k \in 2..Len(times)
                         /\ pending[k].at = times[FirstHeld - 1 + k]
                         /\ pending[k].at \in Nat
      /\ \A k, l \in 1..n : k < l => pending[k].at < pending[l].at
      /\ \A k \in 1..n, j \in 2..Len(times) : current =< j => pending[k].at < times[j]
  BY <1>1, <1>2, <1>4, HeldTimes
<1>8. \A k \in 1..a : axis[k] \in Marks /\ axis[k].at \in Nat
  <2>1. \A k \in 1..a : axis[k] \in Marks
    BY <1>3, <1>4
  <2>2. \A mark \in Marks : mark.at \in Nat
    BY DEF Marks
  <2> QED
    BY <2>1, <2>2
<1>9. PICK ax : ax = axis'
  OBVIOUS
<1>10. PICK first : first = FlushStart(Diags[i])
  OBVIOUS
<1>11. DiagSet = {Diags[j] : j \in 1..m}
  BY <1>4 DEF DiagSet
<1>12. PICK marks : marks = [k \in 1..n |-> [at |-> pending[k].at, lo |-> pending[k].lo]]
  OBVIOUS
<1>13. /\ marks \in Seq(Marks) /\ Len(marks) = n
       /\ \A k \in 1..n : marks[k].at = pending[k].at
  <2>1. \A rec \in Records : rec.at \in Nat /\ rec.lo \in Nat
    BY DEF Records
  <2>2. \A k \in 1..n : pending[k] \in Records
    BY <1>3, <1>4
  <2>3. \A k \in 1..n : pending[k].at \in Nat /\ pending[k].lo \in Nat
    BY <2>1, <2>2
  <2>4. marks \in [1..n -> Marks]
    BY <1>12, <2>3 DEF Marks
  <2> QED
    BY <1>12, <2>4
<1>14. ax = IF Len(axis) = first THEN axis \o marks ELSE axis
  BY <1>4, <1>6, <1>9, <1>10, <1>12 DEF Flush
<1>15. CASE ~Begun
  <2>1. q = m /\ i = 1
    <3>1. ~(q < m)
      BY <1>2, <1>4, <1>15 DEF Begun
    <3> QED
      BY <1>4, <1>5, <3>1
  <2>2. /\ \A d \in DiagSet : mStart[d] = Len(axis)
        /\ \A j \in 2..Len(times), k \in 1..Len(axis) : FirstHeld =< j => axis[k].at < times[j]
    BY <1>1, <1>15 DEF FlushInv
  <2>3. \A j \in 1..m : mStart[Diags[j]] = a
    BY <1>4, <1>11, <2>2
  <2>4. first = a
    BY <1>4, <1>10, <2>3 DEF FlushStart
  <2>5. ax = axis \o marks
    BY <1>4, <1>14, <2>4
  <2>6. /\ ax \in Seq(Marks) /\ Len(ax) = a + n
        /\ \A k \in 1..a : ax[k] = axis[k]
        /\ \A k \in 1..n : ax[a + k] = marks[k]
    <3>1. PICK s, t : s = axis /\ t = marks
      OBVIOUS
    <3>2. s \in Seq(Marks) /\ t \in Seq(Marks) /\ Len(s) = a /\ Len(t) = n
      BY <1>3, <1>4, <1>13, <3>1
    <3>3. /\ s \o t \in Seq(Marks) /\ Len(s \o t) = Len(s) + Len(t)
          /\ \A k \in 1..Len(s) + Len(t) :
                (s \o t)[k] = IF k =< Len(s) THEN s[k] ELSE t[k - Len(s)]
      BY <3>2, ConcatProperties
    <3>4. \A k \in 1..a : (s \o t)[k] = s[k]
      BY <3>2, <3>3
    <3>5. \A k \in 1..n : (s \o t)[a + k] = t[k]
      BY <3>2, <3>3
    <3> QED
      BY <2>5, <3>1, <3>2, <3>3, <3>4, <3>5
  <2>7. \A k \in 1..n : ax[a + k].at = pending[k].at
    BY <1>13, <2>6
  <2>8. ASSUME NEW k \in 2..a + n PROVE ax[k - 1].at < ax[k].at
    <3>1. CASE k =< a
      <4>1. k \in 2..Len(axis) /\ k \in 1..a /\ k - 1 \in 1..a
        BY <1>4, <3>1
      <4>2. axis[k - 1].at < axis[k].at
        BY <1>1, <4>1 DEF AxisIncreasing
      <4> QED
        BY <2>6, <4>1, <4>2
    <3>2. CASE k = a + 1
      <4>1. 1 \in 1..n /\ k - 1 \in 1..a /\ FirstHeld - 1 + 1 = FirstHeld
        BY <1>4, <1>7, <3>2
      <4>2. ax[k].at = times[FirstHeld]
        BY <1>7, <2>7, <3>2, <4>1
      <4>3. axis[k - 1].at < times[FirstHeld]
        <5>1. FirstHeld \in 2..Len(times) /\ FirstHeld =< FirstHeld /\ k - 1 \in 1..Len(axis)
          BY <1>4, <1>7, <4>1
        <5> QED
          BY <2>2, <5>1
      <4> QED
        BY <2>6, <4>1, <4>2, <4>3
    <3>3. CASE k > a + 1
      <4>1. k - a - 1 < k - a /\ k - a \in 1..n /\ k - a - 1 \in 1..n
            /\ a + (k - a) = k /\ a + (k - a - 1) = k - 1
        BY <3>3
      <4>2. ax[k].at = pending[k - a].at /\ ax[k - 1].at = pending[k - a - 1].at
        BY <2>7, <4>1
      <4> QED
        BY <1>7, <4>1, <4>2
    <3> QED
      BY <3>1, <3>2, <3>3
  <2>9. ASSUME NEW j \in 2..Len(times), NEW k \in 1..a + n, current =< j
        PROVE  ax[k].at < times[j]
    <3>1. CASE k =< a
      <4>1. current \in Nat /\ Len(times) \in Nat
        BY <1>1, Typed
      <4>2. FirstHeld =< j /\ k \in 1..Len(axis) /\ k \in 1..a
        BY <1>4, <1>7, <2>9, <3>1, <4>1
      <4> QED
        BY <2>2, <2>6, <4>2
    <3>2. CASE k > a
      <4>1. k - a \in 1..n /\ a + (k - a) = k
        BY <3>2
      <4> QED
        BY <1>7, <2>7, <2>9, <4>1
    <3> QED
      BY <3>1, <3>2
  <2>10. \A j \in 1..m : mStart[Diags[j]] = IF j >= i THEN a ELSE Len(ax)
    BY <2>1, <2>3
  <2>11. a =< Len(ax) /\ a =< a
    BY <2>6
  <2>12. FlushedAt(a, i)
    BY <1>4, <1>5, <1>6, <1>9, <1>10, <2>4, <2>6, <2>7, <2>8, <2>9, <2>10, <2>11
       DEF FlushedAt
  <2> QED
    BY <1>4, <2>12
<1>16. CASE Begun
  <2>1. /\ n =< a
        /\ \A k \in 1..n : axis[a - n + k].at = pending[k].at
        /\ \A j \in 1..m : mStart[Diags[j]] = IF Unflushed(j) THEN a - n ELSE a
        /\ \A j \in 2..Len(times), k \in 1..a : current =< j => axis[k].at < times[j]
    BY <1>1, <1>4, <1>16 DEF FlushInv
  <2>2. PICK f \in Nat : f = a - n /\ f + n = a
    BY <2>1
  <2>3. \A j \in 1..m : mStart[Diags[j]] = IF j >= i THEN f ELSE a
    <3> SUFFICES ASSUME NEW j \in 1..m PROVE mStart[Diags[j]] = IF j >= i THEN f ELSE a
      OBVIOUS
    <3>1. Unflushed(j) <=> j >= i
      <4>1. Unflushed(j) <=> j > m - q
        BY <1>4 DEF Unflushed
      <4> QED
        BY <1>5, <4>1
    <3> QED
      BY <2>1, <2>2, <3>1
  <2>4. ~(LastTime < pending[1].at)
    <3>1. n \in 1..n /\ 1 \in 1..n /\ a \in 1..a /\ 1 + f \in 1..a /\ a - n + n = a
      BY <1>4, <2>1, <2>2
    <3>2. axis[a].at = pending[n].at
      BY <2>1, <3>1
    <3>3. pending[1].at =< pending[n].at
      <4>1. CASE n = 1
        <5>1. pending[1].at \in Nat
          BY <1>7, <3>1
        <5> QED
          BY <4>1, <5>1
      <4>2. CASE n # 1
        <5>1. 1 < n
          BY <1>4, <4>2
        <5>2. pending[1].at < pending[n].at /\ pending[1].at \in Nat /\ pending[n].at \in Nat
          BY <1>7, <3>1, <5>1
        <5> QED
          BY <5>2
      <4> QED
        BY <4>1, <4>2
    <3>4. pending[1].at \in Nat /\ pending[n].at \in Nat
      BY <1>7, <3>1
    <3>5. LastTime = pending[n].at
      BY <1>4, <3>2 DEF LastTime
    <3> QED
      BY <3>3, <3>4, <3>5
  <2>5. first = f
    <3>1. i \in 1..m /\ i >= i
      BY <1>5
    <3>2. mStart[Diags[i]] = f
      BY <2>3, <3>1
    <3> QED
      BY <1>10, <2>4, <3>2 DEF FlushStart
  <2>6. ax = axis
    <3>1. Len(axis) # first
      BY <1>4, <2>2, <2>5
    <3> QED
      BY <1>14, <3>1
  <2>7. \A k \in 1..n : ax[f + k].at = pending[k].at
    BY <2>1, <2>2, <2>6
  <2>8. \A k \in 2..a : ax[k - 1].at < ax[k].at
    BY <1>1, <1>4, <2>6 DEF AxisIncreasing
  <2>9. \A j \in 2..Len(times), k \in 1..a : current =< j => ax[k].at < times[j]
    BY <2>1, <2>6
  <2>10. f =< a /\ a =< a /\ Len(ax) = a
    BY <1>4, <2>2, <2>6
  <2>11. \A k \in 1..a : ax[k] = axis[k]
    BY <2>6
  <2>12. FlushedAt(f, i)
    BY <1>3, <1>4, <1>5, <1>6, <1>9, <1>10, <2>2, <2>3, <2>5, <2>6, <2>7, <2>8, <2>9, <2>10, <2>11
       DEF FlushedAt
  <2> QED
    BY <1>4, <2>12
<1> QED
  BY <1>15, <1>16

(* The column of the diagnostic is filled up to the end of the axis.        *)
FilledFrom(cl, first, i) ==
  /\ cl \in [DiagSet -> Seq(Entries)]
  /\ Len(cl[Diags[i]]) = first + Len(pending)
  /\ \A k \in 1..Len(pending) : cl[Diags[i]][first + k].at = pending[k].at
  /\ \A k \in 1..Len(column[Diags[i]]) : /\ k \in 1..Len(cl[Diags[i]])
                                         /\ cl[Diags[i]][k] = column[Diags[i]][k]
  /\ \A d \in DiagSet \ {Diags[i]} : cl[d] = column[d]

LEMMA FlushColumns ==
  ASSUME FileTypes, ColumnsAligned, ColumnSamples, HeldInv,
         NEW first \in Nat, NEW i \in 1..Len(Diags), FlushedAt(first, i),
         \A d \in DiagSet : Len(column[d]) =< mStart[d],
         NEW n \in Nat, n = Len(pending),
         plan' = plan, NEW cl, cl = column',
         cl = [column EXCEPT ![Diags[i]] = WriteFrom(@, first, pending)]
  PROVE  FilledFrom(cl, first, i) /\ ColumnsAligned' /\ ColumnSamples'
<1>1. PICK d, w : d = Diags[i] /\ w = WriteFrom(column[d], first, pending)
  OBVIOUS
<1>2. d \in DiagSet
  BY <1>1 DEF DiagSet
<1>3. column \in [DiagSet -> Seq(Entries)] /\ pending \in Seq(Records)
  BY DEF FileTypes
<1>4. column[d] \in Seq(Entries)
  BY <1>2, <1>3
<1>5. PICK c \in Nat : c = Len(column[d])
  BY <1>4
<1>5a. PICK a, ax : a = Len(axis) /\ ax = axis'
  OBVIOUS
<1>6. /\ a \in Nat /\ a = Len(axis) /\ ax = axis' /\ first =< a /\ a =< first + n
      /\ Len(ax) = first + n
      /\ \A k \in 1..a : ax[k] = axis[k]
      /\ \A k \in 1..n : ax[first + k].at = pending[k].at
  <2>1. Len(axis) \in Nat
    BY DEF FileTypes
  <2>2. /\ first =< Len(axis) /\ Len(axis) =< Len(axis') /\ Len(axis') = first + Len(pending)
        /\ \A k \in 1..Len(axis) : axis'[k] = axis[k]
        /\ \A k \in 1..Len(pending) : axis'[first + k].at = pending[k].at
    BY DEF FlushedAt
  <2>4. a \in Nat /\ first =< a /\ a =< first + n /\ Len(ax) = first + n
    BY <1>5a, <2>1, <2>2
  <2>5. \A k \in 1..a : ax[k] = axis[k]
    BY <1>5a, <2>2
  <2>6. \A k \in 1..n : ax[first + k].at = pending[k].at
    BY <1>5a, <2>2
  <2> QED
    BY <1>5a, <2>4, <2>5, <2>6
<1>7. c =< first
  <2>1. mStart[Diags[i]] = first
    <3>1. i >= i
      OBVIOUS
    <3> QED
      BY <3>1 DEF FlushedAt
  <2> QED
    BY <1>1, <1>2, <1>5, <2>1
<1>8. /\ w \in Seq(Entries) /\ Len(w) = first + n
      /\ \A k \in 1..n : w[first + k].at = pending[k].at
      /\ \A k \in 1..n : w[first + k].ends = pending[k].ends
      /\ \A k \in 1..n : w[first + k].samples = pending[k].samples
      /\ \A k \in 1..first : w[k] = IF k =< c THEN column[d][k] ELSE Garbage
  <2>1. PICK col, recs : col = column[d] /\ recs = pending
    OBVIOUS
  <2>2. col \in Seq(Entries) /\ recs \in Seq(Records) /\ w = WriteFrom(col, first, recs)
    BY <1>1, <1>3, <1>4, <2>1
  <2>3. WrittenAs(w, column[d], first, pending)
    BY <2>1, <2>2, WriteIs
  <2> QED
    BY <1>5, <2>3 DEF WrittenAs
<1>9. cl = [column EXCEPT ![d] = w]
  BY <1>1
<1>10. cl \in [DiagSet -> Seq(Entries)] /\ cl[d] = w /\ \A e \in DiagSet \ {d} : cl[e] = column[e]
  BY <1>2, <1>3, <1>8, <1>9
<1>11. ASSUME NEW k \in 1..c PROVE k \in 1..first + n /\ w[k] = column[d][k]
  <2>1. k \in 1..first /\ k =< c /\ k \in 1..first + n
    BY <1>7
  <2> QED
    BY <1>8, <2>1
<1>12. ColumnsAligned'
  <2> SUFFICES ASSUME NEW e \in DiagSet
               PROVE  /\ Len(cl[e]) =< Len(ax)
                      /\ \A k \in 1..Len(cl[e]) : cl[e][k] # Garbage => cl[e][k].at = ax[k].at
    BY <1>6 DEF ColumnsAligned, Garbage
  <2>1. CASE e = d
    <3>1. ASSUME NEW k \in 1..first + n, w[k] # Garbage PROVE w[k].at = ax[k].at
      <4>1. CASE k > first
        <5>1. PICK l \in 1..n : k = first + l
          <6>1. k - first \in 1..n /\ k = first + (k - first)
            BY <4>1
          <6> QED
            BY <6>1
        <5>2. w[first + l].at = pending[l].at
          BY <1>8
        <5>3. ax[first + l].at = pending[l].at
          BY <1>6
        <5> QED
          BY <5>1, <5>2, <5>3
      <4>2. CASE ~(k > first)
        <5>1. k \in 1..first /\ k =< c
          BY <1>8, <3>1, <4>2
        <5>2. w[k] = column[d][k] /\ k \in 1..c
          BY <1>8, <5>1
        <5>3. column[d][k].at = axis[k].at
          BY <1>2, <1>5, <3>1, <5>2 DEF ColumnsAligned
        <5>4. k \in 1..a
          BY <1>6, <5>1
        <5> QED
          BY <1>6, <5>2, <5>3, <5>4
      <4> QED
        BY <4>1, <4>2
    <3>2. cl[e] = w /\ Len(w) = first + n /\ Len(ax) = first + n
      BY <1>6, <1>8, <1>10, <2>1
    <3>3. Len(w) =< Len(ax)
      BY <3>2
    <3> QED
      BY <3>1, <3>2, <3>3
  <2>2. CASE e # d
    <3>1. cl[e] = column[e] /\ Len(column[e]) \in Nat
      BY <1>3, <1>10, <2>2
    <3>2. Len(column[e]) =< a
      BY <1>6 DEF ColumnsAligned
    <3>3. ASSUME NEW k \in 1..Len(column[e]), column[e][k] # Garbage
          PROVE  column[e][k].at = ax[k].at
      <4>1. column[e][k].at = axis[k].at
        BY <3>3 DEF ColumnsAligned
      <4>2. k \in 1..a
        BY <1>6, <3>1, <3>2
      <4> QED
        BY <1>6, <4>1, <4>2
    <3>4. Len(column[e]) =< Len(ax)
      BY <1>6, <3>1, <3>2
    <3> QED
      BY <3>1, <3>3, <3>4
  <2> QED
    BY <2>1, <2>2
<1>13. ColumnSamples'
  <2> SUFFICES ASSUME ~plan.appending, NEW e \in DiagSet, NEW k \in 1..Len(cl[e]),
                      cl[e][k].samples # <<>>
               PROVE  cl[e][k].samples = cl[e][k].ends
    BY DEF ColumnSamples
  <2>1. CASE e = d
    <3>1. k \in 1..first + n /\ w[k].samples # <<>>
      BY <1>8, <1>10, <2>1
    <3>2. CASE k > first
      <4>1. k - first \in 1..n /\ first + (k - first) = k
        BY <3>1, <3>2
      <4>2. w[k].ends = pending[k - first].ends /\ w[k].samples = pending[k - first].samples
        BY <1>8, <4>1
      <4>3. pending[k - first].samples # <<>> => pending[k - first].samples = pending[k - first].ends
        BY <4>1 DEF HeldInv
      <4> QED
        BY <1>10, <2>1, <3>1, <4>2, <4>3
    <3>3. CASE ~(k > first) /\ k =< c
      <4>1. w[k] = column[d][k] /\ k \in 1..c
        BY <1>8, <3>1, <3>3
      <4> QED
        BY <1>2, <1>5, <1>10, <2>1, <3>1, <4>1 DEF ColumnSamples
    <3>4. CASE ~(k > first) /\ ~(k =< c)
      <4>1. w[k] = Garbage
        BY <1>8, <3>1, <3>4
      <4> QED
        BY <3>1, <4>1 DEF Garbage
    <3> QED
      BY <3>2, <3>3, <3>4
  <2>2. CASE e # d
    <3>1. cl[e] = column[e]
      BY <1>10, <2>2
    <3> QED
      BY <3>1 DEF ColumnSamples
  <2> QED
    BY <2>1, <2>2
<1> QED
  BY <1>1, <1>5, <1>8, <1>10, <1>11, <1>12, <1>13 DEF FilledFrom

LEMMA FlushFills ==
  ASSUME TableInv, Active, Flush
  PROVE  \E first \in Nat, i \in 1..Len(Diags) :
            /\ FlushedAt(first, i) /\ FilledFrom(column', first, i)
            /\ ColumnsAligned' /\ ColumnSamples'
<1>1. FileTypes /\ ColumnsAligned /\ ColumnSamples /\ HeldInv /\ FlushInv
  BY DEF TableInv
<1>2. PICK first \in Nat, i \in 1..Len(Diags) : FlushedAt(first, i)
  BY FlushShape
<1>3. PICK cl : cl = column'
  OBVIOUS
<1>4. PICK n \in Nat : n = Len(pending)
  BY <1>1 DEF FileTypes
<1>5. cl = [column EXCEPT ![Diags[i]] = WriteFrom(@, first, pending)] /\ plan' = plan
  BY <1>2, <1>3 DEF Flush, FlushedAt
<1>6. \A d \in DiagSet : Len(column[d]) =< mStart[d]
  BY <1>1 DEF FlushInv
<1>7. FilledFrom(cl, first, i) /\ ColumnsAligned' /\ ColumnSamples'
  BY <1>1, <1>2, <1>3, <1>4, <1>5, <1>6, FlushColumns
<1> QED
  BY <1>2, <1>3, <1>7

LEMMA FlushKeeps ==
  ASSUME TableInv, Active, Flush
  PROVE  TableInv'
<1>1. /\ TypeOK /\ FileTypes /\ ColumnsAligned /\ AxisIncreasing /\ ColumnSamples
      /\ RunTimes /\ BufferInv /\ FullInv /\ HeldInv /\ FlushInv
  BY DEF TableInv
<1>2. PICK first \in Nat, i \in 1..Len(Diags) :
         /\ FlushedAt(first, i) /\ FilledFrom(column', first, i)
         /\ ColumnsAligned' /\ ColumnSamples'
  BY FlushFills
<1>3. /\ phase \in {"flushing", "closing"} /\ toFlush # <<>> /\ pending # <<>>
      /\ toFlush' = Tail(toFlush)
      /\ pending' = IF Len(toFlush) = 1 THEN <<>> ELSE pending
      /\ UNCHANGED <<plan, phase, now, prev, saved, start, end, runs, times, current, mT, mV>>
  BY DEF Flush, runVars, bufferVars
<1>4. PICK d : d = Diags[i]
  OBVIOUS
<1>5. mStart' = [mStart EXCEPT ![Diags[i]] = first + Len(pending)]
  BY <1>2 DEF Flush, FlushedAt
<1>6. /\ pending \in Seq(Records) /\ toFlush \in Seq(DiagSet) /\ mStart \in [DiagSet -> Nat]
      /\ column \in [DiagSet -> Seq(Entries)]
  BY <1>1 DEF FileTypes, TypeOK
<1>7. PICK n \in Nat, q \in Nat, m \in Nat :
        n = Len(pending) /\ n > 0 /\ q = Len(toFlush) /\ q > 0 /\ m = Len(Diags)
  <2>1. Len(pending) \in Nat /\ Len(toFlush) \in Nat /\ Len(Diags) \in Nat
    BY <1>1, <1>6, Typed
  <2>2. Len(pending) # 0 /\ Len(toFlush) # 0
    BY <1>3, <1>6, EmptySeq
  <2> QED
    BY <2>1, <2>2
<1>8. i = m - q + 1 /\ i \in 1..m
  BY <1>2, <1>7 DEF FlushedAt
<1>9. PICK cl, ms, tf, pn, ax : /\ cl = column' /\ ms = mStart' /\ tf = toFlush'
                                /\ pn = pending' /\ ax = axis'
  OBVIOUS
<1>10. d \in DiagSet /\ DiagSet = {Diags[j] : j \in 1..m}
  BY <1>4, <1>7 DEF DiagSet
<1>11. /\ cl \in [DiagSet -> Seq(Entries)]
       /\ Len(cl[d]) = first + n
       /\ \A e \in DiagSet \ {d} : cl[e] = column[e]
       /\ ColumnsAligned' /\ ColumnSamples'
  BY <1>2, <1>4, <1>7, <1>9 DEF FilledFrom
<1>12. /\ ms \in [DiagSet -> Nat] /\ ms[d] = first + n
       /\ \A e \in DiagSet \ {d} : ms[e] = mStart[e]
  <2>1. ms = [mStart EXCEPT ![d] = first + n] /\ first + n \in Nat
    BY <1>4, <1>5, <1>7, <1>9
  <2> QED
    BY <1>6, <1>10, <2>1
<1>13. /\ tf \in Seq(DiagSet) /\ Len(tf) = q - 1
       /\ \A k \in 1..q - 1 : tf[k] = toFlush[k + 1]
  <2>1. PICK s : s = toFlush
    OBVIOUS
  <2>2. s \in Seq(DiagSet) /\ s # <<>> /\ tf = Tail(s) /\ Len(s) = q
    BY <1>3, <1>6, <1>7, <1>9, <2>1
  <2>3. tf \in Seq(DiagSet) /\ Len(tf) = Len(s) - 1 /\ \A k \in 1..Len(tf) : tf[k] = s[k + 1]
    BY <2>2, HeadTailProperties
  <2>4. Len(tf) = q - 1
    BY <2>2, <2>3
  <2> QED
    BY <2>1, <2>3, <2>4
<1>14. /\ ax \in Seq(Marks) /\ Len(ax) = first + n /\ first + n \in Nat
       /\ \A k \in 1..n : ax[first + k].at = pending[k].at
       /\ \A k \in 2..Len(ax) : ax[k - 1].at < ax[k].at
       /\ \A j \in 1..m : mStart[Diags[j]] = IF j >= i THEN first ELSE Len(ax)
       /\ \A j \in 2..Len(times), k \in 1..Len(ax) : current =< j => ax[k].at < times[j]
  <2>1. /\ ax \in Seq(Marks) /\ Len(ax) = first + Len(pending)
        /\ \A k \in 1..Len(pending) : ax[first + k].at = pending[k].at
        /\ \A k \in 2..Len(ax) : ax[k - 1].at < ax[k].at
    BY <1>2, <1>9 DEF FlushedAt
  <2>2. /\ \A j \in 1..Len(Diags) : mStart[Diags[j]] = IF j >= i THEN first ELSE Len(ax)
        /\ \A j \in 2..Len(times), k \in 1..Len(ax) : current =< j => ax[k].at < times[j]
    BY <1>2, <1>9 DEF FlushedAt
  <2>3. first + n \in Nat
    OBVIOUS
  <2> QED
    BY <1>7, <2>1, <2>2, <2>3
<1>15. /\ pn = IF q = 1 THEN <<>> ELSE pending
       /\ pn \in Seq(Records)
  <2>1. <<>> \in Seq(Records)
    OBVIOUS
  <2> QED
    BY <1>3, <1>6, <1>7, <1>9, <2>1
<1>16. TypeOK'
  <2>1. DOMAIN cl = DiagSet
    BY <1>11
  <2> QED
    BY <1>1, <1>3, <1>9, <1>12, <1>13, <2>1 DEF TypeOK
<1>17. FileTypes'
  BY <1>9, <1>11, <1>14, <1>15 DEF FileTypes
<1>18. AxisIncreasing'
  BY <1>9, <1>14 DEF AxisIncreasing
<1>19. RunTimes'
  BY <1>1, <1>3 DEF RunTimes
<1>20. BufferInv'
  BY <1>1, <1>3 DEF BufferInv
<1>21. Len(pn) = (IF q = 1 THEN 0 ELSE n)
  BY <1>7, <1>15, EmptySeq
<1>22. FullInv'
  <2> SUFFICES ASSUME times # <<>>, times[1] =< start, phase = "flushing"
               PROVE  Len(mT) > 0 /\ Len(pn) =< BufferSize
                      /\ (current =< Len(times) /\ times[current] =< now /\ start < now
                            => Len(mT) = 2)
    BY <1>3, <1>9 DEF FullInv
  <2>1. /\ Len(mT) > 0 /\ n =< BufferSize
        /\ current =< Len(times) /\ times[current] =< now /\ start < now => Len(mT) = 2
    BY <1>1, <1>7 DEF FullInv
  <2>2. Len(pn) =< BufferSize
    BY <1>7, <1>21, <2>1, TimeSeriesAssumption
  <2> QED
    BY <2>1, <2>2
<1>23. FirstHeld' = IF q = 1 THEN current ELSE FirstHeld
  <2>1. FirstHeld' = current - Len(pn)
    BY <1>3, <1>9 DEF FirstHeld
  <2>2. current \in Nat
    BY <1>1, Typed
  <2> QED
    BY <1>7, <1>21, <2>1, <2>2 DEF FirstHeld
<1>24. HeldInv'
  <2>1. CASE q = 1
    <3>1. pn = <<>> /\ Len(pn) = 0
      BY <1>15, <1>21, <2>1
    <3> QED
      BY <1>9, <3>1 DEF HeldInv
  <2>2. CASE q # 1
    <3>1. pending' = pending /\ FirstHeld' = FirstHeld
      BY <1>9, <1>15, <1>23, <2>2
    <3> QED
      BY <1>1, <1>3, <3>1 DEF HeldInv
  <2> QED
    BY <2>1, <2>2
<1>25. \A e \in DiagSet : Len(cl[e]) =< ms[e]
  <2> SUFFICES ASSUME NEW e \in DiagSet PROVE Len(cl[e]) =< ms[e]
    OBVIOUS
  <2>1. CASE e = d
    BY <1>11, <1>12, <2>1
  <2>2. CASE e # d
    <3>1. cl[e] = column[e] /\ ms[e] = mStart[e]
      BY <1>11, <1>12, <2>2
    <3> QED
      BY <1>1, <3>1 DEF FlushInv
  <2> QED
    BY <2>1, <2>2
<1>26. ASSUME NEW j \in 1..m
       PROVE  ms[Diags[j]] = IF j > i THEN first ELSE Len(ax)
  <2>1. CASE j = i
    BY <1>4, <1>8, <1>12, <1>14, <2>1
  <2>2. CASE j # i
    <3>1. Diags[j] # d /\ Diags[j] \in DiagSet
      BY <1>4, <1>7, <1>8, <1>10, <2>2, TimeSeriesAssumption
    <3>2. ms[Diags[j]] = mStart[Diags[j]]
      BY <1>12, <3>1
    <3>3. j >= i <=> j > i
      BY <1>8, <2>2
    <3> QED
      BY <1>14, <3>2, <3>3
  <2> QED
    BY <2>1, <2>2
<1>27. /\ \A k \in 1..q - 1 : tf[k] = Diags[m - (q - 1) + k]
       /\ q - 1 =< m
  <2>1. q =< m /\ \A k \in 1..q : toFlush[k] = Diags[m - q + k]
    BY <1>1, <1>7 DEF FlushInv
  <2>2. ASSUME NEW k \in 1..q - 1 PROVE tf[k] = Diags[m - (q - 1) + k]
    <3>1. k + 1 \in 1..q /\ m - q + (k + 1) = m - (q - 1) + k
      BY <1>7
    <3> QED
      BY <1>13, <2>1, <3>1
  <2>3. q - 1 =< m
    BY <1>7, <2>1
  <2> QED
    BY <2>2, <2>3
<1>28. FlushInv'
  <2>1. CASE q = 1
    <3>1. tf = <<>> /\ pn = <<>>
      BY <1>13, <1>15, <2>1, EmptySeq
    <3>2. \A j \in 1..m : ms[Diags[j]] = Len(ax)
      <4>1. i = m
        BY <1>7, <1>8, <2>1
      <4>2. \A j \in 1..m : ~(j > i)
        BY <4>1
      <4> QED
        BY <1>26, <4>2
    <3>3. \A e \in DiagSet : ms[e] = Len(ax)
      BY <1>10, <3>2
    <3>4. ~Begun'
      BY <1>9, <3>1 DEF Begun
    <3>5. \A j \in 2..Len(times), k \in 1..Len(ax) : FirstHeld' =< j => ax[k].at < times[j]
      BY <1>14, <1>23, <2>1
    <3>6. Len(tf) = 0 /\ 0 =< m /\ \A k \in 1..0 : FALSE
      BY <1>7, <1>13, <2>1
    <3> QED
      BY <1>3, <1>7, <1>9, <1>25, <3>1, <3>3, <3>4, <3>5, <3>6 DEF FlushInv
  <2>2. CASE q # 1
    <3>1. tf # <<>> /\ pn = pending /\ Len(tf) < m
      <4>1. Len(tf) # 0
        BY <1>7, <1>13, <2>2
      <4>2. q =< m
        BY <1>1, <1>7 DEF FlushInv
      <4>3. Len(tf) < m
        BY <1>7, <1>13, <4>2
      <4> QED
        BY <1>15, <2>2, <4>1, <4>3, EmptySeq
    <3>2. Begun'
      BY <1>7, <1>9, <3>1 DEF Begun
    <3>3. ASSUME NEW j \in 1..m
          PROVE  ms[Diags[j]] = IF Unflushed(j)' THEN Len(ax) - n ELSE Len(ax)
      <4>1. Unflushed(j)' <=> j > m - Len(tf)
        BY <1>7, <1>9 DEF Unflushed
      <4>2. Unflushed(j)' <=> j > i
        BY <1>7, <1>8, <1>13, <4>1
      <4>3. Len(ax) - n = first
        BY <1>14
      <4> QED
        BY <1>26, <4>2, <4>3
    <3>4. \A k \in 1..n : ax[Len(ax) - n + k].at = pending[k].at
      <4>1. Len(ax) - n = first
        BY <1>14
      <4> QED
        BY <1>14, <4>1
    <3>5. n =< Len(ax)
      BY <1>14
    <3>6. /\ pn # <<>> /\ Len(pn) =< Len(ax)
          /\ \A k \in 1..Len(pn) : ax[Len(ax) - Len(pn) + k].at = pn[k].at
          /\ \A j \in 1..Len(Diags) :
               ms[Diags[j]] = IF Unflushed(j)' THEN Len(ax) - Len(pn) ELSE Len(ax)
          /\ \A j \in 2..Len(times), k \in 1..Len(ax) : current =< j => ax[k].at < times[j]
      BY <1>3, <1>7, <1>14, <3>1, <3>3, <3>4, <3>5
    <3>7. /\ Len(tf) =< Len(Diags)
          /\ \A k \in 1..Len(tf) : tf[k] = Diags[Len(Diags) - Len(tf) + k]
      BY <1>7, <1>13, <1>27
    <3>8. Flushing'
      BY <1>3 DEF Flushing
    <3> QED
      BY <1>3, <1>9, <1>25, <3>1, <3>2, <3>6, <3>7, <3>8 DEF FlushInv
  <2> QED
    BY <2>1, <2>2
<1> QED
  BY <1>11, <1>16, <1>17, <1>18, <1>19, <1>20, <1>22, <1>24, <1>28 DEF TableInv

-----------------------------------------------------------------------------
(* init_timeseries().                                                       *)

(* The last time of the axis is the latest.                                 *)
LEMMA LastIsLatest ==
  ASSUME axis \in Seq(Marks), AxisIncreasing
  PROVE  \A k \in 1..Len(axis) : axis[k].at =< LastTime
<1>1. PICK a \in Nat : a = Len(axis)
  OBVIOUS
<1>2. \A k \in 1..a : axis[k].at \in Nat
  <2>1. \A k \in 1..a : axis[k] \in Marks
    BY <1>1
  <2>2. \A mark \in Marks : mark.at \in Nat
    BY DEF Marks
  <2> QED
    BY <2>1, <2>2
<1> DEFINE S == {k \in 1..a : ~(axis[k].at =< axis[a].at)}
<1>3. S = {}
  <2> SUFFICES ASSUME S # {} PROVE FALSE
    OBVIOUS
  <2>1. S \in SUBSET (1..a)
    OBVIOUS
  <2>2. PICK k \in S : \A l \in S : l =< k
    <3> HIDE DEF S
    <3> QED
      BY <2>1, Greatest
  <2>3. k \in 1..a /\ ~(axis[k].at =< axis[a].at)
    OBVIOUS
  <2>4. k # a
    BY <1>2, <2>3
  <2>5. k + 1 \in 1..a /\ k + 1 \in 2..a /\ (k + 1) - 1 = k /\ ~(k + 1 =< k)
    BY <2>3, <2>4
  <2>6. axis[k].at < axis[k + 1].at
    BY <1>1, <2>5 DEF AxisIncreasing
  <2>7. k + 1 \notin S
    BY <2>2, <2>5
  <2>8. axis[k + 1].at =< axis[a].at
    BY <2>5, <2>7
  <2>9. a \in 1..a /\ axis[a].at \in Nat /\ axis[k].at \in Nat /\ axis[k + 1].at \in Nat
    BY <1>2, <2>3, <2>5
  <2> QED
    BY <2>3, <2>6, <2>8, <2>9
<1> QED
  BY <1>1, <1>3 DEF LastTime

(* The list of the new run: the requested times from the state it starts    *)
(* from on and, when it appends, from the end of the file on.               *)
Kept(newEnd) ==
  LET append == plan.appending /\ runs > 0
      asked  == ParseTimes(Requests, saved, newEnd, plan.ranged)
      fresh  == IF append /\ axis # <<>> THEN DropEarly(asked, LastTime) ELSE asked
  IN  DropEarly(fresh, saved)

Appends == plan.appending /\ runs > 0 /\ axis # <<>>

LEMMA PlanTyped ==
  ASSUME TypeOK
  PROVE  /\ Requests \in Seq(Nat) /\ Increasing(Requests)
         /\ plan.ranged \in BOOLEAN /\ plan.ends \in SUBSET Nat
BY TimeSeriesAssumption DEF TypeOK, PlanType, Requests

KeptFrom(t, newEnd) ==
  /\ t \in Seq(Nat) /\ Increasing(t)
  /\ \A j \in 1..Len(t) : saved =< t[j]
  /\ Appends => \A j \in 1..Len(t) : LastTime =< t[j]
  /\ \A i \in 1..Len(Requests) :
       /\ saved =< Requests[i] /\ Requests[i] =< newEnd
       /\ Appends => LastTime =< Requests[i]
       => \E j \in 1..Len(t) : t[j] = Requests[i]

LEMMA KeptIs ==
  ASSUME TypeOK, axis \in Seq(Marks), NEW newEnd \in Nat, NEW t, t = Kept(newEnd)
  PROVE  KeptFrom(t, newEnd)
<1>1. saved \in Nat
  BY Typed
<1>2. axis # <<>> => LastTime \in Nat
  <2> SUFFICES ASSUME axis # <<>> PROVE LastTime \in Nat
    OBVIOUS
  <2>1. Len(axis) \in 1..Len(axis)
    <3>1. Len(axis) \in Nat \ {0}
      BY EmptySeq
    <3> QED
      BY <3>1
  <2>2. axis[Len(axis)] \in Marks
    BY <2>1
  <2> QED
    BY <2>2 DEF LastTime, Marks
<1>3. PICK asked : asked = ParseTimes(Requests, saved, newEnd, plan.ranged)
  OBVIOUS
<1>4. CutToRun(Requests, asked, saved, newEnd)
  <2>1. PICK s, r : s = Requests /\ r = plan.ranged
    OBVIOUS
  <2>2. s \in Seq(Nat) /\ Increasing(s) /\ r \in BOOLEAN /\ asked = ParseTimes(s, saved, newEnd, r)
    BY <1>3, <2>1, PlanTyped
  <2>3. CutToRun(s, asked, saved, newEnd)
    BY <1>1, <2>2, ParseTimesIs
  <2> QED
    BY <2>1, <2>3
<1>5. /\ asked \in Seq(Nat) /\ Increasing(asked)
      /\ \A i \in 1..Len(Requests) : saved =< Requests[i] /\ Requests[i] =< newEnd =>
            \E j \in 1..Len(asked) : asked[j] = Requests[i]
  BY <1>4 DEF CutToRun
<1>6. PICK fresh : fresh = IF Appends THEN DropEarly(asked, LastTime) ELSE asked
  OBVIOUS
<1>7. t = DropEarly(fresh, saved)
  BY <1>3, <1>6 DEF Kept, Appends
<1>8. /\ fresh \in Seq(Nat) /\ Increasing(fresh)
      /\ Appends => \A j \in 1..Len(fresh) : LastTime =< fresh[j]
      /\ \A i \in 1..Len(asked) :
            (Appends => LastTime =< asked[i]) => \E j \in 1..Len(fresh) : fresh[j] = asked[i]
  <2>1. CASE Appends
    <3>1. PICK l \in Nat : l = LastTime
      BY <1>2, <2>1 DEF Appends
    <3>2. fresh = DropEarly(asked, l)
      BY <1>6, <2>1, <3>1
    <3>3. DroppedTo(asked, fresh, l)
      BY <1>5, <3>2, DropEarlyIs
    <3> QED
      BY <2>1, <3>1, <3>3 DEF DroppedTo
  <2>2. CASE ~Appends
    <3>1. fresh = asked
      BY <1>6, <2>2
    <3> QED
      BY <1>5, <2>2, <3>1
  <2> QED
    BY <2>1, <2>2
<1>9. DroppedTo(fresh, t, saved)
  BY <1>1, <1>7, <1>8, DropEarlyIs
<1>10. /\ t \in Seq(Nat) /\ Increasing(t)
       /\ \A j \in 1..Len(t) : saved =< t[j] /\ \E i \in 1..Len(fresh) : t[j] = fresh[i]
       /\ \A i \in 1..Len(fresh) : saved =< fresh[i] => \E j \in 1..Len(t) : t[j] = fresh[i]
  BY <1>9 DEF DroppedTo
<1>11. ASSUME Appends, NEW j \in 1..Len(t) PROVE LastTime =< t[j]
  <2>1. PICK i \in 1..Len(fresh) : t[j] = fresh[i]
    BY <1>10
  <2> QED
    BY <1>8, <1>11, <2>1
<1>12. ASSUME NEW i \in 1..Len(Requests), saved =< Requests[i], Requests[i] =< newEnd,
              Appends => LastTime =< Requests[i]
       PROVE  \E j \in 1..Len(t) : t[j] = Requests[i]
  <2>1. PICK r : r = Requests[i]
    OBVIOUS
  <2>2. PICK k \in 1..Len(asked) : asked[k] = r
    BY <1>5, <1>12, <2>1
  <2>3. PICK l \in 1..Len(fresh) : fresh[l] = r
    BY <1>8, <1>12, <2>1, <2>2
  <2> QED
    BY <1>10, <1>12, <2>1, <2>3
<1> QED
  BY <1>10, <1>11, <1>12 DEF KeptFrom

LEMMA StartKeeps ==
  ASSUME TableInv, NEW newEnd \in plan.ends, StartRun(newEnd)
  PROVE  TableInv'
<1>1. TypeOK /\ FileTypes /\ ColumnsAligned /\ AxisIncreasing /\ ColumnSamples
  BY DEF TableInv
<1>2. axis \in Seq(Marks) /\ column \in [DiagSet -> Seq(Entries)]
  BY <1>1 DEF FileTypes
<1>3. saved \in Nat /\ runs \in Nat /\ newEnd \in Nat
  BY <1>1, Typed, PlanTyped
<1>4. PICK t : t = Kept(newEnd)
  OBVIOUS
<1>5. PICK ax, cl, ms, mv : ax = axis' /\ cl = column' /\ ms = mStart' /\ mv = mV'
  OBVIOUS
<1>6. PICK append : append = (plan.appending /\ runs > 0)
  OBVIOUS
<1>7. /\ start' = saved /\ now' = saved /\ prev' = saved /\ end' = newEnd /\ runs' = runs + 1
      /\ times' = t /\ current' = 1 /\ mT' = <<>> /\ pending' = <<>> /\ toFlush' = <<>>
      /\ phase' = "begin" /\ plan' = plan /\ saved' = saved
      /\ mv = IF append /\ axis # <<>> THEN <<LastTime>> ELSE <<>>
  BY <1>4, <1>5, <1>6 DEF StartRun, Kept
<1>8. /\ ax = IF append THEN axis ELSE <<>>
      /\ cl = IF append THEN column ELSE [d \in DiagSet |-> <<>>]
      /\ ms = [d \in DiagSet |-> Len(ax)]
  BY <1>5, <1>6 DEF StartRun
<1>9. /\ t \in Seq(Nat) /\ Increasing(t)
      /\ \A j \in 1..Len(t) : saved =< t[j]
      /\ Appends => \A j \in 1..Len(t) : LastTime =< t[j]
  <2>1. KeptFrom(t, newEnd)
    BY <1>1, <1>2, <1>3, <1>4, KeptIs
  <2> QED
    BY <2>1 DEF KeptFrom
<1>10. Len(<<>>) = 0 /\ <<>> \in Seq(Nat) /\ <<>> \in Seq(Marks) /\ <<>> \in Seq(Entries)
       /\ <<>> \in Seq(Records) /\ <<>> \in Seq(DiagSet)
  BY EmptySeq
<1>11. ax \in Seq(Marks) /\ cl \in [DiagSet -> Seq(Entries)]
  BY <1>2, <1>8, <1>10
<1>12. axis # <<>> => LastTime \in Nat
  <2> SUFFICES ASSUME axis # <<>> PROVE LastTime \in Nat
    OBVIOUS
  <2>1. Len(axis) \in 1..Len(axis)
    <3>1. Len(axis) \in Nat \ {0}
      BY <1>2, EmptySeq
    <3> QED
      BY <3>1
  <2>2. axis[Len(axis)] \in Marks
    BY <1>2, <2>1
  <2> QED
    BY <2>2 DEF LastTime, Marks
<1>13. mv \in Seq(Nat)
  BY <1>7, <1>10, <1>12
<1>14. TypeOK'
  <2>1. 1 \in 1..Len(t) + 1
    <3>1. Len(t) \in Nat
      BY <1>9
    <3> QED
      BY <3>1
  <2>2. ms \in [DiagSet -> Nat] /\ DOMAIN cl = DiagSet
    BY <1>8, <1>11
  <2>3. runs + 1 \in Nat /\ Len(<<>>) =< 2
    BY <1>3, <1>10
  <2>4. plan' \in Plans
    BY <1>1, <1>7 DEF TypeOK
  <2> QED
    BY <1>3, <1>5, <1>7, <1>9, <1>10, <1>13, <2>1, <2>2, <2>3, <2>4 DEF TypeOK
<1>15. FileTypes'
  BY <1>5, <1>7, <1>10, <1>11 DEF FileTypes
<1>16. ColumnsAligned' /\ AxisIncreasing' /\ ColumnSamples'
  <2>1. CASE append
    <3>1. axis' = axis /\ column' = column
      BY <1>5, <1>8, <2>1
    <3> QED
      BY <1>1, <1>7, <3>1 DEF ColumnsAligned, AxisIncreasing, ColumnSamples, Garbage
  <2>2. CASE ~append
    <3>1. ax = <<>> /\ cl = [d \in DiagSet |-> <<>>] /\ Len(ax) = 0
      BY <1>8, <1>10, <2>2
    <3>2. \A d \in DiagSet : Len(cl[d]) = 0
      BY <1>10, <3>1
    <3>3. ColumnsAligned'
      BY <1>5, <3>1, <3>2 DEF ColumnsAligned
    <3>4. AxisIncreasing'
      BY <1>5, <3>1 DEF AxisIncreasing
    <3>5. ColumnSamples'
      BY <1>5, <3>2 DEF ColumnSamples
    <3> QED
      BY <3>3, <3>4, <3>5
  <2> QED
    BY <2>1, <2>2
<1>17. RunTimes'
  BY <1>3, <1>7, <1>9 DEF RunTimes
<1>18. BufferInv'
  <2>1. PICK mt : mt = mT'
    OBVIOUS
  <2>2. mt = <<>> /\ Len(mt) = 0
    BY <1>7, <1>10, <2>1
  <2>3. Len(mt) =< Len(mv)
    BY <1>13, <2>2
  <2>4. ~plan.appending => mv = mt
    BY <1>6, <1>7, <2>2
  <2> QED
    BY <1>5, <1>7, <2>1, <2>2, <2>3, <2>4 DEF BufferInv
<1>19. FullInv'
  BY <1>7 DEF FullInv
<1>20. HeldInv'
  BY <1>7, <1>10 DEF HeldInv
<1>21. FlushInv'
  <2>1. ~Begun'
    BY <1>7 DEF Begun
  <2>2. \A d \in DiagSet : ms[d] = Len(ax)
    BY <1>8
  <2>3. \A d \in DiagSet : Len(cl[d]) =< ms[d]
    BY <1>5, <1>16, <2>2 DEF ColumnsAligned
  <2>4. ASSUME NEW j \in 2..Len(t), NEW k \in 1..Len(ax) PROVE ax[k].at < t[j]
    <3>1. append /\ ax = axis
      <4>1. Len(ax) # 0
        <5>1. Len(ax) \in Nat
          BY <1>11
        <5> QED
          BY <5>1
      <4> QED
        BY <1>8, <1>10, <4>1
    <3>2. Appends
      <4>1. axis # <<>>
        <5>1. k \in 1..Len(axis)
          BY <3>1
        <5>2. Len(axis) # 0
          BY <5>1
        <5> QED
          BY <1>10, <5>2
      <4> QED
        BY <1>6, <3>1, <4>1 DEF Appends
    <3>3. axis[k].at =< LastTime
      BY <1>1, <1>2, <3>1, LastIsLatest
    <3>4. 1 \in 1..Len(t) /\ j \in 1..Len(t) /\ 1 < j
      <4>1. Len(t) \in Nat
        BY <1>9
      <4> QED
        BY <4>1
    <3>5. LastTime =< t[1] /\ t[1] < t[j]
      BY <1>9, <3>2, <3>4 DEF Increasing
    <3>6. LastTime \in Nat /\ t[1] \in Nat /\ t[j] \in Nat
      BY <1>9, <1>12, <3>2, <3>4 DEF Appends
    <3>7. axis[k].at \in Nat
      <4>1. axis[k] \in Marks
        BY <1>2, <3>1
      <4> QED
        BY <4>1 DEF Marks
    <3> QED
      BY <3>1, <3>3, <3>5, <3>6, <3>7
  <2>5. PICK tf : tf = toFlush'
    OBVIOUS
  <2>6. tf = <<>> /\ Len(tf) = 0 /\ \A k \in 1..Len(tf) : FALSE
    BY <1>7, <1>10, <2>5
  <2>7. Len(tf) =< Len(Diags)
    BY <2>6, TimeSeriesAssumption
  <2> QED
    BY <1>5, <1>7, <2>1, <2>2, <2>3, <2>4, <2>5, <2>6, <2>7 DEF FlushInv
<1> QED
  BY <1>14, <1>15, <1>16, <1>17, <1>18, <1>19, <1>20, <1>21 DEF TableInv

LEMMA InitTable ==
  ASSUME Init
  PROVE  TableInv
<1>1. Len(<<>>) = 0 /\ <<>> \in Seq(Nat) /\ <<>> \in Seq(Marks) /\ <<>> \in Seq(Entries)
      /\ <<>> \in Seq(Records) /\ <<>> \in Seq(DiagSet)
  BY EmptySeq
<1>2. /\ axis = <<>> /\ column = [d \in DiagSet |-> <<>>] /\ phase = "idle"
      /\ mStart = [d \in DiagSet |-> 0] /\ times = <<>> /\ current = 1 /\ mT = <<>>
      /\ mV = <<>> /\ toFlush = <<>> /\ pending = <<>> /\ plan \in Plans
      /\ start = Start /\ end = Start /\ now = Start /\ prev = Start /\ saved = Start /\ runs = 0
  BY DEF Init
<1>3. TypeOK
  <2>1. Start \in Nat
    BY TimeSeriesAssumption
  <2>2. current \in 1..Len(times) + 1 /\ Len(mT) =< 2
    BY <1>1, <1>2
  <2>3. mStart \in [DiagSet -> Nat] /\ DOMAIN column = DiagSet
    BY <1>2
  <2> QED
    BY <1>1, <1>2, <2>1, <2>2, <2>3 DEF TypeOK
<1>4. FileTypes
  BY <1>1, <1>2 DEF FileTypes
<1>5. \A d \in DiagSet : Len(column[d]) = 0
  BY <1>1, <1>2
<1>6. ColumnsAligned /\ AxisIncreasing /\ ColumnSamples
  BY <1>1, <1>2, <1>5 DEF ColumnsAligned, AxisIncreasing, ColumnSamples
<1> QED
  BY <1>2, <1>3, <1>4, <1>6 DEF TableInv, Active

LEMMA StutterTable ==
  ASSUME TableInv, UNCHANGED vars
  PROVE  TableInv'
<1>1. UNCHANGED <<plan, phase, start, end, now, prev, saved, runs, times, current, mT, mV,
                  pending, toFlush, mStart, axis, column>>
  BY DEF vars, runVars, bufferVars, fileVars
<1>2. TypeOK'
  BY <1>1 DEF TableInv, TypeOK
<1>3. FileTypes' /\ ColumnsAligned' /\ AxisIncreasing' /\ ColumnSamples'
  BY <1>1, KeepFile DEF TableInv, FileTypes
<1>4. Active' => RunTimes' /\ BufferInv' /\ FullInv' /\ HeldInv'
  BY <1>1 DEF TableInv, Active, RunTimes, BufferInv, FullInv, HeldInv, FirstHeld
<1>5. Active' => FlushInv'
  BY <1>1 DEF TableInv, Active, FlushInv, FirstHeld, Flushing, Begun, Unflushed
<1> QED
  BY <1>2, <1>3, <1>4, <1>5 DEF TableInv

LEMMA TableInductive ==
  ASSUME TableInv, [Next]_vars
  PROVE  TableInv'
<1>1. CASE UNCHANGED vars
  BY <1>1, StutterTable
<1>2. CASE \E e \in plan.ends : StartRun(e)
  BY <1>2, StartKeeps
<1>3. CASE Kill
  BY <1>3, KillKeeps
<1>4. CASE Begin \/ \E t \in Clock : Step(t)
  <2>1. Active
    BY <1>4 DEF Begin, Step, Active
  <2> QED
    BY <1>4, <2>1, UpdateKeeps
<1>5. CASE SaveFirst
  <2>1. Active
    BY <1>5 DEF SaveFirst, Active
  <2> QED
    BY <1>5, <2>1, SaveFirstKeeps
<1>6. CASE Save
  <2>1. Active
    BY <1>6 DEF Save, Active
  <2> QED
    BY <1>6, <2>1, SaveKeeps
<1>7. CASE PhaseStep
  <2>1. Active
    BY <1>7 DEF PhaseStep, SavedAll, RequestFlush, FlushDone, Finish, Active
  <2> QED
    BY <1>7, <2>1, PhaseKeeps
<1>8. CASE Flush
  <2>1. Active
    BY <1>8 DEF Flush, Active
  <2> QED
    BY <1>8, <2>1, FlushKeeps
<1> QED
  BY <1>1, <1>2, <1>3, <1>4, <1>5, <1>6, <1>7, <1>8 DEF Next, PhaseStep

(* iMtimeseries.cc, Timeseries.cc: whatever is requested, whatever steps    *)
(* the runs of a chain take, wherever they are stopped or killed and        *)
(* whatever makes them flush, the file stays a table with one axis of       *)
(* increasing times and a column beside it for every diagnostic, and the    *)
(* buffer of a run asked for its start is flushed before it overflows.      *)
THEOREM SeriesIsConsistent == Spec => []SeriesConsistent
<1>1. TableInv => SeriesConsistent
  <2>1. ASSUME TableInv PROVE BufferBound
    <3> SUFFICES ASSUME times # <<>>, times[1] =< start, phase \in {"loop", "saving"}
                 PROVE  Len(pending) < BufferSize
      BY DEF BufferBound
    <3>1. FullInv
      BY <2>1 DEF TableInv, Active
    <3> QED
      BY <3>1 DEF FullInv
  <2> QED
    BY <2>1 DEF TableInv, SeriesConsistent
<1> QED
  BY <1>1, InitTable, TableInductive, PTL DEF Spec

(* Timeseries::interp(): whatever is requested and whatever steps are       *)
(* taken, a requested time is within the buffer it is interpolated from,    *)
(* and in files no run appends to the values are those at the times of the  *)
(* buffer.                                                                  *)
THEOREM InterpolationIsRight == Spec => []InterpolationRight
<1>1. TableInv => InterpolationRight
  <2> SUFFICES ASSUME TableInv PROVE InterpolationRight
    OBVIOUS
  <2>1. TypeOK /\ FileTypes /\ ColumnsAligned /\ ColumnSamples
    BY DEF TableInv
  <2>2. RequestWithinBuffer
    <3> SUFFICES ASSUME phase = "saving", current \in 2..Len(times), Len(mT) >= 2,
                        times[current] =< now
                 PROVE  mT[1] =< times[current] /\ times[current] =< mT[2]
      BY DEF RequestWithinBuffer
    <3>1. BufferInv
      BY DEF TableInv, Active
    <3>2. /\ Len(mT) \in Nat /\ Len(mT) =< 2 /\ Len(times) \in Nat
          /\ \A k \in 1..Len(mT) : mT[k] \in Nat
          /\ \A j \in 1..Len(times) : times[j] \in Nat
      BY <2>1, Typed
    <3>3. Len(mT) = 2 /\ current =< Len(times)
      <4>1. PICK n \in Nat, m \in Nat : n = Len(mT) /\ n =< 2 /\ m = Len(times)
        BY <3>2
      <4>2. n = 2 /\ current =< m
        BY <4>1
      <4> QED
        BY <4>1, <4>2
    <3>4. mT[1] < times[current] /\ mT[2] = now
      BY <3>1, <3>3 DEF BufferInv
    <3>5. mT[1] \in Nat /\ times[current] \in Nat
      BY <3>2, <3>3
    <3> QED
      BY <3>4, <3>5
  <2>3. NewFileSamplesMatch
    <3> SUFFICES ASSUME ~plan.appending, NEW d \in DiagSet, NEW k \in 1..Len(axis),
                        k =< Len(column[d]), column[d][k].samples # <<>>
                 PROVE  column[d][k].samples = column[d][k].ends
      BY DEF NewFileSamplesMatch, SamplesMatchTimes
    <3>1. Len(axis) \in Nat /\ Len(column[d]) \in Nat
      BY <2>1 DEF FileTypes
    <3>2. k \in 1..Len(column[d])
      BY <3>1
    <3> QED
      BY <2>1, <3>2 DEF ColumnSamples
  <2> QED
    BY <2>2, <2>3 DEF InterpolationRight
<1> QED
  BY <1>1, InitTable, TableInductive, PTL DEF Spec

-----------------------------------------------------------------------------
(* Chains of runs that leave no requested time out.                         *)

(* The steps that leave the file and the records that wait as they are.     *)
LEMMA KeepRecords ==
  ASSUME column' = column, plan' = plan
  PROVE  /\ \A t : \A d \in DiagSet : HasRecord(d, t)' <=> HasRecord(d, t)
         /\ \A t : CompleteTo(t) => CompleteTo(t)'
         /\ Requested' = Requested /\ (Aligned' <=> Aligned)
<1>1. \A t : \A d \in DiagSet : HasRecord(d, t)' <=> HasRecord(d, t)
  BY DEF HasRecord
<1>2. \A t : CompleteTo(t) => CompleteTo(t)'
  BY <1>1 DEF CompleteTo, Requests
<1> QED
  BY <1>1, <1>2 DEF Requested, Aligned, Requests

LEMMA KeepComplete ==
  ASSUME TableInv, CompleteInv, Active, Active',
         UNCHANGED <<plan, start, end, runs, times, axis, column>>,
         NEW t \in Nat, now' = t, now =< t, t =< end,
         phase' = "closing" => t = end /\ saved' = end,
         \A j \in 1..current' - 1 : times[j] =< t,
         \A j \in 2..FirstHeld' - 1 : j \in 2..FirstHeld - 1,
         ~Begun'
  PROVE  CompleteInv'
<1> SUFFICES ASSUME Aligned' PROVE CompleteInv'
  BY DEF CompleteInv
<1>1. /\ \A r : \A d \in DiagSet : HasRecord(d, r)' <=> HasRecord(d, r)
      /\ \A r : CompleteTo(r) => CompleteTo(r)'
      /\ Aligned
  BY KeepRecords
<1>2. RunComplete /\ \A k \in 1..Len(axis) : axis[k].at =< now
  BY <1>1 DEF CompleteInv
<1>3. TypeOK /\ FileTypes
  BY DEF TableInv
<1>4. now \in Nat
  BY <1>3, Typed
<1>5. \A k \in 1..Len(axis) : axis[k].at \in Nat
  <2>1. \A k \in 1..Len(axis) : axis[k] \in Marks
    BY <1>3 DEF FileTypes
  <2>2. \A mark \in Marks : mark.at \in Nat
    BY DEF Marks
  <2> QED
    BY <2>1, <2>2
<1>6. \A k \in 1..Len(axis) : axis[k].at =< t
  BY <1>2, <1>4, <1>5
<1>7. CompleteTo(start)'
  <2>1. CompleteTo(start)
    BY <1>2 DEF RunComplete
  <2>2. PICK r : r = start
    OBVIOUS
  <2>3. CompleteTo(r)'
    BY <1>1, <2>1, <2>2
  <2> QED
    BY <2>2, <2>3
<1>8. \A j \in 2..FirstHeld' - 1 : \A d \in DiagSet : HasRecord(d, times[j])'
  <2> SUFFICES ASSUME NEW j \in 2..FirstHeld' - 1, NEW d \in DiagSet
               PROVE  HasRecord(d, times[j])'
    OBVIOUS
  <2>1. HasRecord(d, times[j])
    BY <1>2 DEF RunComplete
  <2>2. PICK r : r = times[j]
    OBVIOUS
  <2>3. HasRecord(d, r)'
    BY <1>1, <2>1, <2>2
  <2> QED
    BY <2>2, <2>3
<1>9. RunComplete'
  <2>1. /\ runs > 0 /\ end \in plan.ends
        /\ \A i \in 1..Len(Requests) : start =< Requests[i] /\ Requests[i] =< end =>
              \E j \in 1..Len(times) : times[j] = Requests[i]
        /\ times # <<>> /\ times[1] = start
    BY <1>2 DEF RunComplete
  <2>2. Requests' = Requests
    BY DEF Requests
  <2> QED
    BY <1>7, <1>8, <2>1, <2>2 DEF RunComplete
<1>10. phase' # "idle"
  BY DEF Active
<1> QED
  BY <1>6, <1>9, <1>10 DEF CompleteInv

LEMMA NotAligned ==
  ASSUME plan' = plan, Aligned => CompleteInv'
  PROVE  CompleteInv'
BY DEF CompleteInv, Aligned, Requested, Requests

LEMMA UpdateComplete ==
  ASSUME TableInv, CompleteInv, Active, Begin \/ \E t \in Clock : Step(t)
  PROVE  CompleteInv'
<1>1. UNCHANGED <<plan, saved, start, end, runs, times, current, pending, toFlush, mStart,
                  axis, column>>
  BY DEF Begin, Step, runVars, fileVars
<1> SUFFICES ASSUME Aligned PROVE CompleteInv'
  BY <1>1, NotAligned
<1>2. RunComplete
  BY DEF CompleteInv
<1>3. /\ now \in Nat /\ end \in Nat /\ current \in Nat /\ current >= 1
      /\ current =< Len(times) + 1 /\ Len(times) \in Nat
      /\ \A j \in 1..Len(times) : times[j] \in Nat
  BY Typed DEF TableInv
<1>4. PICK t \in Nat : /\ now' = t /\ now =< t /\ t =< end /\ Update(t)
                       /\ phase \in {"begin", "loop"}
  <2>1. CASE Begin
    <3>1. now =< now /\ now =< end
      BY <1>2, <1>3 DEF RunComplete
    <3> QED
      BY <1>3, <2>1, <3>1 DEF Begin
  <2>2. CASE \E t \in Clock : Step(t)
    <3>1. PICK t \in Clock : Step(t)
      BY <2>2
    <3>2. t \in Nat
      BY TimeSeriesAssumption DEF Clock
    <3>3. now =< t
      BY <1>3, <3>1, <3>2 DEF Step
    <3> QED
      BY <3>1, <3>2, <3>3 DEF Step
  <2> QED
    BY <2>1, <2>2
<1>5. phase' \in {"saving", "loop"}
  BY <1>4 DEF Update
<1>6. \A j \in 1..current' - 1 : times[j] =< t
  <2> SUFFICES ASSUME NEW j \in 1..current - 1 PROVE times[j] =< t
    BY <1>1
  <2>1. times[j] =< now
    BY <1>2 DEF RunComplete
  <2>2. j \in 1..Len(times)
    BY <1>3
  <2>3. times[j] \in Nat
    BY <1>3, <2>2
  <2> QED
    BY <1>3, <1>4, <2>1, <2>3
<1>7. FirstHeld' = FirstHeld
  BY <1>1 DEF FirstHeld
<1>8. ~Begun'
  <2>1. toFlush = <<>>
    <3>1. FlushInv
      BY DEF TableInv
    <3> QED
      BY <1>4, <3>1 DEF FlushInv, Flushing
  <2> QED
    BY <1>1, <2>1 DEF Begun
<1>9. Active' /\ phase' # "closing"
  BY <1>5 DEF Active
<1>10. \A j \in 2..FirstHeld' - 1 : j \in 2..FirstHeld - 1
  BY <1>7
<1> QED
  BY <1>1, <1>4, <1>6, <1>8, <1>9, <1>10, KeepComplete

LEMMA SaveFirstComplete ==
  ASSUME TableInv, CompleteInv, Active, SaveFirst
  PROVE  CompleteInv'
<1>1. /\ phase = "saving" /\ current = 1 /\ times # <<>> /\ times[1] =< now /\ current' = 2
      /\ UNCHANGED <<plan, phase, now, prev, saved, start, end, runs, times, mT, mV,
                     pending, toFlush, mStart, axis, column>>
  BY DEF SaveFirst, runVars, fileVars
<1> SUFFICES ASSUME Aligned PROVE CompleteInv'
  BY <1>1, NotAligned
<1>2. RunComplete
  BY DEF CompleteInv
<1>3. now \in Nat
  BY Typed DEF TableInv
<1>4. now =< now /\ now =< end
  BY <1>2, <1>3 DEF RunComplete
<1>5. \A j \in 1..current' - 1 : times[j] =< now
  BY <1>1
<1>6. ~Begun'
  <2>1. toFlush = <<>>
    <3>1. FlushInv
      BY DEF TableInv
    <3> QED
      BY <1>1, <3>1 DEF FlushInv, Flushing
  <2> QED
    BY <1>1, <2>1 DEF Begun
<1>7. \A j \in 2..FirstHeld' - 1 : FALSE
  <2>1. PICK n \in Nat : n = Len(pending)
    BY DEF TableInv, FileTypes
  <2>2. FirstHeld' = 2 - n
    BY <1>1, <2>1 DEF FirstHeld
  <2> QED
    BY <2>2
<1>8. Active' /\ phase' # "closing"
  BY <1>1 DEF Active
<1> QED
  BY <1>1, <1>3, <1>4, <1>5, <1>6, <1>7, <1>8, KeepComplete

LEMMA SaveComplete ==
  ASSUME TableInv, CompleteInv, Active, Save
  PROVE  CompleteInv'
<1>1. /\ phase = "saving" /\ current > 1 /\ current =< Len(times) /\ times[current] =< now
      /\ current' = current + 1
      /\ pending' = Append(pending, NewRecord)
      /\ toFlush' \in {Diags, <<>>}
      /\ phase' \in {"flushing", "saving"}
      /\ UNCHANGED <<plan, now, prev, saved, start, end, runs, times, mT, mV,
                     mStart, axis, column>>
  BY DEF Save, runVars, fileVars
<1> SUFFICES ASSUME Aligned PROVE CompleteInv'
  BY <1>1, NotAligned
<1>2. RunComplete
  BY DEF CompleteInv
<1>3. now \in Nat /\ current \in Nat
  BY Typed DEF TableInv
<1>4. now =< now /\ now =< end
  BY <1>2, <1>3 DEF RunComplete
<1>5. \A j \in 1..current' - 1 : times[j] =< now
  <2> SUFFICES ASSUME NEW j \in 1..current PROVE times[j] =< now
    BY <1>1, <1>3
  <2>1. CASE j = current
    BY <1>1, <2>1
  <2>2. CASE j # current
    <3>1. j \in 1..current - 1
      BY <1>3, <2>2
    <3> QED
      BY <1>2, <3>1 DEF RunComplete
  <2> QED
    BY <2>1, <2>2
<1>6. ~Begun'
  <2>1. PICK q : q = toFlush'
    OBVIOUS
  <2>2. Len(Diags) \in Nat
    BY TimeSeriesAssumption
  <2>3. q = <<>> \/ ~(Len(q) < Len(Diags))
    BY <1>1, <2>1, <2>2
  <2> QED
    BY <2>1, <2>3 DEF Begun
<1>7. FirstHeld' = FirstHeld
  <2>1. PICK n \in Nat : n = Len(pending)
    BY DEF TableInv, FileTypes
  <2>2. PICK p : p = pending'
    OBVIOUS
  <2>3. Len(p) = n + 1
    <3>1. pending \in Seq(Records)
      BY DEF TableInv, FileTypes
    <3>2. mT # <<>>
      BY <1>1 DEF TableInv, BufferInv
    <3>3. NewRecord \in Records
      BY <1>1, <3>2, NewRecordIs DEF TableInv
    <3>4. Len(Append(pending, NewRecord)) = Len(pending) + 1
      BY <3>1, <3>3, AppendProperties
    <3> QED
      BY <1>1, <2>1, <2>2, <3>4
  <2>4. PICK c : c = current'
    OBVIOUS
  <2>5. FirstHeld' = c - Len(p)
    BY <2>2, <2>4 DEF FirstHeld
  <2>6. c - Len(p) = current - n
    <3>1. c = current + 1
      BY <1>1, <2>4
    <3> QED
      BY <1>3, <2>3, <3>1
  <2> QED
    BY <2>1, <2>5, <2>6 DEF FirstHeld
<1>8. Active' /\ phase' # "closing"
  BY <1>1 DEF Active
<1>9. \A j \in 2..FirstHeld' - 1 : j \in 2..FirstHeld - 1
  BY <1>7
<1> QED
  BY <1>1, <1>3, <1>4, <1>5, <1>6, <1>8, <1>9, KeepComplete

LEMMA PhaseComplete ==
  ASSUME TableInv, CompleteInv, Active, PhaseStep
  PROVE  CompleteInv'
<1>1. UNCHANGED <<plan, now, prev, start, end, runs, times, current, mT, mV, pending,
                  mStart, axis, column>>
  BY DEF PhaseStep, SavedAll, RequestFlush, FlushDone, Finish, runVars, bufferVars, fileVars
<1>2. \/ phase' \in {"loop", "saving", "flushing"} /\ toFlush' \in {toFlush, Diags, <<>>}
      \/ phase' = "closing" /\ toFlush' = Diags /\ saved' = now
         /\ (now >= end \/ plan.stops)
      \/ phase = "closing" /\ phase' = "idle" /\ pending = <<>> /\ saved' = saved
  BY DEF PhaseStep, SavedAll, RequestFlush, FlushDone, Finish, bufferVars
<1> SUFFICES ASSUME Aligned PROVE CompleteInv'
  BY <1>1, NotAligned
<1>3. RunComplete /\ \A k \in 1..Len(axis) : axis[k].at =< now
  BY DEF CompleteInv
<1>4. TypeOK /\ RunTimes /\ BufferInv /\ HeldInv /\ FlushInv /\ FileTypes
  BY DEF TableInv
<1>5. /\ now \in Nat /\ end \in Nat /\ start \in Nat /\ current \in Nat
      /\ Len(times) \in Nat /\ \A j \in 1..Len(times) : times[j] \in Nat
  BY <1>4, Typed
<1>6. now =< now /\ now =< end
  BY <1>3, <1>5 DEF RunComplete
<1>7. CASE phase' # "idle"
  <2>1. \A j \in 1..current' - 1 : times[j] =< now
    BY <1>1, <1>3 DEF RunComplete
  <2>2. FirstHeld' = FirstHeld
    BY <1>1 DEF FirstHeld
  <2>3. \A j \in 2..FirstHeld' - 1 : j \in 2..FirstHeld - 1
    BY <2>2
  <2>4. ~Begun'
    <3>2. toFlush' \in {Diags, <<>>}
      <4>1. ~Flushing => toFlush = <<>>
        BY <1>4 DEF FlushInv
      <4> QED
        BY <4>1 DEF PhaseStep, SavedAll, RequestFlush, FlushDone, Finish, Flushing
    <3>3. PICK q : q = toFlush'
      OBVIOUS
    <3>4. Len(Diags) \in Nat
      BY TimeSeriesAssumption
    <3>5. q = <<>> \/ ~(Len(q) < Len(Diags))
      BY <3>2, <3>3, <3>4
    <3> QED
      BY <3>3, <3>5 DEF Begun
  <2>5. phase' = "closing" => now = end /\ saved' = end
    <3>1. ~plan.stops
      BY DEF Aligned
    <3>2. phase' = "closing" => now >= end /\ saved' = now
      BY <1>2, <3>1
    <3> QED
      BY <1>5, <1>6, <3>2
  <2>6. Active'
    BY <1>7 DEF Active
  <2> QED
    BY <1>1, <1>5, <1>6, <2>1, <2>3, <2>4, <2>5, <2>6, KeepComplete
<1>8. CASE phase' = "idle"
  <2>1. phase = "closing" /\ pending = <<>> /\ saved' = saved
    BY <1>2, <1>8
  <2>2. now = end /\ saved = end /\ end \in plan.ends /\ runs > 0
    BY <1>3, <2>1 DEF RunComplete
  <2>3. now \in Requested
    BY <2>2 DEF Aligned
  <2>4. CompleteTo(now)
    <3> SUFFICES ASSUME NEW i \in 2..Len(Requests), Start < Requests[i], Requests[i] =< now,
                        NEW d \in DiagSet
                 PROVE  HasRecord(d, Requests[i])
      BY DEF CompleteTo
    <3>1. PICK r : r = Requests[i]
      OBVIOUS
    <3>2. i \in 1..Len(Requests) /\ r \in Nat
      <4>1. Requests \in Seq(Nat)
        BY <1>4, PlanTyped
      <4>2. i \in 1..Len(Requests)
        <5>1. Len(Requests) \in Nat
          BY <4>1
        <5> QED
          BY <5>1
      <4> QED
        BY <3>1, <4>1, <4>2
    <3>3. CASE r =< start
      <4>1. CompleteTo(start)
        BY <1>3 DEF RunComplete
      <4> QED
        BY <3>1, <3>3, <4>1 DEF CompleteTo
    <3>4. CASE ~(r =< start)
      <4>1. start =< r /\ r =< end
        BY <1>5, <2>2, <3>1, <3>2, <3>4
      <4>2. PICK j \in 1..Len(times) : times[j] = r
        BY <1>3, <3>1, <3>2, <4>1 DEF RunComplete
      <4>3. j # 1
        <5>1. times[1] = start
          BY <1>3 DEF RunComplete
        <5> QED
          BY <1>5, <3>2, <3>4, <4>2, <5>1
      <4>4. ~(current =< j)
        <5> SUFFICES ASSUME current =< j PROVE FALSE
          OBVIOUS
        <5>1. current \in 1..Len(times)
          <6>1. current >= 1
            BY <1>4, Typed
          <6> QED
            BY <1>5, <6>1
        <5>2. now < times[current]
          <6>1. current =< Len(times)
            BY <1>5, <5>1
          <6> QED
            BY <1>4, <2>1, <6>1 DEF BufferInv
        <5>3. times[current] =< times[j]
          <6>1. CASE current = j
            BY <1>5, <5>1, <6>1
          <6>2. CASE current # j
            <7>1. current < j
              BY <1>5, <6>2
            <7>2. times[current] < times[j]
              BY <1>4, <5>1, <7>1, Later
            <7> QED
              BY <1>5, <5>1, <7>2
          <6> QED
            BY <6>1, <6>2
        <5>4. times[current] \in Nat /\ times[j] \in Nat
          BY <1>5, <5>1
        <5> QED
          BY <1>5, <2>2, <3>2, <4>1, <4>2, <5>2, <5>3, <5>4
      <4>5. FirstHeld = current
        <5>1. Len(pending) = 0
          BY <2>1, EmptySeq
        <5> QED
          BY <1>5, <5>1 DEF FirstHeld
      <4>6. j \in 2..FirstHeld - 1
        BY <1>5, <4>3, <4>4, <4>5
      <4> QED
        BY <1>3, <3>1, <4>2, <4>6 DEF RunComplete
    <3> QED
      BY <3>3, <3>4
  <2>5. IdleComplete'
    <3>1. PICK t : t = now
      OBVIOUS
    <3>2. CompleteTo(t)' /\ Requested' = Requested
      BY <1>1, <2>4, <3>1, KeepRecords
    <3>3. now' = t /\ saved' = t /\ runs' = runs
      BY <1>1, <2>1, <2>2, <3>1
    <3>4. CompleteTo(now)'
      BY <3>2, <3>3
    <3>5. ~(runs = 0)
      <4>1. runs \in Nat
        BY <1>4, Typed
      <4> QED
        BY <2>2, <4>1
    <3>6. now' \in Requested'
      BY <1>1, <2>3, <3>2
    <3> QED
      BY <3>3, <3>4, <3>5, <3>6 DEF IdleComplete
  <2> QED
    BY <1>1, <1>3, <1>8, <2>5 DEF CompleteInv, Active
<1> QED
  BY <1>7, <1>8

LEMMA StartComplete ==
  ASSUME TableInv, CompleteInv, NEW newEnd \in plan.ends, StartRun(newEnd)
  PROVE  CompleteInv'
<1>1. /\ phase = "idle" /\ saved < newEnd
      /\ start' = saved /\ now' = saved /\ end' = newEnd /\ runs' = runs + 1
      /\ times' = Kept(newEnd) /\ current' = 1 /\ pending' = <<>> /\ toFlush' = <<>>
      /\ phase' = "begin" /\ plan' = plan
      /\ axis' = IF plan.appending /\ runs > 0 THEN axis ELSE <<>>
      /\ column' = IF plan.appending /\ runs > 0 THEN column ELSE [d \in DiagSet |-> <<>>]
  BY DEF StartRun, Kept
<1> SUFFICES ASSUME Aligned PROVE CompleteInv'
  BY <1>1, NotAligned
<1>2. IdleComplete /\ \A k \in 1..Len(axis) : axis[k].at =< now
  BY <1>1 DEF CompleteInv
<1>3. plan.appending /\ now = saved /\ now \in Requested /\ CompleteTo(now)
  BY <1>2 DEF Aligned, IdleComplete
<1>4. TypeOK /\ axis \in Seq(Marks) /\ Len(axis) \in Nat
  BY DEF TableInv, FileTypes
<1>5. now \in Nat /\ runs \in Nat /\ saved \in Nat /\ newEnd \in Nat
  BY <1>4, Typed, PlanTyped
<1>6. PICK t : t = Kept(newEnd)
  OBVIOUS
<1>7. /\ t \in Seq(Nat) /\ Increasing(t)
      /\ \A j \in 1..Len(t) : saved =< t[j]
      /\ \A i \in 1..Len(Requests) :
           /\ saved =< Requests[i] /\ Requests[i] =< newEnd
           /\ Appends => LastTime =< Requests[i]
           => \E j \in 1..Len(t) : t[j] = Requests[i]
  <2>1. KeptFrom(t, newEnd)
    BY <1>4, <1>5, <1>6, KeptIs
  <2> QED
    BY <2>1 DEF KeptFrom
<1>8. Requests \in Seq(Nat) /\ Len(Requests) \in Nat
  <2>1. Requests \in Seq(Nat)
    BY <1>4, PlanTyped
  <2> QED
    BY <2>1
<1>9. Appends => LastTime =< saved
  <2> SUFFICES ASSUME axis # <<>> PROVE LastTime =< saved
    BY DEF Appends
  <2>1. Len(axis) \in 1..Len(axis)
    <3>1. Len(axis) # 0
      BY <1>4, EmptySeq
    <3> QED
      BY <1>4, <3>1
  <2> QED
    BY <1>2, <1>3, <2>1 DEF LastTime
<1>10. \A i \in 1..Len(Requests) : saved =< Requests[i] /\ Requests[i] =< newEnd =>
          \E j \in 1..Len(t) : t[j] = Requests[i]
  <2> SUFFICES ASSUME NEW i \in 1..Len(Requests), saved =< Requests[i], Requests[i] =< newEnd
               PROVE  \E j \in 1..Len(t) : t[j] = Requests[i]
    OBVIOUS
  <2>1. PICK r : r = Requests[i]
    OBVIOUS
  <2>2. r \in Nat /\ saved =< r
    BY <1>8, <2>1
  <2>3. Appends => LastTime =< r
    <3> SUFFICES ASSUME Appends PROVE LastTime =< r
      OBVIOUS
    <3>1. PICK l : l = LastTime
      OBVIOUS
    <3>2. l \in Nat
      <4>1. Len(axis) \in 1..Len(axis)
        <5>1. Len(axis) # 0
          BY <1>4, EmptySeq DEF Appends
        <5> QED
          BY <1>4, <5>1
      <4>2. axis[Len(axis)] \in Marks
        BY <1>4, <4>1
      <4> QED
        BY <3>1, <4>2 DEF LastTime, Marks
    <3>3. l =< saved
      BY <1>9, <3>1
    <3> QED
      BY <1>5, <2>2, <3>1, <3>2, <3>3
  <2> QED
    BY <1>7, <2>1, <2>3
<1>11. t # <<>> /\ t[1] = saved
  <2>1. PICK i \in 1..Len(Requests) : Requests[i] = saved
    BY <1>3 DEF Requested
  <2>2. saved =< saved /\ saved =< newEnd
    BY <1>1, <1>5
  <2>3. PICK j \in 1..Len(t) : t[j] = saved
    <3>1. \E j \in 1..Len(t) : t[j] = Requests[i]
      BY <1>10, <2>1, <2>2
    <3> QED
      BY <2>1, <3>1
  <2>4. Len(t) \in Nat
    BY <1>7
  <2>5. 1 \in 1..Len(t) /\ Len(t) # 0
    BY <2>3, <2>4
  <2>6. t[1] \in Nat /\ saved =< t[1]
    BY <1>7, <2>5
  <2>7. t[1] =< t[j]
    <3>1. CASE j = 1
      BY <2>6, <3>1
    <3>2. CASE j # 1
      <4>1. 1 < j
        BY <2>4, <3>2
      <4>2. t[1] < t[j]
        BY <1>7, <2>5, <4>1 DEF Increasing
      <4> QED
        BY <1>5, <2>3, <2>6, <4>2
    <3> QED
      BY <3>1, <3>2
  <2>8. t # <<>>
    BY <2>5, EmptySeq
  <2> QED
    BY <1>5, <2>3, <2>6, <2>7, <2>8
<1>12. \A k \in 1..Len(axis') : axis'[k].at =< saved
  <2>1. CASE runs > 0
    BY <1>1, <1>2, <1>3, <2>1
  <2>2. CASE ~(runs > 0)
    <3>1. PICK ax : ax = axis'
      OBVIOUS
    <3>2. ax = <<>> /\ Len(ax) = 0
      BY <1>1, <2>2, <3>1, EmptySeq
    <3> QED
      BY <3>1, <3>2
  <2> QED
    BY <2>1, <2>2
<1>13. CompleteTo(start)'
  <2>1. PICK r : r = saved
    OBVIOUS
  <2>2. CompleteTo(r)'
    <3>1. CASE runs > 0
      <4>1. column' = column /\ CompleteTo(r)
        BY <1>1, <1>3, <2>1, <3>1
      <4> QED
        BY <1>1, <4>1, KeepRecords
    <3>2. CASE ~(runs > 0)
      <4>1. r = Start /\ Start \in Nat
        BY <1>2, <1>3, <1>5, <2>1, <3>2 DEF IdleComplete
      <4>2. \A i \in 2..Len(Requests) : ~(Start < Requests[i] /\ Requests[i] =< r)
        <5> SUFFICES ASSUME NEW i \in 2..Len(Requests)
                     PROVE  ~(Start < Requests[i] /\ Requests[i] =< r)
          OBVIOUS
        <5>1. i \in 1..Len(Requests)
          BY <1>8
        <5>2. Requests[i] \in Nat
          BY <1>8, <5>1
        <5> QED
          BY <4>1, <5>2
      <4>3. Requests' = Requests
        BY <1>1 DEF Requests
      <4> QED
        BY <4>2, <4>3 DEF CompleteTo
    <3> QED
      BY <3>1, <3>2
  <2>3. start' = r
    BY <1>1, <2>1
  <2> QED
    BY <2>2, <2>3
<1>14. RunComplete'
  <2>1. runs' > 0 /\ now' =< end' /\ end' \in plan'.ends
    <3>1. PICK r : r = runs'
      OBVIOUS
    <3>2. r > 0
      BY <1>1, <1>5, <3>1
    <3>3. saved =< newEnd
      BY <1>1, <1>5
    <3> QED
      BY <1>1, <3>1, <3>2, <3>3
  <2>2. Requests' = Requests
    BY <1>1 DEF Requests
  <2>3. FirstHeld' = 1
    <3>1. PICK p : p = pending'
      OBVIOUS
    <3>2. Len(p) = 0
      BY <1>1, <3>1, EmptySeq
    <3>3. FirstHeld' = 1 - Len(p)
      BY <1>1, <3>1 DEF FirstHeld
    <3> QED
      BY <3>2, <3>3
  <2>4. \A j \in 2..FirstHeld' - 1 : FALSE
    BY <2>3
  <2>5. PICK c : c = current'
    OBVIOUS
  <2>6. \A j \in 1..c - 1 : FALSE
    BY <1>1, <2>5
  <2>7. ~Begun'
    BY <1>1 DEF Begun
  <2> QED
    BY <1>1, <1>6, <1>10, <1>11, <1>13, <2>1, <2>2, <2>4, <2>5, <2>6, <2>7 DEF RunComplete
<1> QED
  BY <1>1, <1>12, <1>14 DEF CompleteInv

(* Flushing a diagnostic gives it a record of every time consumed.          *)
LEMMA FlushComplete ==
  ASSUME TableInv, CompleteInv, Active, Flush
  PROVE  CompleteInv'
<1>1. /\ phase \in {"flushing", "closing"} /\ toFlush # <<>> /\ pending # <<>>
      /\ toFlush' = Tail(toFlush)
      /\ pending' = IF Len(toFlush) = 1 THEN <<>> ELSE pending
      /\ UNCHANGED <<plan, phase, now, prev, saved, start, end, runs, times, current>>
  BY DEF Flush, runVars, bufferVars
<1> SUFFICES ASSUME Aligned PROVE CompleteInv'
  BY <1>1, NotAligned
<1>2. RunComplete /\ \A k \in 1..Len(axis) : axis[k].at =< now
  BY DEF CompleteInv
<1>3. TypeOK /\ FileTypes /\ RunTimes /\ HeldInv /\ FlushInv
  BY DEF TableInv
<1>4. PICK first \in Nat, i \in 1..Len(Diags) :
         FlushedAt(first, i) /\ FilledFrom(column', first, i)
  BY FlushFills
<1>5. PICK ax, cl, tf, pn : ax = axis' /\ cl = column' /\ tf = toFlush' /\ pn = pending'
  OBVIOUS
<1>6. PICK n \in Nat, q \in Nat, m \in Nat :
        n = Len(pending) /\ n > 0 /\ q = Len(toFlush) /\ q > 0 /\ m = Len(Diags)
  <2>1. pending \in Seq(Records) /\ toFlush \in Seq(DiagSet) /\ Len(Diags) \in Nat
    BY <1>3, TimeSeriesAssumption DEF FileTypes, TypeOK
  <2>2. Len(pending) # 0 /\ Len(toFlush) # 0
    BY <1>1, <2>1, EmptySeq
  <2> QED
    BY <2>1, <2>2
<1>7. i = m - q + 1 /\ i \in 1..m
  BY <1>4, <1>6 DEF FlushedAt
<1>8. /\ FirstHeld = current - n /\ FirstHeld \in Nat /\ FirstHeld >= 2
      /\ \A k \in 1..n : FirstHeld - 1 + k \in 2..Len(times)
      /\ \A k \in 1..n : pending[k].at = times[FirstHeld - 1 + k]
  <2>1. /\ FirstHeld = current - n /\ FirstHeld \in Nat /\ FirstHeld >= 2
        /\ \A k \in 1..n : /\ FirstHeld - 1 + k \in 2..Len(times)
                           /\ pending[k].at = times[FirstHeld - 1 + k]
                           /\ pending[k].at \in Nat
    BY <1>1, <1>3, <1>6, HeldTimes
  <2> QED
    BY <2>1
<1>9. current \in Nat
  BY <1>3, Typed
<1>10. \A d \in DiagSet : \A r : HasRecord(d, r) => HasRecord(d, r)'
  <2> SUFFICES ASSUME NEW d \in DiagSet, NEW r, HasRecord(d, r)
               PROVE  HasRecord(d, r)'
    OBVIOUS
  <2>4. HasRecord(d, r)' <=> \E k \in 1..Len(cl[d]) : cl[d][k].at = r
    BY <1>5 DEF HasRecord
  <2>1. PICK k \in 1..Len(column[d]) : column[d][k].at = r
    BY DEF HasRecord
  <2>2. CASE d = Diags[i]
    <3>1. k \in 1..Len(cl[d]) /\ cl[d][k] = column[d][k]
      BY <1>4, <1>5, <2>2 DEF FilledFrom
    <3> QED
      BY <2>1, <2>4, <3>1
  <2>3. CASE d # Diags[i]
    <3>1. cl[d] = column[d]
      BY <1>4, <1>5, <2>3 DEF FilledFrom
    <3> QED
      BY <2>1, <2>4, <3>1
  <2> QED
    BY <2>2, <2>3
<1>11. \A l \in 1..m : Diags[l] \in DiagSet
  BY <1>6 DEF DiagSet
(* The diagnostic flushed now has a record of every time consumed.          *)
<1>12. \A j \in 2..current - 1 : \A r : r = times[j] => HasRecord(Diags[i], r)'
  <2> SUFFICES ASSUME NEW j \in 2..current - 1, NEW r, r = times[j]
               PROVE  HasRecord(Diags[i], r)'
    OBVIOUS
  <2>1. CASE j < FirstHeld
    <3>1. j \in 2..FirstHeld - 1
      BY <1>8, <1>9, <2>1
    <3>2. HasRecord(Diags[i], r)
      BY <1>2, <1>7, <1>11, <3>1 DEF RunComplete
    <3> QED
      BY <1>7, <1>10, <1>11, <3>2
  <2>2. CASE ~(j < FirstHeld)
    <3>1. PICK k \in 1..n : FirstHeld - 1 + k = j
      <4>1. j - FirstHeld + 1 \in 1..n /\ FirstHeld - 1 + (j - FirstHeld + 1) = j
        BY <1>8, <1>9, <2>2
      <4> QED
        BY <4>1
    <3>2. pending[k].at = r
      BY <1>8, <3>1
    <3>3. Len(cl[Diags[i]]) = first + n /\ cl[Diags[i]][first + k].at = pending[k].at
      BY <1>4, <1>5, <1>6 DEF FilledFrom
    <3>4. first + k \in 1..Len(cl[Diags[i]])
      BY <3>3
    <3> QED
      BY <1>5, <3>2, <3>3, <3>4 DEF HasRecord
  <2> QED
    BY <2>1, <2>2
(* So have those flushed before it.                                         *)
<1>13. \A l \in 1..i : \A j \in 2..current - 1 : \A r : r = times[j] => HasRecord(Diags[l], r)'
  <2> SUFFICES ASSUME NEW l \in 1..i, NEW j \in 2..current - 1, NEW r, r = times[j]
               PROVE  HasRecord(Diags[l], r)'
    OBVIOUS
  <2>1. CASE l = i
    BY <1>12, <2>1
  <2>2. CASE l # i
    <3>1. l \in 1..m /\ l < i
      BY <1>6, <1>7, <2>2
    <3>2. Begun /\ ~Unflushed(l)
      BY <1>1, <1>6, <1>7, <3>1 DEF Begun, Unflushed
    <3>3. HasRecord(Diags[l], r)
      BY <1>2, <1>6, <3>1, <3>2 DEF RunComplete
    <3> QED
      BY <1>10, <1>11, <3>1, <3>3
  <2> QED
    BY <2>1, <2>2
<1>14. \A k \in 1..Len(ax) : ax[k].at =< now
  <2> SUFFICES ASSUME NEW k \in 1..Len(ax) PROVE ax[k].at =< now
    OBVIOUS
  <2>1. Len(axis) \in Nat /\ Len(ax) = first + n /\ first =< Len(axis)
    BY <1>3, <1>4, <1>5, <1>6 DEF FlushedAt, FileTypes
  <2>2. CASE k =< Len(axis)
    <3>1. k \in 1..Len(axis)
      BY <2>1, <2>2
    <3>2. ax[k] = axis[k]
      BY <1>4, <1>5, <3>1 DEF FlushedAt
    <3> QED
      BY <1>2, <3>1, <3>2
  <2>3. CASE ~(k =< Len(axis))
    <3>1. PICK l \in 1..n : first + l = k
      <4>1. k - first \in 1..n /\ first + (k - first) = k
        BY <2>1, <2>3
      <4> QED
        BY <4>1
    <3>2. ax[k].at = pending[l].at
      BY <1>4, <1>5, <1>6, <3>1 DEF FlushedAt
    <3>3. FirstHeld - 1 + l \in 1..current - 1
      BY <1>8, <1>9
    <3>4. times[FirstHeld - 1 + l] =< now
      BY <1>2, <3>3 DEF RunComplete
    <3> QED
      BY <1>8, <3>2, <3>4
  <2> QED
    BY <2>2, <2>3
<1>15. CompleteTo(start)'
  <2>1. PICK r : r = start
    OBVIOUS
  <2>2. CompleteTo(r)
    BY <1>2, <2>1 DEF RunComplete
  <2>3. Requests' = Requests
    BY <1>1 DEF Requests
  <2>4. CompleteTo(r)'
    BY <1>10, <2>2, <2>3 DEF CompleteTo
  <2>5. start' = r
    BY <1>1, <2>1
  <2> QED
    BY <2>4, <2>5
<1>16. Len(tf) = q - 1
  <2>1. PICK s : s = toFlush
    OBVIOUS
  <2>2. s \in Seq(DiagSet) /\ s # <<>> /\ tf = Tail(s) /\ Len(s) = q
    BY <1>1, <1>3, <1>5, <1>6, <2>1 DEF TypeOK
  <2> QED
    BY <2>2, HeadTailProperties
<1>17. \A j \in 2..FirstHeld' - 1 : \A d \in DiagSet : HasRecord(d, times[j])'
  <2>1. PICK f : f = FirstHeld'
    OBVIOUS
  <2>2. f = current - Len(pn)
    BY <1>1, <1>5, <2>1 DEF FirstHeld
  <2> SUFFICES ASSUME NEW j \in 2..f - 1, NEW d \in DiagSet PROVE HasRecord(d, times[j])'
    BY <2>1
  <2>3. PICK r : r = times[j]
    OBVIOUS
  <2>4. HasRecord(d, r)'
    <3>1. CASE q = 1
      <4>1. f = current
        <5>1. Len(pn) = 0
          BY <1>1, <1>5, <1>6, <3>1, EmptySeq
        <5> QED
          BY <1>9, <2>2, <5>1
      <4>2. PICK l \in 1..m : d = Diags[l]
        BY <1>6 DEF DiagSet
      <4>3. l \in 1..i /\ j \in 2..current - 1
        BY <1>7, <3>1, <4>1
      <4> QED
        BY <1>13, <2>3, <4>2, <4>3
    <3>2. CASE q # 1
      <4>1. pn = pending
        BY <1>1, <1>5, <1>6, <3>2
      <4>2. f = FirstHeld
        BY <1>6, <1>8, <2>2, <4>1
      <4>3. HasRecord(d, r)
        BY <1>2, <2>3, <4>2 DEF RunComplete
      <4> QED
        BY <1>10, <4>3
    <3> QED
      BY <3>1, <3>2
  <2>5. times'[j] = r
    BY <1>1, <2>3
  <2> QED
    BY <2>4, <2>5
<1>18. Begun' => \A l \in 1..Len(Diags) : ~Unflushed(l)' =>
          \A j \in 2..current - 1 : HasRecord(Diags[l], times[j])'
  <2> SUFFICES ASSUME NEW l \in 1..Len(Diags), ~Unflushed(l)', NEW j \in 2..current - 1
               PROVE  HasRecord(Diags[l], times[j])'
    OBVIOUS
  <2>1. PICK r : r = times[j]
    OBVIOUS
  <2>2. Unflushed(l)' <=> l > Len(Diags) - Len(tf)
    BY <1>5 DEF Unflushed
  <2>3. l \in 1..i
    BY <1>6, <1>7, <1>16, <2>2
  <2>4. HasRecord(Diags[l], r)'
    BY <1>13, <2>1, <2>3
  <2>5. times'[j] = r
    BY <1>1, <2>1
  <2> QED
    BY <2>4, <2>5
<1>19. RunComplete'
  <2>1. /\ runs > 0 /\ now =< end /\ end \in plan.ends
        /\ phase = "closing" => now = end /\ saved = end
        /\ \A k \in 1..Len(Requests) : start =< Requests[k] /\ Requests[k] =< end =>
              \E j \in 1..Len(times) : times[j] = Requests[k]
        /\ times # <<>> /\ times[1] = start
        /\ \A j \in 1..current - 1 : times[j] =< now
    BY <1>2 DEF RunComplete
  <2>2. Requests' = Requests
    BY <1>1 DEF Requests
  <2> QED
    BY <1>1, <1>15, <1>17, <1>18, <2>1, <2>2 DEF RunComplete
<1>20. phase' # "idle"
  BY <1>1
<1>21. \A k \in 1..Len(axis') : axis'[k].at =< now'
  BY <1>1, <1>5, <1>14
<1> QED
  BY <1>19, <1>20, <1>21 DEF CompleteInv

LEMMA KillComplete ==
  ASSUME Kill
  PROVE  CompleteInv'
BY NotAligned DEF Kill, Aligned

LEMMA StutterComplete ==
  ASSUME CompleteInv, UNCHANGED vars
  PROVE  CompleteInv'
<1>1. UNCHANGED <<plan, phase, start, end, now, saved, runs, times, current, pending, toFlush,
                  axis, column>>
  BY DEF vars, runVars, bufferVars, fileVars
<1> SUFFICES ASSUME Aligned PROVE CompleteInv'
  BY <1>1, NotAligned
<1>2. \A r : \A d \in DiagSet : HasRecord(d, r)' <=> HasRecord(d, r)
  BY <1>1, KeepRecords
<1>3. /\ CompleteTo(now)' <=> CompleteTo(now)
      /\ CompleteTo(start)' <=> CompleteTo(start)
      /\ Requests' = Requests /\ Requested' = Requested
  BY <1>1 DEF CompleteTo, HasRecord, Requests, Requested
<1>4. /\ FirstHeld' = FirstHeld /\ (Begun' <=> Begun)
      /\ \A l : Unflushed(l)' <=> Unflushed(l)
  BY <1>1 DEF FirstHeld, Begun, Unflushed
<1>5. IdleComplete => IdleComplete'
  BY <1>1, <1>3 DEF IdleComplete
<1>6. RunComplete => RunComplete'
  BY <1>1, <1>3, <1>4 DEF RunComplete, HasRecord
<1> QED
  BY <1>1, <1>5, <1>6 DEF CompleteInv, Active

LEMMA InitComplete ==
  ASSUME Init
  PROVE  CompleteInv
<1> SUFFICES ASSUME Aligned PROVE CompleteInv
  BY DEF CompleteInv
<1>1. phase = "idle" /\ now = Start /\ saved = Start /\ axis = <<>>
  BY DEF Init
<1>2. TypeOK
  BY InitTable DEF TableInv
<1>3. Start \in Requested
  BY DEF Aligned
<1>4. CompleteTo(Start)
  <2> SUFFICES ASSUME NEW i \in 2..Len(Requests) PROVE ~(Start < Requests[i] /\ Requests[i] =< Start)
    BY DEF CompleteTo
  <2>1. Requests \in Seq(Nat)
    BY <1>2, PlanTyped
  <2>2. Len(Requests) \in Nat
    BY <2>1
  <2>3. i \in 1..Len(Requests)
    BY <2>2
  <2>4. Requests[i] \in Nat /\ Start \in Nat
    BY <2>1, <2>3, TimeSeriesAssumption
  <2> QED
    BY <2>4
<1>5. IdleComplete
  BY <1>1, <1>3, <1>4 DEF IdleComplete
<1>6. \A k \in 1..Len(axis) : FALSE
  <2>1. Len(axis) = 0
    BY <1>1, EmptySeq
  <2> QED
    BY <2>1
<1> QED
  BY <1>1, <1>5, <1>6 DEF CompleteInv, Active

LEMMA CompleteInductive ==
  ASSUME TableInv, CompleteInv, [Next]_vars
  PROVE  CompleteInv'
<1>1. CASE \E e \in plan.ends : StartRun(e)
  BY <1>1, StartComplete
<1>2. CASE Begin \/ \E t \in Clock : Step(t)
  <2>1. Active
    BY <1>2 DEF Active, Begin, Step
  <2> QED
    BY <1>2, <2>1, UpdateComplete
<1>3. CASE SaveFirst
  BY <1>3, SaveFirstComplete DEF Active, SaveFirst
<1>4. CASE Save
  BY <1>4, SaveComplete DEF Active, Save
<1>5. CASE SavedAll \/ (\E backup \in BOOLEAN : RequestFlush(backup)) \/ FlushDone \/ Finish
  BY <1>5, PhaseComplete DEF PhaseStep, Active, SavedAll, RequestFlush, FlushDone, Finish
<1>6. CASE Flush
  BY <1>6, FlushComplete DEF Active, Flush
<1>7. CASE Kill
  BY <1>7, KillComplete
<1>8. CASE UNCHANGED vars
  BY <1>8, StutterComplete
<1> QED
  BY <1>1, <1>2, <1>3, <1>4, <1>5, <1>6, <1>7, <1>8 DEF Next

(* A chain of runs that append to one file, begin and end at requested      *)
(* times, and are neither stopped nor killed, leaves between the runs a     *)
(* record of every requested time passed for every diagnostic: nothing is   *)
(* lost between write_timeseries(), flush() and the next init_timeseries(). *)
THEOREM AlignedSeriesIsComplete == Spec => []AlignedSeriesComplete
<1>1. Init => IInv
  BY InitTable, InitComplete DEF IInv
<1>2. IInv /\ [Next]_vars => IInv'
  <2> SUFFICES ASSUME IInv, [Next]_vars PROVE IInv'
    OBVIOUS
  <2>1. TableInv'
    BY TableInductive DEF IInv
  <2>2. CompleteInv'
    BY CompleteInductive DEF IInv
  <2> QED
    BY <2>1, <2>2 DEF IInv
<1>3. IInv => AlignedSeriesComplete
  <2> SUFFICES ASSUME CompleteInv, Aligned, phase = "idle" PROVE SeriesComplete
    BY DEF IInv, AlignedSeriesComplete, Aligned, Requested, SeriesComplete
  <2>1. CompleteTo(now)
    BY DEF CompleteInv, IdleComplete
  <2> QED
    BY <2>1 DEF SeriesComplete, CompleteTo, HasRecord
<1> QED
  BY <1>1, <1>2, <1>3, PTL DEF Spec
=============================================================================
