---------------------------- MODULE OutputProofs ----------------------------
(***************************************************************************)
(* The output of IceModel: what Reporting keeps in every chain of runs, for *)
(* every plan, tolerance and overshoot of the steps, and what NetCDF3File   *)
(* keeps for every number of processors, whatever files they write and      *)
(* read, and however often the library fails.                               *)
(*                                                                          *)
(* Reports.  The list of the run holds every requested time but those       *)
(* before its first one, which is the start of the request or earlier than  *)
(* a record of the file (CutInv, FirstInv).  What is consumed lies before   *)
(* the end of the last interval, what is left at least a second after the   *)
(* time of the run, and a forced step does not pass it by more than Slack   *)
(* (NextInv).  So a requested time is consumed by the first step that comes *)
(* near it, and the record that step writes is less than a second away.     *)
(* A run that resumes starts from a state that was saved, and what had      *)
(* passed by then has a record already (RecordedInv).                       *)
(*                                                                          *)
(* Files.  Between two collective operations a processor goes on by itself, *)
(* and where it gets to depends on what it was told and on nothing else     *)
(* (Leads, SamePlace).  All enter an operation from the same place D[n]: if *)
(* processor 0 knows more than the others, it tells them before the code    *)
(* can do anything with it (Told, Good).  So each of them is on the way     *)
(* from the place where the operation before left all of them (Matched).    *)
(* Every use of a file is closed at its end, and writes are delayed only    *)
(* while a file is open and before they are flushed (Sealed, Marked).  What *)
(* is left of it stays like that (Sound, Ending), so what a processor has   *)
(* ahead of it writes what is delayed and closes what is open (FilesKept).  *)
(* A processor that unwinds never gives up before that, for nobody enters   *)
(* an operation with a failure while writes are delayed (Unharmed).         *)
(*                                                                          *)
(* Lists are searched with CHOOSE; Least and Greatest say that the index    *)
(* chosen exists.                                                           *)
(***************************************************************************)
EXTENDS Reporting, NetCDF3File, WellFoundedInduction, SequenceTheorems, TLAPS

(* A set of times or of indices has a least element.                        *)
LEMMA Least ==
  ASSUME NEW S \in SUBSET Nat, S # {}
  PROVE  \E m \in S : \A k \in S : m =< k
<1> DEFINE R == OpToRel(<, Nat)
<1>1. \A x, y \in Nat : x < y => <<x, y>> \in R
  BY DEF OpToRel
<1>2. IsWellFoundedOn(R, Nat)
  BY NatLessThanWellFounded
<1> HIDE DEF R
<1>3. PICK m \in S : \A y \in S : ~(<<y, m>> \in R)
  BY <1>2, WFMin
<1>4. SUFFICES ASSUME NEW k \in S PROVE m =< k
  OBVIOUS
<1>5. k \in Nat /\ m \in Nat
  OBVIOUS
<1>6. ~(k < m)
  BY <1>1, <1>3, <1>5
<1> QED
  BY <1>5, <1>6

(* A set of indices up to n has a greatest element.                         *)
LEMMA Greatest ==
  ASSUME NEW n \in Nat, NEW S \in SUBSET (1..n), S # {}
  PROVE  \E m \in S : \A k \in S : k =< m
<1> DEFINE T == {x \in 0..n : n - x \in S}
<1>1. PICK i \in S : TRUE
  OBVIOUS
<1>2. n - i \in T
  BY <1>1
<1>3. T \in SUBSET Nat /\ T # {}
  <2>1. \A x \in T : x \in Nat
    OBVIOUS
  <2> HIDE DEF T
  <2> QED
    BY <1>2, <2>1
<1>4. PICK x \in T : \A y \in T : x =< y
  BY <1>3, Least
<1>5. n - x \in S
  BY <1>4
<1>6. ASSUME NEW k \in S PROVE k =< n - x
  <2>1. k \in 1..n
    OBVIOUS
  <2>2. n - k \in T
    <3>1. n - k \in 0..n /\ n - (n - k) = k
      BY <2>1
    <3> QED
      BY <3>1
  <2>3. x \in 0..n /\ x =< n - k
    BY <1>4, <2>2
  <2> QED
    BY <2>1, <2>3
<1> QED
  BY <1>5, <1>6

(* A part of a list of requested times is one too.                          *)
LEMMA PartOf ==
  ASSUME NEW s \in Seq(Nat), Increasing(s),
         NEW m \in 1..Len(s), NEW n \in m..Len(s)
  PROVE  /\ SubSeq(s, m, n) \in Seq(Nat)
         /\ Len(SubSeq(s, m, n)) = n - m + 1
         /\ \A j \in 1..n - m + 1 : SubSeq(s, m, n)[j] = s[m + j - 1]
         /\ Increasing(SubSeq(s, m, n))
<1>1. Len(s) \in Nat /\ m \in Nat /\ n \in Nat
  OBVIOUS
<1>2. \A j \in m..n : s[j] \in Nat
  BY <1>1
<1> DEFINE p == SubSeq(s, m, n)
<1>5. p \in Seq(Nat) /\ Len(p) = n - m + 1 /\ \A j \in 1..n - m + 1 : p[j] = s[m + j - 1]
  BY <1>1, SubSeqProperties
<1> HIDE DEF p
<1>7. Increasing(p)
  <2> SUFFICES ASSUME NEW i \in 1..n - m + 1, NEW j \in 1..n - m + 1, i < j
               PROVE  p[i] < p[j]
    BY <1>5 DEF Increasing
  <2>1. m + i - 1 \in 1..Len(s) /\ m + j - 1 \in 1..Len(s) /\ m + i - 1 < m + j - 1
    BY <1>1
  <2> QED
    BY <1>5, <2>1 DEF Increasing
<1> QED
  BY <1>5, <1>7 DEF p

(* p holds the times of s within the run, or all of them.                   *)
CutToRun(s, p, from, to, ranged) ==
  /\ p \in Seq(Nat) /\ Increasing(p) /\ Len(p) =< Len(s)
  /\ ~ranged => p = s
  /\ \A i \in 1..Len(s) : \/ ranged /\ (s[i] < from \/ s[i] > to)
                         \/ \E j \in 1..Len(p) : p[j] = s[i]

(* What Time::parse_times() keeps.                                          *)
LEMMA ParseTimesIs ==
  ASSUME NEW s \in Seq(Nat), Increasing(s), NEW from \in Nat, NEW to \in Nat,
         NEW ranged \in BOOLEAN, NEW p, p = ParseTimes(s, from, to, ranged)
  PROVE  CutToRun(s, p, from, to, ranged)
<1> USE DEF CutToRun
<1> DEFINE within == {i \in 1..Len(s) : from =< s[i] /\ s[i] =< to}
           first  == CHOOSE i \in within : \A k \in within : i =< k
           last   == CHOOSE i \in within : \A k \in within : k =< i
<1>1. Len(s) \in Nat
  OBVIOUS
<1>2. p = IF ~ranged THEN s ELSE IF within = {} THEN <<>> ELSE SubSeq(s, first, last)
  BY DEF ParseTimes
<1>3. CASE ~ranged
  <2>1. p = s
    BY <1>2, <1>3
  <2> QED
    BY <1>1, <1>3, <2>1
<1>4. CASE ranged /\ within = {}
  <2>1. p = <<>>
    BY <1>2, <1>4
  <2>2. p \in Seq(Nat) /\ Len(p) = 0
    BY <2>1
  <2>3. Increasing(p) /\ Len(p) =< Len(s)
    BY <1>1, <2>2 DEF Increasing
  <2>4. \A i \in 1..Len(s) : s[i] < from \/ s[i] > to
    BY <1>4
  <2> QED
    BY <1>4, <2>2, <2>3, <2>4
<1>5. CASE ranged /\ within # {}
  <2>1. within \in SUBSET (1..Len(s)) /\ within \in SUBSET Nat
    BY <1>1
  <2>2. first \in within /\ \A k \in within : first =< k
    <3>1. \E i \in within : \A k \in within : i =< k
      BY <1>5, <2>1, Least
    <3> QED
      BY <3>1
  <2>3. last \in within /\ \A k \in within : k =< last
    <3>1. \E i \in within : \A k \in within : k =< i
      BY <1>1, <1>5, <2>1, Greatest
    <3> QED
      BY <3>1
  <2>4. p = SubSeq(s, first, last)
    BY <1>2, <1>5
  <2> HIDE DEF first, last
  <2>5. first \in 1..Len(s) /\ last \in first..Len(s)
    BY <1>1, <2>2, <2>3
  <2>6. /\ p \in Seq(Nat) /\ Len(p) = last - first + 1 /\ Increasing(p)
        /\ \A j \in 1..last - first + 1 : p[j] = s[first + j - 1]
    BY <2>4, <2>5, PartOf
  <2>7. Len(p) =< Len(s)
    BY <1>1, <2>5, <2>6
  <2>8. ASSUME NEW i \in 1..Len(s), ~(s[i] < from \/ s[i] > to)
        PROVE  \E j \in 1..Len(p) : p[j] = s[i]
    <3>1. s[i] \in Nat
      OBVIOUS
    <3>2. i \in within
      BY <2>8, <3>1
    <3>3. first =< i /\ i =< last
      BY <2>2, <2>3, <3>2
    <3>4. i - first + 1 \in 1..Len(p) /\ first + (i - first + 1) - 1 = i
      BY <2>5, <2>6, <3>3
    <3> QED
      BY <2>6, <3>4
  <2> QED
    BY <1>5, <2>6, <2>7, <2>8
<1> QED
  BY <1>3, <1>4, <1>5

(* p is s without the times before the last one that is earlier than h.     *)
CutToEnd(s, p, h) ==
  /\ p \in Seq(Nat) /\ p # <<>> /\ Increasing(p)
  /\ \E q \in 1..Len(s) :
       /\ p[1] = s[q]
       /\ q = 1 \/ s[q] < h
       /\ \A i \in 1..Len(s) : i < q => s[i] < p[1]
       /\ \A i \in 1..Len(s) : i >= q => \E j \in 1..Len(p) : p[j] = s[i]

(* What init_extras() keeps of the times when it appends to a file.         *)
LEMMA SkippedIs ==
  ASSUME NEW s \in Seq(Nat), s # <<>>, Increasing(s), NEW h \in Nat,
         NEW p, p = Skipped(s, h)
  PROVE  CutToEnd(s, p, h)
<1> USE DEF CutToEnd
<1> DEFINE stop == {n \in 0..Len(s) - 1 : n + 1 < Len(s) => s[n + 2] >= h}
           n == CHOOSE m \in stop : \A k \in stop : m =< k
<1>1. Len(s) \in Nat \ {0}
  OBVIOUS
<1>2. stop \in SUBSET Nat /\ stop # {}
  <2>1. Len(s) - 1 \in stop
    BY <1>1
  <2>2. \A x \in stop : x \in Nat
    BY <1>1
  <2> HIDE DEF stop
  <2> QED
    BY <2>1, <2>2
<1>3. n \in stop /\ \A k \in stop : n =< k
  <2>1. \E m \in stop : \A k \in stop : m =< k
    BY <1>2, Least
  <2> QED
    BY <2>1
<1>4. p = SubSeq(s, n + 1, Len(s))
  BY DEF Skipped
<1> HIDE DEF n
<1>5. n \in 0..Len(s) - 1 /\ n + 1 \in 1..Len(s) /\ Len(s) \in n + 1..Len(s)
  BY <1>1, <1>3
<1>6. /\ p \in Seq(Nat) /\ Len(p) = Len(s) - n /\ Increasing(p)
      /\ \A j \in 1..Len(s) - n : p[j] = s[n + j]
  <2>1. Len(s) - (n + 1) + 1 = Len(s) - n
    BY <1>1, <1>5
  <2>2. \A j \in Int : (n + 1) + j - 1 = n + j
    BY <1>5
  <2> QED
    BY <1>4, <1>5, <2>1, <2>2, PartOf
<1>7. p # <<>> /\ p[1] = s[n + 1]
  BY <1>1, <1>5, <1>6
<1>8. n = 0 \/ s[n + 1] < h
  <2> SUFFICES ASSUME n # 0 PROVE s[n + 1] < h
    OBVIOUS
  <2>1. n - 1 \in 0..Len(s) - 1 /\ (n - 1) + 2 = n + 1 /\ ~(n =< n - 1)
    BY <1>1, <1>5
  <2>2. ~(n - 1 \in stop)
    BY <1>3, <2>1
  <2>3. ~(s[n + 1] >= h)
    BY <2>1, <2>2
  <2>4. s[n + 1] \in Nat
    BY <1>5
  <2> QED
    BY <2>3, <2>4
<1>9. ASSUME NEW i \in 1..Len(s), i < n + 1 PROVE s[i] < p[1]
  BY <1>5, <1>7, <1>9 DEF Increasing
<1>10. ASSUME NEW i \in 1..Len(s), i >= n + 1 PROVE \E j \in 1..Len(p) : p[j] = s[i]
  <2>1. i - n \in 1..Len(p) /\ n + (i - n) = i
    BY <1>5, <1>6, <1>10
  <2> QED
    BY <1>6, <2>1
<1>11. n + 1 = 1 \/ s[n + 1] < h
  BY <1>5, <1>8
<1> QED
  BY <1>5, <1>6, <1>7, <1>9, <1>10, <1>11

(* A time is due less than a second before it is reached.                   *)
LEMMA DueIs ==
  ASSUME NEW r \in Nat, NEW t \in Nat
  PROVE  Due(r, t) <=> r < t + Tol
BY ReportingAssumption DEF Due, Distance

(* write_extras() consumes the times that are due, and stops at the first   *)
(* that is not.                                                             *)
LEMMA AdvanceExtraIs ==
  ASSUME NEW s \in Seq(Nat), NEW next \in 1..Len(s) + 1, NEW t \in Nat
  PROVE  LET a == AdvanceExtra(s, next, t)
         IN  /\ a \in next..Len(s) + 1
             /\ \A j \in next..a - 1 : s[j] < t + Tol
             /\ a =< Len(s) => s[a] >= t + Tol
<1> DEFINE left == {i \in next..Len(s) + 1 : i =< Len(s) => ~Due(s[i], t)}
           a == AdvanceExtra(s, next, t)
<1>1. Len(s) \in Nat /\ next \in Nat /\ Tol \in Nat
  BY ReportingAssumption
<1>2. left \in SUBSET Nat /\ Len(s) + 1 \in left
  BY <1>1
<1>3. a \in left /\ \A j \in left : a =< j
  <2>1. \E i \in left : \A j \in left : i =< j
    BY <1>2, Least
  <2> QED
    BY <2>1 DEF AdvanceExtra
<1> HIDE DEF a
<1>4. a \in next..Len(s) + 1
  BY <1>3
<1>5. a =< Len(s) => s[a] >= t + Tol
  <2> SUFFICES ASSUME a =< Len(s) PROVE s[a] >= t + Tol
    OBVIOUS
  <2>1. ~Due(s[a], t)
    BY <1>3
  <2>2. s[a] \in Nat
    BY <1>1, <1>4
  <2> QED
    BY <1>1, <2>1, <2>2, DueIs
<1>6. ASSUME NEW j \in next..a - 1 PROVE s[j] < t + Tol
  <2>1. j \in next..Len(s) + 1 /\ j =< Len(s) /\ j < a
    BY <1>1, <1>4
  <2>2. Due(s[j], t)
    BY <1>3, <2>1
  <2>3. s[j] \in Nat
    BY <1>1, <2>1
  <2> QED
    BY <2>2, <2>3, DueIs
<1> QED
  BY <1>4, <1>5, <1>6 DEF a

(* write_snapshot() consumes the times that are reached.                    *)
LEMMA AdvanceSnapIs ==
  ASSUME NEW s \in Seq(Nat), NEW next \in 1..Len(s) + 1, NEW t \in Nat
  PROVE  LET a == AdvanceSnap(s, next, t)
         IN  /\ a \in next..Len(s) + 1
             /\ \A j \in next..a - 1 : s[j] =< t
             /\ a =< Len(s) => s[a] > t
<1> DEFINE left == {i \in next..Len(s) + 1 : i =< Len(s) => s[i] > t}
           a == AdvanceSnap(s, next, t)
<1>1. Len(s) \in Nat /\ next \in Nat
  OBVIOUS
<1>2. left \in SUBSET Nat /\ Len(s) + 1 \in left
  BY <1>1
<1>3. a \in left /\ \A j \in left : a =< j
  <2>1. \E i \in left : \A j \in left : i =< j
    BY <1>2, Least
  <2> QED
    BY <2>1 DEF AdvanceSnap
<1> HIDE DEF a
<1>4. a \in next..Len(s) + 1 /\ (a =< Len(s) => s[a] > t)
  BY <1>3
<1>5. ASSUME NEW j \in next..a - 1 PROVE s[j] =< t
  <2>1. j \in next..Len(s) + 1 /\ j =< Len(s) /\ j < a
    BY <1>1, <1>4
  <2>2. ~(s[j] > t)
    BY <1>3, <2>1
  <2>3. s[j] \in Nat
    BY <1>1, <2>1
  <2> QED
    BY <2>2, <2>3
<1> QED
  BY <1>4, <1>5 DEF a

(* reporting_max_timestep() does not let a step pass the first time that is *)
(* a second or more away.                                                   *)
LEMMA LimitIs ==
  ASSUME NEW s \in Seq(Nat), Increasing(s), NEW t \in Nat, NEW n \in 1..Len(s),
         \A j \in 1..n - 1 : s[j] < t + Tol, s[n] >= t + Tol
  PROVE  /\ ReportLimit(s, t, Tol) \in Nat \ {0}
         /\ ReportLimit(s, t, Tol) =< s[n] - t
<1> DEFINE later == {i \in 1..Len(s) : s[i] > t}
           j     == CHOOSE i \in later : \A k \in later : i =< k
<1>1. Len(s) \in Nat /\ n \in Nat /\ Tol \in Nat \ {0} /\ \A i \in 1..Len(s) : s[i] \in Nat
  BY ReportingAssumption
<1>2. later \in SUBSET Nat /\ n \in later
  BY <1>1
<1>3. j \in later /\ \A k \in later : j =< k
  <2>1. \E i \in later : \A k \in later : i =< k
    BY <1>2, Least
  <2> QED
    BY <2>1
<1>4. ReportLimit(s, t, Tol) = IF s[j] - t >= Tol THEN s[j] - t
                              ELSE IF j + 1 =< Len(s) THEN s[j + 1] - t ELSE 0
  BY <1>2 DEF ReportLimit
<1> HIDE DEF j
<1>5. j \in 1..n /\ s[j] > t /\ s[j] \in Nat /\ s[n] \in Nat
  BY <1>1, <1>2, <1>3
<1>6. CASE s[j] - t >= Tol
  <2>1. j = n
    BY <1>1, <1>5, <1>6
  <2> QED
    BY <1>1, <1>4, <1>5, <1>6, <2>1
<1>7. CASE ~(s[j] - t >= Tol)
  <2>1. j + 1 \in 1..n /\ j + 1 =< Len(s) /\ j + 1 \in 1..Len(s) /\ j \in 1..Len(s)
    <3>1. j # n
      BY <1>1, <1>5, <1>7
    <3> QED
      BY <1>1, <1>5, <3>1
  <2>2. s[j + 1] \in Nat /\ s[j] < s[j + 1] /\ s[j + 1] =< s[n]
    <3>1. s[j] < s[j + 1]
      BY <2>1 DEF Increasing
    <3>2. j + 1 = n \/ s[j + 1] < s[n]
      BY <2>1 DEF Increasing
    <3> QED
      BY <1>1, <2>1, <3>1, <3>2
  <2>3. ReportLimit(s, t, Tol) = s[j + 1] - t
    BY <1>4, <1>7, <2>1
  <2>4. s[j + 1] > t
    BY <1>5, <2>2
  <2>5. s[j + 1] - t \in Nat \ {0} /\ s[j + 1] - t =< s[n] - t
    <3>1. \A x, y \in Nat : x > t /\ x =< y => x - t \in Nat \ {0} /\ x - t =< y - t
      OBVIOUS
    <3> QED
      BY <1>5, <2>2, <2>4, <3>1
  <2> QED
    BY <2>3, <2>5
<1> QED
  BY <1>6, <1>7
-----------------------------------------------------------------------------
(* A run is going on.                                                       *)
Active == phase \in {"running", "snapshot", "extras", "backup", "ending"}

(* What is due at the time of the step has been dealt with.                 *)
Consumed == phase \in {"running", "backup", "ending"}

(* The snapshot times of the run.                                           *)
Wanted == ParseTimes(SnapTimes, start, end, plan.ranged)

-----------------------------------------------------------------------------
(* A run starts from what was saved, and what it saves is not ahead of it.  *)
ClockInv ==
  /\ saved =< now
  /\ Active => start =< saved /\ now =< end + Slack

(* Snapshot times that are consumed were saved; the next one is still       *)
(* ahead, or the run has just started.                                      *)
SnapInv ==
  Active =>
    /\ nextSnap \in 1..Len(Wanted) + 1
    /\ \A j \in 1..nextSnap - 1 : Wanted[j] =< saved
    /\ phase # "snapshot" /\ nextSnap =< Len(Wanted) =>
         Wanted[nextSnap] > now \/ now = start

(* A run has times to report, in order.                                     *)
TimesInv ==
  Active => times # <<>> /\ Increasing(times)

(* A requested time is in the list of the run, before its first time, or,   *)
(* for a range, outside of the run.                                         *)
CutInv ==
  Active => \A i \in 1..Len(Requests) :
     \/ plan.ranged /\ (Requests[i] < start \/ Requests[i] > end)
     \/ Requests[i] < times[1]
     \/ \E j \in 1..Len(times) : times[j] = Requests[i]

(* The last interval ends at a time of this run; consumed times lie before  *)
(* its end, and the next one at least a second after what has been dealt    *)
(* with.                                                                    *)
NextInv ==
  Active =>
    /\ nextExtra = 1 => lastExtra = 0
    /\ nextExtra > 1 => start =< lastExtra /\ lastExtra =< now
    /\ nextExtra > 1 /\ ~Consumed => lastExtra < now
    /\ \A j \in 1..nextExtra - 1 : times[j] < lastExtra + Tol
    /\ nextExtra =< Len(times) =>
         /\ times[nextExtra] >= start + Tol
         /\ Consumed => times[nextExtra] >= now + Tol
         /\ ~Consumed /\ plan.force => now =< times[nextExtra] + Slack

(* Without kills nothing that was reported is done again.                   *)
FileInv ==
  ~plan.crashes =>
    /\ phase \in {"idle", "failed"} => saved = now
    /\ \A k \in 1..Len(file) :
         /\ file[k].hi =< now
         /\ Active /\ nextExtra > 1 => file[k].hi =< lastExtra

(* A run that was asked to append and found no file is the first to write   *)
(* it.                                                                      *)
NewFile == Active /\ plan.appending /\ ~appending /\ ~ready => file = <<>>

(* The requests ListedTimesRecorded speaks about.                           *)
Listed == plan.force /\ plan.appending /\ ~plan.ranged /\ SnapTimes = <<>>

(* Reportable times have a record once they are before the saved state, the *)
(* end of a record, the time dealt with or the first time of the list, and  *)
(* once they are consumed.                                                  *)
RecordedInv ==
  Listed => \A i \in 1..Len(Requests) : Reportable(i) =>
    /\ Requests[i] < saved + Tol => Recorded(i)
    /\ \A k \in 1..Len(file) : Requests[i] < file[k].hi + Tol => Recorded(i)
    /\ Consumed /\ Requests[i] < now + Tol => Recorded(i)
    /\ Active /\ Requests[i] < times[1] => Recorded(i)
    /\ Active => \A j \in 1..nextExtra - 1 : times[j] = Requests[i] => Recorded(i)

(* The first time of the list begins the request or is before a record.     *)
FirstInv ==
  Active /\ Listed /\ nextExtra = 1 =>
    \E q \in 1..Len(Requests) :
      /\ times[1] = Requests[q]
      /\ q = 1 \/ \E k \in 1..Len(file) : times[1] < file[k].hi

(* The inductive invariant.                                                 *)
IInv ==
  /\ TypeOK /\ ClockInv /\ SnapInv /\ TimesInv /\ CutInv /\ NextInv
  /\ OneInterval /\ IntervalsDisjoint /\ FileInv /\ NewFile
  /\ RecordedInv /\ FirstInv

-----------------------------------------------------------------------------
(* The types of the plan.                                                   *)
LEMMA PlanIs ==
  ASSUME plan \in Plans
  PROVE  /\ Requests \in Seq(Nat) /\ Increasing(Requests)
         /\ SnapTimes \in Seq(Nat) /\ Increasing(SnapTimes)
         /\ plan.ranged \in BOOLEAN /\ plan.force \in BOOLEAN
         /\ plan.appending \in BOOLEAN /\ plan.crashes \in BOOLEAN
         /\ plan.ends \in SUBSET Nat
BY ReportingAssumption DEF PlanType, Requests, SnapTimes

(* The tolerance and the overshoot are times, and the overshoot is the      *)
(* smaller.                                                                 *)
LEMMA Ticks == Tol \in Nat \ {0} /\ Slack \in Nat /\ Slack < Tol /\ Start \in Nat
BY ReportingAssumption

(* The types of the variables, one by one.                                  *)
LEMMA Typed ==
  ASSUME TypeOK
  PROVE  /\ start \in Nat /\ end \in Nat /\ now \in Nat /\ saved \in Nat
         /\ lastExtra \in Nat /\ runs \in Nat
         /\ times \in Seq(Nat) /\ Len(times) \in Nat
         /\ \A j \in 1..Len(times) : times[j] \in Nat
         /\ \A i \in 1..Len(Requests) : Requests[i] \in Nat
         /\ Len(file) \in Nat
         /\ \A k \in 1..Len(file) : file[k].lo \in Nat /\ file[k].hi \in Nat
         /\ nextExtra \in Nat \ {0}
<1>1. {start, end, now, saved, lastExtra, runs} \subseteq Nat
  BY DEF TypeOK
<1>2. times \in Seq(Nat) /\ file \in Seq([lo : Nat, hi : Nat])
  BY DEF TypeOK
<1>3. Requests \in Seq(Nat)
  BY PlanIs DEF TypeOK
<1>4. \A k \in 1..Len(file) : file[k] \in [lo : Nat, hi : Nat]
  BY <1>2, ElementOfSeq
<1>6. /\ Len(file) \in Nat
      /\ \A k \in 1..Len(file) : file[k].lo \in Nat /\ file[k].hi \in Nat
  BY <1>2, <1>4, LenProperties
<1>5. nextExtra \in Nat \ {0}
  BY <1>2 DEF TypeOK
<1>7. Len(times) \in Nat /\ \A j \in 1..Len(times) : times[j] \in Nat
  BY <1>2
<1>8. \A i \in 1..Len(Requests) : Requests[i] \in Nat
  BY <1>3
<1> QED
  BY <1>1, <1>2, <1>5, <1>6, <1>7, <1>8

(* The snapshot times of a run are a list of requested times.               *)
LEMMA WantedIs ==
  ASSUME TypeOK
  PROVE  Wanted \in Seq(Nat) /\ Increasing(Wanted) /\ Len(Wanted) =< Len(SnapTimes)
<1>1. /\ SnapTimes \in Seq(Nat) /\ Increasing(SnapTimes) /\ plan.ranged \in BOOLEAN
      /\ start \in Nat /\ end \in Nat
  BY PlanIs, Typed DEF TypeOK
<1>2. CutToRun(SnapTimes, Wanted, start, end, plan.ranged)
  BY <1>1, ParseTimesIs DEF Wanted
<1> QED
  BY <1>2 DEF CutToRun

(* What stays the same as long as the plan and the run do.                  *)
LEMMA SamePlan ==
  ASSUME plan' = plan
  PROVE  /\ Requests' = Requests /\ SnapTimes' = SnapTimes
         /\ Listed' = Listed /\ \A i : Reportable(i)' = Reportable(i)
         /\ start' = start /\ end' = end => Wanted' = Wanted
BY DEF Requests, SnapTimes, Listed, Reportable, Wanted

(* What is said of the file stays as long as the plan and the file do.      *)
LEMMA SameFile ==
  ASSUME plan' = plan, file' = file
  PROVE  /\ \A i : Recorded(i)' = Recorded(i)
         /\ OneInterval => OneInterval'
         /\ IntervalsDisjoint => IntervalsDisjoint'
BY SamePlan DEF Recorded, OneInterval, IntervalsDisjoint

(* The invariant holds at the beginning.                                    *)
LEMMA InitIInv == Init => IInv
<1> SUFFICES ASSUME Init PROVE IInv
  OBVIOUS
<1>1. Start \in Nat /\ plan \in Plans /\ ~Active /\ file = <<>> /\ Len(file) = 0
  BY Ticks DEF Init, Active
<1>2. TypeOK
  <2>1. Len(times) = 0 /\ times \in Seq(Nat) /\ file \in Seq([lo : Nat, hi : Nat])
    BY DEF Init
  <2>2. nextSnap \in 1..Len(SnapTimes) + 1 /\ nextExtra \in 1..Len(times) + 1
    <3>1. Len(SnapTimes) \in Nat
      BY <1>1, PlanIs
    <3> QED
      BY <2>1, <3>1 DEF Init
  <2>3. /\ phase = "idle" /\ {start, end, now, saved, lastExtra, runs} \subseteq Nat
        /\ {appending, ready} \subseteq BOOLEAN
    <3>1. /\ phase = "idle" /\ start = Start /\ end = Start /\ now = Start /\ saved = Start
          /\ lastExtra = 0 /\ runs = 0 /\ appending = FALSE /\ ready = FALSE
      BY DEF Init
    <3>2. {start, end, now, saved, lastExtra, runs} \subseteq Nat
      BY <1>1, <3>1
    <3>3. {appending, ready} \subseteq BOOLEAN
      BY <3>1
    <3> QED
      BY <3>1, <3>2, <3>3
  <2> QED
    BY <1>1, <2>1, <2>2, <2>3 DEF TypeOK
<1>3. ClockInv /\ SnapInv /\ TimesInv /\ CutInv /\ NextInv /\ NewFile /\ FirstInv
  BY <1>1 DEF Init, ClockInv, SnapInv, TimesInv, CutInv, NextInv, NewFile, FirstInv
<1>4. OneInterval /\ IntervalsDisjoint /\ FileInv
  BY <1>1 DEF Init, OneInterval, IntervalsDisjoint, FileInv
<1>5. RecordedInv
  <2> SUFFICES ASSUME NEW i \in 1..Len(Requests), Reportable(i)
               PROVE  ~(Requests[i] < saved + Tol) /\ ~Consumed
    BY <1>1 DEF RecordedInv
  <2>1. Requests[i] \in Nat /\ saved = Start
    BY <1>2, Typed DEF Init
  <2> QED
    BY <1>1, <2>1, Ticks DEF Init, Consumed, Reportable
<1> QED
  BY <1>2, <1>3, <1>4, <1>5 DEF IInv

-----------------------------------------------------------------------------
(* The steps of a run.                                                      *)
LEMMA StepKeeps ==
  ASSUME IInv, NEW t \in Clock, Step(t)
  PROVE  IInv'
<1> USE DEF IInv
<1>1. /\ phase = "running" /\ phase' = "snapshot" /\ now' = t
      /\ UNCHANGED <<plan, saved, nextSnap, extraVars, runVars>>
      /\ now < end /\ now < t /\ t =< end + Slack
  BY DEF Step
<1>2. /\ Active /\ Active' /\ Consumed /\ ~Consumed'
  BY <1>1 DEF Active, Consumed
<1>3. t \in Nat
  <2>1. t \in Int
    BY DEF Clock
  <2> QED
    BY <1>1, <2>1, Typed
<1>4. TypeOK'
  BY <1>1, <1>3 DEF TypeOK, extraVars, runVars, SnapTimes
<1>5. ClockInv'
  BY <1>1, <1>2, <1>3, Typed DEF ClockInv, runVars
<1>6. SnapInv'
  BY <1>1, <1>2, SamePlan DEF SnapInv, runVars
<1>7. TimesInv' /\ CutInv' /\ NewFile'
  BY <1>1, <1>2, SamePlan DEF TimesInv, CutInv, NewFile, extraVars, runVars
<1>8. NextInv'
  <2>1. /\ UNCHANGED <<times, nextExtra, lastExtra, start, plan>>
    BY <1>1 DEF extraVars, runVars
  <2>2. nextExtra > 1 => lastExtra < now'
    BY <1>1, <1>2, <1>3, Typed DEF NextInv
  <2>3. ASSUME nextExtra =< Len(times), plan.force PROVE now' =< times[nextExtra] + Slack
    <3>1. nextExtra \in 1..Len(times) /\ times[nextExtra] >= now + Tol
      BY <1>2, <2>3, Typed DEF NextInv
    <3>2. \A j \in 1..nextExtra - 1 : times[j] < now + Tol
      <4> SUFFICES ASSUME NEW j \in 1..nextExtra - 1 PROVE times[j] < now + Tol
        OBVIOUS
      <4>1. times[j] < lastExtra + Tol /\ lastExtra =< now
        BY <1>2, Typed DEF NextInv
      <4>2. times[j] \in Nat /\ lastExtra \in Nat /\ now \in Nat /\ Tol \in Nat
        <5>1. j \in 1..Len(times)
          BY <3>1, Typed
        <5> QED
          BY <5>1, Typed, Ticks
      <4> HIDE DEF IInv
      <4> QED
        BY <4>1, <4>2
    <3>3. /\ ReportLimit(times, now, Tol) \in Nat \ {0}
          /\ ReportLimit(times, now, Tol) =< times[nextExtra] - now
      BY <1>2, <3>1, <3>2, Typed, LimitIs DEF TimesInv
    <3>4. t =< now + ReportLimit(times, now, Tol) + Slack
      BY <2>3, <3>3 DEF Step
    <3> HIDE DEF IInv
    <3>5. times[nextExtra] \in Nat
      BY <3>1, Typed DEF IInv
    <3>6. \A x \in Nat, y \in Nat : y =< x - now => now + y + Slack =< x + Slack
      BY Typed, Ticks DEF IInv
    <3>7. now + ReportLimit(times, now, Tol) + Slack =< times[nextExtra] + Slack
      BY <3>3, <3>5, <3>6
    <3>8. \A x, y, z \in Int : x =< y /\ y =< z => x =< z
      OBVIOUS
    <3>9. /\ now + ReportLimit(times, now, Tol) + Slack \in Int
          /\ times[nextExtra] + Slack \in Int
      <4>1. now \in Nat /\ Slack \in Nat /\ \A x, y, z \in Nat : x + y + z \in Int /\ x + y \in Int
        BY Typed, Ticks DEF IInv
      <4> HIDE DEF IInv
      <4> QED
        BY <3>3, <3>5, <4>1
    <3> QED
      BY <1>1, <1>3, <3>4, <3>7, <3>8, <3>9
  <2> QED
    BY <1>1, <1>2, <1>3, <2>1, <2>2, <2>3, Typed DEF NextInv
<1>9. OneInterval' /\ IntervalsDisjoint'
  BY <1>1, SameFile DEF extraVars
<1>10. FileInv'
  BY <1>1, <1>2, <1>3, Typed DEF FileInv, extraVars
<1>11. RecordedInv' /\ FirstInv'
  BY <1>1, <1>2, SamePlan, SameFile DEF RecordedInv, FirstInv, extraVars
<1> QED
  BY <1>4, <1>5, <1>6, <1>7, <1>8, <1>9, <1>10, <1>11

(* A snapshot saves every time it consumes.                                 *)
LEMMA WriteSnapshotKeeps ==
  ASSUME IInv, WriteSnapshot
  PROVE  IInv'
<1> USE DEF IInv
<1> DEFINE next == AdvanceSnap(Wanted, nextSnap, now)
<1>1. /\ phase = "snapshot" /\ phase' = "extras" /\ nextSnap' = next
      /\ saved' = IF next > nextSnap THEN now ELSE saved
      /\ UNCHANGED <<plan, now, extraVars, runVars>>
  BY DEF WriteSnapshot, Wanted
<1>2. Active /\ Active' /\ ~Consumed /\ ~Consumed'
  BY <1>1 DEF Active, Consumed
<1>3. /\ next \in nextSnap..Len(Wanted) + 1
      /\ \A j \in nextSnap..next - 1 : Wanted[j] =< now
      /\ next =< Len(Wanted) => Wanted[next] > now
  BY <1>2, WantedIs, Typed, AdvanceSnapIs DEF SnapInv
<1> HIDE DEF next
<1>4. /\ nextSnap \in 1..Len(Wanted) + 1 /\ Len(Wanted) \in Nat /\ Len(SnapTimes) \in Nat
      /\ Len(Wanted) =< Len(SnapTimes) /\ next \in Nat
  <2>1. nextSnap \in 1..Len(Wanted) + 1
    BY <1>2 DEF SnapInv
  <2>2. Len(Wanted) \in Nat /\ Len(Wanted) =< Len(SnapTimes)
    BY WantedIs
  <2>3. Len(SnapTimes) \in Nat
    BY PlanIs DEF TypeOK
  <2> QED
    BY <1>3, <2>1, <2>2, <2>3
<1>5. saved' \in Nat /\ saved =< saved' /\ saved' =< now
  BY <1>1, Typed DEF ClockInv
<1>6. TypeOK'
  <2>1. nextSnap' \in 1..Len(SnapTimes)' + 1
    BY <1>1, <1>3, <1>4 DEF SnapTimes
  <2> QED
    BY <1>1, <1>5, <2>1 DEF TypeOK, extraVars, runVars
<1>7. ClockInv'
  BY <1>1, <1>2, <1>5, Typed DEF ClockInv, runVars
<1>8. SnapInv'
  <2>1. Wanted' = Wanted
    BY <1>1, SamePlan DEF runVars
  <2>2. nextSnap' \in 1..Len(Wanted) + 1
    BY <1>1, <1>3, <1>4
  <2>3. ASSUME NEW j \in 1..next - 1 PROVE Wanted[j] =< saved'
    <3>1. CASE j < nextSnap
      <4>1. j \in 1..nextSnap - 1 /\ j \in 1..Len(Wanted)
        BY <1>4, <3>1
      <4>2. Wanted[j] =< saved /\ Wanted[j] \in Nat
        BY <1>2, <4>1, WantedIs DEF SnapInv
      <4> QED
        BY <1>5, <4>2, Typed
    <3>2. CASE ~(j < nextSnap)
      <4>1. j \in nextSnap..next - 1 /\ next > nextSnap
        BY <1>4, <3>2
      <4> QED
        BY <1>1, <1>3, <4>1
    <3> QED
      BY <3>1, <3>2
  <2> QED
    BY <1>1, <1>3, <2>1, <2>2, <2>3 DEF SnapInv
<1>9. TimesInv' /\ CutInv' /\ NewFile' /\ NextInv' /\ FirstInv'
  BY <1>1, <1>2, SamePlan DEF TimesInv, CutInv, NewFile, NextInv, FirstInv, extraVars, runVars
<1>10. OneInterval' /\ IntervalsDisjoint'
  BY <1>1, SameFile DEF extraVars
<1>11. FileInv'
  BY <1>1, <1>2 DEF FileInv, extraVars
<1>12. RecordedInv'
  <2>1. ASSUME Listed PROVE saved' = saved
    <3>1. Len(SnapTimes) = 0
      BY <2>1 DEF Listed
    <3> QED
      BY <1>1, <1>3, <1>4, <3>1
  <2> QED
    BY <1>1, <1>2, <2>1, SamePlan, SameFile DEF RecordedInv, extraVars
<1> QED
  BY <1>6, <1>7, <1>8, <1>9, <1>10, <1>11, <1>12
(* The times that are consumed at the time of a step.                       *)
LEMMA DueNow ==
  ASSUME TypeOK
  PROVE  LET next == AdvanceExtra(times, nextExtra, now)
         IN  /\ next \in nextExtra..Len(times) + 1
             /\ \A j \in nextExtra..next - 1 : times[j] < now + Tol
             /\ next =< Len(times) => times[next] >= now + Tol
BY Typed, AdvanceExtraIs DEF TypeOK

(* Nothing is consumed where nothing is written: the times left of a        *)
(* resumed run are all after its start.                                     *)
LEMMA NoExtrasKeeps ==
  ASSUME IInv, NoExtras
  PROVE  IInv'
<1> USE DEF IInv
<1> DEFINE next == AdvanceExtra(times, nextExtra, now)
<1>1. /\ phase = "extras" /\ phase' = "backup" /\ nextExtra' = next
      /\ next > nextExtra => times[nextExtra] < start
      /\ UNCHANGED <<plan, now, saved, nextSnap, times, lastExtra, appending, ready,
                     file, runVars>>
  BY DEF NoExtras
<1>2. /\ next \in nextExtra..Len(times) + 1
      /\ next =< Len(times) => times[next] >= now + Tol
  BY DueNow
<1> HIDE DEF next
<1>3. Active /\ Active' /\ ~Consumed /\ Consumed'
  BY <1>1 DEF Active, Consumed
<1>4. next = nextExtra
  <2> SUFFICES ASSUME next > nextExtra PROVE FALSE
    BY <1>2, Typed
  <2>1. nextExtra =< Len(times) /\ nextExtra \in 1..Len(times)
    BY <1>2, Typed
  <2>2. times[nextExtra] >= start + Tol /\ times[nextExtra] < start
    BY <1>1, <1>3, <2>1 DEF NextInv
  <2> QED
    BY <2>1, <2>2, Typed, Ticks
<1>5. TypeOK'
  BY <1>1, <1>4 DEF TypeOK, runVars, SnapTimes
<1>6. ClockInv' /\ SnapInv' /\ TimesInv' /\ CutInv' /\ NewFile' /\ FirstInv'
  BY <1>1, <1>3, <1>4, SamePlan
  DEF ClockInv, SnapInv, TimesInv, CutInv, NewFile, FirstInv, runVars
<1>7. NextInv'
  BY <1>1, <1>2, <1>3, <1>4 DEF NextInv, runVars
<1>8. OneInterval' /\ IntervalsDisjoint'
  BY <1>1, SameFile
<1>9. FileInv'
  BY <1>1, <1>3, <1>4 DEF FileInv
<1>10. RecordedInv'
  <2>1. ASSUME Listed, NEW i \in 1..Len(Requests), Reportable(i), Requests[i] < now + Tol
        PROVE  Recorded(i)
    <3>1. CASE Requests[i] < times[1]
      BY <1>3, <2>1, <3>1 DEF RecordedInv
    <3>2. ASSUME NEW j \in 1..Len(times), times[j] = Requests[i] PROVE Recorded(i)
      <4>1. CASE j < nextExtra
        <5>1. j \in 1..nextExtra - 1
          BY <4>1, Typed
        <5> QED
          BY <1>3, <2>1, <3>2, <5>1 DEF RecordedInv
      <4>2. CASE ~(j < nextExtra)
        <5>1. nextExtra \in 1..Len(times) /\ (j = nextExtra \/ nextExtra < j)
          <6>1. nextExtra \in Nat \ {0} /\ Len(times) \in Nat
            BY Typed
          <6> HIDE DEF IInv
          <6> QED
            BY <4>2, <6>1
        <5>2. times[nextExtra] \in Nat /\ times[j] \in Nat
          BY <5>1, Typed
        <5>3. times[nextExtra] =< times[j]
          <6>1. Increasing(times)
            BY <1>3 DEF TimesInv
          <6>2. nextExtra < j => times[nextExtra] < times[j]
            BY <5>1, <6>1 DEF Increasing
          <6> QED
            BY <5>1, <5>2, <6>2
        <5>4. times[nextExtra] >= now + Tol
          BY <1>2, <1>4, <5>1
        <5>5. times[j] < now + Tol
          BY <2>1, <3>2
        <5>6. now \in Nat /\ Tol \in Nat
          BY Typed, Ticks
        <5> HIDE DEF IInv
        <5> QED
          BY <5>2, <5>3, <5>4, <5>5, <5>6
      <4> QED
        BY <4>1, <4>2
    <3> QED
      BY <1>3, <2>1, <3>1, <3>2 DEF CutInv, Listed
  <2> QED
    BY <1>1, <1>3, <1>4, <2>1, SamePlan, SameFile DEF RecordedInv
<1> QED
  BY <1>5, <1>6, <1>7, <1>8, <1>9, <1>10

(* Steps that are forced to the requested times end within Slack of them,   *)
(* and those that follow the first are all less than Slack + Tol after it   *)
(* when they are consumed with it.                                          *)
LEMMA ConsumedWithFirst ==
  ASSUME IInv, Listed, phase = "extras", nextExtra = 1,
         NEW i \in 1..Len(Requests), Reportable(i),
         NEW j \in 1..Len(times), times[j] = Requests[i], times[j] < now + Tol
  PROVE  Recorded(i)
<1> USE DEF IInv
<1>1. Active /\ ~Consumed /\ plan.force
  BY DEF Active, Consumed, Listed
<1>2. now =< times[1] + Slack /\ 1 \in 1..Len(times)
  BY <1>1, Typed DEF NextInv
<1>3. /\ now \in Nat /\ times[1] \in Nat /\ times[j] \in Nat
      /\ times[j] < times[1] + Slack + Tol
  <2>1. now \in Nat /\ times[1] \in Nat /\ times[j] \in Nat
    BY <1>2, Typed
  <2> QED
    BY <1>2, <2>1, Ticks
<1>4. PICK q \in 1..Len(Requests) :
        /\ times[1] = Requests[q]
        /\ q = 1 \/ \E k \in 1..Len(file) : times[1] < file[k].hi
  BY <1>1 DEF FirstInv
<1>5. Increasing(Requests) /\ Increasing(times)
  BY <1>1, PlanIs DEF TypeOK, TimesInv
<1>6. Requests[i] \in Nat /\ Requests[q] \in Nat /\ times[1] \in Nat
  BY <1>2, Typed
<1>7. CASE q = 1
  BY <1>3, <1>4, <1>6, <1>7, Ticks DEF Reportable
<1>8. ASSUME NEW k \in 1..Len(file), times[1] < file[k].hi PROVE Recorded(i)
  <2>1. file[k].hi \in Nat
    BY Typed
  <2>2. Requests[i] < file[k].hi + Tol => Recorded(i)
    BY DEF RecordedInv
  <2>3. CASE j = 1
    BY <1>4, <1>6, <1>8, <2>1, <2>2, <2>3, Ticks
  <2>4. CASE j # 1 /\ Slack =< 1
    <3>1. Requests[i] < times[1] + Slack + Tol
      BY <1>3
    <3>2. Requests[i] < file[k].hi + Tol
      <4>1. \A x, y, z, u, v \in Nat : x < y + u + v /\ y < z /\ u =< 1 => x < z + v
        OBVIOUS
      <4>2. Slack \in Nat /\ Tol \in Nat
        BY Ticks
      <4> HIDE DEF IInv
      <4> QED
        BY <1>6, <1>8, <2>1, <2>4, <3>1, <4>1, <4>2
    <3> QED
      BY <2>2, <3>2
  <2>5. CASE j # 1 /\ ~(Slack =< 1)
    <3>1. times[1] < times[j]
      BY <1>2, <1>5, <2>5 DEF Increasing
    <3>2. q =< i - 1
      <4>1. ~(i =< q)
        <5> SUFFICES ASSUME i =< q PROVE FALSE
          OBVIOUS
        <5>1. i = q \/ i < q
          OBVIOUS
        <5>2. Requests[i] =< Requests[q]
          BY <1>5, <1>6, <5>1 DEF Increasing
        <5> QED
          BY <1>4, <1>6, <3>1, <5>2
      <4> QED
        BY <4>1
    <3>3. i - 1 \in 1..Len(Requests) /\ (q = i - 1 \/ q < i - 1)
      BY <3>2
    <3>4. Requests[q] =< Requests[i - 1] /\ Requests[i - 1] \in Nat
      <4>1. Requests[i - 1] \in Nat
        BY <3>3, Typed
      <4>2. q < i - 1 => Requests[q] < Requests[i - 1]
        BY <1>5, <3>3 DEF Increasing
      <4> QED
        BY <1>6, <3>3, <4>1, <4>2
    <3>5. Requests[i - 1] + Slack + Tol =< Requests[i]
      BY <2>5 DEF Reportable
    <3>6. Requests[i] < Requests[q] + Slack + Tol
      BY <1>3, <1>4
    <3>7. \A x, y, z, u, v \in Nat : x < y + u + v /\ y =< z /\ z + u + v =< x => FALSE
      OBVIOUS
    <3>8. Slack \in Nat /\ Tol \in Nat
      BY Ticks
    <3> HIDE DEF IInv
    <3> QED
      BY <1>6, <3>4, <3>5, <3>6, <3>7, <3>8
  <2> QED
    BY <2>3, <2>4, <2>5
<1> QED
  BY <1>4, <1>7, <1>8

(* The start of the first interval: what is consumed with it is not         *)
(* reportable or has a record.                                              *)
LEMMA FirstExtraKeeps ==
  ASSUME IInv, FirstExtra
  PROVE  IInv'
<1> USE DEF IInv
<1> DEFINE next == AdvanceExtra(times, nextExtra, now)
<1>1. /\ phase = "extras" /\ phase' = "backup" /\ nextExtra' = next
      /\ nextExtra = 1 /\ next > 1 /\ lastExtra' = now
      /\ UNCHANGED <<plan, now, saved, nextSnap, times, appending, ready, file, runVars>>
  BY DEF FirstExtra
<1>2. /\ next \in nextExtra..Len(times) + 1
      /\ \A j \in nextExtra..next - 1 : times[j] < now + Tol
      /\ next =< Len(times) => times[next] >= now + Tol
  BY DueNow
<1> HIDE DEF next
<1>3. Active /\ Active' /\ ~Consumed /\ Consumed'
  BY <1>1 DEF Active, Consumed
<1>4. next \in 1..Len(times) + 1 /\ next \in Nat
  BY <1>1, <1>2, Typed
<1>5. TypeOK'
  BY <1>1, <1>4, Typed DEF TypeOK, runVars, SnapTimes
<1>6. ClockInv' /\ SnapInv' /\ TimesInv' /\ CutInv' /\ NewFile'
  BY <1>1, <1>3, SamePlan DEF ClockInv, SnapInv, TimesInv, CutInv, NewFile, runVars
<1>7. FirstInv'
  BY <1>1, <1>4 DEF FirstInv
<1>8. NextInv'
  <2>1. nextExtra' # 1 /\ nextExtra' > 1
    BY <1>1, <1>4
  <2>2. start =< now
    BY <1>3, Typed DEF ClockInv
  <2>3. ASSUME next =< Len(times) PROVE times[next] >= start + Tol
    <3>1. times[next] >= now + Tol /\ times[next] \in Nat
      BY <1>2, <1>4, <2>3, Typed
    <3> QED
      BY <2>2, <3>1, Typed, Ticks
  <2>4. now =< now
    BY Typed
  <2> QED
    BY <1>1, <1>2, <1>3, <2>1, <2>2, <2>3, <2>4 DEF NextInv, runVars
<1>9. OneInterval' /\ IntervalsDisjoint'
  BY <1>1, SameFile
<1>10. FileInv'
  BY <1>1, <1>3 DEF FileInv
<1>11. RecordedInv'
  <2>1. ASSUME Listed, NEW i \in 1..Len(Requests), Reportable(i),
               NEW j \in 1..Len(times), times[j] = Requests[i], times[j] < now + Tol
        PROVE  Recorded(i)
    BY <1>1, <2>1, ConsumedWithFirst
  <2>2. ASSUME Listed, NEW i \in 1..Len(Requests), Reportable(i), Requests[i] < now + Tol
        PROVE  Recorded(i)
    <3>1. CASE Requests[i] < times[1]
      BY <1>3, <2>2, <3>1 DEF RecordedInv
    <3>2. CASE \E j \in 1..Len(times) : times[j] = Requests[i]
      BY <2>1, <2>2, <3>2
    <3> QED
      BY <1>3, <2>2, <3>1, <3>2 DEF CutInv, Listed
  <2>3. ASSUME Listed, NEW i \in 1..Len(Requests), Reportable(i),
               NEW j \in 1..next - 1, times[j] = Requests[i]
        PROVE  Recorded(i)
    <3>1. j \in 1..Len(times) /\ j \in nextExtra..next - 1
      BY <1>1, <1>4
    <3> QED
      BY <1>2, <2>1, <2>3, <3>1
  <2> QED
    BY <1>1, <1>3, <2>2, <2>3, SamePlan, SameFile DEF RecordedInv
<1> QED
  BY <1>5, <1>6, <1>7, <1>8, <1>9, <1>10, <1>11
(* The records of the file once one is written: those that were there       *)
(* unless the file is begun, and the new one after them.                    *)
LEMMA FileGrows ==
  ASSUME IInv, WriteExtras
  PROVE  LET m == Len(file')
         IN  /\ m \in Nat \ {0} /\ file' \in Seq([lo : Nat, hi : Nat])
             /\ file'[m] = [lo |-> lastExtra, hi |-> now]
             /\ \A k \in 1..m - 1 : k \in 1..Len(file) /\ file'[k] = file[k]
             /\ Listed => \A k \in 1..Len(file) : k \in 1..m /\ file'[k] = file[k]
<1> DEFINE base == IF ready \/ appending THEN file ELSE <<>>
           new  == [lo |-> lastExtra, hi |-> now]
<1>1. file' = Append(base, new)
  <2>1. CASE ready \/ appending
    BY <2>1 DEF WriteExtras, Record
  <2>2. CASE ~(ready \/ appending)
    <3>1. file' = <<new>>
      BY <2>2 DEF WriteExtras, Record
    <3>2. Append(<<>>, new) = <<new>>
      OBVIOUS
    <3> QED
      BY <2>2, <3>1, <3>2
  <2> QED
    BY <2>1, <2>2
<1>2. base \in Seq([lo : Nat, hi : Nat]) /\ file \in Seq([lo : Nat, hi : Nat])
  BY DEF IInv, TypeOK
<1>3. new \in [lo : Nat, hi : Nat]
  BY Typed DEF IInv
<1>4. Len(base) \in Nat /\ Len(file) \in Nat
  BY <1>2, LenProperties
<1>5. base = file \/ (base = <<>> /\ Len(base) = 0)
  OBVIOUS
<1>6. Listed => base = file
  <2> SUFFICES ASSUME Listed, ~ready, ~appending PROVE file = <<>>
    OBVIOUS
  <2>1. phase = "extras" /\ plan.appending
    BY DEF WriteExtras, Listed
  <2> QED
    BY <2>1 DEF IInv, NewFile, Active
<1> HIDE DEF base, new
<1>7. /\ file' \in Seq([lo : Nat, hi : Nat]) /\ Len(file') = Len(base) + 1
      /\ \A k \in 1..Len(base) : file'[k] = base[k]
      /\ file'[Len(base) + 1] = new
  BY <1>1, <1>2, <1>3, AppendProperties
<1>8. ASSUME NEW k \in 1..Len(file') - 1 PROVE k \in 1..Len(file) /\ file'[k] = file[k]
  <2>1. k \in 1..Len(base)
    BY <1>4, <1>7
  <2> QED
    BY <1>4, <1>5, <1>7, <2>1
<1>9. Listed => \A k \in 1..Len(file) : k \in 1..Len(file') /\ file'[k] = file[k]
  BY <1>4, <1>6, <1>7
<1>10. Len(file') \in Nat \ {0} /\ file'[Len(file')] = new
  BY <1>4, <1>7
<1> QED
  BY <1>7, <1>8, <1>9, <1>10 DEF new

(* Of two requested times in a run the later one is not consumed before.    *)
LEMMA LaterTimes ==
  ASSUME TypeOK, Increasing(times),
         NEW n \in 1..Len(times), NEW j \in 1..Len(times), ~(j < n)
  PROVE  times[n] =< times[j]
<1>1. times[n] \in Nat /\ times[j] \in Nat
  BY Typed
<1>2. n < j => times[n] < times[j]
  BY DEF Increasing
<1> QED
  BY <1>1, <1>2

(* The record about to be written covers one reporting interval.            *)
LEMMA NewInterval ==
  ASSUME IInv, phase = "extras", plan.force, nextExtra \in 2..Len(times),
         NEW i \in 1..Len(Requests)
  PROVE  ~(lastExtra + Tol =< Requests[i] /\ Requests[i] + Tol =< now)
<1> USE DEF IInv
<1>1. Active /\ ~Consumed
  BY DEF Active, Consumed
<1>2. /\ lastExtra \in Nat /\ now \in Nat /\ start \in Nat /\ end \in Nat
      /\ Requests[i] \in Nat /\ Tol \in Nat \ {0} /\ Slack \in Nat /\ Slack < Tol
      /\ nextExtra \in 1..Len(times) /\ times[nextExtra] \in Nat
  <2>1. nextExtra \in 1..Len(times)
    OBVIOUS
  <2>2. /\ lastExtra \in Nat /\ now \in Nat /\ start \in Nat /\ end \in Nat
        /\ Requests[i] \in Nat /\ times[nextExtra] \in Nat
    BY <2>1, Typed
  <2> QED
    BY <2>1, <2>2, Ticks
<1>3. start =< lastExtra /\ now =< end + Slack /\ now =< times[nextExtra] + Slack
  BY <1>1, <1>2 DEF NextInv, ClockInv
<1>4. \A j \in 1..nextExtra - 1 : times[j] < lastExtra + Tol
  BY <1>1 DEF NextInv
<1>5. 1 \in 1..nextExtra - 1
  BY <1>2
<1>6. CASE Requests[i] < start \/ Requests[i] > end
  <2> HIDE DEF IInv
  <2> QED
    BY <1>2, <1>3, <1>6
<1>7. CASE Requests[i] < times[1]
  <2>1. times[1] < lastExtra + Tol /\ times[1] \in Nat
    BY <1>4, <1>5, Typed
  <2> HIDE DEF IInv
  <2> QED
    BY <1>2, <1>7, <2>1
<1>8. ASSUME NEW j \in 1..Len(times), times[j] = Requests[i]
      PROVE  ~(lastExtra + Tol =< Requests[i] /\ Requests[i] + Tol =< now)
  <2>1. CASE j < nextExtra
    <3>1. times[j] < lastExtra + Tol
      BY <1>2, <1>4, <2>1
    <3> HIDE DEF IInv
    <3> QED
      BY <1>2, <1>8, <3>1
  <2>2. CASE ~(j < nextExtra)
    <3>1. times[nextExtra] =< times[j]
      BY <1>1, <1>2, <2>2, LaterTimes DEF TimesInv
    <3>2. \A x, y, z, u, v \in Nat : z =< x + u /\ x =< y /\ u < v => ~(y + v =< z)
      OBVIOUS
    <3> HIDE DEF IInv
    <3> QED
      BY <1>2, <1>3, <1>8, <3>1, <3>2
  <2> QED
    BY <2>1, <2>2
<1> QED
  BY <1>1, <1>6, <1>7, <1>8 DEF CutInv

(* A record: it follows the others, covers one interval and is near every   *)
(* time it consumes.                                                        *)
LEMMA WriteExtrasKeeps ==
  ASSUME IInv, WriteExtras
  PROVE  IInv'
<1> USE DEF IInv
<1> DEFINE next == AdvanceExtra(times, nextExtra, now)
           m == Len(file')
<1>1. /\ phase = "extras" /\ phase' = "backup" /\ nextExtra' = next
      /\ nextExtra > 1 /\ next > nextExtra /\ lastExtra' = now /\ ready' = TRUE
      /\ UNCHANGED <<plan, now, saved, nextSnap, times, appending, runVars>>
  BY DEF WriteExtras
<1>2. /\ next \in nextExtra..Len(times) + 1
      /\ \A j \in nextExtra..next - 1 : times[j] < now + Tol
      /\ next =< Len(times) => times[next] >= now + Tol
  BY DueNow
<1> HIDE DEF next
<1>3. Active /\ Active' /\ ~Consumed /\ Consumed'
  BY <1>1 DEF Active, Consumed
<1>4. next \in 1..Len(times) + 1 /\ next \in Nat /\ nextExtra \in 2..Len(times)
  BY <1>1, <1>2, Typed
<1>5. /\ m \in Nat \ {0} /\ file' \in Seq([lo : Nat, hi : Nat])
      /\ file'[m] = [lo |-> lastExtra, hi |-> now]
      /\ \A k \in 1..m - 1 : k \in 1..Len(file) /\ file'[k] = file[k]
      /\ Listed => \A k \in 1..Len(file) : k \in 1..m /\ file'[k] = file[k]
  BY FileGrows
<1> HIDE DEF m
<1>6. /\ now \in Nat /\ lastExtra \in Nat /\ start \in Nat /\ Tol \in Nat \ {0}
      /\ lastExtra < now /\ start =< lastExtra /\ start =< now
  <2>1. now \in Nat /\ lastExtra \in Nat /\ start \in Nat /\ Tol \in Nat \ {0}
    BY Typed, Ticks
  <2>2. lastExtra < now /\ start =< lastExtra
    BY <1>1, <1>3 DEF NextInv
  <2> QED
    BY <2>1, <2>2
<1>7. \A k \in 1..m : k \in 1..m - 1 \/ k = m
  BY <1>5
<1>8. TypeOK'
  BY <1>1, <1>4, <1>5, <1>6 DEF TypeOK, runVars, SnapTimes
<1>9. ClockInv' /\ SnapInv' /\ TimesInv' /\ CutInv'
  BY <1>1, <1>3, SamePlan DEF ClockInv, SnapInv, TimesInv, CutInv, runVars
<1>10. NewFile' /\ FirstInv'
  BY <1>1, <1>4 DEF NewFile, FirstInv
<1>11. NextInv'
  <2>1. nextExtra' # 1 /\ nextExtra' > 1
    BY <1>1, <1>4
  <2>2. \A j \in 1..next - 1 : times[j] < now + Tol
    <3> SUFFICES ASSUME NEW j \in 1..next - 1 PROVE times[j] < now + Tol
      OBVIOUS
    <3>1. CASE j \in nextExtra..next - 1
      BY <1>2, <3>1
    <3>2. CASE j \in 1..nextExtra - 1
      <4>1. times[j] < lastExtra + Tol
        BY <1>3, <3>2 DEF NextInv
      <4>2. times[j] \in Nat
        BY <1>4, <3>2, Typed
      <4> HIDE DEF IInv
      <4> QED
        BY <1>6, <4>1, <4>2
    <3> QED
      BY <1>4, <3>1, <3>2
  <2>3. ASSUME next =< Len(times) PROVE times[next] >= start + Tol
    <3>1. times[next] >= now + Tol /\ times[next] \in Nat
      BY <1>2, <1>4, <2>3, Typed
    <3> HIDE DEF IInv
    <3> QED
      BY <1>6, <3>1
  <2>4. now =< now
    BY <1>6
  <2> QED
    BY <1>1, <1>2, <1>3, <1>6, <2>1, <2>2, <2>3, <2>4 DEF NextInv, runVars
<1>12. OneInterval'
  <2> SUFFICES ASSUME plan.force, NEW k \in 1..m, NEW i \in 1..Len(Requests)
               PROVE  ~(file'[k].lo + Tol =< Requests[i] /\ Requests[i] + Tol =< file'[k].hi)
    BY <1>1, SamePlan DEF OneInterval, m
  <2>1. CASE k \in 1..m - 1
    BY <1>5, <2>1 DEF OneInterval
  <2>2. CASE k = m
    <3>1. file'[k].lo = lastExtra /\ file'[k].hi = now
      BY <1>5, <2>2
    <3> QED
      BY <1>1, <1>4, <3>1, NewInterval
  <2> QED
    BY <1>7, <2>1, <2>2
<1>13. IntervalsDisjoint'
  <2> SUFFICES ASSUME ~plan.crashes, NEW k \in 1..m
               PROVE  /\ file'[k].lo < file'[k].hi
                      /\ k > 1 => file'[k - 1].hi =< file'[k].lo
    BY <1>1 DEF IntervalsDisjoint, m
  <2>1. CASE k \in 1..m - 1
    <3>1. k > 1 => k - 1 \in 1..m - 1
      BY <1>5, <2>1
    <3>2. k \in 1..Len(file) /\ file'[k] = file[k] /\ (k > 1 => file'[k - 1] = file[k - 1])
      BY <1>5, <2>1, <3>1
    <3> QED
      BY <3>2 DEF IntervalsDisjoint
  <2>2. CASE k = m
    <3>1. file'[k].lo = lastExtra /\ file'[k].hi = now
      BY <1>5, <2>2
    <3>2. ASSUME k > 1 PROVE file'[k - 1].hi =< lastExtra
      <4>1. k - 1 \in 1..m - 1
        BY <1>5, <2>2, <3>2
      <4>2. k - 1 \in 1..Len(file) /\ file'[k - 1] = file[k - 1]
        BY <1>5, <4>1
      <4> QED
        BY <1>1, <1>3, <4>2 DEF FileInv
    <3> QED
      BY <1>6, <3>1, <3>2
  <2> QED
    BY <1>7, <2>1, <2>2
<1>14. FileInv'
  <2> SUFFICES ASSUME ~plan.crashes, NEW k \in 1..m PROVE file'[k].hi =< now
    BY <1>1, <1>3 DEF FileInv, m
  <2>1. CASE k \in 1..m - 1
    BY <1>5, <2>1 DEF FileInv
  <2>2. CASE k = m
    BY <1>5, <1>6, <2>2
  <2> QED
    BY <1>7, <2>1, <2>2
<1>15. RecordedInv'
  <2>1. ASSUME Listed, NEW i \in 1..Len(Requests), Recorded(i) PROVE Recorded(i)'
    <3>1. PICK k \in 1..Len(file) : Distance(file[k].hi, Requests[i]) < Tol
      BY <2>1 DEF Recorded
    <3>2. k \in 1..m /\ file'[k] = file[k]
      BY <1>5, <2>1
    <3> QED
      BY <1>1, <3>1, <3>2, SamePlan DEF Recorded, m
  <2>2. ASSUME Listed, NEW i \in 1..Len(Requests), NEW j \in 1..Len(times), Reportable(i),
               times[j] = Requests[i], Requests[i] < now + Tol
        PROVE  Recorded(i)'
    <3>1. CASE j < nextExtra
      <4>1. j \in 1..nextExtra - 1
        BY <1>4, <3>1
      <4> QED
        BY <1>3, <2>1, <2>2, <4>1 DEF RecordedInv
    <3>2. CASE ~(j < nextExtra)
      <4>1. times[nextExtra] =< times[j]
        BY <1>3, <1>4, <3>2, LaterTimes DEF TimesInv
      <4>2. now =< times[nextExtra] + Slack
        BY <1>3, <1>4, <2>2 DEF NextInv, Listed
      <4>3. times[nextExtra] \in Nat /\ Requests[i] \in Nat /\ Slack \in Nat /\ Slack < Tol
        BY <1>4, Typed, Ticks
      <4> HIDE DEF IInv
      <4>4. now < Requests[i] + Tol
        BY <1>6, <2>2, <4>1, <4>2, <4>3
      <4>5. Distance(now, Requests[i]) < Tol
        BY <1>6, <2>2, <4>3, <4>4 DEF Distance
      <4>6. m \in 1..m /\ file'[m].hi = now
        BY <1>5
      <4> QED
        BY <1>1, <4>5, <4>6, SamePlan DEF Recorded, m
    <3> QED
      BY <3>1, <3>2
  <2>3. ASSUME Listed, NEW i \in 1..Len(Requests), Reportable(i), Requests[i] < now + Tol
        PROVE  Recorded(i)'
    <3>1. CASE Requests[i] < times[1]
      BY <1>3, <2>1, <2>3, <3>1 DEF RecordedInv
    <3>2. CASE \E j \in 1..Len(times) : times[j] = Requests[i]
      BY <2>2, <2>3, <3>2
    <3> QED
      BY <1>3, <2>3, <3>1, <3>2 DEF CutInv, Listed
  <2> SUFFICES ASSUME Listed, NEW i \in 1..Len(Requests), Reportable(i)
               PROVE  /\ Requests[i] < saved + Tol => Recorded(i)'
                      /\ \A k \in 1..m : Requests[i] < file'[k].hi + Tol => Recorded(i)'
                      /\ Requests[i] < now + Tol => Recorded(i)'
                      /\ Requests[i] < times[1] => Recorded(i)'
                      /\ \A j \in 1..next - 1 : times[j] = Requests[i] => Recorded(i)'
    BY <1>1, <1>3, SamePlan DEF RecordedInv, m
  <2>4. Requests[i] < saved + Tol => Recorded(i)'
    BY <2>1 DEF RecordedInv
  <2>5. ASSUME NEW k \in 1..m, Requests[i] < file'[k].hi + Tol PROVE Recorded(i)'
    <3>1. CASE k \in 1..m - 1
      <4>1. k \in 1..Len(file) /\ file'[k] = file[k]
        BY <1>5, <3>1
      <4> QED
        BY <2>1, <2>5, <4>1 DEF RecordedInv
    <3>2. CASE k = m
      BY <1>5, <2>3, <2>5, <3>2
    <3> QED
      BY <1>7, <3>1, <3>2
  <2>6. Requests[i] < times[1] => Recorded(i)'
    BY <1>3, <2>1 DEF RecordedInv
  <2>7. ASSUME NEW j \in 1..next - 1, times[j] = Requests[i] PROVE Recorded(i)'
    <3>1. j \in 1..Len(times)
      BY <1>4
    <3>2. CASE j \in 1..nextExtra - 1
      BY <1>3, <2>1, <2>7, <3>2 DEF RecordedInv
    <3>3. CASE j \in nextExtra..next - 1
      BY <1>2, <2>2, <2>7, <3>1, <3>3
    <3> QED
      BY <1>4, <3>2, <3>3
  <2> QED
    BY <2>3, <2>4, <2>5, <2>6, <2>7
<1> QED
  BY <1>8, <1>9, <1>10, <1>11, <1>12, <1>13, <1>14, <1>15
(* The end of a step, and of the program.                                   *)
LEMMA WriteBackupKeeps ==
  ASSUME IInv, NEW due \in BOOLEAN, NEW signal \in BOOLEAN, WriteBackup(due, signal)
  PROVE  IInv'
<1> USE DEF IInv
<1>1. /\ phase = "backup" /\ phase' \in {"ending", "running"}
      /\ saved' = IF due THEN now ELSE saved
      /\ UNCHANGED <<plan, now, nextSnap, extraVars, runVars>>
  BY DEF WriteBackup
<1>2. Active /\ Active' /\ Consumed
  BY <1>1 DEF Active, Consumed
<1>3. saved' \in Nat /\ saved =< saved' /\ saved' =< now /\ (saved' = saved \/ saved' = now)
  BY <1>1, Typed DEF ClockInv
<1>4. TypeOK'
  BY <1>1, <1>3 DEF TypeOK, extraVars, runVars, SnapTimes
<1>5. ClockInv'
  BY <1>1, <1>2, <1>3, Typed DEF ClockInv, runVars
<1>6. SnapInv'
  <2>1. Wanted' = Wanted
    BY <1>1, SamePlan DEF runVars
  <2>2. ASSUME NEW j \in 1..nextSnap - 1 PROVE Wanted[j] =< saved'
    <3>1. nextSnap \in 1..Len(Wanted) + 1 /\ Wanted[j] =< saved
      BY <1>2 DEF SnapInv
    <3>2. Wanted[j] \in Nat
      <4>1. Len(Wanted) \in Nat /\ Wanted \in Seq(Nat)
        BY WantedIs
      <4>2. j \in 1..Len(Wanted)
        BY <3>1, <4>1
      <4> QED
        BY <4>1, <4>2, ElementOfSeq
    <3>3. saved \in Nat
      BY Typed
    <3> HIDE DEF IInv
    <3> QED
      BY <1>3, <3>1, <3>2, <3>3
  <2> QED
    BY <1>1, <1>2, <2>1, <2>2 DEF SnapInv, runVars
<1>7. TimesInv' /\ CutInv' /\ NewFile' /\ FirstInv'
  BY <1>1, <1>2, SamePlan DEF TimesInv, CutInv, NewFile, FirstInv, extraVars, runVars
<1>8. NextInv'
  BY <1>1, <1>2 DEF NextInv, Consumed, extraVars, runVars
<1>9. OneInterval' /\ IntervalsDisjoint'
  BY <1>1, SameFile DEF extraVars
<1>10. FileInv'
  BY <1>1, <1>2 DEF FileInv, extraVars
<1>11. RecordedInv'
  <2>1. ASSUME Listed, NEW i \in 1..Len(Requests), Reportable(i), Requests[i] < saved' + Tol
        PROVE  Recorded(i)
    <3>1. CASE saved' = saved
      BY <2>1, <3>1 DEF RecordedInv
    <3>2. CASE saved' = now
      BY <1>2, <2>1, <3>2 DEF RecordedInv
    <3> QED
      BY <1>3, <3>1, <3>2
  <2> QED
    BY <1>1, <1>2, <2>1, SamePlan, SameFile DEF RecordedInv, Consumed, extraVars
<1> QED
  BY <1>4, <1>5, <1>6, <1>7, <1>8, <1>9, <1>10, <1>11

(* The output file saves what the run has reached.                          *)
LEMMA WriteOutputKeeps ==
  ASSUME IInv, WriteOutput
  PROVE  IInv'
<1> USE DEF IInv
<1>1. /\ phase = "ending" /\ phase' = "idle" /\ saved' = now
      /\ UNCHANGED <<plan, now, nextSnap, extraVars, runVars>>
  BY DEF WriteOutput
<1>2. Active /\ ~Active' /\ ~Consumed'
  BY <1>1 DEF Active, Consumed
<1>3. TypeOK'
  BY <1>1, Typed DEF TypeOK, extraVars, runVars, SnapTimes
<1>4. ClockInv' /\ SnapInv' /\ TimesInv' /\ CutInv' /\ NewFile' /\ FirstInv' /\ NextInv'
  BY <1>1, <1>2, Typed DEF ClockInv, SnapInv, TimesInv, CutInv, NewFile, FirstInv, NextInv
<1>5. OneInterval' /\ IntervalsDisjoint'
  BY <1>1, SameFile DEF extraVars
<1>6. FileInv'
  BY <1>1, <1>2 DEF FileInv, extraVars
<1>7. RecordedInv'
  BY <1>1, <1>2, SamePlan, SameFile DEF RecordedInv, Consumed, extraVars
<1> QED
  BY <1>3, <1>4, <1>5, <1>6, <1>7

(* A run that is killed or refuses to append changes no data.               *)
LEMMA StopKeeps ==
  ASSUME IInv, Kill \/ RefuseToAppend
  PROVE  IInv'
<1> USE DEF IInv
<1>1. /\ UNCHANGED <<plan, now, saved, nextSnap, extraVars, runVars>>
      /\ phase' \in {"idle", "failed"}
      /\ plan.crashes \/ phase = "idle"
  BY DEF Kill, RefuseToAppend
<1>2. ~Active' /\ ~Consumed'
  BY <1>1 DEF Active, Consumed
<1>3. TypeOK'
  BY <1>1 DEF TypeOK, extraVars, runVars, SnapTimes
<1>4. ClockInv' /\ SnapInv' /\ TimesInv' /\ CutInv' /\ NewFile' /\ FirstInv' /\ NextInv'
  BY <1>1, <1>2 DEF ClockInv, SnapInv, TimesInv, CutInv, NewFile, FirstInv, NextInv
<1>5. OneInterval' /\ IntervalsDisjoint'
  BY <1>1, SameFile DEF extraVars
<1>6. FileInv'
  BY <1>1, <1>2 DEF FileInv, extraVars
<1>7. RecordedInv'
  BY <1>1, <1>2, SamePlan, SameFile DEF RecordedInv, extraVars
<1> QED
  BY <1>3, <1>4, <1>5, <1>6, <1>7

(* A step that changes nothing.                                             *)
LEMMA StutterKeeps ==
  ASSUME IInv, UNCHANGED vars
  PROVE  IInv'
<1> USE DEF IInv
<1>1. UNCHANGED <<plan, phase, now, saved, nextSnap, extraVars, runVars>>
  BY DEF vars
<1>2. Active' = Active /\ Consumed' = Consumed
  BY <1>1 DEF Active, Consumed
<1>3. TypeOK'
  BY <1>1 DEF TypeOK, extraVars, runVars, SnapTimes
<1>4. ClockInv' /\ SnapInv' /\ TimesInv' /\ CutInv' /\ NewFile' /\ FirstInv' /\ NextInv'
  BY <1>1, <1>2, SamePlan
  DEF ClockInv, SnapInv, TimesInv, CutInv, NewFile, FirstInv, NextInv, extraVars, runVars
<1>5. OneInterval' /\ IntervalsDisjoint' /\ FileInv'
  BY <1>1, <1>2, SameFile DEF FileInv, extraVars
<1>6. RecordedInv'
  BY <1>1, <1>2, SamePlan, SameFile DEF RecordedInv, extraVars
<1> QED
  BY <1>3, <1>4, <1>5, <1>6

(* The times of a run that starts: those of the request, or of its part     *)
(* from the last one before the end of the file that is appended to.        *)
LEMMA TimesOfRun ==
  ASSUME IInv, NEW newEnd \in plan.ends, StartRun(newEnd)
  PROVE  /\ times' \in Seq(Nat) /\ times' # <<>> /\ Increasing(times')
         /\ \A i \in 1..Len(Requests) :
              \/ plan.ranged /\ (Requests[i] < saved \/ Requests[i] > newEnd)
              \/ Requests[i] < times'[1]
              \/ \E j \in 1..Len(times') : times'[j] = Requests[i]
         /\ ~plan.ranged => \E q \in 1..Len(Requests) :
              /\ times'[1] = Requests[q]
              /\ q = 1 \/ \E k \in 1..Len(file) : times'[1] < file[k].hi
              /\ q = 1 \/ appending'
              /\ \A i \in 1..Len(Requests) : Requests[i] < times'[1] =>
                   \E k \in 1..Len(file) : Requests[i] < file[k].hi
<1> DEFINE parsed == ParseTimes(Requests, saved, newEnd, plan.ranged)
           h      == file[Len(file)].hi
<1>1. /\ parsed # <<>>
      /\ appending' = (plan.appending /\ file # <<>>)
      /\ times' = IF plan.appending /\ file # <<>> THEN Skipped(parsed, h) ELSE parsed
  BY DEF StartRun
<1>2. /\ Requests \in Seq(Nat) /\ Increasing(Requests) /\ plan.ranged \in BOOLEAN
      /\ saved \in Nat /\ newEnd \in Nat
  BY PlanIs, Typed DEF IInv, TypeOK
<1>6. parsed = ParseTimes(Requests, saved, newEnd, plan.ranged)
  OBVIOUS
<1> HIDE DEF parsed
<1>3. /\ parsed \in Seq(Nat) /\ Increasing(parsed)
      /\ ~plan.ranged => parsed = Requests
      /\ \A i \in 1..Len(Requests) :
           \/ plan.ranged /\ (Requests[i] < saved \/ Requests[i] > newEnd)
           \/ \E j \in 1..Len(parsed) : parsed[j] = Requests[i]
  <2>1. CutToRun(Requests, parsed, saved, newEnd, plan.ranged)
    BY <1>2, <1>6, ParseTimesIs
  <2> QED
    BY <2>1 DEF CutToRun
<1>4. CASE ~(plan.appending /\ file # <<>>)
  <2>1. times' = parsed /\ 1 \in 1..Len(parsed)
    BY <1>1, <1>3, <1>4
  <2>2. ASSUME ~plan.ranged
        PROVE  /\ times'[1] = Requests[1] /\ 1 \in 1..Len(Requests)
               /\ \A i \in 1..Len(Requests) : ~(Requests[i] < times'[1])
    <3>1. parsed = Requests
      BY <1>3, <2>2
    <3>2. \A i \in 1..Len(Requests) : Requests[i] \in Nat /\ (i = 1 \/ 1 < i)
      BY <1>2
    <3>3. \A i \in 1..Len(Requests) : 1 < i => Requests[1] < Requests[i]
      BY <1>2, <2>1, <3>1 DEF Increasing
    <3> QED
      BY <2>1, <3>1, <3>2, <3>3
  <2> QED
    BY <1>1, <1>3, <2>1, <2>2
<1>5. CASE plan.appending /\ file # <<>>
  <2>1. Len(file) \in 1..Len(file) /\ h \in Nat
    <3>1. file \in Seq([lo : Nat, hi : Nat])
      BY DEF IInv, TypeOK
    <3>2. Len(file) \in Nat /\ Len(file) # 0
      BY <1>5, <3>1
    <3>3. Len(file) \in 1..Len(file)
      BY <3>2
    <3> QED
      BY <3>3, Typed DEF IInv
  <2>2. times' = Skipped(parsed, h) /\ appending'
    BY <1>1, <1>5
  <2> HIDE DEF h
  <2>3. /\ times' \in Seq(Nat) /\ times' # <<>> /\ Increasing(times')
        /\ \E q \in 1..Len(parsed) :
             /\ times'[1] = parsed[q]
             /\ q = 1 \/ parsed[q] < h
             /\ \A i \in 1..Len(parsed) : i < q => parsed[i] < times'[1]
             /\ \A i \in 1..Len(parsed) : i >= q => \E j \in 1..Len(times') : times'[j] = parsed[i]
    <3>1. parsed \in Seq(Nat) /\ parsed # <<>> /\ Increasing(parsed) /\ h \in Nat
      BY <1>1, <1>3, <2>1
    <3>2. CutToEnd(parsed, times', h)
      BY <2>2, <3>1, SkippedIs
    <3> QED
      BY <3>2 DEF CutToEnd
  <2>9. Len(parsed) \in Nat
    BY <1>3, LenProperties
  <2>4. PICK q \in 1..Len(parsed) :
          /\ times'[1] = parsed[q]
          /\ q = 1 \/ parsed[q] < h
          /\ \A i \in 1..Len(parsed) : i < q => parsed[i] < times'[1]
          /\ \A i \in 1..Len(parsed) : i >= q => \E j \in 1..Len(times') : times'[j] = parsed[i]
    BY <2>3
  <2>5. \A i \in 1..Len(parsed) : parsed[i] < times'[1] \/ \E j \in 1..Len(times') : times'[j] = parsed[i]
    <3>1. \A i \in 1..Len(parsed) : i < q \/ i >= q
      BY <2>9
    <3> QED
      BY <2>4, <3>1
  <2>6. \A i \in 1..Len(Requests) :
          \/ plan.ranged /\ (Requests[i] < saved \/ Requests[i] > newEnd)
          \/ Requests[i] < times'[1]
          \/ \E j \in 1..Len(times') : times'[j] = Requests[i]
    BY <1>3, <2>5
  <2>7. ASSUME ~plan.ranged, NEW i \in 1..Len(Requests), Requests[i] < times'[1]
        PROVE  Requests[i] < h
    <3>1. parsed = Requests
      BY <1>3, <2>7
    <3>2. Requests[i] \in Nat /\ Requests[q] \in Nat /\ q \in 1..Len(Requests)
      <4>1. q \in 1..Len(Requests)
        BY <3>1
      <4> QED
        BY <1>2, <4>1, ElementOfSeq
    <3>3. CASE q = 1
      <4>1. i # 1 => Requests[1] < Requests[i]
        BY <1>2, <3>2, <3>3 DEF Increasing
      <4> QED
        BY <2>4, <2>7, <3>1, <3>2, <3>3, <4>1
    <3>4. CASE Requests[q] < h
      BY <2>1, <2>4, <2>7, <3>1, <3>2, <3>4
    <3> QED
      BY <2>4, <3>1, <3>3, <3>4
  <2>8. ASSUME ~plan.ranged
        PROVE  \E q1 \in 1..Len(Requests) :
                 /\ times'[1] = Requests[q1]
                 /\ q1 = 1 \/ \E k \in 1..Len(file) : times'[1] < file[k].hi
                 /\ q1 = 1 \/ appending'
                 /\ \A i \in 1..Len(Requests) : Requests[i] < times'[1] =>
                      \E k \in 1..Len(file) : Requests[i] < file[k].hi
    <3>1. parsed = Requests
      BY <1>3, <2>8
    <3>2. q \in 1..Len(Requests) /\ times'[1] = Requests[q]
      BY <2>4, <3>1
    <3>3. q = 1 \/ \E k \in 1..Len(file) : times'[1] < file[k].hi
      BY <2>1, <2>4 DEF h
    <3>4. \A i \in 1..Len(Requests) : Requests[i] < times'[1] =>
            \E k \in 1..Len(file) : Requests[i] < file[k].hi
      BY <2>1, <2>7, <2>8 DEF h
    <3> QED
      BY <2>2, <3>2, <3>3, <3>4
  <2> QED
    BY <2>3, <2>6, <2>8
<1> QED
  BY <1>4, <1>5

(* A run that starts: what it leaves out of its times, and what it consumes *)
(* at once, has a record.                                                   *)
LEMMA StartRunKeeps ==
  ASSUME IInv, NEW newEnd \in plan.ends, StartRun(newEnd)
  PROVE  IInv'
<1> DEFINE next == AdvanceExtra(times', 1, saved)
<1> USE DEF IInv
<1>1. /\ phase \in {"idle", "failed"} /\ phase' = "running"
      /\ start' = saved /\ now' = saved /\ end' = newEnd /\ saved < newEnd
      /\ nextExtra' = next /\ nextSnap' = 1
      /\ lastExtra' = IF next > 1 THEN saved ELSE 0
      /\ appending' = (plan.appending /\ file # <<>>) /\ ready' = FALSE
      /\ runs' = runs + 1 /\ UNCHANGED <<plan, file, saved>>
  BY DEF StartRun
<1>2. /\ times' \in Seq(Nat) /\ times' # <<>> /\ Increasing(times')
      /\ \A i \in 1..Len(Requests) :
           \/ plan.ranged /\ (Requests[i] < saved \/ Requests[i] > newEnd)
           \/ Requests[i] < times'[1]
           \/ \E j \in 1..Len(times') : times'[j] = Requests[i]
  BY TimesOfRun
<1>3. /\ saved \in Nat /\ now \in Nat /\ newEnd \in Nat /\ runs \in Nat /\ saved =< now
  BY Typed, PlanIs DEF TypeOK, ClockInv
<1>4. /\ next \in 1..Len(times') + 1 /\ Len(times') \in Nat /\ next \in Nat
      /\ \A j \in 1..next - 1 : times'[j] < saved + Tol
      /\ next =< Len(times') => times'[next] >= saved + Tol
  <2>1. Len(times') \in Nat /\ 1 \in 1..Len(times') + 1
    BY <1>2
  <2>2. /\ next \in 1..Len(times') + 1
        /\ \A j \in 1..next - 1 : times'[j] < saved + Tol
        /\ next =< Len(times') => times'[next] >= saved + Tol
    BY <1>2, <1>3, <2>1, AdvanceExtraIs
  <2> QED
    BY <2>1, <2>2
<1> HIDE DEF next
<1>5. Active' /\ ~Active /\ Consumed'
  BY <1>1 DEF Active, Consumed
<1>6. TypeOK'
  <2>1. nextSnap' \in 1..Len(SnapTimes)' + 1
    <3>1. Len(SnapTimes) \in Nat
      BY PlanIs DEF TypeOK
    <3> QED
      BY <1>1, <3>1 DEF SnapTimes
  <2>2. lastExtra' \in Nat /\ runs' \in Nat /\ appending' \in BOOLEAN /\ ready' \in BOOLEAN
    <3>1. lastExtra' = 0 \/ lastExtra' = saved
      BY <1>1
    <3>2. runs' \in Nat
      BY <1>1, <1>3
    <3>3. appending' \in BOOLEAN /\ ready' \in BOOLEAN
      BY <1>1
    <3> QED
      BY <1>3, <3>1, <3>2, <3>3
  <2>3. {start', end', now', saved', lastExtra', runs'} \subseteq Nat
    BY <1>1, <1>3, <2>2
  <2>4. {appending', ready'} \subseteq BOOLEAN
    BY <2>2
  <2> QED
    BY <1>1, <1>2, <1>4, <2>1, <2>3, <2>4 DEF TypeOK
<1>7. ClockInv'
  BY <1>1, <1>3, Ticks DEF ClockInv
<1>8. SnapInv'
  <2>1. Wanted' \in Seq(Nat)
    <3>1. Wanted' = ParseTimes(SnapTimes, saved, newEnd, plan.ranged)
      BY <1>1 DEF Wanted, SnapTimes
    <3>2. SnapTimes \in Seq(Nat) /\ Increasing(SnapTimes) /\ plan.ranged \in BOOLEAN
      BY PlanIs DEF TypeOK
    <3>3. CutToRun(SnapTimes, Wanted', saved, newEnd, plan.ranged)
      BY <1>3, <3>1, <3>2, ParseTimesIs
    <3> QED
      BY <3>3 DEF CutToRun
  <2>2. Len(Wanted') \in Nat
    BY <2>1
  <2>3. 1 \in 1..Len(Wanted') + 1
    BY <2>2
  <2> QED
    BY <1>1, <2>3 DEF SnapInv
<1>9. TimesInv' /\ CutInv'
  BY <1>1, <1>2, SamePlan DEF TimesInv, CutInv
<1>10. NextInv'
  <2>1. next = 1 \/ next > 1
    BY <1>4
  <2>2. saved =< saved
    BY <1>3
  <2>3. lastExtra' = 0 \/ lastExtra' = saved
    BY <1>1
  <2>4. next > 1 => lastExtra' = saved /\ next # 1
    BY <1>1, <1>4
  <2>5. next = 1 => lastExtra' = 0
    BY <1>1, <1>4
  <2>6. \A j \in 1..next - 1 : times'[j] < lastExtra' + Tol
    <3>1. ASSUME NEW j \in 1..next - 1 PROVE next > 1
      BY <1>4
    <3> QED
      BY <1>4, <2>4, <3>1
  <2> QED
    BY <1>1, <1>4, <1>5, <2>1, <2>2, <2>4, <2>5, <2>6 DEF NextInv
<1>11. OneInterval' /\ IntervalsDisjoint'
  BY <1>1, SameFile
<1>12. FileInv'
  <2> SUFFICES ASSUME ~plan.crashes, NEW k \in 1..Len(file)
               PROVE  /\ file[k].hi =< saved
                      /\ next > 1 => file[k].hi =< lastExtra'
    BY <1>1 DEF FileInv
  <2>1. saved = now /\ file[k].hi =< now
    BY <1>1 DEF FileInv
  <2> QED
    BY <1>1, <2>1
<1>13. NewFile'
  BY <1>1 DEF NewFile
<1>14. ASSUME Listed
       PROVE  \E q \in 1..Len(Requests) :
                /\ times'[1] = Requests[q]
                /\ q = 1 \/ \E k \in 1..Len(file) : times'[1] < file[k].hi
                /\ q = 1 \/ appending'
                /\ \A i \in 1..Len(Requests) : Requests[i] < times'[1] =>
                     \E k \in 1..Len(file) : Requests[i] < file[k].hi
  BY <1>14, TimesOfRun DEF Listed
<1>15. FirstInv'
  BY <1>1, <1>14, SamePlan DEF FirstInv
<1>16. RecordedInv'
  <2>1. ASSUME Listed, NEW i \in 1..Len(Requests), Reportable(i), Requests[i] < times'[1]
        PROVE  Recorded(i)
    <3>1. PICK k \in 1..Len(file) : Requests[i] < file[k].hi
      BY <1>14, <2>1
    <3>2. Requests[i] \in Nat /\ file[k].hi \in Nat /\ Tol \in Nat
      BY Typed, Ticks
    <3>3. Requests[i] < file[k].hi + Tol
      BY <3>1, <3>2
    <3> QED
      BY <2>1, <3>3 DEF RecordedInv
  <2>2. ASSUME Listed, NEW i \in 1..Len(Requests), Reportable(i),
               NEW j \in 1..next - 1, times'[j] = Requests[i]
        PROVE  Recorded(i)
    <3>1. Requests[i] < saved + Tol
      BY <1>4, <2>2
    <3> QED
      BY <2>2, <3>1 DEF RecordedInv
  <2> QED
    BY <1>1, <1>5, <2>1, <2>2, SamePlan, SameFile DEF RecordedInv
<1> QED
  BY <1>6, <1>7, <1>8, <1>9, <1>10, <1>11, <1>12, <1>13, <1>15, <1>16

-----------------------------------------------------------------------------
(* The inductive invariant holds in every chain of runs.                    *)
THEOREM AlwaysIInv == Spec => []IInv
<1>1. IInv /\ [Next]_vars => IInv'
  <2> SUFFICES ASSUME IInv, [Next]_vars PROVE IInv'
    OBVIOUS
  <2>1. CASE UNCHANGED vars
    BY <2>1, StutterKeeps
  <2>2. ASSUME NEW e \in plan.ends, StartRun(e) PROVE IInv'
    BY <2>2, StartRunKeeps
  <2>3. ASSUME NEW t \in Clock, Step(t) PROVE IInv'
    BY <2>3, StepKeeps
  <2>4. ASSUME NEW due \in BOOLEAN, NEW signal \in BOOLEAN, WriteBackup(due, signal)
        PROVE  IInv'
    BY <2>4, WriteBackupKeeps
  <2>5. RefuseToAppend \/ Kill => IInv'
    BY StopKeeps
  <2>6. WriteSnapshot \/ NoExtras \/ FirstExtra \/ WriteExtras \/ WriteOutput => IInv'
    BY WriteSnapshotKeeps, NoExtrasKeeps, FirstExtraKeeps, WriteExtrasKeeps, WriteOutputKeeps
  <2> QED
    BY <2>1, <2>2, <2>3, <2>4, <2>5, <2>6 DEF Next
<1> QED
  BY <1>1, InitIInv, PTL DEF Spec

(* For every plan: records are in order and cover no time twice unless a    *)
(* run is killed, forced ones cover one interval each, and the counters     *)
(* stay within their lists (write_extras(), init_extras(),                  *)
(* init_snapshots()).                                                       *)
THEOREM ReportsStayConsistent == Spec => []ReportsConsistent
<1>1. IInv => ReportsConsistent
  BY DEF IInv, ReportsConsistent
<1> QED
  BY <1>1, AlwaysIInv, PTL

(* For every list of times, however often runs are killed and resumed: a    *)
(* reportable time that was passed has a record less than a second away     *)
(* (write_extras(), reporting_max_timestep()).                              *)
THEOREM ListedTimesAreRecorded == Spec => []ListedTimesRecorded
<1>1. IInv => ListedTimesRecorded
  <2> SUFFICES ASSUME IInv, Listed, Written,
                      NEW i \in 1..Len(Requests), Reportable(i), Requests[i] =< now
               PROVE  Recorded(i)
    BY DEF ListedTimesRecorded, RequestsRecorded, Listed
  <2>1. Consumed
    BY DEF Written, Consumed
  <2>2. Requests[i] \in Nat /\ now \in Nat /\ Tol \in Nat \ {0}
    BY Typed, Ticks DEF IInv
  <2>3. Requests[i] < now + Tol
    BY <2>2
  <2> QED
    BY <2>1, <2>3 DEF IInv, RecordedInv
<1> QED
  BY <1>1, AlwaysIInv, PTL

(* What a kill loses is never older than the last snapshot time that was    *)
(* passed (write_snapshot()).                                               *)
THEOREM SnapshotsBoundTheLoss == Spec => []SnapshotsBoundLoss
<1>1. IInv => SnapshotsBoundLoss
  <2> SUFFICES ASSUME IInv, phase \notin {"idle", "failed", "snapshot"},
                      NEW i \in 1..Len(SnapTimes),
                      start < SnapTimes[i], SnapTimes[i] =< now, SnapTimes[i] =< end
               PROVE  saved >= SnapTimes[i]
    BY DEF SnapshotsBoundLoss
  <2> USE DEF IInv
  <2>1. Active
    BY DEF Active, TypeOK
  <2>2. /\ SnapTimes \in Seq(Nat) /\ Increasing(SnapTimes) /\ plan.ranged \in BOOLEAN
        /\ start \in Nat /\ end \in Nat /\ now \in Nat /\ saved \in Nat
        /\ SnapTimes[i] \in Nat
    <3>1. SnapTimes \in Seq(Nat) /\ Increasing(SnapTimes) /\ plan.ranged \in BOOLEAN
      BY PlanIs DEF TypeOK
    <3> QED
      BY <3>1, Typed
  <2>3. Wanted \in Seq(Nat) /\ Increasing(Wanted) /\ \E j \in 1..Len(Wanted) : Wanted[j] = SnapTimes[i]
    <3>1. /\ Wanted \in Seq(Nat) /\ Increasing(Wanted)
          /\ \/ plan.ranged /\ (SnapTimes[i] < start \/ SnapTimes[i] > end)
             \/ \E j \in 1..Len(Wanted) : Wanted[j] = SnapTimes[i]
      <4>1. Wanted = ParseTimes(SnapTimes, start, end, plan.ranged)
        BY DEF Wanted
      <4>2. CutToRun(SnapTimes, Wanted, start, end, plan.ranged)
        BY <2>2, <4>1, ParseTimesIs
      <4> QED
        BY <4>2 DEF CutToRun
    <3>2. ~(SnapTimes[i] < start \/ SnapTimes[i] > end)
      BY <2>2
    <3> QED
      BY <2>2, <3>1, <3>2
  <2>4. PICK j \in 1..Len(Wanted) : Wanted[j] = SnapTimes[i]
    BY <2>3
  <2>5. nextSnap \in 1..Len(Wanted) + 1
    BY <2>1 DEF SnapInv
  <2>6. CASE j < nextSnap
    <3>1. j \in 1..nextSnap - 1
      BY <2>5, <2>6
    <3>2. Wanted[j] =< saved
      BY <2>1, <3>1 DEF SnapInv
    <3> QED
      BY <2>2, <2>4, <3>2
  <2>7. CASE ~(j < nextSnap)
    <3>1. nextSnap \in 1..Len(Wanted) /\ nextSnap =< Len(Wanted) /\ (nextSnap = j \/ nextSnap < j)
      BY <2>3, <2>5, <2>7
    <3>2. Wanted[nextSnap] > now \/ now = start
      BY <2>1, <3>1 DEF SnapInv
    <3>3. Wanted[nextSnap] =< Wanted[j] /\ Wanted[nextSnap] \in Nat
      <4>1. Wanted[nextSnap] \in Nat /\ Wanted[j] \in Nat
        BY <2>3, <3>1, ElementOfSeq
      <4>2. nextSnap < j => Wanted[nextSnap] < Wanted[j]
        BY <2>3, <3>1 DEF Increasing
      <4> QED
        BY <3>1, <4>1, <4>2
    <3> QED
      BY <2>2, <2>4, <3>2, <3>3
  <2> QED
    BY <2>5, <2>6, <2>7
<1> QED
  BY <1>1, AlwaysIInv, PTL

-----------------------------------------------------------------------------
(* What a processor does by itself.  View(r, s, a) is where it is, if s and *)
(* a are the last status and answer that it knows.                          *)
View(r, s, a) ==
  [todo |-> todo[r], state |-> state[r], stat |-> s, answer |-> a,
   starts |-> starts[r], define |-> define[r], named |-> named[r],
   delayed |-> delayed[r]]

Working == {"running", "unwinding"}

(* It waits for others.                                                     *)
Waits(c) ==
  c.state \in Working /\ c.todo # <<>> /\ Head(c.todo)[1] \in {"all", "bcast"}

Moves(c) == c.state \in Working /\ ~Waits(c)

(* What takes the place of the stage it is at.                              *)
More(c) ==
  LET x == Head(c.todo)
  IN  CASE x[1] = "redef" /\ ~c.define        -> RedefImpl
        [] x[1] = "enddef" /\ c.define        -> EnddefImpl
        [] x[1] = "if" /\ c.answer # 0        -> x[2]
        [] x[1] = "unless" /\ c.answer = 0    -> x[2]
        [] x[1] = "textifread" /\ c.stat = 0  -> <<Bcast("text")>>
        [] x[1] = "flush" /\ c.delayed # <<>> ->
             <<<<"enddef">>>> \o PutVar(Head(c.delayed)[1], Head(c.delayed)[2])
             \o <<<<"pop">>, <<"flush">>>>
        [] x[1] = "write"                     -> PutVar(x[2], c.starts[x[3]])
        [] x[1] = "fetch"                     -> GetVar(x[2])
        [] x[1] = "session"                   -> Session(x[2])
        [] OTHER                              -> <<>>

Advanced(c) ==
  LET x == Head(c.todo)
  IN  [todo    |-> More(c) \o Tail(c.todo),
       state   |-> c.state,
       stat    |-> IF x[1] = "textifread" THEN 0 ELSE c.stat,
       answer  |-> c.answer,
       starts  |-> IF x[1] # "let" THEN c.starts
                   ELSE [c.starts EXCEPT ![x[2]] =
                           IF c.answer < x[3] THEN 0 ELSE c.answer - x[3]],
       define  |-> IF x[1] # "sets" THEN c.define
                   ELSE x[2] \in {"created", "define"} \/ (x[2] = "closed" /\ c.define),
       named   |-> IF x[1] # "sets" THEN c.named ELSE x[2] # "closed",
       delayed |-> CASE x[1] = "delay" ->
                          Append(c.delayed, <<x[2], c.starts[x[3]]>>)
                     [] x[1] = "pop"   -> Tail(c.delayed)
                     [] OTHER          -> c.delayed]

Thrown(c) ==
  LET closes == c.state = "running" /\ c.named
  IN  [todo    |-> IF closes THEN CloseFile ELSE <<>>,
       state   |-> IF closes THEN "unwinding" ELSE "failed",
       stat    |-> 0, answer |-> c.answer, starts |-> c.starts, define |-> c.define,
       named   |-> c.named, delayed |-> c.delayed]

Moved(c) ==
  IF c.todo = <<>>
    THEN [c EXCEPT !.state = IF @ = "running" THEN "done" ELSE "failed"]
  ELSE IF Head(c.todo)[1] = "verify" /\ c.stat # 0 THEN Thrown(c)
  ELSE Advanced(c)

(* A processor at c gets to d by itself.                                    *)
Path(f, n) == \A i \in 0..n - 1 : Moves(f[i]) /\ f[i + 1] = Moved(f[i])

Leads(c, d) == \E n \in Nat : \E f : f[0] = c /\ f[n] = d /\ Path(f, n)

-----------------------------------------------------------------------------
(* A processor stays where it is, or makes a step. *)
LEMMA LeadsHere == ASSUME NEW c PROVE Leads(c, c)
<1>1. Path([i \in 0..0 |-> c], 0)
  BY DEF Path
<1> QED  BY <1>1 DEF Leads

LEMMA LeadsOn ==
  ASSUME NEW c, NEW d, Leads(c, d), Moves(d)
  PROVE  Leads(c, Moved(d))
<1>1. PICK n \in Nat : \E f : f[0] = c /\ f[n] = d /\ Path(f, n)
  BY DEF Leads
<1>2. PICK f : f[0] = c /\ f[n] = d /\ Path(f, n)
  BY <1>1
<1> DEFINE g == [i \in 0..n + 1 |-> IF i = n + 1 THEN Moved(d) ELSE f[i]]
<1>3. g[0] = c /\ g[n + 1] = Moved(d) /\ g[n] = d
  BY <1>2
<1>4. ASSUME NEW i \in 0..n PROVE Moves(g[i]) /\ g[i + 1] = Moved(g[i])
  <2>1. CASE i = n
    BY <2>1, <1>3
  <2>2. CASE i # n
    <3>1. i \in 0..n - 1 /\ g[i] = f[i] /\ g[i + 1] = f[i + 1]
      BY <2>2
    <3> QED  BY <3>1, <1>2 DEF Path
  <2> QED  BY <2>1, <2>2
<1>5. Path(g, n + 1)
  <2>1. (n + 1) - 1 = n
    OBVIOUS
  <2> QED  BY <1>4, <2>1 DEF Path
<1> QED
  <2>1. n + 1 \in Nat
    OBVIOUS
  <2> HIDE DEF g
  <2> QED  BY <2>1, <1>3, <1>5 DEF Leads

(* Two paths from the same place are the same as far as both go. *)
LEMMA SamePath ==
  ASSUME NEW f, NEW g, NEW n \in Nat, NEW m \in Nat, n <= m,
         f[0] = g[0], Path(f, n), Path(g, m)
  PROVE  \A i \in 0..n : f[i] = g[i]
<1> DEFINE T == {i \in 0..n : f[i] # g[i]}
<1> SUFFICES ASSUME T # {} PROVE FALSE
  OBVIOUS
<1>1. PICK i \in T : \A j \in T : i <= j
  <2>1. T \subseteq Nat
    OBVIOUS
  <2> QED  BY <2>1, Least
<1>2. i # 0
  OBVIOUS
<1>3. i - 1 \in 0..n - 1 /\ i - 1 \in 0..m - 1 /\ f[i - 1] = g[i - 1]
  BY <1>1, <1>2
<1>4. f[(i - 1) + 1] = Moved(f[i - 1]) /\ g[(i - 1) + 1] = Moved(g[i - 1])
  BY <1>3 DEF Path
<1>5. (i - 1) + 1 = i
  OBVIOUS
<1> QED  BY <1>3, <1>4, <1>5

(* The rest of a path is a path. *)
LEMMA RestOfPath ==
  ASSUME NEW g, NEW n \in Nat, NEW m \in Nat, n <= m, Path(g, m)
  PROVE  Leads(g[n], g[m])
<1> DEFINE k == m - n
           h == [i \in 0..k |-> g[i + n]]
<1>1. k \in Nat /\ h[0] = g[n] /\ h[k] = g[m]
  OBVIOUS
<1>2. ASSUME NEW i \in 0..k - 1 PROVE Moves(h[i]) /\ h[i + 1] = Moved(h[i])
  <2>1. i + n \in 0..m - 1 /\ h[i] = g[i + n] /\ h[i + 1] = g[(i + n) + 1]
    OBVIOUS
  <2> QED  BY <2>1 DEF Path
<1>3. Path(h, k)
  BY <1>2 DEF Path
<1> HIDE DEF k, h
<1> QED  BY <1>1, <1>3 DEF Leads

(* Of two places that one gets to from the same place, one leads to the     *)
(* other.                                                                   *)
LEMMA Fork ==
  ASSUME NEW c, NEW d, NEW e, Leads(c, d), Leads(c, e)
  PROVE  Leads(d, e) \/ Leads(e, d)
<1>1. PICK n \in Nat : \E f : f[0] = c /\ f[n] = d /\ Path(f, n)
  BY DEF Leads
<1>2. PICK f : f[0] = c /\ f[n] = d /\ Path(f, n)
  BY <1>1
<1>3. PICK m \in Nat : \E g : g[0] = c /\ g[m] = e /\ Path(g, m)
  BY DEF Leads
<1>4. PICK g : g[0] = c /\ g[m] = e /\ Path(g, m)
  BY <1>3
<1>5. CASE n <= m
  <2>1. f[n] = g[n]
    BY <1>2, <1>4, <1>5, SamePath
  <2>2. Leads(g[n], g[m])
    BY <1>4, <1>5, RestOfPath
  <2> QED  BY <2>1, <2>2, <1>2, <1>4
<1>6. CASE m <= n
  <2>1. g[m] = f[m]
    BY <1>2, <1>4, <1>6, SamePath
  <2>2. Leads(f[m], f[n])
    BY <1>2, <1>6, RestOfPath
  <2> QED  BY <2>1, <2>2, <1>2, <1>4
<1> QED  BY <1>5, <1>6

LEMMA StuckThere ==
  ASSUME NEW d, NEW e, Leads(d, e), ~Moves(d)
  PROVE  e = d
<1>1. PICK n \in Nat : \E f : f[0] = d /\ f[n] = e /\ Path(f, n)
  BY DEF Leads
<1>2. PICK f : f[0] = d /\ f[n] = e /\ Path(f, n)
  BY <1>1
<1>3. n = 0
  <2> SUFFICES ASSUME n # 0 PROVE FALSE
    OBVIOUS
  <2>1. 0 \in 0..n - 1
    OBVIOUS
  <2> QED  BY <2>1, <1>2 DEF Path
<1> QED  BY <1>2, <1>3

(* Two processors that set out from the same place and cannot go on by      *)
(* themselves are at the same place.                                        *)
LEMMA SamePlace ==
  ASSUME NEW c, NEW d, NEW e, Leads(c, d), Leads(c, e), ~Moves(d), ~Moves(e)
  PROVE  d = e
BY Fork, StuckThere

(* Who has begun to unwind does not get done. *)
GivenUp(c) == c.state \in {"unwinding", "failed"}

LEMMA MovedGivenUp ==
  ASSUME NEW c, GivenUp(c)
  PROVE  GivenUp(Moved(c))
<1>1. CASE c.todo = <<>>
  BY <1>1 DEF GivenUp, Moved
<1>2. CASE c.todo # <<>> /\ Head(c.todo)[1] = "verify" /\ c.stat # 0
  <2>1. Moved(c) = Thrown(c)
    BY <1>2 DEF Moved
  <2> QED  BY <2>1 DEF GivenUp, Thrown
<1>3. CASE c.todo # <<>> /\ ~(Head(c.todo)[1] = "verify" /\ c.stat # 0)
  <2>1. Moved(c) = Advanced(c)
    BY <1>3 DEF Moved
  <2>2. Advanced(c).state = c.state
    BY DEF Advanced
  <2> QED  BY <2>1, <2>2 DEF GivenUp
<1> QED  BY <1>1, <1>2, <1>3

LEMMA StaysGivenUp ==
  ASSUME NEW c, NEW d, Leads(c, d), GivenUp(c)
  PROVE  GivenUp(d)
<1>1. PICK n \in Nat : \E f : f[0] = c /\ f[n] = d /\ Path(f, n)
  BY DEF Leads
<1>2. PICK f : f[0] = c /\ f[n] = d /\ Path(f, n)
  BY <1>1
<1> DEFINE T == {i \in 0..n : ~GivenUp(f[i])}
<1> SUFFICES ASSUME T # {} PROVE FALSE
  BY <1>2
<1>3. PICK i \in T : \A j \in T : i <= j
  <2>1. T \subseteq Nat
    OBVIOUS
  <2> QED  BY <2>1, Least
<1>4. i # 0
  BY <1>2
<1>5. i - 1 \in 0..n - 1 /\ GivenUp(f[i - 1]) /\ (i - 1) + 1 = i
  BY <1>3, <1>4
<1>6. f[i] = Moved(f[i - 1])
  BY <1>2, <1>5 DEF Path
<1> QED  BY <1>5, <1>6, MovedGivenUp

-----------------------------------------------------------------------------
(* Programs.  A processor waits between the call of processor 0 and the     *)
(* first look at its status or answer, and learns it there.                 *)
Quiet(x) == x[1] \in {"call", "checked", "ask", "all", "bcast"}

Statuses == {Share, Total}
Answers  == {Bcast("answer")}

Told(t, i, S) ==
  \E k \in DOMAIN t : k >= i /\ t[k] \in S /\ \A m \in i..k - 1 : Quiet(t[m])

Asks(x) ==
  \/ x[1] = "ask"
  \/ x[1] \in {"call", "checked"} /\ x[2] \in {"exists", "length", "attlen"}

Settled(t) ==
  \A i \in DOMAIN t :
    /\ t[i][1] = "call" => Told(t, i + 1, Statuses)
    /\ Asks(t[i]) => Told(t, i + 1, Answers)

(* What is done under a condition.                                          *)
Nested(b) ==
  \E v : \/ b = DefineDimension(v)
         \/ b = DefineDimension("x") \o <<<<"delay", "x", "zero">>>>
         \/ b = InqDimlen
         \/ b = ReadText(v)
         \/ b = DefineDimensions \o Redef \o DefVar(v) \o WriteAttributes(v)
         \/ b = InqVarid(v)
         \/ b = Redef \o DefVar("mapping")
         \/ b = DefDim
         \/ b = DefineTimeBounds
         \/ b = DefineTimeseries

Known(x) ==
  /\ x[1] \in {"if", "unless"} => Nested(x[2])
  /\ x[1] = "session" => x[2] \in SessionNames

AList(t) == \E S : t \in Seq(S)

Good(t) == AList(t) /\ Settled(t) /\ \A i \in DOMAIN t : Known(t[i])

-----------------------------------------------------------------------------
LEMMA ListFacts ==
  ASSUME NEW p, AList(p)
  PROVE  /\ Len(p) \in Nat /\ DOMAIN p = 1..Len(p)
         /\ p # <<>> => Len(p) > 0 /\ Head(p) = p[1]
         /\ p # <<>> => AList(Tail(p)) /\ Len(Tail(p)) = Len(p) - 1
         /\ \A i \in 1..Len(p) - 1 : Tail(p)[i] = p[i + 1]
         /\ <<>> \o p = p
<1>1. PICK S : p \in Seq(S)
  BY DEF AList
<1>2. p # <<>> => Tail(p) \in Seq(S)
  BY <1>1
<1>3. Len(p) \in Nat /\ DOMAIN p = 1..Len(p)
  BY <1>1
<1>4. p # <<>> => Len(p) > 0 /\ Head(p) = p[1]
  BY <1>1
<1>5. p # <<>> => Len(Tail(p)) = Len(p) - 1
  BY <1>1
<1>6. \A i \in 1..Len(p) - 1 : Tail(p)[i] = p[i + 1]
  BY <1>1
<1>7. <<>> \o p = p
  BY <1>1
<1> QED  BY <1>2, <1>3, <1>4, <1>5, <1>6, <1>7 DEF AList

LEMMA JoinFacts ==
  ASSUME NEW p, NEW q, AList(p), AList(q)
  PROVE  /\ AList(p \o q)
         /\ Len(p \o q) = Len(p) + Len(q)
         /\ \A i \in 1..Len(p) : (p \o q)[i] = p[i]
         /\ \A i \in 1..Len(q) : (p \o q)[Len(p) + i] = q[i]
<1>1. PICK S : p \in Seq(S)
  BY DEF AList
<1>2. PICK T : q \in Seq(T)
  BY DEF AList
<1>3. p \in Seq(S \union T) /\ q \in Seq(S \union T)
  BY <1>1, <1>2
<1>4. p \o q \in Seq(S \union T)
  BY <1>3
<1>5. Len(p \o q) = Len(p) + Len(q)
  BY <1>3
<1>6. \A i \in 1..Len(p) : (p \o q)[i] = p[i]
  BY <1>3
<1>7. \A i \in 1..Len(q) : (p \o q)[Len(p) + i] = q[i]
  BY <1>3
<1> QED  BY <1>4, <1>5, <1>6, <1>7 DEF AList

(* What is told stays told when something is put before or after.           *)
LEMMA ToldBefore ==
  ASSUME NEW p, NEW q, AList(p), AList(q), NEW S, NEW i \in Nat, i > 0, Told(p, i, S)
  PROVE  Told(p \o q, i, S)
<1>1. PICK k \in DOMAIN p : k >= i /\ p[k] \in S /\ \A m \in i..k - 1 : Quiet(p[m])
  BY DEF Told
<1>2. k \in 1..Len(p) /\ Len(p) \in Nat /\ Len(q) \in Nat
  BY ListFacts
<1>3. k \in DOMAIN (p \o q) /\ (p \o q)[k] = p[k]
  BY <1>2, ListFacts, JoinFacts
<1>4. ASSUME NEW m \in i..k - 1 PROVE Quiet((p \o q)[m])
  <2>1. m \in 1..Len(p)
    BY <1>2
  <2>2. (p \o q)[m] = p[m]
    BY <2>1, JoinFacts
  <2> QED  BY <1>1, <2>2
<1> QED  BY <1>1, <1>3, <1>4 DEF Told

LEMMA ToldAfter ==
  ASSUME NEW p, NEW q, AList(p), AList(q), NEW S, NEW i \in Nat, i > 0, Told(q, i, S)
  PROVE  Told(p \o q, Len(p) + i, S)
<1>1. PICK k \in DOMAIN q : k >= i /\ q[k] \in S /\ \A m \in i..k - 1 : Quiet(q[m])
  BY DEF Told
<1>2. k \in 1..Len(q) /\ Len(p) \in Nat /\ Len(q) \in Nat
  BY ListFacts
<1>3. Len(p) + k \in DOMAIN (p \o q) /\ (p \o q)[Len(p) + k] = q[k]
  BY <1>2, ListFacts, JoinFacts
<1>4. ASSUME NEW m \in Len(p) + i..Len(p) + k - 1 PROVE Quiet((p \o q)[m])
  <2>1. m - Len(p) \in 1..Len(q) /\ m - Len(p) \in i..k - 1
    BY <1>2
  <2>2. (p \o q)[Len(p) + (m - Len(p))] = q[m - Len(p)]
    BY <2>1, JoinFacts
  <2>3. Len(p) + (m - Len(p)) = m
    BY <1>2
  <2> QED  BY <1>1, <2>1, <2>2, <2>3
<1>5. Len(p) + k >= Len(p) + i
  BY <1>1, <1>2
<1>6. (p \o q)[Len(p) + k] \in S
  BY <1>1, <1>3
<1> QED  BY <1>3, <1>4, <1>5, <1>6 DEF Told

LEMMA GoodJoin ==
  ASSUME NEW p, NEW q, Good(p), Good(q)
  PROVE  Good(p \o q)
<1>1. AList(p) /\ AList(q) /\ AList(p \o q)
  BY JoinFacts DEF Good
<1>2. Len(p) \in Nat /\ Len(q) \in Nat /\ DOMAIN p = 1..Len(p) /\ DOMAIN q = 1..Len(q)
      /\ DOMAIN (p \o q) = 1..Len(p) + Len(q)
  BY <1>1, ListFacts, JoinFacts
<1>3. ASSUME NEW i \in DOMAIN (p \o q)
      PROVE  /\ (p \o q)[i][1] = "call" => Told(p \o q, i + 1, Statuses)
             /\ Asks((p \o q)[i]) => Told(p \o q, i + 1, Answers)
             /\ Known((p \o q)[i])
  <2>1. CASE i \in 1..Len(p)
    <3>1. (p \o q)[i] = p[i]
      BY <2>1, <1>1, JoinFacts
    <3>2. /\ p[i][1] = "call" => Told(p, i + 1, Statuses)
          /\ Asks(p[i]) => Told(p, i + 1, Answers)
          /\ Known(p[i])
      BY <2>1, <1>2 DEF Good, Settled
    <3>3. i + 1 \in Nat /\ i + 1 > 0
      BY <2>1
    <3> QED  BY <3>1, <3>2, <3>3, <1>1, ToldBefore
  <2>2. CASE i \notin 1..Len(p)
    <3> DEFINE j == i - Len(p)
    <3>1. j \in 1..Len(q) /\ Len(p) + j = i /\ j + 1 \in Nat /\ j + 1 > 0
          /\ Len(p) + (j + 1) = i + 1
      BY <2>2, <1>2
    <3>2. (p \o q)[i] = q[j]
      BY <3>1, <1>1, JoinFacts
    <3>3. /\ q[j][1] = "call" => Told(q, j + 1, Statuses)
          /\ Asks(q[j]) => Told(q, j + 1, Answers)
          /\ Known(q[j])
      BY <3>1, <1>2 DEF Good, Settled
    <3> HIDE DEF j
    <3>4. \A S : Told(q, j + 1, S) => Told(p \o q, i + 1, S)
      BY <3>1, <1>1, ToldAfter
    <3> QED  BY <3>2, <3>3, <3>4
  <2> QED  BY <2>1, <2>2
<1> QED  BY <1>1, <1>3 DEF Good, Settled

(* What is told is told when a processor goes on. *)
LEMMA ToldOn ==
  ASSUME NEW t, AList(t), t # <<>>, NEW S, NEW i \in Nat, i > 0, Told(t, i + 1, S)
  PROVE  Told(Tail(t), i, S)
<1>1. PICK k \in DOMAIN t : k >= i + 1 /\ t[k] \in S /\ \A m \in i + 1..k - 1 : Quiet(t[m])
  BY DEF Told
<1>2. k \in 1..Len(t) /\ Len(t) \in Nat /\ AList(Tail(t)) /\ DOMAIN Tail(t) = 1..Len(t) - 1
  BY ListFacts
<1>3. k - 1 \in 1..Len(t) - 1 /\ (k - 1) + 1 = k /\ k - 1 >= i
  BY <1>1, <1>2
<1>4. Tail(t)[k - 1] = t[k]
  BY <1>3, ListFacts
<1>5. ASSUME NEW m \in i..(k - 1) - 1 PROVE Quiet(Tail(t)[m])
  <2>1. m \in 1..Len(t) - 1 /\ m + 1 \in i + 1..k - 1
    BY <1>2
  <2>2. Tail(t)[m] = t[m + 1]
    BY <2>1, ListFacts
  <2> QED  BY <1>1, <2>1, <2>2
<1> QED  BY <1>1, <1>2, <1>3, <1>4, <1>5 DEF Told

LEMMA GoodRest ==
  ASSUME NEW t, Good(t), t # <<>>
  PROVE  /\ Good(Tail(t)) /\ Known(Head(t))
         /\ Head(t)[1] = "call" => Told(Tail(t), 1, Statuses)
         /\ Asks(Head(t)) => Told(Tail(t), 1, Answers)
<1>1. AList(t) /\ Len(t) \in Nat /\ DOMAIN t = 1..Len(t) /\ Len(t) > 0
      /\ Head(t) = t[1] /\ AList(Tail(t)) /\ DOMAIN Tail(t) = 1..Len(t) - 1
  BY ListFacts DEF Good
<1>2. /\ Head(t)[1] = "call" => Told(Tail(t), 1, Statuses)
      /\ Asks(Head(t)) => Told(Tail(t), 1, Answers)
  <2>1. 1 \in DOMAIN t /\ 1 \in Nat /\ 1 > 0
    BY <1>1
  <2>2. /\ t[1][1] = "call" => Told(t, 1 + 1, Statuses)
        /\ Asks(t[1]) => Told(t, 1 + 1, Answers)
    BY <2>1 DEF Good, Settled
  <2> QED  BY <2>1, <2>2, <1>1, ToldOn
<1>3. Known(Head(t))
  BY <1>1 DEF Good
<1>4. ASSUME NEW i \in DOMAIN Tail(t)
      PROVE  /\ Tail(t)[i][1] = "call" => Told(Tail(t), i + 1, Statuses)
             /\ Asks(Tail(t)[i]) => Told(Tail(t), i + 1, Answers)
             /\ Known(Tail(t)[i])
  <2>1. i \in 1..Len(t) - 1 /\ i + 1 \in DOMAIN t /\ i + 1 \in Nat /\ i + 1 > 0
    BY <1>1
  <2>2. Tail(t)[i] = t[i + 1]
    BY <2>1, <1>1, ListFacts
  <2>3. /\ t[i + 1][1] = "call" => Told(t, (i + 1) + 1, Statuses)
        /\ Asks(t[i + 1]) => Told(t, (i + 1) + 1, Answers)
        /\ Known(t[i + 1])
    BY <2>1 DEF Good, Settled
  <2>4. \A S : Told(t, (i + 1) + 1, S) => Told(Tail(t), i + 1, S)
    BY <2>1, <1>1, ToldOn
  <2> QED  BY <2>2, <2>3, <2>4
<1> QED  BY <1>1, <1>2, <1>3, <1>4 DEF Good, Settled

(* Somebody who has not been told yet goes on through what is quiet. *)
LEMMA StillToBeTold ==
  ASSUME NEW t, AList(t), t # <<>>, NEW S, Told(t, 1, S), Head(t) \notin S
  PROVE  Quiet(Head(t)) /\ Told(Tail(t), 1, S)
<1>1. PICK k \in DOMAIN t : k >= 1 /\ t[k] \in S /\ \A m \in 1..k - 1 : Quiet(t[m])
  BY DEF Told
<1>2. k \in 1..Len(t) /\ Len(t) \in Nat /\ Head(t) = t[1]
  BY ListFacts
<1>3. k # 1
  BY <1>1, <1>2
<1>4. 1 \in 1..k - 1 /\ k >= 1 + 1
  BY <1>2, <1>3
<1>5. Told(t, 1 + 1, S)
  BY <1>1, <1>4 DEF Told
<1> QED  BY <1>1, <1>2, <1>4, <1>5, ToldOn

LEMMA ToldSomething ==
  ASSUME NEW t, NEW S, Told(t, 1, S), AList(t)
  PROVE  t # <<>>
<1>1. PICK k \in DOMAIN t : TRUE
  BY DEF Told
<1>2. k \in 1..Len(t) /\ Len(t) \in Nat
  BY <1>1, ListFacts
<1>3. Len(t) # 0
  BY <1>2
<1> QED  BY <1>3

-----------------------------------------------------------------------------
LEMMA List1 ==
  ASSUME NEW a
  PROVE  /\ AList(<<a>>) /\ Len(<<a>>) = 1
         /\ <<a>>[1] = a
<1>1. <<a>> \in Seq({a})
  OBVIOUS
<1> QED  BY <1>1 DEF AList

LEMMA List2 ==
  ASSUME NEW a, NEW b
  PROVE  /\ AList(<<a, b>>) /\ Len(<<a, b>>) = 2
         /\ <<a, b>>[1] = a
         /\ <<a, b>>[2] = b
<1>1. <<a, b>> \in Seq({a, b})
  OBVIOUS
<1> QED  BY <1>1 DEF AList

LEMMA List3 ==
  ASSUME NEW a, NEW b, NEW c
  PROVE  /\ AList(<<a, b, c>>) /\ Len(<<a, b, c>>) = 3
         /\ <<a, b, c>>[1] = a
         /\ <<a, b, c>>[2] = b
         /\ <<a, b, c>>[3] = c
<1>1. <<a, b, c>> \in Seq({a, b, c})
  OBVIOUS
<1> QED  BY <1>1 DEF AList

LEMMA List4 ==
  ASSUME NEW a, NEW b, NEW c, NEW d
  PROVE  /\ AList(<<a, b, c, d>>) /\ Len(<<a, b, c, d>>) = 4
         /\ <<a, b, c, d>>[1] = a
         /\ <<a, b, c, d>>[2] = b
         /\ <<a, b, c, d>>[3] = c
         /\ <<a, b, c, d>>[4] = d
<1>1. <<a, b, c, d>> \in Seq({a, b, c, d})
  OBVIOUS
<1> QED  BY <1>1 DEF AList

LEMMA List5 ==
  ASSUME NEW a, NEW b, NEW c, NEW d, NEW e
  PROVE  /\ AList(<<a, b, c, d, e>>) /\ Len(<<a, b, c, d, e>>) = 5
         /\ <<a, b, c, d, e>>[1] = a
         /\ <<a, b, c, d, e>>[2] = b
         /\ <<a, b, c, d, e>>[3] = c
         /\ <<a, b, c, d, e>>[4] = d
         /\ <<a, b, c, d, e>>[5] = e
<1>1. <<a, b, c, d, e>> \in Seq({a, b, c, d, e})
  OBVIOUS
<1> QED  BY <1>1 DEF AList

LEMMA List6 ==
  ASSUME NEW a, NEW b, NEW c, NEW d, NEW e, NEW f
  PROVE  /\ AList(<<a, b, c, d, e, f>>) /\ Len(<<a, b, c, d, e, f>>) = 6
         /\ <<a, b, c, d, e, f>>[1] = a
         /\ <<a, b, c, d, e, f>>[2] = b
         /\ <<a, b, c, d, e, f>>[3] = c
         /\ <<a, b, c, d, e, f>>[4] = d
         /\ <<a, b, c, d, e, f>>[5] = e
         /\ <<a, b, c, d, e, f>>[6] = f
<1>1. <<a, b, c, d, e, f>> \in Seq({a, b, c, d, e, f})
  OBVIOUS
<1> QED  BY <1>1 DEF AList

LEMMA List7 ==
  ASSUME NEW a, NEW b, NEW c, NEW d, NEW e, NEW f, NEW g
  PROVE  /\ AList(<<a, b, c, d, e, f, g>>) /\ Len(<<a, b, c, d, e, f, g>>) = 7
         /\ <<a, b, c, d, e, f, g>>[1] = a
         /\ <<a, b, c, d, e, f, g>>[2] = b
         /\ <<a, b, c, d, e, f, g>>[3] = c
         /\ <<a, b, c, d, e, f, g>>[4] = d
         /\ <<a, b, c, d, e, f, g>>[5] = e
         /\ <<a, b, c, d, e, f, g>>[6] = f
         /\ <<a, b, c, d, e, f, g>>[7] = g
<1>1. <<a, b, c, d, e, f, g>> \in Seq({a, b, c, d, e, f, g})
  OBVIOUS
<1> QED  BY <1>1 DEF AList

LEMMA List8 ==
  ASSUME NEW a, NEW b, NEW c, NEW d, NEW e, NEW f, NEW g, NEW h
  PROVE  /\ AList(<<a, b, c, d, e, f, g, h>>) /\ Len(<<a, b, c, d, e, f, g, h>>) = 8
         /\ <<a, b, c, d, e, f, g, h>>[1] = a
         /\ <<a, b, c, d, e, f, g, h>>[2] = b
         /\ <<a, b, c, d, e, f, g, h>>[3] = c
         /\ <<a, b, c, d, e, f, g, h>>[4] = d
         /\ <<a, b, c, d, e, f, g, h>>[5] = e
         /\ <<a, b, c, d, e, f, g, h>>[6] = f
         /\ <<a, b, c, d, e, f, g, h>>[7] = g
         /\ <<a, b, c, d, e, f, g, h>>[8] = h
<1>1. <<a, b, c, d, e, f, g, h>> \in Seq({a, b, c, d, e, f, g, h})
  OBVIOUS
<1> QED  BY <1>1 DEF AList

LEMMA List9 ==
  ASSUME NEW a, NEW b, NEW c, NEW d, NEW e, NEW f, NEW g, NEW h, NEW i9
  PROVE  /\ AList(<<a, b, c, d, e, f, g, h, i9>>) /\ Len(<<a, b, c, d, e, f, g, h, i9>>) = 9
         /\ <<a, b, c, d, e, f, g, h, i9>>[1] = a
         /\ <<a, b, c, d, e, f, g, h, i9>>[2] = b
         /\ <<a, b, c, d, e, f, g, h, i9>>[3] = c
         /\ <<a, b, c, d, e, f, g, h, i9>>[4] = d
         /\ <<a, b, c, d, e, f, g, h, i9>>[5] = e
         /\ <<a, b, c, d, e, f, g, h, i9>>[6] = f
         /\ <<a, b, c, d, e, f, g, h, i9>>[7] = g
         /\ <<a, b, c, d, e, f, g, h, i9>>[8] = h
         /\ <<a, b, c, d, e, f, g, h, i9>>[9] = i9
<1>1. <<a, b, c, d, e, f, g, h, i9>> \in Seq({a, b, c, d, e, f, g, h, i9})
  OBVIOUS
<1> QED  BY <1>1 DEF AList

LEMMA List10 ==
  ASSUME NEW a, NEW b, NEW c, NEW d, NEW e, NEW f, NEW g, NEW h, NEW i9, NEW j9
  PROVE  /\ AList(<<a, b, c, d, e, f, g, h, i9, j9>>)
         /\ Len(<<a, b, c, d, e, f, g, h, i9, j9>>) = 10
         /\ <<a, b, c, d, e, f, g, h, i9, j9>>[1] = a
         /\ <<a, b, c, d, e, f, g, h, i9, j9>>[2] = b
         /\ <<a, b, c, d, e, f, g, h, i9, j9>>[3] = c
         /\ <<a, b, c, d, e, f, g, h, i9, j9>>[4] = d
         /\ <<a, b, c, d, e, f, g, h, i9, j9>>[5] = e
         /\ <<a, b, c, d, e, f, g, h, i9, j9>>[6] = f
         /\ <<a, b, c, d, e, f, g, h, i9, j9>>[7] = g
         /\ <<a, b, c, d, e, f, g, h, i9, j9>>[8] = h
         /\ <<a, b, c, d, e, f, g, h, i9, j9>>[9] = i9
         /\ <<a, b, c, d, e, f, g, h, i9, j9>>[10] = j9
<1>1. <<a, b, c, d, e, f, g, h, i9, j9>> \in Seq({a, b, c, d, e, f, g, h, i9, j9})
  OBVIOUS
<1> QED  BY <1>1 DEF AList

(* Stages that neither leave something to be told nor need anything.        *)
Plain(x) == x[1] # "call" /\ ~Asks(x) /\ Known(x)

LEMMA PlainStages ==
  /\ Plain(Barrier) /\ Quiet(Barrier)
  /\ Plain(Total) /\ Quiet(Total)
  /\ Plain(Share) /\ Quiet(Share)
  /\ \A x : Plain(Bcast(x)) /\ Quiet(Bcast(x))
  /\ Plain(Verify)
  /\ \A x : Plain(Sets(x))
<1>1. Plain(Barrier) /\ Quiet(Barrier)
  BY DEF Plain, Quiet, Asks, Known, Barrier
<1>2. Plain(Total) /\ Quiet(Total)
  BY DEF Plain, Quiet, Asks, Known, Total
<1>3. Plain(Share) /\ Quiet(Share)
  BY DEF Plain, Quiet, Asks, Known, Share
<1>4. ASSUME NEW x PROVE Plain(Bcast(x)) /\ Quiet(Bcast(x))
  BY DEF Plain, Quiet, Asks, Known, Bcast
<1>5. Plain(Verify)
  BY DEF Plain, Asks, Known, Verify
<1>6. ASSUME NEW x PROVE Plain(Sets(x))
  BY DEF Plain, Asks, Known, Sets
<1> QED  BY <1>1, <1>2, <1>3, <1>4, <1>5, <1>6

LEMMA PlainCalls ==
  ASSUME NEW f, NEW v
  PROVE  /\ Quiet(Call(f, v)) /\ Quiet(Checked(f, v)) /\ \A n : Quiet(Ask(f, v, n))
         /\ f \notin {"exists", "length", "attlen"} => Plain(Checked(f, v)) /\ ~Asks(Call(f, v))
         /\ Known(Call(f, v)) /\ Known(Checked(f, v)) /\ \A n : Known(Ask(f, v, n))
         /\ Checked(f, v)[1] = "checked" /\ \A n : Ask(f, v, n)[1] = "ask"
<1>1. Quiet(Call(f, v)) /\ Quiet(Checked(f, v)) /\ \A n : Quiet(Ask(f, v, n))
  BY DEF Quiet, Call, Checked, Ask
<1>2. Known(Call(f, v)) /\ Known(Checked(f, v)) /\ \A n : Known(Ask(f, v, n))
  BY DEF Known, Call, Checked, Ask
<1>3. f \notin {"exists", "length", "attlen"} => Plain(Checked(f, v)) /\ ~Asks(Call(f, v))
  BY <1>2 DEF Plain, Asks, Call, Checked
<1>4. Checked(f, v)[1] = "checked" /\ \A n : Ask(f, v, n)[1] = "ask"
  BY DEF Checked, Ask
<1> QED  BY <1>1, <1>2, <1>3, <1>4

LEMMA PlainWords ==
  ASSUME NEW x
  PROVE  x \in {"redef", "enddef", "flush", "pop", "send", "await", "count", "textifread"}
           => Plain(<<x>>)
BY DEF Plain, Asks, Known

LEMMA PlainWaits ==
  ASSUME NEW x, NEW y PROVE Plain(<<"all", x>>) /\ Plain(<<"let", x, y>>)
    /\ Plain(<<"delay", x, y>>) /\ Plain(<<"write", x, y>>) /\ Plain(<<"fetch", x>>)
    /\ Plain(<<"receive", x>>) /\ Plain(<<"reply", x>>)
<1>1. Plain(<<"all", x>>)
  BY DEF Plain, Asks, Known
<1>2. Plain(<<"let", x, y>>)
  BY DEF Plain, Asks, Known
<1>3. Plain(<<"delay", x, y>>)
  BY DEF Plain, Asks, Known
<1>4. Plain(<<"write", x, y>>)
  BY DEF Plain, Asks, Known
<1>5. Plain(<<"fetch", x>>)
  BY DEF Plain, Asks, Known
<1>6. Plain(<<"receive", x>>)
  BY DEF Plain, Asks, Known
<1>7. Plain(<<"reply", x>>)
  BY DEF Plain, Asks, Known
<1> QED  BY <1>1, <1>2, <1>3, <1>4, <1>5, <1>6, <1>7

LEMMA PlainNested ==
  ASSUME NEW b, Nested(b) PROVE Plain(<<"if", b>>) /\ Plain(<<"unless", b>>)
<1>1. Plain(<<"if", b>>)
  BY DEF Plain, Asks, Known
<1>2. Plain(<<"unless", b>>)
  BY DEF Plain, Asks, Known
<1> QED  BY <1>1, <1>2

LEMMA PlainIsGood ==
  ASSUME NEW t, AList(t), \A i \in 1..Len(t) : Plain(t[i])
  PROVE  Good(t)
<1>1. DOMAIN t = 1..Len(t)
  BY ListFacts
<1> QED  BY <1>1 DEF Good, Settled, Plain

LEMMA OneCallIsGood ==
  ASSUME NEW t, AList(t), NEW j \in 1..Len(t), Known(t[j]),
         \A i \in 1..Len(t) : i # j => Plain(t[i]),
         t[j][1] = "call" => Told(t, j + 1, Statuses),
         Asks(t[j]) => Told(t, j + 1, Answers)
  PROVE  Good(t)
<1>1. DOMAIN t = 1..Len(t)
  BY ListFacts
<1> QED  BY <1>1 DEF Good, Settled, Plain

LEMMA OneIsGood ==
  ASSUME NEW x, Plain(x) PROVE Good(<<x>>)
BY List1, PlainIsGood

LEMMA EmptyIsGood == Good(<<>>)
<1>1. <<>> \in Seq({})
  OBVIOUS
<1> QED  BY <1>1 DEF Good, Settled, AList

(* Each operation of NC3File.                                               *)
LEMMA ToldAt ==
  ASSUME NEW t, AList(t), NEW S, NEW i, NEW k \in 1..Len(t), k >= i, t[k] \in S,
         \A m \in i..k - 1 : Quiet(t[m])
  PROVE  Told(t, i, S)
BY ListFacts DEF Told

LEMMA GoodMoveIfExists == Good(MoveIfExists)
<1>1. /\ AList(MoveIfExists) /\ Len(MoveIfExists) = 3
      /\ MoveIfExists[1] = Call("move", "file")
      /\ MoveIfExists[2] = Total
      /\ MoveIfExists[3] = Verify
  BY List3 DEF MoveIfExists
<1>2. Plain(MoveIfExists[2]) /\ Plain(MoveIfExists[3])
  BY <1>1, PlainStages, PlainCalls
<1>3. Known(MoveIfExists[1])
  BY <1>1, PlainCalls
<1>5. MoveIfExists[2] \in Statuses
  BY <1>1 DEF Statuses
<1>6. Told(MoveIfExists, 2, Statuses)
  <2>1. \A m \in 2..2 - 1 : Quiet(MoveIfExists[m])
    BY <1>1
  <2>2. 2 \in 1..Len(MoveIfExists) /\ 2 >= 2
    BY <1>1
  <2> QED  BY <2>1, <2>2, <1>1, <1>5, ToldAt
<1>7. ~Asks(MoveIfExists[1])
  BY <1>1, PlainCalls
<1>8. \A i \in 1..Len(MoveIfExists) : i # 1 => Plain(MoveIfExists[i])
  BY <1>1, <1>2
<1>9. 1 \in 1..Len(MoveIfExists) /\ 1 + 1 = 2
  BY <1>1
<1> QED  BY <1>1, <1>3, <1>6, <1>7, <1>8, <1>9, OneCallIsGood

LEMMA GoodTry ==
  ASSUME NEW f, f \notin {"exists", "length", "attlen"}
  PROVE  Good(Try(f))
<1>1. /\ AList(Try(f)) /\ Len(Try(f)) = 5
      /\ Try(f)[1] = Call(f, "file")
      /\ Try(f)[2] = Barrier
      /\ Try(f)[3] = Bcast("answer")
      /\ Try(f)[4] = Share
      /\ Try(f)[5] = Verify
  BY List5 DEF Try
<1>2. Plain(Try(f)[2]) /\ Plain(Try(f)[3]) /\ Plain(Try(f)[4]) /\ Plain(Try(f)[5])
  BY <1>1, PlainStages, PlainCalls
<1>3. Known(Try(f)[1])
  BY <1>1, PlainCalls
<1>4. Quiet(Try(f)[2]) /\ Quiet(Try(f)[3])
  BY <1>1, PlainStages
<1>5. Try(f)[4] \in Statuses
  BY <1>1 DEF Statuses
<1>6. Told(Try(f), 2, Statuses)
  <2>1. \A m \in 2..4 - 1 : Quiet(Try(f)[m])
    BY <1>1, <1>4
  <2>2. 4 \in 1..Len(Try(f)) /\ 4 >= 2
    BY <1>1
  <2> QED  BY <2>1, <2>2, <1>1, <1>5, ToldAt
<1>7. ~Asks(Try(f)[1])
  BY <1>1, PlainCalls
<1>8. \A i \in 1..Len(Try(f)) : i # 1 => Plain(Try(f)[i])
  BY <1>1, <1>2
<1>9. 1 \in 1..Len(Try(f)) /\ 1 + 1 = 2
  BY <1>1
<1> QED  BY <1>1, <1>3, <1>6, <1>7, <1>8, <1>9, OneCallIsGood

LEMMA GoodSetFill == Good(SetFill)
<1>1. /\ AList(SetFill) /\ Len(SetFill) = 5
      /\ SetFill[1] = Checked("fill", "file")
      /\ SetFill[2] = Barrier
      /\ SetFill[3] = Bcast("answer")
      /\ SetFill[4] = Share
      /\ SetFill[5] = Verify
  BY List5 DEF SetFill
<1>2. /\ Plain(SetFill[1]) /\ Plain(SetFill[2]) /\ Plain(SetFill[3])
      /\ Plain(SetFill[4]) /\ Plain(SetFill[5])
  BY <1>1, PlainStages, PlainCalls
<1>3. \A i \in 1..Len(SetFill) : Plain(SetFill[i])
  BY <1>1, <1>2
<1> QED  BY <1>1, <1>3, PlainIsGood

LEMMA GoodGetFormat == Good(GetFormat)
<1>1. /\ AList(GetFormat) /\ Len(GetFormat) = 3
      /\ GetFormat[1] = Checked("format", "file")
      /\ GetFormat[2] = Barrier
      /\ GetFormat[3] = Bcast("answer")
  BY List3 DEF GetFormat
<1>2. Plain(GetFormat[1]) /\ Plain(GetFormat[2]) /\ Plain(GetFormat[3])
  BY <1>1, PlainStages, PlainCalls
<1>3. \A i \in 1..Len(GetFormat) : Plain(GetFormat[i])
  BY <1>1, <1>2
<1> QED  BY <1>1, <1>3, PlainIsGood

LEMMA GoodEnddefImpl == Good(EnddefImpl)
<1>1. /\ AList(EnddefImpl) /\ Len(EnddefImpl) = 5
      /\ EnddefImpl[1] = Checked("enddef", "file")
      /\ EnddefImpl[2] = Barrier
      /\ EnddefImpl[3] = Share
      /\ EnddefImpl[4] = Verify
      /\ EnddefImpl[5] = Sets("data")
  BY List5 DEF EnddefImpl
<1>2. /\ Plain(EnddefImpl[1]) /\ Plain(EnddefImpl[2]) /\ Plain(EnddefImpl[3])
      /\ Plain(EnddefImpl[4]) /\ Plain(EnddefImpl[5])
  BY <1>1, PlainStages, PlainCalls
<1>3. \A i \in 1..Len(EnddefImpl) : Plain(EnddefImpl[i])
  BY <1>1, <1>2
<1> QED  BY <1>1, <1>3, PlainIsGood

LEMMA GoodRedefImpl == Good(RedefImpl)
<1>1. /\ AList(RedefImpl) /\ Len(RedefImpl) = 5
      /\ RedefImpl[1] = Call("redef", "file")
      /\ RedefImpl[2] = Barrier
      /\ RedefImpl[3] = Share
      /\ RedefImpl[4] = Verify
      /\ RedefImpl[5] = Sets("define")
  BY List5 DEF RedefImpl
<1>2. Plain(RedefImpl[2]) /\ Plain(RedefImpl[3]) /\ Plain(RedefImpl[4]) /\ Plain(RedefImpl[5])
  BY <1>1, PlainStages, PlainCalls
<1>3. Known(RedefImpl[1])
  BY <1>1, PlainCalls
<1>4. Quiet(RedefImpl[2])
  BY <1>1, PlainStages
<1>5. RedefImpl[3] \in Statuses
  BY <1>1 DEF Statuses
<1>6. Told(RedefImpl, 2, Statuses)
  <2>1. \A m \in 2..3 - 1 : Quiet(RedefImpl[m])
    BY <1>1, <1>4
  <2>2. 3 \in 1..Len(RedefImpl) /\ 3 >= 2
    BY <1>1
  <2> QED  BY <2>1, <2>2, <1>1, <1>5, ToldAt
<1>7. ~Asks(RedefImpl[1])
  BY <1>1, PlainCalls
<1>8. \A i \in 1..Len(RedefImpl) : i # 1 => Plain(RedefImpl[i])
  BY <1>1, <1>2
<1>9. 1 \in 1..Len(RedefImpl) /\ 1 + 1 = 2
  BY <1>1
<1> QED  BY <1>1, <1>3, <1>6, <1>7, <1>8, <1>9, OneCallIsGood

LEMMA GoodDefDim == Good(DefDim)
<1>1. /\ AList(DefDim) /\ Len(DefDim) = 4
      /\ DefDim[1] = Checked("def", "dim")
      /\ DefDim[2] = Barrier
      /\ DefDim[3] = Share
      /\ DefDim[4] = Verify
  BY List4 DEF DefDim
<1>2. Plain(DefDim[1]) /\ Plain(DefDim[2]) /\ Plain(DefDim[3]) /\ Plain(DefDim[4])
  BY <1>1, PlainStages, PlainCalls
<1>3. \A i \in 1..Len(DefDim) : Plain(DefDim[i])
  BY <1>1, <1>2
<1> QED  BY <1>1, <1>3, PlainIsGood

LEMMA GoodDefVar ==
  ASSUME NEW v
  PROVE  Good(DefVar(v))
<1>1. /\ AList(DefVar(v)) /\ Len(DefVar(v)) = 5
      /\ DefVar(v)[1] = Checked("inq", "dim")
      /\ DefVar(v)[2] = Checked("def", v)
      /\ DefVar(v)[3] = Barrier
      /\ DefVar(v)[4] = Share
      /\ DefVar(v)[5] = Verify
  BY List5 DEF DefVar
<1>2. /\ Plain(DefVar(v)[1]) /\ Plain(DefVar(v)[2]) /\ Plain(DefVar(v)[3])
      /\ Plain(DefVar(v)[4]) /\ Plain(DefVar(v)[5])
  BY <1>1, PlainStages, PlainCalls
<1>3. \A i \in 1..Len(DefVar(v)) : Plain(DefVar(v)[i])
  BY <1>1, <1>2
<1> QED  BY <1>1, <1>3, PlainIsGood

LEMMA GoodInqDimid ==
  ASSUME NEW v
  PROVE  Good(InqDimid(v))
<1>1. /\ AList(InqDimid(v)) /\ Len(InqDimid(v)) = 3
      /\ InqDimid(v)[1] = Ask("exists", v, 0)
      /\ InqDimid(v)[2] = Barrier
      /\ InqDimid(v)[3] = Bcast("answer")
  BY List3 DEF InqDimid
<1>2. Plain(InqDimid(v)[2]) /\ Plain(InqDimid(v)[3])
  BY <1>1, PlainStages, PlainCalls
<1>3. Known(InqDimid(v)[1]) /\ InqDimid(v)[1][1] # "call"
  BY <1>1, PlainCalls
<1>4. Quiet(InqDimid(v)[2])
  BY <1>1, PlainStages
<1>5. InqDimid(v)[3] \in Answers
  BY <1>1 DEF Answers
<1>6. Told(InqDimid(v), 2, Answers)
  <2>1. \A m \in 2..3 - 1 : Quiet(InqDimid(v)[m])
    BY <1>1, <1>4
  <2>2. 3 \in 1..Len(InqDimid(v)) /\ 3 >= 2
    BY <1>1
  <2> QED  BY <2>1, <2>2, <1>1, <1>5, ToldAt
<1>8. \A i \in 1..Len(InqDimid(v)) : i # 1 => Plain(InqDimid(v)[i])
  BY <1>1, <1>2
<1>9. 1 \in 1..Len(InqDimid(v)) /\ 1 + 1 = 2
  BY <1>1
<1> QED  BY <1>1, <1>3, <1>6, <1>8, <1>9, OneCallIsGood

LEMMA GoodInqDimlen == Good(InqDimlen)
<1>1. /\ AList(InqDimlen) /\ Len(InqDimlen) = 6
      /\ InqDimlen[1] = Checked("inq", "dim")
      /\ InqDimlen[2] = Checked("length", "file")
      /\ InqDimlen[3] = Barrier
      /\ InqDimlen[4] = Bcast("answer")
      /\ InqDimlen[5] = Share
      /\ InqDimlen[6] = Verify
  BY List6 DEF InqDimlen
<1>2. /\ Plain(InqDimlen[1]) /\ Plain(InqDimlen[3]) /\ Plain(InqDimlen[4])
      /\ Plain(InqDimlen[5]) /\ Plain(InqDimlen[6])
  BY <1>1, PlainStages, PlainCalls
<1>3. Known(InqDimlen[2]) /\ InqDimlen[2][1] # "call"
  BY <1>1, PlainCalls
<1>4. Quiet(InqDimlen[3])
  BY <1>1, PlainStages
<1>5. InqDimlen[4] \in Answers
  BY <1>1 DEF Answers
<1>6. Told(InqDimlen, 3, Answers)
  <2>1. \A m \in 3..4 - 1 : Quiet(InqDimlen[m])
    BY <1>1, <1>4
  <2>2. 4 \in 1..Len(InqDimlen) /\ 4 >= 3
    BY <1>1
  <2> QED  BY <2>1, <2>2, <1>1, <1>5, ToldAt
<1>8. \A i \in 1..Len(InqDimlen) : i # 2 => Plain(InqDimlen[i])
  BY <1>1, <1>2
<1>9. 2 \in 1..Len(InqDimlen) /\ 2 + 1 = 3
  BY <1>1
<1> QED  BY <1>1, <1>3, <1>6, <1>8, <1>9, OneCallIsGood

LEMMA GoodInqVarid ==
  ASSUME NEW v
  PROVE  Good(InqVarid(v))
<1>1. /\ AList(InqVarid(v)) /\ Len(InqVarid(v)) = 3
      /\ InqVarid(v)[1] = Ask("exists", v, 0)
      /\ InqVarid(v)[2] = Barrier
      /\ InqVarid(v)[3] = Bcast("answer")
  BY List3 DEF InqVarid
<1>2. Plain(InqVarid(v)[2]) /\ Plain(InqVarid(v)[3])
  BY <1>1, PlainStages, PlainCalls
<1>3. Known(InqVarid(v)[1]) /\ InqVarid(v)[1][1] # "call"
  BY <1>1, PlainCalls
<1>4. Quiet(InqVarid(v)[2])
  BY <1>1, PlainStages
<1>5. InqVarid(v)[3] \in Answers
  BY <1>1 DEF Answers
<1>6. Told(InqVarid(v), 2, Answers)
  <2>1. \A m \in 2..3 - 1 : Quiet(InqVarid(v)[m])
    BY <1>1, <1>4
  <2>2. 3 \in 1..Len(InqVarid(v)) /\ 3 >= 2
    BY <1>1
  <2> QED  BY <2>1, <2>2, <1>1, <1>5, ToldAt
<1>8. \A i \in 1..Len(InqVarid(v)) : i # 1 => Plain(InqVarid(v)[i])
  BY <1>1, <1>2
<1>9. 1 \in 1..Len(InqVarid(v)) /\ 1 + 1 = 2
  BY <1>1
<1> QED  BY <1>1, <1>3, <1>6, <1>8, <1>9, OneCallIsGood

LEMMA GoodInqNvars == Good(InqNvars)
<1>1. /\ AList(InqNvars) /\ Len(InqNvars) = 3
      /\ InqNvars[1] = Checked("inq", "file")
      /\ InqNvars[2] = Barrier
      /\ InqNvars[3] = Bcast("answer")
  BY List3 DEF InqNvars
<1>2. Plain(InqNvars[1]) /\ Plain(InqNvars[2]) /\ Plain(InqNvars[3])
  BY <1>1, PlainStages, PlainCalls
<1>3. \A i \in 1..Len(InqNvars) : Plain(InqNvars[i])
  BY <1>1, <1>2
<1> QED  BY <1>1, <1>3, PlainIsGood

LEMMA GoodInqVarname == Good(InqVarname)
<1>1. /\ AList(InqVarname) /\ Len(InqVarname) = 5
      /\ InqVarname[1] = Checked("inq", "file")
      /\ InqVarname[2] = Barrier
      /\ InqVarname[3] = Share
      /\ InqVarname[4] = Bcast("text")
      /\ InqVarname[5] = Verify
  BY List5 DEF InqVarname
<1>2. /\ Plain(InqVarname[1]) /\ Plain(InqVarname[2]) /\ Plain(InqVarname[3])
      /\ Plain(InqVarname[4]) /\ Plain(InqVarname[5])
  BY <1>1, PlainStages, PlainCalls
<1>3. \A i \in 1..Len(InqVarname) : Plain(InqVarname[i])
  BY <1>1, <1>2
<1> QED  BY <1>1, <1>3, PlainIsGood

LEMMA GoodInqVardimid ==
  ASSUME NEW v
  PROVE  Good(InqVardimid(v))
<1>1. /\ AList(InqVardimid(v)) /\ Len(InqVardimid(v)) = 8
      /\ InqVardimid(v)[1] = Checked("inq", v)
      /\ InqVardimid(v)[2] = Checked("inq", v)
      /\ InqVardimid(v)[3] = Bcast("answer")
      /\ InqVardimid(v)[4] = Checked("inq", v)
      /\ InqVardimid(v)[5] = Barrier
      /\ InqVardimid(v)[6] = Checked("inq", v)
      /\ InqVardimid(v)[7] = Barrier
      /\ InqVardimid(v)[8] = Bcast("text")
  BY List8 DEF InqVardimid
<1>2. /\ Plain(InqVardimid(v)[1]) /\ Plain(InqVardimid(v)[2]) /\ Plain(InqVardimid(v)[3])
      /\ Plain(InqVardimid(v)[4]) /\ Plain(InqVardimid(v)[5]) /\ Plain(InqVardimid(v)[6])
      /\ Plain(InqVardimid(v)[7]) /\ Plain(InqVardimid(v)[8])
  BY <1>1, PlainStages, PlainCalls
<1>3. \A i \in 1..Len(InqVardimid(v)) : Plain(InqVardimid(v)[i])
  BY <1>1, <1>2
<1> QED  BY <1>1, <1>3, PlainIsGood

LEMMA GoodReadText ==
  ASSUME NEW v
  PROVE  Good(ReadText(v))
<1>1. /\ AList(ReadText(v)) /\ Len(ReadText(v)) = 3
      /\ ReadText(v)[1] = Call("text", v)
      /\ ReadText(v)[2] = Share
      /\ ReadText(v)[3] = <<"textifread">>
  BY List3 DEF ReadText
<1>2. Plain(ReadText(v)[2]) /\ Plain(ReadText(v)[3])
  BY <1>1, PlainStages, PlainCalls, PlainWords
<1>3. Known(ReadText(v)[1])
  BY <1>1, PlainCalls
<1>5. ReadText(v)[2] \in Statuses
  BY <1>1 DEF Statuses
<1>6. Told(ReadText(v), 2, Statuses)
  <2>1. \A m \in 2..2 - 1 : Quiet(ReadText(v)[m])
    BY <1>1
  <2>2. 2 \in 1..Len(ReadText(v)) /\ 2 >= 2
    BY <1>1
  <2> QED  BY <2>1, <2>2, <1>1, <1>5, ToldAt
<1>7. ~Asks(ReadText(v)[1])
  BY <1>1, PlainCalls
<1>8. \A i \in 1..Len(ReadText(v)) : i # 1 => Plain(ReadText(v)[i])
  BY <1>1, <1>2
<1>9. 1 \in 1..Len(ReadText(v)) /\ 1 + 1 = 2
  BY <1>1
<1> QED  BY <1>1, <1>3, <1>6, <1>7, <1>8, <1>9, OneCallIsGood

LEMMA GoodGetAttText ==
  ASSUME NEW v, NEW length
  PROVE  Good(GetAttText(v, length))
<1>1. /\ AList(GetAttText(v, length)) /\ Len(GetAttText(v, length)) = 4
      /\ GetAttText(v, length)[1] = Checked("inq", v)
      /\ GetAttText(v, length)[2] = Ask("attlen", v, length)
      /\ GetAttText(v, length)[3] = Bcast("answer")
      /\ GetAttText(v, length)[4] = <<"if", ReadText(v)>>
  BY List4 DEF GetAttText
<1>n. Nested(ReadText(v))
  BY DEF Nested
<1>2. /\ Plain(GetAttText(v, length)[1]) /\ Plain(GetAttText(v, length)[3]) /\ Plain(GetAttText(v, length)[4])
  BY <1>1, PlainStages, PlainCalls, PlainNested, <1>n
<1>3. Known(GetAttText(v, length)[2]) /\ GetAttText(v, length)[2][1] # "call"
  BY <1>1, PlainCalls
<1>5. GetAttText(v, length)[3] \in Answers
  BY <1>1 DEF Answers
<1>6. Told(GetAttText(v, length), 3, Answers)
  <2>1. \A m \in 3..3 - 1 : Quiet(GetAttText(v, length)[m])
    BY <1>1
  <2>2. 3 \in 1..Len(GetAttText(v, length)) /\ 3 >= 3
    BY <1>1
  <2> QED  BY <2>1, <2>2, <1>1, <1>5, ToldAt
<1>8. \A i \in 1..Len(GetAttText(v, length)) : i # 2 => Plain(GetAttText(v, length)[i])
  BY <1>1, <1>2
<1>9. 2 \in 1..Len(GetAttText(v, length)) /\ 2 + 1 = 3
  BY <1>1
<1> QED  BY <1>1, <1>3, <1>6, <1>8, <1>9, OneCallIsGood

LEMMA GoodPutAtt ==
  ASSUME NEW v
  PROVE  Good(PutAtt(v))
<1>1. /\ AList(PutAtt(v)) /\ Len(PutAtt(v)) = 6
      /\ PutAtt(v)[1] = <<"redef">>
      /\ PutAtt(v)[2] = Checked("inq", v)
      /\ PutAtt(v)[3] = Checked("att", v)
      /\ PutAtt(v)[4] = Barrier
      /\ PutAtt(v)[5] = Share
      /\ PutAtt(v)[6] = Verify
  BY List6 DEF PutAtt
<1>2. /\ Plain(PutAtt(v)[1]) /\ Plain(PutAtt(v)[2]) /\ Plain(PutAtt(v)[3])
      /\ Plain(PutAtt(v)[4]) /\ Plain(PutAtt(v)[5]) /\ Plain(PutAtt(v)[6])
  BY <1>1, PlainStages, PlainCalls, PlainWords
<1>3. \A i \in 1..Len(PutAtt(v)) : Plain(PutAtt(v)[i])
  BY <1>1, <1>2
<1> QED  BY <1>1, <1>3, PlainIsGood

(* The operations of PIO and io_helpers, and what IceModel does.            *)
LEMMA GoodGather ==
  ASSUME NEW v, NEW s PROVE Good(Gather(v, s))
<1>1. Size \in Nat
  BY FileAssumption
<1> DEFINE E == {<<"receive", q>> : q \in Int}
                  \union {<<"checked", "put", v, s, q>> : q \in Int}
<1>2. Gather(v, s) \in Seq(E) /\ Len(Gather(v, s)) = 2 * Size
  <2>1. 2 * Size \in Nat
    BY <1>1
  <2>2. Gather(v, s) \in [1..2 * Size -> E]
    BY <1>1 DEF Gather
  <2> HIDE DEF E
  <2> QED  BY <2>1, <2>2
<1>3. ASSUME NEW i \in 1..2 * Size PROVE Plain(Gather(v, s)[i])
  <2>1. PICK q : Gather(v, s)[i] \in {<<"receive", q>>, <<"checked", "put", v, s, q>>}
    BY DEF Gather
  <2>2. Plain(<<"checked", "put", v, s, q>>)
    BY DEF Plain, Asks, Known
  <2> QED  BY <2>1, <2>2, PlainWaits
<1>4. AList(Gather(v, s))
  BY <1>2 DEF AList
<1> QED  BY <1>2, <1>3, <1>4, PlainIsGood

LEMMA GoodServe ==
  ASSUME NEW v PROVE Good(Serve(v, Size))
<1>1. Size \in Nat
  BY FileAssumption
<1> DEFINE E == {<<"receive", q>> : q \in Int} \union {Checked("get", v)}
                  \union {<<"reply", q>> : q \in Int}
<1>2. ASSUME NEW k \in 1..3 * Size
      PROVE  \E q \in Int : Serve(v, Size)[k] \in
                              {<<"receive", q>>, Checked("get", v), <<"reply", q>>}
  <2>1. PICK q \in Int : q = (k - 1) \div 3
    BY <1>1
  <2>2. Serve(v, Size)[k] = CASE k % 3 = 1 -> <<"receive", q>>
                              [] k % 3 = 2 -> Checked("get", v)
                              [] k % 3 = 0 -> <<"reply", q>>
    BY <2>1 DEF Serve
  <2>3. k % 3 = 1 \/ k % 3 = 2 \/ k % 3 = 0
    BY <1>1
  <2>4. Serve(v, Size)[k] \in {<<"receive", q>>, Checked("get", v), <<"reply", q>>}
    BY <2>2, <2>3
  <2> QED  BY <2>4
<1>3. Serve(v, Size) \in Seq(E) /\ Len(Serve(v, Size)) = 3 * Size
  <2>1. 3 * Size \in Nat
    BY <1>1
  <2>2. ASSUME NEW k \in 1..3 * Size PROVE Serve(v, Size)[k] \in E
    <3>1. PICK q \in Int : Serve(v, Size)[k] \in
                             {<<"receive", q>>, Checked("get", v), <<"reply", q>>}
      BY <1>2
    <3> QED  BY <3>1
  <2>3. Serve(v, Size) = [k \in 1..3 * Size |-> Serve(v, Size)[k]]
    BY DEF Serve
  <2>4. Serve(v, Size) \in [1..3 * Size -> E]
    BY <2>2, <2>3
  <2> HIDE DEF E
  <2> QED  BY <2>1, <2>4
<1>4. ASSUME NEW i \in 1..3 * Size PROVE Plain(Serve(v, Size)[i])
  <2>1. PICK q \in Int : Serve(v, Size)[i] \in
                           {<<"receive", q>>, Checked("get", v), <<"reply", q>>}
    BY <1>2
  <2>2. Plain(<<"receive", q>>) /\ Plain(<<"reply", q>>)
    BY PlainWaits
  <2>3. Plain(Checked("get", v))
    BY PlainCalls
  <2> QED  BY <2>1, <2>2, <2>3
<1>5. AList(Serve(v, Size))
  BY <1>3 DEF AList
<1> QED  BY <1>3, <1>4, <1>5, PlainIsGood

(* Stages one by one. *)
LEMMA GoodTwo ==
  ASSUME NEW x, NEW y, Plain(x), Plain(y) PROVE Good(<<x, y>>)
<1>1. AList(<<x, y>>) /\ Len(<<x, y>>) = 2 /\ <<x, y>>[1] = x /\ <<x, y>>[2] = y
  BY List2
<1>2. \A i \in 1..Len(<<x, y>>) : Plain(<<x, y>>[i])
  BY <1>1
<1> QED  BY <1>1, <1>2, PlainIsGood

LEMMA GoodThree ==
  ASSUME NEW x, NEW y, NEW z, Plain(x), Plain(y), Plain(z) PROVE Good(<<x, y, z>>)
<1>1. /\ AList(<<x, y, z>>) /\ Len(<<x, y, z>>) = 3
      /\ <<x, y, z>>[1] = x /\ <<x, y, z>>[2] = y /\ <<x, y, z>>[3] = z
  BY List3
<1>2. \A i \in 1..Len(<<x, y, z>>) : Plain(<<x, y, z>>[i])
  BY <1>1
<1> QED  BY <1>1, <1>2, PlainIsGood

LEMMA GoodFour ==
  ASSUME NEW w, NEW x, NEW y, NEW z, Plain(w), Plain(x), Plain(y), Plain(z)
  PROVE  Good(<<w, x, y, z>>)
<1>1. /\ AList(<<w, x, y, z>>) /\ Len(<<w, x, y, z>>) = 4
      /\ <<w, x, y, z>>[1] = w /\ <<w, x, y, z>>[2] = x
      /\ <<w, x, y, z>>[3] = y /\ <<w, x, y, z>>[4] = z
  BY List4
<1>2. \A i \in 1..Len(<<w, x, y, z>>) : Plain(<<w, x, y, z>>[i])
  BY <1>1
<1> QED  BY <1>1, <1>2, PlainIsGood

LEMMA GoodPutVar ==
  ASSUME NEW v, NEW s PROVE Good(PutVar(v, s))
<1>1. Good(<<<<"all", "reduce">>, Checked("inq", v)>>)
  BY GoodTwo, PlainWaits, PlainCalls
<1>2. Good(<<<<"send">>, Verify, <<"count">>>>)
  BY GoodThree, PlainWords, PlainStages
<1> QED  BY <1>1, <1>2, GoodGather, GoodJoin DEF PutVar

LEMMA GoodGetVar ==
  ASSUME NEW v PROVE Good(GetVar(v))
<1>1. Good(<<<<"all", "reduce">>, Checked("inq", v)>>)
  BY GoodTwo, PlainWaits, PlainCalls
<1>2. Good(<<<<"send">>, <<"await">>, Verify, <<"count">>>>)
  BY GoodFour, PlainWords, PlainStages
<1> QED  BY <1>1, <1>2, GoodServe, GoodJoin DEF GetVar

LEMMA GoodRedef == Good(Redef) /\ Good(Enddef)
BY OneIsGood, GoodTwo, PlainWords DEF Redef, Enddef

LEMMA GoodCreateFile == Good(CreateFile)
<1>1. Good(Create)
  BY GoodTry, OneIsGood, PlainStages, GoodJoin DEF Create
<1> QED  BY <1>1, GoodMoveIfExists, GoodSetFill, GoodJoin DEF CreateFile

LEMMA GoodOpenFile == Good(Open) /\ Good(OpenFile)
<1>1. Good(Open)
  BY GoodTry, OneIsGood, PlainStages, GoodJoin DEF Open
<1> QED  BY <1>1, GoodSetFill, GoodJoin DEF OpenFile

LEMMA GoodCloseFile == Good(CloseFile)
<1>1. Good(Close)
  BY GoodTry, OneIsGood, PlainStages, GoodJoin DEF Close
<1>2. Good(<<<<"flush">>>>)
  BY OneIsGood, PlainWords
<1> QED  BY <1>1, <1>2, GoodJoin DEF CloseFile

LEMMA GoodOpenToRead == Good(OpenToRead)
<1>1. Good(Try("open")) /\ Good(Try("close"))
  BY GoodTry
<1> QED  BY <1>1, GoodGetFormat, GoodOpenFile, GoodJoin DEF OpenToRead, DetectMode

LEMMA GoodWriteAttributes ==
  ASSUME NEW v PROVE Good(WriteAttributes(v))
BY GoodRedef, GoodPutAtt, GoodJoin DEF WriteAttributes

LEMMA GoodDefineDimension ==
  ASSUME NEW v PROVE Good(DefineDimension(v))
BY GoodRedef, GoodDefDim, GoodDefVar, GoodWriteAttributes, GoodJoin DEF DefineDimension

LEMMA GoodUnder ==
  ASSUME NEW b, Nested(b) PROVE Good(<<<<"if", b>>>>) /\ Good(<<<<"unless", b>>>>)
BY OneIsGood, PlainNested

LEMMA GoodInqDimlenIfThere == Good(InqDimlenIfThere)
<1>1. Nested(InqDimlen)
  BY DEF Nested
<1> QED  BY <1>1, GoodUnder, GoodInqDimid, GoodJoin DEF InqDimlenIfThere

LEMMA GoodDefineTime == Good(DefineTime)
<1>1. Nested(DefineDimension("time"))
  BY DEF Nested
<1> QED  BY <1>1, GoodUnder, GoodInqVarid, GoodJoin DEF DefineTime

LEMMA GoodAppendTime == Good(AppendTime)
<1>1. Good(<<<<"let", "start", 0>>, <<"delay", "time", "start">>>>)
  BY GoodTwo, PlainWaits
<1> QED  BY <1>1, GoodInqDimlenIfThere, GoodJoin DEF AppendTime

LEMMA GoodDefineDimensions == Good(DefineDimensions)
<1>1. Nested(DefineDimension("x") \o <<<<"delay", "x", "zero">>>>)
  BY DEF Nested
<1> QED  BY <1>1, GoodUnder, GoodInqDimid, GoodJoin DEF DefineDimensions

LEMMA GoodDefineSpatialVariable ==
  ASSUME NEW v PROVE Good(DefineSpatialVariable(v))
<1>1. Nested(DefineDimensions \o Redef \o DefVar(v) \o WriteAttributes(v))
  BY DEF Nested
<1> QED  BY <1>1, GoodUnder, GoodInqVarid, GoodJoin DEF DefineSpatialVariable

LEMMA GoodInqDimtype == Good(InqDimtype)
BY GoodInqVarid, GoodGetAttText, GoodJoin DEF InqDimtype

LEMMA GoodStartAndCount ==
  ASSUME NEW v PROVE Good(ComputeStartAndCount(v)) /\ Good(UseMappedIO(v))
BY GoodInqVardimid, GoodInqDimtype, GoodJoin DEF ComputeStartAndCount, UseMappedIO

LEMMA GoodPutVec ==
  ASSUME NEW v PROVE Good(PutVec(v))
<1>1. Good(<<<<"let", "last", 1>>>>)
  BY OneIsGood, PlainWaits
<1>2. Good(<<<<"enddef">>, <<"write", v, "last">>>>)
  BY GoodTwo, PlainWords, PlainWaits
<1> QED  BY <1>1, <1>2, GoodRedef, GoodInqDimlenIfThere, GoodStartAndCount, GoodJoin
         DEF PutVec

LEMMA GoodInqVar ==
  ASSUME NEW v PROVE Good(InqVar(v))
<1>1. Nested(InqVarid(v))
  BY DEF Nested
<1>2. Good(<<<<"unless", InqVarid(v)>>>>)
  BY <1>1, GoodUnder
<1>3. Good(GetAttText("time", 0)) /\ Good(GetAttText(v, 1))
  BY GoodGetAttText
<1> QED  BY <1>2, <1>3, GoodInqNvars, GoodInqVarname, GoodJoin DEF InqVar

LEMMA GoodWriteSpatialVariable ==
  ASSUME NEW v PROVE Good(WriteSpatialVariable(v))
BY GoodInqVar, GoodPutVec, GoodJoin DEF WriteSpatialVariable

LEMMA GoodWriteMetadata == Good(WriteMetadata)
<1>1. Nested(Redef \o DefVar("mapping"))
  BY DEF Nested
<1>2. Good(<<<<"unless", Redef \o DefVar("mapping")>>>>)
  BY <1>1, GoodUnder
<1> QED  BY <1>2, GoodInqVarid, GoodWriteAttributes, GoodJoin DEF WriteMetadata

LEMMA GoodDefineTimeBounds == Good(DefineTimeBounds)
<1>1. Nested(DefDim)
  BY DEF Nested
<1>2. Good(<<<<"unless", DefDim>>>>)
  BY <1>1, GoodUnder
<1>3. Good(InqVarid("bounds") \o Redef \o InqDimid("time") \o InqDimid("nv"))
  BY GoodInqVarid, GoodRedef, GoodInqDimid, GoodJoin
<1> QED  BY <1>2, <1>3, GoodRedef, GoodDefVar, GoodWriteAttributes, GoodJoin DEF DefineTimeBounds

LEMMA GoodWriteTimeBounds == Good(WriteTimeBounds)
<1>1. Nested(DefineTimeBounds)
  BY DEF Nested
<1>2. Good(<<<<"unless", DefineTimeBounds>>>>)
  BY <1>1, GoodUnder
<1>3. Good(<<<<"enddef">>, <<"write", "bounds", "record">>>>)
  BY GoodTwo, PlainWords, PlainWaits
<1> QED  BY <1>2, <1>3, GoodInqVarid, GoodRedef, GoodJoin DEF WriteTimeBounds

LEMMA GoodDefineTimeseries == Good(DefineTimeseries)
BY GoodRedef, GoodInqDimid, GoodInqVarid, GoodDefVar, GoodWriteAttributes, GoodJoin
   DEF DefineTimeseries

LEMMA GoodWriteTimeseries == Good(WriteTimeseries)
<1>1. Nested(DefineTimeseries)
  BY DEF Nested
<1>2. Good(<<<<"unless", DefineTimeseries>>, <<"delay", "stamp", "record">>>>)
  BY <1>1, PlainNested, PlainWaits, GoodTwo
<1> QED  BY <1>2, GoodInqVarid, GoodJoin DEF WriteTimeseries

(* What is done under a condition is a program like others. *)
LEMMA GoodNested ==
  ASSUME NEW b, Nested(b) PROVE Good(b)
<1>1. PICK v : \/ b = DefineDimension(v)
               \/ b = DefineDimension("x") \o <<<<"delay", "x", "zero">>>>
               \/ b = InqDimlen
               \/ b = ReadText(v)
               \/ b = DefineDimensions \o Redef \o DefVar(v) \o WriteAttributes(v)
               \/ b = InqVarid(v)
               \/ b = Redef \o DefVar("mapping")
               \/ b = DefDim
               \/ b = DefineTimeBounds
               \/ b = DefineTimeseries
  BY DEF Nested
<1>2. Good(DefineDimension("x") \o <<<<"delay", "x", "zero">>>>)
  <2>1. Good(<<<<"delay", "x", "zero">>>>)
    BY OneIsGood, PlainWaits
  <2> QED  BY <2>1, GoodDefineDimension, GoodJoin
<1>3. Good(DefineDimensions \o Redef \o DefVar(v) \o WriteAttributes(v))
  BY GoodDefineDimensions, GoodRedef, GoodDefVar, GoodWriteAttributes, GoodJoin
<1>4. Good(Redef \o DefVar("mapping"))
  BY GoodRedef, GoodDefVar, GoodJoin
<1> QED  BY <1>1, <1>2, <1>3, <1>4, GoodDefineDimension, GoodInqDimlen, GoodReadText,
            GoodInqVarid, GoodDefDim, GoodDefineTimeBounds, GoodDefineTimeseries

LEMMA GoodRecords == Good(ExtraRecord) /\ Good(SnapshotRecord)
<1>1. Good(<<<<"let", "record", 0>>>>) /\ Good(<<<<"let", "record", 1>>>>)
  BY OneIsGood, PlainWaits
<1>2. Good(DefineSpatialVariable("thk")) /\ Good(WriteSpatialVariable("thk"))
  BY GoodDefineSpatialVariable, GoodWriteSpatialVariable
<1>3. Good(InqDimlenIfThere \o <<<<"let", "record", 0>>>> \o AppendTime)
  BY <1>1, GoodInqDimlenIfThere, GoodAppendTime, GoodJoin
<1>4. Good(ExtraRecord)
  BY <1>2, <1>3, GoodWriteTimeBounds, GoodWriteTimeseries, GoodCloseFile, GoodJoin
     DEF ExtraRecord
<1>5. Good(SnapshotRecord)
  BY <1>1, <1>2, GoodAppendTime, GoodInqDimlenIfThere, GoodWriteTimeseries, GoodCloseFile,
     GoodJoin DEF SnapshotRecord
<1> QED  BY <1>4, <1>5

LEMMA GoodSession ==
  ASSUME NEW name \in SessionNames PROVE Good(Session(name))
<1>1. Good(DefineSpatialVariable("thk")) /\ Good(WriteSpatialVariable("thk"))
  BY GoodDefineSpatialVariable, GoodWriteSpatialVariable
<1>2. Good(Dump)
  BY <1>1, GoodCreateFile, GoodWriteMetadata, GoodDefineTime, GoodAppendTime, GoodCloseFile,
     GoodJoin DEF Dump
<1>3. Good(FirstExtras) /\ Good(LaterExtras)
  BY GoodCreateFile, GoodDefineTime, GoodWriteAttributes, GoodWriteMetadata, GoodRecords,
     GoodOpenFile, GoodJoin DEF FirstExtras, LaterExtras
<1>4. Good(FirstSnapshot) /\ Good(LaterSnapshot)
  BY GoodCreateFile, GoodDefineTime, GoodWriteMetadata, GoodRecords, GoodOpenFile, GoodJoin
     DEF FirstSnapshot, LaterSnapshot
<1>5. Good(ReadField)
  <2>1. Good(<<<<"enddef">>, <<"fetch", "thk">>>>)
    BY GoodTwo, PlainWords, PlainWaits
  <2> QED  BY <2>1, GoodOpenToRead, GoodInqVar, GoodStartAndCount, GoodCloseFile, GoodJoin
           DEF ReadField
<1> QED  BY <1>2, <1>3, <1>4, <1>5 DEF SessionNames, Session

-----------------------------------------------------------------------------
(* The collective operations.  Here sl stands for the slots, ins for        *)
(* "inside", seen for where the processors are; h[n] is where processors    *)
(* are before their n-th operation and after the one before, D[n] where     *)
(* they enter it, e[r] the number of operations that r has left, plus one.  *)
After(slot, d) ==
  [todo |-> Tail(d.todo), state |-> d.state,
   stat |-> IF Head(d.todo) \in Statuses THEN slot.stat ELSE d.stat,
   answer |-> IF Head(d.todo) = Bcast("answer") THEN slot.answer ELSE d.answer,
   starts |-> d.starts, define |-> d.define, named |-> d.named, delayed |-> d.delayed]

Segments(sl, ins, e) ==
  /\ AList(sl) /\ e \in [Ranks -> 1..Len(sl) + 1]
  /\ \A n \in 1..Len(sl) :
       /\ sl[n].entered \subseteq Ranks /\ sl[n].left \subseteq Ranks /\ sl[n].entered # {}
       /\ \A r \in Ranks : /\ r \in sl[n].left <=> n < e[r]
                           /\ r \in sl[n].entered <=> n < e[r] \/ (n = e[r] /\ ins[r])

Trails(sl, ins, seen, h, D, e) ==
  \A r \in Ranks : /\ Leads(h[e[r]], seen[r])
                   /\ ins[r] => e[r] <= Len(sl) /\ seen[r] = D[e[r]]

Meetings(sl, h, D) ==
  \A n \in 1..Len(sl) : /\ Leads(h[n], D[n]) /\ Waits(D[n])
                        /\ sl[n].calls = {Signature(Head(D[n].todo))}

Departures(sl, h, D, e) ==
  \A n \in 1..Len(sl) : \A r \in Ranks :
    n < e[r] => /\ h[n + 1] = After(sl[n], D[n])
                /\ Needed(r, Head(D[n].todo)) \subseteq sl[n].entered

Resigned(sl, h, e) ==
  \A m \in 1..Len(sl) + 1 : \A n \in 1..Len(sl) + 1 :
    m <= n /\ (\E r \in Ranks : n <= e[r]) /\ GivenUp(h[m]) => GivenUp(h[n])

(* Processors that unwind learn of no failure in an operation before they   *)
(* have written what is delayed.                                            *)
Flushes == {<<"flush">>}

Later(t, i, S) == \E k \in DOMAIN t : k > i /\ t[k] \in S

Flushing(d) == d.state = "unwinding" /\ Later(d.todo, 0, Flushes)

Unharmed(sl, D) == \A n \in 1..Len(sl) : Flushing(D[n]) => sl[n].stat = 0

Matched(sl, ins, seen, h, D, e) ==
  /\ Segments(sl, ins, e) /\ Trails(sl, ins, seen, h, D, e) /\ Meetings(sl, h, D)
  /\ Departures(sl, h, D, e) /\ Resigned(sl, h, e) /\ Unharmed(sl, D)

(* A processor makes a step by itself. *)
LEMMA MoveKeeps ==
  ASSUME NEW sl, NEW ins, NEW seen, NEW seen2, NEW h, NEW D, NEW e, NEW r \in Ranks,
         Matched(sl, ins, seen, h, D, e), Moves(seen[r]), seen2[r] = Moved(seen[r]),
         \A q \in Ranks : q # r => seen2[q] = seen[q]
  PROVE  Matched(sl, ins, seen2, h, D, e)
<1>1. ~ins[r]
  <2> SUFFICES ASSUME ins[r] PROVE FALSE
    OBVIOUS
  <2>1. e[r] \in 1..Len(sl) + 1 /\ e[r] <= Len(sl) /\ seen[r] = D[e[r]] /\ Len(sl) \in Nat
    BY ListFacts DEF Matched, Trails, Segments
  <2>2. Waits(D[e[r]])
    BY <2>1 DEF Matched, Meetings
  <2> QED  BY <2>1, <2>2 DEF Moves
<1>2. Leads(h[e[r]], seen2[r])
  BY LeadsOn DEF Matched, Trails
<1>3. Trails(sl, ins, seen2, h, D, e)
  BY <1>1, <1>2 DEF Matched, Trails
<1> QED  BY <1>3 DEF Matched

(* It enters an operation that others have entered before.                  *)
EnteredBy(sl, sl2, n, r, x, d) ==
  /\ AList(sl2) /\ Len(sl2) = Len(sl) /\ \A m \in 1..Len(sl) : m # n => sl2[m] = sl[m]
  /\ sl2[n].calls = sl[n].calls \union {Signature(x)}
  /\ sl2[n].entered = sl[n].entered \union {r} /\ sl2[n].left = sl[n].left
  /\ sl2[n].stat # sl[n].stat => r = 0 \/ x = Total
  /\ Flushing(d) => sl2[n].stat = sl[n].stat
  /\ sl2[n].answer # sl[n].answer => r = 0

LEMMA EnterOldKeeps ==
  ASSUME NEW sl, NEW sl2, NEW ins, NEW ins2, NEW seen, NEW h, NEW D, NEW e,
         NEW r \in Ranks, NEW n, NEW x,
         Matched(sl, ins, seen, h, D, e), n = e[r], n <= Len(sl), ~ins[r], Waits(seen[r]),
         x = Head(seen[r].todo), EnteredBy(sl, sl2, n, r, x, seen[r]),
         ins2[r], \A q \in Ranks : q # r => (ins2[q] <=> ins[q])
  PROVE  Matched(sl2, ins2, seen, h, D, e)
<1> USE DEF EnteredBy
<1>1. Len(sl) \in Nat /\ n \in 1..Len(sl) /\ e \in [Ranks -> 1..Len(sl) + 1]
  BY ListFacts DEF Matched, Segments
<1>2. seen[r] = D[n]
  <2>1. Leads(h[n], seen[r]) /\ Leads(h[n], D[n]) /\ Waits(D[n])
    BY <1>1 DEF Matched, Trails, Meetings
  <2> QED  BY <2>1, SamePlace DEF Moves
<1>3. Segments(sl2, ins2, e)
  <2>1. ASSUME NEW m \in 1..Len(sl), NEW q \in Ranks
        PROVE  /\ q \in sl2[m].left <=> m < e[q]
               /\ q \in sl2[m].entered <=> m < e[q] \/ (m = e[q] /\ ins2[q])
    <3>1. /\ q \in sl[m].left <=> m < e[q]
          /\ q \in sl[m].entered <=> m < e[q] \/ (m = e[q] /\ ins[q])
      BY DEF Matched, Segments
    <3> QED  BY <3>1
  <2>2. ASSUME NEW m \in 1..Len(sl)
        PROVE  sl2[m].entered \subseteq Ranks /\ sl2[m].left \subseteq Ranks /\ sl2[m].entered # {}
    <3>1. sl[m].entered \subseteq Ranks /\ sl[m].left \subseteq Ranks /\ sl[m].entered # {}
      BY DEF Matched, Segments
    <3> QED  BY <3>1
  <2> QED  BY <2>1, <2>2, <1>1 DEF Segments
<1>4. Trails(sl2, ins2, seen, h, D, e)
  BY <1>1, <1>2 DEF Matched, Trails
<1>5. Meetings(sl2, h, D)
  <2>1. sl[n].calls = {Signature(Head(D[n].todo))}
    BY <1>1 DEF Matched, Meetings
  <2>2. sl2[n].calls = {Signature(Head(D[n].todo))}
    BY <2>1, <1>2
  <2> QED  BY <2>2 DEF Matched, Meetings
<1>6. Departures(sl2, h, D, e)
  <2> SUFFICES ASSUME NEW m \in 1..Len(sl), NEW q \in Ranks, m < e[q]
               PROVE  /\ h[m + 1] = After(sl2[m], D[m])
                      /\ Needed(q, Head(D[m].todo)) \subseteq sl2[m].entered
    BY DEF Departures
  <2>1. /\ h[m + 1] = After(sl[m], D[m])
        /\ Needed(q, Head(D[m].todo)) \subseteq sl[m].entered
    BY DEF Matched, Departures
  <2>2. CASE m # n
    BY <2>1, <2>2
  <2>3. CASE m = n
    <3>1. r \notin sl[n].entered
      BY <1>1 DEF Matched, Segments
    <3>2. x[1] \in {"all", "bcast"} /\ Head(D[n].todo) = x
      BY <1>2 DEF Waits
    <3>3. r \notin Needed(q, x)
      BY <2>1, <2>3, <3>1, <3>2
    <3>4. CASE x[1] = "bcast"
      <4>1. r # 0
        BY <3>3, <3>4 DEF Needed
      <4>2. x # Total
        BY <3>4 DEF Total
      <4>3. After(sl2[n], D[n]) = After(sl[n], D[n])
        BY <4>1, <4>2 DEF After
      <4> QED  BY <4>3, <2>1, <2>3
    <3>5. CASE x[1] = "all"
      <4>1. x[2] = "reduce"
        BY <3>3, <3>5 DEF Needed
      <4>2. x \notin Statuses /\ x # Bcast("answer")
        BY <3>5, <4>1 DEF Statuses, Share, Total, Bcast
      <4>3. After(sl2[n], D[n]) = After(sl[n], D[n])
        BY <3>2, <4>2 DEF After
      <4> QED  BY <4>3, <2>1, <2>3
    <3> QED  BY <3>2, <3>4, <3>5
  <2> QED  BY <2>2, <2>3
<1>7. Resigned(sl2, h, e)
  BY DEF Matched, Resigned
<1>8. Unharmed(sl2, D)
  <2> SUFFICES ASSUME NEW m \in 1..Len(sl), Flushing(D[m]) PROVE sl2[m].stat = 0
    BY DEF Unharmed
  <2>1. sl[m].stat = 0
    BY DEF Matched, Unharmed
  <2>2. CASE m = n
    BY <2>1, <2>2, <1>2
  <2>3. CASE m # n
    BY <2>1, <2>3
  <2> QED  BY <2>2, <2>3
<1> QED  BY <1>3, <1>4, <1>5, <1>6, <1>7, <1>8 DEF Matched

(* It is the first to enter an operation. *)
LEMMA EnterNewKeeps ==
  ASSUME NEW sl, NEW slot, NEW ins, NEW ins2, NEW seen, NEW h, NEW D, NEW e, NEW r \in Ranks,
         Matched(sl, ins, seen, h, D, e), e[r] = Len(sl) + 1, ~ins[r], Waits(seen[r]),
         slot.calls = {Signature(Head(seen[r].todo))}, slot.entered = {r}, slot.left = {},
         Flushing(seen[r]) => slot.stat = 0,
         ins2[r], \A q \in Ranks : q # r => (ins2[q] <=> ins[q])
  PROVE  \E D2 : Matched(Append(sl, slot), ins2, seen, h, D2, e)
<1> DEFINE N == Len(sl) + 1
           D2 == [m \in 1..N |-> IF m = N THEN seen[r] ELSE D[m]]
<1>1. Len(sl) \in Nat /\ e \in [Ranks -> 1..N] /\ AList(sl)
  BY ListFacts DEF Matched, Segments
<1>2. PICK sl2 : /\ sl2 = Append(sl, slot) /\ AList(sl2) /\ Len(sl2) = N /\ sl2[N] = slot
                 /\ \A m \in 1..Len(sl) : sl2[m] = sl[m]
  <2>1. PICK S : sl \in Seq(S)
    BY <1>1 DEF AList
  <2>2. sl \in Seq(S \union {slot}) /\ slot \in S \union {slot}
    BY <2>1
  <2>3. Append(sl, slot) \in Seq(S \union {slot})
    BY <2>2
  <2>4. Len(Append(sl, slot)) = N /\ Append(sl, slot)[N] = slot
    BY <2>2
  <2>5. \A m \in 1..Len(sl) : Append(sl, slot)[m] = sl[m]
    BY <2>2
  <2> QED  BY <2>3, <2>4, <2>5 DEF AList
<1>3. D2[N] = seen[r] /\ \A m \in 1..Len(sl) : D2[m] = D[m]
  BY <1>1
<1>4. N \in Nat /\ \A m \in 1..N : m \in 1..Len(sl) \/ m = N
  BY <1>1
<1>5. \A q \in Ranks : ins[q] => e[q] <= Len(sl)
  BY DEF Matched, Trails
<1>6. Segments(sl2, ins2, e)
  <2>1. ASSUME NEW m \in 1..Len(sl), NEW q \in Ranks
        PROVE  /\ q \in sl2[m].left <=> m < e[q]
               /\ q \in sl2[m].entered <=> m < e[q] \/ (m = e[q] /\ ins2[q])
    <3>1. /\ q \in sl[m].left <=> m < e[q]
          /\ q \in sl[m].entered <=> m < e[q] \/ (m = e[q] /\ ins[q])
      BY DEF Matched, Segments
    <3>2. m # e[r]
      BY <1>1
    <3> QED  BY <3>1, <3>2, <1>2
  <2>2. ASSUME NEW q \in Ranks
        PROVE  /\ q \in sl2[N].left <=> N < e[q]
               /\ q \in sl2[N].entered <=> N < e[q] \/ (N = e[q] /\ ins2[q])
    <3>1. e[q] \in 1..N /\ ~(N < e[q])
      BY <1>1
    <3>2. q # r => ~(N = e[q] /\ ins2[q])
      BY <1>1, <1>5
    <3> QED  BY <3>1, <3>2, <1>2
  <2>3. ASSUME NEW m \in 1..N
        PROVE  sl2[m].entered \subseteq Ranks /\ sl2[m].left \subseteq Ranks /\ sl2[m].entered # {}
    <3>1. CASE m \in 1..Len(sl)
      <4>1. sl[m].entered \subseteq Ranks /\ sl[m].left \subseteq Ranks /\ sl[m].entered # {}
        BY <3>1 DEF Matched, Segments
      <4> QED  BY <4>1, <3>1, <1>2
    <3>2. CASE m = N
      BY <3>2, <1>2
    <3> QED  BY <3>1, <3>2, <1>4
  <2>4. e \in [Ranks -> 1..N + 1]
    BY <1>1
  <2> QED  BY <2>1, <2>2, <2>3, <2>4, <1>2, <1>4 DEF Segments
<1>7. Trails(sl2, ins2, seen, h, D2, e)
  <2> SUFFICES ASSUME NEW q \in Ranks
               PROVE  /\ Leads(h[e[q]], seen[q])
                      /\ ins2[q] => e[q] <= N /\ seen[q] = D2[e[q]]
    BY <1>2 DEF Trails
  <2>1. Leads(h[e[q]], seen[q]) /\ (ins[q] => e[q] <= Len(sl) /\ seen[q] = D[e[q]])
    BY DEF Matched, Trails
  <2>2. e[q] \in 1..N
    BY <1>1
  <2>3. CASE q = r
    BY <2>1, <2>3, <1>3, <1>4
  <2>4. CASE q # r
    <3>1. ins2[q] => e[q] \in 1..Len(sl)
      BY <2>1, <2>2, <2>4, <1>1
    <3> QED  BY <3>1, <2>1, <2>2, <2>4, <1>3
  <2> QED  BY <2>3, <2>4
<1>8. Meetings(sl2, h, D2)
  <2> SUFFICES ASSUME NEW m \in 1..N
               PROVE  /\ Leads(h[m], D2[m]) /\ Waits(D2[m])
                      /\ sl2[m].calls = {Signature(Head(D2[m].todo))}
    BY <1>2 DEF Meetings
  <2>1. CASE m \in 1..Len(sl)
    <3>1. D2[m] = D[m] /\ sl2[m] = sl[m]
      BY <2>1, <1>2, <1>3
    <3>2. /\ Leads(h[m], D[m]) /\ Waits(D[m])
          /\ sl[m].calls = {Signature(Head(D[m].todo))}
      BY <2>1 DEF Matched, Meetings
    <3> HIDE DEF D2
    <3> QED  BY <3>1, <3>2
  <2>2. CASE m = N
    <3>1. Leads(h[N], seen[r])
      BY DEF Matched, Trails
    <3>2. D2[m] = seen[r] /\ sl2[m] = slot
      BY <2>2, <1>2, <1>3
    <3> HIDE DEF D2
    <3> QED  BY <2>2, <3>1, <3>2
  <2> QED  BY <2>1, <2>2, <1>4
<1>9. Departures(sl2, h, D2, e)
  <2> SUFFICES ASSUME NEW m \in 1..N, NEW q \in Ranks, m < e[q]
               PROVE  /\ h[m + 1] = After(sl2[m], D2[m])
                      /\ Needed(q, Head(D2[m].todo)) \subseteq sl2[m].entered
    BY <1>2 DEF Departures
  <2>1. m \in 1..Len(sl)
    BY <1>1
  <2>2. D2[m] = D[m] /\ sl2[m] = sl[m]
    BY <2>1, <1>2, <1>3
  <2>3. /\ h[m + 1] = After(sl[m], D[m])
        /\ Needed(q, Head(D[m].todo)) \subseteq sl[m].entered
    BY <2>1 DEF Matched, Departures
  <2> HIDE DEF D2
  <2> QED  BY <2>2, <2>3
<1>10. Resigned(sl2, h, e)
  <2> SUFFICES ASSUME NEW m \in 1..N + 1, NEW k \in 1..N + 1, m <= k,
                      NEW q \in Ranks, k <= e[q], GivenUp(h[m])
               PROVE  GivenUp(h[k])
    BY <1>2 DEF Resigned
  <2>1. m \in 1..N /\ k \in 1..N
    BY <1>1
  <2> QED  BY <2>1 DEF Matched, Resigned
<1> HIDE DEF D2
<1>11. Unharmed(sl2, D2)
  <2> SUFFICES ASSUME NEW m \in 1..N, Flushing(D2[m]) PROVE sl2[m].stat = 0
    BY <1>2 DEF Unharmed
  <2>1. CASE m \in 1..Len(sl)
    <3>1. Flushing(D[m])
      BY <2>1, <1>3
    <3>2. sl[m].stat = 0
      BY <2>1, <3>1 DEF Matched, Unharmed
    <3> QED  BY <2>1, <3>2, <1>2
  <2>2. CASE m = N
    BY <2>2, <1>2, <1>3
  <2> QED  BY <2>1, <2>2, <1>4
<1> QED  BY <1>2, <1>6, <1>7, <1>8, <1>9, <1>10, <1>11 DEF Matched

(* It leaves an operation. *)
LeftBy(sl, sl2, n, r) ==
  /\ AList(sl2) /\ Len(sl2) = Len(sl) /\ \A m \in 1..Len(sl) : m # n => sl2[m] = sl[m]
  /\ sl2[n].calls = sl[n].calls /\ sl2[n].entered = sl[n].entered
  /\ sl2[n].stat = sl[n].stat /\ sl2[n].answer = sl[n].answer
  /\ sl2[n].left = sl[n].left \union {r}

LEMMA LeaveKeeps ==
  ASSUME NEW sl, NEW sl2, NEW ins, NEW ins2, NEW seen, NEW seen2, NEW h, NEW D, NEW e,
         NEW r \in Ranks, NEW n,
         Matched(sl, ins, seen, h, D, e), n = e[r], ins[r],
         Needed(r, Head(seen[r].todo)) \subseteq sl[n].entered,
         seen2[r] = After(sl[n], seen[r]), \A q \in Ranks : q # r => seen2[q] = seen[q],
         LeftBy(sl, sl2, n, r), ~ins2[r], \A q \in Ranks : q # r => (ins2[q] <=> ins[q])
  PROVE  \E h2, e2 : Matched(sl2, ins2, seen2, h2, D, e2)
<1> USE DEF LeftBy
<1> DEFINE N == Len(sl)
           h2 == [m \in 1..N + 1 |-> IF m = n + 1 THEN After(sl[n], D[n]) ELSE h[m]]
           e2 == [e EXCEPT ![r] = n + 1]
<1>1. N \in Nat /\ e \in [Ranks -> 1..N + 1] /\ n \in 1..N /\ seen[r] = D[n]
  BY ListFacts DEF Matched, Segments, Trails
<1>2. /\ \A q \in Ranks : \A m \in 1..N : q \in sl[m].left <=> m < e[q]
      /\ \A q \in Ranks : \A m \in 1..N :
           q \in sl[m].entered <=> m < e[q] \/ (m = e[q] /\ ins[q])
      /\ \A m \in 1..N : sl[m].entered \subseteq Ranks /\ sl[m].left \subseteq Ranks
                         /\ sl[m].entered # {}
  BY DEF Matched, Segments
<1>3. e2 \in [Ranks -> 1..N + 1] /\ e2[r] = n + 1 /\ \A q \in Ranks : q # r => e2[q] = e[q]
  BY <1>1
<1>4. ASSUME NEW q \in Ranks, n < e[q]
      PROVE  \A m \in 1..N + 1 : h2[m] = h[m]
  <2>1. h[n + 1] = After(sl[n], D[n])
    BY <1>1, <1>4 DEF Matched, Departures
  <2> QED  BY <2>1
<1>5. h2[n + 1] = After(sl[n], D[n]) /\ \A m \in 1..n : h2[m] = h[m]
  BY <1>1
<1> HIDE DEF e2, h2
<1>6. Segments(sl2, ins2, e2)
  <2>1. ASSUME NEW m \in 1..N, NEW q \in Ranks
        PROVE  /\ q \in sl2[m].left <=> m < e2[q]
               /\ q \in sl2[m].entered <=> m < e2[q] \/ (m = e2[q] /\ ins2[q])
    <3>1. CASE q # r
      BY <3>1, <1>2, <1>3
    <3>2. CASE q = r /\ m # n
      BY <3>2, <1>1, <1>2, <1>3
    <3>3. CASE q = r /\ m = n
      BY <3>3, <1>1, <1>2, <1>3
    <3> QED  BY <3>1, <3>2, <3>3
  <2>2. ASSUME NEW m \in 1..N
        PROVE  sl2[m].entered \subseteq Ranks /\ sl2[m].left \subseteq Ranks /\ sl2[m].entered # {}
    BY <1>2
  <2> QED  BY <2>1, <2>2, <1>3 DEF Segments
<1>7. Trails(sl2, ins2, seen2, h2, D, e2)
  <2> SUFFICES ASSUME NEW q \in Ranks
               PROVE  /\ Leads(h2[e2[q]], seen2[q])
                      /\ ins2[q] => e2[q] <= N /\ seen2[q] = D[e2[q]]
    BY DEF Trails
  <2>1. CASE q = r
    <3>1. h2[e2[r]] = seen2[r]
      BY <1>1, <1>3, <1>5
    <3> QED  BY <2>1, <3>1, LeadsHere
  <2>2. CASE q # r
    <3>1. Leads(h[e[q]], seen[q]) /\ (ins[q] => e[q] <= N /\ seen[q] = D[e[q]])
      BY DEF Matched, Trails
    <3>2. e[q] \in 1..N + 1 /\ (e[q] \in 1..n \/ n < e[q])
      BY <1>1
    <3>3. h2[e[q]] = h[e[q]]
      BY <3>2, <1>4, <1>5
    <3> QED  BY <2>2, <3>1, <3>3, <1>3
  <2> QED  BY <2>1, <2>2
<1>8. Meetings(sl2, h2, D)
  <2> SUFFICES ASSUME NEW m \in 1..N
               PROVE  /\ Leads(h2[m], D[m]) /\ Waits(D[m])
                      /\ sl2[m].calls = {Signature(Head(D[m].todo))}
    BY DEF Meetings
  <2>1. /\ Leads(h[m], D[m]) /\ Waits(D[m])
        /\ sl[m].calls = {Signature(Head(D[m].todo))}
    BY DEF Matched, Meetings
  <2>2. sl2[m].calls = sl[m].calls
    BY <1>1
  <2>3. h2[m] = h[m]
    <3>1. CASE m <= n
      BY <3>1, <1>1, <1>5
    <3>2. CASE n < m
      <4>1. PICK q \in Ranks : q \in sl[m].entered
        BY <1>2
      <4>2. n < e[q]
        BY <4>1, <3>2, <1>1, <1>2
      <4> QED  BY <4>2, <1>4
    <3> QED  BY <3>1, <3>2, <1>1
  <2> QED  BY <2>1, <2>2, <2>3
<1>9. Departures(sl2, h2, D, e2)
  <2> SUFFICES ASSUME NEW m \in 1..N, NEW q \in Ranks, m < e2[q]
               PROVE  /\ h2[m + 1] = After(sl2[m], D[m])
                      /\ Needed(q, Head(D[m].todo)) \subseteq sl2[m].entered
    BY DEF Departures
  <2>1. sl2[m].entered = sl[m].entered /\ After(sl2[m], D[m]) = After(sl[m], D[m])
    <3>1. sl2[m].stat = sl[m].stat /\ sl2[m].answer = sl[m].answer
          /\ sl2[m].entered = sl[m].entered
      BY <1>1
    <3> QED  BY <3>1 DEF After
  <2>2. CASE q = r /\ m = n
    BY <2>1, <2>2, <1>1, <1>5
  <2>3. CASE ~(q = r /\ m = n)
    <3>1. m < e[q]
      BY <2>3, <1>1, <1>3
    <3>2. /\ h[m + 1] = After(sl[m], D[m])
          /\ Needed(q, Head(D[m].todo)) \subseteq sl[m].entered
      BY <3>1 DEF Matched, Departures
    <3>3. h2[m + 1] = h[m + 1]
      <4>1. CASE m < n
        BY <4>1, <1>1, <1>5
      <4>2. CASE n <= m
        <5>1. n < e[q]
          BY <3>1, <4>2, <1>1
        <5> QED  BY <5>1, <1>4, <1>1
      <4> QED  BY <4>1, <4>2, <1>1
    <3> QED  BY <2>1, <3>2, <3>3
  <2> QED  BY <2>2, <2>3
<1>10. Resigned(sl2, h2, e2)
  <2> SUFFICES ASSUME NEW m \in 1..N + 1, NEW k \in 1..N + 1, m <= k,
                      NEW q \in Ranks, k <= e2[q], GivenUp(h2[m])
               PROVE  GivenUp(h2[k])
    BY DEF Resigned
  <2>0. Resigned(sl, h, e)
    BY DEF Matched
  <2>1. CASE k <= n
    <3>1. m \in 1..n /\ k \in 1..n /\ k <= e[r]
      BY <2>1, <1>1
    <3>2. h2[m] = h[m] /\ h2[k] = h[k]
      BY <3>1, <1>5
    <3> QED  BY <2>0, <3>1, <3>2 DEF Resigned
  <2>2. CASE k = n + 1 /\ m = n + 1
    BY <2>2
  <2>3. CASE k = n + 1 /\ m # n + 1
    <3>1. m \in 1..n /\ n <= e[r] /\ n \in 1..N + 1
      BY <2>3, <1>1
    <3>2. GivenUp(h[m])
      BY <3>1, <1>5
    <3>3. GivenUp(h[n])
      <4>1. m \in 1..Len(sl) + 1 /\ n \in 1..Len(sl) + 1 /\ m <= n
        BY <3>1, <1>1
      <4> QED  BY <2>0, <3>1, <3>2, <4>1 DEF Resigned
    <3>4. Leads(h[n], D[n])
      BY <1>1 DEF Matched, Meetings
    <3>5. GivenUp(D[n])
      BY <3>3, <3>4, StaysGivenUp
    <3>6. GivenUp(After(sl[n], D[n]))
      BY <3>5 DEF GivenUp, After
    <3> QED  BY <2>3, <3>6, <1>5
  <2>4. CASE n + 1 < k
    <3>1. q # r
      BY <2>4, <1>1, <1>3
    <3>2. k <= e[q] /\ n < e[q]
      BY <2>4, <3>1, <1>1, <1>3
    <3>3. h2[m] = h[m] /\ h2[k] = h[k]
      BY <3>2, <1>4
    <3> QED  BY <2>0, <3>2, <3>3 DEF Resigned
  <2> QED  BY <2>1, <2>2, <2>3, <2>4, <1>1
<1>11. Unharmed(sl2, D)
  <2> SUFFICES ASSUME NEW m \in 1..N, Flushing(D[m]) PROVE sl2[m].stat = 0
    BY DEF Unharmed
  <2>1. sl[m].stat = 0
    BY DEF Matched, Unharmed
  <2>2. sl2[m].stat = sl[m].stat
    BY <1>1
  <2> QED  BY <2>1, <2>2
<1> QED  BY <1>6, <1>7, <1>8, <1>9, <1>10, <1>11 DEF Matched

(* The first operation is over when all have left it. *)
LEMMA DropKeeps ==
  ASSUME NEW sl, NEW ins, NEW seen, NEW h, NEW D, NEW e,
         Matched(sl, ins, seen, h, D, e), sl # <<>>, Head(sl).left = Ranks
  PROVE  \E h2, D2, e2 : Matched(Tail(sl), ins, seen, h2, D2, e2)
<1> DEFINE N == Len(sl)
           h2 == [m \in 1..N |-> h[m + 1]]
           D2 == [m \in 1..N - 1 |-> D[m + 1]]
           e2 == [r \in Ranks |-> e[r] - 1]
<1>1. N \in Nat /\ N > 0 /\ e \in [Ranks -> 1..N + 1] /\ Head(sl) = sl[1]
  BY ListFacts DEF Matched, Segments
<1>2. PICK sl2 : /\ sl2 = Tail(sl) /\ AList(sl2) /\ Len(sl2) = N - 1
                 /\ \A m \in 1..N - 1 : sl2[m] = sl[m + 1]
  BY ListFacts DEF Matched, Segments
<1>3. /\ \A q \in Ranks : \A m \in 1..N : q \in sl[m].left <=> m < e[q]
      /\ \A q \in Ranks : \A m \in 1..N :
           q \in sl[m].entered <=> m < e[q] \/ (m = e[q] /\ ins[q])
      /\ \A m \in 1..N : sl[m].entered \subseteq Ranks /\ sl[m].left \subseteq Ranks
                         /\ sl[m].entered # {}
  BY DEF Matched, Segments
<1>4. ASSUME NEW q \in Ranks PROVE e[q] \in 2..N + 1 /\ e2[q] = e[q] - 1 /\ e2[q] \in 1..N
  <2>1. 1 < e[q]
    BY <1>1, <1>3
  <2> QED  BY <2>1, <1>1
<1>5. e2 \in [Ranks -> 1..(N - 1) + 1]
  BY <1>1, <1>4
<1>6. /\ \A m \in 1..N : h2[m] = h[m + 1]
      /\ \A m \in 1..N - 1 : D2[m] = D[m + 1]
  OBVIOUS
<1> HIDE DEF e2, h2, D2
<1>7. Segments(sl2, ins, e2)
  <2>1. ASSUME NEW m \in 1..N - 1, NEW q \in Ranks
        PROVE  /\ q \in sl2[m].left <=> m < e2[q]
               /\ q \in sl2[m].entered <=> m < e2[q] \/ (m = e2[q] /\ ins[q])
    <3>1. m + 1 \in 1..N
      BY <1>1
    <3>2. /\ q \in sl[m + 1].left <=> m + 1 < e[q]
          /\ q \in sl[m + 1].entered <=> m + 1 < e[q] \/ (m + 1 = e[q] /\ ins[q])
      BY <3>1, <1>3
    <3>3. (m + 1 < e[q] <=> m < e2[q]) /\ (m + 1 = e[q] <=> m = e2[q])
      BY <1>4
    <3> QED  BY <3>2, <3>3, <1>2
  <2>2. ASSUME NEW m \in 1..N - 1
        PROVE  sl2[m].entered \subseteq Ranks /\ sl2[m].left \subseteq Ranks /\ sl2[m].entered # {}
    <3>1. m + 1 \in 1..N
      BY <1>1
    <3> QED  BY <3>1, <1>2, <1>3
  <2> QED  BY <2>1, <2>2, <1>2, <1>5 DEF Segments
<1>8. Trails(sl2, ins, seen, h2, D2, e2)
  <2> SUFFICES ASSUME NEW q \in Ranks
               PROVE  /\ Leads(h2[e2[q]], seen[q])
                      /\ ins[q] => e2[q] <= N - 1 /\ seen[q] = D2[e2[q]]
    BY <1>2 DEF Trails
  <2>1. Leads(h[e[q]], seen[q]) /\ (ins[q] => e[q] <= N /\ seen[q] = D[e[q]])
    BY DEF Matched, Trails
  <2>2. e2[q] \in 1..N /\ e2[q] + 1 = e[q]
    BY <1>4
  <2>3. h2[e2[q]] = h[e[q]]
    BY <2>2, <1>6
  <2>4. ASSUME ins[q] PROVE e2[q] <= N - 1 /\ seen[q] = D2[e2[q]]
    <3>1. e2[q] \in 1..N - 1
      BY <2>1, <2>2, <2>4, <1>1
    <3>2. D2[e2[q]] = D[e[q]]
      BY <3>1, <2>2, <1>6
    <3> QED  BY <3>1, <3>2, <2>1, <2>4
  <2> QED  BY <2>1, <2>3, <2>4
<1>9. Meetings(sl2, h2, D2)
  <2> SUFFICES ASSUME NEW m \in 1..N - 1
               PROVE  /\ Leads(h2[m], D2[m]) /\ Waits(D2[m])
                      /\ sl2[m].calls = {Signature(Head(D2[m].todo))}
    BY <1>2 DEF Meetings
  <2>1. m + 1 \in 1..N /\ m \in 1..N
    BY <1>1
  <2>2. /\ Leads(h[m + 1], D[m + 1]) /\ Waits(D[m + 1])
        /\ sl[m + 1].calls = {Signature(Head(D[m + 1].todo))}
    BY <2>1 DEF Matched, Meetings
  <2> QED  BY <2>1, <2>2, <1>2, <1>6
<1>10. Departures(sl2, h2, D2, e2)
  <2> SUFFICES ASSUME NEW m \in 1..N - 1, NEW q \in Ranks, m < e2[q]
               PROVE  /\ h2[m + 1] = After(sl2[m], D2[m])
                      /\ Needed(q, Head(D2[m].todo)) \subseteq sl2[m].entered
    BY <1>2 DEF Departures
  <2>1. m + 1 \in 1..N /\ m + 1 < e[q]
    BY <1>1, <1>4
  <2>2. /\ h[(m + 1) + 1] = After(sl[m + 1], D[m + 1])
        /\ Needed(q, Head(D[m + 1].todo)) \subseteq sl[m + 1].entered
    BY <2>1 DEF Matched, Departures
  <2>3. h2[m + 1] = h[(m + 1) + 1] /\ D2[m] = D[m + 1] /\ sl2[m] = sl[m + 1]
    BY <2>1, <1>2, <1>6
  <2> QED  BY <2>2, <2>3
<1>11. Resigned(sl2, h2, e2)
  <2> SUFFICES ASSUME NEW m \in 1..N, NEW k \in 1..N, m <= k,
                      NEW q \in Ranks, k <= e2[q], GivenUp(h2[m])
               PROVE  GivenUp(h2[k])
    <3>1. (N - 1) + 1 = N
      BY <1>1
    <3> QED  BY <3>1, <1>2 DEF Resigned
  <2>1. m + 1 \in 1..N + 1 /\ k + 1 \in 1..N + 1 /\ m + 1 <= k + 1 /\ k + 1 <= e[q]
    BY <1>1, <1>4
  <2>2. h2[m] = h[m + 1] /\ h2[k] = h[k + 1]
    BY <1>6
  <2> QED  BY <2>1, <2>2 DEF Matched, Resigned
<1>12. Unharmed(sl2, D2)
  <2> SUFFICES ASSUME NEW m \in 1..N - 1, Flushing(D2[m]) PROVE sl2[m].stat = 0
    BY <1>2 DEF Unharmed
  <2>1. m + 1 \in 1..N /\ D2[m] = D[m + 1] /\ sl2[m] = sl[m + 1]
    BY <1>1, <1>2, <1>6
  <2> QED  BY <2>1 DEF Matched, Unharmed
<1> QED  BY <1>2, <1>7, <1>8, <1>9, <1>10, <1>11, <1>12 DEF Matched

(* Nobody gets done when another has given up. *)
LEMMA AgreeToTheEnd ==
  ASSUME NEW sl, NEW ins, NEW seen, NEW h, NEW D, NEW e, Matched(sl, ins, seen, h, D, e),
         NEW r \in Ranks, NEW q \in Ranks, GivenUp(seen[r])
  PROVE  seen[q].state # "done"
<1> SUFFICES ASSUME seen[q].state = "done" PROVE FALSE
  OBVIOUS
<1>1. Len(sl) \in Nat /\ e[r] \in 1..Len(sl) + 1 /\ e[q] \in 1..Len(sl) + 1
  BY ListFacts DEF Matched, Segments
<1>2. Leads(h[e[r]], seen[r]) /\ Leads(h[e[q]], seen[q])
  BY DEF Matched, Trails
<1>3. ~Moves(seen[q]) /\ ~GivenUp(seen[q])
  BY DEF Moves, Working, GivenUp
<1>4. CASE e[q] < e[r]
  <2>1. e[q] \in 1..Len(sl)
    BY <1>1, <1>4
  <2>2. Leads(h[e[q]], D[e[q]]) /\ Waits(D[e[q]])
    BY <2>1 DEF Matched, Meetings
  <2>3. seen[q] = D[e[q]]
    BY <2>2, <1>2, <1>3, SamePlace DEF Moves
  <2> QED  BY <2>2, <2>3 DEF Waits, Working
<1>5. CASE e[q] = e[r]
  <2>1. Leads(seen[r], seen[q]) \/ Leads(seen[q], seen[r])
    BY <1>2, <1>5, Fork
  <2> QED  BY <2>1, <1>3, StuckThere, StaysGivenUp
<1>6. CASE e[r] < e[q]
  <2>1. e[r] \in 1..Len(sl) /\ e[r] + 1 \in 1..Len(sl) + 1 /\ e[r] + 1 <= e[q]
    BY <1>1, <1>6
  <2>2. Leads(h[e[r]], D[e[r]]) /\ Waits(D[e[r]])
    BY <2>1 DEF Matched, Meetings
  <2>3. Leads(seen[r], D[e[r]]) \/ Leads(D[e[r]], seen[r])
    BY <2>2, <1>2, Fork
  <2>4. GivenUp(D[e[r]])
    BY <2>2, <2>3, StuckThere, StaysGivenUp DEF Moves
  <2>5. h[e[r] + 1] = After(sl[e[r]], D[e[r]])
    BY <2>1, <1>6 DEF Matched, Departures
  <2>6. GivenUp(h[e[r] + 1])
    BY <2>4, <2>5 DEF GivenUp, After
  <2>7. GivenUp(h[e[q]])
    BY <2>1, <2>6, <1>1 DEF Matched, Resigned
  <2> QED  BY <2>7, <1>2, <1>3, StaysGivenUp
<1> QED  BY <1>1, <1>4, <1>5, <1>6

-----------------------------------------------------------------------------
(* What is left of a file.  A stage that delays a write comes before one    *)
(* that flushes and after the file is open; a file is closed last; one that *)
(* is opened is closed later.                                               *)
Closes == {Call("close", "file")}
Marks  == {Sets("opened"), Sets("created"), Sets("define"), Sets("data")}

Before(t, i) == \E j \in DOMAIN t : j < i /\ t[j] \in Marks

Writer(x)  == x[1] \in {"delay", "if", "unless", "pop"}
Final(x)   == x[1] = "session" \/ (x[1] = "sets" /\ x[2] = "closed")
Opening(x) == x[1] \in {"call", "checked"} /\ x[2] \in {"open", "create"}

(* Lists of stages of some kinds that neither open nor close.               *)
Mild == {"checked", "all", "bcast", "verify", "sets", "receive", "reply", "send", "await",
         "count"}
Direct == Mild \union {"call"}
Any == Direct \union {"ask", "redef", "enddef", "if", "unless", "textifread", "let",
                      "delay", "write", "fetch", "flush"}

Fits(x, K) == x[1] \in K /\ ~Final(x) /\ ~Opening(x)

Steps(t, K) == AList(t) /\ \A i \in DOMAIN t : Fits(t[i], K)

(* A list that begins with opening a file, and one that ends with closing   *)
(* it.                                                                      *)
Starting(t) == AList(t) /\ \A i \in DOMAIN t : ~Final(t[i]) /\ ~Writer(t[i])

Marked(t) == \A i \in DOMAIN t : Writer(t[i]) => Before(t, i)

Opens(t) ==
  /\ AList(t) /\ Marked(t) /\ Later(t, 0, Marks)
  /\ \A i \in DOMAIN t : ~Final(t[i])

Sealed(t) ==
  /\ AList(t) /\ Later(t, 0, Flushes) /\ Later(t, 0, Closes)
  /\ \A i \in DOMAIN t :
       /\ Final(t[i]) => i = Len(t)
       /\ Writer(t[i]) => Later(t, i, Flushes)
       /\ Opening(t[i]) => Later(t, i, Closes)

LEMMA JoinedAt ==
  ASSUME NEW p, NEW q, AList(p), AList(q), NEW i \in DOMAIN (p \o q)
  PROVE  \/ i \in 1..Len(p) /\ i \in DOMAIN p /\ (p \o q)[i] = p[i]
         \/ \E j \in 1..Len(q) : j \in DOMAIN q /\ i = Len(p) + j /\ (p \o q)[i] = q[j]
<1>1. /\ AList(p \o q) /\ Len(p) \in Nat /\ Len(q) \in Nat /\ i \in 1..Len(p) + Len(q)
      /\ DOMAIN p = 1..Len(p) /\ DOMAIN q = 1..Len(q)
  BY ListFacts, JoinFacts
<1>2. CASE i \in 1..Len(p)
  BY <1>1, <1>2, JoinFacts
<1>3. CASE i \notin 1..Len(p)
  <2>1. PICK j : j = i - Len(p)
    OBVIOUS
  <2>2. j \in 1..Len(q) /\ i = Len(p) + j
    BY <1>1, <1>3, <2>1
  <2> QED  BY <1>1, <2>2, JoinFacts
<1> QED  BY <1>2, <1>3

LEMMA LaterFirst ==
  ASSUME NEW p, NEW q, AList(p), AList(q), NEW i, NEW S, Later(p, i, S)
  PROVE  Later(p \o q, i, S)
<1>1. PICK k \in DOMAIN p : k > i /\ p[k] \in S
  BY DEF Later
<1>2. k \in 1..Len(p) /\ Len(p) \in Nat /\ Len(q) \in Nat /\ AList(p \o q)
      /\ DOMAIN (p \o q) = 1..Len(p) + Len(q)
  BY ListFacts, JoinFacts
<1>3. (p \o q)[k] = p[k] /\ k \in 1..Len(p) + Len(q)
  BY <1>2, JoinFacts
<1> QED  BY <1>1, <1>2, <1>3 DEF Later

LEMMA LaterSecond ==
  ASSUME NEW p, NEW q, AList(p), AList(q), NEW i \in Nat, NEW S, Later(q, i, S),
         NEW j \in Nat, j <= Len(p) + i
  PROVE  Later(p \o q, j, S)
<1>1. PICK k \in DOMAIN q : k > i /\ q[k] \in S
  BY DEF Later
<1>2. k \in 1..Len(q) /\ Len(p) \in Nat /\ Len(q) \in Nat /\ AList(p \o q)
      /\ DOMAIN (p \o q) = 1..Len(p) + Len(q)
  BY ListFacts, JoinFacts
<1>3. (p \o q)[Len(p) + k] = q[k] /\ Len(p) + k \in 1..Len(p) + Len(q) /\ Len(p) + k > j
  BY <1>1, <1>2, JoinFacts
<1> QED  BY <1>1, <1>2, <1>3 DEF Later

LEMMA LaterRest ==
  ASSUME NEW t, AList(t), t # <<>>, NEW i \in Nat, NEW S
  PROVE  Later(Tail(t), i, S) <=> Later(t, i + 1, S)
<1>1. /\ Len(t) \in Nat /\ DOMAIN t = 1..Len(t) /\ AList(Tail(t))
      /\ DOMAIN Tail(t) = 1..Len(t) - 1
      /\ \A k \in 1..Len(t) - 1 : Tail(t)[k] = t[k + 1]
  BY ListFacts
<1>2. ASSUME Later(Tail(t), i, S) PROVE Later(t, i + 1, S)
  <2>1. PICK k \in 1..Len(t) - 1 : k > i /\ Tail(t)[k] \in S
    BY <1>1, <1>2 DEF Later
  <2>2. k + 1 \in DOMAIN t /\ k + 1 > i + 1 /\ t[k + 1] \in S
    BY <1>1, <2>1
  <2> QED  BY <2>2 DEF Later
<1>3. ASSUME Later(t, i + 1, S) PROVE Later(Tail(t), i, S)
  <2>1. PICK k \in 1..Len(t) : k > i + 1 /\ t[k] \in S
    BY <1>1, <1>3 DEF Later
  <2>2. k - 1 \in DOMAIN Tail(t) /\ k - 1 > i /\ Tail(t)[k - 1] \in S
    <3>1. k - 1 \in 1..Len(t) - 1 /\ (k - 1) + 1 = k
      BY <1>1, <2>1
    <3> QED  BY <1>1, <2>1, <3>1
  <2> QED  BY <2>2 DEF Later
<1> QED  BY <1>2, <1>3

(* What comes later comes after what has been done. *)
LEMMA LaterAtAll ==
  ASSUME NEW t, AList(t), t # <<>>, NEW S
  PROVE  /\ Later(Tail(t), 0, S) => Later(t, 0, S)
         /\ Later(t, 0, S) /\ Head(t) \notin S => Later(Tail(t), 0, S)
         /\ ~Later(<<>>, 0, S)
<1>1. Len(t) \in Nat /\ DOMAIN t = 1..Len(t) /\ Head(t) = t[1]
  BY ListFacts
<1>2. Later(Tail(t), 0, S) <=> Later(t, 1, S)
  BY LaterRest
<1>3. Later(t, 1, S) => Later(t, 0, S)
  BY <1>1 DEF Later
<1>4. Later(t, 0, S) /\ Head(t) \notin S => Later(t, 1, S)
  BY <1>1 DEF Later
<1>5. ~Later(<<>>, 0, S)
  BY DEF Later
<1> QED  BY <1>2, <1>3, <1>4, <1>5

LEMMA BeforeFirst ==
  ASSUME NEW p, NEW q, AList(p), AList(q), NEW i, Before(p, i)
  PROVE  Before(p \o q, i)
<1>1. PICK j \in DOMAIN p : j < i /\ p[j] \in Marks
  BY DEF Before
<1>2. j \in 1..Len(p) /\ Len(p) \in Nat /\ Len(q) \in Nat /\ AList(p \o q)
      /\ DOMAIN (p \o q) = 1..Len(p) + Len(q)
  BY ListFacts, JoinFacts
<1>3. (p \o q)[j] = p[j] /\ j \in 1..Len(p) + Len(q)
  BY <1>2, JoinFacts
<1> QED  BY <1>1, <1>2, <1>3 DEF Before

LEMMA BeforeSecond ==
  ASSUME NEW p, NEW q, AList(p), AList(q), NEW i \in Nat, Before(q, i)
  PROVE  Before(p \o q, Len(p) + i)
<1>1. PICK j \in DOMAIN q : j < i /\ q[j] \in Marks
  BY DEF Before
<1>2. j \in 1..Len(q) /\ Len(p) \in Nat /\ Len(q) \in Nat /\ AList(p \o q)
      /\ DOMAIN (p \o q) = 1..Len(p) + Len(q)
  BY ListFacts, JoinFacts
<1>3. (p \o q)[Len(p) + j] = q[j] /\ Len(p) + j \in 1..Len(p) + Len(q)
      /\ Len(p) + j < Len(p) + i
  BY <1>1, <1>2, JoinFacts
<1> QED  BY <1>1, <1>2, <1>3 DEF Before

LEMMA StepsJoin ==
  ASSUME NEW K, NEW p, NEW q, Steps(p, K), Steps(q, K)
  PROVE  Steps(p \o q, K)
<1>1. AList(p) /\ AList(q) /\ AList(p \o q)
  BY JoinFacts DEF Steps
<1>2. ASSUME NEW i \in DOMAIN (p \o q) PROVE Fits((p \o q)[i], K)
  BY <1>1, JoinedAt DEF Steps
<1> QED  BY <1>1, <1>2 DEF Steps

LEMMA StepsOf ==
  ASSUME NEW K, NEW L, K \subseteq L, NEW t, Steps(t, K)
  PROVE  Steps(t, L)
BY DEF Steps, Fits

LEMMA StartingJoin ==
  ASSUME NEW p, NEW q, Starting(p), Starting(q)
  PROVE  Starting(p \o q)
<1>1. AList(p) /\ AList(q) /\ AList(p \o q)
  BY JoinFacts DEF Starting
<1>2. ASSUME NEW i \in DOMAIN (p \o q)
      PROVE  ~Final((p \o q)[i]) /\ ~Writer((p \o q)[i])
  BY <1>1, JoinedAt DEF Starting
<1> QED  BY <1>1, <1>2 DEF Starting

LEMMA StepsStart ==
  ASSUME NEW t, Steps(t, Direct)
  PROVE  Starting(t)
<1>1. ASSUME NEW i \in DOMAIN t PROVE ~Final(t[i]) /\ ~Writer(t[i])
  BY <1>1 DEF Steps, Fits, Direct, Mild, Writer
<1> QED  BY <1>1 DEF Steps, Starting

LEMMA StartOpens ==
  ASSUME NEW t, Starting(t), Later(t, 0, Marks)
  PROVE  Opens(t)
BY DEF Starting, Opens, Marked

(* After a list that opens, everything is done with an open file. *)
LEMMA MarkedJoin ==
  ASSUME NEW p, NEW q, Opens(p), AList(q)
  PROVE  Marked(p \o q)
<1>1. AList(p) /\ DOMAIN p = 1..Len(p) /\ Len(p) \in Nat /\ Len(q) \in Nat
      /\ DOMAIN (p \o q) = 1..Len(p) + Len(q)
  <2>1. AList(p) /\ AList(p \o q)
    BY JoinFacts DEF Opens
  <2> QED  BY <2>1, ListFacts, JoinFacts
<1> SUFFICES ASSUME NEW i \in DOMAIN (p \o q), Writer((p \o q)[i])
             PROVE  Before(p \o q, i)
  BY DEF Marked
<1>2. CASE i \in 1..Len(p)
  <2>1. (p \o q)[i] = p[i]
    BY <1>1, <1>2, JoinFacts
  <2>2. Before(p, i)
    BY <1>1, <1>2, <2>1 DEF Opens, Marked
  <2> QED  BY <1>1, <2>2, BeforeFirst
<1>3. CASE i \notin 1..Len(p)
  <2>1. PICK j \in 1..Len(p) : p[j] \in Marks
    BY <1>1 DEF Opens, Later
  <2>2. (p \o q)[j] = p[j]
    BY <1>1, JoinFacts
  <2>3. j \in DOMAIN (p \o q) /\ j < i
    BY <1>1, <1>3
  <2> QED  BY <2>1, <2>2, <2>3 DEF Before
<1> QED  BY <1>2, <1>3

LEMMA OpensJoin ==
  ASSUME NEW p, NEW q, Opens(p), Steps(q, Any)
  PROVE  Opens(p \o q)
<1>1. AList(p) /\ AList(q) /\ AList(p \o q)
  BY JoinFacts DEF Opens, Steps
<1>2. Marked(p \o q)
  BY <1>1, MarkedJoin
<1>3. Later(p \o q, 0, Marks)
  BY <1>1, LaterFirst DEF Opens
<1>4. ASSUME NEW i \in DOMAIN (p \o q) PROVE ~Final((p \o q)[i])
  BY <1>1, JoinedAt DEF Opens, Steps, Fits
<1> QED  BY <1>1, <1>2, <1>3, <1>4 DEF Opens

LEMMA SealedJoin ==
  ASSUME NEW p, NEW q, AList(p), \A i \in DOMAIN p : ~Final(p[i]), Sealed(q)
  PROVE  Sealed(p \o q)
<1>1. /\ AList(q) /\ AList(p \o q) /\ Len(p) \in Nat /\ Len(q) \in Nat
      /\ Len(p \o q) = Len(p) + Len(q) /\ DOMAIN p = 1..Len(p) /\ DOMAIN q = 1..Len(q)
  BY ListFacts, JoinFacts DEF Sealed
<1>2. \A j \in 0..Len(p) : Later(p \o q, j, Flushes) /\ Later(p \o q, j, Closes)
  <2> SUFFICES ASSUME NEW j \in 0..Len(p)
               PROVE  Later(p \o q, j, Flushes) /\ Later(p \o q, j, Closes)
    OBVIOUS
  <2>1. 0 \in Nat /\ j \in Nat /\ j <= Len(p) + 0
    BY <1>1
  <2> QED  BY <1>1, <2>1, LaterSecond DEF Sealed
<1>3. ASSUME NEW i \in DOMAIN (p \o q)
      PROVE  /\ Final((p \o q)[i]) => i = Len(p \o q)
             /\ Writer((p \o q)[i]) => Later(p \o q, i, Flushes)
             /\ Opening((p \o q)[i]) => Later(p \o q, i, Closes)
  <2>1. CASE i \in 1..Len(p) /\ i \in DOMAIN p /\ (p \o q)[i] = p[i]
    <3>1. ~Final((p \o q)[i]) /\ i \in 0..Len(p)
      BY <1>1, <2>1
    <3> QED  BY <1>2, <3>1
  <2>2. CASE \E j \in 1..Len(q) : j \in DOMAIN q /\ i = Len(p) + j /\ (p \o q)[i] = q[j]
    <3>1. PICK j \in 1..Len(q) : j \in DOMAIN q /\ i = Len(p) + j /\ (p \o q)[i] = q[j]
      BY <2>2
    <3>2. /\ Final(q[j]) => j = Len(q)
          /\ Writer(q[j]) => Later(q, j, Flushes)
          /\ Opening(q[j]) => Later(q, j, Closes)
      BY <3>1 DEF Sealed
    <3>3. j \in Nat /\ i \in Nat /\ i <= Len(p) + j
      BY <1>1, <3>1
    <3>4. \A S : Later(q, j, S) => Later(p \o q, i, S)
      BY <1>1, <3>3, LaterSecond
    <3> QED  BY <1>1, <3>1, <3>2, <3>4
  <2> QED  BY <1>1, <2>1, <2>2, JoinedAt
<1>4. Later(p \o q, 0, Flushes) /\ Later(p \o q, 0, Closes)
  <2>1. 0 \in 0..Len(p)
    BY <1>1
  <2> QED  BY <1>2, <2>1
<1> QED  BY <1>1, <1>3, <1>4 DEF Sealed

-----------------------------------------------------------------------------
(* Every function between opening and closing: its stages fit.              *)
LEMMA FitsMild ==
  /\ \A f, v : f \notin {"open", "create"} => Fits(Checked(f, v), Mild)
  /\ Fits(Barrier, Mild) /\ Fits(Share, Mild) /\ Fits(Verify, Mild)
  /\ \A x : Fits(Bcast(x), Mild)
  /\ \A x : x # "closed" => Fits(Sets(x), Mild)
  /\ Fits(<<"send">>, Mild) /\ Fits(<<"await">>, Mild) /\ Fits(<<"count">>, Mild)
  /\ Fits(<<"all", "reduce">>, Mild)
<1>1. \A f, v : f \notin {"open", "create"} => Fits(Checked(f, v), Mild)
  BY DEF Checked, Fits, Final, Opening, Mild
<1>2. Fits(Barrier, Mild) /\ Fits(Share, Mild) /\ Fits(Verify, Mild)
  BY DEF Barrier, Share, Verify, Fits, Final, Opening, Mild
<1>3. \A x : Fits(Bcast(x), Mild)
  BY DEF Bcast, Fits, Final, Opening, Mild
<1>4. \A x : x # "closed" => Fits(Sets(x), Mild)
  BY DEF Sets, Fits, Final, Opening, Mild
<1>5. Fits(<<"send">>, Mild) /\ Fits(<<"await">>, Mild) /\ Fits(<<"count">>, Mild)
  BY DEF Fits, Final, Opening, Mild
<1>6. Fits(<<"all", "reduce">>, Mild)
  BY DEF Fits, Final, Opening, Mild
<1> QED  BY <1>1, <1>2, <1>3, <1>4, <1>5, <1>6

LEMMA FitsDirect ==
  /\ \A x : Fits(x, Mild) => Fits(x, Direct)
  /\ \A f, v : f \notin {"open", "create"} => Fits(Call(f, v), Direct)
  /\ Fits(Total, Direct)
<1>1. \A x : Fits(x, Mild) => Fits(x, Direct)
  BY DEF Fits, Direct
<1>2. \A f, v : f \notin {"open", "create"} => Fits(Call(f, v), Direct)
  BY DEF Call, Fits, Final, Opening, Direct
<1>3. Fits(Total, Direct)
  BY DEF Total, Fits, Final, Opening, Direct, Mild
<1> QED  BY <1>1, <1>2, <1>3

LEMMA FitsAny ==
  /\ \A x : Fits(x, Direct) => Fits(x, Any)
  /\ \A f, v, n : Fits(Ask(f, v, n), Any)
  /\ \A k \in {"redef", "enddef", "textifread", "flush"} : Fits(<<k>>, Any)
  /\ \A b : Fits(<<"if", b>>, Any) /\ Fits(<<"unless", b>>, Any)
  /\ \A x, n : Fits(<<"let", x, n>>, Any) /\ Fits(<<"delay", x, n>>, Any)
  /\ \A x, n : Fits(<<"write", x, n>>, Any) /\ Fits(<<"fetch", x>>, Any)
<1>1. \A x : Fits(x, Direct) => Fits(x, Any)
  BY DEF Fits, Any
<1>2. \A f, v, n : Fits(Ask(f, v, n), Any)
  BY DEF Ask, Fits, Final, Opening, Any
<1>3. \A k \in {"redef", "enddef", "textifread", "flush"} : Fits(<<k>>, Any)
  BY DEF Fits, Final, Opening, Any
<1>4. \A b : Fits(<<"if", b>>, Any) /\ Fits(<<"unless", b>>, Any)
  BY DEF Fits, Final, Opening, Any
<1>5. \A x, n : Fits(<<"let", x, n>>, Any) /\ Fits(<<"delay", x, n>>, Any)
  BY DEF Fits, Final, Opening, Any
<1>6. \A x, n : Fits(<<"write", x, n>>, Any) /\ Fits(<<"fetch", x>>, Any)
  BY DEF Fits, Final, Opening, Any
<1> QED  BY <1>1, <1>2, <1>3, <1>4, <1>5, <1>6

LEMMA StepsOne ==
  ASSUME NEW K, NEW a,
         Fits(a, K)
  PROVE  Steps(<<a>>, K)
<1>1. PICK t : t = <<a>>
  OBVIOUS
<1>2. /\ AList(t) /\ Len(t) = 1
      /\ t[1] = a
  BY <1>1, List1
<1>3. DOMAIN t = 1..1
  BY <1>2, ListFacts
<1>4. \A i \in DOMAIN t : Fits(t[i], K)
  BY <1>2, <1>3
<1> QED  BY <1>1, <1>2, <1>4 DEF Steps

LEMMA StepsTwo ==
  ASSUME NEW K, NEW a, NEW b,
         Fits(a, K), Fits(b, K)
  PROVE  Steps(<<a, b>>, K)
<1>1. PICK t : t = <<a, b>>
  OBVIOUS
<1>2. /\ AList(t) /\ Len(t) = 2
      /\ t[1] = a /\ t[2] = b
  BY <1>1, List2
<1>3. DOMAIN t = 1..2
  BY <1>2, ListFacts
<1>4. \A i \in DOMAIN t : Fits(t[i], K)
  BY <1>2, <1>3
<1> QED  BY <1>1, <1>2, <1>4 DEF Steps

LEMMA StepsThree ==
  ASSUME NEW K, NEW a, NEW b, NEW c,
         Fits(a, K), Fits(b, K), Fits(c, K)
  PROVE  Steps(<<a, b, c>>, K)
<1>1. PICK t : t = <<a, b, c>>
  OBVIOUS
<1>2. /\ AList(t) /\ Len(t) = 3
      /\ t[1] = a /\ t[2] = b /\ t[3] = c
  BY <1>1, List3
<1>3. DOMAIN t = 1..3
  BY <1>2, ListFacts
<1>4. \A i \in DOMAIN t : Fits(t[i], K)
  BY <1>2, <1>3
<1> QED  BY <1>1, <1>2, <1>4 DEF Steps

LEMMA StepsFour ==
  ASSUME NEW K, NEW a, NEW b, NEW c, NEW d,
         Fits(a, K), Fits(b, K), Fits(c, K), Fits(d, K)
  PROVE  Steps(<<a, b, c, d>>, K)
<1>1. PICK t : t = <<a, b, c, d>>
  OBVIOUS
<1>2. /\ AList(t) /\ Len(t) = 4
      /\ t[1] = a /\ t[2] = b /\ t[3] = c /\ t[4] = d
  BY <1>1, List4
<1>3. DOMAIN t = 1..4
  BY <1>2, ListFacts
<1>4. \A i \in DOMAIN t : Fits(t[i], K)
  BY <1>2, <1>3
<1> QED  BY <1>1, <1>2, <1>4 DEF Steps

LEMMA StepsFive ==
  ASSUME NEW K, NEW a, NEW b, NEW c, NEW d, NEW e,
         Fits(a, K), Fits(b, K), Fits(c, K), Fits(d, K), Fits(e, K)
  PROVE  Steps(<<a, b, c, d, e>>, K)
<1>1. PICK t : t = <<a, b, c, d, e>>
  OBVIOUS
<1>2. /\ AList(t) /\ Len(t) = 5
      /\ t[1] = a /\ t[2] = b /\ t[3] = c /\ t[4] = d
      /\ t[5] = e
  BY <1>1, List5
<1>3. DOMAIN t = 1..5
  BY <1>2, ListFacts
<1>4. \A i \in DOMAIN t : Fits(t[i], K)
  BY <1>2, <1>3
<1> QED  BY <1>1, <1>2, <1>4 DEF Steps

LEMMA StepsSix ==
  ASSUME NEW K, NEW a, NEW b, NEW c, NEW d, NEW e, NEW f,
         Fits(a, K), Fits(b, K), Fits(c, K), Fits(d, K), Fits(e, K), Fits(f, K)
  PROVE  Steps(<<a, b, c, d, e, f>>, K)
<1>1. PICK t : t = <<a, b, c, d, e, f>>
  OBVIOUS
<1>2. /\ AList(t) /\ Len(t) = 6
      /\ t[1] = a /\ t[2] = b /\ t[3] = c /\ t[4] = d
      /\ t[5] = e /\ t[6] = f
  BY <1>1, List6
<1>3. DOMAIN t = 1..6
  BY <1>2, ListFacts
<1>4. \A i \in DOMAIN t : Fits(t[i], K)
  BY <1>2, <1>3
<1> QED  BY <1>1, <1>2, <1>4 DEF Steps

LEMMA StepsEight ==
  ASSUME NEW K, NEW a, NEW b, NEW c, NEW d, NEW e, NEW f, NEW g, NEW h,
         Fits(a, K), Fits(b, K), Fits(c, K), Fits(d, K), Fits(e, K), Fits(f, K), Fits(g, K),
         Fits(h, K)
  PROVE  Steps(<<a, b, c, d, e, f, g, h>>, K)
<1>1. PICK t : t = <<a, b, c, d, e, f, g, h>>
  OBVIOUS
<1>2. /\ AList(t) /\ Len(t) = 8
      /\ t[1] = a /\ t[2] = b /\ t[3] = c /\ t[4] = d
      /\ t[5] = e /\ t[6] = f /\ t[7] = g /\ t[8] = h
  BY <1>1, List8
<1>3. DOMAIN t = 1..8
  BY <1>2, ListFacts
<1>4. \A i \in DOMAIN t : Fits(t[i], K)
  BY <1>2, <1>3
<1> QED  BY <1>1, <1>2, <1>4 DEF Steps

LEMMA EnddefImplSteps == Steps(EnddefImpl, Mild)
BY FitsMild, StepsFive DEF EnddefImpl

LEMMA RedefImplSteps == Steps(RedefImpl, Direct)
BY FitsMild, FitsDirect, StepsFive DEF RedefImpl

LEMMA TextSteps == Steps(<<Bcast("text")>>, Mild)
BY FitsMild, StepsOne

LEMMA GatherSteps ==
  ASSUME NEW v, NEW s PROVE Steps(Gather(v, s), Mild)
<1>1. AList(Gather(v, s)) /\ DOMAIN Gather(v, s) = 1..2 * Size
  BY GoodGather DEF Good, Gather
<1>2. ASSUME NEW i \in 1..2 * Size PROVE Fits(Gather(v, s)[i], Mild)
  <2>1. PICK q : Gather(v, s)[i] \in {<<"receive", q>>, <<"checked", "put", v, s, q>>}
    BY DEF Gather
  <2>2. Fits(<<"receive", q>>, Mild) /\ Fits(<<"checked", "put", v, s, q>>, Mild)
    BY DEF Fits, Final, Opening, Mild
  <2> QED  BY <2>1, <2>2
<1> QED  BY <1>1, <1>2 DEF Steps

LEMMA ServeSteps ==
  ASSUME NEW v PROVE Steps(Serve(v, Size), Mild)
<1>1. AList(Serve(v, Size)) /\ DOMAIN Serve(v, Size) = 1..3 * Size
  <2>1. Serve(v, Size) = [k \in 1..3 * Size |-> Serve(v, Size)[k]]
    BY DEF Serve
  <2>2. AList(Serve(v, Size))
    BY GoodServe DEF Good
  <2> QED  BY <2>1, <2>2
<1>2. ASSUME NEW k \in 1..3 * Size PROVE Fits(Serve(v, Size)[k], Mild)
  <2>1. PICK q : q = (k - 1) \div 3
    OBVIOUS
  <2>2. Serve(v, Size)[k] = CASE k % 3 = 1 -> <<"receive", q>>
                              [] k % 3 = 2 -> Checked("get", v)
                              [] k % 3 = 0 -> <<"reply", q>>
    BY <2>1 DEF Serve
  <2>3. k % 3 = 1 \/ k % 3 = 2 \/ k % 3 = 0
    BY FileAssumption
  <2>4. Serve(v, Size)[k] \in {<<"receive", q>>, Checked("get", v), <<"reply", q>>}
    BY <2>2, <2>3
  <2>5. Fits(<<"receive", q>>, Mild) /\ Fits(<<"reply", q>>, Mild)
    BY DEF Fits, Final, Opening, Mild
  <2> QED  BY <2>4, <2>5, FitsMild
<1> QED  BY <1>1, <1>2 DEF Steps

LEMMA TransferSteps ==
  ASSUME NEW v, NEW s PROVE Steps(PutVar(v, s), Mild) /\ Steps(GetVar(v), Mild)
<1>1. Steps(<<<<"all", "reduce">>, Checked("inq", v)>>, Mild)
  BY FitsMild, StepsTwo
<1>2. Steps(<<<<"send">>, Verify, <<"count">>>>, Mild)
  BY FitsMild, StepsThree
<1>3. Steps(<<<<"send">>, <<"await">>, Verify, <<"count">>>>, Mild)
  BY FitsMild, StepsFour
<1>4. Steps(PutVar(v, s), Mild)
  BY <1>1, <1>2, GatherSteps, StepsJoin DEF PutVar
<1>5. Steps(GetVar(v), Mild)
  BY <1>1, <1>3, ServeSteps, StepsJoin DEF GetVar
<1> QED  BY <1>4, <1>5

LEMMA SetFillSteps == Steps(SetFill, Any)
BY FitsMild, FitsDirect, FitsAny, StepsFive DEF SetFill

LEMMA GetFormatSteps == Steps(GetFormat, Any)
BY FitsMild, FitsDirect, FitsAny, StepsThree DEF GetFormat

LEMMA DefDimSteps == Steps(DefDim, Any)
BY FitsMild, FitsDirect, FitsAny, StepsFour DEF DefDim

LEMMA DefVarSteps ==
  ASSUME NEW v PROVE Steps(DefVar(v), Any)
BY FitsMild, FitsDirect, FitsAny, StepsFive DEF DefVar

LEMMA InqDimidSteps ==
  ASSUME NEW v PROVE Steps(InqDimid(v), Any)
BY FitsMild, FitsDirect, FitsAny, StepsThree DEF InqDimid

LEMMA InqDimlenSteps == Steps(InqDimlen, Any)
BY FitsMild, FitsDirect, FitsAny, StepsSix DEF InqDimlen

LEMMA InqVaridSteps ==
  ASSUME NEW v PROVE Steps(InqVarid(v), Any)
BY FitsMild, FitsDirect, FitsAny, StepsThree DEF InqVarid

LEMMA InqNvarsSteps == Steps(InqNvars, Any)
BY FitsMild, FitsDirect, FitsAny, StepsThree DEF InqNvars

LEMMA InqVarnameSteps == Steps(InqVarname, Any)
BY FitsMild, FitsDirect, FitsAny, StepsFive DEF InqVarname

LEMMA InqVardimidSteps ==
  ASSUME NEW v PROVE Steps(InqVardimid(v), Any)
BY FitsMild, FitsDirect, FitsAny, StepsEight DEF InqVardimid

LEMMA ReadTextSteps ==
  ASSUME NEW v PROVE Steps(ReadText(v), Any)
BY FitsMild, FitsDirect, FitsAny, StepsThree DEF ReadText

LEMMA GetAttTextSteps ==
  ASSUME NEW v, NEW length PROVE Steps(GetAttText(v, length), Any)
BY FitsMild, FitsDirect, FitsAny, StepsFour DEF GetAttText

LEMMA PutAttSteps ==
  ASSUME NEW v PROVE Steps(PutAtt(v), Any)
BY FitsMild, FitsDirect, FitsAny, StepsSix DEF PutAtt

LEMMA ModeSteps == Steps(Redef, Any) /\ Steps(Enddef, Any)
BY FitsAny, StepsOne, StepsTwo DEF Redef, Enddef

LEMMA WriteAttributesSteps ==
  ASSUME NEW v PROVE Steps(WriteAttributes(v), Any)
BY ModeSteps, PutAttSteps, StepsJoin DEF WriteAttributes

LEMMA DefineDimensionSteps ==
  ASSUME NEW v PROVE Steps(DefineDimension(v), Any)
BY ModeSteps, DefDimSteps, DefVarSteps, WriteAttributesSteps, StepsJoin DEF DefineDimension

LEMMA InqDimlenIfThereSteps == Steps(InqDimlenIfThere, Any)
<1>1. Steps(<<<<"if", InqDimlen>>>>, Any)
  BY FitsAny, StepsOne
<1> QED  BY <1>1, InqDimidSteps, StepsJoin DEF InqDimlenIfThere

LEMMA DefineTimeSteps == Steps(DefineTime, Any)
<1>1. Steps(<<<<"unless", DefineDimension("time")>>>>, Any)
  BY FitsAny, StepsOne
<1> QED  BY <1>1, InqVaridSteps, StepsJoin DEF DefineTime

LEMMA AppendTimeSteps == Steps(AppendTime, Any)
<1>1. Steps(<<<<"let", "start", 0>>, <<"delay", "time", "start">>>>, Any)
  BY FitsAny, StepsTwo
<1> QED  BY <1>1, InqDimlenIfThereSteps, StepsJoin DEF AppendTime

LEMMA DefineDimensionsSteps == Steps(DefineDimensions, Any)
<1>1. Steps(<<<<"unless", DefineDimension("x") \o <<<<"delay", "x", "zero">>>>>>>>, Any)
  BY FitsAny, StepsOne
<1> QED  BY <1>1, InqDimidSteps, StepsJoin DEF DefineDimensions

LEMMA DefineSpatialVariableSteps ==
  ASSUME NEW v PROVE Steps(DefineSpatialVariable(v), Any)
<1>1. Steps(<<<<"unless",
             DefineDimensions \o Redef \o DefVar(v) \o WriteAttributes(v)>>>>, Any)
  BY FitsAny, StepsOne
<1> QED  BY <1>1, InqVaridSteps, StepsJoin DEF DefineSpatialVariable

LEMMA InqDimtypeSteps == Steps(InqDimtype, Any)
BY InqVaridSteps, GetAttTextSteps, StepsJoin DEF InqDimtype

LEMMA StartSteps ==
  ASSUME NEW v PROVE Steps(ComputeStartAndCount(v), Any) /\ Steps(UseMappedIO(v), Any)
BY InqVardimidSteps, InqDimtypeSteps, StepsJoin DEF ComputeStartAndCount, UseMappedIO

LEMMA PutVecSteps ==
  ASSUME NEW v PROVE Steps(PutVec(v), Any)
<1>1. Steps(<<<<"let", "last", 1>>>>, Any)
  BY FitsAny, StepsOne
<1>2. Steps(<<<<"enddef">>, <<"write", v, "last">>>>, Any)
  BY FitsAny, StepsTwo
<1> QED  BY <1>1, <1>2, ModeSteps, InqDimlenIfThereSteps, StartSteps, StepsJoin DEF PutVec

LEMMA InqVarSteps ==
  ASSUME NEW v PROVE Steps(InqVar(v), Any)
<1>1. Steps(<<<<"unless", InqVarid(v)>>>>, Any)
  BY FitsAny, StepsOne
<1> QED  BY <1>1, InqNvarsSteps, InqVarnameSteps, GetAttTextSteps, StepsJoin DEF InqVar

LEMMA WriteSpatialVariableSteps ==
  ASSUME NEW v PROVE Steps(WriteSpatialVariable(v), Any)
BY InqVarSteps, PutVecSteps, StepsJoin DEF WriteSpatialVariable

LEMMA WriteMetadataSteps == Steps(WriteMetadata, Any)
<1>1. Steps(<<<<"unless", Redef \o DefVar("mapping")>>>>, Any)
  BY FitsAny, StepsOne
<1> QED  BY <1>1, InqVaridSteps, WriteAttributesSteps, StepsJoin DEF WriteMetadata

LEMMA DefineTimeBoundsSteps == Steps(DefineTimeBounds, Any)
<1>1. Steps(<<<<"unless", DefDim>>>>, Any)
  BY FitsAny, StepsOne
<1>2. Steps(InqVarid("bounds") \o Redef \o InqDimid("time") \o InqDimid("nv"), Any)
  BY InqVaridSteps, ModeSteps, InqDimidSteps, StepsJoin
<1> QED  BY <1>1, <1>2, ModeSteps, DefVarSteps, WriteAttributesSteps, StepsJoin
         DEF DefineTimeBounds

LEMMA WriteTimeBoundsSteps == Steps(WriteTimeBounds, Any)
<1>1. Steps(<<<<"unless", DefineTimeBounds>>>>, Any)
  BY FitsAny, StepsOne
<1>2. Steps(<<<<"enddef">>, <<"write", "bounds", "record">>>>, Any)
  BY FitsAny, StepsTwo
<1> QED  BY <1>1, <1>2, InqVaridSteps, ModeSteps, StepsJoin DEF WriteTimeBounds

LEMMA DefineTimeseriesSteps == Steps(DefineTimeseries, Any)
BY InqDimidSteps, InqVaridSteps, ModeSteps, DefVarSteps, WriteAttributesSteps, StepsJoin
   DEF DefineTimeseries

LEMMA WriteTimeseriesSteps == Steps(WriteTimeseries, Any)
<1>1. Steps(<<<<"unless", DefineTimeseries>>, <<"delay", "stamp", "record">>>>, Any)
  BY FitsAny, StepsTwo
<1> QED  BY <1>1, InqVaridSteps, StepsJoin DEF WriteTimeseries

(* What is done under a condition. *)
LEMMA NestedSteps ==
  ASSUME NEW b, Nested(b) PROVE Steps(b, Any)
<1>1. PICK v : \/ b = DefineDimension(v)
               \/ b = DefineDimension("x") \o <<<<"delay", "x", "zero">>>>
               \/ b = InqDimlen
               \/ b = ReadText(v)
               \/ b = DefineDimensions \o Redef \o DefVar(v) \o WriteAttributes(v)
               \/ b = InqVarid(v)
               \/ b = Redef \o DefVar("mapping")
               \/ b = DefDim
               \/ b = DefineTimeBounds
               \/ b = DefineTimeseries
  BY DEF Nested
<1>2. Steps(DefineDimension("x") \o <<<<"delay", "x", "zero">>>>, Any)
  <2>1. Steps(<<<<"delay", "x", "zero">>>>, Any)
    BY FitsAny, StepsOne
  <2> QED  BY <2>1, DefineDimensionSteps, StepsJoin
<1>3. Steps(DefineDimensions \o Redef \o DefVar(v) \o WriteAttributes(v), Any)
  BY DefineDimensionsSteps, ModeSteps, DefVarSteps, WriteAttributesSteps, StepsJoin
<1>4. Steps(Redef \o DefVar("mapping"), Any)
  BY ModeSteps, DefVarSteps, StepsJoin
<1> QED  BY <1>1, <1>2, <1>3, <1>4, DefineDimensionSteps, InqDimlenSteps, ReadTextSteps,
            InqVaridSteps, DefDimSteps, DefineTimeBoundsSteps, DefineTimeseriesSteps

-----------------------------------------------------------------------------
(* A file is opened first and closed last.                                  *)
LEMMA StartingTry ==
  ASSUME NEW f PROVE Starting(Try(f))
<1>1. PICK t : t = <<Call(f, "file"), Barrier, Bcast("answer"), Share, Verify>>
  OBVIOUS
<1>2. /\ AList(t) /\ Len(t) = 5 /\ t[1] = Call(f, "file") /\ t[2] = Barrier
      /\ t[3] = Bcast("answer") /\ t[4] = Share /\ t[5] = Verify
  BY <1>1, List5
<1>3. DOMAIN t = 1..5
  BY <1>2, ListFacts
<1>4. /\ ~Final(Call(f, "file")) /\ ~Writer(Call(f, "file"))
      /\ ~Final(Barrier) /\ ~Writer(Barrier) /\ ~Final(Bcast("answer"))
      /\ ~Writer(Bcast("answer"))
  BY DEF Final, Writer, Call, Barrier, Bcast
<1>5. ~Final(Share) /\ ~Writer(Share) /\ ~Final(Verify) /\ ~Writer(Verify)
  BY DEF Final, Writer, Share, Verify
<1>6. \A i \in DOMAIN t : ~Final(t[i]) /\ ~Writer(t[i])
  BY <1>2, <1>3, <1>4, <1>5
<1> QED  BY <1>1, <1>2, <1>6 DEF Starting, Try

LEMMA StartingMark ==
  ASSUME NEW x \in {"opened", "created"}
  PROVE  Starting(<<Sets(x)>>) /\ Later(<<Sets(x)>>, 0, Marks)
<1>1. PICK t : t = <<Sets(x)>>
  OBVIOUS
<1>2. AList(t) /\ Len(t) = 1 /\ t[1] = Sets(x)
  BY <1>1, List1
<1>3. DOMAIN t = 1..1
  BY <1>2, ListFacts
<1>4. ~Final(Sets(x)) /\ ~Writer(Sets(x)) /\ Sets(x) \in Marks
  BY DEF Final, Writer, Sets, Marks
<1>5. Starting(t)
  BY <1>2, <1>3, <1>4 DEF Starting
<1>6. Later(t, 0, Marks)
  <2>1. 1 \in DOMAIN t /\ 1 > 0 /\ t[1] \in Marks
    BY <1>2, <1>3, <1>4
  <2> QED  BY <2>1 DEF Later
<1> QED  BY <1>1, <1>5, <1>6

LEMMA StartingOpens ==
  ASSUME NEW p, NEW q, Starting(p), Starting(q), Later(q, 0, Marks)
  PROVE  Starting(p \o q) /\ Later(p \o q, 0, Marks)
<1>1. AList(p) /\ AList(q)
  BY DEF Starting
<1>2. 0 \in Nat /\ 0 <= Len(p) + 0
  BY <1>1, ListFacts
<1> QED  BY <1>1, <1>2, LaterSecond, StartingJoin

LEMMA OpensFile == Opens(CreateFile) /\ Opens(OpenFile) /\ Opens(OpenToRead)
<1>1. /\ Starting(Create) /\ Later(Create, 0, Marks)
      /\ Starting(Open) /\ Later(Open, 0, Marks)
  BY StartingTry, StartingMark, StartingOpens DEF Create, Open
<1>2. Starting(MoveIfExists)
  <2>1. Steps(MoveIfExists, Direct)
    BY FitsMild, FitsDirect, StepsThree DEF MoveIfExists
  <2> QED  BY <2>1, StepsStart
<1>3. Starting(DetectMode)
  <2>1. Steps(GetFormat, Direct)
    BY FitsMild, FitsDirect, StepsThree DEF GetFormat
  <2>2. Starting(GetFormat)
    BY <2>1, StepsStart
  <2> QED  BY <2>2, StartingTry, StartingJoin DEF DetectMode
<1>4. Opens(MoveIfExists \o Create) /\ Opens(DetectMode \o Open) /\ Opens(Open)
  BY <1>1, <1>2, <1>3, StartingOpens, StartOpens
<1> QED  BY <1>4, SetFillSteps, OpensJoin DEF CreateFile, OpenFile, OpenToRead

(* What CloseFile consists of. *)
LEMMA ClosingStages ==
  /\ AList(CloseFile) /\ DOMAIN CloseFile = 1..7 /\ Len(CloseFile) = 7
  /\ CloseFile[1] = <<"flush">> /\ CloseFile[2] = Call("close", "file")
  /\ CloseFile[3] = Barrier /\ CloseFile[4] = Bcast("answer") /\ CloseFile[5] = Share
  /\ CloseFile[6] = Verify /\ CloseFile[7] = Sets("closed")
<1>1. PICK t : t = <<Call("close", "file"), Barrier, Bcast("answer"), Share, Verify>>
  OBVIOUS
<1>2. /\ AList(t) /\ Len(t) = 5 /\ t[1] = Call("close", "file") /\ t[2] = Barrier
      /\ t[3] = Bcast("answer") /\ t[4] = Share /\ t[5] = Verify
  BY <1>1, List5
<1>3. PICK b : b = <<Sets("closed")>>
  OBVIOUS
<1>4. AList(b) /\ Len(b) = 1 /\ b[1] = Sets("closed")
  BY <1>3, List1
<1>5. PICK u : u = t \o b
  OBVIOUS
<1>6. /\ AList(u) /\ Len(u) = 6 /\ u[1] = Call("close", "file") /\ u[2] = Barrier
      /\ u[3] = Bcast("answer") /\ u[4] = Share /\ u[5] = Verify /\ u[6] = Sets("closed")
  <2>1. AList(t) /\ AList(b)
    BY <1>2, <1>4
  <2>2. /\ AList(u) /\ Len(u) = Len(t) + Len(b) /\ \A i \in 1..Len(t) : u[i] = t[i]
        /\ \A i \in 1..Len(b) : u[Len(t) + i] = b[i]
    BY <2>1, <1>5, JoinFacts
  <2>3. /\ AList(u) /\ Len(u) = 5 + 1 /\ \A i \in 1..5 : u[i] = t[i]
        /\ \A i \in 1..1 : u[5 + i] = b[i]
    BY <1>2, <1>4, <2>2
  <2>4. u[5 + 1] = b[1]
    BY <2>3
  <2> QED  BY <1>2, <1>4, <2>3, <2>4
<1>7. PICK a : a = <<<<"flush">>>>
  OBVIOUS
<1>8. AList(a) /\ Len(a) = 1 /\ a[1] = <<"flush">>
  BY <1>7, List1
<1>9. PICK c : c = a \o u
  OBVIOUS
<1>10. /\ AList(c) /\ Len(c) = 7 /\ c[1] = <<"flush">> /\ c[2] = Call("close", "file")
       /\ c[3] = Barrier /\ c[4] = Bcast("answer") /\ c[5] = Share /\ c[6] = Verify
       /\ c[7] = Sets("closed")
  <2>1. AList(a) /\ AList(u)
    BY <1>6, <1>8
  <2>2. /\ AList(c) /\ Len(c) = Len(a) + Len(u) /\ \A i \in 1..Len(a) : c[i] = a[i]
        /\ \A i \in 1..Len(u) : c[Len(a) + i] = u[i]
    BY <2>1, <1>9, JoinFacts
  <2>3. /\ AList(c) /\ Len(c) = 1 + 6 /\ \A i \in 1..1 : c[i] = a[i]
        /\ \A i \in 1..6 : c[1 + i] = u[i]
    BY <1>6, <1>8, <2>2
  <2>4. /\ c[1] = a[1] /\ c[1 + 1] = u[1] /\ c[1 + 2] = u[2] /\ c[1 + 3] = u[3]
        /\ c[1 + 4] = u[4] /\ c[1 + 5] = u[5] /\ c[1 + 6] = u[6]
    BY <2>3
  <2> QED  BY <1>6, <1>8, <2>3, <2>4
<1>11. DOMAIN c = 1..7
  BY <1>10, ListFacts
<1>12. c = CloseFile
  BY <1>1, <1>3, <1>5, <1>7, <1>9 DEF CloseFile, Close, Try
<1> QED  BY <1>10, <1>11, <1>12

LEMMA SealedClosing == Sealed(CloseFile)
<1>1. PICK t : t = CloseFile
  OBVIOUS
<1>2. /\ AList(t) /\ DOMAIN t = 1..7 /\ Len(t) = 7
      /\ t[1] = <<"flush">> /\ t[2] = Call("close", "file") /\ t[3] = Barrier
      /\ t[4] = Bcast("answer") /\ t[5] = Share /\ t[6] = Verify /\ t[7] = Sets("closed")
  BY <1>1, ClosingStages
<1>3. Later(t, 0, Flushes)
  <2>1. 1 \in DOMAIN t /\ 1 > 0 /\ t[1] \in Flushes
    BY <1>2 DEF Flushes
  <2> QED  BY <2>1 DEF Later
<1>4. Later(t, 0, Closes)
  <2>1. 2 \in DOMAIN t /\ 2 > 0 /\ t[2] \in Closes
    BY <1>2 DEF Closes
  <2> QED  BY <2>1 DEF Later
<1>5. \A x \in {<<"flush">>, Call("close", "file"), Barrier, Bcast("answer"), Share, Verify} :
        ~Final(x) /\ ~Writer(x) /\ ~Opening(x)
  <2>1. PICK x : x = <<"flush">>
    OBVIOUS
  <2>2. ~Final(x) /\ ~Writer(x) /\ ~Opening(x)
    BY <2>1 DEF Final, Writer, Opening
  <2>3. /\ ~Final(Call("close", "file")) /\ ~Writer(Call("close", "file"))
        /\ ~Opening(Call("close", "file"))
    BY DEF Final, Writer, Opening, Call
  <2>4. \A y \in {Barrier, Bcast("answer")} : ~Final(y) /\ ~Writer(y) /\ ~Opening(y)
    BY DEF Final, Writer, Opening, Barrier, Bcast
  <2>5. \A y \in {Share, Verify} : ~Final(y) /\ ~Writer(y) /\ ~Opening(y)
    BY DEF Final, Writer, Opening, Share, Verify
  <2> QED  BY <2>1, <2>2, <2>3, <2>4, <2>5
<1>6. ~Writer(Sets("closed")) /\ ~Opening(Sets("closed"))
  BY DEF Writer, Opening, Sets
<1>7. ASSUME NEW i \in DOMAIN t
      PROVE  ~Writer(t[i]) /\ ~Opening(t[i]) /\ (Final(t[i]) => i = Len(t))
  <2>1. i = 7 \/ t[i] \in {<<"flush">>, Call("close", "file"), Barrier, Bcast("answer"),
                           Share, Verify}
    BY <1>2
  <2> QED  BY <1>2, <1>5, <1>6, <2>1
<1> QED  BY <1>1, <1>2, <1>3, <1>4, <1>7 DEF Sealed

LEMMA StepsSealed ==
  ASSUME NEW p, NEW q, Steps(p, Any), Sealed(q)
  PROVE  Sealed(p \o q)
<1>1. AList(p) /\ \A i \in DOMAIN p : ~Final(p[i])
  BY DEF Steps, Fits
<1> QED  BY <1>1, SealedJoin

LEMMA OpensSealed ==
  ASSUME NEW p, NEW q, Opens(p), Sealed(q)
  PROVE  Sealed(p \o q) /\ Marked(p \o q)
<1>1. AList(p) /\ \A i \in DOMAIN p : ~Final(p[i])
  BY DEF Opens
<1>2. AList(q)
  BY DEF Sealed
<1> QED  BY <1>1, <1>2, SealedJoin, MarkedJoin

LEMMA SealedRecords == Sealed(ExtraRecord) /\ Sealed(SnapshotRecord)
<1>1. Steps(<<<<"let", "record", 0>>>>, Any) /\ Steps(<<<<"let", "record", 1>>>>, Any)
  BY FitsAny, StepsOne
<1>2. Steps(DefineSpatialVariable("thk"), Any) /\ Steps(WriteSpatialVariable("thk"), Any)
  BY DefineSpatialVariableSteps, WriteSpatialVariableSteps
<1>3. Steps(InqDimlenIfThere \o <<<<"let", "record", 0>>>> \o AppendTime, Any)
  BY <1>1, InqDimlenIfThereSteps, AppendTimeSteps, StepsJoin
<1>4. Steps(InqDimlenIfThere \o <<<<"let", "record", 0>>>> \o AppendTime
            \o WriteTimeBounds \o WriteTimeseries
            \o DefineSpatialVariable("thk") \o WriteSpatialVariable("thk"), Any)
  BY <1>2, <1>3, WriteTimeBoundsSteps, WriteTimeseriesSteps, StepsJoin
<1>5. Steps(AppendTime \o DefineSpatialVariable("thk") \o WriteSpatialVariable("thk")
            \o InqDimlenIfThere \o <<<<"let", "record", 1>>>> \o WriteTimeseries, Any)
  BY <1>1, <1>2, AppendTimeSteps, InqDimlenIfThereSteps, WriteTimeseriesSteps, StepsJoin
<1>6. Sealed(ExtraRecord)
  BY <1>4, SealedClosing, StepsSealed DEF ExtraRecord
<1>7. Sealed(SnapshotRecord)
  BY <1>5, SealedClosing, StepsSealed DEF SnapshotRecord
<1> QED  BY <1>6, <1>7

(* Every session is closed, and writes to a file that it has opened. *)
LEMMA SessionCloses ==
  ASSUME NEW name \in SessionNames
  PROVE  Sealed(Session(name)) /\ Marked(Session(name))
<1>1. Steps(DefineSpatialVariable("thk"), Any) /\ Steps(WriteSpatialVariable("thk"), Any)
  BY DefineSpatialVariableSteps, WriteSpatialVariableSteps
<1>2. Sealed(Dump) /\ Marked(Dump)
  <2>1. Opens(CreateFile \o WriteMetadata \o DefineTime \o AppendTime)
    BY OpensFile, WriteMetadataSteps, DefineTimeSteps, AppendTimeSteps, OpensJoin
  <2>2. Opens(CreateFile \o WriteMetadata \o DefineTime \o AppendTime
              \o DefineSpatialVariable("thk") \o WriteSpatialVariable("thk"))
    BY <1>1, <2>1, OpensJoin
  <2> QED  BY <2>2, SealedClosing, OpensSealed DEF Dump
<1>3. Sealed(FirstExtras) /\ Marked(FirstExtras)
  <2>1. Opens(CreateFile \o DefineTime \o WriteAttributes("time") \o WriteMetadata)
    BY OpensFile, DefineTimeSteps, WriteAttributesSteps, WriteMetadataSteps, OpensJoin
  <2> QED  BY <2>1, SealedRecords, OpensSealed DEF FirstExtras
<1>4. Sealed(LaterExtras) /\ Marked(LaterExtras)
  BY OpensFile, SealedRecords, OpensSealed DEF LaterExtras
<1>5. Sealed(FirstSnapshot) /\ Marked(FirstSnapshot)
  <2>1. Opens(CreateFile \o DefineTime \o WriteMetadata)
    BY OpensFile, DefineTimeSteps, WriteMetadataSteps, OpensJoin
  <2> QED  BY <2>1, SealedRecords, OpensSealed DEF FirstSnapshot
<1>6. Sealed(LaterSnapshot) /\ Marked(LaterSnapshot)
  BY OpensFile, SealedRecords, OpensSealed DEF LaterSnapshot
<1>7. Sealed(ReadField) /\ Marked(ReadField)
  <2>1. Steps(<<<<"enddef">>, <<"fetch", "thk">>>>, Any)
    BY FitsAny, StepsTwo
  <2>2. Opens(OpenToRead \o InqVar("thk") \o ComputeStartAndCount("thk")
              \o UseMappedIO("thk"))
    BY OpensFile, InqVarSteps, StartSteps, OpensJoin
  <2>3. Opens(OpenToRead \o InqVar("thk") \o ComputeStartAndCount("thk")
              \o UseMappedIO("thk") \o <<<<"enddef">>, <<"fetch", "thk">>>>)
    BY <2>1, <2>2, OpensJoin
  <2> QED  BY <2>3, SealedClosing, OpensSealed DEF ReadField
<1> QED  BY <1>2, <1>3, <1>4, <1>5, <1>6, <1>7 DEF SessionNames, Session

-----------------------------------------------------------------------------
(* What processors do and what the slots see of it.                         *)
Here(r) == View(r, stat[r], answer[r])

Sight(s, a) ==
  [r \in Ranks |-> IF r = 0 THEN View(0, s, a) ELSE Here(r)]

Vectors ==
  /\ todo = [r \in Ranks |-> todo[r]]
  /\ state = [r \in Ranks |-> state[r]]
  /\ stat = [r \in Ranks |-> stat[r]]
  /\ answer = [r \in Ranks |-> answer[r]]
  /\ starts = [r \in Ranks |-> starts[r]]
  /\ define = [r \in Ranks |-> define[r]]
  /\ named = [r \in Ranks |-> named[r]]
  /\ delayed = [r \in Ranks |-> delayed[r]]
  /\ inside \in [Ranks -> BOOLEAN]

IsSlot(x) ==
  x = [calls |-> x.calls, entered |-> x.entered, left |-> x.left, stat |-> x.stat,
       answer |-> x.answer]

Programs == \A r \in Ranks : Good(todo[r])

Shapes == Vectors /\ Programs /\ \A n \in 1..Len(slots) : IsSlot(slots[n])

(* What the others would know if they asked processor 0 now.                *)
Shared(s, a) ==
  /\ s = stat[0] \/ Told(todo[0], 1, Statuses)
  /\ a = answer[0] \/ Told(todo[0], 1, Answers)

FilesInv ==
  ~alone => /\ Shapes
            /\ \E s : \E a :
                 /\ Shared(s, a)
                 /\ \E h : \E D : \E e : Matched(slots, inside, Sight(s, a), h, D, e)

(* The others do nothing. *)
Stays(q) ==
  /\ todo'[q] = todo[q] /\ state'[q] = state[q] /\ stat'[q] = stat[q]
  /\ answer'[q] = answer[q] /\ starts'[q] = starts[q] /\ define'[q] = define[q]
  /\ named'[q] = named[q] /\ delayed'[q] = delayed[q]

(* Processor r moves by itself.                                             *)
Moving(r) ==
  /\ Vectors' /\ \A q \in Ranks : q # r => Stays(q)
  /\ Moves(Here(r)) /\ Here(r)' = Moved(Here(r))
  /\ slots' = slots /\ inside' = inside /\ alone' = alone

(* The fields of Advanced.                                                  *)
Advances(r) ==
  LET x == Head(todo[r])
  IN  /\ todo'[r] = More(Here(r)) \o Tail(todo[r])
      /\ state'[r] = state[r]
      /\ stat'[r] = IF x[1] = "textifread" THEN 0 ELSE stat[r]
      /\ answer'[r] = answer[r]
      /\ starts'[r] = IF x[1] # "let" THEN starts[r]
                      ELSE [starts[r] EXCEPT ![x[2]] =
                              IF answer[r] < x[3] THEN 0 ELSE answer[r] - x[3]]
      /\ define'[r] = IF x[1] # "sets" THEN define[r]
                      ELSE x[2] \in {"created", "define"} \/ (x[2] = "closed" /\ define[r])
      /\ named'[r] = IF x[1] # "sets" THEN named[r] ELSE x[2] # "closed"
      /\ delayed'[r] = CASE x[1] = "delay" -> Append(delayed[r], <<x[2], starts[r][x[3]]>>)
                         [] x[1] = "pop"   -> Tail(delayed[r])
                         [] OTHER          -> delayed[r]

LEMMA ViewFields ==
  ASSUME NEW r, NEW s, NEW a
  PROVE  /\ View(r, s, a).todo = todo[r] /\ View(r, s, a).state = state[r]
         /\ View(r, s, a).stat = s /\ View(r, s, a).answer = a
         /\ View(r, s, a).starts = starts[r] /\ View(r, s, a).define = define[r]
         /\ View(r, s, a).named = named[r] /\ View(r, s, a).delayed = delayed[r]
BY DEF View

LEMMA AdvanceMoves ==
  ASSUME NEW r \in Ranks, NEW k, At(r, k), k \notin {"all", "bcast"},
         k = "verify" => stat[r] = 0, Advances(r)
  PROVE  Moves(Here(r)) /\ Here(r)' = Moved(Here(r))
<1>1. /\ Here(r).todo = todo[r] /\ Here(r).state = state[r] /\ Here(r).stat = stat[r]
      /\ Here(r).answer = answer[r] /\ Here(r).starts = starts[r]
      /\ Here(r).define = define[r] /\ Here(r).named = named[r]
      /\ Here(r).delayed = delayed[r]
  BY ViewFields DEF Here
<1>2. Moves(Here(r))
  BY <1>1 DEF At, Moves, Waits, Working
<1>3. Moved(Here(r)) = Advanced(Here(r))
  BY <1>1 DEF At, Moved
<1>4. Here(r)' = [todo |-> todo'[r], state |-> state'[r], stat |-> stat'[r],
                  answer |-> answer'[r], starts |-> starts'[r], define |-> define'[r],
                  named |-> named'[r], delayed |-> delayed'[r]]
  BY DEF Here, View
<1>5. Here(r)' = Advanced(Here(r))
  BY <1>1, <1>4 DEF Advances, Advanced
<1> QED  BY <1>2, <1>3, <1>5

LEMMA MoreFacts ==
  ASSUME NEW c
  PROVE  LET x == Head(c.todo)
         IN  /\ x[1] \notin {"redef", "enddef", "if", "unless", "textifread", "flush", "write",
                             "fetch", "session"} => More(c) = <<>>
             /\ x[1] = "redef" => More(c) = IF c.define THEN <<>> ELSE RedefImpl
             /\ x[1] = "enddef" => More(c) = IF c.define THEN EnddefImpl ELSE <<>>
             /\ x[1] = "if" => More(c) = IF c.answer # 0 THEN x[2] ELSE <<>>
             /\ x[1] = "unless" => More(c) = IF c.answer = 0 THEN x[2] ELSE <<>>
             /\ x[1] = "textifread" => More(c) = IF c.stat = 0 THEN <<Bcast("text")>> ELSE <<>>
             /\ x[1] = "flush" => More(c) = IF c.delayed = <<>> THEN <<>> ELSE
                  <<<<"enddef">>>> \o PutVar(Head(c.delayed)[1], Head(c.delayed)[2])
                  \o <<<<"pop">>, <<"flush">>>>
             /\ x[1] = "write" => More(c) = PutVar(x[2], c.starts[x[3]])
             /\ x[1] = "fetch" => More(c) = GetVar(x[2])
             /\ x[1] = "session" => More(c) = Session(x[2])
<1> DEFINE x == Head(c.todo)
<1>1. x[1] \notin {"redef", "enddef", "if", "unless", "textifread", "flush", "write",
                   "fetch", "session"} => More(c) = <<>>
  BY DEF More
<1>2. x[1] = "redef" => More(c) = IF c.define THEN <<>> ELSE RedefImpl
  BY DEF More
<1>3. x[1] = "enddef" => More(c) = IF c.define THEN EnddefImpl ELSE <<>>
  BY DEF More
<1>4. x[1] = "if" => More(c) = IF c.answer # 0 THEN x[2] ELSE <<>>
  BY DEF More
<1>5. x[1] = "unless" => More(c) = IF c.answer = 0 THEN x[2] ELSE <<>>
  BY DEF More
<1>6. x[1] = "textifread" => More(c) = IF c.stat = 0 THEN <<Bcast("text")>> ELSE <<>>
  BY DEF More
<1>7. x[1] = "flush" => More(c) = IF c.delayed = <<>> THEN <<>> ELSE
         <<<<"enddef">>>> \o PutVar(Head(c.delayed)[1], Head(c.delayed)[2])
         \o <<<<"pop">>, <<"flush">>>>
  BY DEF More
<1>8. x[1] = "write" => More(c) = PutVar(x[2], c.starts[x[3]])
  BY DEF More
<1>9. x[1] = "fetch" => More(c) = GetVar(x[2])
  BY DEF More
<1>10. x[1] = "session" => More(c) = Session(x[2])
  BY DEF More
<1> QED  BY <1>1, <1>2, <1>3, <1>4, <1>5, <1>6, <1>7, <1>8, <1>9, <1>10

(* What a processor does next is a good program again. *)
LEMMA GoodMore ==
  ASSUME NEW c, Good(c.todo), c.todo # <<>>
  PROVE  Good(More(c))
<1> DEFINE x == Head(c.todo)
<1>1. Known(x)
  BY GoodRest
<1>2. CASE x[1] \in {"redef", "enddef"}
  BY <1>2, MoreFacts, GoodRedefImpl, GoodEnddefImpl, EmptyIsGood
<1>3. CASE x[1] \in {"if", "unless"}
  <2>1. Good(x[2])
    BY <1>1, <1>3, GoodNested DEF Known
  <2> QED  BY <2>1, <1>3, MoreFacts, EmptyIsGood
<1>4. CASE x[1] = "textifread"
  <2>1. Good(<<Bcast("text")>>)
    BY OneIsGood, PlainStages
  <2> QED  BY <2>1, <1>4, MoreFacts, EmptyIsGood
<1>5. CASE x[1] = "flush"
  <2>1. Good(<<<<"enddef">>>>) /\ Good(<<<<"pop">>, <<"flush">>>>)
    BY OneIsGood, GoodTwo, PlainWords
  <2>2. ASSUME NEW v, NEW s
        PROVE  Good(<<<<"enddef">>>> \o PutVar(v, s) \o <<<<"pop">>, <<"flush">>>>)
    BY <2>1, GoodPutVar, GoodJoin
  <2> QED  BY <2>2, <1>5, MoreFacts, EmptyIsGood
<1>6. CASE x[1] \in {"write", "fetch"}
  BY <1>6, MoreFacts, GoodPutVar, GoodGetVar
<1>7. CASE x[1] = "session"
  BY <1>1, <1>7, MoreFacts, GoodSession DEF Known
<1>8. CASE x[1] \notin {"redef", "enddef", "if", "unless", "textifread", "flush", "write",
                        "fetch", "session"}
  BY <1>8, MoreFacts, EmptyIsGood
<1> HIDE DEF x
<1> QED  BY <1>2, <1>3, <1>4, <1>5, <1>6, <1>7, <1>8

LEMMA GoodMoved ==
  ASSUME NEW c, Good(c.todo)
  PROVE  Good(Moved(c).todo)
<1>1. CASE c.todo = <<>>
  <2>1. Moved(c).todo = c.todo
    BY <1>1 DEF Moved
  <2> QED  BY <2>1
<1>2. CASE c.todo # <<>> /\ Head(c.todo)[1] = "verify" /\ c.stat # 0
  <2>1. Moved(c) = Thrown(c)
    BY <1>2 DEF Moved
  <2>2. Thrown(c).todo = CloseFile \/ Thrown(c).todo = <<>>
    BY DEF Thrown
  <2> QED  BY <2>1, <2>2, GoodCloseFile, EmptyIsGood
<1>3. CASE c.todo # <<>> /\ ~(Head(c.todo)[1] = "verify" /\ c.stat # 0)
  <2>1. Moved(c) = Advanced(c)
    BY <1>3 DEF Moved
  <2>2. Advanced(c).todo = More(c) \o Tail(c.todo)
    BY DEF Advanced
  <2>3. Good(More(c)) /\ Good(Tail(c.todo))
    BY <1>3, GoodMore, GoodRest
  <2> QED  BY <2>1, <2>2, <2>3, GoodJoin
<1> QED  BY <1>1, <1>2, <1>3

-----------------------------------------------------------------------------
(* What is ahead of a processor that is running, and of one that unwinds.   *)
Resting(t) == \A k \in DOMAIN t : t[k][1] = "session"

Sound(t, nm) ==
  \A i \in DOMAIN t :
    /\ Writer(t[i]) => Later(t, i, Flushes) /\ (nm \/ Before(t, i))
    /\ Final(t[i]) => \A k \in DOMAIN t : k > i => t[k][1] = "session"
    /\ Opening(t[i]) => Later(t, i, Closes)

Quit == Mild \union {"enddef", "pop", "flush"}

Ending(t) ==
  \A i \in DOMAIN t :
    /\ t[i][1] \in Quit \union {"call"} /\ ~Opening(t[i])
    /\ t[i][1] = "pop" => Later(t, i, Flushes)
    /\ t[i][1] = "call" => ~Later(t, i, Flushes)

(* What is delayed will be written, and to an open file; an error stops     *)
(* nobody who unwinds before that.                                          *)
Tidy(c) ==
  /\ c.state = "running" =>
       /\ Sound(c.todo, c.named)
       /\ c.delayed # <<>> => c.named /\ Later(c.todo, 0, Flushes)
  /\ c.state = "unwinding" =>
       /\ Ending(c.todo)
       /\ Later(c.todo, 0, Flushes) => c.stat = 0
       /\ c.delayed # <<>> => Later(c.todo, 0, Flushes)
  /\ c.state \in {"failed", "done"} => c.delayed = <<>>

LEMMA RestAt ==
  ASSUME NEW t, AList(t), t # <<>>, NEW i \in DOMAIN Tail(t)
  PROVE  i \in Nat /\ i >= 1 /\ i + 1 \in DOMAIN t /\ Tail(t)[i] = t[i + 1]
BY ListFacts

LEMMA LaterBack ==
  ASSUME NEW p, NEW q, AList(p), AList(q), NEW i \in Nat, NEW S, Later(p \o q, Len(p) + i, S)
  PROVE  Later(q, i, S)
<1>1. PICK k \in DOMAIN (p \o q) : k > Len(p) + i /\ (p \o q)[k] \in S
  BY DEF Later
<1>2. Len(p) \in Nat
  BY ListFacts
<1>3. ~(k \in 1..Len(p))
  BY <1>1, <1>2
<1>4. PICK j \in 1..Len(q) : j \in DOMAIN q /\ k = Len(p) + j /\ (p \o q)[k] = q[j]
  BY <1>1, <1>3, JoinedAt
<1>5. Len(q) \in Nat
  BY ListFacts
<1>6. j > i
  BY <1>1, <1>2, <1>4, <1>5
<1> QED  BY <1>1, <1>4, <1>6 DEF Later

LEMMA LaterHere ==
  ASSUME NEW p, NEW q, AList(p), AList(q), NEW S, Later(q, 0, S)
  PROVE  Later(p \o q, 0, S) /\ \A i \in DOMAIN p : Later(p \o q, i, S)
<1>1. Len(p) \in Nat /\ DOMAIN p = 1..Len(p)
  BY ListFacts
<1>2. ASSUME NEW i \in 0..Len(p) PROVE Later(p \o q, i, S)
  <2>1. i \in Nat /\ 0 \in Nat /\ i <= Len(p) + 0
    BY <1>1
  <2> QED  BY <2>1, LaterSecond
<1>3. 0 \in 0..Len(p) /\ DOMAIN p \subseteq 0..Len(p)
  BY <1>1
<1> QED  BY <1>2, <1>3

LEMMA LaterAhead ==
  ASSUME NEW p, NEW q, AList(p), AList(q), NEW S, Later(p \o q, 0, S),
         \A i \in DOMAIN p : p[i] \notin S
  PROVE  Later(q, 0, S)
<1>1. PICK k \in DOMAIN (p \o q) : (p \o q)[k] \in S
  BY DEF Later
<1>2. PICK j \in 1..Len(q) : j \in DOMAIN q /\ (p \o q)[k] = q[j]
  BY <1>1, JoinedAt
<1>3. j > 0
  BY <1>2, ListFacts
<1> QED  BY <1>1, <1>2, <1>3 DEF Later

LEMMA RestingFacts ==
  ASSUME NEW t, Resting(t), NEW nm
  PROVE  Sound(t, nm) /\ \A i : ~Later(t, i, Flushes) /\ ~Later(t, i, Closes)
<1>1. ASSUME NEW i \in DOMAIN t
      PROVE  ~Writer(t[i]) /\ ~Opening(t[i]) /\ t[i] \notin Flushes /\ t[i] \notin Closes
  BY DEF Resting, Writer, Opening, Flushes, Closes, Call
<1> QED  BY <1>1 DEF Sound, Later, Resting

(* One stage is done. *)
LEMMA SoundRest ==
  ASSUME NEW t, AList(t), t # <<>>, NEW nm, NEW nm2, Sound(t, nm), nm => nm2,
         Head(t) \in Marks => nm2
  PROVE  Sound(Tail(t), nm2)
<1> SUFFICES ASSUME NEW i \in DOMAIN Tail(t)
             PROVE  /\ Writer(Tail(t)[i]) => Later(Tail(t), i, Flushes)
                                             /\ (nm2 \/ Before(Tail(t), i))
                    /\ Final(Tail(t)[i]) =>
                         \A k \in DOMAIN Tail(t) : k > i => Tail(t)[k][1] = "session"
                    /\ Opening(Tail(t)[i]) => Later(Tail(t), i, Closes)
  BY DEF Sound
<1>1. i \in Nat /\ i >= 1 /\ i + 1 \in DOMAIN t /\ Tail(t)[i] = t[i + 1]
  BY RestAt
<1>2. /\ Writer(t[i + 1]) => Later(t, i + 1, Flushes) /\ (nm \/ Before(t, i + 1))
      /\ Final(t[i + 1]) => \A k \in DOMAIN t : k > i + 1 => t[k][1] = "session"
      /\ Opening(t[i + 1]) => Later(t, i + 1, Closes)
  BY <1>1 DEF Sound
<1>3. \A S : Later(t, i + 1, S) => Later(Tail(t), i, S)
  BY <1>1, LaterRest
<1>4. ASSUME Before(t, i + 1) PROVE nm2 \/ Before(Tail(t), i)
  <2>1. PICK j \in DOMAIN t : j < i + 1 /\ t[j] \in Marks
    BY <1>4 DEF Before
  <2>2. Len(t) \in Nat /\ DOMAIN t = 1..Len(t) /\ Head(t) = t[1]
        /\ AList(Tail(t)) /\ DOMAIN Tail(t) = 1..Len(t) - 1
        /\ \A m \in 1..Len(t) - 1 : Tail(t)[m] = t[m + 1]
    BY ListFacts
  <2>3. CASE j = 1
    BY <2>1, <2>2, <2>3
  <2>4. CASE j # 1
    <3>1. j - 1 \in 1..Len(t) - 1 /\ (j - 1) + 1 = j /\ j - 1 < i
      BY <1>1, <2>1, <2>2, <2>4
    <3>2. Tail(t)[j - 1] \in Marks
      BY <2>1, <2>2, <3>1
    <3> QED  BY <2>2, <3>1, <3>2 DEF Before
  <2> QED  BY <2>3, <2>4
<1>5. ASSUME NEW k \in DOMAIN Tail(t), k > i, Final(t[i + 1])
      PROVE  Tail(t)[k][1] = "session"
  <2>1. k \in Nat /\ k + 1 \in DOMAIN t /\ Tail(t)[k] = t[k + 1]
    BY RestAt
  <2>2. k + 1 > i + 1
    BY <1>1, <1>5, <2>1
  <2> QED  BY <1>2, <1>5, <2>1, <2>2
<1> QED  BY <1>1, <1>2, <1>3, <1>4, <1>5

LEMMA SoundHead ==
  ASSUME NEW t, AList(t), t # <<>>, NEW nm, Sound(t, nm)
  PROVE  /\ Writer(Head(t)) => Later(Tail(t), 0, Flushes) /\ nm
         /\ Final(Head(t)) => Resting(Tail(t))
         /\ Opening(Head(t)) => Later(Tail(t), 0, Closes)
<1>1. Len(t) \in Nat /\ DOMAIN t = 1..Len(t) /\ Head(t) = t[1] /\ 1 \in DOMAIN t
  BY ListFacts
<1>2. ~Before(t, 1)
  BY <1>1 DEF Before
<1>3. \A S : Later(t, 0 + 1, S) => Later(Tail(t), 0, S)
  BY LaterRest
<1>4. ASSUME Final(Head(t)) PROVE Resting(Tail(t))
  <2>1. ASSUME NEW k \in DOMAIN Tail(t) PROVE Tail(t)[k][1] = "session"
    <3>1. k \in Nat /\ k >= 1 /\ k + 1 \in DOMAIN t /\ Tail(t)[k] = t[k + 1]
      BY RestAt
    <3>2. k + 1 > 1
      BY <3>1
    <3> QED  BY <1>1, <1>4, <3>1, <3>2 DEF Sound
  <2> QED  BY <2>1 DEF Resting
<1>5. /\ Writer(Head(t)) => Later(t, 1, Flushes) /\ nm
      /\ Opening(Head(t)) => Later(t, 1, Closes)
  BY <1>1, <1>2 DEF Sound
<1> QED  BY <1>3, <1>4, <1>5

(* Some stages take its place. *)
LEMMA SoundJoin ==
  ASSUME NEW p, NEW q, AList(p), AList(q), NEW nm, Sound(q, nm),
         \A i \in DOMAIN p :
           /\ ~Final(p[i]) /\ ~Opening(p[i])
           /\ Writer(p[i]) => nm /\ (Later(p, i, Flushes) \/ Later(q, 0, Flushes))
  PROVE  Sound(p \o q, nm)
<1> SUFFICES ASSUME NEW i \in DOMAIN (p \o q)
             PROVE  /\ Writer((p \o q)[i]) => Later(p \o q, i, Flushes)
                                              /\ (nm \/ Before(p \o q, i))
                    /\ Final((p \o q)[i]) =>
                         \A k \in DOMAIN (p \o q) : k > i => (p \o q)[k][1] = "session"
                    /\ Opening((p \o q)[i]) => Later(p \o q, i, Closes)
  BY DEF Sound
<1>1. CASE i \in 1..Len(p) /\ i \in DOMAIN p /\ (p \o q)[i] = p[i]
  <2>1. Later(p, i, Flushes) => Later(p \o q, i, Flushes)
    BY LaterFirst
  <2>2. Later(q, 0, Flushes) => Later(p \o q, i, Flushes)
    BY <1>1, LaterHere
  <2> QED  BY <1>1, <2>1, <2>2
<1>2. CASE \E j \in 1..Len(q) : j \in DOMAIN q /\ i = Len(p) + j /\ (p \o q)[i] = q[j]
  <2>1. PICK j \in 1..Len(q) : j \in DOMAIN q /\ i = Len(p) + j /\ (p \o q)[i] = q[j]
    BY <1>2
  <2>2. Len(p) \in Nat /\ Len(q) \in Nat /\ j \in Nat /\ i \in Nat /\ i <= Len(p) + j
    BY <2>1, ListFacts
  <2>3. /\ Writer(q[j]) => Later(q, j, Flushes) /\ (nm \/ Before(q, j))
        /\ Final(q[j]) => \A k \in DOMAIN q : k > j => q[k][1] = "session"
        /\ Opening(q[j]) => Later(q, j, Closes)
    BY <2>1 DEF Sound
  <2>4. \A S : Later(q, j, S) => Later(p \o q, i, S)
    BY <2>2, LaterSecond
  <2>5. Before(q, j) => Before(p \o q, i)
    BY <2>1, <2>2, BeforeSecond
  <2>6. ASSUME NEW k \in DOMAIN (p \o q), k > i, Final(q[j])
        PROVE  (p \o q)[k][1] = "session"
    <3>1. ~(k \in 1..Len(p))
      BY <2>1, <2>2, <2>6
    <3>2. PICK m \in 1..Len(q) : m \in DOMAIN q /\ k = Len(p) + m /\ (p \o q)[k] = q[m]
      BY <3>1, JoinedAt
    <3>3. m > j
      BY <2>1, <2>2, <2>6, <3>2
    <3> QED  BY <2>3, <2>6, <3>2, <3>3
  <2> QED  BY <2>1, <2>3, <2>4, <2>5, <2>6
<1> QED  BY <1>1, <1>2, JoinedAt

LEMMA SealedSound ==
  ASSUME NEW p, NEW q, AList(q), Resting(q), Sealed(p), Marked(p), NEW nm
  PROVE  Sound(p \o q, nm)
<1>0. AList(p)
  BY DEF Sealed
<1> SUFFICES ASSUME NEW i \in DOMAIN (p \o q)
             PROVE  /\ Writer((p \o q)[i]) => Later(p \o q, i, Flushes) /\ Before(p \o q, i)
                    /\ Final((p \o q)[i]) =>
                         \A k \in DOMAIN (p \o q) : k > i => (p \o q)[k][1] = "session"
                    /\ Opening((p \o q)[i]) => Later(p \o q, i, Closes)
  BY DEF Sound
<1>1. CASE i \in 1..Len(p) /\ i \in DOMAIN p /\ (p \o q)[i] = p[i]
  <2>1. \A S : Later(p, i, S) => Later(p \o q, i, S)
    BY <1>0, LaterFirst
  <2>2. Before(p, i) => Before(p \o q, i)
    BY <1>0, BeforeFirst
  <2>3. /\ Writer(p[i]) => Later(p, i, Flushes) /\ Before(p, i)
        /\ Final(p[i]) => i = Len(p)
        /\ Opening(p[i]) => Later(p, i, Closes)
    BY <1>1 DEF Sealed, Marked
  <2>4. ASSUME NEW k \in DOMAIN (p \o q), k > i, i = Len(p)
        PROVE  (p \o q)[k][1] = "session"
    <3>1. Len(p) \in Nat
      BY <1>0, ListFacts
    <3>2. ~(k \in 1..Len(p))
      BY <2>4, <3>1
    <3>3. PICK m \in 1..Len(q) : m \in DOMAIN q /\ (p \o q)[k] = q[m]
      BY <1>0, <3>2, JoinedAt
    <3> QED  BY <3>3 DEF Resting
  <2> QED  BY <1>1, <2>1, <2>2, <2>3, <2>4
<1>2. CASE \E j \in 1..Len(q) : j \in DOMAIN q /\ i = Len(p) + j /\ (p \o q)[i] = q[j]
  <2>1. (p \o q)[i][1] = "session"
    BY <1>2 DEF Resting
  <2>2. ~Writer((p \o q)[i]) /\ ~Opening((p \o q)[i])
    BY <2>1 DEF Writer, Opening
  <2>3. ASSUME NEW k \in DOMAIN (p \o q), k > i PROVE (p \o q)[k][1] = "session"
    <3>1. Len(p) \in Nat /\ Len(q) \in Nat
      BY <1>0, ListFacts
    <3>2. ~(k \in 1..Len(p))
      BY <1>2, <2>3, <3>1
    <3>3. PICK m \in 1..Len(q) : m \in DOMAIN q /\ (p \o q)[k] = q[m]
      BY <1>0, <3>2, JoinedAt
    <3> QED  BY <3>3 DEF Resting
  <2> QED  BY <2>2, <2>3
<1> QED  BY <1>0, <1>1, <1>2, JoinedAt

LEMMA EndingRest ==
  ASSUME NEW t, AList(t), t # <<>>, Ending(t)
  PROVE  /\ Ending(Tail(t)) /\ Head(t)[1] \in Quit \union {"call"} /\ ~Opening(Head(t))
         /\ Head(t)[1] = "pop" => Later(Tail(t), 0, Flushes)
         /\ Head(t)[1] = "call" => ~Later(Tail(t), 0, Flushes)
<1>1. Len(t) \in Nat /\ DOMAIN t = 1..Len(t) /\ Head(t) = t[1] /\ 1 \in DOMAIN t
  BY ListFacts
<1>2. Later(t, 0 + 1, Flushes) <=> Later(Tail(t), 0, Flushes)
  BY LaterRest
<1>3. /\ Head(t)[1] \in Quit \union {"call"} /\ ~Opening(Head(t))
      /\ Head(t)[1] = "pop" => Later(t, 1, Flushes)
      /\ Head(t)[1] = "call" => ~Later(t, 1, Flushes)
  BY <1>1 DEF Ending
<1>4. ASSUME NEW i \in DOMAIN Tail(t)
      PROVE  /\ Tail(t)[i][1] \in Quit \union {"call"} /\ ~Opening(Tail(t)[i])
             /\ Tail(t)[i][1] = "pop" => Later(Tail(t), i, Flushes)
             /\ Tail(t)[i][1] = "call" => ~Later(Tail(t), i, Flushes)
  <2>1. i \in Nat /\ i + 1 \in DOMAIN t /\ Tail(t)[i] = t[i + 1]
    BY RestAt
  <2>2. Later(Tail(t), i, Flushes) <=> Later(t, i + 1, Flushes)
    BY <2>1, LaterRest
  <2> QED  BY <2>1, <2>2 DEF Ending
<1>5. Ending(Tail(t))
  BY <1>4 DEF Ending
<1> QED  BY <1>2, <1>3, <1>5

LEMMA EndingJoin ==
  ASSUME NEW p, NEW q, AList(q), Steps(p, Quit), Ending(q),
         \A i \in DOMAIN p :
           p[i][1] = "pop" => Later(p, i, Flushes) \/ Later(q, 0, Flushes)
  PROVE  Ending(p \o q)
<1>0. AList(p)
  BY DEF Steps
<1> SUFFICES ASSUME NEW i \in DOMAIN (p \o q)
             PROVE  /\ (p \o q)[i][1] \in Quit \union {"call"} /\ ~Opening((p \o q)[i])
                    /\ (p \o q)[i][1] = "pop" => Later(p \o q, i, Flushes)
                    /\ (p \o q)[i][1] = "call" => ~Later(p \o q, i, Flushes)
  BY DEF Ending
<1>1. CASE i \in 1..Len(p) /\ i \in DOMAIN p /\ (p \o q)[i] = p[i]
  <2>1. Later(p, i, Flushes) => Later(p \o q, i, Flushes)
    BY <1>0, LaterFirst
  <2>2. Later(q, 0, Flushes) => Later(p \o q, i, Flushes)
    BY <1>0, <1>1, LaterHere
  <2>3. p[i][1] \in Quit /\ ~Opening(p[i])
    BY <1>1 DEF Steps, Fits
  <2>4. p[i][1] # "call"
    BY <2>3 DEF Quit, Mild
  <2> QED  BY <1>1, <2>1, <2>2, <2>3, <2>4
<1>2. CASE \E j \in 1..Len(q) : j \in DOMAIN q /\ i = Len(p) + j /\ (p \o q)[i] = q[j]
  <2>1. PICK j \in 1..Len(q) : j \in DOMAIN q /\ i = Len(p) + j /\ (p \o q)[i] = q[j]
    BY <1>2
  <2>2. Len(p) \in Nat /\ Len(q) \in Nat /\ j \in Nat /\ i \in Nat /\ i <= Len(p) + j
    BY <1>0, <2>1, ListFacts
  <2>3. Later(q, j, Flushes) => Later(p \o q, i, Flushes)
    BY <1>0, <2>2, LaterSecond
  <2>4. Later(p \o q, i, Flushes) => Later(q, j, Flushes)
    BY <1>0, <2>1, <2>2, LaterBack
  <2> QED  BY <2>1, <2>3, <2>4 DEF Ending
<1> QED  BY <1>0, <1>1, <1>2, JoinedAt

LEMMA EndingClosing == Ending(CloseFile)
<1>1. PICK t : t = CloseFile
  OBVIOUS
<1>2. /\ AList(t) /\ DOMAIN t = 1..7
      /\ t[1] = <<"flush">> /\ t[2] = Call("close", "file") /\ t[3] = Barrier
      /\ t[4] = Bcast("answer") /\ t[5] = Share /\ t[6] = Verify /\ t[7] = Sets("closed")
  BY <1>1, ClosingStages
<1>3. /\ t[1][1] = "flush" /\ t[2][1] = "call" /\ t[3][1] = "all" /\ t[4][1] = "bcast"
      /\ t[5][1] = "bcast" /\ t[6][1] = "verify" /\ t[7][1] = "sets"
  BY <1>2 DEF Call, Barrier, Bcast, Share, Verify, Sets
<1>4. ~Later(t, 2, Flushes)
  <2>1. ASSUME NEW k \in 1..7, k > 2 PROVE t[k][1] # "flush"
    BY <1>3, <2>1
  <2>2. ASSUME NEW k \in 1..7, k > 2 PROVE t[k] \notin Flushes
    <3>1. ASSUME t[k] \in Flushes PROVE t[k][1] = "flush"
      BY <3>1 DEF Flushes
    <3> QED  BY <2>1, <2>2, <3>1
  <2> QED  BY <1>2, <2>2 DEF Later
<1>5. ~Opening(t[2])
  BY <1>2 DEF Opening, Call
<1>6. ASSUME NEW i \in 1..7
      PROVE  /\ t[i][1] \in Quit \union {"call"} /\ ~Opening(t[i])
             /\ t[i][1] = "pop" => Later(t, i, Flushes)
             /\ t[i][1] = "call" => ~Later(t, i, Flushes)
  <2>1. CASE i = 2
    BY <1>3, <1>4, <1>5, <2>1
  <2>2. CASE i # 2
    <3>1. t[i][1] \in {"flush", "all", "bcast", "verify", "sets"}
      BY <1>3, <2>2
    <3> QED  BY <3>1 DEF Quit, Mild, Opening
  <2> QED  BY <2>1, <2>2
<1> QED  BY <1>1, <1>2, <1>6 DEF Ending

(* Stages without any that delays a write. *)
LEMMA DirectOnly ==
  ASSUME NEW t, Steps(t, Direct)
  PROVE  /\ Steps(t, Any)
         /\ \A i \in DOMAIN t : ~Writer(t[i])
<1>1. Direct \subseteq Any
  BY DEF Any
<1> QED  BY <1>1, StepsOf, StepsStart DEF Starting

LEMMA MildOnly ==
  ASSUME NEW t, Steps(t, Mild)
  PROVE  /\ Steps(t, Direct) /\ Steps(t, Quit)
         /\ \A i \in DOMAIN t : t[i][1] # "pop" /\ t[i] \notin Flushes
<1>1. Mild \subseteq Direct /\ Mild \subseteq Quit
  BY DEF Direct, Quit
<1>2. ASSUME NEW i \in DOMAIN t PROVE t[i][1] # "pop" /\ t[i] \notin Flushes
  <2>1. t[i][1] \in Mild
    BY DEF Steps, Fits
  <2>2. t[i][1] # "pop" /\ t[i][1] # "flush"
    BY <2>1 DEF Mild
  <2>3. ASSUME t[i] \in Flushes PROVE t[i][1] = "flush"
    BY <2>3 DEF Flushes
  <2> QED  BY <2>2, <2>3
<1> QED  BY <1>1, <1>2, StepsOf

LEMMA EmptySteps == ASSUME NEW K PROVE Steps(<<>>, K)
BY EmptyIsGood DEF Steps, Good

(* One delayed write. *)
LEMMA OneWrite ==
  ASSUME NEW v, NEW s, NEW p,
         p = <<<<"enddef">>>> \o PutVar(v, s) \o <<<<"pop">>, <<"flush">>>>
  PROVE  /\ Steps(p, Quit) /\ Later(p, 0, Flushes)
         /\ \A i \in DOMAIN p : Writer(p[i]) \/ p[i][1] = "pop" => Later(p, i, Flushes)
<1>1. PICK a : a = <<<<"enddef">>>> \o PutVar(v, s)
  OBVIOUS
<1>2. PICK b : b = <<<<"pop">>, <<"flush">>>>
  OBVIOUS
<1>3. /\ Fits(<<"enddef">>, Quit) /\ Fits(<<"pop">>, Quit) /\ Fits(<<"flush">>, Quit)
  BY DEF Fits, Final, Opening, Quit
<1>4. Steps(a, Quit) /\ AList(a) /\ \A i \in DOMAIN a : ~Writer(a[i]) /\ a[i][1] # "pop"
  <2>1. Steps(PutVar(v, s), Mild) /\ Steps(PutVar(v, s), Quit)
    BY TransferSteps, MildOnly
  <2>2. Mild \subseteq Mild \union {"enddef"} /\ Mild \union {"enddef"} \subseteq Quit
    BY DEF Quit
  <2>3. Fits(<<"enddef">>, Mild \union {"enddef"})
    BY DEF Fits, Final, Opening
  <2>4. Steps(a, Mild \union {"enddef"})
    BY <1>1, <2>1, <2>2, <2>3, StepsOne, StepsOf, StepsJoin
  <2>5. ASSUME NEW i \in DOMAIN a PROVE ~Writer(a[i]) /\ a[i][1] # "pop"
    BY <2>4 DEF Steps, Fits, Mild, Writer
  <2>6. Steps(a, Quit)
    BY <2>2, <2>4, StepsOf
  <2> QED  BY <2>5, <2>6 DEF Steps
<1>5. AList(b) /\ Len(b) = 2 /\ b[1] = <<"pop">> /\ b[2] = <<"flush">> /\ DOMAIN b = 1..2
  <2>1. AList(b) /\ Len(b) = 2 /\ b[1] = <<"pop">> /\ b[2] = <<"flush">>
    BY <1>2, List2
  <2> QED  BY <2>1, ListFacts
<1>6. Steps(b, Quit)
  BY <1>2, <1>3, StepsTwo
<1>7. Later(b, 1, Flushes) /\ Later(b, 0, Flushes)
  <2>1. 2 \in DOMAIN b /\ 2 > 1 /\ 2 > 0 /\ b[2] \in Flushes
    BY <1>5 DEF Flushes
  <2> QED  BY <2>1 DEF Later
<1>8. p = a \o b
  BY <1>1, <1>2
<1>9. ASSUME NEW i \in DOMAIN (a \o b), Writer((a \o b)[i]) \/ (a \o b)[i][1] = "pop"
      PROVE  Later(a \o b, i, Flushes)
  <2>1. ~(i \in 1..Len(a) /\ i \in DOMAIN a /\ (a \o b)[i] = a[i])
    BY <1>4, <1>9
  <2>2. PICK j \in 1..Len(b) : i = Len(a) + j /\ (a \o b)[i] = b[j]
    BY <1>4, <1>5, <2>1, JoinedAt
  <2>3. j = 1
    <3>1. j = 2 => (a \o b)[i][1] = "flush"
      BY <1>5, <2>2
    <3>2. ~((a \o b)[i][1] = "flush")
      BY <1>9 DEF Writer
    <3> QED  BY <1>5, <2>2, <3>1, <3>2
  <2>4. 1 \in Nat /\ Len(a) + 1 \in Nat /\ Len(a) + 1 <= Len(a) + 1
    BY <1>4, ListFacts
  <2> QED  BY <1>4, <1>5, <1>7, <2>2, <2>3, <2>4, LaterSecond
<1>10. Later(a \o b, 0, Flushes)
  BY <1>4, <1>5, <1>7, LaterHere
<1> QED  BY <1>4, <1>6, <1>8, <1>9, <1>10, StepsJoin

(* Whatever else takes the place of a stage. *)
LEMMA MoreSteps ==
  ASSUME NEW c, Good(c.todo), c.todo # <<>>, Head(c.todo)[1] # "session",
         Head(c.todo)[1] = "flush" => c.delayed = <<>>
  PROVE  /\ Steps(More(c), Any)
         /\ \A i \in DOMAIN More(c) : Writer(More(c)[i]) => Writer(Head(c.todo))
<1> DEFINE x == Head(c.todo)
<1>1. Known(x)
  BY GoodRest
<1>2. CASE x[1] = "redef"
  BY <1>2, MoreFacts, RedefImplSteps, DirectOnly, EmptySteps
<1>3. CASE x[1] = "enddef"
  BY <1>3, MoreFacts, EnddefImplSteps, MildOnly, DirectOnly, EmptySteps
<1>4. CASE x[1] \in {"if", "unless"}
  <2>1. Steps(x[2], Any)
    BY <1>1, <1>4, NestedSteps DEF Known
  <2>2. Writer(x)
    BY <1>4 DEF Writer
  <2>3. Steps(More(c), Any)
    BY <1>4, <2>1, MoreFacts, EmptySteps
  <2> QED  BY <2>2, <2>3
<1>5. CASE x[1] = "textifread"
  BY <1>5, MoreFacts, TextSteps, MildOnly, DirectOnly, EmptySteps
<1>6. CASE x[1] \in {"write", "fetch"}
  BY <1>6, MoreFacts, TransferSteps, MildOnly, DirectOnly
<1>7. CASE x[1] \notin {"redef", "enddef", "if", "unless", "textifread", "write", "fetch"}
  <2>1. More(c) = <<>>
    BY <1>7, MoreFacts
  <2> QED  BY <2>1, EmptySteps, DirectOnly
<1> HIDE DEF x
<1> QED  BY <1>2, <1>3, <1>4, <1>5, <1>6, <1>7

LEMMA MoreMild ==
  ASSUME NEW c, Head(c.todo)[1] \in Quit \union {"call"},
         Head(c.todo)[1] = "flush" => c.delayed = <<>>
  PROVE  Steps(More(c), Mild)
<1> DEFINE x == Head(c.todo)
<1>1. CASE x[1] = "enddef"
  BY <1>1, MoreFacts, EnddefImplSteps, EmptySteps
<1>2. CASE x[1] # "enddef"
  <2>1. x[1] \notin {"redef", "enddef", "if", "unless", "textifread", "write", "fetch",
                     "session"}
    BY <1>2 DEF Quit, Mild
  <2>2. More(c) = <<>>
    BY <2>1, MoreFacts
  <2> QED  BY <2>2, EmptySteps
<1> QED  BY <1>1, <1>2

(* The fields of Advanced. *)
LEMMA AdvancedFields ==
  ASSUME NEW c, NEW d, d = Advanced(c)
  PROVE  LET x == Head(c.todo)
         IN  /\ d.todo = More(c) \o Tail(c.todo) /\ d.state = c.state
             /\ x[1] # "textifread" => d.stat = c.stat
             /\ x[1] # "sets" => d.named = c.named
             /\ x[1] = "sets" /\ x[2] # "closed" => d.named
             /\ x[1] = "pop" => d.delayed = Tail(c.delayed)
             /\ x[1] \notin {"delay", "pop"} => d.delayed = c.delayed
BY DEF Advanced

LEMMA AheadOfOther ==
  ASSUME NEW t, AList(t), t # <<>>, Head(t)[1] # "flush", Later(t, 0, Flushes)
  PROVE  Later(Tail(t), 0, Flushes)
<1>1. Head(t) \notin Flushes
  <2>1. ASSUME Head(t) \in Flushes PROVE Head(t)[1] = "flush"
    BY <2>1 DEF Flushes
  <2> QED  BY <2>1
<1> QED  BY <1>1, LaterAtAll

LEMMA MarkNames ==
  ASSUME NEW x, x \in Marks PROVE x[1] = "sets" /\ x[2] # "closed"
BY DEF Marks, Sets

LEMMA TidyRunning ==
  ASSUME NEW c, Good(c.todo), c.todo # <<>>, Sound(c.todo, c.named),
         c.delayed # <<>> => c.named /\ Later(c.todo, 0, Flushes), NEW d, d = Advanced(c)
  PROVE  Sound(d.todo, d.named) /\ (d.delayed # <<>> => d.named /\ Later(d.todo, 0, Flushes))
<1> DEFINE x == Head(c.todo)
<1>1. PICK t, m, q : t = c.todo /\ m = More(c) /\ q = Tail(c.todo)
  OBVIOUS
<1>2. AList(t) /\ AList(q) /\ <<>> \o q = q /\ t # <<>> /\ Sound(t, c.named)
  <2>1. Good(q)
    BY <1>1, GoodRest
  <2> QED  BY <1>1, <2>1, ListFacts DEF Good
<1>3. /\ Writer(x) => Later(q, 0, Flushes) /\ c.named
      /\ Final(x) => Resting(q)
  BY <1>1, <1>2, SoundHead
<1>4. /\ d.todo = m \o q
      /\ x[1] # "sets" => d.named = c.named
      /\ x[1] = "sets" /\ x[2] # "closed" => d.named
      /\ x[1] = "pop" => d.delayed = Tail(c.delayed)
      /\ x[1] \notin {"delay", "pop"} => d.delayed = c.delayed
  BY <1>1, AdvancedFields
<1>5. x[1] # "flush" /\ Later(t, 0, Flushes) => Later(q, 0, Flushes)
  BY <1>1, <1>2, AheadOfOther
<1>6. x \in Marks => x[1] = "sets" /\ x[2] # "closed"
  BY MarkNames
<1> HIDE DEF x
<1>7. CASE x[1] = "session"
  <2>1. Resting(q)
    BY <1>3, <1>7 DEF Final
  <2>2. m = Session(x[2]) /\ x[2] \in SessionNames
    <3>1. Known(x)
      BY GoodRest DEF x
    <3>2. m = Session(x[2])
      BY <1>1, <1>7, MoreFacts DEF x
    <3> QED  BY <1>7, <3>1, <3>2 DEF Known
  <2>3. Sound(m \o q, d.named)
    BY <1>2, <2>1, <2>2, SessionCloses, SealedSound
  <2>4. c.delayed = <<>>
    BY <1>1, <1>5, <1>7, <2>1, RestingFacts
  <2> QED  BY <1>4, <1>7, <2>3, <2>4
<1>8. CASE x[1] = "flush" /\ c.delayed # <<>>
  <2>1. PICK v, s : m = <<<<"enddef">>>> \o PutVar(v, s) \o <<<<"pop">>, <<"flush">>>>
    BY <1>1, <1>8, MoreFacts DEF x
  <2>2. /\ Steps(m, Quit) /\ Later(m, 0, Flushes)
        /\ \A i \in DOMAIN m : Writer(m[i]) => Later(m, i, Flushes)
    BY <2>1, OneWrite
  <2>3. AList(m) /\ \A i \in DOMAIN m : ~Final(m[i]) /\ ~Opening(m[i])
    BY <2>2 DEF Steps, Fits
  <2>4. c.named
    BY <1>8
  <2>5. Sound(q, c.named)
    BY <1>1, <1>2, <1>6, <2>4, SoundRest DEF x
  <2>6. Sound(m \o q, c.named)
    BY <1>2, <2>2, <2>3, <2>4, <2>5, SoundJoin
  <2>7. Later(m \o q, 0, Flushes)
    BY <1>2, <2>2, <2>3, LaterFirst
  <2> QED  BY <1>4, <1>8, <2>4, <2>6, <2>7
<1>9. CASE x[1] = "sets"
  <2>1. m = <<>>
    BY <1>1, <1>9, MoreFacts DEF x
  <2>2. d.todo = q /\ d.delayed = c.delayed
    BY <1>2, <1>4, <1>9, <2>1
  <2>3. CASE x[2] = "closed"
    <3>1. Resting(q)
      BY <1>3, <1>9, <2>3 DEF Final
    <3>2. c.delayed = <<>>
      BY <1>1, <1>5, <1>9, <3>1, RestingFacts
    <3> QED  BY <2>2, <3>1, <3>2, RestingFacts
  <2>4. CASE x[2] # "closed"
    <3>1. d.named
      BY <1>4, <1>9, <2>4
    <3>2. Sound(q, d.named)
      BY <1>1, <1>2, <3>1, SoundRest
    <3> QED  BY <1>1, <1>5, <1>9, <2>2, <3>1, <3>2
  <2> QED  BY <2>3, <2>4
<1>10. CASE x[1] \in {"delay", "pop"}
  <2>1. m = <<>>
    BY <1>1, <1>10, MoreFacts DEF x
  <2>2. d.todo = q /\ d.named = c.named
    BY <1>2, <1>4, <1>10, <2>1
  <2>3. Later(q, 0, Flushes) /\ c.named
    BY <1>3, <1>10 DEF Writer
  <2>4. Sound(q, c.named)
    BY <1>1, <1>2, <2>3, SoundRest
  <2> QED  BY <2>2, <2>3, <2>4
<1>11. CASE /\ x[1] \notin {"session", "sets", "delay", "pop"}
            /\ ~(x[1] = "flush" /\ c.delayed # <<>>)
  <2>1. Steps(m, Any) /\ \A i \in DOMAIN m : Writer(m[i]) => Writer(x)
    BY <1>1, <1>11, MoreSteps DEF x
  <2>2. AList(m) /\ \A i \in DOMAIN m : ~Final(m[i]) /\ ~Opening(m[i])
    BY <2>1 DEF Steps, Fits
  <2>3. Sound(q, c.named)
    BY <1>1, <1>2, <1>6, <1>11, SoundRest DEF x
  <2>4. Sound(m \o q, c.named)
    BY <1>2, <1>3, <2>1, <2>2, <2>3, SoundJoin
  <2>5. d.named = c.named /\ d.delayed = c.delayed
    BY <1>4, <1>11
  <2>6. ASSUME c.delayed # <<>> PROVE Later(m \o q, 0, Flushes)
    <3>1. Later(q, 0, Flushes)
      BY <1>1, <1>5, <1>11, <2>6
    <3> QED  BY <1>2, <2>2, <3>1, LaterHere
  <2> QED  BY <1>4, <2>4, <2>5, <2>6
<1> QED  BY <1>7, <1>8, <1>9, <1>10, <1>11

LEMMA TidyUnwinding ==
  ASSUME NEW c, Good(c.todo), c.todo # <<>>, Ending(c.todo),
         Later(c.todo, 0, Flushes) => c.stat = 0,
         c.delayed # <<>> => Later(c.todo, 0, Flushes), NEW d, d = Advanced(c)
  PROVE  /\ Ending(d.todo) /\ (Later(d.todo, 0, Flushes) => d.stat = 0)
         /\ d.delayed # <<>> => Later(d.todo, 0, Flushes)
<1> DEFINE x == Head(c.todo)
<1>1. PICK t, m, q : t = c.todo /\ m = More(c) /\ q = Tail(c.todo)
  OBVIOUS
<1>2. AList(t) /\ AList(q) /\ t # <<>>
  <2>1. Good(q)
    BY <1>1, GoodRest
  <2> QED  BY <1>1, <2>1 DEF Good
<1>3. /\ Ending(q) /\ x[1] \in Quit \union {"call"}
      /\ x[1] = "pop" => Later(q, 0, Flushes)
  BY <1>1, <1>2, EndingRest
<1>4. /\ d.todo = m \o q
      /\ x[1] # "textifread" => d.stat = c.stat
      /\ x[1] \notin {"delay", "pop"} => d.delayed = c.delayed
  BY <1>1, AdvancedFields
<1>5. x[1] # "flush" /\ Later(t, 0, Flushes) => Later(q, 0, Flushes)
  BY <1>1, <1>2, AheadOfOther
<1>6. Later(q, 0, Flushes) => Later(t, 0, Flushes)
  BY <1>1, <1>2, LaterAtAll
<1>7. d.stat = c.stat /\ x[1] # "delay"
  BY <1>3, <1>4 DEF Quit, Mild
<1> HIDE DEF x
<1>8. CASE x[1] = "flush" /\ c.delayed # <<>>
  <2>1. PICK v, s : m = <<<<"enddef">>>> \o PutVar(v, s) \o <<<<"pop">>, <<"flush">>>>
    BY <1>1, <1>8, MoreFacts DEF x
  <2>2. /\ Steps(m, Quit) /\ Later(m, 0, Flushes)
        /\ \A i \in DOMAIN m : m[i][1] = "pop" => Later(m, i, Flushes)
    BY <2>1, OneWrite
  <2>3. Ending(m \o q)
    BY <1>2, <1>3, <2>2, EndingJoin
  <2>4. Later(m \o q, 0, Flushes)
    BY <1>2, <2>2, LaterFirst DEF Steps
  <2> QED  BY <1>4, <1>7, <1>8, <2>3, <2>4
<1>9. CASE ~(x[1] = "flush" /\ c.delayed # <<>>)
  <2>1. Steps(m, Mild)
    BY <1>1, <1>3, <1>9, MoreMild DEF x
  <2>2. /\ Steps(m, Quit) /\ AList(m)
        /\ \A i \in DOMAIN m : m[i][1] # "pop" /\ m[i] \notin Flushes
    BY <2>1, MildOnly DEF Steps
  <2>3. Ending(m \o q)
    BY <1>2, <1>3, <2>2, EndingJoin
  <2>4. Later(m \o q, 0, Flushes) => c.stat = 0
    BY <1>1, <1>2, <1>6, <2>2, LaterAhead
  <2>5. Later(q, 0, Flushes) => Later(m \o q, 0, Flushes)
    BY <1>2, <2>2, LaterHere
  <2>6. d.delayed # <<>> => Later(q, 0, Flushes)
    BY <1>1, <1>3, <1>4, <1>5, <1>7, <1>9
  <2> QED  BY <1>4, <1>7, <2>3, <2>4, <2>5, <2>6
<1> QED  BY <1>8, <1>9

(* A step of a processor by itself. *)
LEMMA TidyMoved ==
  ASSUME NEW c, Good(c.todo), Moves(c), Tidy(c)
  PROVE  Tidy(Moved(c))
<1>1. PICK d : d = Moved(c)
  OBVIOUS
<1>2. c.state = "running" \/ c.state = "unwinding"
  BY DEF Moves, Working
<1>3. CASE c.todo = <<>>
  <2>1. d.state = (IF c.state = "running" THEN "done" ELSE "failed") /\ d.delayed = c.delayed
    BY <1>1, <1>2, <1>3 DEF Moved
  <2>2. c.delayed = <<>>
    BY <1>2, <1>3, LaterAtAll DEF Tidy, Later
  <2> QED  BY <1>1, <2>1, <2>2 DEF Tidy
<1>4. CASE c.todo # <<>> /\ Head(c.todo)[1] = "verify" /\ c.stat # 0
  <2>1. d = Thrown(c)
    BY <1>1, <1>4 DEF Moved
  <2>2. CASE c.state = "running" /\ c.named
    <3>1. d.todo = CloseFile /\ d.state = "unwinding" /\ d.stat = 0
      BY <2>1, <2>2 DEF Thrown
    <3>2. Later(CloseFile, 0, Flushes)
      BY SealedClosing DEF Sealed
    <3> QED  BY <1>1, <3>1, <3>2, EndingClosing DEF Tidy
  <2>3. CASE ~(c.state = "running" /\ c.named)
    <3>1. d.state = "failed" /\ d.delayed = c.delayed
      BY <2>1, <2>3 DEF Thrown
    <3>2. c.delayed = <<>>
      BY <1>2, <1>4, <2>3 DEF Tidy
    <3> QED  BY <1>1, <3>1, <3>2 DEF Tidy
  <2> QED  BY <2>2, <2>3
<1>5. CASE c.todo # <<>> /\ ~(Head(c.todo)[1] = "verify" /\ c.stat # 0)
  <2>1. d = Advanced(c)
    BY <1>1, <1>5 DEF Moved
  <2>2. d.state = c.state
    BY <2>1, AdvancedFields
  <2>3. CASE c.state = "running"
    <3>1. Sound(d.todo, d.named) /\ (d.delayed # <<>> => d.named /\ Later(d.todo, 0, Flushes))
      BY <1>5, <2>1, <2>3, TidyRunning DEF Tidy
    <3> QED  BY <1>1, <2>2, <2>3, <3>1 DEF Tidy
  <2>4. CASE c.state = "unwinding"
    <3>1. /\ Ending(d.todo) /\ (Later(d.todo, 0, Flushes) => d.stat = 0)
          /\ d.delayed # <<>> => Later(d.todo, 0, Flushes)
      BY <1>5, <2>1, <2>4, TidyUnwinding DEF Tidy
    <3> QED  BY <1>1, <2>2, <2>4, <3>1 DEF Tidy
  <2> QED  BY <1>2, <2>3, <2>4
<1> QED  BY <1>3, <1>4, <1>5

(* A step of the library, or the end of an operation of all processors.     *)
LEMMA TidyRest ==
  ASSUME NEW c, Good(c.todo), c.todo # <<>>, c.state \in Working, Tidy(c),
         Quiet(Head(c.todo)), NEW d, d.todo = Tail(c.todo), d.state = c.state,
         d.named = c.named, d.delayed = c.delayed,
         c.state = "unwinding" /\ Later(Tail(c.todo), 0, Flushes) => d.stat = 0
  PROVE  Tidy(d)
<1> DEFINE x == Head(c.todo)
<1>1. PICK t, q : t = c.todo /\ q = Tail(c.todo)
  OBVIOUS
<1>2. AList(t) /\ AList(q) /\ t # <<>>
  <2>1. Good(q)
    BY <1>1, GoodRest
  <2> QED  BY <1>1, <2>1 DEF Good
<1>3. x[1] # "flush" /\ x[1] # "sets"
  BY DEF Quiet
<1>4. Later(t, 0, Flushes) => Later(q, 0, Flushes)
  BY <1>1, <1>2, <1>3, AheadOfOther
<1>5. CASE c.state = "running"
  <2>1. Head(t) \notin Marks
    BY <1>1, <1>3, MarkNames
  <2>2. Sound(q, c.named)
    BY <1>1, <1>2, <1>5, <2>1, SoundRest DEF Tidy
  <2> QED  BY <1>1, <1>4, <1>5, <2>2 DEF Tidy
<1>6. CASE c.state = "unwinding"
  <2>1. Ending(q)
    BY <1>1, <1>2, <1>6, EndingRest DEF Tidy
  <2> QED  BY <1>1, <1>4, <1>6, <2>1 DEF Tidy
<1> QED  BY <1>5, <1>6 DEF Working

-----------------------------------------------------------------------------
(* Each step that a processor makes by itself.                              *)
LEMMA RememberMoves ==
  ASSUME Vectors, NEW r \in Ranks, Remember(r)
  PROVE  Moving(r)
<1>1. Moving(r)
  <2>1. PICK k \in {"sets"} : At(r, k)
    BY DEF Remember
  <2>2. /\ Vectors' /\ \A q \in Ranks : q # r => Stays(q)
        /\ slots' = slots /\ inside' = inside /\ alone' = alone
    BY DEF Vectors, Stays, Remember, Continue, rankState, network, library
  <2>3. Head(todo[r])[1] = k
    BY <2>1 DEF At
  <2>4. Advances(r)
    <3>1. todo'[r] = More(Here(r)) \o Tail(todo[r])
      <4>1. /\ Here(r).todo = todo[r] /\ Here(r).define = define[r]
            /\ Here(r).answer = answer[r] /\ Here(r).stat = stat[r]
            /\ Here(r).starts = starts[r] /\ Here(r).delayed = delayed[r]
        BY ViewFields DEF Here
      <4>2. More(Here(r)) = <<>>
        BY <2>1, <2>3, <4>1, MoreFacts
      <4>3. todo'[r] = (<<>>) \o Tail(todo[r])
        BY <2>1, <2>3 DEF Vectors, At, Remember, Continue
      <4> QED  BY <4>2, <4>3
    <3>2. /\ state'[r] = state[r] /\ answer'[r] = answer[r]
          /\ stat'[r] = IF k = "textifread" THEN 0 ELSE stat[r]
      BY <2>1, <2>3 DEF Vectors, At, Remember, Continue, rankState, network, library
    <3>3. /\ define'[r] = IF k # "sets" THEN define[r]
                          ELSE \/ Head(todo[r])[2] \in {"created", "define"}
                               \/ Head(todo[r])[2] = "closed" /\ define[r]
          /\ named'[r] = IF k # "sets" THEN named[r] ELSE Head(todo[r])[2] # "closed"
      BY <2>1, <2>3 DEF Vectors, At, Remember, Continue, rankState, network, library
    <3>4. starts'[r] = IF k # "let" THEN starts[r]
                        ELSE [starts[r] EXCEPT ![Head(todo[r])[2]] =
                                IF answer[r] < Head(todo[r])[3] THEN 0
                                ELSE answer[r] - Head(todo[r])[3]]
      BY <2>1, <2>3 DEF Vectors, At, Remember, Continue, rankState, network, library
    <3>5. delayed'[r] = CASE k = "delay" ->
                                Append(delayed[r],
                                       <<Head(todo[r])[2], starts[r][Head(todo[r])[3]]>>)
                           [] k = "pop"   -> Tail(delayed[r])
                           [] OTHER       -> delayed[r]
      BY <2>1, <2>3 DEF Vectors, At, Remember, Continue, rankState, network, library
    <3> QED  BY <2>3, <3>1, <3>2, <3>3, <3>4, <3>5 DEF Advances
  <2> QED  BY <2>1, <2>2, <2>4, AdvanceMoves DEF Moving
<1> QED  BY <1>1

LEMMA ChangeModeMoves ==
  ASSUME Vectors, NEW r \in Ranks, ChangeMode(r)
  PROVE  Moving(r)
<1>1. CASE At(r, "redef")
  <2>1. PICK k \in {"redef"} : At(r, k)
    BY <1>1 DEF ChangeMode
  <2>2. /\ Vectors' /\ \A q \in Ranks : q # r => Stays(q)
        /\ slots' = slots /\ inside' = inside /\ alone' = alone
    BY <1>1 DEF Vectors, Stays, ChangeMode, Continue, rankState, network, library
  <2>3. Head(todo[r])[1] = k
    BY <2>1 DEF At
  <2>4. Advances(r)
    <3>1. todo'[r] = More(Here(r)) \o Tail(todo[r])
      <4>1. /\ Here(r).todo = todo[r] /\ Here(r).define = define[r]
            /\ Here(r).answer = answer[r] /\ Here(r).stat = stat[r]
            /\ Here(r).starts = starts[r] /\ Here(r).delayed = delayed[r]
        BY ViewFields DEF Here
      <4>2. More(Here(r)) = IF define[r] THEN <<>> ELSE RedefImpl
        BY <1>1, <2>1, <2>3, <4>1, MoreFacts
      <4>3. todo'[r] = (IF define[r] THEN <<>> ELSE RedefImpl) \o Tail(todo[r])
        BY <1>1, <2>1, <2>3 DEF Vectors, At, ChangeMode, Continue
      <4> QED  BY <4>2, <4>3
    <3>2. /\ state'[r] = state[r] /\ answer'[r] = answer[r]
          /\ stat'[r] = IF k = "textifread" THEN 0 ELSE stat[r]
      BY <1>1, <2>1, <2>3 DEF Vectors, At, ChangeMode, Continue, rankState, network, library
    <3>3. /\ define'[r] = IF k # "sets" THEN define[r]
                          ELSE \/ Head(todo[r])[2] \in {"created", "define"}
                               \/ Head(todo[r])[2] = "closed" /\ define[r]
          /\ named'[r] = IF k # "sets" THEN named[r] ELSE Head(todo[r])[2] # "closed"
      BY <1>1, <2>1, <2>3 DEF Vectors, At, ChangeMode, Continue, rankState, network, library
    <3>4. starts'[r] = IF k # "let" THEN starts[r]
                        ELSE [starts[r] EXCEPT ![Head(todo[r])[2]] =
                                IF answer[r] < Head(todo[r])[3] THEN 0
                                ELSE answer[r] - Head(todo[r])[3]]
      BY <1>1, <2>1, <2>3 DEF Vectors, At, ChangeMode, Continue, rankState, network, library
    <3>5. delayed'[r] = CASE k = "delay" ->
                                Append(delayed[r],
                                       <<Head(todo[r])[2], starts[r][Head(todo[r])[3]]>>)
                           [] k = "pop"   -> Tail(delayed[r])
                           [] OTHER       -> delayed[r]
      BY <1>1, <2>1, <2>3 DEF Vectors, At, ChangeMode, Continue, rankState, network, library
    <3> QED  BY <2>3, <3>1, <3>2, <3>3, <3>4, <3>5 DEF Advances
  <2> QED  BY <2>1, <2>2, <2>4, AdvanceMoves DEF Moving
<1>2. CASE At(r, "enddef")
  <2>1. PICK k \in {"enddef"} : At(r, k)
    BY <1>2 DEF ChangeMode
  <2>2. /\ Vectors' /\ \A q \in Ranks : q # r => Stays(q)
        /\ slots' = slots /\ inside' = inside /\ alone' = alone
    BY <1>2 DEF Vectors, Stays, ChangeMode, Continue, rankState, network, library
  <2>3. Head(todo[r])[1] = k
    BY <2>1 DEF At
  <2>4. Advances(r)
    <3>1. todo'[r] = More(Here(r)) \o Tail(todo[r])
      <4>1. /\ Here(r).todo = todo[r] /\ Here(r).define = define[r]
            /\ Here(r).answer = answer[r] /\ Here(r).stat = stat[r]
            /\ Here(r).starts = starts[r] /\ Here(r).delayed = delayed[r]
        BY ViewFields DEF Here
      <4>2. More(Here(r)) = IF define[r] THEN EnddefImpl ELSE <<>>
        BY <1>2, <2>1, <2>3, <4>1, MoreFacts
      <4>3. todo'[r] = (IF define[r] THEN EnddefImpl ELSE <<>>) \o Tail(todo[r])
        BY <1>2, <2>1, <2>3 DEF Vectors, At, ChangeMode, Continue
      <4> QED  BY <4>2, <4>3
    <3>2. /\ state'[r] = state[r] /\ answer'[r] = answer[r]
          /\ stat'[r] = IF k = "textifread" THEN 0 ELSE stat[r]
      BY <1>2, <2>1, <2>3 DEF Vectors, At, ChangeMode, Continue, rankState, network, library
    <3>3. /\ define'[r] = IF k # "sets" THEN define[r]
                          ELSE \/ Head(todo[r])[2] \in {"created", "define"}
                               \/ Head(todo[r])[2] = "closed" /\ define[r]
          /\ named'[r] = IF k # "sets" THEN named[r] ELSE Head(todo[r])[2] # "closed"
      BY <1>2, <2>1, <2>3 DEF Vectors, At, ChangeMode, Continue, rankState, network, library
    <3>4. starts'[r] = IF k # "let" THEN starts[r]
                        ELSE [starts[r] EXCEPT ![Head(todo[r])[2]] =
                                IF answer[r] < Head(todo[r])[3] THEN 0
                                ELSE answer[r] - Head(todo[r])[3]]
      BY <1>2, <2>1, <2>3 DEF Vectors, At, ChangeMode, Continue, rankState, network, library
    <3>5. delayed'[r] = CASE k = "delay" ->
                                Append(delayed[r],
                                       <<Head(todo[r])[2], starts[r][Head(todo[r])[3]]>>)
                           [] k = "pop"   -> Tail(delayed[r])
                           [] OTHER       -> delayed[r]
      BY <1>2, <2>1, <2>3 DEF Vectors, At, ChangeMode, Continue, rankState, network, library
    <3> QED  BY <2>3, <3>1, <3>2, <3>3, <3>4, <3>5 DEF Advances
  <2> QED  BY <2>1, <2>2, <2>4, AdvanceMoves DEF Moving
<1> QED  BY <1>1, <1>2 DEF ChangeMode

LEMMA BranchMoves ==
  ASSUME Vectors, NEW r \in Ranks, Branch(r)
  PROVE  Moving(r)
<1>1. CASE At(r, "if")
  <2>1. PICK k \in {"if"} : At(r, k)
    BY <1>1 DEF Branch
  <2>2. /\ Vectors' /\ \A q \in Ranks : q # r => Stays(q)
        /\ slots' = slots /\ inside' = inside /\ alone' = alone
    BY <1>1 DEF Vectors, Stays, Branch, Continue, rankState, network, library
  <2>3. Head(todo[r])[1] = k
    BY <2>1 DEF At
  <2>4. Advances(r)
    <3>1. todo'[r] = More(Here(r)) \o Tail(todo[r])
      <4>1. /\ Here(r).todo = todo[r] /\ Here(r).define = define[r]
            /\ Here(r).answer = answer[r] /\ Here(r).stat = stat[r]
            /\ Here(r).starts = starts[r] /\ Here(r).delayed = delayed[r]
        BY ViewFields DEF Here
      <4>2. More(Here(r)) = IF answer[r] # 0 THEN Head(todo[r])[2] ELSE <<>>
        BY <1>1, <2>1, <2>3, <4>1, MoreFacts
      <4>3. todo'[r] = (IF answer[r] # 0 THEN Head(todo[r])[2] ELSE <<>>) \o Tail(todo[r])
        BY <1>1, <2>1, <2>3 DEF Vectors, At, Branch, Continue
      <4> QED  BY <4>2, <4>3
    <3>2. /\ state'[r] = state[r] /\ answer'[r] = answer[r]
          /\ stat'[r] = IF k = "textifread" THEN 0 ELSE stat[r]
      BY <1>1, <2>1, <2>3 DEF Vectors, At, Branch, Continue, rankState, network, library
    <3>3. /\ define'[r] = IF k # "sets" THEN define[r]
                          ELSE \/ Head(todo[r])[2] \in {"created", "define"}
                               \/ Head(todo[r])[2] = "closed" /\ define[r]
          /\ named'[r] = IF k # "sets" THEN named[r] ELSE Head(todo[r])[2] # "closed"
      BY <1>1, <2>1, <2>3 DEF Vectors, At, Branch, Continue, rankState, network, library
    <3>4. starts'[r] = IF k # "let" THEN starts[r]
                        ELSE [starts[r] EXCEPT ![Head(todo[r])[2]] =
                                IF answer[r] < Head(todo[r])[3] THEN 0
                                ELSE answer[r] - Head(todo[r])[3]]
      BY <1>1, <2>1, <2>3 DEF Vectors, At, Branch, Continue, rankState, network, library
    <3>5. delayed'[r] = CASE k = "delay" ->
                                Append(delayed[r],
                                       <<Head(todo[r])[2], starts[r][Head(todo[r])[3]]>>)
                           [] k = "pop"   -> Tail(delayed[r])
                           [] OTHER       -> delayed[r]
      BY <1>1, <2>1, <2>3 DEF Vectors, At, Branch, Continue, rankState, network, library
    <3> QED  BY <2>3, <3>1, <3>2, <3>3, <3>4, <3>5 DEF Advances
  <2> QED  BY <2>1, <2>2, <2>4, AdvanceMoves DEF Moving
<1>2. CASE At(r, "unless")
  <2>1. PICK k \in {"unless"} : At(r, k)
    BY <1>2 DEF Branch
  <2>2. /\ Vectors' /\ \A q \in Ranks : q # r => Stays(q)
        /\ slots' = slots /\ inside' = inside /\ alone' = alone
    BY <1>2 DEF Vectors, Stays, Branch, Continue, rankState, network, library
  <2>3. Head(todo[r])[1] = k
    BY <2>1 DEF At
  <2>4. Advances(r)
    <3>1. todo'[r] = More(Here(r)) \o Tail(todo[r])
      <4>1. /\ Here(r).todo = todo[r] /\ Here(r).define = define[r]
            /\ Here(r).answer = answer[r] /\ Here(r).stat = stat[r]
            /\ Here(r).starts = starts[r] /\ Here(r).delayed = delayed[r]
        BY ViewFields DEF Here
      <4>2. More(Here(r)) = IF answer[r] = 0 THEN Head(todo[r])[2] ELSE <<>>
        BY <1>2, <2>1, <2>3, <4>1, MoreFacts
      <4>3. todo'[r] = (IF answer[r] = 0 THEN Head(todo[r])[2] ELSE <<>>) \o Tail(todo[r])
        BY <1>2, <2>1, <2>3 DEF Vectors, At, Branch, Continue
      <4> QED  BY <4>2, <4>3
    <3>2. /\ state'[r] = state[r] /\ answer'[r] = answer[r]
          /\ stat'[r] = IF k = "textifread" THEN 0 ELSE stat[r]
      BY <1>2, <2>1, <2>3 DEF Vectors, At, Branch, Continue, rankState, network, library
    <3>3. /\ define'[r] = IF k # "sets" THEN define[r]
                          ELSE \/ Head(todo[r])[2] \in {"created", "define"}
                               \/ Head(todo[r])[2] = "closed" /\ define[r]
          /\ named'[r] = IF k # "sets" THEN named[r] ELSE Head(todo[r])[2] # "closed"
      BY <1>2, <2>1, <2>3 DEF Vectors, At, Branch, Continue, rankState, network, library
    <3>4. starts'[r] = IF k # "let" THEN starts[r]
                        ELSE [starts[r] EXCEPT ![Head(todo[r])[2]] =
                                IF answer[r] < Head(todo[r])[3] THEN 0
                                ELSE answer[r] - Head(todo[r])[3]]
      BY <1>2, <2>1, <2>3 DEF Vectors, At, Branch, Continue, rankState, network, library
    <3>5. delayed'[r] = CASE k = "delay" ->
                                Append(delayed[r],
                                       <<Head(todo[r])[2], starts[r][Head(todo[r])[3]]>>)
                           [] k = "pop"   -> Tail(delayed[r])
                           [] OTHER       -> delayed[r]
      BY <1>2, <2>1, <2>3 DEF Vectors, At, Branch, Continue, rankState, network, library
    <3> QED  BY <2>3, <3>1, <3>2, <3>3, <3>4, <3>5 DEF Advances
  <2> QED  BY <2>1, <2>2, <2>4, AdvanceMoves DEF Moving
<1>3. CASE At(r, "textifread")
  <2>1. PICK k \in {"textifread"} : At(r, k)
    BY <1>3 DEF Branch
  <2>2. /\ Vectors' /\ \A q \in Ranks : q # r => Stays(q)
        /\ slots' = slots /\ inside' = inside /\ alone' = alone
    BY <1>3 DEF Vectors, Stays, Branch, Continue, rankState, network, library
  <2>3. Head(todo[r])[1] = k
    BY <2>1 DEF At
  <2>4. Advances(r)
    <3>1. todo'[r] = More(Here(r)) \o Tail(todo[r])
      <4>1. /\ Here(r).todo = todo[r] /\ Here(r).define = define[r]
            /\ Here(r).answer = answer[r] /\ Here(r).stat = stat[r]
            /\ Here(r).starts = starts[r] /\ Here(r).delayed = delayed[r]
        BY ViewFields DEF Here
      <4>2. More(Here(r)) = IF stat[r] = 0 THEN <<Bcast("text")>> ELSE <<>>
        BY <1>3, <2>1, <2>3, <4>1, MoreFacts
      <4>3. todo'[r] = (IF stat[r] = 0 THEN <<Bcast("text")>> ELSE <<>>) \o Tail(todo[r])
        BY <1>3, <2>1, <2>3 DEF Vectors, At, Branch, Continue
      <4> QED  BY <4>2, <4>3
    <3>2. /\ state'[r] = state[r] /\ answer'[r] = answer[r]
          /\ stat'[r] = IF k = "textifread" THEN 0 ELSE stat[r]
      BY <1>3, <2>1, <2>3 DEF Vectors, At, Branch, Continue, rankState, network, library
    <3>3. /\ define'[r] = IF k # "sets" THEN define[r]
                          ELSE \/ Head(todo[r])[2] \in {"created", "define"}
                               \/ Head(todo[r])[2] = "closed" /\ define[r]
          /\ named'[r] = IF k # "sets" THEN named[r] ELSE Head(todo[r])[2] # "closed"
      BY <1>3, <2>1, <2>3 DEF Vectors, At, Branch, Continue, rankState, network, library
    <3>4. starts'[r] = IF k # "let" THEN starts[r]
                        ELSE [starts[r] EXCEPT ![Head(todo[r])[2]] =
                                IF answer[r] < Head(todo[r])[3] THEN 0
                                ELSE answer[r] - Head(todo[r])[3]]
      BY <1>3, <2>1, <2>3 DEF Vectors, At, Branch, Continue, rankState, network, library
    <3>5. delayed'[r] = CASE k = "delay" ->
                                Append(delayed[r],
                                       <<Head(todo[r])[2], starts[r][Head(todo[r])[3]]>>)
                           [] k = "pop"   -> Tail(delayed[r])
                           [] OTHER       -> delayed[r]
      BY <1>3, <2>1, <2>3 DEF Vectors, At, Branch, Continue, rankState, network, library
    <3> QED  BY <2>3, <3>1, <3>2, <3>3, <3>4, <3>5 DEF Advances
  <2> QED  BY <2>1, <2>2, <2>4, AdvanceMoves DEF Moving
<1> QED  BY <1>1, <1>2, <1>3 DEF Branch

LEMMA ComputeMoves ==
  ASSUME Vectors, NEW r \in Ranks, Compute(r)
  PROVE  Moving(r)
<1>1. Moving(r)
  <2>1. PICK k \in {"let"} : At(r, k)
    BY DEF Compute
  <2>2. /\ Vectors' /\ \A q \in Ranks : q # r => Stays(q)
        /\ slots' = slots /\ inside' = inside /\ alone' = alone
    BY DEF Vectors, Stays, Compute, Continue, rankState, network, library
  <2>3. Head(todo[r])[1] = k
    BY <2>1 DEF At
  <2>4. Advances(r)
    <3>1. todo'[r] = More(Here(r)) \o Tail(todo[r])
      <4>1. /\ Here(r).todo = todo[r] /\ Here(r).define = define[r]
            /\ Here(r).answer = answer[r] /\ Here(r).stat = stat[r]
            /\ Here(r).starts = starts[r] /\ Here(r).delayed = delayed[r]
        BY ViewFields DEF Here
      <4>2. More(Here(r)) = <<>>
        BY <2>1, <2>3, <4>1, MoreFacts
      <4>3. todo'[r] = (<<>>) \o Tail(todo[r])
        BY <2>1, <2>3 DEF Vectors, At, Compute, Continue
      <4> QED  BY <4>2, <4>3
    <3>2. /\ state'[r] = state[r] /\ answer'[r] = answer[r]
          /\ stat'[r] = IF k = "textifread" THEN 0 ELSE stat[r]
      BY <2>1, <2>3 DEF Vectors, At, Compute, Continue, rankState, network, library
    <3>3. /\ define'[r] = IF k # "sets" THEN define[r]
                          ELSE \/ Head(todo[r])[2] \in {"created", "define"}
                               \/ Head(todo[r])[2] = "closed" /\ define[r]
          /\ named'[r] = IF k # "sets" THEN named[r] ELSE Head(todo[r])[2] # "closed"
      BY <2>1, <2>3 DEF Vectors, At, Compute, Continue, rankState, network, library
    <3>4. starts'[r] = IF k # "let" THEN starts[r]
                        ELSE [starts[r] EXCEPT ![Head(todo[r])[2]] =
                                IF answer[r] < Head(todo[r])[3] THEN 0
                                ELSE answer[r] - Head(todo[r])[3]]
      BY <2>1, <2>3 DEF Vectors, At, Compute, Continue, rankState, network, library
    <3>5. delayed'[r] = CASE k = "delay" ->
                                Append(delayed[r],
                                       <<Head(todo[r])[2], starts[r][Head(todo[r])[3]]>>)
                           [] k = "pop"   -> Tail(delayed[r])
                           [] OTHER       -> delayed[r]
      BY <2>1, <2>3 DEF Vectors, At, Compute, Continue, rankState, network, library
    <3> QED  BY <2>3, <3>1, <3>2, <3>3, <3>4, <3>5 DEF Advances
  <2> QED  BY <2>1, <2>2, <2>4, AdvanceMoves DEF Moving
<1> QED  BY <1>1

LEMMA DelayMoves ==
  ASSUME Vectors, NEW r \in Ranks, Delay(r)
  PROVE  Moving(r)
<1>1. Moving(r)
  <2>1. PICK k \in {"delay"} : At(r, k)
    BY DEF Delay
  <2>2. /\ Vectors' /\ \A q \in Ranks : q # r => Stays(q)
        /\ slots' = slots /\ inside' = inside /\ alone' = alone
    BY DEF Vectors, Stays, Delay, Continue, rankState, network, library
  <2>3. Head(todo[r])[1] = k
    BY <2>1 DEF At
  <2>4. Advances(r)
    <3>1. todo'[r] = More(Here(r)) \o Tail(todo[r])
      <4>1. /\ Here(r).todo = todo[r] /\ Here(r).define = define[r]
            /\ Here(r).answer = answer[r] /\ Here(r).stat = stat[r]
            /\ Here(r).starts = starts[r] /\ Here(r).delayed = delayed[r]
        BY ViewFields DEF Here
      <4>2. More(Here(r)) = <<>>
        BY <2>1, <2>3, <4>1, MoreFacts
      <4>3. todo'[r] = (<<>>) \o Tail(todo[r])
        BY <2>1, <2>3 DEF Vectors, At, Delay, Continue
      <4> QED  BY <4>2, <4>3
    <3>2. /\ state'[r] = state[r] /\ answer'[r] = answer[r]
          /\ stat'[r] = IF k = "textifread" THEN 0 ELSE stat[r]
      BY <2>1, <2>3 DEF Vectors, At, Delay, Continue, rankState, network, library
    <3>3. /\ define'[r] = IF k # "sets" THEN define[r]
                          ELSE \/ Head(todo[r])[2] \in {"created", "define"}
                               \/ Head(todo[r])[2] = "closed" /\ define[r]
          /\ named'[r] = IF k # "sets" THEN named[r] ELSE Head(todo[r])[2] # "closed"
      BY <2>1, <2>3 DEF Vectors, At, Delay, Continue, rankState, network, library
    <3>4. starts'[r] = IF k # "let" THEN starts[r]
                        ELSE [starts[r] EXCEPT ![Head(todo[r])[2]] =
                                IF answer[r] < Head(todo[r])[3] THEN 0
                                ELSE answer[r] - Head(todo[r])[3]]
      BY <2>1, <2>3 DEF Vectors, At, Delay, Continue, rankState, network, library
    <3>5. delayed'[r] = CASE k = "delay" ->
                                Append(delayed[r],
                                       <<Head(todo[r])[2], starts[r][Head(todo[r])[3]]>>)
                           [] k = "pop"   -> Tail(delayed[r])
                           [] OTHER       -> delayed[r]
      BY <2>1, <2>3 DEF Vectors, At, Delay, Continue, rankState, network, library
    <3> QED  BY <2>3, <3>1, <3>2, <3>3, <3>4, <3>5 DEF Advances
  <2> QED  BY <2>1, <2>2, <2>4, AdvanceMoves DEF Moving
<1> QED  BY <1>1

LEMMA ExecuteMoves ==
  ASSUME Vectors, NEW r \in Ranks, Execute(r)
  PROVE  Moving(r)
<1>1. CASE At(r, "flush")
  <2>1. PICK k \in {"flush"} : At(r, k)
    BY <1>1 DEF Execute
  <2>2. /\ Vectors' /\ \A q \in Ranks : q # r => Stays(q)
        /\ slots' = slots /\ inside' = inside /\ alone' = alone
    BY <1>1 DEF Vectors, Stays, Execute, Continue, rankState, network, library
  <2>3. Head(todo[r])[1] = k
    BY <2>1 DEF At
  <2>4. Advances(r)
    <3>1. todo'[r] = More(Here(r)) \o Tail(todo[r])
      <4>1. /\ Here(r).todo = todo[r] /\ Here(r).define = define[r]
            /\ Here(r).answer = answer[r] /\ Here(r).stat = stat[r]
            /\ Here(r).starts = starts[r] /\ Here(r).delayed = delayed[r]
        BY ViewFields DEF Here
      <4>2. More(Here(r)) =
              IF delayed[r] = <<>> THEN <<>>
              ELSE <<<<"enddef">>>> \o PutVar(Head(delayed[r])[1], Head(delayed[r])[2])
                   \o <<<<"pop">>, <<"flush">>>>
        BY <1>1, <2>1, <2>3, <4>1, MoreFacts
      <4>3. todo'[r] =
              (IF delayed[r] = <<>> THEN <<>>
               ELSE <<<<"enddef">>>> \o PutVar(Head(delayed[r])[1], Head(delayed[r])[2])
                    \o <<<<"pop">>, <<"flush">>>>) \o Tail(todo[r])
        BY <1>1, <2>1, <2>3 DEF Vectors, At, Execute, Continue
      <4> QED  BY <4>2, <4>3
    <3>2. /\ state'[r] = state[r] /\ answer'[r] = answer[r]
          /\ stat'[r] = IF k = "textifread" THEN 0 ELSE stat[r]
      BY <1>1, <2>1, <2>3 DEF Vectors, At, Execute, Continue, rankState, network, library
    <3>3. /\ define'[r] = IF k # "sets" THEN define[r]
                          ELSE \/ Head(todo[r])[2] \in {"created", "define"}
                               \/ Head(todo[r])[2] = "closed" /\ define[r]
          /\ named'[r] = IF k # "sets" THEN named[r] ELSE Head(todo[r])[2] # "closed"
      BY <1>1, <2>1, <2>3 DEF Vectors, At, Execute, Continue, rankState, network, library
    <3>4. starts'[r] = IF k # "let" THEN starts[r]
                        ELSE [starts[r] EXCEPT ![Head(todo[r])[2]] =
                                IF answer[r] < Head(todo[r])[3] THEN 0
                                ELSE answer[r] - Head(todo[r])[3]]
      BY <1>1, <2>1, <2>3 DEF Vectors, At, Execute, Continue, rankState, network, library
    <3>5. delayed'[r] = CASE k = "delay" ->
                                Append(delayed[r],
                                       <<Head(todo[r])[2], starts[r][Head(todo[r])[3]]>>)
                           [] k = "pop"   -> Tail(delayed[r])
                           [] OTHER       -> delayed[r]
      BY <1>1, <2>1, <2>3 DEF Vectors, At, Execute, Continue, rankState, network, library
    <3> QED  BY <2>3, <3>1, <3>2, <3>3, <3>4, <3>5 DEF Advances
  <2> QED  BY <2>1, <2>2, <2>4, AdvanceMoves DEF Moving
<1>2. CASE At(r, "pop")
  <2>1. PICK k \in {"pop"} : At(r, k)
    BY <1>2 DEF Execute
  <2>2. /\ Vectors' /\ \A q \in Ranks : q # r => Stays(q)
        /\ slots' = slots /\ inside' = inside /\ alone' = alone
    BY <1>2 DEF Vectors, Stays, Execute, Continue, rankState, network, library
  <2>3. Head(todo[r])[1] = k
    BY <2>1 DEF At
  <2>4. Advances(r)
    <3>1. todo'[r] = More(Here(r)) \o Tail(todo[r])
      <4>1. /\ Here(r).todo = todo[r] /\ Here(r).define = define[r]
            /\ Here(r).answer = answer[r] /\ Here(r).stat = stat[r]
            /\ Here(r).starts = starts[r] /\ Here(r).delayed = delayed[r]
        BY ViewFields DEF Here
      <4>2. More(Here(r)) = <<>>
        BY <1>2, <2>1, <2>3, <4>1, MoreFacts
      <4>3. todo'[r] = (<<>>) \o Tail(todo[r])
        BY <1>2, <2>1, <2>3 DEF Vectors, At, Execute, Continue
      <4> QED  BY <4>2, <4>3
    <3>2. /\ state'[r] = state[r] /\ answer'[r] = answer[r]
          /\ stat'[r] = IF k = "textifread" THEN 0 ELSE stat[r]
      BY <1>2, <2>1, <2>3 DEF Vectors, At, Execute, Continue, rankState, network, library
    <3>3. /\ define'[r] = IF k # "sets" THEN define[r]
                          ELSE \/ Head(todo[r])[2] \in {"created", "define"}
                               \/ Head(todo[r])[2] = "closed" /\ define[r]
          /\ named'[r] = IF k # "sets" THEN named[r] ELSE Head(todo[r])[2] # "closed"
      BY <1>2, <2>1, <2>3 DEF Vectors, At, Execute, Continue, rankState, network, library
    <3>4. starts'[r] = IF k # "let" THEN starts[r]
                        ELSE [starts[r] EXCEPT ![Head(todo[r])[2]] =
                                IF answer[r] < Head(todo[r])[3] THEN 0
                                ELSE answer[r] - Head(todo[r])[3]]
      BY <1>2, <2>1, <2>3 DEF Vectors, At, Execute, Continue, rankState, network, library
    <3>5. delayed'[r] = CASE k = "delay" ->
                                Append(delayed[r],
                                       <<Head(todo[r])[2], starts[r][Head(todo[r])[3]]>>)
                           [] k = "pop"   -> Tail(delayed[r])
                           [] OTHER       -> delayed[r]
      BY <1>2, <2>1, <2>3 DEF Vectors, At, Execute, Continue, rankState, network, library
    <3> QED  BY <2>3, <3>1, <3>2, <3>3, <3>4, <3>5 DEF Advances
  <2> QED  BY <2>1, <2>2, <2>4, AdvanceMoves DEF Moving
<1> QED  BY <1>1, <1>2 DEF Execute

LEMMA TransferMoves ==
  ASSUME Vectors, NEW r \in Ranks, Transfer(r)
  PROVE  Moving(r)
<1>1. CASE At(r, "write")
  <2>1. PICK k \in {"write"} : At(r, k)
    BY <1>1 DEF Transfer
  <2>2. /\ Vectors' /\ \A q \in Ranks : q # r => Stays(q)
        /\ slots' = slots /\ inside' = inside /\ alone' = alone
    BY <1>1 DEF Vectors, Stays, Transfer, Continue, rankState, network, library
  <2>3. Head(todo[r])[1] = k
    BY <2>1 DEF At
  <2>4. Advances(r)
    <3>1. todo'[r] = More(Here(r)) \o Tail(todo[r])
      <4>1. /\ Here(r).todo = todo[r] /\ Here(r).define = define[r]
            /\ Here(r).answer = answer[r] /\ Here(r).stat = stat[r]
            /\ Here(r).starts = starts[r] /\ Here(r).delayed = delayed[r]
        BY ViewFields DEF Here
      <4>2. More(Here(r)) = PutVar(Head(todo[r])[2], starts[r][Head(todo[r])[3]])
        BY <1>1, <2>1, <2>3, <4>1, MoreFacts
      <4>3. todo'[r] = (PutVar(Head(todo[r])[2], starts[r][Head(todo[r])[3]])) \o Tail(todo[r])
        BY <1>1, <2>1, <2>3 DEF Vectors, At, Transfer, Continue
      <4> QED  BY <4>2, <4>3
    <3>2. /\ state'[r] = state[r] /\ answer'[r] = answer[r]
          /\ stat'[r] = IF k = "textifread" THEN 0 ELSE stat[r]
      BY <1>1, <2>1, <2>3 DEF Vectors, At, Transfer, Continue, rankState, network, library
    <3>3. /\ define'[r] = IF k # "sets" THEN define[r]
                          ELSE \/ Head(todo[r])[2] \in {"created", "define"}
                               \/ Head(todo[r])[2] = "closed" /\ define[r]
          /\ named'[r] = IF k # "sets" THEN named[r] ELSE Head(todo[r])[2] # "closed"
      BY <1>1, <2>1, <2>3 DEF Vectors, At, Transfer, Continue, rankState, network, library
    <3>4. starts'[r] = IF k # "let" THEN starts[r]
                        ELSE [starts[r] EXCEPT ![Head(todo[r])[2]] =
                                IF answer[r] < Head(todo[r])[3] THEN 0
                                ELSE answer[r] - Head(todo[r])[3]]
      BY <1>1, <2>1, <2>3 DEF Vectors, At, Transfer, Continue, rankState, network, library
    <3>5. delayed'[r] = CASE k = "delay" ->
                                Append(delayed[r],
                                       <<Head(todo[r])[2], starts[r][Head(todo[r])[3]]>>)
                           [] k = "pop"   -> Tail(delayed[r])
                           [] OTHER       -> delayed[r]
      BY <1>1, <2>1, <2>3 DEF Vectors, At, Transfer, Continue, rankState, network, library
    <3> QED  BY <2>3, <3>1, <3>2, <3>3, <3>4, <3>5 DEF Advances
  <2> QED  BY <2>1, <2>2, <2>4, AdvanceMoves DEF Moving
<1>2. CASE At(r, "fetch")
  <2>1. PICK k \in {"fetch"} : At(r, k)
    BY <1>2 DEF Transfer
  <2>2. /\ Vectors' /\ \A q \in Ranks : q # r => Stays(q)
        /\ slots' = slots /\ inside' = inside /\ alone' = alone
    BY <1>2 DEF Vectors, Stays, Transfer, Continue, rankState, network, library
  <2>3. Head(todo[r])[1] = k
    BY <2>1 DEF At
  <2>4. Advances(r)
    <3>1. todo'[r] = More(Here(r)) \o Tail(todo[r])
      <4>1. /\ Here(r).todo = todo[r] /\ Here(r).define = define[r]
            /\ Here(r).answer = answer[r] /\ Here(r).stat = stat[r]
            /\ Here(r).starts = starts[r] /\ Here(r).delayed = delayed[r]
        BY ViewFields DEF Here
      <4>2. More(Here(r)) = GetVar(Head(todo[r])[2])
        BY <1>2, <2>1, <2>3, <4>1, MoreFacts
      <4>3. todo'[r] = (GetVar(Head(todo[r])[2])) \o Tail(todo[r])
        BY <1>2, <2>1, <2>3 DEF Vectors, At, Transfer, Continue
      <4> QED  BY <4>2, <4>3
    <3>2. /\ state'[r] = state[r] /\ answer'[r] = answer[r]
          /\ stat'[r] = IF k = "textifread" THEN 0 ELSE stat[r]
      BY <1>2, <2>1, <2>3 DEF Vectors, At, Transfer, Continue, rankState, network, library
    <3>3. /\ define'[r] = IF k # "sets" THEN define[r]
                          ELSE \/ Head(todo[r])[2] \in {"created", "define"}
                               \/ Head(todo[r])[2] = "closed" /\ define[r]
          /\ named'[r] = IF k # "sets" THEN named[r] ELSE Head(todo[r])[2] # "closed"
      BY <1>2, <2>1, <2>3 DEF Vectors, At, Transfer, Continue, rankState, network, library
    <3>4. starts'[r] = IF k # "let" THEN starts[r]
                        ELSE [starts[r] EXCEPT ![Head(todo[r])[2]] =
                                IF answer[r] < Head(todo[r])[3] THEN 0
                                ELSE answer[r] - Head(todo[r])[3]]
      BY <1>2, <2>1, <2>3 DEF Vectors, At, Transfer, Continue, rankState, network, library
    <3>5. delayed'[r] = CASE k = "delay" ->
                                Append(delayed[r],
                                       <<Head(todo[r])[2], starts[r][Head(todo[r])[3]]>>)
                           [] k = "pop"   -> Tail(delayed[r])
                           [] OTHER       -> delayed[r]
      BY <1>2, <2>1, <2>3 DEF Vectors, At, Transfer, Continue, rankState, network, library
    <3> QED  BY <2>3, <3>1, <3>2, <3>3, <3>4, <3>5 DEF Advances
  <2> QED  BY <2>1, <2>2, <2>4, AdvanceMoves DEF Moving
<1> QED  BY <1>1, <1>2 DEF Transfer

LEMMA SkipMoves ==
  ASSUME Vectors, NEW r \in Ranks, Skip(r)
  PROVE  Moving(r)
<1>1. Moving(r)
  <2>1. PICK k \in {"call", "checked", "ask", "receive", "reply", "send", "await"} : At(r, k)
    BY DEF Skip, RootOnly, OthersOnly
  <2>2. /\ Vectors' /\ \A q \in Ranks : q # r => Stays(q)
        /\ slots' = slots /\ inside' = inside /\ alone' = alone
    BY DEF Vectors, Stays, Skip, Continue, rankState, network, library
  <2>3. Head(todo[r])[1] = k
    BY <2>1 DEF At
  <2>4. Advances(r)
    <3>1. todo'[r] = More(Here(r)) \o Tail(todo[r])
      <4>1. /\ Here(r).todo = todo[r] /\ Here(r).define = define[r]
            /\ Here(r).answer = answer[r] /\ Here(r).stat = stat[r]
            /\ Here(r).starts = starts[r] /\ Here(r).delayed = delayed[r]
        BY ViewFields DEF Here
      <4>2. More(Here(r)) = <<>>
        BY <2>1, <2>3, <4>1, MoreFacts
      <4>3. todo'[r] = (<<>>) \o Tail(todo[r])
        BY <2>1, <2>3 DEF Vectors, At, Skip, Continue
      <4> QED  BY <4>2, <4>3
    <3>2. /\ state'[r] = state[r] /\ answer'[r] = answer[r]
          /\ stat'[r] = IF k = "textifread" THEN 0 ELSE stat[r]
      BY <2>1, <2>3 DEF Vectors, At, Skip, Continue, rankState, network, library
    <3>3. /\ define'[r] = IF k # "sets" THEN define[r]
                          ELSE \/ Head(todo[r])[2] \in {"created", "define"}
                               \/ Head(todo[r])[2] = "closed" /\ define[r]
          /\ named'[r] = IF k # "sets" THEN named[r] ELSE Head(todo[r])[2] # "closed"
      BY <2>1, <2>3 DEF Vectors, At, Skip, Continue, rankState, network, library
    <3>4. starts'[r] = IF k # "let" THEN starts[r]
                        ELSE [starts[r] EXCEPT ![Head(todo[r])[2]] =
                                IF answer[r] < Head(todo[r])[3] THEN 0
                                ELSE answer[r] - Head(todo[r])[3]]
      BY <2>1, <2>3 DEF Vectors, At, Skip, Continue, rankState, network, library
    <3>5. delayed'[r] = CASE k = "delay" ->
                                Append(delayed[r],
                                       <<Head(todo[r])[2], starts[r][Head(todo[r])[3]]>>)
                           [] k = "pop"   -> Tail(delayed[r])
                           [] OTHER       -> delayed[r]
      BY <2>1, <2>3 DEF Vectors, At, Skip, Continue, rankState, network, library
    <3> QED  BY <2>3, <3>1, <3>2, <3>3, <3>4, <3>5 DEF Advances
  <2> QED  BY <2>1, <2>2, <2>4, AdvanceMoves DEF Moving
<1> QED  BY <1>1

LEMMA SendMoves ==
  ASSUME Vectors, NEW r \in Ranks, Send(r)
  PROVE  Moving(r)
<1>1. Moving(r)
  <2>1. PICK k \in {"send"} : At(r, k)
    BY DEF Send
  <2>2. /\ Vectors' /\ \A q \in Ranks : q # r => Stays(q)
        /\ slots' = slots /\ inside' = inside /\ alone' = alone
    BY DEF Vectors, Stays, Send, Continue, rankState, network, library
  <2>3. Head(todo[r])[1] = k
    BY <2>1 DEF At
  <2>4. Advances(r)
    <3>1. todo'[r] = More(Here(r)) \o Tail(todo[r])
      <4>1. /\ Here(r).todo = todo[r] /\ Here(r).define = define[r]
            /\ Here(r).answer = answer[r] /\ Here(r).stat = stat[r]
            /\ Here(r).starts = starts[r] /\ Here(r).delayed = delayed[r]
        BY ViewFields DEF Here
      <4>2. More(Here(r)) = <<>>
        BY <2>1, <2>3, <4>1, MoreFacts
      <4>3. todo'[r] = (<<>>) \o Tail(todo[r])
        BY <2>1, <2>3 DEF Vectors, At, Send, Continue
      <4> QED  BY <4>2, <4>3
    <3>2. /\ state'[r] = state[r] /\ answer'[r] = answer[r]
          /\ stat'[r] = IF k = "textifread" THEN 0 ELSE stat[r]
      BY <2>1, <2>3 DEF Vectors, At, Send, Continue, rankState, network, library
    <3>3. /\ define'[r] = IF k # "sets" THEN define[r]
                          ELSE \/ Head(todo[r])[2] \in {"created", "define"}
                               \/ Head(todo[r])[2] = "closed" /\ define[r]
          /\ named'[r] = IF k # "sets" THEN named[r] ELSE Head(todo[r])[2] # "closed"
      BY <2>1, <2>3 DEF Vectors, At, Send, Continue, rankState, network, library
    <3>4. starts'[r] = IF k # "let" THEN starts[r]
                        ELSE [starts[r] EXCEPT ![Head(todo[r])[2]] =
                                IF answer[r] < Head(todo[r])[3] THEN 0
                                ELSE answer[r] - Head(todo[r])[3]]
      BY <2>1, <2>3 DEF Vectors, At, Send, Continue, rankState, network, library
    <3>5. delayed'[r] = CASE k = "delay" ->
                                Append(delayed[r],
                                       <<Head(todo[r])[2], starts[r][Head(todo[r])[3]]>>)
                           [] k = "pop"   -> Tail(delayed[r])
                           [] OTHER       -> delayed[r]
      BY <2>1, <2>3 DEF Vectors, At, Send, Continue, rankState, network, library
    <3> QED  BY <2>3, <3>1, <3>2, <3>3, <3>4, <3>5 DEF Advances
  <2> QED  BY <2>1, <2>2, <2>4, AdvanceMoves DEF Moving
<1> QED  BY <1>1

LEMMA AwaitMoves ==
  ASSUME Vectors, NEW r \in Ranks, Await(r)
  PROVE  Moving(r)
<1>1. Moving(r)
  <2>1. PICK k \in {"await"} : At(r, k)
    BY DEF Await
  <2>2. /\ Vectors' /\ \A q \in Ranks : q # r => Stays(q)
        /\ slots' = slots /\ inside' = inside /\ alone' = alone
    BY DEF Vectors, Stays, Await, Continue, rankState, network, library
  <2>3. Head(todo[r])[1] = k
    BY <2>1 DEF At
  <2>4. Advances(r)
    <3>1. todo'[r] = More(Here(r)) \o Tail(todo[r])
      <4>1. /\ Here(r).todo = todo[r] /\ Here(r).define = define[r]
            /\ Here(r).answer = answer[r] /\ Here(r).stat = stat[r]
            /\ Here(r).starts = starts[r] /\ Here(r).delayed = delayed[r]
        BY ViewFields DEF Here
      <4>2. More(Here(r)) = <<>>
        BY <2>1, <2>3, <4>1, MoreFacts
      <4>3. todo'[r] = (<<>>) \o Tail(todo[r])
        BY <2>1, <2>3 DEF Vectors, At, Await, Continue
      <4> QED  BY <4>2, <4>3
    <3>2. /\ state'[r] = state[r] /\ answer'[r] = answer[r]
          /\ stat'[r] = IF k = "textifread" THEN 0 ELSE stat[r]
      BY <2>1, <2>3 DEF Vectors, At, Await, Continue, rankState, network, library
    <3>3. /\ define'[r] = IF k # "sets" THEN define[r]
                          ELSE \/ Head(todo[r])[2] \in {"created", "define"}
                               \/ Head(todo[r])[2] = "closed" /\ define[r]
          /\ named'[r] = IF k # "sets" THEN named[r] ELSE Head(todo[r])[2] # "closed"
      BY <2>1, <2>3 DEF Vectors, At, Await, Continue, rankState, network, library
    <3>4. starts'[r] = IF k # "let" THEN starts[r]
                        ELSE [starts[r] EXCEPT ![Head(todo[r])[2]] =
                                IF answer[r] < Head(todo[r])[3] THEN 0
                                ELSE answer[r] - Head(todo[r])[3]]
      BY <2>1, <2>3 DEF Vectors, At, Await, Continue, rankState, network, library
    <3>5. delayed'[r] = CASE k = "delay" ->
                                Append(delayed[r],
                                       <<Head(todo[r])[2], starts[r][Head(todo[r])[3]]>>)
                           [] k = "pop"   -> Tail(delayed[r])
                           [] OTHER       -> delayed[r]
      BY <2>1, <2>3 DEF Vectors, At, Await, Continue, rankState, network, library
    <3> QED  BY <2>3, <3>1, <3>2, <3>3, <3>4, <3>5 DEF Advances
  <2> QED  BY <2>1, <2>2, <2>4, AdvanceMoves DEF Moving
<1> QED  BY <1>1

LEMMA CountMoves ==
  ASSUME Vectors, NEW r \in Ranks, Count(r)
  PROVE  Moving(r)
<1>1. Moving(r)
  <2>1. PICK k \in {"count"} : At(r, k)
    BY DEF Count
  <2>2. /\ Vectors' /\ \A q \in Ranks : q # r => Stays(q)
        /\ slots' = slots /\ inside' = inside /\ alone' = alone
    BY DEF Vectors, Stays, Count, Continue, rankState, network, library
  <2>3. Head(todo[r])[1] = k
    BY <2>1 DEF At
  <2>4. Advances(r)
    <3>1. todo'[r] = More(Here(r)) \o Tail(todo[r])
      <4>1. /\ Here(r).todo = todo[r] /\ Here(r).define = define[r]
            /\ Here(r).answer = answer[r] /\ Here(r).stat = stat[r]
            /\ Here(r).starts = starts[r] /\ Here(r).delayed = delayed[r]
        BY ViewFields DEF Here
      <4>2. More(Here(r)) = <<>>
        BY <2>1, <2>3, <4>1, MoreFacts
      <4>3. todo'[r] = (<<>>) \o Tail(todo[r])
        BY <2>1, <2>3 DEF Vectors, At, Count, Continue
      <4> QED  BY <4>2, <4>3
    <3>2. /\ state'[r] = state[r] /\ answer'[r] = answer[r]
          /\ stat'[r] = IF k = "textifread" THEN 0 ELSE stat[r]
      BY <2>1, <2>3 DEF Vectors, At, Count, Continue, rankState, network, library
    <3>3. /\ define'[r] = IF k # "sets" THEN define[r]
                          ELSE \/ Head(todo[r])[2] \in {"created", "define"}
                               \/ Head(todo[r])[2] = "closed" /\ define[r]
          /\ named'[r] = IF k # "sets" THEN named[r] ELSE Head(todo[r])[2] # "closed"
      BY <2>1, <2>3 DEF Vectors, At, Count, Continue, rankState, network, library
    <3>4. starts'[r] = IF k # "let" THEN starts[r]
                        ELSE [starts[r] EXCEPT ![Head(todo[r])[2]] =
                                IF answer[r] < Head(todo[r])[3] THEN 0
                                ELSE answer[r] - Head(todo[r])[3]]
      BY <2>1, <2>3 DEF Vectors, At, Count, Continue, rankState, network, library
    <3>5. delayed'[r] = CASE k = "delay" ->
                                Append(delayed[r],
                                       <<Head(todo[r])[2], starts[r][Head(todo[r])[3]]>>)
                           [] k = "pop"   -> Tail(delayed[r])
                           [] OTHER       -> delayed[r]
      BY <2>1, <2>3 DEF Vectors, At, Count, Continue, rankState, network, library
    <3> QED  BY <2>3, <3>1, <3>2, <3>3, <3>4, <3>5 DEF Advances
  <2> QED  BY <2>1, <2>2, <2>4, AdvanceMoves DEF Moving
<1> QED  BY <1>1

LEMMA StartSessionMoves ==
  ASSUME Vectors, NEW r \in Ranks, StartSession(r)
  PROVE  Moving(r)
<1>1. Moving(r)
  <2>1. PICK k \in {"session"} : At(r, k)
    BY DEF StartSession
  <2>2. /\ Vectors' /\ \A q \in Ranks : q # r => Stays(q)
        /\ slots' = slots /\ inside' = inside /\ alone' = alone
    BY DEF Vectors, Stays, StartSession, Continue, rankState, network, library
  <2>3. Head(todo[r])[1] = k
    BY <2>1 DEF At
  <2>4. Advances(r)
    <3>1. todo'[r] = More(Here(r)) \o Tail(todo[r])
      <4>1. /\ Here(r).todo = todo[r] /\ Here(r).define = define[r]
            /\ Here(r).answer = answer[r] /\ Here(r).stat = stat[r]
            /\ Here(r).starts = starts[r] /\ Here(r).delayed = delayed[r]
        BY ViewFields DEF Here
      <4>2. More(Here(r)) = Session(Head(todo[r])[2])
        BY <2>1, <2>3, <4>1, MoreFacts
      <4>3. todo'[r] = (Session(Head(todo[r])[2])) \o Tail(todo[r])
        BY <2>1, <2>3 DEF Vectors, At, StartSession, Continue
      <4> QED  BY <4>2, <4>3
    <3>2. /\ state'[r] = state[r] /\ answer'[r] = answer[r]
          /\ stat'[r] = IF k = "textifread" THEN 0 ELSE stat[r]
      BY <2>1, <2>3 DEF Vectors, At, StartSession, Continue, rankState, network, library
    <3>3. /\ define'[r] = IF k # "sets" THEN define[r]
                          ELSE \/ Head(todo[r])[2] \in {"created", "define"}
                               \/ Head(todo[r])[2] = "closed" /\ define[r]
          /\ named'[r] = IF k # "sets" THEN named[r] ELSE Head(todo[r])[2] # "closed"
      BY <2>1, <2>3 DEF Vectors, At, StartSession, Continue, rankState, network, library
    <3>4. starts'[r] = IF k # "let" THEN starts[r]
                        ELSE [starts[r] EXCEPT ![Head(todo[r])[2]] =
                                IF answer[r] < Head(todo[r])[3] THEN 0
                                ELSE answer[r] - Head(todo[r])[3]]
      BY <2>1, <2>3 DEF Vectors, At, StartSession, Continue, rankState, network, library
    <3>5. delayed'[r] = CASE k = "delay" ->
                                Append(delayed[r],
                                       <<Head(todo[r])[2], starts[r][Head(todo[r])[3]]>>)
                           [] k = "pop"   -> Tail(delayed[r])
                           [] OTHER       -> delayed[r]
      BY <2>1, <2>3 DEF Vectors, At, StartSession, Continue, rankState, network, library
    <3> QED  BY <2>3, <3>1, <3>2, <3>3, <3>4, <3>5 DEF Advances
  <2> QED  BY <2>1, <2>2, <2>4, AdvanceMoves DEF Moving
<1> QED  BY <1>1

LEMMA CheckEverywhereMoves ==
  ASSUME Vectors, NEW r \in Ranks, CheckEverywhere(r)
  PROVE  Moving(r)
<1>1. At(r, "verify") /\ Head(todo[r])[1] = "verify"
  BY DEF CheckEverywhere, At
<1>2. /\ Here(r).todo = todo[r] /\ Here(r).state = state[r] /\ Here(r).stat = stat[r]
      /\ Here(r).answer = answer[r] /\ Here(r).starts = starts[r]
      /\ Here(r).define = define[r] /\ Here(r).named = named[r]
      /\ Here(r).delayed = delayed[r]
  BY ViewFields DEF Here
<1>3. CASE stat[r] = 0
  <2>1. /\ Vectors' /\ \A q \in Ranks : q # r => Stays(q)
        /\ slots' = slots /\ inside' = inside /\ alone' = alone
    BY <1>3 DEF Vectors, Stays, CheckEverywhere, Continue, network
  <2>2. More(Here(r)) = <<>>
    BY <1>1, <1>2, MoreFacts
  <2>3. todo'[r] = <<>> \o Tail(todo[r])
    BY <1>3 DEF Vectors, CheckEverywhere, Continue
  <2>4. Advances(r)
    <3>1. /\ state'[r] = state[r] /\ answer'[r] = answer[r] /\ stat'[r] = stat[r]
          /\ starts'[r] = starts[r] /\ define'[r] = define[r] /\ named'[r] = named[r]
          /\ delayed'[r] = delayed[r]
      BY <1>3 DEF CheckEverywhere
    <3>2. delayed'[r] = CASE Head(todo[r])[1] = "delay" ->
                                Append(delayed[r],
                                       <<Head(todo[r])[2], starts[r][Head(todo[r])[3]]>>)
                          [] Head(todo[r])[1] = "pop"   -> Tail(delayed[r])
                          [] OTHER       -> delayed[r]
      BY <1>1, <3>1
    <3> QED  BY <1>1, <2>2, <2>3, <3>1, <3>2 DEF Advances
  <2> QED  BY <1>1, <1>3, <2>1, <2>4, AdvanceMoves DEF Moving
<1>4. CASE stat[r] # 0
  <2>1. /\ Vectors' /\ \A q \in Ranks : q # r => Stays(q)
        /\ slots' = slots /\ inside' = inside /\ alone' = alone
    BY <1>4 DEF Vectors, Stays, CheckEverywhere, Throw, network
  <2>2. Moves(Here(r))
    BY <1>1, <1>2 DEF At, Moves, Waits, Working
  <2>3. Moved(Here(r)) = Thrown(Here(r))
    BY <1>1, <1>2, <1>4 DEF At, Moved
  <2>4. Here(r)' = [todo |-> todo'[r], state |-> state'[r], stat |-> stat'[r],
                    answer |-> answer'[r], starts |-> starts'[r], define |-> define'[r],
                    named |-> named'[r], delayed |-> delayed'[r]]
    BY DEF Here, View
  <2>5. /\ answer'[r] = answer[r] /\ stat'[r] = 0
        /\ starts'[r] = starts[r] /\ define'[r] = define[r] /\ named'[r] = named[r]
        /\ delayed'[r] = delayed[r]
    BY <1>4 DEF Vectors, CheckEverywhere, Throw
  <2>6. /\ todo'[r] = IF state[r] = "running" /\ named[r] THEN CloseFile ELSE <<>>
        /\ state'[r] = IF state[r] = "running" /\ named[r] THEN "unwinding" ELSE "failed"
    BY <1>4 DEF Vectors, CheckEverywhere, Throw
  <2>7. Here(r)' = Thrown(Here(r))
    BY <1>2, <2>4, <2>5, <2>6 DEF Thrown
  <2> QED  BY <2>1, <2>2, <2>3, <2>7 DEF Moving
<1> QED  BY <1>3, <1>4

LEMMA FinishMoves ==
  ASSUME Vectors, NEW r \in Ranks, Finish(r)
  PROVE  Moving(r)
<1>1. /\ Vectors' /\ \A q \in Ranks : q # r => Stays(q)
      /\ slots' = slots /\ inside' = inside /\ alone' = alone
  BY DEF Vectors, Stays, Finish, network
<1>2. state[r] \in Working /\ todo[r] = <<>>
  BY DEF Finish, Working
<1>3. /\ Here(r).todo = todo[r] /\ Here(r).state = state[r]
  BY ViewFields DEF Here
<1>4. Moves(Here(r))
  BY <1>2, <1>3 DEF Moves, Waits
<1>5. Here(r)' = [todo |-> todo'[r], state |-> state'[r], stat |-> stat'[r],
                  answer |-> answer'[r], starts |-> starts'[r], define |-> define'[r],
                  named |-> named'[r], delayed |-> delayed'[r]]
  BY DEF Here, View
<1>6. Here(r) = [todo |-> todo[r], state |-> state[r], stat |-> stat[r],
                 answer |-> answer[r], starts |-> starts[r], define |-> define[r],
                 named |-> named[r], delayed |-> delayed[r]]
  BY DEF Here, View
<1>7. /\ todo'[r] = todo[r] /\ answer'[r] = answer[r] /\ stat'[r] = stat[r]
      /\ starts'[r] = starts[r] /\ define'[r] = define[r] /\ named'[r] = named[r]
      /\ delayed'[r] = delayed[r]
      /\ state'[r] = IF state[r] = "running" THEN "done" ELSE "failed"
  BY DEF Vectors, Finish
<1>8. Here(r)' = Moved(Here(r))
  BY <1>2, <1>3, <1>5, <1>6, <1>7 DEF Moved
<1> QED  BY <1>1, <1>4, <1>8 DEF Moving

(* All the steps of a processor outside of collective operations.           *)
OwnStep(r) ==
  \/ CheckEverywhere(r) \/ Remember(r) \/ ChangeMode(r) \/ Branch(r) \/ Compute(r)
  \/ Delay(r) \/ Execute(r) \/ Transfer(r) \/ Skip(r) \/ Send(r) \/ Await(r)
  \/ Count(r) \/ StartSession(r) \/ Finish(r)

LEMMA OwnStepMoves ==
  ASSUME Vectors, NEW r \in Ranks, OwnStep(r)
  PROVE  Moving(r)
BY CheckEverywhereMoves, RememberMoves, ChangeModeMoves, BranchMoves, ComputeMoves,
   DelayMoves, ExecuteMoves, TransferMoves, SkipMoves, SendMoves, AwaitMoves, CountMoves,
   StartSessionMoves, FinishMoves DEF OwnStep


LEMMA ReceiveMoves ==
  ASSUME Vectors, Receive
  PROVE  Moving(0)
<1>0. 0 \in Ranks
  BY FileAssumption DEF Ranks
<1>1. Moving(0)
  <2>1. PICK k \in {"receive"} : At(0, k)
    BY DEF Receive
  <2>2. /\ Vectors' /\ \A q \in Ranks : q # 0 => Stays(q)
        /\ slots' = slots /\ inside' = inside /\ alone' = alone
    BY <1>0 DEF Vectors, Stays, Receive, Continue, rankState, library
  <2>3. Head(todo[0])[1] = k
    BY <1>0, <2>1 DEF At
  <2>4. Advances(0)
    <3>1. todo'[0] = More(Here(0)) \o Tail(todo[0])
      <4>1. /\ Here(0).todo = todo[0] /\ Here(0).define = define[0]
            /\ Here(0).answer = answer[0] /\ Here(0).stat = stat[0]
            /\ Here(0).starts = starts[0] /\ Here(0).delayed = delayed[0]
        BY ViewFields DEF Here
      <4>2. More(Here(0)) = <<>>
        BY <1>0, <2>1, <2>3, <4>1, MoreFacts
      <4>3. todo'[0] = (<<>>) \o Tail(todo[0])
        BY <1>0, <2>1, <2>3 DEF Vectors, At, Receive, Continue
      <4> QED  BY <4>2, <4>3
    <3>2. /\ state'[0] = state[0] /\ answer'[0] = answer[0]
          /\ stat'[0] = IF k = "textifread" THEN 0 ELSE stat[0]
      BY <1>0, <2>1, <2>3 DEF Vectors, At, Receive, Continue, rankState, library
    <3>3. /\ define'[0] = IF k # "sets" THEN define[0]
                          ELSE \/ Head(todo[0])[2] \in {"created", "define"}
                               \/ Head(todo[0])[2] = "closed" /\ define[0]
          /\ named'[0] = IF k # "sets" THEN named[0] ELSE Head(todo[0])[2] # "closed"
      BY <1>0, <2>1, <2>3 DEF Vectors, At, Receive, Continue, rankState, library
    <3>4. starts'[0] = IF k # "let" THEN starts[0]
                        ELSE [starts[0] EXCEPT ![Head(todo[0])[2]] =
                                IF answer[0] < Head(todo[0])[3] THEN 0
                                ELSE answer[0] - Head(todo[0])[3]]
      BY <1>0, <2>1, <2>3 DEF Vectors, At, Receive, Continue, rankState, library
    <3>5. delayed'[0] = CASE k = "delay" ->
                                Append(delayed[0],
                                       <<Head(todo[0])[2], starts[0][Head(todo[0])[3]]>>)
                           [] k = "pop"   -> Tail(delayed[0])
                           [] OTHER       -> delayed[0]
      BY <1>0, <2>1, <2>3 DEF Vectors, At, Receive, Continue, rankState, library
    <3> QED  BY <2>3, <3>1, <3>2, <3>3, <3>4, <3>5 DEF Advances
  <2> QED  BY <1>0, <2>1, <2>2, <2>4, AdvanceMoves DEF Moving
<1> QED  BY <1>1

LEMMA ReplyMoves ==
  ASSUME Vectors, Reply
  PROVE  Moving(0)
<1>0. 0 \in Ranks
  BY FileAssumption DEF Ranks
<1>1. Moving(0)
  <2>1. PICK k \in {"reply"} : At(0, k)
    BY DEF Reply
  <2>2. /\ Vectors' /\ \A q \in Ranks : q # 0 => Stays(q)
        /\ slots' = slots /\ inside' = inside /\ alone' = alone
    BY <1>0 DEF Vectors, Stays, Reply, Continue, rankState, library
  <2>3. Head(todo[0])[1] = k
    BY <1>0, <2>1 DEF At
  <2>4. Advances(0)
    <3>1. todo'[0] = More(Here(0)) \o Tail(todo[0])
      <4>1. /\ Here(0).todo = todo[0] /\ Here(0).define = define[0]
            /\ Here(0).answer = answer[0] /\ Here(0).stat = stat[0]
            /\ Here(0).starts = starts[0] /\ Here(0).delayed = delayed[0]
        BY ViewFields DEF Here
      <4>2. More(Here(0)) = <<>>
        BY <1>0, <2>1, <2>3, <4>1, MoreFacts
      <4>3. todo'[0] = (<<>>) \o Tail(todo[0])
        BY <1>0, <2>1, <2>3 DEF Vectors, At, Reply, Continue
      <4> QED  BY <4>2, <4>3
    <3>2. /\ state'[0] = state[0] /\ answer'[0] = answer[0]
          /\ stat'[0] = IF k = "textifread" THEN 0 ELSE stat[0]
      BY <1>0, <2>1, <2>3 DEF Vectors, At, Reply, Continue, rankState, library
    <3>3. /\ define'[0] = IF k # "sets" THEN define[0]
                          ELSE \/ Head(todo[0])[2] \in {"created", "define"}
                               \/ Head(todo[0])[2] = "closed" /\ define[0]
          /\ named'[0] = IF k # "sets" THEN named[0] ELSE Head(todo[0])[2] # "closed"
      BY <1>0, <2>1, <2>3 DEF Vectors, At, Reply, Continue, rankState, library
    <3>4. starts'[0] = IF k # "let" THEN starts[0]
                        ELSE [starts[0] EXCEPT ![Head(todo[0])[2]] =
                                IF answer[0] < Head(todo[0])[3] THEN 0
                                ELSE answer[0] - Head(todo[0])[3]]
      BY <1>0, <2>1, <2>3 DEF Vectors, At, Reply, Continue, rankState, library
    <3>5. delayed'[0] = CASE k = "delay" ->
                                Append(delayed[0],
                                       <<Head(todo[0])[2], starts[0][Head(todo[0])[3]]>>)
                           [] k = "pop"   -> Tail(delayed[0])
                           [] OTHER       -> delayed[0]
      BY <1>0, <2>1, <2>3 DEF Vectors, At, Reply, Continue, rankState, library
    <3> QED  BY <2>3, <3>1, <3>2, <3>3, <3>4, <3>5 DEF Advances
  <2> QED  BY <1>0, <2>1, <2>2, <2>4, AdvanceMoves DEF Moving
<1> QED  BY <1>1

LEMMA MovingKept ==
  ASSUME Vectors, OwnStep(0) \/ Receive \/ Reply \/ \E r \in Ranks : OwnStep(r)
  PROVE  \E r \in Ranks : Moving(r)
<1>1. 0 \in Ranks
  BY FileAssumption DEF Ranks
<1> QED  BY <1>1, OwnStepMoves, ReceiveMoves, ReplyMoves

(* What the calls of the library have in common for the others: none of     *)
(* them changes more than what processor 0 knows, and the others are told   *)
(* of it before it matters.                                                 *)
Calling ==
  /\ Vectors' /\ \A q \in Ranks : q # 0 => Stays(q)
  /\ At(0, "call") \/ At(0, "checked") \/ At(0, "ask")
  /\ todo'[0] = Tail(todo[0]) /\ state'[0] = state[0] /\ starts'[0] = starts[0]
  /\ define'[0] = define[0] /\ named'[0] = named[0] /\ delayed'[0] = delayed[0]
  /\ slots' = slots /\ inside' = inside /\ alone' = alone
  /\ stat'[0] = stat[0] \/ Head(todo[0])[1] = "call"
  /\ answer'[0] = answer[0] \/ Asks(Head(todo[0]))

LEMMA NoMore ==
  ASSUME Programs, NEW r \in Ranks, todo[r] # <<>>
  PROVE  <<>> \o Tail(todo[r]) = Tail(todo[r])
<1>1. Good(Tail(todo[r]))
  BY GoodRest DEF Programs
<1> QED  BY <1>1, ListFacts DEF Good

LEMMA CallIsCalling ==
  ASSUME Vectors, Programs, LibraryCall
  PROVE  Calling
<1>1. At(0, "call") /\ 0 \in Ranks
  BY FileAssumption DEF LibraryCall, Ranks
<1>2. todo'[0] = Tail(todo[0])
  <2>1. todo'[0] = <<>> \o Tail(todo[0])
    BY <1>1 DEF Vectors, LibraryCall, Continue
  <2> QED  BY <1>1, <2>1, NoMore DEF At
<1>3. \/ answer' = answer
      \/ answer' = [answer EXCEPT ![0] = Answer(Head(todo[0]))]
  BY DEF LibraryCall, Succeeds, Fails
<1>4. \/ stat' = [stat EXCEPT ![0] = 0]
      \/ stat' = [stat EXCEPT ![0] = 1]
  BY DEF LibraryCall
<1>5. Head(todo[0])[1] = "call"
  BY <1>1 DEF At
<1>6. answer'[0] = answer[0] \/ Asks(Head(todo[0]))
  <2> SUFFICES ASSUME ~Asks(Head(todo[0])) PROVE answer'[0] = answer[0]
    OBVIOUS
  <2>1. Head(todo[0])[2] \notin {"exists", "length", "attlen"}
    BY <1>5 DEF Asks
  <2>2. Answer(Head(todo[0])) = answer[0]
    BY <2>1 DEF Answer
  <2> QED  BY <1>1, <1>3, <2>2 DEF Vectors
<1>7. Vectors' /\ \A q \in Ranks : q # 0 => Stays(q)
  <2>1. stat' = [q \in Ranks |-> stat'[q]] /\ answer' = [q \in Ranks |-> answer'[q]]
    BY <1>3, <1>4 DEF Vectors
  <2>2. todo' = [q \in Ranks |-> todo'[q]]
    BY DEF Vectors, LibraryCall, Continue
  <2>3. Vectors'
    BY <2>1, <2>2 DEF Vectors, LibraryCall, network
  <2>4. ASSUME NEW q \in Ranks, q # 0 PROVE Stays(q)
    <3>1. todo'[q] = todo[q]
      BY <2>4 DEF Vectors, LibraryCall, Continue
    <3>2. stat'[q] = stat[q] /\ answer'[q] = answer[q]
      BY <2>4, <1>3, <1>4 DEF Vectors
    <3> QED  BY <3>1, <3>2 DEF LibraryCall, Stays
  <2> QED  BY <2>3, <2>4
<1> QED  BY <1>1, <1>2, <1>5, <1>6, <1>7 DEF Calling, LibraryCall, network

LEMMA CheckedIsCalling ==
  ASSUME Vectors, Programs, CheckedCall, ~alone'
  PROVE  Calling
<1>1. At(0, "checked") /\ 0 \in Ranks
  BY FileAssumption DEF CheckedCall, Ranks
<1>2. todo'[0] = Tail(todo[0])
  <2>1. todo'[0] = <<>> \o Tail(todo[0])
    BY <1>1 DEF Vectors, CheckedCall, Continue
  <2> QED  BY <1>1, <2>1, NoMore DEF At
<1>3. answer' = [answer EXCEPT ![0] = Answer(Head(todo[0]))]
  BY DEF CheckedCall, Succeeds
<1>4. stat' = stat /\ alone' = alone
  BY DEF CheckedCall
<1>5. Head(todo[0])[1] = "checked"
  BY <1>1 DEF At
<1>6. answer'[0] = answer[0] \/ Asks(Head(todo[0]))
  <2> SUFFICES ASSUME ~Asks(Head(todo[0])) PROVE answer'[0] = answer[0]
    OBVIOUS
  <2>1. Head(todo[0])[2] \notin {"exists", "length", "attlen"}
    BY <1>5 DEF Asks
  <2>2. Answer(Head(todo[0])) = answer[0]
    BY <2>1 DEF Answer
  <2> QED  BY <1>1, <1>3, <2>2 DEF Vectors
<1>7. Vectors' /\ \A q \in Ranks : q # 0 => Stays(q)
  <2>1. answer' = [q \in Ranks |-> answer'[q]]
    BY <1>3 DEF Vectors
  <2>2. todo' = [q \in Ranks |-> todo'[q]]
    BY DEF Vectors, CheckedCall, Continue
  <2>3. Vectors'
    BY <1>4, <2>1, <2>2 DEF Vectors, CheckedCall, network
  <2>4. ASSUME NEW q \in Ranks, q # 0 PROVE Stays(q)
    <3>1. todo'[q] = todo[q]
      BY <2>4 DEF Vectors, CheckedCall, Continue
    <3>2. stat'[q] = stat[q] /\ answer'[q] = answer[q]
      BY <2>4, <1>3, <1>4 DEF Vectors
    <3> QED  BY <3>1, <3>2 DEF CheckedCall, Stays
  <2> QED  BY <2>3, <2>4
<1> QED  BY <1>1, <1>2, <1>4, <1>6, <1>7 DEF Calling, CheckedCall, network

LEMMA LookUpIsCalling ==
  ASSUME Vectors, Programs, LookUp
  PROVE  Calling
<1>1. At(0, "ask") /\ 0 \in Ranks
  BY FileAssumption DEF LookUp, Ranks
<1>2. todo'[0] = Tail(todo[0])
  <2>1. todo'[0] = <<>> \o Tail(todo[0])
    BY <1>1 DEF Vectors, LookUp, Continue
  <2> QED  BY <1>1, <2>1, NoMore DEF At
<1>3. PICK x : answer' = [answer EXCEPT ![0] = x]
  BY DEF LookUp
<1>4. stat' = stat /\ alone' = alone
  BY DEF LookUp, library
<1>5. Asks(Head(todo[0]))
  BY <1>1 DEF At, Asks
<1>6. Vectors' /\ \A q \in Ranks : q # 0 => Stays(q)
  <2>1. answer' = [q \in Ranks |-> answer'[q]]
    BY <1>3 DEF Vectors
  <2>2. todo' = [q \in Ranks |-> todo'[q]]
    BY DEF Vectors, LookUp, Continue
  <2>3. Vectors'
    BY <1>4, <2>1, <2>2 DEF Vectors, LookUp, network
  <2>4. ASSUME NEW q \in Ranks, q # 0 PROVE Stays(q)
    <3>1. todo'[q] = todo[q]
      BY <2>4 DEF Vectors, LookUp, Continue
    <3>2. stat'[q] = stat[q] /\ answer'[q] = answer[q]
      BY <2>4, <1>3, <1>4 DEF Vectors
    <3> QED  BY <3>1, <3>2 DEF LookUp, Stays
  <2> QED  BY <2>3, <2>4
<1> QED  BY <1>1, <1>2, <1>4, <1>5, <1>6 DEF Calling, LookUp, network

LEMMA CallingMoves ==
  ASSUME Programs, Calling, NEW s, NEW a
  PROVE  Moves(View(0, s, a)) /\ View(0, s, a)' = Moved(View(0, s, a))
<1> DEFINE c == View(0, s, a)
<1>1. /\ c.todo = todo[0] /\ c.state = state[0] /\ c.stat = s /\ c.answer = a
      /\ c.starts = starts[0] /\ c.define = define[0] /\ c.named = named[0]
      /\ c.delayed = delayed[0]
  BY ViewFields
<1>2. /\ todo[0] # <<>> /\ state[0] \in Working
      /\ Head(todo[0])[1] \in {"call", "checked", "ask"}
  BY DEF Calling, At, Working
<1>3. c' = [todo |-> todo'[0], state |-> state'[0], stat |-> s, answer |-> a,
            starts |-> starts'[0], define |-> define'[0], named |-> named'[0],
            delayed |-> delayed'[0]]
  BY DEF View
<1> HIDE DEF c
<1>4. Moves(c)
  BY <1>1, <1>2 DEF Moves, Waits
<1>5. Moved(c) = Advanced(c)
  BY <1>1, <1>2 DEF Moved
<1>6. More(c) \o Tail(todo[0]) = Tail(todo[0])
  <2>1. More(c) = <<>>
    BY <1>1, <1>2, MoreFacts
  <2>2. 0 \in Ranks
    BY FileAssumption DEF Ranks
  <2> QED  BY <1>2, <2>1, <2>2, NoMore
<1>7. Advanced(c) = [todo |-> Tail(todo[0]), state |-> state[0], stat |-> s, answer |-> a,
                     starts |-> starts[0], define |-> define[0], named |-> named[0],
                     delayed |-> delayed[0]]
  <2>1. Head(c.todo)[1] \notin {"textifread", "let", "sets", "delay", "pop"}
    BY <1>1, <1>2
  <2>2. (CASE Head(c.todo)[1] = "delay" ->
                 Append(c.delayed, <<Head(c.todo)[2], c.starts[Head(c.todo)[3]]>>)
           [] Head(c.todo)[1] = "pop"   -> Tail(c.delayed)
           [] OTHER                     -> c.delayed) = c.delayed
    BY <2>1
  <2> QED  BY <1>1, <1>6, <2>1, <2>2 DEF Advanced
<1>8. c' = Moved(c)
  BY <1>3, <1>5, <1>7 DEF Calling
<1> QED  BY <1>4, <1>8 DEF c

LEMMA CallingShared ==
  ASSUME Programs, Calling, NEW s, NEW a, Shared(s, a)
  PROVE  Shared(s, a)'
<1>1. /\ todo[0] # <<>> /\ Good(todo[0]) /\ AList(todo[0]) /\ todo'[0] = Tail(todo[0])
      /\ Head(todo[0])[1] \in {"call", "checked", "ask"}
  <2>1. 0 \in Ranks
    BY FileAssumption DEF Ranks
  <2> QED  BY <2>1 DEF Calling, At, Programs, Good
<1>2. Head(todo[0]) \notin Statuses /\ Head(todo[0]) \notin Answers
  <2>1. Share[1] = "bcast" /\ Total[1] = "all" /\ Bcast("answer")[1] = "bcast"
    BY DEF Share, Total, Bcast
  <2> QED  BY <1>1, <2>1 DEF Statuses, Answers
<1>3. s = stat'[0] \/ Told(todo'[0], 1, Statuses)
  <2>1. CASE Head(todo[0])[1] = "call"
    BY <1>1, <2>1, GoodRest
  <2>2. CASE Head(todo[0])[1] # "call"
    BY <1>1, <1>2, <2>2, StillToBeTold DEF Calling, Shared
  <2> QED  BY <2>1, <2>2
<1>4. a = answer'[0] \/ Told(todo'[0], 1, Answers)
  <2>1. CASE Asks(Head(todo[0]))
    BY <1>1, <2>1, GoodRest
  <2>2. CASE ~Asks(Head(todo[0]))
    BY <1>1, <1>2, <2>2, StillToBeTold DEF Calling, Shared
  <2> QED  BY <2>1, <2>2
<1> QED  BY <1>3, <1>4 DEF Shared


(* Outside of what is quiet, nothing is to be told. *)
LEMMA ToldQuiet ==
  ASSUME NEW t, AList(t), NEW S, S \in {Statuses, Answers}, Told(t, 1, S)
  PROVE  t # <<>> /\ Quiet(Head(t))
<1>1. PICK k \in DOMAIN t : k >= 1 /\ t[k] \in S /\ \A m \in 1..k - 1 : Quiet(t[m])
  BY DEF Told
<1>2. k \in 1..Len(t) /\ Len(t) \in Nat
  BY ListFacts
<1>3. t # <<>> /\ Head(t) = t[1]
  <2>1. Len(t) # 0
    BY <1>2
  <2> QED  BY <2>1, ListFacts
<1>4. CASE k = 1
  <2>1. Share[1] = "bcast" /\ Total[1] = "all" /\ Bcast("answer")[1] = "bcast"
    BY DEF Share, Total, Bcast
  <2>2. \A x \in Statuses \union Answers : x[1] \in {"all", "bcast"}
    BY <2>1 DEF Statuses, Answers
  <2> QED  BY <1>1, <1>3, <1>4, <2>2 DEF Quiet
<1>5. CASE k # 1
  <2>1. 1 \in 1..k - 1
    BY <1>2, <1>5
  <2> QED  BY <1>1, <1>3, <2>1
<1> QED  BY <1>4, <1>5

(* Processor 0 is at nothing quiet when it makes a step of its own. *)
AtWork == todo[0] = <<>> \/ ~Quiet(Head(todo[0]))

LEMMA OwnStepAtWork ==
  ASSUME OwnStep(0) \/ Receive \/ Reply
  PROVE  AtWork
<1>1. SUFFICES ASSUME todo[0] # <<>>
               PROVE  Head(todo[0])[1] \notin {"call", "checked", "ask", "all", "bcast"}
  BY DEF AtWork, Quiet
<1>2. CASE \E k \in {"verify", "sets", "redef", "enddef", "if", "unless", "textifread",
                     "let", "delay", "flush", "pop", "write", "fetch", "send", "await",
                     "count", "session", "receive", "reply"} : At(0, k)
  BY <1>2 DEF At
<1>3. ~Finish(0)
  BY <1>1 DEF Finish
<1>4. CASE CheckEverywhere(0)
  BY <1>2, <1>4 DEF CheckEverywhere
<1>5. CASE Remember(0) \/ ChangeMode(0) \/ Branch(0)
  BY <1>2, <1>5 DEF Remember, ChangeMode, Branch
<1>6. CASE Compute(0) \/ Delay(0) \/ Execute(0) \/ Transfer(0)
  BY <1>2, <1>6 DEF Compute, Delay, Execute, Transfer
<1>7. CASE Skip(0)
  BY <1>2, <1>7 DEF Skip, OthersOnly
<1>8. CASE Send(0) \/ Await(0) \/ Count(0) \/ StartSession(0)
  BY <1>2, <1>8 DEF Send, Await, Count, StartSession
<1>9. CASE Receive \/ Reply
  BY <1>2, <1>9 DEF Receive, Reply
<1> QED  BY <1>3, <1>4, <1>5, <1>6, <1>7, <1>8, <1>9 DEF OwnStep

LEMMA StayingHere ==
  ASSUME NEW q \in Ranks, Stays(q), NEW s, NEW a
  PROVE  Here(q)' = Here(q) /\ View(q, s, a)' = View(q, s, a)
<1>1. /\ Here(q)' = [todo |-> todo'[q], state |-> state'[q], stat |-> stat'[q],
                     answer |-> answer'[q], starts |-> starts'[q], define |-> define'[q],
                     named |-> named'[q], delayed |-> delayed'[q]]
      /\ View(q, s, a)' = [todo |-> todo'[q], state |-> state'[q], stat |-> s,
                     answer |-> a, starts |-> starts'[q], define |-> define'[q],
                     named |-> named'[q], delayed |-> delayed'[q]]
  BY DEF Here, View
<1>2. /\ Here(q) = [todo |-> todo[q], state |-> state[q], stat |-> stat[q],
                    answer |-> answer[q], starts |-> starts[q], define |-> define[q],
                    named |-> named[q], delayed |-> delayed[q]]
      /\ View(q, s, a) = [todo |-> todo[q], state |-> state[q], stat |-> s,
                    answer |-> a, starts |-> starts[q], define |-> define[q],
                    named |-> named[q], delayed |-> delayed[q]]
  BY DEF Here, View
<1> QED  BY <1>1, <1>2 DEF Stays

LEMMA SightFields ==
  ASSUME NEW s, NEW a
  PROVE  /\ Sight(s, a)[0] = View(0, s, a) /\ Sight(s, a)'[0] = View(0, s, a)'
         /\ \A q \in Ranks : q # 0 => Sight(s, a)[q] = Here(q) /\ Sight(s, a)'[q] = Here(q)'
<1>1. 0 \in Ranks
  BY FileAssumption DEF Ranks
<1> QED  BY <1>1 DEF Sight

LEMMA MovingShapes ==
  ASSUME Shapes, NEW r \in Ranks, Moving(r)
  PROVE  Shapes'
<1>1. ASSUME NEW q \in Ranks PROVE Good(todo[q])'
  <2>1. CASE q = r
    <3>1. Here(r).todo = todo[r] /\ Here(r)'.todo = todo'[r]
      BY DEF Here, View
    <3>2. Good(Moved(Here(r)).todo)
      BY <3>1, GoodMoved DEF Shapes, Programs
    <3> QED  BY <2>1, <3>1, <3>2 DEF Moving
  <2>2. CASE q # r
    BY <2>2 DEF Moving, Stays, Shapes, Programs
  <2> QED  BY <2>1, <2>2
<1>2. Programs'
  BY <1>1 DEF Programs
<1> QED  BY <1>2 DEF Shapes, Moving

LEMMA MovingKeeps ==
  ASSUME Shapes, NEW r \in Ranks, Moving(r), r = 0 => AtWork, NEW s, NEW a, Shared(s, a),
         NEW h, NEW D, NEW e, Matched(slots, inside, Sight(s, a), h, D, e)
  PROVE  \E s2 : \E a2 : Shared(s2, a2)' /\ Matched(slots, inside, Sight(s2, a2), h, D, e)'
<1>0. 0 \in Ranks
  BY FileAssumption DEF Ranks
<1>1. slots' = slots /\ inside' = inside
  BY DEF Moving
<1>2. CASE r # 0
  <2>1. Stays(0)
    BY <1>0, <1>2 DEF Moving
  <2>2. Shared(s, a)'
    BY <2>1 DEF Shared, Stays
  <2>3. /\ Moves(Sight(s, a)[r]) /\ Sight(s, a)'[r] = Moved(Sight(s, a)[r])
        /\ \A q \in Ranks : q # r => Sight(s, a)'[q] = Sight(s, a)[q]
    <3>1. Sight(s, a)[r] = Here(r) /\ Sight(s, a)'[r] = Here(r)'
      BY <1>2, SightFields
    <3>2. ASSUME NEW q \in Ranks, q # r PROVE Sight(s, a)'[q] = Sight(s, a)[q]
      <4>1. Here(q)' = Here(q) /\ View(q, s, a)' = View(q, s, a)
        BY <3>2, StayingHere DEF Moving
      <4> QED  BY <4>1, SightFields
    <3> QED  BY <3>1, <3>2 DEF Moving
  <2>4. PICK u : u = Sight(s, a)'
    OBVIOUS
  <2>5. Matched(slots, inside, u, h, D, e)
    BY <2>3, <2>4, MoveKeeps
  <2> QED  BY <1>1, <2>2, <2>4, <2>5
<1>3. CASE r = 0
  <2>1. s = stat[0] /\ a = answer[0]
    <3>1. AList(todo[0])
      BY <1>0 DEF Shapes, Programs, Good
    <3>2. ~Told(todo[0], 1, Statuses) /\ ~Told(todo[0], 1, Answers)
      BY <1>3, <3>1, ToldQuiet DEF AtWork
    <3> QED  BY <3>2 DEF Shared
  <2>2. PICK s2 : s2 = stat'[0]
    OBVIOUS
  <2>3. PICK a2 : a2 = answer'[0]
    OBVIOUS
  <2>4. Shared(s2, a2)'
    BY <2>2, <2>3 DEF Shared
  <2>5. /\ Moves(Sight(s, a)[0]) /\ Sight(s2, a2)'[0] = Moved(Sight(s, a)[0])
        /\ \A q \in Ranks : q # 0 => Sight(s2, a2)'[q] = Sight(s, a)[q]
    <3>1. Sight(s, a)[0] = Here(0)
      BY <2>1, SightFields DEF Here
    <3>2. Sight(s2, a2)'[0] = Here(0)'
      <4>1. View(0, s2, a2)' = Here(0)'
        BY <2>2, <2>3 DEF Here, View
      <4> QED  BY <4>1, SightFields
    <3>3. ASSUME NEW q \in Ranks, q # 0 PROVE Sight(s2, a2)'[q] = Sight(s, a)[q]
      <4>1. Here(q)' = Here(q)
        BY <1>3, <3>3, StayingHere DEF Moving
      <4> QED  BY <3>3, <4>1, SightFields
    <3> QED  BY <1>3, <3>1, <3>2, <3>3 DEF Moving
  <2>6. PICK u : u = Sight(s2, a2)'
    OBVIOUS
  <2>7. Matched(slots, inside, u, h, D, e)
    BY <1>0, <2>5, <2>6, MoveKeeps
  <2> QED  BY <1>1, <2>4, <2>6, <2>7
<1> QED  BY <1>2, <1>3

LEMMA CallingKeeps ==
  ASSUME Shapes, Calling, NEW s, NEW a, Shared(s, a),
         NEW h, NEW D, NEW e, Matched(slots, inside, Sight(s, a), h, D, e)
  PROVE  Shapes' /\ Shared(s, a)' /\ Matched(slots, inside, Sight(s, a), h, D, e)'
<1>0. 0 \in Ranks
  BY FileAssumption DEF Ranks
<1>1. Shared(s, a)'
  BY CallingShared DEF Shapes
<1>2. Shapes'
  <2>1. ASSUME NEW q \in Ranks PROVE Good(todo[q])'
    <3>1. CASE q = 0
      <4>1. Good(Tail(todo[0]))
        BY <1>0, GoodRest DEF Shapes, Programs, Calling, At
      <4> QED  BY <3>1, <4>1 DEF Calling
    <3>2. CASE q # 0
      BY <3>2 DEF Calling, Stays, Shapes, Programs
    <3> QED  BY <3>1, <3>2
  <2>2. Programs'
    BY <2>1 DEF Programs
  <2> QED  BY <2>2 DEF Shapes, Calling
<1>3. /\ Moves(Sight(s, a)[0]) /\ Sight(s, a)'[0] = Moved(Sight(s, a)[0])
      /\ \A q \in Ranks : q # 0 => Sight(s, a)'[q] = Sight(s, a)[q]
  <2>1. Moves(View(0, s, a)) /\ View(0, s, a)' = Moved(View(0, s, a))
    BY CallingMoves DEF Shapes
  <2>2. ASSUME NEW q \in Ranks, q # 0 PROVE Sight(s, a)'[q] = Sight(s, a)[q]
    <3>1. Here(q)' = Here(q)
      BY <2>2, StayingHere DEF Calling
    <3> QED  BY <2>2, <3>1, SightFields
  <2> QED  BY <2>1, <2>2, SightFields
<1>4. PICK u : u = Sight(s, a)'
  OBVIOUS
<1>5. Matched(slots, inside, u, h, D, e)
  BY <1>0, <1>3, <1>4, MoveKeeps
<1>6. slots' = slots /\ inside' = inside
  BY DEF Calling
<1> QED  BY <1>1, <1>2, <1>4, <1>5, <1>6


LEMMA SlotLeft ==
  ASSUME NEW x, IsSlot(x), NEW r
  PROVE  LET y == [x EXCEPT !.left = @ \union {r}]
         IN  /\ IsSlot(y) /\ y.calls = x.calls /\ y.entered = x.entered
             /\ y.left = x.left \union {r} /\ y.stat = x.stat /\ y.answer = x.answer
<1> DEFINE y == [x EXCEPT !.left = @ \union {r}]
<1>1. /\ y.calls = x.calls /\ y.entered = x.entered
      /\ y.left = x.left \union {r} /\ y.stat = x.stat /\ y.answer = x.answer
  BY DEF IsSlot
<1>2. IsSlot(y)
  BY DEF IsSlot
<1> QED  BY <1>1, <1>2

(* The n-th entry is replaced. *)
Replaced(p, n, v) == [p EXCEPT ![n] = v]

LEMMA ReplaceFacts ==
  ASSUME NEW p, AList(p), NEW n \in 1..Len(p), NEW v
  PROVE  /\ AList(Replaced(p, n, v)) /\ Len(Replaced(p, n, v)) = Len(p)
         /\ Replaced(p, n, v)[n] = v
         /\ \A m \in 1..Len(p) : m # n => Replaced(p, n, v)[m] = p[m]
<1>1. PICK S : p \in Seq(S)
  BY DEF AList
<1>2. p \in Seq(S \union {v}) /\ v \in S \union {v}
  BY <1>1
<1>3. [p EXCEPT ![n] = v] \in Seq(S \union {v}) /\ Len([p EXCEPT ![n] = v]) = Len(p)
  BY <1>2
<1>4. /\ [p EXCEPT ![n] = v][n] = v
      /\ \A m \in 1..Len(p) : m # n => [p EXCEPT ![n] = v][m] = p[m]
  BY <1>2
<1> QED  BY <1>3, <1>4 DEF AList, Replaced

LEMMA AppendFacts ==
  ASSUME NEW p, AList(p), NEW v
  PROVE  /\ AList(Append(p, v)) /\ Len(Append(p, v)) = Len(p) + 1
         /\ Append(p, v)[Len(p) + 1] = v
         /\ \A m \in 1..Len(p) : Append(p, v)[m] = p[m]
<1>1. PICK S : p \in Seq(S)
  BY DEF AList
<1>2. p \in Seq(S \union {v}) /\ v \in S \union {v}
  BY <1>1
<1>3. Append(p, v) \in Seq(S \union {v}) /\ Len(Append(p, v)) = Len(p) + 1
  BY <1>2
<1>4. /\ Append(p, v)[Len(p) + 1] = v
      /\ \A m \in 1..Len(p) : Append(p, v)[m] = p[m]
  BY <1>2
<1> QED  BY <1>3, <1>4 DEF AList

(* The operation that a processor enters is the one after those it has      *)
(* left.                                                                    *)
LEMMA NextOperation ==
  ASSUME NEW sl, NEW ins, NEW e, Segments(sl, ins, e), NEW r \in Ranks, ~ins[r],
         NEW fresh, r \notin fresh.entered
  PROVE  e[r] = CHOOSE n \in 1..Len(sl) + 1 :
                  /\ r \notin (IF n =< Len(sl) THEN sl[n] ELSE fresh).entered
                  /\ \A m \in 1..n - 1 : r \in sl[m].entered
<1> DEFINE slot(n) == IF n =< Len(sl) THEN sl[n] ELSE fresh
<1>1. Len(sl) \in Nat /\ e[r] \in 1..Len(sl) + 1
  BY ListFacts DEF Segments
<1>2. \A n \in 1..Len(sl) : r \in sl[n].entered <=> n < e[r]
  BY DEF Segments
<1>3. r \notin slot(e[r]).entered /\ \A m \in 1..e[r] - 1 : r \in sl[m].entered
  <2>1. CASE e[r] = Len(sl) + 1
    BY <2>1, <1>1, <1>2
  <2>2. CASE e[r] # Len(sl) + 1
    BY <2>2, <1>1, <1>2
  <2> QED  BY <2>1, <2>2
<1>4. ASSUME NEW n \in 1..Len(sl) + 1, r \notin slot(n).entered,
             \A m \in 1..n - 1 : r \in sl[m].entered
      PROVE  n = e[r]
  <2>1. CASE n < e[r]
    <3>1. n \in 1..Len(sl) /\ n =< Len(sl)
      BY <2>1, <1>1
    <3> QED  BY <3>1, <2>1, <1>2, <1>4
  <2>2. CASE e[r] < n
    <3>1. e[r] \in 1..n - 1 /\ e[r] \in 1..Len(sl) /\ ~(e[r] < e[r])
      BY <2>2, <1>1
    <3> QED  BY <3>1, <1>2, <1>4
  <2> QED  BY <2>1, <2>2, <1>1
<1> QED  BY <1>1, <1>3, <1>4

Fresh == [calls |-> {}, entered |-> {}, left |-> {}, stat |-> 0, answer |-> 0]

(* What a processor enters is joined by it, and nothing else changes.       *)
Joins(r, n, old, new) ==
  /\ slots' = IF n > Len(slots) THEN Append(slots, new) ELSE [slots EXCEPT ![n] = new]
  /\ IsSlot(new) /\ new.calls = old.calls \union {Signature(Head(todo[r]))}
  /\ new.entered = old.entered \union {r} /\ new.left = old.left
  /\ new.stat # old.stat => stat[r] # 0 /\ (r = 0 \/ Head(todo[r]) = Total)
  /\ new.answer # old.answer => r = 0

LEMMA Entering ==
  ASSUME Shapes, NEW r \in Ranks, Enter(r), NEW e, Segments(slots, inside, e),
         NEW n, n = e[r], NEW old, old = IF n =< Len(slots) THEN slots[n] ELSE Fresh
  PROVE  \E new : Joins(r, n, old, new)
<1> DEFINE stage == Head(todo[r])
           slot(m) == IF m =< Len(slots) THEN slots[m]
                      ELSE [calls |-> {}, entered |-> {}, left |-> {}, stat |-> 0, answer |-> 0]
           new == CHOOSE m \in 1..Len(slots) + 1 :
                    /\ r \notin slot(m).entered
                    /\ \A q \in 1..m - 1 : r \in slots[q].entered
           joined == [calls   |-> slot(new).calls \union {Signature(stage)},
                      entered |-> slot(new).entered \union {r},
                      left    |-> slot(new).left,
                      stat    |-> IF stat[r] # 0 /\ (r = 0 \/ stage = Total) THEN 1
                                  ELSE slot(new).stat,
                      answer  |-> IF r = 0 THEN answer[r] ELSE slot(new).answer]
<1>1. slots' = IF new > Len(slots) THEN Append(slots, joined)
               ELSE [slots EXCEPT ![new] = joined]
  BY DEF Enter
<1>2. ~inside[r]
  BY DEF Enter, At
<1>3. n = new
  <2>1. PICK fresh : fresh = [calls |-> {}, entered |-> {}, left |-> {}, stat |-> 0, answer |-> 0]
    OBVIOUS
  <2>2. r \notin fresh.entered
    BY <2>1
  <2>3. e[r] = CHOOSE m \in 1..Len(slots) + 1 :
                  /\ r \notin (IF m =< Len(slots) THEN slots[m] ELSE fresh).entered
                  /\ \A q \in 1..m - 1 : r \in slots[q].entered
    BY <1>2, <2>2, NextOperation
  <2> QED  BY <2>1, <2>3
<1>4. slot(new) = old
  BY <1>3 DEF Fresh
<1>5. PICK j : j = joined
  OBVIOUS
<1>6. /\ IsSlot(j) /\ j.calls = slot(new).calls \union {Signature(stage)}
      /\ j.entered = slot(new).entered \union {r} /\ j.left = slot(new).left
      /\ j.stat = IF stat[r] # 0 /\ (r = 0 \/ stage = Total) THEN 1 ELSE slot(new).stat
      /\ j.answer = IF r = 0 THEN answer[r] ELSE slot(new).answer
  <2> HIDE DEF slot, new
  <2>1. /\ j.calls = slot(new).calls \union {Signature(stage)}
        /\ j.entered = slot(new).entered \union {r} /\ j.left = slot(new).left
        /\ j.stat = IF stat[r] # 0 /\ (r = 0 \/ stage = Total) THEN 1 ELSE slot(new).stat
        /\ j.answer = IF r = 0 THEN answer[r] ELSE slot(new).answer
    BY <1>5
  <2>2. IsSlot(j)
    BY <1>5 DEF IsSlot
  <2> QED  BY <2>1, <2>2
<1> HIDE DEF slot, new, joined
<1>7. slots' = IF n > Len(slots) THEN Append(slots, j) ELSE [slots EXCEPT ![n] = j]
  BY <1>1, <1>3, <1>5
<1>8. Joins(r, n, old, j)
  BY <1>4, <1>6, <1>7 DEF Joins
<1> QED  BY <1>8

LEMMA EnterShapes ==
  ASSUME Shapes, NEW r \in Ranks, Enter(r), NEW e, Segments(slots, inside, e)
  PROVE  Shapes'
<1>1. Vectors' /\ Programs'
  BY DEF Enter, rankState, Shapes, Vectors, Programs
<1>2. PICK n : n = e[r]
  OBVIOUS
<1>3. AList(slots) /\ Len(slots) \in Nat /\ n \in 1..Len(slots) + 1
  BY <1>2, ListFacts DEF Segments
<1>4. PICK old : old = IF n =< Len(slots) THEN slots[n] ELSE Fresh
  OBVIOUS
<1>5. PICK new : Joins(r, n, old, new)
  BY <1>2, <1>4, Entering
<1>6. ASSUME NEW m \in 1..Len(slots') PROVE IsSlot(slots'[m])
  <2>1. CASE n > Len(slots)
    <3>1. slots' = Append(slots, new) /\ IsSlot(new)
      BY <1>5, <2>1 DEF Joins
    <3>2. m \in 1..Len(slots) \/ m = Len(slots) + 1
      BY <1>3, <3>1, AppendFacts
    <3> QED  BY <1>3, <3>1, <3>2, AppendFacts DEF Shapes
  <2>2. CASE ~(n > Len(slots))
    <3>1. slots' = Replaced(slots, n, new) /\ n \in 1..Len(slots) /\ IsSlot(new)
      BY <1>3, <1>5, <2>2 DEF Joins, Replaced
    <3>2. m \in 1..Len(slots)
      BY <1>3, <3>1, ReplaceFacts
    <3> QED  BY <1>3, <3>1, <3>2, ReplaceFacts DEF Shapes
  <2> QED  BY <2>1, <2>2
<1> QED  BY <1>1, <1>6 DEF Shapes

LEMMA EnterKeeps ==
  ASSUME Shapes, NEW r \in Ranks, Enter(r), Flushing(Here(r)) => stat[r] = 0,
         NEW s, NEW a, Shared(s, a),
         NEW h, NEW D, NEW e, Matched(slots, inside, Sight(s, a), h, D, e)
  PROVE  Shared(s, a)' /\ \E D2 : Matched(slots, inside, Sight(s, a), h, D2, e)'
<1>1. Shared(s, a)'
  BY DEF Enter, rankState, Shared
<1>2. Sight(s, a)' = Sight(s, a)
  BY DEF Enter, rankState, Sight, Here, View
<1>3. Segments(slots, inside, e)
  BY DEF Matched
<1>4. AList(slots) /\ Len(slots) \in Nat /\ e[r] \in 1..Len(slots) + 1
  BY <1>3, ListFacts DEF Segments
<1>5. ~inside[r] /\ inside'[r] /\ \A q \in Ranks : q # r => (inside'[q] <=> inside[q])
  BY DEF Shapes, Vectors, Enter, At
<1>6. PICK seen : seen = Sight(s, a)
  OBVIOUS
<1>7. seen[r].todo = todo[r] /\ seen[r].state = state[r]
  BY <1>6, SightFields, ViewFields DEF Here
<1>8. Waits(seen[r])
  <2>1. state[r] \in Working /\ todo[r] # <<>> /\ Head(todo[r])[1] \in {"all", "bcast"}
    BY DEF Enter, At, Working
  <2> QED  BY <2>1, <1>7 DEF Waits
<1>9. PICK n : n = e[r]
  OBVIOUS
<1>10. PICK old : old = IF n =< Len(slots) THEN slots[n] ELSE Fresh
  OBVIOUS
<1>11. PICK new : Joins(r, n, old, new)
  BY <1>3, <1>9, <1>10, Entering
<1>17. Flushing(seen[r]) => new.stat = old.stat
  <2>1. Flushing(seen[r]) <=> Flushing(Here(r))
    BY <1>7, ViewFields DEF Flushing, Here
  <2> QED  BY <2>1, <1>11 DEF Joins
<1>12. PICK sl2 : sl2 = slots'
  OBVIOUS
<1>13. PICK ins2 : ins2 = inside'
  OBVIOUS
<1>14. \E D2 : Matched(sl2, ins2, seen, h, D2, e)
  <2>1. CASE n = Len(slots) + 1
    <3>1. old = Fresh /\ sl2 = Append(slots, new)
      BY <2>1, <1>4, <1>10, <1>11, <1>12 DEF Joins
    <3>2. /\ new.calls = {Signature(Head(seen[r].todo))} /\ new.entered = {r}
          /\ new.left = {} /\ (Flushing(seen[r]) => new.stat = 0)
      BY <3>1, <1>7, <1>11, <1>17 DEF Fresh, Joins
    <3>3. \E D2 : Matched(Append(slots, new), ins2, seen, h, D2, e)
      BY <2>1, <3>2, <1>5, <1>6, <1>8, <1>9, <1>13, EnterNewKeeps
    <3> QED  BY <3>1, <3>3
  <2>2. CASE n # Len(slots) + 1
    <3>1. /\ n \in 1..Len(slots) /\ n =< Len(slots) /\ old = slots[n]
          /\ sl2 = Replaced(slots, n, new)
      BY <2>2, <1>4, <1>9, <1>10, <1>11, <1>12 DEF Joins, Replaced
    <3>2. /\ AList(sl2) /\ Len(sl2) = Len(slots) /\ sl2[n] = new
          /\ \A m \in 1..Len(slots) : m # n => sl2[m] = slots[m]
      BY <3>1, <1>4, ReplaceFacts
    <3>3. PICK x : x = Head(seen[r].todo)
      OBVIOUS
    <3>4. /\ sl2[n].calls = slots[n].calls \union {Signature(x)}
          /\ sl2[n].entered = slots[n].entered \union {r} /\ sl2[n].left = slots[n].left
          /\ sl2[n].stat # slots[n].stat => r = 0 \/ x = Total
          /\ Flushing(seen[r]) => sl2[n].stat = slots[n].stat
          /\ sl2[n].answer # slots[n].answer => r = 0
      BY <3>1, <3>2, <3>3, <1>7, <1>11, <1>17 DEF Joins
    <3>5. PICK sl, ins : sl = slots /\ ins = inside
      OBVIOUS
    <3>6. Matched(sl2, ins2, seen, h, D, e)
      <4>1. Matched(sl, ins, seen, h, D, e)
        BY <3>5, <1>6
      <4>2. ~ins[r] /\ ins2[r] /\ \A q \in Ranks : q # r => (ins2[q] <=> ins[q])
        BY <3>5, <1>5, <1>13
      <4>3. n = e[r] /\ n <= Len(sl) /\ Waits(seen[r]) /\ x = Head(seen[r].todo)
        BY <3>1, <3>3, <3>5, <1>8, <1>9
      <4>4. EnteredBy(sl, sl2, n, r, x, seen[r])
        BY <3>2, <3>4, <3>5 DEF EnteredBy
      <4> QED  BY <4>1, <4>2, <4>3, <4>4, EnterOldKeeps
    <3> QED  BY <3>6
  <2> QED  BY <2>1, <2>2
<1>15. PICK D2 : Matched(sl2, ins2, seen, h, D2, e)
  BY <1>14
<1>16. Matched(slots, inside, Sight(s, a), h, D2, e)'
  BY <1>2, <1>6, <1>12, <1>13, <1>15
<1> QED  BY <1>1, <1>16


(* A processor leaves the operation that it has entered.                    *)
LEMMA ThisOperation ==
  ASSUME NEW sl, NEW ins, NEW e, Segments(sl, ins, e), NEW r \in Ranks, ins[r],
         e[r] <= Len(sl)
  PROVE  e[r] = CHOOSE m \in 1..Len(sl) : r \in sl[m].entered \ sl[m].left
<1>1. Len(sl) \in Nat /\ e[r] \in 1..Len(sl)
  BY ListFacts DEF Segments
<1>2. \A m \in 1..Len(sl) : /\ r \in sl[m].entered <=> m < e[r] \/ m = e[r]
                            /\ r \in sl[m].left <=> m < e[r]
  BY DEF Segments
<1>3. r \in sl[e[r]].entered \ sl[e[r]].left
  BY <1>1, <1>2
<1>4. \A m \in 1..Len(sl) : r \in sl[m].entered \ sl[m].left => m = e[r]
  BY <1>2
<1> QED  BY <1>1, <1>3, <1>4

(* What r changes when it leaves operation n: t is the slots as they are    *)
(* before the first one is dropped.                                         *)
Leaves(r, n, t) ==
  /\ AList(t) /\ Len(t) = Len(slots) /\ \A m \in 1..Len(slots) : IsSlot(t[m])
  /\ \A m \in 1..Len(slots) : m # n => t[m] = slots[m]
  /\ t[n].calls = slots[n].calls /\ t[n].entered = slots[n].entered
  /\ t[n].stat = slots[n].stat /\ t[n].answer = slots[n].answer
  /\ t[n].left = slots[n].left \union {r}
  /\ slots' = IF Head(t).left = Ranks THEN Tail(t) ELSE t
  /\ ~inside'[r] /\ \A q \in Ranks : q # r => Stays(q) /\ (inside'[q] <=> inside[q])
  /\ Vectors' /\ Needed(r, Head(todo[r])) \subseteq slots[n].entered
  /\ todo'[r] = Tail(todo[r]) /\ state'[r] = state[r] /\ starts'[r] = starts[r]
  /\ define'[r] = define[r] /\ named'[r] = named[r] /\ delayed'[r] = delayed[r]
  /\ stat'[r] = IF Head(todo[r]) \in Statuses THEN slots[n].stat ELSE stat[r]
  /\ answer'[r] = IF Head(todo[r]) = Bcast("answer") THEN slots[n].answer ELSE answer[r]

LEMMA Leaving ==
  ASSUME Shapes, NEW r \in Ranks, Leave(r), todo[r] # <<>>, NEW e, Segments(slots, inside, e),
         NEW n, n = e[r], n <= Len(slots)
  PROVE  \E t : Leaves(r, n, t)
<1>1. AList(slots) /\ Len(slots) \in Nat /\ n \in 1..Len(slots)
  BY ListFacts DEF Segments
<1>2. inside[r]
  BY DEF Leave
<1>3. n = CHOOSE m \in 1..Len(slots) : r \in slots[m].entered \ slots[m].left
  BY <1>2, ThisOperation
<1>4. PICK x : x = [slots[n] EXCEPT !.left = @ \union {r}]
  OBVIOUS
<1>5. PICK t : t = [slots EXCEPT ![n] = x]
  OBVIOUS
<1>6. t = [slots EXCEPT ![n].left = @ \union {r}]
  BY <1>1, <1>4, <1>5
<1>7. /\ Needed(r, Head(todo[r])) \subseteq slots[n].entered
      /\ stat' = [stat EXCEPT ![r] = IF Head(todo[r]) \in {Share, Total} THEN slots[n].stat ELSE @]
      /\ answer' = [answer EXCEPT ![r] =
                      IF Head(todo[r]) = Bcast("answer") THEN slots[n].answer ELSE @]
      /\ slots' = IF Head(t).left = Ranks THEN Tail(t) ELSE t
  <2> DEFINE m == CHOOSE k \in 1..Len(slots) : r \in slots[k].entered \ slots[k].left
  <2>1. /\ Needed(r, Head(todo[r])) \subseteq slots[m].entered
        /\ stat' = [stat EXCEPT ![r] = IF Head(todo[r]) \in {Share, Total} THEN slots[m].stat ELSE @]
        /\ answer' = [answer EXCEPT ![r] =
                        IF Head(todo[r]) = Bcast("answer") THEN slots[m].answer ELSE @]
        /\ slots' = IF Head([slots EXCEPT ![m].left = @ \union {r}]).left = Ranks
                      THEN Tail([slots EXCEPT ![m].left = @ \union {r}])
                      ELSE [slots EXCEPT ![m].left = @ \union {r}]
    BY DEF Leave
  <2>2. m = n
    BY <1>3
  <2> HIDE DEF m
  <2> QED  BY <1>6, <2>1, <2>2
<1>8. /\ inside' = [inside EXCEPT ![r] = FALSE] /\ todo' = [todo EXCEPT ![r] = <<>> \o Tail(@)]
      /\ UNCHANGED <<state, starts, define, named, delayed>>
  BY DEF Leave, Continue
<1>9. /\ ~inside'[r] /\ \A q \in Ranks : q # r => Stays(q) /\ (inside'[q] <=> inside[q])
  BY <1>7, <1>8 DEF Stays, Shapes, Vectors
<1>10. Vectors'
  BY <1>7, <1>8 DEF Shapes, Vectors
<1>11. /\ todo'[r] = Tail(todo[r]) /\ state'[r] = state[r] /\ starts'[r] = starts[r]
       /\ define'[r] = define[r] /\ named'[r] = named[r] /\ delayed'[r] = delayed[r]
  <2>1. todo'[r] = <<>> \o Tail(todo[r])
    BY <1>8 DEF Shapes, Vectors
  <2> QED  BY <1>8, <2>1, NoMore DEF Shapes
<1>12. /\ stat'[r] = IF Head(todo[r]) \in Statuses THEN slots[n].stat ELSE stat[r]
       /\ answer'[r] = IF Head(todo[r]) = Bcast("answer") THEN slots[n].answer ELSE answer[r]
  BY <1>7 DEF Shapes, Vectors, Statuses
<1>13. /\ IsSlot(x) /\ x.calls = slots[n].calls /\ x.entered = slots[n].entered
       /\ x.left = slots[n].left \union {r} /\ x.stat = slots[n].stat
       /\ x.answer = slots[n].answer
  <2>1. IsSlot(slots[n])
    BY <1>1 DEF Shapes
  <2> QED  BY <1>4, <2>1, SlotLeft
<1>14. /\ AList(t) /\ Len(t) = Len(slots) /\ t[n] = x
       /\ \A m \in 1..Len(slots) : m # n => t[m] = slots[m]
  <2>1. t = Replaced(slots, n, x)
    BY <1>5 DEF Replaced
  <2> QED  BY <1>1, <2>1, ReplaceFacts
<1>15. \A m \in 1..Len(slots) : IsSlot(t[m])
  BY <1>13, <1>14 DEF Shapes
<1>16. Leaves(r, n, t)
  BY <1>7, <1>9, <1>10, <1>11, <1>12, <1>13, <1>14, <1>15 DEF Leaves
<1> QED  BY <1>16

LEMMA LeaveShapes ==
  ASSUME Shapes, NEW r \in Ranks, todo[r] # <<>>, NEW n, NEW t, Leaves(r, n, t),
         n \in 1..Len(slots), AList(slots)
  PROVE  Shapes'
<1>1. Programs'
  <2>1. ASSUME NEW q \in Ranks PROVE Good(todo[q])'
    <3>1. CASE q = r
      <4>1. Good(Tail(todo[r]))
        BY GoodRest DEF Shapes, Programs
      <4> QED  BY <3>1, <4>1 DEF Leaves
    <3>2. CASE q # r
      BY <3>2 DEF Leaves, Stays, Shapes, Programs
    <3> QED  BY <3>1, <3>2
  <2> QED  BY <2>1 DEF Programs
<1>2. \A m \in 1..Len(slots') : IsSlot(slots'[m])
  <2>1. AList(t) /\ Len(t) = Len(slots) /\ \A m \in 1..Len(t) : IsSlot(t[m])
    BY DEF Leaves
  <2>2. CASE slots' = t
    BY <2>1, <2>2
  <2>3. CASE slots' = Tail(t)
    <3>1. Len(slots) \in Nat /\ t # <<>>
      <4>1. Len(slots) \in Nat /\ Len(t) # 0
        BY <2>1, ListFacts
      <4> QED  BY <4>1
    <3>2. Len(slots') = Len(t) - 1 /\ \A m \in 1..Len(t) - 1 : slots'[m] = t[m + 1]
      BY <2>1, <2>3, <3>1, ListFacts
    <3> QED  BY <2>1, <3>1, <3>2
  <2> QED  BY <2>2, <2>3 DEF Leaves
<1> QED  BY <1>1, <1>2 DEF Leaves, Shapes

(* What the others may know is what processor 0 knows or will know, after   *)
(* the operation too.                                                       *)
LEMMA LeaveShared ==
  ASSUME Shapes, NEW n, NEW t, 0 \in Ranks, todo[0] # <<>>, Leaves(0, n, t),
         NEW s, NEW a, Shared(s, a),
         NEW s2, s2 = IF Head(todo[0]) \in Statuses THEN slots[n].stat ELSE s,
         NEW a2, a2 = IF Head(todo[0]) = Bcast("answer") THEN slots[n].answer ELSE a
  PROVE  Shared(s2, a2)' /\ View(0, s2, a2)' = After(slots[n], View(0, s, a))
<1>1. AList(todo[0])
  BY DEF Shapes, Programs, Good
<1>2. /\ todo'[0] = Tail(todo[0])
      /\ stat'[0] = IF Head(todo[0]) \in Statuses THEN slots[n].stat ELSE stat[0]
      /\ answer'[0] = IF Head(todo[0]) = Bcast("answer") THEN slots[n].answer ELSE answer[0]
  BY DEF Leaves
<1>3. s2 = stat'[0] \/ Told(todo'[0], 1, Statuses)
  <2>1. CASE Head(todo[0]) \in Statuses
    BY <1>2, <2>1
  <2>2. CASE Head(todo[0]) \notin Statuses
    BY <1>1, <1>2, <2>2, StillToBeTold DEF Shared
  <2> QED  BY <2>1, <2>2
<1>4. a2 = answer'[0] \/ Told(todo'[0], 1, Answers)
  <2>1. CASE Head(todo[0]) = Bcast("answer")
    BY <1>2, <2>1
  <2>2. CASE Head(todo[0]) # Bcast("answer")
    <3>1. Head(todo[0]) \notin Answers
      BY <2>2 DEF Answers
    <3> QED  BY <1>1, <1>2, <2>2, <3>1, StillToBeTold DEF Shared
  <2> QED  BY <2>1, <2>2
<1>5. View(0, s2, a2)' = After(slots[n], View(0, s, a))
  <2>1. View(0, s2, a2)' =
          [todo |-> todo'[0], state |-> state'[0], stat |-> s2, answer |-> a2,
           starts |-> starts'[0], define |-> define'[0], named |-> named'[0],
           delayed |-> delayed'[0]]
    BY DEF View
  <2>2. PICK c : c = View(0, s, a)
    OBVIOUS
  <2>3. /\ c.todo = todo[0] /\ c.state = state[0] /\ c.stat = s /\ c.answer = a
        /\ c.starts = starts[0] /\ c.define = define[0] /\ c.named = named[0]
        /\ c.delayed = delayed[0]
    BY <2>2, ViewFields
  <2>4. After(slots[n], c) =
          [todo |-> todo'[0], state |-> state'[0], stat |-> s2, answer |-> a2,
           starts |-> starts'[0], define |-> define'[0], named |-> named'[0],
           delayed |-> delayed'[0]]
    BY <2>3 DEF After, Leaves
  <2> QED  BY <2>1, <2>2, <2>4
<1> QED  BY <1>3, <1>4, <1>5 DEF Shared

LEMMA LeaveHere ==
  ASSUME NEW r \in Ranks, NEW n, NEW t, Leaves(r, n, t)
  PROVE  Here(r)' = After(slots[n], Here(r))
<1>1. Here(r)' =
        [todo |-> todo'[r], state |-> state'[r], stat |-> stat'[r], answer |-> answer'[r],
         starts |-> starts'[r], define |-> define'[r], named |-> named'[r],
         delayed |-> delayed'[r]]
  BY DEF Here, View
<1>2. PICK c : c = Here(r)
  OBVIOUS
<1>3. /\ c.todo = todo[r] /\ c.state = state[r] /\ c.stat = stat[r] /\ c.answer = answer[r]
      /\ c.starts = starts[r] /\ c.define = define[r] /\ c.named = named[r]
      /\ c.delayed = delayed[r]
  BY <1>2, ViewFields DEF Here
<1>4. After(slots[n], c) =
        [todo |-> todo'[r], state |-> state'[r], stat |-> stat'[r], answer |-> answer'[r],
         starts |-> starts'[r], define |-> define'[r], named |-> named'[r],
         delayed |-> delayed'[r]]
  BY <1>3 DEF After, Leaves
<1> QED  BY <1>1, <1>2, <1>4


LEMMA LeaveStepKeeps ==
  ASSUME Shapes, NEW r \in Ranks, Leave(r), NEW s, NEW a, Shared(s, a),
         NEW h, NEW D, NEW e, Matched(slots, inside, Sight(s, a), h, D, e)
  PROVE  /\ Shapes'
         /\ \E s2, a2, h2, D2, e2 :
              Shared(s2, a2)' /\ Matched(slots, inside, Sight(s2, a2), h2, D2, e2)'
<1>0. 0 \in Ranks
  BY FileAssumption DEF Ranks
<1>1. Segments(slots, inside, e) /\ AList(slots) /\ Len(slots) \in Nat
  BY ListFacts DEF Matched, Segments
<1>2. PICK seen : seen = Sight(s, a)
  OBVIOUS
<1>3. PICK n : n = e[r]
  OBVIOUS
<1>4. inside[r]
  BY DEF Leave
<1>5. n \in 1..Len(slots) /\ n <= Len(slots) /\ seen[r] = D[n]
  BY <1>1, <1>2, <1>3, <1>4 DEF Matched, Trails, Segments
<1>6. seen[r].todo = todo[r] /\ todo[r] # <<>>
  <2>1. Waits(D[n])
    BY <1>5 DEF Matched, Meetings
  <2>2. seen[r].todo = todo[r]
    BY <1>2, SightFields, ViewFields DEF Here
  <2> QED  BY <1>5, <2>1, <2>2 DEF Waits
<1>7. PICK t : Leaves(r, n, t)
  BY <1>1, <1>3, <1>5, <1>6, Leaving
<1>8. Shapes'
  BY <1>1, <1>5, <1>6, <1>7, LeaveShapes
<1>9. \E s2, a2 : /\ Shared(s2, a2)' /\ Sight(s2, a2)'[r] = After(slots[n], seen[r])
                  /\ \A q \in Ranks : q # r => Sight(s2, a2)'[q] = seen[q]
  <2>1. CASE r # 0
    <3>1. Stays(0)
      BY <1>0, <1>7, <2>1 DEF Leaves
    <3>2. Shared(s, a)'
      BY <3>1 DEF Shared, Stays
    <3>3. Sight(s, a)'[r] = After(slots[n], seen[r])
      <4>1. Here(r)' = After(slots[n], Here(r))
        BY <1>7, LeaveHere
      <4> QED  BY <1>2, <2>1, <4>1, SightFields
    <3>4. ASSUME NEW q \in Ranks, q # r PROVE Sight(s, a)'[q] = seen[q]
      <4>1. Here(q)' = Here(q) /\ View(q, s, a)' = View(q, s, a)
        BY <1>7, <3>4, StayingHere DEF Leaves
      <4> QED  BY <1>2, <4>1, SightFields
    <3> QED  BY <3>2, <3>3, <3>4
  <2>2. CASE r = 0
    <3>1. PICK s2 : s2 = IF Head(todo[0]) \in Statuses THEN slots[n].stat ELSE s
      OBVIOUS
    <3>2. PICK a2 : a2 = IF Head(todo[0]) = Bcast("answer") THEN slots[n].answer ELSE a
      OBVIOUS
    <3>3. Shared(s2, a2)' /\ View(0, s2, a2)' = After(slots[n], View(0, s, a))
      BY <1>0, <1>6, <1>7, <2>2, <3>1, <3>2, LeaveShared
    <3>4. Sight(s2, a2)'[0] = After(slots[n], seen[0])
      BY <1>2, <3>3, SightFields
    <3>5. ASSUME NEW q \in Ranks, q # 0 PROVE Sight(s2, a2)'[q] = seen[q]
      <4>1. Here(q)' = Here(q)
        BY <1>7, <2>2, <3>5, StayingHere DEF Leaves
      <4> QED  BY <1>2, <3>5, <4>1, SightFields
    <3> QED  BY <2>2, <3>3, <3>4, <3>5
  <2> QED  BY <2>1, <2>2
<1>10. PICK s2, a2 : /\ Shared(s2, a2)' /\ Sight(s2, a2)'[r] = After(slots[n], seen[r])
                     /\ \A q \in Ranks : q # r => Sight(s2, a2)'[q] = seen[q]
  BY <1>9
<1>11. PICK seen2 : seen2 = Sight(s2, a2)'
  OBVIOUS
<1>12. PICK sl, ins, ins2 : sl = slots /\ ins = inside /\ ins2 = inside'
  OBVIOUS
<1>13. \E h2, e2 : Matched(t, ins2, seen2, h2, D, e2)
  <2>1. Matched(sl, ins, seen, h, D, e)
    BY <1>2, <1>12
  <2>2. ins[r] /\ ~ins2[r] /\ \A q \in Ranks : q # r => (ins2[q] <=> ins[q])
    BY <1>4, <1>7, <1>12 DEF Leaves
  <2>3. Needed(r, Head(seen[r].todo)) \subseteq sl[n].entered /\ LeftBy(sl, t, n, r)
    BY <1>6, <1>7, <1>12 DEF Leaves, LeftBy
  <2>4. seen2[r] = After(sl[n], seen[r]) /\ \A q \in Ranks : q # r => seen2[q] = seen[q]
    BY <1>10, <1>11, <1>12
  <2> QED  BY <1>3, <2>1, <2>2, <2>3, <2>4, LeaveKeeps
<1>14. PICK h2, e2 : Matched(t, ins2, seen2, h2, D, e2)
  BY <1>13
<1>15. CASE Head(t).left # Ranks
  <2>1. slots' = t
    BY <1>7, <1>15 DEF Leaves
  <2>2. Matched(slots, inside, Sight(s2, a2), h2, D, e2)'
    BY <1>11, <1>12, <1>14, <2>1
  <2> QED  BY <1>8, <1>10, <2>2
<1>16. CASE Head(t).left = Ranks
  <2>1. slots' = Tail(t) /\ t # <<>>
    <3>1. AList(t) /\ Len(t) = Len(slots) /\ slots' = Tail(t)
      BY <1>7, <1>16 DEF Leaves
    <3>2. Len(t) # 0
      BY <1>5, <3>1
    <3> QED  BY <3>1, <3>2
  <2>2. PICK h3, D3, e3 : Matched(Tail(t), ins2, seen2, h3, D3, e3)
    BY <1>14, <1>16, <2>1, DropKeeps
  <2>3. Matched(slots, inside, Sight(s2, a2), h3, D3, e3)'
    BY <1>11, <1>12, <2>1, <2>2
  <2> QED  BY <1>8, <1>10, <2>3
<1> QED  BY <1>15, <1>16

-----------------------------------------------------------------------------
(* The invariant holds at the start, when nothing has been entered.         *)
LEMMA FilesInitInv ==
  ASSUME FilesInit
  PROVE  FilesInv
<1>0. 0 \in Ranks
  BY FileAssumption DEF Ranks
<1>1. PICK names \in Sessions :
        todo = [r \in Ranks |-> [i \in 1..Len(names) |-> <<"session", names[i]>>]]
  BY DEF FilesInit
<1>2. names \in Seq(SessionNames) /\ Len(names) \in Nat
        /\ \A i \in 1..Len(names) : names[i] \in SessionNames
  BY FileAssumption
<1>3. PICK p : p = [i \in 1..Len(names) |-> <<"session", names[i]>>]
  OBVIOUS
<1>4. Good(p)
  <2>1. AList(p)
    <3>1. PICK S : S = {<<"session", names[i]>> : i \in 1..Len(names)}
      OBVIOUS
    <3>2. p \in Seq(S)
      BY <1>2, <1>3, <3>1
    <3> QED  BY <3>2 DEF AList
  <2>2. ASSUME NEW i \in DOMAIN p
        PROVE  p[i][1] = "session" /\ p[i][2] \in SessionNames
    BY <1>2, <1>3, <2>2
  <2>3. ASSUME NEW i \in DOMAIN p PROVE p[i][1] # "call" /\ ~Asks(p[i]) /\ Known(p[i])
    BY <2>2, <2>3 DEF Asks, Known
  <2> QED  BY <2>1, <2>3 DEF Good, Settled
<1>5. Shapes
  <2>1. Vectors
    BY <1>1 DEF FilesInit, Vectors
  <2>2. Programs
    BY <1>1, <1>3, <1>4 DEF Programs
  <2>3. Len(slots) = 0
    BY DEF FilesInit
  <2> QED  BY <2>1, <2>2, <2>3 DEF Shapes
<1>6. PICK s, a : s = stat[0] /\ a = answer[0]
  OBVIOUS
<1>7. Shared(s, a)
  BY <1>6 DEF Shared
<1>8. PICK c : c = Here(0)
  OBVIOUS
<1>9. \A r \in Ranks : Sight(s, a)[r] = c
  <2>1. ASSUME NEW r \in Ranks PROVE Here(r) = Here(0)
    <3>1. /\ todo[r] = todo[0] /\ state[r] = state[0] /\ stat[r] = stat[0]
          /\ answer[r] = answer[0] /\ starts[r] = starts[0] /\ define[r] = define[0]
          /\ named[r] = named[0] /\ delayed[r] = delayed[0]
      BY <1>0, <1>1 DEF FilesInit
    <3> QED  BY <3>1 DEF Here, View
  <2>2. View(0, s, a) = Here(0)
    BY <1>6 DEF Here
  <2> QED  BY <1>8, <2>1, <2>2, SightFields
<1>10. \E h, D, e : Matched(slots, inside, Sight(s, a), h, D, e)
  <2>1. PICK h : h = [m \in 1..1 |-> c]
    OBVIOUS
  <2>2. PICK e : e = [r \in Ranks |-> 1]
    OBVIOUS
  <2>3. slots = <<>> /\ Len(slots) = 0 /\ AList(slots) /\ \A r \in Ranks : ~inside[r]
    BY EmptyIsGood DEF FilesInit, Good
  <2>4. Segments(slots, inside, e)
    BY <2>2, <2>3 DEF Segments
  <2>5. Trails(slots, inside, Sight(s, a), h, h, e)
    <3>1. ASSUME NEW r \in Ranks PROVE h[e[r]] = Sight(s, a)[r]
      BY <1>9, <2>1, <2>2
    <3> QED  BY <2>3, <3>1, LeadsHere DEF Trails
  <2>6. Meetings(slots, h, h) /\ Departures(slots, h, h, e)
    BY <2>3 DEF Meetings, Departures
  <2>7. Resigned(slots, h, e)
    BY <2>1, <2>3 DEF Resigned
  <2>8. Unharmed(slots, h)
    BY <2>3 DEF Unharmed
  <2>9. Matched(slots, inside, Sight(s, a), h, h, e)
    BY <2>4, <2>5, <2>6, <2>7, <2>8 DEF Matched
  <2> QED  BY <2>9
<1> QED  BY <1>5, <1>7, <1>10 DEF FilesInv


(* A throw on processor 0 alone is the last step.                           *)
LEMMA NobodyAfter ==
  ASSUME FilesNext
  PROVE  ~alone
<1>1. CASE RootStep
  BY <1>1 DEF RootStep, LibraryCall, CheckedCall, LookUp, Receive, Reply, At
<1>2. ASSUME NEW r \in Ranks, RankStep(r) PROVE ~alone
  <2>1. CASE CheckEverywhere(r) \/ Enter(r) \/ Leave(r) \/ Finish(r)
    BY <2>1 DEF CheckEverywhere, Enter, Leave, Finish, At
  <2>2. CASE Remember(r) \/ ChangeMode(r) \/ Branch(r) \/ Compute(r) \/ Delay(r) \/ Execute(r)
    BY <2>2 DEF Remember, ChangeMode, Branch, Compute, Delay, Execute, At
  <2>3. CASE \/ Transfer(r) \/ Skip(r) \/ Send(r) \/ Await(r) \/ Count(r)
             \/ StartSession(r)
    BY <2>3 DEF Transfer, Skip, Send, Await, Count, StartSession, At
  <2> QED  BY <1>2, <2>1, <2>2, <2>3 DEF RankStep
<1> QED  BY <1>1, <1>2 DEF FilesNext

-----------------------------------------------------------------------------
(* The file of the library is open as long as processor 0 has it to close.  *)
Kept ==
  /\ "open" \in DOMAIN dataset
  /\ dataset.open => \/ state[0] = "unwinding"
                     \/ state[0] = "running" /\ Later(todo[0], 0, Closes)

FilesKept == ~alone => Kept /\ \A r \in Ranks : Tidy(Here(r))

LEMMA TidyHere ==
  ASSUME NEW r \in Ranks, Tidy(Here(r))
  PROVE  Flushing(Here(r)) => stat[r] = 0
BY ViewFields DEF Tidy, Flushing, Here

LEMMA MovingTidy ==
  ASSUME Shapes, NEW r \in Ranks, Moving(r), \A q \in Ranks : Tidy(Here(q))
  PROVE  \A q \in Ranks : Tidy(Here(q))'
<1> SUFFICES ASSUME NEW q \in Ranks PROVE Tidy(Here(q))'
  OBVIOUS
<1>1. PICK c, d : c = Here(q) /\ d = Here(q)'
  OBVIOUS
<1>2. Tidy(c)
  BY <1>1
<1>3. CASE q = r
  <2>1. Good(c.todo)
    BY <1>1, ViewFields DEF Here, Shapes, Programs
  <2>2. Moves(c) /\ d = Moved(c)
    BY <1>1, <1>3 DEF Moving
  <2>3. Tidy(d)
    BY <1>2, <2>1, <2>2, TidyMoved
  <2> QED  BY <1>1, <2>3 DEF Tidy
<1>4. CASE q # r
  <2>1. c = d
    BY <1>1, <1>4, StayingHere DEF Moving
  <2> QED  BY <1>1, <1>2, <2>1 DEF Tidy
<1> QED  BY <1>3, <1>4

(* What a processor does to the file outside of calls of the library: the   *)
(* destructors on processor 0 close it.                                     *)
LEMMA OwnData ==
  ASSUME Vectors, NEW r \in Ranks, OwnStep(r)
  PROVE  \/ r = 0 /\ dataset' = [dataset EXCEPT !.open = FALSE]
         \/ /\ dataset' = dataset
            /\ r = 0 => \/ state' = state
                        \/ state'[0] = "unwinding"
                        \/ todo[0] = <<>> /\ state[0] = "running"
<1>1. CASE CheckEverywhere(r)
  <2>1. CASE stat[r] # 0
    <3>1. Throw(r)
      BY <1>1, <2>1 DEF CheckEverywhere
    <3>2. CASE state[r] = "running" /\ named[r]
      <4>1. dataset' = dataset /\ state' = [state EXCEPT ![r] = "unwinding"]
        BY <3>1, <3>2 DEF Throw
      <4>2. r \in DOMAIN state
        BY DEF Vectors
      <4>3. r = 0 => state'[0] = "unwinding"
        BY <4>1, <4>2
      <4> QED  BY <4>1, <4>3
    <3>3. CASE ~(state[r] = "running" /\ named[r])
      <4>1. dataset' = Destroyed(r)
        BY <3>1, <3>3 DEF Throw
      <4>2. CASE r = 0
        BY <4>1, <4>2 DEF Destroyed
      <4>3. CASE r # 0
        BY <4>1, <4>3 DEF Destroyed
      <4> QED  BY <4>2, <4>3
    <3> QED  BY <3>2, <3>3
  <2>2. CASE stat[r] = 0
    BY <1>1, <2>2 DEF CheckEverywhere
  <2> QED  BY <2>1, <2>2
<1>2. CASE Finish(r)
  <2>1. CASE state[r] = "unwinding"
    <3>1. dataset' = Destroyed(r)
      BY <1>2, <2>1 DEF Finish
    <3> QED  BY <3>1 DEF Destroyed
  <2>2. CASE state[r] # "unwinding"
    <3>1. dataset' = dataset /\ todo[r] = <<>> /\ state[r] = "running"
      BY <1>2, <2>2 DEF Finish
    <3> QED  BY <3>1
  <2> QED  BY <2>1, <2>2
<1>3. CASE ~CheckEverywhere(r) /\ ~Finish(r)
  <2>1. CASE Remember(r) \/ ChangeMode(r) \/ Branch(r)
    BY <2>1 DEF Remember, ChangeMode, Branch, rankState, library
  <2>2. CASE Compute(r) \/ Delay(r) \/ Execute(r) \/ Transfer(r)
    BY <2>2 DEF Compute, Delay, Execute, Transfer, rankState, library
  <2>3. CASE Skip(r) \/ Send(r) \/ Await(r) \/ Count(r) \/ StartSession(r)
    BY <2>3 DEF Skip, Send, Await, Count, StartSession, rankState, library
  <2> QED  BY <1>3, <2>1, <2>2, <2>3 DEF OwnStep
<1> QED  BY <1>1, <1>2, <1>3

(* Processor 0 makes a step by itself.                                      *)
LEMMA MovingKept0 ==
  ASSUME Shapes, Kept, Moving(0), AtWork, dataset' = dataset, state'[0] = state[0]
  PROVE  Kept'
<1>0. 0 \in Ranks
  BY FileAssumption DEF Ranks
<1> SUFFICES ASSUME dataset.open, state[0] = "running", Later(todo[0], 0, Closes)
             PROVE  Later(todo'[0], 0, Closes)
  BY DEF Kept
<1>1. PICK c, d : c = Here(0) /\ d = Here(0)'
  OBVIOUS
<1>2. c.todo = todo[0] /\ c.state = state[0] /\ d.todo = todo'[0] /\ d.state = state'[0]
  <2>1. c.todo = todo[0] /\ c.state = state[0]
    BY <1>1, ViewFields DEF Here
  <2>2. d.todo = todo'[0] /\ d.state = state'[0]
    BY <1>1 DEF Here, View
  <2> QED  BY <2>1, <2>2
<1>3. d = Moved(c)
  BY <1>1 DEF Moving
<1>4. Good(c.todo) /\ c.todo # <<>>
  <2>1. Good(c.todo)
    BY <1>0, <1>2 DEF Shapes, Programs
  <2>2. c.todo # <<>>
    BY <1>2 DEF Later
  <2> QED  BY <2>1, <2>2
<1>5. ~(Head(c.todo)[1] = "verify" /\ c.stat # 0)
  <2> SUFFICES ASSUME Head(c.todo)[1] = "verify" /\ c.stat # 0 PROVE FALSE
    OBVIOUS
  <2>1. d = Thrown(c)
    BY <1>3, <1>4 DEF Moved
  <2>2. d.state \in {"unwinding", "failed"}
    BY <2>1 DEF Thrown
  <2> QED  BY <1>2, <2>2
<1>6. d.todo = More(c) \o Tail(c.todo)
  <2>1. d = Advanced(c)
    BY <1>3, <1>4, <1>5 DEF Moved
  <2> QED  BY <2>1, AdvancedFields
<1>7. AList(c.todo) /\ AList(More(c)) /\ AList(Tail(c.todo))
  BY <1>4, GoodMore, GoodRest DEF Good
<1>8. Head(c.todo) \notin Closes
  BY <1>2, <1>4 DEF AtWork, Quiet, Closes, Call
<1>9. Later(Tail(c.todo), 0, Closes)
  BY <1>2, <1>4, <1>7, <1>8, LaterAtAll
<1> QED  BY <1>2, <1>6, <1>7, <1>9, LaterHere

LEMMA OwnStepKept ==
  ASSUME Shapes, Kept, NEW r \in Ranks, OwnStep(r) \/ (r = 0 /\ (Receive \/ Reply)),
         Moving(r), r = 0 => AtWork
  PROVE  Kept'
<1>0. 0 \in Ranks
  BY FileAssumption DEF Ranks
<1>1. CASE r # 0
  <2>1. todo'[0] = todo[0] /\ state'[0] = state[0]
    BY <1>0, <1>1 DEF Moving, Stays
  <2>2. dataset' = dataset
    BY <1>1, OwnData DEF Shapes
  <2> QED  BY <2>1, <2>2 DEF Kept
<1>2. CASE r = 0 /\ (Receive \/ Reply)
  <2>1. dataset' = dataset /\ state' = state
    BY <1>2 DEF Receive, Reply, rankState, library
  <2> QED  BY <1>2, <2>1, MovingKept0
<1>3. CASE r = 0 /\ OwnStep(0)
  <2>1. CASE dataset' = [dataset EXCEPT !.open = FALSE]
    <3>1. "open" \in DOMAIN dataset' /\ ~dataset'.open
      BY <2>1 DEF Kept
    <3> QED  BY <3>1 DEF Kept
  <2>2. CASE dataset' = dataset /\ state' = state
    BY <1>3, <2>2, MovingKept0
  <2>3. CASE dataset' = dataset /\ state'[0] = "unwinding"
    BY <2>3 DEF Kept
  <2>4. CASE dataset' = dataset /\ todo[0] = <<>> /\ state[0] = "running"
    <3>1. ~Later(todo[0], 0, Closes)
      BY <2>4 DEF Later
    <3>2. ~dataset.open
      BY <2>4, <3>1 DEF Kept
    <3> QED  BY <2>4, <3>2 DEF Kept
  <2> QED  BY <1>0, <1>3, <2>1, <2>2, <2>3, <2>4, OwnData DEF Shapes
<1> QED  BY <1>1, <1>2, <1>3

(* What the calls do to the file of the library. *)
LEMMA EffectFacts ==
  ASSUME "open" \in DOMAIN dataset, NEW c
  PROVE  /\ "open" \in DOMAIN Effect(c)
         /\ c[2] = "close" => ~Effect(c).open
         /\ c[2] \notin {"open", "create"} /\ Effect(c).open => dataset.open
<1>1. CASE c[2] = "open"
  BY <1>1 DEF Effect
<1>2. CASE c[2] = "create"
  BY <1>2 DEF Effect
<1>3. CASE c[2] = "close"
  BY <1>3 DEF Effect
<1>4. CASE c[2] = "redef"
  BY <1>4 DEF Effect
<1>5. CASE c[2] = "enddef"
  BY <1>5 DEF Effect
<1>6. CASE c[2] = "def"
  BY <1>6 DEF Effect
<1>7. CASE c[2] = "put"
  <2>1. CASE c[3] # "x"
    <3>1. PICK n : n = IF c[4] + 1 > dataset.len THEN c[4] + 1 ELSE dataset.len
      OBVIOUS
    <3>2. Effect(c) = [dataset EXCEPT !.len = n]
      BY <1>7, <2>1, <3>1 DEF Effect
    <3> QED  BY <1>7, <3>2
  <2>2. CASE c[3] = "x"
    BY <1>7, <2>2 DEF Effect
  <2> QED  BY <2>1, <2>2
<1>8. CASE c[2] \notin {"open", "create", "close", "redef", "enddef", "def", "put"}
  BY <1>8 DEF Effect
<1> QED  BY <1>1, <1>2, <1>3, <1>4, <1>5, <1>6, <1>7, <1>8

LEMMA CallingKept ==
  ASSUME Shapes, Kept, Tidy(Here(0)), LibraryCall \/ CheckedCall \/ LookUp, ~alone', Calling
  PROVE  Kept'
<1>0. 0 \in Ranks
  BY FileAssumption DEF Ranks
<1>1. PICK c : c = Head(todo[0])
  OBVIOUS
<1>2. /\ todo[0] # <<>> /\ state[0] \in Working /\ c[1] \in {"call", "checked", "ask"}
      /\ todo'[0] = Tail(todo[0]) /\ state'[0] = state[0] /\ AList(todo[0])
  BY <1>0, <1>1 DEF Calling, At, Working, Shapes, Programs, Good
<1>3. \/ dataset' = Effect(c) /\ (LibraryCall \/ CheckedCall)
      \/ dataset' = dataset /\ (c[1] = "ask" \/ c[2] # "close")
  <2>1. CASE LibraryCall
    <3>1. Succeeds(c) \/ Fails(c)
      BY <1>1, <2>1 DEF LibraryCall
    <3> QED  BY <2>1, <3>1 DEF Succeeds, Fails
  <2>2. CASE CheckedCall
    <3>1. Succeeds(c)
      BY <1>1, <2>2 DEF CheckedCall
    <3> QED  BY <2>2, <3>1 DEF Succeeds
  <2>3. CASE LookUp
    BY <1>1, <2>3 DEF LookUp, At, library
  <2> QED  BY <2>1, <2>2, <2>3
<1>4. c[1] = "ask" \/ c[2] # "close" => c \notin Closes
  BY DEF Closes, Call
<1>5. dataset.open /\ state[0] = "running" /\ c \notin Closes => Later(Tail(todo[0]), 0, Closes)
  BY <1>1, <1>2, LaterAtAll DEF Kept
<1>6. CASE dataset' = dataset /\ (c[1] = "ask" \/ c[2] # "close")
  BY <1>2, <1>4, <1>5, <1>6 DEF Kept, Working
<1>7. CASE dataset' = Effect(c) /\ (LibraryCall \/ CheckedCall)
  <2>1. /\ "open" \in DOMAIN dataset'
        /\ c[2] = "close" => ~dataset'.open
        /\ c[2] \notin {"open", "create"} /\ dataset'.open => dataset.open
    BY <1>7, EffectFacts DEF Kept
  <2>2. CASE c[2] \in {"open", "create"} /\ state[0] = "running"
    <3>1. c[1] \in {"call", "checked"}
      BY <1>1, <1>7 DEF LibraryCall, CheckedCall, At
    <3>2. Sound(todo[0], named[0])
      BY <2>2, ViewFields DEF Tidy, Here
    <3>3. Later(Tail(todo[0]), 0, Closes)
      BY <1>1, <1>2, <2>2, <3>1, <3>2, SoundHead DEF Opening
    <3> QED  BY <1>2, <2>1, <2>2, <3>3 DEF Kept
  <2>3. CASE state[0] = "unwinding"
    BY <1>2, <2>1, <2>3 DEF Kept
  <2>4. CASE c[2] \notin {"open", "create"} /\ state[0] = "running"
    BY <1>2, <1>4, <1>5, <2>1, <2>4 DEF Kept
  <2> QED  BY <1>2, <2>2, <2>3, <2>4 DEF Working
<1> QED  BY <1>3, <1>6, <1>7

LEMMA CallingTidy ==
  ASSUME Shapes, Calling, \A q \in Ranks : Tidy(Here(q))
  PROVE  \A q \in Ranks : Tidy(Here(q))'
<1>0. 0 \in Ranks
  BY FileAssumption DEF Ranks
<1> SUFFICES ASSUME NEW q \in Ranks PROVE Tidy(Here(q))'
  OBVIOUS
<1>1. PICK c, d : c = Here(q) /\ d = Here(q)'
  OBVIOUS
<1>2. Tidy(c)
  BY <1>1
<1>3. CASE q # 0
  <2>1. c = d
    BY <1>1, <1>3, StayingHere DEF Calling
  <2> QED  BY <1>1, <1>2, <2>1 DEF Tidy
<1>4. CASE q = 0
  <2>1. /\ c.todo = todo[0] /\ c.state = state[0] /\ c.stat = stat[0]
        /\ c.named = named[0] /\ c.delayed = delayed[0]
    BY <1>1, <1>4, ViewFields DEF Here
  <2>2. /\ d.todo = todo'[0] /\ d.state = state'[0] /\ d.stat = stat'[0]
        /\ d.named = named'[0] /\ d.delayed = delayed'[0]
    BY <1>1, <1>4 DEF Here, View
  <2>3. Good(c.todo) /\ c.todo # <<>> /\ c.state \in Working /\ Quiet(Head(c.todo))
    <3>1. todo[0] # <<>> /\ state[0] \in Working /\ Quiet(Head(todo[0]))
      BY DEF Calling, At, Working, Quiet
    <3> QED  BY <1>0, <2>1, <3>1 DEF Shapes, Programs
  <2>4. /\ d.todo = Tail(c.todo) /\ d.state = c.state /\ d.named = c.named
        /\ d.delayed = c.delayed /\ (d.stat = c.stat \/ Head(c.todo)[1] = "call")
    BY <2>1, <2>2 DEF Calling
  <2>5. ASSUME c.state = "unwinding", Later(Tail(c.todo), 0, Flushes) PROVE d.stat = 0
    <3>1. AList(c.todo)
      BY <2>3 DEF Good
    <3>2. Head(c.todo)[1] # "call"
      BY <1>2, <2>3, <2>5, <3>1, EndingRest DEF Tidy
    <3>3. Later(c.todo, 0, Flushes)
      BY <2>3, <2>5, <3>1, LaterAtAll
    <3> QED  BY <1>2, <2>4, <2>5, <3>2, <3>3 DEF Tidy
  <2>6. Tidy(d)
    BY <1>2, <2>3, <2>4, <2>5, TidyRest
  <2> QED  BY <1>1, <2>6 DEF Tidy
<1> QED  BY <1>3, <1>4

LEMMA LeaveKept ==
  ASSUME Shapes, NEW r \in Ranks, Leave(r), NEW s, NEW a,
         NEW h, NEW D, NEW e, Matched(slots, inside, Sight(s, a), h, D, e),
         Kept, \A q \in Ranks : Tidy(Here(q))
  PROVE  Kept' /\ \A q \in Ranks : Tidy(Here(q))'
<1>0. 0 \in Ranks
  BY FileAssumption DEF Ranks
<1>1. Segments(slots, inside, e) /\ AList(slots) /\ Len(slots) \in Nat
  BY ListFacts DEF Matched, Segments
<1>2. PICK seen : seen = Sight(s, a)
  OBVIOUS
<1>3. PICK n : n = e[r]
  OBVIOUS
<1>4. inside[r]
  BY DEF Leave
<1>5. n \in 1..Len(slots) /\ n <= Len(slots) /\ seen[r] = D[n]
  BY <1>1, <1>2, <1>3, <1>4 DEF Matched, Trails, Segments
<1>6. seen[r].todo = todo[r] /\ seen[r].state = state[r]
  BY <1>2, SightFields, ViewFields DEF Here
<1>7. todo[r] # <<>> /\ state[r] \in Working /\ Head(todo[r])[1] \in {"all", "bcast"}
  <2>1. Waits(D[n])
    BY <1>5 DEF Matched, Meetings
  <2> QED  BY <1>5, <1>6, <2>1 DEF Waits
<1>8. PICK t : Leaves(r, n, t)
  BY <1>1, <1>3, <1>5, <1>7, Leaving
<1>9. Flushing(seen[r]) => slots[n].stat = 0
  BY <1>5 DEF Matched, Unharmed
<1>10. ASSUME NEW q \in Ranks PROVE Tidy(Here(q))'
  <2>1. PICK c, d : c = Here(q) /\ d = Here(q)'
    OBVIOUS
  <2>2. Tidy(c)
    BY <2>1
  <2>3. CASE q # r
    <3>1. c = d
      BY <1>8, <2>1, <2>3, StayingHere DEF Leaves
    <3> QED  BY <2>1, <2>2, <3>1 DEF Tidy
  <2>4. CASE q = r
    <3>1. c.todo = todo[r] /\ c.state = state[r]
      BY <2>1, <2>4, ViewFields DEF Here
    <3>2. Good(c.todo) /\ c.todo # <<>> /\ c.state \in Working /\ Quiet(Head(c.todo))
      BY <1>7, <3>1 DEF Shapes, Programs, Quiet
    <3>3. d = After(slots[n], c)
      BY <1>8, <2>1, <2>4, LeaveHere
    <3>4. /\ d.todo = Tail(c.todo) /\ d.state = c.state /\ d.named = c.named
          /\ d.delayed = c.delayed /\ (d.stat = c.stat \/ d.stat = slots[n].stat)
      BY <3>3 DEF After
    <3>5. ASSUME c.state = "unwinding", Later(Tail(c.todo), 0, Flushes) PROVE d.stat = 0
      <4>1. Later(c.todo, 0, Flushes)
        BY <3>2, <3>5, LaterAtAll DEF Good
      <4>2. Flushing(seen[r])
        BY <1>6, <3>1, <3>5, <4>1 DEF Flushing
      <4> QED  BY <1>9, <2>2, <3>4, <3>5, <4>1, <4>2 DEF Tidy
    <3>6. Tidy(d)
      BY <2>2, <3>2, <3>4, <3>5, TidyRest
    <3> QED  BY <2>1, <3>6 DEF Tidy
  <2> QED  BY <2>3, <2>4
<1>11. Kept'
  <2>1. dataset' = dataset /\ state' = state
    BY DEF Leave, library
  <2>2. CASE r # 0
    <3>1. todo'[0] = todo[0]
      BY <1>0, <1>8, <2>2 DEF Leaves, Stays
    <3> QED  BY <2>1, <3>1 DEF Kept
  <2>3. CASE r = 0
    <3>1. todo'[0] = Tail(todo[0])
      BY <1>8, <2>3 DEF Leaves
    <3>2. Head(todo[0]) \notin Closes
      BY <1>7, <2>3 DEF Closes, Call
    <3>3. AList(todo[0])
      BY <1>0 DEF Shapes, Programs, Good
    <3>4. Later(todo[0], 0, Closes) => Later(Tail(todo[0]), 0, Closes)
      BY <1>7, <2>3, <3>2, <3>3, LaterAtAll
    <3> QED  BY <2>1, <3>1, <3>4 DEF Kept
  <2> QED  BY <2>2, <2>3
<1> QED  BY <1>10, <1>11

LEMMA KeptInit ==
  ASSUME FilesInit
  PROVE  FilesKept
<1>1. PICK names \in Sessions :
        todo = [r \in Ranks |-> [i \in 1..Len(names) |-> <<"session", names[i]>>]]
  BY DEF FilesInit
<1>2. ASSUME NEW r \in Ranks PROVE Tidy(Here(r))
  <2>1. PICK c : c = Here(r)
    OBVIOUS
  <2>2. c.todo = todo[r] /\ c.state = state[r] /\ c.named = named[r] /\ c.delayed = delayed[r]
    BY <2>1, ViewFields DEF Here
  <2>3. c.state = "running" /\ c.delayed = <<>>
    BY <2>2 DEF FilesInit
  <2>4. Resting(todo[r])
    BY <1>1 DEF Resting
  <2>5. Sound(c.todo, c.named)
    BY <2>2, <2>4, RestingFacts
  <2> QED  BY <2>1, <2>3, <2>5 DEF Tidy
<1>3. Kept
  BY DEF FilesInit, Kept
<1> QED  BY <1>2, <1>3 DEF FilesKept

LEMMA KeptStep ==
  ASSUME FilesInv, FilesKept, FilesNext, ~alone'
  PROVE  FilesKept'
<1>0. 0 \in Ranks
  BY FileAssumption DEF Ranks
<1>1. ~alone /\ Shapes /\ Kept /\ \A q \in Ranks : Tidy(Here(q))
  BY NobodyAfter DEF FilesInv, FilesKept
<1>2. CASE LibraryCall \/ CheckedCall \/ LookUp
  <2>1. Calling
    BY <1>1, <1>2, CallIsCalling, CheckedIsCalling, LookUpIsCalling DEF Shapes
  <2>2. Kept'
    BY <1>0, <1>1, <1>2, <2>1, CallingKept
  <2>3. \A q \in Ranks : Tidy(Here(q))'
    BY <1>1, <2>1, CallingTidy
  <2> QED  BY <2>2, <2>3 DEF FilesKept
<1>3. ASSUME NEW r \in Ranks, OwnStep(r) \/ (r = 0 /\ (Receive \/ Reply))
      PROVE  FilesKept'
  <2>1. Moving(r)
    BY <1>1, <1>3, OwnStepMoves, ReceiveMoves, ReplyMoves DEF Shapes
  <2>2. r = 0 => AtWork
    BY <1>3, OwnStepAtWork
  <2>3. Kept'
    BY <1>1, <1>3, <2>1, <2>2, OwnStepKept
  <2>4. \A q \in Ranks : Tidy(Here(q))'
    BY <1>1, <2>1, MovingTidy
  <2> QED  BY <2>3, <2>4 DEF FilesKept
<1>4. ASSUME NEW r \in Ranks, Enter(r) PROVE FilesKept'
  <2>1. Kept' = Kept /\ \A q \in Ranks : Here(q)' = Here(q)
    BY <1>4 DEF Enter, rankState, library, Kept, Here, View
  <2>2. ASSUME NEW q \in Ranks PROVE Tidy(Here(q))'
    <3>1. PICK c, d : c = Here(q) /\ d = Here(q)'
      OBVIOUS
    <3>2. Tidy(d)
      BY <1>1, <2>1, <3>1
    <3> QED  BY <3>1, <3>2 DEF Tidy
  <2> QED  BY <1>1, <2>1, <2>2 DEF FilesKept
<1>5. ASSUME NEW r \in Ranks, Leave(r) PROVE FilesKept'
  <2>1. PICK s, a, h, D, e : Matched(slots, inside, Sight(s, a), h, D, e)
    BY <1>1 DEF FilesInv
  <2>2. Kept' /\ \A q \in Ranks : Tidy(Here(q))'
    BY <1>1, <1>5, <2>1, LeaveKept
  <2> QED  BY <2>2 DEF FilesKept
<1>6. ASSUME NEW r \in Ranks, RankStep(r) PROVE FilesKept'
  BY <1>3, <1>4, <1>5, <1>6 DEF RankStep, OwnStep
<1> QED  BY <1>0, <1>2, <1>3, <1>6 DEF FilesNext, RootStep

LEMMA FilesStep ==
  ASSUME FilesInv, FilesKept, FilesNext, ~alone'
  PROVE  FilesInv'
<1>0. 0 \in Ranks
  BY FileAssumption DEF Ranks
<1>1. Shapes /\ \E s, a, h, D, e :
                  Shared(s, a) /\ Matched(slots, inside, Sight(s, a), h, D, e)
  BY NobodyAfter DEF FilesInv
<1>2. PICK s, a, h, D, e : Shared(s, a) /\ Matched(slots, inside, Sight(s, a), h, D, e)
  BY <1>1
<1>3. CASE LibraryCall \/ CheckedCall \/ LookUp
  <2>1. Calling
    BY <1>1, <1>3, CallIsCalling, CheckedIsCalling, LookUpIsCalling DEF Shapes
  <2>2. Shapes' /\ Shared(s, a)' /\ Matched(slots, inside, Sight(s, a), h, D, e)'
    BY <1>1, <1>2, <2>1, CallingKeeps
  <2> QED  BY <2>2 DEF FilesInv
<1>4. ASSUME NEW r \in Ranks, Moving(r), r = 0 => AtWork
      PROVE  FilesInv'
  <2>1. Shapes'
    BY <1>1, <1>4, MovingShapes
  <2>2. \E s2 : \E a2 : Shared(s2, a2)' /\ Matched(slots, inside, Sight(s2, a2), h, D, e)'
    BY <1>1, <1>2, <1>4, MovingKeeps
  <2> QED  BY <2>1, <2>2 DEF FilesInv
<1>5. CASE Receive \/ Reply
  BY <1>0, <1>1, <1>4, <1>5, ReceiveMoves, ReplyMoves, OwnStepAtWork DEF Shapes
<1>6. ASSUME NEW r \in Ranks, RankStep(r) PROVE FilesInv'
  <2>1. CASE OwnStep(r)
    BY <1>1, <1>4, <2>1, OwnStepMoves, OwnStepAtWork DEF Shapes
  <2>2. CASE Enter(r)
    <3>1. Shapes'
      BY <1>1, <1>2, <2>2, EnterShapes DEF Matched
    <3>2. Flushing(Here(r)) => stat[r] = 0
      BY <1>6, NobodyAfter, TidyHere DEF FilesKept
    <3>3. Shared(s, a)' /\ \E D2 : Matched(slots, inside, Sight(s, a), h, D2, e)'
      BY <1>1, <1>2, <2>2, <3>2, EnterKeeps
    <3> QED  BY <3>1, <3>3 DEF FilesInv
  <2>3. CASE Leave(r)
    <3>1. /\ Shapes'
          /\ \E s2, a2, h2, D2, e2 :
               Shared(s2, a2)' /\ Matched(slots, inside, Sight(s2, a2), h2, D2, e2)'
      BY <1>1, <1>2, <2>3, LeaveStepKeeps
    <3> QED  BY <3>1 DEF FilesInv
  <2> QED  BY <1>6, <2>1, <2>2, <2>3 DEF RankStep, OwnStep
<1> QED  BY <1>3, <1>5, <1>6 DEF FilesNext, RootStep

(* Wherever they are, processors have gone through the same operations, and *)
(* have ahead of them what closes the file.                                 *)
THEOREM OperationsFollow == FilesSpec => [](FilesInv /\ FilesKept)
<1>1. FilesInit => FilesInv /\ FilesKept
  BY FilesInitInv, KeptInit
<1>2. FilesInv /\ FilesKept /\ [FilesNext]_filesVars => FilesInv' /\ FilesKept'
  <2>1. CASE UNCHANGED filesVars
    <3>1. Shapes' = Shapes
      BY <2>1 DEF filesVars, Shapes, Vectors, Programs
    <3>2. \A s, a : Shared(s, a)' = Shared(s, a) /\ Sight(s, a)' = Sight(s, a)
      BY <2>1 DEF filesVars, Shared, Sight, Here, View
    <3>3. FilesInv' = FilesInv
      BY <2>1, <3>1, <3>2 DEF filesVars, FilesInv
    <3>4. \A r \in Ranks : Here(r)' = Here(r)
      BY <2>1 DEF filesVars, Here, View
    <3>5. FilesKept' = FilesKept
      BY <2>1, <3>4 DEF filesVars, FilesKept, Kept, Tidy
    <3> QED  BY <3>3, <3>5
  <2>2. CASE FilesNext
    BY <2>2, FilesStep, KeptStep DEF FilesInv, FilesKept
  <2> QED  BY <2>1, <2>2
<1> QED  BY <1>1, <1>2, PTL DEF FilesSpec

(* NC3File, io_helpers: whatever is written or read, in whatever order, and *)
(* whatever fails, as long as no error is thrown on processor 0 alone the   *)
(* n-th collective operation of one processor is the n-th of every other.   *)
THEOREM CollectivesMatch == FilesSpec => []InStep
<1>1. FilesInv => InStep
  <2> SUFFICES ASSUME FilesInv, ~alone, NEW n \in 1..Len(slots)
               PROVE  \E c \in slots[n].calls : slots[n].calls = {c}
    BY DEF InStep
  <2>1. PICK s, a, h, D, e : Matched(slots, inside, Sight(s, a), h, D, e)
    BY DEF FilesInv
  <2>2. slots[n].calls = {Signature(Head(D[n].todo))}
    BY <2>1 DEF Matched, Meetings
  <2> QED  BY <2>2
<1> QED  BY <1>1, OperationsFollow, PTL

(* NCFile::check(), PIO::~PIO(): an error that all the processors are told  *)
(* of stops all of them.                                                    *)
THEOREM NobodyGoesOn == FilesSpec => []OutcomeAgreed
<1>1. FilesInv => OutcomeAgreed
  <2> SUFFICES ASSUME FilesInv, ~alone, NEW r \in Ranks, NEW q \in Ranks,
                      state[r] \in {"unwinding", "failed"}
               PROVE  state[q] # "done"
    BY DEF OutcomeAgreed
  <2>1. PICK s, a, h, D, e : Matched(slots, inside, Sight(s, a), h, D, e)
    BY DEF FilesInv
  <2>2. ASSUME NEW p \in Ranks PROVE Sight(s, a)[p].state = state[p]
    BY SightFields, ViewFields DEF Here
  <2>3. GivenUp(Sight(s, a)[r])
    BY <2>2 DEF GivenUp
  <2> QED  BY <2>1, <2>2, <2>3, AgreeToTheEnd
<1> QED  BY <1>1, OperationsFollow, PTL

(* PIO::~PIO(), ~NC3File(), execute_ops(): when all functions that use      *)
(* files have been left, by the end or by an exception, no file is open and *)
(* no write is delayed.                                                     *)
THEOREM NothingStaysOpen == FilesSpec => []FilesClosed
<1>1. FilesKept => FilesClosed
  <2> SUFFICES ASSUME FilesKept, Ended, ~alone
               PROVE  ~dataset.open /\ \A r \in Ranks : delayed[r] = <<>>
    BY DEF FilesClosed
  <2>1. 0 \in Ranks
    BY FileAssumption DEF Ranks
  <2>2. ~dataset.open
    BY <2>1 DEF FilesKept, Kept, Ended
  <2>3. ASSUME NEW r \in Ranks PROVE delayed[r] = <<>>
    <3>1. PICK c : c = Here(r)
      OBVIOUS
    <3>2. c.state = state[r] /\ c.delayed = delayed[r]
      BY <3>1, ViewFields DEF Here
    <3> QED  BY <3>1, <3>2 DEF FilesKept, Ended, Tidy
  <2> QED  BY <2>2, <2>3
<1> QED  BY <1>1, OperationsFollow, PTL

=============================================================================
