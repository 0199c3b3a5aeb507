--------------------------- MODULE ForcingBuffer ----------------------------
(***************************************************************************)
(* IceModelVec2T: a field of time-dependent forcing of which a window of at *)
(* most NRecords records is kept in memory.  Before every step of the model *)
(* the component that owns it calls update(t, dt), then reads the field at  *)
(* times in the step through interpolation indices.  A record is            *)
(* represented by its number in the file.                                   *)
(***************************************************************************)
EXTENDS Integers, Sequences

CONSTANTS Setups,      \* files of data and the options they are read with:
                       \* bounds: time_bounds, the ends of the intervals of the
                       \* records; nRecords: climate_forcing_buffer_size;
                       \* period (0: not periodic) and its reference time
          Start, End,  \* of the run; they bound the clock
          Tol          \* 1 second

ASSUME ForcingAssumption ==
  /\ \A s \in Setups :
       LET size == Len(s.bounds) \div 2
       IN  /\ s.bounds \in Seq(Int) /\ size \in Nat \ {0} /\ Len(s.bounds) = 2 * size
           /\ \A k \in 1..size : s.bounds[2 * k - 1] < s.bounds[2 * k]
           /\ \A k \in 1..size : \A j \in 1..k - 1 : s.bounds[2 * j] =< s.bounds[2 * k - 1]
           /\ s.nRecords \in Nat \ {0}
           /\ s.period \in Nat /\ s.reference \in Int
           /\ s.period > 0 => s.nRecords >= size      \* else init() throws
  /\ Start \in Nat /\ End \in Nat /\ Start =< End /\ Tol \in Nat

VARIABLES setup,   \* the file and options of this run
          first,   \* number of the first record in memory; -1: none
          N,       \* number of records in memory
          window,  \* the records, by position in the buffer
          t, dt,   \* the interval of the last update()
          phase    \* "ready" or "failed"

vars == <<setup, first, N, window, t, dt, phase>>

TimeBounds == setup.bounds
NRecords   == setup.nRecords
Period     == setup.period
Reference  == setup.reference

(* The number of records in the file, time.size().                          *)
Size == Len(TimeBounds) \div 2

Min2(a, b) == IF a =< b THEN a ELSE b

(* The ends of record k in time.                                            *)
Lower(k) == TimeBounds[2 * k + 1]
Upper(k) == TimeBounds[2 * k + 2]

-----------------------------------------------------------------------------
(* The record in which update() looks for time x, from the position of the  *)
(* first bound that is not before x: the last record that begins before x.  *)
(* A time at the common end of two records belongs to the first of them,    *)
(* and a time in a gap, or the beginning of a record after one, to the      *)
(* record before the gap.                                                   *)
RecordAt(x) ==
  LET begun == {k \in 0..Size - 1 : Lower(k) < x}
  IN  IF begun = {} THEN 0
      ELSE CHOOSE k \in begun : \A j \in begun : j =< k

(* All the data are in memory.                                              *)
Covers(x, length) ==
  /\ N > 0
  /\ x >= Lower(first)
  /\ x + length =< Upper(first + N - 1)

(* update(t, dt) refuses the step.                                          *)
TooBig(x, length) ==
  /\ ~Covers(x, length)
  /\ RecordAt(x + length) - RecordAt(x) + 1 > NRecords

ShiftedByOne(start, kept, missing) ==    \* mutant: discard() drops one record
  [p \in 0..NRecords - 1 |->
     IF p < kept THEN window[Min2(p + 1, NRecords - 1)]
     ELSE IF p < kept + missing THEN start + p
     ELSE window[p]]

(* discard() followed by set_record(): the window after update(start).      *)
Shifted(start, kept, missing) ==
  [p \in 0..NRecords - 1 |->
     IF p < kept THEN window[p + start - first]
     ELSE IF p < kept + missing THEN start + p
     ELSE window[p]]

(* How many records of the window stay when it starts at record start.      *)
Kept(start) ==
  IF first >= 0 /\ N > 0 /\ first =< start /\ start =< first + N - 1
  THEN first + N - start ELSE 0

(* update(start): keep the records that are in memory already and read as   *)
(* many of the missing ones as fit.                                         *)
Load(start) ==
  LET kept    == Kept(start)
      missing == Min2(NRecords, Size - start) - kept
  IN  IF start = first THEN UNCHANGED <<first, N, window>>
      ELSE /\ first' = start
           /\ N' = kept + missing
           /\ window' = Shifted(start, kept, missing)

(* max_timestep(): up to the next bound, or over the whole next record when *)
(* the bound is closer than a second; 0: no limit.                          *)
LimitFirstBound(x) ==                    \* mutant: the short rest is added
  LET later == {p \in 1..Len(TimeBounds) : TimeBounds[p] > x}
      l     == CHOOSE p \in later : \A q \in later : p =< q
  IN  IF later = {} THEN 0
      ELSE IF TimeBounds[l] - x > Tol THEN TimeBounds[l] - x
      ELSE IF l + 2 =< Len(TimeBounds) THEN TimeBounds[l + 2] + Tol - x
      ELSE 0

Limit(x) ==
  LET later == {p \in 1..Len(TimeBounds) : TimeBounds[p] > x}
      l     == CHOOSE p \in later : \A q \in later : p =< q
  IN  IF later = {} THEN 0
      ELSE IF TimeBounds[l] - x > Tol THEN TimeBounds[l] - x
      ELSE IF l + 2 =< Len(TimeBounds) THEN TimeBounds[l + 2] - TimeBounds[l]
      ELSE 0

(* init_interpolation(): the position in the window of the record for time  *)
(* x, when the times in asked come before it in the series (since the times *)
(* last decreased).  Each search begins where the one before ended, so a    *)
(* time in a gap, which no record has, leaves position N for itself and for *)
(* the times after it.                                                      *)
Periodic(x) == IF Period = 0 THEN x ELSE (x - Reference) % Period

Within(k, y) == Lower(k) =< y /\ y < Upper(k)

Holding(y) == {p \in 0..N - 1 : Within(first + p, y)}

Missed(y) == Lower(first) =< y /\ y < Upper(first + N - 1) /\ Holding(y) = {}

Index(asked, x) ==
  LET y == Periodic(x)
  IN  IF y < Lower(first) THEN 0
      ELSE IF y >= Upper(first + N - 1) THEN N - 1
      ELSE IF \E z \in asked \union {x} : Missed(Periodic(z)) THEN N
      ELSE CHOOSE p \in Holding(y) : \A q \in Holding(y) : p =< q

-----------------------------------------------------------------------------
(* init(): periodic data are read at once.                                  *)
Init ==
  /\ setup \in Setups
  /\ IF Period > 0
     THEN /\ first = 0 /\ N = Size
          /\ window = [p \in 0..NRecords - 1 |-> IF p < Size THEN p ELSE -1]
     ELSE /\ first = -1 /\ N = 0
          /\ window = [p \in 0..NRecords - 1 |-> -1]
  /\ t = Start
  /\ dt = 0
  /\ phase = "ready"

StepFrom(x, length) ==
  /\ phase = "ready"
  /\ length > 0
  /\ x + length =< End

(* update(t, dt) at the beginning of the next step of the model.            *)
Update(length) ==
  /\ StepFrom(t + dt, length)
  /\ Period = 0 => ~TooBig(t + dt, length)
  /\ t' = t + dt
  /\ dt' = length
  /\ IF Period > 0 \/ Covers(t', length) THEN UNCHANGED <<first, N, window>>
                                         ELSE Load(RecordAt(t'))
  /\ UNCHANGED <<setup, phase>>

(* "timestep is too big"                                                    *)
UpdateFails(length) ==
  /\ StepFrom(t + dt, length)
  /\ Period = 0 /\ TooBig(t + dt, length)
  /\ phase' = "failed"
  /\ UNCHANGED <<setup, first, N, window, t, dt>>

Next == \E length \in 1..End - Start : Update(length) \/ UpdateFails(length)

Spec == Init /\ [][Next]_vars

-----------------------------------------------------------------------------
TypeOK ==
  /\ setup \in Setups
  /\ first \in -1..Size - 1
  /\ N \in 0..Min2(NRecords, Size)
  /\ window \in [0..NRecords - 1 -> -1..Size - 1]
  /\ t \in Start..End /\ t + dt \in Start..End
  /\ phase \in {"ready", "failed"}

(* The buffer holds consecutive records of the file in order, however the   *)
(* window was moved: shifting, discarding and reading agree.                *)
WindowContents ==
  \A p \in 0..N - 1 : window[p] = first + p

(* IceModelVec2T::update(): the window holds what it claims and is within   *)
(* the buffer and the file.                                                 *)
BufferConsistent == TypeOK /\ WindowContents

(* The time of the file that stands for time x of the model.                *)
FileTime(x) ==
  IF Period = 0 THEN x
  ELSE CHOOSE y \in 0..Period - 1 :
         \E turns \in -(End + Size)..End + Size : x = Reference + turns * Period + y

(* Between two records of the file, there are no data.                     *)
InGap(x) ==
  /\ Lower(0) =< FileTime(x) /\ FileTime(x) < Upper(Size - 1)
  /\ \A k \in 0..Size - 1 : ~Within(k, FileTime(x))

(* Every time of the step for which the file has data is read from the      *)
(* record that contains it, whatever time was asked for before, if there    *)
(* were data for that one, too.                                             *)
RightRecord ==
  \A x \in t..t + dt - 1 : \A y \in t..x : \A k \in 0..Size - 1 :
     Within(k, FileTime(x)) /\ ~InGap(y) =>
        Index({y}, x) < N /\ window[Index({y}, x)] = k

(* Whatever has been read so far, the next update() does not refuse a step  *)
(* that max_timestep() allows.  (Not all owners of a buffer ask it.)        *)
StepFits ==
  phase = "ready" =>
    \A length \in 1..End - (t + dt) :
       TooBig(t + dt, length) =>
          Limit(t + dt) > 0 /\ length > Limit(t + dt)

(* Outside the data the nearest record is used.                             *)
NearestRecord ==
  \A x \in t..t + dt - 1 : Period = 0 =>
     /\ x < Lower(0) => Index({}, x) < N /\ window[Index({}, x)] = 0
     /\ x >= Upper(Size - 1) => Index({}, x) < N /\ window[Index({}, x)] = Size - 1

(* init_interpolation(): a step that max_timestep() allows is not refused,  *)
(* and at every time of a step the record used is the one that contains the *)
(* time or, before and after the data, the nearest one.                     *)
StepServed == StepFits /\ RightRecord /\ NearestRecord
=============================================================================
