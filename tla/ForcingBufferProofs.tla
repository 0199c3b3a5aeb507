------------------------- MODULE ForcingBufferProofs -------------------------
(***************************************************************************)
(* For every file of forcing data, size of the buffer and sequence of       *)
(* steps: the window holds consecutive records of the file, and in files    *)
(* that are not periodic a time of a step is read from its own record.      *)
(***************************************************************************)
EXTENDS ForcingBuffer, WellFoundedInduction, TLAPS

LEMMA MinNat ==
  ASSUME NEW S \in SUBSET Nat, S # {}
  PROVE  \E m \in S : \A k \in S : m =< k
<1> DEFINE R == OpToRel(<, Nat)
<1>1. \A x, y \in Nat : x < y => <<x, y>> \in R
  BY DEF OpToRel
<1>2. IsWellFoundedOn(R, Nat)
  BY NatLessThanWellFounded
<1> HIDE DEF R
<1>3. PICK m \in S : \A y \in S : ~(<<y, m>> \in R)
  BY <1>2, WFMin
<1>4. SUFFICES ASSUME NEW k \in S PROVE m =< k
  OBVIOUS
<1>5. k \in Nat /\ m \in Nat
  OBVIOUS
<1>6. ~(k < m)
  BY <1>1, <1>3, <1>5
<1> QED
  BY <1>5, <1>6

LEMMA MaxNat ==
  ASSUME NEW n \in Nat, NEW S \in SUBSET (0..n - 1), S # {}
  PROVE  \E m \in S : \A k \in S : k =< m
<1> DEFINE T == {i \in 0..n : n - i \in S}
<1>1. T \in SUBSET Nat
  OBVIOUS
<1>2. T # {}
  <2>1. PICK k \in S : TRUE
    OBVIOUS
  <2>2. n - k \in 0..n /\ n - (n - k) = k
    BY <2>1
  <2> QED
    BY <2>1, <2>2
<1>3. PICK i \in T : \A j \in T : i =< j
  <2> HIDE DEF T
  <2> QED
    BY <1>1, <1>2, MinNat
<1>4. n - i \in S
  BY <1>3
<1>5. ASSUME NEW k \in S PROVE k =< n - i
  <2>1. n - k \in 0..n /\ n - (n - k) = k /\ k \in Nat
    OBVIOUS
  <2>2. n - k \in T
    BY <2>1
  <2>3. i =< n - k /\ i \in Nat
    BY <1>1, <1>3, <2>2
  <2> QED
    BY <2>1, <2>3
<1> QED
  BY <1>4, <1>5

-----------------------------------------------------------------------------
(* Records are intervals in increasing order that do not overlap.           *)
Records ==
  /\ Size \in Nat \ {0} /\ NRecords \in Nat \ {0}
  /\ \A k \in 0..Size - 1 : Lower(k) \in Int /\ Upper(k) \in Int /\ Lower(k) < Upper(k)
  /\ \A k \in 0..Size - 1 : \A j \in 0..k - 1 :
       Upper(j) =< Lower(k) /\ Lower(j) < Lower(k) /\ Upper(j) < Upper(k)

LEMMA RecordsInOrder ==
  ASSUME setup \in Setups
  PROVE  Records /\ Period \in Nat /\ (Period > 0 => NRecords >= Size)
<1> DEFINE B == setup.bounds
<1>1. /\ B \in Seq(Int) /\ Size \in Nat \ {0} /\ Len(B) = 2 * Size
      /\ \A k \in 1..Size : B[2 * k - 1] < B[2 * k]
      /\ \A k \in 1..Size : \A j \in 1..k - 1 : B[2 * j] =< B[2 * k - 1]
      /\ NRecords \in Nat \ {0} /\ Period \in Nat
      /\ Period > 0 => NRecords >= Size
  BY ForcingAssumption DEF Size, TimeBounds, NRecords, Period
<1>2. \A i \in 1..2 * Size : B[i] \in Int
  BY <1>1
<1>3. \A k \in 0..Size - 1 : Lower(k) = B[2 * (k + 1) - 1] /\ Upper(k) = B[2 * (k + 1)]
  BY <1>1 DEF Lower, Upper, TimeBounds
<1> HIDE DEF B
<1>4. ASSUME NEW k \in 0..Size - 1
      PROVE  Lower(k) \in Int /\ Upper(k) \in Int /\ Lower(k) < Upper(k)
  <2>1. k + 1 \in 1..Size /\ 2 * (k + 1) - 1 \in 1..2 * Size /\ 2 * (k + 1) \in 1..2 * Size
    BY <1>1
  <2> QED
    BY <1>1, <1>2, <1>3, <2>1
<1>5. ASSUME NEW k \in 0..Size - 1, NEW j \in 0..k - 1
      PROVE  Upper(j) =< Lower(k)
  <2>1. k + 1 \in 1..Size /\ j + 1 \in 1..(k + 1) - 1 /\ j \in 0..Size - 1
    BY <1>1
  <2> QED
    BY <1>1, <1>3, <2>1
<1>6. ASSUME NEW k \in 0..Size - 1, NEW j \in 0..k - 1
      PROVE  Upper(j) =< Lower(k) /\ Lower(j) < Lower(k) /\ Upper(j) < Upper(k)
  <2>1. j \in 0..Size - 1
    BY <1>1
  <2> QED
    BY <1>4, <1>5, <2>1
<1> QED
  BY <1>1, <1>4, <1>6 DEF Records

(* The record in which update() looks for a time.                           *)
LEMMA RecordAtIs ==
  ASSUME Records, NEW x \in Int
  PROVE  /\ RecordAt(x) \in 0..Size - 1
         /\ \A k \in 0..Size - 1 : Lower(k) < x =>
              k =< RecordAt(x) /\ Lower(RecordAt(x)) < x
         /\ (\A k \in 0..Size - 1 : ~(Lower(k) < x)) => RecordAt(x) = 0
<1> DEFINE begun == {k \in 0..Size - 1 : Lower(k) < x}
<1>1. Size \in Nat \ {0}
  BY DEF Records
<1>2. CASE begun = {}
  <2>1. RecordAt(x) = 0
    BY <1>2 DEF RecordAt
  <2> QED
    BY <1>1, <1>2, <2>1
<1>3. CASE begun # {}
  <2>1. \E m \in begun : \A k \in begun : k =< m
    BY <1>1, <1>3, MaxNat
  <2>2. RecordAt(x) = CHOOSE k \in begun : \A j \in begun : j =< k
    BY <1>3 DEF RecordAt
  <2>3. RecordAt(x) \in begun /\ \A j \in begun : j =< RecordAt(x)
    BY <2>1, <2>2
  <2> QED
    BY <1>3, <2>3
<1> QED
  BY <1>2, <1>3

-----------------------------------------------------------------------------
(* As many records as fit are in memory.                                    *)
Filled ==
  /\ dt \in Nat
  /\ N = 0 => first = -1 /\ dt = 0
  /\ N > 0 => first \in 0..Size - 1 /\ N = Min2(NRecords, Size - first)
  /\ Period > 0 => first = 0 /\ N = Size

(* The window reaches over the whole step.                                  *)
StepCovered ==
  dt > 0 /\ Period = 0 =>
    \/ Covers(t, dt)
    \/ N > 0 /\ first = RecordAt(t) /\ RecordAt(t + dt) =< first + N - 1

IInv == TypeOK /\ WindowContents /\ Filled /\ StepCovered

LEMMA InitIInv == Init => IInv
<1> SUFFICES ASSUME Init PROVE IInv
  OBVIOUS
<1>1. Records /\ Period \in Nat /\ (Period > 0 => NRecords >= Size)
  BY RecordsInOrder DEF Init
<1>2. Size \in Nat \ {0} /\ NRecords \in Nat \ {0}
  BY <1>1 DEF Records
<1>3. Start \in Start..End /\ Start \in Nat
  BY ForcingAssumption
<1> USE <1>1, <1>2, <1>3 DEF Init
<1>4. TypeOK
  BY DEF TypeOK, Min2
<1>5. WindowContents /\ Filled /\ StepCovered
  BY DEF WindowContents, Filled, StepCovered, Min2
<1> QED
  BY <1>4, <1>5 DEF IInv

-----------------------------------------------------------------------------
(* What update(start) leaves in the buffer.                                 *)
LEMMA LoadFills ==
  ASSUME TypeOK, WindowContents, Filled, Period = 0, Records,
         NEW s \in 0..Size - 1, Load(s), setup' = setup
  PROVE  /\ first' = s
         /\ N' = Min2(NRecords, Size - s) /\ N' > 0
         /\ window' \in [0..NRecords - 1 -> -1..Size - 1]
         /\ \A p \in 0..N' - 1 : window'[p] = s + p
<1>1. Size \in Nat \ {0} /\ NRecords \in Nat \ {0}
  BY DEF Records
<1>2. window \in [0..NRecords - 1 -> -1..Size - 1] /\ first \in -1..Size - 1
  BY DEF TypeOK
<1>3. Min2(NRecords, Size - s) \in 1..NRecords /\ Min2(NRecords, Size - s) =< Size - s
  BY <1>1 DEF Min2
<1>4. CASE s = first
  <2>1. UNCHANGED <<first, N, window>>
    BY <1>4 DEF Load
  <2>2. N > 0 /\ N = Min2(NRecords, Size - s)
    BY <1>4, <1>1 DEF Filled, TypeOK, Min2
  <2> QED
    BY <1>2, <1>4, <2>1, <2>2 DEF WindowContents
<1>5. CASE s # first
  <2> DEFINE kept == Kept(s)
             size == Min2(NRecords, Size - s)
  <2>1. /\ first' = s
        /\ N' = kept + (size - kept)
        /\ window' = Shifted(s, kept, size - kept)
    BY <1>5 DEF Load
  <2>2. /\ kept \in 0..size
        /\ kept > 0 => /\ N > 0 /\ first >= 0 /\ first =< s
                       /\ kept = first + N - s
    BY <1>1, <1>2, <1>3 DEF Kept, Filled, TypeOK, Min2
  <2>3. N' = size
    BY <1>3, <2>1, <2>2
  <2>4. window' = [p \in 0..NRecords - 1 |->
                     IF p < kept THEN window[p + s - first]
                     ELSE IF p < size THEN s + p
                     ELSE window[p]]
    BY <1>3, <2>1, <2>2 DEF Shifted
  <2> HIDE DEF kept, size
  <2>5. ASSUME NEW p \in 0..size - 1 PROVE window'[p] = s + p /\ s + p \in -1..Size - 1
    <3>1. p \in 0..NRecords - 1 /\ s + p \in -1..Size - 1
      BY <1>1, <1>3 DEF size
    <3>2. CASE p < kept
      <4>1. N \in Nat /\ p + s - first \in 0..N - 1
        BY <1>1, <1>2, <2>2, <3>2 DEF TypeOK, Min2
      <4>2. window[p + s - first] = first + (p + s - first)
        BY <4>1 DEF WindowContents
      <4> QED
        BY <1>2, <2>4, <3>1, <3>2, <4>2
    <3>3. CASE ~(p < kept)
      <4>1. p < size
        BY <1>3 DEF size
      <4> QED
        BY <2>4, <3>1, <3>3, <4>1
    <3> QED
      BY <3>2, <3>3
  <2>6. window' \in [0..NRecords - 1 -> -1..Size - 1]
    <3> SUFFICES ASSUME NEW p \in 0..NRecords - 1 PROVE window'[p] \in -1..Size - 1
      BY <2>4
    <3>1. CASE p < size
      <4>1. p \in 0..size - 1
        BY <1>3, <3>1 DEF size
      <4> QED
        BY <2>5, <4>1
    <3>2. CASE ~(p < size)
      <4>1. ~(p < kept)
        BY <1>3, <2>2, <3>2 DEF size
      <4> QED
        BY <1>2, <2>4, <3>2, <4>1
    <3> QED
      BY <3>1, <3>2
  <2> QED
    BY <1>3, <2>1, <2>3, <2>5, <2>6 DEF size
<1> QED
  BY <1>4, <1>5

(* A window that starts at record s and is filled as far as the buffer and  *)
(* the file go reaches the record last, if that is in the file and the      *)
(* records from s to last fit in the buffer.                                *)
LEMMA WindowReaches ==
  ASSUME NEW s \in Int, NEW last \in Int, NEW n \in Int, NEW size \in Int,
         last =< size - 1, last - s + 1 =< n
  PROVE  last =< s + Min2(n, size - s) - 1
<1>1. CASE n =< size - s
  BY <1>1 DEF Min2
<1>2. CASE ~(n =< size - s)
  BY <1>2 DEF Min2
<1> QED
  BY <1>1, <1>2

LEMMA UpdateKeeps ==
  ASSUME IInv, NEW length \in 1..End - Start, Update(length)
  PROVE  IInv'
<1>1. setup \in Setups /\ setup' = setup
  BY DEF IInv, TypeOK, Update
<1>2. Records /\ Period \in Nat /\ (Period > 0 => NRecords >= Size)
  BY <1>1, RecordsInOrder
<1>3. /\ Size' = Size /\ NRecords' = NRecords /\ Period' = Period
      /\ \A k : Lower(k)' = Lower(k) /\ Upper(k)' = Upper(k)
  BY <1>1 DEF Size, NRecords, Period, Lower, Upper, TimeBounds
<1>4. Start \in Nat /\ End \in Nat
  BY ForcingAssumption
<1>5. /\ t' \in Start..End /\ t' + dt' \in Start..End
      /\ t' \in Int /\ dt' \in Nat \ {0} /\ dt' = length
      /\ phase' \in {"ready", "failed"}
  BY <1>4 DEF IInv, TypeOK, Filled, Update, StepFrom
<1>6. RecordAt(t)' = RecordAt(t') /\ RecordAt(t + dt)' = RecordAt(t' + dt')
  BY <1>1 DEF RecordAt, Size, Lower, TimeBounds
<1>7. CASE UNCHANGED <<first, N, window>> /\ (Period > 0 \/ Covers(t', length))
  <2>1. TypeOK' /\ WindowContents'
    BY <1>1, <1>3, <1>5, <1>7 DEF IInv, TypeOK, WindowContents, Min2
  <2>2. N > 0
    BY <1>2, <1>7 DEF IInv, TypeOK, Filled, Covers, Records
  <2>3. Filled'
    BY <1>3, <1>5, <1>7, <2>2 DEF IInv, Filled, Min2
  <2>4. StepCovered'
    BY <1>2, <1>3, <1>5, <1>7, <2>2 DEF StepCovered, Covers
  <2> QED
    BY <2>1, <2>3, <2>4 DEF IInv
<1>8. CASE Load(RecordAt(t')) /\ Period = 0 /\ ~Covers(t', length)
  <2> DEFINE s == RecordAt(t')
  <2>1. s \in 0..Size - 1 /\ RecordAt(t' + dt') \in 0..Size - 1
    <3>1. t' + dt' \in Int
      BY <1>5
    <3> QED
      BY <1>2, <1>5, <3>1, RecordAtIs
  <2>2. ~TooBig(t', length)
    BY <1>8 DEF Update
  <2>3. RecordAt(t' + dt') - s + 1 =< NRecords
    BY <1>2, <1>5, <1>8, <2>1, <2>2 DEF TooBig, Records
  <2>4. Load(s)
    BY <1>8
  <2> HIDE DEF s
  <2>5. /\ first' = s
        /\ N' = Min2(NRecords, Size - s) /\ N' > 0
        /\ window' \in [0..NRecords - 1 -> -1..Size - 1]
        /\ \A p \in 0..N' - 1 : window'[p] = s + p
    BY <1>1, <1>2, <1>8, <2>1, <2>4, LoadFills DEF IInv
  <2>6. /\ N' \in 0..Min2(NRecords, Size)
        /\ first' \in -1..Size - 1
    <3>1. Size \in Nat /\ NRecords \in Nat
      BY <1>2 DEF Records
    <3> QED
      BY <2>1, <2>5, <3>1 DEF Min2
  <2>7. TypeOK'
    <3>1. N' \in 0..Min2(NRecords', Size') /\ first' \in -1..Size' - 1
      BY <1>3, <2>6
    <3>2. window' \in [0..NRecords' - 1 -> -1..Size' - 1]
      BY <1>3, <2>5
    <3> QED
      BY <1>1, <1>5, <3>1, <3>2 DEF TypeOK
  <2>8. WindowContents'
    BY <2>5 DEF WindowContents
  <2>9. Filled'
    <3>1. N' = Min2(NRecords', Size' - first') /\ N' > 0
      BY <1>3, <2>5, Zenon
    <3>2. first' \in 0..Size' - 1
      BY <1>3, <2>1, <2>5, Zenon
    <3>3. dt' \in Nat /\ ~(N' = 0) /\ ~(Period' > 0)
      BY <1>3, <1>5, <1>8, <3>1
    <3> QED
      BY <3>1, <3>2, <3>3 DEF Filled
  <2>10. StepCovered'
    <3> DEFINE last == RecordAt(t' + dt')
    <3>1. last \in Int /\ last =< Size - 1 /\ last - s + 1 =< NRecords
      BY <1>2, <2>1, <2>3 DEF Records
    <3>2. s \in Int /\ Size \in Int /\ NRecords \in Int
      BY <1>2, <2>1 DEF Records
    <3>3. last = RecordAt(t + dt)' /\ first' = RecordAt(t)'
      BY <1>6, <2>5 DEF s
    <3> HIDE DEF last
    <3>4. last =< s + Min2(NRecords, Size - s) - 1
      BY <3>1, <3>2, WindowReaches
    <3>5. RecordAt(t + dt)' =< first' + N' - 1
      BY <2>5, <3>3, <3>4
    <3> QED
      BY <2>5, <3>3, <3>5 DEF StepCovered
  <2> QED
    BY <2>7, <2>8, <2>9, <2>10 DEF IInv
<1> QED
  BY <1>2, <1>7, <1>8 DEF Update

LEMMA OtherStepsKeep ==
  ASSUME IInv,
         \/ UNCHANGED vars
         \/ \E length \in 1..End - Start : UpdateFails(length)
  PROVE  IInv'
<1>1. UNCHANGED <<setup, first, N, window, t, dt>> /\ phase' \in {"ready", "failed"}
  BY DEF IInv, TypeOK, vars, UpdateFails
<1>2. /\ Size' = Size /\ NRecords' = NRecords /\ Period' = Period
      /\ \A k : Lower(k)' = Lower(k) /\ Upper(k)' = Upper(k)
      /\ \A x : RecordAt(x)' = RecordAt(x)
  BY <1>1 DEF Size, NRecords, Period, Lower, Upper, TimeBounds, RecordAt
<1>3. TypeOK' /\ WindowContents' /\ Filled'
  BY <1>1, <1>2 DEF IInv, TypeOK, WindowContents, Filled, Min2
<1>4. StepCovered'
  BY <1>1, <1>2 DEF IInv, StepCovered, Covers
<1> QED
  BY <1>3, <1>4 DEF IInv

LEMMA Inductive == Spec => []IInv
<1>1. IInv /\ [Next]_vars => IInv'
  BY UpdateKeeps, OtherStepsKeep DEF Next
<1> QED
  BY <1>1, InitIInv, PTL DEF Spec

(* For every file, periodic or not, and every buffer size: whatever is kept *)
(* of a window, it holds consecutive records of the file in order.          *)
THEOREM BufferAlwaysConsistent == Spec => []BufferConsistent
<1>1. IInv => BufferConsistent
  BY DEF IInv, BufferConsistent
<1> QED
  BY <1>1, Inductive, PTL

-----------------------------------------------------------------------------
(* The record of a time in the step is in the window.                       *)
LEMMA InWindow ==
  ASSUME IInv, Records, Period = 0,
         NEW x \in t..t + dt - 1, NEW k \in 0..Size - 1,
         Lower(k) =< x, x < Upper(k)
  PROVE  N > 0 /\ k - first \in 0..N - 1 /\ first \in 0..Size - 1
<1>1. /\ Size \in Nat \ {0} /\ NRecords \in Nat \ {0}
      /\ t \in Int /\ dt \in Nat \ {0} /\ x \in Int
      /\ t =< x /\ x < t + dt
      /\ Lower(k) \in Int /\ Upper(k) \in Int
  BY ForcingAssumption DEF IInv, TypeOK, Filled, Records
<1>2. N > 0 /\ first \in 0..Size - 1 /\ first + N - 1 \in 0..Size - 1 /\ N \in Nat
  BY <1>1 DEF IInv, TypeOK, Filled, Min2
<1>3. first =< k
  <2> SUFFICES ASSUME k < first PROVE FALSE
    BY <1>1, <1>2
  <2>1. Upper(k) =< Lower(first) /\ Lower(first) \in Int
    BY <1>2 DEF Records
  <2>2. CASE Covers(t, dt)
    BY <1>1, <2>1, <2>2 DEF Covers
  <2>3. CASE first = RecordAt(t)
    <3>1. Lower(first) < t \/ first = 0
      BY <1>1, <2>3, RecordAtIs
    <3> QED
      BY <1>1, <1>2, <2>1, <3>1
  <2> QED
    BY <1>1, <2>2, <2>3 DEF IInv, StepCovered
<1>4. k =< first + N - 1
  <2> DEFINE last == first + N - 1
  <2> HIDE DEF last
  <2> SUFFICES ASSUME last < k PROVE FALSE
    BY <1>1, <1>2 DEF last
  <2>0. last \in 0..Size - 1 /\ last = first + N - 1
    BY <1>2 DEF last
  <2>1. Upper(last) =< Lower(k) /\ Upper(last) \in Int
    BY <2>0 DEF Records
  <2>2. CASE Covers(t, dt)
    BY <1>1, <2>0, <2>1, <2>2 DEF Covers
  <2>3. CASE RecordAt(t + dt) =< last
    <3>1. t + dt \in Int /\ Lower(k) < t + dt
      BY <1>1
    <3>2. k =< RecordAt(t + dt) /\ RecordAt(t + dt) \in 0..Size - 1
      BY <3>1, RecordAtIs
    <3> QED
      BY <1>1, <2>0, <2>3, <3>2
  <2> QED
    BY <1>1, <2>0, <2>2, <2>3 DEF IInv, StepCovered
<1> QED
  BY <1>1, <1>2, <1>3, <1>4

(* init_interpolation() finds it there.                                     *)
LEMMA IndexOfRecord ==
  ASSUME IInv, Records, Period = 0,
         NEW x \in t..t + dt - 1, NEW k \in 0..Size - 1,
         Lower(k) =< x, x < Upper(k), NEW z \in t..x, ~InGap(z)
  PROVE  Index({z}, x) < N /\ window[Index({z}, x)] = k
<1>1. N > 0 /\ N \in Nat /\ k - first \in 0..N - 1 /\ first \in 0..Size - 1
  BY InWindow DEF IInv, TypeOK
<1>2. /\ Size \in Nat \ {0} /\ x \in Int /\ Periodic(x) = x
      /\ first + N - 1 \in 0..Size - 1
  BY <1>1, ForcingAssumption DEF IInv, TypeOK, Filled, Records, Periodic, Min2
<1>3. ~(x < Lower(first))
  <2>1. Lower(first) =< Lower(k) /\ Lower(first) \in Int /\ Lower(k) \in Int
    BY <1>1, <1>2 DEF Records
  <2> QED
    BY <1>2, <2>1
<1>4. ~(x >= Upper(first + N - 1))
  <2> DEFINE last == first + N - 1
  <2>1. last \in 0..Size - 1 /\ k =< last
    BY <1>1, <1>2
  <2> HIDE DEF last
  <2>2. Upper(k) =< Upper(last) /\ Upper(k) \in Int /\ Upper(last) \in Int
    BY <1>2, <2>1 DEF Records
  <2>3. ~(x >= Upper(last))
    BY <1>2, <2>2
  <2> QED
    BY <2>3 DEF last
<1>5. Holding(x) = {k - first}
  <2>1. k - first \in Holding(x)
    <3>1. first + (k - first) = k
      BY <1>1, <1>2
    <3> QED
      BY <1>1, <3>1 DEF Holding, Within
  <2>2. ASSUME NEW p \in Holding(x) PROVE p = k - first
    <3> DEFINE j == first + p
    <3>1. j \in 0..Size - 1 /\ Lower(j) =< x /\ x < Upper(j) /\ p \in 0..N - 1
      BY <1>1, <1>2 DEF Holding, Within
    <3> HIDE DEF j
    <3>2. ~(j < k)
      <4>1. j < k => Upper(j) =< Lower(k) /\ Upper(j) \in Int /\ Lower(k) \in Int
        BY <3>1 DEF Records
      <4> QED
        BY <1>2, <3>1, <4>1
    <3>3. ~(k < j)
      <4>1. k < j => Upper(k) =< Lower(j) /\ Upper(k) \in Int /\ Lower(j) \in Int
        BY <3>1 DEF Records
      <4> QED
        BY <1>2, <3>1, <4>1
    <3>4. j = k
      BY <3>1, <3>2, <3>3
    <3> QED
      BY <1>1, <3>1, <3>4 DEF j
  <2> QED
    BY <2>1, <2>2
<1>6. ~Missed(z)
  <2> SUFFICES ASSUME Missed(z) PROVE FALSE
    OBVIOUS
  <2>1. z \in t..t + dt - 1 /\ z \in Int /\ FileTime(z) = z
    BY ForcingAssumption DEF IInv, TypeOK, Filled, FileTime
  <2>2. Lower(0) =< z /\ z < Upper(Size - 1)
    <3>1. /\ first = 0 \/ 0 \in 0..first - 1
          /\ first + N - 1 = Size - 1 \/ first + N - 1 \in 0..(Size - 1) - 1
          /\ 0 \in 0..Size - 1 /\ Size - 1 \in 0..Size - 1
      BY <1>1, <1>2
    <3>2. /\ Lower(0) =< Lower(first) /\ Lower(0) \in Int /\ Lower(first) \in Int
          /\ Upper(first + N - 1) =< Upper(Size - 1)
          /\ Upper(first + N - 1) \in Int /\ Upper(Size - 1) \in Int
      BY <1>1, <1>2, <3>1 DEF Records
    <3> QED
      BY <2>1, <3>2 DEF Missed
  <2>3. PICK j \in 0..Size - 1 : Lower(j) =< z /\ z < Upper(j)
    BY <2>1, <2>2 DEF InGap, Within
  <2>4. j - first \in 0..N - 1 /\ first + (j - first) = j
    BY <1>1, <2>1, <2>3, InWindow
  <2> QED
    BY <2>3, <2>4 DEF Missed, Holding, Within
<1>7. ~Missed(x)
  BY <1>5 DEF Missed
<1>8. \A y \in {z} \union {x} : ~Missed(Periodic(y))
  BY <1>2, <1>6, <1>7 DEF Periodic, IInv
<1>9. Index({z}, x) = CHOOSE p \in Holding(x) : \A q \in Holding(x) : p =< q
  BY <1>2, <1>3, <1>4, <1>8 DEF Index
<1>10. Index({z}, x) = k - first
  BY <1>1, <1>5, <1>9
<1>11. window[k - first] = first + (k - first)
  BY <1>1 DEF IInv, WindowContents
<1> QED
  BY <1>1, <1>10, <1>11

(* Outside the data, the first or the last record.                          *)
LEMMA NearestIsRead ==
  ASSUME IInv, Records, Period = 0, NEW x \in t..t + dt - 1
  PROVE  /\ x < Lower(0) => Index({}, x) < N /\ window[Index({}, x)] = 0
         /\ x >= Upper(Size - 1) => Index({}, x) < N /\ window[Index({}, x)] = Size - 1
<1>1. /\ Size \in Nat \ {0} /\ NRecords \in Nat \ {0}
      /\ t \in Int /\ dt \in Nat \ {0} /\ x \in Int /\ Periodic(x) = x
      /\ t =< x /\ x < t + dt
      /\ 0 \in 0..Size - 1 /\ Size - 1 \in 0..Size - 1
  BY ForcingAssumption DEF IInv, TypeOK, Filled, Records, Periodic
<1>2. N > 0 /\ first \in 0..Size - 1 /\ first + N - 1 \in 0..Size - 1 /\ N \in Nat
  BY <1>1 DEF IInv, TypeOK, Filled, Min2
<1> DEFINE last == first + N - 1
<1>3. /\ Lower(0) \in Int /\ Upper(0) \in Int /\ Lower(0) < Upper(0)
      /\ Lower(first) \in Int /\ Upper(last) \in Int /\ Lower(first) < Upper(first)
      /\ Upper(Size - 1) \in Int /\ Upper(first) \in Int
      /\ Lower(0) =< Lower(first)
      /\ Upper(last) =< Upper(Size - 1) /\ Upper(first) =< Upper(Size - 1)
  BY <1>1, <1>2 DEF Records
<1>4. Covers(t, dt) \/ (first = RecordAt(t) /\ RecordAt(t + dt) =< last)
  BY <1>1 DEF IInv, StepCovered
<1>5. ASSUME x < Lower(0) PROVE Index({}, x) < N /\ window[Index({}, x)] = 0
  <2>1. ~Covers(t, dt)
    BY <1>1, <1>3, <1>5 DEF Covers
  <2>2. ASSUME NEW k \in 0..Size - 1 PROVE ~(Lower(k) < t)
    <3>1. Lower(0) =< Lower(k) /\ Lower(k) \in Int
      BY <1>1 DEF Records
    <3> QED
      BY <1>1, <1>3, <1>5, <3>1
  <2>3. RecordAt(t) = 0
    BY <1>1, <2>2, RecordAtIs
  <2>4. first = 0
    BY <1>4, <2>1, <2>3
  <2>5. Index({}, x) = 0
    BY <1>1, <1>5, <2>4 DEF Index
  <2>6. window[0] = first + 0
    BY <1>2 DEF IInv, WindowContents
  <2> QED
    BY <1>2, <2>4, <2>5, <2>6
<1>6. ASSUME x >= Upper(Size - 1) PROVE Index({}, x) < N /\ window[Index({}, x)] = Size - 1
  <2>1. ~Covers(t, dt)
    BY <1>1, <1>3, <1>6 DEF Covers
  <2>2. t + dt \in Int /\ Lower(Size - 1) \in Int /\ Lower(Size - 1) < Upper(Size - 1)
    BY <1>1 DEF Records
  <2>3. Size - 1 =< RecordAt(t + dt) /\ RecordAt(t + dt) \in 0..Size - 1
    <3>1. Lower(Size - 1) < t + dt
      BY <1>1, <1>3, <1>6, <2>2
    <3> QED
      BY <1>1, <2>2, <3>1, RecordAtIs
  <2>4. last = Size - 1
    BY <1>1, <1>2, <1>4, <2>1, <2>3
  <2>5. Index({}, x) = N - 1
    <3>1. ~(x < Lower(first)) /\ x >= Upper(last)
      BY <1>1, <1>3, <1>6, <2>4
    <3> QED
      BY <1>1, <3>1 DEF Index
  <2>6. N - 1 \in 0..N - 1
    BY <1>2
  <2>7. window[N - 1] = first + (N - 1)
    BY <2>6 DEF IInv, WindowContents
  <2> QED
    BY <1>2, <2>4, <2>5, <2>7
<1> QED
  BY <1>5, <1>6

(* Room for two records in memory, and no record but the first and the last *)
(* as short as a second.                                                    *)
Regular ==
  /\ NRecords >= 2
  /\ \A k \in 1..Size - 2 : Upper(k) - Lower(k) > Tol

(* The bounds of the file, by their positions.                              *)
LEMMA Positions ==
  ASSUME setup \in Setups
  PROVE  /\ Len(TimeBounds) = 2 * Size
         /\ \A k \in 0..Size - 1 :
              TimeBounds[2 * k + 1] = Lower(k) /\ TimeBounds[2 * k + 2] = Upper(k)
BY ForcingAssumption DEF Size, TimeBounds, Lower, Upper

(* max_timestep() looks at the first bound after x.                         *)
LEMMA FirstBound ==
  ASSUME Size \in Nat, Len(TimeBounds) = 2 * Size,
         NEW x \in Int, NEW p \in 1..2 * Size, TimeBounds[p] > x
  PROVE  \E l \in 1..2 * Size :
           /\ TimeBounds[l] > x
           /\ \A i \in 1..2 * Size : TimeBounds[i] > x => l =< i
           /\ Limit(x) = IF TimeBounds[l] - x > Tol THEN TimeBounds[l] - x
                        ELSE IF l + 2 =< 2 * Size THEN TimeBounds[l + 2] - TimeBounds[l]
                        ELSE 0
<1> DEFINE later == {i \in 1..Len(TimeBounds) : TimeBounds[i] > x}
           l == CHOOSE i \in later : \A j \in later : i =< j
<1>1. later \in SUBSET Nat /\ later # {}
  OBVIOUS
<1>2. \E m \in later : \A j \in later : m =< j
  <2> HIDE DEF later
  <2> QED
    BY <1>1, MinNat
<1>3. l \in later /\ \A j \in later : l =< j
  BY <1>2
<1>4. Limit(x) = IF TimeBounds[l] - x > Tol THEN TimeBounds[l] - x
                 ELSE IF l + 2 =< Len(TimeBounds) THEN TimeBounds[l + 2] - TimeBounds[l]
                 ELSE 0
  BY <1>1 DEF Limit
<1> HIDE DEF l
<1> QED
  BY <1>3, <1>4

(* A step that is too big reaches beyond a whole record, and so beyond the  *)
(* limit.                                                                   *)
LEMMA TooBigIsBeyond ==
  ASSUME Records, Regular, setup \in Setups, Tol \in Nat,
         NEW x \in Int, NEW length \in Nat \ {0}, TooBig(x, length)
  PROVE  Limit(x) > 0 /\ length > Limit(x)
<1> DEFINE r == RecordAt(x)
           q == RecordAt(x + length)
<1>1. Size \in Nat \ {0} /\ NRecords \in Nat /\ NRecords >= 2
  BY DEF Records, Regular
<1>2. /\ r \in 0..Size - 1
      /\ \A k \in 0..Size - 1 : Lower(k) < x => k =< r /\ Lower(r) < x
      /\ (\A k \in 0..Size - 1 : ~(Lower(k) < x)) => r = 0
  BY RecordAtIs
<1>3. /\ q \in 0..Size - 1
      /\ q # 0 => Lower(q) < x + length
  <2>1. x + length \in Int
    OBVIOUS
  <2> QED
    BY <2>1, RecordAtIs
<1>4. q - r + 1 > NRecords
  BY DEF TooBig
<1> HIDE DEF r, q
<1>5. r \in 0..Size - 3 /\ r + 2 =< q
  BY <1>1, <1>2, <1>3, <1>4
<1>6. /\ Lower(r) \in Int /\ Upper(r) \in Int /\ Lower(r + 1) \in Int
      /\ Upper(r + 1) \in Int /\ Lower(r + 2) \in Int
      /\ Lower(r) < Upper(r) /\ Upper(r) =< Lower(r + 1)
      /\ Lower(r + 1) < Upper(r + 1) /\ Upper(r + 1) =< Lower(r + 2)
      /\ Upper(r + 1) - Lower(r + 1) > Tol
  <2>1. /\ r \in 0..Size - 1 /\ r + 1 \in 0..Size - 1 /\ r + 2 \in 0..Size - 1
        /\ r \in 0..(r + 1) - 1 /\ r + 1 \in 0..(r + 2) - 1 /\ r + 1 \in 1..Size - 2
    BY <1>1, <1>5
  <2> QED
    BY <2>1 DEF Records, Regular
<1>7. Lower(r + 2) < x + length /\ x =< Lower(r + 1)
  <2>1. r + 1 \in 0..Size - 1 /\ r + 2 \in 0..Size - 1
    BY <1>1, <1>5
  <2>2. ~(Lower(r + 1) < x)
    BY <1>2, <1>5, <2>1
  <2>3. Lower(r + 2) =< Lower(q) /\ Lower(q) \in Int
    <3>1. r + 2 = q \/ r + 2 \in 0..q - 1
      BY <1>3, <1>5
    <3> QED
      BY <1>3, <1>6, <3>1 DEF Records
  <2> QED
    BY <1>3, <1>5, <1>6, <2>2, <2>3
<1>8. /\ Len(TimeBounds) = 2 * Size
      /\ TimeBounds[2 * r + 1] = Lower(r) /\ TimeBounds[2 * r + 2] = Upper(r)
      /\ TimeBounds[2 * r + 3] = Lower(r + 1) /\ TimeBounds[2 * r + 4] = Upper(r + 1)
      /\ TimeBounds[2 * r + 5] = Lower(r + 2)
  <2>1. /\ r \in 0..Size - 1 /\ r + 1 \in 0..Size - 1 /\ r + 2 \in 0..Size - 1
        /\ 2 * (r + 1) + 1 = 2 * r + 3 /\ 2 * (r + 1) + 2 = 2 * r + 4
        /\ 2 * (r + 2) + 1 = 2 * r + 5
    BY <1>1, <1>5
  <2> QED
    BY <2>1, Positions
<1>9. 2 * r + 4 \in 1..2 * Size /\ TimeBounds[2 * r + 4] > x
  <2>1. 2 * r + 4 \in 1..2 * Size
    BY <1>1, <1>5
  <2>2. Upper(r + 1) > x
    BY <1>6, <1>7
  <2> QED
    BY <1>8, <2>1, <2>2
<1>10. PICK l \in 1..2 * Size :
         /\ TimeBounds[l] > x
         /\ \A i \in 1..2 * Size : TimeBounds[i] > x => l =< i
         /\ Limit(x) = IF TimeBounds[l] - x > Tol THEN TimeBounds[l] - x
                      ELSE IF l + 2 =< 2 * Size THEN TimeBounds[l + 2] - TimeBounds[l]
                      ELSE 0
  BY <1>1, <1>8, <1>9, FirstBound
<1>11. l =< 2 * r + 4
  BY <1>9, <1>10
<1>12. l >= 2 * r + 1
  <2> SUFFICES ASSUME l < 2 * r + 1 PROVE FALSE
    BY <1>5, <1>10
  <2>1. PICK k \in 0..Size - 1 : k < r /\ (l = 2 * k + 1 \/ l = 2 * k + 2)
    <3>1. l \in Nat /\ l >= 1 /\ r \in Nat /\ l =< 2 * r
      BY <1>5, <1>10
    <3>2. /\ (l - 1) \div 2 \in Int
          /\ 2 * ((l - 1) \div 2) =< l - 1 /\ l - 1 < 2 * ((l - 1) \div 2) + 2
      BY <3>1
    <3> QED
      BY <1>1, <1>5, <3>1, <3>2
  <2>2. TimeBounds[l] = Lower(k) \/ TimeBounds[l] = Upper(k)
    BY <2>1, Positions
  <2>3. /\ Lower(k) < Upper(k) /\ Lower(k) \in Int /\ Upper(k) \in Int
        /\ Upper(k) =< Lower(r)
    <3>1. k \in 0..r - 1 /\ r \in 0..Size - 1
      BY <1>2, <2>1
    <3> QED
      BY <2>1, <3>1 DEF Records
  <2>4. Lower(r) < x
    BY <1>2, <2>1
  <2> QED
    BY <1>6, <1>10, <2>2, <2>3, <2>4
<1>13. CASE l = 2 * r + 1
  <2>1. TimeBounds[l] = Lower(r) /\ TimeBounds[l + 2] = Lower(r + 1) /\ l + 2 =< 2 * Size
    <3>1. l + 2 = 2 * r + 3 /\ l + 2 =< 2 * Size
      BY <1>1, <1>5, <1>13
    <3> QED
      BY <1>8, <1>13, <3>1
  <2>2. Lower(r) > x
    BY <1>10, <2>1
  <2>3. Limit(x) = IF Lower(r) - x > Tol THEN Lower(r) - x ELSE Lower(r + 1) - Lower(r)
    BY <1>10, <2>1
  <2> QED
    BY <1>6, <1>7, <2>2, <2>3
<1>14. CASE l = 2 * r + 2
  <2>1. TimeBounds[l] = Upper(r) /\ TimeBounds[l + 2] = Upper(r + 1) /\ l + 2 =< 2 * Size
    <3>1. l + 2 = 2 * r + 4 /\ l + 2 =< 2 * Size
      BY <1>1, <1>5, <1>14
    <3> QED
      BY <1>8, <1>14, <3>1
  <2>2. Upper(r) > x
    BY <1>10, <2>1
  <2>3. Limit(x) = IF Upper(r) - x > Tol THEN Upper(r) - x ELSE Upper(r + 1) - Upper(r)
    BY <1>10, <2>1
  <2> QED
    BY <1>6, <1>7, <2>2, <2>3
<1>15. CASE l = 2 * r + 3
  <2>1. TimeBounds[l] = Lower(r + 1) /\ TimeBounds[l + 2] = Lower(r + 2) /\ l + 2 =< 2 * Size
    <3>1. l + 2 = 2 * r + 5 /\ l + 2 =< 2 * Size
      BY <1>1, <1>5, <1>15
    <3> QED
      BY <1>8, <1>15, <3>1
  <2>2. Lower(r + 1) > x
    BY <1>10, <2>1
  <2>3. Limit(x) = IF Lower(r + 1) - x > Tol THEN Lower(r + 1) - x
                   ELSE Lower(r + 2) - Lower(r + 1)
    BY <1>10, <2>1
  <2> QED
    BY <1>6, <1>7, <2>2, <2>3
<1>16. CASE l = 2 * r + 4
  <2>1. 2 * r + 3 \in 1..2 * Size
    BY <1>1, <1>5
  <2>2. ~(Lower(r + 1) > x)
    BY <1>5, <1>8, <1>10, <1>16, <2>1
  <2>3. x = Lower(r + 1)
    BY <1>6, <1>7, <2>2
  <2>4. Limit(x) = Upper(r + 1) - x
    BY <1>6, <1>8, <1>10, <1>16, <2>3
  <2> QED
    BY <1>6, <1>7, <2>3, <2>4
<1> QED
  BY <1>5, <1>10, <1>11, <1>12, <1>13, <1>14, <1>15, <1>16

(* Data that are read whole always fit.                                     *)
LEMMA PeriodicFits ==
  ASSUME Records, NRecords >= Size, NEW x \in Int, NEW length \in Nat
  PROVE  ~TooBig(x, length)
<1>1. RecordAt(x) \in 0..Size - 1 /\ RecordAt(x + length) \in 0..Size - 1
  <2>1. x + length \in Int
    OBVIOUS
  <2> QED
    BY <2>1, RecordAtIs
<1> QED
  BY <1>1 DEF TooBig, Records

(* With a buffer of two records or more, no step that max_timestep() allows *)
(* is refused, every time of a step that is in a record is read from it,    *)
(* and a time before or after all of them from the nearest one: the window  *)
(* is always wide enough.  There may be gaps between the records, but then  *)
(* times after one that was asked for in a gap are excepted (InGap).        *)
THEOREM StepsAreServed == Spec => [](Period = 0 /\ Regular => StepServed)
<1>1. IInv => (Period = 0 /\ Regular => StepServed)
  <2> SUFFICES ASSUME IInv, Period = 0, Regular PROVE StepServed
    OBVIOUS
  <2>1. Records /\ setup \in Setups
    BY RecordsInOrder DEF IInv, TypeOK
  <2>2. RightRecord
    <3>1. ASSUME NEW x \in t..t + dt - 1 PROVE FileTime(x) = x
      BY DEF FileTime
    <3> QED
      BY <2>1, <3>1, IndexOfRecord DEF RightRecord, Within
  <2>3. NearestRecord
    BY <2>1, NearestIsRead DEF NearestRecord
  <2>4. StepFits
    <3> SUFFICES ASSUME NEW length \in 1..End - (t + dt), TooBig(t + dt, length)
                 PROVE  Limit(t + dt) > 0 /\ length > Limit(t + dt)
      BY DEF StepFits
    <3>1. Start \in Nat /\ End \in Nat /\ Tol \in Nat
      BY ForcingAssumption
    <3>2. t + dt \in Int
      BY <3>1 DEF IInv, TypeOK
    <3>3. length \in Nat \ {0}
      BY <3>1, <3>2
    <3> QED
      BY <2>1, <3>1, <3>2, <3>3, TooBigIsBeyond
  <2> QED
    BY <2>2, <2>3, <2>4 DEF StepServed
<1> QED
  BY <1>1, Inductive, PTL

(* Data that are read whole, periodic ones included, never stop a run.      *)
THEOREM PeriodicStepsFit == Spec => [](Period > 0 => StepFits)
<1>1. IInv => (Period > 0 => StepFits)
  <2> SUFFICES ASSUME IInv, Period > 0,
                      NEW length \in 1..End - (t + dt), TooBig(t + dt, length)
               PROVE  FALSE
    BY DEF StepFits
  <2>1. Records /\ NRecords >= Size
    BY RecordsInOrder DEF IInv, TypeOK
  <2>2. t + dt \in Int /\ End \in Nat /\ length \in Nat
    BY ForcingAssumption DEF IInv, TypeOK
  <2> QED
    BY <2>1, <2>2, PeriodicFits
<1> QED
  BY <1>1, Inductive, PTL
=============================================================================
