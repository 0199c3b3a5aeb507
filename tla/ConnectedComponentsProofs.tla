---------------------- MODULE ConnectedComponentsProofs ----------------------
(***************************************************************************)
(* Proofs about ConnectedComponents: for images of every size the vectors   *)
(* of runs are only read and written within their bounds, children follow   *)
(* their parents, as a comment in the code claims, and the trees, labels    *)
(* and icebergs that cc() finds are those of the connected components.      *)
(***************************************************************************)
EXTENDS ConnectedComponents, TLAPS, FiniteSetTheorems, WellFoundedInduction

Scanning == pc \in {"scan", "union", "climb", "record"}

\* What the two properties rest on: pixels that have been scanned hold the
\* number of a run, and labelling starts only after the scan.
Phases ==
  /\ Scanning => /\ k = 0 /\ label = 0 /\ r < NRows
                 /\ \A p \in Pixels : Scanned(p) => image[p] <= run_number
  /\ k > 0 => grounded \in [0 .. run_number -> 0 .. 1]

IInv == TypeOK /\ ChildrenFollowParents /\ Phases

\* The run above the present pixel has been numbered.
LEMMA AboveIsRun ==
  ASSUME IInv, Scanning
  PROVE  Above \in 0 .. run_number
<1>. USE ImageAssumption
<1>1. r \in 0 .. NRows - 1 /\ c \in 0 .. NCols - 1 /\ run_number \in Nat
  BY DEF IInv, TypeOK, Phases
<1>2. CASE r > 0
  <2>1. <<r - 1, c>> \in Pixels /\ Scanned(<<r - 1, c>>)
    BY <1>1, <1>2 DEF Pixels, Scanned
  <2>2. image[<<r - 1, c>>] \in Nat /\ image[<<r - 1, c>>] <= run_number
    BY <2>1 DEF IInv, TypeOK, Phases
  <2>. QED BY <1>1, <1>2, <2>2 DEF Above
<1>3. CASE ~(r > 0)
  BY <1>1, <1>3 DEF Above
<1>. QED BY <1>2, <1>3

\* Going on to the next pixel scans the present one.
LEMMA AdvanceScans ==
  ASSUME IInv, Scanning, Advance("scan"),
         NEW p \in Pixels, Scanned(p)'
  PROVE  Scanned(p) \/ p = <<r, c>>
<1>1. PICK a \in 0 .. NRows - 1, b \in 0 .. NCols - 1 : p = <<a, b>>
  BY DEF Pixels
<1>2. /\ r \in 0 .. NRows - 1 /\ c \in 0 .. NCols - 1
      /\ NRows \in Nat /\ NCols \in Nat
  BY ImageAssumption DEF IInv, TypeOK, Phases
<1>3. a < r' \/ (a = r' /\ b < c')
  BY <1>1 DEF Scanned
<1>4. CASE c + 1 < NCols
  <2>1. r' = r /\ c' = c + 1
    BY <1>4 DEF Advance
  <2>. QED BY <1>1, <1>2, <1>3, <2>1 DEF Scanned
<1>5. CASE ~(c + 1 < NCols)
  <2>1. r' = r + 1 /\ c' = 0
    BY <1>5 DEF Advance
  <2>. QED BY <1>1, <1>2, <1>3, <1>5, <2>1 DEF Scanned
<1>. QED BY <1>4, <1>5

\* It keeps the indices in range and ends the scan after the last row.
LEMMA AdvanceTypes ==
  ASSUME IInv, Scanning, Advance("scan")
  PROVE  /\ r' \in 0 .. NRows /\ c' \in 0 .. NCols - 1
         /\ pc' \in {"scan", "label"}
         /\ pc' = "scan" => r' < NRows
<1>1. /\ r \in 0 .. NRows - 1 /\ c \in 0 .. NCols - 1
      /\ NRows \in Nat \ {0} /\ NCols \in Nat \ {0}
  BY ImageAssumption DEF IInv, TypeOK, Phases
<1>2. CASE c + 1 < NCols
  BY <1>1, <1>2 DEF Advance
<1>3. CASE ~(c + 1 < NCols)
  BY <1>1, <1>3 DEF Advance
<1>. QED BY <1>2, <1>3

-----------------------------------------------------------------------------
LEMMA InitInv == Init => IInv
<1>. SUFFICES ASSUME Init PROVE IInv
  OBVIOUS
<1>. USE ImageAssumption DEF Init
<1>1. 2 * NRows \in Nat \ {0} /\ max_runs = 2 * NRows
  OBVIOUS
<1>2. /\ parents \in [0 .. max_runs - 1 -> {0}] /\ mask \in [0 .. max_runs - 1 -> {0}]
      /\ lengths \in [0 .. max_runs - 1 -> {0}]
      /\ first \in [0 .. max_runs - 1 -> {<<0, 0>>}]
  BY DEF Zeros
<1>3. input \in [Pixels -> Nat] /\ image \in [Pixels -> Nat]
  OBVIOUS
<1>4. TypeOK
  BY <1>1, <1>2, <1>3 DEF TypeOK
<1>5. ChildrenFollowParents
  BY <1>1, <1>2 DEF ChildrenFollowParents
<1>6. \A p \in Pixels : ~Scanned(p)
  BY DEF Scanned, Pixels
<1>7. Phases
  BY <1>6 DEF Phases
<1>. QED BY <1>4, <1>5, <1>7 DEF IInv

\* A resized vector has elements of the same type.
LEMMA StoredType ==
  ASSUME NEW S, NEW v \in [0 .. max_runs - 1 -> S], NEW x \in S, NEW default \in S,
         NEW size \in Nat, NEW n, max_runs \in Nat
  PROVE  Stored(v, size, n, x, default) \in [0 .. size - 1 -> S]
<1>1. ASSUME NEW i \in 0 .. size - 1
      PROVE  (IF i = n THEN x ELSE IF i < max_runs THEN v[i] ELSE default) \in S
  <2>1. CASE i < max_runs
    <3>1. i \in 0 .. max_runs - 1
      BY <2>1
    <3>. QED BY <2>1, <3>1
  <2>2. CASE ~(i < max_runs)
    BY <2>2
  <2>. QED BY <2>1, <2>2
<1>. QED BY <1>1 DEF Stored

\* Each action keeps the invariant.
LEMMA BackgroundInv == IInv /\ Background => IInv'
<1>. SUFFICES ASSUME IInv, Background PROVE IInv'
  OBVIOUS
<1>1. Scanning /\ Advance("scan")
  BY DEF Background, Scanning
<1>2. /\ r' \in 0 .. NRows /\ c' \in 0 .. NCols - 1
      /\ pc' \in {"scan", "label"} /\ (pc' = "scan" => r' < NRows)
  BY <1>1, AdvanceTypes
<1>3. TypeOK'
  BY <1>2 DEF IInv, TypeOK, Background, arguments, runs, labels
<1>4. ChildrenFollowParents'
  BY DEF IInv, ChildrenFollowParents, Background, runs, labels
<1>5. Scanning' => pc' = "scan"
  BY <1>2 DEF Scanning
<1>6. k' = 0 /\ label' = 0
  BY <1>1 DEF IInv, Phases, Background, labels
<1>7. \A p \in Pixels : Scanned(p)' => image'[p] <= run_number'
  <2>. SUFFICES ASSUME NEW p \in Pixels, Scanned(p)'
                PROVE  image'[p] <= run_number'
    OBVIOUS
  <2>1. image' = image /\ run_number' = run_number /\ run_number \in Nat
    BY DEF IInv, TypeOK, Background, runs
  <2>2. CASE Scanned(p)
    BY <1>1, <2>1, <2>2 DEF IInv, Phases
  <2>3. CASE p = <<r, c>>
    BY <2>1, <2>3 DEF Background
  <2>. QED BY <1>1, <2>2, <2>3, AdvanceScans
<1>8. Phases'
  BY <1>2, <1>5, <1>6, <1>7 DEF Phases
<1>. QED BY <1>3, <1>4, <1>8 DEF IInv

LEMMA ContinueRunInv == IInv /\ ContinueRun => IInv'
<1>. SUFFICES ASSUME IInv, ContinueRun PROVE IInv'
  OBVIOUS
<1>1. Scanning /\ Scanning'
  BY DEF ContinueRun, Scanning
<1>2. Above \in 0 .. run_number
  BY <1>1, AboveIsRun
<1>3. TypeOK'
  <2>1. lengths' \in [0 .. max_runs - 1 -> Nat]
    <3>1. run_number \in 0 .. max_runs - 1 /\ lengths \in [0 .. max_runs - 1 -> Nat]
      BY DEF IInv, TypeOK
    <3>2. lengths[run_number] + 1 \in Nat
      BY <3>1
    <3>. QED BY <3>1, <3>2 DEF ContinueRun
  <2>2. run1' \in 0 .. run_number /\ run2' \in 0 .. run_number
    BY <1>2 DEF ContinueRun, IInv, TypeOK
  <2>3. pc' \in {"union", "record"}
    BY DEF ContinueRun
  <2>. QED BY <2>1, <2>2, <2>3 DEF IInv, TypeOK, ContinueRun, arguments, scan, labels
<1>4. ChildrenFollowParents'
  BY DEF IInv, ChildrenFollowParents, ContinueRun, labels
<1>5. Phases'
  BY <1>1 DEF IInv, Phases, ContinueRun, Scanned, scan, labels
<1>. QED BY <1>3, <1>4, <1>5 DEF IInv

LEMMA NewRunInv == IInv /\ NewRun => IInv'
<1>. SUFFICES ASSUME IInv, NewRun PROVE IInv'
  OBVIOUS
<1>. DEFINE n == run_number + 1
            size == Size(n)
<1>1. Scanning /\ Scanning'
  BY DEF NewRun, Scanning
<1>2. Above \in 0 .. run_number
  BY <1>1, AboveIsRun
<1>3. run_number \in Nat /\ max_runs \in Nat /\ run_number < max_runs
  BY DEF IInv, TypeOK
<1>4. size \in Nat /\ n < size /\ max_runs <= size
  BY <1>3, ImageAssumption DEF Size
<1>5. /\ run_number' = n /\ max_runs' = size
      /\ first'   = Stored(first, size, n, <<r, c>>, <<0, 0>>)
      /\ lengths' = Stored(lengths, size, n, 1, 0)
      /\ parents' = Stored(parents, size, n, Above, 0)
      /\ mask'    = Stored(mask, size, n, 0, 0)
      /\ run1' = Above /\ run2' = n
  BY DEF NewRun
<1>6. k = 0 /\ k' = 0 /\ label' = 0 /\ r < NRows /\ UNCHANGED <<r, c, image, input>>
  BY <1>1 DEF IInv, Phases, NewRun, labels, scan, arguments
<1>. HIDE DEF size
<1>7. TypeOK'
  <2>1. r \in Nat /\ c \in Nat
    BY DEF IInv, TypeOK
  <2>2. first' \in [0 .. size - 1 -> Nat \X Nat]
    <3>1. <<r, c>> \in Nat \X Nat /\ <<0, 0>> \in Nat \X Nat
      BY <2>1
    <3>2. first \in [0 .. max_runs - 1 -> Nat \X Nat]
      BY DEF IInv, TypeOK
    <3>. QED BY <1>3, <1>4, <1>5, <3>1, <3>2, StoredType
  <2>3. lengths' \in [0 .. size - 1 -> Nat]
    BY <1>3, <1>4, <1>5, StoredType DEF IInv, TypeOK
  <2>4. parents' \in [0 .. size - 1 -> Nat]
    <3>1. Above \in Nat /\ parents \in [0 .. max_runs - 1 -> Nat]
      BY <1>2 DEF IInv, TypeOK
    <3>. QED BY <1>3, <1>4, <1>5, <3>1, StoredType
  <2>5. mask' \in [0 .. size - 1 -> 0 .. 1]
    <3>1. 0 \in 0 .. 1 /\ mask \in [0 .. max_runs - 1 -> 0 .. 1]
      BY DEF IInv, TypeOK
    <3>. QED BY <1>3, <1>4, <1>5, <3>1, StoredType
  <2>6. run_number' \in 0 .. size - 1 /\ run1' \in 0 .. n /\ run2' \in 0 .. n
    BY <1>2, <1>3, <1>4, <1>5
  <2>7. pc' \in {"union", "record"}
    BY DEF NewRun
  <2>8. /\ input' \in [Pixels -> Nat] /\ image' \in [Pixels -> Nat]
        /\ r' \in 0 .. NRows /\ c' \in 0 .. NCols - 1
    BY <1>6 DEF IInv, TypeOK
  <2>9. k' \in 0 .. n + 1 /\ label' \in 0 .. k'
    BY <1>3, <1>6
  <2>. QED BY <1>4, <1>5, <2>2, <2>3, <2>4, <2>5, <2>6, <2>7, <2>8, <2>9
           DEF TypeOK
<1>8. ChildrenFollowParents'
  <2>1. parents'[0] = 0
    BY <1>3, <1>4, <1>5 DEF Stored, IInv, ChildrenFollowParents
  <2>2. ASSUME NEW i \in 1 .. n PROVE parents'[i] < i
    <3>1. i \in 0 .. size - 1
      BY <1>3, <1>4
    <3>2. CASE i = n
      BY <1>2, <1>3, <1>5, <3>1, <3>2 DEF Stored
    <3>3. CASE i # n
      <4>1. i \in 1 .. run_number
        BY <1>3, <3>3
      <4>2. parents[i] < i
        BY <1>6, <4>1 DEF IInv, ChildrenFollowParents
      <4>. QED BY <1>3, <1>5, <3>1, <3>3, <4>1, <4>2 DEF Stored
    <3>. QED BY <3>2, <3>3
  <2>. QED BY <1>5, <1>6, <2>1, <2>2 DEF ChildrenFollowParents
<1>9. Phases'
  <2>1. \A p \in Pixels : Scanned(p)' => image'[p] <= run_number'
    <3>. SUFFICES ASSUME NEW p \in Pixels, Scanned(p)'
                  PROVE  image'[p] <= run_number'
      OBVIOUS
    <3>1. Scanned(p)
      BY <1>6 DEF Scanned
    <3>2. image[p] <= run_number /\ image[p] \in Nat
      BY <1>1, <3>1 DEF IInv, TypeOK, Phases
    <3>. QED BY <1>3, <1>5, <1>6, <3>2
  <2>. QED BY <1>6, <2>1 DEF Phases
<1>. QED BY <1>7, <1>8, <1>9 DEF IInv

-----------------------------------------------------------------------------
LEMMA UnionInv == IInv /\ Union => IInv'
<1>. SUFFICES ASSUME IInv, Union PROVE IInv'
  OBVIOUS
<1>1. Scanning /\ Scanning' /\ pc' \in {"record", "climb"}
  BY DEF Union, Scanning
<1>2. TypeOK'
  BY <1>1 DEF IInv, TypeOK, Union, arguments, scan, runs, labels
<1>3. ChildrenFollowParents'
  BY DEF IInv, ChildrenFollowParents, Union, runs, labels
<1>4. Phases'
  BY <1>1 DEF IInv, Phases, Union, Scanned, scan, runs, labels
<1>. QED BY <1>2, <1>3, <1>4 DEF IInv

\* The parent of a run that is in the forest is in the forest.
LEMMA ParentIsRun ==
  ASSUME IInv, Scanning, NEW i \in 0 .. run_number
  PROVE  parents[i] \in 0 .. run_number
<1>1. k = 0 /\ run_number \in Nat /\ run_number < max_runs /\ max_runs \in Nat
  BY DEF IInv, TypeOK, Phases
<1>2. parents[i] \in Nat
  BY <1>1 DEF IInv, TypeOK
<1>3. CASE i = 0
  BY <1>1, <1>3 DEF IInv, ChildrenFollowParents
<1>4. CASE i # 0
  <2>1. i \in 1 .. run_number
    BY <1>1, <1>4
  <2>2. parents[i] < i
    BY <1>1, <2>1 DEF IInv, ChildrenFollowParents
  <2>. QED BY <1>1, <1>2, <2>1, <2>2
<1>. QED BY <1>3, <1>4

LEMMA ClimbInv == IInv /\ (Climb1 \/ Climb2) => IInv'
<1>. SUFFICES ASSUME IInv, Climb1 \/ Climb2 PROVE IInv'
  OBVIOUS
<1>1. Scanning /\ Scanning' /\ pc' = pc
  BY DEF Climb1, Climb2, Scanning
<1>2. run1 \in 0 .. run_number /\ run2 \in 0 .. run_number
  BY DEF IInv, TypeOK
<1>3. run1' \in 0 .. run_number /\ run2' \in 0 .. run_number
  BY <1>1, <1>2, ParentIsRun DEF Climb1, Climb2
<1>4. UNCHANGED <<arguments, scan, runs, labels>>
  BY DEF Climb1, Climb2
<1>5. TypeOK'
  BY <1>1, <1>3, <1>4 DEF IInv, TypeOK, arguments, scan, runs, labels
<1>6. ChildrenFollowParents'
  BY <1>4 DEF IInv, ChildrenFollowParents, runs, labels
<1>7. Phases'
  BY <1>1, <1>4 DEF IInv, Phases, Scanned, scan, runs, labels
<1>. QED BY <1>5, <1>6, <1>7 DEF IInv

LEMMA LinkInv == IInv /\ Link => IInv'
<1>. SUFFICES ASSUME IInv, Link PROVE IInv'
  OBVIOUS
<1>1. Scanning /\ Scanning' /\ pc' = "record"
  BY DEF Link, Scanning
<1>2. /\ run1 \in 0 .. run_number /\ run2 \in 0 .. run_number
      /\ run_number \in 0 .. max_runs - 1 /\ max_runs \in Nat
      /\ parents \in [0 .. max_runs - 1 -> Nat]
  BY DEF IInv, TypeOK
<1>3. parents' = Linked(parents, run1, run2)
  BY DEF Link
<1>4. UNCHANGED <<arguments, scan, run_number, max_runs, first, lengths, mask,
                  run1, run2, labels>>
  BY DEF Link
<1>5. parents' \in [0 .. max_runs - 1 -> Nat]
  BY <1>2, <1>3 DEF Linked
<1>6. TypeOK'
  BY <1>1, <1>4, <1>5 DEF IInv, TypeOK, arguments, scan, labels
<1>7. ChildrenFollowParents'
  <2>1. k = 0 /\ k' = 0
    BY <1>1, <1>4 DEF IInv, Phases, labels
  <2>2. ASSUME NEW i \in 0 .. run_number
        PROVE  \/ parents'[i] = parents[i]
               \/ i # 0 /\ parents'[i] < i
    <3>1. i \in 0 .. max_runs - 1
      BY <1>2
    <3>2. CASE run1 > run2
      BY <1>2, <1>3, <3>1, <3>2 DEF Linked
    <3>3. CASE run1 < run2
      BY <1>2, <1>3, <3>1, <3>3 DEF Linked
    <3>4. CASE run1 = run2
      BY <1>2, <1>3, <3>1, <3>4 DEF Linked
    <3>. QED BY <1>2, <3>2, <3>3, <3>4
  <2>3. parents[0] = 0 /\ \A i \in 1 .. run_number : parents[i] < i
    BY <1>2, <2>1 DEF IInv, ChildrenFollowParents
  <2>4. parents'[0] = 0
    BY <1>2, <2>2, <2>3
  <2>5. \A i \in 1 .. run_number : parents'[i] < i
    BY <1>2, <2>2, <2>3
  <2>6. run_number' = run_number /\ \A i \in 1 .. run_number : i >= k'
    BY <1>2, <1>4, <2>1
  <2>. QED BY <2>4, <2>5, <2>6 DEF ChildrenFollowParents
<1>8. Phases'
  BY <1>1, <1>4 DEF IInv, Phases, Scanned, scan, labels
<1>. QED BY <1>6, <1>7, <1>8 DEF IInv

LEMMA RecordPixelInv == IInv /\ RecordPixel => IInv'
<1>. SUFFICES ASSUME IInv, RecordPixel PROVE IInv'
  OBVIOUS
<1>1. Scanning /\ Advance("scan")
  BY DEF RecordPixel, Scanning
<1>2. /\ r' \in 0 .. NRows /\ c' \in 0 .. NCols - 1
      /\ pc' \in {"scan", "label"} /\ (pc' = "scan" => r' < NRows)
  BY <1>1, AdvanceTypes
<1>3. run_number \in Nat /\ run_number' = run_number
  BY DEF IInv, TypeOK, RecordPixel
<1>4. image \in [Pixels -> Nat] /\ image' = [image EXCEPT ![<<r, c>>] = run_number]
  BY DEF IInv, TypeOK, RecordPixel
<1>5. image' \in [Pixels -> Nat]
  BY <1>3, <1>4
<1>6. mask' \in [0 .. max_runs - 1 -> 0 .. 1]
  <2>1. mask \in [0 .. max_runs - 1 -> 0 .. 1] /\ run_number \in 0 .. max_runs - 1
    BY DEF IInv, TypeOK
  <2>2. (IF image[<<r, c>>] = MaskGrounded THEN 1 ELSE mask[run_number]) \in 0 .. 1
    BY <2>1
  <2>. QED BY <2>1, <2>2 DEF RecordPixel
<1>7. TypeOK'
  BY <1>2, <1>5, <1>6 DEF IInv, TypeOK, RecordPixel, arguments, labels
<1>8. ChildrenFollowParents'
  BY DEF IInv, ChildrenFollowParents, RecordPixel, labels
<1>9. Phases'
  <2>1. \A p \in Pixels : Scanned(p)' => image'[p] <= run_number'
    <3>. SUFFICES ASSUME NEW p \in Pixels, Scanned(p)'
                  PROVE  image'[p] <= run_number'
      OBVIOUS
    <3>1. CASE p = <<r, c>>
      BY <1>3, <1>4, <3>1
    <3>2. CASE p # <<r, c>> /\ Scanned(p)
      BY <1>1, <1>3, <1>4, <3>2 DEF IInv, Phases
    <3>. QED BY <1>1, <3>1, <3>2, AdvanceScans
  <2>2. Scanning' => pc' = "scan"
    BY <1>2 DEF Scanning
  <2>3. k' = 0 /\ label' = 0
    BY <1>1 DEF IInv, Phases, RecordPixel, labels
  <2>. QED BY <1>2, <2>1, <2>2, <2>3 DEF Phases
<1>. QED BY <1>7, <1>8, <1>9 DEF IInv

-----------------------------------------------------------------------------
\* A label is an index of grounded: no label is larger than the number of its
\* run.
LEMMA LabelInRange ==
  ASSUME IInv, pc = "label", k <= run_number
  PROVE  LabelOf(k) \in 0 .. k
<1>1. /\ k \in Nat /\ label \in 0 .. k
      /\ run_number \in 0 .. max_runs - 1 /\ max_runs \in Nat
      /\ parents \in [0 .. max_runs - 1 -> Nat]
  BY DEF IInv, TypeOK
<1>2. CASE parents[k] = 0
  BY <1>1, <1>2 DEF LabelOf
<1>3. CASE parents[k] # 0
  <2>1. k \in 1 .. run_number
    BY <1>1, <1>3 DEF IInv, ChildrenFollowParents
  <2>2. parents[k] \in Nat /\ parents[k] < k
    BY <1>1, <2>1 DEF IInv, ChildrenFollowParents
  <2>3. parents[k] \in 1 .. run_number /\ ~(parents[k] >= k)
    BY <1>1, <1>3, <2>1, <2>2
  <2>4. parents[parents[k]] <= parents[k]
    BY <2>3 DEF IInv, ChildrenFollowParents
  <2>5. parents[parents[k]] \in Nat
    BY <1>1, <2>3
  <2>. QED BY <1>1, <1>3, <2>2, <2>4, <2>5 DEF LabelOf
<1>. QED BY <1>2, <1>3

LEMMA LabelRunInv == IInv /\ LabelRun => IInv'
<1>. SUFFICES ASSUME IInv, LabelRun PROVE IInv'
  OBVIOUS
<1>. DEFINE l == LabelOf(k)
<1>1. pc = "label" /\ k <= run_number /\ l \in 0 .. k
  BY LabelInRange DEF LabelRun
<1>2. /\ k \in Nat /\ label \in 0 .. k
      /\ run_number \in 0 .. max_runs - 1 /\ max_runs \in Nat
      /\ parents \in [0 .. max_runs - 1 -> Nat]
  BY DEF IInv, TypeOK
<1>3. /\ parents' = [parents EXCEPT ![k] = l]
      /\ grounded' = [i \in 0 .. run_number |->
                        IF i = l /\ mask[k] = 1 THEN 1
                        ELSE IF k = 0 THEN 0 ELSE grounded[i]]
      /\ label' = IF parents[k] = 0 THEN label + 1 ELSE label
      /\ k' = k + 1 /\ pc' = pc
      /\ UNCHANGED <<arguments, scan, run_number, max_runs, first, lengths, mask, run1, run2>>
  BY DEF LabelRun
<1>4. l = 0 \/ k # 0
  BY <1>1, <1>2
<1>. HIDE DEF l
<1>5. parents' \in [0 .. max_runs - 1 -> Nat]
  BY <1>1, <1>2, <1>3
<1>6. k' \in 0 .. run_number + 1 /\ label' \in 0 .. k'
  BY <1>1, <1>2, <1>3
<1>7. TypeOK'
  BY <1>1, <1>3, <1>5, <1>6 DEF IInv, TypeOK, arguments, scan
<1>8. ChildrenFollowParents'
  <2>1. parents'[0] = 0
    <3>1. parents[0] = 0 /\ 0 \in 0 .. max_runs - 1
      BY <1>2 DEF IInv, ChildrenFollowParents
    <3>. QED BY <1>2, <1>3, <1>4, <3>1
  <2>2. ASSUME NEW i \in 1 .. run_number
        PROVE  IF i >= k' THEN parents'[i] < i ELSE parents'[i] <= i
    <3>1. i \in 0 .. max_runs - 1
      BY <1>2
    <3>2. CASE i = k
      BY <1>1, <1>2, <1>3, <3>1, <3>2
    <3>3. CASE i # k
      <4>1. parents'[i] = parents[i]
        BY <1>2, <1>3, <3>1, <3>3
      <4>2. (i >= k') <=> (i >= k)
        BY <1>2, <1>3, <3>3
      <4>. QED BY <4>1, <4>2 DEF IInv, ChildrenFollowParents
    <3>. QED BY <3>2, <3>3
  <2>. QED BY <1>3, <2>1, <2>2 DEF ChildrenFollowParents
<1>9. Phases'
  <2>1. ~Scanning'
    BY <1>1, <1>3 DEF Scanning
  <2>2. ASSUME NEW i \in 0 .. run_number
        PROVE  (IF i = l /\ mask[k] = 1 THEN 1
                ELSE IF k = 0 THEN 0 ELSE grounded[i]) \in 0 .. 1
    <3>1. CASE k = 0
      BY <3>1
    <3>2. CASE k # 0
      <4>1. grounded \in [0 .. run_number -> 0 .. 1]
        BY <1>2, <3>2 DEF IInv, Phases
      <4>. QED BY <3>2, <4>1
    <3>. QED BY <3>1, <3>2
  <2>3. grounded' \in [0 .. run_number -> 0 .. 1]
    BY <1>3, <2>2
  <2>. QED BY <1>3, <2>1, <2>3 DEF Phases
<1>. QED BY <1>7, <1>8, <1>9 DEF IInv

LEMMA RelabelInv == IInv /\ Relabel => IInv'
<1>. SUFFICES ASSUME IInv, Relabel PROVE IInv'
  OBVIOUS
<1>1. pc = "label" /\ k > run_number /\ pc' = "done"
  BY DEF Relabel
<1>2. /\ k \in Nat /\ run_number \in 0 .. max_runs - 1 /\ max_runs \in Nat
      /\ image \in [Pixels -> Nat]
      /\ parents \in [0 .. max_runs - 1 -> Nat]
  BY DEF IInv, TypeOK
<1>3. grounded \in [0 .. run_number -> 0 .. 1]
  BY <1>1, <1>2 DEF IInv, Phases
<1>4. ASSUME NEW i \in 0 .. run_number PROVE PixelLabel(i) \in Nat
  <2>1. parents[i] \in 0 .. run_number
    <3>1. CASE i = 0
      BY <1>2, <3>1 DEF IInv, ChildrenFollowParents
    <3>2. CASE i # 0
      <4>1. i \in 1 .. run_number /\ ~(i >= k) /\ parents[i] \in Nat
        BY <1>1, <1>2, <3>2
      <4>2. parents[i] <= i
        BY <4>1 DEF IInv, ChildrenFollowParents
      <4>. QED BY <1>2, <4>1, <4>2
    <3>. QED BY <3>1, <3>2
  <2>2. grounded[parents[i]] \in 0 .. 1
    BY <1>3, <2>1
  <2>3. 1 - grounded[parents[i]] \in Nat
    BY <2>2
  <2>. QED BY <1>2, <2>1, <2>3 DEF PixelLabel
<1>5. image' \in [Pixels -> Nat]
  <2>1. ASSUME NEW p \in Pixels, \E i \in 0 .. run_number : p \in RunPixels(i)
        PROVE  PixelLabel(CHOOSE i \in 0 .. run_number : p \in RunPixels(i)) \in Nat
    <3>1. (CHOOSE i \in 0 .. run_number : p \in RunPixels(i)) \in 0 .. run_number
      BY <2>1
    <3>. QED BY <1>4, <3>1
  <2>2. ASSUME NEW p \in Pixels PROVE image[p] \in Nat
    BY <1>2
  <2>. QED BY <2>1, <2>2 DEF Relabel
<1>6. UNCHANGED <<arguments, r, c, runs, run1, run2, labels>>
  BY DEF Relabel
<1>7. TypeOK'
  BY <1>1, <1>5, <1>6 DEF IInv, TypeOK, arguments, runs, labels
<1>8. ChildrenFollowParents'
  BY <1>6 DEF IInv, ChildrenFollowParents, runs, labels
<1>9. Phases'
  BY <1>1, <1>3, <1>6 DEF Phases, Scanning, runs, labels
<1>. QED BY <1>7, <1>8, <1>9 DEF IInv

-----------------------------------------------------------------------------
LEMMA NextInv == IInv /\ [Next]_vars => IInv'
<1>. SUFFICES ASSUME IInv, [Next]_vars PROVE IInv'
  OBVIOUS
<1>1. CASE Background
  BY <1>1, BackgroundInv
<1>2. CASE ContinueRun
  BY <1>2, ContinueRunInv
<1>3. CASE NewRun
  BY <1>3, NewRunInv
<1>4. CASE Union
  BY <1>4, UnionInv
<1>5. CASE Climb1 \/ Climb2
  BY <1>5, ClimbInv
<1>6. CASE Link
  BY <1>6, LinkInv
<1>7. CASE RecordPixel
  BY <1>7, RecordPixelInv
<1>8. CASE LabelRun
  BY <1>8, LabelRunInv
<1>9. CASE Relabel
  BY <1>9, RelabelInv
<1>10. CASE UNCHANGED vars
  <2>1. UNCHANGED <<pc, arguments, scan, runs, run1, run2, labels>>
    BY <1>10 DEF vars
  <2>2. TypeOK'
    BY <2>1 DEF IInv, TypeOK, arguments, scan, runs, labels
  <2>3. ChildrenFollowParents'
    BY <2>1 DEF IInv, ChildrenFollowParents, runs, labels
  <2>4. Phases'
    BY <2>1 DEF IInv, Phases, Scanning, Scanned, scan, runs, labels
  <2>. QED BY <2>2, <2>3, <2>4 DEF IInv
<1>. QED
  BY <1>1, <1>2, <1>3, <1>4, <1>5, <1>6, <1>7, <1>8, <1>9, <1>10 DEF Next

LEMMA Inductive == Spec => []IInv
<1>1. Init => IInv
  BY InitInv
<1>2. IInv /\ [Next]_vars => IInv'
  BY NextInv
<1>. QED BY <1>1, <1>2, PTL DEF Spec

\* For images of every size no vector is read or written beyond its end, and
\* children follow parents, so run_union() has no cycle to go round in and one
\* sweep over the runs is enough.
THEOREM RunsStayWellFormed == Spec => []RunsWellFormed
<1>1. IInv => RunsWellFormed
  BY DEF IInv, RunsWellFormed
<1>. QED BY <1>1, Inductive, PTL

-----------------------------------------------------------------------------
\* Two pixels of S are connected within S when every part of S that goes on to
\* neighbours and holds the first holds the second.
Closed(S, T) == \A x \in T, y \in S : Beside(x, y) => y \in T
Connected(S, p, q) == \A T \in SUBSET S : p \in T /\ Closed(S, T) => q \in T

\* Neighbours are neighbours of each other.
LEMMA BesideSymmetric ==
  ASSUME NEW p \in Pixels, NEW q \in Pixels, Beside(p, q)
  PROVE  Beside(q, p)
<1>1. p[1] \in Int /\ p[2] \in Int /\ q[1] \in Int /\ q[2] \in Int
  BY ImageAssumption DEF Pixels
<1>2. CASE p[1] = q[1] /\ p[2] - q[2] \in {-1, 1}
  <2>1. q[2] - p[2] \in {-1, 1}
    BY <1>1, <1>2
  <2>. QED BY <1>2, <2>1 DEF Beside
<1>3. CASE p[2] = q[2] /\ p[1] - q[1] \in {-1, 1}
  <2>1. q[1] - p[1] \in {-1, 1}
    BY <1>1, <1>3
  <2>. QED BY <1>3, <2>1 DEF Beside
<1>. QED BY <1>2, <1>3 DEF Beside

\* Neighbours are connected.
LEMMA ConnectedStep ==
  ASSUME NEW S, NEW p \in S, NEW q \in S, Beside(p, q)
  PROVE  Connected(S, p, q)
BY DEF Connected, Closed

\* It goes on along a path,
LEMMA ConnectedTransitive ==
  ASSUME NEW S, NEW p, NEW q, NEW x, Connected(S, p, q), Connected(S, q, x)
  PROVE  Connected(S, p, x)
BY DEF Connected

\* it has no direction,
LEMMA ConnectedSymmetric ==
  ASSUME NEW S \in SUBSET Pixels, NEW p \in S, NEW q \in S, Connected(S, p, q)
  PROVE  Connected(S, q, p)
<1>. DEFINE T == {x \in S : Connected(S, x, p)}
<1>1. p \in T
  BY DEF Connected
<1>2. ASSUME NEW x \in T, NEW y \in S, Beside(x, y)
      PROVE  y \in T
  <2>1. Beside(y, x)
    BY <1>2, BesideSymmetric
  <2>2. Connected(S, y, x)
    BY <2>1, ConnectedStep
  <2>. QED BY <2>2, ConnectedTransitive
<1>3. T \in SUBSET S /\ Closed(S, T)
  BY <1>2 DEF Closed
<1>4. q \in T
  <2>. HIDE DEF T
  <2>. QED BY <1>1, <1>3 DEF Connected
<1>. QED BY <1>4

\* and pixels that are added break none.
LEMMA ConnectedGrows ==
  ASSUME NEW S, NEW S2, S \subseteq S2, NEW p \in S, NEW q, Connected(S, p, q)
  PROVE  Connected(S2, p, q)
<1>. SUFFICES ASSUME NEW T \in SUBSET S2, p \in T, Closed(S2, T)
              PROVE  q \in T
  BY DEF Connected
<1>1. T \cap S \in SUBSET S /\ p \in T \cap S /\ Closed(S, T \cap S)
  BY DEF Closed
<1>. QED BY <1>1 DEF Connected

\* What the recursive search for a component finds.
LEMMA ComponentIs ==
  ASSUME NEW S \in SUBSET Pixels, NEW p \in S
  PROVE  Component(S, p) = {q \in S : Connected(S, p, q)}
<1>. DEFINE Grown(T) == {q \in S : q \in T \/ \E x \in T : Beside(x, q)}
            Hull(T) == {q \in S : \A U \in SUBSET S : T \subseteq U /\ Closed(S, U) => q \in U}
            Search(g) == g = [T \in SUBSET S |-> IF Grown(T) = T THEN T ELSE g[Grown(T)]]
            reach == CHOOSE g : Search(g)
            hull == [T \in SUBSET S |-> Hull(T)]
<1>1. Component(S, p) = reach[{p}]
  BY DEF Component
<1>2. ASSUME NEW T \in SUBSET S
      PROVE  /\ Grown(T) \in SUBSET S /\ T \subseteq Grown(T)
             /\ Grown(T) = T => Hull(T) = T
             /\ Hull(Grown(T)) = Hull(T)
  <2>1. Grown(T) \in SUBSET S /\ T \subseteq Grown(T)
    OBVIOUS
  <2>2. ASSUME Grown(T) = T PROVE Hull(T) = T
    <3>1. Closed(S, T)
      BY <2>2 DEF Closed
    <3>2. Hull(T) \subseteq T
      BY <3>1
    <3>3. T \subseteq Hull(T)
      OBVIOUS
    <3>. QED BY <3>2, <3>3
  <2>3. ASSUME NEW U \in SUBSET S, Closed(S, U)
        PROVE  Grown(T) \subseteq U <=> T \subseteq U
    BY <2>3 DEF Closed
  <2>4. Hull(Grown(T)) = Hull(T)
    <3>. HIDE DEF Grown
    <3>. QED BY <2>3
  <2>. QED BY <2>1, <2>2, <2>4
<1>3. Search(hull)
  <2>1. ASSUME NEW T \in SUBSET S
        PROVE  Hull(T) = IF Grown(T) = T THEN T ELSE hull[Grown(T)]
    <3>1. Grown(T) \in SUBSET S
      BY <1>2
    <3>2. hull[Grown(T)] = Hull(Grown(T))
      <4>. HIDE DEF Hull, Grown
      <4>. QED BY <3>1
    <3>. HIDE DEF Hull, Grown, hull
    <3>. QED BY <1>2, <3>2
  <2>. HIDE DEF Hull, Grown
  <2>. QED BY <2>1
<1>4. Search(reach)
  <2>. HIDE DEF Search, hull
  <2>. QED BY <1>3
<1>5. ASSUME NEW T \in SUBSET S PROVE reach[T] = Hull(T)
  <2>. DEFINE Bad == {U \in SUBSET S : reach[S \ U] # Hull(S \ U)}
              R == StrictSubsetOrdering(S)
  <2>1. IsFiniteSet(S)
    <3>1. IsFiniteSet(0 .. NRows - 1) /\ IsFiniteSet(0 .. NCols - 1)
      BY ImageAssumption, FS_Interval
    <3>2. IsFiniteSet(Pixels)
      BY <3>1, FS_Product DEF Pixels
    <3>. QED BY <3>2, FS_Subset
  <2>2. IsWellFoundedOn(R, SUBSET S)
    BY <2>1, FS_StrictSubsetOrderingWellFounded, FS_FiniteSubsetsOfFinite
  <2>3. Bad = {}
    <3>. SUFFICES ASSUME Bad # {} PROVE FALSE
      OBVIOUS
    <3>1. PICK U \in Bad : \A V \in Bad : ~(<<V, U>> \in R)
      <4>1. Bad \subseteq SUBSET S
        OBVIOUS
      <4>. HIDE DEF Bad, R
      <4>. QED BY <2>2, <4>1, WFMin
    <3>. DEFINE W == S \ U
                V == S \ Grown(W)
    <3>2. W \in SUBSET S /\ reach[W] # Hull(W)
      BY <3>1
    <3>3. reach[W] = IF Grown(W) = W THEN W ELSE reach[Grown(W)]
      <4>. HIDE DEF Grown, reach, W
      <4>. QED BY <1>4, <3>2
    <3>4. Grown(W) # W /\ Grown(W) \in SUBSET S /\ W \subseteq Grown(W)
      <4>. HIDE DEF Hull, Grown, reach, W
      <4>. QED BY <1>2, <3>2, <3>3
    <3>5. V \in SUBSET U /\ V # U /\ V \in SUBSET S /\ S \ V = Grown(W)
      <4>. HIDE DEF Grown
      <4>. QED BY <3>1, <3>4
    <3>6. <<V, U>> \in R
      <4>1. V \in SUBSET S /\ U \in SUBSET S /\ V \subseteq U /\ V # U
        BY <3>1, <3>5
      <4>. HIDE DEF V
      <4>. QED BY <4>1 DEF StrictSubsetOrdering
    <3>7. reach[Grown(W)] = Hull(Grown(W))
      <4>1. ~(V \in Bad)
        BY <3>1, <3>6
      <4>. HIDE DEF Hull, Grown, reach, W, V
      <4>. QED BY <3>5, <4>1
    <3>. HIDE DEF Hull, Grown, reach, W
    <3>. QED BY <1>2, <3>2, <3>3, <3>4, <3>7
  <2>4. S \ (S \ T) = T /\ S \ T \in SUBSET S
    OBVIOUS
  <2>. HIDE DEF Hull, reach
  <2>. QED BY <2>3, <2>4
<1>6. Hull({p}) = {q \in S : Connected(S, p, q)}
  BY DEF Connected
<1>7. {p} \in SUBSET S
  OBVIOUS
<1>. HIDE DEF Hull, reach
<1>. QED BY <1>1, <1>5, <1>6, <1>7

-----------------------------------------------------------------------------
\* f labels the components of S: neighbours have the same label, and pixels
\* with the same label are connected.
Labels(S, f) ==
  /\ \A p, q \in S : Beside(p, q) => f[p] = f[q]
  /\ \A p, q \in S : f[p] = f[q] => Connected(S, p, q)

\* Then the pixels with the label of p are its component.
LEMMA LabelsAre ==
  ASSUME NEW S \in SUBSET Pixels, NEW f, Labels(S, f), NEW p \in S
  PROVE  {q \in S : f[q] = f[p]} = Component(S, p)
<1>1. ASSUME NEW q \in S, Connected(S, p, q) PROVE f[q] = f[p]
  <2>. DEFINE T == {x \in S : f[x] = f[p]}
  <2>1. T \in SUBSET S /\ p \in T /\ Closed(S, T)
    BY DEF Labels, Closed
  <2>2. q \in T
    <3>. HIDE DEF T
    <3>. QED BY <1>1, <2>1 DEF Connected
  <2>. QED BY <2>2
<1>2. ASSUME NEW q \in S, f[q] = f[p] PROVE Connected(S, p, q)
  BY <1>2 DEF Labels
<1>. QED BY <1>1, <1>2, ComponentIs

\* f labels S, and g joins the labels that the neighbours of x have with its own.
Adds(S, x, f, g) ==
  /\ \A p, q \in S : f[p] = f[q] => g[p] = g[q]
  /\ \A y \in S : Beside(x, y) => g[y] = g[x]
  /\ \A p, q \in S : g[p] = g[q] =>
        \/ f[p] = f[q]
        \/ \E y, z \in S : Beside(x, y) /\ Beside(x, z) /\ f[p] = f[y] /\ f[q] = f[z]
  /\ \A p \in S : g[p] = g[x] => \E y \in S : Beside(x, y) /\ f[p] = f[y]

\* Then g labels S with x.
LEMMA AddPixel ==
  ASSUME NEW S \in SUBSET Pixels, NEW x \in Pixels \ S, NEW f, NEW g,
         Labels(S, f), Adds(S, x, f, g)
  PROVE  Labels(S \cup {x}, g)
<1>. DEFINE S2 == S \cup {x}
<1>1. S2 \in SUBSET Pixels
  OBVIOUS
<1>2. ASSUME NEW p \in S2, NEW q \in S2, Beside(p, q) PROVE g[p] = g[q]
  <2>1. CASE p \in S /\ q \in S
    BY <1>2, <2>1 DEF Labels, Adds
  <2>2. CASE p = x /\ q \in S
    BY <1>2, <2>2 DEF Adds
  <2>3. CASE p \in S /\ q = x
    <3>1. Beside(q, p)
      BY <1>2, BesideSymmetric
    <3>. QED BY <2>3, <3>1 DEF Adds
  <2>4. CASE p = x /\ q = x
    BY <2>4
  <2>. QED BY <2>1, <2>2, <2>3, <2>4
<1>3. ASSUME NEW p \in S, NEW q \in S, f[p] = f[q] PROVE Connected(S2, p, q)
  <2>1. Connected(S, p, q)
    BY <1>3 DEF Labels
  <2>. QED BY <2>1, ConnectedGrows
<1>4. ASSUME NEW p \in S, NEW y \in S, Beside(x, y), f[p] = f[y]
      PROVE  Connected(S2, p, x) /\ Connected(S2, x, p)
  <2>1. Connected(S2, p, y)
    BY <1>3, <1>4
  <2>2. Beside(y, x)
    BY <1>4, BesideSymmetric
  <2>3. Connected(S2, y, x)
    BY <2>2, ConnectedStep
  <2>4. Connected(S2, p, x)
    BY <2>1, <2>3, ConnectedTransitive
  <2>. QED BY <1>1, <2>4, ConnectedSymmetric
<1>5. ASSUME NEW p \in S2, NEW q \in S2, g[p] = g[q] PROVE Connected(S2, p, q)
  <2>1. CASE p \in S /\ q \in S
    <3>1. CASE f[p] = f[q]
      BY <1>3, <2>1, <3>1
    <3>2. ASSUME NEW y \in S, NEW z \in S,
                 Beside(x, y), Beside(x, z), f[p] = f[y], f[q] = f[z]
          PROVE  Connected(S2, p, q)
      <4>1. Connected(S2, p, x) /\ Connected(S2, x, q)
        BY <1>4, <2>1, <3>2
      <4>. QED BY <4>1, ConnectedTransitive
    <3>. QED BY <1>5, <2>1, <3>1, <3>2 DEF Adds
  <2>2. CASE p = x /\ q \in S
    <3>1. PICK y \in S : Beside(x, y) /\ f[q] = f[y]
      BY <1>5, <2>2 DEF Adds
    <3>. QED BY <1>4, <2>2, <3>1
  <2>3. CASE p \in S /\ q = x
    <3>1. PICK y \in S : Beside(x, y) /\ f[p] = f[y]
      BY <1>5, <2>3 DEF Adds
    <3>. QED BY <1>4, <2>3, <3>1
  <2>4. CASE p = x /\ q = x
    BY <2>4 DEF Connected
  <2>. QED BY <2>1, <2>2, <2>3, <2>4
<1>. HIDE DEF S2
<1>6. Labels(S2, g)
  BY <1>2, <1>5 DEF Labels
<1>. QED BY <1>6 DEF S2
-----------------------------------------------------------------------------
\* The invariant.  The present pixel is pending once its run is known, until
\* the number of the run is written.
Cur     == <<r, c>>
Pending == pc \in {"union", "climb", "record"}
Before  == {p \in Foreground : Scanned(p)}
Seen    == IF Pending THEN Before \cup {Cur} ELSE Before
Number  == [p \in Seen |-> IF Pending /\ p = Cur THEN run_number ELSE image[p]]

\* The image holds the numbers of runs where it has been scanned, and the input
\* elsewhere.
ImageInv ==
  pc # "done" =>
    /\ \A p \in Pixels :
         IF Scanned(p) THEN IF p \in Foreground THEN image[p] \in 1 .. run_number
                                                ELSE image[p] = 0
         ELSE image[p] = input[p]
    /\ Pending => Cur \in Foreground /\ run_number >= 1
    /\ pc = "label" => r = NRows

\* The runs are made of the pixels with their numbers, and the last one goes on
\* where there are pixels to the left of the present one.
RunInv ==
  pc # "done" =>
    /\ lengths[0] = 0
    /\ \A i \in 1 .. run_number : RunPixels(i) = {p \in Seen : Number[p] = i}
    /\ Left > 0 /\ pc \in {"scan", "union", "climb", "record"} => Left = run_number
    /\ pc = "scan" /\ Left > 0 =>
         first[run_number][1] = r /\ first[run_number][2] + lengths[run_number] = c
    /\ Pending =>
         first[run_number][1] = r /\ first[run_number][2] + lengths[run_number] = c + 1

\* A run is grounded when one of its pixels is.
MaskInv ==
  pc # "done" =>
    \A i \in 1 .. run_number :
       mask[i] = 1 <=> \E p \in Before : image[p] = i /\ input[p] = MaskGrounded

\* R is the root of each run: as the parents have it, for runs without labels.
Roots(R) ==
  /\ R \in [0 .. run_number -> 0 .. run_number] /\ R[0] = 0
  /\ \A i \in 1 .. run_number : R[i] \in 1 .. i /\ R[R[i]] = R[i]
  /\ \A i \in k .. run_number : R[i] = IF parents[i] = 0 THEN i ELSE R[parents[i]]

RootOf(R) == [p \in Seen |-> R[Number[p]]]

\* Labels that have been given to runs are the same exactly where roots are, and
\* know whether a run with them is grounded.
Labelled(R) ==
  /\ \A i \in 0 .. k - 1 : parents[i] < label
  /\ \A i, j \in 0 .. k - 1 : parents[i] = parents[j] <=> R[i] = R[j]
  /\ k > 0 => \A l \in 0 .. run_number :
                 grounded[l] = 1 <=> \E i \in 0 .. k - 1 : parents[i] = l /\ mask[i] = 1

\* The pixels before the present one have the labels R gives them, and with it,
\* in run n, those of R.
BeforeHas(R) == Labels(Before, [p \in Before |-> R[image[p]]])
WithCur(R, n) ==
  Labels(Before \cup {Cur},
         [p \in Before \cup {Cur} |-> R[IF p = Cur THEN n ELSE image[p]]])

\* In run_union() the roots of the two runs are those of the run above and of the
\* present run, which are not joined yet.
Joining(R) ==
  /\ Above > 0
  /\ R[run1] = R[Above] /\ R[run2] = R[run_number]
  /\ Left = 0 => R[run_number] = R[Above]
  /\ BeforeHas(R)

\* Some function takes the runs to their roots, and roots are components.
TreeInv ==
  pc # "done" =>
    \E R \in [0 .. run_number -> 0 .. run_number] :
      /\ Roots(R)
      /\ pc \in {"union", "climb"} => Joining(R)
      /\ pc \in {"scan", "record", "label"} => Labels(Seen, RootOf(R))
      /\ pc = "label" => Labelled(R)

\* What cc() returns.
ResultInv == IcebergsFound /\ LabelsAreComponents

\* The inductive invariant of ComponentsAreFound.
CInv == IInv /\ ImageInv /\ RunInv /\ MaskInv /\ TreeInv /\ ResultInv
-----------------------------------------------------------------------------
\* Every set of numbers has a least one.
LEMMA Least ==
  ASSUME NEW S \in SUBSET Nat, S # {}
  PROVE  \E m \in S : \A j \in S : m <= j
<1>. DEFINE R == OpToRel(<, Nat)
<1>1. \A x, y \in Nat : x < y => <<x, y>> \in R
  BY DEF OpToRel
<1>2. IsWellFoundedOn(R, Nat)
  BY NatLessThanWellFounded
<1>. HIDE DEF R
<1>3. PICK m \in S : \A y \in S : ~(<<y, m>> \in R)
  BY <1>2, WFMin
<1>4. SUFFICES ASSUME NEW j \in S PROVE m <= j
  OBVIOUS
<1>5. j \in Nat /\ m \in Nat
  OBVIOUS
<1>6. ~(j < m)
  BY <1>1, <1>3, <1>5
<1>. QED BY <1>5, <1>6

\* The type invariant as the proofs below use it.
LEMMA Types ==
  ASSUME IInv
  PROVE  /\ run_number \in Nat /\ max_runs \in Nat /\ run_number < max_runs
         /\ \A i \in 0 .. run_number : i \in 0 .. max_runs - 1
         /\ \A i \in 0 .. run_number : parents[i] \in Nat /\ lengths[i] \in Nat
         /\ \A i \in 0 .. run_number : /\ first[i] = <<first[i][1], first[i][2]>>
                                       /\ first[i][1] \in Nat /\ first[i][2] \in Nat
         /\ parents[0] = 0
         /\ r \in 0 .. NRows /\ c \in 0 .. NCols - 1
         /\ NRows \in Nat \ {0} /\ NCols \in Nat \ {0}
         /\ \A p \in Pixels : image[p] \in Nat /\ input[p] \in Nat
         /\ Foreground \in SUBSET Pixels /\ Before \in SUBSET Foreground
<1>1. /\ run_number \in 0 .. max_runs - 1 /\ max_runs \in Nat
      /\ parents \in [0 .. max_runs - 1 -> Nat] /\ lengths \in [0 .. max_runs - 1 -> Nat]
      /\ first \in [0 .. max_runs - 1 -> Nat \X Nat]
      /\ r \in 0 .. NRows /\ c \in 0 .. NCols - 1
      /\ image \in [Pixels -> Nat] /\ input \in [Pixels -> Nat]
  BY DEF IInv, TypeOK
<1>2. /\ run_number \in Nat /\ run_number < max_runs
      /\ \A i \in 0 .. run_number : i \in 0 .. max_runs - 1
  BY <1>1
<1>3. \A i \in 0 .. run_number : first[i] \in Nat \X Nat
  BY <1>1, <1>2
<1>4. \A x \in Nat \X Nat : x = <<x[1], x[2]>> /\ x[1] \in Nat /\ x[2] \in Nat
  OBVIOUS
<1>5. parents[0] = 0
  BY DEF IInv, ChildrenFollowParents
<1>6. Foreground \in SUBSET Pixels /\ Before \in SUBSET Foreground
  BY DEF Foreground, Before
<1>7. \A i \in 0 .. run_number : parents[i] \in Nat /\ lengths[i] \in Nat
  BY <1>1, <1>2
<1>. QED BY <1>1, <1>2, <1>3, <1>4, <1>5, <1>6, <1>7, ImageAssumption

\* A function that follows the parents is what the recursive search for the
\* root finds.
LEMMA RootIs ==
  ASSUME IInv, Scanning, NEW R, Roots(R), NEW n \in 0 .. run_number
  PROVE  Root(n) = R[n]
<1>. DEFINE D == 0 .. run_number
            Search(g) == g = [j \in D |-> IF parents[j] = 0 THEN j ELSE g[parents[j]]]
            up == CHOOSE g : Search(g)
<1>1. Root(n) = up[n]
  BY DEF Root
<1>2. k = 0 /\ run_number \in Nat /\ parents[0] = 0
  BY Types DEF IInv, Phases
<1>3. \A i \in D : parents[i] \in D /\ (i # 0 => parents[i] < i)
  <2>1. \A i \in D : parents[i] \in D
    BY ParentIsRun
  <2>2. \A i \in 1 .. run_number : parents[i] < i
    BY <1>2 DEF IInv, ChildrenFollowParents
  <2>. QED BY <1>2, <2>1, <2>2
<1>4. \A i \in D : R[i] = IF parents[i] = 0 THEN i ELSE R[parents[i]]
  BY <1>2 DEF Roots
<1>5. Search(R)
  <2>1. R = [j \in D |-> R[j]]
    BY DEF Roots
  <2>. QED BY <1>4, <2>1
<1>6. Search(up)
  <2>. HIDE DEF Search
  <2>. QED BY <1>5
<1>7. \A i \in D : up[i] = IF parents[i] = 0 THEN i ELSE up[parents[i]]
  <2>. HIDE DEF up
  <2>. QED BY <1>6
<1>8. {i \in D : up[i] # R[i]} = {}
  <2>. DEFINE Bad == {i \in D : up[i] # R[i]}
  <2>. SUFFICES ASSUME Bad # {} PROVE FALSE
    OBVIOUS
  <2>. HIDE DEF up
  <2>1. Bad \in SUBSET Nat
    BY <1>2
  <2>2. PICK m \in Bad : \A j \in Bad : m <= j
    <3>. HIDE DEF Bad
    <3>. QED BY <2>1, Least
  <2>3. m \in D /\ up[m] # R[m]
    BY <2>2
  <2>4. parents[m] # 0
    BY <1>4, <1>7, <2>3
  <2>5. parents[m] \in D /\ parents[m] < m
    BY <1>2, <1>3, <2>3, <2>4
  <2>6. ~(parents[m] \in Bad)
    <3>1. ~(m <= parents[m])
      BY <1>2, <2>3, <2>5
    <3>. HIDE DEF Bad
    <3>. QED BY <2>2, <3>1
  <2>7. up[parents[m]] = R[parents[m]]
    BY <2>5, <2>6
  <2>. QED BY <1>4, <1>7, <2>3, <2>4, <2>7
<1>9. up[n] = R[n]
  <2>. HIDE DEF up
  <2>. QED BY <1>8
<1>. QED BY <1>1, <1>9

\* Going on to the next pixel.
LEMMA AdvanceIs ==
  ASSUME IInv, Scanning, Advance("scan")
  PROVE  /\ \A p \in Pixels : Scanned(p)' <=> Scanned(p) \/ p = Cur
         /\ \/ r' = r /\ c' = c + 1 /\ pc' = "scan"
            \/ r' = r + 1 /\ c' = 0 /\ pc' \in {"scan", "label"}
         /\ pc' = "label" => r' = NRows
<1>1. /\ r \in 0 .. NRows - 1 /\ c \in 0 .. NCols - 1
      /\ NRows \in Nat \ {0} /\ NCols \in Nat \ {0}
  BY ImageAssumption DEF IInv, TypeOK, Phases
<1>2. ASSUME NEW p \in Pixels PROVE (Scanned(p) \/ p = Cur) => Scanned(p)'
  <2>1. PICK a \in 0 .. NRows - 1, b \in 0 .. NCols - 1 : p = <<a, b>>
    BY DEF Pixels
  <2>2. CASE c + 1 < NCols
    <3>1. r' = r /\ c' = c + 1
      BY <2>2 DEF Advance
    <3>. QED BY <1>1, <2>1, <3>1 DEF Scanned, Cur
  <2>3. CASE ~(c + 1 < NCols)
    <3>1. r' = r + 1 /\ c' = 0
      BY <2>3 DEF Advance
    <3>. QED BY <1>1, <2>1, <3>1 DEF Scanned, Cur
  <2>. QED BY <2>2, <2>3
<1>3. \A p \in Pixels : Scanned(p)' => Scanned(p) \/ p = Cur
  BY AdvanceScans DEF Cur
<1>4. /\ \/ r' = r /\ c' = c + 1 /\ pc' = "scan"
         \/ r' = r + 1 /\ c' = 0 /\ pc' \in {"scan", "label"}
      /\ pc' = "label" => r' = NRows
  BY <1>1 DEF Advance
<1>. QED BY <1>2, <1>3, <1>4

\* The present pixel is not scanned yet.
LEMMA CurIs ==
  ASSUME IInv, Scanning
  PROVE  Cur \in Pixels /\ ~Scanned(Cur) /\ Cur \notin Before
<1>1. /\ r \in 0 .. NRows - 1 /\ c \in 0 .. NCols - 1
      /\ NRows \in Nat \ {0} /\ NCols \in Nat \ {0}
  BY ImageAssumption DEF IInv, TypeOK, Phases
<1>2. Cur \in Pixels
  BY <1>1 DEF Pixels, Cur
<1>3. ~Scanned(Cur)
  BY <1>1 DEF Scanned, Cur
<1>. QED BY <1>2, <1>3 DEF Before

\* Its neighbours among the pixels before it are those above and to the left.
LEMMA Around ==
  ASSUME IInv, ImageInv, Scanning
  PROVE  /\ Above \in Nat /\ Left \in Nat
         /\ Above > 0 => \E y \in Before : Beside(Cur, y) /\ image[y] = Above
         /\ Left > 0 => \E y \in Before : Beside(Cur, y) /\ image[y] = Left
         /\ \A y \in Before : Beside(Cur, y) =>
               (Above > 0 /\ image[y] = Above) \/ (Left > 0 /\ image[y] = Left)
         /\ \A y \in Before : image[y] \in 1 .. run_number
<1>1. /\ r \in 0 .. NRows - 1 /\ c \in 0 .. NCols - 1
      /\ NRows \in Nat \ {0} /\ NCols \in Nat \ {0}
  BY ImageAssumption DEF IInv, TypeOK, Phases
<1>2. pc # "done"
  BY DEF Scanning
<1>3. \A y \in Before : image[y] \in 1 .. run_number /\ y \in Pixels /\ Scanned(y)
  BY <1>2, Types DEF ImageInv, Before
<1>4. \A y \in Pixels : image[y] \in Nat /\ (Scanned(y) /\ image[y] > 0 => y \in Before)
  BY <1>2, Types DEF ImageInv, Before
<1>5. ASSUME r > 0 PROVE /\ <<r - 1, c>> \in Pixels /\ Scanned(<<r - 1, c>>)
                         /\ Beside(Cur, <<r - 1, c>>)
  <2>1. <<r - 1, c>> \in Pixels /\ Scanned(<<r - 1, c>>)
    BY <1>1, <1>5 DEF Pixels, Scanned
  <2>2. r - (r - 1) = 1
    BY <1>1
  <2>. QED BY <2>1, <2>2 DEF Beside, Cur
<1>6. ASSUME c > 0 PROVE /\ <<r, c - 1>> \in Pixels /\ Scanned(<<r, c - 1>>)
                         /\ Beside(Cur, <<r, c - 1>>)
  <2>1. <<r, c - 1>> \in Pixels /\ Scanned(<<r, c - 1>>)
    BY <1>1, <1>6 DEF Pixels, Scanned
  <2>2. c - (c - 1) = 1
    BY <1>1
  <2>. QED BY <2>1, <2>2 DEF Beside, Cur
<1>7. Above \in Nat /\ (Above > 0 => \E y \in Before : Beside(Cur, y) /\ image[y] = Above)
  <2>1. CASE r > 0
    <3>1. Above = image[<<r - 1, c>>]
      BY <2>1 DEF Above
    <3>. QED BY <1>4, <1>5, <2>1, <3>1
  <2>2. CASE ~(r > 0)
    BY <2>2 DEF Above
  <2>. QED BY <2>1, <2>2
<1>8. Left \in Nat /\ (Left > 0 => \E y \in Before : Beside(Cur, y) /\ image[y] = Left)
  <2>1. CASE c > 0
    <3>1. Left = image[<<r, c - 1>>]
      BY <2>1 DEF Left
    <3>. QED BY <1>4, <1>6, <2>1, <3>1
  <2>2. CASE ~(c > 0)
    BY <2>2 DEF Left
  <2>. QED BY <2>1, <2>2
<1>9. ASSUME NEW y \in Before, Beside(Cur, y)
      PROVE  (Above > 0 /\ image[y] = Above) \/ (Left > 0 /\ image[y] = Left)
  <2>1. PICK a \in 0 .. NRows - 1, b \in 0 .. NCols - 1 : y = <<a, b>>
    BY <1>3 DEF Pixels
  <2>2. a < r \/ (a = r /\ b < c)
    BY <1>3, <2>1 DEF Scanned
  <2>3. (r = a /\ c - b \in {-1, 1}) \/ (c = b /\ r - a \in {-1, 1})
    BY <1>9, <2>1 DEF Beside, Cur
  <2>4. (r > 0 /\ a = r - 1 /\ b = c) \/ (c > 0 /\ a = r /\ b = c - 1)
    BY <1>1, <2>1, <2>2, <2>3
  <2>5. (r > 0 /\ y = <<r - 1, c>>) \/ (c > 0 /\ y = <<r, c - 1>>)
    BY <2>1, <2>4
  <2>6. image[y] \in Nat /\ image[y] > 0
    <3>1. run_number \in Nat /\ image[y] \in 1 .. run_number
      BY <1>3, Types
    <3>. QED BY <3>1
  <2>. QED BY <2>5, <2>6 DEF Above, Left
<1>. QED BY <1>3, <1>7, <1>8, <1>9

\* R2 is R with the trees of the runs above and to the left joined, and run n
\* in that tree.
Joins(R, R2, n) ==
  /\ \A i, j \in 1 .. run_number : R[i] = R[j] => R2[i] = R2[j]
  /\ Above > 0 => R2[Above] = R2[n]
  /\ Left > 0 => R2[Left] = R2[n]
  /\ \A i, j \in 1 .. run_number : R2[i] = R2[j] =>
        \/ R[i] = R[j]
        \/ /\ Above > 0 /\ Left > 0
           /\ R[i] \in {R[Above], R[Left]} /\ R[j] \in {R[Above], R[Left]}
  /\ \A i \in 1 .. run_number : R2[i] = R2[n] =>
        (Above > 0 /\ R[i] = R[Above]) \/ (Left > 0 /\ R[i] = R[Left])

\* The pixel joins the trees of the runs above and to the left.
LEMMA PixelJoins ==
  ASSUME IInv, ImageInv, Scanning, NEW R, NEW R2, NEW n, BeforeHas(R), Joins(R, R2, n)
  PROVE  WithCur(R2, n)
<1>. DEFINE f == [p \in Before |-> R[image[p]]]
            g == [p \in Before \cup {Cur} |-> R2[IF p = Cur THEN n ELSE image[p]]]
<1>1. Before \in SUBSET Pixels /\ Cur \in Pixels \ Before
  BY Types, CurIs
<1>2. /\ \A p \in Before : f[p] = R[image[p]] /\ g[p] = R2[image[p]]
      /\ g[Cur] = R2[n]
  BY <1>1
<1>3. Labels(Before, f)
  BY DEF BeforeHas
<1>. HIDE DEF f, g
<1>4. \A p \in Before : image[p] \in 1 .. run_number
  BY Around
<1>5. \A p, q \in Before : f[p] = f[q] => g[p] = g[q]
  BY <1>2, <1>4 DEF Joins
<1>6. \A y \in Before : Beside(Cur, y) => g[y] = g[Cur]
  BY <1>2, Around DEF Joins
<1>7. ASSUME NEW p \in Before, Above > 0, f[p] = R[Above]
      PROVE  \E y \in Before : Beside(Cur, y) /\ f[p] = f[y]
  BY <1>2, <1>7, Around
<1>8. ASSUME NEW p \in Before, Left > 0, f[p] = R[Left]
      PROVE  \E y \in Before : Beside(Cur, y) /\ f[p] = f[y]
  BY <1>2, <1>8, Around
<1>9. ASSUME NEW p \in Before, NEW q \in Before, g[p] = g[q], f[p] # f[q]
      PROVE  \E y, z \in Before :
                Beside(Cur, y) /\ Beside(Cur, z) /\ f[p] = f[y] /\ f[q] = f[z]
  <2>1. /\ Above > 0 /\ Left > 0
        /\ f[p] \in {R[Above], R[Left]} /\ f[q] \in {R[Above], R[Left]}
    BY <1>2, <1>4, <1>9 DEF Joins
  <2>2. \E y \in Before : Beside(Cur, y) /\ f[p] = f[y]
    BY <1>7, <1>8, <2>1
  <2>3. \E z \in Before : Beside(Cur, z) /\ f[q] = f[z]
    BY <1>7, <1>8, <2>1
  <2>. QED BY <2>2, <2>3
<1>10. ASSUME NEW p \in Before, g[p] = g[Cur]
       PROVE  \E y \in Before : Beside(Cur, y) /\ f[p] = f[y]
  BY <1>2, <1>4, <1>7, <1>8, <1>10 DEF Joins
<1>11. Adds(Before, Cur, f, g)
  BY <1>5, <1>6, <1>9, <1>10 DEF Adds
<1>12. Labels(Before \cup {Cur}, g)
  BY <1>1, <1>3, <1>11, AddPixel
<1>. QED BY <1>12 DEF g, WithCur

\* What depends on the image and the place of the scan only.
LEMMA SameScan ==
  ASSUME UNCHANGED <<arguments, scan>>
  PROVE  /\ Cur' = Cur /\ Before' = Before /\ Foreground' = Foreground
         /\ Above' = Above /\ Left' = Left
         /\ \A p : Scanned(p)' = Scanned(p)
BY DEF arguments, scan, Cur, Before, Foreground, Above, Left, Scanned

\* The invariant holds at first,
LEMMA InitCInv == Init => CInv
<1>. SUFFICES ASSUME Init PROVE CInv
  OBVIOUS
<1>1. IInv
  BY InitInv
<1>2. /\ pc = "scan" /\ run_number = 0 /\ image = input /\ r = 0 /\ c = 0 /\ k = 0
      /\ parents[0] = 0 /\ lengths[0] = 0
  <2>1. 2 * NRows \in Nat \ {0} /\ max_runs = 2 * NRows
    BY ImageAssumption DEF Init
  <2>2. 0 \in 0 .. max_runs - 1
    BY <2>1
  <2>. QED BY <2>2 DEF Init, Zeros
<1>3. Before = {} /\ ~Pending /\ Seen = {}
  BY <1>2, ImageAssumption DEF Before, Foreground, Pixels, Scanned, Pending, Seen
<1>4. ImageInv
  BY <1>2, <1>3, ImageAssumption DEF ImageInv, Scanned, Pixels
<1>5. RunInv
  <2>1. Left = 0
    BY <1>2 DEF Left
  <2>. QED BY <1>2, <1>3, <2>1 DEF RunInv
<1>6. MaskInv
  BY <1>2 DEF MaskInv
<1>7. TreeInv
  <2>. DEFINE R == [i \in 0 .. run_number |-> 0]
  <2>1. R \in [0 .. run_number -> 0 .. run_number] /\ Roots(R)
    BY <1>2 DEF Roots
  <2>2. Labels(Seen, RootOf(R))
    BY <1>3 DEF Labels
  <2>. HIDE DEF R
  <2>. QED BY <1>2, <2>1, <2>2 DEF TreeInv
<1>8. ResultInv
  BY <1>2 DEF ResultInv, IcebergsFound, LabelsAreComponents
<1>. QED BY <1>1, <1>4, <1>5, <1>6, <1>7, <1>8 DEF CInv

\* Nothing is said of the result before the end.
LEMMA NoResult == pc # "done" => ResultInv
BY DEF ResultInv, IcebergsFound, LabelsAreComponents

\* and each action keeps it: a pixel of the background is passed,
LEMMA BackgroundKeeps ==
  ASSUME CInv, Background
  PROVE  CInv'
<1>. USE DEF CInv
<1>1. /\ pc = "scan" /\ image[Cur] = 0 /\ Advance("scan")
      /\ UNCHANGED <<arguments, image, runs, run1, run2, labels>>
  BY DEF Background, Cur
<1>2. Scanning
  BY <1>1 DEF Scanning
<1>3. /\ \A p \in Pixels : Scanned(p)' <=> Scanned(p) \/ p = Cur
      /\ \/ r' = r /\ c' = c + 1 /\ pc' = "scan"
         \/ r' = r + 1 /\ c' = 0 /\ pc' \in {"scan", "label"}
      /\ pc' = "label" => r' = NRows
  BY <1>1, <1>2, AdvanceIs
<1>4. Cur \in Pixels /\ ~Scanned(Cur)
  BY <1>2, CurIs
<1>5. Cur \notin Foreground /\ Foreground' = Foreground
  <2>1. image[Cur] = input[Cur]
    BY <1>1, <1>4 DEF ImageInv
  <2>2. input[Cur] = 0
    BY <1>1, <2>1
  <2>. QED BY <1>1, <2>2 DEF Foreground, arguments
<1>6. Before' = Before
  BY <1>3, <1>5, Types DEF Before
<1>7. ~Pending /\ ~Pending' /\ Seen' = Seen /\ pc # "done" /\ pc' # "done"
  BY <1>1, <1>3, <1>6 DEF Pending, Seen
<1>8. Left' = 0
  <2>1. CASE r' = r /\ c' = c + 1
    <3>1. c \in Nat
      BY Types
    <3>2. c' > 0 /\ <<r', c' - 1>> = Cur
      BY <2>1, <3>1 DEF Cur
    <3>. QED BY <1>1, <3>2 DEF Left
  <2>2. CASE c' = 0
    BY <2>2 DEF Left
  <2>. QED BY <1>3, <2>1, <2>2
<1>9. IInv'
  BY <1>1, NextInv DEF Next, Background
<1>10. ImageInv'
  <2>1. ASSUME NEW p \in Pixels
        PROVE  IF Scanned(p)' THEN IF p \in Foreground THEN image[p] \in 1 .. run_number
                                                       ELSE image[p] = 0
               ELSE image[p] = input[p]
    BY <1>1, <1>3, <1>5, <1>7 DEF ImageInv
  <2>. QED BY <1>1, <1>3, <1>5, <1>7, <2>1 DEF ImageInv, arguments, runs
<1>11. RunInv'
  BY <1>1, <1>6, <1>7, <1>8 DEF RunInv, RunPixels, Number, runs
<1>12. MaskInv'
  BY <1>1, <1>6, <1>7 DEF MaskInv, runs, arguments
<1>13. TreeInv'
  <2>1. PICK R \in [0 .. run_number -> 0 .. run_number] : Roots(R) /\ Labels(Seen, RootOf(R))
    BY <1>1, <1>7 DEF TreeInv
  <2>2. Roots(R)' /\ RootOf(R)' = RootOf(R) /\ run_number' = run_number
    BY <1>1, <1>7, <2>1 DEF Roots, RootOf, Number, runs, labels
  <2>3. k' = 0
    BY <1>1, <1>2 DEF IInv, Phases, labels
  <2>4. Labelled(R)'
    BY <2>3 DEF Labelled
  <2>5. ~(pc' \in {"union", "climb"})
    BY <1>3
  <2>. QED BY <1>7, <2>1, <2>2, <2>4, <2>5 DEF TreeInv
<1>. QED BY <1>7, <1>9, <1>10, <1>11, <1>12, <1>13, NoResult DEF ResultInv, IcebergsFound, LabelsAreComponents

\* The present pixel of a run that is pending has its number.
LEMMA SeenIs ==
  ASSUME IInv, Scanning
  PROVE  /\ Pending => Seen = Before \cup {Cur}
         /\ ~Pending => Seen = Before
         /\ Pending =>
               Number = [p \in Before \cup {Cur} |-> IF p = Cur THEN run_number ELSE image[p]]
         /\ ~Pending => Number = [p \in Before |-> image[p]]
BY DEF Seen, Number

\* a pixel goes on with the run to its left,
LEMMA ContinueRunKeeps ==
  ASSUME CInv, ContinueRun
  PROVE  CInv'
<1>. USE DEF CInv
<1>1. /\ pc = "scan" /\ image[Cur] > 0 /\ Left > 0
      /\ lengths' = [lengths EXCEPT ![run_number] = @ + 1]
      /\ pc' = IF Above > 0 THEN "union" ELSE "record"
      /\ run1' = Above /\ run2' = run_number
      /\ UNCHANGED <<arguments, scan, run_number, max_runs, parents, first, mask, labels>>
  BY DEF ContinueRun, Cur
<1>2. /\ Scanning /\ Scanning' /\ ~Pending /\ Pending' /\ pc # "done" /\ pc' # "done"
      /\ pc' # "label" /\ pc' # "scan"
  BY <1>1 DEF Scanning, Pending
<1>3. /\ Cur' = Cur /\ Before' = Before /\ Foreground' = Foreground
      /\ Above' = Above /\ Left' = Left /\ image' = image /\ input' = input
      /\ \A p : Scanned(p)' = Scanned(p)
  BY <1>1, SameScan DEF scan, arguments
<1>4. Cur \in Pixels /\ ~Scanned(Cur) /\ Cur \notin Before
  BY <1>2, CurIs
<1>5. Cur \in Foreground
  <2>1. image[Cur] = input[Cur]
    BY <1>2, <1>4 DEF ImageInv
  <2>. QED BY <1>1, <1>4, <2>1 DEF Foreground
<1>6. /\ Left = run_number /\ run_number \in Nat /\ run_number >= 1
      /\ first[run_number][1] = r /\ first[run_number][2] + lengths[run_number] = c
  <2>1. /\ Left = run_number
        /\ first[run_number][1] = r /\ first[run_number][2] + lengths[run_number] = c
    BY <1>1, <1>2 DEF RunInv
  <2>2. run_number \in Nat
    BY Types
  <2>. QED BY <1>1, <2>1, <2>2
<1>7. IInv'
  BY <1>1, NextInv DEF Next, ContinueRun
<1>8. /\ Seen = Before /\ Seen' = Before \cup {Cur}
      /\ Number = [p \in Before |-> image[p]]
      /\ Number' = [p \in Before \cup {Cur} |-> IF p = Cur THEN run_number ELSE image[p]]
  BY <1>1, <1>2, <1>3 DEF Seen, Number
<1>9. ImageInv'
  BY <1>1, <1>2, <1>3, <1>5, <1>6 DEF ImageInv, scan
<1>10. /\ lengths'[run_number] = lengths[run_number] + 1
       /\ \A i \in 0 .. run_number : i # run_number => lengths'[i] = lengths[i]
       /\ lengths[run_number] \in Nat /\ first' = first
  <2>1. /\ lengths \in [0 .. max_runs - 1 -> Nat]
        /\ \A i \in 0 .. run_number : i \in 0 .. max_runs - 1
    BY Types DEF IInv, TypeOK
  <2>. QED BY <1>1, <1>6, <2>1
<1>11. RunInv'
  <2>1. lengths'[0] = 0
    BY <1>2, <1>6, <1>10 DEF RunInv
  <2>2. ASSUME NEW i \in 1 .. run_number PROVE RunPixels(i)' = {p \in Before \cup {Cur} : Number'[p] = i}
    <3>1. RunPixels(i) = {p \in Before : image[p] = i}
      BY <1>2, <1>8 DEF RunInv
    <3>2. CASE i # run_number
      <4>1. RunPixels(i)' = RunPixels(i)
        BY <1>6, <1>10, <3>2 DEF RunPixels
      <4>. QED BY <1>4, <1>8, <3>1, <3>2, <4>1
    <3>3. CASE i = run_number
      <4>1. RunPixels(i)' = {<<first[i][1], first[i][2] + j>> : j \in 0 .. lengths[i] + 1 - 1}
        BY <1>10, <3>3 DEF RunPixels
      <4>2. lengths[i] \in Nat
        BY <1>10, <3>3
      <4>3. \A j : j \in 0 .. lengths[i] + 1 - 1 <=> j \in 0 .. lengths[i] - 1 \/ j = lengths[i]
        BY <4>2
      <4>4. RunPixels(i)' = RunPixels(i) \cup {<<first[i][1], first[i][2] + lengths[i]>>}
        BY <4>1, <4>3 DEF RunPixels
      <4>5. <<first[i][1], first[i][2] + lengths[i]>> = Cur
        BY <1>6, <3>3 DEF Cur
      <4>. QED BY <1>4, <1>8, <3>1, <3>3, <4>4, <4>5
    <3>. QED BY <3>2, <3>3
  <2>3. first'[run_number'][1] = r' /\ first'[run_number'][2] + lengths'[run_number'] = c' + 1
    <3>1. /\ first[run_number][2] \in Nat /\ r' = r /\ c' = c /\ run_number' = run_number
          /\ c = first[run_number][2] + lengths[run_number]
          /\ lengths[run_number] \in Nat
      BY <1>1, <1>6, <1>10, Types DEF scan
    <3>2. \A x, y \in Nat : x + (y + 1) = (x + y) + 1
      OBVIOUS
    <3>. QED BY <1>6, <1>10, <3>1, <3>2
  <2>. QED BY <1>1, <1>2, <1>3, <1>6, <1>8, <2>1, <2>2, <2>3 DEF RunInv
<1>12. MaskInv'
  BY <1>1, <1>2, <1>3 DEF MaskInv
<1>13. TreeInv'
  <2>1. PICK R \in [0 .. run_number -> 0 .. run_number] : Roots(R) /\ Labels(Seen, RootOf(R))
    BY <1>1 DEF TreeInv
  <2>2. Roots(R)' /\ run_number' = run_number
    BY <1>1, <2>1 DEF Roots, labels
  <2>3. RootOf(R) = [p \in Before |-> R[image[p]]]
    BY <1>8 DEF RootOf
  <2>4. CASE Above > 0
    <3>1. BeforeHas(R)'
      BY <1>3, <1>8, <2>1, <2>3 DEF BeforeHas
    <3>2. Joining(R)'
      BY <1>1, <1>3, <2>4, <3>1 DEF Joining
    <3>. QED BY <1>1, <1>2, <2>1, <2>2, <2>4, <3>2 DEF TreeInv
  <2>5. CASE ~(Above > 0)
    <3>1. WithCur(R, run_number)
      <4>1. BeforeHas(R)
        BY <1>8, <2>1, <2>3 DEF BeforeHas
      <4>2. Joins(R, R, run_number)
        BY <1>1, <1>6, <2>5 DEF Joins
      <4>. QED BY <1>2, <4>1, <4>2, PixelJoins
    <3>2. RootOf(R)' = [p \in Before \cup {Cur} |-> R[IF p = Cur THEN run_number ELSE image[p]]]
      BY <1>4, <1>8 DEF RootOf
    <3>3. pc' = "record"
      BY <1>1, <2>5
    <3>. QED BY <1>2, <1>8, <2>1, <2>2, <3>1, <3>2, <3>3 DEF TreeInv, WithCur
  <2>. QED BY <2>4, <2>5
<1>. QED BY <1>2, <1>7, <1>9, <1>11, <1>12, <1>13 DEF ResultInv, IcebergsFound, LabelsAreComponents

\* What a vector holds that was resized for one more element.
Extends(f, v, n, x) == f[n] = x /\ \A i \in 0 .. n - 1 : f[i] = v[i]

\* Stored() makes such a vector.
LEMMA StoredIs ==
  ASSUME NEW v, NEW size \in Nat, NEW n \in Nat, NEW x, NEW default, max_runs \in Nat,
         n < size, n <= max_runs
  PROVE  Extends(Stored(v, size, n, x, default), v, n, x)
<1>1. n \in 0 .. size - 1 /\ \A i \in 0 .. n - 1 : i \in 0 .. size - 1 /\ i # n /\ i < max_runs
  OBVIOUS
<1>. QED BY <1>1 DEF Stored, Extends

\* or starts a run, whose parent is the run above,
LEMMA NewRunKeeps ==
  ASSUME CInv, NewRun
  PROVE  CInv'
<1>. USE DEF CInv
<1>. PICK n, size : n = run_number + 1 /\ size = Size(n)
  OBVIOUS
<1>1. /\ pc = "scan" /\ image[Cur] > 0 /\ Left = 0
      /\ run_number' = n /\ max_runs' = size
      /\ first'   = Stored(first, size, n, <<r, c>>, <<0, 0>>)
      /\ lengths' = Stored(lengths, size, n, 1, 0)
      /\ parents' = Stored(parents, size, n, Above, 0)
      /\ mask'    = Stored(mask, size, n, 0, 0)
      /\ run1' = Above /\ run2' = n
      /\ pc' = IF Above > 0 THEN "union" ELSE "record"
      /\ UNCHANGED <<arguments, scan, labels>>
  BY DEF NewRun, Cur
<1>2. /\ Scanning /\ Scanning' /\ ~Pending /\ Pending' /\ pc # "done" /\ pc' # "done"
      /\ pc' # "label" /\ pc' # "scan"
  BY <1>1 DEF Scanning, Pending
<1>3. /\ Cur' = Cur /\ Before' = Before /\ Foreground' = Foreground
      /\ Above' = Above /\ Left' = Left /\ image' = image /\ input' = input
      /\ r' = r /\ c' = c /\ k' = 0 /\ k = 0
      /\ \A p : Scanned(p)' = Scanned(p)
  BY <1>1, <1>2, SameScan DEF scan, arguments, labels, IInv, Phases
<1>4. Cur \in Pixels /\ ~Scanned(Cur) /\ Cur \notin Before
  BY <1>2, CurIs
<1>5. Cur \in Foreground
  <2>1. image[Cur] = input[Cur]
    BY <1>2, <1>4 DEF ImageInv
  <2>. QED BY <1>1, <1>4, <2>1 DEF Foreground
<1>6. /\ run_number \in Nat /\ n \in Nat /\ n >= 1 /\ size \in Nat /\ n < size
      /\ n <= max_runs /\ max_runs \in Nat /\ n - 1 = run_number
      /\ Above \in 0 .. run_number /\ c \in Nat
  <2>1. run_number \in Nat /\ max_runs \in Nat /\ run_number < max_runs /\ c \in Nat
    BY Types
  <2>2. Above \in 0 .. run_number
    BY <1>2, AboveIsRun
  <2>3. size \in Nat /\ n < size
    BY <2>1, ImageAssumption DEF Size
  <2>. QED BY <2>1, <2>2, <2>3
<1>7. /\ first'[n] = <<r, c>> /\ lengths'[n] = 1 /\ parents'[n] = Above /\ mask'[n] = 0
      /\ \A i \in 0 .. run_number : /\ first'[i] = first[i] /\ lengths'[i] = lengths[i]
                                    /\ parents'[i] = parents[i] /\ mask'[i] = mask[i]
  <2>1. /\ Extends(first', first, n, <<r, c>>) /\ Extends(lengths', lengths, n, 1)
        /\ Extends(parents', parents, n, Above) /\ Extends(mask', mask, n, 0)
    BY <1>1, <1>6, StoredIs
  <2>. QED BY <1>6, <2>1 DEF Extends
<1>8. /\ \A i \in 0 .. run_number : i \in 0 .. n /\ i # n
      /\ \A i \in 1 .. run_number : i \in 0 .. run_number
  BY <1>6
<1>9. /\ Seen = Before /\ Seen' = Before \cup {Cur}
      /\ Number = [p \in Before |-> image[p]]
      /\ Number' = [p \in Before \cup {Cur} |-> IF p = Cur THEN n ELSE image[p]]
  BY <1>1, <1>2, <1>3 DEF Seen, Number
<1>10. \A p \in Before : image[p] \in 1 .. run_number /\ image[p] # n
  <2>1. \A p \in Before : image[p] \in 1 .. run_number
    BY <1>2, Around
  <2>. QED BY <1>6, <2>1
<1>11. IInv'
  BY <1>1, NextInv DEF Next, NewRun
<1>12. ImageInv'
  <2>1. \A i \in 1 .. run_number : i \in 1 .. n
    BY <1>6
  <2>. QED BY <1>1, <1>2, <1>3, <1>5, <1>6, <2>1 DEF ImageInv
<1>13. RunInv'
  <2>1. lengths'[0] = 0
    BY <1>2, <1>6, <1>7 DEF RunInv
  <2>2. ASSUME NEW i \in 1 .. n PROVE RunPixels(i)' = {p \in Before \cup {Cur} : Number'[p] = i}
    <3>1. CASE i # n
      <4>1. i \in 1 .. run_number /\ i \in 0 .. run_number
        BY <1>6, <3>1
      <4>2. RunPixels(i) = {p \in Before : image[p] = i}
        BY <1>2, <1>9, <4>1 DEF RunInv
      <4>3. RunPixels(i)' = RunPixels(i)
        BY <1>7, <4>1 DEF RunPixels
      <4>. QED BY <1>4, <1>9, <3>1, <4>2, <4>3
    <3>2. CASE i = n
      <4>1. RunPixels(i)' = {<<r, c + j>> : j \in 0 .. 0}
        BY <1>7, <3>2 DEF RunPixels
      <4>2. c + 0 = c /\ \A j : j \in 0 .. 0 <=> j = 0
        BY <1>6
      <4>3. RunPixels(i)' = {Cur}
        BY <4>1, <4>2 DEF Cur
      <4>. QED BY <1>4, <1>9, <1>10, <3>2, <4>3
    <3>. QED BY <3>1, <3>2
  <2>3. first'[run_number'][1] = r' /\ first'[run_number'][2] + lengths'[run_number'] = c' + 1
    BY <1>1, <1>3, <1>7
  <2>4. ~(Left' > 0) /\ run_number' = n
    BY <1>1, <1>3
  <2>. QED BY <1>2, <1>9, <2>1, <2>2, <2>3, <2>4 DEF RunInv
<1>14. MaskInv'
  <2>. SUFFICES ASSUME NEW i \in 1 .. n
                PROVE  mask'[i] = 1 <=> \E p \in Before : image[p] = i /\ input[p] = MaskGrounded
    BY <1>1, <1>2, <1>3 DEF MaskInv
  <2>1. CASE i = n
    BY <1>7, <1>10, <2>1
  <2>2. CASE i # n
    <3>1. i \in 1 .. run_number /\ i \in 0 .. run_number
      BY <1>6, <2>2
    <3>. QED BY <1>2, <1>7, <3>1 DEF MaskInv
  <2>. QED BY <2>1, <2>2
<1>15. TreeInv'
  <2>1. PICK R \in [0 .. run_number -> 0 .. run_number] : Roots(R) /\ Labels(Seen, RootOf(R))
    BY <1>1 DEF TreeInv
  <2>. PICK R2 : R2 = [i \in 0 .. n |-> IF i = n THEN IF Above > 0 THEN R[Above] ELSE n ELSE R[i]]
    OBVIOUS
  <2>2. /\ R2[n] = IF Above > 0 THEN R[Above] ELSE n
        /\ \A i \in 0 .. run_number : R2[i] = R[i] /\ i # n
    BY <1>6
  <2>3. /\ \A i \in 1 .. run_number : R[i] \in 1 .. i /\ R[R[i]] = R[i]
        /\ \A i \in 0 .. run_number : R[i] = IF parents[i] = 0 THEN i ELSE R[parents[i]]
        /\ R[0] = 0
    BY <1>3, <2>1 DEF Roots
  <2>4. \A i \in 0 .. run_number : R[i] \in 0 .. run_number /\ R[i] \in 0 .. n
    BY <1>6, <2>1
  <2>5. R2 \in [0 .. n -> 0 .. n]
    BY <1>6, <2>4
  <2>6. ASSUME NEW i \in 1 .. n PROVE R2[i] \in 1 .. i /\ R2[R2[i]] = R2[i]
    <3>1. CASE i # n
      <4>1. i \in 1 .. run_number /\ i \in 0 .. run_number
        BY <1>6, <3>1
      <4>. QED BY <2>2, <2>3, <2>4, <4>1
    <3>2. CASE i = n /\ Above > 0
      <4>1. Above \in 1 .. run_number /\ Above \in 0 .. run_number
        BY <1>6, <3>2
      <4>2. R2[i] = R[Above] /\ R[Above] \in 1 .. Above /\ R[Above] \in 0 .. run_number
        BY <2>2, <2>3, <2>4, <3>2, <4>1
      <4>3. R[Above] \in 1 .. i
        BY <1>6, <3>2, <4>1, <4>2
      <4>. QED BY <2>2, <2>3, <4>1, <4>2, <4>3
    <3>3. CASE i = n /\ ~(Above > 0)
      BY <1>6, <2>2, <3>3
    <3>. QED BY <3>1, <3>2, <3>3
  <2>7. ASSUME NEW i \in 0 .. n PROVE R2[i] = IF parents'[i] = 0 THEN i ELSE R2[parents'[i]]
    <3>1. CASE i # n
      <4>1. i \in 0 .. run_number
        BY <1>6, <3>1
      <4>2. parents[i] \in 0 .. run_number
        BY <1>2, <4>1, ParentIsRun
      <4>3. parents'[i] = parents[i] /\ R2[i] = R[i] /\ R2[parents[i]] = R[parents[i]]
        BY <1>7, <2>2, <4>1, <4>2
      <4>. QED BY <2>3, <4>1, <4>3
    <3>2. CASE i = n
      <4>1. parents'[i] = Above
        BY <1>7, <3>2
      <4>2. Above > 0 <=> Above # 0
        BY <1>6
      <4>3. Above # 0 => R2[Above] = R[Above]
        BY <1>6, <2>2
      <4>. QED BY <2>2, <3>2, <4>1, <4>2, <4>3
    <3>. QED BY <3>1, <3>2
  <2>8. R2[0] = 0
    BY <1>6, <2>2, <2>3
  <2>9. Roots(R2)'
    BY <1>1, <1>3, <2>5, <2>6, <2>7, <2>8 DEF Roots
  <2>10. BeforeHas(R)
    <3>1. RootOf(R) = [p \in Before |-> R[image[p]]]
      BY <1>9 DEF RootOf
    <3>. QED BY <1>9, <2>1, <3>1 DEF BeforeHas
  <2>11. CASE Above > 0
    <3>1. BeforeHas(R2)'
      <4>1. \A p \in Before : image[p] \in 0 .. run_number
        BY <1>10
      <4>2. \A p \in Before : R2[image[p]] = R[image[p]]
        BY <2>2, <4>1
      <4>3. [p \in Before |-> R2[image[p]]] = [p \in Before |-> R[image[p]]]
        BY <4>2
      <4>. QED BY <1>3, <2>10, <4>3 DEF BeforeHas
    <3>2. R2[n] = R2[Above]
      BY <1>6, <2>2, <2>11
    <3>3. Joining(R2)'
      BY <1>1, <1>3, <2>10, <2>11, <3>1, <3>2 DEF Joining
    <3>. QED BY <1>1, <1>2, <2>5, <2>9, <2>11, <3>3 DEF TreeInv
  <2>12. CASE ~(Above > 0)
    <3>1. WithCur(R2, n)
      <4>1. \A i \in 1 .. run_number : R2[i] = R[i]
        BY <1>8, <2>2
      <4>2. \A i \in 1 .. run_number : R2[i] # R2[n]
        <5>1. R2[n] = n
          BY <2>2, <2>12
        <5>2. \A i \in 1 .. run_number : R2[i] \in 0 .. run_number
          BY <1>8, <2>2, <2>4
        <5>. QED BY <1>6, <5>1, <5>2
      <4>3. ~(Left > 0)
        BY <1>1
      <4>4. Joins(R, R2, n)
        BY <2>12, <4>1, <4>2, <4>3 DEF Joins
      <4>. QED BY <1>2, <2>10, <4>4, PixelJoins
    <3>2. RootOf(R2)' = [p \in Before \cup {Cur} |-> R2[IF p = Cur THEN n ELSE image[p]]]
      BY <1>4, <1>9 DEF RootOf
    <3>3. pc' = "record"
      BY <1>1, <2>12
    <3>. QED BY <1>1, <1>2, <1>9, <2>5, <2>9, <3>1, <3>2, <3>3 DEF TreeInv, WithCur
  <2>. QED BY <2>11, <2>12
<1>. QED BY <1>2, <1>11, <1>12, <1>13, <1>14, <1>15 DEF ResultInv, IcebergsFound, LabelsAreComponents
-----------------------------------------------------------------------------
\* In run_union() the pixel waits with the same number.
Waiting ==
  /\ pc \in {"union", "climb"} /\ pc' \in {"climb", "record"}
  /\ UNCHANGED <<arguments, scan, run_number, max_runs, first, lengths, mask, labels>>

\* Only the trees and where run_union() is in them change.
LEMMA WaitingKeeps ==
  ASSUME CInv, Waiting
  PROVE  /\ ImageInv' /\ RunInv' /\ MaskInv' /\ ResultInv'
         /\ Scanning /\ Seen' = Before \cup {Cur}
         /\ Number' = [p \in Before \cup {Cur} |-> IF p = Cur THEN run_number ELSE image[p]]
         /\ Cur' = Cur /\ Before' = Before /\ Above' = Above /\ Left' = Left /\ image' = image
         /\ k = 0 /\ k' = 0 /\ run_number' = run_number
         /\ run_number \in Nat /\ run_number \in 1 .. run_number
         /\ Left > 0 => Left = run_number
<1>. USE DEF CInv, Waiting
<1>1. /\ Scanning /\ Pending /\ Pending' /\ pc # "done" /\ pc' # "done"
      /\ pc' # "label" /\ pc' # "scan" /\ pc # "scan"
      /\ pc' \in {"scan", "union", "climb", "record"}
  BY DEF Scanning, Pending
<1>2. /\ Cur' = Cur /\ Before' = Before /\ Foreground' = Foreground
      /\ Above' = Above /\ Left' = Left /\ image' = image /\ input' = input
      /\ r' = r /\ c' = c /\ k' = 0 /\ k = 0 /\ run_number' = run_number
      /\ \A p : Scanned(p)' = Scanned(p)
  BY <1>1, SameScan DEF scan, arguments, labels, IInv, Phases
<1>3. Seen = Before \cup {Cur} /\ Seen' = Seen /\ Number' = Number
      /\ Number = [p \in Before \cup {Cur} |-> IF p = Cur THEN run_number ELSE image[p]]
  BY <1>1, <1>2 DEF Seen, Number
<1>4. ImageInv'
  BY <1>1, <1>2 DEF ImageInv
<1>5. RunInv'
  <2>1. \A i : RunPixels(i)' = RunPixels(i)
    BY DEF RunPixels
  <2>. QED BY <1>1, <1>2, <1>3, <2>1 DEF RunInv
<1>6. MaskInv'
  BY <1>1, <1>2 DEF MaskInv
<1>7. ResultInv'
  BY <1>1 DEF ResultInv, IcebergsFound, LabelsAreComponents
<1>8. run_number \in Nat /\ run_number \in 1 .. run_number
  <2>1. run_number \in Nat /\ run_number >= 1
    BY <1>1, Types DEF ImageInv
  <2>. QED BY <2>1
<1>9. Left > 0 => Left = run_number
  BY <1>1 DEF RunInv
<1>. QED BY <1>1, <1>2, <1>3, <1>4, <1>5, <1>6, <1>7, <1>8, <1>9

\* When run_union() ends, the pixel may be recorded if its run is in the tree of
\* the run above.
LEMMA WaitingEnds ==
  ASSUME CInv, Waiting, pc' = "record",
         NEW R \in [0 .. run_number -> 0 .. run_number], Roots(R)', WithCur(R, run_number)
  PROVE  TreeInv'
<1>1. Seen' = Before \cup {Cur} /\ Before' = Before /\ run_number' = run_number
  BY WaitingKeeps
<1>2. Number' = [p \in Before \cup {Cur} |-> IF p = Cur THEN run_number ELSE image[p]]
  BY WaitingKeeps
<1>3. RootOf(R)' = [p \in Before \cup {Cur} |-> R[IF p = Cur THEN run_number ELSE image[p]]]
  BY <1>1, <1>2 DEF RootOf
<1>. QED BY <1>1, <1>3 DEF TreeInv, WithCur

\* That is so when they have the same root without a link.
LEMMA WaitingJoined ==
  ASSUME CInv, Waiting, pc' = "record", parents' = parents,
         NEW R \in [0 .. run_number -> 0 .. run_number], Roots(R), Joining(R),
         R[Above] = R[run_number]
  PROVE  TreeInv'
<1>1. /\ Scanning /\ run_number' = run_number /\ k' = 0 /\ k = 0
      /\ Left > 0 => Left = run_number
  BY WaitingKeeps
<1>2. Joins(R, R, run_number)
  BY <1>1 DEF Joins, Joining
<1>3. BeforeHas(R) /\ IInv /\ ImageInv
  BY DEF Joining, CInv
<1>4. WithCur(R, run_number)
  BY <1>1, <1>2, <1>3, PixelJoins
<1>5. Roots(R)'
  BY <1>1 DEF Roots
<1>. QED BY <1>4, <1>5, WaitingEnds

\* The two runs whose trees are joined, and what R has for them.
LEMMA JoiningIs ==
  ASSUME CInv, Waiting, NEW R \in [0 .. run_number -> 0 .. run_number],
         Roots(R), Joining(R)
  PROVE  /\ run1 \in 1 .. run_number /\ run2 \in 1 .. run_number
         /\ Above \in 1 .. run_number
         /\ \A i \in 1 .. run_number : R[i] \in 1 .. run_number /\ R[i] # 0
         /\ \A i \in 1 .. run_number : parents[i] \in 0 .. run_number
         /\ \A i \in 1 .. run_number :
               IF parents[i] = 0 THEN R[i] = i ELSE parents[i] \in 1 .. run_number
                                                    /\ R[i] = R[parents[i]]
<1>1. /\ Scanning /\ k = 0 /\ run_number \in Nat /\ run_number \in 1 .. run_number /\ IInv
  BY WaitingKeeps DEF CInv
<1>2. Above \in 1 .. run_number
  <2>1. Above \in 0 .. run_number
    BY <1>1, AboveIsRun
  <2>. QED BY <1>1, <2>1 DEF Joining
<1>3. \A i \in 1 .. run_number : R[i] \in 1 .. run_number /\ R[i] # 0
  <2>1. \A i \in 1 .. run_number : R[i] \in 1 .. i
    BY DEF Roots
  <2>. QED BY <1>1, <2>1
<1>4. run1 \in 0 .. run_number /\ run2 \in 0 .. run_number
  BY DEF CInv, IInv, TypeOK
<1>5. R[run1] # 0 /\ R[run2] # 0
  BY <1>1, <1>2, <1>3 DEF Joining
<1>6. run1 # 0 /\ run2 # 0
  BY <1>5 DEF Roots
<1>7. \A i \in 1 .. run_number : i \in 0 .. run_number /\ i \in k .. run_number
  BY <1>1
<1>8. \A i \in 1 .. run_number : parents[i] \in 0 .. run_number
  BY <1>1, <1>7, ParentIsRun
<1>9. ASSUME NEW i \in 1 .. run_number
      PROVE  IF parents[i] = 0 THEN R[i] = i ELSE parents[i] \in 1 .. run_number
                                                  /\ R[i] = R[parents[i]]
  <2>1. R[i] = IF parents[i] = 0 THEN i ELSE R[parents[i]]
    BY <1>7 DEF Roots
  <2>2. parents[i] # 0 => parents[i] \in 1 .. run_number
    <3>1. \A x \in 0 .. run_number : x # 0 => x \in 1 .. run_number
      BY <1>1
    <3>. QED BY <1>8, <3>1
  <2>. QED BY <2>1, <2>2
<1>10. run1 \in 1 .. run_number /\ run2 \in 1 .. run_number
  BY <1>1, <1>4, <1>6
<1>. QED BY <1>2, <1>3, <1>8, <1>9, <1>10

\* run_union() ends at once when one run is the parent of the other,
LEMMA UnionKeeps ==
  ASSUME CInv, Union
  PROVE  CInv'
<1>1. Waiting
  BY DEF Union, Waiting, runs
<1>2. ImageInv' /\ RunInv' /\ MaskInv' /\ ResultInv'
  BY <1>1, WaitingKeeps
<1>3. IInv'
  BY NextInv DEF Next, CInv
<1>4. PICK R \in [0 .. run_number -> 0 .. run_number] : Roots(R) /\ Joining(R)
  BY DEF CInv, TreeInv, Union
<1>5. parents' = parents /\ run1' = run1 /\ run2' = run2
  BY DEF Union, runs
<1>6. CASE parents[run1] = run2 \/ parents[run2] = run1
  <2>1. R[run1] = R[run2]
    <3>1. /\ run1 \in 1 .. run_number /\ run2 \in 1 .. run_number
          /\ \A i \in 1 .. run_number : parents[i] # 0 => R[i] = R[parents[i]]
      BY <1>1, <1>4, JoiningIs
    <3>2. run1 # 0 /\ run2 # 0
      BY <3>1
    <3>. QED BY <1>6, <3>1, <3>2
  <2>2. R[Above] = R[run_number]
    BY <1>4, <2>1 DEF Joining
  <2>3. pc' = "record"
    BY <1>6 DEF Union
  <2>4. TreeInv'
    BY <1>1, <1>4, <1>5, <2>2, <2>3, WaitingJoined
  <2>. QED BY <1>2, <1>3, <2>4 DEF CInv
<1>7. CASE ~(parents[run1] = run2 \/ parents[run2] = run1)
  <2>1. pc' = "climb"
    BY <1>7 DEF Union
  <2>2. /\ Before' = Before /\ Above' = Above /\ Left' = Left /\ image' = image
        /\ k = 0 /\ k' = 0 /\ run_number' = run_number
    BY <1>1, WaitingKeeps
  <2>3. Roots(R)'
    BY <1>4, <1>5, <2>2 DEF Roots
  <2>4. BeforeHas(R)'
    BY <1>4, <2>2 DEF BeforeHas, Joining
  <2>5. Joining(R)'
    BY <1>4, <1>5, <2>2, <2>4 DEF Joining
  <2>6. TreeInv'
    BY <2>1, <2>2, <2>3, <2>5 DEF TreeInv
  <2>. QED BY <1>2, <1>3, <2>6 DEF CInv
<1>. QED BY <1>6, <1>7

\* and climbs to the roots otherwise,
LEMMA ClimbKeeps ==
  ASSUME CInv, Climb1 \/ Climb2
  PROVE  CInv'
<1>1. Waiting /\ pc' = "climb"
  BY DEF Climb1, Climb2, Waiting, runs
<1>2. ImageInv' /\ RunInv' /\ MaskInv' /\ ResultInv'
  BY <1>1, WaitingKeeps
<1>3. IInv'
  BY NextInv DEF Next, CInv
<1>4. PICK R \in [0 .. run_number -> 0 .. run_number] : Roots(R) /\ Joining(R)
  BY DEF CInv, TreeInv, Climb1, Climb2
<1>5. /\ Before' = Before /\ Above' = Above /\ Left' = Left /\ image' = image
      /\ k = 0 /\ k' = 0 /\ run_number' = run_number
  BY <1>1, WaitingKeeps
<1>6. parents' = parents
  BY DEF Climb1, Climb2, runs
<1>7. R[run1'] = R[run1] /\ R[run2'] = R[run2]
  <2>1. CASE Climb1
    <3>1. parents[run1] # 0 /\ run1' = parents[run1] /\ run2' = run2
      BY <2>1 DEF Climb1
    <3>. QED BY <1>1, <1>4, <3>1, JoiningIs
  <2>2. CASE Climb2
    <3>1. parents[run2] # 0 /\ run2' = parents[run2] /\ run1' = run1
      BY <2>2 DEF Climb2
    <3>. QED BY <1>1, <1>4, <3>1, JoiningIs
  <2>. QED BY <2>1, <2>2
<1>8. Roots(R)'
  BY <1>4, <1>5, <1>6 DEF Roots
<1>9. BeforeHas(R)'
  BY <1>4, <1>5 DEF BeforeHas, Joining
<1>10. Joining(R)'
  BY <1>4, <1>5, <1>7, <1>9 DEF Joining
<1>11. TreeInv'
  BY <1>1, <1>5, <1>8, <1>10 DEF TreeInv
<1>. QED BY <1>2, <1>3, <1>11 DEF CInv

\* One of two roots becomes the child of the smaller one: the runs of its tree
\* have the smaller root.
LEMMA LinkKeeps ==
  ASSUME CInv, Link
  PROVE  CInv'
<1>1. Waiting /\ pc' = "record"
  BY DEF Link, Waiting, runs
<1>2. ImageInv' /\ RunInv' /\ MaskInv' /\ ResultInv'
  BY <1>1, WaitingKeeps
<1>3. IInv'
  BY NextInv DEF Next, CInv
<1>4. PICK R \in [0 .. run_number -> 0 .. run_number] : Roots(R) /\ Joining(R)
  BY DEF CInv, TreeInv, Link
<1>5. /\ Scanning /\ k = 0 /\ k' = 0 /\ run_number' = run_number
      /\ run_number \in Nat /\ run_number \in 1 .. run_number
      /\ Left > 0 => Left = run_number
  BY <1>1, WaitingKeeps
<1>6. /\ run1 \in 1 .. run_number /\ run2 \in 1 .. run_number /\ Above \in 1 .. run_number
      /\ \A i \in 1 .. run_number : R[i] \in 1 .. run_number /\ R[i] # 0
      /\ \A i \in 1 .. run_number : parents[i] \in 0 .. run_number
  BY <1>1, <1>4, JoiningIs
<1>7. R[run1] = run1 /\ R[run2] = run2 /\ R[Above] = run1 /\ R[run_number] = run2
  <2>1. parents[run1] = 0 /\ parents[run2] = 0
    BY DEF Link
  <2>2. R[run1] = run1 /\ R[run2] = run2
    BY <1>1, <1>4, <2>1, JoiningIs
  <2>. QED BY <1>4, <2>2 DEF Joining
<1>8. TreeInv'
  <2>1. CASE run1 = run2
    <3>1. parents' = parents
      BY <1>5, <1>6, <2>1 DEF Link, Linked
    <3>. QED BY <1>1, <1>4, <1>7, <2>1, <3>1, WaitingJoined
  <2>2. CASE run1 # run2
    <3>1. PICK big, small : /\ big \in {run1, run2} /\ small \in {run1, run2} /\ small < big
                            /\ parents' = [parents EXCEPT ![big] = small]
      <4>1. run1 > run2 \/ run1 < run2
        BY <1>5, <1>6, <2>2
      <4>2. CASE run1 > run2
        <5>1. parents' = [parents EXCEPT ![run1] = run2] /\ run2 < run1
          BY <1>6, <4>2 DEF Link, Linked
        <5>. QED BY <5>1
      <4>3. CASE run1 < run2
        <5>1. parents' = [parents EXCEPT ![run2] = run1] /\ ~(run1 > run2)
          BY <1>6, <4>3 DEF Link, Linked
        <5>. QED BY <4>3, <5>1
      <4>. QED BY <4>1, <4>2, <4>3
    <3>2. /\ big \in 1 .. run_number /\ small \in 1 .. run_number /\ big # small
          /\ small # 0 /\ big # 0 /\ R[big] = big /\ R[small] = small
          /\ {big, small} = {run1, run2}
      BY <1>6, <1>7, <2>2, <3>1
    <3>3. \A i \in 0 .. run_number : parents'[i] = IF i = big THEN small ELSE parents[i]
      <4>1. /\ parents \in [0 .. max_runs - 1 -> Nat]
            /\ \A i \in 0 .. run_number : i \in 0 .. max_runs - 1
        BY Types DEF CInv, IInv, TypeOK
      <4>. QED BY <3>1, <4>1
    <3>4. PICK R2 : R2 = [i \in 0 .. run_number |-> IF R[i] = big THEN small ELSE R[i]]
      OBVIOUS
    <3>5. \A i \in 0 .. run_number : R2[i] = IF R[i] = big THEN small ELSE R[i]
      BY <3>4
    <3>6. \A i \in 1 .. run_number : i \in 0 .. run_number
      BY <1>5
    <3>7. R2 \in [0 .. run_number -> 0 .. run_number]
      BY <3>2, <3>4, <3>6
    <3>8. Roots(R2)'
      <4>1. R2[0] = 0
        <5>1. R[0] = 0 /\ 0 \in 0 .. run_number
          BY <1>4, <1>5 DEF Roots
        <5>. QED BY <3>2, <3>5, <5>1
      <4>2. ASSUME NEW i \in 1 .. run_number PROVE R2[i] \in 1 .. i /\ R2[R2[i]] = R2[i]
        <5>1. R[i] \in 1 .. i /\ R[R[i]] = R[i] /\ R[i] \in 1 .. run_number
          BY <1>4, <1>6 DEF Roots
        <5>2. CASE R[i] = big
          <6>1. R2[i] = small /\ R2[small] = small
            BY <3>2, <3>5, <3>6, <5>2
          <6>2. small \in 1 .. i
            BY <1>5, <3>1, <3>2, <5>1, <5>2
          <6>. QED BY <6>1, <6>2
        <5>3. CASE R[i] # big
          <6>1. R2[i] = R[i] /\ R2[R[i]] = R[i]
            BY <3>5, <3>6, <5>1, <5>3
          <6>. QED BY <5>1, <6>1
        <5>. QED BY <5>2, <5>3
      <4>3. ASSUME NEW i \in 0 .. run_number
            PROVE  R2[i] = IF parents'[i] = 0 THEN i ELSE R2[parents'[i]]
        <5>1. R[i] = IF parents[i] = 0 THEN i ELSE R[parents[i]]
          BY <1>4, <1>5 DEF Roots
        <5>2. CASE i = big
          <6>1. parents'[i] = small /\ R2[i] = small /\ R2[small] = small
            BY <3>2, <3>3, <3>5, <3>6, <5>2
          <6>. QED BY <3>2, <6>1
        <5>3. CASE i # big /\ parents[i] = 0
          <6>1. parents'[i] = 0 /\ R2[i] = i
            BY <3>3, <3>5, <5>1, <5>3
          <6>. QED BY <6>1
        <5>4. CASE i # big /\ parents[i] # 0
          <6>1. parents'[i] = parents[i] /\ R[i] = R[parents[i]]
            BY <3>3, <5>1, <5>4
          <6>2. parents[i] \in 0 .. run_number
            BY <1>5, ParentIsRun DEF CInv
          <6>3. R2[i] = R2[parents[i]]
            BY <3>5, <6>1, <6>2
          <6>. QED BY <5>4, <6>1, <6>3
        <5>. QED BY <5>2, <5>3, <5>4
      <4>. QED BY <1>5, <3>7, <4>1, <4>2, <4>3 DEF Roots
    <3>9. Joins(R, R2, run_number)
      <4>1. Left > 0 /\ Left = run_number
        <5>1. Left # 0
          BY <1>4, <1>7, <2>2 DEF Joining
        <5>2. Left \in Nat
          BY <1>5, Around DEF CInv
        <5>. QED BY <1>5, <5>1, <5>2
      <4>2. R2[Above] = small /\ R2[run_number] = small
        BY <1>5, <1>6, <1>7, <3>2, <3>5, <3>6
      <4>3. ASSUME NEW i \in 1 .. run_number, NEW j \in 1 .. run_number, R2[i] = R2[j]
            PROVE  R[i] = R[j] \/ (R[i] \in {big, small} /\ R[j] \in {big, small})
        <5>1. /\ R2[i] = IF R[i] = big THEN small ELSE R[i]
              /\ R2[j] = IF R[j] = big THEN small ELSE R[j]
          BY <3>5, <3>6
        <5>. QED BY <4>3, <5>1
      <4>4. {big, small} = {R[Above], R[Left]} /\ Above > 0
        BY <1>4, <1>7, <3>2, <4>1 DEF Joining
      <4>5. \A i, j \in 1 .. run_number : R[i] = R[j] => R2[i] = R2[j]
        BY <3>5, <3>6
      <4>6. \A i \in 1 .. run_number : R2[i] = R2[run_number] =>
               R[i] = R[Above] \/ R[i] = R[Left]
        <5>1. R[run_number] \in {big, small}
          BY <1>7, <3>2
        <5>. QED BY <1>5, <4>3, <4>4, <5>1
      <4>7. R2[Above] = R2[run_number] /\ R2[Left] = R2[run_number]
        BY <4>1, <4>2
      <4>8. \A i, j \in 1 .. run_number : R2[i] = R2[j] =>
               R[i] = R[j] \/ (R[i] \in {R[Above], R[Left]} /\ R[j] \in {R[Above], R[Left]})
        BY <4>3, <4>4
      <4>. QED BY <4>1, <4>4, <4>5, <4>6, <4>7, <4>8 DEF Joins
    <3>10. BeforeHas(R) /\ IInv /\ ImageInv
      BY <1>4 DEF Joining, CInv
    <3>11. WithCur(R2, run_number)
      BY <1>5, <3>9, <3>10, PixelJoins
    <3>. QED BY <1>1, <3>7, <3>8, <3>11, WaitingEnds
  <2>. QED BY <2>1, <2>2
<1>. QED BY <1>2, <1>3, <1>8 DEF CInv
-----------------------------------------------------------------------------
\* The pixel gets the number of its run, and the scan goes on.
LEMMA RecordPixelKeeps ==
  ASSUME CInv, RecordPixel
  PROVE  CInv'
<1>. USE DEF CInv
<1>1. /\ pc = "record" /\ Advance("scan")
      /\ mask' = [mask EXCEPT ![run_number] = IF image[Cur] = MaskGrounded THEN 1 ELSE @]
      /\ image' = [image EXCEPT ![Cur] = run_number]
      /\ UNCHANGED <<arguments, run_number, max_runs, parents, first, lengths, run1, run2, labels>>
  BY DEF RecordPixel, Cur
<1>2. Scanning /\ Pending /\ pc # "done"
  BY <1>1 DEF Scanning, Pending
<1>3. /\ \A p \in Pixels : Scanned(p)' <=> Scanned(p) \/ p = Cur
      /\ \/ r' = r /\ c' = c + 1 /\ pc' = "scan"
         \/ r' = r + 1 /\ c' = 0 /\ pc' \in {"scan", "label"}
      /\ pc' = "label" => r' = NRows
  BY <1>1, <1>2, AdvanceIs
<1>4. /\ Cur \in Pixels /\ ~Scanned(Cur) /\ Cur \notin Before /\ Cur \in Foreground
      /\ run_number \in Nat /\ run_number \in 1 .. run_number
  <2>1. run_number \in Nat /\ run_number >= 1 /\ Cur \in Foreground
    BY <1>2, Types DEF ImageInv
  <2>. QED BY <1>2, <2>1, CurIs
<1>5. /\ input' = input /\ Foreground' = Foreground /\ k' = 0 /\ k = 0
      /\ run_number' = run_number /\ parents' = parents /\ first' = first /\ lengths' = lengths
  BY <1>1, <1>2 DEF arguments, labels, Foreground, IInv, Phases
<1>6. /\ image'[Cur] = run_number
      /\ \A p \in Pixels : p # Cur => image'[p] = image[p]
  BY <1>1, <1>4 DEF IInv, TypeOK
<1>7. ~Pending' /\ pc' # "done" /\ pc' \in {"scan", "label"}
  BY <1>3 DEF Pending
<1>8. Before' = Before \cup {Cur}
  BY <1>3, <1>4, <1>5 DEF Before, Foreground
<1>9. /\ \A p \in Before : p \in Pixels /\ p # Cur
      /\ Seen = Before \cup {Cur} /\ Seen' = Seen
      /\ Number = [p \in Before \cup {Cur} |-> IF p = Cur THEN run_number ELSE image[p]]
  BY <1>2, <1>4, <1>7, <1>8, SeenIs, Types DEF Seen
<1>10. Number' = Number
  <2>1. Number' = [p \in Before \cup {Cur} |-> image'[p]]
    BY <1>7, <1>9 DEF Number
  <2>2. \A p \in Before \cup {Cur} : image'[p] = IF p = Cur THEN run_number ELSE image[p]
    BY <1>6, <1>9
  <2>. QED BY <1>9, <2>1, <2>2
<1>11. IInv'
  BY NextInv DEF Next
<1>12. ImageInv'
  <2>1. ASSUME NEW p \in Pixels
        PROVE  IF Scanned(p)' THEN IF p \in Foreground THEN image'[p] \in 1 .. run_number
                                                       ELSE image'[p] = 0
               ELSE image'[p] = input[p]
    <3>1. CASE p = Cur
      BY <1>3, <1>4, <1>6, <3>1
    <3>2. CASE p # Cur
      <4>1. image'[p] = image[p] /\ (Scanned(p)' <=> Scanned(p))
        BY <1>3, <1>6, <3>2
      <4>. QED BY <1>2, <4>1 DEF ImageInv
    <3>. QED BY <3>1, <3>2
  <2>. QED BY <1>3, <1>5, <1>7, <2>1 DEF ImageInv
<1>13. RunInv'
  <2>1. \A i : RunPixels(i)' = RunPixels(i)
    BY <1>5 DEF RunPixels
  <2>2. Left' > 0 => Left' = run_number /\ c' = c + 1 /\ r' = r
    <3>1. CASE c' = c + 1
      <4>1. c \in Nat /\ c + 1 > 0 /\ c + 1 - 1 = c /\ r' = r
        <5>1. c \in Nat /\ r \in Nat
          BY Types
        <5>2. c # c + 1 /\ c + 1 # 0 /\ c + 1 > 0 /\ c + 1 - 1 = c
          BY <5>1
        <5>. QED BY <1>3, <3>1, <5>1, <5>2
      <4>2. Left' = image'[Cur]
        BY <3>1, <4>1 DEF Left, Cur
      <4>. QED BY <1>6, <3>1, <4>1, <4>2
    <3>2. CASE c' = 0
      BY <3>2 DEF Left
    <3>. QED BY <1>3, <3>1, <3>2
  <2>3. first[run_number][1] = r /\ first[run_number][2] + lengths[run_number] = c + 1
    BY <1>2 DEF RunInv
  <2>4. lengths[0] = 0 /\ \A i \in 1 .. run_number : RunPixels(i) = {p \in Seen : Number[p] = i}
    BY <1>2 DEF RunInv
  <2>. QED BY <1>5, <1>7, <1>9, <1>10, <2>1, <2>2, <2>3, <2>4 DEF RunInv
<1>14. MaskInv'
  <2>1. /\ mask \in [0 .. max_runs - 1 -> 0 .. 1]
        /\ \A i \in 1 .. run_number : i \in 0 .. max_runs - 1
    <3>1. mask \in [0 .. max_runs - 1 -> 0 .. 1] /\ run_number \in 0 .. max_runs - 1
          /\ max_runs \in Nat
      BY DEF IInv, TypeOK
    <3>. QED BY <3>1
  <2>2. image[Cur] = input[Cur]
    BY <1>2, <1>4 DEF ImageInv
  <2>3. ASSUME NEW i \in 1 .. run_number
        PROVE  mask'[i] = 1 <=> \E p \in Before \cup {Cur} : image'[p] = i /\ input[p] = MaskGrounded
    <3>1. mask[i] = 1 <=> \E p \in Before : image[p] = i /\ input[p] = MaskGrounded
      BY <1>2 DEF MaskInv
    <3>2. \A p \in Before : image'[p] = image[p]
      BY <1>6, <1>9
    <3>3. CASE i = run_number
      <4>1. mask'[i] = 1 <=> input[Cur] = MaskGrounded \/ mask[i] = 1
        BY <1>1, <2>1, <2>2, <3>3
      <4>. QED BY <1>6, <3>1, <3>2, <3>3, <4>1
    <3>4. CASE i # run_number
      <4>1. mask'[i] = mask[i]
        BY <1>1, <2>1, <3>4
      <4>. QED BY <1>6, <3>1, <3>2, <3>4, <4>1
    <3>. QED BY <3>3, <3>4
  <2>. QED BY <1>5, <1>7, <1>8, <2>3 DEF MaskInv
<1>15. TreeInv'
  <2>1. PICK R \in [0 .. run_number -> 0 .. run_number] : Roots(R) /\ Labels(Seen, RootOf(R))
    BY <1>1 DEF TreeInv
  <2>2. Roots(R)'
    BY <1>5, <2>1 DEF Roots
  <2>3. RootOf(R)' = RootOf(R)
    BY <1>9, <1>10 DEF RootOf
  <2>4. Labelled(R)'
    BY <1>5 DEF Labelled
  <2>. QED BY <1>5, <1>7, <1>9, <2>1, <2>2, <2>3, <2>4 DEF TreeInv
<1>. QED BY <1>7, <1>11, <1>12, <1>13, <1>14, <1>15 DEF ResultInv, IcebergsFound, LabelsAreComponents

\* A sweep over the runs gives a run the label of its root.
LEMMA LabelRunKeeps ==
  ASSUME CInv, LabelRun
  PROVE  CInv'
<1>. USE DEF CInv
<1>. PICK l : l = LabelOf(k)
  OBVIOUS
<1>1. /\ pc = "label" /\ k <= run_number /\ k' = k + 1 /\ pc' = pc
      /\ parents' = [parents EXCEPT ![k] = l]
      /\ grounded' = [i \in 0 .. run_number |->
                         IF i = l /\ mask[k] = 1 THEN 1
                         ELSE IF k = 0 THEN 0 ELSE grounded[i]]
      /\ label' = IF parents[k] = 0 THEN label + 1 ELSE label
      /\ UNCHANGED <<arguments, scan, run_number, max_runs, first, lengths, mask, run1, run2>>
  BY DEF LabelRun
<1>2. ~Pending /\ ~Pending' /\ pc # "done" /\ pc' # "done"
  BY <1>1 DEF Pending
<1>3. /\ Cur' = Cur /\ Before' = Before /\ Foreground' = Foreground /\ Left' = Left
      /\ image' = image /\ input' = input /\ r' = r /\ run_number' = run_number
      /\ \A p : Scanned(p)' = Scanned(p)
  BY <1>1, SameScan DEF scan, arguments
<1>4. Seen = Before /\ Seen' = Before /\ Number' = Number
      /\ Number = [p \in Before |-> image[p]]
  BY <1>2, <1>3 DEF Seen, Number
<1>5. IInv'
  BY NextInv DEF Next
<1>6. ImageInv'
  BY <1>1, <1>2, <1>3 DEF ImageInv
<1>7. RunInv'
  <2>1. \A i : RunPixels(i)' = RunPixels(i)
    BY <1>1 DEF RunPixels
  <2>. QED BY <1>1, <1>2, <1>3, <1>4, <2>1 DEF RunInv
<1>8. MaskInv'
  BY <1>1, <1>2, <1>3 DEF MaskInv
<1>9. /\ k \in Nat /\ run_number \in Nat /\ label \in 0 .. k /\ l \in 0 .. k
      /\ k \in 0 .. run_number
      /\ \A i \in 0 .. run_number : i \in Nat /\ parents[i] \in Nat
      /\ \A i \in 0 .. run_number : parents'[i] = IF i = k THEN l ELSE parents[i]
  <2>1. /\ k \in Nat /\ label \in 0 .. k /\ parents \in [0 .. max_runs - 1 -> Nat]
    BY DEF IInv, TypeOK
  <2>2. /\ run_number \in Nat /\ \A i \in 0 .. run_number : i \in 0 .. max_runs - 1
        /\ \A i \in 0 .. run_number : parents[i] \in Nat
    BY Types
  <2>3. l \in 0 .. k
    BY <1>1, LabelInRange
  <2>4. k \in 0 .. run_number
    BY <1>1, <2>1, <2>2
  <2>. QED BY <1>1, <2>1, <2>2, <2>3, <2>4
<1>10. PICK R \in [0 .. run_number -> 0 .. run_number] :
          Roots(R) /\ Labels(Seen, RootOf(R)) /\ Labelled(R)
  BY <1>1 DEF TreeInv
<1>11. /\ \A i \in 0 .. k - 1 : i \in 0 .. run_number /\ i # k
       /\ \A i \in 0 .. k' - 1 : i = k \/ i \in 0 .. k - 1
       /\ \A i \in k' .. run_number : i \in k .. run_number /\ i # k /\ i \in 0 .. run_number
       /\ k \in 0 .. k' - 1 /\ \A i \in 0 .. k - 1 : i \in 0 .. k' - 1
       /\ k' > 0
  BY <1>1, <1>9
<1>12. Roots(R)'
  <2>1. ASSUME NEW i \in k' .. run_number
        PROVE  R[i] = IF parents'[i] = 0 THEN i ELSE R[parents'[i]]
    <3>1. i \in k .. run_number /\ parents'[i] = parents[i]
      BY <1>9, <1>11
    <3>. QED BY <1>10, <3>1 DEF Roots
  <2>. QED BY <1>3, <1>10, <2>1 DEF Roots
\* What is known of the new label.
<1>13. /\ l < label' /\ \A i \in 0 .. k - 1 : parents[i] < label'
       /\ \A i \in 0 .. k - 1 : parents[i] = l <=> R[i] = R[k]
  <2>1. CASE parents[k] = 0
    <3>1. l = label /\ label' = label + 1 /\ label \in Nat
      BY <1>1, <1>9, <2>1 DEF LabelOf
    <3>2. R[k] = k
      <4>1. k \in k .. run_number
        BY <1>9
      <4>. QED BY <1>10, <2>1, <4>1 DEF Roots
    <3>3. ASSUME NEW i \in 0 .. k - 1 PROVE R[i] # k
      <4>1. CASE i = 0
        <5>1. R[i] = 0 /\ k # 0
          BY <1>9, <1>10, <4>1 DEF Roots
        <5>. QED BY <5>1
      <4>2. CASE i # 0
        <5>1. i \in 1 .. run_number
          BY <1>9, <4>2
        <5>2. R[i] \in 1 .. i
          BY <1>10, <5>1 DEF Roots
        <5>. QED BY <1>9, <5>2
      <4>. QED BY <4>1, <4>2
    <3>4. ASSUME NEW i \in 0 .. k - 1 PROVE parents[i] < label /\ parents[i] \in Nat
      BY <1>9, <1>10, <1>11 DEF Labelled
    <3>5. \A i \in 0 .. k - 1 : parents[i] < label + 1 /\ parents[i] # label
      BY <3>1, <3>4
    <3>. QED BY <3>1, <3>2, <3>3, <3>5
  <2>2. CASE parents[k] # 0
    <3>1. l = parents[parents[k]] /\ label' = label
      BY <1>1, <2>2 DEF LabelOf
    <3>2. parents[k] \in 0 .. k - 1
      <4>1. k \in 1 .. run_number /\ k >= k
        <5>1. k # 0
          BY <2>2, Types
        <5>. QED BY <1>9, <5>1
      <4>2. parents[k] < k /\ parents[k] \in Nat
        BY <1>9, <4>1 DEF IInv, ChildrenFollowParents
      <4>3. \A x \in Nat : x < k => x \in 0 .. k - 1
        BY <1>9
      <4>. QED BY <4>2, <4>3
    <3>3. R[k] = R[parents[k]]
      <4>1. k \in k .. run_number
        BY <1>9
      <4>. QED BY <1>10, <2>2, <4>1 DEF Roots
    <3>4. /\ \A i \in 0 .. k - 1 : parents[i] < label
          /\ \A i, j \in 0 .. k - 1 : parents[i] = parents[j] <=> R[i] = R[j]
      BY <1>10 DEF Labelled
    <3>. QED BY <3>1, <3>2, <3>3, <3>4
  <2>. QED BY <2>1, <2>2
<1>14. Labelled(R)'
  <2>1. ASSUME NEW i \in 0 .. k' - 1 PROVE parents'[i] < label'
    BY <1>9, <1>11, <1>13
  <2>2. ASSUME NEW i \in 0 .. k' - 1, NEW j \in 0 .. k' - 1
        PROVE  parents'[i] = parents'[j] <=> R[i] = R[j]
    <3>1. CASE i = k /\ j = k
      BY <3>1
    <3>2. CASE i = k /\ j \in 0 .. k - 1
      BY <1>9, <1>11, <1>13, <3>2
    <3>3. CASE i \in 0 .. k - 1 /\ j = k
      BY <1>9, <1>11, <1>13, <3>3
    <3>4. CASE i \in 0 .. k - 1 /\ j \in 0 .. k - 1
      <4>1. parents'[i] = parents[i] /\ parents'[j] = parents[j]
        BY <1>9, <1>11, <3>4
      <4>. QED BY <1>10, <3>4, <4>1 DEF Labelled
    <3>. QED BY <1>11, <3>1, <3>2, <3>3, <3>4
  <2>3. ASSUME NEW m \in 0 .. run_number
        PROVE  grounded'[m] = 1 <=> \E i \in 0 .. k' - 1 : parents'[i] = m /\ mask[i] = 1
    <3>1. grounded'[m] = IF m = l /\ mask[k] = 1 THEN 1
                         ELSE IF k = 0 THEN 0 ELSE grounded[m]
      BY <1>1
    <3>2. (\E i \in 0 .. k' - 1 : parents'[i] = m /\ mask[i] = 1)
             <=> \/ l = m /\ mask[k] = 1
                 \/ \E i \in 0 .. k - 1 : parents[i] = m /\ mask[i] = 1
      BY <1>9, <1>11
    <3>3. CASE k = 0
      BY <3>1, <3>2, <3>3
    <3>4. CASE k # 0
      <4>1. k > 0
        BY <1>9, <3>4
      <4>2. grounded[m] = 1 <=> \E i \in 0 .. k - 1 : parents[i] = m /\ mask[i] = 1
        BY <1>10, <4>1 DEF Labelled
      <4>. QED BY <3>1, <3>2, <3>4, <4>2
    <3>. QED BY <3>3, <3>4
  <2>4. mask' = mask
    BY <1>1
  <2>. QED BY <1>3, <2>1, <2>2, <2>3, <2>4 DEF Labelled
<1>15. TreeInv'
  <2>1. RootOf(R)' = RootOf(R)
    BY <1>4 DEF RootOf
  <2>. QED BY <1>1, <1>3, <1>4, <1>10, <1>12, <1>14, <2>1 DEF TreeInv
<1>. QED BY <1>2, <1>5, <1>6, <1>7, <1>8, <1>15 DEF ResultInv, IcebergsFound, LabelsAreComponents
\* The second scan.
LEMMA RelabelKeeps ==
  ASSUME CInv, Relabel
  PROVE  CInv'
<1>. USE DEF CInv
<1>1. /\ pc = "label" /\ k > run_number /\ pc' = "done" /\ pc # "done" /\ ~Pending
      /\ UNCHANGED <<arguments, r, c, runs, run1, run2, labels>>
  BY DEF Relabel, Pending
<1>2. IInv'
  BY NextInv DEF Next
<1>3. /\ run_number \in Nat /\ k = run_number + 1 /\ k - 1 = run_number /\ k > 0
      /\ \A i \in 1 .. run_number : i \in 0 .. run_number
      /\ input' = input /\ Foreground' = Foreground /\ parents' = parents
      /\ identify_icebergs' = identify_icebergs
  <2>1. run_number \in Nat /\ k \in 0 .. run_number + 1
    BY Types DEF IInv, TypeOK
  <2>. QED BY <1>1, <2>1 DEF arguments, runs, Foreground
\* All pixels have been scanned.
<1>4. /\ \A p \in Foreground : image[p] \in 1 .. run_number
      /\ \A p \in Pixels \ Foreground : image[p] = 0
      /\ Seen = Foreground /\ Number = [p \in Foreground |-> image[p]]
      /\ Foreground \in SUBSET Pixels /\ Before = Foreground
  <2>1. r = NRows /\ NRows \in Nat
    BY <1>1, Types DEF ImageInv
  <2>2. \A p \in Pixels : Scanned(p)
    <3>1. \A p \in Pixels : p[1] \in 0 .. NRows - 1
      BY DEF Pixels
    <3>2. \A x \in 0 .. NRows - 1 : x < NRows
      BY <2>1
    <3>. QED BY <2>1, <3>1, <3>2 DEF Scanned
  <2>3. Foreground \in SUBSET Pixels
    BY DEF Foreground
  <2>4. Before = Foreground
    BY <2>2, <2>3 DEF Before
  <2>. QED BY <1>1, <2>2, <2>3, <2>4 DEF ImageInv, Seen, Number
\* A pixel of the foreground is in the run with its number, and in no other.
<1>5. /\ \A i \in 1 .. run_number : RunPixels(i) = {p \in Foreground : image[p] = i}
      /\ RunPixels(0) = {}
  <2>1. RunPixels(0) = {}
    <3>1. lengths[0] = 0
      BY <1>1 DEF RunInv
    <3>2. 0 .. 0 - 1 = {}
      OBVIOUS
    <3>. QED BY <3>1, <3>2 DEF RunPixels
  <2>2. ASSUME NEW i \in 1 .. run_number
        PROVE  RunPixels(i) = {p \in Foreground : image[p] = i}
    <3>1. RunPixels(i) = {p \in Seen : Number[p] = i}
      BY <1>1 DEF RunInv
    <3>. QED BY <1>4, <3>1
  <2>. QED BY <2>1, <2>2
<1>6. ASSUME NEW p \in Pixels
      PROVE  image'[p] = IF p \in Foreground THEN PixelLabel(image[p]) ELSE 0
  <2>1. \A i \in 0 .. run_number : p \in RunPixels(i) <=> p \in Foreground /\ image[p] = i
    <3>1. \A i \in 0 .. run_number : i = 0 \/ i \in 1 .. run_number
      BY <1>3
    <3>2. p \in Foreground => image[p] # 0
      BY <1>3, <1>4
    <3>. QED BY <1>5, <3>1, <3>2
  <2>2. image'[p] = IF \E i \in 0 .. run_number : p \in RunPixels(i)
                    THEN PixelLabel(CHOOSE i \in 0 .. run_number : p \in RunPixels(i))
                    ELSE image[p]
    BY DEF Relabel
  <2>3. CASE p \in Foreground
    <3>1. image[p] \in 0 .. run_number
      BY <1>3, <1>4, <2>3
    <3>2. \E i \in 0 .. run_number : p \in RunPixels(i)
      BY <2>1, <2>3, <3>1
    <3>3. (CHOOSE i \in 0 .. run_number : p \in RunPixels(i)) = image[p]
      BY <2>1, <3>2
    <3>. QED BY <2>2, <2>3, <3>2, <3>3
  <2>4. CASE p \notin Foreground
    <3>1. image[p] = 0 /\ ~\E i \in 0 .. run_number : p \in RunPixels(i)
      BY <1>4, <2>1, <2>4
    <3>. QED BY <2>2, <2>4, <3>1
  <2>. QED BY <2>3, <2>4
<1>7. PICK R \in [0 .. run_number -> 0 .. run_number] :
         Roots(R) /\ Labels(Seen, RootOf(R)) /\ Labelled(R)
  BY <1>1 DEF TreeInv
<1>8. /\ RootOf(R) = [p \in Foreground |-> R[image[p]]]
      /\ \A p \in Foreground : {q \in Foreground : R[image[q]] = R[image[p]]}
                                  = Component(Foreground, p)
  <2>1. RootOf(R) = [p \in Foreground |-> R[image[p]]]
    BY <1>4 DEF RootOf
  <2>2. ASSUME NEW p \in Foreground
        PROVE  {q \in Foreground : R[image[q]] = R[image[p]]} = Component(Foreground, p)
    <3>1. {q \in Foreground : RootOf(R)[q] = RootOf(R)[p]} = Component(Foreground, p)
      BY <1>4, <1>7, LabelsAre
    <3>. QED BY <2>1, <3>1
  <2>. QED BY <2>1, <2>2
<1>9. /\ \A i, j \in 0 .. run_number : parents[i] = parents[j] <=> R[i] = R[j]
      /\ \A l \in 0 .. run_number :
            grounded[l] = 1 <=> \E i \in 0 .. run_number : parents[i] = l /\ mask[i] = 1
  BY <1>3, <1>7 DEF Labelled
<1>10. /\ R[0] = 0 /\ parents[0] = 0 /\ 0 \in 0 .. run_number
       /\ \A i \in 1 .. run_number : R[i] # 0
  <2>1. \A i \in 1 .. run_number : R[i] \in 1 .. i
    BY <1>7 DEF Roots
  <2>2. \A i \in 1 .. run_number : R[i] # 0
    BY <2>1
  <2>. QED BY <1>3, <1>7, <2>2, Types DEF Roots
<1>11. \A i \in 1 .. run_number : parents[i] # 0 /\ parents[i] \in 0 .. run_number
  <2>. SUFFICES ASSUME NEW i \in 1 .. run_number
                PROVE  parents[i] # 0 /\ parents[i] \in 0 .. run_number
    OBVIOUS
  <2>1. parents[i] # parents[0]
    BY <1>3, <1>9, <1>10
  <2>2. parents[i] <= i
    <3>1. ~(i >= k)
      BY <1>3
    <3>. QED BY <3>1 DEF IInv, ChildrenFollowParents
  <2>3. parents[i] \in Nat
    BY <1>3, Types
  <2>. QED BY <1>3, <1>10, <2>1, <2>2, <2>3
<1>12. ASSUME ~identify_icebergs PROVE LabelsAreComponents'
  <2>1. \A p \in Foreground : image'[p] = parents[image[p]]
    BY <1>4, <1>6, <1>12 DEF PixelLabel
  <2>2. ASSUME NEW p \in Foreground
        PROVE  {q \in Foreground : image'[q] = image'[p]} = Component(Foreground, p)
    <3>1. \A q \in Foreground : image[q] \in 0 .. run_number
      BY <1>3, <1>4
    <3>2. \A q \in Foreground : image'[q] = image'[p] <=> R[image[q]] = R[image[p]]
      BY <1>9, <2>1, <3>1
    <3>. QED BY <1>8, <3>2
  <2>3. \A p \in Pixels : (image'[p] = 0) = (p \notin Foreground)
    BY <1>4, <1>6, <1>11, <2>1
  <2>. QED BY <1>3, <2>2, <2>3 DEF LabelsAreComponents
<1>13. ASSUME identify_icebergs PROVE IcebergsFound'
  <2>1. ASSUME NEW p \in Foreground
        PROVE  image'[p] = IF \E q \in Component(Foreground, p) : input[q] = MaskGrounded
                           THEN 0 ELSE 1
    <3>1. image'[p] = 1 - grounded[parents[image[p]]]
      BY <1>4, <1>6, <1>13 DEF PixelLabel
    <3>2. parents[image[p]] \in 0 .. run_number /\ image[p] \in 1 .. run_number
      BY <1>4, <1>11
    <3>3. grounded[parents[image[p]]] \in 0 .. 1
      BY <1>3, <3>2 DEF IInv, Phases
    <3>4. grounded[parents[image[p]]] = 1
             <=> \E i \in 0 .. run_number : parents[i] = parents[image[p]] /\ mask[i] = 1
      BY <1>9, <3>2
    <3>5. (\E i \in 0 .. run_number : parents[i] = parents[image[p]] /\ mask[i] = 1)
             <=> \E i \in 1 .. run_number : R[i] = R[image[p]] /\ mask[i] = 1
      <4>1. \A i \in 0 .. run_number : parents[i] = parents[image[p]] <=> R[i] = R[image[p]]
        BY <1>3, <1>9, <3>2
      <4>2. \A i \in 0 .. run_number : i = 0 \/ i \in 1 .. run_number
        BY <1>3
      <4>3. R[0] # R[image[p]]
        BY <1>10, <3>2
      <4>. QED BY <1>3, <4>1, <4>2, <4>3
    <3>6. (\E i \in 1 .. run_number : R[i] = R[image[p]] /\ mask[i] = 1)
             <=> \E q \in Foreground : R[image[q]] = R[image[p]] /\ input[q] = MaskGrounded
      <4>1. \A i \in 1 .. run_number :
               mask[i] = 1 <=> \E q \in Foreground : image[q] = i /\ input[q] = MaskGrounded
        BY <1>1, <1>4 DEF MaskInv
      <4>. QED BY <1>4, <4>1
    <3>7. (\E q \in Foreground : R[image[q]] = R[image[p]] /\ input[q] = MaskGrounded)
             <=> \E q \in Component(Foreground, p) : input[q] = MaskGrounded
      BY <1>8
    <3>. QED BY <3>1, <3>3, <3>4, <3>5, <3>6, <3>7
  <2>2. \A p \in Pixels \ Foreground : image'[p] = 0
    BY <1>6
  <2>. QED BY <1>3, <2>1, <2>2 DEF IcebergsFound
<1>14. ResultInv'
  BY <1>3, <1>12, <1>13 DEF ResultInv, IcebergsFound, LabelsAreComponents
<1>. QED BY <1>1, <1>2, <1>14 DEF ImageInv, RunInv, MaskInv, TreeInv

-----------------------------------------------------------------------------
\* A step that changes nothing keeps it too.
LEMMA StutterKeeps ==
  ASSUME CInv, UNCHANGED vars
  PROVE  CInv'
<1>. USE DEF CInv
<1>1. UNCHANGED <<pc, input, identify_icebergs, image, r, c, run_number, max_runs, parents,
                  first, lengths, mask, run1, run2, k, label, grounded>>
  BY DEF vars, arguments, scan, runs, labels
<1>2. /\ Cur' = Cur /\ Foreground' = Foreground /\ Above' = Above /\ Left' = Left
      /\ Pending' = Pending /\ \A p : Scanned(p)' = Scanned(p)
      /\ \A i : RunPixels(i)' = RunPixels(i)
  BY <1>1 DEF Cur, Foreground, Above, Left, Pending, Scanned, RunPixels
<1>3. Before' = Before
  BY <1>2 DEF Before
<1>4. Seen' = Seen
  BY <1>2, <1>3 DEF Seen
<1>5. Number' = Number
  BY <1>1, <1>2, <1>4 DEF Number
<1>6. IInv'
  BY NextInv
<1>7. ImageInv'
  BY <1>1, <1>2 DEF ImageInv
<1>8. RunInv'
  BY <1>1, <1>2, <1>4, <1>5 DEF RunInv
<1>9. MaskInv'
  BY <1>1, <1>3 DEF MaskInv
<1>10. TreeInv'
  <2>1. \A R : /\ Roots(R)' = Roots(R) /\ RootOf(R)' = RootOf(R)
               /\ Labelled(R)' = Labelled(R) /\ Joining(R)' = Joining(R)
    BY <1>1, <1>2, <1>3, <1>4, <1>5 DEF Roots, RootOf, Labelled, Joining, BeforeHas
  <2>. QED BY <1>1, <1>4, <2>1 DEF TreeInv
<1>11. ResultInv'
  BY <1>1, <1>2 DEF ResultInv, IcebergsFound, LabelsAreComponents
<1>. QED BY <1>6, <1>7, <1>8, <1>9, <1>10, <1>11

\* Every step keeps the invariant.
LEMMA NextKeeps == CInv /\ [Next]_vars => CInv'
BY BackgroundKeeps, ContinueRunKeeps, NewRunKeeps, UnionKeeps, ClimbKeeps, LinkKeeps,
   RecordPixelKeeps, LabelRunKeeps, RelabelKeeps, StutterKeeps DEF Next

\* The trees are those the recursive search for roots finds.
LEMMA TreesFound == CInv => ComponentsFound
<1>. SUFFICES ASSUME CInv PROVE ComponentsFound
  OBVIOUS
<1>. USE DEF CInv
<1>1. ASSUME pc = "scan", NEW p \in Before
      PROVE  {q \in Before : Root(image[q]) = Root(image[p])} = Component(Before, p)
  <2>1. Scanning /\ ~Pending
    BY <1>1 DEF Scanning, Pending
  <2>2. PICK R \in [0 .. run_number -> 0 .. run_number] : Roots(R) /\ Labels(Before, RootOf(R))
    BY <1>1, <2>1 DEF TreeInv, Seen
  <2>3. RootOf(R) = [q \in Before |-> R[image[q]]]
    BY <2>1 DEF RootOf, Seen, Number
  <2>4. \A q \in Before : image[q] \in 0 .. run_number
    <3>1. \A q \in Before : image[q] \in 1 .. run_number
      BY <2>1, Around
    <3>2. \A i \in 1 .. run_number : i \in 0 .. run_number
      BY Types
    <3>. QED BY <3>1, <3>2
  <2>5. \A q \in Before : Root(image[q]) = RootOf(R)[q]
    BY <2>1, <2>2, <2>3, <2>4, RootIs
  <2>6. Before \in SUBSET Pixels
    BY Types
  <2>7. {q \in Before : RootOf(R)[q] = RootOf(R)[p]} = Component(Before, p)
    BY <2>2, <2>6, LabelsAre
  <2>. QED BY <2>5, <2>7
<1>2. TreesAreComponents
  BY <1>1 DEF TreesAreComponents, Before
<1>. QED BY <1>2 DEF ComponentsFound, ResultInv

\* For images of every size: after each pixel the trees of runs are the
\* connected components of the foreground scanned so far, and the image cc()
\* returns has the labels of the components, or has exactly the components
\* without grounded pixels as icebergs.
THEOREM ComponentsAreFound == Spec => []ComponentsFound
<1>1. Init => CInv
  BY InitCInv
<1>2. CInv /\ [Next]_vars => CInv'
  BY NextKeeps
<1>3. CInv => ComponentsFound
  BY TreesFound
<1>. QED BY <1>1, <1>2, <1>3, PTL DEF Spec

=============================================================================
