------------------------- MODULE ConnectedComponents -------------------------
(***************************************************************************)
(* The labelling of connected components that the iceberg remover runs on   *)
(* one processor (base/calving/connected_components.cc).  The image is      *)
(* read row by row; maximal runs of foreground pixels in a row become nodes *)
(* of a forest (parents), and a run that touches another in the row above   *)
(* is joined with it by run_union(), one iteration of whose loops is a step *)
(* here.  Then runs get the labels of their trees, and pixels those of      *)
(* their runs, or 1 on an iceberg and 0 elsewhere.                          *)
(***************************************************************************)
EXTENDS Integers

CONSTANTS NRows, NCols,
          MaskGrounded,      \* the value of grounded pixels
          Images             \* the images to label (0 is background)

Pixels == (0 .. NRows - 1) \X (0 .. NCols - 1)

ASSUME ImageAssumption ==
  /\ NRows \in Nat \ {0} /\ NCols \in Nat \ {0}
  /\ MaskGrounded \in Nat \ {0}
  /\ Images \subseteq [Pixels -> Nat]

VARIABLES pc,
          input,        \* the image at the start (history)
          identify_icebergs,
          image, r, c,  \* the image and where the scan is
          run_number, max_runs,
          parents, first, lengths, mask, \* the runs
          run1, run2,   \* in run_union
          k,            \* the run to label next
          label, grounded

arguments == <<input, identify_icebergs>>
scan   == <<image, r, c>>
runs   == <<run_number, max_runs, parents, first, lengths, mask>>
labels == <<k, label, grounded>>
vars   == <<pc, arguments, scan, runs, run1, run2, labels>>

Zeros(n) == [i \in 0 .. n - 1 |-> 0]

Init ==
  /\ pc = "scan"
  /\ identify_icebergs \in BOOLEAN
  /\ input \in Images /\ image = input /\ r = 0 /\ c = 0
  /\ run_number = 0 /\ max_runs = 2 * NRows
  /\ parents = Zeros(max_runs) /\ lengths = Zeros(max_runs) /\ mask = Zeros(max_runs)
  /\ first = [i \in 0 .. max_runs - 1 |-> <<0, 0>>]
  /\ run1 = 0 /\ run2 = 0
  /\ k = 0 /\ label = 0 /\ grounded = <<>>

-----------------------------------------------------------------------------
\* First scan.
Above == IF r > 0 THEN image[<<r - 1, c>>] ELSE 0
Left  == IF c > 0 THEN image[<<r, c - 1>>] ELSE 0

\* The loops go on to the next pixel, at the end to the labels.
Advance(then) ==
  IF c + 1 < NCols THEN r' = r /\ c' = c + 1 /\ pc' = then
  ELSE r' = r + 1 /\ c' = 0 /\ pc' = IF r + 1 < NRows THEN then ELSE "label"

Background ==
  /\ pc = "scan" /\ image[<<r, c>>] = 0
  /\ Advance("scan")
  /\ UNCHANGED <<arguments, image, runs, run1, run2, labels>>

\* The run goes on to the right.
ContinueRun ==
  /\ pc = "scan" /\ image[<<r, c>>] > 0 /\ Left > 0
  /\ lengths' = [lengths EXCEPT ![run_number] = @ + 1]
  /\ pc' = IF Above > 0 THEN "union" ELSE "record"
  /\ run1' = Above /\ run2' = run_number
  /\ UNCHANGED <<arguments, scan, run_number, max_runs, parents, first, mask, labels>>

Size(n) == IF n = max_runs THEN max_runs + NRows ELSE max_runs

\* A vector resized to size and with element n set to x.
Stored(v, size, n, x, default) ==
  [i \in 0 .. size - 1 |-> IF i = n THEN x ELSE IF i < max_runs THEN v[i] ELSE default]

NewRun ==
  /\ pc = "scan" /\ image[<<r, c>>] > 0 /\ Left = 0
  /\ run_number' = run_number + 1
  /\ \E n \in {run_number + 1} : \E size \in {Size(n)} :
       /\ max_runs' = size
       /\ first'   = Stored(first, size, n, <<r, c>>, <<0, 0>>)
       /\ lengths' = Stored(lengths, size, n, 1, 0)
       /\ parents' = Stored(parents, size, n, Above, 0)
       /\ mask'    = Stored(mask, size, n, 0, 0)
       /\ run1' = Above /\ run2' = n
  /\ pc' = IF Above > 0 THEN "union" ELSE "record"
  /\ UNCHANGED <<arguments, scan, labels>>

-----------------------------------------------------------------------------
\* run_union(parents, run1, run2).
Union ==
  /\ pc = "union"
  /\ pc' = IF parents[run1] = run2 \/ parents[run2] = run1 THEN "record" ELSE "climb"
  /\ UNCHANGED <<arguments, scan, runs, run1, run2, labels>>

\* Mutant: the first loop follows the parent of the other run.
ClimbOther ==
  /\ pc = "climb" /\ parents[run1] # 0
  /\ run1' = parents[run2]
  /\ UNCHANGED <<pc, arguments, scan, runs, run2, labels>>

Climb1 ==
  /\ pc = "climb" /\ parents[run1] # 0
  /\ run1' = parents[run1]
  /\ UNCHANGED <<pc, arguments, scan, runs, run2, labels>>

Climb2 ==
  /\ pc = "climb" /\ parents[run1] = 0 /\ parents[run2] # 0
  /\ run2' = parents[run2]
  /\ UNCHANGED <<pc, arguments, scan, runs, run1, labels>>

\* Mutant: the smaller root becomes a child of the larger one.
LinkedToLarger(p, a, b) ==
  IF a < b THEN [p EXCEPT ![a] = b] ELSE IF b < a THEN [p EXCEPT ![b] = a] ELSE p

Linked(p, a, b) ==
  IF a > b THEN [p EXCEPT ![a] = b] ELSE IF a < b THEN [p EXCEPT ![b] = a] ELSE p

Link ==
  /\ pc = "climb" /\ parents[run1] = 0 /\ parents[run2] = 0
  /\ parents' = Linked(parents, run1, run2)
  /\ pc' = "record"
  /\ UNCHANGED <<arguments, scan, run_number, max_runs, first, lengths, mask, run1, run2, labels>>

\* Back in the scan: the pixel gets the number of its run.
RecordPixel ==
  /\ pc = "record"
  /\ mask' = [mask EXCEPT ![run_number] = IF image[<<r, c>>] = MaskGrounded THEN 1 ELSE @]
  /\ image' = [image EXCEPT ![<<r, c>>] = run_number]
  /\ Advance("scan")
  /\ UNCHANGED <<arguments, run_number, max_runs, parents, first, lengths, run1, run2, labels>>

-----------------------------------------------------------------------------
\* Mutant: the run number of the parent is taken for its label.
ParentAsLabel(i) == IF parents[i] = 0 THEN label ELSE parents[i]

\* One sweep over the runs replaces parents by labels.
LabelOf(i) == IF parents[i] = 0 THEN label ELSE parents[parents[i]]

LabelRun ==
  /\ pc = "label" /\ k <= run_number
  /\ \E l \in {LabelOf(k)} :
       /\ parents' = [parents EXCEPT ![k] = l]
       /\ grounded' = [i \in 0 .. run_number |->
                         IF i = l /\ mask[k] = 1 THEN 1
                         ELSE IF k = 0 THEN 0 ELSE grounded[i]]
  /\ label' = IF parents[k] = 0 THEN label + 1 ELSE label
  /\ k' = k + 1
  /\ UNCHANGED <<pc, arguments, scan, run_number, max_runs, first, lengths, mask, run1, run2>>

RunPixels(i) == {<<first[i][1], first[i][2] + j>> : j \in 0 .. lengths[i] - 1}

PixelLabel(i) == IF identify_icebergs THEN 1 - grounded[parents[i]] ELSE parents[i]

\* Second scan.
Relabel ==
  /\ pc = "label" /\ k > run_number
  /\ image' = [p \in Pixels |->
                 IF \E i \in 0 .. run_number : p \in RunPixels(i)
                 THEN PixelLabel(CHOOSE i \in 0 .. run_number : p \in RunPixels(i))
                 ELSE image[p]]
  /\ pc' = "done"
  /\ UNCHANGED <<arguments, r, c, runs, run1, run2, labels>>

Next == \/ Background \/ ContinueRun \/ NewRun
        \/ Union \/ Climb1 \/ Climb2 \/ Link \/ RecordPixel
        \/ LabelRun \/ Relabel

\* cc() runs to its end.
Spec == Init /\ [][Next]_vars /\ WF_vars(Next)

-----------------------------------------------------------------------------
Scanned(p) == p[1] < r \/ (p[1] = r /\ p[2] < c)

\* The state is well typed; in particular all numbers of runs are indices of
\* the vectors, which grow before they are too short.
TypeOK ==
  /\ pc \in {"scan", "union", "climb", "record", "label", "done"}
  /\ input \in [Pixels -> Nat] /\ image \in [Pixels -> Nat]
  /\ r \in 0 .. NRows /\ c \in 0 .. NCols - 1
  /\ run_number \in 0 .. max_runs - 1 /\ max_runs \in Nat
  /\ parents \in [0 .. max_runs - 1 -> Nat] /\ mask \in [0 .. max_runs - 1 -> 0 .. 1]
  /\ lengths \in [0 .. max_runs - 1 -> Nat] /\ first \in [0 .. max_runs - 1 -> Nat \X Nat]
  /\ run1 \in 0 .. run_number /\ run2 \in 0 .. run_number
  /\ k \in 0 .. run_number + 1 /\ label \in 0 .. k

\* "children always follow parents": a run that has no label yet has a parent
\* with a smaller number, so run_union() has no cycles to go round in and the
\* sweep finds the labels of parents ready; a label is at most the number of the
\* run, so it is an index of grounded.
ChildrenFollowParents ==
  /\ parents[0] = 0
  /\ \A i \in 1 .. run_number : IF i >= k THEN parents[i] < i ELSE parents[i] <= i

\* cc(), run_union(): a run number is always an index of the vectors, and following
\* parents goes down to a root, whatever grew the vectors and joined the runs so far.
RunsWellFormed == TypeOK /\ ChildrenFollowParents

-----------------------------------------------------------------------------
\* Reference: pixels joined by paths of foreground pixels, each next to the last.
Beside(p, q) == \/ (p[1] = q[1] /\ p[2] - q[2] \in {-1, 1})
                \/ (p[2] = q[2] /\ p[1] - q[1] \in {-1, 1})

Foreground == {p \in Pixels : input[p] > 0}

\* The pixels of S that are connected with p within S.
Component(S, p) ==
  LET Grown(T) == {q \in S : q \in T \/ \E x \in T : Beside(x, q)}
      reach[T \in SUBSET S] == IF Grown(T) = T THEN T ELSE reach[Grown(T)]
  IN reach[{p}]

Root(i) ==
  LET up[j \in 0 .. run_number] == IF parents[j] = 0 THEN j ELSE up[parents[j]] IN up[i]

\* While the image is scanned, two pixels have been put into the same tree
\* exactly if they are connected in the part scanned so far.
TreesAreComponents ==
  pc = "scan" =>
    LET S == {p \in Foreground : Scanned(p)}
    IN \A p \in S : {q \in S : Root(image[q]) = Root(image[p])} = Component(S, p)

\* At the end exactly the components without grounded pixels are icebergs.
IcebergsFound ==
  pc = "done" /\ identify_icebergs =>
    /\ \A p \in Foreground :
         image[p] = IF \E q \in Component(Foreground, p) : input[q] = MaskGrounded THEN 0 ELSE 1
    /\ \A p \in Pixels \ Foreground : image[p] = 0

\* At the end pixels have the same label exactly if they are connected, and
\* the background keeps 0.
LabelsAreComponents ==
  pc = "done" /\ ~identify_icebergs =>
    /\ \A p \in Foreground : {q \in Foreground : image[q] = image[p]} = Component(Foreground, p)
    /\ \A p \in Pixels : (image[p] = 0) = (p \notin Foreground)

\* cc(): after each pixel the trees are the components of what is scanned, and
\* the image that is returned has the labels of the components, or the icebergs.
ComponentsFound == TreesAreComponents /\ IcebergsFound /\ LabelsAreComponents

\* The loops of run_union() and the sweep end, for every image.
Terminates == <>(pc = "done")

=============================================================================
