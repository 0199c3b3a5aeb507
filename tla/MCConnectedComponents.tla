------------------------ MODULE MCConnectedComponents ------------------------
(* Instances of ConnectedComponents for TLC.                                *)
EXTENDS ConnectedComponents, FiniteSets

\* All images with two kinds of pixels, and those with one grounded pixel.
Binary == [Pixels -> {0, 2}]
OneGrounded ==
  Binary \cup UNION {{[f EXCEPT ![p] = 1] : f \in Binary} : p \in Pixels}
=============================================================================
