-------------------------- MODULE MCParallelSection --------------------------
(* Instances of ParallelSection for TLC.                                    *)
EXTENDS ParallelSection

(* Two loops of the stress balance with a reduction between them, the       *)
(* connected components computed by processor 0, and a loop elsewhere.      *)
KindValue == <<"loop", "reduce", "loop", "rank0", "loop">>

GuardedValue == 1..3
=============================================================================
