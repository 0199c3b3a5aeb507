-------------------------- MODULE MCForcingBuffer ---------------------------
(* Instances of ForcingBuffer for TLC.                                      *)
EXTENDS ForcingBuffer

(* Records of different lengths; the file begins after the run does and     *)
(* ends before it.                                                          *)
Bounds == <<2, 5, 5, 7, 7, 10, 10, 12, 12, 14, 14, 17, 17, 21, 21, 22>>

(* Records with gaps between them, one of which is as short as a second.    *)
Gaps == <<3, 6, 8, 11, 12, 15, 19, 22>>

Setup(bounds, nRecords, period, reference) ==
  [bounds |-> bounds, nRecords |-> nRecords, period |-> period,
   reference |-> reference]

(* Buffers of two and three records, records with gaps, and a periodic year *)
(* with its own reference time.                                             *)
AllSetups ==
  {Setup(Bounds, 2, 0, 0), Setup(Bounds, 3, 0, 0), Setup(Gaps, 2, 0, 0),
   Setup(<<0, 2, 2, 3, 3, 6>>, 4, 6, 2)}

SingleRecord == {Setup(Bounds, 1, 0, 0)}
=============================================================================
