---------------------------- MODULE MCNetCDF3File ----------------------------
(* Instances of NetCDF3File for TLC.                                        *)
EXTENDS NetCDF3File

(* A file is written and read again; two records are written to a file of   *)
(* spatial time series, and to a file of snapshots.                         *)
AllSessions ==
  {<<"dump", "read">>, <<"first extra", "later extra">>,
   <<"first snapshot", "later snapshot">>}
=============================================================================
