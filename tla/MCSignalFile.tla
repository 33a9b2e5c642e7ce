---------------------------- MODULE MCSignalFile ----------------------------
(* Rows of one hour (HourLen 10, hour 0).  Series 1 has lanes for a null   *)
(* gpu and two gpus, a second row for one of its cells, and a decimal      *)
(* lane; Unit 2 makes odd decimals too fine for the dec plane.             *)
EXTENDS SignalFile

IntRow(ts, series, gpu, inst, v) ==
    [ts |-> ts, series |-> series, gpu |-> gpu, inst |-> inst,
     val_i |-> v, val_d |-> NULL]
DecRow(ts, series, gpu, inst, v) ==
    [ts |-> ts, series |-> series, gpu |-> gpu, inst |-> inst,
     val_i |-> NULL, val_d |-> v]

MCNullKey == -100

Fine == DecRow(3, 4, NULL, NULL, 5)
MCRows == {IntRow(1, 1, NULL, NULL, 7), IntRow(1, 1, 0, NULL, 8),
           IntRow(1, 1, 0, NULL, 9), IntRow(2, 1, 1, NULL, 7),
           IntRow(3, 2, 0, 0, 6), IntRow(2, 2, 0, 1, 0),
           DecRow(1, 1, 0, NULL, 4), DecRow(2, 4, NULL, NULL, 2), Fine}

(* Longer writes: a series of four lanes between two others. *)
ManyLanes ==
    <<IntRow(4, 3, NULL, NULL, 1), IntRow(2, 2, 2, NULL, 2),
      IntRow(1, 2, 0, NULL, 3), IntRow(2, 2, 0, NULL, 4),
      IntRow(1, 1, NULL, NULL, 5), IntRow(4, 2, NULL, 3, 6),
      IntRow(3, 2, 1, NULL, 7)>>


(* All time and series bounds, and the file's and another hour. *)
MCWindows ==
    [tsLo : {NULL, 2, 4}, tsHi : {NULL, 0, 2},
     seriesIds : {NULL, {}, {1}, {2, 3}, {1, 4}}, epochHour : {NULL}]
    \cup [tsLo : {NULL, 2}, tsHi : {NULL}, seriesIds : {NULL, {1}},
           epochHour : {0, 1}]

(* Rewrites of one path, good and failing in turn. *)
RewriteInputs ==
    {<<IntRow(1, 1, NULL, NULL, 7)>>,
     <<IntRow(1, 1, 0, NULL, 8), IntRow(2, 1, 1, NULL, 9)>>,
     <<IntRow(2, 2, 0, NULL, 3), Fine>>,
     <<Fine>>,
     <<DecRow(1, 1, 0, NULL, 4), DecRow(2, 1, 0, NULL, 6), IntRow(3, 2, 1, 1, 2)>>,
     ManyLanes}

(* Every write of at most three rows, and the rewrites. *)
MCInputs == (UNION {[1 .. n -> MCRows] : n \in 0 .. 3}) \cup RewriteInputs

(* None of them has two values or none. *)
ASSUME MCWellFormed == WellFormed
=============================================================================
