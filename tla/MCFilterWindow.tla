--------------------------- MODULE MCFilterWindow ---------------------------
(* A file of one hour (HourLen 4, hour 0) with rows at the largest long,   *)
(* at two other times and in two series, and literals on both ends of long.*)
EXTENDS FilterWindow

MCRows == {[ts |-> 0, series |-> 1], [ts |-> 1, series |-> 2],
           [ts |-> 2, series |-> 1]}
MCSeriesIds == {1, 2, 3}
MCHours == {0, 1}
MCMinLong == -1
=============================================================================
