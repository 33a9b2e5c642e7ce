------------------------ MODULE MCSignalFileMalformed ------------------------
(* Rows of one hour with both values, and with none. *)
EXTENDS SignalFile

MCNullKey == -100

RowOf(ts, int, dec) ==
    [ts |-> ts, series |-> 1, gpu |-> NULL, inst |-> NULL, val_i |-> int, val_d |-> dec]

MalformedInputs ==
    {<<RowOf(1, 8, a), RowOf(2, b, c)>> :
        a \in {NULL, 4}, b \in {NULL, 7}, c \in {NULL, 6}}

WholeFile == [tsLo : {NULL}, tsHi : {NULL}, seriesIds : {NULL}, epochHour : {NULL}]
=============================================================================
