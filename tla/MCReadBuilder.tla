---------------------------- MODULE MCReadBuilder ----------------------------
(* int16 is -4 .. 3 and an hour 4 ns.  The first of two samples of a call  *)
(* and the second differ in every measure, before and after rounding.      *)
EXTENDS ReadBuilder

Quantities == <<[power_w |-> 3, util_pct |-> 2, mem_used_mb |-> 9, temp_c |-> -11],
                [power_w |-> -2, util_pct |-> 5, mem_used_mb |-> 0, temp_c |-> 3]>>

Sample(k, ts, gpu) == [ts_ns |-> ts, gpu_index |-> gpu] @@ Quantities[k]
Cells == {1, 5} \X (0 .. 2)
SampleSeqs ==
    {<<>>} \cup {<<Sample(1, c[1], c[2])>> : c \in Cells}
           \cup {<<Sample(1, c[1], c[2]), Sample(2, d[1], d[2])>> : c, d \in Cells}

Given(n, m) ==
    [nSeries |-> n, nTime |-> m,
     cells |-> [c \in Indices(n) \X Indices(m) |-> c[1] * m + c[2] - 2]]
RankOne == [nSeries |-> NULL, nTime |-> 2, cells |-> <<>>]
Shapes == {<<1, 2>>, <<4, 1>>, <<8, 1>>}

Warehouses == {[writer |-> "warehouse", samples |-> s] : s \in SampleSeqs}
Analogs ==
    {[writer |-> "analog", values |-> Given(d[1], d[2]), timestamps |-> ts] :
        d \in Shapes, ts \in {NULL, <<2>>, <<-3, 7>>}}
    \cup {[writer |-> "analog", values |-> RankOne, timestamps |-> NULL]}
Others ==
    {[writer |-> "other", file |-> f] : f \in
        {[values |-> NULL, timestamps |-> <<>>],
         [values |-> Given(2, 2), timestamps |-> <<>>],
         [values |-> Given(2, 2), timestamps |-> [t \in {0} |-> 7]],
         [signal |-> <<[ts_ns |-> 1, series_id |-> 1, val_i |-> 2],
                       [ts_ns |-> 5, series_id |-> 1, val_i |-> 3]>>,
          values |-> NULL, timestamps |-> <<>>]}}
MCSources == Warehouses \cup Analogs \cup Others

WarehouseSchema == {"epoch_hour", "ts_ns", "gpu_index"} \cup ToSet(Measures)
PlainSchema == {"gpu_index", "sample", "value", "note"}
MCPlans == {<<0>>, <<0, 1>>}
MCRequests ==
    {<<<<"project", WarehouseSchema>>, <<"filter", NULL>>>>,
     <<<<"engineProjection", PlainSchema>>,
       <<"filter", [column |-> "value", values |-> {-1, 0, 2}]>>>>,
     <<<<"filter", [column |-> "ts_ns", values |-> {1, 3}]>>,
       <<"project", WarehouseSchema>>, <<"engineProjection", PlainSchema>>>>,
     <<<<"engineProjection", WarehouseSchema>>, <<"project", PlainSchema>>,
       <<"filter", [column |-> "ts_ns", values |-> {1}]>>>>,
     <<<<"filter", [column |-> "ts_ns", values |-> {1}]>>>>}
WholeFile == {<<0>>}
=============================================================================
