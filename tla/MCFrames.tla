------------------------------ MODULE MCFrames ------------------------------
EXTENDS Frames

Dataset(n, m, w) == [n_series |-> n, n_time |-> m, itemsize |-> w]
Signals == {NULL, [version |-> 1, group |-> TRUE], [version |-> 2, group |-> TRUE],
            [version |-> 2, group |-> FALSE]}
Machines ==
    {NULL, [seeAlso |-> FALSE, values |-> Dataset(3, 2, 2)], [seeAlso |-> TRUE, values |-> NULL]}
    \cup {[seeAlso |-> TRUE, values |-> Dataset(d[1], d[2], d[3])] :
             d \in {<<3, 2, 2>>, <<2, 3, 2>>, <<2, 2, 4>>, <<2, 0, 2>>}}
Child(name, values) == [name |-> name, values |-> values]
Otels ==
    {NULL, <<>>, <<Child("Gauge", Dataset(2, 1, 2)), Child("Metric_0", Dataset(3, 1, 2))>>,
     <<Child("Metric[0]", NULL), Child("Other", Dataset(1, 2, 2))>>,
     <<Child("Metric[0]", Dataset(1, 3, 2)), Child("Metric_0", Dataset(3, 1, 2))>>}
MCTrees ==
    [signal : Signals, machine : Machines, otel : {NULL}]
    \cup [signal : {NULL}, machine : {NULL, [seeAlso |-> TRUE, values |-> Dataset(3, 2, 2)]}, otel : Otels]

MCSlabs == {<<0, NULL>>, <<0, 1>>, <<1, 3>>, <<1, 2>>, <<2, 1>>, <<-1, NULL>>, <<1, 5>>}

(* m_n and S_M have a letter outside ASCII: a dotless i, a long s. *)
MCUpperOf ==
    [sum |-> "SUM", avg |-> "AVG", count |-> "COUNT", m_n |-> "MIN", M_N |-> "MIN",
     s_m |-> "SUM", S_M |-> "SUM"]
MCAsciiUpperOf ==
    [sum |-> "SUM", avg |-> "AVG", count |-> "COUNT", m_n |-> "M_N", s_m |-> "S_M"]
MCStamps == {<<>>, <<"sum", "AVG">>, <<"m_n">>}
Json(kind, items) == [json |-> kind, items |-> items]
MCForeignMetas ==
    {[measure_iri |-> "iri", aggregations |-> raw] : raw \in
        {Json("array", <<"sum">>), Json("array", <<"m_n">>), Json("array", <<"SUM", NULL>>), Json("object", <<"avg">>),
         Json("string", <<>>), Json("number", <<>>), Json("invalid", <<>>)}}
    \cup {[note |-> "x"]}
MCOps == {"sum", "SUM", "avg", "AVG", "count", "MIN", "m_n", "s_m"}
=============================================================================
