----------------------------- MODULE MCOrdering -----------------------------
EXTENDS Ordering

\* Two terms at most, on two columns of one's own and one of a related row.
MCTerms == {[up |-> FALSE, col |-> "age", desc |-> d, nulls |-> n] :
                d \in BOOLEAN, n \in {"default", "first", "last"}}
           \cup {[up |-> u, col |-> "name", desc |-> d, nulls |-> "default"] :
                u \in BOOLEAN, d \in BOOLEAN}
MCOrders == {<<t>> : t \in MCTerms} \cup {<<t, s>> : t \in MCTerms, s \in MCTerms}
MCOrderTables ==
    LET Up(n) == IF n = NoValue THEN n ELSE [name |-> n]
        N == NoValue
    IN  {[i \in 1 .. 3 |-> [age |-> a[1][i], name |-> a[2][i], up |-> Up(a[3][i])]] :
            a \in {<< <<2, 1, 2>>, <<1, 2, 2>>, <<1, 1, 2>> >>,
                   << <<2, 1, 2>>, <<1, 1, N>>, <<N, 2, 1>> >>,
                   << <<2, N, 1>>, <<1, 2, 2>>, <<N, 2, 1>> >>,
                   << <<N, 1, N>>, <<2, N, 1>>, <<1, 1, 2>> >>}}
MCOtherOrder == <<[up |-> FALSE, col |-> "name", desc |-> TRUE, nulls |-> "last"]>>
=============================================================================
