------------------------ MODULE MCGroupedConnection -------------------------
EXTENDS GroupedConnection

\* k a category, d a date (year * 100 + day), n a number; 5 is out of scope.
MCTable == <<[k |-> 1, d |-> 701, n |-> 4], [k |-> 2, d |-> 701, n |-> Null],
             [k |-> 1, d |-> 709, n |-> 2], [k |-> Null, d |-> 801, n |-> 2],
             [k |-> 2, d |-> 801, n |-> 9]>>
MCOperationOf == [f |-> "p", g |-> "p", h |-> "q"]

Entry(c, i) == [col |-> c, interval |-> i]
Ask(rows, by, items, order, page) ==
    [wanted |-> rows, sorted |-> page = 3, connection |-> TRUE, page |-> page, by |-> by,
     groups |-> TRUE, items |-> items, order |-> order]
All == 1 .. 5
ByN == <<[col |-> "n", desc |-> TRUE]>>
MCRequests ==
    {Ask(All, <<Entry("k", None), Entry("k", None)>>, [start |-> 0, limit |-> 5], ByN, 3),
     Ask(All, <<Entry("k", None)>>, [start |-> 1, limit |-> 1], <<>>, 5),
     Ask({1, 3, 4}, <<Entry("d", "QUARTER")>>, [start |-> 0, limit |-> 2], <<>>, 2),
     Ask(All, <<Entry("d", "DAY"), Entry("k", None)>>, None, <<>>, 5),
     [wanted |-> {2, 3, 4}, sorted |-> FALSE, connection |-> FALSE, page |-> 0, by |-> None,
      groups |-> FALSE, items |-> None, order |-> <<>>]}
=============================================================================
