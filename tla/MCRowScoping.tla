---------------------------- MODULE MCRowScoping ----------------------------
EXTENDS RowScoping

CONSTANTS a, b, c, u

MCRows == {a, b, c, u}
MCLinks == [boss |-> [r \in MCRows |-> CASE r = a -> {b} [] r = b -> {c}
                                         [] r = c -> {a} [] r = u -> {}],
            team |-> [r \in MCRows |-> CASE r = a -> {b, c} [] r = b -> {a}
                                         [] r = c -> {} [] r = u -> {}]]
MCEdgeAllows == [boss |-> MCRows, team |-> {a, b, u}]
MCSelections == {<<>>, [boss |-> {"team"}], [team |-> {"boss"}]}
MCOwnLoads == {{}, {"boss"}, {"team"}}
=============================================================================
