---------------------------- MODULE MCMcpServer ----------------------------
(* A small instance of McpServer: only a "new" client comes back, with its *)
(* own state or with another's.                                            *)
EXTENDS McpServer

CONSTANTS c1, c2

MCClients == {[c \in Calls |-> IF c = c1 THEN "new" ELSE kind] :
                 kind \in {"new", "old", "none"}}
=============================================================================
