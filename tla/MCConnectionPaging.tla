------------------------ MODULE MCConnectionPaging -------------------------
(* Four rows, of which three tie; pages of one row and of two.             *)
EXTENDS ConnectionPaging

MCRankOf == [r \in Rows |-> IF r = 1 THEN 1 ELSE 0]

MCQueries ==
  {Plain, [Plain EXCEPT !.skip = 1, !.limit = 2],
   [Plain EXCEPT !.kind = "sliced", !.limit = 3],
   [Plain EXCEPT !.kind = "whole"]}

\* Pages from cursors before, inside, at the end of and past the rows, and
\* past every position; the last rows after one; and a window that ends
\* before it begins.
MCWindows ==
  {Forward(n, p) : n \in 0..2, p \in {-1, 0, 1, 3, 4, 6, 7, 8}}
    \cup {[Backward(n) EXCEPT !.start = p] : n \in 0..2, p \in {0, 1, 5, 7}}
    \cup {Before(2, 3), [start |-> 3, end |-> 2, last |-> None]}
=============================================================================
