-------------------------- MODULE MCAccountQueries --------------------------
(* A report of one or two accounts while requests sync them. *)
EXTENDS AccountQueries

CONSTANTS r1, r2, c1, c2, a1, a2, k1, k2

Pos(c, a, d)    == [client |-> c, asset |-> a, day |-> d]
Mov(c, a, d, n) == [client |-> c, asset |-> a, day |-> d, id |-> n]

MCCategoryOf == [a \in Assets |-> IF a = a1 THEN k1 ELSE k2]
MCPositions  == {Pos(c1, a1, 0), Pos(c2, a2, 0)}
MCMovements  == {Mov(c1, a1, 0, 1)}

MCReportQueries == {[clients |-> cs, from |-> 0, to |-> 0] : cs \in {{c2}, Clients}}
=============================================================================
