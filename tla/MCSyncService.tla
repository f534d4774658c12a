---------------------------- MODULE MCSyncService ----------------------------
(* Small broker books for SyncService.  Asset a1 is held on days 0 and 1; a2 *)
(* is held on day 0 and sold on day 1, so its day-1 transaction belongs to   *)
(* an asset with no holding that day; day 2 has no data at all.  Both assets *)
(* share a category, so two requests race to create it.                      *)
EXTENDS SyncService, TLC

CONSTANTS r1, r2, r3, c1, c2, a1, a2, k1

Pos(a, d)    == [client |-> c1, asset |-> a, day |-> d]
Mov(a, d, n) == [client |-> c1, asset |-> a, day |-> d, id |-> n]

MCCategoryOf == [a \in Assets |-> k1]
MCPositions  == {Pos(a1, 0), Pos(a1, 1), Pos(a2, 0)}
MCMovements  == {Mov(a1, 1, 1), Mov(a2, 1, 1), Mov(a2, Undated, 1)}

\* Two clients holding the same asset, each with a transaction on its own day.
TwoPositions == {Pos(a1, 0), Pos(a1, 1), Pos(a2, 0)}
                  \cup {[client |-> c2, asset |-> a1, day |-> 0]}
TwoMovements == {Mov(a1, 0, 1), Mov(a1, 0, 2), Mov(a1, 1, 1)}
                  \cup {[client |-> c2, asset |-> a1, day |-> 0, id |-> 1]}

Symmetry == Permutations(Requests)
=============================================================================
