------------------------- MODULE MCReferenceVariables -------------------------
(* A report and a lookup, or two reports, of a few days. *)
EXTENDS ReferenceVariables, TLC

MCWindows == {[from |-> 1, to |-> 4, interval |-> 1], [from |-> 2, to |-> 4, interval |-> 2]}

MCQuotes == {(2 :> 4 @@ 3 :> 6 @@ 4 :> 3), (1 :> 4 @@ 2 :> 0 @@ 3 :> 8)}
=============================================================================
