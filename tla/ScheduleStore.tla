---------------------------- MODULE ScheduleStore ----------------------------
(***************************************************************************)
(* What the handlers of report schedules promise, whatever overlaps: ids   *)
(* are given once, a deleted schedule never comes back, and an update      *)
(* writes the fields it was given over a row the schedule once had.  It    *)
(* does not promise that this row is the latest: fields of another update  *)
(* may be undone.                                                          *)
(***************************************************************************)
CONSTANTS
  Ids,      \* ids of schedules
  Fields,   \* columns an update may set
  Values,   \* their values
  Absent    \* no row

Row    == [Fields -> Values]
Change == UNION {[F -> Values] : F \in SUBSET Fields}

\* The row with the given fields replaced.
Apply(ch, row) ==
  [f \in Fields |-> IF f \in DOMAIN ch THEN ch[f] ELSE row[f]]

VARIABLES
  rows,     \* the row of each id, or Absent
  versions  \* the rows each id has had

Init == /\ rows = [i \in Ids |-> Absent]
        /\ versions = [i \in Ids |-> {}]

Write(i, row) == /\ rows' = [rows EXCEPT ![i] = row]
                 /\ versions' = [versions EXCEPT ![i] = @ \cup {row}]

Insert(i) == /\ versions[i] = {}
             /\ \E row \in Row : Write(i, row)

Overwrite(i) == /\ rows[i] # Absent
                /\ \E old \in versions[i], ch \in Change : Write(i, Apply(ch, old))

Remove(i) == /\ rows[i] # Absent
             /\ rows' = [rows EXCEPT ![i] = Absent]
             /\ UNCHANGED versions

Next == \E i \in Ids : Insert(i) \/ Overwrite(i) \/ Remove(i)

Spec == Init /\ [][Next]_<<rows, versions>>
=============================================================================
