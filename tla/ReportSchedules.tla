--------------------------- MODULE ReportSchedules ---------------------------
(***************************************************************************)
(* The handlers of report schedules: create, update, delete, and the two   *)
(* reads.  Each statement is a transaction of its own.  An update reads    *)
(* the row, replaces the fields it was given, and writes all the columns   *)
(* back in a second statement; a delete asks whether the row exists before *)
(* it deletes.  Requests interleave between the two statements.            *)
(***************************************************************************)
EXTENDS Naturals

CONSTANTS
  Requests,  \* requests of any kind
  MaxId,     \* bound: ids the table gives out
  Fields,    \* columns an update may set
  Values,    \* their values
  Defaults,  \* the columns the database fills in for a new row (active)
  Absent,    \* no row
  None       \* not yet a request, no copy

Ids    == 1 .. MaxId
Row    == [Fields -> Values]
Change == UNION {[F -> Values] : F \in SUBSET Fields}

ASSUME ScheduleAssumption ==
  /\ MaxId \in Nat
  /\ Defaults \in Change
  /\ Absent \notin Row /\ None \notin Row

VARIABLES
  pc,       \* the statement a request makes next
  id,       \* the schedule it is about
  change,   \* the fields it provides
  copy,     \* reportSchedule: the row an update read, its fields replaced
  rows,     \* table report_schedules
  nextId,   \* its sequence of ids
  versions, \* history: the rows each schedule has had
  before    \* history: the requests that had ended when one began

local   == <<id, change, copy>>
history == <<versions, before>>
vars    == <<pc, local, rows, nextId, history>>

InFlight == {"insert", "read", "write", "exists", "delete", "get", "list"}
Ended    == {"created", "updated", "deleted", "got", "failed"}

NoChange == [f \in {} |-> None]

Init ==
  /\ pc     = [r \in Requests |-> "idle"]
  /\ id     = [r \in Requests |-> None]
  /\ change = [r \in Requests |-> NoChange]
  /\ copy   = [r \in Requests |-> None]
  /\ rows   = [i \in Ids |-> Absent]
  /\ nextId = 1
  /\ versions = [i \in Ids |-> {}]
  /\ before = [r \in Requests |-> {}]

At(r, l)   == pc[r] = l
Goto(r, l) == pc' = [pc EXCEPT ![r] = l]

\* The statement took effect; its answer may be late or lost.
Committed(r, l) == Goto(r, l) \/ Goto(r, "failed")

\* Mutation: provided fields are replaced by the row's.
ApplyReversed(ch, row) == row

\* Update fields only if they are provided.
Apply(ch, row) == [f \in Fields |-> IF f \in DOMAIN ch THEN ch[f] ELSE row[f]]

Write(i, row) == /\ rows' = [rows EXCEPT ![i] = row]
                 /\ versions' = [versions EXCEPT ![i] = @ \cup {row}]

-----------------------------------------------------------------------------
Begin(r, l) ==
  /\ At(r, "idle")
  /\ Goto(r, l)
  /\ before' = [before EXCEPT ![r] = {q \in Requests : pc[q] \in Ended}]
  /\ UNCHANGED <<copy, rows, nextId, versions>>

\* A new schedule comes with every column but the defaults.
CreateRequest(r, ch) ==
  /\ DOMAIN ch = Fields \ DOMAIN Defaults
  /\ change' = [change EXCEPT ![r] = ch]
  /\ Begin(r, "insert")
  /\ UNCHANGED id

UpdateRequest(r, i, ch) ==
  /\ id' = [id EXCEPT ![r] = i]
  /\ change' = [change EXCEPT ![r] = ch]
  /\ Begin(r, "read")

OtherRequest(r, i, l) ==
  /\ id' = [id EXCEPT ![r] = i]
  /\ Begin(r, l)
  /\ UNCHANGED change

CreateReportSchedule(r) ==
  /\ At(r, "insert")
  /\ nextId \in Ids
  /\ nextId' = nextId + 1
  /\ id' = [id EXCEPT ![r] = nextId]
  /\ Write(nextId, [f \in Fields |->
                     IF f \in DOMAIN Defaults THEN Defaults[f] ELSE change[r][f]])
  /\ Committed(r, "created")
  /\ UNCHANGED <<change, copy, before>>

ReadRow(r) ==
  /\ At(r, "read")
  /\ IF rows[id[r]] = Absent
     THEN Goto(r, "failed") /\ UNCHANGED copy
     ELSE /\ Goto(r, "write")
          /\ copy' = [copy EXCEPT ![r] = Apply(change[r], rows[id[r]])]
  /\ UNCHANGED <<id, change, rows, nextId, history>>

\* Mutation: an upsert.
WriteRowBack(r) ==
  /\ At(r, "write")
  /\ Write(id[r], copy[r])
  /\ Committed(r, "updated")
  /\ UNCHANGED <<local, nextId, before>>

\* All columns are written, those not provided too; without a row the
\* RETURNING clause gives no rows, which is an error.
WriteRow(r) ==
  /\ At(r, "write")
  /\ IF rows[id[r]] = Absent
     THEN Goto(r, "failed") /\ UNCHANGED <<rows, versions>>
     ELSE Write(id[r], copy[r]) /\ Committed(r, "updated")
  /\ UNCHANGED <<local, nextId, before>>

\* Mutation: the row is not looked for.
RowExistsUnchecked(r) ==
  /\ At(r, "exists")
  /\ Goto(r, "delete")
  /\ UNCHANGED <<local, rows, nextId, history>>

RowExists(r) ==
  /\ At(r, "exists")
  /\ Goto(r, IF rows[id[r]] = Absent THEN "failed" ELSE "delete")
  /\ UNCHANGED <<local, rows, nextId, history>>

\* How many rows were deleted is not looked at.
DeleteRow(r) ==
  /\ At(r, "delete")
  /\ rows' = [rows EXCEPT ![id[r]] = Absent]
  /\ Committed(r, "deleted")
  /\ UNCHANGED <<local, nextId, history>>

\* The handlers answer no body, only whether the row is there.
GetReportScheduleByID(r) ==
  /\ At(r, "get")
  /\ Goto(r, IF rows[id[r]] = Absent THEN "failed" ELSE "got")
  /\ UNCHANGED <<local, rows, nextId, history>>

GetAllReportSchedules(r) ==
  /\ At(r, "list")
  /\ Goto(r, "got")
  /\ UNCHANGED <<local, rows, nextId, history>>

\* A statement fails, or the ten seconds of the request are over; an insert
\* that fails may have used up its id.
StatementFails(r) ==
  /\ pc[r] \in InFlight
  /\ Goto(r, "failed")
  /\ nextId' \in IF At(r, "insert") /\ nextId \in Ids THEN {nextId, nextId + 1} ELSE {nextId}
  /\ UNCHANGED <<local, rows, history>>

Step(r) ==
  \/ CreateReportSchedule(r)
  \/ ReadRow(r) \/ WriteRow(r)
  \/ RowExists(r) \/ DeleteRow(r)
  \/ GetReportScheduleByID(r) \/ GetAllReportSchedules(r)
  \/ StatementFails(r)

Next == \E r \in Requests :
  \/ \E ch \in Change : CreateRequest(r, ch)
  \/ \E i \in Ids, ch \in Change : UpdateRequest(r, i, ch)
  \/ \E i \in Ids, l \in {"exists", "get", "list"} : OtherRequest(r, i, l)
  \/ Step(r)

Spec == Init /\ [][Next]_vars

-----------------------------------------------------------------------------
TypeOK ==
  /\ pc \in [Requests -> InFlight \cup Ended \cup {"idle"}]
  /\ id \in [Requests -> Ids \cup {None}]
  /\ change \in [Requests -> Change]
  /\ copy \in [Requests -> Row \cup {None}]
  /\ rows \in [Ids -> Row \cup {Absent}]
  /\ nextId \in 1 .. MaxId + 1
  /\ versions \in [Ids -> SUBSET Row]
  /\ before \in [Requests -> SUBSET Requests]

\* Requests about one schedule, neither of which had ended when the other began.
Overlap(q, r) == /\ q # r /\ id[q] = id[r]
                 /\ pc[q] # "idle" /\ pc[r] # "idle"
                 /\ q \notin before[r] /\ r \notin before[q]

(***************************************************************************)
(* What an update acknowledged is undone only by a later request that      *)
(* provided the same field, or by an update that overlapped it (or a       *)
(* request that failed, for that may be an update whose acknowledgement    *)
(* was lost): as long as the requests for a schedule do not overlap, no    *)
(* update is lost.                                                         *)
(***************************************************************************)
MayUndo(q, r, f) ==
  /\ q # r /\ id[q] = id[r] /\ pc[q] \in Ended
  /\ q \notin before[r]
  /\ f \in DOMAIN change[q] \/ (Overlap(q, r) /\ pc[q] \in {"updated", "failed"})

LostUpdateNeedsOverlap ==
  \A r \in Requests : At(r, "updated") =>
    \A f \in DOMAIN change[r] :
      \/ rows[id[r]] = Absent
      \/ rows[id[r]][f] = change[r][f]
      \/ \E q \in Requests : MayUndo(q, r, f)

(***************************************************************************)
(* Two deletes of one schedule both succeed only if they overlapped, and   *)
(* after a delete that succeeded the schedule is gone for good.            *)
(***************************************************************************)
DeletedOnce ==
  \A q, r \in Requests :
    (At(q, "deleted") /\ id[q] = id[r]) =>
      /\ rows[id[q]] = Absent
      /\ (At(r, "deleted") /\ q # r) => Overlap(q, r)

(***************************************************************************)
(* No update, whatever overlaps it, puts into a schedule what nobody wrote *)
(* there: each of its fields was provided for it, or came with its         *)
(* creation.                                                               *)
(***************************************************************************)
FieldsWereProvided ==
  \A i \in Ids : rows[i] # Absent =>
    \A f \in Fields :
      \/ f \in DOMAIN Defaults /\ rows[i][f] = Defaults[f]
      \/ \E r \in Requests : /\ id[r] = i /\ pc[r] \in Ended
                             /\ f \in DOMAIN change[r] /\ rows[i][f] = change[r][f]

(***************************************************************************)
(* The inductive invariant of the last two, and of the refinement: what a  *)
(* request goes by is an earlier row of its schedule, and a schedule that  *)
(* an ended request deleted is out of reach of every later one.            *)
(***************************************************************************)
Provided(i, f, v) ==
  \/ f \in DOMAIN Defaults /\ v = Defaults[f]
  \/ \E r \in Requests : /\ id[r] = i /\ pc[r] \in Ended
                         /\ f \in DOMAIN change[r] /\ v = change[r][f]

TableInv ==
  /\ \A i \in Ids : rows[i] # Absent => rows[i] \in versions[i]
  /\ \A i \in Ids : i >= nextId => versions[i] = {}
  /\ \A i \in Ids, f \in Fields : \A row \in versions[i] : Provided(i, f, row[f])

RequestInv(r) ==
  /\ pc[r] = "insert" => DOMAIN change[r] = Fields \ DOMAIN Defaults
  /\ pc[r] \in {"read", "write", "exists", "delete", "get", "deleted"} => id[r] \in Ids
  /\ pc[r] = "write" => \E old \in versions[id[r]] : copy[r] = Apply(change[r], old)
  /\ pc[r] \in {"delete", "deleted"} => versions[id[r]] # {}
  /\ pc[r] = "deleted" => rows[id[r]] = Absent

DeletesInv ==
  \A q, r \in Requests :
    /\ (q \in before[r] /\ pc[r] # "idle") => pc[q] \in Ended /\ q # r
    /\ (q \in before[r] /\ pc[q] = "deleted" /\ id[q] = id[r]) =>
         pc[r] \notin {"delete", "deleted"}

IInv == /\ TypeOK /\ TableInv /\ DeletesInv
        /\ \A r \in Requests : RequestInv(r)

(***************************************************************************)
(* For LostUpdateNeedsOverlap: what an update read after another had ended *)
(* has that one's fields, unless one that may undo them came in between.   *)
(***************************************************************************)
UpdatesInv ==
  /\ LostUpdateNeedsOverlap
  /\ \A r \in Requests : At(r, "updated") => id[r] \in Ids /\ versions[id[r]] # {}
  /\ \A q, r \in Requests :
       (At(q, "write") /\ At(r, "updated") /\ r \in before[q] /\ id[q] = id[r]) =>
         \A f \in DOMAIN change[r] \ DOMAIN change[q] :
           \/ copy[q][f] = change[r][f]
           \/ \E p \in Requests : MayUndo(p, r, f)

\* The table is the abstract store: no id is given twice, no deleted schedule
\* returns, and every row is an earlier one with provided fields replaced.
Store == INSTANCE ScheduleStore

ImplementsStore == Store!Spec
=============================================================================
