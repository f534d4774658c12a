------------------------ MODULE ReportSchedulesProofs ------------------------
(***************************************************************************)
(* Proofs about ReportSchedules, for any number of requests and any fields *)
(* and values: the inductive invariant, what follows from it for deletes   *)
(* and fields, and that the table implements the abstract store.           *)
(***************************************************************************)
EXTENDS ReportSchedules, TLAPS

USE ScheduleAssumption

\* Replacing fields of a row gives a row.
LEMMA ApplyIsRow ==
  ASSUME NEW ch \in Change, NEW row \in Row
  PROVE  Apply(ch, row) \in Row
  BY DEF Apply, Change, Row

\* The fields of a create and the defaults together make a row.
LEMMA CreatedIsRow ==
  ASSUME NEW ch \in Change, DOMAIN ch = Fields \ DOMAIN Defaults
  PROVE  [f \in Fields |-> IF f \in DOMAIN Defaults THEN Defaults[f] ELSE ch[f]] \in Row
  BY DEF Change, Row

\* The invariant holds of the empty table.
LEMMA InitInv == Init => IInv
<1> SUFFICES ASSUME Init PROVE IInv
  OBVIOUS
<1>1. NoChange \in Change
  <2>1. NoChange \in [{} -> Values]
    BY DEF NoChange
  <2>2. QED
    BY <2>1 DEF Change
<1>2. TypeOK
  BY <1>1 DEF Init, TypeOK, InFlight, Ended, Ids
<1>3. TableInv
  BY DEF Init, TableInv
<1>4. DeletesInv
  BY DEF Init, DeletesInv
<1>5. \A r \in Requests : RequestInv(r)
  BY DEF Init, RequestInv
<1>6. QED
  BY <1>2, <1>3, <1>4, <1>5 DEF IInv

-----------------------------------------------------------------------------
\* Every step keeps the types.
LEMMA TypeStep ==
  ASSUME IInv, [Next]_vars
  PROVE  TypeOK'
<1> USE DEF TypeOK, InFlight, Ended
<1>0. TypeOK /\ \A r \in Requests : RequestInv(r)
  BY DEF IInv
<1>1. ASSUME NEW r \in Requests, NEW ch \in Change, CreateRequest(r, ch)
      PROVE  TypeOK'
  BY <1>0, <1>1 DEF CreateRequest, Begin, Goto
<1>2. ASSUME NEW r \in Requests, NEW i \in Ids, NEW ch \in Change, UpdateRequest(r, i, ch)
      PROVE  TypeOK'
  BY <1>0, <1>2 DEF UpdateRequest, Begin, Goto
<1>3. ASSUME NEW r \in Requests, NEW i \in Ids, NEW l \in {"exists", "get", "list"},
             OtherRequest(r, i, l)
      PROVE  TypeOK'
  BY <1>0, <1>3 DEF OtherRequest, Begin, Goto
<1>4. ASSUME NEW r \in Requests, CreateReportSchedule(r)
      PROVE  TypeOK'
  <2> DEFINE row == [f \in Fields |->
                      IF f \in DOMAIN Defaults THEN Defaults[f] ELSE change[r][f]]
  <2>1. row \in Row
    <3>1. change[r] \in Change /\ DOMAIN change[r] = Fields \ DOMAIN Defaults
      BY <1>0, <1>4 DEF CreateReportSchedule, At, RequestInv
    <3>2. QED
      BY <3>1, CreatedIsRow
  <2>2. /\ rows' = [rows EXCEPT ![nextId] = row]
        /\ versions' = [versions EXCEPT ![nextId] = @ \cup {row}]
    BY <1>4 DEF CreateReportSchedule, Write
  <2> HIDE DEF row
  <2>3. nextId \in Ids /\ nextId' \in 1 .. MaxId + 1
    BY <1>0, <1>4 DEF CreateReportSchedule, Ids
  <2>4. /\ pc' \in [Requests -> InFlight \cup Ended \cup {"idle"}]
        /\ id' \in [Requests -> Ids \cup {None}]
        /\ UNCHANGED <<change, copy, before>>
    BY <1>0, <1>4, <2>3 DEF CreateReportSchedule, Committed, Goto
  <2>5. rows' \in [Ids -> Row \cup {Absent}] /\ versions' \in [Ids -> SUBSET Row]
    BY <1>0, <2>1, <2>2, <2>3
  <2>6. QED
    BY <1>0, <2>3, <2>4, <2>5
<1>5. ASSUME NEW r \in Requests, ReadRow(r)
      PROVE  TypeOK'
  <2>1. rows[id[r]] \in Row \cup {Absent} /\ change[r] \in Change
    BY <1>0, <1>5 DEF ReadRow, At, RequestInv
  <2>2. rows[id[r]] # Absent => Apply(change[r], rows[id[r]]) \in Row
    BY <2>1, ApplyIsRow
  <2>3. QED
    BY <1>0, <1>5, <2>1, <2>2 DEF ReadRow, Goto, history
<1>6. ASSUME NEW r \in Requests, WriteRow(r)
      PROVE  TypeOK'
  <2>1. id[r] \in Ids /\ copy[r] \in Row
    <3>1. /\ id[r] \in Ids
          /\ \E old \in versions[id[r]] : copy[r] = Apply(change[r], old)
      BY <1>0, <1>6 DEF WriteRow, At, RequestInv
    <3>2. versions[id[r]] \subseteq Row /\ change[r] \in Change
      BY <1>0, <3>1
    <3>3. QED
      BY <3>1, <3>2, ApplyIsRow
  <2>2. QED
    BY <1>0, <1>6, <2>1 DEF WriteRow, Write, Committed, Goto, local
<1>7. ASSUME NEW r \in Requests, RowExists(r)
      PROVE  TypeOK'
  BY <1>0, <1>7 DEF RowExists, Goto, local, history
<1>8. ASSUME NEW r \in Requests, DeleteRow(r)
      PROVE  TypeOK'
  BY <1>0, <1>8 DEF DeleteRow, Committed, Goto, local, history
<1>9. ASSUME NEW r \in Requests, GetReportScheduleByID(r)
      PROVE  TypeOK'
  BY <1>0, <1>9 DEF GetReportScheduleByID, Goto, local, history
<1>10. ASSUME NEW r \in Requests, GetAllReportSchedules(r)
       PROVE  TypeOK'
  BY <1>0, <1>10 DEF GetAllReportSchedules, Goto, local, history
<1>11. ASSUME NEW r \in Requests, StatementFails(r)
       PROVE  TypeOK'
  <2>1. nextId' \in 1 .. MaxId + 1
    BY <1>0, <1>11 DEF StatementFails, Ids
  <2>2. QED
    BY <1>0, <1>11, <2>1 DEF StatementFails, Goto, local, history
<1>12. CASE UNCHANGED vars
  BY <1>0, <1>12 DEF vars, local, history
<1>13. QED
  BY <1>1, <1>2, <1>3, <1>4, <1>5, <1>6, <1>7, <1>8, <1>9, <1>10, <1>11, <1>12
     DEF Next, Step

-----------------------------------------------------------------------------
(***************************************************************************)
(* A step of one request: what it may change, in general terms.            *)
(***************************************************************************)
LEMMA OneRequestMoves ==
  ASSUME IInv, Next
  PROVE  \E r \in Requests :
           /\ pc[r] \notin Ended
           /\ \A q \in Requests \ {r} :
                /\ pc'[q] = pc[q] /\ id'[q] = id[q] /\ change'[q] = change[q]
                /\ copy'[q] = copy[q] /\ before'[q] = before[q]
<1> USE DEF TypeOK, InFlight, Ended
<1>0. TypeOK
  BY DEF IInv
<1>1. PICK r \in Requests :
        \/ \E ch \in Change : CreateRequest(r, ch)
        \/ \E i \in Ids, ch \in Change : UpdateRequest(r, i, ch)
        \/ \E i \in Ids, l \in {"exists", "get", "list"} : OtherRequest(r, i, l)
        \/ Step(r)
  BY DEF Next
<1>2. CASE \/ \E ch \in Change : CreateRequest(r, ch)
           \/ \E i \in Ids, ch \in Change : UpdateRequest(r, i, ch)
           \/ \E i \in Ids, l \in {"exists", "get", "list"} : OtherRequest(r, i, l)
  BY <1>0, <1>2 DEF CreateRequest, UpdateRequest, OtherRequest, Begin, At, Goto
<1>3. CASE Step(r)
  BY <1>0, <1>3 DEF Step, CreateReportSchedule, ReadRow, WriteRow, RowExists, DeleteRow,
     GetReportScheduleByID, GetAllReportSchedules, StatementFails, At, Goto, Committed,
     local, history
<1>4. QED
  BY <1>1, <1>2, <1>3

\* What an ended request provided stays provided.
LEMMA ProvidedStable ==
  ASSUME IInv, [Next]_vars, NEW i, NEW f, NEW v, Provided(i, f, v)
  PROVE  Provided(i, f, v)'
<1>1. CASE Next
  <2>1. \A r \in Requests : pc[r] \in Ended =>
          pc'[r] = pc[r] /\ id'[r] = id[r] /\ change'[r] = change[r]
    BY <1>1, OneRequestMoves
  <2>2. QED
    BY <2>1 DEF Provided
<1>2. CASE UNCHANGED vars
  BY <1>2 DEF vars, local, Provided
<1>3. QED
  BY <1>1, <1>2

-----------------------------------------------------------------------------
\* The statements that write neither the table nor its sequence.
LEMMA OtherStatements ==
  ASSUME IInv, [Next]_vars,
         ~ \E r \in Requests :
             \/ CreateReportSchedule(r) \/ WriteRow(r) \/ DeleteRow(r) \/ StatementFails(r)
  PROVE  UNCHANGED <<rows, versions, nextId>>
  BY DEF Next, Step, vars, history, CreateRequest, UpdateRequest, OtherRequest, Begin,
     ReadRow, RowExists, GetReportScheduleByID, GetAllReportSchedules

\* Every step keeps the table within the versions, and these within what was
\* provided.
LEMMA TableStep ==
  ASSUME IInv, [Next]_vars
  PROVE  TableInv'
<1>0. TypeOK /\ TableInv /\ \A r \in Requests : RequestInv(r)
  BY DEF IInv
<1>1. ASSUME NEW r \in Requests, CreateReportSchedule(r)
      PROVE  TableInv'
  <2>0. PICK n, row :
          /\ n \in Ids /\ n = nextId
          /\ row = [f \in Fields |->
                      IF f \in DOMAIN Defaults THEN Defaults[f] ELSE change[r][f]]
    BY <1>1 DEF CreateReportSchedule
  <2>1. /\ nextId' = n + 1
        /\ id' = [id EXCEPT ![r] = n]
        /\ rows' = [rows EXCEPT ![n] = row]
        /\ versions' = [versions EXCEPT ![n] = @ \cup {row}]
        /\ change' = change
    BY <1>1, <2>0 DEF CreateReportSchedule, Write
  <2>2. pc'[r] \in Ended
    BY <1>0, <1>1 DEF CreateReportSchedule, Committed, Goto, TypeOK, Ended
  <2>3. DOMAIN change[r] = Fields \ DOMAIN Defaults
    BY <1>0, <1>1 DEF CreateReportSchedule, At, RequestInv
  <2>4. ASSUME NEW f \in Fields PROVE Provided(n, f, row[f])'
    <3>1. f \in DOMAIN Defaults => row[f] = Defaults[f]
      BY <2>0
    <3>2. f \notin DOMAIN Defaults => f \in DOMAIN change'[r] /\ row[f] = change'[r][f]
      BY <2>0, <2>1, <2>3
    <3>3. id'[r] = n
      BY <1>0, <2>1 DEF TypeOK
    <3>4. QED
      BY <2>2, <3>1, <3>2, <3>3 DEF Provided
  <2>5. \A i \in Ids : rows'[i] # Absent => rows'[i] \in versions'[i]
    BY <1>0, <2>1 DEF TableInv, TypeOK
  <2>6. \A i \in Ids : i >= nextId' => versions'[i] = {}
    BY <1>0, <2>0, <2>1 DEF TableInv, TypeOK, Ids
  <2>7. \A i \in Ids, f \in Fields : \A v \in versions'[i] : Provided(i, f, v[f])'
    <3> SUFFICES ASSUME NEW i \in Ids, NEW f \in Fields, NEW v \in versions'[i]
                 PROVE  Provided(i, f, v[f])'
      OBVIOUS
    <3>1. CASE v \in versions[i]
      <4>1. Provided(i, f, v[f])
        BY <1>0, <3>1 DEF TableInv
      <4>2. QED
        BY <4>1, ProvidedStable
    <3>2. CASE v \notin versions[i]
      <4>1. i = n /\ v = row
        BY <1>0, <2>1, <3>2 DEF TypeOK
      <4>2. QED
        BY <4>1, <2>4
    <3>3. QED
      BY <3>1, <3>2
  <2>8. QED
    BY <2>5, <2>6, <2>7 DEF TableInv
<1>2. ASSUME NEW r \in Requests, WriteRow(r), rows[id[r]] # Absent
      PROVE  TableInv'
  <2>1. PICK i \in Ids : i = id[r]
    BY <1>0, <1>2 DEF WriteRow, At, RequestInv
  <2>2. PICK row : row = copy[r]
    OBVIOUS
  <2>3. PICK old \in versions[i] : row = Apply(change[r], old)
    BY <1>0, <1>2, <2>1, <2>2 DEF WriteRow, At, RequestInv
  <2>4. /\ rows' = [rows EXCEPT ![i] = row]
        /\ versions' = [versions EXCEPT ![i] = @ \cup {row}]
        /\ UNCHANGED <<id, change, nextId>>
    BY <1>2, <2>1, <2>2 DEF WriteRow, Write, local
  <2>5. pc'[r] \in Ended
    BY <1>0, <1>2 DEF WriteRow, Committed, Goto, TypeOK, Ended
  <2>6. ASSUME NEW f \in Fields PROVE Provided(i, f, row[f])'
    <3>1. CASE f \in DOMAIN change[r]
      <4>1. row[f] = change[r][f]
        BY <2>3, <3>1 DEF Apply
      <4>2. QED
        BY <2>1, <2>4, <2>5, <3>1, <4>1 DEF Provided
    <3>2. CASE f \notin DOMAIN change[r]
      <4>1. row[f] = old[f]
        BY <2>3, <3>2 DEF Apply
      <4>2. Provided(i, f, row[f])
        BY <1>0, <2>3, <4>1 DEF TableInv
      <4>3. QED
        BY <4>2, ProvidedStable
    <3>3. QED
      BY <3>1, <3>2
  <2>7. \A j \in Ids : rows'[j] # Absent => rows'[j] \in versions'[j]
    BY <1>0, <2>4 DEF TableInv, TypeOK
  <2>8. \A j \in Ids : j >= nextId' => versions'[j] = {}
    BY <1>0, <2>3, <2>4 DEF TableInv, TypeOK
  <2>9. \A j \in Ids, f \in Fields : \A v \in versions'[j] : Provided(j, f, v[f])'
    <3> SUFFICES ASSUME NEW j \in Ids, NEW f \in Fields, NEW v \in versions'[j]
                 PROVE  Provided(j, f, v[f])'
      OBVIOUS
    <3>1. CASE v \in versions[j]
      <4>1. Provided(j, f, v[f])
        BY <1>0, <3>1 DEF TableInv
      <4>2. QED
        BY <4>1, ProvidedStable
    <3>2. CASE v \notin versions[j]
      <4>1. j = i /\ v = row
        BY <1>0, <2>4, <3>2 DEF TypeOK
      <4>2. QED
        BY <4>1, <2>6
    <3>3. QED
      BY <3>1, <3>2
  <2>10. QED
    BY <2>7, <2>8, <2>9 DEF TableInv
<1>3. ASSUME UNCHANGED versions, \A i \in Ids : rows'[i] \in {rows[i], Absent},
             nextId' \in {nextId, nextId + 1}
      PROVE  TableInv'
  <2>1. \A i \in Ids, f \in Fields : \A v \in versions'[i] : Provided(i, f, v[f])'
    <3> SUFFICES ASSUME NEW i \in Ids, NEW f \in Fields, NEW v \in versions'[i]
                 PROVE  Provided(i, f, v[f])'
      OBVIOUS
    <3>1. Provided(i, f, v[f])
      BY <1>0, <1>3 DEF TableInv
    <3>2. QED
      BY <3>1, ProvidedStable
  <2>2. QED
    BY <1>0, <1>3, <2>1 DEF TableInv, TypeOK, Ids
<1>4. ASSUME NEW r \in Requests, WriteRow(r), rows[id[r]] = Absent
      PROVE  TableInv'
  BY <1>3, <1>4 DEF WriteRow
<1>5. ASSUME NEW r \in Requests, DeleteRow(r)
      PROVE  TableInv'
  BY <1>0, <1>3, <1>5 DEF DeleteRow, history, TypeOK
<1>6. ASSUME NEW r \in Requests, StatementFails(r)
      PROVE  TableInv'
  BY <1>3, <1>6 DEF StatementFails, history
<1>7. ASSUME UNCHANGED <<rows, versions, nextId>>
      PROVE  TableInv'
  BY <1>3, <1>7
<1>8. QED
  BY <1>1, <1>2, <1>4, <1>5, <1>6, <1>7, OtherStatements

-----------------------------------------------------------------------------
\* Versions are only added, and a deleted schedule stays deleted.
LEMMA VersionsGrow ==
  ASSUME IInv, [Next]_vars, NEW i \in Ids
  PROVE  /\ versions[i] \subseteq versions'[i]
         /\ (rows[i] = Absent /\ versions[i] # {}) => rows'[i] = Absent
<1>0. TypeOK /\ TableInv /\ \A r \in Requests : RequestInv(r)
  BY DEF IInv
<1>1. ASSUME NEW r \in Requests, CreateReportSchedule(r)
      PROVE  /\ versions[i] \subseteq versions'[i]
             /\ (rows[i] = Absent /\ versions[i] # {}) => rows'[i] = Absent
  <2>1. nextId \in Ids /\ versions[nextId] = {}
    BY <1>0, <1>1 DEF CreateReportSchedule, TableInv, Ids
  <2>2. QED
    BY <1>0, <1>1, <2>1 DEF CreateReportSchedule, Write, TypeOK
<1>2. ASSUME NEW r \in Requests, WriteRow(r)
      PROVE  /\ versions[i] \subseteq versions'[i]
             /\ (rows[i] = Absent /\ versions[i] # {}) => rows'[i] = Absent
  <2>1. id[r] \in Ids
    BY <1>0, <1>2 DEF WriteRow, At, RequestInv
  <2>2. QED
    BY <1>0, <1>2, <2>1 DEF WriteRow, Write, TypeOK
<1>3. ASSUME NEW r \in Requests, DeleteRow(r) \/ StatementFails(r)
      PROVE  /\ versions[i] \subseteq versions'[i]
             /\ (rows[i] = Absent /\ versions[i] # {}) => rows'[i] = Absent
  BY <1>0, <1>3 DEF DeleteRow, StatementFails, history, TypeOK
<1>4. QED
  BY <1>1, <1>2, <1>3, OtherStatements

\* Every step keeps what a request goes by: an earlier row of its schedule.
LEMMA RequestStep ==
  ASSUME IInv, [Next]_vars, NEW q \in Requests
  PROVE  RequestInv(q)'
<1>0. TypeOK /\ TableInv /\ \A r \in Requests : RequestInv(r)
  BY DEF IInv
<1>a. \A i \in Ids : /\ versions[i] \subseteq versions'[i]
                     /\ (rows[i] = Absent /\ versions[i] # {}) => rows'[i] = Absent
  BY VersionsGrow
<1>b. ASSUME pc'[q] = pc[q], id'[q] = id[q], change'[q] = change[q], copy'[q] = copy[q]
      PROVE  RequestInv(q)'
  <2>1. RequestInv(q)
    BY <1>0
  <2>2. pc[q] = "write" => \E old \in versions'[id'[q]] : copy'[q] = Apply(change'[q], old)
    BY <1>a, <1>b, <2>1 DEF RequestInv
  <2>3. QED
    BY <1>a, <1>b, <2>1, <2>2 DEF RequestInv, Apply
<1>c. ASSUME pc'[q] \in {"created", "updated", "got", "failed", "list"}
      PROVE  RequestInv(q)'
  BY <1>c DEF RequestInv
<1>2. ASSUME NEW ch \in Change, CreateRequest(q, ch)
      PROVE  RequestInv(q)'
  BY <1>0, <1>2 DEF CreateRequest, Begin, Goto, RequestInv, TypeOK
<1>3. ASSUME NEW i \in Ids, NEW ch \in Change, UpdateRequest(q, i, ch)
      PROVE  RequestInv(q)'
  BY <1>0, <1>3 DEF UpdateRequest, Begin, Goto, RequestInv, TypeOK
<1>4. ASSUME NEW i \in Ids, NEW l \in {"exists", "get", "list"}, OtherRequest(q, i, l)
      PROVE  RequestInv(q)'
  BY <1>0, <1>4 DEF OtherRequest, Begin, Goto, RequestInv, TypeOK
<1>5. ASSUME ReadRow(q)
      PROVE  RequestInv(q)'
  <2>1. CASE rows[id[q]] = Absent
    BY <1>0, <1>5, <1>c, <2>1 DEF ReadRow, Goto, TypeOK
  <2>2. CASE rows[id[q]] # Absent
    <3>1. id[q] \in Ids /\ rows[id[q]] \in versions[id[q]]
      BY <1>0, <1>5, <2>2 DEF ReadRow, At, RequestInv, TableInv
    <3>2. /\ pc'[q] = "write" /\ copy'[q] = Apply(change[q], rows[id[q]])
          /\ UNCHANGED <<id, change, versions>>
      BY <1>0, <1>5, <2>2 DEF ReadRow, Goto, TypeOK, history
    <3>3. QED
      BY <3>1, <3>2 DEF RequestInv, Apply
  <2>3. QED
    BY <2>1, <2>2
<1>6. ASSUME CreateReportSchedule(q) \/ WriteRow(q) \/ GetReportScheduleByID(q)
               \/ GetAllReportSchedules(q) \/ StatementFails(q)
      PROVE  RequestInv(q)'
  BY <1>0, <1>6, <1>c DEF CreateReportSchedule, WriteRow, GetReportScheduleByID,
     GetAllReportSchedules, StatementFails, Committed, Goto, TypeOK
<1>7. ASSUME RowExists(q)
      PROVE  RequestInv(q)'
  <2>1. id[q] \in Ids /\ (rows[id[q]] # Absent => versions[id[q]] # {})
    BY <1>0, <1>7 DEF RowExists, At, RequestInv, TableInv
  <2>2. QED
    BY <1>0, <1>7, <2>1 DEF RowExists, Goto, TypeOK, RequestInv, local, history
<1>8. ASSUME DeleteRow(q)
      PROVE  RequestInv(q)'
  <2>1. id[q] \in Ids /\ versions[id[q]] # {}
    BY <1>0, <1>8 DEF DeleteRow, At, RequestInv
  <2>2. QED
    BY <1>0, <1>8, <2>1 DEF DeleteRow, Committed, Goto, TypeOK, RequestInv, local, history
<1>9. CASE UNCHANGED vars
  BY <1>9, <1>b DEF vars, local
<1>10. CASE Next
  <2>1. PICK r \in Requests :
          \/ \E ch \in Change : CreateRequest(r, ch)
          \/ \E i \in Ids, ch \in Change : UpdateRequest(r, i, ch)
          \/ \E i \in Ids, l \in {"exists", "get", "list"} : OtherRequest(r, i, l)
          \/ Step(r)
    BY <1>10 DEF Next
  <2>2. CASE r = q
    BY <2>1, <2>2, <1>2, <1>3, <1>4, <1>5, <1>6, <1>7, <1>8 DEF Step
  <2>3. CASE r # q
    BY <1>0, <2>1, <2>3, <1>b DEF TypeOK, CreateRequest, UpdateRequest, OtherRequest, Begin,
       Step, CreateReportSchedule, ReadRow, WriteRow, RowExists, DeleteRow,
       GetReportScheduleByID, GetAllReportSchedules, StatementFails, Goto, Committed,
       local, history
  <2>4. QED
    BY <2>2, <2>3
<1>11. QED
  BY <1>9, <1>10

-----------------------------------------------------------------------------
\* Every step keeps schedules that were deleted out of reach of later requests.
LEMMA DeletesStep ==
  ASSUME IInv, [Next]_vars
  PROVE  DeletesInv'
<1>0. TypeOK /\ TableInv /\ DeletesInv /\ \A r \in Requests : RequestInv(r)
  BY DEF IInv
<1> SUFFICES ASSUME NEW q \in Requests, NEW r \in Requests, q \in before'[r]
             PROVE  /\ pc'[r] # "idle" => pc'[q] \in Ended /\ q # r
                    /\ (pc'[q] = "deleted" /\ id'[q] = id'[r]) =>
                         pc'[r] \notin {"delete", "deleted"}
  BY DEF DeletesInv
<1> USE DEF Ended
<1>1. CASE UNCHANGED vars
  BY <1>0, <1>1 DEF vars, local, history, DeletesInv
<1>2. CASE Next
  <2>1. PICK s \in Requests :
          \/ \E ch \in Change : CreateRequest(s, ch)
          \/ \E i \in Ids, ch \in Change : UpdateRequest(s, i, ch)
          \/ \E i \in Ids, l \in {"exists", "get", "list"} : OtherRequest(s, i, l)
          \/ Step(s)
    BY <1>2 DEF Next
  \* A request that begins has not yet asked about its schedule.
  <2>2. CASE \/ \E ch \in Change : CreateRequest(s, ch)
             \/ \E i \in Ids, ch \in Change : UpdateRequest(s, i, ch)
             \/ \E i \in Ids, l \in {"exists", "get", "list"} : OtherRequest(s, i, l)
    <3>1. PICK l \in {"insert", "read", "exists", "get", "list"} : Begin(s, l)
      BY <2>2 DEF CreateRequest, UpdateRequest, OtherRequest
    <3>2. /\ pc[s] = "idle" /\ pc' = [pc EXCEPT ![s] = l]
          /\ before' = [before EXCEPT ![s] = {x \in Requests : pc[x] \in Ended}]
          /\ \A x \in Requests \ {s} : id'[x] = id[x]
      BY <1>0, <2>2, <3>1 DEF Begin, At, Goto, CreateRequest, UpdateRequest, OtherRequest, TypeOK
    <3>3. CASE r = s
      BY <1>0, <3>2, <3>3 DEF TypeOK
    <3>4. CASE r # s
      <4>1. q \in before[r] /\ pc'[r] = pc[r] /\ id'[r] = id[r]
        BY <1>0, <3>2, <3>4 DEF TypeOK
      <4>2. q # s \/ pc[r] = "idle"
        BY <1>0, <3>2, <4>1 DEF DeletesInv
      <4>3. CASE q # s
        BY <1>0, <3>2, <4>1, <4>3 DEF DeletesInv, TypeOK
      <4>4. CASE pc[r] = "idle"
        BY <4>1, <4>4
      <4>5. QED
        BY <4>2, <4>3, <4>4
    <3>5. QED
      BY <3>3, <3>4
  <2>3. CASE Step(s)
    <3>1. /\ before' = before /\ pc[s] \notin Ended /\ pc[s] # "idle"
          /\ \A x \in Requests \ {s} : pc'[x] = pc[x] /\ id'[x] = id[x]
      BY <1>0, <2>3 DEF Step, CreateReportSchedule, ReadRow, WriteRow, RowExists, DeleteRow,
         GetReportScheduleByID, GetAllReportSchedules, StatementFails, At, Goto, Committed,
         local, history, TypeOK, InFlight
    <3>2. q # s \/ pc[r] = "idle"
      BY <1>0, <3>1 DEF DeletesInv
    <3>3. CASE pc[r] = "idle"
      BY <3>1, <3>3
    <3>4. CASE q # s /\ r # s
      BY <1>0, <3>1, <3>4 DEF DeletesInv
    \* The step of the later request, after the delete has ended.
    <3>5. CASE q # s /\ r = s /\ pc[r] # "idle"
      <4>1. pc'[q] \in Ended /\ q # r /\ pc'[q] = pc[q] /\ id'[q] = id[q]
        BY <1>0, <3>1, <3>5 DEF DeletesInv
      <4>2. ASSUME pc'[q] = "deleted", id'[q] = id'[r], pc'[r] \in {"delete", "deleted"}
            PROVE  FALSE
        <5>1. RowExists(r) \/ DeleteRow(r)
          BY <1>0, <2>3, <3>5, <4>2 DEF Step, CreateReportSchedule, ReadRow, WriteRow,
             GetReportScheduleByID, GetAllReportSchedules, StatementFails, Goto, Committed, TypeOK
        <5>2. id[q] = id[r] /\ pc[q] = "deleted"
          BY <4>1, <4>2, <5>1 DEF RowExists, DeleteRow, local
        <5>3. pc[r] # "delete"
          BY <1>0, <3>1, <5>2 DEF DeletesInv
        <5>4. RowExists(r) /\ rows[id[r]] # Absent
          BY <1>0, <4>2, <5>1, <5>3 DEF RowExists, DeleteRow, At, Goto, TypeOK
        <5>5. rows[id[q]] = Absent
          BY <1>0, <5>2 DEF RequestInv
        <5>6. QED
          BY <5>2, <5>4, <5>5
      <4>3. QED
        BY <4>1, <4>2
    <3>6. QED
      BY <3>2, <3>3, <3>4, <3>5
  <2>4. QED
    BY <2>1, <2>2, <2>3
<1>3. QED
  BY <1>1, <1>2

(***************************************************************************)
(* The inductive invariant holds in every reachable state.                 *)
(***************************************************************************)
THEOREM Invariance == Spec => []IInv
<1>1. Init => IInv
  BY InitInv
<1>2. IInv /\ [Next]_vars => IInv'
  <2> SUFFICES ASSUME IInv, [Next]_vars PROVE IInv'
    OBVIOUS
  <2>1. \A r \in Requests : RequestInv(r)'
    BY RequestStep
  <2>2. QED
    BY <2>1, TypeStep, TableStep, DeletesStep DEF IInv
<1>3. QED
  BY <1>1, <1>2, PTL DEF Spec

\* Every variable has its type, whatever requests overlap.
THEOREM TypeCorrect == Spec => []TypeOK
<1>1. IInv => TypeOK
  BY DEF IInv
<1>2. QED
  BY <1>1, Invariance, PTL

(***************************************************************************)
(* No update, whatever overlaps it, puts into a field what was not         *)
(* provided for this schedule.                                             *)
(***************************************************************************)
THEOREM FieldsAreProvided == Spec => []FieldsWereProvided
<1>1. IInv => FieldsWereProvided
  BY DEF IInv, TableInv, Provided, FieldsWereProvided
<1>2. QED
  BY <1>1, Invariance, PTL

(***************************************************************************)
(* A deleted schedule stays deleted, and of two deletes that succeeded,    *)
(* neither had ended when the other began.                                 *)
(***************************************************************************)
THEOREM DeletesAreFinal == Spec => []DeletedOnce
<1>1. IInv => DeletedOnce
  BY DEF IInv, DeletesInv, RequestInv, DeletedOnce, Overlap, At
<1>2. QED
  BY <1>1, Invariance, PTL

-----------------------------------------------------------------------------
(***************************************************************************)
(* Lost updates.                                                           *)
(***************************************************************************)

\* A request that has ended is never touched again.
LEMMA EndedStays ==
  ASSUME IInv, [Next]_vars, NEW r \in Requests, pc[r] \in Ended
  PROVE  /\ pc'[r] = pc[r] /\ id'[r] = id[r] /\ change'[r] = change[r]
         /\ copy'[r] = copy[r] /\ before'[r] = before[r]
<1>1. CASE Next
  BY <1>1, OneRequestMoves
<1>2. CASE UNCHANGED vars
  BY <1>2 DEF vars, local, history
<1>3. QED
  BY <1>1, <1>2

\* So what may undo an acknowledged update goes on being an excuse.
LEMMA MayUndoStays ==
  ASSUME IInv, [Next]_vars, NEW q \in Requests, NEW r \in Requests, pc[r] \in Ended,
         NEW f, MayUndo(q, r, f)
  PROVE  MayUndo(q, r, f)'
<1>1. pc[q] \in Ended
  BY DEF MayUndo
<1>2. QED
  BY <1>1, EndedStays DEF MayUndo, Overlap

\* Only the second statement of an update acknowledges it, and only a row there.
LEMMA UpdatedByWrite ==
  ASSUME IInv, [Next]_vars, NEW r \in Requests, pc'[r] = "updated", pc[r] # "updated"
  PROVE  WriteRow(r) /\ rows[id[r]] # Absent
<1>0. TypeOK
  BY DEF IInv
<1>1. Next
  BY DEF vars
<1>2. QED
  BY <1>0, <1>1 DEF Next, CreateRequest, UpdateRequest, OtherRequest, Begin, Step,
     CreateReportSchedule, ReadRow, WriteRow, RowExists, DeleteRow, GetReportScheduleByID,
     GetAllReportSchedules, StatementFails, Goto, Committed, TypeOK

\* Only the first statement takes an update to its second, with a copy of the row.
LEMMA WriteAfterRead ==
  ASSUME IInv, [Next]_vars, NEW q \in Requests, pc'[q] = "write", pc[q] # "write"
  PROVE  /\ pc[q] = "read" /\ rows[id[q]] # Absent
         /\ copy'[q] = Apply(change[q], rows[id[q]])
         /\ id' = id /\ change' = change /\ before' = before
<1>0. TypeOK
  BY DEF IInv
<1>1. Next
  BY DEF vars
<1>2. ReadRow(q) /\ rows[id[q]] # Absent
  BY <1>0, <1>1 DEF Next, CreateRequest, UpdateRequest, OtherRequest, Begin, Step,
     CreateReportSchedule, ReadRow, WriteRow, RowExists, DeleteRow, GetReportScheduleByID,
     GetAllReportSchedules, StatementFails, Goto, Committed, TypeOK
<1>3. QED
  BY <1>0, <1>2 DEF ReadRow, At, TypeOK, history

\* At its second statement an update does nothing but that statement.
LEMMA WriteWaits ==
  ASSUME IInv, [Next]_vars, NEW q \in Requests, pc'[q] = "write", pc[q] = "write"
  PROVE  id'[q] = id[q] /\ change'[q] = change[q] /\ copy'[q] = copy[q] /\ before'[q] = before[q]
<1>0. TypeOK
  BY DEF IInv
<1>1. CASE UNCHANGED vars
  BY <1>1 DEF vars, local, history
<1>2. CASE Next
  <2>1. ASSUME NEW r \in Requests,
               \/ \E ch \in Change : CreateRequest(r, ch)
               \/ \E i \in Ids, ch \in Change : UpdateRequest(r, i, ch)
               \/ \E i \in Ids, l \in {"exists", "get", "list"} : OtherRequest(r, i, l)
               \/ Step(r)
        PROVE  r # q
    <3>1. ASSUME r = q PROVE FALSE
      BY <1>0, <2>1, <3>1 DEF CreateRequest, UpdateRequest, OtherRequest, Begin, Step,
         CreateReportSchedule, ReadRow, WriteRow, RowExists, DeleteRow, GetReportScheduleByID,
         GetAllReportSchedules, StatementFails, At, Goto, Committed, TypeOK
    <3>2. QED
      BY <3>1
  <2>2. PICK r \in Requests :
          \/ \E ch \in Change : CreateRequest(r, ch)
          \/ \E i \in Ids, ch \in Change : UpdateRequest(r, i, ch)
          \/ \E i \in Ids, l \in {"exists", "get", "list"} : OtherRequest(r, i, l)
          \/ Step(r)
    BY <1>2 DEF Next
  <2>3. r # q
    BY <2>1, <2>2
  <2>4. QED
    BY <1>0, <2>2, <2>3 DEF TypeOK, CreateRequest, UpdateRequest, OtherRequest, Begin, Step,
       CreateReportSchedule, ReadRow, WriteRow, RowExists, DeleteRow, GetReportScheduleByID,
       GetAllReportSchedules, StatementFails, local, history
<1>3. QED
  BY <1>1, <1>2

\* What a step may do to the row of a schedule that exists or existed.
LEMMA RowChanges ==
  ASSUME IInv, [Next]_vars, NEW i \in Ids, versions[i] # {}
  PROVE  \/ rows'[i] \in {rows[i], Absent}
         \/ \E q \in Requests : /\ At(q, "write") /\ id[q] = i /\ rows[i] # Absent
                                /\ rows'[i] = copy[q] /\ pc'[q] \in {"updated", "failed"}
                                /\ UNCHANGED local /\ before' = before
<1>0. TypeOK /\ TableInv /\ \A r \in Requests : RequestInv(r)
  BY DEF IInv
<1>1. ASSUME NEW r \in Requests, CreateReportSchedule(r)
      PROVE  rows'[i] = rows[i]
  <2>1. nextId \in Ids /\ versions[nextId] = {}
    BY <1>0, <1>1 DEF CreateReportSchedule, TableInv, Ids
  <2>2. QED
    BY <1>0, <1>1, <2>1 DEF CreateReportSchedule, Write, TypeOK
<1>2. ASSUME NEW r \in Requests, WriteRow(r)
      PROVE  \/ rows'[i] = rows[i]
             \/ /\ At(r, "write") /\ id[r] = i /\ rows[i] # Absent
                /\ rows'[i] = copy[r] /\ pc'[r] \in {"updated", "failed"}
                /\ UNCHANGED local /\ before' = before
  <2>1. id[r] \in Ids
    BY <1>0, <1>2 DEF WriteRow, At, RequestInv
  <2>2. CASE rows[id[r]] = Absent \/ id[r] # i
    BY <1>0, <1>2, <2>1, <2>2 DEF WriteRow, Write, TypeOK
  <2>3. CASE rows[id[r]] # Absent /\ id[r] = i
    BY <1>0, <1>2, <2>1, <2>3 DEF WriteRow, Write, Goto, Committed, TypeOK
  <2>4. QED
    BY <2>2, <2>3
<1>3. ASSUME NEW r \in Requests, DeleteRow(r) \/ StatementFails(r)
      PROVE  rows'[i] \in {rows[i], Absent}
  BY <1>0, <1>3 DEF DeleteRow, StatementFails, TypeOK
<1>4. QED
  BY <1>1, <1>2, <1>3, OtherStatements

\* No update has been acknowledged at first.
LEMMA UpdatesInit == Init => UpdatesInv
  BY DEF Init, UpdatesInv, LostUpdateNeedsOverlap, At

\* An acknowledged update stays, or what undid it may undo it.
LEMMA UpdateStays ==
  ASSUME IInv, UpdatesInv, [Next]_vars,
         NEW r \in Requests, pc[r] = "updated", NEW f \in DOMAIN change[r]
  PROVE  \/ rows'[id[r]] = Absent
         \/ rows'[id[r]][f] = change[r][f]
         \/ \E q \in Requests : MayUndo(q, r, f)'
<1>0. TypeOK /\ DeletesInv /\ \A q \in Requests : RequestInv(q)
  BY DEF IInv
<1>1. /\ id[r] \in Ids /\ versions[id[r]] # {} /\ pc[r] \in Ended
      /\ \/ rows[id[r]] = Absent
         \/ rows[id[r]][f] = change[r][f]
         \/ \E q \in Requests : MayUndo(q, r, f)
  BY DEF UpdatesInv, LostUpdateNeedsOverlap, At, Ended
<1>2. ASSUME NEW q \in Requests, MayUndo(q, r, f)
      PROVE  MayUndo(q, r, f)'
  BY <1>1, <1>2, MayUndoStays
<1>3. CASE rows'[id[r]] \in {rows[id[r]], Absent}
  BY <1>1, <1>2, <1>3
<1>4. ASSUME NEW q \in Requests, At(q, "write"), id[q] = id[r], rows[id[r]] # Absent,
             rows'[id[r]] = copy[q], pc'[q] \in {"updated", "failed"},
             UNCHANGED local, before' = before
      PROVE  \/ rows'[id[r]][f] = change[r][f]
             \/ \E p \in Requests : MayUndo(p, r, f)'
  <2>1. q # r /\ q \notin before[r] /\ pc[q] # "idle" /\ pc[r] # "idle" /\ pc'[r] = pc[r]
    BY <1>0, <1>1, <1>4, EndedStays DEF At, DeletesInv, Ended
  \* The update overlapped the acknowledged one, or provided the field itself.
  <2>2. CASE r \notin before[q] \/ f \in DOMAIN change[q]
    <3>1. MayUndo(q, r, f)'
      BY <1>1, <1>4, <2>1, <2>2 DEF MayUndo, Overlap, local, Ended
    <3>2. QED
      BY <3>1
  \* It began later, and writes back what it read of the field.
  <2>3. CASE r \in before[q] /\ f \notin DOMAIN change[q]
    <3>1. copy[q][f] = change[r][f] \/ \E p \in Requests : MayUndo(p, r, f)
      BY <1>4, <2>3 DEF UpdatesInv, At
    <3>2. QED
      BY <1>2, <1>4, <3>1
  <2>4. QED
    BY <2>2, <2>3
<1>5. QED
  BY <1>1, <1>3, <1>4, RowChanges

\* Every step keeps the invariant of lost updates.
LEMMA UpdatesStep ==
  ASSUME IInv, UpdatesInv, [Next]_vars
  PROVE  UpdatesInv'
<1>0. TypeOK /\ TableInv /\ DeletesInv /\ \A q \in Requests : RequestInv(q)
  BY DEF IInv
<1>1. ASSUME NEW r \in Requests, pc'[r] = "updated"
      PROVE  id'[r] \in Ids /\ versions'[id'[r]] # {}
  <2>1. CASE pc[r] = "updated"
    <3>1. id[r] \in Ids /\ versions[id[r]] # {} /\ id'[r] = id[r]
      BY <2>1, EndedStays DEF UpdatesInv, At, Ended
    <3>2. QED
      BY <3>1, VersionsGrow
  <2>2. CASE pc[r] # "updated"
    <3>1. WriteRow(r) /\ rows[id[r]] # Absent
      BY <1>1, <2>2, UpdatedByWrite
    <3>2. QED
      BY <1>0, <3>1 DEF WriteRow, Write, At, RequestInv, local, TypeOK
  <2>3. QED
    BY <2>1, <2>2
<1>2. ASSUME NEW r \in Requests, pc'[r] = "updated", NEW f \in DOMAIN change'[r]
      PROVE  \/ rows'[id'[r]] = Absent
             \/ rows'[id'[r]][f] = change'[r][f]
             \/ \E q \in Requests : MayUndo(q, r, f)'
  <2>1. CASE pc[r] = "updated"
    <3>1. id'[r] = id[r] /\ change'[r] = change[r]
      BY <2>1, EndedStays DEF Ended
    <3>2. QED
      BY <1>2, <2>1, <3>1, UpdateStays
  <2>2. CASE pc[r] # "updated"
    <3>1. WriteRow(r) /\ rows[id[r]] # Absent
      BY <1>2, <2>2, UpdatedByWrite
    <3>2. PICK old \in versions[id[r]] : copy[r] = Apply(change[r], old)
      BY <1>0, <3>1 DEF WriteRow, At, RequestInv
    <3>3. id[r] \in Ids /\ id' = id /\ change' = change /\ rows'[id[r]] = copy[r]
      BY <1>0, <3>1 DEF WriteRow, Write, At, RequestInv, local, TypeOK
    <3>4. f \in Fields
      BY <1>0, <1>2, <3>3 DEF TypeOK, Change
    <3>5. copy[r][f] = change[r][f]
      BY <1>2, <3>2, <3>3, <3>4 DEF Apply
    <3>6. QED
      BY <3>3, <3>5
  <2>3. QED
    BY <2>1, <2>2
<1>3. ASSUME NEW q \in Requests, NEW r \in Requests, pc'[q] = "write", pc'[r] = "updated",
             r \in before'[q], id'[q] = id'[r],
             NEW f \in DOMAIN change'[r] \ DOMAIN change'[q]
      PROVE  copy'[q][f] = change'[r][f] \/ \E p \in Requests : MayUndo(p, r, f)'
  <2>1. r \in before[q] /\ pc[q] \in {"read", "write"}
    BY <1>3, WriteAfterRead, WriteWaits
  <2>2. pc[r] = "updated" /\ id'[r] = id[r] /\ change'[r] = change[r]
    BY <1>0, <1>3, <2>1, EndedStays DEF DeletesInv
  <2>3. ASSUME NEW p \in Requests, MayUndo(p, r, f)
        PROVE  MayUndo(p, r, f)'
    BY <2>2, <2>3, MayUndoStays DEF Ended
  <2>4. CASE pc[q] = "write"
    <3>1. id'[q] = id[q] /\ change'[q] = change[q] /\ copy'[q] = copy[q]
      BY <1>3, <2>4, WriteWaits
    <3>2. copy[q][f] = change[r][f] \/ \E p \in Requests : MayUndo(p, r, f)
      BY <1>3, <2>1, <2>2, <2>4, <3>1 DEF UpdatesInv, At
    <3>3. QED
      BY <2>2, <2>3, <3>1, <3>2
  <2>5. CASE pc[q] # "write"
    <3>1. /\ rows[id[q]] # Absent /\ copy'[q] = Apply(change[q], rows[id[q]])
          /\ id' = id /\ change' = change
      BY <1>3, <2>5, WriteAfterRead
    <3>2. f \in Fields
      BY <1>0, <1>3, <3>1 DEF TypeOK, Change
    <3>3. copy'[q][f] = rows[id[r]][f]
      BY <1>3, <3>1, <3>2 DEF Apply
    <3>4. rows[id[r]][f] = change[r][f] \/ \E p \in Requests : MayUndo(p, r, f)
      BY <1>3, <2>2, <3>1 DEF UpdatesInv, LostUpdateNeedsOverlap, At
    <3>5. QED
      BY <2>2, <2>3, <3>3, <3>4
  <2>6. QED
    BY <2>4, <2>5
<1>4. LostUpdateNeedsOverlap'
  BY <1>2 DEF LostUpdateNeedsOverlap, At
<1>5. QED
  BY <1>1, <1>3, <1>4 DEF UpdatesInv, At

(***************************************************************************)
(* However requests are interleaved, an acknowledged update is undone only *)
(* by a request that had not ended when it began and that either provided  *)
(* the same field or overlapped it: updates one after another lose nothing. *)
(***************************************************************************)
THEOREM UpdatesAreLostByOverlap == Spec => []LostUpdateNeedsOverlap
<1>1. UpdatesInv => LostUpdateNeedsOverlap
  BY DEF UpdatesInv
<1>2. IInv /\ UpdatesInv /\ [Next]_vars => UpdatesInv'
  BY UpdatesStep
<1>3. QED
  BY <1>1, <1>2, UpdatesInit, Invariance, PTL DEF Spec

(***************************************************************************)
(* The table implements the abstract store: every step of a request is a   *)
(* step of the store, or leaves the table as it is.                        *)
(***************************************************************************)
LEMMA StoreStep ==
  ASSUME IInv, [Next]_vars
  PROVE  [Store!Next]_<<rows, versions>>
<1>0. TypeOK /\ TableInv /\ \A r \in Requests : RequestInv(r)
  BY DEF IInv
<1> USE DEF Store!Next, Store!Row, Store!Change, Row, Change
<1>1. ASSUME NEW r \in Requests, CreateReportSchedule(r)
      PROVE  [Store!Next]_<<rows, versions>>
  <2>1. change[r] \in Change /\ DOMAIN change[r] = Fields \ DOMAIN Defaults
    BY <1>0, <1>1 DEF TypeOK, CreateReportSchedule, At, RequestInv
  <2>2. [f \in Fields |-> IF f \in DOMAIN Defaults THEN Defaults[f] ELSE change[r][f]] \in Row
    BY <2>1, CreatedIsRow
  <2>3. nextId \in Ids /\ versions[nextId] = {}
    BY <1>0, <1>1 DEF CreateReportSchedule, TableInv, Ids
  <2>4. Store!Insert(nextId)
    BY <1>1, <2>2, <2>3 DEF CreateReportSchedule, Write, Store!Insert, Store!Write
  <2>5. QED
    BY <2>3, <2>4
<1>2. ASSUME NEW r \in Requests, WriteRow(r), rows[id[r]] # Absent
      PROVE  [Store!Next]_<<rows, versions>>
  <2>1. id[r] \in Ids /\ \E old \in versions[id[r]] : copy[r] = Apply(change[r], old)
    BY <1>0, <1>2 DEF WriteRow, At, RequestInv
  <2>2. change[r] \in Change
    BY <1>0 DEF TypeOK
  <2>3. Store!Overwrite(id[r])
    <3>1. PICK old \in versions[id[r]] : copy[r] = Store!Apply(change[r], old)
      BY <2>1 DEF Apply, Store!Apply
    <3>2. Store!Write(id[r], Store!Apply(change[r], old))
      BY <1>2, <3>1 DEF WriteRow, Write, Store!Write
    <3>3. QED
      BY <1>2, <2>2, <3>2 DEF Store!Overwrite
  <2>4. QED
    BY <2>1, <2>3
<1>3. ASSUME NEW r \in Requests, WriteRow(r), rows[id[r]] = Absent
      PROVE  [Store!Next]_<<rows, versions>>
  BY <1>3 DEF WriteRow
<1>4. ASSUME NEW r \in Requests, DeleteRow(r)
      PROVE  [Store!Next]_<<rows, versions>>
  <2>1. id[r] \in Ids
    BY <1>0, <1>4 DEF DeleteRow, At, RequestInv
  <2>2. CASE rows[id[r]] = Absent
    BY <1>0, <1>4, <2>2 DEF DeleteRow, history, TypeOK
  <2>3. CASE rows[id[r]] # Absent
    BY <1>4, <2>1, <2>3 DEF DeleteRow, history, Store!Remove
  <2>4. QED
    BY <2>2, <2>3
<1>5. ASSUME NEW r \in Requests, StatementFails(r)
      PROVE  [Store!Next]_<<rows, versions>>
  BY <1>5 DEF StatementFails, history
<1>6. QED
  BY <1>1, <1>2, <1>3, <1>4, <1>5, OtherStatements

\* The handlers' table is the abstract store of schedules.
THEOREM StoreIsImplemented == Spec => ImplementsStore
<1>1. Init => Store!Init
  BY DEF Init, Store!Init
<1>2. IInv /\ [Next]_vars => [Store!Next]_<<rows, versions>>
  BY StoreStep
<1>3. QED
  BY <1>1, <1>2, Invariance, PTL DEF Spec, ImplementsStore, Store!Spec
=============================================================================
