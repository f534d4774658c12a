----------------------------- MODULE SyncContract -----------------------------
(***************************************************************************)
(* What synchronisation promises, whatever the order of its calls: the     *)
(* tables only gain rows, each row comes from an account state the broker  *)
(* delivered, and a day enters the sync log only when one delivered state  *)
(* of that account had data for the day and all that data is stored.       *)
(***************************************************************************)
CONSTANTS Clients, Days, Items

VARIABLES
  offered,  \* account states the broker delivered, each with its client
  stored,   \* items present in holdings or transactions
  marked    \* <<client, day>> pairs in sync_logs

vars == <<offered, stored, marked>>

On(items, d) == {i \in items : i.day = d}

Backs(o, c, d) == /\ o.client = c
                  /\ On(o.items, d) # {}
                  /\ On(o.items, d) \subseteq stored

Init == offered = {} /\ stored = {} /\ marked = {}

Offer(c, S) ==
  /\ offered' = offered \cup {[client |-> c, items |-> S]}
  /\ UNCHANGED <<stored, marked>>

Store(i) ==
  /\ \E o \in offered : i \in o.items
  /\ stored' = stored \cup {i}
  /\ UNCHANGED <<offered, marked>>

Mark(c, D) ==
  /\ \A d \in D : \E o \in offered : Backs(o, c, d)
  /\ marked' = marked \cup ({c} \X D)
  /\ UNCHANGED <<offered, stored>>

Next ==
  \/ \E c \in Clients, S \in SUBSET Items : Offer(c, S)
  \/ \E i \in Items : Store(i)
  \/ \E c \in Clients, D \in SUBSET Days : Mark(c, D)

Spec == Init /\ [][Next]_vars
=============================================================================
