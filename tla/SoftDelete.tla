----------------------------- MODULE SoftDelete -----------------------------
(***************************************************************************)
(* What soft deletion promises of a table of projects or of tasks: a row   *)
(* is created once and deleted once, its deletion stands, and the audit    *)
(* log tells of it exactly when it has happened.                           *)
(***************************************************************************)
CONSTANT Item

VARIABLES life,     \* absent, present or deleted, for each item
          recorded  \* the items with a "soft_delete" entry in the audit log

vars == <<life, recorded>>

Init == life = [i \in Item |-> "absent"] /\ recorded = {}

Create(i) == /\ life[i] = "absent"
             /\ life' = [life EXCEPT ![i] = "present"]
             /\ UNCHANGED recorded

Delete(i) == /\ life[i] = "present"
             /\ life' = [life EXCEPT ![i] = "deleted"]
             /\ recorded' = recorded \cup {i}

Next == \E i \in Item : Create(i) \/ Delete(i)

Spec == Init /\ [][Next]_vars
=============================================================================
