----------------------------- MODULE MCReaders -----------------------------
(* Instances of Readers for TLC: two workspaces with a task each. *)
EXTENDS Readers, TLC

CONSTANTS t1, w1, w2
HomeValue == [t \in Task |-> IF t = t1 THEN w1 ELSE w2]
=============================================================================
