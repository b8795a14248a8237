--------------------------- MODULE TokenLifecycle ---------------------------
(***************************************************************************)
(* What the refresh_tokens table promises, whatever requests, crashes and  *)
(* clean-ups interleave: a row is issued once, may be revoked, and only a  *)
(* revoked row may be deleted; a row that replaces another one is issued   *)
(* only when the one it replaces has stopped being usable.                 *)
(***************************************************************************)
CONSTANTS Jti,    \* the refresh-token identifiers
          None    \* "no token": the row was issued by a login

VARIABLES state,  \* unissued, live, revoked or purged, for each Jti
          parent  \* the row a row replaced, or None

vars == <<state, parent>>

Init == /\ state = [j \in Jti |-> "unissued"]
        /\ parent = [j \in Jti |-> None]

\* A new row, replacing p (a row that is no longer live) or nothing.
Issue(j, p) ==
    /\ state[j] = "unissued"
    /\ p # None => state[p] \in {"revoked", "purged"}
    /\ state' = [state EXCEPT ![j] = "live"]
    /\ parent' = [parent EXCEPT ![j] = p]

\* Some live rows are revoked together.
Revoke(S) ==
    /\ \A j \in S : state[j] = "live"
    /\ state' = [j \in Jti |-> IF j \in S THEN "revoked" ELSE state[j]]
    /\ UNCHANGED parent

\* Some revoked rows are deleted together.
Purge(S) ==
    /\ \A j \in S : state[j] = "revoked"
    /\ state' = [j \in Jti |-> IF j \in S THEN "purged" ELSE state[j]]
    /\ UNCHANGED parent

Next == \/ \E j \in Jti, p \in Jti \cup {None} : Issue(j, p)
        \/ \E S \in SUBSET Jti : Revoke(S) \/ Purge(S)

Spec == Init /\ [][Next]_vars
=============================================================================
