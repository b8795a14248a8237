------------------------------ MODULE Reports ------------------------------
(***************************************************************************)
(* The productivity report and its cache (app/api/routes/reports.py,       *)
(* app/core/redis_client.py).  A handler looks the report up in Redis, and *)
(* when it is not there counts rows and puts the result there for sixty    *)
(* seconds.  Nothing takes it out when the tasks change.                   *)
(*                                                                         *)
(* Of the report's numbers the overdue tasks are kept: the others are      *)
(* counted in the same way.  The tasks are changed by others (Readers).    *)
(***************************************************************************)
EXTENDS Naturals, FiniteSets

CONSTANTS Task, Workspace, Request,
          Home,  \* the workspace of each task
          None   \* no key, no report

VARIABLES
    overdue,  \* the tasks that are open, not deleted, and past their due date
    cache,    \* the keys dash:prod:*
    req       \* the request slots

\* A handler that has found no key is to count, then to store what it counted.
Slot == [workspace : Workspace \cup {None}, report : Nat \cup {None}]
Idle == [workspace |-> None, report |-> None]

Init == /\ cache = [w \in Workspace |-> None]
        /\ req = [r \in Request |-> Idle]

\* What the SELECT over the tasks of a workspace comes to.
Report(w) == Cardinality({t \in Task : Home[t] = w /\ t \in overdue})

-----------------------------------------------------------------------------
\* A report that is found in the cache is the answer, and no step.
Miss(r, w) == /\ req[r] = Idle
              /\ cache[w] = None
              /\ req' = [req EXCEPT ![r].workspace = w]
              /\ UNCHANGED cache

Count(r) == /\ req[r].workspace # None
            /\ req[r].report = None
            /\ req' = [req EXCEPT ![r].report = Report(req[r].workspace)]
            /\ UNCHANGED cache

\* A bug: the slot is given back with the report still in it.
StoreKept(r) ==
    /\ req[r].report # None
    /\ cache' = [cache EXCEPT ![req[r].workspace] = req[r].report]
    /\ req' = [req EXCEPT ![r].workspace = None]

\* set_cache, which also starts the sixty seconds again.
Store(r) == /\ req[r].report # None
            /\ cache' = [cache EXCEPT ![req[r].workspace] = req[r].report]
            /\ req' = [req EXCEPT ![r] = Idle]

\* Redis does not answer, or the process or its database connection dies.
Fail(r) == /\ req[r] # Idle
           /\ req' = [req EXCEPT ![r] = Idle]
           /\ UNCHANGED cache

\* A bug: the key is set without a time to live.
ExpireNever(w) == FALSE /\ UNCHANGED <<cache, req>>

\* The sixty seconds are over, or Redis loses the key.
Expire(w) == /\ cache[w] # None
             /\ cache' = [cache EXCEPT ![w] = None]
             /\ UNCHANGED req

Next == \/ \E r \in Request :
              \/ \E w \in Workspace : Miss(r, w)
              \/ Count(r) \/ Store(r) \/ Fail(r)
        \/ \E w \in Workspace : Expire(w)

TypeOK == /\ cache \in [Workspace -> Nat \cup {None}]
          /\ req \in [Request -> Slot]
          /\ \A r \in Request : req[r].report # None => req[r].workspace # None
=============================================================================
