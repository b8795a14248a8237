---------------------------- MODULE RequestPool ----------------------------
(***************************************************************************)
(* What requests wait for inside the web process: the worker threads that  *)
(* `def` dependencies and handlers run in, the database connections of     *)
(* app/database.py, and the event loop, which hands out and takes back the *)
(* threads and on which add_attachment (app/api/routes/tasks.py), a        *)
(* coroutine, calls the synchronous session.                               *)
(*                                                                         *)
(* A session checks a connection out with its first statement and gives it *)
(* back when it commits or is closed; the statement after a commit checks  *)
(* one out again.  So a request keeps its connection while it waits for    *)
(* its next thread.  Dependencies that touch no connection are part of the *)
(* wait before the first one that does.                                    *)
(***************************************************************************)
EXTENDS Naturals, FiniteSets

CONSTANTS Request, None,
          Threads,    \* worker threads of the process
          Connections \* pool_size + max_overflow

ASSUME ThreadsAssumption == Threads \in Nat \ {0}
ASSUME ConnectionsAssumption == Connections \in Nat \ {0}
ASSUME RequestAssumption == IsFiniteSet(Request) /\ None \notin Request

VARIABLES
    phase,   \* how far each request is
    kind,    \* without authentication, with it, or an upload
    thread,  \* the requests that have a worker thread
    conn,    \* those whose session has a connection
    loop     \* the request whose coroutine runs on the event loop, or None

vars == <<phase, kind, thread, conn, loop>>

Kind == {"open", "def", "upload"}

\* Where a request goes when it gets the thread it waits for ...
Inside == [queued |-> "checkout", ready |-> "run", encode |-> "encoded",
           read |-> "spooled"]
\* ... and when the event loop takes up what the thread has left.
Outside == [authed |-> "ready", ran |-> "encode", encoded |-> "closing",
            spooled |-> "ready", failed |-> "closing"]

\* In checkout and again it has no connection and waits for one.
Waiting == {"checkout", "again"}
Phase == {"idle", "run", "closing"} \cup Waiting
         \cup DOMAIN Inside \cup DOMAIN Outside

Init == /\ phase = [r \in Request |-> "idle"]
        /\ kind = [r \in Request |-> "def"]
        /\ thread = {}
        /\ conn = {}
        /\ loop = None

PoolFull == Cardinality(conn) >= Connections
Go(r, p) == phase' = [phase EXCEPT ![r] = p]

\* A coroutine that runs is on the loop, a `def` handler in its thread.
OnLoop(r) == loop = r

\* A handler that ends or fails: the coroutine goes on to close its session, a
\* thread leaves an outcome for the loop.
Leave(r, p) == IF OnLoop(r) THEN Go(r, "closing") /\ loop' = None
                            ELSE Go(r, p) /\ UNCHANGED loop

-----------------------------------------------------------------------------
Arrive(r, k) == /\ phase[r] = "idle"
                /\ Go(r, "queued")
                /\ kind' = [kind EXCEPT ![r] = k]
                /\ UNCHANGED <<thread, conn, loop>>

\* The loop gives a request one of the threads.  An upload is ready for the loop.
TakeThread(r) ==
    /\ loop = None
    /\ phase[r] \in DOMAIN Inside
    /\ ~(phase[r] = "ready" /\ kind[r] = "upload")
    /\ Cardinality(thread) < Threads
    /\ thread' = thread \cup {r}
    /\ Go(r, Inside[phase[r]])
    /\ UNCHANGED <<kind, conn, loop>>

\* A bug: the thread of a request that failed is not taken back.
TakeUpIfSucceeded(r) ==
    /\ loop = None
    /\ phase[r] \in DOMAIN Outside
    /\ thread' = IF phase[r] = "failed" THEN thread ELSE thread \ {r}
    /\ Go(r, Outside[phase[r]])
    /\ UNCHANGED <<kind, conn, loop>>

\* The loop takes the thread back and goes on with the request.
TakeUp(r) ==
    /\ loop = None
    /\ phase[r] \in DOMAIN Outside
    /\ thread' = thread \ {r}
    /\ Go(r, Outside[phase[r]])
    /\ UNCHANGED <<kind, conn, loop>>

\* The first statement, of get_current_user or of a handler that needs no user;
\* get_current_user may refuse.  Or the first statement after a commit.
Checkout(r) ==
    /\ phase[r] \in Waiting
    /\ ~PoolFull
    /\ conn' = conn \cup {r}
    /\ \/ phase[r] = "again" /\ Go(r, "run")
       \/ phase[r] = "checkout" /\ kind[r] = "open" /\ Go(r, "run")
       \/ phase[r] = "checkout" /\ kind[r] # "open"
             /\ \E p \in {"authed", "failed"} : Go(r, p)
    /\ UNCHANGED <<kind, thread, loop>>

\* A bug: no pool timeout.
TimeOutNever(r) == FALSE /\ UNCHANGED vars

\* The pool's timeout raises, in a thread or on the loop.
TimeOut(r) ==
    /\ phase[r] \in Waiting
    /\ PoolFull
    /\ Leave(r, "failed")
    /\ UNCHANGED <<kind, thread, conn>>

\* The loop starts or resumes add_attachment.
Enter(r) == /\ loop = None
            /\ phase[r] = "ready" /\ kind[r] = "upload"
            /\ loop' = r
            /\ Go(r, "run")
            /\ UNCHANGED <<kind, thread, conn>>

\* await file.read(): a file spooled to disk is read in a thread.
AwaitFile(r) == /\ phase[r] = "run" /\ OnLoop(r)
                /\ loop' = None
                /\ Go(r, "read")
                /\ UNCHANGED <<kind, thread, conn>>

\* A commit that is followed by another statement, as by the refresh.
Commit(r) == /\ phase[r] = "run"
             /\ conn' = conn \ {r}
             /\ Go(r, "again")
             /\ UNCHANGED <<kind, thread, loop>>

\* The handler returns or raises, perhaps after a last commit.
Finish(r) == /\ phase[r] = "run"
             /\ \E p \in {"ran", "failed"} : Leave(r, p)
             /\ conn' \in {conn, conn \ {r}}
             /\ UNCHANGED <<kind, thread>>

\* A bug: get_db does not close the session.
CloseNothing(r) == /\ phase[r] = "closing"
                   /\ Go(r, "idle")
                   /\ kind' = [kind EXCEPT ![r] = "def"]
                   /\ UNCHANGED <<thread, conn, loop>>

\* get_db closes the session, in a thread that is not one of the Threads.
Close(r) == /\ phase[r] = "closing"
            /\ conn' = conn \ {r}
            /\ Go(r, "idle")
            /\ kind' = [kind EXCEPT ![r] = "def"]
            /\ UNCHANGED <<thread, loop>>

Next == \E r \in Request :
           \/ \E k \in Kind : Arrive(r, k)
           \/ TakeThread(r) \/ TakeUp(r) \/ Enter(r)
           \/ Checkout(r) \/ TimeOut(r) \/ AwaitFile(r) \/ Commit(r)
           \/ Finish(r) \/ Close(r)

\* The loop serves its queues in order, so whoever is time and again possible
\* has a turn; a thread that can work does; a wait for the pool ends one way or
\* the other; and a handler, having no loops, gets to its end.
FairTo(r) == /\ SF_vars(TakeThread(r) \/ TakeUp(r) \/ Enter(r))
             /\ WF_vars(Checkout(r) \/ TimeOut(r) \/ Close(r))
             /\ SF_vars(Finish(r))
Fairness == \A r \in Request : FairTo(r)

Spec == Init /\ [][Next]_vars
FairSpec == Spec /\ Fairness

-----------------------------------------------------------------------------
\* Types; what a request holds is given up when it is over, and threads and
\* connections are never more than there are.
TypeOK ==
    /\ phase \in [Request -> Phase]
    /\ kind \in [Request -> Kind]
    /\ thread \subseteq Request /\ Cardinality(thread) <= Threads
    /\ conn \subseteq Request /\ Cardinality(conn) <= Connections
    /\ loop \in Request \cup {None}
    /\ \A r \in Request :
          /\ r \in conn => phase[r] \notin {"idle", "queued"} \cup Waiting
          /\ r \in thread =>
                phase[r] \in {"run"} \cup Waiting \cup DOMAIN Outside
          /\ loop = r => phase[r] \in {"run", "again"} /\ r \notin thread

\* What a request can do without anybody's timeout.
Moves(r) ==
    \/ phase[r] \in {"run", "closing"}
    \/ phase[r] \in Waiting /\ ~PoolFull
    \/ loop = None /\ phase[r] \in DOMAIN Outside
    \/ loop = None /\ phase[r] \in DOMAIN Inside /\ Cardinality(thread) < Threads
    \/ loop = None /\ phase[r] = "ready" /\ kind[r] = "upload"

\* Requests do come to wait for each other: all threads for connections that
\* requests keep while they wait for a thread, or the loop for a connection
\* whose request waits for the loop.  But whenever none in flight can move,
\* one of them is in a wait for the pool, which has a timeout; no wait without
\* one is part of every such circle.
StallIsTimed ==
    (\E r \in Request : phase[r] # "idle") /\ (\A r \in Request : ~Moves(r))
        => \E r \in Request : phase[r] \in Waiting

\* So every request comes to an end, and its session is closed.
EveryRequestEnds == \A r \in Request : phase[r] = "queued" ~> phase[r] = "idle"
=============================================================================
