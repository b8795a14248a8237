------------------------- MODULE RequestPoolProofs -------------------------
(***************************************************************************)
(* Proofs about RequestPool, for any positive numbers of threads and       *)
(* connections.                                                            *)
(***************************************************************************)
EXTENDS RequestPool, FiniteSetTheorems, TLAPS

\* Adding or taking away one request, from the threads or the connections.
LEMMA Counting ==
    ASSUME NEW S, S \subseteq Request, NEW r \in Request
    PROVE  /\ Cardinality(S) \in Nat
           /\ Cardinality(S \ {r}) \in Nat
           /\ Cardinality(S \ {r}) <= Cardinality(S)
           /\ Cardinality(S \cup {r}) \in Nat
           /\ Cardinality(S \cup {r}) <= Cardinality(S) + 1
<1>1. IsFiniteSet(S)  BY FS_Subset, RequestAssumption
<1>2. Cardinality(S) \in Nat  BY <1>1, FS_CardinalityType
<1>3. /\ IsFiniteSet(S \cup {r})
      /\ Cardinality(S \cup {r}) =
            IF r \in S THEN Cardinality(S) ELSE Cardinality(S) + 1
  BY <1>1, FS_AddElement
<1>4. /\ IsFiniteSet(S \ {r})
      /\ Cardinality(S \ {r}) =
            IF r \in S THEN Cardinality(S) - 1 ELSE Cardinality(S)
  BY <1>1, FS_RemoveElement
<1>5. Cardinality(S \ {r}) \in Nat  BY <1>4, FS_CardinalityType
<1> QED  BY <1>2, <1>3, <1>4, <1>5

\* At the start nothing is in flight.
LEMMA InitType == Init => TypeOK
<1> SUFFICES ASSUME Init PROVE TypeOK  OBVIOUS
<1>1. Cardinality({}) = 0  BY FS_EmptySet
<1> QED  BY <1>1, ThreadsAssumption, ConnectionsAssumption, RequestAssumption
         DEF Init, TypeOK, Phase, Kind, Waiting, Inside, Outside

\* No step lets a request keep what it may not have.
LEMMA StepType == TypeOK /\ [Next]_vars => TypeOK'
<1> SUFFICES ASSUME TypeOK, [Next]_vars PROVE TypeOK'  OBVIOUS
<1> USE RequestAssumption, ThreadsAssumption, ConnectionsAssumption
<1>0. ASSUME NEW r \in Request
      PROVE  /\ Cardinality(thread \ {r}) <= Threads
             /\ Cardinality(conn \ {r}) <= Connections
             /\ Cardinality(thread) < Threads =>
                   Cardinality(thread \cup {r}) <= Threads
             /\ ~PoolFull => Cardinality(conn \cup {r}) <= Connections
  <2>1. thread \subseteq Request /\ conn \subseteq Request
    BY DEF TypeOK
  <2>2. /\ Cardinality(thread) \in Nat
        /\ Cardinality(thread \ {r}) \in Nat
        /\ Cardinality(thread \ {r}) <= Cardinality(thread)
        /\ Cardinality(thread \cup {r}) \in Nat
        /\ Cardinality(thread \cup {r}) <= Cardinality(thread) + 1
    BY <2>1, Counting, Zenon
  <2>3. /\ Cardinality(conn) \in Nat
        /\ Cardinality(conn \ {r}) \in Nat
        /\ Cardinality(conn \ {r}) <= Cardinality(conn)
        /\ Cardinality(conn \cup {r}) \in Nat
        /\ Cardinality(conn \cup {r}) <= Cardinality(conn) + 1
    BY <2>1, Counting, Zenon
  <2>4. Cardinality(thread) <= Threads /\ Cardinality(conn) <= Connections
    BY DEF TypeOK
  <2>5. Cardinality(thread) < Threads =>
           Cardinality(thread \cup {r}) <= Threads
    BY <2>2
  <2>6. ~PoolFull => Cardinality(conn \cup {r}) <= Connections
    BY <2>3 DEF PoolFull
  <2>7. /\ Cardinality(thread \ {r}) <= Threads
        /\ Cardinality(conn \ {r}) <= Connections
    BY <2>2, <2>3, <2>4
  <2> QED  BY <2>5, <2>6, <2>7
<1>1. CASE UNCHANGED vars
  BY <1>1 DEF vars, TypeOK
<1>2. ASSUME NEW r \in Request, NEW k \in Kind, Arrive(r, k) PROVE TypeOK'
  BY <1>2 DEF Arrive, Go, TypeOK, Phase, Waiting, Inside, Outside
<1>3. ASSUME NEW r \in Request, TakeThread(r) PROVE TypeOK'
  <2>1. Cardinality(thread \cup {r}) <= Threads
    BY <1>0, <1>3, Zenon DEF TakeThread
  <2> QED  BY <1>3, <2>1
           DEF TakeThread, Go, TypeOK, Phase, Waiting, Inside, Outside
<1>4. ASSUME NEW r \in Request, TakeUp(r) PROVE TypeOK'
  <2>1. Cardinality(thread \ {r}) <= Threads
    BY <1>0, Zenon
  <2> QED  BY <1>4, <2>1
           DEF TakeUp, Go, TypeOK, Phase, Waiting, Inside, Outside
<1>5. ASSUME NEW r \in Request, Enter(r) PROVE TypeOK'
  BY <1>5 DEF Enter, Go, TypeOK, Phase, Waiting, Inside, Outside
<1>6. ASSUME NEW r \in Request, Checkout(r) PROVE TypeOK'
  <2>1. Cardinality(conn \cup {r}) <= Connections
    BY <1>0, <1>6, Zenon DEF Checkout
  <2> QED  BY <1>6, <2>1
           DEF Checkout, Go, TypeOK, Phase, Waiting, Inside, Outside
<1>7. ASSUME NEW r \in Request, TimeOut(r) PROVE TypeOK'
  BY <1>7 DEF TimeOut, Leave, OnLoop, Go, TypeOK, Phase, Waiting, Inside, Outside
<1>8. ASSUME NEW r \in Request, AwaitFile(r) PROVE TypeOK'
  BY <1>8 DEF AwaitFile, OnLoop, Go, TypeOK, Phase, Waiting, Inside, Outside
<1>9. ASSUME NEW r \in Request PROVE Cardinality(conn \ {r}) <= Connections
  BY <1>0, Zenon
<1>10. ASSUME NEW r \in Request, Commit(r) PROVE TypeOK'
  BY <1>9, <1>10 DEF Commit, Go, TypeOK, Phase, Waiting, Inside, Outside
<1>11. ASSUME NEW r \in Request, Finish(r) PROVE TypeOK'
  <2>1. conn' \subseteq conn /\ Cardinality(conn') <= Connections
    BY <1>9, <1>11 DEF Finish, TypeOK
  <2> QED  BY <1>11, <2>1
           DEF Finish, Leave, OnLoop, Go, TypeOK, Phase, Waiting, Inside, Outside
<1>12. ASSUME NEW r \in Request, Close(r) PROVE TypeOK'
  BY <1>9, <1>12
  DEF Close, Go, TypeOK, Kind, Phase, Waiting, Inside, Outside
<1> QED  BY <1>1, <1>2, <1>3, <1>4, <1>5, <1>6, <1>7, <1>8, <1>10, <1>11, <1>12
         DEF Next

\* Every state's types are right, and no request that is over, or that waits
\* for the pool, keeps a thread or a connection it should not.
THEOREM TypeCorrect == Spec => []TypeOK
<1> QED  BY InitType, StepType, PTL DEF Spec

\* A request that holds a thread is one that can move, or waits for the pool,
\* unless the loop is taken; and so is the one that takes the loop.
LEMMA HoldersMove ==
    ASSUME TypeOK, NEW q \in Request,
           (q \in thread /\ loop = None) \/ q = loop
    PROVE  Moves(q) \/ phase[q] \in Waiting
<1>1. CASE q = loop
  BY <1>1 DEF TypeOK, Moves, Waiting
<1>2. CASE q \in thread /\ loop = None
  <2>1. phase[q] \in {"run"} \cup Waiting \cup DOMAIN Outside
    BY <1>2 DEF TypeOK
  <2> QED  BY <1>2, <2>1 DEF Moves
<1> QED  BY <1>1, <1>2

\* When nothing moves, somebody is in a wait with a timeout: the loop is free,
\* or its holder waits for the pool; and a request waits for a thread only
\* while there is one that holds it.
LEMMA TypeStall == TypeOK => StallIsTimed
<1> SUFFICES ASSUME TypeOK, NEW r \in Request, phase[r] # "idle",
                    \A q \in Request : ~Moves(q),
                    \A q \in Request : phase[q] \notin Waiting
             PROVE FALSE
  BY DEF StallIsTimed
<1>1. loop = None
  BY HoldersMove DEF TypeOK
<1>2. thread = {}
  BY <1>1, HoldersMove DEF TypeOK
<1>3. Cardinality(thread) < Threads
  BY <1>2, FS_EmptySet, ThreadsAssumption
<1>4. phase[r] \in {"idle", "run", "closing"} \cup Waiting
                  \cup DOMAIN Inside \cup DOMAIN Outside
  BY DEF TypeOK, Phase
<1> QED  BY <1>1, <1>3, <1>4 DEF Moves

\* The wait for the pool is the only one that requests can be caught in
\* together, and it ends by itself.
THEOREM StallHolds == Spec => []StallIsTimed
<1> QED  BY TypeCorrect, TypeStall, PTL
-----------------------------------------------------------------------------
(***************************************************************************)
(* Every request comes to an end.  The prover cannot compute ENABLED, so   *)
(* that each action of Fairness is possible whenever its guard holds is    *)
(* StepsCanRun, a hypothesis.                                              *)
(***************************************************************************)
LoopStep(r) == TakeThread(r) \/ TakeUp(r) \/ Enter(r)
PoolStep(r) == Checkout(r) \/ TimeOut(r) \/ Close(r)

LoopCanStep(r) ==
    /\ loop = None
    /\ \/ phase[r] \in DOMAIN Outside
       \/ phase[r] \in DOMAIN Inside /\ Cardinality(thread) < Threads
PoolCanStep(r) == phase[r] \in Waiting \cup {"closing"}

CanStep(r) ==
    /\ LoopCanStep(r) => ENABLED <<TakeThread(r) \/ TakeUp(r) \/ Enter(r)>>_vars
    /\ PoolCanStep(r) => ENABLED <<Checkout(r) \/ TimeOut(r) \/ Close(r)>>_vars
    /\ phase[r] = "run" => ENABLED <<Finish(r)>>_vars
StepsCanRun == \A r \in Request : CanStep(r)

\* The phases a request can go to from each phase.
Successors ==
    [idle |-> {"queued"}, queued |-> {"checkout"},
     checkout |-> {"authed", "failed", "run"}, authed |-> {"ready"},
     ready |-> {"run"}, run |-> {"again", "read", "ran", "failed", "closing"},
     again |-> {"run", "failed", "closing"}, read |-> {"spooled"},
     spooled |-> {"ready"}, ran |-> {"encode"}, encode |-> {"encoded"},
     encoded |-> {"closing"}, failed |-> {"closing"}, closing |-> {"idle"}]

\* Whatever step is taken, a request stays in its phase or goes to a successor.
LEMMA PhaseStep ==
    ASSUME TypeOK, [Next]_vars, NEW q \in Request
    PROVE  phase'[q] = phase[q] \/ phase'[q] \in Successors[phase[q]]
<1> DEFINE onward(r, p) == phase' = [phase EXCEPT ![r] = p]
           stepped == phase'[q] = phase[q] \/ phase'[q] \in Successors[phase[q]]
<1>1. ASSUME NEW r \in Request, NEW p \in Successors[phase[r]], onward(r, p)
      PROVE  stepped
  BY <1>1 DEF TypeOK
<1>2. /\ Successors["checkout"] = {"authed", "failed", "run"}
      /\ Successors["again"] = {"run", "failed", "closing"}
      /\ Successors["run"] = {"again", "read", "ran", "failed", "closing"}
      /\ Successors["idle"] = {"queued"} /\ Successors["closing"] = {"idle"}
  BY DEF Successors
<1>3. \A p \in DOMAIN Inside : Inside[p] \in Successors[p]
  BY DEF Inside, Successors
<1>4. \A p \in DOMAIN Outside : Outside[p] \in Successors[p]
  BY DEF Outside, Successors
<1> HIDE DEF onward
<1>5. CASE UNCHANGED vars
  BY <1>5 DEF vars
<1>6. ASSUME NEW r \in Request, NEW k \in Kind, Arrive(r, k)
      PROVE  stepped
  BY <1>1, <1>2, <1>6 DEF Arrive, Go, onward
<1>7. ASSUME NEW r \in Request, TakeThread(r) \/ TakeUp(r)
      PROVE  stepped
  BY <1>1, <1>3, <1>4, <1>7 DEF TakeThread, TakeUp, Go, onward
<1>8. ASSUME NEW r \in Request, Enter(r)
      PROVE  stepped
  <2>1. Successors["ready"] = {"run"}
    BY DEF Successors
  <2> QED
    BY <1>1, <1>8, <2>1 DEF Enter, Go, onward
<1>9. ASSUME NEW r \in Request, Checkout(r)
      PROVE  stepped
  <2>1. PICK p : onward(r, p) /\ p \in Successors[phase[r]]
    BY <1>2, <1>9 DEF Checkout, Go, onward
  <2> QED
    BY <1>1, <2>1
<1>10. ASSUME NEW r \in Request, TimeOut(r)
       PROVE  stepped
  <2>1. (onward(r, "closing") /\ OnLoop(r)) \/ onward(r, "failed")
    BY <1>10 DEF TimeOut, Leave, Go, onward
  <2>2. phase[r] = "checkout" \/ phase[r] = "again"
    BY <1>10 DEF TimeOut, Waiting
  <2>3. OnLoop(r) => phase[r] # "checkout"
    BY DEF TypeOK, OnLoop
  <2> QED
    BY <1>1, <1>2, <2>1, <2>2, <2>3
<1>11. ASSUME NEW r \in Request, AwaitFile(r) \/ Commit(r)
       PROVE  stepped
  BY <1>1, <1>2, <1>11 DEF AwaitFile, Commit, Go, onward
<1>12. ASSUME NEW r \in Request, Finish(r)
       PROVE  stepped
  <2>1. phase[r] = "run"
    BY <1>12 DEF Finish
  <2>2. PICK p \in {"ran", "failed", "closing"} : onward(r, p)
    BY <1>12 DEF Finish, Leave, Go, onward
  <2> QED
    BY <1>1, <1>2, <2>1, <2>2
<1>13. ASSUME NEW r \in Request, Close(r)
       PROVE  stepped
  BY <1>1, <1>2, <1>13 DEF Close, Go, onward
<1> QED
  BY <1>5, <1>6, <1>7, <1>8, <1>9, <1>10, <1>11, <1>12, <1>13 DEF Next

\* A request's own step of the loop or of the pool does take it on, and its
\* handler's end takes it out of the handler.
LEMMA StepsMove ==
    ASSUME TypeOK, NEW r \in Request
    PROVE  /\ LoopStep(r) \/ PoolStep(r) => phase'[r] # phase[r]
           /\ Finish(r) => phase'[r] \in {"ran", "failed", "closing"}
<1> USE DEF TypeOK, Go, Waiting
<1>1. LoopStep(r) => phase'[r] # phase[r]
  BY DEF LoopStep, TakeThread, TakeUp, Enter, Inside, Outside
<1>2. PoolStep(r) => phase'[r] # phase[r]
  BY DEF PoolStep, Checkout, TimeOut, Close, Leave
<1>3. Finish(r) => phase'[r] \in {"ran", "failed", "closing"}
  BY DEF Finish, Leave
<1> QED  BY <1>1, <1>2, <1>3
\* What a request that is given: the loop is free, and a thread.
Free == loop = None /\ Cardinality(thread) < Threads

\* The coroutine on the loop keeps it until it leaves it free; the end of its
\* handler frees it, and so does the pool unless it lets the handler go on.
LEMMA LoopHolder ==
    ASSUME TypeOK, [Next]_vars, NEW q \in Request, loop = q
    PROVE  /\ loop' \in {q, None}
           /\ Finish(q) => loop' = None
           /\ PoolStep(q) => loop' = None \/ phase'[q] = "run"
<1>1. q # None
  BY RequestAssumption
<1>2. loop' \in {q, None}
  BY <1>1 DEF Next, vars, Arrive, TakeThread, TakeUp, Enter, Checkout, TimeOut,
              AwaitFile, Commit, Finish, Close, Leave, OnLoop
<1>3. Finish(q) => loop' = None
  BY DEF Finish, Leave, OnLoop
<1>4. phase[q] \in {"run", "again"}
  BY DEF TypeOK
<1>5. PoolStep(q) => loop' = None \/ phase'[q] = "run"
  BY <1>4 DEF PoolStep, Checkout, TimeOut, Close, Leave, OnLoop, Go, TypeOK
<1> QED  BY <1>2, <1>3, <1>5

\* The loop is free time and again: whoever runs on it finishes.
LEMMA LoopIsFreed == FairSpec /\ []StepsCanRun => []<>(loop = None)
<1>1. ASSUME NEW q \in Request
      PROVE  FairSpec /\ []StepsCanRun => [](loop = q => <>(loop = None))
  <2> DEFINE runs == phase[q] = "run"
             again == phase[q] = "again"
  <2>1. TypeOK /\ loop = q => runs \/ again
    BY DEF TypeOK
  <2>2. TypeOK /\ [Next]_vars /\ loop = q => (loop = q)' \/ (loop = None)'
    BY LoopHolder
  <2>3. TypeOK /\ [Next]_vars /\ loop = q /\ <<Finish(q)>>_vars => (loop = None)'
    BY LoopHolder
  <2>4. TypeOK /\ [Next]_vars /\ loop = q
        /\ <<Checkout(q) \/ TimeOut(q) \/ Close(q)>>_vars => (loop = None)' \/ runs'
    BY LoopHolder DEF PoolStep
  <2>5. StepsCanRun => CanStep(q)
    BY DEF StepsCanRun
  <2>6. /\ CanStep(q) /\ runs => ENABLED <<Finish(q)>>_vars
        /\ CanStep(q) /\ again
             => ENABLED <<Checkout(q) \/ TimeOut(q) \/ Close(q)>>_vars
    BY DEF CanStep, PoolCanStep, Waiting
  <2>7. FairSpec => FairTo(q)
    BY DEF FairSpec, Fairness
  <2>8. FairSpec => []TypeOK /\ [][Next]_vars
    BY TypeCorrect, PTL DEF FairSpec, Spec
  <2> HIDE DEF runs, again
  <2> QED
    BY <2>1, <2>2, <2>3, <2>4, <2>5, <2>6, <2>7, <2>8, PTL DEF FairTo
<1>2. FairSpec /\ []StepsCanRun => [](\A q \in Request : loop = q => <>(loop = None))
  <2>1. FairSpec /\ []StepsCanRun
        => \A q \in Request : [](loop = q => <>(loop = None))
    BY <1>1
  <2>2. (\A q \in Request : [](loop = q => <>(loop = None)))
        => [](\A q \in Request : loop = q => <>(loop = None))
    OBVIOUS
  <2> QED  BY <2>1, <2>2
<1>3. TypeOK /\ (\A q \in Request : loop = q => <>(loop = None)) => <>(loop = None)
  <2>1. TypeOK => loop = None \/ \E q \in Request : loop = q
    BY DEF TypeOK
  <2>2. (\E q \in Request : loop = q)
        /\ (\A q \in Request : loop = q => <>(loop = None)) => <>(loop = None)
    OBVIOUS
  <2> QED  BY <2>1, <2>2, PTL
<1>4. FairSpec => []TypeOK
  BY TypeCorrect, PTL DEF FairSpec
<1> QED  BY <1>2, <1>3, <1>4, PTL
\* A thread's holder keeps it until the loop takes it back, and then there is
\* one free.  Until the loop does, the holder is in its handler, or waits for
\* the pool, or has an outcome for the loop, which it does not change.
LEMMA ThreadHolder ==
    ASSUME TypeOK, [Next]_vars, NEW q \in Request, q \in thread
    PROVE  /\ q \in thread' \/ Free'
           /\ LoopStep(q) => Free'
           /\ phase[q] \in DOMAIN Outside /\ q \in thread' => phase'[q] = phase[q]
<1>1. phase[q] \in {"run"} \cup Waiting \cup DOMAIN Outside
  BY DEF TypeOK
<1>2. TakeUp(q) => Free'
  <2>1. IsFiniteSet(thread)
    BY FS_Subset, RequestAssumption DEF TypeOK
  <2>2. Cardinality(thread) \in Nat /\ Cardinality(thread) <= Threads
    BY <2>1, FS_CardinalityType DEF TypeOK
  <2>3. Cardinality(thread \ {q}) = Cardinality(thread) - 1
    BY <2>1, FS_RemoveElement
  <2>4. Cardinality(thread \ {q}) < Threads
    BY <2>2, <2>3, ThreadsAssumption
  <2> QED
    BY <2>4 DEF TakeUp, Free
<1>3. q \in thread' \/ TakeUp(q)
  BY DEF Next, vars, Arrive, TakeThread, TakeUp, Enter, Checkout, TimeOut,
         AwaitFile, Commit, Finish, Close, Leave
<1>4. LoopStep(q) => TakeUp(q)
  BY <1>1 DEF LoopStep, TakeThread, Enter, Inside, Outside, Waiting
<1>5. ASSUME phase[q] \in DOMAIN Outside, q \in thread'
      PROVE  phase'[q] = phase[q]
  <2>1. phase'[q] \in {"run"} \cup Waiting \cup DOMAIN Outside
    BY <1>5, StepType DEF TypeOK
  <2>2. phase'[q] = phase[q] \/ phase'[q] \in Successors[phase[q]]
    BY PhaseStep
  <2>3. Successors[phase[q]] \subseteq {"ready", "encode", "closing"}
    BY <1>5 DEF Successors, Outside
  <2> QED
    BY <2>1, <2>2, <2>3 DEF Outside, Waiting
<1> QED
  BY <1>2, <1>3, <1>4, <1>5

\* Loop and thread are both free time and again: a holder of a thread gets
\* through its handler, or is timed out, and the loop takes its thread back.
LEMMA ThreadsAreFreed == FairSpec /\ []StepsCanRun => []<>Free
<1>1. ASSUME NEW q \in Request
      PROVE  FairSpec /\ []StepsCanRun => [](q \in thread => <>Free)
  <2> DEFINE holds == q \in thread
             runs == phase[q] = "run"
             waits == phase[q] \in Waiting
             done == phase[q] \in DOMAIN Outside
             unlooped == loop = None
  <2>1. TypeOK /\ holds => runs \/ waits \/ done
    BY DEF TypeOK
  <2>2. TypeOK /\ [Next]_vars /\ holds => holds' \/ Free'
    BY ThreadHolder
  <2>3. TypeOK /\ [Next]_vars /\ holds
        /\ <<TakeThread(q) \/ TakeUp(q) \/ Enter(q)>>_vars => Free'
    BY ThreadHolder DEF LoopStep
  <2>4. TypeOK /\ [Next]_vars /\ holds /\ done => done' \/ ~holds'
    BY ThreadHolder
  <2>5. TypeOK /\ holds /\ <<Checkout(q) \/ TimeOut(q) \/ Close(q)>>_vars
        => runs' \/ done'
    BY DEF TypeOK, Checkout, TimeOut, Close, Leave, OnLoop, Go, Outside, Waiting
  <2>6. TypeOK /\ holds /\ <<Finish(q)>>_vars => done'
    BY DEF TypeOK, Finish, Leave, OnLoop, Go, Outside
  <2>7. StepsCanRun => CanStep(q)
    BY DEF StepsCanRun
  <2>8. /\ CanStep(q) /\ done /\ unlooped
             => ENABLED <<TakeThread(q) \/ TakeUp(q) \/ Enter(q)>>_vars
        /\ CanStep(q) /\ waits
             => ENABLED <<Checkout(q) \/ TimeOut(q) \/ Close(q)>>_vars
        /\ CanStep(q) /\ runs => ENABLED <<Finish(q)>>_vars
    BY DEF CanStep, LoopCanStep, PoolCanStep
  <2>9. FairSpec => FairTo(q)
    BY DEF FairSpec, Fairness
  <2>10. FairSpec => []TypeOK /\ [][Next]_vars
    BY TypeCorrect, PTL DEF FairSpec, Spec
  <2>11. FairSpec /\ []StepsCanRun => []<>unlooped
    BY LoopIsFreed
  <2> HIDE DEF holds, runs, waits, done, unlooped
  <2>12. FairSpec /\ []StepsCanRun => [](holds => <>Free)
    BY <2>1, <2>2, <2>3, <2>4, <2>5, <2>6, <2>7, <2>8, <2>9, <2>10, <2>11, PTL
       DEF FairTo
  <2> QED
    BY <2>12 DEF holds
<1>2. FairSpec /\ []StepsCanRun => [](\A q \in Request : q \in thread => <>Free)
  <2>1. FairSpec /\ []StepsCanRun => \A q \in Request : [](q \in thread => <>Free)
    BY <1>1
  <2>2. (\A q \in Request : [](q \in thread => <>Free))
        => [](\A q \in Request : q \in thread => <>Free)
    OBVIOUS
  <2> QED  BY <2>1, <2>2
<1>3. TypeOK /\ (\A q \in Request : q \in thread => <>Free)
      => (loop = None => <>Free)
  <2>1. TypeOK => thread = {} \/ \E q \in Request : q \in thread
    BY DEF TypeOK
  <2>2. thread = {} /\ loop = None => Free
    BY FS_EmptySet, ThreadsAssumption DEF Free
  <2>3. (\E q \in Request : q \in thread)
        /\ (\A q \in Request : q \in thread => <>Free) => <>Free
    OBVIOUS
  <2> QED  BY <2>1, <2>2, <2>3, PTL
<1>4. FairSpec => []TypeOK
  BY TypeCorrect, PTL DEF FairSpec
<1> QED  BY <1>2, <1>3, <1>4, LoopIsFreed, PTL
\* A request in a phase comes to one of the next.
MovesOn(r, p) == phase[r] = p ~> phase[r] \in Successors[p]

\* A request that waits for the loop, for itself or for a thread, is served.
LEMMA LoopMoves ==
    ASSUME NEW r \in Request, NEW p \in DOMAIN Inside \cup DOMAIN Outside
    PROVE  FairSpec /\ []StepsCanRun => MovesOn(r, p)
<1> DEFINE here == phase[r] = p
           next == phase[r] \in Successors[p]
<1>1. TypeOK /\ [Next]_vars /\ here => here' \/ next'
  BY PhaseStep
<1>2. TypeOK /\ here /\ <<TakeThread(r) \/ TakeUp(r) \/ Enter(r)>>_vars => ~here'
  BY StepsMove DEF LoopStep
<1>3. StepsCanRun => CanStep(r)
  BY DEF StepsCanRun
<1>4. CanStep(r) /\ here /\ Free
      => ENABLED <<TakeThread(r) \/ TakeUp(r) \/ Enter(r)>>_vars
  BY DEF CanStep, LoopCanStep, Free
<1>5. FairSpec => FairTo(r)
  BY DEF FairSpec, Fairness
<1>6. FairSpec => []TypeOK /\ [][Next]_vars
  BY TypeCorrect, PTL DEF FairSpec, Spec
<1> HIDE DEF here, next
<1>7. FairSpec /\ []StepsCanRun => (here ~> next)
  BY <1>1, <1>2, <1>3, <1>4, <1>5, <1>6, ThreadsAreFreed, PTL DEF FairTo
<1> QED  BY <1>7 DEF here, next, MovesOn

\* A wait for the pool ends one way or the other, and sessions are closed.
LEMMA PoolMoves ==
    ASSUME NEW r \in Request, NEW p \in Waiting \cup {"closing"}
    PROVE  FairSpec /\ []StepsCanRun => MovesOn(r, p)
<1> DEFINE here == phase[r] = p
           next == phase[r] \in Successors[p]
<1>1. TypeOK /\ [Next]_vars /\ here => here' \/ next'
  BY PhaseStep
<1>2. TypeOK /\ here /\ <<Checkout(r) \/ TimeOut(r) \/ Close(r)>>_vars => ~here'
  BY StepsMove DEF PoolStep
<1>3. StepsCanRun => CanStep(r)
  BY DEF StepsCanRun
<1>4. CanStep(r) /\ here => ENABLED <<Checkout(r) \/ TimeOut(r) \/ Close(r)>>_vars
  BY DEF CanStep, PoolCanStep
<1>5. FairSpec => FairTo(r)
  BY DEF FairSpec, Fairness
<1>6. FairSpec => []TypeOK /\ [][Next]_vars
  BY TypeCorrect, PTL DEF FairSpec, Spec
<1> HIDE DEF here, next
<1>7. FairSpec /\ []StepsCanRun => (here ~> next)
  BY <1>1, <1>2, <1>3, <1>4, <1>5, <1>6, PTL DEF FairTo
<1> QED  BY <1>7 DEF here, next, MovesOn

\* A request that has left its handler for good, and one that is in it or on
\* its way back to it.
Leaving == {"ran", "encode", "encoded", "failed", "closing"}
InHandler == {"ready", "run", "again", "read", "spooled"}

\* A request in its handler stays there until it leaves.
LEMMA HandlerStep ==
    ASSUME TypeOK, [Next]_vars, NEW r \in Request, phase[r] \in InHandler
    PROVE  phase'[r] \in InHandler \cup Leaving
BY PhaseStep DEF Successors, InHandler, Leaving

\* Every request that arrives comes to its end: it gets its threads, for every
\* holder of one comes to give it back; it gets its connections or is timed
\* out; and however often it commits, or reads a file, its handler finishes.
THEOREM EveryRequestEndsHolds == FairSpec /\ []StepsCanRun => EveryRequestEnds
<1> SUFFICES ASSUME NEW r \in Request
             PROVE  FairSpec /\ []StepsCanRun
                    => (phase[r] = "queued" ~> phase[r] = "idle")
  BY DEF EveryRequestEnds
<1> DEFINE at(p) == phase[r] = p
           after(p) == phase[r] \in Successors[p]
           handled == phase[r] \in InHandler
           leaving == phase[r] \in Leaving
<1>1. FairSpec /\ []StepsCanRun
      => \A p \in DOMAIN Inside \cup DOMAIN Outside : MovesOn(r, p)
  BY LoopMoves
<1>2. FairSpec /\ []StepsCanRun => \A p \in Waiting \cup {"closing"} : MovesOn(r, p)
  BY PoolMoves
<1>3. FairSpec /\ []StepsCanRun
      => /\ MovesOn(r, "queued") /\ MovesOn(r, "authed") /\ MovesOn(r, "ready")
         /\ MovesOn(r, "read") /\ MovesOn(r, "spooled") /\ MovesOn(r, "ran")
         /\ MovesOn(r, "encode") /\ MovesOn(r, "encoded") /\ MovesOn(r, "failed")
         /\ MovesOn(r, "checkout") /\ MovesOn(r, "again") /\ MovesOn(r, "closing")
  BY <1>1, <1>2 DEF Inside, Outside, Waiting
<1>4. /\ after("queued") => at("checkout")
      /\ after("checkout") => at("authed") \/ handled \/ leaving
      /\ after("authed") => handled
      /\ after("ready") => at("run")
      /\ after("again") => at("run") \/ leaving
      /\ after("read") => at("spooled")
      /\ after("spooled") => at("ready")
  BY DEF Successors, InHandler, Leaving
<1>5. /\ after("ran") => at("encode")
      /\ after("encode") => at("encoded")
      /\ after("encoded") => at("closing")
      /\ after("failed") => at("closing")
      /\ after("closing") => at("idle")
  BY DEF Successors
<1>6. /\ handled => at("ready") \/ at("run") \/ at("again")
                       \/ at("read") \/ at("spooled")
      /\ leaving => at("ran") \/ at("encode") \/ at("encoded")
                       \/ at("failed") \/ at("closing")
  BY DEF InHandler, Leaving
<1>7. TypeOK /\ [Next]_vars /\ handled => handled' \/ leaving'
  BY HandlerStep
<1>8. TypeOK /\ <<Finish(r)>>_vars => leaving'
  BY StepsMove DEF Leaving
<1>9. StepsCanRun => (at("run") => ENABLED <<Finish(r)>>_vars)
  <2>1. StepsCanRun => CanStep(r)
    BY DEF StepsCanRun
  <2> QED  BY <2>1 DEF CanStep
<1>10. FairSpec => FairTo(r)
  BY DEF FairSpec, Fairness
<1>11. FairSpec => []TypeOK /\ [][Next]_vars
  BY TypeCorrect, PTL DEF FairSpec, Spec
<1> HIDE DEF handled, leaving
<1>12. FairSpec /\ []StepsCanRun => (leaving ~> at("idle"))
  BY <1>3, <1>5, <1>6, PTL DEF MovesOn
<1>13. FairSpec /\ []StepsCanRun => (handled ~> at("run") \/ leaving)
  BY <1>3, <1>4, <1>6, PTL DEF MovesOn
<1>14. FairSpec /\ []StepsCanRun => (handled ~> leaving)
  BY <1>7, <1>8, <1>9, <1>10, <1>11, <1>13, PTL DEF FairTo
<1>15. FairSpec /\ []StepsCanRun => (at("queued") ~> handled \/ leaving)
  BY <1>3, <1>4, PTL DEF MovesOn
<1> QED
  BY <1>12, <1>14, <1>15, PTL
=============================================================================
