--------------------------- MODULE ProjectsProofs ---------------------------
(***************************************************************************)
(* Proofs about Projects, for any number of projects and of concurrent     *)
(* requests.                                                               *)
(***************************************************************************)
EXTENDS Projects, TLAPS

\* What an update is about to write is a valid successor of what it loaded.
WritesValid ==
    \A r \in Request : req[r].write # None =>
        req[r].op = "update" /\ ValidTransition(req[r].read, req[r].write)

\* A deleted project has its audit entry.
DeletionsAudited == \A p \in deleted : "soft_delete" \in audit[p]

IInv == TypeOK /\ WritesValid /\ DeletionsAudited

-----------------------------------------------------------------------------
\* The inductive invariant at the start.
LEMMA InitInv == Init => IInv
BY NoneIsNew DEF Init, IInv, TypeOK, WritesValid, DeletionsAudited, Slot, Idle

\* ... and over a step.
LEMMA StepInv == IInv /\ [Next]_vars => IInv'
<1> SUFFICES ASSUME IInv, [Next]_vars PROVE IInv'
  OBVIOUS
<1> USE NoneIsNew 
        DEF IInv, TypeOK, WritesValid, DeletionsAudited, Slot, Idle, Audited, Done
<1>1. ASSUME NEW p \in Project, Create(p) PROVE IInv'
  BY <1>1 DEF Create, Status
<1>2. ASSUME NEW r \in Request, NEW p \in Project, NEW s \in Status \cup {None},
             BeginUpdate(r, p, s)
      PROVE  IInv'
  BY <1>2 DEF BeginUpdate, Present
<1>3. ASSUME NEW r \in Request, NEW p \in Project, BeginDelete(r, p) PROVE IInv'
  BY <1>3 DEF BeginDelete, Present
<1>4. ASSUME NEW r \in Request, CommitUpdate(r) PROVE IInv'
  BY <1>4 DEF CommitUpdate
<1>5. ASSUME NEW r \in Request, CommitDelete(r) PROVE IInv'
  BY <1>5 DEF CommitDelete
<1>6. ASSUME NEW r \in Request, Abort(r) PROVE IInv'
  BY <1>6 DEF Abort
<1>7. CASE UNCHANGED vars
  BY <1>7 DEF vars
<1> QED
  BY <1>1, <1>2, <1>3, <1>4, <1>5, <1>6, <1>7 DEF Next

\* The inductive invariant holds throughout.
THEOREM Invariance == Spec => []IInv
BY InitInv, StepInv, PTL DEF Spec

\* The type invariant.
THEOREM TypeCorrect == Spec => []TypeOK
BY Invariance, PTL DEF IInv

-----------------------------------------------------------------------------
\* A project leaves a terminal status only by a commit whose request loaded it
\* before it got there.
THEOREM TerminalHolds == Spec => TerminalLeftOnlyByStaleWrite
<1> DEFINE Stale == \A p \in Project : status[p] \in Terminal /\ status'[p] # status[p] =>
                       \E r \in Request : /\ req[r].project = p /\ req'[r] = Idle
                                          /\ req[r].read \notin Terminal
                                          /\ req[r].write = status'[p]
                                          /\ ValidTransition(req[r].read, status'[p])
<1>1. IInv /\ [Next]_vars => [Stale]_vars
  <2> SUFFICES ASSUME IInv, Next, NEW p \in Project, status[p] \in Terminal,
                      status'[p] # status[p]
               PROVE  \E r \in Request : /\ req[r].project = p /\ req'[r] = Idle
                                         /\ req[r].read \notin Terminal
                                         /\ req[r].write = status'[p]
                                         /\ ValidTransition(req[r].read, status'[p])
    OBVIOUS
  <2>1. ASSUME NEW q \in Project, Create(q) PROVE FALSE
    BY <2>1, NoneIsNew DEF Create, IInv, TypeOK, Terminal, Status
  <2>2. PICK r \in Request : CommitUpdate(r)
    BY <2>1 DEF Next, BeginUpdate, BeginDelete, CommitDelete, Abort
  <2>3. /\ req[r].project = p /\ req'[r] = Idle
        /\ req[r].write # None /\ status'[p] = req[r].write
    BY <2>2 DEF CommitUpdate, IInv, TypeOK, Slot, Done
  <2>4. ValidTransition(req[r].read, status'[p])
    BY <2>3 DEF IInv, WritesValid
  <2> QED
    BY <2>3, <2>4 DEF ValidTransition
<1> QED
  BY <1>1, Invariance, PTL DEF Spec, TerminalLeftOnlyByStaleWrite

\* A request that ends is one of its project's holders no more.
LEMMA HoldersEnd ==
    ASSUME IInv, NEW r \in Request, NEW p \in Project, req' = Done(r)
    PROVE  Holders(p)' = Holders(p) \ {r}
BY NoneIsNew DEF IInv, TypeOK, Holders, Done, Idle

\* Only those who held a project when it was deleted still touch it, once each.
THEOREM RestHolds == Spec => DeletedComesToRest
<1> DEFINE Rests(p) ==
       /\ p \in deleted'
       /\ Holders(p)' \subseteq Holders(p)
       /\ UNCHANGED <<status[p], audit[p]>> \/ Holders(p)' # Holders(p)
<1>1. IInv /\ [Next]_vars => [\A p \in deleted : Rests(p)]_vars
  <2> SUFFICES ASSUME IInv, Next, NEW p \in deleted PROVE Rests(p)
    OBVIOUS
  <2>1. p \in Project /\ status[p] # None
    BY DEF IInv, TypeOK
  <2>2. ASSUME NEW q \in Project, Create(q) PROVE Rests(p)
    BY <2>1, <2>2 DEF Create, Audited, Holders, IInv, TypeOK
  <2>3. ASSUME NEW r \in Request, NEW q \in Project, NEW s \in Status \cup {None},
               BeginUpdate(r, q, s)
        PROVE  Rests(p)
    BY <2>1, <2>3 DEF BeginUpdate, Present, Holders, IInv, TypeOK
  <2>4. ASSUME NEW r \in Request, NEW q \in Project, BeginDelete(r, q) PROVE Rests(p)
    BY <2>1, <2>4 DEF BeginDelete, Present, Holders, Idle, IInv, TypeOK
  <2>5. ASSUME NEW r \in Request, CommitUpdate(r) \/ CommitDelete(r) \/ Abort(r)
        PROVE  Rests(p)
    <3>1. Holders(p)' = Holders(p) \ {r} /\ p \in deleted'
      BY <2>1, <2>5, HoldersEnd DEF CommitUpdate, CommitDelete, Abort
    <3>2. CASE req[r].project = p
      <4>1. r \in Holders(p)
        BY <3>2 DEF Holders
      <4> QED
        BY <3>1, <4>1
    <3>3. CASE req[r].project # p
      <4>1. UNCHANGED <<status[p], audit[p]>>
        BY <2>1, <2>5, <3>3
        DEF CommitUpdate, CommitDelete, Abort, Audited, IInv, TypeOK
      <4> QED
        BY <3>1, <4>1
    <3> QED
      BY <3>2, <3>3
  <2> QED
    BY <2>2, <2>3, <2>4, <2>5 DEF Next
<1> QED
  BY <1>1, Invariance, PTL DEF Spec, DeletedComesToRest

-----------------------------------------------------------------------------
\* The projects implement SoftDelete: a deletion stands, and is audited when
\* it happens.
THEOREM SoftDeleteImplemented == Spec => ImplementsSoftDelete
<1>1. Init => SD!Init
  BY DEF Init, SD!Init, life, recorded
<1>2. IInv /\ [Next]_vars => [SD!Next]_SD!vars
  <2> SUFFICES ASSUME IInv, [Next]_vars PROVE SD!Next \/ UNCHANGED <<life, recorded>>
    BY DEF SD!vars
  <2> USE NoneIsNew DEF IInv, TypeOK, Slot, life, recorded, Audited
  <2>1. ASSUME NEW p \in Project, Create(p) PROVE SD!Next
    <3>1. p \notin deleted /\ UNCHANGED recorded
      BY <2>1 DEF Create
    <3>2. life' = [life EXCEPT ![p] = "present"]
      BY <2>1, <3>1 DEF Create, Status
    <3>3. SD!Create(p)
      BY <2>1, <3>1, <3>2 DEF Create, SD!Create
    <3> QED
      BY <3>3 DEF SD!Next
  <2>2. ASSUME NEW r \in Request, CommitDelete(r)
        PROVE  SD!Next \/ UNCHANGED <<life, recorded>>
    <3> DEFINE p == req[r].project
    <3>1. p \in Project /\ status[p] # None
      BY <2>2 DEF CommitDelete
    <3>2. CASE p \notin deleted
      <4>1. life' = [life EXCEPT ![p] = "deleted"]
        BY <2>2, <3>1, <3>2 DEF CommitDelete
      <4>2. recorded' = recorded \cup {p}
        BY <2>2, <3>1 DEF CommitDelete
      <4>3. life[p] = "present"
        BY <3>1, <3>2
      <4> HIDE DEF life, recorded, p
      <4>4. SD!Delete(p)
        BY <4>1, <4>2, <4>3 DEF SD!Delete
      <4> QED
        BY <3>1, <4>4 DEF SD!Next
    <3>3. CASE p \in deleted
      BY <2>2, <3>1, <3>3 DEF CommitDelete, DeletionsAudited
    <3> QED
      BY <3>2, <3>3
  <2>3. ASSUME NEW r \in Request, CommitUpdate(r) PROVE UNCHANGED <<life, recorded>>
    BY <2>3 DEF CommitUpdate
  <2>4. CASE UNCHANGED <<status, deleted, audit>>
    BY <2>4
  <2> QED
    BY <2>1, <2>2, <2>3, <2>4 DEF Next, vars, BeginUpdate, BeginDelete, Abort
<1> QED
  BY <1>1, <1>2, Invariance, PTL DEF Spec, ImplementsSoftDelete, SD!Spec
=============================================================================
