--------------------------- MODULE ReadersProofs ---------------------------
(***************************************************************************)
(* Proofs about Readers, for any numbers of tasks, workspaces and requests *)
(* for a report.                                                           *)
(***************************************************************************)
EXTENDS Readers, FiniteSetTheorems, TLAPS

\* What a SELECT counts is a number, since there are finitely many tasks.
LEMMA ReportType ==
    ASSUME IsFiniteSet(Task), NEW w
    PROVE  Rep!Report(w) \in Nat
<1> DEFINE counted == {t \in Task : Home[t] = w /\ t \in overdue}
<1>1. counted \subseteq Task
  OBVIOUS
<1>2. Rep!Report(w) = Cardinality(counted)
  BY DEF Rep!Report, Rep!Cardinality, Cardinality
<1> HIDE DEF counted
<1>3. IsFiniteSet(counted)
  BY <1>1, FS_Subset
<1> QED
  BY <1>2, <1>3, FS_CardinalityType

\* The types at the start.
LEMMA InitType == Init => TypeOK
BY NoneIsNew DEF Init, TypeOK, Rep!Init, Rep!TypeOK, Rep!Idle, Rep!Slot, Rem!Init,
   Rem!TypeOK, Rem!Down, Rem!Step

\* The types over a step.
LEMMA StepType == TypeOK /\ [Next]_vars => TypeOK'
<1> SUFFICES ASSUME TypeOK, [Next]_vars PROVE TypeOK'
  OBVIOUS
<1>1. CASE Change
  <2>1. UNCHANGED <<cache, req, job>> /\ assigned' \subseteq Task /\ overdue' \subseteq Task
    BY <1>1 DEF Change, BecomesOverdue, IsSettled, IsAssigned, reports, reminders, TypeOK
  <2>2. notified' \subseteq notified /\ mailed' \subseteq mailed
    BY <1>1 DEF Change, BecomesOverdue, IsSettled, IsAssigned, reminders, Rem!Forget
  <2> QED
    BY <2>1, <2>2 DEF TypeOK, Rep!TypeOK, Rem!TypeOK
<1>2. CASE Rep!Next /\ OfReports
  <2>1. UNCHANGED <<overdue, assigned, job, notified, mailed>>
    BY <1>2 DEF OfReports, reminders
  <2>2. Rep!Idle \in Rep!Slot /\ Rep!Idle.report = None
    BY DEF Rep!Idle, Rep!Slot
  <2>3. ASSUME NEW r \in Request, NEW w \in Workspace, Rep!Miss(r, w) PROVE Rep!TypeOK'
    BY <2>2, <2>3 DEF Rep!Miss, TypeOK, Rep!TypeOK, Rep!Slot
  <2>4. ASSUME NEW r \in Request, Rep!Count(r) PROVE Rep!TypeOK'
    <3>1. Rep!Report(req[r].workspace) \in Nat
      BY ReportType, TasksAssumption
    <3> QED
      BY <2>4, <3>1 DEF Rep!Count, TypeOK, Rep!TypeOK, Rep!Slot
  <2>5. ASSUME NEW r \in Request, Rep!Store(r) PROVE Rep!TypeOK'
    BY <2>2, <2>5 DEF Rep!Store, TypeOK, Rep!TypeOK, Rep!Slot
  <2>6. ASSUME NEW r \in Request, Rep!Fail(r) PROVE Rep!TypeOK'
    BY <2>2, <2>6 DEF Rep!Fail, TypeOK, Rep!TypeOK
  <2>7. ASSUME NEW w \in Workspace, Rep!Expire(w) PROVE Rep!TypeOK'
    BY <2>7 DEF Rep!Expire, TypeOK, Rep!TypeOK
  <2>8. Rep!TypeOK'
    BY <1>2, <2>3, <2>4, <2>5, <2>6, <2>7 DEF Rep!Next
  <2> QED
    BY <2>1, <2>8 DEF TypeOK, Rem!TypeOK
<1>3. CASE Rem!Next /\ OfReminders
  <2>1. UNCHANGED <<overdue, assigned, cache, req>>
    BY <1>3 DEF OfReminders, reports
  <2> USE DEF TypeOK, Rem!TypeOK, Rem!Step
  <2>2. ASSUME NEW t \in Task, Rem!Skip(t) \/ Rem!Remind(t) PROVE Rem!TypeOK'
    BY <2>2 DEF Rem!Skip, Rem!Remind, Rem!Down
  <2>3. ASSUME Rem!Start PROVE Rem!TypeOK'
    BY <2>3 DEF Rem!Start
  <2>4. ASSUME Rem!Commit \/ Rem!Die PROVE Rem!TypeOK'
    BY <2>4 DEF Rem!Commit, Rem!Die
  <2>5. Rem!TypeOK'
    BY <1>3, <2>2, <2>3, <2>4 DEF Rem!Next
  <2> QED
    BY <2>1, <2>5 DEF Rep!TypeOK
<1>4. CASE UNCHANGED vars
  BY <1>4 DEF vars, reports, reminders, TypeOK, Rep!TypeOK, Rem!TypeOK
<1> QED
  BY <1>1, <1>2, <1>3, <1>4 DEF Next

\* The types of both components.
THEOREM TypeCorrect == Spec => []TypeOK
BY InitType, StepType, PTL DEF Spec

-----------------------------------------------------------------------------
\* An e-mail is queued in the step that adds its notification, a commit keeps
\* every notification it finds, and no other step but a death loses one.
THEOREM MailHolds == Spec => MailIsBacked
<1> DEFINE Rule(t) == Unbacked(t)' => Unbacked(t) \/ Rem!Die
<1>1. TypeOK /\ [Next]_vars => [\A t \in Task : Rule(t)]_vars
  <2> SUFFICES ASSUME TypeOK, Next, NEW t \in Task PROVE Rule(t)
    OBVIOUS
  <2>1. CASE Change
    BY <2>1 DEF Change, BecomesOverdue, IsSettled, IsAssigned, reports, reminders,
       Rem!Forget, Unbacked
  <2>2. CASE Rep!Next /\ OfReports
    BY <2>2 DEF OfReports, reminders, Unbacked
  <2>3. CASE Rem!Next /\ OfReminders
    <3> USE DEF Unbacked, TypeOK, Rem!TypeOK, Rem!Step
    <3>1. CASE Rem!Start
      BY <3>1 DEF Rem!Start, Rem!Down
    <3>2. CASE Rem!Commit
      BY <3>2 DEF Rem!Commit
    <3>3. ASSUME NEW u \in Task, Rem!Skip(u) PROVE Rule(t)
      BY <3>3 DEF Rem!Skip, Rem!Down
    <3>4. ASSUME NEW u \in Task, Rem!Remind(u) PROVE Rule(t)
      BY <3>4 DEF Rem!Remind, Rem!Down
    <3> QED
      BY <2>3, <3>1, <3>2, <3>3, <3>4 DEF Rem!Next
  <2> QED
    BY <2>1, <2>2, <2>3 DEF Next
<1> QED
  BY <1>1, TypeCorrect, PTL DEF Spec, MailIsBacked
-----------------------------------------------------------------------------
\* What a run that started in time has done about an overdue task with an
\* assignee: it has it still to do, or has added its notification.
TakenUp(t) == job = Rem!Down \/ job[t] \in {"assigned", "added"}

\* While a task stays overdue, a run neither passes it over nor drops it: the
\* rows without assignee and the e-mails refused are other tasks' affair.
LEMMA TakenUpStays ==
    ASSUME TypeOK, [Next]_vars, NEW t \in Task,
           t \in overdue \cap assigned, TakenUp(t), t \in overdue'
    PROVE  t \in assigned' /\ TakenUp(t)'
<1> USE DEF TakenUp, TypeOK, Rem!TypeOK, Rem!Step, Rem!Down
<1>1. CASE Change
  BY <1>1 DEF Change, BecomesOverdue, IsSettled, IsAssigned, reports, reminders
<1>2. CASE Rep!Next /\ OfReports
  BY <1>2 DEF OfReports, reminders
<1>3. CASE Rem!Next /\ OfReminders
  <2>1. t \in assigned'
    BY <1>3 DEF OfReminders
  <2>2. CASE Rem!Start
    BY <2>1, <2>2 DEF Rem!Start
  <2>3. CASE Rem!Commit \/ Rem!Die
    BY <2>1, <2>3 DEF Rem!Commit, Rem!Die
  <2>4. ASSUME NEW u \in Task, Rem!Skip(u) \/ Rem!Remind(u) PROVE TakenUp(t)'
    BY <2>4 DEF Rem!Skip, Rem!Remind
  <2> QED
    BY <1>3, <2>1, <2>2, <2>3, <2>4 DEF Rem!Next
<1>4. CASE UNCHANGED vars
  BY <1>4 DEF vars, reminders
<1> QED
  BY <1>1, <1>2, <1>3, <1>4 DEF Next

\* The commit of a run ends the run, and of a run that has taken a task up it
\* writes the task's notification.
LEMMA CommitNotifies ==
    ASSUME TypeOK, NEW t \in Task, Rem!Commit
    PROVE  TakenUp(t)' /\ (TakenUp(t) => t \in notified')
BY DEF TakenUp, Rem!Commit, Rem!Down, TypeOK, Rem!TypeOK

\* Whoever has a task that stays overdue is notified of it.  The run under way
\* may have been too early for the task; the next one to commit was not.
THEOREM NotifiedHolds == FairSpec => OverdueIsNotified
<1>1. SUFFICES ASSUME NEW t \in Task
               PROVE  FairSpec => (t \in overdue \cap assigned
                                      ~> t \in notified \/ t \notin overdue)
  BY DEF OverdueIsNotified
<1> DEFINE waiting == t \in overdue \cap assigned
           over == t \in notified \/ t \notin overdue
           commit == Rem!Commit /\ OfReminders
<1>2. TypeOK /\ [Next]_vars /\ waiting /\ ~over' => waiting'
  <2> SUFFICES ASSUME TypeOK, [Next]_vars, waiting, ~over' PROVE waiting'
    OBVIOUS
  <2>1. assigned \subseteq assigned'
    BY DEF Next, Change, BecomesOverdue, IsSettled, IsAssigned, OfReports,
       OfReminders, vars
  <2> QED
    BY <2>1
<1>3. TypeOK /\ [Next]_vars /\ waiting /\ ~over' /\ TakenUp(t) => TakenUp(t)'
  BY TakenUpStays
<1>4. TypeOK /\ <<commit>>_vars => TakenUp(t)'
  BY CommitNotifies
<1>5. TypeOK /\ <<commit>>_vars /\ TakenUp(t) => over'
  BY CommitNotifies
<1>6. FairSpec => []TypeOK /\ [][Next]_vars /\ []<><<commit>>_vars
  BY TypeCorrect, PTL DEF FairSpec, Spec, Fairness
<1> HIDE DEF waiting, over, commit
<1> QED
  BY <1>2, <1>3, <1>4, <1>5, <1>6, PTL DEF waiting, over
-----------------------------------------------------------------------------
(***************************************************************************)
(* Towards CacheConverges: once the tasks rest, each request's report, and *)
(* then each key, is for ever up to date.  The prover cannot compute       *)
(* ENABLED: that Ends and Expires may count on their actions whenever      *)
(* these have something to do is a hypothesis.                             *)
(***************************************************************************)
CanStore(r) ==
    req[r].report # None
       => ENABLED <<(Rep!Count(r) \/ Rep!Store(r) \/ Rep!Fail(r)) /\ OfReports>>_vars
CanExpire(w) == cache[w] # None => ENABLED <<Rep!Expire(w) /\ OfReports>>_vars

\* What a request is to store, and what is stored, agrees with the tasks.
FreshSlot(r) == req[r].report \in {None, Rep!Report(req[r].workspace)}
FreshKey(w) == cache[w] \in {None, Rep!Report(w)}

\* While the tasks rest a SELECT counts what it counted before.
LEMMA ReportRests ==
    ASSUME TypeOK, [Next]_vars, [~Change]_vars
    PROVE  /\ [Rep!Next]_<<cache, req>>
           /\ \A w : Rep!Report(w)' = Rep!Report(w)
<1>1. overdue' = overdue /\ [Rep!Next]_<<cache, req>>
  BY DEF Next, vars, reports, OfReports, OfReminders
<1> QED
  BY <1>1 DEF Rep!Report

\* A report that is fresh stays so, and so does a request without one: what it
\* counts is up to date.  Whoever has a stale one is rid of it when it stores it.
LEMMA SlotStep ==
    ASSUME TypeOK, [Next]_vars, [~Change]_vars, NEW r \in Request
    PROVE  /\ FreshSlot(r) => FreshSlot(r)'
           /\ ~FreshSlot(r) /\ (Rep!Count(r) \/ Rep!Store(r) \/ Rep!Fail(r))
                 => FreshSlot(r)'
<1>1. [Rep!Next]_<<cache, req>> /\ \A w : Rep!Report(w)' = Rep!Report(w)
  BY ReportRests
<1>2. FreshSlot(r)' <=> req'[r].report \in {None, Rep!Report(req'[r].workspace)}
  BY <1>1 DEF FreshSlot
<1> USE DEF FreshSlot, TypeOK, Rep!TypeOK, Rep!Slot, Rep!Idle
<1>3. ASSUME UNCHANGED <<cache, req>>, FreshSlot(r)
      PROVE  FreshSlot(r)'
  BY <1>2, <1>3
<1>4. ASSUME NEW q \in Request, NEW w \in Workspace, Rep!Miss(q, w), FreshSlot(r)
      PROVE  FreshSlot(r)'
  BY <1>2, <1>4 DEF Rep!Miss
<1>5. ASSUME NEW q \in Request, Rep!Count(q), FreshSlot(r)
      PROVE  FreshSlot(r)'
  BY <1>2, <1>5 DEF Rep!Count
<1>6. ASSUME NEW q \in Request, Rep!Store(q) \/ Rep!Fail(q), FreshSlot(r)
      PROVE  FreshSlot(r)'
  BY <1>2, <1>6 DEF Rep!Store, Rep!Fail
<1>7. ASSUME NEW w \in Workspace, Rep!Expire(w), FreshSlot(r)
      PROVE  FreshSlot(r)'
  BY <1>2, <1>7 DEF Rep!Expire
<1>8. ASSUME ~FreshSlot(r), Rep!Count(r) \/ Rep!Store(r) \/ Rep!Fail(r)
      PROVE  FreshSlot(r)'
  BY <1>2, <1>8 DEF Rep!Count, Rep!Store, Rep!Fail
<1> QED
  BY <1>1, <1>3, <1>4, <1>5, <1>6, <1>7, <1>8 DEF Rep!Next

\* A key that is fresh stays so as long as every request would store a fresh
\* report, and a stale one is gone when it expires.
LEMMA KeyStep ==
    ASSUME TypeOK, [Next]_vars, [~Change]_vars, NEW w \in Workspace,
           \A r \in Request : FreshSlot(r)
    PROVE  /\ FreshKey(w) => FreshKey(w)'
           /\ Rep!Expire(w) => FreshKey(w)'
<1>1. [Rep!Next]_<<cache, req>> /\ Rep!Report(w)' = Rep!Report(w)
  BY ReportRests
<1>2. FreshKey(w)' <=> cache'[w] \in {None, Rep!Report(w)}
  BY <1>1 DEF FreshKey
<1> USE DEF FreshKey, TypeOK, Rep!TypeOK
<1>3. ASSUME NEW r \in Request, Rep!Store(r), FreshKey(w)
      PROVE  FreshKey(w)'
  BY <1>2, <1>3 DEF Rep!Store, FreshSlot
<1>4. ASSUME NEW v \in Workspace, Rep!Expire(v), FreshKey(w) \/ v = w
      PROVE  FreshKey(w)'
  BY <1>2, <1>4 DEF Rep!Expire
<1>5. ASSUME UNCHANGED cache, FreshKey(w)
      PROVE  FreshKey(w)'
  BY <1>2, <1>5
<1> QED
  BY <1>1, <1>3, <1>4, <1>5 DEF Rep!Next, Rep!Miss, Rep!Count, Rep!Fail

\* However late a report is stored that was counted before a change: once the
\* tasks rest, no request comes to store a stale one any more.
THEOREM SlotConverges ==
    ASSUME NEW r \in Request
    PROVE  FairSpec /\ []CanStore(r) /\ <>[][~Change]_vars => <>[]FreshSlot(r)
<1> DEFINE act == (Rep!Count(r) \/ Rep!Store(r) \/ Rep!Fail(r)) /\ OfReports
<1>1. TypeOK /\ [Next]_vars /\ [~Change]_vars /\ FreshSlot(r) => FreshSlot(r)'
  BY SlotStep
<1>2. TypeOK /\ [Next]_vars /\ [~Change]_vars /\ <<act>>_vars => FreshSlot(r)'
  BY SlotStep
<1>3. CanStore(r) /\ ~FreshSlot(r) => ENABLED <<act>>_vars
  BY DEF CanStore, FreshSlot
<1>4. FairSpec => Ends(r)
  BY DEF FairSpec, Fairness
<1>5. FairSpec => []TypeOK /\ [][Next]_vars
  BY TypeCorrect, PTL DEF FairSpec, Spec
<1> QED
  BY <1>1, <1>2, <1>3, <1>4, <1>5, PTL DEF Ends

\* Nothing that is out of date stays in the cache: once the tasks rest, and no
\* request has a stale report to store any more, every key comes to agree with
\* the tasks for ever.
THEOREM KeyConverges ==
    ASSUME NEW w \in Workspace
    PROVE  FairSpec /\ []CanExpire(w) /\ <>[][~Change]_vars
           /\ <>[](\A r \in Request : FreshSlot(r)) => <>[]FreshKey(w)
<1> DEFINE act == Rep!Expire(w) /\ OfReports
           fresh == \A r \in Request : FreshSlot(r)
<1>1. TypeOK /\ [Next]_vars /\ [~Change]_vars /\ fresh /\ FreshKey(w) => FreshKey(w)'
  BY KeyStep
<1>2. TypeOK /\ [Next]_vars /\ [~Change]_vars /\ fresh /\ <<act>>_vars => FreshKey(w)'
  BY KeyStep
<1>3. CanExpire(w) /\ ~FreshKey(w) => ENABLED <<act>>_vars
  BY DEF CanExpire, FreshKey
<1>4. FairSpec => Expires(w)
  BY DEF FairSpec, Fairness
<1>5. FairSpec => []TypeOK /\ [][Next]_vars
  BY TypeCorrect, PTL DEF FairSpec, Spec
<1> QED
  BY <1>1, <1>2, <1>3, <1>4, <1>5, PTL DEF Expires
=============================================================================
