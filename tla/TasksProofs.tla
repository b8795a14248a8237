---------------------------- MODULE TasksProofs ----------------------------
(***************************************************************************)
(* Proofs about Tasks, for any number of tasks, projects, comments, files, *)
(* users and concurrent requests.                                          *)
(***************************************************************************)
EXTENDS Tasks, TLAPS

\* The assignees a request has loaded or is about to write are members.
SlotAssignee ==
    \A r \in Request : {req[r].read.assignee, req[r].new.assignee}
                          \subseteq member \cup {None}

\* What a request means a row to become: consistent, if its handler applies the
\* side effects of the status, and deleted only by a delete.
Intentions ==
    \A r \in Request :
        /\ ~req[r].read.deleted
        /\ req[r].op \in {"create", "update"} => Consistent(req[r].new)
        /\ req[r].op = "delete" => req[r].new = [req[r].read EXCEPT !.deleted = TRUE]
        /\ req[r].op # "delete" => ~req[r].new.deleted

\* A deleted task has its audit entry, and a task not created is not deleted.
DeletionsAudited ==
    \A t \in Task : task[t].deleted => "soft_delete" \in audit[t] /\ home[t] # None

IInv == /\ TypeOK /\ AssigneeIsMember /\ SlotAssignee /\ Intentions
        /\ DeletionsAudited /\ AttachmentHasFile

-----------------------------------------------------------------------------
\* The operators on rows.
LEMMA SideEffectsType ==
    ASSUME NEW row \in Row
    PROVE  /\ ApplyStatusSideEffects(row) \in Row
           /\ Consistent(ApplyStatusSideEffects(row))
           /\ ApplyStatusSideEffects(row).assignee = row.assignee
           /\ ApplyStatusSideEffects(row).deleted = row.deleted
BY DEF Row, ApplyStatusSideEffects, Consistent

\* A commit that finds the row as it was loaded makes it what was meant.
LEMMA WriteChangesType ==
    ASSUME NEW row \in Row, NEW read \in Row, NEW new \in Row
    PROVE  /\ WriteChanges(row, read, new) \in Row
           /\ row = read => WriteChanges(row, read, new) = new
           /\ WriteChanges(row, read, new).assignee \in {row.assignee, new.assignee}
BY DEF Row, WriteChanges

\* The inductive invariant at the start.
LEMMA InitInv == Init => IInv
BY NoneIsNew DEF Init, IInv, TypeOK, AssigneeIsMember, SlotAssignee, Intentions,
   DeletionsAudited, AttachmentHasFile, Slot, Idle, Blank, Row, Status, Consistent

\* A step that leaves the files alone, and in which no slot gets hold of one.
LEMMA FilesKept ==
    ASSUME AttachmentHasFile, UNCHANGED files,
           \A q \in Request : req'[q].file # None => req'[q].file = req[q].file
    PROVE  AttachmentHasFile'
BY DEF AttachmentHasFile, files

\* What an update writes, from the body it was given.
LEMMA PatchedType ==
    ASSUME TypeOK, NEW t \in Task, NEW s \in Status \cup {None},
           NEW a \in User \cup {None}
    PROVE  /\ Patched(t, s, a) \in Row
           /\ Patched(t, s, a).assignee \in {task[t].assignee, a}
           /\ Patched(t, s, a).deleted = task[t].deleted
<1>1. task[t] \in Row
  BY DEF TypeOK
<1> QED
  BY <1>1 DEF Row, Patched

\* Every handler that loads a task keeps the invariant when it takes its slot.
LEMMA HoldInv ==
    ASSUME IInv, NEW r \in Request, NEW t \in Task, Found(t), NEW new \in Row,
           NEW op \in {"update", "delete", "comment", "upload"}, Hold(r, op, t, new),
           UNCHANGED <<task, home, audit, comment, files, closed, member>>,
           new.assignee \in member \cup {None},
           op = "update" => Consistent(new),
           op = "delete" => new = [task[t] EXCEPT !.deleted = TRUE],
           op # "delete" => ~new.deleted
    PROVE  IInv'
<1> DEFINE slot == [op |-> op, task |-> t, project |-> home[t],
                    read |-> task[t], new |-> new, file |-> None]
<1>1. /\ slot \in Slot /\ slot.op = op /\ slot.task = t /\ slot.project = home[t]
      /\ slot.read = task[t] /\ slot.new = new /\ slot.file = None
      /\ home[t] \in Project
  BY DEF Slot, IInv, TypeOK, Found
<1>2. req' = [req EXCEPT ![r] = slot]
  BY DEF Hold
<1>3. task[t].assignee \in member \cup {None} /\ ~task[t].deleted
  BY DEF IInv, AssigneeIsMember, Found
<1> HIDE DEF slot
<1>4. TypeOK'
  BY <1>1, <1>2, NoneIsNew DEF IInv, TypeOK, files
<1>5. SlotAssignee'
  BY <1>1, <1>2, <1>3 DEF IInv, TypeOK, SlotAssignee
<1>6. Intentions'
  BY <1>1, <1>2, <1>3 DEF IInv, TypeOK, Intentions
<1>7. AttachmentHasFile'
  BY <1>1, <1>2, FilesKept DEF IInv, TypeOK
<1> QED
  BY <1>4, <1>5, <1>6, <1>7 DEF IInv, AssigneeIsMember, DeletionsAudited

\* The two commits that write to a task keep it, too.
LEMMA WriteInv ==
    ASSUME IInv, NEW r \in Request, NEW kind \in {"update", "soft_delete"},
           NEW op \in {"update", "delete"}, op = "delete" <=> kind = "soft_delete",
           CommitWrite(r, op, kind)
    PROVE  IInv'
<1> DEFINE t == req[r].task
           new == WriteChanges(task[t], req[r].read, req[r].new)
<1>1. /\ t \in Task /\ task[t] \in Row /\ req[r].read \in Row /\ req[r].new \in Row
      /\ home[t] # None
  BY NoneIsNew DEF CommitWrite, IInv, TypeOK, Slot
<1>2. /\ task' = [task EXCEPT ![t] = new] /\ audit' = [audit EXCEPT ![t] = @ \cup {kind}]
      /\ req' = [req EXCEPT ![r] = Idle] /\ UNCHANGED <<home, comment, files, closed, member>>
  BY DEF CommitWrite, Audited, Done
<1>3. /\ new \in Row /\ new.assignee \in member \cup {None}
      /\ new.deleted => task[t].deleted \/ kind = "soft_delete"
  <2>1. new \in Row /\ new.assignee \in {task[t].assignee, req[r].new.assignee}
    BY <1>1, WriteChangesType
  <2>2. new.deleted => task[t].deleted \/ kind = "soft_delete"
    BY <1>1 DEF WriteChanges, IInv, Intentions, CommitWrite
  <2> QED
    BY <1>1, <2>1, <2>2 DEF IInv, AssigneeIsMember, SlotAssignee
<1> HIDE DEF t, new
<1>4. /\ Idle \in Slot /\ Idle.op = "none" /\ Idle.read = Blank /\ Idle.new = Blank
      /\ Idle.file = None /\ ~Blank.deleted /\ Blank.assignee = None
  BY DEF Idle, Slot, Blank, Row, Status
<1>5. TypeOK'
  BY <1>1, <1>2, <1>3, <1>4, NoneIsNew DEF IInv, TypeOK, files
<1>6. AssigneeIsMember' /\ SlotAssignee'
  BY <1>1, <1>2, <1>3, <1>4 DEF IInv, TypeOK, AssigneeIsMember, SlotAssignee
<1>7. Intentions'
  BY <1>2, <1>4 DEF IInv, TypeOK, Intentions
<1>8. DeletionsAudited'
  BY <1>1, <1>2, <1>3 DEF IInv, TypeOK, DeletionsAudited
<1>9. AttachmentHasFile'
  BY <1>2, <1>4, FilesKept DEF IInv, TypeOK
<1> QED
  BY <1>5, <1>6, <1>7, <1>8, <1>9 DEF IInv

\* A request that ends gives its slot back.
LEMMA DoneInv ==
    ASSUME TypeOK, SlotAssignee, Intentions, NEW r \in Request, req' = Done(r),
           UNCHANGED member
    PROVE  /\ req' \in [Request -> Slot] /\ SlotAssignee' /\ Intentions'
           /\ \A q \in Request : req'[q].op # "none" => req'[q] = req[q]
           /\ \A q \in Request : req'[q].file # None => q # r /\ req'[q] = req[q]
           /\ \A q \in Request : req'[q].op = "insert" <=> req'[q].file \in File
<1>1. /\ Idle \in Slot /\ Idle.op = "none" /\ Idle.read = Blank /\ Idle.new = Blank
      /\ Idle.file = None /\ ~Blank.deleted /\ Blank.assignee = None
  BY DEF Idle, Slot, Blank, Row, Status
<1> QED
  BY <1>1, NoneIsNew DEF Done, TypeOK, SlotAssignee, Intentions

\* A file that is stored gets a name of its own, so no row names it yet, and no
\* other request holds it.
LEMMA StoreInv ==
    ASSUME IInv, NEW r \in Request, StoreFile(r)
    PROVE  IInv'
<1> USE DEF IInv
<1>1. PICK f \in File \ stored :
          /\ stored' = stored \cup {f}
          /\ req' = [req EXCEPT ![r] = [@ EXCEPT !.op = "insert", !.file = f]]
  BY DEF StoreFile
<1> DEFINE slot == [req[r] EXCEPT !.op = "insert", !.file = f]
<1>2. /\ req[r].op = "upload"
      /\ UNCHANGED <<task, home, audit, comment, attachment, closed, member>>
  BY DEF StoreFile
<1>3. /\ slot \in Slot /\ slot.op = "insert" /\ slot.file = f
      /\ slot.task = req[r].task /\ slot.project = req[r].project
      /\ slot.read = req[r].read /\ slot.new = req[r].new
  BY DEF TypeOK, Slot
<1>4. req' = [req EXCEPT ![r] = slot]
  BY <1>1
<1> HIDE DEF slot
<1>5. TypeOK'
  BY <1>1, <1>2, <1>3, <1>4 DEF TypeOK
<1>6. SlotAssignee' /\ Intentions'
  BY <1>2, <1>3, <1>4 DEF TypeOK, SlotAssignee, Intentions
<1>7. AttachmentHasFile'
  BY <1>1, <1>2, <1>3, <1>4 DEF TypeOK, AttachmentHasFile
<1> QED
  BY <1>2, <1>5, <1>6, <1>7 DEF AssigneeIsMember, DeletionsAudited

\* The row that a commit inserts names the file that was stored for it.
LEMMA UploadInv ==
    ASSUME IInv, NEW r \in Request, CommitUpload(r)
    PROVE  IInv'
<1> USE DEF IInv
<1>1. /\ req[r].op = "insert" /\ req' = Done(r)
      /\ attachment' = [attachment EXCEPT ![req[r].file] = req[r].task]
      /\ UNCHANGED <<task, home, audit, comment, stored, closed, member>>
  BY DEF CommitUpload
<1>2. /\ req' \in [Request -> Slot] /\ SlotAssignee' /\ Intentions'
      /\ \A q \in Request : req'[q].op # "none" => req'[q] = req[q]
      /\ \A q \in Request : req'[q].file # None => q # r /\ req'[q] = req[q]
      /\ \A q \in Request : req'[q].op = "insert" <=> req'[q].file \in File
  BY <1>1, DoneInv
<1>3. req[r].task \in Task /\ req[r].file \in File /\ req[r].file # None
  BY <1>1, NoneIsNew DEF TypeOK
<1>4. TypeOK'
  BY <1>1, <1>2, <1>3 DEF TypeOK
<1>5. AttachmentHasFile'
  BY <1>1, <1>2, <1>3 DEF TypeOK, AttachmentHasFile
<1> QED
  BY <1>1, <1>2, <1>4, <1>5 DEF AssigneeIsMember, DeletionsAudited

\* The inductive invariant over a step.
LEMMA StepInv == IInv /\ [Next]_vars => IInv'
<1> SUFFICES ASSUME IInv, [Next]_vars PROVE IInv'
  OBVIOUS
<1> USE DEF IInv
<1>1. ASSUME NEW r \in Request, NEW s \in Status, NEW a \in User \cup {None},
             NEW p \in Project, BeginCreate(r, p, s, a)
      PROVE  IInv'
  <2> DEFINE row == [Blank EXCEPT !.status = s, !.assignee = a]
             new == ApplyStatusSideEffects(row)
             slot == [Idle EXCEPT !.op = "create", !.project = p, !.new = new]
  <2>1. row \in Row /\ row.assignee = a /\ ~row.deleted
    BY DEF Blank, Row, Status
  <2>2. new \in Row /\ new.assignee = a /\ ~new.deleted /\ Consistent(new)
    BY <2>1, SideEffectsType
  <2>3. req' = [req EXCEPT ![r] = slot] /\ a \in member \cup {None}
    BY <1>1 DEF BeginCreate
  <2> HIDE DEF new, row
  <2>4. /\ slot \in Slot /\ slot.op = "create" /\ slot.project = p
        /\ slot.read.assignee = None /\ ~slot.read.deleted /\ slot.new = new
        /\ slot.file = None
    BY <2>2 DEF Slot, Idle, Blank, Row, Status
  <2> HIDE DEF slot
  <2>5. UNCHANGED <<task, home, audit, comment, files, closed, member>>
    BY <1>1 DEF BeginCreate
  <2>6. TypeOK'
    BY <2>3, <2>4, <2>5, NoneIsNew DEF TypeOK, files
  <2>7. SlotAssignee' /\ Intentions'
    BY <2>2, <2>3, <2>4, <2>5 DEF TypeOK, SlotAssignee, Intentions
  <2>8. AttachmentHasFile'
    BY <2>3, <2>4, <2>5, FilesKept DEF TypeOK
  <2> QED
    BY <2>5, <2>6, <2>7, <2>8 DEF AssigneeIsMember, DeletionsAudited
<1>2. ASSUME NEW r \in Request, CommitCreate(r) PROVE IInv'
  <2>1. PICK t \in Task : /\ home[t] = None
                          /\ home' = [home EXCEPT ![t] = req[r].project]
                          /\ task' = [task EXCEPT ![t] = req[r].new]
                          /\ audit' = Audited(t, "create")
    BY <1>2 DEF CommitCreate
  <2>2. /\ req[r].op = "create" /\ req[r].project \in Project /\ req[r].new \in Row
        /\ ~req[r].new.deleted /\ req[r].new.assignee \in member \cup {None}
    BY <1>2 DEF CommitCreate, TypeOK, Slot, Intentions, SlotAssignee
  <2>3. UNCHANGED <<comment, files, closed, member>> /\ req' = Done(r)
    BY <1>2 DEF CommitCreate
  <2>4. /\ req' \in [Request -> Slot] /\ SlotAssignee' /\ Intentions'
        /\ \A q \in Request : req'[q].op # "none" => req'[q] = req[q]
        /\ \A q \in Request : req'[q].file # None => req'[q] = req[q]
        /\ \A q \in Request : req'[q].op = "insert" <=> req'[q].file \in File
    BY <2>3, DoneInv
  <2>5. TypeOK'
    BY <2>1, <2>2, <2>3, <2>4, NoneIsNew DEF TypeOK, Audited, files
  <2>6. AssigneeIsMember' /\ DeletionsAudited'
    BY <2>1, <2>2, <2>3, NoneIsNew DEF TypeOK, AssigneeIsMember, DeletionsAudited, Audited
  <2>7. AttachmentHasFile'
    BY <2>3, <2>4, FilesKept
  <2> QED
    BY <2>4, <2>5, <2>6, <2>7
<1>3. ASSUME NEW r \in Request, NEW t \in Task, NEW s \in Status \cup {None},
             NEW a \in User \cup {None}, BeginUpdate(r, t, s, a)
      PROVE  IInv'
  <2> DEFINE new == ApplyStatusSideEffects(Patched(t, s, a))
  <2>1. /\ new \in Row /\ new.assignee \in {task[t].assignee, a} /\ Consistent(new)
        /\ new.deleted = task[t].deleted
    BY PatchedType, SideEffectsType
  <2>2. /\ Found(t) /\ Hold(r, "update", t, new) /\ a \in {None, task[t].assignee} \cup member
        /\ UNCHANGED <<task, home, audit, comment, files, closed, member>>
    BY <1>3 DEF BeginUpdate
  <2> HIDE DEF new
  <2>3. new.assignee \in member \cup {None} /\ ~new.deleted
    BY <2>1, <2>2 DEF AssigneeIsMember, Found
  <2> QED
    BY <2>1, <2>2, <2>3, HoldInv
<1>4. ASSUME NEW r \in Request, NEW t \in Task, BeginDelete(r, t) PROVE IInv'
  <2> DEFINE new == [task[t] EXCEPT !.deleted = TRUE]
  <2>0. task[t] \in Row
    BY DEF TypeOK
  <2>1. new \in Row /\ new.assignee = task[t].assignee
    <3> USE DEF Row
    <3> HIDE DEF IInv
    <3> QED  BY <2>0
  <2>2. /\ Found(t) /\ Hold(r, "delete", t, new)
        /\ UNCHANGED <<task, home, audit, comment, files, closed, member>>
    BY <1>4 DEF BeginDelete
  <2> QED
    BY <2>1, <2>2, HoldInv DEF AssigneeIsMember
<1>5. ASSUME NEW r \in Request, NEW t \in Task, BeginComment(r, t) PROVE IInv'
  <2>1. /\ Found(t) /\ Hold(r, "comment", t, task[t]) /\ task[t] \in Row
        /\ UNCHANGED <<task, home, audit, comment, files, closed, member>>
    BY <1>5 DEF BeginComment, TypeOK
  <2> QED
    BY <2>1, HoldInv DEF AssigneeIsMember, Found
<1>6. ASSUME NEW r \in Request, CommitUpdate(r) \/ CommitDelete(r) PROVE IInv'
  BY <1>6, WriteInv DEF CommitUpdate, CommitDelete
<1>7. ASSUME NEW r \in Request, CommitComment(r) \/ Abort(r) PROVE IInv'
  <2>1. /\ req' = Done(r) /\ UNCHANGED <<task, home, audit, files, closed, member>>
        /\ comment' \in [Comment -> Task \cup {None}]
    BY <1>7 DEF CommitComment, Abort, TypeOK
  <2>2. AttachmentHasFile'
    BY <2>1, DoneInv, FilesKept
  <2>3. TypeOK'
    BY <2>1, DoneInv DEF TypeOK, files
  <2> QED
    BY <2>1, <2>2, <2>3, DoneInv DEF AssigneeIsMember, DeletionsAudited, TypeOK
<1>8. ASSUME NEW p \in Project, DeleteProject(p) PROVE IInv'
  BY <1>8, FilesKept DEF DeleteProject, files, TypeOK, AssigneeIsMember, SlotAssignee,
     Intentions, DeletionsAudited
<1>9. ASSUME NEW u \in User, Join(u) PROVE IInv'
  BY <1>9, FilesKept DEF Join, files, TypeOK, AssigneeIsMember, SlotAssignee, Intentions,
     DeletionsAudited
<1>10. CASE UNCHANGED vars
  BY <1>10, FilesKept DEF vars, files, TypeOK, AssigneeIsMember, SlotAssignee,
     Intentions, DeletionsAudited
<1>11. ASSUME NEW r \in Request, NEW t \in Task, BeginUpload(r, t) PROVE IInv'
  <2>1. /\ Found(t) /\ Hold(r, "upload", t, task[t]) /\ task[t] \in Row
        /\ UNCHANGED <<task, home, audit, comment, files, closed, member>>
    BY <1>11 DEF BeginUpload, TypeOK
  <2> QED
    BY <2>1, HoldInv DEF AssigneeIsMember, Found
<1>12. ASSUME NEW r \in Request, StoreFile(r) PROVE IInv'
  BY <1>12, StoreInv
<1>13. ASSUME NEW r \in Request, CommitUpload(r) PROVE IInv'
  BY <1>13, UploadInv
<1> QED
  BY <1>1, <1>2, <1>3, <1>4, <1>5, <1>6, <1>7, <1>8, <1>9, <1>10, <1>11, <1>12, <1>13
  DEF Next

\* The inductive invariant holds throughout.
THEOREM Invariance == Spec => []IInv
BY InitInv, StepInv, PTL DEF Spec

\* The type invariant.
THEOREM TypeCorrect == Spec => []TypeOK
BY Invariance, PTL DEF IInv

\* Tasks are assigned to members only, checked as they are at another time.
THEOREM AssigneeHolds == Spec => []AssigneeIsMember
BY Invariance, PTL DEF IInv

\* Every attachment has its file, whichever requests die between the two.
THEOREM AttachmentHolds == Spec => []AttachmentHasFile
BY Invariance, PTL DEF IInv

-----------------------------------------------------------------------------
\* A commit leaves a task inconsistent only if the row is not the one the
\* request loaded, or was inconsistent and is being deleted.
THEOREM InconsistencyHolds == Spec => InconsistencyNeedsOverlap
<1> DEFINE Overlap(t) == \E r \in Request : /\ req[r].op \in {"update", "delete"}
                                            /\ req[r].task = t /\ req'[r] = Idle
                                            /\ \/ req[r].read # task[t]
                                               \/ req[r].op = "delete" /\ ~Consistent(task[t])
<1>1. IInv /\ [Next]_vars =>
         [\A t \in Task : task'[t] # task[t] /\ ~Consistent(task'[t]) => Overlap(t)]_vars
  <2> SUFFICES ASSUME IInv, Next, NEW t \in Task, task'[t] # task[t],
                      ~Consistent(task'[t])
               PROVE  Overlap(t)
    OBVIOUS
  <2> USE DEF IInv, TypeOK
  <2>1. ASSUME NEW r \in Request, CommitCreate(r) PROVE FALSE
    <3>1. Consistent(req[r].new)
      BY <2>1 DEF CommitCreate, Intentions
    <3> QED
      BY <2>1, <3>1 DEF CommitCreate
  <2>2. ASSUME NEW r \in Request, NEW kind, NEW op \in {"update", "delete"},
               CommitWrite(r, op, kind)
        PROVE  Overlap(t)
    <3>1. /\ req[r].op = op /\ req[r].task = t /\ req'[r] = Idle
          /\ task'[t] = WriteChanges(task[t], req[r].read, req[r].new)
      BY <2>2 DEF CommitWrite, Done
    <3>2. task[t] \in Row /\ req[r].read \in Row /\ req[r].new \in Row
      BY DEF Slot
    <3>3. CASE req[r].read = task[t]
      <4>1. task'[t] = req[r].new
        BY <3>1, <3>2, <3>3, WriteChangesType
      <4>2. op = "delete" /\ req[r].new = [req[r].read EXCEPT !.deleted = TRUE]
        BY <3>1, <4>1 DEF Intentions
      <4>3. ~Consistent(task[t])
        BY <3>2, <3>3, <4>1, <4>2 DEF Consistent, Row
      <4> QED
        BY <3>1, <4>2, <4>3
    <3> QED
      BY <3>1, <3>3
  <2> QED
    BY <2>1, <2>2 DEF Next, CommitUpdate, CommitDelete, BeginCreate, BeginUpdate,
       BeginDelete, BeginComment, CommitComment, BeginUpload, StoreFile, CommitUpload,
       DeleteProject, Join, Abort
<1> QED
  BY <1>1, Invariance, PTL DEF Spec, InconsistencyNeedsOverlap

-----------------------------------------------------------------------------
\* The last step of a request takes it, and no other, from a project's holders.
LEMMA HoldersEnd ==
    ASSUME TypeOK, NEW r \in Request, NEW p \in Project, req' = Done(r)
    PROVE  /\ Holders(p)' \subseteq Holders(p)
           /\ req[r].project = p => Holders(p)' # Holders(p)
BY NoneIsNew DEF TypeOK, Holders, Done, Idle

\* Only those who held a project when it was deleted still touch what is in it,
\* each with its last step.
THEOREM RestHolds == Spec => DeletedComesToRest
<1> DEFINE Same(p) ==
       /\ UNCHANGED TasksOf(p)
       /\ \A t \in TasksOf(p) : UNCHANGED <<task[t], audit[t], CommentsOn(t), FilesOf(t)>>
    Fewer(p) == Holders(p)' \subseteq Holders(p)
    Rests(p) ==
       /\ Holders(p)' \subseteq Holders(p)
       /\ \/ Holders(p)' # Holders(p)
          \/ /\ UNCHANGED TasksOf(p)
             /\ \A t \in TasksOf(p) :
                   UNCHANGED <<task[t], audit[t], CommentsOn(t), FilesOf(t)>>
<1>1. IInv /\ [Next]_vars => [\A p \in closed : Rests(p)]_vars
  <2> SUFFICES ASSUME IInv, Next, NEW p \in closed PROVE Rests(p)
    OBVIOUS
  <2>1. p \in Project /\ p # None
    BY NoneIsNew DEF IInv, TypeOK
  <2> USE <2>1 DEF IInv, TypeOK
  <2>2. ASSUME NEW r \in Request, req' = Done(r), req[r].project # p => Same(p)
        PROVE  Rests(p)
    BY <2>2, HoldersEnd
  <2>3. ASSUME UNCHANGED <<task, home, audit, comment, attachment>> PROVE Same(p)
    BY <2>3 DEF TasksOf, CommentsOn, FilesOf
  <2>4. ASSUME NEW r \in Request, NEW q \in Project, NEW s \in Status,
               NEW a \in User \cup {None}, BeginCreate(r, q, s, a)
        PROVE  Rests(p)
    <3>1. Fewer(p)
      BY <2>4 DEF BeginCreate, Idle, Holders
    <3> QED
      BY <2>3, <2>4, <3>1 DEF BeginCreate, files
  <2>5. ASSUME NEW r \in Request, NEW t \in Task, NEW op, NEW new,
               Found(t), Hold(r, op, t, new),
               UNCHANGED <<task, home, audit, comment, files, closed, member>>
        PROVE  Rests(p)
    <3>1. Fewer(p)
      BY <2>5 DEF Found, Hold, Holders
    <3> QED
      BY <2>3, <2>5, <3>1 DEF files
  <2>6. ASSUME NEW r \in Request, CommitCreate(r) PROVE Rests(p)
    <3>1. PICK t \in Task : /\ home[t] = None
                            /\ home' = [home EXCEPT ![t] = req[r].project]
                            /\ task' = [task EXCEPT ![t] = req[r].new]
                            /\ audit' = Audited(t, "create")
      BY <2>6 DEF CommitCreate
    <3>2. ASSUME req[r].project # p PROVE Same(p)
      <4>1. UNCHANGED TasksOf(p) /\ t \notin TasksOf(p)
        BY <3>1, <3>2 DEF TasksOf
      <4> QED
        BY <2>6, <3>1, <3>2, <4>1 DEF CommitCreate, files, TasksOf, CommentsOn, FilesOf,
           Audited
    <3> QED
      BY <2>2, <2>6, <3>2 DEF CommitCreate
  <2>7. ASSUME NEW r \in Request, NEW op \in {"update", "delete"}, NEW kind,
               CommitWrite(r, op, kind)
        PROVE  Rests(p)
    <3>1. ASSUME req[r].project # p PROVE Same(p)
      <4>1. req[r].task \notin TasksOf(p)
        BY <2>7, <3>1 DEF CommitWrite, TasksOf
      <4> QED
        BY <2>7, <4>1 DEF CommitWrite, TasksOf, CommentsOn, FilesOf, files, Audited
    <3> QED
      BY <2>2, <2>7, <3>1 DEF CommitWrite
  <2>8. ASSUME NEW r \in Request, CommitComment(r) PROVE Rests(p)
    <3>1. PICK c \in Comment : /\ comment[c] = None
                               /\ comment' = [comment EXCEPT ![c] = req[r].task]
      BY <2>8 DEF CommitComment
    <3>2. ASSUME req[r].project # p PROVE Same(p)
      <4>1. req[r].task \notin TasksOf(p)
        BY <2>8, <3>2 DEF CommitComment, TasksOf
      <4>2. \A t \in TasksOf(p) : UNCHANGED CommentsOn(t)
        BY <3>1, <4>1, NoneIsNew DEF CommentsOn, TasksOf
      <4> QED
        BY <2>8, <4>2 DEF CommitComment, TasksOf, FilesOf, files
    <3> QED
      BY <2>2, <2>8, <3>2 DEF CommitComment
  <2>9. ASSUME NEW r \in Request, Abort(r) PROVE Rests(p)
    BY <2>2, <2>3, <2>9 DEF Abort, files
  <2>10. ASSUME NEW r \in Request, StoreFile(r) PROVE Rests(p)
    <3>1. Fewer(p)
      BY <2>10 DEF StoreFile, Slot, Holders
    <3> QED
      BY <2>3, <2>10, <3>1 DEF StoreFile
  <2>11. ASSUME NEW r \in Request, CommitUpload(r) PROVE Rests(p)
    <3>1. ASSUME req[r].project # p PROVE Same(p)
      <4>1. req[r].task \notin TasksOf(p)
        BY <2>11, <3>1 DEF CommitUpload, TasksOf
      <4>2. req[r].file \in File /\ attachment[req[r].file] = None
        BY <2>11, NoneIsNew DEF CommitUpload, AttachmentHasFile
      <4>3. \A t \in TasksOf(p) : UNCHANGED FilesOf(t)
        BY <2>11, <4>1, <4>2, NoneIsNew DEF CommitUpload, FilesOf, TasksOf
      <4> QED
        BY <2>11, <4>3 DEF CommitUpload, TasksOf, CommentsOn
    <3> QED
      BY <2>2, <2>11, <3>1 DEF CommitUpload
  <2>12. ASSUME NEW q \in Project, DeleteProject(q) PROVE Rests(p)
    BY <2>3, <2>12 DEF DeleteProject, files, Holders
  <2>13. ASSUME NEW u \in User, Join(u) PROVE Rests(p)
    BY <2>3, <2>13 DEF Join, files, Holders
  <2> QED
    BY <2>4, <2>5, <2>6, <2>7, <2>8, <2>9, <2>10, <2>11, <2>12, <2>13
    DEF Next, CommitUpdate, CommitDelete, BeginUpdate, BeginDelete, BeginComment,
        BeginUpload
<1> QED
  BY <1>1, Invariance, PTL DEF Spec, DeletedComesToRest

-----------------------------------------------------------------------------
\* An orphan stays one, and comes about only when a request dies.
THEOREM OrphansHold == Spec => OrphansAreOfAborts
<1> DEFINE Rule(f) ==
       /\ Orphan(f) => Orphan(f)'
       /\ Orphan(f)' /\ ~Orphan(f) =>
             \E r \in Request : req[r].file = f /\ Abort(r)
<1>1. IInv /\ [Next]_vars => [\A f \in File : Rule(f)]_vars
  <2> SUFFICES ASSUME IInv, Next, NEW f \in File PROVE Rule(f)
    OBVIOUS
  <2> USE NoneIsNew DEF IInv, TypeOK
  \* Whoever else is begun or committed holds no file before nor after.
  <2>1. ASSUME UNCHANGED files,
               \A q \in Request : req'[q].file = f <=> req[q].file = f
        PROVE  Rule(f)
    BY <2>1 DEF Orphan, files
  <2>2. ASSUME NEW r \in Request, req[r].file = None, req' = Done(r), UNCHANGED files
        PROVE  Rule(f)
    BY <2>1, <2>2 DEF Done, Idle
  <2>3. ASSUME NEW r \in Request, req[r].op = "none", NEW slot, slot.file = None,
               req' = [req EXCEPT ![r] = slot], UNCHANGED files
        PROVE  Rule(f)
    <3>1. req[r].file = None
      BY <2>3 DEF Slot
    <3> QED
      BY <2>1, <2>3, <3>1
  <2>4. ASSUME NEW r \in Request, NEW p \in Project, NEW s \in Status,
               NEW a \in User \cup {None}, BeginCreate(r, p, s, a)
        PROVE  Rule(f)
    BY <2>3, <2>4 DEF BeginCreate, Idle
  <2>5. ASSUME NEW r \in Request, NEW t \in Task, NEW op, NEW new,
               req[r].op = "none", Hold(r, op, t, new), UNCHANGED files
        PROVE  Rule(f)
    BY <2>3, <2>5 DEF Hold
  <2>6. ASSUME NEW r \in Request,
               CommitCreate(r) \/ CommitUpdate(r) \/ CommitDelete(r) \/ CommitComment(r)
        PROVE  Rule(f)
    <3>1. req[r].op # "insert" /\ req' = Done(r) /\ UNCHANGED files
      BY <2>6 DEF CommitCreate, CommitUpdate, CommitDelete, CommitWrite, CommitComment
    <3>2. req[r].file = None
      BY <3>1 DEF Slot
    <3> QED
      BY <2>2, <3>1, <3>2
  <2>7. ASSUME NEW r \in Request, Abort(r) PROVE Rule(f)
    <3>1. CASE req[r].file = f
      BY <2>7, <3>1 DEF Abort, Orphan, files, Done, Idle
    <3>2. CASE req[r].file # f
      BY <2>1, <2>7, <3>2 DEF Abort, Done, Idle
    <3> QED
      BY <3>1, <3>2
  <2>8. ASSUME NEW r \in Request, StoreFile(r) PROVE Rule(f)
    BY <2>8 DEF StoreFile, Orphan, AttachmentHasFile, Slot
  <2>9. ASSUME NEW r \in Request, CommitUpload(r) PROVE Rule(f)
    BY <2>9 DEF CommitUpload, Done, Idle, Orphan, AttachmentHasFile
  <2>10. ASSUME NEW p \in Project, DeleteProject(p) PROVE Rule(f)
    BY <2>1, <2>10 DEF DeleteProject
  <2>11. ASSUME NEW u \in User, Join(u) PROVE Rule(f)
    BY <2>1, <2>11 DEF Join
  <2> QED
    BY <2>4, <2>5, <2>6, <2>7, <2>8, <2>9, <2>10, <2>11
    DEF Next, BeginUpdate, BeginDelete, BeginComment, BeginUpload
<1> QED
  BY <1>1, Invariance, PTL DEF Spec, OrphansAreOfAborts

-----------------------------------------------------------------------------
\* The tasks implement SoftDelete: a deletion stands, and is audited when it
\* happens.
THEOREM SoftDeleteImplemented == Spec => ImplementsSoftDelete
<1>1. Init => SD!Init
  BY DEF Init, SD!Init, life, recorded
<1>2. IInv /\ [Next]_vars => [SD!Next]_SD!vars
  <2> SUFFICES ASSUME IInv, [Next]_vars PROVE SD!Next \/ UNCHANGED <<life, recorded>>
    BY DEF SD!vars
  <2> USE NoneIsNew DEF IInv, TypeOK
  <2>1. ASSUME NEW r \in Request, CommitCreate(r) PROVE SD!Next
    <3>1. PICK t \in Task : /\ home[t] = None
                            /\ home' = [home EXCEPT ![t] = req[r].project]
                            /\ task' = [task EXCEPT ![t] = req[r].new]
                            /\ audit' = Audited(t, "create")
      BY <2>1 DEF CommitCreate
    <3>2. req[r].project \in Project /\ ~req[r].new.deleted
      BY <2>1 DEF CommitCreate, Intentions
    <3>3. life[t] = "absent" /\ life' = [life EXCEPT ![t] = "present"]
      BY <3>1, <3>2 DEF life
    <3>4. UNCHANGED recorded
      BY <3>1 DEF recorded, Audited
    <3>5. SD!Create(t)
      BY <3>3, <3>4 DEF SD!Create
    <3> QED
      BY <3>5 DEF SD!Next
  <2>2. ASSUME NEW r \in Request, CommitUpdate(r) PROVE UNCHANGED <<life, recorded>>
    <3> DEFINE t == req[r].task
    <3>1. t \in Task /\ ~req[r].read.deleted /\ ~req[r].new.deleted
      BY <2>2 DEF CommitUpdate, CommitWrite, Intentions
    <3>2. WriteChanges(task[t], req[r].read, req[r].new).deleted = task[t].deleted
      BY <3>1 DEF WriteChanges, Row, Slot
    <3>3. \A u \in Task : task'[u].deleted = task[u].deleted
      BY <2>2, <3>1, <3>2 DEF CommitUpdate, CommitWrite
    <3>4. UNCHANGED life
      BY <2>2, <3>3 DEF CommitUpdate, CommitWrite, life
    <3>5. UNCHANGED recorded
      BY <2>2, <3>1 DEF CommitUpdate, CommitWrite, Audited, recorded
    <3> QED
      BY <3>4, <3>5
  <2>3. ASSUME NEW r \in Request, CommitDelete(r)
        PROVE  SD!Next \/ UNCHANGED <<life, recorded>>
    <3> DEFINE t == req[r].task
    <3>1. /\ t \in Task /\ home[t] # None /\ ~req[r].read.deleted
          /\ req[r].new = [req[r].read EXCEPT !.deleted = TRUE]
          /\ req[r].read \in Row
      BY <2>3 DEF CommitDelete, CommitWrite, Intentions, Slot
    <3>2. WriteChanges(task[t], req[r].read, req[r].new).deleted = TRUE
      BY <3>1 DEF WriteChanges, Row
    <3>3. /\ UNCHANGED home /\ audit' = Audited(t, "soft_delete")
          /\ task'[t].deleted = TRUE
          /\ \A u \in Task \ {t} : task'[u] = task[u]
      BY <2>3, <3>1, <3>2 DEF CommitDelete, CommitWrite
    <3> HIDE DEF t
    <3>4. life' = [life EXCEPT ![t] = "deleted"]
      BY <3>1, <3>3 DEF life, t
    <3>5. recorded' = recorded \cup {t}
      BY <3>1, <3>3 DEF recorded, Audited, t
    <3>6. CASE task[t].deleted
      <4>1. t \in recorded /\ life[t] = "deleted"
        BY <3>1, <3>6 DEF recorded, life, DeletionsAudited, t
      <4>2. recorded' = recorded
        BY <3>5, <4>1
      <4>3. life' = life
        BY <3>1, <3>4, <4>1 DEF life, t
      <4> QED
        BY <4>2, <4>3
    <3>7. CASE ~task[t].deleted
      <4>1. life[t] = "present" /\ t \in Task
        BY <3>1, <3>7 DEF life, t
      <4> HIDE DEF life, recorded
      <4>2. SD!Delete(t)
        BY <3>4, <3>5, <4>1 DEF SD!Delete
      <4> QED
        BY <4>1, <4>2 DEF SD!Next
    <3> QED
      BY <3>6, <3>7
  <2>4. CASE UNCHANGED <<task, home, audit>>
    BY <2>4 DEF life, recorded
  <2> QED
    BY <2>1, <2>2, <2>3, <2>4 DEF Next, vars, BeginCreate, BeginUpdate, BeginDelete,
       BeginComment, CommitComment, BeginUpload, StoreFile, CommitUpload,
       DeleteProject, Join, Abort
<1> QED
  BY <1>1, <1>2, Invariance, PTL DEF Spec, ImplementsSoftDelete, SD!Spec
=============================================================================
