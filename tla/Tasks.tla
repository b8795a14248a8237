------------------------------- MODULE Tasks -------------------------------
(***************************************************************************)
(* Tasks, their comments and their attachments (app/api/routes/tasks.py,   *)
(* app/services/task_rules.py, app/core/storage.py) under concurrent       *)
(* requests, in a workspace whose projects may be deleted and whose        *)
(* membership may grow meanwhile.                                          *)
(*                                                                         *)
(* As in Projects, a handler reads in one step and commits in another, and *)
(* its UPDATE carries the columns that differ from the row it loaded.      *)
(* Every status but DONE has the same effect on a task; two of them are    *)
(* kept.  Of completed_at only its presence is.                            *)
(***************************************************************************)
EXTENDS Naturals

CONSTANTS Task, Project, Comment, User, Request,
          File, \* the names that files are stored under
          None  \* SQL NULL, an absent field of a body, an empty local

ASSUME NoneIsNew == None \notin Task \cup Project \cup User \cup File

Status == {"backlog", "in_progress", "done"}
Row == [status : Status, completed : BOOLEAN,
        assignee : User \cup {None}, deleted : BOOLEAN]

VARIABLES
    task,     \* the tasks rows
    home,     \* their project_id, or None before the row exists
    audit,    \* the kinds of audit_logs rows that name each task
    comment,  \* the comments rows: the task of each, or None
    stored,   \* the files in upload_dir or in the S3 bucket
    attachment, \* the attachments rows: of each file the task, or None
    closed,   \* the projects that are deleted
    member,   \* the members of the workspace
    req       \* the request slots

files == <<stored, attachment>>
vars == <<task, home, audit, comment, files, closed, member, req>>

Blank == [status |-> "backlog", completed |-> FALSE, assignee |-> None,
          deleted |-> FALSE]

Slot == [op : {"none", "create", "update", "delete", "comment", "upload", "insert"},
         task : Task \cup {None}, project : Project \cup {None},
         read : Row, new : Row, file : File \cup {None}]

Idle == [op |-> "none", task |-> None, project |-> None,
         read |-> Blank, new |-> Blank, file |-> None]

Init == /\ task = [t \in Task |-> Blank]
        /\ home = [t \in Task |-> None]
        /\ audit = [t \in Task |-> {}]
        /\ comment = [c \in Comment |-> None]
        /\ stored = {}
        /\ attachment = [f \in File |-> None]
        /\ closed = {}
        /\ member \in SUBSET User \ {{}}
        /\ req = [r \in Request |-> Idle]

\* _get_task_in_workspace finds the task and its project.
Found(t) == home[t] # None /\ ~task[t].deleted /\ home[t] \notin closed

\* A bug: a task that is reopened keeps its completion time.
KeepCompletion(row) == [row EXCEPT !.completed = @ \/ row.status = "done"]

\* apply_task_status_side_effects
ApplyStatusSideEffects(row) == [row EXCEPT !.completed = (row.status = "done")]

\* A bug: the UPDATE carries every column as it is in memory.
WriteWholeRow(row, read, new) == new

\* The UPDATE a commit sends: the columns of new that differ from read.
WriteChanges(row, read, new) ==
    [status |-> IF new.status # read.status THEN new.status ELSE row.status,
     completed |-> IF new.completed # read.completed THEN new.completed
                   ELSE row.completed,
     assignee |-> IF new.assignee # read.assignee THEN new.assignee
                  ELSE row.assignee,
     deleted |-> IF new.deleted # read.deleted THEN new.deleted ELSE row.deleted]

Audited(t, kind) == [audit EXCEPT ![t] = @ \cup {kind}]
Done(r) == [req EXCEPT ![r] = Idle]

-----------------------------------------------------------------------------
\* create_task up to its commit, with status s and assignee a in the body,
BeginCreate(r, p, s, a) ==
    /\ req[r].op = "none"
    /\ p \notin closed
    /\ a \in member \cup {None}
    /\ req' = [req EXCEPT ![r] =
                  [Idle EXCEPT !.op = "create", !.project = p,
                       !.new = ApplyStatusSideEffects(
                                   [Blank EXCEPT !.status = s, !.assignee = a])]]
    /\ UNCHANGED <<task, home, audit, comment, files, closed, member>>

\* and its commit: a row with a fresh id and its audit entry.
CommitCreate(r) ==
    /\ req[r].op = "create"
    /\ \E t \in Task :
          /\ home[t] = None
          /\ home' = [home EXCEPT ![t] = req[r].project]
          /\ task' = [task EXCEPT ![t] = req[r].new]
          /\ audit' = Audited(t, "create")
    /\ req' = Done(r)
    /\ UNCHANGED <<comment, files, closed, member>>

\* A handler that has found task t and means it to become new.
Hold(r, op, t, new) ==
    req' = [req EXCEPT ![r] = [op |-> op, task |-> t, project |-> home[t],
                               read |-> task[t], new |-> new, file |-> None]]

\* The row after the fields of the body, None when absent, have been set.
Patched(t, s, a) ==
    [task[t] EXCEPT !.status = IF s = None THEN @ ELSE s,
                    !.assignee = IF a = None THEN @ ELSE a]

\* A bug: the assignee is not looked up in the workspace.
BeginUpdateAnyAssignee(r, t, s, a) ==
    /\ req[r].op = "none"
    /\ Found(t)
    /\ Hold(r, "update", t, ApplyStatusSideEffects(Patched(t, s, a)))
    /\ UNCHANGED <<task, home, audit, comment, files, closed, member>>

\* update_task: a new assignee must be a member; the one it has need not be.
BeginUpdate(r, t, s, a) ==
    /\ req[r].op = "none"
    /\ Found(t)
    /\ a \in {None, task[t].assignee} \cup member
    /\ Hold(r, "update", t, ApplyStatusSideEffects(Patched(t, s, a)))
    /\ UNCHANGED <<task, home, audit, comment, files, closed, member>>

BeginDelete(r, t) ==
    /\ req[r].op = "none"
    /\ Found(t)
    /\ Hold(r, "delete", t, [task[t] EXCEPT !.deleted = TRUE])
    /\ UNCHANGED <<task, home, audit, comment, files, closed, member>>

\* The commits of update_task and delete_task.
CommitWrite(r, op, kind) ==
    /\ req[r].op = op
    /\ LET t == req[r].task IN
          /\ task' = [task EXCEPT ![t] = WriteChanges(@, req[r].read, req[r].new)]
          /\ audit' = Audited(t, kind)
    /\ req' = Done(r)
    /\ UNCHANGED <<home, comment, files, closed, member>>

CommitUpdate(r) == CommitWrite(r, "update", "update")
CommitDelete(r) == CommitWrite(r, "delete", "soft_delete")

\* A bug: a comment is begun on a task that is not looked at.
BeginCommentUnchecked(r, t) ==
    /\ req[r].op = "none"
    /\ Hold(r, "comment", t, task[t])
    /\ UNCHANGED <<task, home, audit, comment, files, closed, member>>

\* add_comment; its audit entry names the comment and is in the same commit.
BeginComment(r, t) ==
    /\ req[r].op = "none"
    /\ Found(t)
    /\ Hold(r, "comment", t, task[t])
    /\ UNCHANGED <<task, home, audit, comment, files, closed, member>>

CommitComment(r) ==
    /\ req[r].op = "comment"
    /\ \E c \in Comment : /\ comment[c] = None
                          /\ comment' = [comment EXCEPT ![c] = req[r].task]
    /\ req' = Done(r)
    /\ UNCHANGED <<task, home, audit, files, closed, member>>

\* add_attachment: the checks, and the await for the uploaded file,
BeginUpload(r, t) ==
    /\ req[r].op = "none"
    /\ Found(t)
    /\ Hold(r, "upload", t, task[t])
    /\ UNCHANGED <<task, home, audit, comment, files, closed, member>>

\* A bug: the file is to be written once the row is committed.
NameFile(r) ==
    /\ req[r].op = "upload"
    /\ \E f \in File \ stored :
          req' = [req EXCEPT ![r] = [@ EXCEPT !.op = "insert", !.file = f]]
    /\ UNCHANGED <<task, home, audit, comment, files, closed, member>>

\* A bug: storing is tried again, under another name, after it succeeded.
StoreFileAgain(r) ==
    /\ req[r].op \in {"upload", "insert"}
    /\ \E f \in File \ stored :
          /\ stored' = stored \cup {f}
          /\ req' = [req EXCEPT ![r] = [@ EXCEPT !.op = "insert", !.file = f]]
    /\ UNCHANGED <<task, home, audit, comment, attachment, closed, member>>

\* save_attachment_file, under a fresh name,
StoreFile(r) ==
    /\ req[r].op = "upload"
    /\ \E f \in File \ stored :
          /\ stored' = stored \cup {f}
          /\ req' = [req EXCEPT ![r] = [@ EXCEPT !.op = "insert", !.file = f]]
    /\ UNCHANGED <<task, home, audit, comment, attachment, closed, member>>

\* and the row, whose audit entry names the attachment.
CommitUpload(r) ==
    /\ req[r].op = "insert"
    /\ attachment' = [attachment EXCEPT ![req[r].file] = req[r].task]
    /\ req' = Done(r)
    /\ UNCHANGED <<task, home, audit, comment, stored, closed, member>>

-----------------------------------------------------------------------------
\* The commit of delete_project (Projects), and of invite_member.
DeleteProject(p) == /\ p \notin closed
                    /\ closed' = closed \cup {p}
                    /\ UNCHANGED <<task, home, audit, comment, files, member, req>>

Join(u) == /\ u \notin member
           /\ member' = member \cup {u}
           /\ UNCHANGED <<task, home, audit, comment, files, closed, req>>

\* The process serving a request dies, or its database connection does.
Abort(r) == /\ req[r].op # "none"
            /\ req' = Done(r)
            /\ UNCHANGED <<task, home, audit, comment, files, closed, member>>

Next == \/ \E r \in Request :
              \/ \E s \in Status, a \in User \cup {None}, p \in Project :
                    BeginCreate(r, p, s, a)
              \/ \E t \in Task :
                    \/ \E s \in Status \cup {None}, a \in User \cup {None} :
                          BeginUpdate(r, t, s, a)
                    \/ BeginDelete(r, t) \/ BeginComment(r, t)
                    \/ BeginUpload(r, t)
              \/ CommitCreate(r) \/ CommitUpdate(r) \/ CommitDelete(r)
              \/ CommitComment(r) \/ StoreFile(r) \/ CommitUpload(r) \/ Abort(r)
        \/ \E p \in Project : DeleteProject(p)
        \/ \E u \in User : Join(u)

Spec == Init /\ [][Next]_vars

-----------------------------------------------------------------------------
\* Types; a request past its reads holds a project, and a task of it unless it
\* is about to create one.
TypeOK ==
    /\ task \in [Task -> Row]
    /\ home \in [Task -> Project \cup {None}]
    /\ audit \in [Task -> SUBSET {"create", "update", "soft_delete"}]
    /\ comment \in [Comment -> Task \cup {None}]
    /\ stored \subseteq File
    /\ attachment \in [File -> Task \cup {None}]
    /\ closed \subseteq Project
    /\ member \subseteq User
    /\ req \in [Request -> Slot]
    /\ \A r \in Request :
          /\ req[r].op # "none" => req[r].project \in Project
          /\ req[r].op \notin {"none", "create"} =>
                req[r].task \in Task /\ home[req[r].task] = req[r].project
          /\ req[r].op = "insert" <=> req[r].file \in File

\* The completion time is there when the status is DONE, and only then.
Consistent(row) == row.completed <=> row.status = "done"

\* A commit leaves a task inconsistent only if the row differs from the one the
\* request loaded: an update that nothing overlaps leaves the row consistent,
\* also when it finds it inconsistent; a deletion leaves the two as they are.
InconsistencyNeedsOverlap ==
    [][\A t \in Task : task'[t] # task[t] /\ ~Consistent(task'[t]) =>
          \E r \in Request : /\ req[r].op \in {"update", "delete"}
                             /\ req[r].task = t /\ req'[r] = Idle
                             /\ \/ req[r].read # task[t]
                                \/ req[r].op = "delete" /\ ~Consistent(task[t])]_vars

\* Whoever a task is assigned to is a member of the workspace, though an update
\* checks no one but a new assignee and commits some time after the check.
AssigneeIsMember == \A t \in Task : task[t].assignee \in member \cup {None}

\* A deleted project comes to rest: no request gets hold of it any more, and
\* whatever still changes in it (its set of tasks, a task, a comment, an
\* attachment) is the last step of a request that held it before.
Holders(p) == {r \in Request : req[r].project = p}
TasksOf(p) == {t \in Task : home[t] = p}
CommentsOn(t) == {c \in Comment : comment[c] = t}
FilesOf(t) == {f \in File : attachment[f] = t}
DeletedComesToRest ==
    [][\A p \in closed :
          /\ Holders(p)' \subseteq Holders(p)
          /\ \/ Holders(p)' # Holders(p)
             \/ /\ UNCHANGED TasksOf(p)
                /\ \A t \in TasksOf(p) :
                      UNCHANGED <<task[t], audit[t], CommentsOn(t), FilesOf(t)>>]_vars

\* An attachment, once committed, has its file and keeps its task; the file
\* that a request is about to insert a row for is stored, and its alone.
AttachmentHasFile ==
    /\ \A f \in File : attachment[f] # None => f \in stored
    /\ \A r \in Request : req[r].file # None =>
          /\ req[r].file \in stored
          /\ attachment[req[r].file] = None
          /\ \A q \in Request \ {r} : req[q].file # req[r].file

\* A file with no row belongs to a request still under way; a file is orphaned,
\* for good, only by a request that dies after it stored it.
Orphan(f) == /\ f \in stored /\ attachment[f] = None
             /\ \A r \in Request : req[r].file # f
OrphansAreOfAborts ==
    [][\A f \in File :
          /\ Orphan(f) => Orphan(f)'
          /\ Orphan(f)' /\ ~Orphan(f) =>
                \E r \in Request : req[r].file = f /\ Abort(r)]_vars

\* A deletion stands whatever commits after it, and is audited in the same
\* commit: the tasks implement SoftDelete.
life == [t \in Task |-> IF home[t] = None THEN "absent"
                        ELSE IF task[t].deleted THEN "deleted" ELSE "present"]
recorded == {t \in Task : "soft_delete" \in audit[t]}
SD == INSTANCE SoftDelete WITH Item <- Task
ImplementsSoftDelete == SD!Spec

-----------------------------------------------------------------------------
\* models/task.py:51, "completion tracking for progress reporting": the tasks
\* with a completion time are those that are done.
CompletionMatchesStatus == \A t \in Task : Consistent(task[t])
=============================================================================
