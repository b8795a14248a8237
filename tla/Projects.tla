------------------------------ MODULE Projects ------------------------------
(***************************************************************************)
(* The life of a project (app/api/routes/projects.py and                   *)
(* app/services/project_rules.py) under concurrent requests.               *)
(*                                                                         *)
(* A handler loads the row and checks it in one read, and writes in one    *)
(* commit; READ COMMITTED lets others commit in between.  The UPDATE of    *)
(* the commit finds the row by its id and carries the columns the handler  *)
(* changed, no others.  Callers here have a role that may manage projects; *)
(* a request that is refused changes nothing.                              *)
(***************************************************************************)
EXTENDS Naturals

CONSTANTS Project, Request,
          None      \* nothing loaded, nothing to write, not yet created

Status == {"active", "on_hold", "completed", "archived"}
Terminal == {"completed", "archived"}

ASSUME NoneIsNew == None \notin Project \cup Status

VARIABLES status,   \* projects.status, or None before the row exists
          deleted,  \* the projects whose deleted_at is set
          audit,    \* the kinds of audit_logs rows that name each project
          req       \* the request slots

vars == <<status, deleted, audit, req>>

Slot == [op : {"none", "update", "delete"}, project : Project \cup {None},
         read : Status \cup {None}, write : Status \cup {None}]

Idle == [op |-> "none", project |-> None, read |-> None, write |-> None]

Init == /\ status = [p \in Project |-> None]
        /\ deleted = {}
        /\ audit = [p \in Project |-> {}]
        /\ req = [r \in Request |-> Idle]

Present(p) == status[p] # None /\ p \notin deleted

\* The table of validate_project_status_transition.
Allowed == [active |-> {"on_hold", "completed", "archived"},
            on_hold |-> {"active", "archived"},
            completed |-> {},
            archived |-> {"active"}]

\* A bug: the table alone decides.
ValidByTable(before, after) == after \in Allowed[before]

\* A change of status: the terminal statuses are refused ahead of the table,
\* whose last entry is never reached.
ValidTransition(before, after) ==
    before \notin Terminal /\ after \in Allowed[before]

Audited(p, kind) == [audit EXCEPT ![p] = @ \cup {kind}]
Done(r) == [req EXCEPT ![r] = Idle]

-----------------------------------------------------------------------------
\* create_project: row and audit entry in one commit.
Create(p) ==
    /\ status[p] = None
    /\ status' = [status EXCEPT ![p] = "active"]
    /\ audit' = Audited(p, "create")
    /\ UNCHANGED <<deleted, req>>

\* A bug: deleted_at is not looked at.
BeginUpdateDeleted(r, p, s) ==
    /\ req[r].op = "none"
    /\ status[p] # None
    /\ s \notin {None, status[p]} => ValidTransition(status[p], s)
    /\ req' = [req EXCEPT ![r] =
                  [op |-> "update", project |-> p, read |-> status[p],
                   write |-> IF s = status[p] THEN None ELSE s]]
    /\ UNCHANGED <<status, deleted, audit>>

\* update_project up to its commit; s is the status in the body, if any, and
\* writes nothing when it equals the status that was loaded.
BeginUpdate(r, p, s) ==
    /\ req[r].op = "none"
    /\ Present(p)
    /\ s \notin {None, status[p]} => ValidTransition(status[p], s)
    /\ req' = [req EXCEPT ![r] =
                  [op |-> "update", project |-> p, read |-> status[p],
                   write |-> IF s = status[p] THEN None ELSE s]]
    /\ UNCHANGED <<status, deleted, audit>>

\* A bug: the UPDATE carries every column of the row as it was loaded.
CommitUpdateWholeRow(r) ==
    /\ req[r].op = "update"
    /\ LET p == req[r].project IN
          /\ status' = [status EXCEPT ![p] = IF req[r].write = None THEN req[r].read
                                             ELSE req[r].write]
          /\ deleted' = deleted \ {p}
          /\ audit' = Audited(p, "update")
    /\ req' = Done(r)

CommitUpdate(r) ==
    /\ req[r].op = "update"
    /\ LET p == req[r].project IN
          /\ status' = [status EXCEPT ![p] = IF req[r].write = None THEN @
                                             ELSE req[r].write]
          /\ audit' = Audited(p, "update")
    /\ req' = Done(r)
    /\ UNCHANGED deleted

\* A bug: the id in the path is taken at its word.
BeginDeleteUnloaded(r, p) ==
    /\ req[r].op = "none"
    /\ req' = [req EXCEPT ![r] = [Idle EXCEPT !.op = "delete", !.project = p,
                                              !.read = status[p]]]
    /\ UNCHANGED <<status, deleted, audit>>

\* delete_project up to its commit, and the commit.
BeginDelete(r, p) ==
    /\ req[r].op = "none"
    /\ Present(p)
    /\ req' = [req EXCEPT ![r] = [Idle EXCEPT !.op = "delete", !.project = p,
                                              !.read = status[p]]]
    /\ UNCHANGED <<status, deleted, audit>>

CommitDelete(r) ==
    /\ req[r].op = "delete"
    /\ deleted' = deleted \cup {req[r].project}
    /\ audit' = Audited(req[r].project, "soft_delete")
    /\ req' = Done(r)
    /\ UNCHANGED status

\* The process serving a request dies, or its database connection does.
Abort(r) == /\ req[r].op # "none"
            /\ req' = Done(r)
            /\ UNCHANGED <<status, deleted, audit>>

Next == \/ \E p \in Project : Create(p)
        \/ \E r \in Request :
              \/ \E p \in Project :
                    BeginDelete(r, p)
                    \/ \E s \in Status \cup {None} : BeginUpdate(r, p, s)
              \/ CommitUpdate(r) \/ CommitDelete(r) \/ Abort(r)

Spec == Init /\ [][Next]_vars

-----------------------------------------------------------------------------
\* Types; a request under way holds a project that exists and the status it
\* loaded.
TypeOK ==
    /\ status \in [Project -> Status \cup {None}]
    /\ deleted \subseteq Project
    /\ audit \in [Project -> SUBSET {"create", "update", "soft_delete"}]
    /\ req \in [Request -> Slot]
    /\ \A p \in deleted : status[p] # None
    /\ \A r \in Request : req[r].op # "none" =>
          /\ req[r].project \in Project /\ req[r].read \in Status
          /\ status[req[r].project] # None

\* Where validation of a status a request loaded earlier leaves the rule: a
\* project leaves "completed" or "archived" only by the commit of a request
\* that loaded the row before that status was committed, and that takes it
\* where the rule allows from the status that was loaded.
TerminalLeftOnlyByStaleWrite ==
    [][\A p \in Project : status[p] \in Terminal /\ status'[p] # status[p] =>
          \E r \in Request : /\ req[r].project = p /\ req'[r] = Idle
                             /\ req[r].read \notin Terminal
                             /\ req[r].write = status'[p]
                             /\ ValidTransition(req[r].read, status'[p])]_vars

\* From its deletion on no request gets hold of a project any more, and whatever
\* still happens to it, audit log included, is the last act of one that holds it
\* from before: every overlapping update or deletion touches it once at most.
Holders(p) == {r \in Request : req[r].project = p}
DeletedComesToRest ==
    [][\A p \in deleted :
          /\ p \in deleted'
          /\ Holders(p)' \subseteq Holders(p)
          /\ UNCHANGED <<status[p], audit[p]>> \/ Holders(p)' # Holders(p)]_vars

\* A deletion stands whatever commits after it, and is audited in the same
\* commit: the projects implement SoftDelete.
life == [p \in Project |-> IF status[p] = None THEN "absent"
                           ELSE IF p \in deleted THEN "deleted" ELSE "present"]
recorded == {p \in Project : "soft_delete" \in audit[p]}
SD == INSTANCE SoftDelete WITH Item <- Project
ImplementsSoftDelete == SD!Spec

-----------------------------------------------------------------------------
\* services/project_rules.py:10, "Completed and archived are terminal".
TerminalIsFinal ==
    [][\A p \in Project : status[p] \in Terminal => status'[p] = status[p]]_vars
=============================================================================
