----------------------------- MODULE Reminders -----------------------------
(***************************************************************************)
(* overdue_reminder_task (app/workers/tasks.py): one SELECT of the overdue *)
(* tasks; for each that is assigned, a notification added to the session   *)
(* and an e-mail queued at once; one commit for all the notifications.     *)
(*                                                                         *)
(* Of a task, that there is a notification or an e-mail counts as long as  *)
(* the task stays overdue: Forget goes with the step that ends that.       *)
(***************************************************************************)
CONSTANTS Task

VARIABLES
    overdue,  \* the tasks that are open, not deleted, and past their due date
    assigned, \* those that have an assignee
    job,      \* the run of the job: of each task it has loaded, what is to do
    notified, \* the tasks with a committed notification
    mailed    \* the tasks with an e-mail on the queue, or sent

\* What a run has to do about a task: nothing, or nothing any more, look at its
\* row as it was loaded, or insert the notification it has added.
Step == {"none", "unassigned", "assigned", "added"}
Down == [t \in Task |-> "down"]

Init == /\ job = Down
        /\ notified = {}
        /\ mailed = {}

\* Beat sends the job each morning, and the rows are all loaded at once.
Start == /\ job = Down
         /\ job' = [t \in Task |-> IF t \notin overdue THEN "none"
                                   ELSE IF t \in assigned THEN "assigned"
                                   ELSE "unassigned"]
         /\ UNCHANGED <<notified, mailed>>

\* A bug: the loop ends at a row without assignee.
BreakAtUnassigned(t) ==
    /\ job[t] = "unassigned"
    /\ job' = [u \in Task |-> IF job[u] = "added" THEN "added" ELSE "none"]
    /\ UNCHANGED <<notified, mailed>>

\* A row without an assignee is passed over.
Skip(t) == /\ job[t] = "unassigned"
           /\ job' = [job EXCEPT ![t] = "none"]
           /\ UNCHANGED <<notified, mailed>>

\* A bug: an e-mail that cannot be queued rolls the session back.
RemindOrRollBack(t) ==
    /\ job[t] = "assigned"
    /\ \/ job' = [job EXCEPT ![t] = "added"] /\ mailed' = mailed \cup {t}
       \/ /\ job' = [u \in Task |-> IF u = t \/ job[u] = "added" THEN "none" ELSE job[u]]
          /\ UNCHANGED mailed
    /\ UNCHANGED notified

\* The notification is added; the e-mail is queued, or the broker refuses it and
\* the loop goes on.
Remind(t) == /\ job[t] = "assigned"
             /\ job' = [job EXCEPT ![t] = "added"]
             /\ mailed' \in {mailed, mailed \cup {t}}
             /\ UNCHANGED notified

\* The commit after the loop.
Commit == /\ \A t \in Task : job[t] \in {"none", "added"}
          /\ job' = Down
          /\ notified' = notified \cup {t \in Task : job[t] = "added"}
          /\ UNCHANGED mailed

\* The worker dies, or the database refuses: the session goes, the queue stays.
Die == /\ job # Down
       /\ job' = Down
       /\ UNCHANGED <<notified, mailed>>

Next == \/ Start \/ Commit \/ Die
        \/ \E t \in Task : Skip(t) \/ Remind(t)

\* What there was about a task that is no longer overdue.
Forget(t) == /\ notified' = notified \ {t}
             /\ mailed' = mailed \ {t}

TypeOK == /\ job \in [Task -> Step] \cup {Down}
          /\ notified \subseteq Task
          /\ mailed \subseteq Task
=============================================================================
