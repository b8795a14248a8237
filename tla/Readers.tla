------------------------------ MODULE Readers ------------------------------
(***************************************************************************)
(* The two components that read the tasks to tell of the overdue ones: the *)
(* cached report and the daily reminder, over tasks that are changed by    *)
(* requests and by the passing of time.                                    *)
(***************************************************************************)
EXTENDS Naturals, FiniteSets

CONSTANTS Task, Workspace, Request, Home, None

ASSUME TasksAssumption == IsFiniteSet(Task)
ASSUME HomeAssumption == Home \in [Task -> Workspace]
ASSUME NoneIsNew == None \notin Nat \cup Workspace

VARIABLES
    overdue,   \* the tasks that are open, not deleted, and past their due date
    assigned,  \* the tasks that have an assignee
    cache, req,           \* of Reports
    job, notified, mailed \* of Reminders

reports == <<cache, req>>
reminders == <<job, notified, mailed>>
vars == <<overdue, assigned, reports, reminders>>

Rep == INSTANCE Reports
Rem == INSTANCE Reminders

Init == /\ overdue \in SUBSET Task
        /\ assigned \in SUBSET Task
        /\ Rep!Init
        /\ Rem!Init

\* The due date passes, or a task is reopened or its due date brought forward.
BecomesOverdue(t) == /\ t \notin overdue
                     /\ overdue' = overdue \cup {t}
                     /\ UNCHANGED <<assigned, reports, reminders>>

\* The task is done, cancelled, deleted, or its due date put off.
IsSettled(t) == /\ t \in overdue
                /\ overdue' = overdue \ {t}
                /\ Rem!Forget(t)
                /\ UNCHANGED <<assigned, reports, job>>

\* A task can be assigned, or to somebody else, but not to nobody again.
IsAssigned(t) == /\ t \notin assigned
                 /\ assigned' = assigned \cup {t}
                 /\ UNCHANGED <<overdue, reports, reminders>>

Change == \E t \in Task : BecomesOverdue(t) \/ IsSettled(t) \/ IsAssigned(t)

OfReports == UNCHANGED <<overdue, assigned, reminders>>
OfReminders == UNCHANGED <<overdue, assigned, reports>>

Next == \/ Change
        \/ Rep!Next /\ OfReports
        \/ Rem!Next /\ OfReminders

Spec == Init /\ [][Next]_vars

\* A key without refresh expires, and a request ends.  A run of the job may die,
\* but not for ever one day after the other.
Expires(w) == WF_vars(Rep!Expire(w) /\ OfReports)
Ends(r) == WF_vars((Rep!Count(r) \/ Rep!Store(r) \/ Rep!Fail(r)) /\ OfReports)
Fairness == /\ \A w \in Workspace : Expires(w)
            /\ \A r \in Request : Ends(r)
            /\ []<><<Rem!Commit /\ OfReminders>>_vars

FairSpec == Spec /\ Fairness

-----------------------------------------------------------------------------
\* The types of both components.
TypeOK == /\ overdue \subseteq Task
          /\ assigned \subseteq Task
          /\ Rep!TypeOK
          /\ Rem!TypeOK

\* However late a report is stored that was counted before a change, once the
\* tasks rest the cache comes to agree with them: nothing that is out of date
\* stays there.
CacheConverges ==
    <>[][~Change]_vars =>
        <>[](\A w \in Workspace : cache[w] \in {None, Rep!Report(w)})

\* Whoever has a task that stays overdue is notified of it, whatever becomes of
\* the e-mails, and of the other tasks that the same run has to tell of.
OverdueIsNotified ==
    \A t \in Task : t \in overdue \cap assigned ~> t \in notified \/ t \notin overdue

\* An e-mail is queued before its notification is committed: the one is left
\* without the other only when the run dies.
Unbacked(t) == t \in mailed /\ t \notin notified /\ job[t] # "added"
MailIsBacked ==
    [][\A t \in Task : Unbacked(t)' => Unbacked(t) \/ Rem!Die]_vars
=============================================================================
