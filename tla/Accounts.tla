------------------------------ MODULE Accounts ------------------------------
(***************************************************************************)
(* Registration, e-mail verification, workspaces and their members         *)
(* (register_user and verify_email_token in app/services/auth.py, and      *)
(* app/api/routes/workspaces.py) under concurrent requests.                *)
(*                                                                         *)
(* Registration flushes the user and the workspace before it commits.  A   *)
(* flushed INSERT is invisible to others and keeps its unique key: another *)
(* transaction that inserts the same e-mail or slug waits, and fails with  *)
(* an IntegrityError once the first has committed.  A request that fails   *)
(* is rolled back, whatever it has written to Redis stays.                 *)
(***************************************************************************)
EXTENDS Naturals

CONSTANTS User,     \* the ids registrations draw
          Email, Request,
          MaxSlug,  \* bound on the slugs: base is 1, base-1 is 2, and so on
          None

Slug == 1..MaxSlug
Role == {"member", "manager", "admin"}

ASSUME NoneIsNew == None \notin User \cup Email \cup Role \cup Nat
ASSUME SlugAssumption == MaxSlug \in Nat

VARIABLES
    email,     \* users: the e-mail of each committed row, or None
    drawn,     \* the ids drawn so far
    taken,     \* workspaces: the committed slugs
    role,      \* workspace_members: the role of a user in a workspace, or None
    verified,  \* the users whose is_email_verified is set
    emverify,  \* the users with a live Redis key emverify:<token>
    req        \* the request slots

vars == <<email, drawn, taken, role, verified, emverify, req>>
tables == <<email, taken, role, verified>>

Slot == [pc : {"idle", "register", "user", "named", "workspace", "keyed",
               "create", "created", "invite", "verify", "unkeyed"},
         user : User \cup {None}, email : Email \cup {None},
         slug : Slug \cup {None}, target : User \cup {None}, role : Role \cup {None}]

Idle == [pc |-> "idle", user |-> None, email |-> None, slug |-> None,
         target |-> None, role |-> None]

Init == /\ email = [u \in User |-> None]
        /\ drawn = {}
        /\ taken = {}
        /\ role = [s \in Slug |-> [u \in User |-> None]]
        /\ verified = {}
        /\ emverify = {}
        /\ req = [r \in Request |-> Idle]

Registered(u) == email[u] # None
InUse(e) == \E u \in User : email[u] = e

\* role_at_least
AtLeast(actual, minimum) ==
    \/ minimum = "member"
    \/ minimum = "manager" /\ actual \in {"manager", "admin"}
    \/ actual = "admin"

\* A bug: the check that the e-mail is unused keeps a shared lock on it.
HoldsEmailShared(r) == req[r].pc \in {"register", "user", "named", "workspace", "keyed"}

\* The unique keys a transaction has inserted and not committed.
HoldsEmail(r) == req[r].pc \in {"user", "named", "workspace", "keyed"}
HoldsSlug(r) == req[r].pc \in {"workspace", "keyed", "created"}

\* The requests whose uncommitted INSERT the next INSERT of r has to wait for.
Blockers(r) ==
    {q \in Request :
        \/ req[r].pc = "register" /\ HoldsEmail(q) /\ req[q].email = req[r].email
        \/ req[r].pc \in {"named", "create"} /\ HoldsSlug(q) /\ req[q].slug = req[r].slug}

Goto(r, pc) == [req EXCEPT ![r].pc = pc]
Done(r) == [req EXCEPT ![r] = Idle]

-----------------------------------------------------------------------------
\* register_user: the e-mail is not in use; the row gets a fresh id.
BeginRegister(r, u, e) ==
    /\ req[r].pc = "idle"
    /\ ~InUse(e) /\ u \notin drawn
    /\ drawn' = drawn \cup {u}
    /\ req' = [req EXCEPT ![r] = [Idle EXCEPT !.pc = "register", !.user = u,
                                              !.email = e]]
    /\ UNCHANGED <<tables, emverify>>

\* Bugs: there is no unique index; the flush is a commit.
InsertUserAnyway(r) ==
    /\ req[r].pc = "register"
    /\ req' = Goto(r, "user")
    /\ UNCHANGED <<tables, drawn, emverify>>

InsertUserEarly(r) ==
    /\ req[r].pc = "register" /\ Blockers(r) = {}
    /\ email' = IF InUse(req[r].email) THEN email
                ELSE [email EXCEPT ![req[r].user] = req[r].email]
    /\ req' = IF InUse(req[r].email) THEN Done(r) ELSE Goto(r, "user")
    /\ UNCHANGED <<taken, role, verified, drawn, emverify>>

\* INSERT INTO users: waits, fails, or holds the e-mail.
InsertUser(r) ==
    /\ req[r].pc = "register" /\ Blockers(r) = {}
    /\ req' = IF InUse(req[r].email) THEN Done(r) ELSE Goto(r, "user")
    /\ UNCHANGED <<tables, drawn, emverify>>

\* A bug: the candidate that was found free is not kept.
PickSlugLost(r) ==
    /\ req[r].pc = "user"
    /\ req' = Goto(r, "named")
    /\ UNCHANGED <<tables, drawn, emverify>>

\* _unique_workspace_slug: the first candidate no committed row has.  Slugs are
\* never given back, so the earlier ones are still taken when it is reached.
PickSlug(r) ==
    /\ req[r].pc = "user"
    /\ \E s \in Slug \ taken :
          /\ \A n \in Slug : n < s => n \in taken
          /\ req' = [req EXCEPT ![r].pc = "named", ![r].slug = s]
    /\ UNCHANGED <<tables, drawn, emverify>>

\* INSERT INTO workspaces, the same way as for the user.
InsertWorkspace(r) ==
    /\ req[r].pc = "named" /\ Blockers(r) = {}
    /\ req' = IF req[r].slug \in taken THEN Done(r) ELSE Goto(r, "workspace")
    /\ UNCHANGED <<tables, drawn, emverify>>

\* set_email_verification_token, ahead of the commit.
SetKey(r) ==
    /\ req[r].pc = "workspace"
    /\ emverify' = emverify \cup {req[r].user}
    /\ req' = Goto(r, "keyed")
    /\ UNCHANGED <<tables, drawn>>

\* The commit: user, workspace and administrator become visible at once.
CommitRegister(r) ==
    /\ req[r].pc = "keyed"
    /\ email' = [email EXCEPT ![req[r].user] = req[r].email]
    /\ taken' = taken \cup {req[r].slug}
    /\ role' = [role EXCEPT ![req[r].slug][req[r].user] = "admin"]
    /\ req' = Done(r)
    /\ UNCHANGED <<drawn, verified, emverify>>

-----------------------------------------------------------------------------
\* verify_email_token: the key leads to a committed user,
BeginVerify(r, u) ==
    /\ req[r].pc = "idle"
    /\ u \in emverify /\ Registered(u)
    /\ req' = [req EXCEPT ![r] = [Idle EXCEPT !.pc = "verify", !.user = u]]
    /\ UNCHANGED <<tables, drawn, emverify>>

\* A bug: the key is left to expire.
DeleteKeyLater(r) ==
    /\ req[r].pc = "verify"
    /\ req' = Goto(r, "unkeyed")
    /\ UNCHANGED <<tables, drawn, emverify>>

\* the key is deleted,
DeleteKey(r) ==
    /\ req[r].pc = "verify"
    /\ emverify' = emverify \ {req[r].user}
    /\ req' = Goto(r, "unkeyed")
    /\ UNCHANGED <<tables, drawn>>

\* and the flag is committed.
CommitVerify(r) ==
    /\ req[r].pc = "unkeyed"
    /\ verified' = verified \cup {req[r].user}
    /\ req' = Done(r)
    /\ UNCHANGED <<email, taken, role, drawn, emverify>>

\* Redis drops a key when its day is over.
KeyExpires(u) == /\ u \in emverify
                 /\ emverify' = emverify \ {u}
                 /\ UNCHANGED <<tables, drawn, req>>

-----------------------------------------------------------------------------
\* create_workspace: the slug in the body is free,
BeginCreate(r, u, s) ==
    /\ req[r].pc = "idle"
    /\ Registered(u) /\ s \notin taken
    /\ req' = [req EXCEPT ![r] = [Idle EXCEPT !.pc = "create", !.user = u,
                                              !.slug = s]]
    /\ UNCHANGED <<tables, drawn, emverify>>

\* the row is inserted,
InsertCreated(r) ==
    /\ req[r].pc = "create" /\ Blockers(r) = {}
    /\ req' = IF req[r].slug \in taken THEN Done(r) ELSE Goto(r, "created")
    /\ UNCHANGED <<tables, drawn, emverify>>

\* and committed with its creator as administrator.
CommitCreate(r) ==
    /\ req[r].pc = "created"
    /\ taken' = taken \cup {req[r].slug}
    /\ role' = [role EXCEPT ![req[r].slug][req[r].user] = "admin"]
    /\ req' = Done(r)
    /\ UNCHANGED <<email, verified, drawn, emverify>>

\* A bug: whoever is a member can invite.
BeginInviteByMember(r, s, u, v, granted) ==
    /\ req[r].pc = "idle"
    /\ s \in taken /\ role[s][u] # None
    /\ ~(role[s][u] = "manager" /\ granted = "admin")
    /\ Registered(v) /\ role[s][v] = None
    /\ req' = [req EXCEPT ![r] = [Idle EXCEPT !.pc = "invite", !.user = u, !.slug = s,
                                              !.target = v, !.role = granted]]
    /\ UNCHANGED <<tables, drawn, emverify>>

\* A bug: managers can invite administrators.
BeginInviteAnyRole(r, s, u, v, granted) ==
    /\ req[r].pc = "idle"
    /\ s \in taken /\ role[s][u] # None
    /\ AtLeast(role[s][u], "manager")
    /\ Registered(v) /\ role[s][v] = None
    /\ req' = [req EXCEPT ![r] = [Idle EXCEPT !.pc = "invite", !.user = u, !.slug = s,
                                              !.target = v, !.role = granted]]
    /\ UNCHANGED <<tables, drawn, emverify>>

\* invite_member: a manager or administrator u invites a registered user v who
\* is no member yet; managers cannot invite administrators.
BeginInvite(r, s, u, v, granted) ==
    /\ req[r].pc = "idle"
    /\ s \in taken /\ role[s][u] # None
    /\ AtLeast(role[s][u], "manager")
    /\ ~(role[s][u] = "manager" /\ granted = "admin")
    /\ Registered(v) /\ role[s][v] = None
    /\ req' = [req EXCEPT ![r] = [Idle EXCEPT !.pc = "invite", !.user = u, !.slug = s,
                                              !.target = v, !.role = granted]]
    /\ UNCHANGED <<tables, drawn, emverify>>

\* A bug: an existing membership takes the role of the invitation.
CommitInviteUpsert(r) ==
    /\ req[r].pc = "invite"
    /\ role' = [role EXCEPT ![req[r].slug][req[r].target] = req[r].role]
    /\ req' = Done(r)
    /\ UNCHANGED <<email, taken, verified, drawn, emverify>>

\* The INSERT and its commit; uq_workspace_user refuses a second membership.
CommitInvite(r) ==
    /\ req[r].pc = "invite"
    /\ LET s == req[r].slug
           v == req[r].target
       IN  role' = IF role[s][v] # None THEN role
                   ELSE [role EXCEPT ![s][v] = req[r].role]
    /\ req' = Done(r)
    /\ UNCHANGED <<email, taken, verified, drawn, emverify>>

\* The process serving a request dies, or the database or Redis fails it.
Abort(r) == /\ req[r].pc # "idle"
            /\ req' = Done(r)
            /\ UNCHANGED <<tables, drawn, emverify>>

Next == \/ \E r \in Request :
              \/ \E u \in User :
                    \/ \E e \in Email : BeginRegister(r, u, e)
                    \/ \E s \in Slug : BeginCreate(r, u, s)
                    \/ BeginVerify(r, u)
              \/ \E s \in Slug, u, v \in User, g \in Role : BeginInvite(r, s, u, v, g)
              \/ InsertUser(r) \/ PickSlug(r) \/ InsertWorkspace(r) \/ SetKey(r)
              \/ CommitRegister(r) \/ DeleteKey(r) \/ CommitVerify(r)
              \/ InsertCreated(r) \/ CommitCreate(r) \/ CommitInvite(r) \/ Abort(r)
        \/ \E u \in User : KeyExpires(u)

Spec == Init /\ [][Next]_vars

-----------------------------------------------------------------------------
\* Types; a request past its first step holds what its next steps will use.
TypeOK ==
    /\ email \in [User -> Email \cup {None}]
    /\ drawn \subseteq User
    /\ taken \subseteq Slug
    /\ role \in [Slug -> [User -> Role \cup {None}]]
    /\ verified \subseteq User
    /\ emverify \subseteq User
    /\ req \in [Request -> Slot]
    /\ \A r \in Request :
          /\ req[r].pc # "idle" => req[r].user \in User
          /\ req[r].pc = "register" \/ HoldsEmail(r) => req[r].email \in Email
          /\ req[r].pc \in {"named", "create", "invite"} \/ HoldsSlug(r) =>
                req[r].slug \in Slug
          /\ req[r].pc = "invite" => req[r].target \in User /\ req[r].role \in Role

\* No two accounts share an e-mail, though both registrations may have found it
\* unused before either was committed.
EmailsUnique == \A u, v \in User : Registered(u) /\ email[u] = email[v] => u = v

\* A user that exists administers some workspace, and a workspace that exists
\* has an administrator: no crash, lost race for the slug or failed key leaves
\* an account or a workspace behind that nobody can manage.
NobodyStranded ==
    /\ \A u \in User : Registered(u) => \E s \in taken : role[s][u] = "admin"
    /\ \A s \in taken : \E u \in User : Registered(u) /\ role[s][u] = "admin"

\* What the commit of r makes of a user who is no member of s: with s itself its
\* creator becomes administrator; later an administrator, who may grant any role,
\* or a manager, who may not make administrators, grants the role.
Founds(r, s, u) == /\ HoldsSlug(r) /\ s \notin taken /\ req[r].user = u
                   /\ role'[s][u] = "admin"
Grants(r, s, u) == /\ req[r].pc = "invite" /\ s \in taken /\ req[r].target = u
                   /\ \/ role[s][req[r].user] = "admin"
                      \/ role[s][req[r].user] = "manager" /\ role'[s][u] # "admin"

\* A membership comes about only by the commit of the request that founds its
\* workspace, or by that of an invitation whose own sender has, when it commits,
\* a role that covers the one granted, be it itself granted by invitation; and it
\* is never replaced, also when two invitations of one user overlap.
GrantsAreBounded ==
    [][\A s \in Slug, u \in User : role'[s][u] # role[s][u] =>
          /\ role[s][u] = None
          /\ \E r \in Request : /\ req[r].slug = s /\ req'[r] = Idle
                                /\ Founds(r, s, u) \/ Grants(r, s, u)]_vars

\* A verification key works for no one once its user is verified, and only
\* committed users are: a key set by a registration that failed is worthless.
KeysSpent == \A u \in verified : Registered(u) /\ u \notin emverify

\* Whoever waits for a unique key waits for a request that waits for no one
\* waiting in turn: every registration takes its e-mail before its slug.
NoWaitCycle ==
    \A p, q, r \in Request : ~(q \in Blockers(p) /\ r \in Blockers(q) /\ Blockers(r) # {})
=============================================================================
