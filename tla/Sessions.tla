------------------------------ MODULE Sessions ------------------------------
(***************************************************************************)
(* Refresh-token sessions (app/services/auth.py): login, refresh, logout,  *)
(* password reset and the weekly clean-up, run by concurrent requests.     *)
(*                                                                         *)
(* A request slot holds what a handler has read and not yet acted upon.    *)
(* Each action is the work between two points at which another transaction *)
(* can be seen: a SELECT, a Redis command, or a COMMIT.  Sessions do not   *)
(* autoflush, so every UPDATE a handler makes is sent by its commit.       *)
(* Requests answered with an error before they write change nothing and    *)
(* are not steps.                                                          *)
(***************************************************************************)
EXTENDS Naturals

CONSTANTS User, Jti, ResetKey,
          Request,  \* request slots: the requests that may be in flight
          None      \* SQL NULL, a missing Redis key, an empty local

ASSUME NoneIsNew == None \notin User \cup Jti \cup ResetKey

VARIABLES
    password,   \* version of users.hashed_password
    state,      \* the refresh_tokens row: unissued, live, revoked, purged
    owner,      \* its user_id
    expired,    \* the rows whose expires_at has passed
    pwreset,    \* Redis pwreset:<key>, the user it was made for
    minted,     \* the reset keys drawn so far
    req,        \* the request slots
    parent,     \* history: the row a refresh exchanged for this one
    cred,       \* history: password version in force when it was authorised
    swept       \* history: the rows a completed password reset has selected

rows == <<state, owner, expired>>
redis == <<pwreset, minted>>
history == <<parent, cred, swept>>
vars == <<password, rows, redis, req, history>>

Exists(j) == state[j] \in {"live", "revoked"}

Slot == [pc : {"idle", "issue", "rotate", "logout", "got", "deleted", "commit"},
         user : User \cup {None}, jti : Jti \cup {None},
         key : ResetKey \cup {None}, cred : Nat, seen : SUBSET Jti]

Idle == [pc |-> "idle", user |-> None, jti |-> None, key |-> None,
         cred |-> 0, seen |-> {}]

Init == /\ password = [u \in User |-> 0]
        /\ state = [j \in Jti |-> "unissued"]
        /\ owner = [j \in Jti |-> None]
        /\ expired = {}
        /\ pwreset = [k \in ResetKey |-> None]
        /\ minted = {}
        /\ req = [r \in Request |-> Idle]
        /\ parent = [j \in Jti |-> None]
        /\ cred = [j \in Jti |-> 0]
        /\ swept = {}

RevokedUnexpired(S) == \* a bug: rows past their expiry are passed over
    [j \in Jti |-> IF j \in S /\ Exists(j) /\ j \notin expired
                    THEN "revoked" ELSE state[j]]

\* The rows a flush revokes: an UPDATE by primary key reaches the rows that
\* still exist, whatever has been committed to them since they were loaded.
Revoked(S) == [j \in Jti |-> IF j \in S /\ Exists(j) THEN "revoked" ELSE state[j]]

\* A flush whose UPDATE matches fewer rows than were loaded raises
\* StaleDataError and rolls the transaction back.
Stale(S) == \E j \in S : ~Exists(j)

-----------------------------------------------------------------------------
\* login: the user row is read and the password verified against it.
BeginLogin(r, u) ==
    /\ req[r].pc = "idle"
    /\ req' = [req EXCEPT ![r] = [Idle EXCEPT !.pc = "issue", !.user = u,
                                              !.cred = password[u]]]
    /\ UNCHANGED <<password, rows, redis, history>>

\* _issue_tokens: insert and commit a row with a fresh jti.
IssueTokens(r) ==
    /\ req[r].pc = "issue"
    /\ \E j \in Jti :
          /\ state[j] = "unissued"
          /\ state' = [state EXCEPT ![j] = "live"]
          /\ owner' = [owner EXCEPT ![j] = req[r].user]
          /\ parent' = [parent EXCEPT ![j] = req[r].jti]
          /\ cred' = [cred EXCEPT ![j] = req[r].cred]
    /\ req' = [req EXCEPT ![r] = Idle]
    /\ UNCHANGED <<password, expired, redis, swept>>

\* A bug: the row that is exchanged is not revoked.
BeginRefreshKept(r, t) ==
    /\ req[r].pc = "idle"
    /\ state[t] = "live" /\ t \notin expired
    /\ req' = [req EXCEPT ![r] = [Idle EXCEPT !.pc = "issue", !.jti = t,
                          !.user = owner[t], !.cred = password[owner[t]]]]
    /\ UNCHANGED <<password, rows, redis, history>>

\* refresh_session: the row is loaded and must be unrevoked and unexpired.
BeginRefresh(r, t) ==
    /\ req[r].pc = "idle"
    /\ state[t] = "live" /\ t \notin expired
    /\ req' = [req EXCEPT ![r] = [Idle EXCEPT !.pc = "rotate", !.jti = t,
                          !.user = owner[t], !.cred = password[owner[t]]]]
    /\ UNCHANGED <<password, rows, redis, history>>

\* ... then revoked, in a commit of its own; the new row comes after it.
CommitRotate(r) ==
    /\ req[r].pc = "rotate"
    /\ state' = Revoked({req[r].jti})
    /\ req' = [req EXCEPT ![r] = IF Stale({req[r].jti}) THEN Idle
                                 ELSE [req[r] EXCEPT !.pc = "issue"]]
    /\ UNCHANGED <<password, owner, expired, redis, history>>

\* logout, refresh-token part: decode_token refuses an expired token, and a
\* row loaded as revoked leaves the flush nothing to do.
BeginLogout(r, t) ==
    /\ req[r].pc = "idle"
    /\ state[t] = "live" /\ t \notin expired
    /\ req' = [req EXCEPT ![r] = [Idle EXCEPT !.pc = "logout", !.jti = t]]
    /\ UNCHANGED <<password, rows, redis, history>>

CommitLogout(r) ==
    /\ req[r].pc = "logout"
    /\ state' = Revoked({req[r].jti})
    /\ req' = [req EXCEPT ![r] = Idle]
    /\ UNCHANGED <<password, owner, expired, redis, history>>

-----------------------------------------------------------------------------
\* request_password_reset: a fresh key for a known user.
RequestReset(k, u) ==
    /\ k \notin minted
    /\ minted' = minted \cup {k}
    /\ pwreset' = [pwreset EXCEPT ![k] = u]
    /\ UNCHANGED <<password, rows, req, history>>

\* Redis drops the key when its hour is over.
ResetKeyExpires(k) ==
    /\ pwreset[k] # None
    /\ pwreset' = [pwreset EXCEPT ![k] = None]
    /\ UNCHANGED <<password, rows, minted, req, history>>

\* A bug: a key that is gone is not refused.
BeginConfirmAnyKey(r, k) ==
    /\ req[r].pc = "idle"
    /\ req' = [req EXCEPT ![r] = [Idle EXCEPT !.pc = "got", !.key = k,
                                              !.user = pwreset[k]]]
    /\ UNCHANGED <<password, rows, redis, history>>

\* confirm_password_reset: GET the key and load its user,
BeginConfirm(r, k) ==
    /\ req[r].pc = "idle"
    /\ pwreset[k] # None
    /\ req' = [req EXCEPT ![r] = [Idle EXCEPT !.pc = "got", !.key = k,
                                              !.user = pwreset[k]]]
    /\ UNCHANGED <<password, rows, redis, history>>

\* hash the new password, then delete the key,
DeleteResetKey(r) ==
    /\ req[r].pc = "got"
    /\ pwreset' = [pwreset EXCEPT ![req[r].key] = None]
    /\ req' = [req EXCEPT ![r].pc = "deleted"]
    /\ UNCHANGED <<password, rows, minted, history>>

\* load every row of the user; those already revoked need no UPDATE,
SelectRows(r) ==
    /\ req[r].pc = "deleted"
    /\ LET S == {j \in Jti : state[j] = "live" /\ owner[j] = req[r].user}
       IN  req' = [req EXCEPT ![r] = [req[r] EXCEPT !.pc = "commit", !.seen = S]]
    /\ UNCHANGED <<password, rows, redis, history>>

\* and commit the new hash and the revocations in one transaction.
CommitReset(r) ==
    /\ req[r].pc = "commit"
    /\ ~Stale(req[r].seen)
    /\ password' = [password EXCEPT ![req[r].user] = @ + 1]
    /\ state' = Revoked(req[r].seen)
    /\ swept' = swept \cup req[r].seen
    /\ req' = [req EXCEPT ![r] = Idle]
    /\ UNCHANGED <<owner, expired, redis, parent, cred>>

\* The flush fails: nothing is written, and the key is gone all the same.
RollBackReset(r) ==
    /\ req[r].pc = "commit"
    /\ Stale(req[r].seen)
    /\ req' = [req EXCEPT ![r] = Idle]
    /\ UNCHANGED <<password, rows, redis, history>>

-----------------------------------------------------------------------------
\* Thirty days pass for a row.
TokenExpires(j) ==
    /\ Exists(j) /\ j \notin expired
    /\ expired' = expired \cup {j}
    /\ UNCHANGED <<password, state, owner, redis, req, history>>

\* Bugs: the expired rows are deleted, revoked or not; the comparison of
\* expires_at with the clock is the wrong way round.
PurgeableLive == {j \in expired : Exists(j)}
PurgeableEarly == {j \in Jti \ expired : state[j] = "revoked"}

\* cleanup_expired_refresh_tokens: one DELETE of the expired revoked rows.
Purgeable == {j \in expired : state[j] = "revoked"}

Cleanup ==
    /\ Purgeable # {}
    /\ state' = [j \in Jti |-> IF j \in Purgeable THEN "purged" ELSE state[j]]
    /\ UNCHANGED <<password, owner, expired, redis, req, history>>

\* The process serving a request dies, or its database connection does.
Abort(r) ==
    /\ req[r].pc # "idle"
    /\ req' = [req EXCEPT ![r] = Idle]
    /\ UNCHANGED <<password, rows, redis, history>>

Next == \/ \E r \in Request :
              \/ \E u \in User : BeginLogin(r, u)
              \/ \E t \in Jti : BeginRefresh(r, t) \/ BeginLogout(r, t)
              \/ \E k \in ResetKey : BeginConfirm(r, k)
              \/ IssueTokens(r) \/ CommitRotate(r) \/ CommitLogout(r)
              \/ DeleteResetKey(r) \/ SelectRows(r)
              \/ CommitReset(r) \/ RollBackReset(r) \/ Abort(r)
        \/ \E k \in ResetKey : ResetKeyExpires(k)
                               \/ \E u \in User : RequestReset(k, u)
        \/ \E j \in Jti : TokenExpires(j)
        \/ Cleanup

Spec == Init /\ [][Next]_vars

\* Celery beat runs the clean-up every week, for ever; no request is owed a turn.
FairSpec == Spec /\ WF_vars(Cleanup)

-----------------------------------------------------------------------------
\* Types, and what a row and a slot in use always carry: a row that was issued
\* has an owner, a request past its first read knows whom it serves, and a
\* refresh holds the token it exchanges.
TypeOK ==
    /\ password \in [User -> Nat]
    /\ state \in [Jti -> {"unissued", "live", "revoked", "purged"}]
    /\ owner \in [Jti -> User \cup {None}]
    /\ expired \subseteq Jti
    /\ pwreset \in [ResetKey -> User \cup {None}]
    /\ minted \subseteq ResetKey
    /\ req \in [Request -> Slot]
    /\ parent \in [Jti -> Jti \cup {None}]
    /\ cred \in [Jti -> Nat]
    /\ swept \subseteq Jti
    /\ \A j \in Jti : state[j] # "unissued" => owner[j] \in User
    /\ \A r \in Request :
          /\ req[r].pc \notin {"idle", "logout"} => req[r].user \in User
          /\ req[r].pc \in {"rotate", "logout"} => req[r].jti \in Jti
          /\ req[r].pc = "got" => req[r].key \in ResetKey

\* A refresh token and the token issued in exchange for it are never usable at
\* once, whatever crashes between the two commits of refresh_session and
\* whatever requests share the token.
RotationExclusive ==
    \A j \in Jti : parent[j] # None => state[parent[j]] \in {"revoked", "purged"}

\* A row that a completed password reset selected is never usable again: no
\* refresh, logout or reset that loaded it earlier writes it back to life.
ResetSweep == \A j \in swept : state[j] \in {"revoked", "purged"}

\* The table implements the life cycle of TokenLifecycle.
TL == INSTANCE TokenLifecycle
ImplementsLifecycle == TL!Spec

\* The weekly clean-up gets to every row that is both revoked and expired.
RevokedRowsPurged ==
    \A j \in Jti : (state[j] = "revoked" /\ j \in expired) ~> state[j] = "purged"

-----------------------------------------------------------------------------
\* Stated by the repository, and not so in the code.

\* services/auth.py:203, "revoke all refresh rows for this user": after a reset,
\* the usable rows are those authorised under the new password.
ResetRevokesAll ==
    \A j \in Jti : state[j] = "live" => cred[j] = password[owner[j]]
=============================================================================
