--------------------------- MODULE SessionsProofs ---------------------------
(***************************************************************************)
(* Proofs about Sessions, for any number of users, tokens, reset keys and  *)
(* concurrent requests.                                                    *)
(***************************************************************************)
EXTENDS Sessions, TLAPS

\* The rows that will not be usable again.
Spent(j) == state[j] \in {"revoked", "purged"}

\* A refresh that is about to issue a token has committed the revocation of
\* the one it was given: what RotationExclusive rests on.
IssueHoldsSpent ==
    \A r \in Request : req[r].pc = "issue" /\ req[r].jti # None => Spent(req[r].jti)

IInv == TypeOK /\ RotationExclusive /\ ResetSweep /\ IssueHoldsSpent

-----------------------------------------------------------------------------
\* Types, in the initial state.
LEMMA TypeCorrectInit == Init => TypeOK
BY NoneIsNew DEF Init, TypeOK, Slot, Idle

\* Types over a step, one case for each action.
LEMMA TypeCorrectStep == TypeOK /\ [Next]_vars => TypeOK'
<1> SUFFICES ASSUME TypeOK, [Next]_vars PROVE TypeOK'
  OBVIOUS
<1> USE DEF TypeOK, Slot, Idle, rows, redis, history
<1>1. ASSUME NEW r \in Request, NEW u \in User, BeginLogin(r, u) PROVE TypeOK'
  BY <1>1, NoneIsNew DEF BeginLogin
<1>2. ASSUME NEW r \in Request, NEW t \in Jti, BeginRefresh(r, t) PROVE TypeOK'
  BY <1>2, NoneIsNew DEF BeginRefresh
<1>3. ASSUME NEW r \in Request, NEW t \in Jti, BeginLogout(r, t) PROVE TypeOK'
  BY <1>3, NoneIsNew DEF BeginLogout
<1>4. ASSUME NEW r \in Request, NEW k \in ResetKey, BeginConfirm(r, k) PROVE TypeOK'
  BY <1>4, NoneIsNew DEF BeginConfirm
<1>5. ASSUME NEW r \in Request, IssueTokens(r) PROVE TypeOK'
  BY <1>5, NoneIsNew DEF IssueTokens
<1>6. ASSUME NEW r \in Request, CommitRotate(r) PROVE TypeOK'
  BY <1>6, NoneIsNew DEF CommitRotate, Revoked, Stale, Exists
<1>7. ASSUME NEW r \in Request, CommitLogout(r) PROVE TypeOK'
  BY <1>7, NoneIsNew DEF CommitLogout, Revoked, Exists
<1>8. ASSUME NEW r \in Request, DeleteResetKey(r) PROVE TypeOK'
  BY <1>8, NoneIsNew DEF DeleteResetKey
<1>9. ASSUME NEW r \in Request, SelectRows(r) PROVE TypeOK'
  <2> DEFINE S == {j \in Jti : state[j] = "live" /\ owner[j] = req[r].user}
  <2>1. S \in SUBSET Jti
    OBVIOUS
  <2>2. req' = [req EXCEPT ![r] = [req[r] EXCEPT !.pc = "commit", !.seen = S]]
    BY <1>9 DEF SelectRows
  <2>3. req[r].pc = "deleted" /\ UNCHANGED <<password, rows, redis, history>>
    BY <1>9 DEF SelectRows
  <2> HIDE DEF S
  <2> DEFINE next == [req[r] EXCEPT !.pc = "commit", !.seen = S]
  <2>4. /\ next \in Slot /\ next.pc = "commit"
        /\ next.user = req[r].user /\ next.jti = req[r].jti /\ next.key = req[r].key
    <3> HIDE DEF TypeOK, Idle
    <3>1. req[r] \in Slot
      BY DEF TypeOK
    <3> QED
      BY <2>1, <3>1
  <2> HIDE DEF next
  <2>5. req' \in [Request -> Slot]
    BY <2>2, <2>4 DEF next
  <2>6. \A q \in Request : q # r => req'[q] = req[q]
    BY <2>2
  <2>7. UNCHANGED <<password, state, owner, expired, pwreset, minted, parent, cred, swept>>
    BY <2>3
  <2>8. \A q \in Request :
          /\ req'[q].pc \notin {"idle", "logout"} => req'[q].user \in User
          /\ req'[q].pc \in {"rotate", "logout"} => req'[q].jti \in Jti
          /\ req'[q].pc = "got" => req'[q].key \in ResetKey
    BY <2>2, <2>3, <2>4, <2>6 DEF next
  <2> QED
    BY <2>5, <2>7, <2>8
<1>10. ASSUME NEW r \in Request, CommitReset(r) PROVE TypeOK'
  BY <1>10, NoneIsNew DEF CommitReset, Revoked, Exists
<1>11. ASSUME NEW r \in Request, RollBackReset(r) \/ Abort(r) PROVE TypeOK'
  BY <1>11, NoneIsNew DEF RollBackReset, Abort
<1>12. ASSUME NEW k \in ResetKey, ResetKeyExpires(k) PROVE TypeOK'
  BY <1>12 DEF ResetKeyExpires
<1>13. ASSUME NEW k \in ResetKey, NEW u \in User, RequestReset(k, u) PROVE TypeOK'
  BY <1>13 DEF RequestReset
<1>14. ASSUME NEW j \in Jti, TokenExpires(j) PROVE TypeOK'
  BY <1>14 DEF TokenExpires
<1>15. CASE Cleanup
  BY <1>15 DEF Cleanup, Purgeable
<1>16. CASE UNCHANGED vars
  BY <1>16 DEF vars
<1> QED
  BY <1>1, <1>2, <1>3, <1>4, <1>5, <1>6, <1>7, <1>8, <1>9, <1>10, <1>11, <1>12,
     <1>13, <1>14, <1>15, <1>16 DEF Next

\* The type invariant: what the tables, Redis and every request slot hold, and
\* that an issued row has an owner.
THEOREM TypeCorrect == Spec => []TypeOK
BY TypeCorrectInit, TypeCorrectStep, PTL DEF Spec

-----------------------------------------------------------------------------
\* No step makes a spent row usable again.
LEMMA SpentIsForever ==
    ASSUME TypeOK, [Next]_vars
    PROVE  \A j \in Jti : Spent(j) => Spent(j)'
<1> USE DEF TypeOK, Spent, rows, redis, history
<1>1. ASSUME NEW r \in Request, IssueTokens(r) PROVE \A j \in Jti : Spent(j) => Spent(j)'
  BY <1>1 DEF IssueTokens
<1>2. ASSUME NEW r \in Request, CommitRotate(r) \/ CommitLogout(r) \/ CommitReset(r)
      PROVE  \A j \in Jti : Spent(j) => Spent(j)'
  BY <1>2 DEF CommitRotate, CommitLogout, CommitReset, Revoked
<1>3. CASE Cleanup
  BY <1>3 DEF Cleanup
<1>4. CASE UNCHANGED state
  BY <1>4
<1> QED
  BY <1>1, <1>2, <1>3, <1>4 DEF Next, vars, BeginLogin, BeginRefresh, BeginLogout,
     BeginConfirm, DeleteResetKey, SelectRows, RollBackReset, Abort, RequestReset,
     ResetKeyExpires, TokenExpires

\* Rows a flush revokes are spent, if it finds them all.
LEMMA RevokedAreSpent ==
    ASSUME NEW S \in SUBSET Jti, ~Stale(S), state' = Revoked(S)
    PROVE  \A j \in S : Spent(j)'
BY DEF Stale, Revoked, Spent

\* A request comes to issue a token in exchange for another only by CommitRotate.
LEMMA IssueReached ==
    ASSUME TypeOK, [Next]_vars, NEW q \in Request,
           req'[q].pc = "issue", req'[q].jti # None
    PROVE  req'[q] = req[q] \/ CommitRotate(q)
<1> USE DEF TypeOK, Slot, Idle
<1>1. ASSUME NEW r \in Request, NEW u \in User, BeginLogin(r, u) PROVE req'[q] = req[q]
  BY <1>1 DEF BeginLogin
<1>2. ASSUME NEW r \in Request, NEW t \in Jti, BeginRefresh(r, t) PROVE req'[q] = req[q]
  BY <1>2 DEF BeginRefresh
<1>8. ASSUME NEW r \in Request, NEW t \in Jti, BeginLogout(r, t) PROVE req'[q] = req[q]
  BY <1>8 DEF BeginLogout
<1>3. ASSUME NEW r \in Request, NEW k \in ResetKey, BeginConfirm(r, k)
      PROVE  req'[q] = req[q]
  BY <1>3 DEF BeginConfirm
<1>4. ASSUME NEW r \in Request, CommitRotate(r) PROVE req'[q] = req[q] \/ CommitRotate(q)
  BY <1>4 DEF CommitRotate
<1>5. ASSUME NEW r \in Request, DeleteResetKey(r) \/ SelectRows(r)
      PROVE  req'[q] = req[q]
  BY <1>5 DEF DeleteResetKey, SelectRows
<1>6. ASSUME NEW r \in Request, req' = [req EXCEPT ![r] = Idle] PROVE req'[q] = req[q]
  BY <1>6
<1>7. CASE UNCHANGED req
  BY <1>7
<1> QED
  BY <1>1, <1>2, <1>3, <1>4, <1>5, <1>6, <1>7, <1>8 DEF Next, vars,
     IssueTokens, CommitLogout, CommitReset, RollBackReset, Abort, RequestReset, ResetKeyExpires,
     TokenExpires, Cleanup

\* The inductive invariant.
THEOREM Invariance == Spec => []IInv
<1>1. Init => IInv
  BY TypeCorrectInit DEF Init, IInv, RotationExclusive, ResetSweep, IssueHoldsSpent, Idle
<1>2. IInv /\ [Next]_vars => IInv'
  <2> SUFFICES ASSUME IInv, [Next]_vars PROVE IInv'
    OBVIOUS
  <2>1. TypeOK' /\ \A j \in Jti : Spent(j) => Spent(j)'
    BY TypeCorrectStep, SpentIsForever DEF IInv
  <2>2. RotationExclusive'
    <3>1. ASSUME NEW r \in Request, IssueTokens(r) PROVE RotationExclusive'
      BY <3>1, <2>1 DEF IssueTokens, IInv, TypeOK, RotationExclusive,
         IssueHoldsSpent, Spent
    <3>2. CASE UNCHANGED parent
      BY <3>2, <2>1 DEF IInv, TypeOK, RotationExclusive, Spent
    <3> QED
      BY <3>1, <3>2 DEF Next, vars, history, BeginLogin, BeginRefresh, BeginLogout,
         CommitRotate, CommitLogout, BeginConfirm, DeleteResetKey, SelectRows,
         CommitReset, RollBackReset, Abort, RequestReset, ResetKeyExpires,
         TokenExpires, Cleanup
  <2>3. ResetSweep'
    <3>1. ASSUME NEW r \in Request, CommitReset(r) PROVE ResetSweep'
      <4>1. req[r].seen \in SUBSET Jti
        BY DEF IInv, TypeOK, Slot
      <4>2. \A j \in req[r].seen : Spent(j)'
        BY <3>1, <4>1, RevokedAreSpent DEF CommitReset
      <4> QED
        BY <3>1, <4>2, <2>1 DEF CommitReset, IInv, TypeOK, ResetSweep, Spent
    <3>2. CASE UNCHANGED swept
      BY <3>2, <2>1 DEF IInv, TypeOK, ResetSweep, Spent
    <3> QED
      BY <3>1, <3>2 DEF Next, vars, history, BeginLogin, IssueTokens, BeginRefresh,
         BeginLogout, CommitRotate, CommitLogout, BeginConfirm, DeleteResetKey,
         SelectRows, RollBackReset, Abort, RequestReset, ResetKeyExpires,
         TokenExpires, Cleanup
  <2>4. IssueHoldsSpent'
    <3> SUFFICES ASSUME NEW q \in Request, (req[q].pc = "issue" /\ req[q].jti # None)'
                 PROVE  (Spent(req[q].jti))'
      BY DEF IssueHoldsSpent
    <3> USE DEF IInv, TypeOK, Slot, Idle
    <3>1. CASE CommitRotate(q)
      <4>1. ~Stale({req[q].jti}) /\ req'[q].jti = req[q].jti /\ req[q].jti \in Jti
        BY <3>1 DEF CommitRotate
      <4>2. {req[q].jti} \in SUBSET Jti /\ state' = Revoked({req[q].jti})
        BY <3>1, <4>1 DEF CommitRotate
      <4>3. \A j \in {req[q].jti} : Spent(j)'
        BY <4>1, <4>2, RevokedAreSpent
      <4> QED
        BY <4>1, <4>3 DEF Spent
    <3>2. CASE req'[q] = req[q]
      BY <3>2, <2>1 DEF IssueHoldsSpent, Spent
    <3> QED
      BY <3>1, <3>2, IssueReached
  <2> QED
    BY <2>1, <2>2, <2>3, <2>4 DEF IInv
<1> QED
  BY <1>1, <1>2, PTL DEF Spec

\* A refresh token and the one issued in exchange are never usable at once.
THEOREM RotationExclusiveHolds == Spec => []RotationExclusive
BY Invariance, PTL DEF IInv

\* What a completed password reset has selected is never usable again.
THEOREM ResetSweepHolds == Spec => []ResetSweep
BY Invariance, PTL DEF IInv

-----------------------------------------------------------------------------
\* The refresh_tokens table implements TokenLifecycle: every commit is one of
\* its steps, and everything else a request does leaves the table alone.
THEOREM LifecycleImplemented == Spec => ImplementsLifecycle
<1>1. Init => TL!Init
  BY DEF Init, TL!Init
<1>2. IInv /\ [Next]_vars => [TL!Next]_TL!vars
  <2> SUFFICES ASSUME IInv, [Next]_vars PROVE TL!Next \/ UNCHANGED <<state, parent>>
    BY DEF TL!vars
  <2> USE DEF IInv, TypeOK, Slot, rows, redis, history
  <2>1. ASSUME NEW r \in Request, IssueTokens(r) PROVE TL!Next
    <3>1. PICK j \in Jti : /\ state[j] = "unissued"
                           /\ state' = [state EXCEPT ![j] = "live"]
                           /\ parent' = [parent EXCEPT ![j] = req[r].jti]
      BY <2>1 DEF IssueTokens
    <3>2. TL!Issue(j, req[r].jti) /\ req[r].jti \in Jti \cup {None}
      BY <2>1, <3>1 DEF IssueTokens, TL!Issue, IssueHoldsSpent, Spent
    <3> QED
      BY <3>2 DEF TL!Next
  <2>2. ASSUME NEW S \in SUBSET Jti, state' = Revoked(S), UNCHANGED parent
        PROVE  TL!Next
    <3> DEFINE L == {j \in S : state[j] = "live"}
    <3>1. TL!Revoke(L) /\ L \in SUBSET Jti
      BY <2>2 DEF TL!Revoke, Revoked, Exists
    <3> QED
      BY <3>1 DEF TL!Next
  <2>3. CASE Cleanup
    <3>1. TL!Purge(Purgeable) /\ Purgeable \in SUBSET Jti
      BY <2>3 DEF Cleanup, TL!Purge, Purgeable
    <3> QED
      BY <3>1 DEF TL!Next
  <2>4. ASSUME NEW r \in Request, CommitRotate(r) \/ CommitLogout(r) \/ CommitReset(r)
        PROVE TL!Next
    <3>1. CASE CommitReset(r)
      <4>1. req[r].seen \in SUBSET Jti
        OBVIOUS
      <4> QED
        BY <3>1, <4>1, <2>2 DEF CommitReset
    <3>2. CASE CommitRotate(r) \/ CommitLogout(r)
      <4>1. {req[r].jti} \in SUBSET Jti
        BY <3>2 DEF CommitRotate, CommitLogout
      <4> QED
        BY <3>2, <4>1, <2>2 DEF CommitRotate, CommitLogout
    <3> QED
      BY <2>4, <3>1, <3>2
  <2> QED
    BY <2>1, <2>3, <2>4 DEF Next, vars, BeginLogin, BeginRefresh, BeginLogout,
       BeginConfirm, DeleteResetKey, SelectRows, RollBackReset, Abort, RequestReset,
       ResetKeyExpires, TokenExpires
<1> QED
  BY <1>1, <1>2, Invariance, PTL DEF Spec, ImplementsLifecycle, TL!Spec
-----------------------------------------------------------------------------
\* What the guard of Cleanup says, and the prover cannot compute: ENABLED.  It
\* has to be so in every state, since Cleanup gives every variable its next
\* value, and with rows to delete that of state is another one.
CleanupCanRun == Purgeable # {} => ENABLED <<Cleanup>>_vars

\* A row that the clean-up is to delete.
Due(j) == state[j] = "revoked" /\ j \in expired

\* It stays one until it is deleted: no request writes to it, or un-expires it.
LEMMA DueStays ==
    ASSUME TypeOK, [Next]_vars, NEW j \in Jti, Due(j)
    PROVE  Due(j)' \/ state'[j] = "purged"
<1>1. Spent(j)'
  BY SpentIsForever DEF Due, Spent
<1>2. j \in expired'
  BY DEF Due, Next, vars, rows, BeginLogin, IssueTokens, BeginRefresh,
     BeginLogout, CommitRotate, CommitLogout, BeginConfirm, DeleteResetKey,
     SelectRows, CommitReset, RollBackReset, Abort, RequestReset,
     ResetKeyExpires, TokenExpires, Cleanup
<1> QED
  BY <1>1, <1>2 DEF Due, Spent

\* The clean-up deletes every row that is due, whenever it runs.
LEMMA CleanupPurges ==
    ASSUME NEW j \in Jti, Due(j), Cleanup
    PROVE  state'[j] = "purged"
BY DEF Due, Cleanup, Purgeable

\* Every row that is both revoked and expired comes to be deleted, for the
\* weekly clean-up is to run as long as there is one.
THEOREM RevokedRowsPurgedHolds == FairSpec /\ []CleanupCanRun => RevokedRowsPurged
<1>1. SUFFICES ASSUME NEW j \in Jti
               PROVE  FairSpec /\ []CleanupCanRun => (Due(j) ~> state[j] = "purged")
  BY DEF RevokedRowsPurged, Due
<1>2. TypeOK /\ [Next]_vars /\ Due(j) => Due(j)' \/ (state[j] = "purged")'
  BY DueStays
<1>3. Due(j) /\ <<Cleanup>>_vars => (state[j] = "purged")'
  BY CleanupPurges
<1>4. CleanupCanRun /\ Due(j) => ENABLED <<Cleanup>>_vars
  BY DEF CleanupCanRun, Due, Purgeable
<1> QED
  BY <1>2, <1>3, <1>4, TypeCorrect, PTL DEF FairSpec, Spec
=============================================================================
