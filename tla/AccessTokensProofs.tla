------------------------- MODULE AccessTokensProofs -------------------------
(***************************************************************************)
(* Proofs about AccessTokens, for any lifetime, any resolution of the      *)
(* clock and any number of tokens and concurrent logouts.                  *)
(***************************************************************************)
EXTENDS AccessTokens, TLAPS

\* A ttl that was computed reaches the expiry from whenever it is sent.
TtlReaches ==
    \A r \in Request : req[r] # Idle => sec + req[r].ttl >= exp[req[r].jti]

\* A key reaches the second of its token's expiry.
KeyReaches == \A j \in Jti : key[j] # NoKey => key[j].sec >= exp[j]

\* A token that was logged out before its expiry has a key, unless it was lost.
LoggedOutHasKey ==
    \A j \in loggedOut \ forgotten : sec < exp[j] => key[j] # NoKey

\* A token that was not issued has neither.
UnissuedIsUnknown == \A j \in Jti : exp[j] = -1 => key[j] = NoKey /\ j \notin loggedOut

IInv == TypeOK /\ TtlReaches /\ KeyReaches /\ LoggedOutHasKey /\ UnissuedIsUnknown

-----------------------------------------------------------------------------
\* The inductive invariant at the start.
LEMMA InitInv == Init => IInv
BY ClockAssumption, NoneIsNew
   DEF Init, IInv, TypeOK, TtlReaches, KeyReaches, LoggedOutHasKey, UnissuedIsUnknown,
       Slot, Idle, NoKey

\* The inductive invariant, step by step.
LEMMA StepInv == IInv /\ [Next]_vars => IInv'
<1> SUFFICES ASSUME IInv, [Next]_vars PROVE IInv'
  OBVIOUS
<1> USE ClockAssumption, NoneIsNew
    DEF IInv, TypeOK, TtlReaches, KeyReaches, LoggedOutHasKey, UnissuedIsUnknown,
        Slot, Idle, NoKey, Instant
<1>1. CASE Tick
  <2>1. sec' \in Nat /\ sec <= sec' /\ frac' \in 0..(Ticks - 1)
    BY <1>1 DEF Tick
  <2>2. UNCHANGED <<exp, key, req, loggedOut, forgotten>>
    BY <1>1 DEF Tick
  <2>3. TypeOK'
    BY <2>1, <2>2
  <2>4. TtlReaches'
    BY <2>1, <2>2
  <2>5. LoggedOutHasKey'
    BY <2>1, <2>2
  <2> QED
    BY <2>2, <2>3, <2>4, <2>5
<1>2. ASSUME NEW j \in Jti, Issue(j) PROVE IInv'
  <2>1. TypeOK'
    BY <1>2 DEF Issue
  <2>2. TtlReaches'
    BY <1>2 DEF Issue
  <2>3. KeyReaches' /\ LoggedOutHasKey' /\ UnissuedIsUnknown'
    BY <1>2 DEF Issue
  <2> QED
    BY <2>1, <2>2, <2>3
<1>3. ASSUME NEW r \in Request, NEW j \in Jti, BeginLogout(r, j) PROVE IInv'
  BY <1>3 DEF BeginLogout, TimeToLive, Decodes
<1>4. ASSUME NEW r \in Request, EndLogout(r) PROVE IInv'
  <2> DEFINE j == req[r].jti
  <2>1. j \in Jti /\ exp[j] \in Nat /\ req[r].ttl \in Nat
    BY <1>4 DEF EndLogout
  <2>2. CASE req[r].ttl = 0
    <3>1. sec >= exp[j]
      BY <1>4, <2>1, <2>2 DEF EndLogout
    <3>2. TypeOK' /\ TtlReaches' /\ KeyReaches'
      BY <1>4, <2>1, <2>2 DEF EndLogout, Setex
    <3>3. LoggedOutHasKey' /\ UnissuedIsUnknown'
      BY <1>4, <2>1, <2>2, <3>1 DEF EndLogout, Setex
    <3> QED
      BY <3>2, <3>3
  <2>3. CASE req[r].ttl # 0
    <3>1. key' = [key EXCEPT ![j] = [sec |-> sec + req[r].ttl, frac |-> frac]]
      BY <1>4, <2>3 DEF EndLogout, Setex
    <3>2. TypeOK'
      BY <1>4, <2>1, <2>3, <3>1 DEF EndLogout
    <3>3. TtlReaches' /\ KeyReaches'
      BY <1>4, <2>1, <2>3, <3>1 DEF EndLogout
    <3>4. LoggedOutHasKey' /\ UnissuedIsUnknown'
      BY <1>4, <2>1, <2>3, <3>1 DEF EndLogout
    <3> QED
      BY <3>2, <3>3, <3>4
  <2> QED
    BY <2>2, <2>3
<1>5. ASSUME NEW r \in Request, Abort(r) PROVE IInv'
  BY <1>5 DEF Abort
<1>6. CASE RedisRestart
  BY <1>6 DEF RedisRestart, Denied
<1>7. CASE UNCHANGED vars
  BY <1>7 DEF vars
<1> QED
  BY <1>1, <1>2, <1>3, <1>4, <1>5, <1>6, <1>7 DEF Next

\* The inductive invariant holds throughout.
THEOREM Invariance == Spec => []IInv
BY InitInv, StepInv, PTL DEF Spec

\* The type invariant.
THEOREM TypeCorrect == Spec => []TypeOK
BY Invariance, PTL DEF IInv

-----------------------------------------------------------------------------
\* A key that reaches the expiry denies the token before it.
LEMMA KeyDenies == IInv => LogoutHoldsUntilExp
<1> SUFFICES ASSUME IInv, NEW j \in loggedOut \ forgotten, sec < exp[j]
             PROVE  ~Accepted(j)
  BY DEF LogoutHoldsUntilExp
<1>1. j \in Jti /\ exp[j] \in Nat \cup {-1} /\ sec \in Nat /\ key[j].sec \in Nat
  BY DEF IInv, TypeOK, Instant, NoKey
<1>2. key[j].sec >= exp[j]
  BY <1>1 DEF IInv, LoggedOutHasKey, KeyReaches
<1> QED
  BY <1>1, <1>2 DEF Accepted, Denied

\* A token that was logged out is refused until the second of its expiry.
THEOREM LogoutHolds == Spec => []LogoutHoldsUntilExp
BY Invariance, KeyDenies, PTL

\* A token that is refused is not let in again before the second of its expiry.
THEOREM DenialHolds == Spec => DenialNotCutShort
<1>1. IInv /\ [Next]_vars =>
         [\A j \in Jti : Denied(j) /\ ~Denied(j)' => sec' >= exp[j] \/ j \in forgotten']_vars
  <2> SUFFICES ASSUME IInv, Next, NEW j \in Jti, Denied(j), ~Denied(j)'
               PROVE  sec' >= exp[j] \/ j \in forgotten'
    OBVIOUS
  <2>1. /\ sec \in Nat /\ frac \in Nat /\ exp[j] \in Nat \cup {-1}
        /\ key[j].sec \in Nat /\ key[j].frac \in Int /\ key[j] # NoKey
        /\ key[j].sec >= exp[j]
    BY ClockAssumption DEF IInv, TypeOK, KeyReaches, Instant, NoKey, Denied
  <2>2. CASE Tick
    <3>1. sec' \in Nat /\ key'[j] = key[j]
      BY <2>1, <2>2 DEF Tick
    <3> QED
      BY <2>1, <3>1 DEF Denied
  <2>3. ASSUME NEW r \in Request, EndLogout(r) PROVE FALSE
    <3>1. UNCHANGED <<sec, frac>> /\ req[r].ttl \in Nat /\ key' = Setex(req[r].jti, req[r].ttl)
      BY <2>3 DEF EndLogout, IInv, TypeOK, Slot
    <3>2. key'[j] # key[j] => key'[j].sec = sec + req[r].ttl /\ req[r].ttl # 0
      BY <3>1 DEF Setex, IInv, TypeOK
    <3> QED
      BY <2>1, <3>1, <3>2 DEF Denied
  <2>4. CASE RedisRestart
    <3>1. key'[j] = key[j] \/ j \in forgotten'
      BY <2>4 DEF RedisRestart
    <3> QED
      BY <2>4, <3>1 DEF RedisRestart, Denied
  <2>5. CASE UNCHANGED <<sec, frac, key>>
    BY <2>5 DEF Denied
  <2> QED
    BY <2>2, <2>3, <2>4, <2>5 DEF Next, Issue, BeginLogout, Abort
<1> QED
  BY <1>1, Invariance, PTL DEF Spec, DenialNotCutShort
=============================================================================
