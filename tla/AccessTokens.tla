---------------------------- MODULE AccessTokens ----------------------------
(***************************************************************************)
(* Access tokens and their denylist (app/core/security.py, the logout      *)
(* route and service, app/api/deps.py, app/core/redis_client.py).          *)
(*                                                                         *)
(* A JWT carries its expiry in whole seconds; Redis counts a time to live  *)
(* from the instant SETEX arrives.  Time is a second and a tick within it, *)
(* the same for the application and for Redis.  A logout that fails (its   *)
(* token has expired, Redis does not answer, the process dies) leaves no   *)
(* key, or leaves it unanswered: the token is then not "logged out".       *)
(***************************************************************************)
EXTENDS Integers

CONSTANTS Jti, Request, None,
          Lifetime,   \* access_token_expire_minutes, in seconds
          Ticks,      \* ticks to a second
          MaxSec      \* bound on the clock

ASSUME ClockAssumption == Lifetime \in Nat /\ Ticks \in Nat \ {0} /\ MaxSec \in Nat
ASSUME NoneIsNew == None \notin Jti

VARIABLES sec, frac,  \* the clock
          exp,        \* the exp claim of each token, or -1 when not yet issued
          key,        \* Redis bl:jti:<jti>: the instant it expires, or NoKey
          req,        \* logout requests: the token, and the ttl once computed
          loggedOut,  \* history: the tokens whose logout was answered with 204
          forgotten   \* history: the tokens whose key Redis lost after it was last set

vars == <<sec, frac, exp, key, req, loggedOut, forgotten>>

Instant == [sec : Nat, frac : 0..(Ticks - 1)]
NoKey == [sec |-> 0, frac |-> -1]
Slot == [jti : Jti \cup {None}, ttl : Nat]
Idle == [jti |-> None, ttl |-> 0]

Init == /\ sec = 0 /\ frac = 0
        /\ exp = [j \in Jti |-> -1]
        /\ key = [j \in Jti |-> NoKey]
        /\ req = [r \in Request |-> Idle]
        /\ loggedOut = {}
        /\ forgotten = {}

\* A bug: the expiry is not verified.
DecodesAny(j) == TRUE

\* decode_token: jose refuses a token whose exp is behind the current second.
Decodes(j) == sec <= exp[j]

\* is_jti_blacklisted: Redis serves a key until its instant has gone by.
Denied(j) == \/ sec < key[j].sec
             \/ sec = key[j].sec /\ frac <= key[j].frac

\* get_current_user_id lets a bearer of j in.
Accepted(j) == Decodes(j) /\ ~Denied(j)

-----------------------------------------------------------------------------
Tick == /\ \/ frac < Ticks - 1 /\ frac' = frac + 1 /\ sec' = sec
           \/ frac = Ticks - 1 /\ sec < MaxSec /\ frac' = 0 /\ sec' = sec + 1
        /\ UNCHANGED <<exp, key, req, loggedOut, forgotten>>

\* create_access_token: the expiry is cut to a whole second.
Issue(j) == /\ exp[j] = -1
            /\ exp' = [exp EXCEPT ![j] = sec + Lifetime]
            /\ UNCHANGED <<sec, frac, key, req, loggedOut, forgotten>>

\* A bug: the time to live leaves out the last second.
TimeToLiveShort(j) == IF sec + 1 >= exp[j] THEN 0 ELSE exp[j] - sec - 1

\* max(0, exp - now), now in whole seconds.
TimeToLive(j) == IF sec >= exp[j] THEN 0 ELSE exp[j] - sec

\* logout: the route decodes the token (a token past its expiry is a 500),
\* and the service computes how long the key has to live.
BeginLogout(r, j) ==
    /\ req[r] = Idle
    /\ Decodes(j)
    /\ req' = [req EXCEPT ![r] = [jti |-> j, ttl |-> TimeToLive(j)]]
    /\ UNCHANGED <<sec, frac, exp, key, loggedOut, forgotten>>

\* blacklist_jti: SETEX replaces the key, and no key is set for a ttl of zero.
Setex(j, ttl) ==
    IF ttl = 0 THEN key
    ELSE [key EXCEPT ![j] = [sec |-> sec + ttl, frac |-> frac]]

\* The key is set; the answer reaches the client or is lost on the way.
EndLogout(r) ==
    /\ req[r] # Idle
    /\ LET j == req[r].jti IN
          /\ key' = Setex(j, req[r].ttl)
          /\ forgotten' = IF req[r].ttl = 0 THEN forgotten ELSE forgotten \ {j}
          /\ loggedOut' = loggedOut \cup {j} \/ UNCHANGED loggedOut
    /\ req' = [req EXCEPT ![r] = Idle]
    /\ UNCHANGED <<sec, frac, exp>>

\* The process dies or Redis times out before the SETEX.
Abort(r) == /\ req[r] # Idle
            /\ req' = [req EXCEPT ![r] = Idle]
            /\ UNCHANGED <<sec, frac, exp, key, loggedOut, forgotten>>

\* The redis container is restarted; it has no volume, so any keys may be gone.
RedisRestart ==
    \E lost \in SUBSET {j \in Jti : Denied(j)} :
        /\ lost # {}
        /\ key' = [j \in Jti |-> IF j \in lost THEN NoKey ELSE key[j]]
        /\ forgotten' = forgotten \cup lost
        /\ UNCHANGED <<sec, frac, exp, req, loggedOut>>

Next == \/ Tick \/ RedisRestart
        \/ \E j \in Jti : Issue(j) \/ \E r \in Request : BeginLogout(r, j)
        \/ \E r \in Request : EndLogout(r) \/ Abort(r)

Spec == Init /\ [][Next]_vars

-----------------------------------------------------------------------------
\* Types; a slot in use holds a token that was issued.
TypeOK ==
    /\ sec \in Nat /\ frac \in 0..(Ticks - 1)
    /\ exp \in [Jti -> Nat \cup {-1}]
    /\ key \in [Jti -> Instant \cup {NoKey}]
    /\ req \in [Request -> Slot]
    /\ loggedOut \subseteq Jti
    /\ forgotten \subseteq Jti
    /\ \A r \in Request : req[r] # Idle => req[r].jti \in Jti /\ exp[req[r].jti] # -1

\* A token that was logged out is refused up to the second of its expiry,
\* however long the request waited between computing the ttl and sending it,
\* whichever of several logouts of the token wrote the key last, unless Redis
\* lost the key.
LogoutHoldsUntilExp ==
    \A j \in loggedOut \ forgotten : sec < exp[j] => ~Accepted(j)

\* A token that is refused, its logout answered or not, is not let in again
\* before the second of its expiry: a later logout of the same token, with a
\* smaller ttl, may only replace the key by one that reaches as far.
DenialNotCutShort ==
    [][\A j \in Jti : Denied(j) /\ ~Denied(j)' => sec' >= exp[j] \/ j \in forgotten']_vars

-----------------------------------------------------------------------------
\* README.md:7, "logout with access-token **JTI denylist** in Redis": a token that
\* was logged out is not accepted any more.  Not so in the second of its expiry.
LogoutIsFinal == \A j \in loggedOut \ forgotten : ~Accepted(j)
=============================================================================
