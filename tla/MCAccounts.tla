----------------------------- MODULE MCAccounts -----------------------------
(* Instances of Accounts for TLC. *)
EXTENDS Accounts, FiniteSets, TLC

Symmetry == Permutations(User) \cup Permutations(Email) \cup Permutations(Request)

\* The run starts from two states a little way from Init, both of which Spec
\* reaches.  In both no request is under way, nobody is verified, and whatever
\* verification key there was has expired.
Quiet == verified = {} /\ emverify = {} /\ req = [r \in Request |-> Idle]

\* Nobody is registered, and all ids but two were drawn by registrations that
\* failed: where registrations compete.
Failures ==
    /\ Quiet
    /\ email = [u \in User |-> None] /\ taken = {}
    /\ role = [s \in Slug |-> [u \in User |-> None]]
    /\ drawn \in SUBSET User /\ Cardinality(User \ drawn) = 2

\* Everybody has registered, and has invited all the others to the workspace
\* that came with it: where another workspace is founded, and its administrator
\* invites a manager, who invites others.
Populated ==
    /\ Quiet
    /\ drawn = User
    /\ \E address \in [User -> Email], home \in [User -> Slug] :
          /\ \A u, v \in User :
                u # v => address[u] # address[v] /\ home[u] # home[v]
          /\ \A u \in User : home[u] <= Cardinality(User)
          /\ email = address
          /\ taken = {home[u] : u \in User}
          /\ role = [s \in Slug |-> [u \in User |->
                        IF home[u] = s THEN "admin"
                        ELSE IF s \in taken THEN "member" ELSE None]]

\* Bound: two slugs while registrations compete, the first and its successor.
SlugBound ==
    \/ \A u \in User : Registered(u)
    \/ taken \cup {req[r].slug : r \in Request} \subseteq {None, 1, 2}

MCSpec == (Failures \/ Populated) /\ [][Next]_vars
=============================================================================
