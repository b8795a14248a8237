--------------------------- MODULE AccountsProofs ---------------------------
(***************************************************************************)
(* Proofs about Accounts, for any number of users, e-mails, slugs and      *)
(* concurrent requests.                                                    *)
(***************************************************************************)
EXTENDS Accounts, TLAPS

\* A registration under way, from the id it has drawn to its commit.
Registering(r) == req[r].pc = "register" \/ HoldsEmail(r)

\* What a request has drawn, inserted or checked is still so: a registration's
\* user is nobody's yet, a key it holds is not committed, whoever else acts has
\* an account, and whoever invites may still do so.
SlotOK(r) ==
    /\ Registering(r) => req[r].user \in drawn /\ ~Registered(req[r].user)
    /\ HoldsEmail(r) => ~InUse(req[r].email)
    /\ HoldsSlug(r) => req[r].slug \notin taken
    /\ req[r].pc \in {"create", "created", "verify", "unkeyed"} =>
          Registered(req[r].user)
    /\ req[r].pc = "unkeyed" => req[r].user \notin emverify
    /\ req[r].pc = "invite" =>
          /\ req[r].slug \in taken
          /\ role[req[r].slug][req[r].user] \in {"manager", "admin"}
          /\ AtLeast(role[req[r].slug][req[r].user], req[r].role)

\* No two requests hold the same user, e-mail or slug.
PairOK(r, q) ==
    /\ Registering(r) /\ Registering(q) => req[r].user # req[q].user
    /\ HoldsEmail(r) /\ HoldsEmail(q) => req[r].email # req[q].email
    /\ HoldsSlug(r) /\ HoldsSlug(q) => req[r].slug # req[q].slug

Reservations == /\ \A r \in Request : SlotOK(r)
                /\ \A r, q \in Request : r # q => PairOK(r, q)

\* Accounts have ids that were drawn.
IdsDrawn == \A u \in User : Registered(u) => u \in drawn

\* A workspace has members once it is committed.
MembersOfTaken == \A s \in Slug \ taken, u \in User : role[s][u] = None

IInv == /\ TypeOK /\ Reservations /\ IdsDrawn /\ MembersOfTaken
        /\ EmailsUnique /\ NobodyStranded /\ KeysSpent

-----------------------------------------------------------------------------
\* The inductive invariant at the start.
LEMMA InitInv == Init => IInv
BY NoneIsNew DEF Init, IInv, TypeOK, Slot, Idle, Reservations, SlotOK, PairOK,
   Registering, HoldsEmail, HoldsSlug, Registered, IdsDrawn, EmailsUnique,
   MembersOfTaken, NobodyStranded, KeysSpent, InUse

\* An empty slot promises nothing.
LEMMA IdleSlot == Idle \in Slot /\ Idle.pc = "idle"
BY DEF Idle, Slot

\* A request that gives its slot back, and leaves the tables alone.
LEMMA DoneInv ==
    ASSUME IInv, NEW r \in Request, req' = Done(r),
           UNCHANGED <<tables, drawn, emverify>>
    PROVE  IInv'
<1> USE DEF IInv
<1>1. /\ req' \in [Request -> Slot] /\ req'[r].pc = "idle"
      /\ \A q \in Request \ {r} : req'[q] = req[q]
  BY IdleSlot DEF Done, TypeOK
<1>2. UNCHANGED <<email, taken, role, verified, drawn, emverify>>
  BY DEF tables
<1>3. TypeOK'
  BY <1>1, <1>2 DEF TypeOK, HoldsEmail, HoldsSlug
<1>4. Reservations'
  BY <1>1, <1>2 DEF Reservations, SlotOK, PairOK, Registering, HoldsEmail, HoldsSlug,
     Registered, InUse
<1> QED
  BY <1>2, <1>3, <1>4 DEF IdsDrawn, EmailsUnique, NobodyStranded, KeysSpent, Registered,
     MembersOfTaken

\* A request that goes on without a commit: it keeps the invariant if its new
\* slot does.
LEMMA GoOnInv ==
    ASSUME IInv, NEW r \in Request, NEW slot \in Slot,
           req' = [req EXCEPT ![r] = slot],
           UNCHANGED tables, drawn \subseteq drawn', drawn' \subseteq User,
           emverify' \subseteq User,
           \A u \in emverify' : u \in emverify \/ ~Registered(u),
           slot.pc # "idle" => slot.user \in User,
           slot.pc = "register" \/ HoldsEmail(r)' => slot.email \in Email,
           slot.pc \in {"named", "create", "invite"} \/ HoldsSlug(r)' =>
              slot.slug \in Slug,
           slot.pc = "invite" => slot.target \in User /\ slot.role \in Role,
           SlotOK(r)', \A q \in Request \ {r} : PairOK(r, q)'
    PROVE  IInv'
<1> USE DEF IInv
<1>1. /\ req' \in [Request -> Slot] /\ req'[r] = slot
      /\ \A q \in Request \ {r} : req'[q] = req[q]
  BY DEF TypeOK
<1>2. UNCHANGED <<email, taken, role, verified>>
  BY DEF tables
<1>3. TypeOK'
  BY <1>1, <1>2 DEF TypeOK, HoldsEmail, HoldsSlug
<1>4. \A q \in Request : SlotOK(q)'
  BY <1>1, <1>2 DEF TypeOK, Reservations, SlotOK, Registering, HoldsEmail, HoldsSlug,
     Registered, InUse
<1>5. \A p, q \in Request : p # q => PairOK(p, q)'
  BY <1>1, <1>2 DEF Reservations, PairOK, Registering, HoldsEmail, HoldsSlug
<1> QED
  BY <1>2, <1>3, <1>4, <1>5 DEF Reservations, IdsDrawn, EmailsUnique, NobodyStranded,
     KeysSpent, Registered, MembersOfTaken

\* The INSERTs: whoever holds the key has committed or was waited for.
LEMMA InsertInv ==
    ASSUME IInv, NEW r \in Request,
           InsertUser(r) \/ InsertWorkspace(r) \/ InsertCreated(r)
    PROVE  IInv'
<1> USE DEF IInv
<1>1. CASE req' = Done(r)
  <2>1. UNCHANGED <<tables, drawn, emverify>>
    BY DEF InsertUser, InsertWorkspace, InsertCreated
  <2> QED
    BY <1>1, <2>1, DoneInv
<1>2. CASE InsertUser(r) /\ req' # Done(r)
  <2> DEFINE slot == [req[r] EXCEPT !.pc = "user"]
  <2>1. /\ req[r].pc = "register" /\ Blockers(r) = {} /\ ~InUse(req[r].email)
        /\ req' = [req EXCEPT ![r] = slot] /\ UNCHANGED <<tables, drawn, emverify>>
    BY <1>2 DEF InsertUser, Goto
  <2>2. slot \in Slot /\ slot.pc = "user" /\ slot.user = req[r].user
        /\ slot.email = req[r].email
    BY DEF TypeOK, Slot
  <2> HIDE DEF slot
  <2>3. \A q \in Request : HoldsEmail(q) => req[q].email # req[r].email
    BY <2>1 DEF Blockers
  <2>4. SlotOK(r)' /\ \A q \in Request \ {r} : PairOK(r, q)'
    BY <2>1, <2>2, <2>3 DEF TypeOK, Reservations, SlotOK, PairOK, Registering,
       HoldsEmail, HoldsSlug, Registered, InUse, tables
  <2> QED
    BY <2>1, <2>2, <2>4, GoOnInv DEF TypeOK, Registering, HoldsEmail, HoldsSlug
<1>3. CASE (InsertWorkspace(r) \/ InsertCreated(r)) /\ req' # Done(r)
  <2>1. PICK pc \in {"workspace", "created"} :
          /\ pc = "workspace" => req[r].pc = "named"
          /\ pc = "created" => req[r].pc = "create"
          /\ Blockers(r) = {} /\ req[r].slug \notin taken
          /\ req' = [req EXCEPT ![r] = [req[r] EXCEPT !.pc = pc]]
          /\ UNCHANGED <<tables, drawn, emverify>>
    BY <1>3 DEF InsertWorkspace, InsertCreated, Goto
  <2> DEFINE slot == [req[r] EXCEPT !.pc = pc]
  <2>2. slot \in Slot /\ slot.pc = pc /\ slot.user = req[r].user
        /\ slot.email = req[r].email /\ slot.slug = req[r].slug
    BY DEF TypeOK, Slot
  <2>3. req' = [req EXCEPT ![r] = slot]
    BY <2>1
  <2> HIDE DEF slot
  <2>4. \A q \in Request : HoldsSlug(q) => req[q].slug # req[r].slug
    BY <2>1 DEF Blockers
  <2>5. SlotOK(r)' /\ \A q \in Request \ {r} : PairOK(r, q)'
    BY <2>1, <2>2, <2>3, <2>4 DEF TypeOK, Reservations, SlotOK, PairOK, Registering,
       HoldsEmail, HoldsSlug, Registered, InUse, tables
  <2> QED
    BY <2>1, <2>2, <2>3, <2>5, GoOnInv DEF TypeOK, Registering, HoldsEmail, HoldsSlug
<1> QED
  BY <1>1, <1>2, <1>3

\* The commits that make a workspace, with or without its first user.
LEMMA FoundInv ==
    ASSUME IInv, NEW r \in Request, CommitRegister(r) \/ CommitCreate(r)
    PROVE  IInv'
<1> USE DEF IInv
<1> DEFINE u == req[r].user
           s == req[r].slug
<1>1. /\ u \in User /\ s \in Slug /\ s \notin taken /\ HoldsSlug(r)
      /\ taken' = taken \cup {s}
      /\ role' = [role EXCEPT ![s][u] = "admin"]
      /\ UNCHANGED <<drawn, verified, emverify>>
      /\ req' = Done(r)
  BY DEF CommitRegister, CommitCreate, TypeOK, Reservations, SlotOK, HoldsSlug
<1>2. /\ req' \in [Request -> Slot] /\ req'[r].pc = "idle"
      /\ \A q \in Request \ {r} : req'[q] = req[q]
  BY <1>1, IdleSlot DEF Done, TypeOK
<1>3. \/ /\ HoldsEmail(r) /\ Registering(r) /\ req[r].email \in Email
         /\ ~InUse(req[r].email) /\ u \in drawn /\ ~Registered(u)
         /\ email' = [email EXCEPT ![u] = req[r].email]
      \/ Registered(u) /\ UNCHANGED email
  BY DEF CommitRegister, CommitCreate, TypeOK, Reservations, SlotOK, Registering,
     HoldsEmail
<1> HIDE DEF u, s
<1>4. /\ \A v \in User : Registered(v)' <=> Registered(v) \/ v = u
      /\ \A v \in User : v # u => email'[v] = email[v]
  BY <1>1, <1>3, NoneIsNew DEF TypeOK, Registered
<1>5. \A n \in Slug, v \in User :
         role'[n][v] = IF n = s /\ v = u THEN "admin" ELSE role[n][v]
  BY <1>1 DEF TypeOK
<1>6. role' \in [Slug -> [User -> Role \cup {None}]]
  BY <1>1 DEF TypeOK, Role
<1>7. TypeOK'
  BY <1>1, <1>2, <1>3, <1>6 DEF TypeOK, HoldsEmail, HoldsSlug
<1>8. \A q \in Request : SlotOK(q)'
  <2> SUFFICES ASSUME NEW q \in Request PROVE SlotOK(q)'
    OBVIOUS
  <2>1. CASE q = r
    BY <1>2, <2>1 DEF SlotOK, Registering, HoldsEmail, HoldsSlug
  <2>2. CASE q # r
    <3>1. req'[q] = req[q] /\ SlotOK(q) /\ PairOK(r, q) /\ PairOK(q, r)
      BY <1>2, <2>2 DEF Reservations
    <3>2. Registering(q) => req[q].user \in User
      BY DEF TypeOK, Registering, HoldsEmail
    <3>3. (Registering(q) => req[q].user \in drawn /\ ~Registered(req[q].user))'
      BY <1>1, <1>3, <1>4, <3>1, <3>2 DEF SlotOK, PairOK, Registering, HoldsEmail, u,
         Registered
    <3>4. (HoldsEmail(q) => ~InUse(req[q].email))'
      BY <1>3, <1>4, <3>1 DEF SlotOK, PairOK, HoldsEmail, InUse, TypeOK, u
    <3>5. (HoldsSlug(q) => req[q].slug \notin taken)'
      BY <1>1, <3>1 DEF SlotOK, PairOK, HoldsSlug, s
    <3>6. (req[q].pc \in {"create", "created", "verify", "unkeyed"} =>
              Registered(req[q].user))'
      BY <1>4, <3>1 DEF SlotOK, TypeOK
    <3>7. (req[q].pc = "unkeyed" => req[q].user \notin emverify)'
      BY <1>1, <3>1 DEF SlotOK
    <3>8. (req[q].pc = "invite" =>
              /\ req[q].slug \in taken
              /\ role[req[q].slug][req[q].user] \in {"manager", "admin"}
              /\ AtLeast(role[req[q].slug][req[q].user], req[q].role))'
      BY <1>1, <1>5, <3>1 DEF SlotOK, TypeOK, AtLeast
    <3> QED
      BY <3>3, <3>4, <3>5, <3>6, <3>7, <3>8 DEF SlotOK
  <2> QED
    BY <2>1, <2>2
<1>9. \A p, q \in Request : p # q => PairOK(p, q)'
  BY <1>2 DEF Reservations, PairOK, Registering, HoldsEmail, HoldsSlug
<1>10. IdsDrawn'
  BY <1>1, <1>3, <1>4 DEF IdsDrawn, Registered
<1>11. EmailsUnique'
  BY <1>1, <1>3, <1>4 DEF EmailsUnique, TypeOK, Registered, InUse
<1>12. NobodyStranded'
  <2>1. \A v \in User : Registered(v)' => \E n \in taken' : role'[n][v] = "admin"
    BY <1>1, <1>4, <1>5 DEF NobodyStranded, TypeOK
  <2>2. \A n \in taken' : \E v \in User : Registered(v)' /\ role'[n][v] = "admin"
    BY <1>1, <1>4, <1>5 DEF NobodyStranded, TypeOK
  <2> QED
    BY <2>1, <2>2 DEF NobodyStranded, Registered
<1>13. KeysSpent'
  BY <1>1, <1>4 DEF KeysSpent, Registered, TypeOK
<1>14. MembersOfTaken'
  BY <1>1, <1>5 DEF MembersOfTaken
<1> QED
  BY <1>7, <1>8, <1>9, <1>10, <1>11, <1>12, <1>13, <1>14 DEF Reservations

\* A request that begins with a fresh slot.
LEMMA BeginInv ==
    ASSUME IInv, NEW r \in Request,
           \/ \E u \in User, e \in Email : BeginRegister(r, u, e)
           \/ \E u \in User, s \in Slug : BeginCreate(r, u, s)
           \/ \E u \in User : BeginVerify(r, u)
           \/ \E s \in Slug, u, v \in User, g \in Role : BeginInvite(r, s, u, v, g)
    PROVE  IInv'
<1> USE DEF IInv
<1>1. ASSUME NEW u \in User, NEW e \in Email,
             BeginRegister(r, u, e)
      PROVE  IInv'
  <2> DEFINE slot == [Idle EXCEPT !.pc = "register", !.user = u, !.email = e]
  <2>1. slot \in Slot /\ slot.pc = "register" /\ slot.user = u /\ slot.email = e
    BY DEF Slot, Idle
  <2>2. /\ u \notin drawn /\ drawn' = drawn \cup {u}
        /\ req' = [req EXCEPT ![r] = slot] /\ UNCHANGED <<tables, emverify>>
    BY <1>1 DEF BeginRegister
  <2> HIDE DEF slot
  <2>3. SlotOK(r)' /\ \A q \in Request \ {r} : PairOK(r, q)'
    BY <2>1, <2>2 DEF TypeOK, Reservations, SlotOK, PairOK, Registering, HoldsEmail,
       HoldsSlug, Registered, IdsDrawn, tables
  <2> QED
    BY <2>1, <2>2, <2>3, GoOnInv DEF TypeOK, HoldsEmail, HoldsSlug
<1>2. ASSUME NEW u \in User, NEW s \in Slug,
             BeginCreate(r, u, s)
      PROVE  IInv'
  <2> DEFINE slot == [Idle EXCEPT !.pc = "create", !.user = u, !.slug = s]
  <2>1. slot \in Slot /\ slot.pc = "create" /\ slot.user = u /\ slot.slug = s
    BY DEF Slot, Idle
  <2>2. /\ Registered(u) /\ req' = [req EXCEPT ![r] = slot]
        /\ UNCHANGED <<tables, drawn, emverify>>
    BY <1>2 DEF BeginCreate
  <2> HIDE DEF slot
  <2>3. SlotOK(r)' /\ \A q \in Request \ {r} : PairOK(r, q)'
    BY <2>1, <2>2 DEF TypeOK, SlotOK, PairOK, Registering, HoldsEmail, HoldsSlug,
       Registered, tables
  <2> QED
    BY <2>1, <2>2, <2>3, GoOnInv DEF TypeOK, HoldsEmail, HoldsSlug
<1>3. ASSUME NEW u \in User,
             BeginVerify(r, u)
      PROVE  IInv'
  <2> DEFINE slot == [Idle EXCEPT !.pc = "verify", !.user = u]
  <2>1. slot \in Slot /\ slot.pc = "verify" /\ slot.user = u
    BY DEF Slot, Idle
  <2>2. /\ Registered(u) /\ req' = [req EXCEPT ![r] = slot]
        /\ UNCHANGED <<tables, drawn, emverify>>
    BY <1>3 DEF BeginVerify
  <2> HIDE DEF slot
  <2>3. SlotOK(r)' /\ \A q \in Request \ {r} : PairOK(r, q)'
    BY <2>1, <2>2 DEF TypeOK, SlotOK, PairOK, Registering, HoldsEmail, HoldsSlug,
       Registered, tables
  <2> QED
    BY <2>1, <2>2, <2>3, GoOnInv DEF TypeOK, HoldsEmail, HoldsSlug
<1>4. ASSUME NEW s \in Slug, NEW u \in User, NEW v \in User, NEW g \in Role,
             BeginInvite(r, s, u, v, g)
      PROVE  IInv'
  <2> DEFINE slot == [Idle EXCEPT !.pc = "invite", !.user = u, !.slug = s,
                                  !.target = v, !.role = g]
  <2>1. /\ slot \in Slot /\ slot.pc = "invite" /\ slot.user = u /\ slot.slug = s
        /\ slot.target = v /\ slot.role = g
    BY DEF Slot, Idle
  <2>2. /\ s \in taken /\ role[s][u] \in {"manager", "admin"} /\ AtLeast(role[s][u], g)
        /\ req' = [req EXCEPT ![r] = slot] /\ UNCHANGED <<tables, drawn, emverify>>
    BY <1>4, NoneIsNew DEF BeginInvite, AtLeast, TypeOK, Role
  <2> HIDE DEF slot
  <2>3. SlotOK(r)' /\ \A q \in Request \ {r} : PairOK(r, q)'
    BY <2>1, <2>2 DEF TypeOK, SlotOK, PairOK, Registering, HoldsEmail, HoldsSlug,
       Registered, tables
  <2> QED
    BY <2>1, <2>2, <2>3, GoOnInv DEF TypeOK, HoldsEmail, HoldsSlug
<1> QED
  BY <1>1, <1>2, <1>3, <1>4

\* The steps between the flushes: the slug is found, the keys set and deleted.
LEMMA MiddleInv ==
    ASSUME IInv, NEW r \in Request, PickSlug(r) \/ SetKey(r) \/ DeleteKey(r)
    PROVE  IInv'
<1> USE DEF IInv
<1>1. CASE PickSlug(r)
  <2>1. PICK s \in Slug : req' = [req EXCEPT ![r].pc = "named", ![r].slug = s]
    BY <1>1 DEF PickSlug
  <2> DEFINE slot == [req[r] EXCEPT !.pc = "named", !.slug = s]
  <2>2. /\ slot \in Slot /\ slot.pc = "named" /\ slot.slug = s
        /\ slot.user = req[r].user /\ slot.email = req[r].email
    BY DEF TypeOK, Slot
  <2>3. /\ req[r].pc = "user" /\ req' = [req EXCEPT ![r] = slot]
        /\ UNCHANGED <<tables, drawn, emverify>>
    BY <1>1, <2>1 DEF PickSlug, TypeOK
  <2> HIDE DEF slot
  <2>4. SlotOK(r)' /\ \A q \in Request \ {r} : PairOK(r, q)'
    BY <2>2, <2>3 DEF TypeOK, Reservations, SlotOK, PairOK, Registering, HoldsEmail,
       HoldsSlug, Registered, InUse, tables
  <2> QED
    BY <2>2, <2>3, <2>4, GoOnInv DEF TypeOK, HoldsEmail, HoldsSlug
<1>2. CASE SetKey(r)
  <2> DEFINE slot == [req[r] EXCEPT !.pc = "keyed"]
  <2>1. /\ slot \in Slot /\ slot.pc = "keyed" /\ slot.slug = req[r].slug
        /\ slot.user = req[r].user /\ slot.email = req[r].email
    BY DEF TypeOK, Slot
  <2>2. /\ req[r].pc = "workspace" /\ req' = [req EXCEPT ![r] = slot]
        /\ emverify' = emverify \cup {req[r].user} /\ UNCHANGED <<tables, drawn>>
    BY <1>2 DEF SetKey, Goto
  <2> HIDE DEF slot
  <2>3. req[r].user \in User /\ ~Registered(req[r].user)
    BY <2>2 DEF TypeOK, Reservations, SlotOK, Registering, HoldsEmail
  <2>4. SlotOK(r)' /\ \A q \in Request \ {r} : PairOK(r, q)'
    BY <2>1, <2>2 DEF TypeOK, Reservations, SlotOK, PairOK, Registering, HoldsEmail,
       HoldsSlug, Registered, InUse, tables
  <2> QED
    BY <2>1, <2>2, <2>3, <2>4, GoOnInv DEF TypeOK, HoldsEmail, HoldsSlug
<1>3. CASE DeleteKey(r)
  <2> DEFINE slot == [req[r] EXCEPT !.pc = "unkeyed"]
  <2>1. slot \in Slot /\ slot.pc = "unkeyed" /\ slot.user = req[r].user
    BY DEF TypeOK, Slot
  <2>2. /\ req[r].pc = "verify" /\ req' = [req EXCEPT ![r] = slot]
        /\ emverify' = emverify \ {req[r].user} /\ UNCHANGED <<tables, drawn>>
    BY <1>3 DEF DeleteKey, Goto
  <2> HIDE DEF slot
  <2>3. SlotOK(r)' /\ \A q \in Request \ {r} : PairOK(r, q)'
    BY <2>1, <2>2 DEF TypeOK, Reservations, SlotOK, PairOK, Registering, HoldsEmail,
       HoldsSlug, Registered, tables
  <2> QED
    BY <2>1, <2>2, <2>3, GoOnInv DEF TypeOK, HoldsEmail, HoldsSlug
<1> QED
  BY <1>1, <1>2, <1>3

\* The commit of a verification: the key is gone, and nobody sets another.
LEMMA VerifyInv ==
    ASSUME IInv, NEW r \in Request, CommitVerify(r)
    PROVE  IInv'
<1> USE DEF IInv
<1>1. /\ req[r].pc = "unkeyed" /\ verified' = verified \cup {req[r].user}
      /\ req' = Done(r) /\ UNCHANGED <<email, taken, role, drawn, emverify>>
  BY DEF CommitVerify
<1>2. /\ req' \in [Request -> Slot] /\ req'[r].pc = "idle"
      /\ \A q \in Request \ {r} : req'[q] = req[q]
  BY <1>1, IdleSlot DEF Done, TypeOK
<1>3. /\ req[r].user \in User /\ Registered(req[r].user)
      /\ req[r].user \notin emverify
  BY <1>1 DEF TypeOK, Reservations, SlotOK
<1>4. TypeOK'
  BY <1>1, <1>2, <1>3 DEF TypeOK, HoldsEmail, HoldsSlug
<1>5. Reservations'
  BY <1>1, <1>2 DEF Reservations, SlotOK, PairOK, Registering, HoldsEmail, HoldsSlug,
     Registered, InUse
<1>6. KeysSpent'
  BY <1>1, <1>3 DEF KeysSpent, Registered
<1> QED
  BY <1>1, <1>4, <1>5, <1>6 DEF IdsDrawn, EmailsUnique, NobodyStranded, Registered,
     MembersOfTaken

\* The commit of an invitation adds a membership, or nothing.
LEMMA InviteInv ==
    ASSUME IInv, NEW r \in Request, CommitInvite(r)
    PROVE  IInv'
<1> USE DEF IInv
<1> DEFINE s == req[r].slug
           v == req[r].target
<1>1. /\ s \in Slug /\ v \in User /\ req[r].role \in Role /\ req' = Done(r)
      /\ UNCHANGED <<email, taken, verified, drawn, emverify>>
      /\ role' = IF role[s][v] # None THEN role
                  ELSE [role EXCEPT ![s][v] = req[r].role]
  BY DEF CommitInvite, TypeOK
<1>2. /\ req' \in [Request -> Slot] /\ req'[r].pc = "idle"
      /\ \A q \in Request \ {r} : req'[q] = req[q]
  BY <1>1, IdleSlot DEF Done, TypeOK
<1> HIDE DEF s, v
<1>3. /\ role' \in [Slug -> [User -> Role \cup {None}]]
      /\ \A n \in Slug, u \in User : role[n][u] # None => role'[n][u] = role[n][u]
  BY <1>1 DEF TypeOK
<1>4. TypeOK'
  BY <1>1, <1>2, <1>3 DEF TypeOK, HoldsEmail, HoldsSlug
<1>5. \A q \in Request : SlotOK(q)'
  BY <1>1, <1>2, <1>3, NoneIsNew DEF TypeOK, Reservations, SlotOK, Registering,
     HoldsEmail, HoldsSlug, Registered, InUse, Role, AtLeast
<1>6. \A p, q \in Request : p # q => PairOK(p, q)'
  BY <1>2 DEF Reservations, PairOK, Registering, HoldsEmail, HoldsSlug
<1>7. NobodyStranded'
  BY <1>1, <1>3, NoneIsNew DEF NobodyStranded, TypeOK, Role, Registered
<1>8. s \in taken
  BY DEF CommitInvite, Reservations, SlotOK, s
<1>9. MembersOfTaken'
  BY <1>1, <1>8 DEF MembersOfTaken, TypeOK
<1> QED
  BY <1>1, <1>4, <1>5, <1>6, <1>7, <1>9 DEF Reservations, IdsDrawn, EmailsUnique, KeysSpent,
     Registered

\* Keys only go when Redis drops them.
LEMMA ExpireInv ==
    ASSUME IInv, NEW u \in User, KeyExpires(u)
    PROVE  IInv'
<1>1. /\ emverify' = emverify \ {u} /\ UNCHANGED <<drawn, req>>
      /\ UNCHANGED <<email, taken, role, verified>>
  BY DEF KeyExpires, tables
<1>2. TypeOK'
  BY <1>1 DEF IInv, TypeOK, HoldsEmail, HoldsSlug
<1>3. Reservations'
  BY <1>1 DEF IInv, Reservations, SlotOK, PairOK, Registering, HoldsEmail, HoldsSlug,
     Registered, InUse
<1> QED
  BY <1>1, <1>2, <1>3 DEF IInv, IdsDrawn, EmailsUnique, NobodyStranded, KeysSpent,
     Registered, MembersOfTaken

\* The inductive invariant over a step.
LEMMA StepInv == IInv /\ [Next]_vars => IInv'
<1> SUFFICES ASSUME IInv, [Next]_vars PROVE IInv'
  OBVIOUS
<1>1. ASSUME NEW r \in Request, Abort(r) PROVE IInv'
  BY <1>1, DoneInv DEF Abort
<1>2. CASE UNCHANGED vars
  <2>1. UNCHANGED <<email, taken, role, verified, drawn, emverify, req>>
    BY <1>2 DEF vars
  <2> QED
    BY <2>1 DEF IInv, TypeOK, Reservations, SlotOK, PairOK, Registering, HoldsEmail,
       HoldsSlug, Registered, InUse, IdsDrawn, EmailsUnique, NobodyStranded, KeysSpent,
       MembersOfTaken
<1> QED
  BY <1>1, <1>2, BeginInv, InsertInv, FoundInv, MiddleInv, VerifyInv, InviteInv, ExpireInv
  DEF Next

\* The inductive invariant holds throughout.
THEOREM Invariance == Spec => []IInv
BY InitInv, StepInv, PTL DEF Spec

\* The type invariant.
THEOREM TypeCorrect == Spec => []TypeOK
BY Invariance, PTL DEF IInv

\* No two accounts share an e-mail: of the registrations that found it unused
\* only one holds it at a time, and it is unused while it does.
THEOREM EmailsHold == Spec => []EmailsUnique
BY Invariance, PTL DEF IInv

\* Every account administers a workspace and every workspace is administered.
THEOREM StrandedHolds == Spec => []NobodyStranded
BY Invariance, PTL DEF IInv

\* A key works once, and for committed users only.
THEOREM KeysHold == Spec => []KeysSpent
BY Invariance, PTL DEF IInv

\* A transaction waits for an e-mail before it has its slug, and for a slug
\* whose holder waits for nothing, so no circle can close.
THEOREM NoWaitHolds == Spec => []NoWaitCycle
<1>1. NoWaitCycle
  BY DEF NoWaitCycle, Blockers, HoldsEmail, HoldsSlug
<1> QED
  BY <1>1, PTL

-----------------------------------------------------------------------------
\* A membership appears, and is never replaced, by the commit of the request
\* that founds its workspace or of an invitation whose sender's role covers it.
THEOREM GrantsHold == Spec => GrantsAreBounded
<1> DEFINE Bounded(s, u) ==
       /\ role[s][u] = None
       /\ \E r \in Request : /\ req[r].slug = s /\ req'[r] = Idle
                             /\ Founds(r, s, u) \/ Grants(r, s, u)
<1>1. IInv /\ [Next]_vars =>
         [\A s \in Slug, u \in User : role'[s][u] # role[s][u] => Bounded(s, u)]_vars
  <2> SUFFICES ASSUME IInv, Next, NEW s \in Slug, NEW u \in User,
                      role'[s][u] # role[s][u]
               PROVE  Bounded(s, u)
    OBVIOUS
  \* Nothing else writes the memberships.
  <2> DEFINE Writes(r) == CommitRegister(r) \/ CommitCreate(r) \/ CommitInvite(r)
  <2>0. (\E r \in Request : Writes(r)) \/ UNCHANGED role
    BY DEF Next, tables, BeginRegister, BeginCreate, BeginVerify, BeginInvite,
       InsertUser, PickSlug, InsertWorkspace, SetKey, DeleteKey, CommitVerify,
       InsertCreated, Abort, KeyExpires
  <2> USE DEF IInv
  <2>1. ASSUME NEW r \in Request, CommitRegister(r) \/ CommitCreate(r)
        PROVE  Bounded(s, u)
    <3>1. /\ req[r].slug \notin taken /\ HoldsSlug(r)
          /\ role' = [role EXCEPT ![req[r].slug][req[r].user] = "admin"]
          /\ req'[r] = Idle
      BY <2>1 DEF Reservations, SlotOK, HoldsSlug, CommitRegister, CommitCreate, Done,
         TypeOK
    <3>2. req[r].slug = s /\ req[r].user = u /\ role'[s][u] = "admin"
      BY <3>1 DEF TypeOK
    <3>3. role[s][u] = None
      BY <3>1, <3>2 DEF MembersOfTaken
    <3> QED
      BY <3>1, <3>2, <3>3 DEF Founds
  <2>2. ASSUME NEW r \in Request, CommitInvite(r) PROVE Bounded(s, u)
    <3>1. /\ req[r].pc = "invite" /\ req[r].slug \in taken /\ req'[r] = Idle
          /\ req[r].role \in Role
          /\ role[req[r].slug][req[r].user] \in {"manager", "admin"}
          /\ AtLeast(role[req[r].slug][req[r].user], req[r].role)
      BY <2>2 DEF CommitInvite, TypeOK, Reservations, SlotOK, Done
    <3>2. /\ req[r].slug = s /\ req[r].target = u /\ role[s][u] = None
          /\ role'[s][u] = req[r].role
      BY <2>2, <3>1 DEF CommitInvite, TypeOK
    <3>3. Grants(r, s, u)
      BY <3>1, <3>2 DEF Grants, AtLeast, Role
    <3> QED
      BY <3>1, <3>2, <3>3
  <2> QED
    BY <2>0, <2>1, <2>2 DEF Writes
<1> QED
  BY <1>1, Invariance, PTL DEF Spec, GrantsAreBounded
=============================================================================
