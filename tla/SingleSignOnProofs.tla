------------------------- MODULE SingleSignOnProofs -------------------------
(***************************************************************************)
(* Proofs about SingleSignOn, for any accounts, subjects, groups, logins,  *)
(* requests and bound: its type invariant, that an account stands for one  *)
(* subject and never for one that somebody has signed up for, that a       *)
(* bootstrap administrator stays local, that logins take no local          *)
(* membership away, and that those that nothing crosses leave the          *)
(* memberships of their claims.                                            *)
(***************************************************************************)
EXTENDS SingleSignOn, TLAPS

\* A login that has made a user has it for itself: it has no password, no
\* subject and no other login, and it was no bootstrap administrator before.
Makes(l) ==
    LET e == login[l].email IN
    /\ users[e] # None /\ ~users[e].password
    /\ e \notin login[l].marked
    /\ \A s \in Subject : identity[s] # e
    /\ \A k \in Login : At(k, "identify") /\ login[k].email = e => k = l

\* Marks are for ever, so that those of a login are among today's.
AccountInv ==
    /\ OneAccountPerSubject /\ BootstrapStaysLocal
    /\ \A l \in Login : At(l, "identify") => Makes(l)
    /\ \A l \in Login : login[l] # None => login[l].marked \subseteq Bootstrap

Inv == TypeOK /\ AccountInv

\* The initial state satisfies the inductive invariant.
LEMMA InitInv == Init => Inv
<1> SUFFICES ASSUME Init PROVE Inv
  OBVIOUS
<1>1. TypeOK
  BY NoneAssumption DEF Init, TypeOK, LoginOK, Source
<1>2. AccountInv
  BY NoneAssumption
     DEF Init, AccountInv, OneAccountPerSubject, BootstrapStaysLocal, At
<1> QED
  BY <1>1, <1>2 DEF Inv

-----------------------------------------------------------------------------
(* The type invariant.                                                     *)

\* What a login was given and what it has found keep their types while it goes
\* from one statement to the next.
LEMMA GoesType ==
    ASSUME LoginOK, NEW l \in Login, login[l] # None,
           NEW to \in {"email", "create", "identify", "list", "add"}, Goes(l, to),
           to \in {"list", "add"} <=> Syncs(l)
    PROVE  LoginOK'
<1>1. login'[l] \in LoginRow /\ login'[l] = [login[l] EXCEPT !.stage = to]
  BY DEF LoginOK, Goes, LoginRow, Stage
<1>2. \A k \in Login \ {l} : login'[k] = login[k]
  BY DEF LoginOK, Goes
<1>3. login' \in [Login -> LoginRow \cup {None}]
  BY <1>1, <1>2 DEF LoginOK, Goes
<1>4. login[l] \in LoginRow
  BY DEF LoginOK
<1> QED
  BY <1>1, <1>2, <1>3, <1>4 DEF LoginOK, Syncs, At, LoginRow

\* A login that ends leaves the others as they are.
LEMMA EndsType == ASSUME LoginOK, NEW l \in Login, Ends(l) PROVE LoginOK'
BY DEF LoginOK, Ends, Syncs, At

\* A login that has found an account begins to synchronize it.
LEMMA ResolvedType ==
    ASSUME LoginOK, NEW l \in Login, login[l] # None, NEW e \in Email, Resolved(l, e)
    PROVE  LoginOK'
<1>1. login'[l] \in LoginRow /\ login'[l].stage = "map" /\ login'[l].user = e
  BY DEF LoginOK, Resolved, LoginRow, Stage
<1>2. \A k \in Login \ {l} : login'[k] = login[k]
  BY DEF LoginOK, Resolved
<1>3. login' \in [Login -> LoginRow \cup {None}]
  BY <1>1, <1>2 DEF LoginOK, Resolved
<1> QED
  BY <1>1, <1>2, <1>3 DEF LoginOK, Syncs, At

\* Whatever is not a login keeps the types.
LEMMA OthersType ==
    ASSUME TypeOK,
           \/ \E e \in Email : Register(e) \/ MarkBootstrap(e)
           \/ Administers
    PROVE  TypeOK'
<1> USE NoneAssumption DEF Changes, accounts, tables, Answers, Administration
<1>1. login' = login /\ changes' \in 0 .. MaxChanges
  <2>1. Changes \/ UNCHANGED <<login, changes>>
    BY DEF Register, MarkBootstrap, Administers, Configure, CreateGroup,
           DeleteGroup, RevokeProjectGrant, RemoveMember, RemoveOIDCMapping, Checks,
           AddMember, AddOIDCMapping, GrantProject
  <2> QED
    BY <2>1 DEF TypeOK
<1>2. LoginOK'
  BY <1>1 DEF TypeOK, LoginOK, Syncs, At
<1>3. ASSUME NEW e \in Email, Register(e) \/ MarkBootstrap(e)
      PROVE  TypeOK'
  <2>1. users' \in [Email -> AccountRow \cup {None}]
    <3>1. Account(TRUE) \in AccountRow
      BY DEF Account, AccountRow
    <3>2. users[e] # None =>
              [password |-> users[e].password, bootstrap |-> TRUE] \in AccountRow
      BY DEF TypeOK, AccountRow
    <3> QED
      BY <1>3, <3>1, <3>2 DEF TypeOK, Register, MarkBootstrap
  <2> QED
    BY <1>1, <1>2, <1>3, <2>1 DEF TypeOK, Register, MarkBootstrap
<1>4. ASSUME NEW mode \in {"off", "strict", "jit"}, Configure(mode)
      PROVE  TypeOK'
  BY <1>1, <1>2, <1>4 DEF TypeOK, Configure
<1>5. ASSUME NEW g \in Group, CreateGroup(g)
      PROVE  TypeOK'
  BY <1>1, <1>2, <1>5 DEF TypeOK, CreateGroup
<1>6. ASSUME NEW g \in Group, DeleteGroup(g)
      PROVE  TypeOK'
  BY <1>1, <1>2, <1>6 DEF TypeOK, DeleteGroup, Source
<1>7. ASSUME NEW g \in Group, RevokeProjectGrant(g)
      PROVE  TypeOK'
  BY <1>1, <1>2, <1>7 DEF TypeOK, RevokeProjectGrant
<1>8. ASSUME NEW m \in Group \X Email, RemoveMember(m)
      PROVE  TypeOK'
  BY <1>1, <1>2, <1>8 DEF TypeOK, RemoveMember, Source
<1>9. ASSUME NEW m \in mappings, RemoveOIDCMapping(m)
      PROVE  TypeOK'
  BY <1>1, <1>2, <1>9 DEF TypeOK, RemoveOIDCMapping
<1>10. ASSUME NEW r \in Request, NEW ask \in Asks, Checks(r, ask)
       PROVE  TypeOK'
  BY <1>1, <1>2, <1>10 DEF TypeOK, Checks
<1>11. ASSUME NEW r \in Request, AddMember(r)
       PROVE  TypeOK'
  BY <1>1, <1>2, <1>11 DEF TypeOK, AddMember, Source
<1>12. ASSUME NEW r \in Request, AddOIDCMapping(r)
       PROVE  TypeOK'
  <2>1. request[r].group \in Group /\ request[r].external \in External
    BY <1>12 DEF TypeOK, AddOIDCMapping, Asks
  <2> QED
    BY <1>1, <1>2, <1>12, <2>1 DEF TypeOK, AddOIDCMapping
<1>13. ASSUME NEW r \in Request, GrantProject(r)
       PROVE  TypeOK'
  <2>1. request[r].group \in Group
    BY <1>13 DEF TypeOK, GrantProject, Asks
  <2> QED
    BY <1>1, <1>2, <1>13, <2>1 DEF TypeOK, GrantProject
<1> QED
  BY <1>3, <1>4, <1>5, <1>6, <1>7, <1>8, <1>9, <1>10, <1>11, <1>12, <1>13
     DEF Administers

\* Every statement of a login keeps the types.
LEMMA LoginsType ==
    ASSUME TypeOK, NEW l \in Login, Resolves(l) \/ Synchronizes(l) \/ Fails(l)
    PROVE  TypeOK'
<1> USE NoneAssumption DEF accounts, tables
<1>0. LoginOK
  BY DEF TypeOK
<1>1. ASSUME NEW s \in Subject, NEW e \in Email, NEW claims \in SUBSET External,
             Callback(l, s, e, claims)
      PROVE  TypeOK'
  <2>1. login'[l] \in LoginRow /\ login'[l].stage = "find"
        /\ login'[l].subject = s /\ login'[l].email = e
    BY <1>0, <1>1 DEF LoginOK, Callback, LoginRow, Stage, Bootstrap
  <2>2. login' \in [Login -> LoginRow \cup {None}]
        /\ \A k \in Login \ {l} : login'[k] = login[k]
    BY <1>0, <1>1, <2>1 DEF LoginOK, Callback
  <2>3. LoginOK'
    BY <1>0, <2>1, <2>2 DEF LoginOK, Syncs, At
  <2> QED
    BY <1>1, <2>3 DEF TypeOK, Callback
<1>2. CASE FindIdentity(l)
  <2>1. LoginOK'
    <3> DEFINE e == identity[login[l].subject]
    <3>1. login[l] # None /\ ~Syncs(l) /\ e \in Email \cup {None}
      BY <1>0, <1>2 DEF TypeOK, FindIdentity, LoginOK, At, Syncs
    <3>2. Goes(l, "email") \/ Ends(l) \/ (e # None /\ Resolved(l, e))
      BY <1>2 DEF FindIdentity
    <3> HIDE DEF e
    <3> QED
      BY <1>0, <3>1, <3>2, GoesType, EndsType, ResolvedType
  <2> QED
    BY <1>2, <2>1 DEF TypeOK, FindIdentity
<1>3. CASE FindEmail(l)
  <2>1. LoginOK'
    BY <1>0, <1>3, GoesType, EndsType DEF FindEmail, At, Syncs
  <2> QED
    BY <1>3, <2>1 DEF TypeOK, FindEmail
<1>4. CASE CreateUser(l)
  <2>1. LoginOK'
    BY <1>0, <1>4, GoesType, EndsType DEF CreateUser, At, Syncs
  <2> QED
    <3>1. login[l].email \in Email
      BY <1>0, <1>4 DEF CreateUser, LoginOK, At, Syncs
    <3>2. users' \in [Email -> AccountRow \cup {None}]
      <4>1. Account(FALSE) \in AccountRow
        BY DEF Account, AccountRow
      <4> QED
        BY <1>4, <3>1, <4>1 DEF TypeOK, CreateUser
    <3> QED
      BY <1>4, <2>1, <3>2 DEF TypeOK, CreateUser
<1>5. CASE CreateIdentity(l)
  <2>1. login[l] # None /\ login[l].email \in Email
    BY <1>0, <1>5 DEF CreateIdentity, LoginOK, At, Syncs
  <2>2. LoginOK'
    BY <1>0, <1>5, <2>1, EndsType, ResolvedType DEF CreateIdentity
  <2> QED
    BY <1>5, <2>1, <2>2 DEF TypeOK, CreateIdentity
<1>6. CASE ListMapped(l)
  <2>1. login'[l] \in LoginRow /\ login'[l].stage = "list"
        /\ login'[l].user = login[l].user /\ Syncs(l)
    BY <1>0, <1>6 DEF LoginOK, ListMapped, LoginRow, Stage, Mapped, At, Syncs
  <2>2. login' \in [Login -> LoginRow \cup {None}]
        /\ \A k \in Login \ {l} : login'[k] = login[k]
    BY <1>0, <1>6, <2>1 DEF LoginOK, ListMapped
  <2>3. LoginOK'
    BY <1>0, <1>6, <2>1, <2>2 DEF LoginOK, Syncs, At, ListMapped
  <2> QED
    BY <1>6, <2>3 DEF TypeOK, ListMapped
<1>7. CASE ListExisting(l)
  <2>1. login'[l] \in LoginRow /\ login'[l].stage = "add"
        /\ login'[l].user = login[l].user /\ Syncs(l)
    BY <1>0, <1>7 DEF LoginOK, ListExisting, LoginRow, Stage, FromProvider, At, Syncs
  <2>2. login' \in [Login -> LoginRow \cup {None}]
        /\ \A k \in Login \ {l} : login'[k] = login[k]
    BY <1>0, <1>7, <2>1 DEF LoginOK, ListExisting
  <2>3. LoginOK'
    BY <1>0, <1>7, <2>1, <2>2 DEF LoginOK, Syncs, At, ListExisting
  <2> QED
    BY <1>7, <2>3 DEF TypeOK, ListExisting
<1>8. ASSUME NEW g \in Group, FindMember(l, g)
      PROVE  TypeOK'
  <2>1. login'[l] \in LoginRow /\ login'[l].stage \in {"add", "insert"}
        /\ login'[l].user = login[l].user /\ Syncs(l)
        /\ (login'[l].stage = "insert" => login'[l].adding = g)
    <3>1. login[l] \in LoginRow /\ Syncs(l) /\ login[l].stage = "add"
      BY <1>0, <1>8 DEF LoginOK, FindMember, At, Syncs
    <3>2. CASE members[<<g, login[l].user>>] # None
      <4>1. login'[l] = [login[l] EXCEPT !.desired = @ \ {g}]
        BY <1>0, <1>8, <3>2 DEF LoginOK, FindMember
      <4> QED
        BY <3>1, <4>1 DEF LoginRow
    <3>3. CASE members[<<g, login[l].user>>] = None
      <4>1. login'[l] = [login[l] EXCEPT !.stage = "insert", !.adding = g]
        BY <1>0, <1>8, <3>3 DEF LoginOK, FindMember
      <4> QED
        BY <3>1, <4>1 DEF LoginRow, Stage
    <3> QED
      BY <3>2, <3>3
  <2>2. login' \in [Login -> LoginRow \cup {None}]
        /\ \A k \in Login \ {l} : login'[k] = login[k]
    BY <1>0, <1>8, <2>1 DEF LoginOK, FindMember
  <2>3. LoginOK'
    BY <1>0, <1>8, <2>1, <2>2 DEF LoginOK, Syncs, At, FindMember
  <2> QED
    BY <1>8, <2>3 DEF TypeOK, FindMember
<1>9. CASE AddOIDCMember(l)
  <2>1. CASE members[<<login[l].adding, login[l].user>>] = None
    <3>1. login'[l] \in LoginRow /\ login'[l].stage = "add"
          /\ login'[l].user = login[l].user /\ Syncs(l)
      BY <1>0, <1>9, <2>1 DEF LoginOK, AddOIDCMember, LoginRow, Stage, At, Syncs
    <3>2. login' \in [Login -> LoginRow \cup {None}]
          /\ \A k \in Login \ {l} : login'[k] = login[k]
      BY <1>0, <1>9, <2>1, <3>1 DEF LoginOK, AddOIDCMember
    <3>3. LoginOK'
      BY <1>0, <1>9, <3>1, <3>2 DEF LoginOK, Syncs, At, AddOIDCMember
    <3> QED
      BY <1>9, <2>1, <3>3 DEF TypeOK, AddOIDCMember, Source
  <2>2. CASE members[<<login[l].adding, login[l].user>>] # None
    <3>1. LoginOK'
      BY <1>0, <1>9, <2>2, EndsType DEF AddOIDCMember
    <3> QED
      BY <1>9, <2>2, <3>1 DEF TypeOK, AddOIDCMember
  <2> QED
    BY <2>1, <2>2
<1>10. ASSUME NEW g \in Group, RemoveOIDCMember(l, g)
       PROVE  TypeOK'
  <2>1. login'[l] \in LoginRow /\ login'[l].stage = "add"
        /\ login'[l].user = login[l].user /\ Syncs(l)
    BY <1>0, <1>10 DEF LoginOK, RemoveOIDCMember, LoginRow, Stage, At, Syncs
  <2>2. login' \in [Login -> LoginRow \cup {None}]
        /\ \A k \in Login \ {l} : login'[k] = login[k]
    BY <1>0, <1>10, <2>1 DEF LoginOK, RemoveOIDCMember
  <2>3. LoginOK'
    BY <1>0, <1>10, <2>1, <2>2 DEF LoginOK, Syncs, At, RemoveOIDCMember
  <2> QED
    BY <1>10, <2>3 DEF TypeOK, RemoveOIDCMember, Source
<1>11. CASE CreateSession(l) \/ Fails(l)
  <2>1. LoginOK'
    BY <1>0, <1>11, EndsType DEF CreateSession, Fails
  <2> QED
    BY <1>11, <2>1 DEF TypeOK, CreateSession, Fails
<1> QED
  BY <1>1, <1>2, <1>3, <1>4, <1>5, <1>6, <1>7, <1>8, <1>9, <1>10, <1>11
     DEF Resolves, Synchronizes

\* Every step keeps the types.
LEMMA NextType == ASSUME TypeOK, [Next]_vars PROVE TypeOK'
<1>1. CASE UNCHANGED vars
  BY <1>1 DEF TypeOK, LoginOK, Syncs, At, vars
<1> QED
  BY <1>1, OthersType, LoginsType DEF Next
-----------------------------------------------------------------------------
(* Accounts.                                                               *)

\* Nothing but the accounts, and the logins that make one, bears on the accounts:
\* a login may begin, end, or go where it makes no user.
LEMMA LoginMoves ==
    ASSUME Inv, UNCHANGED accounts,
           \A l \in Login :
              \/ login'[l] = login[l] \/ login'[l] = None
              \/ /\ login'[l].stage # "identify"
                 /\ login'[l].marked \subseteq Bootstrap
                 /\ login'[l].user \notin login'[l].marked
    PROVE  AccountInv'
<1> USE DEF Inv, AccountInv, accounts
<1>1. OneAccountPerSubject'
  BY DEF OneAccountPerSubject
<1>2. BootstrapStaysLocal'
  BY DEF BootstrapStaysLocal
<1>3. ASSUME NEW l \in Login, At(l, "identify")'
      PROVE  Makes(l)'
  <2>1. At(l, "identify") /\ login'[l] = login[l] /\ Makes(l)
    BY <1>3 DEF At
  <2>2. \A k \in Login : At(k, "identify")' =>
           At(k, "identify") /\ login'[k] = login[k]
    BY DEF At
  <2> QED
    BY <2>1, <2>2 DEF Makes
<1>4. \A l \in Login : login'[l] # None => login'[l].marked \subseteq Bootstrap'
  BY DEF Bootstrap
<1> QED
  BY <1>1, <1>2, <1>3, <1>4

\* Another account, or another mark, takes nothing from the accounts in use.
LEMMA UsersGrow ==
    ASSUME Inv, UNCHANGED <<identity, login>>,
           \A e \in Email : users[e] # None =>
              /\ users'[e] # None /\ users'[e].password = users[e].password
              /\ users[e].bootstrap => users'[e].bootstrap
    PROVE  AccountInv'
<1> USE DEF Inv, AccountInv
<1>1. OneAccountPerSubject'
  BY NoneAssumption DEF OneAccountPerSubject, TypeOK
<1>2. BootstrapStaysLocal'
  BY DEF BootstrapStaysLocal
<1>3. ASSUME NEW l \in Login, At(l, "identify")'
      PROVE  Makes(l)'
  <2>1. At(l, "identify") /\ Makes(l) /\ login[l].email \in Email
    BY <1>3 DEF At, TypeOK, LoginOK, Syncs
  <2> QED
    BY <2>1 DEF Makes, At
<1>4. Bootstrap \subseteq Bootstrap'
  BY DEF Bootstrap
<1> QED
  BY <1>1, <1>2, <1>3, <1>4

\* Signing up and marking administrators keep the invariant.
LEMMA SignUpInv ==
    ASSUME Inv, NEW e \in Email, Register(e) \/ MarkBootstrap(e)
    PROVE  AccountInv'
<1>1. UNCHANGED <<identity, login>>
  BY DEF Register, MarkBootstrap, Changes
<1>2. CASE Register(e)
  <2>1. \A x \in Email \ {e} : users'[x] = users[x]
    BY <1>2 DEF Register, Inv, TypeOK
  <2> QED
    BY <1>1, <1>2, <2>1, UsersGrow DEF Register
<1>3. CASE MarkBootstrap(e)
  <2>1. \A x \in Email \ {e} : users'[x] = users[x]
    BY <1>3 DEF MarkBootstrap, Inv, TypeOK
  <2>2. users'[e] = [password |-> users[e].password, bootstrap |-> TRUE]
    BY <1>3 DEF MarkBootstrap, Inv, TypeOK
  <2>3. users'[e] \in AccountRow
    BY <1>3, <2>2 DEF MarkBootstrap, Inv, TypeOK, AccountRow
  <2> QED
    BY <1>1, <2>1, <2>2, <2>3, UsersGrow, NoneAssumption
<1> QED
  BY <1>2, <1>3

\* A user is made for an e-mail that nobody has, so for no other login and subject.
LEMMA CreateUserInv ==
    ASSUME Inv, NEW l \in Login, CreateUser(l)
    PROVE  AccountInv'
<1> DEFINE e == login[l].email
<1>0. e \in Email /\ At(l, "create") /\ login[l].marked \subseteq Bootstrap
  BY DEF Inv, AccountInv, TypeOK, LoginOK, CreateUser, At, Syncs
<1>1. CASE users[e] # None
  <2>1. Ends(l) /\ UNCHANGED accounts
    BY <1>1 DEF CreateUser, accounts
  <2> QED
    BY <2>1, LoginMoves DEF Ends, Inv, TypeOK, LoginOK
<1>2. CASE users[e] = None
  <2> USE DEF Inv, AccountInv
  <2>1. /\ users'[e] = Account(FALSE) /\ identity' = identity
        /\ \A x \in Email \ {e} : users'[x] = users[x]
        /\ login'[l] = [login[l] EXCEPT !.stage = "identify"]
        /\ \A k \in Login \ {l} : login'[k] = login[k]
    BY <1>0, <1>2 DEF CreateUser, Goes, TypeOK, LoginOK
  <2>2. users'[e] \in AccountRow /\ users'[e] # None /\ ~users'[e].password
    <3>1. Account(FALSE) \in AccountRow /\ Account(FALSE).password = FALSE
      BY DEF Account, AccountRow
    <3> QED
      BY <2>1, <3>1, NoneAssumption
  <2>3. /\ login'[l].marked = login[l].marked /\ login'[l].user = login[l].user
        /\ login'[l].email = e
    BY <1>0, <2>1 DEF TypeOK, LoginOK, LoginRow, At
  <2>4. \A s \in Subject : identity[s] # e
    BY <1>0, <1>2, NoneAssumption DEF OneAccountPerSubject
  <2>5. OneAccountPerSubject'
    BY <2>1, <2>4 DEF OneAccountPerSubject, TypeOK
  <2>6. BootstrapStaysLocal'
    BY <1>0, <2>1, <2>3 DEF BootstrapStaysLocal, At
  <2>7. e \notin login[l].marked
    BY <1>0, <1>2 DEF Bootstrap
  <2>8. \A k \in Login \ {l} : At(k, "identify") =>
            login[k].email # e /\ login[k].email \in Email
    BY <1>2 DEF Makes, TypeOK, LoginOK, At, Syncs
  <2>9. ASSUME NEW k \in Login, At(k, "identify")'
        PROVE  Makes(k)'
    <3>1. CASE k = l
      BY <2>1, <2>2, <2>3, <2>4, <2>7, <2>8, <3>1 DEF Makes, At
    <3>2. CASE k # l
      <4>1. At(k, "identify") /\ Makes(k) /\ login'[k] = login[k]
        BY <2>1, <2>9, <3>2 DEF At
      <4>2. \A j \in Login : At(j, "identify")' /\ j # l =>
                At(j, "identify") /\ login'[j] = login[j]
        BY <2>1 DEF At
      <4> DEFINE f == login[k].email
      <4>3. f # e /\ f \in Email /\ login'[k].email = f /\ users'[f] = users[f]
        BY <2>1, <2>8, <3>2, <4>1
      <4>4. \A j \in Login : At(j, "identify")' /\ login'[j].email = f => j = k
        BY <2>3, <4>1, <4>2, <4>3 DEF Makes
      <4> QED
        BY <2>1, <4>1, <4>3, <4>4 DEF Makes
    <3> QED
      BY <3>1, <3>2
  <2>10. Bootstrap \subseteq Bootstrap'
    BY <1>2, <2>1 DEF Bootstrap
  <2>11. \A k \in Login : login'[k] # None => login'[k].marked \subseteq Bootstrap'
    BY <1>0, <2>1, <2>3, <2>10
  <2> QED
    BY <2>5, <2>6, <2>9, <2>11
<1> QED
  BY <1>1, <1>2

\* What a login keeps when its account is found.
LEMMA ResolvedRow ==
    ASSUME LoginOK, NEW l \in Login, login[l] # None, NEW e \in Email, Resolved(l, e)
    PROVE  /\ login'[l].stage = "map" /\ login'[l].user = e
           /\ login'[l].marked = login[l].marked \cap {e}
           /\ \A k \in Login \ {l} : login'[k] = login[k]
BY DEF LoginOK, Resolved

\* The user gets its only subject.
LEMMA CreateIdentityInv ==
    ASSUME Inv, NEW l \in Login, CreateIdentity(l)
    PROVE  AccountInv'
<1> DEFINE e == login[l].email
           s == login[l].subject
<1>0. /\ e \in Email /\ s \in Subject /\ At(l, "identify") /\ Makes(l)
      /\ login[l].marked \subseteq Bootstrap
  BY DEF Inv, AccountInv, TypeOK, LoginOK, CreateIdentity, At, Syncs
<1>1. CASE identity[s] # None
  <2>1. Ends(l) /\ UNCHANGED accounts
    BY <1>1 DEF CreateIdentity, accounts
  <2> QED
    BY <2>1, LoginMoves DEF Ends, Inv, TypeOK, LoginOK
<1>2. CASE identity[s] = None
  <2> USE DEF Inv, AccountInv
  <2>1. /\ identity' = [identity EXCEPT ![s] = e] /\ users' = users
        /\ Resolved(l, e)
    BY <1>2 DEF CreateIdentity
  <2>2. /\ login'[l].stage = "map" /\ login'[l].user = e
        /\ login'[l].marked = login[l].marked \cap {e}
        /\ \A k \in Login \ {l} : login'[k] = login[k]
    BY <1>0, <2>1, ResolvedRow DEF TypeOK, At
  <2>3. OneAccountPerSubject'
    BY <1>0, <2>1 DEF OneAccountPerSubject, TypeOK, Makes
  <2>4. BootstrapStaysLocal'
    BY <1>0, <2>2 DEF BootstrapStaysLocal, Makes
  <2>5. ASSUME NEW k \in Login, At(k, "identify")'
        PROVE  Makes(k)'
    <3> DEFINE f == login[k].email
    <3>1. k # l /\ At(k, "identify") /\ Makes(k) /\ login'[k] = login[k] /\ f # e
      BY <1>0, <2>2, <2>5 DEF At, Makes
    <3>2. \A t \in Subject : identity'[t] # f
      BY <1>0, <2>1, <3>1 DEF TypeOK, Makes
    <3>3. \A j \in Login : At(j, "identify")' /\ login'[j].email = f => j = k
      BY <2>2, <3>1 DEF At, Makes
    <3> QED
      BY <2>1, <3>1, <3>2, <3>3 DEF Makes
  <2>6. \A k \in Login : login'[k] # None => login'[k].marked \subseteq Bootstrap'
    BY <1>0, <2>1, <2>2 DEF Bootstrap
  <2> QED
    BY <2>3, <2>4, <2>5, <2>6
<1> QED
  BY <1>1, <1>2

\* The remaining statements make no user.
LEMMA LoginsInv ==
    ASSUME Inv, NEW l \in Login, Resolves(l) \/ Synchronizes(l) \/ Fails(l)
    PROVE  AccountInv'
<1> USE DEF Inv
<1>0. /\ login \in [Login -> LoginRow \cup {None}]
      /\ login[l] # None => login[l] \in LoginRow
                            /\ login[l].marked \subseteq Bootstrap
                            /\ login[l].user \notin login[l].marked
  BY DEF TypeOK, LoginOK, AccountInv, BootstrapStaysLocal
<1>1. CASE CreateUser(l)
  BY <1>1, CreateUserInv
<1>2. CASE CreateIdentity(l)
  BY <1>2, CreateIdentityInv
<1>3. ASSUME UNCHANGED accounts, \A k \in Login \ {l} : login'[k] = login[k],
             \/ login'[l] = None
             \/ /\ login'[l].stage # "identify"
                /\ login'[l].marked \subseteq Bootstrap
                /\ login'[l].user \notin login'[l].marked
      PROVE  AccountInv'
  BY <1>3, LoginMoves
<1>4. ASSUME UNCHANGED accounts, Ends(l)
      PROVE  AccountInv'
  BY <1>0, <1>3, <1>4 DEF Ends
<1>5. ASSUME UNCHANGED accounts, NEW to \in Stage \ {"identify"}, Goes(l, to),
             login[l] # None
      PROVE  AccountInv'
  <2>1. /\ login'[l].stage = to /\ login'[l].marked = login[l].marked
        /\ login'[l].user = login[l].user
        /\ \A k \in Login \ {l} : login'[k] = login[k]
    BY <1>0, <1>5 DEF Goes, LoginRow
  <2> QED
    BY <1>0, <1>3, <1>5, <2>1
<1>6. ASSUME NEW s \in Subject, NEW e \in Email, NEW claims \in SUBSET External,
             Callback(l, s, e, claims)
      PROVE  AccountInv'
  <2>1. /\ login'[l].stage = "find" /\ login'[l].marked = Bootstrap
        /\ login'[l].user = None
        /\ \A k \in Login \ {l} : login'[k] = login[k]
    BY <1>0, <1>6 DEF Callback
  <2>2. None \notin Bootstrap
    BY NoneAssumption DEF Bootstrap
  <2> QED
    BY <1>3, <1>6, <2>1, <2>2 DEF Callback
<1>7. CASE FindIdentity(l)
  <2> DEFINE e == identity[login[l].subject]
  <2>1. /\ UNCHANGED accounts /\ login[l] # None
        /\ \/ Goes(l, "email") \/ Ends(l)
           \/ e # None /\ ~users[e].bootstrap /\ Resolved(l, e)
    BY <1>7 DEF FindIdentity, At
  <2>2. CASE e # None /\ ~users[e].bootstrap /\ Resolved(l, e)
    <3>1. /\ login'[l].stage = "map" /\ login'[l].user = e
          /\ login'[l].marked = login[l].marked \cap {e}
          /\ \A k \in Login \ {l} : login'[k] = login[k]
      <4>1. e \in Email
        BY <2>2, <1>7 DEF TypeOK, LoginOK, FindIdentity, At, Syncs
      <4> HIDE DEF e
      <4> QED
        BY <2>1, <2>2, <4>1, ResolvedRow DEF TypeOK
    <3>2. e \notin login[l].marked
      BY <1>0, <2>1, <2>2 DEF Bootstrap
    <3> QED
      BY <1>0, <1>3, <2>1, <3>1, <3>2
  <2> QED
    BY <1>4, <1>5, <2>1, <2>2 DEF Stage
<1>8. CASE FindEmail(l)
  BY <1>4, <1>5, <1>8 DEF FindEmail, At, Stage
<1>9. CASE CreateSession(l) \/ Fails(l)
  BY <1>4, <1>9 DEF CreateSession, Fails
<1>10. ASSUME UNCHANGED accounts, login[l] # None, login'[l] # None,
              login'[l].stage # "identify", login'[l].marked = login[l].marked,
              login'[l].user = login[l].user,
              \A k \in Login \ {l} : login'[k] = login[k]
       PROVE  AccountInv'
  BY <1>0, <1>3, <1>10
<1>11. CASE ListMapped(l) \/ ListExisting(l)
  <2>1. /\ login[l] # None /\ login'[l].stage # "identify"
        /\ login'[l].marked = login[l].marked /\ login'[l].user = login[l].user
        /\ \A k \in Login \ {l} : login'[k] = login[k]
    BY <1>0, <1>11 DEF ListMapped, ListExisting, At, LoginRow
  <2> QED
    BY <1>0, <1>3, <1>11, <2>1 DEF ListMapped, ListExisting
<1>12. ASSUME NEW g \in Group, FindMember(l, g) \/ RemoveOIDCMember(l, g)
       PROVE  AccountInv'
  <2>1. /\ login[l] # None /\ login'[l].stage # "identify"
        /\ login'[l].marked = login[l].marked /\ login'[l].user = login[l].user
        /\ \A k \in Login \ {l} : login'[k] = login[k]
    BY <1>0, <1>12 DEF FindMember, RemoveOIDCMember, At, LoginRow
  <2> QED
    BY <1>0, <1>3, <1>12, <2>1 DEF FindMember, RemoveOIDCMember
<1>13. CASE AddOIDCMember(l)
  <2>1. CASE Ends(l)
    BY <1>4, <1>13, <2>1 DEF AddOIDCMember
  <2>2. CASE ~Ends(l)
    <3>1. /\ login[l] # None /\ login'[l].stage # "identify"
          /\ login'[l].marked = login[l].marked /\ login'[l].user = login[l].user
          /\ \A k \in Login \ {l} : login'[k] = login[k]
      BY <1>0, <1>13, <2>2 DEF AddOIDCMember, At, LoginRow
    <3> QED
      BY <1>0, <1>3, <1>13, <3>1 DEF AddOIDCMember
  <2> QED
    BY <2>1, <2>2
<1> QED
  BY <1>1, <1>2, <1>6, <1>7, <1>8, <1>9, <1>11, <1>12, <1>13
     DEF Resolves, Synchronizes

\* Every step keeps the inductive invariant.
LEMMA NextInv == ASSUME Inv, [Next]_vars PROVE Inv'
<1>1. TypeOK'
  BY NextType DEF Inv
<1>2. CASE UNCHANGED vars
  BY <1>1, <1>2, LoginMoves DEF vars, Inv, accounts
<1>3. CASE Administers
  <2>1. UNCHANGED accounts /\ UNCHANGED login
    BY <1>3 DEF Administers, Configure, CreateGroup, DeleteGroup,
                RevokeProjectGrant, RemoveMember, RemoveOIDCMapping, Checks,
                AddMember, AddOIDCMapping, GrantProject, Administration, Changes,
                Answers
  <2> QED
    BY <1>1, <2>1, LoginMoves DEF Inv
<1> QED
  BY <1>1, <1>2, <1>3, SignUpInv, LoginsInv DEF Inv, Next
-----------------------------------------------------------------------------
(* The theorems.                                                           *)

\* The inductive invariant holds in every behaviour.
THEOREM InvHolds == Spec => []Inv
BY InitInv, NextInv, PTL DEF Spec

\* Every reachable state has the types that TypeOK gives it, whatever statements
\* of logins and administrators interleave.
THEOREM TypeCorrect == Spec => []TypeOK
BY InvHolds, PTL DEF Inv

\* Subjects and accounts stay one to one, and no account that somebody has signed
\* up for is linked, whatever first logins overlap or fail halfway.
THEOREM AccountsStayApart == Spec => []OneAccountPerSubject
BY InvHolds, PTL DEF Inv, AccountInv

\* A login never resolves to an account that was a bootstrap administrator when
\* the provider answered.
THEOREM BootstrapIsLocal == Spec => []BootstrapStaysLocal
BY InvHolds, PTL DEF Inv, AccountInv

\* No step of a login changes a membership that an administrator has given.
THEOREM LocalMembershipIsKept == Spec => LocalMembershipStays
<1>1. ASSUME TypeOK, [Next]_vars, login' # login
      PROVE  \A m \in Group \X Email : members[m] = "local" => members'[m] = "local"
  <2>1. PICK l \in Login : Resolves(l) \/ Synchronizes(l) \/ Fails(l)
    BY <1>1 DEF Next, vars, Register, MarkBootstrap, Administers, Configure,
                CreateGroup, DeleteGroup, RevokeProjectGrant, RemoveMember,
                RemoveOIDCMapping, Checks, AddMember, AddOIDCMapping, GrantProject,
                Administration, Changes, Answers
  <2>2. CASE UNCHANGED members
    BY <2>2
  <2>3. CASE AddOIDCMember(l)
    BY <1>1, <2>3, NoneAssumption DEF AddOIDCMember, TypeOK
  <2>4. ASSUME NEW g \in Group, RemoveOIDCMember(l, g)
        PROVE  \A m \in Group \X Email : members[m] = "local" => members'[m] = "local"
    BY <1>1, <2>4 DEF RemoveOIDCMember, TypeOK
  <2> QED
    BY <2>1, <2>2, <2>3, <2>4
       DEF Resolves, Synchronizes, Callback, FindIdentity, FindEmail, CreateUser,
           CreateIdentity, ListMapped, ListExisting, FindMember, CreateSession,
           Fails, tables
<1>2. TypeOK /\ [Next]_vars =>
         [login' # login => \A m \in Group \X Email :
                              members[m] = "local" => members'[m] = "local"]_vars
  BY <1>1
<1> QED
  BY <1>2, TypeCorrect, PTL DEF Spec, LocalMembershipStays
-----------------------------------------------------------------------------
(* The synchronizations that nothing crossed.                              *)

Listed(k) == login[k] # None /\ login[k].stage \in {"list", "add", "insert"}

MemberOf(k, g) == members[<<g, login[k].user>>]

\* What a synchronization still has to do is among what the claim says, and what
\* it no longer has to do has been done.
InStep(k) ==
    LET M == Mapped(login[k].claims) IN
    /\ login[k].desired \subseteq M
    /\ \A g \in M \ login[k].desired : MemberOf(k, g) # None
    /\ login[k].stage = "list" => login[k].desired = M
    /\ login[k].stage # "list" =>
          /\ M \cap login[k].existing \subseteq login[k].desired
          /\ \A g \in M \cap login[k].existing : MemberOf(k, g) # None
          /\ \A g \in Group \ M : MemberOf(k, g) = "oidc" => g \in login[k].existing
    /\ login[k].stage = "insert" =>
          login[k].adding \in login[k].desired \ login[k].existing

\* What nothing crossed goes in step with every synchronization of its account.
SyncInv ==
    \A l \in alone :
        /\ Listed(l)
        /\ \A k \in Login : Listed(k) /\ login[k].user = login[l].user =>
              login[k].claims = login[l].claims /\ InStep(k)

\* A login moves, and nothing else: it leaves the synchronization, or goes on in
\* step with it.
LEMMA SyncMoves ==
    ASSUME TypeOK, SyncInv, NEW l \in Login, alone' \subseteq alone,
           \A k \in Login \ {l} : login'[k] = login[k],
           \/ ~Listed(l)' /\ l \notin alone'
           \/ /\ Listed(l) /\ Listed(l)'
              /\ login'[l].user = login[l].user /\ login'[l].claims = login[l].claims,
           \A a \in alone, k \in Login :
              /\ Listed(k) /\ Listed(k)' /\ login[k].user = login[a].user /\ InStep(k)
              => InStep(k)'
    PROVE  SyncInv'
<1> SUFFICES ASSUME NEW a \in alone' PROVE
       /\ Listed(a)'
       /\ \A k \in Login : Listed(k)' /\ login'[k].user = login'[a].user =>
             login'[k].claims = login'[a].claims /\ InStep(k)'
  BY DEF SyncInv
<1>1. a \in alone /\ a \in Login /\ Listed(a)
  BY DEF SyncInv, TypeOK
<1>2. Listed(a)' /\ login'[a].user = login[a].user /\ login'[a].claims = login[a].claims
  BY <1>1 DEF Listed
<1>3. ASSUME NEW k \in Login, Listed(k)', login'[k].user = login'[a].user
      PROVE  login'[k].claims = login'[a].claims /\ InStep(k)'
  <2>1. Listed(k) /\ login'[k].user = login[k].user /\ login'[k].claims = login[k].claims
    BY <1>3 DEF Listed
  <2>2. login[k].claims = login[a].claims /\ InStep(k)
    BY <1>1, <1>2, <1>3, <2>1 DEF SyncInv
  <2> QED
    BY <1>1, <1>2, <1>3, <2>1, <2>2
<1> QED
  BY <1>2, <1>3

\* A step that is none of a synchronization, and that leaves its tables alone.
LEMMA SyncStays ==
    ASSUME TypeOK, SyncInv, UNCHANGED <<mappings, members, alone>>,
           \A k \in Login : login'[k] = login[k] \/ (~Listed(k) /\ ~Listed(k)')
    PROVE  SyncInv'
<1> SUFFICES ASSUME NEW a \in alone' PROVE
       /\ Listed(a)'
       /\ \A k \in Login : Listed(k)' /\ login'[k].user = login'[a].user =>
             login'[k].claims = login'[a].claims /\ InStep(k)'
  BY DEF SyncInv
<1>1. a \in alone /\ a \in Login /\ Listed(a)
  BY DEF SyncInv, TypeOK
<1>2. login'[a] = login[a]
  BY <1>1
<1>3. ASSUME NEW k \in Login, Listed(k)', login'[k].user = login'[a].user
      PROVE  login'[k].claims = login'[a].claims /\ InStep(k)'
  <2>1. login'[k] = login[k] /\ Listed(k)
    BY <1>3 DEF Listed
  <2>2. login[k].claims = login[a].claims /\ InStep(k)
    BY <1>1, <1>2, <1>3, <2>1 DEF SyncInv
  <2> QED
    BY <1>2, <2>1, <2>2 DEF InStep, MemberOf, Mapped
<1> QED
  BY <1>1, <1>2, <1>3 DEF Listed

\* A synchronization lists the mappings: it has the whole claim to do.
LEMMA ListMappedSync ==
    ASSUME TypeOK, SyncInv, NEW l \in Login, ListMapped(l)
    PROVE  SyncInv'
<1> DEFINE M(k) == Mapped(login[k].claims)
<1>1. /\ login[l] \in LoginRow /\ login[l].stage = "map" /\ ~Listed(l)
      /\ UNCHANGED <<mappings, members>>
  BY DEF TypeOK, LoginOK, ListMapped, At, Listed, tables
<1>2. /\ login'[l] \in LoginRow /\ login'[l].stage = "list"
      /\ login'[l].desired = M(l) /\ login'[l].user = login[l].user
      /\ login'[l].claims = login[l].claims
  <2>1. M(l) \subseteq Group
    BY DEF Mapped
  <2> HIDE DEF M
  <2>2. login'[l] = [login[l] EXCEPT !.stage = "list", !.desired = M(l)]
    BY <1>1 DEF ListMapped, TypeOK, LoginOK, M
  <2> QED
    BY <1>1, <2>1, <2>2 DEF LoginRow, Stage
<1>3. \A k \in Login \ {l} : login'[k] = login[k]
  BY DEF ListMapped, TypeOK, LoginOK
<1>4. Listed(l)' /\ InStep(l)'
  <2>1. Listed(l)'
    BY <1>2, NoLoginAssumption DEF Listed
  <2>2. Mapped(login[l].claims)' = M(l)
    BY <1>1, <1>2 DEF Mapped
  <2> QED
    BY <1>2, <2>1, <2>2 DEF InStep
<1>5. /\ \A k \in Login \ {l} : Listed(k)' <=> Listed(k)
      /\ \A k \in Login \ {l} : InStep(k) => InStep(k)'
  BY <1>1, <1>3 DEF Listed, InStep, Mapped, MemberOf
<1>6. \A k \in Login : Listed(k) => Syncs(k) /\ login[k].stage # "map"
  BY DEF Listed, Syncs
<1> SUFFICES ASSUME NEW a \in alone' PROVE
       /\ Listed(a)'
       /\ \A k \in Login : Listed(k)' /\ login'[k].user = login'[a].user =>
             login'[k].claims = login'[a].claims /\ InStep(k)'
  BY DEF SyncInv
<1>7. \/ a \in alone \ {l} /\ ~Crosses(a, l)
      \/ a = l /\ \A k \in Login : ~Crosses(k, l)
  BY DEF ListMapped
<1>8. CASE a \in alone \ {l} /\ ~Crosses(a, l)
  <2>1. a \in Login /\ a # l /\ Listed(a) /\ login'[a] = login[a]
    BY <1>3, <1>8 DEF SyncInv, TypeOK
  <2>2. login[a].user = login[l].user => login[a].claims = login[l].claims
    BY <1>6, <1>8, <2>1 DEF Crosses
  <2>3. ASSUME NEW k \in Login, Listed(k)', login'[k].user = login'[a].user
        PROVE  login'[k].claims = login'[a].claims /\ InStep(k)'
    <3>1. CASE k = l
      BY <1>2, <1>4, <2>1, <2>2, <2>3, <3>1
    <3>2. CASE k # l
      <4>1. login'[k] = login[k] /\ Listed(k)
        BY <1>3, <1>5, <2>3, <3>2
      <4>2. login[k].claims = login[a].claims /\ InStep(k)
        BY <1>8, <2>1, <2>3, <4>1 DEF SyncInv
      <4> QED
        BY <1>5, <2>1, <3>2, <4>1, <4>2
    <3> QED
      BY <3>1, <3>2
  <2> QED
    BY <1>5, <2>1, <2>3
<1>9. CASE a = l /\ \A k \in Login : ~Crosses(k, l)
  <2>1. ASSUME NEW k \in Login, Listed(k)', login'[k].user = login'[l].user, k # l
        PROVE  login'[k].claims = login'[l].claims /\ InStep(k)'
    <3>1. login'[k] = login[k] /\ Listed(k) /\ login[k].user = login[l].user
      BY <1>2, <1>3, <1>5, <2>1
    <3>2. k \in alone /\ login[k].claims = login[l].claims
      BY <1>6, <1>9, <2>1, <3>1 DEF Crosses
    <3>3. InStep(k)
      BY <3>1, <3>2 DEF SyncInv
    <3> QED
      BY <1>2, <1>5, <2>1, <3>1, <3>2, <3>3
  <2> QED
    BY <1>4, <1>9, <2>1
<1> QED
  BY <1>7, <1>8, <1>9

\* A synchronization lists the memberships by claim: those that the claim does not
\* give are among them.
LEMMA ListExistingSync ==
    ASSUME TypeOK, SyncInv, NEW l \in Login, ListExisting(l)
    PROVE  SyncInv'
<1> DEFINE X == FromProvider(login[l].user)
           M == Mapped(login[l].claims)
<1>1. /\ login[l] \in LoginRow /\ login[l].stage = "list" /\ Listed(l)
      /\ UNCHANGED <<mappings, members, alone>>
  BY DEF TypeOK, LoginOK, ListExisting, At, Listed, tables
<1>2. X \subseteq Group /\ \A g \in Group : g \in X <=> MemberOf(l, g) = "oidc"
  BY DEF FromProvider, MemberOf
<1>3. /\ login'[l] \in LoginRow /\ login'[l].stage = "add"
      /\ login'[l].existing = X /\ login'[l].desired = login[l].desired
      /\ login'[l].user = login[l].user /\ login'[l].claims = login[l].claims
  <2> HIDE DEF X
  <2>1. login'[l] = [login[l] EXCEPT !.stage = "add", !.existing = X]
    BY <1>1 DEF ListExisting, TypeOK, LoginOK, X
  <2> QED
    BY <1>1, <1>2, <2>1 DEF LoginRow, Stage
<1>4. \A k \in Login \ {l} : login'[k] = login[k]
  BY DEF ListExisting, TypeOK, LoginOK
<1>5. Listed(l)'
  BY <1>3, NoLoginAssumption DEF Listed
<1>6. InStep(l) => InStep(l)'
  <2>1. M' = M /\ M \subseteq Group /\ \A g \in Group : MemberOf(l, g)' = MemberOf(l, g)
    BY <1>1, <1>3 DEF Mapped, MemberOf
  <2> HIDE DEF X
  <2>2. ASSUME InStep(l) PROVE login[l].desired = M
    BY <1>1, <2>2 DEF InStep
  <2> QED
    BY <1>2, <1>3, <2>1, <2>2, NoneAssumption DEF InStep
<1>7. \A k \in Login \ {l} : InStep(k) => InStep(k)'
  BY <1>1, <1>4 DEF InStep, Mapped, MemberOf
<1> HIDE DEF X
<1> QED
  BY <1>1, <1>3, <1>4, <1>5, <1>6, <1>7, SyncMoves

\* A group that the account is a member of need not be added.
LEMMA FindMemberSync ==
    ASSUME TypeOK, SyncInv, NEW l \in Login, NEW g \in Group, FindMember(l, g)
    PROVE  SyncInv'
<1> DEFINE M == Mapped(login[l].claims)
<1>1. /\ login[l] \in LoginRow /\ login[l].stage = "add" /\ Listed(l)
      /\ g \in login[l].desired \ login[l].existing
      /\ UNCHANGED <<mappings, members, alone>>
  BY DEF TypeOK, LoginOK, FindMember, At, Listed, tables
<1>2. /\ login'[l] \in LoginRow
      /\ login'[l].existing = login[l].existing
      /\ login'[l].user = login[l].user /\ login'[l].claims = login[l].claims
      /\ \/ /\ MemberOf(l, g) # None /\ login'[l].stage = "add"
            /\ login'[l].desired = login[l].desired \ {g}
         \/ /\ login'[l].stage = "insert" /\ login'[l].adding = g
            /\ login'[l].desired = login[l].desired
  <2>1. \/ /\ MemberOf(l, g) # None
           /\ login'[l] = [login[l] EXCEPT !.desired = @ \ {g}]
        \/ login'[l] = [login[l] EXCEPT !.stage = "insert", !.adding = g]
    BY <1>1 DEF FindMember, TypeOK, LoginOK, MemberOf
  <2>2. CASE /\ MemberOf(l, g) # None
             /\ login'[l] = [login[l] EXCEPT !.desired = @ \ {g}]
    BY <1>1, <2>2 DEF LoginRow
  <2>3. CASE login'[l] = [login[l] EXCEPT !.stage = "insert", !.adding = g]
    BY <1>1, <2>3 DEF LoginRow, Stage
  <2> QED
    BY <2>1, <2>2, <2>3
<1>3. \A k \in Login \ {l} : login'[k] = login[k]
  BY DEF FindMember, TypeOK, LoginOK
<1>4. Listed(l)'
  BY <1>2, NoLoginAssumption DEF Listed
<1>5. InStep(l) => InStep(l)'
  <2>1. M' = M /\ \A h \in Group : MemberOf(l, h)' = MemberOf(l, h)
    BY <1>1, <1>2 DEF Mapped, MemberOf
  <2>2. M \subseteq Group
    BY DEF Mapped
  <2> HIDE DEF M
  <2> SUFFICES ASSUME InStep(l) PROVE InStep(l)'
    OBVIOUS
  <2>3. /\ login[l].desired \subseteq M
        /\ \A h \in M \ login[l].desired : MemberOf(l, h) # None
        /\ M \cap login[l].existing \subseteq login[l].desired
        /\ \A h \in M \cap login[l].existing : MemberOf(l, h) # None
        /\ \A h \in Group \ M : MemberOf(l, h) = "oidc" => h \in login[l].existing
    BY <1>1 DEF InStep, M
  <2>4. /\ login'[l].desired \subseteq M
        /\ \A h \in M \ login'[l].desired : MemberOf(l, h) # None
        /\ M \cap login'[l].existing \subseteq login'[l].desired
        /\ login'[l].stage # "list"
        /\ login'[l].stage = "insert" =>
              login'[l].adding \in login'[l].desired \ login'[l].existing
    BY <1>1, <1>2, <2>3
  <2> QED
    BY <1>2, <2>1, <2>2, <2>3, <2>4 DEF InStep, M
<1>6. \A k \in Login \ {l} : InStep(k) => InStep(k)'
  BY <1>1, <1>3 DEF InStep, Mapped, MemberOf
<1> QED
  BY <1>1, <1>2, <1>3, <1>4, <1>5, <1>6, SyncMoves

\* A synchronization that ends leaves the others as they are.
LEMMA EndsSync ==
    ASSUME TypeOK, SyncInv, NEW l \in Login, Ends(l), l \notin alone',
           alone' \subseteq alone, UNCHANGED <<mappings, members>>
    PROVE  SyncInv'
<1>1. \A k \in Login \ {l} : login'[k] = login[k]
  BY DEF Ends, TypeOK, LoginOK
<1>2. ~Listed(l)'
  BY DEF Ends, TypeOK, LoginOK, Listed
<1>3. \A k \in Login \ {l} : InStep(k) => InStep(k)'
  BY <1>1 DEF InStep, Mapped, MemberOf
<1> QED
  BY <1>1, <1>2, <1>3, SyncMoves

\* A membership is added that the claim gives: no synchronization of the account
\* that is in step with it takes notice.
LEMMA AddOIDCMemberSync ==
    ASSUME TypeOK, SyncInv, NEW l \in Login, AddOIDCMember(l)
    PROVE  SyncInv'
<1> DEFINE m == <<login[l].adding, login[l].user>>
           M == Mapped(login[l].claims)
<1>1. /\ login[l] \in LoginRow /\ login[l].stage = "insert" /\ Listed(l)
      /\ login[l].adding \in Group /\ login[l].user \in Email
      /\ UNCHANGED mappings
  BY DEF TypeOK, LoginOK, AddOIDCMember, At, Listed, Syncs
<1>2. CASE members[m] # None
  BY <1>2, EndsSync DEF AddOIDCMember
<1>3. CASE members[m] = None
  <2>1. /\ members' = [members EXCEPT ![m] = "oidc"] /\ UNCHANGED alone
        /\ login'[l] = [login[l] EXCEPT !.stage = "add", !.adding = None,
                                        !.desired = @ \ {login[l].adding}]
    BY <1>1, <1>3 DEF AddOIDCMember, TypeOK, LoginOK
  <2>2. /\ login'[l].stage = "add"
        /\ login'[l].desired = login[l].desired \ {login[l].adding}
        /\ login'[l].existing = login[l].existing
        /\ login'[l].user = login[l].user /\ login'[l].claims = login[l].claims
        /\ login'[l] \in LoginRow
    <3>1. /\ login[l].desired \ {login[l].adding} \in SUBSET Group
          /\ "add" \in Stage /\ None \in Group \cup {None}
      BY <1>1 DEF LoginRow, Stage
    <3> DEFINE D == login[l].desired \ {login[l].adding}
    <3> HIDE DEF D
    <3>3. login'[l] = [login[l] EXCEPT !.stage = "add", !.adding = None, !.desired = D]
      BY <1>1, <2>1 DEF D, LoginRow
    <3>4. D \in SUBSET Group
      BY <3>1 DEF D
    <3>5. /\ login'[l].stage = "add" /\ login'[l].desired = D
          /\ login'[l].existing = login[l].existing
          /\ login'[l].user = login[l].user /\ login'[l].claims = login[l].claims
      BY <1>1, <3>3 DEF LoginRow
    <3>6. login'[l] \in LoginRow
      BY <1>1, <3>1, <3>3, <3>4 DEF LoginRow
    <3> QED
      BY <3>5, <3>6 DEF D
  <2>3. \A k \in Login \ {l} : login'[k] = login[k]
    BY <1>3 DEF AddOIDCMember, TypeOK, LoginOK
  <2>4. Listed(l)'
    BY <2>2, NoLoginAssumption DEF Listed
  <2>5. ASSUME NEW k \in Login, NEW g \in Group, Listed(k)
        PROVE  MemberOf(k, g)' = IF login[k].user = login[l].user /\ g = login[l].adding
                                   THEN "oidc" ELSE MemberOf(k, g)
    <3>1. login[k].user \in Email /\ login'[k].user = login[k].user
      BY <2>2, <2>3, <2>5 DEF TypeOK, LoginOK, Listed, Syncs
    <3> QED
      BY <1>1, <2>1, <2>5, <3>1 DEF MemberOf, TypeOK
  <2>6. ASSUME NEW a \in alone, NEW k \in Login, Listed(k), Listed(k)',
               login[k].user = login[a].user, InStep(k)
        PROVE  InStep(k)'
    <3>1. login'[k].claims = login[k].claims /\ login'[k].existing = login[k].existing
      BY <2>2, <2>3
    <3>2. Mapped(login[k].claims)' = Mapped(login[k].claims)
      BY <1>1, <2>2, <2>3 DEF Mapped
    <3>3. CASE login[k].user # login[l].user
      <4>1. k # l /\ login'[k] = login[k]
        BY <2>3, <3>3
      <4>2. \A g \in Group : MemberOf(k, g)' = MemberOf(k, g)
        BY <2>5, <2>6, <3>3
      <4> QED
        BY <2>6, <3>2, <4>1, <4>2 DEF InStep, Mapped
    <3>4. CASE login[k].user = login[l].user
      <4>1. InStep(l) /\ login[k].claims = login[l].claims
        BY <1>1, <2>6, <3>4 DEF SyncInv
      <4>2. login[l].adding \in M /\ M \subseteq Group
        BY <1>1, <4>1 DEF InStep, Mapped
      <4>3. Mapped(login[k].claims) = M
        BY <4>1
      <4>4. \A g \in Group : MemberOf(k, g)' =
               IF g = login[l].adding THEN "oidc" ELSE MemberOf(k, g)
        BY <2>5, <2>6, <3>4
      <4> HIDE DEF M
      <4>5. /\ login[k].desired \subseteq M
            /\ \A g \in M \ login[k].desired : MemberOf(k, g) # None
            /\ login[k].stage = "list" => login[k].desired = M
            /\ login[k].stage # "list" =>
                  /\ M \cap login[k].existing \subseteq login[k].desired
                  /\ \A g \in M \cap login[k].existing : MemberOf(k, g) # None
                  /\ \A g \in Group \ M : MemberOf(k, g) = "oidc" => g \in login[k].existing
            /\ login[k].stage = "insert" =>
                  login[k].adding \in login[k].desired \ login[k].existing
        BY <2>6, <4>3 DEF InStep
      <4>6. /\ login'[k].desired \subseteq M
            /\ \A g \in M \ login'[k].desired : MemberOf(k, g)' # None
            /\ login'[k].stage = "list" => login'[k].desired = M
            /\ login'[k].stage = "insert" =>
                  login'[k].adding \in login'[k].desired \ login'[k].existing
        <5>1. CASE k = l
          BY <1>1, <2>2, <4>2, <4>4, <4>5, <5>1, NoneAssumption
        <5>2. CASE k # l
          BY <2>3, <4>2, <4>4, <4>5, <5>2, NoneAssumption
        <5> QED
          BY <5>1, <5>2
      <4>7. login'[k].stage # "list" =>
               /\ M \cap login'[k].existing \subseteq login'[k].desired
               /\ \A g \in M \cap login'[k].existing : MemberOf(k, g)' # None
               /\ \A g \in Group \ M : MemberOf(k, g)' = "oidc" => g \in login'[k].existing
        <5>1. CASE k = l
          BY <1>1, <2>2, <4>2, <4>4, <4>5, <5>1, NoneAssumption
        <5>2. CASE k # l
          BY <2>3, <4>2, <4>4, <4>5, <5>2, NoneAssumption
        <5> QED
          BY <5>1, <5>2
      <4> QED
        BY <3>2, <4>3, <4>6, <4>7 DEF InStep
    <3> QED
      BY <3>3, <3>4
  <2> HIDE DEF m
  <2> QED
    BY <1>1, <2>1, <2>2, <2>3, <2>4, <2>6, SyncMoves
<1> QED
  BY <1>2, <1>3

\* A membership by claim is removed that the claim does not give: no
\* synchronization of the account that is in step with it counts on it.
LEMMA RemoveOIDCMemberSync ==
    ASSUME TypeOK, SyncInv, NEW l \in Login, NEW h \in Group, RemoveOIDCMember(l, h)
    PROVE  SyncInv'
<1> DEFINE m == <<h, login[l].user>>
           M == Mapped(login[l].claims)
<1>1. /\ login[l] \in LoginRow /\ login[l].stage = "add" /\ Listed(l)
      /\ login[l].user \in Email /\ h \in login[l].existing \ login[l].desired
      /\ UNCHANGED <<mappings, alone>>
      /\ members' = [members EXCEPT ![m] = IF @ = "oidc" THEN None ELSE @]
  BY DEF TypeOK, LoginOK, RemoveOIDCMember, At, Listed, Syncs
<1>2. /\ login'[l].stage = "add" /\ login'[l].desired = login[l].desired
      /\ login'[l].existing = login[l].existing \ {h}
      /\ login'[l].user = login[l].user /\ login'[l].claims = login[l].claims
      /\ login'[l] \in LoginRow
  <2>1. login'[l] = [login[l] EXCEPT !.existing = @ \ {h}]
    BY <1>1 DEF RemoveOIDCMember, TypeOK, LoginOK
  <2> QED
    BY <1>1, <2>1 DEF LoginRow
<1>3. \A k \in Login \ {l} : login'[k] = login[k]
  BY DEF RemoveOIDCMember, TypeOK, LoginOK
<1>4. Listed(l)'
  BY <1>2, NoLoginAssumption DEF Listed
<1>5. ASSUME NEW k \in Login, NEW g \in Group, Listed(k)
      PROVE  MemberOf(k, g)' = IF /\ login[k].user = login[l].user /\ g = h
                                  /\ MemberOf(k, g) = "oidc"
                                 THEN None ELSE MemberOf(k, g)
  <2>1. login[k].user \in Email /\ login'[k].user = login[k].user
    BY <1>2, <1>3, <1>5 DEF TypeOK, LoginOK, Listed, Syncs
  <2> QED
    BY <1>1, <1>5, <2>1 DEF MemberOf, TypeOK
<1>6. ASSUME NEW a \in alone, NEW k \in Login, Listed(k), Listed(k)',
             login[k].user = login[a].user, InStep(k)
      PROVE  InStep(k)'
  <2>1. /\ login'[k].claims = login[k].claims /\ login'[k].desired = login[k].desired
        /\ login'[k].stage = login[k].stage
        /\ login'[k].stage = "insert" => login'[k] = login[k]
    BY <1>1, <1>2, <1>3
  <2>2. Mapped(login[k].claims)' = Mapped(login[k].claims)
    BY <1>1, <1>2, <1>3 DEF Mapped
  <2>3. CASE login[k].user # login[l].user
    <3>1. k # l /\ login'[k] = login[k]
      BY <1>3, <2>3
    <3>2. \A g \in Group : MemberOf(k, g)' = MemberOf(k, g)
      BY <1>5, <1>6, <2>3
    <3> QED
      BY <1>6, <2>2, <3>1, <3>2 DEF InStep, Mapped
  <2>4. CASE login[k].user = login[l].user
    <3>1. InStep(l) /\ login[k].claims = login[l].claims
      BY <1>1, <1>6, <2>4 DEF SyncInv
    <3>2. h \notin M /\ M \subseteq Group
      BY <1>1, <3>1 DEF InStep, Mapped
    <3>3. Mapped(login[k].claims) = M
      BY <3>1
    <3>4. \A g \in Group : MemberOf(k, g)' =
             IF g = h /\ MemberOf(k, g) = "oidc" THEN None ELSE MemberOf(k, g)
      BY <1>5, <1>6, <2>4
    <3> HIDE DEF M
    <3>5. /\ login[k].desired \subseteq M
          /\ \A g \in M \ login[k].desired : MemberOf(k, g) # None
          /\ login[k].stage = "list" => login[k].desired = M
          /\ login[k].stage # "list" =>
                /\ M \cap login[k].existing \subseteq login[k].desired
                /\ \A g \in M \cap login[k].existing : MemberOf(k, g) # None
                /\ \A g \in Group \ M : MemberOf(k, g) = "oidc" => g \in login[k].existing
          /\ login[k].stage = "insert" =>
                login[k].adding \in login[k].desired \ login[k].existing
      BY <1>6, <3>3 DEF InStep
    <3>6. /\ login'[k].desired \subseteq M
          /\ \A g \in M \ login'[k].desired : MemberOf(k, g)' # None
          /\ login'[k].stage = "list" => login'[k].desired = M
          /\ login'[k].stage = "insert" =>
                login'[k].adding \in login'[k].desired \ login'[k].existing
      BY <2>1, <3>2, <3>4, <3>5
    <3>7. login'[k].stage # "list" =>
             /\ M \cap login'[k].existing \subseteq login'[k].desired
             /\ \A g \in M \cap login'[k].existing : MemberOf(k, g)' # None
             /\ \A g \in Group \ M : MemberOf(k, g)' = "oidc" => g \in login'[k].existing
      <4>1. CASE k = l
        BY <1>1, <1>2, <3>2, <3>4, <3>5, <4>1, NoneAssumption
      <4>2. CASE k # l
        BY <1>3, <3>2, <3>4, <3>5, <4>2, NoneAssumption
      <4> QED
        BY <4>1, <4>2
    <3> QED
      BY <2>2, <3>3, <3>6, <3>7 DEF InStep
  <2> QED
    BY <2>3, <2>4
<1> QED
  BY <1>1, <1>2, <1>3, <1>4, <1>6, SyncMoves

\* A login that looks for its account has listed nothing yet.
LEMMA ResolvesSync ==
    ASSUME TypeOK, SyncInv, NEW l \in Login, Resolves(l)
    PROVE  SyncInv'
<1> DEFINE Apart == \A k \in Login \ {l} : login'[k] = login[k]
           Before == login[l] = None
                     \/ login[l].stage \in {"find", "email", "create", "identify"}
           After == login'[l] = None
                    \/ login'[l].stage \in {"email", "create", "identify", "find", "map"}
<1>1. ASSUME NEW to \in {"email", "create", "identify"}, login[l] # None, Goes(l, to)
      PROVE  Apart /\ After
  BY <1>1 DEF Goes, TypeOK, LoginOK, LoginRow
<1>2. ASSUME Ends(l) PROVE Apart /\ After
  BY <1>2 DEF Ends, TypeOK, LoginOK
<1>3. ASSUME NEW e, Resolved(l, e) PROVE Apart /\ After
  BY <1>3 DEF Resolved, TypeOK, LoginOK
<1>4. ASSUME NEW s \in Subject, NEW e \in Email, NEW claims \in SUBSET External,
             Callback(l, s, e, claims)
      PROVE  UNCHANGED <<mappings, members, alone>> /\ Before /\ Apart /\ After
  BY <1>4 DEF Callback, TypeOK, LoginOK, tables
<1> HIDE DEF Apart, After
<1> DEFINE Moved == UNCHANGED <<mappings, members, alone>> /\ Before /\ Apart /\ After
<1>5. ASSUME FindIdentity(l) PROVE Moved
  BY <1>1, <1>2, <1>3, <1>5 DEF FindIdentity, At, tables
<1>6. ASSUME FindEmail(l) PROVE Moved
  BY <1>1, <1>2, <1>6 DEF FindEmail, At, tables
<1>7. ASSUME CreateUser(l) PROVE Moved
  BY <1>1, <1>2, <1>7 DEF CreateUser, At, tables
<1>8. ASSUME CreateIdentity(l) PROVE Moved
  BY <1>2, <1>3, <1>8 DEF CreateIdentity, At, tables
<1>9. UNCHANGED <<mappings, members, alone>> /\ Before /\ Apart /\ After
  BY <1>4, <1>5, <1>6, <1>7, <1>8 DEF Resolves
<1>10. \A k \in Login : login'[k] = login[k] \/ (~Listed(k) /\ ~Listed(k)')
  BY <1>9 DEF Apart, After, Listed
<1> QED
  BY <1>9, <1>10, SyncStays

\* Whoever is not a login crosses every synchronization whose tables it changes.
LEMMA OthersSync ==
    ASSUME TypeOK, SyncInv,
           Administers \/ \E e \in Email : Register(e) \/ MarkBootstrap(e)
    PROVE  SyncInv'
<1>1. UNCHANGED login
  BY DEF Administers, Configure, CreateGroup, DeleteGroup, RevokeProjectGrant,
         RemoveMember, RemoveOIDCMapping, Checks, AddMember, AddOIDCMapping,
         GrantProject, Administration, Changes, Answers, Register, MarkBootstrap
<1>2. alone' = {} \/ UNCHANGED <<mappings, members, alone>>
  BY DEF Administers, Configure, CreateGroup, DeleteGroup, RevokeProjectGrant,
         RemoveMember, RemoveOIDCMapping, Checks, AddMember, AddOIDCMapping,
         GrantProject, Register, MarkBootstrap, tables
<1>3. CASE alone' = {}
  BY <1>3 DEF SyncInv
<1>4. CASE UNCHANGED <<mappings, members, alone>>
  <2>1. \A k \in Login : login'[k] = login[k]
    BY <1>1
  <2> QED
    BY <1>4, <2>1, SyncStays
<1> QED
  BY <1>2, <1>3, <1>4

\* Every step keeps what nothing crossed in step.
LEMMA NextSync == ASSUME TypeOK, SyncInv, [Next]_vars PROVE SyncInv'
<1>1. CASE UNCHANGED vars
  <2>1. UNCHANGED <<mappings, members, alone>> /\ \A k \in Login : login'[k] = login[k]
    BY <1>1 DEF vars, tables
  <2> QED
    BY <2>1, SyncStays
<1>2. ASSUME NEW l \in Login, Synchronizes(l) \/ Fails(l)
      PROVE  SyncInv'
  <2>1. CASE CreateSession(l) \/ Fails(l)
    BY <2>1, EndsSync DEF CreateSession, Fails, tables
  <2> QED
    BY <1>2, <2>1, ListMappedSync, ListExistingSync, AddOIDCMemberSync, FindMemberSync,
       RemoveOIDCMemberSync DEF Synchronizes
<1> QED
  BY <1>1, <1>2, ResolvesSync, OthersSync DEF Next

\* A login that nothing crossed, and that has nothing left to add or to remove,
\* leaves exactly the memberships of its claim, whatever other logins of the account
\* with the same claim do meanwhile.
THEOREM SyncsAgree == Spec => []SyncAgrees
<1>1. Init => SyncInv
  BY DEF Init, SyncInv
<1>2. TypeOK /\ SyncInv => SyncAgrees
  <2> SUFFICES ASSUME TypeOK, SyncInv, NEW l \in alone, At(l, "add"),
                      login[l].desired = login[l].existing, NEW g \in Group
               PROVE  IF g \in Mapped(login[l].claims)
                        THEN members[<<g, login[l].user>>] # None
                        ELSE members[<<g, login[l].user>>] # "oidc"
    BY DEF SyncAgrees
  <2>1. l \in Login /\ InStep(l)
    BY DEF SyncInv, TypeOK
  <2> QED
    BY <2>1 DEF InStep, MemberOf, At
<1>3. Spec => [](TypeOK /\ SyncInv)
  BY <1>1, InitInv, NextType, NextSync, PTL DEF Spec, Inv
<1> QED
  BY <1>2, <1>3, PTL
=============================================================================
