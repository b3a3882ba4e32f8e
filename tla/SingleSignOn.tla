---------------------------- MODULE SingleSignOn ----------------------------
(***************************************************************************)
(* Logins through the identity provider, statement by statement: finding   *)
(* or making the account of a subject, then bringing the groups of the     *)
(* account in line with the groups of the claim, while administrators edit *)
(* groups, mappings and members.  No table references another, so that     *)
(* rows of a deleted group can be written.  One project grants roles.      *)
(***************************************************************************)
EXTENDS Integers

CONSTANTS Email,      \* of accounts, each of which it identifies
          Subject,    \* subjects of the provider
          External,   \* groups of the provider
          Group,      \* ids of access groups
          Login,      \* callbacks from the provider
          Request,    \* requests of administrators that check, then write
          MaxChanges, \* bound: changes by others than logins
          None

AccountRow == [password : BOOLEAN, bootstrap : BOOLEAN]

ASSUME NoneAssumption ==
    /\ None \notin Email \cup Subject \cup Group \cup AccountRow \cup {"local", "oidc"}
    /\ MaxChanges \in Nat

VARIABLES users,      \* the accounts
          identity,   \* the account of a subject
          sso,        \* whether the provider is used, and makes accounts
          group,      \* "none", "live" or "gone"
          mappings,   \* which external groups stand for which access groups
          members,    \* the source of a membership
          grants,     \* the groups with a role in the project
          login, request, changes,
          alone       \* ghost: the synchronizations that nothing crossed

accounts == <<users, identity>>
tables == <<group, mappings, members, grants>>
vars == <<users, identity, sso, group, mappings, members, grants, login, request,
          changes, alone>>

\* Single sign-on and some groups are configured; nobody has used them yet.
Init ==
    /\ users = [e \in Email |-> None]
    /\ identity = [s \in Subject |-> None]
    /\ sso \in {"strict", "jit"}
    /\ group \in [Group -> {"none", "live"}]
    /\ mappings \in SUBSET {m \in Group \X External : group[m[1]] = "live"}
    /\ members = [m \in Group \X Email |-> None] /\ grants = {}
    /\ login = [l \in Login |-> None] /\ request = [r \in Request |-> None]
    /\ changes = 0 /\ alone = {}
-----------------------------------------------------------------------------
(* Accounts.                                                               *)

\* Whatever is not a login is bounded, and changes no login.
Changes == changes < MaxChanges /\ changes' = changes + 1 /\ UNCHANGED login

Account(password) == [password |-> password, bootstrap |-> FALSE]

\* A user signs up, or the seed command makes the first administrator.
Register(e) ==
    /\ Changes /\ users[e] = None
    /\ users' = [users EXCEPT ![e] = Account(TRUE)]
    /\ UNCHANGED <<identity, sso, tables, request, alone>>

\* The seed command marks its account, whoever made it.
MarkBootstrap(e) ==
    /\ Changes /\ users[e] # None
    /\ users' = [users EXCEPT ![e] = [password |-> @.password, bootstrap |-> TRUE]]
    /\ UNCHANGED <<identity, sso, tables, request, alone>>

Bootstrap == {e \in Email : users[e] # None /\ users[e].bootstrap}
-----------------------------------------------------------------------------
(* A login.                                                                *)

At(l, stage) == login[l] # None /\ login[l].stage = stage
Goes(l, stage) == login' = [login EXCEPT ![l].stage = stage]
Ends(l) == login' = [login EXCEPT ![l] = None]

\* The settings are read before the provider is asked who has come; "marked" is a
\* ghost, the bootstrap administrators at that moment.
Callback(l, s, e, claims) ==
    /\ login[l] = None /\ sso # "off"
    /\ login' = [login EXCEPT ![l] =
          [stage |-> "find", subject |-> s, email |-> e, claims |-> claims,
           jit |-> sso = "jit", marked |-> Bootstrap, user |-> None,
           desired |-> {}, existing |-> {}, adding |-> None]]
    /\ UNCHANGED <<accounts, sso, tables, request, changes, alone>>

\* LoginOIDC has found the account: all of it that is used from now on.
Resolved(l, e) ==
    login' = [login EXCEPT ![l] =
        [stage |-> "map", subject |-> None, email |-> None, claims |-> login[l].claims,
         jit |-> FALSE, marked |-> login[l].marked \cap {e}, user |-> e,
         desired |-> {}, existing |-> {}, adding |-> None]]

\* Mutant of FindIdentity: only an account found by its e-mail is looked at.
FindIdentityUnchecked(l) ==
    /\ At(l, "find")
    /\ LET e == identity[login[l].subject] IN
          IF e = None THEN Goes(l, "email") ELSE Resolved(l, e)
    /\ UNCHANGED <<accounts, sso, tables, request, changes, alone>>

\* An identity keeps its user and users stay, so that it and its user are one read.
FindIdentity(l) ==
    /\ At(l, "find")
    /\ LET e == identity[login[l].subject] IN
          IF e = None
            THEN Goes(l, "email")
            ELSE IF users[e].bootstrap THEN Ends(l) ELSE Resolved(l, e)
    /\ UNCHANGED <<accounts, sso, tables, request, changes, alone>>

\* Mutant of FindEmail: an account with the e-mail is linked to the subject.
FindEmailLinking(l) ==
    /\ At(l, "email")
    /\ IF users[login[l].email] = None
         THEN IF login[l].jit THEN Goes(l, "create") ELSE Ends(l)
         ELSE IF users[login[l].email].bootstrap THEN Ends(l) ELSE Goes(l, "identify")
    /\ UNCHANGED <<accounts, sso, tables, request, changes, alone>>

FindEmail(l) ==
    /\ At(l, "email")
    /\ IF users[login[l].email] = None /\ login[l].jit
         THEN Goes(l, "create") ELSE Ends(l)
    /\ UNCHANGED <<accounts, sso, tables, request, changes, alone>>

\* E-mails are unique, and so are the identities of a subject.
CreateUser(l) ==
    /\ At(l, "create")
    /\ IF users[login[l].email] = None
         THEN /\ users' = [users EXCEPT ![login[l].email] = Account(FALSE)]
              /\ Goes(l, "identify")
         ELSE Ends(l) /\ UNCHANGED users
    /\ UNCHANGED <<identity, sso, tables, request, changes, alone>>

CreateIdentity(l) ==
    /\ At(l, "identify")
    /\ LET s == login[l].subject IN
          IF identity[s] = None
            THEN /\ identity' = [identity EXCEPT ![s] = login[l].email]
                 /\ Resolved(l, login[l].email)
            ELSE Ends(l) /\ UNCHANGED identity
    /\ UNCHANGED <<users, sso, tables, request, changes, alone>>
-----------------------------------------------------------------------------
(* The synchronization of its groups, SyncOIDCGroups.                      *)

Mapped(claims) == {g \in Group : \E x \in claims : <<g, x>> \in mappings}
FromProvider(e) == {g \in Group : members[<<g, e>>] = "oidc"}
Syncs(l) == login[l] # None /\ login[l].stage \in {"map", "list", "add", "insert"}

\* An overlapping synchronization of the same account, by another claim or by
\* mappings that have been listed before they were changed.
Crosses(k, l) ==
    /\ k # l /\ Syncs(k) /\ login[k].user = login[l].user
    /\ \/ login[k].claims # login[l].claims
       \/ login[k].stage # "map" /\ k \notin alone

\* Mutant of ListMapped: a claim without groups leaves the memberships alone.
ListMappedUnlessNone(l) ==
    /\ At(l, "map")
    /\ login' = [login EXCEPT ![l].stage = IF login[l].claims = {} THEN "add" ELSE "list",
                              ![l].desired = Mapped(login[l].claims)]
    /\ alone' = {k \in alone \ {l} : ~Crosses(k, l)} \cup
                (IF \E k \in Login : Crosses(k, l) THEN {} ELSE {l})
    /\ UNCHANGED <<accounts, sso, tables, request, changes>>

ListMapped(l) ==
    /\ At(l, "map")
    /\ login' = [login EXCEPT ![l].stage = "list",
                              ![l].desired = Mapped(login[l].claims)]
    /\ alone' = {k \in alone \ {l} : ~Crosses(k, l)} \cup
                (IF \E k \in Login : Crosses(k, l) THEN {} ELSE {l})
    /\ UNCHANGED <<accounts, sso, tables, request, changes>>

ListExisting(l) ==
    /\ At(l, "list")
    /\ login' = [login EXCEPT ![l].stage = "add",
                              ![l].existing = FromProvider(login[l].user)]
    /\ UNCHANGED <<accounts, sso, tables, request, changes, alone>>

\* The groups are taken in any order.  A membership of either source is enough.
FindMember(l, g) ==
    /\ At(l, "add") /\ g \in login[l].desired \ login[l].existing
    /\ login' =
          IF members[<<g, login[l].user>>] # None
            THEN [login EXCEPT ![l].desired = @ \ {g}]
            ELSE [login EXCEPT ![l].stage = "insert", ![l].adding = g]
    /\ UNCHANGED <<accounts, sso, tables, request, changes, alone>>

AddOIDCMember(l) ==
    /\ At(l, "insert")
    /\ LET m == <<login[l].adding, login[l].user>> IN
          IF members[m] = None
            THEN /\ members' = [members EXCEPT ![m] = "oidc"]
                 /\ login' = [login EXCEPT ![l].stage = "add", ![l].adding = None,
                                           ![l].desired = @ \ {login[l].adding}]
                 /\ UNCHANGED alone
            ELSE Ends(l) /\ alone' = alone \ {l} /\ UNCHANGED members
    /\ UNCHANGED <<accounts, sso, group, mappings, grants, request, changes>>

\* Mutant of RemoveOIDCMember: whatever the source.
RemoveAnyMember(l, g) ==
    /\ At(l, "add") /\ login[l].desired \subseteq login[l].existing
    /\ g \in login[l].existing \ login[l].desired
    /\ members' = [members EXCEPT ![<<g, login[l].user>>] = None]
    /\ login' = [login EXCEPT ![l].existing = @ \ {g}]
    /\ UNCHANGED <<accounts, sso, group, mappings, grants, request, changes, alone>>

RemoveOIDCMember(l, g) ==
    /\ At(l, "add") /\ login[l].desired \subseteq login[l].existing
    /\ g \in login[l].existing \ login[l].desired
    /\ members' = [members EXCEPT ![<<g, login[l].user>>] = IF @ = "oidc" THEN None ELSE @]
    /\ login' = [login EXCEPT ![l].existing = @ \ {g}]
    /\ UNCHANGED <<accounts, sso, group, mappings, grants, request, changes, alone>>

\* The groups are as the claim says: the refresh token is written.
CreateSession(l) ==
    /\ At(l, "add") /\ login[l].desired = login[l].existing
    /\ Ends(l) /\ alone' = alone \ {l}
    /\ UNCHANGED <<accounts, sso, tables, request, changes>>

\* Any statement may fail; what the earlier ones have written stays.
Fails(l) ==
    /\ login[l] # None /\ Ends(l)
    /\ alone' = alone \ {l}
    /\ UNCHANGED <<accounts, sso, tables, request, changes>>
-----------------------------------------------------------------------------
(* Administrators.  What is checked before a row is inserted may be out of *)
(* date when it is: only a second row with the same key is refused.        *)

Administration ==
    /\ Changes /\ UNCHANGED accounts

Configure(mode) ==
    /\ Administration /\ mode # sso /\ sso' = mode
    /\ UNCHANGED <<tables, request, alone>>

\* Ids are never used again.
CreateGroup(g) ==
    /\ Administration /\ group[g] = "none"
    /\ group' = [group EXCEPT ![g] = "live"]
    /\ UNCHANGED <<sso, mappings, members, grants, request, alone>>

\* One transaction, which leaves the mappings.
DeleteGroup(g) ==
    /\ Administration /\ group[g] = "live"
    /\ group' = [group EXCEPT ![g] = "gone"]
    /\ members' = [m \in Group \X Email |-> IF m[1] = g THEN None ELSE members[m]]
    /\ grants' = grants \ {g}
    /\ alone' = {}
    /\ UNCHANGED <<sso, mappings, request>>

\* The checks of AddMember, AddOIDCMapping and GrantProject.
Checks(r, ask) ==
    /\ Administration /\ request[r] = None /\ group[ask.group] = "live"
    /\ ask.adds = "member" =>
          users[ask.user] # None /\ members[<<ask.group, ask.user>>] = None
    /\ ask.adds = "grant" => ask.group \notin grants
    /\ request' = [request EXCEPT ![r] = ask]
    /\ UNCHANGED <<sso, tables, alone>>

Answers(r) ==
    /\ request' = [request EXCEPT ![r] = None]
    /\ UNCHANGED <<accounts, sso, group, login, changes>>

AddMember(r) ==
    /\ request[r] # None /\ request[r].adds = "member" /\ Answers(r)
    /\ LET m == <<request[r].group, request[r].user>> IN
          members' = [members EXCEPT ![m] = IF @ = None THEN "local" ELSE @]
    /\ alone' = {}
    /\ UNCHANGED <<mappings, grants>>

AddOIDCMapping(r) ==
    /\ request[r] # None /\ request[r].adds = "mapping" /\ Answers(r)
    /\ mappings' = mappings \cup {<<request[r].group, request[r].external>>}
    /\ alone' = {}
    /\ UNCHANGED <<members, grants>>

GrantProject(r) ==
    /\ request[r] # None /\ request[r].adds = "grant" /\ Answers(r)
    /\ grants' = grants \cup {request[r].group}
    /\ UNCHANGED <<mappings, members, alone>>

\* These ask for nothing before they delete.
RemoveMember(m) ==
    /\ Administration /\ members[m] # None
    /\ members' = [members EXCEPT ![m] = None] /\ alone' = {}
    /\ UNCHANGED <<sso, group, mappings, grants, request>>

RemoveOIDCMapping(m) ==
    /\ Administration /\ mappings' = mappings \ {m} /\ alone' = {}
    /\ UNCHANGED <<sso, group, members, grants, request>>

RevokeProjectGrant(g) ==
    /\ Administration /\ grants' = grants \ {g}
    /\ UNCHANGED <<sso, group, mappings, members, request, alone>>
-----------------------------------------------------------------------------
Asks ==
    [adds : {"member"}, group : Group, user : Email]
    \cup [adds : {"mapping"}, group : Group, external : External]
    \cup [adds : {"grant"}, group : Group]

Resolves(l) ==
    \/ \E s \in Subject, e \in Email, claims \in SUBSET External : Callback(l, s, e, claims)
    \/ FindIdentity(l) \/ FindEmail(l)
    \/ CreateUser(l) \/ CreateIdentity(l)

Synchronizes(l) ==
    \/ ListMapped(l) \/ ListExisting(l) \/ AddOIDCMember(l)
    \/ \E g \in Group : FindMember(l, g) \/ RemoveOIDCMember(l, g)
    \/ CreateSession(l)

Administers ==
    \/ \E mode \in {"off", "strict", "jit"} : Configure(mode)
    \/ \E g \in Group : CreateGroup(g) \/ DeleteGroup(g) \/ RevokeProjectGrant(g)
    \/ \E m \in Group \X Email : RemoveMember(m)
    \/ \E m \in mappings : RemoveOIDCMapping(m)
    \/ \E r \in Request :
          \/ \E ask \in Asks : Checks(r, ask)
          \/ AddMember(r) \/ AddOIDCMapping(r) \/ GrantProject(r)

Next ==
    \/ \E e \in Email : Register(e) \/ MarkBootstrap(e)
    \/ \E l \in Login : Resolves(l) \/ Synchronizes(l) \/ Fails(l)
    \/ Administers

Spec == Init /\ [][Next]_vars
-----------------------------------------------------------------------------
Source == {None, "local", "oidc"}
Stage == {"find", "email", "create", "identify", "map", "list", "add", "insert"}
LoginRow ==
    [stage : Stage, subject : Subject \cup {None}, email : Email \cup {None},
     claims : SUBSET External, jit : BOOLEAN, marked : SUBSET Email,
     user : Email \cup {None}, desired : SUBSET Group, existing : SUBSET Group,
     adding : Group \cup {None}]

ASSUME NoLoginAssumption == None \notin LoginRow

LoginOK ==
    /\ login \in [Login -> LoginRow \cup {None}]
    /\ \A l \in Login : login[l] # None =>
          /\ ~Syncs(l) => login[l].subject \in Subject /\ login[l].email \in Email
          /\ Syncs(l) => login[l].user \in Email
          /\ At(l, "insert") => login[l].adding \in Group

\* The columns of the tables; and a login knows who comes until it has an account,
\* that account from then on, and the group that it adds (LoginOIDC and
\* SyncOIDCGroups).
TypeOK ==
    /\ users \in [Email -> AccountRow \cup {None}]
    /\ identity \in [Subject -> Email \cup {None}]
    /\ sso \in {"off", "strict", "jit"}
    /\ group \in [Group -> {"none", "live", "gone"}]
    /\ members \in [Group \X Email -> Source]
    /\ mappings \subseteq Group \X External /\ grants \subseteq Group
    /\ request \in [Request -> Asks \cup {None}]
    /\ LoginOK
    /\ changes \in 0 .. MaxChanges /\ alone \subseteq Login

\* An account that somebody has signed up for is never linked to a subject by its
\* e-mail (auth.go:159), and an account stands for one subject, whatever first
\* logins overlap or fail between the user and the identity.
OneAccountPerSubject ==
    \A s \in Subject : identity[s] # None =>
        /\ users[identity[s]] # None /\ ~users[identity[s]].password
        /\ \A t \in Subject : identity[t] = identity[s] => t = s

\* No login signs a bootstrap administrator in that was one when it began
\* (README.md:59), whichever way it finds the account.
BootstrapStaysLocal ==
    \A l \in Login : login[l] # None => login[l].user \notin login[l].marked

\* A login takes no membership away that an administrator has given, also when it
\* was a membership by claim as the login read it (access.go:126).
LocalMembershipStays ==
    [][login' # login =>
         \A m \in Group \X Email : members[m] = "local" => members'[m] = "local"]_vars

\* A login that nothing crossed ends with the memberships of its claim, whatever
\* earlier logins have left behind (SyncOIDCGroups).
SyncAgrees ==
    \A l \in alone : At(l, "add") /\ login[l].desired = login[l].existing =>
        \A g \in Group :
            IF g \in Mapped(login[l].claims)
              THEN members[<<g, login[l].user>>] # None
              ELSE members[<<g, login[l].user>>] # "oidc"
=============================================================================
