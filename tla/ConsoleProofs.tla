---------------------------- MODULE ConsoleProofs ----------------------------
(***************************************************************************)
(* Proofs about Console, for any projects, environments, keys, mutations   *)
(* and tours: its type invariant, that a change goes where it was shown,   *)
(* that it is seen once the list has been fetched, that results belong to  *)
(* the form, and that pages load.                                          *)
(***************************************************************************)
EXTENDS Console, TLAPS

-----------------------------------------------------------------------------
(* Lists, and who may ask for them.                                        *)

\* The lists of the pages.
LEMMA Lists ==
    List = {"environments", "flags", "parameters", "members", "context-fields",
            "project-access-groups", "api-keys"}
BY DEF List, Page, ListsOf

\* A list is asked for by its project, and by an environment if it has one.
LEMMA Queries ==
    /\ \A q \in Query : /\ q.list \in List /\ q.project \in Project
                        /\ q.environment \in Environment \cup {None}
                        /\ q = QueryKey(q.list, q.project, q.environment)
                        /\ q.environment = None <=> q.list \notin PerEnvironment
    /\ \A p \in Project : EnvironmentsOf(p) \in Query
    /\ \A p \in Project, e \in Environment, list \in List : QueryKey(list, p, e) \in Query
<1>1. Default \in Environment /\ None \notin Environment
  BY WorkspaceAssumption
<1>2. "environments" \in List /\ "environments" \notin PerEnvironment
  BY DEF List, PerEnvironment
<1>3. ASSUME NEW q \in Query
      PROVE  /\ q.list \in List /\ q.project \in Project
             /\ q.environment \in Environment \cup {None}
             /\ q = QueryKey(q.list, q.project, q.environment)
             /\ q.environment = None <=> q.list \notin PerEnvironment
  BY <1>1 DEF Query, QueryKey
<1>4. ASSUME NEW p \in Project PROVE EnvironmentsOf(p) \in Query
  BY <1>2 DEF EnvironmentsOf, Query, QueryKey
<1>5. ASSUME NEW p \in Project, NEW e \in Environment, NEW list \in List
      PROVE  QueryKey(list, p, e) \in Query
  BY DEF Query, QueryKey
<1> QED
  BY <1>3, <1>4, <1>5

\* What is on screen are lists that can be asked for, of the project.
LEMMA OnScreenAreQueries ==
    ASSUME NEW loc \in Location \cup {ProjectList}, NEW e, NEW form
    PROVE  /\ Shown(loc, e, form) \subseteq Query
           /\ \A q \in Shown(loc, e, form) : q.project = loc.project
           /\ loc # ProjectList => EnvironmentsOf(loc.project) \in Shown(loc, e, form)
<1>1. CASE loc = ProjectList
  BY <1>1 DEF Shown
<1>2. CASE loc # ProjectList
  <2>1. loc \in Location /\ loc.project \in Project
    BY <1>2 DEF Location
  <2>2. EnvironmentsOf(loc.project) \in Query
        /\ EnvironmentsOf(loc.project).project = loc.project
    BY <2>1, Queries DEF EnvironmentsOf, QueryKey
  <2> QED
    BY <1>2, <2>2 DEF Shown, QueryKey
<1> QED
  BY <1>1, <1>2

-----------------------------------------------------------------------------
(* The cache.                                                              *)

ContentOf(q) == [rev : Nat, rows : [KeysOf(q.list) -> RowState]]

Entry(q) == [data : ContentOf(q) \cup {None}, fetch : {"idle", "sent", "answered"},
             answer : ContentOf(q) \cup {None}, owed : Nat]

\* A list never goes back, and one of the same revision is the same.
Older(a, b) == a.rev <= b.rev /\ (a.rev = b.rev => a = b)

\* Data, answer and server follow each other, and a change that its page was told of
\* is in the answer that comes, and in the data once nothing comes.
EntryOK(x, content) ==
    /\ x.answer # None <=> x.fetch = "answered"
    /\ x.data # None => Older(x.data, content)
    /\ x.answer # None => Older(x.answer, content) /\ x.owed <= x.answer.rev
    /\ x.data # None /\ x.answer # None => Older(x.data, x.answer)
    /\ x.owed <= content.rev
    /\ x.fetch = "idle" /\ x.data # None => x.owed <= x.data.rev

CacheOK(held, rows) ==
    /\ DOMAIN held = Query
    /\ \A q \in Query : held[q] \in Entry(q) /\ EntryOK(held[q], rows[q])

ServerOK(rows) ==
    /\ DOMAIN rows = Query
    /\ \A q \in Query : rows[q] \in ContentOf(q)

\* No list is of the type of None.
LEMMA ContentIsSome ==
    \A q \in Query : ContentOf(q) \subseteq Content /\ None \notin ContentOf(q)
<1> SUFFICES ASSUME NEW q \in Query PROVE ContentOf(q) \subseteq Content
  BY ContentAssumption
<1> QED
  BY Queries DEF ContentOf, Content

\* What is fetched loses nothing.
LEMMA FetchAllKeeps ==
    ASSUME NEW held, NEW rows, NEW mounted, CacheOK(held, rows)
    PROVE  /\ CacheOK(FetchAll(held, mounted), rows)
           /\ \A q \in Query :
                 /\ FetchAll(held, mounted)[q].data = held[q].data
                 /\ IsLoading(held[q]) => IsLoading(FetchAll(held, mounted)[q])
<1> DEFINE new == FetchAll(held, mounted)
<1>1. DOMAIN new = Query
  BY DEF FetchAll, CacheOK
<1>2. ASSUME NEW q \in Query
      PROVE  /\ new[q] \in Entry(q) /\ EntryOK(new[q], rows[q])
             /\ new[q].data = held[q].data
             /\ IsLoading(held[q]) => IsLoading(new[q])
  <2>1. held[q] \in Entry(q) /\ EntryOK(held[q], rows[q])
    BY DEF CacheOK
  <2>2. CASE new[q] = held[q]
    BY <2>1, <2>2
  <2>3. CASE held[q].fetch = "idle" /\ new[q] = [held[q] EXCEPT !.fetch = "sent"]
    <3>1. /\ new[q] \in Entry(q) /\ new[q].data = held[q].data /\ new[q].fetch = "sent"
          /\ new[q].answer = held[q].answer /\ new[q].owed = held[q].owed
      BY <2>1, <2>3 DEF Entry
    <3> QED
      BY <2>1, <2>3, <3>1 DEF EntryOK, IsLoading
  <2>4. new[q] = IF q \in mounted /\ held[q].fetch = "idle"
                 THEN [held[q] EXCEPT !.fetch = "sent"] ELSE held[q]
    BY DEF FetchAll, CacheOK
  <2> QED
    BY <2>2, <2>3, <2>4
<1> QED
  BY <1>1, <1>2 DEF CacheOK

\* A fetch that is restarted loses nothing.
LEMMA InvalidateKeeps ==
    ASSUME NEW held, NEW rows, NEW q \in Query, NEW onScreen, CacheOK(held, rows)
    PROVE  LET new == Invalidate(held, q, onScreen) IN
           /\ CacheOK(new, rows)
           /\ \A r \in Query : /\ new[r].data = held[r].data /\ new[r].owed = held[r].owed
                               /\ IsLoading(held[r]) => IsLoading(new[r])
           /\ q \in onScreen /\ held[q].data # None => new[q].fetch = "sent"
<1> DEFINE new == Invalidate(held, q, onScreen)
<1>1. held[q] \in Entry(q) /\ EntryOK(held[q], rows[q]) /\ DOMAIN held = Query
  BY DEF CacheOK
<1>2. CASE new = held /\ ~(q \in onScreen /\ held[q].data # None)
  BY <1>2
<1>3. CASE /\ new = [held EXCEPT ![q].fetch = "sent", ![q].answer = None]
           /\ held[q].fetch = "idle" \/ held[q].data # None
  <2>1. /\ DOMAIN new = Query /\ \A r \in Query \ {q} : new[r] = held[r]
        /\ new[q] = [held[q] EXCEPT !.fetch = "sent", !.answer = None]
    BY <1>1, <1>3
  <2>2. /\ new[q] \in Entry(q) /\ new[q].data = held[q].data /\ new[q].fetch = "sent"
        /\ new[q].answer = None /\ new[q].owed = held[q].owed
    BY <1>1, <2>1 DEF Entry
  <2>3. EntryOK(new[q], rows[q])
    BY <1>1, <2>2 DEF EntryOK
  <2>4. IsLoading(held[q]) => IsLoading(new[q])
    BY <2>2 DEF IsLoading
  <2> QED
    BY <2>1, <2>2, <2>3, <2>4 DEF CacheOK
<1> QED
  BY <1>2, <1>3 DEF Invalidate

-----------------------------------------------------------------------------
(* The form of the playground.                                             *)

AtForm(loc) == loc # ProjectList /\ loc.page = "playground"

Evaluation == [status : {"pending", "success"}, env : Environment, text : Text]

FormRow ==
    [env : Environment \cup {None}, initialized : Environment \cup {None},
     selected : Environment \cup {None}, text : Text,
     evaluation : Evaluation \cup {None}]

\* Flags are selected of the environment that was initialized last, and results,
\* or an evaluation under way, are of the form but for what the header moved.
FormOK(loc, e, form) ==
    /\ form \in FormRow
    /\ ~AtForm(loc) => form = FreshForm
    /\ form.env = None => form.initialized = None
    /\ form.selected \in {None, form.initialized}
    /\ AtForm(loc) /\ e # None => form.env # None
    /\ form.evaluation # None =>
          form.evaluation.text = form.text /\ form.env \in {form.evaluation.env, e}

\* The flags of its environment have been initialized, or are to be.
FlagsOK(loc, form, held) ==
    AtForm(loc) /\ form.env # None =>
        \/ form.initialized = form.env
        \/ IsLoading(held[QueryKey("flags", loc.project, form.env)])

LEMMA FreshFormOK ==
    ASSUME NEW loc, NEW e, AtForm(loc) => e = None
    PROVE  FormOK(loc, e, FreshForm)
BY DEF FormOK, FormRow, FreshForm, Text

\* The form follows the environment of the provider.
LEMMA FollowKeeps ==
    ASSUME NEW loc \in Location, NEW old, NEW e \in Environment \cup {None}, NEW form,
           FormOK(loc, old, form), e # None \/ e = old
    PROVE  FormOK(loc, e, Follow(loc, form, e))
<1>1. loc # ProjectList
  BY WorkspaceAssumption DEF Location, ProjectList
<1>2. CASE loc.page = "playground" /\ e # None
  <2> DEFINE new == [form EXCEPT !.env = e]
  <2>1. /\ new \in FormRow /\ new.env = e /\ new.initialized = form.initialized
        /\ new.selected = form.selected /\ new.text = form.text
        /\ new.evaluation = form.evaluation
    BY <1>2 DEF FormOK, FormRow
  <2>2. Follow(loc, form, e) = new
    BY <1>2 DEF Follow
  <2> HIDE DEF new
  <2> QED
    BY <1>1, <1>2, <2>1, <2>2 DEF FormOK, AtForm
<1>3. CASE ~(loc.page = "playground" /\ e # None)
  <2>1. Follow(loc, form, e) = form
    BY <1>3 DEF Follow
  <2>2. CASE loc.page # "playground"
    <3>1. form = FreshForm /\ ~AtForm(loc)
      BY <2>2 DEF FormOK, AtForm
    <3> QED
      BY <2>1, <3>1, FreshFormOK
  <2> QED
    BY <1>3, <2>1, <2>2
<1> QED
  BY <1>2, <1>3

\* The flags are selected once they are there.
LEMMA InitializedKeeps ==
    ASSUME NEW loc, NEW e, NEW form, NEW held, FormOK(loc, e, form)
    PROVE  /\ FormOK(loc, e, Initialized(loc, form, held))
           /\ FlagsOK(loc, Initialized(loc, form, held), held)
<1> DEFINE q == QueryKey("flags", loc.project, form.env)
           new == Initialized(loc, form, held)
<1>1. CASE \/ loc.page # "playground" \/ form.env = None
           \/ form.initialized = form.env \/ IsLoading(held[q])
  <2>1. new = form
    BY <1>1 DEF Initialized
  <2> QED
    BY <1>1, <2>1 DEF FlagsOK, AtForm
<1>2. CASE ~(\/ loc.page # "playground" \/ form.env = None
             \/ form.initialized = form.env \/ IsLoading(held[q]))
  <2>1. \E s \in {None, form.env} :
           new = [form EXCEPT !.initialized = form.env, !.selected = s]
    BY <1>2 DEF Initialized
  <2>2. PICK s \in {None, form.env} :
           new = [form EXCEPT !.initialized = form.env, !.selected = s]
    BY <2>1
  <2>3. form \in FormRow
    BY DEF FormOK
  <2>4. /\ new \in FormRow /\ new.env = form.env /\ new.initialized = form.env
        /\ new.selected = s /\ new.text = form.text
        /\ new.evaluation = form.evaluation
    BY <2>2, <2>3 DEF FormRow
  <2>5. AtForm(loc)
    BY <1>2 DEF FormOK, FreshForm
  <2> QED
    BY <1>2, <2>4, <2>5 DEF FormOK, FlagsOK
<1> QED
  BY <1>1, <1>2

\* What a change of the environment, of the lists or of the form leads to.
LEMMA RenderKeeps ==
    ASSUME at \in Location \cup {ProjectList}, NEW e \in Environment \cup {None},
           NEW held, NEW form, CacheOK(held, server), FormOK(at, envKey, form),
           e # envKey => at \in Location /\ e # None,
           Render(e, held, form)
    PROVE  /\ envKey' = e /\ CacheOK(cache', server)
           /\ \A q \in Query : cache'[q].data = held[q].data
           /\ FormOK(at, e, play') /\ FlagsOK(at, play', cache')
<1> DEFINE followed == IF e # envKey THEN Follow(at, form, e) ELSE form
           mounted == Shown(at, e, followed) \ OnScreen
<1>1. /\ envKey' = e /\ cache' = FetchAll(held, mounted)
      /\ play' = Initialized(at, followed, cache')
  BY DEF Render
<1>2. FormOK(at, e, followed)
  BY FollowKeeps
<1> HIDE DEF followed, mounted
<1>3. CacheOK(cache', server) /\ \A q \in Query : cache'[q].data = held[q].data
  BY <1>1, FetchAllKeeps
<1>4. FormOK(at, e, play') /\ FlagsOK(at, play', cache')
  BY <1>1, <1>2, InitializedKeeps
<1> QED
  BY <1>1, <1>3, <1>4

-----------------------------------------------------------------------------
(* Dialogs and mutations.                                                  *)

Name == {"toggleFlag", "flagAction", "createFlag", "upsert", "remove", "addMember",
         "updateRole", "removeMember", "linkGroup", "updateGroupRole", "unlinkGroup",
         "createEnvironment", "renameEnvironment", "deleteEnvironment", "saveField",
         "deleteField", "createKey", "revokeKey"}

MutationRow ==
    [name : Name, list : List, accepted : SUBSET RowState,
     becomes : RowState \cup {"same"}]

Target == [list : List, project : Project, environment : Environment \cup {None}]
Rendered == [project : Project, environment : Environment \cup {None}]

LEMMA MutationType ==
    ASSUME NEW name \in Name, NEW list \in List, NEW accepted \in SUBSET RowState,
           NEW becomes \in RowState \cup {"same"}
    PROVE  /\ Mutation(name, list, accepted, becomes) \in MutationRow
           /\ Mutation(name, list, accepted, becomes).list = list
           /\ Mutation(name, list, accepted, becomes).name = name
BY DEF Mutation, MutationRow

\* The mutation m is one of the list, and called so.
Changing(m, name, list) == m \in MutationRow /\ m.name = name /\ m.list = list

LEMMA AllMutations ==
    /\ Changing(ToggleFlag, "toggleFlag", "flags")
    /\ Changing(ArchiveFlag, "flagAction", "flags")
    /\ Changing(UnarchiveFlag, "flagAction", "flags")
    /\ Changing(DeleteFlag, "flagAction", "flags")
    /\ Changing(CreateFlag, "createFlag", "flags")
    /\ Changing(Upsert, "upsert", "parameters")
    /\ Changing(RemoveParameter, "remove", "parameters")
    /\ Changing(AddMember, "addMember", "members")
    /\ Changing(UpdateRole, "updateRole", "members")
    /\ Changing(RemoveMember, "removeMember", "members")
    /\ Changing(LinkGroup, "linkGroup", "project-access-groups")
    /\ Changing(UpdateGroupRole, "updateGroupRole", "project-access-groups")
    /\ Changing(UnlinkGroup, "unlinkGroup", "project-access-groups")
    /\ Changing(CreateEnvironment, "createEnvironment", "environments")
    /\ Changing(RenameEnvironment, "renameEnvironment", "environments")
    /\ Changing(DeleteEnvironment, "deleteEnvironment", "environments")
    /\ Changing(CreateField, "saveField", "context-fields")
    /\ Changing(UpdateField, "saveField", "context-fields")
    /\ Changing(DeleteField, "deleteField", "context-fields")
    /\ Changing(CreateKey, "createKey", "api-keys")
    /\ Changing(RevokeKey, "revokeKey", "api-keys")
<1>1. ASSUME NEW name \in Name, NEW list \in List
      PROVE  /\ Changing(Creates(name, list), name, list)
             /\ Changing(Changes(name, list), name, list)
             /\ Changing(Deletes(name, list), name, list)
             /\ \A accepted \in {Exists, {"plain"}, RowState}, becomes \in RowState :
                   Changing(Mutation(name, list, accepted, becomes), name, list)
  <2>1. /\ Exists \in SUBSET RowState /\ {"none"} \in SUBSET RowState
        /\ {"plain"} \in SUBSET RowState /\ RowState \in SUBSET RowState
        /\ {"none", "plain", "marked"} \subseteq RowState
    BY DEF Exists, RowState
  <2> QED
    BY <2>1, MutationType DEF Creates, Changes, Deletes, Changing
<1>2. {"none", "plain", "marked"} \subseteq RowState
  BY DEF RowState
<1>3. /\ Changing(ToggleFlag, "toggleFlag", "flags")
      /\ Changing(CreateFlag, "createFlag", "flags")
      /\ Changing(ArchiveFlag, "flagAction", "flags")
      /\ Changing(UnarchiveFlag, "flagAction", "flags")
      /\ Changing(DeleteFlag, "flagAction", "flags")
  <2>1. "flags" \in List /\ {"createFlag", "flagAction", "toggleFlag"} \subseteq Name
    BY Lists DEF Name
  <2> QED
    BY <1>1, <1>2, <2>1 DEF ToggleFlag, CreateFlag, ArchiveFlag, UnarchiveFlag, DeleteFlag
<1>4. /\ Changing(Upsert, "upsert", "parameters")
      /\ Changing(RemoveParameter, "remove", "parameters")
  <2>1. "parameters" \in List /\ {"remove", "upsert"} \subseteq Name
    BY Lists DEF Name
  <2> QED
    BY <1>1, <1>2, <2>1 DEF Upsert, RemoveParameter
<1>5. /\ Changing(AddMember, "addMember", "members")
      /\ Changing(UpdateRole, "updateRole", "members")
      /\ Changing(RemoveMember, "removeMember", "members")
  <2>1. "members" \in List /\ {"addMember", "removeMember", "updateRole"} \subseteq Name
    BY Lists DEF Name
  <2> QED
    BY <1>1, <1>2, <2>1 DEF AddMember, UpdateRole, RemoveMember
<1>6. /\ Changing(LinkGroup, "linkGroup", "project-access-groups")
      /\ Changing(UpdateGroupRole, "updateGroupRole", "project-access-groups")
      /\ Changing(UnlinkGroup, "unlinkGroup", "project-access-groups")
  <2>1. /\ "project-access-groups" \in List
        /\ {"linkGroup", "unlinkGroup", "updateGroupRole"} \subseteq Name
    BY Lists DEF Name
  <2> QED
    BY <1>1, <1>2, <2>1 DEF LinkGroup, UpdateGroupRole, UnlinkGroup
<1>7. /\ Changing(CreateEnvironment, "createEnvironment", "environments")
      /\ Changing(RenameEnvironment, "renameEnvironment", "environments")
      /\ Changing(DeleteEnvironment, "deleteEnvironment", "environments")
  <2>1. /\ "environments" \in List
        /\ {"createEnvironment", "deleteEnvironment", "renameEnvironment"} \subseteq Name
    BY Lists DEF Name
  <2> QED
    BY <1>1, <1>2, <2>1 DEF CreateEnvironment, RenameEnvironment, DeleteEnvironment
<1>8. /\ Changing(CreateField, "saveField", "context-fields")
      /\ Changing(UpdateField, "saveField", "context-fields")
      /\ Changing(DeleteField, "deleteField", "context-fields")
  <2>1. "context-fields" \in List /\ {"deleteField", "saveField"} \subseteq Name
    BY Lists DEF Name
  <2> QED
    BY <1>1, <1>2, <2>1 DEF CreateField, UpdateField, DeleteField
<1>9. /\ Changing(CreateKey, "createKey", "api-keys")
      /\ Changing(RevokeKey, "revokeKey", "api-keys")
  <2>1. "api-keys" \in List /\ {"createKey", "revokeKey"} \subseteq Name
    BY Lists DEF Name
  <2> QED
    BY <1>1, <1>2, <2>1 DEF CreateKey, RevokeKey
<1> QED
  BY <1>3, <1>4, <1>5, <1>6, <1>7, <1>8, <1>9

\* The controls of a row change rows of its list, and none creates an API key.
LEMMA ColumnsChangeTheirList ==
    ASSUME NEW list \in List, NEW row, NEW control \in Columns(list, row)
    PROVE  /\ control.does \in MutationRow /\ control.does.list = list
           /\ control.does.name # "createKey"
<1> USE AllMutations DEF AtOnce, Asks, Edits, Changing
<1>1. CASE list = "flags"
  BY <1>1 DEF Columns, FlagColumns
<1>2. CASE list = "parameters"
  BY <1>2 DEF Columns, ParameterColumns
<1>3. CASE list = "members"
  BY <1>3 DEF Columns, MemberColumns
<1>4. CASE list = "project-access-groups"
  BY <1>4 DEF Columns, GroupSection
<1>5. CASE list = "environments"
  BY <1>5 DEF Columns, EnvironmentColumns
<1>6. CASE list = "context-fields"
  BY <1>6 DEF Columns, ContextColumns
<1>7. CASE list = "api-keys"
  BY <1>7 DEF Columns, KeyColumns
<1> QED
  BY <1>1, <1>2, <1>3, <1>4, <1>5, <1>6, <1>7, Lists

\* Only the settings page has the form that creates an API key.
LEMMA FormsOfThePage ==
    ASSUME NEW m \in Forms
    PROVE  m \in MutationRow /\ (m.name = "createKey" => at.page = "settings")
BY AllMutations DEF Changing, Forms, FlagForms, ParameterForms, MemberForms,
                    EnvironmentForms, ContextForms, KeyForms

\* The controls of a page are in its lists.
LEMMA EditableLists ==
    ASSUME at \in Location \cup {ProjectList}, NEW list \in Editable
    PROVE  list \in List /\ at \in Location /\ ListPage
<1>1. ListPage /\ at \in Location /\ at.page \in Page
  BY DEF Editable, ListPage, Location
<1> QED
  BY <1>1, Lists DEF Editable, List

OnListPage(loc) == loc \in Location /\ loc.page \notin {"overview", "playground"}

\* A dialog is about rows of the project that is shown; and of the environment, as
\* long as the list of environments is the one that it was opened over.
DialogOK(d, loc, e, environments) ==
    /\ OnListPage(loc)
    /\ d.does \in MutationRow /\ (d.does.name = "createKey" => loc.page = "settings")
    /\ d.key \in KeysOf(d.does.list) \cup {None}
    /\ d.by = "confirm" => d.key \in KeysOf(d.does.list)
    /\ d.seen \in Target /\ d.seen.project = loc.project
    /\ d.listed # None => /\ environments # None /\ d.listed.rev \in Nat
                          /\ d.listed.rev <= environments.rev
    /\ d.listed = environments => d.seen = QueryKey(d.does.list, loc.project, e)

WriteRow ==
    [does : MutationRow, key : Key \cup Environment, to : Target, seen : Target,
     asSeen : BOOLEAN, answered : BOOLEAN, rev : Nat, attached : BOOLEAN,
     rendered : Rendered \cup {None}]

\* A mutation is about a row of the list that it goes to, in the project that its page
\* was last rendered for.
WriteOK(w, loc, rows) ==
    /\ w \in WriteRow /\ w.to.list = w.does.list /\ w.key \in KeysOf(w.does.list)
    /\ w.to.project = w.seen.project /\ (w.asSeen => w.to = w.seen)
    /\ w.to.list \notin PerEnvironment => w.to.environment = None
    /\ w.attached => /\ OnListPage(loc) /\ w.to.project = loc.project
                     /\ w.does.name = "createKey" => loc.page = "settings"
    /\ ~w.attached => w.rendered \in Rendered /\ w.rendered.project = w.to.project
    /\ w.to \in Query => w.rev <= rows[w.to].rev

\* A mutation that leaves its page keeps what it was last rendered for.
LEMMA DetachedKeeps ==
    ASSUME at \in Location \cup {ProjectList}, envKey \in Environment \cup {None},
           NEW w, NEW loc, NEW rows, WriteOK(w, at, rows)
    PROVE  WriteOK(Detached(w), loc, rows)
<1> DEFINE r == RenderedIn(w)
           new == [w EXCEPT !.attached = FALSE, !.rendered = r]
<1>1. r \in Rendered /\ r.project = w.to.project
  BY DEF WriteOK, RenderedIn, OnListPage, Location, Rendered
<1>2. Detached(w) = new
  BY DEF Detached
<1> HIDE DEF r
<1>3. /\ new \in WriteRow /\ new.does = w.does /\ new.key = w.key /\ new.to = w.to
      /\ new.seen = w.seen /\ new.asSeen = w.asSeen /\ new.rev = w.rev
      /\ ~new.attached /\ new.rendered = r
  <2>1. w \in WriteRow /\ r \in Rendered
    BY <1>1 DEF WriteOK
  <2> QED
    BY <2>1 DEF WriteRow
<1> HIDE DEF new
<1> QED
  BY <1>1, <1>2, <1>3 DEF WriteOK

-----------------------------------------------------------------------------
(* The inductive invariant.                                                *)

\* A project whose environments are loaded has one chosen.
PlaceInv ==
    /\ at \in Location \cup {ProjectList} /\ back \in Location \cup {ProjectList}
    /\ stored \in [Project -> Environment \cup {None}]
    /\ envKey \in Environment \cup {None} /\ (at = ProjectList => envKey = None)
    /\ at # ProjectList /\ Environments # None => envKey # None

ListsInv == ServerOK(server) /\ CacheOK(cache, server)

FormInv == FormOK(at, envKey, play) /\ FlagsOK(at, play, cache)

DialogInv ==
    /\ dialog # None => DialogOK(dialog, at, envKey, Environments)
    /\ issued => at \in Location /\ at.page = "settings"

WriteInv ==
    /\ DOMAIN write = Call
    /\ \A c \in Call : write[c] # None => WriteOK(write[c], at, server)

Inv == PlaceInv /\ ListsInv /\ FormInv /\ DialogInv /\ WriteInv

\* In a project, its environments are among the lists.
LEMMA Places ==
    ASSUME PlaceInv
    PROVE  /\ at # ProjectList <=> at \in Location
           /\ at \in Location => /\ at.project \in Project
                                 /\ EnvironmentsOf(at.project) \in Query
<1>1. ProjectList \notin Location
  BY WorkspaceAssumption DEF Location, ProjectList
<1> QED
  BY <1>1, Queries DEF PlaceInv, Location

\* The provider chooses an environment.
LEMMA ChoiceIsSome ==
    ASSUME PlaceInv, NEW p \in Project, NEW data \in ContentOf(EnvironmentsOf(p))
    PROVE  Choice(p, data) \in Environment
<1>1. DOMAIN data.rows = Environment
  BY DEF ContentOf, EnvironmentsOf, QueryKey, KeysOf
<1> QED
  BY <1>1, WorkspaceAssumption DEF Choice, Rows

\* The lists that are loaded lead to nothing new when their data are the same.
LEMMA DataStay ==
    ASSUME Inv, UNCHANGED <<at, envKey>>,
           \A q \in Query : cache'[q].data = cache[q].data,
           dialog' \in {None, dialog},
           issued' => issued \/ (at \in Location /\ at.page = "settings")
    PROVE  /\ at # ProjectList /\ Environments' # None => envKey' # None
           /\ DialogInv'
<1>1. CASE at = ProjectList
  BY <1>1, Places DEF Inv, DialogInv, DialogOK, OnListPage
<1>2. CASE at # ProjectList
  <2>1. Environments' = Environments
    BY <1>2, Places DEF Inv, Environments
  <2> QED
    BY <2>1 DEF Inv, DialogInv, PlaceInv
<1> QED
  BY <1>1, <1>2

\* Mutations that go on where they were.
LEMMA WritesStay ==
    ASSUME WriteInv, UNCHANGED <<at, server, write>>
    PROVE  WriteInv'
BY DEF WriteInv

-----------------------------------------------------------------------------
(* Going from page to page, and from environment to environment.           *)

\* Another page has its own form and no dialog, and leaves its mutations behind.
LEMMA VisitInv ==
    ASSUME Inv, NEW loc \in Location \cup {ProjectList}, Visit(loc)
    PROVE  Inv'
<1> DEFINE e == IF loc = ProjectList THEN None
                ELSE IF Reopens(loc) THEN Chosen(loc.project, cache, None, TRUE)
                ELSE envKey
           form == Follow(loc, FreshForm, e)
           old == IF Reopens(loc) THEN {} ELSE {EnvironmentsOf(at.project)}
           mounted == Shown(loc, e, form) \ old
<1>1. /\ loc # at /\ at' = loc /\ back' = at /\ envKey' = e /\ UNCHANGED <<stored, server>>
      /\ cache' = FetchAll(cache, mounted)
      /\ play' = Initialized(loc, form, cache')
      /\ Unmount(loc)
  BY DEF Visit, Mount
<1>2. PlaceInv /\ ListsInv /\ DialogInv /\ WriteInv
  BY DEF Inv
<1>3. loc # ProjectList => /\ loc \in Location /\ loc.project \in Project
                           /\ EnvironmentsOf(loc.project) \in Query
  BY Queries DEF Location
<1>4. ProjectList \notin Location
  BY WorkspaceAssumption DEF Location, ProjectList
<1>5. Reopens(loc) \/ loc.page # at.page
  BY <1>1, <1>2, <1>4 DEF PlaceInv, Location, ProjectList, Reopens
<1>6. dialog' = None /\ issued' = FALSE
      /\ write' = [c \in Call |-> IF write[c] = None THEN None ELSE Detached(write[c])]
  BY <1>1, <1>5 DEF Unmount
<1>7. e \in Environment \cup {None} /\ (loc = ProjectList => e = None)
  <2>1. CASE /\ loc # ProjectList /\ Reopens(loc)
             /\ cache[EnvironmentsOf(loc.project)].data # None
    <3>1. cache[EnvironmentsOf(loc.project)].data \in ContentOf(EnvironmentsOf(loc.project))
      BY <1>2, <1>3, <2>1 DEF ListsInv, CacheOK, Entry
    <3> QED
      BY <1>2, <1>3, <2>1, <3>1, ChoiceIsSome DEF Chosen
  <2> QED
    BY <1>2, <2>1 DEF Chosen, PlaceInv
<1>8. loc # ProjectList /\ cache[EnvironmentsOf(loc.project)].data # None => e # None
  <2> SUFFICES ASSUME loc # ProjectList, cache[EnvironmentsOf(loc.project)].data # None
               PROVE  e # None
    OBVIOUS
  <2>1. CASE Reopens(loc)
    <3>1. cache[EnvironmentsOf(loc.project)].data \in ContentOf(EnvironmentsOf(loc.project))
      BY <1>2, <1>3 DEF ListsInv, CacheOK, Entry
    <3>2. Choice(loc.project, cache[EnvironmentsOf(loc.project)].data) \in Environment
      BY <1>2, <1>3, <3>1, ChoiceIsSome
    <3> QED
      BY <2>1, <3>2, WorkspaceAssumption DEF Chosen
  <2>2. CASE ~Reopens(loc)
    <3>1. at.project = loc.project /\ at # ProjectList
      BY <1>3, <2>2, WorkspaceAssumption DEF Reopens, ProjectList
    <3> QED
      BY <1>2, <2>2, <3>1 DEF PlaceInv, Environments
  <2> QED
    BY <2>1, <2>2
<1>9. FormOK(loc, e, form)
  <2>1. CASE loc = ProjectList
    <3>1. e = None /\ form = FreshForm
      BY <2>1 DEF Follow
    <3> QED
      BY <3>1, FreshFormOK
  <2>2. CASE loc # ProjectList
    <3>1. FormOK(loc, None, FreshForm)
      BY FreshFormOK
    <3> QED
      BY <1>3, <1>7, <2>2, <3>1, FollowKeeps
  <2> QED
    BY <2>1, <2>2
<1> HIDE DEF e, form, mounted
<1>10. CacheOK(cache', server) /\ \A q \in Query : cache'[q].data = cache[q].data
  BY <1>1, <1>2, FetchAllKeeps DEF ListsInv
<1>11. FormInv'
  BY <1>1, <1>9, InitializedKeeps DEF FormInv
<1>12. PlaceInv'
  <2>1. loc # ProjectList /\ Environments' # None => envKey' # None
    BY <1>1, <1>3, <1>8, <1>10 DEF Environments
  <2> QED
    BY <1>1, <1>2, <1>7, <2>1 DEF PlaceInv
<1>13. WriteInv'
  <2>1. ASSUME NEW c \in Call, write'[c] # None
        PROVE  WriteOK(write'[c], at', server')
    <3>1. write[c] # None /\ write'[c] = Detached(write[c])
      BY <1>6, <2>1
    <3> QED
      BY <1>1, <1>2, <3>1, DetachedKeeps DEF WriteInv, PlaceInv
  <2> QED
    BY <1>6, <2>1 DEF WriteInv
<1> QED
  BY <1>1, <1>2, <1>6, <1>10, <1>11, <1>12, <1>13 DEF Inv, ListsInv, DialogInv

\* What a rendering leaves of the invariant, when it shows the lists held.
LEMMA RenderInv ==
    ASSUME Inv, NEW e \in Environment \cup {None}, NEW held, NEW form,
           CacheOK(held, server), FormOK(at, envKey, form),
           e # envKey => at \in Location /\ e # None,
           at # ProjectList /\ held[EnvironmentsOf(at.project)].data # None => e # None,
           stored' \in [Project -> Environment \cup {None}],
           dialog # None => DialogOK(dialog, at, e, held[EnvironmentsOf(at.project)].data),
           Render(e, held, form), UNCHANGED <<at, back, server, dialog, issued, write>>
    PROVE  Inv'
<1>1. /\ envKey' = e /\ CacheOK(cache', server)
      /\ \A q \in Query : cache'[q].data = held[q].data
      /\ FormOK(at, e, play') /\ FlagsOK(at, play', cache')
  BY RenderKeeps DEF Inv, PlaceInv
<1>2. at # ProjectList => Environments' = held[EnvironmentsOf(at.project)].data
  BY <1>1, Places DEF Inv, Environments
<1>3. PlaceInv'
  <2>1. at = ProjectList => e = None
    BY Places DEF Inv, PlaceInv
  <2> QED
    BY <1>1, <1>2, <2>1 DEF Inv, PlaceInv
<1>4. ListsInv' /\ FormInv'
  BY <1>1 DEF Inv, ListsInv, FormInv
<1>5. DialogInv'
  <2>1. dialog # None => at # ProjectList
    BY Places DEF Inv, DialogInv, DialogOK, OnListPage
  <2> QED
    BY <1>1, <1>2, <2>1 DEF Inv, DialogInv
<1>6. WriteInv'
  BY WritesStay DEF Inv
<1> QED
  BY <1>3, <1>4, <1>5, <1>6 DEF Inv

\* Choosing an environment in the header.
LEMMA SetEnvKeyInv ==
    ASSUME Inv, NEW e \in Environment, SetEnvKey(e)
    PROVE  Inv'
<1>1. /\ at # ProjectList /\ dialog = None /\ Render(e, cache, play)
      /\ UNCHANGED <<at, back, server, dialog, issued, write>>
      /\ stored' = [stored EXCEPT ![at.project] = e]
  BY DEF SetEnvKey
<1>2. at \in Location /\ e # None /\ stored' \in [Project -> Environment \cup {None}]
  BY <1>1, Places, WorkspaceAssumption DEF Inv, PlaceInv
<1> QED
  BY <1>1, <1>2, RenderInv DEF Inv, ListsInv, FormInv

\* The form of the playground chooses an environment of its own.
LEMMA SelectEvaluationEnvironmentInv ==
    ASSUME Inv, NEW e \in Environment, SelectEvaluationEnvironment(e)
    PROVE  Inv'
<1> DEFINE form == [Without(play) EXCEPT !.env = e, !.selected = None]
<1>1. /\ AtPlayground /\ Render(envKey, cache, form)
      /\ UNCHANGED <<at, back, stored, server, dialog, issued, write>>
  BY DEF SelectEvaluationEnvironment
<1>2. play \in FormRow
  BY DEF Inv, FormInv, FormOK
<1>3. /\ form \in FormRow /\ form.env = e /\ form.selected = None
      /\ form.initialized = play.initialized /\ form.evaluation = None
  BY <1>2 DEF Without, FormRow
<1>4. AtForm(at) /\ e # None
  BY <1>1, WorkspaceAssumption DEF AtPlayground, AtForm
<1> HIDE DEF form
<1>5. FormOK(at, envKey, form)
  BY <1>3, <1>4 DEF FormOK
<1>6. dialog # None => DialogOK(dialog, at, envKey, Environments)
  BY DEF Inv, DialogInv
<1> QED
  BY <1>1, <1>5, <1>6, RenderInv DEF Inv, ListsInv, PlaceInv, Environments

-----------------------------------------------------------------------------
(* The server and its lists.                                               *)

\* A list that moves on is ahead of whatever was read of it.
LEMMA ServerMoves ==
    ASSUME ListsInv, NEW q \in Query, NEW new \in ContentOf(q),
           new.rev = server[q].rev + 1, server' = [server EXCEPT ![q] = new]
    PROVE  /\ ServerOK(server') /\ CacheOK(cache, server')
           /\ \A r \in Query : server[r].rev <= server'[r].rev
           /\ server'[q].rev = new.rev
<1>1. /\ DOMAIN server' = Query /\ server'[q] = new /\ server[q] \in ContentOf(q)
      /\ \A r \in Query \ {q} : server'[r] = server[r]
  BY DEF ListsInv, ServerOK
<1>2. server[q].rev \in Nat /\ new.rev \in Nat
  BY <1>1 DEF ContentOf
<1>3. EntryOK(cache[q], new)
  <2>1. cache[q] \in Entry(q) /\ EntryOK(cache[q], server[q])
    BY DEF ListsInv, CacheOK
  <2>2. /\ cache[q].owed \in Nat
        /\ cache[q].data # None => cache[q].data.rev \in Nat
        /\ cache[q].answer # None => cache[q].answer.rev \in Nat
    BY <2>1 DEF Entry, ContentOf
  <2> QED
    BY <1>2, <2>1, <2>2 DEF EntryOK, Older
<1>4. \A r \in Query : server[r].rev <= server'[r].rev
  <2> TAKE r \in Query
  <2>1. server[r].rev \in Nat
    BY DEF ListsInv, ServerOK, ContentOf
  <2> QED
    BY <1>1, <1>2, <2>1
<1> QED
  BY <1>1, <1>3, <1>4 DEF ListsInv, ServerOK, CacheOK

\* Mutations do not mind that lists move on.
LEMMA WritesGoOn ==
    ASSUME Inv, \A q \in Query : server[q].rev <= server'[q].rev,
           ServerOK(server'), NEW w, WriteOK(w, at, server)
    PROVE  WriteOK(w, at, server')
<1>1. w \in WriteRow /\ w.rev \in Nat
  BY DEF WriteOK, WriteRow
<1>2. w.to \in Query => server[w.to].rev \in Nat /\ server'[w.to].rev \in Nat
  BY DEF Inv, ListsInv, ServerOK, ContentOf
<1> QED
  BY <1>1, <1>2 DEF WriteOK

\* Other tabs and other administrators.
LEMMA OthersInv == ASSUME Inv, Others PROVE Inv'
<1>1. ASSUME NEW p \in Project, NEW e \in Environment, StoredElsewhere(p, e)
      PROVE  Inv'
  <2>1. stored' \in [Project -> Environment \cup {None}]
        /\ UNCHANGED <<at, back, envKey, server, cache, dialog, issued, write, play>>
    BY <1>1 DEF StoredElsewhere, Inv, PlaceInv
  <2> QED
    BY <2>1, WritesStay DEF Inv, PlaceInv, Environments, ListsInv, FormInv, DialogInv
<1>2. ASSUME NEW p \in Project, NEW e \in Environment, NEW state \in RowState,
             ChangedElsewhere(p, e, state)
      PROVE  Inv'
  <2> DEFINE q == EnvironmentsOf(p)
             new == [rev |-> server[q].rev + 1, rows |-> [server[q].rows EXCEPT ![e] = state]]
  <2>1. q \in Query /\ q.list = "environments"
    BY Queries DEF EnvironmentsOf, QueryKey
  <2>2. /\ server' = [server EXCEPT ![q] = new]
        /\ UNCHANGED <<at, back, stored, envKey, cache, dialog, issued, write, play>>
    BY <1>2, <2>1 DEF ChangedElsewhere, Inv, ListsInv, ServerOK
  <2>3. server[q] \in ContentOf(q)
    BY <2>1 DEF Inv, ListsInv, ServerOK
  <2> HIDE DEF q
  <2>4. new \in ContentOf(q) /\ new.rev = server[q].rev + 1
    BY <2>1, <2>3 DEF ContentOf, KeysOf
  <2> HIDE DEF new
  <2>5. /\ ServerOK(server') /\ CacheOK(cache, server')
        /\ \A r \in Query : server[r].rev <= server'[r].rev
    BY <2>1, <2>2, <2>4, ServerMoves DEF Inv
  <2>6. WriteInv'
    BY <2>2, <2>5, WritesGoOn DEF Inv, WriteInv
  <2> QED
    BY <2>2, <2>5, <2>6 DEF Inv, PlaceInv, Environments, ListsInv, FormInv, DialogInv
<1> QED
  BY <1>1, <1>2 DEF Others

\* A list receives its answer, or does without.
LEMMA ReceivesInv ==
    ASSUME Inv, NEW q \in Query, NEW entry \in Entry(q), EntryOK(entry, server[q]),
           \/ entry.data = cache[q].data
           \/ /\ entry.data # None
              /\ cache[q].data # None => cache[q].data.rev < entry.data.rev,
           Receives(q, entry)
    PROVE  Inv'
<1> DEFINE held == [cache EXCEPT ![q] = entry]
           changed == at # ProjectList /\ q = EnvironmentsOf(at.project)
                      /\ entry.data # cache[q].data
           e == IF changed THEN Chosen(at.project, held, envKey, TRUE) ELSE envKey
           list == held[EnvironmentsOf(at.project)].data
<1>1. /\ Render(e, held, play)
      /\ UNCHANGED <<at, back, stored, server, dialog, issued, write>>
  BY DEF Receives
<1>2. CacheOK(held, server)
  BY DEF Inv, ListsInv, CacheOK
<1>3. /\ held[q] = entry /\ \A r \in Query \ {q} : held[r] = cache[r]
      /\ PlaceInv /\ DialogInv /\ stored \in [Project -> Environment \cup {None}]
  BY DEF Inv, ListsInv, CacheOK, PlaceInv
<1>4. CASE changed
  <2>1. /\ at \in Location /\ at.project \in Project
        /\ list = entry.data /\ entry.data # None
        /\ Environments = cache[q].data
        /\ entry.data \in ContentOf(EnvironmentsOf(at.project))
    BY <1>3, <1>4, Places DEF Entry, Environments
  <2>2. e = Choice(at.project, entry.data) /\ e \in Environment /\ e # None
    BY <1>3, <1>4, <2>1, ChoiceIsSome, WorkspaceAssumption DEF Chosen
  <2>3. ASSUME dialog # None PROVE DialogOK(dialog, at, e, list)
    <3>1. DialogOK(dialog, at, envKey, cache[q].data)
      BY <1>3, <2>1, <2>3 DEF DialogInv
    <3>2. cache[q].data # None =>
             /\ cache[q].data.rev \in Nat /\ entry.data.rev \in Nat
             /\ cache[q].data.rev < entry.data.rev
      BY <1>4, <2>1 DEF Inv, ListsInv, CacheOK, Entry, ContentOf
    <3>3. dialog.listed # entry.data
      <4>1. CASE dialog.listed = None
        BY <2>1, <4>1
      <4>2. CASE dialog.listed # None
        <5>1. cache[q].data # None /\ dialog.listed.rev <= cache[q].data.rev
          BY <3>1, <4>2 DEF DialogOK
        <5>2. dialog.listed = entry.data => dialog.listed.rev = entry.data.rev
          OBVIOUS
        <5> QED
          BY <3>2, <5>1, <5>2
      <4> QED
        BY <4>1, <4>2
    <3>4. dialog.listed # None => /\ list # None /\ dialog.listed.rev \in Nat
                                  /\ dialog.listed.rev <= list.rev
      <4>1. CASE dialog.listed # None
        <5>1. /\ cache[q].data # None /\ dialog.listed.rev \in Nat
              /\ dialog.listed.rev <= cache[q].data.rev
          BY <3>1, <4>1 DEF DialogOK
        <5> QED
          BY <2>1, <3>2, <5>1
      <4> QED
        BY <4>1
    <3> HIDE DEF list, e
    <3> QED
      BY <2>1, <3>1, <3>3, <3>4 DEF DialogOK
  <2> HIDE DEF held, e, changed
  <2> QED
    BY <1>1, <1>2, <1>3, <2>1, <2>2, <2>3, RenderInv DEF Inv, FormInv
<1>5. CASE ~changed
  <2>1. e = envKey /\ (at # ProjectList => list = Environments)
    BY <1>3, <1>5, Places DEF Environments
  <2>2. dialog # None => at # ProjectList
    BY <1>3, Places DEF DialogInv, DialogOK, OnListPage
  <2>3. e \in Environment \cup {None} /\ (at # ProjectList /\ list # None => e # None)
    BY <1>3, <2>1 DEF PlaceInv
  <2>4. dialog # None => DialogOK(dialog, at, e, list)
    BY <1>3, <2>1, <2>2 DEF DialogInv
  <2> HIDE DEF held, e, changed
  <2> QED
    BY <1>1, <1>2, <1>3, <2>1, <2>3, <2>4, RenderInv DEF Inv, FormInv
<1> QED
  BY <1>4, <1>5

\* The cache moves, and nothing that is loading or loaded is lost.
LEMMA CacheMoves ==
    ASSUME Inv, UNCHANGED <<at, back, stored, envKey, server, play>>,
           CacheOK(cache', server),
           \A q \in Query : /\ cache'[q].data = cache[q].data
                            /\ IsLoading(cache[q]) => IsLoading(cache'[q]),
           dialog' \in {None, dialog},
           issued' => issued \/ (at \in Location /\ at.page = "settings"),
           WriteInv'
    PROVE  Inv'
<1>1. PlaceInv' /\ DialogInv'
  BY DataStay DEF Inv, PlaceInv
<1>2. FlagsOK(at, play, cache')
  <2> SUFFICES ASSUME AtForm(at), play.env # None
               PROVE  \/ play.initialized = play.env
                      \/ IsLoading(cache'[QueryKey("flags", at.project, play.env)])
    BY DEF FlagsOK
  <2>1. at.project \in Project /\ play.env \in Environment
    BY Places DEF Inv, AtForm, FormInv, FormOK, FormRow
  <2>2. QueryKey("flags", at.project, play.env) \in Query
    BY <2>1, Queries, Lists
  <2> QED
    BY <2>2 DEF Inv, FormInv, FlagsOK
<1> QED
  BY <1>1, <1>2 DEF Inv, ListsInv, FormInv

\* An answer is what the server has.
LEMMA ReadInv == ASSUME Inv, NEW q \in Query, Read(q) PROVE Inv'
<1>1. /\ cache[q].fetch = "sent"
      /\ cache' = [cache EXCEPT ![q].fetch = "answered", ![q].answer = server[q]]
      /\ UNCHANGED <<at, back, stored, envKey, server, dialog, issued, write, play>>
  BY DEF Read
<1>2. /\ cache[q] \in Entry(q) /\ EntryOK(cache[q], server[q]) /\ DOMAIN cache = Query
      /\ server[q] \in ContentOf(q) /\ server[q] # None
  BY ContentIsSome DEF Inv, ListsInv, CacheOK, ServerOK
<1>3. /\ cache'[q] = [cache[q] EXCEPT !.fetch = "answered", !.answer = server[q]]
      /\ DOMAIN cache' = Query /\ \A r \in Query \ {q} : cache'[r] = cache[r]
  BY <1>1, <1>2
<1>4. /\ cache'[q] \in Entry(q) /\ cache'[q].fetch = "answered"
      /\ cache'[q].answer = server[q]
      /\ cache'[q].data = cache[q].data /\ cache'[q].owed = cache[q].owed
  BY <1>2, <1>3 DEF Entry
<1>5. EntryOK(cache'[q], server[q])
  BY <1>1, <1>2, <1>4 DEF EntryOK, Older, ContentOf
<1>6. CacheOK(cache', server)
  BY <1>3, <1>4, <1>5 DEF CacheOK, Inv, ListsInv
<1>7. \A r \in Query : /\ cache'[r].data = cache[r].data
                       /\ IsLoading(cache[r]) => IsLoading(cache'[r])
  BY <1>3, <1>4 DEF IsLoading
<1> QED
  BY <1>1, <1>6, <1>7, CacheMoves, WritesStay DEF Inv

\* An answer lands, or the fetch is given up.
LEMMA LandInv == ASSUME Inv, NEW q \in Query, Land(q) \/ FetchFails(q) PROVE Inv'
<1>1. /\ cache[q] \in Entry(q) /\ EntryOK(cache[q], server[q])
      /\ server[q] \in ContentOf(q)
  BY DEF Inv, ListsInv, CacheOK, ServerOK
<1>2. CASE Land(q)
  <2> DEFINE entry == [cache[q] EXCEPT !.data = cache[q].answer, !.fetch = "idle",
                                       !.answer = None]
  <2>1. cache[q].fetch = "answered" /\ Receives(q, entry)
    BY <1>2 DEF Land
  <2>2. cache[q].answer # None /\ cache[q].answer \in ContentOf(q)
    BY <1>1, <2>1 DEF EntryOK, Entry
  <2>3. /\ entry \in Entry(q) /\ entry.data = cache[q].answer /\ entry.fetch = "idle"
        /\ entry.answer = None /\ entry.owed = cache[q].owed
    BY <1>1, <2>2 DEF Entry
  <2> HIDE DEF entry
  <2>4. EntryOK(entry, server[q])
    BY <1>1, <2>2, <2>3 DEF EntryOK
  <2>5. \/ entry.data = cache[q].data
        \/ /\ entry.data # None
           /\ cache[q].data # None => cache[q].data.rev < entry.data.rev
    <3>1. CASE cache[q].data = None
      BY <2>2, <2>3, <3>1
    <3>2. CASE cache[q].data # None
      <4>1. /\ cache[q].data.rev \in Nat /\ cache[q].answer.rev \in Nat
            /\ Older(cache[q].data, cache[q].answer)
        BY <1>1, <2>2, <3>2 DEF EntryOK, Entry, ContentOf
      <4> QED
        BY <2>2, <2>3, <4>1 DEF Older
    <3> QED
      BY <3>1, <3>2
  <2> QED
    BY <2>1, <2>3, <2>4, <2>5, ReceivesInv
<1>3. CASE FetchFails(q)
  <2> DEFINE entry == [cache[q] EXCEPT !.fetch = "idle", !.answer = None, !.owed = 0]
  <2>1. Receives(q, entry)
    BY <1>3 DEF FetchFails
  <2>2. /\ entry \in Entry(q) /\ entry.data = cache[q].data /\ entry.fetch = "idle"
        /\ entry.answer = None /\ entry.owed = 0
    BY <1>1 DEF Entry
  <2> HIDE DEF entry
  <2>3. EntryOK(entry, server[q])
    BY <1>1, <2>2 DEF EntryOK, ContentOf, Entry
  <2> QED
    BY <2>1, <2>2, <2>3, ReceivesInv
<1> QED
  BY <1>2, <1>3

\* The window gets the focus.
LEMMA FocusInv == ASSUME Inv, Focus PROVE Inv'
<1>1. /\ cache' = FetchAll(cache, OnScreen)
      /\ UNCHANGED <<at, back, stored, envKey, server, dialog, issued, write, play>>
  BY DEF Focus
<1>2. /\ CacheOK(cache', server)
      /\ \A q \in Query : /\ cache'[q].data = cache[q].data
                          /\ IsLoading(cache[q]) => IsLoading(cache'[q])
  BY <1>1, FetchAllKeeps DEF Inv, ListsInv
<1> QED
  BY <1>1, <1>2, CacheMoves, WritesStay DEF Inv

-----------------------------------------------------------------------------
(* Dialogs and mutations.                                                  *)

\* The request of a mutation goes where its page is.
LEMMA MutateInv ==
    ASSUME Inv, NEW c \in Call, NEW m \in MutationRow, NEW key \in KeysOf(m.list),
           NEW seen \in Target, NEW listed, OnListPage(at), seen.project = at.project,
           m.name = "createKey" => at.page = "settings",
           listed = Environments => seen = QueryKey(m.list, at.project, envKey),
           Mutate(c, m, key, seen, listed)
    PROVE  Inv'
<1> DEFINE to == QueryKey(m.list, at.project, envKey)
           new == [does |-> m, key |-> key, to |-> to,
                   seen |-> seen, asSeen |-> listed = Environments,
                   answered |-> FALSE, rev |-> 0, attached |-> TRUE, rendered |-> None]
<1>1. /\ write' = [d \in Call |->
             IF d = c THEN new
             ELSE IF write[d] # None /\ write[d].does.name = m.name
                  THEN Detached(write[d]) ELSE write[d]]
      /\ UNCHANGED <<at, back, stored, envKey, server, cache, dialog, issued, play>>
  BY DEF Mutate
<1>2. /\ at.project \in Project /\ m.list \in List
      /\ envKey \in Environment \cup {None}
  BY Places DEF Inv, PlaceInv, OnListPage, MutationRow
<1>3. /\ to \in Target /\ to.list = m.list /\ to.project = at.project
      /\ to.list \notin PerEnvironment => to.environment = None
  BY <1>2 DEF QueryKey, Target
<1>4. key \in Key \cup Environment
  BY DEF KeysOf
<1>5. to \in Query => server[to].rev \in Nat
  BY DEF Inv, ListsInv, ServerOK, ContentOf
<1>6. WriteOK(new, at, server)
  <2> HIDE DEF to
  <2>1. new \in WriteRow
    BY <1>3, <1>4 DEF WriteRow
  <2>2. (listed = Environments) => seen = to
    BY DEF to
  <2>3. /\ new.does = m /\ new.key = key /\ new.to = to /\ new.seen = seen
        /\ new.rev = 0 /\ new.attached
    OBVIOUS
  <2>4. new.asSeen => seen = to
    BY <2>2
  <2> HIDE DEF new
  <2> QED
    BY <1>3, <1>5, <2>1, <2>3, <2>4 DEF WriteOK
<1> HIDE DEF new
<1>7. WriteInv'
  <2>1. ASSUME NEW d \in Call, write'[d] # None
        PROVE  WriteOK(write'[d], at, server)
    <3>1. CASE d = c
      BY <1>1, <1>6, <3>1
    <3>2. CASE d # c
      <4>1. write[d] # None /\ write'[d] \in {write[d], Detached(write[d])}
        BY <1>1, <2>1, <3>2
      <4> QED
        BY <1>2, <4>1, DetachedKeeps DEF Inv, WriteInv, PlaceInv
    <3> QED
      BY <3>1, <3>2
  <2> QED
    BY <1>1, <2>1 DEF WriteInv
<1> QED
  BY <1>1, <1>7 DEF Inv, PlaceInv, Environments, ListsInv, FormInv, DialogInv

\* A dialog over rows that are shown.
LEMMA OpenedInv ==
    ASSUME Inv, NEW m \in MutationRow, NEW by, NEW key \in KeysOf(m.list) \cup {None},
           OnListPage(at), m.name = "createKey" => at.page = "settings",
           by = "confirm" => key \in KeysOf(m.list),
           dialog' = Opened(m, by, key),
           UNCHANGED <<at, back, stored, envKey, server, cache, issued, write, play>>
    PROVE  Inv'
<1>1. at.project \in Project /\ EnvironmentsOf(at.project) \in Query
      /\ envKey \in Environment \cup {None} /\ m.list \in List
  BY Places DEF Inv, PlaceInv, OnListPage, MutationRow
<1>2. Environments # None => Environments.rev \in Nat
  BY <1>1 DEF Inv, ListsInv, CacheOK, Entry, ContentOf, Environments
<1>3. QueryKey(m.list, at.project, envKey) \in Target
      /\ QueryKey(m.list, at.project, envKey).project = at.project
  BY <1>1 DEF QueryKey, Target
<1>4. DialogOK(Opened(m, by, key), at, envKey, Environments)
  BY <1>2, <1>3 DEF DialogOK, Opened
<1> QED
  BY <1>4, WritesStay DEF Inv, PlaceInv, Environments, ListsInv, FormInv, DialogInv

\* A dialog is closed.
LEMMA CloseInv ==
    ASSUME Inv, dialog' = None, issued' => issued,
           UNCHANGED <<at, back, stored, envKey, server, cache, write, play>>
    PROVE  Inv'
BY WritesStay DEF Inv, PlaceInv, Environments, ListsInv, FormInv, DialogInv

\* What a row, a dialog or a form has one do.
LEMMA UsesListInv == ASSUME Inv, UsesList PROVE Inv'
<1>1. PlaceInv /\ DialogInv
  BY DEF Inv
<1>2. ASSUME NEW list \in Editable, NEW key \in KeysOf(list), NEW control \in Offers(list, key)
      PROVE  /\ OnListPage(at) /\ control.does \in MutationRow /\ control.does.list = list
             /\ control.does.name # "createKey"
             /\ QueryKey(list, at.project, envKey) \in Target
             /\ QueryKey(list, at.project, envKey).project = at.project
  <2>1. list \in List /\ at \in Location /\ ListPage
    BY <1>1, EditableLists DEF PlaceInv
  <2>2. \E row : control \in Columns(list, row)
    BY DEF Offers
  <2>3. /\ control.does \in MutationRow /\ control.does.list = list
        /\ control.does.name # "createKey"
    BY <2>1, <2>2, ColumnsChangeTheirList
  <2>4. at.project \in Project /\ envKey \in Environment \cup {None}
    BY <1>1, <2>1 DEF PlaceInv, Location
  <2>5. QueryKey(list, at.project, envKey) \in Target
        /\ QueryKey(list, at.project, envKey).project = at.project
    BY <2>1, <2>4 DEF QueryKey, Target
  <2> QED
    BY <2>1, <2>3, <2>5 DEF OnListPage, ListPage
<1>3. ASSUME NEW c \in Call, NEW list \in Editable, NEW key \in KeysOf(list),
             NEW control \in Offers(list, key), ActOnRow(c, list, key, control)
      PROVE  Inv'
  <2>1. Mutate(c, control.does, key, QueryKey(list, at.project, envKey), Environments)
    BY <1>3 DEF ActOnRow
  <2> QED
    BY <1>2, <2>1, MutateInv
<1>4. ASSUME NEW list \in Editable, NEW key \in KeysOf(list),
             NEW control \in Offers(list, key), OpenForRow(list, key, control)
      PROVE  Inv'
  <2>1. /\ dialog' = Opened(control.does, control.by, key)
        /\ UNCHANGED <<at, back, stored, envKey, server, cache, issued, write, play>>
    BY <1>4 DEF OpenForRow
  <2> QED
    BY <1>2, <2>1, OpenedInv
<1>5. ASSUME NEW m \in Forms, OpenForm(m) PROVE Inv'
  <2>1. /\ dialog' = Opened(m, "form", None)
        /\ UNCHANGED <<at, back, stored, envKey, server, cache, issued, write, play>>
    BY <1>5 DEF OpenForm
  <2>2. m \in MutationRow /\ (m.name = "createKey" => at.page = "settings")
    BY FormsOfThePage
  <2>3. OnListPage(at)
    <3>1. at.page \in {"flags", "parameters", "members", "environments", "contexts",
                       "settings"}
      BY DEF Forms
    <3>2. at # ProjectList
      BY <3>1, WorkspaceAssumption DEF ProjectList, Page
    <3> QED
      BY <1>1, <3>1, <3>2 DEF OnListPage, PlaceInv
  <2> QED
    BY <2>1, <2>2, <2>3, OpenedInv
<1>6. CASE CloseDialog \/ Done
  <2>1. /\ dialog' = None
        /\ UNCHANGED <<at, back, stored, envKey, server, cache, write, play>>
    BY <1>6 DEF CloseDialog, Done
  <2>2. issued' => issued
    BY <1>6, Zenon DEF CloseDialog, Done
  <2> QED
    BY <2>1, <2>2, CloseInv
<1>7. ASSUME NEW c \in Call, NEW key, (Confirm(c) /\ key = dialog.key) \/ Submit(c, key)
      PROVE  Inv'
  <2>1. /\ dialog # None /\ Mutate(c, dialog.does, key, dialog.seen, dialog.listed)
        /\ \/ dialog.by = "confirm" /\ key = dialog.key
           \/ key \in KeysOf(dialog.does.list)
    BY <1>7 DEF Confirm, Submit
  <2>2. DialogOK(dialog, at, envKey, Environments)
    BY <1>1, <2>1 DEF DialogInv
  <2>3. key \in KeysOf(dialog.does.list)
    BY <2>1, <2>2 DEF DialogOK
  <2>4. /\ OnListPage(at) /\ dialog.does \in MutationRow /\ dialog.seen \in Target
        /\ dialog.seen.project = at.project
        /\ dialog.does.name = "createKey" => at.page = "settings"
        /\ dialog.listed = Environments =>
              dialog.seen = QueryKey(dialog.does.list, at.project, envKey)
    BY <2>2 DEF DialogOK
  <2> QED
    BY <2>1, <2>3, <2>4, MutateInv
<1> QED
  BY <1>3, <1>4, <1>5, <1>6, <1>7 DEF UsesList

\* The server takes a mutation.
LEMMA CommitInv == ASSUME Inv, NEW c \in Call, Commit(c) PROVE Inv'
<1> DEFINE w == write[c]
           rows == IF w.does.becomes = "same" THEN server[w.to].rows
                   ELSE [server[w.to].rows EXCEPT ![w.key] = w.does.becomes]
           new == [rev |-> server[w.to].rev + 1, rows |-> rows]
           told == [w EXCEPT !.answered = TRUE, !.rev = new.rev]
<1>1. /\ w # None /\ w.to \in Query /\ DOMAIN write = Call
      /\ WriteOK(w, at, server) /\ w \in WriteRow
  BY DEF Commit, Inv, WriteInv, WriteOK
<1>2. server[w.to] \in ContentOf(w.to) /\ DOMAIN server = Query
  BY <1>1 DEF Inv, ListsInv, ServerOK
<1>3. server' = [server EXCEPT ![w.to] = new]
      /\ UNCHANGED <<at, back, stored, envKey, cache, dialog, issued, play>>
  BY <1>1, <1>2 DEF Commit
<1>4. rows \in [KeysOf(w.to.list) -> RowState] /\ server[w.to].rev \in Nat
  BY <1>1, <1>2 DEF WriteOK, WriteRow, MutationRow, ContentOf
<1> HIDE DEF rows
<1>5. new \in ContentOf(w.to) /\ new.rev = server[w.to].rev + 1 /\ new.rev \in Nat
  BY <1>4 DEF ContentOf
<1> HIDE DEF new
<1>6. /\ ServerOK(server') /\ CacheOK(cache, server')
      /\ \A r \in Query : server[r].rev <= server'[r].rev
      /\ server'[w.to].rev = new.rev
  BY <1>1, <1>3, <1>5, ServerMoves DEF Inv
<1>7. write' = [write EXCEPT ![c] = told]
  BY <1>1, <1>6 DEF Commit
<1>8. /\ told \in WriteRow /\ told.does = w.does /\ told.key = w.key /\ told.to = w.to
      /\ told.seen = w.seen /\ told.asSeen = w.asSeen /\ told.rev = new.rev
      /\ told.attached = w.attached /\ told.rendered = w.rendered
  BY <1>1, <1>5 DEF WriteRow
<1> HIDE DEF told
<1>9. WriteOK(told, at, server')
  <2>1. WriteOK(w, at, server')
    BY <1>1, <1>6, WritesGoOn
  <2> HIDE DEF w
  <2> QED
    BY <1>1, <1>5, <1>6, <1>8, <2>1 DEF WriteOK
<1>10. WriteInv'
  <2>1. ASSUME NEW d \in Call, write'[d] # None
        PROVE  WriteOK(write'[d], at, server')
    <3>1. CASE d = c
      BY <1>1, <1>7, <1>9, <3>1
    <3>2. CASE d # c
      <4>1. write'[d] = write[d] /\ WriteOK(write[d], at, server)
        BY <1>1, <1>7, <2>1, <3>2 DEF Inv, WriteInv
      <4> QED
        BY <1>6, <4>1, WritesGoOn
    <3> QED
      BY <3>1, <3>2
  <2> QED
    BY <1>1, <1>3, <1>7, <2>1 DEF WriteInv
<1> QED
  BY <1>3, <1>6, <1>10 DEF Inv, PlaceInv, Environments, ListsInv, FormInv, DialogInv

\* What a mutation has changed and was on screen all along is what its page has
\* fetched again.
LEMMA SeenIsRefreshed ==
    ASSUME Inv, NEW w, WriteOK(w, at, server), IsSeen(w)
    PROVE  w.to = Refreshed(w) /\ w.to \in OnScreen /\ w.to \in Query
<1>1. w.to \in OnScreen /\ w.to \in Query /\ w.to.project = at.project
  BY OnScreenAreQueries DEF IsSeen, OnScreen, Inv, PlaceInv
<1>2. w.to = QueryKey(w.to.list, w.to.project, w.to.environment)
      /\ (w.to.environment = None <=> w.to.list \notin PerEnvironment)
  BY <1>1, Queries
<1>3. RenderedIn(w).project = w.to.project
  BY <1>1 DEF RenderedIn, WriteOK
<1>4. w.to.list = w.does.list
  BY DEF WriteOK
<1> QED
  BY <1>1, <1>2, <1>3, <1>4 DEF Refreshed, IsSeen, QueryKey

\* A mutation ends.
LEMMA WriteEnds ==
    ASSUME WriteInv, NEW c \in Call, write' = [write EXCEPT ![c] = None],
           UNCHANGED <<at, server>>
    PROVE  WriteInv'
BY DEF WriteInv

\* Its page is told of the change, and fetches the list again.
LEMMA SucceedsInv == ASSUME Inv, NEW c \in Call, Succeeds(c) PROVE Inv'
<1> DEFINE w == write[c]
           held == Invalidate(cache, Refreshed(w), OnScreen)
           new == IF IsSeen(w) /\ w.rev > held[w.to].owed
                  THEN [held EXCEPT ![w.to].owed = w.rev] ELSE held
<1>1. /\ w # None /\ cache' = new /\ (issued' => issued \/ Issues(w))
      /\ dialog' \in {None, dialog} /\ write' = [write EXCEPT ![c] = None]
      /\ UNCHANGED <<at, back, stored, envKey, server, play>>
  <2>1. issued' => issued \/ Issues(w)
    BY Zenon DEF Succeeds
  <2> QED
    BY <2>1 DEF Succeeds
<1>2. WriteOK(w, at, server)
  BY <1>1 DEF Inv, WriteInv
<1>3. /\ CacheOK(held, server)
      /\ \A r \in Query : /\ held[r].data = cache[r].data
                          /\ IsLoading(cache[r]) => IsLoading(held[r])
      /\ IsSeen(w) => held[w.to].fetch = "sent"
  <2>1. CASE Refreshed(w) \in Query
    <3>1. IsSeen(w) => /\ w.to = Refreshed(w) /\ w.to \in OnScreen
                       /\ cache[w.to].data # None
      BY <1>2, SeenIsRefreshed DEF IsSeen
    <3> QED
      BY <2>1, <3>1, InvalidateKeeps DEF Inv, ListsInv
  <2>2. CASE Refreshed(w) \notin Query
    <3>1. ~IsSeen(w)
      BY <1>2, <2>2, SeenIsRefreshed
    <3>2. Refreshed(w) \notin OnScreen
      BY <2>2, OnScreenAreQueries DEF OnScreen, Inv, PlaceInv
    <3>3. held = cache
      BY <3>2 DEF Invalidate
    <3> QED
      BY <3>1, <3>3 DEF Inv, ListsInv
  <2> QED
    BY <2>1, <2>2
<1> HIDE DEF held
<1>4. /\ CacheOK(new, server)
      /\ \A r \in Query : /\ new[r].data = cache[r].data
                          /\ IsLoading(cache[r]) => IsLoading(new[r])
  <2>1. CASE IsSeen(w) /\ new = [held EXCEPT ![w.to].owed = w.rev]
    <3>1. /\ w.to \in Query /\ held[w.to] \in Entry(w.to) /\ DOMAIN held = Query
          /\ EntryOK(held[w.to], server[w.to]) /\ held[w.to].fetch = "sent"
          /\ w.rev \in Nat /\ w.rev <= server[w.to].rev
      BY <1>2, <1>3, <2>1, SeenIsRefreshed DEF CacheOK, WriteOK, WriteRow
    <3>2. /\ DOMAIN new = Query /\ \A r \in Query \ {w.to} : new[r] = held[r]
          /\ new[w.to] = [held[w.to] EXCEPT !.owed = w.rev]
      BY <2>1, <3>1
    <3> HIDE DEF new, w
    <3>3. /\ new[w.to] \in Entry(w.to) /\ new[w.to].data = held[w.to].data
          /\ new[w.to].fetch = "sent" /\ new[w.to].answer = held[w.to].answer
          /\ new[w.to].owed = w.rev
      BY <3>1, <3>2 DEF Entry
    <3>4. EntryOK(new[w.to], server[w.to])
      BY <3>1, <3>3 DEF EntryOK
    <3>5. CacheOK(new, server)
      BY <1>3, <3>2, <3>3, <3>4 DEF CacheOK
    <3>6. ASSUME NEW r \in Query
          PROVE  /\ new[r].data = held[r].data
                 /\ IsLoading(held[r]) => IsLoading(new[r])
      <4>1. CASE r = w.to
        BY <3>1, <3>3, <4>1 DEF IsLoading
      <4>2. CASE r # w.to
        BY <3>2, <4>2
      <4> QED
        BY <4>1, <4>2
    <3> QED
      BY <1>3, <3>5, <3>6
  <2>2. CASE new = held
    BY <1>3, <2>2
  <2> QED
    BY <2>1, <2>2
<1>5. issued' => issued \/ (at \in Location /\ at.page = "settings")
  BY <1>1, <1>2 DEF Issues, WriteOK, OnListPage
<1>6. WriteInv'
  BY <1>1, WriteEnds DEF Inv
<1> HIDE DEF new
<1> QED
  BY <1>1, <1>4, <1>5, <1>6, CacheMoves

\* A mutation fails.
LEMMA FailsInv == ASSUME Inv, NEW c \in Call, Fails(c) PROVE Inv'
<1>1. write' = [write EXCEPT ![c] = None]
      /\ UNCHANGED <<at, back, stored, envKey, server, cache, dialog, issued, play>>
  BY DEF Fails
<1> QED
  BY <1>1, WriteEnds DEF Inv, PlaceInv, Environments, ListsInv, FormInv, DialogInv

-----------------------------------------------------------------------------
(* The playground.                                                         *)

\* An edit of the form leaves its environment and its flags as they were.
LEMMA EditInv ==
    ASSUME Inv, NEW form, Edit(form), form \in FormRow,
           form.env = play.env, form.initialized = play.initialized,
           form.selected \in {None, play.initialized},
           form.evaluation # None =>
              form.evaluation.text = form.text
              /\ form.env \in {form.evaluation.env, envKey}
    PROVE  Inv'
<1>1. /\ AtPlayground /\ play' = form
      /\ UNCHANGED <<at, back, stored, envKey, server, cache, dialog, issued, write>>
  BY DEF Edit
<1>2. FormOK(at, envKey, form) /\ FlagsOK(at, form, cache)
  BY <1>1 DEF AtPlayground, AtForm, Inv, FormInv, FormOK, FlagsOK
<1> QED
  BY <1>1, <1>2, WritesStay DEF Inv, PlaceInv, Environments, ListsInv, FormInv, DialogInv

\* Everything that is done on the playground.
LEMMA UsesPlaygroundInv == ASSUME Inv, UsesPlayground PROVE Inv'
<1>1. /\ play \in FormRow /\ play.selected \in {None, play.initialized}
      /\ play.evaluation # None =>
            /\ play.evaluation.text = play.text
            /\ play.env \in {play.evaluation.env, envKey}
  BY DEF Inv, FormInv, FormOK
<1>2. ASSUME NEW text \in Text
      PROVE  LET form == [Without(play) EXCEPT !.text = text] IN
             /\ form \in FormRow /\ form.env = play.env
             /\ form.initialized = play.initialized /\ form.selected = play.selected
             /\ form.evaluation = None
  BY <1>1 DEF Without, FormRow
<1>3. ASSUME NEW text \in Text, EditText(text) PROVE Inv'
  BY <1>1, <1>2, <1>3, EditInv DEF EditText
<1>4. CASE AddContextValue
  <2>1. Edit([Without(play) EXCEPT !.text = "changed"]) /\ "changed" \in Text
    BY <1>4 DEF AddContextValue, Text
  <2> QED
    BY <1>1, <1>2, <2>1, EditInv
<1>5. ASSUME NEW e \in Environment \cup {None}, SelectFlags(e) PROVE Inv'
  <2> DEFINE form == [play EXCEPT !.selected = e]
  <2>1. /\ Edit(form) /\ e \in {None, play.env} /\ AtForm(at) /\ play.env # None
        /\ cache[QueryKey("flags", at.project, play.env)].data # None
    BY <1>5 DEF SelectFlags, AtPlayground, AtForm
  <2>2. play.initialized = play.env
    BY <2>1 DEF Inv, FormInv, FlagsOK, IsLoading
  <2>3. /\ form \in FormRow /\ form.env = play.env /\ form.selected = e
        /\ form.initialized = play.initialized /\ form.text = play.text
        /\ form.evaluation = play.evaluation
    BY <1>1 DEF FormRow
  <2> HIDE DEF form
  <2> QED
    BY <1>1, <2>1, <2>2, <2>3, EditInv
<1>6. ASSUME NEW e \in Environment, SelectEvaluationEnvironment(e) PROVE Inv'
  BY <1>6, SelectEvaluationEnvironmentInv
<1>7. CASE Evaluate
  <2> DEFINE asked == [status |-> "pending", env |-> play.env, text |-> play.text]
             form == [play EXCEPT !.evaluation = asked]
  <2>1. Edit(form) /\ play.env # None
    BY <1>7 DEF Evaluate
  <2>2. asked \in Evaluation /\ asked.env = play.env /\ asked.text = play.text
    BY <1>1, <2>1 DEF FormRow, Evaluation
  <2> HIDE DEF asked
  <2>3. /\ form \in FormRow /\ form.env = play.env /\ form.selected = play.selected
        /\ form.initialized = play.initialized /\ form.text = play.text
        /\ form.evaluation = asked
    BY <1>1, <2>2 DEF FormRow
  <2> HIDE DEF form
  <2> QED
    BY <1>1, <2>1, <2>2, <2>3, EditInv
<1>8. CASE Evaluated
  <2> DEFINE form == [play EXCEPT !.evaluation.status = "success"]
  <2>1. Edit(form) /\ play.evaluation # None
    BY <1>8 DEF Evaluated, IsEvaluating
  <2>2. play.evaluation \in Evaluation
    BY <1>1, <2>1 DEF FormRow
  <2>3. /\ form \in FormRow /\ form.env = play.env /\ form.selected = play.selected
        /\ form.initialized = play.initialized /\ form.text = play.text
        /\ form.evaluation.env = play.evaluation.env
        /\ form.evaluation.text = play.evaluation.text
    BY <1>1, <2>2 DEF FormRow, Evaluation
  <2> HIDE DEF form
  <2> QED
    BY <1>1, <2>1, <2>3, EditInv
<1>9. CASE EvaluationFails
  <2>1. Edit(Without(play))
    BY <1>9 DEF EvaluationFails
  <2>2. /\ Without(play) \in FormRow /\ Without(play).env = play.env
        /\ Without(play).initialized = play.initialized
        /\ Without(play).selected = play.selected /\ Without(play).evaluation = None
    BY <1>1 DEF Without, FormRow
  <2> QED
    BY <1>1, <2>1, <2>2, EditInv
<1> QED
  BY <1>3, <1>4, <1>5, <1>6, <1>7, <1>8, <1>9 DEF UsesPlayground

-----------------------------------------------------------------------------
(* The theorems.                                                           *)

\* A behaviour begins on a page that has loaded nothing.
LEMMA InitInv == Init => Inv
<1> SUFFICES ASSUME Init PROVE Inv
  OBVIOUS
<1>1. at \in Location \cup {ProjectList}
  BY WorkspaceAssumption DEF Init, Location
<1>2. PICK e \in (Environment \ {Default}) \cup {None} :
         stored = [p \in Project |-> e]
  BY DEF Init
<1>3. ServerOK(server)
  <2>1. ASSUME NEW q \in Query PROVE server[q] \in ContentOf(q)
    BY DEF Init, ContentOf, RowState
  <2> QED
    BY <2>1 DEF Init, ServerOK
<1> DEFINE empty == [q \in Query |-> NoEntry]
<1>4. CacheOK(empty, server)
  <2>1. ASSUME NEW q \in Query PROVE empty[q] \in Entry(q) /\ EntryOK(empty[q], server[q])
    BY <1>3 DEF NoEntry, Entry, EntryOK, ServerOK, ContentOf
  <2> QED
    BY <2>1 DEF CacheOK
<1>5. CacheOK(cache, server) /\ \A q \in Query : cache[q].data = None
  <2>1. cache = FetchAll(empty, Shown(at, None, FreshForm))
    BY DEF Init
  <2>2. \A q \in Query : empty[q].data = None
    BY DEF NoEntry
  <2> HIDE DEF empty
  <2> QED
    BY <1>4, <2>1, <2>2, FetchAllKeeps
<1>6. PlaceInv
  <2>1. at # ProjectList => Environments = None
    <3>1. ASSUME at # ProjectList PROVE EnvironmentsOf(at.project) \in Query
      BY <1>1, <3>1, Queries DEF Location
    <3> QED
      BY <1>5, <3>1 DEF Environments
  <2> QED
    BY <1>1, <1>2, <2>1 DEF Init, PlaceInv
<1>7. FormInv
  <2>1. envKey = None /\ play = FreshForm
    BY DEF Init
  <2>2. FlagsOK(at, FreshForm, cache)
    BY DEF FlagsOK, FreshForm
  <2> QED
    BY <2>1, <2>2, FreshFormOK DEF FormInv
<1>8. DialogInv /\ WriteInv
  BY DEF Init, DialogInv, WriteInv
<1> QED
  BY <1>3, <1>5, <1>6, <1>7, <1>8 DEF Inv, ListsInv

\* Every step keeps the inductive invariant.
LEMMA NextInv == ASSUME Inv, [Next]_vars PROVE Inv'
<1>1. CASE UNCHANGED vars
  <2>1. UNCHANGED <<at, back, stored, envKey, server, cache, dialog, issued, write, play>>
    BY <1>1 DEF vars
  <2> QED
    BY <2>1, WritesStay DEF Inv, PlaceInv, Environments, ListsInv, FormInv, DialogInv
<1>2. CASE Navigates
  BY <1>2, VisitInv, SetEnvKeyInv DEF Navigates
<1>3. ASSUME NEW q \in Query, Fetches(q) PROVE Inv'
  BY <1>3, ReadInv, LandInv DEF Fetches
<1>4. ASSUME NEW c \in Call, Writes(c) PROVE Inv'
  BY <1>4, CommitInv, SucceedsInv, FailsInv DEF Writes
<1> QED
  BY <1>1, <1>2, <1>3, <1>4, OthersInv, FocusInv, UsesListInv, UsesPlaygroundInv DEF Next

\* The inductive invariant holds in every behaviour.
THEOREM InvHolds == Spec => []Inv
BY InitInv, NextInv, PTL DEF Spec

\* What the tab, its cache and its form hold has its type: an environment in a project
\* only, an answer while a fetch has one only, and dialogs on pages of lists only.
THEOREM TypeCorrect == Spec => []TypeOK
<1>1. Inv => TypeOK
  <2> SUFFICES ASSUME Inv PROVE TypeOK
    OBVIOUS
  <2>1. \A q \in Query :
          /\ server[q] \in Content
          /\ cache[q].data \in Content \cup {None}
          /\ cache[q].fetch \in {"idle", "sent", "answered"}
          /\ cache[q].answer \in Content \cup {None}
          /\ cache[q].answer # None <=> cache[q].fetch = "answered"
    <3> TAKE q \in Query
    <3>1. cache[q] \in Entry(q) /\ EntryOK(cache[q], server[q]) /\ server[q] \in ContentOf(q)
      BY DEF Inv, ListsInv, CacheOK, ServerOK
    <3>2. ContentOf(q) \subseteq Content
      BY ContentIsSome
    <3> QED
      BY <3>1, <3>2 DEF Entry, EntryOK
  <2>2. /\ at \in Location \cup {ProjectList} /\ back \in Location \cup {ProjectList}
        /\ stored \in [Project -> Environment \cup {None}]
        /\ envKey \in Environment \cup {None} /\ (at = ProjectList => envKey = None)
    BY DEF Inv, PlaceInv
  <2>3. ((dialog # None \/ issued) => ListPage) /\ (issued => at.page = "settings")
    BY Places DEF Inv, DialogInv, DialogOK, OnListPage, ListPage
  <2>4. /\ ~ AtPlayground => play = FreshForm
        /\ play.text \in Text /\ {play.env, play.selected} \subseteq Environment \cup {None}
    BY DEF Inv, FormInv, FormOK, AtForm, AtPlayground, FormRow
  <2> QED
    BY <2>1, <2>2, <2>3, <2>4 DEF TypeOK
<1> QED
  BY <1>1, InvHolds, PTL

\* A change goes to the project that was shown when it was asked for, and to the
\* environment unless the list of environments has changed meanwhile.
THEOREM ChangesGoWhereShown == Spec => []ActsWhereShown
<1>1. Inv => ActsWhereShown
  BY DEF Inv, WriteInv, WriteOK, ActsWhereShown
<1> QED
  BY <1>1, InvHolds, PTL

\* A list whose change was answered while it was on screen shows it as soon as no fetch
\* is under way, whatever fetches were under way before.
THEOREM ChangesAreShown == Spec => []WritesAreShown
<1>1. Inv => WritesAreShown
  <2> SUFFICES ASSUME Inv, NEW q \in OnScreen, cache[q].fetch = "idle", cache[q].data # None
               PROVE  cache[q].data.rev >= cache[q].owed
    BY DEF WritesAreShown
  <2>1. q \in Query
    BY OnScreenAreQueries DEF OnScreen, Inv, PlaceInv
  <2>2. cache[q] \in Entry(q) /\ EntryOK(cache[q], server[q])
    BY <2>1 DEF Inv, ListsInv, CacheOK
  <2>3. cache[q].data.rev \in Nat /\ cache[q].owed \in Nat
    BY <2>2 DEF Entry, ContentOf
  <2> QED
    BY <2>2, <2>3 DEF EntryOK
<1> QED
  BY <1>1, InvHolds, PTL

\* Results on the playground fit its form, and selected flags its environment.
THEOREM ResultsAreOfTheForm == Spec => []ResultsFitTheForm
<1>1. Inv => ResultsFitTheForm
  <2> SUFFICES ASSUME Inv, AtPlayground PROVE ResultsFitTheForm
    BY DEF ResultsFitTheForm
  <2>1. FormOK(at, envKey, play) /\ FlagsOK(at, play, cache) /\ AtForm(at)
    BY DEF Inv, FormInv, AtPlayground, AtForm
  <2>2. play.evaluation # None =>
           /\ play.evaluation.text = play.text
           /\ play.env \in {play.evaluation.env, envKey}
    BY <2>1 DEF FormOK
  <2>3. play.selected \in {None, play.env}
        \/ IsLoading(cache[QueryKey("flags", at.project, play.env)])
    BY <2>1 DEF FormOK, FlagsOK
  <2> QED
    BY <2>2, <2>3 DEF ResultsFitTheForm
<1> QED
  BY <1>1, InvHolds, PTL

\* A page of a project is loaded, or waits for a fetch, or one has failed.
THEOREM EveryPageLoads == Spec => []PagesLoad
<1>1. Inv => PagesLoad
  <2> SUFFICES ASSUME Inv, at # ProjectList,
                      \A q \in OnScreen : cache[q].fetch = "idle" /\ cache[q].data # None
               PROVE  envKey # None /\ (AtPlayground => play.env # None)
    BY DEF PagesLoad
  <2>1. EnvironmentsOf(at.project) \in OnScreen
    BY OnScreenAreQueries DEF OnScreen, Inv, PlaceInv
  <2>2. envKey # None
    BY <2>1 DEF Inv, PlaceInv, Environments
  <2> QED
    BY <2>2 DEF Inv, FormInv, FormOK, AtForm, AtPlayground
<1> QED
  BY <1>1, InvHolds, PTL
=============================================================================
