------------------------------ MODULE Workspace ------------------------------
(***************************************************************************)
(* The workspace of a project in a tab of the console: where the tab is    *)
(* (App.tsx), the environment that every page of the project works in      *)
(* (EnvironmentProvider), and the lists that its pages show, which         *)
(* react-query keeps and fetches again.  The pages themselves are in       *)
(* ListPages and Playground.                                               *)
(*                                                                         *)
(* A list is its revision and the state of its rows; names, values and     *)
(* messages are left out.  The filter of the parameters, the editor of one *)
(* flag and the list of projects belong to other pages or modules.         *)
(***************************************************************************)
EXTENDS Naturals

CONSTANTS
    Project,
    Environment,    \* keys of environments, which projects may have in common
    Default,        \* the environment that a project cannot be without
    Key,            \* keys of the rows of the other lists
    Call,           \* slots for mutations that are under way
    None,
    Tours   \* bounds of a behaviour: the pages it visits; how often the page, the
            \* environment or the focus changes; how many mutations are sent and
            \* changes made by others

Page == {"overview", "flags", "parameters", "playground",
         "environments", "contexts", "members", "settings"}

ASSUME WorkspaceAssumption ==
    /\ Default \in Environment /\ None \notin Environment \cup Project \cup Key \cup Page
    /\ \A t \in Tours : t \in [pages : SUBSET Page, moves : Nat, writes : Nat]

VARIABLES
    at,         \* the project and the page in the address bar
    back,       \* where the browser's Back leads
    stored,     \* the environments that localStorage remembers
    envKey,     \* the provider's environment, None before it has one
    server,     \* the rows behind each list
    cache,      \* react-query's entry for each list
    dialog,     \* the dialog that is open over the page, None if none is
    issued,     \* the settings page holds a key that was created
    write,      \* the mutations under way
    play,       \* the form and the results of the playground
    tour        \* what is left of the bounds

RowState == {"none", "plain", "marked"}     \* marked: archived, revoked, default

PerEnvironment == {"flags", "parameters", "api-keys"}

ListsOf(page) ==
    CASE page = "overview" -> {"flags", "parameters", "members"}
      [] page \in {"flags", "parameters"} -> {page}
      [] page = "playground" -> {"flags", "context-fields"}
      [] page = "environments" -> {}    \* it shows the provider's
      [] page = "contexts" -> {"context-fields"}
      [] page = "members" -> {"members", "project-access-groups"}
      [] page = "settings" -> {"api-keys"}

List == {"environments"} \cup UNION {ListsOf(page) : page \in Page}

Query ==
    [list : List \cap PerEnvironment, project : Project, environment : Environment]
    \cup [list : List \ PerEnvironment, project : Project, environment : {None}]

\* envPath, or the path of the project: None stands for a missing environment.
QueryKey(list, p, e) ==
    [list |-> list, project |-> p,
     environment |-> IF list \in PerEnvironment THEN e ELSE None]

EnvironmentsOf(p) == QueryKey("environments", p, None)

KeysOf(list) == IF list = "environments" THEN Environment ELSE Key
Content == [rev : Nat, rows : UNION {[KeysOf(list) -> RowState] : list \in List}]

ASSUME ContentAssumption == None \notin Content

Rows(data) == {k \in DOMAIN data.rows : data.rows[k] # "none"}

Location == [project : Project, page : Page]
ProjectList == [project |-> None, page |-> None]

-----------------------------------------------------------------------------
(* The query client.  staleTime is 0: whatever is mounted is fetched.      *)

NoEntry ==
    [data |-> None, fetch |-> "idle", answer |-> None,
     owed |-> 0]    \* history: the revision that its own page has written

\* A fetch that is already under way is joined.
FetchAll(held, mounted) ==
    [q \in DOMAIN held |->
        IF q \in mounted /\ held[q].fetch = "idle"
        THEN [held[q] EXCEPT !.fetch = "sent"] ELSE held[q]]

IsLoading(entry) == entry.data = None /\ entry.fetch # "idle"

\* invalidateQueries restarts the fetch of a list that is on screen; it cancels
\* one under way, except for the first, when there are no data yet.
Invalidate(held, q, onScreen) ==
    IF q \in onScreen /\ (held[q].fetch = "idle" \/ held[q].data # None)
    THEN [held EXCEPT ![q].fetch = "sent", ![q].answer = None] ELSE held

-----------------------------------------------------------------------------
(* What is on screen.                                                      *)

FreshForm == [env |-> None, initialized |-> None, selected |-> None,
              text |-> "default", evaluation |-> None]

\* The queries that are mounted: those that are enabled only.
Shown(loc, e, form) ==
    IF loc = ProjectList THEN {}
    ELSE {EnvironmentsOf(loc.project)} \cup
         (Query \cap {QueryKey(list, loc.project,
                               IF loc.page = "playground" THEN form.env ELSE e) :
                         list \in ListsOf(loc.page)})

OnScreen == Shown(at, envKey, play)
Environments == cache[EnvironmentsOf(at.project)].data

\* The effect of EnvironmentProvider, on a list that is loaded.
Choice(p, data) == IF stored[p] \in Rows(data) THEN stored[p] ELSE Default

\* Mutant of Chosen: no first environment for those who have chosen none.
ChosenBefore(p, held, chosen, changed) ==
    IF changed /\ held[EnvironmentsOf(p)].data # None /\ stored[p] # None
    THEN Choice(p, held[EnvironmentsOf(p)].data) ELSE chosen

\* The provider's effect runs when it mounts and when its list has changed,
\* which by structural sharing an equal answer has not.
Chosen(p, held, chosen, changed) ==
    IF changed /\ held[EnvironmentsOf(p)].data # None
    THEN Choice(p, held[EnvironmentsOf(p)].data) ELSE chosen

\* The playground selects the flags of an environment once, when they are there.
Initialized(loc, form, held) ==
    LET q == QueryKey("flags", loc.project, form.env)
    IN  IF \/ loc.page # "playground" \/ form.env = None
           \/ form.initialized = form.env \/ IsLoading(held[q])
        THEN form
        ELSE [form EXCEPT !.initialized = form.env,
                          !.selected = IF held[q].data = None \/ Rows(held[q].data) = {}
                                       THEN None ELSE form.env]

\* The playground's own environment follows the provider's when that changes.
Follow(loc, form, e) ==
    IF loc.page = "playground" /\ e # None THEN [form EXCEPT !.env = e] ELSE form

\* What a change of the environment, of the lists or of the form leads to.
Render(e, held, form) ==
    LET followed == IF e # envKey THEN Follow(at, form, e) ELSE form
    IN  /\ envKey' = e
        /\ cache' = FetchAll(held, Shown(at, e, followed) \ OnScreen)
        /\ play' = Initialized(at, followed, cache')

-----------------------------------------------------------------------------
(* Going from page to page.                                                *)

\* NavMain has the pages of the project, TeamSwitcher the flags of each project.
NavMain == IF at = ProjectList THEN {} ELSE [project : {at.project}, page : Page]
TeamSwitcher == {ProjectList} \cup [project : Project, page : {"flags"} \cap Page]
\* The cards and rows of the project list.
OpenProject ==
    IF at = ProjectList THEN [project : Project, page : {"overview"} \cap Page] ELSE {}

\* A mutation of a page that is gone, or that was called again, keeps the
\* callbacks of its last render.
RenderedIn(w) ==
    IF w.attached THEN [project |-> at.project, environment |-> envKey] ELSE w.rendered

Detached(w) == [w EXCEPT !.attached = FALSE, !.rendered = RenderedIn(w)]

\* Mutant of Reopens: the provider has no key.
NeverReopens(loc) == loc = ProjectList

\* Another project has a provider of its own (key={projectId}), with nothing
\* chosen and pages of their own.
Reopens(loc) == loc.project # at.project

Mount(loc) ==
    LET e == IF loc = ProjectList THEN None
             ELSE IF Reopens(loc) THEN Chosen(loc.project, cache, None, TRUE)
             ELSE envKey
        form == Follow(loc, FreshForm, e)
        old == IF Reopens(loc) THEN {} ELSE {EnvironmentsOf(at.project)}
    IN  /\ at' = loc /\ envKey' = e
        /\ cache' = FetchAll(cache, Shown(loc, e, form) \ old)
        /\ play' = Initialized(loc, form, cache')

\* A page keeps its state while it is the same element of the same parent.
Unmount(loc) ==
    IF Reopens(loc) \/ loc.page # at.page
    THEN /\ dialog' = None /\ issued' = FALSE
         /\ write' = [c \in Call |-> IF write[c] = None THEN None ELSE Detached(write[c])]
    ELSE UNCHANGED <<dialog, issued, write>>

\* A modal dialog is in the way of the links, and not of the browser's Back.
Visit(loc) ==
    /\ loc # at /\ loc.page \in tour.pages \cup {None} /\ tour.moves > 0
    /\ \/ dialog = None /\ loc \in NavMain \cup TeamSwitcher \cup OpenProject
       \/ loc = back
    /\ tour' = [tour EXCEPT !.moves = @ - 1] /\ back' = at
    /\ Mount(loc) /\ Unmount(loc)
    /\ UNCHANGED <<stored, server>>

-----------------------------------------------------------------------------
(* The environment of the provider.                                        *)

\* EnvironmentSwitcher, in the header.
SetEnvKey(e) ==
    /\ at # ProjectList /\ dialog = None /\ tour.moves > 0
    /\ Environments # None /\ e \in Rows(Environments) /\ e # envKey
    /\ stored' = [stored EXCEPT ![at.project] = e]
    /\ Render(e, cache, play)
    /\ tour' = [tour EXCEPT !.moves = @ - 1]
    /\ UNCHANGED <<at, back, server, dialog, issued, write>>

\* Another tab of the browser does so.
StoredElsewhere(p, e) ==
    /\ tour.writes > 0
    /\ stored[p] # e /\ e \in Rows(server[EnvironmentsOf(p)])
    /\ tour' = [tour EXCEPT !.writes = @ - 1]
    /\ stored' = [stored EXCEPT ![p] = e]
    /\ UNCHANGED <<at, back, envKey, server, cache, dialog, issued, write, play>>

\* Another administrator creates, renames or deletes an environment.
ChangedElsewhere(p, e, state) ==
    /\ tour.writes > 0
    /\ e # Default /\ state \in {"none", "plain"}
    /\ state = "none" => e \in Rows(server[EnvironmentsOf(p)])
    /\ tour' = [tour EXCEPT !.writes = @ - 1]
    /\ server' = [server EXCEPT ![EnvironmentsOf(p)] =
                     [rev |-> @.rev + 1, rows |-> [@.rows EXCEPT ![e] = state]]]
    /\ UNCHANGED <<at, back, stored, envKey, cache, dialog, issued, write, play>>

-----------------------------------------------------------------------------
(* Fetches.                                                                *)

\* The handlers of a deleted environment answer 404.
IsServed(q) ==
    q.environment # None =>
        server[EnvironmentsOf(q.project)].rows[q.environment] # "none"

Read(q) ==
    /\ cache[q].fetch = "sent" /\ IsServed(q)
    /\ cache' = [cache EXCEPT ![q].fetch = "answered", ![q].answer = server[q]]
    /\ UNCHANGED <<at, back, stored, envKey, server, dialog, issued, write, play, tour>>

\* An answer for the provider's list has its effect run.
Receives(q, entry) ==
    LET held == [cache EXCEPT ![q] = entry]
        changed == at # ProjectList /\ q = EnvironmentsOf(at.project)
                   /\ entry.data # cache[q].data
    IN  /\ Render(IF changed THEN Chosen(at.project, held, envKey, TRUE) ELSE envKey,
                  held, play)
        /\ UNCHANGED <<at, back, stored, server, dialog, issued, write, tour>>

Land(q) ==
    /\ cache[q].fetch = "answered"
    /\ Receives(q, [cache[q] EXCEPT !.data = cache[q].answer, !.fetch = "idle",
                                    !.answer = None])

\* After three retries.  The data that are there stay; of a list that has none
\* this leaves an entry that is idle without them.
FetchFails(q) ==
    /\ cache[q].fetch # "idle"
    /\ Receives(q, [cache[q] EXCEPT !.fetch = "idle", !.answer = None, !.owed = 0])

Focus ==
    /\ tour.moves > 0
    /\ \E q \in OnScreen : cache[q].fetch = "idle"
    /\ cache' = FetchAll(cache, OnScreen) /\ tour' = [tour EXCEPT !.moves = @ - 1]
    /\ UNCHANGED <<at, back, stored, envKey, server, dialog, issued, write, play>>

=============================================================================
