----------------------------- MODULE ProjectSetup -----------------------------
(***************************************************************************)
(* Templates of environments, and the projects that are created from them: *)
(* the settings page's list of templates, the project page and its dialog, *)
(* the handlers of both, and the statements by which a project comes to be *)
(* one after the other, outside of any transaction.                        *)
(*                                                                         *)
(* A template is its row's id and whether it is required; a project is its *)
(* key, whether it has its owner, and its environments.  Names, colours,   *)
(* the search and the choice of cards or rows are left out.                *)
(***************************************************************************)
EXTENDS Maintenance

VARIABLES
    templates,  \* the rows, by key
    rows,       \* how many ids were given to rows
    list,       \* react-query's entry for them
    project     \* the projects, by key

Row == [id : Nat, required : BOOLEAN]
ProjectRow == [owned : BOOLEAN, environments : SUBSET (Template \cup {Default})]

ASSUME NoneAssumption == None \notin [Template -> Row] \cup ProjectRow

NoTemplate == [id |-> 0, required |-> FALSE]
Live(data) == IF data = None THEN {} ELSE {k \in Template : data[k].id # 0}
Required(data) == {k \in Live(data) : data[k].required}

\* The boxes that the dialog shows as ticked.
Checked(data, selected) == {k \in Live(data) : data[k].required \/ k \in selected}

-----------------------------------------------------------------------------
(* The list of templates.                                                  *)

ShowsTemplates == page \in {"projects", "settings"}

Fetched(entry) == IF entry.fetch = "idle" THEN [entry EXCEPT !.fetch = "sent"] ELSE entry

\* The form's keys are those of the required templates while it is closed: opening
\* it finds these, whenever they came.  One that is left drops its dialog.
Visit(p) ==
    /\ p # page /\ p \in tour.pages \cup {"other", "login"} /\ tour.moves > 0
    /\ page = "login" => p = "projects"
    /\ dialog = None \/ p = "other"     \* the browser's Back
    /\ page' = p /\ tour' = [tour EXCEPT !.moves = @ - 1]
    /\ list' = IF p \in {"projects", "settings"} THEN Fetched(list) ELSE list
    /\ notice' = IF p = "login" THEN Inactive ELSE notice
    /\ text' = IF p = "settings" THEN notice.message ELSE None
    /\ dialog' = None /\ request' = Left
    /\ UNCHANGED <<settings, polls, templates, rows, project>>

FocusTemplates ==
    /\ ShowsTemplates /\ tour.moves > 0 /\ list.fetch = "idle"
    /\ list' = Fetched(list) /\ tour' = [tour EXCEPT !.moves = @ - 1]
    /\ UNCHANGED <<settings, request, page, notice, polls, text, dialog, templates,
                   rows, project>>

Untouched == UNCHANGED <<settings, request, page, notice, polls, text, dialog, tour,
                         templates, rows, project>>

ReadTemplates ==
    /\ list.fetch = "sent"
    /\ list' = [list EXCEPT !.fetch = "answered", !.answer = templates]
    /\ Untouched

LandTemplates ==
    /\ list.fetch = "answered"
    /\ list' = [data |-> list.answer, fetch |-> "idle", answer |-> None]
    /\ Untouched

FetchFails ==
    /\ list.fetch # "idle"
    /\ list' = [list EXCEPT !.fetch = "idle", !.answer = None]
    /\ Untouched

\* invalidateQueries, of a list that is fetched at once only where it is shown.
Invalidated ==
    IF ShowsTemplates /\ (list.fetch = "idle" \/ list.data # None)
    THEN [list EXCEPT !.fetch = "sent", !.answer = None] ELSE list

-----------------------------------------------------------------------------
(* The templates' card.                                                    *)

Unmoved == UNCHANGED <<templates, rows, list, project>>

Elsewhere == UNCHANGED <<settings, page, notice, polls, text, dialog>> /\ Unmoved

NewTemplate ==
    /\ page = "settings" /\ ~ notice.on /\ Opens([does |-> "createTemplate"]) /\ Unmoved

CreateTemplate(r, k, required) ==
    /\ dialog = [does |-> "createTemplate"] /\ ~ notice.on /\ ~ IsPending("createTemplate")
    /\ Sends(r, "here", [does |-> "createTemplate", key |-> k, required |-> required])
    /\ Elsewhere

UpdateTemplate(r, k) ==
    /\ page = "settings" /\ dialog = None /\ ~ notice.on /\ ~ IsPending("updateTemplate")
    /\ k \in Live(list.data)
    /\ Sends(r, "here", [does |-> "updateTemplate", key |-> k, id |-> list.data[k].id,
                         required |-> ~ list.data[k].required])
    /\ Elsewhere

AskToDelete(k) ==
    /\ page = "settings" /\ ~ notice.on /\ k \in Live(list.data)
    /\ Opens([does |-> "deleteTemplate", key |-> k, id |-> list.data[k].id]) /\ Unmoved

\* The dialog is not closed by a notice that comes: the server is to refuse.
ConfirmDelete(r) ==
    /\ dialog # None /\ dialog.does = "deleteTemplate" /\ ~ IsPending("deleteTemplate")
    /\ Sends(r, "here", dialog)
    /\ Elsewhere

-----------------------------------------------------------------------------
(* The project page and its dialog.                                        *)

\* "New project", and "Create project" where there are none.
OpenProjectForm ==
    /\ page = "projects"
    /\ Opens([does |-> "createProject", slug |-> None, selected |-> Required(list.data)])
    /\ Unmoved

Fills(form) ==
    /\ dialog' = form
    /\ UNCHANGED <<settings, request, page, notice, polls, text, tour>> /\ Unmoved

\* The name proposes a key, until one is typed.
TypeSlug(s) ==
    dialog # None /\ dialog.does = "createProject" /\ s # dialog.slug
    /\ Fills([dialog EXCEPT !.slug = s])

Tick(k) ==
    /\ dialog # None /\ dialog.does = "createProject"
    /\ k \in Live(list.data) \ Required(list.data)
    /\ Fills([dialog EXCEPT !.selected = IF k \in @ THEN @ \ {k} ELSE @ \cup {k}])

SubmitProject(r) ==
    /\ dialog # None /\ dialog.does = "createProject" /\ dialog.slug # None
    /\ ~ IsPending("createProject")
    /\ Sends(r, "here",
             [does |-> "createProject", slug |-> dialog.slug, selected |-> dialog.selected,
              todo |-> {},
              shown |-> Checked(list.data, dialog.selected),    \* history
              current |-> list.data = templates])               \* history
    /\ Elsewhere

-----------------------------------------------------------------------------
(* The handlers of templates.                                              *)

\* What project creations saw of the templates is so no longer.
Overtaken(held) ==
    [r \in Request |->
        IF held[r] # None /\ held[r].ask.does = "createProject"
        THEN [held[r] EXCEPT !.ask.current = FALSE] ELSE held[r]]

WritesTemplate(r, k, row) ==
    /\ templates' = [templates EXCEPT ![k] = row]
    /\ request' = Overtaken([request EXCEPT ![r].stage = "done"])
    /\ UNCHANGED <<settings, page, notice, polls, text, dialog, tour, list, project>>

InsertTemplate(r) ==
    /\ At(r, "createTemplate", "admitted")
    /\ LET ask == request[r].ask
       IN  /\ templates[ask.key].id = 0
           /\ WritesTemplate(r, ask.key, [id |-> rows + 1, required |-> ask.required])
    /\ rows' = rows + 1

FindTemplate(r) ==
    /\ \E does \in {"updateTemplate", "deleteTemplate"} : At(r, does, "admitted")
    /\ templates[request[r].ask.key].id = request[r].ask.id
    /\ Advance(r, "read", None)
    /\ UNCHANGED <<settings, page, notice, polls, text, dialog, tour>> /\ Unmoved

\* Save inserts a row that is no longer there, unless its key is taken.
SaveTemplate(r) ==
    /\ At(r, "updateTemplate", "read")
    /\ LET ask == request[r].ask
       IN  /\ templates[ask.key].id \in {0, ask.id}
           /\ WritesTemplate(r, ask.key, [id |-> ask.id, required |-> ask.required])
    /\ UNCHANGED rows

DropTemplate(r) ==
    /\ At(r, "deleteTemplate", "read")
    /\ templates[request[r].ask.key].id = request[r].ask.id
    /\ WritesTemplate(r, request[r].ask.key, NoTemplate)
    /\ UNCHANGED rows

\* A row that has gone since it was found: deleting no row is no error.
DropNothing(r) ==
    /\ At(r, "deleteTemplate", "read")
    /\ templates[request[r].ask.key].id # request[r].ask.id
    /\ Advance(r, "done", None)
    /\ UNCHANGED <<settings, page, notice, polls, text, dialog, tour>> /\ Unmoved

-----------------------------------------------------------------------------
(* project.Service.Create.                                                 *)

Writes(s, row) ==
    /\ project' = [project EXCEPT ![s] = row]
    /\ UNCHANGED <<settings, page, notice, polls, text, dialog, tour, templates, rows, list>>

InsertProject(r) ==
    /\ At(r, "createProject", "admitted") /\ project[request[r].ask.slug] = None
    /\ Writes(request[r].ask.slug, [owned |-> FALSE, environments |-> {}])
    /\ Advance(r, "inserted", None)

AddOwner(r) ==
    /\ At(r, "createProject", "inserted")
    /\ LET s == request[r].ask.slug IN Writes(s, [project[s] EXCEPT !.owned = TRUE])
    /\ Advance(r, "owned", None)

AddsEnvironment(s, k) == Writes(s, [project[s] EXCEPT !.environments = @ \cup {k}])

AddDefault(r) ==
    /\ At(r, "createProject", "owned") /\ AddsEnvironment(request[r].ask.slug, Default)
    /\ Advance(r, "based", None)

\* Mutant of Provisioned: only what the client has selected.
ProvisionedAsAsked(ask) == Live(templates) \cap ask.selected

Provisioned(ask) == Checked(templates, ask.selected)

Goes(todo) == IF todo = {} THEN "done" ELSE "listed"

ListTemplates(r) ==
    /\ At(r, "createProject", "based")
    /\ LET todo == Provisioned(request[r].ask)
       IN  request' = [request EXCEPT ![r].stage = Goes(todo), ![r].ask.todo = todo]
    /\ UNCHANGED <<settings, page, notice, polls, text, dialog, tour>> /\ Unmoved

AddEnvironment(r, k) ==
    /\ At(r, "createProject", "listed") /\ k \in request[r].ask.todo
    /\ AddsEnvironment(request[r].ask.slug, k)
    /\ LET todo == request[r].ask.todo \ {k}
       IN  request' = [request EXCEPT ![r].stage = Goes(todo), ![r].ask.todo = todo]

-----------------------------------------------------------------------------
(* Their answers.                                                          *)

\* The list is fetched again wherever the tab is now; the dialog of a page that is
\* still there is closed, of whichever template.
Answered(r) ==
    /\ \E does \in Does \ Halves : At(r, does, "done")
    /\ LET w == request[r]
       IN  /\ w.from = "here"
           /\ list' = IF w.ask.does = "createProject" THEN list ELSE Invalidated
           /\ dialog' = IF /\ w.attached /\ dialog # None /\ dialog.does = w.ask.does
                        THEN None ELSE dialog
    /\ request' = [request EXCEPT ![r] = None]
    /\ UNCHANGED <<settings, page, notice, polls, text, tour, templates, rows, project>>

=============================================================================
