------------------------------ MODULE ListPages ------------------------------
(***************************************************************************)
(* The pages of a project that list rows and change them: flags,           *)
(* parameters, members, environments, contexts and settings.  Each page is *)
(* given by its mutations, the controls of its columns, which depend on    *)
(* the row as it is shown, and the dialogs over it; what a control, a      *)
(* dialog, an answer do is the same for all.                               *)
(*                                                                         *)
(* A rename is a control of its row: its text box keeps nothing else.      *)
(***************************************************************************)
EXTENDS Workspace

Exists == {"plain", "marked"}

\* A mutation, the rows that the server takes it for, and what they become.
Mutation(name, list, accepted, becomes) ==
    [name |-> name, list |-> list, accepted |-> accepted, becomes |-> becomes]
Creates(name, list) == Mutation(name, list, {"none"}, "plain")
Changes(name, list) == Mutation(name, list, Exists, "same")
Deletes(name, list) == Mutation(name, list, Exists, "none")

\* A control of a row does its mutation at once, asks first (ConfirmDialog), or
\* opens the form for the row.
AtOnce(m) == [does |-> m, by |-> "row"]
Asks(m) == [does |-> m, by |-> "confirm"]
Edits(m) == [does |-> m, by |-> "form"]

-----------------------------------------------------------------------------
(* flags-list.tsx                                                          *)

ToggleFlag == Changes("toggleFlag", "flags")
ArchiveFlag == Mutation("flagAction", "flags", Exists, "marked")
UnarchiveFlag == Mutation("flagAction", "flags", Exists, "plain")
DeleteFlag == Deletes("flagAction", "flags")
CreateFlag == Creates("createFlag", "flags")

FlagColumns(row) ==
    {Asks(DeleteFlag)} \cup
    IF row = "marked" THEN {Asks(UnarchiveFlag)}
    ELSE {AtOnce(ToggleFlag), Asks(ArchiveFlag)}

FlagForms == {CreateFlag}

-----------------------------------------------------------------------------
(* parameters-browser.tsx                                                  *)

Upsert == Mutation("upsert", "parameters", RowState, "plain")
RemoveParameter == Deletes("remove", "parameters")

ParameterColumns == {Edits(Upsert), Asks(RemoveParameter)}

ParameterForms == {Upsert}

-----------------------------------------------------------------------------
(* members-list.tsx                                                        *)

AddMember == Creates("addMember", "members")
UpdateRole == Changes("updateRole", "members")
RemoveMember == Deletes("removeMember", "members")
LinkGroup == Creates("linkGroup", "project-access-groups")
UpdateGroupRole == Changes("updateGroupRole", "project-access-groups")
UnlinkGroup == Deletes("unlinkGroup", "project-access-groups")

MemberColumns == {AtOnce(UpdateRole), Asks(RemoveMember)}
GroupSection == {AtOnce(UpdateGroupRole), AtOnce(UnlinkGroup)}

MemberForms == {AddMember, LinkGroup}

-----------------------------------------------------------------------------
(* environment-list.tsx                                                    *)

CreateEnvironment == Creates("createEnvironment", "environments")
RenameEnvironment == Changes("renameEnvironment", "environments")
DeleteEnvironment == Mutation("deleteEnvironment", "environments", {"plain"}, "none")

EnvironmentColumns(row) ==
    {AtOnce(RenameEnvironment)} \cup
    IF row = "marked" THEN {} ELSE {Asks(DeleteEnvironment)}

EnvironmentForms == {CreateEnvironment}

-----------------------------------------------------------------------------
(* context-fields.tsx                                                      *)

CreateField == Creates("saveField", "context-fields")
UpdateField == Changes("saveField", "context-fields")
DeleteField == Deletes("deleteField", "context-fields")

ContextColumns == {Edits(UpdateField), Asks(DeleteField)}

ContextForms == {CreateField}

-----------------------------------------------------------------------------
(* project-settings.tsx                                                    *)

CreateKey == Creates("createKey", "api-keys")
RevokeKey == Mutation("revokeKey", "api-keys", Exists, "marked")

KeyColumns(row) == IF row = "marked" THEN {} ELSE {Asks(RevokeKey)}

KeyForms == {CreateKey}

-----------------------------------------------------------------------------
(* What all of them do.                                                    *)

Columns(list, row) ==
    CASE list = "flags" -> FlagColumns(row)
      [] list = "parameters" -> ParameterColumns
      [] list = "members" -> MemberColumns
      [] list = "project-access-groups" -> GroupSection
      [] list = "environments" -> EnvironmentColumns(row)
      [] list = "context-fields" -> ContextColumns
      [] list = "api-keys" -> KeyColumns(row)

Forms ==
    CASE at.page = "flags" -> FlagForms
      [] at.page = "parameters" -> ParameterForms
      [] at.page = "members" -> MemberForms
      [] at.page = "environments" -> EnvironmentForms
      [] at.page = "contexts" -> ContextForms
      [] at.page = "settings" -> KeyForms
      [] OTHER -> {}

\* The lists whose rows have controls; the overview and the playground only read.
ListPage == at # ProjectList /\ at.page \notin {"overview", "playground"}
Editable ==
    IF ~ ListPage THEN {}
    ELSE IF at.page = "environments" THEN {"environments"} ELSE ListsOf(at.page)

Displayed(list) ==
    LET q == QueryKey(list, at.project, envKey)
    IN  IF q \in Query THEN cache[q].data ELSE None

Offers(list, key) ==
    IF Displayed(list) = None \/ Displayed(list).rows[key] = "none" THEN {}
    ELSE Columns(list, Displayed(list).rows[key])

IsPending(m) ==
    \E c \in Call : /\ write[c] # None /\ write[c].attached
                    /\ write[c].does.name = m.name

\* useMutation's observer leaves an earlier call of its own for the new one.
Mutate(c, m, key, seen, listed) ==
    /\ write[c] = None /\ tour.writes > 0
    /\ tour' = [tour EXCEPT !.writes = @ - 1]
    /\ write' = [d \in Call |->
          IF d = c
          THEN [does |-> m, key |-> key, to |-> QueryKey(m.list, at.project, envKey),
                seen |-> seen, asSeen |-> listed = Environments,
                answered |-> FALSE, rev |-> 0, attached |-> TRUE, rendered |-> None]
          ELSE IF write[d] # None /\ write[d].does.name = m.name
               THEN Detached(write[d]) ELSE write[d]]
    /\ UNCHANGED <<at, back, stored, envKey, server, cache, dialog, issued, play>>

ActOnRow(c, list, key, control) ==
    /\ dialog = None /\ list \in Editable /\ key \in KeysOf(list)
    /\ control \in Offers(list, key) /\ control.by = "row"
    /\ Mutate(c, control.does, key, QueryKey(list, at.project, envKey), Environments)

Opened(m, by, key) ==
    [does |-> m, by |-> by, key |-> key,
     seen |-> QueryKey(m.list, at.project, envKey), listed |-> Environments]

OpenForRow(list, key, control) ==
    /\ dialog = None /\ list \in Editable /\ key \in KeysOf(list)
    /\ control \in Offers(list, key) /\ control.by # "row"
    /\ dialog' = Opened(control.does, control.by, key)
    /\ UNCHANGED <<at, back, stored, envKey, server, cache, issued, write, play, tour>>

OpenForm(m) ==
    /\ dialog = None /\ m \in Forms
    /\ dialog' = Opened(m, "form", None)
    /\ UNCHANGED <<at, back, stored, envKey, server, cache, issued, write, play, tour>>

\* The settings page is showing the key that was created.
HasIssued == issued /\ dialog # None /\ dialog.does.name = "createKey"

\* Escape, the overlay and Cancel.
CloseDialog ==
    /\ dialog # None /\ dialog' = None
    /\ issued' = (issued /\ ~ HasIssued)
    /\ UNCHANGED <<at, back, stored, envKey, server, cache, write, play, tour>>

\* The button under a new key does not go through onOpenChange: the key is kept.
Done ==
    /\ HasIssued /\ dialog' = None
    /\ UNCHANGED <<at, back, stored, envKey, server, cache, issued, write, play, tour>>

\* linkGroup is offered the groups that the page shows as not linked.
IsSelectable(m, key) ==
    (m.name = "linkGroup" /\ Displayed(m.list) # None) => Displayed(m.list).rows[key] = "none"

Confirm(c) ==
    /\ dialog # None /\ dialog.by = "confirm" /\ ~ IsPending(dialog.does)
    /\ Mutate(c, dialog.does, dialog.key, dialog.seen, dialog.listed)

\* A new row takes the key that was typed, an edited one has its own.  A key that
\* was created is shown in place of the form.
Submit(c, key) ==
    /\ dialog # None /\ dialog.by = "form" /\ ~ IsPending(dialog.does) /\ ~ HasIssued
    /\ key \in KeysOf(dialog.does.list) /\ dialog.key \in {None, key}
    /\ IsSelectable(dialog.does, key)
    /\ Mutate(c, dialog.does, key, dialog.seen, dialog.listed)

-----------------------------------------------------------------------------
(* The server, and its answers.                                            *)

Commit(c) ==
    LET w == write[c]
    IN  /\ w # None /\ ~ w.answered /\ w.to \in Query /\ IsServed(w.to)
        /\ server[w.to].rows[w.key] \in w.does.accepted
        /\ server' = [server EXCEPT ![w.to] =
              [rev |-> @.rev + 1,
               rows |-> IF w.does.becomes = "same" THEN @.rows
                        ELSE [@.rows EXCEPT ![w.key] = w.does.becomes]]]
        /\ write' = [write EXCEPT ![c].answered = TRUE,
                                  ![c].rev = server'[w.to].rev]
        /\ UNCHANGED <<at, back, stored, envKey, cache, dialog, issued, play, tour>>

\* Mutant of Refreshed: a change of a group's role has the members fetched again.
RefreshedMembers(w) ==
    QueryKey(IF w.does.name = "updateGroupRole" THEN "members" ELSE w.does.list,
             RenderedIn(w).project, RenderedIn(w).environment)

\* The list that onSuccess invalidates is named by the last render of its page.
Refreshed(w) ==
    QueryKey(w.does.list, RenderedIn(w).project, RenderedIn(w).environment)

\* History: the changed list is on screen, in the environment that the page which
\* asked for the change was last rendered in.
IsSeen(w) ==
    /\ w.to \in OnScreen /\ cache[w.to].data # None
    /\ RenderedIn(w).environment = w.to.environment \/ w.to.environment = None

\* Whatever dialog of this mutation is open is closed, of whichever row, while
\* the page is; the settings page shows the key in place of it.
Closes(w) ==
    /\ w.attached /\ dialog # None /\ dialog.does.name = w.does.name
    /\ w.does.name # "createKey"

\* Mutant of Issues: the key of a page that was left is kept for the next.
IssuesAnyway(w) == w.does.name = "createKey"

\* setCreatedKey reaches the page that is there to be told.
Issues(w) == w.attached /\ w.does.name = "createKey"

Succeeds(c) ==
    LET w == write[c]
        held == Invalidate(cache, Refreshed(w), OnScreen)
    IN  /\ w # None /\ w.answered
        /\ cache' = IF IsSeen(w) /\ w.rev > held[w.to].owed
                    THEN [held EXCEPT ![w.to].owed = w.rev] ELSE held
        /\ dialog' = IF Closes(w) THEN None ELSE dialog
        /\ issued' = (issued \/ Issues(w))
        /\ write' = [write EXCEPT ![c] = None]
        /\ UNCHANGED <<at, back, stored, envKey, server, play, tour>>

\* A refusal, or a request or an answer that is lost: the dialog stays.
Fails(c) ==
    /\ write[c] # None
    /\ write' = [write EXCEPT ![c] = None]
    /\ UNCHANGED <<at, back, stored, envKey, server, cache, dialog, issued, play, tour>>

=============================================================================
