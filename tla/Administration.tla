---------------------------- MODULE Administration ----------------------------
(***************************************************************************)
(* An instance and its administrators: maintenance mode, templates of      *)
(* environments and the creation of projects.  One tab has a page open     *)
(* that sends requests; others are sent from elsewhere, also through the   *)
(* page of access groups, which configures single sign-on.                 *)
(***************************************************************************)
EXTENDS ProjectSetup

vars == <<settings, request, page, notice, polls, text, dialog, tour, templates,
          rows, list, project>>

\* Others may have begun maintenance; single sign-on is not configured yet.  A tour
\* of maintenance begins on a page that is loaded, another on one that is opened.
Init ==
    /\ tour \in Tours
    /\ page \in tour.pages
    /\ \E m \in Message, on \in BOOLEAN :
          /\ on => tour.polls /\ m \in tour.messages
          /\ settings = [on |-> on, message |-> IF on THEN m ELSE None,
                      by |-> IF on THEN "elsewhere" ELSE None, oidc |-> FALSE]
    /\ request = [r \in Request |-> None]
    /\ notice = Inactive /\ polls = {}
    /\ text = None /\ dialog = None
    /\ \E required \in SUBSET tour.templates :
          templates = [t \in Template |->
             IF t \in tour.templates THEN [id |-> 1, required |-> t \in required]
             ELSE NoTemplate]
    /\ rows = 1 /\ project = [s \in Slug |-> None]
    /\ list = [data |-> IF tour.polls THEN templates ELSE None,
               fetch |-> IF tour.polls THEN "idle" ELSE "sent", answer |-> None]

\* What other administrators may send.
Asks ==
    [does : {"maintain"}, on : {TRUE}, message : tour.messages]
    \cup {[does |-> "maintain", on |-> FALSE, message |-> None]}
    \cup [does : {"configure"}, on : BOOLEAN]
    \cup [does : {"createTemplate"}, key : Template, required : BOOLEAN]
    \cup UNION {[does : {"updateTemplate"}, key : {k}, id : {templates[k].id},
                 required : BOOLEAN]
                \cup {[does |-> "deleteTemplate", key |-> k, id |-> templates[k].id]} :
                k \in Live(templates)}

AskedElsewhere(r) ==
    \E ask \in Asks : Sends(r, "elsewhere", ask) /\ Elsewhere

Handles(r) == Admit(r) \/ ReadSettings(r) \/ SaveSettings(r) \/ Fails(r)

Maintains ==
    \/ \E t \in tour.messages \cup {None} : EditText(t)
    \/ AskToEnable \/ CloseDialog
    \/ Poll \/ \E status \in Statuses : Land(status) \/ PollFails(status)
    \/ \E r \in Request :
          \/ UpdateMessage(r) \/ EndMaintenance(r) \/ ConfirmEnable(r)
          \/ Handles(r) \/ Maintained(r) \/ Unheard(r)

Fetches == FocusTemplates \/ ReadTemplates \/ LandTemplates \/ FetchFails

UsesSettings ==
    \/ NewTemplate
    \/ \E k \in Template :
          \/ AskToDelete(k)
          \/ \E r \in Request :
                \/ UpdateTemplate(r, k)
                \/ \E required \in BOOLEAN : CreateTemplate(r, k, required)
    \/ \E r \in Request : ConfirmDelete(r)

UsesProjects ==
    \/ OpenProjectForm
    \/ \E s \in Slug : TypeSlug(s)
    \/ \E k \in Template : Tick(k)
    \/ \E r \in Request : SubmitProject(r)

HandlesTemplates(r) ==
    \/ InsertTemplate(r) \/ FindTemplate(r) \/ SaveTemplate(r)
    \/ DropTemplate(r) \/ DropNothing(r)

Creates(r) ==
    \/ InsertProject(r) \/ AddOwner(r) \/ AddDefault(r) \/ ListTemplates(r)
    \/ \E k \in Template : AddEnvironment(r, k)

Next ==
    \/ Maintains /\ Unmoved
    \/ \E p \in Page : Visit(p)
    \/ Fetches \/ UsesSettings \/ UsesProjects
    \/ \E r \in Request :
          AskedElsewhere(r) \/ HandlesTemplates(r) \/ Creates(r) \/ Answered(r)

\* The interval of the provider fires again and again, and not every poll fails.
PollsAreAnswered ==
    /\ WF_vars(Poll /\ Unmoved)
    /\ SF_vars((\E status \in Statuses : Land(status)) /\ Unmoved)

Spec == Init /\ [][Next]_vars /\ PollsAreAnswered

-----------------------------------------------------------------------------
\* The two halves of the row are written whole, so that maintenance has a message and
\* one who began it just as long as it is on; a row of a template has an id that
\* was given to it; a project has environments only after its owner.
TypeOK ==
    /\ settings.on \in BOOLEAN /\ settings.oidc \in BOOLEAN
    /\ settings.message \in Message \cup {None} /\ settings.on <=> settings.message # None
    /\ settings.by \in {"here", "elsewhere", None} /\ settings.on <=> settings.by # None
    /\ page \in Page /\ text \in Message \cup {None}
    /\ notice.on <=> notice.message # None
    /\ dialog # None => page \in {"projects", "settings"}
    /\ templates \in [Template -> Row]
    /\ list.data \in [Template -> Row] \cup {None}
    /\ list.answer # None <=> list.fetch = "answered"
    /\ \A k \in Template : templates[k].id <= rows
    /\ \A s \in Slug : project[s] # None =>
          /\ project[s].environments \subseteq Template \cup {Default}
          /\ project[s].environments # {} => project[s].owned /\ Default \in project[s].environments

\* A request that was sent while maintenance was on changes nothing but maintenance
\* itself, for as long as that stays on; those that were let in before it end
\* what they do.
ReadOnlyInMaintenance ==
    \A r \in Request :
        (request[r] # None /\ request[r].during /\ request[r].ask.does # "maintain")
            => request[r].stage = "sent"

\* A project that was created has its owner and the environments whose boxes were
\* ticked in the dialog, required ones that were loaded only after it opened among
\* them, unless a template has changed in the meantime.
ProjectsAreAsShown ==
    \A r \in Request : At(r, "createProject", "done") =>
        LET ask == request[r].ask
        IN  /\ project[ask.slug].owned
            /\ ask.current =>
                  project[ask.slug].environments = {Default} \cup ask.shown

\* Once nobody changes it, everybody who is signed in comes to see whether there is
\* maintenance, and its message, and no answer of an earlier poll undoes that.
NoticeSettles == <>[](page = "login" \/ notice = Status(settings))
=============================================================================
