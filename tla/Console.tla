------------------------------- MODULE Console -------------------------------
(***************************************************************************)
(* A tab of the console in the projects of an instance: the workspace with *)
(* its list pages and the playground.  Other tabs of the same browser      *)
(* choose environments, and other administrators change them.              *)
(***************************************************************************)
EXTENDS ListPages, Playground

vars == <<at, back, stored, envKey, server, cache, dialog, issued, write, play,
          tour>>

\* The list of projects or a page of one is opened, by its address, and an earlier
\* visit may have chosen an environment.  Every list but that of the API keys has rows.
Init ==
    /\ tour \in Tours
    /\ at \in [project : Project, page : tour.pages] \cup {ProjectList}
    /\ back = ProjectList
    /\ \E e \in (Environment \ {Default}) \cup {None} : stored = [p \in Project |-> e]
    /\ server = [q \in Query |->
          [rev |-> 0,
           rows |-> [k \in KeysOf(q.list) |->
                        CASE q.list = "environments" /\ k = Default -> "marked"
                          [] q.list = "api-keys" -> "none"
                          [] OTHER -> "plain"]]]
    /\ envKey = None /\ play = FreshForm
    /\ cache = FetchAll([q \in Query |-> NoEntry], Shown(at, None, FreshForm))
    /\ dialog = None /\ issued = FALSE /\ write = [c \in Call |-> None]

Navigates ==
    \/ \E loc \in Location \cup {ProjectList} : Visit(loc)
    \/ \E e \in Environment : SetEnvKey(e)

Others ==
    \E p \in Project, e \in Environment :
        \/ StoredElsewhere(p, e)
        \/ \E state \in RowState : ChangedElsewhere(p, e, state)

Fetches(q) == Read(q) \/ Land(q) \/ FetchFails(q)

UsesList ==
    \/ \E list \in Editable : \E key \in KeysOf(list) : \E control \in Offers(list, key) :
          \/ \E c \in Call : ActOnRow(c, list, key, control)
          \/ OpenForRow(list, key, control)
    \/ \E m \in Forms : OpenForm(m)
    \/ CloseDialog \/ Done
    \/ \E c \in Call : Confirm(c) \/ \E key \in Key \cup Environment : Submit(c, key)

Writes(c) == Commit(c) \/ Succeeds(c) \/ Fails(c)

UsesPlayground ==
    \/ \E text \in Text : EditText(text)
    \/ AddContextValue
    \/ \E e \in Environment \cup {None} : SelectFlags(e)
    \/ \E e \in Environment : SelectEvaluationEnvironment(e)
    \/ Evaluate \/ Evaluated \/ EvaluationFails

Next ==
    \/ Navigates \/ Others \/ Focus
    \/ \E q \in Query : Fetches(q)
    \/ UsesList
    \/ \E c \in Call : Writes(c)
    \/ UsesPlayground

Spec == Init /\ [][Next]_vars

-----------------------------------------------------------------------------
\* The provider has an environment only in a project, a fetch has an answer only
\* when the server has given one, and only the pages of lists have dialogs.
TypeOK ==
    /\ at \in Location \cup {ProjectList} /\ back \in Location \cup {ProjectList}
    /\ stored \in [Project -> Environment \cup {None}]
    /\ envKey \in Environment \cup {None} /\ (at = ProjectList => envKey = None)
    /\ \A q \in Query :
          /\ server[q] \in Content
          /\ cache[q].data \in Content \cup {None}
          /\ cache[q].fetch \in {"idle", "sent", "answered"}
          /\ cache[q].answer \in Content \cup {None}
          /\ cache[q].answer # None <=> cache[q].fetch = "answered"
    /\ (dialog # None \/ issued) => ListPage
    /\ issued => at.page = "settings"
    /\ ~ AtPlayground => play = FreshForm
    /\ play.text \in Text /\ {play.env, play.selected} \subseteq Environment \cup {None}

\* A control changes what it was shown for: the request goes to the project and
\* the environment whose rows were on screen when it was clicked, or its dialog
\* opened, unless the list of environments has itself changed since (the
\* provider then chooses again, under the open dialog).
ActsWhereShown ==
    \A c \in Call : write[c] # None =>
        /\ write[c].to.project = write[c].seen.project
        /\ write[c].asSeen => write[c].to = write[c].seen

\* Once its fetch has ended, a list that was on screen when a change of its own
\* page was answered shows that change, whatever fetches were under way, and
\* whatever pages were visited since; but for a page that was left in another
\* environment than it asked in (its onSuccess names the list of that one).
WritesAreShown ==
    \A q \in OnScreen :
        cache[q].fetch = "idle" /\ cache[q].data # None
            => cache[q].data.rev >= cache[q].owed

\* Results on the playground are those of the context in its text box, and of the
\* environment in its form, unless the header has moved that; and no flag is
\* selected that is of another environment, but while its own are loading.
ResultsFitTheForm ==
    AtPlayground =>
        /\ (play.evaluation # None /\ play.evaluation.status = "success") =>
              /\ play.evaluation.text = play.text
              /\ play.env \in {play.evaluation.env, envKey}
        /\ play.selected \in {None, play.env}
           \/ IsLoading(cache[QueryKey("flags", at.project, play.env)])

\* A page that is not loaded is waiting for a fetch, or one has failed: the
\* project's environments lead to the choice of one, that to the lists that need
\* it, and nothing in between is left for a click or another visit.
PagesLoad ==
    at # ProjectList =>
        \/ \E q \in OnScreen : cache[q].fetch # "idle" \/ cache[q].data = None
        \/ envKey # None /\ (AtPlayground => play.env # None)
=============================================================================
