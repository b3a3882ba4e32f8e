-------------------------- MODULE AdministrationProofs --------------------------
(***************************************************************************)
(* Proofs about Administration, for any messages, templates, projects,     *)
(* requests and tours: its type invariant, that nothing but maintenance    *)
(* itself is written in maintenance, and that a project is created as it   *)
(* was shown, whatever the requests that are handled meanwhile.            *)
(***************************************************************************)
EXTENDS Administration, TLAPS

\* What a page can send.
MaintainAsk == [does : {"maintain"}, on : BOOLEAN, message : Message \cup {None}]
ConfigureAsk == [does : {"configure"}, on : BOOLEAN]
CreateAsk == [does : {"createTemplate"}, key : Template, required : BOOLEAN]
UpdateAsk == [does : {"updateTemplate"}, key : Template, id : Nat, required : BOOLEAN]
DeleteAsk == [does : {"deleteTemplate"}, key : Template, id : Nat]
ProjectAsk ==
    [does : {"createProject"}, slug : Slug, selected : SUBSET Template,
     todo : SUBSET Template, shown : SUBSET Template, current : BOOLEAN]
Ask == MaintainAsk \cup ConfigureAsk \cup CreateAsk \cup UpdateAsk \cup DeleteAsk
       \cup ProjectAsk

\* Maintenance has a message and one who began it just as long as it is on.
SettingsRow ==
    {s \in [on : BOOLEAN, message : Message \cup {None},
            by : {"here", "elsewhere", None}, oidc : BOOLEAN] :
        (s.on <=> s.message # None) /\ (s.on <=> s.by # None)}
StatusRow == {s \in Statuses : s.on <=> s.message # None}

Created == {"inserted", "owned", "based", "listed", "done"}

Held ==
    [ask : Ask, from : {"here", "elsewhere"},
     stage : {"sent", "admitted", "read"} \cup Created,
     found : SettingsRow \cup {None}, attached : BOOLEAN, during : BOOLEAN]

Form ==
    [does : {"maintain", "createTemplate"}] \cup DeleteAsk
    \cup [does : {"createProject"}, slug : Slug \cup {None}, selected : SUBSET Template]

List ==
    [data : [Template -> Row] \cup {None}, fetch : {"idle", "sent", "answered"},
     answer : [Template -> Row] \cup {None}]

Limits ==
    [pages : SUBSET Page, does : SUBSET Does, messages : SUBSET Message,
     templates : SUBSET Template, polls : BOOLEAN, moves : Nat, writes : Nat]

PageInv ==
    /\ tour \in Limits /\ page \in Page /\ text \in Message \cup {None}
    /\ notice \in StatusRow /\ polls \subseteq StatusRow
    /\ dialog \in Form \cup {None} /\ (dialog # None => page \in {"projects", "settings"})

RowsInv ==
    /\ settings \in SettingsRow
    /\ templates \in [Template -> Row] /\ rows \in Nat
    /\ \A k \in Template : templates[k].id <= rows
    /\ list \in List /\ (list.answer # None <=> list.fetch = "answered")

\* What a request has read; one that was sent in maintenance has not been let in,
\* unless it is of maintenance; and what is written for it was there before.
HeldOK(r) ==
    LET w == request[r] IN
    /\ w.ask.does \in Halves /\ w.stage \in {"read", "done"} => w.found \in SettingsRow
    /\ w.ask.does = "maintain" /\ w.stage = "read" /\ w.ask.on => w.ask.message # None
    /\ w.ask.does = "updateTemplate" /\ w.stage = "read" => w.ask.id <= rows
    /\ w.during => settings.on
    /\ w.during /\ w.ask.does # "maintain" => w.stage = "sent"

HeldInv ==
    /\ request \in [Request -> Held \cup {None}]
    /\ \A r \in Request : request[r] # None => HeldOK(r)

\* The request has written the row of a project, and is the one to do so.
HasRow(r) ==
    /\ request[r] # None /\ request[r].ask.does = "createProject"
    /\ request[r].stage \in Created

\* What a project has, at each stage of the request that creates it.
StageOK(r) ==
    LET ask == request[r].ask  p == project[ask.slug]  stage == request[r].stage IN
    /\ p # None
    /\ stage = "inserted" => p = [owned |-> FALSE, environments |-> {}]
    /\ stage # "inserted" => p.owned
    /\ stage = "owned" => p.environments = {}
    /\ stage = "based" => p.environments = {Default}
    /\ stage = "listed" => Default \in p.environments
    /\ stage = "listed" /\ ask.current => p.environments \cup ask.todo = {Default} \cup ask.shown
    /\ stage = "done" /\ ask.current => p.environments = {Default} \cup ask.shown

\* Until the templates are read, those that would be provisioned are those shown.
ShownOK(r) ==
    LET ask == request[r].ask IN
    request[r] # None /\ ask.does = "createProject" /\ ask.current
        /\ request[r].stage \notin {"listed", "done"}
      => ask.shown = Checked(templates, ask.selected)

\* No other request has written the project that this one is about.
IsSole(r) ==
    \A q \in Request \ {r} : HasRow(q) => request[q].ask.slug # request'[r].ask.slug

EnvironmentsOK(s) ==
    project[s] # None /\ project[s].environments # {} =>
        project[s].owned /\ Default \in project[s].environments

ProjectInv ==
    /\ project \in [Slug -> ProjectRow \cup {None}]
    /\ \A s \in Slug : EnvironmentsOK(s)
    /\ \A r \in Request : ShownOK(r) /\ (HasRow(r) => StageOK(r))
    /\ \A r, q \in Request : HasRow(r) /\ HasRow(q) /\ r # q
                               => request[r].ask.slug # request[q].ask.slug

Inv == PageInv /\ RowsInv /\ HeldInv /\ ProjectInv

-----------------------------------------------------------------------------
(* Requests, one step further.                                             *)

\* What a request asks for is known by what it does.
LEMMA AskOf ==
    ASSUME NEW ask \in Ask
    PROVE  /\ ask.does \in Does
           /\ ask.does = "maintain" => ask \in MaintainAsk
           /\ ask.does = "configure" => ask \in ConfigureAsk
           /\ ask.does = "createTemplate" => ask \in CreateAsk
           /\ ask.does = "updateTemplate" => ask \in UpdateAsk
           /\ ask.does = "deleteTemplate" => ask \in DeleteAsk
           /\ ask.does = "createProject" => ask \in ProjectAsk
<1>1. CASE ask \in MaintainAsk
  BY <1>1 DEF MaintainAsk, Does
<1>2. CASE ask \in ConfigureAsk
  BY <1>2 DEF ConfigureAsk, Does
<1>3. CASE ask \in CreateAsk
  BY <1>3 DEF CreateAsk, Does
<1>4. CASE ask \in UpdateAsk
  BY <1>4 DEF UpdateAsk, Does
<1>5. CASE ask \in DeleteAsk
  BY <1>5 DEF DeleteAsk, Does
<1>6. CASE ask \in ProjectAsk
  BY <1>6 DEF ProjectAsk, Does
<1> QED
  BY <1>1, <1>2, <1>3, <1>4, <1>5, <1>6 DEF Ask

\* A request that another one does not touch, but for what it is told: that its
\* page was left, that maintenance has ended, that a template was written.
Similar(q) ==
    request'[q] # None =>
        /\ request[q] # None
        /\ request'[q].stage = request[q].stage /\ request'[q].found = request[q].found
        /\ request'[q].during => request[q].during
        /\ \/ request'[q].ask = request[q].ask
           \/ /\ request[q].ask.does = "createProject"
              /\ request'[q].ask = [request[q].ask EXCEPT !.current = FALSE]

\* It asks for the same.
LEMMA SimilarAsk ==
    ASSUME HeldInv, NEW q \in Request, Similar(q), request'[q] # None
    PROVE  /\ request[q] \in Held /\ request[q].ask \in Ask
           /\ request'[q].ask.does = request[q].ask.does
           /\ request[q].ask.does # "createProject" => request'[q].ask = request[q].ask
           /\ request[q].ask.does = "createProject" =>
                /\ request'[q].ask.slug = request[q].ask.slug
                /\ request'[q].ask.selected = request[q].ask.selected
                /\ request'[q].ask.todo = request[q].ask.todo
                /\ request'[q].ask.shown = request[q].ask.shown
                /\ request'[q].ask.current => request[q].ask.current
<1>1. request[q] \in Held /\ request[q].ask \in Ask
  BY DEF HeldInv, Similar, Held
<1>2. CASE request'[q].ask = request[q].ask
  BY <1>1, <1>2
<1>3. CASE /\ request[q].ask.does = "createProject"
           /\ request'[q].ask = [request[q].ask EXCEPT !.current = FALSE]
  <2>1. request[q].ask \in ProjectAsk
    BY <1>1, <1>3, AskOf
  <2> QED
    BY <1>1, <1>3, <2>1 DEF ProjectAsk
<1> QED
  BY <1>2, <1>3 DEF Similar

\* And has read the same.
LEMMA SimilarHeld ==
    ASSUME HeldInv, NEW q \in Request, Similar(q), request'[q] # None,
           rows \in Nat, rows' \in Nat, rows <= rows', request'[q].during => settings'.on
    PROVE  HeldOK(q)'
<1>1. HeldOK(q) /\ request'[q].stage = request[q].stage /\ request'[q].found = request[q].found
      /\ (request'[q].during => request[q].during)
  BY DEF HeldInv, Similar
<1>2. /\ request'[q].ask.does = request[q].ask.does
      /\ request[q].ask.does # "createProject" => request'[q].ask = request[q].ask
  BY SimilarAsk
<1>3. request[q].ask.does = "updateTemplate" => request[q].ask.id \in Nat
  <2>1. request[q].ask \in Ask
    BY SimilarAsk
  <2> QED
    BY <2>1, AskOf DEF UpdateAsk
<1> QED
  BY <1>1, <1>2, <1>3 DEF HeldOK

\* One request goes on, and the others stay as they are.
LEMMA HeldStep ==
    ASSUME HeldInv, NEW r \in Request, \A q \in Request \ {r} : Similar(q),
           request' \in [Request -> Held \cup {None}],
           rows \in Nat, rows' \in Nat, rows <= rows',
           \A q \in Request \ {r} :
              request'[q] # None /\ request'[q].during => settings'.on,
           request'[r] # None => HeldOK(r)'
    PROVE  HeldInv'
<1>1. \A q \in Request \ {r} : request'[q] # None => HeldOK(q)'
  BY SimilarHeld
<1> QED
  BY <1>1 DEF HeldInv

\* The row of a project is written by the request that creates it, and by no other.
LEMMA ProjectStep ==
    ASSUME HeldInv, ProjectInv, NEW r \in Request,
           \A q \in Request \ {r} : Similar(q) /\ ShownOK(q)',
           project' \in [Slug -> ProjectRow \cup {None}],
           \A s \in Slug : project'[s] = project[s]
               \/ (IsSole(r) /\ s = request'[r].ask.slug /\ EnvironmentsOK(s)'),
           ShownOK(r)', HasRow(r)' => StageOK(r)' /\ IsSole(r)
    PROVE  ProjectInv'
<1>1. \A s \in Slug : EnvironmentsOK(s)'
  BY DEF ProjectInv, EnvironmentsOK
<1>2. ASSUME NEW q \in Request \ {r}, HasRow(q)'
      PROVE  HasRow(q) /\ request'[q].ask.slug = request[q].ask.slug /\ StageOK(q)'
  <2>1. /\ request'[q] # None /\ request[q] # None
        /\ request'[q].stage = request[q].stage /\ request'[q].ask.does = "createProject"
    BY <1>2 DEF HasRow, Similar
  <2>2. /\ request[q].ask.does = "createProject" /\ request[q].ask \in Ask
        /\ request'[q].ask.slug = request[q].ask.slug
        /\ request'[q].ask.todo = request[q].ask.todo
        /\ request'[q].ask.shown = request[q].ask.shown
        /\ request'[q].ask.current => request[q].ask.current
    BY <2>1, SimilarAsk
  <2>3. HasRow(q) /\ request[q].ask.slug \in Slug
    BY <1>2, <2>1, <2>2, AskOf DEF HasRow, ProjectAsk
  <2>4. project'[request[q].ask.slug] = project[request[q].ask.slug]
    BY <2>3 DEF IsSole
  <2>5. StageOK(q)
    BY <2>3 DEF ProjectInv
  <2> QED
    BY <2>1, <2>2, <2>3, <2>4, <2>5 DEF StageOK
<1>3. \A q \in Request : ShownOK(q)' /\ (HasRow(q)' => StageOK(q)')
  BY <1>2
<1>4. ASSUME NEW p \in Request, NEW q \in Request, HasRow(p)', HasRow(q)', p # q
      PROVE  request'[p].ask.slug # request'[q].ask.slug
  BY <1>2, <1>4 DEF ProjectInv, IsSole
<1> QED
  BY <1>1, <1>3, <1>4 DEF ProjectInv

\* What was shown is still what would be provisioned.
LEMMA SimilarShown ==
    ASSUME HeldInv, ProjectInv, NEW q \in Request, Similar(q), UNCHANGED templates
    PROVE  ShownOK(q)'
<1> SUFFICES ASSUME request'[q] # None PROVE ShownOK(q)'
  BY DEF ShownOK
<1>1. ShownOK(q) /\ request[q] # None /\ request'[q].stage = request[q].stage
  BY DEF ProjectInv, Similar
<1> QED
  BY <1>1, SimilarAsk DEF ShownOK, Checked, Live

\* Nothing is written, and one request comes to another stage, or to its end.
LEMMA RequestStep ==
    ASSUME RowsInv, HeldInv, ProjectInv, NEW r \in Request,
           UNCHANGED <<settings, templates, rows, project>>,
           request' \in [Request -> Held \cup {None}],
           \A q \in Request \ {r} : request'[q] = request[q],
           request'[r] # None => HeldOK(r)', ShownOK(r)', ~HasRow(r)'
    PROVE  HeldInv' /\ ProjectInv'
<1>1. \A q \in Request \ {r} : Similar(q)
  BY DEF Similar
<1>2. \A q \in Request \ {r} : request'[q] # None /\ request'[q].during => settings'.on
  BY DEF HeldInv, HeldOK
<1>3. HeldInv'
  BY <1>1, <1>2, HeldStep DEF RowsInv
<1>4. \A q \in Request \ {r} : ShownOK(q)'
  BY <1>1, SimilarShown
<1>5. ProjectInv'
  BY <1>1, <1>4, ProjectStep DEF ProjectInv
<1> QED
  BY <1>3, <1>5

\* A request is sent.
Starts(r) ==
    /\ \E ask \in Ask, from \in {"here", "elsewhere"} :
          /\ Sends(r, from, ask)
          /\ ask.does = "createProject" /\ ask.current
               => ask.shown = Checked(templates, ask.selected)
    /\ UNCHANGED <<settings, templates, rows, project>>

LEMMA StartsStep ==
    ASSUME RowsInv, HeldInv, ProjectInv, NEW r \in Request, Starts(r)
    PROVE  HeldInv' /\ ProjectInv'
<1>1. PICK ask \in Ask, from \in {"here", "elsewhere"} :
         /\ Sends(r, from, ask)
         /\ ask.does = "createProject" /\ ask.current
              => ask.shown = Checked(templates, ask.selected)
  BY DEF Starts
<1> DEFINE w == [ask |-> ask, from |-> from, stage |-> "sent", found |-> None,
                 attached |-> from = "here", during |-> settings.on]
<1>2. w \in Held
  BY DEF Held, RowsInv, SettingsRow
<1>3. request' = [request EXCEPT ![r] = w]
  BY <1>1 DEF Sends
<1>4. /\ request' \in [Request -> Held \cup {None}] /\ request'[r] = w
      /\ \A q \in Request \ {r} : request'[q] = request[q]
  BY <1>2, <1>3 DEF HeldInv
<1>5. HeldOK(r)' /\ ShownOK(r)' /\ ~HasRow(r)'
  BY <1>1, <1>4 DEF HeldOK, ShownOK, HasRow, Created, Checked, Live, Starts
<1> QED
  BY <1>4, <1>5, RequestStep DEF Starts

\* A request is answered, fails or is forgotten.
Ends(r) ==
    /\ request' = [request EXCEPT ![r] = None]
    /\ UNCHANGED <<settings, templates, rows, project>>

LEMMA EndsStep ==
    ASSUME RowsInv, HeldInv, ProjectInv, NEW r \in Request, Ends(r)
    PROVE  HeldInv' /\ ProjectInv'
<1>1. /\ request' \in [Request -> Held \cup {None}] /\ request'[r] = None
      /\ \A q \in Request \ {r} : request'[q] = request[q]
  BY DEF HeldInv, Ends
<1> QED
  BY <1>1, RequestStep DEF Ends, ShownOK, HasRow

\* A request is let in, or has read what it is to write, or has nothing to write.
Proceeds(r) ==
    /\ \/ Admit(r) \/ ReadSettings(r) \/ FindTemplate(r) \/ DropNothing(r)
    /\ UNCHANGED <<templates, rows, project>>

\* What becomes of a request that goes on.
LEMMA AdvanceHeld ==
    ASSUME HeldInv, NEW r \in Request, request[r] # None,
           NEW stage \in {"admitted", "read"} \cup Created,
           NEW found \in SettingsRow \cup {None}, Advance(r, stage, found)
    PROVE  /\ request' \in [Request -> Held \cup {None}]
           /\ \A q \in Request \ {r} : request'[q] = request[q]
           /\ request'[r].stage = stage /\ request'[r].found = found
           /\ request'[r].ask = request[r].ask /\ request'[r].during = request[r].during
<1>1. request[r] \in Held
  BY DEF HeldInv
<1>2. request' = [request EXCEPT ![r] = [request[r] EXCEPT !.stage = stage, !.found = found]]
  BY <1>1 DEF Advance, HeldInv, Held
<1>3. [request[r] EXCEPT !.stage = stage, !.found = found] \in Held
  BY <1>1 DEF Held
<1>4. /\ request' \in [Request -> Held \cup {None}]
      /\ \A q \in Request \ {r} : request'[q] = request[q]
      /\ request'[r] = [request[r] EXCEPT !.stage = stage, !.found = found]
  BY <1>2, <1>3 DEF HeldInv
<1> QED
  BY <1>1, <1>4 DEF Held

LEMMA ProceedsStep ==
    ASSUME RowsInv, HeldInv, ProjectInv, NEW r \in Request, Proceeds(r)
    PROVE  HeldInv' /\ ProjectInv'
<1>1. request[r] # None /\ settings' = settings
  BY DEF Proceeds, Admit, ReadSettings, FindTemplate, DropNothing, At
<1>2. request[r] \in Held /\ HeldOK(r) /\ ShownOK(r)
  BY <1>1 DEF HeldInv, ProjectInv
<1>3. ASSUME NEW stage \in {"admitted", "read", "done"},
             NEW found \in SettingsRow \cup {None},
             Advance(r, stage, found), HeldOK(r)',
             stage = "done" => request[r].ask.does = "deleteTemplate",
             request[r].stage \in {"sent", "admitted", "read"}
      PROVE  HeldInv' /\ ProjectInv'
  <2>1. /\ request' \in [Request -> Held \cup {None}]
        /\ \A q \in Request \ {r} : request'[q] = request[q]
        /\ request'[r].stage = stage /\ request'[r].ask = request[r].ask
    BY <1>1, <1>3, AdvanceHeld DEF Created
  <2>2. ShownOK(r)' /\ ~HasRow(r)'
    BY <1>1, <1>2, <1>3, <2>1 DEF ShownOK, HasRow, Created, Checked, Live, Proceeds
  <2> QED
    BY <1>1, <1>3, <2>1, <2>2, RequestStep DEF Proceeds
<1>4. CASE Admit(r)
  <2>1. Advance(r, "admitted", None) /\ request[r].stage = "sent"
        /\ (request[r].ask.does = "maintain" \/ ~settings.on)
    BY <1>4 DEF Admit, IsExempt
  <2>2. /\ request'[r].stage = "admitted" /\ request'[r].ask = request[r].ask
        /\ request'[r].during = request[r].during
    BY <1>1, <2>1, AdvanceHeld
  <2>3. HeldOK(r)'
    BY <1>1, <1>2, <2>1, <2>2 DEF HeldOK
  <2> QED
    BY <1>3, <2>1, <2>3
<1>5. CASE ReadSettings(r)
  <2>1. /\ Advance(r, "read", settings) /\ request[r].stage = "admitted"
        /\ request[r].ask.does \in Halves /\ settings \in SettingsRow
        /\ request[r].ask.does = "maintain" /\ request[r].ask.on => request[r].ask.message # None
    BY <1>5 DEF ReadSettings, At, RowsInv
  <2>2. /\ request'[r].stage = "read" /\ request'[r].ask = request[r].ask
        /\ request'[r].found = settings /\ request'[r].during = request[r].during
    BY <1>1, <2>1, AdvanceHeld
  <2>3. HeldOK(r)'
    BY <1>1, <1>2, <2>1, <2>2 DEF HeldOK, Halves
  <2> QED
    BY <1>3, <2>1, <2>3
<1>6. CASE FindTemplate(r)
  <2>1. /\ Advance(r, "read", None) /\ request[r].stage = "admitted"
        /\ request[r].ask.does \in {"updateTemplate", "deleteTemplate"}
        /\ templates[request[r].ask.key].id = request[r].ask.id
    BY <1>6 DEF FindTemplate, At
  <2>2. /\ request'[r].stage = "read" /\ request'[r].ask = request[r].ask
        /\ request'[r].during = request[r].during
    BY <1>1, <2>1, AdvanceHeld
  <2>3. request[r].ask.key \in Template
    BY <1>2, <2>1, AskOf DEF Held, UpdateAsk, DeleteAsk
  <2>4. HeldOK(r)'
    BY <1>1, <1>2, <2>1, <2>2, <2>3 DEF HeldOK, Halves, RowsInv, Proceeds
  <2> QED
    BY <1>3, <2>1, <2>4
<1>7. CASE DropNothing(r)
  <2>1. /\ Advance(r, "done", None) /\ request[r].stage = "read"
        /\ request[r].ask.does = "deleteTemplate"
    BY <1>7 DEF DropNothing, At
  <2>2. /\ request'[r].stage = "done" /\ request'[r].ask = request[r].ask
        /\ request'[r].during = request[r].during
    BY <1>1, <2>1, AdvanceHeld DEF Created
  <2>3. HeldOK(r)'
    BY <1>1, <1>2, <2>1, <2>2 DEF HeldOK, Halves
  <2> QED
    BY <1>3, <2>1, <2>3
<1> QED
  BY <1>4, <1>5, <1>6, <1>7 DEF Proceeds

\* The page is left.
LEMMA LeftStep ==
    ASSUME RowsInv, HeldInv, ProjectInv, request' = Left,
           UNCHANGED <<settings, templates, rows, project>>
    PROVE  HeldInv' /\ ProjectInv'
<1>1. ASSUME NEW q \in Request
      PROVE  /\ Similar(q) /\ request'[q] \in Held \cup {None}
             /\ request'[q] # None => request'[q].during = request[q].during
  <2>1. CASE request[q] = None
    BY <2>1 DEF Left, Similar
  <2>2. CASE request[q] # None
    <3>1. request[q] \in Held
      BY <2>2 DEF HeldInv
    <3>2. request'[q] = [request[q] EXCEPT !.attached = FALSE]
      BY <2>2 DEF Left
    <3> QED
      BY <2>2, <3>1, <3>2 DEF Held, Similar
  <2> QED
    BY <2>1, <2>2
<1>2. request' \in [Request -> Held \cup {None}]
  BY <1>1 DEF Left
<1>3. \A q \in Request : request'[q] # None /\ request'[q].during => settings'.on
  BY <1>1 DEF HeldInv, HeldOK, Similar
<1>4. CASE Request = {}
  BY <1>2, <1>4 DEF HeldInv, ProjectInv, EnvironmentsOK
<1>5. ASSUME NEW r \in Request PROVE HeldInv' /\ ProjectInv'
  <2>1. request'[r] # None => HeldOK(r)'
    BY <1>1, <1>3, SimilarHeld DEF RowsInv
  <2>2. HeldInv'
    BY <1>1, <1>2, <1>3, <2>1, HeldStep DEF RowsInv
  <2>3. \A q \in Request : ShownOK(q)'
    BY <1>1, SimilarShown
  <2>4. HasRow(r)' => HasRow(r) /\ StageOK(r)' /\ request'[r].ask.slug = request[r].ask.slug
    <3> SUFFICES ASSUME HasRow(r)'
                 PROVE  HasRow(r) /\ StageOK(r)' /\ request'[r].ask.slug = request[r].ask.slug
      OBVIOUS
    <3>1. request'[r] # None /\ Similar(r)
      BY <1>1 DEF HasRow
    <3> QED
      BY <3>1, SimilarAsk DEF HasRow, StageOK, ProjectInv, Similar
  <2>5. ProjectInv'
    BY <1>1, <2>3, <2>4, ProjectStep DEF ProjectInv, IsSole
  <2> QED
    BY <2>2, <2>5
<1> QED
  BY <1>4, <1>5

\* The row of settings is written as it was read, but for one half.
LEMMA SaveSettingsStep ==
    ASSUME RowsInv, HeldInv, ProjectInv, NEW r \in Request, SaveSettings(r),
           UNCHANGED <<templates, rows, project>>
    PROVE  HeldInv' /\ ProjectInv' /\ settings' \in SettingsRow
<1>1. /\ request[r] \in Held /\ HeldOK(r) /\ request[r].ask.does \in Halves
      /\ request[r].stage = "read" /\ request[r] # None
  BY DEF SaveSettings, At, HeldInv
<1>2. request[r].found \in SettingsRow /\ request[r].ask \in Ask
      /\ request[r].from \in {"here", "elsewhere"}
  BY <1>1 DEF HeldOK, Held
<1> DEFINE row == IF request[r].ask.does = "maintain"
                  THEN SetMaintenance(request[r].found, request[r].ask, request[r].from)
                  ELSE SetOIDC(request[r].found, request[r].ask)
<1>3. row \in SettingsRow
  <2>1. CASE request[r].ask.does = "maintain"
    <3>1. /\ request[r].ask \in MaintainAsk
          /\ request[r].ask.on => request[r].ask.message # None
      BY <1>1, <1>2, <2>1, AskOf DEF HeldOK
    <3>2. row = SetMaintenance(request[r].found, request[r].ask, request[r].from)
      BY <2>1
    <3> HIDE DEF row
    <3> QED
      BY <1>2, <3>1, <3>2, AdministrationAssumption DEF SettingsRow, SetMaintenance, MaintainAsk
  <2>2. CASE request[r].ask.does = "configure"
    <3>1. request[r].ask \in ConfigureAsk
      BY <1>2, <2>2, AskOf
    <3>2. row = SetOIDC(request[r].found, request[r].ask)
      BY <2>2
    <3> HIDE DEF row
    <3> QED
      BY <1>2, <3>1, <3>2 DEF SettingsRow, SetOIDC, ConfigureAsk
  <2> QED
    BY <1>1, <2>1, <2>2 DEF Halves
<1>4. /\ settings' = row
      /\ request' = [s \in Request |->
            IF request[s] = None THEN None
            ELSE [request[s] EXCEPT !.stage = IF s = r THEN "done" ELSE @,
                                    !.found = IF s = r THEN row ELSE @,
                                    !.during = @ /\ row.on]]
  BY DEF SaveSettings
<1> HIDE DEF row
<1>5. row.on \in BOOLEAN
  BY <1>3 DEF SettingsRow
<1>6. ASSUME NEW q \in Request \ {r}
      PROVE  /\ Similar(q) /\ request'[q] \in Held \cup {None}
             /\ request'[q] # None => request'[q].during = (request[q].during /\ row.on)
  <2>1. CASE request[q] = None
    BY <1>4, <2>1 DEF Similar
  <2>2. CASE request[q] # None
    <3>1. request[q] \in Held
      BY <2>2 DEF HeldInv
    <3>2. request'[q] = [request[q] EXCEPT !.during = request[q].during /\ row.on]
      BY <1>4, <2>2, <3>1 DEF Held
    <3> QED
      BY <1>5, <2>2, <3>1, <3>2 DEF Held, Similar
  <2> QED
    BY <2>1, <2>2
<1>7. /\ request'[r] \in Held /\ request'[r].stage = "done" /\ request'[r].found = row
      /\ request'[r].during = (request[r].during /\ row.on) /\ request'[r].ask = request[r].ask
  <2>1. request'[r] = [request[r] EXCEPT !.stage = "done", !.found = row,
                                         !.during = request[r].during /\ row.on]
    BY <1>1, <1>4 DEF Held
  <2> QED
    BY <1>1, <1>3, <1>5, <2>1 DEF Held, Created
<1>8. request' \in [Request -> Held \cup {None}]
  BY <1>4, <1>6, <1>7
<1>9. \A q \in Request \ {r} : request'[q] # None /\ request'[q].during => settings'.on
  BY <1>4, <1>6
<1>10. HeldOK(r)'
  BY <1>1, <1>3, <1>4, <1>7 DEF HeldOK, Halves
<1>11. HeldInv'
  BY <1>6, <1>8, <1>9, <1>10, HeldStep DEF RowsInv
<1>12. \A q \in Request \ {r} : Similar(q) /\ ShownOK(q)'
  BY <1>6, SimilarShown
<1>13. ShownOK(r)' /\ ~HasRow(r)'
  BY <1>1, <1>7 DEF ShownOK, HasRow, Halves
<1>14. ProjectInv'
  BY <1>12, <1>13, ProjectStep DEF ProjectInv
<1> QED
  BY <1>3, <1>4, <1>11, <1>14

\* A template is written, and whoever creates a project is told so.
LEMMA WritesTemplateStep ==
    ASSUME RowsInv, HeldInv, ProjectInv, NEW r \in Request, NEW k, NEW row,
           request[r] # None, request[r].stage # "sent",
           request[r].ask.does \in {"createTemplate", "updateTemplate", "deleteTemplate"},
           WritesTemplate(r, k, row), rows' \in Nat, rows <= rows'
    PROVE  HeldInv' /\ ProjectInv'
<1> DEFINE held == [request EXCEPT ![r].stage = "done"]
<1>1. /\ request[r] \in Held /\ HeldOK(r) /\ ~request[r].during
      /\ settings' = settings /\ project' = project
  BY DEF HeldInv, HeldOK, WritesTemplate
<1>2. held[r] = [request[r] EXCEPT !.stage = "done"] /\ held[r] \in Held
      /\ \A q \in Request \ {r} : held[q] = request[q]
  BY <1>1 DEF HeldInv, Held, Created
<1>3. request' = Overtaken(held)
  BY DEF WritesTemplate
<1> HIDE DEF held
<1>4. ASSUME NEW q \in Request \ {r}
      PROVE  /\ Similar(q) /\ request'[q] \in Held \cup {None}
             /\ request'[q] # None => request'[q].during = request[q].during
             /\ request'[q] # None /\ request'[q].ask.does = "createProject"
                  => ~request'[q].ask.current
  <2>1. CASE request[q] # None /\ request[q].ask.does = "createProject"
    <3>1. request[q] \in Held /\ request[q].ask \in ProjectAsk
      BY <2>1, AskOf DEF HeldInv, Held
    <3>2. request'[q] = [request[q] EXCEPT !.ask = [request[q].ask EXCEPT !.current = FALSE]]
      BY <1>2, <1>3, <2>1, <3>1 DEF Overtaken, Held
    <3>3. [request[q].ask EXCEPT !.current = FALSE] \in ProjectAsk
      BY <3>1 DEF ProjectAsk
    <3>4. [request[q].ask EXCEPT !.current = FALSE] \in Ask
          /\ [request[q].ask EXCEPT !.current = FALSE].current = FALSE
      BY <3>1, <3>3 DEF Ask, ProjectAsk
    <3> HIDE DEF Ask
    <3> QED
      BY <2>1, <3>1, <3>2, <3>4 DEF Held, Similar
  <2>2. CASE ~(request[q] # None /\ request[q].ask.does = "createProject")
    <3>1. request'[q] = request[q]
      BY <1>2, <1>3, <2>2 DEF Overtaken
    <3> QED
      BY <2>2, <3>1 DEF HeldInv, Similar
  <2> QED
    BY <2>1, <2>2
<1>5. request'[r] = held[r]
  BY <1>1, <1>2, <1>3 DEF Overtaken, Held
<1>6. request'[r].stage = "done" /\ request'[r].ask = request[r].ask /\ ~request'[r].during
  BY <1>1, <1>2, <1>5 DEF Held
<1>7. request' \in [Request -> Held \cup {None}]
  BY <1>2, <1>3, <1>4, <1>5 DEF Overtaken
<1>8. \A q \in Request \ {r} : request'[q] # None /\ request'[q].during => settings'.on
  BY <1>1, <1>4 DEF HeldInv, HeldOK, Similar
<1>9. HeldOK(r)'
  BY <1>6 DEF HeldOK, Halves
<1>10. HeldInv'
  BY <1>4, <1>7, <1>8, <1>9, HeldStep DEF RowsInv
<1>11. \A q \in Request \ {r} : ShownOK(q)'
  BY <1>4 DEF ShownOK
<1>12. ShownOK(r)' /\ ~HasRow(r)'
  BY <1>6 DEF ShownOK, HasRow
<1>13. ProjectInv'
  BY <1>1, <1>4, <1>11, <1>12, ProjectStep DEF ProjectInv
<1> QED
  BY <1>10, <1>13

-----------------------------------------------------------------------------
(* Creating a project.                                                     *)

\* A request that creates a project goes on, and writes no row but its project's.
LEMMA CreatesStep ==
    ASSUME RowsInv, HeldInv, ProjectInv, NEW r \in Request,
           request[r] # None, request[r].ask.does = "createProject",
           request[r].stage # "sent",
           UNCHANGED <<settings, templates, rows>>,
           request' \in [Request -> Held \cup {None}],
           \A q \in Request \ {r} : request'[q] = request[q],
           request'[r].ask.does = "createProject",
           request'[r].ask.slug = request[r].ask.slug,
           ~request'[r].during, ShownOK(r)', StageOK(r)',
           project' \in [Slug -> ProjectRow \cup {None}],
           \A s \in Slug \ {request[r].ask.slug} : project'[s] = project[s],
           EnvironmentsOK(request[r].ask.slug)',
           HasRow(r) \/ project[request[r].ask.slug] = None
    PROVE  HeldInv' /\ ProjectInv'
<1>1. \A q \in Request \ {r} : Similar(q)
  BY DEF Similar
<1>2. \A q \in Request \ {r} : request'[q] # None /\ request'[q].during => settings'.on
  BY DEF HeldInv, HeldOK
<1>3. HeldOK(r)'
  BY DEF HeldOK, Halves
<1>4. HeldInv'
  BY <1>1, <1>2, <1>3, HeldStep DEF RowsInv
<1>5. \A q \in Request \ {r} : ShownOK(q)'
  BY <1>1, SimilarShown
<1>6. IsSole(r)
  <2> SUFFICES ASSUME NEW q \in Request \ {r}, HasRow(q)
               PROVE  request[q].ask.slug # request[r].ask.slug
    BY DEF IsSole
  <2>1. CASE HasRow(r)
    BY <2>1 DEF ProjectInv
  <2>2. CASE project[request[r].ask.slug] = None
    BY <2>2 DEF ProjectInv, StageOK
  <2> QED
    BY <2>1, <2>2
<1>7. \A s \in Slug : project'[s] = project[s]
          \/ (IsSole(r) /\ s = request'[r].ask.slug /\ EnvironmentsOK(s)')
  BY <1>6
<1>8. ProjectInv'
  BY <1>1, <1>5, <1>6, <1>7, ProjectStep
<1> QED
  BY <1>4, <1>8

\* The statements of project.Service.Create, one after the other.
LEMMA CreatesHolds ==
    ASSUME RowsInv, HeldInv, ProjectInv, NEW r \in Request, Creates(r)
    PROVE  HeldInv' /\ ProjectInv'
<1> DEFINE ask == request[r].ask  s == request[r].ask.slug
<1>1. /\ request[r] # None /\ ask.does = "createProject"
      /\ request[r].stage \in {"admitted", "inserted", "owned", "based", "listed"}
      /\ UNCHANGED <<settings, templates, rows>>
  BY DEF Creates, InsertProject, AddOwner, AddDefault, ListTemplates, AddEnvironment, At,
         Writes, AddsEnvironment, Unmoved
<1>2. /\ request[r] \in Held /\ ask \in ProjectAsk /\ s \in Slug /\ ShownOK(r)
      /\ HeldOK(r) /\ ~request[r].during
  <2>1. request[r] \in Held /\ HeldOK(r) /\ ShownOK(r) /\ ask \in Ask
    BY <1>1 DEF HeldInv, ProjectInv, Held
  <2> QED
    BY <1>1, <2>1, AskOf DEF HeldOK, ProjectAsk
<1>3. request[r].stage # "admitted" => HasRow(r) /\ StageOK(r) /\ project[s] \in ProjectRow
  BY <1>1, <1>2 DEF HasRow, Created, ProjectInv, StageOK
<1>4. EnvironmentsOK(s) /\ project \in [Slug -> ProjectRow \cup {None}]
  BY <1>2 DEF ProjectInv
\* A step that writes the row, and leaves what is asked for.
<1>5. ASSUME NEW stage \in {"inserted", "owned", "based"}, NEW row \in ProjectRow,
             Advance(r, stage, None), Writes(s, row), ask.does = "createProject",
             HasRow(r) \/ project[s] = None,
             stage = "inserted" => row = [owned |-> FALSE, environments |-> {}],
             stage # "inserted" => row.owned,
             stage = "owned" => row.environments = {},
             stage = "based" => row.environments = {Default},
             request[r].stage # "listed"
      PROVE  HeldInv' /\ ProjectInv'
  <2>1. /\ request' \in [Request -> Held \cup {None}]
        /\ \A q \in Request \ {r} : request'[q] = request[q]
        /\ request'[r].stage = stage /\ request'[r].ask = ask
        /\ request'[r].during = request[r].during /\ request'[r] \in Held \cup {None}
    BY <1>1, <1>5, AdvanceHeld DEF Created
  <2>2. /\ project' \in [Slug -> ProjectRow \cup {None}] /\ project'[s] = row
        /\ \A t \in Slug \ {s} : project'[t] = project[t]
    BY <1>2, <1>4, <1>5 DEF Writes
  <2>3. EnvironmentsOK(s)' /\ StageOK(r)'
    <3>1. row # None
      BY NoneAssumption
    <3>2. row.owned \/ row.environments = {}
      BY <1>5
    <3>3. row.environments # {} => Default \in row.environments
      BY <1>5
    <3> QED
      BY <1>5, <2>1, <2>2, <3>1, <3>2, <3>3 DEF EnvironmentsOK, StageOK
  <2>4. ShownOK(r)'
    BY <1>1, <1>2, <1>5, <2>1 DEF ShownOK, Checked, Live
  <2> QED
    BY <1>1, <1>2, <1>5, <2>1, <2>2, <2>3, <2>4, CreatesStep
<1>6. CASE InsertProject(r)
  <2>1. /\ Writes(s, [owned |-> FALSE, environments |-> {}]) /\ Advance(r, "inserted", None)
        /\ request[r].stage = "admitted" /\ project[s] = None
    BY <1>6 DEF InsertProject, At
  <2>2. [owned |-> FALSE, environments |-> {}] \in ProjectRow
    BY DEF ProjectRow
  <2> QED
    BY <1>1, <1>5, <2>1, <2>2
<1>7. CASE AddOwner(r)
  <2>1. /\ Writes(s, [project[s] EXCEPT !.owned = TRUE]) /\ Advance(r, "owned", None)
        /\ request[r].stage = "inserted"
    BY <1>7 DEF AddOwner, At
  <2>2. project[s] \in ProjectRow /\ project[s].environments = {} /\ HasRow(r)
    BY <1>3, <2>1 DEF StageOK
  <2> DEFINE row == [project[s] EXCEPT !.owned = TRUE]
  <2>3. row \in ProjectRow /\ row.owned /\ row.environments = {}
    BY <2>2 DEF ProjectRow
  <2> HIDE DEF row
  <2>4. Writes(s, row)
    BY <2>1 DEF row
  <2> QED
    BY <1>1, <1>5, <2>1, <2>2, <2>3, <2>4
<1>8. CASE AddDefault(r)
  <2>1. /\ Writes(s, [project[s] EXCEPT !.environments = @ \cup {Default}])
        /\ Advance(r, "based", None) /\ request[r].stage = "owned"
    BY <1>8 DEF AddDefault, AddsEnvironment, At
  <2>2. project[s] \in ProjectRow /\ project[s].owned /\ project[s].environments = {} /\ HasRow(r)
    BY <1>3, <2>1 DEF StageOK
  <2> DEFINE row == [project[s] EXCEPT !.environments = @ \cup {Default}]
  <2>3. row \in ProjectRow /\ row.owned /\ row.environments = {Default}
    BY <2>2 DEF ProjectRow
  <2> HIDE DEF row
  <2>4. Writes(s, row)
    BY <2>1 DEF row
  <2> QED
    BY <1>1, <1>5, <2>1, <2>2, <2>3, <2>4
\* A step that knows what is left to do.
<1>9. ASSUME NEW todo \in SUBSET Template,
             request' = [request EXCEPT ![r].stage = Goes(todo), ![r].ask.todo = todo],
             project[s] \in ProjectRow, NEW row \in ProjectRow, HasRow(r),
             project' = [project EXCEPT ![s] = row],
             row.owned, Default \in row.environments,
             ask.current => row.environments \cup todo = {Default} \cup ask.shown
      PROVE  HeldInv' /\ ProjectInv'
  <2> DEFINE next == [ask EXCEPT !.todo = todo]
             done == [request[r] EXCEPT !.stage = Goes(todo), !.ask = next]
  <2>1. /\ next \in ProjectAsk /\ next.slug = s /\ next.does = "createProject"
        /\ next.todo = todo /\ next.shown = ask.shown /\ next.current = ask.current
        /\ next.selected = ask.selected
    BY <1>2 DEF ProjectAsk
  <2>2. next \in Ask
    BY <2>1 DEF Ask
  <2>3. request' = [request EXCEPT ![r] = done]
    BY <1>2, <1>9 DEF HeldInv, Held
  <2> HIDE DEF next
  <2>4. Goes(todo) \in {"listed", "done"} /\ (Goes(todo) = "done" => todo = {})
    BY DEF Goes
  <2>5. /\ done \in Held /\ done.ask = next /\ done.stage = Goes(todo)
        /\ done.during = request[r].during
    BY <1>2, <2>2, <2>4 DEF Held, Created
  <2> HIDE DEF done
  <2>6. /\ request' \in [Request -> Held \cup {None}] /\ request'[r] = done
        /\ \A q \in Request \ {r} : request'[q] = request[q]
    BY <2>3, <2>5 DEF HeldInv
  <2>7. /\ project' \in [Slug -> ProjectRow \cup {None}] /\ project'[s] = row
        /\ \A t \in Slug \ {s} : project'[t] = project[t]
    BY <1>2, <1>4, <1>9
  <2>8. EnvironmentsOK(s)' /\ StageOK(r)'
    <3>1. row # None
      BY NoneAssumption
    <3> QED
      BY <1>9, <2>1, <2>4, <2>5, <2>6, <2>7, <3>1 DEF EnvironmentsOK, StageOK
  <2>9. ShownOK(r)'
    BY <2>4, <2>5, <2>6 DEF ShownOK
  <2> QED
    BY <1>1, <1>2, <1>9, <2>1, <2>5, <2>6, <2>7, <2>8, <2>9, CreatesStep
<1>10. CASE ListTemplates(r)
  <2> DEFINE todo == Provisioned(ask)
  <2>1. /\ request' = [request EXCEPT ![r].stage = Goes(todo), ![r].ask.todo = todo]
        /\ request[r].stage = "based" /\ project' = project
    BY <1>10 DEF ListTemplates, At, Unmoved
  <2>2. HasRow(r) /\ project[s] \in ProjectRow /\ project[s].owned
        /\ project[s].environments = {Default}
    BY <1>3, <2>1 DEF StageOK
  <2>3. todo \in SUBSET Template /\ (ask.current => todo = ask.shown)
    BY <1>1, <1>2, <2>1 DEF Provisioned, Checked, Live, ShownOK
  <2>4. project' = [project EXCEPT ![s] = project[s]]
    BY <1>2, <1>4, <2>1
  <2> HIDE DEF todo
  <2> QED
    BY <1>9, <2>1, <2>2, <2>3, <2>4
<1>11. ASSUME NEW k \in Template, AddEnvironment(r, k) PROVE HeldInv' /\ ProjectInv'
  <2> DEFINE todo == ask.todo \ {k}
             row == [project[s] EXCEPT !.environments = @ \cup {k}]
  <2>1. /\ request' = [request EXCEPT ![r].stage = Goes(todo), ![r].ask.todo = todo]
        /\ request[r].stage = "listed" /\ project' = [project EXCEPT ![s] = row] /\ k \in ask.todo
    BY <1>11 DEF AddEnvironment, At, AddsEnvironment, Writes
  <2>2. /\ HasRow(r) /\ project[s] \in ProjectRow /\ project[s].owned
        /\ Default \in project[s].environments
        /\ ask.current => project[s].environments \cup ask.todo = {Default} \cup ask.shown
    BY <1>3, <2>1 DEF StageOK
  <2>3. todo \in SUBSET Template
    BY <1>2 DEF ProjectAsk
  <2>4. row \in ProjectRow /\ row.owned /\ row.environments = project[s].environments \cup {k}
    BY <2>2 DEF ProjectRow
  <2>5. ask.current => row.environments \cup todo = {Default} \cup ask.shown
    BY <2>1, <2>2, <2>4
  <2>6. Default \in row.environments
    BY <2>2, <2>4
  <2> HIDE DEF todo, row
  <2> QED
    BY <1>9, <2>1, <2>2, <2>3, <2>4, <2>5, <2>6
<1> QED
  BY <1>6, <1>7, <1>8, <1>10, <1>11 DEF Creates

-----------------------------------------------------------------------------
(* Every action, by what it touches.                                       *)

\* A request is sent, from the page or from elsewhere.
LEMMA SendingHolds ==
    ASSUME Inv, NEW r \in Request, Starts(r),
           UNCHANGED <<page, notice, polls, text, dialog, list>>
    PROVE  Inv'
<1>1. HeldInv' /\ ProjectInv'
  BY StartsStep DEF Inv
<1>2. tour' = [tour EXCEPT !.writes = @ - 1] /\ tour.writes > 0
  BY DEF Starts, Sends
<1>3. tour' \in Limits
  BY <1>2 DEF Inv, PageInv, Limits
<1>4. PageInv'
  BY <1>3 DEF Inv, PageInv
<1>5. RowsInv'
  BY DEF Inv, RowsInv, Starts
<1> QED
  BY <1>1, <1>4, <1>5 DEF Inv

\* The rows that a page knows.
LEMMA ShownRows ==
    ASSUME RowsInv, NEW k \in Live(list.data)
    PROVE  k \in Template /\ list.data[k].id \in Nat /\ list.data[k].required \in BOOLEAN
<1>1. k \in Template /\ list.data # None
  BY DEF Live
<1>2. list.data[k] \in Row
  BY <1>1 DEF RowsInv, List
<1> QED
  BY <1>1, <1>2 DEF Row

\* The requests that the page of settings and that of projects send.
LEMMA PagesSend ==
    ASSUME Inv, NEW r \in Request,
           \/ UpdateMessage(r) \/ EndMaintenance(r) \/ ConfirmEnable(r)
           \/ \E k \in Template : UpdateTemplate(r, k)
                                  \/ \E required \in BOOLEAN : CreateTemplate(r, k, required)
           \/ ConfirmDelete(r) \/ SubmitProject(r) \/ AskedElsewhere(r),
           UNCHANGED <<templates, rows, list, project>>
    PROVE  Inv'
<1>1. ASSUME NEW ask \in Ask, NEW from \in {"here", "elsewhere"}, Sends(r, from, ask),
             ask.does # "createProject", UNCHANGED <<settings, page, notice, polls, text, dialog>>
      PROVE  Inv'
  BY <1>1, SendingHolds DEF Starts
<1>2. ASSUME NEW on \in BOOLEAN, NEW message \in Message \cup {None}, Maintain(r, on, message)
      PROVE  Inv'
  <2> DEFINE ask == [does |-> "maintain", on |-> on, message |-> message]
  <2>1. ask \in Ask /\ ask.does # "createProject"
    BY DEF Ask, MaintainAsk
  <2>2. Sends(r, "here", ask) /\ UNCHANGED <<settings, page, notice, polls, text, dialog>>
    BY <1>2 DEF Maintain
  <2> HIDE DEF ask
  <2> QED
    BY <1>1, <2>1, <2>2
<1>3. CASE UpdateMessage(r) \/ EndMaintenance(r) \/ ConfirmEnable(r)
  <2>1. text \in Message \cup {None}
    BY DEF Inv, PageInv
  <2> QED
    BY <1>2, <1>3, <2>1 DEF UpdateMessage, EndMaintenance, ConfirmEnable
<1>4. ASSUME NEW k \in Template, UpdateTemplate(r, k) PROVE Inv'
  <2> DEFINE ask == [does |-> "updateTemplate", key |-> k, id |-> list.data[k].id,
                     required |-> ~ list.data[k].required]
  <2>1. list.data[k].id \in Nat
    BY <1>4, ShownRows DEF UpdateTemplate, Inv
  <2>2. ask \in Ask /\ ask.does # "createProject"
    BY <2>1 DEF Ask, UpdateAsk
  <2>3. Sends(r, "here", ask) /\ UNCHANGED <<settings, page, notice, polls, text, dialog>>
    BY <1>4 DEF UpdateTemplate, Elsewhere
  <2> HIDE DEF ask
  <2> QED
    BY <1>1, <2>2, <2>3
<1>5. ASSUME NEW k \in Template, NEW required \in BOOLEAN, CreateTemplate(r, k, required)
      PROVE  Inv'
  <2> DEFINE ask == [does |-> "createTemplate", key |-> k, required |-> required]
  <2>1. ask \in Ask /\ ask.does # "createProject"
    BY DEF Ask, CreateAsk
  <2>2. Sends(r, "here", ask) /\ UNCHANGED <<settings, page, notice, polls, text, dialog>>
    BY <1>5 DEF CreateTemplate, Elsewhere
  <2> HIDE DEF ask
  <2> QED
    BY <1>1, <2>1, <2>2
<1>6. CASE ConfirmDelete(r)
  <2>1. dialog \in Form /\ dialog.does = "deleteTemplate"
    BY <1>6 DEF ConfirmDelete, Inv, PageInv
  <2>2. dialog \in DeleteAsk
    BY <2>1 DEF Form
  <2>3. dialog \in Ask
    BY <2>2 DEF Ask
  <2> QED
    BY <1>1, <1>6, <2>1, <2>3 DEF ConfirmDelete, Elsewhere
<1>7. CASE SubmitProject(r)
  <2> DEFINE ask == [does |-> "createProject", slug |-> dialog.slug,
                     selected |-> dialog.selected, todo |-> {},
                     shown |-> Checked(list.data, dialog.selected),
                     current |-> list.data = templates]
  <2>1. /\ dialog \in Form /\ dialog.does = "createProject" /\ dialog.slug # None
        /\ Sends(r, "here", ask) /\ UNCHANGED <<settings, page, notice, polls, text, dialog>>
    BY <1>7 DEF SubmitProject, Inv, PageInv, Elsewhere
  <2>2. dialog.slug \in Slug /\ dialog.selected \in SUBSET Template
    BY <2>1 DEF Form, DeleteAsk
  <2>3. Checked(list.data, dialog.selected) \in SUBSET Template
    BY DEF Checked, Live
  <2>4. ask \in ProjectAsk /\ (ask.current => ask.shown = Checked(templates, ask.selected))
    BY <2>2, <2>3 DEF ProjectAsk
  <2> HIDE DEF ask
  <2>5. ask \in Ask
    BY <2>4 DEF Ask
  <2> QED
    BY <2>1, <2>4, <2>5, SendingHolds DEF Starts
<1>8. CASE AskedElsewhere(r)
  <2>1. PICK ask \in Asks : Sends(r, "elsewhere", ask) /\ Elsewhere
    BY <1>8 DEF AskedElsewhere
  <2>2. tour.messages \subseteq Message
    BY DEF Inv, PageInv, Limits
  <2>3. \A k \in Live(templates) : k \in Template /\ templates[k].id \in Nat
    BY DEF Inv, RowsInv, Live, Row
  <2>4. ask \in Ask /\ ask.does # "createProject"
    <3>1. CASE ask \in [does : {"maintain"}, on : {TRUE}, message : tour.messages]
      <4>1. PICK m \in tour.messages : ask = [does |-> "maintain", on |-> TRUE, message |-> m]
        BY <3>1
      <4>2. [does |-> "maintain", on |-> TRUE, message |-> m] \in MaintainAsk
        BY <2>2 DEF MaintainAsk
      <4> QED
        BY <4>1, <4>2 DEF Ask, MaintainAsk
    <3>5. CASE ask = [does |-> "maintain", on |-> FALSE, message |-> None]
      <4>1. [does |-> "maintain", on |-> FALSE, message |-> None] \in MaintainAsk
        BY DEF MaintainAsk
      <4> QED
        BY <3>5, <4>1 DEF Ask, MaintainAsk
    <3>2. CASE ask \in [does : {"configure"}, on : BOOLEAN]
      BY <3>2 DEF Ask, ConfigureAsk
    <3>3. CASE ask \in [does : {"createTemplate"}, key : Template, required : BOOLEAN]
      BY <3>3 DEF Ask, CreateAsk
    <3>4. ASSUME NEW k \in Live(templates),
                 ask \in [does : {"updateTemplate"}, key : {k}, id : {templates[k].id},
                          required : BOOLEAN]
                         \cup {[does |-> "deleteTemplate", key |-> k, id |-> templates[k].id]}
          PROVE  ask \in Ask /\ ask.does # "createProject"
      <4>1. ask \in UpdateAsk \/ ask \in DeleteAsk
        BY <2>3, <3>4 DEF UpdateAsk, DeleteAsk
      <4> QED
        BY <4>1 DEF Ask, UpdateAsk, DeleteAsk
    <3> QED
      BY <2>1, <3>1, <3>2, <3>3, <3>4, <3>5 DEF Asks
  <2> QED
    BY <1>1, <2>1, <2>4 DEF Elsewhere
<1> QED
  BY <1>3, <1>4, <1>5, <1>6, <1>7, <1>8

\* The list is asked for again.
LEMMA ListHolds ==
    ASSUME RowsInv, UNCHANGED <<settings, templates, rows>>,
           list' \in {list, Fetched(list), Invalidated}
    PROVE  RowsInv'
<1>1. list \in List /\ (list.answer # None <=> list.fetch = "answered")
  BY DEF RowsInv
<1>2. list' \in List /\ (list'.answer # None <=> list'.fetch = "answered")
  <2>1. CASE list' = list
    BY <1>1, <2>1
  <2>2. CASE list' = Fetched(list)
    BY <1>1, <2>2 DEF Fetched, List
  <2>3. CASE list' = Invalidated
    BY <1>1, <2>3 DEF Invalidated, List
  <2> QED
    BY <2>1, <2>2, <2>3
<1> QED
  BY <1>2 DEF RowsInv

\* What comes of an answer, or of none.
LEMMA AnswersHold ==
    ASSUME Inv, NEW r \in Request,
           ((Maintained(r) \/ Unheard(r) \/ Fails(r)) /\ Unmoved) \/ Answered(r)
    PROVE  Inv'
<1>1. Ends(r) /\ request[r] # None
  BY DEF Maintained, Unheard, Fails, Answered, Unmoved, At, Ends
<1>2. HeldInv' /\ ProjectInv'
  BY <1>1, EndsStep DEF Inv
<1>3. PageInv /\ RowsInv /\ request[r] \in Held /\ HeldOK(r)
  BY <1>1 DEF Inv, HeldInv
<1>4. CASE (Unheard(r) \/ Fails(r)) /\ Unmoved
  BY <1>2, <1>3, <1>4 DEF Unheard, Fails, Unmoved, Inv, PageInv, RowsInv
<1>5. CASE Maintained(r) /\ Unmoved
  <2>1. request[r].found \in SettingsRow
    BY <1>3, <1>5 DEF Maintained, At, HeldOK, Halves
  <2>2. Status(request[r].found) \in StatusRow /\ request[r].found.message \in Message \cup {None}
    BY <2>1 DEF SettingsRow, Status, StatusRow, Statuses
  <2>3. notice' \in StatusRow /\ text' \in Message \cup {None} /\ dialog' \in {None, dialog}
    BY <1>3, <1>5, <2>2 DEF Maintained, PageInv
  <2>4. PageInv'
    BY <1>3, <1>5, <2>3 DEF Maintained, PageInv
  <2> QED
    BY <1>2, <1>3, <1>5, <2>4 DEF Maintained, Unmoved, Inv, RowsInv
<1>6. CASE Answered(r)
  <2>1. /\ dialog' \in {None, dialog} /\ list' \in {list, Invalidated}
        /\ UNCHANGED <<settings, page, notice, polls, text, tour, templates, rows>>
    BY <1>6 DEF Answered
  <2>2. PageInv' /\ RowsInv'
    BY <1>3, <2>1, ListHolds DEF PageInv
  <2> QED
    BY <1>2, <2>2 DEF Inv
<1> QED
  BY <1>4, <1>5, <1>6

\* The handlers of settings and of projects.
LEMMA HandlersHold ==
    ASSUME Inv, NEW r \in Request,
           \/ (Admit(r) \/ ReadSettings(r) \/ SaveSettings(r)) /\ Unmoved
           \/ FindTemplate(r) \/ DropNothing(r) \/ Creates(r)
    PROVE  Inv'
<1>1. /\ UNCHANGED <<page, notice, polls, text, dialog, tour, templates, rows, list>>
      /\ settings' = settings \/ SaveSettings(r)
  BY DEF Admit, ReadSettings, SaveSettings, FindTemplate, DropNothing, Creates,
         InsertProject, AddOwner, AddDefault, ListTemplates, AddEnvironment, Writes,
         AddsEnvironment, Unmoved
<1>2. HeldInv' /\ ProjectInv' /\ settings' \in SettingsRow
  <2>1. CASE ((Admit(r) \/ ReadSettings(r)) /\ Unmoved) \/ FindTemplate(r) \/ DropNothing(r)
    BY <2>1, ProceedsStep
       DEF Proceeds, Unmoved, FindTemplate, DropNothing, Inv, RowsInv, Admit, ReadSettings
  <2>2. CASE SaveSettings(r) /\ Unmoved
    BY <2>2, SaveSettingsStep DEF Unmoved, Inv
  <2>3. CASE Creates(r)
    <3>1. settings' = settings
      BY <2>3 DEF Creates, InsertProject, AddOwner, AddDefault, ListTemplates,
                  AddEnvironment, Writes, AddsEnvironment
    <3> QED
      BY <2>3, <3>1, CreatesHolds DEF Inv, RowsInv
  <2> QED
    BY <2>1, <2>2, <2>3
<1>3. PageInv' /\ RowsInv'
  BY <1>1, <1>2 DEF Inv, PageInv, RowsInv
<1> QED
  BY <1>2, <1>3 DEF Inv

\* The handlers that write a template.
LEMMA TemplatesHold ==
    ASSUME Inv, NEW r \in Request, InsertTemplate(r) \/ SaveTemplate(r) \/ DropTemplate(r)
    PROVE  Inv'
<1>1. ASSUME NEW k \in Template, NEW row \in Row, WritesTemplate(r, k, row),
             row.id <= rows', rows' \in Nat, rows <= rows',
             request[r] # None, request[r].stage # "sent",
             request[r].ask.does \in {"createTemplate", "updateTemplate", "deleteTemplate"}
      PROVE  Inv'
  <2>1. HeldInv' /\ ProjectInv'
    BY <1>1, WritesTemplateStep DEF Inv
  <2>2. RowsInv'
    <3>1. templates \in [Template -> Row] /\ rows \in Nat /\ \A t \in Template : templates[t].id <= rows
      BY DEF Inv, RowsInv
    <3>2. /\ templates' \in [Template -> Row]
          /\ \A t \in Template : templates'[t] \in {templates[t], row}
      BY <1>1, <3>1 DEF WritesTemplate
    <3>3. \A t \in Template : templates'[t].id <= rows'
      BY <1>1, <3>1, <3>2 DEF Row
    <3> QED
      BY <1>1, <3>2, <3>3 DEF Inv, RowsInv, WritesTemplate
  <2>3. PageInv'
    BY <1>1 DEF Inv, PageInv, WritesTemplate
  <2> QED
    BY <2>1, <2>2, <2>3 DEF Inv
<1>2. rows \in Nat
  BY DEF Inv, RowsInv
<1>3. request[r] # None => request[r] \in Held /\ request[r].ask \in Ask /\ HeldOK(r)
  BY DEF Inv, HeldInv, Held
<1>4. CASE InsertTemplate(r)
  <2>1. /\ request[r] # None /\ request[r].ask.does = "createTemplate"
        /\ request[r].stage = "admitted" /\ rows' = rows + 1
        /\ WritesTemplate(r, request[r].ask.key,
                          [id |-> rows + 1, required |-> request[r].ask.required])
    BY <1>4 DEF InsertTemplate, At
  <2>2. request[r].ask.key \in Template /\ request[r].ask.required \in BOOLEAN
    BY <1>3, <2>1, AskOf DEF CreateAsk
  <2>3. [id |-> rows + 1, required |-> request[r].ask.required] \in Row
    BY <1>2, <2>2 DEF Row
  <2> QED
    BY <1>1, <1>2, <2>1, <2>2, <2>3
<1>5. CASE SaveTemplate(r)
  <2>1. /\ request[r] # None /\ request[r].ask.does = "updateTemplate"
        /\ request[r].stage = "read" /\ rows' = rows
        /\ WritesTemplate(r, request[r].ask.key,
                          [id |-> request[r].ask.id, required |-> request[r].ask.required])
    BY <1>5 DEF SaveTemplate, At
  <2>2. /\ request[r].ask.key \in Template /\ request[r].ask.required \in BOOLEAN
        /\ request[r].ask.id \in Nat /\ request[r].ask.id <= rows
    BY <1>3, <2>1, AskOf DEF UpdateAsk, HeldOK
  <2>3. [id |-> request[r].ask.id, required |-> request[r].ask.required] \in Row
    BY <2>2 DEF Row
  <2> QED
    BY <1>1, <1>2, <2>1, <2>2, <2>3
<1>6. CASE DropTemplate(r)
  <2>1. /\ request[r] # None /\ request[r].ask.does = "deleteTemplate"
        /\ request[r].stage = "read" /\ rows' = rows
        /\ WritesTemplate(r, request[r].ask.key, NoTemplate)
    BY <1>6 DEF DropTemplate, At
  <2>2. request[r].ask.key \in Template
    BY <1>3, <2>1, AskOf DEF DeleteAsk
  <2>3. NoTemplate \in Row /\ NoTemplate.id = 0
    BY DEF Row, NoTemplate
  <2> QED
    BY <1>1, <1>2, <2>1, <2>2, <2>3
<1> QED
  BY <1>4, <1>5, <1>6

\* What is done with a page, and what it hears of maintenance.
LEMMA PagesHold ==
    ASSUME Inv,
           \/ /\ Unmoved
              /\ \/ \E t \in tour.messages \cup {None} : EditText(t)
                 \/ AskToEnable \/ CloseDialog
                 \/ Poll \/ \E status \in Statuses : Land(status) \/ PollFails(status)
           \/ NewTemplate \/ OpenProjectForm
           \/ \E k \in Template : AskToDelete(k) \/ Tick(k)
           \/ \E s \in Slug : TypeSlug(s)
    PROVE  Inv'
<1>1. PageInv /\ RowsInv
  BY DEF Inv
<1>2. ASSUME PageInv', UNCHANGED <<settings, request, templates, rows, list, project>>
      PROVE  Inv'
  BY <1>2 DEF Inv, RowsInv, HeldInv, HeldOK, ProjectInv, ShownOK, HasRow, StageOK,
              EnvironmentsOK, Checked, Live
<1>3. UNCHANGED <<settings, request, templates, rows, list, project>>
  BY DEF Unmoved, EditText, AskToEnable, CloseDialog, Poll, Land, PollFails, NewTemplate,
         OpenProjectForm, AskToDelete, Tick, TypeSlug, Opens, Fills
<1> SUFFICES PageInv'
  BY <1>2, <1>3
<1>4. ASSUME NEW t \in tour.messages \cup {None}, EditText(t) PROVE PageInv'
  <2>1. t \in Message \cup {None} /\ tour' = [tour EXCEPT !.moves = @ - 1] /\ tour.moves > 0
    BY <1>1, <1>4 DEF EditText, PageInv, Limits
  <2>2. tour' \in Limits
    BY <1>1, <2>1 DEF PageInv, Limits
  <2> QED
    BY <1>1, <1>4, <2>1, <2>2 DEF EditText, PageInv
<1>5. ASSUME NEW d \in Form, Opens(d), page \in {"projects", "settings"} PROVE PageInv'
  BY <1>1, <1>5 DEF Opens, PageInv
<1>6. CASE AskToEnable \/ NewTemplate
  <2>1. PICK does \in {"maintain", "createTemplate"} : Opens([does |-> does]) /\ page = "settings"
    BY <1>6 DEF AskToEnable, NewTemplate
  <2>2. [does |-> does] \in Form
    BY DEF Form
  <2> QED
    BY <1>5, <2>1, <2>2
<1>7. CASE CloseDialog
  BY <1>1, <1>7 DEF CloseDialog, PageInv
<1>8. CASE Poll
  <2>1. Status(settings) \in StatusRow
    BY <1>1 DEF RowsInv, SettingsRow, Status, StatusRow, Statuses
  <2> QED
    BY <1>1, <1>8, <2>1 DEF Poll, PageInv
<1>9. ASSUME NEW status \in Statuses, Land(status) \/ PollFails(status) PROVE PageInv'
  <2>1. status \in StatusRow /\ status.message \in Message \cup {None}
    BY <1>1, <1>9 DEF Land, PollFails, PageInv, Statuses
  <2> QED
    BY <1>1, <1>9, <2>1 DEF Land, PollFails, Notices, PageInv
<1>10. CASE OpenProjectForm
  <2>1. [does |-> "createProject", slug |-> None, selected |-> Required(list.data)] \in Form
    BY DEF Form, Required, Live
  <2> QED
    BY <1>5, <1>10, <2>1 DEF OpenProjectForm
<1>11. ASSUME NEW k \in Template, AskToDelete(k) PROVE PageInv'
  <2>1. list.data[k].id \in Nat
    BY <1>1, <1>11, ShownRows DEF AskToDelete
  <2>2. [does |-> "deleteTemplate", key |-> k, id |-> list.data[k].id] \in Form
    BY <2>1 DEF Form, DeleteAsk
  <2> QED
    BY <1>5, <1>11, <2>2 DEF AskToDelete
<1>12. ASSUME dialog # None, dialog.does = "createProject"
       PROVE  dialog \in [does : {"createProject"}, slug : Slug \cup {None},
                          selected : SUBSET Template]
  BY <1>1, <1>12 DEF PageInv, Form, DeleteAsk
<1>13. ASSUME NEW form \in [does : {"createProject"}, slug : Slug \cup {None},
                            selected : SUBSET Template],
              Fills(form), dialog # None
       PROVE  PageInv'
  <2>1. form \in Form
    BY DEF Form
  <2> QED
    BY <1>1, <1>13, <2>1 DEF Fills, PageInv
<1>14. ASSUME NEW s \in Slug, TypeSlug(s) PROVE PageInv'
  <2>1. [dialog EXCEPT !.slug = s] \in [does : {"createProject"}, slug : Slug \cup {None},
                                        selected : SUBSET Template]
    BY <1>12, <1>14 DEF TypeSlug
  <2> QED
    BY <1>13, <1>14, <2>1 DEF TypeSlug
<1>15. ASSUME NEW k \in Template, Tick(k) PROVE PageInv'
  <2> DEFINE form == [dialog EXCEPT !.selected = IF k \in @ THEN @ \ {k} ELSE @ \cup {k}]
  <2>1. form \in [does : {"createProject"}, slug : Slug \cup {None}, selected : SUBSET Template]
    BY <1>12, <1>15 DEF Tick
  <2>2. Fills(form) /\ dialog # None
    BY <1>15 DEF Tick
  <2> HIDE DEF form
  <2> QED
    BY <1>13, <2>1, <2>2
<1> QED
  BY <1>4, <1>6, <1>7, <1>8, <1>9, <1>10, <1>11, <1>14, <1>15

\* Another page is visited.
LEMMA VisitHolds ==
    ASSUME Inv, NEW p \in Page, Visit(p)
    PROVE  Inv'
<1>1. PageInv /\ RowsInv
  BY DEF Inv
<1>2. HeldInv' /\ ProjectInv'
  BY LeftStep DEF Visit, Inv
<1>3. RowsInv'
  BY <1>1, ListHolds DEF Visit
<1>4. tour' \in Limits
  BY <1>1 DEF Visit, PageInv, Limits
<1>5. notice' \in StatusRow /\ text' \in Message \cup {None}
  BY <1>1, AdministrationAssumption DEF Visit, PageInv, StatusRow, Statuses, Inactive
<1>6. PageInv'
  BY <1>1, <1>4, <1>5 DEF Visit, PageInv
<1> QED
  BY <1>2, <1>3, <1>6 DEF Inv

\* The list of templates is fetched.
LEMMA FetchesHold ==
    ASSUME Inv, Fetches
    PROVE  Inv'
<1>1. PageInv /\ RowsInv
  BY DEF Inv
<1>2. ASSUME PageInv', RowsInv', UNCHANGED <<settings, request, templates, rows, project>>
      PROVE  Inv'
  BY <1>2 DEF Inv, HeldInv, HeldOK, ProjectInv, ShownOK, HasRow, StageOK, EnvironmentsOK,
              Checked, Live
<1>3. CASE FocusTemplates
  <2>1. tour' \in Limits
    BY <1>1, <1>3 DEF FocusTemplates, PageInv, Limits
  <2>2. PageInv' /\ RowsInv'
    BY <1>1, <1>3, <2>1, ListHolds DEF FocusTemplates, PageInv
  <2> QED
    BY <1>2, <1>3, <2>2 DEF FocusTemplates
<1>4. CASE ReadTemplates \/ LandTemplates \/ FetchFails
  <2>1. templates # None
    BY <1>1, NoneAssumption DEF RowsInv
  <2>2. list' \in List /\ (list'.answer # None <=> list'.fetch = "answered")
    <3>1. CASE ReadTemplates
      BY <1>1, <2>1, <3>1 DEF ReadTemplates, RowsInv, List
    <3>2. CASE LandTemplates
      BY <1>1, <3>2 DEF LandTemplates, RowsInv, List
    <3>3. CASE FetchFails
      BY <1>1, <3>3 DEF FetchFails, RowsInv, List
    <3> QED
      BY <1>4, <3>1, <3>2, <3>3
  <2>3. Untouched
    BY <1>4 DEF ReadTemplates, LandTemplates, FetchFails
  <2>4. PageInv' /\ RowsInv'
    BY <1>1, <2>2, <2>3 DEF Untouched, PageInv, RowsInv
  <2> QED
    BY <1>2, <2>3, <2>4 DEF Untouched
<1> QED
  BY <1>3, <1>4 DEF Fetches

-----------------------------------------------------------------------------
(* The specification.                                                      *)

LEMMA InitInv == Init => Inv
<1> SUFFICES ASSUME Init PROVE Inv
  OBVIOUS
<1>1. tour \in Limits /\ page \in Page
  BY AdministrationAssumption DEF Init, Limits, Page
<1>2. /\ text = None /\ dialog = None /\ notice = Inactive /\ polls = {}
      /\ request = [r \in Request |-> None] /\ rows = 1 /\ project = [s \in Slug |-> None]
  BY DEF Init
<1>3. settings \in SettingsRow
  <2>1. PICK on \in BOOLEAN, m \in Message :
             settings = [on |-> on, message |-> IF on THEN m ELSE None,
                         by |-> IF on THEN "elsewhere" ELSE None, oidc |-> FALSE]
    BY <1>1 DEF Init, Limits
  <2> QED
    BY <2>1, AdministrationAssumption DEF SettingsRow
<1>4. templates \in [Template -> Row] /\ \A k \in Template : templates[k].id <= 1
  <2>1. PICK required \in SUBSET tour.templates :
             templates = [t \in Template |->
                IF t \in tour.templates THEN [id |-> 1, required |-> t \in required]
                ELSE NoTemplate]
    BY DEF Init
  <2> QED
    BY <2>1 DEF Row, NoTemplate
<1>5. list \in List /\ (list.answer # None <=> list.fetch = "answered")
  BY <1>4 DEF Init, List
<1>6. PageInv
  BY <1>1, <1>2 DEF PageInv, Inactive, StatusRow, Statuses
<1>7. RowsInv
  BY <1>2, <1>3, <1>4, <1>5 DEF RowsInv
<1>8. HeldInv /\ ProjectInv
  BY <1>2 DEF HeldInv, ProjectInv, EnvironmentsOK, ShownOK, HasRow
<1> QED
  BY <1>6, <1>7, <1>8 DEF Inv

\* Every action of Next keeps the invariant.
LEMMA StepInv == Inv /\ [Next]_vars => Inv'
<1> SUFFICES ASSUME Inv, [Next]_vars PROVE Inv'
  OBVIOUS
<1>1. CASE Maintains /\ Unmoved
  <2>1. ASSUME \/ \E t \in tour.messages \cup {None} : EditText(t)
               \/ AskToEnable \/ CloseDialog
               \/ Poll \/ \E status \in Statuses : Land(status) \/ PollFails(status)
        PROVE  Inv'
    BY <1>1, <2>1, PagesHold
  <2>2. ASSUME NEW r \in Request, UpdateMessage(r) \/ EndMaintenance(r) \/ ConfirmEnable(r)
        PROVE  Inv'
    BY <1>1, <2>2, PagesSend DEF Unmoved
  <2>3. ASSUME NEW r \in Request, Handles(r) \/ Maintained(r) \/ Unheard(r)
        PROVE  Inv'
    BY <1>1, <2>3, HandlersHold, AnswersHold DEF Handles
  <2> QED
    BY <1>1, <2>1, <2>2, <2>3 DEF Maintains
<1>2. CASE \E p \in Page : Visit(p)
  BY <1>2, VisitHolds
<1>3. CASE Fetches
  BY <1>3, FetchesHold
<1>4. CASE UsesSettings
  <2>1. ASSUME NewTemplate \/ \E k \in Template : AskToDelete(k) PROVE Inv'
    BY <2>1, PagesHold
  <2>2. ASSUME NEW r \in Request,
               \/ \E k \in Template : UpdateTemplate(r, k)
                                      \/ \E required \in BOOLEAN : CreateTemplate(r, k, required)
               \/ ConfirmDelete(r)
        PROVE  Inv'
    <3>1. UNCHANGED <<templates, rows, list, project>>
      BY <2>2 DEF UpdateTemplate, CreateTemplate, ConfirmDelete, Elsewhere, Unmoved
    <3> QED
      BY <2>2, <3>1, PagesSend
  <2> QED
    BY <1>4, <2>1, <2>2 DEF UsesSettings
<1>5. CASE UsesProjects
  <2>1. ASSUME NEW r \in Request, SubmitProject(r) PROVE Inv'
    <3>1. UNCHANGED <<templates, rows, list, project>>
      BY <2>1 DEF SubmitProject, Elsewhere, Unmoved
    <3> QED
      BY <2>1, <3>1, PagesSend
  <2> QED
    BY <1>5, <2>1, PagesHold DEF UsesProjects
<1>6. ASSUME NEW r \in Request,
             AskedElsewhere(r) \/ HandlesTemplates(r) \/ Creates(r) \/ Answered(r)
      PROVE  Inv'
  <2>1. ASSUME AskedElsewhere(r) PROVE Inv'
    <3>1. UNCHANGED <<templates, rows, list, project>>
      BY <2>1 DEF AskedElsewhere, Elsewhere, Unmoved
    <3> QED
      BY <2>1, <3>1, PagesSend
  <2> QED
    BY <1>6, <2>1, HandlersHold, TemplatesHold, AnswersHold DEF HandlesTemplates
<1>7. CASE UNCHANGED vars
  BY <1>7 DEF vars, Inv, PageInv, RowsInv, HeldInv, HeldOK, ProjectInv, EnvironmentsOK,
              ShownOK, HasRow, StageOK, Checked, Live
<1> QED
  BY <1>1, <1>2, <1>3, <1>4, <1>5, <1>6, <1>7 DEF Next

THEOREM InvHolds == Spec => []Inv
  BY InitInv, StepInv, PTL DEF Spec

\* Although single sign-on and maintenance each write the whole row of instance_settings
\* as they read it, maintenance has a message and one who began it just as long as it
\* is on, and so has the notice of a tab;
\* no template has an id that no row was given, and no project has an environment
\* before its owner and its default environment.
THEOREM TypeCorrect == Spec => []TypeOK
<1>1. Inv => TypeOK
  <2> SUFFICES ASSUME Inv PROVE TypeOK
    OBVIOUS
  <2>1. PageInv /\ RowsInv /\ ProjectInv
    BY DEF Inv
  <2>2. ASSUME NEW s \in Slug, project[s] # None
        PROVE  /\ project[s].environments \subseteq Template \cup {Default}
               /\ project[s].environments # {} =>
                     project[s].owned /\ Default \in project[s].environments
    <3>1. project[s] \in ProjectRow /\ EnvironmentsOK(s)
      BY <2>1, <2>2 DEF ProjectInv
    <3> QED
      BY <2>2, <3>1 DEF ProjectRow, EnvironmentsOK
  <2>3. settings \in SettingsRow /\ notice \in StatusRow /\ list \in List
    BY <2>1 DEF PageInv, RowsInv
  <2> QED
    BY <2>1, <2>2, <2>3 DEF TypeOK, PageInv, RowsInv, SettingsRow, StatusRow, List
<1> QED
  BY <1>1, InvHolds, PTL

\* RequireControlPlaneWritable keeps every write but that of maintenance itself from
\* the handlers for as long as maintenance is on, whoever sends it, however many
\* requests were let in before, and whatever ends maintenance and begins it again.
THEOREM ReadOnlyHolds == Spec => []ReadOnlyInMaintenance
<1>1. Inv => ReadOnlyInMaintenance
  BY DEF Inv, HeldInv, HeldOK, ReadOnlyInMaintenance
<1> QED
  BY <1>1, InvHolds, PTL

\* project.Service.Create gives a project its owner and the environments that its
\* dialog showed as ticked, by statements outside of a transaction between which
\* other projects are created and templates come and go: only a change of the
\* templates themselves makes a difference, and no two requests share a project.
THEOREM ProjectsHold == Spec => []ProjectsAreAsShown
<1>1. Inv => ProjectsAreAsShown
  BY DEF Inv, ProjectInv, HasRow, StageOK, Created, At, ProjectsAreAsShown
<1> QED
  BY <1>1, InvHolds, PTL
==============================================================================
