----------------------------- MODULE Maintenance -----------------------------
(***************************************************************************)
(* Maintenance mode: the row of instance_settings that every replica of    *)
(* the control plane shares, the middleware that makes the control plane   *)
(* read-only by it, the notice that a tab of the console keeps by polling  *)
(* (MaintenanceProvider), and the card of the settings page that begins    *)
(* and ends it.  The same row holds the configuration of single sign-on,   *)
(* and whoever writes one half writes the other as it read it.             *)
(*                                                                         *)
(* One tab is modelled, of an administrator; requests of other             *)
(* administrators come from elsewhere, and no one waits for their answers. *)
(***************************************************************************)
EXTENDS Naturals, TLC

CONSTANTS
    Message,
    Template,   \* keys of templates of environments
    Slug,       \* keys of projects
    Default,    \* the key of the environment that each project begins with
    Request,    \* slots for requests that are under way
    None,
    Tours   \* bounds of a behaviour: the pages of its tab, what is asked for, the
            \* messages, the templates at first, whether there is maintenance and polls for it, and how often
            \* there is a click that sends nothing, and a request

Page == {"projects", "settings", "other", "login"}
Does == {"maintain", "configure", "createTemplate", "updateTemplate",
         "deleteTemplate", "createProject"}

ASSUME AdministrationAssumption ==
    /\ None \notin Message \cup Template \cup Slug \cup {"here", "elsewhere"}
    /\ Default \notin Template
    /\ \A t \in Tours :
          t \in [pages : SUBSET Page, does : SUBSET Does, messages : SUBSET Message,
                templates : SUBSET Template, polls : BOOLEAN, moves : Nat, writes : Nat]

VARIABLES
    settings,   \* the row of instance_settings
    request,    \* the mutations under way
    page,       \* the page that the tab shows; "login" is signed out
    notice,     \* the provider's status
    polls,      \* answers on their way to it
    text,       \* the settings page's message
    dialog,     \* the dialog over the page, None if none is open
    tour        \* what is left of the bounds

Inactive == [on |-> FALSE, message |-> None]
Statuses == [on : BOOLEAN, message : Message \cup {None}]
Status(row) == [on |-> row.on, message |-> row.message]

-----------------------------------------------------------------------------
(* Requests.  What a request asks for is in "ask", as its page sent it.     *)

IsPending(does) ==
    \E r \in Request : /\ request[r] # None /\ request[r].from = "here"
                       /\ request[r].attached /\ request[r].ask.does = does

Sends(r, from, ask) ==
    /\ tour.writes > 0 /\ ask.does \in tour.does
    /\ \E free \in Request : request[free] = None
    /\ r = CHOOSE free \in Request : request[free] = None
    /\ tour' = [tour EXCEPT !.writes = @ - 1]
    /\ request' = [request EXCEPT ![r] =
          [ask |-> ask, from |-> from, stage |-> "sent", found |-> None,
           attached |-> from = "here",
           during |-> settings.on]]     \* history: maintenance was on ever since

\* The page is left: an answer finds no form, no dialog and no button of its own.
Left == [r \in Request |->
            IF request[r] = None THEN None ELSE [request[r] EXCEPT !.attached = FALSE]]

At(r, does, stage) ==
    request[r] # None /\ request[r].ask.does = does /\ request[r].stage = stage

Advance(r, stage, found) ==
    request' = [request EXCEPT ![r].stage = stage, ![r].found = found]

\* Mutant of IsExempt: every path of administrators.
IsExemptAdmin(does) == does # "createProject"

\* isMaintenanceExemptPath, but for the paths of a session.
IsExempt(does) == does = "maintain"

\* RequireControlPlaneWritable lets the handler run, or refuses as Fails does.
Admit(r) ==
    /\ request[r] # None /\ request[r].stage = "sent"
    /\ IsExempt(request[r].ask.does) \/ ~ settings.on
    /\ Advance(r, "admitted", None)
    /\ UNCHANGED <<settings, page, notice, polls, text, dialog, tour>>

\* A refusal, an error of a statement, a request or an answer that is lost.  What
\* was written so far is there to stay, and the dialog stays open.
Fails(r) ==
    /\ request[r] # None /\ request' = [request EXCEPT ![r] = None]
    /\ UNCHANGED <<settings, page, notice, polls, text, dialog, tour>>

-----------------------------------------------------------------------------
(* The row, read and then saved whole by two statements.                   *)

Halves == {"maintain", "configure"}

ReadSettings(r) ==
    /\ \E does \in Halves : At(r, does, "admitted")
    /\ request[r].ask.does = "maintain" =>
          (request[r].ask.on => request[r].ask.message # None)
    /\ Advance(r, "read", settings)
    /\ UNCHANGED <<settings, page, notice, polls, text, dialog, tour>>

\* Mutant of SetMaintenance: its end leaves who began it.
SetMaintenanceOnly(row, ask, from) ==
    [row EXCEPT !.on = ask.on, !.message = IF ask.on THEN ask.message ELSE None,
                !.by = IF ask.on /\ row.by = None THEN from ELSE row.by]

\* by stands for started_at as well: both are set by the first to begin.
SetMaintenance(row, ask, from) ==
    [row EXCEPT !.on = ask.on, !.message = IF ask.on THEN ask.message ELSE None,
                !.by = IF ~ ask.on THEN None ELSE IF row.by = None THEN from ELSE row.by]

\* The columns of OIDC, the secret among them, are there or cleared together.
SetOIDC(row, ask) == [row EXCEPT !.oidc = ask.on]

SaveSettings(r) ==
    /\ \E does \in Halves : At(r, does, "read")
    /\ LET w == request[r]
           row == IF w.ask.does = "maintain" THEN SetMaintenance(w.found, w.ask, w.from)
                  ELSE SetOIDC(w.found, w.ask)
       IN  /\ settings' = row
           /\ request' = [s \in Request |->
                 IF request[s] = None THEN None
                 ELSE [request[s] EXCEPT
                          !.stage = IF s = r THEN "done" ELSE @,
                          !.found = IF s = r THEN row ELSE @,
                          !.during = @ /\ row.on]]
    /\ UNCHANGED <<page, notice, polls, text, dialog, tour>>

-----------------------------------------------------------------------------
(* MaintenanceProvider.                                                    *)

\* The settings page takes over a message that is another than before.
Notices(status) ==
    /\ notice' = status
    /\ text' = IF page = "settings" /\ status.message # notice.message
               THEN status.message ELSE text

\* When someone signs in, and every 30 seconds, whether or not the last poll is
\* answered.  The server answers when it is asked; the answer takes its time.
Poll ==
    /\ page # "login" /\ tour.polls
    /\ polls' = polls \cup {Status(settings)}
    /\ UNCHANGED <<settings, request, page, notice, text, dialog, tour>>

\* Mutant of Land: an answer without a change of the switch is not looked at.
LandSwitched(status) ==
    /\ status \in polls /\ polls' = polls \ {status}
    /\ Notices(IF status.on # notice.on THEN status ELSE notice)
    /\ UNCHANGED <<settings, request, page, dialog, tour>>

\* An answer is taken whenever it comes, one that an earlier poll asked for too.
Land(status) ==
    /\ status \in polls /\ polls' = polls \ {status}
    /\ Notices(status)
    /\ UNCHANGED <<settings, request, page, dialog, tour>>

\* The notice stays as it is.
PollFails(status) ==
    /\ status \in polls /\ polls' = polls \ {status}
    /\ UNCHANGED <<settings, request, page, notice, text, dialog, tour>>

-----------------------------------------------------------------------------
(* The card of the settings page.                                          *)

Opens(d) ==
    /\ dialog = None /\ d.does \in tour.does /\ dialog' = d
    /\ UNCHANGED <<settings, request, page, notice, polls, text, tour>>

\* Escape, the overlay and Cancel.
CloseDialog ==
    /\ dialog # None /\ dialog' = None
    /\ UNCHANGED <<settings, request, page, notice, polls, text, tour>>

EditText(t) ==
    /\ page = "settings" /\ dialog = None /\ tour.moves > 0 /\ t # text
    /\ text' = t /\ tour' = [tour EXCEPT !.moves = @ - 1]
    /\ UNCHANGED <<settings, request, page, notice, polls, dialog>>

Maintain(r, on, message) ==
    /\ page = "settings" /\ ~ IsPending("maintain")
    /\ Sends(r, "here", [does |-> "maintain", on |-> on, message |-> message])
    /\ UNCHANGED <<settings, page, notice, polls, text, dialog>>

UpdateMessage(r) == dialog = None /\ notice.on /\ text # None /\ Maintain(r, TRUE, text)
EndMaintenance(r) == dialog = None /\ notice.on /\ Maintain(r, FALSE, None)

AskToEnable ==
    /\ page = "settings" /\ ~ notice.on /\ text # None
    /\ Opens([does |-> "maintain"])

\* What is sent is the message of now, whatever has come since the dialog opened.
ConfirmEnable(r) ==
    dialog = [does |-> "maintain"] /\ Maintain(r, TRUE, text)

Maintained(r) ==
    LET w == request[r]
    IN  /\ At(r, "maintain", "done") /\ w.from = "here"
        /\ notice' = Status(w.found)
        /\ text' = IF w.attached \/ (page = "settings" /\ w.found.message # notice.message)
                   THEN w.found.message ELSE text
        /\ dialog' = IF w.attached /\ dialog = [does |-> "maintain"] THEN None ELSE dialog
        /\ request' = [request EXCEPT ![r] = None]
        /\ UNCHANGED <<settings, page, polls, tour>>

\* Nobody here waits for what others have asked for.
Unheard(r) ==
    /\ request[r] # None /\ request[r].from = "elsewhere" /\ request[r].stage = "done"
    /\ request' = [request EXCEPT ![r] = None]
    /\ UNCHANGED <<settings, page, notice, polls, text, dialog, tour>>

=============================================================================
