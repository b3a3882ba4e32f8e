------------------------------ MODULE Sessions ------------------------------
(***************************************************************************)
(* Who is signed in: the refresh tokens of auth.Service, and a browser     *)
(* with its tabs (lib/api.ts and lib/auth.tsx).  The tabs share one        *)
(* httpOnly cookie; each keeps its access token and its user in memory.    *)
(* Any request may be answered 401, be refreshed by a second request and   *)
(* be sent again, while other requests of the same or another tab do that  *)
(* too; the handler of a refresh finds, revokes and creates a token by     *)
(* three statements, outside of any transaction.                           *)
(*                                                                         *)
(* A JWT that has expired is refused as none is, so it is forgotten here.  *)
(* Tokens live for 30 days, and none expires within a behaviour.           *)
(***************************************************************************)
EXTENDS Naturals, Sequences, FiniteSets

CONSTANTS
    User, Tab,
    Call,       \* slots for calls that a page has in progress
    None,
    MaxTokens,      \* bound: refresh tokens created
    MaxFailures     \* bound: queries that fail and answers that are lost

\* A row is there to begin with.
ASSUME BoundsAssumption == MaxTokens \in Nat \ {0} /\ MaxFailures \in Nat

NoCookie == 0
Keep == MaxTokens + 1   \* an answer that has no Set-Cookie

VARIABLES
    tokens,     \* rows of refresh_tokens, in the order of their creation
    cookie,     \* the number of the token in the browser's cookie
    tab,        \* the state of each page
    call,       \* call[c]: what a page awaits in slot c, None if nothing
    exchange,   \* exchange[c]: the HTTP request that call waits for
    failures,   \* how many there were
    mishaps,    \* history: sessions that lost a token to a failure
    overlaps    \* history: sessions with a token found by two handlers at once

vars == <<tokens, cookie, tab, call, exchange, failures, mishaps, overlaps>>

\* A session is what one login begins: it has the number of its first token.
Token == [user : User, session : 1 .. MaxTokens, active : BOOLEAN]

Page ==
    [open : BOOLEAN, loading : BOOLEAN, user : User \cup {None},
     access : User \cup {None},     \* whose access token it sends
     current : BOOLEAN]             \* history: user is of the present generation

\* authSessionGeneration is only ever compared: a call keeps whether the
\* generation it began in is still the present one.
AwaitedCall ==
    [tab : Tab, current : BOOLEAN,
     path : {"restore", "me", "login", "logout", "preferences"},
     input : User \cup {None},      \* who signs in
     retry : BOOLEAN, refreshing : BOOLEAN]

Exchange ==
    [step : {"arrived", "found", "revoked", "answered"},
     cookie : 0 .. MaxTokens, bearer : User \cup {None},
     status : {"pending", "ok", "unauthorized", "error"},
     setCookie : 0 .. MaxTokens + 1, subject : User \cup {None}]

ASSUME NoneAssumption == None \notin User \cup AwaitedCall \cup Exchange

TypeOK ==
    /\ tokens \in Seq(Token) /\ Len(tokens) <= MaxTokens
    /\ cookie \in 0 .. Len(tokens)
    /\ tab \in [Tab -> Page]
    /\ call \in [Call -> AwaitedCall \cup {None}]
    /\ exchange \in [Call -> Exchange \cup {None}]
    /\ \A c \in Call : call[c] = None <=> exchange[c] = None
    /\ mishaps \cup overlaps \subseteq 1 .. Len(tokens)

\* No page is open yet; an earlier visit began a session, and may have ended it.
Init ==
    /\ \E u \in User, kept \in BOOLEAN :
          /\ tokens = <<[user |-> u, session |-> 1, active |-> kept]>>
          /\ cookie = IF kept THEN 1 ELSE NoCookie
    /\ tab = [t \in Tab |->
                 [open |-> FALSE, loading |-> TRUE, user |-> None,
                  access |-> None, current |-> FALSE]]
    /\ call = [c \in Call |-> None] /\ exchange = [c \in Call |-> None]
    /\ failures = 0 /\ mishaps = {} /\ overlaps = {}

-----------------------------------------------------------------------------
(* The page sends.                                                         *)

\* fetch with credentials: what the request carries is settled here, and of it
\* what its handler will read is kept.
ReadsCookie(k) == k.refreshing \/ k.path \in {"restore", "logout"}
ReadsBearer(k) == ~ k.refreshing /\ k.path \in {"me", "preferences"}

Request(k, heldCookie, heldAccess) ==
    [step |-> "arrived",
     cookie |-> IF ReadsCookie(k) THEN heldCookie ELSE NoCookie,
     bearer |-> IF ReadsBearer(k) THEN heldAccess ELSE None,
     status |-> "pending", setCookie |-> Keep, subject |-> None]

Start(c, t, path, input) ==
    /\ call[c] = None
    /\ call' = [call EXCEPT ![c] =
                   [tab |-> t, current |-> TRUE, path |-> path,
                    input |-> input, retry |-> TRUE, refreshing |-> FALSE]]
    /\ exchange' = [exchange EXCEPT ![c] = Request(call'[c], cookie, tab[t].access)]
    /\ UNCHANGED <<tokens, cookie, failures, mishaps, overlaps>>

\* AuthProvider mounts, and tries to restore the session from the cookie.
Open(c, t) ==
    /\ ~ tab[t].open
    /\ Start(c, t, "restore", None)
    /\ tab' = [tab EXCEPT ![t].open = TRUE]

\* The form of the login page, or that of the registration page, between which
\* the user can move: neither asks for no session to be present, for the end of
\* the restoration, or for that of a login begun on the other.
SubmitLogin(c, t, input) ==
    /\ tab[t].open
    /\ Start(c, t, "login", input) /\ UNCHANGED tab

\* ProtectedRoute: the tabs that show pages, and with them NavUser.
ShowsPages(t) == tab[t].open /\ ~ tab[t].loading /\ tab[t].user # None

\* logout, and what sends a request that takes an access token.  setLocale stands
\* for all of those: it is sent as they are, and its answer does more than theirs.
Act(c, t, path) == Start(c, t, path, None) /\ UNCHANGED tab

\* The menu of the user: its languages and its last item.
NavUser(c, t) ==
    ShowsPages(t) /\ \E path \in {"logout", "preferences"} : Act(c, t, path)

AccessExpires(t) ==
    /\ tab[t].access # None
    /\ tab' = [tab EXCEPT ![t].access = None]
    /\ UNCHANGED <<tokens, cookie, call, exchange, failures, mishaps, overlaps>>

-----------------------------------------------------------------------------
(* The server handles.                                                     *)

IsRefresh(c) == call[c].refreshing \/ call[c].path = "restore"
IsLogout(c) == call[c].path = "logout" /\ ~ call[c].refreshing
IsLogin(c) == call[c].path = "login" /\ ~ call[c].refreshing
TakesToken(c) == ReadsCookie(call[c])

At(c, step) == call[c] # None /\ exchange[c].step = step
Sent(c) == exchange[c].cookie
SessionOf(c) == tokens[Sent(c)].session

Answer(c, status, setCookie, subject) ==
    exchange' = [exchange EXCEPT ![c] =
                    [step |-> "answered",
                     cookie |-> IF setCookie = Keep THEN NoCookie ELSE Sent(c),
                     bearer |-> None, status |-> status,
                     setCookie |-> setCookie, subject |-> subject]]

\* FindRefreshToken: no row that is not revoked is found by the cookie's hash.
IsActive(i) == i # NoCookie /\ tokens[i].active

Find(c) ==
    /\ At(c, "arrived") /\ TakesToken(c) /\ IsActive(Sent(c))
    /\ exchange' = [exchange EXCEPT ![c].step = "found"]
    /\ overlaps' = IF \E d \in Call \ {c} : At(d, "found") /\ Sent(d) = Sent(c)
                   THEN overlaps \cup {SessionOf(c)} ELSE overlaps
    /\ UNCHANGED <<tokens, cookie, tab, call, failures, mishaps>>

NotFound(c) ==
    /\ At(c, "arrived") /\ TakesToken(c) /\ ~ IsActive(Sent(c))
    /\ IF IsLogout(c) THEN Answer(c, "ok", NoCookie, None)
                      ELSE Answer(c, "unauthorized", Keep, None)
    /\ UNCHANGED <<tokens, cookie, tab, call, failures, mishaps, overlaps>>

\* Mutants of Revoked: the whole session is revoked, or no row is.
RevokedSession(i) == {j \in DOMAIN tokens : tokens[j].session = tokens[i].session}
RevokedNone(i) == {}

\* RevokeRefreshToken: the rows whose revoked_at it sets.
Revoked(i) == {i}

Revoke(c) ==
    /\ At(c, "found")
    /\ tokens' = [i \in DOMAIN tokens |->
                     IF i \in Revoked(Sent(c)) THEN [tokens[i] EXCEPT !.active = FALSE]
                     ELSE tokens[i]]
    /\ IF IsLogout(c) THEN Answer(c, "ok", NoCookie, None)
       ELSE exchange' = [exchange EXCEPT ![c].step = "revoked"]
    /\ UNCHANGED <<cookie, tab, call, failures, mishaps, overlaps>>

CreateToken(c, user, session) ==
    /\ Len(tokens) < MaxTokens
    /\ tokens' = Append(tokens, [user |-> user, session |-> session, active |-> TRUE])
    /\ Answer(c, "ok", Len(tokens) + 1, user)
    /\ UNCHANGED <<cookie, tab, call, failures, mishaps, overlaps>>

Rotate(c) ==
    /\ At(c, "revoked")
    /\ CreateToken(c, tokens[Sent(c)].user, SessionOf(c))

\* Login, and Register with the Login that its handler makes.
Login(c) ==
    /\ At(c, "arrived") /\ IsLogin(c)
    /\ CreateToken(c, call[c].input, Len(tokens) + 1)

\* The credentials are wrong.
LoginRefused(c) ==
    /\ At(c, "arrived") /\ IsLogin(c)
    /\ Answer(c, "unauthorized", Keep, None)
    /\ UNCHANGED <<tokens, cookie, tab, call, failures, mishaps, overlaps>>

\* RequireAuth and any handler behind it; /me answers with the token's subject.
Authorize(c) ==
    /\ At(c, "arrived") /\ ReadsBearer(call[c])
    /\ IF exchange[c].bearer = None THEN Answer(c, "unauthorized", Keep, None)
                                    ELSE Answer(c, "ok", Keep, exchange[c].bearer)
    /\ UNCHANGED <<tokens, cookie, tab, call, failures, mishaps, overlaps>>

Fails == failures < MaxFailures /\ failures' = failures + 1

\* At the bound an insert fails too (a login's is answered as LoginRefused).
NoRoom(c) == At(c, "revoked") /\ Len(tokens) = MaxTokens

\* A query fails.  Login and Refresh answer every error with 401, Register none
\* so, and Logout none at all.
HandlerFails(c) ==
    /\ call[c] # None /\ exchange[c].step # "answered"
    /\ Fails \/ (NoRoom(c) /\ UNCHANGED failures)
    /\ \/ IsLogout(c) /\ Answer(c, "ok", NoCookie, None)
       \/ (IsRefresh(c) \/ IsLogin(c)) /\ Answer(c, "unauthorized", Keep, None)
       \/ (ReadsBearer(call[c]) \/ IsLogin(c)) /\ Answer(c, "error", Keep, None)
    /\ mishaps' = IF exchange[c].step = "revoked"
                  THEN mishaps \cup {SessionOf(c)} ELSE mishaps
    /\ UNCHANGED <<tokens, cookie, tab, call, overlaps>>

\* The connection breaks: fetch rejects, and what the answer set is not set.
AnswerIsLost(c) ==
    /\ At(c, "answered") /\ exchange[c].status # "error" /\ Fails
    /\ Answer(c, "error", Keep, None)
    /\ mishaps' = IF TakesToken(c) /\ Sent(c) # NoCookie /\ exchange[c].setCookie # Keep
                  THEN mishaps \cup {SessionOf(c)} ELSE mishaps
    /\ UNCHANGED <<tokens, cookie, tab, call, overlaps>>

Serve(c) ==
    Find(c) \/ NotFound(c) \/ Revoke(c) \/ Rotate(c) \/ Login(c)
    \/ LoginRefused(c) \/ Authorize(c)

-----------------------------------------------------------------------------
(* The page goes on.  Each of these is the arrival of an answer: first its *)
(* Set-Cookie, then the code behind the await.                             *)

\* Mutant of HeldAfter: an answer without Set-Cookie is taken to set one.
HeldAsSet(c) == exchange[c].setCookie

HeldAfter(c) == IF exchange[c].setCookie = Keep THEN cookie ELSE exchange[c].setCookie

Arrives(c, status, refreshing) ==
    /\ At(c, "answered") /\ exchange[c].status = status
    /\ call[c].refreshing = refreshing
    /\ cookie' = HeldAfter(c)
    /\ UNCHANGED <<tokens, failures, mishaps, overlaps>>

Sends(c, access, next) ==
    /\ call' = [call EXCEPT ![c] = next]
    /\ exchange' = [exchange EXCEPT ![c] = Request(next, HeldAfter(c), access)]

Returns(c) ==
    /\ call' = [call EXCEPT ![c] = None]
    /\ exchange' = [exchange EXCEPT ![c] = None]

\* request: a first 401 calls tryRefresh.
TryRefresh(c) ==
    /\ Arrives(c, "unauthorized", FALSE) /\ call[c].retry
    /\ Sends(c, tab[call[c].tab].access, [call[c] EXCEPT !.refreshing = TRUE])
    /\ UNCHANGED tab

\* tryRefresh came back with a token, and request sends the same once more.
SendAgain(c) ==
    LET t == call[c].tab IN
    /\ Arrives(c, "ok", TRUE)
    /\ tab' = [tab EXCEPT ![t].access = exchange[c].subject]
    /\ Sends(c, exchange[c].subject,
             [call[c] EXCEPT !.refreshing = FALSE, !.retry = FALSE])

\* request throws; of its callers only the restoration does something then.
Throws(c) ==
    LET t == call[c].tab IN
    /\ \/ Arrives(c, "error", FALSE)
       \/ Arrives(c, "unauthorized", FALSE) /\ ~ call[c].retry
       \/ \E status \in {"error", "unauthorized"} : Arrives(c, status, TRUE)
    /\ Returns(c)
    /\ tab' = IF call[c].path \in {"restore", "me"}
              THEN [tab EXCEPT ![t].user = None, ![t].loading = FALSE] ELSE tab

\* Mutant of IsCurrent: no generation is compared.
IsAlwaysCurrent(c) == call[c] # None

\* The answers that applyUserForSession and its callers still take.
IsCurrent(c) == call[c].current

WithUser(page, user, current) ==
    [page EXCEPT !.user = user, !.current = current]

\* The session is restored as far as its token; its user is asked for next.
Restored(c) ==
    LET t == call[c].tab IN
    /\ call[c] # None /\ call[c].path = "restore" /\ IsCurrent(c)
    /\ Arrives(c, "ok", FALSE)
    /\ tab' = [tab EXCEPT ![t].access = exchange[c].subject]
    /\ Sends(c, exchange[c].subject, [call[c] EXCEPT !.path = "me", !.retry = TRUE])

\* Mutant of RestoredTooLate: the early return passes the finally block by.
RestoredTooLateReturns(c) ==
    /\ call[c] # None /\ call[c].path = "restore" /\ ~ IsCurrent(c)
    /\ Arrives(c, "ok", FALSE) /\ Returns(c)
    /\ UNCHANGED tab

RestoredTooLate(c) ==
    /\ call[c] # None /\ call[c].path = "restore" /\ ~ IsCurrent(c)
    /\ Arrives(c, "ok", FALSE) /\ Returns(c)
    /\ tab' = [tab EXCEPT ![call[c].tab].loading = FALSE]

ReceivesUser(c) ==
    LET t == call[c].tab IN
    /\ call[c] # None /\ call[c].path \in {"me", "preferences"}
    /\ Arrives(c, "ok", FALSE) /\ Returns(c)
    /\ tab' = [tab EXCEPT ![t] =
                  [(IF IsCurrent(c)
                    THEN WithUser(@, exchange[c].subject, call[c].current) ELSE @)
                     EXCEPT !.loading = @ /\ call[c].path # "me"]]

\* A new generation begins.
ReturnsAlone(c) ==
    /\ call' = [d \in Call |->
                  IF d = c \/ call[d] = None THEN None
                  ELSE [call[d] EXCEPT !.current =
                           @ /\ (call[d].tab # call[c].tab
                                   \/ call[d].path \in {"login", "logout"})]]
    /\ exchange' = [exchange EXCEPT ![c] = None]

LoggedIn(c) ==
    LET t == call[c].tab  user == exchange[c].subject IN
    /\ call[c] # None /\ call[c].path = "login"
    /\ Arrives(c, "ok", FALSE) /\ ReturnsAlone(c)
    /\ tab' = [tab EXCEPT ![t] = WithUser([@ EXCEPT !.access = user], user, TRUE)]

LoggedOut(c) ==
    LET t == call[c].tab IN
    /\ call[c] # None /\ call[c].path = "logout"
    /\ Arrives(c, "ok", FALSE) /\ ReturnsAlone(c)
    /\ tab' = [tab EXCEPT ![t] = WithUser([@ EXCEPT !.access = None], None, FALSE)]

Receive(c) ==
    \/ TryRefresh(c) \/ SendAgain(c) \/ Throws(c) \/ Restored(c)
    \/ RestoredTooLate(c) \/ ReceivesUser(c) \/ LoggedIn(c) \/ LoggedOut(c)

Next ==
    \/ \E c \in Call :
          \/ \E t \in Tab :
                \/ Open(c, t)
                \/ \E input \in User : SubmitLogin(c, t, input)
                \/ NavUser(c, t)
          \/ Serve(c) \/ HandlerFails(c) \/ AnswerIsLost(c) \/ Receive(c)
    \/ \E t \in Tab : AccessExpires(t)

\* The server answers or fails, and the answer or the loss of it is noticed.
Fairness ==
    \A c \in Call : WF_vars(Serve(c) \/ HandlerFails(c) \/ Receive(c))

Spec == Init /\ [][Next]_vars /\ Fairness

-----------------------------------------------------------------------------
(* Properties.                                                             *)

\* The browser is not signed out under the user's feet: unless an answer was
\* lost or a query failed, the token in the cookie is one that the server takes,
\* or the answer that replaces or clears it is under way, however many tabs
\* refresh and sign out at once and in whichever order their answers come.
CookieIsUsable ==
    cookie # NoCookie /\ ~ tokens[cookie].active /\ tokens[cookie].session \notin mishaps
        => \E c \in Call :
              /\ call[c] # None /\ TakesToken(c) /\ Sent(c) = cookie
              /\ \/ At(c, "revoked")
                 \/ At(c, "answered") /\ exchange[c].setCookie # Keep

\* The tokens of a session that are taken or about to be created.
Live(s) ==
    Cardinality({i \in DOMAIN tokens : tokens[i].session = s /\ tokens[i].active})
      + Cardinality({c \in Call : At(c, "revoked") /\ SessionOf(c) = s})

\* A session has one token at a time, and once it has none, as after a logout,
\* none of the requests still under way gives it one again; unless two handlers
\* found the same token before either revoked it (Refresh and Logout look up and
\* revoke in two statements).
SessionsDoNotMultiply ==
    [][\A s \in DOMAIN tokens \ overlaps' : Live(s)' <= 1 /\ Live(s)' <= Live(s)]_vars

\* A page never shows a user that it learned of before its last login or logout,
\* however late the answers of /me and /me/preferences come.
ShownUserIsCurrent ==
    \A t \in Tab : tab[t].user # None => tab[t].current

\* A page that opens does not stay on "Loading...", whatever is done in it
\* meanwhile and whichever of its requests fail.
LoadingEnds == \A t \in Tab : tab[t].open ~> ~ tab[t].loading
=============================================================================
