---------------------------- MODULE RuntimeStore ----------------------------
(***************************************************************************)
(* The data plane's in-memory snapshot store (runtimeplane.Store) and the  *)
(* two kinds of OFREP traffic that read it while the synchronizer replaces *)
(* it: the server-sent event stream of flags, and the conditional POST     *)
(* that evaluates every flag.                                              *)
(*                                                                         *)
(* Each method of Store loads `current` on its own, so a handler that      *)
(* calls three of them is three actions here.  Store.Replace is two: the   *)
(* atomic swap, and the section under Store.mu that wakes the subscribers. *)
(* Where the snapshots come from is left open: Swap may install any one.   *)
(* RuntimePlane installs those it loads from the control plane.            *)
(***************************************************************************)

CONSTANTS
    Key,        \* runtime API keys (their sha256 hashes)
    Scope,      \* pairs of a project and an environment
    KeyScope,   \* the scope each key was issued for
    FlagSet,    \* contents the replicated flags can have
    ParamSet,   \* contents the replicated parameters can have
    Stream,     \* slots for open event streams
    Client,     \* polling OFREP clients
    None        \* a nil pointer, or nothing received yet

ASSUME KeyScopeAssumption == KeyScope \in [Key -> Scope]

Snapshot == [keys : SUBSET Key, flags : FlagSet, params : ParamSet]

ASSUME NoneAssumption == None \notin Snapshot /\ None \notin FlagSet

VARIABLES
    current,        \* Store.current, the compiled snapshot being served
    previous,       \* what Replace swapped out, until it has notified
    replacing,      \* Replace is between its swap and its notifications
    subscribers,    \* the channels registered in Store.subscribers
    signal,         \* signal[st]: st's channel of capacity 1 holds a token
    streamPc,       \* where the handler of stream st is
    streamKey,      \* the key stream st was opened with
    sent,           \* the flags of the last event of st, None before it
    clientPc,       \* where the POST of client c is
    clientKey,      \* the key that POST carries
    readEtag,       \* the ETag header that POST has set, until it answers
    cachedEtag,     \* the ETag c will send as If-None-Match
    cachedBody,     \* the flags c evaluates with, received with cachedEtag
    superseded      \* history: a swap followed the read of c's newest ETag

storeVars  == <<current, previous, replacing>>
streamVars == <<subscribers, signal, streamPc, streamKey, sent>>
clientVars ==
    <<clientPc, clientKey, readEtag, cachedEtag, cachedBody, superseded>>
vars == <<storeVars, streamVars, clientVars>>

TypeOK ==
    /\ current \in Snapshot \cup {None}
    /\ previous \in Snapshot \cup {None}
    /\ replacing \in BOOLEAN
    /\ subscribers \in SUBSET Stream
    /\ signal \in [Stream -> BOOLEAN]
    /\ streamPc \in [Stream -> {"idle", "authed", "sending", "writing", "waiting"}]
    /\ streamKey \in [Stream -> Key \cup {None}]
    /\ sent \in [Stream -> FlagSet \cup {None}]
    /\ clientPc \in [Client -> {"idle", "authed", "evaluating"}]
    /\ clientKey \in [Client -> Key \cup {None}]
    /\ readEtag \in [Client -> Snapshot \cup {None}]
    /\ cachedEtag \in [Client -> Snapshot \cup {None}]
    /\ cachedBody \in [Client -> FlagSet \cup {None}]
    /\ superseded \in [Client -> BOOLEAN]

Init ==
    /\ current = None
    /\ previous = None
    /\ replacing = FALSE
    /\ subscribers = {}
    /\ signal = [st \in Stream |-> FALSE]
    /\ streamPc = [st \in Stream |-> "idle"]
    /\ streamKey = [st \in Stream |-> None]
    /\ sent = [st \in Stream |-> None]
    /\ clientPc = [c \in Client |-> "idle"]
    /\ clientKey = [c \in Client |-> None]
    /\ readEtag = [c \in Client |-> None]
    /\ cachedEtag = [c \in Client |-> None]
    /\ cachedBody = [c \in Client |-> None]
    /\ superseded = [c \in Client |-> FALSE]

-----------------------------------------------------------------------------
(* The store.                                                              *)

\* The ETag is a sha256 of the whole content, so it stands for the content.
Etag(snapshot) == snapshot

\* ResolveEnvironment: the key is one of those of the current snapshot.
Resolves(k) == current # None /\ k \in current.keys

\* Only scopes that some key of the snapshot opens are compiled.
HasScope(snapshot, sc) == \E k \in snapshot.keys : KeyScope[k] = sc

\* Store.scope, which Evaluate and EvaluateAll begin with.
Serves(sc) == current # None /\ HasScope(current, sc)

\* Replace, first half: compileSnapshot has succeeded, the pointer is swapped.
\* There is one synchronizer, so Replace never runs twice at a time.
Swap(snapshot) ==
    /\ ~replacing
    /\ current' = snapshot
    /\ previous' = current
    /\ replacing' = TRUE
    /\ superseded' = [c \in Client |-> TRUE]
    /\ UNCHANGED streamVars
    /\ UNCHANGED <<clientPc, clientKey, readEtag, cachedEtag, cachedBody>>

\* projectChanged looks at the two ETags and not at the project.
ProjectChanged(before, after) == Etag(before) # Etag(after)

\* Mutant: the channels have no buffer, and a busy handler takes no token.
NotifyUnbuffered ==
    /\ replacing
    /\ replacing' = FALSE
    /\ previous' = None
    /\ signal' = [st \in Stream |->
                    \/ signal[st]
                    \/ /\ st \in subscribers /\ streamPc[st] = "waiting"
                       /\ previous = None \/ ProjectChanged(previous, current)]
    /\ UNCHANGED <<current, subscribers, streamPc, streamKey, sent>>
    /\ UNCHANGED clientVars

\* Replace, second half: under Store.mu every subscriber is offered a token,
\* which a full channel drops.
Notify ==
    /\ replacing
    /\ replacing' = FALSE
    /\ previous' = None
    /\ signal' = [st \in Stream |->
                    \/ signal[st]
                    \/ /\ st \in subscribers
                       /\ previous = None \/ ProjectChanged(previous, current)]
    /\ UNCHANGED <<current, subscribers, streamPc, streamKey, sent>>
    /\ UNCHANGED clientVars

\* The process restarts: it held everything but the clients' caches.
Restart ==
    /\ current' = None
    /\ previous' = None
    /\ replacing' = FALSE
    /\ subscribers' = {}
    /\ signal' = [st \in Stream |-> FALSE]
    /\ streamPc' = [st \in Stream |-> "idle"]
    /\ streamKey' = [st \in Stream |-> None]
    /\ sent' = [st \in Stream |-> None]
    /\ clientPc' = [c \in Client |-> "idle"]
    /\ clientKey' = [c \in Client |-> None]
    /\ readEtag' = [c \in Client |-> None]
    /\ superseded' = [c \in Client |-> TRUE]
    /\ UNCHANGED <<cachedEtag, cachedBody>>

-----------------------------------------------------------------------------
(* GET /ofrep/v1/evaluate/flags/stream                                     *)

\* RequireProjectAPIKey lets the request through.
Connect(st, k) ==
    /\ streamPc[st] = "idle"
    /\ Resolves(k)
    /\ streamPc' = [streamPc EXCEPT ![st] = "authed"]
    /\ streamKey' = [streamKey EXCEPT ![st] = k]
    /\ UNCHANGED <<subscribers, signal, sent>>
    /\ UNCHANGED <<storeVars, clientVars>>

\* Store.Subscribe registers a new, empty channel.
Subscribe(st) ==
    /\ streamPc[st] = "authed"
    /\ streamPc' = [streamPc EXCEPT ![st] = "sending"]
    /\ subscribers' = subscribers \cup {st}
    /\ signal' = [signal EXCEPT ![st] = FALSE]
    /\ UNCHANGED <<streamKey, sent>>
    /\ UNCHANGED <<storeVars, clientVars>>

\* Mutant: until Replace returns, the snapshot it replaces is evaluated.
SendFromReplaced(st) ==
    /\ streamPc[st] = "sending"
    /\ Serves(KeyScope[streamKey[st]])
    /\ streamPc' = [streamPc EXCEPT ![st] = "writing"]
    /\ sent' = [sent EXCEPT ![st] =
                    IF previous = None THEN current.flags ELSE previous.flags]
    /\ UNCHANGED <<subscribers, signal, streamKey>>
    /\ UNCHANGED <<storeVars, clientVars>>

\* sendFlags: EvaluateAll reads the store; the event is written from then on.
Send(st) ==
    /\ streamPc[st] = "sending"
    /\ Serves(KeyScope[streamKey[st]])
    /\ streamPc' = [streamPc EXCEPT ![st] = "writing"]
    /\ sent' = [sent EXCEPT ![st] = current.flags]
    /\ UNCHANGED <<subscribers, signal, streamKey>>
    /\ UNCHANGED <<storeVars, clientVars>>

\* The event is written and flushed, and the handler enters its select.
Flush(st) ==
    /\ streamPc[st] = "writing"
    /\ streamPc' = [streamPc EXCEPT ![st] = "waiting"]
    /\ UNCHANGED <<subscribers, signal, streamKey, sent>>
    /\ UNCHANGED <<storeVars, clientVars>>

\* The handler returns, and the deferred cancel takes the channel away.
Leave(st) ==
    /\ streamPc' = [streamPc EXCEPT ![st] = "idle"]
    /\ streamKey' = [streamKey EXCEPT ![st] = None]
    /\ sent' = [sent EXCEPT ![st] = None]
    /\ subscribers' = subscribers \ {st}
    /\ signal' = [signal EXCEPT ![st] = FALSE]
    /\ UNCHANGED <<storeVars, clientVars>>

\* Mutant: this way out of the handler does not cancel the subscription.
SendFailsWithoutCancel(st) ==
    /\ streamPc[st] = "sending"
    /\ ~Serves(KeyScope[streamKey[st]])
    /\ streamPc' = [streamPc EXCEPT ![st] = "idle"]
    /\ streamKey' = [streamKey EXCEPT ![st] = None]
    /\ sent' = [sent EXCEPT ![st] = None]
    /\ UNCHANGED <<subscribers, signal>>
    /\ UNCHANGED <<storeVars, clientVars>>

\* sendFlags fails because no key opens the scope any more.
SendFails(st) ==
    /\ streamPc[st] = "sending"
    /\ ~Serves(KeyScope[streamKey[st]])
    /\ Leave(st)

\* The select takes the token from the channel.
Wake(st) ==
    /\ streamPc[st] = "waiting"
    /\ signal[st]
    /\ streamPc' = [streamPc EXCEPT ![st] = "sending"]
    /\ signal' = [signal EXCEPT ![st] = FALSE]
    /\ UNCHANGED <<subscribers, streamKey, sent>>
    /\ UNCHANGED <<storeVars, clientVars>>

\* The select sees the request's context done.
Disconnect(st) ==
    /\ streamPc[st] = "waiting"
    /\ Leave(st)

-----------------------------------------------------------------------------
(* POST /ofrep/v1/evaluate/flags                                           *)

\* RequireProjectAPIKey lets the request through.
PollAuth(c, k) ==
    /\ clientPc[c] = "idle"
    /\ Resolves(k)
    /\ clientPc' = [clientPc EXCEPT ![c] = "authed"]
    /\ clientKey' = [clientKey EXCEPT ![c] = k]
    /\ UNCHANGED <<readEtag, cachedEtag, cachedBody, superseded>>
    /\ UNCHANGED <<storeVars, streamVars>>

\* The answer ends the request, whatever it is.
Answered(c) ==
    /\ clientPc' = [clientPc EXCEPT ![c] = "idle"]
    /\ clientKey' = [clientKey EXCEPT ![c] = None]
    /\ readEtag' = [readEtag EXCEPT ![c] = None]

\* notModified answers 304: the client keeps what it has.
PollNotModified(c) ==
    /\ clientPc[c] = "authed"
    /\ current # None
    /\ cachedEtag[c] = Etag(current)
    /\ Answered(c)
    /\ UNCHANGED <<cachedEtag, cachedBody, superseded>>
    /\ UNCHANGED <<storeVars, streamVars>>

\* notModified sets the ETag header and lets the evaluation go on.
PollVersion(c) ==
    /\ clientPc[c] = "authed"
    /\ current # None
    /\ cachedEtag[c] # Etag(current)
    /\ clientPc' = [clientPc EXCEPT ![c] = "evaluating"]
    /\ readEtag' = [readEtag EXCEPT ![c] = Etag(current)]
    /\ superseded' = [superseded EXCEPT ![c] = FALSE]
    /\ UNCHANGED <<clientKey, cachedEtag, cachedBody>>
    /\ UNCHANGED <<storeVars, streamVars>>

\* Mutant: the flags are evaluated first and the ETag is read after them.
PollTagsLate(c) ==
    /\ clientPc[c] = "evaluating"
    /\ Serves(KeyScope[clientKey[c]])
    /\ cachedEtag' = [cachedEtag EXCEPT ![c] = Etag(current)]
    /\ cachedBody' = [cachedBody EXCEPT ![c] = readEtag[c].flags]
    /\ superseded' = [superseded EXCEPT ![c] = FALSE]
    /\ Answered(c)
    /\ UNCHANGED <<storeVars, streamVars>>

\* EvaluateAll loads the store once more, and the answer pairs what it finds
\* there with the ETag set before.
PollEvaluate(c) ==
    /\ clientPc[c] = "evaluating"
    /\ Serves(KeyScope[clientKey[c]])
    /\ cachedEtag' = [cachedEtag EXCEPT ![c] = readEtag[c]]
    /\ cachedBody' = [cachedBody EXCEPT ![c] = current.flags]
    /\ Answered(c)
    /\ UNCHANGED superseded
    /\ UNCHANGED <<storeVars, streamVars>>

\* EvaluateAll fails, 500: the client keeps what it has, which some swap since
\* it authenticated has superseded.
PollFails(c) ==
    /\ clientPc[c] = "evaluating"
    /\ ~Serves(KeyScope[clientKey[c]])
    /\ Answered(c)
    /\ superseded' = [superseded EXCEPT ![c] = TRUE]
    /\ UNCHANGED <<cachedEtag, cachedBody>>
    /\ UNCHANGED <<storeVars, streamVars>>

-----------------------------------------------------------------------------

StreamStep(st) ==
    Subscribe(st) \/ Send(st) \/ SendFails(st) \/ Flush(st) \/ Wake(st)

ClientStep(c) ==
    PollNotModified(c) \/ PollVersion(c) \/ PollEvaluate(c) \/ PollFails(c)

\* What the readers of the store do.
Traffic ==
    \/ \E st \in Stream :
        \/ \E k \in Key : Connect(st, k)
        \/ StreamStep(st)
        \/ Disconnect(st)
    \/ \E c \in Client :
        \/ \E k \in Key : PollAuth(c, k)
        \/ ClientStep(c)

Next ==
    \/ current' \in Snapshot /\ Swap(current')
    \/ Notify
    \/ Restart
    \/ Traffic

\* Replace runs to its end and a handler that can go on goes on: goroutines
\* are scheduled fairly, nothing is done under Store.mu but the sends that
\* cannot block, and a client that keeps its stream open reads from it.  No
\* client has to connect, poll or hang up, and no snapshot has to arrive.
Fairness ==
    /\ WF_vars(Notify)
    /\ \A st \in Stream : WF_vars(StreamStep(st))
    /\ \A c \in Client : WF_vars(ClientStep(c))

Safety == Init /\ [][Next]_vars
Spec == Safety /\ Fairness

-----------------------------------------------------------------------------
(* Properties.                                                             *)

ServedFlags == IF current = None THEN None ELSE current.flags

\* A stream on its way to its select, or parked there, whose last event is not
\* the flag set being served, has a token waiting, or the Replace that outdated it has still to
\* offer one: the gap between the swap and the notification, and the order of
\* Subscribe and the first sendFlags, lose no wake-up.
NoLostWakeup ==
    \A st \in Stream :
        (streamPc[st] \in {"writing", "waiting"} /\ sent[st] # ServedFlags) =>
            \/ signal[st]
            \/ replacing /\ st \in subscribers

\* A channel is registered exactly while its handler runs past Subscribe, on
\* every way out of it: no subscriber leaks, none is dropped while it waits.
SubscribersAreLive ==
    \A st \in Stream :
        st \in subscribers <=> streamPc[st] \in {"sending", "writing", "waiting"}

\* The ETag of an answer is never newer than its body: while no snapshot has
\* been installed since the ETag was read, the body that came with it is what
\* is being served, so the 304 that follows is right.
EtagNotNewerThanBody ==
    \A c \in Client :
        (clientPc[c] # "evaluating" /\ cachedEtag[c] # None /\ ~superseded[c])
            => cachedBody[c] = ServedFlags

\* Every stream follows the served flags as FlagFeed says it does, closing or
\* catching up with whatever is installed while it is open.
Feed == INSTANCE FlagFeed
    WITH Value <- FlagSet, latest <- ServedFlags, view <- sent
StreamsFollow == Feed!FeedSpec
=============================================================================
