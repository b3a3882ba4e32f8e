------------------------------ MODULE FlagFeed ------------------------------
(***************************************************************************)
(* What a flag event stream promises to the browser or service that holds  *)
(* it open, with none of the machinery that keeps the promise: there is a  *)
(* latest flag set, and every open view follows it.  RuntimeStore is shown *)
(* to implement this module.                                               *)
(***************************************************************************)

CONSTANTS
    Value,      \* what a flag set can be
    Stream,     \* the stream slots clients can hold open
    None        \* no flag set yet, or a stream that is not open

VARIABLES
    latest,     \* the flag set being served, None before the first one
    view        \* view[st]: the flag set last sent on st, None if st is closed

feedVars == <<latest, view>>

FeedInit ==
    /\ latest = None
    /\ view = [st \in Stream |-> None]

Publish ==
    /\ latest' \in Value
    /\ UNCHANGED view

\* A stream opens with a first event that carries the latest flag set.
Open(st) ==
    /\ view[st] = None
    /\ latest # None
    /\ view' = [view EXCEPT ![st] = latest]
    /\ UNCHANGED latest

\* An open stream that lags receives the latest flag set, whichever values it
\* skipped in between.
CatchUp(st) ==
    /\ view[st] \notin {None, latest}
    /\ latest # None
    /\ view' = [view EXCEPT ![st] = latest]
    /\ UNCHANGED latest

\* The client hangs up, or its scope is gone.
Close(st) ==
    /\ view[st] # None
    /\ view' = [view EXCEPT ![st] = None]
    /\ UNCHANGED latest

\* The process that serves the feed is restarted.
Lose ==
    /\ latest' = None
    /\ view' = [st \in Stream |-> None]

FeedNext ==
    \/ Publish
    \/ Lose
    \/ \E st \in Stream : Open(st) \/ CatchUp(st) \/ Close(st)

\* The safety half of the promise, and the promise: a view that lags is never
\* left behind for ever, it catches up or it closes.
FeedSafety == FeedInit /\ [][FeedNext]_feedVars

FeedSpec == FeedSafety /\ \A st \in Stream : WF_feedVars(CatchUp(st))
=============================================================================
