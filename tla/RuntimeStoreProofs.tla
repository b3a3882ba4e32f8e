------------------------- MODULE RuntimeStoreProofs -------------------------
(***************************************************************************)
(* Proofs about RuntimeStore, for any keys, scopes, contents, streams and  *)
(* clients: its type invariant, its three safety invariants, and that the  *)
(* streams implement the safety half of FlagFeed.                          *)
(***************************************************************************)
EXTENDS RuntimeStore, TLAPS

\* While it waits with an outdated event, a stream has a token, or is about to
\* be offered one by a Replace whose two snapshots differ.
WakeupPending(st) ==
    (streamPc[st] \in {"writing", "waiting"} /\ sent[st] # ServedFlags) =>
        \/ signal[st]
        \/ replacing /\ (previous = None \/ previous # current)

\* A stream holds a sent event only while its channel is registered, and a
\* handler past the middleware knows its key.
StreamInv ==
    /\ SubscribersAreLive
    /\ \A st \in Stream :
        /\ WakeupPending(st)
        /\ streamPc[st] # "idle" => streamKey[st] \in Key
        /\ streamPc[st] \in {"writing", "waiting"} => sent[st] # None
        /\ sent[st] # None => streamPc[st] \in {"sending", "writing", "waiting"}

\* The ETag that a poll carries, or that a client keeps, is the current one
\* until a swap.
ClientInv ==
    \A c \in Client :
        /\ clientPc[c] # "idle" => clientKey[c] \in Key
        /\ clientPc[c] = "evaluating" =>
            readEtag[c] \in Snapshot /\ (~superseded[c] => readEtag[c] = current)
        /\ (clientPc[c] # "evaluating" /\ cachedEtag[c] # None
                /\ ~superseded[c]) => cachedBody[c] = ServedFlags

Inv == TypeOK /\ StreamInv /\ ClientInv

\* The initial state satisfies the inductive invariant.
LEMMA InitInv == Init => Inv
BY NoneAssumption
   DEF Init, Inv, TypeOK, StreamInv, ClientInv, SubscribersAreLive,
       WakeupPending, ServedFlags

\* Installing a snapshot keeps the invariant: what it outdates, the pending
\* notification covers, and every client counts as superseded.
LEMMA SwapInv ==
    ASSUME Inv, current' \in Snapshot, Swap(current')
    PROVE  Inv'
<1> USE NoneAssumption DEF Inv, Swap, streamVars
<1>1. TypeOK'
  BY DEF TypeOK
<1>2. StreamInv'
  <2>1. SubscribersAreLive'
    BY DEF StreamInv, SubscribersAreLive
  <2>2. ASSUME NEW st \in Stream
        PROVE  WakeupPending(st)'
    BY <2>2 DEF StreamInv, WakeupPending, ServedFlags, TypeOK, Snapshot
  <2> QED
    BY <2>1, <2>2 DEF StreamInv
<1>3. ClientInv'
  BY DEF ClientInv, TypeOK
<1> QED
  BY <1>1, <1>2, <1>3

\* Notifying the subscribers keeps the invariant.
LEMMA NotifyInv == ASSUME Inv, Notify PROVE Inv'
<1> USE DEF Inv, Notify, clientVars
<1>1. TypeOK'
  BY DEF TypeOK
<1>2. StreamInv'
  <2>1. SubscribersAreLive'
    BY DEF StreamInv, SubscribersAreLive
  <2>2. ASSUME NEW st \in Stream
        PROVE  WakeupPending(st)'
    BY <2>2 DEF StreamInv, SubscribersAreLive, WakeupPending, ServedFlags,
                ProjectChanged, Etag
  <2> QED
    BY <2>1, <2>2 DEF StreamInv
<1>3. ClientInv'
  BY DEF ClientInv, ServedFlags
<1> QED
  BY <1>1, <1>2, <1>3

\* A restart keeps the invariant.
LEMMA RestartInv == ASSUME Inv, Restart PROVE Inv'
BY NoneAssumption
   DEF Inv, Restart, TypeOK, StreamInv, ClientInv, SubscribersAreLive,
       WakeupPending, ServedFlags

\* A step of a stream's handler keeps the invariant.
LEMMA StreamInvStep ==
    ASSUME Inv, NEW st \in Stream,
           \/ \E k \in Key : Connect(st, k)
           \/ StreamStep(st)
           \/ Disconnect(st)
    PROVE  Inv'
<1> USE NoneAssumption DEF Inv, storeVars, clientVars
<1>1. UNCHANGED <<storeVars, clientVars>>
  BY DEF Connect, StreamStep, Subscribe, Send, SendFails, Flush, Wake,
         Disconnect, Leave
<1>2. ClientInv'
  BY <1>1 DEF ClientInv, ServedFlags
<1>3. ASSUME NEW k \in Key, Connect(st, k)
      PROVE  Inv'
  <2>1. TypeOK'
    BY <1>3 DEF Connect, TypeOK
  <2>2. StreamInv'
    BY <1>3 DEF Connect, TypeOK, StreamInv, SubscribersAreLive,
                WakeupPending, ServedFlags
  <2> QED
    BY <1>2, <2>1, <2>2
<1>4. CASE Subscribe(st)
  <2>1. TypeOK'
    BY <1>4 DEF Subscribe, TypeOK
  <2>2. StreamInv'
    BY <1>4 DEF Subscribe, TypeOK, StreamInv, SubscribersAreLive,
                WakeupPending, ServedFlags
  <2> QED
    BY <1>2, <2>1, <2>2
<1>5. CASE Send(st)
  <2>1. current \in Snapshot /\ current.flags \in FlagSet
    BY <1>5 DEF Send, Serves, TypeOK, Snapshot
  <2>2. TypeOK'
    BY <1>5, <2>1 DEF Send, TypeOK
  <2>3. StreamInv'
    BY <1>5, <2>1 DEF Send, TypeOK, StreamInv, SubscribersAreLive,
                      WakeupPending, ServedFlags
  <2> QED
    BY <1>2, <2>2, <2>3
<1>6. CASE Wake(st)
  <2>1. TypeOK'
    BY <1>6 DEF Wake, TypeOK
  <2>2. StreamInv'
    BY <1>6 DEF Wake, TypeOK, StreamInv, SubscribersAreLive,
                WakeupPending, ServedFlags
  <2> QED
    BY <1>2, <2>1, <2>2
<1>7. CASE Leave(st)
  <2>1. TypeOK'
    BY <1>7 DEF Leave, TypeOK
  <2>2. StreamInv'
    BY <1>7 DEF Leave, TypeOK, StreamInv, SubscribersAreLive,
                WakeupPending, ServedFlags
  <2> QED
    BY <1>2, <2>1, <2>2
<1>8. CASE Flush(st)
  <2>1. TypeOK'
    BY <1>8 DEF Flush, TypeOK
  <2>2. StreamInv'
    BY <1>8 DEF Flush, TypeOK, StreamInv, SubscribersAreLive,
                WakeupPending, ServedFlags
  <2> QED
    BY <1>2, <2>1, <2>2
<1> QED
  BY <1>3, <1>4, <1>5, <1>6, <1>7, <1>8
     DEF StreamStep, SendFails, Disconnect

\* A step of a client's POST keeps the invariant.
LEMMA ClientInvStep ==
    ASSUME Inv, NEW c \in Client,
           (\E k \in Key : PollAuth(c, k)) \/ ClientStep(c)
    PROVE  Inv'
<1> USE NoneAssumption DEF Inv, storeVars, streamVars
<1>1. UNCHANGED <<storeVars, streamVars>>
  BY DEF PollAuth, ClientStep, PollNotModified, PollVersion, PollEvaluate,
         PollFails
<1>2. StreamInv'
  BY <1>1 DEF StreamInv, SubscribersAreLive, WakeupPending, ServedFlags
<1>3. ASSUME NEW k \in Key, PollAuth(c, k)
      PROVE  Inv'
  <2>1. TypeOK'
    BY <1>3 DEF PollAuth, TypeOK
  <2>2. ClientInv'
    BY <1>3 DEF PollAuth, TypeOK, ClientInv, ServedFlags
  <2> QED
    BY <1>2, <2>1, <2>2
<1>4. CASE PollNotModified(c)
  <2>1. TypeOK'
    BY <1>4 DEF PollNotModified, Answered, TypeOK
  <2>2. ClientInv'
    BY <1>4 DEF PollNotModified, Answered, TypeOK, ClientInv, ServedFlags
  <2> QED
    BY <1>2, <2>1, <2>2
<1>5. CASE PollVersion(c)
  <2>1. TypeOK'
    BY <1>5 DEF PollVersion, Etag, TypeOK
  <2>2. ClientInv'
    BY <1>5 DEF PollVersion, Etag, TypeOK, ClientInv, ServedFlags
  <2> QED
    BY <1>2, <2>1, <2>2
<1>6. CASE PollEvaluate(c)
  <2>1. current \in Snapshot /\ current.flags \in FlagSet
    BY <1>6 DEF PollEvaluate, Serves, TypeOK, Snapshot
  <2>2. TypeOK'
    BY <1>6, <2>1 DEF PollEvaluate, Answered, TypeOK
  <2>3. ClientInv'
    BY <1>6, <2>1 DEF PollEvaluate, Answered, TypeOK, ClientInv, ServedFlags
  <2> QED
    BY <1>2, <2>2, <2>3
<1>7. CASE PollFails(c)
  <2>1. TypeOK'
    BY <1>7 DEF PollFails, Answered, TypeOK
  <2>2. ClientInv'
    BY <1>7 DEF PollFails, Answered, TypeOK, ClientInv, ServedFlags
  <2> QED
    BY <1>2, <2>1, <2>2
<1> QED
  BY <1>3, <1>4, <1>5, <1>6, <1>7 DEF ClientStep

\* Every step keeps the invariant.
LEMMA NextInv == Inv /\ [Next]_vars => Inv'
<1> SUFFICES ASSUME Inv, [Next]_vars
             PROVE  Inv'
  OBVIOUS
<1>1. CASE UNCHANGED vars
  BY <1>1 DEF vars, storeVars, streamVars, clientVars, Inv, TypeOK, StreamInv,
              ClientInv, SubscribersAreLive, WakeupPending, ServedFlags
<1>2. CASE Next
  BY <1>2, SwapInv, NotifyInv, RestartInv, StreamInvStep, ClientInvStep
     DEF Next, Traffic
<1> QED
  BY <1>1, <1>2

\* The inductive invariant holds in every reachable state.
THEOREM InvHolds == Safety => []Inv
BY InitInv, NextInv, PTL DEF Safety

\* The variables of the store, its streams and its clients keep their types.
THEOREM TypeCorrect == Safety => []TypeOK
<1>1. Inv => TypeOK
  BY DEF Inv
<1> QED
  BY <1>1, InvHolds, PTL

\* No interleaving of Replace, Subscribe and sendFlags loses a wake-up: a
\* stream parked with outdated flags always has a token, or a notification
\* that has still to reach it.
THEOREM WakeupsAreNotLost == Safety => []NoLostWakeup
<1>1. Inv => NoLostWakeup
  BY DEF Inv, StreamInv, SubscribersAreLive, WakeupPending, NoLostWakeup
<1> QED
  BY <1>1, InvHolds, PTL

\* Channels are registered exactly while their handlers need them.
THEOREM SubscribersAreNotLeaked == Safety => []SubscribersAreLive
<1>1. Inv => SubscribersAreLive
  BY DEF Inv, StreamInv
<1> QED
  BY <1>1, InvHolds, PTL

\* Until the next swap, a client's ETag and body belong together.
THEOREM EtagsAreNotNewerThanBodies == Safety => []EtagNotNewerThanBody
<1>1. Inv => EtagNotNewerThanBody
  BY DEF Inv, ClientInv, EtagNotNewerThanBody
<1> QED
  BY <1>1, InvHolds, PTL

-----------------------------------------------------------------------------
(* The streams implement FlagFeed.                                         *)

\* A step of a stream's handler opens, moves or closes its own view, or
\* leaves the feed alone.
LEMMA StreamRefines ==
    ASSUME Inv, NEW st \in Stream,
           \/ \E k \in Key : Connect(st, k)
           \/ StreamStep(st)
           \/ Disconnect(st)
    PROVE  [Feed!FeedNext]_(Feed!feedVars)
<1> USE NoneAssumption DEF Inv, storeVars, clientVars, Feed!feedVars
<1>1. ServedFlags' = ServedFlags
  BY DEF ServedFlags, Connect, StreamStep, Subscribe, Send, SendFails, Flush,
         Wake, Disconnect, Leave
<1>2. CASE UNCHANGED sent
  BY <1>1, <1>2
<1>3. CASE Send(st)
  <2>1. ServedFlags = current.flags /\ ServedFlags # None
    BY <1>3 DEF Send, Serves, ServedFlags, TypeOK, Snapshot
  <2>2. sent' = [sent EXCEPT ![st] = ServedFlags]
    BY <1>3, <2>1 DEF Send
  <2>3. CASE sent[st] = None
    BY <1>1, <2>1, <2>2, <2>3 DEF Feed!FeedNext, Feed!Open
  <2>4. CASE sent[st] \notin {None, ServedFlags}
    BY <1>1, <2>1, <2>2, <2>4 DEF Feed!FeedNext, Feed!CatchUp
  <2>5. CASE sent[st] = ServedFlags
    BY <1>1, <2>2, <2>5 DEF TypeOK
  <2> QED
    BY <2>3, <2>4, <2>5
<1>4. CASE Leave(st)
  <2>1. sent' = [sent EXCEPT ![st] = None]
    BY <1>4 DEF Leave
  <2>2. CASE sent[st] = None
    BY <1>1, <2>1, <2>2 DEF TypeOK
  <2>3. CASE sent[st] # None
    BY <1>1, <2>1, <2>3 DEF Feed!FeedNext, Feed!Close
  <2> QED
    BY <2>2, <2>3
<1> QED
  BY <1>2, <1>3, <1>4
     DEF Connect, StreamStep, Subscribe, SendFails, Flush, Wake, Disconnect

\* Every step of the store is a step of the feed.
LEMMA NextRefines == Inv /\ [Next]_vars => [Feed!FeedNext]_(Feed!feedVars)
<1> SUFFICES ASSUME Inv, [Next]_vars
             PROVE  [Feed!FeedNext]_(Feed!feedVars)
  OBVIOUS
<1>1. CASE current' \in Snapshot /\ Swap(current')
  <2>1. ServedFlags' \in FlagSet
    BY <1>1, NoneAssumption DEF Swap, ServedFlags, Snapshot
  <2> QED
    BY <1>1, <2>1 DEF Swap, streamVars, Feed!FeedNext, Feed!Publish
<1>2. CASE Notify
  BY <1>2 DEF Notify, ServedFlags, Feed!feedVars
<1>3. CASE Restart
  BY <1>3 DEF Restart, ServedFlags, Feed!FeedNext, Feed!Lose
<1>4. ASSUME NEW c \in Client,
             (\E k \in Key : PollAuth(c, k)) \/ ClientStep(c)
      PROVE  UNCHANGED Feed!feedVars
  BY <1>4 DEF PollAuth, ClientStep, PollNotModified, PollVersion, PollEvaluate,
              PollFails, storeVars, streamVars, ServedFlags, Feed!feedVars
<1>5. CASE UNCHANGED vars
  BY <1>5 DEF vars, storeVars, streamVars, ServedFlags, Feed!feedVars
<1> QED
  BY <1>1, <1>2, <1>3, <1>4, <1>5, StreamRefines DEF Next, Traffic

\* The event streams implement the safety half of FlagFeed: an event carries
\* the flags served at that moment, and a view changes in no other way.
THEOREM StreamsImplementFeed == Safety => Feed!FeedSafety
<1>1. Init => Feed!FeedInit
  BY DEF Init, ServedFlags, Feed!FeedInit
<1> QED
  BY <1>1, NextRefines, InvHolds, PTL DEF Safety, Feed!FeedSafety
=============================================================================
