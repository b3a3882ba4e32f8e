---------------------------- MODULE SessionsProofs ----------------------------
(***************************************************************************)
(* Proofs about Sessions, for any users, tabs, calls and bounds: its type  *)
(* invariant, that the cookie stays usable, that a session has one token,  *)
(* and that a page shows no user of an earlier generation.                 *)
(***************************************************************************)
EXTENDS Sessions, FiniteSetTheorems, SequenceTheorems, TLAPS

\* What a request carries, and what its answer sets, while its handler goes on.
CarriedOK(c) ==
    LET x == exchange[c] IN
    /\ call[c].path = "login" => call[c].input \in User
    /\ x.cookie \in 0 .. Len(tokens)
    /\ x.setCookie \in 0 .. Len(tokens) \cup {Keep}
    /\ x.step # "answered" => x.setCookie = Keep
    /\ x.step = "answered" /\ x.setCookie = Keep => x.cookie = NoCookie
    /\ x.step \in {"found", "revoked"} => x.cookie # NoCookie
    /\ x.cookie # NoCookie => TakesToken(c)

CarriesInv ==
    /\ \A c \in Call : call[c] # None => CarriedOK(c)
    /\ \A i \in DOMAIN tokens : tokens[i].session <= i

\* The token that an answer is about to bring.
Brings(c, i) == At(c, "answered") /\ exchange[c].setCookie = i

\* It is one that the server takes, and nobody else has it.
FreshInv ==
    \A c \in Call, i \in DOMAIN tokens : Brings(c, i) =>
        /\ tokens[i].active /\ cookie # i
        /\ \A d \in Call : call[d] # None => Sent(d) # i
        /\ \A d \in Call \ {c} : ~Brings(d, i)

CookieInv == CarriesInv /\ FreshInv /\ CookieIsUsable

\* The tokens of a session that are taken, and the calls that are about to create
\* another.
Active(s) == {i \in DOMAIN tokens : tokens[i].session = s /\ tokens[i].active}
Rotating(s) == {c \in Call : At(c, "revoked") /\ SessionOf(c) = s}

\* There is one of the two at most.
IsSingle(s) ==
    /\ \A i, j \in Active(s) : i = j
    /\ \A c, d \in Rotating(s) : c = d
    /\ Active(s) = {} \/ Rotating(s) = {}

\* Unless two found it, a token that was found is still there to be revoked.
FoundInv ==
    \A c \in Call : At(c, "found") /\ SessionOf(c) \notin overlaps =>
        /\ tokens[Sent(c)].active
        /\ \A d \in Call \ {c} : At(d, "found") => Sent(d) # Sent(c)

SingleInv == FoundInv /\ \A s \in Nat \ overlaps : IsSingle(s)

Inv == TypeOK /\ CookieInv /\ SingleInv /\ ShownUserIsCurrent

-----------------------------------------------------------------------------
(* What a page does.                                                       *)

\* Another call, of which no more than its generation may change.
Kept(d) ==
    /\ exchange'[d] = exchange[d]
    /\ call'[d] = None <=> call[d] = None
    /\ call[d] # None => /\ call'[d].path = call[d].path
                         /\ call'[d].refreshing = call[d].refreshing
                         /\ call'[d].input = call[d].input

\* A new request of the call in slot c.
Asks(c) ==
    \E next \in AwaitedCall, access \in User \cup {None} :
        /\ next.path = "login" => next.input \in User
        /\ call'[c] = next /\ exchange'[c] = Request(next, cookie', access)

\* A call begins, or an answer arrives.
Moves(c) ==
    /\ \/ call[c] = None /\ cookie' = cookie
       \/ At(c, "answered") /\ cookie' = HeldAfter(c)
    /\ (call'[c] = None /\ exchange'[c] = None) \/ Asks(c)
    /\ \A d \in Call \ {c} : Kept(d)
    /\ call' \in [Call -> AwaitedCall \cup {None}]
    /\ exchange' = [d \in Call |-> exchange'[d]]
    /\ UNCHANGED <<tokens, mishaps, overlaps>>

Begins(c, t) ==
    Open(c, t) \/ (\E input \in User : SubmitLogin(c, t, input)) \/ NavUser(c, t)

TypeInv == TypeOK /\ CarriesInv

\* Beginning a call.
LEMMA BeginsMoves ==
    ASSUME TypeOK, NEW c \in Call, NEW t \in Tab, Begins(c, t)
    PROVE  Moves(c) /\ tab' \in [Tab -> Page]
<1>1. PICK path \in {"restore", "login", "logout", "preferences"},
           input \in User \cup {None} :
         /\ Start(c, t, path, input) /\ (path = "login" => input \in User)
         /\ tab' = tab \/ tab' = [tab EXCEPT ![t].open = TRUE]
  BY DEF Begins, Open, SubmitLogin, NavUser, Act
<1> DEFINE next == [tab |-> t, current |-> TRUE, path |-> path,
                    input |-> input, retry |-> TRUE, refreshing |-> FALSE]
<1>2. next \in AwaitedCall /\ (next.path = "login" => next.input \in User)
  BY <1>1 DEF AwaitedCall
<1>3. call' = [call EXCEPT ![c] = next] /\ call[c] = None
  BY <1>1 DEF Start
<1>4. call' \in [Call -> AwaitedCall \cup {None}] /\ call'[c] = next
  BY <1>2, <1>3 DEF TypeOK
<1>5. /\ exchange' = [exchange EXCEPT ![c] = Request(next, cookie, tab[t].access)]
      /\ UNCHANGED <<tokens, cookie, mishaps, overlaps>>
  BY <1>1, <1>4 DEF Start
<1>6. tab[t].access \in User \cup {None}
  BY DEF TypeOK, Page
<1>7. exchange'[c] = Request(next, cookie', tab[t].access) /\ exchange' = [d \in Call |-> exchange'[d]]
  BY <1>5 DEF TypeOK
<1>8. Asks(c)
  BY <1>2, <1>4, <1>6, <1>7 DEF Asks
<1>9. \A d \in Call \ {c} : Kept(d)
  BY <1>3, <1>5 DEF Kept, TypeOK
<1>10. tab' \in [Tab -> Page]
  BY <1>1 DEF TypeOK, Page
<1> QED
  BY <1>3, <1>4, <1>5, <1>7, <1>8, <1>9, <1>10 DEF Moves

\* An answer that arrives.
LEMMA ReceiveMoves ==
    ASSUME TypeInv, NEW c \in Call, Receive(c)
    PROVE  Moves(c) /\ tab' \in [Tab -> Page]
<1>1. /\ At(c, "answered") /\ cookie' = HeldAfter(c)
      /\ UNCHANGED <<tokens, mishaps, overlaps>>
  BY DEF Receive, TryRefresh, SendAgain, Throws, Restored, RestoredTooLate,
         ReceivesUser, LoggedIn, LoggedOut, Arrives
<1>2. /\ call[c] \in AwaitedCall /\ exchange[c] \in Exchange
      /\ call[c].path = "login" => call[c].input \in User
  BY <1>1 DEF At, TypeInv, TypeOK, CarriesInv, CarriedOK
<1>3. /\ call[c].tab \in Tab /\ exchange[c].subject \in User \cup {None}
      /\ tab[call[c].tab] \in Page
  BY <1>2 DEF AwaitedCall, Exchange, TypeInv, TypeOK
<1>4. ASSUME NEW access \in User \cup {None}, NEW next \in AwaitedCall,
             next.path = "login" => next.input \in User, Sends(c, access, next)
      PROVE  Moves(c)
  <2>1. call'[c] = next /\ exchange'[c] = Request(next, cookie', access)
    BY <1>1, <1>4 DEF Sends, TypeInv, TypeOK
  <2>2. call' \in [Call -> AwaitedCall \cup {None}] /\ exchange' = [d \in Call |-> exchange'[d]]
    BY <1>4 DEF Sends, TypeInv, TypeOK
  <2>3. \A d \in Call \ {c} : Kept(d)
    BY <1>4 DEF Sends, Kept, TypeInv, TypeOK
  <2>4. Asks(c)
    BY <1>4, <2>1 DEF Asks
  <2> QED
    BY <1>1, <2>2, <2>3, <2>4 DEF Moves
<1>5. ASSUME Returns(c) PROVE Moves(c)
  <2>1. /\ call'[c] = None /\ exchange'[c] = None
        /\ call' \in [Call -> AwaitedCall \cup {None}] /\ exchange' = [d \in Call |-> exchange'[d]]
    BY <1>5 DEF Returns, TypeInv, TypeOK
  <2>2. \A d \in Call \ {c} : Kept(d)
    BY <1>5 DEF Returns, Kept, TypeInv, TypeOK
  <2> QED
    BY <1>1, <2>1, <2>2 DEF Moves
<1>6. ASSUME ReturnsAlone(c) PROVE Moves(c)
  <2>1. /\ call'[c] = None /\ exchange'[c] = None /\ exchange' = [d \in Call |-> exchange'[d]]
    BY <1>6 DEF ReturnsAlone, TypeInv, TypeOK
  <2>2. ASSUME NEW d \in Call \ {c}
        PROVE  Kept(d) /\ call'[d] \in AwaitedCall \cup {None}
    <3>1. CASE call[d] = None
      BY <1>6, <2>2, <3>1 DEF ReturnsAlone, Kept, TypeInv, TypeOK
    <3>2. CASE call[d] # None
      <4>1. call[d] \in AwaitedCall
        BY <2>2, <3>2 DEF TypeInv, TypeOK
      <4>2. PICK now \in BOOLEAN : call'[d] = [call[d] EXCEPT !.current = now]
        BY <1>2, <1>6, <2>2, <3>2, <4>1 DEF ReturnsAlone, AwaitedCall
      <4>3. call'[d] \in AwaitedCall
        BY <4>1, <4>2 DEF AwaitedCall
      <4>4. exchange'[d] = exchange[d]
        BY <1>6, <2>2 DEF ReturnsAlone, TypeInv, TypeOK
      <4> QED
        BY <3>2, <4>1, <4>2, <4>3, <4>4, NoneAssumption DEF Kept, AwaitedCall
    <3> QED
      BY <3>1, <3>2
  <2>3. call' \in [Call -> AwaitedCall \cup {None}]
    BY <1>6, <2>1, <2>2 DEF ReturnsAlone
  <2> QED
    BY <1>1, <2>1, <2>2, <2>3 DEF Moves
<1>7. CASE TryRefresh(c)
  <2>1. [call[c] EXCEPT !.refreshing = TRUE] \in AwaitedCall
    BY <1>2 DEF AwaitedCall
  <2>2. Moves(c)
    BY <1>2, <1>3, <1>4, <1>7, <2>1 DEF TryRefresh, Page, AwaitedCall
  <2> QED
    BY <1>7, <2>2 DEF TryRefresh, TypeInv, TypeOK
<1>8. CASE SendAgain(c)
  <2>1. [call[c] EXCEPT !.refreshing = FALSE, !.retry = FALSE] \in AwaitedCall
    BY <1>2 DEF AwaitedCall
  <2>2. Moves(c)
    BY <1>2, <1>3, <1>4, <1>8, <2>1 DEF SendAgain, AwaitedCall
  <2> QED
    BY <1>3, <1>8, <2>2 DEF SendAgain, TypeInv, TypeOK, Page
<1>9. CASE Throws(c)
  <2>1. tab' \in [Tab -> Page]
    BY <1>3, <1>9 DEF Throws, TypeInv, TypeOK, Page
  <2> QED
    BY <1>5, <1>9, <2>1 DEF Throws
<1>10. CASE Restored(c)
  <2>1. [call[c] EXCEPT !.path = "me", !.retry = TRUE] \in AwaitedCall
    BY <1>2 DEF AwaitedCall
  <2>2. Moves(c)
    BY <1>2, <1>3, <1>4, <1>10, <2>1 DEF Restored, AwaitedCall
  <2> QED
    BY <1>3, <1>10, <2>2 DEF Restored, TypeInv, TypeOK, Page
<1>11. CASE RestoredTooLate(c)
  BY <1>3, <1>5, <1>11 DEF RestoredTooLate, TypeInv, TypeOK, Page
<1>12. CASE ReceivesUser(c)
  <2>1. tab' \in [Tab -> Page]
    BY <1>2, <1>3, <1>12
       DEF ReceivesUser, TypeInv, TypeOK, WithUser, Page, AwaitedCall, IsCurrent
  <2> QED
    BY <1>5, <1>12, <2>1 DEF ReceivesUser
<1>13. CASE LoggedIn(c)
  <2>1. tab' \in [Tab -> Page]
    BY <1>3, <1>13 DEF LoggedIn, TypeInv, TypeOK, WithUser, Page
  <2> QED
    BY <1>6, <1>13, <2>1 DEF LoggedIn
<1>14. CASE LoggedOut(c)
  <2>1. tab' \in [Tab -> Page]
    BY <1>3, <1>14 DEF LoggedOut, TypeInv, TypeOK, WithUser, Page
  <2> QED
    BY <1>6, <1>14, <2>1 DEF LoggedOut
<1> QED
  BY <1>7, <1>8, <1>9, <1>10, <1>11, <1>12, <1>13, <1>14 DEF Receive

-----------------------------------------------------------------------------
(* Types.                                                                  *)

\* A new request carries the cookie that the browser holds.
LEMMA RequestType ==
    ASSUME NEW k \in AwaitedCall, NEW held \in 0 .. MaxTokens,
           NEW access \in User \cup {None}
    PROVE  Request(k, held, access) \in Exchange
BY BoundsAssumption DEF Request, Exchange, NoCookie, Keep

\* What a page does keeps the types.
LEMMA MovesType ==
    ASSUME TypeInv, NEW c \in Call, Moves(c), tab' \in [Tab -> Page]
    PROVE  TypeInv'
<1> USE BoundsAssumption
<1>1. Len(tokens) \in Nat /\ Len(tokens) <= MaxTokens /\ DOMAIN tokens = 1 .. Len(tokens)
  BY DEF TypeInv, TypeOK
<1>2. cookie' \in 0 .. Len(tokens)
  BY <1>1 DEF Moves, HeldAfter, TypeInv, TypeOK, CarriesInv, CarriedOK, At, Keep
<1>3. ASSUME Asks(c)
      PROVE  call'[c] # None /\ exchange'[c] \in Exchange /\ CarriedOK(c)'
  <2>1. PICK next \in AwaitedCall, access \in User \cup {None} :
           /\ next.path = "login" => next.input \in User
           /\ call'[c] = next /\ exchange'[c] = Request(next, cookie', access)
    BY <1>3 DEF Asks
  <2>2. exchange'[c] \in Exchange
    BY <1>1, <1>2, <2>1, RequestType
  <2>3. CarriedOK(c)'
    BY <1>1, <1>2, <2>1
       DEF CarriedOK, Request, TakesToken, ReadsCookie, NoCookie, Keep, Moves
  <2> QED
    BY <2>1, <2>2, <2>3, NoneAssumption
<1>4. ASSUME NEW d \in Call
      PROVE  /\ exchange'[d] \in Exchange \cup {None}
             /\ call'[d] = None <=> exchange'[d] = None
             /\ call'[d] # None => CarriedOK(d)'
  <2>1. CASE d # c
    <3>1. Kept(d)
      BY <2>1 DEF Moves
    <3>2. call[d] # None => CarriedOK(d) /\ Len(tokens') = Len(tokens)
      BY DEF Moves, TypeInv, CarriesInv
    <3>3. call'[d] # None => CarriedOK(d)'
      BY <3>1, <3>2 DEF CarriedOK, Kept, TakesToken, ReadsCookie
    <3> QED
      BY <3>1, <3>3 DEF Kept, TypeInv, TypeOK
  <2>2. CASE d = c
    BY <1>3, <2>2, NoneAssumption DEF Moves
  <2> QED
    BY <2>1, <2>2
<1>5. exchange' \in [Call -> Exchange \cup {None}]
  BY <1>4 DEF Moves
<1> QED
  BY <1>1, <1>2, <1>4, <1>5 DEF TypeInv, TypeOK, CarriesInv, Moves

\* The other calls and the pages see nothing of what a handler does.
Handles(c) ==
    /\ call[c] # None /\ UNCHANGED <<call, tab, cookie>>
    /\ exchange' \in [Call -> Exchange \cup {None}] /\ exchange'[c] # None
    /\ \A d \in Call \ {c} : exchange'[d] = exchange[d]

\* An answer is a step of its handler alone.
LEMMA AnswerHandles ==
    ASSUME TypeOK, NEW c \in Call, call[c] # None, UNCHANGED <<call, tab, cookie>>,
           NEW status \in {"ok", "unauthorized", "error"}, NEW set \in 0 .. MaxTokens + 1,
           NEW subject \in User \cup {None}, Answer(c, status, set, subject)
    PROVE  /\ Handles(c)
           /\ exchange'[c].step = "answered" /\ exchange'[c].setCookie = set
           /\ exchange'[c].cookie = IF set = Keep THEN NoCookie ELSE exchange[c].cookie
<1>1. exchange[c] \in Exchange
  BY DEF TypeOK
<1>2. exchange'[c] = [step |-> "answered",
                       cookie |-> IF set = Keep THEN NoCookie ELSE exchange[c].cookie,
                       bearer |-> None, status |-> status,
                       setCookie |-> set, subject |-> subject]
  BY DEF Answer, TypeOK, Sent
<1>3. exchange'[c] \in Exchange
  BY <1>1, <1>2, BoundsAssumption DEF Exchange, NoCookie
<1>4. /\ exchange' \in [Call -> Exchange \cup {None}]
      /\ \A d \in Call \ {c} : exchange'[d] = exchange[d]
  BY <1>3 DEF Answer, TypeOK
<1>5. /\ exchange'[c].step = "answered" /\ exchange'[c].setCookie = set
      /\ exchange'[c].cookie = IF set = Keep THEN NoCookie ELSE exchange[c].cookie
  BY <1>1, <1>2 DEF Exchange
<1> QED
  BY <1>3, <1>4, <1>5, NoneAssumption DEF Handles

\* And so is a step before it.
LEMMA StepHandles ==
    ASSUME TypeOK, NEW c \in Call, call[c] # None, UNCHANGED <<call, tab, cookie>>,
           NEW step \in {"found", "revoked"},
           exchange' = [exchange EXCEPT ![c].step = step]
    PROVE  /\ Handles(c)
           /\ exchange'[c].step = step /\ exchange'[c].setCookie = exchange[c].setCookie
           /\ exchange'[c].cookie = exchange[c].cookie
<1>1. exchange[c] \in Exchange
  BY DEF TypeOK
<1>2. exchange'[c] = [exchange[c] EXCEPT !.step = step]
  BY DEF TypeOK
<1>3. exchange'[c] \in Exchange
  BY <1>1, <1>2 DEF Exchange
<1>4. /\ exchange' \in [Call -> Exchange \cup {None}]
      /\ \A d \in Call \ {c} : exchange'[d] = exchange[d]
  BY <1>3 DEF TypeOK
<1>5. /\ exchange'[c].step = step /\ exchange'[c].setCookie = exchange[c].setCookie
      /\ exchange'[c].cookie = exchange[c].cookie
  BY <1>1, <1>2 DEF Exchange
<1> QED
  BY <1>3, <1>4, <1>5, NoneAssumption DEF Handles

\* A handler leaves the rows as they are, takes the token away that was sent, or
\* adds one.
Adds(user, session) ==
    tokens' = Append(tokens, [user |-> user, session |-> session, active |-> TRUE])

Takes(i) ==
    tokens' = [j \in DOMAIN tokens |->
                  IF j = i THEN [tokens[j] EXCEPT !.active = FALSE] ELSE tokens[j]]

\* What Append does to the rows.
LEMMA AddsRow ==
    ASSUME TypeInv, NEW user \in User, NEW session \in 1 .. Len(tokens) + 1,
           Len(tokens) < MaxTokens, Adds(user, session)
    PROVE  /\ tokens' \in Seq(Token) /\ Len(tokens') = Len(tokens) + 1
           /\ tokens'[Len(tokens) + 1].session = session
           /\ tokens'[Len(tokens) + 1].active
           /\ \A j \in DOMAIN tokens : tokens'[j] = tokens[j]
<1> DEFINE row == [user |-> user, session |-> session, active |-> TRUE]
<1>1. Len(tokens) \in Nat /\ DOMAIN tokens = 1 .. Len(tokens)
  BY DEF TypeInv, TypeOK
<1>2. row \in Token
  BY <1>1, BoundsAssumption DEF Token
<1>3. tokens \in Seq(Token) /\ tokens' = Append(tokens, row)
  BY DEF Adds, TypeInv, TypeOK
<1>4. row.session = session /\ row.active
  OBVIOUS
<1> HIDE DEF row
<1>5. tokens' \in Seq(Token) /\ Len(tokens') = Len(tokens) + 1
  BY <1>2, <1>3
<1>6. /\ Append(tokens, row)[Len(tokens) + 1] = row
      /\ \A j \in 1 .. Len(tokens) : Append(tokens, row)[j] = tokens[j]
  BY <1>2, <1>3, AppendProperties, SMT
<1> QED
  BY <1>1, <1>3, <1>4, <1>5, <1>6, Zenon

\* A row that a handler touches stays a row, and keeps its session.
LEMMA RowsType ==
    ASSUME TypeInv,
           \/ UNCHANGED tokens
           \/ \E i \in DOMAIN tokens : Takes(i)
           \/ \E user \in User, session \in 1 .. Len(tokens) + 1 :
                 Len(tokens) < MaxTokens /\ Adds(user, session)
    PROVE  /\ tokens' \in Seq(Token) /\ Len(tokens') <= MaxTokens
           /\ Len(tokens) <= Len(tokens')
           /\ \A i \in DOMAIN tokens' : tokens'[i].session <= i
           /\ \A i \in DOMAIN tokens : tokens'[i].session = tokens[i].session
<1> USE BoundsAssumption
<1>1. Len(tokens) \in Nat /\ Len(tokens) <= MaxTokens /\ DOMAIN tokens = 1 .. Len(tokens)
  BY DEF TypeInv, TypeOK
<1>2. \A i \in DOMAIN tokens : tokens[i] \in Token /\ tokens[i].session <= i
  BY DEF TypeInv, TypeOK, CarriesInv
<1>3. CASE UNCHANGED tokens
  BY <1>1, <1>2, <1>3 DEF TypeInv, TypeOK
<1>4. ASSUME NEW i \in DOMAIN tokens, Takes(i)
      PROVE  /\ tokens' \in Seq(Token) /\ Len(tokens') = Len(tokens)
             /\ \A j \in DOMAIN tokens : tokens'[j].session = tokens[j].session
  <2>1. \A j \in 1 .. Len(tokens) :
           tokens'[j] \in Token /\ tokens'[j].session = tokens[j].session
    BY <1>1, <1>2, <1>4 DEF Token, Takes
  <2>2. tokens' \in [1 .. Len(tokens) -> Token]
    BY <1>1, <1>4, <2>1 DEF Takes
  <2>3. tokens' \in Seq(Token) /\ Len(tokens') = Len(tokens)
    BY <1>1, <2>2
  <2> QED
    BY <1>1, <2>1, <2>3
<1>5. ASSUME NEW user \in User, NEW session \in 1 .. Len(tokens) + 1,
             Len(tokens) < MaxTokens, Adds(user, session)
      PROVE  /\ tokens' \in Seq(Token) /\ Len(tokens') = Len(tokens) + 1
             /\ tokens'[Len(tokens) + 1].session = session
             /\ \A j \in DOMAIN tokens : tokens'[j] = tokens[j]
  BY <1>5, AddsRow
<1>6. CASE \E i \in DOMAIN tokens : Takes(i)
  <2>1. /\ tokens' \in Seq(Token) /\ Len(tokens') = Len(tokens)
        /\ \A j \in DOMAIN tokens : tokens'[j].session = tokens[j].session
    BY <1>4, <1>6
  <2> QED
    BY <1>1, <1>2, <2>1
<1>7. CASE \E user \in User, session \in 1 .. Len(tokens) + 1 :
               Len(tokens) < MaxTokens /\ Adds(user, session)
  <2>1. PICK session \in 1 .. Len(tokens) + 1 :
           /\ tokens' \in Seq(Token) /\ Len(tokens') = Len(tokens) + 1
           /\ tokens'[Len(tokens) + 1].session = session
           /\ \A j \in DOMAIN tokens : tokens'[j] = tokens[j]
    BY <1>5, <1>7
  <2>2. DOMAIN tokens' = 1 .. Len(tokens) + 1
    BY <2>1
  <2>3. ASSUME NEW i \in 1 .. Len(tokens) + 1 PROVE tokens'[i].session <= i
    <3>1. CASE i = Len(tokens) + 1
      BY <1>1, <2>1, <3>1
    <3>2. CASE i # Len(tokens) + 1
      <4>1. i \in DOMAIN tokens
        BY <1>1, <3>2
      <4> QED
        BY <1>2, <2>1, <4>1
    <3> QED
      BY <3>1, <3>2
  <2>4. Len(tokens) < MaxTokens
    BY <1>7
  <2> QED
    BY <1>1, <2>1, <2>2, <2>3, <2>4
<1> QED
  BY <1>3, <1>6, <1>7

\* What becomes of the request in slot c.
Becomes(c, step, set, sent) ==
    /\ Handles(c) /\ exchange'[c].step = step
    /\ exchange'[c].setCookie = set /\ exchange'[c].cookie = sent

\* A session that loses its last token is a mishap.
Loses(c) ==
    /\ mishaps \subseteq mishaps' /\ mishaps' \subseteq 1 .. Len(tokens)
    /\ Sent(c) # NoCookie
         /\ (At(c, "revoked") \/ (At(c, "answered") /\ exchange[c].setCookie # Keep))
       => SessionOf(c) \in mishaps'

\* The five ways in which a handler goes on.
Finds(c) ==
    /\ At(c, "arrived") /\ IsActive(Sent(c)) /\ Becomes(c, "found", Keep, Sent(c))
    /\ overlaps' = IF \E d \in Call \ {c} : At(d, "found") /\ Sent(d) = Sent(c)
                   THEN overlaps \cup {SessionOf(c)} ELSE overlaps
    /\ UNCHANGED <<tokens, mishaps>>

GivesUp(c) ==
    /\ Becomes(c, "answered", Keep, NoCookie) /\ Loses(c)
    /\ UNCHANGED <<tokens, overlaps>>

SignsOut(c) ==
    /\ ~At(c, "answered") /\ Becomes(c, "answered", NoCookie, Sent(c))
    /\ Loses(c) /\ UNCHANGED <<tokens, overlaps>>

Revokes(c) ==
    /\ At(c, "found") /\ Takes(Sent(c)) /\ UNCHANGED <<mishaps, overlaps>>
    /\ \/ Becomes(c, "answered", NoCookie, Sent(c))
       \/ Becomes(c, "revoked", Keep, Sent(c))

Creates(c, user, session) ==
    /\ \/ At(c, "revoked") /\ session = SessionOf(c)
       \/ At(c, "arrived") /\ session = Len(tokens) + 1
    /\ Len(tokens) < MaxTokens /\ Adds(user, session)
    /\ Becomes(c, "answered", Len(tokens) + 1, Sent(c)) /\ UNCHANGED <<mishaps, overlaps>>

GoesOn(c) ==
    \/ Finds(c) \/ GivesUp(c) \/ SignsOut(c) \/ Revokes(c)
    \/ \E user \in User, session \in 1 .. Len(tokens) + 1 : Creates(c, user, session)

\* The row that a request carries the token of.
LEMMA SentRow ==
    ASSUME TypeInv, NEW c \in Call, call[c] # None, Sent(c) # NoCookie
    PROVE  /\ Sent(c) \in DOMAIN tokens /\ tokens[Sent(c)] \in Token
           /\ SessionOf(c) \in 1 .. Len(tokens) /\ tokens[Sent(c)].user \in User
<1>1. Len(tokens) \in Nat /\ DOMAIN tokens = 1 .. Len(tokens) /\ Len(tokens) <= MaxTokens
  BY DEF TypeInv, TypeOK
<1>2. Sent(c) \in DOMAIN tokens
  BY <1>1 DEF TypeInv, CarriesInv, CarriedOK, Sent, NoCookie
<1>3. tokens[Sent(c)] \in Token
  BY <1>2 DEF TypeInv, TypeOK
<1>4. tokens[Sent(c)].session <= Sent(c)
  BY <1>2 DEF TypeInv, CarriesInv
<1>5. tokens[Sent(c)].session \in 1 .. MaxTokens /\ tokens[Sent(c)].user \in User
  BY <1>3 DEF Token
<1> QED
  BY <1>1, <1>2, <1>3, <1>4, <1>5, BoundsAssumption DEF SessionOf

\* Every action of the server goes on in one of these ways.
LEMMA ServerGoesOn ==
    ASSUME TypeInv, NEW c \in Call, Serve(c) \/ HandlerFails(c) \/ AnswerIsLost(c)
    PROVE  GoesOn(c)
<1> USE BoundsAssumption
<1>1. TypeOK /\ (call[c] # None => CarriedOK(c) /\ exchange[c] \in Exchange)
  BY DEF TypeInv, TypeOK, CarriesInv
<1>2. /\ Len(tokens) \in Nat /\ Len(tokens) <= MaxTokens /\ DOMAIN tokens = 1 .. Len(tokens)
      /\ mishaps \subseteq 1 .. Len(tokens)
  BY DEF TypeInv, TypeOK
<1>3. NoCookie \in 0 .. MaxTokens + 1 /\ Keep \in 0 .. MaxTokens + 1 /\ NoCookie # Keep
  BY DEF NoCookie, Keep
<1>4. CASE Find(c)
  <2>1. /\ At(c, "arrived") /\ call[c] # None /\ UNCHANGED <<call, tab, cookie>>
        /\ exchange' = [exchange EXCEPT ![c].step = "found"]
    BY <1>4 DEF Find, At
  <2>2. Becomes(c, "found", Keep, Sent(c))
    BY <1>1, <2>1, StepHandles DEF Becomes, CarriedOK, At, Sent
  <2> QED
    BY <1>4, <2>1, <2>2 DEF Find, Finds, GoesOn
<1>5. ASSUME NEW status \in {"ok", "unauthorized", "error"},
             NEW subject \in User \cup {None}, call[c] # None,
             Answer(c, status, Keep, subject), UNCHANGED <<tokens, call, tab, cookie, overlaps>>,
             Loses(c)
      PROVE  GoesOn(c)
  <2>1. UNCHANGED <<call, tab, cookie>>
    BY <1>5
  <2>2. /\ Handles(c)
        /\ exchange'[c].step = "answered" /\ exchange'[c].setCookie = Keep
        /\ exchange'[c].cookie = IF Keep = Keep THEN NoCookie ELSE exchange[c].cookie
    BY <1>1, <1>3, <1>5, <2>1, AnswerHandles
  <2>3. Becomes(c, "answered", Keep, NoCookie)
    BY <2>2 DEF Becomes
  <2> QED
    BY <1>5, <2>3 DEF GivesUp, GoesOn
<1>6. ASSUME Answer(c, "ok", NoCookie, None), call[c] # None, ~At(c, "answered"),
             UNCHANGED <<tokens, call, tab, cookie, overlaps>>, Loses(c)
      PROVE  GoesOn(c)
  <2>1. Becomes(c, "answered", NoCookie, Sent(c))
    BY <1>1, <1>3, <1>6, AnswerHandles DEF Becomes, Sent
  <2> QED
    BY <1>6, <2>1 DEF SignsOut, GoesOn
<1>7. ASSUME UNCHANGED mishaps, At(c, "arrived") PROVE Loses(c)
  BY <1>2, <1>7 DEF Loses, At
<1>8. CASE NotFound(c)
  BY <1>5, <1>6, <1>7, <1>8 DEF NotFound, At
<1>9. CASE LoginRefused(c)
  BY <1>5, <1>7, <1>9 DEF LoginRefused, At
<1>10. CASE Authorize(c)
  <2>1. exchange[c].bearer \in User \cup {None}
    BY <1>1, <1>10 DEF Authorize, At, Exchange
  <2> QED
    BY <1>5, <1>7, <1>10, <2>1 DEF Authorize, At
<1>11. CASE Revoke(c)
  <2>1. /\ At(c, "found") /\ call[c] # None /\ UNCHANGED <<call, tab, cookie, mishaps, overlaps>>
    BY <1>11 DEF Revoke, At
  <2>2. Takes(Sent(c))
    BY <1>11 DEF Revoke, Revoked, Takes
  <2>3. CASE IsLogout(c)
    <3>1. Becomes(c, "answered", NoCookie, Sent(c))
      BY <1>1, <1>3, <1>11, <2>1, <2>3, AnswerHandles DEF Revoke, Becomes, Sent
    <3> QED
      BY <2>1, <2>2, <3>1 DEF Revokes, GoesOn
  <2>4. CASE ~IsLogout(c)
    <3>1. Becomes(c, "revoked", Keep, Sent(c))
      BY <1>1, <1>11, <2>1, <2>4, StepHandles DEF Revoke, Becomes, CarriedOK, At, Sent
    <3> QED
      BY <2>1, <2>2, <3>1 DEF Revokes, GoesOn
  <2> QED
    BY <2>3, <2>4
<1>12. ASSUME NEW user \in User, NEW session \in 1 .. Len(tokens) + 1,
              call[c] # None, CreateToken(c, user, session),
              \/ At(c, "revoked") /\ session = SessionOf(c)
              \/ At(c, "arrived") /\ session = Len(tokens) + 1
       PROVE  GoesOn(c)
  <2>1. /\ Len(tokens) + 1 \in 0 .. MaxTokens + 1 /\ Len(tokens) + 1 # Keep
        /\ Len(tokens) < MaxTokens /\ Adds(user, session) /\ UNCHANGED <<mishaps, overlaps>>
        /\ Answer(c, "ok", Len(tokens) + 1, user) /\ UNCHANGED <<call, tab, cookie>>
    BY <1>2, <1>12 DEF CreateToken, Keep, Adds
  <2>2. Becomes(c, "answered", Len(tokens) + 1, Sent(c))
    BY <1>1, <1>12, <2>1, AnswerHandles DEF Becomes, Sent
  <2> QED
    BY <1>12, <2>1, <2>2 DEF Creates, GoesOn
<1>13. CASE Rotate(c)
  <2>1. Sent(c) # NoCookie /\ call[c] # None
    BY <1>1, <1>13 DEF Rotate, At, CarriedOK, Sent
  <2>2. SessionOf(c) \in 1 .. Len(tokens) + 1 /\ tokens[Sent(c)].user \in User
    BY <1>2, <2>1, SentRow
  <2> QED
    BY <1>12, <1>13, <2>1, <2>2 DEF Rotate
<1>14. CASE Login(c)
  <2>1. call[c].input \in User /\ call[c] # None
    BY <1>1, <1>14 DEF Login, At, IsLogin, CarriedOK
  <2> QED
    BY <1>2, <1>12, <1>14, <2>1 DEF Login
<1>15. CASE HandlerFails(c)
  <2>1. /\ call[c] # None /\ ~At(c, "answered")
        /\ UNCHANGED <<tokens, call, tab, cookie, overlaps>>
    BY <1>15 DEF HandlerFails, At
  <2>2. At(c, "revoked") => SessionOf(c) \in 1 .. Len(tokens)
    BY <1>1, <2>1, SentRow DEF CarriedOK, At, Sent
  <2>3. Loses(c)
    BY <1>2, <1>15, <2>1, <2>2 DEF HandlerFails, Loses, At
  <2> QED
    BY <1>5, <1>6, <1>15, <2>1, <2>3 DEF HandlerFails
<1>16. CASE AnswerIsLost(c)
  <2>1. call[c] # None /\ At(c, "answered") /\ UNCHANGED <<tokens, call, tab, cookie, overlaps>>
    BY <1>16 DEF AnswerIsLost, At
  <2>2. Sent(c) # NoCookie => TakesToken(c) /\ SessionOf(c) \in 1 .. Len(tokens)
    BY <1>1, <2>1, SentRow DEF CarriedOK, Sent
  <2>3. Loses(c)
    BY <1>2, <1>16, <2>1, <2>2 DEF AnswerIsLost, Loses, At
  <2> QED
    BY <1>5, <1>16, <2>1, <2>3 DEF AnswerIsLost
<1> QED
  BY <1>4, <1>8, <1>9, <1>10, <1>11, <1>13, <1>14, <1>15, <1>16 DEF Serve

\* What a handler does keeps the types, and no row changes its session.
LEMMA GoesOnType ==
    ASSUME TypeInv, NEW c \in Call, GoesOn(c)
    PROVE  /\ TypeInv' /\ Handles(c)
           /\ Len(tokens) <= Len(tokens')
           /\ \A i \in DOMAIN tokens : tokens'[i].session = tokens[i].session
<1> USE BoundsAssumption
<1>1. /\ Len(tokens) \in Nat /\ Len(tokens) <= MaxTokens /\ DOMAIN tokens = 1 .. Len(tokens)
      /\ mishaps \subseteq 1 .. Len(tokens) /\ overlaps \subseteq 1 .. Len(tokens)
  BY DEF TypeInv, TypeOK
<1>2. Handles(c)
  BY DEF GoesOn, Finds, GivesUp, SignsOut, Revokes, Creates, Becomes
<1>3. call[c] # None /\ CarriedOK(c)
  BY <1>2 DEF Handles, TypeInv, CarriesInv
<1>4. Sent(c) \in 0 .. Len(tokens) /\ (Sent(c) # NoCookie => TakesToken(c))
  BY <1>3 DEF CarriedOK, Sent
<1>5. /\ \/ UNCHANGED tokens
         \/ \E i \in DOMAIN tokens : Takes(i)
         \/ \E user \in User, session \in 1 .. Len(tokens) + 1 :
               Len(tokens) < MaxTokens /\ Adds(user, session)
      /\ mishaps' \subseteq 1 .. Len(tokens) /\ overlaps' \subseteq 1 .. Len(tokens)
  <2>1. CASE Finds(c)
    <3>1. SessionOf(c) \in 1 .. Len(tokens)
      BY <1>3, <2>1, SentRow DEF Finds, IsActive
    <3> QED
      BY <1>1, <2>1, <3>1 DEF Finds
  <2>2. CASE GivesUp(c) \/ SignsOut(c)
    BY <1>1, <2>2 DEF GivesUp, SignsOut, Loses
  <2>3. CASE Revokes(c)
    <3>1. Sent(c) \in DOMAIN tokens
      BY <1>3, <2>3, SentRow DEF Revokes, CarriedOK, At, Sent
    <3> QED
      BY <1>1, <2>3, <3>1 DEF Revokes
  <2>4. CASE \E user \in User, session \in 1 .. Len(tokens) + 1 : Creates(c, user, session)
    BY <1>1, <2>4 DEF Creates
  <2> QED
    BY <2>1, <2>2, <2>3, <2>4 DEF GoesOn
<1>6. /\ tokens' \in Seq(Token) /\ Len(tokens') <= MaxTokens /\ Len(tokens) <= Len(tokens')
      /\ \A i \in DOMAIN tokens' : tokens'[i].session <= i
      /\ \A i \in DOMAIN tokens : tokens'[i].session = tokens[i].session
  BY <1>5, RowsType
<1>7. Len(tokens') \in Nat
  BY <1>6
<1>8. CarriedOK(c)'
  <2> DEFINE Carries ==
        /\ exchange'[c].cookie \in {Sent(c), NoCookie}
        /\ exchange'[c].setCookie \in 0 .. Len(tokens') \cup {Keep}
        /\ exchange'[c].step # "answered" => exchange'[c].setCookie = Keep
        /\ exchange'[c].step = "answered" /\ exchange'[c].setCookie = Keep
             => exchange'[c].cookie = NoCookie
        /\ exchange'[c].step \in {"found", "revoked"} => exchange'[c].cookie # NoCookie
  <2>1. Carries
    <3>1. CASE Finds(c)
      BY <3>1 DEF Finds, Becomes, IsActive
    <3>2. CASE GivesUp(c)
      BY <3>2 DEF GivesUp, Becomes
    <3>3. CASE SignsOut(c)
      BY <1>7, <3>3 DEF SignsOut, Becomes, NoCookie, Keep
    <3>4. CASE Revokes(c)
      BY <1>3, <1>7, <3>4 DEF Revokes, Becomes, NoCookie, Keep, CarriedOK, At, Sent
    <3>5. ASSUME NEW user \in User, NEW session \in 1 .. Len(tokens) + 1,
                 Creates(c, user, session)
          PROVE  Carries
      <4>1. Len(tokens') = Len(tokens) + 1 /\ Len(tokens) + 1 # Keep
        BY <1>1, <3>5 DEF Creates, Adds, Keep, TypeInv, TypeOK
      <4> QED
        BY <1>1, <3>5, <4>1 DEF Creates, Becomes
    <3> HIDE DEF Carries
    <3> QED
      BY <3>1, <3>2, <3>3, <3>4, <3>5 DEF GoesOn
  <2>2. call' = call
    BY <1>2 DEF Handles
  <2> QED
    BY <1>1, <1>3, <1>4, <1>6, <1>7, <2>1, <2>2
       DEF CarriedOK, TakesToken, ReadsCookie, NoCookie
<1>9. \A d \in Call : call'[d] # None => CarriedOK(d)'
  <2>1. ASSUME NEW d \in Call \ {c}, call'[d] # None PROVE CarriedOK(d)'
    <3>1. call'[d] = call[d] /\ exchange'[d] = exchange[d] /\ CarriedOK(d)
      BY <1>2, <2>1 DEF Handles, TypeInv, CarriesInv
    <3> QED
      BY <1>1, <1>6, <1>7, <3>1 DEF CarriedOK, TakesToken, ReadsCookie
  <2> QED
    BY <1>8, <2>1
<1>10. /\ cookie' \in 0 .. Len(tokens')
       /\ mishaps' \cup overlaps' \subseteq 1 .. Len(tokens')
  BY <1>1, <1>2, <1>5, <1>6, <1>7 DEF Handles, TypeInv, TypeOK
<1>11. \A d \in Call : call'[d] = None <=> exchange'[d] = None
  BY <1>2 DEF Handles, TypeInv, TypeOK
<1> QED
  BY <1>2, <1>6, <1>9, <1>10, <1>11 DEF TypeInv, TypeOK, CarriesInv, Handles

\* Which rows a handler takes away, and which row it adds.
LEMMA GoesOnRows ==
    ASSUME TypeInv, NEW c \in Call, GoesOn(c)
    PROVE  /\ \A i \in DOMAIN tokens :
                 tokens'[i].active <=> tokens[i].active /\ ~(Revokes(c) /\ i = Sent(c))
           /\ \A user \in User, session \in 1 .. Len(tokens) + 1 :
                 Creates(c, user, session) =>
                    /\ DOMAIN tokens' = DOMAIN tokens \cup {Len(tokens) + 1}
                    /\ tokens'[Len(tokens) + 1].session = session
                    /\ tokens'[Len(tokens) + 1].active
           /\ DOMAIN tokens' = DOMAIN tokens
              \/ \E user \in User, session \in 1 .. Len(tokens) + 1 : Creates(c, user, session)
<1>1. Len(tokens) \in Nat /\ DOMAIN tokens = 1 .. Len(tokens) /\ tokens \in Seq(Token)
  BY DEF TypeInv, TypeOK
<1>2. ASSUME UNCHANGED tokens, ~Revokes(c)
      PROVE  /\ \A i \in DOMAIN tokens :
                   tokens'[i].active <=> tokens[i].active /\ ~(Revokes(c) /\ i = Sent(c))
             /\ DOMAIN tokens' = DOMAIN tokens
  BY <1>2
<1>3. ASSUME Revokes(c)
      PROVE  /\ \A i \in DOMAIN tokens :
                   tokens'[i].active <=> tokens[i].active /\ ~(Revokes(c) /\ i = Sent(c))
             /\ DOMAIN tokens' = DOMAIN tokens
  <2>1. Takes(Sent(c))
    BY <1>3 DEF Revokes
  <2>2. ASSUME NEW i \in DOMAIN tokens
        PROVE  tokens'[i].active <=> tokens[i].active /\ i # Sent(c)
    <3>1. tokens[i] \in Token
      BY <1>1
    <3> QED
      BY <2>1, <3>1 DEF Takes, Token
  <2> QED
    BY <1>3, <2>1, <2>2 DEF Takes
<1>4. ASSUME NEW user \in User, NEW session \in 1 .. Len(tokens) + 1,
             Creates(c, user, session)
      PROVE  /\ DOMAIN tokens' = DOMAIN tokens \cup {Len(tokens) + 1}
             /\ tokens'[Len(tokens) + 1].session = session
             /\ tokens'[Len(tokens) + 1].active
             /\ \A i \in DOMAIN tokens : tokens'[i] = tokens[i]
             /\ ~Revokes(c)
  <2>1. Len(tokens) < MaxTokens /\ Adds(user, session) /\ ~Revokes(c)
    BY <1>4 DEF Creates, Revokes, At
  <2>2. /\ tokens' \in Seq(Token) /\ Len(tokens') = Len(tokens) + 1
        /\ tokens'[Len(tokens) + 1].session = session
        /\ tokens'[Len(tokens) + 1].active
        /\ \A j \in DOMAIN tokens : tokens'[j] = tokens[j]
    BY <1>4, <2>1, AddsRow
  <2> QED
    BY <1>1, <2>1, <2>2
<1>5. \/ UNCHANGED tokens /\ ~Revokes(c)
      \/ Revokes(c)
      \/ \E user \in User, session \in 1 .. Len(tokens) + 1 : Creates(c, user, session)
  BY DEF GoesOn, Finds, GivesUp, SignsOut
<1>6. /\ \A i \in DOMAIN tokens :
            tokens'[i].active <=> tokens[i].active /\ ~(Revokes(c) /\ i = Sent(c))
      /\ DOMAIN tokens' = DOMAIN tokens
         \/ \E user \in User, session \in 1 .. Len(tokens) + 1 : Creates(c, user, session)
  BY <1>2, <1>3, <1>4, <1>5
<1> QED
  BY <1>4, <1>6

-----------------------------------------------------------------------------
(* The cookie.                                                             *)

\* A token that is on its way stays fresh while a page moves.
LEMMA MovesFresh ==
    ASSUME TypeInv, FreshInv, NEW c \in Call, Moves(c)
    PROVE  FreshInv'
<1>1. tokens' = tokens /\ DOMAIN tokens = 1 .. Len(tokens) /\ Len(tokens) \in Nat
  BY DEF TypeInv, TypeOK, Moves
<1>2. \A i \in DOMAIN tokens : ~Brings(c, i)'
  BY DEF Moves, Asks, Brings, At, Request
<1>3. ASSUME NEW d \in Call, NEW i \in DOMAIN tokens, Brings(d, i)'
      PROVE  /\ tokens[i].active /\ cookie' # i
             /\ \A e \in Call : call'[e] # None => exchange'[e].cookie # i
             /\ \A e \in Call \ {d} : ~Brings(e, i)'
  <2>1. d # c /\ Kept(d) /\ Brings(d, i)
    BY <1>2, <1>3 DEF Moves, Kept, Brings, At
  <2>2. /\ tokens[i].active /\ cookie # i
        /\ \A e \in Call : call[e] # None => Sent(e) # i
        /\ \A e \in Call \ {d} : ~Brings(e, i)
    BY <2>1 DEF FreshInv
  <2>3. cookie' # i
    BY <2>1, <2>2 DEF Moves, HeldAfter, Brings
  <2>4. call'[c] # None => exchange'[c].cookie # i
    BY <1>1, <2>3 DEF Moves, Asks, Request, NoCookie
  <2>5. ASSUME NEW e \in Call \ {c}
        PROVE  /\ call'[e] # None => exchange'[e].cookie # i
               /\ e # d => ~Brings(e, i)'
    BY <2>2, <2>5 DEF Moves, Kept, Sent, Brings, At
  <2> QED
    BY <1>2, <2>2, <2>3, <2>4, <2>5
<1> QED
  BY <1>1, <1>3 DEF FreshInv, Sent

\* And while a handler goes on.
LEMMA GoesOnFresh ==
    ASSUME TypeInv, FreshInv, NEW c \in Call, GoesOn(c)
    PROVE  FreshInv'
<1> USE BoundsAssumption
<1>1. /\ DOMAIN tokens = 1 .. Len(tokens) /\ Len(tokens) \in Nat /\ Len(tokens) <= MaxTokens
      /\ cookie \in 0 .. Len(tokens)
  BY DEF TypeInv, TypeOK
<1>2. /\ Handles(c) /\ call' = call /\ cookie' = cookie
      /\ \A d \in Call \ {c} : exchange'[d] = exchange[d]
  BY GoesOnType DEF Handles
<1>3. \A d \in Call : call[d] # None =>
         /\ Sent(d) \in 0 .. Len(tokens)
         /\ exchange[d].setCookie \in 0 .. Len(tokens) \cup {Keep}
  BY DEF TypeInv, CarriesInv, CarriedOK, Sent
<1>4. /\ exchange'[c].cookie \in {Sent(c), NoCookie}
      /\ \/ exchange'[c].setCookie \in {NoCookie, Keep}
         \/ /\ exchange'[c].setCookie = Len(tokens) + 1 /\ Len(tokens) < MaxTokens
            /\ \E user \in User, session \in 1 .. Len(tokens) + 1 : Creates(c, user, session)
  BY DEF GoesOn, Finds, GivesUp, SignsOut, Revokes, Creates, Becomes
<1>5. DOMAIN tokens' \subseteq 1 .. MaxTokens
  <2>1. TypeInv'
    BY GoesOnType
  <2> QED
    BY <2>1 DEF TypeInv, TypeOK
<1>6. ASSUME NEW i \in DOMAIN tokens', Brings(c, i)'
      PROVE  /\ tokens'[i].active /\ cookie' # i
             /\ \A e \in Call : call'[e] # None => exchange'[e].cookie # i
             /\ \A e \in Call \ {c} : ~Brings(e, i)'
  <2>1. /\ i = Len(tokens) + 1 /\ Len(tokens) < MaxTokens
        /\ \E user \in User, session \in 1 .. Len(tokens) + 1 : Creates(c, user, session)
    BY <1>4, <1>5, <1>6 DEF Brings, NoCookie, Keep
  <2>2. tokens'[i].active
    BY <2>1, GoesOnRows
  <2>3. ASSUME NEW e \in Call, call[e] # None
        PROVE  exchange'[e].cookie # i /\ (e # c => ~Brings(e, i)')
    BY <1>1, <1>2, <1>3, <1>4, <2>1, <2>3 DEF Brings, Keep, NoCookie, Sent
  <2> QED
    BY <1>1, <1>2, <2>1, <2>2, <2>3 DEF Brings, At
<1>7. ASSUME NEW d \in Call \ {c}, NEW i \in DOMAIN tokens', Brings(d, i)'
      PROVE  /\ tokens'[i].active /\ cookie' # i
             /\ \A e \in Call : call'[e] # None => exchange'[e].cookie # i
             /\ \A e \in Call \ {d} : ~Brings(e, i)'
  <2>1. Brings(d, i) /\ call[d] # None
    BY <1>2, <1>7 DEF Brings, At
  <2>2. i \in DOMAIN tokens
    BY <1>1, <1>3, <1>5, <2>1 DEF Brings, Keep
  <2>3. /\ tokens[i].active /\ cookie # i
        /\ \A e \in Call : call[e] # None => Sent(e) # i
        /\ \A e \in Call \ {d} : ~Brings(e, i)
    BY <2>1, <2>2 DEF FreshInv
  <2>4. Sent(c) # i /\ tokens'[i].active
    BY <1>2, <2>2, <2>3, GoesOnRows DEF Handles
  <2>5. exchange'[c].cookie # i /\ ~Brings(c, i)'
    BY <1>1, <1>4, <2>2, <2>4 DEF Brings, NoCookie, Keep
  <2>6. ASSUME NEW e \in Call \ {c}
        PROVE  /\ call'[e] # None => exchange'[e].cookie # i
               /\ e # d => ~Brings(e, i)'
    BY <1>2, <2>3, <2>6 DEF Brings, At, Sent
  <2> QED
    BY <1>2, <2>3, <2>4, <2>5, <2>6
<1> QED
  BY <1>6, <1>7 DEF FreshInv, Sent

\* The cookie stays usable while a page moves.
LEMMA MovesUsable ==
    ASSUME TypeInv, FreshInv, CookieIsUsable, NEW c \in Call, Moves(c)
    PROVE  CookieIsUsable'
<1> SUFFICES ASSUME cookie' # NoCookie, ~tokens'[cookie'].active,
                    tokens'[cookie'].session \notin mishaps'
             PROVE  \E d \in Call :
                       /\ call'[d] # None /\ TakesToken(d)' /\ Sent(d)' = cookie'
                       /\ \/ At(d, "revoked")'
                          \/ At(d, "answered")' /\ exchange'[d].setCookie # Keep
  BY DEF CookieIsUsable
<1>1. /\ tokens' = tokens /\ mishaps' = mishaps
      /\ DOMAIN tokens = 1 .. Len(tokens) /\ Len(tokens) \in Nat
      /\ cookie \in 0 .. Len(tokens)
  BY DEF Moves, TypeInv, TypeOK
<1>2. ASSUME At(c, "answered"), exchange[c].setCookie = cookie' PROVE FALSE
  <2>1. exchange[c].setCookie \in 0 .. Len(tokens) \cup {Keep}
    BY <1>2 DEF TypeInv, CarriesInv, CarriedOK, At
  <2>2. cookie' \in DOMAIN tokens /\ Brings(c, cookie')
    BY <1>1, <1>2, <2>1 DEF NoCookie, Moves, HeldAfter, Brings
  <2> QED
    BY <1>1, <2>2 DEF FreshInv
<1>3. cookie' = cookie
  BY <1>2 DEF Moves, HeldAfter
<1>4. PICK d \in Call : /\ call[d] # None /\ TakesToken(d) /\ Sent(d) = cookie
                        /\ \/ At(d, "revoked")
                           \/ At(d, "answered") /\ exchange[d].setCookie # Keep
  BY <1>1, <1>3 DEF CookieIsUsable
<1>5. d # c
  <2>1. exchange[c].setCookie # Keep /\ At(c, "answered") => exchange[c].setCookie = cookie'
    BY DEF Moves, HeldAfter, At
  <2> QED
    BY <1>2, <1>4, <2>1 DEF Moves, At
<1>6. Kept(d)
  BY <1>5 DEF Moves
<1> QED
  BY <1>3, <1>4, <1>6 DEF Kept, TakesToken, ReadsCookie, At, Sent

\* And while a handler goes on.
LEMMA GoesOnUsable ==
    ASSUME TypeInv, CookieIsUsable, NEW c \in Call, GoesOn(c)
    PROVE  CookieIsUsable'
<1> SUFFICES ASSUME cookie' # NoCookie, ~tokens'[cookie'].active,
                    tokens'[cookie'].session \notin mishaps'
             PROVE  \E d \in Call :
                       /\ call'[d] # None /\ TakesToken(d)' /\ Sent(d)' = cookie'
                       /\ \/ At(d, "revoked")'
                          \/ At(d, "answered")' /\ exchange'[d].setCookie # Keep
  BY DEF CookieIsUsable
<1>1. /\ call' = call /\ cookie' = cookie /\ call[c] # None
      /\ \A d \in Call \ {c} : exchange'[d] = exchange[d]
  BY GoesOnType DEF Handles
<1>2. /\ DOMAIN tokens = 1 .. Len(tokens) /\ Len(tokens) \in Nat
      /\ Len(tokens) <= MaxTokens /\ cookie \in DOMAIN tokens
  BY <1>1 DEF TypeInv, TypeOK, NoCookie
<1>3. tokens'[cookie].session = tokens[cookie].session
  BY <1>2, GoesOnType
<1>4. mishaps \subseteq mishaps'
  BY DEF GoesOn, Finds, GivesUp, SignsOut, Revokes, Creates, Loses
<1>5. Keep # NoCookie /\ (Len(tokens) < MaxTokens => Keep # Len(tokens) + 1)
  BY <1>2, BoundsAssumption DEF Keep, NoCookie
<1>6. CASE tokens[cookie].active
  <2>1. Revokes(c) /\ Sent(c) = cookie
    BY <1>1, <1>2, <1>6, GoesOnRows
  <2>2. TakesToken(c)
    BY <1>1, <2>1 DEF TypeInv, CarriesInv, CarriedOK, Sent
  <2> QED
    BY <1>1, <1>5, <2>1, <2>2 DEF Revokes, Becomes, TakesToken, Sent, At
<1>7. CASE ~tokens[cookie].active
  <2>1. PICK d \in Call : /\ call[d] # None /\ TakesToken(d) /\ Sent(d) = cookie
                          /\ \/ At(d, "revoked")
                             \/ At(d, "answered") /\ exchange[d].setCookie # Keep
    BY <1>1, <1>3, <1>4, <1>7 DEF CookieIsUsable
  <2>2. CASE d # c
    BY <1>1, <2>1, <2>2 DEF TakesToken, Sent, At
  <2>3. CASE d = c
    <3>1. ~GivesUp(c)
      <4>1. Sent(c) # NoCookie /\ SessionOf(c) \notin mishaps'
        BY <1>1, <1>3, <2>1, <2>3 DEF SessionOf
      <4> QED
        BY <2>1, <2>3, <4>1 DEF GivesUp, Loses
    <3>2. ~Finds(c) /\ ~Revokes(c)
      BY <2>1, <2>3 DEF Finds, Revokes, At
    <3>3. \/ Becomes(c, "answered", NoCookie, Sent(c))
          \/ Len(tokens) < MaxTokens /\ Becomes(c, "answered", Len(tokens) + 1, Sent(c))
      BY <3>1, <3>2 DEF GoesOn, SignsOut, Creates
    <3> QED
      BY <1>1, <1>5, <2>1, <2>3, <3>3 DEF Becomes, TakesToken, Sent, At
  <2> QED
    BY <2>2, <2>3
<1> QED
  BY <1>6, <1>7

-----------------------------------------------------------------------------
(* One token for a session.                                                *)

\* Nothing is taken of the session, and nothing about to be.
Ended(s) == Active(s) = {} /\ Rotating(s) = {}

\* Pages move no token and no handler.
LEMMA MovesSingle ==
    ASSUME TypeInv, SingleInv, NEW c \in Call, Moves(c)
    PROVE  SingleInv' /\ \A s \in Nat : Active(s)' = Active(s) /\ Rotating(s)' = Rotating(s)
<1>1. tokens' = tokens /\ overlaps' = overlaps
  BY DEF Moves
<1>2. \A step \in {"found", "revoked"} : ~At(c, step) /\ ~At(c, step)'
  BY DEF Moves, Asks, At, Request
<1>3. \A d \in Call \ {c} : Sent(d)' = Sent(d)
                            /\ \A step \in {"found", "revoked"} : At(d, step)' <=> At(d, step)
  BY DEF Moves, Kept, At, Sent
<1>4. \A s \in Nat : Active(s)' = Active(s) /\ Rotating(s)' = Rotating(s)
  BY <1>1, <1>2, <1>3 DEF Active, Rotating, SessionOf
<1>5. FoundInv'
  BY <1>1, <1>2, <1>3 DEF SingleInv, FoundInv, SessionOf
<1>6. \A s \in Nat \ overlaps' : IsSingle(s)'
  BY <1>1, <1>4 DEF SingleInv, IsSingle
<1> QED
  BY <1>4, <1>5, <1>6 DEF SingleInv

\* A handler leaves the session of every other request as it is.
LEMMA GoesOnSessions ==
    ASSUME TypeInv, NEW c \in Call, GoesOn(c)
    PROVE  /\ \A d \in Call \ {c} : exchange'[d] = exchange[d] /\ (Sent(d) # NoCookie =>
                   (call[d] # None => SessionOf(d)' = SessionOf(d)))
           /\ call' = call /\ call[c] # None
           /\ exchange'[c].cookie = Sent(c) /\ Sent(c) # NoCookie => SessionOf(c)' = SessionOf(c)
<1>1. /\ call' = call /\ call[c] # None
      /\ \A d \in Call \ {c} : exchange'[d] = exchange[d]
  BY GoesOnType DEF Handles
<1>2. ASSUME NEW d \in Call, exchange'[d].cookie = Sent(d), call[d] # None, Sent(d) # NoCookie
      PROVE  SessionOf(d)' = SessionOf(d)
  <2>1. Sent(d) \in DOMAIN tokens
    BY <1>2, SentRow
  <2> QED
    BY <1>2, <2>1, GoesOnType DEF SessionOf, Sent
<1> QED
  BY <1>1, <1>2 DEF Sent

\* What was found stays there for the one that found it.
LEMMA GoesOnFound ==
    ASSUME TypeInv, FoundInv, NEW c \in Call, GoesOn(c)
    PROVE  FoundInv'
<1> SUFFICES ASSUME NEW d \in Call, At(d, "found")', SessionOf(d)' \notin overlaps'
             PROVE  /\ tokens'[exchange'[d].cookie].active
                    /\ \A e \in Call \ {d} : At(e, "found")' => exchange'[e].cookie # exchange'[d].cookie
  BY DEF FoundInv, Sent
<1>1. /\ call' = call /\ call[c] # None /\ \A e \in Call \ {c} : exchange'[e] = exchange[e]
  BY GoesOnSessions
<1>2. \A e \in Call : At(e, "found") => Sent(e) \in DOMAIN tokens /\ Sent(e) # NoCookie
                                        /\ call[e] # None
  BY SentRow DEF TypeInv, CarriesInv, CarriedOK, At, Sent
<1>3. overlaps \subseteq overlaps'
  BY DEF GoesOn, Finds, GivesUp, SignsOut, Revokes, Creates
<1>4. At(c, "found")' => Finds(c)
  BY DEF GoesOn, GivesUp, SignsOut, Revokes, Creates, Becomes, At
<1>5. CASE d = c
  <2>1. Finds(c) /\ tokens' = tokens /\ exchange'[c].cookie = Sent(c) /\ IsActive(Sent(c))
    BY <1>4, <1>5 DEF Finds, Becomes
  <2>2. SessionOf(c)' = SessionOf(c)
    BY <2>1, GoesOnSessions DEF IsActive
  <2>3. \A e \in Call \ {c} : ~(At(e, "found") /\ Sent(e) = Sent(c))
    BY <1>5, <2>1, <2>2 DEF Finds
  <2> QED
    BY <1>1, <1>5, <2>1, <2>3 DEF IsActive, At, Sent
<1>6. CASE d # c
  <2>1. At(d, "found") /\ exchange'[d].cookie = Sent(d) /\ call[d] # None
    BY <1>1, <1>6 DEF At, Sent
  <2>2. SessionOf(d)' = SessionOf(d) /\ SessionOf(d) \notin overlaps
    BY <1>2, <1>3, <1>6, <2>1, GoesOnSessions
  <2>3. tokens[Sent(d)].active /\ \A e \in Call \ {d} : At(e, "found") => Sent(e) # Sent(d)
    BY <2>1, <2>2 DEF FoundInv
  <2>4. ~(Revokes(c) /\ Sent(d) = Sent(c))
    BY <1>6, <2>3 DEF Revokes
  <2>5. tokens'[Sent(d)].active
    BY <1>2, <2>1, <2>3, <2>4, GoesOnRows
  <2>6. At(c, "found")' => exchange'[c].cookie # Sent(d)
    <3>1. ASSUME Finds(c), Sent(c) = Sent(d) PROVE FALSE
      <4>1. SessionOf(c) \in overlaps'
        BY <1>6, <2>1, <3>1 DEF Finds
      <4> QED
        BY <2>2, <3>1, <4>1 DEF SessionOf
    <3> QED
      BY <1>4, <3>1 DEF Finds, Becomes
  <2> QED
    BY <1>1, <2>1, <2>3, <2>5, <2>6 DEF At, Sent
<1> QED
  BY <1>5, <1>6

\* A session keeps to one token while a handler goes on, and one that ended stays
\* ended.
LEMMA GoesOnSingle ==
    ASSUME TypeInv, SingleInv, NEW c \in Call, GoesOn(c), NEW s \in Nat \ overlaps'
    PROVE  IsSingle(s)' /\ (s \in DOMAIN tokens /\ Ended(s) => Ended(s)')
<1>1. /\ call' = call /\ call[c] # None /\ \A e \in Call \ {c} : exchange'[e] = exchange[e]
  BY GoesOnSessions
<1>2. overlaps \subseteq overlaps'
  BY DEF GoesOn, Finds, GivesUp, SignsOut, Revokes, Creates
<1>3. IsSingle(s)
  BY <1>2 DEF SingleInv
<1>4. /\ DOMAIN tokens = 1 .. Len(tokens) /\ Len(tokens) \in Nat
      /\ \A i \in DOMAIN tokens : tokens'[i].session = tokens[i].session
  BY GoesOnType DEF TypeInv, TypeOK
<1>5. \A d \in Call \ {c} : d \in Rotating(s)' <=> d \in Rotating(s)
  <2>1. ASSUME NEW d \in Call \ {c}, At(d, "revoked") \/ At(d, "revoked")'
        PROVE  At(d, "revoked") /\ At(d, "revoked")' /\ SessionOf(d)' = SessionOf(d)
    <3>1. At(d, "revoked") /\ At(d, "revoked")'
      BY <1>1, <2>1 DEF At
    <3>2. Sent(d) # NoCookie
      BY <3>1 DEF TypeInv, CarriesInv, CarriedOK, At, Sent
    <3> QED
      BY <3>1, <3>2, GoesOnSessions DEF At
  <2> QED
    BY <2>1 DEF Rotating
<1>6. ASSUME DOMAIN tokens' = DOMAIN tokens, ~Revokes(c), c \notin Rotating(s)'
      PROVE  Active(s)' = Active(s) /\ Rotating(s)' \subseteq Rotating(s)
  <2>1. Active(s)' = Active(s)
    BY <1>4, <1>6, GoesOnRows DEF Active
  <2>2. Rotating(s)' \subseteq Rotating(s)
    BY <1>5, <1>6 DEF Rotating
  <2> QED
    BY <2>1, <2>2
<1>7. ASSUME Active(s)' = Active(s), Rotating(s)' \subseteq Rotating(s)
      PROVE  IsSingle(s)' /\ (Ended(s) => Ended(s)')
  BY <1>3, <1>7 DEF IsSingle, Ended
<1>8. CASE ~Revokes(c) /\ (Finds(c) \/ GivesUp(c) \/ SignsOut(c))
  <2>1. DOMAIN tokens' = DOMAIN tokens /\ c \notin Rotating(s)'
    BY <1>8 DEF Finds, GivesUp, SignsOut, Becomes, Rotating, At
  <2> QED
    BY <1>6, <1>7, <1>8, <2>1
<1>9. CASE Revokes(c)
  <2>1. /\ At(c, "found") /\ exchange'[c].cookie = Sent(c) /\ Sent(c) # NoCookie
        /\ DOMAIN tokens' = DOMAIN tokens
    BY <1>1, <1>9 DEF Revokes, Becomes, TypeInv, CarriesInv, CarriedOK, At, Sent, Takes
  <2>2. SessionOf(c)' = SessionOf(c) /\ Sent(c) \in DOMAIN tokens
    BY <1>1, <2>1, GoesOnSessions, SentRow
  <2>3. Active(s)' = Active(s) \ {Sent(c)}
    BY <1>4, <1>9, <2>1, GoesOnRows DEF Active
  <2>4. CASE s # SessionOf(c)
    <3>1. Sent(c) \notin Active(s) /\ c \notin Rotating(s)'
      BY <2>2, <2>4 DEF Active, Rotating, SessionOf
    <3> QED
      BY <1>5, <1>7, <2>3, <3>1 DEF Rotating
  <2>5. CASE s = SessionOf(c)
    <3>1. tokens[Sent(c)].active
      BY <1>2, <2>1, <2>5 DEF SingleInv, FoundInv
    <3>2. Sent(c) \in Active(s)
      BY <2>2, <2>5, <3>1 DEF Active, SessionOf
    <3>3. Active(s)' = {} /\ Rotating(s) = {}
      BY <1>3, <2>3, <3>2 DEF IsSingle
    <3>4. Rotating(s)' \subseteq {c}
      BY <1>5, <3>3 DEF Rotating
    <3> QED
      BY <3>2, <3>3, <3>4 DEF IsSingle, Ended
  <2> QED
    BY <2>4, <2>5
<1>10. ASSUME NEW user \in User, NEW session \in 1 .. Len(tokens) + 1, Creates(c, user, session)
       PROVE  IsSingle(s)' /\ (s \in DOMAIN tokens /\ Ended(s) => Ended(s)')
  <2> DEFINE n == Len(tokens) + 1
  <2>1. /\ DOMAIN tokens' = DOMAIN tokens \cup {n} /\ n \notin DOMAIN tokens
        /\ tokens'[n].session = session /\ tokens'[n].active
    <3>1. n \notin DOMAIN tokens
      BY <1>4
    <3>2. /\ DOMAIN tokens' = DOMAIN tokens \cup {n}
          /\ tokens'[n].session = session /\ tokens'[n].active
      BY <1>10, GoesOnRows
    <3> QED
      BY <3>1, <3>2
  <2>2. ~Revokes(c) /\ c \notin Rotating(s)'
    BY <1>10 DEF Creates, Revokes, Becomes, Rotating, At
  <2>3. Active(s)' = IF session = s THEN Active(s) \cup {n} ELSE Active(s)
    <3> HIDE DEF n
    <3>1. ASSUME NEW i \in DOMAIN tokens PROVE i \in Active(s)' <=> i \in Active(s)
      BY <1>4, <2>1, <2>2, <3>1, GoesOnRows DEF Active
    <3>2. n \in Active(s)' <=> session = s
      BY <2>1 DEF Active
    <3> QED
      BY <2>1, <3>1, <3>2 DEF Active
  <2>4. Rotating(s)' \subseteq Rotating(s) \ {c}
    BY <1>5, <2>2 DEF Rotating
  <2>5. CASE session # s
    BY <1>7, <2>3, <2>4, <2>5
  <2>6. CASE session = s /\ At(c, "revoked") /\ session = SessionOf(c)
    <3>1. c \in Rotating(s)
      BY <2>6 DEF Rotating
    <3>2. Active(s) = {} /\ Rotating(s)' = {}
      BY <1>3, <2>4, <3>1 DEF IsSingle
    <3> QED
      BY <2>3, <2>6, <3>1, <3>2 DEF IsSingle, Ended
  <2>7. CASE session = s /\ session = n
    <3>1. Active(s) = {}
      <4>1. \A i \in DOMAIN tokens : tokens[i] \in Token /\ tokens[i].session <= i
        BY DEF TypeInv, TypeOK, CarriesInv
      <4>2. \A i \in DOMAIN tokens : tokens[i].session # n
        BY <1>4, <4>1 DEF Token
      <4> QED
        BY <2>7, <4>2 DEF Active
    <3>2. Rotating(s) = {}
      <4>1. ASSUME NEW d \in Call, At(d, "revoked") PROVE SessionOf(d) # n
        <5>1. Sent(d) # NoCookie /\ call[d] # None
          BY <4>1 DEF TypeInv, CarriesInv, CarriedOK, At, Sent
        <5> QED
          BY <1>4, <5>1, SentRow
      <4> QED
        BY <2>7, <4>1 DEF Rotating
    <3> QED
      BY <2>1, <2>3, <2>4, <2>7, <3>1, <3>2 DEF IsSingle
  <2> QED
    BY <1>10, <2>5, <2>6, <2>7 DEF Creates
<1> QED
  BY <1>8, <1>9, <1>10 DEF GoesOn

\* A set of one element at most.
LEMMA AtMostOne ==
    ASSUME NEW S, \A x, y \in S : x = y
    PROVE  Cardinality(S) \in {0, 1} /\ (Cardinality(S) = 0 <=> S = {})
<1>1. CASE S = {}
  BY <1>1, FS_EmptySet
<1>2. CASE S # {}
  <2>1. PICK x : S = {x}
    BY <1>2
  <2>2. Cardinality({x}) = 1
    BY FS_Singleton
  <2> QED
    BY <1>2, <2>1, <2>2
<1> QED
  BY <1>1, <1>2

\* What Live counts, when a session keeps to one token.
LEMMA LiveOfSingle ==
    ASSUME NEW A, NEW R, \A x, y \in A : x = y, \A x, y \in R : x = y, A = {} \/ R = {}
    PROVE  /\ Cardinality(A) + Cardinality(R) \in {0, 1}
           /\ Cardinality(A) + Cardinality(R) = 0 <=> A = {} /\ R = {}
<1>1. Cardinality(A) \in {0, 1} /\ (Cardinality(A) = 0 <=> A = {})
  BY AtMostOne
<1>2. Cardinality(R) \in {0, 1} /\ (Cardinality(R) = 0 <=> R = {})
  BY AtMostOne
<1> QED
  BY <1>1, <1>2

\* A step after which the session keeps to one token, and has none if it had none.
LEMMA DoesNotMultiply ==
    ASSUME NEW s, IsSingle(s), IsSingle(s)', Ended(s) => Ended(s)'
    PROVE  Live(s)' <= 1 /\ Live(s)' <= Live(s)
<1>1. Live(s) \in {0, 1} /\ (Live(s) = 0 <=> Ended(s))
  <2>1. Live(s) = Cardinality(Active(s)) + Cardinality(Rotating(s))
    BY DEF Live, Active, Rotating
  <2> QED
    BY <2>1, LiveOfSingle DEF IsSingle, Ended
<1>2. Live(s)' \in {0, 1} /\ (Live(s)' = 0 <=> Ended(s)')
  <2>1. Live(s)' = Cardinality(Active(s)') + Cardinality(Rotating(s)')
    BY DEF Live, Active, Rotating
  <2> QED
    BY <2>1, LiveOfSingle DEF IsSingle, Ended
<1> QED
  BY <1>1, <1>2

-----------------------------------------------------------------------------
(* The user that a page shows.                                             *)

\* What a page does shows no user of an earlier generation.
LEMMA PagesShowCurrent ==
    ASSUME TypeOK, ShownUserIsCurrent,
           \/ \E c \in Call : (\E t \in Tab : Begins(c, t)) \/ Receive(c)
           \/ \E t \in Tab : AccessExpires(t)
    PROVE  ShownUserIsCurrent'
<1>1. tab \in [Tab -> Page] /\ \A t \in Tab : tab[t].user # None => tab[t].current
  BY DEF TypeOK, ShownUserIsCurrent
<1>2. CASE tab' = tab
  BY <1>1, <1>2 DEF ShownUserIsCurrent
<1>3. CASE \E c \in Call, t \in Tab : Begins(c, t)
  <2>1. PICK t \in Tab : tab' = tab \/ tab' = [tab EXCEPT ![t].open = TRUE]
    BY <1>3 DEF Begins, Open, SubmitLogin, NavUser, Act
  <2> QED
    BY <1>1, <1>2, <2>1 DEF ShownUserIsCurrent, Page
<1>4. CASE \E t \in Tab : AccessExpires(t)
  BY <1>1, <1>4 DEF AccessExpires, ShownUserIsCurrent, Page
<1>5. ASSUME NEW c \in Call, Receive(c) PROVE ShownUserIsCurrent'
  <2>1. call[c] \in AwaitedCall /\ exchange[c] \in Exchange
    BY <1>5 DEF Receive, TryRefresh, SendAgain, Throws, Restored, RestoredTooLate,
                ReceivesUser, LoggedIn, LoggedOut, Arrives, At, TypeOK
  <2>2. call[c].tab \in Tab /\ tab[call[c].tab] \in Page
    BY <1>1, <2>1 DEF AwaitedCall
  <2>3. CASE TryRefresh(c)
    BY <1>2, <2>3 DEF TryRefresh
  <2>4. CASE SendAgain(c) \/ Restored(c)
    BY <1>1, <2>2, <2>4 DEF SendAgain, Restored, ShownUserIsCurrent, Page
  <2>5. CASE Throws(c)
    BY <1>1, <2>2, <2>5 DEF Throws, ShownUserIsCurrent, Page
  <2>6. CASE RestoredTooLate(c)
    BY <1>1, <2>2, <2>6 DEF RestoredTooLate, ShownUserIsCurrent, Page
  <2>7. CASE ReceivesUser(c)
    BY <1>1, <2>2, <2>7 DEF ReceivesUser, IsCurrent, WithUser, ShownUserIsCurrent, Page
  <2>8. CASE LoggedIn(c)
    BY <1>1, <2>2, <2>8 DEF LoggedIn, WithUser, ShownUserIsCurrent, Page
  <2>9. CASE LoggedOut(c)
    BY <1>1, <2>2, <2>9 DEF LoggedOut, WithUser, ShownUserIsCurrent, Page
  <2> QED
    BY <1>5, <2>3, <2>4, <2>5, <2>6, <2>7, <2>8, <2>9 DEF Receive
<1> QED
  BY <1>3, <1>4, <1>5

-----------------------------------------------------------------------------
(* The theorems.                                                           *)

\* Every behaviour begins with at most one token, no request and no page.
LEMMA InitInv == Init => Inv
<1> SUFFICES ASSUME Init PROVE Inv
  OBVIOUS
<1>1. PICK u \in User, kept \in BOOLEAN :
         /\ tokens = <<[user |-> u, session |-> 1, active |-> kept]>>
         /\ cookie = IF kept THEN 1 ELSE NoCookie
  BY DEF Init
<1>2. /\ call = [c \in Call |-> None] /\ exchange = [c \in Call |-> None]
      /\ mishaps = {} /\ overlaps = {}
      /\ tab = [t \in Tab |-> [open |-> FALSE, loading |-> TRUE, user |-> None,
                               access |-> None, current |-> FALSE]]
  BY DEF Init
<1> DEFINE row == [user |-> u, session |-> 1, active |-> kept]
<1>3. row \in Token /\ row.session = 1 /\ row.active = kept
  BY BoundsAssumption DEF Token
<1>4. tokens = <<row>>
  BY <1>1
<1> HIDE DEF row
<1>5. tokens \in Seq(Token) /\ Len(tokens) = 1 /\ DOMAIN tokens = {1} /\ tokens[1] = row
  BY <1>3, <1>4
<1>6. cookie \in 0 .. 1 /\ (cookie # NoCookie => cookie = 1 /\ tokens[cookie].active)
  BY <1>1, <1>3, <1>5 DEF NoCookie
<1>7. \A c \in Call : call[c] = None /\ exchange[c] = None
  BY <1>2
<1>8. TypeOK
  <2>1. tab \in [Tab -> Page]
    BY <1>2 DEF Page
  <2>2. /\ call \in [Call -> AwaitedCall \cup {None}]
        /\ exchange \in [Call -> Exchange \cup {None}]
    BY <1>2
  <2>3. Len(tokens) <= MaxTokens /\ cookie \in 0 .. Len(tokens)
    BY <1>5, <1>6, BoundsAssumption
  <2>4. mishaps \cup overlaps \subseteq 1 .. Len(tokens)
    BY <1>2
  <2> QED
    BY <1>5, <1>7, <2>1, <2>2, <2>3, <2>4 DEF TypeOK
<1>9. CookieInv
  BY <1>3, <1>5, <1>6, <1>7 DEF CookieInv, CarriesInv, FreshInv, CookieIsUsable, Brings, At
<1>10. SingleInv
  <2>1. \A s \in Nat : Rotating(s) = {} /\ \A i, j \in Active(s) : i = j
    BY <1>5, <1>7 DEF Rotating, Active, At
  <2> QED
    BY <1>7, <2>1 DEF SingleInv, FoundInv, IsSingle, At
<1>11. ShownUserIsCurrent
  BY <1>2 DEF ShownUserIsCurrent
<1> QED
  BY <1>8, <1>9, <1>10, <1>11 DEF Inv

\* One step: the types, the cookie, one token for a session and the user that is
\* shown all hold after it, and no session gains a token.
LEMMA StepInv ==
    ASSUME Inv, [Next]_vars
    PROVE  /\ Inv'
           /\ \A s \in DOMAIN tokens \ overlaps' : Live(s)' <= 1 /\ Live(s)' <= Live(s)
<1>1. /\ TypeInv /\ TypeOK /\ FreshInv /\ CookieIsUsable /\ SingleInv
      /\ ShownUserIsCurrent /\ FoundInv
  BY DEF Inv, TypeInv, CookieInv, SingleInv
<1> DEFINE Holds == /\ Inv'
                    /\ \A s \in DOMAIN tokens \ overlaps' :
                          Live(s)' <= 1 /\ Live(s)' <= Live(s)
<1>2. ASSUME NEW s \in Nat \ overlaps', overlaps \subseteq overlaps', IsSingle(s)',
             Ended(s) => Ended(s)'
      PROVE  Live(s)' <= 1 /\ Live(s)' <= Live(s)
  BY <1>1, <1>2, DoesNotMultiply DEF SingleInv
<1>3. DOMAIN tokens \subseteq Nat
  BY <1>1 DEF TypeOK
<1>4. ASSUME SingleInv', overlaps' = overlaps,
             \A s \in Nat : Active(s)' = Active(s) /\ Rotating(s)' = Rotating(s)
      PROVE  \A s \in DOMAIN tokens \ overlaps' : Live(s)' <= 1 /\ Live(s)' <= Live(s)
  BY <1>2, <1>3, <1>4 DEF SingleInv, Ended
<1>5. ASSUME NEW c \in Call, Moves(c), tab' \in [Tab -> Page], ShownUserIsCurrent'
      PROVE  Holds
  <2>1. TypeInv' /\ FreshInv' /\ CookieIsUsable'
    BY <1>1, <1>5, MovesType, MovesFresh, MovesUsable
  <2>2. SingleInv' /\ \A s \in Nat : Active(s)' = Active(s) /\ Rotating(s)' = Rotating(s)
    BY <1>1, <1>5, MovesSingle
  <2>3. overlaps' = overlaps
    BY <1>5 DEF Moves
  <2> QED
    BY <1>4, <1>5, <2>1, <2>2, <2>3 DEF Inv, TypeInv, CookieInv
<1>6. ASSUME NEW c \in Call, GoesOn(c) PROVE Holds
  <2>1. TypeInv' /\ FreshInv' /\ CookieIsUsable' /\ FoundInv' /\ tab' = tab
    BY <1>1, <1>6, GoesOnType, GoesOnFresh, GoesOnUsable, GoesOnFound DEF Handles
  <2>2. overlaps \subseteq overlaps'
    BY <1>6 DEF GoesOn, Finds, GivesUp, SignsOut, Revokes, Creates
  <2>3. \A s \in Nat \ overlaps' :
           IsSingle(s)' /\ (s \in DOMAIN tokens /\ Ended(s) => Ended(s)')
    BY <1>1, <1>6, GoesOnSingle
  <2>4. ShownUserIsCurrent'
    BY <1>1, <2>1 DEF ShownUserIsCurrent
  <2>5. \A s \in DOMAIN tokens \ overlaps' : Live(s)' <= 1 /\ Live(s)' <= Live(s)
    BY <1>2, <1>3, <2>2, <2>3
  <2> QED
    BY <2>1, <2>3, <2>4, <2>5 DEF Inv, TypeInv, CookieInv, SingleInv
<1>7. CASE \E c \in Call, t \in Tab : Begins(c, t)
  <2>1. PICK c \in Call, t \in Tab : Begins(c, t)
    BY <1>7
  <2>2. Moves(c) /\ tab' \in [Tab -> Page] /\ ShownUserIsCurrent'
    BY <1>1, <2>1, BeginsMoves, PagesShowCurrent
  <2> QED
    BY <1>5, <2>2
<1>8. ASSUME NEW c \in Call, Receive(c) PROVE Holds
  <2>1. Moves(c) /\ tab' \in [Tab -> Page] /\ ShownUserIsCurrent'
    BY <1>1, <1>8, ReceiveMoves, PagesShowCurrent
  <2> QED
    BY <1>5, <2>1
<1>9. ASSUME NEW c \in Call, Serve(c) \/ HandlerFails(c) \/ AnswerIsLost(c) PROVE Holds
  BY <1>1, <1>6, <1>9, ServerGoesOn
<1>10. ASSUME UNCHANGED <<tokens, cookie, call, exchange, mishaps, overlaps>>,
              tab' \in [Tab -> Page], ShownUserIsCurrent'
       PROVE  Holds
  <2>1. TypeOK' /\ CookieInv'
    BY <1>1, <1>10
       DEF TypeOK, TypeInv, CookieInv, CarriesInv, CarriedOK, TakesToken, ReadsCookie,
           FreshInv, Brings, At, Sent, CookieIsUsable
  <2>2. \A s \in Nat : Active(s)' = Active(s) /\ Rotating(s)' = Rotating(s)
    BY <1>10 DEF Active, Rotating, At, SessionOf, Sent
  <2>3. SingleInv'
    BY <1>1, <1>10, <2>2 DEF SingleInv, FoundInv, IsSingle, At, SessionOf, Sent
  <2> QED
    BY <1>4, <1>10, <2>1, <2>2, <2>3 DEF Inv
<1>11. CASE \E t \in Tab : AccessExpires(t)
  <2>1. tab' \in [Tab -> Page] /\ ShownUserIsCurrent'
    <3>1. PICK t \in Tab : tab' = [tab EXCEPT ![t].access = None]
      BY <1>11 DEF AccessExpires
    <3> QED
      BY <1>1, <1>11, <3>1, PagesShowCurrent DEF TypeOK, Page
  <2> QED
    BY <1>10, <1>11, <2>1 DEF AccessExpires
<1>12. CASE UNCHANGED vars
  <2>1. /\ UNCHANGED <<tokens, cookie, call, exchange, mishaps, overlaps>>
        /\ tab' \in [Tab -> Page] /\ ShownUserIsCurrent'
    BY <1>1, <1>12 DEF vars, TypeOK, ShownUserIsCurrent
  <2> QED
    BY <1>10, <2>1
<1> QED
  BY <1>7, <1>8, <1>9, <1>11, <1>12 DEF Next, Begins

\* The inductive invariant holds in every behaviour.
THEOREM InvHolds == Spec => []Inv
<1>1. Inv /\ [Next]_vars => Inv'
  BY StepInv
<1> QED
  BY InitInv, <1>1, PTL DEF Spec

\* Every request carries the number of a row that exists, and every page, call and
\* answer has its shape, however the pages and the handlers interleave.
THEOREM TypeCorrect == Spec => []TypeOK
<1>1. Inv => TypeOK
  BY DEF Inv
<1> QED
  BY InvHolds, <1>1, PTL

\* The browser is not signed out under the user's feet: if Refresh has taken the
\* token of the cookie away, then the answer that replaces it is under way, unless a
\* query failed or an answer was lost (auth.Service.Refresh, tryRefresh).
THEOREM CookieStaysUsable == Spec => []CookieIsUsable
<1>1. Inv => CookieIsUsable
  BY DEF Inv, CookieInv
<1> QED
  BY InvHolds, <1>1, PTL

\* Refresh and Logout never give a session a second token, and none to a session
\* that has ended, except where two handlers found the same row before either
\* revoked it.
THEOREM SessionsStaySingle == Spec => SessionsDoNotMultiply
<1>1. Inv /\ [Next]_vars =>
        [\A s \in DOMAIN tokens \ overlaps' : Live(s)' <= 1 /\ Live(s)' <= Live(s)]_vars
  BY StepInv
<1> QED
  BY InvHolds, <1>1, PTL DEF Spec, SessionsDoNotMultiply

\* A page shows no user that it learned of before its last login or logout
\* (applyUserForSession compares the generation of the session).
THEOREM ShownUserStaysCurrent == Spec => []ShownUserIsCurrent
<1>1. Inv => ShownUserIsCurrent
  BY DEF Inv
<1> QED
  BY InvHolds, <1>1, PTL
==============================================================================
