------------------------------ MODULE FlagProofs ------------------------------
(***************************************************************************)
(* Proofs about FlagAdmin and FlagEvaluation, for any flags, environments, *)
(* requests, inputs and contexts, whatever conditions come to: the type    *)
(* invariant, that no answer has a value of another type than its flag's,  *)
(* that requests about different parts of a flag do not disturb each other,*)
(* when the rules of an environment stay those of one request, that        *)
(* prerequisites are held, and that both copies of the evaluation agree.   *)
(***************************************************************************)
EXTENDS FlagEvaluation, FiniteSetTheorems, SequenceTheorems, TLAPS

-----------------------------------------------------------------------------
(* Induction.  The induction theorems of the library have a parameter that *)
(* is an operator; these ones speak of sets instead.                       *)

\* A set of naturals that holds 0 and with each number the next holds them all:
\* were n missing, adding one would map its members up to n injectively to
\* themselves and yet miss 0.
LEMMA AllNaturals ==
    ASSUME NEW S \in SUBSET Nat, 0 \in S, \A n \in S : n + 1 \in S
    PROVE  \A n \in Nat : n \in S
<1> SUFFICES ASSUME NEW n \in Nat, n \notin S PROVE FALSE
  OBVIOUS
<1> DEFINE low == S \cap 0 .. n   next1 == [m \in low |-> m + 1]
<1>1. IsFiniteSet(low)
  <2>1. IsFiniteSet(0 .. n)
    BY FS_Interval
  <2> QED
    BY <2>1, FS_Subset, low \in SUBSET (0 .. n)
<1>2. next1 \in [low -> low]
  OBVIOUS
<1>3. next1 \in Injection(low, low)
  BY <1>2 DEF Injection, IsInjective
<1>4. next1 \in Surjection(low, low)
  <2> HIDE DEF next1, low
  <2> QED
    BY <1>1, <1>3, FS_Injection
<1>5. 0 \in low
  OBVIOUS
<1>6. \E m \in low : next1[m] = 0
  <2> HIDE DEF next1, low
  <2> QED
    BY <1>4, <1>5 DEF Surjection
<1> QED
  BY <1>6

\* A set of naturals has a least member, and Min finds it.
LEMMA LeastNatural ==
    ASSUME NEW T \in SUBSET Nat, T # {}
    PROVE  Min(T) \in T /\ \A m \in T : Min(T) <= m
<1>1. \E n \in T : \A m \in T : n <= m
  <2> SUFFICES ASSUME \A n \in T : \E m \in T : m < n PROVE FALSE
    OBVIOUS
  <2> DEFINE S == {n \in Nat : \A m \in T : n <= m}
  <2>1. 0 \in S /\ \A n \in S : n + 1 \in S
    OBVIOUS
  <2>2. \A n \in Nat : n \in S
    <3> HIDE DEF S
    <3>1. S \in SUBSET Nat
      BY DEF S
    <3> QED
      BY <2>1, <3>1, AllNaturals
  <2>3. PICK t \in T : TRUE
    OBVIOUS
  <2>4. t + 1 \in S
    BY <2>2
  <2> QED
    BY <2>4
<1> QED
  BY <1>1 DEF Min

-----------------------------------------------------------------------------
(* Evaluation.                                                             *)

\* What resolveLoadedFlag does in one call, given what it answers in others.
Resolves(flags, x, resolve, call) ==
    LET f == flags[call[1]]  visited == call[2]
    IN  IF f.prereq = None THEN Evaluate(f, x)
        ELSE IF \/ f.prereq \in visited
                \/ Cardinality(visited) >= MaxPrerequisiteDepth
                \/ f.prereq \notin DOMAIN flags
        THEN DefaultResult(f, "PREREQUISITE_FAILED")
        ELSE AfterPrerequisite(
               f, resolve[<<f.prereq, visited \cup {f.prereq}>>], x)

Calls(flags) == (DOMAIN flags) \X SUBSET FlagKey

\* The depth bounds the recursion, so that it has a solution: one that is right for
\* calls in which at most n flags may still be visited gives one for n + 1.
LEMMA ResolvingEquation ==
    ASSUME NEW flags, DOMAIN flags \subseteq FlagKey, NEW x
    PROVE  /\ DOMAIN Resolving(flags, x) = Calls(flags)
           /\ \A call \in Calls(flags) :
                 Resolving(flags, x)[call] = Resolves(flags, x, Resolving(flags, x), call)
<1> DEFINE Right(g, n) ==
      \A call \in Calls(flags) : Cardinality(call[2]) + n >= MaxPrerequisiteDepth =>
         g[call] = Resolves(flags, x, g, call)
    Once(g) == [call \in Calls(flags) |-> Resolves(flags, x, g, call)]
    S == {n \in Nat : \E g : Right(g, n) /\ g = [call \in Calls(flags) |-> g[call]]}
<1>1. MaxPrerequisiteDepth \in Nat /\ IsFiniteSet(FlagKey)
  BY BoundAssumption
<1>2. \A call \in Calls(flags) : Cardinality(call[2]) \in Nat /\ IsFiniteSet(call[2])
  BY <1>1, FS_Subset, FS_CardinalityType DEF Calls
<1>3. ASSUME NEW g, NEW n \in Nat, NEW call \in Calls(flags),
             n = 0 \/ Right(g, n - 1), Cardinality(call[2]) + n >= MaxPrerequisiteDepth
      PROVE  Resolves(flags, x, g, call) = Resolves(flags, x, Once(g), call)
  <2> DEFINE k == flags[call[1]].prereq   next1 == <<k, call[2] \cup {k}>>
  <2> SUFFICES ASSUME k # None, k \notin call[2], k \in DOMAIN flags,
                      ~ Cardinality(call[2]) >= MaxPrerequisiteDepth
               PROVE  g[next1] = Once(g)[next1]
    BY DEF Resolves
  <2>1. n # 0
    BY <1>1, <1>2, <1>3
  <2>2. next1 \in Calls(flags) /\ next1[2] = call[2] \cup {k}
    BY DEF Calls
  <2>3. Cardinality(next1[2]) = Cardinality(call[2]) + 1
    BY <1>2, <2>2, FS_AddElement
  <2>4. Cardinality(next1[2]) + (n - 1) >= MaxPrerequisiteDepth
    BY <1>1, <1>2, <1>3, <2>3
  <2> HIDE DEF next1
  <2> QED
    BY <1>3, <2>1, <2>2, <2>4
<1>4. ASSUME NEW g, NEW n \in Nat, n = 0 \/ Right(g, n - 1)
      PROVE  Right(Once(g), n) /\ n \in S
  <2>1. Right(Once(g), n)
    BY <1>3, <1>4
  <2> HIDE DEF Right
  <2> QED
    BY <2>1
<1>5. S \in SUBSET Nat /\ 0 \in S
  BY <1>4
<1>6. ASSUME NEW n \in S PROVE n + 1 \in S
  <2>1. PICK g : Right(g, n)
    OBVIOUS
  <2>2. n + 1 \in Nat /\ Right(g, (n + 1) - 1)
    BY <2>1
  <2> HIDE DEF Right, S
  <2> QED
    BY <1>4, <2>2
<1>7. MaxPrerequisiteDepth \in S
  <2> HIDE DEF S
  <2> QED
    BY <1>1, <1>5, <1>6, AllNaturals
<1>8. PICK g : Right(g, MaxPrerequisiteDepth) /\ g = [call \in Calls(flags) |-> g[call]]
  BY <1>7
<1>9. g = [call \in Calls(flags) |-> Resolves(flags, x, g, call)]
  BY <1>1, <1>2, <1>8
<1> DEFINE Solves(h) == h = [call \in (DOMAIN flags) \X SUBSET FlagKey |->
      LET f == flags[call[1]]  visited == call[2]
      IN  IF f.prereq = None THEN Evaluate(f, x)
          ELSE IF \/ f.prereq \in visited
                  \/ Cardinality(visited) >= MaxPrerequisiteDepth
                  \/ f.prereq \notin DOMAIN flags
          THEN DefaultResult(f, "PREREQUISITE_FAILED")
          ELSE AfterPrerequisite(
                 f, h[<<f.prereq, visited \cup {f.prereq}>>], x)]
<1>10. Solves(g)
  BY <1>9 DEF Calls, Resolves
<1>11. Resolving(flags, x) = CHOOSE h : Solves(h)
  BY DEF Resolving
<1>12. Solves(Resolving(flags, x))
  <2> HIDE DEF Solves
  <2> QED
    BY <1>10, <1>11
<1> QED
  BY <1>12 DEF Calls, Resolves

-----------------------------------------------------------------------------
(* The types of answers.                                                   *)

\* Every variant of the rules has a value of type t.
Typed(rules, t) ==
    \A p \in DOMAIN rules : \A v \in DOMAIN rules[p].variants : rules[p].variants[v] = t

LEMMA DefaultTyped ==
    ASSUME NEW f, NEW t, NEW reason, DOMAIN f.rules \subseteq Priority, Typed(f.rules, t)
    PROVE  DefaultResult(f, reason).type \in {t, None}
<1> DEFINE defaults == {p \in DOMAIN f.rules : f.rules[p].isDefault}
<1>1. defaults # {} => Min(defaults) \in DOMAIN f.rules
  BY LeastNatural, BoundAssumption
<1> QED
  BY <1>1 DEF DefaultResult, Typed, ResultFor, Answer, Failure, NoVariant

LEMMA EvaluateTyped ==
    ASSUME NEW f, NEW t, NEW x, DOMAIN f.rules \subseteq Priority, Typed(f.rules, t)
    PROVE  Evaluate(f, x).type \in {t, None}
<1> DEFINE Outcome(p) == ConditionOutcome(f.rules[p].condition, x)
           deciding == {p \in DOMAIN f.rules : Outcome(p) # "no"}
<1>1. deciding # {} => Min(deciding) \in DOMAIN f.rules
  BY LeastNatural, BoundAssumption
<1>2. DefaultResult(f, "DISABLED").type \in {t, None}
  BY DefaultTyped
<1>3. ASSUME NEW p \in DOMAIN f.rules PROVE ResolveStrategyMatch(f.rules[p], x).type \in {t, None}
  BY DEF ResolveStrategyMatch, Typed, ResultFor, Answer, Failure, NoVariant
<1>4. NoVariant("NO_MATCH").type = None /\ Failure.type = None
  BY DEF Failure, NoVariant, Answer
<1> QED
  BY <1>1, <1>2, <1>3, <1>4 DEF Evaluate

LEMMA EvaluateLoadedTyped ==
    ASSUME NEW flags, DOMAIN flags \subseteq FlagKey, NEW k \in DOMAIN flags, NEW t, NEW x,
           DOMAIN flags[k].rules \subseteq Priority, Typed(flags[k].rules, t)
    PROVE  EvaluateLoaded(flags, k, x).type \in {t, None}
<1> DEFINE call == <<k, {k}>>
<1>1. call \in Calls(flags) /\ call[1] = k
  BY DEF Calls
<1>2. Resolving(flags, x)[call] = Resolves(flags, x, Resolving(flags, x), call)
  BY <1>1, ResolvingEquation
<1>3. /\ Evaluate(flags[k], x).type \in {t, None}
      /\ DefaultResult(flags[k], "PREREQUISITE_FAILED").type \in {t, None}
  BY EvaluateTyped, DefaultTyped
<1>4. \A q : AfterPrerequisite(flags[k], q, x).type \in {t, None}
  BY <1>3 DEF AfterPrerequisite
<1>5. Resolves(flags, x, Resolving(flags, x), call).type \in {t, None}
  <2> HIDE DEF call
  <2> QED
    BY <1>1, <1>3, <1>4 DEF Resolves
<1> QED
  BY <1>2, <1>5 DEF EvaluateLoaded, ResolveLoaded

-----------------------------------------------------------------------------
(* The invariant of FlagAdmin.                                             *)

\* A strategy as it is stored, the rules of an environment, and a flag.
Row ==
    [condition : Condition \cup {Absent, Null}, isDefault : BOOLEAN,
     defaultVariant : Variant, rollout : Seq(Share),
     variants : UNION {[V -> FlagType] : V \in SUBSET Variant},
     save : Nat, bucket : Buckets]
RuleSet == UNION {[P -> Row] : P \in SUBSET Priority}
Flag ==
    [id : Nat, type : FlagType, archived : BOOLEAN, prereq : FlagKey \cup {None},
     prereqVariant : Variant \cup {None}, enabled : [Environment -> BOOLEAN \cup {None}],
     rules : [Environment -> RuleSet]]

\* A flag was made, and each of its rules saved, by one of the first n transactions,
\* and its rules have variants of its type.
FlagOK(f, n) ==
    /\ f \in Flag /\ f.id \in 1 .. n
    /\ \A e \in Environment :
          /\ Typed(f.rules[e], f.type)
          /\ \A p \in DOMAIN f.rules[e] : f.rules[e][p].save \in 1 .. n

FlagInv ==
    /\ changes \in 0 .. MaxChanges
    /\ DOMAIN flag = FlagKey
    /\ \A k \in FlagKey : flag[k] # None => FlagOK(flag[k], changes)

\* The strategies of a request fit the flag that it is about, for as long as that
\* stands; a later flag of the same key has an id that no request carries yet.
RequestOK(r) ==
    /\ pc[r] = "idle" => request[r] = None
    /\ pc[r] \in {"created", "createTx", "configuring"} => request[r] \in Making
    /\ pc[r] \in {"updating", "updateTx"} => request[r] \in Changing
    /\ pc[r] # "idle" =>
          /\ request[r].id <= changes
          /\ Stands(r) /\ request[r].input.strategies # Keep =>
                Validates(flag[request[r].key].type, request[r].input.strategies)

RequestInv ==
    /\ pc \in [Request -> {"idle", "created", "createTx", "configuring",
                           "updating", "updateTx"}]
    /\ DOMAIN request = Request
    /\ \A r \in Request : RequestOK(r)

AdminInv == FlagInv /\ RequestInv

LEMMA DraftOf ==
    ASSUME NEW drafts \in Drafts, NEW i \in DOMAIN drafts
    PROVE  drafts[i].order \in Priority /\ drafts[i].strategy \in Strategy
<1> DEFINE One == [order : Priority, strategy : Strategy]
<1>1. drafts[i] \in One
  <2> HIDE DEF One
  <2>1. drafts \in Seq(One)
    BY DEF Drafts, One
  <2> QED
    BY <2>1, ElementOfSeq
<1> QED
  BY <1>1

\* Rules that were seen give way to those of the drafts, and the others stay.
Written(new, rules, seen, drafts, save, bucket) ==
    /\ DOMAIN new = Survivors(rules, seen) \cup Orders(drafts)
    /\ \A p \in Survivors(rules, seen) : p \in DOMAIN rules /\ new[p] = rules[p]
    /\ \A p \in Orders(drafts) \ Survivors(rules, seen) :
          \E i \in DOMAIN drafts : new[p] = NewRow(drafts[i].strategy, save, bucket[p])

LEMMA ReplacedRules ==
    ASSUME NEW rules \in RuleSet, NEW seen, NEW drafts \in Drafts, NEW save \in Nat,
           NEW bucket \in [Orders(drafts) -> Buckets],
           NEW new, new = Replaced(rules, seen, drafts, save, bucket)
    PROVE  new \in RuleSet /\ Written(new, rules, seen, drafts, save, bucket)
<1> DEFINE survivors == Survivors(rules, seen)
<1>1. /\ DOMAIN rules \in SUBSET Priority /\ survivors \subseteq DOMAIN rules
      /\ \A p \in DOMAIN rules : rules[p] \in Row
  BY DEF RuleSet, Survivors
<1>2. Orders(drafts) \subseteq Priority
  BY DraftOf DEF Orders
<1>3. DOMAIN new = survivors \cup Orders(drafts)
  BY DEF Replaced
<1>4. ASSUME NEW p \in survivors PROVE p \in DOMAIN rules /\ new[p] = rules[p]
  BY <1>1, <1>4 DEF Replaced
<1>5. ASSUME NEW p \in Orders(drafts), p \notin survivors
      PROVE  \E i \in DOMAIN drafts : new[p] = NewRow(drafts[i].strategy, save, bucket[p])
  <2> DEFINE i == CHOOSE j \in DOMAIN drafts : drafts[j].order = p
  <2>1. i \in DOMAIN drafts
    BY DEF Orders
  <2>2. new[p] = NewRow(drafts[i].strategy, save, bucket[p])
    BY <1>5 DEF Replaced
  <2> HIDE DEF i
  <2> QED
    BY <2>1, <2>2
<1>6. ASSUME NEW i \in DOMAIN drafts, NEW p \in Orders(drafts)
      PROVE  NewRow(drafts[i].strategy, save, bucket[p]) \in Row
  <2>1. drafts[i].strategy \in Strategy /\ bucket[p] \in Buckets
    BY DraftOf
  <2> QED
    BY <2>1 DEF NewRow, Row, Strategy
<1>7. \A p \in DOMAIN new : new[p] \in Row
  <2> HIDE DEF survivors
  <2> QED
    BY <1>1, <1>3, <1>4, <1>5, <1>6
<1>8. new = [p \in DOMAIN new |-> new[p]]
  BY DEF Replaced
<1>9. new \in RuleSet
  <2>1. DOMAIN new \in SUBSET Priority
    BY <1>1, <1>2, <1>3
  <2> QED
    BY <1>7, <1>8, <2>1 DEF RuleSet
<1> HIDE DEF survivors
<1> QED
  BY <1>3, <1>4, <1>5, <1>9 DEF Written, survivors

\* A transaction makes flag k what f is: gone, new, or with the id and the type it had.
Writes(k, f) ==
    /\ changes < MaxChanges /\ changes' = changes + 1
    /\ flag' = [flag EXCEPT ![k] = f]
    /\ \/ f = None
       \/ /\ FlagOK(f, changes + 1)
          /\ \/ f.id = changes + 1
             \/ flag[k] # None /\ f.id = flag[k].id /\ f.type = flag[k].type

LEMMA WriteHolds ==
    ASSUME AdminInv, NEW k \in FlagKey, NEW f, Writes(k, f)
    PROVE  /\ FlagInv'
           /\ \A q \in Request :
                 pc'[q] = pc[q] /\ request'[q] = request[q] => RequestOK(q)'
<1>1. changes \in Nat /\ changes' \in 0 .. MaxChanges /\ DOMAIN flag' = FlagKey
  BY ChangesAssumption DEF AdminInv, FlagInv, Writes
<1>2. flag'[k] = f /\ \A j \in FlagKey \ {k} : flag'[j] = flag[j]
  BY DEF AdminInv, FlagInv, Writes
<1>3. ASSUME NEW j \in FlagKey, flag'[j] # None PROVE FlagOK(flag'[j], changes')
  <2>1. CASE j = k
    BY <1>2, <1>3, <2>1 DEF Writes
  <2>2. CASE j # k
    <3>1. FlagOK(flag[j], changes)
      BY <1>2, <1>3, <2>2 DEF AdminInv, FlagInv
    <3> QED
      BY <1>1, <1>2, <2>2, <3>1 DEF FlagOK, Writes
  <2> QED
    BY <2>1, <2>2
<1>4. ASSUME NEW q \in Request, pc'[q] = pc[q], request'[q] = request[q]
      PROVE  RequestOK(q)'
  <2>1. RequestOK(q)
    BY DEF AdminInv, RequestInv
  <2>2. CASE pc[q] = "idle"
    BY <1>4, <2>1, <2>2 DEF RequestOK
  <2>3. CASE pc[q] # "idle"
    <3>1. request[q] \in Making \cup Changing
      BY <2>1, <2>3 DEF RequestOK, AdminInv, RequestInv
    <3>2. request[q].key \in FlagKey /\ request[q].id \in Nat
      BY <3>1 DEF Making, Changing
    <3>3. request[q].id <= changes /\ request'[q].id <= changes'
      BY <1>1, <1>4, <2>1, <2>3, <3>2 DEF RequestOK, Writes
    <3>4. Stands(q)' => Stands(q) /\ flag'[request[q].key].type = flag[request[q].key].type
      BY <1>1, <1>2, <1>4, <3>2, <3>3 DEF Stands, Writes
    <3> QED
      BY <1>4, <2>1, <2>3, <3>3, <3>4 DEF RequestOK
  <2> QED
    BY <2>2, <2>3
<1> QED
  BY <1>1, <1>3, <1>4 DEF FlagInv

LEMMA StartHolds ==
    ASSUME AdminInv, NEW r \in Request, NEW where, NEW what, Start(r, where, what),
           where \in {"idle", "created", "createTx", "configuring", "updating", "updateTx"},
           RequestOK(r)',
           \A q \in Request : pc'[q] = pc[q] /\ request'[q] = request[q] => RequestOK(q)'
    PROVE  RequestInv'
<1>1. /\ pc' \in [Request -> {"idle", "created", "createTx", "configuring",
                              "updating", "updateTx"}]
      /\ DOMAIN request' = Request
      /\ \A q \in Request \ {r} : pc'[q] = pc[q] /\ request'[q] = request[q]
  BY DEF Start, AdminInv, RequestInv
<1> QED
  BY <1>1 DEF RequestInv

\* What Start leaves of its own slot.
LEMMA Started ==
    ASSUME AdminInv, NEW r \in Request, NEW where, NEW what, Start(r, where, what)
    PROVE  pc'[r] = where /\ request'[r] = what
  BY DEF Start, AdminInv, RequestInv

LEMMA FinishHolds ==
    ASSUME AdminInv, NEW r \in Request, Finish(r),
           \A q \in Request : pc'[q] = pc[q] /\ request'[q] = request[q] => RequestOK(q)'
    PROVE  RequestInv'
<1>1. Start(r, "idle", None)
  BY DEF Finish
<1>2. pc'[r] = "idle" /\ request'[r] = None
  BY <1>1, Started
<1>3. RequestOK(r)'
  BY <1>2 DEF RequestOK
<1> QED
  BY <1>1, <1>3, StartHolds

\* A step that leaves the flags alone keeps what is known of other requests.
LEMMA Unwritten ==
    ASSUME AdminInv, UNCHANGED <<flag, changes>>
    PROVE  /\ FlagInv'
           /\ \A q \in Request :
                 pc'[q] = pc[q] /\ request'[q] = request[q] => RequestOK(q)'
  BY DEF AdminInv, FlagInv, RequestInv, RequestOK, Stands

\* The rules of an environment, replaced by a request whose strategies fit the flag.
LEMMA SetRulesHolds ==
    ASSUME NEW f, NEW n \in Nat, n = changes, FlagOK(f, n), NEW r, request[r].env \in Environment,
           request[r].input.strategies \in Drafts,
           Validates(f.type, request[r].input.strategies),
           NEW bucket \in [Orders(request[r].input.strategies) -> Buckets]
    PROVE  LET g == SetRules(f, r, bucket)
           IN  FlagOK(g, n + 1) /\ g.id = f.id /\ g.type = f.type
<1> DEFINE e == request[r].env   drafts == request[r].input.strategies
           seen == request[r].seen
           new == Replaced(f.rules[e], seen, drafts, n + 1, bucket)
           g == [f EXCEPT !.rules[e] = new]
<1>1. SetRules(f, r, bucket) = g
  BY DEF SetRules
<1>2. f \in Flag /\ f.rules \in [Environment -> RuleSet] /\ f.rules[e] \in RuleSet
  BY DEF FlagOK, Flag
<1>3. new \in RuleSet /\ Written(new, f.rules[e], seen, drafts, n + 1, bucket)
  <2>1. n + 1 \in Nat /\ drafts \in Drafts /\ bucket \in [Orders(drafts) -> Buckets]
    OBVIOUS
  <2> HIDE DEF e, drafts, seen, g
  <2> QED
    BY <1>2, <2>1, ReplacedRules
<1>4. ASSUME NEW p \in DOMAIN new
      PROVE  /\ new[p].save \in 1 .. n + 1
             /\ \A v \in DOMAIN new[p].variants : new[p].variants[v] = f.type
  <2> HIDE DEF new
  <2>1. CASE p \in Survivors(f.rules[e], seen)
    BY <1>3, <2>1 DEF FlagOK, Typed, Written
  <2>2. CASE p \notin Survivors(f.rules[e], seen)
    <3>1. PICK i \in DOMAIN drafts : new[p] = NewRow(drafts[i].strategy, n + 1, bucket[p])
      BY <1>3, <2>2 DEF Written
    <3>2. new[p].save = n + 1 /\ new[p].variants = drafts[i].strategy.variants
      BY <3>1 DEF NewRow
    <3>3. \A v \in DOMAIN drafts[i].strategy.variants : drafts[i].strategy.variants[v] = f.type
      BY DEF Validates
    <3> QED
      BY <3>2, <3>3
  <2> QED
    BY <2>1, <2>2
<1> HIDE DEF new
<1>5. g \in Flag /\ g.rules[e] = new /\ g.id = f.id /\ g.type = f.type
      /\ \A d \in Environment \ {e} : g.rules[d] = f.rules[d]
  BY <1>2, <1>3 DEF Flag
<1>6. FlagOK(g, n + 1)
  <2> HIDE DEF g
  <2>1. ASSUME NEW d \in Environment
        PROVE  /\ Typed(g.rules[d], g.type)
               /\ \A p \in DOMAIN g.rules[d] : g.rules[d][p].save \in 1 .. n + 1
    BY <1>4, <1>5, d = e \/ d # e DEF FlagOK, Typed
  <2> QED
    BY <1>5, <2>1 DEF FlagOK
<1> HIDE DEF g
<1> QED
  BY <1>1, <1>5, <1>6

LEMMA EmptyRules == <<>> \in RuleSet /\ DOMAIN <<>> = {}
  <1>1. <<>> \in [{} -> Row]
    OBVIOUS
  <1> QED
    BY <1>1 DEF RuleSet

LEMMA InsertHolds ==
    ASSUME AdminInv, NEW r \in Request, NEW k \in FlagKey, NEW e \in Environment,
           NEW input \in Creation, InsertFlag(r, k, e, input)
    PROVE  AdminInv'
<1> DEFINE f == [id |-> changes + 1, type |-> input.type, archived |-> FALSE,
                 prereq |-> input.prereq, prereqVariant |-> input.prereqVariant,
                 enabled |-> [d \in Environment |-> None],
                 rules |-> [d \in Environment |-> <<>>]]
           what == [key |-> k, env |-> e, id |-> changes + 1, input |-> input, seen |-> {}]
<1>1. /\ changes \in Nat /\ changes < MaxChanges /\ changes' = changes + 1
      /\ flag' = [flag EXCEPT ![k] = f] /\ Start(r, "created", what)
      /\ Validates(input.type, input.strategies)
  BY DEF InsertFlag, AdminInv, FlagInv
<1>2. input.type \in FlagType /\ input.prereq \in FlagKey \cup {None}
      /\ input.prereqVariant \in Variant \cup {None}
  BY InputAssumption
<1>3. f \in Flag
  BY <1>1, <1>2, EmptyRules DEF Flag
<1>4. FlagOK(f, changes + 1)
  BY <1>1, <1>3, EmptyRules DEF FlagOK, Typed
<1>5. f.id = changes + 1 /\ f.type = input.type
  OBVIOUS
<1>6. what \in Making /\ what.key = k /\ what.id = changes + 1 /\ what.input = input
  BY <1>1 DEF Making
<1> HIDE DEF f, what
<1>7. Writes(k, f)
  BY <1>1, <1>4, <1>5 DEF Writes
<1>8. flag'[k] = f
  BY <1>1 DEF AdminInv, FlagInv
<1>9. pc'[r] = "created" /\ request'[r] = what
  BY <1>1, Started
<1>10. RequestOK(r)'
  BY <1>1, <1>5, <1>6, <1>8, <1>9 DEF RequestOK
<1> QED
  BY <1>1, <1>7, <1>10, WriteHolds, StartHolds DEF AdminInv

LEMMA DeletesHold ==
    ASSUME AdminInv, NEW r \in Request, BeginCreateRules(r) \/ BeginUpdate(r)
    PROVE  AdminInv'
<1> DEFINE what == [request[r] EXCEPT !.seen = Seen(r)]
<1>1. PICK from \in {"created", "updating"}, to \in {"createTx", "updateTx"} :
          /\ pc[r] = from /\ (from = "created" <=> to = "createTx")
          /\ Stands(r) /\ Start(r, to, what) /\ UNCHANGED <<flag, changes>>
  BY DEF BeginCreateRules, BeginUpdate, DeleteOldRules
<1>2. RequestOK(r) /\ request[r] \in Making \cup Changing
  BY <1>1 DEF AdminInv, RequestInv, RequestOK
<1>3. request[r].key \in FlagKey /\ request[r].env \in Environment
  BY <1>2 DEF Making, Changing
<1>4. FlagOK(flag[request[r].key], changes)
  BY <1>1, <1>3 DEF Stands, AdminInv, FlagInv
<1>5. Seen(r) \in SUBSET Nat
  <2>1. \A p \in DOMAIN flag[request[r].key].rules[request[r].env] :
           flag[request[r].key].rules[request[r].env][p].save \in 1 .. changes
    BY <1>3, <1>4 DEF FlagOK
  <2> QED
    BY <2>1 DEF Seen, Saves
<1>6. /\ request[r] \in Making => what \in Making
      /\ request[r] \in Changing => what \in Changing
      /\ what.key = request[r].key /\ what.id = request[r].id
      /\ what.input = request[r].input
  BY <1>2, <1>5 DEF Making, Changing
<1> HIDE DEF what
<1>7. pc'[r] = to /\ request'[r] = what
  BY <1>1, Started
<1>8. RequestOK(r)'
  BY <1>1, <1>2, <1>6, <1>7 DEF RequestOK, Stands
<1> QED
  BY <1>1, <1>8, Unwritten, StartHolds DEF AdminInv

LEMMA ReadHolds ==
    ASSUME AdminInv, NEW r \in Request, NEW k \in FlagKey, NEW e \in Environment,
           NEW input \in Patch, ReadForUpdate(r, k, e, input)
    PROVE  AdminInv'
<1> DEFINE what ==
      [key |-> k, env |-> e, id |-> flag[k].id, input |-> input, seen |-> {},
       prereq |-> IF input.prereq = Keep THEN flag[k].prereq ELSE input.prereq,
       prereqVariant |-> IF input.prereqVariant = Keep
                         THEN flag[k].prereqVariant ELSE input.prereqVariant]
<1>1. /\ flag[k] # None /\ Start(r, "updating", what) /\ UNCHANGED <<flag, changes>>
      /\ input.strategies # Keep => Validates(flag[k].type, input.strategies)
  BY DEF ReadForUpdate
<1>2. FlagOK(flag[k], changes)
  BY <1>1 DEF AdminInv, FlagInv
<1>3. what \in Changing
  BY <1>2, InputAssumption DEF FlagOK, Flag, Changing
<1>4. what.key = k /\ what.id = flag[k].id /\ what.input = input /\ flag[k].id <= changes
  BY <1>2 DEF FlagOK, Flag
<1> HIDE DEF what
<1>5. pc'[r] = "updating" /\ request'[r] = what
  BY <1>1, Started
<1>6. RequestOK(r)'
  BY <1>1, <1>3, <1>4, <1>5 DEF RequestOK
<1> QED
  BY <1>1, <1>6, Unwritten, StartHolds DEF AdminInv

\* The flag that a request is about, while it stands.
LEMMA StandsOK ==
    ASSUME AdminInv, NEW r \in Request, pc[r] # "idle", Stands(r)
    PROVE  /\ request[r] \in Making \cup Changing
           /\ pc[r] \in {"created", "createTx", "configuring"} => request[r] \in Making
           /\ pc[r] \in {"updating", "updateTx"} => request[r] \in Changing
           /\ request[r].key \in FlagKey /\ request[r].env \in Environment
           /\ flag[request[r].key] # None /\ FlagOK(flag[request[r].key], changes)
           /\ request[r].input.strategies # Keep =>
                 /\ request[r].input.strategies \in Drafts
                 /\ Validates(flag[request[r].key].type, request[r].input.strategies)
<1>1. RequestOK(r) /\ request[r] \in Making \cup Changing
  BY DEF AdminInv, RequestInv, RequestOK
<1>2. request[r].key \in FlagKey /\ request[r].env \in Environment
      /\ request[r].input \in Creation \cup Patch
  BY <1>1 DEF Making, Changing
<1>3. request[r].input.strategies \in Drafts \cup {Keep}
  BY <1>2, InputAssumption
<1> QED
  BY <1>1, <1>2, <1>3 DEF RequestOK, Stands, AdminInv, FlagInv

LEMMA CommitCreateHolds ==
    ASSUME AdminInv, NEW r \in Request, CommitCreateRules(r)
    PROVE  AdminInv'
<1> DEFINE k == request[r].key   drafts == request[r].input.strategies
<1>1. /\ pc[r] = "createTx" /\ changes < MaxChanges /\ changes' = changes + 1 /\ Stands(r)
      /\ Start(r, "configuring", request[r])
  BY DEF CommitCreateRules
<1>2. PICK bucket \in [Orders(drafts) -> Buckets] :
          flag' = [flag EXCEPT ![k] = SetRules(flag[k], r, bucket)]
  BY DEF CommitCreateRules
<1>3. /\ k \in FlagKey /\ request[r].env \in Environment /\ request[r] \in Making
      /\ flag[k] # None /\ FlagOK(flag[k], changes)
  BY <1>1, StandsOK
<1>4. drafts \in Drafts /\ drafts # Keep
  BY <1>3, InputAssumption DEF Making
<1>5. Validates(flag[k].type, drafts)
  BY <1>1, <1>4, StandsOK
<1> DEFINE f == SetRules(flag[k], r, bucket)
<1>6. changes \in Nat
  BY DEF AdminInv, FlagInv
<1>7. FlagOK(f, changes + 1) /\ f.id = flag[k].id /\ f.type = flag[k].type
  BY <1>3, <1>4, <1>5, <1>6, SetRulesHolds
<1> HIDE DEF f
<1>8. Writes(k, f)
  BY <1>1, <1>2, <1>3, <1>7 DEF Writes, f
<1>9. flag'[k] = f
  BY <1>2, <1>3 DEF AdminInv, FlagInv, f
<1>10. pc'[r] = "configuring" /\ request'[r] = request[r]
  BY <1>1, Started
<1>11. request[r].id \in Nat /\ request[r].id <= changes
  BY <1>1, <1>3 DEF Making, AdminInv, RequestInv, RequestOK
<1>12. RequestOK(r)'
  BY <1>1, <1>3, <1>5, <1>6, <1>7, <1>9, <1>10, <1>11 DEF RequestOK
<1> QED
  BY <1>1, <1>3, <1>8, <1>12, WriteHolds, StartHolds DEF AdminInv

\* A commit that ends its request and leaves its flag its id and its type.
LEMMA LastWriteHolds ==
    ASSUME AdminInv, NEW r \in Request, pc[r] # "idle", Stands(r), Finish(r),
           NEW f, FlagOK(f, changes + 1), f.id = flag[request[r].key].id,
           f.type = flag[request[r].key].type, changes < MaxChanges, changes' = changes + 1,
           flag' = [flag EXCEPT ![request[r].key] = f]
    PROVE  AdminInv'
<1>1. request[r].key \in FlagKey /\ flag[request[r].key] # None
  BY StandsOK
<1>2. Writes(request[r].key, f)
  BY <1>1 DEF Writes
<1> QED
  BY <1>1, <1>2, WriteHolds, FinishHolds DEF AdminInv

\* The core of a flag, its switch and its archiving may be anything of their types.
LEMMA FieldsHold ==
    ASSUME NEW n \in Nat, NEW f, FlagOK(f, n), NEW e \in Environment, NEW on \in BOOLEAN,
           NEW p \in FlagKey \cup {None}, NEW v \in Variant \cup {None}
    PROVE  /\ FlagOK(f, n + 1)
           /\ FlagOK([f EXCEPT !.enabled[e] = on], n)
           /\ FlagOK([f EXCEPT !.archived = on], n)
           /\ FlagOK([f EXCEPT !.prereq = p, !.prereqVariant = v], n)
<1>1. f \in Flag
  BY DEF FlagOK
<1>2. /\ [f EXCEPT !.enabled[e] = on] \in Flag
      /\ [f EXCEPT !.archived = on] \in Flag
      /\ [f EXCEPT !.prereq = p, !.prereqVariant = v] \in Flag
  BY <1>1 DEF Flag
<1> QED
  BY <1>1, <1>2 DEF FlagOK, Flag

LEMMA PatchHolds ==
    ASSUME NEW n \in Nat, NEW f, FlagOK(f, n), NEW r, request[r] \in Changing
    PROVE  LET g == SetEnabled(SetCore(f, r), r)
           IN  FlagOK(g, n) /\ g.id = f.id /\ g.type = f.type
<1> DEFINE core == SetCore(f, r)   g == SetEnabled(core, r)
<1>1. /\ request[r].env \in Environment /\ request[r].prereq \in FlagKey \cup {None}
      /\ request[r].prereqVariant \in Variant \cup {None}
      /\ request[r].input.enabled \in BOOLEAN \cup {Keep}
  BY InputAssumption DEF Changing
<1>2. f \in Flag
  BY DEF FlagOK
<1>3. FlagOK(core, n) /\ core.id = f.id /\ core.type = f.type
  BY <1>1, <1>2, FieldsHold DEF SetCore, Flag
<1>4. core \in Flag
  BY <1>3 DEF FlagOK
<1> HIDE DEF core
<1>5. FlagOK(g, n) /\ g.id = core.id /\ g.type = core.type
  <2>1. CASE request[r].input.enabled # Keep
    <3> DEFINE on == Upserted(core.enabled[request[r].env], request[r].input.enabled)
    <3>1. on \in BOOLEAN
      BY <1>1, <2>1 DEF Upserted
    <3>2. g = [core EXCEPT !.enabled[request[r].env] = on]
      BY <2>1, <1>4, <1>1 DEF SetEnabled, Flag
    <3> HIDE DEF on, g
    <3>3. FlagOK(g, n)
      BY <1>1, <1>3, <1>4, <3>1, <3>2, FieldsHold
    <3> QED
      BY <1>4, <3>2, <3>3 DEF Flag
  <2> QED
    BY <1>3, <2>1 DEF SetEnabled
<1> HIDE DEF g
<1> QED
  BY <1>3, <1>5 DEF g, core

LEMMA ConfigureHolds ==
    ASSUME AdminInv, NEW r \in Request, Configure(r)
    PROVE  AdminInv'
<1> DEFINE k == request[r].key
           wanted == request[r].input.enabled
           f == [flag[k] EXCEPT !.enabled[request[r].env] = Upserted(@, wanted)]
<1>1. /\ pc[r] = "configuring" /\ changes < MaxChanges /\ changes' = changes + 1 /\ Stands(r)
      /\ Finish(r)
  BY DEF Configure
<1>2. /\ k \in FlagKey /\ request[r].env \in Environment /\ request[r] \in Making
      /\ FlagOK(flag[k], changes) /\ changes \in Nat
  BY <1>1, StandsOK DEF AdminInv, FlagInv
<1>3. Upserted(flag[k].enabled[request[r].env], wanted) \in BOOLEAN
  BY <1>2, InputAssumption DEF Making, Upserted
<1>4. flag' = [flag EXCEPT ![k] = f]
  BY <1>2 DEF Configure, AdminInv, FlagInv
<1>5. FlagOK(f, changes + 1)
  BY <1>2, <1>3, FieldsHold
<1>6. f.id = flag[k].id /\ f.type = flag[k].type
  BY <1>2 DEF FlagOK, Flag
<1> HIDE DEF f
<1> QED
  BY <1>1, <1>4, <1>5, <1>6, LastWriteHolds

LEMMA CommitUpdateHolds ==
    ASSUME AdminInv, NEW r \in Request, CommitUpdate(r)
    PROVE  AdminInv'
<1> DEFINE k == request[r].key   drafts == request[r].input.strategies
           g == SetEnabled(SetCore(flag[k], r), r)
<1>1. /\ pc[r] = "updateTx" /\ changes < MaxChanges /\ changes' = changes + 1 /\ Stands(r)
      /\ Finish(r)
  BY DEF CommitUpdate
<1>2. /\ k \in FlagKey /\ request[r].env \in Environment /\ request[r] \in Changing
      /\ FlagOK(flag[k], changes) /\ changes \in Nat
  BY <1>1, StandsOK DEF AdminInv, FlagInv
<1>3. FlagOK(g, changes) /\ g.id = flag[k].id /\ g.type = flag[k].type
  BY <1>2, PatchHolds
<1>4. CASE drafts = Keep
  <2>1. flag' = [flag EXCEPT ![k] = g]
    BY <1>4 DEF CommitUpdate
  <2>2. FlagOK(g, changes + 1)
    BY <1>2, <1>3, FieldsHold
  <2> HIDE DEF g
  <2> QED
    BY <1>1, <1>3, <2>1, <2>2, LastWriteHolds
<1>5. CASE drafts # Keep
  <2>1. PICK bucket \in [Orders(drafts) -> Buckets] :
             flag' = [flag EXCEPT ![k] = SetRules(g, r, bucket)]
    BY <1>5 DEF CommitUpdate
  <2>2. drafts \in Drafts /\ Validates(flag[k].type, drafts)
    BY <1>1, <1>5, StandsOK
  <2> DEFINE f == SetRules(g, r, bucket)
  <2> HIDE DEF g
  <2>3. FlagOK(f, changes + 1) /\ f.id = g.id /\ f.type = g.type
    BY <1>2, <1>3, <2>2, SetRulesHolds
  <2> HIDE DEF f
  <2>4. flag' = [flag EXCEPT ![k] = f]
    BY <2>1 DEF f
  <2> QED
    BY <1>1, <1>3, <2>3, <2>4, LastWriteHolds
<1> QED
  BY <1>4, <1>5

LEMMA FailHolds ==
    ASSUME AdminInv, NEW r \in Request, Fail(r)
    PROVE  AdminInv'
  BY Unwritten, FinishHolds DEF Fail, AdminInv

LEMMA SwitchHolds ==
    ASSUME AdminInv, NEW k \in FlagKey,
           DeleteFlag(k) \/ \E archived \in BOOLEAN : SetArchived(k, archived)
    PROVE  AdminInv'
<1>1. flag[k] # None /\ FlagOK(flag[k], changes) /\ changes \in Nat /\ UNCHANGED <<pc, request>>
  BY DEF DeleteFlag, SetArchived, AdminInv, FlagInv
<1>2. PICK f : Writes(k, f)
  <2>1. CASE DeleteFlag(k)
    <3>1. Writes(k, None)
      BY <2>1 DEF DeleteFlag, Writes
    <3> QED
      BY <3>1
  <2>2. ASSUME NEW archived \in BOOLEAN, SetArchived(k, archived) PROVE \E f : Writes(k, f)
    <3> DEFINE f == [flag[k] EXCEPT !.archived = archived]
    <3>1. f.id = flag[k].id /\ f.type = flag[k].type
      BY <1>1 DEF FlagOK, Flag
    <3>2. FlagOK(f, changes)
      <4>1. flag[k] \in Flag /\ f \in Flag /\ f.rules = flag[k].rules
        BY <1>1 DEF FlagOK, Flag
      <4> HIDE DEF f
      <4> QED
        BY <1>1, <3>1, <4>1 DEF FlagOK
    <3>3. FlagOK(f, changes + 1)
      <4> HIDE DEF f
      <4> QED
        BY <1>1, <3>2 DEF FlagOK
    <3>4. flag' = [flag EXCEPT ![k] = f] /\ changes' = changes + 1 /\ changes < MaxChanges
      BY <1>1, <2>2 DEF SetArchived, AdminInv, FlagInv
    <3> HIDE DEF f
    <3> QED
      BY <1>1, <3>1, <3>3, <3>4 DEF Writes
  <2> QED
    BY <2>1, <2>2
<1> QED
  BY <1>1, <1>2, WriteHolds DEF AdminInv, RequestInv

LEMMA AdminStepHolds == AdminInv /\ (Administer \/ UNCHANGED vars) => AdminInv'
<1> SUFFICES ASSUME AdminInv, Administer \/ UNCHANGED vars PROVE AdminInv'
  OBVIOUS
<1>1. CASE Administer
  BY <1>1, InsertHolds, ReadHolds, DeletesHold, CommitCreateHolds, ConfigureHolds,
     CommitUpdateHolds, FailHolds, SwitchHolds DEF Administer
<1>2. CASE UNCHANGED vars
  BY <1>2 DEF vars, AdminInv, FlagInv, RequestInv, RequestOK, Stands
<1> QED
  BY <1>1, <1>2

LEMMA AdminInit == Init => AdminInv
  BY ChangesAssumption DEF Init, AdminInv, FlagInv, RequestInv, RequestOK

THEOREM AdminInvHolds == Spec => []AdminInv
  BY AdminInit, AdminStepHolds, PTL DEF Spec, Next

\* A flag stays what it was made as, its rules are strategies that were saved for it by
\* transactions that have committed, and a slot is idle just as long as it carries
\* nothing, whichever requests overlap, fail and find their flag gone or made again.
THEOREM TypeCorrect == Spec => []TypeOK
<1>1. AdminInv => TypeOK
  <2> SUFFICES ASSUME AdminInv PROVE TypeOK
    OBVIOUS
  <2>1. changes \in 0 .. MaxChanges /\ MaxChanges \in Nat
    BY ChangesAssumption DEF AdminInv, FlagInv
  <2>2. ASSUME NEW k \in FlagKey, flag[k] # None
        PROVE  /\ FlagRow(flag[k])
               /\ \A e \in Environment, p \in Priority :
                     p \in DOMAIN flag[k].rules[e] => IsRow(flag[k].rules[e][p])
    <3>1. FlagOK(flag[k], changes) /\ flag[k] \in Flag
      BY <2>2 DEF AdminInv, FlagInv, FlagOK
    <3>2. ASSUME NEW e \in Environment
          PROVE  /\ DOMAIN flag[k].rules[e] \subseteq Priority
                 /\ \A p \in DOMAIN flag[k].rules[e] : flag[k].rules[e][p] \in Row
      <4>1. flag[k].rules[e] \in RuleSet
        BY <3>1 DEF Flag
      <4> QED
        BY <4>1 DEF RuleSet
    <3>3. FlagRow(flag[k])
      BY <2>1, <3>1, <3>2 DEF FlagRow, FlagOK, Flag
    <3>4. ASSUME NEW e \in Environment, NEW p \in DOMAIN flag[k].rules[e]
          PROVE  IsRow(flag[k].rules[e][p])
      <4>1. flag[k].rules[e][p] \in Row /\ flag[k].rules[e][p].save \in 1 .. changes
        BY <3>1, <3>2 DEF FlagOK
      <4> QED
        BY <4>1 DEF Row, IsRow
    <3> QED
      BY <3>3, <3>4
  <2>3. \A r \in Request : pc[r] = "idle" <=> request[r] = None
    BY NoneAssumption DEF AdminInv, RequestInv, RequestOK
  <2> QED
    BY <2>1, <2>2, <2>3 DEF TypeOK, AdminInv, RequestInv
<1> QED
  BY <1>1, AdminInvHolds, PTL

\* Validate compares strategies with the type of the flag that was read, and they are
\* written after that flag may have been deleted and made again with another type: no
\* answer to any context has a value of another type than the flag has, be it the
\* answer of a strategy, of a rollout, of a default, or of what a prerequisite left.
THEOREM AnswersTyped == Spec => []AnswersAreTyped
<1>1. AdminInv => AnswersAreTyped
  <2> SUFFICES ASSUME AdminInv, NEW e \in Environment, NEW x \in Context,
                      NEW k \in DOMAIN Loaded(e)
               PROVE  EvaluateLoaded(Loaded(e), k, x).type \in {flag[k].type, None}
    BY DEF AnswersAreTyped
  <2>1. DOMAIN Loaded(e) \subseteq FlagKey /\ k \in FlagKey /\ flag[k] # None
        /\ Loaded(e)[k].rules = flag[k].rules[e]
    BY DEF Loaded, Load
  <2>2. FlagOK(flag[k], changes)
    BY <2>1 DEF AdminInv, FlagInv
  <2>3. flag[k].rules[e] \in RuleSet /\ Typed(flag[k].rules[e], flag[k].type)
    BY <2>2 DEF FlagOK, Flag
  <2>4. DOMAIN flag[k].rules[e] \subseteq Priority
    BY <2>3 DEF RuleSet
  <2> QED
    BY <2>1, <2>3, <2>4, EvaluateLoadedTyped
<1> QED
  BY <1>1, AdminInvHolds, PTL

-----------------------------------------------------------------------------
(* What a step changes of a flag.                                          *)

\* Request r makes g of the flag f that it is about: what it carries nothing for stays.
WritesItsPart(r, f, g) ==
    /\ \A e \in Environment :
          /\ g.rules[e] # f.rules[e] =>
                request[r].env = e /\ request[r].input.strategies # Keep
          /\ g.enabled[e] # f.enabled[e] =>
                request[r].env = e /\ request[r].input.enabled # Keep
    /\ g.prereq # f.prereq \/ g.prereqVariant # f.prereqVariant =>
          CoreChanged(request[r].input)
    /\ g.archived = f.archived

LEMMA SetRulesWrites ==
    ASSUME NEW f \in Flag, NEW g \in Flag, NEW r, request[r].env \in Environment, NEW bucket,
           request[r].input.strategies # Keep, WritesItsPart(r, f, g)
    PROVE  WritesItsPart(r, f, SetRules(g, r, bucket))
<1> DEFINE new == Replaced(g.rules[request[r].env], request[r].seen,
                           request[r].input.strategies, changes + 1, bucket)
           h == [g EXCEPT !.rules[request[r].env] = new]
<1>1. SetRules(g, r, bucket) = h
  BY DEF SetRules
<1>2. /\ h.enabled = g.enabled /\ h.archived = g.archived /\ h.prereq = g.prereq
      /\ h.prereqVariant = g.prereqVariant
      /\ \A e \in Environment \ {request[r].env} : h.rules[e] = g.rules[e]
  <2> HIDE DEF new
  <2> QED
    BY DEF Flag
<1> HIDE DEF h
<1> QED
  BY <1>1, <1>2 DEF WritesItsPart

LEMMA PatchWrites ==
    ASSUME NEW f \in Flag, NEW r, request[r] \in Changing
    PROVE  WritesItsPart(r, f, SetEnabled(SetCore(f, r), r))
<1> DEFINE core == SetCore(f, r)   g == SetEnabled(core, r)
<1>1. request[r].env \in Environment
  BY DEF Changing
<1>2. /\ core.enabled = f.enabled /\ core.archived = f.archived /\ core.rules = f.rules
      /\ core.enabled \in [Environment -> BOOLEAN \cup {None}]
      /\ ~CoreChanged(request[r].input) => core = f
      /\ core = [id |-> f.id, type |-> f.type, archived |-> f.archived, prereq |-> core.prereq,
                 prereqVariant |-> core.prereqVariant, enabled |-> f.enabled, rules |-> f.rules]
  BY DEF SetCore, Flag
<1> HIDE DEF core
<1>3. /\ g.rules = core.rules /\ g.archived = core.archived
      /\ g.prereq = core.prereq /\ g.prereqVariant = core.prereqVariant
      /\ \A e \in Environment \ {request[r].env} : g.enabled[e] = core.enabled[e]
      /\ request[r].input.enabled = Keep => g.enabled = core.enabled
  BY <1>2 DEF SetEnabled
<1> HIDE DEF g
<1> QED
  BY <1>2, <1>3 DEF WritesItsPart, g, core

\* A transaction of a request about rules, switch or core of a flag.
LEMMA CommitWrites ==
    ASSUME AdminInv, NEW r \in Request,
           CommitCreateRules(r) \/ Configure(r) \/ CommitUpdate(r)
    PROVE  /\ Commits(r, request[r].key)
           /\ \A k \in FlagKey : k # request[r].key => flag'[k] = flag[k]
           /\ WritesItsPart(r, flag[request[r].key], flag'[request[r].key])
<1> DEFINE k == request[r].key   f == flag[k]   e == request[r].env
           drafts == request[r].input.strategies
<1>1. /\ Stands(r) /\ pc[r] \in {"createTx", "configuring", "updateTx"} /\ pc'[r] # pc[r]
      /\ pc[r] = "updateTx" <=> CommitUpdate(r)
  <2>1. CASE CommitCreateRules(r)
    <3>1. pc'[r] = "configuring"
      BY <2>1, Started DEF CommitCreateRules
    <3> QED
      BY <2>1, <3>1 DEF CommitCreateRules, CommitUpdate
  <2>2. CASE Configure(r) \/ CommitUpdate(r)
    <3>1. pc'[r] = "idle"
      BY <2>2, Started DEF Configure, CommitUpdate, Finish
    <3> QED
      BY <2>2, <3>1 DEF Configure, CommitUpdate
  <2> QED
    BY <2>1, <2>2
<1>2. Commits(r, k)
  BY <1>1 DEF Commits, Stands
<1>3. /\ k \in FlagKey /\ e \in Environment /\ f \in Flag /\ DOMAIN flag = FlagKey
      /\ pc[r] # "updateTx" => request[r] \in Making
      /\ pc[r] = "updateTx" => request[r] \in Changing
  BY <1>1, StandsOK DEF AdminInv, FlagInv, FlagOK
<1>4. PICK g : flag' = [flag EXCEPT ![k] = g] /\ WritesItsPart(r, f, g)
  <2>1. WritesItsPart(r, f, f)
    BY DEF WritesItsPart
  <2>2. CASE CommitCreateRules(r)
    <3>1. PICK bucket : flag' = [flag EXCEPT ![k] = SetRules(f, r, bucket)]
      BY <2>2 DEF CommitCreateRules
    <3>2. drafts # Keep
      BY <1>1, <1>3, <2>2, InputAssumption DEF Making, CommitCreateRules
    <3>3. WritesItsPart(r, f, SetRules(f, r, bucket))
      BY <1>3, <2>1, <3>2, SetRulesWrites
    <3> QED
      BY <3>1, <3>3
  <2>3. CASE Configure(r)
    <3> DEFINE g == [f EXCEPT !.enabled[e] =
                        Upserted(@, request[r].input.enabled)]
    <3>1. flag' = [flag EXCEPT ![k] = g]
      BY <1>3, <2>3 DEF Configure
    <3>2. request[r].input.enabled # Keep
      BY <1>1, <1>3, <2>3, InputAssumption DEF Making, Configure
    <3>3. /\ g.rules = f.rules /\ g.archived = f.archived /\ g.prereq = f.prereq
          /\ g.prereqVariant = f.prereqVariant
          /\ \A d \in Environment \ {e} : g.enabled[d] = f.enabled[d]
      BY <1>3 DEF Flag
    <3> HIDE DEF g
    <3>4. WritesItsPart(r, f, g)
      BY <3>2, <3>3 DEF WritesItsPart
    <3> QED
      BY <3>1, <3>4
  <2>4. CASE CommitUpdate(r)
    <3> DEFINE g == SetEnabled(SetCore(f, r), r)
    <3>1. request[r] \in Changing /\ FlagOK(f, changes) /\ changes \in Nat
      BY <1>1, <1>3, <2>4, StandsOK DEF AdminInv, FlagInv
    <3>2. WritesItsPart(r, f, g)
      BY <1>3, <3>1, PatchWrites
    <3>3. g \in Flag
      BY <3>1, PatchHolds DEF FlagOK
    <3>4. CASE drafts = Keep
      <4>1. flag' = [flag EXCEPT ![k] = g]
        BY <2>4, <3>4 DEF CommitUpdate
      <4> HIDE DEF g
      <4> QED
        BY <3>2, <4>1
    <3>5. CASE drafts # Keep
      <4>1. PICK bucket : flag' = [flag EXCEPT ![k] = SetRules(g, r, bucket)]
        BY <2>4, <3>5 DEF CommitUpdate
      <4> HIDE DEF g
      <4>2. WritesItsPart(r, f, SetRules(g, r, bucket))
        BY <1>3, <3>2, <3>3, <3>5, SetRulesWrites
      <4> QED
        BY <4>1, <4>2
    <3> QED
      BY <3>4, <3>5
  <2> QED
    BY <2>2, <2>3, <2>4
<1> QED
  BY <1>2, <1>3, <1>4

\* Update carries copies of what it read, and of the parts of a flag it writes only those
\* that its input is about: whatever was committed since to another environment, to the
\* switch, to the core or to the archiving of the flag stays.
THEOREM PartsIndependent == Spec => PartsAreIndependent
<1> DEFINE Parts(k) == SameFlag(k) =>
         /\ \A e \in Environment :
              /\ flag'[k].rules[e] # flag[k].rules[e] =>
                    \E r \in Request : /\ Commits(r, k) /\ request[r].env = e
                                       /\ request[r].input.strategies # Keep
              /\ flag'[k].enabled[e] # flag[k].enabled[e] =>
                    \E r \in Request : /\ Commits(r, k) /\ request[r].env = e
                                       /\ request[r].input.enabled # Keep
         /\ \/ flag'[k].prereq # flag[k].prereq
            \/ flag'[k].prereqVariant # flag[k].prereqVariant
            => \E r \in Request : Commits(r, k) /\ CoreChanged(request[r].input)
         /\ flag'[k].archived # flag[k].archived =>
               \A r \in Request : ~Commits(r, k)
<1>1. ASSUME AdminInv, Next, NEW k \in FlagKey, SameFlag(k) PROVE Parts(k)
  <2>1. CASE flag'[k] = flag[k]
    BY <2>1
  <2>2. ASSUME NEW r \in Request, CommitCreateRules(r) \/ Configure(r) \/ CommitUpdate(r)
        PROVE  Parts(k)
    <3>1. /\ Commits(r, request[r].key)
          /\ \A j \in FlagKey : j # request[r].key => flag'[j] = flag[j]
          /\ WritesItsPart(r, flag[request[r].key], flag'[request[r].key])
      BY <1>1, <2>2, CommitWrites
    <3>2. CASE k = request[r].key
      BY <3>1, <3>2 DEF WritesItsPart
    <3> QED
      BY <2>1, <3>1, <3>2
  <2>3. ASSUME NEW j \in FlagKey, NEW archived \in BOOLEAN, SetArchived(j, archived)
        PROVE  Parts(k)
    <3>1. flag[j] \in Flag /\ DOMAIN flag = FlagKey
      BY <1>1, <2>3 DEF SetArchived, AdminInv, FlagInv, FlagOK
    <3>2. flag' = [flag EXCEPT ![j] = [flag[j] EXCEPT !.archived = archived]]
      BY <2>3, <3>1 DEF SetArchived
    <3>3. \A r \in Request : ~Commits(r, k)
      BY <2>3 DEF SetArchived, Commits
    <3>4. CASE j = k
      <4>1. /\ flag'[k].rules = flag[k].rules /\ flag'[k].enabled = flag[k].enabled
            /\ flag'[k].prereq = flag[k].prereq
            /\ flag'[k].prereqVariant = flag[k].prereqVariant
        BY <3>1, <3>2, <3>4 DEF Flag
      <4> QED
        BY <3>3, <4>1
    <3> QED
      BY <2>1, <3>1, <3>2, <3>4
  <2>4. ASSUME NEW r \in Request, NEW j \in FlagKey, NEW e \in Environment,
               \/ \E input \in Creation : InsertFlag(r, j, e, input)
               \/ \E input \in Patch : ReadForUpdate(r, j, e, input)
        PROVE  flag'[k] = flag[k]
    BY <1>1, <2>4 DEF InsertFlag, ReadForUpdate, SameFlag, AdminInv, FlagInv
  <2>5. ASSUME NEW j \in FlagKey, DeleteFlag(j) PROVE flag'[k] = flag[k]
    BY <1>1, <2>5 DEF DeleteFlag, SameFlag, AdminInv, FlagInv
  <2>6. ASSUME NEW r \in Request, BeginCreateRules(r) \/ BeginUpdate(r) \/ Fail(r)
        PROVE  flag'[k] = flag[k]
    BY <2>6 DEF BeginCreateRules, BeginUpdate, DeleteOldRules, Fail
  <2> HIDE DEF Parts
  <2> QED
    BY <1>1, <2>1, <2>2, <2>3, <2>4, <2>5, <2>6 DEF Next, Administer
<1>2. AdminInv /\ [Next]_vars => [\A k \in FlagKey : Parts(k)]_vars
  <2> HIDE DEF Parts
  <2>1. ASSUME NEW k \in FlagKey, ~SameFlag(k) PROVE Parts(k)
    BY <2>1 DEF Parts
  <2> QED
    BY <1>1, <2>1
<1> QED
  BY <1>2, AdminInvHolds, PTL DEF Spec, PartsAreIndependent

-----------------------------------------------------------------------------
(* Whose strategies an environment has.                                    *)

\* Any two lists of strategies that requests carry and that are not empty have an order
\* in common.  Those of the console do, which numbers strategies from 0 on; the API
\* takes any orders.
OrdersMeet ==
    \A a, b \in {input \in Creation \cup Patch : input.strategies \notin {Keep, <<>>}} :
       Orders(a.strategies) \cap Orders(b.strategies) # {}

\* The rules are all that one request saved.
OneSave(rules) ==
    /\ \A p, q \in DOMAIN rules : rules[p].save = rules[q].save
    /\ DOMAIN rules # {} =>
          \E input \in Creation \cup Patch :
             /\ input.strategies \notin {Keep, <<>>}
             /\ DOMAIN rules = Orders(input.strategies)

OneSaveInv ==
    \A k \in FlagKey, e \in Environment : flag[k] # None => OneSave(flag[k].rules[e])

\* What the DELETE did not see is of one request as well, and if there is any the unique
\* index refuses the insert, unless that has nothing to insert.
LEMMA ReplacedFromOne ==
    ASSUME OrdersMeet, NEW rules \in RuleSet, OneSave(rules), NEW seen,
           NEW input \in Creation \cup Patch, input.strategies \in Drafts,
           NEW save \in Nat, NEW bucket \in [Orders(input.strategies) -> Buckets],
           CanReplace(rules, seen, input.strategies)
    PROVE  OneSave(Replaced(rules, seen, input.strategies, save, bucket))
<1> DEFINE drafts == input.strategies   new == Replaced(rules, seen, drafts, save, bucket)
           survivors == Survivors(rules, seen)
<1>1. Written(new, rules, seen, drafts, save, bucket)
  <2> HIDE DEF drafts
  <2> QED
    BY ReplacedRules DEF drafts
<1>2. survivors = {} \/ survivors = DOMAIN rules
  BY DEF Survivors, OneSave
<1>3. drafts # Keep /\ (drafts = <<>> => Orders(drafts) = {})
  <2>1. Keep \notin Drafts
    BY InputAssumption
  <2>2. drafts = <<>> => DOMAIN drafts = {}
    BY EmptyRules
  <2> QED
    BY <2>1, <2>2 DEF Orders
<1>4. drafts # <<>> => Orders(drafts) # {}
  <2>1. ASSUME drafts # <<>> PROVE 1 \in DOMAIN drafts
    <3>1. drafts \in Seq([order : Priority, strategy : Strategy])
      BY DEF Drafts
    <3> QED
      BY <2>1, <3>1
  <2> QED
    BY <2>1 DEF Orders
<1> HIDE DEF new
<1>5. CASE survivors = {}
  <2>1. DOMAIN new = Orders(drafts) /\ \A p \in DOMAIN new : new[p].save = save
    BY <1>1, <1>5 DEF Written, NewRow
  <2> QED
    BY <1>3, <1>4, <2>1 DEF OneSave, new
<1>6. CASE survivors = DOMAIN rules /\ survivors # {}
  <2>1. PICK other \in Creation \cup Patch :
           other.strategies \notin {Keep, <<>>} /\ DOMAIN rules = Orders(other.strategies)
    BY <1>6 DEF OneSave
  <2>2. drafts = <<>>
    BY <1>3, <1>6, <2>1 DEF CanReplace, OrdersMeet
  <2>3. DOMAIN new = DOMAIN rules /\ \A p \in DOMAIN rules : new[p] = rules[p]
    BY <1>1, <1>3, <1>6, <2>2 DEF Written
  <2> QED
    BY <2>3 DEF OneSave, new
<1> QED
  BY <1>2, <1>5, <1>6

LEMMA SetRulesFromOne ==
    ASSUME OrdersMeet, NEW f \in Flag, \A d \in Environment : OneSave(f.rules[d]),
           changes \in Nat, NEW r, request[r] \in Making \cup Changing,
           request[r].input.strategies \in Drafts,
           NEW bucket \in [Orders(request[r].input.strategies) -> Buckets],
           CanReplace(f.rules[request[r].env], request[r].seen, request[r].input.strategies)
    PROVE  \A d \in Environment : OneSave(SetRules(f, r, bucket).rules[d])
<1> DEFINE new == Replaced(f.rules[request[r].env], request[r].seen,
                           request[r].input.strategies, changes + 1, bucket)
           h == [f EXCEPT !.rules[request[r].env] = new]
<1>1. SetRules(f, r, bucket) = h
  BY DEF SetRules
<1>2. request[r].env \in Environment /\ request[r].input \in Creation \cup Patch
  BY DEF Making, Changing
<1>3. f.rules \in [Environment -> RuleSet] /\ f.rules[request[r].env] \in RuleSet
  BY <1>2 DEF Flag
<1>4. OneSave(new)
  BY <1>2, <1>3, changes + 1 \in Nat, ReplacedFromOne
<1> HIDE DEF new
<1>5. /\ h.rules[request[r].env] = new
      /\ \A d \in Environment \ {request[r].env} : h.rules[d] = f.rules[d]
  BY <1>2 DEF Flag
<1> HIDE DEF h
<1> QED
  BY <1>1, <1>4, <1>5

LEMMA PatchKeepsRules ==
    ASSUME NEW f \in Flag, NEW r, request[r] \in Changing
    PROVE  SetEnabled(SetCore(f, r), r).rules = f.rules
<1> DEFINE core == SetCore(f, r)
<1>1. core = [id |-> f.id, type |-> f.type, archived |-> f.archived, prereq |-> core.prereq,
              prereqVariant |-> core.prereqVariant, enabled |-> f.enabled, rules |-> f.rules]
  BY DEF SetCore, Flag
<1> HIDE DEF core
<1>2. SetEnabled(core, r).rules = core.rules
  BY <1>1 DEF SetEnabled
<1> QED
  BY <1>1, <1>2 DEF core

\* What a step leaves of the rules of a flag that it does not delete.
LEMMA CommitKeepsOneSave ==
    ASSUME AdminInv, OneSaveInv, OrdersMeet, NEW r \in Request,
           CommitCreateRules(r) \/ Configure(r) \/ CommitUpdate(r)
    PROVE  OneSaveInv'
<1> DEFINE k == request[r].key   f == flag[k]   e == request[r].env
           drafts == request[r].input.strategies
<1>1. /\ Stands(r) /\ pc[r] # "idle"
      /\ CommitUpdate(r) => pc[r] = "updateTx"
  BY DEF CommitCreateRules, Configure, CommitUpdate
<1>2. /\ k \in FlagKey /\ e \in Environment /\ f \in Flag /\ DOMAIN flag = FlagKey
      /\ flag[k] # None /\ changes \in Nat /\ request[r] \in Making \cup Changing
      /\ pc[r] = "updateTx" => request[r] \in Changing
      /\ drafts \in Drafts \cup {Keep}
  BY <1>1, StandsOK DEF AdminInv, FlagInv, FlagOK
<1>3. PICK g : flag' = [flag EXCEPT ![k] = g] /\ \A d \in Environment : OneSave(g.rules[d])
  <2>1. \A d \in Environment : OneSave(f.rules[d])
    BY <1>2 DEF OneSaveInv
  <2>2. CASE CommitCreateRules(r)
    <3>1. PICK bucket \in [Orders(drafts) -> Buckets] :
               flag' = [flag EXCEPT ![k] = SetRules(f, r, bucket)]
      BY <2>2 DEF CommitCreateRules
    <3>2. CanReplace(f.rules[e], request[r].seen, drafts)
      BY <2>2 DEF CommitCreateRules
    <3>3. drafts \in Drafts
      BY <1>1, <2>2, StandsOK, InputAssumption DEF CommitCreateRules, Making
    <3>4. \A d \in Environment : OneSave(SetRules(f, r, bucket).rules[d])
      BY <1>2, <2>1, <3>2, <3>3, SetRulesFromOne
    <3> QED
      BY <3>1, <3>4
  <2>3. CASE Configure(r)
    <3> DEFINE g == [f EXCEPT !.enabled[e] =
                        Upserted(@, request[r].input.enabled)]
    <3>1. flag' = [flag EXCEPT ![k] = g]
      BY <1>2, <2>3 DEF Configure
    <3>2. g.rules = f.rules
      BY <1>2 DEF Flag
    <3> HIDE DEF g
    <3> QED
      BY <2>1, <3>1, <3>2
  <2>4. CASE CommitUpdate(r)
    <3> DEFINE g == SetEnabled(SetCore(f, r), r)
    <3>1. request[r] \in Changing /\ FlagOK(f, changes)
      BY <1>1, <1>2, <2>4, StandsOK
    <3>2. g \in Flag /\ g.rules = f.rules
      BY <1>2, <3>1, PatchHolds, PatchKeepsRules DEF FlagOK
    <3>3. CASE drafts = Keep
      <4>1. flag' = [flag EXCEPT ![k] = g]
        BY <2>4, <3>3 DEF CommitUpdate
      <4> HIDE DEF g
      <4> QED
        BY <2>1, <3>2, <4>1
    <3>4. CASE drafts # Keep
      <4>1. PICK bucket \in [Orders(drafts) -> Buckets] :
                 flag' = [flag EXCEPT ![k] = SetRules(g, r, bucket)]
        BY <2>4, <3>4 DEF CommitUpdate
      <4>2. CanReplace(f.rules[e], request[r].seen, drafts) /\ drafts \in Drafts
        BY <1>2, <2>4, <3>4 DEF CommitUpdate
      <4> HIDE DEF g
      <4>3. \A d \in Environment : OneSave(SetRules(g, r, bucket).rules[d])
        BY <1>2, <2>1, <3>2, <4>2, SetRulesFromOne
      <4> QED
        BY <4>1, <4>3
    <3> QED
      BY <3>3, <3>4
  <2> QED
    BY <2>2, <2>3, <2>4
<1>4. flag'[k] = g /\ \A j \in FlagKey \ {k} : flag'[j] = flag[j]
  BY <1>2, <1>3
<1> QED
  BY <1>3, <1>4 DEF OneSaveInv

LEMMA OneSaveStepHolds ==
    ASSUME AdminInv, OneSaveInv, OrdersMeet, Administer \/ UNCHANGED vars
    PROVE  OneSaveInv'
<1>1. ASSUME NEW r \in Request, NEW k \in FlagKey, NEW e \in Environment,
             NEW input \in Creation, InsertFlag(r, k, e, input)
      PROVE  OneSaveInv'
  <2>1. DOMAIN flag = FlagKey /\ flag'[k].rules = [d \in Environment |-> <<>>]
        /\ \A j \in FlagKey \ {k} : flag'[j] = flag[j]
    BY <1>1 DEF InsertFlag, AdminInv, FlagInv
  <2>2. OneSave(<<>>)
    BY EmptyRules DEF OneSave
  <2> QED
    BY <2>1, <2>2 DEF OneSaveInv
<1>2. ASSUME NEW k \in FlagKey, NEW archived \in BOOLEAN, SetArchived(k, archived)
      PROVE  OneSaveInv'
  <2>1. flag[k] \in Flag /\ DOMAIN flag = FlagKey
    BY <1>2 DEF SetArchived, AdminInv, FlagInv, FlagOK
  <2>2. flag[k] # None /\ flag'[k].rules = flag[k].rules
        /\ \A j \in FlagKey \ {k} : flag'[j] = flag[j]
    BY <1>2, <2>1 DEF SetArchived, Flag
  <2> QED
    BY <2>2 DEF OneSaveInv
<1>3. ASSUME NEW k \in FlagKey, DeleteFlag(k) PROVE OneSaveInv'
  <2>1. flag'[k] = None /\ \A j \in FlagKey \ {k} : flag'[j] = flag[j]
    BY <1>3 DEF DeleteFlag, AdminInv, FlagInv
  <2> QED
    BY <2>1 DEF OneSaveInv
<1>4. ASSUME flag' = flag PROVE OneSaveInv'
  BY <1>4 DEF OneSaveInv
<1> QED
  BY <1>1, <1>2, <1>3, <1>4, CommitKeepsOneSave
     DEF Administer, vars, ReadForUpdate, BeginCreateRules, BeginUpdate, DeleteOldRules, Fail

\* Two replacements that overlap do not see each other's rows, and only the unique index
\* keeps an environment from having strategies of both: as long as the lists that are
\* saved have an order in common, every environment has the strategies of one request.
THEOREM RulesOfOneSave == ASSUME OrdersMeet PROVE Spec => []RulesComeFromOneSave
<1>1. Init => OneSaveInv
  BY DEF Init, OneSaveInv
<1>2. AdminInv /\ OneSaveInv /\ [Next]_vars => OneSaveInv'
  BY OneSaveStepHolds DEF Next
<1>3. OneSaveInv => RulesComeFromOneSave
  BY DEF OneSaveInv, OneSave, RulesComeFromOneSave
<1> QED
  BY <1>1, <1>2, <1>3, AdminInvHolds, PTL DEF Spec

-----------------------------------------------------------------------------
(* Chains of prerequisites.                                                *)

\* The flags c[1] .. c[n], each the prerequisite of the one before, and the last has none.
Ends(flags, c, n) ==
    /\ c \in [1 .. n -> DOMAIN flags]
    /\ \A i \in 1 .. n - 1 : flags[c[i]].prereq = c[i + 1]
    /\ flags[c[n]].prereq = None

\* A chain that ends has no flag twice: what follows one follows the other.
LEMMA EndsWithoutCycle ==
    ASSUME NEW flags, DOMAIN flags \subseteq FlagKey, NEW n \in Nat, NEW c, Ends(flags, c, n)
    PROVE  \A i, j \in 1 .. n : i < j => c[i] # c[j]
<1> SUFFICES ASSUME NEW i \in 1 .. n, NEW j \in 1 .. n, i < j, c[i] = c[j] PROVE FALSE
  OBVIOUS
<1> DEFINE S == {t \in Nat : j + t <= n => c[i + t] = c[j + t]}
<1>1. S \in SUBSET Nat /\ 0 \in S
  OBVIOUS
<1>2. ASSUME NEW t \in S PROVE t + 1 \in S
  <2> SUFFICES ASSUME j + (t + 1) <= n PROVE c[i + (t + 1)] = c[j + (t + 1)]
    OBVIOUS
  <2>1. c[i + t] = c[j + t] /\ i + t \in 1 .. n - 1 /\ j + t \in 1 .. n - 1
    OBVIOUS
  <2>2. flags[c[i + t]].prereq = c[(i + t) + 1] /\ flags[c[j + t]].prereq = c[(j + t) + 1]
    BY <2>1 DEF Ends
  <2>3. (i + t) + 1 = i + (t + 1) /\ (j + t) + 1 = j + (t + 1)
    OBVIOUS
  <2> QED
    BY <2>1, <2>2, <2>3
<1>3. n - j \in S
  <2> HIDE DEF S
  <2> QED
    BY <1>1, <1>2, AllNaturals
<1>4. c[i + (n - j)] = c[n] /\ i + (n - j) \in 1 .. n - 1
  <2>1. j + (n - j) = n
    OBVIOUS
  <2> QED
    BY <1>3, <2>1
<1>5. (i + (n - j)) + 1 \in 1 .. n /\ c[(i + (n - j)) + 1] = None
  BY <1>4 DEF Ends
<1> QED
  BY <1>5, NoneAssumption DEF Ends

\* The flags visited on the way to c[i]: none that is still to come, and few enough.
OnTheWay(c, n, i, visited) ==
    /\ visited \in SUBSET FlagKey
    /\ \A j \in i + 1 .. n : c[j] \notin visited
    /\ Cardinality(visited) + (n - i) <= MaxPrerequisiteDepth

\* On a chain that ends, neither guard of resolveLoadedFlag stops, whichever flags were
\* visited on the way, so that these do not matter.
LEMMA VisitedDoNotMatter ==
    ASSUME NEW flags, DOMAIN flags \subseteq FlagKey, NEW x, NEW n \in Nat, NEW c,
           Ends(flags, c, n)
    PROVE  \A i \in 1 .. n : \A v, w :
              OnTheWay(c, n, i, v) /\ OnTheWay(c, n, i, w) =>
                 Resolving(flags, x)[<<c[i], v>>] = Resolving(flags, x)[<<c[i], w>>]
<1> DEFINE Same(i) == \A v, w : OnTheWay(c, n, i, v) /\ OnTheWay(c, n, i, w) =>
                 Resolving(flags, x)[<<c[i], v>>] = Resolving(flags, x)[<<c[i], w>>]
           S == {m \in Nat : \A i \in 1 .. n : n - i = m => Same(i)}
<1>1. ASSUME NEW i \in 1 .. n, NEW v, OnTheWay(c, n, i, v)
      PROVE  /\ <<c[i], v>> \in Calls(flags)
             /\ Resolving(flags, x)[<<c[i], v>>]
                  = Resolves(flags, x, Resolving(flags, x), <<c[i], v>>)
  <2>1. <<c[i], v>> \in Calls(flags)
    BY <1>1 DEF OnTheWay, Ends, Calls
  <2> QED
    BY <2>1, ResolvingEquation
<1>2. S \in SUBSET Nat /\ 0 \in S
  <2>1. ASSUME n # 0 PROVE Same(n)
    <3>1. n \in 1 .. n /\ flags[c[n]].prereq = None
      BY <2>1 DEF Ends
    <3>2. ASSUME NEW v, OnTheWay(c, n, n, v)
          PROVE  Resolving(flags, x)[<<c[n], v>>] = Evaluate(flags[c[n]], x)
      <4>1. Resolving(flags, x)[<<c[n], v>>]
              = Resolves(flags, x, Resolving(flags, x), <<c[n], v>>)
        BY <1>1, <3>1, <3>2
      <4> QED
        BY <3>1, <4>1 DEF Resolves
    <3> QED
      BY <3>2
  <2>2. \A i \in 1 .. n : n - i = 0 => i = n
    OBVIOUS
  <2> HIDE DEF Same
  <2> QED
    BY <2>1, <2>2
<1>3. ASSUME NEW m \in S PROVE m + 1 \in S
  <2> SUFFICES ASSUME NEW i \in 1 .. n, n - i = m + 1, NEW v, NEW w,
                      OnTheWay(c, n, i, v), OnTheWay(c, n, i, w)
               PROVE  Resolving(flags, x)[<<c[i], v>>] = Resolving(flags, x)[<<c[i], w>>]
    OBVIOUS
  <2> DEFINE k == c[i + 1]
  <2>1. /\ i \in 1 .. n - 1 /\ i + 1 \in 1 .. n /\ n - (i + 1) = m
        /\ flags[c[i]].prereq = k /\ k \in DOMAIN flags /\ k # None
    BY NoneAssumption DEF Ends
  <2>2. ASSUME NEW u, OnTheWay(c, n, i, u)
        PROVE  /\ k \notin u /\ ~ Cardinality(u) >= MaxPrerequisiteDepth
               /\ OnTheWay(c, n, i + 1, u \cup {k})
    <3>1. k \notin u
      BY <2>1, <2>2 DEF OnTheWay
    <3>2. IsFiniteSet(u) /\ Cardinality(u) \in Nat /\ MaxPrerequisiteDepth \in Nat
      BY <2>2, BoundAssumption, FS_Subset, FS_CardinalityType DEF OnTheWay
    <3>3. Cardinality(u \cup {k}) = Cardinality(u) + 1
      BY <3>1, <3>2, FS_AddElement
    <3>4. \A j \in (i + 1) + 1 .. n : c[j] \notin u \cup {k}
      BY <2>1, <2>2, EndsWithoutCycle DEF OnTheWay
    <3> QED
      BY <2>1, <2>2, <3>1, <3>2, <3>3, <3>4 DEF OnTheWay
  <2>3. ASSUME NEW u, OnTheWay(c, n, i, u)
        PROVE  Resolving(flags, x)[<<c[i], u>>]
                 = AfterPrerequisite(flags[c[i]], Resolving(flags, x)[<<k, u \cup {k}>>], x)
    <3>1. Resolving(flags, x)[<<c[i], u>>]
            = Resolves(flags, x, Resolving(flags, x), <<c[i], u>>)
      BY <1>1, <2>3
    <3> QED
      BY <2>1, <2>2, <2>3, <3>1 DEF Resolves
  <2>4. Same(i + 1)
    BY <2>1
  <2>5. Resolving(flags, x)[<<k, v \cup {k}>>] = Resolving(flags, x)[<<k, w \cup {k}>>]
    BY <2>2, <2>4
  <2> QED
    BY <2>3, <2>5
<1>4. ASSUME NEW i \in 1 .. n PROVE Same(i)
  <2>1. n - i \in S
    <3> HIDE DEF S
    <3> QED
      BY <1>2, <1>3, AllNaturals
  <2> HIDE DEF Same
  <2> QED
    BY <2>1
<1> QED
  BY <1>4

\* A flag whose chain of prerequisites ends in time follows from its prerequisite.
LEMMA FollowsFromPrerequisite ==
    ASSUME NEW flags, DOMAIN flags \subseteq FlagKey, NEW x,
           NEW n \in 1 .. MaxPrerequisiteDepth, NEW c, Ends(flags, c, n),
           flags[c[1]].prereq # None
    PROVE  EvaluateLoaded(flags, c[1], x) =
              AfterPrerequisite(flags[c[1]],
                 EvaluateLoaded(flags, flags[c[1]].prereq, x), x)
<1> DEFINE R == Resolving(flags, x)
<1>1. /\ MaxPrerequisiteDepth \in Nat /\ n \in Nat /\ n # 1
  BY BoundAssumption DEF Ends
<1>2. /\ flags[c[1]].prereq = c[2] /\ c[1] \in DOMAIN flags /\ c[2] \in DOMAIN flags
      /\ c[1] # c[2] /\ c[2] # None
  BY <1>1, EndsWithoutCycle, NoneAssumption DEF Ends
<1>3. /\ Cardinality({c[1]}) = 1 /\ Cardinality({c[2]}) = 1
      /\ Cardinality({c[1]} \cup {c[2]}) = 2
  <2>1. IsFiniteSet({c[1]}) /\ Cardinality({c[1]}) = 1 /\ Cardinality({c[2]}) = 1
    BY FS_Singleton
  <2>2. c[2] \notin {c[1]}
    BY <1>2
  <2>3. Cardinality({c[1]} \cup {c[2]})
          = IF c[2] \in {c[1]} THEN Cardinality({c[1]}) ELSE Cardinality({c[1]}) + 1
    BY <2>1, FS_AddElement, Zenon
  <2> QED
    BY <2>1, <2>2, <2>3
<1>4. OnTheWay(c, n, 2, {c[1]} \cup {c[2]}) /\ OnTheWay(c, n, 2, {c[2]})
  <2>1. \A j \in 3 .. n : c[j] \notin {c[1]} \cup {c[2]}
    BY <1>1, EndsWithoutCycle
  <2> QED
    BY <1>1, <1>2, <1>3, <2>1 DEF OnTheWay
<1>5. R[<<c[2], {c[1]} \cup {c[2]}>>] = R[<<c[2], {c[2]}>>]
  <2>1. 2 \in 1 .. n
    BY <1>1
  <2>2. \A i \in 1 .. n : \A v, w :
           OnTheWay(c, n, i, v) /\ OnTheWay(c, n, i, w) => R[<<c[i], v>>] = R[<<c[i], w>>]
    BY <1>1, VisitedDoNotMatter
  <2> HIDE DEF R
  <2> QED
    BY <1>4, <2>1, <2>2
<1>6. R[<<c[1], {c[1]}>>] = Resolves(flags, x, R, <<c[1], {c[1]}>>)
  <2>1. <<c[1], {c[1]}>> \in Calls(flags)
    BY <1>2 DEF Calls
  <2> HIDE DEF R
  <2> QED
    BY <2>1, ResolvingEquation DEF R
<1>7. ~ Cardinality({c[1]}) >= MaxPrerequisiteDepth
  BY <1>1, <1>3
<1>8. Resolves(flags, x, R, <<c[1], {c[1]}>>)
        = AfterPrerequisite(flags[c[1]], R[<<c[2], {c[1]} \cup {c[2]}>>], x)
  <2> HIDE DEF R
  <2> QED
    BY <1>2, <1>7 DEF Resolves
<1> QED
  BY <1>2, <1>5, <1>6, <1>8 DEF EvaluateLoaded, ResolveLoaded

LEMMA PrerequisitesFollow == DOMAIN flag = FlagKey => PrerequisitesHold
<1> SUFFICES ASSUME DOMAIN flag = FlagKey, NEW e \in Environment, NEW x \in Context,
                    NEW k \in DOMAIN Loaded(e), flag[k].prereq # None, ChainHolds(k)
             PROVE  EvaluateLoaded(Loaded(e), k, x) =
                       AfterPrerequisite(Loaded(e)[k],
                          EvaluateLoaded(Loaded(e), flag[k].prereq, x), x)
  BY DEF PrerequisitesHold
<1>1. /\ DOMAIN Loaded(e) = {j \in FlagKey : flag[j] # None}
      /\ \A j \in DOMAIN Loaded(e) : Loaded(e)[j].prereq = flag[j].prereq
  BY DEF Loaded, Load
<1>2. PICK n \in 1 .. Min({MaxPrerequisiteDepth, Cardinality(FlagKey)}) :
         \E c \in Chains(k, n) : flag[c[n]].prereq = None
  BY DEF ChainHolds
<1>3. n \in 1 .. MaxPrerequisiteDepth
  <2>1. {MaxPrerequisiteDepth, Cardinality(FlagKey)} \in SUBSET Nat
    BY BoundAssumption, FS_CardinalityType
  <2> QED
    BY <2>1, LeastNatural
<1>4. PICK c \in Chains(k, n) : flag[c[n]].prereq = None
  BY <1>2
<1>5. Ends(Loaded(e), c, n) /\ c[1] = k
  BY <1>1, <1>3, <1>4 DEF Ends, Chains
<1> DEFINE flags == Loaded(e)
<1>6. DOMAIN flags \subseteq FlagKey /\ flags[c[1]].prereq = flag[k].prereq
  BY <1>1, <1>5
<1>7. EvaluateLoaded(flags, c[1], x) =
         AfterPrerequisite(flags[c[1]], EvaluateLoaded(flags, flags[c[1]].prereq, x), x)
  <2>1. Ends(flags, c, n) /\ flags[c[1]].prereq # None
    BY <1>5, <1>6
  <2> HIDE DEF flags
  <2> QED
    BY <1>3, <1>6, <2>1, FollowsFromPrerequisite
<1> QED
  BY <1>5, <1>6, <1>7

\* The flags that a key brings with it are visited in the order of their prerequisites, and
\* what they answer does not depend on where the visit began: a flag of a bulk answer is
\* what its prerequisite in the same answer makes it, as long as the chain ends in time.
THEOREM PrerequisitesAreHeld == EvalSpec => []PrerequisitesHold
<1>1. Init => AdminInv
  BY AdminInit
<1>2. AdminInv /\ [EvalNext]_allVars => AdminInv'
  <2>1. ASSUME AdminInv, EvalStep \/ \E k \in FlagKey, e \in Environment, x \in Context : Ask(k, e, x)
        PROVE  UNCHANGED vars
    BY <2>1 DEF EvalStep, Ask, Read, FindRow, PreloadConfigs, PreloadStrategies,
                PreloadVariants, Resolve
  <2> QED
    BY <2>1, AdminStepHolds DEF EvalNext, AdminStep, allVars
<1>3. AdminInv => PrerequisitesHold
  BY PrerequisitesFollow DEF AdminInv, FlagInv
<1> QED
  BY <1>1, <1>2, <1>3, PTL DEF EvalSpec

-----------------------------------------------------------------------------
(* The evaluation that reads the database, and what it agrees with.        *)

\* What Resolution makes of the i-th flag that was loaded, given what it makes of others.
ResolvesChain(resolve, i) ==
    IF chain[i].prereq = None THEN Evaluate(chain[i], evalContext)
    ELSE IF i = Len(chain) THEN DefaultResult(chain[i], "PREREQUISITE_FAILED")
    ELSE AfterPrerequisite(chain[i], resolve[i + 1], evalContext)

\* From the last flag to the first, the recursion of Resolution has a solution.
LEMMA ResolutionEquation ==
    ASSUME NEW T, chain \in Seq(T), chain # <<>>
    PROVE  \E resolve :
              /\ Resolution = resolve[1]
              /\ \A i \in 1 .. Len(chain) : resolve[i] = ResolvesChain(resolve, i)
<1> DEFINE Right(g, n) == \A i \in DOMAIN chain : i + n >= Len(chain) => g[i] = ResolvesChain(g, i)
           Once(g) == [i \in DOMAIN chain |-> ResolvesChain(g, i)]
           S == {n \in Nat : \E g : Right(g, n) /\ g = [i \in DOMAIN chain |-> g[i]]}
<1>1. DOMAIN chain = 1 .. Len(chain) /\ Len(chain) \in Nat
  OBVIOUS
<1>2. ASSUME NEW g, NEW n \in Nat, NEW i \in DOMAIN chain, n = 0 \/ Right(g, n - 1),
             i + n >= Len(chain)
      PROVE  ResolvesChain(g, i) = ResolvesChain(Once(g), i)
  <2>1. CASE i = Len(chain)
    BY <2>1 DEF ResolvesChain
  <2>2. CASE i # Len(chain)
    <3>1. /\ n # 0 /\ i + 1 \in DOMAIN chain /\ (i + 1) + (n - 1) >= Len(chain)
      BY <1>1, <1>2, <2>2
    <3>2. g[i + 1] = Once(g)[i + 1]
      BY <1>2, <3>1
    <3> HIDE DEF Once, Right
    <3> QED
      BY <3>2 DEF ResolvesChain
  <2> QED
    BY <2>1, <2>2
<1>3. ASSUME NEW g, NEW n \in Nat, n = 0 \/ Right(g, n - 1) PROVE n \in S
  <2>1. Right(Once(g), n)
    BY <1>2, <1>3
  <2> HIDE DEF Right
  <2> QED
    BY <2>1
<1>4. S \in SUBSET Nat /\ 0 \in S
  BY <1>3
<1>5. ASSUME NEW n \in S PROVE n + 1 \in S
  <2>1. PICK g : Right(g, n)
    OBVIOUS
  <2>2. n + 1 \in Nat /\ Right(g, (n + 1) - 1)
    BY <2>1
  <2> HIDE DEF Right, S
  <2> QED
    BY <1>3, <2>2
<1>6. Len(chain) \in S
  <2> HIDE DEF S
  <2> QED
    BY <1>1, <1>4, <1>5, AllNaturals
<1>7. PICK g : Right(g, Len(chain)) /\ g = [i \in DOMAIN chain |-> g[i]]
  BY <1>6
<1>8. g = [i \in DOMAIN chain |-> ResolvesChain(g, i)]
  BY <1>1, <1>7
<1> DEFINE Solves(h) == h = [i \in DOMAIN chain |->
      IF chain[i].prereq = None THEN Evaluate(chain[i], evalContext)
      ELSE IF i = Len(chain) THEN DefaultResult(chain[i], "PREREQUISITE_FAILED")
      ELSE AfterPrerequisite(chain[i], h[i + 1], evalContext)]
<1>9. Solves(g)
  BY <1>8 DEF ResolvesChain
<1>10. Resolution = (CHOOSE h : Solves(h))[1]
  BY DEF Resolution
<1>11. PICK h : Solves(h) /\ Resolution = h[1]
  <2> HIDE DEF Solves
  <2> QED
    BY <1>9, <1>10
<1> QED
  BY <1>1, <1>11 DEF ResolvesChain

\* The keys of the first i flags that were loaded.
KeysTo(i) == {chain[j].key : j \in 1 .. i}

\* The guards of resolveWithPrerequisites let it go on after the i-th flag.
GoesOn(i) ==
    /\ chain[i].prereq # None /\ chain[i].prereq \notin KeysTo(i)
    /\ ~ Cardinality(KeysTo(i)) >= MaxPrerequisiteDepth

\* Two records of a flag that evaluate alike.
Alike(f, g) ==
    /\ f.archived = g.archived /\ f.enabled = g.enabled /\ f.rules = g.rules
    /\ f.prereq = g.prereq /\ f.prereqVariant = g.prereqVariant

LEMMA AlikeEvaluate ==
    ASSUME NEW f, NEW g, Alike(f, g), NEW x
    PROVE  /\ Evaluate(f, x) = Evaluate(g, x)
           /\ DefaultResult(f, "PREREQUISITE_FAILED") = DefaultResult(g, "PREREQUISITE_FAILED")
<1>1. \A reason : DefaultResult(f, reason) = DefaultResult(g, reason)
  BY DEF DefaultResult, Alike
<1>2. Evaluate(f, x) = Evaluate(g, x)
  BY <1>1 DEF Evaluate, Alike
<1> QED
  BY <1>1, <1>2

\* A chain of flags that were loaded whole and visited in turn, to the point where the
\* search for prerequisites has to stop, resolves as the flags loaded at once do.
LEMMA ChainResolves ==
    ASSUME NEW T, chain \in Seq(T), chain # <<>>,
           NEW flags, DOMAIN flags \subseteq FlagKey,
           \A i \in 1 .. Len(chain) :
              chain[i].key \in DOMAIN flags /\ Alike(chain[i], flags[chain[i].key]),
           \A i \in 1 .. Len(chain) - 1 : GoesOn(i) /\ chain[i].prereq = chain[i + 1].key,
           \/ ~ GoesOn(Len(chain))
           \/ chain[Len(chain)].prereq \notin DOMAIN flags
    PROVE  Resolution = EvaluateLoaded(flags, chain[1].key, evalContext)
<1> DEFINE R == Resolving(flags, evalContext)
           call(i) == <<chain[i].key, KeysTo(i)>>
<1>1. Len(chain) \in Nat /\ Len(chain) # 0
  OBVIOUS
<1>2. PICK resolve : /\ Resolution = resolve[1]
                     /\ \A i \in 1 .. Len(chain) : resolve[i] = ResolvesChain(resolve, i)
  BY ResolutionEquation
<1>3. ASSUME NEW i \in 1 .. Len(chain)
      PROVE  R[call(i)] = Resolves(flags, evalContext, R, call(i))
  <2>1. KeysTo(i) \subseteq FlagKey
    BY <1>1 DEF KeysTo
  <2>2. call(i) \in Calls(flags)
    BY <2>1 DEF Calls
  <2> HIDE DEF R, call
  <2> QED
    BY <2>2, ResolvingEquation DEF R
<1> DEFINE S == {m \in Nat : \A i \in 1 .. Len(chain) : Len(chain) - i = m => R[call(i)] = resolve[i]}
<1> HIDE DEF R
<1>4. S \in SUBSET Nat /\ 0 \in S
  <2> DEFINE i == Len(chain)   f == flags[chain[i].key]
  <2>1. i \in 1 .. Len(chain) /\ Alike(chain[i], f) /\ f.prereq = chain[i].prereq
    BY <1>1 DEF Alike
  <2>2. /\ chain[i].prereq = None => resolve[i] = Evaluate(f, evalContext)
        /\ chain[i].prereq # None => resolve[i] = DefaultResult(f, "PREREQUISITE_FAILED")
    BY <1>2, <2>1, AlikeEvaluate DEF ResolvesChain
  <2>3. R[call(i)] = resolve[i]
    BY <1>3, <2>1, <2>2 DEF Resolves, GoesOn
  <2>4. \A j \in 1 .. Len(chain) : Len(chain) - j = 0 => j = i
    OBVIOUS
  <2> HIDE DEF call
  <2> QED
    BY <2>3, <2>4
<1>5. ASSUME NEW m \in S PROVE m + 1 \in S
  <2> SUFFICES ASSUME NEW i \in 1 .. Len(chain), Len(chain) - i = m + 1
               PROVE  R[call(i)] = resolve[i]
    OBVIOUS
  <2> DEFINE f == flags[chain[i].key]
  <2>1. /\ i \in 1 .. Len(chain) - 1 /\ i + 1 \in 1 .. Len(chain) /\ Len(chain) - (i + 1) = m
        /\ i # Len(chain) /\ Alike(chain[i], f) /\ f.prereq = chain[i].prereq
    BY <1>1 DEF Alike
  <2>2. GoesOn(i) /\ f.prereq = chain[i + 1].key /\ f.prereq \in DOMAIN flags
    BY <2>1
  <2>3. KeysTo(i) \cup {chain[i + 1].key} = KeysTo(i + 1)
    BY <2>1 DEF KeysTo
  <2>4. R[call(i)] = AfterPrerequisite(f, R[call(i + 1)], evalContext)
    BY <1>3, <2>1, <2>2, <2>3 DEF Resolves, GoesOn
  <2>5. R[call(i + 1)] = resolve[i + 1]
    BY <2>1
  <2>6. resolve[i] = AfterPrerequisite(chain[i], resolve[i + 1], evalContext)
    BY <1>2, <2>1, <2>2 DEF ResolvesChain, GoesOn
  <2>7. AfterPrerequisite(chain[i], resolve[i + 1], evalContext)
          = AfterPrerequisite(f, resolve[i + 1], evalContext)
    <3>1. /\ Evaluate(chain[i], evalContext) = Evaluate(f, evalContext)
          /\ DefaultResult(chain[i], "PREREQUISITE_FAILED")
               = DefaultResult(f, "PREREQUISITE_FAILED")
      <4>1. Alike(chain[i], f)
        BY <2>1
      <4> HIDE DEF f
      <4> QED
        BY <4>1, AlikeEvaluate
    <3>2. chain[i].prereqVariant = f.prereqVariant
      BY <2>1 DEF Alike
    <3> HIDE DEF f
    <3> QED
      BY <3>1, <3>2 DEF AfterPrerequisite
  <2> HIDE DEF f, call
  <2> QED
    BY <2>4, <2>5, <2>6, <2>7
<1>6. R[call(1)] = resolve[1]
  <2>1. \A m \in Nat : m \in S
    <3> HIDE DEF S
    <3> QED
      BY <1>4, <1>5, AllNaturals
  <2>2. 1 \in 1 .. Len(chain) /\ Len(chain) - 1 \in Nat
    BY <1>1
  <2>3. \A i \in 1 .. Len(chain) : Len(chain) - i = Len(chain) - 1 => R[call(i)] = resolve[i]
    <3> HIDE DEF call
    <3> QED
      BY <2>1, <2>2
  <2> HIDE DEF call
  <2> QED
    BY <2>2, <2>3
<1>7. KeysTo(1) = {chain[1].key} /\ chain[1].key \in DOMAIN flags
  BY <1>1 DEF KeysTo
<1> QED
  BY <1>2, <1>6, <1>7 DEF R, EvaluateLoaded, ResolveLoaded

\* A flag as it is being loaded.
Entry ==
    [key : FlagKey, id : Nat, type : FlagType, archived : BOOLEAN, enabled : BOOLEAN,
     prereq : FlagKey \cup {None}, prereqVariant : Variant \cup {None}, rules : RuleSet]

LoadInv ==
    /\ evalPc \in {"idle", "find", "configs", "strategies", "variants", "resolve"}
    /\ chain \in Seq(Entry)
    /\ evalPc = "idle" /\ answers = <<>> => chain = <<>>
    /\ evalPc # "idle" => answers = <<>> /\ asked \in FlagKey /\ evalEnv \in Environment
    /\ evalPc \in {"find", "configs", "strategies", "variants"} => next \in FlagKey
    /\ evalPc \in {"configs", "strategies", "variants"} => chain # <<>> /\ Last.key = next

\* The i-th flag loaded is the one that stands, and what was loaded of it is what it has:
\* all but what the preloads of the last one have yet to find.
Agrees(i) ==
    LET c == chain[i]  f == flag[chain[i].key]  loaded == Load(f, evalEnv)
    IN  /\ f # None /\ c.id = f.id /\ c.archived = loaded.archived
        /\ c.prereq = loaded.prereq /\ c.prereqVariant = loaded.prereqVariant
        /\ ~ (i = Len(chain) /\ evalPc = "configs") => c.enabled = loaded.enabled
        /\ ~ (i = Len(chain) /\ evalPc \in {"configs", "strategies"}) => c.rules = loaded.rules

\* What has been loaded, as long as nothing was committed since the evaluation began.
CleanInv ==
    /\ \A i \in 1 .. Len(chain) : Agrees(i)
    /\ \A i \in 1 .. Len(chain) - 1 : GoesOn(i) /\ chain[i].prereq = chain[i + 1].key
    /\ chain # <<>> => chain[1].key = asked
    /\ evalPc = "find" =>
          IF chain = <<>> THEN next = asked ELSE GoesOn(Len(chain)) /\ Last.prereq = next
    /\ evalPc = "resolve" =>
          IF chain = <<>> THEN flag[asked] = None
          ELSE GoesOn(Len(chain)) => flag[Last.prereq] = None

EvalInv ==
    /\ AdminInv
    /\ LoadInv
    /\ ~ dirty /\ evalPc # "idle" => CleanInv
    /\ AgreesWithLoaded

LEMMA LoadTyped ==
    ASSUME NEW f, NEW n, FlagOK(f, n), NEW e \in Environment
    PROVE  Load(f, e).enabled \in BOOLEAN /\ Load(f, e).rules \in RuleSet
<1>1. f \in Flag
  BY DEF FlagOK
<1> QED
  BY <1>1 DEF Load, Flag

\* Variants may be taken from rules, and are not from rules that are still the same.
LEMMA WithVariantsHolds ==
    ASSUME NEW rules \in RuleSet, NEW stored
    PROVE  /\ WithVariants(rules, stored) \in RuleSet
           /\ stored = rules => WithVariants(rules, stored) = rules
<1> DEFINE new == WithVariants(rules, stored)
<1>1. DOMAIN rules \in SUBSET Priority /\ rules \in [DOMAIN rules -> Row]
  BY DEF RuleSet
<1>2. <<>> \in UNION {[V -> FlagType] : V \in SUBSET Variant}
  <2>1. <<>> \in [{} -> FlagType]
    OBVIOUS
  <2> QED
    BY <2>1
<1>3. ASSUME NEW p \in DOMAIN rules PROVE [rules[p] EXCEPT !.variants = <<>>] \in Row
  <2>1. rules[p] \in Row
    BY <1>1
  <2> DEFINE none == <<>>
  <2>2. none \in UNION {[V -> FlagType] : V \in SUBSET Variant}
    BY <1>2
  <2> HIDE DEF none
  <2>3. [rules[p] EXCEPT !.variants = none] \in Row
    BY <2>1, <2>2 DEF Row
  <2> QED
    BY <2>3 DEF none
<1>4. new \in [DOMAIN rules -> Row]
  BY <1>1, <1>3 DEF WithVariants
<1>5. stored = rules => new = [p \in DOMAIN rules |-> rules[p]]
  BY DEF WithVariants
<1> HIDE DEF new
<1> QED
  BY <1>1, <1>4, <1>5 DEF RuleSet, new

\* The chain with its last flag replaced keeps its keys and what it has of other flags.
LEMMA LastReplaced ==
    ASSUME LoadInv, chain # <<>>, NEW c \in Entry, c.key = Last.key, c.prereq = Last.prereq,
           chain' = [chain EXCEPT ![Len(chain)] = c]
    PROVE  /\ chain' \in Seq(Entry) /\ Len(chain') = Len(chain) /\ chain' # <<>>
           /\ Len(chain) \in Nat \ {0} /\ Last' = c
           /\ \A i \in 1 .. Len(chain) - 1 : chain'[i] = chain[i]
           /\ \A i \in 1 .. Len(chain) :
                 /\ chain'[i].key = chain[i].key /\ chain'[i].prereq = chain[i].prereq
                 /\ KeysTo(i)' = KeysTo(i) /\ GoesOn(i)' = GoesOn(i)
<1> DEFINE n == Len(chain)
<1>0. n \in Nat /\ n # 0
  BY DEF LoadInv
<1>1. /\ chain' \in Seq(Entry) /\ Len(chain') = Len(chain) /\ chain' # <<>>
      /\ chain'[Len(chain)] = c
      /\ \A i \in 1 .. Len(chain) - 1 : chain'[i] = chain[i]
  BY DEF LoadInv
<1>2. \A i \in 1 .. Len(chain) :
         chain'[i].key = chain[i].key /\ chain'[i].prereq = chain[i].prereq
  <2> SUFFICES ASSUME NEW i \in 1 .. Len(chain)
               PROVE  chain'[i].key = chain[i].key /\ chain'[i].prereq = chain[i].prereq
    OBVIOUS
  <2>1. CASE i = Len(chain)
    BY <1>1, <2>1 DEF Last
  <2>2. CASE i # Len(chain)
    <3>1. i \in 1 .. n - 1
      <4> HIDE DEF n
      <4> QED
        BY <1>0, <2>2 DEF n
    <3> QED
      BY <1>1, <3>1
  <2> QED
    BY <2>1, <2>2
<1>3. ASSUME NEW i \in 1 .. Len(chain) PROVE KeysTo(i)' = KeysTo(i)
  <2>1. 1 .. i \subseteq 1 .. n
    <3> HIDE DEF n
    <3> QED
      BY <1>0 DEF n
  <2>2. \A j \in 1 .. i : chain'[j].key = chain[j].key
    BY <1>2, <2>1
  <2> QED
    BY <2>2 DEF KeysTo
<1>4. \A i \in 1 .. Len(chain) : GoesOn(i)' = GoesOn(i)
  BY <1>2, <1>3 DEF GoesOn
<1> QED
  BY <1>0, <1>1, <1>2, <1>3, <1>4 DEF Last

LEMMA AdminUntouched == AdminInv /\ UNCHANGED vars => AdminInv'
  BY AdminStepHolds

\* A preload, of which it is known what it does to the last flag and which query is next.
LEMMA PreloadHolds ==
    ASSUME EvalInv, evalPc \in {"configs", "strategies", "variants"},
           UNCHANGED <<asked, evalEnv, evalContext, answers, dirty, vars>>,
           NEW c \in Entry, c.key = Last.key, c.prereq = Last.prereq,
           chain' = [chain EXCEPT ![Len(chain)] = c],
           evalPc' \in {"strategies", "variants", "find", "resolve"},
           evalPc' \in {"strategies", "variants"} => next' = next,
           evalPc' = "find" => next' \in FlagKey /\ next' = Last.prereq /\ GoesOn(Len(chain)),
           evalPc' = "resolve" => ~ GoesOn(Len(chain)),
           ~ dirty /\ Agrees(Len(chain)) => Agrees(Len(chain))'
    PROVE  EvalInv'
<1> DEFINE n == Len(chain)
<1>1. AdminInv'
  BY AdminUntouched DEF EvalInv
<1>2. LoadInv /\ chain # <<>> /\ Last.key = next /\ next \in FlagKey /\ answers = <<>>
  BY DEF EvalInv, LoadInv
<1>3. /\ chain' \in Seq(Entry) /\ Len(chain') = n /\ chain' # <<>> /\ n \in Nat \ {0}
      /\ Last' = c
      /\ \A i \in 1 .. n - 1 : chain'[i] = chain[i]
      /\ \A i \in 1 .. n : /\ chain'[i].key = chain[i].key /\ chain'[i].prereq = chain[i].prereq
                           /\ KeysTo(i)' = KeysTo(i) /\ GoesOn(i)' = GoesOn(i)
  BY <1>2, LastReplaced
<1>4. LoadInv'
  BY <1>2, <1>3 DEF LoadInv
<1>5. ASSUME ~ dirty PROVE CleanInv'
  <2> HIDE DEF n
  <2>0. n \in Nat /\ n # 0
    BY <1>3
  <2>1. CleanInv /\ 1 \in 1 .. n /\ n \in 1 .. n /\ n' = n
    <3>1. 1 \in 1 .. n /\ n \in 1 .. n
      BY <2>0
    <3> QED
      BY <1>3, <1>5, <3>1 DEF EvalInv, n
  <2>2. ASSUME NEW i \in 1 .. n - 1 PROVE Agrees(i)'
    <3>1. i # n /\ i \in 1 .. n
      BY <2>0
    <3>2. Agrees(i) /\ chain'[i] = chain[i]
      BY <1>3, <2>1, <3>1 DEF CleanInv, n
    <3> QED
      BY <1>3, <3>1, <3>2 DEF Agrees, n, vars
  <2>3. Agrees(n)'
    BY <1>5, <2>1 DEF CleanInv, n
  <2>4. \A i \in 1 .. Len(chain') : Agrees(i)'
    <3>1. \A i \in 1 .. n : i = n \/ i \in 1 .. n - 1
      BY <2>0
    <3>2. Agrees(n)' => \A i : i = n => Agrees(i)'
      BY <2>1
    <3> QED
      BY <1>3, <2>2, <2>3, <3>1, <3>2
  <2>5. \A i \in 1 .. Len(chain') - 1 : GoesOn(i)' /\ chain'[i].prereq = chain'[i + 1].key
    <3>1. \A i \in 1 .. n - 1 : i \in 1 .. n /\ i + 1 \in 1 .. n
      BY <2>0
    <3>2. \A i \in 1 .. n - 1 : GoesOn(i) /\ chain[i].prereq = chain[i + 1].key
      BY <2>1 DEF CleanInv, n
    <3> QED
      BY <1>3, <3>1, <3>2
  <2>6. chain'[1].key = asked'
    BY <1>2, <1>3, <2>1 DEF CleanInv
  <2>7. GoesOn(Len(chain))' = GoesOn(Len(chain)) /\ Last'.prereq = Last.prereq
    <3>1. GoesOn(n)' = GoesOn(n)
      <4>1. \A i \in 1 .. n : i = n => GoesOn(i)' = GoesOn(n)
        BY <1>3
      <4> QED
        BY <2>1, <4>1 DEF GoesOn
    <3> QED
      BY <1>3, <3>1 DEF n
  <2> QED
    BY <1>2, <1>3, <2>4, <2>5, <2>6, <2>7 DEF CleanInv, n
<1> QED
  BY <1>1, <1>2, <1>4, <1>5 DEF EvalInv, AgreesWithLoaded

\* The last flag, and what is stored of it, at the preloads.
LEMMA LastOK ==
    ASSUME EvalInv, evalPc \in {"configs", "strategies", "variants"}
    PROVE  /\ Last \in Entry /\ Last = chain[Len(chain)] /\ Last.key = next
           /\ evalEnv \in Environment /\ next \in FlagKey
           /\ flag[next] # None =>
                 /\ Load(flag[next], evalEnv).enabled \in BOOLEAN
                 /\ Load(flag[next], evalEnv).rules \in RuleSet
           /\ ~ dirty => /\ Agrees(Len(chain))
                         /\ \A value, otherwise : Preloaded(value, otherwise) = value
<1>1. /\ chain \in Seq(Entry) /\ chain # <<>> /\ Last.key = next /\ next \in FlagKey
      /\ evalEnv \in Environment
  BY DEF EvalInv, LoadInv
<1>2. Last \in Entry /\ Last = chain[Len(chain)] /\ Len(chain) \in 1 .. Len(chain)
  BY <1>1 DEF Last
<1>3. flag[next] # None => FlagOK(flag[next], changes)
  BY <1>1 DEF EvalInv, AdminInv, FlagInv
<1>4. ~ dirty => Agrees(Len(chain))
  BY <1>2 DEF EvalInv, CleanInv
<1>5. ~ dirty => \A value, otherwise : Preloaded(value, otherwise) = value
  BY <1>1, <1>2, <1>4 DEF Agrees, Preloaded
<1> QED
  BY <1>1, <1>2, <1>3, <1>4, <1>5, LoadTyped

LEMMA ConfigsHold == ASSUME EvalInv, PreloadConfigs PROVE EvalInv'
<1> DEFINE value == Preloaded(Load(flag[next], evalEnv).enabled, FALSE)
           c == [Last EXCEPT !.enabled = value]
<1>1. /\ evalPc = "configs" /\ evalPc' = "strategies" /\ next' = next
      /\ UNCHANGED <<asked, evalEnv, evalContext, answers, dirty, vars>>
  BY DEF PreloadConfigs, Read
<1>2. value \in BOOLEAN
  BY <1>1, LastOK DEF Preloaded
<1>3. c \in Entry /\ c.key = Last.key /\ c.prereq = Last.prereq
      /\ c.enabled = value /\ c.id = Last.id /\ c.archived = Last.archived
      /\ c.prereqVariant = Last.prereqVariant
  <2> HIDE DEF value
  <2> QED
    BY <1>1, <1>2, LastOK DEF Entry
<1>4. chain' = [chain EXCEPT ![Len(chain)] = c]
  BY <1>1, LastOK DEF PreloadConfigs
<1> HIDE DEF c
<1>5. ~ dirty /\ Agrees(Len(chain)) => Agrees(Len(chain))'
  <2>1. chain # <<>> /\ chain'[Len(chain)] = c /\ Len(chain') = Len(chain)
    BY <1>1, <1>3, <1>4, LastReplaced DEF EvalInv, LoadInv, Last
  <2> SUFFICES ASSUME ~ dirty, Agrees(Len(chain)) PROVE Agrees(Len(chain))'
    OBVIOUS
  <2>2. value = Load(flag[next], evalEnv).enabled
    BY <1>1, LastOK
  <2> HIDE DEF value
  <2> QED
    BY <1>1, <1>3, <2>1, <2>2, LastOK DEF Agrees, vars
<1> QED
  BY <1>1, <1>3, <1>4, <1>5, PreloadHolds

LEMMA StrategiesHold == ASSUME EvalInv, PreloadStrategies PROVE EvalInv'
<1> DEFINE value == Preloaded(Load(flag[next], evalEnv).rules, <<>>)
           c == [Last EXCEPT !.rules = value]
<1>1. /\ evalPc = "strategies" /\ evalPc' = "variants" /\ next' = next
      /\ UNCHANGED <<asked, evalEnv, evalContext, answers, dirty, vars>>
  BY DEF PreloadStrategies, Read
<1>2. value \in RuleSet
  BY <1>1, LastOK, EmptyRules DEF Preloaded
<1>3. c \in Entry /\ c.key = Last.key /\ c.prereq = Last.prereq
      /\ c.rules = value /\ c.id = Last.id /\ c.archived = Last.archived
      /\ c.prereqVariant = Last.prereqVariant /\ c.enabled = Last.enabled
  <2> HIDE DEF value
  <2> QED
    BY <1>1, <1>2, LastOK DEF Entry
<1>4. chain' = [chain EXCEPT ![Len(chain)] = c]
  BY <1>1, LastOK DEF PreloadStrategies
<1> HIDE DEF c
<1>5. ~ dirty /\ Agrees(Len(chain)) => Agrees(Len(chain))'
  <2>1. chain # <<>> /\ chain'[Len(chain)] = c /\ Len(chain') = Len(chain)
    BY <1>1, <1>3, <1>4, LastReplaced DEF EvalInv, LoadInv, Last
  <2> SUFFICES ASSUME ~ dirty, Agrees(Len(chain)) PROVE Agrees(Len(chain))'
    OBVIOUS
  <2>2. value = Load(flag[next], evalEnv).rules
    BY <1>1, LastOK
  <2> HIDE DEF value
  <2> QED
    BY <1>1, <1>3, <2>1, <2>2, LastOK DEF Agrees, vars
<1> QED
  BY <1>1, <1>3, <1>4, <1>5, PreloadHolds

LEMMA VariantsHold == ASSUME EvalInv, PreloadVariants PROVE EvalInv'
<1> DEFINE stored == Preloaded(Load(flag[next], evalEnv).rules, <<>>)
           value == WithVariants(Last.rules, stored)
           c == [Last EXCEPT !.rules = value]
<1>1. /\ evalPc = "variants" /\ evalPc' \in {"find", "resolve"}
      /\ UNCHANGED <<asked, evalEnv, evalContext, answers, dirty, vars>>
  BY DEF PreloadVariants, Read
<1>2. Last \in Entry /\ Last.rules \in RuleSet /\ Last = chain[Len(chain)]
  BY <1>1, LastOK DEF Entry
<1>3. value \in RuleSet
  <2> HIDE DEF stored
  <2> QED
    BY <1>2, WithVariantsHolds
<1>4. c \in Entry /\ c.key = Last.key /\ c.prereq = Last.prereq
      /\ c.rules = value /\ c.id = Last.id /\ c.archived = Last.archived
      /\ c.prereqVariant = Last.prereqVariant /\ c.enabled = Last.enabled
  <2> HIDE DEF value
  <2> QED
    BY <1>2, <1>3 DEF Entry
<1>5. chain' = [chain EXCEPT ![Len(chain)] = c]
  BY <1>2 DEF PreloadVariants
<1>6. GoesOn(Len(chain)) =
         (/\ Last.prereq # None /\ Last.prereq \notin Visited
          /\ Cardinality(Visited) < MaxPrerequisiteDepth)
  <2>1. DOMAIN chain = 1 .. Len(chain)
    BY DEF EvalInv, LoadInv
  <2>2. KeysTo(Len(chain)) = Visited
    BY <2>1 DEF KeysTo, Visited
  <2>3. IsFiniteSet(Visited)
    <3>1. \A i \in 1 .. Len(chain) : chain[i] \in Entry
      BY DEF EvalInv, LoadInv
    <3>2. \A i \in 1 .. Len(chain) : chain[i].key \in FlagKey
      <4>1. \A entry \in Entry : entry.key \in FlagKey
        BY DEF Entry
      <4> QED
        BY <3>1, <4>1
    <3>3. Visited \subseteq FlagKey
      BY <2>1, <3>2 DEF Visited
    <3> QED
      BY <3>3, BoundAssumption, FS_Subset
  <2>4. Cardinality(Visited) \in Nat /\ MaxPrerequisiteDepth \in Nat
    BY <2>3, BoundAssumption, FS_CardinalityType
  <2>5. ~ Cardinality(Visited) >= MaxPrerequisiteDepth
           <=> Cardinality(Visited) < MaxPrerequisiteDepth
    BY <2>4
  <2> QED
    BY <1>2, <2>2, <2>5 DEF GoesOn
<1>7. /\ evalPc' = "find" => next' = Last.prereq /\ GoesOn(Len(chain)) /\ next' \in FlagKey
      /\ evalPc' = "resolve" => ~ GoesOn(Len(chain))
  BY <1>2, <1>6 DEF PreloadVariants, Read, Entry
<1> HIDE DEF c
<1>8. ~ dirty /\ Agrees(Len(chain)) => Agrees(Len(chain))'
  <2>1. chain # <<>> /\ chain'[Len(chain)] = c /\ Len(chain') = Len(chain)
    BY <1>1, <1>4, <1>5, LastReplaced DEF EvalInv, LoadInv, Last
  <2> SUFFICES ASSUME ~ dirty, Agrees(Len(chain)) PROVE Agrees(Len(chain))'
    OBVIOUS
  <2>2. stored = Last.rules
    BY <1>1, <1>2, LastOK DEF Agrees
  <2>3. value = Last.rules
    <3> HIDE DEF stored
    <3> QED
      BY <1>2, <2>2, WithVariantsHolds
  <2> HIDE DEF value
  <2> QED
    BY <1>1, <1>2, <1>4, <2>1, <2>3 DEF Agrees, vars
<1> QED
  BY <1>1, <1>4, <1>5, <1>7, <1>8, PreloadHolds

LEMMA AskHolds ==
    ASSUME EvalInv, NEW k \in FlagKey, NEW e \in Environment, NEW x \in Context, Ask(k, e, x)
    PROVE  EvalInv'
<1>1. /\ evalPc' = "find" /\ next' = k /\ asked' = k /\ evalEnv' = e
      /\ chain = <<>> /\ answers = <<>> /\ UNCHANGED <<chain, answers, dirty, vars>>
  BY DEF Ask, EvalInv, LoadInv
<1>2. AdminInv'
  BY <1>1, AdminUntouched DEF EvalInv
<1>3. LoadInv'
  BY <1>1 DEF EvalInv, LoadInv
<1>4. CleanInv'
  <2>1. chain' = <<>> /\ 1 .. Len(chain') = {} /\ 1 .. Len(chain') - 1 = {}
    BY <1>1
  <2> QED
    BY <1>1, <2>1 DEF CleanInv
<1> QED
  BY <1>1, <1>2, <1>3, <1>4 DEF EvalInv, AgreesWithLoaded

LEMMA FindHolds == ASSUME EvalInv, FindRow PROVE EvalInv'
<1> DEFINE n == Len(chain)
<1>1. /\ evalPc = "find" /\ UNCHANGED <<asked, evalEnv, evalContext, answers, dirty, vars>>
      /\ answers = <<>> /\ next \in FlagKey /\ chain \in Seq(Entry)
      /\ asked \in FlagKey /\ evalEnv \in Environment
  BY DEF FindRow, Read, EvalInv, LoadInv
<1>2. AdminInv' /\ n \in Nat
  BY <1>1, AdminUntouched DEF EvalInv
<1>3. CASE flag[next] = None
  <2>1. evalPc' = "resolve" /\ chain' = chain
    BY <1>3 DEF FindRow, Read
  <2>2. LoadInv'
    BY <1>1, <2>1 DEF LoadInv
  <2>3. ~ dirty => CleanInv'
    <3> SUFFICES ASSUME ~ dirty PROVE CleanInv'
      OBVIOUS
    <3>1. CleanInv
      BY <1>1 DEF EvalInv
    <3>2. /\ \A i \in 1 .. Len(chain') : Agrees(i)'
          /\ \A i \in 1 .. Len(chain') - 1 : GoesOn(i)' /\ chain'[i].prereq = chain'[i + 1].key
      <4>1. ASSUME NEW i, Agrees(i) PROVE Agrees(i)'
        BY <1>1, <2>1, <4>1 DEF Agrees, Load, vars
      <4>2. \A i : GoesOn(i)' = GoesOn(i)
        BY <2>1 DEF GoesOn, KeysTo
      <4> QED
        BY <2>1, <3>1, <4>1, <4>2 DEF CleanInv
    <3>3. IF chain = <<>> THEN flag[asked] = None ELSE flag[Last.prereq] = None
      BY <1>1, <1>3, <3>1 DEF CleanInv
    <3>4. IF chain' = <<>> THEN flag'[asked'] = None ELSE flag'[Last'.prereq] = None
      BY <1>1, <2>1, <3>3 DEF Last, vars
    <3>5. chain' # <<>> => chain'[1].key = asked'
      BY <1>1, <2>1, <3>1 DEF CleanInv
    <3> QED
      BY <2>1, <3>2, <3>4, <3>5 DEF CleanInv
  <2> QED
    BY <1>1, <1>2, <2>2, <2>3 DEF EvalInv, AgreesWithLoaded
<1>4. CASE flag[next] # None
  <2> DEFINE f == flag[next]
             c == [key |-> next, id |-> f.id, type |-> f.type, archived |-> f.archived,
                   enabled |-> FALSE, prereq |-> f.prereq, prereqVariant |-> f.prereqVariant,
                   rules |-> <<>>]
  <2>1. evalPc' = "configs" /\ next' = next /\ chain' = Append(chain, c)
    BY <1>4 DEF FindRow, Read
  <2>2. FlagOK(f, changes) /\ f \in Flag
    BY <1>1, <1>4 DEF EvalInv, AdminInv, FlagInv, FlagOK
  <2>3. c \in Entry
    BY <1>1, <2>2, EmptyRules DEF Entry, Flag
  <2>4. c.key = next /\ c.id = f.id /\ c.archived = f.archived /\ c.prereq = f.prereq
        /\ c.prereqVariant = f.prereqVariant
    OBVIOUS
  <2> HIDE DEF c
  <2>5. /\ chain' \in Seq(Entry) /\ Len(chain') = n + 1 /\ chain' # <<>>
        /\ \A i \in 1 .. n : chain'[i] = chain[i]
        /\ chain'[n + 1] = c
    BY <1>1, <2>1, <2>3
  <2>6. LoadInv'
    BY <1>1, <2>1, <2>4, <2>5 DEF LoadInv, Last
  <2>7. ~ dirty => CleanInv'
    <3> SUFFICES ASSUME ~ dirty PROVE CleanInv'
      OBVIOUS
    <3>1. CleanInv
      BY <1>1 DEF EvalInv
    <3> HIDE DEF n
    <3>2. ASSUME NEW i \in 1 .. n PROVE Agrees(i)'
      <4>1. Agrees(i) /\ chain'[i] = chain[i] /\ i # n + 1
        BY <1>2, <2>5, <3>1 DEF CleanInv, n
      <4> QED
        BY <1>1, <2>5, <4>1 DEF Agrees, vars
    <3>3. ASSUME NEW i, i = n + 1 PROVE Agrees(i)'
      <4>1. chain'[i] = c
        BY <2>5, <3>3
      <4> QED
        BY <1>1, <1>4, <2>1, <2>4, <2>5, <3>3, <4>1 DEF Agrees, Load, vars
    <3>4. \A i \in 1 .. Len(chain') : Agrees(i)'
      <4>1. \A i \in 1 .. n + 1 : i \in 1 .. n \/ i = n + 1
        BY <1>2
      <4> QED
        BY <2>5, <3>2, <3>3, <4>1
    <3>5. ASSUME NEW i \in 1 .. n PROVE GoesOn(i)' = GoesOn(i)
      <4>1. \A j \in 1 .. i : chain'[j].key = chain[j].key
        BY <1>2, <2>5
      <4>2. KeysTo(i)' = KeysTo(i)
        BY <4>1 DEF KeysTo
      <4> QED
        BY <2>5, <4>2 DEF GoesOn
    <3>6. ASSUME NEW i \in 1 .. n PROVE GoesOn(i)' /\ chain'[i].prereq = chain'[i + 1].key
      <4>1. CASE i = n
        <5>1. chain # <<>> /\ Len(chain) = i
          BY <1>1, <1>2, <4>1 DEF n
        <5>2. GoesOn(i) /\ chain[i].prereq = next
          <6>1. GoesOn(Len(chain)) /\ Last.prereq = next
            BY <1>1, <3>1, <5>1 DEF CleanInv
          <6> QED
            BY <5>1, <6>1 DEF Last
        <5> QED
          BY <2>4, <2>5, <3>5, <4>1, <5>2
      <4>2. CASE i # n
        <5>1. i \in 1 .. n - 1 /\ i + 1 \in 1 .. n
          BY <1>2, <4>2
        <5>2. GoesOn(i) /\ chain[i].prereq = chain[i + 1].key
          BY <3>1, <5>1 DEF CleanInv, n
        <5> QED
          BY <2>5, <3>5, <5>1, <5>2
      <4> QED
        BY <4>1, <4>2
    <3>7. chain'[1].key = asked'
      <4>1. CASE n = 0
        <5>1. chain = <<>> /\ chain'[1] = c
          BY <1>1, <2>5, <4>1 DEF n
        <5> QED
          BY <1>1, <2>4, <3>1, <5>1 DEF CleanInv
      <4>2. CASE n # 0
        <5>1. chain # <<>> /\ chain'[1] = chain[1]
          BY <1>1, <1>2, <2>5, <4>2 DEF n
        <5> QED
          BY <1>1, <3>1, <5>1 DEF CleanInv
      <4> QED
        BY <4>1, <4>2
    <3>8. 1 .. Len(chain') - 1 = 1 .. n
      BY <1>2, <2>5
    <3> QED
      BY <2>1, <3>4, <3>6, <3>7, <3>8 DEF CleanInv
  <2> QED
    BY <1>1, <1>2, <2>6, <2>7 DEF EvalInv, AgreesWithLoaded
<1> QED
  BY <1>3, <1>4

\* The answer, at last, and what it is compared with.
LEMMA ResolveHolds == ASSUME EvalInv, Resolve PROVE EvalInv'
<1>1. /\ evalPc = "resolve" /\ evalPc' = "idle" /\ answers' = <<Resolution>>
      /\ UNCHANGED <<asked, evalEnv, evalContext, next, chain, dirty, vars>>
      /\ chain \in Seq(Entry) /\ asked \in FlagKey
  BY DEF Resolve, EvalInv, LoadInv
<1>2. AdminInv' /\ LoadInv'
  BY <1>1, AdminUntouched DEF EvalInv, LoadInv
<1> DEFINE flags == Loaded(evalEnv)
<1>3. ASSUME ~ dirty PROVE Resolution = EvaluateLoaded(flags, asked, evalContext)
  <2>1. CleanInv
    BY <1>1, <1>3 DEF EvalInv
  <2>2. DOMAIN flags = {k \in FlagKey : flag[k] # None}
        /\ \A k \in DOMAIN flags : flags[k] = Load(flag[k], evalEnv)
    BY DEF Loaded
  <2> HIDE DEF flags
  <2>3. CASE chain = <<>>
    <3>1. asked \notin DOMAIN flags
      BY <1>1, <2>1, <2>2, <2>3 DEF CleanInv
    <3> QED
      BY <2>3, <3>1 DEF EvaluateLoaded, Resolution
  <2>4. CASE chain # <<>>
    <3> DEFINE n == Len(chain)
    <3>1. n \in Nat /\ n # 0 /\ \A i \in 1 .. n : chain[i] \in Entry
      BY <1>1, <2>4
    <3>2. ASSUME NEW i \in 1 .. n
          PROVE  chain[i].key \in DOMAIN flags /\ Alike(chain[i], flags[chain[i].key])
      <4>1. Agrees(i)
        BY <2>1, <3>2 DEF CleanInv
      <4>2. chain[i].key \in FlagKey /\ flag[chain[i].key] # None
        BY <3>1, <4>1 DEF Entry, Agrees
      <4>3. flags[chain[i].key] = Load(flag[chain[i].key], evalEnv)
        BY <2>2, <4>2
      <4> QED
        BY <1>1, <2>2, <4>1, <4>2, <4>3 DEF Agrees, Alike
    <3>3. \A i \in 1 .. n - 1 : GoesOn(i) /\ chain[i].prereq = chain[i + 1].key
      BY <2>1 DEF CleanInv
    <3>4. ~ GoesOn(n) \/ chain[n].prereq \notin DOMAIN flags
      BY <1>1, <2>1, <2>2, <2>4 DEF CleanInv, Last
    <3>5. chain[1].key = asked
      BY <2>1, <2>4 DEF CleanInv
    <3>6. DOMAIN flags \subseteq FlagKey
      BY <2>2
    <3>7. Resolution = EvaluateLoaded(flags, chain[1].key, evalContext)
      BY <1>1, <2>4, <3>2, <3>3, <3>4, <3>6, ChainResolves
    <3> QED
      BY <3>5, <3>7
  <2> QED
    BY <2>3, <2>4
<1>4. flags' = flags
  BY <1>1 DEF Loaded, Load, vars
<1>5. AgreesWithLoaded'
  <2> HIDE DEF flags
  <2>1. answers'[1] = Resolution
    BY <1>1
  <2> QED
    BY <1>1, <1>3, <1>4, <2>1 DEF AgreesWithLoaded, flags
<1> QED
  BY <1>1, <1>2, <1>5 DEF EvalInv

LEMMA CleanUntouched ==
    ASSUME CleanInv, UNCHANGED <<flag, evalPc, asked, evalEnv, next, chain>>
    PROVE  CleanInv'
<1>1. ASSUME NEW i, Agrees(i) PROVE Agrees(i)'
  BY <1>1 DEF Agrees, Load
<1>2. \A i : GoesOn(i)' = GoesOn(i)
  BY DEF GoesOn, KeysTo
<1>3. GoesOn(Len(chain))' = GoesOn(Len(chain)) /\ Last' = Last
  BY DEF GoesOn, KeysTo, Last
<1> QED
  BY <1>1, <1>2, <1>3 DEF CleanInv

\* A step of a request that commits nothing changes no flag.
LEMMA CommitsCount == AdminInv /\ Administer => changes' # changes \/ flag' = flag
<1>1. AdminInv => changes \in Nat
  BY DEF AdminInv, FlagInv
<1>2. changes \in Nat => changes + 1 # changes
  OBVIOUS
<1> QED
  BY <1>1, <1>2 DEF Administer, InsertFlag, ReadForUpdate, BeginCreateRules, CommitCreateRules,
     Configure, BeginUpdate, DeleteOldRules, CommitUpdate, Fail, SetArchived, DeleteFlag

LEMMA AdminStepKeeps == ASSUME EvalInv, AdminStep PROVE EvalInv'
<1>1. /\ answers = <<>> /\ Administer
      /\ UNCHANGED <<evalPc, asked, evalEnv, evalContext, next, chain, answers>>
      /\ dirty' = (dirty \/ (evalPc # "idle" /\ changes' # changes))
  BY DEF AdminStep
<1>2. AdminInv'
  BY <1>1, AdminStepHolds DEF EvalInv
<1>3. LoadInv'
  BY <1>1 DEF EvalInv, LoadInv, Last
<1>4. ASSUME ~ dirty', evalPc' # "idle" PROVE CleanInv'
  <2>1. flag' = flag /\ ~ dirty /\ evalPc # "idle"
    BY <1>1, <1>4, CommitsCount DEF EvalInv
  <2>2. CleanInv
    BY <2>1 DEF EvalInv
  <2> QED
    BY <1>1, <2>1, <2>2, CleanUntouched
<1> QED
  BY <1>1, <1>2, <1>3, <1>4 DEF EvalInv, AgreesWithLoaded

LEMMA EvalStepHolds == EvalInv /\ [EvalNext]_allVars => EvalInv'
<1> SUFFICES ASSUME EvalInv, [EvalNext]_allVars PROVE EvalInv'
  OBVIOUS
<1>1. CASE UNCHANGED allVars
  <2>1. AdminInv'
    BY <1>1, AdminUntouched DEF EvalInv, allVars
  <2>2. LoadInv' /\ (CleanInv => CleanInv')
    BY <1>1, CleanUntouched DEF EvalInv, LoadInv, Last, allVars, evalVars, vars
  <2>3. AgreesWithLoaded'
    BY <1>1 DEF EvalInv, AgreesWithLoaded, Loaded, Load, allVars, evalVars, vars
  <2> QED
    BY <1>1, <2>1, <2>2, <2>3 DEF EvalInv, allVars, evalVars
<1>2. CASE EvalNext
  BY <1>2, AskHolds, FindHolds, ConfigsHold, StrategiesHold, VariantsHold, ResolveHolds,
     AdminStepKeeps DEF EvalNext, EvalStep
<1> QED
  BY <1>1, <1>2

\* The four queries for each flag and the search for its prerequisites, one at a time,
\* come to what one loaded scope holds, and the two copies of the recursion (the one over
\* the visited keys and the one over the flags found) stop at the same flag: without a
\* commit in between, resolveWithPrerequisites and resolveLoadedFlag give one answer.
THEOREM EvaluationsAgree == EvalSpec => []AgreesWithLoaded
<1>1. Init /\ EvalInit => EvalInv
  <2> SUFFICES ASSUME Init, EvalInit PROVE EvalInv
    OBVIOUS
  <2>1. chain \in Seq(Entry) /\ answers = <<>>
    BY DEF EvalInit
  <2> QED
    BY <2>1, AdminInit DEF EvalInit, EvalInv, LoadInv, AgreesWithLoaded
<1>2. EvalInv => AgreesWithLoaded
  BY DEF EvalInv
<1> QED
  BY <1>1, <1>2, EvalStepHolds, PTL DEF EvalSpec
==============================================================================
