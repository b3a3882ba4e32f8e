------------------------------ MODULE Targeting ------------------------------
(***************************************************************************)
(* How a flag is evaluated: the packages strategy and flag.  A flag loaded *)
(* for one environment is a record                                         *)
(*                                                                         *)
(*    [archived, enabled, rules, prereq, prereqVariant]                    *)
(*                                                                         *)
(* whose rules map each priority in use to a strategy; the unique index on *)
(* (flag, environment, priority) makes that a function.  Conditions are    *)
(* opaque here (Holds says what they come to in a context; Conditions is   *)
(* about their inside), and so are values but for their JSON type.         *)
(***************************************************************************)
EXTENDS Naturals, Sequences, FiniteSets, Functions, FiniteSetsExt

CONSTANTS
    FlagKey, Variant, FlagType,
    Priority,       \* the orders a strategy may have
    Condition,      \* stored conditions that are there, and say something
    Context,        \* evaluation contexts
    KeyedContext,   \* those with a targetingKey
    Holds,          \* Holds[c][x]: what condition c comes to in context x
    Absent,         \* the empty ConditionJSON
    Null,           \* the ConditionJSON that holds the literal null
    Whole,          \* the number of rollout buckets, 100 in the code
    MaxPrerequisiteDepth,   \* 5 in the code
    None

ASSUME ContextAssumption ==
    /\ KeyedContext \subseteq Context
    /\ Holds \in [Condition -> [Context -> {"yes", "no", "error"}]]
    /\ {Absent, Null} \cap Condition = {}
ASSUME BoundAssumption ==
    /\ IsFiniteSet(FlagKey) /\ Priority \subseteq Nat
    /\ Whole \in Nat \ {0} /\ MaxPrerequisiteDepth \in Nat \ {0}

Share == [variant : Variant, percentage : 0 .. Whole]

\* What the API accepts for one strategy, Priority apart, and what is stored of
\* it: the uuid it got when it was written, of which all that shows is which
\* bucket it hashes each subject to.
Draft(order, strategy) == [order |-> order, strategy |-> strategy]
Strategy ==
    [condition : Condition \cup {Absent, Null}, isDefault : BOOLEAN,
     defaultVariant : Variant, rollout : Seq(Share),
     variants : UNION {[V -> FlagType] : V \in SUBSET Variant}]

-----------------------------------------------------------------------------
(* What an evaluation answers. *)

Answer(reason, variant, type) ==
    [reason |-> reason, variant |-> variant, type |-> type]
NoVariant(reason) == Answer(reason, None, None)
Failure == NoVariant("ERROR")

ConditionOutcome(condition, x) ==
    CASE condition = Absent -> "yes"
      [] condition = Null   -> "error"
      [] OTHER              -> Holds[condition][x]

\* resultForStrategy: a variant the catalog lacks fails the whole flag.
ResultFor(s, variant, reason) ==
    IF variant \in DOMAIN s.variants
    THEN Answer(reason, variant, s.variants[variant])
    ELSE Failure

\* pickRolloutVariant: the first share whose cumulative percentage is past the
\* bucket, none if the shares end before.
PickRolloutVariant(rollout, bucket) ==
    LET cumulative[i \in 0 .. Len(rollout)] ==
          IF i = 0 THEN 0 ELSE cumulative[i - 1] + rollout[i].percentage
        reached == {i \in DOMAIN rollout : bucket < cumulative[i]}
    IN  IF reached = {} THEN None ELSE rollout[Min(reached)].variant

BucketedVariant(s, x) ==
    IF x \in KeyedContext
    THEN PickRolloutVariant(s.rollout, s.bucket[x])
    ELSE None

ResolveStrategyMatch(s, x) ==
    IF BucketedVariant(s, x) = None
    THEN ResultFor(s, s.defaultVariant, "TARGETING_MATCH")
    ELSE ResultFor(s, BucketedVariant(s, x), "SPLIT")

\* DefaultResult takes the first default strategy in the order of the query that
\* loaded the flag.  The repositories order by priority and the snapshot by
\* (is_default, priority): both put the defaults in the order of priority.
DefaultResult(f, reason) ==
    LET defaults == {p \in DOMAIN f.rules : f.rules[p].isDefault}
    IN  IF defaults = {} THEN NoVariant(reason)
        ELSE LET s == f.rules[Min(defaults)]
             IN  ResultFor(s, s.defaultVariant, reason)

\* The first strategy that does not say no decides, an error included.
Evaluate(f, x) ==
    LET Outcome(p) == ConditionOutcome(f.rules[p].condition, x)
        deciding == {p \in DOMAIN f.rules : Outcome(p) # "no"}
    IN  CASE f.archived \/ ~f.enabled -> DefaultResult(f, "DISABLED")
          [] OTHER ->
             IF deciding = {} THEN NoVariant("NO_MATCH")
             ELSE IF Outcome(Min(deciding)) = "error" THEN Failure
             ELSE ResolveStrategyMatch(f.rules[Min(deciding)], x)

\* The outcome of f once it is known what its prerequisite came to.
AfterPrerequisite(f, prerequisite, x) ==
    IF prerequisite.variant # f.prereqVariant
    THEN DefaultResult(f, "PREREQUISITE_FAILED")
    ELSE Evaluate(f, x)

\* Mutant of ResolveLoaded: the flag being evaluated counts twice.
ResolveLoadedShallow(flags, key, x) ==
    LET resolve[k \in DOMAIN flags, visited \in SUBSET FlagKey] ==
          LET f == flags[k]
          IN  IF f.prereq = None THEN Evaluate(f, x)
              ELSE IF \/ f.prereq \in visited
                      \/ Cardinality(visited) + 1 >= MaxPrerequisiteDepth
                      \/ f.prereq \notin DOMAIN flags
              THEN DefaultResult(f, "PREREQUISITE_FAILED")
              ELSE AfterPrerequisite(
                     f, resolve[f.prereq, visited \cup {f.prereq}], x)
    IN  resolve[key, {key}]

\* resolveLoadedFlag over the flags of one loaded scope: what it answers for a key
\* and the keys that were visited.
Resolving(flags, x) ==
    LET resolve[call \in (DOMAIN flags) \X SUBSET FlagKey] ==
          LET f == flags[call[1]]  visited == call[2]
          IN  IF f.prereq = None THEN Evaluate(f, x)
              ELSE IF \/ f.prereq \in visited
                      \/ Cardinality(visited) >= MaxPrerequisiteDepth
                      \/ f.prereq \notin DOMAIN flags
              THEN DefaultResult(f, "PREREQUISITE_FAILED")
              ELSE AfterPrerequisite(
                     f, resolve[<<f.prereq, visited \cup {f.prereq}>>], x)
    IN  resolve

ResolveLoaded(flags, key, x) == Resolving(flags, x)[<<key, {key}>>]

EvaluateLoaded(flags, key, x) ==
    IF key \in DOMAIN flags THEN ResolveLoaded(flags, key, x) ELSE Failure

-----------------------------------------------------------------------------
(* What may be stored. *)

\* Validate: orders that differ, and variants of the flag's type.
Validates(type, drafts) ==
    /\ IsInjective([i \in DOMAIN drafts |-> drafts[i].order])
    /\ \A i \in DOMAIN drafts :
          \A v \in DOMAIN drafts[i].strategy.variants :
             drafts[i].strategy.variants[v] = type
==============================================================================
