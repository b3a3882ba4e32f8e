--------------------------- MODULE StrategyEditor ---------------------------
(***************************************************************************)
(* The strategies on the page of a flag (flag-editor.tsx): their order,    *)
(* their variants, whether they are standard or gradual, and the           *)
(* prerequisite.  A flag of booleans has a switch or one slider for each   *)
(* strategy, which hide its variants and its rollout; the other types show *)
(* both.  Conditions are left to RuleEditor, and texts that are sent as    *)
(* they are typed (name, description, tags) are left out.                  *)
(***************************************************************************)
EXTENDS Integers, Sequences, FiniteSets, SequencesExt, FiniteSetsExt

CONSTANTS
    Opened,         \* flags that the page is opened for
    TypedKey, TypedValue, TypedPercentage,  \* what can be typed into the fields
    Offered,        \* Offered[k]: variants of flag k, for the flags but this one
    MaxChanges,     \* bound: changes made to the page
    MaxStrategies   \* bound: strategies on the page, and parts of each

Untyped == -1       \* a percentage whose field is empty

\* Values are JSON texts, but for a flag of strings, where they are any texts.
Variant(key, value) == [key |-> key, value |-> value]
Bucket(variant, percentage) == [variant |-> variant, percentage |-> percentage]
Prerequisite(flag, variant) == [flag |-> flag, variant |-> variant]

\* A strategy, as far as the API checks it: a rollout can have any percentages, and
\* the default, and the variants of the buckets, need not be variants.
IsStrategy(s) ==
    /\ s = [variants |-> s.variants, default |-> s.default, rollout |-> s.rollout]
    /\ s.variants \in Seq(ToSet(s.variants)) /\ s.rollout \in Seq(ToSet(s.rollout))
    /\ \A bucket \in ToSet(s.rollout) :
          /\ bucket = Bucket(bucket.variant, bucket.percentage)
          /\ bucket.percentage \in Int
AreStrategies(list) ==
    list \in Seq(ToSet(list)) /\ \A s \in ToSet(list) : IsStrategy(s)
IsFlag(flag) ==
    /\ flag = [type |-> flag.type, strategies |-> flag.strategies,
               prerequisite |-> flag.prerequisite]
    /\ AreStrategies(flag.strategies)
    /\ flag.prerequisite = Prerequisite(flag.prerequisite.flag, flag.prerequisite.variant)

ASSUME OpenedAssumption == Opened # {} /\ \A flag \in Opened : IsFlag(flag)
ASSUME ChangesAssumption == TypedPercentage \subseteq Int /\ MaxChanges \in Nat

VARIABLES
    saved,          \* the flag in the database
    loaded,         \* the flag as the page has fetched it
    strategies, prerequisite,   \* what is on the page
    sent,           \* <<flag>> while a PATCH with this body is in flight, else <<>>
    changes

listVars == <<saved, loaded, strategies, prerequisite, sent, changes>>

-----------------------------------------------------------------------------
(* The helpers of the page. *)

StrategyTypeOf(s) == IF s.rollout = <<>> THEN "standard" ELSE "gradual"

ClampPercentage(n) == IF n = Untyped THEN Untyped ELSE Max({0, Min({100, n})})

\* The expression a || b of two texts.
Or(a, b) == IF a # "" THEN a ELSE b

FirstKey(variants) == IF variants = <<>> THEN "" ELSE Head(variants).key

BooleanVariantKey(variants, value) ==
    LET found == {j \in DOMAIN variants : variants[j].value = value}
    IN  IF found = {} THEN "" ELSE variants[Min(found)].key
OnVariant(s) == BooleanVariantKey(s.variants, "true")
OffVariant(s) == BooleanVariantKey(s.variants, "false")

StarterVariants(type) ==
    CASE type = "boolean" -> <<Variant("on", "true"), Variant("off", "false")>>
      [] type = "number"  -> <<Variant("default", "0")>>
      [] type = "object"  -> <<Variant("default", "{}")>>
      [] OTHER            -> <<Variant("default", "")>>

\* The slider of a boolean strategy stands for one bucket.
OnAt(s, percentage) == <<Bucket(Or(OnVariant(s), FirstKey(s.variants)), percentage)>>

Serving(s, default, rollout) ==
    [variants |-> s.variants, default |-> default, rollout |-> rollout]

NewStrategy(seed, type) ==
    LET s == [variants |-> IF seed = <<>> THEN <<Variant("", "")>> ELSE seed]
    IN  Serving(s, Or(OffVariant(s), FirstKey(s.variants)),
                IF type = "gradual" THEN OnAt(s, 0) ELSE <<>>)

-----------------------------------------------------------------------------
(* The edits. *)

Edit(list) ==
    /\ changes < MaxChanges
    /\ strategies' = list /\ changes' = changes + 1
    /\ UNCHANGED <<saved, loaded, prerequisite, sent>>

AddStrategy(type) ==
    /\ Len(strategies) < MaxStrategies
    /\ LET seed == IF strategies = <<>> THEN StarterVariants(loaded.type)
                   ELSE Head(strategies).variants
       IN  Edit(Append(strategies, NewStrategy(seed, type)))

RemoveStrategy(i) == Edit(RemoveAt(strategies, i))

MoveStrategy(i, destination) ==
    /\ destination \in {i - 1, i + 1} \cap DOMAIN strategies
    /\ Edit([strategies EXCEPT ![i] = strategies[destination],
                               ![destination] = strategies[i]])

Update(i, s) == Edit([strategies EXCEPT ![i] = s])

\* Mutant of SetStrategyType: what the switch chose remains the default.
SetStrategyTypeOnly(i, type) ==
    LET s == strategies[i] IN
    /\ StrategyTypeOf(s) # type
    /\ Update(i, [s EXCEPT !.rollout = IF type = "standard" THEN <<>> ELSE OnAt(s, 0)])

\* Off, or on for nobody, to begin with.
SetStrategyType(i, type) ==
    LET s == strategies[i] IN
    /\ StrategyTypeOf(s) # type
    /\ Update(i, Serving(s, Or(OffVariant(s), s.default),
                         IF type = "standard" THEN <<>> ELSE OnAt(s, 0)))

HasBoth(s) == OnVariant(s) # "" /\ OffVariant(s) # ""

IsBooleanFlag == loaded.type = "boolean"

SetBooleanStandardValue(i, enabled) ==
    LET s == strategies[i] IN
    /\ IsBooleanFlag /\ StrategyTypeOf(s) = "standard" /\ HasBoth(s)
    /\ Update(i, Serving(s, Or(IF enabled THEN OnVariant(s) ELSE OffVariant(s), s.default),
                         <<>>))

SetBooleanRolloutPercentage(i, n) ==
    LET s == strategies[i] IN
    /\ IsBooleanFlag /\ StrategyTypeOf(s) = "gradual"
    /\ Update(i, Serving(s, Or(OffVariant(s), s.default), OnAt(s, ClampPercentage(n))))

Keys(s) == {s.variants[j].key : j \in DOMAIN s.variants} \ {""}

AddVariant(i) ==
    /\ Len(strategies[i].variants) < MaxStrategies
    /\ Update(i, [strategies[i] EXCEPT !.variants = Append(@, Variant("", ""))])
UpdateVariant(i, j, v) == Update(i, [strategies[i] EXCEPT !.variants[j] = v])
RemoveVariant(i, j) == Update(i, [strategies[i] EXCEPT !.variants = RemoveAt(@, j)])

\* The fields of the variants, of which one remains, and the choice of the one
\* that the strategy answers with.
EditVariants(i) ==
    LET s == strategies[i] IN
    /\ ~ IsBooleanFlag
    /\ \/ AddVariant(i)
       \/ \E j \in DOMAIN s.variants :
             \/ \E key \in TypedKey : UpdateVariant(i, j, [s.variants[j] EXCEPT !.key = key])
             \/ \E value \in TypedValue :
                   UpdateVariant(i, j, [s.variants[j] EXCEPT !.value = value])
             \/ Len(s.variants) > 1 /\ RemoveVariant(i, j)
       \/ \E key \in Keys(s) : Update(i, [s EXCEPT !.default = key])

AddRolloutBucket(i) ==
    /\ Len(strategies[i].rollout) < MaxStrategies
    /\ Update(i, [strategies[i] EXCEPT !.rollout = Append(@, Bucket("", Untyped))])
UpdateRolloutBucket(i, b, bucket) == Update(i, [strategies[i] EXCEPT !.rollout[b] = bucket])
RemoveRolloutBucket(i, b) == Update(i, [strategies[i] EXCEPT !.rollout = RemoveAt(@, b)])

\* The fields of the rollout; without its last bucket a strategy is standard.
EditRollout(i) ==
    LET s == strategies[i] IN
    /\ ~ IsBooleanFlag /\ StrategyTypeOf(s) = "gradual"
    /\ \/ AddRolloutBucket(i)
       \/ \E b \in DOMAIN s.rollout :
             \/ \E key \in Keys(s) :
                   UpdateRolloutBucket(i, b, [s.rollout[b] EXCEPT !.variant = key])
             \/ \E n \in TypedPercentage :
                   UpdateRolloutBucket(i, b, [s.rollout[b] EXCEPT !.percentage = ClampPercentage(n)])
             \/ RemoveRolloutBucket(i, b)

\* Mutant of SelectPrerequisite: the variant stays.
SelectPrerequisiteOnly(k) ==
    /\ changes < MaxChanges
    /\ prerequisite' = [prerequisite EXCEPT !.flag = k] /\ changes' = changes + 1
    /\ UNCHANGED <<saved, loaded, strategies, sent>>

\* Another flag, or "" for none.
SelectPrerequisite(k) ==
    /\ changes < MaxChanges
    /\ prerequisite' = Prerequisite(k, "") /\ changes' = changes + 1
    /\ UNCHANGED <<saved, loaded, strategies, sent>>

SelectPrerequisiteVariant(key) ==
    /\ changes < MaxChanges /\ prerequisite.flag # ""
    /\ key \in Offered[prerequisite.flag]
    /\ prerequisite' = [prerequisite EXCEPT !.variant = key] /\ changes' = changes + 1
    /\ UNCHANGED <<saved, loaded, strategies, sent>>

EditsStrategies ==
    \/ \E type \in {"standard", "gradual"} :
          AddStrategy(type) \/ \E i \in DOMAIN strategies : SetStrategyType(i, type)
    \/ \E i \in DOMAIN strategies :
          \/ RemoveStrategy(i) \/ EditVariants(i) \/ EditRollout(i)
          \/ \E destination \in DOMAIN strategies : MoveStrategy(i, destination)
          \/ \E enabled \in BOOLEAN : SetBooleanStandardValue(i, enabled)
          \/ \E n \in TypedPercentage : SetBooleanRolloutPercentage(i, n)
    \/ \E k \in DOMAIN Offered \cup {""} : SelectPrerequisite(k)
    \/ \E key \in UNION {Offered[k] : k \in DOMAIN Offered} : SelectPrerequisiteVariant(key)

-----------------------------------------------------------------------------
(* The page and the API. *)

\* Number("") is 0, and every text but "true" is false; JSON.parse throws
\* instead of sending what is no JSON.
ParseVariantValue(type, raw) ==
    CASE type = "boolean" -> IF raw = "true" THEN "true" ELSE "false"
      [] type = "number"  -> IF raw = "" THEN "0" ELSE raw
      [] OTHER            -> raw
Throws(type, raw) == type = "object" /\ raw \notin {"true", "false", "0", "{}"}

AllVariants(list) == UNION {ToSet(list[i].variants) : i \in DOMAIN list}

BodyBucket(bucket) == Bucket(bucket.variant, Max({0, bucket.percentage}))
BodyVariant(type, v) == Variant(v.key, ParseVariantValue(type, v.value))
BodyStrategy(type, s) ==
    [variants |-> [j \in DOMAIN s.variants |-> BodyVariant(type, s.variants[j])],
     default  |-> s.default,
     rollout  |-> [b \in DOMAIN s.rollout |-> BodyBucket(s.rollout[b])]]
BodyPrerequisite(p) == Prerequisite(p.flag, IF p.flag = "" THEN "" ELSE p.variant)
Body(type, list) == [i \in DOMAIN list |-> BodyStrategy(type, list[i])]

SendStrategies ==
    /\ \A v \in AllVariants(strategies) : ~ Throws(loaded.type, v.value)
    /\ sent' = <<[type |-> loaded.type, strategies |-> Body(loaded.type, strategies),
                  prerequisite |-> BodyPrerequisite(prerequisite)]>>
    /\ UNCHANGED <<saved, loaded, strategies, prerequisite, changes>>

\* Validate: every value is of the flag's type, as NaN, sent as null, is not.
ValuesOf(type) ==
    CASE type = "boolean" -> {"true", "false"}
      [] type = "number"  -> {"0"}
      [] type = "object"  -> {"{}"}
      [] OTHER            -> TypedValue \cup {""}

StoreStrategies ==
    /\ \A v \in AllVariants(Head(sent).strategies) : v.value \in ValuesOf(saved.type)
    /\ saved' = Head(sent) /\ sent' = <<>>
    /\ UNCHANGED <<loaded, strategies, prerequisite, changes>>

RefuseStrategies ==
    /\ sent' = <<>>
    /\ UNCHANGED <<saved, loaded, strategies, prerequisite, changes>>

ShowStrategies(flag) ==
    loaded' = flag /\ strategies' = flag.strategies /\ prerequisite' = flag.prerequisite

LoadStrategies == ShowStrategies(saved) /\ UNCHANGED <<saved, sent, changes>>

-----------------------------------------------------------------------------
(* What the flag then serves. *)

\* A subject in a bucket of 0 to 99, for which the strategy matches.
PickRolloutVariant(s, bucket) ==
    LET cumulative[b \in 0 .. Len(s.rollout)] ==
          IF b = 0 THEN 0 ELSE cumulative[b - 1] + s.rollout[b].percentage
        reached == {b \in DOMAIN s.rollout : bucket < cumulative[b]}
    IN  IF reached = {} THEN s.default ELSE Or(s.rollout[Min(reached)].variant, s.default)

ServesTrue(s, bucket) ==
    LET found == {j \in DOMAIN s.variants : s.variants[j].key = PickRolloutVariant(s, bucket)}
    IN  found # {} /\ s.variants[Min(found)].value = "true"

RolloutPercentage(s) ==
    LET on == {b \in DOMAIN s.rollout : s.rollout[b].variant = OnVariant(s)}
    IN  s.rollout[IF on = {} THEN 1 ELSE Min(on)].percentage

\* The position of a boolean strategy's switch or slider, as a percentage.
ShownPercentage(s) ==
    IF StrategyTypeOf(s) = "gradual" THEN Max({0, RolloutPercentage(s)})
    ELSE IF OnVariant(s) # "" /\ s.default = OnVariant(s) THEN 100 ELSE 0

KeysTellValues(s) ==
    \A v, w \in ToSet(s.variants) : v.key = w.key => v.value = w.value

\* Once a strategy of a boolean flag has been made or edited, the percentage on
\* the page is the share of the subjects that it will be on for, whatever its
\* default and its rollout were before and however often it changes its kind, as
\* the page shows neither; unless the API gave it no variant for one of the two,
\* or one key for variants of both.
BooleanIsAsShown ==
    \A i \in DOMAIN strategies :
       LET s == strategies[i]
           body == BodyStrategy(loaded.type, s)
       IN  (/\ IsBooleanFlag /\ HasBoth(s) /\ KeysTellValues(s)
            /\ s \notin ToSet(loaded.strategies))
             => Cardinality({bucket \in 0 .. 99 : ServesTrue(body, bucket)})
                  = ShownPercentage(s)

Percentages(list) ==
    UNION {{bucket.percentage : bucket \in ToSet(s.rollout)} : s \in ToSet(list)}

\* A percentage is one, or is not typed yet, unless the API has it so; only the API
\* makes a strategy without variants.
IsStrategyRow(s) ==
    /\ \A b \in DOMAIN s.rollout :
          s.rollout[b].percentage \in {Untyped} \cup 0 .. 100 \cup Percentages(loaded.strategies)
    /\ s.variants = <<>> => \E t \in ToSet(loaded.strategies) : t.variants = <<>>

\* Another prerequisite than the stored one has a variant of its flag, or none yet.
IsChosen(p) == p.variant \in {""} \cup IF p.flag = "" THEN {} ELSE Offered[p.flag]
IsPrerequisite ==
    /\ prerequisite = Prerequisite(prerequisite.flag, prerequisite.variant)
    /\ prerequisite # loaded.prerequisite => IsChosen(prerequisite)

ListTypeOK ==
    /\ IsFlag(saved) /\ IsFlag(loaded) /\ AreStrategies(strategies)
    /\ sent = <<>> \/ (sent = <<Head(sent)>> /\ IsFlag(Head(sent)))
    /\ \A i \in DOMAIN strategies : IsStrategyRow(strategies[i])
    /\ IsPrerequisite
    /\ loaded.type = saved.type /\ (sent # <<>> => Head(sent).type = saved.type)
    /\ changes \in 0 .. MaxChanges
=============================================================================
