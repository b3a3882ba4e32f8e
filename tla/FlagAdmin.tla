------------------------------ MODULE FlagAdmin ------------------------------
(***************************************************************************)
(* The flags of one project and the requests that change them:             *)
(* flag.Service over postgresFlagRepository.  Create is three transactions *)
(* in a row; Update reads the flag before its transaction and writes in it *)
(* what it read, as patched; ReplaceStrategies deletes the rows its DELETE *)
(* sees and inserts its own, so that two of them that overlap, at the      *)
(* isolation level of the database (read committed), do not see each       *)
(* other's rows.                                                           *)
(*                                                                         *)
(* The rows of strategies and environment configs are part of their flag   *)
(* here: the foreign keys that AutoMigrate makes keep them from outliving  *)
(* it, and fail the insert that comes too late.                            *)
(***************************************************************************)
EXTENDS Targeting

CONSTANTS
    Environment,
    Request,    \* slots for requests in progress
    Creation,   \* inputs of POST: type, prereq, prereqVariant, strategies, enabled
    Patch,      \* inputs of PATCH, where a field may be Keep
    Keep,       \* a field that the request leaves out
    Buckets,    \* what a uuid may hash the subjects to
    MaxChanges  \* bound: transactions that commit

ASSUME ChangesAssumption ==
    MaxChanges \in Nat /\ Buckets \subseteq [KeyedContext -> 0 .. Whole - 1]

Drafts == Seq([order : Priority, strategy : Strategy])

\* What the handlers take, and Validate looks at.
ASSUME InputAssumption ==
    /\ Creation \subseteq
          [type : FlagType, prereq : FlagKey \cup {None},
           prereqVariant : Variant \cup {None}, strategies : Drafts, enabled : BOOLEAN]
    /\ Patch \subseteq
          [prereq : FlagKey \cup {None, Keep}, prereqVariant : Variant \cup {None, Keep},
           strategies : Drafts \cup {Keep}, enabled : BOOLEAN \cup {Keep}]
    /\ Keep \notin Drafts \cup BOOLEAN

VARIABLES
    flag,       \* flag[k]: the flag that has key k, None if there is none
    changes,    \* transactions committed
    pc,         \* pc[r]: where the request in slot r is
    request     \* request[r]: what it carries, None when idle

vars == <<flag, changes, pc, request>>

\* What a request carries: one that creates a flag, and one that updates it.
Making ==
    [key : FlagKey, env : Environment, id : Nat, input : Creation, seen : SUBSET Nat]
Changing ==
    [key : FlagKey, env : Environment, id : Nat, input : Patch, seen : SUBSET Nat,
     prereq : FlagKey \cup {None}, prereqVariant : Variant \cup {None}]

ASSUME NoneAssumption == None \notin FlagKey \cup Making \cup Changing

\* `id` stands for the uuid: the key and the number of the transaction.
FlagRow(f) ==
    /\ f.id \in 1 .. MaxChanges
    /\ f.type \in FlagType
    /\ f.prereq \in FlagKey \cup {None} /\ f.prereqVariant \in Variant \cup {None}
    /\ f.archived \in BOOLEAN
    /\ f.enabled \in [Environment -> BOOLEAN \cup {None}]
    /\ DOMAIN f.rules = Environment
    /\ \A e \in Environment : DOMAIN f.rules[e] \subseteq Priority

IsRow(s) ==
    /\ s.condition \in Condition \cup {Absent, Null}
    /\ s.isDefault \in BOOLEAN /\ s.defaultVariant \in Variant
    /\ s.save \in 1 .. changes /\ s.bucket \in Buckets

TypeOK ==
    /\ \A k \in FlagKey : flag[k] # None =>
          /\ FlagRow(flag[k])
          /\ \A e \in Environment, p \in Priority :
                p \in DOMAIN flag[k].rules[e] => IsRow(flag[k].rules[e][p])
    /\ changes \in 0 .. MaxChanges
    /\ pc \in [Request -> {"idle", "created", "createTx", "configuring",
                           "updating", "updateTx"}]
    /\ \A r \in Request : pc[r] = "idle" <=> request[r] = None

Init ==
    /\ flag = [k \in FlagKey |-> None]
    /\ changes = 0
    /\ pc = [r \in Request |-> "idle"]
    /\ request = [r \in Request |-> None]

-----------------------------------------------------------------------------
(* What a query finds. *)

Load(f, e) ==
    [archived |-> f.archived, enabled |-> f.enabled[e] = TRUE,
     rules |-> f.rules[e], prereq |-> f.prereq, prereqVariant |-> f.prereqVariant]

Loaded(e) == [k \in {j \in FlagKey : flag[j] # None} |-> Load(flag[k], e)]

\* Mutant of Stands: rows are found by the key of the flag.
StandsByKey(r) == flag[request[r].key] # None

\* The flag a request found or made is still there.
Stands(r) ==
    /\ flag[request[r].key] # None
    /\ flag[request[r].key].id = request[r].id

-----------------------------------------------------------------------------
(* ReplaceStrategies. *)

Saves(rules) == {rules[p].save : p \in DOMAIN rules}

\* The transactions whose rows the request's DELETE finds, and takes away.
Seen(r) == Saves(flag[request[r].key].rules[request[r].env])

Survivors(rules, seen) == {p \in DOMAIN rules : rules[p].save \notin seen}

Orders(drafts) == {drafts[i].order : i \in DOMAIN drafts}

\* ToModels: new rows, with ids of their own.
NewRow(strategy, save, bucket) ==
    [condition |-> strategy.condition, isDefault |-> strategy.isDefault,
     defaultVariant |-> strategy.defaultVariant, rollout |-> strategy.rollout,
     variants |-> strategy.variants, save |-> save, bucket |-> bucket]

Replaced(rules, seen, drafts, save, bucket) ==
    [p \in Survivors(rules, seen) \cup Orders(drafts) |->
       IF p \in Survivors(rules, seen) THEN rules[p]
       ELSE LET i == CHOOSE j \in DOMAIN drafts : drafts[j].order = p
            IN  NewRow(drafts[i].strategy, save, bucket[p])]

\* Mutant of CanReplace: no unique index.
CanReplaceAlways(rules, seen, drafts) == seen \subseteq Saves(rules)

\* The rows to delete are still there: had another request taken them, the
\* DELETE would have waited for it and met its rows instead, to take them in
\* their turn (which is DeleteOldRules later) or to fail on their catalogs.  And
\* the unique index on (flag, environment, priority) lets the insert through.
CanReplace(rules, seen, drafts) ==
    /\ seen \subseteq Saves(rules)
    /\ Survivors(rules, seen) \cap Orders(drafts) = {}

SetRules(f, r, bucket) ==
    [f EXCEPT !.rules[request[r].env] =
       Replaced(@, request[r].seen, request[r].input.strategies,
                changes + 1, bucket)]

Start(r, where, what) ==
    /\ pc' = [pc EXCEPT ![r] = where]
    /\ request' = [request EXCEPT ![r] = what]

Finish(r) == Start(r, "idle", None)

-----------------------------------------------------------------------------
(* Create. *)

\* The row, in a transaction of its own; the unique index on the key refuses a
\* second one.
InsertFlag(r, k, e, input) ==
    /\ pc[r] = "idle" /\ changes < MaxChanges
    /\ Validates(input.type, input.strategies)
    /\ flag[k] = None
    /\ flag' = [flag EXCEPT ![k] =
         [id |-> changes + 1, type |-> input.type, archived |-> FALSE,
          prereq |-> input.prereq, prereqVariant |-> input.prereqVariant,
          enabled |-> [d \in Environment |-> None],
          rules |-> [d \in Environment |-> <<>>]]]
    /\ changes' = changes + 1
    /\ Start(r, "created", [key |-> k, env |-> e, id |-> changes + 1,
                            input |-> input, seen |-> {}])

DeleteOldRules(r, from, to) ==
    /\ pc[r] = from /\ Stands(r)
    /\ Start(r, to, [request[r] EXCEPT !.seen = Seen(r)])
    /\ UNCHANGED <<flag, changes>>

BeginCreateRules(r) == DeleteOldRules(r, "created", "createTx")

CommitCreateRules(r) ==
    LET q == request[r]
    IN  /\ pc[r] = "createTx" /\ changes < MaxChanges
        /\ Stands(r)
        /\ CanReplace(flag[q.key].rules[q.env], q.seen, q.input.strategies)
        /\ \E bucket \in [Orders(q.input.strategies) -> Buckets] :
              flag' = [flag EXCEPT ![q.key] = SetRules(@, r, bucket)]
        /\ changes' = changes + 1
        /\ Start(r, "configuring", q)

\* UpsertEnvironmentConfig: an environment without a row gets one, where what
\* gorm inserts for the zero value FALSE is the default of the column, TRUE.
Upserted(enabled, wanted) == IF enabled = None THEN TRUE ELSE wanted

\* The switch, in a transaction of its own; FindByKey after it only reads.
Configure(r) ==
    LET q == request[r]
    IN  /\ pc[r] = "configuring" /\ changes < MaxChanges
        /\ Stands(r)
        /\ flag' = [flag EXCEPT
                        ![q.key].enabled[q.env] = Upserted(@, q.input.enabled)]
        /\ changes' = changes + 1
        /\ Finish(r)

-----------------------------------------------------------------------------
(* Update. *)

CoreChanged(input) == input.prereq # Keep \/ input.prereqVariant # Keep

\* Get, the patched copy of the flag, and the check of the new strategies
\* against the type that was read.
ReadForUpdate(r, k, e, input) ==
    /\ pc[r] = "idle"
    /\ flag[k] # None
    /\ input.strategies # Keep => Validates(flag[k].type, input.strategies)
    /\ Start(r, "updating",
         [key |-> k, env |-> e, id |-> flag[k].id, input |-> input, seen |-> {},
          prereq |-> IF input.prereq = Keep
                     THEN flag[k].prereq ELSE input.prereq,
          prereqVariant |-> IF input.prereqVariant = Keep
                            THEN flag[k].prereqVariant ELSE input.prereqVariant])
    /\ UNCHANGED <<flag, changes>>

\* An UpdateCore comes first and waits for another one of the same flag.
BeginUpdate(r) ==
    /\ DeleteOldRules(r, "updating", "updateTx")
    /\ CoreChanged(request[r].input) =>
          ~\E q \in Request : /\ pc[q] = "updateTx" /\ CoreChanged(request[q].input)
                             /\ request[q].id = request[r].id

\* Mutant of SetCore: the core is written by every update.
SetCoreAlways(f, r) ==
    [f EXCEPT !.prereq = request[r].prereq,
              !.prereqVariant = request[r].prereqVariant]

\* UpdateCore: all the core fields, as read and patched.
SetCore(f, r) ==
    IF CoreChanged(request[r].input)
    THEN [f EXCEPT !.prereq = request[r].prereq,
                   !.prereqVariant = request[r].prereqVariant]
    ELSE f

SetEnabled(f, r) ==
    IF request[r].input.enabled # Keep
    THEN [f EXCEPT !.enabled[request[r].env] = Upserted(@, request[r].input.enabled)]
    ELSE f

\* The transaction of Update; the collaborator it adds last needs the flag to
\* stand even if nothing else does.
CommitUpdate(r) ==
    LET q == request[r]
        drafts == q.input.strategies
        f == SetEnabled(SetCore(flag[q.key], r), r)
    IN  /\ pc[r] = "updateTx" /\ changes < MaxChanges
        /\ Stands(r)
        /\ \/ drafts = Keep /\ flag' = [flag EXCEPT ![q.key] = f]
           \/ /\ drafts # Keep
              /\ CanReplace(flag[q.key].rules[q.env], q.seen, drafts)
              /\ \E bucket \in [Orders(drafts) -> Buckets] :
                    flag' = [flag EXCEPT ![q.key] = SetRules(f, r, bucket)]
        /\ changes' = changes + 1
        /\ Finish(r)

-----------------------------------------------------------------------------
(* The rest. *)

\* An error of the database, of which a refused insert is one, a client that is
\* gone or a server that stops: what has not committed never does.
Fail(r) ==
    /\ pc[r] # "idle"
    /\ Finish(r)
    /\ UNCHANGED <<flag, changes>>

SetArchived(k, archived) ==
    /\ changes < MaxChanges
    /\ flag[k] # None
    /\ flag' = [flag EXCEPT ![k].archived = archived]
    /\ changes' = changes + 1
    /\ UNCHANGED <<pc, request>>

DeleteFlag(k) ==
    /\ changes < MaxChanges
    /\ flag[k] # None
    /\ flag' = [flag EXCEPT ![k] = None]
    /\ changes' = changes + 1
    /\ UNCHANGED <<pc, request>>

Administer ==
    \/ \E r \in Request, k \in FlagKey, e \in Environment :
          \/ \E input \in Creation : InsertFlag(r, k, e, input)
          \/ \E input \in Patch : ReadForUpdate(r, k, e, input)
    \/ \E r \in Request :
          \/ BeginCreateRules(r) \/ CommitCreateRules(r) \/ Configure(r)
          \/ BeginUpdate(r) \/ CommitUpdate(r)
          \/ Fail(r)
    \/ \E k \in FlagKey :
          \/ \E archived \in BOOLEAN : SetArchived(k, archived)
          \/ DeleteFlag(k)

Next == Administer

Spec == Init /\ [][Next]_vars

-----------------------------------------------------------------------------
(* Properties. *)

\* No evaluation answers with a value that is not of the flag's type, whatever
\* updates of an older flag with the same key are under way: what the check of
\* ValidateVariantValues is for (strategy.go).
AnswersAreTyped ==
    \A e \in Environment, x \in Context :
       \A k \in DOMAIN Loaded(e) :
          EvaluateLoaded(Loaded(e), k, x).type \in {flag[k].type, None}

\* The strategies of an environment are those of one request, never some of one
\* and some of another: ReplaceStrategies is said to replace them atomically
\* (flag_repository.go).
RulesComeFromOneSave ==
    \A k \in FlagKey, e \in Environment :
       flag[k] # None =>
          LET rules == flag[k].rules[e]
          IN  \A p, q \in DOMAIN rules : rules[p].save = rules[q].save

SameFlag(k) == flag[k] # None /\ flag'[k] # None /\ flag[k].id = flag'[k].id

\* The request that commits in this step, if it is about flag k.
Commits(r, k) ==
    /\ pc[r] \in {"createTx", "configuring", "updateTx"} /\ pc'[r] # pc[r]
    /\ request[r].key = k /\ request[r].id = flag[k].id

\* The rules of an environment, its switch, the core of a flag and its archiving
\* change only by a request that is about just that: an update that carries a
\* copy of the flag it read takes none of it back (Service.Update).
PartsAreIndependent ==
    [][\A k \in FlagKey : SameFlag(k) =>
         /\ \A e \in Environment :
              /\ flag'[k].rules[e] # flag[k].rules[e] =>
                    \E r \in Request : /\ Commits(r, k) /\ request[r].env = e
                                       /\ request[r].input.strategies # Keep
              /\ flag'[k].enabled[e] # flag[k].enabled[e] =>
                    \E r \in Request : /\ Commits(r, k) /\ request[r].env = e
                                       /\ request[r].input.enabled # Keep
         /\ \/ flag'[k].prereq # flag[k].prereq
            \/ flag'[k].prereqVariant # flag[k].prereqVariant
            => \E r \in Request : Commits(r, k) /\ CoreChanged(request[r].input)
         /\ flag'[k].archived # flag[k].archived =>
               \A r \in Request : ~Commits(r, k)]_vars

\* The chains of n flags from k on, each the prerequisite of the one before.
Chains(k, n) ==
    {c \in [1 .. n -> FlagKey] :
       /\ c[1] = k
       /\ \A i \in 1 .. n : flag[c[i]] # None
       /\ \A i \in 1 .. n - 1 : flag[c[i]].prereq = c[i + 1]}
ChainHolds(k) ==
    \E n \in 1 .. Min({MaxPrerequisiteDepth, Cardinality(FlagKey)}) :
       \E c \in Chains(k, n) : flag[c[n]].prereq = None

\* What a flag answers follows from what its prerequisite answers to the same
\* context, as long as its chain of prerequisites ends and is not too long: a
\* bulk answer does not contradict itself (resolveLoadedFlag).
PrerequisitesHold ==
    \A e \in Environment, x \in Context :
       \A k \in DOMAIN Loaded(e) :
          flag[k].prereq # None /\ ChainHolds(k) =>
             EvaluateLoaded(Loaded(e), k, x) =
                AfterPrerequisite(Loaded(e)[k],
                   EvaluateLoaded(Loaded(e), flag[k].prereq, x), x)

\* "cyclical prerequisites must not hang and should fail closed"
\* (flag_test.go:429).
CyclesFailClosed ==
    \A k \in FlagKey, e \in Environment, x \in Context :
       (\E n \in 1 .. Cardinality(FlagKey) : \E c \in Chains(k, n) : flag[c[n]].prereq = k)
       => EvaluateLoaded(Loaded(e), k, x).reason = "PREREQUISITE_FAILED"
==============================================================================
