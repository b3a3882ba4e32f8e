---------------------------- MODULE RuntimePlane ----------------------------
(***************************************************************************)
(* The runtime plane from end to end: the control plane's tables and the   *)
(* administrative commits that change them, ControlSource.Load reading     *)
(* them query by query, the Syncer that carries the result into the Store  *)
(* of the data plane, and the OFREP traffic served from there.  The store  *)
(* and its traffic are the module RuntimeStore, here fed by the syncer.    *)
(*                                                                         *)
(* One project is modelled, so a scope is an environment.  The contents of *)
(* a row that carries a timestamp are the number of the commit that wrote  *)
(* it, 0 when there is no row: no two writes leave the same contents, but  *)
(* a deletion does restore what there was before the creation.             *)
(***************************************************************************)
EXTENDS Naturals

CONSTANTS
    Key, Environment, KeyScope, Flag, Param, ParamValue,
    Stream, Client, None,
    MaxCommits,     \* bound: administrative commits in a behaviour
    MaxFailures,    \* bound: synchronizations that fail
    MaxRestarts     \* bound: restarts of the data plane

ASSUME KeyScopeAssumption == KeyScope \in [Key -> Environment]
ASSUME BoundsAssumption ==
    MaxCommits \in Nat /\ MaxFailures \in Nat /\ MaxRestarts \in Nat

Stamp == 0 .. MaxCommits

\* A parameter row has no timestamp in the snapshot: a value and a version.
ParamRow == [value : ParamValue, version : 1 .. MaxCommits]

\* What a snapshot holds of the flags: the rows of feature_flags, and under
\* each flag its environment configurations, its strategies, and under these
\* their variants.
PerEnvironment == [Environment -> [Flag -> Stamp]]
FlagTables ==
    [core : [Flag -> Stamp], configs : PerEnvironment,
     rules : PerEnvironment, variants : PerEnvironment]
ParamTables == [Environment -> [Param -> ParamRow \cup {None}]]

ASSUME NoneAssumption ==
    /\ None \notin ParamRow
    /\ None \notin FlagTables
    /\ None \notin [keys : SUBSET Key, flags : FlagTables, params : ParamTables]

VARIABLES
    \* RuntimeStore's state.
    current, previous, replacing, subscribers, signal, streamPc, streamKey,
    sent, clientPc, clientKey, readEtag, cachedEtag, cachedBody, superseded,
    \* The control plane's tables.
    keyState,       \* project_api_keys: keyState[k] of each key
    core,           \* feature_flags
    born,           \* born[f]: the commit that made flag f, for its id
    configs,        \* flag_environment_configs
    rules,          \* flag_strategies, each with its flag_strategy_variants
    params,         \* parameters
    highest,        \* the highest version each parameter row ever had
    commits,        \* how many commits there were
    \* The syncer.
    loadPc,         \* the query ControlSource.Load runs next
    loaded,         \* the rows the queries before it returned
    lastError,      \* Store.lastError is not empty
    failures, restarts,
    \* History, of use to the properties only.
    dirtyLoad,      \* rows written since the load in progress began
    dirtySync       \* rows written since the last successful load began

Store == INSTANCE RuntimeStore
    WITH Scope <- Environment, FlagSet <- FlagTables, ParamSet <- ParamTables

servingVars ==
    <<current, previous, replacing, subscribers, signal, streamPc, streamKey,
      sent, clientPc, clientKey, readEtag, cachedEtag, cachedBody, superseded>>
flagVars  == <<core, born, configs, rules>>
tableVars == <<keyState, flagVars, params, highest>>
syncVars  == <<loadPc, loaded, lastError, failures, restarts>>
dirtyVars == <<dirtyLoad, dirtySync>>
vars == <<servingVars, tableVars, commits, syncVars, dirtyVars>>

Row == [table : {"key"}, key : Key]
  \cup [table : {"core"}, flag : Flag]
  \cup [table : {"configs", "rules"}, env : Environment, flag : Flag]
  \cup [table : {"param"}, env : Environment, param : Param]

KeyRow(k)       == [table |-> "key", key |-> k]
CoreRow(f)      == [table |-> "core", flag |-> f]
ConfigRow(e, f) == [table |-> "configs", env |-> e, flag |-> f]
RulesRow(e, f)  == [table |-> "rules", env |-> e, flag |-> f]
ParamKeyRow(e, p)  == [table |-> "param", env |-> e, param |-> p]

NoRows   == [e \in Environment |-> [f \in Flag |-> 0]]
NoParams == [e \in Environment |-> [p \in Param |-> None]]
NoFlags  == [core |-> [f \in Flag |-> 0], configs |-> NoRows,
             rules |-> NoRows, variants |-> NoRows]
NothingLoaded == [keys |-> {}, flags |-> NoFlags, params |-> NoParams]

TypeOK ==
    /\ Store!TypeOK
    /\ keyState \in [Key -> {"absent", "active", "revoked"}]
    /\ core \in [Flag -> Stamp]
    /\ born \in [Flag -> Stamp]
    /\ configs \in PerEnvironment
    /\ rules \in PerEnvironment
    /\ params \in ParamTables
    /\ highest \in [Environment -> [Param -> Stamp]]
    /\ commits \in Stamp
    /\ loadPc \in {"idle", "keys", "flags", "configs", "rules", "variants",
                   "params", "loaded"}
    /\ loaded \in Store!Snapshot
    /\ lastError \in BOOLEAN
    /\ failures \in 0 .. MaxFailures
    /\ restarts \in 0 .. MaxRestarts
    /\ dirtyLoad \in SUBSET Row
    /\ dirtySync \in SUBSET Row

Init ==
    /\ Store!Init
    /\ keyState = [k \in Key |-> "absent"]
    /\ core = [f \in Flag |-> 0]
    /\ born = [f \in Flag |-> 0]
    /\ configs = NoRows
    /\ rules = NoRows
    /\ params = NoParams
    /\ highest = [e \in Environment |-> [p \in Param |-> 0]]
    /\ commits = 0
    /\ loadPc = "idle"
    /\ loaded = NothingLoaded
    /\ lastError = FALSE
    /\ failures = 0
    /\ restarts = 0
    /\ dirtyLoad = {}
    /\ dirtySync = {}

-----------------------------------------------------------------------------
(* The commits of the control plane that the snapshot can see.             *)

\* A transaction that writes `rows` commits.
Commit(rows) ==
    /\ commits < MaxCommits
    /\ commits' = commits + 1
    /\ dirtyLoad' = dirtyLoad \cup rows
    /\ dirtySync' = dirtySync \cup rows
    /\ UNCHANGED <<servingVars, syncVars>>

CreateKey(k) ==
    /\ keyState[k] = "absent"
    /\ keyState' = [keyState EXCEPT ![k] = "active"]
    /\ Commit({KeyRow(k)})
    /\ UNCHANGED <<flagVars, params, highest>>

RevokeKey(k) ==
    /\ keyState[k] = "active"
    /\ keyState' = [keyState EXCEPT ![k] = "revoked"]
    /\ Commit({KeyRow(k)})
    /\ UNCHANGED <<flagVars, params, highest>>

\* The first commit of flag.Service.Create: a flag without configuration.
InsertFlag(f) ==
    /\ core[f] = 0
    /\ core' = [core EXCEPT ![f] = commits + 1]
    /\ born' = [born EXCEPT ![f] = commits + 1]
    /\ Commit({CoreRow(f)})
    /\ UNCHANGED <<keyState, configs, rules, params, highest>>

\* What every write under flag f does to the row of the flag: updated_at.
Touched(f) ==
    /\ core[f] # 0
    /\ core' = [core EXCEPT ![f] = commits + 1]
    /\ UNCHANGED <<keyState, born, params, highest>>

\* UpsertEnvironmentConfig, which is a transaction of its own in Create, and
\* in Update when the request carries no strategies.
WriteConfig(e, f) ==
    /\ Touched(f)
    /\ configs' = [configs EXCEPT ![e][f] = commits + 1]
    /\ Commit({CoreRow(f), ConfigRow(e, f)})
    /\ UNCHANGED rules

\* ReplaceStrategies: strategies and variants are deleted and made anew.
WriteRules(e, f) ==
    /\ Touched(f)
    /\ rules' = [rules EXCEPT ![e][f] = commits + 1]
    /\ Commit({CoreRow(f), RulesRow(e, f)})
    /\ UNCHANGED configs

\* Both of them, in the transaction of an Update that carries both.
WriteBoth(e, f) ==
    /\ Touched(f)
    /\ configs' = [configs EXCEPT ![e][f] = commits + 1]
    /\ rules' = [rules EXCEPT ![e][f] = commits + 1]
    /\ Commit({CoreRow(f), ConfigRow(e, f), RulesRow(e, f)})

\* SetArchived, and an Update of the core fields alone.
TouchFlag(f) ==
    /\ Touched(f)
    /\ Commit({CoreRow(f)})
    /\ UNCHANGED <<configs, rules>>

\* The flag goes with its configurations and strategies, in one transaction.
DeleteFlag(f) ==
    /\ core[f] # 0
    /\ core' = [core EXCEPT ![f] = 0]
    /\ born' = [born EXCEPT ![f] = 0]
    /\ configs' = [e \in Environment |-> [configs[e] EXCEPT ![f] = 0]]
    /\ rules' = [e \in Environment |-> [rules[e] EXCEPT ![f] = 0]]
    /\ Commit({CoreRow(f)} \cup {ConfigRow(e, f) : e \in Environment}
                           \cup {RulesRow(e, f) : e \in Environment})
    /\ UNCHANGED <<keyState, params, highest>>

\* A parameter is written with a version.
WriteParameter(e, p, v, version) ==
    /\ params' = [params EXCEPT ![e][p] = [value |-> v, version |-> version]]
    /\ highest' = [highest EXCEPT ![e][p] = IF version > @ THEN version ELSE @]
    /\ Commit({ParamKeyRow(e, p)})
    /\ UNCHANGED <<keyState, flagVars>>

\* parameter.Service.Upsert computes the version outside the transaction that
\* writes it, from the row it read there: any the parameter has had, or none.
SetParameter(e, p, v) ==
    \E read \in 0 .. highest[e][p] : WriteParameter(e, p, v, read + 1)

DeleteParameter(e, p) ==
    /\ params[e][p] # None
    /\ params' = [params EXCEPT ![e][p] = None]
    /\ Commit({ParamKeyRow(e, p)})
    /\ UNCHANGED <<keyState, flagVars, highest>>

\* environmentRepository.Delete: strategies, configurations, parameters and
\* keys of the environment in one transaction.  Requests that resolved the
\* environment before it went can still write into it.
DeleteEnvironment(e) ==
    /\ keyState' = [k \in Key |->
                        IF KeyScope[k] = e /\ keyState[k] = "active"
                        THEN "revoked" ELSE keyState[k]]
    /\ configs' = [configs EXCEPT ![e] = [f \in Flag |-> 0]]
    /\ rules' = [rules EXCEPT ![e] = [f \in Flag |-> 0]]
    /\ params' = [params EXCEPT ![e] = [p \in Param |-> None]]
    /\ Commit({KeyRow(k) : k \in {j \in Key : KeyScope[j] = e}}
                \cup {ConfigRow(e, f) : f \in Flag}
                \cup {RulesRow(e, f) : f \in Flag}
                \cup {ParamKeyRow(e, p) : p \in Param})
    /\ UNCHANGED <<core, born, highest>>

Administer ==
    \/ \E k \in Key : CreateKey(k) \/ RevokeKey(k)
    \/ \E f \in Flag :
        \/ InsertFlag(f)
        \/ TouchFlag(f)
        \/ DeleteFlag(f)
        \/ \E e \in Environment :
            WriteConfig(e, f) \/ WriteRules(e, f) \/ WriteBoth(e, f)
    \/ \E e \in Environment :
        \/ DeleteEnvironment(e)
        \/ \E p \in Param :
            \/ DeleteParameter(e, p)
            \/ \E v \in ParamValue : SetParameter(e, p, v)

-----------------------------------------------------------------------------
(* Syncer.SyncOnce and ControlSource.Load.  The queries run one after the  *)
(* other outside of any transaction, and the syncer runs one load at a     *)
(* time: the ETag it sends as If-None-Match is that of `current` all along.*)

\* The ticker fires and the syncer asks its source for a snapshot.
StartLoad ==
    /\ loadPc = "idle"
    /\ ~replacing
    /\ loadPc' = "keys"
    /\ loaded' = NothingLoaded
    /\ dirtyLoad' = {}
    /\ UNCHANGED <<servingVars, tableVars, commits, dirtySync>>
    /\ UNCHANGED <<lastError, failures, restarts>>

\* One query of Load: it returns `rows`, and `next` follows.
Query(this, next, rows) ==
    /\ loadPc = this
    /\ loadPc' = next
    /\ loaded' = rows
    /\ UNCHANGED <<servingVars, tableVars, commits, dirtyVars>>
    /\ UNCHANGED <<lastError, failures, restarts>>

\* Keys whose revoked_at is null.
ReadKeys ==
    Query("keys", "flags",
          [loaded EXCEPT !.keys = {k \in Key : keyState[k] = "active"}])

ReadFlags == Query("flags", "configs", [loaded EXCEPT !.flags.core = core])

\* What a preload finds of `table`: it asks for the rows of the flags just read
\* by their ids, and a flag made since then has an id of its own.
Preloaded(table) ==
    [e \in Environment |-> [f \in Flag |->
        IF born[f] <= loaded.flags.core[f] THEN table[e][f] ELSE 0]]

\* The preloads are queries of their own too, one for each table.
ReadConfigs ==
    Query("configs", "rules",
          [loaded EXCEPT !.flags.configs = Preloaded(configs)])

ReadRules ==
    Query("rules", "variants",
          [loaded EXCEPT !.flags.rules = Preloaded(rules)])

\* The variants of the strategies just read, by their ids: those of strategies
\* that were replaced or deleted since are gone.
ReadVariants ==
    Query("variants", "params",
          [loaded EXCEPT !.flags.variants =
            [e \in Environment |-> [f \in Flag |->
                IF rules[e][f] = loaded.flags.rules[e][f]
                THEN rules[e][f] ELSE 0]]])

ReadParams == Query("params", "loaded", [loaded EXCEPT !.params = params])

\* SyncOnce is done with the answer.
LoadEnds ==
    /\ loadPc' = "idle"
    /\ loaded' = NothingLoaded

\* Mutant: the ETag is a hash of the flags alone.
NotModifiedByFlags ==
    /\ loadPc = "loaded"
    /\ current # None
    /\ loaded.flags = current.flags
    /\ LoadEnds
    /\ lastError' = FALSE
    /\ dirtySync' = dirtyLoad
    /\ UNCHANGED <<servingVars, tableVars, commits, failures, restarts>>
    /\ UNCHANGED dirtyLoad

\* Mutant: the ETag is a hash of the keys and parameters.
NotModifiedByKeys ==
    /\ loadPc = "loaded"
    /\ current # None
    /\ loaded.keys = current.keys /\ loaded.params = current.params
    /\ LoadEnds
    /\ lastError' = FALSE
    /\ dirtySync' = dirtyLoad
    /\ UNCHANGED <<servingVars, tableVars, commits, failures, restarts>>
    /\ UNCHANGED dirtyLoad

\* The content hashes to the syncer's ETag: 304, nothing is replaced.
NotModified ==
    /\ loadPc = "loaded"
    /\ Store!Etag(loaded) = Store!Etag(current)
    /\ LoadEnds
    /\ lastError' = FALSE
    /\ dirtySync' = dirtyLoad
    /\ UNCHANGED <<servingVars, tableVars, commits, failures, restarts>>
    /\ UNCHANGED dirtyLoad

\* Replace swaps the new snapshot in.
Install ==
    /\ loadPc = "loaded"
    /\ Store!Etag(loaded) # Store!Etag(current)
    /\ Store!Swap(loaded)
    /\ LoadEnds
    /\ dirtySync' = dirtyLoad
    /\ UNCHANGED <<tableVars, commits, lastError, failures, restarts>>
    /\ UNCHANGED dirtyLoad

\* Replace, under Store.mu.
Announce ==
    /\ Store!Notify
    /\ lastError' = FALSE
    /\ UNCHANGED <<tableVars, commits, dirtyVars>>
    /\ UNCHANGED <<loadPc, loaded, failures, restarts>>

\* Mutant: the error is not recorded.
SyncFailsSilently ==
    /\ loadPc # "idle"
    /\ failures < MaxFailures
    /\ failures' = failures + 1
    /\ LoadEnds
    /\ UNCHANGED <<servingVars, tableVars, commits, dirtyVars, restarts>>
    /\ UNCHANGED lastError

\* Mutant: the store drops what it has when the control plane is away.
SyncFailsDropsSnapshot ==
    /\ loadPc # "idle"
    /\ failures < MaxFailures
    /\ failures' = failures + 1
    /\ LoadEnds
    /\ lastError' = TRUE
    /\ current' = None
    /\ UNCHANGED <<previous, replacing, subscribers, signal, streamPc,
                    streamKey, sent, clientPc, clientKey, readEtag, cachedEtag,
                    cachedBody, superseded>>
    /\ UNCHANGED <<tableVars, commits, dirtyVars, restarts>>

\* A query, the transport, the decoding or the compilation fails, wherever
\* Load has got to: SetSyncError, and the store keeps what it has.
SyncFails ==
    /\ loadPc # "idle"
    /\ failures < MaxFailures
    /\ failures' = failures + 1
    /\ LoadEnds
    /\ lastError' = TRUE
    /\ UNCHANGED <<servingVars, tableVars, commits, dirtyVars, restarts>>

\* The data plane restarts with an empty store.
Restart ==
    /\ restarts < MaxRestarts
    /\ restarts' = restarts + 1
    /\ Store!Restart
    /\ LoadEnds
    /\ lastError' = FALSE
    /\ UNCHANGED <<tableVars, commits, dirtyVars, failures>>

Load ==
    \/ StartLoad
    \/ ReadKeys
    \/ ReadFlags \/ ReadConfigs \/ ReadRules \/ ReadVariants
    \/ ReadParams

Sync == Load \/ NotModified \/ Install \/ Announce

Serve ==
    /\ Store!Traffic
    /\ UNCHANGED <<tableVars, commits, syncVars, dirtyVars>>

Next == Administer \/ Sync \/ SyncFails \/ Restart \/ Serve

\* The syncer's goroutine and the handlers of open requests are scheduled,
\* the ticker never stops, and, by the bounds, an outage ends: that is what
\* "the control plane is reachable again" comes to here.
Fairness ==
    /\ WF_vars(Sync)
    /\ \A st \in Stream :
        WF_vars(Store!StreamStep(st)
                /\ UNCHANGED <<tableVars, commits, syncVars, dirtyVars>>)
    /\ \A c \in Client :
        WF_vars(Store!ClientStep(c)
                /\ UNCHANGED <<tableVars, commits, syncVars, dirtyVars>>)

Safety == Init /\ [][Next]_vars
Spec == Safety /\ Fairness

-----------------------------------------------------------------------------
(* Properties.                                                             *)

\* `snapshot` agrees with the tables on every row outside of `dirty`.
KeysAgree(snapshot, dirty) ==
    \A k \in Key : KeyRow(k) \notin dirty =>
        (k \in snapshot.keys <=> keyState[k] = "active")
CoreAgrees(snapshot, dirty) ==
    \A f \in Flag : CoreRow(f) \notin dirty =>
        snapshot.flags.core[f] = core[f]
ConfigsAgree(snapshot, dirty) ==
    \A e \in Environment, f \in Flag : ConfigRow(e, f) \notin dirty =>
        snapshot.flags.configs[e][f] = configs[e][f]
RulesAgree(snapshot, dirty) ==
    \A e \in Environment, f \in Flag : RulesRow(e, f) \notin dirty =>
        /\ snapshot.flags.rules[e][f] = rules[e][f]
        /\ snapshot.flags.variants[e][f] = rules[e][f]
ParamsAgree(snapshot, dirty) ==
    \A e \in Environment, p \in Param : ParamKeyRow(e, p) \notin dirty =>
        snapshot.params[e][p] = params[e][p]
AgreesExcept(snapshot, dirty) ==
    /\ KeysAgree(snapshot, dirty)
    /\ CoreAgrees(snapshot, dirty)
    /\ ConfigsAgree(snapshot, dirty)
    /\ RulesAgree(snapshot, dirty)
    /\ ParamsAgree(snapshot, dirty)

\* Staleness is bounded by one load: although Load reads the tables at
\* different moments and may answer "not modified", every row that nobody has
\* written since the last successful load began is served as the tables hold
\* it.  In particular a key revoked before then is refused.
ServedRowsAreFresh == current # None => AgreesExcept(current, dirtySync)

\* What /healthz and /readyz report is true: when the store is ready, no error
\* is shown and no load is under way, the last load attempted is the one that
\* is being served, whatever failed or restarted before it.
HealthIsHonest ==
    (current # None /\ ~lastError /\ loadPc = "idle" /\ ~replacing)
        => AgreesExcept(current, dirtyLoad)

\* The tables as one consistent read would return them.
TablesNow ==
    [keys |-> {k \in Key : keyState[k] = "active"},
     flags |-> [core |-> core, configs |-> configs,
                rules |-> rules, variants |-> rules],
     params |-> params]

\* Once the administrators stop and outages end, the data plane serves exactly
\* the tables, with no help from a further write, and so does every event
\* stream that is open: torn reads, failures and restarts leave no trace.
Converges ==
    <>[](/\ current = TablesNow
         /\ \A st \in Stream : sent[st] \in {None, TablesNow.flags})

\* The plane uses its store as RuntimeStore says a store may be used, one
\* Replace at a time, so what is shown of RuntimeStore is true of the plane.
StoreIsUsedAsSpecified == Store!Safety
=============================================================================
