------------------------- MODULE RuntimePlaneProofs -------------------------
(***************************************************************************)
(* Proofs about RuntimePlane, for any tables, keys, environments, traffic  *)
(* and bounds: it uses its store as RuntimeStore says, so that the         *)
(* invariants proved there hold of the plane; staleness is bounded by one  *)
(* load; what /healthz reports is true.  And about ParameterStore, whose   *)
(* requests are what changes the plane's parameters: its history explains  *)
(* its rows, and they change only as ParameterRows allows.                 *)
(***************************************************************************)
EXTENDS RuntimePlane, ParameterStore, TLAPS

StoreProofs == INSTANCE RuntimeStoreProofs
    WITH Scope <- Environment, FlagSet <- FlagTables, ParamSet <- ParamTables

\* The types of the tables and of the load in progress.
TableTypes ==
    /\ keyState \in [Key -> {"absent", "active", "revoked"}]
    /\ core \in [Flag -> Stamp]
    /\ born \in [Flag -> Stamp]
    /\ configs \in PerEnvironment
    /\ rules \in PerEnvironment
    /\ params \in ParamTables
    /\ highest \in [Environment -> [Param -> Stamp]]
    /\ commits \in Stamp

LoadTypes ==
    /\ loadPc \in {"idle", "keys", "flags", "configs", "rules", "variants",
                   "params", "loaded"}
    /\ loaded \in Store!Snapshot
    /\ lastError \in BOOLEAN
    /\ failures \in 0 .. MaxFailures
    /\ restarts \in 0 .. MaxRestarts

DirtyTypes == dirtyLoad \in SUBSET Row /\ dirtySync \in SUBSET Row

\* A flag is written no earlier than it is made, strategies and configurations
\* belong to a flag that exists, and a version takes as many commits.
TablesAreConsistent ==
    /\ \A f \in Flag : born[f] <= core[f] /\ core[f] <= commits
    /\ \A e \in Environment, f \in Flag :
            core[f] = 0 => configs[e][f] = 0 /\ rules[e][f] = 0
    /\ \A e \in Environment, p \in Param : highest[e][p] <= commits

TableInv == TableTypes /\ LoadTypes /\ DirtyTypes /\ TablesAreConsistent

-----------------------------------------------------------------------------
(* What a commit of the control plane does, whichever it is.               *)

\* The tables differ at most on `rows`, which are accounted for as written, and
\* a flag gets a new id only where there was none.
Frame(rows) ==
    /\ dirtyLoad' = dirtyLoad \cup rows
    /\ dirtySync' = dirtySync \cup rows
    /\ \A k \in Key : KeyRow(k) \notin rows => keyState'[k] = keyState[k]
    /\ \A f \in Flag : CoreRow(f) \notin rows => core'[f] = core[f]
    /\ \A f \in Flag : born'[f] \in {born[f], 0} \/ core[f] = 0
    /\ \A e \in Environment, f \in Flag :
        ConfigRow(e, f) \notin rows => configs'[e][f] = configs[e][f]
    /\ \A e \in Environment, f \in Flag :
        RulesRow(e, f) \notin rows => rules'[e][f] = rules[e][f]
    /\ \A e \in Environment, p \in Param :
        ParamKeyRow(e, p) \notin rows => params'[e][p] = params[e][p]

\* A commit leaves the serving side and the syncer alone, keeps the tables
\* typed and consistent, and changes only rows it reports.
AdminOutcome ==
    /\ UNCHANGED <<servingVars, syncVars>>
    /\ TableTypes' /\ TablesAreConsistent'
    /\ \E rows \in SUBSET Row : Frame(rows)

LEMMA RowTypes ==
    /\ \A k \in Key : KeyRow(k) \in Row
    /\ \A f \in Flag : CoreRow(f) \in Row
    /\ \A e \in Environment, f \in Flag :
            ConfigRow(e, f) \in Row /\ RulesRow(e, f) \in Row
    /\ \A e \in Environment, p \in Param : ParamKeyRow(e, p) \in Row
BY DEF Row, KeyRow, CoreRow, ConfigRow, RulesRow, ParamKeyRow

LEMMA StampedType ==
    ASSUME NEW table \in PerEnvironment, NEW e \in Environment, NEW f \in Flag,
           NEW stamp \in Stamp
    PROVE  [table EXCEPT ![e][f] = stamp] \in PerEnvironment
BY DEF PerEnvironment

LEMMA KeyCommits ==
    ASSUME TableInv, NEW k \in Key, CreateKey(k) \/ RevokeKey(k)
    PROVE  AdminOutcome
<1> USE BoundsAssumption DEF TableInv
<1>1. UNCHANGED <<servingVars, syncVars, core, born, configs, rules, params,
                  highest>>
  BY DEF CreateKey, RevokeKey, Commit, flagVars
<1>2. TableTypes'
  BY <1>1 DEF CreateKey, RevokeKey, Commit, TableTypes, Stamp
<1>3. TablesAreConsistent'
  BY <1>1 DEF CreateKey, RevokeKey, Commit, TablesAreConsistent, TableTypes,
         Stamp, ParamTables, ParamRow
<1>4. Frame({KeyRow(k)})
  BY <1>1 DEF CreateKey, RevokeKey, Commit, Frame, TableTypes
<1> QED
  BY <1>1, <1>2, <1>3, <1>4, RowTypes DEF AdminOutcome

LEMMA FlagCommits ==
    ASSUME TableInv, NEW f \in Flag, InsertFlag(f) \/ DeleteFlag(f)
    PROVE  AdminOutcome
<1> USE BoundsAssumption DEF TableInv
<1>1. UNCHANGED <<servingVars, syncVars, keyState, params, highest>>
  BY DEF InsertFlag, DeleteFlag, Commit
<1>2. /\ commits' \in Stamp /\ commits' > commits
      /\ core' \in [Flag -> Stamp] /\ born' \in [Flag -> Stamp]
  BY DEF InsertFlag, DeleteFlag, Commit, TableTypes, Stamp
<1>3. \/ UNCHANGED <<configs, rules>> /\ core[f] = 0
      \/ /\ configs' = [e \in Environment |-> [configs[e] EXCEPT ![f] = 0]]
         /\ rules' = [e \in Environment |-> [rules[e] EXCEPT ![f] = 0]]
  BY DEF InsertFlag, DeleteFlag
<1>4. TableTypes'
  <2>1. ASSUME NEW table \in PerEnvironment
        PROVE  [e \in Environment |-> [table[e] EXCEPT ![f] = 0]]
                    \in PerEnvironment
    BY DEF PerEnvironment, Stamp
  <2>2. configs' \in PerEnvironment /\ rules' \in PerEnvironment
    BY <1>3, <2>1 DEF TableTypes
  <2> QED
    BY <1>1, <1>2, <2>2 DEF TableTypes
<1>5. TablesAreConsistent'
  <2>1. \A g \in Flag : born'[g] <= core'[g] /\ core'[g] <= commits'
    BY DEF InsertFlag, DeleteFlag, Commit, TablesAreConsistent, TableTypes,
           Stamp
  <2>2. ASSUME NEW e \in Environment, NEW g \in Flag, core'[g] = 0
        PROVE  configs'[e][g] = 0 /\ rules'[e][g] = 0
    <3>1. core[g] = 0 \/ (g = f /\ DeleteFlag(f))
      BY <2>2 DEF InsertFlag, DeleteFlag, TableTypes, Stamp
    <3> QED
      BY <1>3, <3>1 DEF DeleteFlag, TablesAreConsistent, TableTypes,
                        PerEnvironment
  <2> QED
    BY <1>1, <1>2, <2>1, <2>2 DEF TablesAreConsistent, TableTypes, Stamp
<1>6. CASE InsertFlag(f)
  <2>1. Frame({CoreRow(f)})
    BY <1>6 DEF InsertFlag, Commit, Frame, TableTypes
  <2> QED
    BY <1>1, <1>4, <1>5, <2>1, RowTypes DEF AdminOutcome
<1>7. CASE DeleteFlag(f)
  <2> DEFINE rows == {CoreRow(f)} \cup {ConfigRow(e, f) : e \in Environment}
                                 \cup {RulesRow(e, f) : e \in Environment}
  <2>1. Frame(rows)
    BY <1>7 DEF DeleteFlag, Commit, Frame, TableTypes, PerEnvironment
  <2>2. rows \in SUBSET Row
    BY RowTypes
  <2> QED
    BY <1>1, <1>4, <1>5, <2>1, <2>2 DEF AdminOutcome
<1> QED
  BY <1>6, <1>7

\* The writes under a flag that exists.
LEMMA RulesCommits ==
    ASSUME TableInv, NEW f \in Flag,
           \/ TouchFlag(f)
           \/ \E e \in Environment :
                WriteConfig(e, f) \/ WriteRules(e, f) \/ WriteBoth(e, f)
    PROVE  AdminOutcome
<1> USE BoundsAssumption DEF TableInv
<1>1. /\ UNCHANGED <<servingVars, syncVars, keyState, born, params, highest>>
      /\ core[f] # 0 /\ core' = [core EXCEPT ![f] = commits + 1]
      /\ commits < MaxCommits /\ commits' = commits + 1
  BY DEF TouchFlag, WriteConfig, WriteRules, WriteBoth, Touched, Commit
<1>2. \/ UNCHANGED <<configs, rules>>
      \/ \E e \in Environment :
            /\ configs' \in {configs, [configs EXCEPT ![e][f] = commits + 1]}
            /\ rules' \in {rules, [rules EXCEPT ![e][f] = commits + 1]}
  BY DEF TouchFlag, WriteConfig, WriteRules, WriteBoth
<1>3. configs' \in PerEnvironment /\ rules' \in PerEnvironment
  <2>1. commits + 1 \in Stamp
    BY <1>1 DEF TableTypes, Stamp
  <2> QED
    BY <1>2, <2>1, StampedType DEF TableTypes
<1>4. TableTypes'
  BY <1>1, <1>3 DEF TableTypes, Stamp
<1>5. TablesAreConsistent'
  <2>1. \A g \in Flag : born'[g] <= core'[g] /\ core'[g] <= commits'
    BY <1>1 DEF TablesAreConsistent, TableTypes, Stamp
  <2>2. ASSUME NEW d \in Environment, NEW g \in Flag, core'[g] = 0
        PROVE  configs'[d][g] = 0 /\ rules'[d][g] = 0
    <3>1. g # f /\ core[g] = 0
      BY <1>1, <2>2 DEF TableTypes, Stamp
    <3>2. configs'[d][g] = configs[d][g] /\ rules'[d][g] = rules[d][g]
      BY <1>2, <3>1 DEF TableTypes, PerEnvironment
    <3> QED
      BY <3>1, <3>2 DEF TablesAreConsistent
  <2> QED
    BY <1>1, <2>1, <2>2 DEF TablesAreConsistent, TableTypes, Stamp
<1>6. CASE TouchFlag(f)
  <2>1. Frame({CoreRow(f)})
    BY <1>1, <1>6 DEF TouchFlag, Commit, Frame, TableTypes
  <2> QED
    BY <1>1, <1>4, <1>5, <2>1, RowTypes DEF AdminOutcome
<1>7. ASSUME NEW e \in Environment, WriteConfig(e, f)
      PROVE  AdminOutcome
  <2>1. Frame({CoreRow(f), ConfigRow(e, f)})
    BY <1>1, <1>7 DEF WriteConfig, Commit, Frame, TableTypes, PerEnvironment
  <2> QED
    BY <1>1, <1>4, <1>5, <2>1, RowTypes DEF AdminOutcome
<1>8. ASSUME NEW e \in Environment, WriteRules(e, f)
      PROVE  AdminOutcome
  <2>1. Frame({CoreRow(f), RulesRow(e, f)})
    BY <1>1, <1>8 DEF WriteRules, Commit, Frame, TableTypes, PerEnvironment
  <2> QED
    BY <1>1, <1>4, <1>5, <2>1, RowTypes DEF AdminOutcome
<1>9. ASSUME NEW e \in Environment, WriteBoth(e, f)
      PROVE  AdminOutcome
  <2>1. Frame({CoreRow(f), ConfigRow(e, f), RulesRow(e, f)})
    BY <1>1, <1>9 DEF WriteBoth, Commit, Frame, TableTypes, PerEnvironment
  <2> QED
    BY <1>1, <1>4, <1>5, <2>1, RowTypes DEF AdminOutcome
<1> QED
  BY <1>6, <1>7, <1>8, <1>9

LEMMA ParameterCommits ==
    ASSUME TableInv, NEW e \in Environment, NEW p \in Param,
           DeleteParameter(e, p) \/ \E v \in ParamValue : SetParameter(e, p, v)
    PROVE  AdminOutcome
<1> USE BoundsAssumption DEF TableInv
<1>1. CASE DeleteParameter(e, p)
  <2>1. UNCHANGED <<servingVars, syncVars, keyState, core, born, configs,
                    rules, highest>>
    BY <1>1 DEF DeleteParameter, Commit, flagVars
  <2>2. TableTypes'
    BY <1>1, <2>1 DEF DeleteParameter, Commit, TableTypes, Stamp, ParamTables
  <2>3. TablesAreConsistent'
    BY <1>1, <2>1 DEF DeleteParameter, Commit, TablesAreConsistent, TableTypes,
                      Stamp
  <2>4. Frame({ParamKeyRow(e, p)})
    BY <1>1, <2>1 DEF DeleteParameter, Commit, Frame, TableTypes, ParamTables
  <2> QED
    BY <2>1, <2>2, <2>3, <2>4, RowTypes DEF AdminOutcome
<1>2. ASSUME NEW v \in ParamValue, NEW last \in 0 .. highest[e][p],
             WriteParameter(e, p, v, last + 1)
      PROVE  AdminOutcome
  <2> USE <1>2 DEF WriteParameter, Commit
  <2>1. UNCHANGED <<servingVars, syncVars, keyState, core, born, configs,
                    rules>>
    BY DEF flagVars
  <2>2. highest[e][p] \in 0 .. commits /\ commits \in 0 .. MaxCommits - 1
    BY DEF TableTypes, TablesAreConsistent, Stamp
  <2>3. last + 1 \in 1 .. MaxCommits /\ last + 1 \in 1 .. commits + 1
    BY <2>2
  <2>4. [value |-> v, version |-> last + 1] \in ParamRow
    BY <2>3 DEF ParamRow
  <2>5. params' \in ParamTables
    BY <2>4 DEF TableTypes, ParamTables
  <2>6. /\ highest' \in [Environment -> [Param -> Stamp]]
        /\ commits' \in Stamp
    BY <2>2, <2>3 DEF TableTypes, Stamp
  <2>7. TableTypes'
    BY <2>1, <2>5, <2>6 DEF TableTypes
  <2>8. TablesAreConsistent'
    BY <2>1, <2>2, <2>3 DEF TableTypes, TablesAreConsistent, Stamp
  <2>9. Frame({ParamKeyRow(e, p)})
    BY <2>1 DEF Frame, TableTypes, ParamTables
  <2> QED
    BY <2>1, <2>7, <2>8, <2>9, RowTypes DEF AdminOutcome
<1> QED
  BY <1>1, <1>2 DEF SetParameter

LEMMA EnvironmentCommits ==
    ASSUME TableInv, NEW e \in Environment, DeleteEnvironment(e)
    PROVE  AdminOutcome
<1> USE BoundsAssumption DEF TableInv
<1> DEFINE rows == {KeyRow(k) : k \in {j \in Key : KeyScope[j] = e}}
                    \cup {ConfigRow(e, f) : f \in Flag}
                    \cup {RulesRow(e, f) : f \in Flag}
                    \cup {ParamKeyRow(e, p) : p \in Param}
<1>1. UNCHANGED <<servingVars, syncVars, core, born>>
  BY DEF DeleteEnvironment, Commit
<1>2. TableTypes'
  BY DEF DeleteEnvironment, Commit, TableTypes, PerEnvironment, Stamp,
         ParamTables
<1>3. TablesAreConsistent'
  BY DEF DeleteEnvironment, Commit, TablesAreConsistent, TableTypes,
         PerEnvironment, Stamp, ParamTables, ParamRow
<1>4. Frame(rows)
  <2>1. /\ dirtyLoad' = dirtyLoad \cup rows
        /\ dirtySync' = dirtySync \cup rows
    BY DEF DeleteEnvironment, Commit
  <2>2. ASSUME NEW k \in Key, KeyRow(k) \notin rows
        PROVE  keyState'[k] = keyState[k]
    BY <2>2 DEF DeleteEnvironment
  <2>3. ASSUME NEW d \in Environment, NEW f \in Flag, RulesRow(d, f) \notin rows
        PROVE  rules'[d][f] = rules[d][f]
    BY <2>3 DEF DeleteEnvironment, TableTypes, PerEnvironment
  <2>4. ASSUME NEW d \in Environment, NEW f \in Flag,
               ConfigRow(d, f) \notin rows
        PROVE  configs'[d][f] = configs[d][f]
    BY <2>4 DEF DeleteEnvironment, TableTypes, PerEnvironment
  <2>5. ASSUME NEW d \in Environment, NEW p \in Param,
               ParamKeyRow(d, p) \notin rows
        PROVE  params'[d][p] = params[d][p]
    BY <2>5 DEF DeleteEnvironment, TableTypes, ParamTables
  <2> QED
    BY <1>1, <2>1, <2>2, <2>3, <2>4, <2>5 DEF Frame
<1>5. rows \in SUBSET Row
  BY RowTypes
<1> QED
  BY <1>1, <1>2, <1>3, <1>4, <1>5 DEF AdminOutcome

LEMMA AdministerOutcome == ASSUME TableInv, Administer PROVE AdminOutcome
BY KeyCommits, FlagCommits, RulesCommits, ParameterCommits,
   EnvironmentCommits DEF Administer

-----------------------------------------------------------------------------
(* Types and table consistency.                                            *)

LEMMA NothingLoadedType == NothingLoaded \in Store!Snapshot
BY BoundsAssumption
   DEF NothingLoaded, NoFlags, NoRows, NoParams, Store!Snapshot, FlagTables,
       PerEnvironment, ParamTables, Stamp

LEMMA InitTables == Init => TableInv
<1> SUFFICES ASSUME Init PROVE TableInv
  OBVIOUS
<1> USE BoundsAssumption DEF Init
<1>1. TableTypes
  BY DEF TableTypes, PerEnvironment, Stamp, NoRows, NoParams, ParamTables
<1>2. LoadTypes
  <2>1. loaded \in Store!Snapshot
    BY NothingLoadedType
  <2>2. lastError \in BOOLEAN
    OBVIOUS
  <2>3. failures \in 0 .. MaxFailures /\ restarts \in 0 .. MaxRestarts
    OBVIOUS
  <2>4. loadPc = "idle"
    OBVIOUS
  <2> HIDE DEF Init
  <2> QED
    BY <2>1, <2>2, <2>3, <2>4 DEF LoadTypes
<1>3. DirtyTypes
  BY DEF DirtyTypes
<1>4. TablesAreConsistent
  BY DEF TablesAreConsistent, NoRows, NoParams
<1> QED
  BY <1>1, <1>2, <1>3, <1>4 DEF TableInv

\* The queries leave a well-typed partial snapshot.
LEMMA LoadKeepsTypes == ASSUME TableInv, Load PROVE LoadTypes'
<1> USE BoundsAssumption DEF TableInv
<1>1. CASE StartLoad
  BY <1>1, NothingLoadedType DEF StartLoad, LoadTypes
<1>2. CASE ReadKeys
  BY <1>2 DEF ReadKeys, Query, LoadTypes, Store!Snapshot
<1>3. CASE ReadFlags
  BY <1>3 DEF ReadFlags, Query, LoadTypes, TableTypes, Store!Snapshot,
              FlagTables
<1>4. CASE ReadConfigs \/ ReadRules
  <2>1. /\ Preloaded(configs) \in PerEnvironment
        /\ Preloaded(rules) \in PerEnvironment
    BY DEF Preloaded, TableTypes, PerEnvironment, Stamp
  <2> QED
    BY <1>4, <2>1 DEF ReadConfigs, ReadRules, Query, LoadTypes, Store!Snapshot,
                      FlagTables
<1>5. CASE ReadVariants
  <2> DEFINE found == [e \in Environment |-> [f \in Flag |->
                        IF rules[e][f] = loaded.flags.rules[e][f]
                        THEN rules[e][f] ELSE 0]]
  <2>1. found \in PerEnvironment
    BY DEF TableTypes, PerEnvironment, Stamp
  <2>2. /\ loadPc' = "params"
        /\ loaded' = [loaded EXCEPT !.flags.variants = found]
    BY <1>5 DEF ReadVariants, Query
  <2> HIDE DEF found
  <2> QED
    BY <1>5, <2>1, <2>2 DEF ReadVariants, Query, LoadTypes, Store!Snapshot,
                            FlagTables
<1>6. CASE ReadParams
  BY <1>6 DEF ReadParams, Query, LoadTypes, TableTypes, Store!Snapshot
<1> QED
  BY <1>1, <1>2, <1>3, <1>4, <1>5, <1>6 DEF Load

LEMMA NextTables == TableInv /\ [Next]_vars => TableInv'
<1> SUFFICES ASSUME TableInv, [Next]_vars
             PROVE  TableInv'
  OBVIOUS
<1>1. CASE Administer
  <2>1. AdminOutcome
    BY <1>1, AdministerOutcome
  <2>2. LoadTypes'
    BY <2>1 DEF AdminOutcome, syncVars, TableInv, LoadTypes, Store!Snapshot
  <2>3. DirtyTypes'
    BY <2>1 DEF AdminOutcome, Frame, TableInv, DirtyTypes, Row
  <2> QED
    BY <2>1, <2>2, <2>3 DEF AdminOutcome, TableInv
<1>2. CASE ~Administer
  <2>1. UNCHANGED <<tableVars, commits>>
    BY <1>2 DEF Next, Sync, Load, StartLoad, ReadKeys, ReadFlags, ReadConfigs,
                ReadRules, ReadVariants, ReadParams, Query, NotModified,
                Install, Announce, SyncFails, Restart, Serve, vars
  <2>2. TableTypes' /\ TablesAreConsistent'
    BY <2>1 DEF tableVars, flagVars, TableInv, TableTypes, TablesAreConsistent
  <2>3. dirtyLoad' \in {dirtyLoad, {}} /\ dirtySync' \in {dirtySync, dirtyLoad}
    BY <1>2 DEF Next, Sync, Load, StartLoad, ReadKeys, ReadFlags, ReadConfigs,
                ReadRules, ReadVariants, ReadParams, Query, NotModified,
                Install, Announce, SyncFails, Restart, Serve, vars, dirtyVars
  <2>4. DirtyTypes'
    BY <2>3 DEF TableInv, DirtyTypes, Row
  <2>5. LoadTypes'
    <3>1. CASE Load
      BY <3>1, LoadKeepsTypes
    <3>2. CASE NotModified \/ Install \/ SyncFails \/ Restart
      <4> USE BoundsAssumption
           DEF NotModified, Install, SyncFails, Restart, LoadEnds, TableInv
      <4>1. loadPc' = "idle" /\ loaded' \in Store!Snapshot
        BY <3>2, NothingLoadedType
      <4>2. lastError' \in BOOLEAN
        BY <3>2 DEF LoadTypes
      <4>3. failures' \in 0 .. MaxFailures /\ restarts' \in 0 .. MaxRestarts
        BY <3>2 DEF LoadTypes
      <4> HIDE DEF NotModified, Install, SyncFails, Restart, LoadEnds, TableInv
      <4> QED
        BY <4>1, <4>2, <4>3 DEF LoadTypes
    <3>3. CASE Announce \/ Serve \/ UNCHANGED vars
      BY <3>3 DEF Announce, Serve, vars, syncVars, TableInv, LoadTypes,
                  Store!Snapshot
    <3> QED
      BY <1>2, <3>1, <3>2, <3>3 DEF Next, Sync
  <2> QED
    BY <2>2, <2>4, <2>5 DEF TableInv
<1> QED
  BY <1>1, <1>2

THEOREM TablesAreTyped == Safety => []TableInv
BY InitTables, NextTables, PTL DEF Safety

-----------------------------------------------------------------------------
(* The plane uses the store as RuntimeStore specifies.                     *)

LEMMA NextUsesStore ==
    TableInv /\ [Next]_vars => [Store!Next]_(Store!vars)
<1> SUFFICES ASSUME TableInv, [Next]_vars
             PROVE  [Store!Next]_(Store!vars)
  OBVIOUS
<1> USE DEF Store!vars, Store!storeVars, Store!streamVars, Store!clientVars
<1>1. CASE Administer
  BY <1>1, AdministerOutcome DEF AdminOutcome, servingVars
<1>2. CASE Load \/ NotModified \/ SyncFails \/ UNCHANGED vars
  BY <1>2 DEF Load, StartLoad, ReadKeys, ReadFlags, ReadConfigs, ReadRules,
              ReadVariants, ReadParams, Query, NotModified, SyncFails, vars,
              servingVars
<1>3. CASE Install
  BY <1>3 DEF Install, TableInv, LoadTypes, Store!Next, Store!Swap
<1>4. CASE Announce
  BY <1>4 DEF Announce, Store!Next
<1>5. CASE Restart
  BY <1>5 DEF Restart, Store!Next
<1>6. CASE Serve
  BY <1>6 DEF Serve, Store!Next
<1> QED
  BY <1>1, <1>2, <1>3, <1>4, <1>5, <1>6 DEF Next, Sync

\* Every behaviour of the plane is, seen from the store, one that RuntimeStore
\* allows: one Replace at a time, only whole snapshots, no other writer.
THEOREM PlaneUsesStore == Safety => StoreIsUsedAsSpecified
<1>1. Init => Store!Init
  BY DEF Init
<1> QED
  BY <1>1, NextUsesStore, TablesAreTyped, PTL
     DEF Safety, StoreIsUsedAsSpecified, Store!Safety

(* The two instances of RuntimeStore, the plane's own and the one the      *)
(* proofs of RuntimeStoreProofs come with, define the same formulas.       *)

LEMMA StoreAssumptions ==
    /\ KeyScope \in [Key -> Environment]
    /\ None \notin StoreProofs!Snapshot /\ None \notin FlagTables
BY KeyScopeAssumption, NoneAssumption DEF StoreProofs!Snapshot

LEMMA SameNext == Store!Next => StoreProofs!Next
BY DEF Store!Next, StoreProofs!Next, Store!Swap, StoreProofs!Swap,
       Store!Notify, StoreProofs!Notify, Store!Restart, StoreProofs!Restart,
       Store!Traffic, StoreProofs!Traffic, Store!StreamStep,
       StoreProofs!StreamStep, Store!ClientStep, StoreProofs!ClientStep,
       Store!Connect, StoreProofs!Connect, Store!Subscribe,
       StoreProofs!Subscribe, Store!Send, StoreProofs!Send, Store!SendFails,
       StoreProofs!SendFails, Store!Flush, StoreProofs!Flush, Store!Leave,
       StoreProofs!Leave, Store!Wake, StoreProofs!Wake, Store!Disconnect,
       StoreProofs!Disconnect, Store!PollAuth, StoreProofs!PollAuth,
       Store!PollNotModified, StoreProofs!PollNotModified, Store!PollVersion,
       StoreProofs!PollVersion, Store!PollEvaluate, StoreProofs!PollEvaluate,
       Store!PollFails, StoreProofs!PollFails, Store!Answered,
       StoreProofs!Answered, Store!Resolves, StoreProofs!Resolves,
       Store!Serves, StoreProofs!Serves, Store!HasScope, StoreProofs!HasScope,
       Store!Etag, StoreProofs!Etag, Store!ProjectChanged,
       StoreProofs!ProjectChanged, Store!Snapshot, StoreProofs!Snapshot,
       Store!storeVars, StoreProofs!storeVars, Store!streamVars,
       StoreProofs!streamVars, Store!clientVars, StoreProofs!clientVars

LEMMA SameVars == UNCHANGED Store!vars => UNCHANGED StoreProofs!vars
BY DEF Store!vars, Store!storeVars, Store!streamVars, Store!clientVars,
       StoreProofs!vars, StoreProofs!storeVars, StoreProofs!streamVars,
       StoreProofs!clientVars

\* The store's inductive invariant holds throughout the plane.
THEOREM StoreInvHolds == Safety => []StoreProofs!Inv
<1>1. Init => StoreProofs!Inv
  <2>1. Store!Init => StoreProofs!Init
    BY DEF Store!Init, StoreProofs!Init
  <2> QED
    BY <2>1, StoreProofs!InitInv, StoreAssumptions DEF Init
<1>2. TableInv /\ StoreProofs!Inv /\ [Next]_vars => StoreProofs!Inv'
  <2> SUFFICES ASSUME TableInv, StoreProofs!Inv, [Next]_vars
               PROVE  StoreProofs!Inv'
    OBVIOUS
  <2>1. [Store!Next]_(Store!vars)
    BY NextUsesStore
  <2>2. [StoreProofs!Next]_(StoreProofs!vars)
    BY <2>1, SameNext, SameVars
  <2> QED
    BY <2>2, StoreProofs!NextInv, StoreAssumptions
<1> QED
  BY <1>1, <1>2, TablesAreTyped, PTL DEF Safety

\* In the plane too, a parked stream with outdated flags has a token or a
\* notification coming, whatever the control plane and the syncer do.
THEOREM PlaneLosesNoWakeup == Safety => []Store!NoLostWakeup
<1>1. StoreProofs!Inv => Store!NoLostWakeup
  BY DEF StoreProofs!Inv, StoreProofs!StreamInv, StoreProofs!WakeupPending,
         StoreProofs!SubscribersAreLive, StoreProofs!ServedFlags,
         Store!NoLostWakeup, Store!ServedFlags
<1> QED
  BY <1>1, StoreInvHolds, PTL

\* Every variable of the plane keeps its type.
THEOREM TypeCorrect == Safety => []TypeOK
<1>1. TableInv /\ StoreProofs!Inv => TypeOK
  <2> SUFFICES ASSUME TableInv, StoreProofs!Inv PROVE TypeOK
    OBVIOUS
  <2>1. Store!TypeOK
    BY DEF StoreProofs!Inv, StoreProofs!TypeOK, StoreProofs!Snapshot,
           Store!TypeOK, Store!Snapshot
  <2> QED
    BY <2>1 DEF TypeOK, TableInv, TableTypes, LoadTypes, DirtyTypes
<1> QED
  BY <1>1, StoreInvHolds, TablesAreTyped, PTL

-----------------------------------------------------------------------------
(* Bounded staleness.                                                      *)

\* What the queries that have run returned agrees with the tables on every row
\* not written since the load began, although each ran at its own moment.
LoadFresh ==
    /\ loadPc \in {"flags", "configs", "rules", "variants", "params", "loaded"}
            => KeysAgree(loaded, dirtyLoad)
    /\ loadPc \in {"configs", "rules", "variants", "params", "loaded"}
            => CoreAgrees(loaded, dirtyLoad)
    /\ loadPc \in {"configs", "rules"} =>
            \A e \in Environment, f \in Flag :
              born[f] > loaded.flags.core[f] =>
                /\ ConfigRow(e, f) \notin dirtyLoad => configs[e][f] = 0
                /\ RulesRow(e, f) \notin dirtyLoad => rules[e][f] = 0
    /\ loadPc \in {"rules", "variants", "params", "loaded"}
            => ConfigsAgree(loaded, dirtyLoad)
    /\ loadPc = "variants" =>
            \A e \in Environment, f \in Flag : RulesRow(e, f) \notin dirtyLoad
                => loaded.flags.rules[e][f] = rules[e][f]
    /\ loadPc \in {"params", "loaded"} => RulesAgree(loaded, dirtyLoad)
    /\ loadPc = "loaded" => ParamsAgree(loaded, dirtyLoad)

\* No load starts before Replace has returned, and as long as no load runs and
\* the last one succeeded, it is the one being served.
LastLoadServed ==
    /\ replacing => loadPc = "idle"
    /\ (current # None /\ loadPc = "idle" /\ (replacing \/ ~lastError))
            => dirtySync = dirtyLoad

FreshInv == LoadFresh /\ ServedRowsAreFresh /\ LastLoadServed

\* A commit accounts for the rows it changes, both since the load in progress
\* began and since the last one that succeeded did.
LEMMA CommitsStayFresh ==
    ASSUME TableInv, FreshInv, AdminOutcome
    PROVE  FreshInv'
<1>1. PICK rows \in SUBSET Row : Frame(rows)
  BY DEF AdminOutcome
<1>2. UNCHANGED <<current, replacing, loadPc, loaded, lastError>>
  BY DEF AdminOutcome, servingVars, syncVars
<1>3. LoadFresh'
  <2>1. ASSUME NEW e \in Environment, NEW f \in Flag,
               loadPc \in {"configs", "rules"},
               born'[f] > loaded.flags.core[f]
        PROVE  /\ ConfigRow(e, f) \notin dirtyLoad' => configs'[e][f] = 0
               /\ RulesRow(e, f) \notin dirtyLoad' => rules'[e][f] = 0
    <3>1. loaded.flags.core[f] \in Nat
      BY BoundsAssumption
         DEF TableInv, LoadTypes, Store!Snapshot, FlagTables, Stamp
    <3>2. born[f] > loaded.flags.core[f] \/ core[f] = 0
      BY <1>1, <2>1, <3>1 DEF Frame
    <3> QED
      BY <1>1, <2>1, <3>2
         DEF Frame, FreshInv, LoadFresh, TableInv, TablesAreConsistent
  <2>2. /\ KeysAgree(loaded, dirtyLoad) => KeysAgree(loaded, dirtyLoad)'
        /\ CoreAgrees(loaded, dirtyLoad) => CoreAgrees(loaded, dirtyLoad)'
        /\ ConfigsAgree(loaded, dirtyLoad) => ConfigsAgree(loaded, dirtyLoad)'
        /\ RulesAgree(loaded, dirtyLoad) => RulesAgree(loaded, dirtyLoad)'
        /\ ParamsAgree(loaded, dirtyLoad) => ParamsAgree(loaded, dirtyLoad)'
    BY <1>1, <1>2 DEF Frame, KeysAgree, CoreAgrees, ConfigsAgree, RulesAgree,
                      ParamsAgree
  <2>3. ASSUME loadPc = "variants",
               NEW e \in Environment, NEW f \in Flag,
               RulesRow(e, f) \notin dirtyLoad'
        PROVE  loaded.flags.rules[e][f] = rules'[e][f]
    BY <1>1, <2>3 DEF Frame, FreshInv, LoadFresh
  <2> QED
    BY <1>2, <2>1, <2>2, <2>3 DEF FreshInv, LoadFresh
<1>4. ServedRowsAreFresh'
  BY <1>1, <1>2 DEF FreshInv, ServedRowsAreFresh, AgreesExcept, Frame,
                    KeysAgree, CoreAgrees, ConfigsAgree, RulesAgree, ParamsAgree
<1>5. LastLoadServed'
  BY <1>1, <1>2 DEF FreshInv, LastLoadServed, Frame
<1> QED
  BY <1>3, <1>4, <1>5 DEF FreshInv

\* A preload returns every row not written since the load began as its table
\* holds it, although it asks for the flags that an earlier query found.
LEMMA PreloadedFresh ==
    ASSUME TableInv, FreshInv, NEW e \in Environment, NEW f \in Flag
    PROVE  /\ loadPc = "configs" /\ ConfigRow(e, f) \notin dirtyLoad
                => Preloaded(configs)[e][f] = configs[e][f]
           /\ loadPc = "rules" /\ RulesRow(e, f) \notin dirtyLoad
                => Preloaded(rules)[e][f] = rules[e][f]
<1>1. CASE born[f] <= loaded.flags.core[f]
  BY <1>1 DEF Preloaded
<1>2. CASE ~(born[f] <= loaded.flags.core[f])
  <2>1. born[f] > loaded.flags.core[f]
    BY <1>2, BoundsAssumption
       DEF TableInv, TableTypes, LoadTypes, Store!Snapshot, FlagTables, Stamp
  <2> QED
    BY <1>2, <2>1 DEF Preloaded, FreshInv, LoadFresh
<1> QED
  BY <1>1, <1>2

\* Each query of Load adds rows as the tables hold them at that moment.
LEMMA QueriesStayFresh ==
    ASSUME TableInv, FreshInv, Load
    PROVE  FreshInv'
<1>1. UNCHANGED <<current, replacing, lastError, keyState, core, born, configs,
                  rules, params, dirtySync>>
  BY DEF Load, StartLoad, ReadKeys, ReadFlags, ReadConfigs, ReadRules,
         ReadVariants, ReadParams, Query, servingVars, tableVars, flagVars,
         dirtyVars
<1>2. ServedRowsAreFresh'
  BY <1>1 DEF FreshInv, ServedRowsAreFresh, AgreesExcept, KeysAgree,
              CoreAgrees, ConfigsAgree, RulesAgree, ParamsAgree
<1>3. LastLoadServed'
  BY <1>1 DEF FreshInv, LastLoadServed, Load, StartLoad, ReadKeys, ReadFlags,
              ReadConfigs, ReadRules, ReadVariants, ReadParams, Query
<1>4. LoadFresh'
  <2>0. loaded \in Store!Snapshot
    BY DEF TableInv, LoadTypes
  <2>1. CASE StartLoad
    BY <2>1 DEF StartLoad, LoadFresh
  <2>2. CASE ReadKeys
    BY <1>1, <2>0, <2>2 DEF ReadKeys, Query, LoadFresh, KeysAgree, dirtyVars,
                            Store!Snapshot
  <2>3. CASE ReadFlags
    <3>1. /\ loaded'.keys = loaded.keys
          /\ loaded'.flags.core = core
          /\ loadPc = "flags" /\ loadPc' = "configs" /\ dirtyLoad' = dirtyLoad
      BY <2>0, <2>3 DEF ReadFlags, Query, dirtyVars, Store!Snapshot, FlagTables
    <3>2. \A f \in Flag : ~(born[f] > loaded'.flags.core[f])
      BY <3>1, BoundsAssumption
         DEF TableInv, TableTypes, TablesAreConsistent, Stamp
    <3> QED
      BY <1>1, <3>1, <3>2 DEF FreshInv, LoadFresh, KeysAgree, CoreAgrees
  <2>4. CASE ReadConfigs
    <3>1. /\ loaded'.keys = loaded.keys
          /\ loaded'.flags.core = loaded.flags.core
          /\ loaded'.flags.configs = Preloaded(configs)
          /\ loadPc = "configs" /\ loadPc' = "rules" /\ dirtyLoad' = dirtyLoad
      BY <2>0, <2>4 DEF ReadConfigs, Query, dirtyVars, Store!Snapshot,
                        FlagTables
    <3>2. ConfigsAgree(loaded, dirtyLoad)'
      BY <1>1, <3>1, PreloadedFresh DEF ConfigsAgree
    <3> QED
      BY <1>1, <3>1, <3>2 DEF FreshInv, LoadFresh, KeysAgree, CoreAgrees
  <2>5. CASE ReadRules
    <3>1. /\ loaded'.keys = loaded.keys
          /\ loaded'.flags.core = loaded.flags.core
          /\ loaded'.flags.configs = loaded.flags.configs
          /\ loaded'.flags.rules = Preloaded(rules)
          /\ loadPc = "rules" /\ loadPc' = "variants" /\ dirtyLoad' = dirtyLoad
      BY <2>0, <2>5 DEF ReadRules, Query, dirtyVars, Store!Snapshot, FlagTables
    <3>2. \A e \in Environment, f \in Flag : RulesRow(e, f) \notin dirtyLoad
            => loaded'.flags.rules[e][f] = rules[e][f]
      BY <3>1, PreloadedFresh
    <3> QED
      BY <1>1, <3>1, <3>2 DEF FreshInv, LoadFresh, KeysAgree, CoreAgrees,
                              ConfigsAgree
  <2>6. CASE ReadVariants
    <3>1. /\ loaded'.keys = loaded.keys
          /\ loaded'.flags.core = loaded.flags.core
          /\ loaded'.flags.configs = loaded.flags.configs
          /\ loaded'.flags.rules = loaded.flags.rules
          /\ \A e \in Environment, f \in Flag :
                loaded'.flags.variants[e][f] =
                    IF rules[e][f] = loaded.flags.rules[e][f]
                    THEN rules[e][f] ELSE 0
          /\ loadPc = "variants" /\ loadPc' = "params" /\ dirtyLoad' = dirtyLoad
      BY <2>0, <2>6 DEF ReadVariants, Query, dirtyVars, Store!Snapshot,
                        FlagTables
    <3> QED
      BY <1>1, <3>1 DEF FreshInv, LoadFresh, KeysAgree, CoreAgrees,
                        ConfigsAgree, RulesAgree
  <2>7. CASE ReadParams
    <3>1. /\ loaded'.keys = loaded.keys
          /\ loaded'.flags = loaded.flags
          /\ loaded'.params = params
          /\ loadPc = "params" /\ loadPc' = "loaded" /\ dirtyLoad' = dirtyLoad
      BY <2>0, <2>7 DEF ReadParams, Query, dirtyVars, Store!Snapshot
    <3> QED
      BY <1>1, <3>1 DEF FreshInv, LoadFresh, KeysAgree, CoreAgrees,
                        ConfigsAgree, RulesAgree, ParamsAgree
  <2> QED
    BY <2>1, <2>2, <2>3, <2>4, <2>5, <2>6, <2>7 DEF Load
<1> QED
  BY <1>2, <1>3, <1>4 DEF FreshInv

\* What a load found becomes, by Replace or because it hashes to what is there,
\* what is served.
LEMMA LoadedIsServed ==
    ASSUME TableInv, FreshInv, NotModified \/ Install
    PROVE  FreshInv'
<1>1. /\ loadPc = "loaded" /\ loadPc' = "idle"
      /\ current' = loaded
      /\ dirtyLoad' = dirtyLoad /\ dirtySync' = dirtyLoad
      /\ UNCHANGED tableVars
  BY DEF NotModified, Install, LoadEnds, Store!Etag, Store!Swap, servingVars
<1>2. ServedRowsAreFresh'
  BY <1>1 DEF FreshInv, LoadFresh, ServedRowsAreFresh, AgreesExcept, KeysAgree,
              CoreAgrees, ConfigsAgree, RulesAgree, ParamsAgree, tableVars,
              flagVars
<1> QED
  BY <1>1, <1>2 DEF FreshInv, LoadFresh, LastLoadServed

LEMMA NextFresh == TableInv /\ FreshInv /\ [Next]_vars => FreshInv'
<1> SUFFICES ASSUME TableInv, FreshInv, [Next]_vars
             PROVE  FreshInv'
  OBVIOUS
<1>1. CASE Administer
  BY <1>1, AdministerOutcome, CommitsStayFresh
<1>2. CASE Load
  BY <1>2, QueriesStayFresh
<1>3. CASE NotModified \/ Install
  BY <1>3, LoadedIsServed
<1>4. CASE Announce
  BY <1>4 DEF Announce, Store!Notify, tableVars, dirtyVars, FreshInv,
              LoadFresh, ServedRowsAreFresh, LastLoadServed, AgreesExcept,
              flagVars, KeysAgree, CoreAgrees, ConfigsAgree, RulesAgree, ParamsAgree
<1>5. CASE SyncFails
  BY <1>5 DEF SyncFails, LoadEnds, servingVars, tableVars, dirtyVars, FreshInv,
              LoadFresh, ServedRowsAreFresh, LastLoadServed, AgreesExcept,
              flagVars, KeysAgree, CoreAgrees, ConfigsAgree, RulesAgree, ParamsAgree
<1>6. CASE Restart
  BY <1>6 DEF Restart, Store!Restart, LoadEnds, FreshInv, LoadFresh,
              ServedRowsAreFresh, LastLoadServed
<1>7. CASE Serve \/ UNCHANGED vars
  <2>1. UNCHANGED <<current, replacing, tableVars, syncVars, dirtyVars>>
    BY <1>7
       DEF Serve, vars, servingVars, Store!Traffic, Store!Connect,
           Store!StreamStep, Store!Subscribe, Store!Send, Store!SendFails,
           Store!Flush, Store!Leave, Store!Wake, Store!Disconnect,
           Store!PollAuth, Store!ClientStep, Store!PollNotModified,
           Store!PollVersion, Store!PollEvaluate, Store!PollFails,
           Store!storeVars
  <2> QED
    BY <2>1 DEF tableVars, flagVars, syncVars, dirtyVars, FreshInv, LoadFresh,
                ServedRowsAreFresh, LastLoadServed, AgreesExcept, KeysAgree,
                CoreAgrees, ConfigsAgree, RulesAgree, ParamsAgree
<1> QED
  BY <1>1, <1>2, <1>3, <1>4, <1>5, <1>6, <1>7 DEF Next, Sync

THEOREM FreshInvHolds == Safety => []FreshInv
<1>1. Init => FreshInv
  BY DEF Init, Store!Init, FreshInv, LoadFresh, ServedRowsAreFresh,
         LastLoadServed
<1> QED
  BY <1>1, NextFresh, TablesAreTyped, PTL DEF Safety

\* Every row nobody has written since the last successful load began is served
\* as the tables hold it, however the queries of that load and the commits of
\* the control plane interleaved.
THEOREM StalenessIsBounded == Safety => []ServedRowsAreFresh
<1>1. FreshInv => ServedRowsAreFresh
  BY DEF FreshInv
<1> QED
  BY <1>1, FreshInvHolds, PTL

\* A store that reports ready and no error serves what the last load attempted
\* found.
THEOREM HealthReportsAreTrue == Safety => []HealthIsHonest
<1>1. FreshInv => HealthIsHonest
  BY DEF FreshInv, ServedRowsAreFresh, LastLoadServed, HealthIsHonest
<1> QED
  BY <1>1, FreshInvHolds, PTL

-----------------------------------------------------------------------------
(* The parameters of one environment, request by request.  The plane takes *)
(* a change of a parameter as one step; ParameterStore is the service that *)
(* reads before its transaction and writes in it.                          *)

\* The change that left a row with this id and version is recorded.
IsRecorded(id, version) ==
    \E h \in history : h.id = id /\ h.type # "delete" /\ h.version = version

\* What each request in progress knows.
RequestInv ==
    \A r \in Request : pc[r] # "idle" =>
        /\ key[r] \in ParamKey
        /\ pc[r] = "upserting" => value[r] \in Value
        /\ pc[r] # "upserting" => read[r] # Nothing
        /\ read[r] # Nothing =>
            /\ read[r] \in RowOf(key[r])
            /\ read[r].version <= newest[key[r]]
            /\ pc[r] = "upserting" => IsRecorded(read[r].id, read[r].version)

VersionInv ==
    \A k \in ParamKey :
        /\ newest[k] <= changes
        /\ row[k] # Nothing => row[k].version <= newest[k]

HistoryInv == \A h \in history : h.change <= changes

ParameterInv ==
    /\ ParameterTypeOK /\ RequestInv /\ VersionInv /\ HistoryInv
    /\ RowsAreRecorded /\ HistoryHasNoGaps

LEMMA InitParameterInv == ParameterInit => ParameterInv
BY MaxChangesAssumption, NothingAssumption
   DEF ParameterInit, ParameterInv, ParameterTypeOK, RequestInv, VersionInv,
       HistoryInv, RowsAreRecorded, HistoryHasNoGaps

\* Requests that only read, or give up, leave the tables alone.
LEMMA ReadersKeepInv ==
    ASSUME ParameterInv, NEW r \in Request,
           \/ \E k \in ParamKey : \E v \in Value : StartUpsert(r, k, v)
           \/ \E k \in ParamKey : StartDelete(r, k)
           \/ UpsertRefused(r) \/ FindForDelete(r) \/ DeleteRefused(r)
           \/ Fail(r)
    PROVE  ParameterInv'
<1>1. UNCHANGED <<row, history, changes, newest>>
  BY DEF StartUpsert, StartDelete, UpsertRefused, FindForDelete, DeleteRefused,
         Fail
<1>2. VersionInv' /\ HistoryInv' /\ RowsAreRecorded' /\ HistoryHasNoGaps'
  BY <1>1
     DEF ParameterInv, VersionInv, HistoryInv, RowsAreRecorded,
         HistoryHasNoGaps
<1>3. ASSUME NEW k \in ParamKey, NEW v \in Value, StartUpsert(r, k, v)
      PROVE  ParameterInv'
  <2>1. ParameterTypeOK'
    BY <1>3, NothingAssumption
       DEF ParameterInv, ParameterTypeOK, StartUpsert, ParameterRow
  <2>2. RequestInv'
    BY <1>3, <1>1, NothingAssumption
       DEF ParameterInv, ParameterTypeOK, StartUpsert, RequestInv, IsRecorded,
           RowsAreRecorded, VersionInv
  <2> QED
    BY <1>2, <2>1, <2>2 DEF ParameterInv
<1>4. ASSUME NEW k \in ParamKey, StartDelete(r, k)
      PROVE  ParameterInv'
  <2>1. ParameterTypeOK'
    BY <1>4, NothingAssumption
       DEF ParameterInv, ParameterTypeOK, StartDelete, ParameterRow
  <2>2. RequestInv'
    BY <1>4, <1>1, NothingAssumption
       DEF ParameterInv, ParameterTypeOK, StartDelete, RequestInv, IsRecorded,
           VersionInv
  <2> QED
    BY <1>2, <2>1, <2>2 DEF ParameterInv
<1>5. CASE UpsertRefused(r) \/ DeleteRefused(r) \/ Fail(r)
  <2>1. ParameterTypeOK'
    BY <1>5
       DEF ParameterInv, ParameterTypeOK, UpsertRefused, DeleteRefused, Fail,
           Finish
  <2>2. RequestInv'
    BY <1>5, <1>1
       DEF ParameterInv, ParameterTypeOK, UpsertRefused, DeleteRefused, Fail,
           Finish, RequestInv, IsRecorded
  <2> QED
    BY <1>2, <2>1, <2>2 DEF ParameterInv
<1>6. CASE FindForDelete(r)
  <2> DEFINE k == key[r]
             found == [id |-> row[k].id, value |-> read[r].value,
                       version |-> read[r].version]
  <2>1. /\ k \in ParamKey /\ row[k] \in RowOf(k) /\ read[r] \in RowOf(k)
        /\ read[r].version <= newest[k]
    BY <1>6 DEF ParameterInv, ParameterTypeOK, FindForDelete, RequestInv
  <2>2. /\ found \in RowOf(k) /\ found # Nothing
        /\ found.version = read[r].version
    BY <2>1, NothingAssumption DEF RowOf, ParameterRow
  <2>3. pc' = [pc EXCEPT ![r] = "deletingTx"] /\ UNCHANGED <<key, value>>
        /\ read' = [read EXCEPT ![r] = found]
    BY <1>6 DEF FindForDelete
  <2> HIDE DEF found
  <2>4. ParameterTypeOK'
    BY <1>1, <2>1, <2>2, <2>3 DEF ParameterInv, ParameterTypeOK, ParameterRow
  <2>5. RequestInv'
    BY <1>1, <2>1, <2>2, <2>3
       DEF ParameterInv, ParameterTypeOK, RequestInv, IsRecorded
  <2> QED
    BY <1>2, <2>4, <2>5 DEF ParameterInv
<1> QED
  BY <1>3, <1>4, <1>5, <1>6

\* A transaction's version row joins the history, and earlier ones stay.
LEMMA RecordFacts ==
    ASSUME ParameterInv, NEW id, NEW version, NEW v, NEW type,
           Record(id, version, v, type)
    PROVE  /\ changes \in Nat /\ changes < MaxChanges /\ changes' = changes + 1
           /\ history \subseteq history'
           /\ \A h \in history' : h \in history
                \/ h = [change |-> changes + 1, id |-> id,
                        version |-> version, value |-> v, type |-> type]
           /\ [change |-> changes + 1, id |-> id, version |-> version,
               value |-> v, type |-> type] \in history'
BY MaxChangesAssumption DEF ParameterInv, ParameterTypeOK, Record

\* An upsert records what it writes, one version above what it read.
LEMMA SaveKeepsInv ==
    ASSUME ParameterInv, NEW r \in Request, pc[r] = "upserting",
           NEW n \in 1 .. MaxChanges, NEW version \in 1 .. changes + 1,
           NEW type \in {"create", "update"},
           Save(key[r], <<key[r], n>>, version, value[r], type), Finish(r),
           type = "create" => version = 1,
           type = "update" => IsRecorded(<<key[r], n>>, version - 1)
    PROVE  ParameterInv'
<1> DEFINE k == key[r]
           id == <<k, n>>
           new == [change |-> changes + 1, id |-> id, version |-> version,
                   value |-> value[r], type |-> type]
           saved == [id |-> id, value |-> value[r], version |-> version]
<1>1. k \in ParamKey /\ value[r] \in Value
  BY DEF ParameterInv, RequestInv
<1>2. /\ changes \in Nat /\ changes < MaxChanges /\ changes' = changes + 1
      /\ history \subseteq history'
      /\ \A h \in history' : h \in history \/ h = new
      /\ new \in history'
  BY RecordFacts DEF Save
<1>3. version \in 1 .. MaxChanges
  BY <1>2, MaxChangesAssumption
<1>4. saved \in RowOf(k) /\ saved # Nothing /\ saved.version = version
  BY <1>1, <1>3, NothingAssumption DEF RowOf, ParameterRow
<1>5. new \in VersionRow /\ new.change = changes + 1 /\ new.version = version
  BY <1>1, <1>2, <1>3, MaxChangesAssumption DEF VersionRow, RowId
<1>6. row' = [row EXCEPT ![k] = saved]
  BY DEF Save
<1>7. /\ newest' \in [ParamKey -> 0 .. MaxChanges]
      /\ \A j \in ParamKey : newest[j] <= newest'[j]
      /\ version <= newest'[k]
      /\ \A j \in ParamKey : newest'[j] <= changes'
  BY <1>1, <1>2, <1>3 DEF Save, ParameterInv, ParameterTypeOK, VersionInv
<1>8. ParameterTypeOK'
  <2>1. row' \in [ParamKey -> ParameterRow \cup {Nothing}]
        /\ \A j \in ParamKey : row'[j] \in RowOf(j) \cup {Nothing}
    BY <1>1, <1>4, <1>6 DEF ParameterInv, ParameterTypeOK, ParameterRow
  <2>2. history' \subseteq VersionRow
    BY <1>2, <1>5 DEF ParameterInv, ParameterTypeOK
  <2>3. changes' \in 0 .. MaxChanges
    BY <1>2, MaxChangesAssumption
  <2>4. /\ pc' \in [Request -> {"idle", "upserting", "deleting", "deletingTx"}]
        /\ key' \in [Request -> ParamKey \cup {Nothing}]
        /\ value' \in [Request -> Value \cup {Nothing}]
        /\ read' \in [Request -> ParameterRow \cup {Nothing}]
    BY DEF ParameterInv, ParameterTypeOK, Finish
  <2> QED
    BY <1>7, <2>1, <2>2, <2>3, <2>4 DEF ParameterTypeOK
<1>9. RequestInv'
  <2>1. ASSUME NEW q \in Request, pc'[q] # "idle"
        PROVE  /\ pc[q] # "idle" /\ pc'[q] = pc[q] /\ key'[q] = key[q]
               /\ value'[q] = value[q] /\ read'[q] = read[q]
    BY <2>1 DEF Finish, ParameterInv, ParameterTypeOK
  <2>2. ASSUME NEW q \in Request, pc[q] # "idle", read[q] # Nothing
        PROVE  read[q].version <= newest'[key[q]]
    <3>1. /\ key[q] \in ParamKey
          /\ read[q].version \in Nat
          /\ read[q].version <= newest[key[q]]
      BY <2>2, MaxChangesAssumption DEF ParameterInv, RequestInv, RowOf
    <3>2. newest[key[q]] \in Nat /\ newest'[key[q]] \in Nat
          /\ newest[key[q]] <= newest'[key[q]]
      BY <1>7, <3>1 DEF ParameterInv, ParameterTypeOK
    <3> QED
      BY <3>1, <3>2
  <2>3. ASSUME NEW i, NEW w, IsRecorded(i, w) PROVE IsRecorded(i, w)'
    BY <1>2, <2>3 DEF IsRecorded
  <2> QED
    BY <2>1, <2>2, <2>3 DEF ParameterInv, RequestInv
<1>10. VersionInv'
  <2> SUFFICES ASSUME NEW j \in ParamKey, row'[j] # Nothing
               PROVE  row'[j].version <= newest'[j]
    BY <1>7 DEF VersionInv
  <2>1. CASE j = k
    BY <1>1, <1>4, <1>6, <1>7, <2>1 DEF ParameterInv, ParameterTypeOK
  <2>2. CASE j # k
    <3>1. row'[j] = row[j] /\ row[j].version <= newest[j]
      BY <1>6, <2>2 DEF ParameterInv, ParameterTypeOK, VersionInv
    <3>2. row[j].version \in Nat /\ newest[j] \in Nat /\ newest'[j] \in Nat
          /\ newest[j] <= newest'[j]
      BY <1>7, <3>1, MaxChangesAssumption
         DEF ParameterInv, ParameterTypeOK, RowOf
    <3> QED
      BY <3>1, <3>2
  <2> QED
    BY <2>1, <2>2
<1>11. HistoryInv'
  BY <1>2, <1>5 DEF ParameterInv, HistoryInv, ParameterTypeOK, VersionRow
<1>12. RowsAreRecorded'
  BY <1>1, <1>2, <1>4, <1>6 DEF ParameterInv, RowsAreRecorded, ParameterTypeOK
<1>13. HistoryHasNoGaps'
  <2> SUFFICES ASSUME NEW h \in history'
               PROVE  /\ h.type = "create" => h.version = 1
                      /\ h.type = "update" => \E g \in history' :
                            /\ g.id = h.id /\ g.type # "delete"
                            /\ g.version = h.version - 1
                            /\ g.change < h.change
    BY DEF HistoryHasNoGaps
  <2>1. CASE h \in history
    BY <1>2, <2>1 DEF ParameterInv, HistoryHasNoGaps
  <2>2. CASE h = new
    <3>1. type = "update" => \E g \in history :
            g.id = id /\ g.type # "delete" /\ g.version = version - 1
      BY DEF IsRecorded
    <3>2. \A g \in history : g.change < changes + 1
      BY <1>2 DEF ParameterInv, HistoryInv, ParameterTypeOK, VersionRow
    <3> QED
      BY <1>2, <1>5, <2>2, <3>1, <3>2
  <2> QED
    BY <1>2, <2>1, <2>2
<1> QED
  BY <1>8, <1>9, <1>10, <1>11, <1>12, <1>13 DEF ParameterInv

LEMMA UpsertKeepsInv ==
    ASSUME ParameterInv, NEW r \in Request, Create(r) \/ Update(r)
    PROVE  ParameterInv'
<1>1. CASE Create(r)
  <2>1. changes + 1 \in 1 .. MaxChanges /\ 1 \in 1 .. changes + 1
    BY <1>1, MaxChangesAssumption
       DEF Create, Save, Record, ParameterInv, ParameterTypeOK
  <2> QED
    BY <1>1, <2>1, SaveKeepsInv DEF Create
<1>2. CASE Update(r)
  <2>1. /\ key[r] \in ParamKey /\ read[r] \in RowOf(key[r])
        /\ read[r].version <= newest[key[r]]
        /\ IsRecorded(read[r].id, read[r].version)
    BY <1>2 DEF Update, CanUpdate, ParameterInv, RequestInv
  <2>2. PICK n \in 1 .. MaxChanges : read[r].id = <<key[r], n>>
    BY <2>1 DEF RowOf
  <2>3. read[r].version + 1 \in 1 .. changes + 1
        /\ (read[r].version + 1) - 1 = read[r].version
    BY <2>1, MaxChangesAssumption
       DEF RowOf, ParameterInv, VersionInv, ParameterTypeOK
  <2> DEFINE version == read[r].version + 1
  <2>4. /\ Save(key[r], <<key[r], n>>, version, value[r], "update")
        /\ Finish(r) /\ pc[r] = "upserting"
    BY <1>2, <2>2 DEF Update, CanUpdate
  <2>5. IsRecorded(<<key[r], n>>, version - 1)
    BY <2>1, <2>2, <2>3
  <2>6. version \in 1 .. changes + 1
    BY <2>3
  <2> HIDE DEF version
  <2> QED
    BY <2>4, <2>5, <2>6, SaveKeepsInv
<1> QED
  BY <1>1, <1>2

\* A delete takes the row away, if it is still the one found, and records the
\* deletion, which nothing is updated from.
LEMMA DeleteKeepsInv ==
    ASSUME ParameterInv, NEW r \in Request, CommitDelete(r)
    PROVE  ParameterInv'
<1> DEFINE id == read[r].id
           version == read[r].version + 1
           new == [change |-> changes + 1, id |-> id, version |-> version,
                   value |-> Nothing, type |-> "delete"]
<1>1. /\ key[r] \in ParamKey /\ read[r] \in RowOf(key[r])
      /\ read[r].version <= newest[key[r]]
  BY DEF CommitDelete, ParameterInv, RequestInv
<1> HIDE DEF id, version
<1>0. Record(id, version, Nothing, "delete")
  BY DEF CommitDelete, id, version
<1>2. /\ changes \in Nat /\ changes < MaxChanges /\ changes' = changes + 1
      /\ history \subseteq history'
      /\ \A h \in history' : h \in history \/ h = new
  BY <1>0, RecordFacts
<1>3. new \in VersionRow /\ new.change = changes + 1
  <2>1. version \in 1 .. MaxChanges
    BY <1>1, <1>2, MaxChangesAssumption
       DEF RowOf, ParameterInv, VersionInv, ParameterTypeOK, version
  <2>2. id \in RowId
    BY <1>1 DEF RowOf, RowId, id
  <2>3. changes + 1 \in 1 .. MaxChanges
    BY <1>2, MaxChangesAssumption
  <2> QED
    BY <2>1, <2>2, <2>3 DEF VersionRow
<1>4. /\ newest' = newest
      /\ \A k \in ParamKey : row'[k] \in {row[k], Nothing}
      /\ row' \in [ParamKey -> ParameterRow \cup {Nothing}]
  BY DEF CommitDelete, ParameterInv, ParameterTypeOK
<1>5. ParameterTypeOK'
  <2>1. history' \subseteq VersionRow
    BY <1>2, <1>3 DEF ParameterInv, ParameterTypeOK
  <2>2. changes' \in 0 .. MaxChanges
    BY <1>2, MaxChangesAssumption
  <2>3. /\ pc' \in [Request -> {"idle", "upserting", "deleting", "deletingTx"}]
        /\ key' \in [Request -> ParamKey \cup {Nothing}]
        /\ value' \in [Request -> Value \cup {Nothing}]
        /\ read' \in [Request -> ParameterRow \cup {Nothing}]
    BY DEF CommitDelete, Finish, ParameterInv, ParameterTypeOK
  <2>4. \A k \in ParamKey : row'[k] \in RowOf(k) \cup {Nothing}
    BY <1>4 DEF ParameterInv, ParameterTypeOK
  <2> QED
    BY <1>4, <2>1, <2>2, <2>3, <2>4 DEF ParameterInv, ParameterTypeOK
<1>6. RequestInv'
  <2>1. ASSUME NEW q \in Request, pc'[q] # "idle"
        PROVE  /\ pc[q] # "idle" /\ pc'[q] = pc[q] /\ key'[q] = key[q]
               /\ value'[q] = value[q] /\ read'[q] = read[q]
    BY <2>1 DEF CommitDelete, Finish, ParameterInv, ParameterTypeOK
  <2>2. ASSUME NEW i, NEW w, IsRecorded(i, w) PROVE IsRecorded(i, w)'
    BY <1>2, <2>2 DEF IsRecorded
  <2> QED
    BY <1>4, <2>1, <2>2 DEF ParameterInv, RequestInv
<1>7. VersionInv'
  BY <1>2, <1>4 DEF ParameterInv, VersionInv, ParameterTypeOK
<1>8. HistoryInv'
  BY <1>2, <1>3 DEF ParameterInv, HistoryInv, ParameterTypeOK, VersionRow
<1>9. RowsAreRecorded'
  BY <1>2, <1>4 DEF ParameterInv, RowsAreRecorded
<1>10. HistoryHasNoGaps'
  BY <1>2 DEF ParameterInv, HistoryHasNoGaps
<1> QED
  BY <1>5, <1>6, <1>7, <1>8, <1>9, <1>10 DEF ParameterInv

LEMMA NextParameterInv == ParameterInv /\ [ParameterNext]_parameterVars => ParameterInv'
<1> SUFFICES ASSUME ParameterInv, [ParameterNext]_parameterVars
             PROVE  ParameterInv'
  OBVIOUS
<1>1. CASE EnvironmentDeleted
  <2>1. ParameterTypeOK'
    BY <1>1 DEF EnvironmentDeleted, requestVars, ParameterInv, ParameterTypeOK
  <2>2. RequestInv' /\ VersionInv' /\ HistoryInv'
    BY <1>1
       DEF EnvironmentDeleted, requestVars, ParameterInv, RequestInv,
           IsRecorded, VersionInv, HistoryInv, ParameterTypeOK
  <2>3. RowsAreRecorded' /\ HistoryHasNoGaps'
    BY <1>1
       DEF EnvironmentDeleted, ParameterInv, RowsAreRecorded, HistoryHasNoGaps
  <2> QED
    BY <2>1, <2>2, <2>3 DEF ParameterInv
<1>2. CASE UNCHANGED parameterVars
  BY <1>2
     DEF parameterVars, requestVars, ParameterInv, ParameterTypeOK, RequestInv,
         IsRecorded, VersionInv, HistoryInv, RowsAreRecorded, HistoryHasNoGaps
<1> QED
  BY <1>1, <1>2, ReadersKeepInv, UpsertKeepsInv, DeleteKeepsInv
     DEF ParameterNext

\* The inductive invariant holds in every reachable state.
THEOREM ParameterInvHolds == ParameterSpec => []ParameterInv
BY InitParameterInv, NextParameterInv, PTL DEF ParameterSpec

\* The tables, and what the requests in progress know, keep their types.
THEOREM ParametersAreTyped == ParameterSpec => []ParameterTypeOK
<1>1. ParameterInv => ParameterTypeOK
  BY DEF ParameterInv
<1> QED
  BY <1>1, ParameterInvHolds, PTL

\* What a parameter holds is one of the changes recorded under its row's id.
THEOREM HistoryKnowsRows == ParameterSpec => []RowsAreRecorded
<1>1. ParameterInv => RowsAreRecorded
  BY DEF ParameterInv
<1> QED
  BY <1>1, ParameterInvHolds, PTL

\* Each update recorded continues from a change recorded before it.
THEOREM HistoryIsConnected == ParameterSpec => []HistoryHasNoGaps
<1>1. ParameterInv => HistoryHasNoGaps
  BY DEF ParameterInv
<1> QED
  BY <1>1, ParameterInvHolds, PTL

-----------------------------------------------------------------------------
(* The rows behave as ParameterRows says.                                  *)

\* An upsert is a Write.
LEMMA SaveRefines ==
    ASSUME ParameterInv, NEW k \in ParamKey, NEW v \in Value,
           NEW id \in {k} \X (1 .. MaxChanges), NEW type,
           NEW last \in 0 .. newest[k], last + 1 \in 1 .. MaxChanges,
           Save(k, id, last + 1, v, type)
    PROVE  Rows!Write(k)
<1> DEFINE saved == [id |-> id, value |-> v, version |-> last + 1]
<1>1. saved \in RowOf(k) /\ saved # Nothing
  BY NothingAssumption DEF RowOf, ParameterRow
<1>2. row' = [row EXCEPT ![k] = saved]
  BY DEF Save
<1>3. [j \in ParamKey |-> Contents(j)]' =
        [[j \in ParamKey |-> Contents(j)] EXCEPT
            ![k] = [value |-> v, version |-> last + 1]]
  BY <1>1, <1>2 DEF Contents, ParameterInv, ParameterTypeOK
<1>4. newest' = [newest EXCEPT ![k] = IF last + 1 > @ THEN last + 1 ELSE @]
  BY DEF Save
<1> QED
  BY <1>3, <1>4 DEF Rows!Write

LEMMA NextIsRowsNext ==
    ParameterInv /\ [ParameterNext]_parameterVars
        => [Rows!RowsNext]_(Rows!rowsVars)
<1> SUFFICES ASSUME ParameterInv, [ParameterNext]_parameterVars
             PROVE  [Rows!RowsNext]_(Rows!rowsVars)
  OBVIOUS
<1>1. ASSUME NEW r \in Request, Create(r)
      PROVE  Rows!RowsNext
  <2>1. key[r] \in ParamKey /\ value[r] \in Value
    BY <1>1 DEF Create, ParameterInv, RequestInv
  <2>2. /\ changes + 1 \in 1 .. MaxChanges /\ 0 + 1 \in 1 .. MaxChanges
        /\ 0 \in 0 .. newest[key[r]] /\ 0 + 1 = 1
    BY <1>1, <2>1, MaxChangesAssumption
       DEF Create, Save, Record, ParameterInv, ParameterTypeOK
  <2>3. <<key[r], changes + 1>> \in {key[r]} \X (1 .. MaxChanges)
    BY <2>2
  <2>4. Save(key[r], <<key[r], changes + 1>>, 0 + 1, value[r], "create")
    BY <1>1, <2>2 DEF Create
  <2> QED
    BY <2>1, <2>2, <2>3, <2>4, SaveRefines DEF Rows!RowsNext
<1>2. ASSUME NEW r \in Request, Update(r)
      PROVE  Rows!RowsNext
  <2>1. /\ key[r] \in ParamKey /\ value[r] \in Value
        /\ read[r] \in RowOf(key[r])
        /\ read[r].version <= newest[key[r]]
    BY <1>2 DEF Update, CanUpdate, ParameterInv, RequestInv
  <2>2. read[r].id \in {key[r]} \X (1 .. MaxChanges)
    BY <2>1 DEF RowOf
  <2>3. /\ Save(key[r], read[r].id, read[r].version + 1, value[r], "update")
        /\ changes \in Nat /\ changes < MaxChanges
    BY <1>2 DEF Update, Save, Record, ParameterInv, ParameterTypeOK
  <2>4. /\ read[r].version \in 0 .. newest[key[r]]
        /\ read[r].version + 1 \in 1 .. MaxChanges
    BY <2>1, <2>3, MaxChangesAssumption
       DEF RowOf, ParameterInv, VersionInv, ParameterTypeOK
  <2> QED
    BY <2>1, <2>2, <2>3, <2>4, SaveRefines DEF Rows!RowsNext
<1>3. ASSUME NEW r \in Request, CommitDelete(r)
      PROVE  [Rows!RowsNext]_(Rows!rowsVars)
  <2> DEFINE k == key[r]
  <2>1. k \in ParamKey /\ newest' = newest
    BY <1>3 DEF CommitDelete, ParameterInv, RequestInv
  <2>2. CASE SameRow(k, read[r])
    <3>1. row' = [row EXCEPT ![k] = Nothing] /\ row[k] \in RowOf(k)
      BY <1>3, <2>1, <2>2
         DEF CommitDelete, SameRow, ParameterInv, ParameterTypeOK
    <3>2. Contents(k) # Nothing
      <4>1. row[k] # Nothing
        BY <2>2 DEF SameRow
      <4>2. Contents(k) \in [value : Value, version : 1 .. MaxChanges]
        BY <3>1, <4>1 DEF Contents, RowOf
      <4> QED
        BY <4>2, NothingAssumption
    <3>3. [j \in ParamKey |-> Contents(j)]' =
            [[j \in ParamKey |-> Contents(j)] EXCEPT ![k] = Nothing]
      BY <2>1, <3>1 DEF Contents, ParameterInv, ParameterTypeOK
    <3> QED
      BY <2>1, <3>2, <3>3 DEF Rows!RowsNext, Rows!Delete
  <2>3. CASE ~SameRow(k, read[r])
    <3>1. row' = row
      BY <1>3, <2>3 DEF CommitDelete, ParameterInv, ParameterTypeOK
    <3> QED
      BY <2>1, <3>1 DEF Rows!rowsVars, Contents
  <2> QED
    BY <2>2, <2>3
<1>4. CASE EnvironmentDeleted
  BY <1>4 DEF EnvironmentDeleted, Contents, Rows!RowsNext, Rows!DeleteAll
<1>5. ASSUME UNCHANGED <<row, newest>>
      PROVE  UNCHANGED Rows!rowsVars
  BY <1>5 DEF Rows!rowsVars, Contents
<1>6. ASSUME NEW r \in Request,
             \/ \E k \in ParamKey : \E v \in Value : StartUpsert(r, k, v)
             \/ \E k \in ParamKey : StartDelete(r, k)
             \/ UpsertRefused(r) \/ FindForDelete(r) \/ DeleteRefused(r)
             \/ Fail(r)
      PROVE  UNCHANGED <<row, newest>>
  BY <1>6 DEF StartUpsert, StartDelete, UpsertRefused, FindForDelete,
              DeleteRefused, Fail
<1>7. ASSUME UNCHANGED parameterVars
      PROVE  UNCHANGED <<row, newest>>
  BY <1>7 DEF parameterVars
<1> QED
  BY <1>1, <1>2, <1>3, <1>4, <1>5, <1>6, <1>7 DEF ParameterNext

\* Whatever requests interleave, each commit changes one row as ParameterRows
\* allows: the version it carries continues one the parameter has had.
THEOREM RowsImplement == ParameterSpec => RowsBehave
<1>1. ParameterInit => Rows!RowsInit
  BY DEF ParameterInit, Contents, Rows!RowsInit
<1> QED
  BY <1>1, NextIsRowsNext, ParameterInvHolds, PTL
     DEF ParameterSpec, RowsBehave, Rows!RowsSpec

=============================================================================
