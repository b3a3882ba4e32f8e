--------------------------- MODULE ParameterStore ---------------------------
(***************************************************************************)
(* The parameters of one environment and the history of their changes:     *)
(* parameter.Service over postgresParameterRepository.  The service reads  *)
(* the row and computes the next version outside of the transaction that   *)
(* writes the row and its version row, so requests interleave there; and   *)
(* Delete reads once more inside its transaction, which at the isolation   *)
(* level of the database (read committed) locks nothing.                   *)
(***************************************************************************)
EXTENDS Naturals

CONSTANTS
    ParamKey, Value,
    Request,        \* slots for requests in progress
    Nothing,        \* no row, no value
    MaxChanges      \* bound: transactions that commit

ASSUME MaxChangesAssumption == MaxChanges \in Nat

\* The uuid of a row is generated when it is created: the key and the number of
\* the transaction stand for it.
RowId == ParamKey \X (1 .. MaxChanges)
RowOf(k) ==
    [id : {k} \X (1 .. MaxChanges), value : Value, version : 1 .. MaxChanges]
ParameterRow == UNION {RowOf(k) : k \in ParamKey}

\* A row of parameter_versions; `change` tells apart rows that are equal else.
VersionRow ==
    [change : 1 .. MaxChanges, id : RowId, version : 1 .. MaxChanges,
     value : Value \cup {Nothing}, type : {"create", "update", "delete"}]

ASSUME NothingAssumption ==
    /\ Nothing \notin ParameterRow /\ Nothing \notin Value
    /\ Nothing \notin [value : Value, version : 1 .. MaxChanges]

VARIABLES
    row,        \* row[k]: the row of parameters, Nothing if there is none
    history,    \* the rows of parameter_versions
    changes,    \* transactions committed
    pc,         \* pc[r]: where the request in slot r is
    key, value, \* the parameter it is about, and what to set it to
    read,       \* the row it found before its transaction, Nothing if none
    newest      \* history: the highest version each parameter has had

requestVars == <<pc, key, value, read>>
parameterVars == <<row, history, changes, newest, requestVars>>

ParameterTypeOK ==
    /\ row \in [ParamKey -> ParameterRow \cup {Nothing}]
    /\ \A k \in ParamKey : row[k] \in RowOf(k) \cup {Nothing}
    /\ history \subseteq VersionRow
    /\ changes \in 0 .. MaxChanges
    /\ newest \in [ParamKey -> 0 .. MaxChanges]
    /\ pc \in [Request -> {"idle", "upserting", "deleting", "deletingTx"}]
    /\ key \in [Request -> ParamKey \cup {Nothing}]
    /\ value \in [Request -> Value \cup {Nothing}]
    /\ read \in [Request -> ParameterRow \cup {Nothing}]

ParameterInit ==
    /\ row = [k \in ParamKey |-> Nothing]
    /\ history = {}
    /\ changes = 0
    /\ newest = [k \in ParamKey |-> 0]
    /\ pc = [r \in Request |-> "idle"]
    /\ key = [r \in Request |-> Nothing]
    /\ value = [r \in Request |-> Nothing]
    /\ read = [r \in Request |-> Nothing]

-----------------------------------------------------------------------------

\* Service.Upsert: Find.
StartUpsert(r, k, v) ==
    /\ pc[r] = "idle"
    /\ pc' = [pc EXCEPT ![r] = "upserting"]
    /\ key' = [key EXCEPT ![r] = k]
    /\ value' = [value EXCEPT ![r] = v]
    /\ read' = [read EXCEPT ![r] = row[k]]
    /\ UNCHANGED <<row, history, changes, newest>>

\* Service.Delete: Find, which has to find the row.
StartDelete(r, k) ==
    /\ pc[r] = "idle"
    /\ row[k] # Nothing
    /\ pc' = [pc EXCEPT ![r] = "deleting"]
    /\ key' = [key EXCEPT ![r] = k]
    /\ read' = [read EXCEPT ![r] = row[k]]
    /\ UNCHANGED <<row, history, changes, newest, value>>

\* The request is answered.
Finish(r) ==
    /\ pc' = [pc EXCEPT ![r] = "idle"]
    /\ key' = [key EXCEPT ![r] = Nothing]
    /\ value' = [value EXCEPT ![r] = Nothing]
    /\ read' = [read EXCEPT ![r] = Nothing]

\* The row under key k, if any, is the one that was found.
SameRow(k, found) ==
    found # Nothing /\ row[k] # Nothing /\ row[k].id = found.id

\* A transaction commits with one more version row.
Record(id, version, v, type) ==
    /\ changes < MaxChanges
    /\ changes' = changes + 1
    /\ history' = history \cup
        {[change |-> changes + 1, id |-> id, version |-> version,
          value |-> v, type |-> type]}

\* The transaction of an upsert: the row and its version row.
Save(k, id, version, v, type) ==
    /\ row' = [row EXCEPT ![k] = [id |-> id, value |-> v, version |-> version]]
    /\ newest' = [newest EXCEPT ![k] = IF version > @ THEN version ELSE @]
    /\ Record(id, version, v, type)

\* Nothing was found: Save inserts a row with a new id.
Create(r) ==
    /\ pc[r] = "upserting"
    /\ read[r] = Nothing
    /\ row[key[r]] = Nothing
    /\ Save(key[r], <<key[r], changes + 1>>, 1, value[r], "create")
    /\ Finish(r)

\* The row that was found is there, or nothing is there any more.
CanUpdate(r) ==
    /\ pc[r] = "upserting"
    /\ read[r] # Nothing
    /\ row[key[r]] = Nothing \/ SameRow(key[r], read[r])

\* Mutant: the version row keeps the value that was replaced.
UpdateRecordsOldValue(r) ==
    /\ CanUpdate(r)
    /\ row' = [row EXCEPT ![key[r]] =
                [id |-> read[r].id, value |-> value[r],
                 version |-> read[r].version + 1]]
    /\ Record(read[r].id, read[r].version + 1, read[r].value, "update")
    /\ UNCHANGED newest
    /\ Finish(r)

\* Mutant: a row that is revived skips the version its deletion took.
UpdateSkipsVersion(r) ==
    /\ CanUpdate(r)
    /\ Save(key[r], read[r].id,
            IF row[key[r]] = Nothing THEN read[r].version + 2
            ELSE read[r].version + 1, value[r], "update")
    /\ Finish(r)

\* Save updates the row by its id or, when it is gone meanwhile, inserts it
\* again under the same id.
Update(r) ==
    /\ CanUpdate(r)
    /\ Save(key[r], read[r].id, read[r].version + 1, value[r], "update")
    /\ Finish(r)

\* The unique index on the key refuses a second row, and the transaction and
\* the request fail.
UpsertRefused(r) ==
    /\ pc[r] = "upserting"
    /\ row[key[r]] # Nothing
    /\ ~SameRow(key[r], read[r])
    /\ Finish(r)
    /\ UNCHANGED <<row, history, changes, newest>>

\* Repository.Delete, in its transaction: the row is looked up by its key, and
\* from here on it is this row's id that counts.
FindForDelete(r) ==
    /\ pc[r] = "deleting"
    /\ row[key[r]] # Nothing
    /\ pc' = [pc EXCEPT ![r] = "deletingTx"]
    /\ read' = [read EXCEPT ![r] = [id |-> row[key[r]].id,
                                    value |-> read[r].value,
                                    version |-> read[r].version]]
    /\ UNCHANGED <<row, history, changes, newest, key, value>>

\* It is gone: 404.
DeleteRefused(r) ==
    /\ pc[r] = "deleting"
    /\ row[key[r]] = Nothing
    /\ Finish(r)
    /\ UNCHANGED <<row, history, changes, newest>>

\* The version row goes in and the row goes out, whatever it holds by now, if
\* it is still there.
CommitDelete(r) ==
    LET k == key[r] IN
    /\ pc[r] = "deletingTx"
    /\ row' = [row EXCEPT ![k] =
                IF SameRow(k, read[r]) THEN Nothing ELSE row[k]]
    /\ Record(read[r].id, read[r].version + 1, Nothing, "delete")
    /\ UNCHANGED newest
    /\ Finish(r)

\* The database fails, or the client goes away: 500, and nothing is written.
Fail(r) ==
    /\ pc[r] # "idle"
    /\ Finish(r)
    /\ UNCHANGED <<row, history, changes, newest>>

\* The environment is deleted: its parameters go, their history stays, and
\* requests that are past the middleware go on.
EnvironmentDeleted ==
    /\ row' = [k \in ParamKey |-> Nothing]
    /\ UNCHANGED <<history, changes, newest, requestVars>>

ParameterNext ==
    \/ \E r \in Request :
        \/ \E k \in ParamKey :
            \/ \E v \in Value : StartUpsert(r, k, v)
            \/ StartDelete(r, k)
        \/ Create(r) \/ Update(r) \/ UpsertRefused(r)
        \/ FindForDelete(r) \/ DeleteRefused(r) \/ CommitDelete(r)
        \/ Fail(r)
    \/ EnvironmentDeleted

ParameterSpec == ParameterInit /\ [][ParameterNext]_parameterVars

-----------------------------------------------------------------------------
(* Properties.                                                             *)

\* Whatever a parameter holds, its history says so: the row's value and
\* version are those of a change recorded under the row's own id, also for a
\* row that a request revived after its deletion.
RowsAreRecorded ==
    \A k \in ParamKey : row[k] # Nothing =>
        \E h \in history :
            /\ h.id = row[k].id /\ h.type # "delete"
            /\ h.version = row[k].version /\ h.value = row[k].value

\* The history of a row has no gap: what it was updated from is recorded, back
\* to its creation as version 1, whichever requests computed the versions.  (A
\* deletion is left out: its version was computed from the row found first,
\* and recorded under the id of the row found second.)
HistoryHasNoGaps ==
    \A h \in history :
        /\ h.type = "create" => h.version = 1
        /\ h.type = "update" => \E g \in history :
                /\ g.id = h.id /\ g.type # "delete"
                /\ g.version = h.version - 1 /\ g.change < h.change

\* Seen from outside, the rows behave as ParameterRows says.
Contents(k) ==
    IF row[k] = Nothing THEN Nothing
    ELSE [value |-> row[k].value, version |-> row[k].version]
Rows == INSTANCE ParameterRows
    WITH contents <- [k \in ParamKey |-> Contents(k)], highest <- newest,
         None <- Nothing
RowsBehave == Rows!RowsSpec
=============================================================================
