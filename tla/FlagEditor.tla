----------------------------- MODULE FlagEditor -----------------------------
(***************************************************************************)
(* The page of a flag: the strategies, the rows of the condition of one of *)
(* them, which no edit of the others touches, and what the page fetches    *)
(* and saves of both at once.                                              *)
(***************************************************************************)
EXTENDS RuleEditor, StrategyEditor

vars == <<stored, fetched, form, raw, saving, edits, saved, loaded, strategies,
          prerequisite, sent, changes>>

\* Bound: a behaviour edits the rows of any condition, or the strategies of any
\* flag.
Init ==
    /\ \/ /\ edits = 0 /\ changes = MaxChanges
          /\ stored \in Stored /\ saved = CHOOSE flag \in Opened : TRUE
       \/ /\ edits = MaxEdits /\ changes = 0
          /\ stored = (CHOOSE condition \in Stored : TRUE) /\ saved \in Opened
    /\ fetched = stored /\ form = ParsedForm(stored) /\ raw = ParsedRaw(stored)
    /\ loaded = saved /\ strategies = saved.strategies
    /\ prerequisite = saved.prerequisite
    /\ saving = <<>> /\ sent = <<>>

\* The page goes on being edited while the PATCH is in flight.
Save == SendRows /\ SendStrategies
Saved == StoreRows /\ StoreStrategies
SaveFailed == RefuseRows /\ RefuseStrategies

\* The flag is fetched again, after a save or when the window gets the focus.
\* If anything of it differs, the page is set to what it says.
Refetch == LoadRows /\ LoadStrategies

Next ==
    \/ EditsRows /\ UNCHANGED listVars
    \/ EditsStrategies /\ UNCHANGED rowVars
    \/ Save \/ Saved \/ SaveFailed \/ Refetch

Spec == Init /\ [][Next]_vars

\* The parts of the page have their types, and one request carries both.
TypeOK ==
    /\ RowsTypeOK /\ ListTypeOK
    /\ saving = <<>> <=> sent = <<>>
=============================================================================
