---------------------------- MODULE ParameterRows ----------------------------
(***************************************************************************)
(* What the rest of the system may rely on of the parameters of one        *)
(* environment: a row comes and goes, each write in one step, and a write  *)
(* carries a version that is at most one above the highest the parameter   *)
(* ever had.  ParameterStore implements this module; RuntimePlane's        *)
(* actions SetParameter, DeleteParameter and DeleteEnvironment are these.  *)
(***************************************************************************)
EXTENDS Naturals

CONSTANTS
    ParamKey, Value, None

VARIABLES
    contents,   \* contents[k]: the value and version of k, None without row
    highest     \* highest[k]: the highest version k ever had

rowsVars == <<contents, highest>>

RowsInit ==
    /\ contents = [k \in ParamKey |-> None]
    /\ highest = [k \in ParamKey |-> 0]

\* The version continues from one that the row had at some time, or from none.
Write(k) ==
    \E v \in Value, read \in 0 .. highest[k] :
        /\ contents' = [contents EXCEPT
                            ![k] = [value |-> v, version |-> read + 1]]
        /\ highest' = [highest EXCEPT ![k] = IF read + 1 > @ THEN read + 1 ELSE @]

Delete(k) ==
    /\ contents[k] # None
    /\ contents' = [contents EXCEPT ![k] = None]
    /\ UNCHANGED highest

DeleteAll ==
    /\ contents' = [k \in ParamKey |-> None]
    /\ UNCHANGED highest

RowsNext == DeleteAll \/ \E k \in ParamKey : Write(k) \/ Delete(k)

RowsSpec == RowsInit /\ [][RowsNext]_rowsVars
=============================================================================
