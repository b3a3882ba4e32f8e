\* Two requests at a time on one parameter.
SPECIFICATION ParameterSpec
CONSTANTS
    ParamKey = {k1}
    Value = {v1, v2}
    Request = {r1, r2}
    Nothing = Nothing
    MaxChanges = 4
INVARIANTS
    RowsAreRecorded
    HistoryHasNoGaps
PROPERTIES
    RowsBehave
