\* An evaluation from the database among one administrator's requests, one at a time.
SPECIFICATION EvalSpec
CONSTANTS
    f1 = f1
    f2 = f2
    x1 = x1
    c1 = c1
    FlagKey = {f1, f2}
    Environment = {e1}
    Request = {r1}
    Creation <- MCCreation
    Patch <- MCPatch
    Buckets <- OneBucket
    MaxChanges = 4
    Variant = {"on", "off"}
    FlagType = {"boolean", "string"}
    Priority = {0}
    Condition = {c1}
    Context = {x1}
    KeyedContext = {x1}
    Holds <- MCHolds
    Absent = Absent
    Null = Null
    None = None
    Keep = Keep
    Whole = 1
    MaxPrerequisiteDepth = 2
INVARIANTS
    AgreesWithLoaded
    PrerequisitesHold
PROPERTIES
    EvaluationEnds
CHECK_DEADLOCK FALSE
