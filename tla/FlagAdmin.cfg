\* Two requests at a time; order 0 is among the strategies they carry.
SPECIFICATION Spec
CONSTANTS
    f1 = f1
    f2 = f2
    x1 = x1
    x2 = x2
    c1 = c1
    FlagKey = {f1}
    Environment = {e1, e2}
    Request = {r1, r2}
    Creation <- ConcurrentCreation
    Patch <- ConcurrentPatch
    Buckets <- OneBucket
    MaxChanges = 4
    Variant = {"on", "off"}
    FlagType = {"boolean", "string"}
    Priority = {0, 1, 2}
    Condition = {c1}
    Context = {x1, x2}
    KeyedContext = {x1}
    Holds <- MCHolds
    Absent = Absent
    Null = Null
    None = None
    Keep = Keep
    Whole = 2
    MaxPrerequisiteDepth = 2
INVARIANTS
    AnswersAreTyped
    RulesComeFromOneSave
PROPERTIES
    PartsAreIndependent
CHECK_DEADLOCK FALSE
