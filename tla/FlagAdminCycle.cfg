\* Two flags that require each other, with legacy defaults.
SPECIFICATION Spec
CONSTANTS
    f1 = f1
    f2 = f2
    x1 = x1
    x2 = x2
    c1 = c1
    FlagKey = {f1, f2}
    Environment = {e1}
    Request = {r1}
    Creation <- CyclicCreation
    Patch = {}
    Buckets <- OneBucket
    MaxChanges = 6
    Variant = {"on", "off"}
    FlagType = {"boolean", "string"}
    Priority = {0, 1, 2}
    Condition = {c1}
    Context = {x1, x2}
    KeyedContext = {x1}
    Holds <- MCHolds
    Absent = Absent
    Null = Null
    None = None
    Keep = Keep
    Whole = 2
    MaxPrerequisiteDepth = 2
INVARIANT CyclesFailClosed
CHECK_DEADLOCK FALSE
