\* A strategy without a condition.
SPECIFICATION Spec
CONSTANTS
    MaxHeight = 5
    Numeral <- MCNumeral
    Version <- MCVersion
    Substring <- MCSubstring
    Pattern <- MCPattern
    Matching <- MCMatching
    Trim <- MCTrim
    Context <- MCContext
    Stored <- EmptyStored
    Attribute <- MCAttribute
    Typed <- MCTyped
    Tried = {"=="}
    MaxEdits = 1
    MaxItems = 2
    MaxGroup = 2
    Opened <- NoneOpened
    TypedKey = {"C"}
    TypedValue = {"0", "text"}
    TypedPercentage <- MCTypedPercentage
    Offered <- MCOffered
    MaxChanges = 0
    MaxStrategies = 1
INVARIANT OriginalIsPreserved
CHECK_DEADLOCK FALSE
