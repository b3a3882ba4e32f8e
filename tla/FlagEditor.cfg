\* Two edits of any stored condition, or three of the strategies of a flag, saves and
\* reloads between them.
SPECIFICATION Spec
CONSTANTS
    MaxHeight = 5
    Numeral <- MCNumeral
    Version <- MCVersion
    Substring <- MCSubstring
    Pattern <- MCPattern
    Matching <- MCMatching
    Trim <- MCTrim
    Context <- MCContext
    Stored <- MCStored
    Attribute <- MCAttribute
    Typed <- MCTyped
    Tried = {"in", "semver>"}
    MaxEdits = 2
    MaxItems = 4
    MaxGroup = 2
    Opened <- MCOpened
    TypedKey = {"C"}
    TypedValue = {"0", "text"}
    TypedPercentage <- MCTypedPercentage
    Offered <- MCOffered
    MaxChanges = 3
    MaxStrategies = 2
INVARIANTS TypeOK SavedMeansShown UneditedSaveKeepsMeaning BooleanIsAsShown
CHECK_DEADLOCK FALSE
