\* An event stream and a polling client, two keys of one scope, two flag sets: every
\* placement of Subscribe, sendFlags, the three loads of a poll and the two halves of
\* Replace.
SPECIFICATION Spec
CONSTANTS
    Key = {k1, k2}
    Scope = {live}
    KeyScope <- OneScope
    FlagSet = {old, new}
    ParamSet = {p1}
    Stream = {s1}
    Client = {c1}
    None = None
INVARIANTS
    NoLostWakeup
    SubscribersAreLive
    EtagNotNewerThanBody
PROPERTIES
    StreamsFollow
