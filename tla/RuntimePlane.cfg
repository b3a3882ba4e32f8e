\* From the tables to an event stream, with an outage and a restart.
SPECIFICATION Spec
CONSTANTS
    Key = {k1, k2}
    Environment = {e1}
    KeyScope <- OneScope
    Flag = {f1}
    Param = {p1}
    ParamValue = {v1}
    Stream = {s1}
    Client = {}
    None = None
    MaxCommits = 3
    MaxFailures = 1
    MaxRestarts = 1
INVARIANTS
    ServedRowsAreFresh
    HealthIsHonest
PROPERTIES
    StoreIsUsedAsSpecified
    Converges
