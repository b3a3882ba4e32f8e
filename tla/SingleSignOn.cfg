SPECIFICATION Spec
CONSTANTS
    Email = {e1, e2}
    Subject = {s1, s2}
    External = {x}
    Group = {g}
    Login = {l1, l2}
    Request = {r}
    MaxChanges = 2
    None = None
SYMMETRY Symmetry
CHECK_DEADLOCK FALSE
INVARIANTS
    OneAccountPerSubject
    BootstrapStaysLocal
    SyncAgrees
PROPERTIES
    LocalMembershipStays
