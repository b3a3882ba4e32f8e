\* Two requests at a time; each behaviour makes one of the tours.
SPECIFICATION Spec
CONSTANTS
    Message = {m1, m2}
    Template = {qa, dev}
    Slug = {s1}
    Default = production
    Request = {r1, r2}
    None = None
    Tours <- MCTours
INVARIANTS TypeOK ReadOnlyInMaintenance ProjectsAreAsShown
PROPERTIES NoticeSettles
CHECK_DEADLOCK FALSE
