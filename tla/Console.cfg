\* Two projects with the same two environments, one mutation at a time; each
\* behaviour makes one of the tours.
SPECIFICATION Spec
CONSTANTS
    Project = {p1, p2}
    Environment = {production, staging}
    Default = production
    Key = {k1}
    Call = {c1, c2}
    None = None
    Tours <- MCTours
INVARIANTS TypeOK ActsWhereShown WritesAreShown ResultsFitTheForm PagesLoad
SYMMETRY Symmetry
CHECK_DEADLOCK FALSE
