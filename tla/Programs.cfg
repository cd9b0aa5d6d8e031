SPECIFICATION Spec
CONSTANTS
    gold = gold
    silver = silver
    base1 = base1
    base2 = base2
    addon = addon
    other = other
    Programs = {gold, silver}
    Versions = {base1, base2, addon, other}
    Members = {m}
    Enrollments = {e1, e2}
    Callers = {c1, c2}
    ProgramOf <- MCProgramOf
    BaseVersions = {base1, base2, other}
    ValidVersions = {base1, base2, addon, other}
    MaxClock = 3
SYMMETRY Symmetry
CHECK_DEADLOCK FALSE
INVARIANTS
    TypeOK
    PublishedBaseRemains
    OnlyOverlappingCoexist
    EnrolledStaysEnrolled
    RuleSetOfOneProgram
    GraphsReadExist
PROPERTIES
    VersionLifecycle
