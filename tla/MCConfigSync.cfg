CONSTANTS
    Node = {n1, n2}
    Name = {r1, r2}
    Option = {o1, o2}
    InitName = r1
    InitOption = o1
    Absent = Absent
    Torn = Torn
    MaxChanges = 3
SYMMETRY NodeSymmetry
CHECK_DEADLOCK FALSE
SPECIFICATION Spec
INVARIANTS
    TypeOK
    FreshUnlessOwed
    OnlyHostsStale
    MinorsDistinct
