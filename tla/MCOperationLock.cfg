\* Commands that do not overlap while they acquire the lock.
SPECIFICATION LockSpec
CONSTANTS
    Pids = {p1, p2, p3, p4}
    Absent = Absent
    Empty = Empty
    Overlap = FALSE
SYMMETRY MCSymmetry
INVARIANTS LockTypeOK MutualExclusion LockProtected
