\* Two commands find the same stale lock.
SPECIFICATION LockSpec
CONSTANTS
    Pids = {p1, p2, p3}
    Absent = Absent
    Empty = Empty
    Overlap = TRUE
SYMMETRY MCSymmetry
INVARIANTS MutualExclusion
