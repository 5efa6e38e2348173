CONSTANTS
    c1 = c1
    c2 = c2
    shielded = shielded
    dust = dust
    Commands = {c1, c2}
    Parts = {shielded, dust}
    MaxTip = 1
    Unwritten = empty
    Faulty = faulty
    OwnPasswords = {own}
    own = own
    None = none
SPECIFICATION StartSpec
CONSTRAINT WhileBothRun
SYMMETRY Symmetries
INVARIANTS SoundWhenUsed AloneIsSafe
CHECK_DEADLOCK FALSE
