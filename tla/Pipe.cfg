\* Two writers, two readers, every kind of pipe.
SPECIFICATION Spec
CONSTANTS
    Writers = {w1, w2}
    Readers = {r1, r2}
    Options <- MCOptions
    MaxWrites = 4
    MaxErrors = 1
SYMMETRY Symm
CHECK_DEADLOCK FALSE
INVARIANTS
    InOrder
    NothingBehindEOF
    NobodyForgotten
