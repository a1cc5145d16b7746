\* Three accounts that follow, ignore and clear, crashes anywhere.
CONSTANTS
    a = a
    b = b
    c = c
    Account = {a, b, c}
    States = {0, 1, 2}
    MaxOps = 6
    MaxCrashes = 2
SPECIFICATION Spec
SYMMETRY AccountSymmetry
INVARIANTS TypeOK CountsMatch CountsNeverHigh
