\* Three keys, two requests side by side.
CONSTANTS
    Keys = {k1, k2, k3}
    Requests = {r1, r2}
SYMMETRY RequestSymmetry
SPECIFICATION Spec
CHECK_DEADLOCK FALSE
INVARIANT TypeOK
INVARIANT ReturnedKeysWork
