SPECIFICATION Spec
CONSTANTS
    Item = {i1, i2, i3}
    StrictKVO = FALSE
    nil = nil
INVARIANTS
    TypeOK
    NeverRaises
PROPERTIES
    ReadyPlays
CHECK_DEADLOCK FALSE
