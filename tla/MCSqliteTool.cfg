SPECIFICATION Spec
CONSTANTS
    one = one
    two = two
    three = three
    Call <- MCCall
    Count <- MCCount
    Overlap = FALSE
    nil = nil
INVARIANTS
    TypeOK
    AllOrNothing
    NoMeansNothing
    ConnectionsClosed
PROPERTY CallReturns
CHECK_DEADLOCK FALSE
