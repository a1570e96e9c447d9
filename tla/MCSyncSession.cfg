SPECIFICATION Spec
CONSTANTS
    App = {a1, a2}
    Writer = {a1, a2}
    loop = loop
    Session = {s1, s2}
    Waiter = {w1}
    ErrorKinds = {"expired", "auth", "reset", "cancel"}
    StopPolicy = {"Immediately", "LiveIndefinitely", "AfterChangesUploaded"}
    MaxVersion = 1
    MaxOpens = 2
    MaxStops = 2
    nil = nil
SYMMETRY MCSymmetry
CHECK_DEADLOCK FALSE
INVARIANTS
    TypeOK
    SessionMatchesState
    CalledOnce
    ReferencedIsRegistered
