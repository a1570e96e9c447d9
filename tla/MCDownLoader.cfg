SPECIFICATION DLSpec
CONSTANTS
    u1 = u1
    URL <- MCOneURL
    Name <- MCOneURL
    lastPathComponent <- MCOwnName
    Length <- MCLength1
    Loader = {d1}
    Task = {t1, t2, t3}
    ServerKinds = {"range", "full", "chunked", "page"}
    ReportCap = 0
    SizeCap = 1
    IOErrors = FALSE
    NoFile = NoFile
    nil = nil
SYMMETRY MCSymmetry
INVARIANTS
    DLTypeOK
    NoLeakedStream
    DowningHasTask
