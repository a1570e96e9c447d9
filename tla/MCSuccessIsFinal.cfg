SPECIFICATION Spec
CONSTANTS
    u1 = u1
    u2 = u2
    URL <- MCURL
    Name = {u1}
    lastPathComponent <- MCSharedName
    Length <- MCLength
    Loader = {d1, d2}
    Task = {t1, t2}
    ServerKinds = {"range"}
    SizeCap = 2
    ReportCap = 2
    IOErrors = FALSE
    NoFile = NoFile
    nil = nil
PROPERTY SuccessIsFinal
