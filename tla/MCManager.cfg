SPECIFICATION Spec
CONSTANTS
    u1 = u1
    u2 = u2
    URL <- MCURL
    Name = {u1}
    lastPathComponent <- MCSharedName
    Length <- MCLongLength
    Loader = {d1, d2}
    Task = {t1, t2}
    ServerKinds = {"range"}
    SizeCap = 3
    ReportCap = 2
    IOErrors = FALSE
    NoFile = NoFile
    nil = nil
INVARIANTS
    TypeOK
    CacheWhole
    TmpIsPrefix
    OneTransferPerURL
    RegisteredWhileBusy
    ToldWhenDone
    SuccessMeansStored
    ProgressHonest
    NoStuckTask
PROPERTIES
    ResumeKeepsBytes
    RequestAnswered
    ImplementsService
