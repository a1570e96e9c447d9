SPECIFICATION DLSpec
CONSTANTS
    u1 = u1
    URL <- MCOneURL
    Name <- MCOneURL
    lastPathComponent <- MCOwnName
    Length <- MCLength
    Loader = {d1}
    Task = {t1, t2}
    ServerKinds = {"range", "full"}
    ReportCap = 0
    SizeCap = 3
    IOErrors = FALSE
    NoFile = NoFile
    nil = nil
PROPERTY RestartDownloads
