SPECIFICATION Spec
CONSTANTS
    App = {a1, a2}
    Writer = {a1}
    loop = loop
    Session = {s1}
    Waiter = {}
    ErrorKinds = {"expired", "reset"}
    StopPolicy = {"AfterChangesUploaded"}
    MaxVersion = 2
    MaxOpens = 3
    MaxStops = 2
    nil = nil
CHECK_DEADLOCK FALSE
PROPERTY UploadedBeforeDeath
