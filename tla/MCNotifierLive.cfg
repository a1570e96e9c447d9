SPECIFICATION FairSpec
CONSTANTS
    Notifier = {n1}
    MaxVersion = 2
    MaxTokens = 2
    Practice = {"write inside", "commit fails"}
    nil = nil
PROPERTIES
    WaitEnds
    FirstNotification
