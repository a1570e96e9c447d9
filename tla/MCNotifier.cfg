SPECIFICATION Spec
CONSTANTS
    Notifier = {n1}
    MaxVersion = 3
    MaxTokens = 2
    Practice = {"add inside"}
    nil = nil
INVARIANTS
    TypeOK
    ToldExactly
    CountIsPackaged
    HaveCallbacksExact
