SPECIFICATION Spec
CONSTANTS
    Notifier = {n1}
    MaxVersion = 2
    MaxTokens = 1
    Practice = {}
    nil = nil
INVARIANT SuppressedNotTold
