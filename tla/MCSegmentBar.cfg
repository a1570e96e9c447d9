SPECIFICATION Spec
CONSTANTS
    Width = {24, 60}
    BarWidth = 180
    MaxItems = 4
    nil = nil
INVARIANTS
    TypeOK
    OneSelected
PROPERTIES
    ClickedIsVisible
    FromIsPrevious
CHECK_DEADLOCK FALSE
