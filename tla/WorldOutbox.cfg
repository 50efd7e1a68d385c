SPECIFICATION Spec
CONSTANTS
    None = None
    Capacity = 1
    MaxWorlds = 2
    MaxAll = 4
    MaxAsked <- MCMaxAsked
INVARIANTS
    RequestsKept
    LogoutOpen
PROPERTIES
    OfThisWorld
    RequestsSent
