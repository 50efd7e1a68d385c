SPECIFICATION FairSpec
CONSTANTS
    c1 = c1
    Characters = {c1}
    MaxRequests = 2
    MaxRealms = 3
    MaxSetup = 2
    MaxEvents = 4
    SetupLimit = 1
INVARIANTS
    SessionInStep
    SettledShowsRoster
PROPERTIES
    CardComesDown
    CharactersAppear
