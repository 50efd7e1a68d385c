SPECIFICATION FairSpec
CONSTANTS
    MaxLogins = 2
    MaxRequests = 3
    AsksAgain = FALSE
    human = human
    deathKnight = deathKnight
    NoScene = NoScene
    Scenes <- MCScenes
    Missing <- MCMissing
    Backdrops <- MCBackdrops
    Lanes = 1
INVARIANTS
    OneStreamOwner
    StreamInStep
PROPERTIES
    QueriesSettle
\* After the last login everything may be over.
CHECK_DEADLOCK FALSE
