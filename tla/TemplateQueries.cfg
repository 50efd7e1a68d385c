SPECIFICATION Spec
CONSTANTS
    None = None
    Units = {u1, u2}
    Objects = {o1}
    Templates = {t1, t2}
    Designs = {d1}
    Players = {p1}
    Capacity = 1
    MaxLives = 2
    MaxWorlds = 2
    MaxTurns = 2
INVARIANTS
    QueriesInStep
    WaitersRegistered
    UnitsFollow
PROPERTIES
    QueriesAnswered
