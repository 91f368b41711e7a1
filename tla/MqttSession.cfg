SPECIFICATION LiveSpec
CONSTANT
    MaxConnects = 3
INVARIANTS
    ReplayEffective
PROPERTIES
    ReplayRestores
    SubscribeReturns
    StatusSettles
    DeathShown
