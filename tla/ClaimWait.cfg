SPECIFICATION LiveSpec
CONSTANTS
    Claims <- MCClaims
    Interfaces <- MCInterfaces
    NoClaim = NoClaim
    NoText = NoText
    MaxPublished = 3
PROPERTIES
    HandlerReturns
    GoodClaimEndsWait
    OwnClaimAccepted
INVARIANTS
    OnlyVerified
    ClaimedMeansPersisted
    AckedMeansPersisted
    SavedClaimIsOurs
