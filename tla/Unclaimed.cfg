SPECIFICATION LiveSpec
CONSTANTS
    BeaconCap = 2
    MdnsWorks = TRUE
    MaxMints = 2
INVARIANTS
    PinsAirInOrder
    OnePinValid
PROPERTIES
    GoroutinesEnd
    CancelEndsRun
    ClaimStopsPlainBeacon
    BeaconsGoOn
