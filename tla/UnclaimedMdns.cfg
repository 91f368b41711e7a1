SPECIFICATION LiveSpec
CONSTANTS
    BeaconCap = 1
    MdnsWorks = TRUE
    MaxMints = 2
PROPERTY
    ClaimStopsBeacon
