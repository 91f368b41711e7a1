SPECIFICATION Spec
CONSTANTS
    Claims = {bare, probed}
    WithSensors = {probed}
    NoFile = NoFile
    Torn = Torn
    MaxMints = 3
    MaxBoots = 3
PROPERTY
    LegacyHonoured
