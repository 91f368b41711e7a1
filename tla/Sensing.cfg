SPECIFICATION Spec
CONSTANTS
    Nil = Nil
    NoId = NoId
    Nothing = Nothing
    LongestInterval = 100
    Hardware = "SHT"
    Buses = {1}
    Inputs <- MCInputs
    Samples <- MCSamples
    Noise <- MCNoise
CHECK_DEADLOCK FALSE
INVARIANTS
    WiringKept
    ServerSensorsDriven
    DevicesMerged
    OneLoopPerChip
    TelemetryAssigned
    ReadingFaithful
    PanicExplained
