SPECIFICATION LiveSpec
CONSTANTS
    lamp = lamp
    pump = pump
    on = on
    off = off
    dim = dim
    p17 = p17
    p99 = p99
    Handlers = {h1, h2, h3}
    Devices = {lamp, pump}
    Actions = {on, off, dim}
    OnActions = {on}
    OffActions = {off}
    Pins = {p17, p99}
    Wired = {p17}
    Messages <- MCMessages
    QueueCap = 2
    Malformed = Malformed
    NoMessage = NoMessage
    NoJob = NoJob
INVARIANTS
    QueuedDeviceKnown
    EveryCommandAccounted
    ExecutedInOrder
    BurstFits
    StateTopicTrue
PROPERTIES
    ImplementsService
    HandlersFinish
    CommandsSettle
