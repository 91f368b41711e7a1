# A TLA+ model of PiGrow-Client

PiGrow-Client is a Go program on a Raspberry Pi. Without a `state.json` it runs
*unclaimed*: it broadcasts a beacon with a six-digit PIN and waits for a claim
over MQTT. With a `state.json` it runs *active*: it publishes sensor readings,
executes device commands, and sends heartbeats. These modules model its
concurrency, its queues, its persistence and its shutdown. TLC checks them on
small instances; TLAPS proves the most important results for every instance.

    tlc -config CommandPath.cfg MCCommandPath
    tlapm CommandPathProofs.tla

## The system

| Component | State | Operations | Interacts with | Hard parts |
| --- | --- | --- | --- | --- |
| Command path (`internal/controller`, `internal/device`) | `deviceMap` under a mutex, `cmdCh` (64 jobs), pin levels | `deviceCommandHandler`, `commandWorker`, `executeCommand`, `setPin`, `publishState` | called by the MQTT client, publishes through it | concurrent handlers, full queue, unbounded wait for acks, failure between pin and report |
| Active mode (`cmd/pigrow-client`, `Controller.Start`) | WaitGroup, context, goroutines | start and stop of sensor loops, worker and heartbeat, signal, disconnect | all of active mode | counting goroutines that are started late, shutdown while offline |
| Claim wait (`provision/claim.go`, `transport.go`) | two channels of one, the subscription | `Wait`, the claim handler, `Verify` | called by `RunUnclaimed`, writes `state.json` | second claims, invalid claims, notations of a MAC, save before ack, lost subscriptions |
| Unclaimed mode (`provision.go`, `beacon.go`, `pin.go`, `mdns.go`) | PIN and expiry under a mutex, `beaconCh` (8), socket, child context | `RunUnclaimed`, ticker, sender, advertiser, deferred calls | claim wait, network | order of deferred calls, goroutine lifetimes, rotation order |
| Persistent files (`state.go`, `pin.go`) | `state.json`, its temporary file, `serial.txt` | save, load, reset, mint | boot, claim handler | crashes at every step |
| Boot (`main.go`) | flags, mode, configuration, drivers | reset, load, `InitHost`, choice of the mode, reload after a claim | everything | stale configuration, drivers chosen before the claim |
| MQTT session (`internal/mqtt`) | `subs` under a mutex, connection, retained status; the broker's session and will | `New`, `OnConnect`, `Subscribe`, replay, `Disconnect` | broker, controller | overlapping callbacks, timeouts, late wills, broker restarts |
| Overlay (`resolve.go`) | none | `ResolveActiveConfig` | boot | matching keys, duplicates, truncation |
| Configuration (`config.go`) | none | `Load`, `validate`, `ParseInterval` | boot | intervals, ranges |
| SHT40 sensor (`internal/sensor`) | one chip per bus and address, no lock | `Read`: trigger, wait, fetch, checksum, conversion | sensor loops | interleaved reads, damaged frames, rounding |
| Interfaces (`interfaces.go`) | none | `PickPrimaryInterface`, `FormatMAC` | beacon, claim | the MAC that identifies the Pi |
| Manifest (`manifest.go`) | none | read once | beacon | none |

What makes each of them correct: commands are neither lost inside the process
nor doubled, they are served in order, and what a state topic says is true of
the pins (command path); the WaitGroup counts what runs and a signal ends the
program (active mode); a claim is for this Pi, and persisted before anybody is
told (claim wait); beacons carry PINs in order and only one PIN on air is valid, a claim stops
the beacon, nothing outlives the run (unclaimed mode); a crash never tears or loses `state.json`
and never changes the serial (files); active mode runs with its own claim and
with initialised drivers (boot); an acked replay brings the subscription back,
and the retained status follows the connection (session); every sensor of the
server is driven once, under its id, from its chip, with what was measured
(overlay, configuration, sensor).

## Modules

| Module | Models | State and actions |
| --- | --- | --- |
| `CommandPath` | command path | one process per handler invocation (`Receive`, `Register`, `Enqueue` or `Drop`), the worker (`TakeJob` to `Finish`), the connection, the cancelled context; `accepted` and `fate` are histories |
| `CommandService` | what the controller promises | a command is refused, or accepted and served in order; no channel, goroutine, lookup or token; `CommandPath` implements it (`accepted`, `level` and `stateTopic` map to themselves, `msg` to `asked`, `fate` to `outcome`) |
| `ClaimWait` | claim wait | the waiting goroutine (`SubscribeOk`, `Take...`, `UnsubscribeAndReturn`), the handler (`Dispatch` to `Return`), broker and server; `Interfaces` gives the MAC (`OwnMAC`) that `Verified` compares claims with |
| `ClaimMessage` | `Verify`, `ToActiveState`, MACs, the primary interface | operators only, used by `ClaimWait`; a MAC text is its bytes, separator and case |
| `MCClaimWait` | – | the claims the server may write and the interfaces of the Pi |
| `Unclaimed` | unclaimed mode | `run` is the program counter of `RunUnclaimed`, deferred calls included; ticker, sender and advertiser are processes of their own; `txt` is the TXT record, built once (`BuildTXT`) |
| `ActiveMode` | active mode | one process per goroutine; `wg` is the counter of the WaitGroup; `wg.Wait` is `Wait` and, if something is counted, the release by the last `Done` and then `WaitReturns`, or `WaitPanics` if a loop was added in between |
| `StateFiles` | persistent files and boot | `phase` is the place in `main`, `save` the place in `SaveActiveState`; `cfg` and `loaded` are what `main` read last (`ReadFiles`), at boot and after a claim; `EditConfig` changes `config.yaml` at any moment; `Crash` is enabled everywhere |
| `AtomicFile` | what `SaveActiveState` promises | a file that changes in one step; `StateFiles` implements it |
| `MqttSession` | MQTT session | the process (`Connect` to `Boot`), `Subscribe` and one `OnConnect` callback per connection (`stage`), their packets, and the broker (`will`, `retained`, `live`) |
| `Overlay` | `config.validate` for sensors and devices, `ResolveActiveConfig` | operators only, used by `Sensing`; one `Merge` on the keys of two lists serves sensors and devices |
| `Sht40` | checksum, decoding, conversion | operators only; a byte is the set of its one bits |
| `Sensing` | from the two files to telemetry | composes the two: `Load` or `LoadFails`, `Resolve`, `Build`, and one process per sensor loop (`StartLoop`, `Trigger`, `Fetch` or `ReadFails`, `Tick`) |
| `MCCommandPath`, `MCSensing` | – | the messages of the run; the files, measurements and bit errors of the run |
| `...Proofs` | – | the theorems, one module per component |

Each lock section is one action, because nothing inside it can be seen from
outside; everything between two lock sections, channel operations, file
operations, bus transfers or network calls is separate. `PROJECT.json` gives
the source lines of each definition. A definition called *mutant of X* is a
plausible bug in X and is used by no specification: with it in the place of X,
the property it is listed with fails.

Abstractions to keep in mind:

- A command is an action and a pin; a job is the handler invocation that made
  it, which stands for its timestamp. A message the broker delivers twice is
  two invocations with equal messages. The constant `Messages` holds the
  messages the broker may deliver: the run has six, the theorems any set.
- A publish that reports an error does not arrive later. The MQTT client keeps
  unacked QoS 1 messages and can send them again after a reconnect; the model
  has this as a publish that arrives late, before its token completes.
- A beacon is the PIN it carries, and PINs are numbered as they are minted. In
  the code two random PINs can be equal by chance, which only makes two numbers
  look alike. A PIN expires at most once and PINs expire in their order, so
  `lapsed` is a number: the PINs up to it have expired.
- Time is abstract: timers and timeouts can fire whenever they are running.
- A select with several ready cases picks any of them, as Go's does.
- A crash ends the process; what the operating system was given stays. Loss of
  power is left out, because nothing calls `fsync` and the outcome depends on
  the file system.
- In `MqttSession` the program has the one subscription it makes,
  `devices/+/commands`. The broker keeps sessions until it restarts.
- `StateFiles` knows of a configuration whether it has a hardware sensor and a
  controller id; `Overlay` has the contents. Ids in `config.yaml` are different
  from those the server issues, which are UUIDs.
- Readings are integers in tenths. No 16-bit raw value lies half-way between
  two tenths, so the floating-point rounding of the code cannot differ.

## Runs

| Run | Question | Instance | Distinct states | Result |
| --- | --- | --- | --- | --- |
| `command_path` | Are commands kept, ordered and truthfully reported? Is the path a `CommandService`? Does a handler always return, and a queued command always end? | 3 handlers, 6 messages for 2 devices (3 actions, a wired and an unwired pin, a malformed payload), room for 2 | 743,526 | holds |
| `claim_wait` | Is only a claim for this Pi persisted, and before anyone is told? Is none of them refused for its notation? Does the handler return, and a good claim end the wait? | 6 claims, 4 interfaces, 3 messages | 86,658 | holds |
| `claim_wait_second` | Is a second claim ignored? | 2 good claims, 1 foreign, 1 garbled, 3 messages | – | **violated** |
| `unclaimed` | Do beacons carry PINs in order, is only one PIN on air valid, do beacons go on and carry the newest PIN, does a claim stop them, do all goroutines end? | room for 2, one expiry, mDNS may start or fail | 47,622 | holds |
| `unclaimed_mdns` | Does a claim stop the beacon with mDNS up? | room for 1 | – | **violated** |
| `active_mode` | Does the WaitGroup count what runs, and does a signal end the program? | 2 sensors, heartbeat | 2,264 | holds |
| `active_mode_late` | Does nothing run after `wg.Wait`? | 2 sensors, no heartbeat | – | **violated** |
| `state_files` | Is `state.json` atomic, kept, and of this pairing, the serial constant? Has a process that boots into active mode its drivers? | 2 claims, one with a sensor; 3 boots, 3 serials | 215,180 | holds |
| `claim_drivers` | Has a process that was claimed while it ran its drivers? | same | – | **violated** |
| `boot_legacy` | Is a `config.yaml` with a controller id honoured without `state.json`? | same | – | **violated** |
| `mqtt_session` | Is an acked replay effective, does a replay restore, does `Subscribe` return, does the status settle and show a death? | 3 connections | 15,738 | holds |
| `sensing` | Is each sensor of the server driven once, named and read correctly? What can stop the program? | all pairs of lists of up to two entries out of 7 YAML and 8 server sensors, and out of 4 devices and 4 relays; 2 chips, 13 bit errors | 168,070 | holds |

Why the bounds are enough. The command path needs two jobs that compete for a
pin or a device and a third that meets a channel with no room left while the worker
holds none: three handlers and room for two. The theorems below make the size of this instance irrelevant
for its safety. Three claim messages are a first, a second and one that is
invalid, with one channel slot as in the code; the six claims fail `Verify` in
each of its ways or pass it in two notations. A beacon channel of one or two is
full as soon as the sender is one beacon behind; two or three PINs give
rotations before and after a claim. Two sensors can be in different states
while the worker is a third loop. Three boots are a crashed one, one that
repairs, and one that observes; three serials allow two wrong ones. Three
connections are a first, one whose callback is still busy when the third is
made, which is also enough for a restart of the process in between. Matching
compares entries in pairs, so lists of two have every match, every duplicate
and every order; the entries are chosen so that each branch of the code is
taken. The bit errors are one bit and a burst in each byte; the CRC has no
state beyond its word. The bounds `MaxPublished`, `MaxMints`, `MaxBoots` and
`MaxConnects` stand in guards of environment actions and of `Connect` only.
`LastBootOver`, `Ended` and `Gone` are steps of a program that is over, so that
TLC's deadlock check stays on: the runs also show that nothing else stops.
`Sensing.cfg` switches it off, because a program that has exited or panicked
really stops there.

The type invariants of `CommandPath`, `ClaimWait`, `Unclaimed`, `ActiveMode`,
`StateFiles`, `MqttSession` and `Sensing`, and `NeverTorn`, are theorems for all
values of the constants, so no run repeats them.

The two liveness properties of `CommandPath` are written `[]<>(...)`. A handler
invocation and its job happen once and never start over, so "always eventually
in none of these states" says the same as "whenever in one of them, eventually
out of it", and needs one temporal formula instead of one for each handler.

### Fairness

Weak fairness of a goroutine's steps is the Go scheduler. Strong fairness of
"take the context's branch of the select" is the uniform choice Go makes among
ready cases. Fairness of `Reconnect` is `SetAutoReconnect(true)` and a broker
that comes back; strong fairness of `PublishArrives`, `PublishAcked` and
`PublishReturns` says that a connection that is up again and again carries one
publish in the end. `ClaimWait` and `Unclaimed` assume nothing of the broker,
the server or the caller: the properties there start from a message that
arrived, or from a context that was cancelled. `HandlersFinish` needs
only the fairness of the handlers in `LiveSpec`. In `MqttSession` packets on an
intact connection arrive, timeouts fire, and both ends find out in the end that
a connection is gone (keepalive); nothing forces a connection to break, a
process to end or restart, or the broker to restart.

## What the runs found

1. *A second claim is not ignored* (`claim.go:160`). The handler saves before
   it notices that the result channel is full. `main.go:129` then reads the
   second claim and `main.go:135` uses the credentials of the first.
2. *With mDNS running a claim hangs* (`provision.go:155`). `shutdown()` is
   deferred last, runs first, and waits for a context that the next deferred
   call would cancel. This shows only if the advertiser starts. The service is
   registered with port 0 (`mdns.go:79`), and `hashicorp/mdns`, which is not
   part of this repository, may well refuse that; then the start fails, the
   deferred call is not registered, and the hang stays hidden. The constant
   `MdnsWorks` has both cases.
3. *Loops can outlive `wg.Wait`* (`controller.go:70`): they are counted in a
   goroutine that is not. If one is added after the last `Done` has released
   `main` and before `Wait` returns, `Wait` panics instead.
4. *A legacy `config.yaml` is not honoured* (`main.go:75`): without
   `state.json` the program is unclaimed, whatever `server.controller_id` says.
5. *The host is not always initialised* (`main.go:124`). `InitHost` runs at boot,
   if the configuration of that moment has a hardware sensor. A Pi whose first
   sensor comes with the claim, or with an edit of `config.yaml` while it waits,
   goes on to active mode without it, although `main.go:122-123` says that the
   host was initialised at boot. A restart repairs it: `DriversReady`, which is
   about processes that boot into active mode, holds.

Smaller disagreements between comments and code, met while modelling; the
models follow the code:

- `claim.go:134-136` says that `Wait` blocks until a valid claim arrives; the
  first message that does not parse or verify ends it with an error, and main
  exits (`claim.go:185`, `main.go:114-117`).
- `provision.go:132` says that a full beacon channel drops the oldest beacon;
  it drops the one just built. `PinsAirInOrder` holds either way.
- `provision.go:164-166` says that broadcasting has stopped before the PIN is
  invalidated; the ticker and the sender are stopped later, by deferred calls.
- After a clean stop the retained status stays online: the `DISCONNECT` disarms
  the will. A subscription that is acked, but not yet appended to `subs` when
  the broker restarts and the client reconnects, is not replayed then. No
  document promises otherwise.
- `pigrow-client.service` makes `/opt/pigrow-client` read-only, where
  `serial.txt` and `state.json` are by default. That saves and boots can fail
  is in the models; that they always fail there is a matter of deployment.

## What is proved

The proofs assume only the `ASSUME`s of the modules. Most are the shapes of the
constants, such as a positive channel capacity, a finite set of sensors, or
*no job* not being a job. The others are:

- `ClaimWait`: some interface is suitable (`RunUnclaimed` gives up before `Wait`
  otherwise), and the empty string is not the text of a MAC.
- `Overlay`: an interval of 30 seconds fits into a duration, and an absent
  number is not a number.
- `Sensing`: the files have the types the YAML and JSON decoders enforce (an
  address in `config.yaml` is a `uint16`, one in `state.json` any integer or
  absent), buses are numbered, measurements are bytes, and the wire damages at
  most one byte of a frame, in any way. Two damaged bytes can cancel out in an
  eight-bit checksum.

`CommandPathProofs`, for all sets of handlers, devices, actions and pins and
every channel capacity. `InductiveInvariant` proves `IInv`: types; the worker
holds a job exactly when it is past its select (`JobHeld`); a message past
registration has its device in `deviceMap` (`MessagesKnown`); each command is
in one place (`EveryCommandAccounted`); and `AcceptedSuffix`, which says that
`cmdCh` is the end of the history `accepted`, the job in execution is the one
before it, and all before that are over. The last one is what makes the others
inductive: without it a job received from the channel could be any job.
`TypeCorrect`, `LookupsSucceed`, `CommandsAccounted`, `NoDropInBurst` and
`InOrder` follow. `ReportsTrue` needs three more facts: the pin of a report on
its way stays set (only the worker drives pins), a reported job is over or
waits for its ack, and `Grows`: nothing accepted, received or ended is taken
back. A report becomes false only when a later job drives the same pin, and
that job stays the witness for as long as the report stands.

It ends with the refinement: the path implements the service
(`PathImplementsService`). `JobServed` derives from `AcceptedSuffix` that the
worker's job is the command the service serves; `AckShown` and `IdleUnasked`
are the two facts about acks and unused invocations it needs besides.

`ClaimWaitProofs`, for all claims, all lists of interfaces and any number of
messages: `TypeCorrect`, `VerifiedOnly`, `PersistedBeforeResult`,
`PersistedBeforeAck`. The strengthening `HandlerHolds` says what the handler
carries between its steps: past `Verify` a verified claim, past
`SaveActiveState` an existing file. `SavedClaimOurs` adds what `Verify` means:
`PickPrimaryInterface` finds the first suitable interface, and a claim passes
only if its MAC, brought to one notation, is the one of that interface.
`OwnClaimTaken` is the converse for the handler's check: a complete claim with
the bytes of that MAC is never refused, whatever separator and case it uses.

`UnclaimedProofs`, for every channel capacity and number of rotations:
`PinsInOrder`, `OneValidPin` and `TypeCorrect`. The invariant compares neighbours
in the chain aired, being sent, channel, just built, minted (`Ordered`), and says
that a live PIN is the newest (`LiveNewest`), without which the next beacon could
be older than the last one. `PinsInOrder` is about the UDP beacons. The TXT
record keeps its first PIN, so a listener of both can meet an old PIN after a
new one; `OneValidPin` says what that can do: until a claim, every PIN on air
but the live one has expired (`OthersLapsed`: a PIN is minted only when all
before it have lapsed, or after the claim has invalidated it).

`ActiveModeProofs`, for every finite set of sensors: `LoopsCounted` and
`TypeCorrect`. `LaunchOrder` says that nothing is launched twice; the rest is
the cardinality of the set of running loops under adding and removing one.

`MqttSessionProofs`, for any number of connections: `AckedReplayIsLive` and
`TypeCorrect`. `ReplayInv` ties packets to connections: an ack is for the
callback's own packet, a packet that arrived over the connection that is up has
made the subscription live, and what has not been sent cannot have arrived.

`StateFilesProofs`, for all claims and any number of boots: `TypeCorrect`,
`StateFileWhole`, `OwnClaim`, `PairingStays` and the refinement
`SaveIsAtomic`, all from `SaveInv` (the temporary file is whole when it is
renamed, so the file and everything read from it was offered since the last
reset); and `SerialUnique`, from the fact that a serial that was shown is the
one in a complete `serial.txt`, which is not written again. `DriversInitialised`
uses `SaveInv` only for where a result can come from (`DriversStep`): without a
result only `ChooseMode` leads to active mode, and it decides on what `main` has
read, which is not read again.

`OverlayProofs`, for lists of any length and any keys: `MergeOf` says what
`Merge` returns, with a witness for where each entry comes from. The local
entries keep their place, and get the id of the last entry of the server with
their key if there is one; behind them is exactly one entry for each other key,
made from the last entry that has it. `EntriesDistinct` (no key twice if the
local keys are distinct) and `EntryPresent` (no key lost) follow. The facts
below it are about maxima and minima of sets of positions (`LastOfSet`,
`FirstOfSet`) and about counting them (`NthOf`, the n-th of a finite set).

`SensingProofs`, for all files, buses, measurements, bit errors and numbers of
loops. `SensingInvariant` proves `SensingInv`, which has two halves. `BootInv`
says what each phase of the boot leaves behind: valid files, the overlay of
exactly these files, and the sensors that are the hardware entries of the
overlay. `RunInv` says that what waits in a chip was measured by it, and that
the telemetry published last came from a frame with good checksums that one of
the loops fetched from its own chip (`Published`). The properties are
consequences of it together with four groups of lemmas:

- `ConvertedOf` and `KeysMatch`: the truncation to 16 bits keeps the addresses
  of chips, and equal keys mean the same type, bus and address. With
  `MergeOf` they give `WiringStays`, `ServerDrives`, `RelaysMerged` (by
  `DevicesOverlaid`: no relay is lost, doubled or made up) and, since
  `buildSensors` keeps a subset of distinct entries, `ChipsApart`.
- `SensorFrom` and `SensorAssigned` follow a sensor back to the entry of
  `config.yaml` or of the server it was made of: `TelemetryFromItsChip`.
- `ShiftInjective`, `CrcByteOf` and `DamageDetected`: one round of the checksum
  is injective on bytes and so is the whole checksum in each byte of the word,
  so damage to one byte, of the word or of the checksum itself, shows. A frame
  that passes is the frame the chip sent. `Rounded` then bounds the conversion
  by half a tenth: `ReadingsFaithful`.
- `ServerInterval` is positive unless the server's number does not fit into a
  duration: `PanicHasCause`.

Every safety property of the runs that hold, the two refinements included, is a
theorem. Model-checked only are the thirteen liveness properties (`HandlersFinish`,
`CommandsSettle`, `HandlerReturns`, `GoodClaimEndsWait`, `GoroutinesEnd`,
`CancelEndsRun`, `ClaimStopsPlainBeacon`, `BeaconsGoOn`, `ShutdownCompletes`,
`ReplayRestores`, `SubscribeReturns`, `StatusSettles`, `DeathShown`), because the
prover handles neither fairness nor `ENABLED`. What the runs that fail show is a
behaviour of a small instance, which needs no proof.

## Not modelled

The hardware manifest (one YAML file, read once and copied into the beacon);
the checks of the broker URL and the default timeouts in `config.validate`;
the choice between the broker and credentials of the claim and of
`config.yaml`, which only copies strings; the contents of heartbeats, beacons
and mDNS records beyond the PIN and its expiry; loss of power; the growth of `deviceMap` by
fresh ids; the text of payloads and log lines; `Pin.Rotate`, which nothing
calls. The resolved devices are computed by the code and used by nothing
(`DevicesMerged` checks them all the same).
