----------------------------- MODULE StateFiles -----------------------------
(***************************************************************************)
(* The files that survive a run of the program, state.json, serial.txt and *)
(* config.yaml, through boots, saves, failures and crashes at every step:  *)
(* the boot sequence of main with its choice of the mode, the drivers and  *)
(* the configuration, SaveActiveState, LoadActiveState and                 *)
(* loadOrMintSerial.  Of config.yaml only two facts matter here, of the    *)
(* overlay of a claim only that it never takes sensors away (see Overlay). *)
(*                                                                         *)
(* A crash is the end of the process (or its kill by systemd), after which *)
(* the operating system still has every completed write.  A loss of power  *)
(* is not modelled: nothing here calls fsync, so the order in which writes *)
(* reach the disk is up to the file system.                                *)
(***************************************************************************)
EXTENDS Integers, FiniteSets

CONSTANTS
    Claims,     \* contents a state.json can have
    WithSensors, \* the claims that bring a hardware sensor
    NoFile,     \* the file does not exist
    Torn,       \* the file exists with part of its contents
    MaxMints,   \* bound: serials minted
    MaxBoots    \* bound: starts of the program

ASSUME FilesAssumption == NoFile \notin Claims /\ Torn \notin Claims /\ NoFile # Torn
ASSUME SensorsAssumption == WithSensors \subseteq Claims
ASSUME BoundsAssumption == MaxMints \in Nat /\ MaxBoots \in Nat
ASSUME NumbersAssumption == {NoFile, Torn} \cap Nat = {}

VARIABLES
    phase,       \* where main is
    flags,       \* --unclaimed and --reset-claim, as booted with
    config,      \* config.yaml: has it a hardware sensor, a controller_id
    cfg,         \* what main read of config.yaml last
    drivers,     \* InitHost has run in this process
    stateFile,   \* state.json
    tmpFile,     \* state.json.tmp
    serialFile,  \* serial.txt
    serial,      \* the serial of the running program
    save,        \* where the claim handler is inside SaveActiveState
    saving,      \* the claim it saves
    result,      \* the first claim saved in this run, which Wait returns
    loaded,      \* the state main read last
    offered,     \* history: claims handed to SaveActiveState since the last reset
    announced,   \* history: serials NewPin returned
    minted,      \* number of serials minted
    boots        \* number of starts

confVars   == <<config, cfg, drivers>>
bootVars   == <<phase, flags, loaded, boots, confVars>>
serialVars == <<serialFile, serial, announced, minted>>
saveVars   == <<stateFile, tmpFile, save, saving, offered, result>>
vars == <<phase, flags, config, cfg, drivers, stateFile, tmpFile, serialFile, serial, save, saving, result,
          loaded, offered, announced, minted, boots>>

Serials == 1..MaxMints
Configs == [sensors : BOOLEAN, controller : BOOLEAN]
NotRead == [sensors |-> FALSE, controller |-> FALSE]

TypeOK ==
    /\ phase \in {"down", "reset", "load", "init", "serial", "writeSerial", "mint", "announce",
                  "unclaimed", "reload", "active"}
    /\ flags \subseteq {"unclaimed", "reset"}
    /\ config \in Configs
    /\ cfg \in Configs
    /\ drivers \in BOOLEAN
    /\ stateFile \in Claims \cup {NoFile, Torn}
    /\ tmpFile \in Claims \cup {NoFile, Torn}
    /\ serialFile \in Serials \cup {NoFile, Torn}
    /\ serial \in 0..MaxMints
    /\ save \in {"idle", "open", "write", "rename"}
    /\ saving \in Claims \cup {NoFile}
    /\ result \in Claims \cup {NoFile}
    /\ loaded \in Claims \cup {NoFile}
    /\ offered \in SUBSET Claims
    /\ announced \in SUBSET Serials
    /\ minted \in 0..MaxMints
    /\ boots \in 0..MaxBoots
    /\ phase \in {"mint", "writeSerial", "announce"} => serial \in Serials

Init ==
    /\ phase = "down"
    /\ flags = {}
    /\ config \in Configs
    /\ cfg = NotRead
    /\ drivers = FALSE
    /\ stateFile = NoFile
    /\ tmpFile = NoFile
    /\ serialFile = NoFile
    /\ serial = 0
    /\ save = "idle"
    /\ saving = NoFile
    /\ result = NoFile
    /\ loaded = NoFile
    /\ offered = {}
    /\ announced = {}
    /\ minted = 0
    /\ boots = 0

(* The process ends, by os.Exit(1), a signal or a crash: memory is gone. *)
Down ==
    /\ phase' = "down"
    /\ flags' = {}
    /\ cfg' = NotRead
    /\ drivers' = FALSE
    /\ serial' = 0
    /\ save' = "idle"
    /\ saving' = NoFile
    /\ result' = NoFile
    /\ loaded' = NoFile

-----------------------------------------------------------------------------
(* main: flags, reset, load, and the choice of the mode. *)

Boot(f) ==
    /\ phase = "down"
    /\ boots < MaxBoots
    /\ boots' = boots + 1
    /\ flags' = f
    /\ phase' = IF "reset" \in f THEN "reset" ELSE "load"
    /\ UNCHANGED <<loaded, confVars, serialVars, saveVars>>

(* Mutant of ResetClaim: a file that cannot be removed is passed over. *)
ResetIgnored ==
    /\ phase = "reset"
    /\ offered' = {}
    /\ phase' = "load"
    /\ UNCHANGED <<flags, loaded, boots, confVars, serialVars, stateFile, tmpFile,
                   save, saving, result>>

(* Only state.json goes; the temporary file of an interrupted save stays. *)
ResetClaim ==
    /\ phase = "reset"
    /\ stateFile' = NoFile
    /\ offered' = {}
    /\ phase' = "load"
    /\ UNCHANGED <<flags, loaded, boots, confVars, serialVars, tmpFile, save, saving, result>>

(* config.Load, then LoadActiveState. *)
ReadFiles ==
    /\ stateFile # Torn
    /\ cfg' = config
    /\ loaded' = stateFile

LoadState ==
    /\ phase = "load"
    /\ ReadFiles
    /\ phase' = "init"
    /\ UNCHANGED <<flags, config, drivers, boots, serialVars, saveVars>>

(* hasHardwareSensors of what ResolveActiveConfig returns: the overlay of a
   claim keeps the sensors of config.yaml and adds its own. *)
HasHardware == cfg.sensors \/ loaded \in WithSensors

(* Mutant of ChooseMode: the drivers are chosen from config.yaml alone. *)
ChooseBeforeOverlay ==
    /\ phase = "init"
    /\ drivers' = cfg.sensors
    /\ phase' = IF "unclaimed" \in flags \/ loaded = NoFile THEN "serial" ELSE "active"
    /\ UNCHANGED <<flags, loaded, boots, config, cfg, serialVars, saveVars>>

(* InitHost if there is something to drive, and the choice of the mode.  A
   state.json that parses is a claimed one: every save is of a verified claim. *)
ChooseMode ==
    /\ phase = "init"
    /\ drivers' = HasHardware
    /\ phase' = IF "unclaimed" \in flags \/ loaded = NoFile THEN "serial" ELSE "active"
    /\ UNCHANGED <<flags, loaded, boots, config, cfg, serialVars, saveVars>>

(* loadOrMintSerial: a file that is missing or has not the form of a serial
   is replaced by a fresh serial, with a plain write. *)
LoadSerial ==
    /\ phase = "serial"
    /\ serialFile \in Serials
    /\ serial' = serialFile
    /\ phase' = "announce"
    /\ UNCHANGED <<flags, loaded, boots, confVars, serialFile, announced, minted, saveVars>>

MintSerial ==
    /\ phase = "serial"
    /\ serialFile \notin Serials
    /\ minted < MaxMints
    /\ minted' = minted + 1
    /\ serial' = minted + 1
    /\ phase' = "mint"
    /\ UNCHANGED <<flags, loaded, boots, confVars, serialFile, announced, saveVars>>

(* Mutant of OpenSerial: NewPin returns without the file being written. *)
SerialNotWritten ==
    /\ phase = "mint"
    /\ phase' = "announce"
    /\ UNCHANGED <<flags, loaded, boots, confVars, serialVars, saveVars>>

OpenSerial ==
    /\ phase = "mint"
    /\ serialFile' = Torn
    /\ phase' = "writeSerial"
    /\ UNCHANGED <<flags, loaded, boots, confVars, serial, announced, minted, saveVars>>

WriteSerial ==
    /\ phase = "writeSerial"
    /\ serialFile' = serial
    /\ phase' = "announce"
    /\ UNCHANGED <<flags, loaded, boots, confVars, serial, announced, minted, saveVars>>

(* NewPin returns; from here on the serial is in every beacon. *)
Announce ==
    /\ phase = "announce"
    /\ announced' = announced \cup {serial}
    /\ phase' = "unclaimed"
    /\ UNCHANGED <<flags, loaded, boots, confVars, serialFile, serial, minted, saveVars>>

(* Wait has returned a claim that was saved in this run; main reads both files
   again while the claim handler may still be called, and takes the broker and
   the credentials from the claim returned.  InitHost is not called again. *)
ClaimReturned ==
    /\ phase = "unclaimed"
    /\ result # NoFile
    /\ phase' = "reload"
    /\ UNCHANGED <<flags, loaded, boots, confVars, serialVars, saveVars>>

Reload ==
    /\ phase = "reload"
    /\ ReadFiles
    /\ phase' = "active"
    /\ UNCHANGED <<flags, config, drivers, boots, serialVars, saveVars>>

-----------------------------------------------------------------------------
(* SaveActiveState, in the claim handler, one call at a time. *)

BeginSave(c) ==
    /\ phase \in {"unclaimed", "reload", "active"}
    /\ serial # 0
    /\ save = "idle"
    /\ saving' = c
    /\ offered' = offered \cup {c}
    /\ save' = "open"
    /\ UNCHANGED <<bootVars, serialVars, stateFile, tmpFile, result>>

(* Mutant of OpenTmp: the old file is removed first. *)
OpenAfterRemove ==
    /\ save = "open"
    /\ tmpFile' = Torn
    /\ stateFile' = NoFile
    /\ save' = "write"
    /\ UNCHANGED <<bootVars, serialVars, saving, offered, result>>

OpenTmp ==
    /\ save = "open"
    /\ tmpFile' = Torn
    /\ save' = "write"
    /\ UNCHANGED <<bootVars, serialVars, stateFile, saving, offered, result>>

WriteTmp ==
    /\ save = "write"
    /\ tmpFile' = saving
    /\ save' = "rename"
    /\ UNCHANGED <<bootVars, serialVars, stateFile, saving, offered, result>>

(* The channel that carries the result holds one claim; later ones are
   dropped. *)
FirstOf(old, new) == IF old = NoFile THEN new ELSE old

(* Mutant of Rename: it does not wait for the temporary file to be written. *)
RenameEarly ==
    /\ save \in {"write", "rename"}
    /\ stateFile' = tmpFile
    /\ tmpFile' = NoFile
    /\ save' = "idle"
    /\ saving' = NoFile
    /\ result' = FirstOf(result, saving)
    /\ UNCHANGED <<bootVars, serialVars, offered>>

Rename ==
    /\ save = "rename"
    /\ stateFile' = tmpFile
    /\ tmpFile' = NoFile
    /\ save' = "idle"
    /\ saving' = NoFile
    /\ result' = FirstOf(result, saving)
    /\ UNCHANGED <<bootVars, serialVars, offered>>

(* The open, the write or the rename fails; the temporary file stays. *)
SaveFails ==
    /\ save # "idle"
    /\ save' = "idle"
    /\ saving' = NoFile
    /\ UNCHANGED <<bootVars, serialVars, stateFile, tmpFile, offered, result>>

-----------------------------------------------------------------------------
(* A step of the boot fails and main exits, the claim wait fails, or the
   program is killed or crashes. *)
Crash ==
    /\ phase # "down"
    /\ Down
    /\ UNCHANGED <<config, stateFile, tmpFile, serialFile, offered, announced, minted, boots>>

(* Somebody edits config.yaml, whatever the program is doing. *)
EditConfig(c) ==
    /\ config' = c
    /\ UNCHANGED <<phase, flags, loaded, boots, cfg, drivers, serialVars, saveVars>>

(* The bound on boots is reached. *)
LastBootOver == phase = "down" /\ boots = MaxBoots /\ UNCHANGED vars

Next ==
    \/ \E f \in SUBSET {"unclaimed", "reset"} : Boot(f)
    \/ ResetClaim
    \/ LoadState
    \/ ChooseMode
    \/ LoadSerial
    \/ MintSerial
    \/ OpenSerial
    \/ WriteSerial
    \/ Announce
    \/ ClaimReturned
    \/ Reload
    \/ \E c \in Claims : BeginSave(c)
    \/ OpenTmp
    \/ WriteTmp
    \/ Rename
    \/ SaveFails
    \/ Crash
    \/ \E c \in Configs : EditConfig(c)
    \/ LastBootOver

Spec == Init /\ [][Next]_vars

-----------------------------------------------------------------------------
(* Properties. *)

(* state.go:59-60: whatever crashes in the middle of a save, no reader finds
   a half-written state.json, and what active mode runs with is whole. *)
NeverTorn == stateFile # Torn

(* The program shows the server one serial over all its boots, although
   serial.txt is not written atomically: a serial is handed out only after
   its file is complete, and a torn file was never handed out. *)
OneSerial == Cardinality(announced) <= 1

(* A pairing is kept until the user resets it: a save, a failed save or a
   crash never takes state.json away. *)
PairingKept == [][stateFile # NoFile /\ stateFile' = NoFile => phase = "reset"]_vars

(* Active mode runs only with a claim accepted since the last reset, file and
   credentials alike; nothing of an older pairing survives a reset, not even
   in the temporary file. *)
ActiveByOwnClaim ==
    phase = "active" => loaded \in offered /\ result \in offered \cup {NoFile}

(* main.go:52-56: a process that boots into active mode has initialised the
   drivers if a sensor is configured, be it one that only the claim brings, and
   whatever is done to the files after main has read them. *)
DriversReady ==
    phase = "active" /\ result = NoFile /\ HasHardware => drivers

(* What main.go:122-123 says of the process that was claimed itself: the host is
   initialised already, so active mode has the drivers its sensors need. *)
HostInitialised ==
    phase = "active" /\ HasHardware => drivers

(* README.md:167-170: the client honors config.yaml exactly as before when
   state.json is absent and server.controller_id is set.  The code does not: the
   mode is chosen from state.json alone. *)
LegacyHonoured ==
    [][phase = "init" /\ flags = {} /\ loaded = NoFile /\ cfg.controller
           => phase' # "serial"]_vars

(* SaveActiveState and the reset implement a file that changes atomically. *)
Atomic == INSTANCE AtomicFile WITH file <- stateFile
ImplementsAtomicFile == Atomic!Spec
=============================================================================
