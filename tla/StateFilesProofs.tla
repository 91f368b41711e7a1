-------------------------- MODULE StateFilesProofs --------------------------
(***************************************************************************)
(* For every set of claims and any number of boots: the saves, resets and  *)
(* crashes of StateFiles implement the file of AtomicFile, active mode     *)
(* runs with claims of the present pairing, and one serial is shown.       *)
(***************************************************************************)
EXTENDS StateFiles, FiniteSetTheorems, TLAPS

-----------------------------------------------------------------------------
(* Type correctness.  LoadState and Reload read state.json into loaded, which
   is never torn there by their guard. *)
LEMMA TypeInit == Init => TypeOK
<1> SUFFICES ASSUME Init PROVE TypeOK
  OBVIOUS
<1>1. 0 \in 0..MaxMints /\ 0 \in 0..MaxBoots /\ NotRead \in Configs
  BY BoundsAssumption DEF NotRead, Configs
<1> QED BY <1>1 DEF Init, TypeOK

(* Every step of the boot, the claim handler and the crash keeps the types. *)
LEMMA TypeStep == TypeOK /\ [Next]_vars => TypeOK'
<1> SUFFICES ASSUME TypeOK, [Next]_vars PROVE TypeOK'
  OBVIOUS
<1> USE FilesAssumption, BoundsAssumption, SensorsAssumption DEF TypeOK, Serials
<1>0. 0 \in 0..MaxMints /\ NotRead \in Configs
  BY DEF NotRead, Configs
<1>1. ASSUME NEW f \in SUBSET {"unclaimed", "reset"}, Boot(f) PROVE TypeOK'
  BY <1>1 DEF Boot, confVars, serialVars, saveVars
<1>2. CASE ResetClaim
  BY <1>2 DEF ResetClaim, confVars, serialVars
<1>3. CASE LoadState
  BY <1>3 DEF LoadState, ReadFiles, serialVars, saveVars
<1>4. CASE ChooseMode
  <2>1. HasHardware \in BOOLEAN
    BY Zenon DEF HasHardware
  <2> QED BY <1>4, <2>1 DEF ChooseMode, serialVars, saveVars
<1>5. CASE LoadSerial
  BY <1>5 DEF LoadSerial, confVars, saveVars
<1>18. CASE Announce
  BY <1>18 DEF Announce, confVars, saveVars
<1>6. CASE MintSerial
  BY <1>6 DEF MintSerial, confVars, saveVars
<1>7. CASE OpenSerial
  BY <1>7 DEF OpenSerial, confVars, saveVars
<1>8. CASE WriteSerial
  BY <1>8 DEF WriteSerial, confVars, saveVars
<1>9. CASE ClaimReturned
  BY <1>9 DEF ClaimReturned, confVars, serialVars, saveVars
<1>10. CASE Reload
  BY <1>10 DEF Reload, ReadFiles, serialVars, saveVars
<1>11. ASSUME NEW c \in Claims, BeginSave(c) PROVE TypeOK'
  BY <1>11 DEF BeginSave, bootVars, confVars, serialVars
<1>12. CASE OpenTmp \/ WriteTmp
  BY <1>12 DEF OpenTmp, WriteTmp, bootVars, confVars, serialVars
<1>13. CASE Rename
  BY <1>13 DEF Rename, FirstOf, bootVars, confVars, serialVars
<1>14. CASE SaveFails
  BY <1>14 DEF SaveFails, bootVars, confVars, serialVars
<1>15. CASE Crash
  BY <1>15, <1>0 DEF Crash, Down
<1>16. ASSUME NEW c \in Configs, EditConfig(c) PROVE TypeOK'
  BY <1>16 DEF EditConfig, serialVars, saveVars
<1>17. CASE UNCHANGED vars
  BY <1>17 DEF vars
<1> QED BY <1>1, <1>2, <1>3, <1>4, <1>5, <1>6, <1>7, <1>8, <1>9, <1>10, <1>11, <1>12,
       <1>13, <1>14, <1>15, <1>16, <1>17, <1>18 DEF Next, LastBootOver

(* Type correctness of the boots and of the files. *)
THEOREM TypeCorrect == Spec => []TypeOK
BY TypeInit, TypeStep, PTL DEF Spec

-----------------------------------------------------------------------------
(* A save works on a claim it was given; its temporary file is whole when it is
   renamed; so state.json is always a claim that was offered since the last
   reset, or absent, and so is what main read from it.  A process that is about
   to reset has saved and read nothing yet; one that has saved has a file. *)
SaveInv ==
    /\ save # "idle" => saving \in offered
    /\ save = "rename" => tmpFile = saving
    /\ stateFile \in offered \cup {NoFile}
    /\ offered \subseteq Claims
    /\ loaded \in offered \cup {NoFile}
    /\ result \in offered \cup {NoFile}
    /\ phase \in {"down", "reset"} => save = "idle" /\ loaded = NoFile /\ result = NoFile
    /\ result # NoFile => stateFile # NoFile
    /\ phase = "reload" => result # NoFile
    /\ phase = "active" => loaded # NoFile

(* Before the first boot there is nothing to be torn. *)
LEMMA SaveInvInit == Init => SaveInv
BY DEF Init, SaveInv

(* No boot, save, failure or crash breaks it. *)
LEMMA SaveInvStep == SaveInv /\ [Next]_vars => SaveInv'
<1> SUFFICES ASSUME SaveInv, [Next]_vars PROVE SaveInv'
  OBVIOUS
<1> USE FilesAssumption
<1>1. ASSUME NEW f \in SUBSET {"unclaimed", "reset"}, Boot(f) PROVE SaveInv'
  BY <1>1 DEF SaveInv, Boot, saveVars
<1>2. CASE ResetClaim
  BY <1>2 DEF SaveInv, ResetClaim
<1>3. CASE LoadState \/ ChooseMode
  BY <1>3 DEF SaveInv, LoadState, ReadFiles, ChooseMode, saveVars
<1>4. CASE LoadSerial \/ MintSerial \/ OpenSerial \/ WriteSerial \/ Announce
  BY <1>4 DEF SaveInv, LoadSerial, MintSerial, OpenSerial, WriteSerial, Announce, saveVars
<1>5. CASE ClaimReturned \/ Reload
  BY <1>5 DEF SaveInv, ClaimReturned, Reload, ReadFiles, saveVars
<1>6. ASSUME NEW c \in Claims, BeginSave(c) PROVE SaveInv'
  BY <1>6 DEF SaveInv, BeginSave, bootVars
<1>7. CASE OpenTmp \/ WriteTmp \/ SaveFails
  BY <1>7 DEF SaveInv, OpenTmp, WriteTmp, SaveFails, bootVars
<1>8. CASE Rename
  BY <1>8 DEF SaveInv, Rename, FirstOf, bootVars
<1>9. CASE Crash
  BY <1>9 DEF SaveInv, Crash, Down
<1>10. ASSUME NEW c \in Configs, EditConfig(c) PROVE SaveInv'
  BY <1>10 DEF SaveInv, EditConfig, saveVars
<1>11. CASE UNCHANGED vars
  BY <1>11 DEF SaveInv, vars
<1> QED BY <1>1, <1>2, <1>3, <1>4, <1>5, <1>6, <1>7, <1>8, <1>9, <1>10, <1>11
       DEF Next, LastBootOver

(* The inductive invariant of SaveActiveState under crashes and resets. *)
THEOREM SaveInvariant == Spec => []SaveInv
BY SaveInvInit, SaveInvStep, PTL DEF Spec

(* No reader finds a half-written state.json, whatever crashes when. *)
THEOREM StateFileWhole == Spec => []NeverTorn
<1>1. SaveInv => NeverTorn
  BY FilesAssumption DEF SaveInv, NeverTorn
<1> QED BY <1>1, SaveInvariant, PTL

(* Active mode never runs with a pairing older than the last reset. *)
THEOREM OwnClaim == Spec => []ActiveByOwnClaim
<1>1. SaveInv => ActiveByOwnClaim
  BY DEF SaveInv, ActiveByOwnClaim
<1> QED BY <1>1, SaveInvariant, PTL

(* Every step of the program is a step of the atomic file, or none of its. *)
LEMMA AtomicStep == SaveInv /\ [Next]_vars => [Atomic!Next]_<<stateFile, offered>>
<1> SUFFICES ASSUME SaveInv, [Next]_vars
             PROVE  Atomic!Next \/ UNCHANGED <<stateFile, offered>>
  OBVIOUS
<1>1. CASE ResetClaim
  BY <1>1 DEF ResetClaim, Atomic!Next, Atomic!Reset
<1>2. ASSUME NEW c \in Claims, BeginSave(c)
      PROVE  Atomic!Next \/ UNCHANGED <<stateFile, offered>>
  BY <1>2 DEF BeginSave, Atomic!Next, Atomic!Offer
<1>3. CASE OpenTmp \/ WriteTmp \/ SaveFails \/ Crash
  BY <1>3 DEF OpenTmp, WriteTmp, SaveFails, Crash
<1>4. CASE Rename
  BY <1>4 DEF SaveInv, Rename, Atomic!Next, Atomic!Replace
<1>5. CASE UNCHANGED saveVars
  BY <1>5 DEF saveVars
<1>6. CASE UNCHANGED vars
  BY <1>6 DEF vars
<1> QED BY <1>1, <1>2, <1>3, <1>4, <1>5, <1>6 DEF Next, LastBootOver, Boot, LoadState,
       ChooseMode, LoadSerial, MintSerial, OpenSerial, WriteSerial, Announce, ClaimReturned,
       Reload, EditConfig

(* SaveActiveState and the reset keep what AtomicFile promises. *)
THEOREM SaveIsAtomic == Spec => ImplementsAtomicFile
<1>1. Init => Atomic!Init
  BY DEF Init, Atomic!Init
<1> QED BY <1>1, AtomicStep, SaveInvariant, PTL DEF Spec, ImplementsAtomicFile, Atomic!Spec

(* A pairing disappears only through a reset. *)
THEOREM PairingStays == Spec => PairingKept
<1>1. SaveInv /\ [Next]_vars => [stateFile # NoFile /\ stateFile' = NoFile => phase = "reset"]_vars
  <2> SUFFICES ASSUME SaveInv, [Next]_vars, stateFile # NoFile, stateFile' = NoFile
               PROVE  phase = "reset"
    OBVIOUS
  <2>1. CASE Rename
    BY <2>1, FilesAssumption DEF SaveInv, Rename
  <2>2. CASE ResetClaim
    BY <2>2 DEF ResetClaim
  <2>3. CASE UNCHANGED saveVars
    BY <2>3 DEF saveVars
  <2> QED BY <2>1, <2>2, <2>3 DEF Next, LastBootOver, Boot, LoadState, ChooseMode, LoadSerial,
        MintSerial, OpenSerial, WriteSerial, Announce, ClaimReturned, Reload, EditConfig,
        BeginSave, OpenTmp, WriteTmp, SaveFails, Crash, vars
<1> QED BY <1>1, SaveInvariant, PTL DEF Spec, PairingKept

-----------------------------------------------------------------------------
(* A serial that was shown is the one in serial.txt, which is complete and is
   not touched any more; while a file is being written none has been shown. *)
SerialInv ==
    /\ announced \subseteq {serialFile} \cap Serials
    /\ phase \in {"mint", "writeSerial"} => serialFile \notin Serials
    /\ phase = "announce" => serialFile = serial

(* A serial that was shown stays the one of a complete serial.txt. *)
LEMMA SerialStep == TypeOK /\ SerialInv /\ [Next]_vars => SerialInv'
<1> SUFFICES ASSUME TypeOK, SerialInv, [Next]_vars PROVE SerialInv'
  OBVIOUS
<1> USE DEF SerialInv
<1>1. CASE MintSerial
  BY <1>1, BoundsAssumption DEF MintSerial, TypeOK, Serials
<1>2. CASE LoadSerial
  BY <1>2 DEF LoadSerial
<1>3. CASE OpenSerial
  BY <1>3, NumbersAssumption, BoundsAssumption DEF OpenSerial, Serials
<1>4. CASE WriteSerial \/ Announce
  BY <1>4 DEF WriteSerial, Announce, TypeOK
<1>5. CASE \/ \E f \in SUBSET {"unclaimed", "reset"} : Boot(f)
           \/ ResetClaim \/ LoadState \/ ChooseMode
  BY <1>5 DEF Boot, ResetClaim, LoadState, ChooseMode, serialVars
<1>6. CASE ClaimReturned \/ Reload \/ \E c \in Configs : EditConfig(c)
  BY <1>6 DEF ClaimReturned, Reload, EditConfig, serialVars
<1>7. CASE (\E c \in Claims : BeginSave(c)) \/ OpenTmp \/ WriteTmp \/ Rename \/ SaveFails
  BY <1>7 DEF BeginSave, OpenTmp, WriteTmp, Rename, SaveFails, bootVars, serialVars
<1>8. CASE Crash
  BY <1>8 DEF Crash, Down
<1>9. CASE UNCHANGED vars
  BY <1>9 DEF vars
<1> QED BY <1>1, <1>2, <1>3, <1>4, <1>5, <1>6, <1>7, <1>8, <1>9 DEF Next, LastBootOver

(* The Pi shows one serial for ever, although its file is written in place. *)
THEOREM SerialUnique == Spec => []OneSerial
<1>1. Init => SerialInv
  BY DEF Init, SerialInv
<1>2. SerialInv => OneSerial
  <2> SUFFICES ASSUME SerialInv PROVE Cardinality(announced) <= 1
    BY DEF OneSerial
  <2>1. announced = {} \/ announced = {serialFile}
    BY DEF SerialInv
  <2>2. Cardinality({}) = 0 /\ Cardinality({serialFile}) = 1
    BY FS_EmptySet, FS_Singleton
  <2> QED BY <2>1, <2>2
<1> QED BY <1>1, <1>2, SerialStep, TypeCorrect, PTL DEF Spec
-----------------------------------------------------------------------------
(* What main knew of the configuration when it chose the drivers stays true of
   the mode it reaches: only a process that was claimed itself reads again. *)
LEMMA DriversStep == SaveInv /\ DriversReady /\ [Next]_vars => DriversReady'
<1> SUFFICES ASSUME SaveInv, DriversReady, [Next]_vars PROVE DriversReady'
  OBVIOUS
<1> USE DEF DriversReady, HasHardware
<1>1. CASE ChooseMode
  BY <1>1 DEF ChooseMode
<1>2. CASE Reload
  BY <1>2 DEF Reload, SaveInv, saveVars
<1>3. CASE Rename
  BY <1>3, FilesAssumption DEF Rename, FirstOf, SaveInv, bootVars, confVars
<1>4. CASE (\E c \in Claims : BeginSave(c)) \/ OpenTmp \/ WriteTmp \/ SaveFails
  BY <1>4 DEF BeginSave, OpenTmp, WriteTmp, SaveFails, bootVars, confVars
<1>5. CASE \E c \in Configs : EditConfig(c)
  BY <1>5 DEF EditConfig, saveVars
<1>6. CASE Crash \/ \E f \in SUBSET {"unclaimed", "reset"} : Boot(f)
  BY <1>6 DEF Crash, Down, Boot
<1>7. CASE ResetClaim \/ LoadState \/ LoadSerial \/ MintSerial \/ OpenSerial \/ WriteSerial
           \/ Announce \/ ClaimReturned
  BY <1>7 DEF ResetClaim, LoadState, LoadSerial, MintSerial, OpenSerial, WriteSerial, Announce,
     ClaimReturned
<1>8. CASE UNCHANGED vars
  BY <1>8 DEF vars
<1> QED BY <1>1, <1>2, <1>3, <1>4, <1>5, <1>6, <1>7, <1>8 DEF Next, LastBootOver

(* A process that boots into active mode with a hardware sensor has the drivers. *)
THEOREM DriversInitialised == Spec => []DriversReady
<1>1. Init => DriversReady
  BY DEF Init, DriversReady
<1> QED BY <1>1, DriversStep, SaveInvariant, PTL DEF Spec
=============================================================================
