------------------------------ MODULE Arm9Boot ------------------------------
(***************************************************************************)
(* What the console boots (arm9/source/main.c, with config.c, deliver_arg.c*)
(* pin.c and emunand.c), over many boots: from power on, on a reboot that  *)
(* a system asked for, and on a firmlaunch, when a running system replaces *)
(* its FIRM and this program is loaded once more.  Which NAND was chosen   *)
(* lives on in a register file of the MCU, the options in a file on the SD *)
(* card or in the NAND, and what a reboot is for in a register and at the  *)
(* start of the memory.                                                    *)
(*                                                                         *)
(* Buttons are read again at several places, and may be others each time.  *)
(* The SD card stays as it is while the console is on.                     *)
(***************************************************************************)
EXTENDS Integers, FiniteSets

CONSTANTS
  Pads,      \* sets of buttons that may be held
  Options,   \* [autoBootEmu, defaultEmu, autobootMode, pin], what can be configured
  DefaultOptions,
  EmuNands,  \* the indices of the EmuNANDs on the SD card
  Versions,  \* of this program, numbers
  Settled,   \* it is not replaced while a system runs
  None

\* None is neither options nor what the MCU holds.
BootAssumption ==
  /\ DefaultOptions \in Options
  /\ Options \subseteq [autoBootEmu : BOOLEAN, defaultEmu : 0..3, autobootMode : 0..2,
                        pin : 0..3]
  /\ {} \in Pads
  /\ EmuNands \subseteq 0..3
  /\ Versions \subseteq Nat
  /\ Settled \in BOOLEAN
  /\ None \notin Options
  /\ None \notin [version : Versions,
                   bootCfg : [nand : {"sys", "emu"}, index : 0..3, noForce : BOOLEAN,
                              ntrCard : BOOLEAN]]

VARIABLES
  mcu,          \* free registers of the MCU: version and bootCfg, or None
  ini,          \* lumae.ini on each medium, or None
  pinFile,      \* pin.bin on each medium: the mode it was made for, 0 for none
  sdInserted,
  bootenv,      \* CFG_BOOTENV
  deliverArg,   \* what the memory holds for the next system
  version,      \* of boot.firm
  b,            \* the variables of main() and the boot they belong to
  running,      \* the system that runs, or was left last
  origin        \* what this boot follows

persistent == <<mcu, ini, pinFile, sdInserted, bootenv, deliverArg, version>>
vars == <<persistent, b, running, origin>>

SafeMode == {"R1", "L1", "A", "UP"}
DPad == {"UP", "RIGHT", "DOWN", "LEFT"}

System(nand, index) == [nand |-> nand, index |-> index]
SysNand == System("sys", 0)
NoConfig == [nand |-> "sys", index |-> 0, noForce |-> FALSE, ntrCard |-> FALSE]

Boot(bootType, medium, firm) ==
  [pc |-> "mount", bootType |-> bootType, medium |-> medium, firm |-> firm,
   create |-> FALSE, options |-> DefaultOptions, bootConfig |-> NoConfig,
   oldBootConfig |-> NoConfig, pressed |-> {}, nand |-> "sys", index |-> 0,
   noForce |-> FALSE, pinExists |-> FALSE, again |-> FALSE]
Off == [Boot("B9S", "sd", "NATIVE") EXCEPT !.pc = "off"]

Init ==
  /\ mcu = None
  /\ ini = [m \in {"sd", "nand"} |-> None]
  /\ pinFile = [m \in {"sd", "nand"} |-> 0]
  /\ sdInserted \in BOOLEAN
  /\ bootenv = 0 /\ deliverArg = "none"
  /\ version \in Versions
  /\ b = Off
  /\ running = SysNand
  /\ origin = [how |-> "cold", quiet |-> TRUE, agb |-> FALSE]

Goto(pc) == b' = [b EXCEPT !.pc = pc]

-----------------------------------------------------------------------------
(* The user and the systems *)

PowerOff ==
  /\ b.pc \notin {"off"}
  /\ b' = Off
  /\ UNCHANGED <<persistent, running, origin>>

InsertOrRemoveSd ==
  /\ b.pc = "off"
  /\ sdInserted' = ~sdInserted
  /\ UNCHANGED <<mcu, ini, pinFile, bootenv, deliverArg, version, b, running, origin>>

\* boot9strap starts the program from the card, or from the NAND if it is not
\* on the card; or it is the FIRM in the NAND itself, or the one on a flashcard.
Loads(bootType) ==
  \/ /\ bootType = "B9S"
     /\ \E medium \in {"nand"} \cup (IF sdInserted THEN {"sd"} ELSE {}) :
          b' = Boot("B9S", medium, "NATIVE")
  \/ bootType \in {"FIRM0", "NTR"} /\ b' = Boot(bootType, "firm", "NATIVE")

PowerOn(bootType) ==
  /\ b.pc = "off"
  /\ Loads(bootType)
  /\ bootenv' = 0
  /\ origin' = [how |-> "cold", quiet |-> TRUE, agb |-> FALSE]
  /\ UNCHANGED <<mcu, ini, pinFile, sdInserted, deliverArg, version, running>>

\* What a system leaves in the register and in the memory when it reboots:
\* 7 is the way out of a GBA game, 3 out of a DSi title, which may name the
\* title to start next.
RebootParams ==
  CASE b.firm = "AGB" -> {<<7, "none">>}
    [] b.firm = "TWL" -> {<<3, "none">>, <<3, "launch">>}
    [] OTHER -> {<<1, "empty">>, <<1, "full">>}

\* The program is found where it was.
McuReboot(params) ==
  /\ b.pc = "launched" /\ params \in RebootParams
  /\ bootenv' = params[1] /\ deliverArg' = params[2]
  /\ b' = Boot("B9S", b.medium, "NATIVE")
  /\ origin' = [how |-> IF params[1] = 7 THEN "agb"
                        ELSE IF params[2] = "launch" THEN "launch" ELSE "reboot",
                quiet |-> TRUE, agb |-> origin.agb]
  /\ UNCHANGED <<mcu, ini, pinFile, sdInserted, version, running>>

\* A system replaces its FIRM; the program is read from where it was.
Firmlaunch(firm) ==
  /\ b.pc = "launched" /\ b.firm = "NATIVE"
  /\ b' = Boot("FIRMLAUNCH", b.medium, firm)
  /\ origin' = [origin EXCEPT !.how = "firmlaunch"]
  /\ UNCHANGED <<persistent, running>>

\* boot.firm is replaced by another version.
Update(v) ==
  /\ b.pc = "off" \/ (~Settled /\ b.pc = "launched")
  /\ v # version /\ version' = v
  /\ UNCHANGED <<mcu, ini, pinFile, sdInserted, bootenv, deliverArg, b, running, origin>>

-----------------------------------------------------------------------------
(* Helpers of main() *)

isSdMode == b.medium = "sd"
Pressed(p) == [b EXCEPT !.pressed = p]
\* Some button was seen since the boot began.
Seen(p) == origin' = [origin EXCEPT !.quiet = @ /\ p = {}]

\* loadDeliverArg's test of the launch parameters, which are 24 bytes long
\* (crcLen <= 248 is refused).
CrcLen == 24
ValidTlnc == bootenv = 3 /\ deliverArg = "launch" /\ ~(CrcLen <= 248)

\* configureHomebrewAutoboot, unless NS or a DSi title left something there.
ConfigureAutoboot(options) ==
  IF \/ options.autobootMode = 0
     \/ bootenv \div 2 # 0
     \/ bootenv = 1 /\ deliverArg # "empty"
  THEN UNCHANGED <<bootenv, deliverArg>>
  ELSE /\ bootenv' = IF options.autobootMode = 1 THEN 1 ELSE 3
       /\ deliverArg' = "full"

\* locateEmuNand: another EmuNAND or the NAND if there is none of that index.
LocateEmuNand(system) ==
  IF system.nand = "sys" THEN system
  ELSE IF sdInserted /\ system.index \in EmuNands THEN system
  ELSE IF sdInserted /\ 0 \in EmuNands THEN System("emu", 0)
  ELSE SysNand

EmuIndex(p, options) ==
  CASE p \cap DPad = {"UP"} -> 0
    [] p \cap DPad = {"RIGHT"} -> 1
    [] p \cap DPad = {"DOWN"} -> 2
    [] p \cap DPad = {"LEFT"} -> 3
    [] OTHER -> options.defaultEmu

\* Mutant: the medium is not asked for.
ChosenOnAnyMedium(p, options) ==
  IF options.autoBootEmu = ("L1" \in p)
  THEN SysNand ELSE System("emu", EmuIndex(p, options))

\* What is booted with these buttons and options, before EmuNANDs are looked for.
Chosen(p, options) ==
  IF ~isSdMode \/ options.autoBootEmu = ("L1" \in p)
  THEN SysNand ELSE System("emu", EmuIndex(p, options))

-----------------------------------------------------------------------------
(* main() *)

\* The medium, for a FIRM in the NAND the card if it can be mounted; a
\* flashcard boot shows the chainloader.
Mount ==
  /\ b.pc = "mount"
  /\ IF b.medium = "sd" /\ ~sdInserted
     THEN Goto("error")
     ELSE b' = [b EXCEPT !.medium = IF @ # "firm" THEN @
                                    ELSE IF sdInserted THEN "sd" ELSE "nand",
                         !.pc = IF b.bootType = "NTR" THEN "payload" ELSE "config"]
  /\ UNCHANGED <<persistent, running, origin>>

\* readConfigMcu: what is from an older version is upgraded, and written back
\* with the boot configuration that configData holds, which has not been read.
ReadConfigMcu ==
  IF mcu = None THEN [ok |-> FALSE, mcu |-> [version |-> version, bootCfg |-> NoConfig]]
  ELSE IF mcu.version > version
       THEN [ok |-> FALSE, mcu |-> [version |-> version, bootCfg |-> NoConfig]]
  ELSE IF mcu.version < version
       THEN [ok |-> TRUE, mcu |-> [version |-> version, bootCfg |-> NoConfig]]
  ELSE [ok |-> TRUE, mcu |-> mcu]

ReadConfig ==
  LET read == ReadConfigMcu
      ok == read.ok /\ ini[b.medium] # None
  IN /\ b.pc = "config"
     /\ mcu' = read.mcu
     /\ b' = [b EXCEPT !.create = ~ok,
                       !.options = IF ok THEN ini[b.medium] ELSE DefaultOptions,
                       !.bootConfig = read.mcu.bootCfg,
                       !.oldBootConfig = read.mcu.bootCfg,
                       !.pc = IF b.bootType = "FIRMLAUNCH" THEN "firmlaunch" ELSE "buttons"]
     /\ UNCHANGED <<ini, pinFile, sdInserted, bootenv, deliverArg, version, running, origin>>

\* A firmlaunch goes on with the NAND of the last boot.
FollowFirmlaunch ==
  /\ b.pc = "firmlaunch"
  /\ b' = IF b.create THEN Off
          ELSE [b EXCEPT !.nand = b.bootConfig.nand, !.index = b.bootConfig.index,
                         !.pc = "boot"]
  /\ UNCHANGED <<persistent, running, origin>>

\* The first look at the buttons; a reboot goes on with the NAND of the last
\* boot unless there are buttons or it was told not to.
ReadButtons(p) ==
  LET forced == bootenv # 0 /\ ~b.create
      last == [Pressed(p) EXCEPT !.nand = b.bootConfig.nand, !.index = b.bootConfig.index,
                                 !.pc = "boot"]
  IN /\ b.pc = "buttons"
     /\ IF forced /\ bootenv = 7
        THEN /\ b' = [Pressed(p) EXCEPT !.noForce = b.bootConfig.nand # "sys", !.pc = "boot"]
             /\ UNCHANGED <<bootenv, deliverArg>>
        ELSE /\ b' = IF forced /\ (ValidTlnc \/ (p = {} /\ ~b.bootConfig.noForce))
                     THEN last ELSE [Pressed(p) EXCEPT !.pc = "pin"]
             /\ IF forced /\ bootenv = 1
                THEN ConfigureAutoboot(b.options) ELSE UNCHANGED <<bootenv, deliverArg>>
     /\ Seen(p)
     /\ UNCHANGED <<mcu, ini, pinFile, sdInserted, version, running>>

WantsMenu(p) == b.create \/ ("SELECT" \in p /\ "L1" \notin p)

\* verifyPin, until the PIN is entered (START, and POWER, switch off), then
\* the buttons again.
VerifyPin(p) ==
  LET exists == b.options.pin # 0 /\ pinFile[b.medium] = b.options.pin
      later == IF exists /\ ~WantsMenu(b.pressed) THEN p ELSE b.pressed
  IN /\ b.pc = "pin"
     /\ b' = [Pressed(later) EXCEPT !.pinExists = exists,
                                    !.pc = IF WantsMenu(later) THEN "menu" ELSE "safeMode"]
     /\ Seen(later)
     /\ UNCHANGED <<persistent, running>>

\* configMenu, with writeConfig(true) and newPin; or the chainloader from it.
ConfigMenu(options, p) ==
  /\ b.pc = "menu"
  /\ ini' = IF b.create \/ options # b.options THEN [ini EXCEPT ![b.medium] = options] ELSE ini
  /\ pinFile' = IF options.pin # 0 \/ b.pinExists
                THEN [pinFile EXCEPT ![b.medium] = options.pin] ELSE pinFile
  /\ b' = [Pressed(p) EXCEPT !.options = options, !.create = FALSE, !.pc = "safeMode"]
  /\ Seen(p)
  /\ UNCHANGED <<mcu, sdInserted, bootenv, deliverArg, version, running>>

MenuPayload ==
  /\ b.pc = "menu"
  /\ Goto("payload")
  /\ UNCHANGED <<persistent, running, origin>>

\* The SAFE_MODE combination is looked for before the payloads and after them.
CheckSafeMode ==
  /\ b.pc = "safeMode"
  /\ b' = IF bootenv = 0 /\ b.pressed = SafeMode THEN [b EXCEPT !.pc = "boot"]
          ELSE [b EXCEPT !.pc = IF b.again THEN "choose" ELSE "payloads"]
  /\ UNCHANGED <<persistent, running, origin>>

\* Splash screens are shown and the buttons read again; what is held starts a
\* payload if there is one of that name.
PayloadCombo(p) ==
  LET autoBootEmu == b.options.autoBootEmu IN
  \/ "START" \in p /\ "L1" \notin p
  \/ /\ p \cap {"B", "X", "Y"} # {} \/ (~autoBootEmu /\ p \cap DPad # {})
     /\ p \cap {"L1", "R1"} = {}
  \/ /\ p \cap {"R1", "A", "START", "SELECT"} # {} \/ (autoBootEmu /\ p \cap DPad # {})
     /\ "L1" \in p

Payloads(p, q, found) ==
  /\ b.pc = "payloads"
  /\ p \in {b.pressed} \cup Pads /\ q \in {p} \cup Pads
  /\ b' = IF found /\ PayloadCombo(p) THEN [Pressed(p) EXCEPT !.pc = "payload"]
          ELSE [Pressed(q) EXCEPT !.pc = "safeMode", !.again = TRUE]
  /\ Seen(p \cup q)
  /\ UNCHANGED <<persistent, running>>

Choose ==
  /\ b.pc = "choose"
  /\ ConfigureAutoboot(b.options)
  /\ LET system == Chosen(b.pressed, b.options)
     IN b' = [b EXCEPT !.nand = system.nand, !.index = system.index, !.pc = "boot"]
  /\ UNCHANGED <<mcu, ini, pinFile, sdInserted, version, running, origin>>

\* writeConfig(false): the choice is written where it differs from the last.
WriteBootConfig(system) ==
  LET config == [nand |-> system.nand, index |-> system.index, noForce |-> b.noForce,
                 ntrCard |-> b.bootType = "NTR"]
  IN mcu' = IF b.create \/ config # b.oldBootConfig
            THEN [version |-> version, bootCfg |-> config] ELSE mcu

\* From the label boot to launchFirm.
Launch ==
  LET system == LocateEmuNand(System(b.nand, b.index)) IN
  /\ b.pc = "boot"
  /\ IF b.bootType # "FIRMLAUNCH" THEN WriteBootConfig(system) ELSE UNCHANGED mcu
  /\ running' = system
  /\ b' = [b EXCEPT !.nand = system.nand, !.index = system.index, !.pc = "launched"]
  /\ origin' = [origin EXCEPT !.agb = IF origin.how = "firmlaunch" THEN @ ELSE b.noForce]
  /\ UNCHANGED <<ini, pinFile, sdInserted, bootenv, deliverArg, version>>

\* The card is locked, a FIRM is missing: a message, then the power is cut.
LaunchFails ==
  /\ b.pc = "boot"
  /\ Goto("error")
  /\ UNCHANGED <<persistent, running, origin>>

Next ==
  \/ PowerOff
  \/ InsertOrRemoveSd
  \/ \E bootType \in {"B9S", "FIRM0", "NTR"} : PowerOn(bootType)
  \/ \E params \in {1, 3, 7} \X {"none", "launch", "empty", "full"} : McuReboot(params)
  \/ \E firm \in {"NATIVE", "TWL", "AGB", "SAFE", "SYSUPDATER"} : Firmlaunch(firm)
  \/ \E v \in Versions : Update(v)
  \/ Mount
  \/ ReadConfig
  \/ FollowFirmlaunch
  \/ \E p \in Pads : ReadButtons(p)
  \/ \E p \in Pads : VerifyPin(p)
  \/ \E options \in Options, p \in Pads : ConfigMenu(options, p)
  \/ MenuPayload
  \/ CheckSafeMode
  \/ \E p, q \in Pads, found \in BOOLEAN : Payloads(p, q, found)
  \/ Choose
  \/ Launch
  \/ LaunchFails

Spec == Init /\ [][Next]_vars
-----------------------------------------------------------------------------
(* Properties *)

TypeOK ==
  /\ mcu = None \/ mcu.version \in Versions
  /\ ini \in [{"sd", "nand"} -> Options \cup {None}]
  /\ pinFile \in [{"sd", "nand"} -> 0..3]
  /\ bootenv \in {0, 1, 3, 7}
  /\ running \in [nand : {"sys", "emu"}, index : 0..3]

\* Which system a boot that follows another one starts.  A firmlaunch goes on
\* with the one that asked for it and never finds that the configuration must
\* be made, for it would switch the console off.  A reboot with no button held
\* goes on with it too, unless a GBA game was left before: that boots the NAND,
\* and the next boot what the options say.  The program in the NAND boots the
\* NAND (main.c:203-269, 336-361).
StartsAsExpected ==
  /\ FollowFirmlaunch => ~b.create
  /\ Launch =>
       /\ origin.how = "firmlaunch" => running' = running
       /\ (origin.how = "reboot" /\ origin.quiet) =>
            running' = IF origin.agb THEN LocateEmuNand(Chosen({}, b.options)) ELSE running
       /\ (origin.how = "agb" \/ ~isSdMode) => running' = SysNand
BootsAsExpected == [][StartsAsExpected]_vars

\* "Force the last used boot options if doing autolaunch from TWL, or unless a
\* button is pressed" (main.c:260): a DSi title that starts another one comes
\* back to its system whatever is held.
AutolaunchContinues ==
  [][(Launch /\ origin.how = "launch" /\ ~origin.agb) => running' = running]_vars
=============================================================================
