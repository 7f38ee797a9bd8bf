---------------------------- MODULE DigManager ----------------------------
(***************************************************************************)
(* services/data_integrity_guard/DigManager.cpp: the thread that watches   *)
(* for a /data or /cache that has become read-only and for a damaged       *)
(* /system, and that reboots the device, a bounded number of times before  *)
(* it asks recovery to wipe /data.                                         *)
(*                                                                         *)
(* The number of reboots so far lives in a file in /cache, and so does the *)
(* command for recovery, so what the thread remembers across a reboot      *)
(* depends on a partition that it watches, and may format, itself.         *)
(*                                                                         *)
(* The device around the thread (mounting, boot completion, the reboot     *)
(* that init carries out when sys.powerctl is set, recovery, power loss)   *)
(* is not under src/ and is modelled from how the thread uses it.          *)
(***************************************************************************)
EXTENDS Integers

CONSTANTS
  MaxCount,       \* mDataRoCountMax
  CheckEvery,     \* CHECK_SYSTEM_COUNT
  SupportSysBak,  \* mSupportSysBak
  FaultSets,      \* the sets of partitions that may become read-only in one behaviour
  BootsReadOnly,  \* does the boot complete with a read-only /data?
  MaxFaults       \* bound: how often something goes wrong outside the thread

ASSUME DigAssumption ==
  /\ MaxCount \in Nat
  /\ CheckEvery \in Nat \ {0}
  /\ MaxFaults \in Nat
  /\ FaultSets \subseteq SUBSET {"data", "cache"}
  /\ SupportSysBak \in BOOLEAN /\ BootsReadOnly \in BOOLEAN

VARIABLES
  \* what survives a reboot
  dataBad,   \* /data comes up read-only at the next boot
  cacheBad,  \* /cache comes up read-only at the next boot
  sysBad,    \* a file of /system does not match its checksum
  count,     \* DIG_DATA_RO_COUNT_FILE: a number, or NoCount
  cmd,       \* /cache/recovery/command
  \* the running device
  dataRo,    \* /proc/mounts says /data is read-only
  cache,     \* /cache is mounted "rw", "ro", or "off"
  power,     \* sys.powerctl
  booted,    \* sys.boot_completed
  \* the thread
  pc,        \* where in workThread it is
  mBootCompleted,
  mCheckSystemCount,
  n,         \* count of handleDataRo
  \* history
  reboots,   \* doReboot calls since /data was wiped or a boot completed
  boots,     \* how often the device was started since then
  lost,      \* how often the count was lost on the way to recovery
  faults,    \* how often something went wrong so far
  \* chosen once and for all
  fragile    \* the partitions that may become read-only

storage == <<dataBad, cacheBad, sysBad, count, cmd>>
device == <<dataRo, cache, power, booted>>
thread == <<pc, mBootCompleted, mCheckSystemCount, n>>
history == <<reboots, boots, lost, faults>>
moving == <<storage, device, thread, history>>
vars == <<moving, fragile>>

\* There is no file, or it is empty: fopen or fscanf fails, nCount stays 0.
NoCount == -1

PCs == {"top", "reset", "data", "save", "reboot", "zero", "command",
        "recoverData", "cache", "system", "restore", "recoverSystem",
        "check", "ended"}

Init ==
  /\ dataBad = FALSE /\ cacheBad = FALSE /\ sysBad = FALSE
  /\ count = NoCount
  /\ cmd = "none"
  /\ dataRo = FALSE
  /\ cache = "rw"
  /\ power = "none"
  /\ booted = FALSE
  /\ pc = "top"
  /\ mBootCompleted = FALSE
  /\ mCheckSystemCount = CheckEvery
  /\ n = 0
  /\ reboots = 0 /\ boots = 0 /\ lost = 0 /\ faults = 0
  /\ fragile \in FaultSets

-----------------------------------------------------------------------------
(* Helpers                                                                 *)

isRebooting == power # "none"

Writable == cache = "rw"

\* getDataRoCount: the file can be read whenever /cache is mounted.
DataRoCount == IF cache = "off" \/ count = NoCount THEN 0 ELSE count

\* setDataRoCount: fopen for writing fails silently on a read-only /cache.
SetDataRoCount(c) == count' = IF Writable THEN c ELSE count

Goto(l) == pc' = l

-----------------------------------------------------------------------------
(* workThread: has the boot completed?                                     *)

NotYetBooted ==
  /\ pc = "top"
  /\ mBootCompleted \/ ~booted
  /\ Goto("data")
  /\ UNCHANGED <<storage, device, mBootCompleted, mCheckSystemCount, n, history>>

SeesBootCompleted ==
  /\ pc = "top"
  /\ ~mBootCompleted /\ booted
  /\ mBootCompleted' = TRUE
  /\ Goto("reset")
  /\ UNCHANGED <<storage, device, mCheckSystemCount, n, history>>

\* setDataRoCount(0).  The reports, here and below, go to mBroadcaster, which
\* is NULL: the constructor sets it so and nothing calls setBroadcaster.
ResetCount ==
  /\ pc = "reset"
  /\ SetDataRoCount(0)
  /\ reboots' = 0 /\ boots' = 0
  /\ Goto("data")
  /\ UNCHANGED <<dataBad, cacheBad, sysBad, cmd, device, mBootCompleted,
                 mCheckSystemCount, n, lost, faults>>

-----------------------------------------------------------------------------
(* handleDataRo                                                            *)

NoDataRo ==
  /\ pc = "data"
  /\ ~dataRo \/ isRebooting
  /\ Goto("cache")
  /\ UNCHANGED <<storage, device, mBootCompleted, mCheckSystemCount, n, history>>

NotifyDataRo ==
  /\ pc = "data"
  /\ dataRo /\ ~isRebooting /\ mBootCompleted
  /\ Goto("cache")
  /\ UNCHANGED <<storage, device, mBootCompleted, mCheckSystemCount, n, history>>

\* Mutant: recovery is asked for one reboot too early.
DataRoInBootEarly ==
  /\ pc = "data"
  /\ dataRo /\ ~isRebooting /\ ~mBootCompleted
  /\ n' = DataRoCount
  /\ Goto(IF DataRoCount + 1 < MaxCount THEN "save" ELSE "zero")
  /\ UNCHANGED <<storage, device, mBootCompleted, mCheckSystemCount, history>>

\* Mutant: there is no branch into recovery.
DataRoInBootNoRecovery ==
  /\ pc = "data"
  /\ dataRo /\ ~isRebooting /\ ~mBootCompleted
  /\ n' = DataRoCount
  /\ Goto(IF DataRoCount < MaxCount THEN "save" ELSE "cache")
  /\ UNCHANGED <<storage, device, mBootCompleted, mCheckSystemCount, history>>

\* During boot: the count decides between a reboot and recovery.
DataRoInBoot ==
  /\ pc = "data"
  /\ dataRo /\ ~isRebooting /\ ~mBootCompleted
  /\ n' = DataRoCount
  /\ Goto(IF DataRoCount < MaxCount THEN "save" ELSE "zero")
  /\ UNCHANGED <<storage, device, mBootCompleted, mCheckSystemCount, history>>

\* Mutant: the count is saved as it was read.
SaveCountSame ==
  /\ pc = "save"
  /\ SetDataRoCount(n)
  /\ Goto("reboot")
  /\ UNCHANGED <<dataBad, cacheBad, sysBad, cmd, device, mBootCompleted,
                 mCheckSystemCount, n, history>>

SaveCount ==
  /\ pc = "save"
  /\ SetDataRoCount(n + 1)
  /\ Goto("reboot")
  /\ UNCHANGED <<dataBad, cacheBad, sysBad, cmd, device, mBootCompleted,
                 mCheckSystemCount, n, history>>

doReboot ==
  /\ pc = "reboot"
  /\ power' = "reboot"
  /\ reboots' = reboots + 1
  /\ Goto("cache")
  /\ UNCHANGED <<storage, dataRo, cache, booted, mBootCompleted,
                 mCheckSystemCount, n, boots, lost, faults>>

ZeroCount ==
  /\ pc = "zero"
  /\ SetDataRoCount(0)
  /\ Goto("command")
  /\ UNCHANGED <<dataBad, cacheBad, sysBad, cmd, device, mBootCompleted,
                 mCheckSystemCount, n, history>>

\* Mutant: the reboot is requested although the command cannot be written.
WriteCommandOrNot(here, c, there, back) ==
  /\ pc = here
  /\ cmd' = IF Writable THEN c ELSE cmd
  /\ Goto(there)
  /\ UNCHANGED <<dataBad, cacheBad, sysBad, count, device, mBootCompleted,
                 mCheckSystemCount, n, history>>

\* doRebootRecoveryTipDataro and doRestoreSystem write the command first and
\* return, without a reboot, when they cannot.
WriteCommand(here, c, there, back) ==
  /\ pc = here
  /\ IF Writable
     THEN cmd' = c /\ Goto(there)
     ELSE UNCHANGED cmd /\ Goto(back)
  /\ UNCHANGED <<dataBad, cacheBad, sysBad, count, device, mBootCompleted,
                 mCheckSystemCount, n, history>>

SetRecovery(here, back) ==
  /\ pc = here
  /\ power' = "reboot_recovery"
  /\ Goto(back)
  /\ UNCHANGED <<storage, dataRo, cache, booted, mBootCompleted,
                 mCheckSystemCount, n, history>>

doRebootRecoveryTipDataro ==
  \/ WriteCommand("command", "data_ro_wipe", "recoverData", "cache")
  \/ SetRecovery("recoverData", "cache")

-----------------------------------------------------------------------------
(* handleCacheRo                                                           *)

NoCacheRo ==
  /\ pc = "cache"
  /\ cache # "ro" \/ isRebooting
  /\ Goto("system")
  /\ UNCHANGED <<storage, device, mBootCompleted, mCheckSystemCount, n, history>>

\* umount fails, or there is no /dev/block/cache.
CacheBusy ==
  /\ pc = "cache"
  /\ cache = "ro" /\ ~isRebooting
  /\ faults < MaxFaults
  /\ faults' = faults + 1
  /\ Goto("system")
  /\ UNCHANGED <<storage, device, mBootCompleted, mCheckSystemCount, n,
                 reboots, boots, lost>>

\* Mutant: the new file system is mounted read-only.
FormatCacheReadOnly ==
  /\ pc = "cache"
  /\ cache = "ro" /\ ~isRebooting
  /\ cacheBad' = FALSE
  /\ count' = NoCount
  /\ cmd' = "none"
  /\ Goto("system")
  /\ UNCHANGED <<dataBad, sysBad, device, mBootCompleted,
                 mCheckSystemCount, n, history>>

\* make_ext4fs gives an empty file system, which is mounted.
FormatCache ==
  /\ pc = "cache"
  /\ cache = "ro" /\ ~isRebooting
  /\ cacheBad' = FALSE
  /\ cache' = "rw"
  /\ count' = NoCount
  /\ cmd' = "none"
  /\ lost' = lost + 1
  /\ Goto("system")
  /\ UNCHANGED <<dataBad, sysBad, dataRo, power, booted, mBootCompleted,
                 mCheckSystemCount, n, reboots, boots, faults>>

\* make_ext4fs or the mount after it fails: the error is only logged, and what
\* is mounted, if anything, is the old file system.
FormatFails ==
  /\ pc = "cache"
  /\ cache = "ro" /\ ~isRebooting
  /\ faults < MaxFaults
  /\ faults' = faults + 1
  /\ cache' \in {"rw", "ro", "off"}
  /\ Goto("system")
  /\ UNCHANGED <<storage, dataRo, power, booted, mBootCompleted,
                 mCheckSystemCount, n, reboots, boots, lost>>

-----------------------------------------------------------------------------
(* checkSystemPartition and HanldeSysChksumError                           *)

\* checkSystemPartition finds a file it cannot read or whose checksum is wrong.
checkSystemPartition == sysBad

\* mCheckSystemCount++ == CHECK_SYSTEM_COUNT
NoSystemCheck ==
  /\ pc = "system"
  /\ ~SupportSysBak \/ mCheckSystemCount # CheckEvery
  /\ mCheckSystemCount' = IF SupportSysBak THEN mCheckSystemCount + 1
                                           ELSE mCheckSystemCount
  /\ Goto("check")
  /\ UNCHANGED <<storage, device, mBootCompleted, n, history>>

\* Mutant: mCheckSystemCount = 1 is missing.
SystemCheckOnce ==
  /\ pc = "system"
  /\ SupportSysBak /\ mCheckSystemCount = CheckEvery
  /\ mCheckSystemCount' = mCheckSystemCount + 1
  /\ Goto(IF checkSystemPartition /\ ~isRebooting /\ ~mBootCompleted THEN "restore" ELSE "check")
  /\ UNCHANGED <<storage, device, mBootCompleted, n, history>>

\* Mutant: HanldeSysChksumError does not ask whether a reboot is under way.
SystemCheckAnyway ==
  /\ pc = "system"
  /\ SupportSysBak /\ mCheckSystemCount = CheckEvery
  /\ mCheckSystemCount' = 1
  /\ Goto(IF checkSystemPartition /\ ~mBootCompleted THEN "restore" ELSE "check")
  /\ UNCHANGED <<storage, device, mBootCompleted, n, history>>

SystemCheck ==
  /\ pc = "system"
  /\ SupportSysBak /\ mCheckSystemCount = CheckEvery
  /\ mCheckSystemCount' = 1
  /\ Goto(IF checkSystemPartition /\ ~isRebooting /\ ~mBootCompleted THEN "restore" ELSE "check")
  /\ UNCHANGED <<storage, device, mBootCompleted, n, history>>

doRestoreSystem ==
  \/ WriteCommand("restore", "restore_system", "recoverSystem", "check")
  \/ SetRecovery("recoverSystem", "check")

\* The loop ends when a reboot is under way, else it sleeps and starts over.
CheckRebooting ==
  /\ pc = "check"
  /\ Goto(IF isRebooting THEN "ended" ELSE "top")
  /\ UNCHANGED <<storage, device, mBootCompleted, mCheckSystemCount, n, history>>

workThread ==
  \/ NotYetBooted \/ SeesBootCompleted \/ ResetCount
  \/ NoDataRo \/ NotifyDataRo \/ DataRoInBoot \/ SaveCount \/ doReboot
  \/ ZeroCount \/ doRebootRecoveryTipDataro
  \/ NoCacheRo \/ CacheBusy \/ FormatCache \/ FormatFails
  \/ NoSystemCheck \/ SystemCheck \/ doRestoreSystem
  \/ CheckRebooting

-----------------------------------------------------------------------------
(* The device around the thread                                            *)

Fault == faults < MaxFaults /\ faults' = faults + 1

\* The kernel remounts /data read-only, until the next boot or beyond it.
DataGoesRo ==
  /\ Fault
  /\ "data" \in fragile /\ ~dataRo
  /\ dataRo' = TRUE
  /\ dataBad' \in BOOLEAN
  /\ UNCHANGED <<cacheBad, sysBad, count, cmd, cache, power, booted, thread,
                 reboots, boots, lost>>

CacheGoesRo ==
  /\ Fault
  /\ "cache" \in fragile /\ cache = "rw"
  /\ cache' = "ro"
  /\ cacheBad' \in BOOLEAN
  /\ UNCHANGED <<dataBad, sysBad, count, cmd, dataRo, power, booted, thread,
                 reboots, boots, lost>>

SystemGoesBad ==
  /\ Fault
  /\ sysBad' = TRUE
  /\ UNCHANGED <<dataBad, cacheBad, count, cmd, device, thread, reboots, boots, lost>>

\* Somebody else asks for a reboot.
OtherReboot ==
  /\ Fault
  /\ power = "none"
  /\ power' = "reboot"
  /\ UNCHANGED <<storage, dataRo, cache, booted, thread, reboots, boots, lost>>

BootCompletes ==
  /\ ~booted /\ ~isRebooting
  /\ dataRo => BootsReadOnly
  /\ booted' = TRUE
  /\ UNCHANGED <<storage, dataRo, cache, power, thread, history>>

\* The device comes up and init starts the thread anew.
Boots ==
  /\ dataRo' = dataBad'
  /\ cache' = IF cacheBad' THEN "ro" ELSE "rw"
  /\ power' = "none"
  /\ booted' = FALSE
  /\ Goto("top")
  /\ mBootCompleted' = FALSE
  /\ mCheckSystemCount' = CheckEvery
  /\ n' = 0

\* The count says 0, but recovery has not been reached yet.
CountIsZeroed ==
  \/ pc \in {"command", "recoverData"}
  \/ power = "reboot_recovery" /\ cmd = "data_ro_wipe"

\* init carries out the reboot; the file system check may repair /data.
Reboot ==
  /\ power = "reboot"
  /\ dataBad' \in {dataBad, FALSE}
  /\ boots' = boots + 1
  /\ lost' = IF CountIsZeroed THEN lost + 1 ELSE lost
  /\ UNCHANGED <<cacheBad, sysBad, count, cmd, reboots, faults>>
  /\ Boots

\* Recovery carries out the command, deletes it and starts the system.
RecoveryBoot ==
  /\ power = "reboot_recovery"
  /\ dataBad' = (dataBad /\ cmd # "data_ro_wipe")
  /\ sysBad' = (sysBad /\ cmd # "restore_system")
  /\ cmd' = "none"
  /\ IF cmd = "data_ro_wipe"
     THEN reboots' = 0 /\ boots' = 0
     ELSE boots' = boots + 1 /\ UNCHANGED reboots
  /\ UNCHANGED <<cacheBad, count, lost, faults>>
  /\ Boots

\* Power is lost: where the count is being written, fopen(.., "w") may have
\* emptied the file already.
PowerLoss ==
  /\ Fault
  /\ boots' = boots + 1
  /\ \E torn \in BOOLEAN :
       /\ torn => pc \in {"save", "zero", "reset"} /\ Writable
       /\ count' = IF torn THEN NoCount ELSE count
       /\ lost' = IF torn \/ CountIsZeroed THEN lost + 1 ELSE lost
  /\ UNCHANGED <<dataBad, cacheBad, sysBad, cmd, reboots>>
  /\ Boots

Boot == Reboot \/ RecoveryBoot

Environment ==
  \/ DataGoesRo \/ CacheGoesRo \/ SystemGoesBad \/ OtherReboot
  \/ BootCompletes \/ Boot \/ PowerLoss

Next == (workThread \/ Environment) /\ UNCHANGED fragile

Spec == Init /\ [][Next]_vars

\* The thread runs, and init carries out a reboot that was asked for.
FairSpec == Spec /\ WF_moving(workThread) /\ WF_moving(Boot)

-----------------------------------------------------------------------------
(* Properties                                                              *)

\* The type of every variable.
TypeOK ==
  /\ dataBad \in BOOLEAN /\ cacheBad \in BOOLEAN /\ sysBad \in BOOLEAN
  /\ dataRo \in BOOLEAN /\ booted \in BOOLEAN /\ mBootCompleted \in BOOLEAN
  /\ count \in Nat \cup {NoCount}
  /\ cmd \in {"none", "data_ro_wipe", "restore_system"}
  /\ cache \in {"rw", "ro", "off"}
  /\ power \in {"none", "reboot", "reboot_recovery"}
  /\ pc \in PCs
  /\ mCheckSystemCount \in 1 .. CheckEvery
  /\ n \in Nat
  /\ reboots \in Nat /\ boots \in Nat /\ lost \in Nat /\ faults \in 0 .. MaxFaults
  /\ fragile \in FaultSets

\* A device whose /data stays read-only is not rebooted for ever: the thread
\* asks for at most mDataRoCountMax reboots before recovery wipes /data, and
\* again that many for each time the count was lost on the way (by a power
\* loss while it was written, or after it was set to 0 for recovery).
BoundedReboots == reboots <= MaxCount * (1 + lost)

\* /data is only wiped when the device was started mDataRoCountMax times and
\* no boot completed in between: handleDataRo's recovery is the last resort.
WipeIsLastResort == pc \in {"zero", "command", "recoverData"} => boots >= MaxCount

\* A reboot into recovery finds a command there.
RecoveryFindsCommand == power = "reboot_recovery" => cmd # "none"

\* While a reboot into recovery is under way the thread neither overwrites the
\* command nor formats /cache under it, nor takes the reboot back.
CommandStands ==
  [][workThread /\ power = "reboot_recovery" => UNCHANGED <<cmd, power>>]_vars

\* A boot that hangs because /data is read-only ends with a /data that can be
\* written, after some reboots or the wipe.
DataRecovers == (dataRo /\ ~booted) ~> ~dataRo

\* A read-only /cache does not stay.
CacheRecovers == cache = "ro" ~> cache # "ro"

=============================================================================
