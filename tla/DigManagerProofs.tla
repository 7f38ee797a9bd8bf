-------------------------- MODULE DigManagerProofs --------------------------
(***************************************************************************)
(* Proofs about DigManager, for every count limit, check interval and      *)
(* number of faults.                                                       *)
(***************************************************************************)
EXTENDS DigManager, TLAPS

\* A /cache that stays writable keeps the count and the command.
CacheStays == cache = "rw" /\ cacheBad = FALSE /\ "cache" \notin fragile

\* The configurations in which /cache has no faults.
CacheIsSound == \A f \in FaultSets : "cache" \notin f

\* A reboot into recovery is only under way once the thread that asked for it
\* has returned from the handler, and its command is written.
RecoveryOK ==
  /\ pc = "recoverData" => cmd = "data_ro_wipe"
  /\ pc = "recoverSystem" => cmd = "restore_system"
  /\ power = "reboot_recovery" => cmd # "none" /\ pc \in {"cache", "system", "check", "ended"}

\* The count, as handleDataRo will read it, against what happened.
CountOK ==
  /\ DataRoCount <= MaxCount
  /\ pc \in {"save", "zero"} => n = DataRoCount
  /\ pc = "save" => n < MaxCount
  /\ pc = "zero" => n = MaxCount
  /\ CountIsZeroed => DataRoCount = 0

\* A reboot that was asked for is counted: the count is ahead of the reboots
\* by the one that doReboot is about to ask for.
RebootsOK ==
  /\ pc = "reboot" => reboots + 1 <= DataRoCount + MaxCount * lost
  /\ ~CountIsZeroed => reboots <= DataRoCount + MaxCount * lost
  /\ CountIsZeroed => reboots <= MaxCount + MaxCount * lost

\* What is counted is a boot, apart from the one that is being asked for.
BootsOK ==
  /\ DataRoCount <= boots + (IF pc = "reboot" \/ isRebooting THEN 1 ELSE 0)
  /\ pc = "save" => n <= boots
  /\ pc \in {"zero", "command", "recoverData"} => boots >= MaxCount

-----------------------------------------------------------------------------
(* The type invariant, in two parts: the flags, and everything else.       *)

Flags ==
  /\ dataBad \in BOOLEAN /\ cacheBad \in BOOLEAN /\ sysBad \in BOOLEAN
  /\ dataRo \in BOOLEAN /\ booted \in BOOLEAN /\ mBootCompleted \in BOOLEAN

Numbers ==
  /\ count \in Nat \cup {NoCount}
  /\ cmd \in {"none", "data_ro_wipe", "restore_system"}
  /\ cache \in {"rw", "ro", "off"}
  /\ power \in {"none", "reboot", "reboot_recovery"}
  /\ pc \in PCs
  /\ mCheckSystemCount \in 1 .. CheckEvery
  /\ n \in Nat
  /\ reboots \in Nat /\ boots \in Nat /\ lost \in Nat /\ faults \in 0 .. MaxFaults
  /\ fragile \in FaultSets

LEMMA TypeParts == TypeOK <=> Flags /\ Numbers
  BY DEF TypeOK, Flags, Numbers

\* The numbers among the constants.
LEMMA NumberConstants == MaxCount \in Nat /\ CheckEvery \in Nat \ {0} /\ MaxFaults \in Nat
  BY DigAssumption DEF DigAssumption

\* The flags stay flags.
LEMMA FlagsStep ==
  ASSUME Flags, [Next]_vars
  PROVE  Flags'
<1> USE DEF Flags, storage, device, thread, history
<1>1. CASE NotYetBooted
  BY <1>1, Zenon DEF NotYetBooted, Goto
<1>2. CASE SeesBootCompleted
  BY <1>2, Zenon DEF SeesBootCompleted, Goto
<1>3. CASE ResetCount
  BY <1>3, Zenon DEF ResetCount, Goto, SetDataRoCount
<1>4. CASE NoDataRo
  BY <1>4, Zenon DEF NoDataRo, Goto
<1>5. CASE NotifyDataRo
  BY <1>5, Zenon DEF NotifyDataRo, Goto
<1>6. CASE DataRoInBoot
  BY <1>6, Zenon DEF DataRoInBoot, Goto
<1>7. CASE SaveCount
  BY <1>7, Zenon DEF SaveCount, Goto, SetDataRoCount
<1>8. CASE doReboot
  BY <1>8, Zenon DEF doReboot, Goto
<1>9. CASE ZeroCount
  BY <1>9, Zenon DEF ZeroCount, Goto, SetDataRoCount
<1>10. CASE doRebootRecoveryTipDataro
  BY <1>10, Zenon DEF doRebootRecoveryTipDataro, WriteCommand, SetRecovery, Goto
<1>11. CASE NoCacheRo
  BY <1>11, Zenon DEF NoCacheRo, Goto
<1>12. CASE CacheBusy
  BY <1>12, Zenon DEF CacheBusy, Goto
<1>13. CASE FormatCache
  BY <1>13, Zenon DEF FormatCache, Goto
<1>14. CASE FormatFails
  BY <1>14, Zenon DEF FormatFails, Goto
<1>15. CASE NoSystemCheck
  BY <1>15, Zenon DEF NoSystemCheck, Goto
<1>16. CASE SystemCheck
  BY <1>16, Zenon DEF SystemCheck, Goto, checkSystemPartition
<1>17. CASE doRestoreSystem
  BY <1>17, Zenon DEF doRestoreSystem, WriteCommand, SetRecovery, Goto
<1>18. CASE CheckRebooting
  BY <1>18, Zenon DEF CheckRebooting, Goto
<1>19. CASE DataGoesRo
  BY <1>19, Zenon DEF DataGoesRo, Fault
<1>20. CASE CacheGoesRo
  BY <1>20, Zenon DEF CacheGoesRo, Fault
<1>21. CASE SystemGoesBad
  BY <1>21, Zenon DEF SystemGoesBad, Fault
<1>22. CASE OtherReboot
  BY <1>22, Zenon DEF OtherReboot, Fault
<1>23. CASE BootCompletes
  BY <1>23, Zenon DEF BootCompletes
<1>24. CASE Reboot
  BY <1>24, Zenon DEF Reboot, Boots, Goto
<1>25. CASE RecoveryBoot
  BY <1>25, Zenon DEF RecoveryBoot, Boots, Goto
<1>26. CASE PowerLoss
  BY <1>26, Zenon DEF PowerLoss, Boots, Fault, Goto
<1>27. CASE UNCHANGED vars
  BY <1>27, Zenon DEF vars, moving
<1> QED
  BY <1>1, <1>2, <1>3, <1>4, <1>5, <1>6, <1>7, <1>8, <1>9, <1>10, <1>11, <1>12, <1>13, <1>14,
     <1>15, <1>16, <1>17, <1>18, <1>19, <1>20, <1>21, <1>22, <1>23, <1>24, <1>25, <1>26,
     <1>27 DEF Next, workThread, Environment, Boot

\* The rest keeps its type.
LEMMA NumbersStep ==
  ASSUME Numbers, [Next]_vars
  PROVE  Numbers'
<1>0. UNCHANGED fragile
  BY Zenon DEF Next, vars
<1> USE <1>0, NumberConstants DEF Numbers, NoCount, PCs, DataRoCount, Writable, storage, device,
   thread, history
<1>1. CASE NotYetBooted
  BY <1>1 DEF NotYetBooted, Goto
<1>2. CASE SeesBootCompleted
  BY <1>2 DEF SeesBootCompleted, Goto
<1>3. CASE ResetCount
  BY <1>3 DEF ResetCount, Goto, SetDataRoCount
<1>4. CASE NoDataRo
  BY <1>4 DEF NoDataRo, Goto
<1>5. CASE NotifyDataRo
  BY <1>5 DEF NotifyDataRo, Goto
<1>6. CASE DataRoInBoot
  BY <1>6 DEF DataRoInBoot, Goto
<1>7. CASE SaveCount
  BY <1>7 DEF SaveCount, Goto, SetDataRoCount
<1>8. CASE doReboot
  BY <1>8 DEF doReboot, Goto
<1>9. CASE ZeroCount
  BY <1>9 DEF ZeroCount, Goto, SetDataRoCount
<1>10. CASE doRebootRecoveryTipDataro
  <2>1. CASE WriteCommand("command", "data_ro_wipe", "recoverData", "cache")
    BY <2>1 DEF WriteCommand, Goto
  <2>2. CASE SetRecovery("recoverData", "cache")
    BY <2>2 DEF SetRecovery, Goto
  <2> QED
    BY <1>10, <2>1, <2>2 DEF doRebootRecoveryTipDataro
<1>11. CASE NoCacheRo
  BY <1>11 DEF NoCacheRo, Goto
<1>12. CASE CacheBusy
  BY <1>12 DEF CacheBusy, Goto
<1>13. CASE FormatCache
  BY <1>13 DEF FormatCache, Goto
<1>14. CASE FormatFails
  BY <1>14 DEF FormatFails, Goto
<1>15. CASE NoSystemCheck
  BY <1>15 DEF NoSystemCheck, Goto
<1>16. CASE SystemCheck
  BY <1>16 DEF SystemCheck, Goto, checkSystemPartition
<1>17. CASE doRestoreSystem
  <2>1. CASE WriteCommand("restore", "restore_system", "recoverSystem", "check")
    BY <2>1 DEF WriteCommand, Goto
  <2>2. CASE SetRecovery("recoverSystem", "check")
    BY <2>2 DEF SetRecovery, Goto
  <2> QED
    BY <1>17, <2>1, <2>2 DEF doRestoreSystem
<1>18. CASE CheckRebooting
  BY <1>18 DEF CheckRebooting, Goto
<1>19. CASE DataGoesRo
  BY <1>19 DEF DataGoesRo, Fault
<1>20. CASE CacheGoesRo
  BY <1>20 DEF CacheGoesRo, Fault
<1>21. CASE SystemGoesBad
  BY <1>21 DEF SystemGoesBad, Fault
<1>22. CASE OtherReboot
  BY <1>22 DEF OtherReboot, Fault
<1>23. CASE BootCompletes
  BY <1>23 DEF BootCompletes
<1>24. CASE Reboot
  BY <1>24 DEF Reboot, Boots, Goto
<1>25. CASE RecoveryBoot
  BY <1>25 DEF RecoveryBoot, Boots, Goto
<1>26. CASE PowerLoss
  BY <1>26 DEF PowerLoss, Boots, Fault, Goto
<1>27. CASE UNCHANGED vars
  BY <1>27 DEF vars, moving
<1> QED
  BY <1>1, <1>2, <1>3, <1>4, <1>5, <1>6, <1>7, <1>8, <1>9, <1>10, <1>11, <1>12, <1>13, <1>14,
     <1>15, <1>16, <1>17, <1>18, <1>19, <1>20, <1>21, <1>22, <1>23, <1>24, <1>25, <1>26,
     <1>27 DEF Next, workThread, Environment, Boot

\* Losing the count once more allows mDataRoCountMax more reboots.
LEMMA TimesNext ==
  \A l \in Nat :
    /\ MaxCount * l \in Nat
    /\ MaxCount * (l + 1) = MaxCount * l + MaxCount
    /\ MaxCount * (1 + l) = MaxCount * l + MaxCount
  BY DigAssumption, SMT DEF DigAssumption

\* No step disturbs a reboot into recovery.
LEMMA RecoveryStep ==
  ASSUME RecoveryOK, [Next]_vars
  PROVE  RecoveryOK'
<1> USE DEF RecoveryOK, isRebooting, Writable, storage, device, thread, history
<1>1. CASE NotYetBooted
  BY <1>1 DEF NotYetBooted, Goto
<1>2. CASE SeesBootCompleted
  BY <1>2 DEF SeesBootCompleted, Goto
<1>3. CASE ResetCount
  BY <1>3 DEF ResetCount, Goto, SetDataRoCount
<1>4. CASE NoDataRo
  BY <1>4 DEF NoDataRo, Goto
<1>5. CASE NotifyDataRo
  BY <1>5 DEF NotifyDataRo, Goto
<1>6. CASE DataRoInBoot
  BY <1>6 DEF DataRoInBoot, Goto
<1>7. CASE SaveCount
  BY <1>7 DEF SaveCount, Goto, SetDataRoCount
<1>8. CASE doReboot
  BY <1>8 DEF doReboot, Goto
<1>9. CASE ZeroCount
  BY <1>9 DEF ZeroCount, Goto, SetDataRoCount
<1>10. CASE doRebootRecoveryTipDataro
  BY <1>10 DEF doRebootRecoveryTipDataro, WriteCommand, SetRecovery, Goto
<1>11. CASE NoCacheRo
  BY <1>11 DEF NoCacheRo, Goto
<1>12. CASE CacheBusy
  BY <1>12 DEF CacheBusy, Goto
<1>13. CASE FormatCache
  BY <1>13 DEF FormatCache, Goto
<1>14. CASE FormatFails
  BY <1>14 DEF FormatFails, Goto
<1>15. CASE NoSystemCheck
  BY <1>15 DEF NoSystemCheck, Goto
<1>16. CASE SystemCheck
  BY <1>16 DEF SystemCheck, Goto, checkSystemPartition
<1>17. CASE doRestoreSystem
  BY <1>17 DEF doRestoreSystem, WriteCommand, SetRecovery, Goto
<1>18. CASE CheckRebooting
  BY <1>18 DEF CheckRebooting, Goto
<1>19. CASE DataGoesRo
  BY <1>19 DEF DataGoesRo, Fault
<1>20. CASE CacheGoesRo
  BY <1>20 DEF CacheGoesRo, Fault
<1>21. CASE SystemGoesBad
  BY <1>21 DEF SystemGoesBad, Fault
<1>22. CASE OtherReboot
  BY <1>22 DEF OtherReboot, Fault
<1>23. CASE BootCompletes
  BY <1>23 DEF BootCompletes
<1>24. CASE Reboot
  BY <1>24 DEF Reboot, Boots, Goto
<1>25. CASE RecoveryBoot
  BY <1>25 DEF RecoveryBoot, Boots, Goto
<1>26. CASE PowerLoss
  BY <1>26 DEF PowerLoss, Boots, Fault, Goto
<1>27. CASE UNCHANGED vars
  BY <1>27 DEF vars, moving
<1> QED
  BY <1>1, <1>2, <1>3, <1>4, <1>5, <1>6, <1>7, <1>8, <1>9, <1>10, <1>11, <1>12, <1>13, <1>14,
     <1>15, <1>16, <1>17, <1>18, <1>19, <1>20, <1>21, <1>22, <1>23, <1>24, <1>25, <1>26,
     <1>27 DEF Next, workThread, Environment, Boot

\* A /cache without faults stays writable.
LEMMA CacheStep ==
  ASSUME CacheStays, [Next]_vars
  PROVE  CacheStays'
<1>0. UNCHANGED fragile
  BY Zenon DEF Next, vars
<1> USE <1>0 DEF CacheStays, storage, device, thread, history
<1>1. CASE NotYetBooted
  BY <1>1 DEF NotYetBooted, Goto
<1>2. CASE SeesBootCompleted
  BY <1>2 DEF SeesBootCompleted, Goto
<1>3. CASE ResetCount
  BY <1>3 DEF ResetCount, Goto, SetDataRoCount
<1>4. CASE NoDataRo
  BY <1>4 DEF NoDataRo, Goto
<1>5. CASE NotifyDataRo
  BY <1>5 DEF NotifyDataRo, Goto
<1>6. CASE DataRoInBoot
  BY <1>6 DEF DataRoInBoot, Goto
<1>7. CASE SaveCount
  BY <1>7 DEF SaveCount, Goto, SetDataRoCount
<1>8. CASE doReboot
  BY <1>8 DEF doReboot, Goto
<1>9. CASE ZeroCount
  BY <1>9 DEF ZeroCount, Goto, SetDataRoCount
<1>10. CASE doRebootRecoveryTipDataro
  BY <1>10 DEF doRebootRecoveryTipDataro, WriteCommand, SetRecovery, Goto
<1>11. CASE NoCacheRo
  BY <1>11 DEF NoCacheRo, Goto
<1>12. CASE CacheBusy
  BY <1>12 DEF CacheBusy, Goto
<1>13. CASE FormatCache
  BY <1>13 DEF FormatCache, Goto
<1>14. CASE FormatFails
  BY <1>14 DEF FormatFails, Goto
<1>15. CASE NoSystemCheck
  BY <1>15 DEF NoSystemCheck, Goto
<1>16. CASE SystemCheck
  BY <1>16 DEF SystemCheck, Goto, checkSystemPartition
<1>17. CASE doRestoreSystem
  BY <1>17 DEF doRestoreSystem, WriteCommand, SetRecovery, Goto
<1>18. CASE CheckRebooting
  BY <1>18 DEF CheckRebooting, Goto
<1>19. CASE DataGoesRo
  BY <1>19 DEF DataGoesRo, Fault
<1>20. CASE CacheGoesRo
  BY <1>20 DEF CacheGoesRo, Fault
<1>21. CASE SystemGoesBad
  BY <1>21 DEF SystemGoesBad, Fault
<1>22. CASE OtherReboot
  BY <1>22 DEF OtherReboot, Fault
<1>23. CASE BootCompletes
  BY <1>23 DEF BootCompletes
<1>24. CASE Reboot
  BY <1>24 DEF Reboot, Boots, Goto
<1>25. CASE RecoveryBoot
  BY <1>25 DEF RecoveryBoot, Boots, Goto
<1>26. CASE PowerLoss
  BY <1>26 DEF PowerLoss, Boots, Fault, Goto
<1>27. CASE UNCHANGED vars
  BY <1>27 DEF vars, moving
<1> QED
  BY <1>1, <1>2, <1>3, <1>4, <1>5, <1>6, <1>7, <1>8, <1>9, <1>10, <1>11, <1>12, <1>13, <1>14,
     <1>15, <1>16, <1>17, <1>18, <1>19, <1>20, <1>21, <1>22, <1>23, <1>24, <1>25, <1>26,
     <1>27 DEF Next, workThread, Environment, Boot

\* The count stays in its range and is 0 on the way to recovery.
LEMMA CountStep ==
  ASSUME Numbers, RecoveryOK, CacheStays, CacheStays', CountOK, [Next]_vars
  PROVE  CountOK'
<1>0. UNCHANGED fragile
  BY Zenon DEF Next, vars
<1> USE <1>0, NumberConstants DEF Numbers, RecoveryOK, CacheStays, CountOK, CountIsZeroed, DataRoCount,
   NoCount, isRebooting, Writable, storage, device, thread, history
<1>1. CASE NotYetBooted
  BY <1>1 DEF NotYetBooted, Goto
<1>2. CASE SeesBootCompleted
  BY <1>2 DEF SeesBootCompleted, Goto
<1>3. CASE ResetCount
  BY <1>3 DEF ResetCount, Goto, SetDataRoCount
<1>4. CASE NoDataRo
  BY <1>4 DEF NoDataRo, Goto
<1>5. CASE NotifyDataRo
  BY <1>5 DEF NotifyDataRo, Goto
<1>6. CASE DataRoInBoot
  BY <1>6 DEF DataRoInBoot, Goto
<1>7. CASE SaveCount
  BY <1>7 DEF SaveCount, Goto, SetDataRoCount
<1>8. CASE doReboot
  BY <1>8 DEF doReboot, Goto
<1>9. CASE ZeroCount
  BY <1>9 DEF ZeroCount, Goto, SetDataRoCount
<1>10. CASE doRebootRecoveryTipDataro
  <2>1. CASE WriteCommand("command", "data_ro_wipe", "recoverData", "cache")
    BY <2>1 DEF WriteCommand, Goto
  <2>2. CASE SetRecovery("recoverData", "cache")
    BY <2>2 DEF SetRecovery, Goto
  <2> QED
    BY <1>10, <2>1, <2>2 DEF doRebootRecoveryTipDataro
<1>11. CASE NoCacheRo
  BY <1>11 DEF NoCacheRo, Goto
<1>12. CASE CacheBusy
  BY <1>12 DEF CacheBusy, Goto
<1>13. CASE FormatCache
  BY <1>13 DEF FormatCache, Goto
<1>14. CASE FormatFails
  BY <1>14 DEF FormatFails, Goto
<1>15. CASE NoSystemCheck
  BY <1>15 DEF NoSystemCheck, Goto
<1>16. CASE SystemCheck
  BY <1>16 DEF SystemCheck, Goto, checkSystemPartition
<1>17. CASE doRestoreSystem
  <2>1. CASE WriteCommand("restore", "restore_system", "recoverSystem", "check")
    BY <2>1 DEF WriteCommand, Goto
  <2>2. CASE SetRecovery("recoverSystem", "check")
    BY <2>2 DEF SetRecovery, Goto
  <2> QED
    BY <1>17, <2>1, <2>2 DEF doRestoreSystem
<1>18. CASE CheckRebooting
  BY <1>18 DEF CheckRebooting, Goto
<1>19. CASE DataGoesRo
  BY <1>19 DEF DataGoesRo, Fault
<1>20. CASE CacheGoesRo
  BY <1>20 DEF CacheGoesRo, Fault
<1>21. CASE SystemGoesBad
  BY <1>21 DEF SystemGoesBad, Fault
<1>22. CASE OtherReboot
  BY <1>22 DEF OtherReboot, Fault
<1>23. CASE BootCompletes
  BY <1>23 DEF BootCompletes
<1>24. CASE Reboot
  BY <1>24 DEF Reboot, Boots, Goto
<1>25. CASE RecoveryBoot
  BY <1>25 DEF RecoveryBoot, Boots, Goto
<1>26. CASE PowerLoss
  BY <1>26 DEF PowerLoss, Boots, Fault, Goto
<1>27. CASE UNCHANGED vars
  BY <1>27 DEF vars, moving
<1> QED
  BY <1>1, <1>2, <1>3, <1>4, <1>5, <1>6, <1>7, <1>8, <1>9, <1>10, <1>11, <1>12, <1>13, <1>14,
     <1>15, <1>16, <1>17, <1>18, <1>19, <1>20, <1>21, <1>22, <1>23, <1>24, <1>25, <1>26,
     <1>27 DEF Next, workThread, Environment, Boot

\* No step asks for a reboot that is not counted.
LEMMA RebootsStep ==
  ASSUME Numbers, RecoveryOK, CacheStays, CacheStays', CountOK, RebootsOK, [Next]_vars
  PROVE  RebootsOK'
<1>0. UNCHANGED fragile
  BY Zenon DEF Next, vars
<1> USE <1>0, NumberConstants, TimesNext DEF Numbers, RecoveryOK, CacheStays, CountOK, RebootsOK,
   CountIsZeroed, DataRoCount, NoCount, isRebooting, Writable, storage, device, thread, history
<1>1. CASE NotYetBooted
  BY <1>1 DEF NotYetBooted, Goto
<1>2. CASE SeesBootCompleted
  BY <1>2 DEF SeesBootCompleted, Goto
<1>3. CASE ResetCount
  BY <1>3 DEF ResetCount, Goto, SetDataRoCount
<1>4. CASE NoDataRo
  BY <1>4 DEF NoDataRo, Goto
<1>5. CASE NotifyDataRo
  BY <1>5 DEF NotifyDataRo, Goto
<1>6. CASE DataRoInBoot
  BY <1>6 DEF DataRoInBoot, Goto
<1>7. CASE SaveCount
  BY <1>7 DEF SaveCount, Goto, SetDataRoCount
<1>8. CASE doReboot
  BY <1>8 DEF doReboot, Goto
<1>9. CASE ZeroCount
  BY <1>9 DEF ZeroCount, Goto, SetDataRoCount
<1>10. CASE doRebootRecoveryTipDataro
  <2>1. CASE WriteCommand("command", "data_ro_wipe", "recoverData", "cache")
    BY <2>1 DEF WriteCommand, Goto
  <2>2. CASE SetRecovery("recoverData", "cache")
    BY <2>2 DEF SetRecovery, Goto
  <2> QED
    BY <1>10, <2>1, <2>2 DEF doRebootRecoveryTipDataro
<1>11. CASE NoCacheRo
  BY <1>11 DEF NoCacheRo, Goto
<1>12. CASE CacheBusy
  BY <1>12 DEF CacheBusy, Goto
<1>13. CASE FormatCache
  BY <1>13 DEF FormatCache, Goto
<1>14. CASE FormatFails
  BY <1>14 DEF FormatFails, Goto
<1>15. CASE NoSystemCheck
  BY <1>15 DEF NoSystemCheck, Goto
<1>16. CASE SystemCheck
  BY <1>16 DEF SystemCheck, Goto, checkSystemPartition
<1>17. CASE doRestoreSystem
  <2>1. CASE WriteCommand("restore", "restore_system", "recoverSystem", "check")
    BY <2>1 DEF WriteCommand, Goto
  <2>2. CASE SetRecovery("recoverSystem", "check")
    BY <2>2 DEF SetRecovery, Goto
  <2> QED
    BY <1>17, <2>1, <2>2 DEF doRestoreSystem
<1>18. CASE CheckRebooting
  BY <1>18 DEF CheckRebooting, Goto
<1>19. CASE DataGoesRo
  BY <1>19 DEF DataGoesRo, Fault
<1>20. CASE CacheGoesRo
  BY <1>20 DEF CacheGoesRo, Fault
<1>21. CASE SystemGoesBad
  BY <1>21 DEF SystemGoesBad, Fault
<1>22. CASE OtherReboot
  BY <1>22 DEF OtherReboot, Fault
<1>23. CASE BootCompletes
  BY <1>23 DEF BootCompletes
<1>24. CASE Reboot
  BY <1>24 DEF Reboot, Boots, Goto
<1>25. CASE RecoveryBoot
  BY <1>25 DEF RecoveryBoot, Boots, Goto
<1>26. CASE PowerLoss
  BY <1>26 DEF PowerLoss, Boots, Fault, Goto
<1>27. CASE UNCHANGED vars
  BY <1>27 DEF vars, moving
<1> QED
  BY <1>1, <1>2, <1>3, <1>4, <1>5, <1>6, <1>7, <1>8, <1>9, <1>10, <1>11, <1>12, <1>13, <1>14,
     <1>15, <1>16, <1>17, <1>18, <1>19, <1>20, <1>21, <1>22, <1>23, <1>24, <1>25, <1>26,
     <1>27 DEF Next, workThread, Environment, Boot

\* No step counts a boot twice.
LEMMA BootsStep ==
  ASSUME Numbers, RecoveryOK, CacheStays, CacheStays', CountOK, BootsOK, [Next]_vars
  PROVE  BootsOK'
<1>0. UNCHANGED fragile
  BY Zenon DEF Next, vars
<1> USE <1>0, NumberConstants DEF Numbers, RecoveryOK, CacheStays, CountOK, BootsOK, CountIsZeroed,
   DataRoCount, NoCount, isRebooting, Writable, storage, device, thread, history
<1>1. CASE NotYetBooted
  BY <1>1 DEF NotYetBooted, Goto
<1>2. CASE SeesBootCompleted
  BY <1>2 DEF SeesBootCompleted, Goto
<1>3. CASE ResetCount
  BY <1>3 DEF ResetCount, Goto, SetDataRoCount
<1>4. CASE NoDataRo
  BY <1>4 DEF NoDataRo, Goto
<1>5. CASE NotifyDataRo
  BY <1>5 DEF NotifyDataRo, Goto
<1>6. CASE DataRoInBoot
  BY <1>6 DEF DataRoInBoot, Goto
<1>7. CASE SaveCount
  BY <1>7 DEF SaveCount, Goto, SetDataRoCount
<1>8. CASE doReboot
  BY <1>8 DEF doReboot, Goto
<1>9. CASE ZeroCount
  BY <1>9 DEF ZeroCount, Goto, SetDataRoCount
<1>10. CASE doRebootRecoveryTipDataro
  <2>1. CASE WriteCommand("command", "data_ro_wipe", "recoverData", "cache")
    BY <2>1 DEF WriteCommand, Goto
  <2>2. CASE SetRecovery("recoverData", "cache")
    BY <2>2 DEF SetRecovery, Goto
  <2> QED
    BY <1>10, <2>1, <2>2 DEF doRebootRecoveryTipDataro
<1>11. CASE NoCacheRo
  BY <1>11 DEF NoCacheRo, Goto
<1>12. CASE CacheBusy
  BY <1>12 DEF CacheBusy, Goto
<1>13. CASE FormatCache
  BY <1>13 DEF FormatCache, Goto
<1>14. CASE FormatFails
  BY <1>14 DEF FormatFails, Goto
<1>15. CASE NoSystemCheck
  BY <1>15 DEF NoSystemCheck, Goto
<1>16. CASE SystemCheck
  BY <1>16 DEF SystemCheck, Goto, checkSystemPartition
<1>17. CASE doRestoreSystem
  <2>1. CASE WriteCommand("restore", "restore_system", "recoverSystem", "check")
    BY <2>1 DEF WriteCommand, Goto
  <2>2. CASE SetRecovery("recoverSystem", "check")
    BY <2>2 DEF SetRecovery, Goto
  <2> QED
    BY <1>17, <2>1, <2>2 DEF doRestoreSystem
<1>18. CASE CheckRebooting
  BY <1>18 DEF CheckRebooting, Goto
<1>19. CASE DataGoesRo
  BY <1>19 DEF DataGoesRo, Fault
<1>20. CASE CacheGoesRo
  BY <1>20 DEF CacheGoesRo, Fault
<1>21. CASE SystemGoesBad
  BY <1>21 DEF SystemGoesBad, Fault
<1>22. CASE OtherReboot
  BY <1>22 DEF OtherReboot, Fault
<1>23. CASE BootCompletes
  BY <1>23 DEF BootCompletes
<1>24. CASE Reboot
  BY <1>24 DEF Reboot, Boots, Goto
<1>25. CASE RecoveryBoot
  BY <1>25 DEF RecoveryBoot, Boots, Goto
<1>26. CASE PowerLoss
  BY <1>26 DEF PowerLoss, Boots, Fault, Goto
<1>27. CASE UNCHANGED vars
  BY <1>27 DEF vars, moving
<1> QED
  BY <1>1, <1>2, <1>3, <1>4, <1>5, <1>6, <1>7, <1>8, <1>9, <1>10, <1>11, <1>12, <1>13, <1>14,
     <1>15, <1>16, <1>17, <1>18, <1>19, <1>20, <1>21, <1>22, <1>23, <1>24, <1>25, <1>26,
     <1>27 DEF Next, workThread, Environment, Boot

-----------------------------------------------------------------------------
(* The theorems.                                                           *)

\* At every moment of every behaviour each variable has its type.
THEOREM TypeCorrect == Spec => []TypeOK
<1>1. Init => TypeOK
  <2> SUFFICES ASSUME Init PROVE Flags /\ Numbers
    BY TypeParts
  <2>1. Flags
    BY DEF Init, Flags
  <2>2. Numbers
    BY NumberConstants DEF Init, Numbers, NoCount, PCs
  <2> QED
    BY <2>1, <2>2
<1>2. TypeOK /\ [Next]_vars => TypeOK'
  <2> SUFFICES ASSUME TypeOK, [Next]_vars PROVE TypeOK'
    OBVIOUS
  <2>1. Flags /\ Numbers
    BY TypeParts
  <2>2. Flags' /\ Numbers'
    BY <2>1, FlagsStep, NumbersStep
  <2> QED
    BY <2>2 DEF TypeOK, Flags, Numbers
<1> QED
  BY <1>1, <1>2, PTL DEF Spec

\* RecoveryOK holds in every behaviour.
LEMMA RecoveryInvariant == Spec => []RecoveryOK
<1>1. Init => RecoveryOK
  BY DEF Init, RecoveryOK
<1>2. RecoveryOK /\ [Next]_vars => RecoveryOK'
  BY RecoveryStep
<1> QED
  BY <1>1, <1>2, PTL DEF Spec

\* A reboot into recovery finds a command, whatever happens to /cache.
THEOREM CommandFound == Spec => []RecoveryFindsCommand
<1>1. RecoveryOK => RecoveryFindsCommand
  BY DEF RecoveryOK, RecoveryFindsCommand
<1> QED
  BY <1>1, RecoveryInvariant, PTL

\* What is counted, when /cache has no faults.
IInv == Numbers /\ RecoveryOK /\ CacheStays /\ CountOK

LEMMA CountInvariant == ASSUME CacheIsSound PROVE Spec => []IInv
<1> USE DEF IInv
<1>1. Init => IInv
  <2> SUFFICES ASSUME Init PROVE IInv
    OBVIOUS
  <2>1. Numbers
    BY NumberConstants DEF Init, Numbers, NoCount, PCs
  <2>2. RecoveryOK /\ CacheStays
    BY DEF Init, RecoveryOK, CacheStays, CacheIsSound
  <2>3. CountOK
    BY NumberConstants DEF Init, CountOK, CountIsZeroed, DataRoCount, NoCount
  <2> QED
    BY <2>1, <2>2, <2>3
<1>2. IInv /\ [Next]_vars => IInv'
  <2> SUFFICES ASSUME IInv, [Next]_vars PROVE IInv'
    OBVIOUS
  <2>1. CacheStays'
    BY CacheStep
  <2> QED
    BY <2>1, NumbersStep, RecoveryStep, CountStep
<1> QED
  BY <1>1, <1>2, PTL DEF Spec

\* Without faults of /cache, the reboots that doReboot asks for are bounded by
\* the count it keeps there, whatever else happens to the device.
THEOREM RebootsBounded == ASSUME CacheIsSound PROVE Spec => []BoundedReboots
<1>1. Init => RebootsOK
  <2> SUFFICES ASSUME Init PROVE RebootsOK
    OBVIOUS
  <2>1. DataRoCount = 0 /\ ~CountIsZeroed
    BY DEF Init, DataRoCount, CountIsZeroed
  <2>2. reboots = 0 /\ lost = 0 /\ pc = "top" /\ MaxCount * lost \in Nat
    BY TimesNext DEF Init
  <2> QED
    BY <2>1, <2>2 DEF RebootsOK
<1>2. IInv /\ IInv' /\ RebootsOK /\ [Next]_vars => RebootsOK'
  BY RebootsStep DEF IInv
<1>3. IInv /\ RebootsOK => BoundedReboots
  <2> SUFFICES ASSUME IInv, RebootsOK PROVE BoundedReboots
    OBVIOUS
  <2>1. DataRoCount <= MaxCount /\ DataRoCount \in Nat
    BY DEF IInv, CountOK, Numbers, CacheStays, DataRoCount, NoCount
  <2>2. reboots <= MaxCount + MaxCount * lost
    BY <2>1, NumberConstants, TimesNext DEF IInv, Numbers, RebootsOK
  <2> QED
    BY <2>2, NumberConstants, TimesNext DEF IInv, Numbers, BoundedReboots
<1> QED
  BY <1>1, <1>2, <1>3, CountInvariant, PTL DEF Spec

\* Without faults of /cache, /data is only wiped after mDataRoCountMax boots
\* that did not complete.
THEOREM WipeLast == ASSUME CacheIsSound PROVE Spec => []WipeIsLastResort
<1>1. Init => BootsOK
  BY NumberConstants DEF Init, BootsOK, DataRoCount, isRebooting
<1>2. IInv /\ IInv' /\ BootsOK /\ [Next]_vars => BootsOK'
  BY BootsStep DEF IInv
<1>3. BootsOK => WipeIsLastResort
  BY DEF BootsOK, WipeIsLastResort
<1> QED
  BY <1>1, <1>2, <1>3, CountInvariant, PTL DEF Spec

\* While a reboot into recovery is under way the thread leaves its command and
\* the reboot alone.
THEOREM CommandUntouched == Spec => CommandStands
<1> DEFINE A == workThread /\ power = "reboot_recovery" => UNCHANGED <<cmd, power>>
<1>1. RecoveryOK /\ [Next]_vars => [A]_vars
  <2> SUFFICES ASSUME RecoveryOK, workThread, power = "reboot_recovery"
               PROVE  UNCHANGED <<cmd, power>>
    OBVIOUS
  <2>1. pc \in {"cache", "system", "check", "ended"} /\ isRebooting
    BY DEF RecoveryOK, isRebooting
  <2>2. NoCacheRo \/ NoSystemCheck \/ SystemCheck \/ CheckRebooting
    BY <2>1 DEF workThread, NotYetBooted, SeesBootCompleted, ResetCount, NoDataRo,
       NotifyDataRo, DataRoInBoot, SaveCount, doReboot, ZeroCount,
       doRebootRecoveryTipDataro, CacheBusy, FormatCache, FormatFails,
       doRestoreSystem, WriteCommand, SetRecovery
  <2> QED
    BY <2>2 DEF NoCacheRo, NoSystemCheck, SystemCheck, CheckRebooting, storage, device
<1> QED
  BY <1>1, RecoveryInvariant, PTL DEF Spec, CommandStands
=============================================================================
