-------------------------- MODULE FlashBootProofs --------------------------
(***************************************************************************)
(* Proofs about FlashBoot, for any number of images, releases, minutes,    *)
(* runs and faults.                                                        *)
(***************************************************************************)
EXTENDS FlashBoot, TLAPS

Flashing == {"push", "pushhash", "flash", "wait"}

\* Types alone are not inductive: what a restore writes to p3 is a file's
\* content only because the script names no backup that it has not opened.
FilesOK ==
  /\ \A m \in offered : backups[m] # NoFile
  /\ pc \in Flashing \cup {"stream", "hash"} => ts \in Minutes /\ backups[ts] # NoFile
  /\ pc = "restore" => from \in offered

\* The initial state is well typed: no backup has been named yet.
LEMMA TypeInit == Init => TypeOK /\ FilesOK
  BY BoundsAssumption, ImagesAssumption
     DEF Init, TypeOK, FilesOK, Flashing, Content, File, Minutes, Runs, PCs, Sessions

\* Every step keeps the types; one case per action.
LEMMA TypeStep ==
  TypeOK /\ FilesOK /\ [Next]_vars => TypeOK' /\ FilesOK'
<1> SUFFICES ASSUME TypeOK, FilesOK, [Next]_vars PROVE TypeOK' /\ FilesOK'
  OBVIOUS
<1> USE BoundsAssumption, ImagesAssumption DEF TypeOK, FilesOK, Flashing, lab, kept, board, history,
      Content, File, Minutes, Runs, PCs, Sessions, Alive
<1>1. CASE \E i \in Images : Start(i)
  BY <1>1 DEF Start, Fatal
<1>2. CASE CheckModules
  BY <1>2 DEF CheckModules, Check, Fatal
<1>3. CASE OpenBackup
  BY <1>3 DEF OpenBackup, OpenAs
<1>4. CASE StreamBackup
  BY <1>4 DEF StreamBackup
<1>5. CASE CheckBackup
  BY <1>5 DEF CheckBackup, Check, Fatal
<1>6. CASE Push
  BY <1>6 DEF Push
<1>7. CASE CheckPush
  BY <1>7 DEF CheckPush, Check, Fatal
<1>8. CASE SshFails
  BY <1>8 DEF SshFails, Fatal
<1>9. CASE StartFlash
  BY <1>9 DEF StartFlash
<1>10. CASE StartFlashFails
  BY <1>10 DEF StartFlashFails, FlashOver
<1>11. CASE FlashReturns
  BY <1>11 DEF FlashReturns, FlashOver, Ended, ExitStatus
<1>12. CASE Disconnect
  BY <1>12 DEF Disconnect, FlashOver
<1>13. CASE \E r \in Runs : DdBegin(r)
  BY <1>13 DEF DdBegin
<1>14. CASE \E r \in Runs : DdEnd(r)
  BY <1>14 DEF DdEnd
<1>15. CASE \E r \in Runs : Readback(r)
  BY <1>15 DEF Readback
<1>16. CASE \E r \in Runs : RemoteExit(r)
  BY <1>16 DEF RemoteExit
<1>17. CASE \E r \in Runs : Reboot(r)
  BY <1>17 DEF Reboot, Boots, KillAll
<1>18. CASE \E k \in Krels : StageModules(k)
  BY <1>18 DEF StageModules
<1>19. CASE \E k \in Krels : RemoveModules(k)
  BY <1>19 DEF RemoveModules
<1>20. CASE \E m \in Minutes : RestoreBegin(m)
  BY <1>20 DEF RestoreBegin
<1>21. CASE RestoreEnd
  BY <1>21 DEF RestoreEnd, Boots, KillAll
<1>22. CASE RestoreAborts
  BY <1>22 DEF RestoreAborts
<1>23. CASE PowerLoss
  BY <1>23 DEF PowerLoss, Boots, KillAll
<1>24. CASE Tick
  BY <1>24 DEF Tick
<1>25. CASE UNCHANGED vars
  BY <1>25 DEF vars
<1>26. QED
  BY <1>1, <1>2, <1>3, <1>4, <1>5, <1>6, <1>7, <1>8, <1>9, <1>10, <1>11,
     <1>12, <1>13, <1>14, <1>15, <1>16, <1>17, <1>18, <1>19, <1>20, <1>21,
     <1>22, <1>23, <1>24, <1>25
     DEF Next, Script, Remote, Operator

\* Every variable of the flash procedure keeps its type; in particular p3 and
\* what is restored to it are always file contents.
THEOREM TypeCorrect == Spec => []TypeOK
<1>1. Spec => [](TypeOK /\ FilesOK)
  BY TypeInit, TypeStep, PTL DEF Spec
<1>2. QED
  BY <1>1, PTL
-----------------------------------------------------------------------------
(* The safety of the procedure, for an operator who waits for the next     *)
(* minute and for the surviving remote shell before trying again.          *)

\* A shell that lives belongs to the current run, and the script is waiting
\* for it or has lost it and named the backup.
Shells ==
  /\ pc \notin {"idle", "restore"} => run \in Runs
  /\ pc = "wait" => want[run] = itb
  /\ \A r \in Runs : sess[r] \in Alive =>
       /\ r = run /\ want[r] = itb
       /\ pc = "wait" \/ (pc = "idle" /\ report = "flashfail" /\ ts \in offered)

\* The file a run opens is new: every backup is no younger than TS.
Stamps ==
  /\ ts \leq minute
  /\ pc \in {"modules", "backup"} => ts < minute
  /\ \A m \in Minutes : backups[m] # NoFile => m \leq ts
  /\ pc = "stream" => backups[ts] = Torn /\ ts \notin offered

\* From the hash check until dd starts, the backup is p3 as it is.
BackupCurrent ==
  pc \in {"push", "pushhash", "flash"} \/ (\E r \in Runs : sess[r] = "start")
    => backups[ts] = p3

\* What each state of a shell, or of a restore, says about p3 and the box.
Slot ==
  /\ \A r \in Runs : sess[r] = "verified" => p3 = want[r]
  /\ \A r \in Runs : sess[r] = "writing" => p3 = Torn
  /\ pc = "restore" => p3 = Torn
  /\ pc = "wait" /\ sess[run] = "rebooted" => p3 = itb /\ box = "up" /\ booted = itb

\* Pre-flight 1/3 stays true until the reboot.
ModulesHeld ==
  pc \in Flashing \cup {"backup", "stream", "hash"} \/ RemoteRuns
    => KrelOf[itb] \in modules

\* Once any backup was named, one of those named holds an image.
Good == \E m \in offered : backups[m] \in Images
GoodNamed ==
  /\ offered # {} => Good
  /\ p3 = Torn => Good \/ (pc = "wait" /\ backups[ts] \in Images)
  /\ pc \in Flashing /\ backups[ts] = Torn => Good

IInv == /\ TypeOK /\ FilesOK
        /\ Shells /\ Stamps /\ BackupCurrent /\ BackupBeforeEachFlash
        /\ Slot /\ ModulesHeld /\ GoodNamed

Careful == ~RetryInMinute /\ ~RetryWhileRemoteRuns

\* The inductive invariant holds before the first run.
LEMMA IInvInit == Init => IInv
  BY TypeInit, BoundsAssumption, ImagesAssumption
     DEF Init, IInv, Shells, Stamps, BackupCurrent, BackupBeforeEachFlash, Slot,
         ModulesHeld, GoodNamed, Good, RemoteRuns, Flashing, Alive, Minutes, Runs

\* No second shell: a run or a restore starts only when none lives.
LEMMA ShellsStep ==
  Careful /\ IInv /\ [Next]_vars => Shells'
<1> SUFFICES ASSUME Careful, IInv, [Next]_vars PROVE Shells'
  OBVIOUS
<1> USE BoundsAssumption, ImagesAssumption
      DEF Careful, IInv, TypeOK, FilesOK, Flashing, lab, kept, board, history, Content, File,
      Minutes, Runs, PCs, Sessions, Alive, RemoteRuns, Shells
<1>1. CASE \E i \in Images : Start(i)
  BY <1>1 DEF Start, Fatal
<1>2. CASE CheckModules
  BY <1>2 DEF CheckModules, Check, Fatal
<1>3. CASE OpenBackup
  BY <1>3 DEF OpenBackup, OpenAs
<1>4. CASE StreamBackup
  BY <1>4 DEF StreamBackup
<1>5. CASE CheckBackup
  BY <1>5 DEF CheckBackup, Check, Fatal
<1>6. CASE Push
  BY <1>6 DEF Push
<1>7. CASE CheckPush
  BY <1>7 DEF CheckPush, Check, Fatal
<1>8. CASE SshFails
  BY <1>8 DEF SshFails, Fatal
<1>9. CASE StartFlash
  BY <1>9 DEF StartFlash
<1>10. CASE StartFlashFails
  BY <1>10 DEF StartFlashFails, FlashOver
<1>11. CASE FlashReturns
  BY <1>11 DEF FlashReturns, FlashOver, Ended, ExitStatus
<1>12. CASE Disconnect
  BY <1>12 DEF Disconnect, FlashOver
<1>13. CASE \E r \in Runs : DdBegin(r)
  BY <1>13 DEF DdBegin
<1>14. CASE \E r \in Runs : DdEnd(r)
  BY <1>14 DEF DdEnd
<1>15. CASE \E r \in Runs : Readback(r)
  BY <1>15 DEF Readback
<1>16. CASE \E r \in Runs : RemoteExit(r)
  BY <1>16 DEF RemoteExit
<1>17. CASE \E r \in Runs : Reboot(r)
  BY <1>17 DEF Reboot, Boots, KillAll
<1>18. CASE \E k \in Krels : StageModules(k)
  BY <1>18 DEF StageModules
<1>19. CASE \E k \in Krels : RemoveModules(k)
  BY <1>19 DEF RemoveModules
<1>20. CASE \E m \in Minutes : RestoreBegin(m)
  BY <1>20 DEF RestoreBegin
<1>21. CASE RestoreEnd
  BY <1>21 DEF RestoreEnd, Boots, KillAll
<1>22. CASE RestoreAborts
  BY <1>22 DEF RestoreAborts
<1>23. CASE PowerLoss
  BY <1>23 DEF PowerLoss, Boots, KillAll
<1>24. CASE Tick
  BY <1>24 DEF Tick
<1>25. CASE UNCHANGED vars
  BY <1>25 DEF vars
<1>26. QED
  BY <1>1, <1>2, <1>3, <1>4, <1>5, <1>6, <1>7, <1>8, <1>9, <1>10, <1>11,
     <1>12, <1>13, <1>14, <1>15, <1>16, <1>17, <1>18, <1>19, <1>20, <1>21,
     <1>22, <1>23, <1>24, <1>25
     DEF Next, Script, Remote, Operator

\* Start waits for a minute after TS, so OpenBackup finds no file.
LEMMA StampsStep ==
  Careful /\ IInv /\ [Next]_vars => Stamps'
<1> SUFFICES ASSUME Careful, IInv, [Next]_vars PROVE Stamps'
  OBVIOUS
<1> USE BoundsAssumption, ImagesAssumption
      DEF Careful, IInv, TypeOK, FilesOK, Flashing, lab, kept, board, history, Content, File,
      Minutes, Runs, PCs, Sessions, Alive, RemoteRuns, Stamps
<1>1. CASE \E i \in Images : Start(i)
  BY <1>1 DEF Start, Fatal
<1>2. CASE CheckModules
  BY <1>2 DEF CheckModules, Check, Fatal
<1>3. CASE OpenBackup
  BY <1>3 DEF OpenBackup, OpenAs
<1>4. CASE StreamBackup
  BY <1>4 DEF StreamBackup
<1>5. CASE CheckBackup
  BY <1>5 DEF CheckBackup, Check, Fatal
<1>6. CASE Push
  BY <1>6 DEF Push
<1>7. CASE CheckPush
  BY <1>7 DEF CheckPush, Check, Fatal
<1>8. CASE SshFails
  BY <1>8 DEF SshFails, Fatal
<1>9. CASE StartFlash
  BY <1>9 DEF StartFlash
<1>10. CASE StartFlashFails
  BY <1>10 DEF StartFlashFails, FlashOver
<1>11. CASE FlashReturns
  BY <1>11 DEF FlashReturns, FlashOver, Ended, ExitStatus
<1>12. CASE Disconnect
  BY <1>12 DEF Disconnect, FlashOver
<1>13. CASE \E r \in Runs : DdBegin(r)
  BY <1>13 DEF DdBegin
<1>14. CASE \E r \in Runs : DdEnd(r)
  BY <1>14 DEF DdEnd
<1>15. CASE \E r \in Runs : Readback(r)
  BY <1>15 DEF Readback
<1>16. CASE \E r \in Runs : RemoteExit(r)
  BY <1>16 DEF RemoteExit
<1>17. CASE \E r \in Runs : Reboot(r)
  BY <1>17 DEF Reboot, Boots, KillAll
<1>18. CASE \E k \in Krels : StageModules(k)
  BY <1>18 DEF StageModules
<1>19. CASE \E k \in Krels : RemoveModules(k)
  BY <1>19 DEF RemoveModules
<1>20. CASE \E m \in Minutes : RestoreBegin(m)
  BY <1>20 DEF RestoreBegin
<1>21. CASE RestoreEnd
  BY <1>21 DEF RestoreEnd, Boots, KillAll
<1>22. CASE RestoreAborts
  BY <1>22 DEF RestoreAborts
<1>23. CASE PowerLoss
  BY <1>23 DEF PowerLoss, Boots, KillAll
<1>24. CASE Tick
  BY <1>24 DEF Tick
<1>25. CASE UNCHANGED vars
  BY <1>25 DEF vars
<1>26. QED
  BY <1>1, <1>2, <1>3, <1>4, <1>5, <1>6, <1>7, <1>8, <1>9, <1>10, <1>11,
     <1>12, <1>13, <1>14, <1>15, <1>16, <1>17, <1>18, <1>19, <1>20, <1>21,
     <1>22, <1>23, <1>24, <1>25
     DEF Next, Script, Remote, Operator

\* p3 only changes under a shell or a restore.
LEMMA BackupCurrentStep ==
  Careful /\ IInv /\ [Next]_vars => BackupCurrent'
<1> SUFFICES ASSUME Careful, IInv, [Next]_vars PROVE BackupCurrent'
  OBVIOUS
<1> USE BoundsAssumption, ImagesAssumption
      DEF Careful, IInv, TypeOK, FilesOK, Flashing, lab, kept, board, history, Content, File,
      Minutes, Runs, PCs, Sessions, Alive, RemoteRuns, BackupCurrent, Shells, Slot
<1>1. CASE \E i \in Images : Start(i)
  BY <1>1 DEF Start, Fatal
<1>2. CASE CheckModules
  BY <1>2 DEF CheckModules, Check, Fatal
<1>3. CASE OpenBackup
  BY <1>3 DEF OpenBackup, OpenAs
<1>4. CASE StreamBackup
  BY <1>4 DEF StreamBackup
<1>5. CASE CheckBackup
  BY <1>5 DEF CheckBackup, Check, Fatal
<1>6. CASE Push
  BY <1>6 DEF Push
<1>7. CASE CheckPush
  BY <1>7 DEF CheckPush, Check, Fatal
<1>8. CASE SshFails
  BY <1>8 DEF SshFails, Fatal
<1>9. CASE StartFlash
  BY <1>9 DEF StartFlash
<1>10. CASE StartFlashFails
  BY <1>10 DEF StartFlashFails, FlashOver
<1>11. CASE FlashReturns
  BY <1>11 DEF FlashReturns, FlashOver, Ended, ExitStatus
<1>12. CASE Disconnect
  BY <1>12 DEF Disconnect, FlashOver
<1>13. CASE \E r \in Runs : DdBegin(r)
  BY <1>13 DEF DdBegin
<1>14. CASE \E r \in Runs : DdEnd(r)
  BY <1>14 DEF DdEnd
<1>15. CASE \E r \in Runs : Readback(r)
  BY <1>15 DEF Readback
<1>16. CASE \E r \in Runs : RemoteExit(r)
  BY <1>16 DEF RemoteExit
<1>17. CASE \E r \in Runs : Reboot(r)
  BY <1>17 DEF Reboot, Boots, KillAll
<1>18. CASE \E k \in Krels : StageModules(k)
  BY <1>18 DEF StageModules
<1>19. CASE \E k \in Krels : RemoveModules(k)
  BY <1>19 DEF RemoveModules
<1>20. CASE \E m \in Minutes : RestoreBegin(m)
  BY <1>20 DEF RestoreBegin
<1>21. CASE RestoreEnd
  BY <1>21 DEF RestoreEnd, Boots, KillAll
<1>22. CASE RestoreAborts
  BY <1>22 DEF RestoreAborts
<1>23. CASE PowerLoss
  BY <1>23 DEF PowerLoss, Boots, KillAll
<1>24. CASE Tick
  BY <1>24 DEF Tick
<1>25. CASE UNCHANGED vars
  BY <1>25 DEF vars
<1>26. QED
  BY <1>1, <1>2, <1>3, <1>4, <1>5, <1>6, <1>7, <1>8, <1>9, <1>10, <1>11,
     <1>12, <1>13, <1>14, <1>15, <1>16, <1>17, <1>18, <1>19, <1>20, <1>21,
     <1>22, <1>23, <1>24, <1>25
     DEF Next, Script, Remote, Operator

\* No backup that matters is overwritten, and dd starts on a backed-up p3.
LEMMA BackupsStep ==
  Careful /\ IInv /\ [Next]_vars => BackupBeforeEachFlash'
<1> SUFFICES ASSUME Careful, IInv, [Next]_vars PROVE BackupBeforeEachFlash'
  OBVIOUS
<1> USE BoundsAssumption, ImagesAssumption
      DEF Careful, IInv, TypeOK, FilesOK, Flashing, lab, kept, board, history, Content, File,
      Minutes, Runs, PCs, Sessions, Alive, RemoteRuns, BackupBeforeEachFlash, BackupCurrent, Stamps, Shells
<1>1. CASE \E i \in Images : Start(i)
  BY <1>1 DEF Start, Fatal
<1>2. CASE CheckModules
  BY <1>2 DEF CheckModules, Check, Fatal
<1>3. CASE OpenBackup
  BY <1>3 DEF OpenBackup, OpenAs
<1>4. CASE StreamBackup
  BY <1>4 DEF StreamBackup
<1>5. CASE CheckBackup
  BY <1>5 DEF CheckBackup, Check, Fatal
<1>6. CASE Push
  BY <1>6 DEF Push
<1>7. CASE CheckPush
  BY <1>7 DEF CheckPush, Check, Fatal
<1>8. CASE SshFails
  BY <1>8 DEF SshFails, Fatal
<1>9. CASE StartFlash
  BY <1>9 DEF StartFlash
<1>10. CASE StartFlashFails
  BY <1>10 DEF StartFlashFails, FlashOver
<1>11. CASE FlashReturns
  BY <1>11 DEF FlashReturns, FlashOver, Ended, ExitStatus
<1>12. CASE Disconnect
  BY <1>12 DEF Disconnect, FlashOver
<1>13. CASE \E r \in Runs : DdBegin(r)
  BY <1>13 DEF DdBegin
<1>14. CASE \E r \in Runs : DdEnd(r)
  BY <1>14 DEF DdEnd
<1>15. CASE \E r \in Runs : Readback(r)
  BY <1>15 DEF Readback
<1>16. CASE \E r \in Runs : RemoteExit(r)
  BY <1>16 DEF RemoteExit
<1>17. CASE \E r \in Runs : Reboot(r)
  BY <1>17 DEF Reboot, Boots, KillAll
<1>18. CASE \E k \in Krels : StageModules(k)
  BY <1>18 DEF StageModules
<1>19. CASE \E k \in Krels : RemoveModules(k)
  BY <1>19 DEF RemoveModules
<1>20. CASE \E m \in Minutes : RestoreBegin(m)
  BY <1>20 DEF RestoreBegin
<1>21. CASE RestoreEnd
  BY <1>21 DEF RestoreEnd, Boots, KillAll
<1>22. CASE RestoreAborts
  BY <1>22 DEF RestoreAborts
<1>23. CASE PowerLoss
  BY <1>23 DEF PowerLoss, Boots, KillAll
<1>24. CASE Tick
  BY <1>24 DEF Tick
<1>25. CASE UNCHANGED vars
  BY <1>25 DEF vars
<1>26. QED
  BY <1>1, <1>2, <1>3, <1>4, <1>5, <1>6, <1>7, <1>8, <1>9, <1>10, <1>11,
     <1>12, <1>13, <1>14, <1>15, <1>16, <1>17, <1>18, <1>19, <1>20, <1>21,
     <1>22, <1>23, <1>24, <1>25
     DEF Next, Script, Remote, Operator

\* Only the one shell or the one restore writes p3.
LEMMA SlotStep ==
  Careful /\ IInv /\ [Next]_vars => Slot'
<1> SUFFICES ASSUME Careful, IInv, [Next]_vars PROVE Slot'
  OBVIOUS
<1> USE BoundsAssumption, ImagesAssumption
      DEF Careful, IInv, TypeOK, FilesOK, Flashing, lab, kept, board, history, Content, File,
      Minutes, Runs, PCs, Sessions, Alive, RemoteRuns, Slot, Shells
<1>1. CASE \E i \in Images : Start(i)
  BY <1>1 DEF Start, Fatal
<1>2. CASE CheckModules
  BY <1>2 DEF CheckModules, Check, Fatal
<1>3. CASE OpenBackup
  BY <1>3 DEF OpenBackup, OpenAs
<1>4. CASE StreamBackup
  BY <1>4 DEF StreamBackup
<1>5. CASE CheckBackup
  BY <1>5 DEF CheckBackup, Check, Fatal
<1>6. CASE Push
  BY <1>6 DEF Push
<1>7. CASE CheckPush
  BY <1>7 DEF CheckPush, Check, Fatal
<1>8. CASE SshFails
  BY <1>8 DEF SshFails, Fatal
<1>9. CASE StartFlash
  BY <1>9 DEF StartFlash
<1>10. CASE StartFlashFails
  BY <1>10 DEF StartFlashFails, FlashOver
<1>11. CASE FlashReturns
  BY <1>11 DEF FlashReturns, FlashOver, Ended, ExitStatus
<1>12. CASE Disconnect
  BY <1>12 DEF Disconnect, FlashOver
<1>13. CASE \E r \in Runs : DdBegin(r)
  BY <1>13 DEF DdBegin
<1>14. CASE \E r \in Runs : DdEnd(r)
  BY <1>14 DEF DdEnd
<1>15. CASE \E r \in Runs : Readback(r)
  BY <1>15 DEF Readback
<1>16. CASE \E r \in Runs : RemoteExit(r)
  BY <1>16 DEF RemoteExit
<1>17. CASE \E r \in Runs : Reboot(r)
  BY <1>17 DEF Reboot, Boots, KillAll
<1>18. CASE \E k \in Krels : StageModules(k)
  BY <1>18 DEF StageModules
<1>19. CASE \E k \in Krels : RemoveModules(k)
  BY <1>19 DEF RemoveModules
<1>20. CASE \E m \in Minutes : RestoreBegin(m)
  BY <1>20 DEF RestoreBegin
<1>21. CASE RestoreEnd
  BY <1>21 DEF RestoreEnd, Boots, KillAll
<1>22. CASE RestoreAborts
  BY <1>22 DEF RestoreAborts
<1>23. CASE PowerLoss
  BY <1>23 DEF PowerLoss, Boots, KillAll
<1>24. CASE Tick
  BY <1>24 DEF Tick
<1>25. CASE UNCHANGED vars
  BY <1>25 DEF vars
<1>26. QED
  BY <1>1, <1>2, <1>3, <1>4, <1>5, <1>6, <1>7, <1>8, <1>9, <1>10, <1>11,
     <1>12, <1>13, <1>14, <1>15, <1>16, <1>17, <1>18, <1>19, <1>20, <1>21,
     <1>22, <1>23, <1>24, <1>25
     DEF Next, Script, Remote, Operator

\* Modules are only removed after a run that reported success.
LEMMA ModulesHeldStep ==
  Careful /\ IInv /\ [Next]_vars => ModulesHeld'
<1> SUFFICES ASSUME Careful, IInv, [Next]_vars PROVE ModulesHeld'
  OBVIOUS
<1> USE BoundsAssumption, ImagesAssumption
      DEF Careful, IInv, TypeOK, FilesOK, Flashing, lab, kept, board, history, Content, File,
      Minutes, Runs, PCs, Sessions, Alive, RemoteRuns, ModulesHeld, Shells
<1>1. CASE \E i \in Images : Start(i)
  BY <1>1 DEF Start, Fatal
<1>2. CASE CheckModules
  BY <1>2 DEF CheckModules, Check, Fatal
<1>3. CASE OpenBackup
  BY <1>3 DEF OpenBackup, OpenAs
<1>4. CASE StreamBackup
  BY <1>4 DEF StreamBackup
<1>5. CASE CheckBackup
  BY <1>5 DEF CheckBackup, Check, Fatal
<1>6. CASE Push
  BY <1>6 DEF Push
<1>7. CASE CheckPush
  BY <1>7 DEF CheckPush, Check, Fatal
<1>8. CASE SshFails
  BY <1>8 DEF SshFails, Fatal
<1>9. CASE StartFlash
  BY <1>9 DEF StartFlash
<1>10. CASE StartFlashFails
  BY <1>10 DEF StartFlashFails, FlashOver
<1>11. CASE FlashReturns
  BY <1>11 DEF FlashReturns, FlashOver, Ended, ExitStatus
<1>12. CASE Disconnect
  BY <1>12 DEF Disconnect, FlashOver
<1>13. CASE \E r \in Runs : DdBegin(r)
  BY <1>13 DEF DdBegin
<1>14. CASE \E r \in Runs : DdEnd(r)
  BY <1>14 DEF DdEnd
<1>15. CASE \E r \in Runs : Readback(r)
  BY <1>15 DEF Readback
<1>16. CASE \E r \in Runs : RemoteExit(r)
  BY <1>16 DEF RemoteExit
<1>17. CASE \E r \in Runs : Reboot(r)
  BY <1>17 DEF Reboot, Boots, KillAll
<1>18. CASE \E k \in Krels : StageModules(k)
  BY <1>18 DEF StageModules
<1>19. CASE \E k \in Krels : RemoveModules(k)
  BY <1>19 DEF RemoveModules
<1>20. CASE \E m \in Minutes : RestoreBegin(m)
  BY <1>20 DEF RestoreBegin
<1>21. CASE RestoreEnd
  BY <1>21 DEF RestoreEnd, Boots, KillAll
<1>22. CASE RestoreAborts
  BY <1>22 DEF RestoreAborts
<1>23. CASE PowerLoss
  BY <1>23 DEF PowerLoss, Boots, KillAll
<1>24. CASE Tick
  BY <1>24 DEF Tick
<1>25. CASE UNCHANGED vars
  BY <1>25 DEF vars
<1>26. QED
  BY <1>1, <1>2, <1>3, <1>4, <1>5, <1>6, <1>7, <1>8, <1>9, <1>10, <1>11,
     <1>12, <1>13, <1>14, <1>15, <1>16, <1>17, <1>18, <1>19, <1>20, <1>21,
     <1>22, <1>23, <1>24, <1>25
     DEF Next, Script, Remote, Operator

\* A torn p3 is only backed up when a good backup was named before.
LEMMA GoodNamedStep ==
  Careful /\ IInv /\ [Next]_vars => GoodNamed'
<1> SUFFICES ASSUME Careful, IInv, [Next]_vars PROVE GoodNamed'
  OBVIOUS
<1> USE BoundsAssumption, ImagesAssumption
      DEF Careful, IInv, TypeOK, FilesOK, Flashing, lab, kept, board, history, Content, File,
      Minutes, Runs, PCs, Sessions, Alive, RemoteRuns, GoodNamed, Good, BackupCurrent, Slot, Stamps, Shells
<1>1. CASE \E i \in Images : Start(i)
  BY <1>1 DEF Start, Fatal
<1>2. CASE CheckModules
  BY <1>2 DEF CheckModules, Check, Fatal
<1>3. CASE OpenBackup
  BY <1>3 DEF OpenBackup, OpenAs
<1>4. CASE StreamBackup
  BY <1>4 DEF StreamBackup
<1>5. CASE CheckBackup
  BY <1>5 DEF CheckBackup, Check, Fatal
<1>6. CASE Push
  BY <1>6 DEF Push
<1>7. CASE CheckPush
  BY <1>7 DEF CheckPush, Check, Fatal
<1>8. CASE SshFails
  BY <1>8 DEF SshFails, Fatal
<1>9. CASE StartFlash
  BY <1>9 DEF StartFlash
<1>10. CASE StartFlashFails
  BY <1>10 DEF StartFlashFails, FlashOver
<1>11. CASE FlashReturns
  BY <1>11 DEF FlashReturns, FlashOver, Ended, ExitStatus
<1>12. CASE Disconnect
  BY <1>12 DEF Disconnect, FlashOver
<1>13. CASE \E r \in Runs : DdBegin(r)
  BY <1>13 DEF DdBegin
<1>14. CASE \E r \in Runs : DdEnd(r)
  BY <1>14 DEF DdEnd
<1>15. CASE \E r \in Runs : Readback(r)
  BY <1>15 DEF Readback
<1>16. CASE \E r \in Runs : RemoteExit(r)
  BY <1>16 DEF RemoteExit
<1>17. CASE \E r \in Runs : Reboot(r)
  BY <1>17 DEF Reboot, Boots, KillAll
<1>18. CASE \E k \in Krels : StageModules(k)
  BY <1>18 DEF StageModules
<1>19. CASE \E k \in Krels : RemoveModules(k)
  BY <1>19 DEF RemoveModules
<1>20. CASE \E m \in Minutes : RestoreBegin(m)
  BY <1>20 DEF RestoreBegin
<1>21. CASE RestoreEnd
  BY <1>21 DEF RestoreEnd, Boots, KillAll
<1>22. CASE RestoreAborts
  BY <1>22 DEF RestoreAborts
<1>23. CASE PowerLoss
  BY <1>23 DEF PowerLoss, Boots, KillAll
<1>24. CASE Tick
  BY <1>24 DEF Tick
<1>25. CASE UNCHANGED vars
  BY <1>25 DEF vars
<1>26. QED
  BY <1>1, <1>2, <1>3, <1>4, <1>5, <1>6, <1>7, <1>8, <1>9, <1>10, <1>11,
     <1>12, <1>13, <1>14, <1>15, <1>16, <1>17, <1>18, <1>19, <1>20, <1>21,
     <1>22, <1>23, <1>24, <1>25
     DEF Next, Script, Remote, Operator

\* The inductive invariant of the procedure under a careful operator.
THEOREM Inductive == ASSUME Careful PROVE Spec => []IInv
<1>1. IInv /\ [Next]_vars => IInv'
  BY Careful, TypeStep, ShellsStep, StampsStep, BackupCurrentStep, BackupsStep, SlotStep,
     ModulesHeldStep, GoodNamedStep DEF IInv
<1>2. QED
  BY <1>1, IInvInit, PTL DEF Spec

\* Every image that a flash overwrote is still in a backup on lab, if the
\* operator lets a minute pass between runs (TS has that resolution).
THEOREM BackupsSafe == ASSUME Careful PROVE Spec => []BackupBeforeEachFlash
<1>1. IInv => BackupBeforeEachFlash
  BY DEF IInv
<1>2. QED
  BY <1>1, Inductive, PTL

\* However a flash, a restore or the power fails, an intact backup has been
\* named, or is about to be, whenever p3 holds no image.
THEOREM AlwaysRecoverable == ASSUME Careful PROVE Spec => []Recoverable
<1>1. IInv => Recoverable
  BY DEF IInv, TypeOK, FilesOK, Flashing, GoodNamed, Good, Recoverable
<1>2. QED
  BY <1>1, Inductive, PTL

\* A reboot issued by the script's shell boots the image it was to install.
THEOREM RebootsIntoImage == ASSUME Careful PROVE Spec => NoScriptedBrick
<1> DEFINE A == \A r \in Runs : Reboot(r) => box' = "up" /\ booted' = want[r]
<1>1. IInv => A
  BY ImagesAssumption DEF IInv, TypeOK, Slot, Reboot, Boots
<1>2. QED
  BY <1>1, Inductive, PTL DEF NoScriptedBrick

\* ... and the modules of that image's release are on the box by then.
THEOREM RebootsWithModules == ASSUME Careful PROVE Spec => RebootHasModules
<1> DEFINE A == \A r \in Runs : Reboot(r) => p3 \in Images /\ KrelOf[p3] \in modules
<1>1. IInv => A
  <2> SUFFICES ASSUME IInv, NEW r \in Runs, Reboot(r)
               PROVE  p3 \in Images /\ KrelOf[p3] \in modules
    OBVIOUS
  <2>1. sess[r] = "verified" /\ sess[r] \in Alive
    BY DEF Reboot, Alive
  <2>2. p3 = itb
    BY <2>1 DEF IInv, Slot, Shells
  <2>3. KrelOf[itb] \in modules
    BY <2>1 DEF IInv, ModulesHeld, RemoteRuns
  <2>4. QED
    BY <2>2, <2>3 DEF IInv, TypeOK
<1>2. QED
  BY <1>1, Inductive, PTL DEF RebootHasModules

\* A run that reports success has left the box running its image.
THEOREM OkIsTrue == ASSUME Careful PROVE Spec => OkMeansBooted
<1> DEFINE A == report' = "ok" /\ report # "ok" => box = "up" /\ booted = itb
<1>1. IInv /\ [Next]_vars => A
  <2> SUFFICES ASSUME IInv, [Next]_vars, report' = "ok", report # "ok"
               PROVE  box = "up" /\ booted = itb
    OBVIOUS
  <2>1. FlashReturns
    BY DEF Next, Script, Remote, Operator, vars, lab, board, Fatal, Check, Start,
           CheckModules, OpenBackup, OpenAs, StreamBackup, CheckBackup, Push, CheckPush,
           SshFails, StartFlash, FlashOver, StartFlashFails, Disconnect, DdBegin, DdEnd, Readback, RemoteExit, Reboot,
           StageModules, RemoveModules, RestoreBegin, RestoreEnd, RestoreAborts,
           PowerLoss, Tick
  <2>2. pc = "wait" /\ sess[run] = "rebooted"
    BY <2>1 DEF FlashReturns, FlashOver, ExitStatus
  <2>3. QED
    BY <2>2 DEF IInv, Slot
<1>2. QED
  BY <1>1, Inductive, PTL DEF OkMeansBooted, Spec
-----------------------------------------------------------------------------
(* FlashBoot implements BootSlot.                                          *)

\* The value the refinement mapping gives to BootSlot's `saved'.
Saved == {i \in Images : \E m \in Minutes : backups[m] = i}

\* No step loses an image from the backups: OpenBackup truncates no file.
LEMMA SavedKept ==
  ASSUME Careful, IInv, [Next]_vars, ~StreamBackup
  PROVE  Saved' = Saved
<1> USE BoundsAssumption, ImagesAssumption DEF Minutes, lab, kept, Saved
<1>1. CASE OpenBackup
  <2>1. minute \in Minutes /\ backups[minute] = NoFile
    BY <1>1 DEF OpenBackup, OpenAs, IInv, TypeOK, Stamps
  <2>2. backups' = [backups EXCEPT ![minute] = Torn]
    BY <1>1 DEF OpenBackup, OpenAs
  <2>3. \A i \in Images, m \in Minutes : backups'[m] = i <=> backups[m] = i
    BY <2>1, <2>2 DEF IInv, TypeOK
  <2>4. QED
    BY <2>3
<1>2. CASE ~OpenBackup
  <2>1. backups' = backups
    BY <1>2 DEF Next, Script, Remote, Operator, vars, Check, Start, CheckModules, CheckBackup,
           Push, CheckPush, SshFails, StartFlash, FlashOver, StartFlashFails, FlashReturns,
           Disconnect, DdBegin, DdEnd, Readback, RemoteExit, Reboot, StageModules,
           RemoveModules, RestoreBegin, RestoreEnd, RestoreAborts, PowerLoss, Tick
  <2>2. QED
    BY <2>1
<1>3. QED
  BY <1>1, <1>2

\* Every step is a step of BootSlot, or leaves the partition and its saved
\* copies alone.
LEMMA RefinesStep ==
  ASSUME Careful, IInv, [Next]_vars
  PROVE  [Partition!Next]_(Partition!vars)
<1> USE BoundsAssumption, ImagesAssumption DEF Partition!Next, Partition!vars
<1>1. CASE StreamBackup
  <2>1. ts \in Minutes /\ backups[ts] = Torn /\ pc = "stream" /\ p3 \in Content
    BY <1>1 DEF StreamBackup, IInv, TypeOK, FilesOK, Stamps
  <2>2. backups' = [backups EXCEPT ![ts] = p3] /\ pc' = "hash" /\ UNCHANGED board
    BY <1>1 DEF StreamBackup
  <2>3. \A m \in Minutes : backups'[m] = IF m = ts THEN p3 ELSE backups[m]
    BY <2>1, <2>2 DEF IInv, TypeOK
  <2>4. Saved' = Saved \cup ({p3} \cap Images)
    BY <2>1, <2>3 DEF Saved
  <2>5. CASE p3 \in Images
    BY <2>1, <2>2, <2>4, <2>5 DEF Saved, board, Partition!Save
  <2>6. CASE p3 \notin Images
    BY <2>1, <2>2, <2>4, <2>6 DEF Saved, board
  <2>7. QED
    BY <2>5, <2>6
<1>2. CASE ~StreamBackup
  <2>1. Saved' = Saved
    BY <1>2, SavedKept
  <2> USE <2>1 DEF Saved
  <2>2. CASE \E r \in Runs : DdBegin(r)
    <3>1. PICK r \in Runs : DdBegin(r)
      BY <2>2
    <3>2. ts \in Minutes /\ pc # "restore" /\ pc' = pc
      BY <3>1 DEF DdBegin, lab, IInv, TypeOK, FilesOK, Shells, Alive, Flashing
    <3>3. backups[ts] = p3
      BY <3>1 DEF DdBegin, IInv, BackupCurrent
    <3>4. p3 \in Saved \cup {Torn} /\ Saved # {}
      BY <3>2, <3>3 DEF IInv, TypeOK, Content, GoodNamed, Good
    <3>5. QED
      BY <3>1, <3>2, <3>4 DEF DdBegin, Partition!Replace
  <2>3. CASE \E r \in Runs : DdEnd(r)
    <3>1. PICK r \in Runs : DdEnd(r)
      BY <2>3
    <3>2. p3 = Torn /\ pc # "restore" /\ pc' = pc
      BY <3>1 DEF DdEnd, lab, IInv, Slot, Shells, Alive
    <3>3. p3' \in Images \cup {Torn}
      BY <3>1 DEF DdEnd, IInv, TypeOK, Content, File
    <3>4. QED
      BY <3>1, <3>2, <3>3 DEF DdEnd, Partition!Written
  <2>4. CASE \E r \in Runs : Reboot(r)
    <3>1. pc # "restore" /\ pc' = pc
      BY <2>4 DEF Reboot, lab, IInv, Shells, Alive
    <3>2. QED
      BY <2>4, <3>1 DEF Reboot, Boots, Partition!Restarts, Partition!Restart
  <2>5. CASE \E m \in Minutes : RestoreBegin(m)
    <3>1. Saved # {}
      BY <2>5 DEF RestoreBegin, IInv, TypeOK, GoodNamed, Good
    <3>2. QED
      BY <2>5, <3>1 DEF RestoreBegin, Partition!RollBack
  <2>6. CASE RestoreEnd
    <3>1. from \in Minutes /\ backups[from] \in Saved \cup {Torn}
      BY <2>6 DEF RestoreEnd, IInv, TypeOK, FilesOK, File, Content
    <3>2. QED
      BY <2>6, <3>1 DEF RestoreEnd, Boots, Partition!RolledBack, Partition!Restart
  <2>7. CASE RestoreAborts
    BY <2>7 DEF RestoreAborts, board, Partition!GiveUp
  <2>8. CASE PowerLoss
    BY <2>8 DEF PowerLoss, Boots, Partition!Restarts, Partition!Restart
  <2>9. CASE Script
    <3>1. UNCHANGED <<p3, box, booted>>
      BY <2>9, <1>2 DEF Script, board, Check, CheckModules, OpenBackup, OpenAs, CheckBackup, Push,
            CheckPush, SshFails, StartFlash, StartFlashFails, FlashOver, FlashReturns, Disconnect
    <3>2. pc # "restore" /\ pc' # "restore"
      BY <2>9, <1>2 DEF Script, Check, Fatal, CheckModules, OpenBackup, OpenAs, CheckBackup, Push,
            CheckPush, SshFails, StartFlash, StartFlashFails, FlashOver, FlashReturns, Disconnect
    <3>3. QED
      BY <3>1, <3>2
  <2>10. CASE \E r \in Runs : Readback(r) \/ RemoteExit(r)
    BY <2>10 DEF Readback, RemoteExit, lab
  <2>11. CASE \E i \in Images : Start(i)
    BY <2>11 DEF Start, Fatal, board
  <2>12. CASE \E k \in Krels : StageModules(k) \/ RemoveModules(k)
    BY <2>12 DEF StageModules, RemoveModules, lab
  <2>13. CASE Tick
    BY <2>13 DEF Tick, board
  <2>14. CASE UNCHANGED vars
    BY <2>14 DEF vars
  <2>15. QED
    BY <2>2, <2>3, <2>4, <2>5, <2>6, <2>7, <2>8, <2>9, <2>10, <2>11, <2>12, <2>13, <2>14
       DEF Next, Remote, Operator
<1>3. QED
  BY <1>1, <1>2

\* Under a careful operator the script, its remote shells, the restores and
\* the power failures implement the abstract boot partition: replaced only
\* when saved, nothing saved ever lost, rolled back only to a saved image.
THEOREM Refinement == ASSUME Careful PROVE Spec => ImplementsBootSlot
<1>1. Init => Partition!Init
  BY ImagesAssumption DEF Init, Partition!Init
<1>2. IInv /\ [Next]_vars => [Partition!Next]_(Partition!vars)
  BY Careful, RefinesStep
<1>3. QED
  BY <1>1, <1>2, Inductive, PTL DEF Spec, ImplementsBootSlot, Partition!Spec
=============================================================================
