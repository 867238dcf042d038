------------------------------ MODULE FlashBoot ------------------------------
(***************************************************************************)
(* scripts/flash-boot.sh: replacing the FIT image in the boot partition    *)
(* (eMMC p3) of hub-11 from the build host `lab', over SSH.                *)
(*                                                                         *)
(* Three actors interleave: the script on lab, the remote shell it starts  *)
(* on the box for the FLASH step (which outlives a lost connection), and   *)
(* the operator who starts the script again or restores a backup.  Power   *)
(* may fail at any step.                                                   *)
(*                                                                         *)
(* Data is abstracted to identities: an image stands for its bytes and so  *)
(* for its sha256, and p3 is named by the image at its head (a shorter     *)
(* image leaves old bytes behind its end, which a FIT never refers to).    *)
(***************************************************************************)
EXTENDS Naturals

CONSTANTS
  Images,      \* the FIT images on lab, and the one p3 held at the start
  Krels,       \* kernel releases
  KrelOf,      \* the release in an image's file name hub11-boot-<krel>.itb
  OverCap,     \* the images of 64 MiB and more
  Factory,     \* what p3 held before the first flash
  Torn,        \* bytes that are no image: a write or a stream cut short
  NoFile,      \* no file at that path
  MaxMinute,   \* bound: minutes of lab's clock
  MaxRuns,     \* bound: executions of the script
  MaxFaults,   \* bound: power losses and interrupted restores
  RetryInMinute,        \* may the operator rerun within the same minute?
  RetryWhileRemoteRuns  \* ... while a remote shell of an earlier run lives?

Minutes == 1..MaxMinute
Runs == 1..MaxRuns

ASSUME BoundsAssumption ==
  /\ MaxMinute \in Nat \ {0}
  /\ MaxRuns \in Nat
  /\ MaxFaults \in Nat

ASSUME ImagesAssumption ==
  /\ KrelOf \in [Images -> Krels]
  /\ OverCap \subseteq Images
  /\ Factory \in Images
  /\ Torn \notin Images
  /\ NoFile \notin Images \cup {Torn}

ASSUME SwitchesAssumption ==
  /\ RetryInMinute \in BOOLEAN
  /\ RetryWhileRemoteRuns \in BOOLEAN

Content == Images \cup {Torn}
File == Content \cup {NoFile}

VARIABLES
  minute,    \* lab's clock at the resolution of TS (date -u +%Y%m%d-%H%M)
  backups,   \* lab: $BACKUP_DIR/backup-installed-boot-<minute>.fit
  offered,   \* the backups the script has named to the operator ($BK)
  pc,        \* the script's next command; "restore" is the operator's dd
  run,       \* the number of times the script was started
  itb,       \* $ITB of the current run
  ts,        \* $TS of the current run (0: none taken yet)
  report,    \* how the last run ended
  from,      \* the backup the operator is restoring, in pc "restore"
  p3,        \* box: content of /dev/mmcblk0p3
  upload,    \* box: /tmp/hub11-boot-<krel>.itb
  modules,   \* box: the releases with a /usr/lib/modules/<krel>/modules.dep
  box,       \* box: "up", or "down" when p3 holds nothing to boot
  booted,    \* box: the image the running kernel was booted from
  sess,      \* box: the remote shell of each run's FLASH step
  want,      \* the image whose hash that shell's command text carries
  faults,    \* number of faults so far
  replaced   \* history: the images a FLASH step has overwritten

lab == <<minute, backups, offered, pc, run, itb, ts, report, from>>
board == <<p3, upload, modules, box, booted, sess, want>>
kept == <<minute, backups, offered, run, itb, ts, from>>
history == <<faults, replaced>>
vars == <<minute, backups, offered, pc, run, itb, ts, report, from,
          p3, upload, modules, box, booted, sess, want, faults, replaced>>

PCs == {"idle", "modules", "backup", "stream", "hash", "push", "pushhash",
        "flash", "wait", "restore"}
Sessions == {"none", "start", "writing", "readback", "verified",
             "failed", "rebooted", "killed"}
Alive == {"start", "writing", "readback", "verified"}

TypeOK ==
  /\ minute \in Minutes
  /\ backups \in [Minutes -> File]
  /\ offered \subseteq Minutes
  /\ pc \in PCs
  /\ run \in 0..MaxRuns
  /\ itb \in Images
  /\ ts \in 0..MaxMinute
  /\ report \in {"none", "ok", "fatal", "flashfail"}
  /\ from \in Minutes
  /\ p3 \in Content
  /\ upload \in [Krels -> File]
  /\ modules \subseteq Krels
  /\ box \in {"up", "down"}
  /\ booted \in Images
  /\ sess \in [Runs -> Sessions]
  /\ want \in [Runs -> Images]
  /\ faults \in 0..MaxFaults
  /\ replaced \subseteq Images

Init ==
  /\ minute = 1
  /\ backups = [m \in Minutes |-> NoFile]
  /\ offered = {}
  /\ pc = "idle"
  /\ run = 0
  /\ itb = Factory
  /\ ts = 0
  /\ report = "none"
  /\ from = 1
  /\ p3 = Factory
  /\ upload = [k \in Krels |-> NoFile]
  /\ modules = {KrelOf[Factory]}
  /\ box = "up"
  /\ booted = Factory
  /\ sess = [r \in Runs |-> "none"]
  /\ want = [r \in Runs |-> Factory]
  /\ faults = 0
  /\ replaced = {}

-----------------------------------------------------------------------------
(* The script on lab.                                                      *)

RemoteRuns == \E r \in Runs : sess[r] \in Alive

\* "exit 1" in the pre-flight checks, and what set -e does when an ssh or an
\* scp of theirs fails.
Fatal ==
  /\ pc' = "idle"
  /\ report' = "fatal"

\* A check made over ssh: the script goes on or exits.
Check(here, passes, there) ==
  /\ pc = here
  /\ box = "up"
  /\ \/ passes /\ pc' = there /\ UNCHANGED report
     \/ ~passes /\ Fatal
  /\ UNCHANGED <<kept, board, history>>

\* The operator starts the script: it resolves the image and refuses one
\* that does not fit p3 (or is not there) before it touches anything.
Start(i) ==
  /\ pc = "idle"
  /\ run < MaxRuns
  /\ RetryInMinute \/ minute > ts
  /\ RetryWhileRemoteRuns \/ ~RemoteRuns
  /\ run' = run + 1
  /\ itb' = i
  /\ \/ i \in OverCap /\ Fatal
     \/ i \notin OverCap /\ pc' = "modules" /\ report' = "none"
  /\ UNCHANGED <<minute, backups, offered, ts, from, board, history>>

CheckModulesSkipped == Check("modules", TRUE, "backup")

\* PRE-FLIGHT 1/3: modules.dep of the image's release must be on the box.
CheckModules == Check("modules", KrelOf[itb] \in modules, "backup")

\* The shell's `> "$BK"' creates or truncates the file of minute m before
\* ssh sends its first byte.
OpenAs(m) ==
  /\ pc = "backup"
  /\ ts' = m
  /\ backups' = [backups EXCEPT ![m] = Torn]
  /\ pc' = "stream"
  /\ UNCHANGED <<minute, offered, run, itb, report, from, board, history>>

OpenBackupAhead == OpenAs(minute + 1)
OpenBackupOneName == OpenAs(1)

\* PRE-FLIGHT 2/3: take TS and open the backup of that name;
OpenBackup == OpenAs(minute)

\* ... stream p3 into it and check its size;
StreamBackup ==
  /\ pc = "stream"
  /\ box = "up"
  /\ backups' = [backups EXCEPT ![ts] = p3]
  /\ pc' = "hash"
  /\ UNCHANGED <<minute, offered, run, itb, ts, report, from, board, history>>

\* ... and compare its hash with the hash the box computes of p3.
CheckBackup == Check("hash", backups[ts] = p3, "push")

\* PRE-FLIGHT 3/3: copy the image to /tmp on the box ...
Push ==
  /\ pc = "push"
  /\ box = "up"
  /\ \E c \in {itb, Torn} : upload' = [upload EXCEPT ![KrelOf[itb]] = c]
  /\ pc' = "pushhash"
  /\ UNCHANGED <<kept, report, p3, modules, box, booted, sess, want, history>>

\* ... and compare hashes.
CheckPush == Check("pushhash", upload[KrelOf[itb]] = itb, "flash")

SshFailsIgnored ==
  /\ pc \in {"modules", "stream", "hash", "push", "pushhash"}
  /\ IF pc = "stream" THEN pc' = "push" /\ UNCHANGED report ELSE Fatal
  /\ UNCHANGED <<kept, board, history>>

\* A pre-flight ssh or scp fails: connection lost, or the box is down.
SshFails ==
  /\ pc \in {"modules", "stream", "hash", "push", "pushhash"}
  /\ Fatal
  /\ \/ UNCHANGED upload
     \/ /\ pc = "push"    \* scp leaves a partial file behind
        /\ upload' = [upload EXCEPT ![KrelOf[itb]] = Torn]
  /\ UNCHANGED <<kept, p3, modules, box, booted, sess, want, history>>

\* FLASH: start the remote shell; $ITB_SHA is part of its command text.
StartFlash ==
  /\ pc = "flash"
  /\ box = "up"
  /\ sess' = [sess EXCEPT ![run] = "start"]
  /\ want' = [want EXCEPT ![run] = itb]
  /\ pc' = "wait"
  /\ UNCHANGED <<kept, report, p3, upload, modules, box, booted, history>>

\* The FLASH step is over for the script: it names $BK to the operator, as
\* the backup of a failed step or as the way to roll back.
FlashOver(outcomes, named) ==
  /\ pc' = "idle"
  /\ report' \in outcomes
  /\ offered' = offered \cup named
  /\ UNCHANGED <<minute, backups, run, itb, ts, from, board, history>>

\* The ssh of the FLASH step could not be started at all.
StartFlashFails == pc = "flash" /\ FlashOver({"flashfail"}, {ts})

\* The connection is lost while the remote shell works: the script ends, the
\* shell keeps running until something of it fails (RemoteExit).
Disconnect == pc = "wait" /\ sess[run] \in Alive /\ FlashOver({"flashfail"}, {ts})

Ended == {"failed", "rebooted", "killed"}

\* A shell that issued the reboot may have its connection cut before its
\* exit status arrives, so that a good flash is reported failed.
ExitStatus == IF sess[run] = "rebooted" THEN {"ok", "flashfail"} ELSE {"flashfail"}

FlashReturnsUnchecked ==
  pc = "wait" /\ sess[run] \in Ended /\ FlashOver({"ok", "flashfail"}, {ts})
FlashReturnsOnReboot ==
  pc = "wait" /\ sess[run] = "rebooted" /\ FlashOver(ExitStatus, {ts})
FlashReturnsSilent ==
  pc = "wait" /\ sess[run] \in Ended /\ FlashOver(ExitStatus, {})

\* ssh returns after the remote shell has ended.
FlashReturns == pc = "wait" /\ sess[run] \in Ended /\ FlashOver(ExitStatus, {ts})

-----------------------------------------------------------------------------
(* The remote shell of run r (set -e).                                     *)

\* dd opens the upload and starts to overwrite p3.
DdBegin(r) ==
  /\ sess[r] = "start"
  /\ upload[KrelOf[want[r]]] # NoFile
  /\ p3' = Torn
  /\ replaced' = replaced \cup ({p3} \cap Images)
  /\ sess' = [sess EXCEPT ![r] = "writing"]
  /\ UNCHANGED <<lab, upload, modules, box, booted, want, faults>>

\* dd conv=fsync and sync return: p3 holds what dd read, unless the medium
\* silently kept something else.  An upload that another shell has unlinked
\* is still read through dd's descriptor.
DdEnd(r) ==
  /\ sess[r] = "writing"
  /\ p3' \in {Torn} \cup (LET f == upload[KrelOf[want[r]]]
                         IN  IF f = NoFile THEN {want[r]} ELSE {f})
  /\ sess' = [sess EXCEPT ![r] = "readback"]
  /\ UNCHANGED <<lab, upload, modules, box, booted, want, history>>

ReadbackSkipped(r) ==
  /\ sess[r] = "readback"
  /\ sess' = [sess EXCEPT ![r] = "verified"]
  /\ upload' = [upload EXCEPT ![KrelOf[want[r]]] = NoFile]
  /\ UNCHANGED <<lab, p3, modules, box, booted, want, history>>

\* p3 is read back and its hash compared before the upload is removed.
Readback(r) ==
  /\ sess[r] = "readback"
  /\ \/ /\ p3 = want[r]
        /\ sess' = [sess EXCEPT ![r] = "verified"]
        /\ upload' = [upload EXCEPT ![KrelOf[want[r]]] = NoFile]
     \/ /\ p3 # want[r]
        /\ sess' = [sess EXCEPT ![r] = "failed"]
        /\ UNCHANGED upload
  /\ UNCHANGED <<lab, p3, modules, box, booted, want, history>>

\* A command of the shell fails (I/O error, no upload, a write to the closed
\* connection) and set -e ends it.
RemoteExit(r) ==
  /\ sess[r] \in Alive
  /\ sess' = [sess EXCEPT ![r] = "failed"]
  /\ UNCHANGED <<lab, p3, upload, modules, box, booted, want, history>>

\* The box restarts with content c in p3: it comes up if c is an image.
\* Every process and everything in /tmp is gone.
Boots(c) ==
  /\ box' = IF c \in Images THEN "up" ELSE "down"
  /\ booted' = IF c \in Images THEN c ELSE booted
  /\ upload' = [k \in Krels |-> NoFile]

KillAll(s) == [r \in Runs |-> IF s[r] \in Alive THEN "killed" ELSE s[r]]

\* Three seconds later: sudo systemctl reboot, and what comes of it.
Reboot(r) ==
  /\ sess[r] = "verified"
  /\ Boots(p3)
  /\ sess' = KillAll([sess EXCEPT ![r] = "rebooted"])
  /\ UNCHANGED <<lab, p3, modules, want, history>>

-----------------------------------------------------------------------------
(* The operator and the environment.                                       *)

\* scripts/stage-modules.sh as this script sees it: modules.dep of a release
\* appears on the box.
StageModules(k) ==
  /\ box = "up"
  /\ modules' = modules \cup {k}
  /\ UNCHANGED <<lab, p3, upload, box, booted, sess, want, history>>

\* RUNBOOK, routine kernel update, step 5: drop an old release's modules
\* once the new kernel runs.
RemoveModules(k) ==
  /\ pc = "idle" /\ report = "ok"
  /\ box = "up" /\ booted = p3
  /\ k # KrelOf[booted]
  /\ modules' = modules \ {k}
  /\ UNCHANGED <<lab, p3, upload, box, booted, sess, want, history>>

\* The rollback the script prints: the operator starts to write backup m to
\* p3, over SSH when the box is up and through maskrom when it is not.
RestoreBegin(m) ==
  /\ pc = "idle"
  /\ RetryWhileRemoteRuns \/ ~RemoteRuns
  /\ m \in offered
  /\ pc' = "restore"
  /\ from' = m
  /\ p3' = Torn
  /\ UNCHANGED <<minute, backups, offered, run, itb, ts, report,
                 upload, modules, box, booted, sess, want, history>>

\* The write is complete and the box restarted.
RestoreEnd ==
  /\ pc = "restore"
  /\ pc' = "idle"
  /\ p3' = backups[from]
  /\ Boots(backups[from])
  /\ sess' = KillAll(sess)
  /\ UNCHANGED <<kept, report, modules, want, history>>

\* The restore's connection is lost half way; the old kernel still runs.
RestoreAborts ==
  /\ pc = "restore" /\ box = "up"
  /\ faults < MaxFaults
  /\ faults' = faults + 1
  /\ pc' = "idle"
  /\ UNCHANGED <<kept, report, board, replaced>>

\* Power fails and returns.
PowerLoss ==
  /\ box = "up" \/ pc = "restore"
  /\ faults < MaxFaults
  /\ faults' = faults + 1
  /\ Boots(p3)
  /\ sess' = KillAll(sess)
  /\ pc' = IF pc = "restore" THEN "idle" ELSE pc
  /\ UNCHANGED <<kept, report, p3, modules, want, replaced>>

Tick ==
  /\ minute < MaxMinute
  /\ minute' = minute + 1
  /\ UNCHANGED <<backups, offered, pc, run, itb, ts, report, from,
                 board, history>>

Script == CheckModules \/ OpenBackup \/ StreamBackup \/ CheckBackup \/ Push
          \/ CheckPush \/ SshFails \/ StartFlash \/ StartFlashFails
          \/ FlashReturns \/ Disconnect
Remote(r) == DdBegin(r) \/ DdEnd(r) \/ Readback(r) \/ RemoteExit(r) \/ Reboot(r)
Operator == \/ \E i \in Images : Start(i)
            \/ \E k \in Krels : StageModules(k) \/ RemoveModules(k)
            \/ \E m \in Minutes : RestoreBegin(m)
            \/ RestoreEnd
            \/ RestoreAborts

Next == \/ Script
        \/ \E r \in Runs : Remote(r)
        \/ Operator
        \/ PowerLoss
        \/ Tick

\* The steps the script and a remote shell take when nothing goes wrong, and
\* the failures they cannot escape: no box to talk to, no upload to read.
ScriptGoesOn == CheckModules \/ OpenBackup \/ StreamBackup \/ CheckBackup \/ Push
                \/ CheckPush \/ StartFlash \/ FlashReturns
                \/ (box = "down" /\ (SshFails \/ StartFlashFails))
RemoteGoesOn(r) == DdBegin(r) \/ DdEnd(r) \/ Readback(r) \/ Reboot(r)
                   \/ (upload[KrelOf[want[r]]] = NoFile /\ RemoteExit(r))

\* Commands return in the end (an ssh without a far end fails by TCP
\* keepalive); the operator completes the restore that is under way and,
\* with the box down, tries each backup.
Fairness ==
  /\ WF_vars(ScriptGoesOn)
  /\ \A r \in Runs : WF_vars(RemoteGoesOn(r))
  /\ WF_vars(RestoreEnd)
  /\ \A m \in Minutes : SF_vars(box = "down" /\ RestoreBegin(m))

Spec == Init /\ [][Next]_vars
FairSpec == Spec /\ Fairness

-----------------------------------------------------------------------------
(* Properties.                                                             *)

\* Every image a FLASH step has ever overwritten is still in a backup file
\* on lab: "backup-installed-boot-<ts>.fit: p3 before each flash".
BackupBeforeEachFlash ==
  \A i \in replaced : \E m \in Minutes : backups[m] = i

\* Whenever p3 holds no image, through a flash, a restore or a power loss,
\* the operator was told of a backup that does, or the running script still
\* has one to name.
Recoverable ==
  p3 = Torn => \E m \in Minutes :
                 /\ backups[m] \in Images
                 /\ m \in offered \/ (m = ts /\ pc = "wait")

\* A reboot the script issues brings up the very image that it was told to
\* install: "after dd it reads p3 back and compares the hash before
\* rebooting".
NoScriptedBrick ==
  [][\A r \in Runs : Reboot(r) => box' = "up" /\ booted' = want[r]]_vars

\* ... and that image finds its modules: PRE-FLIGHT 1/3 was made minutes
\* before the reboot and must still be true by then.
RebootHasModules ==
  [][\A r \in Runs : Reboot(r) => p3 \in Images /\ KrelOf[p3] \in modules]_vars

\* A run that reports success leaves the box running that run's image (once
\* the restart it ordered is through), however late its exit status arrives.
OkMeansBooted ==
  [][report' = "ok" /\ report # "ok" => box = "up" /\ booted = itb]_vars

\* The script, its remote shells, the operator and the power failures
\* together do nothing but what BootSlot allows the partition: it is
\* replaced only when saved, rolled back only to something saved, and every
\* step of the protocol over SSH is invisible in it.
Partition == INSTANCE BootSlot WITH
  slot <- p3, board <- box, running <- booted, rolling <- (pc = "restore"),
  saved <- {i \in Images : \E m \in Minutes : backups[m] = i}

ImplementsBootSlot == Partition!Spec

\* A started script, and a restore, always comes to an end: none of the
\* places where it waits for the box waits for ever.
RunEnds == pc # "idle" ~> pc = "idle"

\* A box that a flash or a restore left without an image comes up again: a
\* usable backup was named to the operator on every path that can brick it.
BrickRecovers == box = "down" ~> box = "up"
=============================================================================
