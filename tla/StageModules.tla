---------------------------- MODULE StageModules ----------------------------
(***************************************************************************)
(* scripts/stage-modules.sh: bringing a dist's kernel modules and firmware *)
(* to the box before its FIT is flashed.                                   *)
(*                                                                         *)
(* A build stands for one dist directory and for the content of each of    *)
(* its module files; two builds may have the same kernel release, and then *)
(* share a module directory.  modules.dep is the set of the module files,  *)
(* each with its content, that it was made for.  The install step runs in  *)
(* a remote shell that copies one file at a time, outlives a lost          *)
(* connection and is followed by no sync; a later run removes /tmp/modstage*)
(* under it (rm -rf of that directory is one step).  The flash is          *)
(* scripts/flash-boot.sh seen from here: the test for modules.dep and,     *)
(* later, a sync and a reboot into the new image (its own steps are        *)
(* FlashBoot's).  One script runs at a time on lab.                        *)
(***************************************************************************)
EXTENDS Naturals

CONSTANTS
  Builds,     \* dist directories
  Krels,      \* kernel releases
  KrelOf,     \* KREL of each dist
  Mods,       \* names of module files
  ModsOf,     \* the module files in each dist's modules.tar.zst
  Running,    \* the build the box runs at the start, with all its modules
  NoFile, Torn,  \* no file; a file cut short
  MaxRuns,    \* bound: executions of the script
  MaxFaults   \* bound: power losses

Dep == "modules.dep"
Files == Mods \cup {Dep}
Runs == 1..MaxRuns
Indexes == SUBSET (Mods \X (Builds \cup {Torn}))
Contents(f) == {NoFile, Torn} \cup IF f = Dep THEN Indexes ELSE Builds

ASSUME StageAssumption ==
  /\ KrelOf \in [Builds -> Krels]
  /\ ModsOf \in [Builds -> SUBSET Mods]
  /\ Running \in Builds
  /\ Dep \notin Mods
  /\ NoFile \notin Builds /\ Torn \notin Builds /\ Torn # NoFile
  /\ \A i \in Indexes : i # NoFile /\ i # Torn
  /\ MaxRuns \in Nat /\ MaxFaults \in Nat

VARIABLES
  pc,        \* the next command of the script that runs
  run,       \* the number of the current or last run of stage-modules
  build,     \* $DISTDIR of each run
  report,    \* how the last run ended
  scratch,   \* the run whose directory /tmp/modstage is, 0 if there is none
  shell,     \* the next command of each run's remote shell
  todo,      \* the files its cp -a has still to copy
  target,    \* /usr/lib/modules/<krel>/<file>
  fw,        \* /usr/lib/firmware
  unsynced,  \* <<krel, file>> pairs whose data may be lost with the power
  fwUnsynced,\* the same for the firmware
  image,     \* the dist that flash-boot works with
  booted,    \* the build that runs
  ok,        \* history: builds reported OK, their release not staged since
  cut,       \* history: releases that lost data with the power since then
  touched,   \* history: the releases staged since the last boot, and the one
             \*   booted if it was incomplete then
  faults

vars == <<pc, run, build, report, scratch, shell, todo, target, fw, unsynced,
          fwUnsynced, image, booted, ok, cut, touched, faults>>
script == <<pc, run, build, report>>
remote == <<scratch, shell, todo>>
files == <<target, fw, unsynced, fwUnsynced>>
history == <<ok, cut, touched>>

PushSteps == {"prep", "pushmods", "pushfw", "install"}
ShellSteps == {"extract", "copy", "depmod", "firmware", "cleanup"}

TypeOK ==
  /\ pc \in {"idle", "wait", "flash"} \cup PushSteps
  /\ run \in 0..MaxRuns
  /\ build \in [Runs -> Builds]
  /\ report \in {"none", "ok", "failed"}
  /\ scratch \in 0..MaxRuns
  /\ shell \in [Runs -> ShellSteps \cup {"none", "exit0", "exit1"}]
  /\ todo \in [Runs -> SUBSET Files]
  /\ target \in [Krels -> [Files -> UNION {Contents(f) : f \in Files}]]
  /\ \A k \in Krels, f \in Files : target[k][f] \in Contents(f)
  /\ fw \in Builds \cup {Torn}
  /\ unsynced \subseteq Krels \X Files
  /\ fwUnsynced \in BOOLEAN
  /\ image \in Builds
  /\ booted \in Builds
  /\ ok \subseteq Builds
  /\ cut \subseteq Krels
  /\ touched \subseteq Krels
  /\ faults \in 0..MaxFaults

\* The index in the tarball of b, and the one depmod makes of a directory.
IndexOf(b) == ModsOf[b] \X {b}
IndexOver(dir) == {<<f, dir[f]>> : f \in {g \in Mods : dir[g] # NoFile}}

\* What the tarball of b has under the name f.
Packed(b, f) == IF f = Dep THEN IndexOf(b) ELSE b

Init ==
  /\ pc = "idle"
  /\ run = 0
  /\ build = [r \in Runs |-> Running]
  /\ report = "none"
  /\ scratch = 0
  /\ shell = [r \in Runs |-> "none"]
  /\ todo = [r \in Runs |-> {}]
  /\ target = [k \in Krels |-> [f \in Files |->
                IF k = KrelOf[Running] /\ f \in ModsOf[Running] \cup {Dep}
                THEN Packed(Running, f) ELSE NoFile]]
  /\ fw = Running
  /\ unsynced = {}
  /\ fwUnsynced = FALSE
  /\ image = Running
  /\ booted = Running
  /\ ok = {}
  /\ cut = {}
  /\ touched = {}
  /\ faults = 0

\* Every module of build b is in place, and in the index.
Complete(b) ==
  /\ \A f \in ModsOf[b] : target[KrelOf[b]][f] = b
  /\ target[KrelOf[b]][Dep] \notin {NoFile, Torn}
  /\ IndexOf(b) \subseteq target[KrelOf[b]][Dep]

KrelAt(r) == KrelOf[build[r]]

-----------------------------------------------------------------------------
(* The script on lab.                                                      *)

\* The dist is checked (KREL, tarball present and rooted at <krel>/): the
\* dists here are well formed.  A shell of an earlier run may still live.
Start(b) ==
  /\ pc = "idle"
  /\ run < MaxRuns
  /\ run' = run + 1
  /\ build' = [build EXCEPT ![run + 1] = b]
  /\ pc' = "prep"
  /\ report' = "none"
  /\ ok' = {c \in ok : KrelOf[c] # KrelOf[b]}
  /\ cut' = cut \ {KrelOf[b]}
  /\ touched' = touched \cup {KrelOf[b]}
  /\ UNCHANGED <<remote, files, image, booted, faults>>

\* rm -rf and mkdir of the scratch directory, whoever works in it; then the
\* two scp into it.
Push ==
  /\ \/ pc = "prep" /\ scratch' = run /\ pc' = "pushmods"
     \/ pc = "pushmods" /\ scratch = run /\ pc' = "pushfw" /\ UNCHANGED scratch
     \/ pc = "pushfw" /\ scratch = run /\ pc' = "install" /\ UNCHANGED scratch
  /\ UNCHANGED <<run, build, report, shell, todo, files, image, booted, history, faults>>

\* The remote shell is started and goes to the scratch directory.
Install ==
  /\ pc = "install"
  /\ scratch = run
  /\ shell' = [shell EXCEPT ![run] = "extract"]
  /\ pc' = "wait"
  /\ UNCHANGED <<run, build, report, scratch, todo, files, image, booted, history,
                 faults>>

\* An ssh or scp fails, or the connection of the install step is lost while
\* its shell goes on.  So may an ssh of flash-boot before its FLASH step, whose
\* own shell is FlashBoot's.
SshFails ==
  /\ pc # "idle"
  /\ pc' = "idle"
  /\ report' = IF pc = "flash" THEN report ELSE "failed"
  /\ UNCHANGED <<run, build, remote, files, image, booted, history, faults>>

ReturnsAlwaysOk ==
  /\ pc = "wait"
  /\ shell[run] \in {"exit0", "exit1"}
  /\ pc' = "idle"
  /\ report' = "ok"
  /\ ok' = ok \cup {build[run]}
  /\ UNCHANGED <<run, build, remote, files, image, booted, cut, touched, faults>>

\* The shell's exit status is the script's.
Returns ==
  /\ pc = "wait"
  /\ shell[run] \in {"exit0", "exit1"}
  /\ pc' = "idle"
  /\ report' = IF shell[run] = "exit0" THEN "ok" ELSE "failed"
  /\ ok' = IF shell[run] = "exit0" THEN ok \cup {build[run]} ELSE ok
  /\ UNCHANGED <<run, build, remote, files, image, booted, cut, touched, faults>>

-----------------------------------------------------------------------------
(* The remote shell of run r (set -e).  Relative paths lead to its scratch *)
(* directory, and nowhere once that was removed.                           *)

\* Unpack in the scratch directory; modules.dep must be there.
Extract(r) ==
  /\ shell[r] = "extract"
  /\ scratch = r
  /\ todo' = [todo EXCEPT ![r] = ModsOf[build[r]] \cup {Dep}]
  /\ shell' = [shell EXCEPT ![r] = "copy"]
  /\ UNCHANGED <<script, scratch, files, image, booted, history, faults>>

\* A file of the directory of r's release is written.
Write(r, f, v) ==
  /\ target' = [target EXCEPT ![KrelAt(r)][f] = v]
  /\ unsynced' = unsynced \cup {<<KrelAt(r), f>>}

CopyOwnScratch(r) ==
  /\ shell[r] = "copy"
  /\ \/ \E f \in todo[r] :
          /\ Write(r, f, Packed(build[r], f))
          /\ todo' = [todo EXCEPT ![r] = @ \ {f}]
          /\ UNCHANGED shell
     \/ /\ todo[r] = {}
        /\ shell' = [shell EXCEPT ![r] = "depmod"]
        /\ UNCHANGED <<target, todo, unsynced>>
  /\ UNCHANGED <<script, scratch, fw, fwUnsynced, image, booted, history, faults>>

CopyToRunning(r) ==
  /\ shell[r] = "copy"
  /\ \/ \E f \in todo[r] :
          /\ scratch = r
          /\ target' = [target EXCEPT ![KrelOf[booted]][f] = Packed(build[r], f)]
          /\ unsynced' = unsynced \cup {<<KrelOf[booted], f>>}
          /\ todo' = [todo EXCEPT ![r] = @ \ {f}]
          /\ UNCHANGED shell
     \/ /\ todo[r] = {}
        /\ shell' = [shell EXCEPT ![r] = "depmod"]
        /\ UNCHANGED <<target, todo, unsynced>>
  /\ UNCHANGED <<script, scratch, fw, fwUnsynced, image, booted, history, faults>>

\* cp -a, one file after the other, in any order, over what is there.
Copy(r) ==
  /\ shell[r] = "copy"
  /\ \/ \E f \in todo[r] :
          /\ scratch = r
          /\ Write(r, f, Packed(build[r], f))
          /\ todo' = [todo EXCEPT ![r] = @ \ {f}]
          /\ UNCHANGED shell
     \/ /\ todo[r] = {}
        /\ shell' = [shell EXCEPT ![r] = "depmod"]
        /\ UNCHANGED <<target, todo, unsynced>>
  /\ UNCHANGED <<script, scratch, fw, fwUnsynced, image, booted, history, faults>>

\* depmod -a replaces the index by one over every module file in the
\* directory, whoever put it there.
Depmod(r) ==
  /\ shell[r] = "depmod"
  /\ Write(r, Dep, IndexOver(target[KrelAt(r)]))
  /\ shell' = [shell EXCEPT ![r] = "firmware"]
  /\ UNCHANGED <<script, scratch, todo, fw, fwUnsynced, image, booted, history, faults>>

\* cp -r of the firmware, then rm -rf of /tmp/modstage by its name, which may
\* be a later run's directory.
Finish(r) ==
  /\ \/ /\ shell[r] = "firmware" /\ scratch = r
        /\ fw' = build[r] /\ fwUnsynced' = TRUE
        /\ shell' = [shell EXCEPT ![r] = "cleanup"]
        /\ UNCHANGED scratch
     \/ /\ shell[r] = "cleanup"
        /\ scratch' = 0
        /\ shell' = [shell EXCEPT ![r] = "exit0"]
        /\ UNCHANGED <<fw, fwUnsynced>>
  /\ UNCHANGED <<script, todo, target, unsynced, image, booted, history, faults>>

\* A command fails half way (disk full, sudo refused, EPIPE, the scratch
\* directory is gone): the file being copied, or the firmware, is cut short
\* and set -e ends the shell.
RemoteExit(r) ==
  /\ shell[r] \in ShellSteps
  /\ shell' = [shell EXCEPT ![r] = "exit1"]
  /\ \/ UNCHANGED files
     \/ /\ shell[r] = "copy" /\ scratch = r
        /\ \E f \in todo[r] : Write(r, f, Torn)
        /\ UNCHANGED <<fw, fwUnsynced>>
     \/ /\ shell[r] = "firmware" /\ scratch = r
        /\ fw' = Torn /\ fwUnsynced' = TRUE
        /\ UNCHANGED <<target, unsynced>>
  /\ todo' = [todo EXCEPT ![r] = {}]
  /\ UNCHANGED <<script, scratch, image, booted, history, faults>>

-----------------------------------------------------------------------------
(* The flash, the power supply and the kernel.                             *)

\* flash-boot.sh with dist b: refused unless modules.dep is there.
CheckModules(b) ==
  /\ pc = "idle"
  /\ target[KrelOf[b]][Dep] # NoFile
  /\ image' = b
  /\ pc' = "flash"
  /\ UNCHANGED <<run, build, report, remote, files, booted, history, faults>>

\* A restart ends all shells, and an exit status that has not arrived never
\* will; /tmp is emptied.
KillShells ==
  /\ shell' = [r \in Runs |-> IF shell[r] = "none" THEN "none" ELSE "exit1"]
  /\ todo' = [r \in Runs |-> {}]
  /\ scratch' = 0

\* p3 is written and verified: sync, then the reboot.
Reboot ==
  /\ pc = "flash"
  /\ pc' = "idle"
  /\ booted' = image
  /\ touched' = IF Complete(image) THEN {} ELSE {KrelOf[image]}
  /\ unsynced' = {}
  /\ fwUnsynced' = FALSE
  /\ KillShells
  /\ UNCHANGED <<run, build, report, target, fw, image, ok, cut, faults>>

\* Whatever was not written back may be cut short.  A script waits for an ssh
\* that fails; during a flash p3 has the old image or already the new one.
PowerLoss ==
  /\ faults < MaxFaults
  /\ faults' = faults + 1
  /\ \E lost \in SUBSET unsynced :
       /\ target' = [k \in Krels |-> [f \in Files |->
                       IF <<k, f>> \in lost THEN Torn ELSE target[k][f]]]
       /\ cut' = cut \cup {k \in Krels : \E f \in Files : <<k, f>> \in lost}
  /\ fw' \in IF fwUnsynced THEN {fw, Torn} ELSE {fw}
  /\ unsynced' = {}
  /\ fwUnsynced' = FALSE
  /\ KillShells
  /\ pc' = IF pc = "flash" THEN "idle" ELSE pc
  /\ booted' \in IF pc = "flash" THEN {booted, image} ELSE {booted}
  /\ touched' = touched \cup IF booted' # booted /\ ~Complete(image)
                             THEN {KrelOf[image]} ELSE {}
  /\ UNCHANGED <<run, build, report, image, ok>>

\* The kernel writes dirty data back by itself.
WriteBack ==
  /\ unsynced # {} \/ fwUnsynced
  /\ unsynced' = {}
  /\ fwUnsynced' = FALSE
  /\ UNCHANGED <<script, remote, target, fw, image, booted, history, faults>>

Script == Push \/ Install \/ SshFails \/ Returns
Remote(r) == Extract(r) \/ Copy(r) \/ Depmod(r) \/ Finish(r) \/ RemoteExit(r)
Next == \/ Script \/ Reboot \/ PowerLoss \/ WriteBack
        \/ \E r \in Runs : Remote(r)
        \/ \E b \in Builds : Start(b) \/ CheckModules(b)

Spec == Init /\ [][Next]_vars

-----------------------------------------------------------------------------
(* Properties.                                                             *)

\* When the script reports success the box has this very build's modules, an
\* index of them, and its firmware, whatever interrupted runs have left in the
\* same directories and whichever of their shells still live.
OkMeansStaged ==
  [][report' = "ok" /\ report # "ok"
       => Complete(build[run]) /\ fw = build[run]]_vars

\* What was reported OK stays in place until its release is staged again,
\* whatever the shells of lost connections still do and whatever is flashed;
\* but not through a power loss that comes before the kernel has written the
\* files back, since the script does not sync (FlashFindsModules).
OkLasts == \A b \in ok : KrelOf[b] \notin cut => Complete(b)

\* Staging other releases never harms the kernel that runs, which is what a
\* failed update leaves: a kernel that was booted with its modules keeps them,
\* at whatever moment a copy, a shell or the power fails.
RunningKeepsModules == KrelOf[booted] \notin touched => Complete(booted)

\* A build that was reported OK is booted with its modules in place: "install a
\* dist's kernel modules + firmware on hub-11 BEFORE flashing its FIT
\* (flash-boot.sh refuses otherwise)".
FlashFindsModules ==
  [][booted' # booted /\ booted' \in ok => Complete(booted')]_vars
=============================================================================
