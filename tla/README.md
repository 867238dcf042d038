# hub-11: TLA+ models, checks and proofs

The repository builds, installs and repairs the software of one board, hub-11
(RK3588): a kernel FIT in eMMC partition p3, its modules and firmware, a Debian
root file system, and a rescue program for a root file system that no longer
boots.  There is one box, reached over SSH from the build host `lab`; its boot
partition is the only one, so a wrong order of steps costs a trip to the board
with a pin for the AV jack.  Its network is Wi-Fi, driven by a vendor driver that
the repository carries in `kernel-extra/`.  This directory models the parts
where the order of steps, failures between them and retries decide whether the
box survives, and the three protocols between that driver and its dongle on
which every request, every suspend and every frame depend.

## 1. Inventory

| part | source | state it keeps | operations | interacts with |
|---|---|---|---|---|
| flash-boot | `scripts/flash-boot.sh` | backups on lab, p3 and `/tmp` on the box, the remote shell | pre-flight 1-3, FLASH, rollback | modules staged earlier; the operator; the power supply |
| stage-modules | `scripts/stage-modules.sh` | `/tmp/modstage`, `/usr/lib/modules/<krel>`, `/usr/lib/firmware` | push, extract, copy, depmod | dist directory; checked by flash-boot |
| build-fit | `scripts/build-fit.sh`, `fit/hub11-boot.its` | `dist/<ts>-<krel>/`, `dist/latest` | assemble, size cap, publish | kernel-out; read by stage, flash and rootfs |
| build-kernel | `scripts/build-kernel.sh`, `configs/`, `patches/`, `dts/` | kernel tree, work branch, kernel-out | reset, git am, configure, make | read by build-fit |
| build-rootfs | `scripts/build-rootfs.sh`, `rootfs/hooks/` | work tree, bind mounts, rootfs-dist | debootstrap, hooks, leak gate, tar | dist; secrets |
| first-boot services | `rootfs/overlay/etc/systemd/system/` | host keys, k3s agent, Wi-Fi, mixer | one-shot units | the image |
| wlan1 access point | `rootfs/overlay-optional/wlan1-ap/` | the AP connection's channel and state | NetworkManager dispatcher | wlan0 |
| recovery-init | `recovery-init/recovery_init.c` | the root file system's `/lib`, `/lib_old`, `/usr/lib`, `/lib64` | mount, merge, relink, install linkers | eMMC p6, the operator, the power supply |
| RUNBOOK | `RUNBOOK.md` | what the operator knows | update, rollback, maskrom | all of the above |
| dhd_rk_platform | `kernel-extra/.../dhd_rk_platform.c` | the host-wake GPIO | probe once, IRQ queries | bcmdhd |
| bcmdhd, control requests | `dhd_msgbuf.c`, `dhd_common.c`, `dhd_pcie.c` | one pending request, its transaction id, the shared answer buffer, error flags | dhd_wl_ioctl, interrupt and DPC, timeouts, traps, dhd_bus_devreset | dongle; every other part of the driver |
| bcmdhd, suspend and resume | `dhd_pcie_linux.c`, `dhd_pcie.c`, `dhd_linux_tx.c`, `dhd_linux.c` | busy bits, bus state, low power state, wake lock | PM callbacks, D3_INFORM / D3_ACK, abort, transmit admission | PM core, PCI core, network stack, dongle |
| bcmdhd, flow rings | `dhd_flowring.c`, `dhd_pcie.c`, `dhd_msgbuf.c` | flow ids, hash, ring table, active list, queues | lookup, create, queue, schedule, delete | stations' events, network stack, dongle |
| bcmdhd, the rest | `kernel-extra/.../bcmdhd/` | - | - | vendor driver, third party |

What is hard in them: the remote shell of a flash outlives its connection;
power may fail in every write; names made from a clock of minutes collide;
checks are made long before they are relied on; a rescue run is cut and
repeated; a merge of trees must neither lose a file nor stop; error returns are
ignored.  In the driver: an answer arrives after its request was given up; a trap,
a power cycle and a waiting thread share three flags; a suspend and the threads
it must wait for are kept apart by bits that they share; an id is freed while
frames, requests and responses that name it are on the way.  `PROJECT.json` lists
the hazards that the models cover at their lines; section 4 names the others.

What makes each part correct:

* flash-boot: what a flash overwrites stays available; a torn p3 can always be
  restored from a backup the operator was told of; the script reboots only into
  the verified image, with modules; it reports success only then; it ends.
* recovery-init: no file is lost; the result is `/lib` over `/lib_old` over
  `/usr/lib`; power cuts change nothing about that; what the banner claims is
  true and durable; it ends.
* stage-modules: OK means this build's modules and firmware are there, and what
  was reported OK stays until its release is staged again; other releases are not
  harmed.  (It should also survive a power loss; it does not, section 4.)
* build-kernel, build-fit: what is reported built is the checked out revision; a
  published dist is complete, with matching sums, and is never altered; after a
  build-kernel that was OK it is one build's (after one that failed it need not
  be, section 4); an interrupted build can be repeated.
* control requests: a call gets its own answer or an error; nothing of a failed
  request reaches the next one; calls and power cycles end.
* suspend: no ioctl, dhd_sendpkt or dhd_start_xmit that was let onto the bus is
  still on it when it is suspended (the load balancing tasklet has no such
  protection, section 4); host and dongle agree when it is over,
  also when it was aborted; the wake lock is exact; nobody waits for ever.
* flow rings: no id is lost or given out twice; the dongle reads no memory that
  was given back; once all is quiet both sides have the same rings, and none for
  a station that is gone.
* build-rootfs (planned): no host mount survives into the next `rm -rf`; no
  host identity in the tarball.

## 2. Modules

| module | models |
|---|---|
| `FlashBoot` | flash-boot.sh, its remote shell, rollback, operator, power |
| `MCFlashBoot` | TLC instances of it |
| `FlashBootProofs` | inductive invariant and theorems about it |
| `BootSlot` | abstract specification: what the boot partition promises |
| `RecoveryInit` | recovery_init.c, the file system under it, the journal, power |
| `MCRecoveryInit` | TLC instances: sets of damaged file systems |
| `RecoveryInitProofs` | theorems about it |
| `StageModules` | stage-modules.sh, its remote shell, the flash that follows it, power |
| `MCStageModules` | TLC instances of it |
| `StageModulesProofs` | theorems about it |
| `BuildDist` | build-kernel.sh and build-fit.sh, the kernel tree, `$OUT`, the dist directories |
| `MCBuildDist` | TLC instances of it |
| `BuildDistProofs` | theorems about it |
| `MsgbufIoctl`, `MCMsgbufIoctl`, `MsgbufIoctlProofs` | bcmdhd: control requests over msgbuf, the DPC, power cycles |
| `BusPower`, `MCBusPower`, `BusPowerProofs` | bcmdhd: system suspend and resume against ioctl, transmit and DPC |
| `FlowRing`, `MCFlowRing`, `FlowRingProofs` | bcmdhd: the access point's flow rings |

### FlashBoot

State on lab: `backups` (the file of each minute), `minute` (the clock that
`TS` is read from), `pc`, `run`, `itb`, `ts`, `report`, `offered` (the backups
the script has printed), `from` (the backup being restored).  State on the box:
`p3`, `upload` (`/tmp/<name>`, one per release), `modules`, `box`, `booted`,
`sess` and `want` (the remote shells and the image whose hash each carries).
`replaced` is history.  An image stands for its bytes and its hash; `Torn`
stands for anything that is no image.

Each command of the script that changes or reads state is an action, in the
script's order: `Start` (resolve, size cap), `CheckModules`, `OpenBackup` (the
shell truncates the file before ssh runs), `StreamBackup`, `CheckBackup`,
`Push`, `CheckPush`, `StartFlash`, then the remote shell's `DdBegin`, `DdEnd`,
`Readback`, `Reboot`, and `FlashReturns`.  `SshFails` and `StartFlashFails` are
what `set -e` makes of a failed ssh or scp, `Disconnect` the loss of the
connection while the shell goes on, `RemoteExit` the shell's own `set -e`.  The
medium may keep something other than what dd wrote (that is what the readback
is for).  The operator starts runs, stages and removes modules as the RUNBOOK
says, and restores any backup the script named, over SSH or through maskrom.
`PowerLoss` kills all processes, empties `/tmp` and boots whatever p3 holds.

Two constants say what the operator does that the script does not enforce:
`RetryInMinute` (start again within the minute of the previous `TS`) and
`RetryWhileRemoteRuns` (start again or restore while the shell of a lost
connection still lives).  With both FALSE the properties hold and are proved;
each of them alone, set to TRUE, gives a counterexample (section 4).

`BootSlot` states the promise without the procedure: the partition is
overwritten only when what it holds is saved (or is torn already, and something
is saved), nothing saved is lost, a rollback writes something saved.
`ImplementsBootSlot` is the refinement mapping: `saved` is the set of images in
the backup files, `rolling` is the restore; every step over SSH that does not
write p3, save it or restart the box maps to a stuttering step.

Abstractions: an image with a sound FIT boots (a kernel that crashes later is
not told from a good one); two scripts at the same time on lab are not
modelled; staging modules is one step (its own steps are `StageModules`').

### RecoveryInit

`fs` is the mounted file system: the trees `/mnt/usr/lib`, `/mnt/lib_old` and
`/mnt/lib` as functions from paths to nodes, and what `/mnt/lib64` is.  `disk`
is what a power cut leaves.  Every system call that changes `fs` is a step.
`merge_dir`'s recursion is represented by the directory of the innermost call
(`cwd`) and the entries that the open calls have not processed (`todo`); its
order of entries is arbitrary, as getdents' is.  `renameat` succeeds exactly
when Linux lets it (file over file or nothing, directory over an empty
directory or nothing), or fails with an injected error; then `mkdirat` and the
recursion are tried as in the code.  `copy_file` is three steps, since a cut
between them leaves no linker or an empty one, and its writes may fail unseen.
`Commit` is a journal commit: metadata in order, data of files written since
the last sync possibly missing.  `Crash` cuts the power and boots the program
again, also after the banner.

A disk is any combination of three trees (`IsTree`: what exists is in a
directory) in which `/usr/lib` and `/lib_old` are not symbolic links; `/usr/lib`
may be a file, and then the `mkdirat` calls make nothing and no linker finds room.
`Overlay` is the reference that the merge is compared with, and `Clash` the
paths at or below which one tree has a directory where another has a file.
`CrashDisks` bounds the model and not the program: only boots from these disks
meet a journal commit and a power cut (the proofs allow any set of them).

Left out: permissions (`mkdirat` is called without its mode argument at lines
190 and 224-228), console output, `/usr/lib64`'s content, symbolic links to
directories inside the trees.

### StageModules

A build stands for a dist directory and for the content of its files; two
builds may share a release and with it a module directory.  `target` is
`/usr/lib/modules/<krel>/<file>`, `fw` the firmware, `unsynced` and `fwUnsynced`
what a power loss may cut short (the script does not sync).  `modules.dep` holds
the modules, with their content, that it was made for: the tarball's own index is
as good as depmod's, and depmod's covers whatever the directory holds.

Every run has a remote shell of its own, and those of lost connections live on
while the next run is under way: `scratch` is the run whose directory
`/tmp/modstage` is, so a shell finds its relative paths only while no later run
has removed it, and its final `rm -rf` may remove a later run's.  The script is
`Start`, `Push`, `Install`, `Returns`, the shell `Extract`, `Copy` (one file after
the other, in any order, `modules.dep` among them), `Depmod`, `Finish`;
`SshFails` loses the connection and not the shell, `RemoteExit` is `set -e` with a
file cut short.  `CheckModules` and `Reboot` are flash-boot.sh seen from here: its
module test and, as long after it as one likes, its sync and its reboot.  The
operator flashes whatever passes that test, and a power loss tells the operator
nothing: `ok` and `cut` are history, and no action looks at them.

Left out: two scripts at the same time on lab; the shell of a FLASH step that
outlives its connection (`FlashBoot` has it); a `rm -rf /tmp/modstage` is one step,
so a cp that reads the directory while another run's rm empties it fails in the
model, where it might also skip what is gone.

### BuildDist

A revision stands for all that the scripts read from the repository, and for the
content of what is built from it.  The kernel tree is `tree`, `dirty` and `am`
(the state directory of an interrupted git am), `$OUT` is `out` and `krel`, and
`dists` holds the files of every dist directory.  build-kernel.sh is
`StartKernel`, `CheckTree`, `ApplyPatches`, `Configure`, `Make` (products in any
order), `CheckKernel`; build-fit.sh is `StartFit`, `AssembleFile` for each file
in the script's order, `CheckSize`, `Publish`.  `KernelStepFails` and
`FitStepFails` end a script at any command; a make that fails leaves some products
of the old build and some of the new one, and a module directory that may be of
both (`Mixed`).  build-fit is started by itself or after any build-kernel, however
it ended: it only needs a kernel.release and a device tree, and stops at a product
that is not there (`Missing`).  `chained` is history: the dists made when the last
build-kernel had said OK, which is what the RUNBOOK's `&&` makes of them.  The
operator checks out revisions and edits the kernel tree between scripts.
`RetryInMinute` is as above.

Left out: which of the two board DTBs is packed (both come from one make),
whether make's own dependency tracking is right, and untracked files of the kernel
tree: neither `git diff` nor `checkout -B` (build-kernel.sh:32, 42) sees them, and
what lines 53-60 copied for one revision is still there for the next unless that
one overwrites it.

### MsgbufIoctl

Of bcmdhd, as the board's configuration builds it for PCIe.  The driver has one
control request at a time; `ioctl_state`, `ioctl_received`, `curr_ioctl_cmd`,
`ioctl_trans_id` and `retbuf` are dhd_prot_t's, `busstate` and the error flags
dhd_pub_t's (`trap` combines dongle_trap_data and dongle_trap_occured, which are
set one after the other).  A thread is dhd_wl_ioctl from the call to the return:
`Call`, `TakeSem`, `dhd_prot_ioctl`, `dhd_fillup_ioct_reqst`, then
dhd_msgbuf_wait_ioctl_cmplt as `EnterWait`, `Woken`, `FirstTimeout`,
`SecondTimeout` (a pending interrupt is worth a second wait), `Expired`, `Judge`,
`CopyOut`, `Out`, and `Leave`, which may raise a hang.  A step is one section
under the general or ring lock, or an unlocked read or write.  The DPC handles
an acknowledgement, a completion in its two halves (`dhd_prot_ioctcmplt_process`
under the lock, `Compare` and `dhd_wakeup_ioctl_event` after it) or a trap,
whose waiter is woken before the flag is set.  `Advertise` to `PowerOn` is
dhd_bus_devreset with dhd_net_bus_devreset around it.  The dongle (external)
acknowledges, answers, traps, or vanishes from the bus, whenever it likes.

Each request carries a serial number that the code does not have; it is what
the properties compare.  `DrainTimeout` keeps the code's numbers: the power
cycle waits one second longer than one ioctl timeout, so it can run out only on
a second wait that began after it.  Left out: payloads, iovars that the driver
answers itself, the suspend (the next module's).

### BusPower

`dhd_bus_busy_state` is the set of busy bits, `bus_low_power_state` and
`wait_for_d3_ack` the handshake with the dongle, `txoff` the stopped transmit
queues, `wakelock_counter`, `waive_wakelock`, `wakelock_before_waive` and
`wl_wifi` the wake lock.  The PM thread is `dhdpcie_pci_suspend`, `BusIdle` or
`SuspendTimeout`, the sections of dhdpcie_bus_suspend (`StopQueues`,
`SendD3Inform`, `AwaitD3Ack`, `CheckWakeLocks`, `Judge`, then `Abort`, `Late` or
`dhdpcie_suspend_dev`), `SuspendExit`, and the resume.  Against it run an ioctl
(one, since proto_sem admits one), dhd_start_xmit of each interface,
dhd_sendpkt, and the DPC with `dhd_bus_handle_d3_ack`.  The dongle acknowledges
D3 late or never; the PCI core may refuse either change of power state.  Waits
with a timeout end in either way at any time.

Left out: runtime PM and in-band device wake (not in this build), the throughput
test's and drop mode's early returns, the load balancing tasklet (see section 4), which sends a frame
after dhd_start_xmit has queued it and cleared IN_TX: the bits and the wake lock
are shown to protect dhd_start_xmit itself, not that tasklet.
dhd_bus_start_queue leaves the queues stopped while the transmit ring has no
room (dhd_pcie.c:6252-6264), and a completion starts them later; here they
always start.

### FlowRing

One access point interface and one priority, so that a flow is a station.
`fl_hash` is the chain of the interface, `idmap` the allocator's stack of free
ids, `node` flow_ring_table, `inited` the rings out of the pool,
`flowring_active_list` the list the DPC walks, `sta_list` the associated
stations, `h2d` and `d2h` the control rings.  A transmitting thread is
`dhd_flowid_find`, `CheckStatus` or `Admit`, `AllocId`, `InsertHash`, `InitNode`,
`CreateRequest`, `Undo`, then dhd_bus_txdata in four steps: `TxData`,
`TxStatus`, `TxSchedule`, `TxPend`, one per lock section.  The DPC is
`CreateResponse`, `Kick`, `DeleteResponse`, the three sections of
dhd_bus_clean_flow_ring (`CloseNode`, `CleanList`, `dhd_flowid_free`), `Assoc`,
`Disassoc`, `Link`, and the table scan `Scan`, `DeleteRequest`.  The dongle
(external) serves the submission ring in order, may refuse a create, refuses to
delete a ring it does not have, and reports stations and link.

Frames are counted, not told apart.  `missed` is history: stations whose delete
the code cannot deliver (the station leaves before its ring is asked for,
dhd_flowring.c:912; a lost link deletes open rings only, not one that is
being created, dhd_flowring.c:1221; the request finds no room, dhd_pcie.c:15255); the final
properties except exactly them.  Left out: the flush iovar, the station role
(its lookup is by priority alone) and the change of role
(dhd_flowring.c:1364-1368), multicast destinations, which are admitted without
the test for an association (dhd_flowring.c:912), the high-throughput allocator, TDLS, the
read and write indices of the rings.

## 3. Runs

| run | instance | checks |
|---|---|---|
| `flash_safety` | 4 images (factory, new, a rebuild with the same release, one too large), 2 releases, 3 minutes, 3 runs, 2 faults | `TypeOK`, `BackupBeforeEachFlash`, `Recoverable`, `NoScriptedBrick`, `RebootHasModules`, `OkMeansBooted`, `ImplementsBootSlot` |
| `flash_live` | 2 images, 2 minutes, 2 runs, 1 fault | `RunEnds`, `BrickRecovers` |
| `recovery` | about 2000 initial file systems, 1 failing call; 80 of them, one `/usr/lib` a file among them, with 2 cuts | `NoFileLost`, `MergeIsOverlay`, `RepairComplete`, `RepairSurvives`, `Terminates` |
| `stage_safety` | 3 builds (the running one; a new release; a rebuild of it with one module more), 2 runs, 1 power loss | `OkLasts`, `RunningKeepsModules`, `OkMeansStaged` |
| `dist_build` | 3 revisions of one release, one too large; 2 minutes, 1 failure, any number of runs | `PublishedValid`, `BuiltFromMeta`, `PublishedFixed`, `AmRecovers` |
| `ioctl` | 2 threads, 2 requests, a 2-bit transaction id that wraps, 1 power cycle | `OwnResponse`, `NeverBusy`, `CleanSlate`, `IoctlReturns`, `CleanupEnds` |
| `bus_power` | 2 interfaces, 2 suspends, 1 failure of the PCI core | `SuspendedQuiet`, `IoctlRings`, `WakeLockExact`, `DongleFollows`, `QueuesRunAgain`, `WaitsEnd` |
| `flow_ring` | 2 stations, 2 threads, 2 rings, 2 frames, 2 events, 1 fault; stations and threads are symmetric | `IdsConserved`, `CounterExact`, `DongleRingBacked`, `FreeIsClean`, `Settled`, `PeerGone` |

`flash_overlap`, `stage_unsynced`, `dist_standalone` and `flow_closed_empty` are
expected violations, see section 4.  Every module states its types as `TypeOK`: it is checked by
`flash_safety` and proved for all of them.

Bounds.  Three runs let a flash fail, the retry back up the torn partition and
fail again, and a third succeed or be rolled back; the third minute separates
their backups.  Two faults allow a power loss in the flash and another in the
restore.  The rebuild shares upload name and module directory with the new
image, which is where names stand in for content.  For the rescue program, the
paths form a chain of three directories (recursion, nested rmdir) and the
linkers' directory; two cuts suffice for a cut of the rerun.  The mount loop
has its real bound of 15.  In staging, two runs let the surviving shell of
the first meet the second, of the same build, of the other build of the release or
of another release, and let the second repeat what the first left unfinished; a
flash may come before, between and after them; in building, the two
minutes hold two published dists, and a failed run's directory is taken up again
within its minute.  Different releases never share a dist directory, so one
release is the hard case; a patch that does not apply and a release of the wrong
form end the script as a failure at that command does, and have no revision of
their own there.  The initramfs carries both linkers in all runs.  In the driver: two
requests are the failed one and the one after it, and the second thread waits for proto_sem while the first times out; two suspends let a
late D3_ACK of the first meet the second; two frames let two threads create a
ring for one station or use one ring while it is deleted, two events let a
station leave and return, or leave and the link fall; with three frames, or
three events, instead of two the run passes as well (five and four minutes).  All
runs but `dist_build` stop when the bounds are used up, hence no deadlock check
there.

Fairness.  `flash_live`: every script and shell step is a local command or an
ssh that returns or fails in the end (weak fairness; TCP keepalive is OpenSSH's
default; the fairness asks that the script and the shell go on in some way, and
never counts on a fault), the operator finishes a restore and, while the box is down, tries
every backup that was named (strong fairness for each, since an attempt with
another backup disables it for a while).  `recovery`: weak fairness of the
program, which is the only process.  `dist_build`: the scripts go on, and the
operator settles a refused tree and keeps running build-kernel.sh until it
succeeds (strong fairness, since other commands come in between).  `ioctl`: the kernel runs a thread, the tasklet and the power
cycle that have work to do, waits with a timeout end, and the semaphore is
served in order (strong fairness of `TakeSem`); the dongle, the interrupt and
callers owe nothing.  `bus_power`: whoever has begun a suspend, an ioctl or a
transmission is run to its end; nobody has to begin one, the PM core need not
resume and the dongle need not answer.  Faults and cuts are bounded, never fair.

## 4. Disagreements found

Kept as runs, each against a sentence of the repository:

1. `flash_overlap`: the connection drops during FLASH, the script says the step
   failed and names the backup, the operator restores it, and the surviving
   shell, its readback long verified, reboots the box in the middle of the
   restore.
2. `stage_unsynced`: a new build is staged and reported OK; the power fails before
   the kernel has written the files back, and a module or `modules.dep` is cut
   short.  flash-boot.sh's test finds `modules.dep` and the image is flashed and
   booted without its modules, although stage-modules.sh's header says that
   flash-boot.sh refuses otherwise.
3. `dist_standalone`: make fails half way through a second revision, and
   build-fit.sh, which only looks for kernel.release and the device tree, publishes
   the mixture under sums that match.  `README.md:29-30` gives the two commands
   on lines of their own, and build-fit.sh:4 a run by itself.
4. `flow_closed_empty`: in dhd_bus_txdata a frame that found the queue full is
   queued again without another look at the ring, which may have been deleted
   and its id freed: the queue of a closed ring is not empty, as
   dhd_flow_rings_deinit asserts, and the frame leaves with the id's next owner.

Also seen with the models, and not kept as runs:

* With `RetryInMinute` TRUE, `BackupBeforeEachFlash` fails: `TS` has minute
  resolution and `> "$BK"` truncates, so a flash that fails and is repeated
  within the minute overwrites the only copy of the old image with the torn
  partition, whose hash then matches.  `PublishedFixed` and
  `PublishedValid` fail in the same way: a build-fit.sh started in the minute of
  the last one rewrites the directory that `dist/latest` names.  The proofs assume the constant FALSE for this reason.
* flash-boot.sh:39 only looks for `modules.dep`, which the tarball contains and
  cp may copy first: after an interrupted staging, or one of another build of the
  release, it accepts a directory that lacks the image's modules.  An operator who
  flashes what was not reported OK is not protected, and no property says so.
* recovery_init's banner does not depend on its verification, and `copy_file`
  ignores failed writes: with a file in `/lib` where `/usr/lib` has a directory,
  or after a failed write, it claims what is not so.  `RepairComplete` states the
  conditions under which the banner is true.
* A comment at dhd_linux.c:15218 says the power cycle's wait is set so that
  ioctl timeouts are not affected; the second wait that dhd_msgbuf.c:9573 adds
  can outlast it, and dhd_prot_reset then empties the buffer that the thread
  copies from.  `OwnResponse` excepts exactly this (`overran`): the caller may get
  an empty answer, and never another request's.
* A transmission refused by a suspend stops the transmit queues of its own
  accord (dhd_linux_tx.c:623); if that suspend then fails early, nobody starts
  them before the next successful suspend has been resumed.  `QueuesRunAgain`
  says that only failed suspends do this.

Hazards of the code that no property covers, for a reader who changes it:

* Scripts: two operators flash or stage at the same time (nothing locks the box);
  a cp reads /tmp/modstage while another run's rm -rf empties it; untracked files
  of the kernel tree get into the next build (build-kernel.sh:32, 42, 53-60);
  staging a rebuild of the running release replaces the modules in use; META
  edited between build-kernel.sh and build-fit.sh; stage-modules.sh and
  flash-boot.sh each resolve `dist/latest`; `RC=$?` after make is never reached
  under `set -e` (build-kernel.sh:75); build-rootfs.sh:47 removes a tree that may
  still have the host's /dev mounted in it; the access point stays on its old
  channel when wlan0 comes up on a DFS one (50-hub11-ap:13); mkdirat gets no mode
  (recovery_init.c:224).
* Driver: the throughput test's and the drop mode's early returns in
  dhd_start_xmit skip the clearing of IN_TX (dhd_linux_tx.c:693); the load
  balancing tasklet sends after IN_TX was cleared (dhd_linux_lb.c:1405); the PCI
  core refuses a power state after busstate has changed (dhd_pcie.c:10146, 10323;
  `BusPower` reaches both states and the code has no way out of them); the limit
  on rings can be exceeded by the number of threads (dhd_flowring.c:899); a create
  that fails on the host leaves the flow dead (dhd_flowring.c:964); a frame tagged
  with an id may be queued after the id changed hands (dhd_linux_tx.c:389); the
  flush iovar's FLUSH_PENDING is not looked for by a disassociation
  (dhd_pcie.c:15316).

## 5. Proofs

Every safety property of every passing run is proved, for all values of the
constants that satisfy the named assumptions of its module.  In each component
one inductive invariant carries all theorems.  TLC has checked it too, on the
constants of the component's run (`RecoveryInit`'s with one power cut instead of
two); its proof has one lemma per action, or per part of the invariant with one case per action, and its
parts are what a reader of the code would say to explain why the property holds.

| module | theorem | property |
|---|---|---|
| `FlashBootProofs` | `TypeCorrect`, `BackupsSafe`, `AlwaysRecoverable`, `RebootsIntoImage`, `RebootsWithModules`, `OkIsTrue`, `Refinement` | `TypeOK`, `BackupBeforeEachFlash`, `Recoverable`, `NoScriptedBrick`, `RebootHasModules`, `OkMeansBooted`, `ImplementsBootSlot` |
| `RecoveryInitProofs` | `TypeCorrect`, `FilesKept`, `BannerIsSafe`, `Overlaid`, `Complete` | `TypeOK`, `NoFileLost`, `RepairSurvives`, `MergeIsOverlay`, `RepairComplete` |
| `StageModulesProofs` | `TypeCorrect`, `OkStaged`, `OkStays`, `RunningKept` | `TypeOK`, `OkMeansStaged`, `OkLasts`, `RunningKeepsModules` |
| `BuildDistProofs` | `TypeCorrect`, `KernelBuilt`, `DistFixed`, `DistValid` | `TypeOK`, `BuiltFromMeta`, `PublishedFixed`, `PublishedValid` |
| `MsgbufIoctlProofs` | `TypeCorrect`, `NoBusy`, `Own`, `Slate` | `TypeOK`, `NeverBusy`, `OwnResponse`, `CleanSlate` |
| `BusPowerProofs` | `TypeCorrect`, `Quiet`, `DoorbellRings`, `WakeLock`, `DongleAgrees`, `QueuesRun` | `TypeOK`, `SuspendedQuiet`, `IoctlRings`, `WakeLockExact`, `DongleFollows`, `QueuesRunAgain` |
| `FlowRingProofs` | `TypeCorrect`, `Conserved`, `Counter`, `Backed`, `Clean`, `Agreed`, `Gone` | `TypeOK`, `IdsConserved`, `CounterExact`, `DongleRingBacked`, `FreeIsClean`, `Settled`, `PeerGone` |

### FlashBoot

`FlashBootProofs` proves, for all values of the constants that satisfy the
assumptions in `FlashBoot` (bounds are naturals, `Torn` and `NoFile` are no
images, every image has a release):

* `TypeCorrect`: `Spec => []TypeOK`, whatever the operator does.  Types are not
  inductive alone: a restore writes `backups[from]`, which is a content only
  because the script names no file it has not opened (`FilesOK`).
* under `Careful` (both operator constants FALSE): `BackupsSafe`,
  `AlwaysRecoverable`, `RebootsIntoImage`, `RebootsWithModules`, `OkIsTrue`, the
  five safety properties of `flash_safety`.

They rest on one inductive invariant, `IInv`, whose parts say why the procedure
is safe: only the current run's shell can be alive, and the script is waiting
for it or has named the backup (`Shells`); the file a run opens is new
(`Stamps`); from the hash check to the first write the backup equals p3
(`BackupCurrent`); what each stage of the shell or of a restore says of p3
(`Slot`); the module check stays true (`ModulesHeld`); once any backup was named
one of those named is intact, so that backing up a torn p3 does no harm
(`GoodNamed`).  Each part has a lemma with one case per action.

`Refinement`, under `Careful` too: `Spec => ImplementsBootSlot`.  The mapped
initial state is one of BootSlot's; `SavedKept` shows that no step makes a saved
image disappear (a run opens a new file, by `Stamps`), and `RefinesStep` has one
case per action, which names the abstract step or shows that nothing visible
changes.  `BackupCurrent` gives the guard of `Replace` and `GoodNamed` that of
`RollBack`.

### RecoveryInit

Assumed: paths are sequences of names, with each path its prefixes; the trees
found are trees; `/usr/lib` and `/lib_old` are not symbolic links.  There is no
bound on the depth or the number of paths, on power cuts or on failing calls, and
the entries of a directory may come in any order, so the theorems say of
merge_dir's recursion what the runs say of three levels.

`Safe` carries `TypeCorrect`, `FilesKept` and `BannerIsSafe`, whatever fails.  Its
parts: the file systems stay trees, on the disk as well (`Sane`); no file was
lost yet (`Kept`); merge_dir's directories are open on both sides and each entry
it has yet to process exists, in a directory on the way to the innermost one
(`Walk`); the file that copy_file writes is there, and only new linkers are not on
the disk yet (`Writes`).  Without `Walk` a rename could put a file where no
directory leads to it; without `Writes` a journal commit could tear something
other than a linker.

`Overlaid` and `Complete` need to know how far the merge is, and `Flawless` says
so while no call has failed (`faults = 0`; faults never decrease, so this is
inductive).  `Sound` speaks of a file system alone and not of the program, and
therefore also of what a cut leaves for the next run: the trees only shrink and
`/usr/lib` has no directory that none of them had (`Shrunk`); at each path that
did not clash the trees do not clash now, and their overlay is the one of the
first run's trees (`Alike`); `/lib` is untouched until `/lib_old` is spent
(`InTurn`).  A rename moves a whole subtree from the merged tree to `/usr/lib` and
keeps the overlay: `/lib_old`'s entry covered `/usr/lib`'s before it replaces it,
and `/lib`'s entry is not covered afterwards because nothing of `/lib_old` is left
there.  `Covers` is the loop invariant of the recursion: what is left in the tree
is below an entry still to be processed, or is a directory of the open path or one
that clashed entries keep alive.  When the last call returns `Covers` becomes
`Spent`, and if nothing clashes every rmdir succeeds and the root is gone, which is
what `Links` needs for `/lib` to become a link again.  `Installed` follows the
three copies.  The proof goes through lemmas on prefixes, on what each system
call makes of a tree, and on what it makes of a file system, and then has two
lemmas per action, one for `Safe` and one for `Flawless`.

The proof corrected the reference: `Found` had counted on the `mkdirat` calls even
where `/usr/lib` is a file, a disk that the runs did not have and now do.

### StageModules

Nothing is assumed of the operator, of the number of surviving shells or of power
losses.  `Order` says which runs have a shell and whose the scratch directory can
be; `Staging`, what the last run's shell has put in place at each of its commands;
`Touched`, that whatever is written or not yet written back is of a release that
was staged since the boot.  `OkLasts` is not inductive without `Left`: a shell that
outlives its connection might still write to a release that was reported OK since.
It cannot, because the run that was reported OK has removed the scratch directory
such a shell copies from; `depmod` is all that it can still do, and that makes an
index of whatever is there.  `OkLasts` excepts releases that lost data with the
power (`cut`), which is the flaw that `stage_unsynced` shows and not an assumption
on the operator.

### BuildDist

`KernelBuilt` needs that from the check of the tree on the checked out revision
is `$META`'s (`Building`).  `Built` says that `$OUT` is one build's when the last
build-kernel was OK, and only then; `Assembled` what the directory holds after
each of build-fit's commands, whatever build its inputs are of.  So `DistValid`
gives every published dist whole files and matching sums, and one build's products
to those that were made after an OK; of the others the latter is false, as
`dist_standalone` shows.  `DistFixed` and
`DistValid` assume that build-fit is not started twice in a minute, the condition
whose absence section 4 describes; `Younger` is why that is enough: directories
are published in the order of their minutes and the one that is written is
younger than all of them.  `TypeCorrect` holds without that condition; it needs
`Contents`, which says what a directory's files may hold when a command read
others of them that are cut short.

### MsgbufIoctl

Assumed of the numbers: a modulus of at least 1 for the transaction id, so the
proof does not depend on the 16 bits of the driver, and any thresholds.  `Owner`
and `Awaited` say that `proto_sem` has one holder and that `ioctl_state` is only
set for a posted request.  `During` follows one request from the submission ring
through the dongle, the completion ring and the DPC to `retbuf`, or to the ways it
may be lost (trap, lost link, timeout); `Between` says what a call that lost its
request has left behind: an error or a hang that keeps the next call out.
`Resetting` says what `dhd_bus_devreset` has emptied at each of its steps.
`OwnResponse` is not inductive without them, because the transaction id alone
does not tell two requests apart once it wraps.

### BusPower

Assumed: finitely many interfaces.  The counter of the wake lock equals the
number of its holders, the cardinality of the set of interfaces that transmit plus
one for the ioctl (`LocksCounted`), and the lock follows its counter unless it is
waived (`LockFollows`).  `BitsExact` gives each busy bit but TX the thread it
stands for.  The TX bit has no such meaning, since the interfaces clear it for each
other; `Alone` shows that the suspend is safe all the same, because of the second
look at the wake lock.  `Handshake` and `QueuesHeld` speak of a dongle that has
answered in time: after `d3ack_timeout_occured` nothing more is promised, and the
three properties that need them say so.

### FlowRing

Assumed: finitely many stations and threads, and at least one ring.  `Core`
gives every flow id a `Life`: free; in the hands of the thread that makes the
ring; being cleaned by the DPC; left behind by a failed creation; or in use, and
then its creation is requested, answered, refused or listed, or its removal is on
the way, one at a time.  `Single` bounds what the control rings hold about an id
and orders an answer before a removal, so that a stale response cannot meet the
id's next owner.  `Makers`, `Stationed` and `Chains` tie threads, chain, node and
dongle together.  `Counted` needs them for the step that frees an id: a counter of
zero is not decremented, so one has to know that the chain's entry was counted.

`Settled` and `PeerGone` speak of quiet states, and hold there because of what
holds before: `JInv` says that an active ring whose station has left is `Doomed`
(its delete is behind its create in the submission ring, or at the dongle, or
answered) or `Ahead` of the scan that will find it, unless its station is one of
`missed`.  `Wanted` and `Hunt` say the same of the rings that are still being made
and of the one the DPC has in hand between its look at the node and the request.

### Only model-checked

Liveness (`RunEnds`, `BrickRecovers`, `Terminates`, `AmRecovers`, `IoctlReturns`,
`CleanupEnds` and `WaitsEnd`): fairness is out of the prover's reach.

## 6. Plan

Done: `FlashBoot`, `BootSlot`, `RecoveryInit`, `StageModules`, `BuildDist`,
`MsgbufIoctl`, `BusPower`, `FlowRing`, and the proofs about all of them.

1. `KernelUpdate`: build, staging and flashing composed as the RUNBOOK's routine
   update does, each step resolving `dist/latest` for itself.
2. Two scripts at the same time (two terminals) in `FlashBoot` and `StageModules`.
3. `BuildRootfs` (mounts, cleanup trap, interrupted builds, secrets gate), the
   access point's dispatcher, first-boot services, `dhd_rk_platform`.

Not modelled and not planned: the rest of bcmdhd.  Of the repository's 430,000
lines nearly all are this vendor driver: headers of the firmware interface, the
cfg80211 layer, SDIO and USB buses the board does not have, debugging and vendor
commands.  Its three protocols above are taken out because the board's operation
hangs on them and because they are where threads, tasklet, dongle and power
management meet; modelling a third of its lines is out of the question.  Device
trees, firmware and kernel configuration are data; verify-drivers.sh and
ci-build.sh are reports and straight-line builds without state of their own.
