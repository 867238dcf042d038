---------------------------- MODULE RecoveryInit ----------------------------
(***************************************************************************)
(* recovery-init/recovery_init.c: the rescue program that runs as PID 1    *)
(* from an initramfs, merges /lib_old and /lib of the root file system     *)
(* into /usr/lib, restores the UsrMerge symlinks and installs the dynamic  *)
(* linkers.                                                                *)
(*                                                                         *)
(* One action per system call that changes the mounted file system, so     *)
(* that a power cut can fall between any two of them.  ext4 commits its    *)
(* journal in order: the disk holds the file system as it was after some   *)
(* earlier call, except that the data of files written since the last      *)
(* sync may be missing (`torn').  The operator answers a power cut by      *)
(* booting the rescue program again.                                       *)
(*                                                                         *)
(* A tree maps paths (sequences of names) to nodes: a directory, or a file *)
(* named for the tree it came from.  Files stand for symbolic links inside *)
(* the trees too; a link to a directory inside a tree is out of scope.     *)
(***************************************************************************)
EXTENDS Naturals, Sequences, SequencesExt

CONSTANTS
  Paths,       \* a prefix-closed set of paths, <<>> being the tree's root
  Disks,       \* the file systems the rescue program may find
  CrashDisks,  \* bound: those of them on which the power is cut
  Payload,     \* the linkers that are in the initramfs
  MaxCrashes,  \* bound: power cuts
  MaxFaults    \* bound: rename and write calls that fail (ENOSPC, EIO)

LD == "ld-linux-aarch64.so.1"
LD231 == "ld-2.31.so"
A64 == <<"aarch64-linux-gnu">>
Modules == <<"modules">>

\* The three calls of copy_file in _start.
Copies == << [src |-> LD,    dst |-> Append(A64, LD)],
             [src |-> LD231, dst |-> Append(A64, LD231)],
             [src |-> LD,    dst |-> <<LD>>] >>
LinkerPaths == {Copies[j].dst : j \in 1..3}

MountTries == 15

Trees == {"usr", "old", "lib"}    \* /mnt/usr/lib, /mnt/lib_old, /mnt/lib
Files == {"usrfile", "oldfile", "libfile", "new", "torn"}
Nodes == Files \cup {"absent", "dir", "link"}
FileSystems == [usr : [Paths -> Nodes], old : [Paths -> Nodes],
                lib : [Paths -> Nodes],
                lib64 : {"absent", "link", "file", "empty", "full"}]

ASSUME PathsAssumption ==
  /\ Paths \subseteq Seq(STRING)
  /\ <<>> \in Paths
  /\ \A p \in Paths : \A n \in 0..Len(p) : SubSeq(p, 1, n) \in Paths
  /\ LinkerPaths \cup {A64, Modules} \subseteq Paths

\* A tree: directories lead to every node, and a symbolic link that is told
\* from a file is its root or one that an earlier rescue made for a linker.
IsTree(t) ==
  /\ \A p, q \in Paths : IsStrictPrefix(p, q) /\ t[q] # "absent" => t[p] = "dir"
  /\ \A p \in Paths \ LinkerPaths : t[p] = "link" => p = <<>>

ASSUME DisksAssumption ==
  \A d \in Disks : /\ d \in FileSystems
                   /\ \A t \in Trees : IsTree(d[t])
                   /\ "link" \notin {d.usr[<<>>], d.old[<<>>]}

ASSUME BoundsAssumption ==
  /\ CrashDisks \subseteq Disks
  /\ MaxCrashes \in Nat
  /\ MaxFaults \in Nat
  /\ Payload \subseteq {LD, LD231}

VARIABLES
  pc,       \* the next system call of _start, merge_dir or copy_file
  tries,    \* `retry' of the mount loop, 1 outside it
  fs,       \* the mounted file system, as system calls see it
  disk,     \* what a power cut leaves of it
  dirty,    \* paths of /usr/lib whose data is not on the disk yet
  src,      \* merge_dir: the tree that is merged
  cwd,      \* merge_dir: the directory of the innermost call
  todo,     \* merge_dir: entries the open calls have still to process
  k,        \* copy_file: which of the three calls
  verdict,  \* what the verification printed
  crashes, faults,
  orig      \* history: the file system the first run found

vars == <<pc, tries, fs, disk, dirty, src, cwd, todo, k, verdict,
          crashes, faults, orig>>

PCs == {"mount", "halted", "mkdirs", "openold", "merge", "rmdirsrc", "statlib",
        "unlinklib", "rmdirlib", "symlib", "unlink64", "rmdir64", "sym64",
        "unlink", "create", "write", "compat1", "compat2", "verify", "sync",
        "done"}

TypeOK ==
  /\ pc \in PCs
  /\ tries \in 1..MountTries
  /\ fs \in FileSystems /\ disk \in FileSystems /\ orig \in FileSystems
  /\ dirty \subseteq Paths
  /\ src \in {"old", "lib"}
  /\ cwd \in Paths
  /\ todo \subseteq Paths
  /\ k \in 1..3
  /\ verdict \in {"none", "success", "warning"}
  /\ crashes \in 0..MaxCrashes
  /\ faults \in 0..MaxFaults

Init ==
  /\ pc = "mount"
  /\ tries = 1
  /\ fs \in Disks
  /\ disk = fs
  /\ dirty = {}
  /\ src = "old"
  /\ cwd = <<>>
  /\ todo = {}
  /\ k = 1
  /\ verdict = "none"
  /\ crashes = 0
  /\ faults = 0
  /\ orig = fs

-----------------------------------------------------------------------------
(* File system calls.                                                      *)

Within(p) == {q \in Paths : IsPrefix(p, q)}
Children(t, p) == {q \in Within(p) : Len(q) = Len(p) + 1 /\ t[q] # "absent"}
IsDir(t, p) == t[p] = "dir"
IsEmpty(t, p) == Children(t, p) = {}

\* mkdirat, and O_CREAT and symlinkat with their node: nothing happens when
\* the name exists or its directory does not.
Made(t, p, node) ==
  IF t[p] = "absent" /\ (p = <<>> \/ IsDir(t, Front(p)))
  THEN [t EXCEPT ![p] = node] ELSE t

\* unlinkat without and with AT_REMOVEDIR.
Unlinked(t, p) == IF IsDir(t, p) THEN t ELSE [t EXCEPT ![p] = "absent"]
Rmdired(t, p) ==
  IF IsDir(t, p) /\ IsEmpty(t, p) THEN [t EXCEPT ![p] = "absent"] ELSE t

\* renameat of an entry to the same name: a file replaces a file, a
\* directory takes the place of an empty one, nothing else succeeds.
CanRename(from, to, p) ==
  /\ IsDir(to, <<>>)
  /\ IF IsDir(from, p) THEN to[p] = "absent" \/ (IsDir(to, p) /\ IsEmpty(to, p))
                       ELSE ~IsDir(to, p)
MovedTo(from, to, p) == [q \in Paths |-> IF q \in Within(p) THEN from[q] ELSE to[q]]
MovedFrom(from, p) == [q \in Paths |-> IF q \in Within(p) THEN "absent" ELSE from[q]]

Goto(label) == pc' = label
Frame == UNCHANGED <<disk, crashes, orig>>

-----------------------------------------------------------------------------
(* _start: mount, prepare.                                                 *)

MountForEver ==
  /\ pc = "mount"
  /\ \/ Goto("mkdirs") /\ tries' = 1
     \/ tries' = (tries % MountTries) + 1 /\ UNCHANGED pc
  /\ UNCHANGED <<fs, dirty, src, cwd, todo, k, verdict, faults>>
  /\ Frame

\* Up to 15 attempts one second apart, then the program halts.
Mount ==
  /\ pc = "mount"
  /\ \/ Goto("mkdirs") /\ tries' = 1
     \/ tries < MountTries /\ tries' = tries + 1 /\ UNCHANGED pc
     \/ tries = MountTries /\ Goto("halted") /\ tries' = 1
  /\ UNCHANGED <<fs, dirty, src, cwd, todo, k, verdict, faults>>
  /\ Frame

\* The mkdirat calls for /usr/lib and the two directories needed in it.
Mkdirs ==
  /\ pc = "mkdirs"
  /\ fs' = [fs EXCEPT !.usr = Made(Made(Made(@, <<>>, "dir"), A64, "dir"),
                                   Modules, "dir")]
  /\ Goto("openold")
  /\ UNCHANGED <<tries, dirty, src, cwd, todo, k, verdict, faults>>
  /\ Frame

\* merge_dir is entered at the root of a tree.
EnterMerge(tree) ==
  /\ src' = tree
  /\ cwd' = <<>>
  /\ todo' = Children(fs[tree], <<>>)
  /\ Goto("merge")

\* /lib_old is merged if it can be opened as a directory.
OpenOld ==
  /\ pc = "openold"
  /\ IF IsDir(fs.old, <<>>)
     THEN EnterMerge("old")
     ELSE Goto("statlib") /\ UNCHANGED <<src, cwd, todo>>
  /\ UNCHANGED <<tries, fs, dirty, k, verdict, faults>>
  /\ Frame

\* /lib is merged if it is a directory itself and no symbolic link.
StatLib ==
  /\ pc = "statlib"
  /\ IF IsDir(fs.lib, <<>>)
     THEN EnterMerge("lib")
     ELSE Goto("unlinklib") /\ UNCHANGED <<src, cwd, todo>>
  /\ UNCHANGED <<tries, fs, dirty, k, verdict, faults>>
  /\ Frame

-----------------------------------------------------------------------------
(* merge_dir.  Its recursion is kept as the directory of the innermost     *)
(* call and the set of entries that the open calls have not reached yet.   *)

RemoveAnything(t, p) == Unlinked(t, p)

\* unlinkat(AT_REMOVEDIR) of an entry that could not be moved: it fails on a
\* file and on a directory in which something is left.
RemoveLeftover(t, p) == Rmdired(t, p)

Pending(p) == {q \in todo : Len(q) = Len(p) + 1 /\ IsPrefix(p, q)}

\* The entry moves as a whole.
MoveEntry(p) ==
  /\ CanRename(fs[src], fs.usr, p)
  /\ fs' = [fs EXCEPT !.usr = MovedTo(fs[src], @, p),
                      ![src] = MovedFrom(@, p)]
  /\ todo' = todo \ {p}
  /\ UNCHANGED <<cwd, faults>>

\* The rename failed: if both sides are directories, now that mkdirat was
\* tried, the call recurses; if not, an empty source directory is removed
\* and everything else stays where it is.
MergeSubdir(p) ==
  \E usr \in {fs.usr, IF IsDir(fs.usr, <<>>) THEN Made(fs.usr, p, "dir") ELSE fs.usr} :
    /\ \/ ~CanRename(fs[src], fs.usr, p) /\ UNCHANGED faults
       \/ /\ CanRename(fs[src], fs.usr, p)    \* rename(2) failed with an error
          /\ faults < MaxFaults
          /\ faults' = faults + 1
    /\ IF IsDir(fs[src], p) /\ IsDir(usr, p)
       THEN /\ cwd' = p
            /\ todo' = (todo \ {p}) \cup Children(fs[src], p)
            /\ fs' = [fs EXCEPT !.usr = usr]
       ELSE /\ UNCHANGED cwd
            /\ todo' = todo \ {p}
            /\ fs' = [fs EXCEPT !.usr = usr, ![src] = RemoveLeftover(@, p)]

MergeEntry ==
  /\ pc = "merge"
  /\ \E p \in Pending(cwd) : MoveEntry(p) \/ MergeSubdir(p)
  /\ UNCHANGED <<pc, tries, dirty, src, k, verdict>>
  /\ Frame

MergeReturnBreak ==
  /\ pc = "merge"
  /\ Pending(cwd) = {}
  /\ IF cwd = <<>>
     THEN Goto("rmdirsrc") /\ UNCHANGED <<cwd, fs, todo>>
     ELSE /\ fs' = [fs EXCEPT ![src] = RemoveLeftover(@, cwd)]
          /\ cwd' = Front(cwd)
          /\ todo' = todo \ Pending(Front(cwd))
          /\ UNCHANGED pc
  /\ UNCHANGED <<tries, dirty, src, k, verdict, faults>>
  /\ Frame

\* The innermost call has seen every entry: its caller removes the directory
\* if it is empty by now and goes on.
MergeReturn ==
  /\ pc = "merge"
  /\ Pending(cwd) = {}
  /\ IF cwd = <<>>
     THEN Goto("rmdirsrc") /\ UNCHANGED <<cwd, fs>>
     ELSE /\ fs' = [fs EXCEPT ![src] = RemoveLeftover(@, cwd)]
          /\ cwd' = Front(cwd)
          /\ UNCHANGED pc
  /\ UNCHANGED <<tries, dirty, src, todo, k, verdict, faults>>
  /\ Frame

\* unlinkat(AT_REMOVEDIR) of /lib_old or /lib after its merge.
RmdirSrc ==
  /\ pc = "rmdirsrc"
  /\ fs' = [fs EXCEPT ![src] = Rmdired(@, <<>>)]
  /\ Goto(IF src = "old" THEN "statlib" ELSE "unlinklib")
  /\ UNCHANGED <<tries, dirty, src, cwd, todo, k, verdict, faults>>
  /\ Frame

-----------------------------------------------------------------------------
(* UsrMerge symlinks, linkers, verification.                               *)

\* unlink, rmdir and symlink of /lib.
RelinkLib ==
  /\ \/ pc = "unlinklib" /\ fs' = [fs EXCEPT !.lib = Unlinked(@, <<>>)] /\ Goto("rmdirlib")
     \/ pc = "rmdirlib" /\ fs' = [fs EXCEPT !.lib = Rmdired(@, <<>>)] /\ Goto("symlib")
     \/ pc = "symlib" /\ fs' = [fs EXCEPT !.lib = Made(@, <<>>, "link")] /\ Goto("unlink64")
  /\ UNCHANGED <<tries, dirty, src, cwd, todo, k, verdict, faults>>
  /\ Frame

\* ... and of /lib64.
RelinkLib64 ==
  /\ \/ /\ pc = "unlink64"
        /\ fs' = [fs EXCEPT !.lib64 = IF @ \in {"link", "file"} THEN "absent" ELSE @]
        /\ Goto("rmdir64")
     \/ /\ pc = "rmdir64"
        /\ fs' = [fs EXCEPT !.lib64 = IF @ = "empty" THEN "absent" ELSE @]
        /\ Goto("sym64")
     \/ /\ pc = "sym64"
        /\ fs' = [fs EXCEPT !.lib64 = IF @ = "absent" THEN "link" ELSE @]
        /\ Goto("unlink")
  /\ UNCHANGED <<tries, dirty, src, cwd, todo, k, verdict, faults>>
  /\ Frame

NextCopyShort ==
  IF k < 2 THEN k' = k + 1 /\ Goto("unlink") ELSE Goto("compat1") /\ UNCHANGED k

\* copy_file returns; _start calls the next one.
NextCopy ==
  IF k < 3 THEN k' = k + 1 /\ Goto("unlink") ELSE Goto("compat1") /\ UNCHANGED k

\* copy_file opens its source before it removes the old destination.
CopyUnlink ==
  /\ pc = "unlink"
  /\ IF Copies[k].src \in Payload
     THEN /\ fs' = [fs EXCEPT !.usr = Unlinked(@, Copies[k].dst)]
          /\ dirty' = dirty \ {Copies[k].dst}
          /\ Goto("create") /\ UNCHANGED k
     ELSE NextCopy /\ UNCHANGED <<fs, dirty>>
  /\ UNCHANGED <<tries, src, cwd, todo, verdict, faults>>
  /\ Frame

\* It creates the destination, empty, or gives up.
CopyCreate ==
  /\ pc = "create"
  /\ LET made == Made(fs.usr, Copies[k].dst, "torn")
     IN  IF made[Copies[k].dst] \in Files
         THEN fs' = [fs EXCEPT !.usr = made] /\ Goto("write") /\ UNCHANGED k
         ELSE NextCopy /\ UNCHANGED fs
  /\ UNCHANGED <<tries, dirty, src, cwd, todo, verdict, faults>>
  /\ Frame

\* The read and write loop; the results of write are not looked at.
CopyWrite ==
  /\ pc = "write"
  /\ \/ /\ fs' = [fs EXCEPT !.usr[Copies[k].dst] = "new"]
        /\ dirty' = dirty \cup {Copies[k].dst}
        /\ UNCHANGED faults
     \/ faults < MaxFaults /\ faults' = faults + 1 /\ UNCHANGED <<fs, dirty>>
  /\ NextCopy
  /\ UNCHANGED <<tries, src, cwd, todo, verdict>>
  /\ Frame

\* The symlinkat calls for linkers that are still missing.
Compat ==
  /\ \/ /\ pc = "compat1"
        /\ fs' = [fs EXCEPT !.usr = Made(@, Append(A64, LD231), "link")]
        /\ Goto("compat2")
     \/ /\ pc = "compat2"
        /\ fs' = [fs EXCEPT !.usr = Made(@, <<LD>>, "link")]
        /\ Goto("verify")
  /\ UNCHANGED <<tries, dirty, src, cwd, todo, k, verdict, faults>>
  /\ Frame

\* What opening /lib/ld-linux-aarch64.so.1 finds, through both symlinks.
Linker ==
  LET node == IF fs.lib[<<>>] = "link" THEN fs.usr[<<LD>>] ELSE fs.lib[<<LD>>]
  IN  IF node = "link" THEN fs.usr[Append(A64, LD)] ELSE node

\* The verification opens it read-only, which succeeds on a directory too.
Verify ==
  /\ pc = "verify"
  /\ verdict' = IF Linker = "absent" THEN "warning" ELSE "success"
  /\ Goto("sync")
  /\ UNCHANGED <<tries, fs, dirty, src, cwd, todo, k, faults>>
  /\ Frame

SyncForgotten ==
  /\ pc = "sync"
  /\ Goto("done")
  /\ UNCHANGED <<tries, fs, disk, dirty, src, cwd, todo, k, verdict, crashes, faults, orig>>

\* sync, umount, sync, then the final banner.
SyncUnmount ==
  /\ pc = "sync"
  /\ disk' = fs
  /\ dirty' = {}
  /\ Goto("done")
  /\ UNCHANGED <<tries, fs, src, cwd, todo, k, verdict, crashes, faults, orig>>

-----------------------------------------------------------------------------
(* The journal and the power supply.                                       *)

\* ext4 commits: every call so far is on the disk, the data of new files
\* perhaps.
Commit ==
  /\ pc \notin {"mount", "halted", "done"}
  /\ orig \in CrashDisks /\ MaxCrashes > crashes
  /\ \E lost \in SUBSET dirty :
       disk' = [fs EXCEPT !.usr = [p \in Paths |-> IF p \in lost THEN "torn" ELSE @[p]]]
  /\ UNCHANGED <<pc, tries, fs, dirty, src, cwd, todo, k, verdict, crashes, faults, orig>>

\* Power is cut and the rescue program booted again.
Crash ==
  /\ orig \in CrashDisks /\ crashes < MaxCrashes
  /\ crashes' = crashes + 1
  /\ fs' = disk
  /\ dirty' = {}
  /\ Goto("mount")
  /\ tries' = 1 /\ src' = "old" /\ cwd' = <<>> /\ todo' = {} /\ k' = 1
  /\ verdict' = "none"
  /\ UNCHANGED <<disk, faults, orig>>

Program == \/ Mount \/ Mkdirs \/ OpenOld \/ StatLib
           \/ MergeEntry \/ MergeReturn \/ RmdirSrc
           \/ RelinkLib \/ RelinkLib64
           \/ CopyUnlink \/ CopyCreate \/ CopyWrite \/ Compat
           \/ Verify \/ SyncUnmount
Next == Program \/ Commit \/ Crash

\* Nothing else runs in the initramfs: PID 1 is always scheduled again.
Spec == Init /\ [][Next]_vars
FairSpec == Spec /\ WF_vars(Program)

-----------------------------------------------------------------------------
(* Properties.                                                             *)

\* The trees that are merged of a file system d: those whose root is a
\* directory.
Merged(d) == {"usr"} \cup {t \in {"old", "lib"} : IsDir(d[t], <<>>)}

\* What each of them holds at p once the mkdirat calls were made, which make
\* nothing in a /usr/lib that is no directory.
Found(d, t, p) ==
  IF /\ t = "usr" /\ p \in {<<>>, A64, Modules}
     /\ d.usr[p] = "absent" /\ d.usr[<<>>] \in {"absent", "dir"}
  THEN "dir" ELSE d[t][p]

\* Two trees disagree about whether p, or a directory on the way to it, is a
\* directory: no rename can reconcile them.
Clash(d, p) ==
  \E q \in Paths : /\ IsPrefix(q, p)
                   /\ \E t, u \in Merged(d) : /\ Found(d, t, q) = "dir"
                                               /\ Found(d, u, q) \notin {"dir", "absent"}

\* The reference merge: /lib over /lib_old over /usr/lib, pointwise.
Overlay(d, p) ==
  LET wins(t) == t \in Merged(d) /\ Found(d, t, p) # "absent"
  IN  CASE wins("lib") -> Found(d, "lib", p)
        [] ~wins("lib") /\ wins("old") -> Found(d, "old", p)
        [] OTHER -> Found(d, "usr", p)

\* No file is ever lost, whatever fails and wherever the power is cut: a
\* file the first run found is still there, or a file stands in its place in
\* /usr/lib.  Only the linkers are removed before they are written anew.
NoFileLost ==
  \A f \in {fs, disk} : \A t \in Trees : \A p \in Paths \ (LinkerPaths \cup {<<>>}) :
    orig[t][p] \in Files => f[t][p] \in Files \/ f.usr[p] \in Files

\* When the banner appears, and no call failed, /usr/lib is the reference
\* merge at every path the trees agree about, after any number of cut and
\* repeated runs: merge_dir's renames and recursion compute an overlay.
MergeIsOverlay ==
  pc = "done" /\ faults = 0 =>
    \A p \in Paths \ LinkerPaths : ~Clash(orig, p) => fs.usr[p] = Overlay(orig, p)

\* If the trees never disagree, the linkers' directory is one, no linker's
\* name is a directory and no call failed, the banner is true: /lib_old is
\* gone, the symlinks are back and each linker is the verified one.
RepairComplete ==
  /\ pc = "done" /\ faults = 0 /\ Payload = {LD, LD231}
  /\ \A p \in Paths : ~Clash(orig, p)
  /\ Found(orig, "usr", <<>>) = "dir" /\ Found(orig, "usr", A64) = "dir"
  /\ \A t \in Trees : \A p \in LinkerPaths : orig[t][p] # "dir"
  => /\ fs.old[<<>>] # "dir"
     /\ fs.lib[<<>>] = "link"
     /\ orig.lib64 # "full" => fs.lib64 = "link"
     /\ \A p \in LinkerPaths : fs.usr[p] = "new"
     /\ verdict = "success"

\* The banner tells the operator to unplug the power: that changes nothing
\* any more.
RepairSurvives == [][pc = "done" => fs' = fs]_vars

\* The program reaches its banner, or reports that the disk never appeared:
\* neither the merge nor the copies can go on for ever.
Terminates == <>[](pc \in {"done", "halted"})
=============================================================================
