----------------------------- MODULE BuildDist ------------------------------
(***************************************************************************)
(* scripts/build-kernel.sh and scripts/build-fit.sh: from a revision of    *)
(* this repository to a published dist directory on lab.                   *)
(*                                                                         *)
(* A revision stands for everything the scripts read from the repository   *)
(* (kernel tag, patches, board files, configuration, blobs), and for the   *)
(* content of whatever is built from it.  One terminal runs one script at  *)
(* a time: build-fit after build-kernel, however that has ended, or by     *)
(* itself; any command may fail or be interrupted, and the operator edits  *)
(* the repository or the kernel tree between runs.                         *)
(***************************************************************************)
EXTENDS Naturals

CONSTANTS
  Revs,         \* revisions of this repository
  Krels,        \* kernel releases
  KrelOf,       \* the release that KERNEL_TAG and the configuration give
  BadKrels,     \* releases that do not have the form 6.18.N-hub11
  Unpatchable,  \* revisions with a patch that does not apply
  Big,          \* revisions whose FIT does not fit in p3
  NoFile, Torn, \* no file; a file cut short
  Mixed,        \* modules of which a failed make has rebuilt some
  Base, Local,  \* the unpatched kernel; a tree with the operator's own changes
  MaxMinute,    \* bound: minutes on lab's clock
  MaxFaults,    \* bound: failures, interruptions and edits of the tree
  RetryInMinute \* may build-fit be started again in the minute of `latest'?

Minutes == 1..MaxMinute
Products == {"image", "dtb", "mods"}
Files == {"image", "dtb", "misc", "mods", "itb", "sums"}
Sources == Revs \cup {Base, Local}
Dests == Minutes \X Krels

ASSUME BuildAssumption ==
  /\ KrelOf \in [Revs -> Krels]
  /\ BadKrels \subseteq Krels
  /\ Unpatchable \subseteq Revs
  /\ Big \subseteq Revs
  /\ {NoFile, Torn, Mixed, Base, Local} \cap Revs = {}
  /\ NoFile \notin {Torn, Base, Local} /\ Torn \notin {Base, Local} /\ Base # Local
  /\ Mixed \notin {NoFile, Torn, Base, Local}
  /\ NoFile \notin Krels /\ NoFile \notin Dests
  /\ MaxMinute \in Nat \ {0} /\ MaxFaults \in Nat
  /\ RetryInMinute \in BOOLEAN

VARIABLES
  meta,      \* the revision checked out in $META
  minute,    \* lab's clock, as TS shows it
  pc,        \* the next command of the script that runs
  tree,      \* what the work branch of the kernel tree holds
  dirty,     \* does the tree have uncommitted changes?
  am,        \* has git am left its state directory behind?
  todo,      \* what make has still to build
  out,       \* $OUT: the products of make
  krel,      \* $OUT/include/config/kernel.release
  kernel,    \* how the last build-kernel ended
  dest,      \* $DEST of the current or last build-fit
  dists,     \* the files of every dist directory
  latest,    \* the directory that dist/latest names
  published, \* history: the directories latest has named
  chained,   \* history: those of them made after a build-kernel that was OK
  faults

vars == <<meta, minute, pc, tree, dirty, am, todo, out, krel, kernel, dest,
          dists, latest, published, chained, faults>>
gitState == <<tree, dirty, am>>
outState == <<todo, out, krel>>
distState == <<dest, dists, latest, published, chained>>

KernelSteps == {"tree", "am", "conf", "make", "check"}
FitSteps == {"image", "dtb", "misc", "mods", "itb", "size", "sums", "link"}

\* What a file of a dist can hold: the FIT holds its three inputs, and
\* SHA256SUMS a hash of each file.
Plain == Sources \cup {NoFile, Torn, Mixed}
Fits == {NoFile, Torn} \cup (Plain \X Plain \X Plain)

TypeOK ==
  /\ meta \in Revs
  /\ minute \in Minutes
  /\ pc \in {"idle"} \cup KernelSteps \cup FitSteps
  /\ tree \in Sources
  /\ dirty \in BOOLEAN /\ am \in BOOLEAN
  /\ todo \subseteq Products
  /\ out \in [Products -> Sources \cup {NoFile, Mixed}]
  /\ krel \in Krels \cup {NoFile}
  /\ kernel \in {"none", "built", "failed"}
  /\ dest \in Dests \cup {NoFile}
  /\ \A d \in Dests : /\ \A f \in Products \cup {"misc"} : dists[d][f] \in Plain
                      /\ dists[d]["itb"] \in Fits
  /\ latest \in published \cup {NoFile}
  /\ published \subseteq Dests
  /\ chained \subseteq published
  /\ faults \in 0..MaxFaults

Init ==
  /\ meta \in Revs
  /\ minute = 1
  /\ pc = "idle"
  /\ tree = Base
  /\ dirty = FALSE
  /\ am = FALSE
  /\ todo = {}
  /\ out = [f \in Products |-> NoFile]
  /\ krel = NoFile
  /\ kernel = "none"
  /\ dest = NoFile
  /\ dists = [d \in Dests |-> [f \in Files |-> NoFile]]
  /\ latest = NoFile
  /\ published = {}
  /\ chained = {}
  /\ faults = 0

-----------------------------------------------------------------------------
(* build-kernel.sh                                                         *)

StartKernel ==
  /\ pc = "idle"
  /\ pc' = "tree"
  /\ kernel' = "none"
  /\ UNCHANGED <<meta, minute, gitState, outState, distState, faults>>

KernelFails == pc' = "idle" /\ kernel' = "failed"

CheckTreeSkipped ==
  /\ pc = "tree"
  /\ tree' = Base
  /\ pc' = "am"
  /\ UNCHANGED <<meta, minute, dirty, am, outState, kernel, distState, faults>>

\* A tree with uncommitted changes is refused; otherwise the work branch is
\* reset to the tag, whatever was committed on it.
CheckTree ==
  /\ pc = "tree"
  /\ \/ dirty /\ KernelFails /\ UNCHANGED tree
     \/ ~dirty /\ tree' = Base /\ pc' = "am" /\ UNCHANGED kernel
  /\ UNCHANGED <<meta, minute, dirty, am, outState, distState, faults>>

ApplyPatchesNoAbort ==
  /\ pc = "am"
  /\ IF am \/ meta \in Unpatchable
       THEN KernelFails /\ am' = TRUE /\ UNCHANGED tree
       ELSE tree' = meta /\ pc' = "conf" /\ UNCHANGED <<am, kernel>>
  /\ UNCHANGED <<meta, minute, dirty, outState, distState, faults>>

\* git am of every patch.  A patch that does not apply, or the state of an
\* interrupted git am, makes it fail; git am --abort then removes that state.
ApplyPatches ==
  /\ pc = "am"
  /\ IF am \/ meta \in Unpatchable
       THEN KernelFails /\ am' = FALSE /\ UNCHANGED tree
       ELSE tree' = meta /\ pc' = "conf" /\ UNCHANGED <<am, kernel>>
  /\ UNCHANGED <<meta, minute, dirty, outState, distState, faults>>

\* Board files and out-of-tree drivers are copied in, the configuration is
\* merged; make first writes kernel.release.
Configure ==
  /\ pc = "conf"
  /\ krel' = KrelOf[meta]
  /\ todo' = Products
  /\ pc' = "make"
  /\ UNCHANGED <<meta, minute, gitState, out, kernel, distState, faults>>

Compiled == IF dirty THEN Local ELSE tree

\* make -j: the products appear in any order.
Make ==
  /\ pc = "make"
  /\ \/ \E f \in todo : /\ out' = [out EXCEPT ![f] = Compiled]
                        /\ todo' = todo \ {f}
                        /\ UNCHANGED pc
     \/ todo = {} /\ pc' = "check" /\ UNCHANGED <<out, todo>>
  /\ UNCHANGED <<meta, minute, gitState, krel, kernel, distState, faults>>

\* The products exist and the release has the expected form.
CheckKernel ==
  /\ pc = "check"
  /\ pc' = "idle"
  /\ kernel' = IF krel \notin BadKrels /\ out["image"] # NoFile /\ out["dtb"] # NoFile
               THEN "built" ELSE "failed"
  /\ UNCHANGED <<meta, minute, gitState, outState, distState, faults>>

KernelStepFailsUnseen ==
  /\ pc \in KernelSteps
  /\ faults < MaxFaults
  /\ faults' = faults + 1
  /\ IF pc = "make" THEN pc' = "check" /\ UNCHANGED kernel ELSE KernelFails
  /\ IF pc = "am"
       THEN am' = TRUE /\ tree' = Local /\ dirty' \in BOOLEAN
       ELSE UNCHANGED gitState
  /\ UNCHANGED <<meta, minute, outState, distState>>

\* A command fails or the script is interrupted; set -e ends it.  An
\* interrupted git am leaves its state directory, some of the patches, and
\* perhaps one that is applied and not committed.  A make that fails has
\* built some of its products, and perhaps some of the modules over those of
\* another build (the report of line 77 is not reached, since set -e ends the
\* script at line 75).
KernelStepFails ==
  /\ pc \in KernelSteps
  /\ faults < MaxFaults
  /\ faults' = faults + 1
  /\ KernelFails
  /\ IF pc = "am"
       THEN am' = TRUE /\ tree' = Local /\ dirty' \in BOOLEAN
       ELSE UNCHANGED gitState
  /\ \/ UNCHANGED out
     \/ /\ pc = "make" /\ "mods" \in todo /\ out["mods"] \notin {NoFile, tree}
        /\ out' = [out EXCEPT !["mods"] = Mixed]
  /\ UNCHANGED <<meta, minute, todo, krel, distState>>

-----------------------------------------------------------------------------
(* build-fit.sh                                                            *)

StartFitNoStamp ==
  /\ pc = "idle"
  /\ krel # NoFile /\ out["dtb"] # NoFile
  /\ dest' = <<1, krel>>
  /\ pc' = "image"
  /\ UNCHANGED <<meta, minute, gitState, outState, kernel, dists, latest,
                 published, chained, faults>>

\* The release and the device tree must be there, of whatever build: how the
\* last build-kernel ended is not asked.  The directory is named after the
\* minute and the release, and may exist.
StartFit ==
  /\ pc = "idle"
  /\ krel # NoFile /\ out["dtb"] # NoFile
  /\ RetryInMinute \/ latest \notin {minute} \X Krels
  /\ dest' = <<minute, krel>>
  /\ pc' = "image"
  /\ UNCHANGED <<meta, minute, gitState, outState, kernel, dists, latest,
                 published, chained, faults>>

Write(f, v) == dists' = [dists EXCEPT ![dest][f] = v]
Holds(f) == dists[dest][f]

\* The next command of build-fit after the one at p.
After(p) ==
  CASE p = "image" -> "dtb" [] p = "dtb" -> "misc" [] p = "misc" -> "mods"
    [] p = "mods" -> "itb" [] p = "itb" -> "size" [] p = "sums" -> "link"

\* What the command at p writes to the file of the same name: the kernel's
\* image and device tree; blobs, template, KREL, DTB and firmware from the
\* repository; the tarball of modules_install; mkimage's FIT; the hashes.
Product(p) ==
  CASE p \in Products -> out[p]
    [] p = "misc" -> meta
    [] p = "itb" -> <<Holds("image"), Holds("dtb"), Holds("misc")>>
    [] p = "sums" -> [f \in Files \ {"sums"} |-> Holds(f)]

\* cp and modules_install fail, and end the script, if there is nothing to
\* install.
Missing(p) == p \in Products /\ out[p] = NoFile

AssembleFile ==
  /\ pc \in FitSteps \ {"size", "link"}
  /\ \/ Missing(pc) /\ pc' = "idle" /\ UNCHANGED dists
     \/ ~Missing(pc) /\ pc' = After(pc) /\ Write(pc, Product(pc))
  /\ UNCHANGED <<meta, minute, gitState, outState, kernel, dest, latest,
                 published, chained, faults>>

\* A FIT of 64 MiB or more is refused; it stays in the directory.
CheckSize ==
  /\ pc = "size"
  /\ pc' = IF Holds("image") \in Big THEN "idle" ELSE "sums"
  /\ UNCHANGED <<meta, minute, gitState, outState, kernel, distState, faults>>

\* ln -sfn
Publish ==
  /\ pc = "link"
  /\ latest' = dest
  /\ published' = published \cup {dest}
  /\ chained' = IF kernel = "built" THEN chained \cup {dest} ELSE chained \ {dest}
  /\ pc' = "idle"
  /\ UNCHANGED <<meta, minute, gitState, outState, kernel, dest, dists, faults>>

\* A command fails or the script is interrupted: the file it writes is as it
\* was, or cut short.
FitStepFails ==
  /\ pc \in FitSteps
  /\ faults < MaxFaults
  /\ faults' = faults + 1
  /\ pc' = "idle"
  /\ \/ UNCHANGED dists
     \/ pc \in Files /\ Write(pc, Torn)
  /\ UNCHANGED <<meta, minute, gitState, outState, kernel, dest, latest, published,
                 chained>>

-----------------------------------------------------------------------------
(* The operator and the clock.                                             *)

\* Another revision is checked out between two scripts.
EditMeta(r) ==
  /\ pc = "idle"
  /\ r # meta
  /\ meta' = r
  /\ UNCHANGED <<minute, pc, gitState, outState, kernel, distState, faults>>

\* The operator works in the kernel tree.
EditTree ==
  /\ pc = "idle"
  /\ ~dirty
  /\ faults < MaxFaults
  /\ faults' = faults + 1
  /\ dirty' = TRUE
  /\ UNCHANGED <<meta, minute, pc, tree, am, outState, kernel, distState>>

\* "commit or discard them first"
Settle ==
  /\ pc = "idle"
  /\ dirty
  /\ dirty' = FALSE
  /\ tree' \in {tree, Local}
  /\ UNCHANGED <<meta, minute, pc, am, outState, kernel, distState, faults>>

Tick ==
  /\ minute < MaxMinute
  /\ minute' = minute + 1
  /\ UNCHANGED <<meta, pc, gitState, outState, kernel, distState, faults>>

KernelGoesOn == CheckTree \/ ApplyPatches \/ Configure \/ Make \/ CheckKernel
FitGoesOn == AssembleFile \/ CheckSize \/ Publish
Script == KernelGoesOn \/ KernelStepFails \/ FitGoesOn \/ FitStepFails
Operator == \/ StartKernel \/ StartFit \/ EditTree \/ Settle
            \/ \E r \in Revs : EditMeta(r)
Next == Script \/ Operator \/ Tick

Spec == Init /\ [][Next]_vars

\* The scripts go on; the operator settles a refused tree and, while the
\* last build did not succeed, keeps running build-kernel.
FairSpec == /\ Spec
            /\ WF_vars(KernelGoesOn) /\ WF_vars(FitGoesOn)
            /\ SF_vars(Settle)
            /\ SF_vars(kernel # "built" /\ StartKernel)

-----------------------------------------------------------------------------
(* Properties.                                                             *)

\* build-kernel.sh says OK only with products that all come from the checked
\* out revision, whatever failed builds have left in $OUT and whatever was
\* committed to, or left uncommitted in, the files that git tracks in the
\* kernel tree.
BuiltFromMeta ==
  [][kernel' = "built" /\ kernel # "built"
       => krel = KrelOf[meta] /\ \A f \in Products : out[f] = meta]_vars

\* The files of dist d are all there and whole, its FIT is made of them and
\* fits in p3, and its sums match.
SelfContained(d) ==
  /\ \A f \in Products : dists[d][f] \notin {NoFile, Torn}
  /\ dists[d]["image"] \notin Big
  /\ dists[d]["misc"] \in Revs
  /\ dists[d]["itb"] = <<dists[d]["image"], dists[d]["dtb"], dists[d]["misc"]>>
  /\ dists[d]["sums"] = [f \in Files \ {"sums"} |-> dists[d][f]]

\* Its image, device tree, modules and release are of one build.
OneBuild(d) ==
  \E r \in Revs : KrelOf[r] = d[2] /\ \A f \in Products : dists[d][f] = r

\* Every directory that dist/latest has ever named is self-contained, also
\* while a later build runs and after it failed; and it is one build's if
\* build-fit ran after a build-kernel that said OK, as the runbook's
\* `build-kernel.sh && build-fit.sh' makes sure.
PublishedValid ==
  \A d \in published : SelfContained(d) /\ (d \in chained => OneBuild(d))

\* Every published dist is one build's: "The FIT script packages the resulting
\* kernel", and "an older dist is a valid rollback even after the kernel tree is
\* rebuilt".
PublishedOneBuild == \A d \in published : OneBuild(d)

\* The files of a published dist are never touched again.
PublishedFixed == [][\A d \in published : dists'[d] = dists[d]]_vars

\* An interrupted git am does not wedge the build: the state it left is gone
\* after the operator's retries ("Idempotent: every run resets the work
\* branch").
AmRecovers == am ~> ~am
=============================================================================
