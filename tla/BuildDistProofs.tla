--------------------------- MODULE BuildDistProofs ---------------------------
(***************************************************************************)
(* Proofs about BuildDist, for any set of revisions and releases, any      *)
(* number of minutes and of failures.  What a published dist keeps assumes *)
(* that build-fit is not started twice in one minute (RetryInMinute).      *)
(***************************************************************************)
EXTENDS BuildDist, TLAPS

\* The types, and the shape of the dist directories.
Types ==
  /\ meta \in Revs /\ minute \in Minutes
  /\ pc \in {"idle"} \cup KernelSteps \cup FitSteps
  /\ tree \in Sources /\ dirty \in BOOLEAN /\ am \in BOOLEAN
  /\ todo \subseteq Products /\ out \in [Products -> Sources \cup {NoFile, Mixed}]
  /\ krel \in Krels \cup {NoFile}
  /\ kernel \in {"none", "built", "failed"}
  /\ dest \in Dests \cup {NoFile}
  /\ DOMAIN dists = Dests /\ \A d \in Dests : DOMAIN dists[d] = Files
  /\ latest \in Dests \cup {NoFile} /\ published \subseteq Dests
  /\ chained \subseteq published
  /\ faults \in 0..MaxFaults

\* From the check of the tree on the build is of the checked out revision.
Building ==
  /\ pc \in {"am", "conf", "make", "check"} => ~dirty
  /\ pc \in {"conf", "make", "check"} => tree = meta
  /\ pc \in {"make", "check"} => krel = KrelOf[meta]
  /\ pc = "make" => \A f \in Products \ todo : out[f] = meta
  /\ pc = "check" => \A f \in Products : out[f] = meta

\* What was built stays, whatever is checked out since.
BuiltOf(r) == krel = KrelOf[r] /\ \A f \in Products : out[f] = r
Built ==
  /\ pc \in KernelSteps => kernel = "none"
  /\ kernel = "built" => \E r \in Revs : BuiltOf(r)

\* The files of the directory that build-fit has written by now.
Assembled ==
  /\ pc \in FitSteps => dest \in Dests /\ dest[2] = krel /\ out["dtb"] # NoFile
  /\ pc \in FitSteps \ {"image"} =>
       out["image"] # NoFile /\ dists[dest]["image"] = out["image"]
  /\ pc \in FitSteps \ {"image", "dtb"} => dists[dest]["dtb"] = out["dtb"]
  /\ pc \in FitSteps \ {"image", "dtb", "misc"} => dists[dest]["misc"] \in Revs
  /\ pc \in {"itb", "size", "sums", "link"} =>
       out["mods"] # NoFile /\ dists[dest]["mods"] = out["mods"]
  /\ pc \in {"size", "sums", "link"} =>
       dists[dest]["itb"] =
         <<dists[dest]["image"], dists[dest]["dtb"], dists[dest]["misc"]>>
  /\ pc \in {"sums", "link"} => dists[dest]["image"] \notin Big
  /\ pc = "link" =>
       dists[dest]["sums"] = [f \in Files \ {"sums"} |-> dists[dest][f]]

\* Directories are published in the order of their minutes, and the one that
\* is being written is younger than all of them.
Younger ==
  /\ published # {} => latest \in published
  /\ \A d \in published : d[1] \leq latest[1] /\ d[1] \leq minute
  /\ pc \in FitSteps => dest[1] \leq minute /\ \A d \in published : d[1] < dest[1]

BuildInv == Types /\ Building /\ Built /\ Assembled

-----------------------------------------------------------------------------
\* A file of the directory is written: the others, and all other directories,
\* stay.
LEMMA WriteOne ==
  ASSUME Types, dest \in Dests, NEW f \in Files, NEW v, Write(f, v)
  PROVE  /\ DOMAIN dists' = Dests /\ \A d \in Dests : DOMAIN dists'[d] = Files
         /\ dists'[dest][f] = v
         /\ \A g \in Files \ {f} : dists'[dest][g] = dists[dest][g]
         /\ \A d \in Dests \ {dest} : dists'[d] = dists[d]
BY DEF Types, Write

\* The commands of build-fit, in their order, and what each writes, unless there
\* is nothing to install.
LEMMA NextFile ==
  ASSUME AssembleFile
  PROVE  \/ pc' = "idle" /\ UNCHANGED dists
         \/ /\ pc = "image" /\ pc' = "dtb" /\ out["image"] # NoFile
            /\ Write("image", out["image"])
         \/ pc = "dtb" /\ pc' = "misc" /\ Write("dtb", out["dtb"])
         \/ pc = "misc" /\ pc' = "mods" /\ Write("misc", meta)
         \/ /\ pc = "mods" /\ pc' = "itb" /\ out["mods"] # NoFile
            /\ Write("mods", out["mods"])
         \/ /\ pc = "itb" /\ pc' = "size"
            /\ Write("itb", <<Holds("image"), Holds("dtb"), Holds("misc")>>)
         \/ /\ pc = "sums" /\ pc' = "link"
            /\ Write("sums", [f \in Files \ {"sums"} |-> Holds(f)])
<1>1. CASE Missing(pc)
  BY <1>1 DEF AssembleFile
<1>2. CASE ~Missing(pc)
  <2>1. /\ pc \in {"image", "dtb", "misc", "mods", "itb", "sums"}
        /\ Write(pc, Product(pc)) /\ pc' = After(pc)
    BY <1>2 DEF AssembleFile, FitSteps
  <2>2. CASE pc = "image"
    BY <1>2, <2>1, <2>2 DEF Product, After, Products, Missing
  <2>3. CASE pc = "dtb"
    BY <2>1, <2>3 DEF Product, After, Products
  <2>4. CASE pc = "misc"
    BY <2>1, <2>4 DEF Product, After, Products
  <2>5. CASE pc = "mods"
    BY <1>2, <2>1, <2>5 DEF Product, After, Products, Missing
  <2>6. CASE pc = "itb"
    BY <2>1, <2>6 DEF Product, After, Products
  <2>7. CASE pc = "sums"
    BY <2>1, <2>7 DEF Product, After, Products
  <2>8. QED
    BY <2>1, <2>2, <2>3, <2>4, <2>5, <2>6, <2>7
<1>3. QED
  BY <1>1, <1>2

\* Initially nothing is built.
LEMMA InitInv == Init => BuildInv /\ Younger /\ PublishedValid
<1> SUFFICES ASSUME Init PROVE BuildInv /\ Younger /\ PublishedValid
  OBVIOUS
<1> USE BuildAssumption DEF Init
<1>1. Types
  <2>1. 1 \in Minutes /\ out \in [Products -> Sources \cup {NoFile, Mixed}]
    BY DEF Minutes
  <2>2. DOMAIN dists = Dests /\ \A d \in Dests : DOMAIN dists[d] = Files
    OBVIOUS
  <2>3. dirty \in BOOLEAN /\ am \in BOOLEAN
    OBVIOUS
  <2>4. tree \in Sources /\ 0 \in 0..MaxFaults
    BY DEF Sources
  <2>5. QED
    BY <2>1, <2>2, <2>3, <2>4 DEF Types
<1>2. Building /\ Built /\ Assembled
  BY DEF Building, Built, Assembled, KernelSteps, FitSteps
<1>3. Younger /\ PublishedValid
  BY DEF Younger, PublishedValid, FitSteps
<1>4. QED
  BY <1>1, <1>2, <1>3 DEF BuildInv

\* Types.
LEMMA TypesStep == BuildInv /\ [Next]_vars => Types'
<1> SUFFICES ASSUME BuildInv, [Next]_vars PROVE Types'
  OBVIOUS
<1> USE BuildAssumption DEF BuildInv, Types, Built, BuiltOf, Assembled, Minutes,
      Sources, Products, KernelSteps, FitSteps, gitState, outState, distState
<1>1. CASE StartKernel
  BY <1>1 DEF StartKernel
<1>2. CASE CheckTree
  BY <1>2 DEF CheckTree, KernelFails
<1>3. CASE ApplyPatches
  BY <1>3 DEF ApplyPatches, KernelFails
<1>4. CASE Configure
  BY <1>4 DEF Configure
<1>5. CASE Make
  <2>1. Compiled \in Sources
    BY DEF Compiled
  <2>2. out' \in [Products -> Sources \cup {NoFile, Mixed}] /\ todo' \subseteq Products
    <3>1. CASE UNCHANGED <<out, todo>>
      BY <3>1
    <3>2. CASE \E f \in todo : out' = [out EXCEPT ![f] = Compiled] /\ todo' = todo \ {f}
      BY <2>1, <3>2
    <3>3. QED
      BY <1>5, <3>1, <3>2 DEF Make
  <2>3. QED
    BY <1>5, <2>2 DEF Make
<1>6. CASE CheckKernel
  BY <1>6 DEF CheckKernel
<1>7. CASE KernelStepFails
  <2>1. tree' \in Sources /\ dirty' \in BOOLEAN /\ am' \in BOOLEAN
    BY <1>7 DEF KernelStepFails
  <2>2. out' \in [Products -> Sources \cup {NoFile, Mixed}]
    BY <1>7 DEF KernelStepFails
  <2>3. QED
    BY <1>7, <2>1, <2>2 DEF KernelStepFails, KernelFails
<1>8. CASE StartFit
  <2>1. krel \in Krels /\ dest' \in Dests
    BY <1>8 DEF StartFit, Dests
  <2>2. QED
    BY <1>8, <2>1 DEF StartFit
<1>9. CASE AssembleFile
  <2>1. DOMAIN dists' = Dests /\ \A d \in Dests : DOMAIN dists'[d] = Files
    BY <1>9, WriteOne DEF AssembleFile, Files
  <2>2. pc' \in FitSteps \cup {"idle"}
    BY <1>9, NextFile
  <2>3. QED
    BY <1>9, <2>1, <2>2 DEF AssembleFile
<1>10. CASE CheckSize
  BY <1>10 DEF CheckSize
<1>11. CASE Publish
  BY <1>11 DEF Publish
<1>12. CASE FitStepFails
  <2>1. DOMAIN dists' = Dests /\ \A d \in Dests : DOMAIN dists'[d] = Files
    BY <1>12, WriteOne DEF FitStepFails, Files
  <2>2. QED
    BY <1>12, <2>1 DEF FitStepFails
<1>13. CASE \E r \in Revs : EditMeta(r)
  BY <1>13 DEF EditMeta
<1>14. CASE EditTree
  BY <1>14 DEF EditTree
<1>15. CASE Settle
  BY <1>15 DEF Settle
<1>16. CASE Tick
  BY <1>16 DEF Tick
<1>17. CASE UNCHANGED vars
  BY <1>17 DEF vars
<1>18. QED
  BY <1>1, <1>2, <1>3, <1>4, <1>5, <1>6, <1>7, <1>8, <1>9, <1>10, <1>11,
     <1>12, <1>13, <1>14, <1>15, <1>16, <1>17
     DEF Next, Script, KernelGoesOn, FitGoesOn, Operator

\* Nobody else works in the tree while make runs.
LEMMA BuildingStep == Types /\ Building /\ [Next]_vars => Building'
<1> SUFFICES ASSUME Types, Building, [Next]_vars PROVE Building'
  OBVIOUS
<1> USE BuildAssumption DEF Types, Building, Products, KernelSteps, FitSteps,
      gitState, outState, distState
<1>1. CASE StartKernel
  BY <1>1 DEF StartKernel
<1>2. CASE CheckTree
  BY <1>2 DEF CheckTree, KernelFails
<1>3. CASE ApplyPatches
  BY <1>3 DEF ApplyPatches, KernelFails
<1>4. CASE Configure
  BY <1>4 DEF Configure
<1>5. CASE Make
  BY <1>5 DEF Make, Compiled
<1>6. CASE CheckKernel
  BY <1>6 DEF CheckKernel
<1>7. CASE KernelStepFails
  BY <1>7 DEF KernelStepFails, KernelFails
<1>8. CASE StartFit
  BY <1>8 DEF StartFit
<1>9. CASE AssembleFile
  <2>1. pc' \in FitSteps \cup {"idle"} /\ pc \in FitSteps
    BY <1>9, NextFile DEF AssembleFile
  <2>2. QED
    BY <1>9, <2>1 DEF AssembleFile
<1>10. CASE CheckSize
  BY <1>10 DEF CheckSize
<1>11. CASE Publish
  BY <1>11 DEF Publish
<1>12. CASE FitStepFails
  BY <1>12 DEF FitStepFails, Write
<1>13. CASE \E r \in Revs : EditMeta(r)
  BY <1>13 DEF EditMeta
<1>14. CASE EditTree
  BY <1>14 DEF EditTree
<1>15. CASE Settle
  BY <1>15 DEF Settle
<1>16. CASE Tick
  BY <1>16 DEF Tick
<1>17. CASE UNCHANGED vars
  BY <1>17 DEF vars
<1>18. QED
  BY <1>1, <1>2, <1>3, <1>4, <1>5, <1>6, <1>7, <1>8, <1>9, <1>10, <1>11,
     <1>12, <1>13, <1>14, <1>15, <1>16, <1>17
     DEF Next, Script, KernelGoesOn, FitGoesOn, Operator

\* A build that succeeded is not touched before the next one.
LEMMA BuiltStep == Types /\ Building /\ Built /\ [Next]_vars => Built'
<1> SUFFICES ASSUME Types, Building, Built, [Next]_vars PROVE Built'
  OBVIOUS
<1> USE BuildAssumption DEF Types, Building, Built, BuiltOf, Products,
      KernelSteps, FitSteps, gitState, outState, distState
<1>1. CASE StartKernel
  BY <1>1 DEF StartKernel
<1>2. CASE CheckTree
  BY <1>2 DEF CheckTree, KernelFails
<1>3. CASE ApplyPatches
  BY <1>3 DEF ApplyPatches, KernelFails
<1>4. CASE Configure
  BY <1>4 DEF Configure
<1>5. CASE Make
  BY <1>5 DEF Make, Compiled
<1>6. CASE CheckKernel
  BY <1>6 DEF CheckKernel
<1>7. CASE KernelStepFails
  BY <1>7 DEF KernelStepFails, KernelFails
<1>8. CASE StartFit
  BY <1>8 DEF StartFit
<1>9. CASE AssembleFile
  <2>1. pc' \in FitSteps \cup {"idle"} /\ pc \in FitSteps
    BY <1>9, NextFile DEF AssembleFile
  <2>2. QED
    BY <1>9, <2>1 DEF AssembleFile
<1>10. CASE CheckSize
  BY <1>10 DEF CheckSize
<1>11. CASE Publish
  BY <1>11 DEF Publish
<1>12. CASE FitStepFails
  BY <1>12 DEF FitStepFails, Write
<1>13. CASE \E r \in Revs : EditMeta(r)
  BY <1>13 DEF EditMeta
<1>14. CASE EditTree
  BY <1>14 DEF EditTree
<1>15. CASE Settle
  BY <1>15 DEF Settle
<1>16. CASE Tick
  BY <1>16 DEF Tick
<1>17. CASE UNCHANGED vars
  BY <1>17 DEF vars
<1>18. QED
  BY <1>1, <1>2, <1>3, <1>4, <1>5, <1>6, <1>7, <1>8, <1>9, <1>10, <1>11,
     <1>12, <1>13, <1>14, <1>15, <1>16, <1>17
     DEF Next, Script, KernelGoesOn, FitGoesOn, Operator

\* Each command of build-fit adds its file and keeps the others.
LEMMA AssembledStep == BuildInv /\ [Next]_vars => Assembled'
<1> SUFFICES ASSUME BuildInv, [Next]_vars PROVE Assembled'
  OBVIOUS
<1> USE BuildAssumption DEF BuildInv, Types, Built, BuiltOf, Assembled,
      Products, KernelSteps, FitSteps, gitState, outState, distState
<1>1. CASE StartKernel
  BY <1>1 DEF StartKernel
<1>2. CASE CheckTree
  BY <1>2 DEF CheckTree, KernelFails
<1>3. CASE ApplyPatches
  BY <1>3 DEF ApplyPatches, KernelFails
<1>4. CASE Configure
  BY <1>4 DEF Configure
<1>5. CASE Make
  BY <1>5 DEF Make, Compiled
<1>6. CASE CheckKernel
  BY <1>6 DEF CheckKernel
<1>7. CASE KernelStepFails
  BY <1>7 DEF KernelStepFails, KernelFails
<1>8. CASE StartFit
  <2>1. dest' = <<minute, krel>> /\ krel \in Krels /\ pc' = "image"
    BY <1>8 DEF StartFit
  <2>2. dest' \in Dests /\ dest'[2] = krel' /\ out'["dtb"] # NoFile
    BY <1>8, <2>1 DEF StartFit, Dests
  <2>3. QED
    BY <2>1, <2>2
<1>9. CASE AssembleFile
  <2>1. UNCHANGED <<out, krel, dest, meta>> /\ dest \in Dests
    BY <1>9 DEF AssembleFile
  <2>2. CASE pc = "image"
    BY <1>9, <2>1, <2>2, NextFile, WriteOne DEF Files, Holds
  <2>3. CASE pc = "dtb"
    BY <1>9, <2>1, <2>3, NextFile, WriteOne DEF Files, Holds
  <2>4. CASE pc = "misc"
    BY <1>9, <2>1, <2>4, NextFile, WriteOne DEF Files, Holds
  <2>5. CASE pc = "mods"
    BY <1>9, <2>1, <2>5, NextFile, WriteOne DEF Files, Holds
  <2>6. CASE pc = "itb"
    BY <1>9, <2>1, <2>6, NextFile, WriteOne DEF Files, Holds
  <2>7. CASE pc = "sums"
    BY <1>9, <2>1, <2>7, NextFile, WriteOne DEF Files, Holds
  <2>8. QED
    BY <1>9, <2>2, <2>3, <2>4, <2>5, <2>6, <2>7 DEF AssembleFile
<1>10. CASE CheckSize
  <2>1. UNCHANGED <<out, krel, dest, dists>> /\ pc = "size"
    BY <1>10 DEF CheckSize
  <2>2. pc' = "idle" \/ (pc' = "sums" /\ dists[dest]["image"] \notin Big)
    BY <1>10 DEF CheckSize, Holds
  <2>3. QED
    BY <2>1, <2>2
<1>11. CASE Publish
  BY <1>11 DEF Publish
<1>12. CASE FitStepFails
  BY <1>12 DEF FitStepFails, Write
<1>13. CASE \E r \in Revs : EditMeta(r)
  BY <1>13 DEF EditMeta
<1>14. CASE EditTree
  BY <1>14 DEF EditTree
<1>15. CASE Settle
  BY <1>15 DEF Settle
<1>16. CASE Tick
  BY <1>16 DEF Tick
<1>17. CASE UNCHANGED vars
  BY <1>17 DEF vars
<1>18. QED
  BY <1>1, <1>2, <1>3, <1>4, <1>5, <1>6, <1>7, <1>8, <1>9, <1>10, <1>11,
     <1>12, <1>13, <1>14, <1>15, <1>16, <1>17
     DEF Next, Script, KernelGoesOn, FitGoesOn, Operator

\* A directory is chosen only in a minute that no published one has.
LEMMA YoungerStep ==
  ASSUME ~RetryInMinute, BuildInv, Younger, [Next]_vars
  PROVE  Younger'
<1> USE BuildAssumption DEF BuildInv, Types, Younger, gitState, outState,
        distState
<1>1. minute \in Nat /\ minute' \in Nat /\ minute \leq minute'
  BY TypesStep
     DEF Minutes, Next, Script, Operator, KernelGoesOn, FitGoesOn, StartKernel, CheckTree,
         ApplyPatches, Configure, Make, CheckKernel, KernelStepFails, StartFit,
         AssembleFile, CheckSize, Publish, FitStepFails, EditMeta, EditTree, Settle, Tick,
         vars
<1>2. \A d \in Dests : d[1] \in Nat
  BY DEF Dests, Minutes
<1>3. CASE StartFit
  <2>1. UNCHANGED <<latest, published, minute>> /\ dest' = <<minute, krel>>
    BY <1>3 DEF StartFit
  <2>2. ASSUME NEW d \in published PROVE d[1] < minute
    <3>1. latest \in Dests /\ latest \notin {minute} \X Krels
      BY <1>3, <2>2 DEF StartFit
    <3>2. latest[1] # minute
      BY <3>1 DEF Dests
    <3>3. QED
      BY <1>1, <1>2, <2>2, <3>1, <3>2
  <2>3. QED
    BY <1>1, <2>1, <2>2
<1>4. CASE Publish
  <2>1. /\ latest' = dest /\ published' = published \cup {dest} /\ pc' = "idle"
        /\ minute' = minute /\ pc \in FitSteps /\ dest \in Dests
    BY <1>4 DEF Publish, FitSteps, Assembled
  <2>2. \A d \in published : d[1] \leq dest[1]
    BY <1>2, <2>1
  <2>3. QED
    BY <1>2, <2>1, <2>2 DEF FitSteps
<1>5. CASE UNCHANGED <<latest, published, dest>> /\ (pc' \in FitSteps => pc \in FitSteps)
  <2>1. pc \in FitSteps => dest[1] \in Nat
    BY <1>2 DEF Assembled
  <2>2. \A d \in published : d[1] \in Nat
    BY <1>2
  <2>3. QED
    BY <1>1, <1>5, <2>1, <2>2
<1>6. CASE ~StartFit /\ ~Publish
  <2>1. UNCHANGED <<latest, published, dest>>
    BY <1>6
       DEF Next, Script, Operator, KernelGoesOn, FitGoesOn, StartKernel, CheckTree,
         ApplyPatches, Configure, Make, CheckKernel, KernelStepFails,
         AssembleFile, CheckSize, FitStepFails, EditMeta, EditTree, Settle, Tick,
         vars
  <2>2. pc' \in FitSteps => pc \in FitSteps
    BY <1>6
       DEF Next, Script, Operator, KernelGoesOn, FitGoesOn, StartKernel, CheckTree,
         ApplyPatches, Configure, Make, CheckKernel, KernelStepFails, KernelFails,
         AssembleFile, CheckSize, FitStepFails, EditMeta, EditTree, Settle, Tick,
         vars, FitSteps
  <2>3. QED
    BY <1>5, <2>1, <2>2
<1>7. QED
  BY <1>3, <1>4, <1>6

\* What a step writes is not published.
LEMMA PublishedKept ==
  ASSUME BuildInv, Younger, [Next]_vars, NEW d \in published
  PROVE  dists'[d] = dists[d]
<1> USE DEF BuildInv, Types, Younger, gitState, outState, distState
<1>1. CASE pc \in FitSteps /\ \E f \in Files : \E v : Write(f, v)
  <2>1. dest \in Dests /\ d \in Dests
    BY <1>1 DEF Assembled
  <2>2. d # dest
    <3>1. d[1] \in Nat /\ dest[1] \in Nat
      BY <2>1 DEF Dests, Minutes
    <3>2. QED
      BY <1>1, <3>1
  <2>3. QED
    BY <1>1, <2>1, <2>2, WriteOne
<1>2. CASE UNCHANGED dists
  BY <1>2
<1>3. AssembleFile => UNCHANGED dists \/ (pc \in FitSteps /\ \E f \in Files : \E v : Write(f, v))
  BY DEF AssembleFile, FitSteps, Files
<1>4. FitStepFails => UNCHANGED dists \/ (pc \in FitSteps /\ \E f \in Files : \E v : Write(f, v))
  BY DEF FitStepFails
<1>5. CASE ~AssembleFile /\ ~FitStepFails
  <2>1. UNCHANGED dists
    BY <1>5
       DEF Next, Script, Operator, KernelGoesOn, FitGoesOn, StartKernel, CheckTree,
         ApplyPatches, Configure, Make, CheckKernel, KernelStepFails, StartFit,
         CheckSize, Publish, EditMeta, EditTree, Settle, Tick, vars
  <2>2. QED
    BY <1>2, <2>1
<1>6. QED
  BY <1>1, <1>2, <1>3, <1>4, <1>5

\* The directory that is published is a valid one.
LEMMA PublishValid ==
  ASSUME BuildInv, Publish
  PROVE  SelfContained(dest) /\ (kernel = "built" => OneBuild(dest))
<1>1. /\ pc = "link" /\ dest \in Dests /\ dest[2] = krel
      /\ \A f \in Products : dists[dest][f] = out[f] /\ out[f] # NoFile
  BY DEF BuildInv, Assembled, Publish, FitSteps, Products
<1>2. \A f \in Products : out[f] # Torn
  BY BuildAssumption DEF BuildInv, Types, Sources
<1>3. SelfContained(dest)
  BY <1>1, <1>2 DEF SelfContained, BuildInv, Assembled, FitSteps
<1>4. ASSUME kernel = "built" PROVE OneBuild(dest)
  <2>1. PICK r \in Revs : BuiltOf(r)
    BY <1>4 DEF BuildInv, Built
  <2>2. QED
    BY <1>1, <2>1 DEF BuiltOf, OneBuild
<1>5. QED
  BY <1>3, <1>4

\* BuildInv holds of every reachable state.
LEMMA BuildInvHolds == Spec => []BuildInv
<1>1. Init => BuildInv
  BY InitInv
<1>2. BuildInv /\ [Next]_vars => BuildInv'
  BY TypesStep, BuildingStep, BuiltStep, AssembledStep DEF BuildInv
<1>3. QED
  BY <1>1, <1>2, PTL DEF Spec

\* What the files of the dist directories hold, and where dist/latest points.
Contents ==
  /\ \A d \in Dests : /\ \A f \in Products \cup {"misc"} : dists[d][f] \in Plain
                      /\ dists[d]["itb"] \in Fits
  /\ latest \in published \cup {NoFile}

\* A file is written with what such a file may hold.
LEMMA ContentsWrite ==
  ASSUME BuildInv, Contents, pc \in FitSteps, NEW f \in Files, NEW v, Write(f, v),
         f \in Products \cup {"misc"} => v \in Plain,
         f = "itb" => v \in Fits,
         UNCHANGED <<latest, published>>
  PROVE  Contents'
<1>1. Types /\ dest \in Dests
  BY DEF BuildInv, Assembled
<1>2. /\ dists'[dest][f] = v
      /\ \A g \in Files \ {f} : dists'[dest][g] = dists[dest][g]
      /\ \A d \in Dests \ {dest} : dists'[d] = dists[d]
  BY <1>1, WriteOne
<1>3. ASSUME NEW d \in Dests, NEW g \in Products \cup {"misc"}
      PROVE  dists'[d][g] \in Plain
  <2>1. g \in Files
    BY DEF Products, Files
  <2> QED
    BY <1>2, <1>3, <2>1 DEF Contents
<1>4. ASSUME NEW d \in Dests PROVE dists'[d]["itb"] \in Fits
  BY <1>2, <1>4 DEF Contents, Files
<1> QED
  BY <1>3, <1>4 DEF Contents

\* Contents is preserved: mkimage and sha256sum read files of the directory,
\* and a failing command leaves its file as it was or cut short.
LEMMA ContentsStep == BuildInv /\ Contents /\ [Next]_vars => Contents'
<1> SUFFICES ASSUME BuildInv, Contents, [Next]_vars PROVE Contents'
  OBVIOUS
<1>1. CASE AssembleFile
  <2>1. UNCHANGED <<latest, published>> /\ pc \in FitSteps
    BY <1>1 DEF AssembleFile
  <2>2. dest \in Dests /\ meta \in Plain /\ \A f \in Products : out[f] \in Plain
    BY <2>1 DEF BuildInv, Types, Assembled, Plain, Sources
  <2>3. <<Holds("image"), Holds("dtb"), Holds("misc")>> \in Fits
    BY <2>2 DEF Contents, Holds, Fits, Products
  <2>4. \/ UNCHANGED dists
        \/ \E f \in Products : Write(f, out[f])
        \/ Write("misc", meta)
        \/ Write("itb", <<Holds("image"), Holds("dtb"), Holds("misc")>>)
        \/ Write("sums", [f \in Files \ {"sums"} |-> Holds(f)])
    BY <1>1, NextFile DEF Products
  <2>5. /\ Products \subseteq Files /\ {"misc", "itb", "sums"} \subseteq Files
        /\ "itb" \notin Products \cup {"misc"} /\ "sums" \notin Products \cup {"misc", "itb"}
        /\ "misc" \notin Products
    BY DEF Products, Files
  <2>6. CASE \E f \in Products : Write(f, out[f])
    BY <2>1, <2>2, <2>5, <2>6, ContentsWrite
  <2>7. CASE Write("misc", meta)
    BY <2>1, <2>2, <2>5, <2>7, ContentsWrite
  <2>8. CASE Write("itb", <<Holds("image"), Holds("dtb"), Holds("misc")>>)
    BY <2>1, <2>3, <2>5, <2>8, ContentsWrite
  <2>9. CASE Write("sums", [f \in Files \ {"sums"} |-> Holds(f)])
    BY <2>1, <2>5, <2>9, ContentsWrite
  <2>10. CASE UNCHANGED dists
    BY <2>1, <2>10 DEF Contents
  <2> QED
    BY <2>4, <2>6, <2>7, <2>8, <2>9, <2>10
<1>2. CASE FitStepFails
  <2>1. UNCHANGED <<latest, published>>
    BY <1>2 DEF FitStepFails
  <2>2. CASE UNCHANGED dists
    BY <2>1, <2>2 DEF Contents
  <2>3. CASE pc \in FitSteps /\ \E f \in Files : Write(f, Torn)
    <3>1. Torn \in Plain /\ Torn \in Fits
      BY DEF Plain, Fits
    <3> QED
      BY <2>1, <2>3, <3>1, ContentsWrite
  <2> QED
    BY <1>2, <2>2, <2>3 DEF FitStepFails, FitSteps, Files
<1>3. CASE Publish
  BY <1>3 DEF Publish, Contents
<1>4. CASE ~AssembleFile /\ ~FitStepFails /\ ~Publish
  <2>1. UNCHANGED <<dists, latest, published>>
    BY <1>4
       DEF Next, Script, Operator, KernelGoesOn, FitGoesOn, StartKernel, CheckTree,
         ApplyPatches, Configure, Make, CheckKernel, KernelStepFails, StartFit,
         CheckSize, EditMeta, EditTree, Settle, Tick, vars, distState
  <2> QED
    BY <2>1 DEF Contents
<1> QED
  BY <1>1, <1>2, <1>3, <1>4

\* Every variable keeps its type, also when a directory is written again in
\* its minute: a file holds a revision's content, or is missing or cut short,
\* the FIT is made of three such files, and dist/latest points to nothing that
\* was not published.
THEOREM TypeCorrect == Spec => []TypeOK
<1>1. Init => Contents
  <2> SUFFICES ASSUME Init PROVE Contents
    OBVIOUS
  <2>1. \A d \in Dests : \A f \in Files : dists[d][f] = NoFile
    BY DEF Init
  <2> QED
    BY <2>1 DEF Init, Contents, Products, Files, Plain, Fits
<1>2. BuildInv /\ Contents => TypeOK
  BY DEF BuildInv, Types, Contents, TypeOK
<1> QED
  BY <1>1, <1>2, ContentsStep, BuildInvHolds, PTL DEF Spec

\* build-kernel.sh says OK only with a release, an image, a device tree and
\* modules that all come from the revision in $META, after any sequence of
\* failed and interrupted builds and of edits to the kernel tree.
THEOREM KernelBuilt == Spec => BuiltFromMeta
<1>1. BuildInv /\ [Next]_vars =>
        [kernel' = "built" /\ kernel # "built"
           => krel = KrelOf[meta] /\ \A f \in Products : out[f] = meta]_vars
  <2> SUFFICES ASSUME BuildInv, [Next]_vars, kernel' = "built", kernel # "built"
               PROVE  krel = KrelOf[meta] /\ \A f \in Products : out[f] = meta
    OBVIOUS
  <2>1. CheckKernel
    BY DEF Next, Script, Operator, KernelGoesOn, FitGoesOn, StartKernel,
       CheckTree,
         ApplyPatches, Configure, Make, KernelStepFails, KernelFails, StartFit,
         AssembleFile, CheckSize, Publish, FitStepFails, EditMeta, EditTree, Settle, Tick,
         vars
  <2>2. QED
    BY <2>1 DEF CheckKernel, BuildInv, Building
<1>2. QED
  BY <1>1, BuildInvHolds, PTL DEF Spec, BuiltFromMeta

\* The order of the minutes holds of every reachable state.
LEMMA YoungerHolds == ~RetryInMinute => (Spec => []Younger)
<1> SUFFICES ASSUME ~RetryInMinute PROVE Spec => []Younger
  OBVIOUS
<1>1. Init => Younger
  BY InitInv
<1>2. BuildInv /\ Younger /\ [Next]_vars => Younger'
  BY YoungerStep
<1>3. QED
  BY <1>1, <1>2, BuildInvHolds, PTL DEF Spec

\* Whoever starts build-fit at most once a minute never has a script touch the
\* files of a published dist again, which is what makes it a rollback.
THEOREM DistFixed == ~RetryInMinute => (Spec => PublishedFixed)
<1> SUFFICES ASSUME ~RetryInMinute PROVE Spec => PublishedFixed
  OBVIOUS
<1>1. BuildInv /\ Younger /\ [Next]_vars =>
        [\A d \in published : dists'[d] = dists[d]]_vars
  BY PublishedKept
<1>2. QED
  BY <1>1, BuildInvHolds, YoungerHolds, PTL DEF Spec, PublishedFixed

\* ... and every dist that dist/latest has ever named is complete, has a FIT of
\* its own files that is small enough for p3, and matching sums, also while
\* later builds run and after they failed at any command.  That its files are
\* one build's is shown for those that build-fit made after a build-kernel that
\* said OK; for the others, which the script makes as well, it is not true.
THEOREM DistValid == ~RetryInMinute => (Spec => []PublishedValid)
<1> SUFFICES ASSUME ~RetryInMinute PROVE Spec => []PublishedValid
  OBVIOUS
<1>1. Init => PublishedValid
  BY InitInv
<1>2. BuildInv /\ Younger /\ PublishedValid /\ [Next]_vars => PublishedValid'
  <2> SUFFICES ASSUME BuildInv, Younger, PublishedValid, [Next]_vars,
                      NEW d \in published'
               PROVE  SelfContained(d)' /\ (d \in chained' => OneBuild(d)')
    BY DEF PublishedValid
  <2>1. CASE Publish /\ d = dest
    <3>1. /\ SelfContained(d) /\ (kernel = "built" => OneBuild(d))
          /\ dists' = dists /\ (d \in chained' => kernel = "built")
      BY <2>1, PublishValid DEF Publish
    <3>2. QED
      BY <3>1 DEF SelfContained, OneBuild
  <2>2. CASE ~(Publish /\ d = dest)
    <3>1. d \in published /\ (d \in chained' => d \in chained)
      BY <2>2
         DEF Next, Script, Operator, KernelGoesOn, FitGoesOn, StartKernel, CheckTree,
           ApplyPatches, Configure, Make, CheckKernel, KernelStepFails, StartFit,
           AssembleFile, CheckSize, Publish, FitStepFails, EditMeta, EditTree, Settle,
           Tick, vars, gitState, outState, distState
    <3>2. SelfContained(d) /\ (d \in chained => OneBuild(d)) /\ dists'[d] = dists[d]
      BY <3>1, PublishedKept DEF PublishedValid
    <3>3. QED
      BY <3>1, <3>2 DEF SelfContained, OneBuild
  <2>3. QED
    BY <2>1, <2>2
<1>3. QED
  BY <1>1, <1>2, BuildInvHolds, YoungerHolds, PTL DEF Spec
=============================================================================
