------------------------- MODULE StageModulesProofs -------------------------
(***************************************************************************)
(* Proofs about StageModules, for any set of builds, releases and module   *)
(* files and any number of runs, surviving shells and power losses.        *)
(***************************************************************************)
EXTENDS StageModules, TLAPS

\* A run has a shell once it is past Install, and no later run has one; the
\* scratch directory is then its own or gone.
Order ==
  /\ scratch <= run
  /\ \A r \in Runs : r > run => shell[r] = "none"
  /\ pc \in PushSteps => run \in Runs /\ shell[run] = "none"
  /\ pc = "wait" => run \in Runs
  /\ run \in Runs /\ shell[run] # "none" => scratch \in {0, run}

\* The module files that the last run's shell has copied by now, and what comes
\* after.
Staging ==
  LET b == build[run]
  IN  run \in Runs =>
        /\ shell[run] = "copy" =>
             \A f \in ModsOf[b] \ todo[run] : target[KrelOf[b]][f] = b
        /\ shell[run] = "depmod" => \A f \in ModsOf[b] : target[KrelOf[b]][f] = b
        /\ shell[run] \in {"firmware", "cleanup", "exit0"} => Complete(b)
        /\ shell[run] \in {"cleanup", "exit0"} => fw = b

\* What is written, or not written back yet, is of a release that is touched.
Touched ==
  /\ \A r \in Runs : shell[r] \in ShellSteps => KrelAt(r) \in touched
  /\ pc \in PushSteps => KrelAt(run) \in touched
  /\ \A k \in Krels, f \in Files : <<k, f>> \in unsynced => k \in touched

\* No shell that can still write module files works on a release that was
\* reported OK, and none will be started.
Left ==
  \A b \in ok :
    /\ pc \in PushSteps \cup {"wait"} => KrelAt(run) # KrelOf[b]
    /\ \A r \in Runs : shell[r] \in {"extract", "copy"} /\ KrelAt(r) = KrelOf[b]
                         => scratch # r

IInv == TypeOK /\ Order /\ Staging /\ Touched /\ Left /\ OkLasts

-----------------------------------------------------------------------------
\* The type of the module directories.
TargetType ==
  /\ target \in [Krels -> [Files -> UNION {Contents(f) : f \in Files}]]
  /\ \A k \in Krels, f \in Files : target[k][f] \in Contents(f)

\* What cp and depmod write is a file's content.
LEMMA Written ==
  /\ \A b \in Builds, f \in Files : Packed(b, f) \in Contents(f)
  /\ \A k \in Krels : TypeOK => IndexOver(target[k]) \in Indexes
<1> USE StageAssumption
<1>1. \A b \in Builds, f \in Files : Packed(b, f) \in Contents(f)
  BY DEF Packed, Contents, IndexOf, Indexes
<1>2. ASSUME NEW k \in Krels, TypeOK PROVE IndexOver(target[k]) \in Indexes
  <2>1. \A f \in Mods : target[k][f] \in {NoFile, Torn} \cup Builds
    BY <1>2 DEF TypeOK, Contents, Files
  <2>2. QED
    BY <2>1 DEF IndexOver, Indexes
<1>3. QED
  BY <1>1, <1>2

\* Initially nothing is staged, and nothing reported.
LEMMA InitIInv == Init => IInv /\ RunningKeepsModules
<1> SUFFICES ASSUME Init PROVE IInv /\ RunningKeepsModules
  OBVIOUS
<1> USE StageAssumption DEF Init
<1>1. \A b \in Builds : IndexOf(b) \in Indexes
  BY DEF IndexOf, Indexes
<1>2. \A f \in Files : NoFile \in Contents(f)
  BY DEF Contents
<1>3. TargetType
  BY <1>2, Written DEF TargetType
<1>4. TypeOK
  <2>1. 0 \in 0..MaxRuns /\ 0 \in 0..MaxFaults
    OBVIOUS
  <2>2. QED
    BY <1>3, <2>1 DEF TypeOK, TargetType
<1>5. Order /\ Staging /\ Touched /\ Left /\ OkLasts
  BY DEF Order, Staging, Touched, Left, OkLasts, ShellSteps, PushSteps, Runs
<1>6. Complete(booted)
  BY <1>1 DEF Complete, Files, Packed
<1>7. QED
  BY <1>4, <1>5, <1>6 DEF IInv, RunningKeepsModules

\* Writing one file keeps the types.
LEMMA WriteType ==
  ASSUME TypeOK, NEW r \in Runs, NEW f \in Files, NEW v \in Contents(f), Write(r, f, v)
  PROVE  TargetType' /\ unsynced' \subseteq Krels \X Files
<1> USE StageAssumption
<1>1. KrelAt(r) \in Krels
  BY DEF KrelAt, TypeOK
<1>2. v \in UNION {Contents(g) : g \in Files}
  OBVIOUS
<1> DEFINE k == KrelAt(r)
           T == UNION {Contents(g) : g \in Files}
<1> HIDE DEF T
<1>3. target[k] \in [Files -> T]
  BY <1>1 DEF TypeOK, T
<1>4. [target[k] EXCEPT ![f] = v] \in [Files -> T]
  BY <1>2, <1>3 DEF T
<1>5. target' = [target EXCEPT ![k] = [target[k] EXCEPT ![f] = v]]
  BY DEF Write
<1>6. target' \in [Krels -> [Files -> T]]
  BY <1>1, <1>4, <1>5 DEF TypeOK, T
<1>7. ASSUME NEW j \in Krels, NEW g \in Files PROVE target'[j][g] \in Contents(g)
  <2>1. target'[j][g] = IF j = k /\ g = f THEN v ELSE target[j][g]
    BY <1>1, <1>3, <1>5 DEF TypeOK
  <2>2. QED
    BY <2>1 DEF TypeOK
<1>8. unsynced' \subseteq Krels \X Files
  <2>1. <<k, f>> \in Krels \X Files /\ unsynced' = unsynced \cup {<<k, f>>}
    BY <1>1 DEF Write
  <2>2. QED
    BY <2>1 DEF TypeOK
<1>9. QED
  BY <1>6, <1>7, <1>8 DEF TargetType, T

\* Types.
LEMMA TypeStep == TypeOK /\ Order /\ [Next]_vars => TypeOK'
<1> SUFFICES ASSUME TypeOK, Order, [Next]_vars PROVE TypeOK'
  OBVIOUS
<1> USE StageAssumption DEF TypeOK, script, remote, files, history, ShellSteps, PushSteps
<1>1. CASE Push
  BY <1>1 DEF Push
<1>2. CASE Install
  BY <1>2 DEF Install
<1>3. CASE SshFails
  BY <1>3 DEF SshFails
<1>4. CASE Returns
  <2>1. build[run] \in Builds
    BY <1>4 DEF Returns, Order
  <2>2. ok' \subseteq Builds
    BY <1>4, <2>1 DEF Returns
  <2>3. QED
    BY <1>4, <2>2 DEF Returns
<1>5. ASSUME NEW r \in Runs, Extract(r) PROVE TypeOK'
  BY <1>5 DEF Extract, Files
<1>6. ASSUME NEW r \in Runs, Copy(r) PROVE TypeOK'
  <2>1. CASE todo[r] = {} /\ UNCHANGED <<target, todo, unsynced>>
             /\ shell' = [shell EXCEPT ![r] = "depmod"]
    BY <1>6, <2>1 DEF Copy
  <2>2. ASSUME NEW f \in todo[r], Write(r, f, Packed(build[r], f)),
               todo' = [todo EXCEPT ![r] = @ \ {f}], UNCHANGED shell
        PROVE  TypeOK'
    <3>1. TargetType' /\ unsynced' \subseteq Krels \X Files
      BY <2>2, Written, WriteType
    <3>2. QED
      BY <1>6, <2>2, <3>1 DEF Copy, TargetType
  <2>3. QED
    BY <1>6, <2>1, <2>2 DEF Copy
<1>7. ASSUME NEW r \in Runs, Depmod(r) PROVE TypeOK'
  <2>1. TargetType' /\ unsynced' \subseteq Krels \X Files
    <3>1. KrelAt(r) \in Krels /\ Dep \in Files
      BY DEF KrelAt, Files
    <3>2. IndexOver(target[KrelAt(r)]) \in Contents(Dep)
      BY <3>1, Written DEF Contents
    <3>3. QED
      BY <1>7, <3>1, <3>2, WriteType DEF Depmod
  <2>2. QED
    BY <1>7, <2>1 DEF Depmod, TargetType
<1>8. ASSUME NEW r \in Runs, Finish(r) PROVE TypeOK'
  <2>1. 0 \in 0..MaxRuns /\ build[r] \in Builds
    OBVIOUS
  <2>2. QED
    BY <1>8, <2>1 DEF Finish
<1>9. ASSUME NEW r \in Runs, RemoteExit(r) PROVE TypeOK'
  <2>1. TargetType' /\ unsynced' \subseteq Krels \X Files
    <3>1. CASE UNCHANGED <<target, unsynced>>
      BY <3>1 DEF TargetType
    <3>2. CASE \E f \in todo[r] : Write(r, f, Torn)
      <4> PICK f \in todo[r] : Write(r, f, Torn)
        BY <3>2
      <4>1. f \in Files /\ Torn \in Contents(f)
        BY DEF Contents
      <4>2. QED
        BY <4>1, WriteType
    <3>3. QED
      BY <1>9, <3>1, <3>2 DEF RemoteExit
  <2>2. QED
    BY <1>9, <2>1 DEF RemoteExit, TargetType
<1>10. CASE PowerLoss
  <2>1. TargetType'
    <3>1. \A f \in Files : Torn \in Contents(f)
      BY DEF Contents
    <3>2. PICK lost \in SUBSET unsynced :
            target' = [k \in Krels |-> [f \in Files |->
                         IF <<k, f>> \in lost THEN Torn ELSE target[k][f]]]
      BY <1>10 DEF PowerLoss
    <3>3. ASSUME NEW k \in Krels, NEW f \in Files
          PROVE  target'[k][f] \in Contents(f)
      BY <3>1, <3>2
    <3>4. ASSUME NEW k \in Krels
          PROVE  target'[k] \in [Files -> UNION {Contents(f) : f \in Files}]
      <4> DEFINE T == UNION {Contents(f) : f \in Files}
      <4>1. \A f \in Files : target'[k][f] \in T
        BY <3>3
      <4>2. target'[k] = [f \in Files |-> target'[k][f]]
        BY <3>2
      <4> HIDE DEF T
      <4>3. target'[k] \in [Files -> T]
        BY <4>1, <4>2
      <4>4. QED
        BY <4>3 DEF T
    <3>5. target' = [k \in Krels |-> target'[k]]
      BY <3>2
    <3>6. QED
      BY <3>3, <3>4, <3>5 DEF TargetType
  <2>2. cut' \subseteq Krels /\ unsynced' = {} /\ faults' \in 0..MaxFaults
        /\ fw' \in Builds \cup {Torn}
    BY <1>10 DEF PowerLoss
  <2>3. shell' \in [Runs -> ShellSteps \cup {"none", "exit0", "exit1"}]
        /\ todo' \in [Runs -> SUBSET Files] /\ scratch' \in 0..MaxRuns
    BY <1>10 DEF PowerLoss, KillShells
  <2>4. QED
    BY <1>10, <2>1, <2>2, <2>3 DEF PowerLoss, TargetType
<1>11. CASE WriteBack
  BY <1>11 DEF WriteBack
<1>12. CASE Reboot
  <2>1. shell' \in [Runs -> ShellSteps \cup {"none", "exit0", "exit1"}]
        /\ todo' \in [Runs -> SUBSET Files] /\ scratch' \in 0..MaxRuns
    BY <1>12 DEF Reboot, KillShells
  <2>2. touched' \subseteq Krels /\ unsynced' \subseteq Krels \X Files
    BY <1>12 DEF Reboot
  <2>3. QED
    BY <1>12, <2>1, <2>2 DEF Reboot
<1>13. ASSUME NEW b \in Builds, Start(b) PROVE TypeOK'
  <2>1. run' \in 0..MaxRuns /\ KrelOf[b] \in Krels
    BY <1>13 DEF Start
  <2>2. ok' \subseteq Builds /\ cut' \subseteq Krels /\ touched' \subseteq Krels
    BY <1>13, <2>1 DEF Start
  <2>3. build' \in [Runs -> Builds]
    BY <1>13 DEF Start
  <2>4. QED
    BY <1>13, <2>1, <2>2, <2>3 DEF Start
<1>14. ASSUME NEW b \in Builds, CheckModules(b) PROVE TypeOK'
  BY <1>14 DEF CheckModules
<1>15. CASE UNCHANGED vars
  BY <1>15 DEF vars
<1>16. QED
  BY <1>1, <1>2, <1>3, <1>4, <1>5, <1>6, <1>7, <1>8, <1>9, <1>10, <1>11, <1>12,
     <1>13, <1>14, <1>15 DEF Next, Script, Remote

\* Runs, shells and the scratch directory.
LEMMA OrderStep == TypeOK /\ Order /\ [Next]_vars => Order'
<1> SUFFICES ASSUME TypeOK, Order, [Next]_vars PROVE Order'
  OBVIOUS
<1> USE StageAssumption DEF TypeOK, Order, script, remote, files, history, ShellSteps,
        PushSteps, Runs
<1>1. CASE Push
  BY <1>1 DEF Push
<1>2. CASE Install
  BY <1>2 DEF Install
<1>3. CASE SshFails
  BY <1>3 DEF SshFails
<1>4. CASE Returns
  BY <1>4 DEF Returns
<1>5. ASSUME NEW r \in Runs, Extract(r) PROVE Order'
  BY <1>5 DEF Extract
<1>6. ASSUME NEW r \in Runs, Copy(r) PROVE Order'
  BY <1>6 DEF Copy
<1>7. ASSUME NEW r \in Runs, Depmod(r) PROVE Order'
  BY <1>7 DEF Depmod
<1>8. ASSUME NEW r \in Runs, Finish(r) PROVE Order'
  BY <1>8 DEF Finish
<1>9. ASSUME NEW r \in Runs, RemoteExit(r) PROVE Order'
  BY <1>9 DEF RemoteExit
<1>10. CASE PowerLoss
  BY <1>10 DEF PowerLoss, KillShells
<1>11. CASE WriteBack
  BY <1>11 DEF WriteBack
<1>12. CASE Reboot
  BY <1>12 DEF Reboot, KillShells
<1>13. ASSUME NEW b \in Builds, Start(b) PROVE Order'
  BY <1>13 DEF Start
<1>14. ASSUME NEW b \in Builds, CheckModules(b) PROVE Order'
  BY <1>14 DEF CheckModules
<1>15. CASE UNCHANGED vars
  BY <1>15 DEF vars
<1>16. QED
  BY <1>1, <1>2, <1>3, <1>4, <1>5, <1>6, <1>7, <1>8, <1>9, <1>10, <1>11, <1>12,
     <1>13, <1>14, <1>15 DEF Next, Script, Remote

\* What a step does to the modules of a release: nothing, a copy by the shell
\* that has its scratch directory, a new index, or a loss.
LEMMA Writes ==
  ASSUME TypeOK, [Next]_vars, NEW k \in Krels
  PROVE  \/ target'[k] = target[k]
         \/ PowerLoss
         \/ \E r \in Runs : shell[r] = "copy" /\ scratch = r /\ KrelAt(r) = k
         \/ \E r \in Runs :
              /\ shell[r] = "depmod" /\ KrelAt(r) = k
              /\ target'[k] = [target[k] EXCEPT ![Dep] = IndexOver(target[k])]
<1> USE StageAssumption DEF TypeOK
<1>1. CASE Script \/ WriteBack \/ Reboot \/ UNCHANGED vars
  BY <1>1 DEF Script, Push, Install, SshFails, Returns, WriteBack, Reboot, files, vars
<1>2. CASE \E r \in Runs : Extract(r) \/ Finish(r)
  BY <1>2 DEF Extract, Finish, files
<1>3. CASE \E r \in Runs : Copy(r)
  BY <1>3 DEF Copy, Write
<1>4. CASE \E r \in Runs : Depmod(r)
  BY <1>4 DEF Depmod, Write, KrelAt
<1>5. CASE \E r \in Runs : RemoteExit(r)
  BY <1>5 DEF RemoteExit, Write, files
<1>6. CASE \E b \in Builds : Start(b) \/ CheckModules(b)
  BY <1>6 DEF Start, CheckModules, files
<1>7. QED
  BY <1>1, <1>2, <1>3, <1>4, <1>5, <1>6 DEF Next, Remote

\* depmod makes an index that has every module that is in place.
LEMMA IndexMade ==
  ASSUME TypeOK, NEW b \in Builds, \A f \in ModsOf[b] : target[KrelOf[b]][f] = b,
         target'[KrelOf[b]]
           = [target[KrelOf[b]] EXCEPT ![Dep] = IndexOver(target[KrelOf[b]])]
  PROVE  Complete(b)'
<1> USE StageAssumption
<1> DEFINE k == KrelOf[b]
<1>1. k \in Krels /\ target[k] \in [Files -> UNION {Contents(f) : f \in Files}]
  BY DEF TypeOK
<1>2. target'[k][Dep] = IndexOver(target[k])
  BY <1>1 DEF Files
<1>3. \A f \in ModsOf[b] : target'[k][f] = b
  BY <1>1 DEF Files
<1>4. IndexOver(target[k]) \in Indexes
  BY <1>1, Written
<1>5. IndexOf(b) \subseteq IndexOver(target[k])
  BY DEF IndexOf, IndexOver
<1>6. QED
  BY <1>2, <1>3, <1>4, <1>5 DEF Complete

\* Each step of the last run's shell leaves its part in place; no older shell
\* has a scratch directory to copy from.
LEMMA StagingStep == TypeOK /\ Order /\ Staging /\ [Next]_vars => Staging'
<1> SUFFICES ASSUME TypeOK, Order, Staging, [Next]_vars PROVE Staging'
  OBVIOUS
<1> USE StageAssumption DEF script, remote, files, history
<1> DEFINE b == build[run]
           k == KrelOf[b]
<1>1. CASE Script \/ WriteBack \/ UNCHANGED vars \/ \E c \in Builds : CheckModules(c)
  BY <1>1 DEF Script, Push, Install, SshFails, Returns, WriteBack, CheckModules, vars,
     Staging, Complete, TypeOK
<1>2. CASE Reboot \/ PowerLoss
  BY <1>2 DEF Reboot, PowerLoss, KillShells, Staging, TypeOK
<1>3. CASE \E c \in Builds : Start(c)
  <2>1. run' \in Runs /\ run' > run /\ shell'[run'] = "none"
    BY <1>3 DEF Start, TypeOK, Order, Runs
  <2>2. QED
    BY <2>1 DEF Staging
<1>4. CASE run \in Runs /\ Remote(run)
  <2>1. b \in Builds /\ k \in Krels /\ run' = run /\ build' = build
    BY <1>4 DEF TypeOK, Remote, Extract, Copy, Depmod, Finish, RemoteExit
  <2>2. CASE Extract(run)
    BY <1>4, <2>1, <2>2 DEF Staging, Extract, TypeOK
  <2>3. CASE Copy(run)
    <3>1. CASE \E f \in todo[run] : Write(run, f, Packed(b, f))
                 /\ todo' = [todo EXCEPT ![run] = @ \ {f}] /\ UNCHANGED shell
      BY <1>4, <2>1, <2>3, <3>1
         DEF Staging, Copy, TypeOK, Write, Packed, KrelAt, Files
    <3>2. CASE todo[run] = {} /\ shell' = [shell EXCEPT ![run] = "depmod"]
               /\ UNCHANGED <<target, todo, unsynced>>
      BY <1>4, <2>1, <2>3, <3>2 DEF Staging, Copy, TypeOK
    <3>3. QED
      BY <2>3, <3>1, <3>2 DEF Copy
  <2>4. CASE Depmod(run)
    <3>1. target'[k] = [target[k] EXCEPT ![Dep] = IndexOver(target[k])]
      BY <2>1, <2>4 DEF Depmod, Write, KrelAt, TypeOK
    <3>2. Complete(b)' /\ shell'[run] = "firmware"
      BY <1>4, <2>1, <2>4, <3>1, IndexMade DEF Depmod, Staging, TypeOK
    <3>3. QED
      BY <1>4, <2>1, <3>2 DEF Staging
  <2>5. CASE Finish(run)
    BY <1>4, <2>1, <2>5 DEF Finish, Staging, TypeOK, Complete
  <2>6. CASE RemoteExit(run)
    BY <1>4, <2>1, <2>6 DEF RemoteExit, Staging, TypeOK
  <2>7. QED
    BY <1>4, <2>2, <2>3, <2>4, <2>5, <2>6 DEF Remote
<1>5. ASSUME NEW r \in Runs, r # run, Remote(r) PROVE Staging'
  <2>1. run' = run /\ build' = build
    BY <1>5 DEF Remote, Extract, Copy, Depmod, Finish, RemoteExit
  <2> SUFFICES ASSUME run \in Runs, shell[run] # "none" PROVE Staging'
    BY <1>5, <2>1
       DEF Staging, Remote, Extract, Copy, Depmod, Finish, RemoteExit, TypeOK
  <2>2. b \in Builds /\ k \in Krels
    BY DEF TypeOK
  <2>3. scratch # r
    BY <1>5 DEF Order, Runs
  <2>4. /\ shell'[run] = shell[run] /\ todo'[run] = todo[run] /\ fw' = fw
        /\ \/ target' = target
           \/ Depmod(r)
    BY <1>5, <2>3
       DEF Remote, Extract, Copy, Depmod, Finish, RemoteExit, TypeOK
  <2>5. CASE target' = target
    BY <2>1, <2>2, <2>4, <2>5 DEF Staging, Complete
  <2>6. CASE Depmod(r)
    <3>1. CASE KrelAt(r) # k
      <4>1. target'[k] = target[k]
        BY <2>2, <2>6, <3>1 DEF Depmod, Write, TypeOK
      <4>2. QED
        BY <2>1, <2>2, <2>4, <4>1 DEF Staging, Complete
    <3>2. CASE KrelAt(r) = k
      <4>1. target'[k] = [target[k] EXCEPT ![Dep] = IndexOver(target[k])]
        BY <2>2, <2>6, <3>2 DEF Depmod, Write, TypeOK
      <4>2. \A f \in Mods : target'[k][f] = target[k][f]
        BY <2>2, <4>1 DEF TypeOK, Files
      <4>3. shell[run] \in {"firmware", "cleanup", "exit0"} => Complete(b)'
        <5>1. shell[run] \in {"firmware", "cleanup", "exit0"}
                => \A f \in ModsOf[b] : target[k][f] = b
          BY DEF Staging, Complete
        <5>2. QED
          BY <2>1, <2>2, <4>1, <5>1, IndexMade DEF Complete
      <4>4. QED
        BY <2>1, <2>2, <2>4, <4>2, <4>3 DEF Staging
    <3>3. QED
      BY <3>1, <3>2
  <2>7. QED
    BY <2>4, <2>5, <2>6
<1>6. QED
  BY <1>1, <1>2, <1>3, <1>4, <1>5 DEF Next

\* Only a run touches a release, and a flash syncs it.
LEMMA TouchedStep == TypeOK /\ Order /\ Touched /\ [Next]_vars => Touched'
<1> SUFFICES ASSUME TypeOK, Order, Touched, [Next]_vars PROVE Touched'
  OBVIOUS
<1> USE StageAssumption DEF TypeOK, Touched, Order, KrelAt, script, remote, files,
        history, ShellSteps, PushSteps
<1>1. CASE Push
  BY <1>1 DEF Push
<1>2. CASE Install
  BY <1>2 DEF Install
<1>3. CASE SshFails
  BY <1>3 DEF SshFails
<1>4. CASE Returns
  BY <1>4 DEF Returns
<1>5. ASSUME NEW r \in Runs, Extract(r) PROVE Touched'
  BY <1>5 DEF Extract
<1>6. ASSUME NEW r \in Runs, Copy(r) PROVE Touched'
  BY <1>6 DEF Copy, Write
<1>7. ASSUME NEW r \in Runs, Depmod(r) PROVE Touched'
  BY <1>7 DEF Depmod, Write
<1>8. ASSUME NEW r \in Runs, Finish(r) PROVE Touched'
  BY <1>8 DEF Finish
<1>9. ASSUME NEW r \in Runs, RemoteExit(r) PROVE Touched'
  BY <1>9 DEF RemoteExit, Write
<1>10. CASE PowerLoss
  BY <1>10 DEF PowerLoss, KillShells
<1>11. CASE WriteBack
  BY <1>11 DEF WriteBack
<1>12. CASE Reboot
  BY <1>12 DEF Reboot, KillShells
<1>13. ASSUME NEW b \in Builds, Start(b) PROVE Touched'
  BY <1>13 DEF Start, Runs
<1>14. ASSUME NEW b \in Builds, CheckModules(b) PROVE Touched'
  BY <1>14 DEF CheckModules
<1>15. CASE UNCHANGED vars
  BY <1>15 DEF vars
<1>16. QED
  BY <1>1, <1>2, <1>3, <1>4, <1>5, <1>6, <1>7, <1>8, <1>9, <1>10, <1>11, <1>12,
     <1>13, <1>14, <1>15 DEF Next, Script, Remote

\* A build is reported when no older shell has its scratch directory, and the
\* report is struck out before its release is staged again.
LEMMA LeftStep == TypeOK /\ Order /\ Left /\ [Next]_vars => Left'
<1> SUFFICES ASSUME TypeOK, Order, Left, [Next]_vars PROVE Left'
  OBVIOUS
<1> USE StageAssumption DEF TypeOK, Left, Order, KrelAt, script, remote, files,
        history, ShellSteps, PushSteps
<1>1. CASE Push
  BY <1>1 DEF Push
<1>2. CASE Install
  BY <1>2 DEF Install
<1>3. CASE SshFails
  BY <1>3 DEF SshFails
<1>4. CASE Returns
  <2>1. run \in Runs /\ scratch \in {0, run} /\ shell[run] \notin {"extract", "copy"}
    BY <1>4 DEF Returns
  <2>2. \A r \in Runs : shell[r] \in {"extract", "copy"} => scratch # r
    BY <2>1 DEF Runs
  <2>3. QED
    BY <1>4, <2>2 DEF Returns
<1>5. ASSUME NEW r \in Runs, Extract(r) PROVE Left'
  BY <1>5 DEF Extract
<1>6. ASSUME NEW r \in Runs, Copy(r) PROVE Left'
  BY <1>6 DEF Copy
<1>7. ASSUME NEW r \in Runs, Depmod(r) PROVE Left'
  BY <1>7 DEF Depmod
<1>8. ASSUME NEW r \in Runs, Finish(r) PROVE Left'
  BY <1>8 DEF Finish, Runs
<1>9. ASSUME NEW r \in Runs, RemoteExit(r) PROVE Left'
  BY <1>9 DEF RemoteExit
<1>10. CASE PowerLoss
  BY <1>10 DEF PowerLoss, KillShells
<1>11. CASE WriteBack
  BY <1>11 DEF WriteBack
<1>12. CASE Reboot
  BY <1>12 DEF Reboot, KillShells
<1>13. ASSUME NEW b \in Builds, Start(b) PROVE Left'
  BY <1>13 DEF Start, Runs
<1>14. ASSUME NEW b \in Builds, CheckModules(b) PROVE Left'
  BY <1>14 DEF CheckModules
<1>15. CASE UNCHANGED vars
  BY <1>15 DEF vars
<1>16. QED
  BY <1>1, <1>2, <1>3, <1>4, <1>5, <1>6, <1>7, <1>8, <1>9, <1>10, <1>11, <1>12,
     <1>13, <1>14, <1>15 DEF Next, Script, Remote

\* What was reported OK stays in place.
LEMMA OkLastsStep == IInv /\ [Next]_vars => OkLasts'
<1> SUFFICES ASSUME IInv, [Next]_vars, NEW b \in Builds, b \in ok',
                    KrelOf[b] \notin cut'
             PROVE  Complete(b)'
  BY TypeStep DEF IInv, OkLasts, TypeOK
<1> USE StageAssumption DEF IInv, TypeOK
<1> DEFINE k == KrelOf[b]
<1>1. k \in Krels
  OBVIOUS
<1>2. CASE b \notin ok
  <2>1. Returns /\ shell[run] = "exit0" /\ b = build[run] /\ run \in Runs
    BY <1>2 DEF Next, Script, Remote, Push, Install, SshFails, Returns, Extract, Copy,
         Depmod, Finish, RemoteExit, PowerLoss, WriteBack, Reboot, Start,
         CheckModules, Order, history, vars
  <2>2. QED
    BY <2>1 DEF Returns, Staging, Complete, files
<1>3. CASE b \in ok
  <2>1. k \notin cut
    BY <1>3 DEF Next, Script, Remote, Push, Install, SshFails, Returns, Extract, Copy,
         Depmod, Finish, RemoteExit, PowerLoss, WriteBack, Reboot, Start,
         CheckModules, history, vars
  <2>2. Complete(b)
    BY <1>3, <2>1 DEF OkLasts
  <2>3. CASE target'[k] = target[k]
    BY <2>2, <2>3 DEF Complete
  <2>4. CASE PowerLoss
    <3>1. PICK lost \in SUBSET unsynced :
            /\ target' = [j \in Krels |-> [f \in Files |->
                            IF <<j, f>> \in lost THEN Torn ELSE target[j][f]]]
            /\ cut' = cut \cup {j \in Krels : \E f \in Files : <<j, f>> \in lost}
      BY <2>4 DEF PowerLoss
    <3>2. \A f \in Files : target'[k][f] = target[k][f]
      BY <1>1, <3>1
    <3>3. QED
      BY <2>2, <3>2 DEF Complete, Files
  <2>5. CASE \E r \in Runs : shell[r] = "copy" /\ scratch = r /\ KrelAt(r) = k
    BY <1>3, <2>5 DEF Left
  <2>6. CASE target'[k] = [target[k] EXCEPT ![Dep] = IndexOver(target[k])]
    BY <2>2, <2>6, IndexMade DEF Complete
  <2>7. QED
    BY <1>1, <2>3, <2>4, <2>5, <2>6, Writes
<1>4. QED
  BY <1>2, <1>3

\* IInv holds of every reachable state.
LEMMA IInvHolds == Spec => []IInv
<1>1. Init => IInv
  BY InitIInv
<1>2. IInv /\ [Next]_vars => IInv'
  BY TypeStep, OrderStep, StagingStep, TouchedStep, LeftStep, OkLastsStep DEF IInv
<1>3. QED
  BY <1>1, <1>2, PTL DEF Spec

\* The types of the box's directories and of the script's progress.
THEOREM TypeCorrect == Spec => []TypeOK
<1>1. IInv => TypeOK
  BY DEF IInv
<1>2. QED
  BY <1>1, IInvHolds, PTL

\* stage-modules.sh prints its OK only with every module of this very build, an
\* index that has them and its firmware in place, whatever runs before it were
\* cut short at whatever file and whichever of their shells still live.
THEOREM OkStaged == Spec => OkMeansStaged
<1>1. IInv /\ [Next]_vars =>
        [report' = "ok" /\ report # "ok"
           => Complete(build[run]) /\ fw = build[run]]_vars
  <2> SUFFICES ASSUME IInv, [Next]_vars, report' = "ok", report # "ok"
               PROVE  Complete(build[run]) /\ fw = build[run]
    OBVIOUS
  <2>1. Returns /\ shell[run] = "exit0"
    BY DEF Next, Script, Remote, Push, Install, SshFails, Returns, Extract, Copy,
         Depmod, Finish, RemoteExit, PowerLoss, WriteBack, Reboot, Start,
         CheckModules, script, vars
  <2>2. QED
    BY <2>1 DEF IInv, Returns, Order, Staging
<1>2. QED
  BY <1>1, IInvHolds, PTL DEF Spec, OkMeansStaged

\* What stage-modules.sh reported OK stays in place until its release is staged
\* again: a shell that outlived the connection of an earlier run of the same
\* release may still run depmod there, and remove the scratch directory, but it
\* copies nothing more.  Releases that lost data with the power before it was
\* written back are excepted, for the script does not sync.
THEOREM OkStays == Spec => []OkLasts
<1>1. IInv => OkLasts
  BY DEF IInv
<1>2. QED
  BY <1>1, IInvHolds, PTL

\* A step keeps the modules of the running kernel.
LEMMA RunningStep ==
  ASSUME IInv, RunningKeepsModules, [Next]_vars
  PROVE  RunningKeepsModules'
<1> USE StageAssumption DEF IInv, TypeOK
<1> SUFFICES ASSUME KrelOf[booted'] \notin touched' PROVE Complete(booted)'
  BY DEF RunningKeepsModules
<1>1. CASE Reboot
  BY <1>1 DEF Reboot, Complete
<1>2. CASE PowerLoss /\ booted' # booted
  <2>1. /\ pc = "flash" /\ booted' = image /\ Complete(image)
        /\ touched' = touched /\ KrelOf[image] \notin touched
    BY <1>2 DEF PowerLoss
  <2>2. \A f \in Files : target'[KrelOf[image]][f] = target[KrelOf[image]][f]
    BY <1>2, <2>1 DEF PowerLoss, Touched
  <2>3. QED
    BY <2>1, <2>2 DEF Complete, Files
<1>3. CASE ~Reboot /\ ~(PowerLoss /\ booted' # booted)
  <2> DEFINE k == KrelOf[booted]
  <2>1. booted' = booted /\ touched \subseteq touched' /\ k \in Krels
    BY <1>3 DEF Next, Script, Remote, Push, Install, SshFails, Returns, Extract, Copy,
         Depmod, Finish, RemoteExit, PowerLoss, WriteBack, Start, CheckModules,
         history, vars
  <2>2. Complete(booted) /\ k \notin touched
    BY <2>1 DEF RunningKeepsModules
  <2>3. CASE PowerLoss
    <3>1. \A f \in Files : target'[k][f] = target[k][f]
      BY <2>1, <2>2, <2>3 DEF PowerLoss, Touched
    <3>2. QED
      BY <2>1, <2>2, <3>1 DEF Complete, Files
  <2>4. CASE ~PowerLoss
    <3>1. target'[k] = target[k]
      <4>1. \A r \in Runs : shell[r] \in {"copy", "depmod"} => KrelAt(r) # k
        BY <2>2 DEF Touched, ShellSteps
      <4> HIDE DEF k
      <4>2. QED
        BY <2>1, <2>4, <4>1, Writes
    <3>2. QED
      BY <2>1, <2>2, <3>1 DEF Complete
  <2>5. QED
    BY <2>3, <2>4
<1>4. QED
  BY <1>1, <1>2, <1>3

\* Staging never harms the kernel that runs: if it was booted with its modules
\* it has them as long as its own release is not staged again, at whatever
\* moment a copy, a shell or the power fails, and whatever was flashed.
THEOREM RunningKept == Spec => []RunningKeepsModules
<1>1. Init => RunningKeepsModules
  BY InitIInv
<1>2. IInv /\ RunningKeepsModules /\ [Next]_vars => RunningKeepsModules'
  BY RunningStep
<1>3. QED
  BY <1>1, <1>2, IInvHolds, PTL DEF Spec
=============================================================================
