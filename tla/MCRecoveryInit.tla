--------------------------- MODULE MCRecoveryInit ---------------------------
(***************************************************************************)
(* Instances of RecoveryInit: sets of file systems it may find.            *)
(***************************************************************************)
EXTENDS RecoveryInit

Sub == Append(Modules, "6.18")
Leaf == Append(Sub, "ko")

MCPaths == {<<>>, A64, Modules, Sub, Leaf} \cup LinkerPaths
MCPayload == {LD, LD231}

\* The trees over Paths with nodes at most at the given paths: a directory
\* leads to every node.
TreesOver(paths, file) ==
  {t \in [Paths -> {"absent", "dir", file}] :
     /\ t[<<>>] = "dir"
     /\ \A p \in Paths \ paths : t[p] = "absent"
     /\ \A p \in Paths \ {<<>>} : t[p] # "absent" => t[Front(p)] = "dir"}

Only(node) == [p \in Paths |-> IF p = <<>> THEN node ELSE "absent"]

\* Every disagreement: any trees over the module directories, and over the
\* linker's directory, in each place.
MCMergeDisks ==
  [usr : TreesOver({<<>>, Modules, Sub, Leaf}, "usrfile")
           \cup TreesOver({<<>>, A64, Append(A64, LD), <<LD>>}, "usrfile"),
   old : TreesOver({<<>>, Modules, Sub, Leaf}, "oldfile"),
   lib : TreesOver({<<>>, Modules, Sub}, "libfile")
           \cup TreesOver({<<>>, A64, <<LD>>}, "libfile"),
   lib64 : {"link"}]

\* A few typical ones, for power cuts: /lib replaced by a directory, by a
\* file or missing; /lib_old with a module tree; /usr/lib a file.
Tree(dirs, files, file) ==
  [p \in Paths |-> IF p \in dirs THEN "dir" ELSE IF p \in files THEN file ELSE "absent"]

MCCrashDisks ==
  [usr : {Tree({<<>>, A64, Modules, Sub}, {Leaf, <<LD>>}, "usrfile"),
          Tree({<<>>, A64}, {Append(A64, LD), <<LD>>}, "usrfile"), Only("absent"),
          Only("usrfile")},
   old : {Tree({<<>>, Modules, Sub}, {Leaf}, "oldfile"), Only("absent")},
   lib : {Tree({<<>>, A64, Modules}, {Sub, Append(A64, LD)}, "libfile"),
          Tree({<<>>, Modules, Sub}, {Leaf}, "libfile"), Only("libfile"),
          Only("link"), Only("absent")},
   lib64 : {"empty", "full"}]

MCDisks == MCMergeDisks \cup MCCrashDisks
=============================================================================
