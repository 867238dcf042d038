-------------------------- MODULE RecoveryInitProofs --------------------------
(***************************************************************************)
(* Proofs about RecoveryInit, for any set of paths, any damaged file       *)
(* systems over them, and any number of power cuts and of failing calls.   *)
(***************************************************************************)
EXTENDS RecoveryInit, SequenceTheorems, TLAPS

\* The trees that are merged into /usr/lib.
Sources == {"old", "lib"}

\* A tree of nodes.
Good(t) == t \in [Paths -> Nodes] /\ IsTree(t)

\* The paths whose files the program may not lose.
Precious == Paths \ (LinkerPaths \cup {<<>>})

\* Every file of t is a file of u.
Keeps(t, u) == \A q \in Precious : t[q] \in Files => u[q] \in Files

\* A file system whose trees are trees.
Sane(f) == f \in FileSystems /\ \A t \in Trees : IsTree(f[t])

\* The file system f with u as its /usr/lib and v as its tree s.
With(f, s, u, v) == [f EXCEPT !.usr = u, ![s] = v]
WithSrc(f, s, v) == [f EXCEPT ![s] = v]

\* The /usr/lib that mkdirat may leave when the rename of p did not happen.
Offered(f, p) == {f.usr, IF IsDir(f.usr, <<>>) THEN Made(f.usr, p, "dir") ELSE f.usr}

\* No file of o is lost in f.
Kept(o, f) ==
  \A t \in Trees : \A p \in Precious :
    o[t][p] \in Files => f[t][p] \in Files \/ f.usr[p] \in Files

\* What merge_dir has open, when it merges the tree s in the directory c and
\* has the entries r to process: directories on both sides, and entries that
\* still exist, each in a directory on the way to c.
OnItsWay(f, s, c, r) ==
  /\ f[s][c] = "dir"
  /\ c # <<>> => f.usr[c] = "dir"
  /\ \A q \in r : /\ q # <<>> /\ IsPrefix(Front(q), c) /\ ~IsPrefix(q, c)
                  /\ f[s][q] # "absent"
Walk == pc = "merge" => OnItsWay(fs, src, cwd, todo)

\* The file that is written exists, and what is not on the disk yet is one of
\* the new linkers.
Late == {"unlink", "create", "write", "compat1", "compat2", "verify", "sync"}
Writes ==
  /\ pc = "write" => fs.usr[Copies[k].dst] \in Files
  /\ pc \notin Late => dirty = {}
  /\ \A p \in dirty : p \in LinkerPaths /\ fs.usr[p] = "new"
  /\ pc = "done" => disk = fs

Safe ==
  /\ TypeOK /\ Sane(fs) /\ Sane(disk) /\ Sane(orig)
  /\ Kept(orig, fs) /\ Kept(orig, disk) /\ Walk /\ Writes

-----------------------------------------------------------------------------
(* The merge, as long as no call fails.                                    *)

\* What /usr/lib holds at p, or will once the mkdirat calls are made.
Held(f, p) == Found(f, "usr", p)
Prepared(f) == \A p \in Paths : Held(f, p) = f.usr[p]

\* The overlay of the trees as they are now.
Merge(f, p) ==
  IF f.lib[p] # "absent" THEN f.lib[p]
  ELSE IF f.old[p] # "absent" THEN f.old[p] ELSE Held(f, p)

Agree(o) == \A p \in Paths : ~Clash(o, p)
Below == Paths \ {<<>>}

\* A tree that has been merged holds nothing where the trees agree, but for
\* directories on the way to where they do not.
Spent(o, f, t) ==
  \A p \in Below : ~Clash(o, p) =>
    \/ f[t][p] = "absent"
    \/ f[t][p] = "dir" /\ Held(f, p) = "dir" /\ ~Agree(o)

\* The trees only shrink, and what is in /usr/lib was found somewhere.
Shrunk(o, f) ==
  /\ Held(f, <<>>) = Held(o, <<>>)
  /\ \A t \in Sources :
       /\ f[t][<<>>] = "dir" => o[t][<<>>] = "dir"
       /\ \A p \in Below : f[t][p] \in {"absent", o[t][p]}
  /\ \A p \in Paths : Held(f, p) = "dir" => \E t \in Trees : Found(o, t, p) = "dir"

\* Where the trees agreed at first they agree now, and their overlay is the
\* same.
Alike(o, f) ==
  \A p \in Below : ~Clash(o, p) =>
    /\ \A t \in Sources :
         f[t][p] # "absent" /\ Held(f, p) # "absent" =>
           (Held(f, p) = "dir" <=> f[t][p] = "dir")
    /\ p \notin LinkerPaths => Merge(f, p) = Merge(o, p)

\* /lib is as it was found, or /lib_old has been merged.
InTurn(o, f) == (\A p \in Below : f.lib[p] = o.lib[p]) \/ Spent(o, f, "old")

Sound(o, f) == Shrunk(o, f) /\ Alike(o, f) /\ InTurn(o, f)

\* What merge_dir, in the directory c of the tree s, has yet to merge is
\* within one of the entries r it has yet to process; the rest is gone, or a
\* directory that it will remove on its way back.
Reach(q, r) == \E p \in r : IsPrefix(p, q)
Covers(o, f, s, c, r) ==
  \A q \in Below : ~Clash(o, q) =>
    \/ f[s][q] = "absent"
    \/ Reach(q, r)
    \/ /\ f[s][q] = "dir" /\ Held(f, q) = "dir"
       /\ Agree(o) => IsPrefix(q, c)

\* Where the program is.
Before == {"mount", "halted", "mkdirs"}
OldDone == pc \notin Before \cup {"openold"} /\ (pc \in {"merge", "rmdirsrc"} => src = "lib")
LibDone == pc \notin Before \cup {"openold", "statlib", "merge", "rmdirsrc"}
Linked == LibDone /\ pc \notin {"unlinklib", "rmdirlib", "symlib"}
Linked64 == Linked /\ pc \notin {"unlink64", "rmdir64", "sym64"}
Copied == Linked64 /\ pc \notin {"unlink", "create", "write"}

Progress ==
  /\ pc \notin Before => Prepared(fs)
  /\ pc = "merge" => Covers(orig, fs, src, cwd, todo)
  /\ pc = "rmdirsrc" => Spent(orig, fs, src)
  /\ OldDone => Spent(orig, fs, "old") /\ (Agree(orig) => fs.old[<<>>] # "dir")
  /\ LibDone => Spent(orig, fs, "lib") /\ (Agree(orig) => fs.lib[<<>>] # "dir")

\* The symbolic links of UsrMerge.
Links ==
  /\ pc \in {"rmdirlib", "symlib"} /\ Agree(orig) => fs.lib[<<>>] = "absent"
  /\ Linked /\ Agree(orig) => fs.lib[<<>>] = "link"
Links64 ==
  /\ fs.lib64 = "full" <=> orig.lib64 = "full"
  /\ disk.lib64 = "full" <=> orig.lib64 = "full"
  /\ pc = "rmdir64" => fs.lib64 \in {"absent", "empty", "full"}
  /\ pc = "sym64" => fs.lib64 \in {"absent", "full"}
  /\ Linked64 => fs.lib64 \in {"link", "full"}

\* The linkers that can be installed are.
Whole(o) ==
  /\ Payload = {LD, LD231} /\ Agree(o)
  /\ Found(o, "usr", <<>>) = "dir" /\ Found(o, "usr", A64) = "dir"
  /\ \A t \in Trees : \A p \in LinkerPaths : o[t][p] # "dir"
Installed ==
  /\ ~Linked64 => k = 1
  /\ Whole(orig) =>
       /\ pc \in {"unlink", "create", "write"} =>
            \A j \in 1..3 : j < k => fs.usr[Copies[j].dst] = "new"
       /\ pc = "create" => fs.usr[Copies[k].dst] = "absent"
       /\ Copied => \A j \in 1..3 : fs.usr[Copies[j].dst] = "new"
       /\ pc \in {"sync", "done"} => verdict = "success"

Flawless ==
  Sound(orig, fs) /\ Sound(orig, disk) /\ Progress /\ Links /\ Installed

IInv == Safe /\ Links64 /\ (faults = 0 => Flawless)

-----------------------------------------------------------------------------
(* Paths: the prefix order is all the later proofs use of them.            *)

\* A path is a sequence of names, and the parts of a path are paths.
LEMMA PathFacts ==
  /\ <<>> \in Paths
  /\ \A p \in Paths :
       /\ p \in Seq(STRING)
       /\ Len(p) \in Nat
       /\ p # <<>> <=> Len(p) > 0
       /\ \A n \in 0..Len(p) :
            /\ SubSeq(p, 1, n) \in Paths
            /\ Len(SubSeq(p, 1, n)) = n
            /\ \A i \in 1..n : SubSeq(p, 1, n)[i] = p[i]
<1>1. <<>> \in Paths
  BY PathsAssumption
<1>2. ASSUME NEW p \in Paths
      PROVE  /\ p \in Seq(STRING)
             /\ Len(p) \in Nat
             /\ p # <<>> <=> Len(p) > 0
  BY PathsAssumption, EmptySeq, LenProperties
<1>3. ASSUME NEW p \in Paths, NEW n \in 0..Len(p)
      PROVE  /\ SubSeq(p, 1, n) \in Paths
             /\ Len(SubSeq(p, 1, n)) = n
             /\ \A i \in 1..n : SubSeq(p, 1, n)[i] = p[i]
  <2>1. p \in Seq(STRING) /\ Len(p) \in Nat
    BY <1>2
  <2>2. SubSeq(p, 1, n) \in Paths
    BY PathsAssumption
  <2>3. n \in Nat /\ n <= Len(p)
    BY <2>1
  <2>4. Len(SubSeq(p, 1, n)) = n /\ \A i \in 1..n : SubSeq(p, 1, n)[i] = p[i]
    BY <2>1, <2>3, SubSeqProperties
  <2> QED
    BY <2>2, <2>4
<1> QED
  BY <1>1, <1>2, <1>3

\* Paths are equal that have the same length and the same names.
LEMMA SamePath ==
  ASSUME NEW p \in Paths, NEW q \in Paths, Len(p) = Len(q),
         \A i \in 1..Len(p) : p[i] = q[i]
  PROVE  p = q
BY PathFacts, SeqEqual

\* What it is for a path to lead to another.
LEMMA PrefixMeans ==
  ASSUME NEW p \in Paths, NEW q \in Paths
  PROVE  IsPrefix(p, q) <=> Len(p) <= Len(q) /\ \A i \in 1..Len(p) : p[i] = q[i]
<1>1. Len(p) \in Nat /\ Len(q) \in Nat
  BY PathFacts
<1>2. SubSeq(p, 1, Len(p)) = p
  <2>1. Len(p) \in 0..Len(p)
    BY <1>1
  <2> QED
    BY <2>1, PathFacts, SamePath
<1>3. CASE Len(p) <= Len(q)
  <2>1. Len(p) \in 0..Len(q)
    BY <1>1, <1>3
  <2>2. /\ SubSeq(q, 1, Len(p)) \in Paths
        /\ Len(SubSeq(q, 1, Len(p))) = Len(p)
        /\ \A i \in 1..Len(p) : SubSeq(q, 1, Len(p))[i] = q[i]
    BY <2>1, PathFacts
  <2>3. p = SubSeq(q, 1, Len(p)) <=> \A i \in 1..Len(p) : p[i] = q[i]
    BY <2>2, SamePath
  <2> QED
    BY <1>2, <1>3, <2>3 DEF IsPrefix
<1>4. CASE ~(Len(p) <= Len(q))
  BY <1>4 DEF IsPrefix
<1> QED
  BY <1>3, <1>4

\* The prefix order of paths, and the one directory above each.
LEMMA PrefixOrder ==
  /\ \A p \in Paths : IsPrefix(<<>>, p) /\ IsPrefix(p, p)
  /\ \A p, q \in Paths : IsPrefix(p, q) /\ IsPrefix(q, p) => p = q
  /\ \A p, q, r \in Paths : IsPrefix(p, q) /\ IsPrefix(q, r) => IsPrefix(p, r)
  /\ \A p, q, r \in Paths : IsPrefix(p, r) /\ IsPrefix(q, r) => IsPrefix(p, q) \/ IsPrefix(q, p)
<1> USE PathFacts
<1>1. Len(<<>>) = 0
  BY EmptySeq
<1>2. ASSUME NEW p \in Paths PROVE IsPrefix(<<>>, p) /\ IsPrefix(p, p)
  BY <1>1, PrefixMeans
<1>3. ASSUME NEW p \in Paths, NEW q \in Paths, IsPrefix(p, q), IsPrefix(q, p) PROVE p = q
  BY <1>3, PrefixMeans, SamePath
<1>4. ASSUME NEW p \in Paths, NEW q \in Paths, NEW r \in Paths, IsPrefix(p, q), IsPrefix(q, r)
      PROVE  IsPrefix(p, r)
  <2>1. /\ Len(p) \in Nat /\ Len(q) \in Nat /\ Len(r) \in Nat
        /\ Len(p) <= Len(q) /\ \A i \in 1..Len(p) : p[i] = q[i]
        /\ Len(q) <= Len(r) /\ \A i \in 1..Len(q) : q[i] = r[i]
    BY <1>4, PrefixMeans
  <2>2. Len(p) <= Len(r) /\ \A i \in 1..Len(p) : p[i] = r[i]
    BY ONLY <2>1
  <2> QED
    BY <2>2, PrefixMeans
<1>5. ASSUME NEW p \in Paths, NEW q \in Paths, NEW r \in Paths, IsPrefix(p, r), IsPrefix(q, r)
      PROVE  IsPrefix(p, q) \/ IsPrefix(q, p)
  <2>1. /\ Len(p) \in Nat /\ Len(q) \in Nat
        /\ \A i \in 1..Len(p) : p[i] = r[i]
        /\ \A i \in 1..Len(q) : q[i] = r[i]
    BY <1>5, PrefixMeans
  <2>2. \/ Len(p) <= Len(q) /\ \A i \in 1..Len(p) : p[i] = q[i]
        \/ Len(q) <= Len(p) /\ \A i \in 1..Len(q) : q[i] = p[i]
    BY ONLY <2>1
  <2> QED
    BY <2>2, PrefixMeans
<1> QED
  BY <1>2, <1>3, <1>4, <1>5

\* The directory of an entry is the longest of its proper prefixes.
LEMMA FrontPath ==
  ASSUME NEW p \in Paths, p # <<>>
  PROVE  /\ Front(p) \in Paths
         /\ IsPrefix(Front(p), p)
         /\ ~IsPrefix(p, Front(p))
         /\ Front(p) # p
         /\ Len(p) = Len(Front(p)) + 1
         /\ \A q \in Paths : IsPrefix(q, p) /\ q # p => IsPrefix(q, Front(p))
<1> DEFINE f == SubSeq(p, 1, Len(p) - 1)
<1>1. Len(p) \in Nat /\ Len(p) > 0
  BY PathFacts
<1>2. Len(p) - 1 \in 0..Len(p)
  BY <1>1
<1>3. f \in Paths /\ Len(f) = Len(p) - 1 /\ \A i \in 1..Len(f) : f[i] = p[i]
  <2>1. f \in Paths /\ Len(f) = Len(p) - 1 /\ \A i \in 1..(Len(p) - 1) : f[i] = p[i]
    BY <1>2, PathFacts
  <2> QED
    BY <2>1
<1>4. Front(p) = f
  BY DEF Front
<1> HIDE DEF f
<1>5. IsPrefix(f, p) /\ ~IsPrefix(p, f) /\ f # p
  BY <1>1, <1>3, PrefixMeans
<1>6. ASSUME NEW q \in Paths, IsPrefix(q, p), q # p
      PROVE  IsPrefix(q, f)
  <2>1. Len(q) \in Nat /\ Len(q) <= Len(p) /\ \A i \in 1..Len(q) : q[i] = p[i]
    BY <1>6, PathFacts, PrefixMeans
  <2>2. Len(q) # Len(p)
    BY <1>6, <2>1, SamePath
  <2>3. Len(q) <= Len(f) /\ \A i \in 1..Len(q) : q[i] = f[i]
    BY <1>1, <1>3, <2>1, <2>2
  <2> QED
    BY <1>3, <2>3, PrefixMeans
<1> QED
  BY <1>1, <1>3, <1>4, <1>5, <1>6

\* An entry of a directory is a path directly below it.
LEMMA EntryPath ==
  ASSUME NEW p \in Paths, NEW q \in Paths
  PROVE  IsPrefix(p, q) /\ Len(q) = Len(p) + 1 <=> q # <<>> /\ Front(q) = p
<1>1. Len(p) \in Nat /\ Len(q) \in Nat
  BY PathFacts
<1>2. ASSUME IsPrefix(p, q), Len(q) = Len(p) + 1 PROVE q # <<>> /\ Front(q) = p
  <2>1. q # <<>>
    BY <1>1, <1>2, PathFacts
  <2>2. p # q
    BY <1>1, <1>2
  <2>3. IsPrefix(p, Front(q)) /\ Front(q) \in Paths /\ Len(Front(q)) = Len(p)
    BY <1>1, <1>2, <2>1, <2>2, FrontPath, PathFacts
  <2>4. p = Front(q)
    BY <2>3, PrefixMeans, SamePath
  <2> QED
    BY <2>1, <2>4
<1>3. ASSUME q # <<>>, Front(q) = p PROVE IsPrefix(p, q) /\ Len(q) = Len(p) + 1
  BY <1>3, FrontPath
<1> QED
  BY <1>2, <1>3

\* A path strictly below another goes through an entry of it.
LEMMA EntryOnTheWay ==
  ASSUME NEW p \in Paths, NEW q \in Paths, IsPrefix(p, q), p # q
  PROVE  \E c \in Paths : /\ c # <<>> /\ Front(c) = p
                          /\ IsPrefix(p, c) /\ IsPrefix(c, q) /\ ~IsPrefix(c, p)
<1> DEFINE c == SubSeq(q, 1, Len(p) + 1)
<1>1. Len(p) \in Nat /\ Len(q) \in Nat
  BY PathFacts
<1>2. Len(p) <= Len(q) /\ \A i \in 1..Len(p) : p[i] = q[i]
  BY PrefixMeans
<1>3. Len(p) # Len(q)
  BY <1>2, SamePath
<1>4. Len(p) + 1 \in 0..Len(q)
  BY <1>1, <1>2, <1>3
<1>5. c \in Paths /\ Len(c) = Len(p) + 1 /\ \A i \in 1..Len(c) : c[i] = q[i]
  BY <1>4, PathFacts
<1> HIDE DEF c
<1>6. IsPrefix(p, c) /\ IsPrefix(c, q) /\ ~IsPrefix(c, p)
  BY <1>1, <1>2, <1>4, <1>5, PrefixMeans
<1>7. c # <<>> /\ Front(c) = p
  BY <1>5, <1>6, EntryPath
<1> QED
  BY <1>5, <1>6, <1>7

-----------------------------------------------------------------------------
(* Trees: what each file system call makes of one.                         *)

\* The paths that the program names.
LEMMA NamedPaths ==
  /\ A64 \in Paths \ LinkerPaths /\ A64 # <<>> /\ Front(A64) = <<>>
  /\ Modules \in Paths \ LinkerPaths /\ Modules # <<>> /\ Front(Modules) = <<>>
  /\ A64 # Modules
  /\ LinkerPaths \subseteq Paths \ {<<>>}
  /\ \A j \in 1..3 : Copies[j].dst \in LinkerPaths /\ Copies[j].src \in {LD, LD231}
  /\ Front(Copies[1].dst) = A64 /\ Front(Copies[2].dst) = A64 /\ Front(Copies[3].dst) = <<>>
  /\ \A i, j \in 1..3 : i # j => Copies[i].dst # Copies[j].dst
  /\ Copies[1].dst = Append(A64, LD) /\ Copies[2].dst = Append(A64, LD231) /\ Copies[3].dst = <<LD>>
  /\ \A p \in LinkerPaths : \E j \in 1..3 : p = Copies[j].dst
<1>1. /\ Copies[1].dst = Append(A64, LD) /\ Copies[2].dst = Append(A64, LD231)
      /\ Copies[3].dst = <<LD>>
      /\ \A j \in 1..3 : Copies[j].src \in {LD, LD231}
  BY DEF Copies
<1>2. \A j \in 1..3 : Copies[j].dst \in LinkerPaths
  BY DEF LinkerPaths
<1>3. \A p \in LinkerPaths : \E j \in 1..3 : p = Copies[j].dst
  BY DEF LinkerPaths
<1>4. LinkerPaths \subseteq Paths /\ A64 \in Paths /\ Modules \in Paths
  BY PathsAssumption
<1> DEFINE one == Copies[1].dst
           two == Copies[2].dst
           three == Copies[3].dst
<1>5. /\ Len(A64) = 1 /\ Len(Modules) = 1 /\ A64[1] = "aarch64-linux-gnu" /\ Modules[1] = "modules"
      /\ Len(three) = 1 /\ three[1] = LD
  BY <1>1 DEF A64, Modules
<1>6. /\ Len(one) = 2 /\ one[1] = A64[1] /\ one[2] = LD
      /\ Len(two) = 2 /\ two[1] = A64[1] /\ two[2] = LD231
  <2> DEFINE names == {A64[1], LD, LD231}
  <2>1. A64 \in Seq(names)
    BY DEF A64
  <2>2. ASSUME NEW e \in names
        PROVE  Len(Append(A64, e)) = 2 /\ Append(A64, e)[1] = A64[1] /\ Append(A64, e)[2] = e
    <3> HIDE DEF names
    <3>1. /\ Len(Append(A64, e)) = Len(A64) + 1
          /\ \A i \in 1..Len(A64) : Append(A64, e)[i] = A64[i]
          /\ Append(A64, e)[Len(A64) + 1] = e
      BY <2>1, AppendProperties
    <3>2. Len(A64) = 1
      BY <1>5
    <3> QED
      BY <3>1, <3>2
  <2> QED
    BY <1>1, <2>2
<1>7. LD # LD231 /\ LD # "aarch64-linux-gnu" /\ LD # "modules"
  BY DEF LD, LD231
<1>8. /\ one # two /\ one # three /\ two # three
      /\ A64 \notin {one, two, three} /\ Modules \notin {one, two, three} /\ A64 # Modules
  BY <1>5, <1>6, <1>7
<1>9. \A i, j \in 1..3 : i # j => Copies[i].dst # Copies[j].dst
  BY <1>8
<1>10. A64 \notin LinkerPaths /\ Modules \notin LinkerPaths
  <2>1. \A j \in 1..3 : Copies[j].dst \in {one, two, three}
    OBVIOUS
  <2> QED
    BY <1>3, <1>8, <2>1
<1>11. one \in Paths /\ two \in Paths /\ three \in Paths
  BY <1>2, <1>4
<1> HIDE DEF one, two, three
<1>12. IsPrefix(A64, one) /\ IsPrefix(A64, two)
  BY <1>4, <1>5, <1>6, <1>11, PrefixMeans
<1>13. Front(one) = A64 /\ Front(two) = A64 /\ one # <<>> /\ two # <<>>
  <2>1. Len(one) = Len(A64) + 1 /\ Len(two) = Len(A64) + 1
    BY <1>5, <1>6
  <2> QED
    BY <1>4, <1>11, <1>12, <2>1, EntryPath
<1>14. \A p \in {A64, Modules, three} : p # <<>> /\ Front(p) = <<>>
  <2>1. \A p \in {A64, Modules, three} : p \in Paths /\ Len(p) = 1 /\ IsPrefix(<<>>, p)
    BY <1>4, <1>5, <1>11, PrefixOrder
  <2>2. Len(<<>>) = 0 /\ <<>> \in Paths
    BY EmptySeq, PathFacts
  <2>3. \A p \in {A64, Modules, three} : Len(p) = Len(<<>>) + 1
    BY <2>1, <2>2
  <2> QED
    BY <2>1, <2>2, <2>3, EntryPath
<1>15. <<>> \notin LinkerPaths
  <2>1. \A j \in 1..3 : Copies[j].dst \in {one, two, three}
    BY DEF one, two, three
  <2> QED
    BY <1>3, <1>13, <1>14, <2>1
<1> QED
  BY <1>1, <1>2, <1>3, <1>4, <1>8, <1>9, <1>10, <1>13, <1>14, <1>15 DEF one,
     two, three

\* The entries of a directory, by the paths they have.
LEMMA ChildrenAre ==
  ASSUME NEW t, NEW p \in Paths
  PROVE  Children(t, p) = {q \in Paths : q # <<>> /\ Front(q) = p /\ t[q] # "absent"}
BY EntryPath DEF Children, Within

\* Nothing is below what is no directory, or an empty one.
LEMMA NothingBelow ==
  ASSUME NEW t, IsTree(t), NEW p \in Paths, t[p] # "dir" \/ IsEmpty(t, p),
         NEW q \in Paths, IsPrefix(p, q), p # q
  PROVE  t[q] = "absent"
<1>1. SUFFICES ASSUME t[q] # "absent" PROVE FALSE
  OBVIOUS
<1>2. t[p] = "dir"
  BY <1>1 DEF IsTree, IsStrictPrefix
<1>3. PICK c \in Paths : c # <<>> /\ Front(c) = p /\ IsPrefix(c, q)
  BY EntryOnTheWay
<1>4. t[c] # "absent"
  <2>1. CASE c = q
    BY <1>1, <2>1
  <2>2. CASE c # q
    <3>1. t[c] = "dir"
      BY <1>1, <1>3, <2>2 DEF IsTree, IsStrictPrefix
    <3> QED
      BY <3>1
  <2> QED
    BY <2>1, <2>2
<1>5. c \in Children(t, p)
  BY <1>3, <1>4, ChildrenAre
<1> QED
  BY <1>2, <1>5 DEF IsEmpty

\* One node of a tree may become any other, if nothing hangs below it or it
\* becomes a directory, and if it is, or was, in a directory.
LEMMA LeafChange ==
  ASSUME NEW t, Good(t), NEW p \in Paths, NEW n \in Nodes,
         n = "dir" \/ \A q \in Paths : IsPrefix(p, q) /\ p # q => t[q] = "absent",
         n = "absent" \/ p = <<>> \/ t[Front(p)] = "dir" \/ t[p] # "absent",
         n = "link" => p \in LinkerPaths \cup {<<>>}
  PROVE  Good([t EXCEPT ![p] = n])
<1> DEFINE u == [t EXCEPT ![p] = n]
<1>1. t \in [Paths -> Nodes] /\ IsTree(t)
  BY DEF Good
<1>2. u \in [Paths -> Nodes] /\ u[p] = n /\ \A q \in Paths : q # p => u[q] = t[q]
  BY <1>1
<1> HIDE DEF u
<1>3. ASSUME NEW r \in Paths, NEW s \in Paths, IsPrefix(r, s), r # s, u[s] # "absent"
      PROVE  u[r] = "dir"
  <2>1. CASE s = p
    <3>1. s # <<>>
      BY <1>3, PathFacts, PrefixOrder
    <3>2. Front(p) \in Paths /\ IsPrefix(r, Front(p)) /\ Front(p) # p /\ IsPrefix(Front(p), p)
      BY <1>3, <2>1, <3>1, FrontPath
    <3>3. t[Front(p)] = "dir"
      <4>1. t[Front(p)] = "dir" \/ t[p] # "absent"
        BY <1>2, <1>3, <2>1, <3>1
      <4> QED
        BY <1>1, <3>2, <4>1 DEF IsTree, IsStrictPrefix
    <3>4. t[Front(p)] # "absent"
      BY <3>3
    <3>5. t[r] = "dir"
      BY <1>1, <3>2, <3>3, <3>4 DEF IsTree, IsStrictPrefix
    <3> QED
      BY <1>2, <1>3, <2>1, <3>5
  <2>2. CASE s # p
    <3>1. t[s] # "absent"
      BY <1>2, <1>3, <2>2
    <3>2. t[r] = "dir"
      BY <1>1, <1>3, <3>1 DEF IsTree, IsStrictPrefix
    <3>3. r = p => n = "dir"
      BY <1>3, <3>1
    <3> QED
      BY <1>2, <3>2, <3>3
  <2> QED
    BY <2>1, <2>2
<1>4. ASSUME NEW q \in Paths \ LinkerPaths, u[q] = "link" PROVE q = <<>>
  BY <1>1, <1>2, <1>4 DEF IsTree
<1>5. IsTree(u)
  BY <1>3, <1>4 DEF IsTree, IsStrictPrefix
<1> QED
  BY <1>2, <1>5 DEF Good, u

\* mkdirat, open with O_CREAT and symlinkat only add a node.
LEMMA MadeTree ==
  ASSUME NEW t, Good(t), NEW p \in Paths, NEW n \in Nodes,
         n = "link" => p \in LinkerPaths \cup {<<>>}
  PROVE  /\ Good(Made(t, p, n))
         /\ Keeps(t, Made(t, p, n))
         /\ \A q \in Paths : Made(t, p, n)[q] # t[q] =>
              q = p /\ t[p] = "absent" /\ Made(t, p, n)[q] = n
<1>1. t \in [Paths -> Nodes] /\ IsTree(t)
  BY DEF Good
<1>2. CASE t[p] = "absent" /\ (p = <<>> \/ IsDir(t, Front(p)))
  <2>1. Made(t, p, n) = [t EXCEPT ![p] = n]
    BY <1>2 DEF Made
  <2>2. Good([t EXCEPT ![p] = n])
    <3>1. t[p] # "dir"
      BY <1>2
    <3>2. \A q \in Paths : IsPrefix(p, q) /\ p # q => t[q] = "absent"
      BY <1>1, <3>1, NothingBelow
    <3>3. p = <<>> \/ t[Front(p)] = "dir"
      BY <1>2 DEF IsDir
    <3> QED
      BY <3>2, <3>3, LeafChange
  <2>3. "absent" \notin Files
    BY DEF Files
  <2> QED
    BY <1>1, <1>2, <2>1, <2>2, <2>3 DEF Keeps, Precious
<1>3. CASE ~(t[p] = "absent" /\ (p = <<>> \/ IsDir(t, Front(p))))
  <2>1. Made(t, p, n) = t
    BY <1>3 DEF Made
  <2> QED
    BY <2>1 DEF Keeps
<1> QED
  BY <1>2, <1>3

\* unlinkat removes a file or a symbolic link,
LEMMA UnlinkedTree ==
  ASSUME NEW t, Good(t), NEW p \in Paths
  PROVE  /\ Good(Unlinked(t, p))
         /\ p \notin Precious => Keeps(t, Unlinked(t, p))
         /\ \A q \in Paths : Unlinked(t, p)[q] # t[q] =>
              q = p /\ t[p] # "dir" /\ Unlinked(t, p)[q] = "absent"
         /\ t[p] # "dir" => Unlinked(t, p)[p] = "absent"
<1>1. t \in [Paths -> Nodes] /\ IsTree(t)
  BY DEF Good
<1>2. CASE t[p] = "dir"
  <2>1. Unlinked(t, p) = t
    BY <1>2 DEF Unlinked, IsDir
  <2> QED
    BY <1>2, <2>1 DEF Keeps
<1>3. CASE t[p] # "dir"
  <2>1. Unlinked(t, p) = [t EXCEPT ![p] = "absent"]
    BY <1>3 DEF Unlinked, IsDir
  <2>2. \A q \in Paths : IsPrefix(p, q) /\ p # q => t[q] = "absent"
    BY <1>1, <1>3, NothingBelow
  <2>3. "absent" \in Nodes
    BY DEF Nodes
  <2>4. Good([t EXCEPT ![p] = "absent"])
    BY <2>2, <2>3, LeafChange
  <2> QED
    BY <1>1, <1>3, <2>1, <2>4 DEF Keeps, Precious
<1> QED
  BY <1>2, <1>3

\* ... and with AT_REMOVEDIR an empty directory.
LEMMA RmdiredTree ==
  ASSUME NEW t, Good(t), NEW p \in Paths
  PROVE  /\ Good(Rmdired(t, p))
         /\ Keeps(t, Rmdired(t, p))
         /\ \A q \in Paths : Rmdired(t, p)[q] # t[q] =>
              q = p /\ t[p] = "dir" /\ Rmdired(t, p)[q] = "absent"
         /\ IsEmpty(t, p) => Rmdired(t, p)[p] # "dir"
<1>1. t \in [Paths -> Nodes] /\ IsTree(t)
  BY DEF Good
<1>2. CASE t[p] = "dir" /\ IsEmpty(t, p)
  <2>1. Rmdired(t, p) = [t EXCEPT ![p] = "absent"]
    BY <1>2 DEF Rmdired, IsDir
  <2>2. \A q \in Paths : IsPrefix(p, q) /\ p # q => t[q] = "absent"
    BY <1>1, <1>2, NothingBelow
  <2>3. "absent" \in Nodes /\ "dir" \notin Files
    BY DEF Nodes, Files
  <2>4. Good([t EXCEPT ![p] = "absent"])
    BY <2>2, <2>3, LeafChange
  <2> QED
    BY <1>1, <1>2, <2>1, <2>3, <2>4 DEF Keeps, Precious
<1>3. CASE ~(t[p] = "dir" /\ IsEmpty(t, p))
  <2>1. Rmdired(t, p) = t
    BY <1>3 DEF Rmdired, IsDir
  <2> QED
    BY <1>3, <2>1 DEF Keeps
<1> QED
  BY <1>2, <1>3

\* A rename takes everything within an entry along.
LEMMA MovedTree ==
  ASSUME NEW from, NEW to, Good(from), Good(to), NEW p \in Paths, p # <<>>,
         to[Front(p)] = "dir"
  PROVE  Good(MovedTo(from, to, p)) /\ Good(MovedFrom(from, p))
<1>1. /\ from \in [Paths -> Nodes] /\ IsTree(from)
      /\ to \in [Paths -> Nodes] /\ IsTree(to)
  BY DEF Good
<1> DEFINE u == MovedTo(from, to, p)
           v == MovedFrom(from, p)
<1>2. /\ u \in [Paths -> Nodes]
      /\ \A q \in Paths : u[q] = IF IsPrefix(p, q) THEN from[q] ELSE to[q]
  BY <1>1 DEF MovedTo, Within
<1>3. /\ v \in [Paths -> Nodes]
      /\ \A q \in Paths : v[q] = IF IsPrefix(p, q) THEN "absent" ELSE from[q]
  BY <1>1 DEF MovedFrom, Within, Nodes
<1> HIDE DEF u, v
<1>4. ASSUME NEW r \in Paths, NEW s \in Paths, IsPrefix(r, s), r # s, u[s] # "absent"
      PROVE  u[r] = "dir"
  <2>1. CASE IsPrefix(p, r)
    <3>1. IsPrefix(p, s)
      BY <1>4, <2>1, PrefixOrder
    <3>2. from[s] # "absent"
      BY <1>2, <1>4, <3>1
    <3>3. from[r] = "dir"
      BY <1>1, <1>4, <3>2 DEF IsTree, IsStrictPrefix
    <3> QED
      BY <1>2, <2>1, <3>3
  <2>2. CASE ~IsPrefix(p, r) /\ IsPrefix(p, s)
    <3>1. IsPrefix(r, p) /\ r # p
      BY <1>4, <2>2, PrefixOrder
    <3>2. IsPrefix(r, Front(p)) /\ Front(p) \in Paths
      BY <3>1, FrontPath
    <3>3. to[Front(p)] # "absent"
      OBVIOUS
    <3>4. to[r] = "dir"
      BY <1>1, <3>2, <3>3 DEF IsTree, IsStrictPrefix
    <3> QED
      BY <1>2, <2>2, <3>4
  <2>3. CASE ~IsPrefix(p, r) /\ ~IsPrefix(p, s)
    <3>1. to[s] # "absent"
      BY <1>2, <1>4, <2>3
    <3>2. to[r] = "dir"
      BY <1>1, <1>4, <3>1 DEF IsTree, IsStrictPrefix
    <3> QED
      BY <1>2, <2>3, <3>2
  <2> QED
    BY <2>1, <2>2, <2>3
<1>5. ASSUME NEW r \in Paths, NEW s \in Paths, IsPrefix(r, s), r # s, v[s] # "absent"
      PROVE  v[r] = "dir"
  <2>1. ~IsPrefix(p, s) /\ from[s] # "absent"
    BY <1>3, <1>5
  <2>2. ~IsPrefix(p, r)
    BY <1>5, <2>1, PrefixOrder
  <2>3. from[r] = "dir"
    BY <1>1, <1>5, <2>1 DEF IsTree, IsStrictPrefix
  <2> QED
    BY <1>3, <2>2, <2>3
<1>6. \A q \in Paths \ LinkerPaths : (from[q] = "link" => q = <<>>) /\ (to[q] = "link" => q = <<>>)
  BY <1>1 DEF IsTree
<1>7. \A q \in Paths \ LinkerPaths : (u[q] = "link" => q = <<>>) /\ (v[q] = "link" => q = <<>>)
  BY <1>2, <1>3, <1>6
<1>8. IsTree(u) /\ IsTree(v)
  BY <1>4, <1>5, <1>7 DEF IsTree, IsStrictPrefix
<1> QED
  BY <1>2, <1>3, <1>8 DEF Good, u, v

\* ... puts no file in the place of a directory, and replaces a file by a file.
LEMMA MovedNodes ==
  ASSUME NEW from, NEW to, Good(from), Good(to), NEW p \in Paths, p # <<>>,
         CanRename(from, to, p), from[p] # "absent",
         NEW q \in Paths
  PROVE  /\ IsPrefix(p, q) => MovedTo(from, to, p)[q] = from[q] /\ MovedFrom(from, p)[q] = "absent"
         /\ ~IsPrefix(p, q) => MovedTo(from, to, p)[q] = to[q] /\ MovedFrom(from, p)[q] = from[q]
         /\ IsPrefix(p, q) /\ to[q] # "absent" =>
              q = p /\ (to[p] = "dir" <=> from[p] = "dir")
         /\ to[q] = "dir" => MovedTo(from, to, p)[q] = "dir"
         /\ q \in Precious /\ to[q] \in Files => MovedTo(from, to, p)[q] \in Files
<1>1. /\ from \in [Paths -> Nodes] /\ IsTree(from)
      /\ to \in [Paths -> Nodes] /\ IsTree(to)
  BY DEF Good
<1>2. /\ IsPrefix(p, q) => MovedTo(from, to, p)[q] = from[q] /\ MovedFrom(from, p)[q] = "absent"
      /\ ~IsPrefix(p, q) => MovedTo(from, to, p)[q] = to[q] /\ MovedFrom(from, p)[q] = from[q]
  BY DEF MovedTo, MovedFrom, Within
<1>3. /\ from[p] = "dir" => to[p] = "absent" \/ (to[p] = "dir" /\ IsEmpty(to, p))
      /\ from[p] # "dir" => to[p] # "dir"
  BY DEF CanRename, IsDir
<1>4. to[p] # "dir" \/ IsEmpty(to, p)
  BY <1>3
<1>5. ASSUME IsPrefix(p, q), to[q] # "absent"
      PROVE  q = p /\ (to[p] = "dir" <=> from[p] = "dir")
  <2>1. q = p
    BY <1>1, <1>4, <1>5, NothingBelow
  <2> QED
    BY <1>3, <1>5, <2>1
<1>6. ASSUME to[q] = "dir" PROVE MovedTo(from, to, p)[q] = "dir"
  <2>1. to[q] # "absent"
    BY <1>6
  <2> QED
    BY <1>2, <1>5, <1>6, <2>1
<1>7. ASSUME q \in Precious, to[q] \in Files PROVE MovedTo(from, to, p)[q] \in Files
  <2>1. CASE IsPrefix(p, q)
    <3>1. to[q] # "absent" /\ to[q] # "dir"
      BY <1>7 DEF Files
    <3>2. q = p /\ from[p] # "dir"
      BY <1>5, <2>1, <3>1
    <3>3. from[q] # "link"
      BY <1>1, <1>7, <3>2 DEF Precious, IsTree
    <3>4. from[q] \in Files
      BY <1>1, <3>2, <3>3 DEF Nodes
    <3> QED
      BY <1>2, <2>1, <3>4
  <2>2. CASE ~IsPrefix(p, q)
    BY <1>2, <1>7, <2>2
  <2> QED
    BY <2>1, <2>2
<1> QED
  BY <1>2, <1>5, <1>6, <1>7

\* Rewriting files leaves a tree as it was.
LEMMA RewrittenTree ==
  ASSUME NEW t, Good(t), NEW lost \in SUBSET Paths, NEW n \in Files,
         \A p \in lost : t[p] \in Files
  PROVE  /\ Good([p \in Paths |-> IF p \in lost THEN n ELSE t[p]])
         /\ Keeps(t, [p \in Paths |-> IF p \in lost THEN n ELSE t[p]])
<1> DEFINE u == [p \in Paths |-> IF p \in lost THEN n ELSE t[p]]
<1>1. t \in [Paths -> Nodes] /\ IsTree(t)
  BY DEF Good
<1>2. n \in Nodes /\ n \notin {"absent", "dir", "link"} /\ "absent" \notin Files /\ "dir" \notin Files
  BY DEF Nodes, Files
<1>3. u \in [Paths -> Nodes] /\ \A p \in Paths : u[p] = IF p \in lost THEN n ELSE t[p]
  BY <1>1, <1>2
<1> HIDE DEF u
<1>4. \A p \in Paths : /\ u[p] = "absent" <=> t[p] = "absent"
                       /\ u[p] = "dir" <=> t[p] = "dir"
                       /\ u[p] = "link" => t[p] = "link"
  BY <1>2, <1>3
<1>5. IsTree(u)
  BY <1>1, <1>4 DEF IsTree
<1> QED
  BY <1>3, <1>5 DEF Good, Keeps, Precious, u

-----------------------------------------------------------------------------
(* File systems: what the calls of the program make of one.                *)

\* Each part of a sane file system is a tree of nodes.
LEMMA SaneParts ==
  ASSUME NEW f, Sane(f)
  PROVE  /\ f \in FileSystems
         /\ Good(f.usr) /\ Good(f.old) /\ Good(f.lib)
         /\ \A t \in Trees : Good(f[t])
<1>1. f \in FileSystems
  BY DEF Sane
<1>2. IsTree(f.usr) /\ IsTree(f.old) /\ IsTree(f.lib)
  BY DEF Sane, Trees
<1>3. /\ f.usr \in [Paths -> Nodes] /\ f.old \in [Paths -> Nodes]
      /\ f.lib \in [Paths -> Nodes]
  BY <1>1 DEF FileSystems
<1> QED
  BY <1>1, <1>2, <1>3 DEF Good, Trees

\* A call replaces /usr/lib, the tree that is merged, or both.
LEMMA Replaced ==
  ASSUME NEW f, Sane(f), NEW s \in Sources, NEW u, Good(u), NEW v, Good(v),
         NEW g, g = With(f, s, u, v)
  PROVE  /\ Sane(g) /\ g.usr = u /\ g[s] = v /\ g.lib64 = f.lib64
         /\ \A t \in Sources : t # s => g[t] = f[t]
<1>1. f \in FileSystems /\ IsTree(f.usr) /\ IsTree(f.old) /\ IsTree(f.lib)
  BY DEF Sane, Trees
<1>2. u \in [Paths -> Nodes] /\ IsTree(u) /\ v \in [Paths -> Nodes] /\ IsTree(v)
  BY DEF Good
<1>3. CASE s = "old"
  <2>1. g \in FileSystems /\ g.usr = u /\ g.old = v /\ g.lib = f.lib /\ g.lib64 = f.lib64
    BY <1>1, <1>2, <1>3 DEF FileSystems, With
  <2> QED
    BY <1>1, <1>2, <1>3, <2>1 DEF Sane, Trees, Sources
<1>4. CASE s = "lib"
  <2>1. g \in FileSystems /\ g.usr = u /\ g.old = f.old /\ g.lib = v /\ g.lib64 = f.lib64
    BY <1>1, <1>2, <1>4 DEF FileSystems, With
  <2> QED
    BY <1>1, <1>2, <1>4, <2>1 DEF Sane, Trees, Sources
<1> QED
  BY <1>3, <1>4 DEF Sources

\* A call that changes /usr/lib only leaves a sane file system,
LEMMA ReplacedUsr ==
  ASSUME NEW f, Sane(f), NEW u, Good(u), NEW g, g = [f EXCEPT !.usr = u]
  PROVE  /\ Sane(g) /\ g.usr = u /\ g.lib64 = f.lib64
         /\ g.old = f.old /\ g.lib = f.lib
<1>1. f \in FileSystems /\ IsTree(f.usr) /\ IsTree(f.old) /\ IsTree(f.lib)
  BY DEF Sane, Trees
<1>2. u \in [Paths -> Nodes] /\ IsTree(u)
  BY DEF Good
<1>3. g \in FileSystems /\ g.usr = u /\ g.old = f.old /\ g.lib = f.lib /\ g.lib64 = f.lib64
  BY <1>1, <1>2 DEF FileSystems
<1> QED
  BY <1>1, <1>2, <1>3 DEF Sane, Trees

\* and so does one that changes one of the merged trees only,
LEMMA ReplacedSrc ==
  ASSUME NEW f, Sane(f), NEW s \in Sources, NEW v, Good(v),
         NEW g, g = WithSrc(f, s, v)
  PROVE  /\ Sane(g) /\ g.usr = f.usr /\ g[s] = v /\ g.lib64 = f.lib64
         /\ \A t \in Sources : t # s => g[t] = f[t]
<1>1. f \in FileSystems /\ IsTree(f.usr) /\ IsTree(f.old) /\ IsTree(f.lib)
  BY DEF Sane, Trees
<1>2. v \in [Paths -> Nodes] /\ IsTree(v)
  BY DEF Good
<1>3. CASE s = "old"
  <2>1. g \in FileSystems /\ g.usr = f.usr /\ g.old = v /\ g.lib = f.lib /\ g.lib64 = f.lib64
    BY <1>1, <1>2, <1>3 DEF FileSystems, WithSrc
  <2> QED
    BY <1>1, <1>2, <1>3, <2>1 DEF Sane, Trees, Sources
<1>4. CASE s = "lib"
  <2>1. g \in FileSystems /\ g.usr = f.usr /\ g.old = f.old /\ g.lib = v /\ g.lib64 = f.lib64
    BY <1>1, <1>2, <1>4 DEF FileSystems, WithSrc
  <2> QED
    BY <1>1, <1>2, <1>4, <2>1 DEF Sane, Trees, Sources
<1> QED
  BY <1>3, <1>4 DEF Sources

\* and one that changes /lib64 only.
LEMMA Replaced64 ==
  ASSUME NEW f, Sane(f), NEW x \in {"absent", "link", "file", "empty", "full"},
         NEW g, g = [f EXCEPT !.lib64 = x]
  PROVE  Sane(g) /\ g.usr = f.usr /\ g.old = f.old /\ g.lib = f.lib /\ g.lib64 = x
<1>1. f \in FileSystems /\ IsTree(f.usr) /\ IsTree(f.old) /\ IsTree(f.lib)
  BY DEF Sane, Trees
<1>2. g \in FileSystems /\ g.usr = f.usr /\ g.old = f.old /\ g.lib = f.lib /\ g.lib64 = x
  BY <1>1 DEF FileSystems
<1> QED
  BY <1>1, <1>2 DEF Sane, Trees

\* Files that every tree keeps are not lost.
LEMMA KeptOn ==
  ASSUME NEW o, NEW f, NEW g, Kept(o, f),
         Keeps(f.usr, g.usr), Keeps(f.old, g.old), Keeps(f.lib, g.lib)
  PROVE  Kept(o, g)
BY DEF Kept, Keeps, Trees

\* A tree keeps its own files.
LEMMA KeepsSelf == \A t : Keeps(t, t)
BY DEF Keeps

\* renameat: the file system that is left.
LEMMA MoveIs ==
  ASSUME NEW f, Sane(f), NEW s \in Sources, NEW p \in Paths, p # <<>>,
         CanRename(f[s], f.usr, p), f[s][p] # "absent", f.usr[Front(p)] = "dir",
         NEW g, g = With(f, s, MovedTo(f[s], f.usr, p), MovedFrom(f[s], p))
  PROVE  /\ Sane(g) /\ g.lib64 = f.lib64
         /\ g.usr = MovedTo(f[s], f.usr, p) /\ g[s] = MovedFrom(f[s], p)
         /\ \A t \in Sources : t # s => g[t] = f[t]
         /\ \A o : Kept(o, f) => Kept(o, g)
<1>1. Good(f.usr) /\ Good(f[s])
  BY SaneParts DEF Trees, Sources
<1>2. Good(MovedTo(f[s], f.usr, p)) /\ Good(MovedFrom(f[s], p))
  BY <1>1, MovedTree
<1>3. /\ Sane(g) /\ g.lib64 = f.lib64
      /\ g.usr = MovedTo(f[s], f.usr, p) /\ g[s] = MovedFrom(f[s], p)
      /\ \A t \in Sources : t # s => g[t] = f[t]
  BY <1>2, Replaced
<1>4. ASSUME NEW o, Kept(o, f) PROVE Kept(o, g)
  <2>1. SUFFICES ASSUME NEW t \in Trees, NEW q \in Precious, o[t][q] \in Files
                 PROVE  g[t][q] \in Files \/ g.usr[q] \in Files
    BY DEF Kept
  <2>2. q \in Paths
    BY DEF Precious
  <2>3. f[t][q] \in Files \/ f.usr[q] \in Files
    BY <1>4, <2>1 DEF Kept
  <2>4. f.usr[q] \in Files => g.usr[q] \in Files
    BY <1>1, <1>3, <2>2, MovedNodes
  <2>5. CASE t = s /\ f[s][q] \in Files
    <3>1. CASE IsPrefix(p, q)
      BY <1>1, <1>3, <2>2, <2>5, <3>1, MovedNodes
    <3>2. CASE ~IsPrefix(p, q)
      BY <1>1, <1>3, <2>2, <2>5, <3>2, MovedNodes
    <3> QED
      BY <3>1, <3>2
  <2>6. CASE t # s
    <3>1. t = "usr" \/ t \in Sources
      BY DEF Trees, Sources
    <3> QED
      BY <1>3, <2>3, <2>4, <2>6, <3>1
  <2> QED
    BY <2>3, <2>4, <2>5, <2>6
<1> QED
  BY <1>3, <1>4 DEF Sources

\* The directories that mkdirat may make of a /usr/lib.
LEMMA MadeDirIs ==
  ASSUME NEW f, Sane(f), NEW p \in Paths,
         NEW u \in Offered(f, p)
  PROVE  /\ Good(u) /\ Keeps(f.usr, u)
         /\ \A q \in Paths : u[q] # f.usr[q] => q = p /\ f.usr[p] = "absent" /\ u[q] = "dir"
<1>1. Good(f.usr)
  BY SaneParts
<1>2. "dir" \in Nodes /\ "dir" # "link"
  BY DEF Nodes
<1>3. u = f.usr \/ u = Made(f.usr, p, "dir")
  BY DEF Offered
<1>4. CASE u = f.usr
  BY <1>1, <1>4, KeepsSelf
<1>5. CASE u = Made(f.usr, p, "dir")
  BY <1>1, <1>2, <1>5, MadeTree
<1> QED
  BY <1>3, <1>4, <1>5

\* A rename that did not happen leaves /usr/lib with at most a new directory,
\* and the other tree without an empty one.
LEMMA SubdirIs ==
  ASSUME NEW f, Sane(f), NEW s \in Sources, NEW p \in Paths,
         NEW u \in Offered(f, p),
         NEW v \in {f[s], Rmdired(f[s], p)},
         NEW g, g = With(f, s, u, v)
  PROVE  /\ Sane(g) /\ g.lib64 = f.lib64 /\ g.usr = u /\ g[s] = v
         /\ \A t \in Sources : t # s => g[t] = f[t]
         /\ \A o : Kept(o, f) => Kept(o, g)
<1>1. Good(f[s]) /\ Good(u) /\ Keeps(f.usr, u)
  BY SaneParts, MadeDirIs DEF Trees, Sources
<1>2. Good(v) /\ Keeps(f[s], v)
  BY <1>1, RmdiredTree, KeepsSelf
<1>3. /\ Sane(g) /\ g.lib64 = f.lib64 /\ g.usr = u /\ g[s] = v
      /\ \A t \in Sources : t # s => g[t] = f[t]
  <2>1. Sane(f) /\ s \in Sources /\ Good(u) /\ Good(v) /\ g = With(f, s, u, v)
    BY <1>1, <1>2
  <2> QED
    BY ONLY <2>1, Replaced
<1>4. Keeps(f.old, g.old) /\ Keeps(f.lib, g.lib)
  <2>1. CASE s = "old"
    BY <1>2, <1>3, <2>1, KeepsSelf DEF Sources
  <2>2. CASE s = "lib"
    BY <1>2, <1>3, <2>2, KeepsSelf DEF Sources
  <2> QED
    BY <2>1, <2>2 DEF Sources
<1> QED
  BY <1>1, <1>3, <1>4, KeptOn

\* A replaced source tree that keeps its files loses none.
LEMMA KeptSrc ==
  ASSUME NEW f, NEW g, NEW s \in Sources, Keeps(f[s], g[s]), g.usr = f.usr,
         \A t \in Sources : t # s => g[t] = f[t],
         NEW o, Kept(o, f)
  PROVE  Kept(o, g)
<1>1. Keeps(f.old, g.old) /\ Keeps(f.lib, g.lib)
  <2>1. CASE s = "old"
    BY <2>1, KeepsSelf DEF Sources
  <2>2. CASE s = "lib"
    BY <2>2, KeepsSelf DEF Sources
  <2> QED
    BY <2>1, <2>2 DEF Sources
<1> QED
  BY <1>1, KeepsSelf, KeptOn

-----------------------------------------------------------------------------
(* merge_dir's way through the two trees.                                  *)

\* The entries that readdir has yet to return in the directory c.
LEMMA PendingAre ==
  ASSUME todo \subseteq Paths, NEW c \in Paths
  PROVE  Pending(c) = {q \in todo : q # <<>> /\ Front(q) = c}
BY EntryPath DEF Pending

\* It starts at the root,
LEMMA WayStarts ==
  ASSUME NEW f, NEW s, f[s][<<>>] = "dir"
  PROVE  OnItsWay(f, s, <<>>, Children(f[s], <<>>))
<1>1. <<>> \in Paths /\ IsPrefix(<<>>, <<>>)
  BY PathFacts, PrefixOrder
<1>2. ASSUME NEW q \in Children(f[s], <<>>)
      PROVE  /\ q # <<>> /\ IsPrefix(Front(q), <<>>) /\ ~IsPrefix(q, <<>>)
             /\ f[s][q] # "absent"
  <2>1. q \in Paths /\ q # <<>> /\ Front(q) = <<>> /\ f[s][q] # "absent"
    BY <1>1, ChildrenAre
  <2> QED
    BY <1>1, <2>1, FrontPath
<1> QED
  BY <1>2 DEF OnItsWay

\* an entry that moves is in a directory, and takes none of the others along,
LEMMA WayOfMove ==
  ASSUME NEW f, Sane(f), NEW s \in Sources, NEW c \in Paths, NEW r \in SUBSET Paths,
         OnItsWay(f, s, c, r), NEW p \in r, Front(p) = c, CanRename(f[s], f.usr, p)
  PROVE  /\ p \in Paths /\ p # <<>> /\ f[s][p] # "absent" /\ f.usr[Front(p)] = "dir"
         /\ \A g : g.usr = MovedTo(f[s], f.usr, p) /\ g[s] = MovedFrom(f[s], p)
                   => OnItsWay(g, s, c, r \ {p})
<1>1. p \in Paths /\ p # <<>> /\ f[s][p] # "absent" /\ ~IsPrefix(p, c)
  BY DEF OnItsWay
<1>2. f.usr[Front(p)] = "dir"
  BY DEF OnItsWay, CanRename, IsDir
<1>3. Good(f.usr) /\ Good(f[s])
  BY SaneParts DEF Trees, Sources
<1>4. ASSUME NEW g, g.usr = MovedTo(f[s], f.usr, p), g[s] = MovedFrom(f[s], p)
      PROVE  OnItsWay(g, s, c, r \ {p})
  <2>1. \A q \in Paths : ~IsPrefix(p, q) => g.usr[q] = f.usr[q] /\ g[s][q] = f[s][q]
    BY <1>1, <1>3, <1>4, MovedNodes
  <2>2. g[s][c] = "dir" /\ (c # <<>> => g.usr[c] = "dir")
    BY <1>1, <2>1 DEF OnItsWay
  <2>3. ASSUME NEW q \in r \ {p}
        PROVE  /\ q # <<>> /\ IsPrefix(Front(q), c) /\ ~IsPrefix(q, c)
               /\ g[s][q] # "absent"
    <3>1. q # <<>> /\ IsPrefix(Front(q), c) /\ ~IsPrefix(q, c) /\ f[s][q] # "absent" /\ q \in Paths
      BY DEF OnItsWay
    <3>2. ~IsPrefix(p, q)
      <4>1. SUFFICES ASSUME IsPrefix(p, q) PROVE FALSE
        OBVIOUS
      <4>2. Front(q) \in Paths /\ IsPrefix(p, Front(q))
        BY <1>1, <2>3, <3>1, <4>1, FrontPath
      <4> QED
        BY <1>1, <3>1, <4>2, PrefixOrder
    <3> QED
      BY <2>1, <3>1, <3>2
  <2> QED
    BY <2>2, <2>3 DEF OnItsWay
<1> QED
  BY <1>1, <1>2, <1>4

\* a directory on both sides is descended into,
LEMMA WayDown ==
  ASSUME NEW f, NEW g, NEW s, NEW c \in Paths, NEW r \in SUBSET Paths,
         OnItsWay(f, s, c, r), NEW p \in r, Front(p) = c,
         g[s] = f[s], f[s][p] = "dir", g.usr[p] = "dir"
  PROVE  OnItsWay(g, s, p, (r \ {p}) \cup Children(f[s], p))
<1>1. p \in Paths /\ p # <<>> /\ IsPrefix(c, p)
  BY FrontPath DEF OnItsWay
<1>2. ASSUME NEW q \in r \ {p}
      PROVE  /\ q # <<>> /\ IsPrefix(Front(q), p) /\ ~IsPrefix(q, p)
             /\ g[s][q] # "absent"
  <2>1. q # <<>> /\ IsPrefix(Front(q), c) /\ ~IsPrefix(q, c) /\ f[s][q] # "absent" /\ q \in Paths
    BY DEF OnItsWay
  <2>2. IsPrefix(Front(q), p)
    BY <1>1, <2>1, FrontPath, PrefixOrder
  <2>3. ~IsPrefix(q, p)
    BY <1>1, <1>2, <2>1, FrontPath
  <2> QED
    BY <2>1, <2>2, <2>3
<1>3. ASSUME NEW q \in Children(f[s], p)
      PROVE  /\ q # <<>> /\ IsPrefix(Front(q), p) /\ ~IsPrefix(q, p)
             /\ g[s][q] # "absent"
  <2>1. q \in Paths /\ q # <<>> /\ Front(q) = p /\ f[s][q] # "absent"
    BY <1>1, ChildrenAre
  <2> QED
    BY <1>1, <2>1, FrontPath, PrefixOrder
<1> QED
  BY <1>2, <1>3 DEF OnItsWay

\* anything else is passed by,
LEMMA WayOn ==
  ASSUME NEW f, NEW g, NEW s, NEW c \in Paths, NEW r \in SUBSET Paths,
         OnItsWay(f, s, c, r), NEW p \in r, Front(p) = c,
         \A q \in Paths : q # p => g[s][q] = f[s][q],
         \A q \in Paths : q # p => g.usr[q] = f.usr[q]
  PROVE  OnItsWay(g, s, c, r \ {p})
<1>1. p \in Paths /\ p # <<>> /\ c # p
  BY FrontPath DEF OnItsWay
<1> QED
  BY <1>1 DEF OnItsWay

\* and the call returns once no entry of its directory is left.
LEMMA WayUp ==
  ASSUME NEW f, Sane(f), NEW g, NEW s \in Sources, NEW c \in Paths, NEW r \in SUBSET Paths,
         OnItsWay(f, s, c, r), c # <<>>,
         \A q \in r : q # <<>> => Front(q) # c,
         \A q \in Paths : q # c => g[s][q] = f[s][q],
         g.usr = f.usr
  PROVE  OnItsWay(g, s, Front(c), r)
<1>1. Front(c) \in Paths /\ IsPrefix(Front(c), c) /\ Front(c) # c
  BY FrontPath
<1>2. IsTree(f[s]) /\ IsTree(f.usr)
  BY SaneParts DEF Trees, Sources, Good
<1>3. f[s][c] # "absent" /\ f.usr[c] # "absent"
  BY DEF OnItsWay
<1>4. f[s][Front(c)] = "dir" /\ f.usr[Front(c)] = "dir"
  BY <1>1, <1>2, <1>3 DEF IsTree, IsStrictPrefix
<1>5. ASSUME NEW q \in r
      PROVE  /\ q # <<>> /\ IsPrefix(Front(q), Front(c)) /\ ~IsPrefix(q, Front(c))
             /\ g[s][q] # "absent"
  <2>1. q # <<>> /\ IsPrefix(Front(q), c) /\ ~IsPrefix(q, c) /\ f[s][q] # "absent" /\ q \in Paths
    BY DEF OnItsWay
  <2>2. Front(q) \in Paths /\ Front(q) # c
    BY <2>1, FrontPath
  <2>3. IsPrefix(Front(q), Front(c))
    BY <2>1, <2>2, FrontPath
  <2>4. ~IsPrefix(q, Front(c)) /\ q # c
    BY <1>1, <2>1, PrefixOrder
  <2> QED
    BY <2>1, <2>3, <2>4
<1> QED
  BY <1>1, <1>4, <1>5 DEF OnItsWay

-----------------------------------------------------------------------------
(* Safety: no file is lost, whatever fails and wherever the power is cut.  *)

\* The program may start on any of the damaged disks.
LEMMA SafeInit == Init => Safe
<1> SUFFICES ASSUME Init PROVE Safe
  OBVIOUS
<1>1. fs \in Disks /\ disk = fs /\ orig = fs
  BY DEF Init
<1>2. Sane(fs)
  BY <1>1, DisksAssumption DEF Sane
<1>3. TypeOK
  <2>1. fs \in FileSystems
    BY <1>2 DEF Sane
  <2>2. /\ pc \in PCs /\ tries \in 1..MountTries /\ dirty \subseteq Paths /\ src \in {"old", "lib"}
        /\ cwd \in Paths /\ todo \subseteq Paths /\ k \in 1..3
    BY PathFacts DEF Init, PCs, MountTries
  <2>3. /\ verdict \in {"none", "success", "warning"}
        /\ crashes \in 0..MaxCrashes /\ faults \in 0..MaxFaults
    BY BoundsAssumption DEF Init
  <2> QED
    BY <1>1, <2>1, <2>2, <2>3 DEF TypeOK
<1>4. Kept(orig, fs)
  BY <1>1 DEF Kept
<1>5. Walk /\ Writes
  BY DEF Init, Walk, Writes
<1> QED
  BY <1>1, <1>2, <1>3, <1>4, <1>5 DEF Safe

\* The parts of Safe.
LEMMA SafeFacts ==
  ASSUME Safe
  PROVE  /\ TypeOK /\ Sane(fs) /\ Sane(disk) /\ Sane(orig)
         /\ Kept(orig, fs) /\ Kept(orig, disk) /\ Walk /\ Writes
         /\ src \in Sources
BY DEF Safe, TypeOK, Sources

\* What is left to show of a step of the program that leaves the disk alone.
LEMMA SafeOn ==
  ASSUME Safe, disk' = disk, orig' = orig, crashes' = crashes, pc' # "done",
         Sane(fs'), Kept(orig, fs'),
         pc' \in PCs, tries' \in 1..MountTries, dirty' \subseteq Paths,
         src' \in {"old", "lib"}, cwd' \in Paths, todo' \subseteq Paths, k' \in 1..3,
         verdict' \in {"none", "success", "warning"}, faults' \in 0..MaxFaults,
         Walk',
         pc' = "write" => fs'.usr[Copies[k'].dst] \in Files,
         pc' \notin Late => dirty' = {},
         \A p \in dirty' : p \in LinkerPaths /\ fs'.usr[p] = "new"
  PROVE  Safe'
<1>1. fs' \in FileSystems
  BY DEF Sane
<1>2. TypeOK'
  BY <1>1, SafeFacts DEF TypeOK
<1>3. Writes'
  BY DEF Writes
<1>4. Sane(disk') /\ Sane(orig') /\ Kept(orig', fs') /\ Kept(orig', disk')
  BY SafeFacts
<1> QED
  BY <1>2, <1>3, <1>4 DEF Safe

\* Before the copies nothing is written.
LEMMA SafeEarly ==
  ASSUME Safe, disk' = disk, orig' = orig, crashes' = crashes,
         pc \notin Late, pc' \in PCs \ {"done", "write"},
         Sane(fs'), Kept(orig, fs'), Walk',
         tries' \in 1..MountTries, dirty' = dirty,
         src' \in {"old", "lib"}, cwd' \in Paths, todo' \subseteq Paths, k' = k,
         verdict' = verdict, faults' \in 0..MaxFaults
  PROVE  Safe'
<1>1. dirty = {}
  BY SafeFacts DEF Writes
<1>2. k \in 1..3 /\ verdict \in {"none", "success", "warning"}
  BY SafeFacts DEF TypeOK
<1> QED
  BY <1>1, <1>2, SafeOn

\* mount in main: nothing changes but the count of the tries.
LEMMA SafeMount == ASSUME Safe, Mount PROVE Safe'
<1>1. TypeOK /\ Sane(fs) /\ Kept(orig, fs)
  BY SafeFacts
<1>2. /\ disk' = disk /\ orig' = orig /\ crashes' = crashes /\ fs' = fs
      /\ dirty' = dirty /\ src' = src /\ cwd' = cwd /\ todo' = todo /\ k' = k
      /\ verdict' = verdict /\ faults' = faults
      /\ pc \notin Late /\ pc' \in PCs \ {"done", "write", "merge"}
  BY DEF Mount, Frame, Goto, Late, PCs
<1>3. tries' \in 1..MountTries
  BY <1>1 DEF TypeOK, Mount, MountTries
<1>4. Walk'
  BY <1>2 DEF Walk
<1>5. src \in {"old", "lib"} /\ cwd \in Paths /\ todo \subseteq Paths /\ faults \in 0..MaxFaults
  BY <1>1 DEF TypeOK
<1> QED
  BY <1>1, <1>2, <1>3, <1>4, <1>5, SafeEarly

\* The three mkdirat calls.
MadeAll(t) == Made(Made(Made(t, <<>>, "dir"), A64, "dir"), Modules, "dir")

\* The three mkdir calls leave a tree and remove no file.
LEMMA MadeAllTree ==
  ASSUME NEW t, Good(t)
  PROVE  Good(MadeAll(t)) /\ Keeps(t, MadeAll(t))
<1>1. /\ <<>> \in Paths /\ A64 \in Paths /\ Modules \in Paths
      /\ "dir" \in Nodes /\ "dir" # "link"
  BY PathFacts, NamedPaths DEF Nodes
<1> DEFINE a == Made(t, <<>>, "dir")
           b == Made(a, A64, "dir")
           c == Made(b, Modules, "dir")
<1>2. Good(a) /\ Keeps(t, a)
  BY <1>1, MadeTree
<1> HIDE DEF a
<1>3. Good(b) /\ Keeps(a, b)
  BY <1>1, <1>2, MadeTree
<1> HIDE DEF b
<1>4. Good(c) /\ Keeps(b, c)
  BY <1>1, <1>3, MadeTree
<1> HIDE DEF c
<1>5. Keeps(t, c)
  BY <1>2, <1>3, <1>4 DEF Keeps
<1>6. MadeAll(t) = c
  BY DEF MadeAll, a, b, c
<1> QED
  BY <1>4, <1>5, <1>6

\* The mkdir calls before the merge.
LEMMA SafeMkdirs == ASSUME Safe, Mkdirs PROVE Safe'
<1>1. TypeOK /\ Sane(fs) /\ Kept(orig, fs)
  BY SafeFacts
<1>2. /\ disk' = disk /\ orig' = orig /\ crashes' = crashes
      /\ dirty' = dirty /\ src' = src /\ cwd' = cwd /\ todo' = todo /\ k' = k
      /\ verdict' = verdict /\ faults' = faults /\ tries' = tries
      /\ pc \notin Late /\ pc' \in PCs \ {"done", "write", "merge"}
  BY DEF Mkdirs, Frame, Goto, Late, PCs
<1>3. fs' = [fs EXCEPT !.usr = MadeAll(fs.usr)]
  BY DEF Mkdirs, MadeAll
<1>4. Good(fs.usr) /\ Good(MadeAll(fs.usr)) /\ Keeps(fs.usr, MadeAll(fs.usr))
  BY <1>1, SaneParts, MadeAllTree
<1>5. Sane(fs') /\ fs'.usr = MadeAll(fs.usr) /\ fs'.old = fs.old /\ fs'.lib = fs.lib
  BY <1>1, <1>3, <1>4, ReplacedUsr
<1>6. Kept(orig, fs')
  BY <1>1, <1>4, <1>5, KeepsSelf, KeptOn
<1>7. Walk'
  BY <1>2 DEF Walk
<1>8. /\ src \in {"old", "lib"} /\ cwd \in Paths /\ todo \subseteq Paths /\ faults \in 0..MaxFaults
      /\ tries \in 1..MountTries
  BY <1>1 DEF TypeOK
<1> QED
  BY <1>2, <1>5, <1>6, <1>7, <1>8, SafeEarly

\* merge_dir is entered only for a directory.
LEMMA SafeEnter == ASSUME Safe, OpenOld \/ StatLib PROVE Safe'
<1>1. TypeOK /\ Sane(fs) /\ Kept(orig, fs)
  BY SafeFacts
<1>2. /\ disk' = disk /\ orig' = orig /\ crashes' = crashes /\ fs' = fs
      /\ dirty' = dirty /\ k' = k
      /\ verdict' = verdict /\ faults' = faults /\ tries' = tries
      /\ pc \notin Late /\ pc' \in PCs \ {"done", "write"}
  BY DEF OpenOld, StatLib, EnterMerge, Frame, Goto, Late, PCs
<1>3. \/ pc' # "merge" /\ UNCHANGED <<src, cwd, todo>>
      \/ \E s \in Sources : IsDir(fs[s], <<>>) /\ EnterMerge(s)
  BY DEF OpenOld, StatLib, Goto, Sources
<1>4. Walk' /\ src' \in {"old", "lib"} /\ cwd' \in Paths /\ todo' \subseteq Paths
  <2>1. CASE pc' # "merge" /\ UNCHANGED <<src, cwd, todo>>
    BY <1>1, <2>1 DEF Walk, TypeOK
  <2>2. ASSUME NEW s \in Sources, IsDir(fs[s], <<>>), EnterMerge(s)
        PROVE  Walk' /\ src' \in {"old", "lib"} /\ cwd' \in Paths /\ todo' \subseteq Paths
    <3>1. src' = s /\ cwd' = <<>> /\ todo' = Children(fs[s], <<>>)
      BY <2>2 DEF EnterMerge
    <3>2. OnItsWay(fs, s, <<>>, Children(fs[s], <<>>))
      BY <2>2, WayStarts DEF IsDir
    <3>3. Walk'
      BY <1>2, <3>1, <3>2 DEF Walk
    <3>4. <<>> \in Paths /\ Children(fs[s], <<>>) \subseteq Paths
      BY PathFacts DEF Children, Within
    <3> QED
      BY <3>1, <3>3, <3>4 DEF Sources
  <2> QED
    BY <1>3, <2>1, <2>2
<1>5. faults \in 0..MaxFaults /\ tries \in 1..MountTries
  BY <1>1 DEF TypeOK
<1> QED
  BY <1>1, <1>2, <1>4, <1>5, SafeEarly

\* What each entry of the directory meets: the file system, the directory and
\* the entries that are left.
LEMMA EntryStep ==
  ASSUME Safe, MergeEntry
  PROVE  /\ pc = "merge" /\ pc' = "merge"
         /\ \E p \in todo :
              /\ Front(p) = cwd
              /\ \/ MoveEntry(p)
                 \/ MergeSubdir(p)
<1>1. cwd \in Paths /\ todo \subseteq Paths
  BY SafeFacts DEF TypeOK
<1> QED
  BY <1>1, PendingAre DEF MergeEntry

\* The entry moved.
LEMMA EntryMoved ==
  ASSUME Safe, pc = "merge", NEW p \in todo, Front(p) = cwd, MoveEntry(p)
  PROVE  /\ p \in Paths /\ p # <<>> /\ fs[src][p] # "absent" /\ fs.usr[cwd] = "dir"
         /\ Sane(fs') /\ fs'.lib64 = fs.lib64
         /\ fs'.usr = MovedTo(fs[src], fs.usr, p)
         /\ fs'[src] = MovedFrom(fs[src], p)
         /\ \A t \in Sources : t # src => fs'[t] = fs[t]
         /\ Kept(orig, fs')
         /\ OnItsWay(fs', src, cwd, todo \ {p})
<1>1. /\ cwd \in Paths /\ todo \in SUBSET Paths /\ src \in Sources /\ Sane(fs) /\ Kept(orig, fs)
      /\ OnItsWay(fs, src, cwd, todo)
  BY SafeFacts DEF TypeOK, Walk
<1>2. CanRename(fs[src], fs.usr, p)
  BY DEF MoveEntry
<1>3. fs' = With(fs, src, MovedTo(fs[src], fs.usr, p), MovedFrom(fs[src], p))
  <2>1. fs \in FileSystems
    BY <1>1 DEF Sane
  <2>2. fs' = [fs EXCEPT !.usr = MovedTo(fs[src], fs.usr, p), ![src] = MovedFrom(@, p)]
    BY DEF MoveEntry
  <2>3. CASE src = "old"
    BY <2>1, <2>2, <2>3 DEF With, FileSystems
  <2>4. CASE src = "lib"
    BY <2>1, <2>2, <2>4 DEF With, FileSystems
  <2> QED
    BY <1>1, <2>3, <2>4 DEF Sources
<1>4. /\ p \in Paths /\ p # <<>> /\ fs[src][p] # "absent" /\ fs.usr[Front(p)] = "dir"
      /\ \A g : g.usr = MovedTo(fs[src], fs.usr, p) /\ g[src] = MovedFrom(fs[src], p)
                => OnItsWay(g, src, cwd, todo \ {p})
  BY <1>1, <1>2, WayOfMove
<1>5. /\ Sane(fs') /\ fs'.lib64 = fs.lib64
      /\ fs'.usr = MovedTo(fs[src], fs.usr, p) /\ fs'[src] = MovedFrom(fs[src], p)
      /\ \A t \in Sources : t # src => fs'[t] = fs[t]
      /\ Kept(orig, fs')
  BY <1>1, <1>2, <1>3, <1>4, MoveIs
<1> QED
  BY <1>4, <1>5

\* The entry did not move: the call descends into it, or passes it by.
LEMMA EntryStayed ==
  ASSUME Safe, pc = "merge", NEW p \in todo, Front(p) = cwd, MergeSubdir(p)
  PROVE  /\ p \in Paths /\ p # <<>> /\ fs[src][p] # "absent"
         /\ Sane(fs') /\ fs'.lib64 = fs.lib64
         /\ \A t \in Sources : t # src => fs'[t] = fs[t]
         /\ Kept(orig, fs')
         /\ fs'.usr \in Offered(fs, p)
         /\ \/ ~CanRename(fs[src], fs.usr, p) /\ faults' = faults
            \/ faults < MaxFaults /\ faults' = faults + 1
         /\ \/ /\ fs'[src] = fs[src] /\ fs[src][p] = "dir" /\ fs'.usr[p] = "dir"
               /\ cwd' = p /\ todo' = (todo \ {p}) \cup Children(fs[src], p)
            \/ /\ fs'[src] = Rmdired(fs[src], p) /\ ~(fs[src][p] = "dir" /\ fs'.usr[p] = "dir")
               /\ cwd' = cwd /\ todo' = todo \ {p}
         /\ OnItsWay(fs', src, cwd', todo')
<1>1. /\ cwd \in Paths /\ todo \in SUBSET Paths /\ src \in Sources /\ Sane(fs) /\ Kept(orig, fs)
      /\ OnItsWay(fs, src, cwd, todo)
  BY SafeFacts DEF TypeOK, Walk
<1>2. p \in Paths /\ p # <<>> /\ fs[src][p] # "absent"
  BY <1>1 DEF OnItsWay
<1>3. PICK u \in Offered(fs, p) :
        /\ \/ ~CanRename(fs[src], fs.usr, p) /\ UNCHANGED faults
           \/ CanRename(fs[src], fs.usr, p) /\ faults < MaxFaults /\ faults' = faults + 1
        /\ IF IsDir(fs[src], p) /\ IsDir(u, p)
           THEN /\ cwd' = p
                /\ todo' = (todo \ {p}) \cup Children(fs[src], p)
                /\ fs' = [fs EXCEPT !.usr = u]
           ELSE /\ UNCHANGED cwd
                /\ todo' = todo \ {p}
                /\ fs' = [fs EXCEPT !.usr = u, ![src] = RemoveLeftover(@, p)]
  BY DEF MergeSubdir, Offered
<1>4. \/ ~CanRename(fs[src], fs.usr, p) /\ faults' = faults
      \/ faults < MaxFaults /\ faults' = faults + 1
  BY <1>3
<1>5. fs \in FileSystems
  BY <1>1 DEF Sane
<1>6. \A q \in Paths : u[q] # fs.usr[q] => q = p
  BY <1>1, <1>2, <1>3, MadeDirIs
<1>7. CASE fs[src][p] = "dir" /\ u[p] = "dir"
  <2>1. /\ cwd' = p /\ todo' = (todo \ {p}) \cup Children(fs[src], p)
        /\ fs' = [fs EXCEPT !.usr = u]
    BY <1>3, <1>7 DEF IsDir
  <2>2. fs' = With(fs, src, u, fs[src])
    <3>1. CASE src = "old"
      BY <1>5, <2>1, <3>1 DEF With, FileSystems
    <3>2. CASE src = "lib"
      BY <1>5, <2>1, <3>2 DEF With, FileSystems
    <3> QED
      BY <1>1, <3>1, <3>2 DEF Sources
  <2>3. /\ Sane(fs') /\ fs'.lib64 = fs.lib64 /\ fs'.usr = u /\ fs'[src] = fs[src]
        /\ \A t \in Sources : t # src => fs'[t] = fs[t]
        /\ Kept(orig, fs')
    BY <1>1, <1>2, <1>3, <2>2, SubdirIs
  <2>4. OnItsWay(fs', src, p, (todo \ {p}) \cup Children(fs[src], p))
    BY <1>1, <1>7, <2>3, WayDown
  <2> QED
    BY <1>2, <1>3, <1>4, <1>7, <2>1, <2>3, <2>4
<1>8. CASE ~(fs[src][p] = "dir" /\ u[p] = "dir")
  <2>1. /\ cwd' = cwd /\ todo' = todo \ {p}
        /\ fs' = [fs EXCEPT !.usr = u, ![src] = Rmdired(@, p)]
    BY <1>3, <1>8 DEF IsDir, RemoveLeftover
  <2>2. fs' = With(fs, src, u, Rmdired(fs[src], p))
    <3>1. CASE src = "old"
      BY <1>5, <2>1, <3>1 DEF With, FileSystems
    <3>2. CASE src = "lib"
      BY <1>5, <2>1, <3>2 DEF With, FileSystems
    <3> QED
      BY <1>1, <3>1, <3>2 DEF Sources
  <2>3. /\ Sane(fs') /\ fs'.lib64 = fs.lib64 /\ fs'.usr = u /\ fs'[src] = Rmdired(fs[src], p)
        /\ \A t \in Sources : t # src => fs'[t] = fs[t]
        /\ Kept(orig, fs')
    BY <1>1, <1>2, <1>3, <2>2, SubdirIs
  <2>4. \A q \in Paths : q # p => fs'[src][q] = fs[src][q]
    <3>1. Good(fs[src])
      BY <1>1, SaneParts DEF Trees, Sources
    <3> QED
      BY <1>2, <2>3, <3>1, RmdiredTree
  <2>5. OnItsWay(fs', src, cwd, todo \ {p})
    BY <1>1, <1>6, <2>3, <2>4, WayOn
  <2> QED
    BY <1>2, <1>3, <1>4, <1>8, <2>1, <2>3, <2>5
<1> QED
  BY <1>7, <1>8

\* One entry of merge_dir's loop: renamed, removed or entered.
LEMMA SafeMergeEntry == ASSUME Safe, MergeEntry PROVE Safe'
<1>1. TypeOK
  BY SafeFacts
<1>2. /\ disk' = disk /\ orig' = orig /\ crashes' = crashes
      /\ dirty' = dirty /\ k' = k /\ src' = src
      /\ verdict' = verdict /\ tries' = tries
      /\ pc = "merge" /\ pc' = pc
  BY DEF MergeEntry, Frame
<1>3. pc \notin Late /\ pc' \in PCs \ {"done", "write"}
  BY <1>2 DEF Late, PCs
<1>4. /\ src \in {"old", "lib"} /\ cwd \in Paths /\ todo \subseteq Paths
      /\ faults \in 0..MaxFaults /\ tries \in 1..MountTries /\ MaxFaults \in Nat
  BY <1>1, BoundsAssumption DEF TypeOK
<1>5. PICK p \in todo : Front(p) = cwd /\ (MoveEntry(p) \/ MergeSubdir(p))
  BY EntryStep
<1>6. /\ Sane(fs') /\ Kept(orig, fs') /\ OnItsWay(fs', src, cwd', todo')
      /\ cwd' \in Paths /\ todo' \subseteq Paths /\ faults' \in 0..MaxFaults
  <2>1. CASE MoveEntry(p)
    <3>1. cwd' = cwd /\ faults' = faults /\ todo' = todo \ {p}
      BY <2>1 DEF MoveEntry
    <3> QED
      BY <1>2, <1>4, <1>5, <2>1, <3>1, EntryMoved
  <2>2. CASE MergeSubdir(p)
    <3>1. Children(fs[src], p) \subseteq Paths
      BY DEF Children, Within
    <3>2. /\ Sane(fs') /\ Kept(orig, fs') /\ OnItsWay(fs', src, cwd', todo')
          /\ p \in Paths
          /\ faults' = faults \/ (faults < MaxFaults /\ faults' = faults + 1)
          /\ \/ cwd' = p /\ todo' = (todo \ {p}) \cup Children(fs[src], p)
             \/ cwd' = cwd /\ todo' = todo \ {p}
      BY <1>2, <1>5, <2>2, EntryStayed
    <3>3. faults' \in 0..MaxFaults
      BY <1>4, <3>2
    <3> QED
      BY <1>4, <3>1, <3>2, <3>3
  <2> QED
    BY <1>5, <2>1, <2>2
<1>7. Walk'
  BY <1>2, <1>6 DEF Walk
<1> QED
  BY <1>2, <1>3, <1>4, <1>6, <1>7, SafeEarly

\* A directory of the merged tree, its root included, is removed if it is
\* empty.
LEMMA SrcRemoved ==
  ASSUME NEW f, Sane(f), NEW s \in Sources, NEW c \in Paths,
         NEW g, g = WithSrc(f, s, Rmdired(f[s], c))
  PROVE  /\ Sane(g) /\ g.usr = f.usr /\ g[s] = Rmdired(f[s], c) /\ g.lib64 = f.lib64
         /\ \A t \in Sources : t # s => g[t] = f[t]
         /\ \A o : Kept(o, f) => Kept(o, g)
         /\ \A q \in Paths : q # c => g[s][q] = f[s][q]
<1>1. Good(f[s])
  BY SaneParts DEF Trees, Sources
<1>2. /\ Good(Rmdired(f[s], c)) /\ Keeps(f[s], Rmdired(f[s], c))
      /\ \A q \in Paths : q # c => Rmdired(f[s], c)[q] = f[s][q]
  BY <1>1, RmdiredTree
<1>3. /\ Sane(g) /\ g.usr = f.usr /\ g[s] = Rmdired(f[s], c) /\ g.lib64 = f.lib64
      /\ \A t \in Sources : t # s => g[t] = f[t]
  BY <1>2, ReplacedSrc
<1>4. ASSUME NEW o, Kept(o, f) PROVE Kept(o, g)
  BY <1>2, <1>3, <1>4, KeptSrc
<1> QED
  BY <1>2, <1>3, <1>4

\* The end of a directory: rmdir, and back to the one above.
LEMMA SafeMergeReturn == ASSUME Safe, MergeReturn PROVE Safe'
<1>1. TypeOK /\ Sane(fs) /\ Kept(orig, fs) /\ Walk /\ src \in Sources
  BY SafeFacts
<1>2. /\ disk' = disk /\ orig' = orig /\ crashes' = crashes
      /\ dirty' = dirty /\ k' = k /\ src' = src /\ todo' = todo
      /\ verdict' = verdict /\ tries' = tries /\ faults' = faults
      /\ pc = "merge" /\ Pending(cwd) = {}
  BY DEF MergeReturn, Frame
<1>3. /\ src \in {"old", "lib"} /\ cwd \in Paths /\ todo \in SUBSET Paths
      /\ faults \in 0..MaxFaults /\ tries \in 1..MountTries
  BY <1>1 DEF TypeOK
<1>4. CASE cwd = <<>>
  <2>1. pc' = "rmdirsrc" /\ cwd' = cwd /\ fs' = fs
    BY <1>4 DEF MergeReturn, Goto
  <2>2. Walk' /\ pc \notin Late /\ pc' \in PCs \ {"done", "write"}
    BY <1>2, <2>1 DEF Walk, Late, PCs
  <2> QED
    BY <1>1, <1>2, <1>3, <2>1, <2>2, SafeEarly
<1>5. CASE cwd # <<>>
  <2>1. pc' = pc /\ cwd' = Front(cwd) /\ fs' = WithSrc(fs, src, Rmdired(fs[src], cwd))
    BY <1>5 DEF MergeReturn, RemoveLeftover, WithSrc
  <2>2. /\ Sane(fs') /\ fs'.usr = fs.usr /\ Kept(orig, fs')
        /\ \A q \in Paths : q # cwd => fs'[src][q] = fs[src][q]
    BY <1>1, <1>3, <2>1, SrcRemoved
  <2>3. \A q \in todo : q # <<>> => Front(q) # cwd
    BY <1>2, <1>3, PendingAre
  <2>4. OnItsWay(fs, src, cwd, todo)
    BY <1>1, <1>2 DEF Walk
  <2>5. OnItsWay(fs', src, Front(cwd), todo)
    BY <1>1, <1>3, <1>5, <2>2, <2>3, <2>4, WayUp
  <2>6. Walk' /\ pc \notin Late /\ pc' \in PCs \ {"done", "write"}
    BY <1>2, <2>1, <2>5 DEF Walk, Late, PCs
  <2>7. Front(cwd) \in Paths
    BY <1>3, <1>5, FrontPath
  <2> QED
    BY <1>2, <1>3, <2>1, <2>2, <2>6, <2>7, SafeEarly
<1> QED
  BY <1>4, <1>5

\* rmdir of the merged tree's root.
LEMMA SafeRmdirSrc == ASSUME Safe, RmdirSrc PROVE Safe'
<1>1. TypeOK /\ Sane(fs) /\ Kept(orig, fs) /\ src \in Sources
  BY SafeFacts
<1>2. /\ disk' = disk /\ orig' = orig /\ crashes' = crashes
      /\ dirty' = dirty /\ src' = src /\ cwd' = cwd /\ todo' = todo /\ k' = k
      /\ verdict' = verdict /\ faults' = faults /\ tries' = tries
      /\ fs' = WithSrc(fs, src, Rmdired(fs[src], <<>>))
  BY DEF RmdirSrc, Frame, WithSrc
<1>3. pc \notin Late /\ pc' \in PCs \ {"done", "write", "merge"}
  BY DEF RmdirSrc, Goto, Late, PCs
<1>4. Sane(fs') /\ Kept(orig, fs')
  BY <1>1, <1>2, PathFacts, SrcRemoved
<1>5. Walk'
  BY <1>3 DEF Walk
<1>6. /\ src \in {"old", "lib"} /\ cwd \in Paths /\ todo \subseteq Paths /\ faults \in 0..MaxFaults
      /\ tries \in 1..MountTries
  BY <1>1 DEF TypeOK
<1> QED
  BY <1>2, <1>3, <1>4, <1>5, <1>6, SafeEarly

\* unlink, rmdir and symlink of /lib.
LEMMA LibRelinked ==
  ASSUME Safe, RelinkLib
  PROVE  /\ Sane(fs') /\ Kept(orig, fs') /\ fs'.usr = fs.usr /\ fs'.old = fs.old
         /\ fs'.lib64 = fs.lib64
         /\ \A q \in Paths : q # <<>> => fs'.lib[q] = fs.lib[q]
         /\ \/ pc = "unlinklib" /\ fs'.lib = Unlinked(fs.lib, <<>>) /\ pc' = "rmdirlib"
            \/ pc = "rmdirlib" /\ fs'.lib = Rmdired(fs.lib, <<>>) /\ pc' = "symlib"
            \/ pc = "symlib" /\ fs'.lib = Made(fs.lib, <<>>, "link") /\ pc' = "unlink64"
<1>1. Sane(fs) /\ Kept(orig, fs) /\ Good(fs.lib)
  BY SafeFacts, SaneParts
<1>2. <<>> \in Paths /\ <<>> \notin Precious /\ "link" \in Nodes /\ "lib" \in Sources
  BY PathFacts DEF Precious, Nodes, Sources
<1>3. PICK v : /\ fs' = WithSrc(fs, "lib", v)
               /\ \/ pc = "unlinklib" /\ v = Unlinked(fs.lib, <<>>) /\ pc' = "rmdirlib"
                  \/ pc = "rmdirlib" /\ v = Rmdired(fs.lib, <<>>) /\ pc' = "symlib"
                  \/ pc = "symlib" /\ v = Made(fs.lib, <<>>, "link") /\ pc' = "unlink64"
  BY DEF RelinkLib, Goto, WithSrc
<1>4. Good(v) /\ Keeps(fs.lib, v) /\ \A q \in Paths : q # <<>> => v[q] = fs.lib[q]
  <2>1. CASE v = Unlinked(fs.lib, <<>>)
    BY <1>1, <1>2, <2>1, UnlinkedTree
  <2>2. CASE v = Rmdired(fs.lib, <<>>)
    BY <1>1, <1>2, <2>2, RmdiredTree
  <2>3. CASE v = Made(fs.lib, <<>>, "link")
    BY <1>1, <1>2, <2>3, MadeTree
  <2> QED
    BY <1>3, <2>1, <2>2, <2>3
<1>5. /\ Sane(fs') /\ fs'.usr = fs.usr /\ fs'["lib"] = v /\ fs'.lib64 = fs.lib64
      /\ \A t \in Sources : t # "lib" => fs'[t] = fs[t]
  BY <1>1, <1>2, <1>3, <1>4, ReplacedSrc
<1>6. fs'.old = fs.old
  BY <1>5 DEF Sources
<1>7. Kept(orig, fs')
  BY <1>1, <1>4, <1>5, <1>6, KeepsSelf, KeptOn
<1> QED
  BY <1>3, <1>4, <1>5, <1>6, <1>7

\* unlink, rmdir and symlink of /lib.
LEMMA SafeRelinkLib == ASSUME Safe, RelinkLib PROVE Safe'
<1>1. TypeOK
  BY SafeFacts
<1>2. /\ disk' = disk /\ orig' = orig /\ crashes' = crashes
      /\ dirty' = dirty /\ src' = src /\ cwd' = cwd /\ todo' = todo /\ k' = k
      /\ verdict' = verdict /\ faults' = faults /\ tries' = tries
  BY DEF RelinkLib, Frame
<1>3. pc \notin Late /\ pc' \in PCs \ {"done", "write", "merge"}
  BY DEF RelinkLib, Goto, Late, PCs
<1>4. Sane(fs') /\ Kept(orig, fs')
  BY LibRelinked
<1>5. Walk'
  BY <1>3 DEF Walk
<1>6. /\ src \in {"old", "lib"} /\ cwd \in Paths /\ todo \subseteq Paths /\ faults \in 0..MaxFaults
      /\ tries \in 1..MountTries
  BY <1>1 DEF TypeOK
<1> QED
  BY <1>2, <1>3, <1>4, <1>5, <1>6, SafeEarly

\* What unlink, rmdir and symlink make of /lib64.
LEMMA Lib64Relinked ==
  ASSUME Safe, RelinkLib64
  PROVE  /\ Sane(fs') /\ Kept(orig, fs')
         /\ fs'.usr = fs.usr /\ fs'.old = fs.old /\ fs'.lib = fs.lib
         /\ \/ /\ pc = "unlink64" /\ pc' = "rmdir64"
               /\ fs'.lib64 = IF fs.lib64 \in {"link", "file"} THEN "absent" ELSE fs.lib64
            \/ /\ pc = "rmdir64" /\ pc' = "sym64"
               /\ fs'.lib64 = IF fs.lib64 = "empty" THEN "absent" ELSE fs.lib64
            \/ /\ pc = "sym64" /\ pc' = "unlink"
               /\ fs'.lib64 = IF fs.lib64 = "absent" THEN "link" ELSE fs.lib64
<1>1. Sane(fs) /\ Kept(orig, fs)
  BY SafeFacts
<1>2. PICK x :
        /\ fs' = [fs EXCEPT !.lib64 = x]
        /\ \/ /\ pc = "unlink64" /\ pc' = "rmdir64"
              /\ x = IF fs.lib64 \in {"link", "file"} THEN "absent" ELSE fs.lib64
           \/ /\ pc = "rmdir64" /\ pc' = "sym64"
              /\ x = IF fs.lib64 = "empty" THEN "absent" ELSE fs.lib64
           \/ /\ pc = "sym64" /\ pc' = "unlink"
              /\ x = IF fs.lib64 = "absent" THEN "link" ELSE fs.lib64
  BY DEF RelinkLib64, Goto
<1>3. fs.lib64 \in {"absent", "link", "file", "empty", "full"}
  BY <1>1 DEF Sane, FileSystems
<1>4. x \in {"absent", "link", "file", "empty", "full"}
  BY <1>2, <1>3
<1>5. Sane(fs') /\ fs'.usr = fs.usr /\ fs'.old = fs.old /\ fs'.lib = fs.lib /\ fs'.lib64 = x
  BY <1>1, <1>2, <1>4, Replaced64
<1>6. Kept(orig, fs')
  BY <1>1, <1>5, KeepsSelf, KeptOn
<1> QED
  BY <1>2, <1>5, <1>6

\* unlink, rmdir and symlink of /lib64.
LEMMA SafeRelinkLib64 == ASSUME Safe, RelinkLib64 PROVE Safe'
<1>1. TypeOK
  BY SafeFacts
<1>2. /\ disk' = disk /\ orig' = orig /\ crashes' = crashes
      /\ dirty' = dirty /\ src' = src /\ cwd' = cwd /\ todo' = todo /\ k' = k
      /\ verdict' = verdict /\ faults' = faults /\ tries' = tries
  BY DEF RelinkLib64, Frame
<1>3. pc \notin Late /\ pc' \in PCs \ {"done", "write", "merge"}
  BY DEF RelinkLib64, Goto, Late, PCs
<1>4. Sane(fs') /\ Kept(orig, fs')
  BY Lib64Relinked
<1>5. Walk'
  BY <1>3 DEF Walk
<1>6. /\ src \in {"old", "lib"} /\ cwd \in Paths /\ todo \subseteq Paths /\ faults \in 0..MaxFaults
      /\ tries \in 1..MountTries
  BY <1>1 DEF TypeOK
<1> QED
  BY <1>2, <1>3, <1>4, <1>5, <1>6, SafeEarly

\* The linkers are copied one after the other.
LEMMA NextCopyIs ==
  ASSUME k \in 1..3, NextCopy
  PROVE  k' \in 1..3 /\ pc' \in {"unlink", "compat1"}
BY DEF NextCopy, Goto

\* A call on /usr/lib that only touches linkers, in the second half of the
\* program.
LEMMA SafeLate ==
  ASSUME Safe, disk' = disk, orig' = orig, crashes' = crashes, tries' = tries,
         src' = src, cwd' = cwd, todo' = todo, verdict' = verdict,
         pc' \in Late, k' \in 1..3, faults' \in 0..MaxFaults,
         NEW u, Good(u), Keeps(fs.usr, u), fs' = [fs EXCEPT !.usr = u],
         pc' = "write" => u[Copies[k'].dst] \in Files,
         \A p \in dirty' : p \in LinkerPaths /\ u[p] = "new"
  PROVE  /\ Safe' /\ fs'.usr = u /\ fs'.old = fs.old /\ fs'.lib = fs.lib
         /\ fs'.lib64 = fs.lib64
<1>1. TypeOK /\ Sane(fs) /\ Kept(orig, fs)
  BY SafeFacts
<1>2. /\ Sane(fs') /\ fs'.usr = u /\ fs'.old = fs.old /\ fs'.lib = fs.lib
      /\ fs'.lib64 = fs.lib64
  BY <1>1, ReplacedUsr
<1>3. Kept(orig, fs')
  BY <1>1, <1>2, KeepsSelf, KeptOn
<1>4. pc' \in PCs /\ pc' # "done" /\ pc' # "merge"
  BY DEF Late, PCs
<1>5. Walk'
  BY <1>4 DEF Walk
<1>6. dirty' \subseteq Paths
  BY NamedPaths
<1>7. /\ tries \in 1..MountTries /\ src \in {"old", "lib"} /\ cwd \in Paths /\ todo \subseteq Paths
      /\ verdict \in {"none", "success", "warning"}
  BY <1>1 DEF TypeOK
<1>8. /\ pc' = "write" => fs'.usr[Copies[k'].dst] \in Files
      /\ \A p \in dirty' : p \in LinkerPaths /\ fs'.usr[p] = "new"
  BY <1>2
<1>9. Safe'
  BY <1>2, <1>3, <1>4, <1>5, <1>6, <1>7, <1>8, SafeOn
<1> QED
  BY <1>2, <1>9

\* ... or that touches nothing.
LEMMA SafeIdle ==
  ASSUME Safe, disk' = disk, orig' = orig, crashes' = crashes, tries' = tries,
         src' = src, cwd' = cwd, todo' = todo, verdict' \in {"none", "success", "warning"},
         fs' = fs, dirty' = dirty, pc' \in Late \ {"write"}, k' \in 1..3,
         faults' \in 0..MaxFaults
  PROVE  Safe'
<1>1. TypeOK /\ Sane(fs) /\ Kept(orig, fs) /\ Writes
  BY SafeFacts
<1>2. pc' \in PCs /\ pc' # "done" /\ pc' # "merge" /\ pc' # "write" /\ pc' \in Late
  BY DEF Late, PCs
<1>3. Walk'
  BY <1>2 DEF Walk
<1>4. /\ tries \in 1..MountTries /\ src \in {"old", "lib"} /\ cwd \in Paths /\ todo \subseteq Paths
      /\ dirty \subseteq Paths
  BY <1>1 DEF TypeOK
<1>5. \A p \in dirty : p \in LinkerPaths /\ fs.usr[p] = "new"
  BY <1>1 DEF Writes
<1> QED
  BY <1>1, <1>2, <1>3, <1>4, <1>5, SafeOn

\* What the copying calls do to /usr/lib, and where they go.
LEMMA LinkerPath ==
  ASSUME Safe
  PROVE  /\ Copies[k].dst \in LinkerPaths /\ Copies[k].dst \in Paths
         /\ Copies[k].dst \notin Precious /\ Good(fs.usr) /\ k \in 1..3
<1>1. k \in 1..3 /\ Sane(fs)
  BY SafeFacts DEF TypeOK
<1>2. Copies[k].dst \in LinkerPaths
  BY <1>1, NamedPaths
<1> QED
  BY <1>1, <1>2, NamedPaths, SaneParts DEF Precious

\* copy_file removes the destination when the payload has the source,
LEMMA SafeCopyUnlink ==
  ASSUME Safe, CopyUnlink
  PROVE  /\ Safe'
         /\ \/ /\ Copies[k].src \in Payload /\ fs'.usr = Unlinked(fs.usr, Copies[k].dst)
               /\ pc' = "create" /\ k' = k
            \/ Copies[k].src \notin Payload /\ NextCopy /\ fs'.usr = fs.usr
         /\ fs'.old = fs.old /\ fs'.lib = fs.lib /\ fs'.lib64 = fs.lib64
<1> DEFINE d == Copies[k].dst
<1>1. d \in LinkerPaths /\ d \in Paths /\ d \notin Precious /\ Good(fs.usr) /\ k \in 1..3
  BY LinkerPath
<1>2. /\ disk' = disk /\ orig' = orig /\ crashes' = crashes /\ tries' = tries
      /\ src' = src /\ cwd' = cwd /\ todo' = todo /\ verdict' = verdict /\ faults' = faults
  BY DEF CopyUnlink, Frame
<1>3. /\ verdict \in {"none", "success", "warning"} /\ faults \in 0..MaxFaults
      /\ \A p \in dirty : p \in LinkerPaths /\ fs.usr[p] = "new"
  BY SafeFacts DEF TypeOK, Writes
<1>4. CASE Copies[k].src \in Payload
  <2>1. /\ fs' = [fs EXCEPT !.usr = Unlinked(fs.usr, d)] /\ dirty' = dirty \ {d}
        /\ pc' = "create" /\ k' = k
    BY <1>4 DEF CopyUnlink, Goto
  <2> DEFINE u == Unlinked(fs.usr, d)
  <2>2. Good(u) /\ Keeps(fs.usr, u) /\ \A p \in Paths : p # d => u[p] = fs.usr[p]
    BY <1>1, UnlinkedTree
  <2>3. fs' = [fs EXCEPT !.usr = u]
    BY <2>1
  <2> HIDE DEF u
  <2>4. \A p \in dirty' : p \in LinkerPaths /\ u[p] = "new"
    BY <1>3, <2>1, <2>2, NamedPaths
  <2>5. pc' \in Late /\ pc' # "write" /\ k' \in 1..3
    BY <1>1, <2>1 DEF Late
  <2>6. Safe' /\ fs'.usr = u /\ fs'.old = fs.old /\ fs'.lib = fs.lib /\ fs'.lib64 = fs.lib64
    BY <1>2, <1>3, <2>2, <2>3, <2>4, <2>5, SafeLate
  <2> QED
    BY <1>4, <2>1, <2>6 DEF u
<1>5. CASE Copies[k].src \notin Payload
  <2>1. NextCopy /\ fs' = fs /\ dirty' = dirty
    BY <1>5 DEF CopyUnlink
  <2>2. k' \in 1..3 /\ pc' \in Late \ {"write"}
    BY <1>1, <2>1, NextCopyIs DEF Late
  <2>3. Safe'
    BY <1>2, <1>3, <2>1, <2>2, SafeIdle
  <2> QED
    BY <1>5, <2>1, <2>3
<1> QED
  BY <1>4, <1>5

\* creates it, truncating a file that is still there,
LEMMA SafeCopyCreate ==
  ASSUME Safe, CopyCreate
  PROVE  /\ Safe'
         /\ \/ /\ fs'.usr = Made(fs.usr, Copies[k].dst, "torn")
               /\ fs'.usr[Copies[k].dst] \in Files /\ pc' = "write" /\ k' = k
            \/ /\ Made(fs.usr, Copies[k].dst, "torn")[Copies[k].dst] \notin Files
               /\ NextCopy /\ fs'.usr = fs.usr
         /\ fs'.old = fs.old /\ fs'.lib = fs.lib /\ fs'.lib64 = fs.lib64
<1> DEFINE d == Copies[k].dst
           u == Made(fs.usr, d, "torn")
<1>1. d \in LinkerPaths /\ d \in Paths /\ d \notin Precious /\ Good(fs.usr) /\ k \in 1..3
  BY LinkerPath
<1>2. /\ disk' = disk /\ orig' = orig /\ crashes' = crashes /\ tries' = tries
      /\ src' = src /\ cwd' = cwd /\ todo' = todo /\ verdict' = verdict /\ faults' = faults
      /\ dirty' = dirty
  BY DEF CopyCreate, Frame
<1>3. /\ verdict \in {"none", "success", "warning"} /\ faults \in 0..MaxFaults
      /\ \A p \in dirty : p \in LinkerPaths /\ fs.usr[p] = "new"
  BY SafeFacts DEF TypeOK, Writes
<1>4. IF u[d] \in Files
      THEN fs' = [fs EXCEPT !.usr = u] /\ pc' = "write" /\ k' = k
      ELSE NextCopy /\ fs' = fs
  BY DEF CopyCreate, Goto
<1>5. /\ Good(u) /\ Keeps(fs.usr, u)
      /\ \A q \in Paths : u[q] # fs.usr[q] => fs.usr[q] = "absent"
  <2>1. "torn" \in Nodes /\ "torn" # "link"
    BY DEF Nodes, Files
  <2> QED
    BY <1>1, <2>1, MadeTree
<1> HIDE DEF u, d
<1>6. CASE u[d] \in Files
  <2>1. fs' = [fs EXCEPT !.usr = u] /\ pc' = "write" /\ k' = k
    BY <1>4, <1>6
  <2>2. \A p \in dirty' : p \in LinkerPaths /\ u[p] = "new"
    <3>1. \A p \in dirty : p \in Paths /\ fs.usr[p] # "absent"
      BY <1>3, NamedPaths
    <3> QED
      BY <1>2, <1>3, <1>5, <3>1
  <2>3. pc' \in Late /\ k' \in 1..3 /\ u[Copies[k'].dst] \in Files
    BY <1>1, <1>6, <2>1 DEF Late, d
  <2>4. Safe' /\ fs'.usr = u /\ fs'.old = fs.old /\ fs'.lib = fs.lib /\ fs'.lib64 = fs.lib64
    BY <1>2, <1>3, <1>5, <2>1, <2>2, <2>3, SafeLate
  <2> QED
    BY <1>6, <2>1, <2>4 DEF u, d
<1>7. CASE u[d] \notin Files
  <2>1. NextCopy /\ fs' = fs
    BY <1>4, <1>7
  <2>2. k' \in 1..3 /\ pc' \in Late \ {"write"}
    BY <1>1, <2>1, NextCopyIs DEF Late
  <2>3. Safe'
    BY <1>2, <1>3, <2>1, <2>2, SafeIdle
  <2> QED
    BY <1>7, <2>1, <2>3 DEF u, d
<1> QED
  BY <1>6, <1>7

\* and writes it, all of it or, with a fault, not all of it.
LEMMA SafeCopyWrite ==
  ASSUME Safe, CopyWrite
  PROVE  /\ Safe' /\ NextCopy
         /\ \/ /\ fs'.usr = [fs.usr EXCEPT ![Copies[k].dst] = "new"]
               /\ fs.usr[Copies[k].dst] \in Files /\ faults' = faults
            \/ fs'.usr = fs.usr /\ faults' = faults + 1
         /\ fs'.old = fs.old /\ fs'.lib = fs.lib /\ fs'.lib64 = fs.lib64
<1> DEFINE d == Copies[k].dst
           u == [fs.usr EXCEPT ![d] = "new"]
<1>1. d \in LinkerPaths /\ d \in Paths /\ d \notin Precious /\ Good(fs.usr) /\ k \in 1..3
  BY LinkerPath
<1>2. /\ disk' = disk /\ orig' = orig /\ crashes' = crashes /\ tries' = tries
      /\ src' = src /\ cwd' = cwd /\ todo' = todo /\ verdict' = verdict
      /\ NextCopy
  BY DEF CopyWrite, Frame
<1>3. /\ verdict \in {"none", "success", "warning"} /\ faults \in 0..MaxFaults /\ MaxFaults \in Nat
      /\ \A p \in dirty : p \in LinkerPaths /\ fs.usr[p] = "new"
      /\ fs.usr[d] \in Files /\ fs \in FileSystems
  BY SafeFacts, BoundsAssumption DEF TypeOK, Writes, CopyWrite
<1>4. k' \in 1..3 /\ pc' \in Late \ {"write"}
  BY <1>1, <1>2, NextCopyIs DEF Late
<1>5. \/ fs' = [fs EXCEPT !.usr = u] /\ dirty' = dirty \cup {d} /\ faults' = faults
      \/ faults < MaxFaults /\ faults' = faults + 1 /\ fs' = fs /\ dirty' = dirty
  BY DEF CopyWrite
<1>6. Good(u) /\ Keeps(fs.usr, u) /\ u[d] = "new" /\ \A p \in Paths : p # d => u[p] = fs.usr[p]
  <2>1. fs.usr \in [Paths -> Nodes] /\ IsTree(fs.usr)
    BY <1>1 DEF Good
  <2>2. "new" \in Nodes /\ "new" \notin {"dir", "absent", "link"} /\ fs.usr[d] \notin {"dir", "absent"}
    BY <1>3 DEF Nodes, Files
  <2>3. \A q \in Paths : IsPrefix(d, q) /\ d # q => fs.usr[q] = "absent"
    BY <1>1, <2>1, <2>2, NothingBelow
  <2>4. Good(u)
    BY <1>1, <2>2, <2>3, LeafChange
  <2>5. u[d] = "new" /\ \A p \in Paths : p # d => u[p] = fs.usr[p]
    BY <1>1, <2>1
  <2> QED
    BY <1>1, <2>4, <2>5 DEF Keeps, Precious
<1> HIDE DEF u, d
<1>7. CASE fs' = [fs EXCEPT !.usr = u] /\ dirty' = dirty \cup {d} /\ faults' = faults
  <2>1. \A p \in dirty' : p \in LinkerPaths /\ u[p] = "new"
    BY <1>1, <1>3, <1>6, <1>7, NamedPaths
  <2>2. Safe' /\ fs'.usr = u /\ fs'.old = fs.old /\ fs'.lib = fs.lib /\ fs'.lib64 = fs.lib64
    BY <1>2, <1>3, <1>4, <1>6, <1>7, <2>1, SafeLate
  <2> QED
    BY <1>2, <1>3, <1>7, <2>2 DEF u, d
<1>8. CASE faults < MaxFaults /\ faults' = faults + 1 /\ fs' = fs /\ dirty' = dirty
  <2>1. faults' \in 0..MaxFaults
    BY <1>3, <1>8
  <2>2. Safe'
    BY <1>2, <1>3, <1>4, <1>8, <2>1, SafeIdle
  <2> QED
    BY <1>2, <1>8, <2>2
<1> QED
  BY <1>5, <1>7, <1>8

\* The compat links change only linkers that are absent.
LEMMA SafeCompat ==
  ASSUME Safe, Compat
  PROVE  /\ Safe' /\ k' = k
         /\ \/ pc = "compat1" /\ pc' = "compat2"
            \/ pc = "compat2" /\ pc' = "verify"
         /\ \A q \in Paths : fs'.usr[q] # fs.usr[q] => q \in LinkerPaths /\ fs.usr[q] = "absent"
         /\ fs'.old = fs.old /\ fs'.lib = fs.lib /\ fs'.lib64 = fs.lib64
<1>1. Good(fs.usr) /\ k \in 1..3
  BY LinkerPath
<1>2. /\ disk' = disk /\ orig' = orig /\ crashes' = crashes /\ tries' = tries
      /\ src' = src /\ cwd' = cwd /\ todo' = todo /\ verdict' = verdict /\ faults' = faults
      /\ dirty' = dirty /\ k' = k
  BY DEF Compat, Frame
<1>3. /\ verdict \in {"none", "success", "warning"} /\ faults \in 0..MaxFaults
      /\ \A p \in dirty : p \in LinkerPaths /\ fs.usr[p] = "new"
  BY SafeFacts DEF TypeOK, Writes
<1>4. PICK d \in LinkerPaths : /\ fs' = [fs EXCEPT !.usr = Made(fs.usr, d, "link")]
                               /\ \/ pc = "compat1" /\ pc' = "compat2"
                                  \/ pc = "compat2" /\ pc' = "verify"
  <2>1. Append(A64, LD231) \in LinkerPaths /\ <<LD>> \in LinkerPaths
    <3>1. Copies[2].dst \in LinkerPaths /\ Copies[3].dst \in LinkerPaths
      BY DEF LinkerPaths
    <3> QED
      BY <3>1, NamedPaths
  <2> QED
    BY <2>1 DEF Compat, Goto
<1> DEFINE u == Made(fs.usr, d, "link")
<1>5. d \in Paths
  BY NamedPaths
<1>6. /\ Good(u) /\ Keeps(fs.usr, u)
      /\ \A q \in Paths : u[q] # fs.usr[q] => q = d /\ fs.usr[q] = "absent"
  <2>1. "link" \in Nodes
    BY DEF Nodes
  <2> QED
    BY <1>1, <1>5, <2>1, MadeTree
<1>7. fs' = [fs EXCEPT !.usr = u]
  BY <1>4
<1> HIDE DEF u
<1>8. \A p \in dirty' : p \in LinkerPaths /\ u[p] = "new"
  <2>1. \A p \in dirty : p \in Paths /\ fs.usr[p] # "absent"
    BY <1>3, NamedPaths
  <2> QED
    BY <1>2, <1>3, <1>6, <2>1
<1>9. pc' \in Late /\ pc' # "write"
  BY <1>4 DEF Late
<1>10. Safe' /\ fs'.usr = u /\ fs'.old = fs.old /\ fs'.lib = fs.lib /\ fs'.lib64 = fs.lib64
  BY <1>1, <1>2, <1>3, <1>6, <1>7, <1>8, <1>9, SafeLate
<1> QED
  BY <1>2, <1>4, <1>6, <1>10

\* The verification only reads.
LEMMA SafeVerify == ASSUME Safe, Verify PROVE Safe'
<1>1. /\ disk' = disk /\ orig' = orig /\ crashes' = crashes /\ tries' = tries
      /\ src' = src /\ cwd' = cwd /\ todo' = todo /\ faults' = faults
      /\ dirty' = dirty /\ k' = k /\ fs' = fs
      /\ verdict' \in {"none", "success", "warning"} /\ pc' \in Late \ {"write"}
  BY DEF Verify, Frame, Goto, Late
<1>2. k \in 1..3 /\ faults \in 0..MaxFaults
  BY SafeFacts DEF TypeOK
<1> QED
  BY <1>1, <1>2, SafeIdle

\* sync and umount: the disk is the file system.
LEMMA SafeSync == ASSUME Safe, SyncUnmount PROVE Safe'
<1>1. /\ disk' = fs /\ fs' = fs /\ orig' = orig /\ dirty' = {} /\ pc' = "done"
      /\ crashes' = crashes /\ tries' = tries
      /\ src' = src /\ cwd' = cwd /\ todo' = todo /\ faults' = faults /\ k' = k
      /\ verdict' = verdict
  BY DEF SyncUnmount, Goto
<1>2. TypeOK /\ Sane(fs) /\ Sane(orig) /\ Kept(orig, fs)
  BY SafeFacts
<1>3. TypeOK'
  BY <1>1, <1>2 DEF TypeOK, PCs
<1>4. Walk' /\ Writes'
  BY <1>1 DEF Walk, Writes
<1>5. Sane(fs)' /\ Sane(disk)' /\ Sane(orig)' /\ Kept(orig, fs)' /\ Kept(orig, disk)'
  BY <1>1, <1>2
<1> QED
  BY <1>3, <1>4, <1>5 DEF Safe

\* What a power cut leaves of the file system: new linkers may be torn.
Torn(f, lost) == [f EXCEPT !.usr = [p \in Paths |-> IF p \in lost THEN "torn" ELSE f.usr[p]]]

\* Tearing new linkers changes nothing else.
LEMMA TornIs ==
  ASSUME NEW f, Sane(f), NEW lost \in SUBSET LinkerPaths, \A p \in lost : f.usr[p] = "new"
  PROVE  /\ Sane(Torn(f, lost)) /\ \A o : Kept(o, f) => Kept(o, Torn(f, lost))
         /\ Torn(f, lost).old = f.old /\ Torn(f, lost).lib = f.lib
         /\ Torn(f, lost).lib64 = f.lib64
         /\ \A q \in Paths : q \notin LinkerPaths => Torn(f, lost).usr[q] = f.usr[q]
         /\ \A q \in Paths : q \in LinkerPaths =>
              Torn(f, lost).usr[q] = f.usr[q] \/ (f.usr[q] = "new" /\ Torn(f, lost).usr[q] = "torn")
<1> DEFINE u == [p \in Paths |-> IF p \in lost THEN "torn" ELSE f.usr[p]]
           g == Torn(f, lost)
<1>1. lost \subseteq Paths /\ "torn" \in Files /\ "new" \in Files /\ Good(f.usr)
  BY NamedPaths, SaneParts DEF Files
<1>2. Good(u) /\ Keeps(f.usr, u)
  BY <1>1, RewrittenTree
<1>3. \A q \in Paths : u[q] = IF q \in lost THEN "torn" ELSE f.usr[q]
  OBVIOUS
<1>4. g = [f EXCEPT !.usr = u]
  BY DEF Torn
<1> HIDE DEF u, g
<1>5. Sane(g) /\ g.usr = u /\ g.old = f.old /\ g.lib = f.lib /\ g.lib64 = f.lib64
  BY <1>2, <1>4, ReplacedUsr
<1>6. ASSUME NEW o, Kept(o, f) PROVE Kept(o, g)
  BY <1>2, <1>5, <1>6, KeepsSelf, KeptOn
<1>7. /\ \A q \in Paths : q \notin LinkerPaths => g.usr[q] = f.usr[q]
      /\ \A q \in Paths : q \in LinkerPaths =>
              g.usr[q] = f.usr[q] \/ (f.usr[q] = "new" /\ g.usr[q] = "torn")
  BY <1>3, <1>5
<1> QED
  BY <1>5, <1>6, <1>7 DEF g

\* What the kernel may write to the disk before sync: the file system, but
\* for new linkers.
LEMMA Committed ==
  ASSUME Safe, Commit
  PROVE  \E lost \in SUBSET LinkerPaths :
           /\ \A p \in lost : fs.usr[p] = "new"
           /\ disk' = Torn(fs, lost)
<1>1. PICK lost \in SUBSET dirty : disk' = Torn(fs, lost)
  BY DEF Commit, Torn
<1>2. \A p \in dirty : p \in LinkerPaths /\ fs.usr[p] = "new"
  BY SafeFacts DEF Writes
<1> QED
  BY <1>1, <1>2

\* The kernel writes back what it holds.
LEMMA SafeCommit == ASSUME Safe, Commit PROVE Safe'
<1>1. /\ fs' = fs /\ orig' = orig /\ dirty' = dirty /\ pc' = pc /\ pc # "done"
      /\ crashes' = crashes /\ tries' = tries
      /\ src' = src /\ cwd' = cwd /\ todo' = todo /\ faults' = faults /\ k' = k
      /\ verdict' = verdict
  BY DEF Commit
<1>2. TypeOK /\ Sane(fs) /\ Sane(orig) /\ Kept(orig, fs) /\ Walk /\ Writes
  BY SafeFacts
<1>3. Sane(disk') /\ Kept(orig, disk')
  BY <1>2, Committed, TornIs
<1>4. disk' \in FileSystems
  BY <1>3 DEF Sane
<1>5. TypeOK'
  BY <1>1, <1>2, <1>4 DEF TypeOK
<1>6. Walk' /\ Writes'
  BY <1>1, <1>2 DEF Walk, Writes
<1>7. Sane(fs)' /\ Sane(disk)' /\ Sane(orig)' /\ Kept(orig, fs)' /\ Kept(orig, disk)'
  BY <1>1, <1>2, <1>3
<1> QED
  BY <1>5, <1>6, <1>7 DEF Safe

\* A power cut: the program starts again on the disk.
LEMMA SafeCrash == ASSUME Safe, Crash PROVE Safe'
<1>1. /\ fs' = disk /\ disk' = disk /\ orig' = orig /\ dirty' = {} /\ pc' = "mount"
      /\ crashes < MaxCrashes /\ crashes' = crashes + 1 /\ tries' = 1
      /\ src' = "old" /\ cwd' = <<>> /\ todo' = {} /\ faults' = faults /\ k' = 1
      /\ verdict' = "none"
  BY DEF Crash, Goto
<1>2. TypeOK /\ Sane(disk) /\ Sane(orig) /\ Kept(orig, disk)
  BY SafeFacts
<1>3. TypeOK'
  <2>1. crashes' \in 0..MaxCrashes
    BY <1>1, <1>2, BoundsAssumption DEF TypeOK
  <2>2. tries' \in 1..MountTries /\ k' \in 1..3
    BY <1>1 DEF MountTries
  <2>3. pc' \in PCs /\ cwd' \in Paths
    BY <1>1, PathFacts DEF PCs
  <2> QED
    BY <1>1, <1>2, <2>1, <2>2, <2>3 DEF TypeOK
<1>4. Walk' /\ Writes'
  BY <1>1 DEF Walk, Writes
<1>5. Sane(fs)' /\ Sane(disk)' /\ Sane(orig)' /\ Kept(orig, fs)' /\ Kept(orig, disk)'
  BY <1>1, <1>2
<1> QED
  BY <1>3, <1>4, <1>5 DEF Safe

\* Safe depends on the variables only.
LEMMA SafeStutter == ASSUME Safe, UNCHANGED vars PROVE Safe'
<1>1. TypeOK /\ Walk /\ Writes
  BY SafeFacts
<1>2. TypeOK'
  BY <1>1 DEF vars, TypeOK
<1>3. Walk' /\ Writes'
  BY <1>1 DEF vars, Walk, Writes
<1>4. Sane(fs)' /\ Sane(disk)' /\ Sane(orig)' /\ Kept(orig, fs)' /\ Kept(orig, disk)'
  BY SafeFacts DEF vars
<1> QED
  BY <1>2, <1>3, <1>4 DEF Safe

\* Safe is inductive, whatever fails and whenever the power is cut.
LEMMA SafeStep == Safe /\ [Next]_vars => Safe'
BY SafeMount, SafeMkdirs, SafeEnter, SafeMergeEntry, SafeMergeReturn,
   SafeRmdirSrc,
   SafeRelinkLib, SafeRelinkLib64, SafeCopyUnlink, SafeCopyCreate, SafeCopyWrite,
   SafeCompat, SafeVerify, SafeSync, SafeCommit, SafeCrash, SafeStutter
   DEF Next, Program

\* Safe is an invariant.
LEMMA SafeAlways == Spec => []Safe
BY SafeInit, SafeStep, PTL DEF Spec

\* The rescue program's file systems, its position in merge_dir and copy_file
\* and its counters have their types, whatever it finds.
THEOREM TypeCorrect == Spec => []TypeOK
<1>1. Safe => TypeOK
  BY DEF Safe
<1> QED
  BY <1>1, SafeAlways, PTL

\* No file of any of the three trees is ever lost, whatever rename, mkdir or
\* write fails and wherever the power is cut, on the mounted file system and
\* on the disk: it is still there or a file stands in its place in /usr/lib.
THEOREM FilesKept == Spec => []NoFileLost
<1>1. Safe => NoFileLost
  BY DEF Safe, NoFileLost, Kept, Precious
<1> QED
  BY <1>1, SafeAlways, PTL

\* Once the banner tells the operator to unplug the power, doing so changes
\* nothing: what was mounted is what the disk holds.
THEOREM BannerIsSafe == Spec => RepairSurvives
<1>1. Safe /\ [Next]_vars => [pc = "done" => fs' = fs]_vars
  <2> SUFFICES ASSUME Safe, Next, pc = "done" PROVE fs' = fs
    BY DEF vars
  <2>1. disk = fs
    BY SafeFacts DEF Writes
  <2>2. ~Program
    BY DEF Program, Mount, Mkdirs, OpenOld, StatLib, MergeEntry, MergeReturn,
       RmdirSrc,
       RelinkLib, RelinkLib64, CopyUnlink, CopyCreate, CopyWrite, Compat, Verify, SyncUnmount
  <2>3. CASE Commit
    BY <2>3 DEF Commit
  <2>4. CASE Crash
    BY <2>1, <2>4 DEF Crash
  <2> QED
    BY <2>2, <2>3, <2>4 DEF Next
<1> QED
  BY <1>1, SafeAlways, PTL DEF Spec, RepairSurvives

-----------------------------------------------------------------------------
(* The merge: what a call may do to a file system and leave it sound.      *)

\* What agrees at a path agrees on the way to it.
LEMMA NoClashAbove ==
  ASSUME NEW o, NEW p \in Paths, NEW q \in Paths, IsPrefix(q, p), ~Clash(o, p)
  PROVE  ~Clash(o, q)
BY PrefixOrder DEF Clash

\* Only /usr/lib is prepared.
LEMMA FoundSource ==
  ASSUME NEW o, NEW t \in Sources, NEW p
  PROVE  Found(o, t, p) = o[t][p]
BY DEF Found, Sources

\* A tree with anything in it is merged.
LEMMA SourceMerged ==
  ASSUME NEW o, Sane(o), NEW t \in Sources, NEW p \in Paths,
         o[t][p] # "absent", p # <<>> \/ o[t][p] = "dir"
  PROVE  o[t][<<>>] = "dir" /\ t \in Merged(o)
<1>1. o[t][<<>>] = "dir"
  <2>1. IsTree(o[t])
    BY DEF Sane, Trees, Sources
  <2>2. <<>> \in Paths /\ IsPrefix(<<>>, p)
    BY PathFacts, PrefixOrder
  <2> QED
    BY <2>1, <2>2 DEF IsTree, IsStrictPrefix
<1> QED
  BY <1>1 DEF Merged, IsDir, Sources

\* Two merged trees that do not clash at a path agree on its kind.
LEMMA SameKind ==
  ASSUME NEW o, Sane(o), NEW p \in Paths, ~Clash(o, p),
         NEW t \in Merged(o), NEW u \in Merged(o),
         Found(o, t, p) # "absent", Found(o, u, p) # "absent"
  PROVE  Found(o, t, p) = "dir" <=> Found(o, u, p) = "dir"
<1>1. IsPrefix(p, p)
  BY PrefixOrder
<1> QED
  BY <1>1 DEF Clash

\* /usr/lib always takes part in the overlay.
LEMMA UsrMerged == \A o : "usr" \in Merged(o)
BY DEF Merged

\* ... and so do two of the trees that are merged.
LEMMA SourcesAgree ==
  ASSUME NEW o, Sane(o), NEW p \in Below, ~Clash(o, p),
         NEW t \in Sources, o[t][p] # "absent"
  PROVE  /\ \A u \in Sources : o[u][p] # "absent" => (o[u][p] = "dir" <=> o[t][p] = "dir")
         /\ Held(o, p) # "absent" => (Held(o, p) = "dir" <=> o[t][p] = "dir")
<1>1. p \in Paths /\ p # <<>>
  BY DEF Below
<1>2. t \in Merged(o) /\ Found(o, t, p) = o[t][p]
  BY <1>1, SourceMerged, FoundSource
<1>3. ASSUME NEW u \in Sources, o[u][p] # "absent" PROVE o[u][p] = "dir" <=> o[t][p] = "dir"
  <2>1. u \in Merged(o) /\ Found(o, u, p) = o[u][p]
    BY <1>1, <1>3, SourceMerged, FoundSource
  <2> QED
    BY <1>1, <1>2, <1>3, <2>1, SameKind
<1>4. ASSUME Held(o, p) # "absent" PROVE Held(o, p) = "dir" <=> o[t][p] = "dir"
  BY <1>1, <1>2, <1>4, UsrMerged, SameKind DEF Held
<1> QED
  BY <1>3, <1>4

\* The file system that the first run found is sound.
LEMMA SoundAtFirst ==
  ASSUME NEW o, Sane(o)
  PROVE  Sound(o, o)
<1>1. Shrunk(o, o)
  BY DEF Shrunk, Held, Trees
<1>2. Alike(o, o)
  BY SourcesAgree DEF Alike
<1>3. InTurn(o, o)
  BY DEF InTurn
<1> QED
  BY <1>1, <1>2, <1>3 DEF Sound

\* Only the three trees matter, and /usr/lib as mkdirat would leave it.
LEMMA SoundSame ==
  ASSUME NEW o, NEW f, NEW g, Sound(o, f),
         \A p \in Paths : Held(g, p) = Held(f, p),
         \A p \in Paths : g.old[p] = f.old[p],
         \A p \in Paths : g.lib[p] = f.lib[p]
  PROVE  /\ Sound(o, g)
         /\ \A t \in Sources : Spent(o, f, t) => Spent(o, g, t)
<1>1. \A t \in Sources : \A p \in Paths : g[t][p] = f[t][p]
  BY DEF Sources
<1>2. <<>> \in Paths /\ Below \subseteq Paths
  BY PathFacts DEF Below
<1>3. Shrunk(o, f) /\ Alike(o, f) /\ InTurn(o, f)
  BY DEF Sound
<1>4. Shrunk(o, g)
  BY <1>1, <1>2, <1>3 DEF Shrunk
<1>5. \A p \in Paths : Merge(g, p) = Merge(f, p)
  BY DEF Merge
<1>6. Alike(o, g)
  BY <1>1, <1>2, <1>3, <1>5 DEF Alike
<1>7. ASSUME NEW t \in Sources, Spent(o, f, t) PROVE Spent(o, g, t)
  BY <1>1, <1>2, <1>7 DEF Spent
<1>8. InTurn(o, g)
  BY <1>2, <1>3, <1>7 DEF InTurn, Sources
<1> QED
  BY <1>4, <1>6, <1>7, <1>8 DEF Sound

\* The mkdirat calls make what was announced, and nothing more.
LEMMA MadeAllNodes ==
  ASSUME NEW t, Good(t), NEW p \in Paths
  PROVE  MadeAll(t)[p] =
           IF /\ p \in {<<>>, A64, Modules} /\ t[p] = "absent"
              /\ t[<<>>] \in {"absent", "dir"}
           THEN "dir" ELSE t[p]
<1> DEFINE a == Made(t, <<>>, "dir")
           b == Made(a, A64, "dir")
           c == Made(b, Modules, "dir")
<1>1. /\ <<>> \in Paths /\ A64 \in Paths /\ Modules \in Paths
      /\ A64 # <<>> /\ Modules # <<>> /\ A64 # Modules
      /\ Front(A64) = <<>> /\ Front(Modules) = <<>>
  BY PathFacts, NamedPaths
<1>2. t \in [Paths -> Nodes] /\ IsTree(t) /\ "dir" \in Nodes
  BY DEF Good, Nodes
<1>3. t[<<>>] # "dir" => t[A64] = "absent" /\ t[Modules] = "absent"
  BY <1>1, <1>2, NothingBelow, PrefixOrder
<1>4. a \in [Paths -> Nodes] /\ a[<<>>] = (IF t[<<>>] = "absent" THEN "dir" ELSE t[<<>>])
      /\ \A q \in Paths : q # <<>> => a[q] = t[q]
  BY <1>1, <1>2 DEF Made
<1> HIDE DEF a
<1>5. /\ b \in [Paths -> Nodes]
      /\ b[A64] = IF a[A64] = "absent" /\ a[<<>>] = "dir" THEN "dir" ELSE a[A64]
      /\ \A q \in Paths : q # A64 => b[q] = a[q]
  BY <1>1, <1>2, <1>4 DEF Made, IsDir
<1> HIDE DEF b
<1>6. /\ c[Modules] = IF b[Modules] = "absent" /\ b[<<>>] = "dir" THEN "dir" ELSE b[Modules]
      /\ \A q \in Paths : q # Modules => c[q] = b[q]
  BY <1>1, <1>2, <1>5 DEF Made, IsDir
<1>7. MadeAll(t) = c
  BY DEF MadeAll, a, b
<1> HIDE DEF c
<1>8. CASE p = <<>>
  BY <1>1, <1>4, <1>5, <1>6, <1>7, <1>8
<1>9. CASE p = A64
  BY <1>1, <1>3, <1>4, <1>5, <1>6, <1>7, <1>9
<1>10. CASE p = Modules
  BY <1>1, <1>3, <1>4, <1>5, <1>6, <1>7, <1>10
<1>11. CASE p \notin {<<>>, A64, Modules}
  BY <1>4, <1>5, <1>6, <1>7, <1>11
<1> QED
  BY <1>8, <1>9, <1>10, <1>11

\* After the mkdir calls /usr/lib holds what Held foresaw, which is the same
\* as before them.
LEMMA MkdirsPrepare ==
  ASSUME NEW f, Sane(f), NEW g, g.usr = MadeAll(f.usr)
  PROVE  Prepared(g) /\ \A p \in Paths : Held(g, p) = Held(f, p)
<1>1. Good(f.usr) /\ <<>> \in Paths
  BY SaneParts, PathFacts
<1>2. \A p \in Paths : g.usr[p] = Held(f, p)
  BY <1>1, MadeAllNodes DEF Held, Found
<1>3. ASSUME NEW p \in Paths PROVE Held(g, p) = g.usr[p]
  <2>1. SUFFICES ASSUME p \in {<<>>, A64, Modules}, g.usr[p] = "absent",
                        g.usr[<<>>] \in {"absent", "dir"}
                 PROVE  FALSE
    BY DEF Held, Found
  <2>2. f.usr[p] = "absent" /\ f.usr[<<>>] \notin {"absent", "dir"}
    BY <1>1, <1>2, <2>1 DEF Held, Found
  <2>3. g.usr[<<>>] = f.usr[<<>>]
    BY <1>1, <1>2, <2>2 DEF Held, Found
  <2> QED
    BY <2>1, <2>2, <2>3
<1> QED
  BY <1>2, <1>3 DEF Prepared

\* A prepared /usr/lib stays so as long as its directories do.
LEMMA PreparedOn ==
  ASSUME NEW f, NEW g, Prepared(f), g.usr[<<>>] = f.usr[<<>>],
         \A p \in {A64, Modules} : f.usr[p] # "absent" => g.usr[p] # "absent"
  PROVE  Prepared(g)
<1>1. <<>> \in Paths /\ A64 \in Paths /\ Modules \in Paths
  BY PathFacts, NamedPaths
<1>2. ASSUME NEW p \in Paths PROVE Held(g, p) = g.usr[p]
  <2>1. SUFFICES ASSUME p \in {<<>>, A64, Modules}, g.usr[p] = "absent",
                        g.usr[<<>>] \in {"absent", "dir"}
                 PROVE  FALSE
    BY DEF Held, Found
  <2>2. f.usr[p] = "absent"
    BY <2>1
  <2>3. Held(f, p) = "dir"
    BY <2>1, <2>2 DEF Held, Found
  <2> QED
    BY <2>2, <2>3 DEF Prepared
<1> QED
  BY <1>2 DEF Prepared

\* A merged tree stays merged as long as directories of /usr/lib do.
LEMMA SpentOn ==
  ASSUME NEW o, NEW f, NEW g, NEW t, Spent(o, f, t),
         \A q \in Below : ~Clash(o, q) => g[t][q] \in {"absent", f[t][q]},
         \A q \in Below : Held(f, q) = "dir" => Held(g, q) = "dir"
  PROVE  Spent(o, g, t)
BY DEF Spent

\* A rename in turn: /lib_old first, /lib once /lib_old has been merged.
LEMMA SoundMove ==
  ASSUME NEW o, Sane(o), NEW f, Sane(f), NEW s \in Sources, NEW p \in Paths, p # <<>>,
         NEW g, g.usr = MovedTo(f[s], f.usr, p), g[s] = MovedFrom(f[s], p),
         \A t \in Sources : t # s => g[t] = f[t],
         CanRename(f[s], f.usr, p), f[s][p] # "absent",
         Prepared(f), Sound(o, f), s = "lib" => Spent(o, f, "old")
  PROVE  /\ Sound(o, g) /\ Prepared(g)
         /\ \A t \in Sources : Spent(o, f, t) => Spent(o, g, t)
         /\ \A q \in Paths : Held(f, q) = "dir" => Held(g, q) = "dir"
<1>1. Good(f.usr) /\ Good(f[s])
  BY SaneParts DEF Trees, Sources
<1>2. <<>> \in Paths /\ ~IsPrefix(p, <<>>) /\ Below \subseteq Paths
  BY PathFacts, PrefixOrder DEF Below
<1>3. ASSUME NEW q \in Paths
      PROVE  /\ IsPrefix(p, q) => g.usr[q] = f[s][q] /\ g[s][q] = "absent"
             /\ ~IsPrefix(p, q) => g.usr[q] = f.usr[q] /\ g[s][q] = f[s][q]
             /\ IsPrefix(p, q) /\ f.usr[q] # "absent" =>
                  q = p /\ (f.usr[p] = "dir" <=> f[s][p] = "dir")
             /\ f.usr[q] = "dir" => g.usr[q] = "dir"
  BY <1>1, MovedNodes
<1>4. Shrunk(o, f) /\ Alike(o, f) /\ InTurn(o, f)
  BY DEF Sound
<1>5. Prepared(g)
  <2>1. \A q \in {A64, Modules} : q \in Paths
    BY NamedPaths
  <2>2. \A q \in {A64, Modules} : f.usr[q] # "absent" => g.usr[q] # "absent"
    BY <1>3, <2>1
  <2>3. g.usr[<<>>] = f.usr[<<>>]
    BY <1>2, <1>3
  <2> QED
    BY <2>2, <2>3, PreparedOn
<1>6. \A q \in Paths : Held(f, q) = f.usr[q] /\ Held(g, q) = g.usr[q]
  BY <1>5 DEF Prepared
<1>7. \A q \in Paths : Held(f, q) = "dir" => Held(g, q) = "dir"
  BY <1>3, <1>6
<1>8. ASSUME NEW t \in Sources, NEW q \in Paths
      PROVE  /\ g[t][q] \in {"absent", f[t][q]}
             /\ ~IsPrefix(p, q) => g[t][q] = f[t][q]
  <2>1. CASE t = s
    BY <1>3, <2>1
  <2>2. CASE t # s
    BY <2>2
  <2> QED
    BY <2>1, <2>2
<1>9. Shrunk(o, g)
  <2>1. Held(g, <<>>) = Held(o, <<>>)
    BY <1>2, <1>3, <1>4, <1>6 DEF Shrunk
  <2>2. ASSUME NEW t \in Sources
        PROVE  /\ g[t][<<>>] = "dir" => o[t][<<>>] = "dir"
               /\ \A q \in Below : g[t][q] \in {"absent", o[t][q]}
    BY <1>2, <1>4, <1>8 DEF Shrunk
  <2>3. ASSUME NEW q \in Paths, Held(g, q) = "dir"
        PROVE  \E t \in Trees : Found(o, t, q) = "dir"
    <3>1. CASE IsPrefix(p, q)
      <4>1. f[s][q] = "dir" /\ q \in Below
        BY <1>2, <1>3, <1>6, <2>3, <3>1 DEF Below
      <4>2. o[s][q] = "dir"
        <5>1. f[s][q] \in {"absent", o[s][q]}
          BY <1>4, <4>1 DEF Shrunk
        <5> QED
          BY <4>1, <5>1
      <4> QED
        BY <4>2, FoundSource DEF Trees, Sources
    <3>2. CASE ~IsPrefix(p, q)
      BY <1>3, <1>4, <1>6, <2>3, <3>2 DEF Shrunk
    <3> QED
      BY <3>1, <3>2
  <2> QED
    BY <2>1, <2>2, <2>3 DEF Shrunk
<1>10. ASSUME NEW q \in Below, ~Clash(o, q), NEW t \in Sources,
              g[t][q] # "absent", Held(g, q) # "absent"
       PROVE  Held(g, q) = "dir" <=> g[t][q] = "dir"
  <2>1. q \in Paths
    BY <1>2
  <2>2. CASE IsPrefix(p, q)
    <3>1. t # s
      BY <1>3, <1>10, <2>1, <2>2
    <3>2. g[t][q] = f[t][q] /\ Held(g, q) = f[s][q]
      BY <1>3, <1>6, <2>1, <2>2, <3>1
    <3>3. f[t][q] \in {"absent", o[t][q]} /\ f[s][q] \in {"absent", o[s][q]}
      BY <1>4 DEF Shrunk
    <3>4. o[t][q] = f[t][q] /\ o[s][q] = f[s][q] /\ o[t][q] # "absent" /\ o[s][q] # "absent"
      BY <1>10, <3>2, <3>3
    <3>5. o[s][q] = "dir" <=> o[t][q] = "dir"
      BY <1>10, <3>4, SourcesAgree
    <3> QED
      BY <3>2, <3>4, <3>5
  <2>3. CASE ~IsPrefix(p, q)
    <3>1. g[t][q] = f[t][q] /\ Held(g, q) = Held(f, q)
      BY <1>3, <1>6, <1>8, <2>1, <2>3
    <3> QED
      BY <1>4, <1>10, <3>1 DEF Alike
  <2> QED
    BY <2>2, <2>3
<1>11. ASSUME NEW q \in Below, ~Clash(o, q) PROVE Merge(g, q) = Merge(f, q)
  <2>1. q \in Paths
    BY <1>2
  <2>2. CASE ~IsPrefix(p, q)
    <3>1. g.lib[q] = f.lib[q] /\ g.old[q] = f.old[q] /\ Held(g, q) = Held(f, q)
      BY <1>3, <1>6, <1>8, <2>1, <2>2 DEF Sources
    <3> QED
      BY <3>1 DEF Merge
  <2>3. CASE IsPrefix(p, q)
    <3>1. Held(g, q) = f[s][q] /\ g[s][q] = "absent" /\ Held(f, q) = f.usr[q]
      BY <1>3, <1>6, <2>1, <2>3
    <3>2. f[s][q] = "absent" => f.usr[q] = "absent"
      BY <1>3, <2>1, <2>3
    <3>3. CASE s = "old"
      <4>1. g.lib[q] = f.lib[q] /\ g.old[q] = "absent" /\ Held(g, q) = f.old[q]
        BY <3>1, <3>3 DEF Sources
      <4> QED
        BY <3>1, <3>2, <3>3, <4>1 DEF Merge
    <3>4. CASE s = "lib"
      <4>1. g.old[q] = f.old[q] /\ g.lib[q] = "absent" /\ Held(g, q) = f.lib[q]
        BY <3>1, <3>4 DEF Sources
      <4>2. f.old[q] = "absent" \/ (f.old[q] = "dir" /\ f.usr[q] = "dir")
        BY <1>11, <3>1, <3>4 DEF Spent
      <4>3. CASE f.old[q] = "absent"
        BY <3>1, <3>2, <3>4, <4>1, <4>3 DEF Merge
      <4>4. CASE f.old[q] = "dir" /\ f.usr[q] = "dir"
        <5>1. f.lib[q] = "dir"
          BY <1>3, <2>1, <2>3, <3>4, <4>4
        <5> QED
          BY <4>1, <4>4, <5>1 DEF Merge
      <4> QED
        BY <4>2, <4>3, <4>4
    <3> QED
      BY <3>3, <3>4 DEF Sources
  <2> QED
    BY <2>2, <2>3
<1>12. Alike(o, g)
  BY <1>4, <1>10, <1>11 DEF Alike
<1>13. ASSUME NEW t \in Sources, Spent(o, f, t) PROVE Spent(o, g, t)
  BY <1>2, <1>7, <1>8, <1>13, SpentOn
<1>14. InTurn(o, g)
  <2>1. CASE Spent(o, f, "old")
    BY <1>13, <2>1 DEF InTurn, Sources
  <2>2. CASE ~Spent(o, f, "old")
    <3>1. s # "lib"
      BY <2>2
    <3>2. g.lib = f.lib
      BY <3>1 DEF Sources
    <3> QED
      BY <1>4, <2>2, <3>2 DEF InTurn
  <2> QED
    BY <2>1, <2>2
<1> QED
  BY <1>5, <1>7, <1>9, <1>12, <1>13, <1>14 DEF Sound

\* A directory of a source tree goes, where the trees clash or /usr/lib has
\* it too.
LEMMA SoundRemove ==
  ASSUME NEW o, Sane(o), NEW f, NEW s \in Sources, NEW c \in Below,
         NEW g, g.usr = f.usr,
         \A t \in Sources : t # s => g[t] = f[t],
         \A q \in Paths : q # c => g[s][q] = f[s][q],
         g[s][c] \in {"absent", f[s][c]},
         Clash(o, c) \/ (f[s][c] = "dir" /\ Held(f, c) = "dir"),
         Sound(o, f), s = "lib" => Spent(o, f, "old")
  PROVE  /\ Sound(o, g)
         /\ \A t \in Sources : Spent(o, f, t) => Spent(o, g, t)
         /\ \A q \in Paths : Held(g, q) = Held(f, q)
<1>1. \A q : Held(g, q) = Held(f, q)
  BY DEF Held, Found
<1>2. <<>> \in Paths /\ Below \subseteq Paths /\ c # <<>>
  BY PathFacts DEF Below
<1>3. Shrunk(o, f) /\ Alike(o, f) /\ InTurn(o, f)
  BY DEF Sound
<1>4. ASSUME NEW t \in Sources, NEW q \in Paths
      PROVE  g[t][q] \in {"absent", f[t][q]} /\ (q # c => g[t][q] = f[t][q])
  BY <1>2
<1>5. Shrunk(o, g)
  <2>1. ASSUME NEW t \in Sources
        PROVE  /\ g[t][<<>>] = "dir" => o[t][<<>>] = "dir"
               /\ \A q \in Below : g[t][q] \in {"absent", o[t][q]}
    BY <1>2, <1>3, <1>4 DEF Shrunk
  <2> QED
    BY <1>1, <1>3, <2>1 DEF Shrunk
<1>6. ASSUME NEW q \in Below, ~Clash(o, q) PROVE Merge(g, q) = Merge(f, q)
  <2>1. CASE q # c
    <3>1. g.lib[q] = f.lib[q] /\ g.old[q] = f.old[q]
      BY <1>2, <1>4, <2>1 DEF Sources
    <3> QED
      BY <1>1, <3>1 DEF Merge
  <2>2. CASE q = c
    <3>1. f[s][q] = "dir" /\ Held(f, q) = "dir" /\ Held(g, q) = "dir" /\ g[s][q] \in {"absent", "dir"}
      BY <1>1, <1>6, <2>2
    <3>2. CASE s = "old"
      <4>1. g.lib[q] = f.lib[q] /\ f.old[q] = "dir" /\ g.old[q] \in {"absent", "dir"}
        BY <3>1, <3>2 DEF Sources
      <4> QED
        BY <3>1, <4>1 DEF Merge
    <3>3. CASE s = "lib"
      <4>1. g.old[q] = f.old[q] /\ f.lib[q] = "dir" /\ g.lib[q] \in {"absent", "dir"}
        BY <3>1, <3>3 DEF Sources
      <4>2. f.old[q] \in {"absent", "dir"}
        BY <1>6, <3>3 DEF Spent
      <4> QED
        BY <3>1, <4>1, <4>2 DEF Merge
    <3> QED
      BY <3>2, <3>3 DEF Sources
  <2> QED
    BY <2>1, <2>2
<1>7. ASSUME NEW q \in Below, ~Clash(o, q), NEW t \in Sources,
             g[t][q] # "absent", Held(g, q) # "absent"
      PROVE  Held(g, q) = "dir" <=> g[t][q] = "dir"
  <2>1. g[t][q] = f[t][q] /\ Held(g, q) = Held(f, q)
    BY <1>1, <1>2, <1>4, <1>7
  <2> QED
    BY <1>3, <1>7, <2>1 DEF Alike
<1>8. Alike(o, g)
  BY <1>3, <1>6, <1>7 DEF Alike
<1>9. ASSUME NEW t \in Sources, Spent(o, f, t) PROVE Spent(o, g, t)
  BY <1>1, <1>2, <1>4, <1>9, SpentOn
<1>10. InTurn(o, g)
  <2>1. CASE Spent(o, f, "old")
    BY <1>9, <2>1 DEF InTurn, Sources
  <2>2. CASE ~Spent(o, f, "old")
    <3>1. s # "lib"
      BY <2>2
    <3>2. g.lib = f.lib
      BY <3>1 DEF Sources
    <3> QED
      BY <1>3, <2>2, <3>2 DEF InTurn
  <2> QED
    BY <2>1, <2>2
<1> QED
  BY <1>1, <1>5, <1>8, <1>9, <1>10 DEF Sound

\* The root of a source tree goes, or is no directory afterwards.
LEMMA SoundRoot ==
  ASSUME NEW o, NEW f, NEW s \in Sources, NEW g, g.usr = f.usr,
         \A t \in Sources : t # s => g[t] = f[t],
         \A q \in Paths : q # <<>> => g[s][q] = f[s][q],
         g[s][<<>>] = "dir" => f[s][<<>>] = "dir",
         Sound(o, f)
  PROVE  /\ Sound(o, g)
         /\ \A t \in Sources : Spent(o, f, t) => Spent(o, g, t)
         /\ \A q \in Paths : Held(g, q) = Held(f, q)
<1>1. \A q : Held(g, q) = Held(f, q)
  BY DEF Held, Found
<1>2. Shrunk(o, f) /\ Alike(o, f) /\ InTurn(o, f)
  BY DEF Sound
<1>3. ASSUME NEW t \in Sources, NEW q \in Below PROVE g[t][q] = f[t][q]
  BY DEF Below
<1>4. \A t \in Sources : g[t][<<>>] = "dir" => f[t][<<>>] = "dir"
  OBVIOUS
<1>5. Shrunk(o, g)
  <2>1. \A t \in Sources : /\ g[t][<<>>] = "dir" => o[t][<<>>] = "dir"
                           /\ \A p \in Below : g[t][p] \in {"absent", o[t][p]}
    BY <1>2, <1>3, <1>4 DEF Shrunk
  <2> QED
    BY <1>1, <1>2, <2>1 DEF Shrunk
<1>6. \A q \in Below : g.old[q] = f.old[q] /\ g.lib[q] = f.lib[q]
  BY <1>3 DEF Sources
<1>7. \A q \in Below : Merge(g, q) = Merge(f, q)
  BY <1>1, <1>6 DEF Merge
<1>8. Alike(o, g)
  BY <1>1, <1>2, <1>3, <1>7 DEF Alike
<1>9. ASSUME NEW t \in Sources, Spent(o, f, t) PROVE Spent(o, g, t)
  BY <1>1, <1>3, <1>9, SpentOn
<1>10. InTurn(o, g)
  BY <1>2, <1>6, <1>9 DEF InTurn, Sources
<1> QED
  BY <1>1, <1>5, <1>8, <1>9, <1>10 DEF Sound

\* Once both trees are merged the linkers may change as they will.
LEMMA SoundLinkers ==
  ASSUME NEW o, NEW f, NEW g, g.old = f.old, g.lib = f.lib,
         \A q \in Paths : g.usr[q] # f.usr[q] =>
           q \in LinkerPaths /\ f.usr[q] # "dir" /\ g.usr[q] # "dir",
         Prepared(f), Sound(o, f), Spent(o, f, "old"), Spent(o, f, "lib")
  PROVE  Sound(o, g) /\ Prepared(g) /\ Spent(o, g, "old") /\ Spent(o, g, "lib")
<1>1. <<>> \in Paths /\ Below \subseteq Paths
  BY PathFacts DEF Below
<1>2. /\ A64 \in Paths /\ A64 \notin LinkerPaths
      /\ Modules \in Paths /\ Modules \notin LinkerPaths
      /\ <<>> \notin LinkerPaths
  BY NamedPaths
<1>3. Prepared(g)
  BY <1>1, <1>2, PreparedOn
<1>4. \A q \in Paths : Held(f, q) = f.usr[q] /\ Held(g, q) = g.usr[q]
  BY <1>3 DEF Prepared
<1>5. \A q \in Paths : /\ Held(g, q) = "dir" <=> Held(f, q) = "dir"
                       /\ q \notin LinkerPaths => Held(g, q) = Held(f, q)
  BY <1>4
<1>6. Shrunk(o, f) /\ Alike(o, f)
  BY DEF Sound
<1>7. \A t \in Sources : g[t] = f[t] /\ Spent(o, f, t)
  BY DEF Sources
<1>8. Shrunk(o, g)
  BY <1>1, <1>2, <1>5, <1>6, <1>7 DEF Shrunk
<1>9. ASSUME NEW q \in Below, ~Clash(o, q), NEW t \in Sources,
             g[t][q] # "absent", Held(g, q) # "absent"
      PROVE  Held(g, q) = "dir" <=> g[t][q] = "dir"
  <2>1. f[t][q] = "dir" /\ Held(f, q) = "dir"
    BY <1>7, <1>9 DEF Spent
  <2> QED
    BY <1>1, <1>5, <1>7, <2>1
<1>10. \A q \in Below : q \notin LinkerPaths => Merge(g, q) = Merge(f, q)
  BY <1>1, <1>5 DEF Merge
<1>11. Alike(o, g)
  BY <1>6, <1>9, <1>10 DEF Alike
<1>12. Spent(o, g, "old") /\ Spent(o, g, "lib")
  BY <1>1, <1>5, SpentOn
<1>13. InTurn(o, g)
  BY <1>12 DEF InTurn
<1> QED
  BY <1>3, <1>8, <1>11, <1>12, <1>13 DEF Sound

\* An entry that cannot move, though no call failed, is a directory on both
\* sides or a disagreement that was there from the beginning.
LEMMA StaysOrClashes ==
  ASSUME NEW o, Sane(o), NEW f, Sane(f), NEW s \in Sources, NEW p \in Paths, p # <<>>,
         f[s][p] # "absent", ~CanRename(f[s], f.usr, p), Prepared(f), Sound(o, f)
  PROVE  /\ Offered(f, p) = {f.usr}
         /\ ~(f[s][p] = "dir" /\ f.usr[p] = "dir") => Clash(o, p)
<1>1. Shrunk(o, f) /\ Alike(o, f)
  BY DEF Sound
<1>2. <<>> \in Paths /\ p \in Below /\ IsPrefix(<<>>, p)
  BY PathFacts, PrefixOrder DEF Below
<1>3. Held(f, p) = f.usr[p] /\ Held(f, <<>>) = f.usr[<<>>]
  BY <1>2 DEF Prepared
<1>4. f.usr[<<>>] = "dir" => f.usr[p] # "absent"
  BY DEF CanRename, IsDir
<1>5. Offered(f, p) = {f.usr}
  <2>1. CASE f.usr[<<>>] = "dir"
    <3>1. Made(f.usr, p, "dir") = f.usr
      BY <1>4, <2>1 DEF Made
    <3> QED
      BY <3>1 DEF Offered
  <2>2. CASE f.usr[<<>>] # "dir"
    BY <2>2 DEF Offered, IsDir
  <2> QED
    BY <2>1, <2>2
<1>6. ASSUME ~(f[s][p] = "dir" /\ f.usr[p] = "dir") PROVE Clash(o, p)
  <2>1. CASE f.usr[<<>>] = "dir"
    <3>1. f.usr[p] # "absent" /\ ~(f.usr[p] = "dir" <=> f[s][p] = "dir")
      BY <1>4, <1>6, <2>1 DEF CanRename, IsDir
    <3> QED
      BY <1>1, <1>2, <1>3, <3>1 DEF Alike
  <2>2. CASE f.usr[<<>>] # "dir"
    <3>1. Held(f, <<>>) # "absent"
      BY DEF Held, Found
    <3>2. Found(o, "usr", <<>>) \notin {"dir", "absent"}
      BY <1>1, <1>3, <2>2, <3>1 DEF Shrunk, Held
    <3>3. f[s][<<>>] = "dir"
      BY SourceMerged
    <3>4. o[s][<<>>] = "dir"
      BY <1>1, <3>3 DEF Shrunk
    <3>5. s \in Merged(o) /\ Found(o, s, <<>>) = "dir"
      BY <1>2, <3>4, SourceMerged, FoundSource
    <3> QED
      BY <1>2, <3>2, <3>5, UsrMerged DEF Clash
  <2> QED
    BY <2>1, <2>2
<1> QED
  BY <1>5, <1>6

\* merge_dir misses nothing: it starts with every entry,
LEMMA CoversAtFirst ==
  ASSUME NEW o, NEW f, Sane(f), NEW s \in Sources
  PROVE  Covers(o, f, s, <<>>, Children(f[s], <<>>))
<1>1. SUFFICES ASSUME NEW q \in Below, f[s][q] # "absent"
               PROVE  Reach(q, Children(f[s], <<>>))
  BY DEF Covers
<1>2. q \in Paths /\ q # <<>> /\ <<>> \in Paths /\ IsPrefix(<<>>, q)
  BY PathFacts, PrefixOrder DEF Below
<1>3. PICK e \in Paths : e # <<>> /\ Front(e) = <<>> /\ IsPrefix(e, q)
  BY <1>2, EntryOnTheWay
<1>4. f[s][e] # "absent"
  <2>1. IsTree(f[s])
    BY SaneParts DEF Trees, Sources, Good
  <2>2. e # q => f[s][e] = "dir"
    BY <1>1, <1>2, <1>3, <2>1 DEF IsTree, IsStrictPrefix
  <2> QED
    BY <1>1, <2>2
<1>5. e \in Children(f[s], <<>>)
  BY <1>2, <1>3, <1>4, ChildrenAre
<1> QED
  BY <1>3, <1>5 DEF Reach

\* an entry that moves takes everything within it along,
LEMMA CoversMove ==
  ASSUME NEW o, NEW f, NEW g, NEW s, NEW c \in Paths, NEW r \in SUBSET Paths,
         Covers(o, f, s, c, r), NEW p \in r,
         \A q \in Paths : IsPrefix(p, q) => g[s][q] = "absent",
         \A q \in Paths : ~IsPrefix(p, q) => g[s][q] = f[s][q],
         \A q \in Paths : Held(f, q) = "dir" => Held(g, q) = "dir"
  PROVE  Covers(o, g, s, c, r \ {p})
<1>1. SUFFICES ASSUME NEW q \in Below, ~Clash(o, q), g[s][q] # "absent"
               PROVE  \/ Reach(q, r \ {p})
                      \/ /\ g[s][q] = "dir" /\ Held(g, q) = "dir"
                         /\ Agree(o) => IsPrefix(q, c)
  BY DEF Covers
<1>2. q \in Paths /\ ~IsPrefix(p, q) /\ g[s][q] = f[s][q]
  BY <1>1 DEF Below
<1>3. Reach(q, r) => Reach(q, r \ {p})
  BY <1>2 DEF Reach
<1>4. \/ Reach(q, r)
      \/ /\ f[s][q] = "dir" /\ Held(f, q) = "dir"
         /\ Agree(o) => IsPrefix(q, c)
  BY <1>1, <1>2 DEF Covers
<1> QED
  BY <1>2, <1>3, <1>4

\* a directory that is descended into is replaced by its entries,
LEMMA CoversDown ==
  ASSUME NEW o, NEW f, Sane(f), NEW g, NEW s \in Sources, NEW c \in Paths,
         NEW r \in SUBSET Paths, Covers(o, f, s, c, r), NEW p \in r, p # <<>>, Front(p) = c,
         g[s] = f[s], f[s][p] = "dir", Held(g, p) = "dir",
         \A q \in Paths : Held(f, q) = "dir" => Held(g, q) = "dir"
  PROVE  Covers(o, g, s, p, (r \ {p}) \cup Children(f[s], p))
<1> DEFINE rr == (r \ {p}) \cup Children(f[s], p)
<1>1. SUFFICES ASSUME NEW q \in Below, ~Clash(o, q), g[s][q] # "absent"
               PROVE  \/ Reach(q, rr)
                      \/ /\ g[s][q] = "dir" /\ Held(g, q) = "dir"
                         /\ Agree(o) => IsPrefix(q, p)
  BY DEF Covers
<1>2. q \in Paths /\ p \in Paths /\ IsPrefix(c, p) /\ IsPrefix(p, p) /\ f[s][q] # "absent"
  BY <1>1, FrontPath, PrefixOrder DEF Below
<1>3. \/ Reach(q, r)
      \/ /\ f[s][q] = "dir" /\ Held(f, q) = "dir"
         /\ Agree(o) => IsPrefix(q, c)
  BY <1>1, <1>2 DEF Covers
<1>4. CASE Reach(q, r)
  <2>1. PICK e \in r : IsPrefix(e, q)
    BY <1>4 DEF Reach
  <2>2. CASE e # p
    BY <2>1, <2>2 DEF Reach
  <2>3. CASE e = p /\ q = p
    BY <1>2, <2>3
  <2>4. CASE e = p /\ q # p
    <3>1. PICK d \in Paths : d # <<>> /\ Front(d) = p /\ IsPrefix(d, q)
      BY <1>2, <2>1, <2>4, EntryOnTheWay
    <3>2. f[s][d] # "absent"
      <4>1. IsTree(f[s])
        BY SaneParts DEF Trees, Sources, Good
      <4>2. d # q => f[s][d] = "dir"
        BY <1>2, <3>1, <4>1 DEF IsTree, IsStrictPrefix
      <4> QED
        BY <1>2, <4>2
    <3>3. d \in Children(f[s], p)
      BY <1>2, <3>1, <3>2, ChildrenAre
    <3> QED
      BY <3>1, <3>3 DEF Reach
  <2> QED
    BY <2>2, <2>3, <2>4
<1>5. CASE f[s][q] = "dir" /\ Held(f, q) = "dir" /\ (Agree(o) => IsPrefix(q, c))
  <2>1. Agree(o) => IsPrefix(q, p)
    BY <1>2, <1>5, PrefixOrder
  <2> QED
    BY <1>2, <1>5, <2>1
<1> QED
  BY <1>3, <1>4, <1>5

\* a disagreement is passed by with everything within it,
LEMMA CoversClash ==
  ASSUME NEW o, NEW f, NEW g, NEW s, NEW c \in Paths, NEW r \in SUBSET Paths,
         Covers(o, f, s, c, r), NEW p \in r, Clash(o, p),
         \A q \in Paths : q # p => g[s][q] = f[s][q],
         \A q \in Paths : Held(f, q) = "dir" => Held(g, q) = "dir"
  PROVE  Covers(o, g, s, c, r \ {p})
<1>1. SUFFICES ASSUME NEW q \in Below, ~Clash(o, q), g[s][q] # "absent"
               PROVE  \/ Reach(q, r \ {p})
                      \/ /\ g[s][q] = "dir" /\ Held(g, q) = "dir"
                         /\ Agree(o) => IsPrefix(q, c)
  BY DEF Covers
<1>2. q \in Paths
  BY DEF Below
<1>3. ~IsPrefix(p, q) /\ q # p
  BY <1>1, <1>2, NoClashAbove, PrefixOrder
<1>4. Reach(q, r) => Reach(q, r \ {p})
  BY <1>3 DEF Reach
<1>5. \/ Reach(q, r)
      \/ /\ f[s][q] = "dir" /\ Held(f, q) = "dir"
         /\ Agree(o) => IsPrefix(q, c)
  BY <1>1, <1>2, <1>3 DEF Covers
<1> QED
  BY <1>2, <1>3, <1>4, <1>5

\* a directory whose entries have been processed is empty by now, if the trees
\* agree, and removed,
LEMMA CoversUp ==
  ASSUME NEW o, NEW f, Sane(f), NEW g, NEW s \in Sources, NEW c \in Paths, c # <<>>,
         NEW r \in SUBSET Paths, Covers(o, f, s, c, r), OnItsWay(f, s, c, r),
         \A q \in r : q # <<>> => Front(q) # c,
         g[s] = Rmdired(f[s], c), Held(f, c) = "dir",
         \A q \in Paths : Held(f, q) = "dir" => Held(g, q) = "dir"
  PROVE  Covers(o, g, s, Front(c), r)
<1>1. SUFFICES ASSUME NEW q \in Below, ~Clash(o, q), g[s][q] # "absent"
               PROVE  \/ Reach(q, r)
                      \/ /\ g[s][q] = "dir" /\ Held(g, q) = "dir"
                         /\ Agree(o) => IsPrefix(q, Front(c))
  BY DEF Covers
<1>2. q \in Paths /\ f[s][c] = "dir"
  BY DEF Below, OnItsWay
<1>3. Good(f[s])
  BY SaneParts DEF Trees, Sources
<1>4. CASE q # c
  <2>1. g[s][q] = f[s][q]
    BY <1>2, <1>3, <1>4, RmdiredTree
  <2>2. \/ Reach(q, r)
        \/ /\ f[s][q] = "dir" /\ Held(f, q) = "dir"
           /\ Agree(o) => IsPrefix(q, c)
    BY <1>1, <2>1 DEF Covers
  <2>3. IsPrefix(q, c) => IsPrefix(q, Front(c))
    BY <1>2, <1>4, FrontPath
  <2> QED
    BY <1>2, <2>1, <2>2, <2>3
<1>5. CASE q = c
  <2>1. g[s][c] = "dir"
    BY <1>1, <1>2, <1>3, <1>5, RmdiredTree
  <2>2. ~Agree(o)
    <3>1. SUFFICES ASSUME Agree(o) PROVE FALSE
      OBVIOUS
    <3>2. ~IsEmpty(f[s], c)
      BY <1>2, <1>3, <2>1, RmdiredTree
    <3>3. PICK d \in Paths : d # <<>> /\ Front(d) = c /\ f[s][d] # "absent"
      BY <3>2, ChildrenAre DEF IsEmpty
    <3>4. ~IsPrefix(d, c) /\ d \in Below /\ ~Clash(o, d)
      BY <3>1, <3>3, FrontPath DEF Below, Agree
    <3>5. Reach(d, r)
      BY <3>1, <3>3, <3>4 DEF Covers
    <3>6. PICK e \in r : IsPrefix(e, d)
      BY <3>5 DEF Reach
    <3>7. e # <<>> /\ ~IsPrefix(e, c)
      BY DEF OnItsWay
    <3>8. e # d
      BY <3>3
    <3> QED
      BY <3>3, <3>6, <3>7, <3>8, FrontPath
  <2> QED
    BY <1>2, <1>5, <2>1, <2>2
<1> QED
  BY <1>4, <1>5

\* and at the end the tree is spent.
LEMMA CoversAtLast ==
  ASSUME NEW o, NEW f, NEW s, NEW r \in SUBSET Paths,
         Covers(o, f, s, <<>>, r), OnItsWay(f, s, <<>>, r),
         \A q \in r : q # <<>> => Front(q) # <<>>
  PROVE  Spent(o, f, s)
<1>1. SUFFICES ASSUME NEW q \in Below, ~Clash(o, q), f[s][q] # "absent"
               PROVE  f[s][q] = "dir" /\ Held(f, q) = "dir" /\ ~Agree(o)
  BY DEF Spent
<1>2. q \in Paths /\ q # <<>> /\ <<>> \in Paths
  BY PathFacts DEF Below
<1>3. ASSUME NEW e \in r PROVE FALSE
  <2>1. e \in Paths /\ e # <<>> /\ IsPrefix(Front(e), <<>>)
    BY DEF OnItsWay
  <2>2. Front(e) = <<>>
    BY <1>2, <2>1, FrontPath, PrefixOrder
  <2> QED
    BY <2>1, <2>2
<1>4. ~Reach(q, r)
  BY <1>3 DEF Reach
<1>5. ~IsPrefix(q, <<>>)
  BY <1>2, PrefixOrder
<1> QED
  BY <1>1, <1>4, <1>5 DEF Covers

\* A tree without a directory for a root has nothing to merge,
LEMMA NothingToMerge ==
  ASSUME NEW o, NEW f, Sane(f), NEW s \in Sources, f[s][<<>>] # "dir"
  PROVE  Spent(o, f, s)
<1>1. ASSUME NEW q \in Below PROVE f[s][q] = "absent"
  BY SourceMerged DEF Below
<1> QED
  BY <1>1 DEF Spent

\* and a spent one is empty if the trees agree.
LEMMA SpentIsEmpty ==
  ASSUME NEW o, NEW f, NEW s \in Sources, Spent(o, f, s), Agree(o)
  PROVE  IsEmpty(f[s], <<>>) /\ \A q \in Below : f[s][q] = "absent"
<1>1. \A q \in Below : f[s][q] = "absent"
  BY DEF Spent, Agree, Below
<1>2. Children(f[s], <<>>) = {}
  <2>1. <<>> \in Paths
    BY PathFacts
  <2>2. Children(f[s], <<>>) = {q \in Paths : q # <<>> /\ Front(q) = <<>> /\ f[s][q] # "absent"}
    BY <2>1, ChildrenAre
  <2> QED
    BY <1>1, <2>2 DEF Below
<1> QED
  BY <1>1, <1>2 DEF IsEmpty

-----------------------------------------------------------------------------
(* The inductive invariant.                                                *)

\* /lib64 ends up a symbolic link, unless it is a directory with something in
\* it: whatever fails elsewhere.
LEMMA Links64Step == Safe /\ Safe' /\ Links64 /\ [Next]_vars => Links64'
<1> SUFFICES ASSUME Safe, Safe', Links64, [Next]_vars PROVE Links64'
  OBVIOUS
<1>1. orig' = orig
  BY DEF Next, Program, Mount, Mkdirs, OpenOld, StatLib, MergeEntry,
     MergeReturn, RmdirSrc,
     RelinkLib, RelinkLib64, CopyUnlink, CopyCreate, CopyWrite, Compat, Verify, SyncUnmount,
     Commit, Crash, Frame, vars
<1>2. pc \in PCs /\ fs.lib64 \in {"absent", "link", "file", "empty", "full"}
  BY SafeFacts DEF TypeOK, FileSystems
<1>3. CASE RelinkLib64
  <2>1. disk' = disk
    BY <1>3 DEF RelinkLib64, Frame
  <2>2. \/ /\ pc = "unlink64" /\ pc' = "rmdir64"
           /\ fs'.lib64 = IF fs.lib64 \in {"link", "file"} THEN "absent" ELSE fs.lib64
        \/ /\ pc = "rmdir64" /\ pc' = "sym64"
           /\ fs'.lib64 = IF fs.lib64 = "empty" THEN "absent" ELSE fs.lib64
        \/ /\ pc = "sym64" /\ pc' = "unlink"
           /\ fs'.lib64 = IF fs.lib64 = "absent" THEN "link" ELSE fs.lib64
    BY <1>3, Lib64Relinked
  <2> QED
    BY <1>1, <1>2, <2>1, <2>2 DEF Links64, Linked64, Linked, LibDone, Before
<1>4. CASE Crash
  <2>1. fs' = disk /\ disk' = disk /\ pc' = "mount"
    BY <1>4 DEF Crash, Goto
  <2> QED
    BY <1>1, <2>1 DEF Links64, Linked64, Linked, LibDone, Before
<1>5. CASE Commit
  <2>1. fs' = fs /\ pc' = pc
    BY <1>5 DEF Commit
  <2>2. disk'.lib64 = fs.lib64
    BY <1>5, SafeFacts, Committed, TornIs
  <2> QED
    BY <1>1, <2>1, <2>2 DEF Links64, Linked64, Linked, LibDone
<1>6. CASE SyncUnmount
  <2>1. fs' = fs /\ pc = "sync" /\ pc' = "done" /\ disk' = fs
    BY <1>6 DEF SyncUnmount, Goto
  <2> QED
    BY <1>1, <2>1 DEF Links64, Linked64, Linked, LibDone, Before
<1>7. CASE UNCHANGED vars
  BY <1>7 DEF vars, Links64, Linked64, Linked, LibDone
<1>8. CASE \/ Mount \/ Mkdirs \/ OpenOld \/ StatLib \/ MergeEntry \/ MergeReturn \/ RmdirSrc
           \/ RelinkLib
  <2>1. disk' = disk
    BY <1>8 DEF Mount, Mkdirs, OpenOld, StatLib, MergeEntry, MergeReturn,
       RmdirSrc, RelinkLib, Frame
  <2>2. ~Linked64' /\ pc' \notin {"rmdir64", "sym64"}
    BY <1>8 DEF Mount, Mkdirs, OpenOld, StatLib, EnterMerge, MergeEntry,
       MergeReturn, RmdirSrc,
       RelinkLib, Goto, Linked64, Linked, LibDone, Before
  <2>3. fs'.lib64 = fs.lib64
    <3>1. CASE Mount \/ OpenOld \/ StatLib
      BY <3>1 DEF Mount, OpenOld, StatLib
    <3>2. CASE Mkdirs
      <4>1. fs' = [fs EXCEPT !.usr = MadeAll(fs.usr)]
        BY <3>2 DEF Mkdirs, MadeAll
      <4> QED
        BY <4>1, SafeFacts, SaneParts, MadeAllTree, ReplacedUsr
    <3>3. CASE MergeEntry
      BY <3>3, EntryStep, EntryMoved, EntryStayed
    <3>4. CASE MergeReturn
      <4>1. fs' = fs \/ fs' = WithSrc(fs, src, Rmdired(fs[src], cwd))
        BY <3>4 DEF MergeReturn, RemoveLeftover, WithSrc
      <4>2. cwd \in Paths
        BY SafeFacts DEF TypeOK
      <4> QED
        BY <4>1, <4>2, SafeFacts, SrcRemoved
    <3>5. CASE RmdirSrc
      <4>1. fs' = WithSrc(fs, src, Rmdired(fs[src], <<>>))
        BY <3>5 DEF RmdirSrc, WithSrc
      <4> QED
        BY <4>1, PathFacts, SafeFacts, SrcRemoved
    <3>6. CASE RelinkLib
      BY <3>6, LibRelinked
    <3> QED
      BY <1>8, <3>1, <3>2, <3>3, <3>4, <3>5, <3>6
  <2> QED
    BY <1>1, <2>1, <2>2, <2>3 DEF Links64
<1>9. CASE CopyUnlink \/ CopyCreate \/ CopyWrite \/ Compat \/ Verify
  <2>1. disk' = disk
    BY <1>9 DEF CopyUnlink, CopyCreate, CopyWrite, Compat, Verify, Frame
  <2>2. fs'.lib64 = fs.lib64
    <3>1. CASE Verify
      BY <3>1 DEF Verify
    <3> QED
      BY <1>9, <3>1, SafeCopyUnlink, SafeCopyCreate, SafeCopyWrite, SafeCompat
  <2>3. Linked64 /\ pc' \notin {"rmdir64", "sym64"}
    BY <1>9 DEF CopyUnlink, CopyCreate, CopyWrite, Compat, Verify, NextCopy,
       Goto,
       Linked64, Linked, LibDone, Before
  <2> QED
    BY <1>1, <2>1, <2>2, <2>3 DEF Links64
<1> QED
  BY <1>3, <1>4, <1>5, <1>6, <1>7, <1>8, <1>9 DEF Next, Program

\* The parts of Flawless.
LEMMA FlawlessParts ==
  ASSUME Flawless
  PROVE  Sound(orig, fs) /\ Sound(orig, disk) /\ Progress /\ Links /\ Installed
BY DEF Flawless

\* Steps before the symbolic links are made: what is left to show.
LEMMA FlawlessEarly ==
  ASSUME Flawless, disk' = disk, orig' = orig, k' = k, ~Linked64,
         pc' \in Before \cup {"openold", "statlib", "merge", "rmdirsrc", "unlinklib"},
         Sound(orig, fs'), Progress'
  PROVE  Flawless'
<1>1. ~Linked64' /\ ~Linked' /\ pc' \notin {"rmdirlib", "symlib", "unlink", "create", "write", "sync", "done"}
  BY DEF Linked64, Linked, LibDone, Before
<1>2. Links'
  BY <1>1 DEF Links
<1>3. Installed'
  <2>1. k' = 1
    BY FlawlessParts DEF Installed
  <2>2. ~Copied'
    BY <1>1 DEF Copied
  <2> QED
    BY <1>1, <2>1, <2>2 DEF Installed
<1>4. Sound(orig', fs') /\ Sound(orig', disk')
  BY FlawlessParts
<1> QED
  BY <1>2, <1>3, <1>4 DEF Flawless

\* Before the merge: mount and mkdir.
LEMMA FlawlessMount == ASSUME Safe, Flawless, Mount PROVE Flawless'
<1>1. /\ disk' = disk /\ orig' = orig /\ k' = k /\ fs' = fs /\ pc = "mount"
      /\ pc' \in Before
  BY DEF Mount, Frame, Goto, Before
<1>2. ~Linked64
  BY <1>1 DEF Linked64, Linked, LibDone, Before
<1>3. Progress'
  BY <1>1 DEF Progress, OldDone, LibDone, Before
<1> QED
  BY <1>1, <1>2, <1>3, FlawlessParts, FlawlessEarly

\* The mkdir calls make true what Held foresaw.
LEMMA FlawlessMkdirs == ASSUME Safe, Flawless, Mkdirs PROVE Flawless'
<1>1. /\ disk' = disk /\ orig' = orig /\ k' = k /\ pc = "mkdirs" /\ pc' = "openold"
      /\ fs' = [fs EXCEPT !.usr = MadeAll(fs.usr)]
  BY DEF Mkdirs, Frame, Goto, MadeAll
<1>2. Sane(fs) /\ Good(MadeAll(fs.usr))
  BY SafeFacts, SaneParts, MadeAllTree
<1>3. fs'.usr = MadeAll(fs.usr) /\ fs'.old = fs.old /\ fs'.lib = fs.lib
  BY <1>1, <1>2, ReplacedUsr
<1>4. Prepared(fs') /\ \A p \in Paths : Held(fs', p) = Held(fs, p)
  BY <1>2, <1>3, MkdirsPrepare
<1>5. Sound(orig, fs')
  BY <1>3, <1>4, FlawlessParts, SoundSame
<1>6. Progress'
  BY <1>1, <1>4 DEF Progress, OldDone, LibDone, Before
<1>7. ~Linked64
  BY <1>1 DEF Linked64, Linked, LibDone, Before
<1> QED
  BY <1>1, <1>5, <1>6, <1>7, FlawlessEarly

\* /lib_old is opened, or is no directory and so already spent.
LEMMA FlawlessOpenOld == ASSUME Safe, Flawless, OpenOld PROVE Flawless'
<1>1. /\ disk' = disk /\ orig' = orig /\ k' = k /\ fs' = fs /\ pc = "openold"
      /\ pc' \in {"merge", "statlib"}
  BY DEF OpenOld, EnterMerge, Frame, Goto
<1>2. ~Linked64 /\ Sane(fs) /\ Prepared(fs)
  BY <1>1, SafeFacts, FlawlessParts DEF Linked64, Linked, LibDone, Before,
     Progress
<1>3. "old" \in Sources
  BY DEF Sources
<1>4. Progress'
  <2>1. CASE fs.old[<<>>] = "dir"
    <3>1. src' = "old" /\ cwd' = <<>> /\ todo' = Children(fs["old"], <<>>) /\ pc' = "merge"
      BY <2>1 DEF OpenOld, EnterMerge, IsDir, Goto
    <3>2. Covers(orig, fs, "old", <<>>, Children(fs["old"], <<>>))
      BY <1>2, <1>3, CoversAtFirst
    <3>3. ~OldDone' /\ ~LibDone'
      BY <3>1 DEF OldDone, LibDone
    <3> QED
      BY <1>1, <1>2, <3>1, <3>2, <3>3 DEF Progress
  <2>2. CASE fs.old[<<>>] # "dir"
    <3>1. pc' = "statlib"
      BY <2>2 DEF OpenOld, IsDir, Goto
    <3>2. Spent(orig, fs, "old")
      BY <1>2, <1>3, <2>2, NothingToMerge
    <3>3. ~LibDone'
      BY <3>1 DEF LibDone
    <3> QED
      BY <1>1, <1>2, <2>2, <3>1, <3>2, <3>3 DEF Progress
  <2> QED
    BY <2>1, <2>2
<1> QED
  BY <1>1, <1>2, <1>4, FlawlessParts, FlawlessEarly

\* The same for /lib, once /lib_old is spent.
LEMMA FlawlessStatLib == ASSUME Safe, Flawless, StatLib PROVE Flawless'
<1>1. /\ disk' = disk /\ orig' = orig /\ k' = k /\ fs' = fs /\ pc = "statlib"
      /\ pc' \in {"merge", "unlinklib"}
  BY DEF StatLib, EnterMerge, Frame, Goto
<1>2. ~Linked64 /\ Sane(fs) /\ Prepared(fs)
  BY <1>1, SafeFacts, FlawlessParts DEF Linked64, Linked, LibDone, Before,
     Progress
<1>3. "lib" \in Sources
  BY DEF Sources
<1>4. Spent(orig, fs, "old") /\ (Agree(orig) => fs.old[<<>>] # "dir")
  <2>1. OldDone
    BY <1>1 DEF OldDone, Before
  <2> QED
    BY <2>1, FlawlessParts DEF Progress
<1>5. Progress'
  <2>1. CASE fs.lib[<<>>] = "dir"
    <3>1. src' = "lib" /\ cwd' = <<>> /\ todo' = Children(fs["lib"], <<>>) /\ pc' = "merge"
      BY <2>1 DEF StatLib, EnterMerge, IsDir, Goto
    <3>2. Covers(orig, fs, "lib", <<>>, Children(fs["lib"], <<>>))
      BY <1>2, <1>3, CoversAtFirst
    <3>3. ~LibDone'
      BY <3>1 DEF LibDone
    <3> QED
      BY <1>1, <1>2, <1>4, <3>1, <3>2, <3>3 DEF Progress
  <2>2. CASE fs.lib[<<>>] # "dir"
    <3>1. pc' = "unlinklib"
      BY <2>2 DEF StatLib, IsDir, Goto
    <3>2. Spent(orig, fs, "lib")
      BY <1>2, <1>3, <2>2, NothingToMerge
    <3> QED
      BY <1>1, <1>2, <1>4, <2>2, <3>1, <3>2 DEF Progress
  <2> QED
    BY <2>1, <2>2
<1> QED
  BY <1>1, <1>2, <1>5, FlawlessParts, FlawlessEarly

\* merge_dir merges /lib only once /lib_old has been.
LEMMA OldBeforeLib ==
  ASSUME Flawless, pc \in {"merge", "rmdirsrc"}
  PROVE  /\ ~Linked64 /\ Prepared(fs)
         /\ src = "lib" => Spent(orig, fs, "old") /\ (Agree(orig) => fs.old[<<>>] # "dir")
<1>1. ~Linked64 /\ (src = "lib" => OldDone) /\ pc \notin Before
  BY DEF Linked64, Linked, LibDone, OldDone, Before
<1> QED
  BY <1>1, FlawlessParts DEF Progress

\* One entry of merge_dir's loop, when no call fails.
LEMMA FlawlessMergeEntry ==
  ASSUME Safe, Flawless, MergeEntry, faults' = faults
  PROVE  Flawless'
<1>1. disk' = disk /\ orig' = orig /\ k' = k /\ src' = src /\ pc' = "merge" /\ pc = "merge"
  BY DEF MergeEntry, Frame
<1>2. /\ Sane(fs) /\ Sane(orig) /\ src \in Sources /\ cwd \in Paths /\ todo \in SUBSET Paths
      /\ faults \in Nat
  BY SafeFacts, BoundsAssumption DEF TypeOK
<1>3. Sound(orig, fs) /\ Covers(orig, fs, src, cwd, todo)
  BY <1>1, FlawlessParts DEF Progress
<1>4. /\ ~Linked64 /\ Prepared(fs)
      /\ src = "lib" => Spent(orig, fs, "old") /\ (Agree(orig) => fs.old[<<>>] # "dir")
  BY <1>1, OldBeforeLib
<1>5. PICK p \in todo : Front(p) = cwd /\ (MoveEntry(p) \/ MergeSubdir(p))
  BY EntryStep
<1>6. /\ Sound(orig, fs') /\ Prepared(fs')
      /\ \A t \in Sources : Spent(orig, fs, t) => Spent(orig, fs', t)
      /\ \A t \in Sources : t # src => fs'[t] = fs[t]
      /\ Covers(orig, fs', src, cwd', todo')
  <2>1. CASE MoveEntry(p)
    <3>1. /\ p \in Paths /\ p # <<>> /\ fs[src][p] # "absent"
          /\ fs'.usr = MovedTo(fs[src], fs.usr, p) /\ fs'[src] = MovedFrom(fs[src], p)
          /\ \A t \in Sources : t # src => fs'[t] = fs[t]
      BY <1>1, <1>5, <2>1, EntryMoved
    <3>2. CanRename(fs[src], fs.usr, p) /\ cwd' = cwd /\ todo' = todo \ {p}
      BY <2>1 DEF MoveEntry
    <3>3. /\ Sound(orig, fs') /\ Prepared(fs')
          /\ \A t \in Sources : Spent(orig, fs, t) => Spent(orig, fs', t)
          /\ \A q \in Paths : Held(fs, q) = "dir" => Held(fs', q) = "dir"
      BY <1>2, <1>3, <1>4, <3>1, <3>2, SoundMove
    <3>4. /\ \A q \in Paths : IsPrefix(p, q) => fs'[src][q] = "absent"
          /\ \A q \in Paths : ~IsPrefix(p, q) => fs'[src][q] = fs[src][q]
      BY <3>1 DEF MovedFrom, Within
    <3>5. Covers(orig, fs', src, cwd, todo \ {p})
      BY <1>2, <1>3, <1>5, <3>3, <3>4, CoversMove
    <3> QED
      BY <3>1, <3>2, <3>3, <3>5
  <2>2. CASE MergeSubdir(p)
    <3>1. /\ p \in Paths /\ p # <<>> /\ fs[src][p] # "absent"
          /\ \A t \in Sources : t # src => fs'[t] = fs[t]
          /\ fs'.usr \in Offered(fs, p)
          /\ \/ ~CanRename(fs[src], fs.usr, p) /\ faults' = faults
             \/ faults < MaxFaults /\ faults' = faults + 1
          /\ \/ /\ fs'[src] = fs[src] /\ fs[src][p] = "dir" /\ fs'.usr[p] = "dir"
                /\ cwd' = p /\ todo' = (todo \ {p}) \cup Children(fs[src], p)
             \/ /\ fs'[src] = Rmdired(fs[src], p) /\ ~(fs[src][p] = "dir" /\ fs'.usr[p] = "dir")
                /\ cwd' = cwd /\ todo' = todo \ {p}
      BY <1>1, <1>5, <2>2, EntryStayed
    <3>2. ~CanRename(fs[src], fs.usr, p)
      BY <1>2, <3>1
    <3>3. /\ Offered(fs, p) = {fs.usr}
          /\ ~(fs[src][p] = "dir" /\ fs.usr[p] = "dir") => Clash(orig, p)
      BY <1>2, <1>3, <1>4, <3>1, <3>2, StaysOrClashes
    <3>4. fs'.usr = fs.usr
      BY <3>1, <3>3
    <3>5. \A q : Held(fs', q) = Held(fs, q)
      BY <3>4 DEF Held, Found
    <3>6. Prepared(fs')
      BY <1>4, <3>4, <3>5 DEF Prepared
    <3>7. CASE /\ fs'[src] = fs[src] /\ fs[src][p] = "dir" /\ fs'.usr[p] = "dir"
               /\ cwd' = p /\ todo' = (todo \ {p}) \cup Children(fs[src], p)
      <4>1. fs'.old = fs.old /\ fs'.lib = fs.lib
        BY <1>2, <3>1, <3>7 DEF Sources
      <4>2. Sound(orig, fs') /\ \A t \in Sources : Spent(orig, fs, t) => Spent(orig, fs', t)
        BY <1>3, <3>5, <4>1, SoundSame
      <4>3. Held(fs', p) = "dir"
        BY <3>1, <3>6, <3>7 DEF Prepared
      <4>4. Covers(orig, fs', src, p, (todo \ {p}) \cup Children(fs[src], p))
        BY <1>2, <1>3, <1>5, <3>1, <3>5, <3>7, <4>3, CoversDown
      <4> QED
        BY <3>1, <3>6, <3>7, <4>2, <4>4
    <3>8. CASE /\ fs'[src] = Rmdired(fs[src], p) /\ ~(fs[src][p] = "dir" /\ fs'.usr[p] = "dir")
               /\ cwd' = cwd /\ todo' = todo \ {p}
      <4>1. Clash(orig, p) /\ p \in Below
        BY <3>1, <3>3, <3>4, <3>8 DEF Below
      <4>2. Good(fs[src])
        BY <1>2, SaneParts DEF Trees, Sources
      <4>3. /\ \A q \in Paths : q # p => fs'[src][q] = fs[src][q]
            /\ fs'[src][p] \in {"absent", fs[src][p]}
        BY <3>1, <3>8, <4>2, RmdiredTree
      <4>4. Sound(orig, fs') /\ \A t \in Sources : Spent(orig, fs, t) => Spent(orig, fs', t)
        BY <1>2, <1>3, <1>4, <3>1, <3>4, <4>1, <4>3, SoundRemove
      <4>5. Covers(orig, fs', src, cwd, todo \ {p})
        BY <1>2, <1>3, <1>5, <3>5, <4>1, <4>3, CoversClash
      <4> QED
        BY <3>1, <3>6, <3>8, <4>4, <4>5
    <3> QED
      BY <3>1, <3>7, <3>8
  <2> QED
    BY <1>5, <2>1, <2>2
<1>7. Progress'
  <2>1. OldDone' => src = "lib"
    BY <1>1 DEF OldDone
  <2>2. OldDone' => Spent(orig, fs', "old") /\ (Agree(orig) => fs'.old[<<>>] # "dir")
    <3>1. SUFFICES ASSUME OldDone' PROVE Spent(orig, fs', "old") /\ (Agree(orig) => fs'.old[<<>>] # "dir")
      OBVIOUS
    <3>2. fs'.old = fs.old
      BY <1>6, <2>1, <3>1 DEF Sources
    <3> QED
      BY <1>4, <1>6, <2>1, <3>1, <3>2 DEF Sources
  <2>3. ~LibDone'
    BY <1>1 DEF LibDone
  <2> QED
    BY <1>1, <1>6, <2>2, <2>3 DEF Progress
<1> QED
  BY <1>1, <1>4, <1>6, <1>7, FlawlessEarly

\* The end of a directory: empty if the trees agree, so that rmdir removes it.
LEMMA FlawlessMergeReturn == ASSUME Safe, Flawless, MergeReturn PROVE Flawless'
<1>1. /\ disk' = disk /\ orig' = orig /\ k' = k /\ src' = src /\ todo' = todo /\ pc = "merge"
      /\ Pending(cwd) = {}
  BY DEF MergeReturn, Frame
<1>2. /\ Sane(fs) /\ Sane(orig) /\ src \in Sources /\ cwd \in Paths /\ todo \in SUBSET Paths
      /\ OnItsWay(fs, src, cwd, todo)
  BY <1>1, SafeFacts DEF TypeOK, Walk
<1>3. Sound(orig, fs) /\ Covers(orig, fs, src, cwd, todo)
  BY <1>1, FlawlessParts DEF Progress
<1>4. /\ ~Linked64 /\ Prepared(fs)
      /\ src = "lib" => Spent(orig, fs, "old") /\ (Agree(orig) => fs.old[<<>>] # "dir")
  BY <1>1, OldBeforeLib
<1>5. \A q \in todo : q # <<>> => Front(q) # cwd
  BY <1>1, <1>2, PendingAre
<1>6. CASE cwd = <<>>
  <2>1. pc' = "rmdirsrc" /\ cwd' = cwd /\ fs' = fs
    BY <1>6 DEF MergeReturn, Goto
  <2>2. Spent(orig, fs, src)
    BY <1>2, <1>3, <1>5, <1>6, CoversAtLast
  <2>3. (OldDone' => src = "lib") /\ ~LibDone'
    BY <1>1, <2>1 DEF OldDone, LibDone
  <2>4. Progress'
    BY <1>1, <1>4, <2>1, <2>2, <2>3 DEF Progress
  <2> QED
    BY <1>1, <1>3, <1>4, <2>1, <2>4, FlawlessEarly
<1>7. CASE cwd # <<>>
  <2>1. pc' = pc /\ cwd' = Front(cwd) /\ fs' = WithSrc(fs, src, Rmdired(fs[src], cwd))
    BY <1>7 DEF MergeReturn, RemoveLeftover, WithSrc
  <2>2. /\ fs'.usr = fs.usr /\ fs'[src] = Rmdired(fs[src], cwd)
        /\ \A t \in Sources : t # src => fs'[t] = fs[t]
        /\ \A q \in Paths : q # cwd => fs'[src][q] = fs[src][q]
    BY <1>2, <2>1, SrcRemoved
  <2>3. cwd \in Below /\ fs[src][cwd] = "dir" /\ Held(fs, cwd) = "dir"
    BY <1>2, <1>4, <1>7 DEF Below, OnItsWay, Prepared
  <2>4. fs'[src][cwd] \in {"absent", fs[src][cwd]}
    <3>1. Good(fs[src])
      BY <1>2, SaneParts DEF Trees, Sources
    <3> QED
      BY <1>2, <2>2, <3>1, RmdiredTree
  <2>5. /\ Sound(orig, fs')
        /\ \A t \in Sources : Spent(orig, fs, t) => Spent(orig, fs', t)
        /\ \A q \in Paths : Held(fs', q) = Held(fs, q)
    BY <1>2, <1>3, <1>4, <2>2, <2>3, <2>4, SoundRemove
  <2>6. Prepared(fs')
    BY <1>4, <2>2, <2>5 DEF Prepared
  <2>7. Covers(orig, fs', src, Front(cwd), todo)
    BY <1>2, <1>3, <1>5, <1>7, <2>2, <2>3, <2>5, CoversUp
  <2>8. (OldDone' => src = "lib") /\ ~LibDone'
    BY <1>1, <2>1 DEF OldDone, LibDone
  <2>9. src = "lib" => Spent(orig, fs', "old") /\ fs'.old = fs.old
    BY <1>4, <2>2, <2>5 DEF Sources
  <2>10. Progress'
    BY <1>1, <1>4, <2>1, <2>6, <2>7, <2>8, <2>9 DEF Progress
  <2> QED
    BY <1>1, <1>4, <2>1, <2>5, <2>10, FlawlessEarly
<1> QED
  BY <1>6, <1>7

\* The end of a merge: the tree is spent, and gone if the trees agree.
LEMMA FlawlessRmdirSrc == ASSUME Safe, Flawless, RmdirSrc PROVE Flawless'
<1>1. /\ disk' = disk /\ orig' = orig /\ k' = k /\ src' = src /\ pc = "rmdirsrc"
      /\ fs' = WithSrc(fs, src, Rmdired(fs[src], <<>>))
      /\ pc' = IF src = "old" THEN "statlib" ELSE "unlinklib"
  BY DEF RmdirSrc, Frame, WithSrc, Goto
<1>2. Sane(fs) /\ src \in Sources /\ <<>> \in Paths
  BY SafeFacts, PathFacts
<1>3. Sound(orig, fs) /\ Spent(orig, fs, src)
  BY <1>1, FlawlessParts DEF Progress
<1>4. /\ ~Linked64 /\ Prepared(fs)
      /\ src = "lib" => Spent(orig, fs, "old") /\ (Agree(orig) => fs.old[<<>>] # "dir")
  BY <1>1, OldBeforeLib
<1>5. /\ fs'.usr = fs.usr /\ fs'[src] = Rmdired(fs[src], <<>>)
      /\ \A t \in Sources : t # src => fs'[t] = fs[t]
      /\ \A q \in Paths : q # <<>> => fs'[src][q] = fs[src][q]
  BY <1>1, <1>2, SrcRemoved
<1>6. Good(fs[src])
  BY <1>2, SaneParts DEF Trees, Sources
<1>7. fs'[src][<<>>] = "dir" => fs[src][<<>>] = "dir"
  BY <1>2, <1>5, <1>6, RmdiredTree
<1>8. /\ Sound(orig, fs')
      /\ \A t \in Sources : Spent(orig, fs, t) => Spent(orig, fs', t)
      /\ \A q \in Paths : Held(fs', q) = Held(fs, q)
  BY <1>2, <1>3, <1>5, <1>7, SoundRoot
<1>9. Agree(orig) => fs'[src][<<>>] # "dir"
  BY <1>2, <1>3, <1>5, <1>6, SpentIsEmpty, RmdiredTree
<1>10. Prepared(fs')
  BY <1>4, <1>5, <1>8 DEF Prepared
<1>11. Progress'
  <2>1. CASE src = "old"
    <3>1. Spent(orig, fs', "old") /\ (Agree(orig) => fs'.old[<<>>] # "dir")
      BY <1>2, <1>3, <1>8, <1>9, <2>1
    <3>2. pc' = "statlib" /\ ~LibDone'
      BY <1>1, <2>1 DEF LibDone
    <3> QED
      BY <1>1, <1>10, <3>1, <3>2 DEF Progress
  <2>2. CASE src = "lib"
    <3>1. Spent(orig, fs', "lib") /\ (Agree(orig) => fs'.lib[<<>>] # "dir")
      BY <1>2, <1>3, <1>8, <1>9, <2>2
    <3>2. Spent(orig, fs', "old") /\ fs'.old = fs.old
      BY <1>4, <1>5, <1>8, <2>2 DEF Sources
    <3>3. pc' = "unlinklib"
      BY <1>1, <2>2
    <3> QED
      BY <1>1, <1>4, <1>10, <2>2, <3>1, <3>2, <3>3 DEF Progress
  <2> QED
    BY <1>2, <2>1, <2>2 DEF Sources
<1>12. pc' \in {"statlib", "unlinklib"}
  BY <1>1
<1> QED
  BY <1>1, <1>4, <1>8, <1>11, <1>12, FlawlessEarly

\* Everything that holds once both trees are merged.
LEMMA BothMerged ==
  ASSUME Flawless, LibDone
  PROVE  /\ Prepared(fs) /\ Spent(orig, fs, "old") /\ Spent(orig, fs, "lib")
         /\ Agree(orig) => fs.old[<<>>] # "dir" /\ fs.lib[<<>>] # "dir"
<1>1. OldDone /\ pc \notin Before
  BY DEF OldDone, LibDone, Before
<1> QED
  BY <1>1, FlawlessParts DEF Progress

\* ... is what there is to show of the steps after that.
LEMMA ProgressLate ==
  ASSUME Prepared(fs'), Spent(orig, fs', "old"), Spent(orig, fs', "lib"), orig' = orig,
         Agree(orig) => fs'.old[<<>>] # "dir" /\ fs'.lib[<<>>] # "dir",
         pc' \notin {"merge", "rmdirsrc"}
  PROVE  Progress'
BY DEF Progress

\* /lib is absent if the trees agree, so symlink makes the link.
LEMMA FlawlessRelinkLib == ASSUME Safe, Flawless, RelinkLib PROVE Flawless'
<1>1. disk' = disk /\ orig' = orig /\ k' = k
  BY DEF RelinkLib, Frame
<1>2. /\ fs'.usr = fs.usr /\ fs'.old = fs.old
      /\ \A q \in Paths : q # <<>> => fs'.lib[q] = fs.lib[q]
      /\ \/ pc = "unlinklib" /\ fs'.lib = Unlinked(fs.lib, <<>>) /\ pc' = "rmdirlib"
         \/ pc = "rmdirlib" /\ fs'.lib = Rmdired(fs.lib, <<>>) /\ pc' = "symlib"
         \/ pc = "symlib" /\ fs'.lib = Made(fs.lib, <<>>, "link") /\ pc' = "unlink64"
  BY LibRelinked
<1>3. LibDone /\ ~Linked64 /\ ~Linked64' /\ ~Copied'
      /\ pc' \notin {"unlink", "create", "write", "sync", "done", "merge", "rmdirsrc"}
  BY <1>2 DEF LibDone, Linked, Linked64, Copied, Before
<1>4. /\ Prepared(fs) /\ Spent(orig, fs, "old") /\ Spent(orig, fs, "lib")
      /\ Agree(orig) => fs.old[<<>>] # "dir" /\ fs.lib[<<>>] # "dir"
  BY <1>3, BothMerged
<1>5. Good(fs.lib) /\ <<>> \in Paths /\ "link" \in Nodes /\ fs.lib \in [Paths -> Nodes]
  BY SafeFacts, SaneParts, PathFacts DEF Nodes, Good
<1>6. /\ pc' = "rmdirlib" /\ fs.lib[<<>>] # "dir" => fs'.lib[<<>>] = "absent"
      /\ pc' = "symlib" /\ fs.lib[<<>>] = "absent" => fs'.lib[<<>>] = "absent"
      /\ pc' = "unlink64" /\ fs.lib[<<>>] = "absent" => fs'.lib[<<>>] = "link"
      /\ fs'.lib[<<>>] = "dir" => fs.lib[<<>>] = "dir"
  BY <1>2, <1>5 DEF Unlinked, Rmdired, Made, IsDir
<1>7. Links'
  <2>1. pc' = "symlib" \/ pc' = "unlink64" => pc \in {"rmdirlib", "symlib"}
    BY <1>2
  <2>2. Agree(orig) /\ pc \in {"rmdirlib", "symlib"} => fs.lib[<<>>] = "absent"
    BY FlawlessParts DEF Links
  <2>3. Linked' => pc' = "unlink64"
    BY <1>2 DEF Linked
  <2> QED
    BY <1>1, <1>4, <1>6, <2>1, <2>2, <2>3 DEF Links
<1>8. /\ Sound(orig, fs')
      /\ \A t \in Sources : Spent(orig, fs, t) => Spent(orig, fs', t)
      /\ \A q \in Paths : Held(fs', q) = Held(fs, q)
  <2>1. "lib" \in Sources /\ \A t \in Sources : t # "lib" => fs'[t] = fs[t]
    BY <1>2 DEF Sources
  <2>2. \A q \in Paths : q # <<>> => fs'["lib"][q] = fs["lib"][q]
    BY <1>2
  <2>3. fs'["lib"][<<>>] = "dir" => fs["lib"][<<>>] = "dir"
    BY <1>6
  <2> QED
    BY <1>2, <2>1, <2>2, <2>3, FlawlessParts, SoundRoot
<1>9. Progress'
  <2>1. Prepared(fs')
    BY <1>2, <1>4, <1>8 DEF Prepared
  <2>2. Spent(orig, fs', "old") /\ Spent(orig, fs', "lib")
    BY <1>4, <1>8 DEF Sources
  <2>3. Agree(orig) => fs'.old[<<>>] # "dir" /\ fs'.lib[<<>>] # "dir"
    BY <1>2, <1>4, <1>6
  <2> QED
    BY <1>1, <1>3, <2>1, <2>2, <2>3, ProgressLate
<1>10. Installed'
  BY <1>1, <1>3, FlawlessParts DEF Installed
<1>11. Sound(orig', fs') /\ Sound(orig', disk')
  BY <1>1, <1>8, FlawlessParts
<1> QED
  BY <1>7, <1>9, <1>10, <1>11 DEF Flawless

\* /lib64 has no part in the merge.
LEMMA FlawlessRelinkLib64 == ASSUME Safe, Flawless, RelinkLib64 PROVE Flawless'
<1>1. disk' = disk /\ orig' = orig /\ k' = k
  BY DEF RelinkLib64, Frame
<1>2. /\ fs'.usr = fs.usr /\ fs'.old = fs.old /\ fs'.lib = fs.lib
      /\ pc \in {"unlink64", "rmdir64", "sym64"} /\ pc' \in {"rmdir64", "sym64", "unlink"}
  BY Lib64Relinked
<1>3. LibDone /\ Linked /\ ~Linked64 /\ Linked' /\ ~Copied'
      /\ pc' \notin {"create", "write", "sync", "done", "merge", "rmdirsrc", "rmdirlib", "symlib"}
  BY <1>2 DEF LibDone, Linked, Linked64, Copied, Before
<1>4. /\ Prepared(fs) /\ Spent(orig, fs, "old") /\ Spent(orig, fs, "lib")
      /\ Agree(orig) => fs.old[<<>>] # "dir" /\ fs.lib[<<>>] # "dir"
  BY <1>3, BothMerged
<1>5. \A q : Held(fs', q) = Held(fs, q)
  BY <1>2 DEF Held, Found
<1>6. /\ Sound(orig, fs')
      /\ \A t \in Sources : Spent(orig, fs, t) => Spent(orig, fs', t)
  BY <1>2, <1>5, FlawlessParts, SoundSame
<1>7. Progress'
  <2>1. Prepared(fs')
    BY <1>2, <1>4, <1>5 DEF Prepared
  <2>2. Spent(orig, fs', "old") /\ Spent(orig, fs', "lib")
    BY <1>4, <1>6 DEF Sources
  <2> QED
    BY <1>1, <1>2, <1>3, <1>4, <2>1, <2>2, ProgressLate
<1>8. Links'
  BY <1>1, <1>2, <1>3, FlawlessParts DEF Links
<1>9. Installed'
  <2>1. k = 1
    BY <1>3, FlawlessParts DEF Installed
  <2>2. k' = 1 /\ \A j \in 1..3 : ~(j < k')
    BY <1>1, <2>1
  <2> QED
    BY <1>3, <2>2 DEF Installed
<1>10. Sound(orig', fs') /\ Sound(orig', disk')
  BY <1>1, <1>6, FlawlessParts
<1> QED
  BY <1>7, <1>8, <1>9, <1>10 DEF Flawless

\* While the linkers are installed only they change, and no directory does.
LEMMA FlawlessLate ==
  ASSUME Safe, Flawless, disk' = disk, orig' = orig, pc \in Late, pc' \in Late,
         fs'.old = fs.old, fs'.lib = fs.lib,
         \A q \in Paths : fs'.usr[q] # fs.usr[q] =>
           q \in LinkerPaths /\ fs.usr[q] # "dir" /\ fs'.usr[q] # "dir",
         Installed'
  PROVE  Flawless'
<1>1. LibDone /\ Linked /\ Linked' /\ pc' \notin {"merge", "rmdirsrc", "rmdirlib", "symlib"}
  BY DEF LibDone, Linked, Before, Late
<1>2. /\ Prepared(fs) /\ Spent(orig, fs, "old") /\ Spent(orig, fs, "lib")
      /\ Agree(orig) => fs.old[<<>>] # "dir" /\ fs.lib[<<>>] # "dir"
  BY <1>1, BothMerged
<1>3. Sound(orig, fs') /\ Prepared(fs') /\ Spent(orig, fs', "old") /\ Spent(orig, fs', "lib")
  BY <1>2, FlawlessParts, SoundLinkers
<1>4. Progress'
  BY <1>1, <1>2, <1>3, ProgressLate
<1>5. Links'
  BY <1>1, FlawlessParts DEF Links
<1>6. Sound(orig', fs') /\ Sound(orig', disk')
  BY <1>3, FlawlessParts
<1> QED
  BY <1>4, <1>5, <1>6 DEF Flawless

\* If the linkers can be installed, their names are no directories and their
\* directories are.
LEMMA RoomForLinkers ==
  ASSUME Safe, Flawless, LibDone, Whole(orig)
  PROVE  /\ fs.usr[<<>>] = "dir" /\ fs.usr[A64] = "dir"
         /\ \A p \in LinkerPaths : fs.usr[p] # "dir"
         /\ \A j \in 1..3 : IsDir(fs.usr, Front(Copies[j].dst))
<1>1. Prepared(fs) /\ Spent(orig, fs, "old") /\ Spent(orig, fs, "lib")
  BY BothMerged
<1>2. Shrunk(orig, fs) /\ Alike(orig, fs) /\ Agree(orig)
  BY FlawlessParts DEF Sound, Whole
<1>3. /\ <<>> \in Paths /\ A64 \in Below /\ A64 \notin LinkerPaths /\ LinkerPaths \subseteq Paths
      /\ \A p \in LinkerPaths : p \notin {<<>>, A64, Modules}
  BY PathFacts, NamedPaths DEF Below
<1>4. \A p \in Paths : fs.usr[p] = Held(fs, p)
  BY <1>1 DEF Prepared
<1>5. fs.usr[<<>>] = "dir"
  BY <1>2, <1>3, <1>4 DEF Shrunk, Held, Whole
<1>6. fs.usr[A64] = "dir"
  <2>1. ~Clash(orig, A64)
    BY <1>2, <1>3 DEF Agree, Below
  <2>2. fs.lib[A64] = "absent" /\ fs.old[A64] = "absent"
    BY <1>1, <1>2, <1>3, SpentIsEmpty DEF Sources
  <2>3. Merge(fs, A64) = Held(fs, A64)
    BY <2>2 DEF Merge
  <2>4. Merge(fs, A64) = Merge(orig, A64)
    BY <1>2, <1>3, <2>1 DEF Alike
  <2>5. Held(orig, A64) = "dir"
    BY DEF Held, Whole
  <2>6. \A t \in Sources : orig[t][A64] \in {"absent", "dir"}
    BY <1>3, <2>1, <2>5, SafeFacts, SourcesAgree
  <2>7. Merge(orig, A64) = "dir"
    BY <2>5, <2>6 DEF Merge, Sources
  <2> QED
    BY <1>3, <1>4, <2>3, <2>4, <2>7 DEF Below
<1>7. ASSUME NEW p \in LinkerPaths, fs.usr[p] = "dir" PROVE FALSE
  <2>1. PICK t \in Trees : Found(orig, t, p) = "dir"
    BY <1>2, <1>3, <1>4, <1>7 DEF Shrunk
  <2>2. Found(orig, t, p) = orig[t][p]
    BY <1>3 DEF Found
  <2> QED
    BY <2>1, <2>2 DEF Whole
<1>8. ASSUME NEW j \in 1..3 PROVE IsDir(fs.usr, Front(Copies[j].dst))
  <2>1. Front(Copies[j].dst) = A64 \/ Front(Copies[j].dst) = <<>>
    <3>1. j = 1 \/ j = 2 \/ j = 3
      OBVIOUS
    <3>2. CASE j = 1
      BY <3>2, NamedPaths
    <3>3. CASE j = 2
      BY <3>3, NamedPaths
    <3>4. CASE j = 3
      BY <3>4, NamedPaths
    <3> QED
      BY <3>1, <3>2, <3>3, <3>4
  <2> QED
    BY <1>5, <1>6, <2>1 DEF IsDir
<1> QED
  BY <1>5, <1>6, <1>7, <1>8

\* copy_file, when no call fails: a linker that is no directory is removed,
LEMMA FlawlessCopyUnlink == ASSUME Safe, Flawless, CopyUnlink PROVE Flawless'
<1> DEFINE d == Copies[k].dst
<1>1. /\ disk' = disk /\ orig' = orig /\ pc = "unlink"
  BY DEF CopyUnlink, Frame
<1>2. /\ \/ /\ Copies[k].src \in Payload /\ fs'.usr = Unlinked(fs.usr, d)
            /\ pc' = "create" /\ k' = k
         \/ Copies[k].src \notin Payload /\ NextCopy /\ fs'.usr = fs.usr
      /\ fs'.old = fs.old /\ fs'.lib = fs.lib
  BY SafeCopyUnlink
<1>3. d \in LinkerPaths /\ d \in Paths /\ Good(fs.usr) /\ k \in 1..3
  BY LinkerPath
<1>4. LibDone /\ pc \in Late /\ Linked64
  BY <1>1 DEF LibDone, Linked64, Linked, Before, Late
<1>5. pc' \in Late /\ Linked64'
  <2>1. pc' \in {"create", "unlink", "compat1"}
    BY <1>2, <1>3, NextCopyIs
  <2> QED
    BY <2>1 DEF Late, Linked64, Linked, LibDone, Before
<1>6. \A q \in Paths : fs'.usr[q] # fs.usr[q] =>
        q = d /\ fs.usr[q] # "dir" /\ fs'.usr[q] # "dir"
  <2>1. CASE fs'.usr = Unlinked(fs.usr, d)
    BY <1>3, <2>1, UnlinkedTree
  <2> QED
    BY <1>2, <2>1
<1>7. ASSUME Whole(orig)
      PROVE  /\ pc' = "create" /\ k' = k /\ fs'.usr[Copies[k'].dst] = "absent"
             /\ \A j \in 1..3 : j < k' => fs'.usr[Copies[j].dst] = "new"
  <2>1. Copies[k].src \in Payload
    BY <1>3, <1>7, NamedPaths DEF Whole
  <2>2. pc' = "create" /\ k' = k /\ fs'.usr = Unlinked(fs.usr, d)
    BY <1>2, <2>1
  <2>3. fs'.usr[d] = "absent"
    BY <1>3, <1>4, <1>7, <2>2, RoomForLinkers, UnlinkedTree
  <2>4. ASSUME NEW j \in 1..3, j < k PROVE fs'.usr[Copies[j].dst] = "new"
    <3>1. fs.usr[Copies[j].dst] = "new"
      BY <1>1, <1>7, <2>4, FlawlessParts DEF Installed
    <3>2. j # k
      BY <1>3, <2>4
    <3>3. Copies[j].dst # d /\ Copies[j].dst \in Paths
      BY <1>3, <3>2, NamedPaths
    <3> QED
      BY <1>6, <3>1, <3>3
  <2> QED
    BY <2>2, <2>3, <2>4
<1>8. Installed'
  <2>1. Whole(orig) => ~Copied'
    BY <1>7 DEF Copied
  <2> QED
    BY <1>1, <1>5, <1>7, <2>1 DEF Installed
<1> QED
  BY <1>1, <1>2, <1>3, <1>4, <1>5, <1>6, <1>8, FlawlessLate

\* then created in a directory that is there,
LEMMA FlawlessCopyCreate == ASSUME Safe, Flawless, CopyCreate PROVE Flawless'
<1> DEFINE d == Copies[k].dst
           u == Made(fs.usr, d, "torn")
<1>1. /\ disk' = disk /\ orig' = orig /\ pc = "create"
  BY DEF CopyCreate, Frame
<1>2. /\ \/ fs'.usr = u /\ pc' = "write" /\ k' = k
         \/ u[d] \notin Files /\ NextCopy /\ fs'.usr = fs.usr
      /\ fs'.old = fs.old /\ fs'.lib = fs.lib
  BY SafeCopyCreate
<1>3. d \in LinkerPaths /\ d \in Paths /\ Good(fs.usr) /\ k \in 1..3
  BY LinkerPath
<1>4. LibDone /\ pc \in Late /\ Linked64
  BY <1>1 DEF LibDone, Linked64, Linked, Before, Late
<1>5. pc' \in Late /\ Linked64'
  <2>1. pc' \in {"write", "unlink", "compat1"}
    BY <1>2, <1>3, NextCopyIs
  <2> QED
    BY <2>1 DEF Late, Linked64, Linked, LibDone, Before
<1>6. \A q \in Paths : fs'.usr[q] # fs.usr[q] =>
        q = d /\ fs.usr[q] # "dir" /\ fs'.usr[q] # "dir"
  <2>1. "torn" \in Nodes /\ "torn" # "link" /\ "torn" # "dir"
    BY DEF Nodes, Files
  <2>2. CASE fs'.usr = u
    BY <1>3, <2>1, <2>2, MadeTree
  <2> QED
    BY <1>2, <2>2
<1>7. ASSUME Whole(orig)
      PROVE  /\ pc' = "write" /\ k' = k
             /\ \A j \in 1..3 : j < k' => fs'.usr[Copies[j].dst] = "new"
  <2>1. fs.usr[d] = "absent"
    BY <1>1, <1>7, FlawlessParts DEF Installed
  <2>2. IsDir(fs.usr, Front(d))
    BY <1>3, <1>4, <1>7, RoomForLinkers
  <2>3. u = [fs.usr EXCEPT ![d] = "torn"]
    BY <2>1, <2>2 DEF Made
  <2>4. u[d] = "torn" /\ "torn" \in Files
    BY <1>3, <2>3 DEF Good, Files
  <2>5. pc' = "write" /\ k' = k
    BY <1>2, <2>4
  <2>6. ASSUME NEW j \in 1..3, j < k PROVE fs'.usr[Copies[j].dst] = "new"
    <3>1. fs.usr[Copies[j].dst] = "new"
      BY <1>1, <1>7, <2>6, FlawlessParts DEF Installed
    <3>2. j # k
      BY <1>3, <2>6
    <3>3. Copies[j].dst # d /\ Copies[j].dst \in Paths
      BY <1>3, <3>2, NamedPaths
    <3> QED
      BY <1>6, <3>1, <3>3
  <2> QED
    BY <2>5, <2>6
<1>8. Installed'
  <2>1. Whole(orig) => ~Copied'
    BY <1>7 DEF Copied
  <2> QED
    BY <1>1, <1>5, <1>7, <2>1 DEF Installed
<1> QED
  BY <1>1, <1>2, <1>3, <1>4, <1>5, <1>6, <1>8, FlawlessLate

\* then written, and later copies leave it alone.
LEMMA FlawlessCopyWrite ==
  ASSUME Safe, Flawless, CopyWrite, faults' = faults
  PROVE  Flawless'
<1> DEFINE d == Copies[k].dst
<1>1. /\ disk' = disk /\ orig' = orig /\ pc = "write"
  BY DEF CopyWrite, Frame
<1>2. faults \in Nat
  BY SafeFacts, BoundsAssumption DEF TypeOK
<1>3. /\ NextCopy /\ fs'.old = fs.old /\ fs'.lib = fs.lib
      /\ fs'.usr = [fs.usr EXCEPT ![d] = "new"] /\ fs.usr[d] \in Files
  BY <1>2, SafeCopyWrite
<1>4. d \in LinkerPaths /\ d \in Paths /\ Good(fs.usr) /\ k \in 1..3
  BY LinkerPath
<1>5. LibDone /\ pc \in Late /\ Linked64
  BY <1>1 DEF LibDone, Linked64, Linked, Before, Late
<1>6. pc' \in Late /\ Linked64' /\ pc' \notin {"create", "write", "sync", "done"}
  <2>1. pc' \in {"unlink", "compat1"}
    BY <1>3, <1>4, NextCopyIs
  <2> QED
    BY <2>1 DEF Late, Linked64, Linked, LibDone, Before
<1>7. fs'.usr[d] = "new" /\ \A q \in Paths : q # d => fs'.usr[q] = fs.usr[q]
  BY <1>3, <1>4 DEF Good
<1>8. fs.usr[d] # "dir"
  BY <1>3 DEF Files
<1>9. ASSUME Whole(orig), NEW j \in 1..3, j <= k PROVE fs'.usr[Copies[j].dst] = "new"
  <2>1. CASE j = k
    BY <1>7, <2>1
  <2>2. CASE j < k
    <3>1. fs.usr[Copies[j].dst] = "new"
      BY <1>1, <1>9, <2>2, FlawlessParts DEF Installed
    <3>2. j # k
      BY <1>4, <2>2
    <3>3. Copies[j].dst # d /\ Copies[j].dst \in Paths
      BY <1>4, <3>2, NamedPaths
    <3> QED
      BY <1>7, <3>1, <3>3
  <2> QED
    BY <1>4, <1>9, <2>1, <2>2
<1>10. \/ pc' = "unlink" /\ k' = k + 1
       \/ pc' = "compat1" /\ k = 3
  BY <1>3, <1>4 DEF NextCopy, Goto
<1>11. Installed'
  <2>1. ASSUME Whole(orig), pc' = "unlink" PROVE \A j \in 1..3 : j < k' => fs'.usr[Copies[j].dst] = "new"
    <3>1. \A j \in 1..3 : j < k' => j <= k
      BY <1>4, <1>10, <2>1
    <3> QED
      BY <1>9, <2>1, <3>1
  <2>2. ASSUME Whole(orig), Copied' PROVE \A j \in 1..3 : fs'.usr[Copies[j].dst] = "new"
    <3>1. pc' # "unlink"
      BY <2>2 DEF Copied
    <3>2. \A j \in 1..3 : j <= k
      BY <1>10, <3>1
    <3> QED
      BY <1>9, <2>2, <3>2
  <2> QED
    BY <1>1, <1>6, <2>1, <2>2 DEF Installed
<1>12. \A q \in Paths : fs'.usr[q] # fs.usr[q] =>
        q \in LinkerPaths /\ fs.usr[q] # "dir" /\ fs'.usr[q] # "dir"
  BY <1>4, <1>7, <1>8
<1> QED
  BY <1>1, <1>3, <1>5, <1>6, <1>11, <1>12, FlawlessLate

\* Linkers that are new stay so.
LEMMA FlawlessCompat == ASSUME Safe, Flawless, Compat PROVE Flawless'
<1>1. disk' = disk /\ orig' = orig
  BY DEF Compat, Frame
<1>2. /\ \/ pc = "compat1" /\ pc' = "compat2"
         \/ pc = "compat2" /\ pc' = "verify"
      /\ k' = k
      /\ \A q \in Paths : fs'.usr[q] # fs.usr[q] => q \in LinkerPaths /\ fs.usr[q] = "absent"
      /\ fs'.old = fs.old /\ fs'.lib = fs.lib
  BY SafeCompat
<1>3. pc \in Late /\ pc' \in Late /\ Copied /\ Linked64'
      /\ pc' \notin {"unlink", "create", "write", "sync", "done"}
  BY <1>2 DEF Late, Copied, Linked64, Linked, LibDone, Before
<1>4. \A q \in Paths : fs'.usr[q] # "dir" \/ fs'.usr[q] = fs.usr[q]
  <2>1. PICK d \in LinkerPaths : fs' = [fs EXCEPT !.usr = Made(fs.usr, d, "link")]
    <3>1. Append(A64, LD231) \in LinkerPaths /\ <<LD>> \in LinkerPaths
      <4>1. Copies[2].dst \in LinkerPaths /\ Copies[3].dst \in LinkerPaths
        BY DEF LinkerPaths
      <4> QED
        BY <4>1, NamedPaths
    <3> QED
      BY <3>1 DEF Compat
  <2>2. Good(fs.usr) /\ d \in Paths /\ "link" \in Nodes /\ Sane(fs)
    BY SafeFacts, SaneParts, NamedPaths DEF Nodes
  <2>3. /\ Good(Made(fs.usr, d, "link"))
        /\ \A q \in Paths : Made(fs.usr, d, "link")[q] # fs.usr[q] => Made(fs.usr, d, "link")[q] = "link"
    BY <2>2, MadeTree
  <2>4. fs'.usr = Made(fs.usr, d, "link")
    BY <2>1, <2>2, <2>3, ReplacedUsr
  <2> QED
    BY <2>3, <2>4
<1>5. Installed'
  <2>1. ASSUME Whole(orig), NEW j \in 1..3 PROVE fs'.usr[Copies[j].dst] = "new"
    <3>1. fs.usr[Copies[j].dst] = "new"
      BY <1>3, <2>1, FlawlessParts DEF Installed
    <3>2. Copies[j].dst \in Paths
      BY NamedPaths
    <3> QED
      BY <1>2, <3>1, <3>2
  <2> QED
    BY <1>1, <1>3, <2>1 DEF Installed
<1>6. \A q \in Paths : fs'.usr[q] # fs.usr[q] =>
        q \in LinkerPaths /\ fs.usr[q] # "dir" /\ fs'.usr[q] # "dir"
  BY <1>2, <1>4
<1> QED
  BY <1>1, <1>2, <1>3, <1>5, <1>6, FlawlessLate

\* The linker that the verification opens is the new one.
LEMMA FlawlessVerify == ASSUME Safe, Flawless, Verify PROVE Flawless'
<1>1. /\ disk' = disk /\ orig' = orig /\ pc = "verify" /\ pc' = "sync" /\ k' = k /\ fs' = fs
      /\ verdict' = IF Linker = "absent" THEN "warning" ELSE "success"
  BY DEF Verify, Frame, Goto
<1>2. pc \in Late /\ pc' \in Late /\ Copied /\ Linked /\ Linked64'
  BY <1>1 DEF Late, Copied, Linked64, Linked, LibDone, Before
<1>3. ASSUME Whole(orig)
      PROVE  verdict' = "success" /\ \A j \in 1..3 : fs.usr[Copies[j].dst] = "new"
  <2>1. \A j \in 1..3 : fs.usr[Copies[j].dst] = "new"
    BY <1>2, <1>3, FlawlessParts DEF Installed
  <2>2. fs.lib[<<>>] = "link"
    BY <1>2, <1>3, FlawlessParts DEF Links, Whole
  <2>3. fs.usr[Copies[3].dst] = "new"
    BY <2>1
  <2>4. fs.usr[<<LD>>] = "new"
    BY <2>3, NamedPaths
  <2>5. Linker = "new"
    BY <2>2, <2>4 DEF Linker
  <2> QED
    BY <1>1, <2>1, <2>5
<1>4. Installed'
  BY <1>1, <1>2, <1>3 DEF Installed
<1> QED
  BY <1>1, <1>2, <1>4, FlawlessLate

\* The disk that sync leaves is as sound as the file system.
LEMMA FlawlessSync == ASSUME Safe, Flawless, SyncUnmount PROVE Flawless'
<1>1. /\ disk' = fs /\ fs' = fs /\ orig' = orig /\ pc = "sync" /\ pc' = "done" /\ k' = k
      /\ verdict' = verdict
  BY DEF SyncUnmount, Goto
<1>2. LibDone /\ Linked /\ Copied /\ Linked64'
  BY <1>1 DEF Copied, Linked64, Linked, LibDone, Before
<1>3. Progress'
  BY <1>1, <1>2, BothMerged, ProgressLate
<1>4. Links'
  BY <1>1, <1>2, FlawlessParts DEF Links
<1>5. Installed'
  BY <1>1, <1>2, FlawlessParts DEF Installed
<1>6. Sound(orig', fs') /\ Sound(orig', disk')
  BY <1>1, FlawlessParts
<1> QED
  BY <1>3, <1>4, <1>5, <1>6 DEF Flawless

\* The disk is sound whenever the journal is committed: only linkers are torn.
LEMMA FlawlessCommit == ASSUME Safe, Flawless, Commit PROVE Flawless'
<1>1. /\ fs' = fs /\ orig' = orig /\ pc' = pc /\ src' = src /\ cwd' = cwd /\ todo' = todo
      /\ k' = k /\ verdict' = verdict
  BY DEF Commit
<1>2. Progress' /\ Links' /\ Installed'
  <2>1. Progress'
    BY <1>1, FlawlessParts DEF Progress, OldDone, LibDone
  <2>2. Links'
    BY <1>1, FlawlessParts DEF Links, Linked, LibDone
  <2>3. Installed'
    BY <1>1, FlawlessParts DEF Installed, Copied, Linked64, Linked, LibDone
  <2> QED
    BY <2>1, <2>2, <2>3
<1>3. Sound(orig, disk')
  <2>1. PICK lost \in SUBSET dirty : disk' = Torn(fs, lost)
    BY DEF Commit, Torn
  <2>2. \A p \in dirty : p \in LinkerPaths /\ fs.usr[p] = "new"
    BY SafeFacts DEF Writes
  <2>3. /\ lost \in SUBSET LinkerPaths /\ \A p \in lost : fs.usr[p] = "new"
    BY <2>2
  <2>4. /\ disk'.old = fs.old /\ disk'.lib = fs.lib
        /\ \A q \in Paths : q \notin LinkerPaths => disk'.usr[q] = fs.usr[q]
        /\ \A q \in Paths : q \in LinkerPaths =>
              disk'.usr[q] = fs.usr[q] \/ (fs.usr[q] = "new" /\ disk'.usr[q] = "torn")
    BY <2>1, <2>3, SafeFacts, TornIs
  <2>5. \A q \in Paths : disk'.usr[q] # fs.usr[q] =>
          q \in LinkerPaths /\ fs.usr[q] # "dir" /\ disk'.usr[q] # "dir"
    BY <2>4
  <2>6. CASE pc \in Late
    <3>1. LibDone
      BY <2>6 DEF LibDone, Before, Late
    <3> QED
      BY <2>4, <2>5, <3>1, BothMerged, FlawlessParts, SoundLinkers
  <2>7. CASE pc \notin Late
    <3>1. lost = {}
      BY <2>1, <2>7, SafeFacts DEF Writes
    <3>2. disk'.usr = [p \in Paths |-> fs.usr[p]]
      <4>1. fs \in FileSystems
        BY SafeFacts DEF Sane
      <4> QED
        BY <2>1, <3>1, <4>1 DEF Torn, FileSystems
    <3>3. \A p \in Paths : disk'.usr[p] = fs.usr[p]
      BY <3>2
    <3>4. \A p \in Paths : Held(disk', p) = Held(fs, p)
      BY <3>3, PathFacts DEF Held, Found
    <3> QED
      BY <2>4, <3>4, FlawlessParts, SoundSame
  <2> QED
    BY <2>6, <2>7
<1>4. Sound(orig', fs') /\ Sound(orig', disk')
  BY <1>1, <1>3, FlawlessParts
<1> QED
  BY <1>2, <1>4 DEF Flawless

\* The next run starts on a sound disk: this is why Sound says nothing of
\* where the program is.
LEMMA FlawlessCrash == ASSUME Safe, Flawless, Crash PROVE Flawless'
<1>1. fs' = disk /\ disk' = disk /\ orig' = orig /\ pc' = "mount" /\ k' = 1
  BY DEF Crash, Goto
<1>2. ~OldDone' /\ ~LibDone' /\ ~Linked' /\ ~Linked64' /\ ~Copied' /\ pc' \in Before
  BY <1>1 DEF OldDone, LibDone, Linked, Linked64, Copied, Before
<1>3. Progress' /\ Links' /\ Installed'
  BY <1>1, <1>2 DEF Progress, Links, Installed
<1>4. Sound(orig', fs') /\ Sound(orig', disk')
  BY <1>1, FlawlessParts
<1> QED
  BY <1>3, <1>4 DEF Flawless

\* Flawless depends on the variables only.
LEMMA FlawlessStutter == ASSUME Flawless, UNCHANGED vars PROVE Flawless'
<1>1. /\ fs' = fs /\ disk' = disk /\ orig' = orig /\ pc' = pc /\ src' = src /\ cwd' = cwd
      /\ todo' = todo /\ k' = k /\ verdict' = verdict
  BY DEF vars
<1>2. Progress'
  BY <1>1, FlawlessParts DEF Progress, OldDone, LibDone
<1>3. Links'
  BY <1>1, FlawlessParts DEF Links, Linked, LibDone
<1>4. Installed'
  BY <1>1, FlawlessParts DEF Installed, Copied, Linked64, Linked, LibDone
<1>5. Sound(orig', fs') /\ Sound(orig', disk')
  BY <1>1, FlawlessParts
<1> QED
  BY <1>2, <1>3, <1>4, <1>5 DEF Flawless

\* No step takes a failure back.
LEMMA FaultsCount ==
  ASSUME Safe, [Next]_vars
  PROVE  faults' = 0 => faults = 0 /\ faults' = faults
<1>1. faults \in Nat
  BY SafeFacts, BoundsAssumption DEF TypeOK
<1>2. faults' = faults \/ faults' = faults + 1
  <2>1. CASE MergeEntry
    <3>1. PICK p : MoveEntry(p) \/ MergeSubdir(p)
      BY <2>1, EntryStep
    <3> QED
      BY <3>1 DEF MoveEntry, MergeSubdir
  <2>2. CASE ~MergeEntry
    BY <2>2 DEF Next, Program, Mount, Mkdirs, OpenOld, StatLib, MergeReturn,
       RmdirSrc,
       RelinkLib, RelinkLib64, CopyUnlink, CopyCreate, CopyWrite, Compat, Verify, SyncUnmount,
       Commit, Crash, vars
  <2> QED
    BY <2>1, <2>2
<1> QED
  BY <1>1, <1>2

\* Flawless is preserved by every step that is not a fault.
LEMMA FlawlessStep ==
  ASSUME Safe, Flawless, [Next]_vars, faults' = faults
  PROVE  Flawless'
BY FlawlessMount, FlawlessMkdirs, FlawlessOpenOld, FlawlessStatLib,
   FlawlessMergeEntry,
   FlawlessMergeReturn, FlawlessRmdirSrc, FlawlessRelinkLib, FlawlessRelinkLib64,
   FlawlessCopyUnlink, FlawlessCopyCreate, FlawlessCopyWrite, FlawlessCompat, FlawlessVerify,
   FlawlessSync, FlawlessCommit, FlawlessCrash, FlawlessStutter
   DEF Next, Program

\* Every damaged disk satisfies the invariant.
LEMMA IInvInit == Init => IInv
<1> SUFFICES ASSUME Init PROVE IInv
  OBVIOUS
<1>1. Safe
  BY SafeInit
<1>2. disk = fs /\ orig = fs /\ pc = "mount" /\ k = 1
  BY DEF Init
<1>3. ~OldDone /\ ~LibDone /\ ~Linked /\ ~Linked64 /\ ~Copied /\ pc \in Before
  BY <1>2 DEF OldDone, LibDone, Linked, Linked64, Copied, Before
<1>4. Links64
  BY <1>2, <1>3 DEF Links64
<1>5. Sound(orig, fs) /\ Sound(orig, disk)
  BY <1>1, <1>2, SafeFacts, SoundAtFirst
<1>6. Progress /\ Links /\ Installed
  BY <1>2, <1>3 DEF Progress, Links, Installed
<1> QED
  BY <1>1, <1>4, <1>5, <1>6 DEF IInv, Flawless

\* The invariant is inductive: faults never decrease, so a state without
\* them comes from one without them.
LEMMA IInvStep == IInv /\ [Next]_vars => IInv'
<1> SUFFICES ASSUME IInv, [Next]_vars PROVE IInv'
  OBVIOUS
<1>1. Safe /\ Links64 /\ (faults = 0 => Flawless)
  BY DEF IInv
<1>2. Safe'
  BY <1>1, SafeStep
<1>3. Links64'
  BY <1>1, <1>2, Links64Step
<1>4. faults' = 0 => Flawless'
  BY <1>1, FaultsCount, FlawlessStep
<1> QED
  BY <1>2, <1>3, <1>4 DEF IInv

\* The invariant holds in every reachable state.
LEMMA IInvAlways == Spec => []IInv
BY IInvInit, IInvStep, PTL DEF Spec

-----------------------------------------------------------------------------
(* What the rescue program promises.                                       *)

\* Where the trees do not clash, the overlay in the order of the merges is the
\* reference overlay.
LEMMA MergeIsReference ==
  ASSUME NEW o, Sane(o), NEW p \in Below, ~Clash(o, p)
  PROVE  Overlay(o, p) = Merge(o, p)
<1>1. p \in Paths /\ p # <<>>
  BY DEF Below
<1>2. \A t \in Sources : /\ Found(o, t, p) = o[t][p]
                         /\ o[t][p] # "absent" => t \in Merged(o)
  BY <1>1, FoundSource, SourceMerged
<1>3. Found(o, "lib", p) = o.lib[p] /\ Found(o, "old", p) = o.old[p]
      /\ (o.lib[p] # "absent" => "lib" \in Merged(o))
      /\ (o.old[p] # "absent" => "old" \in Merged(o))
  BY <1>2 DEF Sources
<1>4. CASE o.lib[p] # "absent"
  BY <1>3, <1>4 DEF Overlay, Merge
<1>5. CASE o.lib[p] = "absent" /\ o.old[p] # "absent"
  BY <1>3, <1>5 DEF Overlay, Merge
<1>6. CASE o.lib[p] = "absent" /\ o.old[p] = "absent"
  BY <1>3, <1>6 DEF Overlay, Merge, Held
<1> QED
  BY <1>4, <1>5, <1>6

\* ... and at the root, where the trees that are merged are directories.
LEMMA RootIsReference ==
  ASSUME NEW o, Sane(o), ~Clash(o, <<>>)
  PROVE  Overlay(o, <<>>) = Held(o, <<>>)
<1>1. <<>> \in Paths
  BY PathFacts
<1>2. Held(o, <<>>) # "absent"
  BY DEF Held, Found
<1>3. ASSUME NEW t \in Sources, t \in Merged(o)
      PROVE  Found(o, t, <<>>) = "dir" /\ Held(o, <<>>) = "dir"
  <2>1. o[t][<<>>] = "dir"
    BY <1>3 DEF Merged, IsDir, Sources
  <2>2. Found(o, t, <<>>) = "dir"
    BY <2>1, FoundSource
  <2> QED
    BY <1>1, <1>2, <1>3, <2>2, UsrMerged, SameKind DEF Held
<1>4. CASE "lib" \in Merged(o)
  BY <1>3, <1>4 DEF Overlay, Sources
<1>5. CASE "lib" \notin Merged(o) /\ "old" \in Merged(o)
  BY <1>3, <1>5 DEF Overlay, Sources
<1>6. CASE "lib" \notin Merged(o) /\ "old" \notin Merged(o)
  BY <1>6 DEF Overlay, Held
<1> QED
  BY <1>4, <1>5, <1>6

\* merge_dir's renames, its recursion and its removals compute an overlay:
\* once the banner appears and no call failed, /usr/lib holds at every path
\* the trees agree about what /lib, else /lib_old, else /usr/lib held when the
\* first run began, however often the power was cut in between.
THEOREM Overlaid == Spec => []MergeIsOverlay
<1>1. IInv => MergeIsOverlay
  <2> SUFFICES ASSUME IInv, pc = "done", faults = 0,
                      NEW p \in Paths \ LinkerPaths, ~Clash(orig, p)
               PROVE  fs.usr[p] = Overlay(orig, p)
    BY DEF MergeIsOverlay
  <2>1. Safe /\ Flawless
    BY DEF IInv
  <2>2. Sane(orig) /\ Shrunk(orig, fs) /\ Alike(orig, fs)
    BY <2>1, SafeFacts, FlawlessParts DEF Sound
  <2>3. Prepared(fs) /\ Spent(orig, fs, "old") /\ Spent(orig, fs, "lib")
    <3>1. LibDone
      BY DEF LibDone, Before
    <3> QED
      BY <2>1, <3>1, BothMerged
  <2>4. fs.usr[p] = Held(fs, p)
    BY <2>3 DEF Prepared
  <2>5. CASE p = <<>>
    BY <2>2, <2>4, <2>5, RootIsReference DEF Shrunk
  <2>6. CASE p # <<>>
    <3>1. p \in Below
      BY <2>6 DEF Below
    <3>2. \A t \in Sources : fs[t][p] = "absent" \/ (fs[t][p] = "dir" /\ Held(fs, p) = "dir")
      BY <2>3, <3>1 DEF Spent, Sources
    <3>3. Merge(fs, p) = Held(fs, p)
      BY <3>2 DEF Merge, Sources
    <3>4. Merge(fs, p) = Merge(orig, p)
      BY <2>2, <3>1 DEF Alike
    <3> QED
      BY <2>2, <2>4, <3>1, <3>3, <3>4, MergeIsReference
  <2> QED
    BY <2>5, <2>6
<1> QED
  BY <1>1, IInvAlways, PTL

\* If the trees never disagree and the linkers have room, the banner is true:
\* /lib_old is gone, the symbolic links are back, each linker is the new one
\* and the verification opened it.
THEOREM Complete == Spec => []RepairComplete
<1>1. IInv => RepairComplete
  <2> SUFFICES ASSUME IInv, pc = "done", faults = 0, Payload = {LD, LD231},
                      \A p \in Paths : ~Clash(orig, p),
                      Found(orig, "usr", <<>>) = "dir", Found(orig, "usr", A64) = "dir",
                      \A t \in Trees : \A p \in LinkerPaths : orig[t][p] # "dir"
               PROVE  /\ fs.old[<<>>] # "dir"
                      /\ fs.lib[<<>>] = "link"
                      /\ orig.lib64 # "full" => fs.lib64 = "link"
                      /\ \A p \in LinkerPaths : fs.usr[p] = "new"
                      /\ verdict = "success"
    BY DEF RepairComplete
  <2>1. Safe /\ Flawless /\ Links64
    BY DEF IInv
  <2>2. Whole(orig) /\ Agree(orig)
    BY DEF Whole, Agree
  <2>3. LibDone /\ Linked /\ Linked64 /\ Copied
    BY DEF Copied, Linked64, Linked, LibDone, Before
  <2>4. fs.old[<<>>] # "dir" /\ fs.lib[<<>>] = "link"
    BY <2>1, <2>2, <2>3, BothMerged, FlawlessParts DEF Links
  <2>5. orig.lib64 # "full" => fs.lib64 = "link"
    BY <2>1, <2>3 DEF Links64
  <2>6. verdict = "success" /\ \A j \in 1..3 : fs.usr[Copies[j].dst] = "new"
    BY <2>1, <2>2, <2>3, FlawlessParts DEF Installed
  <2>7. \A p \in LinkerPaths : fs.usr[p] = "new"
    BY <2>6 DEF LinkerPaths
  <2> QED
    BY <2>4, <2>5, <2>6, <2>7
<1> QED
  BY <1>1, IInvAlways, PTL

=============================================================================
