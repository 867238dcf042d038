--------------------------- MODULE FlowRingProofs ---------------------------
(***************************************************************************)
(* Proofs about FlowRing, for any set of stations and threads, any number  *)
(* of rings, and any number of frames, events and faults.                  *)
(***************************************************************************)
EXTENDS FlowRing, SequenceTheorems, FiniteSetTheorems, WellFoundedInduction, TLAPS

\* What a ring of messages holds: some of M, at most one of M, none of N before
\* one of M, and one of M with one of N behind it.
Some(s, M) == \E k \in 1..Len(s) : s[k] \in M
Once(s, M) == \A k, l \in 1..Len(s) : s[k] \in M /\ s[l] \in M => k = l
Ordered(s, M, N) == \A k, l \in 1..Len(s) : s[k] \in M /\ s[l] \in N => k < l
Follows(s, M, N) == \E k, l \in 1..Len(s) : s[k] \in M /\ s[l] \in N /\ k < l

\* The messages about id i.
Creates(i) == {m \in Messages : m.type = "create" /\ m.id = i}
Deletes(i) == {m \in Messages : m.type = "delete" /\ m.id = i}
Answers(i) == {r \in Responses : r.type = "created" /\ r.id = i}
Refusals(i) == {r \in Responses : r.type = "created" /\ r.id = i /\ ~r.ok}
Removals(i) == {r \in Responses : r.type = "deleted" /\ r.id = i /\ r.ok}

\* Where id i is.
Spare(i) == i \in Range(idmap)
Hashed(i) == \E k \in 1..Len(fl_hash) : fl_hash[k].id = i
Listed(i) == i \in Range(flowring_active_list)
Pooled(i) == i \notin inited
Active(i) == node[i].active
Making == {"insert", "init", "create", "undo"}
Maker(t, i) == tx[t].pc \in Making /\ tx[t].id = i
Made(i) == \E t \in Threads : Maker(t, i)
Cleaned(i) == dpc.pc \in {"list", "free"} /\ dpc.id = i
Freeing(i) == dpc.pc = "free" /\ dpc.id = i
Has(i) == dongle[i] # NoStation
Asked(i) == Some(h2d, Creates(i))
Answered(i) == Some(d2h, Answers(i))
Refused(i) == Some(d2h, Refusals(i))
Removed(i) == Some(d2h, Removals(i))

\* Neither on the wire nor in the dongle; neither on the list nor in use.
Calm(i) == ~Asked(i) /\ ~Answered(i) /\ ~Refused(i) /\ ~Removed(i) /\ ~Has(i)
Bare(i) == Pooled(i) /\ ~Listed(i)

\* The life of a flow id: free; in the hands of the thread that creates the
\* ring; being cleaned by the DPC; left behind by a failed creation; or in
\* use: its creation requested, answered, or listed.
Free(i) ==
  Spare(i) /\ ~Made(i) /\ ~Cleaned(i) /\ ~Hashed(i) /\ ~Active(i) /\ Bare(i) /\ Calm(i)
Young(i) ==
  ~Spare(i) /\ Made(i) /\ ~Cleaned(i) /\ Bare(i) /\ Calm(i)
Closing(i) ==
  /\ ~Spare(i) /\ ~Made(i) /\ Cleaned(i) /\ Hashed(i) /\ ~Active(i) /\ Calm(i)
  /\ Freeing(i) => Bare(i)
Undone(i) ==
  /\ ~Spare(i) /\ ~Made(i) /\ ~Cleaned(i) /\ Hashed(i) /\ ~Active(i)
  /\ Bare(i) /\ Calm(i)
InUse(i) ==
  /\ ~Spare(i) /\ ~Made(i) /\ ~Cleaned(i) /\ Hashed(i) /\ Active(i) /\ ~Pooled(i)
  /\ \/ /\ Asked(i) /\ ~Answered(i) /\ ~Refused(i) /\ ~Removed(i) /\ ~Has(i)
        /\ ~Listed(i)
     \/ /\ ~Asked(i) /\ Answered(i) /\ ~Listed(i)
        /\ \/ Refused(i) /\ ~Removed(i) /\ ~Has(i)
           \/ ~Refused(i) /\ Removed(i) /\ ~Has(i)
           \/ ~Refused(i) /\ ~Removed(i) /\ Has(i)
     \/ /\ ~Asked(i) /\ ~Answered(i) /\ ~Refused(i) /\ Listed(i)
        /\ \/ Removed(i) /\ ~Has(i)
           \/ ~Removed(i) /\ Has(i)
Life(i) == Free(i) \/ Young(i) \/ Closing(i) \/ Undone(i) \/ InUse(i)

\* The control rings hold one create, one answer and one removal of an id at
\* most, the answer before the removal.
Single(i) ==
  /\ Once(h2d, Creates(i)) /\ Once(d2h, Answers(i)) /\ Once(d2h, Removals(i))
  /\ Ordered(d2h, Answers(i), Removals(i))

\* No id twice in the chain, the stack or the list.
Chains ==
  /\ \A k, l \in 1..Len(fl_hash) : fl_hash[k].id = fl_hash[l].id => k = l
  /\ IsInjective(idmap)
  /\ IsInjective(flowring_active_list)

\* One thread makes a ring, and how far it got shows in the chain and the node.
Alone ==
  \A t, u \in Threads :
    tx[t].pc \in Making /\ tx[u].pc \in Making /\ tx[t].id = tx[u].id => t = u
Entry(t) == [da |-> tx[t].da, id |-> tx[t].id]
Stage(t) ==
  /\ tx[t].pc # "idle" => tx[t].da \in Stations
  /\ tx[t].pc \notin {"idle", "admit", "alloc"} => tx[t].id \in Ids
  /\ tx[t].pc = "insert" => ~Hashed(tx[t].id) /\ ~Active(tx[t].id)
  /\ tx[t].pc = "init" => ~Active(tx[t].id)
  /\ tx[t].pc \in {"init", "create", "undo"} => Entry(t) \in Range(fl_hash)
  /\ tx[t].pc \in {"create", "undo"} =>
       Active(tx[t].id) /\ node[tx[t].id].da = tx[t].da
Makers == Alone /\ \A t \in Threads : Stage(t)

\* The station of a ring is the same everywhere.
Stationed(i) ==
  /\ Active(i) =>
       node[i].da \in Stations /\ [da |-> node[i].da, id |-> i] \in Range(fl_hash)
  /\ Has(i) => dongle[i] = node[i].da
  /\ \A k \in 1..Len(h2d) : h2d[k] \in Creates(i) => h2d[k].da = node[i].da

\* The DPC knows the id it works on.
DpcAt ==
  /\ dpc.pc # "idle" => dpc.id \in Ids
  /\ dpc.pc = "peer" => dpc.da \in Stations
  /\ dpc.pc = "all" => dpc.da = NoStation
  /\ dpc.pc = "delete" => node[dpc.id].da \in Stations

\* multi_client_flow_rings counts the chain.
Entering == {t \in Threads : At(t, "init")}
Counted == multi_client_flow_rings + Cardinality(Entering) = Len(fl_hash)

\* The events: one about a station names it.
Notices == {e \in Events : e.type # "LINK" => e.da \in Stations}

\* The records of a node, of a thread and of the DPC.
Nodes == [status : Statuses, active : BOOLEAN, da : Stations \cup {NoStation},
          queue : 0..QueueMax]
Places == {"idle", "check", "admit", "alloc", "insert", "init", "create", "undo",
           "txdata", "status", "schedule", "pend"}
Contexts == [pc : Places, da : Stations \cup {NoStation}, id : Ids \cup {0},
             pend : BOOLEAN]
Works == [pc : {"idle", "list", "free", "kick", "peer", "all", "delete"},
          id : Ids \cup {0}, da : Stations \cup {NoStation}]

Types ==
  /\ fl_hash \in Seq(Entries) /\ idmap \in Seq(Ids)
  /\ multi_client_flow_rings \in Nat
  /\ node \in [Ids -> Nodes]
  /\ inited \subseteq Ids
  /\ flowring_active_list \in Seq(Ids)
  /\ link \in BOOLEAN /\ sta_list \subseteq Stations
  /\ h2d \in Seq(Messages) /\ d2h \in Seq(Responses \cup Notices)
  /\ dongle \in [Ids -> Stations \cup {NoStation}]
  /\ bss \in [up : BOOLEAN, sta : SUBSET Stations]
  /\ tx \in [Threads -> Contexts] /\ dpc \in Works
  /\ frames \in 0..MaxFrames /\ events \in 0..MaxEvents /\ faults \in 0..MaxFaults
  /\ missed \subseteq Stations

Core ==
  /\ Types /\ Chains /\ Makers /\ DpcAt
  /\ \A i \in Ids : Life(i) /\ Single(i) /\ Stationed(i)

IInv == Core /\ Counted

\* The delete of the ring is on the way, or is not needed any more.
Doomed(i) ==
  \/ Removed(i) \/ Refused(i)
  \/ Asked(i) /\ Follows(h2d, Creates(i), Deletes(i))
  \/ Has(i) /\ Some(h2d, Deletes(i))

Scanning == dpc.pc \in {"peer", "all", "delete"}

\* The status of a node, and what a pending delete means.
Status(i) ==
  /\ Active(i) => node[i].status # "CLOSED"
  /\ Listed(i) /\ Active(i) => node[i].status # "CREATE_PENDING"
  /\ Active(i) /\ node[i].status = "DELETE_PENDING" /\ node[i].da \notin missed =>
       /\ \A t \in Threads : Maker(t, i) => tx[t].pc = "undo"
       /\ ~Made(i) => Doomed(i)

\* A ring that is on its way belongs to a station that is there, or was missed.
Wanted ==
  \A t \in Threads :
    tx[t].pc \in {"alloc", "insert", "init", "create"} =>
      tx[t].da \in sta_list \cup missed

\* The station whose rings the DPC looks for has left.
Hunt ==
  /\ Scanning =>
       \/ dpc.da = NoStation /\ sta_list = {}
       \/ dpc.da \in Stations /\ dpc.da \notin sta_list
  /\ dpc.pc = "delete" =>
       /\ ~Spare(dpc.id)
       /\ \A t \in Threads : Maker(t, dpc.id) => tx[t].pc \in {"create", "undo"}
       /\ dpc.da # NoStation => node[dpc.id].da = dpc.da

\* The scan has yet to come to id i.
Ahead(i) ==
  /\ Scanning /\ dpc.id <= i
  /\ \/ dpc.da = node[i].da
     \/ dpc.da = NoStation /\ node[i].status # "CREATE_PENDING"

\* A ring whose station has left is doomed, or the scan will find it.
Left(i) ==
  Active(i) /\ ~Made(i) /\ node[i].da \notin sta_list \cup missed =>
    Doomed(i) \/ Ahead(i)

JInv == Wanted /\ Hunt /\ \A i \in Ids : Status(i) /\ Left(i)

\* A thread that sends, and makes no ring; frames that leave their queue.
Sends(t) ==
  \/ \E da \in Stations : dhd_flowid_find(t, da)
  \/ CheckStatus(t) \/ Admit(t) \/ TxData(t) \/ TxStatus(t) \/ TxSchedule(t)
  \/ TxPend(t)
Drains == Kick \/ dhd_update_txflowrings
Reports == StationJoins \/ StationLeaves \/ LinkChanges

\* Nothing of a node changes but its queue.
NodesKept ==
  /\ node' \in [Ids -> Nodes]
  /\ \A i \in Ids : /\ node'[i].active = node[i].active
                     /\ node'[i].da = node[i].da
                     /\ node'[i].status = node[i].status

\* ... but its queue and its status.
NodesAlike ==
  /\ node' \in [Ids -> Nodes]
  /\ \A i \in Ids : node'[i].active = node[i].active /\ node'[i].da = node[i].da

-----------------------------------------------------------------------------
(* Sequences *)

\* A message that is appended.
LEMMA Appended ==
  ASSUME NEW S, NEW s \in Seq(S), NEW e \in S, NEW M, NEW N
  PROVE  /\ Append(s, e) \in Seq(S)
         /\ Some(Append(s, e), M) <=> Some(s, M) \/ e \in M
         /\ Once(s, M) /\ (e \in M => ~Some(s, M)) => Once(Append(s, e), M)
         /\ Ordered(s, M, N) /\ (e \in M => e \notin N /\ ~Some(s, N))
              => Ordered(Append(s, e), M, N)
         /\ Follows(Append(s, e), M, N) <=>
              Follows(s, M, N) \/ (Some(s, M) /\ e \in N)
<1> DEFINE r == Append(s, e)
<1>1. /\ r \in Seq(S) /\ Len(r) = Len(s) + 1 /\ r[Len(s) + 1] = e
      /\ \A k \in 1..Len(s) : r[k] = s[k]
      /\ Len(s) \in Nat
  BY AppendProperties
<1> HIDE DEF r
<1>2. \A k \in 1..Len(r) : k \in 1..Len(s) \/ k = Len(s) + 1
  BY <1>1
<1>3. \A k \in 1..Len(s) : k \in 1..Len(r) /\ k # Len(s) + 1 /\ k < Len(s) + 1
  BY <1>1
<1>4. Len(s) + 1 \in 1..Len(r)
  BY <1>1
<1>5. Some(r, M) <=> Some(s, M) \/ e \in M
  BY <1>1, <1>2, <1>3, <1>4 DEF Some
<1>6. Once(s, M) /\ (e \in M => ~Some(s, M)) => Once(r, M)
  BY <1>1, <1>2, <1>3, <1>4 DEF Some, Once
<1>7. ASSUME Ordered(s, M, N), e \in M => e \notin N /\ ~Some(s, N)
      PROVE  Ordered(r, M, N)
  BY <1>1, <1>2, <1>3, <1>4, <1>7 DEF Some, Ordered
<1>8. Follows(r, M, N) <=> Follows(s, M, N) \/ (Some(s, M) /\ e \in N)
  <2>1. ASSUME Follows(r, M, N) PROVE Follows(s, M, N) \/ (Some(s, M) /\ e \in N)
    <3>1. PICK k, l \in 1..Len(r) : r[k] \in M /\ r[l] \in N /\ k < l
      BY <2>1 DEF Follows
    <3>2. k \in 1..Len(s)
      BY <1>1, <3>1
    <3>3. CASE l \in 1..Len(s)
      BY <1>1, <3>1, <3>2, <3>3 DEF Follows
    <3>4. CASE l = Len(s) + 1
      BY <1>1, <3>1, <3>2, <3>4 DEF Some
    <3>5. QED
      BY <1>2, <3>3, <3>4
  <2>2. ASSUME Follows(s, M, N) PROVE Follows(r, M, N)
    <3>1. PICK k, l \in 1..Len(s) : s[k] \in M /\ s[l] \in N /\ k < l
      BY <2>2 DEF Follows
    <3>2. QED
      BY <1>1, <1>3, <3>1 DEF Follows
  <2>3. ASSUME Some(s, M), e \in N PROVE Follows(r, M, N)
    <3>1. PICK k \in 1..Len(s) : s[k] \in M
      BY <2>3 DEF Some
    <3>2. QED
      BY <1>1, <1>3, <1>4, <2>3, <3>1 DEF Follows
  <2>4. QED
    BY <2>1, <2>2, <2>3
<1>9. QED
  BY <1>1, <1>5, <1>6, <1>7, <1>8 DEF r

\* A message that is taken from the head.
LEMMA Taken ==
  ASSUME NEW S, NEW s \in Seq(S), s # << >>, NEW M, NEW N
  PROVE  /\ Head(s) \in S /\ Tail(s) \in Seq(S)
         /\ Some(s, M) <=> Head(s) \in M \/ Some(Tail(s), M)
         /\ Once(s, M) => Once(Tail(s), M) /\ (Head(s) \in M => ~Some(Tail(s), M))
         /\ Ordered(s, M, N) =>
              Ordered(Tail(s), M, N) /\ (Head(s) \in N => ~Some(s, M))
         /\ Follows(s, M, N) =>
              Follows(Tail(s), M, N) \/ (Head(s) \in M /\ Some(Tail(s), N))
<1> DEFINE r == Tail(s)
           h == Head(s)
<1>1. /\ h \in S /\ r \in Seq(S) /\ h = s[1]
      /\ Len(s) \in Nat /\ Len(s) >= 1 /\ Len(r) = Len(s) - 1
      /\ \A k \in 1..Len(r) : r[k] = s[k + 1]
  BY HeadTailProperties
<1> HIDE DEF r, h
<1>2. 1 \in 1..Len(s) /\ \A k \in 1..Len(r) : k + 1 \in 1..Len(s) /\ k + 1 # 1 /\ 1 < k + 1
  BY <1>1
<1>3. \A k \in 1..Len(s) : k = 1 \/ (k - 1 \in 1..Len(r) /\ s[k] = r[k - 1])
  BY <1>1
<1>4. \A k, l \in 1..Len(r) : (k + 1 = l + 1 => k = l) /\ (k + 1 < l + 1 => k < l)
  BY <1>1
<1>5. Some(s, M) <=> h \in M \/ Some(r, M)
  <2>1. ASSUME Some(s, M) PROVE h \in M \/ Some(r, M)
    BY <1>1, <1>3, <2>1 DEF Some
  <2>2. ASSUME h \in M \/ Some(r, M) PROVE Some(s, M)
    BY <1>1, <1>2, <2>2 DEF Some
  <2>3. QED
    BY <2>1, <2>2
<1>6. Once(s, M) => Once(r, M) /\ (h \in M => ~Some(r, M))
  BY <1>1, <1>2, <1>4 DEF Some, Once
<1>7. ASSUME Ordered(s, M, N) PROVE Ordered(r, M, N) /\ (h \in N => ~Some(s, M))
  <2>1. Ordered(r, M, N)
    BY <1>1, <1>2, <1>4, <1>7 DEF Ordered
  <2>2. \A k \in 1..Len(s) : ~(k < 1)
    BY <1>1
  <2>3. QED
    BY <1>1, <1>2, <1>7, <2>1, <2>2 DEF Some, Ordered
<1>8. ASSUME Follows(s, M, N) PROVE Follows(r, M, N) \/ (h \in M /\ Some(r, N))
  <2>1. PICK k, l \in 1..Len(s) : s[k] \in M /\ s[l] \in N /\ k < l
    BY <1>8 DEF Follows
  <2>2. l - 1 \in 1..Len(r) /\ s[l] = r[l - 1]
    BY <1>1, <2>1
  <2>3. CASE k = 1
    BY <1>1, <2>1, <2>2, <2>3 DEF Some
  <2>4. CASE k # 1
    <3>1. k - 1 \in 1..Len(r) /\ s[k] = r[k - 1] /\ k - 1 < l - 1
      BY <1>1, <2>1, <2>4
    <3>2. QED
      BY <2>1, <2>2, <3>1 DEF Follows
  <2>5. QED
    BY <2>3, <2>4
<1>9. QED
  BY <1>1, <1>5, <1>6, <1>7, <1>8 DEF r, h

\* An id that is put in front, taken from the head, or removed.
LEMMA Prepended ==
  ASSUME NEW S, NEW s \in Seq(S), NEW e \in S, IsInjective(s), e \notin Range(s)
  PROVE  /\ <<e>> \o s \in Seq(S) /\ IsInjective(<<e>> \o s)
         /\ Range(<<e>> \o s) = Range(s) \cup {e}
<1> DEFINE r == <<e>> \o s
<1>1. <<e>> \in Seq(S) /\ Len(<<e>>) = 1 /\ <<e>>[1] = e
  OBVIOUS
<1>2. /\ r \in Seq(S) /\ Len(s) \in Nat /\ Len(r) = 1 + Len(s)
      /\ \A k \in 1..(1 + Len(s)) : r[k] = IF k <= 1 THEN <<e>>[k] ELSE s[k - 1]
  BY <1>1, ConcatProperties
<1>3. r[1] = e /\ \A k \in 1..Len(r) : k = 1 \/ (k - 1 \in 1..Len(s) /\ r[k] = s[k - 1])
  BY <1>1, <1>2
<1>4. \A k \in 1..Len(s) : k + 1 \in 1..Len(r) /\ r[k + 1] = s[k]
  BY <1>1, <1>2
<1>5. DOMAIN s = 1..Len(s) /\ DOMAIN r = 1..Len(r) /\ 1 \in 1..Len(r)
  BY <1>2
<1> HIDE DEF r
<1>6. IsInjective(r)
  <2> SUFFICES ASSUME NEW k \in 1..Len(r), NEW l \in 1..Len(r), r[k] = r[l]
               PROVE  k = l
    BY <1>5 DEF IsInjective
  <2>1. CASE k = 1
    BY <1>3, <1>5, <2>1 DEF Range
  <2>2. CASE l = 1
    BY <1>3, <1>5, <2>2 DEF Range
  <2>3. CASE k # 1 /\ l # 1
    <3>1. k - 1 = l - 1
      BY <1>3, <1>5, <2>3 DEF IsInjective
    <3>2. QED
      BY <1>2, <3>1
  <2>4. QED
    BY <2>1, <2>2, <2>3
<1>7. Range(r) = Range(s) \cup {e}
  <2>1. Range(r) \subseteq Range(s) \cup {e}
    BY <1>3, <1>5 DEF Range
  <2>2. Range(s) \subseteq Range(r)
    BY <1>4, <1>5 DEF Range
  <2>3. e \in Range(r)
    BY <1>3, <1>5 DEF Range
  <2>4. QED
    BY <2>1, <2>2, <2>3
<1>8. QED
  BY <1>2, <1>6, <1>7 DEF r

LEMMA Popped ==
  ASSUME NEW S, NEW s \in Seq(S), s # << >>, IsInjective(s)
  PROVE  /\ Head(s) \in S /\ Tail(s) \in Seq(S) /\ IsInjective(Tail(s))
         /\ Head(s) \in Range(s) /\ Range(Tail(s)) = Range(s) \ {Head(s)}
<1> DEFINE r == Tail(s)
           h == Head(s)
<1>1. /\ h \in S /\ r \in Seq(S) /\ h = s[1]
      /\ Len(s) \in Nat /\ Len(s) >= 1 /\ Len(r) = Len(s) - 1
      /\ \A k \in 1..Len(r) : r[k] = s[k + 1]
  BY HeadTailProperties
<1>2. DOMAIN s = 1..Len(s) /\ DOMAIN r = 1..Len(r)
  BY <1>1
<1> HIDE DEF r, h
<1>3. 1 \in 1..Len(s) /\ \A k \in 1..Len(r) : k + 1 \in 1..Len(s) /\ k + 1 # 1
  BY <1>1
<1>4. \A k \in 1..Len(s) : k = 1 \/ (k - 1 \in 1..Len(r) /\ s[k] = r[k - 1])
  BY <1>1
<1>5. \A k, l \in 1..Len(r) : k + 1 = l + 1 => k = l
  BY <1>1
<1>6. IsInjective(r)
  BY <1>1, <1>2, <1>3, <1>5 DEF IsInjective
<1>7. h \in Range(s)
  BY <1>1, <1>2, <1>3 DEF Range
<1>8. Range(r) \subseteq Range(s) \ {h}
  BY <1>1, <1>2, <1>3 DEF Range, IsInjective
<1>9. Range(s) \ {h} \subseteq Range(r)
  BY <1>1, <1>2, <1>4 DEF Range
<1>10. QED
  BY <1>1, <1>6, <1>7, <1>8, <1>9 DEF r, h

LEMMA Dropped ==
  ASSUME NEW S, NEW s \in Seq(S), NEW n \in 1..Len(s)
  PROVE  /\ RemoveAt(s, n) \in Seq(S)
         /\ Len(RemoveAt(s, n)) = Len(s) - 1
         /\ \A k \in 1..(Len(s) - 1) :
              RemoveAt(s, n)[k] = IF k < n THEN s[k] ELSE s[k + 1]
<1> DEFINE p == SubSeq(s, 1, n - 1)
           q == SubSeq(s, n + 1, Len(s))
<1>1. Len(s) \in Nat /\ \A k \in 1..Len(s) : s[k] \in S
  OBVIOUS
<1>2. /\ p \in Seq(S) /\ Len(p) = n - 1
      /\ \A k \in 1..(n - 1) : p[k] = s[k]
  <2>1. \A k \in 1..(n - 1) : s[k] \in S
    BY <1>1
  <2>2. /\ p \in Seq(S) /\ Len(p) = IF 1 <= n - 1 THEN n - 1 - 1 + 1 ELSE 0
        /\ \A k \in 1..(n - 1 - 1 + 1) : p[k] = s[1 + k - 1]
    BY <1>1, <2>1, SubSeqProperties
  <2> HIDE DEF p
  <2>3. QED
    BY <1>1, <2>2
<1>3. /\ q \in Seq(S) /\ Len(q) = Len(s) - n
      /\ \A k \in 1..(Len(s) - n) : q[k] = s[n + k]
  <2>1. \A k \in (n + 1)..Len(s) : s[k] \in S
    BY <1>1
  <2>2. /\ q \in Seq(S)
        /\ Len(q) = IF n + 1 <= Len(s) THEN Len(s) - (n + 1) + 1 ELSE 0
        /\ \A k \in 1..(Len(s) - (n + 1) + 1) : q[k] = s[n + 1 + k - 1]
    BY <1>1, <2>1, SubSeqProperties
  <2> HIDE DEF q
  <2>3. QED
    BY <1>1, <2>2
<1> HIDE DEF p, q
<1>4. /\ p \o q \in Seq(S) /\ Len(p \o q) = Len(p) + Len(q)
      /\ \A k \in 1..(Len(p) + Len(q)) :
           (p \o q)[k] = IF k <= Len(p) THEN p[k] ELSE q[k - Len(p)]
  BY <1>2, <1>3, ConcatProperties
<1> DEFINE r == p \o q
<1>5. RemoveAt(s, n) = r
  BY DEF RemoveAt, p, q
<1> HIDE DEF r
<1>6. r \in Seq(S) /\ Len(r) = Len(s) - 1
  BY <1>1, <1>2, <1>3, <1>4 DEF r
<1>7. ASSUME NEW k \in 1..(Len(s) - 1)
      PROVE  r[k] = IF k < n THEN s[k] ELSE s[k + 1]
  <2>1. r[k] = IF k <= Len(p) THEN p[k] ELSE q[k - Len(p)]
    BY <1>1, <1>2, <1>3, <1>4 DEF r
  <2>2. CASE k < n
    BY <1>1, <1>2, <2>1, <2>2
  <2>3. CASE ~(k < n)
    <3>1. q[k - Len(p)] = s[n + (k - Len(p))] /\ n + (k - Len(p)) = k + 1
      BY <1>1, <1>2, <1>3, <2>3
    <3>2. QED
      BY <1>1, <1>2, <2>1, <2>3, <3>1
  <2>4. QED
    BY <2>2, <2>3
<1>8. QED
  BY <1>5, <1>6, <1>7

\* Where the elements that stay were: a renumbering that leaves out n.
Up(n, k) == IF k < n THEN k ELSE k + 1

LEMMA UpRenumbers ==
  ASSUME NEW N \in Nat, NEW n \in 1..N
  PROVE  /\ \A k \in 1..(N - 1) : Up(n, k) \in 1..N /\ Up(n, k) # n
         /\ \A k, l \in 1..(N - 1) : Up(n, k) = Up(n, l) => k = l
         /\ \A m \in 1..N : m # n => \E k \in 1..(N - 1) : Up(n, k) = m
<1>1. \A k \in 1..(N - 1) : Up(n, k) \in 1..N /\ Up(n, k) # n
  BY DEF Up
<1>2. \A k, l \in 1..(N - 1) : Up(n, k) = Up(n, l) => k = l
  BY DEF Up
<1>3. ASSUME NEW m \in 1..N, m # n PROVE \E k \in 1..(N - 1) : Up(n, k) = m
  <2>1. CASE m < n
    <3>1. m \in 1..(N - 1) /\ Up(n, m) = m
      BY <2>1 DEF Up
    <3>2. QED
      BY <3>1
  <2>2. CASE ~(m < n)
    <3>1. m - 1 \in 1..(N - 1) /\ Up(n, m - 1) = m
      BY <1>3, <2>2 DEF Up
    <3>2. QED
      BY <3>1
  <2>3. QED
    BY <2>1, <2>2
<1>4. QED
  BY <1>1, <1>2, <1>3

LEMMA Kept ==
  ASSUME NEW S, NEW s \in Seq(S), NEW n \in 1..Len(s)
  PROVE  /\ RemoveAt(s, n) \in Seq(S) /\ Len(RemoveAt(s, n)) = Len(s) - 1
         /\ DOMAIN RemoveAt(s, n) = 1..(Len(s) - 1)
         /\ \A k \in 1..(Len(s) - 1) :
              /\ Up(n, k) \in 1..Len(s) /\ Up(n, k) # n
              /\ RemoveAt(s, n)[k] = s[Up(n, k)]
         /\ \A k, l \in 1..(Len(s) - 1) : Up(n, k) = Up(n, l) => k = l
         /\ \A m \in 1..Len(s) : m # n =>
              \E k \in 1..(Len(s) - 1) : RemoveAt(s, n)[k] = s[m]
<1> DEFINE r == RemoveAt(s, n)
<1>1. Len(s) \in Nat
  OBVIOUS
<1>2. r \in Seq(S) /\ Len(r) = Len(s) - 1
  BY Dropped
<1>3. \A k \in 1..(Len(s) - 1) : r[k] = s[Up(n, k)]
  BY Dropped DEF Up
<1> HIDE DEF r
<1>4. DOMAIN r = 1..(Len(s) - 1)
  BY <1>2
<1>5. /\ \A k \in 1..(Len(s) - 1) : Up(n, k) \in 1..Len(s) /\ Up(n, k) # n
      /\ \A k, l \in 1..(Len(s) - 1) : Up(n, k) = Up(n, l) => k = l
      /\ \A m \in 1..Len(s) : m # n => \E k \in 1..(Len(s) - 1) : Up(n, k) = m
  BY <1>1, UpRenumbers
<1>6. \A m \in 1..Len(s) : m # n => \E k \in 1..(Len(s) - 1) : r[k] = s[m]
  BY <1>3, <1>5
<1>7. QED
  BY <1>2, <1>3, <1>4, <1>5, <1>6 DEF r

LEMMA Without ==
  ASSUME NEW S, NEW s \in Seq(S), NEW n \in 1..Len(s), IsInjective(s)
  PROVE  /\ RemoveAt(s, n) \in Seq(S) /\ IsInjective(RemoveAt(s, n))
         /\ Range(RemoveAt(s, n)) = Range(s) \ {s[n]}
<1> DEFINE r == RemoveAt(s, n)
           last == Len(s) - 1
<1>1. /\ r \in Seq(S) /\ DOMAIN r = 1..last
      /\ \A k \in 1..last :
           Up(n, k) \in 1..Len(s) /\ Up(n, k) # n /\ r[k] = s[Up(n, k)]
      /\ \A k, l \in 1..last : Up(n, k) = Up(n, l) => k = l
      /\ \A m \in 1..Len(s) : m # n => \E k \in 1..last : r[k] = s[m]
  BY Kept
<1>2. DOMAIN s = 1..Len(s) /\ \A k, l \in 1..Len(s) : s[k] = s[l] => k = l
  BY DEF IsInjective
<1> HIDE DEF r, last
<1>3. \A k, l \in 1..last : r[k] = r[l] => k = l
  BY <1>1, <1>2
<1>4. IsInjective(r)
  BY <1>1, <1>3 DEF IsInjective
<1>5. Range(r) \subseteq Range(s) \ {s[n]}
  BY <1>1, <1>2 DEF Range
<1>6. Range(s) \ {s[n]} \subseteq Range(r)
  BY <1>1, <1>2 DEF Range
<1>7. QED
  BY <1>1, <1>4, <1>5, <1>6 DEF r

\* dll_delete takes a ring off the active list.
LEMMA Delisted ==
  ASSUME NEW S, NEW s \in Seq(S), NEW e, IsInjective(s)
  PROVE  /\ RemoveFirst(s, e) \in Seq(S) /\ IsInjective(RemoveFirst(s, e))
         /\ Range(RemoveFirst(s, e)) = Range(s) \ {e}
<1>1. Len(s) \in Nat /\ DOMAIN s = 1..Len(s)
  OBVIOUS
<1>2. CASE ~\E k \in 1..Len(s) : s[k] = e
  <2>1. RemoveFirst(s, e) = s
    BY <1>2 DEF RemoveFirst
  <2>2. e \notin Range(s)
    BY <1>1, <1>2 DEF Range
  <2>3. QED
    BY <2>1, <2>2
<1>3. CASE \E k \in 1..Len(s) : s[k] = e
  <2>1. PICK n \in 1..Len(s) : s[n] = e
    BY <1>3
  <2>2. {k \in 1..Len(s) : s[k] = e} = {n}
    BY <1>1, <2>1 DEF IsInjective
  <2>3. Min({n}) = n
    BY DEF Min
  <2>4. SelectInSeq(s, LAMBDA v : v = e) = n
    BY <2>2, <2>3 DEF SelectInSeq
  <2>5. RemoveFirst(s, e) = RemoveAt(s, n)
    BY <1>3, <2>4 DEF RemoveFirst
  <2>6. /\ RemoveAt(s, n) \in Seq(S) /\ IsInjective(RemoveAt(s, n))
        /\ Range(RemoveAt(s, n)) = Range(s) \ {s[n]}
    BY <2>1, Without
  <2>7. QED
    BY <2>1, <2>5, <2>6
<1>4. QED
  BY <1>2, <1>3

\* dhd_flowid_free unlinks the one entry of an id.
LEMMA Unlinked ==
  ASSUME NEW S, NEW s \in Seq(S), NEW n \in 1..Len(s),
         \A k, l \in 1..Len(s) : s[k].id = s[l].id => k = l
  PROVE  LET r == RemoveAt(s, n)
         IN  /\ r \in Seq(S) /\ Len(r) = Len(s) - 1
             /\ \A k, l \in 1..Len(r) : r[k].id = r[l].id => k = l
             /\ \A k \in 1..Len(r) : r[k].id # s[n].id /\ r[k] \in Range(s)
             /\ \A m \in 1..Len(s) : s[m].id # s[n].id =>
                  \E k \in 1..Len(r) : r[k] = s[m]
<1>1. Len(s) \in Nat /\ DOMAIN s = 1..Len(s)
  OBVIOUS
<1> DEFINE r == RemoveAt(s, n)
<1>2. /\ r \in Seq(S) /\ Len(r) = Len(s) - 1
      /\ \A k \in 1..(Len(s) - 1) :
           Up(n, k) \in 1..Len(s) /\ Up(n, k) # n /\ r[k] = s[Up(n, k)]
      /\ \A k, l \in 1..(Len(s) - 1) : Up(n, k) = Up(n, l) => k = l
      /\ \A m \in 1..Len(s) : m # n => \E k \in 1..(Len(s) - 1) : r[k] = s[m]
  BY Kept
<1> HIDE DEF r
<1>3. ASSUME NEW k \in 1..Len(r), NEW l \in 1..Len(r), r[k].id = r[l].id
      PROVE  k = l
  <2> DEFINE a == Up(n, k)
             b == Up(n, l)
  <2>1. a \in 1..Len(s) /\ b \in 1..Len(s) /\ s[a].id = s[b].id
    BY <1>2, <1>3
  <2> HIDE DEF a, b
  <2>2. a = b
    BY <2>1
  <2>3. QED
    BY <1>2, <2>2 DEF a, b
<1>4. ASSUME NEW k \in 1..Len(r) PROVE r[k].id # s[n].id /\ r[k] \in Range(s)
  <2> DEFINE a == Up(n, k)
  <2>1. a \in 1..Len(s) /\ a # n /\ r[k] = s[a]
    BY <1>2
  <2> HIDE DEF a
  <2>2. QED
    BY <1>1, <2>1 DEF Range
<1>5. \A m \in 1..Len(s) : s[m].id # s[n].id => \E k \in 1..Len(r) : r[k] = s[m]
  BY <1>2
<1>6. QED
  BY <1>2, <1>3, <1>4, <1>5 DEF r

\* A set of naturals has a smallest element.
LEMMA MinNat ==
  ASSUME NEW S \in SUBSET Nat, S # {}
  PROVE  Min(S) \in S /\ \A y \in S : Min(S) <= y
<1> DEFINE R == {p \in Nat \X Nat : p[1] < p[2]}
<1>1. IsWellFoundedOn(R, Nat)
  BY NatLessThanWellFounded DEF OpToRel
<1> HIDE DEF R
<1>2. PICK x \in S : \A y \in S : <<y, x>> \notin R
  BY <1>1, WFMin
<1>3. \A y \in S : x <= y
  <2> SUFFICES ASSUME NEW y \in S, y < x PROVE FALSE
    OBVIOUS
  <2>1. <<y, x>> \in Nat \X Nat /\ <<y, x>>[1] < <<y, x>>[2]
    OBVIOUS
  <2>2. <<y, x>> \in R
    BY <2>1 DEF R
  <2>3. QED
    BY <1>2, <2>2
<1>4. QED
  BY <1>2, <1>3 DEF Min

-----------------------------------------------------------------------------
(* Messages *)

\* A request concerns one id.
LEMMA RequestKinds ==
  ASSUME NEW m \in Messages, NEW x \in Ids
  PROVE  /\ m.id \in Ids /\ m.da \in Stations \cup {NoStation}
         /\ m.type = "create" \/ m.type = "delete"
         /\ m \in Creates(x) <=> m.type = "create" /\ m.id = x
         /\ m \in Deletes(x) <=> m.type = "delete" /\ m.id = x
BY DEF Messages, Creates, Deletes

\* A response concerns one id, an event none.
LEMMA ResponseKinds ==
  ASSUME NEW r \in Responses \cup Notices, NEW x \in Ids
  PROVE  /\ r.type \in {"created", "deleted"} => r.id \in Ids /\ r.ok \in BOOLEAN
         /\ r.type \notin {"created", "deleted"} =>
              r.da \in Stations \cup {NoStation} /\ r.up \in BOOLEAN
         /\ r \in Answers(x) <=> r.type = "created" /\ r.id = x
         /\ r \in Refusals(x) <=> r.type = "created" /\ r.id = x /\ ~r.ok
         /\ r \in Removals(x) <=> r.type = "deleted" /\ r.id = x /\ r.ok
<1>1. CASE r \in Responses
  BY <1>1 DEF Responses, Answers, Refusals, Removals
<1>2. CASE r \in Notices
  <2>1. r.type \notin {"created", "deleted"} /\ r.da \in Stations \cup {NoStation}
        /\ r.up \in BOOLEAN
    BY <1>2 DEF Notices, Events
  <2>2. r \notin Answers(x) /\ r \notin Refusals(x) /\ r \notin Removals(x)
    BY <2>1 DEF Answers, Refusals, Removals
  <2>3. QED
    BY <2>1, <2>2
<1>3. QED
  BY <1>1, <1>2

\* dhd_prot_flow_ring_create writes its request ...
LEMMA PostCreate ==
  ASSUME Types, NEW i \in Ids, NEW da \in Stations \cup {NoStation}, NEW x \in Ids,
         h2d' = Append(h2d, [type |-> "create", id |-> i, da |-> da])
  PROVE  /\ h2d' \in Seq(Messages)
         /\ Asked(x)' <=> Asked(x) \/ x = i
         /\ Once(h2d, Creates(x)) /\ (x = i => ~Asked(x)) => Once(h2d, Creates(x))'
         /\ Some(h2d, Deletes(x))' <=> Some(h2d, Deletes(x))
         /\ Follows(h2d, Creates(x), Deletes(x))' <=>
              Follows(h2d, Creates(x), Deletes(x))
<1> DEFINE m == [type |-> "create", id |-> i, da |-> da]
<1>1. m \in Messages /\ m.type = "create" /\ m.id = i
  BY DEF Messages
<1>2. (m \in Creates(x) <=> x = i) /\ m \notin Deletes(x)
  BY <1>1, RequestKinds
<1>3. h2d \in Seq(Messages) /\ h2d' = Append(h2d, m)
  BY DEF Types
<1> HIDE DEF m
<1>4. /\ h2d' \in Seq(Messages)
      /\ Asked(x)' <=> Asked(x) \/ m \in Creates(x)
      /\ Once(h2d, Creates(x)) /\ (m \in Creates(x) => ~Asked(x)) =>
           Once(h2d, Creates(x))'
  BY <1>1, <1>3, Appended DEF Asked
<1>5. Some(h2d, Deletes(x))' <=> Some(h2d, Deletes(x)) \/ m \in Deletes(x)
  BY <1>1, <1>3, Appended
<1>6. Follows(h2d, Creates(x), Deletes(x))' <=>
        \/ Follows(h2d, Creates(x), Deletes(x))
        \/ Some(h2d, Creates(x)) /\ m \in Deletes(x)
  BY <1>1, <1>3, Appended
<1>7. QED
  BY <1>2, <1>4, <1>5, <1>6

\* ... and dhd_bus_flow_ring_delete_request its own.
LEMMA PostDelete ==
  ASSUME Types, NEW i \in Ids, NEW x \in Ids,
         h2d' = Append(h2d, [type |-> "delete", id |-> i, da |-> NoStation])
  PROVE  /\ h2d' \in Seq(Messages)
         /\ Asked(x)' <=> Asked(x)
         /\ Once(h2d, Creates(x)) => Once(h2d, Creates(x))'
         /\ Some(h2d, Deletes(x))' <=> Some(h2d, Deletes(x)) \/ x = i
         /\ Follows(h2d, Creates(x), Deletes(x))' <=>
              Follows(h2d, Creates(x), Deletes(x)) \/ (Asked(x) /\ x = i)
<1> DEFINE m == [type |-> "delete", id |-> i, da |-> NoStation]
<1>1. m \in Messages /\ m.type = "delete" /\ m.id = i
  BY DEF Messages
<1>2. (m \in Deletes(x) <=> x = i) /\ m \notin Creates(x)
  BY <1>1, RequestKinds
<1>3. h2d \in Seq(Messages) /\ h2d' = Append(h2d, m)
  BY DEF Types
<1> HIDE DEF m
<1>4. /\ h2d' \in Seq(Messages)
      /\ Asked(x)' <=> Asked(x) \/ m \in Creates(x)
      /\ Once(h2d, Creates(x)) /\ (m \in Creates(x) => ~Asked(x)) =>
           Once(h2d, Creates(x))'
  BY <1>1, <1>3, Appended DEF Asked
<1>5. Some(h2d, Deletes(x))' <=> Some(h2d, Deletes(x)) \/ m \in Deletes(x)
  BY <1>1, <1>3, Appended
<1>6. Follows(h2d, Creates(x), Deletes(x))' <=>
        \/ Follows(h2d, Creates(x), Deletes(x))
        \/ Asked(x) /\ m \in Deletes(x)
  BY <1>1, <1>3, Appended DEF Asked
<1>7. QED
  BY <1>2, <1>4, <1>5, <1>6

\* The dongle takes a request.
LEMMA TakeRequest ==
  ASSUME Types, h2d # << >>, h2d' = Tail(h2d), NEW x \in Ids
  PROVE  LET m == Head(h2d)
             asks == m.type = "create" /\ m.id = x
         IN  /\ m \in Messages /\ h2d' \in Seq(Messages)
             /\ Asked(x) <=> asks \/ Asked(x)'
             /\ Once(h2d, Creates(x)) =>
                  Once(h2d, Creates(x))' /\ (asks => ~Asked(x)')
             /\ Some(h2d, Deletes(x)) <=>
                  (m.type = "delete" /\ m.id = x) \/ Some(h2d, Deletes(x))'
             /\ Follows(h2d, Creates(x), Deletes(x)) =>
                  \/ Follows(h2d, Creates(x), Deletes(x))'
                  \/ asks /\ Some(h2d, Deletes(x))'
<1>1. h2d \in Seq(Messages)
  BY DEF Types
<1>2. Head(h2d) \in Messages
  BY <1>1, Taken
<1> DEFINE m == Head(h2d)
<1>3. /\ m \in Creates(x) <=> m.type = "create" /\ m.id = x
      /\ m \in Deletes(x) <=> m.type = "delete" /\ m.id = x
  BY <1>2, RequestKinds
<1>4. QED
  BY <1>1, <1>2, <1>3, Taken DEF Asked

\* The dongle writes into the completion ring.
LEMMA Deliver ==
  ASSUME Types, NEW r \in Responses \cup Notices, d2h' = Append(d2h, r), NEW x \in Ids
  PROVE  /\ d2h' \in Seq(Responses \cup Notices)
         /\ Answered(x)' <=> Answered(x) \/ r \in Answers(x)
         /\ Refused(x)' <=> Refused(x) \/ r \in Refusals(x)
         /\ Removed(x)' <=> Removed(x) \/ r \in Removals(x)
         /\ Once(d2h, Answers(x)) /\ (r \in Answers(x) => ~Answered(x)) =>
              Once(d2h, Answers(x))'
         /\ Once(d2h, Removals(x)) /\ (r \in Removals(x) => ~Removed(x)) =>
              Once(d2h, Removals(x))'
         /\ /\ Ordered(d2h, Answers(x), Removals(x))
            /\ r \in Answers(x) => ~Removed(x)
            => Ordered(d2h, Answers(x), Removals(x))'
<1>1. d2h \in Seq(Responses \cup Notices)
  BY DEF Types
<1>2. r \in Answers(x) => r \notin Removals(x)
  BY ResponseKinds
<1>3. /\ d2h' \in Seq(Responses \cup Notices)
      /\ Answered(x)' <=> Answered(x) \/ r \in Answers(x)
      /\ Once(d2h, Answers(x)) /\ (r \in Answers(x) => ~Answered(x)) =>
           Once(d2h, Answers(x))'
  BY <1>1, Appended DEF Answered
<1>4. Refused(x)' <=> Refused(x) \/ r \in Refusals(x)
  BY <1>1, Appended DEF Refused
<1>5. /\ Removed(x)' <=> Removed(x) \/ r \in Removals(x)
      /\ Once(d2h, Removals(x)) /\ (r \in Removals(x) => ~Removed(x)) =>
           Once(d2h, Removals(x))'
  BY <1>1, Appended DEF Removed
<1>6. /\ Ordered(d2h, Answers(x), Removals(x))
      /\ r \in Answers(x) => ~Removed(x)
      => Ordered(d2h, Answers(x), Removals(x))'
  BY <1>1, <1>2, Appended DEF Removed
<1>7. QED
  BY <1>3, <1>4, <1>5, <1>6

\* The DPC takes what is at its head.
LEMMA Receive ==
  ASSUME Types, d2h # << >>, d2h' = Tail(d2h), NEW x \in Ids
  PROVE  LET r == Head(d2h)
         IN  /\ r \in Responses \cup Notices /\ d2h' \in Seq(Responses \cup Notices)
             /\ Answered(x) <=> r \in Answers(x) \/ Answered(x)'
             /\ Refused(x) <=> r \in Refusals(x) \/ Refused(x)'
             /\ Removed(x) <=> r \in Removals(x) \/ Removed(x)'
             /\ Once(d2h, Answers(x)) =>
                  Once(d2h, Answers(x))' /\ (r \in Answers(x) => ~Answered(x)')
             /\ Once(d2h, Removals(x)) =>
                  Once(d2h, Removals(x))' /\ (r \in Removals(x) => ~Removed(x)')
             /\ Ordered(d2h, Answers(x), Removals(x)) =>
                  /\ Ordered(d2h, Answers(x), Removals(x))'
                  /\ r \in Removals(x) => ~Answered(x)
<1>1. d2h \in Seq(Responses \cup Notices)
  BY DEF Types
<1>2. QED
  BY <1>1, Taken DEF Answered, Refused, Removed

\* A refusal is an answer.
LEMMA RefusedAnswered ==
  ASSUME NEW x PROVE (Refused(x) => Answered(x)) /\ (Refused(x)' => Answered(x)')
<1>1. Refusals(x) \subseteq Answers(x)
  BY DEF Refusals, Answers
<1>2. QED
  BY <1>1 DEF Refused, Answered, Some

-----------------------------------------------------------------------------
(* Types *)

\* What a step of a thread does to its context, and to no other.
LEMMA Moves ==
  ASSUME Types, NEW t \in Threads, NEW p \in Places, Goto(t, p)
  PROVE  /\ tx' \in [Threads -> Contexts]
         /\ \A u \in Threads : u # t => tx'[u] = tx[u]
         /\ tx'[t].pc = p /\ tx'[t].da = tx[t].da /\ tx'[t].id = tx[t].id
BY DEF Types, Goto, Contexts

LEMMA Stops ==
  ASSUME Types, NEW t \in Threads, Done(t)
  PROVE  /\ tx' \in [Threads -> Contexts]
         /\ \A u \in Threads : u # t => tx'[u] = tx[u]
         /\ tx'[t].pc = "idle"
<1>1. Idle \in Contexts /\ Idle.pc = "idle"
  BY DEF Idle, Contexts, Places
<1>2. QED
  BY <1>1 DEF Types, Done

\* dhd_flowid_find returns an id or 0.
LEMMA FindType == ASSUME Types, NEW da PROVE Find(da) \in Ids \cup {0}
<1> DEFINE I == {k \in 1..Len(fl_hash) : fl_hash[k].da = da}
<1>1. fl_hash \in Seq(Entries)
  BY DEF Types
<1>2. \A k \in 1..Len(fl_hash) : fl_hash[k].id \in Ids
  <2>1. \A k \in 1..Len(fl_hash) : fl_hash[k] \in Entries
    BY <1>1
  <2>2. QED
    BY <2>1 DEF Entries
<1>3. I \in SUBSET Nat /\ I \subseteq 1..Len(fl_hash)
  BY <1>1
<1>4. SelectInSeq(fl_hash, LAMBDA e : e.da = da) = IF I # {} THEN Min(I) ELSE 0
  BY DEF SelectInSeq
<1> HIDE DEF I
<1>5. CASE I = {}
  BY <1>4, <1>5 DEF Find
<1>6. CASE I # {}
  <2>1. Min(I) \in I
    BY <1>3, <1>6, MinNat
  <2> DEFINE m == Min(I)
  <2>2. m \in I
    BY <2>1
  <2> HIDE DEF m
  <2>3. m # 0 /\ fl_hash[m].id \in Ids
    BY <1>1, <1>2, <2>2 DEF I
  <2>4. QED
    BY <1>4, <1>6, <2>3 DEF Find, m
<1>7. QED
  BY <1>5, <1>6

\* Frames enter and leave a queue.
LEMMA Enqueue ==
  ASSUME Types, NEW i \in Ids, node' = Enqueued(i)
  PROVE  NodesKept
<1>1. node \in [Ids -> Nodes] /\ node[i].queue \in 0..QueueMax
  BY DEF Types, Nodes
<1>2. CASE Full(i)
  BY <1>1, <1>2 DEF Enqueued, NodesKept
<1>3. CASE ~Full(i)
  <2>1. node[i].queue + 1 \in 0..QueueMax
    BY <1>1, <1>3, FlowAssumption DEF Full
  <2>2. node' = [node EXCEPT ![i].queue = node[i].queue + 1]
    BY <1>3 DEF Enqueued
  <2>3. QED
    BY <1>1, <2>1, <2>2 DEF NodesKept, Nodes
<1>4. QED
  BY <1>2, <1>3

LEMMA Schedule ==
  ASSUME Types, NEW i \in Ids, dhd_bus_schedule_queue(i)
  PROVE  NodesKept
<1>1. CASE UNCHANGED node
  BY <1>1 DEF Types, NodesKept
<1>2. CASE \E left \in 0..node[i].queue : node' = [node EXCEPT ![i].queue = left]
  <2>1. PICK left \in 0..node[i].queue : node' = [node EXCEPT ![i].queue = left]
    BY <1>2
  <2>2. left \in 0..QueueMax
    BY FlowAssumption, <2>1 DEF Types, Nodes
  <2>3. QED
    BY <2>1, <2>2 DEF Types, Nodes, NodesKept
<1>3. QED
  BY <1>1, <1>2 DEF dhd_bus_schedule_queue

\* A thread that sends.
LEMMA SendsShape ==
  ASSUME Types, Makers, NEW t \in Threads, Sends(t)
  PROVE  /\ UNCHANGED <<table, inited, flowring_active_list, link, sta_list, h2d,
                        d2h, dongle, bss, events, dpc, faults, missed>>
         /\ frames' \in 0..MaxFrames
         /\ NodesKept
         /\ tx' \in [Threads -> Contexts]
         /\ \A u \in Threads : u # t => tx'[u] = tx[u]
         /\ tx[t].pc \notin Making /\ tx'[t].pc \notin Making
         /\ tx'[t].pc # "idle" => tx'[t].da \in Stations
         /\ tx'[t].pc \notin {"idle", "admit", "alloc"} => tx'[t].id \in Ids
         /\ tx'[t].pc = "alloc" => tx'[t].da \in sta_list
<1> USE DEF table, host, wire, device, counts, At, Making
<1>1. UNCHANGED node => NodesKept
  BY DEF Types, NodesKept
<1>2. tx[t].pc # "idle" => tx[t].da \in Stations
  BY DEF Makers, Stage
<1>3. tx[t].pc \notin {"idle", "admit", "alloc"} => tx[t].id \in Ids
  BY DEF Makers, Stage
<1>4. CASE \E da \in Stations : dhd_flowid_find(t, da)
  <2>1. PICK da \in Stations : dhd_flowid_find(t, da)
    BY <1>4
  <2> DEFINE p == IF Find(da) = 0 THEN "admit" ELSE "check"
             r == [pc |-> p, da |-> da, id |-> Find(da), pend |-> FALSE]
  <2>2. r \in Contexts
    BY FindType DEF Contexts, Places
  <2>3. r.pc = p /\ r.da = da /\ r.id = Find(da)
    OBVIOUS
  <2>4. tx' = [tx EXCEPT ![t] = r]
    BY <2>1 DEF dhd_flowid_find
  <2> HIDE DEF r
  <2>5. /\ tx' \in [Threads -> Contexts] /\ tx'[t] = r
        /\ \A u \in Threads : u # t => tx'[u] = tx[u]
    BY <2>2, <2>4 DEF Types
  <2>6. frames' \in 0..MaxFrames
    BY <2>1, FlowAssumption DEF dhd_flowid_find, Types
  <2>7. UNCHANGED node
    BY <2>1 DEF dhd_flowid_find
  <2>8. Find(da) \in Ids \cup {0}
    BY FindType
  <2>9. QED
    BY <1>1, <2>1, <2>3, <2>5, <2>6, <2>7, <2>8 DEF dhd_flowid_find
<1>5. CASE CheckStatus(t) \/ TxStatus(t)
  <2>1. Done(t) \/ Goto(t, "txdata") \/ Goto(t, "schedule")
    BY <1>5 DEF CheckStatus, TxStatus
  <2>2. /\ tx[t].pc \in {"check", "status"} /\ frames' = frames
        /\ UNCHANGED <<node, table, inited, flowring_active_list, link, sta_list,
                       h2d, d2h, dongle, bss, events, dpc, faults, missed>>
    BY <1>5 DEF CheckStatus, TxStatus
  <2>3. "txdata" \in Places /\ "schedule" \in Places
    BY DEF Places
  <2>4. /\ tx' \in [Threads -> Contexts]
        /\ \A u \in Threads : u # t => tx'[u] = tx[u]
        /\ \/ tx'[t].pc = "idle"
           \/ tx'[t].pc \in {"txdata", "schedule"} /\ tx'[t].da = tx[t].da
              /\ tx'[t].id = tx[t].id
    BY <2>1, <2>3, Moves, Stops
  <2>5. QED
    BY <1>1, <1>2, <1>3, <2>2, <2>4 DEF Types
<1>6. CASE Admit(t)
  <2>1. Done(t) \/ (Goto(t, "alloc") /\ tx[t].da \in sta_list)
    BY <1>6 DEF Admit, MayCreate
  <2>2. /\ tx[t].pc = "admit" /\ frames' = frames
        /\ UNCHANGED <<node, table, inited, flowring_active_list, link, sta_list,
                       h2d, d2h, dongle, bss, events, dpc, faults, missed>>
    BY <1>6 DEF Admit
  <2>3. "alloc" \in Places
    BY DEF Places
  <2>4. /\ tx' \in [Threads -> Contexts]
        /\ \A u \in Threads : u # t => tx'[u] = tx[u]
        /\ \/ tx'[t].pc = "idle"
           \/ tx'[t].pc = "alloc" /\ tx'[t].da = tx[t].da /\ tx[t].da \in sta_list
    BY <2>1, <2>3, Moves, Stops
  <2>5. QED
    BY <1>1, <1>2, <2>2, <2>4 DEF Types
<1>7. CASE TxData(t)
  <2>1. /\ tx[t].pc = "txdata" /\ frames' = frames /\ tx[t].id \in Ids
        /\ UNCHANGED <<table, inited, flowring_active_list, link, sta_list,
                       h2d, d2h, dongle, bss, events, dpc, faults, missed>>
    BY <1>3, <1>7 DEF TxData
  <2>2. CASE Done(t) /\ UNCHANGED node
    BY <1>1, <2>1, <2>2, Stops DEF Types
  <2>3. CASE /\ tx' = [tx EXCEPT ![t].pc = "status", ![t].pend = Full(tx[t].id)]
             /\ node' = Enqueued(tx[t].id)
    <3>1. Full(tx[t].id) \in BOOLEAN
      BY DEF Full
    <3>2. /\ tx' \in [Threads -> Contexts]
          /\ \A u \in Threads : u # t => tx'[u] = tx[u]
          /\ tx'[t].pc = "status" /\ tx'[t].da = tx[t].da /\ tx'[t].id = tx[t].id
      BY <2>3, <3>1 DEF Types, Contexts, Places
    <3>3. NodesKept
      BY <2>1, <2>3, Enqueue
    <3>4. QED
      BY <1>2, <1>3, <2>1, <3>2, <3>3 DEF Types
  <2>4. QED
    BY <1>7, <2>2, <2>3 DEF TxData
<1>8. CASE TxSchedule(t)
  <2>1. /\ tx[t].pc = "schedule" /\ frames' = frames /\ tx[t].id \in Ids
        /\ UNCHANGED <<table, inited, flowring_active_list, link, sta_list,
                       h2d, d2h, dongle, bss, events, dpc, faults, missed>>
    BY <1>3, <1>8 DEF TxSchedule
  <2>2. Done(t) \/ Goto(t, "pend")
    BY <1>8 DEF TxSchedule
  <2>3. NodesKept
    BY <1>8, <2>1, Schedule DEF TxSchedule
  <2>4. "pend" \in Places
    BY DEF Places
  <2>5. /\ tx' \in [Threads -> Contexts]
        /\ \A u \in Threads : u # t => tx'[u] = tx[u]
        /\ \/ tx'[t].pc = "idle"
           \/ tx'[t].pc = "pend" /\ tx'[t].da = tx[t].da /\ tx'[t].id = tx[t].id
    BY <2>2, <2>4, Moves, Stops
  <2>6. QED
    BY <1>2, <1>3, <2>1, <2>3, <2>5 DEF Types
<1>9. CASE TxPend(t)
  <2>1. /\ tx[t].pc = "pend" /\ frames' = frames /\ tx[t].id \in Ids
        /\ UNCHANGED <<table, inited, flowring_active_list, link, sta_list,
                       h2d, d2h, dongle, bss, events, dpc, faults, missed>>
    BY <1>3, <1>9 DEF TxPend
  <2>2. NodesKept /\ Done(t)
    BY <1>9, <2>1, Enqueue DEF TxPend
  <2>3. QED
    BY <2>1, <2>2, Stops DEF Types
<1>10. QED
  BY <1>4, <1>5, <1>6, <1>7, <1>8, <1>9 DEF Sends

\* The steps of a thread that makes a ring.
LEMMA AllocShape ==
  ASSUME Types, NEW t \in Threads, AllocId(t)
  PROVE  /\ UNCHANGED <<fl_hash, multi_client_flow_rings, node, inited,
                        flowring_active_list, link, sta_list, h2d, d2h, dongle, bss,
                        events, dpc, frames, faults, missed>>
         /\ tx' \in [Threads -> Contexts]
         /\ \A u \in Threads : u # t => tx'[u] = tx[u]
         /\ tx[t].pc = "alloc"
         /\ \/ tx'[t].pc = "idle" /\ UNCHANGED idmap
            \/ /\ idmap # << >> /\ idmap' = Tail(idmap) /\ Head(idmap) \in Ids
               /\ tx'[t].pc = "insert" /\ tx'[t].id = Head(idmap)
               /\ tx'[t].da = tx[t].da
<1> USE DEF host, wire, device, counts
<1>1. /\ UNCHANGED <<fl_hash, multi_client_flow_rings, node, inited,
                     flowring_active_list, link, sta_list, h2d, d2h, dongle, bss,
                     events, dpc, frames, faults, missed>>
      /\ tx[t].pc = "alloc"
  BY DEF AllocId, At
<1>2. CASE idmap = << >>
  BY <1>1, <1>2, Stops DEF AllocId
<1>3. CASE idmap # << >>
  <2>1. Head(idmap) \in Ids
    BY <1>3 DEF Types
  <2>2. /\ tx' = [tx EXCEPT ![t].pc = "insert", ![t].id = Head(idmap)]
        /\ idmap' = Tail(idmap)
    BY <1>3 DEF AllocId
  <2>3. /\ tx' \in [Threads -> Contexts]
        /\ \A u \in Threads : u # t => tx'[u] = tx[u]
        /\ tx'[t].pc = "insert" /\ tx'[t].id = Head(idmap) /\ tx'[t].da = tx[t].da
    BY <2>1, <2>2 DEF Types, Contexts, Places
  <2>4. QED
    BY <1>1, <1>3, <2>1, <2>2, <2>3
<1>4. QED
  BY <1>2, <1>3

LEMMA InsertShape ==
  ASSUME Types, Makers, NEW t \in Threads, InsertHash(t)
  PROVE  /\ UNCHANGED <<idmap, multi_client_flow_rings, node, inited,
                        flowring_active_list, link, sta_list, h2d, d2h, dongle, bss,
                        events, dpc, frames, faults, missed>>
         /\ tx' \in [Threads -> Contexts]
         /\ \A u \in Threads : u # t => tx'[u] = tx[u]
         /\ tx[t].pc = "insert" /\ tx[t].id \in Ids /\ tx[t].da \in Stations
         /\ tx'[t].pc = "init" /\ tx'[t].da = tx[t].da /\ tx'[t].id = tx[t].id
         /\ fl_hash' = Append(fl_hash, [da |-> tx[t].da, id |-> tx[t].id])
<1> USE DEF host, wire, device, counts
<1>1. Goto(t, "init") /\ "init" \in Places
  BY DEF InsertHash, Places
<1>2. tx[t].pc = "insert"
  BY DEF InsertHash, At
<1>3. tx[t].id \in Ids /\ tx[t].da \in Stations
  BY <1>2 DEF Makers, Stage
<1>4. QED
  BY <1>1, <1>2, <1>3, Moves DEF InsertHash

LEMMA InitShape ==
  ASSUME Types, Makers, NEW t \in Threads, InitNode(t)
  PROVE  /\ UNCHANGED <<fl_hash, idmap, inited,
                        flowring_active_list, link, sta_list, h2d, d2h, dongle, bss,
                        events, dpc, frames, faults, missed>>
         /\ tx' \in [Threads -> Contexts]
         /\ \A u \in Threads : u # t => tx'[u] = tx[u]
         /\ tx[t].pc = "init" /\ tx[t].id \in Ids /\ tx[t].da \in Stations
         /\ tx'[t].pc = "create" /\ tx'[t].da = tx[t].da /\ tx'[t].id = tx[t].id
         /\ multi_client_flow_rings' = multi_client_flow_rings + 1
         /\ node' \in [Ids -> Nodes]
         /\ \A i \in Ids : i # tx[t].id => node'[i] = node[i]
         /\ node'[tx[t].id].active /\ node'[tx[t].id].da = tx[t].da
         /\ node'[tx[t].id].status = "CREATE_PENDING"
<1> USE DEF wire, device, counts
<1>1. Goto(t, "create") /\ "create" \in Places
  BY DEF InitNode, Places
<1>2. tx[t].pc = "init"
  BY DEF InitNode, At
<1>3. tx[t].id \in Ids /\ tx[t].da \in Stations
  BY <1>2 DEF Makers, Stage
<1>4. /\ node' \in [Ids -> Nodes]
      /\ \A i \in Ids : i # tx[t].id => node'[i] = node[i]
      /\ node'[tx[t].id].active /\ node'[tx[t].id].da = tx[t].da
      /\ node'[tx[t].id].status = "CREATE_PENDING"
  <2> DEFINE i == tx[t].id
  <2>1. /\ node' = [node EXCEPT ![i].status = "CREATE_PENDING", ![i].active = TRUE,
                                ![i].da = tx[t].da]
        /\ node \in [Ids -> Nodes] /\ i \in Ids
    BY <1>3 DEF InitNode, Types
  <2> HIDE DEF i
  <2>2. QED
    BY <1>3, <2>1 DEF Nodes, Statuses, i
<1>5. QED
  BY <1>1, <1>2, <1>3, <1>4, Moves DEF InitNode

LEMMA CreateShape ==
  ASSUME Types, Makers, NEW t \in Threads, CreateRequest(t)
  PROVE  /\ UNCHANGED <<table, node, flowring_active_list, link, sta_list, d2h,
                        dongle, bss, events, dpc, frames, missed>>
         /\ tx' \in [Threads -> Contexts]
         /\ \A u \in Threads : u # t => tx'[u] = tx[u]
         /\ tx[t].pc = "create" /\ tx[t].id \in Ids /\ tx[t].da \in Stations
         /\ tx'[t].da = tx[t].da /\ tx'[t].id = tx[t].id
         /\ faults' \in 0..MaxFaults
         /\ \/ /\ inited' = inited \cup {tx[t].id} /\ tx'[t].pc = "txdata"
               /\ h2d' = Append(h2d, [type |-> "create", id |-> tx[t].id,
                                      da |-> node[tx[t].id].da])
            \/ /\ inited' = inited \ {tx[t].id} /\ tx'[t].pc = "undo"
               /\ UNCHANGED h2d
<1> USE DEF device
<1>1. tx[t].pc = "create"
  BY DEF CreateRequest, At
<1>2. tx[t].id \in Ids /\ tx[t].da \in Stations
  BY <1>1 DEF Makers, Stage
<1>3. "txdata" \in Places /\ "undo" \in Places
  BY DEF Places
<1>4. faults' \in 0..MaxFaults
  BY FlowAssumption DEF CreateRequest, Types
<1>5. UNCHANGED <<table, node, flowring_active_list, link, sta_list, d2h,
                  dongle, bss, events, dpc, frames, missed>>
  BY DEF CreateRequest
<1>6. CASE /\ inited' = inited \cup {tx[t].id} /\ Goto(t, "txdata")
           /\ h2d' = Append(h2d, [type |-> "create", id |-> tx[t].id,
                                  da |-> node[tx[t].id].da])
  BY <1>1, <1>2, <1>3, <1>4, <1>5, <1>6, Moves
<1>7. CASE inited' = inited \ {tx[t].id} /\ Goto(t, "undo") /\ UNCHANGED h2d
  BY <1>1, <1>2, <1>3, <1>4, <1>5, <1>7, Moves
<1>8. QED
  BY <1>6, <1>7 DEF CreateRequest

LEMMA UndoShape ==
  ASSUME Types, Makers, NEW t \in Threads, Undo(t)
  PROVE  /\ UNCHANGED <<table, inited, flowring_active_list, link, sta_list, h2d, d2h,
                        dongle, bss, events, dpc, frames, faults, missed>>
         /\ tx' \in [Threads -> Contexts]
         /\ \A u \in Threads : u # t => tx'[u] = tx[u]
         /\ tx[t].pc = "undo" /\ tx[t].id \in Ids /\ tx'[t].pc = "idle"
         /\ node' \in [Ids -> Nodes]
         /\ \A i \in Ids : i # tx[t].id => node'[i] = node[i]
         /\ ~node'[tx[t].id].active /\ node'[tx[t].id].da = node[tx[t].id].da
<1> USE DEF wire, device, counts
<1>1. tx[t].pc = "undo"
  BY DEF Undo, At
<1>2. tx[t].id \in Ids
  BY <1>1 DEF Makers, Stage
<1>3. /\ node' \in [Ids -> Nodes]
      /\ \A i \in Ids : i # tx[t].id => node'[i] = node[i]
      /\ ~node'[tx[t].id].active /\ node'[tx[t].id].da = node[tx[t].id].da
  <2> DEFINE i == tx[t].id
  <2>1. /\ node' = [node EXCEPT ![i].status = "CLOSED", ![i].active = FALSE]
        /\ node \in [Ids -> Nodes] /\ i \in Ids
    BY <1>2 DEF Undo, Types
  <2> HIDE DEF i
  <2>2. QED
    BY <2>1 DEF Nodes, Statuses, i
<1>4. QED
  BY <1>1, <1>2, <1>3, Stops DEF Undo

\* dhd_bus_clean_flow_ring closes one node.
LEMMA CloseShape ==
  ASSUME Types, NEW i \in Ids, CloseNode(i)
  PROVE  /\ node' \in [Ids -> Nodes] /\ dpc' \in Works
         /\ \A k \in Ids : k # i => node'[k] = node[k]
         /\ ~node'[i].active /\ node'[i].da = node[i].da
         /\ dpc'.pc = "list" /\ dpc'.id = i
<1>1. /\ node' \in [Ids -> Nodes]
      /\ \A k \in Ids : k # i => node'[k] = node[k]
      /\ ~node'[i].active /\ node'[i].da = node[i].da
  <2>1. /\ node' = [node EXCEPT ![i].queue = 0, ![i].status = "CLOSED",
                                ![i].active = FALSE]
        /\ node \in [Ids -> Nodes]
    BY DEF CloseNode, Types
  <2>2. 0 \in 0..QueueMax
    BY FlowAssumption
  <2>3. QED
    BY <2>1, <2>2 DEF Nodes, Statuses
<1>2. dpc' \in Works /\ dpc'.pc = "list" /\ dpc'.id = i
  BY DEF CloseNode, Types, Works
<1>3. QED
  BY <1>1, <1>2

-----------------------------------------------------------------------------
(* The frame *)

\* What a variable that is left alone leaves alone.
LEMMA Same ==
  ASSUME NEW x
  PROVE  /\ UNCHANGED idmap => (Spare(x)' <=> Spare(x))
         /\ UNCHANGED fl_hash => (Hashed(x)' <=> Hashed(x))
         /\ UNCHANGED flowring_active_list => (Listed(x)' <=> Listed(x))
         /\ UNCHANGED inited => (Pooled(x)' <=> Pooled(x))
         /\ UNCHANGED node => (Active(x)' <=> Active(x))
         /\ UNCHANGED dongle => (Has(x)' <=> Has(x))
         /\ UNCHANGED tx => (Made(x)' <=> Made(x))
         /\ UNCHANGED dpc => (Cleaned(x)' <=> Cleaned(x)) /\ (Freeing(x)' <=> Freeing(x))
BY DEF Spare, Hashed, Listed, Pooled, Active, Has, Made, Maker, Cleaned, Freeing

LEMMA SameWire ==
  ASSUME NEW x
  PROVE  /\ UNCHANGED h2d =>
              /\ Asked(x)' <=> Asked(x)
              /\ Once(h2d, Creates(x))' <=> Once(h2d, Creates(x))
              /\ Some(h2d, Deletes(x))' <=> Some(h2d, Deletes(x))
              /\ Follows(h2d, Creates(x), Deletes(x))' <=>
                   Follows(h2d, Creates(x), Deletes(x))
         /\ UNCHANGED d2h =>
              /\ Answered(x)' <=> Answered(x)
              /\ Refused(x)' <=> Refused(x)
              /\ Removed(x)' <=> Removed(x)
              /\ Once(d2h, Answers(x))' <=> Once(d2h, Answers(x))
              /\ Once(d2h, Removals(x))' <=> Once(d2h, Removals(x))
              /\ Ordered(d2h, Answers(x), Removals(x))' <=>
                   Ordered(d2h, Answers(x), Removals(x))
BY DEF Asked, Answered, Refused, Removed

\* Which ids a thread is making, after a step of thread t.
LEMMA MadeKept ==
  ASSUME NEW t \in Threads, \A u \in Threads : u # t => tx'[u] = tx[u],
         tx[t].pc \in Making <=> tx'[t].pc \in Making,
         tx[t].pc \in Making => tx'[t].id = tx[t].id, NEW x
  PROVE  Made(x)' <=> Made(x)
BY DEF Made, Maker

LEMMA MadeMore ==
  ASSUME NEW t \in Threads, \A u \in Threads : u # t => tx'[u] = tx[u],
         tx[t].pc \notin Making, tx'[t].pc \in Making, NEW x
  PROVE  Made(x)' <=> Made(x) \/ x = tx'[t].id
BY DEF Made, Maker

LEMMA MadeLess ==
  ASSUME Makers, NEW t \in Threads, \A u \in Threads : u # t => tx'[u] = tx[u],
         tx[t].pc \in Making, tx'[t].pc \notin Making, NEW x
  PROVE  Made(x)' <=> Made(x) /\ x # tx[t].id
BY DEF Makers, Alone, Made, Maker

\* A thread that does nothing, while its ring is left alone.
LEMMA StageKept ==
  ASSUME NEW u \in Threads, Stage(u), tx'[u] = tx[u],
         tx[u].pc \in Making =>
           /\ node'[tx[u].id].active = node[tx[u].id].active
           /\ node'[tx[u].id].da = node[tx[u].id].da,
         tx[u].pc = "insert" =>
           \A k \in 1..Len(fl_hash') : fl_hash'[k].id # tx[u].id,
         tx[u].pc \in Making /\ Entry(u) \in Range(fl_hash) =>
           Entry(u) \in Range(fl_hash')
  PROVE  Stage(u)'
<1> USE DEF Making
<1>1. tx[u].pc = "insert" => ~Hashed(tx[u].id)'
  BY DEF Hashed
<1>2. Entry(u)' = Entry(u)
  BY DEF Entry
<1> HIDE DEF Entry
<1>3. QED
  BY <1>1, <1>2 DEF Stage, Active

LEMMA MakersKept ==
  ASSUME Makers, UNCHANGED <<tx, fl_hash>>,
         \A t \in Threads : tx[t].pc \in Making =>
           /\ node'[tx[t].id].active = node[tx[t].id].active
           /\ node'[tx[t].id].da = node[tx[t].id].da
  PROVE  Makers'
<1>1. Alone'
  BY DEF Makers, Alone
<1>2. ASSUME NEW u \in Threads PROVE Stage(u)'
  <2>1. Stage(u) /\ tx'[u] = tx[u]
    BY DEF Makers
  <2>2. tx[u].pc = "insert" =>
           \A k \in 1..Len(fl_hash') : fl_hash'[k].id # tx[u].id
    BY <2>1 DEF Stage, Hashed
  <2>3. QED
    BY <2>1, <2>2, StageKept
<1>3. QED
  BY <1>1, <1>2 DEF Makers

\* A step that leaves the stations of the rings alone.
LEMMA StationedKept ==
  ASSUME NodesAlike, NEW x \in Ids, Stationed(x), UNCHANGED <<fl_hash, dongle, h2d>>
  PROVE  Stationed(x)'
BY DEF Stationed, NodesAlike, Active, Has

-----------------------------------------------------------------------------
(* The life of the ids: the threads *)

LEMMA SendsStep ==
  ASSUME Core, NEW t \in Threads, Sends(t) PROVE Core'
<1> USE DEF table
<1>1. /\ Types /\ Chains /\ Makers /\ DpcAt
      /\ \A i \in Ids : Life(i) /\ Single(i) /\ Stationed(i)
  BY DEF Core
<1>2. /\ UNCHANGED <<fl_hash, idmap, multi_client_flow_rings, inited,
                     flowring_active_list, link, sta_list, h2d,
                     d2h, dongle, bss, events, dpc, faults, missed>>
      /\ frames' \in 0..MaxFrames
      /\ NodesKept
      /\ tx' \in [Threads -> Contexts]
      /\ \A u \in Threads : u # t => tx'[u] = tx[u]
      /\ tx[t].pc \notin Making /\ tx'[t].pc \notin Making
      /\ tx'[t].pc # "idle" => tx'[t].da \in Stations
      /\ tx'[t].pc \notin {"idle", "admit", "alloc"} => tx'[t].id \in Ids
  BY <1>1, SendsShape
<1>3. NodesAlike /\ \A x \in Ids : Active(x)' <=> Active(x)
  BY <1>2 DEF NodesKept, NodesAlike, Active
<1>4. Types'
  BY <1>1, <1>2 DEF Types, NodesKept
<1>5. Chains' /\ DpcAt'
  BY <1>1, <1>2, <1>3 DEF Chains, DpcAt, NodesAlike
<1>6. Makers'
  <2>1. Alone'
    BY <1>1, <1>2 DEF Makers, Alone
  <2>2. ASSUME NEW u \in Threads PROVE Stage(u)'
    <3>1. CASE u = t
      BY <1>2, <3>1 DEF Stage, Making
    <3>2. CASE u # t
      <4>1. Stage(u) /\ tx'[u] = tx[u]
        BY <1>1, <1>2, <3>2 DEF Makers
      <4>2. tx[u].pc = "insert" =>
              \A k \in 1..Len(fl_hash') : fl_hash'[k].id # tx[u].id
        BY <1>2, <4>1 DEF Stage, Hashed
      <4>3. tx[u].pc \in Making => tx[u].id \in Ids
        BY <4>1 DEF Stage, Making
      <4>4. QED
        BY <1>2, <1>3, <4>1, <4>2, <4>3, StageKept DEF NodesAlike
    <3>3. QED
      BY <3>1, <3>2
  <2>3. QED
    BY <2>1, <2>2 DEF Makers
<1>7. ASSUME NEW x \in Ids PROVE (Life(x) /\ Single(x) /\ Stationed(x))'
  <2>1. Made(x)' <=> Made(x)
    BY <1>2, MadeKept
  <2>2. Life(x)'
    BY <1>1, <1>2, <1>3, <2>1, Same, SameWire
       DEF Life, Free, Young, Closing, Undone, InUse, Calm, Bare
  <2>3. Single(x)'
    BY <1>1, <1>2, SameWire DEF Single
  <2>4. Stationed(x)'
    BY <1>1, <1>2, <1>3, StationedKept
  <2>5. QED
    BY <2>2, <2>3, <2>4
<1>8. QED
  BY <1>4, <1>5, <1>6, <1>7 DEF Core

LEMMA AllocStep ==
  ASSUME Core, NEW t \in Threads, AllocId(t) PROVE Core'
<1>1. /\ Types /\ Chains /\ Makers /\ DpcAt
      /\ \A i \in Ids : Life(i) /\ Single(i) /\ Stationed(i)
  BY DEF Core
<1>2. /\ UNCHANGED <<fl_hash, multi_client_flow_rings, node, inited,
                     flowring_active_list, link, sta_list, h2d, d2h, dongle, bss,
                     events, dpc, frames, faults, missed>>
      /\ tx' \in [Threads -> Contexts]
      /\ \A u \in Threads : u # t => tx'[u] = tx[u]
      /\ tx[t].pc = "alloc"
  BY <1>1, AllocShape
<1>3. NodesAlike
  BY <1>1, <1>2 DEF Types, NodesAlike
<1>4. ASSUME NEW u \in Threads, u # t PROVE Stage(u)'
  <2>1. Stage(u) /\ tx'[u] = tx[u]
    BY <1>1, <1>2, <1>4 DEF Makers
  <2>2. tx[u].pc = "insert" =>
          \A k \in 1..Len(fl_hash') : fl_hash'[k].id # tx[u].id
    BY <1>2, <2>1 DEF Stage, Hashed
  <2>3. QED
    BY <1>2, <2>1, <2>2, StageKept
<1>5. DpcAt' /\ \A x \in Ids : Single(x)' /\ Stationed(x)'
  BY <1>1, <1>2, <1>3, SameWire, StationedKept DEF DpcAt, Single
<1>6. CASE tx'[t].pc = "idle" /\ UNCHANGED idmap
  <2>1. Types' /\ Chains'
    BY <1>1, <1>2, <1>6 DEF Types, Chains
  <2>2. Alone' /\ Stage(t)'
    BY <1>1, <1>2, <1>6 DEF Makers, Alone, Stage, Making
  <2>3. ASSUME NEW x \in Ids PROVE Life(x)'
    <3>1. Made(x)' <=> Made(x)
      BY <1>2, <1>6, MadeKept DEF Making
    <3>2. QED
      BY <1>1, <1>2, <1>6, <3>1, Same, SameWire
         DEF Life, Free, Young, Closing, Undone, InUse, Calm, Bare
  <2>4. QED
    BY <1>4, <1>5, <2>1, <2>2, <2>3 DEF Core, Makers
<1>7. CASE /\ idmap # << >> /\ idmap' = Tail(idmap) /\ Head(idmap) \in Ids
           /\ tx'[t].pc = "insert" /\ tx'[t].id = Head(idmap)
           /\ tx'[t].da = tx[t].da
  <2> DEFINE i == Head(idmap)
  <2>1. /\ Tail(idmap) \in Seq(Ids) /\ IsInjective(Tail(idmap)) /\ i \in Range(idmap)
        /\ Range(Tail(idmap)) = Range(idmap) \ {i}
    BY <1>1, <1>7, Popped DEF Types, Chains
  <2>2. Types' /\ Chains'
    BY <1>1, <1>2, <1>7, <2>1 DEF Types, Chains
  <2>3. Free(i)
    <3>1. Spare(i) /\ Life(i)
      BY <1>1, <1>7, <2>1 DEF Spare
    <3>2. QED
      BY <3>1 DEF Life, Young, Closing, Undone, InUse
  <2>4. Stage(t)'
    <3>1. ~Hashed(i) /\ ~Active(i) /\ tx[t].da \in Stations
      BY <1>1, <1>2, <2>3 DEF Free, Makers, Stage
    <3>2. ~Hashed(tx[t].id)' /\ ~Active(tx[t].id)'
      BY <1>2, <1>7, <3>1 DEF Hashed, Active
    <3>3. QED
      BY <1>7, <3>1, <3>2 DEF Stage
  <2>5. Alone'
    <3>1. \A u \in Threads : tx[u].pc \in Making => tx[u].id # i
      BY <2>3 DEF Free, Made, Maker
    <3>2. QED
      BY <1>1, <1>2, <1>7, <3>1 DEF Makers, Alone
  <2>6. ASSUME NEW x \in Ids PROVE Life(x)'
    <3>1. Made(x)' <=> Made(x) \/ x = i
      BY <1>2, <1>7, MadeMore DEF Making
    <3>2. Spare(x)' <=> Spare(x) /\ x # i
      BY <1>7, <2>1 DEF Spare
    <3>3. CASE x = i
      BY <1>2, <2>3, <3>1, <3>2, <3>3, Same, SameWire
         DEF Life, Free, Young, Calm, Bare
    <3>4. CASE x # i
      BY <1>1, <1>2, <3>1, <3>2, <3>4, Same, SameWire
         DEF Life, Free, Young, Closing, Undone, InUse, Calm, Bare
    <3>5. QED
      BY <3>3, <3>4
  <2>7. QED
    BY <1>4, <1>5, <2>2, <2>4, <2>5, <2>6 DEF Core, Makers
<1>8. QED
  BY <1>1, <1>6, <1>7, AllocShape

LEMMA InsertStep ==
  ASSUME Core, NEW t \in Threads, InsertHash(t) PROVE Core'
<1> DEFINE i == tx[t].id
           e == [da |-> tx[t].da, id |-> tx[t].id]
<1>1. /\ Types /\ Chains /\ Makers /\ DpcAt
      /\ \A k \in Ids : Life(k) /\ Single(k) /\ Stationed(k)
  BY DEF Core
<1>2. /\ UNCHANGED <<idmap, multi_client_flow_rings, node, inited,
                     flowring_active_list, link, sta_list, h2d, d2h, dongle, bss,
                     events, dpc, frames, faults, missed>>
      /\ tx' \in [Threads -> Contexts]
      /\ \A u \in Threads : u # t => tx'[u] = tx[u]
      /\ tx[t].pc = "insert" /\ i \in Ids /\ tx[t].da \in Stations
      /\ tx'[t].pc = "init" /\ tx'[t].da = tx[t].da /\ tx'[t].id = i
      /\ fl_hash' = Append(fl_hash, e)
  BY <1>1, InsertShape
<1>3. e \in Entries /\ e.id = i
  BY <1>2 DEF Entries
<1>4. /\ fl_hash' \in Seq(Entries) /\ Len(fl_hash') = Len(fl_hash) + 1
      /\ Len(fl_hash) \in Nat
      /\ \A k \in 1..Len(fl_hash) : fl_hash'[k] = fl_hash[k]
      /\ fl_hash'[Len(fl_hash) + 1] = e
  BY <1>1, <1>2, <1>3, AppendProperties DEF Types
<1> HIDE DEF e
<1>5. ~Hashed(i) /\ ~Active(i)
  BY <1>1, <1>2 DEF Makers, Stage
<1>6. \A k \in 1..Len(fl_hash') : k \in 1..Len(fl_hash) \/ k = Len(fl_hash) + 1
  BY <1>4
<1>7. \A k \in 1..Len(fl_hash) : k \in 1..Len(fl_hash')
  BY <1>4
<1>8. Len(fl_hash) + 1 \in 1..Len(fl_hash')
  BY <1>4
<1>9. Range(fl_hash') = Range(fl_hash) \cup {e}
  <2>1. DOMAIN fl_hash = 1..Len(fl_hash) /\ DOMAIN fl_hash' = 1..Len(fl_hash')
    BY <1>1, <1>4 DEF Types
  <2>2. Range(fl_hash) \subseteq Range(fl_hash')
    BY <1>4, <1>7, <2>1 DEF Range
  <2>3. e \in Range(fl_hash')
    BY <1>4, <1>8, <2>1 DEF Range
  <2>4. Range(fl_hash') \subseteq Range(fl_hash) \cup {e}
    BY <1>4, <1>6, <2>1 DEF Range
  <2>5. QED
    BY <2>2, <2>3, <2>4
<1>10. Types'
  BY <1>1, <1>2, <1>4 DEF Types
<1>11. Chains'
  <2>1. \A k, l \in 1..Len(fl_hash') : fl_hash'[k].id = fl_hash'[l].id => k = l
    BY <1>1, <1>3, <1>4, <1>5, <1>6 DEF Chains, Hashed
  <2>2. QED
    BY <1>1, <1>2, <2>1 DEF Chains
<1>12. NodesAlike /\ DpcAt'
  BY <1>1, <1>2 DEF Types, NodesAlike, DpcAt
<1>13. Makers'
  <2>1. Alone'
    BY <1>1, <1>2 DEF Makers, Alone, Making
  <2>2. Stage(t)'
    <3>1. Entry(t)' = e
      BY <1>2 DEF Entry, e
    <3>2. ~Active(tx[t].id)'
      BY <1>2, <1>5 DEF Active
    <3>3. QED
      BY <1>2, <1>9, <3>1, <3>2 DEF Stage
  <2>3. ASSUME NEW u \in Threads, u # t PROVE Stage(u)'
    <3>1. Stage(u) /\ tx'[u] = tx[u]
      BY <1>1, <1>2, <2>3 DEF Makers
    <3>2. tx[u].pc = "insert" => tx[u].id # i
      BY <1>1, <1>2, <2>3 DEF Makers, Alone, Making
    <3>3. tx[u].pc = "insert" =>
            \A k \in 1..Len(fl_hash') : fl_hash'[k].id # tx[u].id
      BY <1>3, <1>4, <1>6, <3>1, <3>2 DEF Stage, Hashed
    <3>4. QED
      BY <1>2, <1>9, <3>1, <3>3, StageKept
  <2>4. QED
    BY <2>1, <2>2, <2>3 DEF Makers
<1>14. ASSUME NEW x \in Ids PROVE (Life(x) /\ Single(x) /\ Stationed(x))'
  <2>1. Made(x)' <=> Made(x)
    BY <1>2, MadeKept DEF Making
  <2>2. Hashed(x)' <=> Hashed(x) \/ x = i
    BY <1>3, <1>4, <1>6, <1>7, <1>8 DEF Hashed
  <2>3. Made(i)
    BY <1>2 DEF Made, Maker, Making
  <2>4. Life(x)'
    <3>1. CASE x = i
      BY <1>1, <1>2, <2>1, <2>3, <3>1, Same, SameWire
         DEF Life, Free, Young, Closing, Undone, InUse, Calm, Bare
    <3>2. CASE x # i
      BY <1>1, <1>2, <2>1, <2>2, <3>2, Same, SameWire
         DEF Life, Free, Young, Closing, Undone, InUse, Calm, Bare
    <3>3. QED
      BY <3>1, <3>2
  <2>5. Single(x)'
    BY <1>1, <1>2, SameWire DEF Single
  <2>6. Stationed(x)'
    BY <1>1, <1>2, <1>9 DEF Stationed, Active, Has
  <2>7. QED
    BY <2>4, <2>5, <2>6
<1>15. QED
  BY <1>10, <1>11, <1>12, <1>13, <1>14 DEF Core

LEMMA InitStep ==
  ASSUME Core, NEW t \in Threads, InitNode(t) PROVE Core'
<1> DEFINE i == tx[t].id
<1>1. /\ Types /\ Chains /\ Makers /\ DpcAt
      /\ \A k \in Ids : Life(k) /\ Single(k) /\ Stationed(k)
  BY DEF Core
<1>2. /\ UNCHANGED <<fl_hash, idmap, inited,
                     flowring_active_list, link, sta_list, h2d, d2h, dongle, bss,
                     events, dpc, frames, faults, missed>>
      /\ tx' \in [Threads -> Contexts]
      /\ \A u \in Threads : u # t => tx'[u] = tx[u]
      /\ tx[t].pc = "init" /\ i \in Ids /\ tx[t].da \in Stations
      /\ tx'[t].pc = "create" /\ tx'[t].da = tx[t].da /\ tx'[t].id = i
      /\ multi_client_flow_rings' = multi_client_flow_rings + 1
      /\ node' \in [Ids -> Nodes]
      /\ \A k \in Ids : k # i => node'[k] = node[k]
      /\ node'[i].active /\ node'[i].da = tx[t].da
  BY <1>1, InitShape
<1>3. Entry(t) \in Range(fl_hash) /\ Made(i)
  BY <1>1, <1>2 DEF Makers, Stage, Made, Maker, Making
<1>4. multi_client_flow_rings' \in Nat
  BY <1>1, <1>2 DEF Types
<1>5. Types' /\ Chains' /\ DpcAt'
  <2>1. Types' /\ Chains'
    BY <1>1, <1>2, <1>4 DEF Types, Chains
  <2>2. DpcAt'
    BY <1>1, <1>2 DEF DpcAt
  <2>3. QED
    BY <2>1, <2>2
<1>6. Makers'
  <2>1. Alone'
    BY <1>1, <1>2 DEF Makers, Alone, Making
  <2>2. Stage(t)'
    <3>1. Entry(t)' = Entry(t)
      BY <1>2 DEF Entry
    <3>2. Active(tx[t].id)' /\ node'[tx'[t].id].da = tx'[t].da
      BY <1>2 DEF Active
    <3>3. QED
      BY <1>2, <1>3, <3>1, <3>2 DEF Stage
  <2>3. ASSUME NEW u \in Threads, u # t PROVE Stage(u)'
    <3>1. Stage(u) /\ tx'[u] = tx[u]
      BY <1>1, <1>2, <2>3 DEF Makers
    <3>2. tx[u].pc \in Making => tx[u].id # i /\ tx[u].id \in Ids
      BY <1>1, <1>2, <2>3, <3>1 DEF Makers, Alone, Making, Stage
    <3>3. tx[u].pc = "insert" =>
            \A k \in 1..Len(fl_hash') : fl_hash'[k].id # tx[u].id
      BY <1>2, <3>1 DEF Stage, Hashed
    <3>4. QED
      BY <1>2, <3>1, <3>2, <3>3, StageKept
  <2>4. QED
    BY <2>1, <2>2, <2>3 DEF Makers
<1>7. ASSUME NEW x \in Ids PROVE (Life(x) /\ Single(x) /\ Stationed(x))'
  <2>1. Made(x)' <=> Made(x)
    BY <1>2, MadeKept DEF Making
  <2>2. x # i => (Active(x)' <=> Active(x))
    BY <1>2 DEF Active
  <2>3. Young(i)
    BY <1>1, <1>2, <1>3 DEF Life, Free, Closing, Undone, InUse
  <2>4. Life(x)'
    <3>1. CASE x = i
      BY <1>2, <2>1, <2>3, <3>1, Same, SameWire DEF Life, Young, Calm, Bare
    <3>2. CASE x # i
      BY <1>1, <1>2, <2>1, <2>2, <3>2, Same, SameWire
         DEF Life, Free, Young, Closing, Undone, InUse, Calm, Bare
    <3>3. QED
      BY <3>1, <3>2
  <2>5. Single(x)'
    BY <1>1, <1>2, SameWire DEF Single
  <2>6. Stationed(x)'
    <3>1. CASE x = i
      <4>1. ~Has(x) /\ \A k \in 1..Len(h2d) : h2d[k] \notin Creates(x)
        BY <2>3, <3>1 DEF Young, Calm, Asked, Some
      <4>2. [da |-> node'[x].da, id |-> x] \in Range(fl_hash)
        BY <1>2, <1>3, <3>1 DEF Entry
      <4>3. QED
        BY <1>2, <3>1, <4>1, <4>2 DEF Stationed, Has, Active
    <3>2. CASE x # i
      BY <1>1, <1>2, <3>2 DEF Stationed, Active, Has
    <3>3. QED
      BY <3>1, <3>2
  <2>7. QED
    BY <2>4, <2>5, <2>6
<1>8. QED
  BY <1>5, <1>6, <1>7 DEF Core

LEMMA CreateStep ==
  ASSUME Core, NEW t \in Threads, CreateRequest(t) PROVE Core'
<1> USE DEF table
<1> DEFINE i == tx[t].id
<1>1. /\ Types /\ Chains /\ Makers /\ DpcAt
      /\ \A k \in Ids : Life(k) /\ Single(k) /\ Stationed(k)
  BY DEF Core
<1>2. /\ UNCHANGED <<fl_hash, idmap, multi_client_flow_rings, node,
                     flowring_active_list, link, sta_list, d2h,
                     dongle, bss, events, dpc, frames, missed>>
      /\ tx' \in [Threads -> Contexts]
      /\ \A u \in Threads : u # t => tx'[u] = tx[u]
      /\ tx[t].pc = "create" /\ i \in Ids /\ tx[t].da \in Stations
      /\ tx'[t].da = tx[t].da /\ tx'[t].id = i
      /\ faults' \in 0..MaxFaults
  BY <1>1, CreateShape
<1>3. /\ Entry(t) \in Range(fl_hash) /\ Made(i) /\ Active(i)
      /\ node[i].da = tx[t].da
  BY <1>1, <1>2 DEF Makers, Stage, Made, Maker, Making
<1>4. Young(i)
  BY <1>1, <1>2, <1>3 DEF Life, Free, Closing, Undone, InUse
<1>5. Hashed(i)
  <2>1. DOMAIN fl_hash = 1..Len(fl_hash)
    BY <1>1 DEF Types
  <2>2. PICK k \in 1..Len(fl_hash) : fl_hash[k] = Entry(t)
    BY <1>3, <2>1 DEF Range
  <2>3. QED
    BY <2>2 DEF Hashed, Entry
<1>6. ASSUME NEW u \in Threads, u # t PROVE Stage(u)'
  <2>1. Stage(u) /\ tx'[u] = tx[u]
    BY <1>1, <1>2, <1>6 DEF Makers
  <2>2. tx[u].pc = "insert" =>
          \A k \in 1..Len(fl_hash') : fl_hash'[k].id # tx[u].id
    BY <1>2, <2>1 DEF Stage, Hashed
  <2>3. QED
    BY <1>2, <2>1, <2>2, StageKept
<1>7. Chains' /\ DpcAt'
  BY <1>1, <1>2 DEF Chains, DpcAt
<1>8. CASE /\ inited' = inited \cup {i} /\ tx'[t].pc = "txdata"
           /\ h2d' = Append(h2d, [type |-> "create", id |-> i, da |-> node[i].da])
  <2>1. node[i].da \in Stations \cup {NoStation}
    BY <1>2, <1>3
  <2>2. /\ h2d' \in Seq(Messages)
        /\ \A x \in Ids :
             /\ Asked(x)' <=> Asked(x) \/ x = i
             /\ Once(h2d, Creates(x)) /\ (x = i => ~Asked(x)) => Once(h2d, Creates(x))'
    BY <1>1, <1>2, <1>8, <2>1, PostCreate
  <2>3. Types'
    BY <1>1, <1>2, <1>8, <2>2 DEF Types
  <2>4. Makers'
    <3>1. Alone'
      BY <1>1, <1>2, <1>8 DEF Makers, Alone, Making
    <3>2. Stage(t)'
      BY <1>2, <1>8 DEF Stage
    <3>3. QED
      BY <1>6, <3>1, <3>2 DEF Makers
  <2>5. ASSUME NEW x \in Ids PROVE (Life(x) /\ Single(x) /\ Stationed(x))'
    <3>1. Made(x)' <=> Made(x) /\ x # i
      BY <1>1, <1>2, <1>8, MadeLess DEF Making
    <3>2. Pooled(x)' <=> Pooled(x) /\ x # i
      BY <1>8 DEF Pooled
    <3>3. Life(x)'
      <4>1. CASE x = i
        BY <1>2, <1>3, <1>4, <1>5, <2>2, <3>1, <3>2, <4>1, Same, SameWire
           DEF Life, Young, InUse, Calm, Bare
      <4>2. CASE x # i
        BY <1>1, <1>2, <2>2, <3>1, <3>2, <4>2, Same, SameWire
           DEF Life, Free, Young, Closing, Undone, InUse, Calm, Bare
      <4>3. QED
        BY <4>1, <4>2
    <3>4. Single(x)'
      <4>1. x = i => ~Asked(x)
        BY <1>4 DEF Young, Calm
      <4>2. QED
        BY <1>1, <1>2, <2>2, <4>1, SameWire DEF Single
    <3>5. Stationed(x)'
      <4> DEFINE m == [type |-> "create", id |-> i, da |-> node[i].da]
      <4>1. m \in Messages /\ m.id = i /\ m.da = node[i].da
        BY <1>2, <2>1 DEF Messages
      <4>2. h2d \in Seq(Messages) /\ h2d' = Append(h2d, m)
        BY <1>1, <1>8 DEF Types
      <4>3. m \in Creates(x) => x = i
        BY <4>1, RequestKinds
      <4> HIDE DEF m
      <4>4. \A k \in 1..Len(h2d') :
               (k \in 1..Len(h2d) /\ h2d'[k] = h2d[k]) \/ h2d'[k] = m
        BY <4>1, <4>2
      <4>5. \A k \in 1..Len(h2d') : h2d'[k] \in Creates(x) => h2d'[k].da = node[x].da
        BY <1>1, <4>1, <4>3, <4>4 DEF Stationed
      <4>6. QED
        BY <1>1, <1>2, <4>5 DEF Stationed, Active, Has
    <3>6. QED
      BY <3>3, <3>4, <3>5
  <2>6. QED
    BY <1>7, <2>3, <2>4, <2>5 DEF Core
<1>9. CASE inited' = inited \ {i} /\ tx'[t].pc = "undo" /\ UNCHANGED h2d
  <2>1. Types'
    BY <1>1, <1>2, <1>9 DEF Types
  <2>2. Makers'
    <3>1. Alone'
      BY <1>1, <1>2, <1>9 DEF Makers, Alone, Making
    <3>2. Entry(t)' = Entry(t)
      BY <1>2 DEF Entry
    <3>3. Active(tx[t].id)'
      BY <1>2, <1>3 DEF Active
    <3>4. Stage(t)'
      BY <1>2, <1>3, <1>9, <3>2, <3>3 DEF Stage
    <3>5. QED
      BY <1>6, <3>1, <3>4 DEF Makers
  <2>3. NodesAlike
    BY <1>1, <1>2 DEF Types, NodesAlike
  <2>4. ASSUME NEW x \in Ids PROVE (Life(x) /\ Single(x) /\ Stationed(x))'
    <3>1. Made(x)' <=> Made(x)
      BY <1>2, <1>9, MadeKept DEF Making
    <3>2. Pooled(x)' <=> Pooled(x) \/ x = i
      BY <1>9 DEF Pooled
    <3>3. Life(x)'
      <4>1. CASE x = i
        BY <1>2, <1>4, <1>9, <3>1, <3>2, <4>1, Same, SameWire
           DEF Life, Young, Calm, Bare
      <4>2. CASE x # i
        BY <1>1, <1>2, <1>9, <3>1, <3>2, <4>2, Same, SameWire
           DEF Life, Free, Young, Closing, Undone, InUse, Calm, Bare
      <4>3. QED
        BY <4>1, <4>2
    <3>4. QED
      BY <1>1, <1>2, <1>9, <2>3, <3>3, SameWire, StationedKept DEF Single
  <2>5. QED
    BY <1>7, <2>1, <2>2, <2>4 DEF Core
<1>10. QED
  BY <1>1, <1>8, <1>9, CreateShape

LEMMA UndoStep ==
  ASSUME Core, NEW t \in Threads, Undo(t) PROVE Core'
<1> USE DEF table
<1> DEFINE i == tx[t].id
<1>1. /\ Types /\ Chains /\ Makers /\ DpcAt
      /\ \A k \in Ids : Life(k) /\ Single(k) /\ Stationed(k)
  BY DEF Core
<1>2. /\ UNCHANGED <<fl_hash, idmap, multi_client_flow_rings, inited,
                     flowring_active_list, link, sta_list, h2d, d2h,
                     dongle, bss, events, dpc, frames, faults, missed>>
      /\ tx' \in [Threads -> Contexts]
      /\ \A u \in Threads : u # t => tx'[u] = tx[u]
      /\ tx[t].pc = "undo" /\ i \in Ids /\ tx'[t].pc = "idle"
      /\ node' \in [Ids -> Nodes]
      /\ \A k \in Ids : k # i => node'[k] = node[k]
      /\ ~node'[i].active /\ node'[i].da = node[i].da
  BY <1>1, UndoShape
<1>3. Entry(t) \in Range(fl_hash) /\ Made(i)
  BY <1>1, <1>2 DEF Makers, Stage, Made, Maker, Making
<1>4. Young(i)
  BY <1>1, <1>2, <1>3 DEF Life, Free, Closing, Undone, InUse
<1>5. Hashed(i)
  <2>1. DOMAIN fl_hash = 1..Len(fl_hash)
    BY <1>1 DEF Types
  <2>2. PICK k \in 1..Len(fl_hash) : fl_hash[k] = Entry(t)
    BY <1>3, <2>1 DEF Range
  <2>3. QED
    BY <2>2 DEF Hashed, Entry
<1>6. Types' /\ Chains' /\ DpcAt'
  <2>1. Types' /\ Chains'
    BY <1>1, <1>2 DEF Types, Chains
  <2>2. \A k \in Ids : node'[k].da = node[k].da
    BY <1>2
  <2>3. DpcAt'
    BY <1>1, <1>2, <2>2 DEF DpcAt
  <2>4. QED
    BY <2>1, <2>3
<1>7. Makers'
  <2>1. Alone'
    BY <1>1, <1>2 DEF Makers, Alone, Making
  <2>2. Stage(t)'
    BY <1>2 DEF Stage
  <2>3. ASSUME NEW u \in Threads, u # t PROVE Stage(u)'
    <3>1. Stage(u) /\ tx'[u] = tx[u]
      BY <1>1, <1>2, <2>3 DEF Makers
    <3>2. tx[u].pc \in Making => tx[u].id # i /\ tx[u].id \in Ids
      BY <1>1, <1>2, <2>3, <3>1 DEF Makers, Alone, Making, Stage
    <3>3. tx[u].pc = "insert" =>
            \A k \in 1..Len(fl_hash') : fl_hash'[k].id # tx[u].id
      BY <1>2, <3>1 DEF Stage, Hashed
    <3>4. QED
      BY <1>2, <3>1, <3>2, <3>3, StageKept
  <2>4. QED
    BY <2>1, <2>2, <2>3 DEF Makers
<1>8. ASSUME NEW x \in Ids PROVE (Life(x) /\ Single(x) /\ Stationed(x))'
  <2>1. Made(x)' <=> Made(x) /\ x # i
    BY <1>1, <1>2, MadeLess DEF Making
  <2>2. Active(x)' <=> Active(x) /\ x # i
    BY <1>2 DEF Active
  <2>3. Life(x)'
    <3>1. CASE x = i
      BY <1>2, <1>4, <1>5, <2>1, <2>2, <3>1, Same, SameWire
         DEF Life, Young, Undone, Calm, Bare
    <3>2. CASE x # i
      BY <1>1, <1>2, <2>1, <2>2, <3>2, Same, SameWire
         DEF Life, Free, Young, Closing, Undone, InUse, Calm, Bare
    <3>3. QED
      BY <3>1, <3>2
  <2>4. node'[x].da = node[x].da
    BY <1>2
  <2>5. Stationed(x)'
    BY <1>1, <1>2, <2>2, <2>4 DEF Stationed, Has
  <2>6. QED
    BY <1>1, <1>2, <2>3, <2>5, SameWire DEF Single
<1>9. QED
  BY <1>6, <1>7, <1>8 DEF Core

-----------------------------------------------------------------------------
(* The life of the ids: the DPC and the dongle *)

\* A step that changes no more than queues, statuses, and what says nothing
\* about the life of an id.
LEMMA PlainStep ==
  ASSUME Core, Types', DpcAt', NodesAlike,
         UNCHANGED <<fl_hash, idmap, flowring_active_list, inited, dongle, tx>>,
         \A x \in Ids :
           /\ (Cleaned(x)' <=> Cleaned(x)) /\ (Freeing(x)' <=> Freeing(x))
           /\ (Asked(x)' <=> Asked(x)) /\ (Answered(x)' <=> Answered(x))
           /\ (Refused(x)' <=> Refused(x)) /\ (Removed(x)' <=> Removed(x))
           /\ Single(x)' /\ Stationed(x)'
  PROVE  Core'
<1>1. /\ Types /\ Chains /\ Makers /\ DpcAt
      /\ \A k \in Ids : Life(k) /\ Single(k) /\ Stationed(k)
  BY DEF Core
<1>2. Chains'
  BY <1>1 DEF Chains
<1>3. \A t \in Threads : tx[t].pc \in Making => tx[t].id \in Ids
  BY <1>1 DEF Makers, Stage, Making
<1>4. Makers'
  BY <1>1, <1>3, MakersKept DEF NodesAlike
<1>5. ASSUME NEW x \in Ids PROVE Life(x)'
  <2>1. Active(x)' <=> Active(x)
    BY DEF NodesAlike, Active
  <2>2. QED
    BY <1>1, <2>1, Same
       DEF Life, Free, Young, Closing, Undone, InUse, Calm, Bare
<1>6. QED
  BY <1>2, <1>4, <1>5 DEF Core

\* The DPC takes a message that tells of no ring.
LEMMA ReceivePlain ==
  ASSUME Core, d2h # << >>, d2h' = Tail(d2h), UNCHANGED h2d,
         Head(d2h).type # "created", Head(d2h).type = "deleted" => ~Head(d2h).ok,
         NEW x \in Ids
  PROVE  /\ d2h' \in Seq(Responses \cup Notices)
         /\ (Asked(x)' <=> Asked(x)) /\ (Answered(x)' <=> Answered(x))
         /\ (Refused(x)' <=> Refused(x)) /\ (Removed(x)' <=> Removed(x))
         /\ Single(x)'
<1> DEFINE r == Head(d2h)
<1>1. Types /\ Single(x)
  BY DEF Core
<1>2. r \in Responses \cup Notices
  BY <1>1, Receive
<1>3. r \notin Answers(x) /\ r \notin Refusals(x) /\ r \notin Removals(x)
  BY <1>2, ResponseKinds
<1> HIDE DEF r
<1>4. /\ d2h' \in Seq(Responses \cup Notices)
      /\ Answered(x) <=> r \in Answers(x) \/ Answered(x)'
      /\ Refused(x) <=> r \in Refusals(x) \/ Refused(x)'
      /\ Removed(x) <=> r \in Removals(x) \/ Removed(x)'
      /\ Once(d2h, Answers(x)) => Once(d2h, Answers(x))'
      /\ Once(d2h, Removals(x)) => Once(d2h, Removals(x))'
      /\ Ordered(d2h, Answers(x), Removals(x)) =>
           Ordered(d2h, Answers(x), Removals(x))'
  BY <1>1, Receive DEF r
<1>5. QED
  BY <1>1, <1>3, <1>4, SameWire DEF Single

LEMMA EventStep ==
  ASSUME Core, Assoc \/ Disassoc \/ Link PROVE Core'
<1> USE DEF table, device, counts
<1>1. Types /\ DpcAt /\ \A k \in Ids : Stationed(k)
  BY DEF Core
<1> DEFINE r == Head(d2h)
<1>2. /\ dpc.pc = "idle" /\ d2h # << >> /\ d2h' = Tail(d2h)
      /\ r.type \in {"ASSOC", "DISASSOC", "LINK"}
      /\ UNCHANGED <<fl_hash, idmap, multi_client_flow_rings, node, inited,
                     flowring_active_list, h2d, dongle, bss, events, tx, frames,
                     faults>>
  BY DEF Assoc, Disassoc, Link, Receives
<1>3. r \in Responses \cup Notices
  BY <1>1, <1>2 DEF Types
<1>4. r \in Notices
  BY <1>2, <1>3 DEF Responses
<1>5. /\ r.type # "LINK" => r.da \in Stations
      /\ r.up \in BOOLEAN
  BY <1>4 DEF Notices, Events
<1>6. NodesAlike
  BY <1>1, <1>2 DEF Types, NodesAlike
<1>7. ASSUME NEW x \in Ids
      PROVE  /\ d2h' \in Seq(Responses \cup Notices)
             /\ (Asked(x)' <=> Asked(x)) /\ (Answered(x)' <=> Answered(x))
             /\ (Refused(x)' <=> Refused(x)) /\ (Removed(x)' <=> Removed(x))
             /\ Single(x)' /\ Stationed(x)'
  <2>1. r.type # "created" /\ r.type # "deleted"
    BY <1>2
  <2>2. QED
    BY <1>1, <1>2, <1>6, <2>1, ReceivePlain, StationedKept
<1>8. 1 \in Ids
  BY FlowAssumption DEF Ids
<1>9. d2h' \in Seq(Responses \cup Notices)
  BY <1>7, <1>8
<1>10. /\ sta_list' \subseteq Stations /\ missed' \subseteq Stations
       /\ link' \in BOOLEAN
       /\ dpc' \in Works /\ DpcAt'
       /\ dpc'.pc \notin {"list", "free"}
  <2>1. dpc \in Works /\ sta_list \subseteq Stations /\ missed \subseteq Stations
        /\ link \in BOOLEAN
    BY <1>1 DEF Types
  <2>2. CASE Assoc
    BY <1>1, <1>2, <1>5, <2>1, <2>2 DEF Assoc, Receives, DpcAt
  <2>3. CASE Disassoc
    <3>1. r.da \in Stations
      BY <1>5, <2>3 DEF Disassoc, Receives
    <3>2. /\ sta_list' = sta_list \ {r.da} /\ UNCHANGED link
          /\ dpc' = [pc |-> "peer", id |-> 1, da |-> r.da]
          /\ missed' = missed \cup {r.da} \/ missed' = missed
      BY <2>3 DEF Disassoc
    <3>3. QED
      BY <1>8, <2>1, <3>1, <3>2 DEF DpcAt, Works
  <2>4. CASE Link
    <3>1. link' = r.up
      BY <2>4 DEF Link
    <3>2. CASE r.up
      <4>1. UNCHANGED <<sta_list, dpc, missed>>
        BY <2>4, <3>2 DEF Link
      <4>2. QED
        BY <1>1, <1>2, <1>5, <2>1, <3>1, <4>1 DEF DpcAt
    <3>3. CASE ~r.up
      <4>1. /\ sta_list' = {} /\ dpc' = [pc |-> "all", id |-> 1, da |-> NoStation]
            /\ missed' \subseteq missed \cup Stations
        BY <2>4, <3>3 DEF Link
      <4>2. QED
        BY <1>5, <1>8, <2>1, <3>1, <4>1 DEF DpcAt, Works
    <3>4. QED
      BY <3>2, <3>3
  <2>5. QED
    BY <2>2, <2>3, <2>4
<1>11. Types'
  BY <1>1, <1>2, <1>9, <1>10 DEF Types
<1>12. \A x \in Ids : (Cleaned(x)' <=> Cleaned(x)) /\ (Freeing(x)' <=> Freeing(x))
  BY <1>2, <1>10 DEF Cleaned, Freeing
<1>13. QED
  BY <1>2, <1>6, <1>7, <1>10, <1>11, <1>12, PlainStep

LEMMA DrainsStep ==
  ASSUME Core, Drains PROVE Core'
<1> USE DEF table, wire, device, counts
<1>1. Types /\ DpcAt /\ \A k \in Ids : Single(k) /\ Stationed(k)
  BY DEF Core
<1>2. /\ UNCHANGED <<fl_hash, idmap, multi_client_flow_rings, inited,
                     flowring_active_list, link, sta_list, h2d, d2h, dongle, bss,
                     events, tx, frames, faults, missed>>
  BY DEF Drains, Kick, dhd_update_txflowrings
<1>3. DpcIdle \in Works /\ DpcIdle.pc = "idle"
  BY DEF DpcIdle, Works
<1>4. /\ dpc.pc \in {"kick", "idle"} /\ dpc'.pc = "idle" /\ dpc' \in Works
      /\ NodesKept
  <2>1. CASE Kick
    <3>1. dpc.pc = "kick" /\ dhd_bus_schedule_queue(dpc.id) /\ dpc' = DpcIdle
      BY <2>1 DEF Kick
    <3>2. dpc.id \in Ids
      BY <1>1, <3>1 DEF DpcAt
    <3>3. QED
      BY <1>1, <1>3, <3>1, <3>2, Schedule
  <2>2. CASE dhd_update_txflowrings
    <3>1. PICK i \in Range(flowring_active_list) : dhd_bus_schedule_queue(i)
      BY <2>2 DEF dhd_update_txflowrings
    <3>2. i \in Ids
      BY <1>1, <3>1 DEF Types, Range
    <3>3. dpc.pc = "idle" /\ UNCHANGED dpc /\ dpc \in Works
      BY <1>1, <2>2 DEF dhd_update_txflowrings, Types
    <3>4. QED
      BY <1>1, <3>1, <3>2, <3>3, Schedule
  <2>3. QED
    BY <2>1, <2>2 DEF Drains
<1>5. NodesAlike
  BY <1>4 DEF NodesKept, NodesAlike
<1>6. Types' /\ DpcAt'
  BY <1>1, <1>2, <1>4, <1>5 DEF Types, NodesAlike, DpcAt
<1>7. \A x \in Ids : (Cleaned(x)' <=> Cleaned(x)) /\ (Freeing(x)' <=> Freeing(x))
  BY <1>4 DEF Cleaned, Freeing
<1>8. \A x \in Ids : Single(x)' /\ Stationed(x)'
  BY <1>1, <1>2, <1>5, SameWire, StationedKept DEF Single
<1>9. QED
  BY <1>2, <1>5, <1>6, <1>7, <1>8, SameWire, PlainStep

\* Where the scan goes.
LEMMA ScanShape ==
  ASSUME Core, Scan
  PROVE  /\ UNCHANGED <<fl_hash, idmap, multi_client_flow_rings, node, inited,
                        flowring_active_list, link, sta_list, h2d, d2h, dongle, bss,
                        events, tx, frames, faults, missed>>
         /\ dpc.pc \in {"peer", "all"} /\ dpc.id \in Ids /\ dpc' \in Works /\ DpcAt'
         /\ \/ /\ dpc'.pc = "delete" /\ dpc'.id = dpc.id /\ dpc'.da = dpc.da
               /\ node[dpc.id].active /\ node[dpc.id].status \in Deletable(dpc.pc)
               /\ dpc.pc = "all" \/ node[dpc.id].da = dpc.da
            \/ /\ ~(/\ node[dpc.id].active /\ node[dpc.id].status \in Deletable(dpc.pc)
                    /\ dpc.pc = "all" \/ node[dpc.id].da = dpc.da)
               /\ \/ dpc'.pc = "idle" /\ dpc.id = NumRings
                  \/ /\ dpc'.pc = dpc.pc /\ dpc'.id = dpc.id + 1
                     /\ dpc'.da = dpc.da
<1> USE DEF table, host, wire, device, counts
<1> DEFINE n == node[dpc.id]
           found == /\ n.active /\ n.status \in Deletable(dpc.pc)
                    /\ dpc.pc = "all" \/ n.da = dpc.da
<1>1. UNCHANGED <<fl_hash, idmap, multi_client_flow_rings, node, inited,
                  flowring_active_list, link, sta_list, h2d, d2h, dongle, bss,
                  events, tx, frames, faults, missed>>
  BY DEF Scan
<1>2. /\ dpc.pc \in {"peer", "all"} /\ dpc.id \in Ids /\ dpc \in Works
      /\ DpcAt /\ Stationed(dpc.id)
  BY DEF Scan, DpcAt, Types, Core
<1>3. dpc' = IF found THEN [dpc EXCEPT !.pc = "delete"] ELSE Advance(dpc.id)
  BY DEF Scan
<1> HIDE DEF found
<1>4. CASE found
  <2>1. dpc' = [dpc EXCEPT !.pc = "delete"]
    BY <1>3, <1>4
  <2>2. /\ dpc' \in Works /\ dpc'.pc = "delete" /\ dpc'.id = dpc.id
        /\ dpc'.da = dpc.da
    BY <1>2, <2>1 DEF Works
  <2>3. DpcAt'
    <3>1. Active(dpc.id)
      BY <1>4 DEF found, Active
    <3>2. QED
      BY <1>1, <1>2, <2>2, <3>1 DEF DpcAt, Stationed
  <2>4. QED
    BY <1>1, <1>2, <1>4, <2>2, <2>3 DEF found
<1>5. CASE ~found
  <2>1. dpc' = Advance(dpc.id)
    BY <1>3, <1>5
  <2>2. CASE dpc.id < NumRings
    <3>1. dpc' = [dpc EXCEPT !.id = dpc.id + 1] /\ dpc.id + 1 \in Ids
      BY <1>2, <2>1, <2>2, FlowAssumption DEF Advance, Ids
    <3>2. /\ dpc' \in Works /\ dpc'.pc = dpc.pc /\ dpc'.id = dpc.id + 1
          /\ dpc'.da = dpc.da
      BY <1>2, <3>1 DEF Works
    <3>3. DpcAt'
      BY <1>2, <3>1, <3>2 DEF DpcAt
    <3>4. QED
      BY <1>1, <1>2, <1>5, <3>2, <3>3 DEF found
  <2>3. CASE ~(dpc.id < NumRings)
    <3>1. dpc' = DpcIdle /\ dpc.id = NumRings
      BY <1>2, <2>1, <2>3, FlowAssumption DEF Advance, Ids
    <3>2. dpc' \in Works /\ dpc'.pc = "idle" /\ DpcAt'
      BY <3>1 DEF Works, DpcIdle, DpcAt
    <3>3. QED
      BY <1>1, <1>2, <1>5, <3>1, <3>2 DEF found
  <2>4. QED
    BY <2>2, <2>3
<1>6. QED
  BY <1>4, <1>5

LEMMA ScanStep ==
  ASSUME Core, Scan PROVE Core'
<1>1. Types /\ DpcAt /\ \A k \in Ids : Single(k) /\ Stationed(k)
  BY DEF Core
<1>2. /\ UNCHANGED <<fl_hash, idmap, multi_client_flow_rings, node, inited,
                     flowring_active_list, link, sta_list, h2d, d2h, dongle, bss,
                     events, tx, frames, faults, missed>>
      /\ dpc.pc \in {"peer", "all"} /\ dpc' \in Works /\ DpcAt'
      /\ dpc'.pc \notin {"list", "free"}
  BY ScanShape
<1>3. NodesAlike /\ Types'
  BY <1>1, <1>2 DEF Types, NodesAlike
<1>4. \A x \in Ids : (Cleaned(x)' <=> Cleaned(x)) /\ (Freeing(x)' <=> Freeing(x))
  BY <1>2 DEF Cleaned, Freeing
<1>5. \A x \in Ids : Single(x)' /\ Stationed(x)'
  BY <1>1, <1>2, <1>3, SameWire, StationedKept DEF Single
<1>6. QED
  BY <1>2, <1>3, <1>4, <1>5, SameWire, PlainStep

LEMMA DeleteShape ==
  ASSUME Core, DeleteRequest
  PROVE  /\ UNCHANGED <<fl_hash, idmap, multi_client_flow_rings, inited,
                        flowring_active_list, link, sta_list, d2h, dongle, bss,
                        events, tx, frames>>
         /\ dpc.pc = "delete" /\ dpc.id \in Ids /\ dpc' \in Works /\ DpcAt'
         /\ \/ dpc'.pc = "idle" /\ dpc.id = NumRings
            \/ /\ dpc'.pc \in {"all", "peer"} /\ dpc'.id = dpc.id + 1
               /\ dpc'.da = dpc.da
         /\ NodesAlike
         /\ \A k \in Ids : k # dpc.id => node'[k] = node[k]
         /\ node'[dpc.id].status = "DELETE_PENDING"
         /\ faults' \in 0..MaxFaults /\ missed' \subseteq Stations
         /\ \/ UNCHANGED <<node, h2d, missed>>
            \/ /\ h2d' = Append(h2d, [type |-> "delete", id |-> dpc.id,
                                      da |-> NoStation])
               /\ UNCHANGED missed
            \/ UNCHANGED h2d /\ missed' = missed \cup {node[dpc.id].da}
<1> USE DEF table, device
<1> DEFINE i == dpc.id
<1>1. /\ UNCHANGED <<fl_hash, idmap, multi_client_flow_rings, inited,
                     flowring_active_list, link, sta_list, d2h, dongle, bss,
                     events, tx, frames>>
      /\ dpc.pc = "delete"
  BY DEF DeleteRequest
<1>2. Types /\ DpcAt /\ i \in Ids /\ node[i].da \in Stations
  BY <1>1 DEF Core, DpcAt
<1>3. /\ dpc \in Works /\ node \in [Ids -> Nodes] /\ missed \subseteq Stations
      /\ faults \in 0..MaxFaults
  BY <1>2 DEF Types
<1>4. /\ dpc' \in Works /\ DpcAt'
      /\ \/ dpc'.pc = "idle" /\ i = NumRings
         \/ dpc'.pc \in {"all", "peer"} /\ dpc'.id = i + 1 /\ dpc'.da = dpc.da
  <2>1. CASE i < NumRings
    <3> DEFINE p == IF dpc.da = NoStation THEN "all" ELSE "peer"
    <3>1. dpc' = [dpc EXCEPT !.pc = p, !.id = i + 1] /\ i + 1 \in Ids
      BY <1>2, <2>1, FlowAssumption DEF DeleteRequest, Ids
    <3>2. /\ dpc' \in Works /\ dpc'.pc = p /\ dpc'.id = i + 1 /\ dpc'.da = dpc.da
      BY <1>3, <3>1 DEF Works
    <3>3. DpcAt'
      BY <1>3, <3>1, <3>2 DEF DpcAt, Works
    <3>4. QED
      BY <3>2, <3>3
  <2>2. CASE ~(i < NumRings)
    <3>1. dpc' = DpcIdle /\ i = NumRings
      BY <1>2, <2>2, FlowAssumption DEF DeleteRequest, Ids
    <3>2. dpc' \in Works /\ dpc'.pc = "idle" /\ DpcAt'
      BY <3>1 DEF Works, DpcIdle, DpcAt
    <3>3. QED
      BY <3>1, <3>2
  <2>3. QED
    BY <2>1, <2>2
<1>5. CASE node[i].status = "DELETE_PENDING"
  <2>1. UNCHANGED <<node, h2d, faults, missed>>
    BY <1>5 DEF DeleteRequest
  <2>2. NodesAlike
    BY <1>3, <2>1 DEF NodesAlike
  <2>3. QED
    BY <1>1, <1>2, <1>3, <1>4, <1>5, <2>1, <2>2
<1>6. CASE node[i].status # "DELETE_PENDING"
  <2>1. node' = [node EXCEPT ![i].status = "DELETE_PENDING", ![i].queue = 0]
    BY <1>6 DEF DeleteRequest
  <2>2. 0 \in 0..QueueMax
    BY FlowAssumption
  <2>3. /\ node' \in [Ids -> Nodes]
        /\ \A k \in Ids : k # i => node'[k] = node[k]
        /\ node'[i].active = node[i].active /\ node'[i].da = node[i].da
        /\ node'[i].status = "DELETE_PENDING"
    BY <1>2, <1>3, <2>1, <2>2 DEF Nodes, Statuses
  <2>4. NodesAlike
    BY <2>3 DEF NodesAlike
  <2>5. CASE /\ h2d' = Append(h2d, [type |-> "delete", id |-> i, da |-> NoStation])
             /\ UNCHANGED <<faults, missed>>
    BY <1>1, <1>2, <1>3, <1>4, <2>3, <2>4, <2>5
  <2>6. CASE /\ faults < MaxFaults /\ faults' = faults + 1
             /\ missed' = missed \cup {node[i].da} /\ UNCHANGED h2d
    <3>1. faults' \in 0..MaxFaults
      BY <1>3, <2>6, FlowAssumption
    <3>2. missed' \subseteq Stations
      BY <1>2, <1>3, <2>6
    <3>3. QED
      BY <1>1, <1>2, <1>4, <2>3, <2>4, <2>6, <3>1, <3>2
  <2>7. QED
    BY <1>6, <2>5, <2>6 DEF DeleteRequest
<1>7. QED
  BY <1>5, <1>6

LEMMA DeleteStep ==
  ASSUME Core, DeleteRequest PROVE Core'
<1> DEFINE i == dpc.id
<1>1. Types /\ DpcAt /\ \A k \in Ids : Single(k) /\ Stationed(k)
  BY DEF Core
<1>2. /\ UNCHANGED <<fl_hash, idmap, multi_client_flow_rings, inited,
                     flowring_active_list, link, sta_list, d2h, dongle, bss,
                     events, tx, frames>>
      /\ dpc.pc = "delete" /\ i \in Ids /\ dpc' \in Works /\ DpcAt'
      /\ dpc'.pc \notin {"list", "free"}
      /\ NodesAlike /\ faults' \in 0..MaxFaults /\ missed' \subseteq Stations
  BY DeleteShape
<1>3. \A x \in Ids : (Cleaned(x)' <=> Cleaned(x)) /\ (Freeing(x)' <=> Freeing(x))
  BY <1>2 DEF Cleaned, Freeing
<1>4. CASE UNCHANGED h2d
  <2>1. Types'
    BY <1>1, <1>2, <1>4 DEF Types, NodesAlike
  <2>2. \A x \in Ids : Single(x)' /\ Stationed(x)'
    BY <1>1, <1>2, <1>4, SameWire, StationedKept DEF Single
  <2>3. QED
    BY <1>2, <1>3, <1>4, <2>1, <2>2, SameWire, PlainStep
<1>5. CASE h2d' = Append(h2d, [type |-> "delete", id |-> i, da |-> NoStation])
  <2>1. ASSUME NEW x \in Ids
        PROVE  /\ h2d' \in Seq(Messages) /\ (Asked(x)' <=> Asked(x))
               /\ Once(h2d, Creates(x)) => Once(h2d, Creates(x))'
    BY <1>1, <1>2, <1>5, PostDelete
  <2>2. Types'
    BY <1>1, <1>2, <2>1 DEF Types, NodesAlike
  <2>3. ASSUME NEW x \in Ids
        PROVE  /\ Single(x)' /\ (Answered(x)' <=> Answered(x))
               /\ (Refused(x)' <=> Refused(x)) /\ (Removed(x)' <=> Removed(x))
    BY <1>1, <1>2, <2>1, SameWire DEF Single
  <2>4. ASSUME NEW x \in Ids PROVE Stationed(x)'
    <3> DEFINE m == [type |-> "delete", id |-> i, da |-> NoStation]
    <3>1. m \in Messages /\ m.type = "delete"
      BY <1>2 DEF Messages
    <3>2. h2d \in Seq(Messages) /\ h2d' = Append(h2d, m)
      BY <1>1, <1>5 DEF Types
    <3>3. m \notin Creates(x)
      BY <3>1, RequestKinds
    <3> HIDE DEF m
    <3>4. \A k \in 1..Len(h2d') :
             (k \in 1..Len(h2d) /\ h2d'[k] = h2d[k]) \/ h2d'[k] = m
      BY <3>1, <3>2
    <3>5. \A k \in 1..Len(h2d') : h2d'[k] \in Creates(x) => h2d'[k].da = node[x].da
      BY <1>1, <3>3, <3>4 DEF Stationed
    <3>6. QED
      BY <1>1, <1>2, <3>5 DEF Stationed, Active, Has, NodesAlike
  <2>5. QED
    BY <1>2, <1>3, <2>1, <2>2, <2>3, <2>4, PlainStep
<1>6. QED
  BY <1>4, <1>5, DeleteShape

\* The DPC takes an answer to a create: it was the only one ...
LEMMA AnswerAtHead ==
  ASSUME Core, Receives("created"), d2h' = Tail(d2h), UNCHANGED h2d,
         NEW r, r = Head(d2h), NEW i, i = r.id
  PROVE  /\ i \in Ids /\ r.ok \in BOOLEAN /\ InUse(i) /\ Answered(i)
         /\ Refused(i) <=> ~r.ok
         /\ ~Answered(i)' /\ ~Refused(i)'
         /\ d2h' \in Seq(Responses \cup Notices)
         /\ \A x \in Ids :
              /\ x # i => (Answered(x)' <=> Answered(x))
              /\ x # i => (Refused(x)' <=> Refused(x))
              /\ (Removed(x)' <=> Removed(x)) /\ Single(x)'
<1>1. /\ Types /\ d2h # << >> /\ r.type = "created"
      /\ \A x \in Ids : Life(x) /\ Single(x)
  BY DEF Core, Receives
<1>2. r \in Responses \cup Notices
  BY <1>1 DEF Types
<1>3. i \in Ids /\ r.ok \in BOOLEAN
  <2>1. 1 \in Ids
    BY FlowAssumption DEF Ids
  <2>2. QED
    BY <1>1, <1>2, <2>1, ResponseKinds
<1>4. ASSUME NEW x \in Ids
      PROVE  /\ r \in Answers(x) <=> x = i
             /\ r \in Refusals(x) <=> x = i /\ ~r.ok
             /\ r \notin Removals(x)
  <2>1. /\ r \in Answers(x) <=> r.type = "created" /\ r.id = x
        /\ r \in Refusals(x) <=> r.type = "created" /\ r.id = x /\ ~r.ok
        /\ r \in Removals(x) <=> r.type = "deleted" /\ r.id = x /\ r.ok
    BY <1>2, ResponseKinds
  <2>2. QED
    BY <1>1, <2>1
<1>5. ASSUME NEW x \in Ids
      PROVE  /\ d2h' \in Seq(Responses \cup Notices)
             /\ Answered(x) <=> x = i \/ Answered(x)'
             /\ Refused(x) <=> (x = i /\ ~r.ok) \/ Refused(x)'
             /\ Removed(x) <=> Removed(x)'
             /\ x = i => ~Answered(x)'
             /\ Single(x)'
  <2>1. /\ d2h' \in Seq(Responses \cup Notices)
        /\ Answered(x) <=> r \in Answers(x) \/ Answered(x)'
        /\ Refused(x) <=> r \in Refusals(x) \/ Refused(x)'
        /\ Removed(x) <=> r \in Removals(x) \/ Removed(x)'
        /\ r \in Answers(x) => ~Answered(x)'
        /\ Single(x)'
    BY <1>1, Receive, SameWire DEF Single
  <2>2. QED
    BY <1>4, <2>1
<1>6. Answered(i) /\ ~Answered(i)' /\ ~Refused(i)'
  BY <1>3, <1>5, RefusedAnswered
<1>7. Refused(i) <=> ~r.ok
  BY <1>3, <1>5, <1>6
<1>8. InUse(i)
  BY <1>1, <1>3, <1>6 DEF Life, Free, Young, Closing, Undone, Calm
<1>9. \A x \in Ids :
        /\ x # i => (Answered(x)' <=> Answered(x))
        /\ x # i => (Refused(x)' <=> Refused(x))
        /\ (Removed(x)' <=> Removed(x)) /\ Single(x)'
  BY <1>5
<1>10. d2h' \in Seq(Responses \cup Notices)
  BY <1>3, <1>5
<1>11. QED
  BY <1>3, <1>6, <1>7, <1>8, <1>9, <1>10

\* ... or a removal: the answer to the create came before it.
LEMMA RemovalAtHead ==
  ASSUME Core, Receives("deleted"), d2h' = Tail(d2h), UNCHANGED h2d,
         NEW r, r = Head(d2h), r.ok, NEW i, i = r.id
  PROVE  /\ i \in Ids /\ InUse(i) /\ Removed(i) /\ ~Answered(i)
         /\ ~Removed(i)'
         /\ d2h' \in Seq(Responses \cup Notices)
         /\ \A x \in Ids :
              /\ Answered(x)' <=> Answered(x)
              /\ Refused(x)' <=> Refused(x)
              /\ x # i => (Removed(x)' <=> Removed(x))
              /\ Single(x)'
<1>1. /\ Types /\ d2h # << >> /\ r.type = "deleted"
      /\ \A x \in Ids : Life(x) /\ Single(x)
  BY DEF Core, Receives
<1>2. r \in Responses \cup Notices
  BY <1>1 DEF Types
<1>3. i \in Ids
  <2>1. 1 \in Ids
    BY FlowAssumption DEF Ids
  <2>2. QED
    BY <1>1, <1>2, <2>1, ResponseKinds
<1>4. ASSUME NEW x \in Ids
      PROVE  /\ r \notin Answers(x) /\ r \notin Refusals(x)
             /\ r \in Removals(x) <=> x = i
  <2>1. /\ r \in Answers(x) <=> r.type = "created" /\ r.id = x
        /\ r \in Refusals(x) <=> r.type = "created" /\ r.id = x /\ ~r.ok
        /\ r \in Removals(x) <=> r.type = "deleted" /\ r.id = x /\ r.ok
    BY <1>2, ResponseKinds
  <2>2. QED
    BY <1>1, <2>1
<1>5. ASSUME NEW x \in Ids
      PROVE  /\ d2h' \in Seq(Responses \cup Notices)
             /\ Answered(x) <=> Answered(x)'
             /\ Refused(x) <=> Refused(x)'
             /\ Removed(x) <=> x = i \/ Removed(x)'
             /\ x = i => ~Removed(x)' /\ ~Answered(x)
             /\ Single(x)'
  <2>1. /\ d2h' \in Seq(Responses \cup Notices)
        /\ Answered(x) <=> r \in Answers(x) \/ Answered(x)'
        /\ Refused(x) <=> r \in Refusals(x) \/ Refused(x)'
        /\ Removed(x) <=> r \in Removals(x) \/ Removed(x)'
        /\ r \in Removals(x) => ~Removed(x)' /\ ~Answered(x)
        /\ Single(x)'
    BY <1>1, Receive, SameWire DEF Single
  <2>2. QED
    BY <1>4, <2>1
<1>6. Removed(i) /\ ~Answered(i) /\ ~Removed(i)'
  BY <1>3, <1>5
<1>7. InUse(i)
  BY <1>1, <1>3, <1>6 DEF Life, Free, Young, Closing, Undone, Calm
<1>8. \A x \in Ids :
        /\ Answered(x)' <=> Answered(x)
        /\ Refused(x)' <=> Refused(x)
        /\ x # i => (Removed(x)' <=> Removed(x))
        /\ Single(x)'
  BY <1>5
<1>9. d2h' \in Seq(Responses \cup Notices)
  BY <1>3, <1>5
<1>10. QED
  BY <1>3, <1>6, <1>7, <1>8, <1>9

\* The ring a response tells of is closed.
LEMMA CloseStep ==
  ASSUME Core, NEW i \in Ids, CloseNode(i), dpc.pc = "idle",
         InUse(i), ~Asked(i), ~Has(i), ~Answered(i)', ~Refused(i)', ~Removed(i)',
         d2h' \in Seq(Responses \cup Notices),
         UNCHANGED <<fl_hash, idmap, multi_client_flow_rings, inited,
                     flowring_active_list, link, sta_list, h2d, dongle, bss, events,
                     tx, frames, faults, missed>>,
         \A x \in Ids :
           /\ x # i => (Answered(x)' <=> Answered(x))
           /\ x # i => (Refused(x)' <=> Refused(x))
           /\ x # i => (Removed(x)' <=> Removed(x))
           /\ Single(x)'
  PROVE  Core'
<1>1. /\ Types /\ Chains /\ Makers /\ DpcAt
      /\ \A k \in Ids : Life(k) /\ Single(k) /\ Stationed(k)
  BY DEF Core
<1>2. /\ node' \in [Ids -> Nodes] /\ dpc' \in Works
      /\ \A k \in Ids : k # i => node'[k] = node[k]
      /\ ~node'[i].active /\ node'[i].da = node[i].da
      /\ dpc'.pc = "list" /\ dpc'.id = i
  BY <1>1, CloseShape
<1>3. Types'
  BY <1>1, <1>2 DEF Types
<1>4. Chains' /\ DpcAt'
  BY <1>1, <1>2 DEF Chains, DpcAt
<1>5. Makers'
  <2>1. \A t \in Threads : tx[t].pc \in Making => tx[t].id \in Ids /\ tx[t].id # i
    BY <1>1 DEF Makers, Stage, Making, InUse, Made, Maker
  <2>2. QED
    BY <1>1, <1>2, <2>1, MakersKept
<1>6. ASSUME NEW x \in Ids PROVE (Life(x) /\ Stationed(x))'
  <2>1. /\ ~Cleaned(x) /\ (Cleaned(x)' <=> x = i)
        /\ ~Freeing(x) /\ ~Freeing(x)'
    BY <1>2 DEF Cleaned, Freeing
  <2>2. Active(x)' <=> Active(x) /\ x # i
    BY <1>2 DEF Active
  <2>3. Life(x)'
    <3>1. CASE x = i
      BY <2>1, <2>2, <3>1, Same, SameWire DEF Life, InUse, Closing, Calm
    <3>2. CASE x # i
      BY <1>1, <2>1, <2>2, <3>2, Same, SameWire
         DEF Life, Free, Young, Closing, Undone, InUse, Calm, Bare
    <3>3. QED
      BY <3>1, <3>2
  <2>4. node'[x].da = node[x].da
    BY <1>2
  <2>5. Stationed(x)'
    BY <1>1, <2>2, <2>4 DEF Stationed, Has
  <2>6. QED
    BY <2>3, <2>5
<1>7. QED
  BY <1>3, <1>4, <1>5, <1>6 DEF Core

LEMMA CreateResponseStep ==
  ASSUME Core, CreateResponse PROVE Core'
<1> USE DEF table, device, counts
<1>1. PICK r, i : r = Head(d2h) /\ i = r.id
  OBVIOUS
<1>2. /\ Receives("created") /\ d2h' = Tail(d2h)
      /\ UNCHANGED <<fl_hash, idmap, multi_client_flow_rings, inited, link, sta_list,
                     h2d, dongle, bss, events, tx, frames, faults, missed>>
      /\ dpc.pc = "idle"
  BY DEF CreateResponse, Receives
<1>3. /\ i \in Ids /\ InUse(i) /\ Answered(i)
      /\ Refused(i) <=> ~r.ok
      /\ ~Answered(i)' /\ ~Refused(i)'
      /\ d2h' \in Seq(Responses \cup Notices)
      /\ \A x \in Ids :
           /\ x # i => (Answered(x)' <=> Answered(x))
           /\ x # i => (Refused(x)' <=> Refused(x))
           /\ (Removed(x)' <=> Removed(x)) /\ Single(x)'
  BY <1>1, <1>2, AnswerAtHead
<1>4. CASE ~r.ok
  <2>1. CloseNode(i) /\ UNCHANGED flowring_active_list
    BY <1>1, <1>4 DEF CreateResponse
  <2>2. ~Asked(i) /\ ~Has(i) /\ ~Removed(i)
    BY <1>3, <1>4 DEF InUse
  <2>3. QED
    BY <1>2, <1>3, <2>1, <2>2, CloseStep
<1>5. CASE r.ok
  <2>1. /\ Types /\ Chains /\ Makers /\ DpcAt
        /\ \A k \in Ids : Life(k) /\ Single(k) /\ Stationed(k)
    BY DEF Core
  <2>2. /\ node' = [node EXCEPT ![i].status = "OPEN"]
        /\ flowring_active_list' = <<i>> \o flowring_active_list
        /\ dpc' = [dpc EXCEPT !.pc = "kick", !.id = i]
    BY <1>1, <1>5 DEF CreateResponse
  <2>3. NodesAlike
    BY <1>3, <2>1, <2>2 DEF NodesAlike, Nodes, Statuses, Types
  <2>4. dpc' \in Works /\ dpc'.pc = "kick" /\ dpc'.id = i
    BY <1>3, <2>1, <2>2 DEF Types, Works
  <2>5. ~Listed(i)
    BY <1>3 DEF InUse
  <2>6. /\ flowring_active_list' \in Seq(Ids) /\ IsInjective(flowring_active_list')
        /\ Range(flowring_active_list') = Range(flowring_active_list) \cup {i}
    BY <1>3, <2>1, <2>2, <2>5, Prepended DEF Types, Chains, Listed
  <2>7. Types'
    BY <1>2, <1>3, <2>1, <2>3, <2>4, <2>6 DEF Types, NodesAlike
  <2>8. Chains' /\ DpcAt'
    BY <1>2, <1>3, <2>1, <2>4, <2>6 DEF Chains, DpcAt
  <2>9. Makers'
    <3>1. \A t \in Threads : tx[t].pc \in Making => tx[t].id \in Ids
      BY <2>1 DEF Makers, Stage, Making
    <3>2. QED
      BY <1>2, <2>1, <2>3, <3>1, MakersKept DEF NodesAlike
  <2>10. ASSUME NEW x \in Ids PROVE Life(x)' /\ Stationed(x)'
    <3>1. ~Cleaned(x) /\ ~Cleaned(x)' /\ ~Freeing(x) /\ ~Freeing(x)'
      BY <1>2, <2>4 DEF Cleaned, Freeing
    <3>2. Active(x)' <=> Active(x)
      BY <2>3 DEF NodesAlike, Active
    <3>3. Listed(x)' <=> Listed(x) \/ x = i
      BY <2>6 DEF Listed
    <3>4. Life(x)'
      <4>1. CASE x = i
        BY <1>2, <1>3, <1>5, <3>1, <3>2, <3>3, <4>1, Same, SameWire
           DEF Life, InUse, Calm
      <4>2. CASE x # i
        BY <1>2, <1>3, <2>1, <3>1, <3>2, <3>3, <4>2, Same, SameWire
           DEF Life, Free, Young, Closing, Undone, InUse, Calm, Bare
      <4>3. QED
        BY <4>1, <4>2
    <3>5. QED
      BY <1>2, <2>1, <2>3, <3>4, StationedKept
  <2>11. QED
    BY <1>3, <2>7, <2>8, <2>9, <2>10 DEF Core
<1>6. QED
  BY <1>4, <1>5

LEMMA DeleteResponseStep ==
  ASSUME Core, DeleteResponse PROVE Core'
<1> USE DEF table, device, counts
<1>1. PICK r, i : r = Head(d2h) /\ i = r.id
  OBVIOUS
<1>2. /\ Receives("deleted") /\ d2h' = Tail(d2h)
      /\ UNCHANGED <<fl_hash, idmap, multi_client_flow_rings, inited,
                     flowring_active_list, link, sta_list,
                     h2d, dongle, bss, events, tx, frames, faults, missed>>
      /\ dpc.pc = "idle" /\ d2h # << >> /\ r.type = "deleted"
  BY <1>1 DEF DeleteResponse, Receives
<1>3. CASE r.ok
  <2>1. /\ i \in Ids /\ InUse(i) /\ Removed(i) /\ ~Answered(i)
        /\ ~Removed(i)'
        /\ d2h' \in Seq(Responses \cup Notices)
        /\ \A x \in Ids :
             /\ Answered(x)' <=> Answered(x)
             /\ Refused(x)' <=> Refused(x)
             /\ x # i => (Removed(x)' <=> Removed(x))
             /\ Single(x)'
    BY <1>1, <1>2, <1>3, RemovalAtHead
  <2>2. CloseNode(i)
    BY <1>1, <1>3 DEF DeleteResponse
  <2>3. ~Asked(i) /\ ~Has(i) /\ ~Refused(i)
    BY <2>1 DEF InUse
  <2>4. QED
    BY <1>2, <2>1, <2>2, <2>3, CloseStep
<1>4. CASE ~r.ok
  <2>1. Types /\ DpcAt /\ \A k \in Ids : Single(k) /\ Stationed(k)
    BY DEF Core
  <2>2. UNCHANGED <<node, dpc>>
    BY <1>1, <1>4 DEF DeleteResponse
  <2>3. NodesAlike
    BY <2>1, <2>2 DEF Types, NodesAlike
  <2>4. ASSUME NEW x \in Ids
        PROVE  /\ d2h' \in Seq(Responses \cup Notices)
               /\ (Asked(x)' <=> Asked(x)) /\ (Answered(x)' <=> Answered(x))
               /\ (Refused(x)' <=> Refused(x)) /\ (Removed(x)' <=> Removed(x))
               /\ Single(x)'
    BY <1>1, <1>2, <1>4, ReceivePlain
  <2>5. 1 \in Ids
    BY FlowAssumption DEF Ids
  <2>6. Types' /\ DpcAt'
    BY <1>2, <2>1, <2>2, <2>4, <2>5 DEF Types, DpcAt
  <2>7. \A x \in Ids : Stationed(x)'
    BY <1>2, <2>1, <2>3, StationedKept
  <2>8. QED
    BY <1>2, <2>2, <2>3, <2>4, <2>6, <2>7, Same, PlainStep
<1>5. QED
  BY <1>3, <1>4

LEMMA CleanListStep ==
  ASSUME Core, CleanList PROVE Core'
<1> USE DEF table, wire, device, counts
<1>1. /\ Types /\ Chains /\ Makers /\ DpcAt
      /\ \A k \in Ids : Life(k) /\ Single(k) /\ Stationed(k)
  BY DEF Core
<1>2. PICK i : i = dpc.id
  OBVIOUS
<1>3. /\ dpc.pc = "list"
      /\ flowring_active_list' = RemoveFirst(flowring_active_list, i)
      /\ inited' = inited \ {i}
      /\ dpc' = [dpc EXCEPT !.pc = "free"]
      /\ UNCHANGED <<fl_hash, idmap, multi_client_flow_rings, node, link, sta_list, h2d,
                     d2h, dongle, bss, events, tx, frames, faults, missed>>
  BY <1>2 DEF CleanList
<1>4. i \in Ids /\ dpc' \in Works /\ dpc'.pc = "free" /\ dpc'.id = i
  BY <1>1, <1>2, <1>3 DEF DpcAt, Types, Works
<1>5. /\ flowring_active_list' \in Seq(Ids) /\ IsInjective(flowring_active_list')
      /\ Range(flowring_active_list') = Range(flowring_active_list) \ {i}
  BY <1>1, <1>3, Delisted DEF Types, Chains
<1>6. NodesAlike /\ Types'
  BY <1>1, <1>3, <1>4, <1>5 DEF Types, NodesAlike
<1>7. Chains' /\ DpcAt'
  BY <1>1, <1>3, <1>4, <1>5 DEF Chains, DpcAt
<1>8. Makers'
  BY <1>1, <1>3, MakersKept
<1>9. ASSUME NEW x \in Ids PROVE Life(x)' /\ Single(x)' /\ Stationed(x)'
  <2>1. /\ Cleaned(x) <=> x = i
        /\ Cleaned(x)' <=> x = i
        /\ ~Freeing(x) /\ (Freeing(x)' <=> x = i)
    BY <1>2, <1>3, <1>4 DEF Cleaned, Freeing
  <2>2. /\ Listed(x)' <=> Listed(x) /\ x # i
        /\ Pooled(x)' <=> Pooled(x) \/ x = i
    BY <1>3, <1>5 DEF Listed, Pooled
  <2>3. Life(x)'
    <3>1. CASE x = i
      BY <1>1, <1>3, <2>1, <2>2, <3>1, Same, SameWire
         DEF Life, Free, Young, Closing, Undone, InUse, Calm, Bare
    <3>2. CASE x # i
      BY <1>1, <1>3, <2>1, <2>2, <3>2, Same, SameWire
         DEF Life, Free, Young, Closing, Undone, InUse, Calm, Bare
    <3>3. QED
      BY <3>1, <3>2
  <2>4. QED
    BY <1>1, <1>3, <1>6, <2>3, SameWire, StationedKept DEF Single
<1>10. QED
  BY <1>6, <1>7, <1>8, <1>9 DEF Core

\* dhd_flowid_free finds the entry.
LEMMA FreeShape ==
  ASSUME Core, dhd_flowid_free, NEW i, i = dpc.id
  PROVE  /\ UNCHANGED <<node, inited, flowring_active_list, link, sta_list, h2d, d2h,
                        dongle, bss, events, tx, frames, faults, missed>>
         /\ dpc.pc = "free" /\ i \in Ids /\ Closing(i)
         /\ dpc' \in Works /\ dpc'.pc = "idle"
         /\ multi_client_flow_rings' = Fewer
         /\ fl_hash' \in Seq(Entries) /\ Len(fl_hash') = Len(fl_hash) - 1
         /\ \A k, l \in 1..Len(fl_hash') : fl_hash'[k].id = fl_hash'[l].id => k = l
         /\ \A k \in 1..Len(fl_hash') :
              fl_hash'[k].id # i /\ fl_hash'[k] \in Range(fl_hash)
         /\ \A m \in 1..Len(fl_hash) : fl_hash[m].id # i =>
              \E k \in 1..Len(fl_hash') : fl_hash'[k] = fl_hash[m]
         /\ idmap' \in Seq(Ids) /\ IsInjective(idmap')
         /\ Range(idmap') = Range(idmap) \cup {i}
<1> USE DEF host, wire, device, counts
<1>1. Types /\ Chains /\ DpcAt /\ \A k \in Ids : Life(k)
  BY DEF Core
<1>2. /\ UNCHANGED <<node, inited, flowring_active_list, link, sta_list, h2d, d2h,
                     dongle, bss, events, tx, frames, faults, missed>>
      /\ dpc.pc = "free" /\ dpc' = DpcIdle
  BY DEF dhd_flowid_free
<1>3. dpc' \in Works /\ dpc'.pc = "idle"
  BY <1>2 DEF DpcIdle, Works
<1>4. i \in Ids /\ Cleaned(i)
  BY <1>1, <1>2 DEF DpcAt, Cleaned
<1>5. Closing(i)
  BY <1>1, <1>4 DEF Life, Free, Young, Undone, InUse
<1>6. PICK n \in 1..Len(fl_hash) : fl_hash[n].id = i
  BY <1>5 DEF Closing, Hashed
<1>7. fl_hash \in Seq(Entries) /\ fl_hash[n] \in Range(fl_hash)
  BY <1>1, <1>6 DEF Types, Range
<1>8. /\ fl_hash' = RemoveFirstMatch(fl_hash, LAMBDA e : e.id = i)
      /\ multi_client_flow_rings' = Fewer
      /\ idmap' = <<i>> \o idmap
  BY <1>6, <1>7 DEF dhd_flowid_free, Released
<1>9. idmap \in Seq(Ids) /\ IsInjective(idmap) /\ i \notin Range(idmap)
  BY <1>1, <1>5 DEF Types, Chains, Closing, Spare
<1>10. /\ idmap' \in Seq(Ids) /\ IsInjective(idmap')
       /\ Range(idmap') = Range(idmap) \cup {i}
  BY <1>4, <1>8, <1>9, Prepended
<1>11. \A k, l \in 1..Len(fl_hash) : fl_hash[k].id = fl_hash[l].id => k = l
  BY <1>1 DEF Chains
<1> DEFINE r == RemoveAt(fl_hash, n)
<1>12. /\ r \in Seq(Entries) /\ Len(r) = Len(fl_hash) - 1
       /\ \A k, l \in 1..Len(r) : r[k].id = r[l].id => k = l
       /\ \A k \in 1..Len(r) : r[k].id # fl_hash[n].id /\ r[k] \in Range(fl_hash)
       /\ \A m \in 1..Len(fl_hash) : fl_hash[m].id # fl_hash[n].id =>
            \E k \in 1..Len(r) : r[k] = fl_hash[m]
  BY <1>6, <1>7, <1>11, Unlinked
<1>13. fl_hash' = r
  <2>1. {k \in 1..Len(fl_hash) : fl_hash[k].id = i} = {n}
    BY <1>6, <1>11
  <2>2. Len(fl_hash) \in Nat /\ n \in Nat /\ n # 0
    BY <1>6, <1>7
  <2>3. Min({n}) = n
    BY <2>2 DEF Min
  <2>4. QED
    BY <1>6, <1>8, <2>1, <2>3 DEF RemoveFirstMatch, SelectInSeq
<1> HIDE DEF r
<1>14. QED
  BY <1>2, <1>3, <1>4, <1>5, <1>6, <1>8, <1>10, <1>12, <1>13

LEMMA FreeStep ==
  ASSUME Core, dhd_flowid_free PROVE Core'
<1>1. /\ Types /\ Chains /\ Makers /\ DpcAt
      /\ \A k \in Ids : Life(k) /\ Single(k) /\ Stationed(k)
  BY DEF Core
<1>2. PICK i : i = dpc.id
  OBVIOUS
<1>3. /\ UNCHANGED <<node, inited, flowring_active_list, link, sta_list, h2d, d2h,
                     dongle, bss, events, tx, frames, faults, missed>>
      /\ dpc.pc = "free" /\ i \in Ids /\ Closing(i)
      /\ dpc' \in Works /\ dpc'.pc = "idle"
      /\ multi_client_flow_rings' = Fewer
      /\ fl_hash' \in Seq(Entries) /\ Len(fl_hash') = Len(fl_hash) - 1
      /\ \A k, l \in 1..Len(fl_hash') : fl_hash'[k].id = fl_hash'[l].id => k = l
      /\ \A k \in 1..Len(fl_hash') :
           fl_hash'[k].id # i /\ fl_hash'[k] \in Range(fl_hash)
      /\ \A m \in 1..Len(fl_hash) : fl_hash[m].id # i =>
           \E k \in 1..Len(fl_hash') : fl_hash'[k] = fl_hash[m]
      /\ idmap' \in Seq(Ids) /\ IsInjective(idmap')
      /\ Range(idmap') = Range(idmap) \cup {i}
  BY <1>2, FreeShape
<1>4. multi_client_flow_rings' \in Nat
  BY <1>1, <1>3 DEF Types, Fewer
<1>5. Types'
  BY <1>1, <1>3, <1>4 DEF Types
<1>6. Chains' /\ DpcAt'
  BY <1>1, <1>3 DEF Chains, DpcAt
<1>7. DOMAIN fl_hash = 1..Len(fl_hash) /\ DOMAIN fl_hash' = 1..Len(fl_hash')
  BY <1>1, <1>3 DEF Types
<1>8. \A e \in Range(fl_hash) : e.id # i => e \in Range(fl_hash')
  BY <1>3, <1>7 DEF Range
<1>9. Makers'
  <2>1. Alone'
    BY <1>1, <1>3 DEF Makers, Alone
  <2>2. ASSUME NEW u \in Threads PROVE Stage(u)'
    <3>1. Stage(u) /\ tx'[u] = tx[u]
      BY <1>1, <1>3 DEF Makers
    <3>2. tx[u].pc \in Making => tx[u].id # i
      BY <1>3 DEF Closing, Made, Maker
    <3>3. tx[u].pc = "insert" =>
            \A k \in 1..Len(fl_hash') : fl_hash'[k].id # tx[u].id
      BY <1>3, <1>7, <3>1 DEF Stage, Hashed, Range
    <3>4. tx[u].pc \in Making /\ Entry(u) \in Range(fl_hash) =>
            Entry(u) \in Range(fl_hash')
      <4>1. Entry(u).id = tx[u].id
        BY DEF Entry
      <4>2. QED
        BY <1>8, <3>2, <4>1
    <3>5. QED
      BY <1>3, <3>1, <3>3, <3>4, StageKept
  <2>3. QED
    BY <2>1, <2>2 DEF Makers
<1>10. ASSUME NEW x \in Ids PROVE Life(x)' /\ Single(x)' /\ Stationed(x)'
  <2>1. /\ Cleaned(x) <=> x = i
        /\ Freeing(x) <=> x = i
        /\ ~Cleaned(x)' /\ ~Freeing(x)'
    BY <1>2, <1>3 DEF Cleaned, Freeing
  <2>2. Spare(x)' <=> Spare(x) \/ x = i
    BY <1>3 DEF Spare
  <2>3. x = i => ~Hashed(x)'
    BY <1>3 DEF Hashed
  <2>4. x # i => (Hashed(x)' <=> Hashed(x))
    <3>1. x # i /\ Hashed(x) => Hashed(x)'
      <4>1. SUFFICES ASSUME x # i, Hashed(x) PROVE Hashed(x)'
        OBVIOUS
      <4>2. PICK m \in 1..Len(fl_hash) : fl_hash[m].id = x
        BY <4>1 DEF Hashed
      <4>3. PICK k \in 1..Len(fl_hash') : fl_hash'[k] = fl_hash[m]
        BY <1>3, <4>1, <4>2
      <4>4. QED
        BY <4>2, <4>3 DEF Hashed
    <3>2. Hashed(x)' => Hashed(x)
      <4>1. SUFFICES ASSUME Hashed(x)' PROVE Hashed(x)
        OBVIOUS
      <4>2. PICK k \in 1..Len(fl_hash') : fl_hash'[k].id = x
        BY <4>1 DEF Hashed
      <4>3. fl_hash'[k] \in Range(fl_hash)
        BY <1>3, <4>2
      <4>4. PICK m \in 1..Len(fl_hash) : fl_hash[m] = fl_hash'[k]
        BY <1>7, <4>3 DEF Range
      <4>5. QED
        BY <4>2, <4>4 DEF Hashed
    <3>3. QED
      BY <3>1, <3>2
  <2>5. Life(x)'
    <3>1. CASE x = i
      BY <1>3, <2>1, <2>2, <2>3, <3>1, Same, SameWire
         DEF Life, Free, Closing, Calm, Bare
    <3>2. CASE x # i
      BY <1>1, <1>3, <2>1, <2>2, <2>4, <3>2, Same, SameWire
         DEF Life, Free, Young, Closing, Undone, InUse, Calm, Bare
    <3>3. QED
      BY <3>1, <3>2
  <2>6. Stationed(x)'
    <3>1. Active(x) => x # i
      BY <1>3 DEF Closing
    <3>2. Active(x) => [da |-> node[x].da, id |-> x] \in Range(fl_hash')
      <4> DEFINE e == [da |-> node[x].da, id |-> x]
      <4>1. e.id = x /\ (Active(x) => e \in Range(fl_hash))
        BY <1>1 DEF Stationed
      <4> HIDE DEF e
      <4>2. Active(x) => e \in Range(fl_hash')
        BY <1>8, <3>1, <4>1
      <4>3. QED
        BY <4>2 DEF e
    <3>3. QED
      BY <1>1, <1>3, <3>2 DEF Stationed, Active, Has
  <2>7. QED
    BY <1>1, <1>3, <2>5, <2>6, SameWire DEF Single
<1>11. QED
  BY <1>5, <1>6, <1>9, <1>10 DEF Core

\* The dongle serves a request.
LEMMA ServeShape ==
  ASSUME Core, Serve, NEW m, m = Head(h2d), NEW i, i = m.id
  PROVE  /\ UNCHANGED <<fl_hash, idmap, multi_client_flow_rings, node, inited,
                        flowring_active_list, link, sta_list, bss, events, tx, dpc,
                        frames, missed>>
         /\ h2d # << >> /\ h2d' = Tail(h2d) /\ m \in Messages /\ i \in Ids
         /\ faults' \in 0..MaxFaults
         /\ \/ /\ m.type = "create" /\ dongle' = [dongle EXCEPT ![i] = m.da]
               /\ d2h' = Append(d2h, [type |-> "created", id |-> i, ok |-> TRUE])
            \/ /\ m.type = "create" /\ UNCHANGED dongle
               /\ d2h' = Append(d2h, [type |-> "created", id |-> i, ok |-> FALSE])
            \/ /\ m.type = "delete" /\ Has(i)
               /\ dongle' = [dongle EXCEPT ![i] = NoStation]
               /\ d2h' = Append(d2h, [type |-> "deleted", id |-> i, ok |-> TRUE])
            \/ /\ m.type = "delete" /\ ~Has(i) /\ UNCHANGED dongle
               /\ d2h' = Append(d2h, [type |-> "deleted", id |-> i, ok |-> FALSE])
<1> USE DEF table, host
<1>1. Types
  BY DEF Core
<1>2. /\ UNCHANGED <<fl_hash, idmap, multi_client_flow_rings, node, inited,
                     flowring_active_list, link, sta_list, bss, events, tx, dpc,
                     frames, missed>>
      /\ h2d # << >> /\ h2d' = Tail(h2d)
  BY DEF Serve
<1>3. m \in Messages
  BY <1>1, <1>2, Taken DEF Types
<1>4. i \in Ids
  BY <1>3 DEF Messages
<1>5. faults' \in 0..MaxFaults
  <2>1. faults \in 0..MaxFaults
    BY <1>1 DEF Types
  <2>2. faults' = faults \/ (faults < MaxFaults /\ faults' = faults + 1)
    BY DEF Serve
  <2>3. QED
    BY <2>1, <2>2, FlowAssumption
<1>6. CASE m.type = "create" /\ Respond(m, TRUE) /\ dongle' = [dongle EXCEPT ![m.id] = m.da]
  BY <1>2, <1>3, <1>4, <1>5, <1>6 DEF Respond
<1>7. CASE m.type = "create" /\ Respond(m, FALSE) /\ UNCHANGED dongle
  BY <1>2, <1>3, <1>4, <1>5, <1>7 DEF Respond
<1>8. CASE /\ m.type = "delete" /\ Respond(m, dongle[m.id] # NoStation)
           /\ dongle' = [dongle EXCEPT ![m.id] = NoStation]
  <2>1. d2h' = Append(d2h, [type |-> "deleted", id |-> i, ok |-> Has(i)])
    BY <1>8 DEF Respond, Has
  <2>2. CASE Has(i)
    <3>1. Has(i) = TRUE
      BY <2>2 DEF Has
    <3>2. QED
      BY <1>2, <1>3, <1>4, <1>5, <1>8, <2>1, <2>2, <3>1
  <2>3. CASE ~Has(i)
    <3>1. Has(i) = FALSE
      BY <2>3 DEF Has
    <3>2. dongle' = dongle
      BY <1>1, <1>4, <1>8, <2>3 DEF Types, Has
    <3>3. QED
      BY <1>2, <1>3, <1>4, <1>5, <1>8, <2>1, <2>3, <3>1, <3>2
  <2>4. QED
    BY <2>2, <2>3
<1>9. QED
  BY <1>6, <1>7, <1>8 DEF Serve

\* What its response adds.
LEMMA Reply ==
  ASSUME Types, NEW i \in Ids, NEW y \in {"created", "deleted"}, NEW ok \in BOOLEAN,
         d2h' = Append(d2h, [type |-> y, id |-> i, ok |-> ok]), NEW x \in Ids,
         Single(x), Once(h2d, Creates(x))',
         y = "created" /\ x = i => ~Answered(x) /\ ~Removed(x),
         y = "deleted" /\ ok /\ x = i => ~Removed(x)
  PROVE  /\ d2h' \in Seq(Responses \cup Notices)
         /\ Answered(x)' <=> Answered(x) \/ (x = i /\ y = "created")
         /\ Refused(x)' <=> Refused(x) \/ (x = i /\ y = "created" /\ ~ok)
         /\ Removed(x)' <=> Removed(x) \/ (x = i /\ y = "deleted" /\ ok)
         /\ Single(x)'
<1> DEFINE r == [type |-> y, id |-> i, ok |-> ok]
<1>1. r \in Responses \cup Notices /\ r.type = y /\ r.id = i /\ r.ok = ok
  BY DEF Responses
<1>2. /\ r \in Answers(x) <=> r.type = "created" /\ r.id = x
      /\ r \in Refusals(x) <=> r.type = "created" /\ r.id = x /\ ~r.ok
      /\ r \in Removals(x) <=> r.type = "deleted" /\ r.id = x /\ r.ok
  BY <1>1, ResponseKinds
<1>3. /\ r \in Answers(x) <=> x = i /\ y = "created"
      /\ r \in Refusals(x) <=> x = i /\ y = "created" /\ ~ok
      /\ r \in Removals(x) <=> x = i /\ y = "deleted" /\ ok
  BY <1>1, <1>2
<1>4. d2h' = Append(d2h, r)
  OBVIOUS
<1> HIDE DEF r
<1>5. /\ d2h' \in Seq(Responses \cup Notices)
      /\ Answered(x)' <=> Answered(x) \/ r \in Answers(x)
      /\ Refused(x)' <=> Refused(x) \/ r \in Refusals(x)
      /\ Removed(x)' <=> Removed(x) \/ r \in Removals(x)
      /\ Once(d2h, Answers(x)) /\ (r \in Answers(x) => ~Answered(x)) =>
           Once(d2h, Answers(x))'
      /\ Once(d2h, Removals(x)) /\ (r \in Removals(x) => ~Removed(x)) =>
           Once(d2h, Removals(x))'
      /\ /\ Ordered(d2h, Answers(x), Removals(x))
         /\ r \in Answers(x) => ~Removed(x)
         => Ordered(d2h, Answers(x), Removals(x))'
  BY <1>1, <1>4, Deliver
<1>6. QED
  BY <1>3, <1>5 DEF Single

LEMMA ServeStep ==
  ASSUME Core, Serve PROVE Core'
<1>1. /\ Types /\ Chains /\ Makers /\ DpcAt
      /\ \A k \in Ids : Life(k) /\ Single(k) /\ Stationed(k)
  BY DEF Core
<1>2. PICK m, i : m = Head(h2d) /\ i = m.id
  OBVIOUS
<1>3. /\ UNCHANGED <<fl_hash, idmap, multi_client_flow_rings, node, inited,
                     flowring_active_list, link, sta_list, bss, events, tx, dpc,
                     frames, missed>>
      /\ h2d # << >> /\ h2d' = Tail(h2d) /\ m \in Messages /\ i \in Ids
      /\ faults' \in 0..MaxFaults
  BY <1>2, ServeShape
<1>4. h2d \in Seq(Messages) /\ h2d' \in Seq(Messages)
  BY <1>1, <1>3 DEF Types
<1>5. ASSUME NEW x \in Ids
      PROVE  /\ Asked(x) <=> (m.type = "create" /\ x = i) \/ Asked(x)'
             /\ m.type = "create" /\ x = i => ~Asked(x)'
             /\ Once(h2d, Creates(x))'
  BY <1>1, <1>2, <1>3, TakeRequest DEF Single
<1>6. \A k \in 1..Len(h2d') : k + 1 \in 1..Len(h2d) /\ h2d'[k] = h2d[k + 1]
  BY <1>3, <1>4
<1>7. Chains' /\ DpcAt' /\ Makers'
  BY <1>1, <1>3, MakersKept DEF Chains, DpcAt
<1>8. \A x \in Ids : \A k \in 1..Len(h2d') :
        h2d'[k] \in Creates(x) => h2d'[k].da = node'[x].da
  BY <1>1, <1>3, <1>6 DEF Stationed
<1>9. ASSUME d2h' \in Seq(Responses \cup Notices),
             dongle' \in [Ids -> Stations \cup {NoStation}],
             \A x \in Ids : dongle'[x] # NoStation => dongle'[x] = node[x].da,
             \A x \in Ids : Life(x)' /\ Single(x)'
      PROVE  Core'
  <2>1. Types'
    BY <1>1, <1>3, <1>4, <1>9 DEF Types
  <2>2. \A x \in Ids : Stationed(x)'
    BY <1>1, <1>3, <1>8, <1>9 DEF Stationed, Has, Active
  <2>3. QED
    BY <1>7, <1>9, <2>1, <2>2 DEF Core
<1>10. dongle \in [Ids -> Stations \cup {NoStation}]
       /\ \A x \in Ids : dongle[x] # NoStation => dongle[x] = node[x].da
  BY <1>1 DEF Types, Stationed, Has
<1>11. ASSUME m.type = "create"
       PROVE  /\ InUse(i) /\ Asked(i) /\ ~Answered(i) /\ ~Refused(i) /\ ~Removed(i)
              /\ ~Has(i) /\ m.da = node[i].da /\ m.da \in Stations
  <2>1. Asked(i)
    BY <1>3, <1>5, <1>11
  <2>2. InUse(i)
    BY <1>1, <1>3, <2>1 DEF Life, Free, Young, Closing, Undone, Calm
  <2>3. m = h2d[1] /\ 1 \in 1..Len(h2d) /\ m \in Creates(i)
    <3>1. m = h2d[1] /\ 1 \in 1..Len(h2d)
      BY <1>2, <1>3, <1>4
    <3>2. QED
      BY <1>2, <1>3, <1>11, <3>1, RequestKinds
  <2>4. m.da = node[i].da /\ m.da \in Stations
    BY <1>1, <1>3, <2>2, <2>3 DEF Stationed, InUse
  <2>5. QED
    BY <2>1, <2>2, <2>4 DEF InUse
<1>12. CASE /\ m.type = "create" /\ dongle' = [dongle EXCEPT ![i] = m.da]
            /\ d2h' = Append(d2h, [type |-> "created", id |-> i, ok |-> TRUE])
  <2>1. ASSUME NEW x \in Ids
        PROVE  /\ d2h' \in Seq(Responses \cup Notices)
               /\ Answered(x)' <=> Answered(x) \/ x = i
               /\ Refused(x)' <=> Refused(x)
               /\ Removed(x)' <=> Removed(x)
               /\ Single(x)'
    BY <1>1, <1>3, <1>5, <1>11, <1>12, Reply
  <2>2. \A x \in Ids : Has(x)' <=> Has(x) \/ x = i
    BY <1>3, <1>10, <1>11, <1>12, FlowAssumption DEF Has
  <2>3. ASSUME NEW x \in Ids PROVE Life(x)'
    <3>1. CASE x = i
      BY <1>3, <1>5, <1>11, <1>12, <2>1, <2>2, <3>1, Same DEF Life, InUse
    <3>2. CASE x # i
      BY <1>1, <1>3, <1>5, <2>1, <2>2, <3>2, Same
         DEF Life, Free, Young, Closing, Undone, InUse, Calm, Bare
    <3>3. QED
      BY <3>1, <3>2
  <2>4. /\ dongle' \in [Ids -> Stations \cup {NoStation}]
        /\ \A x \in Ids : dongle'[x] # NoStation => dongle'[x] = node[x].da
    BY <1>3, <1>10, <1>11, <1>12
  <2>5. QED
    BY <1>3, <1>9, <2>1, <2>3, <2>4
<1>13. CASE /\ m.type = "create" /\ UNCHANGED dongle
            /\ d2h' = Append(d2h, [type |-> "created", id |-> i, ok |-> FALSE])
  <2>1. ASSUME NEW x \in Ids
        PROVE  /\ d2h' \in Seq(Responses \cup Notices)
               /\ Answered(x)' <=> Answered(x) \/ x = i
               /\ Refused(x)' <=> Refused(x) \/ x = i
               /\ Removed(x)' <=> Removed(x)
               /\ Single(x)'
    BY <1>1, <1>3, <1>5, <1>11, <1>13, Reply
  <2>2. ASSUME NEW x \in Ids PROVE Life(x)'
    <3>1. CASE x = i
      BY <1>3, <1>5, <1>11, <1>13, <2>1, <3>1, Same DEF Life, InUse
    <3>2. CASE x # i
      BY <1>1, <1>3, <1>5, <1>13, <2>1, <3>2, Same
         DEF Life, Free, Young, Closing, Undone, InUse, Calm, Bare
    <3>3. QED
      BY <3>1, <3>2
  <2>3. QED
    BY <1>3, <1>9, <1>10, <1>13, <2>1, <2>2
<1>14. CASE /\ m.type = "delete" /\ Has(i)
            /\ dongle' = [dongle EXCEPT ![i] = NoStation]
            /\ d2h' = Append(d2h, [type |-> "deleted", id |-> i, ok |-> TRUE])
  <2>1. InUse(i) /\ ~Removed(i)
    <3>1. InUse(i)
      BY <1>1, <1>3, <1>14 DEF Life, Free, Young, Closing, Undone, Calm
    <3>2. QED
      BY <1>14, <3>1 DEF InUse
  <2>2. ASSUME NEW x \in Ids
        PROVE  /\ d2h' \in Seq(Responses \cup Notices)
               /\ Answered(x)' <=> Answered(x)
               /\ Refused(x)' <=> Refused(x)
               /\ Removed(x)' <=> Removed(x) \/ x = i
               /\ Single(x)'
    BY <1>1, <1>3, <1>5, <1>14, <2>1, Reply
  <2>3. \A x \in Ids : Has(x)' <=> Has(x) /\ x # i
    BY <1>3, <1>10, <1>14 DEF Has
  <2>4. \A x \in Ids : Asked(x)' <=> Asked(x)
    BY <1>5, <1>14
  <2>5. ASSUME NEW x \in Ids PROVE Life(x)'
    <3>1. CASE x = i
      BY <1>3, <1>14, <2>1, <2>2, <2>3, <2>4, <3>1, Same DEF Life, InUse
    <3>2. CASE x # i
      BY <1>1, <1>3, <2>2, <2>3, <2>4, <3>2, Same
         DEF Life, Free, Young, Closing, Undone, InUse, Calm, Bare
    <3>3. QED
      BY <3>1, <3>2
  <2>6. /\ dongle' \in [Ids -> Stations \cup {NoStation}]
        /\ \A x \in Ids : dongle'[x] # NoStation => dongle'[x] = node[x].da
    BY <1>3, <1>10, <1>14
  <2>7. QED
    BY <1>3, <1>9, <2>2, <2>5, <2>6
<1>15. CASE /\ m.type = "delete" /\ ~Has(i) /\ UNCHANGED dongle
            /\ d2h' = Append(d2h, [type |-> "deleted", id |-> i, ok |-> FALSE])
  <2>1. ASSUME NEW x \in Ids
        PROVE  /\ d2h' \in Seq(Responses \cup Notices)
               /\ Answered(x)' <=> Answered(x)
               /\ Refused(x)' <=> Refused(x)
               /\ Removed(x)' <=> Removed(x)
               /\ Single(x)'
    BY <1>1, <1>3, <1>5, <1>15, Reply
  <2>2. \A x \in Ids : Asked(x)' <=> Asked(x)
    BY <1>5, <1>15
  <2>3. ASSUME NEW x \in Ids PROVE Life(x)'
    BY <1>1, <1>3, <1>15, <2>1, <2>2, Same
       DEF Life, Free, Young, Closing, Undone, InUse, Calm, Bare
  <2>4. QED
    BY <1>3, <1>9, <1>10, <1>15, <2>1, <2>3
<1>16. QED
  BY <1>2, <1>12, <1>13, <1>14, <1>15, ServeShape

LEMMA ReportsShape ==
  ASSUME Types, Reports
  PROVE  /\ \E r \in Notices : d2h' = Append(d2h, r)
         /\ bss' \in [up : BOOLEAN, sta : SUBSET Stations]
         /\ events' \in 0..MaxEvents
         /\ UNCHANGED <<fl_hash, idmap, multi_client_flow_rings, node, inited,
                        flowring_active_list, link, sta_list, h2d, dongle, tx, dpc,
                        frames, faults, missed>>
<1> USE DEF table, host, counts
<1>1. bss \in [up : BOOLEAN, sta : SUBSET Stations] /\ events \in 0..MaxEvents
  BY DEF Types
<1>2. ASSUME NEW y, NEW da, NEW up, Report(y, da, up),
             [type |-> y, da |-> da, up |-> up] \in Notices
      PROVE  /\ \E r \in Notices : d2h' = Append(d2h, r)
             /\ events' \in 0..MaxEvents
             /\ UNCHANGED <<fl_hash, idmap, multi_client_flow_rings, node, inited,
                            flowring_active_list, link, sta_list, h2d, dongle, tx, dpc,
                            frames, faults, missed>>
  BY <1>1, <1>2, FlowAssumption DEF Report
<1>3. CASE StationJoins
  <2>1. PICK da \in Stations : /\ bss' = [bss EXCEPT !.sta = @ \cup {da}]
                               /\ Report("ASSOC", da, TRUE)
    BY <1>3 DEF StationJoins
  <2>2. [type |-> "ASSOC", da |-> da, up |-> TRUE] \in Notices
    BY <2>1 DEF Notices, Events
  <2>3. bss' \in [up : BOOLEAN, sta : SUBSET Stations]
    BY <1>1, <2>1
  <2>4. QED
    BY <1>2, <2>1, <2>2, <2>3
<1>4. CASE StationLeaves
  <2>1. PICK da \in bss.sta : /\ bss' = [bss EXCEPT !.sta = @ \ {da}]
                              /\ Report("DISASSOC", da, FALSE)
    BY <1>4 DEF StationLeaves
  <2>2. da \in Stations
    BY <1>1, <2>1
  <2>3. [type |-> "DISASSOC", da |-> da, up |-> FALSE] \in Notices
    BY <2>2 DEF Notices, Events
  <2>4. bss' \in [up : BOOLEAN, sta : SUBSET Stations]
    BY <1>1, <2>1
  <2>5. QED
    BY <1>2, <2>1, <2>3, <2>4
<1>5. CASE LinkChanges
  <2>1. /\ bss' = [up |-> ~bss.up, sta |-> {}]
        /\ Report("LINK", NoStation, ~bss.up)
    BY <1>5 DEF LinkChanges
  <2>2. (~bss.up) \in BOOLEAN
    BY <1>1
  <2>3. [type |-> "LINK", da |-> NoStation, up |-> ~bss.up] \in Notices
    BY <2>2 DEF Notices, Events
  <2>4. bss' \in [up : BOOLEAN, sta : SUBSET Stations]
    BY <2>1, <2>2
  <2>5. PICK up : up = (~bss.up)
    OBVIOUS
  <2>6. Report("LINK", NoStation, up)
        /\ [type |-> "LINK", da |-> NoStation, up |-> up] \in Notices
    BY <2>1, <2>3, <2>5
  <2>7. QED
    BY <1>2, <2>4, <2>6
<1>6. QED
  BY <1>3, <1>4, <1>5 DEF Reports

LEMMA ReportsStep ==
  ASSUME Core, Reports PROVE Core'
<1>1. Types /\ DpcAt /\ \A k \in Ids : Single(k) /\ Stationed(k)
  BY DEF Core
<1>2. /\ \E r \in Notices : d2h' = Append(d2h, r)
      /\ bss' \in [up : BOOLEAN, sta : SUBSET Stations]
      /\ events' \in 0..MaxEvents
      /\ UNCHANGED <<fl_hash, idmap, multi_client_flow_rings, node, inited,
                     flowring_active_list, link, sta_list, h2d, dongle, tx, dpc,
                     frames, faults, missed>>
  BY <1>1, ReportsShape
<1>3. PICK r \in Notices : d2h' = Append(d2h, r)
  BY <1>2
<1>4. r.type # "created" /\ r.type # "deleted" /\ r \in Responses \cup Notices
  BY <1>3 DEF Notices, Events
<1>5. NodesAlike
  BY <1>1, <1>2 DEF Types, NodesAlike
<1>6. ASSUME NEW x \in Ids
      PROVE  /\ d2h' \in Seq(Responses \cup Notices)
             /\ (Answered(x)' <=> Answered(x)) /\ (Refused(x)' <=> Refused(x))
             /\ (Removed(x)' <=> Removed(x)) /\ Single(x)'
  <2>1. r \notin Answers(x) /\ r \notin Refusals(x) /\ r \notin Removals(x)
    BY <1>4, ResponseKinds
  <2>2. QED
    BY <1>1, <1>2, <1>3, <1>4, <2>1, Deliver, SameWire DEF Single
<1>7. 1 \in Ids
  BY FlowAssumption DEF Ids
<1>8. Types' /\ DpcAt'
  BY <1>1, <1>2, <1>6, <1>7 DEF Types, DpcAt
<1>9. \A x \in Ids : Stationed(x)' /\ (Asked(x)' <=> Asked(x))
  BY <1>1, <1>2, <1>5, StationedKept, SameWire
<1>10. QED
  BY <1>2, <1>5, <1>6, <1>8, <1>9, Same, PlainStep

LEMMA CoreStep ==
  ASSUME Core, [Next]_vars PROVE Core'
<1>1. ASSUME NEW t \in Threads, Transmit(t) PROVE Core'
  BY <1>1, SendsStep, AllocStep, InsertStep, InitStep, CreateStep, UndoStep
     DEF Transmit, Sends
<1>2. CASE Dpc \/ dhd_update_txflowrings
  BY <1>2, CreateResponseStep, DrainsStep, DeleteResponseStep, CleanListStep,
     FreeStep,
     EventStep, ScanStep, DeleteStep DEF Dpc, Drains
<1>3. CASE Dongle
  BY <1>3, ServeStep, ReportsStep DEF Dongle, Reports
<1>4. CASE UNCHANGED vars
  <2>1. /\ Types /\ Chains /\ Makers /\ DpcAt
        /\ \A k \in Ids : Life(k) /\ Single(k) /\ Stationed(k)
    BY DEF Core
  <2>2. UNCHANGED <<fl_hash, idmap, multi_client_flow_rings, node, inited,
                    flowring_active_list, link, sta_list, h2d, d2h, dongle, bss, events,
                    tx, dpc, frames, faults, missed>>
    BY <1>4 DEF vars, table, host, wire, device, counts
  <2>3. NodesAlike /\ Types'
    BY <2>1, <2>2 DEF Types, NodesAlike
  <2>4. DpcAt'
    BY <2>1, <2>2 DEF DpcAt
  <2>5. \A x \in Ids : Single(x)' /\ Stationed(x)'
    BY <2>1, <2>2, <2>3, SameWire, StationedKept DEF Single
  <2>6. QED
    BY <2>2, <2>3, <2>4, <2>5, Same, SameWire, PlainStep
<1>5. QED
  BY <1>1, <1>2, <1>3, <1>4 DEF Next

-----------------------------------------------------------------------------
(* The counter *)

LEMMA FiniteEntering ==
  /\ IsFiniteSet(Entering) /\ Cardinality(Entering) \in Nat
  /\ IsFiniteSet(Entering)' /\ Cardinality(Entering)' \in Nat
<1>1. IsFiniteSet(Threads) /\ Entering \subseteq Threads /\ Entering' \subseteq Threads
  BY FlowAssumption DEF Entering
<1>2. IsFiniteSet(Entering) /\ IsFiniteSet(Entering')
  BY <1>1, FS_Subset
<1>3. QED
  BY <1>2, FS_CardinalityType

\* A counter that is left alone, with the chain and the threads on the way.
LEMMA CountedKept ==
  ASSUME Counted, UNCHANGED <<fl_hash, multi_client_flow_rings>>,
         \A u \in Threads : tx'[u].pc = "init" <=> tx[u].pc = "init"
  PROVE  Counted'
<1>1. Entering' = Entering
  BY DEF Entering, At
<1>2. QED
  BY <1>1 DEF Counted

LEMMA Interval ==
  ASSUME NEW n \in Nat PROVE IsFiniteSet(1..n) /\ Cardinality(1..n) = n
<1>1. IsFiniteSet(1..n) /\ Cardinality(1..n) = IF 1 > n THEN 0 ELSE n - 1 + 1
  BY FS_Interval
<1>2. QED
  BY <1>1

\* The entries of the threads on the way are entries of the chain, and so is
\* the one the DPC frees.
LEMMA FreedIsCounted ==
  ASSUME Core, Counted, NEW i \in Ids, Closing(i)
  PROVE  multi_client_flow_rings > 0
<1>1. Types /\ Chains /\ Makers
  BY DEF Core
<1>2. PICK n \in 1..Len(fl_hash) : fl_hash[n].id = i
  BY DEF Closing, Hashed
<1>3. /\ Len(fl_hash) \in Nat /\ DOMAIN fl_hash = 1..Len(fl_hash)
      /\ multi_client_flow_rings \in Nat
  BY <1>1 DEF Types
<1> DEFINE D == 1..Len(fl_hash)
           f == [t \in Entering |-> CHOOSE k \in D : fl_hash[k] = Entry(t)]
<1>4. ASSUME NEW t \in Entering
      PROVE  f[t] \in D \ {n} /\ fl_hash[f[t]] = Entry(t)
  <2>1. t \in Threads /\ tx[t].pc = "init" /\ Stage(t)
    BY <1>1 DEF Entering, At, Makers
  <2>2. Entry(t) \in Range(fl_hash)
    BY <2>1 DEF Stage
  <2>3. \E k \in D : fl_hash[k] = Entry(t)
    BY <1>3, <2>2 DEF Range
  <2>4. f[t] \in D /\ fl_hash[f[t]] = Entry(t)
    BY <2>3
  <2>5. tx[t].id # i
    BY <2>1 DEF Closing, Made, Maker, Making
  <2>6. Entry(t).id = tx[t].id
    BY DEF Entry
  <2>7. QED
    BY <1>2, <2>4, <2>5, <2>6
<1>5. ASSUME NEW t \in Entering, NEW u \in Entering, f[t] = f[u] PROVE t = u
  <2>1. Entry(t) = Entry(u)
    BY <1>4, <1>5
  <2>2. tx[t].id = tx[u].id
    BY <2>1 DEF Entry
  <2>3. QED
    BY <1>1, <2>2 DEF Entering, At, Makers, Alone, Making
<1>6. f \in [Entering -> D \ {n}]
  <2>1. f = [t \in Entering |-> f[t]]
    OBVIOUS
  <2> HIDE DEF f
  <2>2. QED
    BY <1>4, <2>1
<1> HIDE DEF f
<1>7. f \in Injection(Entering, D \ {n})
  BY <1>5, <1>6 DEF Injection, IsInjective
<1>8. IsFiniteSet(D) /\ Cardinality(D) = Len(fl_hash)
  BY <1>3, Interval
<1>9. IsFiniteSet(D \ {n}) /\ Cardinality(D \ {n}) = Len(fl_hash) - 1
  BY <1>2, <1>8, FS_RemoveElement
<1>10. Cardinality(Entering) <= Len(fl_hash) - 1
  BY <1>7, <1>9, FS_Injection
<1>11. QED
  BY <1>3, <1>10, FiniteEntering DEF Counted

\* The chain has no more entries than there are ids.
LEMMA ChainFits ==
  ASSUME Core, Counted PROVE multi_client_flow_rings \in 0..NumRings
<1>1. /\ Len(fl_hash) \in Nat /\ fl_hash \in Seq(Entries)
      /\ \A k, l \in 1..Len(fl_hash) : fl_hash[k].id = fl_hash[l].id => k = l
      /\ multi_client_flow_rings \in Nat
  BY DEF Core, Types, Chains
<1> DEFINE D == 1..Len(fl_hash)
           f == [k \in D |-> fl_hash[k].id]
<1>2. \A k \in D : f[k] \in Ids /\ f[k] = fl_hash[k].id
  <2>1. \A k \in D : fl_hash[k] \in Entries
    BY <1>1
  <2>2. QED
    BY <2>1 DEF Entries
<1>3. f \in Injection(D, Ids)
  BY <1>1, <1>2 DEF Injection, IsInjective
<1>4. IsFiniteSet(D) /\ Cardinality(D) = Len(fl_hash)
  BY <1>1, Interval
<1>5. IsFiniteSet(Ids) /\ Cardinality(Ids) = NumRings
  BY FlowAssumption, Interval DEF Ids
<1>6. Cardinality(D) <= Cardinality(Ids)
  BY <1>3, <1>5, FS_Injection
<1>7. Len(fl_hash) <= NumRings
  BY <1>4, <1>5, <1>6
<1>8. QED
  BY <1>1, <1>7, FiniteEntering, FlowAssumption DEF Counted

LEMMA CountedStep ==
  ASSUME Core, Counted, [Next]_vars PROVE Counted'
<1> USE DEF table
<1>1. /\ Types /\ Makers /\ Len(fl_hash) \in Nat /\ multi_client_flow_rings \in Nat
      /\ fl_hash \in Seq(Entries)
  BY DEF Core, Types
<1>2. ASSUME NEW t \in Threads, Sends(t) \/ AllocId(t) \/ CreateRequest(t) \/ Undo(t)
      PROVE  Counted'
  <2>1. /\ UNCHANGED <<fl_hash, multi_client_flow_rings>>
        /\ \A u \in Threads : u # t => tx'[u] = tx[u]
        /\ tx[t].pc # "init" /\ tx'[t].pc # "init"
    <3>1. CASE Sends(t)
      BY <1>1, <3>1, SendsShape DEF Making
    <3>2. CASE AllocId(t)
      BY <1>1, <3>2, AllocShape
    <3>3. CASE CreateRequest(t)
      BY <1>1, <3>3, CreateShape
    <3>4. CASE Undo(t)
      BY <1>1, <3>4, UndoShape
    <3>5. QED
      BY <1>2, <3>1, <3>2, <3>3, <3>4
  <2>2. QED
    BY <2>1, CountedKept
<1>3. ASSUME NEW t \in Threads, InsertHash(t) PROVE Counted'
  <2>1. /\ UNCHANGED multi_client_flow_rings
        /\ \A u \in Threads : u # t => tx'[u] = tx[u]
        /\ tx[t].pc = "insert" /\ tx'[t].pc = "init"
        /\ fl_hash' = Append(fl_hash, [da |-> tx[t].da, id |-> tx[t].id])
    BY <1>1, <1>3, InsertShape
  <2>2. Entering' = Entering \cup {t} /\ t \notin Entering
    BY <2>1 DEF Entering, At
  <2>3. Cardinality(Entering') = Cardinality(Entering) + 1
    BY <2>2, FiniteEntering, FS_AddElement
  <2>4. Len(fl_hash') = Len(fl_hash) + 1
    BY <1>1, <2>1
  <2>5. QED
    BY <1>1, <2>1, <2>3, <2>4, FiniteEntering DEF Counted
<1>4. ASSUME NEW t \in Threads, InitNode(t) PROVE Counted'
  <2>1. /\ UNCHANGED fl_hash /\ multi_client_flow_rings' = multi_client_flow_rings + 1
        /\ \A u \in Threads : u # t => tx'[u] = tx[u]
        /\ tx[t].pc = "init" /\ tx'[t].pc = "create"
    BY <1>1, <1>4, InitShape
  <2>2. Entering' = Entering \ {t} /\ t \in Entering
    BY <2>1 DEF Entering, At
  <2>3. Cardinality(Entering') = Cardinality(Entering) - 1
    BY <2>2, FiniteEntering, FS_RemoveElement
  <2>4. QED
    BY <1>1, <2>1, <2>3, FiniteEntering DEF Counted
<1>5. CASE dhd_flowid_free
  <2>1. PICK i : i = dpc.id
    OBVIOUS
  <2>2. /\ UNCHANGED tx /\ i \in Ids /\ Closing(i)
        /\ multi_client_flow_rings' = Fewer /\ Len(fl_hash') = Len(fl_hash) - 1
    BY <1>5, <2>1, FreeShape
  <2>3. multi_client_flow_rings > 0
    BY <2>2, FreedIsCounted
  <2>4. Entering' = Entering
    BY <2>2 DEF Entering, At
  <2>5. multi_client_flow_rings' = multi_client_flow_rings - 1
    BY <1>1, <2>2, <2>3 DEF Fewer
  <2>6. QED
    BY <1>1, <2>2, <2>3, <2>4, <2>5, FiniteEntering DEF Counted
<1>6. CASE UNCHANGED <<fl_hash, multi_client_flow_rings, tx>>
  BY <1>6, CountedKept
<1>7. ASSUME NEW t \in Threads, Transmit(t) PROVE Counted'
  BY <1>2, <1>3, <1>4, <1>7 DEF Transmit, Sends
<1>8. ASSUME Dpc \/ dhd_update_txflowrings \/ Dongle, ~dhd_flowid_free
      PROVE  UNCHANGED <<fl_hash, multi_client_flow_rings, tx>>
  <2> USE DEF host
  <2>1. CASE Dpc
    BY <1>8, <2>1 DEF Dpc, CreateResponse, Kick, DeleteResponse, CleanList,
       Assoc,
       Disassoc, Link, Scan, DeleteRequest
  <2>2. CASE dhd_update_txflowrings
    BY <2>2 DEF dhd_update_txflowrings
  <2>3. CASE Dongle
    BY <2>3 DEF Dongle, Serve, StationJoins, StationLeaves, LinkChanges, Report
  <2>4. QED
    BY <1>8, <2>1, <2>2, <2>3
<1>9. CASE UNCHANGED vars
  BY <1>6, <1>9 DEF vars
<1>10. QED
  BY <1>5, <1>6, <1>7, <1>8, <1>9 DEF Next

-----------------------------------------------------------------------------
(* The invariant and the theorems *)

LEMMA InitIInv == Init => IInv
<1> SUFFICES ASSUME Init PROVE IInv
  OBVIOUS
<1>1. /\ fl_hash = << >> /\ idmap = [i \in Ids |-> i] /\ multi_client_flow_rings = 0
      /\ node = [i \in Ids |-> [status |-> "CLOSED", active |-> FALSE,
                                da |-> NoStation, queue |-> 0]]
      /\ inited = {} /\ flowring_active_list = << >>
      /\ link = TRUE /\ sta_list = Stations
      /\ h2d = << >> /\ d2h = << >>
      /\ dongle = [i \in Ids |-> NoStation]
      /\ bss = [up |-> TRUE, sta |-> Stations]
      /\ tx = [t \in Threads |-> Idle] /\ dpc = DpcIdle
      /\ frames = 0 /\ events = 0 /\ faults = 0 /\ missed = {}
  BY DEF Init
<1>2. idmap \in Seq(Ids) /\ IsInjective(idmap) /\ Range(idmap) = Ids
  <2>1. idmap \in Seq(Ids)
    BY <1>1, FlowAssumption DEF Ids
  <2>2. QED
    BY <1>1, <2>1 DEF IsInjective, Range
<1>3. Idle \in Contexts /\ Idle.pc = "idle"
  BY DEF Idle, Contexts, Places
<1>4. DpcIdle \in Works /\ DpcIdle.pc = "idle"
  BY DEF DpcIdle, Works
<1>5. node \in [Ids -> Nodes]
  <2>1. [status |-> "CLOSED", active |-> FALSE, da |-> NoStation, queue |-> 0] \in Nodes
    BY FlowAssumption DEF Nodes, Statuses
  <2>2. QED
    BY <1>1, <2>1
<1>6. Types
  <2>1. frames \in 0..MaxFrames /\ events \in 0..MaxEvents /\ faults \in 0..MaxFaults
        /\ multi_client_flow_rings \in Nat
    BY <1>1, FlowAssumption
  <2>2. /\ fl_hash \in Seq(Entries) /\ flowring_active_list \in Seq(Ids)
        /\ h2d \in Seq(Messages) /\ d2h \in Seq(Responses \cup Notices)
    BY <1>1
  <2>3. tx \in [Threads -> Contexts] /\ dpc \in Works
    BY <1>1, <1>3, <1>4
  <2>4. QED
    BY <1>1, <1>2, <1>5, <2>1, <2>2, <2>3 DEF Types
<1>7. Chains
  BY <1>1, <1>2 DEF Chains, IsInjective
<1>8. \A t \in Threads : tx[t].pc = "idle"
  BY <1>1, <1>3
<1>9. Makers
  BY <1>8 DEF Makers, Alone, Stage, Making
<1>10. DpcAt
  BY <1>1, <1>4 DEF DpcAt
<1>11. ASSUME NEW x \in Ids PROVE Life(x) /\ Single(x) /\ Stationed(x)
  <2>1. Spare(x) /\ ~Made(x) /\ ~Cleaned(x) /\ ~Hashed(x) /\ ~Active(x)
    BY <1>1, <1>2, <1>4, <1>8 DEF Spare, Made, Maker, Making, Cleaned, Hashed,
       Active
  <2>2. Bare(x)
    BY <1>1 DEF Bare, Pooled, Listed, Range
  <2>3. ~Has(x)
    BY <1>1 DEF Has
  <2>4. ~Asked(x) /\ ~Answered(x) /\ ~Refused(x) /\ ~Removed(x)
    BY <1>1 DEF Asked, Answered, Refused, Removed, Some
  <2>5. Single(x)
    BY <1>1 DEF Single, Once, Ordered
  <2>6. Stationed(x)
    BY <1>1, <2>1, <2>3 DEF Stationed
  <2>7. QED
    BY <2>1, <2>2, <2>3, <2>4, <2>5, <2>6 DEF Life, Free, Calm
<1>12. Counted
  <2>1. Entering = {}
    BY <1>8 DEF Entering, At
  <2>2. QED
    BY <1>1, <2>1, FS_EmptySet DEF Counted
<1>13. QED
  BY <1>6, <1>7, <1>9, <1>10, <1>11, <1>12 DEF IInv, Core

LEMMA IInvHolds == Spec => []IInv
<1>1. ASSUME IInv, [Next]_vars PROVE IInv'
  BY <1>1, CoreStep, CountedStep DEF IInv
<1>2. QED
  BY <1>1, InitIInv, PTL DEF Spec

\* The records of the state have their types; the counter of rings never
\* exceeds the number of flow ids, and neither the chain of dhd_flowid_alloc
\* nor the stack of ids holds an id twice.
THEOREM TypeCorrect == Spec => []TypeOK
<1>1. IInv => TypeOK
  <2> SUFFICES ASSUME IInv PROVE TypeOK
    OBVIOUS
  <2>1. Types /\ Chains
    BY DEF IInv, Core
  <2>2. multi_client_flow_rings \in 0..NumRings
    BY ChainFits DEF IInv
  <2>3. IsInjective(fl_hash)
    <3>1. DOMAIN fl_hash = 1..Len(fl_hash)
      BY <2>1 DEF Types
    <3>2. QED
      BY <2>1, <3>1 DEF Chains, IsInjective
  <2>4. d2h \in Seq(Responses \cup Events)
    BY <2>1 DEF Types, Notices
  <2>5. node \in [Ids -> [status : Statuses, active : BOOLEAN,
                          da : Stations \cup {NoStation}, queue : 0..QueueMax]]
    BY <2>1 DEF Types, Nodes
  <2>6. /\ tx \in [Threads -> [pc : {"idle", "check", "admit", "alloc", "insert", "init",
                                    "create", "undo", "txdata", "status", "schedule",
                                    "pend"},
                              da : Stations \cup {NoStation}, id : Ids \cup {0},
                              pend : BOOLEAN]]
        /\ dpc \in [pc : {"idle", "list", "free", "kick", "peer", "all", "delete"},
                    id : Ids \cup {0}, da : Stations \cup {NoStation}]
    BY <2>1 DEF Types, Contexts, Places, Works
  <2>7. QED
    BY <2>1, <2>2, <2>3, <2>4, <2>5, <2>6 DEF Types, Chains, TypeOK
<1>2. QED
  BY <1>1, IInvHolds, PTL

\* No flow id leaks and none is handed out twice: it is free, or in the chain,
\* or in the hands of one thread (dhd_flowid_alloc, dhd_flowid_free).
THEOREM Conserved == Spec => []IdsConserved
<1>1. IInv => IdsConserved
  <2> SUFFICES ASSUME IInv, NEW i \in Ids
               PROVE  (IF i \in Range(idmap) THEN 1 ELSE 0)
                        + (IF i \in HashIds THEN 1 ELSE 0)
                        + Cardinality({t \in Threads : tx[t].pc = "insert" /\ tx[t].id = i})
                          = 1
    BY DEF IdsConserved
  <2> DEFINE owners == {t \in Threads : tx[t].pc = "insert" /\ tx[t].id = i}
  <2>1. Life(i) /\ Makers /\ Types
    BY DEF IInv, Core
  <2>2. (i \in HashIds) <=> Hashed(i)
    <3>1. DOMAIN fl_hash = 1..Len(fl_hash)
      BY <2>1 DEF Types
    <3>2. QED
      BY <3>1 DEF HashIds, Hashed, Range
  <2>3. (i \in Range(idmap)) <=> Spare(i)
    BY DEF Spare
  <2>4. CASE owners = {}
    <3>1. Cardinality(owners) = 0
      BY <2>4, FS_EmptySet
    <3>2. Young(i) => Hashed(i)
      <4>1. SUFFICES ASSUME Young(i) PROVE Hashed(i)
        OBVIOUS
      <4>2. PICK t \in Threads : Maker(t, i)
        BY <4>1 DEF Young, Made
      <4>3. tx[t].id = i /\ tx[t].pc \in {"init", "create", "undo"}
        BY <2>4, <4>2 DEF Maker, Making
      <4>4. Entry(t) \in Range(fl_hash)
        BY <2>1, <4>2, <4>3 DEF Makers, Stage
      <4>5. DOMAIN fl_hash = 1..Len(fl_hash)
        BY <2>1 DEF Types
      <4>6. PICK k \in 1..Len(fl_hash) : fl_hash[k] = Entry(t)
        BY <4>4, <4>5 DEF Range
      <4>7. QED
        BY <4>3, <4>6 DEF Hashed, Entry
    <3>3. Spare(i) <=> ~Hashed(i)
      BY <2>1, <3>2 DEF Life, Free, Young, Closing, Undone, InUse
    <3>4. QED
      BY <2>2, <2>3, <3>1, <3>3
  <2>5. CASE owners # {}
    <3>1. PICK t \in Threads : tx[t].pc = "insert" /\ tx[t].id = i
      BY <2>5
    <3>2. owners = {t}
      BY <2>1, <3>1 DEF Makers, Alone, Making
    <3>3. Cardinality(owners) = 1
      BY <3>2, FS_Singleton
    <3>4. ~Hashed(i)
      BY <2>1, <3>1 DEF Makers, Stage
    <3>5. Made(i)
      BY <3>1 DEF Made, Maker, Making
    <3>6. ~Spare(i)
      BY <2>1, <3>5 DEF Life, Free, Young, Closing, Undone, InUse
    <3>7. QED
      BY <2>2, <2>3, <3>3, <3>4, <3>6
  <2>6. QED
    BY <2>4, <2>5
<1>2. QED
  BY <1>1, IInvHolds, PTL

\* The counter that limits the rings counts the chain, but for the threads on
\* the way to the increment (dhd_flowid_lookup, dhd_flowid_free).
THEOREM Counter == Spec => []CounterExact
<1>1. IInv => CounterExact
  BY DEF IInv, Counted, Entering, CounterExact
<1>2. QED
  BY <1>1, IInvHolds, PTL

\* The dongle never reads a ring by DMA whose memory the host has taken back,
\* whatever deletes and late responses are on the way
\* (dhd_bus_clean_flow_ring, dhd_bus_flow_ring_delete_response).
THEOREM Backed == Spec => []DongleRingBacked
<1>1. IInv => DongleRingBacked
  <2> SUFFICES ASSUME IInv, NEW i \in Ids, dongle[i] # NoStation
               PROVE  /\ i \in inited
                      /\ node[i].active /\ node[i].da = dongle[i]
                      /\ [da |-> dongle[i], id |-> i] \in Range(fl_hash)
                      /\ h2d # << >> => ~(Head(h2d).type = "create" /\ Head(h2d).id = i)
    BY DEF DongleRingBacked
  <2>1. Life(i) /\ Stationed(i) /\ Types /\ Has(i)
    BY DEF IInv, Core, Has
  <2>2. InUse(i)
    BY <2>1 DEF Life, Free, Young, Closing, Undone, Calm
  <2>3. i \in inited /\ node[i].active /\ ~Asked(i)
    BY <2>1, <2>2 DEF InUse, Pooled, Active
  <2>4. node[i].da = dongle[i] /\ [da |-> dongle[i], id |-> i] \in Range(fl_hash)
    BY <2>1, <2>3 DEF Stationed, Active
  <2>5. h2d # << >> => Head(h2d) \notin Creates(i) /\ Head(h2d) \in Messages
    BY <2>1, <2>3, Taken DEF Types, Asked
  <2>6. h2d # << >> => ~(Head(h2d).type = "create" /\ Head(h2d).id = i)
    BY <2>5, RequestKinds
  <2>7. QED
    BY <2>3, <2>4, <2>6
<1>2. QED
  BY <1>1, IInvHolds, PTL

\* An id that can be allocated was left clean by its last owner, and no node
\* is twice on the list of active rings (dhd_bus_clean_flow_ring).
THEOREM Clean == Spec => []FreeIsClean
<1>1. IInv => FreeIsClean
  <2> SUFFICES ASSUME IInv PROVE FreeIsClean
    OBVIOUS
  <2>1. Types /\ Chains /\ \A i \in Ids : Life(i)
    BY DEF IInv, Core
  <2>2. ASSUME NEW i \in Range(idmap)
        PROVE  ~node[i].active /\ i \notin inited /\ i \notin Range(flowring_active_list)
    <3>1. i \in Ids /\ Spare(i)
      BY <2>1 DEF Types, Range, Spare
    <3>2. Free(i)
      BY <2>1, <3>1 DEF Life, Young, Closing, Undone, InUse
    <3>3. QED
      BY <3>2 DEF Free, Bare, Pooled, Listed, Active
  <2>3. QED
    BY <2>1, <2>2 DEF Chains, FreeIsClean
<1>2. QED
  BY <1>1, IInvHolds, PTL

-----------------------------------------------------------------------------
(* The rings of a station that has left *)

\* A ring whose node is left alone keeps its status ...
LEMMA StatusKept ==
  ASSUME NEW x, Status(x), Active(x)' => Active(x), Listed(x)' => Listed(x),
         node'[x].status = node[x].status, node'[x].da = node[x].da,
         missed \subseteq missed',
         \A u \in Threads : Maker(u, x)' => Maker(u, x) /\ tx'[u].pc = tx[u].pc,
         Made(x) => Made(x)', Doomed(x) => Doomed(x)'
  PROVE  Status(x)'
BY DEF Status

\* ... and stays doomed, or to be found.
LEMMA LeftKept ==
  ASSUME NEW x, Left(x), Active(x)' => Active(x), Made(x) => Made(x)',
         node'[x].da = node[x].da, sta_list \cup missed \subseteq sta_list' \cup missed',
         Doomed(x) => Doomed(x)', Ahead(x) => Ahead(x)' \/ Doomed(x)'
  PROVE  Left(x)'
BY DEF Left

\* A ring that is not active is in no danger.
LEMMA InactiveFine ==
  ASSUME NEW x, ~Active(x)' PROVE Status(x)' /\ Left(x)'
BY DEF Status, Left

LEMMA AheadKept ==
  ASSUME NEW x, UNCHANGED dpc, node'[x].status = node[x].status,
         node'[x].da = node[x].da
  PROVE  Ahead(x)' <=> Ahead(x)
BY DEF Ahead, Scanning

LEMMA DoomedKept ==
  ASSUME NEW x, UNCHANGED <<h2d, dongle>>, Removed(x) => Removed(x)',
         Refused(x) => Refused(x)'
  PROVE  Doomed(x) => Doomed(x)'
BY Same, SameWire DEF Doomed

\* A step of no thread that leaves the nodes and the stations alone.
LEMMA PlainLeft ==
  ASSUME Core, JInv, NodesKept, UNCHANGED <<sta_list, missed, tx>>,
         \A x \in Ids : (Listed(x)' => Listed(x)) /\ (Doomed(x) => Doomed(x)'),
         \/ UNCHANGED <<dpc, idmap>>
         \/ ~Scanning /\ ~Scanning'
  PROVE  JInv'
<1>1. Wanted /\ Hunt /\ \A x \in Ids : Status(x) /\ Left(x)
  BY DEF JInv
<1>2. \A x \in Ids : /\ node'[x].active = node[x].active
                     /\ node'[x].status = node[x].status
                     /\ node'[x].da = node[x].da
  BY DEF NodesKept
<1>3. Wanted'
  BY <1>1 DEF Wanted
<1>4. Hunt'
  <2>1. CASE UNCHANGED <<dpc, idmap>>
    <3>1. dpc.pc = "delete" => dpc.id \in Ids
      BY DEF Core, DpcAt
    <3>2. QED
      BY <1>1, <1>2, <2>1, <3>1 DEF Hunt, Scanning, Spare, Maker
  <2>2. CASE ~Scanning'
    BY <2>2 DEF Hunt, Scanning
  <2>3. QED
    BY <2>1, <2>2
<1>5. ASSUME NEW x \in Ids PROVE Status(x)' /\ Left(x)'
  <2>1. (Active(x)' <=> Active(x)) /\ (Made(x)' <=> Made(x))
    BY <1>2, Same DEF Active
  <2>2. \A u \in Threads : Maker(u, x)' => Maker(u, x) /\ tx'[u].pc = tx[u].pc
    BY DEF Maker
  <2>3. Ahead(x) => Ahead(x)'
    <3>1. CASE UNCHANGED <<dpc, idmap>>
      BY <1>2, <3>1, AheadKept
    <3>2. CASE ~Scanning
      BY <3>2 DEF Ahead
    <3>3. QED
      BY <3>1, <3>2
  <2>4. Status(x)'
    BY <1>1, <1>2, <2>1, <2>2, StatusKept
  <2>5. Left(x)'
    BY <1>1, <1>2, <2>1, <2>3, LeftKept
  <2>6. QED
    BY <2>4, <2>5
<1>6. QED
  BY <1>3, <1>4, <1>5 DEF JInv

LEMMA SendsLeft ==
  ASSUME Core, JInv, NEW t \in Threads, Sends(t) PROVE JInv'
<1> USE DEF table
<1>1. Wanted /\ Hunt /\ \A x \in Ids : Status(x) /\ Left(x)
  BY DEF JInv
<1>2. /\ UNCHANGED <<idmap, flowring_active_list, sta_list, h2d, d2h, dongle, dpc, missed>>
      /\ NodesKept
      /\ \A u \in Threads : u # t => tx'[u] = tx[u]
      /\ tx[t].pc \notin Making /\ tx'[t].pc \notin Making
      /\ tx'[t].pc = "alloc" => tx'[t].da \in sta_list
  BY SendsShape DEF Core
<1>3. \A x \in Ids : /\ node'[x].active = node[x].active
                     /\ node'[x].status = node[x].status
                     /\ node'[x].da = node[x].da
  BY <1>2 DEF NodesKept
<1>4. Wanted'
  BY <1>1, <1>2 DEF Wanted, Making
<1>5. \A x, u : u \in Threads /\ Maker(u, x)' => Maker(u, x) /\ tx'[u].pc = tx[u].pc
  BY <1>2 DEF Maker
<1>6. Hunt'
  <2>1. dpc.pc = "delete" => dpc.id \in Ids
    BY DEF Core, DpcAt
  <2>2. \A u \in Threads : Maker(u, dpc.id)' => Maker(u, dpc.id) /\ tx'[u].pc = tx[u].pc
    BY <1>2 DEF Maker
  <2>3. QED
    BY <1>1, <1>2, <1>3, <2>1, <2>2 DEF Hunt, Scanning, Spare
<1>7. ASSUME NEW x \in Ids PROVE Status(x)' /\ Left(x)'
  <2>1. (Active(x)' <=> Active(x)) /\ (Made(x)' <=> Made(x)) /\ (Listed(x)' <=> Listed(x))
    <3>1. Made(x)' <=> Made(x)
      BY <1>2, MadeKept
    <3>2. QED
      BY <1>2, <1>3, <3>1, Same DEF Active
  <2>2. Doomed(x) => Doomed(x)'
    BY <1>2, SameWire, DoomedKept
  <2>3. Ahead(x)' <=> Ahead(x)
    BY <1>2, <1>3, AheadKept
  <2>4. Status(x)'
    BY <1>1, <1>2, <1>3, <1>5, <2>1, <2>2, StatusKept
  <2>5. Left(x)'
    BY <1>1, <1>2, <1>3, <2>1, <2>2, <2>3, LeftKept
  <2>6. QED
    BY <2>4, <2>5
<1>8. QED
  BY <1>4, <1>6, <1>7 DEF JInv

\* The rings that thread t is not making.
LEMMA OthersLeft ==
  ASSUME JInv, NEW t \in Threads, NEW x \in Ids, ~Maker(t, x), ~Maker(t, x)',
         UNCHANGED <<flowring_active_list, sta_list, missed, dpc>>,
         node'[x] = node[x],
         \A u \in Threads : u # t => tx'[u] = tx[u],
         Doomed(x) => Doomed(x)'
  PROVE  Status(x)' /\ Left(x)'
<1>1. Status(x) /\ Left(x)
  BY DEF JInv
<1>2. \A u \in Threads : Maker(u, x)' => Maker(u, x) /\ tx'[u].pc = tx[u].pc
  BY DEF Maker
<1>3. Made(x) => Made(x)'
  BY DEF Made, Maker
<1>4. (Active(x)' <=> Active(x)) /\ (Listed(x)' <=> Listed(x))
  BY Same DEF Active
<1>5. Ahead(x)' <=> Ahead(x)
  BY AheadKept
<1>6. Status(x)'
  BY <1>1, <1>2, <1>3, <1>4, StatusKept
<1>7. Left(x)'
  BY <1>1, <1>3, <1>4, <1>5, LeftKept
<1>8. QED
  BY <1>6, <1>7

LEMMA HuntKept ==
  ASSUME Hunt, UNCHANGED <<sta_list, dpc>>,
         dpc.pc = "delete" =>
           /\ Spare(dpc.id)' => Spare(dpc.id)
           /\ node'[dpc.id].da = node[dpc.id].da
           /\ \A u \in Threads : Maker(u, dpc.id)' => tx'[u].pc \in {"create", "undo"}
  PROVE  Hunt'
BY DEF Hunt, Scanning

LEMMA AllocLeft ==
  ASSUME Core, JInv, NEW t \in Threads, AllocId(t) PROVE JInv'
<1>1. /\ Types /\ Chains /\ Makers /\ DpcAt /\ Wanted /\ Hunt
      /\ \A x \in Ids : Life(x)
  BY DEF JInv, Core
<1>2. PICK i : i = tx'[t].id
  OBVIOUS
<1>3. /\ UNCHANGED <<fl_hash, node, flowring_active_list, sta_list, h2d, d2h, dongle,
                     dpc, missed>>
      /\ \A u \in Threads : u # t => tx'[u] = tx[u]
      /\ tx[t].pc = "alloc"
      /\ \/ tx'[t].pc = "idle" /\ UNCHANGED idmap
         \/ /\ idmap # << >> /\ idmap' = Tail(idmap) /\ i = Head(idmap) /\ i \in Ids
            /\ tx'[t].pc = "insert" /\ tx'[t].da = tx[t].da
  BY <1>1, <1>2, AllocShape
<1>4. Wanted'
  BY <1>1, <1>3 DEF Wanted
<1>5. tx'[t].pc = "insert" =>
        Spare(i) /\ ~Active(i) /\ Range(idmap') = Range(idmap) \ {i}
  <2>1. SUFFICES ASSUME tx'[t].pc = "insert"
                 PROVE  Spare(i) /\ ~Active(i) /\ Range(idmap') = Range(idmap) \ {i}
    OBVIOUS
  <2>2. Spare(i) /\ Range(idmap') = Range(idmap) \ {i}
    <3>1. idmap # << >> /\ idmap' = Tail(idmap) /\ i = Head(idmap)
      BY <1>3, <2>1
    <3>2. idmap \in Seq(Ids) /\ IsInjective(idmap)
      BY <1>1 DEF Types, Chains
    <3>3. QED
      BY <3>1, <3>2, Popped DEF Spare
  <2>3. Life(i)
    BY <1>1, <1>3, <2>1
  <2>4. QED
    BY <2>2, <2>3 DEF Life, Free, Young, Closing, Undone, InUse
<1>6. Hunt'
  <2>1. Spare(dpc.id)' => Spare(dpc.id)
    BY <1>3, <1>5 DEF Spare
  <2>2. dpc.pc = "delete" =>
          \A u \in Threads : Maker(u, dpc.id)' => tx'[u].pc \in {"create", "undo"}
    <3>1. SUFFICES ASSUME dpc.pc = "delete", NEW u \in Threads, Maker(u, dpc.id)'
                   PROVE  tx'[u].pc \in {"create", "undo"}
      OBVIOUS
    <3>2. ~Spare(dpc.id)
      BY <1>1, <3>1 DEF Hunt
    <3>3. u # t
      BY <1>2, <1>3, <1>5, <3>1, <3>2 DEF Maker, Making
    <3>4. QED
      BY <1>1, <1>3, <3>1, <3>3 DEF Hunt, Maker
  <2>3. QED
    BY <1>1, <1>3, <2>1, <2>2, HuntKept
<1>7. ASSUME NEW x \in Ids PROVE Status(x)' /\ Left(x)'
  <2>1. Doomed(x) => Doomed(x)'
    BY <1>3, SameWire, DoomedKept
  <2>2. CASE x = i /\ tx'[t].pc = "insert"
    <3>1. ~Active(x)'
      BY <1>3, <1>5, <2>2 DEF Active
    <3>2. QED
      BY <3>1, InactiveFine
  <2>3. CASE ~(x = i /\ tx'[t].pc = "insert")
    <3>1. ~Maker(t, x) /\ ~Maker(t, x)'
      BY <1>2, <1>3, <2>3 DEF Maker, Making
    <3>2. QED
      BY <1>3, <2>1, <3>1, OthersLeft
  <2>4. QED
    BY <2>2, <2>3
<1>8. QED
  BY <1>4, <1>6, <1>7 DEF JInv

LEMMA MakeLeft ==
  ASSUME Core, JInv, NEW t \in Threads, InsertHash(t) \/ InitNode(t) PROVE JInv'
<1>1. /\ Types /\ Makers /\ DpcAt /\ Wanted /\ Hunt /\ \A x \in Ids : Life(x)
  BY DEF JInv, Core
<1>2. PICK i : i = tx[t].id
  OBVIOUS
<1>3. /\ UNCHANGED <<idmap, flowring_active_list, sta_list, h2d, d2h, dongle, dpc,
                     missed>>
      /\ \A u \in Threads : u # t => tx'[u] = tx[u]
      /\ tx[t].pc \in {"insert", "init"} /\ i \in Ids
      /\ tx'[t].pc \in {"init", "create"} /\ tx'[t].da = tx[t].da /\ tx'[t].id = i
      /\ \A x \in Ids : x # i => node'[x] = node[x]
      /\ \/ UNCHANGED node /\ ~Active(i)
         \/ node'[i].active /\ node'[i].status = "CREATE_PENDING"
  <2>1. CASE InsertHash(t)
    <3>1. /\ UNCHANGED <<idmap, node, flowring_active_list, sta_list, h2d, d2h, dongle,
                         dpc, missed>>
          /\ \A u \in Threads : u # t => tx'[u] = tx[u]
          /\ tx[t].pc = "insert" /\ i \in Ids
          /\ tx'[t].pc = "init" /\ tx'[t].da = tx[t].da /\ tx'[t].id = i
      BY <1>1, <1>2, <2>1, InsertShape
    <3>2. ~Active(i)
      BY <1>1, <1>2, <3>1 DEF Makers, Stage
    <3>3. QED
      BY <3>1, <3>2
  <2>2. CASE InitNode(t)
    BY <1>1, <1>2, <2>2, InitShape
  <2>3. QED
    BY <2>1, <2>2
<1>4. Wanted'
  BY <1>1, <1>3 DEF Wanted
<1>5. dpc.pc = "delete" => dpc.id # i /\ dpc.id \in Ids
  BY <1>1, <1>2, <1>3 DEF Hunt, Maker, Making, DpcAt
<1>6. Hunt'
  <2>1. dpc.pc = "delete" =>
          \A u \in Threads : Maker(u, dpc.id)' => tx'[u].pc \in {"create", "undo"}
    BY <1>1, <1>3, <1>5 DEF Hunt, Maker
  <2>2. Spare(dpc.id)' => Spare(dpc.id)
    BY <1>3 DEF Spare
  <2>3. QED
    BY <1>1, <1>3, <1>5, <2>1, <2>2, HuntKept
<1>7. ASSUME NEW x \in Ids PROVE Status(x)' /\ Left(x)'
  <2>1. Doomed(x) => Doomed(x)'
    BY <1>3, SameWire, DoomedKept
  <2>2. CASE x # i
    BY <1>2, <1>3, <2>1, <2>2, OthersLeft DEF Maker
  <2>3. CASE x = i /\ UNCHANGED node /\ ~Active(i)
    BY <2>3, InactiveFine DEF Active
  <2>4. CASE x = i /\ node'[i].active /\ node'[i].status = "CREATE_PENDING"
    <3>1. Made(x) /\ Made(x)'
      BY <1>2, <1>3, <2>4 DEF Made, Maker, Making
    <3>2. ~Listed(x)'
      BY <1>1, <1>3, <3>1, Same DEF Life, Free, Young, Closing, Undone, InUse,
         Bare
    <3>3. QED
      BY <2>4, <3>1, <3>2 DEF Status, Left
  <2>5. QED
    BY <1>3, <2>2, <2>3, <2>4
<1>8. QED
  BY <1>4, <1>6, <1>7 DEF JInv

LEMMA CreateLeft ==
  ASSUME Core, JInv, NEW t \in Threads, CreateRequest(t) PROVE JInv'
<1> USE DEF table
<1>1. /\ Types /\ Makers /\ DpcAt /\ Wanted /\ Hunt
      /\ \A x \in Ids : Status(x) /\ Left(x)
  BY DEF JInv, Core
<1>2. PICK i : i = tx[t].id
  OBVIOUS
<1>3. /\ UNCHANGED <<idmap, node, flowring_active_list, sta_list, d2h, dongle, dpc,
                     missed>>
      /\ \A u \in Threads : u # t => tx'[u] = tx[u]
      /\ tx[t].pc = "create" /\ i \in Ids /\ tx'[t].id = i
      /\ tx'[t].pc \in {"txdata", "undo"}
      /\ \/ UNCHANGED h2d /\ tx'[t].pc = "undo"
         \/ h2d' = Append(h2d, [type |-> "create", id |-> i, da |-> node[i].da])
  BY <1>1, <1>2, CreateShape
<1>4. Active(i) /\ node[i].da = tx[t].da /\ node[i].da \in Stations /\ Maker(t, i)
  BY <1>1, <1>2, <1>3 DEF Makers, Stage, Maker, Making
<1>5. node[i].da \in sta_list \cup missed
  BY <1>1, <1>3, <1>4 DEF Wanted
<1>6. ~(node[i].status = "DELETE_PENDING" /\ node[i].da \notin missed)
  BY <1>1, <1>3, <1>4 DEF Status
<1>7. Wanted'
  BY <1>1, <1>3 DEF Wanted
<1>8. Hunt'
  <2>1. dpc.pc = "delete" =>
          \A u \in Threads : Maker(u, dpc.id)' => tx'[u].pc \in {"create", "undo"}
    BY <1>1, <1>3 DEF Hunt, Maker, Making
  <2>2. Spare(dpc.id)' => Spare(dpc.id)
    BY <1>3 DEF Spare
  <2>3. QED
    BY <1>1, <1>3, <2>1, <2>2, HuntKept
<1>9. ASSUME NEW x \in Ids PROVE Status(x)' /\ Left(x)'
  <2>1. Doomed(x) => Doomed(x)'
    <3>1. CASE UNCHANGED h2d
      BY <1>3, <3>1, SameWire, DoomedKept
    <3>2. CASE h2d' = Append(h2d, [type |-> "create", id |-> i, da |-> node[i].da])
      <4>1. node[i].da \in Stations \cup {NoStation}
        BY <1>4
      <4>2. /\ Asked(x)' <=> Asked(x) \/ x = i
            /\ Some(h2d, Deletes(x))' <=> Some(h2d, Deletes(x))
            /\ Follows(h2d, Creates(x), Deletes(x))' <=>
                 Follows(h2d, Creates(x), Deletes(x))
        BY <1>1, <1>3, <3>2, <4>1, PostCreate
      <4>3. QED
        BY <1>3, <4>2, Same, SameWire DEF Doomed
    <3>3. QED
      BY <1>3, <3>1, <3>2
  <2>2. CASE x # i
    BY <1>2, <1>3, <2>1, <2>2, OthersLeft DEF Maker
  <2>3. CASE x = i
    <3>1. (Active(x)' <=> Active(x)) /\ (Listed(x)' <=> Listed(x))
      BY <1>3, Same
    <3>2. Status(x)'
      BY <1>1, <1>3, <1>4, <1>6, <2>3, <3>1 DEF Status
    <3>3. Left(x)'
      BY <1>3, <1>5, <2>3 DEF Left
    <3>4. QED
      BY <3>2, <3>3
  <2>4. QED
    BY <2>2, <2>3
<1>10. QED
  BY <1>7, <1>8, <1>9 DEF JInv

LEMMA UndoLeft ==
  ASSUME Core, JInv, NEW t \in Threads, Undo(t) PROVE JInv'
<1> USE DEF table
<1>1. Types /\ Makers /\ DpcAt /\ Wanted /\ Hunt
  BY DEF JInv, Core
<1>2. PICK i : i = tx[t].id
  OBVIOUS
<1>3. /\ UNCHANGED <<idmap, flowring_active_list, sta_list, h2d, d2h, dongle, dpc,
                     missed>>
      /\ \A u \in Threads : u # t => tx'[u] = tx[u]
      /\ tx[t].pc = "undo" /\ i \in Ids /\ tx'[t].pc = "idle"
      /\ \A x \in Ids : x # i => node'[x] = node[x]
      /\ ~node'[i].active /\ node'[i].da = node[i].da
  BY <1>1, <1>2, UndoShape
<1>4. Wanted'
  BY <1>1, <1>3 DEF Wanted
<1>5. Hunt'
  <2>1. dpc.pc = "delete" =>
          /\ node'[dpc.id].da = node[dpc.id].da
          /\ \A u \in Threads : Maker(u, dpc.id)' => tx'[u].pc \in {"create", "undo"}
    BY <1>1, <1>3 DEF Hunt, Maker, Making, DpcAt
  <2>2. Spare(dpc.id)' => Spare(dpc.id)
    BY <1>3 DEF Spare
  <2>3. QED
    BY <1>1, <1>3, <2>1, <2>2, HuntKept
<1>6. ASSUME NEW x \in Ids PROVE Status(x)' /\ Left(x)'
  <2>1. Doomed(x) => Doomed(x)'
    BY <1>3, SameWire, DoomedKept
  <2>2. CASE x # i
    BY <1>2, <1>3, <2>1, <2>2, OthersLeft DEF Maker, Making
  <2>3. CASE x = i
    BY <1>3, <2>3, InactiveFine DEF Active
  <2>4. QED
    BY <2>2, <2>3
<1>7. QED
  BY <1>4, <1>5, <1>6 DEF JInv

\* A step from and to a DPC that does not scan, with the threads left alone:
\* the rings that are not touched.
LEMMA UntouchedLeft ==
  ASSUME JInv, NEW x \in Ids, UNCHANGED <<sta_list, missed, tx>>, ~Scanning,
         Listed(x)' => Listed(x), node'[x] = node[x], Doomed(x) => Doomed(x)'
  PROVE  Status(x)' /\ Left(x)'
<1>1. Status(x) /\ Left(x)
  BY DEF JInv
<1>2. \A u \in Threads : Maker(u, x)' => Maker(u, x) /\ tx'[u].pc = tx[u].pc
  BY DEF Maker
<1>3. (Active(x)' <=> Active(x)) /\ (Made(x)' <=> Made(x))
  BY Same DEF Active
<1>4. ~Ahead(x)
  BY DEF Ahead
<1>5. Status(x)'
  BY <1>1, <1>2, <1>3, StatusKept
<1>6. Left(x)'
  BY <1>1, <1>3, <1>4, LeftKept
<1>7. QED
  BY <1>5, <1>6

LEMMA CloseLeft ==
  ASSUME Core, JInv, NEW i \in Ids, CloseNode(i), dpc.pc = "idle",
         UNCHANGED <<flowring_active_list, sta_list, h2d, dongle, tx, missed>>,
         \A x \in Ids : x # i =>
           (Refused(x) => Refused(x)') /\ (Removed(x) => Removed(x)')
  PROVE  JInv'
<1>1. /\ \A k \in Ids : k # i => node'[k] = node[k]
      /\ ~node'[i].active /\ dpc'.pc = "list"
  BY CloseShape DEF Core
<1>2. Wanted' /\ Hunt'
  BY <1>1 DEF JInv, Wanted, Hunt, Scanning
<1>3. ASSUME NEW x \in Ids PROVE Status(x)' /\ Left(x)'
  <2>1. CASE x = i
    BY <1>1, <2>1, InactiveFine DEF Active
  <2>2. CASE x # i
    <3>1. Doomed(x) => Doomed(x)'
      BY <2>2, DoomedKept
    <3>2. (Listed(x)' => Listed(x)) /\ ~Scanning
      BY Same DEF Scanning
    <3>3. QED
      BY <1>1, <2>2, <3>1, <3>2, UntouchedLeft
  <2>3. QED
    BY <2>1, <2>2
<1>4. QED
  BY <1>2, <1>3 DEF JInv

LEMMA CreateResponseLeft ==
  ASSUME Core, JInv, CreateResponse PROVE JInv'
<1> USE DEF table, device, counts
<1>1. PICK r, i : r = Head(d2h) /\ i = r.id
  OBVIOUS
<1>2. /\ Receives("created") /\ d2h' = Tail(d2h)
      /\ UNCHANGED <<sta_list, h2d, dongle, tx, missed>>
      /\ dpc.pc = "idle"
  BY DEF CreateResponse, Receives
<1>3. /\ i \in Ids /\ InUse(i)
      /\ Refused(i) <=> ~r.ok
      /\ \A x \in Ids :
           /\ x # i => (Refused(x)' <=> Refused(x))
           /\ (Removed(x)' <=> Removed(x))
  BY <1>1, <1>2, AnswerAtHead
<1>4. CASE ~r.ok
  <2>1. CloseNode(i) /\ UNCHANGED flowring_active_list
    BY <1>1, <1>4 DEF CreateResponse
  <2>2. QED
    BY <1>2, <1>3, <2>1, CloseLeft
<1>5. CASE r.ok
  <2>1. /\ node' = [node EXCEPT ![i].status = "OPEN"]
        /\ flowring_active_list' = <<i>> \o flowring_active_list
        /\ dpc' = [dpc EXCEPT !.pc = "kick", !.id = i]
    BY <1>1, <1>5 DEF CreateResponse
  <2>2. Types /\ Chains
    BY DEF Core
  <2>3. /\ \A k \in Ids : k # i => node'[k] = node[k]
        /\ node'[i].active = node[i].active /\ node'[i].da = node[i].da
        /\ node'[i].status = "OPEN"
    BY <1>3, <2>1, <2>2 DEF Nodes, Types
  <2>4. dpc'.pc = "kick"
    BY <2>1, <2>2 DEF Types, Works
  <2>5. ~Scanning /\ ~Scanning'
    BY <1>2, <2>4 DEF Scanning
  <2>6. Wanted' /\ Hunt'
    BY <1>2, <2>5 DEF JInv, Wanted, Hunt, Scanning
  <2>7. Range(flowring_active_list') = Range(flowring_active_list) \cup {i}
    <3>1. ~Listed(i)
      <4>1. Answered(i)
        BY <1>1, <1>2, AnswerAtHead
      <4>2. QED
        BY <1>3, <4>1 DEF InUse
    <3>2. QED
      BY <1>3, <2>1, <2>2, <3>1, Prepended DEF Types, Chains, Listed
  <2>8. ASSUME NEW x \in Ids PROVE Status(x)' /\ Left(x)'
    <3>1. Doomed(x) => Doomed(x)'
      BY <1>2, <1>3, <1>5, DoomedKept
    <3>2. CASE x # i
      <4>1. Listed(x)' => Listed(x)
        BY <2>7, <3>2 DEF Listed
      <4>2. QED
        BY <1>2, <2>3, <2>5, <3>1, <3>2, <4>1, UntouchedLeft
    <3>3. CASE x = i
      <4>1. Status(x)'
        BY <2>3, <3>3 DEF Status
      <4>2. (Active(x)' <=> Active(x)) /\ (Made(x)' <=> Made(x))
        BY <1>2, <2>3, <3>3, Same DEF Active
      <4>3. Left(x) /\ ~Ahead(x)
        BY <2>5 DEF JInv, Ahead
      <4>4. Left(x)'
        BY <1>2, <2>3, <3>1, <3>3, <4>2, <4>3, LeftKept
      <4>5. QED
        BY <4>1, <4>4
    <3>4. QED
      BY <3>2, <3>3
  <2>9. QED
    BY <2>6, <2>8 DEF JInv
<1>6. QED
  BY <1>4, <1>5

LEMMA DeleteResponseLeft ==
  ASSUME Core, JInv, DeleteResponse PROVE JInv'
<1> USE DEF table, device, counts
<1>1. PICK r, i : r = Head(d2h) /\ i = r.id
  OBVIOUS
<1>2. /\ Receives("deleted") /\ d2h' = Tail(d2h)
      /\ UNCHANGED <<idmap, flowring_active_list, sta_list, h2d, dongle, tx, missed>>
      /\ dpc.pc = "idle" /\ d2h # << >> /\ r.type = "deleted"
  BY <1>1 DEF DeleteResponse, Receives
<1>3. CASE r.ok
  <2>1. /\ i \in Ids
        /\ \A x \in Ids :
             /\ Refused(x)' <=> Refused(x)
             /\ x # i => (Removed(x)' <=> Removed(x))
    BY <1>1, <1>2, <1>3, RemovalAtHead
  <2>2. CloseNode(i)
    BY <1>1, <1>3 DEF DeleteResponse
  <2>3. QED
    BY <1>2, <2>1, <2>2, CloseLeft
<1>4. CASE ~r.ok
  <2>1. UNCHANGED <<node, dpc>>
    BY <1>1, <1>4 DEF DeleteResponse
  <2>2. NodesKept
    BY <2>1 DEF Core, Types, NodesKept
  <2>3. \A x \in Ids : (Refused(x)' <=> Refused(x)) /\ (Removed(x)' <=> Removed(x))
    BY <1>1, <1>2, <1>4, ReceivePlain
  <2>4. \A x \in Ids : (Listed(x)' => Listed(x)) /\ (Doomed(x) => Doomed(x)')
    BY <1>2, <2>3, Same, DoomedKept
  <2>5. QED
    BY <1>2, <2>1, <2>2, <2>4, PlainLeft
<1>5. QED
  BY <1>3, <1>4

\* The rest of the DPC's work that sends no delete.
LEMMA WorkLeft ==
  ASSUME Core, JInv, Drains \/ CleanList \/ dhd_flowid_free PROVE JInv'
<1> USE DEF table, host, wire, device, counts
<1>1. Types /\ Chains /\ DpcAt
  BY DEF Core
<1>2. UNCHANGED <<sta_list, missed, tx, h2d, d2h, dongle>>
  BY DEF Drains, Kick, dhd_update_txflowrings, CleanList, dhd_flowid_free
<1>3. ~Scanning /\ ~Scanning'
  <2>1. CASE Drains
    BY <2>1 DEF Drains, Kick, dhd_update_txflowrings, DpcIdle, Scanning
  <2>2. CASE CleanList
    BY <1>1, <2>2 DEF CleanList, Types, Works, Scanning
  <2>3. CASE dhd_flowid_free
    BY <2>3 DEF dhd_flowid_free, DpcIdle, Scanning
  <2>4. QED
    BY <2>1, <2>2, <2>3
<1>4. NodesKept
  <2>1. CASE Kick
    <3>1. dhd_bus_schedule_queue(dpc.id) /\ dpc.id \in Ids
      BY <1>1, <2>1 DEF Kick, DpcAt
    <3>2. QED
      BY <1>1, <3>1, Schedule
  <2>2. CASE dhd_update_txflowrings
    <3>1. PICK i \in Range(flowring_active_list) : dhd_bus_schedule_queue(i)
      BY <2>2 DEF dhd_update_txflowrings
    <3>2. i \in Ids
      BY <1>1, <3>1 DEF Types, Range
    <3>3. QED
      BY <1>1, <3>1, <3>2, Schedule
  <2>3. CASE CleanList \/ dhd_flowid_free
    BY <1>1, <2>3 DEF CleanList, dhd_flowid_free, Types, NodesKept
  <2>4. QED
    BY <2>1, <2>2, <2>3 DEF Drains
<1>5. \A x \in Ids : Listed(x)' => Listed(x)
  <2>1. CASE UNCHANGED flowring_active_list
    BY <2>1, Same
  <2>2. CASE CleanList
    <3>1. flowring_active_list' = RemoveFirst(flowring_active_list, dpc.id)
      BY <2>2 DEF CleanList
    <3>2. Range(flowring_active_list') = Range(flowring_active_list) \ {dpc.id}
      BY <1>1, <3>1, Delisted DEF Types, Chains
    <3>3. QED
      BY <3>2 DEF Listed
  <2>3. QED
    BY <2>1, <2>2 DEF Drains, Kick, dhd_update_txflowrings, dhd_flowid_free
<1>6. \A x \in Ids : Doomed(x) => Doomed(x)'
  BY <1>2, SameWire, DoomedKept
<1>7. QED
  BY <1>2, <1>3, <1>4, <1>5, <1>6, PlainLeft

\* The events: what the stations that leave do to the rings.
LEMMA EventLeft ==
  ASSUME Core, JInv, Assoc \/ Disassoc \/ Link PROVE JInv'
<1> USE DEF table, device, counts
<1>1. PICK r : r = Head(d2h)
  OBVIOUS
<1>2. /\ dpc.pc = "idle" /\ d2h # << >> /\ d2h' = Tail(d2h)
      /\ r.type \in {"ASSOC", "DISASSOC", "LINK"}
      /\ UNCHANGED <<idmap, node, flowring_active_list, h2d, dongle, tx>>
      /\ missed \subseteq missed'
  BY <1>1 DEF Assoc, Disassoc, Link, Receives
<1>3. /\ Types /\ Wanted /\ ~Scanning
      /\ \A x \in Ids : Status(x) /\ Left(x) /\ Stationed(x)
  BY <1>2 DEF Core, JInv, Scanning
<1>4. r \in Notices
  <2>1. r \in Responses \cup Notices
    BY <1>1, <1>2, <1>3 DEF Types
  <2>2. QED
    BY <1>2, <2>1 DEF Responses
<1>5. \A x \in Ids : (Doomed(x) => Doomed(x)') /\ ~Ahead(x)
  <2>1. \A x \in Ids : (Refused(x)' <=> Refused(x)) /\ (Removed(x)' <=> Removed(x))
    BY <1>1, <1>2, ReceivePlain
  <2>2. QED
    BY <1>2, <1>3, <2>1, DoomedKept DEF Ahead
<1>6. \A x \in Ids : (Active(x)' <=> Active(x)) /\ (Made(x)' <=> Made(x))
                     /\ (Listed(x)' <=> Listed(x))
  BY <1>2, Same
<1>7. ASSUME NEW x \in Ids PROVE Status(x)'
  <2>1. \A u \in Threads : Maker(u, x)' => Maker(u, x) /\ tx'[u].pc = tx[u].pc
    BY <1>2 DEF Maker
  <2>2. QED
    BY <1>2, <1>3, <1>5, <1>6, <2>1, StatusKept
<1>8. CASE sta_list \subseteq sta_list' /\ UNCHANGED dpc
  <2>1. Wanted' /\ Hunt'
    BY <1>2, <1>3, <1>8 DEF Wanted, Hunt, Scanning
  <2>2. \A x \in Ids : Left(x)'
    BY <1>2, <1>3, <1>5, <1>6, <1>8, LeftKept
  <2>3. QED
    BY <1>7, <2>1, <2>2 DEF JInv
<1>9. CASE Disassoc
  <2>1. r.da \in Stations
    BY <1>1, <1>4, <1>9 DEF Disassoc, Receives, Notices
  <2>2. /\ sta_list' = sta_list \ {r.da}
        /\ dpc' = [pc |-> "peer", id |-> 1, da |-> r.da]
        /\ Creating(r.da) => r.da \in missed'
    BY <1>1, <1>9 DEF Disassoc
  <2>3. dpc'.pc = "peer" /\ dpc'.id = 1 /\ dpc'.da = r.da
    BY <2>2
  <2>4. Wanted'
    BY <1>2, <1>3, <2>2 DEF Wanted, Creating
  <2>5. Hunt'
    BY <2>1, <2>2, <2>3 DEF Hunt, Scanning
  <2>6. ASSUME NEW x \in Ids PROVE Left(x)'
    <3>1. node[x].da = r.da => Ahead(x)'
      <4>1. 1 <= x
        BY DEF Ids
      <4>2. QED
        BY <1>2, <2>3, <4>1 DEF Ahead, Scanning
    <3>2. QED
      BY <1>2, <1>3, <1>5, <1>6, <2>2, <3>1 DEF Left
  <2>7. QED
    BY <1>7, <2>4, <2>5, <2>6 DEF JInv
<1>10. CASE Link /\ ~r.up
  <2>1. /\ sta_list' = {} /\ dpc' = [pc |-> "all", id |-> 1, da |-> NoStation]
        /\ missed' = missed \cup {da \in Stations :
                        \/ Creating(da)
                        \/ \E k \in Ids : node[k].da = da /\ node[k].status = "CREATE_PENDING"}
    BY <1>1, <1>10 DEF Link
  <2>2. dpc'.pc = "all" /\ dpc'.id = 1 /\ dpc'.da = NoStation
    BY <2>1
  <2>3. \A t \in Threads :
          tx[t].pc \in {"alloc", "insert", "init", "create"} => tx[t].da \in Stations
    BY DEF Core, Makers, Stage
  <2>4. Wanted'
    BY <1>2, <2>1, <2>3 DEF Wanted, Creating
  <2>5. Hunt'
    BY <2>1, <2>2 DEF Hunt, Scanning
  <2>6. ASSUME NEW x \in Ids PROVE Left(x)'
    <3>1. node[x].status # "CREATE_PENDING" => Ahead(x)'
      <4>1. 1 <= x
        BY DEF Ids
      <4>2. QED
        BY <1>2, <2>2, <4>1 DEF Ahead, Scanning
    <3>2. Active(x) /\ node[x].status = "CREATE_PENDING" => node[x].da \in missed'
      BY <1>3, <2>1 DEF Stationed
    <3>3. QED
      BY <1>2, <1>6, <3>1, <3>2 DEF Left
  <2>7. QED
    BY <1>7, <2>4, <2>5, <2>6 DEF JInv
<1>11. CASE Assoc
  <2>1. sta_list \subseteq sta_list' /\ UNCHANGED dpc
    BY <1>11 DEF Assoc
  <2>2. QED
    BY <1>8, <2>1
<1>12. CASE Link /\ r.up
  <2>1. UNCHANGED <<sta_list, dpc>>
    BY <1>1, <1>12 DEF Link
  <2>2. QED
    BY <1>8, <2>1
<1>13. QED
  BY <1>9, <1>10, <1>11, <1>12

\* The scan passes no ring of the station but one whose delete is on its way.
LEMMA ScanLeft ==
  ASSUME Core, JInv, Scan PROVE JInv'
<1>1. /\ Types /\ Makers /\ DpcAt /\ Wanted /\ Hunt
      /\ \A x \in Ids : Status(x) /\ Left(x) /\ Stationed(x) /\ Life(x)
  BY DEF Core, JInv
<1>2. PICK i : i = dpc.id
  OBVIOUS
<1>3. /\ UNCHANGED <<idmap, node, flowring_active_list, sta_list, h2d, d2h, dongle, tx,
                     missed>>
      /\ dpc.pc \in {"peer", "all"} /\ i \in Ids
  BY <1>2, ScanShape
<1>4. Wanted'
  BY <1>1, <1>3 DEF Wanted
<1>5. ASSUME NEW x \in Ids
      PROVE  /\ Doomed(x) => Doomed(x)'
             /\ (Active(x)' <=> Active(x)) /\ (Made(x)' <=> Made(x))
             /\ Status(x)'
  <2>1. \A u \in Threads : Maker(u, x)' => Maker(u, x) /\ tx'[u].pc = tx[u].pc
    BY <1>3 DEF Maker
  <2>2. Doomed(x) => Doomed(x)'
    BY <1>3, SameWire, DoomedKept
  <2>3. (Active(x)' <=> Active(x)) /\ (Made(x)' <=> Made(x)) /\ (Listed(x)' <=> Listed(x))
    BY <1>3, Same
  <2>4. Status(x)'
    BY <1>1, <1>3, <2>1, <2>2, <2>3, StatusKept
  <2>5. QED
    BY <2>2, <2>3, <2>4
<1>6. CASE /\ dpc'.pc = "delete" /\ dpc'.id = i /\ dpc'.da = dpc.da
           /\ node[i].active
           /\ dpc.pc = "all" \/ node[i].da = dpc.da
  <2>1. ~Spare(i)
    <3>1. Active(i) /\ Life(i)
      BY <1>1, <1>3, <1>6 DEF Active
    <3>2. QED
      BY <3>1 DEF Life, Free, Young, Closing, Undone, InUse
  <2>2. \A t \in Threads : Maker(t, i) => tx[t].pc \in {"create", "undo"}
    BY <1>1, <1>6 DEF Maker, Making, Makers, Stage, Active
  <2>3. dpc.da # NoStation => node[i].da = dpc.da
    BY <1>1, <1>6 DEF DpcAt
  <2>4. Hunt'
    BY <1>1, <1>3, <1>6, <2>1, <2>2, <2>3 DEF Hunt, Scanning, Spare, Maker
  <2>5. ASSUME NEW x \in Ids PROVE Left(x)'
    <3>1. Ahead(x) => Ahead(x)'
      BY <1>2, <1>3, <1>6 DEF Ahead, Scanning
    <3>2. QED
      BY <1>1, <1>3, <1>5, <3>1, LeftKept
  <2>6. QED
    BY <1>4, <1>5, <2>4, <2>5 DEF JInv
<1>7. CASE /\ ~(/\ node[i].active /\ node[i].status \in Deletable(dpc.pc)
                /\ dpc.pc = "all" \/ node[i].da = dpc.da)
           /\ \/ dpc'.pc = "idle" /\ i = NumRings
              \/ dpc'.pc = dpc.pc /\ dpc'.id = i + 1 /\ dpc'.da = dpc.da
  <2>1. Hunt'
    BY <1>1, <1>3, <1>7 DEF Hunt, Scanning
  <2>2. ASSUME NEW x \in Ids, Active(x), ~Made(x), node[x].da \notin sta_list \cup missed,
               Ahead(x), x = i
        PROVE  Doomed(x)
    <3>1. node[x].status \in Statuses
      BY <1>1 DEF Types, Nodes
    <3>2. node[x].status # "CLOSED" /\ node[x].da \in Stations
      BY <1>1, <2>2 DEF Status, Stationed
    <3>3. dpc.da = node[x].da \/ (dpc.da = NoStation /\ node[x].status # "CREATE_PENDING")
      BY <2>2 DEF Ahead
    <3>4. node[x].status = "DELETE_PENDING"
      <4>1. CASE dpc.pc = "peer"
        <5>1. dpc.da \in Stations
          BY <1>1, <4>1 DEF DpcAt
        <5>2. dpc.da = node[x].da
          BY <3>3, <5>1, FlowAssumption
        <5>3. node[x].status \notin {"OPEN", "CREATE_PENDING"}
          BY <1>7, <2>2, <4>1, <5>2 DEF Deletable, Active
        <5>4. QED
          BY <3>1, <3>2, <5>3 DEF Statuses
      <4>2. CASE dpc.pc = "all"
        <5>1. dpc.da = NoStation
          BY <1>1, <4>2 DEF DpcAt
        <5>2. node[x].status # "CREATE_PENDING"
          BY <3>2, <3>3, <5>1, FlowAssumption
        <5>3. node[x].status # "OPEN"
          BY <1>7, <2>2, <4>2 DEF Deletable, Active
        <5>4. QED
          BY <3>1, <3>2, <5>2, <5>3 DEF Statuses
      <4>3. QED
        BY <1>3, <4>1, <4>2
    <3>5. QED
      BY <1>1, <2>2, <3>4 DEF Status
  <2>3. ASSUME NEW x \in Ids, Ahead(x), x # i PROVE Ahead(x)'
    <3>1. Scanning /\ i <= x /\ x <= NumRings /\ x \in Nat /\ i \in Nat
      BY <1>2, <1>3, <2>3, FlowAssumption DEF Ahead, Ids
    <3>2. i + 1 <= x /\ i # NumRings
      BY <2>3, <3>1, FlowAssumption
    <3>3. QED
      BY <1>3, <1>7, <2>3, <3>2 DEF Ahead, Scanning
  <2>4. ASSUME NEW x \in Ids PROVE Left(x)'
    BY <1>1, <1>3, <1>5, <2>2, <2>3 DEF Left
  <2>5. QED
    BY <1>4, <1>5, <2>1, <2>4 DEF JInv
<1>8. QED
  BY <1>2, <1>6, <1>7, ScanShape

\* A delete request dooms the ring, or its station counts as missed.
LEMMA DeleteLeft ==
  ASSUME Core, JInv, DeleteRequest PROVE JInv'
<1>1. /\ Types /\ Makers /\ DpcAt /\ Wanted /\ Hunt
      /\ \A x \in Ids : Status(x) /\ Left(x) /\ Stationed(x) /\ Life(x)
  BY DEF Core, JInv
<1>2. PICK i : i = dpc.id
  OBVIOUS
<1>3. /\ UNCHANGED <<idmap, flowring_active_list, sta_list, d2h, dongle, tx>>
      /\ dpc.pc = "delete" /\ i \in Ids
      /\ \/ dpc'.pc = "idle" /\ i = NumRings
         \/ dpc'.pc \in {"all", "peer"} /\ dpc'.id = i + 1 /\ dpc'.da = dpc.da
      /\ NodesAlike
      /\ \A k \in Ids : k # i => node'[k] = node[k]
      /\ node'[i].status = "DELETE_PENDING"
      /\ \/ UNCHANGED <<node, h2d, missed>>
         \/ /\ h2d' = Append(h2d, [type |-> "delete", id |-> i, da |-> NoStation])
            /\ UNCHANGED missed
         \/ UNCHANGED h2d /\ missed' = missed \cup {node[i].da}
  BY <1>2, DeleteShape
<1>4. missed \subseteq missed' /\ Scanning
  BY <1>3 DEF Scanning
<1>5. Wanted'
  BY <1>1, <1>3, <1>4 DEF Wanted
<1>6. Hunt'
  BY <1>1, <1>3, <1>4 DEF Hunt, Scanning
<1>7. ASSUME NEW x \in Ids
      PROVE  /\ Doomed(x) => Doomed(x)'
             /\ (Active(x)' <=> Active(x)) /\ (Made(x)' <=> Made(x))
             /\ (Listed(x)' <=> Listed(x)) /\ node'[x].da = node[x].da
             /\ \A u \in Threads : Maker(u, x)' => Maker(u, x) /\ tx'[u].pc = tx[u].pc
  <2>1. Doomed(x) => Doomed(x)'
    <3>1. CASE UNCHANGED h2d
      BY <1>3, <3>1, SameWire, DoomedKept
    <3>2. CASE h2d' = Append(h2d, [type |-> "delete", id |-> i, da |-> NoStation])
      <4>1. /\ Asked(x)' <=> Asked(x)
            /\ Some(h2d, Deletes(x)) => Some(h2d, Deletes(x))'
            /\ Follows(h2d, Creates(x), Deletes(x)) =>
                 Follows(h2d, Creates(x), Deletes(x))'
        BY <1>1, <1>3, <3>2, PostDelete
      <4>2. QED
        BY <1>3, <4>1, Same, SameWire DEF Doomed
    <3>3. QED
      BY <1>3, <3>1, <3>2
  <2>2. (Active(x)' <=> Active(x)) /\ node'[x].da = node[x].da
    BY <1>3 DEF NodesAlike, Active
  <2>3. QED
    BY <1>3, <2>1, <2>2, Same DEF Maker
<1>8. ASSUME NEW x \in Ids, x # i PROVE Status(x)' /\ Left(x)'
  <2>1. Ahead(x) => Ahead(x)'
    <3>1. SUFFICES ASSUME Ahead(x) PROVE Ahead(x)'
      OBVIOUS
    <3>2. i <= x /\ x <= NumRings /\ x \in Nat /\ i \in Nat
      BY <1>2, <1>3, <3>1, FlowAssumption DEF Ahead, Ids
    <3>3. i + 1 <= x /\ i # NumRings
      BY <1>8, <3>2, FlowAssumption
    <3>4. node'[x] = node[x]
      BY <1>3, <1>8
    <3>5. QED
      BY <1>3, <3>1, <3>3, <3>4 DEF Ahead, Scanning
  <2>2. node'[x] = node[x]
    BY <1>3, <1>8
  <2>3. Status(x)'
    BY <1>1, <1>4, <1>7, <2>2, StatusKept
  <2>4. Left(x)'
    BY <1>1, <1>3, <1>4, <1>7, <2>1, LeftKept
  <2>5. QED
    BY <2>3, <2>4
<1>9. ASSUME Active(i), ~Made(i), node[i].da \notin missed' PROVE Doomed(i)'
  <2>1. CASE UNCHANGED <<node, h2d, missed>>
    <3>1. Doomed(i)
      BY <1>1, <1>3, <1>9, <2>1 DEF Status
    <3>2. QED
      BY <1>3, <1>7, <3>1
  <2>2. CASE h2d' = Append(h2d, [type |-> "delete", id |-> i, da |-> NoStation])
    <3>1. /\ Asked(i)' <=> Asked(i)
          /\ Some(h2d, Deletes(i))'
          /\ Asked(i) => Follows(h2d, Creates(i), Deletes(i))'
      BY <1>1, <1>3, <2>2, PostDelete
    <3>2. InUse(i)
      BY <1>1, <1>3, <1>9 DEF Life, Free, Young, Closing, Undone
    <3>3. QED
      BY <1>3, <3>1, <3>2, Same, SameWire DEF InUse, Doomed
  <2>3. QED
    BY <1>3, <1>9, <2>1, <2>2
<1>10. ASSUME node[i].da \notin missed', NEW t \in Threads, Maker(t, i)
       PROVE  tx[t].pc = "undo"
  <2>1. tx[t].pc \in {"create", "undo"} /\ tx[t].id = i
    BY <1>1, <1>2, <1>3, <1>10 DEF Hunt, Maker
  <2>2. node[i].da = tx[t].da
    BY <1>1, <2>1 DEF Makers, Stage
  <2>3. node[i].da \notin sta_list
    <3>1. dpc.da # NoStation => node[i].da = dpc.da
      BY <1>1, <1>2, <1>3 DEF Hunt
    <3>2. \/ dpc.da = NoStation /\ sta_list = {}
          \/ dpc.da \in Stations /\ dpc.da \notin sta_list
      BY <1>1, <1>4 DEF Hunt
    <3>3. QED
      BY <3>1, <3>2, FlowAssumption
  <2>4. QED
    BY <1>1, <1>4, <1>10, <2>1, <2>2, <2>3 DEF Wanted
<1>11. Status(i)' /\ Left(i)'
  <2>1. Status(i)'
    <3>1. \A u \in Threads : Maker(u, i)' => Maker(u, i) /\ tx'[u].pc = tx[u].pc
      BY <1>3, <1>7
    <3>2. (Active(i)' <=> Active(i)) /\ (Made(i)' <=> Made(i))
          /\ node'[i].da = node[i].da
      BY <1>3, <1>7
    <3>3. QED
      BY <1>3, <1>9, <1>10, <3>1, <3>2 DEF Status
  <2>2. Left(i)'
    <3>1. (Active(i)' <=> Active(i)) /\ (Made(i)' <=> Made(i))
          /\ node'[i].da = node[i].da
      BY <1>3, <1>7
    <3>2. QED
      BY <1>9, <3>1 DEF Left
  <2>3. QED
    BY <2>1, <2>2
<1>12. QED
  BY <1>5, <1>6, <1>8, <1>11 DEF JInv

\* The dongle changes how a ring is doomed, not that it is.
LEMMA ServeLeft ==
  ASSUME Core, JInv, Serve PROVE JInv'
<1>1. Types /\ \A x \in Ids : Life(x) /\ Single(x)
  BY DEF Core
<1>2. PICK m, i : m = Head(h2d) /\ i = m.id
  OBVIOUS
<1>3. /\ UNCHANGED <<idmap, node, flowring_active_list, sta_list, tx, dpc, missed>>
      /\ h2d # << >> /\ h2d' = Tail(h2d) /\ m \in Messages /\ i \in Ids
      /\ \/ /\ m.type = "create" /\ dongle' = [dongle EXCEPT ![i] = m.da]
            /\ d2h' = Append(d2h, [type |-> "created", id |-> i, ok |-> TRUE])
         \/ /\ m.type = "create" /\ UNCHANGED dongle
            /\ d2h' = Append(d2h, [type |-> "created", id |-> i, ok |-> FALSE])
         \/ /\ m.type = "delete" /\ Has(i)
            /\ dongle' = [dongle EXCEPT ![i] = NoStation]
            /\ d2h' = Append(d2h, [type |-> "deleted", id |-> i, ok |-> TRUE])
         \/ /\ m.type = "delete" /\ ~Has(i) /\ UNCHANGED dongle
            /\ d2h' = Append(d2h, [type |-> "deleted", id |-> i, ok |-> FALSE])
  BY <1>2, ServeShape
<1>4. NodesKept
  BY <1>1, <1>3 DEF Types, NodesKept
<1>5. ASSUME NEW x \in Ids
      PROVE  /\ Asked(x) <=> (m.type = "create" /\ x = i) \/ Asked(x)'
             /\ m.type = "create" /\ x = i => ~Asked(x)'
             /\ Some(h2d, Deletes(x)) <=>
                  (m.type = "delete" /\ x = i) \/ Some(h2d, Deletes(x))'
             /\ Follows(h2d, Creates(x), Deletes(x)) =>
                  \/ Follows(h2d, Creates(x), Deletes(x))'
                  \/ m.type = "create" /\ x = i /\ Some(h2d, Deletes(x))'
  BY <1>1, <1>2, <1>3, TakeRequest DEF Single
<1>6. ASSUME NEW x \in Ids
      PROVE  /\ Refused(x) => Refused(x)'
             /\ Removed(x) => Removed(x)'
             /\ m.type = "create" /\ x = i => Refused(x)' \/ Has(x)'
             /\ m.type = "delete" /\ Has(x) /\ x = i => Removed(x)'
  <2>1. ASSUME NEW y \in {"created", "deleted"}, NEW ok \in BOOLEAN,
               d2h' = Append(d2h, [type |-> y, id |-> i, ok |-> ok])
        PROVE  /\ Refused(x)' <=> Refused(x) \/ (x = i /\ y = "created" /\ ~ok)
               /\ Removed(x)' <=> Removed(x) \/ (x = i /\ y = "deleted" /\ ok)
    <3> DEFINE r == [type |-> y, id |-> i, ok |-> ok]
    <3>1. r \in Responses \cup Notices /\ r.type = y /\ r.id = i /\ r.ok = ok
      BY <1>3 DEF Responses
    <3>2. /\ r \in Refusals(x) <=> r.type = "created" /\ r.id = x /\ ~r.ok
          /\ r \in Removals(x) <=> r.type = "deleted" /\ r.id = x /\ r.ok
      BY <3>1, ResponseKinds
    <3>3. /\ r \in Refusals(x) <=> x = i /\ y = "created" /\ ~ok
          /\ r \in Removals(x) <=> x = i /\ y = "deleted" /\ ok
      BY <3>1, <3>2
    <3>4. d2h' = Append(d2h, r)
      BY <2>1
    <3> HIDE DEF r
    <3>5. /\ Refused(x)' <=> Refused(x) \/ r \in Refusals(x)
          /\ Removed(x)' <=> Removed(x) \/ r \in Removals(x)
      BY <1>1, <3>1, <3>4, Deliver
    <3>6. QED
      BY <3>3, <3>5
  <2>2. CASE /\ m.type = "create" /\ dongle' = [dongle EXCEPT ![i] = m.da]
             /\ d2h' = Append(d2h, [type |-> "created", id |-> i, ok |-> TRUE])
    <3>1. (Refused(x)' <=> Refused(x)) /\ (Removed(x)' <=> Removed(x))
      BY <2>1, <2>2
    <3>2. x = i => Has(x)'
      <4>1. m.da \in Stations
        <5>1. 1 \in 1..Len(h2d) /\ h2d[1] = m /\ m \in Creates(i)
          <6>1. 1 \in 1..Len(h2d) /\ h2d[1] = m
            BY <1>1, <1>2, <1>3 DEF Types
          <6>2. QED
            BY <1>2, <1>3, <2>2, <6>1, RequestKinds
        <5>2. InUse(i)
          <6>1. Asked(i)
            BY <1>3, <1>5, <2>2
          <6>2. QED
            BY <1>1, <1>3, <6>1 DEF Life, Free, Young, Closing, Undone, Calm
        <5>3. Stationed(i)
          BY <1>3 DEF Core
        <5>4. QED
          BY <5>1, <5>2, <5>3 DEF Stationed, InUse
      <4>2. QED
        BY <1>1, <1>3, <2>2, <4>1, FlowAssumption DEF Types, Has
    <3>3. QED
      BY <2>2, <3>1, <3>2
  <2>3. CASE /\ m.type = "create"
             /\ d2h' = Append(d2h, [type |-> "created", id |-> i, ok |-> FALSE])
    BY <2>1, <2>3
  <2>4. CASE /\ m.type = "delete"
             /\ d2h' = Append(d2h, [type |-> "deleted", id |-> i, ok |-> TRUE])
    BY <2>1, <2>4
  <2>5. CASE /\ m.type = "delete" /\ ~Has(i)
             /\ d2h' = Append(d2h, [type |-> "deleted", id |-> i, ok |-> FALSE])
    BY <2>1, <2>5
  <2>6. QED
    BY <1>3, <2>2, <2>3, <2>4, <2>5
<1>7. ASSUME NEW x \in Ids PROVE Doomed(x) => Doomed(x)'
  <2>1. CASE x # i
    <3>1. Has(x)' <=> Has(x)
      BY <1>1, <1>3, <2>1 DEF Types, Has
    <3>2. /\ Asked(x)' <=> Asked(x)
          /\ Some(h2d, Deletes(x))' <=> Some(h2d, Deletes(x))
          /\ Follows(h2d, Creates(x), Deletes(x)) =>
               Follows(h2d, Creates(x), Deletes(x))'
      BY <1>5, <2>1
    <3>3. QED
      BY <1>6, <3>1, <3>2 DEF Doomed
  <2>2. CASE x = i /\ m.type = "create"
    <3>1. Asked(x) /\ ~Asked(x)'
      BY <1>5, <2>2
    <3>2. InUse(x)
      BY <1>1, <3>1 DEF Life, Free, Young, Closing, Undone, Calm
    <3>3. ~Has(x) /\ ~Removed(x) /\ ~Refused(x)
      BY <3>1, <3>2 DEF InUse
    <3>4. Doomed(x) => Some(h2d, Deletes(x))'
      <4>1. Doomed(x) => Some(h2d, Deletes(x))
        BY <3>3 DEF Doomed, Follows, Some
      <4>2. m.type # "delete"
        BY <2>2
      <4>3. QED
        BY <1>5, <4>1, <4>2
    <3>5. Refused(x)' \/ Has(x)'
      BY <1>6, <2>2
    <3>6. QED
      BY <3>4, <3>5 DEF Doomed
  <2>3. CASE x = i /\ m.type = "delete"
    <3>1. m.type # "create"
      BY <2>3
    <3>2. Has(x) => Removed(x)'
      BY <1>6, <2>3
    <3>3. /\ Asked(x)' <=> Asked(x)
          /\ Follows(h2d, Creates(x), Deletes(x)) =>
               Follows(h2d, Creates(x), Deletes(x))'
      BY <1>5, <3>1
    <3>4. QED
      BY <1>6, <3>2, <3>3 DEF Doomed
  <2>4. QED
    BY <1>3, <2>1, <2>2, <2>3
<1>8. QED
  BY <1>3, <1>4, <1>7, Same, PlainLeft

\* An event is no answer.
LEMMA ReportsLeft ==
  ASSUME Core, JInv, Reports PROVE JInv'
<1>1. Types
  BY DEF Core
<1>2. /\ \E r \in Notices : d2h' = Append(d2h, r)
      /\ UNCHANGED <<idmap, node, flowring_active_list, sta_list, h2d, dongle, tx, dpc,
                     missed>>
  BY <1>1, ReportsShape
<1>3. NodesKept
  BY <1>1, <1>2 DEF Types, NodesKept
<1>4. PICK r \in Notices : d2h' = Append(d2h, r)
  BY <1>2
<1>5. ASSUME NEW x \in Ids PROVE (Listed(x)' => Listed(x)) /\ (Doomed(x) => Doomed(x)')
  <2>1. (Removed(x) => Removed(x)') /\ (Refused(x) => Refused(x)')
    BY <1>1, <1>4, Deliver
  <2>2. QED
    BY <1>2, <2>1, DoomedKept, Same
<1>6. QED
  BY <1>2, <1>3, <1>5, PlainLeft

LEMMA JInvStep ==
  ASSUME Core, JInv, [Next]_vars PROVE JInv'
<1>1. ASSUME NEW t \in Threads, Transmit(t) PROVE JInv'
  BY <1>1, SendsLeft, AllocLeft, MakeLeft, CreateLeft, UndoLeft DEF Transmit,
     Sends
<1>2. CASE Dpc \/ dhd_update_txflowrings
  BY <1>2, CreateResponseLeft, DeleteResponseLeft, WorkLeft, EventLeft,
     ScanLeft,
     DeleteLeft DEF Dpc, Drains
<1>3. CASE Dongle
  BY <1>3, ServeLeft, ReportsLeft DEF Dongle, Reports
<1>4. CASE UNCHANGED vars
  <2>1. UNCHANGED <<idmap, node, flowring_active_list, sta_list, h2d, d2h, dongle, tx,
                    dpc, missed>>
    BY <1>4 DEF vars, table, host, wire, device
  <2>2. NodesKept
    BY <2>1 DEF Core, Types, NodesKept
  <2>3. QED
    BY <2>1, <2>2, Same, SameWire, DoomedKept, PlainLeft
<1>5. QED
  BY <1>1, <1>2, <1>3, <1>4 DEF Next

LEMMA InitJInv == Init => JInv
<1> SUFFICES ASSUME Init PROVE JInv
  OBVIOUS
<1>1. \A t \in Threads : tx[t].pc = "idle"
  BY DEF Init, Idle
<1>2. dpc.pc = "idle"
  BY DEF Init, DpcIdle
<1>3. \A x \in Ids : ~Active(x)
  BY DEF Init, Active
<1>4. QED
  BY <1>1, <1>2, <1>3 DEF JInv, Wanted, Hunt, Scanning, Status, Left

LEMMA JInvHolds == Spec => [](IInv /\ JInv)
<1>1. ASSUME IInv, JInv, [Next]_vars PROVE (IInv /\ JInv)'
  BY <1>1, CoreStep, CountedStep, JInvStep DEF IInv
<1>2. QED
  BY <1>1, InitIInv, InitJInv, PTL DEF Spec

\* Nothing is on the way: an id is free, left behind by a failed creation, or
\* listed on the host and held by the dongle; and nothing is doomed.
LEMMA AtRest ==
  ASSUME IInv, Quiet, NEW i \in Ids
  PROVE  /\ ~Made(i) /\ ~Doomed(i) /\ ~Ahead(i)
         /\ Active(i) <=> Has(i)
         /\ Active(i) => Listed(i)
<1>1. ~Made(i)
  BY DEF Quiet, At, Made, Maker, Making
<1>2. dpc.pc = "idle"
  BY DEF Quiet, DpcIdle
<1>3. ~Cleaned(i) /\ ~Ahead(i)
  BY <1>2 DEF Cleaned, Ahead, Scanning
<1>4. h2d = << >> /\ d2h = << >>
  BY DEF Quiet
<1>5. ~Asked(i) /\ ~Answered(i) /\ ~Refused(i) /\ ~Removed(i) /\ ~Some(h2d, Deletes(i))
  BY <1>4 DEF Asked, Answered, Refused, Removed, Some
<1>6. ~Doomed(i)
  BY <1>5 DEF Doomed
<1>7. Life(i)
  BY DEF IInv, Core
<1>8. QED
  BY <1>1, <1>3, <1>5, <1>6, <1>7 DEF Life, Free, Young, Closing, Undone, InUse,
     Calm

\* Once nothing is on the way, host and dongle agree on every ring, and only a
\* delete request that was lost is still waited for
\* (dhd_bus_flow_ring_create_response, dhd_bus_flow_ring_delete_response).
THEOREM Agreed == Spec => []Settled
<1>1. IInv /\ JInv => Settled
  <2> SUFFICES ASSUME IInv, JInv, Quiet, NEW i \in Ids
               PROVE  /\ node[i].active <=> dongle[i] # NoStation
                      /\ node[i].active =>
                           \/ node[i].status = "OPEN"
                           \/ node[i].status = "DELETE_PENDING" /\ node[i].da \in missed
    BY DEF Settled
  <2>1. /\ ~Made(i) /\ ~Doomed(i)
        /\ Active(i) <=> Has(i)
        /\ Active(i) => Listed(i)
    BY AtRest
  <2>2. node[i].active <=> dongle[i] # NoStation
    BY <2>1 DEF Active, Has
  <2>3. node[i].status \in Statuses
    BY DEF IInv, Core, Types, Nodes
  <2>4. Status(i)
    BY DEF JInv
  <2>5. Active(i) => /\ node[i].status # "CLOSED" /\ node[i].status # "CREATE_PENDING"
                     /\ node[i].status = "DELETE_PENDING" => node[i].da \in missed
    BY <2>1, <2>4 DEF Status
  <2>6. QED
    BY <2>2, <2>3, <2>5 DEF Active, Statuses
<1>2. QED
  BY <1>1, JInvHolds, PTL

\* Once nothing is on the way no ring is left for a station that is gone, but
\* for the stations whose delete could not reach the ring
\* (dhd_flow_rings_delete_for_peer, dhd_flow_rings_delete).
THEOREM Gone == Spec => []PeerGone
<1>1. IInv /\ JInv => PeerGone
  <2> SUFFICES ASSUME IInv, JInv, Quiet, NEW i \in Ids, node[i].active
               PROVE  node[i].da \in sta_list \cup missed
    BY DEF PeerGone
  <2>1. ~Made(i) /\ ~Doomed(i) /\ ~Ahead(i) /\ Active(i)
    BY AtRest DEF Active
  <2>2. Left(i)
    BY DEF JInv
  <2>3. QED
    BY <2>1, <2>2 DEF Left
<1>2. QED
  BY <1>1, JInvHolds, PTL
=============================================================================
