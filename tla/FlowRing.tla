------------------------------ MODULE FlowRing ------------------------------
(***************************************************************************)
(* bcmdhd, PCIe build: the flow rings of the access point interface.       *)
(*                                                                         *)
(* Every associated station gets a flow ring, created by the first frame   *)
(* sent to it and deleted when the dongle reports that it left. The        *)
(* transmitting threads look a ring up in the hash of the interface, or    *)
(* allocate an id and ask the dongle to create one; the DPC handles the    *)
(* dongle's responses and events, in the order of the control completion   *)
(* ring. Hash and ids are under flowid_lock, a node of flow_ring_table     *)
(* under its own lock, the submission ring under a third: an action is one *)
(* section under one lock, or one step that reads without.                 *)
(*                                                                         *)
(* One priority, so a flow is a station; frames are counted, not told      *)
(* apart; a flow ring that has no room is a nondeterministic choice. The   *)
(* dongle is external: it serves the submission ring in order, and refuses *)
(* to delete a ring it does not have.                                      *)
(***************************************************************************)
EXTENDS Naturals, FiniteSets, SequencesExt

CONSTANTS
  Stations,     \* Ethernet addresses that may associate
  NoStation,
  Threads,      \* contexts that transmit: dhd_start_xmit and the forward path
  NumRings,     \* flow ring ids are 1..NumRings
  MaxClients,   \* max_multi_client_flow_rings
  QueueMax,     \* flow_ring_queue_threshold
  MaxFrames,    \* bound: frames sent
  MaxEvents,    \* bound: events the dongle sends
  MaxFaults     \* bound: submission ring full, or a create refused

ASSUME FlowAssumption ==
  /\ NoStation \notin Stations /\ IsFiniteSet(Stations) /\ IsFiniteSet(Threads)
  /\ NumRings \in Nat \ {0} /\ MaxClients \in Nat \ {0} /\ QueueMax \in Nat \ {0}
  /\ MaxFrames \in Nat /\ MaxEvents \in Nat /\ MaxFaults \in Nat

Ids == 1..NumRings

VARIABLES
  fl_hash,      \* the chain of the interface: entries [da, id], oldest first
  idmap,        \* free ids, a stack with its top at the head
  multi_client_flow_rings,
  node,         \* flow_ring_table: [status, active, da, queue]
  inited,       \* ids whose msgbuf ring is fetched from the pool
  flowring_active_list,
  link,         \* if_flow_lkup.status
  sta_list,
  h2d, d2h,     \* control submission and completion rings
  dongle,       \* the station of each ring the dongle has
  bss,          \* what the dongle reports next: its stations, and if it is up
  tx,           \* each thread: [pc, da, id, pend]
  dpc,          \* the DPC: [pc, id, da]
  frames, events, faults,
  missed        \* history: stations with a delete that could not reach their ring

table == <<fl_hash, idmap, multi_client_flow_rings>>
host == <<node, inited, flowring_active_list, link, sta_list>>
wire == <<h2d, d2h>>
device == <<dongle, bss, events>>
counts == <<frames, faults>>
vars == <<table, host, wire, device, tx, dpc, counts, missed>>

Statuses == {"OPEN", "CREATE_PENDING", "CLOSED", "DELETE_PENDING"}
Entries == [da : Stations, id : Ids]
Messages == [type : {"create", "delete"}, id : Ids, da : Stations \cup {NoStation}]
Responses == [type : {"created", "deleted"}, id : Ids, ok : BOOLEAN]
Events == [type : {"ASSOC", "DISASSOC", "LINK"}, da : Stations \cup {NoStation},
           up : BOOLEAN]

\* The record types of the state; the chain and the free stack hold an id at
\* most once.
TypeOK ==
  /\ fl_hash \in Seq(Entries) /\ IsInjective(fl_hash)
  /\ idmap \in Seq(Ids) /\ IsInjective(idmap)
  /\ multi_client_flow_rings \in 0..NumRings
  /\ node \in [Ids -> [status : Statuses, active : BOOLEAN,
                       da : Stations \cup {NoStation}, queue : 0..QueueMax]]
  /\ inited \subseteq Ids
  /\ flowring_active_list \in Seq(Ids)
  /\ link \in BOOLEAN /\ sta_list \subseteq Stations
  /\ h2d \in Seq(Messages) /\ d2h \in Seq(Responses \cup Events)
  /\ dongle \in [Ids -> Stations \cup {NoStation}]
  /\ bss \in [up : BOOLEAN, sta : SUBSET Stations]
  /\ tx \in [Threads -> [pc : {"idle", "check", "admit", "alloc", "insert", "init",
                               "create", "undo", "txdata", "status", "schedule",
                               "pend"},
                         da : Stations \cup {NoStation}, id : Ids \cup {0},
                         pend : BOOLEAN]]
  /\ dpc \in [pc : {"idle", "list", "free", "kick", "peer", "all", "delete"},
              id : Ids \cup {0}, da : Stations \cup {NoStation}]
  /\ frames \in 0..MaxFrames /\ events \in 0..MaxEvents /\ faults \in 0..MaxFaults
  /\ missed \subseteq Stations

Idle == [pc |-> "idle", da |-> NoStation, id |-> 0, pend |-> FALSE]
DpcIdle == [pc |-> "idle", id |-> 0, da |-> NoStation]

\* The access point is up and its stations are associated; no frame was sent.
Init ==
  /\ fl_hash = << >> /\ idmap = [i \in Ids |-> i] /\ multi_client_flow_rings = 0
  /\ node = [i \in Ids |-> [status |-> "CLOSED", active |-> FALSE,
                            da |-> NoStation, queue |-> 0]]
  /\ inited = {} /\ flowring_active_list = << >>
  /\ link = TRUE /\ sta_list = Stations
  /\ h2d = << >> /\ d2h = << >>
  /\ dongle = [i \in Ids |-> NoStation]
  /\ bss = [up |-> TRUE, sta |-> Stations]
  /\ tx = [t \in Threads |-> Idle] /\ dpc = DpcIdle
  /\ frames = 0 /\ events = 0 /\ faults = 0
  /\ missed = {}

-----------------------------------------------------------------------------
(* A transmitting thread. *)

At(t, pc) == tx[t].pc = pc
Goto(t, pc) == tx' = [tx EXCEPT ![t].pc = pc]
Done(t) == tx' = [tx EXCEPT ![t] = Idle]

\* dhd_flowid_find: the oldest entry of the station, or 0 for FLOWID_INVALID.
Find(da) ==
  LET i == SelectInSeq(fl_hash, LAMBDA e : e.da = da)
  IN  IF i = 0 THEN 0 ELSE fl_hash[i].id

dhd_flowid_find(t, da) ==
  /\ At(t, "idle") /\ frames < MaxFrames
  /\ frames' = frames + 1
  /\ tx' = [tx EXCEPT ![t] = [pc |-> IF Find(da) = 0 THEN "admit" ELSE "check",
                              da |-> da, id |-> Find(da), pend |-> FALSE]]
  /\ UNCHANGED <<table, host, wire, device, dpc, faults, missed>>

\* dhd_flowid_lookup, the id was found: a frame for a ring that is closed or
\* going away is dropped.
CheckStatus(t) ==
  /\ At(t, "check")
  /\ IF node[tx[t].id].status \in {"DELETE_PENDING", "CLOSED"}
     THEN Done(t) ELSE Goto(t, "txdata")
  /\ UNCHANGED <<table, host, wire, device, dpc, counts, missed>>

\* dhd_flowid_lookup, no id: the tests before a ring is created.
MayCreate(da) ==
  /\ link
  /\ multi_client_flow_rings < MaxClients
  /\ da \in sta_list

Admit(t) ==
  /\ At(t, "admit")
  /\ IF MayCreate(tx[t].da) THEN Goto(t, "alloc") ELSE Done(t)
  /\ UNCHANGED <<table, host, wire, device, dpc, counts, missed>>

\* dhd_flowid_alloc takes an id and, after letting the lock go, hangs it into
\* the chain.
AllocId(t) ==
  /\ At(t, "alloc")
  /\ IF idmap = << >>
     THEN Done(t) /\ UNCHANGED idmap
     ELSE /\ tx' = [tx EXCEPT ![t].pc = "insert", ![t].id = Head(idmap)]
          /\ idmap' = Tail(idmap)
  /\ UNCHANGED <<fl_hash, multi_client_flow_rings, host, wire, device, dpc, counts,
                 missed>>

InsertHash(t) ==
  /\ At(t, "insert")
  /\ fl_hash' = Append(fl_hash, [da |-> tx[t].da, id |-> tx[t].id])
  /\ Goto(t, "init")
  /\ UNCHANGED <<idmap, multi_client_flow_rings, host, wire, device, dpc, counts,
                 missed>>

\* The counter, and the node of the new ring; what is in its queue stays.
InitNode(t) ==
  /\ At(t, "init")
  /\ multi_client_flow_rings' = multi_client_flow_rings + 1
  /\ node' = [node EXCEPT ![tx[t].id].status = "CREATE_PENDING",
                          ![tx[t].id].active = TRUE, ![tx[t].id].da = tx[t].da]
  /\ Goto(t, "create")
  /\ UNCHANGED <<fl_hash, idmap, inited, flowring_active_list, link, sta_list, wire,
                 device, dpc, counts, missed>>

\* dhd_prot_flow_ring_create: a ring from the pool and a request for the
\* dongle; without room for the request the ring goes back.
CreateRequest(t) ==
  /\ At(t, "create")
  /\ \/ /\ inited' = inited \cup {tx[t].id}
        /\ h2d' = Append(h2d, [type |-> "create", id |-> tx[t].id,
                               da |-> node[tx[t].id].da])
        /\ Goto(t, "txdata")
        /\ UNCHANGED faults
     \/ /\ faults < MaxFaults
        /\ faults' = faults + 1
        /\ inited' = inited \ {tx[t].id}
        /\ Goto(t, "undo")
        /\ UNCHANGED h2d
  /\ UNCHANGED <<table, node, flowring_active_list, link, sta_list, d2h, device, dpc,
                 frames, missed>>

\* A driver that gives the id of the failed creation back, but not its entry.
UndoFreesId(t) ==
  /\ At(t, "undo")
  /\ node' = [node EXCEPT ![tx[t].id].status = "CLOSED", ![tx[t].id].active = FALSE]
  /\ idmap' = <<tx[t].id>> \o idmap
  /\ Done(t)
  /\ UNCHANGED <<fl_hash, multi_client_flow_rings, inited, flowring_active_list, link,
                 sta_list, wire, device, dpc, counts, missed>>

\* The failed creation closes the node; the chain keeps the entry and the
\* counter its ring.
Undo(t) ==
  /\ At(t, "undo")
  /\ node' = [node EXCEPT ![tx[t].id].status = "CLOSED", ![tx[t].id].active = FALSE]
  /\ Done(t)
  /\ UNCHANGED <<table, inited, flowring_active_list, link, sta_list, wire, device, dpc,
                 counts, missed>>

\* dhd_flow_queue_throttle.
Full(id) == node[id].queue >= QueueMax

\* dhd_flow_queue_enqueue: a full queue takes nothing.
Enqueued(id) == IF Full(id) THEN node ELSE [node EXCEPT ![id].queue = @ + 1]

\* dhd_bus_txdata: the frame enters the queue of the ring, or waits if the
\* queue is full.
TxData(t) ==
  LET n == node[tx[t].id] IN
  /\ At(t, "txdata")
  /\ IF ~n.active \/ n.status = "DELETE_PENDING"
     THEN Done(t) /\ UNCHANGED node
     ELSE /\ tx' = [tx EXCEPT ![t].pc = "status", ![t].pend = Full(tx[t].id)]
          /\ node' = Enqueued(tx[t].id)
  /\ UNCHANGED <<table, inited, flowring_active_list, link, sta_list, wire, device, dpc,
                 counts, missed>>

\* The status is read after the lock is let go.
TxStatus(t) ==
  /\ At(t, "status")
  /\ IF node[tx[t].id].status # "OPEN" THEN Done(t) ELSE Goto(t, "schedule")
  /\ UNCHANGED <<table, host, wire, device, dpc, counts, missed>>

\* dhd_bus_schedule_queue: an open ring takes what it has room for.
dhd_bus_schedule_queue(id) ==
  IF node[id].status # "OPEN" THEN UNCHANGED node
  ELSE \E left \in 0..node[id].queue : node' = [node EXCEPT ![id].queue = left]

TxSchedule(t) ==
  /\ At(t, "schedule")
  /\ dhd_bus_schedule_queue(tx[t].id)
  /\ IF tx[t].pend THEN Goto(t, "pend") ELSE Done(t)
  /\ UNCHANGED <<table, inited, flowring_active_list, link, sta_list, wire, device, dpc,
                 counts, missed>>

\* The frame that found the queue full tries once more, whatever became of
\* the ring in the meantime.
TxPend(t) ==
  /\ At(t, "pend")
  /\ node' = Enqueued(tx[t].id)
  /\ Done(t)
  /\ UNCHANGED <<table, inited, flowring_active_list, link, sta_list, wire, device, dpc,
                 counts, missed>>

-----------------------------------------------------------------------------
(* The DPC. *)

\* The completion ring holds such a message at its head, and the DPC is free.
Receives(type) == dpc.pc = "idle" /\ d2h # << >> /\ Head(d2h).type = type

\* dhd_bus_clean_flow_ring, its section under the lock of the node.
CloseNode(id) ==
  /\ node' = [node EXCEPT ![id].queue = 0, ![id].status = "CLOSED",
                          ![id].active = FALSE]
  /\ dpc' = [dpc EXCEPT !.pc = "list", !.id = id]

\* A driver that forgets to give the ring back to the pool.
CleanListKept ==
  /\ dpc.pc = "list"
  /\ flowring_active_list' = RemoveFirst(flowring_active_list, dpc.id)
  /\ dpc' = [dpc EXCEPT !.pc = "free"]
  /\ UNCHANGED <<table, node, inited, link, sta_list, wire, device, tx, counts, missed>>

\* ... then the list and the pool ...
CleanList ==
  /\ dpc.pc = "list"
  /\ flowring_active_list' = RemoveFirst(flowring_active_list, dpc.id)
  /\ inited' = inited \ {dpc.id}
  /\ dpc' = [dpc EXCEPT !.pc = "free"]
  /\ UNCHANGED <<table, node, link, sta_list, wire, device, tx, counts, missed>>

\* ... and at last dhd_flowid_free: an id that is not in the chain is not
\* freed.
Released(id, count) ==
  /\ fl_hash' = RemoveFirstMatch(fl_hash, LAMBDA e : e.id = id)
  /\ multi_client_flow_rings' = count
  /\ idmap' = <<id>> \o idmap

Fewer == IF multi_client_flow_rings > 0 THEN multi_client_flow_rings - 1 ELSE 0

\* A driver that does not count the ring as gone.
FlowidFreeUncounted ==
  /\ dpc.pc = "free"
  /\ IF \E e \in Range(fl_hash) : e.id = dpc.id
     THEN Released(dpc.id, multi_client_flow_rings)
     ELSE UNCHANGED table
  /\ dpc' = DpcIdle
  /\ UNCHANGED <<host, wire, device, tx, counts, missed>>

dhd_flowid_free ==
  /\ dpc.pc = "free"
  /\ IF \E e \in Range(fl_hash) : e.id = dpc.id
     THEN Released(dpc.id, Fewer)
     ELSE UNCHANGED table
  /\ dpc' = DpcIdle
  /\ UNCHANGED <<host, wire, device, tx, counts, missed>>

\* A driver that only logs a refused create.
CreateResponseLogged ==
  /\ Receives("created")
  /\ d2h' = Tail(d2h)
  /\ LET r == Head(d2h) IN
       IF r.ok
       THEN /\ node' = [node EXCEPT ![r.id].status = "OPEN"]
            /\ flowring_active_list' = <<r.id>> \o flowring_active_list
            /\ dpc' = [dpc EXCEPT !.pc = "kick", !.id = r.id]
       ELSE UNCHANGED <<node, dpc, flowring_active_list>>
  /\ UNCHANGED <<table, inited, link, sta_list, h2d, device, tx, counts, missed>>

\* dhd_bus_flow_ring_create_response: open and listed, or cleaned up.
CreateResponse ==
  /\ Receives("created")
  /\ d2h' = Tail(d2h)
  /\ LET r == Head(d2h) IN
       IF r.ok
       THEN /\ node' = [node EXCEPT ![r.id].status = "OPEN"]
            /\ flowring_active_list' = <<r.id>> \o flowring_active_list
            /\ dpc' = [dpc EXCEPT !.pc = "kick", !.id = r.id]
       ELSE CloseNode(r.id) /\ UNCHANGED flowring_active_list
  /\ UNCHANGED <<table, inited, link, sta_list, h2d, device, tx, counts, missed>>

\* The frames that waited for the ring.
Kick ==
  /\ dpc.pc = "kick"
  /\ dhd_bus_schedule_queue(dpc.id)
  /\ dpc' = DpcIdle
  /\ UNCHANGED <<table, inited, flowring_active_list, link, sta_list, wire, device, tx,
                 counts, missed>>

\* dhd_update_txflowrings, which ends every pass of the DPC.
dhd_update_txflowrings ==
  /\ dpc.pc = "idle"
  /\ \E i \in Range(flowring_active_list) : dhd_bus_schedule_queue(i)
  /\ UNCHANGED <<table, inited, flowring_active_list, link, sta_list, wire, device, tx,
                 dpc, counts, missed>>

\* A driver that cleans up whatever the dongle answered.
DeleteResponseAny ==
  /\ Receives("deleted")
  /\ d2h' = Tail(d2h)
  /\ CloseNode(Head(d2h).id)
  /\ UNCHANGED <<table, inited, flowring_active_list, link, sta_list, h2d, device, tx,
                 counts, missed>>

\* dhd_bus_flow_ring_delete_response: a refused delete is logged only.
DeleteResponse ==
  /\ Receives("deleted")
  /\ d2h' = Tail(d2h)
  /\ IF Head(d2h).ok THEN CloseNode(Head(d2h).id) ELSE UNCHANGED <<node, dpc>>
  /\ UNCHANGED <<table, inited, flowring_active_list, link, sta_list, h2d, device, tx,
                 counts, missed>>

\* WLC_E_ASSOC_IND: dhd_findadd_sta.
Assoc ==
  /\ Receives("ASSOC")
  /\ d2h' = Tail(d2h)
  /\ sta_list' = sta_list \cup {Head(d2h).da}
  /\ UNCHANGED <<table, node, inited, flowring_active_list, link, h2d, device, tx, dpc,
                 counts, missed>>

\* A thread is past the tests for the station and its ring is not created yet.
Creating(da) ==
  \E t \in Threads : tx[t].da = da /\ tx[t].pc \in {"alloc", "insert", "init", "create"}

\* WLC_E_DISASSOC_IND and its like: dhd_del_sta, then the rings of the peer.
Disassoc ==
  /\ Receives("DISASSOC")
  /\ d2h' = Tail(d2h)
  /\ sta_list' = sta_list \ {Head(d2h).da}
  /\ dpc' = [pc |-> "peer", id |-> 1, da |-> Head(d2h).da]
  /\ missed' = IF Creating(Head(d2h).da) THEN missed \cup {Head(d2h).da} ELSE missed
  /\ UNCHANGED <<table, node, inited, flowring_active_list, link, h2d, device, tx,
                 counts>>

\* WLC_E_LINK: the state of the interface, and when it goes down every
\* station and every open ring; a ring that is being created is left.
Link ==
  /\ Receives("LINK")
  /\ d2h' = Tail(d2h)
  /\ link' = Head(d2h).up
  /\ IF Head(d2h).up
     THEN UNCHANGED <<sta_list, dpc, missed>>
     ELSE /\ sta_list' = {}
          /\ dpc' = [pc |-> "all", id |-> 1, da |-> NoStation]
          /\ missed' = missed \cup {da \in Stations :
                          \/ Creating(da)
                          \/ \E i \in Ids : node[i].da = da /\ node[i].status = "CREATE_PENDING"}
  /\ UNCHANGED <<table, node, inited, flowring_active_list, h2d, device, tx, counts>>

\* A driver that deletes only the open rings of a peer.
DeletableOpen(scan) == {"OPEN"}

\* The statuses dhd_flow_rings_delete_for_peer and dhd_flow_rings_delete
\* look for.
Deletable(scan) == IF scan = "peer" THEN {"OPEN", "CREATE_PENDING"} ELSE {"OPEN"}

Advance(id) == IF id < NumRings THEN [dpc EXCEPT !.id = id + 1] ELSE DpcIdle

\* Their loop over the table, which reads each node without its lock.
Scan ==
  /\ dpc.pc \in {"peer", "all"}
  /\ LET n == node[dpc.id] IN
       dpc' = IF /\ n.active /\ n.status \in Deletable(dpc.pc)
                 /\ dpc.pc = "all" \/ n.da = dpc.da
              THEN [dpc EXCEPT !.pc = "delete"]
              ELSE Advance(dpc.id)
  /\ UNCHANGED <<table, host, wire, device, tx, counts, missed>>

\* dhd_bus_flow_ring_delete_request: the queue is dropped, and a request that
\* finds no room is forgotten.
DeleteRequest ==
  LET id == dpc.id
      next == IF id < NumRings
              THEN [dpc EXCEPT !.pc = IF dpc.da = NoStation THEN "all" ELSE "peer",
                               !.id = id + 1]
              ELSE DpcIdle
  IN
  /\ dpc.pc = "delete"
  /\ dpc' = next
  /\ IF node[id].status = "DELETE_PENDING"
     THEN UNCHANGED <<node, h2d, faults, missed>>
     ELSE /\ node' = [node EXCEPT ![id].status = "DELETE_PENDING", ![id].queue = 0]
          /\ \/ /\ h2d' = Append(h2d, [type |-> "delete", id |-> id, da |-> NoStation])
                /\ UNCHANGED <<faults, missed>>
             \/ /\ faults < MaxFaults
                /\ faults' = faults + 1
                /\ missed' = missed \cup {node[id].da}
                /\ UNCHANGED h2d
  /\ UNCHANGED <<table, inited, flowring_active_list, link, sta_list, d2h, device, tx,
                 frames>>

-----------------------------------------------------------------------------
(* The dongle (external). *)

Respond(m, ok) ==
  d2h' = Append(d2h, [type |-> IF m.type = "create" THEN "created" ELSE "deleted",
                      id |-> m.id, ok |-> ok])

Serve ==
  /\ h2d # << >>
  /\ h2d' = Tail(h2d)
  /\ LET m == Head(h2d) IN
       \/ /\ m.type = "create"
          /\ dongle' = [dongle EXCEPT ![m.id] = m.da]
          /\ Respond(m, TRUE)
          /\ UNCHANGED faults
       \/ /\ m.type = "create" /\ faults < MaxFaults
          /\ faults' = faults + 1
          /\ Respond(m, FALSE)
          /\ UNCHANGED dongle
       \/ /\ m.type = "delete"
          /\ dongle' = [dongle EXCEPT ![m.id] = NoStation]
          /\ Respond(m, dongle[m.id] # NoStation)
          /\ UNCHANGED faults
  /\ UNCHANGED <<table, host, bss, events, tx, dpc, frames, missed>>

Report(type, da, up) ==
  /\ events < MaxEvents
  /\ events' = events + 1
  /\ d2h' = Append(d2h, [type |-> type, da |-> da, up |-> up])
  /\ UNCHANGED <<table, host, h2d, dongle, tx, dpc, counts, missed>>

StationJoins ==
  \E da \in Stations \ bss.sta :
    /\ bss.up
    /\ bss' = [bss EXCEPT !.sta = @ \cup {da}]
    /\ Report("ASSOC", da, TRUE)

StationLeaves ==
  \E da \in bss.sta :
    /\ bss' = [bss EXCEPT !.sta = @ \ {da}]
    /\ Report("DISASSOC", da, FALSE)

LinkChanges ==
  /\ bss' = [up |-> ~bss.up, sta |-> {}]
  /\ Report("LINK", NoStation, ~bss.up)

-----------------------------------------------------------------------------
Transmit(t) ==
  \/ \E da \in Stations : dhd_flowid_find(t, da)
  \/ CheckStatus(t) \/ Admit(t) \/ AllocId(t) \/ InsertHash(t) \/ InitNode(t)
  \/ CreateRequest(t) \/ Undo(t)
  \/ TxData(t) \/ TxStatus(t) \/ TxSchedule(t) \/ TxPend(t)

Dpc ==
  \/ CreateResponse \/ Kick \/ DeleteResponse
  \/ CleanList \/ dhd_flowid_free
  \/ Assoc \/ Disassoc \/ Link \/ Scan \/ DeleteRequest

Dongle == Serve \/ StationJoins \/ StationLeaves \/ LinkChanges

Next ==
  \/ \E t \in Threads : Transmit(t)
  \/ Dpc \/ dhd_update_txflowrings \/ Dongle

Spec == Init /\ [][Next]_vars

-----------------------------------------------------------------------------
HashIds == {e.id : e \in Range(fl_hash)}

\* Every flow id is free, or in the chain, or in the hands of the one thread
\* that has just allocated it: none leaks and none is handed out twice,
\* although the id leaves the allocator and enters the chain in two sections
\* and stale responses name it (dhd_flowid_alloc, dhd_flowid_free).
IdsConserved ==
  \A i \in Ids :
    LET owners == {t \in Threads : tx[t].pc = "insert" /\ tx[t].id = i}
    IN  (IF i \in Range(idmap) THEN 1 ELSE 0) + (IF i \in HashIds THEN 1 ELSE 0)
          + Cardinality(owners) = 1

\* multi_client_flow_rings, the limit on rings, counts exactly the entries of
\* the chain: an entry is not counted only while its thread is on the way to
\* the increment (dhd_flowid_lookup, dhd_flowid_free).
CounterExact ==
  multi_client_flow_rings + Cardinality({t \in Threads : At(t, "init")}) = Len(fl_hash)

\* Whatever ring the dongle has and reads from by DMA is backed on the host:
\* its memory is not back in the pool, the node is active for the same
\* station, its id is not free, and the next request is not to create it
\* again, whatever deletes and late responses are on the way
\* (dhd_bus_clean_flow_ring, dhd_bus_flow_ring_delete_response).
DongleRingBacked ==
  \A i \in Ids : dongle[i] # NoStation =>
    /\ i \in inited
    /\ node[i].active /\ node[i].da = dongle[i]
    /\ [da |-> dongle[i], id |-> i] \in Range(fl_hash)
    /\ h2d # << >> => ~(Head(h2d).type = "create" /\ Head(h2d).id = i)

\* An id that can be allocated was left clean by its last owner: inactive, off
\* the active list (a node that is prepended twice makes the list endless) and
\* back in the pool; and the list holds no node twice.
FreeIsClean ==
  /\ IsInjective(flowring_active_list)
  /\ \A i \in Range(idmap) :
       ~node[i].active /\ i \notin inited /\ i \notin Range(flowring_active_list)

Quiet ==
  /\ h2d = << >> /\ d2h = << >> /\ dpc = DpcIdle
  /\ \A t \in Threads : At(t, "idle")

\* Once nothing is on the way, host and dongle agree: a ring is active on one
\* exactly if the other has it, none waits for a create, and one that still
\* waits for its delete lost the request.
Settled ==
  Quiet => \A i \in Ids :
    /\ node[i].active <=> dongle[i] # NoStation
    /\ node[i].active => \/ node[i].status = "OPEN"
                         \/ node[i].status = "DELETE_PENDING" /\ node[i].da \in missed

\* Once nothing is on the way no ring is left for a station that is gone,
\* also if it left between the request for its ring and the response: the
\* exceptions are a thread between the test for the association and the
\* request, a link that goes down during a create, and a delete request that
\* found the submission ring full (dhd_flow_rings_delete_for_peer).
PeerGone ==
  Quiet => \A i \in Ids : node[i].active => node[i].da \in sta_list \cup missed

\* What the assertion of dhd_flow_rings_deinit says: the queue of a ring that
\* is not in use is empty.
ClosedIsEmpty ==
  dpc = DpcIdle => \A i \in Range(idmap) : node[i].queue = 0
=============================================================================
