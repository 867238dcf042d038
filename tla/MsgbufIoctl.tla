----------------------------- MODULE MsgbufIoctl -----------------------------
(***************************************************************************)
(* bcmdhd, PCIe build: one control request (ioctl/iovar) to the Wi-Fi      *)
(* dongle at a time, over the msgbuf rings.                                *)
(*                                                                         *)
(* Four actors interleave: the threads in dhd_wl_ioctl (serialised by      *)
(* proto_sem), the DPC tasklet that reads the control completion ring, the *)
(* dongle, which may answer late, trap or vanish from the bus, and         *)
(* dhd_bus_devreset, which powers the chip off and on again.               *)
(*                                                                         *)
(* A request is named by a serial number that the code does not have: it   *)
(* is what the properties compare.  The command of a request stands for    *)
(* its caller.  The interface is up throughout (dhd_pub_t.up), so a failed *)
(* request raises a hang; suspend is BusPower's subject.                   *)
(***************************************************************************)
EXTENDS Naturals, Sequences

CONSTANTS
  Callers,        \* threads that issue ioctls
  NoCaller,       \* proto_sem is free; curr_ioctl_cmd = 0
  TransMod,       \* ioctl_trans_id is a counter modulo this (2^16 in the code)
  BeforeRollover, \* BUFFER_BEFORE_ROLLOVER
  CtrlResched,    \* conf->ctrl_resched
  MaxIoctls,      \* bound: requests written to the ring
  MaxResets       \* bound: power cycles

ASSUME CallersAssumption == NoCaller \notin Callers
ASSUME NumbersAssumption ==
  /\ TransMod \in Nat \ {0}
  /\ BeforeRollover \in 0..(TransMod - 1)
  /\ CtrlResched \in Nat \ {0}
  /\ MaxIoctls \in Nat
  /\ MaxResets \in Nat

VARIABLES
  \* dhd_pub_t
  busstate, iovar_timeout_occured,
  trap,            \* "seen": dongle_trap_data is set; "flagged": dongle_trap_occured
  is_linkdown, hang_was_sent,
  \* dhd_prot_t
  ioctl_state, ioctl_received, curr_ioctl_cmd, ioctl_trans_id, retbuf,
  \* the threads
  sem, pc, ret, req, got, cnt,
  \* the DPC
  irq, sched, dpc, dmsg,
  \* the rings and the dongle
  h2d, d2h, dongle, work, serial,
  \* dhd_bus_devreset
  rpc, late, resets,
  overran          \* history: a cleanup has stopped waiting too early

pub == <<busstate, iovar_timeout_occured, trap, is_linkdown, hang_was_sent>>
prot == <<ioctl_state, ioctl_received, curr_ioctl_cmd, ioctl_trans_id, retbuf>>
threads == <<sem, pc, ret, req, got, cnt>>
tasklet == <<irq, sched, dpc, dmsg>>
device == <<h2d, d2h, dongle, work, serial>>
reset == <<rpc, late, resets, overran>>
vars == <<pub, prot, threads, tasklet, device, reset>>

Serials == 0..MaxIoctls    \* 0: none
TransIds == 0..(TransMod - 1)
FirstTransId == TransMod - 1 - BeforeRollover
Requests == [n : 1..MaxIoctls, xt : TransIds, cmd : Callers]
Messages == [type : {"ack", "cmplt"}, rq : Requests]
NoRequest == [n |-> 0, xt |-> 0, cmd |-> NoCaller]

\* Where a thread may be; the last three end a wait, the request or the call.
Waiting == {"wait1", "wait2"}
Posted == {"enter", "wait1", "wait2", "expired", "judge", "copy", "out"}
Failures == {"ERROR", "BUSY", "EIO", "EINVAL", "ETIMEDOUT", "EREMOTEIO"}

TypeOK ==
  /\ busstate \in {"DATA", "DOWN_IN_PROGRESS", "DOWN"}
  /\ iovar_timeout_occured \in BOOLEAN
  /\ trap \in {"none", "seen", "flagged"}
  /\ is_linkdown \in BOOLEAN /\ hang_was_sent \in BOOLEAN
  /\ ioctl_state \subseteq {"ACK", "RESP"}
  /\ ioctl_received \in {"WAIT", "SUCCESS", "ERROR", "BUS_STOP", "TRAP"}
  /\ curr_ioctl_cmd \in Callers \cup {NoCaller}
  /\ ioctl_trans_id \in TransIds
  /\ retbuf \in Serials
  /\ sem \in Callers \cup {NoCaller}
  /\ pc \in [Callers -> {"idle", "sem", "prot", "fill", "leave"} \cup Posted]
  /\ ret \in [Callers -> Failures \cup {"OK"}]
  /\ req \in [Callers -> Serials] /\ got \in [Callers -> Serials]
  /\ cnt \in 0..(CtrlResched + 1)
  /\ irq \in BOOLEAN /\ sched \in BOOLEAN
  /\ dpc \in {"idle", "run", "cmplt", "ok", "mismatch", "trap", "flag", "end"}
  /\ dmsg \in Requests \cup {NoRequest}
  /\ h2d \in Seq(Requests) /\ d2h \in Seq(Messages)
  /\ dongle \in {"ok", "trapped", "dead", "off"}
  /\ work \in Requests \cup {NoRequest}
  /\ serial \in Serials
  /\ rpc \in {"idle", "drain", "stop", "kill", "prot", "flags", "off"}
  /\ late \in BOOLEAN /\ overran \in BOOLEAN
  /\ resets \in 0..MaxResets

Init ==
  /\ busstate = "DATA" /\ iovar_timeout_occured = FALSE /\ trap = "none"
  /\ is_linkdown = FALSE /\ hang_was_sent = FALSE
  /\ ioctl_state = {} /\ ioctl_received = "WAIT" /\ curr_ioctl_cmd = NoCaller
  /\ ioctl_trans_id = FirstTransId /\ retbuf = 0
  /\ sem = NoCaller /\ pc = [c \in Callers |-> "idle"]
  /\ ret = [c \in Callers |-> "OK"]
  /\ req = [c \in Callers |-> 0] /\ got = [c \in Callers |-> 0] /\ cnt = 0
  /\ irq = FALSE /\ sched = FALSE /\ dpc = "idle" /\ dmsg = NoRequest
  /\ h2d = <<>> /\ d2h = <<>> /\ dongle = "ok" /\ work = NoRequest /\ serial = 0
  /\ rpc = "idle" /\ late = FALSE /\ resets = 0 /\ overran = FALSE

\* The errors after which the bus is not used until the next power cycle.
dhd_query_bus_erros ==
  \/ trap = "flagged"
  \/ iovar_timeout_occured
  \/ is_linkdown

BusBusy == sem # NoCaller \/ dpc # "idle"   \* IN_IOVAR, IN_DPC

Goto(c, p) == pc' = [pc EXCEPT ![c] = p]
Return(c, r, p) == Goto(c, p) /\ ret' = [ret EXCEPT ![c] = r]

----------------------------------------------------------------------------
(* dhd_wl_ioctl and what it calls, in the caller's thread *)

\* With an error on the bus the call returns at once: -ENODEV.
Call(c) ==
  /\ pc[c] = "idle"
  /\ serial < MaxIoctls
  /\ ~dhd_query_bus_erros
  /\ Goto(c, "sem")
  /\ UNCHANGED <<pub, prot, sem, ret, req, got, cnt, tasklet, device, reset>>

\* down(proto_sem), then the state of the bus decides under the general lock.
TakeSem(c) ==
  /\ pc[c] = "sem"
  /\ sem = NoCaller
  /\ \/ busstate # "DATA" /\ Goto(c, "idle") /\ UNCHANGED sem   \* -ENODEV
     \/ busstate = "DATA" /\ Goto(c, "prot") /\ sem' = c
  /\ UNCHANGED <<pub, prot, ret, req, got, cnt, tasklet, device, reset>>

dhd_prot_ioctl(c) ==
  /\ pc[c] = "prot"
  /\ IF dhd_query_bus_erros \/ busstate = "DOWN" \/ hang_was_sent
     THEN Return(c, "ERROR", "leave")
     ELSE Goto(c, "fill") /\ UNCHANGED ret
  /\ UNCHANGED <<pub, prot, sem, req, got, cnt, tasklet, device, reset>>

NextTransId == (ioctl_trans_id + 1) % TransMod

NoRingSpaceKept(c) ==
  /\ ioctl_state' = {"ACK", "RESP"}
  /\ ioctl_received' = "WAIT"
  /\ curr_ioctl_cmd' = NoCaller
  /\ Return(c, "ERROR", "leave")
NoRingSpace(c) ==
  /\ ioctl_state' = {}
  /\ ioctl_received' = "WAIT"
  /\ curr_ioctl_cmd' = NoCaller
  /\ Return(c, "ERROR", "leave")

dhd_fillup_ioct_reqst(c) ==
  LET xt == NextTransId
      n == serial + 1
  IN
  /\ pc[c] = "fill"
  /\ \/ /\ dhd_query_bus_erros
        /\ Return(c, "EIO", "leave")
        /\ UNCHANGED <<prot, req, device>>
     \/ /\ ~dhd_query_bus_erros
        /\ ioctl_state # {}
        /\ Return(c, "BUSY", "leave")
        /\ UNCHANGED <<prot, req, device>>
     \/ /\ ~dhd_query_bus_erros
        /\ ioctl_state = {}
        /\ NoRingSpace(c)
        /\ UNCHANGED <<ioctl_trans_id, retbuf, req, device>>
     \/ /\ ~dhd_query_bus_erros
        /\ ioctl_state = {}
        /\ serial < MaxIoctls
        /\ ioctl_state' = {"ACK", "RESP"}
        /\ curr_ioctl_cmd' = c
        /\ ioctl_trans_id' = xt
        /\ h2d' = Append(h2d, [n |-> n, xt |-> xt, cmd |-> c])
        /\ serial' = n
        /\ req' = [req EXCEPT ![c] = n]
        /\ Goto(c, "enter")
        /\ UNCHANGED <<ret, ioctl_received, retbuf, d2h, dongle, work>>
  /\ UNCHANGED <<pub, sem, got, cnt, tasklet, reset>>

----------------------------------------------------------------------------
(* dhd_msgbuf_wait_ioctl_cmplt *)

EnterWait(c) ==
  /\ pc[c] = "enter"
  /\ IF dhd_query_bus_erros
     THEN Return(c, "EIO", "out")
     ELSE Goto(c, "wait1") /\ UNCHANGED ret
  /\ UNCHANGED <<pub, prot, sem, req, got, cnt, tasklet, device, reset>>

\* wait_event_timeout returns because somebody set ioctl_received.
Woken(c) ==
  /\ pc[c] \in Waiting
  /\ ioctl_received # "WAIT"
  /\ cnt' = IF pc[c] = "wait1" THEN 0 ELSE cnt
  /\ Goto(c, "judge")
  /\ UNCHANGED <<pub, prot, sem, ret, req, got, tasklet, device, reset>>

FirstTimeoutNever(c) == pc[c] = "wait1" /\ FALSE /\ UNCHANGED vars
\* The first wait times out; a pending interrupt is worth a second wait.
FirstTimeout(c) ==
  /\ pc[c] = "wait1"
  /\ ioctl_received = "WAIT"
  /\ cnt' = IF dhd_query_bus_erros THEN 0
            ELSE IF cnt > CtrlResched THEN cnt ELSE cnt + 1
  /\ IF ~dhd_query_bus_erros /\ cnt < CtrlResched /\ irq
     THEN /\ sched' = TRUE
          /\ late' = (late \/ rpc = "drain")
          /\ Goto(c, "wait2")
     ELSE /\ Goto(c, "expired")
          /\ UNCHANGED <<sched, late>>
  /\ UNCHANGED <<pub, prot, sem, ret, req, got, irq, dpc, dmsg, device,
                 rpc, resets, overran>>

SecondTimeout(c) ==
  /\ pc[c] = "wait2"
  /\ ioctl_received = "WAIT"
  /\ Goto(c, "expired")
  /\ UNCHANGED <<pub, prot, sem, ret, req, got, cnt, tasklet, device, reset>>

\* timeleft = 0: the link and the dongle are examined before the request is
\* given up.  A WLAN backplane that is down sets no error flag.
Expired(c) ==
  /\ pc[c] = "expired"
  /\ IF trap # "none" \/ dhd_query_bus_erros
     THEN Goto(c, "judge") /\ UNCHANGED <<ret, pub, ioctl_received>>
     ELSE /\ iovar_timeout_occured' = (dongle = "ok")
          /\ is_linkdown' \in IF dongle = "dead" THEN BOOLEAN
                             ELSE {dongle = "off"}
          /\ trap' = IF dongle = "trapped" THEN "flagged" ELSE trap
          /\ ioctl_received' = IF dongle = "trapped" THEN "TRAP"
                               ELSE ioctl_received
          /\ Return(c, IF iovar_timeout_occured' THEN "ETIMEDOUT"
                       ELSE "EREMOTEIO", "out")
          /\ UNCHANGED <<busstate, hang_was_sent>>
  /\ UNCHANGED <<ioctl_state, curr_ioctl_cmd, ioctl_trans_id, retbuf, sem, req,
                 got, cnt, tasklet, device, reset>>

JudgeUnpoisoned(c) ==
  /\ pc[c] = "judge"
  /\ \/ ioctl_received # "SUCCESS" /\ Return(c, "EINVAL", "out")
     \/ ioctl_received = "SUCCESS" /\ Goto(c, "copy") /\ UNCHANGED ret
  /\ UNCHANGED <<pub, prot, sem, req, got, cnt, tasklet, device, reset>>
\* Any reason but success poisons the bus, so that nothing is sent after it.
Judge(c) ==
  /\ pc[c] = "judge"
  /\ \/ /\ ioctl_received # "SUCCESS"
        /\ iovar_timeout_occured' = TRUE
        /\ Return(c, "EINVAL", "out")
     \/ /\ ioctl_received = "SUCCESS"
        /\ Goto(c, "copy")
        /\ UNCHANGED <<iovar_timeout_occured, ret>>
  /\ UNCHANGED <<busstate, trap, is_linkdown, hang_was_sent, prot, sem, req,
                 got, cnt, tasklet, device, reset>>

CopyOut(c) ==
  /\ pc[c] = "copy"
  /\ got' = [got EXCEPT ![c] = retbuf]
  /\ Return(c, "OK", "out")
  /\ UNCHANGED <<pub, prot, sem, req, cnt, tasklet, device, reset>>

\* The label out of dhd_msgbuf_wait_ioctl_cmplt.
Out(c) ==
  /\ pc[c] = "out"
  /\ ioctl_state' = {}
  /\ ioctl_received' = "WAIT"
  /\ curr_ioctl_cmd' = NoCaller
  /\ Goto(c, "leave")
  /\ UNCHANGED <<pub, ioctl_trans_id, retbuf, sem, ret, req, got, cnt, tasklet,
                 device, reset>>

RaisesHangLate(c) == ret[c] = "ETIMEDOUT"
\* dhd_check_hang
RaisesHang(c) ==
  \/ ret[c] \in {"ETIMEDOUT", "EREMOTEIO"}
  \/ ret[c] # "OK" /\ busstate = "DOWN" /\ rpc \notin {"flags", "off"}

ReleaseForgotten(c) == sem' = IF ret[c] = "BUSY" \/ ret[c] = "ERROR" THEN sem ELSE NoCaller
Release(c) == sem' = NoCaller

\* dhd_wl_ioctl's tail: dhd_check_hang, IN_IOVAR cleared, up(proto_sem);
\* the variables of the call end with it.
Leave(c) ==
  /\ pc[c] = "leave"
  /\ hang_was_sent' = (hang_was_sent \/ RaisesHang(c))
  /\ Release(c)
  /\ Return(c, "OK", "idle")
  /\ req' = [req EXCEPT ![c] = 0]
  /\ got' = [got EXCEPT ![c] = 0]
  /\ UNCHANGED <<busstate, iovar_timeout_occured, trap, is_linkdown, prot, cnt,
                 tasklet, device, reset>>

Thread(c) ==
  \/ TakeSem(c) \/ dhd_prot_ioctl(c) \/ dhd_fillup_ioct_reqst(c)
  \/ EnterWait(c) \/ Woken(c) \/ FirstTimeout(c) \/ SecondTimeout(c)
  \/ Expired(c) \/ Judge(c) \/ CopyOut(c) \/ Out(c) \/ Leave(c)

----------------------------------------------------------------------------
(* The interrupt and the DPC tasklet *)

Isr ==
  /\ irq /\ busstate # "DOWN" /\ ~sched /\ dpc = "idle"
  /\ irq' = FALSE
  /\ sched' = TRUE
  /\ UNCHANGED <<pub, prot, threads, dpc, dmsg, device, reset>>

\* A trapped dongle is noticed before any message is read.
dhd_bus_dpc ==
  /\ sched /\ dpc = "idle"
  /\ sched' = FALSE
  /\ IF dhd_query_bus_erros \/ busstate = "DOWN"
     THEN UNCHANGED <<dpc, trap>>
     ELSE IF dongle = "trapped"
     THEN dpc' = "trap" /\ trap' = "seen"
     ELSE dpc' = "run" /\ UNCHANGED trap
  /\ UNCHANGED <<busstate, iovar_timeout_occured, is_linkdown, hang_was_sent,
                 prot, threads, irq, dmsg, device, reset>>

\* dhdpcie_checkdied wakes the waiter before it sets dongle_trap_occured.
dhdpcie_checkdied ==
  \/ /\ dpc = "trap"
     /\ ioctl_received' = "TRAP"
     /\ dpc' = "flag"
     /\ UNCHANGED <<trap, hang_was_sent>>
  \/ /\ dpc = "flag"
     /\ trap' = "flagged"
     /\ hang_was_sent' = TRUE
     /\ dpc' = "end"
     /\ UNCHANGED ioctl_received

CheckDied ==
  /\ dhdpcie_checkdied
  /\ UNCHANGED <<busstate, iovar_timeout_occured, is_linkdown, ioctl_state,
                 curr_ioctl_cmd, ioctl_trans_id, retbuf, threads, irq, sched,
                 dmsg, device, reset>>

dhd_prot_ioctack_process ==
  /\ ioctl_state' = IF ioctl_state = {"ACK", "RESP"} THEN {"RESP"}
                    ELSE ioctl_state
  /\ UNCHANGED <<dpc, dmsg>>

\* Under the general lock: is a response awaited?
dhd_prot_ioctcmplt_process(rq) ==
  IF "ACK" \in ioctl_state \/ "RESP" \notin ioctl_state
  THEN UNCHANGED <<ioctl_state, dpc, dmsg>>
  ELSE /\ ioctl_state' = ioctl_state \ {"RESP"}
       /\ dpc' = "cmplt"
       /\ dmsg' = rq

\* One turn of the loop over the control completion ring.
dhd_prot_process_ctrlbuf ==
  /\ dpc = "run"
  /\ IF dhd_query_bus_erros \/ hang_was_sent \/ d2h = <<>>
     THEN dpc' = "end" /\ UNCHANGED <<ioctl_state, dmsg, d2h>>
     ELSE /\ d2h' = Tail(d2h)
          /\ IF Head(d2h).type = "ack" THEN dhd_prot_ioctack_process
             ELSE dhd_prot_ioctcmplt_process(Head(d2h).rq)
  /\ UNCHANGED <<pub, ioctl_received, curr_ioctl_cmd, ioctl_trans_id, retbuf,
                 threads, irq, sched, h2d, dongle, work, serial, reset>>

\* ... and outside the lock: whose response is it?
Compare ==
  /\ dpc = "cmplt"
  /\ IF dmsg.xt # ioctl_trans_id \/ dmsg.cmd # curr_ioctl_cmd
     THEN dpc' = "mismatch" /\ UNCHANGED retbuf
     ELSE dpc' = "ok" /\ retbuf' = dmsg.n
  /\ UNCHANGED <<pub, ioctl_state, ioctl_received, curr_ioctl_cmd,
                 ioctl_trans_id, threads, irq, sched, dmsg, device, reset>>

dhd_wakeup_ioctl_event ==
  /\ dpc \in {"ok", "mismatch"}
  /\ ioctl_received' = IF dpc = "ok" THEN "SUCCESS" ELSE "ERROR"
  /\ dpc' = "run"
  /\ dmsg' = NoRequest
  /\ UNCHANGED <<pub, ioctl_state, curr_ioctl_cmd, ioctl_trans_id, retbuf,
                 threads, irq, sched, device, reset>>

DpcEnd ==
  /\ dpc = "end"
  /\ dpc' = "idle"
  /\ UNCHANGED <<pub, prot, threads, irq, sched, dmsg, device, reset>>

Dpc == dhd_bus_dpc \/ CheckDied \/ dhd_prot_process_ctrlbuf \/ Compare
       \/ dhd_wakeup_ioctl_event \/ DpcEnd

----------------------------------------------------------------------------
(* The dongle: it acknowledges a request, and answers it when it is done *)

Acknowledge ==
  /\ dongle = "ok" /\ h2d # <<>> /\ work = NoRequest
  /\ h2d' = Tail(h2d)
  /\ work' = Head(h2d)
  /\ d2h' = Append(d2h, [type |-> "ack", rq |-> Head(h2d)])
  /\ irq' = TRUE
  /\ UNCHANGED <<pub, prot, threads, sched, dpc, dmsg, dongle, serial, reset>>

Answer ==
  /\ dongle = "ok" /\ work # NoRequest
  /\ d2h' = Append(d2h, [type |-> "cmplt", rq |-> work])
  /\ work' = NoRequest
  /\ irq' = TRUE
  /\ UNCHANGED <<pub, prot, threads, sched, dpc, dmsg, h2d, dongle, serial,
                 reset>>

\* A firmware trap raises an interrupt; a link or backplane going down does not.
DongleFails ==
  /\ dongle = "ok"
  /\ dongle' \in {"trapped", "dead"}
  /\ irq' = (irq \/ dongle' = "trapped")
  /\ UNCHANGED <<pub, prot, threads, sched, dpc, dmsg, h2d, d2h, work, serial,
                 reset>>

----------------------------------------------------------------------------
(* dhd_bus_devreset: off, and on again *)

Advertise ==
  /\ rpc = "idle" /\ resets < MaxResets
  /\ busstate' = "DOWN_IN_PROGRESS"
  /\ rpc' = "drain"
  /\ UNCHANGED <<iovar_timeout_occured, trap, is_linkdown, hang_was_sent, prot,
                 threads, tasklet, device, late, resets, overran>>

Drained ==
  /\ rpc = "drain"
  /\ ~BusBusy
  /\ rpc' = "stop" /\ late' = FALSE
  /\ UNCHANGED <<pub, prot, threads, tasklet, device, resets, overran>>

\* DHD_BUS_BUSY_TIMEOUT is one second longer than one IOCTL_RESP_TIMEOUT, so
\* it can run out only while a thread is in a second wait that it entered
\* after the cleanup began (everything else takes well under a second).
DrainTimeout ==
  /\ rpc = "drain"
  /\ late /\ \E c \in Callers : pc[c] = "wait2"
  /\ rpc' = "stop" /\ late' = FALSE /\ overran' = TRUE
  /\ UNCHANGED <<pub, prot, threads, tasklet, device, resets>>

dhd_bus_stop ==
  \/ /\ rpc = "stop"
     /\ busstate' = "DOWN"
     /\ rpc' = "kill"
     /\ UNCHANGED <<sched, ioctl_received>>
  \/ /\ rpc = "kill"
     /\ dpc = "idle"     \* dhd_dpc_kill waits for a running tasklet
     /\ sched' = FALSE
     /\ ioctl_received' = "BUS_STOP"
     /\ rpc' = "prot"
     /\ UNCHANGED busstate

BusStop ==
  /\ dhd_bus_stop
  /\ UNCHANGED <<iovar_timeout_occured, trap, is_linkdown, hang_was_sent,
                 ioctl_state, curr_ioctl_cmd, ioctl_trans_id, retbuf, threads,
                 irq, dpc, dmsg, device, late, resets, overran>>

\* The chip is switched off and the rings are emptied.
dhd_prot_reset ==
  /\ rpc = "prot"
  /\ ioctl_state' = {} /\ ioctl_received' = "WAIT" /\ curr_ioctl_cmd' = NoCaller
  /\ ioctl_trans_id' = FirstTransId /\ retbuf' = 0
  /\ h2d' = <<>> /\ d2h' = <<>> /\ dongle' = "off" /\ work' = NoRequest
  /\ irq' = FALSE
  /\ rpc' = "flags"
  /\ UNCHANGED <<pub, threads, sched, dpc, dmsg, serial, late, resets, overran>>

ClearErrors ==
  /\ rpc = "flags"
  /\ iovar_timeout_occured' = FALSE /\ trap' = "none" /\ hang_was_sent' = FALSE
  /\ rpc' = "off"
  /\ UNCHANGED <<busstate, is_linkdown, prot, threads, tasklet, device, late,
                 resets, overran>>

PowerOn ==
  /\ rpc = "off"
  /\ busstate' = "DATA" /\ is_linkdown' = FALSE /\ hang_was_sent' = FALSE
  /\ iovar_timeout_occured' = FALSE /\ trap' = "none"
  /\ ioctl_state' = {} /\ ioctl_received' = "WAIT" /\ curr_ioctl_cmd' = NoCaller
  /\ ioctl_trans_id' = FirstTransId
  /\ dongle' = "ok"
  /\ rpc' = "idle" /\ resets' = resets + 1
  /\ UNCHANGED <<retbuf, threads, tasklet, h2d, d2h, work, serial, late,
                 overran>>

Reset == Drained \/ DrainTimeout \/ BusStop \/ dhd_prot_reset
         \/ ClearErrors \/ PowerOn

Next ==
  \/ \E c \in Callers : Call(c) \/ Thread(c)
  \/ Isr \/ Dpc
  \/ Acknowledge \/ Answer \/ DongleFails
  \/ Advertise \/ Reset

\* proto_sem is served in order, so a thread that waits for it gets it; the
\* kernel runs the threads (whose waits time out), the tasklet and the reset.
\* Nothing obliges the dongle to answer, the interrupt to arrive or anybody
\* to call.
Fairness ==
  /\ \A c \in Callers : WF_vars(Thread(c)) /\ SF_vars(TakeSem(c))
  /\ WF_vars(Dpc)
  /\ WF_vars(Reset)

Spec == Init /\ [][Next]_vars /\ Fairness

----------------------------------------------------------------------------
(* Properties *)

\* A call that returns success returns the answer to its own request, never
\* one that an earlier request left in retbuf; only a reset that did not wait
\* for the call may leave it an emptied buffer (dhd_msgbuf_wait_ioctl_cmplt
\* copies retbuf after the wait, unlocked).
OwnResponse ==
  \A c \in Callers : pc[c] = "out" /\ ret[c] = "OK"
    => got[c] = req[c] \/ (overran /\ got[c] = 0)

\* dhd_fillup_ioct_reqst never meets the pending request that its BCME_BUSY
\* is for: whatever way the last one ended, its state was put away.
NeverBusy ==
  \A c \in Callers : pc[c] = "fill" => ioctl_state = {}

\* A request enters the ring only when nothing of an earlier one is left in
\* the rings, the dongle or the DPC, and no late success waits to be taken
\* for its own: fillup does not clear ioctl_received, and an acknowledgement
\* carries no transaction that is checked.
CleanSlate ==
  [][serial' # serial =>
       /\ h2d = <<>> /\ d2h = <<>> /\ work = NoRequest /\ dmsg = NoRequest
       /\ ioctl_received \in {"WAIT", "TRAP"}]_vars

\* Every call returns, whatever the dongle does or does not do.
IoctlReturns ==
  \A c \in Callers : pc[c] = "sem" ~> pc[c] = "idle"

\* A power cycle that was begun gets the bus down: no thread, no DPC and no
\* wake-up it waits for can hold it for ever.
CleanupEnds == rpc = "drain" ~> busstate = "DOWN"
=============================================================================
