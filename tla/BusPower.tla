------------------------------ MODULE BusPower ------------------------------
(***************************************************************************)
(* bcmdhd, PCIe build: system suspend and resume of the Wi-Fi dongle.      *)
(*                                                                         *)
(* The PM core's thread runs dhdpcie_pci_suspend and dhdpcie_pci_resume    *)
(* while an ioctl, the transmit paths and the DPC tasklet use the bus.     *)
(* They are kept apart by three mechanisms that overlap: the bits of       *)
(* dhd_bus_busy_state under the general lock, the wake lock counter (which *)
(* the suspend waives while it waits for the dongle), and the low power    *)
(* state that silences the doorbell after D3_INFORM.                       *)
(*                                                                         *)
(* An action is one section under the general lock, or one unlocked step.  *)
(* proto_sem admits one ioctl at a time, so one ioctl thread stands for    *)
(* all; the bus is never down (MsgbufIoctl has the power cycles).          *)
(***************************************************************************)
EXTENDS Naturals, FiniteSets

CONSTANTS
  Netdevs,      \* network interfaces: their dhd_start_xmit run concurrently
  MaxSuspends,  \* bound: system suspends
  MaxFaults     \* bound: failures of the PCI core to change the power state

ASSUME BoundsAssumption ==
  IsFiniteSet(Netdevs) /\ MaxSuspends \in Nat /\ MaxFaults \in Nat

VARIABLES
  \* dhd_pub_t and dhd_bus_t
  busstate, dhd_bus_busy_state, bus_low_power_state, wait_for_d3_ack,
  d3ack_timeout_occured, txoff,
  \* the wake lock wl_wifi and its counter
  wakelock_counter, waive_wakelock, wakelock_before_waive, wl_wifi,
  \* the threads
  spc, timeleft, active, rc,   \* suspend and resume
  ipc, holds,                  \* the ioctl; holds: it came with a wake lock
  xpc,                         \* dhd_start_xmit of each interface
  fpc,                         \* dhd_sendpkt (frames forwarded between stations)
  dpc,                         \* the DPC
  \* the dongle, and its D3_ACK on the way to the DPC
  dongle, mail,
  suspends, faults,
  stranded      \* history: the PCI core could not resume the device

bus == <<busstate, dhd_bus_busy_state, bus_low_power_state, wait_for_d3_ack,
         d3ack_timeout_occured, txoff>>
wakelock == <<wakelock_counter, waive_wakelock, wakelock_before_waive, wl_wifi>>
pm == <<spc, timeleft, active, rc, suspends, faults, stranded>>
users == <<ipc, holds, xpc, fpc, dpc>>
device == <<dongle, mail>>
vars == <<bus, wakelock, pm, users, device>>

Bits == {"TX", "SEND_PKT", "DPC", "IOVAR", "SUSPENDING", "RESUMING"}
MaxLocks == Cardinality(Netdevs) + 1

TypeOK ==
  /\ busstate \in {"DATA", "SUSPEND"}
  /\ dhd_bus_busy_state \subseteq Bits
  /\ bus_low_power_state \in {"none", "D3_INFORM_SENT", "D3_ACK_RECIEVED"}
  /\ wait_for_d3_ack \in BOOLEAN /\ d3ack_timeout_occured \in BOOLEAN
  /\ txoff \in BOOLEAN
  /\ wakelock_counter \in 0..MaxLocks /\ wakelock_before_waive \in 0..MaxLocks
  /\ waive_wakelock \in BOOLEAN /\ wl_wifi \in BOOLEAN
  /\ spc \in {"idle", "wait", "bus", "inform", "ack", "restore", "decide",
              "judge", "abort", "d0", "data", "late", "restart", "flag", "pci", "exit",
              "suspended", "resume", "lps", "wake", "start", "end"}
  /\ timeleft \in BOOLEAN /\ active \in BOOLEAN
  /\ rc \in {"OK", "EBUSY", "ERROR", "ETIMEDOUT"}
  /\ ipc \in {"idle", "mark", "wait", "admit", "inside", "unlock"}
  /\ holds \in BOOLEAN
  /\ xpc \in [Netdevs -> {"idle", "admit", "inside", "unlock"}]
  /\ fpc \in {"idle", "admit", "inside"}
  /\ dpc \in {"idle", "run", "wake", "end"}
  /\ dongle \in {"D0", "informed", "D3"}
  /\ mail \in BOOLEAN
  /\ suspends \in 0..MaxSuspends /\ faults \in 0..MaxFaults
  /\ stranded \in BOOLEAN

Init ==
  /\ busstate = "DATA" /\ dhd_bus_busy_state = {}
  /\ bus_low_power_state = "none" /\ wait_for_d3_ack = FALSE
  /\ d3ack_timeout_occured = FALSE /\ txoff = FALSE
  /\ wakelock_counter = 0 /\ waive_wakelock = FALSE
  /\ wakelock_before_waive = 0 /\ wl_wifi = FALSE
  /\ spc = "idle" /\ timeleft = FALSE /\ active = FALSE /\ rc = "OK"
  /\ ipc = "idle" /\ holds = FALSE
  /\ xpc = [n \in Netdevs |-> "idle"] /\ fpc = "idle" /\ dpc = "idle"
  /\ dongle = "D0" /\ mail = FALSE
  /\ suspends = 0 /\ faults = 0 /\ stranded = FALSE

SetBit(b) == dhd_bus_busy_state' = dhd_bus_busy_state \cup {b}
ClearBit(b) == dhd_bus_busy_state' = dhd_bus_busy_state \ {b}
Suspending == "SUSPENDING" \in dhd_bus_busy_state

\* DHD_BUS_CHECK_SUSPEND_OR_SUSPEND_IN_PROGRESS
SuspendOrSuspending == busstate = "SUSPEND" \/ Suspending

----------------------------------------------------------------------------
(* The wake lock: while it is waived the counter alone is kept *)

dhd_os_wake_lock ==
  /\ wl_wifi' = (wl_wifi \/ (wakelock_counter = 0 /\ ~waive_wakelock))
  /\ wakelock_counter' = wakelock_counter + 1
  /\ UNCHANGED <<waive_wakelock, wakelock_before_waive>>

dhd_os_wake_unlock ==
  /\ wakelock_counter > 0
  /\ wakelock_counter' = wakelock_counter - 1
  /\ wl_wifi' = (wl_wifi /\ (wakelock_counter' > 0 \/ waive_wakelock))
  /\ UNCHANGED <<waive_wakelock, wakelock_before_waive>>

dhd_os_wake_lock_waive ==
  /\ waive_wakelock' = TRUE
  /\ wakelock_before_waive' = wakelock_counter
  /\ UNCHANGED <<wakelock_counter, wl_wifi>>

RestoreUncompensated ==
  /\ waive_wakelock' = FALSE
  /\ wakelock_before_waive' = 0
  /\ wl_wifi' = (wl_wifi \/ (wakelock_before_waive = 0 /\ wakelock_counter > 0))
  /\ UNCHANGED wakelock_counter

\* What was locked or unlocked meanwhile is made up for.
dhd_os_wake_lock_restore ==
  /\ waive_wakelock' = FALSE
  /\ wakelock_before_waive' = 0
  /\ wl_wifi' = IF wakelock_before_waive = 0 /\ wakelock_counter > 0 THEN TRUE
                ELSE IF wakelock_before_waive > 0 /\ wakelock_counter = 0 THEN FALSE
                ELSE wl_wifi
  /\ UNCHANGED wakelock_counter

----------------------------------------------------------------------------
(* dhdpcie_pci_suspend and dhdpcie_bus_suspend(TRUE) *)

To(p) == spc' = p
PmKeeps == UNCHANGED <<timeleft, active, suspends, faults, stranded>>
Fail(r) == rc' = r /\ To("exit")

\* An idle bus is suspended at once, a busy one waited for.
dhdpcie_pci_suspend ==
  /\ spc = "idle" /\ suspends < MaxSuspends
  /\ suspends' = suspends + 1
  /\ SetBit("SUSPENDING")
  /\ To(IF dhd_bus_busy_state = {} THEN "bus" ELSE "wait")
  /\ rc' = "OK"
  /\ UNCHANGED <<busstate, bus_low_power_state, wait_for_d3_ack,
                 d3ack_timeout_occured, txoff, timeleft, active, faults,
                 stranded, wakelock, users, device>>

BusIdle ==
  /\ spc = "wait"
  /\ dhd_bus_busy_state = {"SUSPENDING"}
  /\ To("bus")
  /\ PmKeeps /\ UNCHANGED <<rc, bus, wakelock, users, device>>

SuspendTimeoutNever == spc = "wait" /\ FALSE /\ UNCHANGED vars
\* DHD_BUS_BUSY_TIMEOUT runs out.
SuspendTimeout ==
  /\ spc = "wait"
  /\ dhd_bus_busy_state # {"SUSPENDING"}
  /\ Fail("EBUSY")
  /\ PmKeeps /\ UNCHANGED <<bus, wakelock, users, device>>

\* The first section of dhdpcie_bus_suspend: a transmission that came in
\* since stops it, otherwise the queues of all interfaces are stopped.
StopQueues ==
  /\ spc = "bus"
  /\ \/ d3ack_timeout_occured /\ Fail("ERROR") /\ UNCHANGED <<busstate, txoff>>
     \/ /\ ~d3ack_timeout_occured
        /\ busstate = "SUSPEND"
        /\ To("exit") /\ UNCHANGED <<rc, busstate, txoff>>
     \/ /\ ~d3ack_timeout_occured
        /\ busstate = "DATA" /\ "TX" \in dhd_bus_busy_state
        /\ Fail("EBUSY")
        /\ busstate' = "DATA" /\ UNCHANGED txoff
     \/ /\ ~d3ack_timeout_occured
        /\ busstate = "DATA" /\ "TX" \notin dhd_bus_busy_state
        /\ txoff' = TRUE
        /\ To("inform") /\ UNCHANGED <<rc, busstate>>
  /\ PmKeeps /\ UNCHANGED <<dhd_bus_busy_state, bus_low_power_state, wakelock,
                 wait_for_d3_ack, d3ack_timeout_occured, users, device>>

\* D3_INFORM and the low power state in one section of bus_lp_state_lock.
SendD3Inform ==
  /\ spc = "inform"
  /\ dhd_os_wake_lock_waive
  /\ wait_for_d3_ack' = FALSE
  /\ bus_low_power_state' = "D3_INFORM_SENT"
  /\ dongle' = "informed"
  /\ To("ack")
  /\ PmKeeps /\ UNCHANGED <<rc, busstate, dhd_bus_busy_state, users, mail,
                 d3ack_timeout_occured, txoff>>

\* dhd_os_d3ack_wait: woken, or D3_ACK_RESP_TIMEOUT runs out.
AwaitD3Ack ==
  /\ spc = "ack"
  /\ timeleft' = wait_for_d3_ack
  /\ To("restore")
  /\ UNCHANGED <<rc, active, suspends, faults, stranded, bus, wakelock, users,
                 device>>

\* The wake lock counts again; dhd_os_check_wakelock_all also sees the
\* driver's other wake locks, which may be held for reasons of their own.
CheckWakeLocks ==
  \/ /\ spc = "restore"
     /\ dhd_os_wake_lock_restore
     /\ To("decide")
     /\ PmKeeps /\ UNCHANGED <<rc, bus, users, device>>
  \/ /\ spc = "decide"
     /\ active' \in BOOLEAN /\ (wl_wifi => active')
     /\ To("judge")
     /\ UNCHANGED <<rc, timeleft, suspends, faults, stranded, bus, wakelock,
                    users, device>>

\* An acknowledged D3 that nothing speaks against is entered.
Judge ==
  /\ spc = "judge"
  /\ To(IF wait_for_d3_ack THEN (IF active THEN "abort" ELSE "pci")
        ELSE IF timeleft THEN "exit" ELSE "late")
  /\ busstate' = IF spc' = "pci" THEN "SUSPEND" ELSE busstate
  /\ PmKeeps /\ UNCHANGED <<rc, dhd_bus_busy_state, bus_low_power_state, users,
                 wait_for_d3_ack, d3ack_timeout_occured, txoff, wakelock, device>>

\* A wake lock is held: the dongle is brought back to D0.
AbortToD0 ==
  \/ /\ spc = "abort"
     /\ wait_for_d3_ack' = FALSE /\ bus_low_power_state' = "none"
     /\ To("d0") /\ UNCHANGED <<dongle, busstate, txoff, rc>>
  \/ /\ spc = "d0"          \* D0_INFORM and hostready
     /\ dongle' = "D0"
     /\ To("data")
     /\ UNCHANGED <<busstate, txoff, rc, wait_for_d3_ack, bus_low_power_state>>
  \/ /\ spc = "data"
     /\ busstate' = "DATA" /\ txoff' = FALSE
     /\ Fail("ERROR") /\ UNCHANGED <<dongle, wait_for_d3_ack, bus_low_power_state>>

Abort ==
  /\ AbortToD0
  /\ PmKeeps /\ UNCHANGED <<dhd_bus_busy_state, d3ack_timeout_occured, wakelock,
                 users, mail>>

\* No D3_ACK: the bus is opened again first and declared broken last, for
\* dhdpcie_checkdied in between does nothing on a broken bus.
D3AckTimeout ==
  \/ /\ spc = "late" /\ bus_low_power_state' = "none" /\ To("restart")
     /\ UNCHANGED <<rc, busstate, txoff, d3ack_timeout_occured>>
  \/ /\ spc = "restart" /\ busstate' = "DATA" /\ txoff' = FALSE /\ To("flag")
     /\ UNCHANGED <<rc, bus_low_power_state, d3ack_timeout_occured>>
  \/ /\ spc = "flag" /\ d3ack_timeout_occured' = TRUE /\ Fail("ETIMEDOUT")
     /\ UNCHANGED <<busstate, txoff, bus_low_power_state>>

Late ==
  /\ D3AckTimeout
  /\ PmKeeps /\ UNCHANGED <<dhd_bus_busy_state, wait_for_d3_ack, wakelock, users,
                 device>>

\* The DPC is killed and the PCI core asked for D3hot, which it may refuse.
dhdpcie_suspend_dev ==
  /\ spc = "pci"
  /\ dpc = "idle"
  /\ \/ To("exit") /\ UNCHANGED <<rc, faults>>
     \/ faults < MaxFaults /\ faults' = faults + 1 /\ Fail("ERROR")
  /\ UNCHANGED <<timeleft, active, suspends, stranded, bus, wakelock, users,
                 device>>

SuspendExit ==
  /\ spc = "exit"
  /\ ClearBit("SUSPENDING")
  /\ To(IF rc = "OK" THEN "suspended" ELSE "idle")
  /\ PmKeeps /\ UNCHANGED <<rc, busstate, bus_low_power_state, wait_for_d3_ack,
                 d3ack_timeout_occured, txoff, wakelock, users, device>>

Suspend == \/ BusIdle \/ SuspendTimeout \/ StopQueues \/ SendD3Inform
           \/ AwaitD3Ack \/ CheckWakeLocks \/ Judge \/ Abort \/ Late
           \/ dhdpcie_suspend_dev \/ SuspendExit

----------------------------------------------------------------------------
(* dhdpcie_pci_resume and dhdpcie_bus_suspend(FALSE) *)

dhdpcie_pci_resume ==
  /\ spc = "suspended"
  /\ SetBit("RESUMING")
  /\ To(IF d3ack_timeout_occured \/ busstate = "DATA" THEN "end" ELSE "resume")
  /\ PmKeeps /\ UNCHANGED <<rc, busstate, bus_low_power_state, wait_for_d3_ack,
                 d3ack_timeout_occured, txoff, wakelock, users, device>>

dhdpcie_resume_dev ==
  /\ spc = "resume"
  /\ \/ rc' = "OK" /\ UNCHANGED <<faults, stranded>>
     \/ /\ faults < MaxFaults
        /\ faults' = faults + 1 /\ rc' = "ERROR" /\ stranded' = TRUE
  /\ To("lps")
  /\ UNCHANGED <<timeleft, active, suspends, bus, wakelock, users, device>>

\* A resume that leaves the queues to the network stack.
ReopenBusStopped ==
  /\ busstate' = "DATA"
  /\ UNCHANGED txoff

ReopenBus ==
  /\ busstate' = "DATA"
  /\ txoff' = FALSE

\* Whatever the PCI core answered, the bus is opened; only a device that is
\* back is told of D0.
BusResume ==
  \/ /\ spc = "lps"
     /\ bus_low_power_state' = "none"
     /\ To("wake")
     /\ UNCHANGED <<dongle, busstate, txoff, dhd_bus_busy_state>>
  \/ /\ spc = "wake"
     /\ dongle' = IF rc = "OK" THEN "D0" ELSE dongle
     /\ To("start")
     /\ UNCHANGED <<busstate, txoff, bus_low_power_state, dhd_bus_busy_state>>
  \/ /\ spc = "start"
     /\ ReopenBus
     /\ To("end")
     /\ UNCHANGED <<dongle, bus_low_power_state, dhd_bus_busy_state>>
  \/ /\ spc = "end"
     /\ ClearBit("RESUMING")
     /\ To("idle")
     /\ UNCHANGED <<dongle, busstate, txoff, bus_low_power_state>>

Resume ==
  \/ dhdpcie_resume_dev
  \/ /\ BusResume
     /\ PmKeeps /\ UNCHANGED <<rc, wait_for_d3_ack, d3ack_timeout_occured,
                    wakelock, users, mail>>

----------------------------------------------------------------------------
(* dhd_wl_ioctl; some of its callers hold a wake lock, some do not *)

NoIoctlBus == UNCHANGED <<busstate, bus_low_power_state, wait_for_d3_ack,
                          d3ack_timeout_occured, txoff>>

IoctlCall ==
  /\ ipc = "idle"
  /\ ~d3ack_timeout_occured
  /\ \/ holds' = TRUE /\ dhd_os_wake_lock
     \/ holds' = FALSE /\ UNCHANGED wakelock
  /\ ipc' = "mark"
  /\ UNCHANGED <<bus, pm, xpc, fpc, dpc, device>>

\* IN_IOVAR first; then a suspend that is under way is waited for.
IoctlMark ==
  /\ ipc = "mark"
  /\ SetBit("IOVAR")
  /\ ipc' = "wait"
  /\ NoIoctlBus /\ UNCHANGED <<pm, wakelock, holds, xpc, fpc, dpc, device>>

\* The wait ends with the suspend, or after DHD_BUS_BUSY_TIMEOUT.
IoctlWaits ==
  /\ ipc = "wait"
  /\ ipc' = "admit"
  /\ UNCHANGED <<bus, pm, wakelock, holds, xpc, fpc, dpc, device>>

IoctlAdmitAlways ==
  /\ ipc = "admit"
  /\ ipc' = "inside" /\ UNCHANGED dhd_bus_busy_state
  /\ NoIoctlBus /\ UNCHANGED <<pm, wakelock, holds, xpc, fpc, dpc, device>>
IoctlAdmit ==
  /\ ipc = "admit"
  /\ IF SuspendOrSuspending
     THEN ipc' = "unlock" /\ ClearBit("IOVAR")     \* -ENODEV
     ELSE ipc' = "inside" /\ UNCHANGED dhd_bus_busy_state
  /\ NoIoctlBus /\ UNCHANGED <<pm, wakelock, holds, xpc, fpc, dpc, device>>

IoctlDone ==
  /\ ipc = "inside"
  /\ ClearBit("IOVAR")
  /\ ipc' = "unlock"
  /\ NoIoctlBus /\ UNCHANGED <<pm, wakelock, holds, xpc, fpc, dpc, device>>

IoctlReturn ==
  /\ ipc = "unlock"
  /\ IF holds THEN dhd_os_wake_unlock ELSE UNCHANGED wakelock
  /\ ipc' = "idle" /\ holds' = FALSE
  /\ UNCHANGED <<bus, pm, xpc, fpc, dpc, device>>

Ioctl == IoctlMark \/ IoctlWaits \/ IoctlAdmit \/ IoctlDone \/ IoctlReturn

----------------------------------------------------------------------------
(* The transmit paths.  The bit IN_TX is one for all interfaces: the first *)
(* dhd_start_xmit to end clears it for the others too.                     *)

XmitTo(n, p) == xpc' = [xpc EXCEPT ![n] = p]

\* The network stack calls dhd_start_xmit while the queue runs.
dhd_start_xmit(n) ==
  /\ xpc[n] = "idle" /\ ~txoff
  /\ ~d3ack_timeout_occured
  /\ SetBit("TX")
  /\ XmitTo(n, "admit")
  /\ NoIoctlBus /\ UNCHANGED <<pm, wakelock, ipc, holds, fpc, dpc, device>>

XmitAdmitUnlocked(n) ==
  /\ xpc[n] = "admit"
  /\ IF SuspendOrSuspending
     THEN XmitTo(n, "idle") /\ ClearBit("TX") /\ txoff' = TRUE
     ELSE XmitTo(n, "inside") /\ UNCHANGED <<dhd_bus_busy_state, txoff>>
  /\ UNCHANGED <<busstate, bus_low_power_state, wait_for_d3_ack, wakelock,
                 d3ack_timeout_occured, pm, ipc, holds, fpc, dpc, device>>
XmitAdmit(n) ==
  /\ xpc[n] = "admit"
  /\ IF SuspendOrSuspending
     THEN /\ XmitTo(n, "idle")
          /\ ClearBit("TX")
          /\ txoff' = (txoff \/ Suspending \/ "RESUMING" \notin dhd_bus_busy_state)
          /\ UNCHANGED wakelock
     ELSE IF d3ack_timeout_occured      \* hang_was_sent
     THEN /\ XmitTo(n, "unlock")
          /\ ClearBit("TX")
          /\ dhd_os_wake_lock
          /\ txoff' = TRUE
     ELSE /\ XmitTo(n, "inside")
          /\ dhd_os_wake_lock
          /\ UNCHANGED <<dhd_bus_busy_state, txoff>>
  /\ UNCHANGED <<busstate, bus_low_power_state, wait_for_d3_ack,
                 d3ack_timeout_occured, pm, ipc, holds, fpc, dpc, device>>

XmitDone(n) ==
  /\ xpc[n] = "inside"
  /\ ClearBit("TX")
  /\ XmitTo(n, "unlock")
  /\ NoIoctlBus /\ UNCHANGED <<pm, wakelock, ipc, holds, fpc, dpc, device>>

XmitReturn(n) ==
  /\ xpc[n] = "unlock"
  /\ dhd_os_wake_unlock
  /\ XmitTo(n, "idle")
  /\ UNCHANGED <<bus, pm, ipc, holds, fpc, dpc, device>>

Xmit(n) == XmitAdmit(n) \/ XmitDone(n) \/ XmitReturn(n)

\* dhd_sendpkt takes no wake lock: the bit alone keeps the suspend away.
dhd_sendpkt ==
  /\ \/ fpc = "idle" /\ fpc' = "admit" /\ SetBit("SEND_PKT")
     \/ /\ fpc = "admit"
        /\ IF SuspendOrSuspending
           THEN fpc' = "idle" /\ ClearBit("SEND_PKT")
           ELSE fpc' = "inside" /\ UNCHANGED dhd_bus_busy_state
     \/ fpc = "inside" /\ fpc' = "idle" /\ ClearBit("SEND_PKT")
  /\ NoIoctlBus /\ UNCHANGED <<pm, wakelock, ipc, holds, xpc, dpc, device>>

----------------------------------------------------------------------------
(* The DPC, and the dongle *)

\* The interrupt and the DPC are silent after a D3_ACK.
dhd_bus_dpc ==
  /\ dpc = "idle" /\ ~d3ack_timeout_occured
  /\ bus_low_power_state # "D3_ACK_RECIEVED"
  /\ dpc' = "run"
  /\ SetBit("DPC")
  /\ NoIoctlBus /\ UNCHANGED <<pm, wakelock, ipc, holds, xpc, fpc, device>>

HandleD3AckWakeFirst ==
  \/ /\ dpc = "run" /\ mail
     /\ mail' = FALSE
     /\ IF wait_for_d3_ack THEN dpc' = "end" /\ UNCHANGED wait_for_d3_ack
        ELSE wait_for_d3_ack' = TRUE /\ dpc' = "wake"
     /\ UNCHANGED bus_low_power_state
  \/ /\ dpc = "wake"
     /\ bus_low_power_state' = "D3_ACK_RECIEVED" /\ dpc' = "end"
     /\ UNCHANGED <<mail, wait_for_d3_ack>>
\* The low power state first, then the suspending thread is woken.
dhd_bus_handle_d3_ack ==
  \/ /\ dpc = "run" /\ mail
     /\ mail' = FALSE
     /\ IF wait_for_d3_ack THEN dpc' = "end" /\ UNCHANGED bus_low_power_state
        ELSE bus_low_power_state' = "D3_ACK_RECIEVED" /\ dpc' = "wake"
     /\ UNCHANGED wait_for_d3_ack
  \/ /\ dpc = "wake"
     /\ wait_for_d3_ack' = TRUE /\ dpc' = "end"
     /\ UNCHANGED <<mail, bus_low_power_state>>

Dpc ==
  \/ /\ dhd_bus_handle_d3_ack
     /\ UNCHANGED <<busstate, dhd_bus_busy_state, d3ack_timeout_occured, txoff,
                    pm, wakelock, ipc, holds, xpc, fpc, dongle>>
  \/ /\ dpc = "end" \/ (dpc = "run" /\ ~mail)
     /\ dpc' = "idle" /\ ClearBit("DPC")
     /\ NoIoctlBus /\ UNCHANGED <<pm, wakelock, ipc, holds, xpc, fpc, device>>

\* The dongle answers D3_INFORM when it pleases, or never.
D3Ack ==
  /\ dongle = "informed"
  /\ dongle' = "D3"
  /\ mail' = TRUE
  /\ UNCHANGED <<bus, pm, wakelock, users>>

Next ==
  \/ dhdpcie_pci_suspend \/ Suspend \/ dhdpcie_pci_resume \/ Resume
  \/ IoctlCall \/ Ioctl
  \/ \E n \in Netdevs : dhd_start_xmit(n) \/ Xmit(n)
  \/ dhd_sendpkt
  \/ dhd_bus_dpc \/ Dpc
  \/ D3Ack

\* Threads that have begun something are run to its end, and their waits
\* time out.  Nothing obliges anybody to begin, the PM core to resume, or
\* the dongle to answer.
Fairness ==
  /\ WF_vars(Suspend) /\ WF_vars(Resume)
  /\ WF_vars(Ioctl)
  /\ \A n \in Netdevs : WF_vars(Xmit(n))
  /\ WF_vars(fpc # "idle" /\ dhd_sendpkt)
  /\ WF_vars(Dpc)

Spec == Init /\ [][Next]_vars /\ Fairness

----------------------------------------------------------------------------
(* Properties *)

Settled == spc = "idle" /\ ~d3ack_timeout_occured

\* Nobody who was let onto the bus is still on it when it is suspended: the
\* bits catch the ioctl and dhd_sendpkt, and the wake lock check after the
\* D3_ACK catches the dhd_start_xmit whose bit another interface cleared.
\* (The load balancing tasklet, which sends after that, sets no bit: it is
\* outside.)
SuspendedQuiet ==
  busstate = "SUSPEND" =>
    /\ ipc # "inside" /\ fpc # "inside"
    /\ \A n \in Netdevs : xpc[n] # "inside"

\* A request that dhd_wl_ioctl lets through reaches the dongle: its doorbell
\* is not swallowed by a low power state (it would time out and hang the
\* driver), unless the bus is declared broken anyway.
IoctlRings ==
  ipc = "inside" => bus_low_power_state = "none" \/ d3ack_timeout_occured

\* The wake lock says what its counter says, whoever locked and unlocked
\* while it was waived (dhd_os_wake_lock_restore).
WakeLockExact == ~waive_wakelock => wl_wifi = (wakelock_counter > 0)

\* Host and dongle agree once a suspend is over, also one that was aborted:
\* a bus in use has its dongle in D0 and its interrupts unmasked, or an error
\* that keeps everybody off it.
DongleFollows ==
  Settled /\ busstate = "DATA" /\ ~stranded =>
    dongle = "D0" /\ bus_low_power_state = "none" /\ ~mail

\* A suspend comes to an end, although it and an ioctl that has set IN_IOVAR
\* can wait for each other; and the ioctl comes back, also from a bus that
\* stays suspended (dhdpcie_pci_suspend, dhd_wl_ioctl).
WaitsEnd ==
  /\ spc = "wait" ~> spc \in {"idle", "suspended"}
  /\ ipc = "mark" ~> ipc = "idle"

\* A suspend that succeeds, and the resume after it, leave the transmit
\* queues running, whichever of the two and of the transmissions in between
\* stopped them; only a suspend that failed can leave them stopped
\* (dhd_start_xmit, dhdpcie_bus_suspend).
QueuesRunAgain == Settled /\ busstate = "DATA" /\ txoff => rc # "OK"
=============================================================================
