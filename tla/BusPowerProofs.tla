---------------------------- MODULE BusPowerProofs ----------------------------
(***************************************************************************)
(* Proofs about BusPower, for any set of interfaces and any bounds.        *)
(***************************************************************************)
EXTENDS BusPower, FiniteSetTheorems, TLAPS

\* Where the suspending thread is.
SuspendSteps == {"wait", "bus", "inform", "ack", "restore", "decide", "judge",
                 "abort", "d0", "data", "late", "restart", "flag", "pci", "exit"}
Committed == SuspendSteps \ {"wait", "exit"}   \* the bus was found idle
Asking == {"ack", "restore", "decide", "judge"}
GivingUp == {"late", "restart", "flag"}

\* The two halves of the type invariant: the flags, and everything else.
Flags ==
  /\ wait_for_d3_ack \in BOOLEAN /\ d3ack_timeout_occured \in BOOLEAN
  /\ txoff \in BOOLEAN /\ waive_wakelock \in BOOLEAN /\ wl_wifi \in BOOLEAN
  /\ timeleft \in BOOLEAN /\ active \in BOOLEAN /\ holds \in BOOLEAN
  /\ mail \in BOOLEAN /\ stranded \in BOOLEAN
Values ==
  /\ busstate \in {"DATA", "SUSPEND"} /\ dhd_bus_busy_state \subseteq Bits
  /\ bus_low_power_state \in {"none", "D3_INFORM_SENT", "D3_ACK_RECIEVED"}
  /\ wakelock_counter \in 0..MaxLocks /\ wakelock_before_waive \in 0..MaxLocks
  /\ spc \in SuspendSteps \cup
            {"idle", "suspended", "resume", "lps", "wake", "start", "end"}
  /\ rc \in {"OK", "EBUSY", "ERROR", "ETIMEDOUT"}
  /\ ipc \in {"idle", "mark", "wait", "admit", "inside", "unlock"}
  /\ xpc \in [Netdevs -> {"idle", "admit", "inside", "unlock"}]
  /\ fpc \in {"idle", "admit", "inside"} /\ dpc \in {"idle", "run", "wake", "end"}
  /\ dongle \in {"D0", "informed", "D3"}
  /\ suspends \in 0..MaxSuspends /\ faults \in 0..MaxFaults

\* The interfaces whose dhd_start_xmit holds a wake lock, and all who do.
Holding == {n \in Netdevs : xpc[n] \in {"inside", "unlock"}}
Holders == Cardinality(Holding) + (IF holds THEN 1 ELSE 0)

\* Each busy bit but TX is exactly where its thread says it is: the three
\* that are read on their own.
BitsExact ==
  /\ Suspending <=> spc \in SuspendSteps
  /\ "IOVAR" \in dhd_bus_busy_state <=> ipc \in {"wait", "admit", "inside"}
  /\ "SEND_PKT" \in dhd_bus_busy_state <=> fpc # "idle"
  /\ holds => ipc # "idle"

\* The wake lock's counter counts its holders.
LocksCounted == wakelock_counter = Holders

\* The lock itself follows its counter, except while it is waived, which is
\* the time of the wait for the D3_ACK.
LockFollows ==
  /\ waive_wakelock <=> spc \in {"ack", "restore"}
  /\ waive_wakelock => (wl_wifi <=> wakelock_before_waive > 0)
  /\ ~waive_wakelock => (wl_wifi <=> wakelock_counter > 0)

\* Once the bus was found idle nobody else is let in, and a judgement that
\* found no wake lock was made with no transmission inside.
Alone ==
  /\ spc \in Committed => ipc # "inside" /\ fpc # "inside"
  /\ spc = "judge" /\ ~active => \A n \in Netdevs : xpc[n] # "inside"
  /\ SuspendedQuiet

\* The dongle was not asked for D3, or its answer has been dealt with.
Answered == dongle # "informed" /\ ~mail /\ dpc # "wake"

\* The handshake, as long as the dongle has not missed its time.
Handshake ==
  /\ spc \in Committed \ {"bus", "pci"} => busstate = "DATA"
  /\ spc \in {"pci", "suspended", "resume", "lps", "wake", "start"} =>
       busstate = "SUSPEND"
  /\ spc = "exit" /\ rc = "OK" => busstate = "SUSPEND"
  /\ spc \notin Asking \cup GivingUp => Answered
  /\ spc \in Asking =>
       /\ dongle # "D0"
       /\ wait_for_d3_ack => bus_low_power_state = "D3_ACK_RECIEVED" /\ Answered
       /\ timeleft /\ spc # "ack" => wait_for_d3_ack
       /\ mail => dongle = "D3" /\ dpc # "wake"
       /\ dpc = "wake" => dongle = "D3" /\ bus_low_power_state = "D3_ACK_RECIEVED"
  /\ spc = "abort" => dongle = "D3"
  /\ spc \in {"d0", "data"} => bus_low_power_state = "none"
  /\ spc = "data" => dongle = "D0"
  /\ busstate = "SUSPEND" /\ spc \notin {"wake", "start"} =>
       dongle = "D3" /\ bus_low_power_state = "D3_ACK_RECIEVED"
  /\ spc \in {"wake", "start"} => bus_low_power_state = "none"
  /\ spc \in {"lps", "wake"} /\ rc # "OK" => stranded
  /\ spc = "start" => dongle = "D0" \/ stranded
  /\ busstate = "DATA" /\ spc \in {"idle", "wait", "bus", "inform", "exit", "end"} =>
       /\ bus_low_power_state = "none"
       /\ dongle = "D0" \/ stranded

\* The queues run after a resume, and stay so until the next suspend.
QueuesHeld ==
  busstate = "DATA" /\ spc \in {"idle", "end"} /\ rc = "OK" => ~txoff

IInv ==
  /\ TypeOK /\ BitsExact /\ LocksCounted /\ LockFollows /\ Alone
  /\ d3ack_timeout_occured \/ (Handshake /\ QueuesHeld)

-----------------------------------------------------------------------------
\* Any set of interfaces is finite and no larger than all of them.
LEMMA SomeNetdevs ==
  ASSUME NEW S \in SUBSET Netdevs
  PROVE  /\ IsFiniteSet(S) /\ Cardinality(S) \in Nat
         /\ Cardinality(S) \leq Cardinality(Netdevs) /\ Cardinality(Netdevs) \in Nat
BY FS_Subset, FS_CardinalityType, BoundsAssumption

\* The bound of the counter, for who holds a lock.
LEMMA LockBounds ==
  /\ MaxLocks \in Nat /\ 0 \in 0..MaxLocks
  /\ LocksCounted => wakelock_counter \in 0..MaxLocks
<1>1. /\ Cardinality(Holding) \in Nat /\ Cardinality(Holding) \leq Cardinality(Netdevs)
      /\ Cardinality(Netdevs) \in Nat
  BY SomeNetdevs DEF Holding
<1>2. QED
  BY <1>1 DEF LocksCounted, Holders, MaxLocks

\* The two halves make the whole.
LEMMA Types == TypeOK <=> Flags /\ Values
BY DEF TypeOK, Flags, Values, SuspendSteps

\* IInv holds initially.
LEMMA InitIInv == Init => IInv
<1> SUFFICES ASSUME Init PROVE IInv
  OBVIOUS
<1>1. Holding = {}
  BY DEF Init, Holding
<1>2. Cardinality(Holding) = 0 /\ Cardinality(Netdevs) \in Nat
  BY <1>1, FS_EmptySet, SomeNetdevs
<1>3. TypeOK
  <2>1. 0 \in 0..MaxLocks
    BY <1>2 DEF MaxLocks
  <2>2. xpc \in [Netdevs -> {"idle", "admit", "inside", "unlock"}]
    BY DEF Init
  <2>3. Values
    BY <2>1, <2>2, BoundsAssumption DEF Init, Values
  <2>4. Flags
    BY DEF Init, Flags
  <2>5. QED
    BY <2>3, <2>4, Types
<1>4. BitsExact
  BY DEF Init, BitsExact, Suspending, SuspendSteps
<1>5. LocksCounted /\ LockFollows
  BY <1>2 DEF Init, LocksCounted, LockFollows, Holders
<1>6. Alone /\ Handshake /\ QueuesHeld
  BY DEF Init, Alone, SuspendedQuiet, Committed, SuspendSteps, Handshake,
     Answered, Asking,
         GivingUp, QueuesHeld
<1>7. QED
  BY <1>3, <1>4, <1>5, <1>6 DEF IInv

\* Flags stay flags.
LEMMA FlagsStep ==
  Flags /\ [Next]_vars => Flags'
<1> SUFFICES ASSUME Flags, [Next]_vars PROVE Flags'
  OBVIOUS
<1> USE BoundsAssumption DEF Flags, bus, wakelock, pm, users, device
<1>1. CASE dhdpcie_pci_suspend
  BY <1>1 DEF dhdpcie_pci_suspend, SetBit, To
<1>2. CASE BusIdle
  BY <1>2 DEF BusIdle, To, PmKeeps
<1>3. CASE SuspendTimeout
  BY <1>3 DEF SuspendTimeout, Fail, To, PmKeeps
<1>4. CASE StopQueues
  BY <1>4 DEF StopQueues, Fail, To, PmKeeps
<1>5. CASE SendD3Inform
  BY <1>5 DEF SendD3Inform, dhd_os_wake_lock_waive, To, PmKeeps
<1>6. CASE AwaitD3Ack
  BY <1>6 DEF AwaitD3Ack, To
<1>7. CASE CheckWakeLocks
  BY <1>7 DEF CheckWakeLocks, dhd_os_wake_lock_restore, To, PmKeeps
<1>8. CASE Judge
  BY <1>8 DEF Judge, To, PmKeeps
<1>9. CASE Abort
  BY <1>9 DEF Abort, AbortToD0, Fail, To, PmKeeps
<1>10. CASE Late
  BY <1>10 DEF Late, D3AckTimeout, Fail, To, PmKeeps
<1>11. CASE dhdpcie_suspend_dev
  BY <1>11 DEF dhdpcie_suspend_dev, Fail, To
<1>12. CASE SuspendExit
  BY <1>12 DEF SuspendExit, ClearBit, To, PmKeeps
<1>13. CASE dhdpcie_pci_resume
  BY <1>13 DEF dhdpcie_pci_resume, SetBit, To, PmKeeps
<1>14. CASE dhdpcie_resume_dev
  BY <1>14 DEF dhdpcie_resume_dev, To
<1>15. CASE spc \in {"lps", "wake"} /\ Resume
  BY <1>15 DEF Resume, dhdpcie_resume_dev, BusResume, To, PmKeeps
<1>16. CASE spc = "start" /\ Resume
  BY <1>16 DEF Resume, dhdpcie_resume_dev, BusResume, ReopenBus, To, PmKeeps
<1>17. CASE spc = "end" /\ Resume
  BY <1>17 DEF Resume, dhdpcie_resume_dev, BusResume, ClearBit, To, PmKeeps
<1>18. CASE IoctlCall
  BY <1>18 DEF IoctlCall, dhd_os_wake_lock
<1>19. CASE IoctlMark
  BY <1>19 DEF IoctlMark, SetBit, NoIoctlBus
<1>20. CASE IoctlWaits
  BY <1>20 DEF IoctlWaits
<1>21. CASE IoctlAdmit
  BY <1>21 DEF IoctlAdmit, ClearBit, NoIoctlBus, SuspendOrSuspending
<1>22. CASE IoctlDone
  BY <1>22 DEF IoctlDone, ClearBit, NoIoctlBus
<1>23. CASE IoctlReturn
  BY <1>23 DEF IoctlReturn, dhd_os_wake_unlock
<1>24. CASE \E n \in Netdevs : dhd_start_xmit(n)
  BY <1>24 DEF dhd_start_xmit, SetBit, XmitTo, NoIoctlBus
<1>25. CASE \E n \in Netdevs : XmitAdmit(n)
  BY <1>25 DEF XmitAdmit, ClearBit, XmitTo, dhd_os_wake_lock,
     SuspendOrSuspending
<1>26. CASE \E n \in Netdevs : XmitDone(n)
  BY <1>26 DEF XmitDone, ClearBit, XmitTo, NoIoctlBus
<1>27. CASE \E n \in Netdevs : XmitReturn(n)
  BY <1>27 DEF XmitReturn, XmitTo, dhd_os_wake_unlock
<1>28. CASE dhd_sendpkt
  BY <1>28 DEF dhd_sendpkt, SetBit, ClearBit, NoIoctlBus, SuspendOrSuspending
<1>29. CASE dhd_bus_dpc
  BY <1>29 DEF dhd_bus_dpc, SetBit, NoIoctlBus
<1>30. CASE Dpc
  BY <1>30 DEF Dpc, dhd_bus_handle_d3_ack, ClearBit, NoIoctlBus
<1>31. CASE D3Ack
  BY <1>31 DEF D3Ack
<1>32. CASE UNCHANGED vars
  BY <1>32 DEF vars
<1>33. QED
  BY <1>1, <1>2, <1>3, <1>4, <1>5, <1>6, <1>7, <1>8, <1>9, <1>10, <1>11,
     <1>12, <1>13, <1>14, <1>15, <1>16, <1>17, <1>18, <1>19, <1>20, <1>21,
     <1>22, <1>23, <1>24, <1>25, <1>26, <1>27, <1>28, <1>29, <1>30, <1>31,
     <1>32
     DEF Next, Suspend, Resume, BusResume, Ioctl, Xmit

\* The rest keeps its types, given that the counter keeps its bounds.
LEMMA ValuesStep ==
  Values /\ wakelock_counter' \in 0..MaxLocks /\ [Next]_vars => Values'
<1> SUFFICES ASSUME Values, wakelock_counter' \in 0..MaxLocks, [Next]_vars
             PROVE  Values'
  OBVIOUS
<1> USE BoundsAssumption DEF Values, SuspendSteps, bus, wakelock, pm, users,
        device, Bits
<1>1. CASE dhdpcie_pci_suspend
  BY <1>1 DEF dhdpcie_pci_suspend, SetBit, To
<1>2. CASE BusIdle
  BY <1>2 DEF BusIdle, To, PmKeeps
<1>3. CASE SuspendTimeout
  BY <1>3 DEF SuspendTimeout, Fail, To, PmKeeps
<1>4. CASE StopQueues
  BY <1>4 DEF StopQueues, Fail, To, PmKeeps
<1>5. CASE SendD3Inform
  BY <1>5 DEF SendD3Inform, dhd_os_wake_lock_waive, To, PmKeeps
<1>6. CASE AwaitD3Ack
  BY <1>6 DEF AwaitD3Ack, To
<1>7. CASE CheckWakeLocks
  <2>1. 0 \in 0..MaxLocks
    BY LockBounds
  <2>2. wakelock_before_waive' \in 0..MaxLocks
    BY <1>7, <2>1 DEF CheckWakeLocks, dhd_os_wake_lock_restore
  <2>3. CASE spc = "restore"
    BY <1>7, <2>2, <2>3 DEF CheckWakeLocks, To, PmKeeps
  <2>4. CASE spc = "decide"
    BY <1>7, <2>2, <2>4 DEF CheckWakeLocks, To
  <2>5. QED
    BY <1>7, <2>3, <2>4 DEF CheckWakeLocks
<1>8. CASE Judge
  BY <1>8 DEF Judge, To, PmKeeps
<1>9. CASE Abort
  BY <1>9 DEF Abort, AbortToD0, Fail, To, PmKeeps
<1>10. CASE Late
  BY <1>10 DEF Late, D3AckTimeout, Fail, To, PmKeeps
<1>11. CASE dhdpcie_suspend_dev
  BY <1>11 DEF dhdpcie_suspend_dev, Fail, To
<1>12. CASE SuspendExit
  BY <1>12 DEF SuspendExit, ClearBit, To, PmKeeps
<1>13. CASE dhdpcie_pci_resume
  BY <1>13 DEF dhdpcie_pci_resume, SetBit, To, PmKeeps
<1>14. CASE dhdpcie_resume_dev
  BY <1>14 DEF dhdpcie_resume_dev, To
<1>15. CASE spc \in {"lps", "wake"} /\ Resume
  <2>1. dhd_bus_busy_state' \subseteq Bits
    BY <1>15 DEF Resume, dhdpcie_resume_dev, BusResume, To, PmKeeps
  <2>2. QED
    BY <1>15, <2>1 DEF Resume, dhdpcie_resume_dev, BusResume, To, PmKeeps
<1>16. CASE spc = "start" /\ Resume
  BY <1>16 DEF Resume, dhdpcie_resume_dev, BusResume, ReopenBus, To, PmKeeps
<1>17. CASE spc = "end" /\ Resume
  <2>1. dhd_bus_busy_state' \subseteq Bits
    BY <1>17 DEF Resume, dhdpcie_resume_dev, BusResume, ClearBit, To, PmKeeps
  <2>2. QED
    BY <1>17, <2>1 DEF Resume, dhdpcie_resume_dev, BusResume, To, PmKeeps
<1>18. CASE IoctlCall
  BY <1>18 DEF IoctlCall, dhd_os_wake_lock
<1>19. CASE IoctlMark
  BY <1>19 DEF IoctlMark, SetBit, NoIoctlBus
<1>20. CASE IoctlWaits
  BY <1>20 DEF IoctlWaits
<1>21. CASE IoctlAdmit
  <2>1. dhd_bus_busy_state' \subseteq Bits
    BY <1>21 DEF IoctlAdmit, ClearBit, NoIoctlBus, SuspendOrSuspending
  <2>2. QED
    BY <1>21, <2>1 DEF IoctlAdmit, NoIoctlBus
<1>22. CASE IoctlDone
  BY <1>22 DEF IoctlDone, ClearBit, NoIoctlBus
<1>23. CASE IoctlReturn
  BY <1>23 DEF IoctlReturn, dhd_os_wake_unlock
<1>24. CASE \E n \in Netdevs : dhd_start_xmit(n)
  BY <1>24 DEF dhd_start_xmit, SetBit, XmitTo, NoIoctlBus
<1>25. CASE \E n \in Netdevs : XmitAdmit(n)
  <2> PICK n \in Netdevs : XmitAdmit(n)
    BY <1>25
  <2>1. dhd_bus_busy_state' \subseteq Bits
    BY DEF XmitAdmit, ClearBit
  <2>2. wakelock_before_waive' = wakelock_before_waive
    BY DEF XmitAdmit, dhd_os_wake_lock
  <2>3. xpc' \in [Netdevs -> {"idle", "admit", "inside", "unlock"}]
    BY DEF XmitAdmit, XmitTo
  <2>4. QED
    BY <2>1, <2>2, <2>3 DEF XmitAdmit
<1>26. CASE \E n \in Netdevs : XmitDone(n)
  BY <1>26 DEF XmitDone, ClearBit, XmitTo, NoIoctlBus
<1>27. CASE \E n \in Netdevs : XmitReturn(n)
  BY <1>27 DEF XmitReturn, XmitTo, dhd_os_wake_unlock
<1>28. CASE dhd_sendpkt
  <2>1. dhd_bus_busy_state' \subseteq Bits
    BY <1>28 DEF dhd_sendpkt, SetBit, ClearBit, NoIoctlBus, SuspendOrSuspending
  <2>2. QED
    BY <1>28, <2>1 DEF dhd_sendpkt, NoIoctlBus
<1>29. CASE dhd_bus_dpc
  BY <1>29 DEF dhd_bus_dpc, SetBit, NoIoctlBus
<1>30. CASE Dpc
  <2>1. dhd_bus_busy_state' \subseteq Bits
    BY <1>30 DEF Dpc, dhd_bus_handle_d3_ack, ClearBit, NoIoctlBus
  <2>2. QED
    BY <1>30, <2>1 DEF Dpc, dhd_bus_handle_d3_ack, NoIoctlBus
<1>31. CASE D3Ack
  BY <1>31 DEF D3Ack
<1>32. CASE UNCHANGED vars
  BY <1>32 DEF vars
<1>33. QED
  BY <1>1, <1>2, <1>3, <1>4, <1>5, <1>6, <1>7, <1>8, <1>9, <1>10, <1>11,
     <1>12, <1>13, <1>14, <1>15, <1>16, <1>17, <1>18, <1>19, <1>20, <1>21,
     <1>22, <1>23, <1>24, <1>25, <1>26, <1>27, <1>28, <1>29, <1>30, <1>31,
     <1>32
     DEF Next, Suspend, Resume, BusResume, Ioctl, Xmit

\* Who sets a bit clears it.
LEMMA BitsStep ==
  TypeOK /\ BitsExact /\ [Next]_vars => BitsExact'
<1> SUFFICES ASSUME TypeOK, BitsExact, [Next]_vars PROVE BitsExact'
  OBVIOUS
<1> USE BoundsAssumption DEF TypeOK, BitsExact, Suspending, SuspendSteps, bus,
        wakelock, pm, users, device
<1>1. CASE dhdpcie_pci_suspend
  BY <1>1 DEF dhdpcie_pci_suspend, SetBit, To
<1>2. CASE BusIdle
  BY <1>2 DEF BusIdle, To, PmKeeps
<1>3. CASE SuspendTimeout
  BY <1>3 DEF SuspendTimeout, Fail, To, PmKeeps
<1>4. CASE StopQueues
  BY <1>4 DEF StopQueues, Fail, To, PmKeeps
<1>5. CASE SendD3Inform
  BY <1>5 DEF SendD3Inform, dhd_os_wake_lock_waive, To, PmKeeps
<1>6. CASE AwaitD3Ack
  BY <1>6 DEF AwaitD3Ack, To
<1>7. CASE CheckWakeLocks
  BY <1>7 DEF CheckWakeLocks, To, PmKeeps
<1>8. CASE Judge
  BY <1>8 DEF Judge, To, PmKeeps
<1>9. CASE Abort
  BY <1>9 DEF Abort, AbortToD0, Fail, To, PmKeeps
<1>10. CASE Late
  BY <1>10 DEF Late, D3AckTimeout, Fail, To, PmKeeps
<1>11. CASE dhdpcie_suspend_dev
  BY <1>11 DEF dhdpcie_suspend_dev, Fail, To
<1>12. CASE SuspendExit
  BY <1>12 DEF SuspendExit, ClearBit, To, PmKeeps
<1>13. CASE dhdpcie_pci_resume
  BY <1>13 DEF dhdpcie_pci_resume, SetBit, To, PmKeeps
<1>14. CASE dhdpcie_resume_dev
  BY <1>14 DEF dhdpcie_resume_dev, To
<1>15. CASE spc \in {"lps", "wake"} /\ Resume
  BY <1>15 DEF Resume, dhdpcie_resume_dev, BusResume, To, PmKeeps
<1>16. CASE spc = "start" /\ Resume
  BY <1>16 DEF Resume, dhdpcie_resume_dev, BusResume, ReopenBus, To, PmKeeps
<1>17. CASE spc = "end" /\ Resume
  BY <1>17 DEF Resume, dhdpcie_resume_dev, BusResume, ClearBit, To, PmKeeps
<1>18. CASE IoctlCall
  BY <1>18 DEF IoctlCall, dhd_os_wake_lock
<1>19. CASE IoctlMark
  BY <1>19 DEF IoctlMark, SetBit, NoIoctlBus
<1>20. CASE IoctlWaits
  BY <1>20 DEF IoctlWaits
<1>21. CASE IoctlAdmit
  BY <1>21 DEF IoctlAdmit, ClearBit, NoIoctlBus, SuspendOrSuspending
<1>22. CASE IoctlDone
  BY <1>22 DEF IoctlDone, ClearBit, NoIoctlBus
<1>23. CASE IoctlReturn
  BY <1>23 DEF IoctlReturn, dhd_os_wake_unlock
<1>24. CASE \E n \in Netdevs : dhd_start_xmit(n)
  BY <1>24 DEF dhd_start_xmit, SetBit, XmitTo, NoIoctlBus
<1>25. CASE \E n \in Netdevs : XmitAdmit(n)
  BY <1>25 DEF XmitAdmit, ClearBit, XmitTo, dhd_os_wake_lock,
     SuspendOrSuspending
<1>26. CASE \E n \in Netdevs : XmitDone(n)
  BY <1>26 DEF XmitDone, ClearBit, XmitTo, NoIoctlBus
<1>27. CASE \E n \in Netdevs : XmitReturn(n)
  BY <1>27 DEF XmitReturn, XmitTo, dhd_os_wake_unlock
<1>28. CASE dhd_sendpkt
  BY <1>28 DEF dhd_sendpkt, SetBit, ClearBit, NoIoctlBus, SuspendOrSuspending
<1>29. CASE dhd_bus_dpc
  BY <1>29 DEF dhd_bus_dpc, SetBit, NoIoctlBus
<1>30. CASE Dpc
  BY <1>30 DEF Dpc, dhd_bus_handle_d3_ack, ClearBit, NoIoctlBus
<1>31. CASE D3Ack
  BY <1>31 DEF D3Ack
<1>32. CASE UNCHANGED vars
  BY <1>32 DEF vars
<1>33. QED
  BY <1>1, <1>2, <1>3, <1>4, <1>5, <1>6, <1>7, <1>8, <1>9, <1>10, <1>11,
     <1>12, <1>13, <1>14, <1>15, <1>16, <1>17, <1>18, <1>19, <1>20, <1>21,
     <1>22, <1>23, <1>24, <1>25, <1>26, <1>27, <1>28, <1>29, <1>30, <1>31,
     <1>32
     DEF Next, Suspend, Resume, BusResume, Ioctl, Xmit

\* Every lock and unlock goes with a step of its holder.
LEMMA CountStep ==
  TypeOK /\ BitsExact /\ LocksCounted /\ [Next]_vars => LocksCounted'
<1> SUFFICES ASSUME TypeOK, BitsExact, LocksCounted, [Next]_vars
             PROVE  LocksCounted'
  OBVIOUS
<1> USE BoundsAssumption DEF TypeOK, Holders, LocksCounted, bus, wakelock, pm,
        users, device
<1>1. CASE dhdpcie_pci_suspend
  <2>1. Holding' = Holding
    BY <1>1 DEF dhdpcie_pci_suspend, SetBit, To, Holding
  <2>2. QED
    BY <1>1, <2>1 DEF dhdpcie_pci_suspend, SetBit, To
<1>2. CASE BusIdle
  <2>1. Holding' = Holding
    BY <1>2 DEF BusIdle, To, PmKeeps, Holding
  <2>2. QED
    BY <1>2, <2>1 DEF BusIdle, To, PmKeeps
<1>3. CASE SuspendTimeout
  <2>1. Holding' = Holding
    BY <1>3 DEF SuspendTimeout, Fail, To, PmKeeps, Holding
  <2>2. QED
    BY <1>3, <2>1 DEF SuspendTimeout, Fail, To, PmKeeps
<1>4. CASE StopQueues
  <2>1. Holding' = Holding
    BY <1>4 DEF StopQueues, Fail, To, PmKeeps, Holding
  <2>2. QED
    BY <1>4, <2>1 DEF StopQueues, Fail, To, PmKeeps
<1>5. CASE SendD3Inform
  <2>1. Holding' = Holding
    BY <1>5 DEF SendD3Inform, dhd_os_wake_lock_waive, To, PmKeeps, Holding
  <2>2. QED
    BY <1>5, <2>1 DEF SendD3Inform, dhd_os_wake_lock_waive, To, PmKeeps
<1>6. CASE AwaitD3Ack
  <2>1. Holding' = Holding
    BY <1>6 DEF AwaitD3Ack, To, Holding
  <2>2. QED
    BY <1>6, <2>1 DEF AwaitD3Ack, To
<1>7. CASE CheckWakeLocks
  <2>1. Holding' = Holding /\ UNCHANGED <<wakelock_counter, holds>>
    BY <1>7 DEF CheckWakeLocks, dhd_os_wake_lock_restore, Holding
  <2>2. QED
    BY <2>1
<1>8. CASE Judge
  <2>1. Holding' = Holding
    BY <1>8 DEF Judge, To, PmKeeps, Holding
  <2>2. QED
    BY <1>8, <2>1 DEF Judge, To, PmKeeps
<1>9. CASE Abort
  <2>1. Holding' = Holding
    BY <1>9 DEF Abort, AbortToD0, Fail, To, PmKeeps, Holding
  <2>2. QED
    BY <1>9, <2>1 DEF Abort, AbortToD0, Fail, To, PmKeeps
<1>10. CASE Late
  <2>1. Holding' = Holding
    BY <1>10 DEF Late, D3AckTimeout, Fail, To, PmKeeps, Holding
  <2>2. QED
    BY <1>10, <2>1 DEF Late, D3AckTimeout, Fail, To, PmKeeps
<1>11. CASE dhdpcie_suspend_dev
  <2>1. Holding' = Holding
    BY <1>11 DEF dhdpcie_suspend_dev, Fail, To, Holding
  <2>2. QED
    BY <1>11, <2>1 DEF dhdpcie_suspend_dev, Fail, To
<1>12. CASE SuspendExit
  <2>1. Holding' = Holding
    BY <1>12 DEF SuspendExit, ClearBit, To, PmKeeps, Holding
  <2>2. QED
    BY <1>12, <2>1 DEF SuspendExit, ClearBit, To, PmKeeps
<1>13. CASE dhdpcie_pci_resume
  <2>1. Holding' = Holding
    BY <1>13 DEF dhdpcie_pci_resume, SetBit, To, PmKeeps, Holding
  <2>2. QED
    BY <1>13, <2>1 DEF dhdpcie_pci_resume, SetBit, To, PmKeeps
<1>14. CASE dhdpcie_resume_dev
  <2>1. Holding' = Holding
    BY <1>14 DEF dhdpcie_resume_dev, To, Holding
  <2>2. QED
    BY <1>14, <2>1 DEF dhdpcie_resume_dev, To
<1>15. CASE spc \in {"lps", "wake"} /\ Resume
  <2>1. Holding' = Holding
    BY <1>15 DEF Resume, dhdpcie_resume_dev, BusResume, To, PmKeeps, Holding
  <2>2. QED
    BY <1>15, <2>1 DEF Resume, dhdpcie_resume_dev, BusResume, To, PmKeeps
<1>16. CASE spc = "start" /\ Resume
  <2>1. Holding' = Holding
    BY <1>16 DEF Resume, dhdpcie_resume_dev, BusResume, ReopenBus, To, PmKeeps,
       Holding
  <2>2. QED
    BY <1>16, <2>1 DEF Resume, dhdpcie_resume_dev, BusResume, ReopenBus, To,
       PmKeeps
<1>17. CASE spc = "end" /\ Resume
  <2>1. Holding' = Holding
    BY <1>17 DEF Resume, dhdpcie_resume_dev, BusResume, ClearBit, To, PmKeeps,
       Holding
  <2>2. QED
    BY <1>17, <2>1 DEF Resume, dhdpcie_resume_dev, BusResume, ClearBit, To,
       PmKeeps
<1>18. CASE IoctlCall
  <2>1. Holding' = Holding /\ Cardinality(Holding) \in Nat
    BY <1>18, SomeNetdevs DEF IoctlCall, Holding
  <2>2. ~holds
    BY <1>18 DEF IoctlCall, BitsExact
  <2>3. CASE holds' = TRUE /\ dhd_os_wake_lock
    BY <2>1, <2>2, <2>3 DEF dhd_os_wake_lock
  <2>4. CASE holds' = FALSE /\ UNCHANGED wakelock
    BY <2>1, <2>2, <2>4
  <2>5. QED
    BY <1>18, <2>3, <2>4 DEF IoctlCall
<1>19. CASE IoctlMark
  <2>1. Holding' = Holding
    BY <1>19 DEF IoctlMark, SetBit, NoIoctlBus, Holding
  <2>2. QED
    BY <1>19, <2>1 DEF IoctlMark, SetBit, NoIoctlBus
<1>20. CASE IoctlWaits
  <2>1. Holding' = Holding
    BY <1>20 DEF IoctlWaits, Holding
  <2>2. QED
    BY <1>20, <2>1 DEF IoctlWaits
<1>21. CASE IoctlAdmit
  <2>1. Holding' = Holding
    BY <1>21 DEF IoctlAdmit, ClearBit, NoIoctlBus, SuspendOrSuspending, Holding
  <2>2. QED
    BY <1>21, <2>1 DEF IoctlAdmit, ClearBit, NoIoctlBus, SuspendOrSuspending
<1>22. CASE IoctlDone
  <2>1. Holding' = Holding
    BY <1>22 DEF IoctlDone, ClearBit, NoIoctlBus, Holding
  <2>2. QED
    BY <1>22, <2>1 DEF IoctlDone, ClearBit, NoIoctlBus
<1>23. CASE IoctlReturn
  <2>1. Holding' = Holding /\ Cardinality(Holding) \in Nat /\ holds' = FALSE
    BY <1>23, SomeNetdevs DEF IoctlReturn, Holding
  <2>2. CASE holds
    BY <1>23, <2>1, <2>2 DEF IoctlReturn, dhd_os_wake_unlock
  <2>3. CASE ~holds
    BY <1>23, <2>1, <2>3 DEF IoctlReturn
  <2>4. QED
    BY <2>2, <2>3
<1>24. CASE \E n \in Netdevs : dhd_start_xmit(n)
  <2>1. Holding' = Holding
    BY <1>24 DEF dhd_start_xmit, XmitTo, NoIoctlBus, Holding
  <2>2. QED
    BY <1>24, <2>1 DEF dhd_start_xmit, NoIoctlBus
<1>25. CASE \E n \in Netdevs : XmitAdmit(n)
  <2> PICK n \in Netdevs : XmitAdmit(n)
    BY <1>25
  <2>1. CASE SuspendOrSuspending
    <3>1. Holding' = Holding
      BY <2>1 DEF XmitAdmit, XmitTo, Holding
    <3>2. QED
      BY <2>1, <3>1 DEF XmitAdmit
  <2>2. CASE ~SuspendOrSuspending
    <3>1. Holding' = Holding \cup {n} /\ n \notin Holding
      BY <2>2 DEF XmitAdmit, XmitTo, Holding
    <3>2. IsFiniteSet(Holding) /\ Cardinality(Holding) \in Nat
      BY SomeNetdevs DEF Holding
    <3>3. Cardinality(Holding') = Cardinality(Holding) + 1
      BY <3>1, <3>2, FS_AddElement
    <3>4. QED
      BY <2>2, <3>2, <3>3 DEF XmitAdmit, dhd_os_wake_lock
  <2>3. QED
    BY <2>1, <2>2
<1>26. CASE \E n \in Netdevs : XmitDone(n)
  <2>1. Holding' = Holding
    BY <1>26 DEF XmitDone, XmitTo, NoIoctlBus, Holding
  <2>2. QED
    BY <1>26, <2>1 DEF XmitDone, NoIoctlBus
<1>27. CASE \E n \in Netdevs : XmitReturn(n)
  <2> PICK n \in Netdevs : XmitReturn(n)
    BY <1>27
  <2>1. Holding' = Holding \ {n} /\ n \in Holding
    BY DEF XmitReturn, XmitTo, Holding
  <2>2. IsFiniteSet(Holding) /\ Cardinality(Holding) \in Nat
    BY SomeNetdevs DEF Holding
  <2>3. Cardinality(Holding') = Cardinality(Holding) - 1
    BY <2>1, <2>2, FS_RemoveElement
  <2>4. QED
    BY <2>2, <2>3 DEF XmitReturn, dhd_os_wake_unlock
<1>28. CASE dhd_sendpkt
  <2>1. Holding' = Holding
    BY <1>28 DEF dhd_sendpkt, SetBit, ClearBit, NoIoctlBus, SuspendOrSuspending,
       Holding
  <2>2. QED
    BY <1>28, <2>1 DEF dhd_sendpkt, SetBit, ClearBit, NoIoctlBus,
       SuspendOrSuspending
<1>29. CASE dhd_bus_dpc
  <2>1. Holding' = Holding
    BY <1>29 DEF dhd_bus_dpc, SetBit, NoIoctlBus, Holding
  <2>2. QED
    BY <1>29, <2>1 DEF dhd_bus_dpc, SetBit, NoIoctlBus
<1>30. CASE Dpc
  <2>1. Holding' = Holding
    BY <1>30 DEF Dpc, dhd_bus_handle_d3_ack, ClearBit, NoIoctlBus, Holding
  <2>2. QED
    BY <1>30, <2>1 DEF Dpc, dhd_bus_handle_d3_ack, ClearBit, NoIoctlBus
<1>31. CASE D3Ack
  <2>1. Holding' = Holding
    BY <1>31 DEF D3Ack, Holding
  <2>2. QED
    BY <1>31, <2>1 DEF D3Ack
<1>32. CASE UNCHANGED vars
  <2>1. Holding' = Holding
    BY <1>32 DEF vars, Holding
  <2>2. QED
    BY <1>32, <2>1 DEF vars
<1>33. QED
  BY <1>1, <1>2, <1>3, <1>4, <1>5, <1>6, <1>7, <1>8, <1>9, <1>10, <1>11,
     <1>12, <1>13, <1>14, <1>15, <1>16, <1>17, <1>18, <1>19, <1>20, <1>21,
     <1>22, <1>23, <1>24, <1>25, <1>26, <1>27, <1>28, <1>29, <1>30, <1>31,
     <1>32
     DEF Next, Suspend, Resume, BusResume, Ioctl, Xmit

\* Taking the lock keeps it in step with its counter.
LEMMA LockTaken ==
  ASSUME TypeOK, LockFollows, dhd_os_wake_lock, spc' = spc
  PROVE  LockFollows'
<1> USE DEF TypeOK, LockFollows
<1>1. /\ wakelock_counter \in Nat /\ wakelock_counter' = wakelock_counter + 1
      /\ waive_wakelock' = waive_wakelock /\ wakelock_before_waive' = wakelock_before_waive
      /\ wl_wifi' = (wl_wifi \/ (wakelock_counter = 0 /\ ~waive_wakelock))
  BY LockBounds DEF dhd_os_wake_lock
<1>2. CASE waive_wakelock
  <2>1. wl_wifi' = wl_wifi
    BY <1>1, <1>2 DEF dhd_os_wake_lock
  <2>2. QED
    BY <1>1, <1>2, <2>1
<1>3. CASE ~waive_wakelock
  <2>1. wakelock_counter = 0 \/ wl_wifi
    BY <1>1, <1>3
  <2>2. wl_wifi' = TRUE
    BY <1>1, <1>3, <2>1
  <2>3. QED
    BY <1>1, <1>3, <2>2
<1>4. QED
  BY <1>2, <1>3

\* The restored lock is what its counter says.
LEMMA LockRestored ==
  ASSUME TypeOK, LockFollows, dhd_os_wake_lock_restore, waive_wakelock
  PROVE  wl_wifi' <=> wakelock_counter > 0
<1> USE DEF TypeOK, LockFollows, dhd_os_wake_lock_restore
<1>1. wakelock_counter \in Nat /\ wakelock_before_waive \in Nat
  BY LockBounds
<1>2. CASE wakelock_before_waive = 0 /\ wakelock_counter > 0
  BY <1>2
<1>3. CASE wakelock_before_waive > 0 /\ wakelock_counter = 0
  <2>1. wl_wifi' = FALSE
    BY <1>3
  <2>2. QED
    BY <1>3, <2>1
<1>4. CASE wakelock_before_waive > 0 /\ wakelock_counter > 0
  <2>1. ~(wakelock_before_waive = 0) /\ ~(wakelock_counter = 0)
    BY <1>1, <1>4
  <2>2. wl_wifi' = wl_wifi
    BY <2>1
  <2>3. QED
    BY <1>4, <2>2
<1>5. CASE wakelock_before_waive = 0 /\ wakelock_counter = 0
  <2>1. wl_wifi' = wl_wifi
    BY <1>5
  <2>2. QED
    BY <1>5, <2>1
<1>6. QED
  BY <1>1, <1>2, <1>3, <1>4, <1>5

\* What waive and restore do to the lock.
LEMMA LockStep ==
  TypeOK /\ BitsExact /\ LockFollows /\ [Next]_vars => LockFollows'
<1> SUFFICES ASSUME TypeOK, BitsExact, LockFollows, [Next]_vars
             PROVE  LockFollows'
  OBVIOUS
<1> USE BoundsAssumption DEF TypeOK, BitsExact, LockFollows, bus, wakelock, pm,
        users, device
<1>1. CASE dhdpcie_pci_suspend
  BY <1>1 DEF dhdpcie_pci_suspend, SetBit, To
<1>2. CASE BusIdle
  BY <1>2 DEF BusIdle, To, PmKeeps
<1>3. CASE SuspendTimeout
  BY <1>3 DEF SuspendTimeout, Fail, To, PmKeeps
<1>4. CASE StopQueues
  BY <1>4 DEF StopQueues, Fail, To, PmKeeps
<1>5. CASE SendD3Inform
  BY <1>5 DEF SendD3Inform, dhd_os_wake_lock_waive, To, PmKeeps
<1>6. CASE AwaitD3Ack
  BY <1>6 DEF AwaitD3Ack, To
<1>7. CASE CheckWakeLocks
  <2>1. CASE spc = "restore"
    <3>1. ~waive_wakelock' /\ wakelock_counter' = wakelock_counter /\ spc' = "decide"
      BY <1>7, <2>1 DEF CheckWakeLocks, dhd_os_wake_lock_restore, To
    <3>2. wl_wifi' <=> wakelock_counter > 0
      BY <1>7, <2>1, LockRestored DEF CheckWakeLocks
    <3>3. QED
      BY <3>1, <3>2
  <2>2. CASE spc = "decide"
    BY <1>7, <2>2 DEF CheckWakeLocks, To
  <2>3. QED
    BY <1>7, <2>1, <2>2 DEF CheckWakeLocks
<1>8. CASE Judge
  BY <1>8 DEF Judge, To, PmKeeps
<1>9. CASE Abort
  BY <1>9 DEF Abort, AbortToD0, Fail, To, PmKeeps
<1>10. CASE Late
  BY <1>10 DEF Late, D3AckTimeout, Fail, To, PmKeeps
<1>11. CASE dhdpcie_suspend_dev
  BY <1>11 DEF dhdpcie_suspend_dev, Fail, To
<1>12. CASE SuspendExit
  BY <1>12 DEF SuspendExit, ClearBit, To, PmKeeps
<1>13. CASE dhdpcie_pci_resume
  BY <1>13 DEF dhdpcie_pci_resume, SetBit, To, PmKeeps
<1>14. CASE dhdpcie_resume_dev
  BY <1>14 DEF dhdpcie_resume_dev, To
<1>15. CASE spc \in {"lps", "wake"} /\ Resume
  BY <1>15 DEF Resume, dhdpcie_resume_dev, BusResume, To, PmKeeps
<1>16. CASE spc = "start" /\ Resume
  BY <1>16 DEF Resume, dhdpcie_resume_dev, BusResume, ReopenBus, To, PmKeeps
<1>17. CASE spc = "end" /\ Resume
  BY <1>17 DEF Resume, dhdpcie_resume_dev, BusResume, ClearBit, To, PmKeeps
<1>18. CASE IoctlCall
  <2>1. CASE holds' = TRUE /\ dhd_os_wake_lock
    BY <1>18, <2>1, LockTaken DEF IoctlCall
  <2>2. CASE holds' = FALSE /\ UNCHANGED wakelock
    BY <1>18, <2>2 DEF IoctlCall
  <2>3. QED
    BY <1>18, <2>1, <2>2 DEF IoctlCall
<1>19. CASE IoctlMark
  BY <1>19 DEF IoctlMark, SetBit, NoIoctlBus
<1>20. CASE IoctlWaits
  BY <1>20 DEF IoctlWaits
<1>21. CASE IoctlAdmit
  BY <1>21 DEF IoctlAdmit, ClearBit, NoIoctlBus, SuspendOrSuspending
<1>22. CASE IoctlDone
  BY <1>22 DEF IoctlDone, ClearBit, NoIoctlBus
<1>23. CASE IoctlReturn
  BY <1>23 DEF IoctlReturn, dhd_os_wake_unlock
<1>24. CASE \E n \in Netdevs : dhd_start_xmit(n)
  BY <1>24 DEF dhd_start_xmit, SetBit, XmitTo, NoIoctlBus
<1>25. CASE \E n \in Netdevs : XmitAdmit(n)
  <2> PICK n \in Netdevs : XmitAdmit(n)
    BY <1>25
  <2>1. spc' = spc /\ (dhd_os_wake_lock \/ UNCHANGED wakelock)
    BY DEF XmitAdmit
  <2>2. CASE dhd_os_wake_lock
    BY <2>1, <2>2, LockTaken
  <2>3. CASE UNCHANGED wakelock
    BY <2>1, <2>3
  <2>4. QED
    BY <2>1, <2>2, <2>3
<1>26. CASE \E n \in Netdevs : XmitDone(n)
  BY <1>26 DEF XmitDone, ClearBit, XmitTo, NoIoctlBus
<1>27. CASE \E n \in Netdevs : XmitReturn(n)
  BY <1>27 DEF XmitReturn, XmitTo, dhd_os_wake_unlock
<1>28. CASE dhd_sendpkt
  BY <1>28 DEF dhd_sendpkt, SetBit, ClearBit, NoIoctlBus, SuspendOrSuspending
<1>29. CASE dhd_bus_dpc
  BY <1>29 DEF dhd_bus_dpc, SetBit, NoIoctlBus
<1>30. CASE Dpc
  BY <1>30 DEF Dpc, dhd_bus_handle_d3_ack, ClearBit, NoIoctlBus
<1>31. CASE D3Ack
  BY <1>31 DEF D3Ack
<1>32. CASE UNCHANGED vars
  BY <1>32 DEF vars
<1>33. QED
  BY <1>1, <1>2, <1>3, <1>4, <1>5, <1>6, <1>7, <1>8, <1>9, <1>10, <1>11,
     <1>12, <1>13, <1>14, <1>15, <1>16, <1>17, <1>18, <1>19, <1>20, <1>21,
     <1>22, <1>23, <1>24, <1>25, <1>26, <1>27, <1>28, <1>29, <1>30, <1>31,
     <1>32
     DEF Next, Suspend, Resume, BusResume, Ioctl, Xmit

\* Nobody gets in on the way to a suspended bus, and who was in is noticed.
LEMMA AloneStep ==
  TypeOK /\ BitsExact /\ LocksCounted /\ LockFollows /\ Alone /\ [Next]_vars => Alone'
<1> SUFFICES ASSUME TypeOK, BitsExact, LocksCounted, LockFollows, Alone, [Next]_vars
             PROVE  Alone'
  OBVIOUS
<1> USE BoundsAssumption DEF TypeOK, BitsExact, Alone, SuspendedQuiet,
        Suspending, SuspendSteps, Committed, bus, wakelock, pm, users, device
<1>1. CASE dhdpcie_pci_suspend
  BY <1>1 DEF dhdpcie_pci_suspend, SetBit, To
<1>2. CASE BusIdle
  BY <1>2 DEF BusIdle, To, PmKeeps
<1>3. CASE SuspendTimeout
  BY <1>3 DEF SuspendTimeout, Fail, To, PmKeeps
<1>4. CASE StopQueues
  BY <1>4 DEF StopQueues, Fail, To, PmKeeps
<1>5. CASE SendD3Inform
  BY <1>5 DEF SendD3Inform, dhd_os_wake_lock_waive, To, PmKeeps
<1>6. CASE AwaitD3Ack
  BY <1>6 DEF AwaitD3Ack, To
<1>7. CASE CheckWakeLocks
  <2>1. CASE spc = "restore"
    BY <1>7, <2>1 DEF CheckWakeLocks, To, PmKeeps
  <2>2. CASE spc = "decide"
    <3>1. ASSUME ~active', NEW n \in Netdevs, xpc[n] = "inside" PROVE FALSE
      <4>1. wakelock_counter = 0
        BY <1>7, <2>2, <3>1 DEF CheckWakeLocks, LockFollows
      <4>2. n \in Holding
        BY <3>1 DEF Holding
      <4>3. IsFiniteSet(Holding) /\ Cardinality(Holding) \in Nat
        BY SomeNetdevs DEF Holding
      <4>4. Cardinality(Holding) # 0
        BY <4>2, <4>3, FS_EmptySet
      <4>5. QED
        BY <4>1, <4>3, <4>4 DEF LocksCounted, Holders
    <3>2. QED
      BY <1>7, <2>2, <3>1 DEF CheckWakeLocks, To
  <2>3. QED
    BY <1>7, <2>1, <2>2 DEF CheckWakeLocks
<1>8. CASE Judge
  BY <1>8 DEF Judge, To, PmKeeps
<1>9. CASE Abort
  BY <1>9 DEF Abort, AbortToD0, Fail, To, PmKeeps
<1>10. CASE Late
  BY <1>10 DEF Late, D3AckTimeout, Fail, To, PmKeeps
<1>11. CASE dhdpcie_suspend_dev
  BY <1>11 DEF dhdpcie_suspend_dev, Fail, To
<1>12. CASE SuspendExit
  BY <1>12 DEF SuspendExit, ClearBit, To, PmKeeps
<1>13. CASE dhdpcie_pci_resume
  BY <1>13 DEF dhdpcie_pci_resume, SetBit, To, PmKeeps
<1>14. CASE dhdpcie_resume_dev
  BY <1>14 DEF dhdpcie_resume_dev, To
<1>15. CASE spc \in {"lps", "wake"} /\ Resume
  BY <1>15 DEF Resume, dhdpcie_resume_dev, BusResume, To, PmKeeps
<1>16. CASE spc = "start" /\ Resume
  BY <1>16 DEF Resume, dhdpcie_resume_dev, BusResume, ReopenBus, To, PmKeeps
<1>17. CASE spc = "end" /\ Resume
  BY <1>17 DEF Resume, dhdpcie_resume_dev, BusResume, ClearBit, To, PmKeeps
<1>18. CASE IoctlCall
  BY <1>18 DEF IoctlCall, dhd_os_wake_lock
<1>19. CASE IoctlMark
  BY <1>19 DEF IoctlMark, SetBit, NoIoctlBus
<1>20. CASE IoctlWaits
  BY <1>20 DEF IoctlWaits
<1>21. CASE IoctlAdmit
  BY <1>21 DEF IoctlAdmit, ClearBit, NoIoctlBus, SuspendOrSuspending
<1>22. CASE IoctlDone
  BY <1>22 DEF IoctlDone, ClearBit, NoIoctlBus
<1>23. CASE IoctlReturn
  BY <1>23 DEF IoctlReturn, dhd_os_wake_unlock
<1>24. CASE \E n \in Netdevs : dhd_start_xmit(n)
  BY <1>24 DEF dhd_start_xmit, SetBit, XmitTo, NoIoctlBus
<1>25. CASE \E n \in Netdevs : XmitAdmit(n)
  BY <1>25 DEF XmitAdmit, ClearBit, XmitTo, dhd_os_wake_lock,
     SuspendOrSuspending
<1>26. CASE \E n \in Netdevs : XmitDone(n)
  BY <1>26 DEF XmitDone, ClearBit, XmitTo, NoIoctlBus
<1>27. CASE \E n \in Netdevs : XmitReturn(n)
  BY <1>27 DEF XmitReturn, XmitTo, dhd_os_wake_unlock
<1>28. CASE dhd_sendpkt
  BY <1>28 DEF dhd_sendpkt, SetBit, ClearBit, NoIoctlBus, SuspendOrSuspending
<1>29. CASE dhd_bus_dpc
  BY <1>29 DEF dhd_bus_dpc, SetBit, NoIoctlBus
<1>30. CASE Dpc
  BY <1>30 DEF Dpc, dhd_bus_handle_d3_ack, ClearBit, NoIoctlBus
<1>31. CASE D3Ack
  BY <1>31 DEF D3Ack
<1>32. CASE UNCHANGED vars
  BY <1>32 DEF vars
<1>33. QED
  BY <1>1, <1>2, <1>3, <1>4, <1>5, <1>6, <1>7, <1>8, <1>9, <1>10, <1>11,
     <1>12, <1>13, <1>14, <1>15, <1>16, <1>17, <1>18, <1>19, <1>20, <1>21,
     <1>22, <1>23, <1>24, <1>25, <1>26, <1>27, <1>28, <1>29, <1>30, <1>31,
     <1>32
     DEF Next, Suspend, Resume, BusResume, Ioctl, Xmit

\* Each step of the handshake with the dongle, unless it missed its time.
LEMMA HandshakeStep ==
  IInv /\ ~d3ack_timeout_occured /\ [Next]_vars => d3ack_timeout_occured' \/ Handshake'
<1> SUFFICES ASSUME IInv, ~d3ack_timeout_occured, [Next]_vars
             PROVE  d3ack_timeout_occured' \/ Handshake'
  OBVIOUS
<1> USE BoundsAssumption DEF IInv, TypeOK, BitsExact, Handshake, Answered,
        Asking, GivingUp, Suspending, SuspendSteps, Committed, bus, wakelock,
        pm, users, device
<1>1. CASE dhdpcie_pci_suspend
  BY <1>1 DEF dhdpcie_pci_suspend, SetBit, To
<1>2. CASE BusIdle
  BY <1>2 DEF BusIdle, To, PmKeeps
<1>3. CASE SuspendTimeout
  BY <1>3 DEF SuspendTimeout, Fail, To, PmKeeps
<1>4. CASE StopQueues
  BY <1>4 DEF StopQueues, Fail, To, PmKeeps
<1>5. CASE SendD3Inform
  BY <1>5 DEF SendD3Inform, dhd_os_wake_lock_waive, To, PmKeeps
<1>6. CASE AwaitD3Ack
  BY <1>6 DEF AwaitD3Ack, To
<1>7. CASE CheckWakeLocks
  BY <1>7 DEF CheckWakeLocks, dhd_os_wake_lock_restore, To, PmKeeps
<1>8. CASE Judge
  BY <1>8 DEF Judge, To, PmKeeps
<1>9. CASE Abort
  BY <1>9 DEF Abort, AbortToD0, Fail, To, PmKeeps
<1>10. CASE Late
  BY <1>10 DEF Late, D3AckTimeout, Fail, To, PmKeeps
<1>11. CASE dhdpcie_suspend_dev
  BY <1>11 DEF dhdpcie_suspend_dev, Fail, To
<1>12. CASE SuspendExit
  BY <1>12 DEF SuspendExit, ClearBit, To, PmKeeps
<1>13. CASE dhdpcie_pci_resume
  BY <1>13 DEF dhdpcie_pci_resume, SetBit, To, PmKeeps
<1>14. CASE dhdpcie_resume_dev
  BY <1>14 DEF dhdpcie_resume_dev, To
<1>15. CASE spc \in {"lps", "wake"} /\ Resume
  BY <1>15 DEF Resume, dhdpcie_resume_dev, BusResume, To, PmKeeps
<1>16. CASE spc = "start" /\ Resume
  BY <1>16 DEF Resume, dhdpcie_resume_dev, BusResume, ReopenBus, To, PmKeeps
<1>17. CASE spc = "end" /\ Resume
  BY <1>17 DEF Resume, dhdpcie_resume_dev, BusResume, ClearBit, To, PmKeeps
<1>18. CASE IoctlCall
  BY <1>18 DEF IoctlCall, dhd_os_wake_lock
<1>19. CASE IoctlMark
  BY <1>19 DEF IoctlMark, SetBit, NoIoctlBus
<1>20. CASE IoctlWaits
  BY <1>20 DEF IoctlWaits
<1>21. CASE IoctlAdmit
  BY <1>21 DEF IoctlAdmit, ClearBit, NoIoctlBus, SuspendOrSuspending
<1>22. CASE IoctlDone
  BY <1>22 DEF IoctlDone, ClearBit, NoIoctlBus
<1>23. CASE IoctlReturn
  BY <1>23 DEF IoctlReturn, dhd_os_wake_unlock
<1>24. CASE \E n \in Netdevs : dhd_start_xmit(n)
  BY <1>24 DEF dhd_start_xmit, SetBit, XmitTo, NoIoctlBus
<1>25. CASE \E n \in Netdevs : XmitAdmit(n)
  BY <1>25 DEF XmitAdmit, ClearBit, XmitTo, dhd_os_wake_lock,
     SuspendOrSuspending
<1>26. CASE \E n \in Netdevs : XmitDone(n)
  BY <1>26 DEF XmitDone, ClearBit, XmitTo, NoIoctlBus
<1>27. CASE \E n \in Netdevs : XmitReturn(n)
  BY <1>27 DEF XmitReturn, XmitTo, dhd_os_wake_unlock
<1>28. CASE dhd_sendpkt
  BY <1>28 DEF dhd_sendpkt, SetBit, ClearBit, NoIoctlBus, SuspendOrSuspending
<1>29. CASE dhd_bus_dpc
  BY <1>29 DEF dhd_bus_dpc, SetBit, NoIoctlBus
<1>30. CASE Dpc
  BY <1>30 DEF Dpc, dhd_bus_handle_d3_ack, ClearBit, NoIoctlBus
<1>31. CASE D3Ack
  BY <1>31 DEF D3Ack
<1>32. CASE UNCHANGED vars
  BY <1>32 DEF vars
<1>33. QED
  BY <1>1, <1>2, <1>3, <1>4, <1>5, <1>6, <1>7, <1>8, <1>9, <1>10, <1>11,
     <1>12, <1>13, <1>14, <1>15, <1>16, <1>17, <1>18, <1>19, <1>20, <1>21,
     <1>22, <1>23, <1>24, <1>25, <1>26, <1>27, <1>28, <1>29, <1>30, <1>31,
     <1>32
     DEF Next, Suspend, Resume, BusResume, Ioctl, Xmit

\* No transmission stops the queues again after a resume.
LEMMA QueuesStep ==
  IInv /\ ~d3ack_timeout_occured /\ [Next]_vars => d3ack_timeout_occured' \/ QueuesHeld'
<1> SUFFICES ASSUME IInv, ~d3ack_timeout_occured, [Next]_vars
             PROVE  d3ack_timeout_occured' \/ QueuesHeld'
  OBVIOUS
<1> USE BoundsAssumption DEF IInv, TypeOK, BitsExact, Handshake, Committed,
        QueuesHeld, Suspending, SuspendSteps, bus, wakelock, pm, users, device
<1>1. CASE dhdpcie_pci_suspend
  BY <1>1 DEF dhdpcie_pci_suspend, SetBit, To
<1>2. CASE BusIdle
  BY <1>2 DEF BusIdle, To, PmKeeps
<1>3. CASE SuspendTimeout
  BY <1>3 DEF SuspendTimeout, Fail, To, PmKeeps
<1>4. CASE StopQueues
  BY <1>4 DEF StopQueues, Fail, To, PmKeeps
<1>5. CASE SendD3Inform
  BY <1>5 DEF SendD3Inform, dhd_os_wake_lock_waive, To, PmKeeps
<1>6. CASE AwaitD3Ack
  BY <1>6 DEF AwaitD3Ack, To
<1>7. CASE CheckWakeLocks
  BY <1>7 DEF CheckWakeLocks, dhd_os_wake_lock_restore, To, PmKeeps
<1>8. CASE Judge
  BY <1>8 DEF Judge, To, PmKeeps
<1>9. CASE Abort
  BY <1>9 DEF Abort, AbortToD0, Fail, To, PmKeeps
<1>10. CASE Late
  BY <1>10 DEF Late, D3AckTimeout, Fail, To, PmKeeps
<1>11. CASE dhdpcie_suspend_dev
  BY <1>11 DEF dhdpcie_suspend_dev, Fail, To
<1>12. CASE SuspendExit
  BY <1>12 DEF SuspendExit, ClearBit, To, PmKeeps
<1>13. CASE dhdpcie_pci_resume
  BY <1>13 DEF dhdpcie_pci_resume, SetBit, To, PmKeeps
<1>14. CASE dhdpcie_resume_dev
  BY <1>14 DEF dhdpcie_resume_dev, To
<1>15. CASE spc \in {"lps", "wake"} /\ Resume
  BY <1>15 DEF Resume, dhdpcie_resume_dev, BusResume, To, PmKeeps
<1>16. CASE spc = "start" /\ Resume
  BY <1>16 DEF Resume, dhdpcie_resume_dev, BusResume, ReopenBus, To, PmKeeps
<1>17. CASE spc = "end" /\ Resume
  BY <1>17 DEF Resume, dhdpcie_resume_dev, BusResume, ClearBit, To, PmKeeps
<1>18. CASE IoctlCall
  BY <1>18 DEF IoctlCall, dhd_os_wake_lock
<1>19. CASE IoctlMark
  BY <1>19 DEF IoctlMark, SetBit, NoIoctlBus
<1>20. CASE IoctlWaits
  BY <1>20 DEF IoctlWaits
<1>21. CASE IoctlAdmit
  BY <1>21 DEF IoctlAdmit, ClearBit, NoIoctlBus, SuspendOrSuspending
<1>22. CASE IoctlDone
  BY <1>22 DEF IoctlDone, ClearBit, NoIoctlBus
<1>23. CASE IoctlReturn
  BY <1>23 DEF IoctlReturn, dhd_os_wake_unlock
<1>24. CASE \E n \in Netdevs : dhd_start_xmit(n)
  BY <1>24 DEF dhd_start_xmit, SetBit, XmitTo, NoIoctlBus
<1>25. CASE \E n \in Netdevs : XmitAdmit(n)
  BY <1>25 DEF XmitAdmit, ClearBit, XmitTo, dhd_os_wake_lock,
     SuspendOrSuspending
<1>26. CASE \E n \in Netdevs : XmitDone(n)
  BY <1>26 DEF XmitDone, ClearBit, XmitTo, NoIoctlBus
<1>27. CASE \E n \in Netdevs : XmitReturn(n)
  BY <1>27 DEF XmitReturn, XmitTo, dhd_os_wake_unlock
<1>28. CASE dhd_sendpkt
  BY <1>28 DEF dhd_sendpkt, SetBit, ClearBit, NoIoctlBus, SuspendOrSuspending
<1>29. CASE dhd_bus_dpc
  BY <1>29 DEF dhd_bus_dpc, SetBit, NoIoctlBus
<1>30. CASE Dpc
  BY <1>30 DEF Dpc, dhd_bus_handle_d3_ack, ClearBit, NoIoctlBus
<1>31. CASE D3Ack
  BY <1>31 DEF D3Ack
<1>32. CASE UNCHANGED vars
  BY <1>32 DEF vars
<1>33. QED
  BY <1>1, <1>2, <1>3, <1>4, <1>5, <1>6, <1>7, <1>8, <1>9, <1>10, <1>11,
     <1>12, <1>13, <1>14, <1>15, <1>16, <1>17, <1>18, <1>19, <1>20, <1>21,
     <1>22, <1>23, <1>24, <1>25, <1>26, <1>27, <1>28, <1>29, <1>30, <1>31,
     <1>32
     DEF Next, Suspend, Resume, BusResume, Ioctl, Xmit

\* A bus declared broken stays so.
LEMMA BrokenStays ==
  TypeOK /\ d3ack_timeout_occured /\ [Next]_vars => d3ack_timeout_occured'
<1> SUFFICES ASSUME TypeOK, d3ack_timeout_occured, [Next]_vars
             PROVE  d3ack_timeout_occured'
  OBVIOUS
<1> USE BoundsAssumption DEF bus, wakelock, pm, users, device
<1>1. CASE dhdpcie_pci_suspend
  BY <1>1 DEF dhdpcie_pci_suspend, SetBit, To
<1>2. CASE BusIdle
  BY <1>2 DEF BusIdle, To, PmKeeps
<1>3. CASE SuspendTimeout
  BY <1>3 DEF SuspendTimeout, Fail, To, PmKeeps
<1>4. CASE StopQueues
  BY <1>4 DEF StopQueues, Fail, To, PmKeeps
<1>5. CASE SendD3Inform
  BY <1>5 DEF SendD3Inform, dhd_os_wake_lock_waive, To, PmKeeps
<1>6. CASE AwaitD3Ack
  BY <1>6 DEF AwaitD3Ack, To
<1>7. CASE CheckWakeLocks
  BY <1>7 DEF CheckWakeLocks, dhd_os_wake_lock_restore, To, PmKeeps
<1>8. CASE Judge
  BY <1>8 DEF Judge, To, PmKeeps
<1>9. CASE Abort
  BY <1>9 DEF Abort, AbortToD0, Fail, To, PmKeeps
<1>10. CASE Late
  BY <1>10 DEF Late, D3AckTimeout, Fail, To, PmKeeps
<1>11. CASE dhdpcie_suspend_dev
  BY <1>11 DEF dhdpcie_suspend_dev, Fail, To
<1>12. CASE SuspendExit
  BY <1>12 DEF SuspendExit, ClearBit, To, PmKeeps
<1>13. CASE dhdpcie_pci_resume
  BY <1>13 DEF dhdpcie_pci_resume, SetBit, To, PmKeeps
<1>14. CASE dhdpcie_resume_dev
  BY <1>14 DEF dhdpcie_resume_dev, To
<1>15. CASE spc \in {"lps", "wake"} /\ Resume
  BY <1>15 DEF Resume, dhdpcie_resume_dev, BusResume, To, PmKeeps
<1>16. CASE spc = "start" /\ Resume
  BY <1>16 DEF Resume, dhdpcie_resume_dev, BusResume, ReopenBus, To, PmKeeps
<1>17. CASE spc = "end" /\ Resume
  BY <1>17 DEF Resume, dhdpcie_resume_dev, BusResume, ClearBit, To, PmKeeps
<1>18. CASE IoctlCall
  BY <1>18 DEF IoctlCall, dhd_os_wake_lock
<1>19. CASE IoctlMark
  BY <1>19 DEF IoctlMark, SetBit, NoIoctlBus
<1>20. CASE IoctlWaits
  BY <1>20 DEF IoctlWaits
<1>21. CASE IoctlAdmit
  BY <1>21 DEF IoctlAdmit, ClearBit, NoIoctlBus, SuspendOrSuspending
<1>22. CASE IoctlDone
  BY <1>22 DEF IoctlDone, ClearBit, NoIoctlBus
<1>23. CASE IoctlReturn
  BY <1>23 DEF IoctlReturn, dhd_os_wake_unlock
<1>24. CASE \E n \in Netdevs : dhd_start_xmit(n)
  BY <1>24 DEF dhd_start_xmit, SetBit, XmitTo, NoIoctlBus
<1>25. CASE \E n \in Netdevs : XmitAdmit(n)
  BY <1>25 DEF XmitAdmit, ClearBit, XmitTo, dhd_os_wake_lock,
     SuspendOrSuspending
<1>26. CASE \E n \in Netdevs : XmitDone(n)
  BY <1>26 DEF XmitDone, ClearBit, XmitTo, NoIoctlBus
<1>27. CASE \E n \in Netdevs : XmitReturn(n)
  BY <1>27 DEF XmitReturn, XmitTo, dhd_os_wake_unlock
<1>28. CASE dhd_sendpkt
  BY <1>28 DEF dhd_sendpkt, SetBit, ClearBit, NoIoctlBus, SuspendOrSuspending
<1>29. CASE dhd_bus_dpc
  BY <1>29 DEF dhd_bus_dpc, SetBit, NoIoctlBus
<1>30. CASE Dpc
  BY <1>30 DEF Dpc, dhd_bus_handle_d3_ack, ClearBit, NoIoctlBus
<1>31. CASE D3Ack
  BY <1>31 DEF D3Ack
<1>32. CASE UNCHANGED vars
  BY <1>32 DEF vars
<1>33. QED
  BY <1>1, <1>2, <1>3, <1>4, <1>5, <1>6, <1>7, <1>8, <1>9, <1>10, <1>11,
     <1>12, <1>13, <1>14, <1>15, <1>16, <1>17, <1>18, <1>19, <1>20, <1>21,
     <1>22, <1>23, <1>24, <1>25, <1>26, <1>27, <1>28, <1>29, <1>30, <1>31,
     <1>32
     DEF Next, Suspend, Resume, BusResume, Ioctl, Xmit

\* IInv is inductive.
LEMMA IInvStep == IInv /\ [Next]_vars => IInv'
<1> SUFFICES ASSUME IInv, [Next]_vars PROVE IInv'
  OBVIOUS
<1>1. TypeOK /\ BitsExact /\ LocksCounted /\ LockFollows /\ Alone /\ Flags /\ Values
  BY Types DEF IInv
<1>2. BitsExact' /\ LocksCounted' /\ LockFollows' /\ Alone'
  BY <1>1, BitsStep, CountStep, LockStep, AloneStep
<1>3. /\ Cardinality(Holding') \in Nat /\ Cardinality(Holding') \leq Cardinality(Netdevs)
      /\ Cardinality(Netdevs) \in Nat
  BY SomeNetdevs DEF Holding
<1>4. wakelock_counter' \in 0..MaxLocks
  BY <1>2, <1>3 DEF LocksCounted, Holders, MaxLocks
<1>5. Flags' /\ Values'
  BY <1>1, <1>4, FlagsStep, ValuesStep
<1>6. TypeOK'
  BY <1>5 DEF TypeOK, Flags, Values, SuspendSteps
<1>7. d3ack_timeout_occured' \/ (Handshake' /\ QueuesHeld')
  <2>1. CASE d3ack_timeout_occured
    BY <1>1, <2>1, BrokenStays
  <2>2. CASE ~d3ack_timeout_occured
    BY <2>2, HandshakeStep, QueuesStep
  <2>3. QED
    BY <2>1, <2>2
<1>8. QED
  BY <1>2, <1>6, <1>7 DEF IInv

\* IInv holds of every reachable state.
LEMMA IInvHolds == Spec => []IInv
<1>1. Init => IInv
  BY InitIInv
<1>2. IInv /\ [Next]_vars => IInv'
  BY IInvStep
<1>3. QED
  BY <1>1, <1>2, PTL DEF Spec

\* The types of the driver's power state, and the wake lock counter's bound:
\* one lock for each transmission and one for the ioctl, never a lost count.
THEOREM TypeCorrect == Spec => []TypeOK
<1>1. IInv => TypeOK
  BY DEF IInv
<1>2. QED
  BY <1>1, IInvHolds, PTL

\* dhdpcie_bus_suspend: no ioctl, no dhd_sendpkt and no dhd_start_xmit of any
\* number of interfaces is on a suspended bus, although the interfaces share
\* one IN_TX bit and clear it for each other.
THEOREM Quiet == Spec => []SuspendedQuiet
<1>1. IInv => SuspendedQuiet
  BY DEF IInv, Alone
<1>2. QED
  BY <1>1, IInvHolds, PTL

\* dhd_wl_ioctl: a request let through finds a doorbell that rings, or a bus
\* declared broken.
THEOREM DoorbellRings == Spec => []IoctlRings
<1>1. IInv => IoctlRings
  <2> SUFFICES ASSUME IInv, ipc = "inside", ~d3ack_timeout_occured
               PROVE  bus_low_power_state = "none"
    BY DEF IoctlRings
  <2>1. busstate = "DATA"
    BY DEF IInv, TypeOK, Alone, SuspendedQuiet
  <2>2. spc \notin Committed
    BY DEF IInv, Alone
  <2>3. spc \in {"idle", "wait", "exit", "end"} \/ spc = "suspended"
    BY <2>1, <2>2 DEF IInv, TypeOK, Handshake, Committed, SuspendSteps
  <2>4. QED
    BY <2>1, <2>3 DEF IInv, TypeOK, Handshake
<1>2. QED
  BY <1>1, IInvHolds, PTL

\* dhd_os_wake_lock_restore: whoever locked and unlocked while the lock was
\* waived, afterwards the lock is held exactly when its counter is not zero.
THEOREM WakeLock == Spec => []WakeLockExact
<1>1. IInv => WakeLockExact
  BY DEF IInv, LockFollows, WakeLockExact, TypeOK
<1>2. QED
  BY <1>1, IInvHolds, PTL

\* dhdpcie_bus_suspend, dhdpcie_pci_resume: between suspends a bus in use has
\* its dongle in D0 and no D3_ACK on the way that a later suspend would take
\* for its own.
THEOREM DongleAgrees == Spec => []DongleFollows
<1>1. IInv => DongleFollows
  BY DEF IInv, TypeOK, Handshake, Answered, Asking, GivingUp, DongleFollows,
     Settled
<1>2. QED
  BY <1>1, IInvHolds, PTL

\* dhd_start_xmit, dhdpcie_bus_suspend: a suspend that succeeded and its
\* resume leave no transmit queue stopped.
THEOREM QueuesRun == Spec => []QueuesRunAgain
<1>1. IInv => QueuesRunAgain
  BY DEF IInv, QueuesHeld, QueuesRunAgain, Settled
<1>2. QED
  BY <1>1, IInvHolds, PTL
=============================================================================
