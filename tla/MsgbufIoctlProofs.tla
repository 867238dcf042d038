------------------------- MODULE MsgbufIoctlProofs -------------------------
(***************************************************************************)
(* Proofs about MsgbufIoctl, for any set of threads, any width of the      *)
(* transaction id, and any number of requests and power cycles.            *)
(***************************************************************************)
EXTENDS MsgbufIoctl, SequenceTheorems, TLAPS

\* The flags, and everything else: the two halves of the type invariant.
Flags ==
  /\ iovar_timeout_occured \in BOOLEAN /\ is_linkdown \in BOOLEAN
  /\ hang_was_sent \in BOOLEAN /\ irq \in BOOLEAN /\ sched \in BOOLEAN
  /\ late \in BOOLEAN /\ overran \in BOOLEAN
Values ==
  /\ busstate \in {"DATA", "DOWN_IN_PROGRESS", "DOWN"}
  /\ trap \in {"none", "seen", "flagged"}
  /\ ioctl_state \subseteq {"ACK", "RESP"}
  /\ ioctl_received \in {"WAIT", "SUCCESS", "ERROR", "BUS_STOP", "TRAP"}
  /\ curr_ioctl_cmd \in Callers \cup {NoCaller}
  /\ sem \in Callers \cup {NoCaller}
  /\ pc \in [Callers -> {"idle", "sem", "prot", "fill", "leave"} \cup Posted]
  /\ ret \in [Callers -> Failures \cup {"OK"}]
  /\ dpc \in {"idle", "run", "cmplt", "ok", "mismatch", "trap", "flag", "end"}
  /\ dongle \in {"ok", "trapped", "dead", "off"}
  /\ rpc \in {"idle", "drain", "stop", "kill", "prot", "flags", "off"}
Numbers ==
  /\ ioctl_trans_id \in TransIds /\ retbuf \in Serials /\ serial \in Serials
  /\ req \in [Callers -> Serials] /\ got \in [Callers -> Serials]
  /\ cnt \in 0..(CtrlResched + 1) /\ resets \in 0..MaxResets
  /\ rpc # "idle" => resets < MaxResets
Rings ==
  /\ h2d \in Seq(Requests) /\ d2h \in Seq(Messages)
  /\ work \in Requests \cup {NoRequest} /\ dmsg \in Requests \cup {NoRequest}

\* proto_sem is held by the one thread that is past it.
Owner ==
  /\ \A c \in Callers : pc[c] \notin {"idle", "sem"} => sem = c
  /\ sem # NoCaller => pc[sem] \notin {"idle", "sem"}

\* A response is awaited only for a request that is posted.
Awaited ==
  sem = NoCaller \/ pc[sem] \notin Posted => ioctl_state = {}

Holding == {"cmplt", "ok", "mismatch"}   \* the DPC has a response in its hands
DpcHolds == dpc \notin Holding => dmsg = NoRequest

\* Nothing of any request is left in the rings, the dongle or the DPC.
Empty == h2d = <<>> /\ d2h = <<>> /\ work = NoRequest /\ dpc \notin Holding
Unanswered == ioctl_received \in {"WAIT", "TRAP", "BUS_STOP"}

\* dhd_bus_devreset: once it stopped waiting, a thread that still holds
\* proto_sem is one it did not wait for; and from dhd_prot_reset on nothing
\* is left of any request.
Resetting ==
  /\ busstate = "DATA" <=> rpc = "idle"
  /\ rpc \in {"kill", "prot", "flags", "off"} => busstate # "DOWN_IN_PROGRESS"
  /\ rpc \in {"stop", "kill", "prot", "flags", "off"} /\ sem # NoCaller =>
       /\ pc[sem] \in {"wait2", "expired", "judge", "copy", "out", "leave"}
       /\ overran
  /\ rpc \in {"prot", "flags", "off"} => dpc = "idle" /\ ~sched
  /\ ioctl_received = "BUS_STOP" => rpc = "prot"
  /\ rpc \in {"flags", "off"} =>
       /\ Empty /\ ioctl_state = {} /\ ioctl_received = "WAIT" /\ dongle = "off"
       /\ curr_ioctl_cmd = NoCaller

\* The request of thread c, and the ways it may have gone.
Rq(c) == [n |-> req[c], xt |-> ioctl_trans_id, cmd |-> c]
Ack(c) == [type |-> "ack", rq |-> Rq(c)]
Cmplt(c) == [type |-> "cmplt", rq |-> Rq(c)]

Sent(c) ==       \* in the submission ring
  /\ h2d = <<Rq(c)>> /\ d2h = <<>> /\ work = NoRequest
  /\ ioctl_state = {"ACK", "RESP"} /\ dpc \notin Holding /\ Unanswered
InWork(c) ==     \* the dongle works on it
  /\ h2d = <<>> /\ work = Rq(c) /\ dpc \notin Holding /\ Unanswered
  /\ \/ d2h = <<Ack(c)>> /\ ioctl_state = {"ACK", "RESP"}
     \/ d2h = <<>> /\ ioctl_state = {"RESP"}
Replied(c) ==    \* the response is in the completion ring
  /\ h2d = <<>> /\ work = NoRequest /\ dpc \notin Holding /\ Unanswered
  /\ \/ d2h = <<Ack(c), Cmplt(c)>> /\ ioctl_state = {"ACK", "RESP"}
     \/ d2h = <<Cmplt(c)>> /\ ioctl_state = {"RESP"}
InDpc(c) ==      \* the DPC has it
  /\ h2d = <<>> /\ d2h = <<>> /\ work = NoRequest /\ ioctl_state = {} /\ Unanswered
  /\ dmsg = Rq(c)
  /\ dpc = "cmplt" \/ (dpc = "ok" /\ retbuf = req[c])
Done(c) ==       \* it was answered
  /\ Empty /\ ioctl_state = {} /\ ioctl_received # "ERROR"
  /\ retbuf = req[c]
Gone(c) ==       \* a reset has emptied the rings under it
  /\ Empty /\ ioctl_state = {} /\ Unanswered /\ retbuf = 0 /\ overran

InFlight(c) ==
  \/ /\ curr_ioctl_cmd = c /\ req[c] # 0
     /\ Sent(c) \/ InWork(c) \/ Replied(c) \/ InDpc(c) \/ Done(c)
  \/ Gone(c)

Lost == {"ETIMEDOUT", "EREMOTEIO"}   \* dhd_check_hang raises a hang

\* A posted request, and how it ends: with a success its traces are gone,
\* with a failure the bus is in error or will be hung, or a reset has cleaned
\* up.
During(c) ==
  pc[c] \in Posted =>
    /\ InFlight(c)
    /\ pc[c] = "copy" => Empty
    /\ pc[c] = "out" /\ ret[c] = "OK" =>
         Empty /\ (got[c] = req[c] \/ (overran /\ got[c] = 0))
    /\ pc[c] = "out" /\ ret[c] # "OK" =>
         Empty \/ dhd_query_bus_erros \/ ret[c] \in Lost

\* dhd_fillup_ioct_reqst posts a request, or fails and leaves no trace.
Posts(c) ==
  /\ ~dhd_query_bus_erros /\ serial < MaxIoctls /\ ioctl_state = {}
  /\ ioctl_state' = {"ACK", "RESP"} /\ curr_ioctl_cmd' = c
  /\ ioctl_trans_id' = NextTransId
  /\ h2d' = Append(h2d, [n |-> serial + 1, xt |-> NextTransId, cmd |-> c])
  /\ serial' = serial + 1
  /\ req' = [req EXCEPT ![c] = serial + 1]
  /\ pc' = [pc EXCEPT ![c] = "enter"]
  /\ UNCHANGED <<ret, ioctl_received>>
Refuses(c) ==
  /\ UNCHANGED <<h2d, serial, req, ioctl_trans_id>>
  /\ pc' = [pc EXCEPT ![c] = "leave"]
  /\ \E r \in {"EIO", "BUSY", "ERROR"} : ret' = [ret EXCEPT ![c] = r]
  /\ \/ UNCHANGED <<ioctl_state, ioctl_received, curr_ioctl_cmd>>
     \/ ioctl_state' = {} /\ ioctl_received' = "WAIT" /\ curr_ioctl_cmd' = NoCaller

\* Between two requests nothing is left of the last, or no other is sent.
Settled == Empty /\ Unanswered
Between ==
  /\ sem = NoCaller => Settled \/ dhd_query_bus_erros \/ hang_was_sent
  /\ \A c \in Callers :
       /\ pc[c] = "prot" => Settled \/ dhd_query_bus_erros \/ hang_was_sent
       /\ pc[c] = "fill" => Settled \/ dhd_query_bus_erros
       /\ pc[c] = "leave" =>
            Settled \/ dhd_query_bus_erros \/ hang_was_sent \/ ret[c] \in Lost

IInv ==
  /\ Flags /\ Values /\ Numbers /\ Rings /\ Owner /\ Awaited /\ DpcHolds /\ Resetting
  /\ \A c \in Callers : During(c)
  /\ Between

-----------------------------------------------------------------------------
\* Sequences of one and of two messages.
LEMMA Tuples ==
  ASSUME NEW a, NEW b
  PROVE  /\ <<a>> # <<>> /\ Head(<<a>>) = a /\ Tail(<<a>>) = <<>>
         /\ <<a, b>> # <<>> /\ Head(<<a, b>>) = a /\ Tail(<<a, b>>) = <<b>>
         /\ Append(<<>>, a) = <<a>> /\ Append(<<a>>, b) = <<a, b>>
<1>1. <<a>> # <<>> /\ Head(<<a>>) = a /\ <<a, b>> # <<>> /\ Head(<<a, b>>) = a
  OBVIOUS
<1>2. Tail(<<a>>) = <<>>
  OBVIOUS
<1>3. Tail(<<a, b>>) = <<b>>
  OBVIOUS
<1>4. Append(<<>>, a) = <<a>>
  OBVIOUS
<1>5. Append(<<a>>, b) = <<a, b>>
  <2> DEFINE s == Append(<<a>>, b)
             t == <<a, b>>
  <2>1. <<a>> \in Seq({a, b}) /\ Len(<<a>>) = 1
    OBVIOUS
  <2>2. s \in Seq({a, b}) /\ Len(s) = 2 /\ s[1] = a /\ s[2] = b
    BY <2>1
  <2>3. t \in Seq({a, b}) /\ Len(t) = 2 /\ t[1] = a /\ t[2] = b
    OBVIOUS
  <2> HIDE DEF s, t
  <2>4. s = t
    BY <2>2, <2>3, SeqEqual
  <2>5. QED
    BY <2>4 DEF s, t
<1>6. QED
  BY <1>1, <1>2, <1>3, <1>4, <1>5

\* The ways out of dhd_fillup_ioct_reqst.
LEMMA Fillup ==
  ASSUME NEW c \in Callers, dhd_fillup_ioct_reqst(c)
  PROVE  /\ pc[c] = "fill"
         /\ UNCHANGED <<pub, sem, got, cnt, tasklet, reset, retbuf, d2h, dongle, work>>
         /\ Posts(c) \/ Refuses(c)
<1> USE DEF pub, prot, tasklet, device, reset
<1>1. /\ pc[c] = "fill"
      /\ UNCHANGED <<pub, sem, got, cnt, tasklet, reset, retbuf, d2h, dongle, work>>
  BY DEF dhd_fillup_ioct_reqst, NoRingSpace
<1>2. CASE /\ ioctl_state = {} /\ NoRingSpace(c)
           /\ UNCHANGED <<ioctl_trans_id, retbuf, req, device>>
  BY <1>1, <1>2 DEF NoRingSpace, Return, Goto, Refuses
<1>3. CASE /\ \E r \in {"EIO", "BUSY"} : Return(c, r, "leave")
           /\ UNCHANGED <<prot, req, device>>
  BY <1>1, <1>3 DEF Return, Goto, Refuses
<1>4. CASE Posts(c)
  BY <1>1, <1>4
<1>5. QED
  BY <1>2, <1>3, <1>4 DEF dhd_fillup_ioct_reqst, Posts, Goto

\* One turn of the DPC's loop: it stops, passes over a message, or takes a
\* response that is awaited.
LEMMA Turn ==
  ASSUME dhd_prot_process_ctrlbuf
  PROVE  /\ dpc = "run"
         /\ \/ dpc' = "end" /\ UNCHANGED <<ioctl_state, dmsg, d2h>>
            \/ /\ d2h # <<>> /\ d2h' = Tail(d2h) /\ Head(d2h).type = "ack"
               /\ ioctl_state' = IF ioctl_state = {"ACK", "RESP"} THEN {"RESP"}
                                 ELSE ioctl_state
               /\ UNCHANGED <<dpc, dmsg>>
            \/ /\ d2h # <<>> /\ d2h' = Tail(d2h) /\ Head(d2h).type # "ack"
               /\ "ACK" \in ioctl_state \/ "RESP" \notin ioctl_state
               /\ UNCHANGED <<ioctl_state, dpc, dmsg>>
            \/ /\ d2h # <<>> /\ d2h' = Tail(d2h) /\ Head(d2h).type # "ack"
               /\ "ACK" \notin ioctl_state /\ "RESP" \in ioctl_state
               /\ ioctl_state' = ioctl_state \ {"RESP"}
               /\ dpc' = "cmplt" /\ dmsg' = Head(d2h).rq
BY DEF dhd_prot_process_ctrlbuf, dhd_prot_ioctack_process,
   dhd_prot_ioctcmplt_process

\* What a turn of the loop leaves alone.
LEMMA TurnKeeps ==
  ASSUME dhd_prot_process_ctrlbuf
  PROVE  UNCHANGED <<pub, ioctl_received, curr_ioctl_cmd, ioctl_trans_id, retbuf,
                     threads, irq, sched, h2d, dongle, work, serial, reset>>
BY DEF dhd_prot_process_ctrlbuf

\* Flags stay flags.
LEMMA FlagsStep ==
  Flags /\ [Next]_vars => Flags'
<1> SUFFICES ASSUME Flags, [Next]_vars PROVE Flags'
  OBVIOUS
<1> USE DEF Flags, pub, prot, threads, tasklet, device, reset
<1>1. CASE \E c \in Callers : Call(c)
  BY <1>1 DEF Call, Goto
<1>2. CASE \E c \in Callers : TakeSem(c)
  BY <1>2 DEF TakeSem, Goto
<1>3. CASE \E c \in Callers : dhd_prot_ioctl(c)
  BY <1>3 DEF dhd_prot_ioctl, Return, Goto
<1>4. CASE \E c \in Callers : dhd_fillup_ioct_reqst(c)
  BY <1>4 DEF dhd_fillup_ioct_reqst, NoRingSpace, NextTransId, Return, Goto
<1>5. CASE \E c \in Callers : EnterWait(c)
  BY <1>5 DEF EnterWait, Return, Goto
<1>6. CASE \E c \in Callers : Woken(c)
  BY <1>6 DEF Woken, Waiting, Goto
<1>7. CASE \E c \in Callers : FirstTimeout(c)
  BY <1>7 DEF FirstTimeout, Goto
<1>8. CASE \E c \in Callers : SecondTimeout(c)
  BY <1>8 DEF SecondTimeout, Goto
<1>9. CASE \E c \in Callers : Expired(c)
  BY <1>9 DEF Expired, Return, Goto
<1>10. CASE \E c \in Callers : Judge(c)
  BY <1>10 DEF Judge, Return, Goto
<1>11. CASE \E c \in Callers : CopyOut(c)
  BY <1>11 DEF CopyOut, Return, Goto
<1>12. CASE \E c \in Callers : Out(c)
  BY <1>12 DEF Out, Goto
<1>13. CASE \E c \in Callers : Leave(c)
  BY <1>13 DEF Leave, RaisesHang, Release, Return, Goto
<1>14. CASE Isr
  BY <1>14 DEF Isr
<1>15. CASE dhd_bus_dpc
  BY <1>15 DEF dhd_bus_dpc
<1>16. CASE CheckDied
  BY <1>16 DEF CheckDied, dhdpcie_checkdied
<1>17. CASE dhd_prot_process_ctrlbuf
  BY <1>17 DEF dhd_prot_process_ctrlbuf, dhd_prot_ioctack_process,
            dhd_prot_ioctcmplt_process
<1>18. CASE Compare
  BY <1>18 DEF Compare
<1>19. CASE dhd_wakeup_ioctl_event
  BY <1>19 DEF dhd_wakeup_ioctl_event
<1>20. CASE DpcEnd
  BY <1>20 DEF DpcEnd
<1>21. CASE Acknowledge
  BY <1>21 DEF Acknowledge
<1>22. CASE Answer
  BY <1>22 DEF Answer
<1>23. CASE DongleFails
  BY <1>23 DEF DongleFails
<1>24. CASE Advertise
  BY <1>24 DEF Advertise
<1>25. CASE Drained
  BY <1>25 DEF Drained, BusBusy
<1>26. CASE DrainTimeout
  BY <1>26 DEF DrainTimeout
<1>27. CASE BusStop
  BY <1>27 DEF BusStop, dhd_bus_stop
<1>28. CASE dhd_prot_reset
  BY <1>28 DEF dhd_prot_reset
<1>29. CASE ClearErrors
  BY <1>29 DEF ClearErrors
<1>30. CASE PowerOn
  BY <1>30 DEF PowerOn
<1>31. CASE UNCHANGED vars
  BY <1>31 DEF vars
<1>32. QED
  BY <1>1, <1>2, <1>3, <1>4, <1>5, <1>6, <1>7, <1>8, <1>9, <1>10, <1>11,
     <1>12, <1>13, <1>14, <1>15, <1>16, <1>17, <1>18, <1>19, <1>20, <1>21,
     <1>22, <1>23, <1>24, <1>25, <1>26, <1>27, <1>28, <1>29, <1>30, <1>31
     DEF Next, Thread, Dpc, Reset

\* Types.
LEMMA ValuesStep ==
  Values /\ [Next]_vars => Values'
<1> SUFFICES ASSUME Values, [Next]_vars PROVE Values'
  OBVIOUS
<1> USE CallersAssumption DEF Values, Posted, Failures, pub, prot, threads,
      tasklet, device, reset
<1>1. CASE \E c \in Callers : Call(c)
  BY <1>1 DEF Call, Goto
<1>2. CASE \E c \in Callers : TakeSem(c)
  BY <1>2 DEF TakeSem, Goto
<1>3. CASE \E c \in Callers : dhd_prot_ioctl(c)
  BY <1>3 DEF dhd_prot_ioctl, Return, Goto
<1>4. CASE \E c \in Callers : dhd_fillup_ioct_reqst(c)
  <2> PICK c \in Callers : dhd_fillup_ioct_reqst(c)
    BY <1>4
  <2>1. CASE Posts(c)
    BY <2>1, Fillup DEF Posts
  <2>2. CASE Refuses(c)
    <3>1. PICK r \in {"EIO", "BUSY", "ERROR"} : ret' = [ret EXCEPT ![c] = r]
      BY <2>2 DEF Refuses
    <3>2. ret' \in [Callers -> Failures \cup {"OK"}]
      BY <3>1
    <3>3. pc' \in [Callers -> {"idle", "sem", "prot", "fill", "leave"} \cup Posted]
      BY <2>2 DEF Refuses
    <3>4. /\ ioctl_state' \subseteq {"ACK", "RESP"}
          /\ ioctl_received' \in {"WAIT", "SUCCESS", "ERROR", "BUS_STOP", "TRAP"}
          /\ curr_ioctl_cmd' \in Callers \cup {NoCaller}
      BY <2>2 DEF Refuses
    <3>5. QED
      BY <3>2, <3>3, <3>4, Fillup
  <2>3. QED
    BY <2>1, <2>2, Fillup
<1>5. CASE \E c \in Callers : EnterWait(c)
  BY <1>5 DEF EnterWait, Return, Goto
<1>6. CASE \E c \in Callers : Woken(c)
  BY <1>6 DEF Woken, Waiting, Goto
<1>7. CASE \E c \in Callers : FirstTimeout(c)
  BY <1>7 DEF FirstTimeout, Goto
<1>8. CASE \E c \in Callers : SecondTimeout(c)
  BY <1>8 DEF SecondTimeout, Goto
<1>9. CASE \E c \in Callers : Expired(c)
  BY <1>9 DEF Expired, Return, Goto
<1>10. CASE \E c \in Callers : Judge(c)
  BY <1>10 DEF Judge, Return, Goto
<1>11. CASE \E c \in Callers : CopyOut(c)
  BY <1>11 DEF CopyOut, Return, Goto
<1>12. CASE \E c \in Callers : Out(c)
  BY <1>12 DEF Out, Goto
<1>13. CASE \E c \in Callers : Leave(c)
  BY <1>13 DEF Leave, RaisesHang, Release, Return, Goto
<1>14. CASE Isr
  BY <1>14 DEF Isr
<1>15. CASE dhd_bus_dpc
  BY <1>15 DEF dhd_bus_dpc
<1>16. CASE CheckDied
  BY <1>16 DEF CheckDied, dhdpcie_checkdied
<1>17. CASE dhd_prot_process_ctrlbuf
  <2>1. ioctl_state' \subseteq {"ACK", "RESP"}
    BY <1>17, Turn
  <2>2. QED
    BY <1>17, <2>1, Turn, TurnKeeps
<1>18. CASE Compare
  BY <1>18 DEF Compare
<1>19. CASE dhd_wakeup_ioctl_event
  BY <1>19 DEF dhd_wakeup_ioctl_event
<1>20. CASE DpcEnd
  BY <1>20 DEF DpcEnd
<1>21. CASE Acknowledge
  BY <1>21 DEF Acknowledge
<1>22. CASE Answer
  BY <1>22 DEF Answer
<1>23. CASE DongleFails
  BY <1>23 DEF DongleFails
<1>24. CASE Advertise
  BY <1>24 DEF Advertise
<1>25. CASE Drained
  BY <1>25 DEF Drained, BusBusy
<1>26. CASE DrainTimeout
  BY <1>26 DEF DrainTimeout
<1>27. CASE BusStop
  BY <1>27 DEF BusStop, dhd_bus_stop
<1>28. CASE dhd_prot_reset
  BY <1>28 DEF dhd_prot_reset
<1>29. CASE ClearErrors
  BY <1>29 DEF ClearErrors
<1>30. CASE PowerOn
  BY <1>30 DEF PowerOn
<1>31. CASE UNCHANGED vars
  BY <1>31 DEF vars
<1>32. QED
  BY <1>1, <1>2, <1>3, <1>4, <1>5, <1>6, <1>7, <1>8, <1>9, <1>10, <1>11,
     <1>12, <1>13, <1>14, <1>15, <1>16, <1>17, <1>18, <1>19, <1>20, <1>21,
     <1>22, <1>23, <1>24, <1>25, <1>26, <1>27, <1>28, <1>29, <1>30, <1>31
     DEF Next, Thread, Dpc, Reset

\* Numbers keep their ranges.
LEMMA NumbersStep ==
  Values /\ Numbers /\ Rings /\ [Next]_vars => Numbers'
<1> SUFFICES ASSUME Values, Numbers, Rings, [Next]_vars PROVE Numbers'
  OBVIOUS
<1> USE NumbersAssumption, CallersAssumption DEF Values, Numbers, Serials,
      TransIds, FirstTransId, pub, prot, threads, tasklet, device, reset
<1>1. CASE \E c \in Callers : Call(c)
  BY <1>1 DEF Call, Goto
<1>2. CASE \E c \in Callers : TakeSem(c)
  BY <1>2 DEF TakeSem, Goto
<1>3. CASE \E c \in Callers : dhd_prot_ioctl(c)
  BY <1>3 DEF dhd_prot_ioctl, Return, Goto
<1>4. CASE \E c \in Callers : dhd_fillup_ioct_reqst(c)
  <2> PICK c \in Callers : dhd_fillup_ioct_reqst(c)
    BY <1>4
  <2>1. NextTransId \in 0..(TransMod - 1)
    BY DEF NextTransId
  <2>2. CASE Posts(c)
    <3>1. serial + 1 \in 0..MaxIoctls /\ serial' = serial + 1
      BY <2>2 DEF Posts
    <3>2. req' \in [Callers -> 0..MaxIoctls]
      BY <2>2, <3>1 DEF Posts
    <3>3. ioctl_trans_id' \in 0..(TransMod - 1)
      BY <2>1, <2>2 DEF Posts
    <3>4. UNCHANGED <<retbuf, got, cnt, resets, rpc>>
      BY Fillup
    <3>5. QED
      BY <3>1, <3>2, <3>3, <3>4
  <2>3. CASE Refuses(c)
    BY <2>3, Fillup DEF Refuses
  <2>4. QED
    BY <2>2, <2>3, Fillup
<1>5. CASE \E c \in Callers : EnterWait(c)
  BY <1>5 DEF EnterWait, Return, Goto
<1>6. CASE \E c \in Callers : Woken(c)
  BY <1>6 DEF Woken, Waiting, Goto
<1>7. CASE \E c \in Callers : FirstTimeout(c)
  BY <1>7 DEF FirstTimeout, Goto
<1>8. CASE \E c \in Callers : SecondTimeout(c)
  BY <1>8 DEF SecondTimeout, Goto
<1>9. CASE \E c \in Callers : Expired(c)
  BY <1>9 DEF Expired, Return, Goto
<1>10. CASE \E c \in Callers : Judge(c)
  BY <1>10 DEF Judge, Return, Goto
<1>11. CASE \E c \in Callers : CopyOut(c)
  BY <1>11 DEF CopyOut, Return, Goto
<1>12. CASE \E c \in Callers : Out(c)
  BY <1>12 DEF Out, Goto
<1>13. CASE \E c \in Callers : Leave(c)
  BY <1>13 DEF Leave, RaisesHang, Release, Return, Goto
<1>14. CASE Isr
  BY <1>14 DEF Isr
<1>15. CASE dhd_bus_dpc
  BY <1>15 DEF dhd_bus_dpc
<1>16. CASE CheckDied
  BY <1>16 DEF CheckDied, dhdpcie_checkdied
<1>17. CASE dhd_prot_process_ctrlbuf
  BY <1>17 DEF dhd_prot_process_ctrlbuf, dhd_prot_ioctack_process,
            dhd_prot_ioctcmplt_process
<1>18. CASE Compare
  <2>1. dmsg.n \in 0..MaxIoctls
    BY DEF Rings, Requests, NoRequest
  <2>2. QED
    BY <1>18, <2>1 DEF Compare
<1>19. CASE dhd_wakeup_ioctl_event
  BY <1>19 DEF dhd_wakeup_ioctl_event
<1>20. CASE DpcEnd
  BY <1>20 DEF DpcEnd
<1>21. CASE Acknowledge
  BY <1>21 DEF Acknowledge
<1>22. CASE Answer
  BY <1>22 DEF Answer
<1>23. CASE DongleFails
  BY <1>23 DEF DongleFails
<1>24. CASE Advertise
  BY <1>24 DEF Advertise
<1>25. CASE Drained
  BY <1>25 DEF Drained, BusBusy
<1>26. CASE DrainTimeout
  BY <1>26 DEF DrainTimeout
<1>27. CASE BusStop
  BY <1>27 DEF BusStop, dhd_bus_stop
<1>28. CASE dhd_prot_reset
  BY <1>28 DEF dhd_prot_reset
<1>29. CASE ClearErrors
  BY <1>29 DEF ClearErrors
<1>30. CASE PowerOn
  BY <1>30 DEF PowerOn
<1>31. CASE UNCHANGED vars
  BY <1>31 DEF vars
<1>32. QED
  BY <1>1, <1>2, <1>3, <1>4, <1>5, <1>6, <1>7, <1>8, <1>9, <1>10, <1>11,
     <1>12, <1>13, <1>14, <1>15, <1>16, <1>17, <1>18, <1>19, <1>20, <1>21,
     <1>22, <1>23, <1>24, <1>25, <1>26, <1>27, <1>28, <1>29, <1>30, <1>31
     DEF Next, Thread, Dpc, Reset

\* The rings hold requests.
LEMMA RingsStep ==
  Values /\ Numbers /\ Rings /\ [Next]_vars => Rings'
<1> SUFFICES ASSUME Values, Numbers, Rings, [Next]_vars PROVE Rings'
  OBVIOUS
<1> USE DEF Values, Rings, pub, prot, threads, tasklet, device, reset
<1>1. CASE \E c \in Callers : Call(c)
  BY <1>1 DEF Call, Goto
<1>2. CASE \E c \in Callers : TakeSem(c)
  BY <1>2 DEF TakeSem, Goto
<1>3. CASE \E c \in Callers : dhd_prot_ioctl(c)
  BY <1>3 DEF dhd_prot_ioctl, Return, Goto
<1>4. CASE \E c \in Callers : dhd_fillup_ioct_reqst(c)
  <2> PICK c \in Callers : dhd_fillup_ioct_reqst(c)
    BY <1>4
  <2>1. CASE Refuses(c)
    BY <2>1, Fillup DEF Refuses
  <2>2. CASE Posts(c)
    <3>1. NextTransId \in TransIds /\ serial + 1 \in 1..MaxIoctls
      BY <2>2, NumbersAssumption DEF Posts, Numbers, NextTransId, TransIds,
         Serials
    <3>2. [n |-> serial + 1, xt |-> NextTransId, cmd |-> c] \in Requests
      BY <3>1 DEF Requests
    <3>3. h2d' \in Seq(Requests)
      BY <2>2, <3>2 DEF Posts
    <3>4. QED
      BY <3>3, Fillup
  <2>3. QED
    BY <2>1, <2>2, Fillup
<1>5. CASE \E c \in Callers : EnterWait(c)
  BY <1>5 DEF EnterWait, Return, Goto
<1>6. CASE \E c \in Callers : Woken(c)
  BY <1>6 DEF Woken, Waiting, Goto
<1>7. CASE \E c \in Callers : FirstTimeout(c)
  BY <1>7 DEF FirstTimeout, Goto
<1>8. CASE \E c \in Callers : SecondTimeout(c)
  BY <1>8 DEF SecondTimeout, Goto
<1>9. CASE \E c \in Callers : Expired(c)
  BY <1>9 DEF Expired, Return, Goto
<1>10. CASE \E c \in Callers : Judge(c)
  BY <1>10 DEF Judge, Return, Goto
<1>11. CASE \E c \in Callers : CopyOut(c)
  BY <1>11 DEF CopyOut, Return, Goto
<1>12. CASE \E c \in Callers : Out(c)
  BY <1>12 DEF Out, Goto
<1>13. CASE \E c \in Callers : Leave(c)
  BY <1>13 DEF Leave, RaisesHang, Release, Return, Goto
<1>14. CASE Isr
  BY <1>14 DEF Isr
<1>15. CASE dhd_bus_dpc
  BY <1>15 DEF dhd_bus_dpc
<1>16. CASE CheckDied
  BY <1>16 DEF CheckDied, dhdpcie_checkdied
<1>17. CASE dhd_prot_process_ctrlbuf
  <2>1. d2h # <<>> => Tail(d2h) \in Seq(Messages) /\ Head(d2h) \in Messages
    OBVIOUS
  <2>2. d2h # <<>> => Head(d2h).rq \in Requests
    BY <2>1 DEF Messages
  <2>3. QED
    BY <1>17, <2>1, <2>2, Turn, TurnKeeps
<1>18. CASE Compare
  BY <1>18 DEF Compare
<1>19. CASE dhd_wakeup_ioctl_event
  BY <1>19 DEF dhd_wakeup_ioctl_event
<1>20. CASE DpcEnd
  BY <1>20 DEF DpcEnd
<1>21. CASE Acknowledge
  <2>1. Head(h2d) \in Requests /\ Tail(h2d) \in Seq(Requests)
    BY <1>21 DEF Acknowledge
  <2>2. [type |-> "ack", rq |-> Head(h2d)] \in Messages
    BY <2>1 DEF Messages
  <2>3. QED
    BY <1>21, <2>1, <2>2 DEF Acknowledge
<1>22. CASE Answer
  <2>1. work \in Requests
    BY <1>22 DEF Answer
  <2>2. [type |-> "cmplt", rq |-> work] \in Messages
    BY <2>1 DEF Messages
  <2>3. QED
    BY <1>22, <2>2 DEF Answer
<1>23. CASE DongleFails
  BY <1>23 DEF DongleFails
<1>24. CASE Advertise
  BY <1>24 DEF Advertise
<1>25. CASE Drained
  BY <1>25 DEF Drained, BusBusy
<1>26. CASE DrainTimeout
  BY <1>26 DEF DrainTimeout
<1>27. CASE BusStop
  BY <1>27 DEF BusStop, dhd_bus_stop
<1>28. CASE dhd_prot_reset
  BY <1>28 DEF dhd_prot_reset
<1>29. CASE ClearErrors
  BY <1>29 DEF ClearErrors
<1>30. CASE PowerOn
  BY <1>30 DEF PowerOn
<1>31. CASE UNCHANGED vars
  BY <1>31 DEF vars
<1>32. QED
  BY <1>1, <1>2, <1>3, <1>4, <1>5, <1>6, <1>7, <1>8, <1>9, <1>10, <1>11,
     <1>12, <1>13, <1>14, <1>15, <1>16, <1>17, <1>18, <1>19, <1>20, <1>21,
     <1>22, <1>23, <1>24, <1>25, <1>26, <1>27, <1>28, <1>29, <1>30, <1>31
     DEF Next, Thread, Dpc, Reset

\* proto_sem excludes.
LEMMA OwnerStep ==
  Values /\ Owner /\ [Next]_vars => Owner'
<1> SUFFICES ASSUME Values, Owner, [Next]_vars PROVE Owner'
  OBVIOUS
<1> USE CallersAssumption DEF Values, Owner, Posted, pub, prot, threads,
      tasklet, device, reset
<1>1. CASE \E c \in Callers : Call(c)
  BY <1>1 DEF Call, Goto
<1>2. CASE \E c \in Callers : TakeSem(c)
  BY <1>2 DEF TakeSem, Goto
<1>3. CASE \E c \in Callers : dhd_prot_ioctl(c)
  BY <1>3 DEF dhd_prot_ioctl, Return, Goto
<1>4. CASE \E c \in Callers : dhd_fillup_ioct_reqst(c)
  BY <1>4 DEF dhd_fillup_ioct_reqst, NoRingSpace, NextTransId, Return, Goto
<1>5. CASE \E c \in Callers : EnterWait(c)
  BY <1>5 DEF EnterWait, Return, Goto
<1>6. CASE \E c \in Callers : Woken(c)
  BY <1>6 DEF Woken, Waiting, Goto
<1>7. CASE \E c \in Callers : FirstTimeout(c)
  BY <1>7 DEF FirstTimeout, Goto
<1>8. CASE \E c \in Callers : SecondTimeout(c)
  BY <1>8 DEF SecondTimeout, Goto
<1>9. CASE \E c \in Callers : Expired(c)
  BY <1>9 DEF Expired, Return, Goto
<1>10. CASE \E c \in Callers : Judge(c)
  BY <1>10 DEF Judge, Return, Goto
<1>11. CASE \E c \in Callers : CopyOut(c)
  BY <1>11 DEF CopyOut, Return, Goto
<1>12. CASE \E c \in Callers : Out(c)
  BY <1>12 DEF Out, Goto
<1>13. CASE \E c \in Callers : Leave(c)
  BY <1>13 DEF Leave, RaisesHang, Release, Return, Goto
<1>14. CASE Isr
  BY <1>14 DEF Isr
<1>15. CASE dhd_bus_dpc
  BY <1>15 DEF dhd_bus_dpc
<1>16. CASE CheckDied
  BY <1>16 DEF CheckDied, dhdpcie_checkdied
<1>17. CASE dhd_prot_process_ctrlbuf
  BY <1>17 DEF dhd_prot_process_ctrlbuf, dhd_prot_ioctack_process,
            dhd_prot_ioctcmplt_process
<1>18. CASE Compare
  BY <1>18 DEF Compare
<1>19. CASE dhd_wakeup_ioctl_event
  BY <1>19 DEF dhd_wakeup_ioctl_event
<1>20. CASE DpcEnd
  BY <1>20 DEF DpcEnd
<1>21. CASE Acknowledge
  BY <1>21 DEF Acknowledge
<1>22. CASE Answer
  BY <1>22 DEF Answer
<1>23. CASE DongleFails
  BY <1>23 DEF DongleFails
<1>24. CASE Advertise
  BY <1>24 DEF Advertise
<1>25. CASE Drained
  BY <1>25 DEF Drained, BusBusy
<1>26. CASE DrainTimeout
  BY <1>26 DEF DrainTimeout
<1>27. CASE BusStop
  BY <1>27 DEF BusStop, dhd_bus_stop
<1>28. CASE dhd_prot_reset
  BY <1>28 DEF dhd_prot_reset
<1>29. CASE ClearErrors
  BY <1>29 DEF ClearErrors
<1>30. CASE PowerOn
  BY <1>30 DEF PowerOn
<1>31. CASE UNCHANGED vars
  BY <1>31 DEF vars
<1>32. QED
  BY <1>1, <1>2, <1>3, <1>4, <1>5, <1>6, <1>7, <1>8, <1>9, <1>10, <1>11,
     <1>12, <1>13, <1>14, <1>15, <1>16, <1>17, <1>18, <1>19, <1>20, <1>21,
     <1>22, <1>23, <1>24, <1>25, <1>26, <1>27, <1>28, <1>29, <1>30, <1>31
     DEF Next, Thread, Dpc, Reset

\* A request that ends puts its state away.
LEMMA AwaitedStep ==
  Values /\ Owner /\ Awaited /\ [Next]_vars => Awaited'
<1> SUFFICES ASSUME Values, Owner, Awaited, [Next]_vars PROVE Awaited'
  OBVIOUS
<1> USE CallersAssumption DEF Values, Owner, Awaited, Posted, pub, prot,
      threads, tasklet, device, reset
<1>1. CASE \E c \in Callers : Call(c)
  BY <1>1 DEF Call, Goto
<1>2. CASE \E c \in Callers : TakeSem(c)
  BY <1>2 DEF TakeSem, Goto
<1>3. CASE \E c \in Callers : dhd_prot_ioctl(c)
  BY <1>3 DEF dhd_prot_ioctl, Return, Goto
<1>4. CASE \E c \in Callers : dhd_fillup_ioct_reqst(c)
  <2> PICK c \in Callers : dhd_fillup_ioct_reqst(c)
    BY <1>4
  <2>1. sem = c /\ sem' = c /\ ioctl_state = {}
    BY Fillup
  <2>2. QED
    BY <2>1, Fillup DEF Posts, Refuses
<1>5. CASE \E c \in Callers : EnterWait(c)
  BY <1>5 DEF EnterWait, Return, Goto
<1>6. CASE \E c \in Callers : Woken(c)
  BY <1>6 DEF Woken, Waiting, Goto
<1>7. CASE \E c \in Callers : FirstTimeout(c)
  BY <1>7 DEF FirstTimeout, Goto
<1>8. CASE \E c \in Callers : SecondTimeout(c)
  BY <1>8 DEF SecondTimeout, Goto
<1>9. CASE \E c \in Callers : Expired(c)
  BY <1>9 DEF Expired, Return, Goto
<1>10. CASE \E c \in Callers : Judge(c)
  BY <1>10 DEF Judge, Return, Goto
<1>11. CASE \E c \in Callers : CopyOut(c)
  BY <1>11 DEF CopyOut, Return, Goto
<1>12. CASE \E c \in Callers : Out(c)
  BY <1>12 DEF Out, Goto
<1>13. CASE \E c \in Callers : Leave(c)
  BY <1>13 DEF Leave, RaisesHang, Release, Return, Goto
<1>14. CASE Isr
  BY <1>14 DEF Isr
<1>15. CASE dhd_bus_dpc
  BY <1>15 DEF dhd_bus_dpc
<1>16. CASE CheckDied
  BY <1>16 DEF CheckDied, dhdpcie_checkdied
<1>17. CASE dhd_prot_process_ctrlbuf
  BY <1>17 DEF dhd_prot_process_ctrlbuf, dhd_prot_ioctack_process,
            dhd_prot_ioctcmplt_process
<1>18. CASE Compare
  BY <1>18 DEF Compare
<1>19. CASE dhd_wakeup_ioctl_event
  BY <1>19 DEF dhd_wakeup_ioctl_event
<1>20. CASE DpcEnd
  BY <1>20 DEF DpcEnd
<1>21. CASE Acknowledge
  BY <1>21 DEF Acknowledge
<1>22. CASE Answer
  BY <1>22 DEF Answer
<1>23. CASE DongleFails
  BY <1>23 DEF DongleFails
<1>24. CASE Advertise
  BY <1>24 DEF Advertise
<1>25. CASE Drained
  BY <1>25 DEF Drained, BusBusy
<1>26. CASE DrainTimeout
  BY <1>26 DEF DrainTimeout
<1>27. CASE BusStop
  BY <1>27 DEF BusStop, dhd_bus_stop
<1>28. CASE dhd_prot_reset
  BY <1>28 DEF dhd_prot_reset
<1>29. CASE ClearErrors
  BY <1>29 DEF ClearErrors
<1>30. CASE PowerOn
  BY <1>30 DEF PowerOn
<1>31. CASE UNCHANGED vars
  BY <1>31 DEF vars
<1>32. QED
  BY <1>1, <1>2, <1>3, <1>4, <1>5, <1>6, <1>7, <1>8, <1>9, <1>10, <1>11,
     <1>12, <1>13, <1>14, <1>15, <1>16, <1>17, <1>18, <1>19, <1>20, <1>21,
     <1>22, <1>23, <1>24, <1>25, <1>26, <1>27, <1>28, <1>29, <1>30, <1>31
     DEF Next, Thread, Dpc, Reset

\* The DPC lets go of what it has handled.
LEMMA DpcHoldsStep ==
  Values /\ DpcHolds /\ [Next]_vars => DpcHolds'
<1> SUFFICES ASSUME Values, DpcHolds, [Next]_vars PROVE DpcHolds'
  OBVIOUS
<1> USE DEF Values, DpcHolds, Holding, pub, prot, threads, tasklet, device,
      reset
<1>1. CASE \E c \in Callers : Call(c)
  BY <1>1 DEF Call, Goto
<1>2. CASE \E c \in Callers : TakeSem(c)
  BY <1>2 DEF TakeSem, Goto
<1>3. CASE \E c \in Callers : dhd_prot_ioctl(c)
  BY <1>3 DEF dhd_prot_ioctl, Return, Goto
<1>4. CASE \E c \in Callers : dhd_fillup_ioct_reqst(c)
  BY <1>4 DEF dhd_fillup_ioct_reqst, NoRingSpace, NextTransId, Return, Goto
<1>5. CASE \E c \in Callers : EnterWait(c)
  BY <1>5 DEF EnterWait, Return, Goto
<1>6. CASE \E c \in Callers : Woken(c)
  BY <1>6 DEF Woken, Waiting, Goto
<1>7. CASE \E c \in Callers : FirstTimeout(c)
  BY <1>7 DEF FirstTimeout, Goto
<1>8. CASE \E c \in Callers : SecondTimeout(c)
  BY <1>8 DEF SecondTimeout, Goto
<1>9. CASE \E c \in Callers : Expired(c)
  BY <1>9 DEF Expired, Return, Goto
<1>10. CASE \E c \in Callers : Judge(c)
  BY <1>10 DEF Judge, Return, Goto
<1>11. CASE \E c \in Callers : CopyOut(c)
  BY <1>11 DEF CopyOut, Return, Goto
<1>12. CASE \E c \in Callers : Out(c)
  BY <1>12 DEF Out, Goto
<1>13. CASE \E c \in Callers : Leave(c)
  BY <1>13 DEF Leave, RaisesHang, Release, Return, Goto
<1>14. CASE Isr
  BY <1>14 DEF Isr
<1>15. CASE dhd_bus_dpc
  BY <1>15 DEF dhd_bus_dpc
<1>16. CASE CheckDied
  BY <1>16 DEF CheckDied, dhdpcie_checkdied
<1>17. CASE dhd_prot_process_ctrlbuf
  BY <1>17 DEF dhd_prot_process_ctrlbuf, dhd_prot_ioctack_process,
            dhd_prot_ioctcmplt_process
<1>18. CASE Compare
  BY <1>18 DEF Compare
<1>19. CASE dhd_wakeup_ioctl_event
  BY <1>19 DEF dhd_wakeup_ioctl_event
<1>20. CASE DpcEnd
  BY <1>20 DEF DpcEnd
<1>21. CASE Acknowledge
  BY <1>21 DEF Acknowledge
<1>22. CASE Answer
  BY <1>22 DEF Answer
<1>23. CASE DongleFails
  BY <1>23 DEF DongleFails
<1>24. CASE Advertise
  BY <1>24 DEF Advertise
<1>25. CASE Drained
  BY <1>25 DEF Drained, BusBusy
<1>26. CASE DrainTimeout
  BY <1>26 DEF DrainTimeout
<1>27. CASE BusStop
  BY <1>27 DEF BusStop, dhd_bus_stop
<1>28. CASE dhd_prot_reset
  BY <1>28 DEF dhd_prot_reset
<1>29. CASE ClearErrors
  BY <1>29 DEF ClearErrors
<1>30. CASE PowerOn
  BY <1>30 DEF PowerOn
<1>31. CASE UNCHANGED vars
  BY <1>31 DEF vars
<1>32. QED
  BY <1>1, <1>2, <1>3, <1>4, <1>5, <1>6, <1>7, <1>8, <1>9, <1>10, <1>11,
     <1>12, <1>13, <1>14, <1>15, <1>16, <1>17, <1>18, <1>19, <1>20, <1>21,
     <1>22, <1>23, <1>24, <1>25, <1>26, <1>27, <1>28, <1>29, <1>30, <1>31
     DEF Next, Thread, Dpc, Reset

\* The power cycle.
LEMMA ResettingStep ==
  Values /\ Flags /\ Owner /\ DpcHolds /\ Resetting /\ [Next]_vars => Resetting'
<1> SUFFICES ASSUME Values, Flags, Owner, DpcHolds, Resetting, [Next]_vars
             PROVE  Resetting'
  OBVIOUS
<1> USE CallersAssumption DEF Values, Flags, Owner, DpcHolds, Resetting, Empty,
      Holding, Posted, pub, prot, threads, tasklet, device, reset
<1>1. CASE \E c \in Callers : Call(c)
  BY <1>1 DEF Call, Goto
<1>2. CASE \E c \in Callers : TakeSem(c)
  BY <1>2 DEF TakeSem, Goto
<1>3. CASE \E c \in Callers : dhd_prot_ioctl(c)
  BY <1>3 DEF dhd_prot_ioctl, Return, Goto
<1>4. CASE \E c \in Callers : dhd_fillup_ioct_reqst(c)
  BY <1>4 DEF dhd_fillup_ioct_reqst, NoRingSpace, NextTransId, Return, Goto
<1>5. CASE \E c \in Callers : EnterWait(c)
  BY <1>5 DEF EnterWait, Return, Goto
<1>6. CASE \E c \in Callers : Woken(c)
  BY <1>6 DEF Woken, Waiting, Goto
<1>7. CASE \E c \in Callers : FirstTimeout(c)
  BY <1>7 DEF FirstTimeout, Goto
<1>8. CASE \E c \in Callers : SecondTimeout(c)
  BY <1>8 DEF SecondTimeout, Goto
<1>9. CASE \E c \in Callers : Expired(c)
  BY <1>9 DEF Expired, Return, Goto
<1>10. CASE \E c \in Callers : Judge(c)
  BY <1>10 DEF Judge, Return, Goto
<1>11. CASE \E c \in Callers : CopyOut(c)
  BY <1>11 DEF CopyOut, Return, Goto
<1>12. CASE \E c \in Callers : Out(c)
  BY <1>12 DEF Out, Goto
<1>13. CASE \E c \in Callers : Leave(c)
  BY <1>13 DEF Leave, RaisesHang, Release, Return, Goto
<1>14. CASE Isr
  BY <1>14 DEF Isr
<1>15. CASE dhd_bus_dpc
  BY <1>15 DEF dhd_bus_dpc
<1>16. CASE CheckDied
  BY <1>16 DEF CheckDied, dhdpcie_checkdied
<1>17. CASE dhd_prot_process_ctrlbuf
  BY <1>17 DEF dhd_prot_process_ctrlbuf, dhd_prot_ioctack_process,
            dhd_prot_ioctcmplt_process
<1>18. CASE Compare
  BY <1>18 DEF Compare
<1>19. CASE dhd_wakeup_ioctl_event
  BY <1>19 DEF dhd_wakeup_ioctl_event
<1>20. CASE DpcEnd
  BY <1>20 DEF DpcEnd
<1>21. CASE Acknowledge
  BY <1>21 DEF Acknowledge
<1>22. CASE Answer
  BY <1>22 DEF Answer
<1>23. CASE DongleFails
  BY <1>23 DEF DongleFails
<1>24. CASE Advertise
  BY <1>24 DEF Advertise
<1>25. CASE Drained
  BY <1>25 DEF Drained, BusBusy
<1>26. CASE DrainTimeout
  BY <1>26 DEF DrainTimeout
<1>27. CASE BusStop
  BY <1>27 DEF BusStop, dhd_bus_stop
<1>28. CASE dhd_prot_reset
  BY <1>28 DEF dhd_prot_reset
<1>29. CASE ClearErrors
  BY <1>29 DEF ClearErrors
<1>30. CASE PowerOn
  BY <1>30 DEF PowerOn
<1>31. CASE UNCHANGED vars
  BY <1>31 DEF vars
<1>32. QED
  BY <1>1, <1>2, <1>3, <1>4, <1>5, <1>6, <1>7, <1>8, <1>9, <1>10, <1>11,
     <1>12, <1>13, <1>14, <1>15, <1>16, <1>17, <1>18, <1>19, <1>20, <1>21,
     <1>22, <1>23, <1>24, <1>25, <1>26, <1>27, <1>28, <1>29, <1>30, <1>31
     DEF Next, Thread, Dpc, Reset

\* No request is left behind a call that was good.
LEMMA BetweenStep ==
  IInv /\ [Next]_vars => Between'
<1> SUFFICES ASSUME IInv, [Next]_vars PROVE Between'
  OBVIOUS
<1> USE CallersAssumption DEF IInv, Flags, Values, Owner, Between, During,
      Resetting, Settled, Empty, Unanswered, Holding, Lost, Posted, Failures,
      dhd_query_bus_erros, pub, prot, threads, tasklet, device, reset
<1>1. CASE \E c \in Callers : Call(c)
  BY <1>1 DEF Call, Goto
<1>2. CASE \E c \in Callers : TakeSem(c)
  BY <1>2 DEF TakeSem, Goto
<1>3. CASE \E c \in Callers : dhd_prot_ioctl(c)
  BY <1>3 DEF dhd_prot_ioctl, Return, Goto
<1>4. CASE \E c \in Callers : dhd_fillup_ioct_reqst(c)
  BY <1>4 DEF dhd_fillup_ioct_reqst, NoRingSpace, NextTransId, Return, Goto
<1>5. CASE \E c \in Callers : EnterWait(c)
  BY <1>5 DEF EnterWait, Return, Goto
<1>6. CASE \E c \in Callers : Woken(c)
  BY <1>6 DEF Woken, Waiting, Goto
<1>7. CASE \E c \in Callers : FirstTimeout(c)
  BY <1>7 DEF FirstTimeout, Goto
<1>8. CASE \E c \in Callers : SecondTimeout(c)
  BY <1>8 DEF SecondTimeout, Goto
<1>9. CASE \E c \in Callers : Expired(c)
  BY <1>9 DEF Expired, Return, Goto
<1>10. CASE \E c \in Callers : Judge(c)
  BY <1>10 DEF Judge, Return, Goto
<1>11. CASE \E c \in Callers : CopyOut(c)
  BY <1>11 DEF CopyOut, Return, Goto
<1>12. CASE \E c \in Callers : Out(c)
  BY <1>12 DEF Out, Goto
<1>13. CASE \E c \in Callers : Leave(c)
  <2> PICK c \in Callers : Leave(c)
    BY <1>13
  <2>1. /\ sem = c /\ sem' = NoCaller /\ pc' = [pc EXCEPT ![c] = "idle"]
        /\ UNCHANGED <<busstate, iovar_timeout_occured, trap, is_linkdown, prot, tasklet, device>>
    BY DEF Leave, Release, Return, Goto
  <2>2. ret[c] \in Lost \/ hang_was_sent => hang_was_sent'
    BY DEF Leave, RaisesHang
  <2>3. Settled' <=> Settled
    BY <2>1
  <2>4. (Settled \/ dhd_query_bus_erros \/ hang_was_sent)'
    BY <2>1, <2>2, <2>3 DEF Leave
  <2>5. \A d \in Callers : pc'[d] \in {"idle", "sem"}
    BY <2>1
  <2>6. QED
    BY <2>1, <2>4, <2>5
<1>14. CASE Isr
  BY <1>14 DEF Isr
<1>15. CASE dhd_bus_dpc
  BY <1>15 DEF dhd_bus_dpc
<1>16. CASE CheckDied
  BY <1>16 DEF CheckDied, dhdpcie_checkdied
<1>17. CASE dhd_prot_process_ctrlbuf
  BY <1>17 DEF dhd_prot_process_ctrlbuf, dhd_prot_ioctack_process,
            dhd_prot_ioctcmplt_process
<1>18. CASE Compare
  BY <1>18 DEF Compare
<1>19. CASE dhd_wakeup_ioctl_event
  BY <1>19 DEF dhd_wakeup_ioctl_event
<1>20. CASE DpcEnd
  BY <1>20 DEF DpcEnd
<1>21. CASE Acknowledge
  BY <1>21 DEF Acknowledge
<1>22. CASE Answer
  BY <1>22 DEF Answer
<1>23. CASE DongleFails
  BY <1>23 DEF DongleFails
<1>24. CASE Advertise
  BY <1>24 DEF Advertise
<1>25. CASE Drained
  BY <1>25 DEF Drained, BusBusy
<1>26. CASE DrainTimeout
  BY <1>26 DEF DrainTimeout
<1>27. CASE BusStop
  BY <1>27 DEF BusStop, dhd_bus_stop
<1>28. CASE dhd_prot_reset
  BY <1>28 DEF dhd_prot_reset
<1>29. CASE ClearErrors
  BY <1>29 DEF ClearErrors
<1>30. CASE PowerOn
  BY <1>30 DEF PowerOn
<1>31. CASE UNCHANGED vars
  BY <1>31 DEF vars
<1>32. QED
  BY <1>1, <1>2, <1>3, <1>4, <1>5, <1>6, <1>7, <1>8, <1>9, <1>10, <1>11,
     <1>12, <1>13, <1>14, <1>15, <1>16, <1>17, <1>18, <1>19, <1>20, <1>21,
     <1>22, <1>23, <1>24, <1>25, <1>26, <1>27, <1>28, <1>29, <1>30, <1>31
     DEF Next, Thread, Dpc, Reset

\* The request of a thread on its way.
LEMMA DuringStep ==
  ASSUME IInv, [Next]_vars, NEW x \in Callers
  PROVE  During(x)'
<1> USE CallersAssumption DEF IInv, Flags, Values, Owner, Awaited, Between,
      During, InFlight, Sent, InWork, Replied, InDpc, Done, Gone, Rq, Ack,
      Cmplt, Resetting, Settled, Empty, Unanswered, Holding, Lost, Posted,
      Failures, dhd_query_bus_erros, pub, prot, threads, tasklet, device, reset
<1>1. CASE \E c \in Callers : Call(c)
  BY <1>1 DEF Call, Goto
<1>2. CASE \E c \in Callers : TakeSem(c)
  BY <1>2 DEF TakeSem, Goto
<1>3. CASE \E c \in Callers : dhd_prot_ioctl(c)
  BY <1>3 DEF dhd_prot_ioctl, Return, Goto
<1>4. CASE \E c \in Callers : dhd_fillup_ioct_reqst(c)
  <2> PICK c \in Callers : dhd_fillup_ioct_reqst(c)
    BY <1>4
  <2>1. CASE Refuses(c)
    BY <2>1, Fillup DEF Refuses
  <2>2. CASE Posts(c) /\ x # c
    BY <2>2, Fillup DEF Posts
  <2>3. CASE Posts(c) /\ x = c
    <3>1. Settled /\ d2h' = <<>> /\ work' = NoRequest /\ dpc' \notin Holding
      BY <2>3, Fillup DEF Posts
    <3>2. h2d' = <<Rq(x)'>>
      <4> DEFINE m == [n |-> serial + 1, xt |-> NextTransId, cmd |-> c]
      <4>1. req'[x] = serial + 1 /\ ioctl_trans_id' = NextTransId
        BY <2>3 DEF Posts, Numbers
      <4>2. Rq(x)' = m
        BY <2>3, <4>1
      <4>3. h2d' = Append(<<>>, m)
        BY <2>3, <3>1 DEF Posts
      <4> HIDE DEF m, Rq
      <4>4. QED
        BY <4>2, <4>3, Tuples
    <3>3. Sent(x)' /\ curr_ioctl_cmd' = x
      BY <2>3, <3>1, <3>2 DEF Posts
    <3>4. req'[x] # 0
      BY <2>3 DEF Posts, Numbers, Serials
    <3>5. pc'[x] = "enter"
      BY <2>3 DEF Posts
    <3>6. QED
      BY <3>3, <3>4, <3>5
  <2>4. QED
    BY <2>1, <2>2, <2>3, Fillup
<1>5. CASE \E c \in Callers : EnterWait(c)
  BY <1>5 DEF EnterWait, Return, Goto
<1>6. CASE \E c \in Callers : Woken(c)
  BY <1>6 DEF Woken, Waiting, Goto
<1>7. CASE \E c \in Callers : FirstTimeout(c)
  BY <1>7 DEF FirstTimeout, Goto
<1>8. CASE \E c \in Callers : SecondTimeout(c)
  BY <1>8 DEF SecondTimeout, Goto
<1>9. CASE \E c \in Callers : Expired(c)
  BY <1>9 DEF Expired, Return, Goto
<1>10. CASE \E c \in Callers : Judge(c)
  BY <1>10 DEF Judge, Return, Goto
<1>11. CASE \E c \in Callers : CopyOut(c)
  <2> PICK c \in Callers : CopyOut(c)
    BY <1>11
  <2>1. /\ pc[c] = "copy" /\ Empty /\ InFlight(c)
        /\ UNCHANGED <<pub, prot, sem, req, tasklet, device, reset>>
    BY DEF CopyOut
  <2>2. retbuf = req[c] \/ (overran /\ retbuf = 0)
    <3> HIDE DEF Rq, Ack, Cmplt
    <3>1. <<Rq(c)>> # <<>> /\ <<Cmplt(c)>> # <<>> /\ <<Ack(c), Cmplt(c)>> # <<>>
      BY Tuples
    <3>2. ~Sent(c) /\ ~Replied(c) /\ ~InDpc(c)
      BY <2>1, <3>1
    <3>3. curr_ioctl_cmd = c /\ req[c] # 0 => Rq(c) # NoRequest
      BY DEF Rq, NoRequest
    <3>4. CASE Gone(c)
      BY <3>4
    <3>5. CASE Done(c)
      BY <3>5
    <3>6. CASE curr_ioctl_cmd = c /\ req[c] # 0 /\ InWork(c)
      BY <2>1, <3>3, <3>6
    <3>7. QED
      BY <2>1, <3>2, <3>4, <3>5, <3>6
  <2>3. CASE x = c
    <3>1. pc'[x] = "out" /\ ret'[x] = "OK" /\ got'[x] = retbuf
      BY <2>3 DEF CopyOut, Return, Goto, Numbers
    <3>2. Empty' /\ InFlight(x)'
      BY <2>1, <2>3
    <3>3. QED
      BY <2>1, <2>2, <2>3, <3>1, <3>2
  <2>4. CASE x # c
    BY <2>1, <2>4 DEF CopyOut, Return, Goto
  <2>5. QED
    BY <2>3, <2>4
<1>12. CASE \E c \in Callers : Out(c)
  BY <1>12 DEF Out, Goto
<1>13. CASE \E c \in Callers : Leave(c)
  BY <1>13 DEF Leave, RaisesHang, Release, Return, Goto
<1>14. CASE Isr
  BY <1>14 DEF Isr
<1>15. CASE dhd_bus_dpc
  BY <1>15 DEF dhd_bus_dpc
<1>16. CASE CheckDied
  BY <1>16 DEF CheckDied, dhdpcie_checkdied
<1>17. CASE dhd_prot_process_ctrlbuf
  <2> SUFFICES ASSUME pc[x] \in Posted PROVE During(x)'
    BY <1>17, TurnKeeps
  <2>1. dpc = "run" /\ InFlight(x)
    BY <1>17, Turn
  <2>2. CASE dpc' = "end" /\ UNCHANGED <<ioctl_state, dmsg, d2h>>
    BY <1>17, <2>1, <2>2, TurnKeeps
  <2>3. CASE d2h # <<>> /\ d2h' = Tail(d2h)
    <3>1. ~Empty /\ curr_ioctl_cmd = x /\ req[x] # 0 /\ (InWork(x) \/ Replied(x))
      BY <2>1, <2>3
    <3>2. CASE InWork(x)
      <4>1. d2h = <<Ack(x)>> /\ Head(d2h) = Ack(x) /\ d2h' = <<>>
        <5>1. d2h = <<Ack(x)>>
          BY <2>3, <3>2
        <5> HIDE DEF Rq, Ack, Cmplt
        <5>2. QED
          BY <2>3, <5>1, Tuples
      <4>2. ioctl_state' = {"RESP"} /\ dpc' = "run"
        BY <1>17, <2>1, <2>3, <3>2, <4>1, Turn
      <4>3. InWork(x)'
        BY <1>17, <3>2, <4>1, <4>2, TurnKeeps
      <4>4. QED
        BY <1>17, <3>1, <4>3, TurnKeeps
    <3>3. CASE Replied(x) /\ d2h = <<Ack(x), Cmplt(x)>> /\ ioctl_state = {"ACK", "RESP"}
      <4>1. Head(d2h) = Ack(x) /\ d2h' = <<Cmplt(x)>>
        BY <2>3, <3>3, Tuples
      <4>2. ioctl_state' = {"RESP"} /\ dpc' = "run"
        BY <1>17, <2>1, <2>3, <3>3, <4>1, Turn
      <4>3. Replied(x)'
        BY <1>17, <3>3, <4>1, <4>2, TurnKeeps
      <4>4. QED
        BY <1>17, <3>1, <4>3, TurnKeeps
    <3>4. CASE Replied(x) /\ d2h = <<Cmplt(x)>> /\ ioctl_state = {"RESP"}
      <4>1. Head(d2h) = Cmplt(x) /\ d2h' = <<>>
        BY <2>3, <3>4, Tuples
      <4>2. ioctl_state' = {} /\ dpc' = "cmplt" /\ dmsg' = Rq(x)
        BY <1>17, <2>1, <2>3, <3>4, <4>1, Turn
      <4>3. InDpc(x)'
        BY <1>17, <3>4, <4>1, <4>2, TurnKeeps
      <4>4. QED
        BY <1>17, <3>1, <4>3, TurnKeeps
    <3>5. QED
      BY <3>1, <3>2, <3>3, <3>4
  <2>4. QED
    BY <1>17, <2>2, <2>3, Turn
<1>18. CASE Compare
  BY <1>18 DEF Compare
<1>19. CASE dhd_wakeup_ioctl_event
  BY <1>19 DEF dhd_wakeup_ioctl_event
<1>20. CASE DpcEnd
  BY <1>20 DEF DpcEnd
<1>21. CASE Acknowledge
  <2> SUFFICES ASSUME pc[x] \in Posted PROVE During(x)'
    BY <1>21 DEF Acknowledge
  <2>1. ~Empty /\ curr_ioctl_cmd = x /\ req[x] # 0 /\ Sent(x)
    BY <1>21 DEF Acknowledge
  <2>2. h2d' = <<>> /\ work' = Rq(x) /\ d2h' = <<Ack(x)>>
    BY <1>21, <2>1, Tuples DEF Acknowledge
  <2>3. InWork(x)'
    BY <1>21, <2>1, <2>2 DEF Acknowledge
  <2>4. QED
    BY <1>21, <2>1, <2>3 DEF Acknowledge
<1>22. CASE Answer
  <2> SUFFICES ASSUME pc[x] \in Posted PROVE During(x)'
    BY <1>22 DEF Answer
  <2>1. ~Empty /\ curr_ioctl_cmd = x /\ req[x] # 0 /\ InWork(x)
    BY <1>22 DEF Answer
  <2> HIDE DEF Rq, Ack, Cmplt
  <2>2. h2d' = <<>> /\ work' = NoRequest /\ d2h' = Append(d2h, Cmplt(x))
    BY <1>22, <2>1 DEF Answer, Cmplt
  <2>3. UNCHANGED <<Rq(x), Ack(x), Cmplt(x)>>
    BY <1>22 DEF Answer, Rq, Ack, Cmplt
  <2>4. CASE d2h = <<Ack(x)>> /\ ioctl_state = {"ACK", "RESP"}
    <3>1. d2h' = <<Ack(x), Cmplt(x)>>
      BY <2>2, <2>4, Tuples
    <3>2. QED
      BY <1>22, <2>1, <2>2, <2>3, <2>4, <3>1 DEF Answer
  <2>5. CASE d2h = <<>> /\ ioctl_state = {"RESP"}
    <3>1. d2h' = <<Cmplt(x)>>
      BY <2>2, <2>5, Tuples
    <3>2. QED
      BY <1>22, <2>1, <2>2, <2>3, <2>5, <3>1 DEF Answer
  <2>6. QED
    BY <2>1, <2>4, <2>5
<1>23. CASE DongleFails
  BY <1>23 DEF DongleFails
<1>24. CASE Advertise
  BY <1>24 DEF Advertise
<1>25. CASE Drained
  BY <1>25 DEF Drained, BusBusy
<1>26. CASE DrainTimeout
  BY <1>26 DEF DrainTimeout
<1>27. CASE BusStop
  BY <1>27 DEF BusStop, dhd_bus_stop
<1>28. CASE dhd_prot_reset
  BY <1>28 DEF dhd_prot_reset
<1>29. CASE ClearErrors
  BY <1>29 DEF ClearErrors
<1>30. CASE PowerOn
  BY <1>30 DEF PowerOn
<1>31. CASE UNCHANGED vars
  BY <1>31 DEF vars
<1>32. QED
  BY <1>1, <1>2, <1>3, <1>4, <1>5, <1>6, <1>7, <1>8, <1>9, <1>10, <1>11,
     <1>12, <1>13, <1>14, <1>15, <1>16, <1>17, <1>18, <1>19, <1>20, <1>21,
     <1>22, <1>23, <1>24, <1>25, <1>26, <1>27, <1>28, <1>29, <1>30, <1>31
     DEF Next, Thread, Dpc, Reset


-----------------------------------------------------------------------------
\* The inductive invariant holds initially ...
LEMMA InitIInv == Init => IInv
<1> SUFFICES ASSUME Init PROVE IInv
  OBVIOUS
<1>1. Flags
  BY DEF Init, Flags
<1>2. Values
  BY DEF Init, Values
<1>3. FirstTransId \in TransIds
  BY NumbersAssumption DEF FirstTransId, TransIds
<1>4. Numbers
  BY <1>3, NumbersAssumption DEF Init, Numbers, Serials
<1>5. Rings
  BY DEF Init, Rings
<1>6. Owner /\ Awaited /\ DpcHolds
  BY DEF Init, Owner, Awaited, DpcHolds
<1>7. Resetting
  BY DEF Init, Resetting
<1>8. \A c \in Callers : During(c)
  BY DEF Init, During, Posted
<1>9. Between
  BY DEF Init, Between, Settled, Empty, Unanswered, Holding
<1>10. QED
  BY <1>1, <1>2, <1>4, <1>5, <1>6, <1>7, <1>8, <1>9 DEF IInv

\* ... and every step keeps it.
LEMMA IInvStep == IInv /\ [Next]_vars => IInv'
<1> SUFFICES ASSUME IInv, [Next]_vars PROVE IInv'
  OBVIOUS
<1>1. (Flags /\ Values)'
  BY FlagsStep, ValuesStep DEF IInv
<1>2. (Numbers /\ Rings)'
  BY NumbersStep, RingsStep DEF IInv
<1>3. (Owner /\ Awaited /\ DpcHolds)'
  BY OwnerStep, AwaitedStep, DpcHoldsStep DEF IInv
<1>4. Resetting'
  BY ResettingStep DEF IInv
<1>5. (\A c \in Callers : During(c))'
  BY DuringStep
<1>6. Between'
  BY BetweenStep
<1>7. QED
  BY <1>1, <1>2, <1>3, <1>4, <1>5, <1>6 DEF IInv

LEMMA IInvHolds == Spec => []IInv
BY InitIInv, IInvStep, PTL DEF Spec

\* Every variable keeps its type: no handler of the request's path leaves the
\* state machine of ioctl_state, ioctl_received and the rings, however the
\* threads, the DPC, the dongle and the power cycle interleave.
THEOREM TypeCorrect == Spec => []TypeOK
<1>1. IInv => TypeOK
  BY DEF IInv, Flags, Values, Numbers, Rings, TypeOK
<1>2. QED
  BY <1>1, IInvHolds, PTL

\* A thread in dhd_fillup_ioct_reqst holds proto_sem and has posted nothing, so
\* no response is awaited: the BCME_BUSY of that function is never returned.
THEOREM NoBusy == Spec => []NeverBusy
<1>1. IInv => NeverBusy
  BY DEF IInv, Owner, Awaited, NeverBusy, Posted
<1>2. QED
  BY <1>1, IInvHolds, PTL

\* A request is answered by its own response: from the submission ring to
\* retbuf it is the only one there is, and only a power cycle that gave up
\* waiting may have emptied retbuf before dhd_msgbuf_wait_ioctl_cmplt copies it.
THEOREM Own == Spec => []OwnResponse
<1>1. IInv => OwnResponse
  BY DEF IInv, During, Posted, OwnResponse
<1>2. QED
  BY <1>1, IInvHolds, PTL

\* dhd_fillup_ioct_reqst writes a request only into empty rings, to an idle
\* dongle, and with no success of an earlier request left in ioctl_received:
\* a call that lost its request left an error or a hang behind, and both keep
\* the next call out until a power cycle has emptied the rings.
THEOREM Slate == Spec => CleanSlate
<1> DEFINE Step ==
      serial' # serial =>
        /\ h2d = <<>> /\ d2h = <<>> /\ work = NoRequest /\ dmsg = NoRequest
        /\ ioctl_received \in {"WAIT", "TRAP"}
<1>1. ASSUME NEW c \in Callers, IInv, Posts(c), pc[c] = "fill" PROVE Step
  <2>1. Settled
    BY <1>1 DEF IInv, Between, Posts
  <2>2. sem = c
    BY <1>1 DEF IInv, Owner
  <2>3. ioctl_received # "BUS_STOP"
    <3> SUFFICES ASSUME ioctl_received = "BUS_STOP" PROVE FALSE
      OBVIOUS
    <3>1. rpc = "prot"
      BY <1>1 DEF IInv, Resetting
    <3>2. pc[sem] \in {"wait2", "expired", "judge", "copy", "out", "leave"}
      BY <1>1, <2>2, <3>1, CallersAssumption DEF IInv, Resetting
    <3>3. QED
      BY <1>1, <2>2, <3>2
  <2>4. QED
    BY <1>1, <2>1, <2>3 DEF IInv, DpcHolds, Settled, Empty, Unanswered
<1>2. ASSUME [Next]_vars, serial' # serial
      PROVE  \E c \in Callers : dhd_fillup_ioct_reqst(c)
  BY <1>2 DEF Next, Thread, Dpc, Reset, vars, pub, prot, threads, tasklet,
     device, reset, Call, TakeSem, dhd_prot_ioctl, EnterWait, Woken,
     FirstTimeout, SecondTimeout, Expired, Judge, CopyOut, Out, Leave, Isr,
     dhd_bus_dpc, CheckDied, dhdpcie_checkdied, dhd_prot_process_ctrlbuf,
     dhd_prot_ioctack_process, dhd_prot_ioctcmplt_process, Compare,
     dhd_wakeup_ioctl_event, DpcEnd, Acknowledge, Answer, DongleFails,
     Advertise, Drained, DrainTimeout, BusStop, dhd_bus_stop, dhd_prot_reset,
     ClearErrors, PowerOn
<1>3. ASSUME IInv, [Next]_vars PROVE [Step]_vars
  <2> SUFFICES ASSUME serial' # serial PROVE Step
    OBVIOUS
  <2>1. PICK c \in Callers : dhd_fillup_ioct_reqst(c)
    BY <1>2, <1>3
  <2>2. Posts(c)
    BY <2>1, Fillup DEF Refuses
  <2>3. QED
    BY <1>1, <1>3, <2>1, <2>2, Fillup
<1> HIDE DEF Step
<1>4. Spec => [][Step]_vars
  BY <1>3, IInvHolds, PTL DEF Spec
<1>5. QED
  BY <1>4 DEF Step, CleanSlate
=============================================================================
