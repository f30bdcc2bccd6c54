------------------------------ MODULE TxQueues ------------------------------
(***************************************************************************)
(* The driver's transmit queues, one per link and access category: their   *)
(* counters, the reasons a mac80211 queue is stopped for (high watermark,  *)
(* flush, firmware restart), the dummy packet, freeing a link, filtering a *)
(* sleeping station's frames, wl1271_tx_flush and the recovery.            *)
(*                                                                         *)
(* Frames are counted, not named, and any queue may be served next.  A     *)
(* thread is the list of steps it still has to do under wl->mutex,         *)
(* code[t]; every step takes wl_lock or a queue's lock at most once, and   *)
(* wl1271_op_tx may run between any two of them.                           *)
(***************************************************************************)
EXTENDS Integers, Sequences, FiniteSetsExt

CONSTANTS
    StaLinks,       \* links of the interfaces
    SystemLink,     \* WL12XX_SYSTEM_HLID
    NumQueues,      \* NUM_TX_QUEUES
    DummyQueue,     \* the access category of wl->dummy_packet
    LowWatermark, HighWatermark,
    MaxQueued,      \* bound on the frames that wait on one queue
    MaxPassed,      \* bound on the calls of op_tx under way for one queue
    Descriptors,    \* ACX_TX_DESCRIPTORS
    LateFrames      \* may frames without an interface come while it is OFF?

Links == StaLinks \cup {SystemLink}
Queues == 0 .. NumQueues - 1
Threads == {"tx", "flush", "recovery", "op"}

ASSUME QueuesAssumption ==
    /\ IsFiniteSet(StaLinks) /\ SystemLink \notin StaLinks
    /\ NumQueues \in Nat \ {0} /\ DummyQueue \in Queues
    /\ LowWatermark \in Nat /\ HighWatermark \in Nat
    /\ LowWatermark < HighWatermark
    /\ MaxPassed \in Nat \ {0} /\ Descriptors \in Nat \ {0}
    /\ LateFrames \in BOOLEAN

VARIABLES
    state,          \* wl->state
    links_map,      \* the allocated links
    tx_queue,       \* frames on each link's queues
    tx_queue_count,
    stop_reasons,   \* wl->queue_stop_reasons
    dummy,          \* dummy packets pending: 0 or 1
    tx_frames_cnt,  \* frames in the firmware
    stopped,        \* mac80211: its stopped queues
    passed,         \* mac80211: frames past mac80211's own check, per queue
    mutex,          \* who holds wl->mutex
    code,           \* what each thread still has to do
    i,              \* the queue its current loop is at
    held,           \* the queue that tx_work_locked's frame came from
    sent,           \* its sent_packets
    total,          \* frames drained from the link that is being purged
    expired         \* the flush has used up its time

queues == <<links_map, tx_queue, tx_queue_count, dummy>>
stops == <<stop_reasons, stopped>>
txwork == <<held, sent, tx_frames_cnt>>
sched == <<mutex, code, i>>
vars == <<state, queues, stops, txwork, passed, sched, total, expired>>

Init ==
    /\ state = "ON"
    /\ links_map = {SystemLink}
    /\ tx_queue = [l \in Links |-> [q \in Queues |-> 0]]
    /\ tx_queue_count = [q \in Queues |-> 0]
    /\ dummy = 0
    /\ stop_reasons = [q \in Queues |-> {}] /\ stopped = {}
    /\ passed = [q \in Queues |-> 0]
    /\ held = <<>> /\ sent = FALSE /\ tx_frames_cnt = 0
    /\ mutex = "none" /\ code = [t \in Threads |-> <<>>] /\ i = 0
    /\ total = [q \in Queues |-> 0] /\ expired = FALSE

-----------------------------------------------------------------------------
(* Threads and the steps they are made of                                   *)

\* t holds the mutex and its next step is of this kind
At(t, kind) == mutex = t /\ code[t] # <<>> /\ Head(code[t])[1] = kind
Arg(t) == Head(code[t])[2]
Rest(t) == Tail(code[t])

\* t goes on with prog; when nothing is left it unlocks the mutex
Goto(t, prog) ==
    /\ code' = [code EXCEPT ![t] = prog]
    /\ mutex' = IF prog = <<>> THEN "none" ELSE mutex
    /\ i' = 0

\* the loop at the head of prog is done with queue i
NextQueue(t, prog) ==
    IF i = NumQueues - 1
      THEN Goto(t, Tail(prog))
      ELSE i' = i + 1 /\ code' = [code EXCEPT ![t] = prog] /\ UNCHANGED mutex

\* a thread that finds the mutex free starts, or comes back from a yield
Start(t, prog) ==
    /\ mutex = "none" /\ code[t] = <<>>
    /\ mutex' = t /\ code' = [code EXCEPT ![t] = prog]
    /\ UNCHANGED i

Relock(t) ==
    /\ mutex = "none" /\ code[t] # <<>>
    /\ mutex' = t
    /\ UNCHANGED <<state, queues, stops, txwork, passed, code, i, total, expired>>

\* mutex_unlock(&wl->mutex) in the middle of a function
Yield(t) ==
    /\ At(t, "yield")
    /\ mutex' = "none" /\ code' = [code EXCEPT ![t] = Rest(t)]
    /\ UNCHANGED <<state, queues, stops, txwork, passed, i, total, expired>>

\* fault: the counters are left as they are
ResetLinkQueuesOnly(l) == << <<"drain", l>>, <<"low", l>> >>

\* wl1271_tx_reset_link_queues, and wl1271_ps_filter_frames
ResetLinkQueues(l) == << <<"drain", l>>, <<"subtract", l>>, <<"low", l>> >>
\* wl12xx_free_link
FreeLink(l) == << <<"free", l>> >> \o ResetLinkQueues(l)
\* the programs of a set of links, one after the other
ForEachLink(progs) == FoldFunction(LAMBDA p, all : all \o p, <<>>, progs)

TotalQueueCount == SumFunction(tx_queue_count)

-----------------------------------------------------------------------------
(* wl1271_op_tx and mac80211                                                *)

\* mac80211 looks at its queue before it calls the driver, and not again
MacPasses(q) ==
    /\ q \notin stopped /\ passed[q] < MaxPassed
    /\ passed' = [passed EXCEPT ![q] = @ + 1]
    /\ UNCHANGED <<state, queues, stops, txwork, sched, total, expired>>

\* fault: a frame for a link that is gone is queued
AnyLink(l) == TRUE

\* is the link still there for op_tx: frames without an interface go to the
\* system link unchecked
LinkValid(l) == l = SystemLink \/ l \in links_map

\* the queue is stopped, and the high watermark is not among the reasons
HardStopped(q) ==
    stop_reasons[q] # {} /\ "WATERMARK" \notin stop_reasons[q]

OpTxDrop(l, q) ==
    /\ passed[q] > 0
    /\ ~LinkValid(l) \/ HardStopped(q)
    /\ passed' = [passed EXCEPT ![q] = @ - 1]
    /\ UNCHANGED <<state, queues, stops, txwork, sched, total, expired>>

OpTx(l, q) ==
    /\ passed[q] > 0
    /\ l = SystemLink /\ state = "OFF" => LateFrames
    /\ LinkValid(l) /\ ~HardStopped(q)
    /\ tx_queue[l][q] < MaxQueued
    /\ passed' = [passed EXCEPT ![q] = @ - 1]
    /\ tx_queue' = [tx_queue EXCEPT ![l][q] = @ + 1]
    /\ tx_queue_count' = [tx_queue_count EXCEPT ![q] = @ + 1]
    /\ IF tx_queue_count'[q] >= HighWatermark
         THEN /\ stop_reasons' = [stop_reasons EXCEPT ![q] = @ \cup {"WATERMARK"}]
              /\ stopped' = stopped \cup {q}
         ELSE UNCHANGED stops
    /\ UNCHANGED <<state, links_map, dummy, txwork, sched, total, expired>>

-----------------------------------------------------------------------------
(* Stop and wake, the watermark, and purging a link                         *)

\* wlcore_stop_queue_locked
StopQueue(q, reason) ==
    /\ stop_reasons' = [stop_reasons EXCEPT ![q] = @ \cup {reason}]
    /\ stopped' = IF stop_reasons[q] = {} THEN stopped \cup {q} ELSE stopped

\* wlcore_wake_queue
WakeQueue(q, reason) ==
    /\ stop_reasons' = [stop_reasons EXCEPT ![q] = @ \ {reason}]
    /\ stopped' = IF stop_reasons'[q] = {} THEN stopped \ {q} ELSE stopped

\* wlcore_stop_queues and wlcore_wake_queues, one queue a step
StopStep(t) ==
    /\ At(t, "stop")
    /\ StopQueue(i, Arg(t))
    /\ NextQueue(t, code[t])
    /\ UNCHANGED <<state, queues, txwork, passed, total, expired>>

WakeStep(t) ==
    /\ At(t, "wake")
    /\ WakeQueue(i, Arg(t))
    /\ NextQueue(t, code[t])
    /\ UNCHANGED <<state, queues, txwork, passed, total, expired>>

\* fault: the reason is not looked at
FewFrames(q) == tx_queue_count[q] <= LowWatermark

AtLowWatermark(q) ==
    "WATERMARK" \in stop_reasons[q] /\ tx_queue_count[q] <= LowWatermark

\* wl1271_handle_tx_low_watermark: the test takes no lock, the wake does
LowWatermarkTest(t) ==
    /\ At(t, "low")
    /\ IF AtLowWatermark(i)
         THEN /\ code' = [code EXCEPT ![t] = << <<"lowwake", i>> >> \o code[t]]
              /\ UNCHANGED <<mutex, i>>
         ELSE NextQueue(t, code[t])
    /\ UNCHANGED <<state, queues, stops, txwork, passed, total, expired>>

LowWatermarkWake(t) ==
    /\ At(t, "lowwake")
    /\ WakeQueue(i, "WATERMARK")
    /\ NextQueue(t, Rest(t))
    /\ UNCHANGED <<state, queues, txwork, passed, total, expired>>

\* wl12xx_free_link: op_tx adds nothing after this
FreeStep(t) ==
    /\ At(t, "free")
    /\ links_map' = links_map \ {Arg(t)}
    /\ Goto(t, Rest(t))
    /\ UNCHANGED <<state, tx_queue, tx_queue_count, dummy, stops, txwork,
                   passed, total, expired>>

\* one of the queues of a link is emptied ...
DrainStep(t) ==
    /\ At(t, "drain")
    /\ total' = [total EXCEPT ![i] = tx_queue[Arg(t)][i]]
    /\ tx_queue' = [tx_queue EXCEPT ![Arg(t)][i] = 0]
    /\ NextQueue(t, code[t])
    /\ UNCHANGED <<state, links_map, tx_queue_count, dummy, stops, txwork,
                   passed, expired>>

\* ... and then all the counters are corrected under wl_lock
SubtractStep(t) ==
    /\ At(t, "subtract")
    /\ tx_queue_count' = [q \in Queues |-> tx_queue_count[q] - total[q]]
    /\ total' = [q \in Queues |-> 0]
    /\ Goto(t, Rest(t))
    /\ UNCHANGED <<state, links_map, tx_queue, dummy, stops, txwork, passed,
                   expired>>

-----------------------------------------------------------------------------
(* wl1271_tx_work_locked, whoever calls it                                  *)

\* out_ack: the watermark is looked at only if something was sent
Finish == Goto("tx", IF sent THEN << <<"low", SystemLink>> >> ELSE <<>>)

TxStart ==
    /\ state = "ON"
    /\ Start("tx", << <<"dequeue", 0>> >>)
    /\ sent' = FALSE
    /\ UNCHANGED <<state, queues, stops, held, tx_frames_cnt, passed, total,
                   expired>>

\* queues that wl1271_skb_dequeue considers and finds not empty
Ready ==
    {lq \in Links \X Queues :
        LinkValid(lq[1]) /\ tx_queue[lq[1]][lq[2]] > 0}

TxDequeue(l, q) ==
    /\ At("tx", "dequeue") /\ <<l, q>> \in Ready
    /\ tx_queue' = [tx_queue EXCEPT ![l][q] = @ - 1]
    /\ held' = <<l, q>>
    /\ Goto("tx", << <<"count", 0>> >>)
    /\ UNCHANGED <<state, links_map, tx_queue_count, dummy, stops, sent,
                   tx_frames_cnt, passed, total, expired>>

TxDequeueDummy ==
    /\ At("tx", "dequeue") /\ Ready = {} /\ dummy = 1
    /\ dummy' = 0
    /\ held' = <<"dummy", DummyQueue>>
    /\ Goto("tx", << <<"count", 0>> >>)
    /\ UNCHANGED <<state, links_map, tx_queue, tx_queue_count, stops, sent,
                   tx_frames_cnt, passed, total, expired>>

\* nothing is left; the last write to the chip may fail
TxDone(fails) ==
    /\ At("tx", "dequeue") /\ Ready = {} /\ dummy = 0
    /\ IF fails /\ sent
         THEN state' = "RESTARTING" /\ Goto("tx", <<>>)
         ELSE Finish /\ UNCHANGED state
    /\ UNCHANGED <<queues, stops, txwork, passed, total, expired>>

TxCount ==
    /\ At("tx", "count")
    /\ tx_queue_count' = [tx_queue_count EXCEPT ![held[2]] = @ - 1]
    /\ Goto("tx", << <<"prepare", 0>> >>)
    /\ UNCHANGED <<state, links_map, tx_queue, dummy, stops, txwork, passed,
                   total, expired>>

\* the frame is sent; wl1271_tx_regulate_link may find that the station of an
\* AP link sleeps, and filter what else is queued for it
TxSend(filter) ==
    /\ At("tx", "prepare") /\ tx_frames_cnt < Descriptors
    /\ filter => held[1] \in StaLinks
    /\ tx_frames_cnt' = tx_frames_cnt + 1
    /\ sent' = TRUE /\ held' = <<>>
    /\ Goto("tx", (IF filter THEN ResetLinkQueues(held[1]) ELSE <<>>)
                     \o << <<"dequeue", 0>> >>)
    /\ UNCHANGED <<state, queues, stops, passed, total, expired>>

\* -EBUSY: wl1271_skb_queue_head puts the frame back, then counts it
TxBusy ==
    /\ At("tx", "prepare") /\ tx_frames_cnt > 0
    /\ IF held[1] = "dummy"
         THEN dummy' = 1 /\ UNCHANGED tx_queue
         ELSE tx_queue' = [tx_queue EXCEPT ![held[1]][held[2]] = @ + 1]
              /\ UNCHANGED dummy
    /\ Goto("tx", << <<"recount", 0>> >>)
    /\ UNCHANGED <<state, links_map, tx_queue_count, stops, txwork, passed,
                   total, expired>>

TxRecount ==
    /\ At("tx", "recount")
    /\ tx_queue_count' = [tx_queue_count EXCEPT ![held[2]] = @ + 1]
    /\ held' = <<>>
    /\ Finish
    /\ UNCHANGED <<state, links_map, tx_queue, dummy, stops, sent,
                   tx_frames_cnt, passed, total, expired>>

\* a failed firmware command: the frame is dropped and a recovery queued
TxError ==
    /\ At("tx", "prepare") /\ held[1] \in StaLinks
    /\ state' = "RESTARTING"
    /\ held' = <<>>
    /\ Finish
    /\ UNCHANGED <<queues, stops, sent, tx_frames_cnt, passed, total, expired>>

\* the interrupt thread completes a frame, or asks for the dummy packet and,
\* unless the firmware is busy, transmits at once
TxComplete ==
    /\ mutex = "none" /\ state = "ON" /\ tx_frames_cnt > 0
    /\ tx_frames_cnt' = tx_frames_cnt - 1
    /\ UNCHANGED <<state, queues, stops, held, sent, passed, sched, total,
                   expired>>

TxDummyPacket(busy) ==
    /\ mutex = "none" /\ state = "ON" /\ dummy = 0
    /\ dummy' = 1
    /\ tx_queue_count' = [tx_queue_count EXCEPT ![DummyQueue] = @ + 1]
    /\ IF busy THEN UNCHANGED <<sched, sent>>
       ELSE Start("tx", << <<"dequeue", 0>> >>) /\ sent' = FALSE
    /\ UNCHANGED <<state, links_map, tx_queue, stops, held, tx_frames_cnt,
                   passed, total, expired>>

-----------------------------------------------------------------------------
(* wl1271_tx_flush; flush_mutex admits one at a time                        *)

FlushStart ==
    /\ Start("flush", << <<"flushcheck", 0>> >>)
    /\ expired' = FALSE
    /\ UNCHANGED <<state, queues, stops, txwork, passed, total>>

TimePasses ==
    /\ code["flush"] # <<>> /\ ~expired
    /\ expired' = TRUE
    /\ UNCHANGED <<state, queues, stops, txwork, passed, sched, total>>

Flushed == tx_frames_cnt = 0 /\ TotalQueueCount = 0

FlushCheck ==
    /\ At("flush", "flushcheck")
    /\ Goto("flush", IF Flushed THEN <<>>
                     ELSE << <<"stop", "FLUSH">>, <<"flushloop", 0>> >>)
    /\ UNCHANGED <<state, queues, stops, txwork, passed, total, expired>>

FlushLoop ==
    /\ At("flush", "flushloop")
    /\ Goto("flush",
            IF expired
              THEN ForEachLink([l \in Links |-> ResetLinkQueues(l)])
                     \o << <<"wake", "FLUSH">> >>
              ELSE << <<"yield", 0>>, <<"flushpoll", 0>> >>)
    /\ UNCHANGED <<state, queues, stops, txwork, passed, total, expired>>

\* fault: a flush that succeeds forgets to wake the queues
FlushPollNoWake ==
    /\ At("flush", "flushpoll")
    /\ Goto("flush", IF Flushed THEN <<>> ELSE << <<"flushloop", 0>> >>)
    /\ UNCHANGED <<state, queues, stops, txwork, passed, total, expired>>

FlushPoll ==
    /\ At("flush", "flushpoll")
    /\ Goto("flush", IF Flushed THEN << <<"wake", "FLUSH">> >>
                                ELSE << <<"flushloop", 0>> >>)
    /\ UNCHANGED <<state, queues, stops, txwork, passed, total, expired>>

-----------------------------------------------------------------------------
(* Links come and go, a station falls asleep                                *)

AllocateLink(l) ==
    /\ mutex = "none" /\ state = "ON" /\ l \notin links_map
    /\ links_map' = links_map \cup {l}
    /\ UNCHANGED <<state, tx_queue, tx_queue_count, dummy, stops, txwork,
                   passed, sched, total, expired>>

RemoveLink(l) ==
    /\ state = "ON" /\ l \in links_map
    /\ Start("op", FreeLink(l))
    /\ UNCHANGED <<state, queues, stops, txwork, passed, total, expired>>

PsLinkStart(l) ==
    /\ state = "ON" /\ l \in links_map
    /\ Start("op", ResetLinkQueues(l))
    /\ UNCHANGED <<state, queues, stops, txwork, passed, total, expired>>

-----------------------------------------------------------------------------
(* Recovery                                                                 *)

QueueRecovery ==
    /\ mutex = "none" /\ state = "ON"
    /\ state' = "RESTARTING"
    /\ UNCHANGED <<queues, stops, txwork, passed, sched, total, expired>>

\* wl1271_recovery_work: stop the queues, free the links with their interface
\* (which drops the mutex), go through wl1271_op_stop_locked and, after
\* restart_hw, wake the queues
RecoveryWork ==
    /\ state = "RESTARTING"
    /\ Start("recovery",
             << <<"stop", "FW_RESTART">> >>
               \o ForEachLink([l \in links_map \ {SystemLink} |-> FreeLink(l)])
               \o << <<"yield", 0>>, <<"off", 0>>, <<"wake", "FW_RESTART">> >>)
    /\ UNCHANGED <<state, queues, stops, txwork, passed, total, expired>>

\* wl1271_op_stop: mac80211 has removed the last interface and waited for a
\* recovery under way; the queues are neither stopped nor woken
MacStop ==
    /\ state # "OFF" /\ links_map = {SystemLink}
    /\ Start("recovery", << <<"off", 0>> >>)
    /\ UNCHANGED <<state, queues, stops, txwork, passed, total, expired>>

OpStop ==
    /\ At("recovery", "off")
    /\ state' = "OFF"
    /\ Goto("recovery", << <<"yield", 0>>, <<"txreset", 0>> >> \o Rest("recovery"))
    /\ UNCHANGED <<queues, stops, txwork, passed, total, expired>>

\* wl12xx_tx_reset, up to the frames the firmware had
TxReset ==
    /\ At("recovery", "txreset")
    /\ Goto("recovery",
            (IF TotalQueueCount = 0 THEN <<>>
             ELSE ForEachLink([l \in Links |-> ResetLinkQueues(l)])
                    \o << <<"zero", 0>> >>)
              \o << <<"low", 0>>, <<"reset", 0>> >> \o Rest("recovery"))
    /\ UNCHANGED <<state, queues, stops, txwork, passed, total, expired>>

ZeroStep ==
    /\ At("recovery", "zero")
    /\ tx_queue_count' = [tx_queue_count EXCEPT ![i] = 0]
    /\ NextQueue("recovery", code["recovery"])
    /\ UNCHANGED <<state, links_map, tx_queue, dummy, stops, txwork, passed,
                   total, expired>>

\* the frames are returned and wl->flags cleared
StopDone ==
    /\ At("recovery", "reset")
    /\ tx_frames_cnt' = 0 /\ dummy' = 0
    /\ links_map' = {SystemLink}
    /\ Goto("recovery", Rest("recovery"))
    /\ UNCHANGED <<state, tx_queue, tx_queue_count, stops, held, sent, passed,
                   total, expired>>

\* mac80211 restarts the hardware: wl1271_op_add_interface boots it
Boot ==
    /\ mutex = "none" /\ state = "OFF" /\ code["recovery"] = <<>>
    /\ state' = "ON"
    /\ UNCHANGED <<queues, stops, txwork, passed, sched, total, expired>>

-----------------------------------------------------------------------------
Mac == \E q \in Queues :
          MacPasses(q) \/ \E l \in Links : OpTx(l, q) \/ OpTxDrop(l, q)

\* steps that any thread may be at
Common(t) ==
    \/ Relock(t) \/ Yield(t) \/ StopStep(t) \/ WakeStep(t)
    \/ LowWatermarkTest(t) \/ LowWatermarkWake(t)
    \/ FreeStep(t) \/ DrainStep(t) \/ SubtractStep(t)

TxWork ==
    \/ TxStart \/ TxDequeueDummy \/ TxCount \/ TxBusy \/ TxRecount \/ TxError
    \/ \E l \in Links, q \in Queues : TxDequeue(l, q)
    \/ \E b \in BOOLEAN : TxSend(b) \/ TxDone(b)

Irq == TxComplete \/ \E b \in BOOLEAN : TxDummyPacket(b)
Flush == FlushStart \/ FlushCheck \/ FlushLoop \/ FlushPoll
Ops ==
    \/ \E l \in StaLinks : AllocateLink(l) \/ RemoveLink(l) \/ PsLinkStart(l)
    \/ MacStop
Recovery == RecoveryWork \/ OpStop \/ TxReset \/ ZeroStep \/ StopDone \/ Boot

Next ==
    \/ Mac \/ TxWork \/ Irq \/ Flush \/ TimePasses \/ Ops \/ QueueRecovery
    \/ Recovery \/ \E t \in Threads : Common(t)

Spec == Init /\ [][Next]_vars

\* every started function finishes: a thread that waits for the mutex gets it
\* (SF: the mutex is handed on in turn), and a thread that holds it runs
ThreadFairness ==
    /\ \A t \in Threads : SF_vars(Relock(t)) /\ WF_vars(Common(t) /\ mutex = t)
    /\ WF_vars(TxWork /\ mutex = "tx") /\ WF_vars(Flush /\ mutex = "flush")
    /\ WF_vars(Recovery) /\ WF_vars(TimePasses)

\* tx_work is run again while frames wait, a live firmware completes frames,
\* and a requested recovery starts
SystemFairness == SF_vars(TxStart) /\ SF_vars(TxComplete) /\ SF_vars(RecoveryWork)

LiveSpec == Spec /\ ThreadFairness /\ SystemFairness

-----------------------------------------------------------------------------
(* Types, with the mutex discipline: only a thread with work left holds it,  *)
(* and tx_work_locked never lets go of it half way.                          *)
TypeOK ==
    /\ state \in {"ON", "RESTARTING", "OFF"}
    /\ SystemLink \in links_map /\ links_map \subseteq Links
    /\ tx_queue \in [Links -> [Queues -> Nat]]
    /\ tx_queue_count \in [Queues -> Int]
    /\ stop_reasons \in [Queues -> SUBSET {"WATERMARK", "FW_RESTART", "FLUSH"}]
    /\ stopped \subseteq Queues /\ passed \in [Queues -> 0 .. MaxPassed]
    /\ dummy \in 0 .. 1 /\ tx_frames_cnt \in 0 .. Descriptors
    /\ mutex \in Threads \cup {"none"} /\ i \in Queues
    /\ mutex # "none" => code[mutex] # <<>>
    /\ mutex # "tx" => code["tx"] = <<>> /\ held = <<>>
    /\ sent \in BOOLEAN /\ expired \in BOOLEAN

\* frames of queue q that are on the links' queues
Queued(q) == SumFunction([l \in Links |-> tx_queue[l][q]])

\* frames of queue q that tx_work_locked has taken but not counted, or put
\* back but not counted, or that a purge has drained but not subtracted
InTransit(q) ==
    total[q] + (IF held = <<>> THEN 0 ELSE IF held[2] # q THEN 0
                ELSE IF At("tx", "count") THEN 1
                ELSE IF At("tx", "recount") THEN -1 ELSE 0)

\* The counters are exact: between the steps of tx_work, flush, free_link,
\* filter and recovery, tx_queue_count is what the queues hold plus what is in
\* transit (tx.c 538-541, 652-656, 1007-1010; ps.c 267-271).
CountExact ==
    state # "OFF" => \A q \in Queues :
        tx_queue_count[q] =
            Queued(q) + InTransit(q) + (IF q = DummyQueue THEN dummy ELSE 0)

\* wl12xx_free_link: "At this point op_tx() will not add more packets to the
\* queues."  Nothing waits on a link that is not allocated, so its next owner
\* does not inherit frames.
NoOrphanFrames ==
    \A l \in StaLinks \ links_map, q \in Queues :
        tx_queue[l][q] > 0 =>
            \E t \in {"op", "recovery"} : mutex = t /\ At(t, "drain") /\ Arg(t) = l

\* No WARN_ON of wlcore_stop_queue_locked or wlcore_wake_queue fires: a reason
\* is set only where it was clear and cleared only where it was set.
StopsBalanced ==
    \A t \in Threads :
        /\ At(t, "stop") => Arg(t) \notin stop_reasons[i]
        /\ At(t, "wake") => Arg(t) \in stop_reasons[i]
        /\ At(t, "lowwake") => "WATERMARK" \in stop_reasons[i]

\* No reason to stop a queue stays for ever: the watermark's is lifted by
\* transmission or by a purge, the others by the thread that set them, even if
\* recoveries and flushes overlap without end.
StopReasonsLifted ==
    \A q \in Queues, r \in {"WATERMARK", "FW_RESTART", "FLUSH"} :
        r \in stop_reasons[q] ~> r \notin stop_reasons[q]

=============================================================================
