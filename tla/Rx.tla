--------------------------------- MODULE Rx ---------------------------------
(***************************************************************************)
(* The receive path: the firmware's ring of packet descriptors, the part   *)
(* of the interrupt thread that reads and splits the packets (wl12xx_rx),  *)
(* the deferred queue that hands frames to mac80211 from three threads     *)
(* (netstack_work, the interrupt thread when the queue grows long, and     *)
(* wl1271_op_stop_locked), and the restart of the chip.  RxStreaming is    *)
(* the part of it that follows the traffic with timers.                    *)
(*                                                                         *)
(* Packets are numbered as they arrive.  Their sizes are left out: a size  *)
(* is between one word and the aggregation buffer, and what fits one       *)
(* buffer is then any non-empty run of the unread packets.                 *)
(***************************************************************************)
EXTENDS RxStreaming

CONSTANTS
    MaxPackets,       \* bound on the packets of a behaviour
    Descs,            \* NUM_RX_PKT_DESC
    CntMod,           \* width of wl->rx_counter (2^32), a multiple of Descs
    DeferLimit,       \* WL1271_DEFERRED_QUEUE_LIMIT
    EndOfTransaction  \* whether the chip needs the driver's counter written

ASSUME RingAssumption ==
    /\ MaxPackets \in Nat /\ DeferLimit \in Nat /\ EndOfTransaction \in BOOLEAN
    /\ Descs \in Nat /\ Descs > 1
    /\ CntMod \in Nat /\ CntMod > 0 /\ CntMod % Descs = 0

VARIABLES
    arrived,    \* firmware: number of packets so far
    ring,       \* firmware: slot -> the packet its descriptor is of
    fwCount,    \* firmware: fw_rx_counter, packets since the boot
    fwFreed,    \* firmware: how many of those descriptors it may use again
    unread,     \* firmware: packets still in its memory
    fwIntr,     \* firmware: WL1271_ACX_INTR_DATA "raised" or "none"
    status,     \* wl->fw_status: the counter and the ring as last read
    rx_counter, \* wl->rx_counter
    irq,        \* the interrupt thread's next step
    buf,        \* the packets in wl->aggr_buf
    active,     \* whether active_hlids has the interface's link: "yes" or "no"
    deferred,   \* wl->deferred_rx_queue
    netstack,   \* netstack_work runs: "idle" or "running"
    pending,    \* netstack_work is on its workqueue: "yes" or "no"
    hand,       \* thread -> the frame it has dequeued, or 0
    done, lost  \* packets mac80211 got, and those dropped

fw == <<arrived, ring, fwCount, fwFreed, unread, fwIntr>>
loop == <<status, rx_counter, buf, active>>
out == <<deferred, netstack, pending, hand, done, lost>>
vars == <<svars, fw, loop, irq, out>>

Threads == {"irq", "netstack", "stop"}
Slots == 0 .. Descs - 1

Init ==
    /\ StreamInit
    /\ arrived = 0 /\ ring = [s \in Slots |-> 0] /\ fwCount = 0 /\ fwFreed = 0
    /\ unread = {} /\ fwIntr = "none"
    /\ status = [count |-> 0, ring |-> ring] /\ rx_counter = 0
    /\ irq = "idle" /\ buf = <<>> /\ active = "no"
    /\ deferred = <<>> /\ netstack = "idle" /\ pending = "no"
    /\ hand = [t \in Threads |-> 0] /\ done = {} /\ lost = {}

MutexFree == irq = "idle"

-----------------------------------------------------------------------------
(* The firmware, as the driver uses it: it keeps one descriptor free, so    *)
(* that a full ring does not look like an empty one                         *)
FwReceive ==
    /\ state # "OFF" /\ arrived < MaxPackets
    /\ (fwCount - fwFreed) % CntMod < Descs - 1
    /\ arrived' = arrived + 1
    /\ ring' = [ring EXCEPT ![fwCount % Descs] = arrived']
    /\ fwCount' = (fwCount + 1) % CntMod
    /\ unread' = unread \cup {arrived'}
    /\ fwIntr' = "raised"
    /\ UNCHANGED <<svars, fwFreed, loop, irq, out>>

-----------------------------------------------------------------------------
(* The interrupt thread                                                     *)

\* wl12xx_irq takes the mutex and finds the state ON
IrqEnter ==
    /\ irq = "idle" /\ fwIntr = "raised" /\ state = "ON"
    /\ irq' = "status"
    /\ UNCHANGED <<svars, fw, loop, out>>

\* wl12xx_fw_status acknowledges the interrupt and copies counter and ring;
\* with no cause left the loop of wl12xx_irq_locked ends
IrqStatus ==
    /\ irq = "status"
    /\ irq' = IF fwIntr = "raised" THEN "rx" ELSE "idle"
    /\ status' = [count |-> fwCount, ring |-> ring]
    /\ fwIntr' = "none"
    /\ UNCHANGED <<svars, arrived, ring, fwCount, fwFreed, unread, rx_counter,
                   buf, active, out>>

\* packets the last status shows and wl12xx_rx has not taken
Waiting == (status.count - rx_counter) % Descs

\* a bus transfer of the status, of the packets or of the counter fails: the
\* interrupt thread leaves and queues the recovery
IrqFails ==
    /\ irq \in {"status", "rx"}
    /\ irq' = "idle" /\ state' = "RESTARTING" /\ active' = "no"
    /\ UNCHANGED <<vif, associated, gemini, stream, remover, fw, status,
                   rx_counter, buf, out>>

\* wl12xx_rx reads as many packets as fit the aggregation buffer, one at least
\* (none is longer than the buffer, so data is never "empty")
RxRead(n) ==
    /\ irq = "rx" /\ n \in 1 .. Waiting
    /\ buf' = [i \in 1 .. n |-> status.ring[(rx_counter + i - 1) % Descs]]
    /\ unread' = unread \ {buf'[i] : i \in 1 .. n}
    /\ fwFreed' = IF EndOfTransaction THEN fwFreed ELSE (fwFreed + n) % CntMod
    /\ irq' = "split"
    /\ UNCHANGED <<svars, arrived, ring, fwCount, fwIntr, status, rx_counter,
                   active, out>>

\* fault: the newest frame goes to the front of the queue
QueuedFirst(p) == <<p>> \o deferred

\* skb_queue_tail
Queued(p) == Append(deferred, p)

\* fault: the work is not queued
RxHandleDataQuietly(queued, data) ==
    /\ irq = "split" /\ (data = "yes" => queued)
    /\ IF queued
         THEN deferred' = Queued(Head(buf)) /\ UNCHANGED <<pending, lost>>
         ELSE lost' = lost \cup {Head(buf)} /\ UNCHANGED <<deferred, pending>>
    /\ active' = IF data = "yes" THEN "yes" ELSE active
    /\ rx_counter' = (rx_counter + 1) % CntMod
    /\ buf' = Tail(buf)
    /\ irq' = IF Tail(buf) = <<>> THEN "rx" ELSE "split"
    /\ UNCHANGED <<svars, fw, status, netstack, hand, done>>

\* wl1271_rx_handle_data on the next packet of the buffer.  A corrupted packet,
\* a log of the firmware, or one there is no memory for is not queued.
RxHandleData(queued, data) ==
    /\ irq = "split" /\ (data = "yes" => queued)
    /\ IF queued
         THEN /\ deferred' = Queued(Head(buf)) /\ pending' = "yes"
              /\ UNCHANGED lost
         ELSE lost' = lost \cup {Head(buf)} /\ UNCHANGED <<deferred, pending>>
    /\ active' = IF data = "yes" THEN "yes" ELSE active
    /\ rx_counter' = (rx_counter + 1) % CntMod
    /\ buf' = Tail(buf)
    /\ irq' = IF Tail(buf) = <<>> THEN "rx" ELSE "split"
    /\ UNCHANGED <<svars, fw, status, netstack, hand, done>>

\* wl12xx_rx has taken all: it writes the counter, if the chip needs that, and
\* rearms the streaming
RxDone ==
    /\ irq = "rx" /\ Waiting = 0
    /\ fwFreed' = IF EndOfTransaction THEN rx_counter ELSE fwFreed
    /\ IF active = "yes" THEN RearmRxStreaming ELSE UNCHANGED stream
    /\ active' = "no"
    /\ irq' = "defer"
    /\ UNCHANGED <<state, vif, associated, gemini, remover, arrived, ring,
                   fwCount, unread, fwIntr, status, rx_counter, buf, out>>

\* the deferred queues are too long; deferred_tx_queue (see TxPath) counts too
IrqDefer(txLen) ==
    /\ irq = "defer"
    /\ irq' = IF Len(deferred) + txLen > DeferLimit THEN "flush" ELSE "event"
    /\ UNCHANGED <<svars, fw, loop, out>>

\* an event of the firmware is handled in the same round
IrqEvent ==
    /\ irq = "event"
    /\ irq' = "status"
    /\ SoftGemini \/ UNCHANGED svars
    /\ UNCHANGED <<fw, loop, out>>

-----------------------------------------------------------------------------
(* wl1271_flush_deferred_work, run by any of the three threads              *)

\* fault: the frame leaves the queue only after it was handed over
FlushPeek(t) ==
    \/ /\ hand[t] = 0 /\ deferred # <<>>
       /\ hand' = [hand EXCEPT ![t] = Head(deferred)]
       /\ UNCHANGED <<deferred, done>>
    \/ /\ hand[t] # 0 /\ deferred # <<>>
       /\ done' = done \cup {hand[t]}
       /\ hand' = [hand EXCEPT ![t] = 0]
       /\ deferred' = Tail(deferred)

Flush(t) ==
    \/ /\ hand[t] = 0 /\ deferred # <<>>
       /\ hand' = [hand EXCEPT ![t] = Head(deferred)]
       /\ deferred' = Tail(deferred)
       /\ UNCHANGED done
    \/ /\ hand[t] # 0
       /\ done' = done \cup {hand[t]}
       /\ hand' = [hand EXCEPT ![t] = 0]
       /\ UNCHANGED deferred

Flushed(t) == hand[t] = 0 /\ deferred = <<>>

IrqFlush ==
    /\ irq = "flush"
    /\ \/ Flush("irq") /\ UNCHANGED irq
       \/ Flushed("irq") /\ irq' = "event" /\ UNCHANGED <<hand, deferred, done>>
    /\ UNCHANGED <<svars, fw, loop, netstack, pending, lost>>

NetstackStart ==
    /\ pending = "yes" /\ netstack = "idle"
    /\ pending' = "no" /\ netstack' = "running"
    /\ UNCHANGED <<svars, fw, loop, irq, deferred, hand, done, lost>>

NetstackWork ==
    /\ netstack = "running"
    /\ \/ Flush("netstack") /\ UNCHANGED netstack
       \/ /\ Flushed("netstack") /\ netstack' = "idle"
          /\ UNCHANGED <<hand, deferred, done>>
    /\ UNCHANGED <<svars, fw, loop, irq, pending, lost>>

-----------------------------------------------------------------------------
(* wl1271_op_stop_locked, after the removal of the interface                *)

\* the state is switched under the mutex; no interrupt thread gets past it
StopOff ==
    /\ remover = "stop" /\ MutexFree
    /\ state' = "OFF" /\ remover' = "flush"
    /\ UNCHANGED <<vif, associated, gemini, stream, fw, loop, irq, out>>

StopFlush ==
    /\ remover = "flush"
    /\ \/ Flush("stop") /\ UNCHANGED remover
       \/ /\ Flushed("stop") /\ remover' = "cancel"
          /\ UNCHANGED <<hand, deferred, done>>
    /\ UNCHANGED <<state, vif, associated, gemini, stream, fw, loop, irq,
                   netstack, pending, lost>>

\* netstack_work is cancelled, the chip powered off (what it held is gone) and
\* the counters start anew
StopReset ==
    /\ remover = "cancel" /\ netstack = "idle"
    /\ pending' = "no" /\ remover' = "boot"
    /\ lost' = lost \cup unread \cup {buf[i] : i \in DOMAIN buf}
    /\ buf' = <<>> /\ unread' = {} /\ fwCount' = 0 /\ fwFreed' = 0
    /\ fwIntr' = "none" /\ ring' = [s \in Slots |-> 0]
    /\ status' = [count |-> 0, ring |-> ring'] /\ rx_counter' = 0
    /\ UNCHANGED <<state, vif, associated, gemini, stream, arrived, irq, active,
                   deferred, netstack, hand, done>>

Boot ==
    /\ remover = "boot"
    /\ AddInterface
    /\ UNCHANGED <<fw, loop, irq, out>>

\* any operation under the mutex whose command fails asks for the recovery
QueueRecovery ==
    /\ state = "ON" /\ MutexFree
    /\ state' = "RESTARTING"
    /\ UNCHANGED <<vif, associated, gemini, stream, remover, fw, loop, irq, out>>

-----------------------------------------------------------------------------
\* tx_work_locked has sent a data frame of the interface
TxActivity ==
    /\ state = "ON" /\ MutexFree
    /\ RearmRxStreaming
    /\ UNCHANGED <<state, vif, associated, gemini, remover, fw, loop, irq, out>>

Streaming ==
    /\ \/ MutexFree /\ (EnableWork \/ DisableWork)
       \/ MutexFree /\ \E to \in {"yes", "no"} : Associate(to)
       \/ TimerFires
    /\ UNCHANGED <<fw, loop, irq, out>>

Remove ==
    /\ (MutexFree /\ Unlink) \/ DeleteTimer \/ CancelWorks
    /\ UNCHANGED <<fw, loop, irq, out>>

Irq ==
    \/ IrqEnter \/ IrqStatus \/ IrqFails \/ RxDone \/ IrqEvent \/ IrqFlush
    \/ \E n \in 1 .. Descs - 1 : RxRead(n)
    \/ \E queued \in BOOLEAN, data \in {"yes", "no"} : RxHandleData(queued, data)
    \/ \E txLen \in 0 .. DeferLimit + 1 : IrqDefer(txLen)

Netstack == NetstackStart \/ NetstackWork

Stop == StopOff \/ StopFlush \/ StopReset \/ Boot

Next ==
    \/ FwReceive \/ Irq \/ Netstack \/ Stop \/ QueueRecovery
    \/ TxActivity \/ Streaming \/ Remove

Spec == Init /\ [][Next]_vars

\* the interrupt thread and the works run, a requested recovery does, and a
\* removal that has begun ends
Fairness ==
    /\ WF_vars(Irq) /\ WF_vars(Netstack) /\ WF_vars(Stop)
    /\ WF_vars((state = "RESTARTING" \/ remover # "idle") /\ Remove)

FairSpec == Spec /\ Fairness

-----------------------------------------------------------------------------
Range(s) == {s[i] : i \in DOMAIN s}

InHand == Range(hand) \ {0}

Packets == 1 .. arrived

TypeOK ==
    /\ StreamTypeOK
    /\ arrived \in 0 .. MaxPackets /\ ring \in [Slots -> 0 .. MaxPackets]
    /\ fwCount \in 0 .. CntMod - 1 /\ fwFreed \in 0 .. CntMod - 1
    /\ rx_counter \in 0 .. CntMod - 1
    /\ unread \subseteq Packets /\ fwIntr \in {"none", "raised"}
    /\ status \in [count : 0 .. CntMod - 1, ring : [Slots -> 0 .. MaxPackets]]
    /\ irq \in {"idle", "status", "rx", "split", "defer", "flush", "event"}
    /\ active \in {"yes", "no"} /\ netstack \in {"idle", "running"}
    /\ pending \in {"yes", "no"} /\ hand \in [Threads -> 0 .. MaxPackets]
    /\ done \subseteq Packets /\ lost \subseteq Packets

\* Every packet that arrived is in exactly one place: the firmware's memory,
\* the aggregation buffer, the deferred queue, the hands of a thread, with
\* mac80211 or dropped; none is delivered twice, by two flushes that meet or by
\* a stale descriptor that is read again after a restart.
PacketInOnePlace ==
    LET places == <<unread, Range(buf), Range(deferred), InHand, done, lost>>
    IN  /\ UNION Range(places) = Packets
        /\ \A i, j \in 1 .. 6 : i # j => places[i] \cap places[j] = {}
        /\ \A t, u \in Threads : hand[t] = hand[u] /\ hand[t] # 0 => t = u

\* A frame is overtaken on its way to mac80211 only while another thread has it
\* in hand: the aggregation, the queue and the flushes keep the order.
OnlyInHandOvertaken ==
    \A p \in done, q \in Packets :
        q < p => q \in done \cup lost \cup InHand

\* When op_stop_locked is through, no thread has a frame of the old firmware:
\* mac80211 gets none after the driver told it that the device is stopped.
NoneAfterStop ==
    remover = "boot" => deferred = <<>> /\ InHand = {} /\ netstack = "idle"

\* Every packet is handed over or dropped in the end, by whichever thread gets
\* it; none is left on the queue with no work to look at it.
EveryPacketHandled ==
    \A p \in 1 .. MaxPackets : arrived >= p ~> p \in done \cup lost
=============================================================================
