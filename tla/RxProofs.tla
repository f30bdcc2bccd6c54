------------------------------ MODULE RxProofs ------------------------------
(***************************************************************************)
(* What the stop of the device and the removal of its interface leave      *)
(* behind on the receive side, and where every received packet is, for any *)
(* number of packets and descriptors, any width of the counters and any    *)
(* length of the queues.                                                   *)
(***************************************************************************)
EXTENDS Rx, TLAPS

(***************************************************************************)
(* The inductive invariant.  TimerGone needs that between the deletion of  *)
(* the timer and the cancellation of the work that could start it again,   *)
(* that work cannot get the firmware to stream: user space has             *)
(* disassociated, or the chip restarts and takes no command.  NoneAfterStop*)
(* needs which thread may hold a frame at which of its steps.              *)
(***************************************************************************)

Leaving == {"timer", "enable", "disable"}
Stopped == {"flush", "cancel", "boot"}

\* the interface and the thread that removes it
RemoverOK ==
    /\ remover = "idle" => vif = "up"
    /\ remover \in Leaving => vif = "leaving"
    /\ remover \in Stopped \cup {"stop"} => vif = "down"
    /\ remover # "idle" /\ state = "ON" => associated = "no"

\* what the removal has deleted and cancelled stays so
CancelledOK ==
    /\ remover \notin {"idle", "timer"} => timer = "off"
    /\ remover \notin {"idle", "timer", "enable"} => "enable" \notin works
    /\ remover \in Stopped \cup {"stop"} => works = {}

\* once the state is OFF the interrupt thread is out, and the queue is flushed
\* before netstack_work is cancelled
StoppedOK ==
    /\ remover \in Stopped => state = "OFF" /\ irq = "idle"
    /\ remover \in {"cancel", "boot"} => deferred = <<>>
    /\ remover = "boot" => netstack = "idle" /\ pending = "no"

\* a thread has a frame in hand only while it flushes
HandOK ==
    /\ DOMAIN hand = Threads
    /\ irq # "flush" => hand["irq"] = 0
    /\ netstack = "idle" => hand["netstack"] = 0
    /\ remover # "flush" => hand["stop"] = 0

IInv ==
    /\ StreamTypeOK /\ netstack \in {"idle", "running"}
    /\ RemoverOK /\ CancelledOK /\ StoppedOK /\ HandOK /\ StreamingEnds

-----------------------------------------------------------------------------
\* the interrupt thread reads, splits and looks at the events
LEMMA IrqStep ==
    ASSUME IInv,
           \/ IrqEnter \/ IrqStatus \/ IrqFails \/ RxDone \/ IrqEvent
           \/ \E n \in 1 .. Descs - 1 : RxRead(n)
           \/ \E queued \in BOOLEAN, data \in {"yes", "no"} :
                 RxHandleData(queued, data)
           \/ \E txLen \in 0 .. DeferLimit + 1 : IrqDefer(txLen)
    PROVE  IInv'
<1> USE DEF IInv, StreamTypeOK, RemoverOK, CancelledOK, StoppedOK, HandOK,
            StreamingEnds, Leaving, Stopped, Threads, svars, stream, fw, loop, out
<1>1. CASE IrqEnter \/ IrqStatus
  <2>1. CASE IrqEnter
    BY <2>1 DEF IrqEnter
  <2>2. CASE IrqStatus
    BY <2>2 DEF IrqStatus
  <2>3. QED
    BY <1>1, <2>1, <2>2
<1>2. CASE IrqFails
  BY <1>2 DEF IrqFails
<1>3. CASE RxDone
  BY <1>3, ZenonT(30) DEF RxDone, RearmRxStreaming
<1>4. CASE IrqEvent
  <2>1. CASE SoftGemini
    BY <1>4, <2>1 DEF IrqEvent, SoftGemini, SetRxStreaming
  <2>2. CASE UNCHANGED svars
    BY <1>4, <2>2 DEF IrqEvent
  <2>3. QED
    BY <1>4, <2>1, <2>2 DEF IrqEvent
<1>5. CASE \E n \in 1 .. Descs - 1 : RxRead(n)
  BY <1>5 DEF RxRead
<1>6. CASE \E queued \in BOOLEAN, data \in {"yes", "no"} :
              RxHandleData(queued, data)
  BY <1>6 DEF RxHandleData
<1>7. CASE \E txLen \in 0 .. DeferLimit + 1 : IrqDefer(txLen)
  BY <1>7 DEF IrqDefer
<1>8. QED
  BY <1>1, <1>2, <1>3, <1>4, <1>5, <1>6, <1>7

\* the three threads that flush the deferred queue
LEMMA FlushStep ==
    ASSUME IInv, IrqFlush \/ Netstack \/ StopFlush
    PROVE  IInv'
<1> USE DEF IInv, StreamTypeOK, RemoverOK, CancelledOK, StoppedOK, HandOK,
            StreamingEnds, Leaving, Stopped, Threads, svars, stream, fw, loop,
            Flush, Flushed
<1>1. CASE IrqFlush
  BY <1>1 DEF IrqFlush
<1>2. CASE NetstackStart
  BY <1>2 DEF NetstackStart
<1>3. CASE NetstackWork
  BY <1>3 DEF NetstackWork
<1>4. CASE StopFlush
  BY <1>4 DEF StopFlush
<1>5. QED
  BY <1>1, <1>2, <1>3, <1>4 DEF Netstack

\* traffic and the works of the streaming
LEMMA StreamStep ==
    ASSUME IInv, TxActivity \/ Streaming
    PROVE  IInv'
<1> USE DEF IInv, StreamTypeOK, RemoverOK, CancelledOK, StoppedOK, HandOK,
            StreamingEnds, Leaving, Stopped, Threads, svars, stream, fw, loop, out
<1>1. CASE TxActivity
  BY <1>1 DEF TxActivity, RearmRxStreaming
<1>2. ASSUME EnableWork, UNCHANGED <<fw, loop, irq, out>> PROVE IInv'
  BY <1>2 DEF EnableWork, SetRxStreaming
<1>3. ASSUME DisableWork, UNCHANGED <<fw, loop, irq, out>> PROVE IInv'
  BY <1>3 DEF DisableWork, SetRxStreaming
<1>4. ASSUME NEW to \in {"yes", "no"}, Associate(to),
             UNCHANGED <<fw, loop, irq, out>>
      PROVE  IInv'
  BY <1>4 DEF Associate
<1>5. ASSUME TimerFires, UNCHANGED <<fw, loop, irq, out>> PROVE IInv'
  BY <1>5 DEF TimerFires
<1>6. QED
  BY <1>1, <1>2, <1>3, <1>4, <1>5 DEF Streaming

\* the interface is removed, the chip stopped, and both come back
LEMMA RemoveStep ==
    ASSUME IInv,
           \/ Remove \/ StopOff \/ StopReset \/ Boot
           \/ QueueRecovery \/ FwReceive
    PROVE  IInv'
<1> USE DEF IInv, StreamTypeOK, RemoverOK, CancelledOK, StoppedOK, HandOK,
            StreamingEnds, Leaving, Stopped, Threads, svars, stream, fw, loop,
            out, MutexFree
<1>1. CASE Remove
  <2>1. CASE Unlink
    BY <1>1, <2>1 DEF Remove, Unlink
  <2>2. CASE DeleteTimer
    BY <1>1, <2>2 DEF Remove, DeleteTimer
  <2>3. CASE CancelWorks
    BY <1>1, <2>3 DEF Remove, CancelWorks
  <2>4. QED
    BY <1>1, <2>1, <2>2, <2>3 DEF Remove
<1>2. CASE StopOff
  BY <1>2 DEF StopOff
<1>3. CASE StopReset
  BY <1>3 DEF StopReset
<1>4. CASE Boot
  BY <1>4 DEF Boot, AddInterface
<1>5. CASE QueueRecovery
  BY <1>5 DEF QueueRecovery
<1>6. CASE FwReceive
  BY <1>6 DEF FwReceive
<1>7. QED
  BY <1>1, <1>2, <1>3, <1>4, <1>5, <1>6

LEMMA Inductive ==
    /\ Init => IInv
    /\ IInv /\ [Next]_vars => IInv'
<1>1. Init => IInv
  BY DEF Init, StreamInit, IInv, StreamTypeOK, RemoverOK, CancelledOK,
         StoppedOK, HandOK, StreamingEnds, Leaving, Stopped, Threads
<1>2. ASSUME IInv, UNCHANGED vars PROVE IInv'
  BY <1>2 DEF vars, svars, fw, loop, out, IInv, StreamTypeOK, RemoverOK,
              CancelledOK, StoppedOK, HandOK, StreamingEnds
<1>3. ASSUME IInv, Next PROVE IInv'
  BY <1>3, IrqStep, FlushStep, StreamStep, RemoveStep DEF Next, Irq, Stop
<1>4. QED
  BY <1>1, <1>2, <1>3

-----------------------------------------------------------------------------
\* Streaming always has an end: the timer runs or the work that stops it is
\* queued (StreamingEnds).
THEOREM StreamingStops == Spec => []StreamingEnds
<1>1. IInv => StreamingEnds
  BY DEF IInv
<1>2. QED
  BY <1>1, Inductive, PTL DEF Spec

\* The removal of an interface leaves no timer and no work of its streaming
\* (TimerGone), although it deletes and cancels them one by one, without the
\* mutex, while they may still run.
THEOREM NoTimerLeft == Spec => []TimerGone
<1>1. IInv => TimerGone
  BY DEF IInv, StreamTypeOK, RemoverOK, CancelledOK, TimerGone, Leaving, Stopped
<1>2. QED
  BY <1>1, Inductive, PTL DEF Spec

\* When op_stop_locked is through, no thread has a received frame left to hand
\* over (NoneAfterStop), however the three flushes met.
THEOREM StopIsFinal == Spec => []NoneAfterStop
<1>1. IInv => NoneAfterStop
  BY DEF IInv, StoppedOK, HandOK, NoneAfterStop, InHand, Range, Threads, Stopped
<1>2. QED
  BY <1>1, Inductive, PTL DEF Spec

-----------------------------------------------------------------------------
(* Arithmetic of the free-running counters                                  *)

\* the quotient and the remainder that TLA+ defines
LEMMA DivMod ==
    ASSUME NEW a \in Int, NEW m \in Nat \ {0}
    PROVE  a % m \in 0 .. m - 1 /\ a \div m \in Int
           /\ a = m * (a \div m) + (a % m)
OBVIOUS

\* no multiple of m but 0 is closer to 0 than m
LEMMA Small ==
    ASSUME NEW m \in Nat \ {0}, NEW q \in Int, NEW d \in Int,
           m * q = d, d < m, -m < d
    PROVE  q = 0 /\ d = 0
<1>1. CASE q >= 1
  <2>1. m * q >= m
    BY <1>1
  <2>2. QED
    BY <2>1
<1>2. CASE q <= -1
  <2>1. m * q <= -m
    BY <1>2
  <2>2. QED
    BY <2>1
<1>3. CASE q = 0
  BY <1>3
<1>4. QED
  BY <1>1, <1>2, <1>3

\* the remainder is the only one in its range
LEMMA ModUnique ==
    ASSUME NEW m \in Nat \ {0}, NEW q \in Int, NEW r \in 0 .. m - 1,
           NEW a \in Int, a = m * q + r
    PROVE  a % m = r
<1> DEFINE p == a \div m
           s == a % m
<1>1. s \in 0 .. m - 1 /\ p \in Int /\ a = m * p + s
  BY DivMod
<1> HIDE DEF p, s
<1>2. m * (p - q) = r - s
  BY <1>1
<1>3. r - s < m /\ -m < r - s
  BY <1>1
<1>4. r - s = 0
  <2> DEFINE k == p - q
             d == r - s
  <2>1. k \in Int /\ d \in Int
    BY <1>1
  <2>2. m * k = d /\ d < m /\ -m < d
    BY <1>2, <1>3
  <2> HIDE DEF k, d
  <2>3. d = 0
    BY <2>1, <2>2, Small
  <2>4. QED
    BY <2>3 DEF d
<1>5. QED
  BY <1>1, <1>4 DEF s

\* a counter that wraps may be added to as if it did not
LEMMA ModAdd ==
    ASSUME NEW m \in Nat \ {0}, NEW a \in Int, NEW k \in Int
    PROVE  ((a % m) + k) % m = (a + k) % m
<1> DEFINE b == (a % m) + k
<1>1. a % m \in 0 .. m - 1 /\ a \div m \in Int /\ a = (m * (a \div m)) + (a % m)
  BY DivMod
<1>2. b \in Int
  BY <1>1
<1>3. b % m \in 0 .. m - 1 /\ b \div m \in Int /\ b = (m * (b \div m)) + (b % m)
  BY <1>2, DivMod
<1> DEFINE q == (a \div m) + (b \div m)
           r == b % m
           t == a + k
<1>4. q \in Int /\ r \in 0 .. m - 1 /\ t \in Int /\ t = m * q + r
  BY <1>1, <1>3
<1> HIDE DEF b, q, r, t
<1>5. t % m = r
  BY <1>4, ModUnique
<1>6. QED
  BY <1>5 DEF b, r, t

\* remainders differ by what the numbers do, up to a multiple
LEMMA ModDiff ==
    ASSUME NEW m \in Nat \ {0}, NEW a \in Int, NEW b \in Int
    PROVE  \E q \in Int : (b % m) - (a % m) = m * q + (b - a)
<1> DEFINE p == a \div m
           q == b \div m
           r == a % m
           s == b % m
<1>1. r \in Int /\ p \in Int /\ a = m * p + r
  BY DivMod
<1>2. s \in Int /\ q \in Int /\ b = m * q + s
  BY DivMod
<1> HIDE DEF p, q, r, s
<1>3. p - q \in Int /\ m * (p - q) = m * p - m * q
  BY <1>1, <1>2
<1>4. s - r = m * (p - q) + (b - a)
  BY <1>1, <1>2, <1>3
<1>5. QED
  BY <1>3, <1>4 DEF r, s

\* a remainder modulo a multiple of d shows the one modulo d
LEMMA ModMul ==
    ASSUME NEW d \in Nat \ {0}, NEW K \in Int, NEW p \in Int, NEW q \in Int,
           NEW r \in 0 .. d - 1, NEW a \in Int, a = (d * K) * p + (d * q + r)
    PROVE  a % d = r
<1> DEFINE e == K * p + q
<1>1. (d * K) * p = d * (K * p)
  OBVIOUS
<1>2. K * p \in Int /\ e \in Int
  OBVIOUS
<1>3. d * e = d * (K * p) + d * q
  BY <1>2
<1>4. a = d * e + r
  BY <1>1, <1>2, <1>3
<1> HIDE DEF e
<1>5. QED
  BY <1>2, <1>4, ModUnique

\* the width of the counter is a multiple of the length of the ring
LEMMA ModMod ==
    ASSUME NEW d \in Nat \ {0}, NEW c \in Nat \ {0}, c % d = 0, NEW a \in Int
    PROVE  (a % c) % d = a % d
<1> DEFINE s == a % c
           K == c \div d
           p == a \div c
           q == s \div d
           r == s % d
<1>1. s \in 0 .. c - 1 /\ p \in Int /\ a = c * p + s
  BY DivMod
<1>2. K \in Int /\ c = d * K
  BY DivMod
<1>3. r \in 0 .. d - 1 /\ q \in Int /\ s = d * q + r
  BY <1>1, DivMod
<1> HIDE DEF s, K, p, q, r
<1>4. a = (d * K) * p + (d * q + r)
  BY <1>1, <1>2, <1>3
<1>5. a % d = r
  BY <1>1, <1>2, <1>3, <1>4, ModMul
<1>6. QED
  BY <1>5 DEF s, r

\* the difference of two counters is that of the numbers of packets, as long as
\* it is less than the ring has slots
LEMMA CountDiff ==
    ASSUME NEW a \in Int, NEW b \in Int, b - a \in 0 .. Descs - 1
    PROVE  /\ ((b % CntMod) - (a % CntMod)) % CntMod = b - a
           /\ ((b % CntMod) - (a % CntMod)) % Descs = b - a
<1> DEFINE e == (b % CntMod) - (a % CntMod)
           x == b - a
<1>1. Descs \in Nat \ {0} /\ CntMod \in Nat \ {0} /\ CntMod % Descs = 0
  BY RingAssumption
<1>2. x \in 0 .. Descs - 1 /\ x \in 0 .. CntMod - 1 /\ b - a = x
  BY <1>1
<1>3. e \in Int
  BY <1>1, DivMod
<1>4. PICK q \in Int : e = CntMod * q + x
  BY <1>1, ModDiff
<1> HIDE DEF e, x
<1>5. e % CntMod = x
  BY <1>1, <1>2, <1>3, <1>4, ModUnique
<1>6. (e % CntMod) % Descs = e % Descs
  BY <1>1, <1>3, ModMod
<1>7. x % Descs = x
  BY <1>1, <1>2
<1>8. QED
  BY <1>5, <1>6, <1>7 DEF e, x

\* a counter finds the slot its number of packets would find
LEMMA CountSlot ==
    ASSUME NEW a \in Int, NEW k \in Int
    PROVE  ((a % CntMod) + k) % Descs = (a + k) % Descs
<1> DEFINE e == (a % CntMod) + k
<1>1. Descs \in Nat \ {0} /\ CntMod \in Nat \ {0} /\ CntMod % Descs = 0
  BY RingAssumption
<1>2. e % CntMod = (a + k) % CntMod
  BY <1>1, ModAdd
<1>3. e \in Int /\ a + k \in Int
  BY <1>1, DivMod
<1> HIDE DEF e
<1>4. (e % CntMod) % Descs = e % Descs
  BY <1>1, <1>3, ModMod
<1>5. ((a + k) % CntMod) % Descs = (a + k) % Descs
  BY <1>1, <1>3, ModMod
<1>6. QED
  BY <1>2, <1>4, <1>5 DEF e

\* the counters count
LEMMA CountAdd ==
    ASSUME NEW a \in Int, NEW k \in Int
    PROVE  ((a % CntMod) + k) % CntMod = (a + k) % CntMod
<1>1. CntMod \in Nat \ {0}
  BY RingAssumption
<1>2. QED
  BY <1>1, ModAdd

\* packets less than a ring apart have different slots
LEMMA SlotsDiffer ==
    ASSUME NEW a \in Int, NEW b \in Int, b - a \in 1 .. Descs - 1
    PROVE  a % Descs # b % Descs
<1>1. Descs \in Nat \ {0}
  BY RingAssumption
<1> DEFINE e == (b % Descs) - (a % Descs)
           x == b - a
<1>2. e \in Int /\ x \in 0 .. Descs - 1 /\ b - a = x /\ x # 0
  BY <1>1, DivMod
<1>3. PICK q \in Int : e = Descs * q + x
  BY <1>1, ModDiff
<1> HIDE DEF e, x
<1>4. e % Descs = x
  BY <1>1, <1>2, <1>3, ModUnique
<1>5. e # 0
  BY <1>1, <1>2, <1>4
<1>6. QED
  BY <1>1, <1>5, DivMod DEF e

LEMMA SlotOK ==
    ASSUME NEW a \in Int
    PROVE  a % Descs \in Slots
BY RingAssumption, DivMod DEF Slots

-----------------------------------------------------------------------------
(***************************************************************************)
(* Where the packets are.  The counters of the driver and of the firmware  *)
(* wrap, and the driver knows the ring only by the copy of the last        *)
(* status, so the invariant names the true numbers of packets behind them: *)
(* b of the packets arrived before the last boot, f are freed, r are taken *)
(* from the buffer and s were there when the status was read.  Each        *)
(* counter is one of these numbers less b, modulo its width; a slot of the *)
(* ring holds the packet whose number leads to it.  What was read is with  *)
(* mac80211, dropped, in a hand or on the queue, and the queue has the     *)
(* newest of it, in order.                                                 *)
(***************************************************************************)

RingTypeOK ==
    /\ arrived \in Nat /\ buf \in Seq(Nat) /\ ring \in [Slots -> Nat]
    /\ status \in [count : Int, ring : [Slots -> Nat]]
    /\ irq = "split" <=> buf # <<>>

\* the numbers of packets are in order, and one descriptor is always free
OrderOK(f, r, s) ==
    /\ f <= r + Len(buf) /\ r + Len(buf) <= s /\ s <= arrived
    /\ arrived - f < Descs

\* the counters are those numbers since the boot, modulo their width
CountersOK(b, f, r, s) ==
    /\ fwCount = (arrived - b) % CntMod /\ fwFreed = (f - b) % CntMod
    /\ rx_counter = (r - b) % CntMod /\ status.count = (s - b) % CntMod

\* the descriptors the firmware may not use again, those the last status shows
\* and the driver has not taken, the buffer and the memory of the firmware
RingOK(b, f) == \A p \in f + 1 .. arrived : ring[(p - b - 1) % Descs] = p
StatusOK(b, r, s) == \A p \in r + 1 .. s : status.ring[(p - b - 1) % Descs] = p
BufOK(r) == \A i \in 1 .. Len(buf) : buf[i] = r + i
UnreadOK(r) == unread = r + Len(buf) + 1 .. arrived

CountsOK(b, f, r, s) ==
    /\ OrderOK(f, r, s) /\ CountersOK(b, f, r, s)
    /\ RingOK(b, f) /\ StatusOK(b, r, s) /\ BufOK(r) /\ UnreadOK(r)

\* the r packets that were taken from the buffer
PlacesOK(r) ==
    /\ done \subseteq 1 .. r /\ lost \subseteq 1 .. r
    /\ hand \in [Threads -> 0 .. r] /\ deferred \in Seq(1 .. r)
    /\ \A p \in 1 .. r : \/ p \in done \/ p \in lost
                         \/ \E t \in Threads : hand[t] = p
                         \/ \E i \in 1 .. Len(deferred) : deferred[i] = p
    /\ done \cap lost = {}
    /\ \A t \in Threads : hand[t] \notin done \cup lost
    /\ \A t, u \in Threads : hand[t] = hand[u] /\ hand[t] # 0 => t = u
    /\ \A i, j \in 1 .. Len(deferred) : i < j => deferred[i] < deferred[j]
    /\ \A i \in 1 .. Len(deferred) :
         /\ deferred[i] \notin lost
         /\ \A p \in done : p < deferred[i]
         /\ \A t \in Threads : hand[t] < deferred[i]

RingInv ==
    /\ RingTypeOK
    /\ \E b, f, r, s \in 0 .. arrived : CountsOK(b, f, r, s) /\ PlacesOK(r)

-----------------------------------------------------------------------------
\* a thread takes the oldest frame of the queue, or hands the one it has over
LEMMA FlushPlaces ==
    ASSUME NEW r \in Nat, PlacesOK(r), NEW t \in Threads, Flush(t), lost' = lost
    PROVE  PlacesOK(r)'
<1>1. CASE /\ hand[t] = 0 /\ deferred # <<>>
           /\ hand' = [hand EXCEPT ![t] = Head(deferred)]
           /\ deferred' = Tail(deferred)
           /\ UNCHANGED done
  <2>1. /\ Len(deferred) \in Nat \ {0} /\ Len(deferred') = Len(deferred) - 1
        /\ deferred' \in Seq(1 .. r) /\ Head(deferred) = deferred[1]
        /\ deferred[1] \in 1 .. r
        /\ \A i \in 1 .. Len(deferred') : deferred'[i] = deferred[i + 1]
    BY <1>1 DEF PlacesOK
  <2>2. hand' \in [Threads -> 0 .. r] /\ hand'[t] = deferred[1]
        /\ \A u \in Threads \ {t} : hand'[u] = hand[u]
    BY <1>1, <2>1 DEF PlacesOK
  <2>3. ASSUME NEW p \in 1 .. r
        PROVE  \/ p \in done' \/ p \in lost'
               \/ \E u \in Threads : hand'[u] = p
               \/ \E i \in 1 .. Len(deferred') : deferred'[i] = p
    <3>1. CASE \E u \in Threads : hand[u] = p
      BY <1>1, <2>2, <3>1
    <3>2. ASSUME NEW i \in 1 .. Len(deferred), deferred[i] = p
          PROVE  \/ \E u \in Threads : hand'[u] = p
                 \/ \E j \in 1 .. Len(deferred') : deferred'[j] = p
      <4>1. CASE i = 1
        BY <2>2, <3>2, <4>1
      <4>2. CASE i # 1
        <5>1. i - 1 \in 1 .. Len(deferred') /\ deferred'[i - 1] = p
          BY <2>1, <3>2, <4>2
        <5>2. QED
          BY <5>1
      <4>3. QED
        BY <4>1, <4>2
    <3>3. QED
      BY <1>1, <3>1, <3>2 DEF PlacesOK
  <2>4. \A u \in Threads : hand'[u] \notin done' \cup lost'
    BY <1>1, <2>1, <2>2 DEF PlacesOK
  <2>5. \A u, v \in Threads : hand'[u] = hand'[v] /\ hand'[u] # 0 => u = v
    BY <1>1, <2>1, <2>2 DEF PlacesOK
  <2>6. ASSUME NEW i \in 1 .. Len(deferred'), NEW j \in 1 .. Len(deferred'), i < j
        PROVE  deferred'[i] < deferred'[j]
    <3>1. i + 1 \in 1 .. Len(deferred) /\ j + 1 \in 1 .. Len(deferred) /\ i + 1 < j + 1
      BY <2>1, <2>6
    <3>2. deferred[i + 1] < deferred[j + 1]
      BY <3>1 DEF PlacesOK
    <3>3. QED
      BY <2>1, <3>2
  <2>7. ASSUME NEW i \in 1 .. Len(deferred')
        PROVE  /\ deferred'[i] \notin lost'
               /\ \A p \in done' : p < deferred'[i]
               /\ \A u \in Threads : hand'[u] < deferred'[i]
    <3>1. i + 1 \in 1 .. Len(deferred) /\ 1 \in 1 .. Len(deferred) /\ 1 < i + 1
      BY <2>1
    <3>2. deferred[1] < deferred[i + 1] /\ deferred'[i] = deferred[i + 1]
      BY <2>1, <3>1 DEF PlacesOK
    <3>3. QED
      BY <1>1, <2>2, <3>1, <3>2 DEF PlacesOK
  <2>8. QED
    BY <1>1, <2>1, <2>2, <2>3, <2>4, <2>5, <2>6, <2>7 DEF PlacesOK
<1>2. CASE /\ hand[t] # 0
           /\ done' = done \cup {hand[t]}
           /\ hand' = [hand EXCEPT ![t] = 0]
           /\ UNCHANGED deferred
  <2>1. /\ hand' \in [Threads -> 0 .. r] /\ hand'[t] = 0 /\ hand[t] \in 1 .. r
        /\ \A u \in Threads \ {t} : hand'[u] = hand[u]
    BY <1>2 DEF PlacesOK
  <2>2. ASSUME NEW p \in 1 .. r
        PROVE  \/ p \in done' \/ p \in lost'
               \/ \E u \in Threads : hand'[u] = p
               \/ \E i \in 1 .. Len(deferred') : deferred'[i] = p
    BY <1>2, <2>1 DEF PlacesOK
  <2>3. \A u \in Threads : hand'[u] \notin done' \cup lost'
    BY <1>2, <2>1 DEF PlacesOK
  <2>4. \A u, v \in Threads : hand'[u] = hand'[v] /\ hand'[u] # 0 => u = v
    BY <1>2, <2>1 DEF PlacesOK
  <2>5. ASSUME NEW i \in 1 .. Len(deferred')
        PROVE  /\ deferred'[i] \notin lost'
               /\ \A p \in done' : p < deferred'[i]
               /\ \A u \in Threads : hand'[u] < deferred'[i]
    BY <1>2, <2>1 DEF PlacesOK
  <2>6. done' \subseteq 1 .. r /\ done' \cap lost' = {}
    BY <1>2, <2>1 DEF PlacesOK
  <2>7. QED
    BY <1>2, <2>1, <2>2, <2>3, <2>4, <2>5, <2>6 DEF PlacesOK
<1>3. QED
  BY <1>1, <1>2 DEF Flush

LEMMA SamePlaces ==
    ASSUME NEW r, PlacesOK(r), UNCHANGED <<hand, deferred, done, lost>>
    PROVE  PlacesOK(r)'
BY DEF PlacesOK

\* the next packet of the buffer goes to the end of the queue, or is dropped
LEMMA QueuePlaces ==
    ASSUME NEW r \in Nat, PlacesOK(r), UNCHANGED <<hand, done>>,
           \/ deferred' = Append(deferred, r + 1) /\ lost' = lost
           \/ deferred' = deferred /\ lost' = lost \cup {r + 1}
    PROVE  PlacesOK(r + 1)'
<1>1. done' \subseteq 1 .. r + 1 /\ lost' \subseteq 1 .. r + 1
  <2>1. 1 .. r \subseteq 1 .. r + 1 /\ r + 1 \in 1 .. r + 1
    OBVIOUS
  <2>2. done \subseteq 1 .. r /\ lost \subseteq 1 .. r
    BY DEF PlacesOK
  <2>3. QED
    BY <2>1, <2>2
<1>2. done' \cap lost' = {}
  <2>1. r + 1 \notin done
    BY DEF PlacesOK
  <2>2. QED
    BY <2>1 DEF PlacesOK
<1>3. hand' \in [Threads -> 0 .. r + 1]
  BY DEF PlacesOK
<1>4. \A t, u \in Threads : hand'[t] = hand'[u] /\ hand'[t] # 0 => t = u
  BY DEF PlacesOK
<1>5. ASSUME NEW t \in Threads PROVE hand'[t] \notin done' \cup lost'
  <2>1. hand[t] \in 0 .. r
    BY DEF PlacesOK
  <2>2. QED
    BY <2>1 DEF PlacesOK
<1>6. CASE deferred' = Append(deferred, r + 1) /\ lost' = lost
  <2>1. /\ deferred' \in Seq(1 .. r + 1) /\ Len(deferred') = Len(deferred) + 1
        /\ Len(deferred) \in Nat
        /\ \A i \in 1 .. Len(deferred) :
             deferred'[i] = deferred[i] /\ deferred[i] \in 1 .. r
        /\ deferred'[Len(deferred) + 1] = r + 1
    <3>1. deferred \in Seq(1 .. r + 1) /\ r + 1 \in 1 .. r + 1
      BY DEF PlacesOK
    <3>2. \A i \in 1 .. Len(deferred) : deferred[i] \in 1 .. r
      BY DEF PlacesOK
    <3>3. QED
      BY <1>6, <3>1, <3>2
  <2>2. ASSUME NEW p \in 1 .. r + 1
        PROVE  \/ p \in done' \/ p \in lost'
               \/ \E t \in Threads : hand'[t] = p
               \/ \E i \in 1 .. Len(deferred') : deferred'[i] = p
    <3>1. CASE p = r + 1
      BY <2>1, <3>1
    <3>2. CASE p # r + 1
      <4>1. p \in 1 .. r
        BY <3>2
      <4>2. ASSUME NEW i \in 1 .. Len(deferred), deferred[i] = p
            PROVE  \E j \in 1 .. Len(deferred') : deferred'[j] = p
        BY <2>1, <4>2
      <4>3. QED
        BY <1>6, <4>1, <4>2 DEF PlacesOK
    <3>3. QED
      BY <3>1, <3>2
  <2>3. ASSUME NEW i \in 1 .. Len(deferred'), NEW j \in 1 .. Len(deferred'), i < j
        PROVE  deferred'[i] < deferred'[j]
    <3>1. i \in 1 .. Len(deferred)
      BY <2>1, <2>3
    <3>2. CASE j = Len(deferred) + 1
      BY <2>1, <3>1, <3>2
    <3>3. CASE j # Len(deferred) + 1
      <4>1. j \in 1 .. Len(deferred)
        BY <2>1, <3>3
      <4>2. QED
        BY <2>1, <2>3, <3>1, <4>1 DEF PlacesOK
    <3>4. QED
      BY <3>2, <3>3
  <2>4. ASSUME NEW i \in 1 .. Len(deferred')
        PROVE  /\ deferred'[i] \notin lost'
               /\ \A p \in done' : p < deferred'[i]
               /\ \A t \in Threads : hand'[t] < deferred'[i]
    <3>1. CASE i = Len(deferred) + 1
      BY <1>6, <2>1, <3>1 DEF PlacesOK
    <3>2. CASE i # Len(deferred) + 1
      <4>1. i \in 1 .. Len(deferred)
        BY <2>1, <3>2
      <4>2. QED
        BY <1>6, <2>1, <4>1 DEF PlacesOK
    <3>3. QED
      BY <3>1, <3>2
  <2>5. QED
    BY <1>1, <1>3, <1>4, <1>5, <1>2, <2>1, <2>2, <2>3, <2>4 DEF PlacesOK
<1>7. CASE deferred' = deferred /\ lost' = lost \cup {r + 1}
  <2>1. deferred' \in Seq(1 .. r + 1)
    BY <1>7 DEF PlacesOK
  <2>2. ASSUME NEW p \in 1 .. r + 1
        PROVE  \/ p \in done' \/ p \in lost'
               \/ \E t \in Threads : hand'[t] = p
               \/ \E i \in 1 .. Len(deferred') : deferred'[i] = p
    BY <1>7 DEF PlacesOK
  <2>3. \A i, j \in 1 .. Len(deferred') : i < j => deferred'[i] < deferred'[j]
    BY <1>7 DEF PlacesOK
  <2>4. ASSUME NEW i \in 1 .. Len(deferred')
        PROVE  /\ deferred'[i] \notin lost'
               /\ \A p \in done' : p < deferred'[i]
               /\ \A t \in Threads : hand'[t] < deferred'[i]
    <3>1. deferred[i] \in 1 .. r
      BY <1>7 DEF PlacesOK
    <3>2. QED
      BY <1>7, <3>1 DEF PlacesOK
  <2>5. QED
    BY <1>1, <1>3, <1>4, <1>5, <1>2, <2>1, <2>2, <2>3, <2>4 DEF PlacesOK
<1>8. QED
  BY <1>6, <1>7

\* the firmware fills the next descriptor; it does not write over one that the
\* driver has not freed
LEMMA ReceiveStep ==
    ASSUME RingInv, FwReceive
    PROVE  RingInv'
<1>1. PICK b, f, r, s \in 0 .. arrived :
             CountsOK(b, f, r, s) /\ PlacesOK(r)
  BY DEF RingInv
<1>2. /\ arrived \in Nat /\ arrived' = arrived + 1 /\ arrived' \in Nat
      /\ buf' = buf /\ status' = status /\ rx_counter' = rx_counter
      /\ fwFreed' = fwFreed /\ irq' = irq /\ unread' = unread \cup {arrived'}
      /\ Descs \in Nat \ {0} /\ CntMod \in Nat \ {0}
  BY RingAssumption DEF FwReceive, RingInv, RingTypeOK, loop
<1>3. arrived - f < Descs - 1
  <2>1. /\ (arrived - b) - (f - b) \in 0 .. Descs - 1
        /\ arrived - b \in Int /\ f - b \in Int
    BY <1>1, <1>2 DEF CountsOK, OrderOK
  <2>2. (((arrived - b) % CntMod) - ((f - b) % CntMod)) % CntMod
          = (arrived - b) - (f - b)
    BY <2>1, CountDiff
  <2>3. fwCount = (arrived - b) % CntMod /\ fwFreed = (f - b) % CntMod
    BY <1>1 DEF CountsOK, CountersOK
  <2>4. (arrived - b) - (f - b) < Descs - 1
    BY <2>2, <2>3 DEF FwReceive
  <2>5. QED
    BY <1>1, <1>2, <2>4
<1>4. fwCount % Descs = (arrived - b) % Descs /\ fwCount % Descs \in Slots
  <2>1. fwCount = (arrived - b) % CntMod /\ fwCount \in Int /\ arrived - b \in Int
    BY <1>1, <1>2, DivMod DEF CountsOK, CountersOK
  <2>2. (((arrived - b) % CntMod) + 0) % Descs = ((arrived - b) + 0) % Descs
    BY <2>1, CountSlot
  <2>3. QED
    BY <2>1, <2>2, SlotOK
<1>5. CountersOK(b, f, r, s)'
  <2>1. arrived - b \in Int /\ (arrived - b) + 1 = arrived' - b
    BY <1>1, <1>2
  <2>2. (((arrived - b) % CntMod) + 1) % CntMod = ((arrived - b) + 1) % CntMod
    BY <2>1, CountAdd
  <2>3. QED
    BY <1>1, <1>2, <2>1, <2>2 DEF FwReceive, CountsOK, CountersOK
<1>6. ring' = [ring EXCEPT ![(arrived - b) % Descs] = arrived + 1]
      /\ (arrived - b) % Descs \in Slots
  BY <1>2, <1>4 DEF FwReceive
<1>7. ASSUME NEW p \in f + 1 .. arrived' PROVE ring'[(p - b - 1) % Descs] = p
  <2>1. CASE p = arrived + 1
    <3>1. p - b - 1 = arrived - b
      BY <1>1, <1>2, <2>1
    <3>2. QED
      BY <1>2, <1>6, <2>1, <3>1 DEF RingInv, RingTypeOK
  <2>2. CASE p # arrived + 1
    <3>1. p \in f + 1 .. arrived /\ p - b - 1 \in Int /\ arrived - b \in Int
          /\ (arrived - b) - (p - b - 1) \in 1 .. Descs - 1
      BY <1>1, <1>2, <1>3, <2>2
    <3>2. (p - b - 1) % Descs # (arrived - b) % Descs /\ (p - b - 1) % Descs \in Slots
      BY <3>1, SlotsDiffer, SlotOK
    <3>3. ring[(p - b - 1) % Descs] = p
      BY <1>1, <3>1 DEF CountsOK, RingOK
    <3>4. QED
      BY <1>6, <3>2, <3>3 DEF RingInv, RingTypeOK
  <2>3. QED
    BY <2>1, <2>2
<1>8. OrderOK(f, r, s)' /\ UnreadOK(r)'
  BY <1>1, <1>2, <1>3, SMTT(30)
     DEF CountsOK, OrderOK, UnreadOK, RingInv, RingTypeOK
<1>9. CountsOK(b, f, r, s)'
  BY <1>1, <1>2, <1>5, <1>7, <1>8 DEF CountsOK, RingOK, StatusOK, BufOK
<1>10. PlacesOK(r)'
  BY <1>1, SamePlaces DEF FwReceive, out
<1>11. RingTypeOK'
  BY <1>2, <1>6 DEF RingInv, RingTypeOK
<1>12. QED
  BY <1>1, <1>2, <1>9, <1>10, <1>11 DEF RingInv

\* the interrupt thread copies counter and ring
LEMMA StatusStep ==
    ASSUME RingInv, IrqStatus
    PROVE  RingInv'
<1>1. PICK b, f, r, s \in 0 .. arrived :
             CountsOK(b, f, r, s) /\ PlacesOK(r)
  BY DEF RingInv
<1>2. /\ arrived \in Nat /\ ring \in [Slots -> Nat] /\ buf = <<>> /\ Len(buf) = 0
      /\ UNCHANGED <<arrived, ring, fwCount, fwFreed, unread, rx_counter, buf>>
      /\ status' = [count |-> fwCount, ring |-> ring] /\ irq' # "split"
      /\ CntMod \in Nat \ {0}
  BY RingAssumption DEF RingInv, RingTypeOK, IrqStatus
<1>3. status'.count = fwCount /\ status'.ring = ring
  BY <1>2
<1>4. f <= r /\ r <= arrived /\ fwCount = (arrived - b) % CntMod
  BY <1>1, <1>2 DEF CountsOK, OrderOK, CountersOK
<1>5. OrderOK(f, r, arrived)' /\ UnreadOK(r)' /\ BufOK(r)'
  BY <1>1, <1>2 DEF CountsOK, OrderOK, UnreadOK, BufOK
<1>6. CountersOK(b, f, r, arrived)'
  BY <1>1, <1>2, <1>3 DEF CountsOK, CountersOK
<1>7. RingOK(b, f)' /\ StatusOK(b, r, arrived)'
  BY <1>1, <1>2, <1>3, <1>4 DEF CountsOK, RingOK, StatusOK
<1>8. CountsOK(b, f, r, arrived)'
  BY <1>5, <1>6, <1>7 DEF CountsOK
<1>9. PlacesOK(r)'
  BY <1>1, SamePlaces DEF IrqStatus, out
<1>10. fwCount \in Int
  BY <1>1, <1>2, <1>4, DivMod
<1>11. RingTypeOK'
  BY <1>2, <1>10 DEF RingTypeOK
<1>12. arrived' \in 0 .. arrived'
  BY <1>2
<1>13. QED
  BY <1>1, <1>2, <1>8, <1>9, <1>11, <1>12 DEF RingInv

\* what wl12xx_rx computes from the two counters is the number of packets that
\* the last status shows and that it has not taken
LEMMA WaitingIs ==
    ASSUME NEW b \in 0 .. arrived, NEW f \in 0 .. arrived, NEW r \in 0 .. arrived,
           NEW s \in 0 .. arrived, arrived \in Nat, Len(buf) = 0,
           OrderOK(f, r, s), CountersOK(b, f, r, s)
    PROVE  Waiting = s - r
<1>1. (s - b) - (r - b) \in 0 .. Descs - 1 /\ s - b \in Int /\ r - b \in Int
      /\ (s - b) - (r - b) = s - r
  BY RingAssumption DEF OrderOK
<1>2. (((s - b) % CntMod) - ((r - b) % CntMod)) % Descs = (s - b) - (r - b)
  BY <1>1, CountDiff
<1>3. QED
  BY <1>1, <1>2 DEF CountersOK, Waiting

\* wl12xx_rx reads the next packets, each by the descriptor of the copied ring
LEMMA ReadStep ==
    ASSUME RingInv, NEW n \in 1 .. Descs - 1, RxRead(n)
    PROVE  RingInv'
<1>1. PICK b, f, r, s \in 0 .. arrived :
             CountsOK(b, f, r, s) /\ PlacesOK(r)
  BY DEF RingInv
<1>2. /\ arrived \in Nat /\ buf = <<>> /\ Len(buf) = 0
      /\ UNCHANGED <<arrived, ring, fwCount, status, rx_counter>>
      /\ irq' = "split" /\ CntMod \in Nat \ {0} /\ Descs \in Nat \ {0}
      /\ n \in Nat \ {0} /\ n <= Waiting
  BY RingAssumption DEF RingInv, RingTypeOK, RxRead
<1>3. buf' = [i \in 1 .. n |-> status.ring[(rx_counter + i - 1) % Descs]]
  BY DEF RxRead
<1>4. n <= s - r
  BY <1>1, <1>2, WaitingIs DEF CountsOK
<1>5. f <= r /\ r + n <= s /\ s <= arrived /\ arrived - f < Descs
  BY <1>1, <1>2, <1>4 DEF CountsOK, OrderOK
<1>6. ASSUME NEW i \in 1 .. n PROVE buf'[i] = r + i
  <2>1. rx_counter = (r - b) % CntMod /\ r - b \in Int /\ i - 1 \in Int
    BY <1>1, <1>2 DEF CountsOK, CountersOK
  <2>2. /\ rx_counter = (r - b) % CntMod /\ rx_counter \in Int
        /\ r - b \in Int /\ i - 1 \in Int
    BY <1>2, <2>1, DivMod
  <2>3. (((r - b) % CntMod) + (i - 1)) % Descs = ((r - b) + (i - 1)) % Descs
    BY <2>2, CountSlot
  <2>4. rx_counter + i - 1 = rx_counter + (i - 1) /\ (r - b) + (i - 1) = r + i - b - 1
    BY <1>1, <2>2
  <2>5. buf'[i] = status.ring[(r + i - b - 1) % Descs]
    BY <1>3, <2>2, <2>3, <2>4
  <2>6. r + i \in r + 1 .. s
    BY <1>1, <1>2, <1>5
  <2>7. QED
    BY <1>1, <2>5, <2>6, SMTT(30) DEF CountsOK, StatusOK
<1>7. /\ buf' \in Seq(Nat) /\ Len(buf') = n /\ buf' # <<>>
  <2>1. \A i \in 1 .. n : buf'[i] \in Nat
    BY <1>1, <1>2, <1>6
  <2>2. buf' \in [1 .. n -> Nat]
    BY <1>3, <2>1
  <2>3. QED
    BY <1>2, <2>2
<1>8. unread' = r + n + 1 .. arrived
  <2>1. unread = r + 1 .. arrived
    BY <1>1, <1>2 DEF CountsOK, UnreadOK
  <2>2. {buf'[i] : i \in 1 .. n} = r + 1 .. r + n
    <3>1. ASSUME NEW p \in r + 1 .. r + n PROVE p \in {buf'[i] : i \in 1 .. n}
      <4>1. p - r \in 1 .. n /\ buf'[p - r] = p
        BY <1>1, <1>2, <1>6
      <4>2. QED
        BY <4>1
    <3>2. ASSUME NEW i \in 1 .. n PROVE buf'[i] \in r + 1 .. r + n
      BY <1>1, <1>2, <1>6
    <3>3. QED
      BY <3>1, <3>2
  <2>3. QED
    BY <1>1, <1>2, <1>5, <2>1, <2>2 DEF RxRead
<1>9. UnreadOK(r)' /\ BufOK(r)'
  BY <1>2, <1>6, <1>7, <1>8 DEF UnreadOK, BufOK
<1>10. StatusOK(b, r, s)'
  BY <1>1, <1>2 DEF CountsOK, StatusOK
<1>11. PlacesOK(r)'
  BY <1>1, SamePlaces DEF RxRead, out
<1>12. RingTypeOK'
  BY <1>2, <1>7 DEF RingInv, RingTypeOK
<1>13. CASE EndOfTransaction
  <2>1. fwFreed' = fwFreed
    BY <1>13 DEF RxRead
  <2>2. OrderOK(f, r, s)' /\ RingOK(b, f)'
    BY <1>1, <1>2, <1>5, <1>7 DEF OrderOK, CountsOK, RingOK
  <2>3. CountersOK(b, f, r, s)'
    BY <1>1, <1>2, <2>1 DEF CountsOK, CountersOK
  <2>4. QED
    BY <1>1, <1>2, <1>9, <1>10, <1>11, <1>12, <2>2, <2>3 DEF RingInv, CountsOK
<1>14. CASE ~EndOfTransaction
  <2>1. fwFreed' = (fwFreed + n) % CntMod
    BY <1>14 DEF RxRead
  <2>2. OrderOK(f + n, r, s)' /\ f + n \in 0 .. arrived /\ RingOK(b, f + n)'
    BY <1>1, <1>2, <1>5, <1>7 DEF OrderOK, CountsOK, RingOK
  <2>3. f - b \in Int /\ n \in Int /\ (f - b) + n = (f + n) - b
    BY <1>1, <1>2
  <2>4. (((f - b) % CntMod) + n) % CntMod = ((f - b) + n) % CntMod
    BY <2>3, CountAdd
  <2>5. fwFreed = (f - b) % CntMod
    BY <1>1 DEF CountsOK, CountersOK
  <2>6. fwFreed' = ((f + n) - b) % CntMod
    BY <2>1, <2>3, <2>4, <2>5
  <2>7. CountersOK(b, f + n, r, s)'
    BY <1>1, <1>2, <2>6 DEF CountsOK, CountersOK
  <2>8. CountsOK(b, f + n, r, s)'
    BY <1>9, <1>10, <2>2, <2>7 DEF CountsOK
  <2>9. QED
    BY <1>1, <1>2, <1>11, <1>12, <2>2, <2>8 DEF RingInv
<1>15. QED
  BY <1>13, <1>14

\* wl1271_rx_handle_data takes the next packet of the buffer
LEMMA HandleStep ==
    ASSUME RingInv, NEW queued \in BOOLEAN, NEW data \in {"yes", "no"},
           RxHandleData(queued, data)
    PROVE  RingInv'
<1>1. PICK b, f, r, s \in 0 .. arrived :
             CountsOK(b, f, r, s) /\ PlacesOK(r)
  BY DEF RingInv
<1>2. /\ arrived \in Nat /\ buf \in Seq(Nat) /\ buf # <<>> /\ buf' = Tail(buf)
      /\ UNCHANGED <<arrived, ring, fwCount, fwFreed, unread, status, hand, done>>
      /\ irq' = IF Tail(buf) = <<>> THEN "rx" ELSE "split"
  BY DEF RingInv, RingTypeOK, RxHandleData, fw
<1>3. /\ buf' \in Seq(Nat) /\ Len(buf) \in Nat \ {0} /\ Len(buf') = Len(buf) - 1
      /\ Head(buf) = buf[1] /\ \A i \in 1 .. Len(buf') : buf'[i] = buf[i + 1]
  BY <1>2
<1>4. /\ f <= r + Len(buf) /\ r + Len(buf) <= s /\ s <= arrived /\ arrived - f < Descs
      /\ r + 1 \in 0 .. arrived /\ r \in Nat
  BY <1>1, <1>2, <1>3 DEF CountsOK, OrderOK
<1>5. BufOK(r + 1)' /\ Head(buf) = r + 1
  <2>1. ASSUME NEW i \in 1 .. Len(buf') PROVE buf'[i] = r + 1 + i
    <3>1. i + 1 \in 1 .. Len(buf)
      BY <1>3
    <3>2. QED
      BY <1>1, <1>3, <1>4, <3>1 DEF CountsOK, BufOK
  <2>2. QED
    BY <1>1, <1>3, <2>1 DEF CountsOK, BufOK
<1>6. OrderOK(f, r + 1, s)' /\ UnreadOK(r + 1)'
  BY <1>1, <1>2, <1>3, <1>4, SMTT(30) DEF CountsOK, OrderOK, UnreadOK
<1>7. CountersOK(b, f, r + 1, s)'
  <2>1. rx_counter = (r - b) % CntMod /\ r - b \in Int /\ (r - b) + 1 = (r + 1) - b
    BY <1>1, <1>4 DEF CountsOK, CountersOK
  <2>2. (((r - b) % CntMod) + 1) % CntMod = ((r - b) + 1) % CntMod
    BY <2>1, CountAdd
  <2>3. rx_counter' = ((r + 1) - b) % CntMod
    BY <2>1, <2>2 DEF RxHandleData
  <2>4. QED
    BY <1>1, <1>2, <2>3 DEF CountsOK, CountersOK
<1>8. RingOK(b, f)' /\ StatusOK(b, r + 1, s)'
  BY <1>1, <1>2, <1>4, SMTT(30) DEF CountsOK, RingOK, StatusOK
<1>9. PlacesOK(r + 1)'
  <2>1. \/ deferred' = Append(deferred, r + 1) /\ lost' = lost
        \/ deferred' = deferred /\ lost' = lost \cup {r + 1}
    BY <1>5 DEF RxHandleData, Queued
  <2>2. QED
    BY <1>1, <1>2, <1>4, <2>1, QueuePlaces
<1>10. RingTypeOK'
  BY <1>2, <1>3 DEF RingInv, RingTypeOK
<1>11. CountsOK(b, f, r + 1, s)'
  BY <1>5, <1>6, <1>7, <1>8 DEF CountsOK
<1>12. QED
  BY <1>1, <1>2, <1>4, <1>9, <1>10, <1>11 DEF RingInv

\* wl12xx_rx is through and tells a chip that needs it
LEMMA DoneStep ==
    ASSUME RingInv, RxDone
    PROVE  RingInv'
<1>1. PICK b, f, r, s \in 0 .. arrived :
             CountsOK(b, f, r, s) /\ PlacesOK(r)
  BY DEF RingInv
<1>2. /\ arrived \in Nat /\ buf = <<>> /\ Len(buf) = 0
      /\ UNCHANGED <<arrived, ring, fwCount, unread, status, rx_counter, buf>>
      /\ UNCHANGED <<hand, deferred, done, lost>>
      /\ irq' = "defer" /\ fwFreed' \in {fwFreed, rx_counter}
  BY DEF RingInv, RingTypeOK, RxDone, out
<1>3. f <= r /\ r <= s /\ s <= arrived /\ arrived - f < Descs /\ Descs \in Nat
  BY <1>1, <1>2, RingAssumption DEF CountsOK, OrderOK
<1>4. PlacesOK(r)' /\ RingTypeOK'
  BY <1>1, <1>2, SamePlaces DEF RingInv, RingTypeOK
<1>5. StatusOK(b, r, s)' /\ BufOK(r)' /\ UnreadOK(r)'
  BY <1>1, <1>2 DEF CountsOK, StatusOK, BufOK, UnreadOK
<1>6. CASE fwFreed' = fwFreed
  <2>1. OrderOK(f, r, s)' /\ RingOK(b, f)' /\ CountersOK(b, f, r, s)'
    BY <1>1, <1>2, <1>6 DEF CountsOK, OrderOK, RingOK, CountersOK
  <2>2. QED
    BY <1>1, <1>2, <1>4, <1>5, <2>1 DEF RingInv, CountsOK
<1>7. CASE fwFreed' = rx_counter
  <2>1. OrderOK(r, r, s)' /\ RingOK(b, r)'
    BY <1>1, <1>2, <1>3 DEF CountsOK, OrderOK, RingOK
  <2>2. CountersOK(b, r, r, s)'
    BY <1>1, <1>2, <1>7 DEF CountsOK, CountersOK
  <2>3. QED
    BY <1>1, <1>2, <1>4, <1>5, <2>1, <2>2 DEF RingInv, CountsOK
<1>8. QED
  BY <1>2, <1>6, <1>7

\* the chip is powered off: what it held is lost, and all counters start anew
LEMMA ResetStep ==
    ASSUME IInv, RingInv, StopReset
    PROVE  RingInv'
<1>1. PICK b, f, r, s \in 0 .. arrived :
             CountsOK(b, f, r, s) /\ PlacesOK(r)
  BY DEF RingInv
<1>2. /\ arrived \in Nat /\ buf = <<>> /\ Len(buf) = 0
      /\ irq = "idle" /\ deferred = <<>>
      /\ UNCHANGED <<arrived, irq, deferred, hand, done>>
      /\ buf' = <<>> /\ unread' = {} /\ fwCount' = 0 /\ fwFreed' = 0 /\ rx_counter' = 0
      /\ ring' = [t \in Slots |-> 0] /\ status' = [count |-> 0, ring |-> ring']
      /\ Descs \in Nat \ {0} /\ CntMod \in Nat \ {0}
  BY RingAssumption, SMTT(30)
     DEF RingInv, RingTypeOK, StopReset, IInv, StoppedOK, Stopped
<1>3. unread = r + 1 .. arrived
  BY <1>1, <1>2 DEF CountsOK, UnreadOK
<1>4. lost' = lost \cup r + 1 .. arrived
  BY <1>2, <1>3, SMTT(30) DEF StopReset
<1>5. RingTypeOK'
  BY <1>2 DEF RingTypeOK
<1>6. OrderOK(arrived, arrived, arrived)' /\ RingOK(arrived, arrived)'
      /\ StatusOK(arrived, arrived, arrived)' /\ BufOK(arrived)' /\ UnreadOK(arrived)'
  BY <1>2 DEF OrderOK, RingOK, StatusOK, BufOK, UnreadOK
<1>7. CountersOK(arrived, arrived, arrived, arrived)'
  BY <1>2 DEF CountersOK
<1>8. PlacesOK(arrived)'
  <2>1. \A p \in 1 .. arrived : p \in 1 .. r \/ p \in r + 1 .. arrived
    BY <1>1, <1>2
  <2>2. 1 .. r \subseteq 1 .. arrived /\ 0 .. r \subseteq 0 .. arrived
        /\ r + 1 .. arrived \subseteq 1 .. arrived
        /\ \A p \in 0 .. r : p \notin r + 1 .. arrived
    BY <1>1, <1>2
  <2>3. done' \subseteq 1 .. arrived /\ lost' \subseteq 1 .. arrived
        /\ done' \cap lost' = {}
    BY <1>1, <1>2, <1>4, <2>2, SMTT(30) DEF PlacesOK
  <2>4. hand' \in [Threads -> 0 .. arrived] /\ deferred' \in Seq(1 .. arrived)
        /\ Len(deferred') = 0
    BY <1>1, <1>2, <2>2, SMTT(30) DEF PlacesOK
  <2>5. \A t \in Threads : hand'[t] \notin done' \cup lost'
    BY <1>1, <1>2, <1>4, <2>2 DEF PlacesOK
  <2>6. \A t, u \in Threads : hand'[t] = hand'[u] /\ hand'[t] # 0 => t = u
    BY <1>1, <1>2 DEF PlacesOK
  <2>7. ASSUME NEW p \in 1 .. arrived
        PROVE  p \in done' \/ p \in lost' \/ \E t \in Threads : hand'[t] = p
    BY <1>1, <1>2, <1>4, <2>1 DEF PlacesOK
  <2>8. /\ \A i, j \in 1 .. Len(deferred') : i < j => deferred'[i] < deferred'[j]
        /\ \A i \in 1 .. Len(deferred') : FALSE
    BY <2>4
  <2>9. QED
    BY <1>2, <2>3, <2>4, <2>5, <2>6, <2>7, <2>8 DEF PlacesOK
<1>9. CountsOK(arrived, arrived, arrived, arrived)'
  BY <1>6, <1>7 DEF CountsOK
<1>10. arrived' = arrived /\ arrived' \in 0 .. arrived'
  BY <1>2
<1>11. QED
  BY <1>5, <1>8, <1>9, <1>10 DEF RingInv

\* a flush moves frames, and nothing else
LEMMA FlushRing ==
    ASSUME RingInv, NEW t \in Threads, Flush(t), lost' = lost,
           UNCHANGED <<fw, loop>>, irq' = "split" <=> irq = "split"
    PROVE  RingInv'
<1>1. PICK b, f, r, s \in 0 .. arrived :
             CountsOK(b, f, r, s) /\ PlacesOK(r)
  BY DEF RingInv
<1>2. UNCHANGED <<arrived, ring, fwCount, fwFreed, unread, status, rx_counter, buf>>
  BY DEF fw, loop
<1>3. CountsOK(b, f, r, s)'
  BY <1>1, <1>2 DEF CountsOK, OrderOK, CountersOK, RingOK, StatusOK, BufOK, UnreadOK
<1>4. RingTypeOK'
  BY <1>2 DEF RingInv, RingTypeOK
<1>5. PlacesOK(r)'
  <2>1. r \in Nat
    BY <1>1 DEF RingInv, RingTypeOK
  <2>2. QED
    BY <1>1, <2>1, FlushPlaces
<1>6. QED
  BY <1>1, <1>2, <1>3, <1>4, <1>5 DEF RingInv

LEMMA SameRing ==
    ASSUME RingInv, irq' = "split" <=> irq = "split",
           UNCHANGED <<fw, status, rx_counter, buf, hand, deferred, done, lost>>
    PROVE  RingInv'
<1>1. PICK b, f, r, s \in 0 .. arrived :
             CountsOK(b, f, r, s) /\ PlacesOK(r)
  BY DEF RingInv
<1>2. UNCHANGED <<arrived, ring, fwCount, fwFreed, unread, status, rx_counter, buf>>
  BY DEF fw
<1>3. CountsOK(b, f, r, s)'
  BY <1>1, <1>2 DEF CountsOK, OrderOK, CountersOK, RingOK, StatusOK, BufOK, UnreadOK
<1>4. RingTypeOK' /\ PlacesOK(r)'
  BY <1>1, <1>2, SamePlaces DEF RingInv, RingTypeOK
<1>5. QED
  BY <1>1, <1>2, <1>3, <1>4 DEF RingInv

LEMMA RingInductive ==
    /\ Init => RingInv
    /\ IInv /\ RingInv /\ [Next]_vars => RingInv'
<1>1. ASSUME Init PROVE RingInv
  <2>1. /\ arrived = 0 /\ ring = [t \in Slots |-> 0] /\ fwCount = 0 /\ fwFreed = 0
        /\ unread = {} /\ status = [count |-> 0, ring |-> ring] /\ rx_counter = 0
        /\ irq = "idle" /\ buf = <<>> /\ deferred = <<>> /\ Len(buf) = 0
        /\ hand = [t \in Threads |-> 0] /\ done = {} /\ lost = {}
        /\ Descs \in Nat \ {0} /\ CntMod \in Nat \ {0}
    BY <1>1, RingAssumption DEF Init
  <2>2. RingTypeOK
    BY <2>1 DEF RingTypeOK
  <2>3. OrderOK(0, 0, 0) /\ RingOK(0, 0) /\ StatusOK(0, 0, 0) /\ BufOK(0) /\ UnreadOK(0)
    BY <2>1 DEF OrderOK, RingOK, StatusOK, BufOK, UnreadOK
  <2>4. CountersOK(0, 0, 0, 0)
    BY <2>1 DEF CountersOK
  <2>5. PlacesOK(0)
    BY <2>1 DEF PlacesOK
  <2>6. 0 \in 0 .. arrived
    BY <2>1
  <2>7. QED
    BY <2>2, <2>3, <2>4, <2>5, <2>6 DEF RingInv, CountsOK
<1>2. ASSUME IInv, RingInv, Next PROVE RingInv'
  <2>1. CASE FwReceive
    BY <1>2, <2>1, ReceiveStep
  <2>2. CASE Irq
    <3>1. CASE IrqStatus
      BY <1>2, <3>1, StatusStep
    <3>2. CASE \E n \in 1 .. Descs - 1 : RxRead(n)
      BY <1>2, <3>2, ReadStep
    <3>3. CASE \E queued \in BOOLEAN, data \in {"yes", "no"} :
                 RxHandleData(queued, data)
      BY <1>2, <3>3, HandleStep
    <3>4. CASE RxDone
      BY <1>2, <3>4, DoneStep
    <3>5. CASE IrqEnter
      BY <1>2, <3>5, SameRing DEF IrqEnter, fw, loop, out
    <3>6. CASE IrqFails
      BY <1>2, <3>6, SameRing DEF IrqFails, fw, out
    <3>7. CASE IrqEvent
      BY <1>2, <3>7, SameRing DEF IrqEvent, fw, loop, out
    <3>8. CASE \E txLen \in 0 .. DeferLimit + 1 : IrqDefer(txLen)
      BY <1>2, <3>8, SameRing DEF IrqDefer, fw, loop, out
    <3>9. CASE IrqFlush
      <4>1. "irq" \in Threads /\ irq = "flush" /\ irq' # "split" /\ lost' = lost
            /\ UNCHANGED <<fw, loop>>
        BY <3>9 DEF IrqFlush, Threads
      <4>2. CASE Flush("irq")
        BY <1>2, <4>1, <4>2, FlushRing
      <4>3. CASE UNCHANGED <<hand, deferred, done>>
        BY <1>2, <4>1, <4>3, SameRing DEF fw, loop
      <4>4. QED
        BY <3>9, <4>2, <4>3 DEF IrqFlush
    <3>10. QED
      BY <2>2, <3>1, <3>2, <3>3, <3>4, <3>5, <3>6, <3>7, <3>8, <3>9 DEF Irq
  <2>3. CASE Netstack
    <3>1. CASE NetstackStart
      BY <1>2, <3>1, SameRing DEF NetstackStart, fw, loop
    <3>2. CASE NetstackWork
      <4>1. /\ "netstack" \in Threads /\ irq' = irq /\ lost' = lost
            /\ UNCHANGED <<fw, loop>>
        BY <3>2 DEF NetstackWork, Threads
      <4>2. CASE Flush("netstack")
        BY <1>2, <4>1, <4>2, FlushRing
      <4>3. CASE UNCHANGED <<hand, deferred, done>>
        BY <1>2, <4>1, <4>3, SameRing DEF fw, loop
      <4>4. QED
        BY <3>2, <4>2, <4>3 DEF NetstackWork
    <3>3. QED
      BY <2>3, <3>1, <3>2 DEF Netstack
  <2>4. CASE Stop
    <3>1. CASE StopOff
      BY <1>2, <3>1, SameRing DEF StopOff, fw, loop, out
    <3>2. CASE StopFlush
      <4>1. "stop" \in Threads /\ irq' = irq /\ lost' = lost /\ UNCHANGED <<fw, loop>>
        BY <3>2 DEF StopFlush, Threads
      <4>2. CASE Flush("stop")
        BY <1>2, <4>1, <4>2, FlushRing
      <4>3. CASE UNCHANGED <<hand, deferred, done>>
        BY <1>2, <4>1, <4>3, SameRing DEF fw, loop
      <4>4. QED
        BY <3>2, <4>2, <4>3 DEF StopFlush
    <3>3. CASE StopReset
      BY <1>2, <3>3, ResetStep
    <3>4. CASE Boot
      BY <1>2, <3>4, SameRing DEF Boot, fw, loop, out
    <3>5. QED
      BY <2>4, <3>1, <3>2, <3>3, <3>4 DEF Stop
  <2>5. CASE QueueRecovery
    BY <1>2, <2>5, SameRing DEF QueueRecovery, fw, loop, out
  <2>6. CASE TxActivity
    BY <1>2, <2>6, SameRing DEF TxActivity, fw, loop, out
  <2>7. CASE Streaming \/ Remove
    BY <1>2, <2>7, SameRing DEF Streaming, Remove, fw, loop, out
  <2>8. QED
    BY <1>2, <2>1, <2>2, <2>3, <2>4, <2>5, <2>6, <2>7 DEF Next
<1>3. ASSUME RingInv, UNCHANGED vars PROVE RingInv'
  BY <1>3, SameRing DEF vars, fw, loop, out
<1>4. QED
  BY <1>1, <1>2, <1>3

LEMMA Places ==
    ASSUME RingInv
    PROVE  PacketInOnePlace /\ OnlyInHandOvertaken
<1>1. PICK b, f, r, s \in 0 .. arrived :
             CountsOK(b, f, r, s) /\ PlacesOK(r)
  BY DEF RingInv
<1>2. /\ arrived \in Nat /\ buf \in Seq(Nat) /\ Len(buf) \in Nat /\ r \in Nat
      /\ r + Len(buf) <= arrived
  BY <1>1 DEF RingInv, RingTypeOK, CountsOK, OrderOK
<1>3. Range(buf) = r + 1 .. r + Len(buf)
  <2>1. DOMAIN buf = 1 .. Len(buf) /\ \A i \in 1 .. Len(buf) : buf[i] = r + i
    BY <1>1, <1>2 DEF CountsOK, BufOK
  <2>2. ASSUME NEW p \in r + 1 .. r + Len(buf) PROVE p \in Range(buf)
    <3>1. p - r \in 1 .. Len(buf) /\ buf[p - r] = p
      BY <1>2, <2>1
    <3>2. QED
      BY <2>1, <3>1 DEF Range
  <2>3. ASSUME NEW p \in Range(buf) PROVE p \in r + 1 .. r + Len(buf)
    BY <1>2, <2>1 DEF Range
  <2>4. QED
    BY <2>2, <2>3
<1>4. unread = r + Len(buf) + 1 .. arrived
  BY <1>1 DEF CountsOK, UnreadOK
<1>5. InHand = {hand[t] : t \in Threads} \ {0}
  BY <1>1 DEF PlacesOK, InHand, Range
<1>6. Range(deferred) = {deferred[i] : i \in 1 .. Len(deferred)}
      /\ Range(deferred) \subseteq 1 .. r
  BY <1>1 DEF PlacesOK, Range
<1>7. InHand \subseteq 1 .. r
  BY <1>1, <1>5 DEF PlacesOK
<1>8. done \cup lost \cup InHand \cup Range(deferred) = 1 .. r
  <2>1. ASSUME NEW p \in 1 .. r
        PROVE  p \in done \cup lost \cup InHand \cup Range(deferred)
    <3>1. p # 0
      BY <1>2
    <3>2. QED
      BY <1>1, <1>5, <1>6, <3>1 DEF PlacesOK
  <2>2. done \subseteq 1 .. r /\ lost \subseteq 1 .. r
    BY <1>1 DEF PlacesOK
  <2>3. QED
    BY <1>6, <1>7, <2>1, <2>2
<1>9. /\ done \cap lost = {} /\ InHand \cap done = {} /\ InHand \cap lost = {}
      /\ Range(deferred) \cap done = {} /\ Range(deferred) \cap lost = {}
      /\ Range(deferred) \cap InHand = {}
  <2>1. done \cap lost = {} /\ InHand \cap done = {} /\ InHand \cap lost = {}
    BY <1>1, <1>5 DEF PlacesOK
  <2>2. ASSUME NEW p \in Range(deferred)
        PROVE  p \notin done /\ p \notin lost /\ p \notin InHand
    <3>1. PICK i \in 1 .. Len(deferred) : p = deferred[i]
      BY <1>6
    <3>2. p \in 1 .. r
      BY <1>6
    <3>3. QED
      BY <1>1, <1>5, <3>1, <3>2 DEF PlacesOK
  <2>3. QED
    BY <2>1, <2>2
<1>10. PacketInOnePlace
  <2> DEFINE places == <<unread, Range(buf), Range(deferred), InHand, done, lost>>
  <2>1. UNION Range(places) =
          unread \cup Range(buf) \cup Range(deferred) \cup InHand \cup done \cup lost
    BY DEF Range
  <2>2. unread \cup Range(buf) \cup (1 .. r) = 1 .. arrived
    BY <1>2, <1>3, <1>4
  <2>3. UNION Range(places) = Packets
    BY <1>8, <2>1, <2>2 DEF Packets
  <2>4. /\ unread \cap Range(buf) = {} /\ unread \cap (1 .. r) = {}
        /\ Range(buf) \cap (1 .. r) = {}
    BY <1>2, <1>3, <1>4
  <2>5. /\ places[1] = unread /\ places[2] = Range(buf) /\ places[3] = Range(deferred)
        /\ places[4] = InHand /\ places[5] = done /\ places[6] = lost
    OBVIOUS
  <2> HIDE DEF places
  <2>6. \A i, j \in 1 .. 6 : i # j => places[i] \cap places[j] = {}
    <3>1. \A i \in 1 .. 6 : i = 1 \/ i = 2 \/ i = 3 \/ i = 4 \/ i = 5 \/ i = 6
      OBVIOUS
    <3>2. \A i \in 3 .. 6 : places[i] \subseteq 1 .. r
      BY <1>8, <2>5, SMTT(30)
    <3>3. \A i, j \in 3 .. 6 : i # j => places[i] \cap places[j] = {}
      BY <1>9, <2>5
    <3>4. QED
      BY <2>4, <2>5, <3>2, <3>3, SMTT(30)
  <2>7. \A t, u \in Threads : hand[t] = hand[u] /\ hand[t] # 0 => t = u
    BY <1>1 DEF PlacesOK
  <2>8. QED
    BY <2>3, <2>6, <2>7 DEF places, PacketInOnePlace
<1>11. OnlyInHandOvertaken
  <2>1. SUFFICES ASSUME NEW p \in done, NEW q \in Packets, q < p
                 PROVE  q \in done \cup lost \cup InHand
    BY DEF OnlyInHandOvertaken
  <2>2. p \in 1 .. r /\ q \in 1 .. r
    BY <1>1, <1>2, <2>1 DEF PlacesOK, Packets
  <2>3. q \notin Range(deferred)
    <3>1. \A i \in 1 .. Len(deferred) : p < deferred[i] /\ deferred[i] \in 1 .. r
      BY <1>1 DEF PlacesOK
    <3>2. QED
      BY <1>6, <2>1, <2>2, <3>1
  <2>4. QED
    BY <1>8, <2>2, <2>3
<1>12. QED
  BY <1>10, <1>11

-----------------------------------------------------------------------------
\* Every packet that arrived is in exactly one place (PacketInOnePlace): the
\* counters that wrap, the stale copy of the ring, three threads that flush one
\* queue and the restart of the chip neither lose one nor deliver one twice.
THEOREM PacketsPlaced == Spec => []PacketInOnePlace
<1>1. RingInv => PacketInOnePlace
  BY Places
<1>2. QED
  BY <1>1, Inductive, RingInductive, PTL DEF Spec

\* A frame is overtaken only while another thread has it in hand
\* (OnlyInHandOvertaken): aggregation, queue and flushes keep the order.
THEOREM OrderKept == Spec => []OnlyInHandOvertaken
<1>1. RingInv => OnlyInHandOvertaken
  BY Places
<1>2. QED
  BY <1>1, Inductive, RingInductive, PTL DEF Spec
=============================================================================
