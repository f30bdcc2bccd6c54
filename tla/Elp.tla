-------------------------------- MODULE Elp ---------------------------------
(***************************************************************************)
(* The chip's extreme low power mode (ELP).  Whoever uses the chip does so  *)
(* under wl->mutex between wl1271_ps_elp_wakeup and wl1271_ps_elp_sleep;    *)
(* the delayed elp_work puts the chip to sleep when it has been left alone. *)
(* Waking it takes an interrupt, which the hard interrupt handler turns     *)
(* into a completion on the stack of the waiting thread.                    *)
(*                                                                         *)
(* The chip's side (a chip that was told to sleep may do so, wakes up by    *)
(* itself to raise an interrupt, and stays awake while it is not            *)
(* acknowledged) is not in the driver; it is what the driver relies on.     *)
(***************************************************************************)
EXTENDS Integers

CONSTANTS
    Ops,      \* threads that use the chip: mac80211 operations and works
    NoThread  \* a NULL elp_compl, a free mutex

Threads == Ops \cup {"irq"}

ASSUME ThreadsAssumption == "irq" \notin Ops /\ NoThread \notin Threads

VARIABLES
    drv_state, \* wl->state: "ON", or "RESTARTING" up to the end of a recovery
    flags,     \* the bits of wl->flags that concern ELP
    vifs,      \* "IN_PS" if every interface lets the chip sleep, "left" if so
               \* since the one that did not was removed, else "active"
    mutex,     \* the thread that holds wl->mutex
    pc,        \* where each thread is
    elp_compl, \* wl->elp_compl: whose completion the hardirq signals
    wakeup,    \* of the wakeup under way: it is "nested" in
               \* wl12xx_queue_recovery_work, an interrupt was "pending",
               \* compl is "completed"
    elp_work,  \* where elp_work is: its timer runs, it is queued, it runs
    irq,       \* the interrupt is "enabled" or "disabled"
    chip_elp   \* the chip: its ELP control register says "SLEEP", it is
               \* "waking" since it was told WAKE_UP, it is "awake", it has
               \* raised an interrupt ("line") that is not acknowledged

elp_vars == <<drv_state, flags, vifs, mutex, pc, elp_compl, wakeup, elp_work,
              irq, chip_elp>>

ElpInit ==
    /\ drv_state = "ON" /\ flags = {} /\ vifs \in {"IN_PS", "active"}
    /\ mutex = NoThread /\ pc = [t \in Threads |-> "idle"]
    /\ elp_compl = NoThread /\ wakeup = {} /\ elp_work = {}
    /\ irq = "enabled" /\ chip_elp = {"awake"}

-----------------------------------------------------------------------------
(* wl1271_ps_elp_wakeup, called by t                                        *)

Goto(t, place) == pc' = [pc EXCEPT ![t] = place]

\* cancel_delayed_work: the timer is stopped; a work that is queued may be
\* taken off the queue, depending on the kernel, and one that runs is not
CancelDelayedWork ==
    elp_work' \in {elp_work \ {"timer"}, elp_work \ {"timer", "queued"}}

\* up to the spinlock: the chip is awake, or cannot be reached, or is woken
Wakeup(t) ==
    /\ flags' = flags \ {"ELP_REQUESTED"}
    /\ IF "ELP_REQUESTED" \in flags THEN CancelDelayedWork
                                    ELSE UNCHANGED elp_work
    /\ Goto(t, IF ~({"ELP_REQUESTED", "IN_ELP"} \subseteq flags) THEN "section"
               ELSE IF "IO_FAILED" \in flags THEN "failed" ELSE "wake")

\* fault: an interrupt that is being handled is overlooked
WakeupSpinBlind(t) ==
    /\ pc[t] = "wake"
    /\ elp_compl' = t /\ wakeup' = wakeup \cap {"nested"}
    /\ Goto(t, "write")
    /\ UNCHANGED <<drv_state, flags, vifs, mutex, elp_work, irq, chip_elp>>

\* under wl_lock: an interrupt thread on its way means that the chip is awake
\* and that no other interrupt will come before it is done
WakeupSpin(t) ==
    /\ pc[t] = "wake"
    /\ IF "IRQ_RUNNING" \in flags
         THEN wakeup' = (wakeup \cap {"nested"}) \cup {"pending"}
              /\ UNCHANGED elp_compl
         ELSE wakeup' = wakeup \cap {"nested"} /\ elp_compl' = t
    /\ Goto(t, "write")
    /\ UNCHANGED <<drv_state, flags, vifs, mutex, elp_work, irq, chip_elp>>

ToldToWake == (chip_elp \ {"SLEEP"}) \cup {"waking"}

\* fault: the chip is not waited for
WakeupWriteHasty(t) ==
    /\ pc[t] = "write"
    /\ chip_elp' = ToldToWake
    /\ flags' = flags \ {"IN_ELP"} /\ Goto(t, "section")
    /\ elp_compl' = NoThread
    /\ UNCHANGED <<drv_state, vifs, mutex, wakeup, elp_work, irq>>

WakeupWrite(t) ==
    /\ pc[t] = "write"
    /\ chip_elp' = ToldToWake
    /\ IF "pending" \in wakeup
         THEN flags' = flags \ {"IN_ELP"} /\ Goto(t, "section")
         ELSE UNCHANGED flags /\ Goto(t, "wait")
    /\ UNCHANGED <<drv_state, vifs, mutex, elp_compl, wakeup, elp_work, irq>>

\* fault: IN_ELP is not cleared
WakeupDoneInElp(t) ==
    /\ pc[t] = "wait" /\ "completed" \in wakeup
    /\ Goto(t, "section")
    /\ UNCHANGED <<drv_state, flags, vifs, mutex, elp_compl, wakeup, elp_work, irq,
                   chip_elp>>

WakeupDone(t) ==
    /\ pc[t] = "wait" /\ "completed" \in wakeup
    /\ flags' = flags \ {"IN_ELP"}
    /\ Goto(t, "section")
    /\ UNCHANGED <<drv_state, vifs, mutex, elp_compl, wakeup, elp_work, irq, chip_elp>>

\* wl12xx_queue_recovery_work where ELP_REQUESTED is clear already, so that
\* its own wakeup returns at once; a recursive call does nothing
QueueRecoveryWork ==
    /\ drv_state' = "RESTARTING"
    /\ irq' = IF drv_state = "ON" THEN "disabled" ELSE irq

WakeupWriteFails(t) ==
    /\ pc[t] = "write"
    /\ flags' = flags \cup {"IO_FAILED"}
    /\ QueueRecoveryWork
    /\ Goto(t, "failed")
    /\ UNCHANGED <<vifs, mutex, elp_compl, wakeup, elp_work, chip_elp>>

WakeupTimeout(t) ==
    /\ pc[t] = "wait" /\ "completed" \notin wakeup
    /\ QueueRecoveryWork
    /\ Goto(t, "failed")
    /\ UNCHANGED <<flags, vifs, mutex, elp_compl, wakeup, elp_work, chip_elp>>

\* the mutex is released and, by the interrupt thread, the interrupt unmasked
Leave(t) == mutex' = NoThread /\ Goto(t, "idle")

\* fault: the hardirq may still find the completion
RememberCompl == UNCHANGED elp_compl

ForgetCompl == elp_compl' = NoThread

\* the error path: an operation gives up, the interrupt thread asks for a
\* recovery, and one that is being queued goes on
WakeupFailed(t) ==
    /\ pc[t] = "failed"
    /\ ForgetCompl /\ Leave(t)
    /\ wakeup' = wakeup \ {"nested"}
    /\ IF "nested" \in wakeup THEN irq' = "disabled" /\ UNCHANGED drv_state
       ELSE IF t = "irq" THEN QueueRecoveryWork ELSE UNCHANGED <<drv_state, irq>>
    /\ UNCHANGED <<flags, vifs, elp_work, chip_elp>>

-----------------------------------------------------------------------------
(* Users of the chip                                                        *)

OpStart(t) ==
    /\ mutex = NoThread /\ pc[t] = "idle" /\ drv_state = "ON"
    /\ mutex' = t
    /\ Wakeup(t)
    /\ UNCHANGED <<drv_state, vifs, elp_compl, wakeup, irq, chip_elp>>

\* an operation that changes whether an interface lets the chip sleep
OpSetPs(t) ==
    /\ pc[t] = "section" /\ "nested" \notin wakeup
    /\ vifs' \in {"IN_PS", "active"}
    /\ UNCHANGED <<drv_state, flags, mutex, pc, elp_compl, wakeup, elp_work, irq,
                   chip_elp>>

\* a command of the operation fails; it goes on to its elp_sleep all the same
OpFails(t) ==
    /\ pc[t] = "section" /\ "nested" \notin wakeup /\ drv_state = "ON"
    /\ flags' \in {flags, flags \cup {"IO_FAILED"}}
    /\ QueueRecoveryWork
    /\ UNCHANGED <<vifs, mutex, pc, elp_compl, wakeup, elp_work, chip_elp>>

\* the last write of a command fails: only the bus is marked as broken
OpIoFails(t) ==
    /\ pc[t] = "section" /\ "nested" \notin wakeup
    /\ flags' = flags \cup {"IO_FAILED"}
    /\ UNCHANGED <<drv_state, vifs, mutex, pc, elp_compl, wakeup, elp_work, irq,
                   chip_elp>>

\* fault: a sleep is requested and no work started for it
NotQueued == UNCHANGED elp_work

\* wl1271_ps_elp_sleep: the timer, unless the work is pending already
QueueElpWork ==
    elp_work' = IF vifs # "active" /\ elp_work \cap {"timer", "queued"} = {}
                  THEN elp_work \cup {"timer"} ELSE elp_work

ElpSleep ==
    /\ flags' = flags \cup {"ELP_REQUESTED"}
    /\ QueueElpWork
    /\ vifs' = IF vifs = "left" THEN "IN_PS" ELSE vifs

OpEnd(t) ==
    /\ pc[t] = "section" /\ "nested" \notin wakeup
    /\ ElpSleep /\ Leave(t)
    /\ UNCHANGED <<drv_state, elp_compl, wakeup, irq, chip_elp>>

\* __wl1271_op_remove_interface: elp_sleep still finds the interface on the
\* list, which keeps the chip awake; it is taken off only then
OpRemove(t) ==
    /\ pc[t] = "section" /\ "nested" \notin wakeup /\ vifs = "active"
    /\ flags' = flags \cup {"ELP_REQUESTED"} /\ vifs' = "left"
    /\ Leave(t)
    /\ UNCHANGED <<drv_state, elp_compl, wakeup, elp_work, irq, chip_elp>>

\* an error path that returns without elp_sleep
OpReturn(t) ==
    /\ pc[t] = "section" /\ "nested" \notin wakeup
    /\ Leave(t)
    /\ UNCHANGED <<drv_state, flags, vifs, elp_compl, wakeup, elp_work, irq, chip_elp>>

\* wl12xx_queue_recovery_work outside of a section (a timeout, the watchdog):
\* the chip is woken up, then the interrupt is disabled
RecoveryStart(t) ==
    /\ mutex = NoThread /\ pc[t] = "idle" /\ drv_state = "ON"
    /\ drv_state' = "RESTARTING"
    /\ mutex' = t /\ wakeup' = {"nested"}
    /\ Wakeup(t)
    /\ UNCHANGED <<vifs, elp_compl, irq, chip_elp>>

RecoveryQueued(t) ==
    /\ pc[t] = "section" /\ "nested" \in wakeup
    /\ irq' = "disabled" /\ wakeup' = wakeup \ {"nested"}
    /\ Leave(t)
    /\ UNCHANGED <<drv_state, flags, vifs, elp_compl, elp_work, chip_elp>>

\* recovery_work: the chip is switched off, elp_work cancelled with _sync, the
\* flags cleared, and the chip booted again
Restarted ==
    /\ drv_state = "RESTARTING" /\ mutex = NoThread
    /\ pc["irq"] = "idle" /\ "running" \notin elp_work
    /\ drv_state' = "ON" /\ flags' = {} /\ elp_work' = {}
    /\ irq' = "enabled" /\ chip_elp' = {"awake"}
    /\ UNCHANGED <<vifs, mutex, pc, elp_compl, wakeup>>

-----------------------------------------------------------------------------
(* wl12xx_irq and wl12xx_hardirq                                            *)

\* IRQF_ONESHOT: not again before the thread is done
HardIrq ==
    /\ "line" \in chip_elp /\ irq = "enabled" /\ pc["irq"] = "idle"
    /\ flags' = flags \cup {"IRQ_RUNNING"}
    /\ wakeup' = IF elp_compl = NoThread THEN wakeup
                                         ELSE wakeup \cup {"completed"}
    /\ elp_compl' = NoThread
    /\ Goto("irq", "thread")
    /\ UNCHANGED <<drv_state, vifs, mutex, elp_work, irq, chip_elp>>

IrqStart ==
    /\ pc["irq"] = "thread" /\ mutex = NoThread
    /\ IF drv_state = "ON"
         THEN mutex' = "irq" /\ Wakeup("irq")
         ELSE Goto("irq", "idle") /\ UNCHANGED <<flags, mutex, elp_work>>
    /\ UNCHANGED <<drv_state, vifs, elp_compl, wakeup, irq, chip_elp>>

\* fault: the interrupt is not acknowledged
IrqStatusOnly ==
    /\ pc["irq"] \in {"section", "acked"}
    /\ flags' = flags \ {"IRQ_RUNNING"}
    /\ Goto("irq", "acked")
    /\ UNCHANGED <<drv_state, vifs, mutex, elp_compl, wakeup, elp_work, irq, chip_elp>>

\* a round of the loop: wl12xx_fw_status acknowledges the interrupt
IrqStatus ==
    /\ pc["irq"] \in {"section", "acked"}
    /\ flags' = flags \ {"IRQ_RUNNING"}
    /\ chip_elp' = chip_elp \ {"line"}
    /\ Goto("irq", "acked")
    /\ UNCHANGED <<drv_state, vifs, mutex, elp_compl, wakeup, elp_work, irq>>

IrqEnd ==
    /\ pc["irq"] = "acked"
    /\ ElpSleep /\ Leave("irq")
    /\ UNCHANGED <<drv_state, elp_compl, wakeup, irq, chip_elp>>

\* the chip cannot be read, or a handler fails: no elp_sleep
IrqFails(io) ==
    /\ pc["irq"] \in {"section", "acked"}
    /\ flags' = (flags \ {"IRQ_RUNNING"})
                  \cup (IF io THEN {"IO_FAILED"} ELSE {})
    /\ QueueRecoveryWork /\ Leave("irq")
    /\ UNCHANGED <<vifs, elp_compl, wakeup, elp_work, chip_elp>>

-----------------------------------------------------------------------------
(* wl1271_elp_work                                                          *)

ElpTimer ==
    /\ "timer" \in elp_work
    /\ elp_work' = (elp_work \ {"timer"}) \cup {"queued"}
    /\ UNCHANGED <<drv_state, flags, vifs, mutex, pc, elp_compl, wakeup, irq,
                   chip_elp>>

ElpWorkStart ==
    /\ "queued" \in elp_work /\ "running" \notin elp_work
    /\ elp_work' = (elp_work \ {"queued"}) \cup {"running"}
    /\ UNCHANGED <<drv_state, flags, vifs, mutex, pc, elp_compl, wakeup, irq,
                   chip_elp>>

\* nobody has taken the request back, and the interfaces still agree
MaySleep ==
    /\ drv_state = "ON" /\ vifs # "active"
    /\ "ELP_REQUESTED" \in flags /\ "IN_ELP" \notin flags

ElpWork ==
    /\ "running" \in elp_work /\ mutex = NoThread
    /\ MaySleep => "IO_FAILED" \notin flags
    /\ IF MaySleep
         THEN chip_elp' = chip_elp \cup {"SLEEP"} /\ flags' = flags \cup {"IN_ELP"}
         ELSE UNCHANGED <<flags, chip_elp>>
    /\ elp_work' = elp_work \ {"running"}
    /\ UNCHANGED <<drv_state, vifs, mutex, pc, elp_compl, wakeup, irq>>

\* the chip cannot be written to: the recovery takes the request back
ElpWorkFails ==
    /\ "running" \in elp_work /\ mutex = NoThread /\ MaySleep
    /\ flags' = (flags \cup {"IO_FAILED"}) \ {"ELP_REQUESTED"}
    /\ QueueRecoveryWork
    /\ \E cancelled \in {{"timer"}, {"timer", "queued"}} :
          elp_work' = elp_work \ ({"running"} \cup cancelled)
    /\ UNCHANGED <<vifs, mutex, pc, elp_compl, wakeup, chip_elp>>

-----------------------------------------------------------------------------
(* The chip                                                                 *)

\* it is ready for the host that woke it up
FwReady ==
    /\ "waking" \in chip_elp
    /\ chip_elp' = (chip_elp \ {"waking"}) \cup {"awake", "line"}
    /\ UNCHANGED <<drv_state, flags, vifs, mutex, pc, elp_compl, wakeup,
                   elp_work, irq>>

\* it has something to tell
FwEvent ==
    /\ "line" \notin chip_elp
    /\ chip_elp' = chip_elp \cup {"awake", "line"}
    /\ UNCHANGED <<drv_state, flags, vifs, mutex, pc, elp_compl, wakeup,
                   elp_work, irq>>

\* it was told to sleep, and nothing keeps it awake
FwDoze ==
    /\ chip_elp = {"SLEEP", "awake"}
    /\ chip_elp' = {"SLEEP"}
    /\ UNCHANGED <<drv_state, flags, vifs, mutex, pc, elp_compl, wakeup,
                   elp_work, irq>>

-----------------------------------------------------------------------------
WakeupStep(t) ==
    \/ WakeupSpin(t) \/ WakeupWrite(t) \/ WakeupDone(t)
    \/ WakeupWriteFails(t) \/ WakeupTimeout(t) \/ WakeupFailed(t)

Op(t) == OpStart(t) \/ OpSetPs(t) \/ OpFails(t) \/ OpIoFails(t)
         \/ OpEnd(t) \/ OpRemove(t) \/ OpReturn(t)
Recovery(t) == RecoveryStart(t) \/ RecoveryQueued(t)
Irq == \/ HardIrq \/ IrqStart \/ IrqStatus \/ IrqEnd
       \/ \E io \in BOOLEAN : IrqFails(io)
Work == ElpTimer \/ ElpWorkStart \/ ElpWork \/ ElpWorkFails
Fw == FwReady \/ FwEvent \/ FwDoze

ElpNext ==
    \/ \E t \in Threads : WakeupStep(t)
    \/ \E t \in Ops : Op(t) \/ Recovery(t)
    \/ Irq \/ Work \/ Restarted \/ Fw

ElpSpec == ElpInit /\ [][ElpNext]_elp_vars

\* a thread that has the mutex goes on; elp_work, its timer and the recovery
\* are run by the kernel, and get the mutex in turn although others want it too
ElpFairSpec ==
    /\ ElpSpec
    /\ \A t \in Threads : WF_elp_vars(WakeupStep(t))
    /\ \A t \in Ops : WF_elp_vars(OpEnd(t)) /\ WF_elp_vars(RecoveryQueued(t))
    /\ WF_elp_vars(HardIrq) /\ SF_elp_vars(IrqStart)
    /\ WF_elp_vars(IrqStatus) /\ SF_elp_vars(IrqEnd)
    /\ WF_elp_vars(ElpTimer) /\ WF_elp_vars(ElpWorkStart)
    /\ SF_elp_vars(ElpWork \/ ElpWorkFails)
    /\ SF_elp_vars(Restarted) /\ WF_elp_vars(FwReady)

-----------------------------------------------------------------------------
InSection(t) == pc[t] \in {"section", "acked"}

(* Types, with the mutex discipline: only the holder of the mutex is past    *)
(* its start, and only wl12xx_irq has rounds and waits as a thread.          *)
ElpTypeOK ==
    /\ drv_state \in {"ON", "RESTARTING"}
    /\ flags \subseteq {"ELP_REQUESTED", "IN_ELP", "IRQ_RUNNING", "IO_FAILED"}
    /\ vifs \in {"IN_PS", "left", "active"} /\ mutex \in Threads \cup {NoThread}
    /\ pc \in [Threads -> {"idle", "thread", "wake", "write", "wait", "failed",
                           "section", "acked"}]
    /\ elp_compl \in Threads \cup {NoThread}
    /\ wakeup \subseteq {"nested", "pending", "completed"}
    /\ elp_work \subseteq {"timer", "queued", "running"}
    /\ irq \in {"enabled", "disabled"}
    /\ chip_elp \subseteq {"SLEEP", "waking", "awake", "line"}
    /\ \A t \in Threads : mutex = t <=> pc[t] \notin {"idle", "thread"}
    /\ \A t \in Ops : pc[t] \notin {"thread", "acked"}
    /\ "nested" \in wakeup => mutex \in Ops /\ drv_state = "RESTARTING"

\* Whoever uses the chip finds it marked as awake and its sleep not requested:
\* WARN_ON(IN_ELP) of wl1271_cmd_send does not fire, nor does the one of
\* wl1271_ps_elp_sleep, "we shouldn't get consecutive sleep requests".
NotInElp ==
    \A t \in Threads : InSection(t) =>
        "IN_ELP" \notin flags /\ "ELP_REQUESTED" \notin flags

\* A chip believed to be asleep is one whose sleep was requested: the next
\* wakeup, which looks at ELP_REQUESTED first, does wake it.
SleepIsRequested ==
    mutex = NoThread /\ drv_state = "ON" /\ "IN_ELP" \in flags =>
        "ELP_REQUESTED" \in flags

\* wl->elp_compl never points to the stack of a thread that has left
\* wl1271_ps_elp_wakeup.
ComplOnStack ==
    elp_compl # NoThread => pc[elp_compl] \in {"write", "wait", "failed"}

\* Who waits for the chip's interrupt will get it: the completion is theirs,
\* the chip answers or has answered, and the interrupt is neither disabled nor
\* masked by an interrupt thread that waits for the mutex they hold.
WakeupDeliverable ==
    \A t \in Threads : pc[t] = "wait" /\ "completed" \notin wakeup =>
        /\ elp_compl = t
        /\ "waking" \in chip_elp \/ "line" \in chip_elp
        /\ irq = "enabled" /\ pc["irq"] = "idle"

\* A chip that may sleep is put to sleep: the request is not lost in the gap
\* between cancel_delayed_work and a work that has started.  (If the last
\* interface that kept it awake was removed it waits for the next section.)
SleepsInTheEnd ==
    "ELP_REQUESTED" \in flags /\ vifs = "IN_PS" ~>
        "IN_ELP" \in flags \/ "ELP_REQUESTED" \notin flags

\* Every interrupt of the chip is acknowledged, or the chip restarted, although
\* it may come while a thread holds the mutex and waits for another interrupt.
InterruptsServed == "line" \in chip_elp ~> "line" \notin chip_elp

\* ChipUse: a thread becomes the user when its wakeup returns
CU == INSTANCE ChipUse WITH
          Users <- Threads, NoUser <- NoThread, awake <- "awake" \in chip_elp,
          user <- IF mutex # NoThread /\ InSection(mutex) THEN mutex
                                                          ELSE NoThread

\* The driver and the chip together implement ChipUse: who has returned from
\* wl1271_ps_elp_wakeup finds the chip awake and alone uses it, and it does not
\* doze before wl1271_ps_elp_sleep.
ImplementsChipUse == CU!Spec

-----------------------------------------------------------------------------
(* Why the invariants hold                                                  *)

\* what the flags say of the chip
FlagsTrue ==
    /\ "line" \in chip_elp => "awake" \in chip_elp
    /\ "IN_ELP" \notin flags => "awake" \in chip_elp /\ "SLEEP" \notin chip_elp
    /\ "IRQ_RUNNING" \in flags => "line" \in chip_elp
    /\ drv_state = "ON" /\ "IN_ELP" \in flags => "IO_FAILED" \notin flags

\* the interrupt is enabled wherever a wakeup may need it
IrqWhereNeeded ==
    /\ drv_state = "ON" \/ "nested" \in wakeup => irq = "enabled"
    /\ \A t \in Threads : pc[t] \in {"wake", "write", "wait"} =>
          drv_state = "ON" \/ "nested" \in wakeup

\* a wakeup under way has taken the request back
WakeupTookOver ==
    \A t \in Threads : pc[t] \in {"wake", "write", "wait", "failed"} =>
        /\ "ELP_REQUESTED" \notin flags /\ "IN_ELP" \in flags
        /\ pc[t] = "failed" => drv_state = "RESTARTING"

\* what a wakeup learns under wl_lock stays true: the interrupt it saw, or that
\* completed it, is not acknowledged before it is done, and otherwise no
\* interrupt has come
SpinStaysTrue ==
    \A t \in Threads : pc[t] \in {"write", "wait"} =>
        /\ "pending" \in wakeup \/ "completed" \in wakeup =>
               elp_compl = NoThread /\ "line" \in chip_elp
        /\ "pending" \notin wakeup /\ "completed" \notin wakeup =>
               elp_compl = t /\ pc["irq"] = "idle"
        /\ pc[t] = "wait" =>
               "SLEEP" \notin chip_elp /\ ("waking" \in chip_elp \/ "line" \in chip_elp)

\* the interrupt thread never waits for another interrupt
IrqNeverWaits ==
    /\ pc["irq"] \in {"thread", "wake"} => "IRQ_RUNNING" \in flags
    /\ pc["irq"] = "write" => "pending" \in wakeup
    /\ pc["irq"] # "wait"

ComplOfHolder == elp_compl # NoThread => mutex = elp_compl

(* The inductive invariant. *)
ElpInv ==
    /\ ElpTypeOK /\ NotInElp /\ SleepIsRequested
    /\ ComplOnStack /\ ComplOfHolder /\ WakeupDeliverable
    /\ FlagsTrue /\ IrqWhereNeeded /\ WakeupTookOver /\ SpinStaysTrue
    /\ IrqNeverWaits
=============================================================================
