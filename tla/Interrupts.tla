----------------------------- MODULE Interrupts -----------------------------
(***************************************************************************)
(* Interrupts on the one CPU: the kernel's only thread, the two chained    *)
(* 8259 controllers, the handlers of src/interrupts/handlers.rs with the   *)
(* callbacks that dispatch.rs lets the kernel register, the locks that     *)
(* both sides take, sleep_ms of src/timer.rs and the panic handler.        *)
(*                                                                         *)
(* A handler runs with interrupts off until iret, so handlers do not nest; *)
(* what interleaves is the thread, the devices and a handler.  Spinning on *)
(* a lock that the interrupted code holds never ends.  Of the counters     *)
(* only what is left of a sleep is kept.                                   *)
(***************************************************************************)
EXTENDS Integers, SequencesExt

CONSTANTS
    Devices,    \* the lines that devices raise
    Flaky,      \* those of them that may fall again before they are served
    MaskLines, UnmaskLines,  \* the lines that the thread masks and unmasks
    RegLines,   \* the lines that the thread registers callbacks for
    Callbacks,  \* what these do: "fb", "serial" print, "once", "mask" stop
    MaxSleep,   \* bound: how long the thread sleeps, in ticks
    MaxNest     \* bound: how many guards the thread holds

ASSUME InterruptsAssumption ==
    /\ Flaky \subseteq Devices /\ Devices \subseteq 0..15 /\ MaskLines \cup UnmaskLines \subseteq 0..15
    /\ RegLines \subseteq 0..15 /\ Callbacks \subseteq {"fb", "serial", "once", "mask"}
    /\ 0 \in RegLines \cap (Devices \ Flaky)
    /\ MaxSleep \in Nat /\ MaxNest \in Nat

VARIABLES
    irr, isr, imr,  \* the registers of the controllers, as sets of lines
    iflag,          \* the interrupt flag
    th,             \* where the thread is
    local,          \* the line and the copy of the mask that it works on
    saved,          \* the flags saved by the guards that it holds
    pics, serial,   \* whether the lock is held
    left,           \* ticks until the end of its sleep
    table,          \* HANDLERS of dispatch.rs, for the lines in use
    h,              \* the handler: where it is, its vector and its callback
    panic           \* the panic handler: "no", or where it is

vars == <<irr, isr, imr, iflag, th, local, saved, pics, serial, left, table, h, panic>>
hw   == <<irr, isr, imr, table>>
cpu  == <<iflag, saved, h, panic>>

-----------------------------------------------------------------------------
(* The controllers.  A line has a vector if the IDT has an entry for it.     *)
Master  == 0..7
Slave   == 8..15
Cascade == 2

IDT == {0, 1, 7, 8, 12, 14, 15}
Apic == 255     \* the LAPIC's spurious vector

NoLocal == [irq |-> 0, imr |-> {}]

None == "none"  \* no callback

Idle == [pc |-> "none", vec |-> 0, cb |-> None]

Init ==
    /\ irr = {} /\ isr = {} /\ imr = Slave       \* pic::init
    /\ iflag = FALSE /\ th = "boot" /\ local = NoLocal
    /\ saved = <<>> /\ pics = FALSE /\ serial = FALSE
    /\ left = 0 /\ h = Idle /\ panic = "no" /\ table = [l \in RegLines |-> None]

(* Once the kernel has panicked nobody looks at the lines any more. *)
Raise(l) ==
    /\ l \notin irr /\ panic = "no"
    /\ irr' = irr \cup {l}
    /\ UNCHANGED <<isr, imr, table, cpu, th, local, pics, serial, left>>

(* The input of the master that a line asserts. *)
Input(l) == IF l \in Slave THEN Cascade ELSE l

(* The lines that get through both masks and that no line in service blocks. *)
Open ==
    {l \in irr \ imr :
        /\ Input(l) \notin imr
        /\ \A s \in isr : (s \in Master => Input(l) < s) /\ (s \in Slave /\ l \in Slave => l < s)}

(* The one that is served: by its input, then by its number. *)
Served == {l \in Open : \A m \in Open : Input(l) < Input(m) \/ (Input(l) = Input(m) /\ l <= m)}

Running == h.pc = "none" /\ panic = "no"

(* A vector is delivered; without an IDT entry it ends in a fault, and the   *)
(* fault in a panic.                                                         *)
Enter(v) ==
    /\ iflag' = FALSE
    /\ IF v \in IDT \cup {Apic}
       THEN h' = [Idle EXCEPT !.pc = "body", !.vec = v] /\ UNCHANGED panic
       ELSE panic' = "printing" /\ UNCHANGED h
    /\ UNCHANGED <<imr, table, th, local, saved, pics, serial, left>>

Deliver(l) ==
    /\ Running /\ iflag /\ l \in Served
    /\ irr' = irr \ {l} /\ isr' = isr \cup {l, Input(l)}
    /\ Enter(l)

(* The line falls before it is acknowledged: the controller answers with its *)
(* lowest vector; only a slave leaves the cascade in service.                *)
DeliverSpurious(l) ==
    /\ Running /\ iflag /\ l \in Served \cap Flaky
    /\ irr' = irr \ {l}
    /\ isr' = IF l \in Slave THEN isr \cup {Cascade} ELSE isr
    /\ Enter(IF l \in Slave THEN 15 ELSE 7)

DeliverApic == Running /\ iflag /\ Enter(Apic) /\ UNCHANGED <<irr, isr>>

-----------------------------------------------------------------------------
(* X86IrqControl: save the flag and disable, restore what was saved; the     *)
(* same in without_interrupts, with which the framebuffer is printed to.     *)
SaveAndDisable == saved' = Append(saved, iflag) /\ iflag' = FALSE

(* Mutant of Restore: interrupts are enabled, whatever they were. *)
RestoreEnables == iflag' = TRUE /\ saved' = Front(saved)

Restore == iflag' = saved[Len(saved)] /\ saved' = Front(saved)

-----------------------------------------------------------------------------
(* Handlers. *)

(* notify_end_of_interrupt: a controller clears the highest line in service. *)
Eoi(s, lines) == IF s \cap lines = {} THEN s ELSE s \ {Min(s \cap lines)}

EndOfInterrupt(vec, s) ==
    IF vec \in Slave THEN Eoi(Eoi(s, Slave), Master) ELSE Eoi(s, Master)

(* Mutant of SendsEoi: the timer's handler does not acknowledge. *)
SendsEoiNotTimer == h.vec \notin {0, Apic} /\ (h.vec = 7 => 7 \in isr)

(* The handlers of IRQ 7 and IRQ 15 look for their line in service first. *)
SendsEoi == h.vec # Apic /\ (h.vec = 7 => 7 \in isr)

(* Mutant of AfterEoi: nothing is sent for a spurious interrupt of the slave. *)
AfterEoiNoneForSlave ==
    IF h.vec = 15 /\ 15 \notin isr THEN isr ELSE EndOfInterrupt(h.vec, isr)

AfterEoi ==
    IF h.vec = 15 /\ 15 \notin isr THEN EndOfInterrupt(0, isr) ELSE EndOfInterrupt(h.vec, isr)

(* The handlers that call dispatch, each for its own line. *)
Dispatched == {0, 8, 12, 14}

(* Mutant of Dispatch: the handler of the timer does not dispatch. *)
DispatchNotTimer(l) == IF l \in (Dispatched \ {0}) \cap RegLines THEN table[l] ELSE None

(* The pointer that dispatch loads for a line, if its handler asks at all. *)
Dispatch(l) == IF l \in Dispatched \cap RegLines THEN table[l] ELSE None

AfterCall == IF SendsEoi THEN "eoi" ELSE "iret"

(* Up to the call: timer_handler ticks, and dispatch loads the callback; the *)
(* ports that the others read are left out.                                  *)
HandlerBody ==
    /\ h.pc = "body" /\ panic = "no"
    /\ left' = IF h.vec = 0 /\ left > 0 THEN left - 1 ELSE left
    /\ h' = LET cb == Dispatch(h.vec)
            IN  [h EXCEPT !.cb = cb, !.pc = IF cb = None THEN AfterCall ELSE "call"]
    /\ UNCHANGED <<hw, iflag, saved, panic, th, local, pics, serial>>

(* The callback: println!, which takes the lock of the framebuffer inside    *)
(* without_interrupts; serial_println!; unregister or mask_irq of its line.  *)
CallFb ==
    /\ h.pc = "call" /\ panic = "no" /\ h.cb = "fb" /\ th # "fb"
    /\ SaveAndDisable /\ h' = [h EXCEPT !.pc = "fb"]
    /\ UNCHANGED <<hw, panic, th, local, pics, serial, left>>

CallFbEnd ==
    /\ h.pc = "fb" /\ panic = "no"
    /\ Restore /\ h' = [h EXCEPT !.pc = AfterCall]
    /\ UNCHANGED <<hw, panic, th, local, pics, serial, left>>

CallSerial ==
    /\ h.pc = "call" /\ panic = "no" /\ h.cb = "serial" /\ ~serial
    /\ serial' = TRUE /\ h' = [h EXCEPT !.pc = "serial"]
    /\ UNCHANGED <<hw, iflag, saved, panic, th, local, pics, left>>

CallSerialEnd ==
    /\ h.pc = "serial" /\ panic = "no"
    /\ serial' = FALSE /\ h' = [h EXCEPT !.pc = AfterCall]
    /\ UNCHANGED <<hw, iflag, saved, panic, th, local, pics, left>>

CallOnce ==
    /\ h.pc = "call" /\ panic = "no" /\ h.cb = "once"
    /\ table' = [table EXCEPT ![h.vec] = None] /\ h' = [h EXCEPT !.pc = AfterCall]
    /\ UNCHANGED <<irr, isr, imr, iflag, saved, panic, th, local, pics, serial, left>>

CallMask ==
    /\ h.pc = "call" /\ panic = "no" /\ h.cb = "mask" /\ ~pics
    /\ imr' = imr \cup {h.vec} /\ h' = [h EXCEPT !.pc = AfterCall]
    /\ UNCHANGED <<irr, isr, table, iflag, saved, panic, th, local, pics, serial, left>>

Call == CallFb \/ CallFbEnd \/ CallSerial \/ CallSerialEnd \/ CallOnce \/ CallMask

(* end_of_interrupt takes the lock of the controllers. *)
HandlerEoi ==
    /\ h.pc = "eoi" /\ panic = "no" /\ ~pics
    /\ isr' = AfterEoi
    /\ h' = [h EXCEPT !.pc = "iret"]
    /\ UNCHANGED <<irr, imr, table, iflag, saved, panic, th, local, pics, serial, left>>

HandlerReturn ==
    /\ h.pc = "iret" /\ panic = "no"
    /\ h' = Idle /\ iflag' = TRUE
    /\ UNCHANGED <<hw, saved, panic, th, local, pics, serial, left>>

-----------------------------------------------------------------------------
(* The thread. *)

At(place) == Running /\ th = place

Enable ==
    /\ At("boot") /\ th' = "idle" /\ iflag' = TRUE
    /\ UNCHANGED <<hw, saved, h, panic, local, pics, serial, left>>

(* A port holds the mask of one controller. *)
Port(l) == IF l \in Master THEN Master ELSE Slave

Read(l) == local' = [irq |-> l, imr |-> imr \cap Port(l)]

Write(mask) == imr' = (imr \ Port(local.irq)) \cup mask

(* mask_irq reads and writes the mask under the lock, with interrupts as     *)
(* they are.                                                                 *)
MaskLock(l) ==
    /\ At("idle") /\ ~pics
    /\ pics' = TRUE /\ th' = "mask" /\ Read(l)
    /\ UNCHANGED <<hw, cpu, serial, left>>

MaskWrite ==
    /\ At("mask")
    /\ Write(local.imr \cup {local.irq}) /\ th' = "masked"
    /\ UNCHANGED <<irr, isr, table, cpu, local, pics, serial, left>>

MaskUnlock ==
    /\ At("masked")
    /\ pics' = FALSE /\ th' = "idle" /\ local' = NoLocal
    /\ UNCHANGED <<hw, cpu, serial, left>>

(* unmask_irq does the same without the lock. *)
UnmaskRead(l) ==
    /\ At("idle") /\ th' = "unmask" /\ Read(l)
    /\ UNCHANGED <<hw, cpu, pics, serial, left>>

(* Mutant of UnmaskWrite: the mask of the whole controller is cleared. *)
UnmaskWriteAll ==
    /\ At("unmask")
    /\ Write({}) /\ th' = "idle" /\ local' = NoLocal
    /\ UNCHANGED <<irr, isr, table, cpu, pics, serial, left>>

UnmaskWrite ==
    /\ At("unmask")
    /\ Write(local.imr \ {local.irq}) /\ th' = "idle" /\ local' = NoLocal
    /\ UNCHANGED <<irr, isr, table, cpu, pics, serial, left>>

(* dispatch::register, a compare_exchange that fails on a line in use, and   *)
(* unregister.                                                               *)
Register(l, f) ==
    /\ At("idle") /\ table[l] = None
    /\ table' = [table EXCEPT ![l] = f]
    /\ UNCHANGED <<irr, isr, imr, cpu, th, local, pics, serial, left>>

Unregister(l) ==
    /\ At("idle") /\ table' = [table EXCEPT ![l] = None]
    /\ UNCHANGED <<irr, isr, imr, cpu, th, local, pics, serial, left>>

DisablePic ==
    /\ At("idle") /\ imr' = Master \cup Slave
    /\ UNCHANGED <<irr, isr, table, cpu, th, local, pics, serial, left>>

IrqLock ==
    /\ At("idle") /\ Len(saved) < MaxNest /\ SaveAndDisable
    /\ UNCHANGED <<hw, h, panic, th, local, pics, serial, left>>

IrqUnlock ==
    /\ At("idle") /\ saved # <<>> /\ Restore
    /\ UNCHANGED <<hw, h, panic, th, local, pics, serial, left>>

(* Mutant of FbPrint: printing with interrupts as they are. *)
FbPrintOpen ==
    /\ At("idle") /\ Len(saved) < MaxNest /\ saved' = Append(saved, iflag) /\ th' = "fb"
    /\ UNCHANGED <<hw, iflag, h, panic, local, pics, serial, left>>

FbPrint ==
    /\ At("idle") /\ Len(saved) < MaxNest /\ SaveAndDisable /\ th' = "fb"
    /\ UNCHANGED <<hw, h, panic, local, pics, serial, left>>

FbPrinted ==
    /\ At("fb") /\ Restore /\ th' = "idle"
    /\ UNCHANGED <<hw, h, panic, local, pics, serial, left>>

SerialPrint ==
    /\ At("idle") /\ ~serial /\ serial' = TRUE /\ th' = "serial"
    /\ UNCHANGED <<hw, cpu, local, pics, left>>

SerialPrinted ==
    /\ At("serial") /\ serial' = FALSE /\ th' = "idle"
    /\ UNCHANGED <<hw, cpu, local, pics, left>>

Sleep(n) ==
    /\ At("idle") /\ left' = n /\ th' = "sleep"
    /\ UNCHANGED <<hw, cpu, local, pics, serial>>

Wake ==
    /\ At("sleep") /\ left = 0 /\ th' = "idle"
    /\ UNCHANGED <<hw, cpu, local, pics, serial, left>>

-----------------------------------------------------------------------------
(* A fault, an NMI or an assertion, wherever the CPU is; the panic handler   *)
(* too may be hit, and if it is while it prints it starts "again".           *)
Fault ==
    /\ th # "boot" /\ iflag' = FALSE
    /\ panic' = IF panic \in {"writing", "again"} THEN "again" ELSE "printing"
    /\ UNCHANGED <<hw, saved, h, th, local, pics, serial, left>>

(* It prints to the serial port, with its lock, and halts. *)
PanicLock ==
    /\ panic \in {"printing", "again"} /\ ~serial
    /\ panic' = "writing" /\ serial' = TRUE
    /\ UNCHANGED <<hw, iflag, saved, h, th, local, pics, left>>

PanicPrinted ==
    /\ panic = "writing" /\ panic' = "halted" /\ serial' = FALSE
    /\ UNCHANGED <<hw, iflag, saved, h, th, local, pics, left>>

ThreadStep ==
    \/ Enable \/ MaskWrite \/ MaskUnlock \/ UnmaskWrite
    \/ FbPrinted \/ SerialPrinted \/ Wake

PanicStep == PanicLock \/ PanicPrinted

HandlerStep == HandlerBody \/ Call \/ HandlerEoi \/ HandlerReturn

Next ==
    \/ \E l \in Devices : Raise(l) \/ Deliver(l) \/ DeliverSpurious(l)
    \/ DeliverApic
    \/ HandlerStep
    \/ ThreadStep
    \/ (\E l \in MaskLines : MaskLock(l)) \/ (\E l \in UnmaskLines : UnmaskRead(l))
    \/ \E l \in RegLines : Unregister(l) \/ \E f \in Callbacks : Register(l, f)
    \/ DisablePic \/ IrqLock \/ IrqUnlock \/ FbPrint \/ SerialPrint
    \/ \E n \in 0..MaxSleep : Sleep(n)
    \/ Fault \/ PanicStep

(* The CPU runs on, the PIT is periodic, and what a controller asks for is   *)
(* not put off for ever by spurious interrupts of the LAPIC.  Strong for the *)
(* thread: a handler takes less than a tick, so that the code it interrupted *)
(* gets on between two of them.                                              *)
Spec ==
    /\ Init /\ [][Next]_vars
    /\ SF_vars(ThreadStep) /\ WF_vars(HandlerStep) /\ WF_vars(PanicStep)
    /\ WF_vars(Raise(0)) /\ SF_vars(\E l \in Devices : Deliver(l))

-----------------------------------------------------------------------------
(* Outside a handler no line is in service, and in one exactly the line it   *)
(* serves is, with the cascade for a slave's, until it is acknowledged.  A   *)
(* line that is left in service blocks every line below it for ever; one     *)
(* that is acknowledged without being in service clears somebody else's.     *)
InServiceMatches ==
    panic = "no" =>
        /\ h.pc \in {"none", "iret"} => isr = {}
        /\ h.pc \in {"call", "fb", "serial", "eoi"} => AfterEoi = {} /\ isr # {}

(* Interrupts are on exactly outside handlers and guards, and guards nest: a *)
(* callback's inside the handler, with nothing of the thread's under it.     *)
(* Were a guard to enable what it did not disable, a callback that prints    *)
(* would let the next interrupt into the handler before its acknowledgement. *)
GuardsNest ==
    panic = "no" /\ th # "boot" =>
        /\ iflag <=> saved = <<>> /\ h.pc = "none"
        /\ h.pc # "none" => saved = IF h.pc = "fb" THEN <<FALSE>> ELSE <<>>

(* A line that is masked stays so until unmask_irq is called for it, with    *)
(* one exception that the missing lock of unmask_irq allows: a callback has  *)
(* masked it after unmask_irq read the mask for another line of the same     *)
(* controller, and unmask_irq then writes back what it has read.  mask_irq,  *)
(* which reads and writes in the same way, never loses one: it has the lock. *)
MasksStick ==
    [][\A l \in imr \ imr' : th = "unmask" /\ (l = local.irq \/ l \notin local.imr)]_vars

(* A handler returns, its callback included, and a panic ends in the halt    *)
(* loop, unless they need a lock that what they interrupted holds: mask_irq  *)
(* the lock of the controllers, a print its lock of the serial port, and a   *)
(* panic that is hit by a fault while it prints.  A callback that prints to  *)
(* the framebuffer is no exception: without_interrupts keeps it out.         *)
HandlersEnd ==
    (h.pc # "none" \/ panic # "no") ~>
        \/ h.pc = "none" /\ panic = "no"
        \/ panic = "halted"
        \/ panic = "no" /\ (th \in {"mask", "masked"} \/ (h.cb = "serial" /\ th = "serial"))
        \/ panic = "printing" /\ (th = "serial" \/ h.pc = "serial")
        \/ panic = "again"

(* A sleep that starts with interrupts enabled and the timer's line open     *)
(* ends however many ticks it takes, whatever other lines, callbacks and     *)
(* spurious interrupts come in between; unless the timer's own callback      *)
(* masks the line before the last of them, after which nobody can wake the   *)
(* thread.  A callback that masks it at the last tick does no harm.          *)
SleepEnds ==
    (th = "sleep" /\ iflag /\ 0 \notin imr)
        ~> (th # "sleep" \/ panic # "no" \/ (0 \in imr /\ left > 0))

(* A callback that stays registered for the timer is called again and again, *)
(* whatever other lines do and however often interrupts are off, as long as  *)
(* they are not off for good and the line is not masked.                     *)
CallbackReached ==
    <>[](table[0] # None /\ 0 \notin imr /\ panic = "no") /\ []<>iflag
        => []<>(h.pc = "call" /\ h.vec = 0)

=============================================================================
