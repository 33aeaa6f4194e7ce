-------------------------- MODULE InterruptsProofs --------------------------
(***************************************************************************)
(* Acknowledgement, nesting of guards and the masks, for every set of      *)
(* devices, flaky lines, callbacks and lines that are masked, and for any  *)
(* number of guards.                                                       *)
(***************************************************************************)
EXTENDS Interrupts, SequenceTheorems, TLAPS

-----------------------------------------------------------------------------
(* The inductive invariant. *)

Places == {"none", "body", "call", "fb", "serial", "eoi", "iret"}

TypeInv ==
    /\ iflag \in BOOLEAN /\ saved \in Seq(BOOLEAN)
    /\ h \in [pc : Places, vec : Nat, cb : Callbacks \cup {None}]
    /\ table \in [RegLines -> Callbacks \cup {None}]
    /\ imr \subseteq 0..15 /\ local \in [irq : 0..15, imr : SUBSET (0..15)]

(* What may be in service while the handler of a vector runs: the line and   *)
(* the cascade of a slave's, and for the two spurious vectors also without   *)
(* the line.                                                                 *)
Owed(v) ==
    IF v = Apic THEN {{}}
    ELSE IF v = 7 THEN {{7}, {}}
    ELSE IF v = 15 THEN {{15, Cascade}, {Cascade}}
    ELSE {{v, Input(v)}}

(* A handler that has got as far as its callback or its acknowledgement is   *)
(* one that acknowledges.                                                    *)
ServiceInv ==
    panic = "no" =>
        /\ h.pc # "none" => h.vec \in IDT \cup {Apic}
        /\ h.pc \in {"none", "iret"} => isr = {}
        /\ h.pc \in {"body", "call", "fb", "serial", "eoi"} => isr \in Owed(h.vec)
        /\ h.pc \in {"call", "fb", "serial", "eoi"} => SendsEoi

(* The first guard has saved that interrupts were on, those inside it that   *)
(* they were off; the thread prints under a guard, and then no handler runs. *)
GuardInv ==
    /\ th = "boot" => ~iflag /\ saved = <<>> /\ h.pc = "none" /\ panic = "no"
    /\ panic = "no" /\ th # "boot" =>
           /\ iflag <=> saved = <<>> /\ h.pc = "none"
           /\ h.pc # "none" => saved = IF h.pc = "fb" THEN <<FALSE>> ELSE <<>>
           /\ h.pc = "none" => \A n \in 1..Len(saved) : saved[n] <=> n = 1
           /\ th = "fb" => saved # <<>> /\ h.pc = "none"

(* From its read of the mask to its write mask_irq has the lock, and what it *)
(* has read is still so.                                                     *)
MaskInv ==
    /\ th \in {"mask", "masked"} => pics
    /\ th = "mask" => imr \cap Port(local.irq) \subseteq local.imr

IndInv == TypeInv /\ ServiceInv /\ GuardInv /\ MaskInv

-----------------------------------------------------------------------------
(* The controllers. *)

(* Clearing the highest line in service of a controller that has only one    *)
(* leaves it none.                                                           *)
LEMMA EoiOfOne ==
    ASSUME NEW s, NEW lines, NEW x \in Int, s \cap lines = {x}
    PROVE  Eoi(s, lines) = s \ {x}
<1>1. Min({x}) = x
  BY DEF Min
<1> QED BY <1>1 DEF Eoi

(* A controller that has no line in service is left alone. *)
LEMMA EoiOfNone ==
    ASSUME NEW s, NEW lines, s \cap lines = {}
    PROVE  Eoi(s, lines) = s
  BY DEF Eoi

(* A handler that acknowledges has a line in service, and leaves none. *)
LEMMA AcknowledgesAll ==
    ASSUME h.vec \in IDT \cup {Apic}, isr \in Owed(h.vec), SendsEoi
    PROVE  AfterEoi = {} /\ isr # {}
<1>1. CASE h.vec = 7 \/ h.vec \in {0, 1}
  <2>1. isr = {h.vec} /\ h.vec \in Int /\ h.vec \notin Slave /\ isr \cap Master = {h.vec}
    BY <1>1 DEF Owed, SendsEoi, Input, Slave, Master, Apic
  <2>2. EndOfInterrupt(h.vec, isr) = {}
    BY <2>1, EoiOfOne DEF EndOfInterrupt
  <2> QED BY <1>1, <2>1, <2>2 DEF AfterEoi
<1>2. CASE h.vec \in {8, 12, 14} \/ (h.vec = 15 /\ 15 \in isr)
  <2>1. isr = {h.vec, Cascade} /\ h.vec \in Int /\ h.vec \in Slave /\ isr \cap Slave = {h.vec}
    BY <1>2 DEF Owed, Input, Slave, Apic, Cascade
  <2>2. Eoi(isr, Slave) = isr \ {h.vec}
    BY <2>1, EoiOfOne
  <2>3. Eoi(isr, Slave) = {Cascade} /\ {Cascade} \cap Master = {Cascade}
    BY <2>1, <2>2 DEF Cascade, Slave, Master
  <2>4. Eoi({Cascade}, Master) = {}
    BY <2>3, EoiOfOne DEF Cascade
  <2> QED BY <1>2, <2>1, <2>3, <2>4 DEF AfterEoi, EndOfInterrupt
<1>3. CASE h.vec = 15 /\ 15 \notin isr
  <2>1. isr = {Cascade} /\ {Cascade} \cap Master = {Cascade} /\ 0 \notin Slave
    BY <1>3 DEF Owed, Apic, Cascade, Master, Slave
  <2>2. Eoi({Cascade}, Master) = {}
    BY <2>1, EoiOfOne DEF Cascade
  <2> QED BY <1>3, <2>1, <2>2 DEF AfterEoi, EndOfInterrupt
<1> QED BY <1>1, <1>2, <1>3 DEF IDT, SendsEoi

-----------------------------------------------------------------------------
(* Sequences over any set, among them those of flags. *)

(* The empty sequence is one. *)
LEMMA EmptyIsSeq == \A S : <<>> \in Seq(S)
  OBVIOUS

(* A sequence of one is not empty. *)
LEMMA OneIsNotNone == \A x : <<x>> # <<>>
  OBVIOUS

(* It is what is appended to the empty one, and its end. *)
LEMMA OneElement == \A x : Append(<<>>, x) = <<x>> /\ <<x>>[Len(<<x>>)] = x /\ Front(<<x>>) = <<>>
  BY DEF Front

(* The last element, and what is left without it. *)
LEMMA LastAndFront ==
    ASSUME NEW S, NEW s \in Seq(S), s # <<>>
    PROVE  /\ Len(s) \in Nat \ {0} /\ s[Len(s)] \in S
           /\ Front(s) \in Seq(S) /\ Len(Front(s)) = Len(s) - 1
           /\ \A n \in 1..(Len(s) - 1) : Front(s)[n] = s[n]
<1>1. Len(s) \in Nat \ {0} /\ s[Len(s)] \in S
  OBVIOUS
<1>2. \A n \in 1..(Len(s) - 1) : s[n] \in S
  BY <1>1
<1>3. /\ SubSeq(s, 1, Len(s) - 1) \in Seq(S)
      /\ Len(SubSeq(s, 1, Len(s) - 1)) = IF 1 <= Len(s) - 1 THEN Len(s) - 1 - 1 + 1 ELSE 0
      /\ \A n \in 1..(Len(s) - 1 - 1 + 1) : SubSeq(s, 1, Len(s) - 1)[n] = s[1 + n - 1]
  BY <1>1, <1>2, SubSeqProperties
<1>4. Len(SubSeq(s, 1, Len(s) - 1)) = Len(s) - 1
  <2>1. \A a \in Nat \ {0} : (IF 1 <= a - 1 THEN a - 1 - 1 + 1 ELSE 0) = a - 1
    OBVIOUS
  <2> QED BY <1>1, <1>3, <2>1, Zenon
<1>5. ASSUME NEW n \in 1..(Len(s) - 1)
      PROVE  SubSeq(s, 1, Len(s) - 1)[n] = s[n]
  <2>1. n \in 1..(Len(s) - 1 - 1 + 1) /\ 1 + n - 1 = n
    BY <1>1
  <2> QED BY <1>3, <2>1
<1> QED BY <1>1, <1>3, <1>4, <1>5, Zenon DEF Front

-----------------------------------------------------------------------------
(* The invariant holds initially. *)
LEMMA InitIndInv == Init => IndInv
<1> SUFFICES ASSUME Init PROVE IndInv
  OBVIOUS
<1>1. TypeInv
  <2>1. iflag \in BOOLEAN /\ saved \in Seq(BOOLEAN)
    BY EmptyIsSeq DEF Init
  <2>2. h \in [pc : Places, vec : Nat, cb : Callbacks \cup {None}]
    BY DEF Init, Idle, Places
  <2>4. table \in [RegLines -> Callbacks \cup {None}]
    BY DEF Init
  <2>3. imr \subseteq 0..15 /\ local \in [irq : 0..15, imr : SUBSET (0..15)]
    BY DEF Init, NoLocal, Slave
  <2> QED BY <2>1, <2>2, <2>3, <2>4 DEF TypeInv
<1>2. ServiceInv
  BY DEF Init, ServiceInv, Idle
<1>3. GuardInv
  BY DEF Init, GuardInv, Idle
<1>4. MaskInv
  BY DEF Init, MaskInv
<1> QED BY <1>1, <1>2, <1>3, <1>4 DEF IndInv

-----------------------------------------------------------------------------
(* Guards. *)

(* A guard that disables adds what the flag was. *)
LEMMA SaveEffect ==
    ASSUME saved \in Seq(BOOLEAN), iflag \in BOOLEAN, SaveAndDisable
    PROVE  /\ saved' \in Seq(BOOLEAN) /\ iflag' = FALSE
           /\ Len(saved') = Len(saved) + 1 /\ saved' # <<>>
           /\ saved'[Len(saved) + 1] = iflag
           /\ \A n \in 1..Len(saved) : saved'[n] = saved[n]
  BY DEF SaveAndDisable

(* A guard that ends takes it off again. *)
LEMMA RestoreEffect ==
    ASSUME saved \in Seq(BOOLEAN), saved # <<>>, Restore
    PROVE  /\ saved' \in Seq(BOOLEAN) /\ iflag' = saved[Len(saved)] /\ iflag' \in BOOLEAN
           /\ Len(saved') = Len(saved) - 1
           /\ \A n \in 1..Len(saved') : saved'[n] = saved[n]
  BY LastAndFront DEF Restore

-----------------------------------------------------------------------------
(* Types. *)

(* The lines that are used are lines of the controllers. *)
LEMMA InputIsLine == \A l \in 0..15 : Input(l) \in 0..15 /\ Port(l) \subseteq 0..15
  BY DEF Input, Port, Master, Slave, Cascade

(* A vector that is delivered leaves a flag and a handler. *)
LEMMA EnterTypes ==
    ASSUME TypeInv, NEW v \in Nat, Enter(v)
    PROVE  TypeInv'
<1>1. [Idle EXCEPT !.pc = "body", !.vec = v] \in [pc : Places, vec : Nat, cb : Callbacks \cup {None}]
  BY DEF Idle, Places
<1> QED BY <1>1 DEF Enter, TypeInv

(* Every step keeps the types. *)
LEMMA TypeStep == ASSUME IndInv, Next PROVE TypeInv'
<1> USE InterruptsAssumption
<1>0. TypeInv
  BY DEF IndInv
<1> USE <1>0
<1>1. ASSUME NEW l \in Devices, Raise(l) \/ Deliver(l) \/ DeliverSpurious(l) PROVE TypeInv'
  <2>1. CASE Raise(l)
    BY <2>1 DEF TypeInv, Raise, cpu
  <2>2. CASE Deliver(l)
    BY <2>2, EnterTypes DEF Deliver
  <2>3. CASE DeliverSpurious(l)
    BY <2>3, EnterTypes DEF DeliverSpurious
  <2> QED BY <1>1, <2>1, <2>2, <2>3
<1>2. CASE DeliverApic
  BY <1>2, EnterTypes DEF DeliverApic, Apic
<1>3. CASE HandlerStep
  <2> USE DEF hw, Places
  <2>1. CASE HandlerBody
    <3>1. Dispatch(h.vec) \in Callbacks \cup {None} /\ AfterCall \in Places
      BY DEF TypeInv, Dispatch, AfterCall
    <3> QED BY <2>1, <3>1 DEF TypeInv, HandlerBody
  <2>2. CASE CallFb
    BY <2>2, SaveEffect DEF TypeInv, CallFb
  <2>3. CASE CallFbEnd
    <3>1. saved # <<>>
      BY <2>3, OneIsNotNone DEF IndInv, GuardInv, CallFbEnd
    <3> QED BY <2>3, <3>1, RestoreEffect DEF TypeInv, CallFbEnd, AfterCall
  <2>4. CASE CallSerial
    BY <2>4 DEF TypeInv, CallSerial
  <2>5. CASE CallSerialEnd
    BY <2>5 DEF TypeInv, CallSerialEnd, AfterCall
  <2>6. CASE CallOnce
    BY <2>6 DEF TypeInv, CallOnce, AfterCall
  <2>7. CASE CallMask
    <3>1. h.vec \in 0..15
      BY <2>7 DEF IndInv, ServiceInv, CallMask, SendsEoi, IDT
    <3> QED BY <2>7, <3>1 DEF TypeInv, CallMask, AfterCall
  <2>8. CASE HandlerEoi
    BY <2>8 DEF TypeInv, HandlerEoi
  <2>9. CASE HandlerReturn
    BY <2>9 DEF TypeInv, HandlerReturn, Idle
  <2> QED BY <1>3, <2>1, <2>2, <2>3, <2>4, <2>5, <2>6, <2>7, <2>8, <2>9 DEF HandlerStep, Call
<1>4. CASE ThreadStep
  <2> USE DEF hw, cpu
  <2>0. NoLocal \in [irq : 0..15, imr : SUBSET (0..15)]
    BY DEF NoLocal
  <2>1. CASE Enable \/ SerialPrinted \/ Wake
    BY <2>1 DEF TypeInv, Enable, SerialPrinted, Wake
  <2>4. CASE MaskUnlock
    BY <2>0, <2>4 DEF TypeInv, MaskUnlock
  <2>2. CASE MaskWrite \/ UnmaskWrite
    <3>1. local' \in [irq : 0..15, imr : SUBSET (0..15)]
      BY <2>0, <2>2 DEF TypeInv, MaskWrite, UnmaskWrite
    <3>2. imr' \subseteq 0..15
      BY <2>2 DEF TypeInv, MaskWrite, UnmaskWrite, Write
    <3> QED BY <2>2, <3>1, <3>2 DEF TypeInv, MaskWrite, UnmaskWrite
  <2>3. CASE FbPrinted
    <3>1. saved # <<>>
      BY <2>3 DEF IndInv, GuardInv, FbPrinted, At, Running
    <3> QED BY <2>3, <3>1, RestoreEffect DEF TypeInv, FbPrinted
  <2> QED BY <1>4, <2>1, <2>2, <2>3, <2>4 DEF ThreadStep
<1>5. ASSUME NEW l \in MaskLines \cup UnmaskLines, MaskLock(l) \/ UnmaskRead(l) PROVE TypeInv'
  <2>1. local' \in [irq : 0..15, imr : SUBSET (0..15)]
    <3>1. local' = [irq |-> l, imr |-> imr \cap Port(l)] /\ l \in 0..15
      BY <1>5 DEF MaskLock, UnmaskRead, Read
    <3>2. imr \cap Port(l) \in SUBSET (0..15)
      BY DEF TypeInv
    <3> QED BY <3>1, <3>2
  <2> QED BY <1>5, <2>1 DEF TypeInv, MaskLock, UnmaskRead, hw, cpu
<1>6. ASSUME NEW l \in RegLines, Unregister(l) \/ \E f \in Callbacks : Register(l, f) PROVE TypeInv'
  <2>1. table' \in [RegLines -> Callbacks \cup {None}]
    BY <1>6 DEF TypeInv, Unregister, Register
  <2> QED BY <1>6, <2>1 DEF TypeInv, Unregister, Register, cpu
<1>7. CASE DisablePic
  BY <1>7 DEF TypeInv, DisablePic, cpu, Master, Slave
<1>8. CASE IrqLock \/ FbPrint
  BY <1>8, SaveEffect DEF TypeInv, IrqLock, FbPrint, hw
<1>9. CASE IrqUnlock
  BY <1>9, RestoreEffect DEF TypeInv, IrqUnlock, hw
<1>10. CASE SerialPrint \/ (\E n \in 0..MaxSleep : Sleep(n)) \/ Fault \/ PanicStep
  BY <1>10 DEF TypeInv, SerialPrint, Sleep, Fault, PanicStep, PanicLock, PanicPrinted, hw, cpu
<1> QED BY <1>1, <1>2, <1>3, <1>4, <1>5, <1>6, <1>7, <1>8, <1>9, <1>10 DEF Next

-----------------------------------------------------------------------------
(* Acknowledgement. *)

(* Nothing is in service when a vector is delivered, and a line or its       *)
(* spurious vector puts in service what its handler acknowledges.            *)
LEMMA EnterService ==
    ASSUME NEW v \in 0..15 \cup {Apic}, Enter(v), h.pc = "none", panic = "no",
           isr' \in Owed(v), TypeInv
    PROVE  ServiceInv'
<1>1. CASE v \in IDT \cup {Apic}
  <2>1. h' = [Idle EXCEPT !.pc = "body", !.vec = v]
    BY <1>1 DEF Enter
  <2>2. h'.pc = "body" /\ h'.vec = v
    BY <2>1 DEF Idle
  <2> QED BY <1>1, <2>2 DEF ServiceInv
<1>2. CASE v \notin IDT \cup {Apic}
  BY <1>2 DEF Enter, ServiceInv
<1> QED BY <1>1, <1>2

(* What is in service stays so, and with it whether the handler acknowledges. *)
LEMMA SameService ==
    ASSUME ServiceInv, UNCHANGED <<isr, h>>, panic' = "no" => panic = "no"
    PROVE  ServiceInv'
  BY DEF ServiceInv, SendsEoi

(* The handler goes on to another place before its acknowledgement. *)
LEMMA HandlerMoves ==
    ASSUME ServiceInv, panic = "no", UNCHANGED <<isr, panic>>, h' \in [pc : Places, vec : Nat, cb : Callbacks \cup {None}],
           h.pc \in {"body", "call", "fb", "serial", "eoi"}, h'.vec = h.vec,
           h'.pc \in {"call", "fb", "serial", "eoi"}, SendsEoi
    PROVE  ServiceInv'
  BY DEF ServiceInv, SendsEoi

(* Every step keeps in service what the handler acknowledges. *)
LEMMA ServiceStep == ASSUME IndInv, Next PROVE ServiceInv'
<1>0. TypeInv /\ ServiceInv /\ TypeInv'
  BY TypeStep DEF IndInv
<1> USE InterruptsAssumption
<1>1. ASSUME NEW l \in Devices, Deliver(l) PROVE ServiceInv'
  <2>1. l \in 0..15 /\ isr = {} /\ h.pc = "none" /\ panic = "no"
    BY <1>0, <1>1 DEF Deliver, Running, ServiceInv
  <2>2. isr' = {l, Input(l)} /\ {l, Input(l)} \in Owed(l)
    BY <1>1, <2>1 DEF Deliver, Owed, Input, Apic, Slave
  <2> QED BY <1>0, <1>1, <2>1, <2>2, EnterService DEF Deliver
<1>2. ASSUME NEW l \in Devices, DeliverSpurious(l) PROVE ServiceInv'
  <2>1. l \in 0..15 /\ isr = {} /\ h.pc = "none" /\ panic = "no"
    BY <1>0, <1>2 DEF DeliverSpurious, Running, ServiceInv
  <2>2. CASE l \in Slave
    BY <1>0, <1>2, <2>1, <2>2, EnterService DEF DeliverSpurious, Owed, Apic
  <2>3. CASE l \notin Slave
    BY <1>0, <1>2, <2>1, <2>3, EnterService DEF DeliverSpurious, Owed, Apic
  <2> QED BY <2>2, <2>3
<1>3. CASE DeliverApic
  <2>1. isr' = {} /\ h.pc = "none" /\ panic = "no" /\ Enter(Apic)
    BY <1>0, <1>3 DEF DeliverApic, Running, ServiceInv
  <2> QED BY <1>0, <2>1, EnterService DEF Owed
<1>4. CASE HandlerBody
  <2>1. /\ isr \in Owed(h.vec) /\ h.vec \in IDT \cup {Apic} /\ panic = "no"
        /\ isr' = isr /\ panic' = panic /\ h'.vec = h.vec
        /\ h'.pc = IF Dispatch(h.vec) = None THEN AfterCall ELSE "call"
    BY <1>0, <1>4 DEF HandlerBody, ServiceInv, TypeInv, hw
  <2>2. Dispatch(h.vec) # None => SendsEoi
    BY DEF Dispatch, Dispatched, SendsEoi, Apic
  <2>3. CASE SendsEoi
    BY <1>0, <1>4, <2>1, <2>3, HandlerMoves DEF AfterCall, HandlerBody, TypeInv
  <2>4. CASE ~SendsEoi
    <3>1. isr = {} /\ h'.pc = "iret"
      BY <2>1, <2>2, <2>4 DEF SendsEoi, AfterCall, Owed, Apic
    <3> QED BY <2>1, <3>1 DEF ServiceInv
  <2> QED BY <2>3, <2>4
<1>5. CASE Call
  <2>1. /\ h.pc \in {"call", "fb", "serial"} /\ panic = "no" /\ UNCHANGED <<isr, panic>>
        /\ h'.vec = h.vec /\ h'.pc \in {"fb", "serial", AfterCall}
    BY <1>0, <1>5 DEF Call, CallFb, CallFbEnd, CallSerial, CallSerialEnd, CallOnce, CallMask, TypeInv, hw
  <2>2. SendsEoi
    BY <1>0, <2>1 DEF ServiceInv
  <2> QED BY <1>0, <2>1, <2>2, HandlerMoves DEF AfterCall, TypeInv
<1>6. CASE HandlerEoi
  <2>1. AfterEoi = {} /\ isr' = {} /\ h'.pc = "iret" /\ h'.vec = h.vec /\ h.vec \in IDT \cup {Apic}
    BY <1>0, <1>6, AcknowledgesAll DEF HandlerEoi, ServiceInv, TypeInv
  <2> QED BY <2>1 DEF ServiceInv
<1>7. CASE HandlerReturn
  BY <1>0, <1>7 DEF HandlerReturn, ServiceInv, Idle, hw
<1>8. ASSUME UNCHANGED <<isr, h>>, panic' = "no" => panic = "no" PROVE ServiceInv'
  BY <1>0, <1>8, SameService
<1>9. ASSUME NEW l \in Devices, Raise(l) PROVE ServiceInv'
  BY <1>8, <1>9 DEF Raise, cpu
<1>10. CASE ThreadStep
  BY <1>8, <1>10 DEF ThreadStep, Enable, MaskWrite, MaskUnlock, UnmaskWrite, FbPrinted,
     SerialPrinted, Wake, hw, cpu
<1>11. ASSUME NEW l, MaskLock(l) \/ UnmaskRead(l) PROVE ServiceInv'
  BY <1>8, <1>11 DEF MaskLock, UnmaskRead, hw, cpu
<1>12. ASSUME NEW l, Unregister(l) \/ \E f \in Callbacks : Register(l, f) PROVE ServiceInv'
  BY <1>8, <1>12 DEF Unregister, Register, cpu
<1>13. CASE DisablePic \/ IrqLock \/ IrqUnlock \/ FbPrint \/ SerialPrint
  BY <1>8, <1>13 DEF DisablePic, IrqLock, IrqUnlock, FbPrint, SerialPrint, hw, cpu
<1>14. CASE (\E n \in 0..MaxSleep : Sleep(n)) \/ Fault \/ PanicStep
  BY <1>8, <1>14 DEF Sleep, Fault, PanicStep, PanicLock, PanicPrinted, hw, cpu
<1> QED BY <1>1, <1>2, <1>3, <1>4, <1>5, <1>6, <1>7, <1>9, <1>10, <1>11, <1>12, <1>13, <1>14
        DEF Next, HandlerStep

-----------------------------------------------------------------------------
(* Guards and the interrupt flag. *)

(* The thread takes a guard: only the outermost has saved that interrupts    *)
(* were on.                                                                  *)
LEMMA ThreadLocks ==
    ASSUME TypeInv, GuardInv, Running, th # "boot", SaveAndDisable, UNCHANGED <<h, panic>>, th' # "boot"
    PROVE  GuardInv'
<1>1. iflag <=> saved = <<>>
  BY DEF GuardInv, Running
<1>2. /\ saved' \in Seq(BOOLEAN) /\ iflag' = FALSE
      /\ Len(saved') = Len(saved) + 1 /\ saved' # <<>>
      /\ saved'[Len(saved) + 1] = iflag
      /\ \A n \in 1..Len(saved) : saved'[n] = saved[n]
  BY SaveEffect DEF TypeInv
<1>3. \A n \in 1..Len(saved) : saved[n] <=> n = 1
  BY DEF GuardInv, Running
<1>4. Len(saved) \in Nat /\ (saved = <<>> <=> Len(saved) = 0)
  BY DEF TypeInv
<1>5. ASSUME NEW n \in 1..Len(saved') PROVE saved'[n] <=> n = 1
  <2>1. CASE n \in 1..Len(saved)
    BY <1>2, <1>3, <2>1
  <2>2. CASE n = Len(saved) + 1
    <3>1. n = 1 <=> Len(saved) = 0
      BY <1>4, <2>2
    <3> QED BY <1>1, <1>2, <1>4, <2>2, <3>1
  <2> QED BY <1>2, <1>4, <2>1, <2>2
<1> QED BY <1>2, <1>5 DEF GuardInv, Running

(* It gives a guard back: interrupts are on again after the outermost. *)
LEMMA ThreadUnlocks ==
    ASSUME TypeInv, GuardInv, Running, th # "boot", saved # <<>>, Restore, UNCHANGED <<h, panic>>, th' = "idle"
    PROVE  GuardInv'
<1>1. /\ saved' \in Seq(BOOLEAN) /\ iflag' = saved[Len(saved)] /\ iflag' \in BOOLEAN
      /\ Len(saved') = Len(saved) - 1
      /\ \A n \in 1..Len(saved') : saved'[n] = saved[n]
  BY RestoreEffect DEF TypeInv
<1>2. \A n \in 1..Len(saved) : saved[n] <=> n = 1
  BY DEF GuardInv, Running
<1>3. Len(saved) \in Nat \ {0} /\ (saved' = <<>> <=> Len(saved') = 0)
  BY <1>1 DEF TypeInv
<1>4. Len(saved) \in 1..Len(saved) /\ (Len(saved') = 0 <=> Len(saved) = 1)
  BY <1>1, <1>3
<1>5. iflag' <=> saved' = <<>>
  BY <1>1, <1>2, <1>3, <1>4
<1>6. ASSUME NEW n \in 1..Len(saved') PROVE saved'[n] <=> n = 1
  <2>1. n \in 1..Len(saved) /\ saved'[n] = saved[n]
    BY <1>1, <1>3
  <2> QED BY <1>2, <2>1
<1> QED BY <1>5, <1>6 DEF GuardInv, Running

(* Interrupts were on when a vector is delivered, so that no guard is held. *)
LEMMA EnterGuards ==
    ASSUME TypeInv, GuardInv, Running, iflag, NEW v, Enter(v)
    PROVE  GuardInv'
<1>1. th # "boot" /\ th # "fb" /\ saved = <<>> /\ saved' = <<>> /\ th' = th /\ iflag' = FALSE
  BY DEF GuardInv, Running, Enter
<1>2. CASE h' = [Idle EXCEPT !.pc = "body", !.vec = v]
  <2>1. h'.pc = "body"
    BY <1>2 DEF Idle
  <2> QED BY <1>1, <2>1 DEF GuardInv
<1>3. CASE panic' = "printing"
  BY <1>1, <1>3 DEF GuardInv
<1> QED BY <1>2, <1>3 DEF Enter

(* The handler goes on, outside a guard. *)
LEMMA HandlerGuards ==
    ASSUME GuardInv, panic = "no", h.pc # "none", h.pc # "fb", h'.pc # "none", h'.pc # "fb",
           UNCHANGED <<iflag, saved, panic, th>>
    PROVE  GuardInv'
  BY DEF GuardInv

(* Every step keeps the guards nested. *)
LEMMA GuardStep == ASSUME IndInv, Next PROVE GuardInv'
<1>0. TypeInv /\ GuardInv
  BY DEF IndInv
<1> USE DEF hw, cpu
<1>1. ASSUME NEW l \in Devices, Raise(l) PROVE GuardInv'
  BY <1>0, <1>1 DEF Raise, GuardInv
<1>2. ASSUME NEW l \in Devices, Deliver(l) \/ DeliverSpurious(l) PROVE GuardInv'
  BY <1>0, <1>2, EnterGuards DEF Deliver, DeliverSpurious
<1>3. CASE DeliverApic
  BY <1>0, <1>3, EnterGuards DEF DeliverApic
<1>4. CASE HandlerBody
  <2>1. h'.pc \in {"eoi", "iret", "call"}
    BY <1>0, <1>4 DEF HandlerBody, AfterCall, TypeInv
  <2> QED BY <1>0, <1>4, <2>1, HandlerGuards DEF HandlerBody
<1>5. CASE CallFb
  <2>1. saved = <<>> /\ iflag = FALSE /\ th # "boot" /\ th # "fb" /\ h'.pc = "fb"
    BY <1>0, <1>5 DEF CallFb, GuardInv, TypeInv
  <2>2. saved' = <<FALSE>> /\ iflag' = FALSE
    BY <1>5, <2>1, OneElement DEF CallFb, SaveAndDisable
  <2> QED BY <1>5, <2>1, <2>2, OneIsNotNone DEF CallFb, GuardInv
<1>6. CASE CallFbEnd
  <2>1. saved = <<FALSE>> /\ th # "boot" /\ th # "fb"
    BY <1>0, <1>6 DEF CallFbEnd, GuardInv
  <2>2. iflag' = FALSE /\ saved' = <<>>
    BY <1>6, <2>1, OneElement DEF CallFbEnd, Restore
  <2>3. h'.pc \in {"eoi", "iret"}
    BY <1>0, <1>6 DEF CallFbEnd, AfterCall, TypeInv
  <2> QED BY <1>6, <2>1, <2>2, <2>3 DEF CallFbEnd, GuardInv
<1>7. CASE CallSerial \/ CallSerialEnd \/ CallOnce \/ CallMask
  <2>1. h'.pc \in {"serial", "eoi", "iret"}
    BY <1>0, <1>7 DEF CallSerial, CallSerialEnd, CallOnce, CallMask, AfterCall, TypeInv
  <2> QED BY <1>0, <1>7, <2>1, HandlerGuards DEF CallSerial, CallSerialEnd, CallOnce, CallMask
<1>8. CASE HandlerEoi
  <2>1. h'.pc = "iret"
    BY <1>0, <1>8 DEF HandlerEoi, TypeInv
  <2> QED BY <1>0, <1>8, <2>1, HandlerGuards DEF HandlerEoi
<1>9. CASE HandlerReturn
  <2>1. saved = <<>> /\ th # "boot" /\ th # "fb"
    BY <1>0, <1>9 DEF HandlerReturn, GuardInv
  <2> QED BY <1>9, <2>1 DEF HandlerReturn, GuardInv, Idle
<1>10. CASE Enable
  <2>1. iflag' = TRUE /\ saved' = <<>> /\ h'.pc = "none" /\ th' = "idle"
    BY <1>0, <1>10 DEF Enable, At, Running, GuardInv
  <2> QED BY <2>1 DEF GuardInv
<1>11. CASE FbPrinted
  BY <1>0, <1>11, ThreadUnlocks DEF FbPrinted, At, Running, GuardInv
<1>12. CASE IrqUnlock
  BY <1>0, <1>12, ThreadUnlocks DEF IrqUnlock, At
<1>13. CASE IrqLock \/ FbPrint
  BY <1>0, <1>13, ThreadLocks DEF IrqLock, FbPrint, At
<1>14. ASSUME UNCHANGED <<iflag, saved, h, panic>>, th # "boot", th' # "boot", th' # "fb" PROVE GuardInv'
  BY <1>0, <1>14 DEF GuardInv
<1>15. CASE MaskWrite \/ MaskUnlock \/ UnmaskWrite \/ SerialPrinted \/ Wake
  BY <1>14, <1>15 DEF MaskWrite, MaskUnlock, UnmaskWrite, SerialPrinted, Wake, At
<1>16. ASSUME NEW l, MaskLock(l) \/ UnmaskRead(l) PROVE GuardInv'
  BY <1>14, <1>16 DEF MaskLock, UnmaskRead, At
<1>17. ASSUME NEW l, Unregister(l) \/ \E f \in Callbacks : Register(l, f) PROVE GuardInv'
  BY <1>14, <1>17 DEF Unregister, Register, At
<1>18. CASE DisablePic \/ SerialPrint \/ \E n \in 0..MaxSleep : Sleep(n)
  BY <1>14, <1>18 DEF DisablePic, SerialPrint, Sleep, At
<1>19. CASE Fault \/ PanicStep
  BY <1>0, <1>19 DEF Fault, PanicStep, PanicLock, PanicPrinted, GuardInv
<1> QED BY <1>1, <1>2, <1>3, <1>4, <1>5, <1>6, <1>7, <1>8, <1>9, <1>10, <1>11, <1>12, <1>13,
           <1>15, <1>16, <1>17, <1>18, <1>19
        DEF Next, HandlerStep, Call, ThreadStep

-----------------------------------------------------------------------------
(* Masks. *)

(* Every step keeps what mask_irq has read up to date until it writes. *)
LEMMA MaskStep == ASSUME IndInv, Next PROVE MaskInv'
<1>0. MaskInv
  BY DEF IndInv
<1> USE DEF hw, cpu
<1>1. ASSUME UNCHANGED <<imr, th, local, pics>> PROVE MaskInv'
  BY <1>0, <1>1 DEF MaskInv
<1>2. ASSUME th' \notin {"mask", "masked"} PROVE MaskInv'
  BY <1>2 DEF MaskInv
<1>3. ASSUME NEW l \in Devices, Raise(l) \/ Deliver(l) \/ DeliverSpurious(l) PROVE MaskInv'
  BY <1>1, <1>3 DEF Raise, Deliver, DeliverSpurious, Enter
<1>4. CASE DeliverApic
  BY <1>1, <1>4 DEF DeliverApic, Enter
<1>5. CASE CallMask
  <2>1. th' \notin {"mask", "masked"}
    BY <1>0, <1>5 DEF CallMask, MaskInv
  <2> QED BY <1>2, <2>1
<1>6. CASE HandlerStep /\ ~CallMask
  BY <1>1, <1>6 DEF HandlerStep, HandlerBody, Call, CallFb, CallFbEnd, CallSerial, CallSerialEnd,
     CallOnce, HandlerEoi, HandlerReturn
<1>7. CASE MaskWrite
  BY <1>0, <1>7 DEF MaskWrite, MaskInv, At
<1>8. CASE ThreadStep /\ ~MaskWrite
  BY <1>2, <1>8 DEF ThreadStep, Enable, MaskUnlock, UnmaskWrite, FbPrinted, SerialPrinted, Wake
<1>9. ASSUME NEW l, MaskLock(l) PROVE MaskInv'
  <2>1. local' = [irq |-> l, imr |-> imr \cap Port(l)] /\ imr' = imr /\ pics' = TRUE
    BY <1>9 DEF MaskLock, Read
  <2>2. local'.irq = l /\ local'.imr = imr \cap Port(l)
    BY <2>1
  <2>3. imr' \cap Port(local'.irq) \subseteq local'.imr
    BY <2>1, <2>2
  <2> QED BY <2>1, <2>3 DEF MaskInv, Port
<1>10. ASSUME NEW l, UnmaskRead(l) PROVE MaskInv'
  BY <1>2, <1>10 DEF UnmaskRead
<1>11. ASSUME NEW l, Unregister(l) \/ \E f \in Callbacks : Register(l, f) PROVE MaskInv'
  BY <1>1, <1>11 DEF Unregister, Register
<1>12. CASE DisablePic
  BY <1>2, <1>12 DEF DisablePic, At
<1>13. CASE IrqLock \/ IrqUnlock \/ Fault \/ PanicStep
  BY <1>1, <1>13 DEF IrqLock, IrqUnlock, Fault, PanicStep, PanicLock, PanicPrinted
<1>14. CASE FbPrint \/ SerialPrint \/ \E n \in 0..MaxSleep : Sleep(n)
  BY <1>2, <1>14 DEF FbPrint, SerialPrint, Sleep
<1> QED BY <1>3, <1>4, <1>5, <1>6, <1>7, <1>8, <1>9, <1>10, <1>11, <1>12, <1>13, <1>14 DEF Next

(* A step that takes a line out of the mask is unmask_irq's write, of its    *)
(* line or of one that was masked after its read.                            *)
LEMMA MaskLostBy ==
    ASSUME IndInv, Next, NEW l \in imr \ imr'
    PROVE  th = "unmask" /\ (l = local.irq \/ l \notin local.imr)
<1> USE DEF hw, cpu
<1>1. TypeInv /\ MaskInv
  BY DEF IndInv
<1>2. CASE UnmaskWrite
  BY <1>2 DEF UnmaskWrite, Write, At
<1>3. CASE MaskWrite
  <2>1. l \notin Port(local.irq) \/ l \in local.imr
    BY <1>1, <1>3 DEF MaskWrite, MaskInv, At
  <2> QED BY <1>3, <2>1 DEF MaskWrite, Write
<1>4. CASE CallMask
  BY <1>4 DEF CallMask
<1>5. CASE DisablePic
  BY <1>1, <1>5 DEF DisablePic, TypeInv, Master, Slave
<1>6. ASSUME NEW m \in Devices, Raise(m) \/ Deliver(m) \/ DeliverSpurious(m) PROVE imr' = imr
  BY <1>6 DEF Raise, Deliver, DeliverSpurious, Enter
<1>7. CASE DeliverApic
  BY <1>7 DEF DeliverApic, Enter
<1>8. CASE HandlerStep /\ ~CallMask
  BY <1>8 DEF HandlerStep, HandlerBody, Call, CallFb, CallFbEnd, CallSerial, CallSerialEnd,
     CallOnce, HandlerEoi, HandlerReturn
<1>9. CASE ThreadStep /\ ~MaskWrite /\ ~UnmaskWrite
  BY <1>9 DEF ThreadStep, Enable, MaskUnlock, FbPrinted, SerialPrinted, Wake
<1>10. ASSUME NEW m, MaskLock(m) \/ UnmaskRead(m) PROVE imr' = imr
  BY <1>10 DEF MaskLock, UnmaskRead
<1>11. ASSUME NEW m, Unregister(m) \/ \E f \in Callbacks : Register(m, f) PROVE imr' = imr
  BY <1>11 DEF Unregister, Register
<1>12. CASE IrqLock \/ IrqUnlock \/ Fault \/ PanicStep
  BY <1>12 DEF IrqLock, IrqUnlock, Fault, PanicStep, PanicLock, PanicPrinted
<1>13. CASE FbPrint \/ SerialPrint \/ \E n \in 0..MaxSleep : Sleep(n)
  BY <1>13 DEF FbPrint, SerialPrint, Sleep
<1> QED BY <1>2, <1>3, <1>4, <1>5, <1>6, <1>7, <1>8, <1>9, <1>10, <1>11, <1>12, <1>13 DEF Next

-----------------------------------------------------------------------------
(* A step that changes nothing keeps the invariant. *)
LEMMA StutterIndInv == ASSUME IndInv, UNCHANGED vars PROVE IndInv'
<1>1. TypeInv' /\ MaskInv'
  BY DEF IndInv, TypeInv, MaskInv, vars
<1>2. ServiceInv'
  BY SameService DEF IndInv, vars
<1>3. GuardInv'
  BY DEF IndInv, GuardInv, vars
<1> QED BY <1>1, <1>2, <1>3 DEF IndInv

(* The inductive invariant holds throughout. *)
THEOREM InterruptsInvariant == Spec => []IndInv
<1>1. Init => IndInv
  BY InitIndInv
<1>2. IndInv /\ [Next]_vars => IndInv'
  BY TypeStep, ServiceStep, GuardStep, MaskStep, StutterIndInv DEF IndInv
<1> QED BY <1>1, <1>2, PTL DEF Spec

(* Whatever devices raise, flaky or not, and whatever callbacks the thread   *)
(* registers: the handlers acknowledge exactly what is in service, the       *)
(* spurious interrupts of IRQ 7 and IRQ 15 included.                         *)
THEOREM AcknowledgedExactly == Spec => []InServiceMatches
<1>1. IndInv => InServiceMatches
  BY AcknowledgesAll DEF IndInv, ServiceInv, InServiceMatches
<1> QED BY <1>1, InterruptsInvariant, PTL

(* However deep the guards nest: interrupts are on exactly outside handlers  *)
(* and guards, and the one guard in a handler is its callback's.             *)
THEOREM GuardsNested == Spec => []GuardsNest
<1>1. IndInv => GuardsNest
  BY DEF IndInv, GuardInv, GuardsNest
<1> QED BY <1>1, InterruptsInvariant, PTL

(* Only unmask_irq takes a line out of the mask, its own or one that was     *)
(* masked since it read; mask_irq and the callbacks' mask_irq never do.      *)
THEOREM MasksKept == Spec => MasksStick
<1>1. IndInv /\ [Next]_vars =>
          [\A l \in imr \ imr' : th = "unmask" /\ (l = local.irq \/ l \notin local.imr)]_vars
  BY MaskLostBy
<1> QED BY <1>1, InterruptsInvariant, PTL DEF Spec, MasksStick

=============================================================================
