--------------------------- MODULE PosKernelProofs ---------------------------
(***************************************************************************)
(* pos-kernel, for any machine and any keyboard controller: while it starts *)
(* every line that is not masked is served and a timeout of the PS/2 driver *)
(* takes its time; then the events are served in order, the probe of the    *)
(* BARs keeps the addresses, and the USB devices that are listed answer to  *)
(* theirs, one to each.  For any layout of memory that leaves room above the *)
(* stack, what the boot loader handed over is moved whole.                   *)
(***************************************************************************)
EXTENDS PosKernel, TLAPS, FiniteSetTheorems, NaturalsInduction, WellFoundedInduction

-----------------------------------------------------------------------------
(* The interrupt controllers.                                              *)

Registers == {"init", "base", "imr", "irr", "isr", "mode86"}

\* The registers of the master; the slave is never written to.
IsPic(chips) ==
  /\ DOMAIN chips = {"master", "slave", "kind"}
  /\ DOMAIN chips["master"] = Registers
  /\ chips["master"].irr \subseteq {0, 1}

LEMMA SetBits ==
  /\ 4 \in Bits(ICW1)
  /\ 4 \notin Bits(EndOfInterrupt)
  /\ Bits(255) = 0..7
<1>1. 4 \in Bits(ICW1) /\ 4 \notin Bits(EndOfInterrupt)
  BY DEF Bits, ICW1, EndOfInterrupt
<1>2. /\ (255 \div 2^0) % 2 = 1 /\ (255 \div 2^1) % 2 = 1 /\ (255 \div 2^2) % 2 = 1
      /\ (255 \div 2^3) % 2 = 1 /\ (255 \div 2^4) % 2 = 1 /\ (255 \div 2^5) % 2 = 1
      /\ (255 \div 2^6) % 2 = 1 /\ (255 \div 2^7) % 2 = 1
  OBVIOUS
<1>3. \A i \in 0..7 : i \in {0, 1, 2, 3, 4, 5, 6, 7}
  OBVIOUS
<1>4. \A i \in 0..7 : (255 \div 2^i) % 2 = 1
  BY ZenonT(40), <1>2, <1>3
<1> QED BY ZenonT(40), <1>1, <1>4 DEF Bits

\* Both of PIC.c's pairs of ports are the master's.
LEMMA ToMaster ==
  ASSUME NEW chips, IsPic(chips), NEW value
  PROVE  /\ Outb(chips, <<32, value>>) = [chips EXCEPT !["master"] = Command(@, value)]
         /\ Outb(chips, <<33, value>>) = [chips EXCEPT !["master"] = Data(@, value)]
BY DEF Outb, Chip

\* A master that waits for word `init` of its programming, with nothing requested
\* and nothing in service.
Waits(chips, init, base) ==
  /\ IsPic(chips)
  /\ chips["master"].init = init /\ chips["master"].base = base
  /\ chips["master"].irr = {} /\ chips["master"].isr = {}

LEMMA FirstWord ==
  ASSUME NEW chips, IsPic(chips)
  PROVE  /\ \E base : Waits(Outb(chips, <<32, ICW1>>), 2, base)
         /\ Outb(chips, <<32, ICW1>>).kind = chips.kind
<1> DEFINE m == chips["master"]
           n == [m EXCEPT !.init = 2, !.imr = {}, !.irr = {}, !.isr = {}, !.mode86 = FALSE]
           c == Outb(chips, <<32, ICW1>>)
<1>1. Command(m, ICW1) = n
  BY SetBits DEF Command
<1>2. c = [chips EXCEPT !["master"] = n]
  <2>1. c = [chips EXCEPT !["master"] = Command(m, ICW1)]
    BY ToMaster
  <2> QED BY <1>1, <2>1
<1>3. /\ DOMAIN n = Registers /\ n.init = 2 /\ n.irr = {} /\ n.isr = {}
  BY DEF IsPic, Registers
<1> HIDE DEF n
<1>4. DOMAIN c = {"master", "slave", "kind"} /\ c["master"] = n /\ c.kind = chips.kind
  BY <1>2 DEF IsPic
<1>5. Waits(c, 2, n.base)
  BY <1>3, <1>4 DEF Waits, IsPic
<1> QED BY <1>4, <1>5

LEMMA NextWord ==
  ASSUME NEW chips, NEW init \in {0, 2, 3, 4}, NEW base, Waits(chips, init, base), NEW value
  PROVE  LET c == Outb(chips, <<33, value>>) IN
         /\ c.kind = chips.kind
         /\ init = 2 => Waits(c, 3, value)
         /\ init = 3 => Waits(c, 4, base)
         /\ init = 4 => Waits(c, 0, base)
         /\ init = 0 => Waits(c, 0, base) /\ c["master"].imr = Bits(value)
<1> DEFINE m == chips["master"]
           n == Data(m, value)
           c == Outb(chips, <<33, value>>)
<1>1. IsPic(chips) /\ m.init = init /\ m.base = base /\ m.irr = {} /\ m.isr = {}
  BY DEF Waits
<1>2. /\ DOMAIN n = Registers /\ n.irr = {} /\ n.isr = {}
      /\ init = 2 => n.init = 3 /\ n.base = value
      /\ init = 3 => n.init = 4 /\ n.base = base
      /\ init = 4 => n.init = 0 /\ n.base = base
      /\ init = 0 => n.init = 0 /\ n.base = base /\ n.imr = Bits(value)
  BY <1>1 DEF Data, IsPic, Registers
<1>3. c = [chips EXCEPT !["master"] = n]
  BY <1>1, ToMaster
<1> HIDE DEF n
<1>4. DOMAIN c = {"master", "slave", "kind"} /\ c["master"] = n /\ c.kind = chips.kind
  BY <1>1, <1>3 DEF IsPic
<1> HIDE DEF c
<1> QED BY <1>2, <1>4 DEF Waits, IsPic, c

\* The bytes of init_pic, as the master takes them.
LEMMA Programmed ==
  ASSUME NEW chips, IsPic(chips)
  PROVE  LET c == init_pic(chips) IN
         Waits(c, 0, REMAP_PIC_OFFSET) /\ c["master"].imr = 0..7 /\ c.kind = chips.kind
<1> DEFINE c1 == Outb(chips, <<32, ICW1>>)
           c2 == Outb(c1, <<32, ICW1>>)
           c3 == Outb(c2, <<33, 32>>)
           c4 == Outb(c3, <<33, 40>>)
           c5 == Outb(c4, <<33, 4>>)
           c6 == Outb(c5, <<33, 2>>)
           c7 == Outb(c6, <<33, 1>>)
           c8 == Outb(c7, <<33, 1>>)
           c9 == Outb(c8, <<33, 255>>)
           c10 == Outb(c9, <<33, 255>>)
<1>0. init_pic(chips) = c10
  BY DEF init_pic, PIC_remap, OutbBoth, MASTER_PIC_COMMAND, SLAVE_PIC_COMMAND,
         MASTER_PIC_DATA, SLAVE_PIC_DATA, REMAP_PIC_OFFSET, ICW4_8086
<1>1. IsPic(c1) /\ c1.kind = chips.kind
  BY FirstWord DEF Waits
<1> HIDE DEF c1
<1>2. PICK base : Waits(c2, 2, base) /\ c2.kind = chips.kind
  BY <1>1, FirstWord
<1> HIDE DEF c2
<1>3. Waits(c3, 3, 32) /\ c3.kind = chips.kind
  BY <1>2, NextWord
<1> HIDE DEF c3
<1>4. Waits(c4, 4, 32) /\ c4.kind = chips.kind
  BY <1>3, NextWord
<1> HIDE DEF c4
<1>5. Waits(c5, 0, 32) /\ c5.kind = chips.kind
  BY <1>4, NextWord
<1> HIDE DEF c5
<1>6. Waits(c6, 0, 32) /\ c6.kind = chips.kind
  BY <1>5, NextWord
<1> HIDE DEF c6
<1>7. Waits(c7, 0, 32) /\ c7.kind = chips.kind
  BY <1>6, NextWord
<1> HIDE DEF c7
<1>8. Waits(c8, 0, 32) /\ c8.kind = chips.kind
  BY <1>7, NextWord
<1> HIDE DEF c8
<1>9. Waits(c9, 0, 32) /\ c9.kind = chips.kind
  BY <1>8, NextWord
<1> HIDE DEF c9
<1>10. Waits(c10, 0, 32) /\ c10["master"].imr = 0..7 /\ c10.kind = chips.kind
  BY <1>9, NextWord, SetBits
<1> QED BY <1>0, <1>10 DEF REMAP_PIC_OFFSET

\* A line that is taken alone is acknowledged and ended.
LEMMA TakenOver ==
  ASSUME NEW chips, IsPic(chips), NEW line \in {0, 1}
  PROVE  LET a == Acknowledged(chips, line) IN
         /\ IsPic(a) /\ a.kind = chips.kind
         /\ a["master"] = [chips["master"] EXCEPT !.irr = @ \ {line}, !.isr = @ \cup {line}]
BY DEF Acknowledged, IsPic, Registers

LEMMA TakenAndEnded ==
  ASSUME NEW chips, IsPic(chips), chips["master"].isr = {}, NEW line \in {0, 1}
  PROVE  LET c == PIC_EOI(Acknowledged(chips, line), line) IN
         /\ IsPic(c) /\ c.kind = chips.kind
         /\ c["master"] = [chips["master"] EXCEPT !.irr = @ \ {line}, !.isr = {}]
<1> DEFINE a == Acknowledged(chips, line)
           m == chips["master"]
<1>0. /\ IsPic(a) /\ a.kind = chips.kind
      /\ a["master"] = [m EXCEPT !.irr = @ \ {line}, !.isr = @ \cup {line}]
  BY TakenOver
<1>1. /\ IsPic(a) /\ a.kind = chips.kind
      /\ a["master"] = [m EXCEPT !.irr = @ \ {line}, !.isr = {line}]
  <2> HIDE DEF a
  <2> QED BY <1>0 DEF IsPic, Registers
<1> HIDE DEF a
<1>2. PIC_EOI(a, line) = Outb(a, <<32, EndOfInterrupt>>)
  BY DEF PIC_EOI, MASTER_PIC_COMMAND, PIC_EOI_VAL
<1>3. PIC_EOI(a, line) = [a EXCEPT !["master"] = Command(@, EndOfInterrupt)]
  BY <1>1, <1>2, ToMaster
<1>4. Min({line}) = line
  BY DEF Min
<1>5. Command(a["master"], EndOfInterrupt) = [a["master"] EXCEPT !.isr = {}]
  <2>1. a["master"].isr = {line}
    BY <1>1 DEF IsPic, Registers
  <2>2. Command(a["master"], EndOfInterrupt) = [a["master"] EXCEPT !.isr = @ \ {Min(@)}]
    BY <2>1, SetBits DEF Command
  <2> QED BY <1>4, <2>1, <2>2
<1>6. /\ PIC_EOI(a, line)["master"] = [a["master"] EXCEPT !.isr = {}]
      /\ PIC_EOI(a, line).kind = chips.kind
  BY <1>1, <1>3, <1>5 DEF IsPic
<1> QED BY <1>1, <1>3, <1>6 DEF IsPic, Registers, a

LEMMA Raised ==
  ASSUME NEW chips, IsPic(chips), NEW line \in {0, 1}
  PROVE  /\ IsPic(Raise(chips, line)) /\ Raise(chips, line).kind = chips.kind
         /\ Raise(chips, line)["master"] = [chips["master"] EXCEPT !.irr = @ \cup {line}]
<1> DEFINE m == [chips["master"] EXCEPT !.irr = @ \cup {line}]
<1>1. Raise(chips, line) = [chips EXCEPT !["master"] = m]
  BY DEF Raise
<1>2. DOMAIN m = Registers /\ m.irr \subseteq {0, 1}
  BY DEF IsPic, Registers
<1> HIDE DEF m
<1> QED BY <1>1, <1>2 DEF IsPic, m

LEMMA UnmaskedLine ==
  ASSUME NEW chips, IsPic(chips), NEW line \in {0, 1}
  PROVE  /\ IsPic(PIC_irq_unmask(chips, line)) /\ PIC_irq_unmask(chips, line).kind = chips.kind
         /\ PIC_irq_unmask(chips, line)["master"] = [chips["master"] EXCEPT !.imr = @ \ {line}]
<1> DEFINE m == [chips["master"] EXCEPT !.imr = @ \ {line}]
<1>0. line < 8 /\ line % 8 = line /\ Chip(MASTER_PIC_DATA) = "master"
  BY DEF Chip, MASTER_PIC_DATA
<1>1. PIC_irq_unmask(chips, line) = [chips EXCEPT !["master"] = m]
  BY <1>0 DEF PIC_irq_unmask
<1>2. DOMAIN m = Registers /\ m.irr \subseteq {0, 1}
  BY DEF IsPic, Registers
<1> HIDE DEF m
<1> QED BY <1>1, <1>2 DEF IsPic, m

-----------------------------------------------------------------------------
(* The lines.                                                              *)

\* The lines that are unmasked, and those that have a handler, at each place of
\* initialize_hw.
Unmasked(at) ==
  CASE at \in {"memory", "vfs", "pit"} -> {}
    [] at \in {"pit_irq", "ps2", "keyboard", "keyboard_irq"} -> {0}
    [] at \in {"flush", "started"} -> {0, 1}
Attached(at) ==
  CASE at \in {"boot", "memory", "vfs", "pit", "pit_irq"} -> {}
    [] at \in {"ps2", "keyboard"} -> {0}
    [] at \in {"keyboard_irq", "flush", "started"} -> {0, 1}

Gates == {REMAP_PIC_OFFSET + l : l \in IrqLines}

\* Interrupts stay off until the controllers are programmed; then both lines
\* have gates, nothing is in service between two steps, and the masks and the
\* handlers are those of the place, until a real 8259A out of its mode names the
\* wrong vector.
LinesInv ==
  /\ IsPic(pic)
  /\ panic => pic.kind = "8259A"
  /\ ~panic /\ pc \in Starting =>
       /\ DOMAIN irq_handlers = Attached(pc)
       /\ 0 \in Attached(pc) => irq_handlers[0] = "PIT_timer_irq"
       /\ 1 \in Attached(pc) => irq_handlers[1] = "keyboardHandler"
       /\ pc = "boot" => ~interrupts
       /\ pc # "boot" =>
            /\ closed = {128} /\ DOMAIN isrHandlers = Gates
            /\ pic["master"].base = REMAP_PIC_OFFSET
            /\ pic["master"].isr = {}
            /\ pic["master"].imr = 0..7 \ Unmasked(pc)

LEMMA LinesInit == Init => LinesInv
BY DEF Init, IrqInit, UhciInit, BiosPic, LinesInv, IsPic, Registers, Attached, Starting

\* An interrupt is one of the two lines; it reaches the handler of the line, and
\* the line is over when the handler is, or it panics on a real 8259A.
LEMMA Taken ==
  ASSUME LinesInv, pc \in Starting, Interrupt
  PROVE  /\ ~panic /\ pc # "boot"
         /\ \E line \in Unmasked(pc) :
              /\ line \in pic["master"].irr
              /\ IsPic(pic') /\ pic'.kind = pic.kind
              /\ pic'["master"].irr = pic["master"].irr \ {line}
              /\ UNCHANGED <<closed, isrHandlers, irq_handlers, interrupts, ps2>>
              /\ panic' => pic.kind = "8259A" /\ UNCHANGED <<pit, kbc, kbd>>
              /\ ~panic' =>
                    /\ pic'["master"] = [pic["master"] EXCEPT !.irr = @ \ {line}, !.isr = {}]
                    /\ line = 0 /\ 0 \in Attached(pc) =>
                          pit' = PIT_timer_irq(pit) /\ UNCHANGED <<kbc, kbd>>
                    /\ line = 0 /\ 0 \notin Attached(pc) => UNCHANGED <<pit, kbc, kbd>>
                    /\ line = 1 => pit' = pit /\ kbc' = AfterRead(kbc)
<1>1. ~panic /\ pc # "boot"
  BY DEF Interrupt, Dispatch, LinesInv
<1>2. PICK line \in Requests(pic) : Dispatch(line) /\ Handled(HandlerOf(line)) /\ UNCHANGED ps2
  BY DEF Interrupt
<1>3. line \in Unmasked(pc) /\ line \in {0, 1}
  BY <1>1, <1>2 DEF Requests, LinesInv, IsPic, Unmasked, Starting
<1>4. /\ VectorFor(line) \in {32 + line, 8 * line}
      /\ pic.kind # "8259A" => VectorFor(line) = 32 + line
  <2>1. pic["master"].base = 32
    BY <1>1 DEF LinesInv, REMAP_PIC_OFFSET
  <2>2. VectorOf(pic, line) = IF pic.kind = "8259A" /\ ~pic["master"].mode86 THEN 8 * line ELSE 32 + line
    BY <1>3, <2>1 DEF VectorOf
  <2>3. 32 + line \in Vectors /\ 8 * line \in Vectors
    BY <1>3 DEF Vectors
  <2> QED BY <2>2, <2>3 DEF VectorFor, _i686_init_default_handlers, StubOf
<1>5. /\ VectorFor(line) = 32 + line => IsHandled(line) /\ IrqFor(line) = line
      /\ VectorFor(line) = 8 * line => ~IsHandled(line)
  BY <1>1, <1>3 DEF IsHandled, IrqFor, LinesInv, Gates, IrqLines, REMAP_PIC_OFFSET
<1>6. line \in pic["master"].irr
  BY <1>1, <1>2, <1>3 DEF Requests, LinesInv
<1>7. IsPic(pic) /\ pic["master"].isr = {} /\ UNCHANGED <<closed, isrHandlers, irq_handlers, interrupts, ps2>>
  BY <1>1, <1>2 DEF LinesInv, Dispatch
<1>8. CASE ~IsHandled(line)
  <2>1. panic' /\ pic' = Acknowledged(pic, line) /\ UNCHANGED <<pit, kbc, kbd>>
    BY <1>2, <1>8 DEF Dispatch, HandlerOf, Handled
  <2>2. /\ IsPic(pic') /\ pic'.kind = pic.kind
        /\ pic'["master"] = [pic["master"] EXCEPT !.irr = @ \ {line}, !.isr = @ \cup {line}]
    BY <1>3, <1>7, <2>1, TakenOver
  <2>3. pic'["master"].irr = pic["master"].irr \ {line}
    BY <1>7, <2>2 DEF IsPic, Registers
  <2> QED BY <1>1, <1>3, <1>4, <1>5, <1>6, <1>7, <1>8, <2>1, <2>2, <2>3
<1>9. CASE IsHandled(line)
  <2>1. IrqFor(line) = line
    BY <1>4, <1>5, <1>9
  <2>2. pic' = PIC_EOI(Acknowledged(pic, line), line) /\ panic' = FALSE
    BY <1>2, <1>9, <2>1 DEF Dispatch
  <2>3. /\ IsPic(pic') /\ pic'.kind = pic.kind
        /\ pic'["master"] = [pic["master"] EXCEPT !.irr = @ \ {line}, !.isr = {}]
    BY <1>3, <1>7, <2>2, TakenAndEnded
  <2>4. pic'["master"].irr = pic["master"].irr \ {line}
    BY <1>7, <2>3 DEF IsPic, Registers
  <2>5. HandlerOf(line) = IF line \in Attached(pc)
                          THEN (IF line = 0 THEN "PIT_timer_irq" ELSE "keyboardHandler")
                          ELSE "log_warn"
    BY <1>1, <1>3, <1>9, <2>1 DEF HandlerOf, LinesInv
  <2>6. line = 1 => 1 \in Attached(pc)
    BY <1>1, <1>3 DEF Unmasked, Attached, Starting
  <2>7. /\ line = 0 /\ 0 \in Attached(pc) =>
                pit' = PIT_timer_irq(pit) /\ UNCHANGED <<kbc, kbd>>
        /\ line = 0 /\ 0 \notin Attached(pc) => UNCHANGED <<pit, kbc, kbd>>
        /\ line = 1 => pit' = pit /\ kbc' = AfterRead(kbc)
    BY <1>2, <1>3, <2>5, <2>6 DEF Handled
  <2> QED BY <1>1, <1>3, <1>6, <1>7, <2>2, <2>3, <2>4, <2>7
<1> QED BY <1>8, <1>9

\* What follows the start leaves everything of it alone.
LEMMA AfterStart ==
  ASSUME pc \notin Starting, Next \/ UNCHANGED vars
  PROVE  pc' \notin Starting /\ UNCHANGED <<irqVars, ps2Vars>>
<1>1. CASE UNCHANGED vars
  BY <1>1 DEF vars, uhciVars
<1>2. ~InitializeHw
  BY DEF InitializeHw, InitCpu, InitMemory, InitVfs, PIT_init, Ps2Start, init_keyboard,
         StartLine, FlushKeyboard, StartScan, Starting
<1>3. CASE Scan \/ InitDrivers \/ ServeEvent
  <2>1. UNCHANGED startVars /\ pc' \in {"scan", "idle", "halted", "setup"}
    BY <1>3 DEF Scan, InitDrivers, ServeEvent, uhciVars
  <2> QED BY <2>1 DEF startVars, Starting
<1>4. CASE DriverStep /\ UNCHANGED startVars
  <2>1. UNCHANGED pc \/ pc' \in {"init", "halted", "probe", "idle", "present", "reset", "retry",
                                 "send", "fault", "wait", "divided", "overrun"}
    BY <1>4 DEF DriverStep, SetupBar, InitFails, AddController, ProbePort, ConfirmPort, ResetPort,
       RetryReset, SendTransfer, KeepWaiting, EndTransfer, LastPort, NextPort, ResetDone,
       insertToQueue, OnWith
  <2> QED BY <1>4, <2>1 DEF startVars, Starting
<1>5. CASE UsbHardware
  <2>1. UNCHANGED startVars /\ UNCHANGED pc
    BY <1>5 DEF UsbHardware, Execute, Replug
  <2> QED BY <2>1 DEF startVars
<1>6. ~TakeInterrupt /\ ~TimerTick /\ ~KeyboardActs /\ ~KeyPressed
  BY DEF TakeInterrupt, TimerTick, KeyboardActs, KeyPressed, Outside
<1> QED BY <1>1, <1>2, <1>3, <1>4, <1>5, <1>6 DEF Next, Kernel

\* While the kernel starts nothing else is there to take a step.
LEMMA WhileStarting ==
  ASSUME pc \in Starting, Next
  PROVE  InitializeHw \/ TakeInterrupt \/ TimerTick \/ KeyboardActs \/ KeyPressed
<1>1. ~Scan /\ ~InitDrivers /\ ~ServeEvent /\ ~UsbHardware
  BY DEF Scan, InitDrivers, ServeEvent, UsbHardware, Starting
<1>2. ~DriverStep
  BY DEF DriverStep, SetupBar, InitFails, AddController, ProbePort, ConfirmPort, ResetPort,
         RetryReset, SendTransfer, KeepWaiting, EndTransfer, Starting
<1> QED BY <1>1, <1>2 DEF Next, Kernel

\* What the keyboard controller does reaches the kernel as a request of line 1.
LEMMA ControllerRequests ==
  ASSUME IsPic(pic), Acting \/ Press
  PROVE  /\ pic' = pic \/ pic' = Raise(pic, 1)
         /\ kbc'.out # <<>> /\ IrqBit \in kbc'.ccb => 1 \in pic'["master"].irr
<1>1. \E k : Changed(k)
  BY DEF Acting, Obey, Load, ReportTest, Press
<1>2. PICK k : Changed(k)
  BY <1>1
<1>3. 1 \in Raise(pic, 1)["master"].irr
  <2>1. Raise(pic, 1)["master"] = [pic["master"] EXCEPT !.irr = @ \cup {1}]
    BY Raised
  <2> QED BY <2>1 DEF IsPic, Registers
<1> QED BY <1>2, <1>3 DEF Changed, KeyboardLine

LEMMA LinesStep ==
  ASSUME LinesInv, Next \/ UNCHANGED vars
  PROVE  LinesInv'
<1>1. CASE pc \notin Starting
  BY <1>1, AfterStart DEF LinesInv, irqVars
<1>2. CASE UNCHANGED vars
  BY <1>2 DEF vars, uhciVars, irqVars, LinesInv
<1>3. IsPic(pic)
  BY DEF LinesInv
<1>0. ASSUME pc \in Starting, TimerTick \/ KeyboardActs \/ KeyPressed
      PROVE  /\ UNCHANGED <<closed, isrHandlers, irq_handlers, interrupts, panic, pc>>
             /\ IsPic(pic') /\ pic'.kind = pic.kind
             /\ \/ pic' = pic
                \/ \E line \in {0, 1} :
                      pic'["master"] = [pic["master"] EXCEPT !.irr = @ \cup {line}]
  <2>1. /\ UNCHANGED <<closed, isrHandlers, irq_handlers, interrupts, panic, pc>>
        /\ \E line \in {0, 1} : pic' = pic \/ pic' = Raise(pic, line)
    BY <1>0, <1>3, ControllerRequests
       DEF TimerTick, KeyboardActs, KeyPressed, Outside, Tick, uhciVars
  <2>2. PICK line \in {0, 1} : pic' = pic \/ pic' = Raise(pic, line)
    BY <2>1
  <2>3. \/ pic' = pic
        \/ /\ IsPic(pic') /\ pic'.kind = pic.kind
           /\ pic'["master"] = [pic["master"] EXCEPT !.irr = @ \cup {line}]
    BY ZenonT(40), <1>3, <2>2, Raised
  <2> QED BY <1>3, <2>1, <2>3
<1>11. CASE panic /\ pc \in Starting /\ Next
  <2>1. ~TakeInterrupt
    BY <1>11, Taken DEF TakeInterrupt
  <2>2. TimerTick \/ KeyboardActs \/ KeyPressed
    BY <1>11, <2>1, WhileStarting DEF InitializeHw
  <2> QED BY <1>0, <1>11, <2>2 DEF LinesInv
<1> SUFFICES ASSUME pc \in Starting, Next, ~panic PROVE LinesInv'
  BY <1>1, <1>2, <1>11
<1>4. CASE InitCpu
  <2>1. /\ Waits(pic', 0, REMAP_PIC_OFFSET) /\ pic'["master"].imr = 0..7
        /\ pic'.kind = pic.kind
    BY <1>3, <1>4, Programmed DEF InitCpu, InitializeCpu
  <2>2. /\ pc = "boot" /\ pc' = "memory" /\ closed' = {128} /\ DOMAIN isrHandlers' = Gates
        /\ UNCHANGED <<irq_handlers, panic>>
    BY <1>4 DEF InitCpu, InitializeCpu, Gates
  <2> QED BY <2>1, <2>2 DEF LinesInv, Waits, Unmasked, Attached, Starting
<1>5. CASE InitMemory \/ InitVfs \/ FlushKeyboard
  <2>1. /\ UNCHANGED irqVars
        /\ \/ pc = "memory" /\ pc' \in {"memory", "vfs"}
           \/ pc = "vfs" /\ pc' = "pit"
           \/ pc = "flush" /\ pc' = "started"
    BY <1>5 DEF InitMemory, InitVfs, FlushKeyboard, startVars
  <2>2. Unmasked(pc') = Unmasked(pc) /\ Attached(pc') = Attached(pc)
    BY <2>1 DEF Unmasked, Attached
  <2> QED BY <2>1, <2>2 DEF LinesInv, irqVars, Starting
<1>6. CASE StartScan
  BY <1>6 DEF StartScan, startVars, irqVars, LinesInv, Starting
<1>7. CASE Ps2Start
  <2>1. /\ UNCHANGED <<pic, closed, isrHandlers, irq_handlers, interrupts, panic>>
        /\ pc = "ps2" /\ pc' \in {"ps2", "keyboard"}
    BY <1>7 DEF Ps2Start, Ps2Step, Flush, SetTimeout, Poll, Act, irqVars
  <2>2. Unmasked(pc') = Unmasked(pc) /\ Attached(pc') = Attached(pc)
    BY <2>1 DEF Unmasked, Attached
  <2> QED BY <2>1, <2>2 DEF LinesInv, Starting
<1>8. CASE PIT_init \/ init_keyboard
  <2>1. /\ UNCHANGED <<closed, isrHandlers, interrupts, panic>>
        /\ \/ pc = "pit" /\ pc' = "pit_irq" /\ Unmask(0)
           \/ pc = "pit_irq" /\ pc' = "ps2" /\ Attach(0, "PIT_timer_irq")
           \/ pc = "keyboard" /\ pc' = "keyboard_irq" /\ Attach(1, "keyboardHandler")
           \/ pc = "keyboard_irq" /\ pc' = "flush" /\ Unmask(1)
    BY <1>8 DEF PIT_init, init_keyboard, StartLine
  <2>2. ASSUME NEW line \in {0, 1}, Unmask(line), Unmasked(pc') = Unmasked(pc) \cup {line},
               Attached(pc') = Attached(pc), pc # "boot", pc' # "boot"
        PROVE  LinesInv'
    <3>1. /\ IsPic(pic') /\ pic'.kind = pic.kind
          /\ pic'["master"] = [pic["master"] EXCEPT !.imr = @ \ {line}]
      BY <1>3, <2>2, UnmaskedLine DEF Unmask
    <3> QED BY <1>3, <2>1, <2>2, <3>1 DEF LinesInv, Unmask, IsPic, Registers
  <2>3. ASSUME NEW line \in {0, 1}, NEW handler, Attach(line, handler),
               handler = IF line = 0 THEN "PIT_timer_irq" ELSE "keyboardHandler",
               Attached(pc') = Attached(pc) \cup {line},
               Unmasked(pc') = Unmasked(pc), pc # "boot", pc' # "boot"
        PROVE  LinesInv'
    <3>1. /\ DOMAIN irq_handlers' = DOMAIN irq_handlers \cup {line}
          /\ irq_handlers'[line] = handler
          /\ \A l \in DOMAIN irq_handlers \ {line} : irq_handlers'[l] = irq_handlers[l]
      <4>1. line \in IrqLines
        BY <2>3 DEF IrqLines
      <4>2. DOMAIN irq_handlers \cup ({line} \cap IrqLines) = DOMAIN irq_handlers \cup {line}
        BY <4>1
      <4> QED BY <2>3, <4>2 DEF Attach, IRQ_registerHandler
    <3> QED BY <1>3, <2>1, <2>3, <3>1 DEF LinesInv, Attach
  <2> QED BY <2>1, <2>2, <2>3 DEF Unmasked, Attached
<1>9. CASE TakeInterrupt
  <2>1. PICK line \in Unmasked(pc) :
              /\ IsPic(pic') /\ pic'.kind = pic.kind
              /\ panic' => pic.kind = "8259A"
              /\ ~panic' => pic'["master"] = [pic["master"] EXCEPT !.irr = @ \ {line}, !.isr = {}]
              /\ UNCHANGED <<closed, isrHandlers, irq_handlers, interrupts>>
    BY <1>9, Taken DEF TakeInterrupt
  <2>2. UNCHANGED pc
    BY <1>9 DEF TakeInterrupt, uhciVars
  <2> QED BY <1>3, <2>1, <2>2 DEF LinesInv, IsPic, Registers
<1>10. CASE TimerTick \/ KeyboardActs \/ KeyPressed
  BY <1>0, <1>3, <1>10 DEF LinesInv, IsPic, Registers
<1> QED BY <1>4, <1>5, <1>6, <1>7, <1>8, <1>9, <1>10, WhileStarting DEF InitializeHw

-----------------------------------------------------------------------------
(* Timeouts.                                                               *)

TimeoutTicks == TimeoutSeconds * TicksPerSecond

LEMMA SomeTicks == TimeoutTicks \in Nat \ {0}
<1>1. \A a, b \in Nat \ {0} : a * b \in Nat \ {0}
  OBVIOUS
<1> QED BY <1>1, Ps2Assumption DEF TimeoutTicks

Pit == [ticks : Int, enabled : BOOLEAN, timedout : BOOLEAN, age : Nat]
BeforePs2 == {"boot", "memory", "vfs", "pit", "pit_irq"}

\* Between the assignments of PIT_setTimeout at most one tick of the timer is
\* served: the first assignment comes after the ticks that were due, the next
\* one raises the line once, and the period is longer than the assignments
\* take.  So the flag that is cleared last is not that of the new timeout, and
\* from there on ticks and age add up until the last tick sets it.
TimeInv ==
  /\ pit \in Pit
  /\ DOMAIN ps2 = {"op", "at", "ccb", "late"} /\ ps2.op \in Nat \ {0}
  /\ pc \in BeforePs2 => ps2.at = "ticks"
  /\ pc = "ps2" =>
       /\ ps2.at \in {"ticks", "enable", "clear", "poll", "act"}
       /\ ps2.at \in {"enable", "clear"} =>
            /\ pit.age \in {0, 1} /\ pit.ticks = TimeoutTicks - pit.age
            /\ pit.age = 1 => 0 \notin pic["master"].irr
       /\ ps2.at = "clear" => pit.enabled
       /\ ps2.at \in {"poll", "act"} =>
            IF pit.timedout THEN pit.age > TimeoutTicks
            ELSE pit.enabled /\ pit.ticks \in Nat /\ pit.ticks + pit.age = TimeoutTicks

LEMMA TimeInit == Init => TimeInv
BY DEF Init, UhciInit, IrqInit, NoTimeout, Ps2Init, TimeInv, Pit, BeforePs2

\* A tick takes one from the ticks and adds one to the age, the last one ends
\* the timeout.
LEMMA OneTick ==
  ASSUME NEW p \in Pit
  PROVE  LET q == PIT_timer_irq(p) IN
         /\ q \in Pit
         /\ p.enabled => /\ q.ticks = p.ticks - 1 /\ q.age = p.age + 1
                         /\ q.enabled = (p.ticks # 0)
                         /\ q.timedout = (p.timedout \/ p.ticks = 0)
         /\ ~p.enabled => q = p
<1>1. CASE p.enabled
  BY <1>1 DEF PIT_timer_irq, Pit
<1>2. CASE ~p.enabled
  BY <1>2 DEF PIT_timer_irq
<1> QED BY <1>1, <1>2

\* The assignments of PIT_setTimeout.
LEMMA Assignments ==
  ASSUME NEW p \in Pit
  PROVE  /\ SetTicks(p, TimeoutSeconds) = [p EXCEPT !.ticks = TimeoutTicks, !.age = 0]
         /\ SetTicks(p, TimeoutSeconds) \in Pit
         /\ SetEnabled(p) \in Pit /\ SetPending(p) \in Pit
<1>1. TimeoutTicks \in Int
  BY SomeTicks
<1>2. SetTicks(p, TimeoutSeconds) = [p EXCEPT !.ticks = TimeoutTicks, !.age = 0]
  BY DEF SetTicks, TimeoutTicks
<1>3. [p EXCEPT !.ticks = TimeoutTicks, !.age = 0] \in Pit
  BY <1>1 DEF Pit
<1>4. SetEnabled(p) \in Pit /\ SetPending(p) \in Pit
  BY DEF Pit, SetEnabled, SetPending
<1> QED BY <1>2, <1>3, <1>4

\* Every access ends where the next one sets its timeout.
LEMMA NextAccess ==
  ASSUME NEW s, DOMAIN s = {"op", "at", "ccb", "late"}, s.op \in Nat \ {0},
         NEW what, NEW byte,
         NEW p, p = GoOn(s) \/ p = Answer(s, what, byte)
  PROVE  /\ DOMAIN p = {"op", "at", "ccb", "late"} /\ p.at = "ticks"
         /\ p.op = s.op + 1 \/ p.op = 17
<1>1. Len(PS2_init) + 1 = 17
  BY DEF PS2_init
<1>2. p = GoOn(s) \/ (\E ccb : p = GoOn([s EXCEPT !.ccb = ccb]))
        \/ p = [s EXCEPT !.op = 17, !.at = "ticks"]
  BY <1>1 DEF Answer
<1> QED BY <1>2 DEF GoOn

\* A timeout changes nothing but `late`.
LEMMA LateIs ==
  ASSUME DOMAIN ps2 = {"op", "at", "ccb", "late"}
  PROVE  /\ DOMAIN Late = {"op", "at", "ccb", "late"}
         /\ Late.op = ps2.op /\ Late.at = ps2.at /\ Late.ccb = ps2.ccb
         /\ Late.late = (ps2.late \/ Op.do = "out" \/ ps2.op < 12)
BY DEF Late, EnableOp

\* A step of PS2_init keeps the account of the timeout.
LEMMA TimePs2 ==
  ASSUME LinesInv, TimeInv, Ps2Start
  PROVE  TimeInv'
<1> DEFINE Fields == DOMAIN ps2' = {"op", "at", "ccb", "late"} /\ ps2'.op \in Nat \ {0}
<1>1. pc = "ps2" /\ pit \in Pit /\ UNCHANGED pic /\ pc' \in {"ps2", "keyboard"}
  BY DEF Ps2Start, Ps2Step, Flush, SetTimeout, Poll, Act, TimeInv, irqVars
<1>2. CASE UNCHANGED <<pit, ps2>>
  BY <1>1, <1>2 DEF TimeInv, BeforePs2
<1>3. CASE Flush \/ Act
  <2>1. pit' = pit
    BY <1>3 DEF Flush, Act
  <2>2. \E s \in {ps2, Late} : \E what, byte : ps2' = GoOn(s) \/ ps2' = Answer(s, what, byte)
    BY <1>3 DEF Flush, Act
  <2>3. PICK s \in {ps2, Late} : \E what, byte : ps2' = GoOn(s) \/ ps2' = Answer(s, what, byte)
    BY <2>2
  <2>4. DOMAIN s = {"op", "at", "ccb", "late"} /\ s.op = ps2.op /\ ps2.op \in Nat \ {0}
    BY LateIs DEF TimeInv
  <2>5. Fields /\ ps2'.at = "ticks"
    BY <2>3, <2>4, NextAccess
  <2> QED BY <1>1, <2>1, <2>5 DEF TimeInv
<1>4. CASE Poll
  <2>1. pit' = pit /\ ps2.at = "poll" /\ ps2'.at = "act" /\ Fields
    BY <1>4 DEF Poll, TimeInv
  <2> QED BY <1>1, <2>1 DEF TimeInv, BeforePs2
<1>5. CASE SetTimeout /\ ps2.at = "ticks"
  <2>1. pit' = SetTicks(pit, TimeoutSeconds) /\ ps2'.at = "enable" /\ Fields
    BY <1>5 DEF SetTimeout, TimeInv
  <2>2. pit' \in Pit /\ pit'.ticks = TimeoutTicks /\ pit'.age = 0
    <3>1. pit' \in Pit /\ pit' = [pit EXCEPT !.ticks = TimeoutTicks, !.age = 0]
      BY <1>1, <2>1, Assignments
    <3> QED BY <1>1, <3>1 DEF Pit
  <2>3. TimeoutTicks - 0 = TimeoutTicks
    BY SomeTicks
  <2> QED BY <1>1, <2>1, <2>2, <2>3 DEF TimeInv, BeforePs2
<1>6. CASE SetTimeout /\ ps2.at = "enable"
  <2>1. pit' = [pit EXCEPT !.enabled = TRUE] /\ ps2'.at = "clear" /\ Fields
    BY <1>6 DEF SetTimeout, TimeInv, SetEnabled
  <2>2. pit' \in Pit
    BY <1>1, <2>1, Assignments DEF SetEnabled
  <2>3. pit'.enabled /\ pit'.ticks = pit.ticks /\ pit'.age = pit.age
    BY <1>1, <2>1 DEF Pit
  <2> QED BY <1>1, <1>6, <2>1, <2>2, <2>3 DEF TimeInv, BeforePs2
<1>7. CASE SetTimeout /\ ps2.at = "clear"
  <2>1. pit' = [pit EXCEPT !.timedout = FALSE] /\ ps2'.at = "poll" /\ Fields
    BY <1>7 DEF SetTimeout, TimeInv, SetPending
  <2>2. pit' \in Pit
    BY <1>1, <2>1, Assignments DEF SetPending
  <2>3. ~pit'.timedout /\ pit'.enabled = pit.enabled /\ pit'.ticks = pit.ticks /\ pit'.age = pit.age
    BY <1>1, <2>1 DEF Pit
  <2>4. pit.enabled /\ pit.age \in {0, 1} /\ pit.ticks = TimeoutTicks - pit.age
    BY <1>1, <1>7 DEF TimeInv
  <2>5. pit'.enabled /\ pit'.ticks \in Nat /\ pit'.ticks + pit'.age = TimeoutTicks
    BY <2>3, <2>4, SomeTicks
  <2> QED BY <1>1, <2>1, <2>2, <2>3, <2>5 DEF TimeInv, BeforePs2
<1>8. SetTimeout => ps2.at \in {"ticks", "enable", "clear"}
  BY DEF SetTimeout
<1> QED BY <1>2, <1>3, <1>4, <1>5, <1>6, <1>7, <1>8 DEF Ps2Start, Ps2Step, irqVars, ps2Vars

\* So does an interrupt, with the handler of the timer or without.
LEMMA TimeInterrupt ==
  ASSUME LinesInv, TimeInv, TakeInterrupt
  PROVE  TimeInv'
<1>1. pc \in Starting /\ Interrupt /\ pc' = pc
  BY DEF TakeInterrupt, uhciVars
<1>2. PICK line \in Unmasked(pc) :
        /\ line \in pic["master"].irr
        /\ pic'["master"].irr = pic["master"].irr \ {line}
        /\ ps2' = ps2
        /\ panic' => pit' = pit
        /\ ~panic' /\ line = 0 /\ 0 \in Attached(pc) => pit' = PIT_timer_irq(pit)
        /\ ~panic' /\ line = 0 /\ 0 \notin Attached(pc) => pit' = pit
        /\ ~panic' /\ line = 1 => pit' = pit
  BY <1>1, Taken
<1>3. line \in {0, 1}
  BY <1>1, <1>2, Taken DEF Unmasked, Starting
<1>4. pic'["master"].irr = pic["master"].irr \ {line}
  BY <1>2
<1>5. CASE pit' = pit
  BY <1>1, <1>2, <1>4, <1>5 DEF TimeInv
<1>6. CASE line = 0 /\ pit' = PIT_timer_irq(pit)
  <2>1. pit \in Pit
    BY DEF TimeInv
  <2>2. pit' \in Pit
    BY <1>6, <2>1, OneTick
  <2>3. CASE ~pit.enabled
    <3>1. pit' = pit
      BY <1>6, <2>1, <2>3, OneTick
    <3> QED BY <1>5, <3>1
  <2>4. CASE pit.enabled
    <3>1. /\ pit'.ticks = pit.ticks - 1 /\ pit'.age = pit.age + 1
          /\ pit'.enabled = (pit.ticks # 0)
          /\ pit'.timedout = (pit.timedout \/ pit.ticks = 0)
      BY <1>6, <2>1, <2>4, OneTick
    <3>2. 0 \notin pic'["master"].irr
      BY <1>4, <1>6
    <3>3. CASE pc = "ps2" /\ ps2.at \in {"enable", "clear"}
      <4>1. pit.age = 0 /\ pit.ticks = TimeoutTicks - pit.age
        BY <3>3, <1>2, <1>6 DEF TimeInv
      <4>2. pit'.age = 1 /\ pit'.ticks = TimeoutTicks - pit'.age /\ pit'.enabled
        <5>1. pit.ticks = TimeoutTicks /\ pit.ticks # 0
          BY <4>1, SomeTicks
        <5>2. pit'.age = 1 /\ pit'.ticks = TimeoutTicks - 1
          BY <3>1, <4>1, <5>1
        <5> QED BY <3>1, <5>1, <5>2
      <4> QED BY <1>1, <1>2, <2>2, <3>2, <3>3, <4>2 DEF TimeInv, BeforePs2
    <3>4. CASE pc = "ps2" /\ ps2.at \in {"poll", "act"}
      <4>1. pit.ticks \in Int /\ pit.age \in Nat
        BY <2>1 DEF Pit
      <4>2. IF pit.timedout THEN pit.age > TimeoutTicks
            ELSE pit.ticks \in Nat /\ pit.ticks + pit.age = TimeoutTicks
        BY <3>4 DEF TimeInv
      <4>3. CASE pit.timedout \/ pit.ticks = 0
        <5>1. pit'.timedout /\ pit'.age > TimeoutTicks
          <6>1. pit'.timedout
            BY <3>1, <4>3
          <6>2. pit.age >= TimeoutTicks
            BY <4>1, <4>2, <4>3, SomeTicks
          <6>3. pit'.age > TimeoutTicks
            BY <3>1, <4>1, <6>2, SomeTicks
          <6> QED BY <6>1, <6>3
        <5> QED BY <1>1, <1>2, <2>2, <3>4, <5>1 DEF TimeInv, BeforePs2
      <4>4. CASE ~pit.timedout /\ pit.ticks # 0
        <5>1. ~pit'.timedout /\ pit'.enabled
          BY <3>1, <4>4
        <5>2. pit'.ticks \in Nat /\ pit'.ticks + pit'.age = TimeoutTicks
          BY <3>1, <4>1, <4>2, <4>4, SomeTicks
        <5> QED BY <1>1, <1>2, <2>2, <3>4, <5>1, <5>2 DEF TimeInv, BeforePs2
      <4> QED BY <4>3, <4>4
    <3>5. CASE ~(pc = "ps2" /\ ps2.at \in {"enable", "clear", "poll", "act"})
      BY <1>1, <1>2, <2>2, <3>5 DEF TimeInv
    <3> QED BY <3>3, <3>4, <3>5
  <2> QED BY <2>3, <2>4
<1> QED BY <1>2, <1>3, <1>5, <1>6

LEMMA TimeStep ==
  ASSUME LinesInv, TimeInv, Next \/ UNCHANGED vars
  PROVE  TimeInv'
<1>1. CASE pc \notin Starting
  BY <1>1, AfterStart DEF TimeInv, irqVars, ps2Vars, Starting, BeforePs2
<1>2. CASE UNCHANGED vars
  BY <1>2 DEF vars, uhciVars, irqVars, ps2Vars, TimeInv
<1> SUFFICES ASSUME pc \in Starting, Next PROVE TimeInv'
  BY <1>1, <1>2
<1>3. CASE InitCpu \/ InitMemory \/ InitVfs \/ PIT_init
  <2>1. /\ UNCHANGED <<pit, ps2>> /\ pc \in BeforePs2 /\ pc' \in BeforePs2 \cup {"ps2"}
    BY <1>3 DEF InitCpu, InitializeCpu, InitMemory, InitVfs, PIT_init, StartLine, startVars,
       irqVars, ps2Vars, BeforePs2
  <2>2. ps2.at = "ticks"
    BY <2>1 DEF TimeInv
  <2> QED BY <2>1, <2>2 DEF TimeInv, BeforePs2
<1>4. CASE init_keyboard \/ FlushKeyboard \/ StartScan
  <2>1. UNCHANGED <<pit, ps2>> /\ pc' \in {"keyboard_irq", "flush", "started", "scan"}
    BY <1>4 DEF init_keyboard, FlushKeyboard, StartScan, StartLine, startVars, irqVars, ps2Vars
  <2> QED BY <2>1 DEF TimeInv, BeforePs2
<1>5. CASE Ps2Start
  BY <1>5, TimePs2
<1>6. CASE TakeInterrupt
  BY <1>6, TimeInterrupt
<1>7. CASE TimerTick
  <2>1. UNCHANGED <<pc, pit, ps2>> /\ pic' = Raise(pic, 0)
        /\ (ps2.at \in {"enable", "clear"} => pit.age = 0)
    BY <1>7 DEF TimerTick, Outside, Tick, uhciVars
  <2> QED BY <2>1 DEF TimeInv
<1>8. CASE KeyboardActs \/ KeyPressed
  <2>1. UNCHANGED <<pc, pit, ps2>>
    BY <1>8 DEF KeyboardActs, KeyPressed, Outside, uhciVars
  <2>2. pic' = pic \/ pic' = Raise(pic, 1)
    BY <1>8, ControllerRequests DEF KeyboardActs, KeyPressed, Outside, LinesInv
  <2>3. 0 \in pic'["master"].irr => 0 \in pic["master"].irr
    <3>1. Raise(pic, 1)["master"] = [pic["master"] EXCEPT !.irr = @ \cup {1}]
      BY Raised DEF LinesInv
    <3> QED BY <2>2, <3>1 DEF LinesInv, IsPic, Registers
  <2> QED BY <2>1, <2>3 DEF TimeInv
<1> QED BY <1>3, <1>4, <1>5, <1>6, <1>7, <1>8, WhileStarting DEF InitializeHw

\* A timeout that is waited for is running and comes after its ticks, not
\* before, for every length of a timeout and whatever the interrupts come
\* between (PIT_setTimeout sets three variables with interrupts on; the timeout
\* before was never cancelled and may end in between).
THEOREM TimeoutsKept == Spec => []TimeoutsTakeTheirTime
<1>1. Init => LinesInv /\ TimeInv
  BY LinesInit, TimeInit
<1>2. LinesInv /\ TimeInv /\ [Next]_vars => (LinesInv /\ TimeInv)'
  BY LinesStep, TimeStep
<1>3. TimeInv => TimeoutsTakeTheirTime
  BY DEF TimeInv, TimeoutsTakeTheirTime, TimeoutTicks
<1> QED BY <1>1, <1>2, <1>3, PTL DEF Spec

-----------------------------------------------------------------------------
(* The keyboard's line.                                                    *)

KbcFields == {"kind", "input", "out", "answers", "keys", "last", "config", "ccb", "testing",
              "pressed"}

\* Past the flush of PS2_init, which takes the byte whose request init_pic may
\* have dropped.
Flushed == pc \in Starting \ BeforePs2 /\ (pc = "ps2" => ps2.op > 3)

\* A byte that waits has its request; a command is only sent to a controller
\* that is there and takes it.
ByteInv ==
  /\ DOMAIN kbc = KbcFields
  /\ kbc.kind = "absent" =>
       /\ kbc.input = <<>> /\ kbc.out = <<>> /\ kbc.answers = <<>> /\ kbc.keys = <<>>
       /\ ~kbc.testing
  /\ pc \in BeforePs2 => ps2.op = 1
  /\ pc = "ps2" /\ ~Ps2Done =>
       /\ Op.do = "flush" => ps2.at = "ticks"
       /\ ps2.at = "act" /\ ~pit.timedout => Ready
  /\ Flushed /\ ~panic => (kbc.out # <<>> /\ IrqBit \in kbc.ccb => 1 \in pic["master"].irr)

LEMMA ByteInit == Init => ByteInv
BY DEF Init, UhciInit, Ps2Init, ByteInv, KbcFields, BeforePs2, Flushed, Starting

LEMMA ReadEmpties ==
  ASSUME ByteInv
  PROVE  LET k == AfterRead(kbc) IN
         /\ DOMAIN k = KbcFields /\ k.out = <<>>
         /\ k.kind = kbc.kind /\ k.input = kbc.input /\ k.answers = kbc.answers
         /\ k.keys = kbc.keys /\ k.testing = kbc.testing
BY DEF AfterRead, ByteInv, KbcFields

\* A controller that acts is there; it takes the byte it was sent, and leaves a
\* byte in the output buffer alone.
LEMMA ControllerActs ==
  ASSUME ByteInv, Acting \/ Press
  PROVE  /\ DOMAIN kbc' = KbcFields /\ kbc'.kind = kbc.kind /\ kbc.kind # "absent"
         /\ kbc'.input \in {kbc.input, <<>>}
         /\ kbc.out # <<>> => kbc'.out = kbc.out
<1>1. CASE Obey
  <2>1. kbc.kind # "absent"
    BY <1>1 DEF Obey, ByteInv
  <2>2. kbc' = Obeyed(kbc, kbc.input[1], kbc.input[2])
    BY <1>1 DEF Obey, Changed
  <2>3. ASSUME NEW socket, NEW value
        PROVE  /\ DOMAIN Obeyed(kbc, socket, value) = KbcFields
               /\ Obeyed(kbc, socket, value).kind = kbc.kind
               /\ Obeyed(kbc, socket, value).input = <<>>
               /\ Obeyed(kbc, socket, value).out = kbc.out
    BY DEF Obeyed, ByteInv, KbcFields
  <2> QED BY <2>1, <2>2, <2>3
<1>2. CASE Load
  BY <1>2 DEF Load, Changed, KeysFlow, ByteInv, KbcFields
<1>3. CASE ReportTest
  BY <1>3 DEF ReportTest, Changed, ByteInv, KbcFields
<1>4. CASE Press
  BY <1>4 DEF Press, Changed, ByteInv, KbcFields
<1> QED BY <1>1, <1>2, <1>3, <1>4 DEF Acting

LEMMA Accesses ==
  /\ Len(PS2_init) = 16
  /\ PS2_init[1].do = "out" /\ PS2_init[2].do = "out" /\ PS2_init[3].do = "flush"
BY DEF PS2_init, Out

\* A step of PS2_init keeps the byte and its request together.
LEMMA BytePs2 ==
  ASSUME LinesInv, TimeInv, ByteInv, Ps2Start
  PROVE  ByteInv'
<1>1. pc = "ps2" /\ UNCHANGED <<pic, panic>> /\ pc' \in {"ps2", "keyboard"}
  BY DEF Ps2Start, Ps2Step, Flush, SetTimeout, Poll, Act, irqVars
<1>2. CASE Ps2Done /\ UNCHANGED <<pit, ps2, kbc>> /\ pc' = "keyboard"
  <2>1. ps2.op > 3
    BY <1>2, Accesses DEF Ps2Done, TimeInv
  <2> QED BY <1>1, <1>2, <2>1 DEF ByteInv, Flushed, Starting, BeforePs2
<1> SUFFICES ASSUME Ps2Step, pc' = "ps2" PROVE ByteInv'
  BY <1>1, <1>2 DEF Ps2Start, irqVars, ps2Vars
<1>3. ~Ps2Done
  BY DEF Ps2Step
<1>4. CASE Flush \/ Act
  <2>1. \E s \in {ps2, Late} :
          (ps2' = GoOn(s)) \/ (Op.do = "in" /\ \E what, byte : ps2' = Answer(s, what, byte))
    BY <1>4 DEF Flush, Act
  <2>2. PICK s \in {ps2, Late} :
          (ps2' = GoOn(s)) \/ (Op.do = "in" /\ \E what, byte : ps2' = Answer(s, what, byte))
    BY <2>1
  <2>3. DOMAIN s = {"op", "at", "ccb", "late"} /\ s.op = ps2.op /\ ps2.op \in Nat \ {0}
    BY LateIs DEF TimeInv
  <2>4. ps2'.at = "ticks" /\ (ps2'.op = ps2.op + 1 \/ ps2'.op = 17)
    BY <2>2, <2>3, NextAccess
  <2>5. Op.do # "in" => ps2'.op = ps2.op + 1
    BY <2>2, <2>3 DEF GoOn
  <2>6. /\ DOMAIN kbc' = KbcFields
        /\ kbc'.kind = "absent" =>
             /\ kbc'.input = <<>> /\ kbc'.out = <<>> /\ kbc'.answers = <<>> /\ kbc'.keys = <<>>
             /\ ~kbc'.testing
        /\ kbc'.out = <<>> \/ (Op.do # "flush" /\ kbc'.out = kbc.out /\ kbc'.ccb = kbc.ccb)
    <3>1. CASE kbc' = AfterRead(kbc)
      BY <3>1, ReadEmpties DEF ByteInv
    <3>2. CASE Act /\ kbc' = kbc
      BY <3>2, <1>1, <1>3 DEF ByteInv, Act
    <3>3. CASE Act /\ Op.do = "out" /\ ~pit.timedout
      <4>1. PICK w : kbc' = [kbc EXCEPT !.input = w]
        BY <3>3 DEF Act
      <4>2. kbc.kind # "absent"
        BY <3>3, <1>1, <1>3 DEF ByteInv, Act, Ready, InputFull
      <4> QED BY <3>3, <4>1, <4>2 DEF ByteInv, KbcFields
    <3> QED BY <1>4, <3>1, <3>2, <3>3 DEF Flush, Act
  <2>7. ps2'.op > 3 => ps2.op > 3 \/ Op.do = "flush"
    <3>1. CASE ps2.op = 1 \/ ps2.op = 2 \/ ps2.op = 3
      BY <2>4, <2>5, <3>1, Accesses DEF Op
    <3>2. ps2.op \in Nat \ {0}
      BY DEF TimeInv
    <3> QED BY <3>1, <3>2
  <2>8. ps2'.op > 3 /\ ~panic => (kbc'.out # <<>> /\ IrqBit \in kbc'.ccb => 1 \in pic["master"].irr)
    BY <1>1, <2>6, <2>7 DEF ByteInv, Flushed, Starting, BeforePs2
  <2> QED BY <1>1, <2>4, <2>6, <2>8 DEF ByteInv, Flushed, BeforePs2
<1>5. CASE SetTimeout \/ Poll
  <2>1. UNCHANGED kbc /\ ps2'.op = ps2.op /\ ps2'.at \in {"enable", "clear", "poll", "act"}
    BY <1>5 DEF SetTimeout, Poll, TimeInv
  <2>2. Op' = Op /\ Ps2Done' = Ps2Done /\ Ready' = Ready
    BY <2>1 DEF Op, Ps2Done, Ready, InputFull, OutputFull
  <2>3. Op.do # "flush"
    BY <1>1, <1>3, <1>5 DEF SetTimeout, Poll, ByteInv
  <2>4. ps2'.at = "act" => Ready \/ pit'.timedout
    BY <1>5, <2>1 DEF SetTimeout, Poll, TimeInv
  <2> QED BY <1>1, <1>3, <2>1, <2>2, <2>3, <2>4 DEF ByteInv, Flushed, BeforePs2
<1> QED BY <1>4, <1>5 DEF Ps2Step

\* An interrupt of the keyboard's line takes the byte it was for; that of the
\* timer can only end a timeout.
LEMMA ByteInterrupt ==
  ASSUME LinesInv, TimeInv, ByteInv, TakeInterrupt
  PROVE  ByteInv'
<1>1. pc \in Starting /\ Interrupt /\ pc' = pc
  BY DEF TakeInterrupt, uhciVars
<1>2. PICK line \in Unmasked(pc) :
        /\ ~panic /\ pic'["master"].irr = pic["master"].irr \ {line}
        /\ ps2' = ps2
        /\ panic' => UNCHANGED <<pit, kbc>>
        /\ ~panic' /\ line = 0 /\ 0 \in Attached(pc) => pit' = PIT_timer_irq(pit) /\ kbc' = kbc
        /\ ~panic' /\ line = 0 /\ 0 \notin Attached(pc) => pit' = pit /\ kbc' = kbc
        /\ ~panic' /\ line = 1 => pit' = pit /\ kbc' = AfterRead(kbc)
  BY <1>1, Taken
<1>3. line \in {0, 1} /\ (line = 1 => pc \in {"flush", "started"})
  <2>1. pc # "boot"
    BY <1>1, Taken
  <2> QED BY <1>1, <1>2, <2>1 DEF Unmasked, Starting
<1>4. CASE panic'
  BY <1>1, <1>2, <1>4 DEF ByteInv, Op, Ps2Done, Ready, InputFull, OutputFull
<1>5. CASE ~panic' /\ line = 1
  <2>1. kbc' = AfterRead(kbc) /\ pc \in {"flush", "started"}
    BY <1>2, <1>3, <1>5
  <2> QED BY <1>1, <2>1, ReadEmpties DEF ByteInv, Flushed, BeforePs2
<1>6. CASE ~panic' /\ line = 0
  <2>1. kbc' = kbc
    BY <1>2, <1>6
  <2>2. pit.timedout => pit'.timedout
    BY <1>2, <1>6, OneTick DEF TimeInv, Pit
  <2>3. Op' = Op /\ Ps2Done' = Ps2Done /\ Ready' = Ready
    BY <1>2, <2>1 DEF Op, Ps2Done, Ready, InputFull, OutputFull
  <2> QED BY <1>1, <1>2, <1>6, <2>1, <2>2, <2>3 DEF ByteInv, Flushed
<1> QED BY <1>3, <1>4, <1>5, <1>6

LEMMA ByteStep ==
  ASSUME LinesInv, TimeInv, ByteInv, Next \/ UNCHANGED vars
  PROVE  ByteInv'
<1>1. CASE pc \notin Starting
  BY <1>1, AfterStart DEF ByteInv, Flushed, irqVars, ps2Vars, Starting, BeforePs2
<1>2. CASE UNCHANGED vars
  <2>1. UNCHANGED <<pc, pit, ps2, kbc, pic, panic>>
    BY <1>2 DEF vars, uhciVars, irqVars, ps2Vars
  <2> QED BY <2>1 DEF ByteInv, Flushed, Op, Ps2Done, Ready, InputFull, OutputFull
<1> SUFFICES ASSUME pc \in Starting, Next PROVE ByteInv'
  BY <1>1, <1>2
<1>3. CASE InitCpu \/ InitMemory \/ InitVfs \/ PIT_init
  <2>1. /\ UNCHANGED <<kbc, ps2>> /\ pc \in BeforePs2 /\ pc' \in BeforePs2 \cup {"ps2"}
    BY <1>3 DEF InitCpu, InitMemory, InitVfs, PIT_init, StartLine, startVars, ps2Vars, BeforePs2
  <2>2. ps2.op = 1 /\ ps2.at = "ticks"
    BY <2>1 DEF ByteInv, TimeInv
  <2> QED BY <2>1, <2>2 DEF ByteInv, Flushed, BeforePs2
<1>4. CASE init_keyboard \/ StartScan
  <2>1. /\ UNCHANGED <<kbc, panic>> /\ pc \in {"keyboard", "keyboard_irq", "started"}
        /\ pc' \in {"keyboard_irq", "flush", "scan"}
        /\ pic' = pic \/ pic' = PIC_irq_unmask(pic, 1)
    BY <1>4 DEF init_keyboard, StartScan, StartLine, Attach, Unmask, startVars, irqVars, ps2Vars
  <2>2. pic'["master"].irr = pic["master"].irr
    <3>1. IsPic(pic)
      BY DEF LinesInv
    <3>2. PIC_irq_unmask(pic, 1)["master"] = [pic["master"] EXCEPT !.imr = @ \ {1}]
      BY <3>1, UnmaskedLine
    <3> QED BY <2>1, <3>1, <3>2 DEF IsPic, Registers
  <2> QED BY <2>1, <2>2 DEF ByteInv, Flushed, Starting, BeforePs2
<1>5. CASE FlushKeyboard
  <2>1. UNCHANGED <<kbc, pic, panic>> /\ pc = "flush" /\ pc' = "started"
    BY <1>5 DEF FlushKeyboard, irqVars
  <2> QED BY <2>1 DEF ByteInv, Flushed, Starting, BeforePs2
<1>6. CASE Ps2Start
  BY <1>6, BytePs2
<1>7. CASE TakeInterrupt
  BY <1>7, ByteInterrupt
<1>8. CASE TimerTick
  <2>1. UNCHANGED <<pc, pit, ps2, kbc, panic>> /\ pic' = Raise(pic, 0)
    BY <1>8 DEF TimerTick, Outside, Tick, uhciVars
  <2>2. 1 \in pic["master"].irr => 1 \in pic'["master"].irr
    <3>1. IsPic(pic)
      BY DEF LinesInv
    <3>2. pic'["master"] = [pic["master"] EXCEPT !.irr = @ \cup {0}]
      BY <2>1, <3>1, Raised
    <3> QED BY <3>1, <3>2 DEF IsPic, Registers
  <2>3. Op' = Op /\ Ps2Done' = Ps2Done /\ Ready' = Ready
    BY <2>1 DEF Op, Ps2Done, Ready, InputFull, OutputFull
  <2> QED BY <2>1, <2>2, <2>3 DEF ByteInv, Flushed
<1>9. CASE KeyboardActs \/ KeyPressed
  <2>1. UNCHANGED <<pc, pit, ps2>> /\ (Acting \/ Press)
    BY <1>9 DEF KeyboardActs, KeyPressed, Outside, uhciVars
  <2>2. kbc'.out # <<>> /\ IrqBit \in kbc'.ccb => 1 \in pic'["master"].irr
    BY <2>1, ControllerRequests DEF LinesInv
  <2>3. Op' = Op /\ Ps2Done' = Ps2Done /\ (Ready => Ready')
    BY <2>1, ControllerActs DEF Op, Ps2Done, Ready, InputFull, OutputFull
  <2> QED BY <2>1, <2>2, <2>3, ControllerActs DEF ByteInv, Flushed
<1> QED BY <1>3, <1>4, <1>5, <1>6, <1>7, <1>8, <1>9, WhileStarting DEF InitializeHw

-----------------------------------------------------------------------------
(* The keyboard is turned on.                                              *)

LEMMA SumOfBits ==
  ASSUME NEW b \in [0..7 -> {0, 1}]
  PROVE  LET v == b[0] + 2 * b[1] + 4 * b[2] + 8 * b[3] + 16 * b[4] + 32 * b[5] + 64 * b[6]
                  + 128 * b[7]
         IN  /\ v \in 0..255
             /\ (v \div 1) % 2 = b[0] /\ (v \div 2) % 2 = b[1]
             /\ (v \div 4) % 2 = b[2] /\ (v \div 8) % 2 = b[3]
             /\ (v \div 16) % 2 = b[4] /\ (v \div 32) % 2 = b[5]
             /\ (v \div 64) % 2 = b[6] /\ (v \div 128) % 2 = b[7]
<1>1. /\ b[0] \in {0, 1} /\ b[1] \in {0, 1} /\ b[2] \in {0, 1} /\ b[3] \in {0, 1}
      /\ b[4] \in {0, 1} /\ b[5] \in {0, 1} /\ b[6] \in {0, 1} /\ b[7] \in {0, 1}
  OBVIOUS
<1> QED BY <1>1

\* A configuration byte holds the bits it was made of.
LEMMA BitsOfByte ==
  ASSUME NEW S, S \subseteq 0..7
  PROVE  FromBits(S) \in 0..255 /\ Bits(FromBits(S)) = S
<1> DEFINE b == [i \in 0..7 |-> IF i \in S THEN 1 ELSE 0]
           v == b[0] + 2 * b[1] + 4 * b[2] + 8 * b[3] + 16 * b[4] + 32 * b[5] + 64 * b[6]
                + 128 * b[7]
<1>1. b \in [0..7 -> {0, 1}] /\ \A i \in 0..7 : i \in S <=> b[i] = 1
  OBVIOUS
<1> HIDE DEF b
<1>2. /\ v \in 0..255
      /\ (v \div 1) % 2 = b[0] /\ (v \div 2) % 2 = b[1]
      /\ (v \div 4) % 2 = b[2] /\ (v \div 8) % 2 = b[3]
      /\ (v \div 16) % 2 = b[4] /\ (v \div 32) % 2 = b[5]
      /\ (v \div 64) % 2 = b[6] /\ (v \div 128) % 2 = b[7]
  BY <1>1, SumOfBits
<1> HIDE DEF v
<1>3. /\ (v \div 2^0) % 2 = b[0] /\ (v \div 2^1) % 2 = b[1]
      /\ (v \div 2^2) % 2 = b[2] /\ (v \div 2^3) % 2 = b[3]
      /\ (v \div 2^4) % 2 = b[4] /\ (v \div 2^5) % 2 = b[5]
      /\ (v \div 2^6) % 2 = b[6] /\ (v \div 2^7) % 2 = b[7]
  BY <1>2
<1>4. \A i \in 0..7 : (v \div 2^i) % 2 = b[i]
  <2>1. \A i \in 0..7 : i \in {0, 1, 2, 3, 4, 5, 6, 7}
    OBVIOUS
  <2> QED BY <1>3, <2>1
<1>5. Bits(v) = S
  BY <1>1, <1>4 DEF Bits
<1> QED BY <1>2, <1>5 DEF FromBits

-----------------------------------------------------------------------------
(* The dialogue with the controller.                                       *)

\* A command in the controller's input; the byte b on its way to the kernel.
Sent(k, socket, value) == k.input = <<socket, value>>
Accepted(k) == k.input = <<>>
Silent(k) == k.out = <<>> /\ k.answers = <<>>
Answers(k, b) ==
  \/ k.out = <<b>> /\ k.answers = <<>>
  \/ k.out = <<>> /\ k.answers = <<b>>

\* A configuration byte is announced, or taken.
Announced(k) ==
  \/ Sent(k, "command", 96)
  \/ Accepted(k) /\ k.config
Configured(k, p) ==
  \/ Sent(k, "data", FromBits(p.ccb)) /\ k.config
  \/ Accepted(k) /\ ~k.config /\ k.ccb = p.ccb

On == {IrqBit, TranslateBit}

\* Where the controller is while the kernel is about to make access p.op, as long
\* as nothing timed out.  From the second access to the tenth the keyboard's clock
\* is off, so that only answers reach the output buffer.  The twelfth starts over:
\* whatever was sent or asked before, it is only written once that was taken.
Dialogue(k, p) ==
  LET off == ClockOffBit \in k.ccb IN
  /\ p.op \in 1..17
  /\ p.op = 1 => Accepted(k) /\ ~k.config /\ k.answers = <<>>
  /\ p.op = 2 => (Sent(k, "command", 173) \/ (Accepted(k) /\ off)) /\ ~k.config /\ k.answers = <<>>
  /\ p.op = 3 => (Sent(k, "command", 167) \/ Accepted(k)) /\ off /\ ~k.config /\ k.answers = <<>>
  /\ p.op = 4 => (Sent(k, "command", 167) \/ Accepted(k)) /\ off /\ ~k.config /\ Silent(k)
  /\ p.op = 5 =>
       /\ off /\ ~k.config
       /\ \/ Sent(k, "command", 32) /\ Silent(k)
          \/ Accepted(k) /\ \E b : Answers(k, b) /\ ClockOffBit \in Bits(b)
  /\ p.op \in 6..9 => ClockOffBit \in p.ccb /\ off
  /\ p.op = 6 => Accepted(k) /\ ~k.config /\ Silent(k)
  /\ p.op = 7 => Announced(k) /\ Silent(k)
  /\ p.op = 8 => Configured(k, p) /\ Silent(k)
  /\ p.op = 9 => /\ ~k.config
                 /\ (Sent(k, "command", 170) /\ Silent(k)) \/ (Accepted(k) /\ Answers(k, 85))
  /\ p.op \in 12..14 => On \subseteq p.ccb
  /\ p.op = 13 => Announced(k)
  /\ p.op = 14 => Configured(k, p)
  /\ p.op \in 15..17 =>
       /\ On \subseteq k.ccb /\ ~k.config
       /\ Sent(k, "data", 255) \/ (Accepted(k) /\ ~off)

IsKbc(k) == DOMAIN k = KbcFields /\ k.ccb \subseteq 0..7

LEMMA KbcStays ==
  ASSUME IsKbc(kbc), Obey \/ Load \/ ReportTest \/ Press
  PROVE  IsKbc(kbc')
<1>1. CASE Obey
  <2>1. kbc' = Obeyed(kbc, kbc.input[1], kbc.input[2])
    BY <1>1 DEF Obey, Changed
  <2>2. ASSUME NEW socket, NEW value
        PROVE  IsKbc(Obeyed(kbc, socket, value))
    <3> DEFINE idle == [kbc EXCEPT !.input = <<>>, !.config = FALSE]
    <3>1. IsKbc(idle)
      BY DEF IsKbc, KbcFields
    <3>2. \/ \E ccb \in {Bits(value), idle.ccb \cup {Clock2OffBit}, idle.ccb \ {Clock2OffBit},
                        idle.ccb \cup {ClockOffBit}, idle.ccb \ {ClockOffBit}} :
               Obeyed(kbc, socket, value) = [idle EXCEPT !.ccb = ccb]
          \/ Obeyed(kbc, socket, value) =
               [idle EXCEPT !.ccb = @ \ {ClockOffBit}, !.keys = Append(@, PS2_COMMAND_ACK),
                            !.testing = TRUE]
          \/ \E answers : Obeyed(kbc, socket, value) = [idle EXCEPT !.answers = answers]
          \/ Obeyed(kbc, socket, value) = [idle EXCEPT !.config = TRUE]
          \/ Obeyed(kbc, socket, value) = idle
      <4>1. CASE socket = "data"
        BY <4>1 DEF Obeyed
      <4>2. CASE socket = "command" /\ value \in {32, 96, 170}
        <5>1. CASE socket = "command" /\ value = 32
          <6>1. Obeyed(kbc, socket, value) =
                  [idle EXCEPT !.answers = Append(idle.answers, FromBits(kbc.ccb))]
            BY <5>1 DEF Obeyed
          <6> QED BY <6>1
        <5>2. CASE socket = "command" /\ value = 96
          BY <5>2 DEF Obeyed
        <5>3. CASE socket = "command" /\ value = 170
          <6>1. Obeyed(kbc, socket, value) = [idle EXCEPT !.answers = Append(idle.answers, 85)]
            BY <5>3 DEF Obeyed
          <6> QED BY <6>1
        <5> QED BY <4>2, <5>1, <5>2, <5>3
      <4>3. CASE socket = "command" /\ value \in {167, 168, 173, 174}
        <5>1. CASE socket = "command" /\ value = 167
          BY <5>1 DEF Obeyed
        <5>2. CASE socket = "command" /\ value = 168
          BY <5>2 DEF Obeyed
        <5>3. CASE socket = "command" /\ value = 173
          BY <5>3 DEF Obeyed
        <5>4. CASE socket = "command" /\ value = 174
          BY <5>4 DEF Obeyed
        <5> QED BY <4>3, <5>1, <5>2, <5>3, <5>4
      <4>4. CASE socket \notin {"data", "command"} \/
                 (socket = "command" /\ value \notin {32, 96, 170, 167, 168, 173, 174})
        BY <4>4 DEF Obeyed
      <4> QED BY <4>1, <4>2, <4>3, <4>4
    <3> HIDE DEF idle
    <3>3. ASSUME NEW ccb \in {Bits(value), idle.ccb \cup {Clock2OffBit}, idle.ccb \ {Clock2OffBit},
                             idle.ccb \cup {ClockOffBit}, idle.ccb \ {ClockOffBit}}
          PROVE  IsKbc([idle EXCEPT !.ccb = ccb])
      <4>1. ccb \subseteq 0..7
        BY <3>1 DEF Bits, IsKbc, ClockOffBit, Clock2OffBit
      <4> QED BY <3>1, <4>1 DEF IsKbc, KbcFields
    <3>4. IsKbc([idle EXCEPT !.ccb = @ \ {ClockOffBit}, !.keys = Append(@, PS2_COMMAND_ACK),
                             !.testing = TRUE])
      BY <3>1 DEF IsKbc, KbcFields
    <3>5. IsKbc([idle EXCEPT !.config = TRUE]) /\ \A answers : IsKbc([idle EXCEPT !.answers = answers])
      BY <3>1 DEF IsKbc, KbcFields
    <3> QED BY <3>1, <3>2, <3>3, <3>4, <3>5
  <2> QED BY <2>1, <2>2
<1>2. CASE Load \/ ReportTest \/ Press
  BY <1>2 DEF Load, ReportTest, Press, Changed, IsKbc, KbcFields
<1> QED BY <1>1, <1>2

\* What the controller and the keyboard do of themselves keeps it.
LEMMA KeysCannotIntrude ==
  ASSUME NEW p, p.ccb \subseteq 0..7, IsKbc(kbc), Dialogue(kbc, p), Load \/ ReportTest \/ Press
  PROVE  IsKbc(kbc') /\ Dialogue(kbc', p)
<1>1. CASE ReportTest \/ Press
  <2>1. IsKbc(kbc') /\ UNCHANGED <<kbc.input, kbc.config, kbc.out, kbc.answers, kbc.ccb>>
    BY <1>1 DEF ReportTest, Press, Changed, IsKbc, KbcFields
  <2> QED BY <2>1 DEF Dialogue, Sent, Accepted, Silent, Answers, Announced, Configured
<1>2. CASE Load
  <2>1. /\ IsKbc(kbc') /\ UNCHANGED <<kbc.input, kbc.config, kbc.ccb>>
        /\ kbc.out = <<>>
        /\ \/ kbc.answers # <<>> /\ kbc'.out = <<Head(kbc.answers)>> /\ kbc'.answers = Tail(kbc.answers)
           \/ kbc.answers = <<>> /\ kbc'.answers = <<>> /\ ClockOffBit \notin kbc.ccb
    BY <1>2 DEF Load, KeysFlow, Changed, IsKbc, KbcFields
  <2>2. ASSUME NEW b, Answers(kbc, b) PROVE Answers(kbc', b)
    <3>1. kbc.answers = <<b>>
      BY <2>1, <2>2 DEF Answers
    <3>2. kbc'.out = <<b>> /\ kbc'.answers = <<>>
      BY <2>1, <3>1
    <3> QED BY <3>2 DEF Answers
  <2>3. Silent(kbc) => kbc.answers = <<>>
    BY DEF Silent
  <2>4. p.op \notin 4..9 => Dialogue(kbc', p)
    BY <2>1 DEF Dialogue, Sent, Accepted, Announced, Configured
  <2>5. ASSUME p.op \in 4..9 PROVE Dialogue(kbc', p)
    <3>1. ClockOffBit \in kbc.ccb
      BY <2>5 DEF Dialogue
    <3>2. ~Silent(kbc)
      BY <2>1, <2>3, <3>1
    <3>3. p.op = 5 \/ p.op = 9
      BY <2>5, <3>2 DEF Dialogue
    <3>4. CASE p.op = 5
      BY <2>1, <2>2, <3>2, <3>4 DEF Dialogue, Sent, Accepted
    <3>5. CASE p.op = 9
      BY <2>1, <2>2, <3>2, <3>5 DEF Dialogue, Sent, Accepted
    <3> QED BY <3>3, <3>4, <3>5
  <2> QED BY <2>1, <2>4, <2>5
<1> QED BY <1>1, <1>2

\* Obeying a command keeps it.
LEMMA CommandsObeyed ==
  ASSUME NEW p, p.ccb \subseteq 0..7, IsKbc(kbc), Dialogue(kbc, p), Obey
  PROVE  IsKbc(kbc') /\ Dialogue(kbc', p)
<1>1. kbc.input # <<>> /\ kbc' = Obeyed(kbc, kbc.input[1], kbc.input[2])
  BY DEF Obey, Changed
<1>0. CASE p.op \in 10..12
  <2>1. IsKbc(kbc')
    BY KbcStays
  <2>2. p.op = 12 => On \subseteq p.ccb
    BY DEF Dialogue
  <2>3. CASE p.op = 10
    BY <2>1, <2>3 DEF Dialogue
  <2>4. CASE p.op = 11
    BY <2>1, <2>4 DEF Dialogue
  <2>5. CASE p.op = 12
    BY <2>1, <2>2, <2>5 DEF Dialogue
  <2> QED BY <1>0, <2>3, <2>4, <2>5
<1> SUFFICES ASSUME p.op \notin 10..12
             PROVE  IsKbc(kbc') /\ Dialogue(kbc', p)
  BY <1>0
<1>15. p.op \in 1..9 \cup 13..17
  BY DEF Dialogue
<1> DEFINE idle == [kbc EXCEPT !.input = <<>>, !.config = FALSE]
<1>16. /\ DOMAIN idle = KbcFields /\ idle.input = <<>> /\ idle.config = FALSE
      /\ idle.out = kbc.out /\ idle.answers = kbc.answers /\ idle.ccb = kbc.ccb
  BY DEF IsKbc, KbcFields
<1> HIDE DEF idle
<1>2. ASSUME NEW socket, NEW value, Sent(kbc, socket, value)
      PROVE  kbc' = Obeyed(kbc, socket, value)
  <2>1. kbc.input[1] = socket /\ kbc.input[2] = value
    BY <1>2 DEF Sent
  <2> QED BY <1>1, <2>1
<1>3. CASE Sent(kbc, "command", 173)
  <2>0. kbc' = Obeyed(kbc, "command", 173)
    BY <1>2, <1>3
  <2>1. kbc' = [idle EXCEPT !.ccb = @ \cup {ClockOffBit}]
    <3>1. Obeyed(kbc, "command", 173) = [idle EXCEPT !.ccb = @ \cup {ClockOffBit}]
      BY DEF Obeyed, idle
    <3> QED BY <2>0, <3>1
  <2>2. p.op = 2
    BY <1>1, <1>3, <1>15 DEF Dialogue, Sent, Accepted, Announced, Configured
  <2> QED BY <2>1, <2>2, <1>16 DEF Dialogue, Sent, Accepted, IsKbc, KbcFields, ClockOffBit
<1>4. CASE Sent(kbc, "command", 167)
  <2>0. kbc' = Obeyed(kbc, "command", 167)
    BY <1>2, <1>4
  <2>1. kbc' = [idle EXCEPT !.ccb = @ \cup {Clock2OffBit}]
    <3>1. Obeyed(kbc, "command", 167) = [idle EXCEPT !.ccb = @ \cup {Clock2OffBit}]
      BY DEF Obeyed, idle
    <3> QED BY <2>0, <3>1
  <2>2. p.op = 3 \/ p.op = 4
    BY <1>1, <1>4, <1>15 DEF Dialogue, Sent, Accepted, Announced, Configured
  <2> QED BY <2>1, <2>2, <1>16 DEF Dialogue, Sent, Accepted, Silent, IsKbc, KbcFields, Clock2OffBit
<1>5. CASE Sent(kbc, "command", 32)
  <2>0. kbc' = Obeyed(kbc, "command", 32)
    BY <1>2, <1>5
  <2>1. kbc' = [idle EXCEPT !.answers = Append(@, FromBits(kbc.ccb))]
    <3>1. Obeyed(kbc, "command", 32) = [idle EXCEPT !.answers = Append(@, FromBits(kbc.ccb))]
      BY DEF Obeyed, idle
    <3> QED BY <2>0, <3>1
  <2>2. p.op = 5
    BY <1>1, <1>5, <1>15 DEF Dialogue, Sent, Accepted, Announced, Configured
  <2>3. Silent(kbc) /\ ClockOffBit \in kbc.ccb
    BY <1>1, <2>2 DEF Dialogue, Accepted
  <2>4. kbc'.answers = <<FromBits(kbc.ccb)>> /\ kbc'.out = <<>>
    BY <2>1, <2>3, <1>16 DEF Silent, KbcFields
  <2>5. ClockOffBit \in Bits(FromBits(kbc.ccb))
    BY <2>3, BitsOfByte DEF IsKbc
  <2>6. \E b : Answers(kbc', b) /\ ClockOffBit \in Bits(b)
    BY <2>4, <2>5 DEF Answers
  <2>7. IsKbc(kbc') /\ Accepted(kbc') /\ ~kbc'.config /\ kbc'.ccb = kbc.ccb
    BY <2>1, <1>16 DEF IsKbc, KbcFields, Accepted
  <2> QED BY <2>2, <2>3, <2>6, <2>7 DEF Dialogue
<1>6. CASE Sent(kbc, "command", 96)
  <2>0. kbc' = Obeyed(kbc, "command", 96)
    BY <1>2, <1>6
  <2>1. kbc' = [idle EXCEPT !.config = TRUE]
    <3>1. Obeyed(kbc, "command", 96) = [idle EXCEPT !.config = TRUE]
      BY DEF Obeyed, idle
    <3> QED BY <2>0, <3>1
  <2>2. p.op = 7 \/ p.op = 13
    BY <1>1, <1>6, <1>15 DEF Dialogue, Sent, Accepted, Announced, Configured
  <2>3. IsKbc(kbc') /\ Accepted(kbc') /\ kbc'.config
        /\ kbc'.ccb = kbc.ccb /\ kbc'.out = kbc.out /\ kbc'.answers = kbc.answers
    BY <2>1, <1>16 DEF IsKbc, KbcFields, Accepted
  <2>4. Announced(kbc') /\ (Silent(kbc) => Silent(kbc'))
    BY <2>3 DEF Announced, Silent
  <2>5. p.op = 7 => Dialogue(kbc', p)
    BY <2>3, <2>4 DEF Dialogue
  <2>6. p.op = 13 => Dialogue(kbc', p)
    BY <2>3, <2>4 DEF Dialogue
  <2> QED BY <2>2, <2>3, <2>5, <2>6
<1>7. CASE Sent(kbc, "data", FromBits(p.ccb)) /\ kbc.config
  <2>0. kbc' = Obeyed(kbc, "data", FromBits(p.ccb))
    BY <1>2, <1>7
  <2>1. kbc' = [idle EXCEPT !.ccb = Bits(FromBits(p.ccb))]
    <3>1. Obeyed(kbc, "data", FromBits(p.ccb)) = [idle EXCEPT !.ccb = Bits(FromBits(p.ccb))]
      BY <1>7 DEF Obeyed, idle
    <3> QED BY <2>0, <3>1
  <2>2. p.op = 8 \/ p.op = 14
    BY <1>1, <1>7, <1>15 DEF Dialogue, Sent, Accepted, Announced, Configured
  <2>3. IsKbc(kbc') /\ Accepted(kbc') /\ ~kbc'.config
        /\ kbc'.ccb = p.ccb /\ kbc'.out = kbc.out /\ kbc'.answers = kbc.answers
    BY <2>1, <1>16, BitsOfByte DEF IsKbc, KbcFields, Accepted
  <2> QED BY <2>2, <2>3 DEF Dialogue, Configured, Silent
<1>8. CASE Sent(kbc, "command", 170)
  <2>0. kbc' = Obeyed(kbc, "command", 170)
    BY <1>2, <1>8
  <2>1. kbc' = [idle EXCEPT !.answers = Append(@, 85)]
    <3>1. Obeyed(kbc, "command", 170) = [idle EXCEPT !.answers = Append(@, 85)]
      BY DEF Obeyed, idle
    <3> QED BY <2>0, <3>1
  <2>2. p.op = 9
    BY <1>1, <1>8, <1>15 DEF Dialogue, Sent, Accepted, Announced, Configured
  <2>3. Silent(kbc)
    BY <1>1, <2>2 DEF Dialogue, Accepted
  <2>4. kbc'.answers = <<85>> /\ kbc'.out = <<>>
    BY <2>1, <2>3, <1>16 DEF Silent, KbcFields
  <2>5. IsKbc(kbc') /\ Accepted(kbc') /\ ~kbc'.config /\ kbc'.ccb = kbc.ccb
    BY <2>1, <1>16 DEF IsKbc, KbcFields, Accepted
  <2> QED BY <2>2, <2>4, <2>5 DEF Dialogue, Answers
<1>11. CASE Sent(kbc, "data", 255) /\ ~kbc.config
  <2>0. kbc' = Obeyed(kbc, "data", 255)
    BY <1>2, <1>11
  <2>1. kbc' = [idle EXCEPT !.ccb = @ \ {ClockOffBit}, !.keys = Append(@, PS2_COMMAND_ACK),
                            !.testing = TRUE]
    <3>1. Obeyed(kbc, "data", 255) = [idle EXCEPT !.ccb = @ \ {ClockOffBit}, !.keys = Append(@, PS2_COMMAND_ACK),
                            !.testing = TRUE]
      BY <1>11 DEF Obeyed, idle
    <3> QED BY <2>0, <3>1
  <2>2. p.op \in 15..17
    BY <1>1, <1>11, <1>15 DEF Dialogue, Sent, Accepted, Announced, Configured
  <2>3. IsKbc(kbc') /\ Accepted(kbc') /\ ~kbc'.config /\ kbc'.ccb = kbc.ccb \ {ClockOffBit}
    BY <2>1, <1>16 DEF IsKbc, KbcFields, Accepted
  <2>4. On \subseteq kbc.ccb
    BY <2>2 DEF Dialogue
  <2> QED BY SMTT(30), <2>2, <2>3, <2>4 DEF Dialogue, On, IrqBit, TranslateBit, ClockOffBit
<1>12. p.op \in 1..5 => \/ Sent(kbc, "command", 173) \/ Sent(kbc, "command", 167)
                         \/ Sent(kbc, "command", 32)
  BY <1>1 DEF Dialogue, Accepted
<1>13. p.op \in 6..9 => \/ Sent(kbc, "command", 96) \/ Sent(kbc, "command", 170)
                        \/ Sent(kbc, "data", FromBits(p.ccb)) /\ kbc.config
  BY <1>1 DEF Dialogue, Accepted, Announced, Configured
<1>14. p.op \in 13..17 => \/ Sent(kbc, "command", 96)
                          \/ Sent(kbc, "data", FromBits(p.ccb)) /\ kbc.config
                          \/ Sent(kbc, "data", 255) /\ ~kbc.config
  BY <1>1 DEF Dialogue, Accepted, Announced, Configured
<1> QED
  BY <1>3, <1>4, <1>5, <1>6, <1>7, <1>8, <1>11, <1>12, <1>13, <1>14, <1>15

LEMMA AccessList ==
  /\ PS2_init[1] = Out("command", 173) /\ PS2_init[2] = Out("command", 167)
  /\ PS2_init[3].do = "flush" /\ PS2_init[4] = Out("command", 32)
  /\ PS2_init[5] = In("ccb") /\ PS2_init[6] = Out("command", 96)
  /\ PS2_init[7] = Out("data", CCB) /\ PS2_init[8] = Out("command", 170)
  /\ PS2_init[9] = In("test") /\ PS2_init[10] = Out("command", 174)
  /\ PS2_init[11] = Out("command", 168) /\ PS2_init[12] = Out("command", 96)
  /\ PS2_init[13] = Out("data", CCB) /\ PS2_init[14] = Out("data", 255)
  /\ PS2_init[15] = In("ack") /\ PS2_init[16] = In("bat")
BY DEF PS2_init

LEMMA NextOp ==
  ASSUME NEW p, DOMAIN p = {"op", "at", "ccb", "late"}
  PROVE  /\ GoOn(p).op = p.op + 1
         /\ GoOn(p).ccb = IF p.op + 1 = 12 THEN p.ccb \cup On ELSE p.ccb
BY DEF GoOn, EnableOp, On

LEMMA AccessKinds ==
  /\ \A op \in {1, 2, 4, 6, 7, 8, 10, 11, 12, 13, 14} : PS2_init[op].do = "out"
  /\ PS2_init[3].do = "flush"
BY SMTT(30), AccessList DEF Out

LEMMA OnlyAnswers ==
  ASSUME ps2.op \in 1..16, Op.do = "in"
  PROVE  ps2.op \in {5, 9, 15, 16}
BY AccessKinds DEF Op

\* A byte is only written to a controller that has taken the one before.
LEMMA ByteWritten ==
  ASSUME IsKbc(kbc), ps2.ccb \subseteq 0..7, ps2.op \in 1..16, Dialogue(kbc, ps2),
         DOMAIN ps2 = {"op", "at", "ccb", "late"},
         Accepted(kbc), Op.do = "out", ps2' = GoOn(ps2),
         kbc' = [kbc EXCEPT !.input =
                        <<Op.port, IF Op.value = CCB THEN FromBits(ps2.ccb) ELSE Op.value>>]
  PROVE  IsKbc(kbc') /\ ps2'.ccb \subseteq 0..7 /\ Dialogue(kbc', ps2')
<1>1. /\ IsKbc(kbc') /\ UNCHANGED <<kbc.config, kbc.out, kbc.answers, kbc.ccb>>
      /\ kbc'.input = <<Op.port, IF Op.value = CCB THEN FromBits(ps2.ccb) ELSE Op.value>>
  BY DEF IsKbc, KbcFields
<1>2. /\ ps2'.op = ps2.op + 1
      /\ ps2'.ccb = IF ps2.op = 11 THEN ps2.ccb \cup On ELSE ps2.ccb
  BY DEF GoOn, EnableOp, On
<1>3. ps2'.ccb \subseteq 0..7
  BY <1>2 DEF On, IrqBit, TranslateBit
<1>4. kbc.input = <<>> /\ (kbc.out = <<>> /\ kbc.answers = <<>> => kbc'.out = <<>> /\ kbc'.answers = <<>>)
  BY <1>1 DEF Accepted
<1>5. ASSUME NEW socket, NEW value, Op = Out(socket, value), value # CCB
      PROVE  Sent(kbc', socket, value)
  BY <1>1, <1>5 DEF Out, Sent
<1>6. Op = Out("data", CCB) => Sent(kbc', "data", FromBits(ps2.ccb))
  BY <1>1 DEF Out, Sent
<1>7. /\ ps2.op = 1 => Sent(kbc', "command", 173)
      /\ ps2.op = 2 => Sent(kbc', "command", 167)
      /\ ps2.op = 4 => Sent(kbc', "command", 32)
      /\ ps2.op = 6 => Sent(kbc', "command", 96)
      /\ ps2.op = 8 => Sent(kbc', "command", 170)
      /\ ps2.op = 10 => Sent(kbc', "command", 174)
      /\ ps2.op = 11 => Sent(kbc', "command", 168)
      /\ ps2.op = 12 => Sent(kbc', "command", 96)
      /\ ps2.op = 14 => Sent(kbc', "data", 255)
  <2>1. /\ 173 # CCB /\ 167 # CCB /\ 32 # CCB /\ 96 # CCB /\ 170 # CCB /\ 174 # CCB /\ 168 # CCB
        /\ 255 # CCB
    BY DEF CCB
  <2> QED BY <2>1, <1>5, AccessList DEF Op
<1>13. ps2.op \in {7, 13} => Sent(kbc', "data", FromBits(ps2.ccb))
  BY <1>6, AccessList DEF Op
<1>8. CASE ps2.op \in {1, 2, 4}
  <2>1. CASE ps2.op = 1
    BY <2>1, <1>1, <1>2, <1>3, <1>7 DEF Dialogue
  <2>2. CASE ps2.op = 2
    BY <2>2, <1>1, <1>2, <1>3, <1>4, <1>7 DEF Dialogue, Sent
  <2>3. CASE ps2.op = 4
    BY <2>3, <1>1, <1>2, <1>3, <1>4, <1>7 DEF Dialogue, Silent
  <2> QED BY <1>8, <2>1, <2>2, <2>3
<1>9. CASE ps2.op \in {6, 7, 8}
  <2>1. CASE ps2.op = 6
    BY <2>1, <1>1, <1>2, <1>3, <1>7 DEF Dialogue, Silent, Announced
  <2>2. CASE ps2.op = 7
    BY <2>2, <1>1, <1>2, <1>3, <1>4, <1>13 DEF Dialogue, Sent, Announced, Configured, Silent
  <2>3. CASE ps2.op = 8
    BY <2>3, <1>1, <1>2, <1>3, <1>4, <1>7 DEF Dialogue, Sent, Silent, Configured
  <2> QED BY <1>9, <2>1, <2>2, <2>3
<1>10. CASE ps2.op \in {10, 11, 12}
  <2>1. CASE ps2.op \in {10, 11}
    BY <2>1, <1>1, <1>2, <1>3 DEF Dialogue
  <2>2. CASE ps2.op = 12
    BY <2>2, <1>1, <1>2, <1>3, <1>7 DEF Dialogue, Announced
  <2> QED BY <1>10, <2>1, <2>2
<1>11. CASE ps2.op \in {13, 14}
  <2>1. CASE ps2.op = 13
    BY <2>1, <1>1, <1>2, <1>3, <1>4, <1>13 DEF Dialogue, Sent, Announced, Configured
  <2>2. CASE ps2.op = 14
    BY <2>2, <1>1, <1>2, <1>3, <1>4, <1>7 DEF Dialogue, Sent, Configured
  <2> QED BY <1>11, <2>1, <2>2
<1>12. ps2.op \notin {3, 5, 9, 15, 16}
  BY AccessList DEF Op, In
<1> QED BY <1>8, <1>9, <1>10, <1>11, <1>12

\* What is read while the keyboard's clock is off is the answer that was asked for.
LEMMA ByteRead ==
  ASSUME IsKbc(kbc), kbc.kind # "absent", ps2.ccb \subseteq 0..7, ps2.op \in 1..16,
         Dialogue(kbc, ps2), DOMAIN ps2 = {"op", "at", "ccb", "late"},
         kbc' = AfterRead(kbc),
         \/ Op.do = "flush" /\ ps2' = GoOn(ps2)
         \/ Op.do = "in" /\ kbc.out # <<>> /\ ps2' = Answer(ps2, Op.what, ReadByte(kbc))
  PROVE  IsKbc(kbc') /\ ps2'.ccb \subseteq 0..7 /\ Dialogue(kbc', ps2')
<1>1. /\ IsKbc(kbc') /\ UNCHANGED <<kbc.input, kbc.config, kbc.answers, kbc.ccb>>
      /\ kbc'.out = <<>>
  BY DEF IsKbc, KbcFields, AfterRead
<1>2. Accepted(kbc') = Accepted(kbc) /\ \A socket, value : Sent(kbc', socket, value) = Sent(kbc, socket, value)
  BY <1>1 DEF Accepted, Sent
<1>0. /\ GoOn(ps2).op = ps2.op + 1
      /\ ps2.op + 1 # 12 => GoOn(ps2).ccb = ps2.ccb
  BY NextOp
<1>3. CASE Op.do = "flush"
  <2>1. ps2.op = 3
    BY <1>3, AccessList DEF Op, Out, In
  <2>2. ps2'.op = 4 /\ ps2'.ccb = ps2.ccb
    BY <1>3, <2>1, <1>0
  <2> QED BY <1>1, <1>2, <2>1, <2>2 DEF Dialogue, Silent
<1>4. CASE Op.do = "in" /\ ps2.op = 5
  <2>1. ps2' = Answer(ps2, "ccb", ReadByte(kbc)) /\ kbc.out # <<>>
    BY <1>4, AccessList DEF Op, In
  <2>2. ps2' = GoOn([ps2 EXCEPT !.ccb = Bits(ReadByte(kbc)) \ {IrqBit, Irq2Bit, TranslateBit}])
    BY <2>1 DEF Answer
  <2>3. ps2'.op = 6 /\ ps2'.ccb = Bits(ReadByte(kbc)) \ {IrqBit, Irq2Bit, TranslateBit}
    BY <1>4, <2>2 DEF GoOn, EnableOp
  <2>4. PICK b : Accepted(kbc) /\ Answers(kbc, b) /\ ClockOffBit \in Bits(b)
    BY <1>4, <2>1 DEF Dialogue, Silent
  <2>5. ReadByte(kbc) = b /\ kbc.answers = <<>>
    BY <2>1, <2>4 DEF Answers, ReadByte
  <2>6. ClockOffBit \in ps2'.ccb
    BY <2>3, <2>4, <2>5 DEF ClockOffBit, IrqBit, Irq2Bit, TranslateBit
  <2>7. ps2'.ccb \subseteq 0..7
    BY <2>3 DEF Bits
  <2> QED BY <1>1, <1>2, <1>4, <2>3, <2>4, <2>5, <2>6, <2>7 DEF Dialogue, Silent
<1>5. CASE Op.do = "in" /\ ps2.op = 9
  <2>1. ps2' = Answer(ps2, "test", ReadByte(kbc)) /\ kbc.out # <<>>
    BY <1>5, AccessList DEF Op, In
  <2>2. Accepted(kbc) /\ Answers(kbc, 85)
    BY <1>5, <2>1 DEF Dialogue, Silent
  <2>3. ReadByte(kbc) = 85
    BY <2>1, <2>2 DEF Answers, ReadByte
  <2>4. ps2' = GoOn(ps2)
    BY <2>1, <2>3 DEF Answer
  <2>5. ps2'.op = 10 /\ ps2'.ccb = ps2.ccb
    BY <1>5, <2>4 DEF GoOn, EnableOp
  <2> QED BY <1>1, <1>2, <1>5, <2>2, <2>5 DEF Dialogue
<1>6. CASE Op.do = "in" /\ ps2.op \in {15, 16}
  <2>1. Op.what \in {"ack", "bat"}
    BY <1>6, AccessList DEF Op, In
  <2>2. ps2' = GoOn(ps2) \/ ps2' = [ps2 EXCEPT !.op = 17, !.at = "ticks"]
    BY <1>6, <2>1, Accesses DEF Answer
  <2>3. ps2'.op \in 15..17 /\ ps2'.ccb = ps2.ccb
    <3>1. ps2.op + 1 # 12 /\ ps2.op + 1 \in 15..17
      BY <1>6
    <3>2. CASE ps2' = GoOn(ps2)
      BY <3>1, <3>2, <1>0
    <3>3. CASE ps2' = [ps2 EXCEPT !.op = 17, !.at = "ticks"]
      BY <3>3
    <3> QED BY <2>2, <3>2, <3>3
  <2> QED BY <1>1, <1>2, <1>6, <2>3 DEF Dialogue
<1>7. Op.do = "in" => ps2.op \in {5, 9, 15, 16}
  BY OnlyAnswers
<1> QED BY <1>3, <1>4, <1>5, <1>6, <1>7

Attentive == kbc.kind \in {"slow", "prompt"}

\* The dialogue is as above when nothing is late, and it is again from the second
\* configuration on.
KeyboardInv ==
  pc \in Starting /\ Attentive =>
    /\ IsKbc(kbc) /\ ps2.ccb \subseteq 0..7 /\ ps2.op \in 1..17
    /\ ~ps2.late => Dialogue(kbc, ps2)
    /\ pc \notin BeforePs2 \cup {"ps2"} => ps2.op = 17

LEMMA KeyboardInit == Init => KeyboardInv
<1> SUFFICES ASSUME Init PROVE KeyboardInv
  OBVIOUS
<1>1. PICK s \in Setups : Ps2Init(s.keyboard, s.config)
  BY DEF Init
<1>2. /\ kbc.input = <<>> /\ kbc.answers = <<>> /\ kbc.config = FALSE
      /\ kbc.ccb \subseteq 0..7 /\ DOMAIN kbc = KbcFields
      /\ ps2.op = 1 /\ ps2.ccb = {}
  BY <1>1, SetupAssumption DEF Ps2Init, KbcFields
<1>3. pc = "boot"
  BY DEF Init, UhciInit
<1> QED BY <1>2, <1>3 DEF KeyboardInv, IsKbc, Dialogue, Accepted, BeforePs2

\* A timeout is forgotten at the second configuration only.
LEMMA Progress ==
  ASSUME NEW s, DOMAIN s = {"op", "at", "ccb", "late"}, s.op \in 1..16, s.ccb \subseteq 0..7,
         NEW what, NEW byte, NEW p, p = GoOn(s) \/ p = Answer(s, what, byte)
  PROVE  /\ p.op \in {s.op + 1, 17} /\ p.ccb \subseteq 0..7
         /\ p.op # 12 /\ ~p.late => ~s.late
         /\ p = GoOn(s) /\ s.op = 11 => On \subseteq p.ccb
<1>1. ASSUME NEW t, DOMAIN t = {"op", "at", "ccb", "late"}, t.op = s.op, t.late = s.late,
             t.ccb \subseteq 0..7
      PROVE  /\ GoOn(t).op = s.op + 1 /\ GoOn(t).ccb \subseteq 0..7
             /\ GoOn(t).op # 12 /\ ~GoOn(t).late => ~s.late
             /\ s.op = 11 => On \subseteq GoOn(t).ccb
  <2>1. /\ GoOn(t).op = t.op + 1
        /\ GoOn(t).ccb = IF t.op + 1 = 12 THEN t.ccb \cup On ELSE t.ccb
        /\ GoOn(t).late = (t.late /\ t.op + 1 # 12)
    BY <1>1 DEF GoOn, EnableOp, On
  <2>2. On \subseteq 0..7
    BY DEF On, IrqBit, TranslateBit
  <2>3. GoOn(t).op # 12 /\ ~GoOn(t).late => ~t.late
    BY <2>1
  <2>4. ~t.late => ~s.late
    BY <1>1
  <2>5. GoOn(t).ccb \subseteq 0..7 /\ (s.op = 11 => On \subseteq GoOn(t).ccb)
    <3>1. s.op = 11 => GoOn(t).ccb = t.ccb \cup On
      BY <1>1, <2>1
    <3>2. s.op # 11 => GoOn(t).ccb = t.ccb
      BY <1>1, <2>1
    <3>3. t.ccb \subseteq 0..7
      BY <1>1
    <3> QED BY <2>2, <3>1, <3>2, <3>3
  <2>6. GoOn(t).op = s.op + 1
    BY <1>1, <2>1
  <2> QED BY <2>3, <2>4, <2>5, <2>6
<1>2. p = GoOn(s) => /\ p.op = s.op + 1 /\ p.ccb \subseteq 0..7
                     /\ p.op # 12 /\ ~p.late => ~s.late
                     /\ s.op = 11 => On \subseteq p.ccb
  BY <1>1
<1>3. CASE p = Answer(s, what, byte) /\ what = "ccb"
  <2>1. p = GoOn([s EXCEPT !.ccb = Bits(byte) \ {IrqBit, Irq2Bit, TranslateBit}])
    BY <1>3 DEF Answer
  <2>2. Bits(byte) \ {IrqBit, Irq2Bit, TranslateBit} \subseteq 0..7
    BY DEF Bits
  <2>3. /\ p.op = s.op + 1 /\ p.ccb \subseteq 0..7
        /\ p.op # 12 /\ ~p.late => ~s.late
    BY <1>1, <2>1, <2>2
  <2> QED BY <1>2, <2>3
<1>4. CASE p = [s EXCEPT !.op = Len(PS2_init) + 1, !.at = "ticks"]
  <2>1. p.op = 17 /\ p.ccb = s.ccb /\ p.late = s.late
    BY <1>4, Accesses
  <2> QED BY <1>2, <2>1
<1>5. p = GoOn(s) \/ (p = Answer(s, what, byte) /\ what = "ccb")
        \/ p = [s EXCEPT !.op = Len(PS2_init) + 1, !.at = "ticks"]
  BY DEF Answer
<1> QED BY <1>2, <1>3, <1>4, <1>5

LEMMA KeyboardPs2 ==
  ASSUME TimeInv, ByteInv, KeyboardInv, Ps2Start
  PROVE  KeyboardInv'
<1>1. pc = "ps2" /\ pc' \in {"ps2", "keyboard"} /\ pc \in Starting
  BY DEF Ps2Start, Ps2Step, Flush, SetTimeout, Poll, Act, irqVars, Starting
<1>2. CASE Ps2Done /\ UNCHANGED <<ps2, kbc>>
  <2>1. Attentive => ps2.op = 17
    BY SMTT(30), <1>1, <1>2, Accesses DEF KeyboardInv, Ps2Done
  <2> QED BY <1>1, <1>2, <2>1 DEF KeyboardInv, Attentive
<1> SUFFICES ASSUME Ps2Step, pc' = "ps2", ~Ps2Done PROVE KeyboardInv'
  BY <1>1, <1>2 DEF Ps2Start, Ps2Step, ps2Vars
<1>3. CASE SetTimeout \/ Poll
  <2>1. kbc' = kbc /\ ps2'.op = ps2.op /\ ps2'.ccb = ps2.ccb /\ ps2'.late = ps2.late
    BY <1>3 DEF SetTimeout, Poll, TimeInv
  <2>2. Dialogue(kbc, ps2) => Dialogue(kbc', ps2')
    BY <2>1 DEF Dialogue, Configured
  <2> QED BY <1>1, <2>1, <2>2 DEF KeyboardInv, Attentive
<1>4. ps2.op \in 1..16
  BY Accesses DEF Ps2Done, TimeInv
<1>5. DOMAIN ps2 = {"op", "at", "ccb", "late"}
  BY DEF TimeInv
<1>6. kbc'.kind = kbc.kind /\ (IsKbc(kbc) => IsKbc(kbc'))
  <2>1. CASE kbc' = AfterRead(kbc) \/ \E w : kbc' = [kbc EXCEPT !.input = w]
    BY <2>1 DEF AfterRead, ByteInv, KbcFields, IsKbc
  <2>2. CASE kbc' = kbc
    BY <2>2
  <2> QED BY <2>1, <2>2 DEF Ps2Step, Flush, Act, SetTimeout, Poll
<1> SUFFICES ASSUME Attentive, Flush \/ Act
             PROVE  /\ ps2'.ccb \subseteq 0..7 /\ ps2'.op \in 1..17
                    /\ ~ps2'.late => Dialogue(kbc', ps2')
  BY <1>1, <1>3, <1>6 DEF KeyboardInv, Attentive, Ps2Step
<1>7. /\ IsKbc(kbc) /\ ps2.ccb \subseteq 0..7 /\ kbc.kind # "absent"
      /\ ~ps2.late => Dialogue(kbc, ps2)
  BY <1>1 DEF KeyboardInv, Attentive
<1>8. ASSUME NEW s \in {ps2, Late}, NEW what, NEW byte, ps2' = GoOn(s) \/ ps2' = Answer(s, what, byte)
      PROVE  /\ ps2'.op \in {ps2.op + 1, 17} /\ ps2'.ccb \subseteq 0..7
             /\ ps2'.op # 12 /\ ~ps2'.late => ~s.late
             /\ ps2' = GoOn(s) /\ ps2.op = 11 => On \subseteq ps2'.ccb
  <2>1. DOMAIN s = {"op", "at", "ccb", "late"} /\ s.op = ps2.op /\ s.ccb = ps2.ccb
    BY <1>5, LateIs
  <2> QED BY <1>4, <1>7, <1>8, <2>1, Progress
<1>9. \E s \in {ps2, Late} : \E what, byte : ps2' = GoOn(s) \/ ps2' = Answer(s, what, byte)
  BY DEF Flush, Act
<1>10. ps2'.ccb \subseteq 0..7 /\ ps2'.op \in {ps2.op + 1, 17} /\ ps2'.op \in 1..17
  BY <1>4, <1>8, <1>9
<1>11. Op.do = "in" => ps2.op \in {5, 9, 15, 16}
  BY <1>4, OnlyAnswers
<1>12. CASE ps2'.op = 12
  <2>1. ps2.op = 11
    BY <1>4, <1>10, <1>12
  <2>2. ps2' = GoOn(ps2) \/ ps2' = GoOn(Late)
    BY <1>11, <2>1 DEF Flush, Act
  <2>3. On \subseteq ps2'.ccb
    BY <1>8, <2>1, <2>2
  <2>4. Dialogue(kbc', ps2')
    BY <1>12, <2>3 DEF Dialogue
  <2> QED BY <1>10, <2>4
<1>13. CASE ps2'.op # 12 /\ Act /\ pit.timedout
  <2>1. kbc' = kbc /\ (ps2' = GoOn(Late) \/ (Op.do = "in" /\ ps2' = Answer(Late, Op.what, PS2_ERROR)))
    BY <1>13 DEF Act
  <2> SUFFICES ASSUME ~ps2'.late PROVE Dialogue(kbc', ps2')
    BY <1>10
  <2>2. ~Late.late
    BY <1>8, <1>13, <2>1
  <2>3. ~ps2.late /\ Op.do # "out" /\ ~(ps2.op < 12)
    BY <1>5, <2>2, LateIs
  <2>4. Op.do = "in" /\ ps2.op \in {15, 16}
    <3>1. ps2.op \notin {12, 13, 14}
      BY <2>3, AccessKinds DEF Op
    <3>2. ps2.op \in {15, 16}
      BY <1>4, <2>3, <3>1
    <3> QED BY <3>2, AccessList DEF Op, In
  <2>5. ps2'.op \in 15..17
    BY <1>10, <2>4
  <2> QED BY <1>7, <2>1, <2>3, <2>4, <2>5 DEF Dialogue
<1>14. CASE ps2'.op # 12 /\ (Flush \/ (Act /\ ~pit.timedout))
  <2>1. Act => Ready
    BY <1>1, <1>14 DEF ByteInv, Act, Flush
  <2>2. \E what, byte : ps2' = GoOn(ps2) \/ ps2' = Answer(ps2, what, byte)
    BY <1>14 DEF Act, Flush
  <2> SUFFICES ASSUME ~ps2'.late PROVE Dialogue(kbc', ps2')
    BY <1>10
  <2>3. ~ps2.late
    BY <1>8, <1>14, <2>2
  <2>4. CASE Op.do = "out" /\ Act
    <3>1. /\ ~InputFull /\ ps2' = GoOn(ps2)
          /\ kbc' = [kbc EXCEPT !.input =
                        <<Op.port, IF Op.value = CCB THEN FromBits(ps2.ccb) ELSE Op.value>>]
      BY <1>14, <2>1, <2>4 DEF Ready, Act, Flush
    <3>2. Accepted(kbc)
      BY <3>1 DEF InputFull, Accepted
    <3> QED BY <1>4, <1>5, <1>7, <2>3, <2>4, <3>1, <3>2, ByteWritten
  <2>5. CASE Flush \/ (Op.do = "in" /\ Act)
    <3>1. /\ kbc' = AfterRead(kbc)
          /\ \/ Op.do = "flush" /\ ps2' = GoOn(ps2)
             \/ Op.do = "in" /\ kbc.out # <<>> /\ ps2' = Answer(ps2, Op.what, ReadByte(kbc))
      BY <1>7, <1>14, <2>1, <2>5 DEF Act, Flush, Ready, OutputFull
    <3> QED BY <1>4, <1>5, <1>7, <2>3, <3>1, ByteRead
  <2> QED BY <1>14, <2>4, <2>5 DEF Act
<1> QED BY <1>12, <1>13, <1>14

LEMMA KeyboardStep ==
  ASSUME LinesInv, TimeInv, ByteInv, KeyboardInv, Next \/ UNCHANGED vars
  PROVE  KeyboardInv'
<1>0. ASSUME UNCHANGED <<kbc, ps2>>,
             pc' \in Starting =>
               /\ pc \in Starting
               /\ pc' \in BeforePs2 \cup {"ps2"} \/ pc \notin BeforePs2 \cup {"ps2"}
      PROVE  KeyboardInv'
  BY <1>0 DEF KeyboardInv, Attentive
<1>1. CASE pc \notin Starting
  BY <1>0, <1>1, AfterStart DEF ps2Vars
<1>2. CASE UNCHANGED vars
  BY <1>0, <1>2 DEF vars, uhciVars, ps2Vars
<1> SUFFICES ASSUME pc \in Starting, Next PROVE KeyboardInv'
  BY <1>1, <1>2
<1>3. CASE InitCpu \/ InitMemory \/ InitVfs \/ PIT_init
  BY <1>0, <1>3 DEF InitCpu, InitMemory, InitVfs, PIT_init, StartLine, startVars, ps2Vars, BeforePs2
<1>4. CASE init_keyboard \/ StartScan \/ FlushKeyboard
  <2>1. UNCHANGED <<kbc, ps2>> /\ pc \in {"keyboard", "keyboard_irq", "flush", "started"}
    BY <1>4 DEF init_keyboard, StartScan, FlushKeyboard, StartLine, startVars, ps2Vars
  <2> QED BY <1>0, <2>1 DEF BeforePs2
<1>5. CASE Ps2Start
  BY <1>5, KeyboardPs2
<1>6. CASE TakeInterrupt
  <2>1. pc \in Starting /\ Interrupt /\ pc' = pc
    BY <1>6 DEF TakeInterrupt, uhciVars
  <2>2. CASE kbc' = kbc /\ ps2' = ps2
    BY <1>0, <2>1, <2>2
  <2>3. CASE kbc' # kbc
    <3>1. kbc' = AfterRead(kbc) /\ ps2' = ps2 /\ pc \in {"flush", "started"}
      BY <2>1, <2>3, Taken DEF Unmasked, Starting
    <3>2. DOMAIN kbc' = KbcFields /\ UNCHANGED <<kbc.kind, kbc.input, kbc.config, kbc.ccb>>
      BY <3>1 DEF AfterRead, ByteInv, KbcFields
    <3>3. Attentive => (~ps2.late => Dialogue(kbc', ps2')) /\ IsKbc(kbc')
      BY <2>1, <3>1, <3>2 DEF KeyboardInv, Dialogue, BeforePs2, Sent, Accepted, IsKbc
    <3> QED BY <2>1, <3>1, <3>2, <3>3 DEF KeyboardInv, Attentive
  <2> QED BY <2>1, <2>2, <2>3, Taken
<1>7. CASE TimerTick
  BY <1>0, <1>7 DEF TimerTick, Outside, Tick, uhciVars
<1>8. CASE KeyboardActs \/ KeyPressed
  <2>1. UNCHANGED <<pc, ps2>> /\ (Acting \/ Press)
    BY <1>8 DEF KeyboardActs, KeyPressed, Outside, uhciVars
  <2>2. kbc'.kind = kbc.kind
    BY <2>1, ControllerActs
  <2>3. Attentive => (~ps2.late => Dialogue(kbc', ps2)) /\ IsKbc(kbc')
    BY <2>1, KbcStays, KeysCannotIntrude, CommandsObeyed DEF KeyboardInv, Acting
  <2> QED BY <2>1, <2>2, <2>3 DEF KeyboardInv, Attentive
<1> QED BY <1>3, <1>4, <1>5, <1>6, <1>7, <1>8, WhileStarting DEF InitializeHw

LEMMA KeyboardIsOn ==
  ASSUME KeyboardInv PROVE KeyboardOn
<1> SUFFICES ASSUME pc = "started", kbc.kind \in {"slow", "prompt"}, ~ps2.late, kbc.input = <<>>
             PROVE  {IrqBit, TranslateBit} \subseteq kbc.ccb /\ ClockOffBit \notin kbc.ccb
  BY DEF KeyboardOn
<1> QED BY DEF KeyboardInv, Attentive, Starting, BeforePs2, Dialogue, Sent, On

\* Every line that is not masked leads to its own handler, with nothing left in
\* service, unless the controller is a real 8259A, which ICW4 as it comes takes
\* out of 8086 mode, and a byte of the keyboard has its request when the kernel has
\* started; the keyboard is on then whatever timed out or was answered late before
\* the second configuration, if nothing did from there on: for any machine, any
\* memory, any configuration the BIOS left and any keyboard, although every byte
\* meant for the slave goes to the master and keys may be pressed at any time
\* (PIC.c, IRQ.c, PIT_init, PS2_init, init_keyboard).
THEOREM KeyboardIsServed == Spec => []KeyboardServed
<1> DEFINE Inv == LinesInv /\ TimeInv /\ ByteInv /\ KeyboardInv
<1>1. Init => Inv
  BY LinesInit, TimeInit, ByteInit, KeyboardInit
<1>2. Inv /\ [Next]_vars => Inv'
  BY LinesStep, TimeStep, ByteStep, KeyboardStep
<1>3. Inv => LinesServed
  <2> SUFFICES ASSUME Inv PROVE LinesServed
    OBVIOUS
  <2>1. ~panic /\ pc \in Starting \ {"boot"} => pic["master"].isr = {}
    BY DEF LinesInv
  <2>2. ~panic /\ pc = "started" => pic["master"].imr = 2..7
    BY DEF LinesInv, Starting, Unmasked
  <2>3. ~panic /\ pc = "started" => irq_handlers[0] = "PIT_timer_irq" /\ irq_handlers[1] = "keyboardHandler"
    BY DEF LinesInv, Starting, Attached
  <2>4. ~panic /\ pc = "started" => (kbc.out # <<>> /\ IrqBit \in kbc.ccb => 1 \in pic["master"].irr)
    BY DEF ByteInv, Flushed, Starting, BeforePs2
  <2> QED BY <2>1, <2>2, <2>3, <2>4 DEF LinesServed, LinesInv
<1>4. Inv => KeyboardServed
  BY <1>3, KeyboardIsOn DEF KeyboardServed
<1> QED BY <1>1, <1>2, <1>4, PTL DEF Spec

-----------------------------------------------------------------------------
(* Induction.                                                              *)

\* There is no endless descent in the numbers.
LEMMA LessIsWellFounded ==
  IsWellFoundedOn({ss \in Nat \X Nat : ss[1] < ss[2]}, Nat)
BY NatLessThanWellFounded DEF OpToRel

\* A set of numbers that is not empty has a least member.
LEMMA LeastMember ==
  ASSUME NEW T, T \subseteq Nat, T # {}
  PROVE  \E x \in T : \A y \in T : x <= y
<1> DEFINE R == {ss \in Nat \X Nat : ss[1] < ss[2]}
<1>1. PICK x \in T : \A y \in T : <<y, x>> \notin R
  <2>1. IsWellFoundedOn(R, Nat)
    BY LessIsWellFounded
  <2> HIDE DEF R
  <2> QED BY <2>1, WFMin
<1>2. \A y \in T : ~(y < x)
  BY <1>1
<1> QED BY <1>2

-----------------------------------------------------------------------------
(* The tree of nodes.                                                      *)

NodeFields == {"name", "dir", "hint", "data", "parent", "children"}

\* What a path of no more than two names leads to.
LEMMA Walks ==
  ASSUME NEW ns, NEW path, Len(path) \in 0..2
  PROVE  /\ Len(path) = 0 => walk_path(ns, path) = ROOT
         /\ Len(path) = 1 => walk_path(ns, path) = Child(ns, ROOT, path[1])
         /\ Len(path) = 2 => walk_path(ns, path) =
                               IF Child(ns, ROOT, path[1]) = ENONODE THEN ENONODE
                               ELSE Child(ns, Child(ns, ROOT, path[1]), path[2])
<1> DEFINE n == Len(path)
           Is(h) == h = [i \in 0..n |-> IF i = 0 THEN ROOT
                                        ELSE IF h[i - 1] = ENONODE THEN ENONODE
                                        ELSE Child(ns, h[i - 1], path[i])]
           h == CHOOSE k : Is(k)
           one == Child(ns, ROOT, path[1])
           two == IF one = ENONODE THEN ENONODE ELSE Child(ns, one, path[2])
           f == [i \in 0..n |-> IF i = 0 THEN ROOT ELSE IF i = 1 THEN one ELSE two]
<1>1. n \in 0..2
  OBVIOUS
<1>2. walk_path(ns, path) = h[n]
  BY DEF walk_path
<1>3. Is(f)
  <2>1. ASSUME NEW i \in 0..n
        PROVE  f[i] = IF i = 0 THEN ROOT
                      ELSE IF f[i - 1] = ENONODE THEN ENONODE ELSE Child(ns, f[i - 1], path[i])
    <3>1. CASE i = 0
      BY <3>1
    <3>2. CASE i = 1
      <4>1. f[0] = ROOT /\ f[1] = one /\ 1 - 1 = 0 /\ ROOT # ENONODE
        BY <3>2 DEF ROOT, ENONODE
      <4> HIDE DEF f
      <4> QED BY <3>2, <4>1
    <3>3. CASE i = 2
      <4>1. f[1] = one /\ f[2] = two /\ 2 - 1 = 1
        BY <3>3
      <4> HIDE DEF f, one
      <4> QED BY <3>3, <4>1
    <3> QED BY <1>1, <3>1, <3>2, <3>3
  <2> QED BY <2>1
<1>4. Is(h)
  <2> HIDE DEF Is, f
  <2> QED BY <1>3
<1> HIDE DEF h, n
<1>5. \A i \in 0..n : h[i] = IF i = 0 THEN ROOT
                             ELSE IF h[i - 1] = ENONODE THEN ENONODE ELSE Child(ns, h[i - 1], path[i])
  BY <1>4
<1>6. h[0] = ROOT
  BY <1>1, <1>5
<1>7. n >= 1 => h[1] = one
  <2>1. n >= 1 => 1 \in 0..n /\ 1 # 0 /\ 1 - 1 = 0 /\ ROOT # ENONODE
    BY <1>1 DEF ROOT, ENONODE
  <2> HIDE DEF one
  <2>2. n >= 1 => h[1] = IF h[0] = ENONODE THEN ENONODE ELSE Child(ns, h[0], path[1])
    BY <1>5, <2>1
  <2> QED BY <1>6, <2>1, <2>2 DEF one
<1>8. n = 2 => h[2] = two
  <2>1. n = 2 => 2 \in 0..n /\ 2 # 0 /\ 2 - 1 = 1
    BY <1>1
  <2> HIDE DEF one
  <2>2. n = 2 => h[2] = IF h[1] = ENONODE THEN ENONODE ELSE Child(ns, h[1], path[2])
    BY <1>5, <2>1
  <2> QED BY <1>7, <2>2
<1> HIDE DEF one
<1>9. /\ n = 0 => walk_path(ns, path) = ROOT
      /\ n = 1 => walk_path(ns, path) = one
      /\ n = 2 => walk_path(ns, path) = IF one = ENONODE THEN ENONODE ELSE Child(ns, one, path[2])
  BY ONLY <1>1, <1>2, <1>6, <1>7, <1>8 DEF two
<1> QED BY ONLY <1>9 DEF n, one

\* A child is one of the children, or there is none of that name.
LEMMA ChildIs ==
  ASSUME NEW ns, NEW dir, NEW name, ns[dir].children \in Seq(Nat)
  PROVE  LET list == ns[dir].children IN
         /\ Child(ns, dir, name) = ENONODE => \A i \in DOMAIN list : ns[list[i]].name # name
         /\ Child(ns, dir, name) # ENONODE =>
              \E i \in DOMAIN list :
                /\ Child(ns, dir, name) = list[i] /\ ns[list[i]].name = name
                /\ \A j \in DOMAIN list : j < i => ns[list[j]].name # name
<1> DEFINE list == ns[dir].children
           found == {i \in DOMAIN list : ns[list[i]].name = name}
<1>1. DOMAIN list = 1..Len(list) /\ Len(list) \in Nat /\ \A i \in DOMAIN list : list[i] \in Nat
  OBVIOUS
<1>2. found \subseteq Nat
  BY <1>1
<1>3. CASE found = {}
  BY <1>3 DEF Child
<1>4. CASE found # {}
  <2>1. PICK m \in found : \A j \in found : m <= j
    BY <1>2, <1>4, LeastMember
  <2>2. Min(found) = m
    <3> DEFINE x == Min(found)
    <3>1. x \in found /\ \A j \in found : x <= j
      BY <2>1 DEF Min
    <3> HIDE DEF x, found
    <3>2. x <= m /\ m <= x
      BY <2>1, <3>1
    <3>3. x \in Nat /\ m \in Nat
      BY <1>2, <2>1, <3>1
    <3> QED BY <3>2, <3>3 DEF x
  <2>3. Child(ns, dir, name) = list[m]
    BY <1>4, <2>2 DEF Child
  <2>4. list[m] \in Nat /\ ENONODE \notin Nat
    BY <1>1, <2>1 DEF ENONODE
  <2>5. \A j \in DOMAIN list : j < m => ns[list[j]].name # name
    <3> SUFFICES ASSUME NEW j \in DOMAIN list, j < m, ns[list[j]].name = name PROVE FALSE
      OBVIOUS
    <3>1. j \in found
      OBVIOUS
    <3> HIDE DEF found
    <3>2. m <= j /\ m \in Nat /\ j \in Nat
      BY <1>1, <1>2, <2>1, <3>1
    <3> QED BY <3>2
  <2> QED BY <2>1, <2>3, <2>4, <2>5
<1> QED BY <1>3, <1>4

\* The directories / (0), /hw (1), /dev (2) and /hw/pci (3), and what is below
\* /dev and /hw/pci.  Nodes are numbered in the order in which they were made.
Tree(ns) ==
  /\ \E n \in Nat : n >= 4 /\ DOMAIN ns = 0..n - 1
  /\ \A n \in DOMAIN ns : DOMAIN ns[n] = NodeFields
  /\ ns[0].children = <<1, 2>> /\ ns[1].children = <<3>>
  /\ ns[2].children \in Seq(Nat)
  /\ \A i \in DOMAIN ns[2].children : ns[2].children[i] \in DOMAIN ns \ 0..3
  /\ ns[1].name = <<"hw">> /\ ns[2].name = <<"dev">> /\ ns[3].name = <<"pci">>
  /\ \A n \in 0..3 : ns[n].dir = TRUE
  /\ \A n \in Devices(ns) : ns[n].hint = "USBCTRL" => ns[n].parent = 3

LEMMA TreeCount ==
  ASSUME NEW ns, NEW n \in Nat, DOMAIN ns = 0..n - 1
  PROVE  node_count(ns) = n
<1>1. Cardinality(0..n - 1) = n
  <2>1. CASE n = 0
    <3>1. 0..n - 1 = {}
      BY <2>1
    <3> QED BY <2>1, <3>1, FS_EmptySet
  <2>2. CASE n # 0
    BY <2>2, FS_Interval
  <2> QED BY <2>1, <2>2
<1> QED BY <1>1 DEF node_count

\* The four directories are where their paths lead.
LEMMA Paths ==
  ASSUME NEW ns, Tree(ns)
  PROVE  /\ walk_path(ns, PciPath) = 3
         /\ walk_path(ns, <<<<"dev">>>>) = 2
         /\ \A name : walk_path(ns, <<<<"dev">>, name>>) \in {ENONODE} \cup (DOMAIN ns \ 0..3)
<1>1. /\ ns[0].children = <<1, 2>> /\ ns[1].children = <<3>>
      /\ ns[1].name = <<"hw">> /\ ns[2].name = <<"dev">> /\ ns[3].name = <<"pci">>
  BY DEF Tree
<1>2. <<"hw">> # <<"dev">>
  OBVIOUS
<1>3. /\ ns[0].children \in Seq(Nat) /\ DOMAIN ns[0].children = {1, 2}
      /\ ns[0].children[1] = 1 /\ ns[0].children[2] = 2
      /\ ns[1].children \in Seq(Nat) /\ DOMAIN ns[1].children = {1} /\ ns[1].children[1] = 3
  <2>1. <<1, 2>> \in Seq(Nat) /\ <<3>> \in Seq(Nat) /\ DOMAIN <<1, 2>> = {1, 2} /\ DOMAIN <<3>> = {1}
        /\ <<1, 2>>[1] = 1 /\ <<1, 2>>[2] = 2 /\ <<3>>[1] = 3
    OBVIOUS
  <2> QED BY <1>1, <2>1
<1>11. \A i \in {1, 2} : i = 1 \/ i = 2
  OBVIOUS
<1> DEFINE tops == ns[0].children
           hw == ns[1].children
<1>12. ASSUME NEW name, NEW k \in {1, 2}, ns[k].name = name, \A j \in {1, 2} : ns[j].name = name => j = k
       PROVE  Child(ns, 0, name) = k
  <2>1. Child(ns, 0, name) # ENONODE
    <3>1. ns[0].children \in Seq(Nat)
      BY ONLY <1>3
    <3>2. Child(ns, 0, name) = ENONODE => \A i \in DOMAIN tops : ns[tops[i]].name # name
      BY ONLY <3>1, ChildIs
    <3> QED BY ONLY <1>3, <1>11, <1>12, <3>2
  <2>2. \E i \in DOMAIN tops : Child(ns, 0, name) = tops[i] /\ ns[tops[i]].name = name
    <3>1. ns[0].children \in Seq(Nat)
      BY ONLY <1>3
    <3> QED BY ONLY <2>1, <3>1, ChildIs
  <2> QED BY ONLY <1>3, <1>11, <1>12, <2>2
<1>4. Child(ns, 0, <<"hw">>) = 1
  BY ONLY <1>1, <1>2, <1>11, <1>12
<1>5. Child(ns, 0, <<"dev">>) = 2
  BY ONLY <1>1, <1>2, <1>11, <1>12
<1>6. Child(ns, 1, <<"pci">>) = 3
  <2>1. Child(ns, 1, <<"pci">>) # ENONODE
    <3>1. ns[1].children \in Seq(Nat)
      BY ONLY <1>3
    <3>2. Child(ns, 1, <<"pci">>) = ENONODE => \A i \in DOMAIN hw : ns[hw[i]].name # <<"pci">>
      BY ONLY <3>1, ChildIs
    <3> QED BY ONLY <1>1, <1>3, <3>2
  <2>2. \E i \in DOMAIN hw : Child(ns, 1, <<"pci">>) = hw[i]
    <3>1. ns[1].children \in Seq(Nat)
      BY ONLY <1>3
    <3> QED BY ONLY <2>1, <3>1, ChildIs
  <2> QED BY ONLY <1>3, <2>2
<1>7. ASSUME NEW name PROVE Child(ns, 2, name) \in {ENONODE} \cup (DOMAIN ns \ 0..3)
  <2>1. ns[2].children \in Seq(Nat) /\ \A i \in DOMAIN ns[2].children : ns[2].children[i] \in DOMAIN ns \ 0..3
    BY DEF Tree
  <2> QED BY <2>1, ChildIs
<1>8. walk_path(ns, PciPath) = 3
  <2> DEFINE path == <<<<"hw">>, <<"pci">>>>
  <2>1. Len(path) = 2 /\ path[1] = <<"hw">> /\ path[2] = <<"pci">> /\ Len(path) \in 0..2
    OBVIOUS
  <2> HIDE DEF path
  <2>2. walk_path(ns, path) = IF Child(ns, ROOT, path[1]) = ENONODE THEN ENONODE
                               ELSE Child(ns, Child(ns, ROOT, path[1]), path[2])
    BY ONLY <2>1, Walks
  <2> QED BY <1>4, <1>6, <2>1, <2>2 DEF ROOT, ENONODE, PciPath, path
<1>9. walk_path(ns, <<<<"dev">>>>) = 2
  <2> DEFINE path == <<<<"dev">>>>
  <2>1. Len(path) = 1 /\ path[1] = <<"dev">> /\ Len(path) \in 0..2
    OBVIOUS
  <2> HIDE DEF path
  <2>2. walk_path(ns, path) = Child(ns, ROOT, path[1])
    BY ONLY <2>1, Walks
  <2> QED BY <1>5, <2>1, <2>2 DEF ROOT, path
<1>10. ASSUME NEW name PROVE walk_path(ns, <<<<"dev">>, name>>) \in {ENONODE} \cup (DOMAIN ns \ 0..3)
  <2> DEFINE path == <<<<"dev">>, name>>
  <2>1. Len(path) = 2 /\ path[1] = <<"dev">> /\ path[2] = name /\ Len(path) \in 0..2
    OBVIOUS
  <2> HIDE DEF path
  <2>2. walk_path(ns, path) = IF Child(ns, ROOT, path[1]) = ENONODE THEN ENONODE
                               ELSE Child(ns, Child(ns, ROOT, path[1]), path[2])
    BY ONLY <2>1, Walks
  <2>3. walk_path(ns, path) = Child(ns, 2, name)
    BY <1>5, <2>1, <2>2 DEF ROOT, ENONODE
  <2> QED BY <1>7, <2>3 DEF path
<1> QED BY <1>8, <1>9, <1>10

\* What add_child does to the nodes there are, and what the new one is.
LEMMA Added ==
  ASSUME NEW ns, NEW n \in Nat, DOMAIN ns = 0..n - 1, \A k \in DOMAIN ns : DOMAIN ns[k] = NodeFields,
         NEW dir \in DOMAIN ns, NEW v, DOMAIN v = NodeFields
  PROVE  LET t == add_child(ns, dir, v) IN
         /\ DOMAIN t = 0..(n + 1) - 1 /\ node_count(ns) = n
         /\ \A k \in DOMAIN t : DOMAIN t[k] = NodeFields
         /\ t[n] = [v EXCEPT !.parent = dir]
         /\ \A k \in DOMAIN ns : k # n /\ k \in DOMAIN t /\ (k # dir => t[k] = ns[k])
         /\ t[dir] = [ns[dir] EXCEPT !.children = Append(@, n)]
<1>1. node_count(ns) = n
  BY TreeCount
<1> DEFINE t == add_child(ns, dir, v)
<1>2. t = [k \in DOMAIN ns \cup {n} |-> IF k = n THEN [v EXCEPT !.parent = dir]
                                        ELSE IF k = dir THEN [ns[k] EXCEPT !.children = Append(@, n)]
                                        ELSE ns[k]]
  BY <1>1 DEF add_child
<1>3. DOMAIN ns \cup {n} = 0..(n + 1) - 1 /\ \A k \in DOMAIN ns : k # n
  OBVIOUS
<1> HIDE DEF t
<1>4. \A k \in DOMAIN t : DOMAIN t[k] = NodeFields
  BY <1>2
<1> QED BY <1>1, <1>2, <1>3, <1>4 DEF t

\* The nodes of ns, and v as the last one.
Grown(ns, t, n, v) ==
  /\ n \in Nat /\ n \notin DOMAIN ns /\ DOMAIN t = DOMAIN ns \cup {n}
  /\ t[n].dir = v.dir /\ t[n].hint = v.hint /\ t[n].data = v.data
  /\ \A k \in DOMAIN ns : /\ k \in Nat /\ k < n
                          /\ t[k].dir = ns[k].dir /\ t[k].hint = ns[k].hint /\ t[k].data = ns[k].data

\* A directory of the tree that is neither / nor /hw takes another node.
LEMMA TreeGrows ==
  ASSUME NEW ns, Tree(ns), NEW dir, dir \in DOMAIN ns \ {0, 1}, NEW v, DOMAIN v = NodeFields,
         v.dir = FALSE /\ v.hint = "USBCTRL" => dir = 3
  PROVE  Tree(add_child(ns, dir, v)) /\ Grown(ns, add_child(ns, dir, v), node_count(ns), v)
<1>1. PICK n \in Nat : n >= 4 /\ DOMAIN ns = 0..n - 1
  BY DEF Tree
<1>2. \A k \in DOMAIN ns : DOMAIN ns[k] = NodeFields
  BY DEF Tree
<1> DEFINE t == add_child(ns, dir, v)
<1>3. /\ DOMAIN t = 0..(n + 1) - 1 /\ node_count(ns) = n
      /\ \A k \in DOMAIN t : DOMAIN t[k] = NodeFields
      /\ t[n] = [v EXCEPT !.parent = dir]
      /\ \A k \in DOMAIN ns : k # n /\ k \in DOMAIN t /\ (k # dir => t[k] = ns[k])
      /\ t[dir] = [ns[dir] EXCEPT !.children = Append(@, n)]
  BY <1>1, <1>2, Added
<1> HIDE DEF t
<1>4. \A k \in DOMAIN ns : /\ t[k].name = ns[k].name /\ t[k].dir = ns[k].dir /\ t[k].hint = ns[k].hint
                           /\ t[k].data = ns[k].data /\ t[k].parent = ns[k].parent
  <2> SUFFICES ASSUME NEW k \in DOMAIN ns
               PROVE  /\ t[k].name = ns[k].name /\ t[k].dir = ns[k].dir /\ t[k].hint = ns[k].hint
                      /\ t[k].data = ns[k].data /\ t[k].parent = ns[k].parent
    OBVIOUS
  <2>1. CASE k # dir
    BY <1>3, <2>1
  <2>2. CASE k = dir
    <3>1. DOMAIN ns[dir] = NodeFields
      BY <1>2
    <3> QED BY <1>3, <2>2, <3>1 DEF NodeFields
  <2> QED BY <2>1, <2>2
<1>5. t[n].dir = v.dir /\ t[n].hint = v.hint /\ t[n].parent = dir
  BY <1>3 DEF NodeFields
<1>6. Tree(t)
  <2>1. n + 1 \in Nat /\ n + 1 >= 4 /\ DOMAIN t = 0..(n + 1) - 1
    BY <1>1, <1>3
  <2>2. 0 \in DOMAIN ns /\ 1 \in DOMAIN ns /\ 2 \in DOMAIN ns /\ 3 \in DOMAIN ns
    BY <1>1
  <2>3. t[0].children = <<1, 2>> /\ t[1].children = <<3>>
    <3>1. t[0] = ns[0] /\ t[1] = ns[1]
      BY <1>3, <2>2
    <3> QED BY <3>1 DEF Tree
  <2>4. t[2].children \in Seq(Nat) /\ \A i \in DOMAIN t[2].children : t[2].children[i] \in DOMAIN t \ 0..3
    <3>0. ns[2].children \in Seq(Nat) /\ \A i \in DOMAIN ns[2].children : ns[2].children[i] \in DOMAIN ns \ 0..3
      BY DEF Tree
    <3>1. CASE dir # 2
      <4>1. t[2] = ns[2]
        BY <1>3, <2>2, <3>1
      <4> QED BY <1>3, <3>0, <4>1
    <3>2. CASE dir = 2
      <4>1. t[2].children = Append(ns[2].children, n)
        BY <1>2, <1>3, <2>2, <3>2 DEF NodeFields
      <4> DEFINE s == ns[2].children
      <4>2. s \in Seq(Nat) /\ Len(s) \in Nat /\ DOMAIN s = 1..Len(s)
        BY <3>0
      <4>3. /\ Append(s, n) \in Seq(Nat) /\ DOMAIN Append(s, n) = 1..Len(s) + 1
            /\ Append(s, n)[Len(s) + 1] = n /\ \A i \in 1..Len(s) : Append(s, n)[i] = s[i]
        BY <4>2
      <4>4. n \in DOMAIN t \ 0..3
        BY <1>1, <2>1
      <4>5. \A i \in 1..Len(s) : s[i] \in DOMAIN t \ 0..3
        BY <1>3, <3>0, <4>2
      <4> HIDE DEF s
      <4>6. \A i \in 1..Len(s) + 1 : Append(s, n)[i] \in DOMAIN t \ 0..3
        <5> SUFFICES ASSUME NEW i \in 1..Len(s) + 1 PROVE Append(s, n)[i] \in DOMAIN t \ 0..3
          OBVIOUS
        <5>1. i \in 1..Len(s) \/ i = Len(s) + 1
          BY <4>2
        <5> QED BY <4>3, <4>4, <4>5, <5>1
      <4> QED BY <4>1, <4>3, <4>6 DEF s
    <3> QED BY <3>1, <3>2
  <2>5. t[1].name = <<"hw">> /\ t[2].name = <<"dev">> /\ t[3].name = <<"pci">>
    BY <1>4, <2>2 DEF Tree
  <2>6. \A k \in 0..3 : t[k].dir = TRUE
    BY <1>1, <1>4 DEF Tree
  <2>7. \A k \in Devices(t) : t[k].hint = "USBCTRL" => t[k].parent = 3
    <3> SUFFICES ASSUME NEW k \in DOMAIN t, ~t[k].dir, t[k].hint = "USBCTRL" PROVE t[k].parent = 3
      BY DEF Devices
    <3>1. k = n \/ k \in DOMAIN ns
      BY <1>1, <1>3
    <3>2. CASE k = n
      <4>1. v.dir = FALSE
        BY <1>5, <3>2 
      <4> QED BY <1>5, <3>2, <4>1
    <3>3. CASE k \in DOMAIN ns
      <4>1. k \in Devices(ns)
        BY <1>4, <3>3 DEF Devices
      <4> QED BY <1>4, <3>3, <4>1 DEF Tree
    <3> QED BY <3>1, <3>2, <3>3
  <2> QED BY <1>3, <2>1, <2>3, <2>4, <2>5, <2>6, <2>7 DEF Tree
<1>7. Grown(ns, t, n, v)
  <2>1. \A k \in DOMAIN ns : k \in Nat /\ k < n
    BY <1>1
  <2>2. DOMAIN t = DOMAIN ns \cup {n} /\ n \notin DOMAIN ns /\ n \in Nat
    BY <1>1, <1>3
  <2>3. t[n].data = v.data
    BY <1>3 DEF NodeFields
  <2> QED BY <1>4, <1>5, <2>1, <2>2, <2>3 DEF Grown
<1> QED BY <1>3, <1>6, <1>7 DEF t

LEMMA Made ==
  ASSUME NEW name, NEW dir, NEW hint, NEW data
  PROVE  LET v == make_node(name, dir, hint, data) IN
         /\ DOMAIN v = NodeFields /\ v.name = name /\ v.dir = dir /\ v.hint = hint /\ v.data = data
         /\ v.children = << >>
BY DEF make_node, BlankNode, NodeFields

\* The nodes 0..n - 1, whole.
HasNodes(ns, n) ==
  /\ n \in Nat /\ DOMAIN ns = 0..n - 1
  /\ \A k \in DOMAIN ns : DOMAIN ns[k] = NodeFields

\* A directory, as initialize_hw makes them.
Folder(word) == make_node(<<word>>, TRUE, "none", << >>)

\* The tree with one more directory.
IsFolder(ns, n, dir, word, t) ==
  /\ HasNodes(t, n + 1)
  /\ t[n].name = <<word>> /\ t[n].dir = TRUE /\ t[n].children = << >>
  /\ \A k \in DOMAIN ns : k # dir => t[k] = ns[k]
  /\ t[dir].children = Append(ns[dir].children, n)
  /\ t[dir].name = ns[dir].name /\ t[dir].dir = ns[dir].dir

LEMMA FolderAdded ==
  ASSUME NEW ns, NEW n, HasNodes(ns, n), NEW dir, dir \in DOMAIN ns, NEW word
  PROVE  IsFolder(ns, n, dir, word, add_child(ns, dir, Folder(word)))
<1> DEFINE v == Folder(word)
           t == add_child(ns, dir, v)
<1>1. DOMAIN v = NodeFields /\ v.name = <<word>> /\ v.dir = TRUE /\ v.children = << >>
  BY DEF Folder, make_node, BlankNode, NodeFields
<1> HIDE DEF v
<1>2. n \in Nat /\ DOMAIN ns = 0..n - 1 /\ \A k \in DOMAIN ns : DOMAIN ns[k] = NodeFields
  BY DEF HasNodes
<1>3. /\ DOMAIN t = 0..(n + 1) - 1 /\ \A k \in DOMAIN t : DOMAIN t[k] = NodeFields
      /\ t[n] = [v EXCEPT !.parent = dir]
      /\ \A k \in DOMAIN ns : k # n /\ k \in DOMAIN t /\ (k # dir => t[k] = ns[k])
      /\ t[dir] = [ns[dir] EXCEPT !.children = Append(@, n)]
  <2>1. node_count(ns) = n
    BY <1>2, TreeCount
  <2>2. t = [k \in DOMAIN ns \cup {n} |-> IF k = n THEN [v EXCEPT !.parent = dir]
                                          ELSE IF k = dir THEN [ns[k] EXCEPT !.children = Append(@, n)]
                                          ELSE ns[k]]
    BY <2>1 DEF add_child
  <2>3. DOMAIN ns \cup {n} = 0..(n + 1) - 1 /\ \A k \in DOMAIN ns : k # n
    BY <1>2
  <2> HIDE DEF t
  <2>4. \A k \in DOMAIN t : DOMAIN t[k] = NodeFields
    BY <1>1, <1>2, <2>2
  <2> QED BY <2>2, <2>3, <2>4
<1> HIDE DEF t
<1>4. DOMAIN ns[dir] = NodeFields
  BY <1>2
<1>5. n + 1 \in Nat
  BY <1>2
<1>6. t[n].name = v.name /\ t[n].dir = v.dir /\ t[n].children = v.children
  BY <1>1, <1>3 DEF NodeFields
<1>7. t[dir].children = Append(ns[dir].children, n) /\ t[dir].name = ns[dir].name
      /\ t[dir].dir = ns[dir].dir
  BY <1>3, <1>4 DEF NodeFields
<1>8. IsFolder(ns, n, dir, word, t)
  BY <1>1, <1>3, <1>5, <1>6, <1>7 DEF IsFolder, HasNodes
<1> QED BY <1>8 DEF t, v

\* The tree InitVfs makes: the four directories and no device.
LEMMA BootTreeIs ==
  /\ Tree(BootTree) /\ Devices(BootTree) = {} /\ Devices(vfs_init) = {}
  /\ BootTree[2].children = << >>
<1> DEFINE t1 == add_child(vfs_init, 0, Folder("hw"))
           t2 == add_child(t1, 0, Folder("dev"))
           t3 == add_child(t2, 1, Folder("pci"))
<1>1. /\ HasNodes(vfs_init, 1) /\ 0 \in DOMAIN vfs_init
      /\ vfs_init[0].children = << >> /\ vfs_init[0].dir = TRUE
      /\ Devices(vfs_init) = {}
  <2>1. DOMAIN vfs_init = {0} /\ vfs_init[0] = BlankNode
    BY DEF vfs_init, ROOT
  <2>2. DOMAIN BlankNode = NodeFields /\ BlankNode.children = << >> /\ BlankNode.dir = TRUE
    BY DEF BlankNode, NodeFields
  <2>3. {0} = 0..1 - 1 /\ 1 \in Nat
    OBVIOUS
  <2> QED BY <2>1, <2>2, <2>3 DEF HasNodes, Devices
<1>2. /\ HasNodes(t1, 2) /\ 0 \in DOMAIN t1
      /\ t1[1].name = <<"hw">> /\ t1[1].dir = TRUE /\ t1[1].children = << >>
      /\ t1[0].children = <<1>> /\ t1[0].dir = TRUE
  <2>1. Append(<< >>, 1) = <<1>> /\ 1 + 1 = 2
    OBVIOUS
  <2> HIDE DEF t1
  <2>2. t1 = add_child(vfs_init, 0, Folder("hw"))
    BY DEF t1
  <2>3. /\ HasNodes(t1, 1 + 1)
        /\ t1[1].name = <<"hw">> /\ t1[1].dir = TRUE /\ t1[1].children = << >>
        /\ t1[0].children = Append(vfs_init[0].children, 1) /\ t1[0].dir = vfs_init[0].dir
    <3>1. IsFolder(vfs_init, 1, 0, "hw", t1)
      BY <1>1, <2>2, FolderAdded
    <3> QED BY <3>1 DEF IsFolder
  <2>4. HasNodes(t1, 2)
    BY <2>1, <2>3
  <2>5. 0 \in DOMAIN t1
    BY <2>4 DEF HasNodes
  <2> QED BY <1>1, <2>1, <2>3, <2>4, <2>5
<1> HIDE DEF t1
<1>3. /\ HasNodes(t2, 3) /\ 1 \in DOMAIN t2 /\ t2[1] = t1[1]
      /\ t2[2].name = <<"dev">> /\ t2[2].dir = TRUE /\ t2[2].children = << >>
      /\ t2[0].children = <<1, 2>> /\ t2[0].dir = TRUE
  <2> DEFINE s == Append(<<1>>, 2)
  <2>1. s = <<1, 2>> /\ 2 + 1 = 3
    <3>1. s \in Seq(Nat) /\ Len(s) = 2 /\ s[1] = 1 /\ s[2] = 2
      OBVIOUS
    <3> HIDE DEF s
    <3>2. s = <<1, 2>>
      BY <3>1
    <3> QED BY <3>2
  <2> HIDE DEF t2
  <2>2. t2 = add_child(t1, 0, Folder("dev"))
    BY DEF t2
  <2>3. /\ HasNodes(t2, 2 + 1)
        /\ t2[2].name = <<"dev">> /\ t2[2].dir = TRUE /\ t2[2].children = << >>
        /\ \A k \in DOMAIN t1 : k # 0 => t2[k] = t1[k]
        /\ t2[0].children = Append(t1[0].children, 2) /\ t2[0].dir = t1[0].dir
    <3>1. HasNodes(t1, 2) /\ 0 \in DOMAIN t1
      BY <1>2
    <3>2. IsFolder(t1, 2, 0, "dev", t2)
      BY <2>2, <3>1, FolderAdded
    <3> QED BY <3>2 DEF IsFolder
  <2>4. HasNodes(t2, 3)
    BY <2>1, <2>3
  <2>5. 1 \in DOMAIN t2 /\ 1 \in DOMAIN t1
    BY <1>2, <2>4 DEF HasNodes
  <2> QED BY <1>2, <2>1, <2>3, <2>4, <2>5
<1> HIDE DEF t2
<1>4. /\ DOMAIN t3 = 0..4 - 1 /\ \A k \in DOMAIN t3 : DOMAIN t3[k] = NodeFields
      /\ t3[0] = t2[0] /\ t3[2] = t2[2]
      /\ t3[3].name = <<"pci">> /\ t3[3].dir = TRUE
      /\ t3[1].name = <<"hw">> /\ t3[1].dir = TRUE /\ t3[1].children = <<3>>
  <2>1. Append(<< >>, 3) = <<3>> /\ 3 + 1 = 4
    OBVIOUS
  <2> HIDE DEF t3
  <2>2. t3 = add_child(t2, 1, Folder("pci"))
    BY DEF t3
  <2>3. /\ HasNodes(t3, 3 + 1)
        /\ t3[3].name = <<"pci">> /\ t3[3].dir = TRUE
        /\ \A k \in DOMAIN t2 : k # 1 => t3[k] = t2[k]
        /\ t3[1].children = Append(t2[1].children, 3)
        /\ t3[1].name = t2[1].name /\ t3[1].dir = t2[1].dir
    <3>1. HasNodes(t2, 3) /\ 1 \in DOMAIN t2
      BY <1>3
    <3>2. IsFolder(t2, 3, 1, "pci", t3)
      BY <2>2, <3>1, FolderAdded
    <3> QED BY <3>2 DEF IsFolder
  <2>4. HasNodes(t3, 4)
    BY <2>1, <2>3
  <2>5. 0 \in DOMAIN t2 /\ 2 \in DOMAIN t2
    BY <1>3 DEF HasNodes
  <2> QED BY <1>2, <1>3, <2>1, <2>3, <2>4, <2>5 DEF HasNodes
<1> HIDE DEF t3
<1>5. BootTree = t3
  <2>1. Len(<< >>) = 0 /\ Len(<< >>) \in 0..2
    OBVIOUS
  <2>2. \A ns : walk_path(ns, << >>) = 0
    BY <2>1, Walks DEF ROOT
  <2>3. walk_path(t2, <<<<"hw">>>>) = 1
    <3> DEFINE path == <<<<"hw">>>>
    <3>1. Len(path) = 1 /\ path[1] = <<"hw">> /\ Len(path) \in 0..2
      OBVIOUS
    <3> HIDE DEF path
    <3>2. walk_path(t2, path) = Child(t2, ROOT, path[1])
      BY ONLY <3>1, Walks
    <3> DEFINE list == t2[0].children
    <3>3. list \in Seq(Nat) /\ DOMAIN list = {1, 2} /\ list[1] = 1 /\ list[2] = 2
      <4>1. <<1, 2>> \in Seq(Nat) /\ DOMAIN <<1, 2>> = {1, 2} /\ <<1, 2>>[1] = 1 /\ <<1, 2>>[2] = 2
        OBVIOUS
      <4> QED BY <1>3, <4>1
    <3>4. t2[1].name = <<"hw">> /\ t2[2].name # <<"hw">>
      <4>1. <<"hw">> # <<"dev">>
        OBVIOUS
      <4> QED BY <1>2, <1>3, <4>1
    <3>5. Child(t2, 0, <<"hw">>) # ENONODE
      <4>1. t2[0].children \in Seq(Nat)
        BY <3>3
      <4>2. Child(t2, 0, <<"hw">>) = ENONODE => \A i \in DOMAIN list : t2[list[i]].name # <<"hw">>
        BY ONLY <4>1, ChildIs
      <4> QED BY ONLY <3>3, <3>4, <4>2
    <3>6. \E i \in DOMAIN list : Child(t2, 0, <<"hw">>) = list[i] /\ t2[list[i]].name = <<"hw">>
      <4>1. t2[0].children \in Seq(Nat)
        BY <3>3
      <4> QED BY ONLY <3>5, <4>1, ChildIs
    <3> HIDE DEF list
    <3>7. Child(t2, 0, <<"hw">>) = 1
      BY ONLY <3>3, <3>4, <3>6
    <3> QED BY <3>1, <3>2, <3>7 DEF path, ROOT
  <2>4. \A ns, v : ns[0].dir = TRUE => add_vnode(ns, << >>, v) = add_child(ns, 0, v)
    BY <2>2 DEF add_vnode, ENONODE
  <2>5. \A v : add_vnode(t2, <<<<"hw">>>>, v) = add_child(t2, 1, v)
    BY <1>2, <1>3, <2>3 DEF add_vnode, ENONODE
  <2>6. add_vnode(vfs_init, << >>, Folder("hw")) = t1
    BY <1>1, <2>4 DEF t1
  <2>7. add_vnode(t1, << >>, Folder("dev")) = t2
    BY <1>2, <2>4 DEF t2
  <2> QED BY <2>5, <2>6, <2>7 DEF BootTree, t3, Folder
<1>6. Tree(t3)
  <2>1. t3[0].children = <<1, 2>> /\ t3[1].children = <<3>> /\ t3[2].children = << >>
    BY <1>3, <1>4
  <2>2. << >> \in Seq(Nat) /\ DOMAIN << >> = {}
    OBVIOUS
  <2>3. \A k \in 0..3 : k = 0 \/ k = 1 \/ k = 2 \/ k = 3
    OBVIOUS
  <2>4. \A k \in 0..3 : t3[k].dir = TRUE
    BY <1>3, <1>4, <2>3
  <2>5. DOMAIN t3 = 0..3
    BY <1>4
  <2>6. Devices(t3) = {}
    BY <2>4, <2>5 DEF Devices
  <2>7. t3[1].name = <<"hw">> /\ t3[2].name = <<"dev">> /\ t3[3].name = <<"pci">>
    BY <1>3, <1>4
  <2>8. 4 \in Nat /\ 4 >= 4
    OBVIOUS
  <2> QED BY ONLY <1>4, <2>1, <2>2, <2>4, <2>6, <2>7, <2>8 DEF Tree
<1>7. Devices(t3) = {}
  BY <1>4, <1>6 DEF Tree, Devices
<1>8. t3[2].children = << >>
  BY <1>3, <1>4
<1> QED BY <1>1, <1>5, <1>6, <1>7, <1>8

-----------------------------------------------------------------------------
(* The queue of events.                                                    *)

\* The last element of a sequence taken off, and changed.
LEMMA TopOff ==
  ASSUME NEW X, NEW s \in Seq(X), s # << >>
  PROVE  /\ Len(s) \in Nat \ {0} /\ Last(s) = s[Len(s)] /\ Last(s) \in X /\ Len(s) \in DOMAIN s
         /\ Front(s) \in Seq(X) /\ Len(Front(s)) = Len(s) - 1
         /\ \A i \in 1..Len(s) - 1 : Front(s)[i] = s[i]
<1>1. Len(s) \in Nat \ {0}
  OBVIOUS
<1>2. Last(s) = s[Len(s)] /\ Last(s) \in X /\ Len(s) \in DOMAIN s
  BY <1>1 DEF Last
<1>3. Front(s) = SubSeq(s, 1, Len(s) - 1)
  BY DEF Front
<1> DEFINE k == Len(s) - 1
<1>4. k \in Nat /\ \A i \in 1..k : s[i] \in X
  BY <1>1
<1>5. Front(s) \in Seq(X) /\ Len(Front(s)) = k /\ \A i \in 1..k : Front(s)[i] = s[i]
  <2>1. SubSeq(s, 1, k) = [i \in 1..k |-> s[i]]
    BY <1>1, <1>4
  <2>2. Front(s) = [i \in 1..k |-> s[i]]
    BY <1>3, <2>1
  <2> HIDE DEF k
  <2> QED BY <1>4, <2>2
<1> QED BY <1>1, <1>2, <1>5

DeviceEvent == [flags : {EVENT_DEVICE_ADD}, hint : {"USB", "USBCTRL"}, node : Nat]

Queued(q, n) == \E i \in DOMAIN q : q[i].node = n

\* The queue holds devices, with their hints, in the order of their numbers, and
\* what is no longer in it came before what still is.
Queue(ns, q) ==
  /\ q \in Seq(DeviceEvent)
  /\ \A i \in DOMAIN q : q[i].node \in Devices(ns) /\ ns[q[i].node].hint = q[i].hint
  /\ \A i, j \in DOMAIN q : i < j => q[i].node < q[j].node
  /\ \A n, s \in Devices(ns) : Queued(q, n) /\ ~Queued(q, s) => s < n

\* A device that was made, and told of.
NowQueued(ns, t, n, q, r) ==
  /\ Queue(t, r) /\ Devices(t) = Devices(ns) \cup {n}
  /\ \A k : Queued(r, k) <=> Queued(q, k) \/ k = n

LEMMA DeviceQueued ==
  ASSUME NEW ns, NEW t, NEW n, NEW v, Grown(ns, t, n, v), v.dir = FALSE,
         NEW q, Queue(ns, q), NEW e, e \in DeviceEvent, e.node = n, e.hint = v.hint
  PROVE  NowQueued(ns, t, n, q, Append(q, e))
<1> DEFINE r == Append(q, e)
           m == Len(q)
<1>1. q \in Seq(DeviceEvent)
  BY DEF Queue
<1>2. m \in Nat /\ DOMAIN q = 1..m
  BY <1>1
<1>3. r \in Seq(DeviceEvent) /\ DOMAIN r = 1..m + 1 /\ r[m + 1] = e /\ \A i \in 1..m : r[i] = q[i]
  BY <1>1
<1> HIDE DEF r, m
<1>4. \A i \in 1..m + 1 : i \in 1..m \/ i = m + 1
  BY <1>2
<1>5. \A i \in 1..m : i \in 1..m + 1 /\ i < m + 1
  BY <1>2
<1>6. Devices(t) = Devices(ns) \cup {n}
  BY DEF Devices, Grown
<1>7. \A k : Queued(r, k) <=> Queued(q, k) \/ k = n
  <2>1. m + 1 \in 1..m + 1
    BY <1>2
  <2> QED BY <1>2, <1>3, <1>4, <1>5, <2>1 DEF Queued
<1>8. \A i \in 1..m : q[i].node \in Devices(ns) /\ ns[q[i].node].hint = q[i].hint
  BY <1>2 DEF Queue
<1>9. \A k \in Devices(ns) : k \in DOMAIN ns /\ k \in Nat /\ k < n /\ t[k].hint = ns[k].hint
  BY DEF Devices, Grown
<1>10. \A i \in 1..m + 1 : r[i].node \in Devices(t) /\ t[r[i].node].hint = r[i].hint
  <2>1. t[n].hint = e.hint /\ n \in Devices(t)
    BY <1>6 DEF Grown
  <2> QED BY <1>3, <1>4, <1>6, <1>8, <1>9, <2>1
<1>11. \A i, j \in 1..m + 1 : i < j => r[i].node < r[j].node
  <2> SUFFICES ASSUME NEW i \in 1..m + 1, NEW j \in 1..m + 1, i < j PROVE r[i].node < r[j].node
    OBVIOUS
  <2>1. i \in 1..m
    BY <1>2
  <2>2. CASE j \in 1..m
    <3>1. \A x, y \in 1..m : x < y => q[x].node < q[y].node
      BY <1>2 DEF Queue
    <3> QED BY <1>3, <2>1, <2>2, <3>1
  <2>3. CASE j = m + 1
    BY <1>3, <1>8, <1>9, <2>1, <2>3
  <2> QED BY <1>4, <2>2, <2>3
<1>12. \A k, s \in Devices(t) : Queued(r, k) /\ ~Queued(r, s) => s < k
  <2> SUFFICES ASSUME NEW k \in Devices(t), NEW s \in Devices(t), Queued(r, k), ~Queued(r, s)
               PROVE  s < k
    OBVIOUS
  <2>1. s # n /\ s \in Devices(ns) /\ ~Queued(q, s)
    BY <1>6, <1>7
  <2>2. CASE k = n
    BY <1>9, <2>1, <2>2
  <2>3. CASE k # n
    <3>1. k \in Devices(ns) /\ Queued(q, k)
      BY <1>6, <1>7, <2>3
    <3> QED BY <2>1, <3>1 DEF Queue
  <2> QED BY <2>2, <2>3
<1>13. Queue(t, r)
  BY <1>3, <1>10, <1>11, <1>12 DEF Queue
<1> QED BY <1>6, <1>7, <1>13 DEF r, NowQueued

LEMMA DirectoryAdded ==
  ASSUME NEW ns, NEW t, NEW n, NEW v, Grown(ns, t, n, v), v.dir = TRUE, NEW q, Queue(ns, q)
  PROVE  Queue(t, q) /\ Devices(t) = Devices(ns)
<1>1. Devices(t) = Devices(ns)
  BY DEF Devices, Grown
<1>2. \A k \in Devices(ns) : t[k].hint = ns[k].hint
  BY DEF Devices, Grown
<1> QED BY <1>1, <1>2 DEF Queue

LEMMA EventPopped ==
  ASSUME NEW ns, NEW q, Queue(ns, q), q # << >>, \A k \in Devices(ns) : k \in Nat
  PROVE  /\ Head(q) \in DeviceEvent /\ Head(q).node \in Devices(ns)
         /\ ns[Head(q).node].hint = Head(q).hint
         /\ Queue(ns, Tail(q)) /\ ~Queued(Tail(q), Head(q).node)
         /\ \A k : Queued(q, k) <=> Queued(Tail(q), k) \/ k = Head(q).node
<1> DEFINE r == Tail(q)
           m == Len(q)
           e == Head(q)
<1>1. q \in Seq(DeviceEvent)
  BY DEF Queue
<1>2. m \in Nat \ {0} /\ DOMAIN q = 1..m /\ e = q[1]
  <2>1. m # 0
    BY <1>1
  <2> QED BY <1>1, <2>1
<1>3. r \in Seq(DeviceEvent) /\ DOMAIN r = 1..m - 1 /\ \A i \in 1..m - 1 : r[i] = q[i + 1]
  BY <1>1, <1>2
<1> HIDE DEF r, m, e
<1>4. \A i \in 1..m - 1 : i + 1 \in 1..m /\ i + 1 > 1
  BY <1>2
<1>5. 1 \in 1..m /\ \A i \in 1..m : i = 1 \/ (i - 1 \in 1..m - 1 /\ (i - 1) + 1 = i)
  BY <1>2
<1>6. \A i \in 1..m : q[i].node \in Devices(ns) /\ ns[q[i].node].hint = q[i].hint
  BY <1>2 DEF Queue
<1>7. e \in DeviceEvent /\ e.node \in Devices(ns) /\ ns[e.node].hint = e.hint
  BY <1>1, <1>2, <1>5, <1>6
<1>8. \A i, j \in 1..m : i < j => q[i].node < q[j].node
  BY <1>2 DEF Queue
<1>9. \A k : Queued(q, k) <=> Queued(r, k) \/ k = e.node
  <2> SUFFICES ASSUME NEW k PROVE Queued(q, k) <=> Queued(r, k) \/ k = e.node
    OBVIOUS
  <2>1. ASSUME NEW i \in 1..m, q[i].node = k PROVE Queued(r, k) \/ k = e.node
    <3>1. CASE i = 1
      BY <1>2, <2>1, <3>1
    <3>2. CASE i # 1
      <4>1. i - 1 \in 1..m - 1 /\ (i - 1) + 1 = i
        BY <1>5, <3>2
      <4>2. r[i - 1].node = k
        BY <1>3, <2>1, <4>1
      <4> QED BY <1>3, <4>1, <4>2 DEF Queued
    <3> QED BY <3>1, <3>2
  <2>2. ASSUME NEW i \in 1..m - 1, r[i].node = k PROVE Queued(q, k)
    BY <1>2, <1>3, <1>4, <2>2 DEF Queued
  <2>3. k = e.node => Queued(q, k)
    BY <1>2, <1>5 DEF Queued
  <2> QED BY <1>2, <1>3, <2>1, <2>2, <2>3 DEF Queued
<1>10. \A i \in 1..m - 1 : e.node < r[i].node
  BY <1>2, <1>3, <1>4, <1>5, <1>8
<1>11. ~Queued(r, e.node)
  <2> SUFFICES ASSUME NEW i \in 1..m - 1, r[i].node = e.node PROVE FALSE
    BY <1>3 DEF Queued
  <2>1. e.node < e.node /\ e.node \in Nat
    BY <1>7, <1>10
  <2> QED BY <2>1
<1>12. \A i \in 1..m - 1 : r[i].node \in Devices(ns) /\ ns[r[i].node].hint = r[i].hint
  BY <1>3, <1>4, <1>6
<1>13. \A i, j \in 1..m - 1 : i < j => r[i].node < r[j].node
  <2> SUFFICES ASSUME NEW i \in 1..m - 1, NEW j \in 1..m - 1, i < j PROVE r[i].node < r[j].node
    OBVIOUS
  <2>1. i + 1 < j + 1
    BY <1>2
  <2> QED BY <1>3, <1>4, <1>8, <2>1
<1>14. \A k, s \in Devices(ns) : Queued(r, k) /\ ~Queued(r, s) => s < k
  <2> SUFFICES ASSUME NEW k \in Devices(ns), NEW s \in Devices(ns), Queued(r, k), ~Queued(r, s)
               PROVE  s < k
    OBVIOUS
  <2>1. CASE s = e.node
    <3>1. PICK i \in 1..m - 1 : r[i].node = k
      BY <1>3 DEF Queued
    <3> QED BY <1>10, <2>1, <3>1
  <2>2. CASE s # e.node
    <3>1. Queued(q, k) /\ ~Queued(q, s)
      BY <1>9, <2>2
    <3> QED BY <3>1 DEF Queue
  <2> QED BY <2>1, <2>2
<1>15. Queue(ns, r)
  BY <1>3, <1>12, <1>13, <1>14 DEF Queue
<1> QED BY <1>7, <1>9, <1>11, <1>15 DEF r, e

\* The machine is what it is.
LEMMA MachineStays ==
  ASSUME Next \/ UNCHANGED vars
  PROVE  machine' = machine
<1>1. CASE UNCHANGED vars
  BY <1>1 DEF vars, pciVars
<1>2. CASE InitializeHw
  BY <1>2 DEF InitializeHw, busVars, pciVars
<1>3. CASE Scan \/ InitDrivers \/ ServeEvent
  BY <1>3 DEF Scan, ScanStep, EnumerateBus, CheckFunction, InitDrivers, ServeEvent, busVars, pciVars
<1>4. CASE DriverStep
  BY <1>4 DEF DriverStep, SetupBar, InitFails, AddController, ProbePort, ConfirmPort, ResetPort,
     RetryReset, SendTransfer, KeepWaiting, EndTransfer, pciVars
<1>5. CASE UsbHardware \/ TakeInterrupt
  BY <1>5 DEF UsbHardware, Execute, Replug, TakeInterrupt, pciVars
<1>6. CASE TimerTick \/ KeyboardActs \/ KeyPressed
  BY <1>6 DEF TimerTick, KeyboardActs, KeyPressed, Outside, pciVars
<1> QED BY <1>1, <1>2, <1>3, <1>4, <1>5, <1>6 DEF Next, Kernel

-----------------------------------------------------------------------------
(* The calls of the scan.                                                  *)

\* A call that is past function 0 of a device has found it.
Call ==
  {c \in [bus : Nat \cup {machine[a].secondary : a \in DOMAIN machine}, device : Nat, function : Nat] :
      c.function >= 1 => <<c.bus, c.device, 0>> \in DOMAIN machine}

CallsInv == calls \in Seq(Call) /\ host \in Nat

LEMMA ReplacedTop ==
  ASSUME NEW X, NEW s \in Seq(X), s # << >>, NEW x \in X
  PROVE  /\ Append(Front(s), x) \in Seq(X) /\ Len(Append(Front(s), x)) = Len(s)
         /\ Append(Front(s), x)[Len(s)] = x
         /\ \A i \in 1..Len(s) - 1 : Append(Front(s), x)[i] = s[i]
<1> DEFINE f == Front(s)
           k == Len(s)
<1>1. k \in Nat \ {0} /\ f \in Seq(X) /\ Len(f) = k - 1 /\ \A i \in 1..k - 1 : f[i] = s[i]
  BY TopOff
<1> HIDE DEF f, k
<1>2. Append(f, x) \in Seq(X) /\ Len(Append(f, x)) = k /\ Append(f, x)[k] = x
  BY <1>1
<1>3. \A i \in 1..k - 1 : Append(f, x)[i] = s[i]
  BY <1>1
<1> QED BY <1>2, <1>3 DEF f, k

LEMMA CallsStep ==
  ASSUME CallsInv, EnumerateBus \/ CheckFunction
  PROVE  CallsInv'
<1>1. machine' = machine /\ Call' = Call
  BY DEF EnumerateBus, CheckFunction, Call
<1>2. \A b \in Nat \cup {machine[a].secondary : a \in DOMAIN machine} : checkBus(b) \in Call
  BY DEF checkBus, Call
<1>3. CASE EnumerateBus
  <2>1. host \in Nat /\ host' = host + 1
    BY <1>3 DEF CallsInv, EnumerateBus
  <2>2. PICK b \in Nat : calls' = <<checkBus(b)>>
    BY <1>3, <2>1 DEF EnumerateBus
  <2>3. checkBus(b) \in Call
    BY <1>2
  <2>4. calls' \in Seq(Call)
    BY <2>2, <2>3
  <2> QED BY <1>1, <2>1, <2>4 DEF CallsInv
<1>4. CASE CheckFunction
  <2> DEFINE top == Last(calls)
             rest == Front(calls)
             next == Append(rest, [top EXCEPT !.function = @ + 1])
             at == <<top.bus, top.device, top.function>>
  <2>1. calls \in Seq(Call) /\ calls # << >> /\ host' = host
    BY <1>4 DEF CallsInv, CheckFunction
  <2>2. top \in Call /\ rest \in Seq(Call)
    BY <2>1, TopOff
  <2>3. /\ top.bus \in Nat \cup {machine[a].secondary : a \in DOMAIN machine}
        /\ top.device \in Nat /\ top.function \in Nat
        /\ DOMAIN top = {"bus", "device", "function"}
    BY <2>2 DEF Call
  <2>4. \/ calls' = rest
        \/ calls' = Append(rest, NextDevice(top))
        \/ /\ <<top.bus, top.device, 0>> \in DOMAIN machine
           /\ \/ calls' = next
              \/ at \in DOMAIN machine /\ calls' = Append(next, checkBus(machine[at].secondary))
    BY <1>4 DEF CheckFunction, Checked, is_valid, getDeviceFunction
  <2> HIDE DEF top, rest
  <2>5. NextDevice(top) \in Call
    <3> DEFINE B == Nat \cup {machine[a].secondary : a \in DOMAIN machine}
    <3>1. top \in [bus : B, device : Nat, function : Nat]
      BY <2>2 DEF Call
    <3> HIDE DEF B
    <3>2. NextDevice(top) \in [bus : B, device : Nat, function : Nat] /\ NextDevice(top).function = 0
      <4>1. top.device + 1 \in Nat
        BY <2>3
      <4> DEFINE c == [top EXCEPT !.device = @ + 1, !.function = 0]
      <4>2. c \in [bus : B, device : Nat, function : Nat] /\ c.function = 0
        BY <3>1, <4>1
      <4>3. NextDevice(top) = c
        BY DEF NextDevice
      <4> HIDE DEF c
      <4> QED BY <4>2, <4>3
    <3>3. ~(NextDevice(top).function >= 1)
      BY <3>2
    <3> QED BY <3>2, <3>3 DEF Call, B
  <2>6. <<top.bus, top.device, 0>> \in DOMAIN machine => [top EXCEPT !.function = @ + 1] \in Call
    BY <2>3 DEF Call
  <2>7. <<top.bus, top.device, 0>> \in DOMAIN machine => next \in Seq(Call)
    BY <2>2, <2>6
  <2> HIDE DEF next
  <2>8. at \in DOMAIN machine => checkBus(machine[at].secondary) \in Call
    BY <1>2
  <2> HIDE DEF at
  <2>9. calls' \in Seq(Call)
    <3>1. CASE calls' = rest
      BY <2>2, <3>1
    <3>2. CASE calls' = Append(rest, NextDevice(top))
      BY <2>2, <2>5, <3>2
    <3>3. CASE <<top.bus, top.device, 0>> \in DOMAIN machine /\ calls' = next
      BY <2>7, <3>3
    <3>4. CASE /\ <<top.bus, top.device, 0>> \in DOMAIN machine /\ at \in DOMAIN machine
               /\ calls' = Append(next, checkBus(machine[at].secondary))
      <4>1. next \in Seq(Call) /\ checkBus(machine[at].secondary) \in Call
        BY <2>7, <2>8, <3>4
      <4> HIDE DEF next
      <4> QED BY <3>4, <4>1
    <3> QED BY <2>4, <3>1, <3>2, <3>3, <3>4
  <2> QED BY <1>1, <2>1, <2>9 DEF CallsInv
<1> QED BY <1>3, <1>4

\* What ListDevice lists is there.
LEMMA ListedIsThere ==
  ASSUME CallsInv, calls # << >>, Last(calls).function = 1
  PROVE  <<Last(calls).bus, Last(calls).device, 0>> \in DOMAIN machine
<1>1. Last(calls) \in Call
  BY TopOff DEF CallsInv
<1> QED BY <1>1 DEF Call

-----------------------------------------------------------------------------
(* Devices and controllers.                                                *)

Preparing == {"boot", "memory", "vfs"}
\* Where the driver is at a port; it stays there when a device's data stops it.
Stopped == {"divided", "overrun"}
Working == {"probe", "present", "reset", "retry", "send", "wait"} \cup Stopped

Controller == [at : DOMAIN machine, name : {"uhci"} \X Nat, addressCount : Nat, device_count : Nat]

IsUhci(n) == nodes[n].hint = "USBCTRL" /\ machine[nodes[n].data].class = "uhci"

\* The node has its controller.
HasController(n) == \E i \in DOMAIN controllers : controllers[i].at = nodes[n].data

\* The queue is as it must be, and every UHCI device that is no longer in it has a
\* controller, or is the one that is set up or failed to be.
QueueInv ==
  /\ IF pc \in Preparing THEN nodes = vfs_init ELSE Tree(nodes)
  /\ Queue(nodes, events)
  /\ \A n \in Devices(nodes) : nodes[n].hint = "USBCTRL" => nodes[n].data \in DOMAIN machine
  /\ \A n \in Devices(nodes) : ~Queued(events, n) /\ IsUhci(n) =>
        (pc \in {"setup", "init", "halted"} /\ n = node) \/ HasController(n)
  /\ CallsInv
  /\ controllers \in Seq(Controller)
  /\ pc \in Working => controllers # << >>
  /\ pc \in {"setup", "init"} => node \in Devices(nodes) /\ IsUhci(node)

LEMMA QueueInit == Init => QueueInv
<1> SUFFICES ASSUME Init PROVE QueueInv
  OBVIOUS
<1>1. /\ nodes = vfs_init /\ events = << >> /\ calls = << >> /\ host = 0 /\ pc = "boot"
      /\ controllers = << >>
  BY DEF Init, PciInit, UhciInit
<1>2. Devices(nodes) = {}
  BY <1>1, BootTreeIs
<1>3. \A X : << >> \in Seq(X)
  OBVIOUS
<1>4. DOMAIN << >> = {}
  OBVIOUS
<1>5. Queue(nodes, events)
  BY <1>1, <1>2, <1>3, <1>4 DEF Queue
<1>6. CallsInv /\ controllers \in Seq(Controller)
  BY <1>1, <1>3 DEF CallsInv
<1> QED BY <1>1, <1>2, <1>5, <1>6 DEF QueueInv, Preparing, Working, Stopped

\* A step that leaves the tree, the queue and the controllers alone.
LEMMA QueueKept ==
  ASSUME QueueInv, UNCHANGED <<nodes, events, machine, calls, host, controllers, node>>,
         pc' \in Preparing <=> pc \in Preparing,
         pc' \in Working => pc \in Working,
         pc' \in {"setup", "init"} => pc \in {"setup", "init"},
         pc \in {"setup", "init", "halted"} => pc' \in {"setup", "init", "halted"}
  PROVE  QueueInv'
<1>1. Call' = Call /\ Controller' = Controller
  BY DEF Call, Controller
<1>2. CallsInv'
  BY <1>1 DEF QueueInv, CallsInv
<1>3. \A n : IsUhci(n)' <=> IsUhci(n)
  BY DEF IsUhci
<1>4. \A n : HasController(n)' <=> HasController(n)
  BY DEF HasController
<1> QED BY <1>1, <1>2, <1>3, <1>4 DEF QueueInv

\* What add_dnode does for a device of a directory that is neither / nor /hw.
LEMMA DnodeAdded ==
  ASSUME Tree(nodes), Queue(nodes, events), NEW path, NEW v, DOMAIN v = NodeFields,
         v.dir = FALSE, v.hint \in {"USB", "USBCTRL"},
         walk_path(nodes, path) \in {ENONODE} \cup (DOMAIN nodes \ {0, 1}),
         v.hint = "USBCTRL" => walk_path(nodes, path) = 3,
         add_dnode(path, v)
  PROVE  \/ UNCHANGED <<nodes, events>>
         \/ /\ Tree(nodes') /\ Grown(nodes, nodes', node_count(nodes), v)
            /\ NowQueued(nodes, nodes', node_count(nodes), events, events')
<1> DEFINE dir == walk_path(nodes, path)
           n == node_count(nodes)
           e == [flags |-> EVENT_DEVICE_ADD, hint |-> v.hint, node |-> n]
<1>1. /\ nodes' = IF dir # ENONODE /\ nodes[dir].dir THEN add_child(nodes, dir, v) ELSE nodes
      /\ events' = IF nodes' = nodes THEN events ELSE Append(events, e)
  BY DEF add_dnode, add_vnode, add_event
<1>2. dir = ENONODE \/ dir \in DOMAIN nodes \ {0, 1}
  OBVIOUS
<1>3. v.hint = "USBCTRL" => dir = 3
  OBVIOUS
<1> HIDE DEF dir, n, e
<1>4. CASE nodes' = nodes
  BY <1>1, <1>4
<1>5. CASE nodes' # nodes
  <2>1. dir \in DOMAIN nodes \ {0, 1} /\ nodes' = add_child(nodes, dir, v)
    BY <1>1, <1>2, <1>5
  <2>2. Tree(nodes') /\ Grown(nodes, nodes', n, v)
    BY <1>3, <2>1, TreeGrows DEF n
  <2>3. e \in DeviceEvent /\ e.node = n /\ e.hint = v.hint
    BY <2>2 DEF e, DeviceEvent, Grown
  <2>4. events' = Append(events, e)
    BY <1>1, <1>5
  <2>5. NowQueued(nodes, nodes', n, events, Append(events, e))
    <3>1. Grown(nodes, nodes', n, v)
      BY <2>2
    <3>2. e \in DeviceEvent
      BY <2>3
    <3>3. e.node = n
      BY <2>3
    <3>4. e.hint = v.hint
      BY <2>3
    <3> HIDE DEF e, n
    <3> QED BY <3>1, <3>2, <3>3, <3>4, DeviceQueued
  <2> QED BY <2>2, <2>4, <2>5 DEF n
<1> QED BY <1>4, <1>5

\* The controllers there are stay those of their devices.
ControllersStay ==
  \A i \in DOMAIN controllers : i \in DOMAIN controllers' /\ controllers'[i].at = controllers[i].at

LEMMA OldNodes ==
  ASSUME NEW n, NEW v, Grown(nodes, nodes', n, v), machine' = machine, ControllersStay,
         NEW k \in DOMAIN nodes
  PROVE  /\ nodes'[k].data = nodes[k].data /\ nodes'[k].hint = nodes[k].hint
         /\ IsUhci(k)' <=> IsUhci(k)
         /\ HasController(k) => HasController(k)'
<1>1. nodes'[k].data = nodes[k].data /\ nodes'[k].hint = nodes[k].hint
  BY DEF Grown
<1>2. IsUhci(k)' <=> IsUhci(k)
  BY <1>1 DEF IsUhci
<1>3. HasController(k) => HasController(k)'
  BY <1>1 DEF HasController, ControllersStay
<1> QED BY <1>1, <1>2, <1>3

\* A step that may list a device, while no controller is set up.
LEMMA QueueMore ==
  ASSUME QueueInv, pc \notin Preparing, pc \notin {"setup", "init", "halted"},
         pc' \notin Preparing, pc' \notin {"setup", "init"}, pc' \in Working => controllers' # << >>,
         machine' = machine, ControllersStay, controllers' \in Seq(Controller), CallsInv',
         NEW v, v.hint = "USBCTRL" => v.data \in DOMAIN machine,
         \/ UNCHANGED <<nodes, events>>
         \/ /\ Tree(nodes') /\ Grown(nodes, nodes', node_count(nodes), v)
            /\ NowQueued(nodes, nodes', node_count(nodes), events, events')
  PROVE  QueueInv'
<1> DEFINE n == node_count(nodes)
<1>1. Controller' = Controller
  BY DEF Controller
<1>2. CASE UNCHANGED <<nodes, events>>
  <2>1. \A k : IsUhci(k)' <=> IsUhci(k)
    BY <1>2 DEF IsUhci
  <2>2. \A k : HasController(k) => HasController(k)'
    BY <1>2 DEF HasController, ControllersStay
  <2> QED BY <1>1, <1>2, <2>1, <2>2 DEF QueueInv
<1>3. CASE /\ Tree(nodes') /\ Grown(nodes, nodes', node_count(nodes), v)
           /\ NowQueued(nodes, nodes', node_count(nodes), events, events')
  <2>1. /\ Queue(nodes', events') /\ Devices(nodes') = Devices(nodes) \cup {n}
        /\ \A k : Queued(events', k) <=> Queued(events, k) \/ k = n
    BY <1>3 DEF NowQueued
  <2>2. \A k \in Devices(nodes) : /\ nodes'[k].data = nodes[k].data /\ nodes'[k].hint = nodes[k].hint
                                  /\ IsUhci(k)' <=> IsUhci(k)
                                  /\ HasController(k) => HasController(k)'
    BY <1>3, OldNodes DEF Devices
  <2>3. nodes'[n].hint = v.hint /\ nodes'[n].data = v.data
    BY <1>3 DEF Grown
  <2> HIDE DEF n
  <2>4. \A k \in Devices(nodes') : nodes'[k].hint = "USBCTRL" => nodes'[k].data \in DOMAIN machine'
    BY <2>1, <2>2, <2>3 DEF QueueInv
  <2>5. \A k \in Devices(nodes') : ~Queued(events', k) /\ IsUhci(k)' => HasController(k)'
    BY <2>1, <2>2 DEF QueueInv
  <2> QED BY <1>1, <1>3, <2>1, <2>4, <2>5 DEF QueueInv
<1> QED BY <1>2, <1>3

LEMMA SameControllers ==
  ASSUME UNCHANGED controllers
  PROVE  ControllersStay
BY DEF ControllersStay

\* The scan.
LEMMA QueueScan ==
  ASSUME QueueInv, Scan
  PROVE  QueueInv'
<1>1. /\ pc = "scan" /\ UNCHANGED <<pc, node, controllers>> /\ ScanStep
  BY DEF Scan, uhciVars
<1>2. machine' = machine
  BY <1>1 DEF ScanStep, EnumerateBus, CheckFunction
<1>3. CallsInv'
  BY <1>1, CallsStep DEF ScanStep, QueueInv
<1>4. ControllersStay /\ controllers' \in Seq(Controller)
  BY <1>1, SameControllers DEF QueueInv
<1>5. /\ pc \notin Preparing /\ pc \notin {"setup", "init", "halted"} /\ pc \notin Working
  BY <1>1 DEF Preparing, Working, Stopped
<1>6. CASE UNCHANGED <<nodes, events>>
  <2> DEFINE v == Folder("hw")
  <2>1. v.hint = "none"
    BY DEF Folder, make_node, BlankNode
  <2>2. v.hint # "USBCTRL"
    BY <2>1
  <2> HIDE DEF v
  <2> QED BY <1>1, <1>2, <1>3, <1>4, <1>5, <1>6, <2>2, QueueMore
<1>7. CASE ~UNCHANGED <<nodes, events>>
  <2> DEFINE at == <<Last(calls).bus, Last(calls).device, 0>>
             v == make_node(<<"dev", pci_device_count>>, FALSE, "USBCTRL", at)
  <2>1. calls # << >> /\ Last(calls).function = 1 /\ add_dnode(PciPath, v)
    BY <1>1, <1>7 DEF ScanStep, EnumerateBus, ListDevice, vfsVars
  <2>2. at \in DOMAIN machine
    BY <2>1, ListedIsThere DEF QueueInv
  <2> HIDE DEF at
  <2>3. DOMAIN v = NodeFields /\ v.dir = FALSE /\ v.hint = "USBCTRL" /\ v.data = at
    BY DEF make_node, BlankNode, NodeFields
  <2> HIDE DEF v
  <2>4. Tree(nodes) /\ Queue(nodes, events)
    BY <1>5 DEF QueueInv
  <2>5. walk_path(nodes, PciPath) = 3
    BY <2>4, Paths
  <2>6. 3 \in DOMAIN nodes \ {0, 1}
    BY <2>4 DEF Tree
  <2>7. \/ UNCHANGED <<nodes, events>>
        \/ /\ Tree(nodes') /\ Grown(nodes, nodes', node_count(nodes), v)
           /\ NowQueued(nodes, nodes', node_count(nodes), events, events')
    BY <2>1, <2>3, <2>4, <2>5, <2>6, DnodeAdded
  <2> QED BY <1>1, <1>2, <1>3, <1>4, <1>5, <2>2, <2>3, <2>7, QueueMore
<1> QED BY <1>6, <1>7

\* An event is served.
LEMMA QueueServe ==
  ASSUME QueueInv, ServeEvent
  PROVE  QueueInv'
<1> DEFINE e == Head(events)
<1>1. /\ pc = "idle" /\ events # << >> /\ events' = Tail(events)
      /\ UNCHANGED <<nodes, machine, calls, host, controllers>>
  BY DEF ServeEvent, pop_event, pciVars
<1>2. \/ e.hint = "USBCTRL" /\ IsController(e) /\ pc' = "setup" /\ node' = e.node
      \/ ~(e.hint = "USBCTRL" /\ IsController(e)) /\ UNCHANGED <<pc, node>>
  BY DEF ServeEvent
<1>3. Tree(nodes) /\ Queue(nodes, events)
  BY <1>1 DEF QueueInv, Preparing
<1>4. \A k \in Devices(nodes) : k \in Nat
  BY <1>3 DEF Tree, Devices
<1> HIDE DEF e
<1>5. /\ e \in DeviceEvent /\ e.node \in Devices(nodes) /\ nodes[e.node].hint = e.hint
      /\ Queue(nodes, events') /\ ~Queued(events', e.node)
      /\ \A k : Queued(events, k) <=> Queued(events', k) \/ k = e.node
  BY <1>1, <1>3, <1>4, EventPopped DEF e
<1>6. e.hint = "USBCTRL" /\ IsController(e) <=> IsUhci(e.node)
  <2>1. e.flags = EVENT_DEVICE_ADD
    BY <1>5 DEF DeviceEvent
  <2>2. e.hint = "USBCTRL" => nodes[e.node].parent = walk_path(nodes, PciPath)
    BY <1>3, <1>5, Paths DEF Tree
  <2> QED BY <1>5, <2>1, <2>2 DEF IsController, IsUhci
<1>7. /\ Controller' = Controller /\ Call' = Call
      /\ \A k : (IsUhci(k)' <=> IsUhci(k)) /\ (HasController(k)' <=> HasController(k))
  BY <1>1 DEF Controller, Call, IsUhci, HasController
<1>8. CallsInv' /\ controllers' \in Seq(Controller')
  BY <1>1, <1>7 DEF QueueInv, CallsInv
<1>9. \A k \in Devices(nodes) : ~Queued(events', k) /\ IsUhci(k) =>
         (pc' = "setup" /\ k = node') \/ HasController(k)
  <2> SUFFICES ASSUME NEW k \in Devices(nodes), ~Queued(events', k), IsUhci(k)
               PROVE  (pc' = "setup" /\ k = node') \/ HasController(k)
    OBVIOUS
  <2>1. CASE k = e.node
    BY <1>2, <1>6, <2>1
  <2>2. CASE k # e.node
    BY <1>1, <1>5, <2>2 DEF QueueInv
  <2> QED BY <2>1, <2>2
<1>10. pc' \in {"setup", "idle"} /\ (pc' = "setup" => IsUhci(node') /\ node' \in Devices(nodes))
  BY <1>1, <1>2, <1>5, <1>6
<1>11. \A k \in Devices(nodes) : nodes[k].hint = "USBCTRL" => nodes[k].data \in DOMAIN machine
  BY DEF QueueInv
<1> QED BY <1>1, <1>3, <1>5, <1>7, <1>8, <1>9, <1>10, <1>11 DEF QueueInv, Preparing, Working, Stopped

\* A controller is there.
LEMMA QueueController ==
  ASSUME QueueInv, AddController
  PROVE  QueueInv'
<1> DEFINE name == <<"uhci", Len(controllers)>>
           v == make_node(name, TRUE, "none", this)
           c == [at |-> this, name |-> name, addressCount |-> 1, device_count |-> 0]
<1>1. /\ pc = "init" /\ pc' = "probe" /\ UNCHANGED <<events, machine, calls, host, node>>
      /\ nodes' = add_vnode(nodes, <<<<"dev">>>>, v) /\ controllers' = Append(controllers, c)
  BY DEF AddController, pciVars
<1>2. Tree(nodes) /\ Queue(nodes, events)
  BY <1>1 DEF QueueInv, Preparing
<1>3. node \in Devices(nodes) /\ IsUhci(node) /\ this \in DOMAIN machine
  BY <1>1 DEF QueueInv, IsUhci, this
<1>4. Len(controllers) \in Nat /\ controllers \in Seq(Controller)
  BY DEF QueueInv
<1>5. DOMAIN v = NodeFields /\ v.dir = TRUE
  BY DEF make_node, BlankNode, NodeFields
<1>6. c \in Controller /\ c.at = this
  BY <1>3, <1>4 DEF Controller
<1> HIDE DEF v, c
<1>7. nodes' = add_child(nodes, 2, v)
  <2>1. walk_path(nodes, <<<<"dev">>>>) = 2
    BY <1>2, Paths
  <2>2. nodes[2].dir = TRUE
    BY <1>2 DEF Tree
  <2> QED BY <1>1, <2>1, <2>2 DEF add_vnode, ENONODE
<1>8. Tree(nodes') /\ Grown(nodes, nodes', node_count(nodes), v)
  <2>1. 2 \in DOMAIN nodes \ {0, 1}
    BY <1>2 DEF Tree
  <2> QED BY <1>2, <1>5, <1>7, <2>1, TreeGrows
<1>9. Queue(nodes', events) /\ Devices(nodes') = Devices(nodes)
  BY <1>2, <1>5, <1>8, DirectoryAdded
<1>10. /\ controllers' \in Seq(Controller) /\ controllers' # << >>
       /\ DOMAIN controllers = 1..Len(controllers)
       /\ DOMAIN controllers' = 1..Len(controllers) + 1
       /\ controllers'[Len(controllers) + 1] = c
       /\ \A i \in 1..Len(controllers) : controllers'[i] = controllers[i]
  BY <1>1, <1>4, <1>6
<1>11. ControllersStay
  BY <1>4, <1>10 DEF ControllersStay
<1>12. \A k \in Devices(nodes) : /\ nodes'[k].data = nodes[k].data /\ nodes'[k].hint = nodes[k].hint
                                 /\ IsUhci(k)' <=> IsUhci(k)
                                 /\ HasController(k) => HasController(k)'
  BY <1>1, <1>8, <1>11, OldNodes DEF Devices
<1>13. HasController(node)'
  <2>1. Len(controllers) + 1 \in DOMAIN controllers'
    BY <1>4, <1>10
  <2>2. c.at = nodes'[node].data /\ node' = node
    BY <1>1, <1>3, <1>6, <1>12 DEF this
  <2> QED BY <1>10, <2>1, <2>2 DEF HasController
<1>14. \A k \in Devices(nodes) : ~Queued(events, k) /\ IsUhci(k)' => HasController(k)'
  <2> SUFFICES ASSUME NEW k \in Devices(nodes), ~Queued(events, k), IsUhci(k)'
               PROVE  HasController(k)'
    OBVIOUS
  <2>1. k = node \/ HasController(k)
    BY <1>12 DEF QueueInv
  <2>2. CASE k = node
    BY <1>1, <1>13, <2>2
  <2> QED BY <1>12, <2>1, <2>2
<1>15. Controller' = Controller /\ Call' = Call
  BY <1>1 DEF Controller, Call
<1>16. CallsInv'
  BY <1>1, <1>15 DEF QueueInv, CallsInv
<1>17. \A k \in Devices(nodes) : nodes[k].hint = "USBCTRL" => nodes[k].data \in DOMAIN machine
  BY DEF QueueInv
<1> QED BY <1>1, <1>8, <1>9, <1>10, <1>12, <1>14, <1>15, <1>16, <1>17
    DEF QueueInv, Preparing, Working, Stopped

\* A transfer is over, and the device is listed if it was the last one of it.
LEMMA QueueTransfer ==
  ASSUME QueueInv, EndTransfer
  PROVE  QueueInv'
<1>1. /\ pc = "wait" /\ pc' \in {"probe", "reset", "send"} \cup Stopped
      /\ UNCHANGED <<machine, calls, host, node>>
  BY DEF EndTransfer, NextPort, OnWith, Stopped, pciVars
<1>2. controllers \in Seq(Controller) /\ controllers # << >> /\ Tree(nodes) /\ Queue(nodes, events)
  BY <1>1 DEF QueueInv, Working, Stopped, Preparing
<1>3. CASE UNCHANGED <<vfsVars, controllers>>
  BY <1>1, <1>3, QueueKept DEF vfsVars, Preparing, Working, Stopped
<1>4. CASE ListUsb
  <2> DEFINE c == Last(controllers)
             d == [c EXCEPT !.addressCount = @ + 1, !.device_count = @ + 1]
             data == [at |-> this, port |-> step, address |-> c.addressCount]
             v == make_node(<<"usb", c.device_count>>, FALSE, "USB", data)
             path == <<<<"dev">>, c.name>>
  <2>1. /\ controllers' = Append(Front(controllers), d) /\ add_dnode(path, v)
    BY <1>4 DEF ListUsb
  <2>2. DOMAIN v = NodeFields /\ v.dir = FALSE /\ v.hint = "USB"
    BY DEF make_node, BlankNode, NodeFields
  <2> HIDE DEF v, data
  <2>3. c \in Controller /\ c = controllers[Len(controllers)]
    BY <1>2, TopOff
  <2>4. walk_path(nodes, path) \in {ENONODE} \cup (DOMAIN nodes \ {0, 1})
    BY <1>2, Paths
  <2> HIDE DEF c, path
  <2>5. d \in Controller /\ d.at = c.at
    <3> DEFINE A == DOMAIN machine
               B == {"uhci"} \X Nat
    <3>1. c \in [at : A, name : B, addressCount : Nat, device_count : Nat]
      BY <2>3 DEF Controller
    <3> HIDE DEF A, B
    <3>2. c.addressCount + 1 \in Nat /\ c.device_count + 1 \in Nat
      BY <3>1
    <3>3. d \in [at : A, name : B, addressCount : Nat, device_count : Nat] /\ d.at = c.at
      BY <3>1, <3>2
    <3> HIDE DEF d
    <3> QED BY <3>3 DEF Controller, A, B
  <2> HIDE DEF d
  <2>6. /\ controllers' \in Seq(Controller) /\ Len(controllers') = Len(controllers)
        /\ controllers'[Len(controllers)] = d
        /\ \A i \in 1..Len(controllers) - 1 : controllers'[i] = controllers[i]
    BY <1>2, <2>1, <2>5, ReplacedTop
  <2>7. /\ Len(controllers) \in Nat \ {0} /\ DOMAIN controllers = 1..Len(controllers)
        /\ DOMAIN controllers' = 1..Len(controllers)
    BY <1>2, <2>6
  <2>8. ControllersStay
    <3> SUFFICES ASSUME NEW i \in DOMAIN controllers
                 PROVE  i \in DOMAIN controllers' /\ controllers'[i].at = controllers[i].at
      BY DEF ControllersStay
    <3>1. i \in 1..Len(controllers) - 1 \/ i = Len(controllers)
      BY <2>7
    <3> QED BY <2>3, <2>5, <2>6, <2>7, <3>1
  <2>9. controllers' # << >>
    BY <2>6, <2>7
  <2>10. Call' = Call
    BY <1>1 DEF Call
  <2>11. CallsInv'
    BY <1>1, <2>10 DEF QueueInv, CallsInv
  <2>12. v.hint # "USBCTRL"
    BY <2>2
  <2>13. \/ UNCHANGED <<nodes, events>>
         \/ /\ Tree(nodes') /\ Grown(nodes, nodes', node_count(nodes), v)
            /\ NowQueued(nodes, nodes', node_count(nodes), events, events')
    BY <1>2, <2>1, <2>2, <2>4, <2>12, DnodeAdded
  <2>14. /\ pc \notin Preparing /\ pc \notin {"setup", "init", "halted"}
         /\ pc' \notin Preparing /\ pc' \notin {"setup", "init"}
    BY <1>1 DEF Preparing, Stopped
  <2> QED BY <1>1, <2>6, <2>8, <2>9, <2>11, <2>12, <2>13, <2>14, QueueMore
<1> QED BY <1>3, <1>4 DEF EndTransfer

\* While the kernel starts it makes the tree, once.
LEMMA QueueStart ==
  ASSUME QueueInv, pc \in Starting, Next
  PROVE  QueueInv'
<1>1. InitializeHw \/ TakeInterrupt \/ TimerTick \/ KeyboardActs \/ KeyPressed
  BY WhileStarting
<1>2. UNCHANGED <<events, machine, calls, host, controllers, node>>
  <2>1. CASE InitializeHw
    BY <2>1 DEF InitializeHw, busVars, pciVars
  <2>2. CASE TakeInterrupt
    BY <2>2 DEF TakeInterrupt, vfsVars, pciVars, uhciVars
  <2>3. CASE TimerTick \/ KeyboardActs \/ KeyPressed
    BY <2>3 DEF TimerTick, KeyboardActs, KeyPressed, Outside, vfsVars, pciVars, uhciVars
  <2> QED BY <1>1, <2>1, <2>2, <2>3
<1>3. CASE InitializeHw /\ InitVfs
  <2>1. pc = "vfs" /\ nodes' = BootTree /\ pc' = "pit"
    BY <1>3 DEF InitVfs
  <2>2. nodes = vfs_init /\ Devices(nodes) = {}
    BY <2>1, BootTreeIs DEF QueueInv, Preparing
  <2>3. events \in Seq(DeviceEvent) /\ DOMAIN events = {}
    <3>1. \A i \in DOMAIN events : events[i].node \in Devices(nodes)
      BY DEF QueueInv, Queue
    <3> QED BY <2>2, <3>1 DEF QueueInv, Queue
  <2>4. Tree(nodes') /\ Devices(nodes') = {}
    BY <2>1, BootTreeIs
  <2>5. Queue(nodes', events')
    BY <1>2, <2>3, <2>4 DEF Queue
  <2>6. Call' = Call /\ Controller' = Controller
    BY <1>2 DEF Call, Controller
  <2>7. CallsInv'
    BY <1>2, <2>6 DEF QueueInv, CallsInv
  <2> QED BY <1>2, <2>1, <2>4, <2>5, <2>6, <2>7 DEF QueueInv, Preparing, Working, Stopped
<1>4. CASE InitializeHw /\ ~InitVfs
  <2>1. /\ nodes' = nodes /\ pc' \notin Working /\ pc' \notin {"setup", "init"}
        /\ pc' \in Preparing <=> pc \in Preparing
    <3>1. InitCpu \/ InitMemory \/ PIT_init \/ Ps2Start \/ init_keyboard \/ FlushKeyboard \/ StartScan
      BY <1>4 DEF InitializeHw
    <3>2. \/ pc = "boot" /\ pc' = "memory"
          \/ pc = "memory" /\ pc' \in {"memory", "vfs"}
          \/ pc \in {"pit", "pit_irq", "ps2", "keyboard", "keyboard_irq", "flush", "started"}
             /\ pc' \in {"pit_irq", "ps2", "keyboard", "keyboard_irq", "flush", "started", "scan"}
      BY <3>1 DEF InitCpu, InitMemory, PIT_init, Ps2Start, init_keyboard, FlushKeyboard,
         StartScan, StartLine
    <3>3. pc # "vfs"
      BY <3>2
    <3>4. nodes' = nodes
      BY <1>4, <3>3 DEF InitializeHw
    <3> QED BY <3>2, <3>4 DEF Preparing, Working, Stopped
  <2>2. pc \notin {"setup", "init", "halted"}
    BY DEF Starting
  <2> QED BY <1>2, <2>1, <2>2, QueueKept
<1>5. CASE TakeInterrupt \/ TimerTick \/ KeyboardActs \/ KeyPressed
  <2>1. UNCHANGED <<nodes, pc>>
    BY <1>5 DEF TakeInterrupt, TimerTick, KeyboardActs, KeyPressed, Outside, vfsVars, uhciVars
  <2> QED BY <1>2, <2>1, QueueKept
<1> QED BY <1>1, <1>3, <1>4, <1>5

LEMMA QueueStep ==
  ASSUME QueueInv, Next \/ UNCHANGED vars
  PROVE  QueueInv'
<1>1. CASE UNCHANGED vars
  BY <1>1, QueueKept DEF vars, vfsVars, pciVars, uhciVars
<1>2. CASE pc \in Starting /\ Next
  BY <1>2, QueueStart
<1>3. CASE pc \notin Starting /\ Next
  <2>1. ~InitializeHw /\ ~TakeInterrupt /\ ~TimerTick /\ ~KeyboardActs /\ ~KeyPressed
    BY <1>3 DEF InitializeHw, InitCpu, InitMemory, InitVfs, PIT_init, Ps2Start, init_keyboard,
       StartLine, FlushKeyboard, StartScan, TakeInterrupt, TimerTick, KeyboardActs, KeyPressed,
       Outside, Starting
  <2>2. CASE Scan
    BY <2>2, QueueScan
  <2>3. CASE ServeEvent
    BY <2>3, QueueServe
  <2>4. CASE AddController
    BY <2>4, QueueController
  <2>5. CASE EndTransfer
    BY <2>5, QueueTransfer
  <2>6. CASE InitDrivers
    <3>1. /\ UNCHANGED <<nodes, events, machine, calls, host, controllers, node>>
          /\ pc = "scan" /\ pc' \in {"idle", "halted"}
      BY <2>6 DEF InitDrivers, vfsVars, busVars, pciVars
    <3> QED BY <3>1, QueueKept DEF Preparing, Working, Stopped
  <2>7. CASE UsbHardware
    <3>1. UNCHANGED <<nodes, events, machine, calls, host, controllers, node, pc>>
      BY <2>7 DEF UsbHardware, Execute, Replug, vfsVars, pciVars
    <3> QED BY <3>1, QueueKept
  <2>8. CASE SetupBar \/ InitFails
    <3>1. /\ UNCHANGED <<nodes, events, machine, calls, host, controllers, node>>
          /\ \/ pc = "setup" /\ pc' \in {"setup", "init"}
             \/ pc = "init" /\ pc' = "halted"
      BY <2>8 DEF SetupBar, InitFails, vfsVars, pciVars
    <3> QED BY <3>1, QueueKept DEF Preparing, Working, Stopped
  <2>9. CASE ProbePort \/ ConfirmPort \/ ResetPort \/ RetryReset \/ SendTransfer \/ KeepWaiting
    <3>1. UNCHANGED <<nodes, events, machine, calls, host, controllers, node>>
      BY <2>9 DEF ProbePort, ConfirmPort, ResetPort, RetryReset, SendTransfer, KeepWaiting,
         vfsVars, pciVars
    <3>2. pc \in Working /\ (pc' \in Working \/ pc' \in {"idle", "fault"})
      BY <2>9 DEF ProbePort, ConfirmPort, ResetPort, RetryReset, SendTransfer, KeepWaiting,
         LastPort, NextPort, ResetDone, insertToQueue, Working, Stopped
    <3> QED BY <3>1, <3>2, QueueKept DEF Preparing, Working, Stopped
  <2> QED BY <1>3, <2>1, <2>2, <2>3, <2>4, <2>5, <2>6, <2>7, <2>8, <2>9 DEF Next, Kernel, DriverStep
<1> QED BY <1>1, <1>2, <1>3

LEMMA QueueImplies == QueueInv => EventsInOrder
<1> SUFFICES ASSUME QueueInv PROVE EventsInOrder
  OBVIOUS
<1>1. Queue(nodes, events)
  BY DEF QueueInv
<1>2. \A i, j \in DOMAIN events : i < j => events[i].node < events[j].node
  BY <1>1 DEF Queue
<1> DEFINE served == {n \in Devices(nodes) : \A i \in DOMAIN events : events[i].node # n}
           waiting == Devices(nodes) \ served
<1>3. \A n \in Devices(nodes) : n \in served <=> ~Queued(events, n)
  BY DEF Queued
<1>4. \A n \in waiting, s \in served : s < n
  <2> SUFFICES ASSUME NEW n \in waiting, NEW s \in served PROVE s < n
    OBVIOUS
  <2>1. n \in Devices(nodes) /\ s \in Devices(nodes) /\ Queued(events, n) /\ ~Queued(events, s)
    BY <1>3
  <2> QED BY <1>1, <2>1 DEF Queue
<1>5. ASSUME pc \in {"idle", "halted"}, NEW n \in served,
             nodes[n].hint = "USBCTRL" /\ machine[nodes[n].data].class = "uhci"
      PROVE  (pc = "halted" /\ n = node) \/ \E i \in DOMAIN controllers : controllers[i].at = nodes[n].data
  <2>1. n \in Devices(nodes) /\ ~Queued(events, n) /\ IsUhci(n)
    BY <1>3, <1>5 DEF IsUhci
  <2>2. (pc \in {"setup", "init", "halted"} /\ n = node) \/ HasController(n)
    BY <2>1 DEF QueueInv
  <2> QED BY <1>5, <2>2 DEF HasController
<1> HIDE DEF served
<1>6. /\ \A n \in waiting, s \in served : s < n
      /\ pc \in {"idle", "halted"} =>
           \A n \in served : nodes[n].hint = "USBCTRL" /\ machine[nodes[n].data].class = "uhci" =>
                     (pc = "halted" /\ n = node) \/
                     \E i \in DOMAIN controllers : controllers[i].at = nodes[n].data
  BY <1>4, <1>5
<1> QED BY <1>2, <1>6 DEF EventsInOrder, served

\* EventsInOrder: the main loop serves the events in the order of the devices, for
\* any machine, and every UHCI device behind it has a controller (add_event, the
\* loop in start).
THEOREM EventsAreInOrder == Spec => []EventsInOrder
<1>1. QueueInv /\ [Next]_vars => QueueInv'
  BY QueueStep
<1> QED BY <1>1, QueueInit, QueueImplies, PTL DEF Spec

-----------------------------------------------------------------------------
(* The base addresses.                                                     *)

Bar(n, k) == machine[nodes[n].data].bars[k + 1]

\* The ports of the device are where its I/O BAR below s says.
PortsFound(n, s) ==
  \A k \in 0..Bars - 1 : k < s /\ Bar(n, k).kind = "io" => portBase[n] = IoAddress(Bar(n, k).base)

\* A controller's ports were found through a device that is no longer waiting, and
\* is not set up again.
PortsKnown(at) ==
  \E n \in DOMAIN portBase : /\ nodes[n].data = at /\ ~Queued(events, n)
                             /\ pc \in {"setup", "init"} => n # node
                             /\ PortsFound(n, Bars)

BarsHold ==
  /\ machine \in Machines
  /\ DOMAIN bar = DOMAIN machine
  /\ \A at \in DOMAIN machine :
        /\ DOMAIN bar[at] = 0..Bars - 1
        /\ \A k \in 0..Bars - 1 : AddressKept(machine[at].bars[k + 1], bar[at][k])

\* The BARs hold their addresses but for the 64-bit ones; the ports of a device are
\* unknown while it waits, and known for the BARs behind once it is set up.
BarsInv ==
  /\ BarsHold
  /\ DOMAIN portBase \subseteq Devices(nodes)
  /\ \A n \in Devices(nodes) : nodes[n].hint = "USBCTRL" => n \in DOMAIN portBase
  /\ \A n \in DOMAIN portBase : Queued(events, n) => portBase[n] = 0
  /\ pc \in {"setup", "init"} => ~Queued(events, node)
  /\ pc = "setup" => step \in 0..Bars /\ (step = 0 => portBase[node] = 0) /\ PortsFound(node, step)
  /\ pc = "init" => PortsFound(node, Bars)
  /\ \A i \in DOMAIN controllers : PortsKnown(controllers[i].at)

LEMMA BarsInit == Init => BarsInv
<1> SUFFICES ASSUME Init PROVE BarsInv
  OBVIOUS
<1>1. /\ nodes = vfs_init /\ controllers = << >> /\ pc = "boot" /\ machine \in Machines
      /\ bar = [at \in DOMAIN machine |-> [i \in 0..Bars - 1 |-> machine[at].bars[i + 1].base]]
      /\ DOMAIN portBase = {}
  BY DEF Init, PciInit, UhciInit
<1>2. BarsHold
  BY <1>1 DEF BarsHold, AddressKept
<1>3. Devices(nodes) = {}
  BY <1>1, BootTreeIs
<1>4. DOMAIN controllers = {}
  BY <1>1
<1> QED BY <1>1, <1>2, <1>3, <1>4 DEF BarsInv

\* A step that leaves the tree, the queue and the ports alone.
LEMMA BarsKept ==
  ASSUME BarsInv, UNCHANGED <<nodes, events, machine, bar, portBase, controllers, node>>,
         pc' = "setup" => pc = "setup" /\ step' = step,
         pc' = "init" => pc = "init"
  PROVE  BarsInv'
<1>1. \A n, s : PortsFound(n, s)' <=> PortsFound(n, s)
  BY DEF PortsFound, Bar
<1>2. \A at : PortsKnown(at) => PortsKnown(at)'
  BY <1>1 DEF PortsKnown
<1>3. BarsHold'
  BY DEF BarsInv, BarsHold
<1>4. \A i \in DOMAIN controllers' : PortsKnown(controllers[i].at)'
  BY <1>2 DEF BarsInv
<1>5. /\ pc' = "setup" => step' \in 0..Bars /\ (step' = 0 => portBase'[node'] = 0) /\ PortsFound(node, step)
      /\ pc' = "init" => PortsFound(node, Bars)
  BY DEF BarsInv
<1>6. /\ pc' = "setup" => PortsFound(node, step)'
      /\ pc' = "init" => PortsFound(node, Bars)'
  BY <1>1, <1>5
<1>7. pc' \in {"setup", "init"} => ~Queued(events', node')
  BY DEF BarsInv
<1> QED BY <1>3, <1>4, <1>5, <1>6, <1>7 DEF BarsInv

\* A step that may make a node, of which portBase' tells nothing but that the ports
\* of a controller that was listed are unknown.
LEMMA BarsMore ==
  ASSUME BarsInv, NEW n, NEW v, Grown(nodes, nodes', n, v), UNCHANGED <<machine, bar>>,
         pc' \notin {"setup", "init"},
         v.dir = FALSE /\ v.hint = "USBCTRL" => n \in DOMAIN portBase',
         DOMAIN portBase' \subseteq DOMAIN portBase \cup {n},
         n \in DOMAIN portBase' => v.dir = FALSE /\ portBase'[n] = 0,
         \A k \in DOMAIN portBase : k \in DOMAIN portBase' /\ portBase'[k] = portBase[k],
         \A k \in DOMAIN nodes : Queued(events', k) <=> Queued(events, k),
         \A i \in DOMAIN controllers' : i \in DOMAIN controllers /\ controllers'[i].at = controllers[i].at
  PROVE  BarsInv'
<1>1. \A k \in DOMAIN nodes : /\ k # n /\ k \in DOMAIN nodes' /\ nodes'[k].dir = nodes[k].dir
                              /\ nodes'[k].hint = nodes[k].hint /\ nodes'[k].data = nodes[k].data
  BY DEF Grown
<1>2. /\ DOMAIN nodes' = DOMAIN nodes \cup {n}
      /\ nodes'[n].dir = v.dir /\ nodes'[n].hint = v.hint
  BY DEF Grown
<1>3. DOMAIN portBase \subseteq DOMAIN nodes
  BY DEF BarsInv, Devices
<1>4. \A k \in DOMAIN portBase : \A s : PortsFound(k, s) => PortsFound(k, s)'
  BY <1>1, <1>3 DEF PortsFound, Bar
<1>5. \A at : PortsKnown(at) => PortsKnown(at)'
  BY <1>1, <1>3, <1>4 DEF PortsKnown
<1>6. BarsHold'
  BY DEF BarsInv, BarsHold
<1>7. DOMAIN portBase' \subseteq Devices(nodes')
  BY <1>1, <1>2 DEF BarsInv, Devices
<1>8. \A k \in Devices(nodes') : nodes'[k].hint = "USBCTRL" => k \in DOMAIN portBase'
  BY <1>1, <1>2 DEF BarsInv, Devices
<1>9. \A k \in DOMAIN portBase' : Queued(events', k) => portBase'[k] = 0
  BY <1>3 DEF BarsInv
<1>10. \A i \in DOMAIN controllers' : PortsKnown(controllers[i].at)'
  BY <1>5 DEF BarsInv
<1> QED BY <1>6, <1>7, <1>8, <1>9, <1>10 DEF BarsInv

LEMMA BarsScan ==
  ASSUME QueueInv, BarsInv, Scan
  PROVE  BarsInv'
<1>1. /\ pc = "scan" /\ UNCHANGED <<pc, node, controllers>> /\ ScanStep
  BY DEF Scan, uhciVars
<1>2. UNCHANGED <<machine, bar>>
  BY <1>1 DEF ScanStep, EnumerateBus, CheckFunction
<1>3. CASE UNCHANGED <<nodes, events, portBase>>
  BY <1>1, <1>2, <1>3, BarsKept
<1>4. CASE ~UNCHANGED <<nodes, events, portBase>>
  <2> DEFINE n == node_count(nodes)
             at == <<Last(calls).bus, Last(calls).device, 0>>
             v == make_node(<<"dev", pci_device_count>>, FALSE, "USBCTRL", at)
  <2>1. /\ add_dnode(PciPath, v)
        /\ portBase' = [k \in DOMAIN portBase \cup {n} |-> IF k = n THEN 0 ELSE portBase[k]]
    BY <1>1, <1>4 DEF ScanStep, EnumerateBus, ListDevice, vfsVars
  <2>2. DOMAIN v = NodeFields /\ v.dir = FALSE /\ v.hint = "USBCTRL"
    BY DEF make_node, BlankNode, NodeFields
  <2> HIDE DEF v, at
  <2>3. Tree(nodes) /\ Queue(nodes, events)
    BY <1>1 DEF QueueInv, Preparing
  <2>4. walk_path(nodes, PciPath) = 3
    BY <2>3, Paths
  <2>5. 3 \in DOMAIN nodes \ {0, 1} /\ nodes[3].dir = TRUE
    BY <2>3 DEF Tree
  <2>6. nodes' = add_child(nodes, 3, v)
    BY <2>1, <2>4, <2>5 DEF add_dnode, add_vnode, ENONODE
  <2>7. Grown(nodes, nodes', n, v)
    BY <2>2, <2>3, <2>5, <2>6, TreeGrows
  <2>8. nodes' # nodes
    BY <2>7 DEF Grown
  <2>9. NowQueued(nodes, nodes', n, events, events')
    BY <2>1, <2>2, <2>3, <2>4, <2>5, <2>8, DnodeAdded
  <2> HIDE DEF n
  <2>10. n \notin DOMAIN nodes
    BY <2>7 DEF Grown
  <2>11. DOMAIN portBase \subseteq DOMAIN nodes
    BY DEF BarsInv, Devices
  <2>12. \A k \in DOMAIN nodes : Queued(events', k) <=> Queued(events, k)
    BY <2>9, <2>10 DEF NowQueued
  <2>13. /\ DOMAIN portBase' = DOMAIN portBase \cup {n} /\ portBase'[n] = 0
         /\ \A k \in DOMAIN portBase : k \in DOMAIN portBase' /\ portBase'[k] = portBase[k]
    BY <2>1, <2>10, <2>11
  <2> QED BY <1>1, <1>2, <2>2, <2>7, <2>12, <2>13, BarsMore
<1> QED BY <1>3, <1>4

LEMMA BarsServe ==
  ASSUME QueueInv, BarsInv, ServeEvent
  PROVE  BarsInv'
<1> DEFINE e == Head(events)
<1>1. /\ pc = "idle" /\ events # << >> /\ events' = Tail(events)
      /\ UNCHANGED <<nodes, machine, bar, portBase, controllers>>
  BY DEF ServeEvent, pop_event, pciVars
<1>2. \/ e.hint = "USBCTRL" /\ pc' = "setup" /\ node' = e.node /\ step' = 0
      \/ UNCHANGED <<pc, node, step>>
  BY DEF ServeEvent
<1>3. Tree(nodes) /\ Queue(nodes, events)
  BY <1>1 DEF QueueInv, Preparing
<1>4. \A k \in Devices(nodes) : k \in Nat
  BY <1>3 DEF Tree, Devices
<1> HIDE DEF e
<1>5. /\ e.node \in Devices(nodes) /\ nodes[e.node].hint = e.hint /\ ~Queued(events', e.node)
      /\ \A k : Queued(events, k) <=> Queued(events', k) \/ k = e.node
  BY <1>1, <1>3, <1>4, EventPopped DEF e
<1>6. \A n, s : PortsFound(n, s)' <=> PortsFound(n, s)
  BY <1>1 DEF PortsFound, Bar
<1>7. \A at : PortsKnown(at) => PortsKnown(at)'
  <2> SUFFICES ASSUME NEW at, PortsKnown(at) PROVE PortsKnown(at)'
    OBVIOUS
  <2>1. PICK n \in DOMAIN portBase : /\ nodes[n].data = at /\ ~Queued(events, n) /\ PortsFound(n, Bars)
    BY DEF PortsKnown
  <2>2. ~Queued(events', n) /\ n # e.node
    BY <1>5, <2>1
  <2>3. pc' \in {"setup", "init"} => n # node'
    BY <1>1, <1>2, <2>2
  <2> QED BY <1>1, <1>6, <2>1, <2>2, <2>3 DEF PortsKnown
<1>8. BarsHold'
  BY <1>1 DEF BarsInv, BarsHold
<1>9. \A i \in DOMAIN controllers' : PortsKnown(controllers[i].at)'
  BY <1>1, <1>7 DEF BarsInv
<1>10. pc' # "init" /\ (pc' = "setup" => step' = 0 /\ node' = e.node /\ e.hint = "USBCTRL")
  BY <1>1, <1>2
<1>11. e.hint = "USBCTRL" => portBase[e.node] = 0
  BY <1>5 DEF BarsInv
<1>12. 0 \in 0..Bars /\ \A n : PortsFound(n, 0)
  BY PciAssumption DEF PortsFound
<1>13. pc' = "setup" => step' \in 0..Bars /\ portBase'[node'] = 0 /\ PortsFound(node, step)'
  <2> SUFFICES ASSUME pc' = "setup"
               PROVE  step' \in 0..Bars /\ portBase'[node'] = 0 /\ PortsFound(node, step)'
    OBVIOUS
  <2>1. step' = 0
    BY <1>10
  <2>2. PortsFound(node, step)'
    BY <2>1, PciAssumption DEF PortsFound
  <2> QED BY <1>1, <1>10, <1>11, <1>12, <2>1, <2>2
<1>14. pc' \in {"setup", "init"} => ~Queued(events', node')
  BY <1>5, <1>10
<1>15. \A n \in DOMAIN portBase' : Queued(events', n) => portBase'[n] = 0
  BY <1>1, <1>5 DEF BarsInv
<1> QED BY <1>1, <1>8, <1>9, <1>10, <1>13, <1>14, <1>15 DEF BarsInv

\* One BAR after the other.
LEMMA BarsSetup ==
  ASSUME QueueInv, BarsInv, SetupBar
  PROVE  BarsInv'
<1>1. /\ pc = "setup" /\ UNCHANGED <<nodes, events, machine, controllers, node>>
  BY DEF SetupBar, vfsVars
<1>2. node \in Devices(nodes) /\ IsUhci(node)
  BY <1>1 DEF QueueInv
<1>3. this \in DOMAIN machine /\ this' = this
  BY <1>1, <1>2 DEF QueueInv, IsUhci, this
<1>4. node \in DOMAIN portBase
  BY <1>2 DEF BarsInv, IsUhci
<1>5. step \in 0..Bars /\ (step = 0 => portBase[node] = 0) /\ PortsFound(node, step)
      /\ ~Queued(events, node) /\ Bars \in Nat /\ Bars > 0
  BY <1>1, PciAssumption DEF BarsInv
<1>6. CASE step = Bars /\ pc' = "init" /\ UNCHANGED <<bar, portBase, step>>
  <2>1. \A n, s : PortsFound(n, s)' <=> PortsFound(n, s)
    BY <1>1, <1>6 DEF PortsFound, Bar
  <2>2. \A at : PortsKnown(at) => PortsKnown(at)'
    BY <1>1, <1>6, <2>1 DEF PortsKnown
  <2>3. BarsHold'
    BY <1>1, <1>6 DEF BarsInv, BarsHold
  <2>4. \A i \in DOMAIN controllers' : PortsKnown(controllers[i].at)'
    BY <1>1, <2>2 DEF BarsInv
  <2>5. PortsFound(node, Bars)'
    BY <1>1, <1>5, <1>6, <2>1
  <2> QED BY <1>1, <1>5, <1>6, <2>3, <2>4, <2>5 DEF BarsInv
<1>7. CASE step < Bars /\ getDeviceBAR(node, step) /\ step' = step + 1 /\ pc' = pc
  <2> DEFINE kind == machine[this].bars[step + 1].kind
             base == machine[this].bars[step + 1].base
             put == CASE kind = "mem64" -> ONES
                      [] kind = "upper" -> IoAddress(bar[this][step])
                      [] kind = "io" -> IoAddress(bar[this][step]) + 1
                      [] OTHER -> bar[this][step]
  <2>1. /\ bar' = [bar EXCEPT ![this][step] = put]
        /\ portBase' = IF kind \in {"io", "upper"}
                       THEN [portBase EXCEPT ![node] = IoAddress(bar[this][step])] ELSE portBase
    BY <1>7 DEF getDeviceBAR, this
  <2>2. step \in 0..Bars - 1 /\ step + 1 \in 0..Bars /\ step + 1 # 0 /\ step + 1 \in 1..Bars
    BY <1>5, <1>7
  <2>11. AddressKept(machine[this].bars[step + 1], put)
    <3>1. /\ base \in Nat /\ (kind = "io" => base % 4 = 1)
          /\ machine[this].bars[step + 1].kind = kind /\ machine[this].bars[step + 1].base = base
      BY <1>3, <2>2, BarAssumption DEF BarsInv, BarsHold
    <3>2. AddressKept(machine[this].bars[step + 1], bar[this][step])
      BY <1>3, <2>2 DEF BarsInv, BarsHold
    <3> HIDE DEF kind, base
    <3>3. kind = "io" => IoAddress(base) + 1 = base
      BY <3>1 DEF IoAddress
    <3>4. CASE kind = "io"
      <4>1. bar[this][step] = base
        BY <3>1, <3>2, <3>4 DEF AddressKept
      <4>2. put = base
        BY <3>3, <3>4, <4>1
      <4> QED BY <3>1, <3>4, <4>2 DEF AddressKept
    <3>5. CASE kind = "upper"
      <4>1. bar[this][step] = base \/ bar[this][step] = IoAddress(base)
        BY <3>1, <3>2, <3>5 DEF AddressKept
      <4>2. IoAddress(IoAddress(base)) = IoAddress(base)
        BY <3>1 DEF IoAddress
      <4>3. put = IoAddress(base)
        BY <3>5, <4>1, <4>2
      <4> QED BY <3>1, <3>5, <4>3 DEF AddressKept
    <3>6. CASE kind \notin {"io", "upper"}
      BY <3>1, <3>2, <3>6 DEF AddressKept
    <3> QED BY <3>4, <3>5, <3>6
  <2> HIDE DEF kind, base, put
  <2>3. BarsHold'
    <3>1. /\ DOMAIN bar' = DOMAIN machine
          /\ \A at \in DOMAIN machine : at # this => bar'[at] = bar[at]
          /\ DOMAIN bar'[this] = 0..Bars - 1
          /\ \A k \in 0..Bars - 1 : k # step => bar'[this][k] = bar[this][k]
          /\ bar'[this][step] = put
      BY <1>3, <2>1, <2>2 DEF BarsInv, BarsHold
    <3>2. ASSUME NEW at \in DOMAIN machine, NEW k \in 0..Bars - 1
          PROVE  AddressKept(machine[at].bars[k + 1], bar'[at][k])
      <4>1. CASE at = this /\ k = step
        BY <2>11, <3>1, <4>1
      <4>2. CASE ~(at = this /\ k = step)
        BY <3>1, <4>2 DEF BarsInv, BarsHold
      <4> QED BY <4>1, <4>2
    <3>3. \A at \in DOMAIN machine : DOMAIN bar'[at] = 0..Bars - 1
      BY <3>1 DEF BarsInv, BarsHold
    <3> QED BY <1>1, <3>1, <3>2, <3>3 DEF BarsInv, BarsHold
  <2>4. /\ DOMAIN portBase' = DOMAIN portBase
        /\ \A n \in DOMAIN portBase : n # node => portBase'[n] = portBase[n]
        /\ kind \in {"io", "upper"} => portBase'[node] = IoAddress(bar[this][step])
        /\ kind \notin {"io", "upper"} => portBase'[node] = portBase[node]
    BY <1>4, <2>1
  <2>5. \A n \in DOMAIN portBase : n # node => (PortsFound(n, Bars) => PortsFound(n, Bars)')
    BY <1>1, <2>4 DEF PortsFound, Bar
  <2>6. \A at : PortsKnown(at) => PortsKnown(at)'
    <3> SUFFICES ASSUME NEW at, PortsKnown(at) PROVE PortsKnown(at)'
      OBVIOUS
    <3>1. PICK n \in DOMAIN portBase : /\ nodes[n].data = at /\ ~Queued(events, n) /\ n # node
                                       /\ PortsFound(n, Bars)
      BY <1>1 DEF PortsKnown
    <3> QED BY <1>1, <2>4, <2>5, <3>1 DEF PortsKnown
  <2>7. \A i \in DOMAIN controllers' : PortsKnown(controllers[i].at)'
    BY <1>1, <2>6 DEF BarsInv
  <2>8. ASSUME NEW k \in 0..Bars - 1, k < step + 1, machine[this].bars[k + 1].kind = "io"
        PROVE  portBase'[node] = IoAddress(machine[this].bars[k + 1].base)
    <3>1. CASE k = step
      <4>1. kind = "io" /\ bar[this][step] = base
        BY <1>3, <2>2, <2>8, <3>1 DEF BarsInv, BarsHold, AddressKept, kind, base
      <4> QED BY <2>4, <3>1, <4>1 DEF base
    <3>2. CASE k # step
      <4>1. k < step /\ k + 1 \in 1..Bars /\ ~(step + 1 <= k + 1)
        BY <1>5, <2>8, <2>2, <3>2
      <4>2. portBase[node] = IoAddress(machine[this].bars[k + 1].base)
        BY <1>5, <2>8, <4>1 DEF PortsFound, Bar, this
      <4>3. kind \notin {"io", "upper"}
        <5>1. machine \in Machines /\ machine[this].class = "uhci"
          BY <1>2 DEF BarsInv, BarsHold, IsUhci, this
        <5> QED BY <1>3, <2>2, <2>8, <4>1, <5>1, UhciAssumption DEF kind
      <4> QED BY <2>4, <4>2, <4>3
    <3> QED BY <3>1, <3>2
  <2>9. PortsFound(node, step)'
    BY <1>1, <1>7, <2>8 DEF PortsFound, Bar, this
  <2>10. \A n \in DOMAIN portBase' : Queued(events', n) => portBase'[n] = 0
    BY <1>1, <1>5, <2>4 DEF BarsInv
  <2> QED BY <1>1, <1>5, <1>7, <2>2, <2>3, <2>4, <2>7, <2>9, <2>10 DEF BarsInv
<1> QED BY <1>1, <1>5, <1>6, <1>7 DEF SetupBar

LEMMA BarsController ==
  ASSUME QueueInv, BarsInv, AddController
  PROVE  BarsInv'
<1> DEFINE v == make_node(<<"uhci", Len(controllers)>>, TRUE, "none", this)
           n == node_count(nodes)
<1>1. /\ pc = "init" /\ pc' = "probe" /\ UNCHANGED <<events, machine, bar, portBase, node>>
      /\ nodes' = add_vnode(nodes, <<<<"dev">>>>, v)
      /\ \E c : c.at = this /\ controllers' = Append(controllers, c)
  BY DEF AddController, pciVars
<1>2. Tree(nodes) /\ controllers \in Seq(Controller)
  BY <1>1 DEF QueueInv, Preparing
<1>3. DOMAIN v = NodeFields /\ v.dir = TRUE
  BY DEF make_node, BlankNode, NodeFields
<1> HIDE DEF v
<1>4. nodes' = add_child(nodes, 2, v)
  <2>1. walk_path(nodes, <<<<"dev">>>>) = 2
    BY <1>2, Paths
  <2>2. nodes[2].dir = TRUE
    BY <1>2 DEF Tree
  <2> QED BY <1>1, <2>1, <2>2 DEF add_vnode, ENONODE
<1>5. Grown(nodes, nodes', n, v)
  <2>1. 2 \in DOMAIN nodes \ {0, 1}
    BY <1>2 DEF Tree
  <2> QED BY <1>2, <1>3, <1>4, <2>1, TreeGrows
<1>6. /\ Len(controllers) \in Nat /\ DOMAIN controllers = 1..Len(controllers)
      /\ DOMAIN controllers' = 1..Len(controllers) + 1
      /\ controllers'[Len(controllers) + 1].at = this
      /\ \A i \in 1..Len(controllers) : controllers'[i] = controllers[i]
  BY <1>1, <1>2
<1>7. Devices(nodes') = Devices(nodes)
  BY <1>3, <1>5 DEF Devices, Grown
<1>8. \A k \in Devices(nodes) : nodes'[k].data = nodes[k].data /\ nodes'[k].hint = nodes[k].hint
  BY <1>5 DEF Devices, Grown
<1>9. DOMAIN portBase \subseteq Devices(nodes) /\ node \in Devices(nodes) /\ IsUhci(node)
  BY <1>1 DEF BarsInv, QueueInv
<1>10. node \in DOMAIN portBase /\ ~Queued(events, node) /\ PortsFound(node, Bars)
  BY <1>1, <1>9 DEF BarsInv, IsUhci
<1>11. \A k \in DOMAIN portBase : PortsFound(k, Bars) => PortsFound(k, Bars)'
  BY <1>1, <1>8, <1>9 DEF PortsFound, Bar
<1>12. \A at : PortsKnown(at) => PortsKnown(at)'
  BY <1>1, <1>8, <1>9, <1>11 DEF PortsKnown
<1>13. \A at : at = this => PortsKnown(at)'
  BY <1>1, <1>8, <1>9, <1>10, <1>11 DEF PortsKnown, this
<1>14. \A i \in DOMAIN controllers' : PortsKnown(controllers[i].at)'
  <2>1. \A i \in 1..Len(controllers) : PortsKnown(controllers[i].at)
    BY <1>6 DEF BarsInv
  <2> SUFFICES ASSUME NEW i \in 1..Len(controllers) + 1 PROVE PortsKnown(controllers[i].at)'
    BY <1>6
  <2>2. i \in 1..Len(controllers) \/ i = Len(controllers) + 1
    BY <1>6
  <2>3. CASE i \in 1..Len(controllers)
    BY <1>6, <1>12, <2>1, <2>3
  <2>4. CASE i = Len(controllers) + 1
    BY <1>6, <1>13, <2>4
  <2> QED BY <2>2, <2>3, <2>4
<1>15. BarsHold'
  BY <1>1 DEF BarsInv, BarsHold
<1>16. \A k \in Devices(nodes') : nodes'[k].hint = "USBCTRL" => k \in DOMAIN portBase'
  BY <1>1, <1>7, <1>8 DEF BarsInv
<1> QED BY <1>1, <1>7, <1>14, <1>15, <1>16 DEF BarsInv

LEMMA BarsTransfer ==
  ASSUME QueueInv, BarsInv, EndTransfer
  PROVE  BarsInv'
<1>1. /\ pc = "wait" /\ pc' \in {"probe", "reset", "send"} \cup Stopped
      /\ UNCHANGED <<machine, bar, portBase, node>>
  BY DEF EndTransfer, NextPort, OnWith, Stopped, pciVars
<1>2. controllers \in Seq(Controller) /\ controllers # << >> /\ Tree(nodes) /\ Queue(nodes, events)
  BY <1>1 DEF QueueInv, Working, Stopped, Preparing
<1>3. CASE UNCHANGED <<vfsVars, controllers>>
  BY <1>1, <1>3, BarsKept DEF vfsVars, Stopped
<1>4. CASE ListUsb
  <2> DEFINE c == Last(controllers)
             d == [c EXCEPT !.addressCount = @ + 1, !.device_count = @ + 1]
             data == [at |-> this, port |-> step, address |-> c.addressCount]
             v == make_node(<<"usb", c.device_count>>, FALSE, "USB", data)
             path == <<<<"dev">>, c.name>>
             n == node_count(nodes)
  <2>1. /\ controllers' = Append(Front(controllers), d) /\ add_dnode(path, v)
    BY <1>4 DEF ListUsb
  <2>2. DOMAIN v = NodeFields /\ v.dir = FALSE /\ v.hint = "USB"
    BY DEF make_node, BlankNode, NodeFields
  <2> HIDE DEF v, data
  <2>3. c \in Controller /\ c = controllers[Len(controllers)]
    BY <1>2, TopOff
  <2>4. walk_path(nodes, path) \in {ENONODE} \cup (DOMAIN nodes \ {0, 1})
    BY <1>2, Paths
  <2> HIDE DEF c, path
  <2>5. d \in Controller /\ d.at = c.at
    <3> DEFINE A == DOMAIN machine
               B == {"uhci"} \X Nat
    <3>1. c \in [at : A, name : B, addressCount : Nat, device_count : Nat]
      BY <2>3 DEF Controller
    <3> HIDE DEF A, B
    <3>2. c.addressCount + 1 \in Nat /\ c.device_count + 1 \in Nat
      BY <3>1
    <3>3. d \in [at : A, name : B, addressCount : Nat, device_count : Nat] /\ d.at = c.at
      BY <3>1, <3>2
    <3> HIDE DEF d
    <3> QED BY <3>3 DEF Controller, A, B
  <2> HIDE DEF d
  <2>6. /\ controllers' \in Seq(Controller) /\ Len(controllers') = Len(controllers)
        /\ controllers'[Len(controllers)] = d
        /\ \A i \in 1..Len(controllers) - 1 : controllers'[i] = controllers[i]
    BY <1>2, <2>1, <2>5, ReplacedTop
  <2>7. /\ Len(controllers) \in Nat \ {0} /\ DOMAIN controllers = 1..Len(controllers)
        /\ DOMAIN controllers' = 1..Len(controllers)
    BY <1>2, <2>6
  <2>8. \A i \in DOMAIN controllers' : i \in DOMAIN controllers /\ controllers'[i].at = controllers[i].at
    <3> SUFFICES ASSUME NEW i \in DOMAIN controllers'
                 PROVE  i \in DOMAIN controllers /\ controllers'[i].at = controllers[i].at
      OBVIOUS
    <3>1. i \in 1..Len(controllers) - 1 \/ i = Len(controllers)
      BY <2>7
    <3> QED BY <2>3, <2>5, <2>6, <2>7, <3>1
  <2>9. v.hint # "USBCTRL"
    BY <2>2
  <2>10. pc' \notin {"setup", "init"} /\ pc \notin {"setup", "init"}
    BY <1>1 DEF Stopped
  <2>11. \/ UNCHANGED <<nodes, events>>
         \/ Grown(nodes, nodes', n, v) /\ NowQueued(nodes, nodes', n, events, events')
    BY <1>2, <2>1, <2>2, <2>4, <2>9, DnodeAdded
  <2> HIDE DEF n
  <2>12. CASE UNCHANGED <<nodes, events>>
    <3>1. \A k, s : PortsFound(k, s)' <=> PortsFound(k, s)
      BY <1>1, <2>12 DEF PortsFound, Bar
    <3>2. \A at : PortsKnown(at) => PortsKnown(at)'
      BY <1>1, <2>10, <2>12, <3>1 DEF PortsKnown
    <3>3. \A i \in DOMAIN controllers' : PortsKnown(controllers[i].at)'
      BY <2>8, <3>2 DEF BarsInv
    <3>4. BarsHold'
      BY <1>1 DEF BarsInv, BarsHold
    <3> QED BY <1>1, <2>10, <2>12, <3>3, <3>4 DEF BarsInv
  <2>13. CASE Grown(nodes, nodes', n, v) /\ NowQueued(nodes, nodes', n, events, events')
    <3>1. n \notin DOMAIN nodes
      BY <2>13 DEF Grown
    <3>2. \A k \in DOMAIN nodes : Queued(events', k) <=> Queued(events, k)
      BY <2>13, <3>1 DEF NowQueued
    <3>3. n \notin DOMAIN portBase
      BY <3>1 DEF BarsInv, Devices
    <3> QED BY <1>1, <2>2, <2>8, <2>9, <2>10, <2>13, <3>2, <3>3, BarsMore
  <2> QED BY <2>11, <2>12, <2>13
<1> QED BY <1>3, <1>4 DEF EndTransfer

LEMMA BarsStart ==
  ASSUME QueueInv, BarsInv, pc \in Starting, Next
  PROVE  BarsInv'
<1>1. InitializeHw \/ TakeInterrupt \/ TimerTick \/ KeyboardActs \/ KeyPressed
  BY WhileStarting
<1>2. UNCHANGED <<events, machine, bar, portBase, controllers, node>>
  <2>1. CASE InitializeHw
    BY <2>1 DEF InitializeHw, busVars, pciVars
  <2>2. CASE TakeInterrupt
    BY <2>2 DEF TakeInterrupt, vfsVars, pciVars, uhciVars
  <2>3. CASE TimerTick \/ KeyboardActs \/ KeyPressed
    BY <2>3 DEF TimerTick, KeyboardActs, KeyPressed, Outside, vfsVars, pciVars, uhciVars
  <2> QED BY <1>1, <2>1, <2>2, <2>3
<1>3. pc' \notin {"setup", "init"}
  <2>1. CASE InitializeHw
    BY <2>1 DEF InitializeHw, InitCpu, InitMemory, InitVfs, PIT_init, Ps2Start, init_keyboard,
       FlushKeyboard, StartScan, StartLine
  <2>2. CASE TakeInterrupt \/ TimerTick \/ KeyboardActs \/ KeyPressed
    BY <2>2 DEF TakeInterrupt, TimerTick, KeyboardActs, KeyPressed, Outside, uhciVars, Starting
  <2> QED BY <1>1, <2>1, <2>2
<1>4. CASE nodes' = nodes
  BY <1>2, <1>3, <1>4, BarsKept
<1>5. CASE nodes' # nodes
  <2>1. pc = "vfs" /\ nodes' = BootTree
    <3>1. InitializeHw
      BY <1>1, <1>5 DEF TakeInterrupt, TimerTick, KeyboardActs, KeyPressed, Outside, vfsVars
    <3>2. pc = "vfs"
      BY <1>5, <3>1 DEF InitializeHw
    <3> QED BY <3>1, <3>2 DEF InitializeHw, InitCpu, InitMemory, InitVfs, PIT_init, Ps2Start,
        init_keyboard, FlushKeyboard, StartScan, StartLine
  <2>2. Devices(nodes) = {} /\ Devices(nodes') = {}
    BY <2>1, BootTreeIs DEF QueueInv, Preparing
  <2>3. DOMAIN portBase = {}
    BY <2>2 DEF BarsInv
  <2>4. DOMAIN controllers = {}
    BY <2>3 DEF BarsInv, PortsKnown
  <2>5. BarsHold'
    BY <1>2 DEF BarsInv, BarsHold
  <2> QED BY <1>2, <1>3, <2>2, <2>3, <2>4, <2>5 DEF BarsInv
<1> QED BY <1>4, <1>5

LEMMA BarsStep ==
  ASSUME QueueInv, BarsInv, Next \/ UNCHANGED vars
  PROVE  BarsInv'
<1>1. CASE UNCHANGED vars
  BY <1>1, BarsKept DEF vars, vfsVars, pciVars, uhciVars
<1>2. CASE pc \in Starting /\ Next
  BY <1>2, BarsStart
<1>3. CASE pc \notin Starting /\ Next
  <2>1. ~InitializeHw /\ ~TakeInterrupt /\ ~TimerTick /\ ~KeyboardActs /\ ~KeyPressed
    BY <1>3 DEF InitializeHw, InitCpu, InitMemory, InitVfs, PIT_init, Ps2Start, init_keyboard,
       StartLine, FlushKeyboard, StartScan, TakeInterrupt, TimerTick, KeyboardActs, KeyPressed,
       Outside, Starting
  <2>2. CASE Scan
    BY <2>2, BarsScan
  <2>3. CASE ServeEvent
    BY <2>3, BarsServe
  <2>4. CASE AddController
    BY <2>4, BarsController
  <2>5. CASE EndTransfer
    BY <2>5, BarsTransfer
  <2>6. CASE SetupBar
    BY <2>6, BarsSetup
  <2>7. CASE InitDrivers
    <3>1. /\ UNCHANGED <<nodes, events, machine, bar, portBase, controllers, node>>
          /\ pc' \in {"idle", "halted"}
      BY <2>7 DEF InitDrivers, vfsVars, busVars, pciVars
    <3> QED BY <3>1, BarsKept
  <2>8. CASE UsbHardware
    <3>1. UNCHANGED <<nodes, events, machine, bar, portBase, controllers, node, pc, step>>
      BY <2>8 DEF UsbHardware, Execute, Replug, vfsVars, pciVars
    <3> QED BY <3>1, BarsKept
  <2>9. CASE InitFails \/ ProbePort \/ ConfirmPort \/ ResetPort \/ RetryReset \/ SendTransfer
             \/ KeepWaiting
    <3>1. UNCHANGED <<nodes, events, machine, bar, portBase, controllers, node>>
      BY <2>9 DEF InitFails, ProbePort, ConfirmPort, ResetPort, RetryReset, SendTransfer, KeepWaiting,
         vfsVars, pciVars
    <3>2. pc' \notin {"setup", "init"}
      BY <2>9 DEF InitFails, ProbePort, ConfirmPort, ResetPort, RetryReset, SendTransfer, KeepWaiting,
         LastPort, NextPort, ResetDone, insertToQueue
    <3> QED BY <3>1, <3>2, BarsKept
  <2> QED BY <1>3, <2>1, <2>2, <2>3, <2>4, <2>5, <2>6, <2>7, <2>8, <2>9 DEF Next, Kernel, DriverStep
<1> QED BY <1>1, <1>2, <1>3

LEMMA BarsImply == QueueInv /\ BarsInv => BarsKeepAddresses
<1> SUFFICES ASSUME QueueInv, BarsInv, NEW i \in DOMAIN controllers, NEW k \in 0..Bars - 1
             PROVE  LET at == controllers[i].at
                        was == machine[at].bars[k + 1]
                    IN  /\ AddressKept(was, bar[at][k])
                        /\ was.kind = "io" => \E n \in DOMAIN portBase :
                               nodes[n].data = at /\ portBase[n] = IoAddress(was.base)
  BY DEF BarsKeepAddresses
<1> DEFINE at == controllers[i].at
           was == machine[at].bars[k + 1]
<1>1. at \in DOMAIN machine
  <2>1. controllers \in Seq(Controller)
    BY DEF QueueInv
  <2>2. controllers[i] \in Controller
    BY <2>1
  <2> QED BY <2>2 DEF Controller
<1>2. AddressKept(was, bar[at][k])
  BY <1>1 DEF BarsInv, BarsHold
<1>3. PICK n \in DOMAIN portBase : nodes[n].data = at /\ PortsFound(n, Bars)
  BY DEF BarsInv, PortsKnown
<1>4. k < Bars
  BY PciAssumption
<1>5. was.kind = "io" => portBase[n] = IoAddress(was.base)
  BY <1>3, <1>4 DEF PortsFound, Bar
<1> QED BY <1>2, <1>3, <1>5

\* BarsKeepAddresses: the probe of the BARs gives each controller the ports of its
\* I/O BAR and puts back what it wrote over, but for the lower half of a 64-bit BAR
\* and two bits of the upper one, on any bus whose UHCI controllers have one I/O BAR
\* (getDeviceBAR, device::setup).
THEOREM AddressesAreKept == Spec => []BarsKeepAddresses
<1>1. QueueInv /\ BarsInv /\ [Next]_vars => QueueInv' /\ BarsInv'
  BY QueueStep, BarsStep
<1>2. Init => QueueInv /\ BarsInv
  BY QueueInit, BarsInit
<1>3. QueueInv /\ BarsInv => BarsKeepAddresses
  BY BarsImply
<1> QED BY <1>1, <1>2, <1>3, PTL DEF Spec

-----------------------------------------------------------------------------
(* The devices that are listed.                                            *)

IsBridge(a) == machine[<<a[1], a[2], 0>>].class = "bridge"

\* The functions a call has yet to look at.
Ahead(c, a) == a[1] = c.bus /\ (a[2] > c.device \/ (a[2] = c.device /\ a[3] >= c.function))

\* The call is past the device.
Past(c, at) == at[2] < c.device \/ (at[2] = c.device /\ c.function >= 2)

\* The buses of the host bridges the scan may still look at.
HostsLeft == IF ~isMultiFunction(0, 0) THEN {0} \cap {host}
             ELSE {h \in 0..FunctionsPerDev - 1 : h >= host /\ ~is_valid(0, 0, 0)}

IsListed(at) == \E n \in Devices(nodes) : nodes[n].hint = "USBCTRL" /\ nodes[n].data = at

\* F holds the buses that may be entered yet: those of the host bridges left, those
\* behind the functions ahead of the calls, and those behind their own functions.
\* No call is on one of them, and nothing of them is listed.
ToCome(F) ==
  /\ \A i \in DOMAIN calls, a \in DOMAIN machine :
        Ahead(calls[i], a) /\ IsBridge(a) => machine[a].secondary \in F
  /\ \A a \in DOMAIN machine : a[1] \in F /\ IsBridge(a) => machine[a].secondary \in F
  /\ HostsLeft \subseteq F
  /\ isMultiFunction(0, 0) /\ is_valid(0, 0, 0) => host = 0
  /\ \A at \in DOMAIN machine : IsListed(at) => at[1] \notin F
  /\ \A i \in DOMAIN calls : calls[i].bus \notin F
  /\ \A i, j \in DOMAIN calls : calls[i].bus = calls[j].bus => i = j
  /\ \A i \in DOMAIN calls, at \in DOMAIN machine :
        IsListed(at) /\ at[1] = calls[i].bus => Past(calls[i], at)

\* No function is listed twice.
ListedOnce ==
  \A m, n \in Devices(nodes) :
     nodes[m].hint = "USBCTRL" /\ nodes[n].hint = "USBCTRL" /\ nodes[m].data = nodes[n].data => m = n

ScanInv ==
  /\ pc \in Starting => calls = << >> /\ host = 0 /\ Devices(nodes) = {}
  /\ pc = "scan" => \E F : ToCome(F)
  /\ ListedOnce

LEMMA ScanInit == Init => ScanInv
<1> SUFFICES ASSUME Init PROVE ScanInv
  OBVIOUS
<1>1. calls = << >> /\ host = 0 /\ nodes = vfs_init /\ pc = "boot"
  BY DEF Init, PciInit, UhciInit
<1>2. Devices(nodes) = {}
  BY <1>1, BootTreeIs
<1> QED BY <1>1, <1>2 DEF ScanInv, ListedOnce

\* What a step of the scan lists, and the call it was made in.
LEMMA ScanLists ==
  ASSUME QueueInv, Scan
  PROVE  \/ nodes' = nodes
         \/ \E n, v : /\ Grown(nodes, nodes', n, v) /\ v.dir = FALSE /\ v.hint = "USBCTRL"
                      /\ calls # << >> /\ Last(calls).function = 1
                      /\ v.data = <<Last(calls).bus, Last(calls).device, 0>>
                      /\ nodes' = add_child(nodes, 3, v) /\ DOMAIN v = NodeFields
<1> SUFFICES ASSUME nodes' # nodes
             PROVE  \E n, v : /\ Grown(nodes, nodes', n, v) /\ v.dir = FALSE /\ v.hint = "USBCTRL"
                              /\ calls # << >> /\ Last(calls).function = 1
                              /\ v.data = <<Last(calls).bus, Last(calls).device, 0>>
                              /\ nodes' = add_child(nodes, 3, v) /\ DOMAIN v = NodeFields
  OBVIOUS
<1> DEFINE at == <<Last(calls).bus, Last(calls).device, 0>>
           v == make_node(<<"dev", pci_device_count>>, FALSE, "USBCTRL", at)
<1>1. pc = "scan" /\ ScanStep
  BY DEF Scan
<1>2. calls # << >> /\ Last(calls).function = 1 /\ add_dnode(PciPath, v)
  BY <1>1 DEF ScanStep, EnumerateBus, ListDevice, vfsVars
<1>3. DOMAIN v = NodeFields /\ v.dir = FALSE /\ v.hint = "USBCTRL" /\ v.data = at
  BY DEF make_node, BlankNode, NodeFields
<1> HIDE DEF v
<1>4. Tree(nodes)
  BY <1>1 DEF QueueInv, Preparing
<1>5. walk_path(nodes, PciPath) = 3
  BY <1>4, Paths
<1>6. 3 \in DOMAIN nodes \ {0, 1} /\ nodes[3].dir = TRUE
  BY <1>4 DEF Tree
<1>7. nodes' = add_child(nodes, 3, v)
  BY <1>2, <1>5, <1>6 DEF add_dnode, add_vnode, ENONODE
<1>8. Grown(nodes, nodes', node_count(nodes), v)
  BY <1>3, <1>4, <1>6, <1>7, TreeGrows
<1> QED BY <1>2, <1>3, <1>7, <1>8

\* The devices of the tree with one more.
LEMMA ListedMore ==
  ASSUME NEW n, NEW v, Grown(nodes, nodes', n, v), v.dir = FALSE, v.hint = "USBCTRL"
  PROVE  /\ \A at : IsListed(at)' <=> IsListed(at) \/ at = v.data
         /\ ListedOnce /\ ~IsListed(v.data) => ListedOnce'
<1>1. Devices(nodes') = Devices(nodes) \cup {n} /\ n \notin Devices(nodes)
  BY DEF Devices, Grown
<1>2. \A k \in Devices(nodes) : nodes'[k].hint = nodes[k].hint /\ nodes'[k].data = nodes[k].data
  BY DEF Devices, Grown
<1>3. nodes'[n].hint = "USBCTRL" /\ nodes'[n].data = v.data
  BY DEF Grown
<1>4. \A at : IsListed(at)' <=> IsListed(at) \/ at = v.data
  BY <1>1, <1>2, <1>3 DEF IsListed
<1>5. ListedOnce /\ ~IsListed(v.data) => ListedOnce'
  BY <1>1, <1>2, <1>3 DEF IsListed, ListedOnce
<1> QED BY <1>4, <1>5

\* A bus is entered: it is not among those to come any more.
LEMMA BusEntered ==
  ASSUME machine \in Machines, NEW F, NEW s \in F,
         \A a \in DOMAIN machine : a[1] \in F /\ IsBridge(a) => machine[a].secondary \in F,
         \A a \in DOMAIN machine : a[1] \in F \ {s} /\ IsBridge(a) => machine[a].secondary # s
  PROVE  /\ \A a \in DOMAIN machine : a[1] \in F \ {s} /\ IsBridge(a) => machine[a].secondary \in F \ {s}
         /\ \A a \in DOMAIN machine : Ahead(checkBus(s), a) /\ IsBridge(a) => machine[a].secondary \in F \ {s}
<1> SUFFICES ASSUME NEW a \in DOMAIN machine, a[1] = s, IsBridge(a)
             PROVE  machine[a].secondary # s
  BY DEF Ahead, checkBus
<1>1. a[1] \in Nat /\ machine[a].secondary > a[1]
  BY PciAssumption DEF IsBridge
<1> QED BY <1>1

\* A step of checkBus: the innermost call is over, or is further on; then it may
\* have called itself for the bus behind the function it was at.
Moved(k, top, bridge) ==
  /\ DOMAIN calls' \subseteq 1..k + 1
  /\ \A i \in DOMAIN calls' : i < k => calls'[i] = calls[i]
  /\ k \in DOMAIN calls' =>
       /\ calls'[k].bus = top.bus
       /\ \A a \in DOMAIN machine : Ahead(calls'[k], a) => Ahead(top, a)
       /\ \A a \in DOMAIN machine : Past(top, a) => Past(calls'[k], a)
       /\ top.function = 1 => Past(calls'[k], <<top.bus, top.device, 0>>)
  /\ k + 1 \in DOMAIN calls' =>
       /\ k \in DOMAIN calls'
       /\ bridge \in DOMAIN machine /\ IsBridge(bridge) /\ bridge[1] = top.bus
       /\ Ahead(top, bridge) /\ ~Ahead(calls'[k], bridge)
       /\ calls'[k + 1] = checkBus(machine[bridge].secondary)

LEMMA CallMoves ==
  ASSUME CallsInv, machine \in Machines, CheckFunction
  PROVE  /\ Len(calls) \in Nat \ {0} /\ calls[Len(calls)] = Last(calls)
         /\ Moved(Len(calls), Last(calls),
                  <<Last(calls).bus, Last(calls).device, Last(calls).function>>)
<1> DEFINE top == Last(calls)
           rest == Front(calls)
           k == Len(calls)
           later == [top EXCEPT !.function = @ + 1]
           next == Append(rest, later)
           x == <<top.bus, top.device, top.function>>
           at == <<top.bus, top.device, 0>>
<1>1. calls \in Seq(Call) /\ calls # << >>
  BY DEF CallsInv, CheckFunction
<1>2. /\ k \in Nat \ {0} /\ top = calls[k] /\ top \in Call
      /\ rest \in Seq(Call) /\ Len(rest) = k - 1 /\ \A i \in 1..k - 1 : rest[i] = calls[i]
  BY <1>1, TopOff
<1>3. /\ top.device \in Nat /\ top.function \in Nat /\ DOMAIN top = {"bus", "device", "function"}
  BY <1>2 DEF Call
<1>4. \/ calls' = rest
      \/ calls' = Append(rest, NextDevice(top))
      \/ /\ at \in DOMAIN machine
         /\ \/ calls' = next
            \/ /\ x \in DOMAIN machine /\ machine[at].class = "bridge"
               /\ calls' = Append(next, checkBus(machine[x].secondary))
  BY DEF CheckFunction, Checked, is_valid, getDeviceFunction
<1>5. \A a \in DOMAIN machine : a[2] \in Nat /\ a[3] \in Nat
  <2>1. \A a \in DOMAIN machine : a \in Nat \X (0..DevicesPerBus - 1) \X (0..FunctionsPerDev - 1)
    BY PciAssumption
  <2>2. \A A, B, C : \A a \in A \X B \X C : a[2] \in B /\ a[3] \in C
    OBVIOUS
  <2>3. \A a \in DOMAIN machine : a[2] \in 0..DevicesPerBus - 1 /\ a[3] \in 0..FunctionsPerDev - 1
    BY <2>1, <2>2
  <2> QED BY <2>3
<1> HIDE DEF top, rest, k
<1>6. \A i : i \in 1..k - 1 <=> i \in 1..k /\ i < k
  BY <1>2
<1>7. CASE calls' = rest
  <2>1. DOMAIN calls' = 1..k - 1 /\ \A i \in 1..k - 1 : calls'[i] = calls[i]
    BY <1>2, <1>7
  <2>2. k \notin 1..k - 1 /\ k + 1 \notin 1..k - 1 /\ 1..k - 1 \subseteq 1..k + 1
    BY <1>2
  <2>3. Moved(k, top, x)
    BY <2>1, <2>2 DEF Moved
  <2> QED BY <1>2, <2>3 DEF k, top
<1>8. ASSUME NEW new \in Call, new.bus = top.bus,
             \/ new.device = top.device + 1 /\ new.function = 0
             \/ new.device = top.device /\ new.function = top.function + 1
      PROVE  /\ \A a \in DOMAIN machine : Ahead(new, a) => Ahead(top, a)
             /\ \A a \in DOMAIN machine : Past(top, a) => Past(new, a)
             /\ top.function = 1 => Past(new, at)
             /\ Append(rest, new) \in Seq(Call) /\ DOMAIN Append(rest, new) = 1..k
             /\ Append(rest, new)[k] = new
             /\ \A i \in 1..k - 1 : Append(rest, new)[i] = calls[i]
  <2>1. \A a \in DOMAIN machine : Ahead(new, a) => Ahead(top, a)
    BY <1>3, <1>5, <1>8 DEF Ahead
  <2>2. \A a \in DOMAIN machine : Past(top, a) => Past(new, a)
    BY <1>3, <1>5, <1>8 DEF Past
  <2>3. top.function = 1 => Past(new, at)
    BY <1>3, <1>8 DEF Past
  <2>4. /\ Append(rest, new) \in Seq(Call) /\ Len(Append(rest, new)) = k
        /\ Append(rest, new)[k] = new
    BY <1>2
  <2>5. \A i \in 1..k - 1 : Append(rest, new)[i] = calls[i]
    BY <1>2
  <2> QED BY <2>1, <2>2, <2>3, <2>4, <2>5
<1>9. k \in 1..k /\ k + 1 \notin 1..k /\ 1..k \subseteq 1..k + 1
  BY <1>2
<1>10. CASE calls' = Append(rest, NextDevice(top))
  <2> DEFINE new == NextDevice(top)
  <2>1. new \in Call /\ new.bus = top.bus /\ new.device = top.device + 1 /\ new.function = 0
    <3> DEFINE B == Nat \cup {machine[a].secondary : a \in DOMAIN machine}
               c == [top EXCEPT !.device = @ + 1, !.function = 0]
    <3>1. top \in [bus : B, device : Nat, function : Nat]
      BY <1>2 DEF Call
    <3> HIDE DEF B
    <3>2. top.device + 1 \in Nat
      BY <1>3
    <3>3. /\ c \in [bus : B, device : Nat, function : Nat]
          /\ c.bus = top.bus /\ c.device = top.device + 1 /\ c.function = 0
      BY <3>1, <3>2
    <3>4. new = c
      BY DEF NextDevice
    <3> HIDE DEF c
    <3>5. ~(c.function >= 1)
      BY <3>3
    <3> QED BY <3>3, <3>4, <3>5 DEF Call, B
  <2> HIDE DEF new
  <2>2. calls' = Append(rest, new)
    BY <1>10 DEF new
  <2>3. /\ \A a \in DOMAIN machine : Ahead(new, a) => Ahead(top, a)
        /\ \A a \in DOMAIN machine : Past(top, a) => Past(new, a)
        /\ top.function = 1 => Past(new, at)
        /\ DOMAIN Append(rest, new) = 1..k /\ Append(rest, new)[k] = new
        /\ \A i \in 1..k - 1 : Append(rest, new)[i] = calls[i]
    BY <1>8, <2>1
  <2>4. \A i \in DOMAIN calls' : i < k => calls'[i] = calls[i]
    BY <1>6, <2>2, <2>3
  <2>5. /\ DOMAIN calls' \subseteq 1..k + 1 /\ k + 1 \notin DOMAIN calls' /\ calls'[k] = new
    BY <1>9, <2>2, <2>3
  <2>6. Moved(k, top, x)
    BY <2>1, <2>3, <2>4, <2>5 DEF Moved
  <2> QED BY <1>2, <2>6 DEF k, top
<1>11. CASE at \in DOMAIN machine /\ (calls' = next \/ (/\ x \in DOMAIN machine
                                                        /\ machine[at].class = "bridge"
                                                        /\ calls' = Append(next, checkBus(machine[x].secondary))))
  <2>1. /\ later \in Call /\ later.bus = top.bus /\ later.device = top.device
        /\ later.function = top.function + 1
    <3> DEFINE B == Nat \cup {machine[a].secondary : a \in DOMAIN machine}
    <3>1. top \in [bus : B, device : Nat, function : Nat]
      BY <1>2 DEF Call
    <3> HIDE DEF B
    <3>2. top.function + 1 \in Nat
      BY <1>3
    <3>3. /\ later \in [bus : B, device : Nat, function : Nat] /\ later.bus = top.bus
          /\ later.device = top.device /\ later.function = top.function + 1
      BY <3>1, <3>2
    <3> HIDE DEF later
    <3>4. <<later.bus, later.device, 0>> \in DOMAIN machine
      BY <1>11, <3>3
    <3> QED BY <3>3, <3>4 DEF Call, B
  <2> HIDE DEF later
  <2>2. /\ \A a \in DOMAIN machine : Ahead(later, a) => Ahead(top, a)
        /\ \A a \in DOMAIN machine : Past(top, a) => Past(later, a)
        /\ top.function = 1 => Past(later, at)
        /\ next \in Seq(Call) /\ DOMAIN next = 1..k /\ next[k] = later
        /\ \A i \in 1..k - 1 : next[i] = calls[i]
    BY <1>8, <2>1
  <2> HIDE DEF next
  <2>3. CASE calls' = next
    <3>1. Moved(k, top, x)
      BY <1>6, <1>9, <2>1, <2>2, <2>3 DEF Moved
    <3> QED BY <1>2, <3>1 DEF k, top
  <2>4. CASE /\ x \in DOMAIN machine /\ machine[at].class = "bridge"
             /\ calls' = Append(next, checkBus(machine[x].secondary))
    <3> DEFINE c == checkBus(machine[x].secondary)
    <3>1. Len(next) = k /\ k \in Nat
      BY <1>2, <2>2
    <3> HIDE DEF c
    <3>2. /\ DOMAIN Append(next, c) = 1..k + 1 /\ Append(next, c)[k + 1] = c
          /\ \A i \in 1..k : Append(next, c)[i] = next[i]
      BY <2>2, <3>1
    <3>3. calls' = Append(next, c)
      BY <2>4 DEF c
    <3>4. calls'[k] = later /\ \A i \in 1..k - 1 : calls'[i] = calls[i]
      BY <1>6, <1>9, <2>2, <3>2, <3>3
    <3>5. x[1] = top.bus /\ x[2] = top.device /\ x[3] = top.function /\ IsBridge(x)
      BY <2>4 DEF IsBridge
    <3>6. Ahead(top, x) /\ ~Ahead(later, x)
      BY <1>3, <2>1, <3>5 DEF Ahead
    <3>7. \A i \in 1..k + 1 : i < k => i \in 1..k - 1
      BY <1>2
    <3>8. calls'[k + 1] = checkBus(machine[x].secondary)
      BY <3>2, <3>3 DEF c
    <3> HIDE DEF x
    <3>9. Moved(k, top, x)
      BY <1>9, <2>1, <2>2, <2>4, <3>2, <3>3, <3>4, <3>5, <3>6, <3>7, <3>8 DEF Moved
    <3> QED BY <1>2, <3>9 DEF k, top, x
  <2> QED BY <1>11, <2>3, <2>4
<1> QED BY <1>4, <1>7, <1>10, <1>11

\* A host bridge's bus is entered.
LEMMA ScanHost ==
  ASSUME CallsInv, machine \in Machines, NEW F, ToCome(F), EnumerateBus
  PROVE  \E G : ToCome(G)'
<1> PICK b : b = IF isMultiFunction(0, 0) THEN host ELSE 0
  OBVIOUS
<1> DEFINE G == F \ {b}
<1>1. /\ MoreHosts /\ host' = host + 1 /\ UNCHANGED <<nodes, machine>>
      /\ calls' = <<checkBus(b)>>
  BY DEF EnumerateBus, vfsVars
<1>2. host \in Nat
  BY DEF CallsInv
<1>3. b \in HostsLeft
  <2>1. isMultiFunction(0, 0) /\ is_valid(0, 0, 0) => host = 0
    BY DEF ToCome
  <2>2. CASE isMultiFunction(0, 0)
    <3>1. host < FunctionsPerDev /\ ~is_valid(0, 0, host) /\ FunctionsPerDev \in Nat
      BY <1>1, <2>2, PciAssumption DEF MoreHosts
    <3>2. ~is_valid(0, 0, 0)
      BY <2>1, <2>2, <3>1
    <3>3. host \in 0..FunctionsPerDev - 1 /\ host >= host
      BY <1>2, <3>1
    <3> QED BY <2>2, <3>2, <3>3 DEF HostsLeft
  <2>3. CASE ~isMultiFunction(0, 0)
    BY <1>1, <2>3 DEF MoreHosts, HostsLeft
  <2> QED BY <2>2, <2>3
<1>4. b \in F
  BY <1>3 DEF ToCome
<1>5. \A a \in DOMAIN machine : IsBridge(a) => machine[a].secondary # b
  <2> SUFFICES ASSUME NEW a \in DOMAIN machine, IsBridge(a)
               PROVE  machine[a].secondary # b
    OBVIOUS
  <2>1. /\ a[1] \in Nat /\ machine[a].secondary > a[1]
        /\ <<0, 0, 0>> \in DOMAIN machine \/ machine[a].secondary \notin 0..FunctionsPerDev - 1
    BY PciAssumption, BusAssumption DEF IsBridge
  <2>2. b = 0 \/ (b \in 0..FunctionsPerDev - 1 /\ <<0, 0, 0>> \notin DOMAIN machine)
    BY <1>3 DEF HostsLeft, is_valid
  <2> QED BY <2>1, <2>2
<1>6. /\ \A a \in DOMAIN machine : a[1] \in G /\ IsBridge(a) => machine[a].secondary \in G
      /\ \A a \in DOMAIN machine : Ahead(checkBus(b), a) /\ IsBridge(a) => machine[a].secondary \in G
  <2>1. \A a \in DOMAIN machine : a[1] \in F /\ IsBridge(a) => machine[a].secondary \in F
    BY DEF ToCome
  <2>2. \A a \in DOMAIN machine : a[1] \in F \ {b} /\ IsBridge(a) => machine[a].secondary # b
    BY <1>5
  <2> QED BY <1>4, <2>1, <2>2, BusEntered
<1>7. HostsLeft' \subseteq G /\ (isMultiFunction(0, 0)' /\ is_valid(0, 0, 0)' => host' = 0)
  <2>1. (isMultiFunction(0, 0)' <=> isMultiFunction(0, 0)) /\ (is_valid(0, 0, 0)' <=> is_valid(0, 0, 0))
    BY <1>1 DEF isMultiFunction, is_valid, getDeviceFunction
  <2>2. HostsLeft' \subseteq HostsLeft \ {b}
    BY <1>1, <1>2, <2>1 DEF HostsLeft
  <2>3. ~(isMultiFunction(0, 0) /\ is_valid(0, 0, 0))
    BY <1>3, <1>1 DEF HostsLeft
  <2> QED BY <2>1, <2>2, <2>3 DEF ToCome
<1>8. \A at : IsListed(at)' <=> IsListed(at)
  BY <1>1 DEF IsListed, Devices
<1>9. \A at \in DOMAIN machine : IsListed(at) => at[1] \notin F
  BY DEF ToCome
<1>10. DOMAIN calls' = {1} /\ calls'[1] = checkBus(b) /\ checkBus(b).bus = b
  BY <1>1 DEF checkBus
<1> HIDE DEF G
<1>11. b \notin G /\ \A x \in G : x \in F
  BY DEF G
<1>12. \A a : IsBridge(a)' <=> IsBridge(a)
  BY <1>1 DEF IsBridge
<1>13. ToCome(G)'
  <2>1. \A a \in DOMAIN machine : a[1] \in G /\ IsBridge(a)' => machine[a].secondary \in G
    BY <1>6, <1>12
  <2>2. \A a \in DOMAIN machine : Ahead(calls'[1], a) /\ IsBridge(a)' => machine[a].secondary \in G
    BY <1>6, <1>10, <1>12
  <2>3. \A at \in DOMAIN machine : IsListed(at)' => at[1] \notin G /\ at[1] # b
    BY <1>4, <1>8, <1>9, <1>11
  <2>4. \A i \in DOMAIN calls' : i = 1 /\ calls'[i].bus = b
    BY <1>10
  <2>5. \A i \in DOMAIN calls', a \in DOMAIN machine' :
           Ahead(calls[i], a)' /\ IsBridge(a)' => machine'[a].secondary \in G
    BY <1>1, <2>2, <2>4 DEF Ahead
  <2>6. \A a \in DOMAIN machine' : a[1] \in G /\ IsBridge(a)' => machine'[a].secondary \in G
    BY <1>1, <2>1
  <2>7. \A at \in DOMAIN machine' : IsListed(at)' => at[1] \notin G
    BY <1>1, <2>3
  <2>8. \A i \in DOMAIN calls', at \in DOMAIN machine' :
           IsListed(at)' /\ at[1] = calls'[i].bus => Past(calls[i], at)'
    BY <1>1, <2>3, <2>4
  <2>9. /\ \A i \in DOMAIN calls' : calls'[i].bus \notin G
        /\ \A i, j \in DOMAIN calls' : calls'[i].bus = calls'[j].bus => i = j
    BY <1>11, <2>4
  <2> QED BY <1>7, <2>5, <2>6, <2>7, <2>8, <2>9 DEF ToCome
<1> QED BY <1>13

\* A function is looked at.
LEMMA ScanCall ==
  ASSUME CallsInv, machine \in Machines, NEW F, ToCome(F), CheckFunction,
         \A at : IsListed(at)' =>
            IsListed(at) \/ (Last(calls).function = 1 /\ at = <<Last(calls).bus, Last(calls).device, 0>>)
  PROVE  \E G : ToCome(G)'
<1> PICK k : k = Len(calls)
  OBVIOUS
<1> PICK top : top = Last(calls)
  OBVIOUS
<1> PICK bridge : bridge = <<top.bus, top.device, top.function>>
  OBVIOUS
<1>1. k \in Nat \ {0} /\ DOMAIN calls = 1..k /\ calls[k] = top /\ Moved(k, top, bridge)
  <2>1. Len(calls) \in Nat \ {0} /\ DOMAIN calls = 1..Len(calls)
    BY CallMoves DEF CallsInv
  <2> QED BY <2>1, CallMoves
<1>2. UNCHANGED <<machine, host>>
  BY DEF CheckFunction
<1>3. \A at : IsListed(at)' => IsListed(at) \/ (top.function = 1 /\ at = <<top.bus, top.device, 0>>)
  OBVIOUS
<1>4. /\ HostsLeft' = HostsLeft /\ \A a : IsBridge(a)' <=> IsBridge(a)
      /\ isMultiFunction(0, 0)' /\ is_valid(0, 0, 0)' => host' = 0
  BY <1>2 DEF HostsLeft, IsBridge, isMultiFunction, is_valid, getDeviceFunction, ToCome
<1>5. \A i \in DOMAIN calls' : i # k + 1 =>
         /\ i \in DOMAIN calls /\ calls'[i].bus = calls[i].bus
         /\ \A a \in DOMAIN machine : Ahead(calls[i], a)' => Ahead(calls[i], a)
         /\ \A a \in DOMAIN machine : Past(calls[i], a) => Past(calls[i], a)'
  <2> SUFFICES ASSUME NEW i \in DOMAIN calls', i # k + 1
               PROVE  /\ i \in DOMAIN calls /\ calls'[i].bus = calls[i].bus
                      /\ \A a \in DOMAIN machine : Ahead(calls'[i], a) => Ahead(calls[i], a)
                      /\ \A a \in DOMAIN machine : Past(calls[i], a) => Past(calls'[i], a)
    BY DEF Ahead, Past
  <2>1. i \in 1..k + 1
    BY <1>1 DEF Moved
  <2>2. i \in 1..k /\ (i < k \/ i = k)
    BY <1>1, <2>1
  <2>3. CASE i < k
    BY <1>1, <2>2, <2>3 DEF Moved
  <2>4. CASE i = k
    BY <1>1, <2>2, <2>4 DEF Moved
  <2> QED BY <2>2, <2>3, <2>4
<1>6. \A at \in DOMAIN machine : IsListed(at)' => at[1] \notin F
  <2>1. top.bus \notin F
    BY <1>1 DEF ToCome
  <2> QED BY <1>3, <2>1 DEF ToCome
<1>7. \A i \in DOMAIN calls', at \in DOMAIN machine :
         i # k + 1 /\ IsListed(at)' /\ at[1] = calls'[i].bus => Past(calls[i], at)'
  <2> SUFFICES ASSUME NEW i \in DOMAIN calls', NEW at \in DOMAIN machine, i # k + 1,
                      IsListed(at)', at[1] = calls'[i].bus
               PROVE  Past(calls[i], at)'
    OBVIOUS
  <2>1. CASE IsListed(at)
    BY <1>5, <2>1 DEF ToCome
  <2>2. CASE top.function = 1 /\ at = <<top.bus, top.device, 0>>
    <3>1. calls[i].bus = calls[k].bus /\ i \in DOMAIN calls /\ k \in DOMAIN calls
      BY <1>1, <1>5, <2>2
    <3>2. i = k
      BY <3>1 DEF ToCome
    <3>3. Past(calls'[k], <<top.bus, top.device, 0>>)
      BY <1>1, <2>2, <3>2 DEF Moved
    <3> QED BY <2>2, <3>2, <3>3
  <2> QED BY <1>3, <2>1, <2>2
<1>8. CASE k + 1 \notin DOMAIN calls'
  <2>1. \A i \in DOMAIN calls', a \in DOMAIN machine' :
           Ahead(calls[i], a)' /\ IsBridge(a)' => machine'[a].secondary \in F
    BY <1>2, <1>4, <1>5, <1>8 DEF ToCome
  <2>2. \A a \in DOMAIN machine' : a[1] \in F /\ IsBridge(a)' => machine'[a].secondary \in F
    BY <1>2, <1>4 DEF ToCome
  <2>3. HostsLeft' \subseteq F
    BY <1>4 DEF ToCome
  <2>4. \A at \in DOMAIN machine' : IsListed(at)' => at[1] \notin F
    BY <1>2, <1>6
  <2>5. \A i \in DOMAIN calls', at \in DOMAIN machine' :
           IsListed(at)' /\ at[1] = calls'[i].bus => Past(calls[i], at)'
    BY <1>2, <1>7, <1>8
  <2>6. \A i \in DOMAIN calls' : calls'[i].bus \notin F
    BY <1>5, <1>8 DEF ToCome
  <2>7. \A i, j \in DOMAIN calls' : calls'[i].bus = calls'[j].bus => i = j
    BY <1>5, <1>8 DEF ToCome
  <2>8. ToCome(F)'
    BY <1>4, <2>1, <2>2, <2>3, <2>4, <2>5, <2>6, <2>7 DEF ToCome
  <2> QED BY <2>8
<1>9. CASE k + 1 \in DOMAIN calls'
  <2> PICK s : s = machine[bridge].secondary
    OBVIOUS
  <2> PICK G : G = F \ {s}
    OBVIOUS
  <2>1. /\ k \in DOMAIN calls' /\ bridge \in DOMAIN machine /\ IsBridge(bridge) /\ bridge[1] = top.bus
        /\ Ahead(top, bridge) /\ ~Ahead(calls[k], bridge)' /\ calls'[k + 1] = checkBus(s)
    BY <1>1, <1>9 DEF Moved, Ahead
  <2>2. s \in F /\ top.bus \notin F
    BY <1>1, <2>1 DEF ToCome
  <2>3. \A a \in DOMAIN machine : IsBridge(a) /\ machine[a].secondary = s => a = bridge
    BY <2>1, BusAssumption DEF IsBridge
  <2>4. /\ \A a \in DOMAIN machine : a[1] \in G /\ IsBridge(a) => machine[a].secondary \in G
        /\ \A a \in DOMAIN machine : Ahead(checkBus(s), a) /\ IsBridge(a) => machine[a].secondary \in G
    <3>1. \A a \in DOMAIN machine : a[1] \in F /\ IsBridge(a) => machine[a].secondary \in F
      BY DEF ToCome
    <3>2. \A a \in DOMAIN machine : a[1] \in F \ {s} /\ IsBridge(a) => machine[a].secondary # s
      BY <2>1, <2>2, <2>3
    <3> QED BY <2>2, <3>1, <3>2, BusEntered
  <2>5. \A i \in DOMAIN calls', a \in DOMAIN machine :
           i # k + 1 /\ Ahead(calls[i], a)' /\ IsBridge(a) => machine[a].secondary \in G
    <3> SUFFICES ASSUME NEW i \in DOMAIN calls', NEW a \in DOMAIN machine, i # k + 1,
                        Ahead(calls[i], a)', IsBridge(a)
                 PROVE  machine[a].secondary \in G
      OBVIOUS
    <3>1. i \in DOMAIN calls /\ calls'[i].bus = calls[i].bus /\ Ahead(calls[i], a)
      BY <1>5
    <3>2. machine[a].secondary \in F
      BY <3>1 DEF ToCome
    <3>3. ASSUME machine[a].secondary = s PROVE FALSE
      <4>1. a = bridge
        BY <2>3, <3>3
      <4>2. calls[i].bus = calls[k].bus /\ k \in DOMAIN calls
        BY <1>1, <2>1, <3>1, <4>1 DEF Ahead
      <4>3. i = k
        BY <3>1, <4>2 DEF ToCome
      <4> QED BY <2>1, <4>1, <4>3
    <3> QED BY <3>2, <3>3
  <2>6. \A i \in DOMAIN calls', a \in DOMAIN machine' :
           Ahead(calls[i], a)' /\ IsBridge(a)' => machine'[a].secondary \in G
    <3>1. \A a \in DOMAIN machine : Ahead(calls[k + 1], a)' /\ IsBridge(a) => machine[a].secondary \in G
      BY <2>1, <2>4 DEF Ahead
    <3> QED BY <1>2, <1>4, <2>5, <3>1
  <2>7. \A a \in DOMAIN machine' : a[1] \in G /\ IsBridge(a)' => machine'[a].secondary \in G
    BY <1>2, <1>4, <2>4
  <2>8. HostsLeft' \subseteq G
    <3>1. /\ bridge[1] \in Nat /\ s > bridge[1]
          /\ <<0, 0, 0>> \in DOMAIN machine \/ s \notin 0..FunctionsPerDev - 1
      BY <2>1, PciAssumption, BusAssumption DEF IsBridge
    <3>2. s \notin HostsLeft
      BY <3>1 DEF HostsLeft, is_valid
    <3> QED BY <1>4, <3>2 DEF ToCome
  <2>9. \A at \in DOMAIN machine' : IsListed(at)' => at[1] \notin G
    BY <1>2, <1>6
  <2>10. calls'[k + 1].bus = s /\ s \notin G
    BY <2>1 DEF checkBus
  <2>11. \A i \in DOMAIN calls' : i # k + 1 => i \in DOMAIN calls /\ calls'[i].bus = calls[i].bus /\ calls'[i].bus \notin F
    BY <1>5 DEF ToCome
  <2>12. \A i \in DOMAIN calls' : calls'[i].bus \notin G
    BY <2>10, <2>11
  <2>13. \A i, j \in DOMAIN calls' : calls'[i].bus = calls'[j].bus => i = j
    <3> SUFFICES ASSUME NEW i \in DOMAIN calls', NEW j \in DOMAIN calls', calls'[i].bus = calls'[j].bus
                 PROVE  i = j
      OBVIOUS
    <3>1. CASE i # k + 1 /\ j # k + 1
      BY <2>11, <3>1 DEF ToCome
    <3>2. CASE i = k + 1 \/ j = k + 1
      BY <2>2, <2>10, <2>11, <3>2
    <3> QED BY <3>1, <3>2
  <2>14. \A i \in DOMAIN calls', at \in DOMAIN machine' :
            IsListed(at)' /\ at[1] = calls'[i].bus => Past(calls[i], at)'
    <3>1. \A at \in DOMAIN machine : IsListed(at)' => at[1] # s
      BY <1>6, <2>2
    <3> QED BY <1>2, <1>7, <2>10, <3>1
  <2>15. ToCome(G)'
    BY <1>4, <2>6, <2>7, <2>8, <2>9, <2>12, <2>13, <2>14 DEF ToCome
  <2> QED BY <2>15
<1> QED BY <1>8, <1>9

LEMMA ScanScan ==
  ASSUME QueueInv, machine \in Machines, ScanInv, Scan
  PROVE  ScanInv'
<1> DEFINE at0 == <<Last(calls).bus, Last(calls).device, 0>>
<1>1. pc = "scan" /\ pc' = "scan" /\ ScanStep /\ CallsInv
  BY DEF Scan, uhciVars, QueueInv
<1>2. pc' \notin Starting
  BY <1>1 DEF Starting
<1>3. PICK F : ToCome(F)
  BY <1>1 DEF ScanInv
<1>4. \/ nodes' = nodes
      \/ \E n, v : /\ Grown(nodes, nodes', n, v) /\ v.dir = FALSE /\ v.hint = "USBCTRL"
                   /\ calls # << >> /\ Last(calls).function = 1 /\ v.data = at0
  BY ScanLists
<1>5. ASSUME calls # << >>, Last(calls).function = 1
      PROVE  ~IsListed(at0)
  <2>1. at0 \in DOMAIN machine
    BY <1>1, <1>5, ListedIsThere
  <2>2. Len(calls) \in DOMAIN calls /\ Last(calls) = calls[Len(calls)]
    BY <1>1, <1>5, TopOff DEF CallsInv
  <2>3. ~Past(Last(calls), at0)
    <3> DEFINE c == Last(calls)
    <3>1. c \in Call
      BY <1>1, <1>5, TopOff DEF CallsInv
    <3> HIDE DEF c
    <3>2. c.device \in Nat
      BY <3>1 DEF Call
    <3>3. Last(calls).device \in Nat
      BY <3>2 DEF c
    <3> QED BY <1>5, <3>3 DEF Past
  <2>4. at0[1] = Last(calls).bus
    OBVIOUS
  <2> HIDE DEF at0
  <2>5. IsListed(at0) => Past(calls[Len(calls)], at0)
    BY <1>3, <2>1, <2>2, <2>4 DEF ToCome
  <2> QED BY <2>2, <2>3, <2>5
<1>6. \A at : IsListed(at)' => IsListed(at) \/ (calls # << >> /\ Last(calls).function = 1 /\ at = at0)
  <2>1. CASE nodes' = nodes
    BY <2>1 DEF IsListed, Devices
  <2>2. ASSUME NEW n, NEW v, Grown(nodes, nodes', n, v), v.dir = FALSE, v.hint = "USBCTRL",
               calls # << >>, Last(calls).function = 1, v.data = at0
        PROVE  \A at : IsListed(at)' => IsListed(at) \/ at = at0
    BY <2>2, ListedMore
  <2> QED BY <1>4, <2>1, <2>2
<1>7. ListedOnce'
  <2>1. CASE nodes' = nodes
    BY <2>1 DEF ScanInv, ListedOnce, Devices
  <2>2. ASSUME NEW n, NEW v, Grown(nodes, nodes', n, v), v.dir = FALSE, v.hint = "USBCTRL",
               calls # << >>, Last(calls).function = 1, v.data = at0
        PROVE  ListedOnce'
    BY <1>5, <2>2, ListedMore DEF ScanInv
  <2> QED BY <1>4, <2>1, <2>2
<1>8. \E G : ToCome(G)'
  <2>1. CASE EnumerateBus
    BY <1>1, <1>3, <2>1, ScanHost
  <2>2. CASE CheckFunction
    <3> HIDE DEF at0
    <3>1. \A at : IsListed(at)' => IsListed(at) \/ (Last(calls).function = 1 /\ at = at0)
      BY <1>6
    <3> QED BY <1>1, <1>3, <2>2, <3>1, ScanCall DEF at0
  <2> QED BY <1>1, <2>1, <2>2 DEF ScanStep
<1> QED BY <1>1, <1>2, <1>7, <1>8 DEF ScanInv

\* A step that neither scans nor lists a device of the bus.
SameListed ==
  \A n : n \in Devices(nodes') /\ nodes'[n].hint = "USBCTRL" =>
            n \in Devices(nodes) /\ nodes[n].hint = "USBCTRL" /\ nodes'[n].data = nodes[n].data

LEMMA ScanKept ==
  ASSUME ScanInv, SameListed, pc' \notin Starting, pc' # "scan"
  PROVE  ScanInv'
BY DEF ScanInv, SameListed, ListedOnce

\* Nothing is listed until the scan.
LEMMA NothingListed ==
  ASSUME ScanInv, pc \in Starting, Next
  PROVE  Devices(nodes) = {} /\ Devices(nodes') = {}
<1>1. InitializeHw \/ TakeInterrupt \/ TimerTick \/ KeyboardActs \/ KeyPressed
  BY WhileStarting
<1>2. nodes' = nodes \/ nodes' = BootTree
  <2>1. CASE InitializeHw
    BY <2>1 DEF InitializeHw, InitCpu, InitMemory, InitVfs, PIT_init, Ps2Start, init_keyboard,
       FlushKeyboard, StartScan, StartLine
  <2>2. CASE TakeInterrupt
    BY <2>2 DEF TakeInterrupt, vfsVars
  <2>3. CASE TimerTick \/ KeyboardActs \/ KeyPressed
    BY <2>3 DEF TimerTick, KeyboardActs, KeyPressed, Outside, vfsVars
  <2> QED BY <1>1, <2>1, <2>2, <2>3
<1>3. Devices(nodes) = {}
  BY DEF ScanInv
<1> QED BY <1>2, <1>3, BootTreeIs

LEMMA ScanStart ==
  ASSUME QueueInv, ScanInv, pc \in Starting, Next
  PROVE  ScanInv'
<1>1. InitializeHw \/ TakeInterrupt \/ TimerTick \/ KeyboardActs \/ KeyPressed
  BY WhileStarting
<1>2. UNCHANGED <<machine, calls, host>>
  <2>1. CASE InitializeHw
    BY <2>1 DEF InitializeHw, busVars, pciVars
  <2>2. CASE TakeInterrupt
    BY <2>2 DEF TakeInterrupt, vfsVars, pciVars, uhciVars
  <2>3. CASE TimerTick \/ KeyboardActs \/ KeyPressed
    BY <2>3 DEF TimerTick, KeyboardActs, KeyPressed, Outside, vfsVars, pciVars, uhciVars
  <2> QED BY <1>1, <2>1, <2>2, <2>3
<1>3. Devices(nodes') = {}
  BY NothingListed
<1>4. calls = << >> /\ host = 0
  BY DEF ScanInv
<1>5. ListedOnce' /\ \A at : ~IsListed(at)'
  BY <1>3 DEF ListedOnce, IsListed
<1>6. \E F : ToCome(F)'
  <2> PICK F : F = Nat \cup {machine[a].secondary : a \in DOMAIN machine}
    OBVIOUS
  <2>1. DOMAIN calls' = {}
    BY <1>2, <1>4
  <2>2. HostsLeft' \subseteq F
    BY <1>2, <1>4, PciAssumption DEF HostsLeft
  <2>3. host' = 0 /\ machine' = machine
    BY <1>2, <1>4
  <2>4. ToCome(F)'
    BY <1>5, <2>1, <2>2, <2>3 DEF ToCome
  <2> QED BY <2>4
<1> QED BY <1>2, <1>3, <1>4, <1>5, <1>6 DEF ScanInv

-----------------------------------------------------------------------------
(* The directories of the controllers.                                     *)

\* A directory of the tree with another node: names stay, and /dev has another
\* child if it is that directory.
LEMMA NamesStay ==
  ASSUME NEW ns, Tree(ns), NEW dir, dir \in DOMAIN ns \ {0, 1}, NEW v, DOMAIN v = NodeFields
  PROVE  LET t == add_child(ns, dir, v)
             n == node_count(ns) IN
         /\ \A k \in DOMAIN ns : t[k].name = ns[k].name /\ t[k].dir = ns[k].dir
         /\ t[n].name = v.name /\ t[n].dir = v.dir
         /\ t[2].children = IF dir = 2 THEN Append(ns[2].children, n) ELSE ns[2].children
<1>1. PICK n \in Nat : n >= 4 /\ DOMAIN ns = 0..n - 1
  BY DEF Tree
<1>2. \A k \in DOMAIN ns : DOMAIN ns[k] = NodeFields
  BY DEF Tree
<1> DEFINE t == add_child(ns, dir, v)
<1>3. /\ DOMAIN t = 0..(n + 1) - 1 /\ node_count(ns) = n
      /\ \A k \in DOMAIN t : DOMAIN t[k] = NodeFields
      /\ t[n] = [v EXCEPT !.parent = dir]
      /\ \A k \in DOMAIN ns : k # n /\ k \in DOMAIN t /\ (k # dir => t[k] = ns[k])
      /\ t[dir] = [ns[dir] EXCEPT !.children = Append(@, n)]
  BY <1>1, <1>2, Added
<1> HIDE DEF t
<1>4. \A k \in DOMAIN ns : t[k].name = ns[k].name /\ t[k].dir = ns[k].dir
  <2> SUFFICES ASSUME NEW k \in DOMAIN ns PROVE t[k].name = ns[k].name /\ t[k].dir = ns[k].dir
    OBVIOUS
  <2>1. CASE k = dir
    <3>1. t[k] = [ns[k] EXCEPT !.children = Append(@, n)] /\ DOMAIN ns[k] = NodeFields
      BY <1>2, <1>3, <2>1
    <3> QED BY <3>1 DEF NodeFields
  <2>2. CASE k # dir
    BY <1>3, <2>2
  <2> QED BY <2>1, <2>2
<1>5. t[n].name = v.name /\ t[n].dir = v.dir
  BY <1>3 DEF NodeFields
<1>6. 2 \in DOMAIN ns
  BY <1>1
<1>7. t[2].children = IF dir = 2 THEN Append(ns[2].children, n) ELSE ns[2].children
  <2>1. CASE dir = 2
    <3>1. t[2] = [ns[2] EXCEPT !.children = Append(@, n)] /\ DOMAIN ns[2] = NodeFields
      BY <1>2, <1>3, <1>6, <2>1
    <3>2. t[2].children = Append(ns[2].children, n)
      BY <3>1 DEF NodeFields
    <3> QED BY <2>1, <3>2
  <2>2. CASE dir # 2
    BY <1>3, <1>6, <2>2
  <2> QED BY <2>1, <2>2
<1> QED BY <1>3, <1>4, <1>5, <1>7 DEF t

\* Each controller has its directory in /dev, in the order in which they were made.
FoldersInv ==
  /\ pc \in Starting => controllers = << >>
  /\ pc \notin Preparing =>
       /\ Len(nodes[2].children) = Len(controllers)
       /\ \A i \in DOMAIN controllers :
            /\ controllers[i].name = <<"uhci", i - 1>>
            /\ nodes[nodes[2].children[i]].name = <<"uhci", i - 1>>
            /\ nodes[nodes[2].children[i]].dir = TRUE

LEMMA FoldersInit == Init => FoldersInv
<1> SUFFICES ASSUME Init PROVE FoldersInv
  OBVIOUS
<1>1. pc = "boot" /\ controllers = << >>
  BY DEF Init, UhciInit
<1> QED BY <1>1 DEF FoldersInv, Preparing

\* A controller's path leads to its directory.
LEMMA FolderFound ==
  ASSUME Tree(nodes), FoldersInv, pc \notin Preparing, controllers \in Seq(Controller),
         NEW i \in DOMAIN controllers
  PROVE  LET dir == walk_path(nodes, <<<<"dev">>, controllers[i].name>>)
         IN  dir \in DOMAIN nodes \ 0..3 /\ nodes[dir].dir = TRUE
<1> DEFINE list == nodes[2].children
           name == controllers[i].name
           path == <<<<"dev">>, name>>
           dir == Child(nodes, 2, name)
<1>1. list \in Seq(Nat) /\ \A j \in DOMAIN list : list[j] \in DOMAIN nodes \ 0..3
  BY DEF Tree
<1>2. /\ Len(list) = Len(controllers)
      /\ \A j \in DOMAIN controllers : /\ nodes[list[j]].name = <<"uhci", j - 1>>
                                       /\ nodes[list[j]].dir = TRUE
      /\ name = <<"uhci", i - 1>>
  BY DEF FoldersInv
<1>3. DOMAIN list = DOMAIN controllers
  BY <1>1, <1>2
<1>4. dir # ENONODE
  <2>1. dir = ENONODE => \A j \in DOMAIN list : nodes[list[j]].name # name
    BY <1>1, ChildIs
  <2> QED BY <1>2, <1>3, <2>1
<1>5. \E j \in DOMAIN list : dir = list[j]
  BY <1>1, <1>4, ChildIs
<1>6. walk_path(nodes, path) = dir
  <2>1. Len(<<<<"dev">>>>) = 1 /\ <<<<"dev">>>>[1] = <<"dev">> /\ 1 \in 0..2
    OBVIOUS
  <2>2. Child(nodes, ROOT, <<"dev">>) = 2
    <3> PICK p : p = <<<<"dev">>>>
      OBVIOUS
    <3>1. walk_path(nodes, p) = Child(nodes, ROOT, p[1])
      BY <2>1, Walks
    <3>2. walk_path(nodes, p) = 2
      BY Paths
    <3> QED BY <2>1, <3>1, <3>2
  <2>3. Len(path) = 2 /\ path[1] = <<"dev">> /\ path[2] = name /\ 2 \in 0..2
    OBVIOUS
  <2> HIDE DEF path, name
  <2>4. walk_path(nodes, path) = IF Child(nodes, ROOT, path[1]) = ENONODE THEN ENONODE
                                 ELSE Child(nodes, Child(nodes, ROOT, path[1]), path[2])
    BY <2>3, Walks
  <2>5. 2 # ENONODE
    BY DEF ENONODE
  <2> QED BY <2>2, <2>3, <2>4, <2>5
<1> QED BY <1>1, <1>2, <1>3, <1>5, <1>6

\* The devices are those there were.
SameDevices ==
  /\ Devices(nodes') = Devices(nodes)
  /\ \A k \in Devices(nodes) : nodes'[k].data = nodes[k].data /\ nodes'[k].hint = nodes[k].hint

\* The devices are those there were and one of the last controller.
OneMore(n) ==
  /\ n \notin Devices(nodes) /\ Devices(nodes') = Devices(nodes) \cup {n}
  /\ \A k \in Devices(nodes) : nodes'[k].data = nodes[k].data /\ nodes'[k].hint = nodes[k].hint
  /\ nodes'[n].hint = "USB"
  /\ nodes'[n].data = [at |-> this, port |-> step, address |-> Last(controllers).addressCount]

LEMMA ControllerMade ==
  ASSUME QueueInv, FoldersInv, AddController
  PROVE  SameDevices /\ FoldersInv'
<1> DEFINE name == <<"uhci", Len(controllers)>>
           v == make_node(name, TRUE, "none", this)
           c == [at |-> this, name |-> name, addressCount |-> 1, device_count |-> 0]
           n == node_count(nodes)
           m == Len(controllers)
<1>1. /\ pc = "init" /\ pc' = "probe" /\ nodes' = add_vnode(nodes, <<<<"dev">>>>, v)
      /\ controllers' = Append(controllers, c)
  BY DEF AddController
<1>2. Tree(nodes) /\ controllers \in Seq(Controller) /\ pc \notin Preparing
  BY <1>1 DEF QueueInv, Preparing
<1>3. DOMAIN v = NodeFields /\ v.dir = TRUE /\ v.name = name
  BY DEF make_node, BlankNode, NodeFields
<1>4. c.name = name
  OBVIOUS
<1> HIDE DEF v, c
<1>5. 2 \in DOMAIN nodes \ {0, 1}
  BY <1>2 DEF Tree
<1>6. nodes' = add_child(nodes, 2, v)
  <2>1. walk_path(nodes, <<<<"dev">>>>) = 2
    BY <1>2, Paths
  <2>2. nodes[2].dir = TRUE
    BY <1>2 DEF Tree
  <2> QED BY <1>1, <2>1, <2>2 DEF add_vnode, ENONODE
<1>7. Grown(nodes, nodes', n, v)
  BY <1>2, <1>3, <1>5, <1>6, TreeGrows
<1>8. SameDevices
  BY <1>3, <1>7 DEF Devices, Grown, SameDevices
<1>9. /\ \A k \in DOMAIN nodes : nodes'[k].name = nodes[k].name /\ nodes'[k].dir = nodes[k].dir
      /\ nodes'[n].name = name /\ nodes'[n].dir = TRUE
      /\ nodes'[2].children = Append(nodes[2].children, n)
  <2> HIDE DEF name
  <2> PICK t : t = nodes'
    OBVIOUS
  <2>1. /\ \A k \in DOMAIN nodes : t[k].name = nodes[k].name /\ t[k].dir = nodes[k].dir
        /\ t[n].name = v.name /\ t[n].dir = v.dir
        /\ t[2].children = Append(nodes[2].children, n)
    <3> PICK dir : dir = 2
      OBVIOUS
    <3>1. t = add_child(nodes, dir, v) /\ dir \in DOMAIN nodes \ {0, 1}
      BY <1>5, <1>6
    <3>2. /\ \A k \in DOMAIN nodes : t[k].name = nodes[k].name /\ t[k].dir = nodes[k].dir
          /\ t[n].name = v.name /\ t[n].dir = v.dir
          /\ t[2].children = IF dir = 2 THEN Append(nodes[2].children, n) ELSE nodes[2].children
      <4>1. Tree(nodes) /\ DOMAIN v = NodeFields
        BY <1>2, <1>3
      <4> HIDE DEF n
      <4>2. LET s == add_child(nodes, dir, v)
                k == node_count(nodes) IN
            /\ \A j \in DOMAIN nodes : s[j].name = nodes[j].name /\ s[j].dir = nodes[j].dir
            /\ s[k].name = v.name /\ s[k].dir = v.dir
            /\ s[2].children = IF dir = 2 THEN Append(nodes[2].children, k) ELSE nodes[2].children
        BY ONLY <4>1, <3>1, NamesStay
      <4> QED BY ONLY <3>1, <4>2 DEF n
    <3> QED BY <3>2
  <2> QED BY <1>3, <2>1
<1>10. /\ m \in Nat /\ DOMAIN controllers = 1..m
       /\ DOMAIN controllers' = 1..m + 1 /\ Len(controllers') = m + 1
       /\ controllers'[m + 1] = c /\ \A i \in 1..m : controllers'[i] = controllers[i]
  BY <1>1, <1>2
<1>11. nodes[2].children \in Seq(Nat) /\ \A i \in DOMAIN nodes[2].children : nodes[2].children[i] \in DOMAIN nodes
  BY <1>2 DEF Tree
<1>12. /\ Len(nodes[2].children) = m
       /\ \A i \in 1..m : /\ controllers[i].name = <<"uhci", i - 1>>
                          /\ nodes[nodes[2].children[i]].name = <<"uhci", i - 1>>
                          /\ nodes[nodes[2].children[i]].dir = TRUE
  BY <1>2, <1>10 DEF FoldersInv
<1>13. n \in Nat
  BY <1>7 DEF Grown
<1> HIDE DEF n
<1>14. /\ Len(nodes'[2].children) = m + 1 /\ nodes'[2].children[m + 1] = n
       /\ \A i \in 1..m : nodes'[2].children[i] = nodes[2].children[i] /\ nodes[2].children[i] \in DOMAIN nodes
  BY <1>9, <1>10, <1>11, <1>12, <1>13
<1>15. name = <<"uhci", (m + 1) - 1>>
  BY <1>10
<1> HIDE DEF name, m
<1>16. \A i \in 1..m + 1 : /\ controllers'[i].name = <<"uhci", i - 1>>
                           /\ nodes'[nodes'[2].children[i]].name = <<"uhci", i - 1>>
                           /\ nodes'[nodes'[2].children[i]].dir = TRUE
  <2> SUFFICES ASSUME NEW i \in 1..m + 1
               PROVE  /\ controllers'[i].name = <<"uhci", i - 1>>
                      /\ nodes'[nodes'[2].children[i]].name = <<"uhci", i - 1>>
                      /\ nodes'[nodes'[2].children[i]].dir = TRUE
    OBVIOUS
  <2>1. i \in 1..m \/ i = m + 1
    BY <1>10
  <2>2. CASE i \in 1..m
    <3> PICK k : k = nodes[2].children[i]
      OBVIOUS
    <3>1. k \in DOMAIN nodes /\ nodes'[2].children[i] = k
      BY <1>14, <2>2
    <3>2. nodes[k].name = <<"uhci", i - 1>> /\ nodes[k].dir = TRUE /\ controllers[i].name = <<"uhci", i - 1>>
      BY <1>12, <2>2
    <3>3. nodes'[k].name = nodes[k].name /\ nodes'[k].dir = nodes[k].dir /\ controllers'[i] = controllers[i]
      BY <1>9, <1>10, <2>2, <3>1
    <3> QED BY <3>1, <3>2, <3>3
  <2>3. CASE i = m + 1
    BY <1>4, <1>9, <1>10, <1>14, <1>15, <2>3
  <2> QED BY <2>1, <2>2, <2>3
<1>17. FoldersInv'
  BY <1>1, <1>10, <1>14, <1>16 DEF FoldersInv, Starting
<1> QED BY <1>8, <1>17

LEMMA UsbMade ==
  ASSUME QueueInv, FoldersInv, EndTransfer, ask = "SET_ADDR", TransferStatus = "done"
  PROVE  /\ \E n : OneMore(n)
         /\ FoldersInv'
         /\ Last(controllers').at = Last(controllers).at
         /\ \A i \in DOMAIN controllers' : i \in DOMAIN controllers /\ controllers'[i].at = controllers[i].at
         /\ DOMAIN controllers' = DOMAIN controllers
         /\ \A k \in Devices(nodes) : Queued(events', k) => Queued(events, k)
<1> DEFINE c == Last(controllers)
           d == [c EXCEPT !.addressCount = @ + 1, !.device_count = @ + 1]
           data == [at |-> this, port |-> step, address |-> c.addressCount]
           v == make_node(<<"usb", c.device_count>>, FALSE, "USB", data)
           path == <<<<"dev">>, c.name>>
           dir == walk_path(nodes, path)
           n == node_count(nodes)
           m == Len(controllers)
<1>1. /\ pc = "wait" /\ pc' = "probe" /\ ListUsb
  BY DEF EndTransfer, NextPort
<1>2. controllers' = Append(Front(controllers), d) /\ add_dnode(path, v)
  BY <1>1 DEF ListUsb
<1>3. /\ Tree(nodes) /\ controllers \in Seq(Controller) /\ controllers # << >> /\ pc \notin Preparing
  BY <1>1 DEF QueueInv, Preparing, Working, Stopped
<1>4. m \in Nat \ {0} /\ DOMAIN controllers = 1..m /\ c = controllers[m] /\ c \in Controller /\ m \in DOMAIN controllers
  BY <1>3, TopOff
<1>5. DOMAIN v = NodeFields /\ v.dir = FALSE /\ v.hint = "USB" /\ v.data = data
  BY DEF make_node, BlankNode, NodeFields
<1> HIDE DEF v, data
<1>6. dir \in DOMAIN nodes \ 0..3 /\ nodes[dir].dir = TRUE
  <2> HIDE DEF m, c
  <2>1. LET e == walk_path(nodes, <<<<"dev">>, controllers[m].name>>)
        IN  e \in DOMAIN nodes \ 0..3 /\ nodes[e].dir = TRUE
    BY <1>3, <1>4, FolderFound
  <2> QED BY <1>4, <2>1
<1> HIDE DEF path, c
<1>7. dir # 2 /\ dir # 3 /\ dir \in DOMAIN nodes \ {0, 1} /\ dir # ENONODE
  <2>1. \A k \in DOMAIN nodes : k \in Nat
    BY <1>3 DEF Tree
  <2> QED BY <1>6, <2>1 DEF ENONODE
<1>8. nodes' = add_child(nodes, dir, v)
  BY <1>2, <1>6, <1>7 DEF add_dnode, add_vnode
<1>80. \A k \in Devices(nodes) : Queued(events', k) => Queued(events, k)
  <2>1. Queue(nodes, events)
    BY DEF QueueInv
  <2>2. walk_path(nodes, path) \in {ENONODE} \cup (DOMAIN nodes \ {0, 1})
    BY <1>7
  <2>3. add_dnode(path, v)
    BY <1>2
  <2> HIDE DEF dir
  <2>4. \/ UNCHANGED <<nodes, events>>
        \/ Grown(nodes, nodes', n, v) /\ NowQueued(nodes, nodes', n, events, events')
    <3>1. v.dir = FALSE /\ v.hint \in {"USB", "USBCTRL"} /\ (v.hint = "USBCTRL" => walk_path(nodes, path) = 3)
      BY <1>5
    <3> QED BY <1>3, <1>5, <2>1, <2>2, <2>3, <3>1, DnodeAdded
  <2> QED BY <2>4 DEF NowQueued, Grown, Devices
<1> HIDE DEF dir
<1>9. Grown(nodes, nodes', n, v)
  <2>1. v.dir = FALSE /\ v.hint = "USBCTRL" => dir = 3
    BY <1>5
  <2> QED BY <1>3, <1>5, <1>7, <1>8, <2>1, TreeGrows
<1>10. /\ \A k \in DOMAIN nodes : nodes'[k].name = nodes[k].name /\ nodes'[k].dir = nodes[k].dir
       /\ nodes'[2].children = nodes[2].children
  BY <1>3, <1>5, <1>7, <1>8, NamesStay
<1>11. OneMore(n)
  <2>1. n \notin Devices(nodes) /\ Devices(nodes') = Devices(nodes) \cup {n}
    BY <1>5, <1>9 DEF Devices, Grown
  <2>2. \A k \in Devices(nodes) : nodes'[k].data = nodes[k].data /\ nodes'[k].hint = nodes[k].hint
    BY <1>9 DEF Devices, Grown
  <2>3. nodes'[n].hint = "USB" /\ nodes'[n].data = data
    BY <1>5, <1>9 DEF Grown
  <2> QED BY <2>1, <2>2, <2>3 DEF OneMore, data, c
<1>12. d \in Controller /\ d.at = c.at /\ d.name = c.name
  <2> DEFINE A == DOMAIN machine
             B == {"uhci"} \X Nat
  <2>1. c \in [at : A, name : B, addressCount : Nat, device_count : Nat]
    BY <1>4 DEF Controller
  <2> HIDE DEF A, B
  <2>2. c.addressCount + 1 \in Nat /\ c.device_count + 1 \in Nat
    BY <2>1
  <2>3. /\ d \in [at : A, name : B, addressCount : Nat, device_count : Nat]
        /\ d.at = c.at /\ d.name = c.name
    BY <2>1, <2>2
  <2> HIDE DEF d
  <2> QED BY <2>3 DEF Controller, A, B
<1> HIDE DEF d
<1>13. /\ controllers' \in Seq(Controller) /\ Len(controllers') = m /\ controllers'[m] = d
       /\ \A i \in 1..m - 1 : controllers'[i] = controllers[i]
  BY <1>2, <1>3, <1>12, ReplacedTop
<1>14. DOMAIN controllers' = 1..m
  BY <1>4, <1>13
<1>15. Last(controllers') = controllers'[m]
  BY <1>13 DEF Last
<1> HIDE DEF m
<1>16. \A i \in 1..m : controllers'[i].at = controllers[i].at /\ controllers'[i].name = controllers[i].name
  <2> SUFFICES ASSUME NEW i \in 1..m
               PROVE  controllers'[i].at = controllers[i].at /\ controllers'[i].name = controllers[i].name
    OBVIOUS
  <2>1. i \in 1..m - 1 \/ i = m
    BY <1>4
  <2> QED BY <1>4, <1>12, <1>13, <2>1
<1>17. FoldersInv'
  <2>1. \A i \in DOMAIN nodes[2].children : nodes[2].children[i] \in DOMAIN nodes
    BY <1>3 DEF Tree
  <2>2. DOMAIN nodes[2].children = 1..m
    BY <1>3, <1>4 DEF FoldersInv, Tree, m
  <2>3. /\ Len(nodes'[2].children) = Len(controllers')
        /\ \A i \in 1..m : /\ controllers'[i].name = <<"uhci", i - 1>>
                           /\ nodes'[nodes'[2].children[i]].name = <<"uhci", i - 1>>
                           /\ nodes'[nodes'[2].children[i]].dir = TRUE
    <3> PICK ch : ch = nodes[2].children
      OBVIOUS
    <3>1. /\ nodes'[2].children = ch /\ DOMAIN ch = 1..m /\ Len(ch) = m /\ Len(controllers') = m
      BY <1>3, <1>4, <1>10, <1>13, <2>2 DEF FoldersInv, m
    <3>2. \A i \in 1..m : /\ controllers[i].name = <<"uhci", i - 1>>
                          /\ nodes[ch[i]].name = <<"uhci", i - 1>> /\ nodes[ch[i]].dir = TRUE
      BY <1>3, <1>4 DEF FoldersInv
    <3>3. \A k \in DOMAIN nodes : nodes'[k].name = nodes[k].name /\ nodes'[k].dir = nodes[k].dir
      BY <1>10
    <3>4. \A i \in 1..m : ch[i] \in DOMAIN nodes
      BY <2>1, <2>2
    <3>5. ASSUME NEW i \in 1..m
          PROVE  /\ controllers'[i].name = <<"uhci", i - 1>>
                 /\ nodes'[ch[i]].name = <<"uhci", i - 1>> /\ nodes'[ch[i]].dir = TRUE
      <4> PICK name : name = <<"uhci", i - 1>>
        OBVIOUS
      <4>1. controllers[i].name = name /\ nodes[ch[i]].name = name /\ nodes[ch[i]].dir = TRUE
        BY <3>2
      <4>2. controllers'[i].name = name
        BY <1>16, <4>1
      <4>3. nodes'[ch[i]].name = name /\ nodes'[ch[i]].dir = TRUE
        BY <3>3, <3>4, <4>1
      <4> QED BY <4>2, <4>3
    <3> QED BY <3>1, <3>5
  <2> QED BY <1>1, <1>14, <2>3 DEF FoldersInv, Starting
<1>18. Last(controllers').at = Last(controllers).at
  BY <1>12, <1>13, <1>15 DEF c
<1> QED BY <1>4, <1>80, <1>11, <1>14, <1>16, <1>17, <1>18

\* A step that leaves the tree and the controllers alone.
LEMMA FoldersKept ==
  ASSUME FoldersInv, UNCHANGED <<nodes, controllers>>,
         pc' \in Starting => pc \in Starting, pc' \notin Preparing => pc \notin Preparing
  PROVE  FoldersInv'
BY DEF FoldersInv

LEMMA FoldersStart ==
  ASSUME FoldersInv, pc \in Starting, Next
  PROVE  FoldersInv'
<1>1. InitializeHw \/ TakeInterrupt \/ TimerTick \/ KeyboardActs \/ KeyPressed
  BY WhileStarting
<1>2. controllers' = << >> /\ controllers = << >>
  <2>1. controllers = << >>
    BY DEF FoldersInv
  <2>2. CASE InitializeHw
    BY <2>1, <2>2 DEF InitializeHw, busVars
  <2>3. CASE TakeInterrupt
    BY <2>1, <2>3 DEF TakeInterrupt, uhciVars
  <2>4. CASE TimerTick \/ KeyboardActs \/ KeyPressed
    BY <2>1, <2>4 DEF TimerTick, KeyboardActs, KeyPressed, Outside, uhciVars
  <2> QED BY <1>1, <2>2, <2>3, <2>4
<1>3. pc' \notin Preparing => Len(nodes'[2].children) = 0
  <2>1. CASE pc = "vfs" /\ InitializeHw
    <3>1. nodes' = BootTree
      BY <2>1 DEF InitializeHw, InitCpu, InitMemory, InitVfs, PIT_init, Ps2Start, init_keyboard,
         FlushKeyboard, StartScan, StartLine
    <3> QED BY <3>1, BootTreeIs
  <2>2. CASE ~(pc = "vfs" /\ InitializeHw)
    <3>1. nodes' = nodes
      BY <1>1, <2>2 DEF InitializeHw, TakeInterrupt, TimerTick, KeyboardActs, KeyPressed, Outside, vfsVars
    <3>2. pc \in Preparing => pc' \in Preparing
      <4>1. CASE InitializeHw
        BY <2>2, <4>1 DEF InitializeHw, InitCpu, InitMemory, InitVfs, PIT_init, Ps2Start, init_keyboard,
           FlushKeyboard, StartScan, StartLine, Preparing
      <4>2. CASE TakeInterrupt \/ TimerTick \/ KeyboardActs \/ KeyPressed
        BY <4>2 DEF TakeInterrupt, TimerTick, KeyboardActs, KeyPressed, Outside, uhciVars
      <4> QED BY <1>1, <4>1, <4>2
    <3>3. Len(<< >>) = 0
      OBVIOUS
    <3> QED BY <1>2, <3>1, <3>2, <3>3 DEF FoldersInv
  <2> QED BY <2>1, <2>2
<1>4. Len(<< >>) = 0 /\ DOMAIN << >> = {}
  OBVIOUS
<1> QED BY <1>2, <1>3, <1>4 DEF FoldersInv

LEMMA FoldersScan ==
  ASSUME QueueInv, FoldersInv, Scan
  PROVE  FoldersInv'
<1>1. pc = "scan" /\ pc' = "scan" /\ controllers' = controllers
  BY DEF Scan, uhciVars
<1>2. CASE nodes' = nodes
  BY <1>1, <1>2, FoldersKept
<1>3. CASE nodes' # nodes
  <2>1. PICK v : nodes' = add_child(nodes, 3, v) /\ DOMAIN v = NodeFields
    BY <1>3, ScanLists
  <2>2. Tree(nodes) /\ pc \notin Preparing
    BY <1>1 DEF QueueInv, Preparing
  <2> PICK dir : dir = 3
    OBVIOUS
  <2>3. nodes' = add_child(nodes, dir, v) /\ dir \in DOMAIN nodes \ {0, 1} /\ dir # 2
    BY <2>1, <2>2 DEF Tree
  <2>4. /\ \A k \in DOMAIN nodes : nodes'[k].name = nodes[k].name /\ nodes'[k].dir = nodes[k].dir
        /\ nodes'[2].children = nodes[2].children
    BY <2>1, <2>2, <2>3, NamesStay
  <2>5. /\ nodes[2].children \in Seq(Nat)
        /\ \A i \in DOMAIN nodes[2].children : nodes[2].children[i] \in DOMAIN nodes
    BY <2>2 DEF Tree
  <2>6. controllers \in Seq(Controller)
    BY DEF QueueInv
  <2>7. DOMAIN controllers = DOMAIN nodes[2].children
    BY <2>2, <2>5, <2>6 DEF FoldersInv
  <2> QED BY <1>1, <2>2, <2>4, <2>5, <2>7 DEF FoldersInv, Starting
<1> QED BY <1>2, <1>3

\* What is listed, and the directories of the controllers.
ListInv == ScanInv /\ FoldersInv

LEMMA ListStep ==
  ASSUME QueueInv, machine \in Machines, ListInv, Next \/ UNCHANGED vars
  PROVE  ListInv'
<1>1. ScanInv /\ FoldersInv
  BY DEF ListInv
<1>2. CASE UNCHANGED vars
  <2>1. UNCHANGED <<nodes, machine, calls, host, pc, controllers>>
    BY <1>2 DEF vars, vfsVars, pciVars, uhciVars
  <2>2. ScanInv'
    <3>1. Devices(nodes') = Devices(nodes) /\ ListedOnce'
      BY <1>1, <2>1 DEF ScanInv, ListedOnce, Devices
    <3>2. \A F : ToCome(F) => ToCome(F)'
      BY <2>1 DEF ToCome, IsListed, Devices, HostsLeft, IsBridge, Ahead, Past, isMultiFunction, is_valid,
         getDeviceFunction
    <3> QED BY <1>1, <2>1, <3>1, <3>2 DEF ScanInv
  <2> QED BY <1>1, <2>1, <2>2, FoldersKept DEF ListInv
<1>3. CASE pc \in Starting /\ Next
  BY <1>1, <1>3, ScanStart, FoldersStart DEF ListInv
<1>4. CASE Scan
  BY <1>1, <1>4, ScanScan, FoldersScan DEF ListInv
<1>5. ASSUME nodes' = nodes, controllers' = controllers, pc \notin Preparing, pc' \notin Starting, pc' # "scan"
      PROVE  ListInv'
  <2>1. SameListed
    BY <1>5 DEF SameListed
  <2> QED BY <1>1, <1>5, <2>1, ScanKept, FoldersKept DEF ListInv
<1>6. CASE AddController
  <2>1. SameListed
    BY <1>1, <1>6, ControllerMade DEF SameDevices, SameListed
  <2>2. pc' \notin Starting /\ pc' # "scan"
    BY <1>6 DEF AddController, Starting
  <2> QED BY <1>1, <1>6, <2>1, <2>2, ScanKept, ControllerMade DEF ListInv
<1>7. CASE EndTransfer
  <2>1. pc = "wait" /\ pc' \notin Starting /\ pc' # "scan"
    BY <1>7 DEF EndTransfer, NextPort, OnWith, Starting
  <2>2. CASE ask = "SET_ADDR" /\ TransferStatus = "done"
    <3>1. (\E n : OneMore(n)) /\ FoldersInv'
      BY <1>1, <1>7, <2>2, UsbMade
    <3>2. SameListed
      BY <3>1 DEF OneMore, SameListed
    <3> QED BY <1>1, <2>1, <3>1, <3>2, ScanKept DEF ListInv
  <2>3. CASE ~(ask = "SET_ADDR" /\ TransferStatus = "done")
    <3>1. nodes' = nodes /\ controllers' = controllers
      BY <1>7, <2>3 DEF EndTransfer, vfsVars
    <3> QED BY <1>5, <2>1, <3>1 DEF Preparing
  <2> QED BY <2>2, <2>3
<1>8. CASE pc \notin Starting /\ Next /\ ~Scan /\ ~AddController /\ ~EndTransfer
  <2>1. ~InitializeHw /\ ~TakeInterrupt /\ ~TimerTick /\ ~KeyboardActs /\ ~KeyPressed
    BY <1>8 DEF InitializeHw, InitCpu, InitMemory, InitVfs, PIT_init, Ps2Start, init_keyboard,
       StartLine, FlushKeyboard, StartScan, TakeInterrupt, TimerTick, KeyboardActs, KeyPressed,
       Outside, Starting
  <2>2. pc \notin Preparing
    BY <1>8 DEF Starting, Preparing
  <2>3. CASE ServeEvent \/ InitDrivers
    <3>1. nodes' = nodes /\ controllers' = controllers /\ pc' \in {"idle", "setup", "halted"}
      BY <2>3 DEF ServeEvent, InitDrivers, vfsVars, busVars
    <3> QED BY <1>5, <2>2, <3>1 DEF Starting
  <2>4. CASE UsbHardware
    <3>1. UNCHANGED <<nodes, controllers, pc, machine, calls, host>>
      BY <2>4 DEF UsbHardware, Execute, Replug, vfsVars, pciVars
    <3>2. CASE pc # "scan"
      BY <1>5, <1>8, <2>2, <3>1, <3>2
    <3>3. CASE pc = "scan"
      <4>1. Devices(nodes') = Devices(nodes) /\ ListedOnce'
        BY <1>1, <3>1 DEF ScanInv, ListedOnce, Devices
      <4>2. \A F : ToCome(F) => ToCome(F)'
        BY <3>1 DEF ToCome, IsListed, Devices, HostsLeft, IsBridge, Ahead, Past, isMultiFunction, is_valid,
           getDeviceFunction
      <4>3. ScanInv'
        BY <1>1, <3>1, <4>1, <4>2 DEF ScanInv
      <4> QED BY <1>1, <3>1, <4>3, FoldersKept DEF ListInv
    <3> QED BY <3>2, <3>3
  <2>5. CASE SetupBar \/ InitFails \/ ProbePort \/ ConfirmPort \/ ResetPort \/ RetryReset \/ SendTransfer
             \/ KeepWaiting
    <3>1. nodes' = nodes /\ controllers' = controllers
      BY <2>5 DEF SetupBar, InitFails, ProbePort, ConfirmPort, ResetPort, RetryReset, SendTransfer,
         KeepWaiting, vfsVars
    <3>2. pc' \in Working \cup {"setup", "init", "idle", "halted", "fault"}
      BY <2>5 DEF SetupBar, InitFails, ProbePort, ConfirmPort, ResetPort, RetryReset, SendTransfer,
         KeepWaiting, LastPort, NextPort, ResetDone, insertToQueue, Working, Stopped
    <3> QED BY <1>5, <2>2, <3>1, <3>2 DEF Starting, Working, Stopped
  <2> QED BY <1>8, <2>1, <2>3, <2>4, <2>5 DEF Next, Kernel, DriverStep
<1> QED BY <1>2, <1>3, <1>4, <1>6, <1>7, <1>8

-----------------------------------------------------------------------------
(* The controllers and their ports.                                        *)

\* A controller is made once, for a device that does not wait and is not set up
\* again.
OnceInv ==
  /\ pc = "scan" => controllers = << >>
  /\ \A i, j \in DOMAIN controllers : controllers[i].at = controllers[j].at => i = j
  /\ \A i \in DOMAIN controllers, n \in Devices(nodes) :
        nodes[n].hint = "USBCTRL" /\ nodes[n].data = controllers[i].at =>
           ~Queued(events, n) /\ (pc \in {"setup", "init"} => n # node)

\* A step that makes no device of the bus and no controller.
LEMMA OnceKept ==
  ASSUME OnceInv, SameListed, pc' # "scan",
         DOMAIN controllers' = DOMAIN controllers,
         \A i \in DOMAIN controllers : controllers'[i].at = controllers[i].at,
         \A k \in Devices(nodes) : Queued(events', k) => Queued(events, k),
         pc' \in {"setup", "init"} => pc \in {"setup", "init"} /\ node' = node
  PROVE  OnceInv'
BY DEF OnceInv, SameListed

LEMMA OnceServe ==
  ASSUME QueueInv, OnceInv, ServeEvent
  PROVE  OnceInv'
<1>1. /\ pc = "idle" /\ events # << >> /\ events' = Tail(events) /\ nodes' = nodes
      /\ controllers' = controllers /\ (pc' = "idle" \/ (pc' = "setup" /\ node' = Head(events).node))
  BY DEF ServeEvent, pop_event
<1>2. Tree(nodes) /\ Queue(nodes, events)
  BY <1>1 DEF QueueInv, Preparing
<1>3. \A k \in Devices(nodes) : k \in Nat
  BY <1>2 DEF Tree, Devices
<1>4. \A k : Queued(events, k) <=> Queued(events', k) \/ k = Head(events).node
  BY <1>1, <1>2, <1>3, EventPopped
<1> QED BY <1>1, <1>4 DEF OnceInv

LEMMA OnceController ==
  ASSUME QueueInv, BarsInv, ListInv, OnceInv, AddController
  PROVE  OnceInv'
<1>1. /\ pc = "init" /\ pc' = "probe" /\ events' = events
      /\ \E c : c.at = this /\ controllers' = Append(controllers, c)
  BY DEF AddController
<1>2. controllers \in Seq(Controller) /\ node \in Devices(nodes) /\ nodes[node].hint = "USBCTRL"
  BY <1>1 DEF QueueInv, IsUhci
<1>3. ~Queued(events, node)
  BY <1>1 DEF BarsInv
<1>4. SameDevices
  BY ControllerMade DEF ListInv
<1>5. /\ Len(controllers) \in Nat /\ DOMAIN controllers = 1..Len(controllers)
      /\ DOMAIN controllers' = 1..Len(controllers) + 1
      /\ controllers'[Len(controllers) + 1].at = this
      /\ \A i \in 1..Len(controllers) : controllers'[i] = controllers[i]
  BY <1>1, <1>2
<1>6. \A i \in 1..Len(controllers) : controllers[i].at # this
  BY <1>1, <1>2, <1>5 DEF OnceInv, this
<1> DEFINE m == Len(controllers)
<1> HIDE DEF m
<1>7. \A i \in 1..m + 1 : i \in 1..m \/ i = m + 1
  BY <1>5 DEF m
<1>8. \A i, j \in DOMAIN controllers' : controllers'[i].at = controllers'[j].at => i = j
  BY <1>5, <1>6, <1>7 DEF OnceInv, m
<1>9. \A n \in Devices(nodes) : nodes[n].hint = "USBCTRL" /\ nodes[n].data = this => n = node
  BY <1>2 DEF this, ListInv, ScanInv, ListedOnce
<1>10. \A i \in DOMAIN controllers', n \in Devices(nodes') :
          nodes'[n].hint = "USBCTRL" /\ nodes'[n].data = controllers'[i].at => ~Queued(events', n)
  <2> SUFFICES ASSUME NEW i \in 1..m + 1, NEW n \in Devices(nodes), nodes[n].hint = "USBCTRL",
                      nodes[n].data = controllers'[i].at
               PROVE  ~Queued(events, n)
    BY <1>1, <1>4, <1>5 DEF m, SameDevices
  <2>1. CASE i \in 1..m
    BY <1>5, <2>1 DEF OnceInv, m
  <2>2. CASE i = m + 1
    BY <1>3, <1>5, <1>9, <2>2 DEF m
  <2> QED BY <1>7, <2>1, <2>2
<1> QED BY <1>1, <1>8, <1>10 DEF OnceInv

LEMMA OnceStep ==
  ASSUME QueueInv, BarsInv, ListInv, OnceInv, Next \/ UNCHANGED vars
  PROVE  OnceInv'
<1>1. CASE UNCHANGED vars
  BY <1>1 DEF vars, vfsVars, pciVars, uhciVars, OnceInv, Devices
<1>2. CASE pc' \in Starting \cup {"scan"} /\ controllers' = << >>
  <2>1. pc' \notin {"setup", "init"} /\ DOMAIN << >> = {}
    BY <1>2 DEF Starting
  <2> QED BY <1>2, <2>1 DEF OnceInv
<1>3. CASE pc \in Starting /\ Next
  <2>1. InitializeHw \/ TakeInterrupt \/ TimerTick \/ KeyboardActs \/ KeyPressed
    BY <1>3, WhileStarting
  <2>2. controllers = << >>
    BY <1>3 DEF ListInv, FoldersInv
  <2>3. CASE InitializeHw
    <3>1. controllers' = controllers
      BY <2>3 DEF InitializeHw, busVars
    <3>2. pc' \in Starting \cup {"scan"}
      BY <2>3 DEF InitializeHw, InitCpu, InitMemory, InitVfs, PIT_init, Ps2Start, init_keyboard,
         FlushKeyboard, StartScan, StartLine, Starting
    <3> QED BY <1>2, <2>2, <3>1, <3>2
  <2>4. CASE TakeInterrupt \/ TimerTick \/ KeyboardActs \/ KeyPressed
    <3>1. controllers' = controllers /\ pc' = pc
      BY <2>4 DEF TakeInterrupt, TimerTick, KeyboardActs, KeyPressed, Outside, uhciVars
    <3> QED BY <1>2, <1>3, <2>2, <3>1
  <2> QED BY <2>1, <2>3, <2>4
<1>4. CASE Scan
  <2>1. pc = "scan" /\ pc' = "scan" /\ controllers' = controllers
    BY <1>4 DEF Scan, uhciVars
  <2>2. controllers' = << >>
    BY <2>1 DEF OnceInv
  <2> QED BY <1>2, <2>1, <2>2
<1>5. CASE ServeEvent
  BY <1>5, OnceServe
<1>6. CASE AddController
  BY <1>6, OnceController
<1>7. CASE EndTransfer
  <2>1. pc = "wait" /\ pc' \in {"probe", "reset", "send"} \cup Stopped
    BY <1>7 DEF EndTransfer, NextPort, OnWith, Stopped
  <2>2. CASE ask = "SET_ADDR" /\ TransferStatus = "done"
    <3>1. FoldersInv
      BY DEF ListInv
    <3>2. SameListed
      BY <1>7, <2>2, <3>1, UsbMade DEF OneMore, SameListed
    <3>3. /\ \A i \in DOMAIN controllers' : i \in DOMAIN controllers /\ controllers'[i].at = controllers[i].at
          /\ DOMAIN controllers' = DOMAIN controllers
          /\ \A k \in Devices(nodes) : Queued(events', k) => Queued(events, k)
      BY <1>7, <2>2, <3>1, UsbMade
    <3>4. \A i \in DOMAIN controllers : controllers'[i].at = controllers[i].at
      BY <3>3
    <3> QED BY <2>1, <3>2, <3>3, <3>4, OnceKept DEF Stopped
  <2>3. CASE ~(ask = "SET_ADDR" /\ TransferStatus = "done")
    <3>1. UNCHANGED <<nodes, events, controllers>>
      BY <1>7, <2>3 DEF EndTransfer, vfsVars
    <3>2. SameListed
      BY <3>1 DEF SameListed
    <3> QED BY <2>1, <3>1, <3>2, OnceKept DEF Stopped
  <2> QED BY <2>2, <2>3
<1>8. CASE pc \notin Starting /\ Next /\ ~Scan /\ ~ServeEvent /\ ~AddController /\ ~EndTransfer
  <2>1. ~InitializeHw /\ ~TakeInterrupt /\ ~TimerTick /\ ~KeyboardActs /\ ~KeyPressed
    BY <1>8 DEF InitializeHw, InitCpu, InitMemory, InitVfs, PIT_init, Ps2Start, init_keyboard,
       StartLine, FlushKeyboard, StartScan, TakeInterrupt, TimerTick, KeyboardActs, KeyPressed,
       Outside, Starting
  <2>2. CASE UsbHardware
    <3>1. UNCHANGED <<nodes, events, controllers, pc, node>>
      BY <2>2 DEF UsbHardware, Execute, Replug, vfsVars
    <3> QED BY <3>1 DEF OnceInv, Devices
  <2>3. CASE InitDrivers \/ SetupBar \/ InitFails \/ ProbePort \/ ConfirmPort \/ ResetPort \/ RetryReset
             \/ SendTransfer \/ KeepWaiting
    <3>1. UNCHANGED <<nodes, events, controllers, node>>
      BY <2>3 DEF InitDrivers, SetupBar, InitFails, ProbePort, ConfirmPort, ResetPort, RetryReset,
         SendTransfer, KeepWaiting, vfsVars, busVars
    <3>2. pc' # "scan" /\ (pc' \in {"setup", "init"} => pc \in {"setup", "init"})
      BY <2>3 DEF InitDrivers, SetupBar, InitFails, ProbePort, ConfirmPort, ResetPort, RetryReset,
         SendTransfer, KeepWaiting, LastPort, NextPort, ResetDone, insertToQueue
    <3>3. SameListed
      BY <3>1 DEF SameListed
    <3> QED BY <3>1, <3>2, <3>3, OnceKept
  <2> QED BY <1>8, <2>1, <2>2, <2>3 DEF Next, Kernel, DriverStep
<1> QED BY <1>1, <1>3, <1>4, <1>5, <1>6, <1>7, <1>8

Plugged(c) == 0 \in machine[c].plugged
IsOn(c, p) == port[c][p].enabled
Controlled == {controllers[i].at : i \in DOMAIN controllers}
HasUsb(c) == \E n \in UsbNodes : nodes[n].data.at = c

\* The driver is at the first port of the controller.
Busy(c) == pc \in Working /\ c = this /\ step = 0

PortFields == {"connected", "changed", "enabled"}
XferFields == {"kind", "address", "value", "td", "polls"}

\* The registers are there and tell which plugs are in.
Wired ==
  /\ DOMAIN port = Uhcis /\ DOMAIN address = Uhcis /\ DOMAIN control = Uhcis
  /\ \A c \in Uhcis :
       /\ DOMAIN port[c] = 0..Ports - 1 /\ DOMAIN address[c] = 0..Ports - 1
       /\ \A p \in 0..Ports - 1 : /\ DOMAIN port[c][p] = PortFields
                                  /\ port[c][p].connected <=> p \in machine[c].plugged

\* A transfer is linked only while the driver waits for it.
Linked ==
  /\ pc # "fault"
  /\ pc # "wait" => xfer.kind = "none"
  /\ \A c \in Uhcis : control[c] => pc = "wait" /\ c = this

\* A plug in the first port keeps the others off; it is on, and listed unless a
\* transfer failed, once the driver is past it.
PortsAt(c) ==
  /\ Plugged(c) => \A p \in 1..Ports - 1 : ~IsOn(c, p)
  /\ ~Plugged(c) => ~IsOn(c, 0)
  /\ Plugged(c) /\ ~Busy(c) =>
       /\ IsOn(c, 0)
       /\ <<c, 0>> \in failed \/ \E n \in UsbNodes : nodes[n].data.at = c /\ nodes[n].data.port = 0

\* A device that is listed: the one in the first port answers to its address.
Sound(n) ==
  LET d == nodes[n].data
  IN  /\ d.at \in Controlled /\ Plugged(d.at) /\ ~Busy(d.at) /\ IsOn(d.at, 0)
      /\ d.address = 1 /\ address[d.at][0] = 1
      /\ d.port = 0 \/ <<d.at, 0>> \in failed

\* Which controller the driver is at; its first device is not listed yet, or was.
AtController ==
  /\ node \in Devices(nodes) /\ this = Last(controllers).at
  /\ ~HasUsb(this) => Last(controllers).addressCount = 1

\* How far the driver is with a port.
AtStep ==
  /\ step \in 0..Ports /\ (pc # "probe" => step < Ports)
  /\ ~Plugged(this) => pc \notin {"send", "wait"} /\ (pc # "probe" => ask = "GET_DESC")
  /\ pc \in {"present", "retry"} => ~port[this][step].changed
  /\ Plugged(this) /\ step = 0 =>
       /\ pc = "retry" => (try = 0 /\ ~IsOn(this, 0)) \/ (try = 1 /\ IsOn(this, 0))
       /\ pc \in {"send", "wait"} => IsOn(this, 0)

\* The transfer the driver waits for: nobody answers to a second device, and the
\* first takes its address.
Asked ==
  /\ DOMAIN xfer = XferFields /\ DOMAIN xfer.td = 1..Packets(ask)
  /\ xfer.kind = ask /\ xfer.address = 0 /\ xfer.value = Last(controllers).addressCount
  /\ HasUsb(this) => \A i \in DOMAIN xfer.td : xfer.td[i] = "active"
  /\ ask = "SET_ADDR" /\ xfer.td[2] = "done" => address[this][0] = xfer.value

UsbAtRest ==
  /\ Wired /\ Linked
  /\ Controlled \subseteq Uhcis
  /\ \A c \in Uhcis \ Controlled, p \in 0..Ports - 1 : ~IsOn(c, p)
  /\ \A c \in Controlled : PortsAt(c)
  /\ \A n \in UsbNodes : Sound(n)
  /\ pc \in Working => AtController /\ AtStep
  /\ pc = "wait" => Asked

\* This is so as long as no plug is pulled.
UsbInv == replugged \in Nat /\ (replugged = 0 => UsbAtRest)

LEMMA OnceInit == Init => OnceInv
<1> SUFFICES ASSUME Init PROVE OnceInv
  OBVIOUS
<1>1. pc = "boot" /\ controllers = << >> /\ DOMAIN << >> = {}
  BY DEF Init, UhciInit
<1> QED BY <1>1 DEF OnceInv

LEMMA UsbInit == Init => UsbInv
<1> SUFFICES ASSUME Init PROVE UsbInv
  OBVIOUS
<1>1. /\ pc = "boot" /\ controllers = << >> /\ DOMAIN << >> = {} /\ xfer = NoXfer /\ replugged = 0
      /\ nodes = vfs_init
      /\ port = [c \in Uhcis |-> [p \in 0..Ports - 1 |-> Register(c, p)]]
      /\ address = [c \in Uhcis |-> [p \in 0..Ports - 1 |-> 0]]
      /\ control = [c \in Uhcis |-> FALSE]
  BY DEF Init, UhciInit
<1>2. UsbNodes = {} /\ Controlled = {}
  BY <1>1, BootTreeIs DEF UsbNodes, Controlled
<1>3. \A c, p : Register(c, p) = [connected |-> p \in machine[c].plugged, changed |-> p \in machine[c].plugged,
                                  enabled |-> FALSE]
  BY DEF Register
<1>4. \A c, p : /\ DOMAIN Register(c, p) = PortFields
                /\ (Register(c, p).connected <=> p \in machine[c].plugged) /\ ~Register(c, p).enabled
  BY <1>3 DEF PortFields
<1>5. \A c \in Uhcis, p \in 0..Ports - 1 : port[c][p] = Register(c, p)
  BY <1>1
<1>6. Wired
  BY <1>1, <1>4, <1>5 DEF Wired
<1>7. Linked
  BY <1>1 DEF Linked, NoXfer
<1>8. \A c \in Uhcis \ Controlled, p \in 0..Ports - 1 : ~IsOn(c, p)
  BY <1>4, <1>5 DEF IsOn
<1> QED BY <1>1, <1>2, <1>6, <1>7, <1>8 DEF UsbInv, UsbAtRest, Working, Stopped

\* The devices on the ports are those that were listed.
SameUsb ==
  /\ UsbNodes' = UsbNodes
  /\ \A n \in UsbNodes : nodes'[n].data = nodes[n].data

LEMMA DevicesUsb ==
  ASSUME SameDevices
  PROVE  SameUsb
BY DEF SameDevices, SameUsb, UsbNodes

\* A step that has nothing to do with a port.
LEMMA UsbKept ==
  ASSUME UsbInv, SameUsb, pc \notin Working, pc' \notin Working, pc' # "fault",
         UNCHANGED <<machine, port, address, control, controllers, replugged, failed, xfer>>
  PROVE  UsbInv'
<1> SUFFICES ASSUME replugged = 0 PROVE UsbAtRest'
  BY DEF UsbInv
<1>1. UsbAtRest
  BY DEF UsbInv
<1>2. pc # "wait" /\ pc' # "wait"
  BY DEF Working, Stopped
<1>3. /\ Controlled' = Controlled /\ Uhcis' = Uhcis
      /\ \A c : (Plugged(c)' <=> Plugged(c)) /\ ~Busy(c) /\ ~Busy(c)'
      /\ \A c, p : IsOn(c, p)' <=> IsOn(c, p)
  BY DEF Controlled, Uhcis, Plugged, Busy, IsOn
<1>4. Wired' /\ Linked'
  BY <1>1, <1>2, <1>3 DEF UsbAtRest, Wired, Linked
<1>5. \A c \in Controlled : PortsAt(c) => PortsAt(c)'
  BY <1>3 DEF PortsAt, SameUsb
<1>6. \A n \in UsbNodes : Sound(n) => Sound(n)'
  BY <1>3 DEF Sound, SameUsb
<1>7. UsbNodes' = UsbNodes
  BY DEF SameUsb
<1>8. \A c \in Controlled : PortsAt(c)'
  BY <1>1, <1>5 DEF UsbAtRest
<1>9. \A n \in UsbNodes : Sound(n)'
  BY <1>1, <1>6 DEF UsbAtRest
<1>10. Controlled \subseteq Uhcis /\ \A c \in Uhcis \ Controlled, p \in 0..Ports - 1 : ~IsOn(c, p)
  BY <1>1 DEF UsbAtRest
<1> QED BY <1>2, <1>3, <1>4, <1>7, <1>8, <1>9, <1>10 DEF UsbAtRest

-----------------------------------------------------------------------------
(* A step at a port.                                                       *)

\* What is so of the controller the driver is at.
AtThis ==
  /\ this \in Controlled /\ this \in Uhcis /\ PortsAt(this) /\ AtController /\ AtStep
  /\ Ports \in Nat /\ 0 \in 0..Ports - 1
  /\ \A p \in 1..Ports - 1 : p \in 0..Ports - 1 /\ p # 0
  /\ HasUsb(this) => Plugged(this) /\ ~Busy(this) /\ IsOn(this, 0) /\ address[this][0] = 1

LEMMA WorkIsAtThis ==
  ASSUME QueueInv, UsbAtRest, pc \in Working
  PROVE  AtThis
<1>1. AtController /\ AtStep
  BY DEF UsbAtRest
<1>2. controllers # << >> /\ controllers \in Seq(Controller)
  BY DEF QueueInv
<1>3. Len(controllers) \in DOMAIN controllers /\ Last(controllers) = controllers[Len(controllers)]
  BY <1>2, TopOff
<1>4. this \in Controlled
  BY <1>1, <1>3 DEF AtController, Controlled
<1>5. this \in Uhcis /\ PortsAt(this)
  BY <1>4 DEF UsbAtRest
<1>6. HasUsb(this) => Plugged(this) /\ ~Busy(this) /\ IsOn(this, 0) /\ address[this][0] = 1
  BY DEF HasUsb, UsbAtRest, Sound
<1>7. Ports \in Nat /\ 0 \in 0..Ports - 1 /\ \A p \in 1..Ports - 1 : p \in 0..Ports - 1 /\ p # 0
  BY UsbAssumption
<1> QED BY <1>1, <1>4, <1>5, <1>6, <1>7 DEF AtThis

\* A step of the driver or of a controller at a port of this controller.
PortStep ==
  /\ UNCHANGED <<nodes, machine, node, controllers, failed>>
  /\ \A c \in Uhcis : c # this => /\ address'[c] = address[c]
                                  /\ \A p \in 0..Ports - 1 : IsOn(c, p)' <=> IsOn(c, p)
  /\ Plugged(this) => \A p \in 1..Ports - 1 : ~IsOn(this, p)'
  /\ ~Plugged(this) => ~IsOn(this, 0)'
  /\ Plugged(this) /\ ~Busy(this)' => ~Busy(this) /\ IsOn(this, 0)'
  /\ HasUsb(this) => ~Busy(this)' /\ IsOn(this, 0)' /\ address'[this][0] = address[this][0]

LEMMA RestAtPort ==
  ASSUME QueueInv, UsbAtRest, pc \in Working, PortStep, Wired', Linked',
         pc' \in Working => AtStep', pc' = "wait" => Asked'
  PROVE  UsbAtRest'
<1>1. AtThis
  BY WorkIsAtThis
<1>2. UNCHANGED <<nodes, machine, node, controllers, failed>>
  BY DEF PortStep
<1>3. /\ this' = this /\ Controlled' = Controlled /\ Uhcis' = Uhcis /\ UsbNodes' = UsbNodes
      /\ \A c : (Plugged(c)' <=> Plugged(c)) /\ (HasUsb(c)' <=> HasUsb(c))
      /\ \A c : c # this => ~Busy(c) /\ ~Busy(c)'
  BY <1>2 DEF this, Controlled, Uhcis, UsbNodes, Devices, Plugged, HasUsb, Busy
<1>4. AtController'
  BY <1>1, <1>2, <1>3 DEF AtThis, AtController
<1>5. \A c \in Controlled : PortsAt(c)'
  <2> SUFFICES ASSUME NEW c \in Controlled PROVE PortsAt(c)'
    OBVIOUS
  <2>1. PortsAt(c) /\ c \in Uhcis
    BY DEF UsbAtRest
  <2>2. CASE c # this
    <3>1. /\ ~Busy(c) /\ ~Busy(c)' /\ (Plugged(c)' <=> Plugged(c))
          /\ \A p \in 0..Ports - 1 : IsOn(c, p)' <=> IsOn(c, p)
      BY <1>3, <2>1, <2>2 DEF PortStep
    <3>2. \A p \in 1..Ports - 1 : IsOn(c, p)' <=> IsOn(c, p)
      BY <1>1, <3>1 DEF AtThis
    <3>3. IsOn(c, 0)' <=> IsOn(c, 0)
      BY <1>1, <3>1 DEF AtThis
    <3> QED BY <1>2, <1>3, <2>1, <3>1, <3>2, <3>3 DEF PortsAt
  <2>3. CASE c = this
    <3>1. /\ Plugged(c) => \A p \in 1..Ports - 1 : ~IsOn(c, p)'
          /\ ~Plugged(c) => ~IsOn(c, 0)'
          /\ Plugged(c) /\ ~Busy(c)' => ~Busy(c) /\ IsOn(c, 0)'
      <4>1. c = this /\ c = this'
        BY <1>3, <2>3
      <4> QED BY <4>1 DEF PortStep, IsOn, Busy
    <3> QED BY <1>2, <1>3, <2>1, <3>1 DEF PortsAt
  <2> QED BY <2>2, <2>3
<1>6. \A n \in UsbNodes : Sound(n)'
  <2> SUFFICES ASSUME NEW n \in UsbNodes PROVE Sound(n)'
    OBVIOUS
  <2> DEFINE c == nodes[n].data.at
  <2>1. Sound(n) /\ c \in Controlled /\ c \in Uhcis
    BY DEF UsbAtRest, Sound
  <2>2. ~Busy(c)' /\ IsOn(c, 0)' /\ address'[c][0] = address[c][0]
    <3>1. CASE c # this
      BY <1>1, <1>3, <2>1, <3>1 DEF PortStep, AtThis, Sound
    <3>2. CASE c = this
      <4>1. HasUsb(this)
        BY <3>2 DEF HasUsb
      <4>2. c = this /\ c = this'
        BY <1>3, <3>2
      <4> QED BY <4>1, <4>2 DEF PortStep, IsOn, Busy
    <3> QED BY <3>1, <3>2
  <2> QED BY <1>2, <1>3, <2>1, <2>2 DEF Sound
<1>7. Controlled \subseteq Uhcis /\ \A c \in Uhcis \ Controlled, p \in 0..Ports - 1 : ~IsOn(c, p)'
  BY <1>1 DEF UsbAtRest, PortStep, AtThis
<1> QED BY <1>3, <1>4, <1>5, <1>6, <1>7 DEF UsbAtRest

\* What a write to a register of this controller's changes.
Written(p, r) ==
  /\ p \in 0..Ports - 1 /\ DOMAIN r = PortFields /\ (r.connected <=> port[this][p].connected)
  /\ port' = [port EXCEPT ![this][p] = r]

LEMMA WrittenIs ==
  ASSUME UsbAtRest, AtThis, NEW p, NEW r, Written(p, r),
         UNCHANGED <<nodes, node, machine, control>>,
         DOMAIN address' = Uhcis, \A c \in Uhcis : DOMAIN address'[c] = 0..Ports - 1
  PROVE  /\ Wired' /\ this' = this
         /\ port'[this][p] = r
         /\ \A c, q : c \in Uhcis /\ q \in 0..Ports - 1 /\ (c # this \/ q # p) => port'[c][q] = port[c][q]
         /\ \A c, q : c \in Uhcis /\ q \in 0..Ports - 1 /\ (c # this \/ q # p) => (IsOn(c, q)' <=> IsOn(c, q))
<1>1. this \in Uhcis /\ Wired
  BY DEF AtThis, UsbAtRest
<1>2. /\ DOMAIN port' = Uhcis /\ Uhcis' = Uhcis
      /\ \A d \in Uhcis : DOMAIN port'[d] = 0..Ports - 1
      /\ \A d \in Uhcis, q \in 0..Ports - 1 :
           /\ DOMAIN port'[d][q] = PortFields
           /\ port'[d][q].connected <=> q \in machine[d].plugged
      /\ port'[this][p] = r
      /\ \A d \in Uhcis, q \in 0..Ports - 1 : d # this \/ q # p => port'[d][q] = port[d][q]
  <2> PICK c : c = this
    OBVIOUS
  <2>1. /\ c \in Uhcis /\ p \in 0..Ports - 1 /\ DOMAIN r = PortFields
        /\ r.connected <=> port[c][p].connected
        /\ port' = [port EXCEPT ![c][p] = r] /\ machine' = machine
    BY <1>1 DEF Written
  <2>2. /\ DOMAIN port' = Uhcis /\ Uhcis' = Uhcis
        /\ \A d \in Uhcis : DOMAIN port'[d] = 0..Ports - 1
        /\ \A d \in Uhcis, q \in 0..Ports - 1 :
             /\ DOMAIN port'[d][q] = PortFields
             /\ port'[d][q].connected <=> q \in machine[d].plugged
        /\ port'[c][p] = r
        /\ \A d \in Uhcis, q \in 0..Ports - 1 : d # c \/ q # p => port'[d][q] = port[d][q]
    <3>1. /\ DOMAIN port = Uhcis
          /\ \A d \in Uhcis : /\ DOMAIN port[d] = 0..Ports - 1
                              /\ \A q \in 0..Ports - 1 : /\ DOMAIN port[d][q] = PortFields
                                                         /\ port[d][q].connected <=> q \in machine[d].plugged
      BY <1>1 DEF Wired
    <3>2. DOMAIN port' = Uhcis /\ Uhcis' = Uhcis
      BY <2>1, <3>1 DEF Uhcis
    <3>3. \A d \in Uhcis : DOMAIN port'[d] = 0..Ports - 1 /\ (d # c => port'[d] = port[d])
      BY <2>1, <3>1
    <3>4. port'[c] = [port[c] EXCEPT ![p] = r]
      BY <2>1, <3>1
    <3>5. port'[c][p] = r /\ \A q \in 0..Ports - 1 : q # p => port'[c][q] = port[c][q]
      BY <2>1, <3>1, <3>4
    <3>6. \A d \in Uhcis, q \in 0..Ports - 1 : d # c \/ q # p => port'[d][q] = port[d][q]
      BY <3>3, <3>5
    <3>7. \A d \in Uhcis, q \in 0..Ports - 1 : /\ DOMAIN port'[d][q] = PortFields
                                               /\ port'[d][q].connected <=> q \in machine[d].plugged
      <4> SUFFICES ASSUME NEW d \in Uhcis, NEW q \in 0..Ports - 1
                   PROVE  /\ DOMAIN port'[d][q] = PortFields
                          /\ port'[d][q].connected <=> q \in machine[d].plugged
        OBVIOUS
      <4>1. CASE d = c /\ q = p
        BY <2>1, <3>1, <3>5, <4>1
      <4>2. CASE d # c \/ q # p
        BY <3>1, <3>6, <4>2
      <4> QED BY <4>1, <4>2
    <3> QED BY <3>2, <3>3, <3>5, <3>6, <3>7
  <2> QED BY <2>2
<1>3. Wired'
  <2>1. DOMAIN control' = Uhcis
    BY <1>1 DEF Wired
  <2> QED BY <1>2, <2>1 DEF Wired
<1>4. this' = this
  BY DEF this
<1> QED BY <1>2, <1>3, <1>4 DEF IsOn

\* The driver does not wait for a transfer, before or after.
LEMMA StillUnlinked ==
  ASSUME Linked, pc # "wait", pc' \notin {"wait", "fault"}, UNCHANGED <<machine, control, xfer>>
  PROVE  Linked'
BY DEF Linked, Uhcis

\* A write that leaves a port as it is, or turns it off.
LEMMA UsbProbe ==
  ASSUME QueueInv, UsbAtRest, ProbePort
  PROVE  UsbAtRest'
<1>1. /\ pc = "probe" /\ UNCHANGED <<nodes, machine, node, controllers, failed, address, control, xfer>>
  BY DEF ProbePort, vfsVars, pciVars
<1>2. AtThis /\ pc \in Working
  BY <1>1, WorkIsAtThis DEF Working, Stopped
<1>3. AtStep /\ PortsAt(this)
  BY <1>2 DEF AtThis
<1>4. CASE step < Ports
  <2>1. /\ pc' = "present" /\ ask' = "GET_DESC" /\ step' = step
        /\ port' = [port EXCEPT ![this][step].changed = FALSE]
    BY <1>4 DEF ProbePort
  <2> PICK r : r = [port[this][step] EXCEPT !.changed = FALSE]
    OBVIOUS
  <2>2. step \in 0..Ports - 1 /\ this \in Uhcis
    BY <1>2, <1>3, <1>4 DEF AtStep, AtThis
  <2>3. DOMAIN port[this][step] = PortFields
    BY <2>2 DEF UsbAtRest, Wired
  <2>4. /\ DOMAIN r = PortFields /\ (r.connected <=> port[this][step].connected)
        /\ r.enabled = port[this][step].enabled /\ r.changed = FALSE
    BY <2>3 DEF PortFields
  <2>5. Written(step, r)
    BY <2>1, <2>2, <2>4 DEF Written
  <2>6. DOMAIN address' = Uhcis /\ \A c \in Uhcis : DOMAIN address'[c] = 0..Ports - 1
    BY <1>1 DEF UsbAtRest, Wired
  <2>7. /\ Wired' /\ this' = this /\ port'[this][step] = r
        /\ \A c, q : c \in Uhcis /\ q \in 0..Ports - 1 /\ (c # this \/ q # step) => (IsOn(c, q)' <=> IsOn(c, q))
    BY <1>1, <1>2, <2>5, <2>6, WrittenIs
  <2>8. \A c \in Uhcis, q \in 0..Ports - 1 : IsOn(c, q)' <=> IsOn(c, q)
    BY <2>4, <2>7 DEF IsOn
  <2>9. \A q \in 0..Ports - 1 : IsOn(this, q)' <=> IsOn(this, q)
    BY <2>2, <2>7, <2>8 DEF IsOn
  <2>10. Linked'
    BY <1>1, <2>1, StillUnlinked DEF UsbAtRest
  <2>11. AtStep'
    BY <1>1, <1>3, <1>4, <2>1, <2>4, <2>7 DEF AtStep, Plugged
  <2>12. PortStep
    BY <1>1, <1>2, <1>3, <2>1, <2>7, <2>8, <2>9 DEF PortStep, PortsAt, AtThis, Busy, Working, Stopped
  <2> QED BY <1>2, <2>1, <2>7, <2>10, <2>11, <2>12, RestAtPort
<1>5. CASE ~(step < Ports)
  <2>1. pc' = "idle" /\ UNCHANGED <<step, port>>
    BY <1>5 DEF ProbePort, LastPort
  <2>2. step # 0
    BY <1>3, <1>5, UsbAssumption DEF AtStep
  <2>3. this' = this /\ \A c, q : IsOn(c, q)' <=> IsOn(c, q)
    BY <1>1, <2>1 DEF this, IsOn
  <2>4. Linked'
    BY <1>1, <2>1, StillUnlinked DEF UsbAtRest
  <2>5. Wired'
    BY <1>1, <2>1 DEF UsbAtRest, Wired, Uhcis
  <2>6. \A q : IsOn(this, q)' <=> IsOn(this, q)
    BY <2>1, <2>3 DEF IsOn
  <2>7. PortStep
    BY <1>1, <1>2, <1>3, <2>1, <2>2, <2>3, <2>6 DEF PortStep, PortsAt, AtThis, Busy, Working, Stopped
  <2> QED BY <1>2, <2>1, <2>4, <2>5, <2>7, RestAtPort DEF Working, Stopped
<1> QED BY <1>4, <1>5

LEMMA UsbConfirm ==
  ASSUME QueueInv, UsbAtRest, ConfirmPort
  PROVE  UsbAtRest'
<1>1. /\ pc = "present" /\ UNCHANGED <<nodes, machine, node, controllers, failed, port, address, control, xfer>>
  BY DEF ConfirmPort, vfsVars, pciVars
<1>2. AtThis /\ pc \in Working
  BY <1>1, WorkIsAtThis DEF Working, Stopped
<1>3. AtStep /\ PortsAt(this)
  BY <1>2 DEF AtThis
<1>4. pc' = "reset" /\ UNCHANGED <<step, try, ask>>
  BY <1>1, <1>3 DEF AtStep, ConfirmPort
<1>5. this' = this /\ \A c, q : IsOn(c, q)' <=> IsOn(c, q)
  BY <1>1 DEF this, IsOn
<1>6. Linked' /\ Wired'
  BY <1>1, <1>4, StillUnlinked DEF UsbAtRest, Wired, Uhcis
<1>7. \A q : IsOn(this, q)' <=> IsOn(this, q)
  BY <1>1, <1>5 DEF IsOn
<1>8. AtStep'
  BY <1>1, <1>3, <1>4, <1>5 DEF AtStep, Plugged
<1>9. PortStep
  BY <1>1, <1>2, <1>3, <1>4, <1>5, <1>7 DEF PortStep, PortsAt, AtThis, Busy, Working, Stopped
<1> QED BY <1>2, <1>4, <1>6, <1>8, <1>9, RestAtPort

LEMMA UsbReset ==
  ASSUME QueueInv, UsbAtRest, ResetPort
  PROVE  UsbAtRest'
<1>1. /\ pc = "reset" /\ pc' = "retry" /\ try' = 0
      /\ UNCHANGED <<nodes, machine, node, controllers, failed, control, xfer, step, ask>>
      /\ port' = [port EXCEPT ![this][step].enabled = FALSE, ![this][step].changed = FALSE]
      /\ address' = [address EXCEPT ![this][step] = 0]
  BY DEF ResetPort, vfsVars, pciVars
<1>2. AtThis /\ pc \in Working
  BY <1>1, WorkIsAtThis DEF Working, Stopped
<1>3. AtStep /\ PortsAt(this)
  BY <1>2 DEF AtThis
<1>4. step \in 0..Ports - 1 /\ this \in Uhcis
  BY <1>1, <1>2, <1>3 DEF AtStep, AtThis
<1> PICK r : r = [port[this][step] EXCEPT !.enabled = FALSE, !.changed = FALSE]
  OBVIOUS
<1>5. /\ DOMAIN port = Uhcis /\ DOMAIN port[this] = 0..Ports - 1 /\ DOMAIN port[this][step] = PortFields
      /\ DOMAIN address = Uhcis /\ \A c \in Uhcis : DOMAIN address[c] = 0..Ports - 1
  BY <1>4 DEF UsbAtRest, Wired
<1>6. /\ DOMAIN r = PortFields /\ (r.connected <=> port[this][step].connected)
      /\ r.enabled = FALSE /\ r.changed = FALSE
  BY <1>5 DEF PortFields
<1>7. Written(step, r)
  <2>1. port' = [port EXCEPT ![this][step] = r]
    BY <1>1, <1>4, <1>5
  <2> QED BY <1>4, <1>6, <2>1 DEF Written
<1>8. /\ DOMAIN address' = Uhcis /\ \A c \in Uhcis : DOMAIN address'[c] = 0..Ports - 1
      /\ \A c \in Uhcis : c # this => address'[c] = address[c]
      /\ step # 0 => address'[this][0] = address[this][0]
  BY <1>1, <1>4, <1>5
<1>9. /\ Wired' /\ this' = this /\ port'[this][step] = r
      /\ \A c, q : c \in Uhcis /\ q \in 0..Ports - 1 /\ (c # this \/ q # step) => (IsOn(c, q)' <=> IsOn(c, q))
  <2>1. UNCHANGED <<nodes, node, machine, control>>
    BY <1>1
  <2>2. DOMAIN address' = Uhcis /\ \A c \in Uhcis : DOMAIN address'[c] = 0..Ports - 1
    BY <1>8
  <2> QED BY <1>2, <1>7, <2>1, <2>2, WrittenIs
<1>10. \A q \in 0..Ports - 1 : IsOn(this, q)' => q # step /\ IsOn(this, q)
  BY <1>4, <1>6, <1>9 DEF IsOn
<1>11. step # 0 /\ IsOn(this, 0) => IsOn(this, 0)'
  BY <1>2, <1>4, <1>9 DEF IsOn, AtThis
<1>12. Linked'
  BY <1>1, StillUnlinked DEF UsbAtRest
<1>13. AtStep'
  BY <1>1, <1>3, <1>6, <1>9, <1>10 DEF AtStep, Plugged, IsOn
<1>14. PortStep
  <2>1. \A c \in Uhcis : c # this => /\ address'[c] = address[c]
                                     /\ \A p \in 0..Ports - 1 : IsOn(c, p)' <=> IsOn(c, p)
    BY <1>8, <1>9
  <2>2. Plugged(this) => \A p \in 1..Ports - 1 : ~IsOn(this, p)'
    BY <1>2, <1>3, <1>10 DEF PortsAt, AtThis
  <2>3. ~Plugged(this) => ~IsOn(this, 0)'
    BY <1>2, <1>3, <1>10 DEF PortsAt, AtThis
  <2>4. Busy(this)' <=> Busy(this)
    BY <1>1, <1>9 DEF Busy, Working, Stopped
  <2>5. ~Busy(this) => step # 0
    BY <1>2 DEF Busy
  <2>6. Plugged(this) /\ ~Busy(this)' => ~Busy(this) /\ IsOn(this, 0)'
    BY <1>3, <1>11, <2>4, <2>5 DEF PortsAt
  <2>7. HasUsb(this) => ~Busy(this)' /\ IsOn(this, 0)' /\ address'[this][0] = address[this][0]
    BY <1>2, <1>8, <1>11, <2>4, <2>5 DEF AtThis
  <2> QED BY <1>1, <2>1, <2>2, <2>3, <2>6, <2>7 DEF PortStep
<1> QED BY <1>1, <1>2, <1>9, <1>12, <1>13, <1>14, RestAtPort

\* The reset of the first port, with a plug in it, succeeds at its second look,
\* and at another port after it the first one answers.
LEMMA UsbRetry ==
  ASSUME QueueInv, UsbAtRest, RetryReset
  PROVE  UsbAtRest'
<1>1. /\ pc = "retry" /\ UNCHANGED <<nodes, machine, node, controllers, failed, address, control, xfer>>
  BY DEF RetryReset, vfsVars, pciVars
<1>2. AtThis /\ pc \in Working
  BY <1>1, WorkIsAtThis DEF Working, Stopped
<1>3. AtStep /\ PortsAt(this)
  BY <1>2 DEF AtThis
<1>4. step \in 0..Ports - 1 /\ this \in Uhcis
  BY <1>1, <1>2, <1>3 DEF AtStep, AtThis
<1>5. /\ DOMAIN port[this][step] = PortFields
      /\ step = 0 => (port[this][step].connected <=> Plugged(this))
      /\ DOMAIN address' = Uhcis /\ \A c \in Uhcis : DOMAIN address'[c] = 0..Ports - 1
  BY <1>1, <1>4 DEF UsbAtRest, Wired, Plugged
<1>6. Tries \in Nat /\ Tries > 1
  BY UsbAssumption
<1>7. /\ ~port[this][step].changed
      /\ Plugged(this) /\ step = 0 => (try = 0 /\ ~IsOn(this, 0)) \/ (try = 1 /\ IsOn(this, 0))
      /\ ~Plugged(this) => ask = "GET_DESC"
  BY <1>1, <1>3 DEF AtStep
<1>8. Plugged(this) /\ step = 0 => try # Tries
  BY <1>6, <1>7
<1>9. step # 0 /\ Plugged(this) => IsOn(this, 0) /\ ~Busy(this)
  BY <1>3 DEF PortsAt, Busy
<1>10. IsOn(this, 0) => Plugged(this)
  BY <1>3 DEF PortsAt
<1>11. CASE try = Tries \/ ~port[this][step].connected
  <2>1. ResetDone(FALSE) /\ port' = port
    BY <1>11 DEF RetryReset
  <2>2. Plugged(this) => step # 0
    BY <1>5, <1>8, <1>11
  <2>3. this' = this /\ \A c, q : IsOn(c, q)' <=> IsOn(c, q)
    BY <1>1, <2>1 DEF this, IsOn
  <2>4. \A q : IsOn(this, q)' <=> IsOn(this, q)
    BY <2>1, <2>3 DEF IsOn
  <2>5. Wired'
    BY <1>1, <2>1 DEF UsbAtRest, Wired, Uhcis
  <2>6. CASE ask = "SET_ADDR"
    <3>1. pc' = "send" /\ UNCHANGED <<step, try, ask>>
      BY <2>1, <2>6 DEF ResetDone
    <3>2. Linked'
      BY <1>1, <3>1, StillUnlinked DEF UsbAtRest
    <3>3. Plugged(this) /\ step # 0
      BY <1>7, <2>2, <2>6
    <3>4. AtStep'
      BY <1>1, <1>3, <2>3, <3>1, <3>3 DEF AtStep, Plugged
    <3>5. PortStep
      BY <1>1, <1>2, <1>3, <1>9, <2>3, <2>4, <3>1, <3>3 DEF PortStep, PortsAt, AtThis, Busy
    <3> QED BY <1>2, <2>5, <3>1, <3>2, <3>4, <3>5, RestAtPort
  <2>7. CASE ask # "SET_ADDR"
    <3>1. pc' = "probe" /\ step' = step + 1 /\ UNCHANGED <<try, ask>>
      BY <2>1, <2>7 DEF ResetDone, NextPort
    <3>2. Linked'
      BY <1>1, <3>1, StillUnlinked DEF UsbAtRest
    <3>3. AtStep'
      BY <1>2, <1>4, <3>1 DEF AtStep, AtThis
    <3>4. step' # 0
      BY <1>4, <3>1
    <3>5. PortStep
      BY <1>1, <1>2, <1>3, <1>9, <2>2, <2>3, <2>4, <3>4 DEF PortStep, PortsAt, AtThis, Busy
    <3> QED BY <1>2, <2>5, <3>1, <3>2, <3>3, <3>5, RestAtPort
  <2> QED BY <2>6, <2>7
<1>12. CASE ~(try = Tries \/ ~port[this][step].connected) /\ port[this][0].enabled
  <2>1. ResetDone(TRUE) /\ port' = port
    BY <1>7, <1>12 DEF RetryReset
  <2>2. pc' = "send" /\ UNCHANGED <<step, try, ask>>
    BY <2>1 DEF ResetDone
  <2>3. this' = this /\ \A c, q : IsOn(c, q)' <=> IsOn(c, q)
    BY <1>1, <2>1 DEF this, IsOn
  <2>4. \A q : IsOn(this, q)' <=> IsOn(this, q)
    BY <2>1, <2>3 DEF IsOn
  <2>5. Wired'
    BY <1>1, <2>1 DEF UsbAtRest, Wired, Uhcis
  <2>6. Linked'
    BY <1>1, <2>2, StillUnlinked DEF UsbAtRest
  <2>7. IsOn(this, 0) /\ Plugged(this)
    BY <1>10, <1>12 DEF IsOn
  <2>8. AtStep'
    BY <1>1, <1>3, <2>2, <2>3, <2>4, <2>7 DEF AtStep, Plugged
  <2>9. Busy(this)' <=> Busy(this)
    BY <1>1, <2>2, <2>3 DEF Busy, Working, Stopped
  <2>10. PortStep
    BY <1>1, <1>2, <1>3, <2>3, <2>4, <2>7, <2>9 DEF PortStep, PortsAt, AtThis
  <2> QED BY <1>2, <2>2, <2>5, <2>6, <2>8, <2>10, RestAtPort
<1>13. CASE ~(try = Tries \/ ~port[this][step].connected) /\ ~port[this][0].enabled
  <2> PICK r : r = [port[this][step] EXCEPT !.enabled = TRUE]
    OBVIOUS
  <2>1. /\ port' = [port EXCEPT ![this][step] = r] /\ try' = try + 1
        /\ UNCHANGED <<pc, step, ask>>
    <3>1. /\ port' = [port EXCEPT ![this][step] = IF @.changed THEN [@ EXCEPT !.changed = FALSE]
                                                  ELSE [@ EXCEPT !.enabled = TRUE]]
          /\ try' = try + 1 /\ UNCHANGED <<pc, step, ask>>
      BY <1>13 DEF RetryReset
    <3>2. DOMAIN port = Uhcis /\ DOMAIN port[this] = 0..Ports - 1
      BY <1>4 DEF UsbAtRest, Wired
    <3> QED BY <1>4, <1>7, <3>1, <3>2
  <2>2. DOMAIN r = PortFields /\ (r.connected <=> port[this][step].connected) /\ r.enabled = TRUE /\ ~r.changed
    BY <1>5, <1>7 DEF PortFields
  <2>3. Written(step, r)
    BY <1>4, <2>1, <2>2 DEF Written
  <2>4. UNCHANGED <<nodes, node, machine, control>>
    BY <1>1
  <2>5. /\ Wired' /\ this' = this /\ port'[this][step] = r
        /\ \A c, q : c \in Uhcis /\ q \in 0..Ports - 1 /\ (c # this \/ q # step) => (IsOn(c, q)' <=> IsOn(c, q))
    BY <1>2, <1>5, <2>3, <2>4, WrittenIs
  <2>6. ~IsOn(this, 0)
    BY <1>13 DEF IsOn
  <2>7. step # 0 => ~Plugged(this)
    BY <1>9, <2>6
  <2>8. step = 0 => Plugged(this) /\ try' = 1 /\ IsOn(this, 0)'
    <3> SUFFICES ASSUME step = 0 PROVE Plugged(this) /\ try' = 1 /\ IsOn(this, 0)'
      OBVIOUS
    <3>1. Plugged(this)
      BY <1>5, <1>13
    <3>2. try = 0
      BY <1>7, <2>6, <3>1
    <3>3. port'[this'][0] = r /\ r.enabled
      BY <2>2, <2>5
    <3>4. IsOn(this, 0)'
      BY <3>3 DEF IsOn
    <3>5. try' = 1
      BY <2>1, <3>2
    <3> QED BY <3>1, <3>4, <3>5
  <2>9. Linked'
    BY <1>1, <2>1, StillUnlinked DEF UsbAtRest
  <2>10. AtStep'
    BY <1>1, <1>3, <2>1, <2>2, <2>5, <2>7, <2>8 DEF AtStep, Plugged
  <2>11. PortStep
    <3>1. \A c \in Uhcis : c # this => /\ address'[c] = address[c]
                                       /\ \A p \in 0..Ports - 1 : IsOn(c, p)' <=> IsOn(c, p)
      BY <1>1, <2>5
    <3>2. Plugged(this) => \A p \in 1..Ports - 1 : ~IsOn(this, p)'
      <4> SUFFICES ASSUME Plugged(this), NEW p \in 1..Ports - 1 PROVE ~IsOn(this, p)'
        OBVIOUS
      <4>1. step = 0 /\ p \in 0..Ports - 1 /\ p # 0
        BY <1>2, <2>7 DEF AtThis
      <4>2. ~IsOn(this, p)
        BY <1>3 DEF PortsAt
      <4>3. p # step /\ (IsOn(this, p)' <=> IsOn(this, p))
        BY <1>4, <2>5, <4>1 DEF IsOn
      <4> QED BY <4>2, <4>3
    <3>3. ~Plugged(this) => ~IsOn(this, 0)'
      <4> SUFFICES ASSUME ~Plugged(this) PROVE ~IsOn(this, 0)'
        OBVIOUS
      <4>1. step # 0 /\ 0 \in 0..Ports - 1
        BY <1>2, <2>8 DEF AtThis
      <4>2. port'[this][0] = port[this][0]
        <5>1. /\ DOMAIN port = Uhcis /\ DOMAIN port[this] = 0..Ports - 1
          BY <1>4 DEF UsbAtRest, Wired
        <5> QED BY <1>4, <2>1, <4>1, <5>1
      <4> QED BY <2>5, <2>6, <4>2 DEF IsOn
    <3>4. Busy(this)' <=> Busy(this)
      BY <1>1, <2>1, <2>5 DEF Busy, Working, Stopped
    <3>5. ~Busy(this) => step # 0
      BY <1>2 DEF Busy
    <3>6. Plugged(this) => Busy(this)
      BY <2>7, <3>5
    <3>7. ~HasUsb(this)
      BY <1>2, <2>6 DEF AtThis
    <3> QED BY <1>1, <3>1, <3>2, <3>3, <3>4, <3>6, <3>7 DEF PortStep
  <2> QED BY <1>1, <1>2, <2>1, <2>5, <2>9, <2>10, <2>11, RestAtPort
<1> QED BY <1>11, <1>12, <1>13

\* A transfer is linked: the queue was empty.
LEMMA UsbSend ==
  ASSUME QueueInv, UsbAtRest, SendTransfer
  PROVE  UsbAtRest'
<1>1. /\ pc = "send" /\ insertToQueue(this)
      /\ UNCHANGED <<nodes, machine, node, controllers, failed, address, port, step, try, ask>>
      /\ xfer' = [kind |-> ask, address |-> 0, value |-> Last(controllers).addressCount,
                  td |-> [i \in 1..Packets(ask) |-> "active"], polls |-> Polls]
  BY DEF SendTransfer, vfsVars, pciVars
<1>2. AtThis /\ pc \in Working
  BY <1>1, WorkIsAtThis DEF Working, Stopped
<1>3. AtStep /\ PortsAt(this)
  BY <1>2 DEF AtThis
<1>4. this \in Uhcis /\ Linked /\ Wired
  BY <1>2 DEF AtThis, UsbAtRest
<1>5. \A c \in Uhcis : ~control[c]
  BY <1>1, <1>4 DEF Linked
<1>6. pc' = "wait" /\ control' = [control EXCEPT ![this] = TRUE]
  BY <1>1, <1>4, <1>5 DEF insertToQueue
<1>7. this' = this /\ \A c, q : IsOn(c, q)' <=> IsOn(c, q)
  BY <1>1 DEF this, IsOn
<1>8. \A q : IsOn(this, q)' <=> IsOn(this, q)
  BY <1>1, <1>7 DEF IsOn
<1>9. Wired'
  BY <1>1, <1>4, <1>6 DEF Wired, Uhcis
<1>10. Linked'
  <2>1. \A c \in Uhcis : control'[c] => c = this
    BY <1>4, <1>5, <1>6 DEF Wired
  <2> QED BY <1>1, <1>6, <1>7, <2>1 DEF Linked, Uhcis
<1>11. AtStep'
  BY <1>1, <1>3, <1>6, <1>7, <1>8 DEF AtStep, Plugged
<1>12. PortStep
  BY <1>1, <1>2, <1>3, <1>6, <1>7, <1>8 DEF PortStep, PortsAt, AtThis, Busy, Working, Stopped
<1>13. Asked'
  <2>1. /\ DOMAIN xfer' = XferFields /\ xfer'.td = [i \in 1..Packets(ask) |-> "active"]
        /\ xfer'.kind = ask /\ xfer'.address = 0 /\ xfer'.value = Last(controllers).addressCount
    BY <1>1 DEF XferFields
  <2>2. DOMAIN xfer'.td = 1..Packets(ask) /\ \A i \in DOMAIN xfer'.td : xfer'.td[i] = "active"
    BY <2>1
  <2>3. ask = "SET_ADDR" => 2 \in DOMAIN xfer'.td
    BY <2>2 DEF Packets
  <2> QED BY <1>1, <2>1, <2>2, <2>3 DEF Asked
<1> QED BY <1>2, <1>6, <1>9, <1>10, <1>11, <1>12, <1>13, RestAtPort

LEMMA UsbWait ==
  ASSUME QueueInv, UsbAtRest, KeepWaiting
  PROVE  UsbAtRest'
<1>1. /\ pc = "wait" /\ pc' = pc /\ xfer' = [xfer EXCEPT !.polls = @ - 1]
      /\ UNCHANGED <<nodes, machine, node, controllers, failed, address, port, control, step, try, ask>>
  BY DEF KeepWaiting, vfsVars, pciVars
<1>2. AtThis /\ pc \in Working
  BY <1>1, WorkIsAtThis DEF Working, Stopped
<1>3. AtStep /\ PortsAt(this) /\ Asked
  BY <1>1, <1>2 DEF AtThis, UsbAtRest
<1>4. this' = this /\ \A c, q : IsOn(c, q)' <=> IsOn(c, q)
  BY <1>1 DEF this, IsOn
<1>5. \A q : IsOn(this, q)' <=> IsOn(this, q)
  BY <1>1, <1>4 DEF IsOn
<1>6. Wired' /\ Linked'
  BY <1>1, <1>4 DEF UsbAtRest, Wired, Linked, Uhcis
<1>7. AtStep'
  BY <1>1, <1>3, <1>4, <1>5 DEF AtStep, Plugged
<1>8. PortStep
  BY <1>1, <1>2, <1>3, <1>4, <1>5 DEF PortStep, PortsAt, AtThis, Busy, Working, Stopped
<1>9. Asked'
  <2>1. /\ DOMAIN xfer' = XferFields /\ xfer'.td = xfer.td /\ xfer'.kind = xfer.kind
        /\ xfer'.address = xfer.address /\ xfer'.value = xfer.value
    BY <1>1, <1>3 DEF Asked, XferFields
  <2>2. HasUsb(this)' <=> HasUsb(this)
    BY <1>1, <1>4 DEF HasUsb, UsbNodes, Devices
  <2>3. address'[this'][0] = address[this][0]
    BY <1>1, <1>4
  <2> QED BY <1>1, <1>3, <2>1, <2>2, <2>3 DEF Asked
<1> QED BY <1>1, <1>2, <1>6, <1>7, <1>8, <1>9, RestAtPort

\* Only the device in the first port answers to address 0, and only while no
\* device is listed at this controller.
LEMMA OneAnswers ==
  ASSUME QueueInv, UsbAtRest, NEW c \in Uhcis, control[c], Answering(c, xfer.address) # {}
  PROVE  /\ c = this /\ pc = "wait" /\ ~HasUsb(this) /\ Plugged(this) /\ IsOn(this, 0)
         /\ Answering(c, xfer.address) = {0}
<1>1. pc = "wait" /\ c = this
  BY DEF UsbAtRest, Linked
<1>2. AtThis /\ Asked
  BY <1>1, WorkIsAtThis DEF Working, Stopped, UsbAtRest
<1>3. AtStep /\ PortsAt(this)
  BY <1>2 DEF AtThis
<1>4. Plugged(this)
  BY <1>1, <1>3 DEF AtStep
<1>5. \A p \in 0..Ports - 1 : p # 0 => ~port[this][p].enabled
  <2>1. \A p \in 0..Ports - 1 : p # 0 => p \in 1..Ports - 1
    BY UsbAssumption
  <2> QED BY <1>3, <1>4, <2>1 DEF PortsAt, IsOn
<1>6. Answering(c, xfer.address) = {p \in 0..Ports - 1 : port[this][p].enabled /\ address[this][p] = 0}
  BY <1>1, <1>2 DEF Answering, Asked
<1>7. 0 \in Answering(c, xfer.address) /\ Answering(c, xfer.address) = {0}
  BY <1>5, <1>6
<1>8. IsOn(this, 0) /\ address[this][0] = 0
  BY <1>6, <1>7 DEF IsOn
<1>9. ~HasUsb(this)
  BY <1>2, <1>8 DEF AtThis
<1> QED BY <1>1, <1>4, <1>7, <1>8, <1>9

\* The controller executes a packet.
LEMMA UsbExecute ==
  ASSUME QueueInv, UsbAtRest, NEW c \in Uhcis, Execute(c)
  PROVE  UsbAtRest'
<1>1. /\ control[c] /\ Answering(c, xfer.address) # {}
      /\ UNCHANGED <<nodes, machine, node, controllers, failed, port, control, pc, step, try, ask>>
  BY DEF Execute, vfsVars, pciVars
<1>2. /\ c = this /\ pc = "wait" /\ ~HasUsb(this) /\ Plugged(this) /\ IsOn(this, 0)
      /\ Answering(c, xfer.address) = {0}
  BY <1>1, OneAnswers
<1>3. AtThis /\ pc \in Working /\ Asked /\ AtStep /\ PortsAt(this) /\ Wired /\ Linked
  BY <1>2, WorkIsAtThis DEF Working, Stopped, UsbAtRest, AtThis
<1>4. PICK i, got, who :
        /\ i \in DOMAIN xfer.td
        /\ who = {0}
        /\ xfer' = IF got = "missed" THEN xfer ELSE [xfer EXCEPT !.td[i] = got]
        /\ address' = IF xfer.kind = "SET_ADDR" /\ i = Packets(xfer.kind) /\ got \in {"done", "missed"}
                      THEN [address EXCEPT ![c] = [p \in DOMAIN @ |-> IF p \in who THEN xfer.value ELSE @[p]]]
                      ELSE address
  <2> DEFINE heard == Answering(c, xfer.address)
  <2>1. PICK got, who :
        /\ who \in (SUBSET heard) \ {{}}
        /\ xfer' = IF got = "missed" THEN xfer ELSE [xfer EXCEPT !.td[Current] = got]
        /\ address' = IF xfer.kind = "SET_ADDR" /\ Current = Packets(xfer.kind) /\ got \in {"done", "missed"}
                      THEN [address EXCEPT ![c] = [p \in DOMAIN @ |-> IF p \in who THEN xfer.value ELSE @[p]]]
                      ELSE address
    BY DEF Execute
  <2>2. who = {0}
    BY <1>2, <2>1
  <2>3. Current # 0
    BY DEF Execute
  <2>4. Current \in DOMAIN xfer.td
    <3> DEFINE left == {i \in DOMAIN xfer.td : xfer.td[i] \in {"active", "nak"}}
    <3>1. left # {} /\ Current = CHOOSE i \in left : \A j \in left : i <= j
      BY <2>3 DEF Current
    <3>2. left \subseteq 1..Packets(ask) /\ Packets(ask) \in Nat
      BY <1>3 DEF Asked, Packets
    <3>3. left \subseteq Nat
      BY <3>2
    <3>4. \E i \in left : \A j \in left : i <= j
      BY <3>1, <3>3, LeastMember
    <3>5. Current \in left
      BY <3>1, <3>4
    <3> QED BY <3>5
  <2> QED BY <2>1, <2>2, <2>4
<1>5. /\ DOMAIN xfer' = XferFields /\ DOMAIN xfer'.td = DOMAIN xfer.td /\ xfer'.kind = xfer.kind
      /\ xfer'.address = xfer.address /\ xfer'.value = xfer.value
      /\ \A j \in DOMAIN xfer.td : xfer'.td[j] = IF j = i /\ got # "missed" THEN got ELSE xfer.td[j]
  <2>1. DOMAIN xfer = XferFields
    BY <1>3 DEF Asked
  <2>2. CASE got = "missed"
    BY <1>4, <2>1, <2>2
  <2>3. CASE got # "missed"
    <3>1. xfer' = [xfer EXCEPT !.td = [xfer.td EXCEPT ![i] = got]]
      BY <1>4, <2>3
    <3>2. xfer'.td = [xfer.td EXCEPT ![i] = got]
      BY <2>1, <3>1 DEF XferFields
    <3> QED BY <2>1, <2>3, <3>1, <3>2 DEF XferFields
  <2> QED BY <2>2, <2>3
<1>6. /\ DOMAIN address = Uhcis /\ \A d \in Uhcis : DOMAIN address[d] = 0..Ports - 1
      /\ 0 \in 0..Ports - 1
  BY <1>3 DEF Wired, AtThis
<1>7. /\ DOMAIN address' = Uhcis /\ \A d \in Uhcis : DOMAIN address'[d] = 0..Ports - 1
      /\ \A d \in Uhcis : d # this => address'[d] = address[d]
      /\ xfer.kind = "SET_ADDR" /\ i = Packets(xfer.kind) /\ got \in {"done", "missed"}
           => address'[this][0] = xfer.value
      /\ ~(xfer.kind = "SET_ADDR" /\ i = Packets(xfer.kind) /\ got \in {"done", "missed"})
           => address'[this][0] = address[this][0]
  <2>1. CASE xfer.kind = "SET_ADDR" /\ i = Packets(xfer.kind) /\ got \in {"done", "missed"}
    <3> PICK f : f = [p \in DOMAIN address[c] |-> IF p \in {0} THEN xfer.value ELSE address[c][p]]
      OBVIOUS
    <3>1. address' = [address EXCEPT ![c] = f]
      BY <1>4, <2>1
    <3>2. DOMAIN f = 0..Ports - 1 /\ f[0] = xfer.value
      BY <1>6
    <3> QED BY <1>2, <1>6, <2>1, <3>1, <3>2
  <2>2. CASE ~(xfer.kind = "SET_ADDR" /\ i = Packets(xfer.kind) /\ got \in {"done", "missed"})
    BY <1>4, <1>6, <2>2
  <2> QED BY <2>1, <2>2
<1>8. this' = this /\ (\A d, p : IsOn(d, p)' <=> IsOn(d, p)) /\ (HasUsb(this)' <=> HasUsb(this))
  BY <1>1 DEF this, IsOn, HasUsb, UsbNodes, Devices
<1>9. \A p : IsOn(this, p)' <=> IsOn(this, p)
  BY <1>1, <1>8 DEF IsOn
<1>10. Linked'
  BY <1>1, <1>2, <1>3, <1>8 DEF Linked, Uhcis
<1>11. Wired'
  BY <1>1, <1>3, <1>7 DEF Wired, Uhcis
<1>12. AtStep'
  BY <1>1, <1>3, <1>8, <1>9 DEF AtStep, Plugged
<1>13. PortStep
  BY <1>1, <1>2, <1>3, <1>7, <1>8, <1>9 DEF PortStep, PortsAt, AtThis, Busy, Working, Stopped
<1>14. ask = "SET_ADDR" /\ xfer'.td[2] = "done" => address'[this][0] = xfer.value
  <2> SUFFICES ASSUME ask = "SET_ADDR", xfer'.td[2] = "done" PROVE address'[this][0] = xfer.value
    OBVIOUS
  <2>1. /\ xfer.kind = "SET_ADDR" /\ Packets(xfer.kind) = 2 /\ 2 \in DOMAIN xfer.td
        /\ xfer.td[2] = "done" => address[this][0] = xfer.value
    BY <1>3 DEF Asked, Packets
  <2>2. CASE i = 2 /\ got # "missed"
    <3>1. got = "done"
      BY <1>5, <2>1, <2>2
    <3> QED BY <1>7, <2>1, <2>2, <3>1
  <2>3. CASE ~(i = 2 /\ got # "missed")
    <3>1. xfer.td[2] = "done"
      BY <1>5, <2>1, <2>3
    <3> QED BY <1>7, <2>1, <3>1
  <2> QED BY <2>2, <2>3
<1>15. Asked'
  <2>1. ~HasUsb(this)'
    BY <1>2, <1>8
  <2>2. address'[this'][0] = address'[this][0]
    BY <1>8
  <2> QED BY <1>1, <1>3, <1>5, <1>14, <2>1, <2>2 DEF Asked
<1> QED BY <1>1, <1>3, <1>10, <1>11, <1>12, <1>13, <1>15, RestAtPort

LEMMA StatusDone ==
  ASSUME Asked, TransferStatus = "done"
  PROVE  \A i \in DOMAIN xfer.td : xfer.td[i] = "done"
<1> DEFINE open == {i \in DOMAIN xfer.td : xfer.td[i] # "done"}
<1> SUFFICES ASSUME open # {} PROVE FALSE
  OBVIOUS
<1>1. Packets(ask) \in Nat /\ DOMAIN xfer.td = 1..Packets(ask)
  BY DEF Asked, Packets
<1>2. open \subseteq Nat
  BY <1>1
<1>3. \E i \in open : \A j \in open : i <= j
  BY <1>2, LeastMember
<1> PICK i : i = CHOOSE k \in open : \A j \in open : k <= j
  OBVIOUS
<1>4. i \in open
  BY <1>3
<1>5. TransferStatus = xfer.td[i]
  BY DEF TransferStatus
<1> QED BY <1>4, <1>5

\* The devices on the ports that were listed still are.
MoreUsb ==
  /\ UsbNodes \subseteq UsbNodes'
  /\ \A n \in UsbNodes : nodes'[n].data = nodes[n].data

\* What the end of a transfer leaves alone, and where the driver goes on.
Ended ==
  /\ pc = "wait" /\ AtThis /\ Asked /\ Plugged(this) /\ step \in 0..Ports - 1
  /\ UNCHANGED <<machine, node, port, address>>
  /\ this' = this /\ node \in Devices(nodes') /\ Controlled' = Controlled /\ Uhcis' = Uhcis
  /\ Last(controllers').at = Last(controllers).at
  /\ MoreUsb /\ failed \subseteq failed'
  /\ \/ pc' = "probe" /\ step' = step + 1
     \/ pc' \in {"send", "reset"} \cup Stopped /\ step' = step
  /\ Wired' /\ Linked'

\* What is so of a controller whose devices are kept stays so; so it does of a
\* device that was listed.
LEMMA EndedKeeps ==
  ASSUME UsbAtRest, Ended
  PROVE  /\ \A c, p : IsOn(c, p)' <=> IsOn(c, p)
         /\ IsOn(this, 0)
         /\ \A c \in Controlled : c # this \/ step # 0 \/ pc' # "probe" => PortsAt(c)'
         /\ \A n \in UsbNodes : Sound(n)'
         /\ AtStep'
         /\ pc' = "probe" => ~Busy(this)'
<1>1. \A c, p : (IsOn(c, p)' <=> IsOn(c, p)) /\ (Plugged(c)' <=> Plugged(c))
  BY DEF Ended, IsOn, Plugged
<1>2. AtStep /\ PortsAt(this)
  BY DEF Ended, AtThis
<1>3. IsOn(this, 0)
  BY <1>2 DEF Ended, AtStep, PortsAt, Busy
<1>4. \A c : Busy(c)' => Busy(c) /\ pc' # "probe"
  BY DEF Ended, Busy, Working, Stopped
<1>5. \A c : c # this \/ step # 0 \/ pc' # "probe" => (Busy(c) => Busy(c)')
  BY DEF Ended, Busy, Working, Stopped
<1>6. ASSUME NEW c \in Controlled, c # this \/ step # 0 \/ pc' # "probe"
      PROVE  PortsAt(c)'
  <2>1. PortsAt(c)
    BY DEF UsbAtRest
  <2>2. ~Busy(c)' => ~Busy(c)
    BY <1>5, <1>6
  <2> QED BY <1>1, <2>1, <2>2 DEF PortsAt, Ended, MoreUsb
<1>7. ASSUME NEW n \in UsbNodes
      PROVE  Sound(n)'
  <2>1. Sound(n)
    BY DEF UsbAtRest
  <2>2. nodes'[n].data = nodes[n].data
    BY DEF Ended, MoreUsb
  <2> QED BY <1>1, <1>4, <2>1, <2>2 DEF Sound, Ended
<1>8. AtStep'
  <2>1. step' \in 0..Ports /\ (pc' # "probe" => step' < Ports)
    BY <1>2 DEF Ended, AtThis
  <2>2. Plugged(this)' /\ pc' \notin {"present", "retry", "wait"} /\ IsOn(this, 0)'
    <3>1. Plugged(this)' <=> Plugged(this)
      BY DEF Ended, Plugged
    <3>2. IsOn(this, 0)' <=> IsOn(this, 0)
      BY DEF Ended, IsOn
    <3> QED BY <1>3, <3>1, <3>2 DEF Ended, Stopped
  <2> QED BY <2>1, <2>2 DEF AtStep
<1>9. pc' = "probe" => ~Busy(this)'
  BY DEF Ended, Busy, Working, Stopped
<1> QED BY <1>1, <1>3, <1>6, <1>7, <1>8, <1>9

LEMMA EndMovesOn ==
  ASSUME EndTransfer
  PROVE  /\ pc = "wait" /\ UNCHANGED <<machine, node, port, address>>
         /\ xfer' = NoXfer /\ control' = [control EXCEPT ![this] = FALSE]
         /\ failed \subseteq failed' /\ (TransferStatus # "done" => <<this, step>> \in failed')
         /\ \/ pc' = "probe" /\ step' = step + 1 /\ (ask = "SET_ADDR" \/ TransferStatus # "done")
            \/ pc' \in {"send", "reset"} \cup Stopped /\ step' = step /\ ask # "SET_ADDR"
         /\ ~(ask = "SET_ADDR" /\ TransferStatus = "done") => UNCHANGED <<nodes, controllers>>
<1>1. /\ pc = "wait" /\ UNCHANGED <<machine, node, port, address>>
      /\ xfer' = NoXfer /\ control' = [control EXCEPT ![this] = FALSE]
  BY DEF EndTransfer, removeFromQueue, pciVars
<1>2. failed' = IF TransferStatus = "done" THEN failed ELSE failed \cup {<<this, step>>}
  BY DEF EndTransfer
<1>3. ~(ask = "SET_ADDR" /\ TransferStatus = "done") => UNCHANGED <<nodes, controllers>>
  BY DEF EndTransfer, vfsVars
<1>4. IF ask = "SET_ADDR" \/ (ask = "GET_DESC" /\ TransferStatus # "done")
      THEN pc' = "probe" /\ step' = step + 1
      ELSE pc' \in {"send", "reset"} \cup Stopped /\ step' = step
  BY DEF EndTransfer, NextPort, OnWith, Stopped
<1>5. \/ pc' = "probe" /\ step' = step + 1 /\ (ask = "SET_ADDR" \/ TransferStatus # "done")
      \/ pc' \in {"send", "reset"} \cup Stopped /\ step' = step /\ ask # "SET_ADDR"
  BY <1>4
<1> QED BY <1>1, <1>2, <1>3, <1>5

\* The queue is empty after it.
LEMMA EndUnlinks ==
  ASSUME UsbAtRest, AtThis, EndTransfer
  PROVE  Wired' /\ (this' = this => Linked')
<1>1. /\ pc = "wait" /\ pc' \notin {"wait", "fault"} /\ UNCHANGED <<machine, port, address>>
      /\ xfer' = NoXfer /\ control' = [control EXCEPT ![this] = FALSE]
  BY EndMovesOn DEF Stopped
<1>2. Wired /\ Linked /\ this \in Uhcis /\ Uhcis' = Uhcis
  BY <1>1 DEF UsbAtRest, AtThis, Uhcis
<1>3. \A c \in Uhcis : ~control'[c]
  BY <1>1, <1>2 DEF Wired, Linked
<1>4. Wired'
  BY <1>1, <1>2 DEF Wired
<1>5. Linked'
  BY <1>1, <1>2, <1>3 DEF Linked, NoXfer
<1> QED BY <1>4, <1>5

\* The end of a transfer that makes no device.
LEMMA UsbGoesOn ==
  ASSUME QueueInv, UsbAtRest, EndTransfer, ~(ask = "SET_ADDR" /\ TransferStatus = "done")
  PROVE  UsbAtRest'
<1>1. /\ pc = "wait" /\ UNCHANGED <<machine, node, port, address, nodes, controllers>>
      /\ failed \subseteq failed'
  BY EndMovesOn
<1>2. pc' = "probe" => <<this, step>> \in failed'
  BY EndMovesOn DEF Stopped
<1>3. AtThis /\ Asked /\ pc \in Working
  BY <1>1, WorkIsAtThis DEF Working, Stopped, UsbAtRest
<1>4. AtStep /\ AtController
  BY <1>3 DEF AtThis
<1>5. Ended
  <2>1. /\ this' = this /\ Controlled' = Controlled /\ Uhcis' = Uhcis /\ Last(controllers').at = Last(controllers).at
        /\ Devices(nodes') = Devices(nodes) /\ MoreUsb
    BY <1>1 DEF this, Controlled, Uhcis, MoreUsb, UsbNodes, Devices
  <2>2. Plugged(this) /\ step \in 0..Ports - 1
    BY <1>1, <1>3, <1>4 DEF AtStep, AtThis
  <2>3. node \in Devices(nodes)
    BY <1>4 DEF AtController
  <2>4. Wired' /\ Linked'
    BY <1>3, <2>1, EndUnlinks
  <2>5. \/ pc' = "probe" /\ step' = step + 1
        \/ pc' \in {"send", "reset"} \cup Stopped /\ step' = step
    BY EndMovesOn
  <2> QED BY <1>1, <1>3, <2>1, <2>2, <2>3, <2>4, <2>5 DEF Ended
<1>6. /\ \A c, p : IsOn(c, p)' <=> IsOn(c, p)
      /\ IsOn(this, 0)
      /\ \A c \in Controlled : c # this \/ step # 0 \/ pc' # "probe" => PortsAt(c)'
      /\ \A n \in UsbNodes : Sound(n)'
      /\ AtStep'
  BY <1>5, EndedKeeps
<1>7. \A c \in Controlled : PortsAt(c)'
  <2> SUFFICES ASSUME NEW c \in Controlled, c = this, step = 0, pc' = "probe" PROVE PortsAt(c)'
    BY <1>6
  <2>1. Plugged(c) /\ PortsAt(c) /\ (Plugged(c)' <=> Plugged(c))
    BY <1>1, <1>3, <1>5 DEF AtThis, Ended, Plugged
  <2>2. <<c, 0>> \in failed'
    BY <1>2
  <2>3. IsOn(c, 0)'
    BY <1>6
  <2> QED BY <1>6, <2>1, <2>2, <2>3 DEF PortsAt
<1>8. AtController'
  <2>1. this' = this /\ node \in Devices(nodes') /\ (HasUsb(this)' <=> HasUsb(this))
    BY <1>1, <1>5 DEF Ended, HasUsb, UsbNodes, Devices
  <2> QED BY <1>1, <1>4, <2>1 DEF AtController
<1>9. Controlled' = Controlled /\ UsbNodes' = UsbNodes /\ Uhcis' = Uhcis /\ pc' # "wait"
  BY <1>1, <1>5 DEF Ended, UsbNodes, Devices, Stopped
<1>10. Controlled \subseteq Uhcis /\ \A c \in Uhcis \ Controlled, p \in 0..Ports - 1 : ~IsOn(c, p)'
  BY <1>6 DEF UsbAtRest
<1> QED BY <1>5, <1>6, <1>7, <1>8, <1>9, <1>10 DEF UsbAtRest, Ended

\* SET_ADDR succeeded: no device of this controller was listed, and the one in
\* its first port took the address.
LEMMA UsbListed ==
  ASSUME QueueInv, FoldersInv, UsbAtRest, EndTransfer, ask = "SET_ADDR", TransferStatus = "done"
  PROVE  UsbAtRest'
<1>1. /\ pc = "wait" /\ pc' = "probe" /\ step' = step + 1 /\ UNCHANGED <<machine, node, port, address>>
      /\ failed \subseteq failed'
  BY EndMovesOn
<1>2. AtThis /\ Asked /\ pc \in Working
  BY <1>1, WorkIsAtThis DEF Working, Stopped, UsbAtRest
<1>3. AtStep /\ AtController /\ PortsAt(this)
  BY <1>2 DEF AtThis
<1>4. /\ Last(controllers').at = Last(controllers).at
      /\ \A i \in DOMAIN controllers' : i \in DOMAIN controllers /\ controllers'[i].at = controllers[i].at
      /\ DOMAIN controllers' = DOMAIN controllers
  BY UsbMade
<1> PICK n : OneMore(n)
  BY UsbMade
<1>5. /\ n \notin Devices(nodes) /\ Devices(nodes') = Devices(nodes) \cup {n}
      /\ \A k \in Devices(nodes) : nodes'[k].data = nodes[k].data /\ nodes'[k].hint = nodes[k].hint
      /\ nodes'[n].hint = "USB"
  BY DEF OneMore
<1>6. UsbNodes' = UsbNodes \cup {n} /\ \A k \in UsbNodes : nodes'[k].data = nodes[k].data
  BY <1>5 DEF UsbNodes
<1>7. ~HasUsb(this) /\ address[this][0] = Last(controllers).addressCount
  <2>1. 2 \in DOMAIN xfer.td
    BY <1>2 DEF Asked, Packets
  <2>2. xfer.td[2] = "done"
    BY <1>2, <2>1, StatusDone
  <2> QED BY <1>2, <2>1, <2>2 DEF Asked
<1>8. Last(controllers).addressCount = 1
  BY <1>3, <1>7 DEF AtController
<1>9. nodes'[n].data.at = this /\ nodes'[n].data.port = step /\ nodes'[n].data.address = 1
  BY <1>8 DEF OneMore
<1>10. Ended
  <2>1. node \in Devices(nodes)
    BY <1>3 DEF AtController
  <2>2. this' = this /\ node \in Devices(nodes')
    BY <1>1, <1>5, <2>1 DEF this
  <2>3. Controlled' = Controlled /\ Uhcis' = Uhcis /\ MoreUsb
    BY <1>1, <1>4, <1>6 DEF Controlled, Uhcis, MoreUsb
  <2>4. Plugged(this) /\ step \in 0..Ports - 1
    BY <1>1, <1>2, <1>3 DEF AtStep, AtThis
  <2>5. Wired' /\ Linked'
    BY <1>2, <2>2, EndUnlinks
  <2> QED BY <1>1, <1>2, <1>4, <2>2, <2>3, <2>4, <2>5 DEF Ended
<1>11. /\ \A c, p : IsOn(c, p)' <=> IsOn(c, p)
       /\ IsOn(this, 0)
       /\ \A c \in Controlled : c # this \/ step # 0 \/ pc' # "probe" => PortsAt(c)'
       /\ \A k \in UsbNodes : Sound(k)'
       /\ AtStep' /\ ~Busy(this)'
  BY <1>1, <1>10, EndedKeeps
<1>12. step = 0 \/ <<this, 0>> \in failed
  BY <1>2, <1>3, <1>7, <1>10 DEF Ended, PortsAt, Busy, HasUsb
<1>13. /\ this' = this /\ Controlled' = Controlled /\ Uhcis' = Uhcis
       /\ this \in Controlled /\ Plugged(this) /\ (Plugged(this)' <=> Plugged(this))
  BY <1>2, <1>10 DEF Ended, AtThis, Plugged
<1>14. Sound(n)'
  <2> PICK c : c = this
    OBVIOUS
  <2>1. /\ nodes'[n].data.at = c /\ nodes'[n].data.port = step /\ nodes'[n].data.address = 1
        /\ c \in Controlled' /\ address'[c][0] = 1 /\ (c = this)'
    BY <1>1, <1>7, <1>8, <1>9, <1>13
  <2>2. Plugged(c)' /\ ~Busy(c)' /\ IsOn(c, 0)'
    <3>1. Plugged(c)' <=> Plugged(c)
      BY <1>1 DEF Plugged
    <3>2. IsOn(c, 0)'
      BY <1>11
    <3>3. ~Busy(c)'
      BY <1>11, <2>1 DEF Busy
    <3> QED BY <1>13, <3>1, <3>2, <3>3
  <2>3. step = 0 \/ <<c, 0>> \in failed'
    BY <1>1, <1>12
  <2> QED BY <2>1, <2>2, <2>3 DEF Sound
<1>15. \A c \in Controlled : PortsAt(c)'
  <2> SUFFICES ASSUME NEW c \in Controlled, c = this, step = 0 PROVE PortsAt(c)'
    BY <1>11
  <2>1. Plugged(c) /\ PortsAt(c) /\ (Plugged(c)' <=> Plugged(c)) /\ IsOn(c, 0)'
    BY <1>1, <1>3, <1>11, <1>13 DEF Plugged
  <2>2. n \in UsbNodes' /\ nodes'[n].data.at = c /\ nodes'[n].data.port = 0
    BY <1>6, <1>9
  <2> QED BY <1>11, <2>1, <2>2 DEF PortsAt
<1>16. AtController'
  <2>1. HasUsb(this)'
    BY <1>6, <1>9, <1>13 DEF HasUsb
  <2> QED BY <1>3, <1>4, <1>10, <1>13, <2>1 DEF AtController, Ended
<1>17. \A k \in UsbNodes' : Sound(k)'
  BY <1>6, <1>11, <1>14
<1>18. Controlled \subseteq Uhcis /\ \A c \in Uhcis \ Controlled, p \in 0..Ports - 1 : ~IsOn(c, p)'
  BY <1>11 DEF UsbAtRest
<1> QED BY <1>1, <1>10, <1>11, <1>13, <1>15, <1>16, <1>17, <1>18 DEF UsbAtRest, Ended

-----------------------------------------------------------------------------
(* Any step.                                                               *)

\* A controller is added: its ports are off and the driver is at the first one.
LEMMA UsbController ==
  ASSUME QueueInv, FoldersInv, OnceInv, UsbAtRest, AddController
  PROVE  UsbAtRest'
<1>1. /\ pc = "init" /\ pc' = "probe" /\ step' = 0
      /\ UNCHANGED <<machine, node, port, address, xfer, failed>>
      /\ control' = [control EXCEPT ![this] = FALSE]
      /\ \E c : c.at = this /\ c.addressCount = 1 /\ controllers' = Append(controllers, c)
  <2>1. PICK c : /\ c = [at |-> this, name |-> <<"uhci", Len(controllers)>>, addressCount |-> 1, device_count |-> 0]
                 /\ controllers' = Append(controllers, c)
    BY DEF AddController
  <2>2. c.at = this /\ c.addressCount = 1
    BY <2>1
  <2>3. /\ pc = "init" /\ pc' = "probe" /\ step' = 0
        /\ UNCHANGED <<machine, node, port, address, xfer, failed>>
        /\ control' = [control EXCEPT ![this] = FALSE]
    BY DEF AddController, ScheduleReady, pciVars
  <2> QED BY <2>1, <2>2, <2>3
<1>2. controllers \in Seq(Controller) /\ node \in Devices(nodes) /\ nodes[node].hint = "USBCTRL" /\ IsUhci(node)
  BY <1>1 DEF QueueInv, IsUhci
<1>3. SameDevices
  BY ControllerMade
<1>4. this' = this /\ node \in Devices(nodes')
  BY <1>1, <1>2, <1>3 DEF SameDevices, this
<1>5. UsbNodes' = UsbNodes /\ \A n \in UsbNodes : nodes'[n].data = nodes[n].data
  BY <1>3, DevicesUsb DEF SameUsb
<1>6. this \in Uhcis
  BY <1>2 DEF QueueInv, IsUhci, Uhcis, this
<1>7. this \notin Controlled
  BY <1>1, <1>2 DEF OnceInv, Controlled, this
<1>8. Controlled' = Controlled \cup {this} /\ Last(controllers').at = this /\ Last(controllers').addressCount = 1
  <2>1. PICK c : c.at = this /\ c.addressCount = 1 /\ controllers' = Append(controllers, c)
    BY <1>1
  <2>2. /\ Len(controllers) \in Nat /\ DOMAIN controllers = 1..Len(controllers)
        /\ DOMAIN controllers' = 1..Len(controllers) + 1
        /\ controllers'[Len(controllers) + 1] = c
        /\ \A i \in 1..Len(controllers) : controllers'[i] = controllers[i]
        /\ Len(controllers') = Len(controllers) + 1
    BY <1>2, <2>1
  <2>3. Last(controllers') = c
    BY <2>2 DEF Last
  <2>4. Len(controllers) + 1 \in DOMAIN controllers'
    BY <2>2
  <2>5. \A i : i \in DOMAIN controllers' <=> i \in DOMAIN controllers \/ i = Len(controllers) + 1
    BY <2>2
  <2> HIDE DEF Last
  <2>6. Controlled' = Controlled \cup {this}
    BY <2>1, <2>2, <2>4, <2>5 DEF Controlled
  <2> QED BY <2>1, <2>3, <2>6
<1>9. \A n \in UsbNodes : nodes[n].data.at # this
  BY <1>7 DEF UsbAtRest, Sound
<1>10. ~HasUsb(this)'
  BY <1>4, <1>5, <1>9 DEF HasUsb
<1>11. /\ Uhcis' = Uhcis /\ \A c : (Plugged(c)' <=> Plugged(c)) /\ ~Busy(c)
       /\ \A c : Busy(c)' <=> c = this
       /\ \A c, p : IsOn(c, p)' <=> IsOn(c, p)
  BY <1>1, <1>4 DEF Uhcis, Plugged, Busy, IsOn, Working, Stopped
<1>12. \A p \in 0..Ports - 1 : ~IsOn(this, p)
  BY <1>6, <1>7 DEF UsbAtRest
<1>13. \A c \in Controlled' : PortsAt(c)'
  <2> SUFFICES ASSUME NEW c \in Controlled' PROVE PortsAt(c)'
    OBVIOUS
  <2>1. CASE c = this
    <3>1. \A p \in 1..Ports - 1 : p \in 0..Ports - 1
      BY UsbAssumption
    <3>2. 0 \in 0..Ports - 1
      BY UsbAssumption
    <3>3. Busy(c)' /\ \A p \in 0..Ports - 1 : ~IsOn(c, p)'
      BY <1>11, <1>12, <2>1
    <3> QED BY <3>1, <3>2, <3>3 DEF PortsAt
  <2>2. CASE c # this
    <3>1. PortsAt(c) /\ ~Busy(c)' /\ ~Busy(c)
      BY <1>8, <1>11, <2>2 DEF UsbAtRest
    <3> QED BY <1>1, <1>5, <1>11, <3>1 DEF PortsAt
  <2> QED BY <2>1, <2>2
<1>14. \A n \in UsbNodes' : Sound(n)'
  <2> SUFFICES ASSUME NEW n \in UsbNodes PROVE Sound(n)'
    BY <1>5
  <2>1. Sound(n) /\ nodes'[n].data = nodes[n].data /\ nodes[n].data.at # this
    BY <1>5, <1>9 DEF UsbAtRest
  <2> QED BY <1>1, <1>8, <1>11, <2>1 DEF Sound
<1>15. AtController'
  BY <1>1, <1>4, <1>8 DEF AtController
<1>16. AtStep'
  BY <1>1, UsbAssumption DEF AtStep
<1>17. Wired' /\ Linked'
  <2>1. Wired'
    BY <1>1, <1>11 DEF UsbAtRest, Wired
  <2>2. Linked'
    <3>1. xfer.kind = "none" /\ \A c \in Uhcis : ~control[c]
      BY <1>1 DEF UsbAtRest, Linked
    <3>2. \A c \in Uhcis : ~control'[c]
      BY <1>1, <3>1 DEF UsbAtRest, Wired
    <3> QED BY <1>1, <1>11, <3>1, <3>2 DEF Linked
  <2> QED BY <2>1, <2>2
<1>18. Controlled' \subseteq Uhcis /\ \A c \in Uhcis \ Controlled', p \in 0..Ports - 1 : ~IsOn(c, p)'
  BY <1>6, <1>8, <1>11 DEF UsbAtRest
<1> QED BY <1>1, <1>11, <1>13, <1>14, <1>15, <1>16, <1>17, <1>18 DEF UsbAtRest

\* A step while the kernel starts or scans the bus.
LEMMA UsbEarly ==
  ASSUME QueueInv, ListInv, UsbInv, (pc \in Starting /\ Next) \/ Scan
  PROVE  UsbInv'
<1>1. CASE pc \in Starting /\ Next
  <2>1. InitializeHw \/ TakeInterrupt \/ TimerTick \/ KeyboardActs \/ KeyPressed
    BY <1>1, WhileStarting
  <2>2. UsbNodes = {} /\ UsbNodes' = {}
    BY <1>1, NothingListed DEF ListInv, UsbNodes
  <2>3. pc \notin Working
    BY <1>1 DEF Starting, Working, Stopped
  <2>4. UNCHANGED <<machine, port, address, control, controllers, replugged, failed, xfer>>
    <3>1. CASE InitializeHw
      BY <3>1 DEF InitializeHw, busVars, pciVars
    <3>2. CASE TakeInterrupt
      BY <3>2 DEF TakeInterrupt, pciVars, uhciVars
    <3>3. CASE TimerTick \/ KeyboardActs \/ KeyPressed
      BY <3>3 DEF TimerTick, KeyboardActs, KeyPressed, Outside, pciVars, uhciVars
    <3> QED BY <2>1, <3>1, <3>2, <3>3
  <2>5. pc' \notin Working /\ pc' # "fault"
    <3>1. CASE InitializeHw
      BY <1>1, <3>1 DEF InitializeHw, InitCpu, InitMemory, InitVfs, PIT_init, Ps2Start, init_keyboard,
         FlushKeyboard, StartScan, StartLine, Starting, Working, Stopped
    <3>2. CASE TakeInterrupt \/ TimerTick \/ KeyboardActs \/ KeyPressed
      BY <1>1, <3>2 DEF TakeInterrupt, TimerTick, KeyboardActs, KeyPressed, Outside, uhciVars,
         Starting, Working, Stopped
    <3> QED BY <2>1, <3>1, <3>2
  <2> QED BY <2>2, <2>3, <2>4, <2>5, UsbKept DEF SameUsb
<1>2. CASE Scan
  <2>1. pc = "scan" /\ pc' = "scan" /\ UNCHANGED <<port, address, control, controllers, replugged, failed, xfer>>
    BY <1>2 DEF Scan, uhciVars
  <2>2. machine' = machine
    BY <1>2 DEF Scan, ScanStep, EnumerateBus, CheckFunction
  <2>3. \/ nodes' = nodes
        \/ \E n, v : Grown(nodes, nodes', n, v) /\ v.dir = FALSE /\ v.hint = "USBCTRL"
    BY <1>2, ScanLists
  <2>4. SameUsb
    BY <2>3 DEF SameUsb, UsbNodes, Devices, Grown
  <2> QED BY <2>1, <2>2, <2>4, UsbKept DEF Working, Stopped
<1> QED BY <1>1, <1>2

\* A step that leaves the ports alone and is not the driver's at one.
LEMMA UsbElsewhere ==
  ASSUME UsbInv, pc \notin Working, pc' \notin Working, pc' # "fault",
         UNCHANGED <<nodes, machine, port, address, control, controllers, replugged, failed, xfer>>
  PROVE  UsbInv'
BY UsbKept DEF SameUsb, UsbNodes, Devices

LEMMA UsbStep ==
  ASSUME QueueInv, ListInv, OnceInv, UsbInv, Next \/ UNCHANGED vars
  PROVE  UsbInv'
<1>1. CASE UNCHANGED vars
  <2>1. UNCHANGED <<nodes, machine, port, address, control, controllers, replugged, failed, xfer, pc, node,
                    step, try, ask>>
    BY <1>1 DEF vars, vfsVars, pciVars, uhciVars
  <2> SUFFICES ASSUME replugged = 0 PROVE UsbAtRest'
    BY <2>1 DEF UsbInv
  <2>2. UsbAtRest
    BY DEF UsbInv
  <2>3. /\ this' = this /\ Controlled' = Controlled /\ Uhcis' = Uhcis /\ UsbNodes' = UsbNodes
        /\ Devices(nodes') = Devices(nodes)
        /\ \A c : (Plugged(c)' <=> Plugged(c)) /\ (\A p : IsOn(c, p)' <=> IsOn(c, p))
    BY <2>1 DEF this, Controlled, Uhcis, UsbNodes, Devices, Plugged, IsOn
  <2>4. /\ \A c : (Busy(c)' <=> Busy(c)) /\ (HasUsb(c)' <=> HasUsb(c))
        /\ \A q : IsOn(this, q)' <=> IsOn(this, q)
    BY <2>1, <2>3 DEF Busy, HasUsb, IsOn
  <2>5. Wired' /\ Linked'
    BY <2>1, <2>2, <2>3 DEF UsbAtRest, Wired, Linked
  <2>6. \A c \in Controlled : PortsAt(c)'
    BY <2>1, <2>2, <2>3, <2>4 DEF UsbAtRest, PortsAt
  <2>7. \A n \in UsbNodes : Sound(n)'
    BY <2>1, <2>2, <2>3, <2>4 DEF UsbAtRest, Sound
  <2>8. pc \in Working => AtController'
    BY <2>1, <2>2, <2>3, <2>4 DEF UsbAtRest, AtController
  <2>9. pc \in Working => AtStep'
    BY <2>1, <2>2, <2>3, <2>4 DEF UsbAtRest, AtStep, Plugged
  <2>10. pc = "wait" => Asked'
    BY <2>1, <2>2, <2>3, <2>4 DEF UsbAtRest, Asked, HasUsb
  <2> QED BY <2>1, <2>2, <2>3, <2>5, <2>6, <2>7, <2>8, <2>9, <2>10 DEF UsbAtRest
<1>2. CASE (pc \in Starting /\ Next) \/ Scan
  BY <1>2, UsbEarly
<1>3. CASE UsbHardware
  <2>1. PICK c \in Uhcis : Execute(c) \/ \E p \in 0..Ports - 1 : Replug(c, p)
    BY <1>3 DEF UsbHardware
  <2>2. CASE Execute(c)
    <3>1. replugged' = replugged
      BY <2>2 DEF Execute
    <3> QED BY <2>2, <3>1, UsbExecute DEF UsbInv
  <2>3. CASE \E p \in 0..Ports - 1 : Replug(c, p)
    <3>1. replugged' = replugged + 1
      BY <2>3 DEF Replug
    <3> QED BY <3>1 DEF UsbInv
  <2> QED BY <2>1, <2>2, <2>3
<1>4. CASE DriverStep
  <2>1. CASE SetupBar \/ InitFails
    <3>1. /\ pc \in {"setup", "init"} /\ pc' \in {"setup", "init", "halted"}
          /\ UNCHANGED <<nodes, machine, port, address, control, controllers, replugged, failed, xfer>>
      BY <2>1 DEF SetupBar, InitFails, vfsVars, pciVars
    <3> QED BY <3>1, UsbElsewhere DEF Working, Stopped
  <2>2. CASE ~SetupBar /\ ~InitFails
    <3>1. replugged' = replugged
      BY <1>4, <2>2 DEF DriverStep, AddController, ProbePort, ConfirmPort, ResetPort, RetryReset, SendTransfer,
         KeepWaiting, EndTransfer
    <3>2. SUFFICES ASSUME replugged = 0 PROVE UsbAtRest'
      BY <3>1 DEF UsbInv
    <3>3. UsbAtRest /\ FoldersInv
      BY <3>2 DEF UsbInv, ListInv
    <3>4. CASE AddController
      BY <3>3, <3>4, UsbController
    <3>5. CASE ProbePort
      BY <3>3, <3>5, UsbProbe
    <3>6. CASE ConfirmPort
      BY <3>3, <3>6, UsbConfirm
    <3>7. CASE ResetPort
      BY <3>3, <3>7, UsbReset
    <3>8. CASE RetryReset
      BY <3>3, <3>8, UsbRetry
    <3>9. CASE SendTransfer
      BY <3>3, <3>9, UsbSend
    <3>10. CASE KeepWaiting
      BY <3>3, <3>10, UsbWait
    <3>11. CASE EndTransfer
      BY <3>3, <3>11, UsbGoesOn, UsbListed
    <3> QED BY <1>4, <2>2, <3>4, <3>5, <3>6, <3>7, <3>8, <3>9, <3>10, <3>11 DEF DriverStep
  <2> QED BY <2>1, <2>2
<1>5. CASE InitDrivers \/ ServeEvent
  <2>1. /\ pc \in {"scan", "idle"} /\ pc' \in {"idle", "halted", "setup"}
        /\ UNCHANGED <<nodes, machine, port, address, control, controllers, replugged, failed, xfer>>
    BY <1>5 DEF InitDrivers, ServeEvent, vfsVars, pciVars, uhciVars, busVars
  <2> QED BY <2>1, UsbElsewhere DEF Working, Stopped
<1>6. CASE pc \notin Starting /\ Next
  <2>1. ~InitializeHw /\ ~TakeInterrupt /\ ~TimerTick /\ ~KeyboardActs /\ ~KeyPressed
    BY <1>6 DEF InitializeHw, InitCpu, InitMemory, InitVfs, PIT_init, Ps2Start, init_keyboard,
       StartLine, FlushKeyboard, StartScan, TakeInterrupt, TimerTick, KeyboardActs, KeyPressed,
       Outside, Starting
  <2> QED BY <1>2, <1>3, <1>4, <1>5, <1>6, <2>1 DEF Next, Kernel
<1> QED BY <1>1, <1>2, <1>6

LEMMA UsbImplies == UsbInv => UsbDevicesListed
<1> SUFFICES ASSUME UsbInv, replugged = 0 PROVE UsbDevicesListed
  BY DEF UsbDevicesListed
<1>1. UsbAtRest
  BY DEF UsbInv
<1>2. 0 \in 0..Ports - 1 /\ \A p \in 0..Ports - 1 : p # 0 => p \in 1..Ports - 1
  BY UsbAssumption
<1>3. ASSUME NEW n \in UsbNodes
      PROVE  LET d == nodes[n].data
                 heard == Answering(d.at, d.address)
             IN  Cardinality(heard) = 1 /\ (<<d.at, 0>> \notin failed => heard = {d.port})
  <2> DEFINE d == nodes[n].data
             heard == Answering(d.at, d.address)
  <2>1. Sound(n)
    BY <1>1 DEF UsbAtRest
  <2>2. PortsAt(d.at)
    BY <1>1, <2>1 DEF UsbAtRest, Sound
  <2>3. port[d.at][0].enabled /\ address[d.at][0] = d.address
    BY <2>1 DEF Sound, IsOn
  <2>4. \A p \in 0..Ports - 1 : p # 0 => ~port[d.at][p].enabled
    BY <1>2, <2>1, <2>2 DEF Sound, PortsAt, IsOn
  <2>5. heard = {0}
    BY <1>2, <2>3, <2>4 DEF Answering
  <2>6. Cardinality(heard) = 1
    BY <2>5, FS_Singleton
  <2>7. <<d.at, 0>> \notin failed => heard = {d.port}
    BY <2>1, <2>5 DEF Sound
  <2> QED BY <2>6, <2>7
<1>4. ASSUME pc = "idle", NEW i \in DOMAIN controllers
      PROVE  LET c == controllers[i].at
             IN  port[c][0].connected /\ <<c, 0>> \notin failed =>
                   \E n \in UsbNodes : nodes[n].data.at = c /\ nodes[n].data.port = 0
  <2> DEFINE c == controllers[i].at
  <2>1. c \in Controlled /\ c \in Uhcis
    BY <1>1 DEF UsbAtRest, Controlled
  <2>2. PortsAt(c) /\ (port[c][0].connected <=> Plugged(c))
    BY <1>1, <1>2, <2>1 DEF UsbAtRest, Wired, Plugged
  <2>3. ~Busy(c)
    BY <1>4 DEF Busy, Working, Stopped
  <2> QED BY <2>2, <2>3 DEF PortsAt
<1> QED BY <1>3, <1>4 DEF UsbDevicesListed

\* UsbDevicesListed: as long as no plug is pulled, each device that is listed is
\* the only one to answer to its address, on the first port if no transfer there
\* failed, and the one in the first port is listed; with any number of ports and
\* tries and on any bus (setupDevice, resetPort, addressCount).
THEOREM DevicesAreListed == Spec => []UsbDevicesListed
<1> DEFINE IInv == QueueInv /\ BarsInv /\ ListInv /\ OnceInv /\ UsbInv
<1>1. Init => IInv
  BY QueueInit, BarsInit, ScanInit, FoldersInit, OnceInit, UsbInit DEF ListInv
<1>2. IInv /\ [Next]_vars => IInv'
  <2> SUFFICES ASSUME IInv, [Next]_vars PROVE IInv'
    OBVIOUS
  <2>1. machine \in Machines
    BY DEF BarsInv, BarsHold
  <2>2. QueueInv' /\ BarsInv'
    BY QueueStep, BarsStep
  <2>3. ListInv' /\ OnceInv' /\ UsbInv'
    BY <2>1, ListStep, OnceStep, UsbStep
  <2> QED BY <2>2, <2>3
<1>3. IInv => UsbDevicesListed
  BY UsbImplies
<1> HIDE DEF IInv
<1> QED BY <1>1, <1>2, <1>3, PTL DEF Spec

-----------------------------------------------------------------------------
(* The hand-over from the boot loader.                                     *)

LEMMA Quotient ==
  ASSUME NEW a \in Nat, NEW q \in Nat \ {0}
  PROVE  /\ a \div q \in Nat
         /\ (a \div q) * q <= a
         /\ a < (a \div q) * q + q
OBVIOUS

\* The page an address lies in, and the first page from an address on.
LEMMA RoundedDown ==
  ASSUME NEW a \in Nat, NEW q \in Nat \ {0}, NEW p \in Nat
  PROVE  /\ DivRoundDown(a, q) \in Nat
         /\ DivRoundDown(a, q) <= p <=> a < (p + 1) * q
         /\ p < DivRoundDown(a, q) <=> (p + 1) * q <= a
<1> DEFINE d == a \div q
<1>1. d \in Nat /\ d * q <= a /\ a < d * q + q
  BY Quotient
<1> HIDE DEF d
<1>2. ASSUME d <= p PROVE d * q + q <= (p + 1) * q
  BY <1>1, <1>2
<1>3. ASSUME p < d PROVE (p + 1) * q <= d * q
  BY <1>1, <1>3
<1>4. (p + 1) * q \in Int /\ d * q \in Int
  BY <1>1
<1>5. d <= p <=> a < (p + 1) * q
  BY <1>1, <1>2, <1>3, <1>4
<1> QED BY <1>1, <1>5, <1>4 DEF DivRoundDown, d

LEMMA RoundedUp ==
  ASSUME NEW a \in Nat, NEW q \in Nat \ {0}, NEW p \in Nat
  PROVE  /\ DivRoundUp(a, q) \in Nat
         /\ DivRoundUp(a, q) <= p <=> a <= p * q
         /\ p < DivRoundUp(a, q) <=> p * q < a
<1> DEFINE b == a + q - 1
<1>1. b \in Nat /\ DivRoundUp(a, q) = DivRoundDown(b, q)
  BY DEF DivRoundUp, DivRoundDown
<1>2. (p + 1) * q = p * q + q /\ p * q \in Int
  OBVIOUS
<1>3. b < (p + 1) * q <=> a <= p * q
  BY <1>2
<1>4. DivRoundDown(b, q) \in Nat /\ (DivRoundDown(b, q) <= p <=> b < (p + 1) * q)
  BY <1>1, RoundedDown
<1> QED BY <1>1, <1>2, <1>3, <1>4

LEMMA RoundsLess ==
  ASSUME NEW a \in Nat, NEW q \in Nat \ {0}
  PROVE  DivRoundUp(a, q) <= a /\ DivRoundDown(a, q) <= a /\ (a > 0 => DivRoundUp(a, q) > 0)
<1>1. a <= a * q /\ a < (a + 1) * q
  OBVIOUS
<1>2. DivRoundUp(a, q) <= a /\ DivRoundDown(a, q) <= a
  BY <1>1, RoundedUp, RoundedDown
<1>3. 0 < DivRoundUp(a, q) <=> 0 * q < a
  BY RoundedUp
<1> QED BY <1>2, <1>3

\* setBits writes the bits it is asked for, eight and more, too.
LEMMA WrittenExactly ==
  ASSUME NEW first \in Nat, NEW size \in Nat, first + size < U32, U32 \in Nat
  PROVE  \A p \in 0..Pages - 1 : p \in BitsWritten(first, size) <=> first <= p /\ p < first + size
<1> TAKE p \in 0..Pages - 1
<1>1. CASE size < 8
  BY <1>1 DEF BitsWritten
<1>2. CASE size >= 8
  <2> DEFINE end == first + size
             lastByte == IF end % 8 = 0 THEN end \div 8 - 1 ELSE end \div 8
             lastBits == IF end % 8 = 0 THEN 8 ELSE end % 8
  <2>1. end % U32 = end
    OBVIOUS
  <2>2. p \in BitsWritten(first, size) <=>
          \/ p \div 8 = first \div 8 /\ p % 8 >= first % 8
          \/ p \div 8 \in (first \div 8) + 1..lastByte - 1
          \/ p \div 8 = lastByte /\ p % 8 < lastBits
    BY <1>2, <2>1 DEF BitsWritten, BytewiseBits
  <2>3. p \in Nat /\ end \in Nat /\ end >= first + 8
    BY <1>2
  <2> HIDE DEF end
  <2>4. p = 8 * (p \div 8) + (p % 8) /\ p \div 8 \in Nat /\ p % 8 \in 0..7
    BY <2>3
  <2>5. first = 8 * (first \div 8) + (first % 8) /\ first \div 8 \in Nat /\ first % 8 \in 0..7
    OBVIOUS
  <2>6. end = 8 * (end \div 8) + (end % 8) /\ end \div 8 \in Nat /\ end % 8 \in 0..7
    BY <2>3
  <2>7. end = 8 * lastByte + lastBits /\ lastByte \in Int /\ lastBits \in 1..8
    BY <2>6
  <2>8. lastByte >= first \div 8
    BY <2>3, <2>5, <2>7
  <2>9. p < end <=> p \div 8 < lastByte \/ (p \div 8 = lastByte /\ p % 8 < lastBits)
    BY <2>3, <2>4, <2>7
  <2>10. first <= p <=> first \div 8 < p \div 8 \/ (p \div 8 = first \div 8 /\ p % 8 >= first % 8)
    BY <2>4, <2>5
  <2> QED BY <2>2, <2>3, <2>4, <2>5, <2>7, <2>8, <2>9, <2>10 DEF end
<1> QED BY <1>1, <1>2

\* Where part i is moved to; Place(h, 4) is past the last.
Place(h, i) == FirstPage(h) + (IF i > 1 THEN PagesOf(h, Parts[1]) ELSE 0)
                            + (IF i > 2 THEN PagesOf(h, Parts[2]) ELSE 0)
                            + (IF i > 3 THEN PagesOf(h, Parts[3]) ELSE 0)

\* The parts take the pages of the room one after the other.
LEMMA Places ==
  ASSUME NEW h \in Handoffs
  PROVE  /\ FirstPage(h) \in Nat \ {0} /\ Place(h, 4) \in Nat /\ Place(h, 1) = FirstPage(h)
         /\ \A i \in 1..3 : /\ PagesOf(h, Parts[i]) \in Nat \ {0}
                            /\ Place(h, i + 1) = Place(h, i) + PagesOf(h, Parts[i])
         /\ \A i \in 1..4 : Place(h, i) \in Nat /\ FirstPage(h) <= Place(h, i)
                            /\ Place(h, i) <= Place(h, 4)
         /\ FirstPage(h) < Place(h, 4)
         /\ Room(h) = FirstPage(h)..Place(h, 4) - 1
<1>1. h.stack \in Nat /\ PAGE_SIZE \in Nat \ {0} /\ h.stack + PAGE_SIZE \in Nat \ {0}
  BY HandoffAssumption, MemoryAssumption
<1>2. FirstPage(h) \in Nat \ {0}
  BY <1>1, RoundedUp, RoundsLess DEF FirstPage
<1>3. DOMAIN Parts = 1..3
  BY DEF Parts
<1>4. ASSUME NEW i \in 1..3 PROVE PagesOf(h, Parts[i]) \in Nat \ {0}
  <2>1. h.units[Parts[i]] \in Nat \ {0}
    BY <1>3, HandoffAssumption
  <2> DEFINE u == h.units[Parts[i]]
  <2>2. \A p \in Nat : DivRoundUp(u, PAGE_SIZE) \in Nat
    BY <1>1, <2>1, RoundedUp
  <2>3. u > 0 => DivRoundUp(u, PAGE_SIZE) > 0
    BY Zenon, <1>1, <2>1, RoundsLess
  <2>4. u > 0
    BY <2>1
  <2>5. PagesOf(h, Parts[i]) = DivRoundUp(u, PAGE_SIZE)
    BY DEF PagesOf
  <2> HIDE DEF u
  <2>6. DivRoundUp(u, PAGE_SIZE) \in Nat \ {0}
    BY <2>2, <2>3, <2>4
  <2> QED BY <2>5, <2>6
<1> DEFINE n1 == PagesOf(h, Parts[1])
           n2 == PagesOf(h, Parts[2])
           n3 == PagesOf(h, Parts[3])
           f == FirstPage(h)
<1>5. /\ Place(h, 1) = f + 0 + 0 + 0 /\ Place(h, 2) = f + n1 + 0 + 0
      /\ Place(h, 3) = f + n1 + n2 + 0 /\ Place(h, 4) = f + n1 + n2 + n3
  BY DEF Place
<1>6. n1 \in Nat \ {0} /\ n2 \in Nat \ {0} /\ n3 \in Nat \ {0}
  BY <1>4
<1>7. f \in Nat \ {0} /\ Room(h) = f..f + n1 + n2 + n3 - 1
  BY <1>2 DEF Room
<1> HIDE DEF f
<1>8. \A i \in 1..3 : Place(h, i + 1) = Place(h, i) + PagesOf(h, Parts[i])
  <2> TAKE i \in 1..3
  <2>1. i = 1 \/ i = 2 \/ i = 3
    OBVIOUS
  <2> QED BY <2>1, <1>5, <1>6, <1>7
<1> HIDE DEF n1, n2, n3
<1>9. \A i \in 1..4 : Place(h, i) \in Nat /\ f <= Place(h, i) /\ Place(h, i) <= Place(h, 4)
  <2> TAKE i \in 1..4
  <2>1. i = 1 \/ i = 2 \/ i = 3 \/ i = 4
    OBVIOUS
  <2> QED BY <2>1, <1>5, <1>6, <1>7
<1>10. f < Place(h, 4) /\ Room(h) = f..Place(h, 4) - 1 /\ Place(h, 1) = f
  BY <1>5, <1>6, <1>7
<1> QED BY <1>4, <1>7, <1>8, <1>9, <1>10 DEF f

\* The free piece covers the room, which so ends in the address space.
LEMMA RoomFits ==
  ASSUME NEW h \in Handoffs
  PROVE  /\ Place(h, 4) <= Pages /\ Place(h, 4) < U32
         /\ h.stack + PAGE_SIZE < U32
         /\ Pages \in Nat
<1> DEFINE last == Place(h, 4) - 1
<1>1. last \in Nat /\ last \in Room(h) /\ FirstPage(h) <= last /\ FirstPage(h) \in Nat
  <2>1. /\ FirstPage(h) \in Nat \ {0} /\ Place(h, 4) \in Nat /\ FirstPage(h) < Place(h, 4)
        /\ Room(h) = FirstPage(h)..Place(h, 4) - 1
    BY Places
  <2> QED BY <2>1
<1>2. PAGE_SIZE \in Nat \ {0} /\ U32 \in Nat /\ h.stack \in Nat
  BY MemoryAssumption, HandoffAssumption
<1>3. (last + 1) * PAGE_SIZE < U32
  <2>1. PICK i \in DOMAIN h.e820 :
          LET e == h.e820[i]
          IN  e.base + e.size < U32 /\ \A p \in Room(h) : (p + 1) * PAGE_SIZE <= e.base + e.size
    BY HandoffAssumption
  <2>2. h.e820[i].base \in Nat /\ h.e820[i].size \in Nat
    BY HandoffAssumption
  <2>3. (last + 1) * PAGE_SIZE <= h.e820[i].base + h.e820[i].size
    BY <1>1, <2>1
  <2>4. (last + 1) * PAGE_SIZE \in Nat
    BY <1>1, <1>2
  <2> HIDE DEF last
  <2> QED BY <2>1, <2>2, <2>3, <2>4, <1>2
<1> HIDE DEF last
<1>4. last < Pages /\ Pages \in Nat
  BY <1>1, <1>2, <1>3, RoundedDown DEF Pages, DivRoundDown
<1>5. last + 1 <= (last + 1) * PAGE_SIZE /\ FirstPage(h) * PAGE_SIZE <= (last + 1) * PAGE_SIZE
  BY <1>1, <1>2
<1>6. h.stack + PAGE_SIZE <= FirstPage(h) * PAGE_SIZE
  BY <1>1, <1>2, RoundedUp DEF FirstPage
<1>7. FirstPage(h) * PAGE_SIZE \in Nat /\ (last + 1) * PAGE_SIZE \in Nat
  BY <1>1, <1>2
<1>8. last + 1 < U32 /\ h.stack + PAGE_SIZE < U32
  BY <1>1, <1>2, <1>3, <1>5, <1>6, <1>7
<1>9. Place(h, 4) = last + 1
  BY Places DEF last
<1> QED BY <1>1, <1>4, <1>8, <1>9

\* The pages that are reserved are those that are touched.
LEMMA ReservedExactly ==
  ASSUME NEW base \in Nat, NEW size \in Nat, base + size < U32, NEW p \in 0..Pages - 1
  PROVE  p \in mem_mark_reserved(base, size) <=> Overlaps(p, base, size)
<1> DEFINE b == DivRoundDown(base, PAGE_SIZE)
           e == DivRoundUp(base + size, PAGE_SIZE)
<1>1. PAGE_SIZE \in Nat \ {0} /\ U32 \in Nat /\ base + size \in Nat /\ p \in Nat
  BY MemoryAssumption
<1>2. b \in Nat /\ e \in Nat /\ e <= base + size
  BY <1>1, RoundedDown, RoundedUp, RoundsLess
<1>3. /\ b <= p <=> base < (p + 1) * PAGE_SIZE
      /\ p < e <=> p * PAGE_SIZE < base + size
  BY <1>1, RoundedDown, RoundedUp
<1>4. b <= e
  <2>1. b <= e <=> base < (e + 1) * PAGE_SIZE
    BY <1>1, <1>2, RoundedDown
  <2>2. base + size <= e * PAGE_SIZE
    BY <1>1, <1>2, RoundedUp
  <2>3. (e + 1) * PAGE_SIZE = e * PAGE_SIZE + PAGE_SIZE /\ e * PAGE_SIZE \in Nat
    BY <1>1, <1>2
  <2> HIDE DEF b, e
  <2> QED BY <1>1, <1>2, <2>1, <2>2, <2>3
<1>5. mem_mark_reserved(base, size) = BitsWritten(b, e - b)
  BY DEF mem_mark_reserved
<1> HIDE DEF b, e
<1>6. e - b \in Nat /\ b + (e - b) = e /\ e < U32
  BY <1>1, <1>2, <1>4
<1>7. p \in BitsWritten(b, e - b) <=> b <= p /\ p < e
  BY <1>1, <1>2, <1>6, WrittenExactly
<1> QED BY <1>3, <1>5, <1>7 DEF Overlaps

\* The pages that are freed are those that lie in the piece.
LEMMA FreedExactly ==
  ASSUME NEW base \in Nat, NEW size \in Nat, base + size < U32, NEW p \in 0..Pages - 1,
         base <= p * PAGE_SIZE, (p + 1) * PAGE_SIZE <= base + size
  PROVE  p \in mem_mark_free(base, size)
<1> DEFINE b == DivRoundUp(base, PAGE_SIZE)
           e == DivRoundDown(base + size, PAGE_SIZE)
<1>1. PAGE_SIZE \in Nat \ {0} /\ U32 \in Nat /\ base + size \in Nat /\ p \in Nat
  BY MemoryAssumption
<1>2. b \in Nat /\ e \in Nat /\ e <= base + size
  BY <1>1, RoundedDown, RoundedUp, RoundsLess
<1>3. b <= p /\ p < e
  BY <1>1, RoundedDown, RoundedUp
<1>4. base % U32 = base /\ (base + size) % U32 = base + size
  BY <1>1
<1>5. mem_mark_free(base, size) = BitsWritten(b, (e - b) % U32)
  BY <1>4 DEF mem_mark_free
<1> HIDE DEF b, e
<1>6. e - b \in Nat /\ e - b < U32 /\ b + (e - b) = e /\ e < U32
  BY <1>1, <1>2, <1>3
<1>7. (e - b) % U32 = e - b
  BY <1>1, <1>6
<1>8. p \in BitsWritten(b, e - b)
  BY <1>1, <1>2, <1>3, <1>6, WrittenExactly
<1> QED BY <1>5, <1>7, <1>8

\* What is marked: all up to the room and the kernel, and nothing in the room.
LEMMA MarkedRight ==
  ASSUME handoff \in Handoffs
  PROVE  /\ DOMAIN MarkedPages = 0..Pages - 1
         /\ \A p \in 0..Pages - 1 : p < FirstPage(handoff) => MarkedPages[p]
         /\ \A p \in 0..Pages - 1, i \in DOMAIN handoff.kernelMap :
              Overlaps(p, handoff.kernelMap[i].base, handoff.kernelMap[i].size) => MarkedPages[p]
         /\ \A p \in Room(handoff) : p \in 0..Pages - 1 /\ ~MarkedPages[p]
<1> DEFINE freed == UNION {MarkFree(handoff.e820[i]) : i \in DOMAIN handoff.e820}
           kernel == UNION {MarkKernel(handoff.kernelMap[i]) : i \in DOMAIN handoff.kernelMap}
           low == mem_mark_reserved(0, handoff.stack + PAGE_SIZE)
<1>1. MarkedPages = [p \in 0..Pages - 1 |-> p \notin freed \/ p \in kernel \cup low]
  BY DEF MarkedPages, Bitmap
<1>2. ASSUME NEW p \in 0..Pages - 1 PROVE p \in low <=> p < FirstPage(handoff)
  <2>1. handoff.stack + PAGE_SIZE \in Nat /\ handoff.stack + PAGE_SIZE < U32
        /\ PAGE_SIZE \in Nat \ {0} /\ p \in Nat
    BY RoomFits, HandoffAssumption, MemoryAssumption
  <2>2. p \in low <=> Overlaps(p, 0, handoff.stack + PAGE_SIZE)
    BY <2>1, ReservedExactly
  <2>3. 0 < (p + 1) * PAGE_SIZE
    BY <2>1
  <2>4. p < FirstPage(handoff) <=> p * PAGE_SIZE < handoff.stack + PAGE_SIZE
    BY <2>1, RoundedUp DEF FirstPage
  <2> QED BY <2>1, <2>2, <2>3, <2>4 DEF Overlaps
<1>3. ASSUME NEW p \in 0..Pages - 1, NEW i \in DOMAIN handoff.kernelMap
      PROVE  p \in MarkKernel(handoff.kernelMap[i]) <=>
               Overlaps(p, handoff.kernelMap[i].base, handoff.kernelMap[i].size)
  <2>1. /\ handoff.kernelMap[i].base \in Nat /\ handoff.kernelMap[i].size \in Nat
        /\ handoff.kernelMap[i].base + handoff.kernelMap[i].size < U32
    BY HandoffAssumption
  <2> QED BY <2>1, ReservedExactly DEF MarkKernel
<1>4. ASSUME NEW p \in Room(handoff)
      PROVE  p \in 0..Pages - 1 /\ p >= FirstPage(handoff) /\ p \in freed
  <2>1. p \in 0..Pages - 1 /\ p >= FirstPage(handoff)
    <3>1. /\ FirstPage(handoff) \in Nat \ {0} /\ Place(handoff, 4) \in Nat
          /\ Room(handoff) = FirstPage(handoff)..Place(handoff, 4) - 1
      BY Places
    <3>2. Place(handoff, 4) <= Pages /\ Pages \in Nat
      BY RoomFits
    <3> QED BY <3>1, <3>2
  <2>2. PICK i \in DOMAIN handoff.e820 :
          LET e == handoff.e820[i]
          IN  /\ e.free /\ e.base + e.size < U32
              /\ \A q \in Room(handoff) : e.base <= q * PAGE_SIZE
                                          /\ (q + 1) * PAGE_SIZE <= e.base + e.size
    BY HandoffAssumption
  <2>3. handoff.e820[i].base \in Nat /\ handoff.e820[i].size \in Nat
    BY HandoffAssumption
  <2>4. p \in mem_mark_free(handoff.e820[i].base, handoff.e820[i].size)
    BY <2>1, <2>2, <2>3, FreedExactly
  <2>5. p \in MarkFree(handoff.e820[i])
    BY <2>2, <2>4 DEF MarkFree
  <2> QED BY <2>1, <2>5
<1>5. ASSUME NEW p \in Room(handoff) PROVE p \notin kernel
  <2>1. p \in 0..Pages - 1
    BY <1>4
  <2>2. \A i \in DOMAIN handoff.kernelMap :
          ~Overlaps(p, handoff.kernelMap[i].base, handoff.kernelMap[i].size)
    BY HandoffAssumption
  <2> QED BY <1>3, <2>1, <2>2
<1> HIDE DEF freed, low
<1>6. DOMAIN MarkedPages = 0..Pages - 1
  BY <1>1
<1>7. ASSUME NEW p \in 0..Pages - 1, p < FirstPage(handoff) PROVE MarkedPages[p]
  BY <1>1, <1>2, <1>7
<1>8. ASSUME NEW p \in 0..Pages - 1, NEW i \in DOMAIN handoff.kernelMap,
             Overlaps(p, handoff.kernelMap[i].base, handoff.kernelMap[i].size)
      PROVE  MarkedPages[p]
  BY <1>1, <1>3, <1>8
<1>9. ASSUME NEW p \in Room(handoff) PROVE p \in 0..Pages - 1 /\ ~MarkedPages[p]
  <2>1. FirstPage(handoff) \in Nat /\ p \in 0..Pages - 1 /\ p >= FirstPage(handoff)
    BY <1>4, Places
  <2>2. p \notin low
    BY <1>2, <2>1
  <2> QED BY <1>1, <1>4, <1>5, <2>1, <2>2
<1> QED BY <1>6, <1>7, <1>8, <1>9

\* The parts lie one after the other from the first page above the stack, whole; what
\* comes before the next place is in use, what is left of the room is not, and the
\* kernel stays reserved.
PartsWhole ==
  /\ copies \in Seq(Nat) /\ Len(copies) <= 3
  /\ \A i \in DOMAIN copies : copies[i] = Place(handoff, i)
  /\ DOMAIN ram = FirstPage(handoff)..Place(handoff, Len(copies) + 1) - 1
  /\ \A i \in DOMAIN copies : \A k \in 0..PagesOf(handoff, Parts[i]) - 1 :
        ram[Place(handoff, i) + k] = <<Parts[i], k>>
BitsRight ==
  /\ DOMAIN page_status = 0..Pages - 1
  /\ \A p \in 0..Pages - 1 : p < Place(handoff, Len(copies) + 1) => page_status[p]
  /\ \A p \in Room(handoff) : p >= Place(handoff, Len(copies) + 1) => ~page_status[p]
  /\ \A p \in 0..Pages - 1, i \in DOMAIN handoff.kernelMap :
        Overlaps(p, handoff.kernelMap[i].base, handoff.kernelMap[i].size) => page_status[p]
MemoryInv ==
  /\ handoff \in Handoffs
  /\ PartsWhole
  /\ page_status = <<>> => copies = <<>>
  /\ page_status # <<>> => BitsRight

LEMMA MemoryInvInit == MemoryInit => MemoryInv
<1> SUFFICES ASSUME MemoryInit PROVE MemoryInv
  OBVIOUS
<1>1. /\ handoff \in Handoffs /\ copies = <<>> /\ page_status = <<>>
      /\ ram = [p \in {} |-> 0]
  BY DEF MemoryInit
<1>2. copies \in Seq(Nat) /\ Len(copies) = 0 /\ DOMAIN copies = {}
  BY <1>1
<1>3. FirstPage(handoff) \in Nat /\ Place(handoff, 1) = FirstPage(handoff)
  BY <1>1, Places
<1>4. DOMAIN ram = FirstPage(handoff)..Place(handoff, Len(copies) + 1) - 1
  BY <1>1, <1>2, <1>3
<1> QED BY <1>1, <1>2, <1>4 DEF MemoryInv, PartsWhole

LEMMA MemoryMarked == MemoryInv /\ InitializeMemory => MemoryInv'
<1> SUFFICES ASSUME MemoryInv, InitializeMemory PROVE MemoryInv'
  OBVIOUS
<1>1. /\ handoff \in Handoffs /\ copies = <<>> /\ page_status' = MarkedPages
      /\ handoff' = handoff /\ copies' = copies /\ ram' = ram
  BY DEF MemoryInv, InitializeMemory
<1>2. PartsWhole'
  BY <1>1 DEF MemoryInv, PartsWhole
<1>3. Len(copies') + 1 = 1 /\ Place(handoff, 1) = FirstPage(handoff)
  BY <1>1, Places
<1>4. BitsRight'
  BY <1>1, <1>3, MarkedRight DEF BitsRight
<1> QED BY <1>1, <1>2, <1>4 DEF MemoryInv

LEMMA BelowThree ==
  ASSUME NEW n \in Nat, n < 3
  PROVE  n \in 0..2 /\ n + 1 \in 1..3 /\ n + 1 \in 1..4 /\ n + 1 + 1 \in 1..4
OBVIOUS

\* The search finds the next place.
LEMMA FoundNext ==
  ASSUME MemoryInv, page_status # <<>>, Len(copies) < 3
  PROVE  alloc_pages(PagesOf(handoff, Parts[Len(copies) + 1])) = Place(handoff, Len(copies) + 1)
<1> DEFINE at == Place(handoff, Len(copies) + 1)
           n == PagesOf(handoff, Parts[Len(copies) + 1])
           found == {i \in DOMAIN page_status : FirstInByte(page_status, i) /\ RunAt(page_status, i, n)}
<1>1. handoff \in Handoffs /\ PartsWhole /\ BitsRight /\ Len(copies) \in 0..2
  <2>1. handoff \in Handoffs /\ PartsWhole /\ BitsRight /\ copies \in Seq(Nat)
    BY DEF MemoryInv, PartsWhole
  <2>2. Len(copies) \in Nat
    BY <2>1
  <2>3. Len(copies) \in 0..2
    BY Zenon, <2>2, BelowThree
  <2> QED BY <2>1, <2>3
<1>2. /\ at \in Nat \ {0} /\ n \in Nat \ {0} /\ at + n <= Place(handoff, 4) /\ FirstPage(handoff) <= at
      /\ FirstPage(handoff) \in Nat /\ Place(handoff, 4) \in Nat
  <2>1. Len(copies) + 1 \in 1..3 /\ Len(copies) + 2 \in 1..4 /\ Len(copies) + 1 + 1 = Len(copies) + 2
        /\ Len(copies) + 1 \in 1..4
    BY <1>1
  <2>2. /\ n \in Nat \ {0} /\ Place(handoff, Len(copies) + 2) = at + n
        /\ at \in Nat /\ Place(handoff, Len(copies) + 2) <= Place(handoff, 4)
        /\ FirstPage(handoff) <= at
    BY <1>1, <2>1, Places
  <2>3. FirstPage(handoff) \in Nat \ {0} /\ Place(handoff, 4) \in Nat
    BY <1>1, Places
  <2> QED BY <2>2, <2>3
<1>3. Place(handoff, 4) <= Pages /\ Pages \in Nat
  BY <1>1, RoomFits
<1>4. Room(handoff) = FirstPage(handoff)..Place(handoff, 4) - 1
  BY <1>1, Places
<1>5. /\ DOMAIN page_status = 0..Pages - 1
      /\ \A p \in 0..Pages - 1 : p < at => page_status[p]
      /\ \A p \in Room(handoff) : p >= at => ~page_status[p]
  BY <1>1 DEF BitsRight
<1>6. alloc_pages(n) = IF found = {} THEN npos ELSE Min(found)
  BY DEF alloc_pages, find_false_bits
<1> HIDE DEF at, n
<1>7. at \in found
  <2>1. at \in 0..Pages - 1 /\ ~page_status[at]
    BY <1>2, <1>3, <1>4, <1>5
  <2>2. 8 * (at \div 8) >= 0
    BY <1>2
  <2>3. \A j \in 8 * (at \div 8)..at - 1 : page_status[j]
    BY <1>2, <1>3, <1>5, <2>1, <2>2
  <2>4. \A j \in at..at + n - 1 : j \in DOMAIN page_status /\ ~page_status[j]
    BY <1>2, <1>3, <1>4, <1>5
  <2> QED BY <1>5, <2>1, <2>3, <2>4 DEF FirstInByte, RunAt
<1>8. ASSUME NEW i \in found PROVE i \in Nat /\ at <= i
  <2>1. i \in 0..Pages - 1 /\ ~page_status[i]
    BY <1>5 DEF FirstInByte
  <2> QED BY <1>2, <1>3, <1>5, <2>1
<1> HIDE DEF found
<1>9. Min(found) = at
  <2>1. \A i \in found : (\A y \in found : i <= y) => i = at
    BY <1>2, <1>7, <1>8
  <2>2. Min(found) \in found /\ \A y \in found : Min(found) <= y
    BY <1>7, <1>8 DEF Min
  <2> QED BY <2>1, <2>2
<1> QED BY <1>6, <1>7, <1>9 DEF at, n

LEMMA MemoryCopied == MemoryInv /\ CopyPart => MemoryInv'
<1> SUFFICES ASSUME MemoryInv, CopyPart PROVE MemoryInv'
  OBVIOUS
<1> DEFINE m == Len(copies) + 1
           at == Place(handoff, m)
           n == PagesOf(handoff, Parts[m])
<1>1. /\ handoff \in Handoffs /\ PartsWhole /\ BitsRight
      /\ page_status # <<>> /\ Len(copies) \in 0..2 /\ copies \in Seq(Nat)
      /\ m \in 1..3 /\ m \in 1..4 /\ m + 1 \in 1..4
  <2>1. /\ handoff \in Handoffs /\ PartsWhole /\ BitsRight
        /\ page_status # <<>> /\ Len(copies) < Len(Parts) /\ copies \in Seq(Nat)
    BY DEF MemoryInv, PartsWhole, CopyPart
  <2>2. Len(copies) \in Nat /\ Len(Parts) = 3
    BY <2>1 DEF Parts
  <2>3. Len(copies) < 3
    BY Zenon, <2>1, <2>2
  <2>4. Len(copies) \in 0..2 /\ m \in 1..3 /\ m \in 1..4 /\ m + 1 \in 1..4
    BY Zenon, <2>2, <2>3, BelowThree
  <2> QED BY Zenon, <2>1, <2>4
<1>2. alloc_pages(n) = at
  BY <1>1, FoundNext
<1>3. /\ at \in Nat \ {0} /\ n \in Nat \ {0} /\ at + n = Place(handoff, m + 1)
      /\ FirstPage(handoff) <= at /\ FirstPage(handoff) \in Nat \ {0}
      /\ at + n <= Place(handoff, 4) /\ Place(handoff, 4) \in Nat
  <2>1. /\ n \in Nat \ {0} /\ Place(handoff, m + 1) = at + n
        /\ at \in Nat /\ Place(handoff, m + 1) <= Place(handoff, 4) /\ FirstPage(handoff) <= at
    BY <1>1, Places
  <2>2. FirstPage(handoff) \in Nat \ {0} /\ Place(handoff, 4) \in Nat
    BY <1>1, Places
  <2> QED BY <2>1, <2>2
<1>4. Place(handoff, 4) <= Pages /\ Pages \in Nat /\ Place(handoff, 4) < U32 /\ U32 \in Nat
  BY <1>1, RoomFits, MemoryAssumption
<1>5. Room(handoff) = FirstPage(handoff)..Place(handoff, 4) - 1
  BY <1>1, Places
<1>6. /\ copies' = Append(copies, at) /\ handoff' = handoff
      /\ page_status' = setBits(page_status, at, n, TRUE)
      /\ ram' = [p \in DOMAIN ram \cup at..at + n - 1 |->
                   IF p \in at..at + n - 1 THEN Source(Parts[m], p - at) ELSE ram[p]]
  <2>1. at # npos
    BY <1>3 DEF npos
  <2>2. DivRoundUp(handoff.units[Parts[m]], PAGE_SIZE) = n
    BY DEF PagesOf
  <2> HIDE DEF at, n
  <2> QED BY <1>2, <2>1, <2>2 DEF CopyPart
<1>7. m \in Nat /\ at \in Nat /\ n \in Nat
  BY <1>1, <1>3
<1>8. Len(copies') = m /\ copies' \in Seq(Nat) /\ DOMAIN copies' = 1..m
      /\ copies'[m] = at /\ \A i \in DOMAIN copies : copies'[i] = copies[i]
      /\ DOMAIN copies = 1..m - 1
  BY <1>1, <1>3, <1>6
<1>9. DOMAIN ram = FirstPage(handoff)..at - 1
  BY <1>1 DEF PartsWhole
<1>10. \A k \in 0..n - 1 : Source(Parts[m], k) = <<Parts[m], k>>
  <2> TAKE k \in 0..n - 1
  <2>1. DOMAIN Parts = 1..3
    BY DEF Parts
  <2>2. \A p \in Room(handoff) : p \notin handoff.at[Parts[m]]..handoff.at[Parts[m]] + n - 1
    BY <1>1, <2>1, HandoffAssumption
  <2>3. handoff.at[Parts[m]] \in Nat
    BY <1>1, <2>1, HandoffAssumption
  <2> DEFINE p == handoff.at[Parts[m]] + k
  <2>4. p \in handoff.at[Parts[m]]..handoff.at[Parts[m]] + n - 1
    <3> HIDE DEF n, at
    <3> QED BY <2>3, <1>7
  <2>5. p \notin Room(handoff)
    BY <2>2, <2>4
  <2>6. DOMAIN ram \subseteq Room(handoff)
    BY <1>3, <1>5, <1>9
  <2> QED BY <2>5, <2>6 DEF Source
<1>11. m \in 1..3
  BY <1>1
<1>12. DOMAIN copies' = 1..m
  BY <1>8
<1>13. DOMAIN copies = 1..m - 1
  BY <1>8
<1> HIDE DEF at, n, m
<1>14. DOMAIN ram' = FirstPage(handoff)..at + n - 1
  <2>1. DOMAIN ram' = DOMAIN ram \cup at..at + n - 1
    BY <1>6
  <2> QED BY <1>3, <1>9, <2>1
<1>15. ASSUME NEW i \in DOMAIN copies', NEW k \in 0..PagesOf(handoff, Parts[i]) - 1
       PROVE  copies'[i] = Place(handoff, i) /\ ram'[Place(handoff, i) + k] = <<Parts[i], k>>
  <2>1. CASE i = m
    <3>1. PagesOf(handoff, Parts[i]) = n /\ Place(handoff, i) = at
      BY <2>1 DEF n, at
    <3>2. k \in 0..n - 1 /\ at + k \in at..at + n - 1 /\ (at + k) - at = k
      BY <1>3, <3>1
    <3>3. ram'[at + k] = Source(Parts[m], k)
      BY <1>6, <3>2
    <3> QED BY <1>8, <1>10, <2>1, <3>1, <3>2, <3>3
  <2>2. CASE i # m
    <3>1. i \in DOMAIN copies /\ i \in 1..3 /\ i \in 1..4 /\ i + 1 \in 1..4 /\ i < m
      <4>1. i \in 1..m /\ DOMAIN copies = 1..m - 1 /\ m \in 1..3
        BY Zenon, <1>11, <1>12, <1>13
      <4> QED BY <4>1, <2>2
    <3>2. copies[i] = Place(handoff, i) /\ ram[Place(handoff, i) + k] = <<Parts[i], k>>
      BY <1>1, <3>1 DEF PartsWhole
    <3>3. /\ Place(handoff, i) \in Nat /\ FirstPage(handoff) <= Place(handoff, i)
          /\ PagesOf(handoff, Parts[i]) \in Nat
          /\ Place(handoff, i + 1) = Place(handoff, i) + PagesOf(handoff, Parts[i])
      BY <1>1, <3>1, Places
    <3>4. Place(handoff, i + 1) <= at
      <4>1. CASE i + 1 = m
        BY <4>1, <1>3, <3>3 DEF at
      <4>2. CASE i + 1 # m
        <5>1. i = 1 /\ m = 3
          BY <1>1, <3>1, <4>2
        <5>2. /\ Place(handoff, 2 + 1) = Place(handoff, 2) + PagesOf(handoff, Parts[2])
              /\ PagesOf(handoff, Parts[2]) \in Nat /\ Place(handoff, 2) \in Nat
          BY <1>1, Places
        <5> QED BY <5>1, <5>2 DEF at
      <4> QED BY <4>1, <4>2
    <3>5. Place(handoff, i) + k \in FirstPage(handoff)..at - 1
      BY <3>3, <3>4, <1>3
    <3>6. Place(handoff, i) + k \notin at..at + n - 1 /\ Place(handoff, i) + k \in DOMAIN ram
      BY <3>5, <1>3, <1>9
    <3>7. ram'[Place(handoff, i) + k] = ram[Place(handoff, i) + k]
      BY <1>6, <3>6
    <3> QED BY <1>8, <3>1, <3>2, <3>7
  <2> QED BY <2>1, <2>2
<1>16. ASSUME NEW i \in DOMAIN copies' PROVE copies'[i] = Place(handoff, i)
  <2>1. CASE i = m
    BY <1>8, <2>1 DEF at
  <2>2. CASE i # m
    <3>1. i \in DOMAIN copies
      <4>1. i \in 1..m /\ DOMAIN copies = 1..m - 1 /\ m \in 1..3
        BY Zenon, <1>11, <1>12, <1>13
      <4> QED BY <4>1, <2>2
    <3> QED BY <1>1, <1>8, <3>1 DEF PartsWhole
  <2> QED BY <2>1, <2>2
<1>17. PartsWhole'
  <2>1. FirstPage(handoff)..Place(handoff, m + 1) - 1 = DOMAIN ram'
    BY <1>3, <1>14
  <2>2. m \in Nat /\ m <= 3
    BY <1>1
  <2>3. copies' \in Seq(Nat) /\ Len(copies') <= 3
    BY <1>8, <2>2
  <2>4. DOMAIN ram' = FirstPage(handoff)..Place(handoff, Len(copies') + 1) - 1
    BY Zenon, <1>8, <2>1
  <2>5. \A i \in DOMAIN copies' : copies'[i] = Place(handoff, i)
    BY Zenon, <1>16
  <2>6. \A i \in DOMAIN copies' : \A k \in 0..PagesOf(handoff, Parts[i]) - 1 :
          ram'[Place(handoff, i) + k] = <<Parts[i], k>>
    BY Zenon, <1>15
  <2>7. handoff' = handoff
    BY <1>6
  <2> QED BY Zenon, <2>3, <2>4, <2>5, <2>6, <2>7 DEF PartsWhole
<1>18. \A p \in 0..Pages - 1 :
         /\ at <= p /\ p < at + n => page_status'[p] = TRUE
         /\ ~(at <= p /\ p < at + n) => page_status'[p] = page_status[p]
  <2>1. DOMAIN page_status = 0..Pages - 1
    BY <1>1 DEF BitsRight
  <2>2. \A p \in 0..Pages - 1 : p \in BitsWritten(at, n) <=> at <= p /\ p < at + n
    BY <1>3, <1>4, WrittenExactly
  <2> QED BY <1>6, <2>1, <2>2 DEF setBits
<1>19. DOMAIN page_status' = 0..Pages - 1
  BY <1>1, <1>6 DEF BitsRight, setBits
<1>20. BitsRight'
  <2>1. /\ \A p \in 0..Pages - 1 : p < at => page_status[p]
        /\ \A p \in Room(handoff) : p >= at => ~page_status[p]
        /\ \A p \in 0..Pages - 1, i \in DOMAIN handoff.kernelMap :
              Overlaps(p, handoff.kernelMap[i].base, handoff.kernelMap[i].size) => page_status[p]
    BY <1>1 DEF BitsRight, at, m
  <2>2. ASSUME NEW p \in 0..Pages - 1, p < at + n PROVE page_status'[p]
    <3>1. CASE p < at
      <4>1. page_status'[p] = page_status[p] /\ page_status[p]
        BY <1>18, <1>7, <2>1, <3>1
      <4> QED BY ONLY <4>1
    <3>2. CASE p >= at
      BY <1>18, <2>2, <3>2
    <3> QED BY <1>7, <3>1, <3>2
  <2>3. ASSUME NEW p \in Room(handoff), p >= at + n PROVE ~page_status'[p]
    <3>1. p \in 0..Pages - 1 /\ p >= at
      BY <1>3, <1>4, <1>5, <2>3
    <3>2. page_status'[p] = page_status[p] /\ ~page_status[p]
      BY <1>18, <1>7, <2>1, <2>3, <3>1
    <3> QED BY ONLY <3>2
  <2>4. ASSUME NEW p \in 0..Pages - 1, NEW i \in DOMAIN handoff.kernelMap,
               Overlaps(p, handoff.kernelMap[i].base, handoff.kernelMap[i].size)
        PROVE  page_status'[p]
    BY <1>18, <2>1, <2>4
  <2>5. Place(handoff', Len(copies') + 1) = at + n
    BY <1>3, <1>6, <1>8
  <2> QED BY <1>6, <1>19, <2>2, <2>3, <2>4, <2>5 DEF BitsRight
<1>21. page_status' # <<>>
  <2>1. 0 \in DOMAIN page_status'
    BY <1>3, <1>4, <1>19
  <2> QED BY <2>1
<1> QED BY <1>1, <1>6, <1>17, <1>20, <1>21 DEF MemoryInv

LEMMA MemoryKept ==
  ASSUME MemoryInv, UNCHANGED <<handoff, page_status, ram, copies>>
  PROVE  MemoryInv'
BY DEF MemoryInv, PartsWhole, BitsRight

LEMMA MemoryInvStep ==
  ASSUME MemoryInv, MemoryStep \/ UNCHANGED memVars
  PROVE  MemoryInv'
<1>1. CASE UNCHANGED memVars \/ DropPageZero
  BY <1>1, MemoryKept DEF memVars, DropPageZero
<1> QED BY <1>1, MemoryMarked, MemoryCopied DEF MemoryStep

LEMMA MemoryImplies == MemoryInv => HandoffWhole
<1> SUFFICES ASSUME MemoryInv PROVE HandoffWhole
  OBVIOUS
<1>1. handoff \in Handoffs /\ PartsWhole /\ (page_status # <<>> => BitsRight)
  BY DEF MemoryInv
<1>2. PAGE_SIZE \in Nat \ {0} /\ U32 \in Nat /\ handoff.stack \in Nat
  BY <1>1, MemoryAssumption, HandoffAssumption
<1>3. /\ copies \in Seq(Nat) /\ Len(copies) \in Nat /\ Len(copies) <= 3
      /\ DOMAIN copies = 1..Len(copies)
  BY <1>1 DEF PartsWhole
<1>4. ASSUME NEW i \in DOMAIN copies
      PROVE  LET count == DivRoundUp(handoff.units[Parts[i]], PAGE_SIZE)
             IN  /\ copies[i] # npos
                 /\ \A k \in 0..count - 1 : ram[copies[i] + k] = <<Parts[i], k>>
  <2>1. i \in 1..4
    BY <1>3
  <2>2. Place(handoff, i) # 0
    <3>1. /\ Place(handoff, i) \in Nat /\ FirstPage(handoff) <= Place(handoff, i)
          /\ FirstPage(handoff) \in Nat \ {0}
      BY <1>1, <2>1, Places
    <3> QED BY <3>1
  <2>3. copies[i] = Place(handoff, i)
    BY <1>1 DEF PartsWhole
  <2>4. \A k \in 0..PagesOf(handoff, Parts[i]) - 1 : ram[Place(handoff, i) + k] = <<Parts[i], k>>
    BY <1>1 DEF PartsWhole
  <2> QED BY <2>2, <2>3, <2>4 DEF npos, PagesOf
<1>5. ASSUME NEW p \in DOMAIN ram PROVE p \in Room(handoff)
  <2>1. Len(copies) + 1 \in 1..4
    BY <1>3
  <2>2. /\ Place(handoff, Len(copies) + 1) <= Place(handoff, 4) /\ Place(handoff, 4) \in Nat
        /\ Place(handoff, Len(copies) + 1) \in Nat
    BY <1>1, <2>1, Places
  <2>3. Room(handoff) = FirstPage(handoff)..Place(handoff, 4) - 1 /\ FirstPage(handoff) \in Nat
    BY <1>1, Places
  <2>4. p \in FirstPage(handoff)..Place(handoff, Len(copies) + 1) - 1
    BY <1>1 DEF PartsWhole
  <2> QED BY <2>2, <2>3, <2>4
<1>6. ASSUME NEW p \in Room(handoff) PROVE p \in FreeRam
  <2>1. p \in 0..Pages - 1
    BY <1>1, MarkedRight
  <2>2. PICK i \in DOMAIN handoff.e820 :
          LET e == handoff.e820[i]
          IN  /\ e.free /\ e.base + e.size < U32
              /\ \A q \in Room(handoff) : e.base <= q * PAGE_SIZE
                                          /\ (q + 1) * PAGE_SIZE <= e.base + e.size
    BY <1>1, HandoffAssumption
  <2> DEFINE e == handoff.e820[i]
             lo == p * PAGE_SIZE
             hi == (p + 1) * PAGE_SIZE
  <2>3. /\ e.free /\ e.base \in Nat /\ e.size \in Nat
        /\ e.base <= lo /\ hi <= e.base + e.size
    BY <1>1, <2>2, HandoffAssumption
  <2>4. lo \in Nat /\ hi \in Nat
    BY <1>2, <2>1
  <2>5. \A u \in lo..hi - 1 : e.free /\ e.base <= u /\ u < e.base + e.size
    <3> HIDE DEF e, lo, hi
    <3> QED BY <2>3, <2>4
  <2> QED BY <2>1, <2>5 DEF FreeRam
<1>9. \A p \in Room(handoff) : p \notin handoff.entries
  BY <1>1, HandoffAssumption
<1>7. ASSUME NEW p \in Room(handoff) PROVE ~InUseAtStart(p)
  <2>1. p \notin handoff.tables
        /\ \A i \in DOMAIN handoff.kernelMap :
             ~Overlaps(p, handoff.kernelMap[i].base, handoff.kernelMap[i].size)
    BY <1>1, HandoffAssumption
  <2>2. FirstPage(handoff) <= p /\ p \in Nat
    <3>1. Room(handoff) = FirstPage(handoff)..Place(handoff, 4) - 1 /\ FirstPage(handoff) \in Nat
          /\ Place(handoff, 4) \in Nat
      BY <1>1, Places
    <3> QED BY <3>1
  <2>3. handoff.stack + PAGE_SIZE <= p * PAGE_SIZE
    BY <1>2, <2>2, RoundedUp DEF FirstPage
  <2>4. p * PAGE_SIZE \in Nat
    BY <1>2, <2>2
  <2>5. ~(p * PAGE_SIZE <= handoff.stack)
    BY <1>2, <2>3, <2>4
  <2> QED BY <2>1, <2>5 DEF InUseAtStart
<1>8. ASSUME page_status # <<>>, NEW p \in 0..Pages - 1, InUseAtStart(p), p \notin handoff.tables
      PROVE  page_status[p]
  <2>1. BitsRight
    BY <1>1, <1>8
  <2>2. CASE \E i \in DOMAIN handoff.kernelMap :
               Overlaps(p, handoff.kernelMap[i].base, handoff.kernelMap[i].size)
    BY <2>1, <2>2 DEF BitsRight
  <2>3. CASE p * PAGE_SIZE <= handoff.stack
    <3>1. p * PAGE_SIZE < handoff.stack + PAGE_SIZE
      BY <1>2, <2>3
    <3>2. p < FirstPage(handoff)
      <4>1. p \in Nat /\ handoff.stack + PAGE_SIZE \in Nat
        BY <1>2, <1>8
      <4> QED BY <1>2, <3>1, <4>1, RoundedUp DEF FirstPage
    <3>3. Len(copies) + 1 \in 1..4
      BY <1>3
    <3>4. /\ FirstPage(handoff) <= Place(handoff, Len(copies) + 1) /\ FirstPage(handoff) \in Nat
          /\ Place(handoff, Len(copies) + 1) \in Nat
      BY <1>1, <3>3, Places
    <3>5. p < Place(handoff, Len(copies) + 1)
      BY <3>2, <3>4
    <3> QED BY <2>1, <3>5 DEF BitsRight
  <2> QED BY <1>8, <2>2, <2>3 DEF InUseAtStart
<1> QED BY <1>4, <1>5, <1>6, <1>7, <1>8, <1>9 DEF HandoffWhole

\* Only InitMemory touches the memory.
LEMMA MemoryAlone ==
  ASSUME Next \/ UNCHANGED vars
  PROVE  MemoryStep \/ UNCHANGED memVars
<1>1. CASE UNCHANGED vars
  BY <1>1 DEF vars
<1>2. CASE InitializeHw
  BY <1>2 DEF InitializeHw, InitCpu, InitMemory, InitVfs, PIT_init, Ps2Start, init_keyboard,
     FlushKeyboard, StartScan, StartLine, startVars
<1>3. CASE TakeInterrupt \/ TimerTick \/ KeyboardActs \/ KeyPressed
  BY <1>3 DEF TakeInterrupt, TimerTick, KeyboardActs, KeyPressed, Outside
<1>4. CASE Scan \/ InitDrivers \/ ServeEvent \/ (DriverStep /\ UNCHANGED startVars) \/ UsbHardware
  BY <1>4 DEF Scan, InitDrivers, ServeEvent, UsbHardware, startVars
<1> QED BY <1>1, <1>2, <1>3, <1>4 DEF Next, Kernel

(* HandoffSurvives, for any memory map and any layout of what is handed      *)
(* over that leaves room above the stack: each block alloc_cp is called for  *)
(* is moved whole, to free memory where nothing runs and where the entries   *)
(* of the kernel map, which stay behind, do not lie; and the kernel and its  *)
(* stack stay reserved (initialize_memory, alloc_cp).                        *)
THEOREM HandoffIsMoved == Spec => []HandoffSurvives
<1>1. Init => MemoryInv
  BY MemoryInvInit DEF Init
<1>2. MemoryInv /\ [Next]_vars => MemoryInv'
  BY MemoryAlone, MemoryInvStep
<1>3. MemoryInv => HandoffSurvives
  BY MemoryImplies DEF HandoffSurvives
<1> QED BY <1>1, <1>2, <1>3, PTL DEF Spec
=============================================================================
