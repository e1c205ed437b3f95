------------------------------- MODULE PosIrq -------------------------------
(***************************************************************************)
(* Interrupts of pos-kernel: the gates and stubs (arch/IDT, arch/ISR), the  *)
(* two interrupt controllers (arch/IRQ) and the timer (hw/pit).  The gates  *)
(* are interrupt gates: a handler runs from its stub to its iret with       *)
(* interrupts off, which is one action here.                                *)
(***************************************************************************)
EXTENDS Pic

CONSTANT TicksPerSecond   \* ticks PIT_setTimeout counts for a second (18)

VARIABLES
    pic,            \* the controllers' registers, and whether they are real or emulated
    closed,         \* IDT: the vectors whose gate is not present
    isrHandlers,    \* vector -> handler
    irq_handlers,   \* line -> handler
    interrupts,     \* the CPU's interrupt flag
    panic,          \* an interrupt nobody handles stopped the kernel
    pit             \* PIT_ticks_till_timeout, _timer_enabled, _timedout; and the
                    \* ticks it counted since it was set

irqVars == <<pic, closed, isrHandlers, irq_handlers, interrupts, panic, pit>>

-----------------------------------------------------------------------------
\* PIC.c.  The ports of the slave are those of the master, which so gets ICW1
\* twice, then both offsets, of which the second is its ICW3, and 4 as its ICW4.

MASTER_PIC_COMMAND == 32
MASTER_PIC_DATA == 33
SLAVE_PIC_COMMAND == 32
SLAVE_PIC_DATA == 33
PIC_EOI_VAL == EndOfInterrupt
REMAP_PIC_OFFSET == 32
ICW1 == 17           \* ICW1_INIT | ICW1_ICW4
ICW4_8086 == 1

PIC_remap(chips, offset1, offset2) ==
    LET icw1 == OutbBoth(chips, <<MASTER_PIC_COMMAND, ICW1>>, <<SLAVE_PIC_COMMAND, ICW1>>)
        icw2 == OutbBoth(icw1, <<MASTER_PIC_DATA, offset1>>, <<SLAVE_PIC_DATA, offset2>>)
        icw3 == OutbBoth(icw2, <<MASTER_PIC_DATA, 4>>, <<SLAVE_PIC_DATA, 2>>)
        icw4 == OutbBoth(icw3, <<MASTER_PIC_DATA, ICW4_8086>>, <<SLAVE_PIC_DATA, ICW4_8086>>)
    IN  OutbBoth(icw4, <<MASTER_PIC_DATA, 255>>, <<SLAVE_PIC_DATA, 255>>)

init_pic(chips) == PIC_remap(chips, REMAP_PIC_OFFSET, REMAP_PIC_OFFSET + 8)

PIC_irq_unmask(chips, line) ==
    LET chip == Chip(IF line < 8 THEN MASTER_PIC_DATA ELSE SLAVE_PIC_DATA)
    IN  [chips EXCEPT ![chip].imr = @ \ {line % 8}]

PIC_EOI(chips, irq) ==
    Outb(IF irq >= 8 THEN Outb(chips, <<SLAVE_PIC_COMMAND, PIC_EOI_VAL>>) ELSE chips,
         <<MASTER_PIC_COMMAND, PIC_EOI_VAL>>)

-----------------------------------------------------------------------------
\* The tables.

Vectors == 0..255
IrqLines == 0..15

\* The stub at gate v pushes v, an error code under it if the CPU pushed none,
\* and calls _default_isr_handler.
StubOf(v) == v
_i686_init_default_handlers == [v \in Vectors |-> StubOf(v)]

\* initialize_i686, with interrupts off: all gates but that of 80h, the handler
\* of the 16 lines, the controllers, then interrupts.
InitializeCpu ==
    /\ closed' = {128}
    /\ isrHandlers' = [v \in {REMAP_PIC_OFFSET + l : l \in IrqLines} |-> "_default_irq_handler"]
    /\ pic' = init_pic(pic)
    /\ interrupts' = TRUE
    /\ UNCHANGED <<irq_handlers, panic, pit>>

IRQ_registerHandler(handlers, irq, handler) ==
    [l \in DOMAIN handlers \cup ({irq} \cap IrqLines) |-> IF l = irq THEN handler ELSE handlers[l]]

-----------------------------------------------------------------------------
\* PIT.c.

PIT_timer_irq(p) ==
    IF ~p.enabled THEN p
    ELSE [ticks |-> p.ticks - 1,          \* wraps after the last tick, unread
          enabled |-> p.enabled /\ p.ticks # 0,
          timedout |-> p.timedout \/ p.ticks = 0,
          age |-> p.age + 1]

\* The three assignments of PIT_setTimeout, which interrupts can come between.
SetTicks(p, t) == [p EXCEPT !.ticks = t * TicksPerSecond, !.age = 0]
SetEnabled(p) == [p EXCEPT !.enabled = TRUE]
SetPending(p) == [p EXCEPT !.timedout = FALSE]

-----------------------------------------------------------------------------
\* An interrupt, from the controller to the iret.

VectorFor(line) == _i686_init_default_handlers[VectorOf(pic, line)]
IrqFor(line) == VectorFor(line) - REMAP_PIC_OFFSET
IsHandled(line) == VectorFor(line) \notin closed /\ VectorFor(line) \in DOMAIN isrHandlers

\* _default_irq_handler calls the handler of the line or warns.
HandlerOf(line) ==
    IF ~IsHandled(line) THEN "panic"
    ELSE IF IrqFor(line) \in DOMAIN irq_handlers THEN irq_handlers[IrqFor(line)] ELSE "log_warn"

\* _default_isr_handler: the line ends with an EOI, or the kernel panics.
Dispatch(line) ==
    /\ interrupts /\ ~panic /\ Pending(pic, line)
    /\ panic' = ~IsHandled(line)
    /\ pic' = IF IsHandled(line) THEN PIC_EOI(Acknowledged(pic, line), IrqFor(line))
              ELSE Acknowledged(pic, line)
    /\ UNCHANGED <<closed, isrHandlers, irq_handlers, interrupts>>

NoTimeout == [ticks |-> 0, enabled |-> FALSE, timedout |-> FALSE, age |-> 0]

IrqInit(requests, kind) ==
    /\ pic = BiosPic(requests, kind)
    /\ closed = Vectors
    /\ isrHandlers = [v \in {} |-> ""]
    /\ irq_handlers = [l \in {} |-> ""]
    /\ interrupts = FALSE
    /\ panic = FALSE
    /\ pit = NoTimeout
=============================================================================
