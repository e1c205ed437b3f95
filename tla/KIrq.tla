-------------------------------- MODULE KIrq --------------------------------
(***************************************************************************)
(* The processor tables of the c-kernel (arch/GDT, arch/IDT, arch/ISR), its *)
(* interrupt controllers (arch/IRQ) and its timer (resources/timer.c), as   *)
(* start uses them.  The gates are interrupt gates: a handler runs from its *)
(* stub to its iret with interrupts off, which is one action.               *)
(***************************************************************************)
EXTENDS Pic

CONSTANT TssAddress   \* &g_tss, of 32 bits

ASSUME TssAssumption == TssAddress \in Nat /\ TssAddress \div 2^24 < 256

VARIABLES
  gdt,           \* gdt_entries
  segments,      \* the selectors in the CPU's segment registers and its task register
  closed,        \* IDT: the vectors whose gate is not present
  isrHandlers,   \* vector -> handler
  irq_handlers,  \* line -> handler
  pic,           \* the controllers' registers; they are real ones
  interrupts,    \* the CPU's interrupt flag
  timer          \* g_timer_ctx: its callback; did it count, was a line warned about

irqVars == <<gdt, segments, closed, isrHandlers, irq_handlers, pic, interrupts, timer>>

-----------------------------------------------------------------------------
\* GDT.c: an entry holds its base and its limit in pieces.

GDT_PRESENT_ENTRY == 128
GDT_CODE_SEGMENT == 24
GDT_DATA_SEGMENT == 16
GDT_ALLOW == 2             \* GDT_ALLOW_CODE_READ, GDT_ALLOW_DATA_WRITE
GDT_32BIT_4K == 192        \* GDT_32BIT_SEGMENT | GDT_GRANULARITY_4K
GDT_32BIT_TSS == 9
i686_GDT_CODE_SEGMENT == 8
i686_GDT_DATA_SEGMENT == 16
TSS_SELECTOR == 24         \* entry 3
TSS_SIZE == 104

GDT_ENTRY(base, limit, access, flags) ==
  [limit_low |-> limit % 65536,
   base_low |-> base % 65536,
   base_mid |-> (base \div 65536) % 256,
   access_byte |-> access,
   flags_limit_high |-> ((limit \div 65536) % 16) + flags,
   base_high |-> (base \div 2^24) % 256]

NullEntry == GDT_ENTRY(0, 0, 0, 0)
gdt_entries ==
  <<NullEntry,
    GDT_ENTRY(0, 65535, GDT_PRESENT_ENTRY + GDT_CODE_SEGMENT + GDT_ALLOW, GDT_32BIT_4K),
    GDT_ENTRY(0, 65535, GDT_PRESENT_ENTRY + GDT_DATA_SEGMENT + GDT_ALLOW, GDT_32BIT_4K),
    NullEntry, NullEntry, NullEntry, NullEntry>>

i686_init_gdt == [cs |-> i686_GDT_CODE_SEGMENT, ds |-> i686_GDT_DATA_SEGMENT, tr |-> 0]

\* What the processor reads back at a selector.
EntryAt(selector) == gdt[selector \div 8 + 1]
BaseOf(e) == e.base_low + e.base_mid * 65536 + e.base_high * 2^24
LimitOf(e) == e.limit_low + (e.flags_limit_high % 16) * 65536
Present(e) == e.access_byte >= 128
TypeOf(e) == e.access_byte % 32

\* x86_gdt_add_tss, which leaves the first three entries alone.
AddTss(id) ==
  IF id < 3 THEN UNCHANGED <<gdt, segments>>
  ELSE /\ gdt' = [gdt EXCEPT ![id + 1] =
                    GDT_ENTRY(TssAddress, TSS_SIZE - 1, GDT_PRESENT_ENTRY + GDT_32BIT_TSS, 0)]
       /\ segments' = [segments EXCEPT !.tr = id * 8]

-----------------------------------------------------------------------------
\* PIC.c.

MASTER_PIC_COMMAND == 32
MASTER_PIC_DATA == 33
SLAVE_PIC_COMMAND == 160
SLAVE_PIC_DATA == 161
PIC_EOI_VAL == EndOfInterrupt
REMAP_PIC_OFFSET == 32
ICW1 == 17           \* ICW1_INIT | ICW1_ICW4
ICW4_8086 == 1

PIC_remap(chips, offset1, offset2) ==
  LET icw1 == OutbBoth(chips, <<MASTER_PIC_COMMAND, ICW1>>, <<SLAVE_PIC_COMMAND, ICW1>>)
      icw2 == OutbBoth(icw1, <<MASTER_PIC_DATA, offset1>>, <<SLAVE_PIC_DATA, offset2>>)
      icw3 == OutbBoth(icw2, <<MASTER_PIC_DATA, 4>>, <<SLAVE_PIC_DATA, 2>>)
      icw4 == OutbBoth(icw3, <<MASTER_PIC_DATA, ICW4_8086>>, <<SLAVE_PIC_DATA, ICW4_8086>>)
  IN  OutbBoth(icw4, <<MASTER_PIC_DATA, 255>>, <<SLAVE_PIC_DATA, 255>>)

init_pic(chips) == PIC_remap(chips, REMAP_PIC_OFFSET, REMAP_PIC_OFFSET + 8)

PIC_irq_unmask(chips, irq_line) ==
  [chips EXCEPT ![Chip(IF irq_line < 8 THEN MASTER_PIC_DATA ELSE SLAVE_PIC_DATA)].imr =
     @ \ {irq_line % 8}]

PIC_EOI(chips, irq) ==
  Outb(IF irq >= 8 THEN Outb(chips, <<SLAVE_PIC_COMMAND, PIC_EOI_VAL>>) ELSE chips,
       <<MASTER_PIC_COMMAND, PIC_EOI_VAL>>)

-----------------------------------------------------------------------------
\* IDT.c, ISR.c, IRQ.c.

Vectors == 0..255
IrqLines == 0..15

\* Every gate leads to the stub of its own number, which pushes it.
_i686_init_default_handlers == [v \in Vectors |-> v]

\* i686_init_isr opens all gates but one.
i686_init_isr == {128}

\* init_irq up to the point where interrupts come on.
i686_set_isr(handlers, vectors, handler) ==
  [v \in DOMAIN handlers \cup vectors |-> IF v \in vectors THEN handler ELSE handlers[v]]

IRQ_registerHandler(handlers, irq, handler) ==
  [l \in DOMAIN handlers \cup ({irq} \cap IrqLines) |-> IF l = irq THEN handler ELSE handlers[l]]

\* initialize_i686 up to x86_enable_interrupts in init_irq.
InitializeCpu ==
  /\ segments' = i686_init_gdt
  /\ closed' = i686_init_isr
  /\ pic' = init_pic(pic)
  /\ isrHandlers' = i686_set_isr(isrHandlers, {REMAP_PIC_OFFSET + l : l \in IrqLines},
                                 "_default_irq_handler")
  /\ interrupts' = TRUE
  /\ UNCHANGED <<gdt, irq_handlers, timer>>

-----------------------------------------------------------------------------
\* timer.c.

\* initialize_timer in its three parts: interrupts are off and the rate is set;
\* the line is unmasked; its handler is registered and interrupts are on.
Seed_TimerOff ==  \* seeded fault: interrupts stay on
  UNCHANGED irqVars

TimerOff ==
  /\ interrupts' = FALSE
  /\ timer' = [timer EXCEPT !.callback = "null"]
  /\ UNCHANGED <<gdt, segments, closed, isrHandlers, irq_handlers, pic>>
TimerUnmask ==
  /\ pic' = PIC_irq_unmask(pic, 0)
  /\ UNCHANGED <<gdt, segments, closed, isrHandlers, irq_handlers, interrupts, timer>>
TimerOn ==
  /\ irq_handlers' = IRQ_registerHandler(irq_handlers, 0, "_timer_interrupt")
  /\ interrupts' = TRUE
  /\ UNCHANGED <<gdt, segments, closed, isrHandlers, pic, timer>>

timer_setup_callback(callback) == timer' = [timer EXCEPT !.callback = callback]

\* _timer_interrupt counts; the callback, once there is one, finds preemption
\* disabled for as long as start runs.
_timer_interrupt(t) == [t EXCEPT !.served = TRUE]

-----------------------------------------------------------------------------
\* An interrupt: _default_isr_handler with _default_irq_handler.  A vector
\* without a handler ends in a panic, a line without one in a warning.

Handled(irqLine) ==
  LET v == _i686_init_default_handlers[VectorOf(pic, irqLine)]
  IN  v \notin closed /\ v \in DOMAIN isrHandlers

Serve(irqLine) ==
  LET irq == VectorOf(pic, irqLine) - REMAP_PIC_OFFSET IN
  /\ pic' = PIC_EOI(Acknowledged(pic, irqLine), irq)
  /\ timer' = IF irq \in DOMAIN irq_handlers /\ irq_handlers[irq] = "_timer_interrupt"
              THEN _timer_interrupt(timer) ELSE [timer EXCEPT !.unhandled = TRUE]
  /\ UNCHANGED <<gdt, segments, closed, isrHandlers, irq_handlers, interrupts>>

Request(irqLine) ==
  /\ pic' = Raise(pic, irqLine)
  /\ UNCHANGED <<gdt, segments, closed, isrHandlers, irq_handlers, interrupts, timer>>

g_timer_ctx == [callback |-> "null", served |-> FALSE, unhandled |-> FALSE]

IrqInit(requests) ==
  /\ gdt = gdt_entries
  /\ segments = [cs |-> 0, ds |-> 0, tr |-> 0]
  /\ closed = Vectors
  /\ isrHandlers = [v \in {} |-> ""]
  /\ irq_handlers = [l \in {} |-> ""]
  /\ pic = BiosPic(requests, "8259A")
  /\ interrupts = FALSE
  /\ timer = g_timer_ctx
=============================================================================
