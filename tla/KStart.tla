------------------------------- MODULE KStart -------------------------------
(***************************************************************************)
(* The start of the c-kernel (boot/boot.c) and the text its threads print   *)
(* from then on.  The boot thread sets up the processor, the terminals, the *)
(* timer and the scheduler, with interrupts on from the first of them; then *)
(* the threads take over, and any of them may log at any moment.  Heap and  *)
(* page allocator are in modules KHeap and PageMgr, the scheduler is in     *)
(* KmtSched: here threads interleave freely.                                *)
(***************************************************************************)
EXTENDS KIrq, Tty

\* The threads that print.
ASSUME PrinterAssumption == Printer \subseteq {"kidle", "syscore", "pcihub"}

VARIABLES
  k_at,      \* where the boot thread is in start
  kpanic,    \* how far kernel_panic has come; 0: it was not called
  granted    \* did the pcihub thread get the pages it asks for

startVars == <<irqVars, out, printVars, k_at, kpanic, granted>>

StartInit ==
  /\ IrqInit({0})
  /\ PrintInit
  /\ k_at = "cpu"
  /\ kpanic = 0
  /\ granted = TRUE

-----------------------------------------------------------------------------
\* kernel_panic turns interrupts off and prints past the terminals; the panics
\* of _default_isr_handler do the same.  No tty is given to the printer.

tty_panic_printf(text) ==
  <<[op |-> "panic"]>> \o
  [i \in DOMAIN text |-> [op |-> "putc", glyph |-> Glyphs(text, CON_COLOR_RED, <<"panic", 0>>)[i]]]

PanicCode ==
  tty_panic_printf(<<"K", "newline">>) \o tty_panic_printf(<<"tab", "M">>) \o tty_panic_printf(<<"newline">>)

Seed_KernelPanic ==  \* seeded fault: interrupts stay on
  /\ kpanic' = 1
  /\ UNCHANGED <<irqVars>>

KernelPanic ==
  /\ kpanic' = 1
  /\ interrupts' = FALSE
  /\ UNCHANGED <<gdt, segments, closed, isrHandlers, irq_handlers, pic, timer>>

PanicStep ==
  /\ kpanic \in DOMAIN PanicCode /\ ~out.wild
  /\ LET i == PanicCode[kpanic] IN
       out' = IF i.op = "panic" THEN [out EXCEPT !.g_panic = TRUE]
              ELSE gp_putc(out, NULL_TTY, i.glyph)
  /\ kpanic' = kpanic + 1
  /\ UNCHANGED <<irqVars, printVars, k_at, granted>>

-----------------------------------------------------------------------------
\* start.  An interrupt that is pending comes before the next step.

BootRuns(step) ==
  /\ k_at = step /\ kpanic = 0
  /\ ~(interrupts /\ \E l \in Requests(pic) : Pending(pic, l))
BootGoes(step) == k_at' = step /\ UNCHANGED <<kpanic, granted, printVars>>

BootCpu == BootRuns("cpu") /\ InitializeCpu /\ BootGoes("tss") /\ UNCHANGED out

BootTss ==
  /\ BootRuns("tss")
  /\ AddTss(3)
  /\ BootGoes("console")
  /\ UNCHANGED <<closed, isrHandlers, irq_handlers, pic, interrupts, timer, out>>

\* The console, tty0 and the first messages.
BootConsole ==
  /\ BootRuns("console")
  /\ LET cleared == tty_clear(initialize_console_manager(out)) IN
       out' = BootPrints(logging_set_tty(cleared, "tty0"), CON_COLOR_CYAN, <<"s", "newline">>, <<"boot", 1>>)
  /\ BootGoes("memory")
  /\ UNCHANGED irqVars

\* The heap and the page allocator; when initialize_buddy_allocator fails
\* (a map that does not fit its tree) the boot ends here.
BootMemory ==
  /\ BootRuns("memory")
  /\ \/ BootGoes("timer") /\ UNCHANGED <<irqVars, out>>
     \/ KernelPanic /\ UNCHANGED <<out, printVars, k_at, granted>>

BootTimer ==
  \/ BootRuns("timer") /\ TimerOff /\ BootGoes("unmask") /\ UNCHANGED out
  \/ BootRuns("unmask") /\ TimerUnmask /\ BootGoes("register") /\ UNCHANGED out
  \/ BootRuns("register") /\ TimerOn /\ BootGoes("multitasking") /\ UNCHANGED out

\* initialize_multitasking: what the timer sees of it.
BootMultitasking ==
  /\ BootRuns("multitasking")
  /\ timer_setup_callback("kmt_preemptive_intr_handler")
  /\ BootGoes("tty1")
  /\ UNCHANGED <<gdt, segments, closed, isrHandlers, irq_handlers, pic, interrupts, out>>

\* tty1, with the mutex 0 its own allocation locks and releases meanwhile.
BootTty1 ==
  /\ BootRuns("tty1")
  /\ \E position \in StalePositions :
       out' = BootPrints(logging_set_tty(construct_tty(out, position), "tty1"),
                         CON_COLOR_CYAN, <<"m", "newline">>, <<"boot", 2>>)
  /\ BootGoes("handoff")
  /\ UNCHANGED irqVars

\* kmt_spawn_idle_thread: from here on the threads run.
BootHandoff ==
  /\ BootRuns("handoff")
  /\ granted' \in BOOLEAN
  /\ k_at' = "threads"
  /\ UNCHANGED <<irqVars, out, printVars, kpanic>>

BootThread ==
  \/ BootCpu \/ BootTss \/ BootConsole \/ BootMemory
  \/ BootTimer \/ BootMultitasking \/ BootTty1 \/ BootHandoff

\* The timer asks for its line, from the BIOS's time on; a request to the slave
\* is there from the beginning.
TimerRequest ==
  /\ k_at # "threads"
  /\ Raise(pic, 0) # pic /\ Request(0)
  /\ UNCHANGED <<out, printVars, k_at, kpanic, granted>>

TakeInterrupt ==
  /\ k_at # "threads" /\ interrupts /\ kpanic = 0
  /\ \E l \in Requests(pic) :
       /\ Pending(pic, l)
       /\ IF Handled(l) THEN Serve(l) /\ UNCHANGED kpanic ELSE KernelPanic
  /\ UNCHANGED <<out, printVars, k_at, granted>>

-----------------------------------------------------------------------------
\* The threads.  The pcihub thread panics when it gets no pages.

Program(t) ==
  CASE t = "kidle" -> sys_logf(CON_COLOR_CYAN, <<"I">>, <<"i", "newline">>, <<"kidle", 1>>)
    [] t = "syscore" -> sys_logf(CON_COLOR_CYAN, <<"S">>, <<"a", "b", "c", "newline">>, <<"syscore", 1>>)
    [] t = "pcihub" ->
         IF granted THEN pci_pretty_print(<<"P">>, << <<"d", "newline">>, <<"e", "newline">> >>, <<"pcihub", 1>>)
         ELSE thread_panic(<<"P">>, <<"p">>, "pcihub")

Instruction(t) == Program(t)[line[t] + 1]
Ended(t) == line[t] = Len(Program(t))

\* A thread is switched to by the timer's interrupt.
ThreadRuns(t) == k_at = "threads" /\ ~Ended(t) /\ (kpanic = 0 \/ interrupts)

ThreadPrints ==
  /\ \E t \in Printer : ThreadRuns(t) /\ Execute(t, Instruction(t))
  /\ UNCHANGED <<irqVars, k_at, kpanic, granted>>

ThreadUnlockPanics ==
  /\ kpanic = 0
  /\ \E t \in Printer : ThreadRuns(t) /\ UnlockPanics(t, Instruction(t))
  /\ KernelPanic
  /\ UNCHANGED <<out, printVars, k_at, granted>>

\* An exception, or a kpanic of syscore, at any moment.
Exception ==
  /\ k_at = "threads" /\ kpanic = 0 /\ ~out.wild
  /\ KernelPanic
  /\ UNCHANGED <<out, printVars, k_at, granted>>

StartNext ==
  \/ BootThread \/ TimerRequest \/ TakeInterrupt
  \/ ThreadPrints \/ ThreadUnlockPanics \/ Exception \/ PanicStep

\* Nothing is left to do.
StartOver ==
  \/ kpanic > Len(PanicCode)
  \/ out.wild
  \/ k_at = "threads" /\ kpanic = 0 /\ \A t \in Printer : Ended(t)

-----------------------------------------------------------------------------
\* Properties.

\* Interrupts are on while start runs: whatever line is unmasked then has its
\* gate and its handler, no interrupt was left in service, none came to a vector
\* or a line without a handler, and both controllers name the vectors of the
\* lines in 8086 mode; the processor finds the kernel's code and data
\* segments and the task state where the registers point.
StartInterruptsHandled ==
  /\ ~timer.unhandled
  /\ pic["master"].isr = {} /\ pic["slave"].isr = {}
  /\ interrupts =>
       \A l \in 0..7 \ pic["master"].imr :
         l \in DOMAIN irq_handlers /\ REMAP_PIC_OFFSET + l \in DOMAIN isrHandlers \ closed
  /\ k_at # "cpu" =>
       /\ pic["master"].base = REMAP_PIC_OFFSET /\ pic["slave"].base = REMAP_PIC_OFFSET + 8
       /\ pic["master"].mode86 /\ pic["slave"].mode86
       /\ TypeOf(EntryAt(segments.cs)) \div 8 = 3 /\ TypeOf(EntryAt(segments.ds)) \div 8 = 2
       /\ BaseOf(EntryAt(segments.cs)) = 0
  /\ k_at \notin {"cpu", "tss"} =>
       LET e == EntryAt(TSS_SELECTOR) IN
       /\ segments.tr = TSS_SELECTOR
       /\ Present(e) /\ TypeOf(e) = GDT_32BIT_TSS
       /\ BaseOf(e) = TssAddress /\ LimitOf(e) >= TSS_SIZE - 1

\* Every character on the screen is in the colour its printf asked for, though
\* terminals buffer their text and share the colour of the console.
TextInItsColour ==
  \A y \in Rows, x \in Columns :
    LET c == out.vga.screen[y][x] IN
      c.glyph \notin {None, Space, Junk} => c.color % 16 = c.glyph.want

\* The screen is the tail of what was written, and the next character goes
\* after it, through wrapped lines, newlines, tabs and scrolling.
ScreenShowsTail == ShowsTail(out.vga)

\* A record of the log comes out whole: once another record follows it on the
\* screen, nothing more of it appears.  When all threads are done, everything
\* they printed has come out.
Recorded(g) == g \notin {Space, Junk} /\ g.ch # "tab"
Records(shown) ==
  LET upTo[i \in 0 .. Len(shown)] ==
        IF i = 0 THEN << >>
        ELSE IF Recorded(shown[i]) THEN Append(upTo[i - 1], shown[i]) ELSE upTo[i - 1]
  IN  upTo[Len(shown)]

RecordsWhole ==
  LET shown == Records(out.vga.shown)
      rec(i) == shown[i].rec
  IN  /\ \A i \in 1 .. Len(shown) - 1 :
           rec(i) # rec(i + 1) => \A j \in i + 2 .. Len(shown) : rec(j) # rec(i)
      /\ k_at = "threads" /\ kpanic = 0 /\ ~out.wild /\ (\A t \in Printer : Ended(t)) =>
           /\ out.buffer = << >>
           /\ \A t \in Printer : \A i \in DOMAIN Program(t) :
                Program(t)[i].op = "putc" =>
                  \E j \in DOMAIN shown : shown[j] = Program(t)[i].glyph

\* The message of a panic is the last on the screen, whole, and does not go
\* through a terminal: no thread prints into it, and none clears g_panic.
Said(k) == Records([i \in 1 .. k |-> IF PanicCode[i].op = "putc" THEN PanicCode[i].glyph ELSE Space])

PanicIsLast ==
  kpanic > 0 =>
    LET shown == Records(out.vga.shown)
        said == Said(kpanic - 1)
        n == Len(shown) - Len(said)
    IN  /\ n >= 0
        /\ \A i \in DOMAIN said : shown[n + i] = said[i]
=============================================================================
