-------------------------------- MODULE Tty --------------------------------
(***************************************************************************)
(* Text output of the c-kernel: the consoles (resources/console.c), the     *)
(* terminals (resources/tty.c), the log (utils/logger.c) and the panics     *)
(* (panic/panic.c, syscore/thread_panic.c).                                 *)
(*                                                                          *)
(* `out` holds the screen, the console and the two terminals of the kernel. *)
(* What a thread prints is a sequence of instructions, the steps at which   *)
(* another thread can take over.  A character is a record of its text, the  *)
(* colour its printf asked for, and the record of the log it is part of.    *)
(***************************************************************************)
EXTENDS VgaTxt

CONSTANTS
  Printer,          \* the threads
  BufferSize,       \* of tty1 (64)
  StalePositions    \* what tty1's buffer_pos can hold before its first write

ASSUME BufferAssumption == BufferSize \in Nat \ {0} /\ StalePositions \subseteq Nat

VARIABLES
  out,        \* the screen, the early console, the terminals, the log's terminal
  owner,      \* the thread that owns the mutex of tty1
  waiting,    \* and those that wait for it
  line,       \* line[t]: the instructions thread t has done
  tty_scopes  \* tty_scopes[t]: the lock scopes thread t is in

printVars == <<owner, waiting, line, tty_scopes>>

CON_COLOR_RED == 4
CON_COLOR_CYAN == 3
CON_COLOR_MAGENTA == 5
CON_COLOR_BROWN == 6
CON_COLOR_WHITE == 7

NULL_TTY == "null"

-----------------------------------------------------------------------------
\* console.c.  Nothing but the early console is ever registered or made safe.

console_write(o, text) == [o EXCEPT !.vga = vgatxt_write(@, o.text_color, text)]

initialize_console_manager(o) ==
  [o EXCEPT !.vga = vga_txt_get_earlyconsole(@), !.text_color = CON_COLOR_WHITE]

-----------------------------------------------------------------------------
\* tty.c.  wild: a character went through a null pointer or outside the buffer.

NoOutput ==
  [vga |-> Unlit, text_color |-> 0, buffer |-> << >>,
   log |-> NULL_TTY, g_panic |-> FALSE, wild |-> FALSE]

Buffered(tty) == tty = "tty1"     \* tty0 has TTY_NO_BUFFERING

\* The buffer of tty1 is memory nobody wrote yet, and so is its position.
Junk == [ch |-> "?", want |-> 0, rec |-> <<"junk", 0>>]
construct_tty(o, position) == [o EXCEPT !.buffer = [i \in 1 .. position |-> Junk]]

logging_set_tty(o, tty) == [o EXCEPT !.log = tty]

tty_clear(o) == [o EXCEPT !.vga = vgatxt_clr_screen(@)]

tty_flush(o, tty) ==
  IF Buffered(tty) THEN [console_write(o, o.buffer) EXCEPT !.buffer = << >>] ELSE o

\* Room for one more character.
Room(o) == IF Len(o.buffer) = BufferSize THEN tty_flush(o, "tty1") ELSE o

Stored(o, g) ==
  LET r == Room(o) IN
    [r EXCEPT !.buffer = Append(@, g), !.wild = @ \/ Len(r.buffer) > BufferSize]

gp_putc(o, tty, g) ==
  CASE o.g_panic -> console_write([o EXCEPT !.text_color = CON_COLOR_RED], <<g>>)
    [] ~o.g_panic /\ tty = NULL_TTY -> [o EXCEPT !.wild = TRUE]
    [] ~o.g_panic /\ tty = "tty0" -> console_write(o, <<g>>)
    [] OTHER -> IF g.ch = "newline" THEN tty_flush(Stored(o, g), tty) ELSE Stored(o, g)

Seed_SetColor(o, tty, color) == [o EXCEPT !.text_color = color]  \* seeded fault: no flush

\* The colour of a printf: what is buffered in another one is written first.
SetColor(o, tty, color) ==
  [(IF o.text_color # color THEN tty_flush(o, tty) ELSE o) EXCEPT !.text_color = color]

-----------------------------------------------------------------------------
\* What is printed, as instructions.

Glyphs(text, color, rec) == [i \in DOMAIN text |-> [ch |-> text[i], want |-> color, rec |-> rec]]

Lock == <<[op |-> "lock", calm |-> FALSE]>>
Unlock == <<[op |-> "unlock"]>>

\* tty_printf and tty_vprintf: no panic is under way, then a scope of the lock.
tty_printf(color, text, rec) ==
  <<[op |-> "lock", calm |-> TRUE], [op |-> "color", color |-> color]>>
    \o [i \in DOMAIN text |-> [op |-> "putc", glyph |-> Glyphs(text, color, rec)[i]]]
    \o Unlock

Seed_sys_logf(color, name, text, rec) ==  \* seeded fault: no scope around the two
  tty_printf(CON_COLOR_BROWN, name, rec) \o tty_printf(color, text, rec)

\* sys_logf: the name of the thread and the message in one scope of the lock.
sys_logf(color, name, text, rec) ==
  Lock \o tty_printf(CON_COLOR_BROWN, name, rec) \o tty_printf(color, text, rec) \o Unlock

\* pci_pretty_print holds the lock of the log over all its messages.
pci_pretty_print(name, texts, rec) ==
  Lock \o FlattenSeq([i \in DOMAIN texts |-> sys_logf(CON_COLOR_MAGENTA, name, texts[i], rec)])
       \o Unlock

\* thread_panic holds no lock between its messages: each is a record of its own.
thread_panic(name, message, rec) ==
  tty_printf(CON_COLOR_BROWN, name, <<rec, 1>>)
    \o tty_printf(CON_COLOR_RED, <<"!", "newline">>, <<rec, 2>>)
    \o tty_printf(CON_COLOR_RED, message, <<rec, 3>>)
    \o tty_printf(CON_COLOR_RED, <<"newline">>, <<rec, 4>>)
    \o tty_printf(CON_COLOR_WHITE, <<"k", "newline">>, <<rec, 5>>)

\* The boot thread is alone with the terminals: what it logs is one step.
BootPrint(o, i) ==
  CASE i.op = "color" -> SetColor(o, o.log, i.color)
    [] i.op = "putc" -> gp_putc(o, o.log, i.glyph)
    [] OTHER -> o

BootPrints(o, color, text, rec) ==
  LET code == sys_logf(color, <<"B">>, text, rec)
      after[i \in 0 .. Len(code)] == IF i = 0 THEN o ELSE BootPrint(after[i - 1], code[i])
  IN  after[Len(code)]

-----------------------------------------------------------------------------
\* A thread does the next instruction of its program.  The lock is the mutex of
\* tty1 (module KmtMutex): who does not get it waits, and unlocking a mutex
\* somebody waits for ends in kernel_panic.

Nobody == "nobody"
Blocked(t) == \E i \in DOMAIN waiting : waiting[i] = t

LockTerminal(t, calm) ==
  /\ out' = [out EXCEPT !.g_panic = @ /\ ~calm]
  /\ IF owner \in {t, Nobody}
     THEN /\ owner' = t
          /\ tty_scopes' = [tty_scopes EXCEPT ![t] =
                              Append(@, IF owner = t THEN "nested" ELSE "locked")]
          /\ line' = [line EXCEPT ![t] = @ + 1]
          /\ UNCHANGED waiting
     ELSE /\ waiting' = Append(waiting, t)
          /\ UNCHANGED <<owner, tty_scopes, line>>

UnlockTerminal(t) ==
  /\ waiting = << >> \/ Last(tty_scopes[t]) = "nested"
  /\ owner' = IF Last(tty_scopes[t]) = "nested" THEN owner ELSE Nobody
  /\ tty_scopes' = [tty_scopes EXCEPT ![t] = Front(@)]
  /\ line' = [line EXCEPT ![t] = @ + 1]
  /\ UNCHANGED <<out, waiting>>

Emit(t, o) ==
  /\ out' = o
  /\ line' = [line EXCEPT ![t] = @ + 1]
  /\ UNCHANGED <<owner, waiting, tty_scopes>>

Execute(t, i) ==
  /\ ~Blocked(t) /\ ~out.wild
  /\ \/ i.op = "lock" /\ LockTerminal(t, i.calm)
     \/ i.op = "unlock" /\ UnlockTerminal(t)
     \/ i.op = "color" /\ Emit(t, SetColor(out, out.log, i.color))
     \/ i.op = "putc" /\ Emit(t, gp_putc(out, out.log, i.glyph))

\* The unlock that finds threads waiting (HandOver in KmtMutex).
UnlockPanics(t, i) ==
  ~Blocked(t) /\ ~out.wild /\ i.op = "unlock" /\ waiting # << >> /\ Last(tty_scopes[t]) = "locked"

PrintInit ==
  /\ out = NoOutput
  /\ owner = Nobody
  /\ waiting = << >>
  /\ line = [t \in Printer |-> 0]
  /\ tty_scopes = [t \in Printer |-> << >>]
=============================================================================
