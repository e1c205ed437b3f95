--------------------------------- MODULE Ps2 ---------------------------------
(***************************************************************************)
(* The PS/2 controller and keyboard of pos-kernel (hw/ps2): PS2_init talks  *)
(* to the controller by polling, against timeouts of the timer, and the     *)
(* keyboard is served by interrupts from then on.                           *)
(***************************************************************************)
EXTENDS PosIrq

CONSTANTS MaxPresses,   \* keys pressed while the kernel starts
          ScanCodes,    \* and which
          TimeoutSeconds     \* how long PS2_out and PS2_in wait (3 seconds)

ASSUME Ps2Assumption == TicksPerSecond \in Nat \ {0} /\ TimeoutSeconds \in Nat \ {0}

VARIABLES
    kbc,      \* the controller, and the keyboard behind it
    ps2,      \* where PS2_init is, its ccb; late: something timed out that the keyboard
              \* depends on
    kbd       \* shiftMode, latestKey; down: the keys that are not Released

ps2Vars == <<kbc, ps2, kbd>>

FromBits(bits) == CHOOSE value \in 0..255 : Bits(value) = bits

PS2_ERROR == 252
PS2_COMMAND_ACK == 250
IrqBit == 0          \* PS2_FIRST_INTERRUPT_ENABLE
Irq2Bit == 1
ClockOffBit == 4     \* PS2_FIRST_PORT_CLK_DISABLE
Clock2OffBit == 5
TranslateBit == 6

-----------------------------------------------------------------------------
\* PS2_init, as the accesses it makes.

Out(port, value) == [do |-> "out", port |-> port, value |-> value]
In(what) == [do |-> "in", what |-> what]
CCB == -1            \* stands for the variable ccb
PS2_init ==
    <<Out("command", 173), Out("command", 167), [do |-> "flush"],
      Out("command", 32), In("ccb"), Out("command", 96), Out("data", CCB),
      Out("command", 170), In("test"), Out("command", 174), Out("command", 168),
      Out("command", 96), Out("data", CCB), Out("data", 255), In("ack"), In("bat")>>
EnableOp == 12       \* where the ccb gets its interrupt and translation bits

Op == PS2_init[ps2.op]
Ps2Done == ps2.op > Len(PS2_init)

\* Mutant of GoOn: the two bits are set when the configuration has been sent.
Seed_GoOn(state) ==
    [state EXCEPT !.op = @ + 1, !.at = "ticks",
                  !.ccb = IF state.op + 1 = EnableOp + 2 THEN @ \cup {IrqBit, TranslateBit} ELSE @,
                  !.late = @ /\ state.op + 1 # EnableOp]

\* The next access; the configuration that is written back is changed on the way.
\* What was late before that does not matter from there on.
GoOn(state) ==
    [state EXCEPT !.op = @ + 1, !.at = "ticks",
                  !.ccb = IF state.op + 1 = EnableOp THEN @ \cup {IrqBit, TranslateBit} ELSE @,
                  !.late = @ /\ state.op + 1 # EnableOp]

-----------------------------------------------------------------------------
\* The controller: one byte in, one byte out, its own answers and the keyboard's
\* bytes behind it, a configuration byte.  Where there is none all bits of its
\* status are set.

InputFull == kbc.kind = "absent" \/ kbc.input # <<>>
OutputFull == kbc.kind = "absent" \/ kbc.out # <<>>

\* x86_inb of the data port: the next byte, or the last one again.
ReadByte(k) == IF k.kind = "absent" THEN 255 ELSE IF k.out = <<>> THEN k.last ELSE Head(k.out)
AfterRead(k) == IF k.kind = "absent" \/ k.out = <<>> THEN k
                ELSE [k EXCEPT !.out = <<>>, !.last = Head(k.out)]

\* Line 1 rises with every byte in the output buffer.
KeyboardLine(chips, k) == IF k.out # <<>> /\ IrqBit \in k.ccb THEN Raise(chips, 1) ELSE chips

\* Commands; a byte to the data port is the configuration after command 60h and
\* goes to the keyboard otherwise, whose clock that turns on.
Obeyed(k, port, value) ==
    LET idle == [k EXCEPT !.input = <<>>, !.config = FALSE]
    IN  CASE port = "data" /\ k.config -> [idle EXCEPT !.ccb = Bits(value)]
          [] port = "data" /\ ~k.config ->
                 [idle EXCEPT !.ccb = @ \ {ClockOffBit}, !.keys = Append(@, PS2_COMMAND_ACK),
                              !.testing = TRUE]
          [] port = "command" /\ value = 32  -> [idle EXCEPT !.answers = Append(@, FromBits(k.ccb))]
          [] port = "command" /\ value = 96  -> [idle EXCEPT !.config = TRUE]
          [] port = "command" /\ value = 167 -> [idle EXCEPT !.ccb = @ \cup {Clock2OffBit}]
          [] port = "command" /\ value = 168 -> [idle EXCEPT !.ccb = @ \ {Clock2OffBit}]
          [] port = "command" /\ value = 170 -> [idle EXCEPT !.answers = Append(@, 85)]
          [] port = "command" /\ value = 173 -> [idle EXCEPT !.ccb = @ \cup {ClockOffBit}]
          [] port = "command" /\ value = 174 -> [idle EXCEPT !.ccb = @ \ {ClockOffBit}]
          [] OTHER -> idle

\* What the hardware does: obey, fill the output buffer, report the keyboard's
\* own test.  A controller is absent, dead (it never takes a byte), slow (any
\* time passes before it acts, or before the kernel looks) or prompt (it and the
\* kernel act within a tick).
Changed(k) == kbc' = k /\ pic' = KeyboardLine(pic, k)
Obey == kbc.input # <<>> /\ Changed(Obeyed(kbc, kbc.input[1], kbc.input[2]))
KeysFlow(k) == k.keys # <<>> /\ ClockOffBit \notin k.ccb
Load ==
    /\ kbc.out = <<>>
    /\ \/ /\ kbc.answers # <<>>
          /\ Changed([kbc EXCEPT !.out = <<Head(kbc.answers)>>, !.answers = Tail(@)])
       \/ /\ kbc.answers = <<>> /\ KeysFlow(kbc)
          /\ Changed([kbc EXCEPT !.out = <<Head(kbc.keys)>>, !.keys = Tail(@)])
Idle(k) == k.input = <<>> /\ ~k.testing /\ (k.out # <<>> \/ (k.answers = <<>> /\ ~KeysFlow(k)))
ReportTest == kbc.testing /\ Changed([kbc EXCEPT !.testing = FALSE, !.keys = Append(@, 170)])
Acting == kbc.kind # "dead" /\ (Obey \/ Load \/ ReportTest)

\* Keys are pressed at a prompt controller only: they and late answers together
\* make too many cases.
Press == \E code \in ScanCodes :
    /\ kbc.kind = "prompt" /\ kbc.pressed < MaxPresses
    /\ Changed([kbc EXCEPT !.keys = Append(@, code), !.pressed = @ + 1])

Ready == IF Op.do = "out" THEN ~InputFull ELSE OutputFull

\* The timer's edge.  Its period is longer than the assignments of
\* PIT_setTimeout take: at most one tick comes between them.
Tick ==
    /\ ps2.at \in {"enable", "clear"} => 0 \notin pic["master"].irr /\ pit.age = 0
    /\ kbc.kind = "prompt" => Idle(kbc) /\ ps2.at # "act" /\ (ps2.at = "poll" => ~Ready)
    /\ pic' = Raise(pic, 0)
    /\ UNCHANGED kbc

-----------------------------------------------------------------------------
\* keyboardHandler.  A key stands for its place in keys, ASCIITable for the codes
\* that have a character.  Enter, space and backspace are never released.

Shifts == {42, 54}
Entered == {14, 28, 57}
keyboardHandler(kb, code) ==
    LET key == code % 128
    IN  CASE code \in Shifts -> [kb EXCEPT !.shiftMode = TRUE, !.down = @ \cup {key}]
          [] code \in {170, 182} -> [kb EXCEPT !.shiftMode = FALSE, !.down = @ \ {key}]
          [] code \in Entered -> [kb EXCEPT !.latestKey = <<FALSE, key>>, !.down = @ \cup {key}]
          [] code >= 128 /\ code \notin {170, 182} ->
                 [kb EXCEPT !.down = IF key \in Entered THEN @ ELSE @ \ {key}]
          [] OTHER -> [kb EXCEPT !.latestKey = <<kb.shiftMode, key>>, !.down = @ \cup {key}]

NoKeys == [shiftMode |-> FALSE, latestKey |-> <<FALSE, 0>>, down |-> {}]
flush_keyboard(kb) == [kb EXCEPT !.down = {}]

Handled(handler) ==
    /\ pit' = IF handler = "PIT_timer_irq" THEN PIT_timer_irq(pit) ELSE pit
    /\ IF handler = "keyboardHandler"
       THEN kbd' = keyboardHandler(kbd, ReadByte(kbc)) /\ kbc' = AfterRead(kbc)
       ELSE UNCHANGED <<kbd, kbc>>

Interrupt ==
    \E line \in Requests(pic) :
        /\ Dispatch(line)
        /\ Handled(HandlerOf(line))
        /\ UNCHANGED ps2

-----------------------------------------------------------------------------
\* PS2_init.

\* What a byte read means to PS2_init; a wrong one ends it.
Answer(state, what, byte) ==
    CASE what = "ccb" -> GoOn([state EXCEPT !.ccb = Bits(byte) \ {IrqBit, Irq2Bit, TranslateBit}])
      [] what = "test" /\ byte = 85 -> GoOn(state)
      [] what = "ack" /\ byte = PS2_COMMAND_ACK -> GoOn(state)
      [] what = "bat" /\ byte = 170 -> GoOn(state)
      [] OTHER -> [state EXCEPT !.op = Len(PS2_init) + 1, !.at = "ticks"]

Flush ==
    /\ Op.do = "flush"
    /\ kbc' = AfterRead(kbc)
    /\ ps2' = GoOn(ps2)
    /\ UNCHANGED <<pic, pit>>

\* Mutant of SetTimeout: the old timeout is taken back before the new one is set.
Seed_SetTimeout ==
    /\ Op.do # "flush"
    /\ \/ ps2.at = "ticks"  /\ pit' = SetPending(pit) /\ ps2' = [ps2 EXCEPT !.at = "enable"]
       \/ ps2.at = "enable" /\ pit' = SetEnabled(pit) /\ ps2' = [ps2 EXCEPT !.at = "clear"]
       \/ ps2.at = "clear"  /\ pit' = SetTicks(pit, TimeoutSeconds) /\ ps2' = [ps2 EXCEPT !.at = "poll"]
    /\ UNCHANGED <<pic, kbc>>

SetTimeout ==
    /\ Op.do # "flush"
    /\ \/ ps2.at = "ticks"  /\ pit' = SetTicks(pit, TimeoutSeconds) /\ ps2' = [ps2 EXCEPT !.at = "enable"]
       \/ ps2.at = "enable" /\ pit' = SetEnabled(pit) /\ ps2' = [ps2 EXCEPT !.at = "clear"]
       \/ ps2.at = "clear"  /\ pit' = SetPending(pit) /\ ps2' = [ps2 EXCEPT !.at = "poll"]
    /\ UNCHANGED <<pic, kbc>>

\* The loop ends when the controller is ready or the time is over.
Poll ==
    /\ ps2.at = "poll"
    /\ Ready \/ pit.timedout
    /\ ps2' = [ps2 EXCEPT !.at = "act"]
    /\ UNCHANGED <<pic, kbc, pit>>

\* The time is looked at again: a byte that came just before its end is left, a
\* command is not sent, and PS2_init goes on either way.  The two answers of the
\* keyboard's reset change nothing when they are late.
Late == [ps2 EXCEPT !.late = @ \/ Op.do = "out" \/ ps2.op < EnableOp]
Act ==
    /\ ps2.at = "act"
    /\ \/ /\ pit.timedout
          /\ ps2' = IF Op.do = "in" THEN Answer(Late, Op.what, PS2_ERROR) ELSE GoOn(Late)
          /\ UNCHANGED kbc
       \/ /\ ~pit.timedout /\ Op.do = "out"
          /\ kbc' = [kbc EXCEPT !.input =
                        <<Op.port, IF Op.value = CCB THEN FromBits(ps2.ccb) ELSE Op.value>>]
          /\ ps2' = GoOn(ps2)
       \/ /\ ~pit.timedout /\ Op.do = "in"
          /\ ps2' = Answer(ps2, Op.what, ReadByte(kbc))
          /\ kbc' = AfterRead(kbc)
    /\ UNCHANGED <<pic, pit>>

Ps2Step ==
    /\ ~Ps2Done
    /\ Flush \/ SetTimeout \/ Poll \/ Act
    /\ UNCHANGED <<closed, isrHandlers, irq_handlers, interrupts, panic, kbd>>

Ps2Init(kind, config) ==
    /\ kbc = [kind |-> kind, input |-> <<>>, out |-> <<>>, answers |-> <<>>, keys |-> <<>>, last |-> 0, config |-> FALSE,
              ccb |-> config, testing |-> FALSE, pressed |-> 0]
    /\ ps2 = [op |-> 1, at |-> "ticks", ccb |-> {}, late |-> FALSE]
    /\ kbd = NoKeys
=============================================================================
