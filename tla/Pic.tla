-------------------------------- MODULE Pic --------------------------------
(***************************************************************************)
(* The two interrupt controllers of the machine (8259A), as the kernels'    *)
(* drivers use them: a record per controller, changed by the bytes written  *)
(* to its ports and by the requests of the lines.                           *)
(***************************************************************************)
EXTENDS Integers, Sequences, FiniteSets, SequencesExt

Bits(value) == {i \in 0..7 : (value \div 2^i) % 2 = 1}
Chip(p) == IF p \in {32, 33} THEN "master" ELSE "slave"

EndOfInterrupt == 32

\* What a controller does with a byte: ICW1 starts over, three bytes to its
\* other port follow, later ones are the mask.  Bit 0 of the last of the three,
\* ICW4, chooses 8086 mode.
Command(c, value) ==
    CASE 4 \in Bits(value) -> [c EXCEPT !.init = 2, !.imr = {}, !.irr = {}, !.isr = {},
                                              !.mode86 = FALSE]
      [] value = EndOfInterrupt -> IF c.isr = {} THEN c ELSE [c EXCEPT !.isr = @ \ {Min(@)}]
      [] OTHER -> c
Data(c, value) ==
    CASE c.init = 2 -> [c EXCEPT !.init = 3, !.base = value]
      [] c.init = 3 -> [c EXCEPT !.init = 4]
      [] c.init = 4 -> [c EXCEPT !.init = 0, !.mode86 = 0 \in Bits(value)]
      [] OTHER -> [c EXCEPT !.imr = Bits(value)]
Outb(chips, write) ==
    LET chip == Chip(write[1])
    IN  [chips EXCEPT ![chip] = IF write[1] \in {32, 160} THEN Command(@, write[2])
                                                          ELSE Data(@, write[2])]

\* A byte to each of the controllers, one after the other.
OutbBoth(chips, first, second) == Outb(Outb(chips, first), second)

Raise(chips, line) ==
    IF line < 8 THEN [chips EXCEPT !["master"].irr = @ \cup {line}]
                ELSE [chips EXCEPT !["slave"].irr = @ \cup {line - 8}]

\* The first line that is requested and not masked, if it is above all in
\* service.  The slave requests line 2.
Requests(chips) ==
    LET m == chips["master"]
        s == chips["slave"]
    IN  (m.irr \cup IF s.irr \ s.imr = {} THEN {} ELSE {2}) \ m.imr
Pending(chips, line) ==
    /\ chips["master"].init = 0
    /\ line \in Requests(chips) /\ \A l \in Requests(chips) : line <= l
    /\ \A l \in chips["master"].isr : line < l

\* Behind line 2 the slave names the vector.  A real 8259A that is not in 8086
\* mode answers with the bytes of an 8080's CALL, of which the CPU takes the
\* second for the vector: eight times the line, as ICW1 of both kernels has it.
\* An emulated one, such as that of the emulator the repository runs in, ignores
\* the mode.
VectorOf(chips, line) ==
    LET chip == IF line = 2 THEN chips["slave"] ELSE chips["master"]
        own == IF line = 2 THEN Min(chips["slave"].irr) ELSE line
    IN  IF chips.kind = "8259A" /\ ~chip.mode86 THEN 8 * own ELSE chip.base + own
Acknowledged(chips, line) ==
    [chips EXCEPT !["master"].irr = @ \ {line}, !["master"].isr = @ \cup {line}]

\* As the BIOS leaves the controllers, with requests to the slave.
BiosPic(requests, kind) ==
    [master |-> [init |-> 0, base |-> 8, imr |-> {3, 4, 5, 6, 7}, irr |-> {}, isr |-> {},
                 mode86 |-> TRUE],
     slave |-> [init |-> 0, base |-> 112, imr |-> {}, irr |-> requests, isr |-> {},
                mode86 |-> TRUE],
     kind |-> kind]
=============================================================================
