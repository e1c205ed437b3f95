-------------------------------- MODULE Uhci ---------------------------------
(***************************************************************************)
(* The USB driver of pos-kernel (drivers/usb/hci/uhci.cpp): a UHCI          *)
(* controller is reset and given its schedule, then its ports are looked at *)
(* one after the other; a device that comes out of the reset of its port is *)
(* asked for its descriptor and its strings and is given an address.  The   *)
(* controller runs beside the driver: it executes the transfer the driver   *)
(* linked, while the driver sleeps and polls.                               *)
(***************************************************************************)
EXTENDS PosPci

CONSTANTS
    Ports,    \* ports of a controller (2)
    Tries,    \* PORT_RESTART_TRIES (10)
    Polls,    \* looks at a transfer before it times out (100)
    Replugs   \* how often a device is pulled out or put in, while the kernel runs

ASSUME UsbAssumption == Ports \in Nat \ {0} /\ Tries \in Nat /\ Tries > 1

VARIABLES
    pc,           \* where the kernel is
    node,         \* the device that is set up: event.trigger_node
    step,         \* the BAR or the port that is next
    try,          \* the try of resetPort that is next
    ask,          \* the transfer setupDevice makes next
    controllers,  \* uhci_kdriver::controllers and those before push_back
    port,         \* controller -> port -> its PORTSC register
    address,      \* controller -> port -> the address the device there answers to
    control,      \* controller -> its control queue head, linked to a transfer or not
    xfer,         \* the transfer under way
    replugged,    \* devices that were pulled out or put in so far
    failed        \* <<controller, port>>: the devices a transfer to which failed

uhciVars == <<pc, node, step, try, ask, controllers, port, address, control, xfer, replugged, failed>>

UHCI_QControl == 8
UHCI_QUEUE_COUNT == 10

NoXfer == [kind |-> "none", address |-> 0, value |-> 0, td |-> <<>>, polls |-> 0]

\* The control transfers of setupDevice, in their order.
Asks == <<"GET_DESC", "MANUFACTURER", "PRODUCT", "SERIAL", "SET_ADDR">>
After(a) == Asks[1 + CHOOSE i \in DOMAIN Asks : Asks[i] = a]

\* The packets of a transfer: setup, data (all of them as one) unless it goes
\* out, status.
Packets(kind) == IF kind = "SET_ADDR" THEN 2 ELSE 3

Uhcis == {at \in DOMAIN machine : machine[at].class = "uhci"}

\* PORTSC at power on: the change bit tells of a device that was there.
Register(c, p) == [connected |-> p \in machine[c].plugged, changed |-> p \in machine[c].plugged,
                   enabled |-> FALSE]

UhciInit ==
    /\ pc = "boot"
    /\ node = ROOT
    /\ step = 0
    /\ try = 0
    /\ ask = "GET_DESC"
    /\ controllers = <<>>
    /\ port = [c \in Uhcis |-> [p \in 0..Ports - 1 |-> Register(c, p)]]
    /\ address = [c \in Uhcis |-> [p \in 0..Ports - 1 |-> 0]]
    /\ control = [c \in Uhcis |-> FALSE]
    /\ xfer = NoXfer
    /\ replugged = 0
    /\ failed = {}

this == nodes[node].data

(***************************************************************************)
(* The controller and the devices on its ports: hardware.                  *)
(***************************************************************************)

\* Setup: the queue head that frame i starts at.
FrameStart(i) == 7 - Cardinality({k \in 1..7 : (i + 1) % (2 ^ k) = 0})

\* The queue heads are linked from each one to the next.
VisitedIn(i) == FrameStart(i)..UHCI_QUEUE_COUNT - 1

\* The devices that answer to an address: ports that are enabled.
Answering(c, a) == {p \in 0..Ports - 1 : port[c][p].enabled /\ address[c][p] = a}

Running == xfer.kind # "none"

\* The packet the controller is at: one that was refused is sent again.
Current == LET left == {i \in DOMAIN xfer.td : xfer.td[i] \in {"active", "nak"}}
           IN  IF left = {} THEN 0 ELSE CHOOSE i \in left : \A j \in left : i <= j

\* A packet is answered, refused for now or stalled.  With the status packet of
\* SET_ADDR the devices that answer take their address, even when the
\* controller misses the handshake: then nobody answers to the old one.
Execute(c) ==
    LET i == Current
        heard == Answering(c, xfer.address)
        adopts == xfer.kind = "SET_ADDR" /\ i = Packets(xfer.kind)
    IN  /\ Running /\ control[c] /\ i # 0 /\ heard # {}
        /\ "error" \notin Range(xfer.td)
        /\ {f \in 0..127 : UHCI_QControl \in VisitedIn(f)} # {}
        /\ \E got \in {"done", "nak", "error", "missed"}, who \in (SUBSET heard) \ {{}} :
              /\ got = "missed" => adopts
              /\ who # heard => adopts
              /\ xfer' = IF got = "missed" THEN xfer ELSE [xfer EXCEPT !.td[i] = got]
              /\ address' = IF adopts /\ got \in {"done", "missed"}
                            THEN [address EXCEPT ![c] = [p \in DOMAIN @ |->
                                    IF p \in who THEN xfer.value ELSE @[p]]]
                            ELSE address
        /\ UNCHANGED <<vfsVars, pciVars, pc, node, step, try, ask, controllers, port,
                       control, replugged, failed>>

\* A device is pulled out or put in: the port is off and tells of the change.
Replug(c, p) ==
    /\ replugged < Replugs
    /\ replugged' = replugged + 1
    /\ port' = [port EXCEPT ![c][p] = [connected |-> ~@.connected, changed |-> TRUE,
                                       enabled |-> FALSE]]
    /\ address' = [address EXCEPT ![c][p] = 0]
    /\ UNCHANGED <<vfsVars, pciVars, pc, node, step, try, ask, controllers, control, xfer, failed>>

(***************************************************************************)
(* The driver.                                                             *)
(***************************************************************************)

\* device::setup: each BAR in turn, unless the ports are known already.
SetupBar ==
    /\ pc = "setup"
    /\ IF step < Bars /\ (step > 0 \/ portBase[node] = 0)
       THEN getDeviceBAR(node, step) /\ step' = step + 1 /\ pc' = pc
       ELSE pc' = "init" /\ UNCHANGED <<bar, portBase, step>>
    /\ UNCHANGED <<vfsVars, machine, calls, host, pci_device_count, node, try, ask, controllers,
                   port, address, control, xfer, replugged, failed>>

\* Init: a controller that does not come back from its reset in its default
\* state fails the event, and that halts the kernel.
InitFails ==
    /\ pc = "init"
    /\ pc' = "halted"
    /\ UNCHANGED <<vfsVars, pciVars, node, step, try, ask, controllers, port, address, control,
                   xfer, replugged, failed>>

\* Setup: every queue is empty and the controller runs its frames.
ScheduleReady(c) == control' = [control EXCEPT ![c] = FALSE]

\* Init succeeds: a directory for the controller, its schedule, its first port.
AddController ==
    /\ pc = "init"
    /\ pc' = "probe"
    /\ step' = 0
    /\ LET name == <<"uhci", Len(controllers)>>
       IN  /\ nodes' = add_vnode(nodes, <<<<"dev">>>>, make_node(name, TRUE, "none", this))
           /\ controllers' = Append(controllers, [at |-> this, name |-> name,
                                                  addressCount |-> 1, device_count |-> 0])
    /\ ScheduleReady(this)
    /\ UNCHANGED <<events, pciVars, node, try, ask, port, address, xfer, replugged, failed>>

\* The end of Setup and of the event: the port is not there.
LastPort == pc' = "idle" /\ UNCHANGED <<step, try, ask>>
NextPort == pc' = "probe" /\ step' = step + 1 /\ UNCHANGED <<try, ask>>

\* isPortPresent: what is read is written back, so the change bits are cleared.
ProbePort ==
    /\ pc = "probe"
    /\ IF step < Ports
       THEN /\ pc' = "present"
            /\ ask' = "GET_DESC"
            /\ port' = [port EXCEPT ![this][step].changed = FALSE]
            /\ UNCHANGED <<step, try>>
       ELSE LastPort /\ UNCHANGED port
    /\ UNCHANGED <<vfsVars, pciVars, node, controllers, address, control, xfer, replugged, failed>>

\* A change bit that is set again makes it no port at all.
ConfirmPort ==
    /\ pc = "present"
    /\ IF port[this][step].changed THEN LastPort ELSE pc' = "reset" /\ UNCHANGED <<step, try, ask>>
    /\ UNCHANGED <<vfsVars, pciVars, node, controllers, port, address, control, xfer, replugged,
                   failed>>

\* resetPort sets the reset bit, sleeps and clears it: the device is off, at
\* address 0.
ResetPort ==
    /\ pc = "reset"
    /\ pc' = "retry"
    /\ try' = 0
    /\ port' = [port EXCEPT ![this][step].enabled = FALSE, ![this][step].changed = FALSE]
    /\ address' = [address EXCEPT ![this][step] = 0]
    /\ UNCHANGED <<vfsVars, pciVars, node, step, ask, controllers, control, xfer, replugged, failed>>

\* What becomes of resetPort's answer: the second time it is not looked at.
ResetDone(ok) ==
    IF ok \/ ask = "SET_ADDR" THEN pc' = "send" /\ UNCHANGED <<step, try, ask>> ELSE NextPort

\* One pass of its loop: it looks at the enable bit of port 0, whatever the port.
RetryReset ==
    /\ pc = "retry"
    /\ LET r == port[this][step]
       IN  IF try = Tries \/ ~r.connected THEN ResetDone(FALSE) /\ UNCHANGED port
           ELSE IF ~r.changed /\ port[this][0].enabled THEN ResetDone(TRUE) /\ UNCHANGED port
           ELSE /\ port' = [port EXCEPT ![this][step] =
                              IF @.changed THEN [@ EXCEPT !.changed = FALSE]
                              ELSE [@ EXCEPT !.enabled = TRUE]]
                /\ try' = try + 1
                /\ UNCHANGED <<pc, step, ask>>
    /\ UNCHANGED <<vfsVars, pciVars, node, controllers, address, control, xfer, replugged, failed>>

\* insertToQueue: a queue that holds a transfer is walked past its end.
insertToQueue(c) ==
    IF control[c] THEN pc' = "fault" /\ UNCHANGED control
    ELSE pc' = "wait" /\ control' = [control EXCEPT ![c] = TRUE]

removeFromQueue(c) == control' = [control EXCEPT ![c] = FALSE]

\* controlIn and controlOut link a transfer whose packets are all to be done.
SendTransfer ==
    /\ pc = "send"
    /\ insertToQueue(this)
    /\ xfer' = [kind |-> ask, address |-> 0, value |-> Last(controllers).addressCount,
                td |-> [i \in 1..Packets(ask) |-> "active"], polls |-> Polls]
    /\ UNCHANGED <<vfsVars, pciVars, node, step, try, ask, controllers, port, address, replugged,
                   failed>>

\* getTransferStatus: the first packet that is not done decides.
TransferStatus ==
    LET open == {i \in DOMAIN xfer.td : xfer.td[i] # "done"}
    IN  IF open = {} THEN "done" ELSE xfer.td[CHOOSE i \in open : \A j \in open : i <= j]

\* Mutant: the time that passed is not counted.
Seed_KeepWaiting ==
    /\ pc = "wait" /\ TransferStatus = "active" /\ xfer.polls > 1
    /\ UNCHANGED vfsVars /\ UNCHANGED pciVars /\ UNCHANGED uhciVars

\* waitTillTransferComplete: only a packet nobody answered yet is waited for.
KeepWaiting ==
    /\ pc = "wait" /\ TransferStatus = "active" /\ xfer.polls > 1
    /\ xfer' = [xfer EXCEPT !.polls = @ - 1]
    /\ UNCHANGED <<vfsVars, pciVars, pc, node, step, try, ask, controllers, port, address, control,
                   replugged, failed>>

\* SET_ADDR succeeded: the device is listed, and the next one has the next address.
ListUsb ==
    LET c == Last(controllers)
    IN  /\ controllers' = Append(Front(controllers),
                                 [c EXCEPT !.addressCount = @ + 1, !.device_count = @ + 1])
        /\ add_dnode(<<<<"dev">>, c.name>>,
                     make_node(<<"usb", c.device_count>>, FALSE, "USB",
                               [at |-> this, port |-> step, address |-> c.addressCount]))

\* Where setupDevice goes on with what the device said: a packet size of 0 is
\* divided by, which panics (divided); of the strings, once all three came, one
\* of no bytes or of more than 127, as its first byte has it, is copied by a
\* length below 0 taken for unsigned, past the end of memory (overrun).
OnWith(whole) ==
    CASE ask = "GET_DESC" -> {"send", "divided"}
      [] ask = "SERIAL" -> IF whole THEN {"reset", "overrun"} ELSE {"reset"}
      [] OTHER -> {"send"}

\* Mutant: the device is listed whether or not it took its address.
Seed_EndTransfer ==
    /\ pc = "wait" /\ (TransferStatus # "active" \/ xfer.polls = 1)
    /\ removeFromQueue(this)
    /\ xfer' = NoXfer
    /\ LET ok == TransferStatus = "done"
       IN  /\ failed' = IF ok THEN failed ELSE failed \cup {<<this, step>>}
           /\ IF ask = "SET_ADDR" THEN ListUsb ELSE UNCHANGED <<vfsVars, controllers>>
           /\ IF ask = "SET_ADDR" \/ (ask = "GET_DESC" /\ ~ok) THEN NextPort
              ELSE /\ ask' = After(ask)
                   /\ pc' \in OnWith(ok /\ <<this, step>> \notin failed)
                   /\ UNCHANGED <<step, try>>
    /\ UNCHANGED <<pciVars, node, port, address, replugged>>

\* removeFromQueue, and what setupDevice does with the answer: the strings are
\* asked for whether they come or not.
EndTransfer ==
    /\ pc = "wait" /\ (TransferStatus # "active" \/ xfer.polls = 1)
    /\ removeFromQueue(this)
    /\ xfer' = NoXfer
    /\ LET ok == TransferStatus = "done"
       IN  /\ failed' = IF ok THEN failed ELSE failed \cup {<<this, step>>}
           /\ IF ask = "SET_ADDR" /\ ok THEN ListUsb ELSE UNCHANGED <<vfsVars, controllers>>
           /\ IF ask = "SET_ADDR" \/ (ask = "GET_DESC" /\ ~ok) THEN NextPort
              ELSE /\ ask' = After(ask)
                   /\ pc' \in OnWith(ok /\ <<this, step>> \notin failed)
                   /\ UNCHANGED <<step, try>>
    /\ UNCHANGED <<pciVars, node, port, address, replugged>>

DriverStep == SetupBar \/ InitFails \/ AddController \/ ProbePort \/ ConfirmPort \/ ResetPort
              \/ RetryReset \/ SendTransfer \/ KeepWaiting \/ EndTransfer
=============================================================================
