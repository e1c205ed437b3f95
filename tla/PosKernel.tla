------------------------------ MODULE PosKernel ------------------------------
(***************************************************************************)
(* pos-kernel: start (main.cpp) has initialize_hw (hw/hw.cpp) set up the    *)
(* CPU, memory, the VFS, the timer, the keyboard and the PCI bus, starts    *)
(* the one driver there is (drivers/drivers.cpp) and serves events for      *)
(* ever.  The kernel is one thread; interrupts, the controllers and whoever *)
(* presses keys or pulls plugs run beside it.                               *)
(***************************************************************************)
EXTENDS Uhci, PosMemory, Ps2

CONSTANT Setups   \* machines with what is handed over, the keyboard they have, and how
                  \* the BIOS left its controller and the interrupt controllers

ASSUME SetupAssumption == \A s \in Setups : s.config \subseteq 0..7

vars == <<vfsVars, pciVars, uhciVars, memVars, irqVars, ps2Vars>>
startVars == <<memVars, irqVars, ps2Vars>>
busVars == <<pciVars, node, step, try, ask, controllers, port, address, control, xfer, replugged,
             failed>>

Starting == {"boot", "memory", "vfs", "pit", "pit_irq", "ps2", "keyboard", "keyboard_irq", "flush",
             "started"}

Init ==
    /\ nodes = vfs_init /\ events = <<>> /\ PciInit /\ UhciInit
    /\ MemoryInit
    /\ \E s \in Setups :
          /\ s.machine = machine /\ s.handoff = handoff
          /\ Ps2Init(s.keyboard, s.config) /\ IrqInit(s.requests, s.pic)

-----------------------------------------------------------------------------
\* initialize_hw.

InitCpu ==
    /\ pc = "boot"
    /\ InitializeCpu
    /\ pc' = "memory"
    /\ UNCHANGED <<memVars, ps2Vars>>

InitMemory ==
    /\ pc = "memory"
    /\ \/ MemoryStep /\ UNCHANGED pc
       \/ MemoryReady /\ pc' = "vfs" /\ UNCHANGED memVars
    /\ UNCHANGED <<irqVars, ps2Vars>>

\* /hw and /dev, and /hw/pci, which bus::pci::init adds.
BootTree == LET dir(n) == make_node(<<n>>, TRUE, "none", <<>>)
                top == add_vnode(add_vnode(vfs_init, <<>>, dir("hw")), <<>>, dir("dev"))
            IN  add_vnode(top, <<<<"hw">>>>, dir("pci"))
InitVfs ==
    /\ pc = "vfs"
    /\ nodes' = BootTree
    /\ pc' = "pit"
    /\ UNCHANGED startVars

\* PIT_init unmasks the line before it has a handler, init_keyboard after.
StartLine(at, next, change) ==
    /\ pc = at
    /\ change
    /\ pc' = next
    /\ UNCHANGED <<memVars, ps2Vars, closed, isrHandlers, interrupts, panic, pit>>
Unmask(line) == pic' = PIC_irq_unmask(pic, line) /\ UNCHANGED irq_handlers
Attach(line, handler) ==
    irq_handlers' = IRQ_registerHandler(irq_handlers, line, handler) /\ UNCHANGED pic

PIT_init ==
    \/ StartLine("pit", "pit_irq", Unmask(0))
    \/ StartLine("pit_irq", "ps2", Attach(0, "PIT_timer_irq"))

Ps2Start ==
    /\ pc = "ps2"
    /\ \/ Ps2Step /\ UNCHANGED pc
       \/ Ps2Done /\ pc' = "keyboard" /\ UNCHANGED <<irqVars, ps2Vars>>
    /\ UNCHANGED memVars

init_keyboard ==
    \/ StartLine("keyboard", "keyboard_irq", Attach(1, "keyboardHandler"))
    \/ StartLine("keyboard_irq", "flush", Unmask(1))
FlushKeyboard ==
    /\ pc = "flush"
    /\ kbd' = flush_keyboard(kbd)
    /\ pc' = "started"
    /\ UNCHANGED <<memVars, irqVars, kbc, ps2>>

\* From here on interrupts, the timer and the keyboard are not followed: the bus
\* and the driver read nothing of theirs and only sleep, which ends.  So what is
\* under way, such as the last timeout, comes to its end first.
StartQuiet == Requests(pic) = {} /\ ~pit.enabled /\ (kbc.kind \in {"absent", "dead"} \/ Idle(kbc))
StartScan ==
    /\ pc = "started" /\ StartQuiet
    /\ pc' = "scan"
    /\ UNCHANGED startVars

InitializeHw ==
    /\ ~panic
    /\ InitCpu \/ InitMemory \/ InitVfs \/ PIT_init \/ Ps2Start \/ init_keyboard
       \/ FlushKeyboard \/ StartScan
    /\ pc # "vfs" => UNCHANGED nodes
    /\ UNCHANGED <<events, busVars>>

Outside(change) ==
    /\ pc \in Starting
    /\ change
    /\ UNCHANGED <<vfsVars, pciVars, uhciVars, memVars, closed, isrHandlers, irq_handlers, interrupts,
                   panic, pit, ps2, kbd>>
TimerTick == Outside(Tick /\ (pc = "started" => pit.enabled))
KeyboardActs == Outside(Acting)
KeyPressed == Outside(Press)

\* The CPU takes an interrupt between two steps of the kernel.
TakeInterrupt ==
    /\ pc \in Starting
    /\ Interrupt
    /\ UNCHANGED <<vfsVars, pciVars, uhciVars, memVars>>

-----------------------------------------------------------------------------

Scan ==
    /\ pc = "scan"
    /\ ScanStep
    /\ UNCHANGED <<uhciVars, startVars>>

\* uhci_kdriver_init: the driver needs /hw/pci.
uhci_kdriver_init == walk_path(nodes, PciPath) # ENONODE

\* get_all_kernel_drivers knows one driver, and start initializes it.
InitDrivers ==
    /\ pc = "scan" /\ ScanDone
    /\ pc' = IF uhci_kdriver_init THEN "idle" ELSE "halted"
    /\ UNCHANGED <<vfsVars, busVars, startVars>>

\* uhci_kdriver_process_event answers DRIVER_PARSE_FAIL to anything else.
IsController(e) ==
    /\ e.flags = EVENT_DEVICE_ADD
    /\ nodes[e.node].parent = walk_path(nodes, PciPath)
    /\ machine[nodes[e.node].data].class = "uhci"

\* One pass of the main loop.  Every device carries a hint and never the uid of
\* a driver; the only driver takes the hint USBCTRL; what nobody takes is gone.
ServeEvent ==
    /\ pc = "idle" /\ events # <<>>
    /\ events' = pop_event(events)
    /\ LET e == Head(events)
       IN  IF e.hint = "USBCTRL" /\ IsController(e)
           THEN pc' = "setup" /\ node' = e.node /\ step' = 0
           ELSE UNCHANGED <<pc, node, step>>
    /\ UNCHANGED <<nodes, pciVars, try, ask, controllers, port, address, control, xfer, replugged,
                   failed, startVars>>

Kernel == InitializeHw \/ Scan \/ InitDrivers \/ ServeEvent \/ (DriverStep /\ UNCHANGED startVars)

\* A plug that is pulled before the scan makes another machine.
UsbHardware ==
    /\ pc \notin Starting
    /\ \E c \in Uhcis : Execute(c) \/ \E p \in 0..Ports - 1 : Replug(c, p)
    /\ UNCHANGED startVars

Next == Kernel \/ TakeInterrupt \/ TimerTick \/ KeyboardActs \/ KeyPressed \/ UsbHardware

\* The kernel runs on and its sleeps end, whatever the hardware does; the timer
\* ticks, the CPU takes its interrupts, and a keyboard controller that is not dead
\* acts some time.
Spec ==
    /\ Init /\ [][Next]_vars
    /\ WF_vars(Kernel)
    /\ WF_vars(TakeInterrupt)
    /\ WF_vars(TimerTick)
    /\ WF_vars(KeyboardActs)

-----------------------------------------------------------------------------

UsbNodes == {n \in Devices(nodes) : nodes[n].hint = "USB"}

(* Events are served in the order of the nodes and none is lost: what waits *)
(* is what was listed after the device that is set up, and the controllers *)
(* so far are the UHCI devices before it (add_event, pop_event, the loop).  *)
EventsInOrder ==
    /\ \A i, j \in DOMAIN events : i < j => events[i].node < events[j].node
    /\ LET served == {n \in Devices(nodes) : \A i \in DOMAIN events : events[i].node # n}
           waiting == Devices(nodes) \ served
       IN  /\ \A n \in waiting, s \in served : s < n
           /\ pc \in {"idle", "halted"} =>
                 \A n \in served : nodes[n].hint = "USBCTRL" /\ machine[nodes[n].data].class = "uhci" =>
                     (pc = "halted" /\ n = node) \/
                     \E i \in DOMAIN controllers : controllers[i].at = nodes[n].data

\* The register holds its address: an upper half may have lost its bits 0 and 1,
\* a lower half stays overwritten (pci.cpp:327 says that 64-bit BARs fail).
AddressKept(was, value) ==
    /\ was.kind \notin {"mem64", "upper"} => value = was.base
    /\ was.kind = "upper" => value \in {was.base, IoAddress(was.base)}

(* Once a controller is set up its BARs for ports and for memory below 4 GiB *)
(* hold the addresses they held before, an upper half of a 64-bit one all of *)
(* its address but for two bits, and its ports are where its I/O BAR says,   *)
(* though an upper half was taken for one (getDeviceBAR, device::setup).    *)
BarsKeepAddresses ==
    \A i \in DOMAIN controllers :
        LET at == controllers[i].at
        IN  \A k \in 0..Bars - 1 :
              LET was == machine[at].bars[k + 1]
              IN  /\ AddressKept(was, bar[at][k])
                  /\ was.kind = "io" => \E n \in DOMAIN portBase :
                         nodes[n].data = at /\ portBase[n] = IoAddress(was.base)

(* While no plug is pulled, one device answers to each address that is      *)
(* listed.  It is the device of the port it is listed with as long as no    *)
(* transfer to the first port failed: resetPort takes the enable bit of     *)
(* port 0 for that of every port and leaves the other ports off, so a       *)
(* device of port 0 that failed, still at address 0, answers in place of    *)
(* theirs.  A device on the first port is listed unless a transfer to it    *)
(* failed (setupDevice, addressCount, resetPort).                           *)
UsbDevicesListed ==
    replugged = 0 =>
        /\ \A n \in UsbNodes :
              LET d == nodes[n].data
                  heard == Answering(d.at, d.address)
              IN  /\ Cardinality(heard) = 1
                  /\ <<d.at, 0>> \notin failed => heard = {d.port}
        /\ pc = "idle" => \A i \in DOMAIN controllers :
              LET c == controllers[i].at
              IN  port[c][0].connected /\ <<c, 0>> \notin failed =>
                      \E n \in UsbNodes : nodes[n].data.at = c /\ nodes[n].data.port = 0

(* What was handed over is whole (see HandoffWhole) when memory is set up.  *)
HandoffSurvives == pc \in {"memory", "vfs"} => HandoffWhole

(* A timeout of the PS/2 driver comes after its ticks and not before, and a *)
(* timeout that is waited for is running, although interrupts come between  *)
(* the assignments that set it and the one before it was never cancelled    *)
(* (PIT_setTimeout, PIT_timer_irq).                                         *)
TimeoutsTakeTheirTime ==
    pc = "ps2" /\ ~Ps2Done /\ ps2.at \in {"poll", "act"} =>
        IF pit.timedout THEN pit.age > TimeoutSeconds * TicksPerSecond
        ELSE pit.enabled /\ pit.ticks + pit.age = TimeoutSeconds * TicksPerSecond

(* Every line that is not masked leads to its own handler and back with    *)
(* nothing left in service, although the slave is never programmed and the *)
(* master is programmed with the slave's bytes: the last of them, its ICW4, *)
(* takes it out of 8086 mode, which no emulated controller heeds and a real *)
(* one does, so that there the first interrupt ends in a panic.  Once the   *)
(* kernel has started, a byte in the keyboard's output buffer has its      *)
(* interrupt (PIC_remap, PIC_EOI, IRQ_registerHandler, init_keyboard).     *)
LinesServed ==
    /\ panic => pic.kind = "8259A"
    /\ ~panic /\ pc \in Starting \ {"boot"} => pic["master"].isr = {}
    /\ ~panic /\ pc = "started" =>
          /\ pic["master"].imr = 2..7
          /\ irq_handlers[0] = "PIT_timer_irq" /\ irq_handlers[1] = "keyboardHandler"
          /\ kbc.out # <<>> /\ IrqBit \in kbc.ccb => 1 \in pic["master"].irr

(* The keyboard is on when the kernel has started, with interrupts and      *)
(* translation, whatever configuration the BIOS left and whichever keys    *)
(* were pressed meanwhile, if nothing timed out, and also if answers came  *)
(* late and were taken for those of other commands, as long as PS2_init    *)
(* got through its self test and its writes from there on did not time out *)
(* (PS2_init, PS2_out, PS2_in).                                             *)
KeyboardOn ==
    pc = "started" /\ kbc.kind \in {"slow", "prompt"} /\ ~ps2.late /\ kbc.input = <<>> =>
        {IrqBit, TranslateBit} \subseteq kbc.ccb /\ ClockOffBit \notin kbc.ccb

(* The keyboard works when the kernel has started: it is on, its bytes raise *)
(* interrupts and these are served (initialize_hw).                          *)
KeyboardServed == LinesServed /\ KeyboardOn

\* Every device sends a packet size and strings that setupDevice can take, and
\* the interrupt controller heeds no mode.
MachineSuits == pc \notin {"divided", "overrun"} /\ ~panic

(* On a machine that suits it the kernel comes to rest with every event     *)
(* served, or it halted because a controller did not reset: no device hangs *)
(* it by its answers, by their failure or by its plug, and it never walks   *)
(* past the end of a queue.  A device whose data do not suit it stops it    *)
(* for good (waitTillTransferComplete, resetPort, insertToQueue,            *)
(* setupDevice).                                                            *)
KernelSettles == []MachineSuits => <>[]((pc = "idle" /\ events = <<>>) \/ pc = "halted")
=============================================================================
