------------------------------- MODULE PosPci --------------------------------
(***************************************************************************)
(* The PCI bus of pos-kernel (hw/pci/pci.cpp): the scan that lists what it  *)
(* finds under /hw/pci, and the probe of a device's base address registers *)
(* (BARs) that finds its ports.  The scan calls itself for the bus behind a *)
(* bridge; `calls` is its stack, and a step handles one function.           *)
(***************************************************************************)
EXTENDS Vfs

CONSTANTS
    Machines,         \* what may be plugged into the bus: sets of functions
    DevicesPerBus,    \* device numbers of a bus (32)
    FunctionsPerDev,  \* functions of a device (8)
    Bars              \* base address registers of a function (6)

VARIABLES
    machine,   \* <<bus, device, function>> -> its configuration space
    calls,     \* the checkBus calls under way, the innermost one last
    host,      \* enumerate_bus: the function of device 0 to look at next
    pci_device_count,
    bar,       \* what each BAR holds
    portBase   \* device::portBase of each device in the VFS

pciVars == <<machine, calls, host, pci_device_count, bar, portBase>>

\* A bridge leads to a bus with a higher number, as firmware hands them out.
ASSUME PciAssumption ==
    /\ DevicesPerBus \in 1..32 /\ FunctionsPerDev \in 1..8 /\ Bars \in 1..6
    /\ \A m \in Machines : \A at \in DOMAIN m :
          /\ at \in Nat \X (0..DevicesPerBus - 1) \X (0..FunctionsPerDev - 1)
          /\ m[at].secondary > at[1] \/ m[<<at[1], at[2], 0>>].class # "bridge"

\* BARs are 32-bit registers; the two bits below the address of an I/O BAR are
\* the hardware's and read 01b.
ASSUME BarAssumption ==
    \A m \in Machines : \A at \in DOMAIN m : \A i \in 1..Bars :
        /\ m[at].bars[i].base \in Nat
        /\ m[at].bars[i].kind = "io" => m[at].bars[i].base % 4 = 1

\* A UHCI controller has one I/O BAR, and no 64-bit BAR after it.
ASSUME UhciAssumption ==
    \A m \in Machines : \A at \in DOMAIN m : m[at].class = "uhci" =>
        \A i, j \in 1..Bars :
            m[at].bars[i].kind = "io" /\ m[at].bars[j].kind \in {"io", "upper"} => j <= i

\* Every bus behind a bridge has a number of its own, which is not that of a host
\* bridge where the scan looks for several.
ASSUME BusAssumption ==
    \A m \in Machines : \A a \in DOMAIN m : m[<<a[1], a[2], 0>>].class = "bridge" =>
        /\ \A b \in DOMAIN m :
              m[<<b[1], b[2], 0>>].class = "bridge" /\ m[b].secondary = m[a].secondary => b = a
        /\ <<0, 0, 0>> \in DOMAIN m \/ m[a].secondary \notin 0..FunctionsPerDev - 1

\* What answers at an address; an absent function has no valid vendor.
is_valid(b, d, f) == <<b, d, f>> \in DOMAIN machine
getDeviceFunction(b, d, f) == machine[<<b, d, f>>]

\* getDevice: the header type of an absent function reads 0xFF, bit 7 set.
isMultiFunction(b, d) == is_valid(b, d, 0) => getDeviceFunction(b, d, 0).multi

\* A BAR that was written with ones answers with the mask of its size.
ONES == -1

PciInit ==
    /\ machine \in Machines
    /\ calls = <<>>
    /\ host = 0
    /\ pci_device_count = 0
    /\ bar = [at \in DOMAIN machine |-> [i \in 0..Bars - 1 |-> machine[at].bars[i + 1].base]]
    /\ portBase = [n \in {} |-> 0]

PciPath == <<<<"hw">>, <<"pci">>>>

checkBus(b) == [bus |-> b, device |-> 0, function |-> 0]

\* enumerate_bus: one bus, or one bus per function of device 0 up to the first
\* function that answers.
MoreHosts == IF isMultiFunction(0, 0) THEN host < FunctionsPerDev /\ ~is_valid(0, 0, host) ELSE host = 0

EnumerateBus ==
    /\ calls = <<>> /\ MoreHosts
    /\ calls' = <<checkBus(IF isMultiFunction(0, 0) THEN host ELSE 0)>>
    /\ host' = host + 1
    /\ UNCHANGED <<vfsVars, machine, pci_device_count, bar, portBase>>

ScanDone == calls = <<>> /\ ~MoreHosts

NextDevice(c) == [c EXCEPT !.device = @ + 1, !.function = 0]

\* Mutant: the secondary bus of function 0 for every function.
Seed_Checked(c, b, d, f) ==
    IF machine[<<b, d, 0>>].class = "bridge"
    THEN Append(c, checkBus(machine[<<b, d, 0>>].secondary)) ELSE c

\* checkFunction: function 0 says whether to scan the bus behind function f.
Checked(c, b, d, f) ==
    IF getDeviceFunction(b, d, 0).class = "bridge"
    THEN Append(c, checkBus(getDeviceFunction(b, d, f).secondary)) ELSE c

\* The bodies of checkBus and checkDevice for one function: function 0 is
\* followed first and listed when the call comes back, before function 1.
CheckFunction ==
    /\ calls # <<>>
    /\ LET top == Last(calls)
           b == top.bus  d == top.device  f == top.function
           rest == Front(calls)
       IN  IF d = DevicesPerBus THEN calls' = rest
           ELSE IF ~is_valid(b, d, 0) \/ (f > 0 /\ (f = FunctionsPerDev \/ ~isMultiFunction(b, d)))
           THEN calls' = Append(rest, NextDevice(top))
           ELSE LET next == Append(rest, [top EXCEPT !.function = @ + 1])
                IN  calls' = IF is_valid(b, d, f) THEN Checked(next, b, d, f) ELSE next
    /\ UNCHANGED <<machine, host, bar>>

\* add_device_to_vfs: the next dev<n>, a copy of function 0, its port unknown.
ListDevice ==
    IF calls # <<>> /\ Last(calls).function = 1
    THEN LET at == <<Last(calls).bus, Last(calls).device, 0>>
         IN  /\ pci_device_count' = pci_device_count + 1
             /\ add_dnode(PciPath, make_node(<<"dev", pci_device_count>>, FALSE, "USBCTRL", at))
             /\ portBase' = [n \in DOMAIN portBase \cup {node_count(nodes)} |->
                               IF n = node_count(nodes) THEN 0 ELSE portBase[n]]
    ELSE UNCHANGED <<vfsVars, pci_device_count, portBase>>

ScanStep == EnumerateBus \/ (CheckFunction /\ ListDevice)

\* BAR & ~0x3
IoAddress(v) == v - (v % 4)

\* Mutant: only a memory BAR is put back.
Seed_getDeviceBAR(n, i) ==
    LET at == nodes[n].data
        kind == machine[at].bars[i + 1].kind
    IN  /\ bar' = [bar EXCEPT ![at][i] = IF kind \in {"mem64", "io", "upper"} THEN ONES ELSE @]
        /\ portBase' = IF kind \in {"io", "upper"} THEN [portBase EXCEPT ![n] = IoAddress(bar[at][i])]
                       ELSE portBase

\* getDeviceBAR: ones are written, the mask is read, the BAR is put back; the
\* 64-bit branch forgets to.  The upper half of a 64-bit BAR of up to 4 GiB reads
\* as ones: bit 0 is set, so it counts as an I/O BAR.  An I/O BAR is put back
\* without its bits 0 and 1: where they are the hardware's they stay, where they
\* belong to the upper half of an address they are lost.
getDeviceBAR(n, i) ==
    LET at == nodes[n].data
        kind == machine[at].bars[i + 1].kind
    IN  /\ bar' = [bar EXCEPT ![at][i] = CASE kind = "mem64" -> ONES
                                         [] kind = "upper" -> IoAddress(@)
                                         [] kind = "io" -> IoAddress(@) + 1
                                         [] OTHER -> @]
        /\ portBase' = IF kind \in {"io", "upper"} THEN [portBase EXCEPT ![n] = IoAddress(bar[at][i])]
                       ELSE portBase
=============================================================================
