------------------------------- MODULE PciHub --------------------------------
(***************************************************************************)
(* The scan the PCI hub thread of c-kernel makes (threads/pcihub): one      *)
(* thread runs it from pcihub_thread_entry to its end and shares nothing,   *)
(* so it is a function of the machine: the list of g_pci_ctx.  A machine    *)
(* maps <<bus, device, function>>, where something answers, to what its     *)
(* configuration space says.                                                *)
(***************************************************************************)
EXTENDS Integers, Sequences, FiniteSets

CONSTANTS DevicesPerBus,   \* device numbers of a bus (32)
          FunctionsPerDev  \* functions of a device (8)

\* getDeviceFunction: something answers when the vendor is not 0xFFFF.
answers(m, b, d, f) == <<b, d, f>> \in DOMAIN m

\* getDevice: the header type of an absent function reads 0xFF, bit 7 set.
isMultiFunction(m, b, d) == answers(m, b, d, 0) => m[<<b, d, 0>>].multi

\* checkFunction asks function 0 whether the device is a bridge, whatever the
\* function is.
bridges(m, b, d) == m[<<b, d, 0>>].class = "bridge"

\* add_device: a copy at the tail of the list.
add_device(list, at) == Append(list, at)

RECURSIVE checkBus(_, _, _), checkFunctions(_, _, _, _)
\* Functions f and up of a device: the list that each bus behind them adds.
checkFunctions(m, b, d, f) ==
    IF f = FunctionsPerDev \/ ~isMultiFunction(m, b, d) THEN <<>>
    ELSE (IF answers(m, b, d, f) /\ bridges(m, b, d)
          THEN checkBus(m, m[<<b, d, f>>].secondary, 0) ELSE <<>>)
         \o checkFunctions(m, b, d, f + 1)

\* checkBus from device d: checkDevice follows function 0, then lists the
\* device, then follows the others.
checkBus(m, b, d) ==
    IF d = DevicesPerBus THEN <<>>
    ELSE IF ~answers(m, b, d, 0) THEN checkBus(m, b, d + 1)
    ELSE add_device(IF bridges(m, b, d) THEN checkBus(m, m[<<b, d, 0>>].secondary, 0) ELSE <<>>,
                    <<b, d, 0>>)
         \o checkFunctions(m, b, d, 1) \o checkBus(m, b, d + 1)

RECURSIVE checkHosts(_, _)
\* The loop over the functions of device 0 ends at the first one that answers.
checkHosts(m, f) ==
    IF f = FunctionsPerDev \/ answers(m, 0, 0, f) THEN <<>>
    ELSE checkBus(m, f, 0) \o checkHosts(m, f + 1)

pci_enumerate(m) == IF isMultiFunction(m, 0, 0) THEN checkHosts(m, 0) ELSE checkBus(m, 0, 0)
=============================================================================
