----------------------------- MODULE MCPosKernel -----------------------------
(* Machines with a host bridge, a bridge with a bus behind it and one or two *)
(* UHCI controllers; one without a host bridge at 0:0; one with several.     *)
EXTENDS PosScan

None == [kind |-> "none", base |-> 0]
Io == [kind |-> "io", base |-> 5]
Mem32 == [kind |-> "mem32", base |-> 16]
Mem64 == [kind |-> "mem64", base |-> 12]
Upper == [kind |-> "upper", base |-> 7]
NoBars == <<None, None, None>>

Func(class, secondary, multi, bars, plugged) ==
    [class |-> class, secondary |-> secondary, multi |-> multi, bars |-> bars, plugged |-> plugged]
Other == Func("other", 0, FALSE, NoBars, {})
ManyOf == Func("other", 0, TRUE, NoBars, {})
BridgeTo(b) == Func("bridge", b, TRUE, NoBars, {})
Uhci1(plugged) == Func("uhci", 0, FALSE, <<Mem32, Io, None>>, plugged)
Uhci2(plugged) == Func("uhci", 0, FALSE,
                       <<Mem64, Upper, Io>>, plugged)

Plain(plugged) == (<<0, 0, 0>> :> Other) @@ (<<0, 1, 0>> :> Uhci1(plugged))
Bridged == (<<0, 0, 0>> :> Other) @@ (<<0, 1, 0>> :> BridgeTo(1)) @@ (<<0, 1, 1>> :> BridgeTo(2))
           @@ (<<1, 1, 0>> :> ManyOf) @@ (<<1, 1, 1>> :> Other)
           @@ (<<2, 0, 0>> :> Uhci2({0}))
Two == (<<0, 0, 0>> :> Uhci1({0})) @@ (<<0, 1, 0>> :> Uhci2({}))
NoHost == (<<0, 1, 0>> :> Other) @@ (<<1, 0, 0>> :> Other)
Hosts == (<<0, 0, 0>> :> ManyOf) @@ (<<0, 0, 1>> :> Other) @@ (<<1, 0, 0>> :> Other)

MCMachines == {Plain({0, 1}), Plain({1}), Bridged, Two, NoHost, Hosts}

\* Memory: 640 KiB less a piece at their end, a hole, the rest with the page
\* tables, the kernel in two sections that share no page; memory above 4 GiB; a
\* piece of memory within a page.
Part(base, size, free) == [base |-> base, size |-> size, free |-> free]
Handoff(e820) ==
    [e820 |-> e820, kernelMap |-> <<Part(87, 3, FALSE), Part(93, 19, FALSE)>>,
     stack |-> 6, tables |-> 16..19, entries |-> {8},
     at |-> [e820 |-> 1, kernelMap |-> 7, paging |-> 1],
     units |-> [e820 |-> 5, kernelMap |-> 1, paging |-> 2]]
Small == <<Part(0, 39, TRUE), Part(39, 1, FALSE), Part(56, 8, FALSE), Part(64, 60, TRUE),
           Part(124, 4, FALSE)>>
Large == Small \o <<Part(128, 60, TRUE)>>
Pieces == <<Part(0, 37, TRUE), Part(37, 2, TRUE), Part(64, 60, TRUE), Part(124, 4, FALSE)>>
MCHandoffs == {Handoff(Small), Handoff(Large), Handoff(Pieces)}

\* The keyboard, the configurations of its controller, the memory maps and a real
\* 8259A on the machine with the least else.
Setup(m, h, k, c) == [machine |-> m, handoff |-> h, keyboard |-> k, config |-> c,
                      requests |-> {}, pic |-> "emulated"]
On == {0, 6}
MCSetups == {Setup(m, Handoff(Small), "absent", {}) : m \in MCMachines}
            \cup {[Setup(NoHost, h, "absent", {}) EXCEPT !.requests = {4}] : h \in MCHandoffs}
            \cup {Setup(NoHost, Handoff(Small), k, On) : k \in {"slow", "prompt", "dead"}}
            \cup {Setup(NoHost, Handoff(Small), "prompt", c) : c \in {{}, {0, 1, 4, 5, 6}}}
            \cup {[Setup(NoHost, Handoff(Small), k, On) EXCEPT !.pic = "8259A"] :
                      k \in {"absent", "prompt"}}
=============================================================================
