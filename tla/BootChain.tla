------------------------------ MODULE BootChain ------------------------------
(***************************************************************************)
(* From power on to running threads: the boot loader of module Boot loads   *)
(* the c-kernel and jumps to its start, module KStart.                      *)
(***************************************************************************)
EXTENDS Boot, KStart

chainVars == <<vars, startVars>>

ChainInit == Init /\ StartInit

\* The loader enters a kernel whether or not the reads it does not check went
\* wrong; what a damaged kernel does is left open.
Intact == pc = "kernel" /\ lost = {} /\ KernelIsLong

LoaderStep == Step /\ UNCHANGED startVars
KernelStep == Intact /\ StartNext /\ UNCHANGED vars

\* The machine stops: the loader in its loop at `exit`, the kernel in a panic,
\* or with threads that have printed what they had to print.  In every other
\* state somebody can go on: no thread waits for a terminal for ever.
Over ==
    /\ pc = "halt" \/ (pc = "kernel" /\ ~Intact) \/ StartOver
    /\ UNCHANGED chainVars

ChainNext == LoaderStep \/ KernelStep \/ Over

\* Nothing interrupts the loader.
ChainSpec == ChainInit /\ [][ChainNext]_chainVars /\ WF_chainVars(LoaderStep)

\* The loader ends, in the kernel or in the loop at `exit`, however its reads go
\* and whatever the disk holds, with two exceptions that search_directory makes
\* by never seeing the end of a chain (FAT32.c:192): a root directory full of
\* names whose chain, followed past its end mark to cluster 65535, goes round in
\* clusters without an empty name; and such a cluster 65534, where the search
\* goes whenever a read of the FAT fails and may stay as long as they fail.
SearchMustEnd == ~GoesRound(disk, disk.root) /\ ~GoesOn(disk, ErrorCluster)
BootEnds == SearchMustEnd => <>(pc \in {"kernel", "halt"})
=============================================================================
