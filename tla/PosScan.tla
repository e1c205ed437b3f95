------------------------------- MODULE PosScan -------------------------------
(***************************************************************************)
(* What the PCI scan of pos-kernel finds, against the buses the bridges     *)
(* lead to and against the scan of c-kernel (module PciHub).                *)
(***************************************************************************)
EXTENDS PosKernel

\* The functions the nodes under /hw/pci stand for, in the order of the list.
Listing == [i \in 1..Len(nodes[walk_path(nodes, PciPath)].children) |->
              nodes[nodes[walk_path(nodes, PciPath)].children[i]].data]

\* The buses behind bridges, from bus 0 on.
RECURSIVE BusesBehind(_)
BusesBehind(found) ==
    LET more == found \cup {machine[at].secondary : at \in {a \in DOMAIN machine :
                                machine[a].class = "bridge" /\ a[1] \in found}}
    IN  IF more = found THEN found ELSE BusesBehind(more)

\* One host bridge, and no device that is a bridge in some functions only.
Ordinary ==
    /\ ~isMultiFunction(0, 0)
    /\ \A a, b \in DOMAIN machine :
          a[1] = b[1] /\ a[2] = b[2] /\ machine[a].class = "bridge" => machine[b].class = "bridge"

Hub == INSTANCE PciHub

(* Every device behind the bridges is listed once under /hw/pci, where its *)
(* name leads to it, and the hub thread of c-kernel lists the same devices *)
(* in the same order (checkBus, pci.cpp and pci.c).                        *)
PciDevicesListed ==
    pc \notin Starting \cup {"scan"} =>
        /\ Listing = Hub!pci_enumerate(machine)
        /\ Ordinary =>
              /\ Range(Listing) = {at \in DOMAIN machine : at[3] = 0 /\ at[1] \in BusesBehind({0})}
              /\ \A i \in DOMAIN Listing :
                    LET n == walk_path(nodes, PciPath \o <<<<"dev", i - 1>>>>)
                    IN  n # ENONODE /\ nodes[n].data = Listing[i]
=============================================================================
