----------------------------- MODULE MCMachine -----------------------------
(***************************************************************************)
(* An instance of what the kernel does with the machine it runs on: frames *)
(* and page tables (Paging), two network cards (Rtl8139, Am79c973), the    *)
(* clock (Rtc), the PCI bus (Pci) and power management (Apm). They share   *)
(* no memory that is modelled, so a behaviour steps one of them; the       *)
(* others stay as initialised.                                             *)
(*                                                                         *)
(* The machines have a host bridge of one or two functions, and in two     *)
(* further slots a network card, an ISA bridge with or without a network   *)
(* card as its second function, or a PCI bridge, with its programming      *)
(* interface 0 or 1; and a network card on bus 1, or none.                 *)
(***************************************************************************)
EXTENDS Paging, Rtl8139, Am79c973, Rtc, Pci, Apm

VARIABLE part      \* the part that a behaviour steps

Device(address, id, header) == [at |-> address, id |-> id, bridge |-> FALSE, prog_if |-> 0, header |-> header]
Bridge(address, interface) == [at |-> address, id |-> "bridge", bridge |-> TRUE, prog_if |-> interface, header |-> 1]
IsaBridge == Device(<<0, 1, 0>>, "isa", 128)
MCMachines ==
  {UNION {host, first, second, far} :
     host   \in {{Device(<<0, 0, 0>>, "host", 0)},
                 {Device(<<0, 0, 0>>, "host", 128), Device(<<0, 0, 1>>, "aux", 128)}},
     first  \in {{}, {Device(<<0, 1, 0>>, "nic", 0)}, {IsaBridge}, {IsaBridge, Device(<<0, 1, 1>>, "nic", 128)}},
     second \in {{}, {Device(<<0, 2, 0>>, "nic", 0)}, {Bridge(<<0, 2, 0>>, 0)}, {Bridge(<<0, 2, 0>>, 1)}},
     far    \in {{}, {Device(<<1, 1, 0>>, "nic", 0)}}}

\* one start of the other parts is enough
MCOthers == CHOOSE m \in MCMachines : TRUE
MCInit ==
  /\ part \in {"paging", "nic", "am", "rtc", "pci", "apm"}
  /\ PagingInit /\ NicInit /\ init_AM79C /\ RtcInit /\ PciInit /\ ApmInit
  /\ part # "rtc" => now = 0 /\ mode = [binary |-> TRUE, hours24 |-> TRUE]
  /\ part # "apm" => ~bios.apm
  /\ part # "pci" => present = MCOthers
PagingStep == part = "paging" /\ PagingNext /\ UNCHANGED <<part, apmvars, amvars, nicvars, rtcvars, pcivars>>
NicStep    == part = "nic"    /\ NicNext    /\ UNCHANGED <<part, apmvars, amvars, pagevars, rtcvars, pcivars>>
AmStep     == part = "am"     /\ AmNext     /\ UNCHANGED <<part, apmvars, pagevars, nicvars, rtcvars, pcivars>>
RtcStep    == part = "rtc"    /\ RtcNext    /\ UNCHANGED <<part, apmvars, amvars, pagevars, nicvars, pcivars>>
PciStep    == part = "pci"    /\ PciNext    /\ UNCHANGED <<part, apmvars, amvars, pagevars, nicvars, rtcvars>>
ApmStep    == part = "apm"    /\ ApmNext    /\ UNCHANGED <<part, pagevars, nicvars, amvars, rtcvars, pcivars>>
MCVars == <<part, apmvars, pagevars, nicvars, amvars, rtcvars, pcivars>>
MCSpec == MCInit /\ [][PagingStep \/ NicStep \/ AmStep \/ RtcStep \/ PciStep \/ ApmStep]_MCVars

\* what the network may rely on, whichever card it has
PacketsInOrder == ReceivedInOrder /\ RingInOrder
FramesInOrder == SentInOrder /\ RingSends
=============================================================================
