-------------------------------- MODULE Pci --------------------------------
(***************************************************************************)
(* The PCI bus at boot (drivers/pci.c): init_pci visits every function of  *)
(* every bus and calls the driver of a network card it knows, and the      *)
(* driver searches the bus again for its device by vendor and device id,   *)
(* through bridges, by recursion.                                          *)
(*                                                                         *)
(* An id stands for vendor and device, "none" for 0xFFFF; a function that  *)
(* is absent reads as all ones. The drivers are external here: they search *)
(* and use what they are given. Addresses have three bits for a function.  *)
(***************************************************************************)
EXTENDS Integers, Sequences

CONSTANTS BUS_PER_DOMAIN, DEV_PER_BUS,
          FUNC_PER_DEV,    \* 32 are tried
          Functions,       \* 8, a function number wraps there
          Machines,        \* sets of [at, id, bridge, prog_if, header] that a machine may have
          Cards,           \* ids of the network cards with a driver
          MaxDepth         \* calls of pci_scan_bus that fit the kernel stack

VARIABLES
  present,    \* the machine
  slot,       \* the address enumerate_pci_devices comes to
  search,     \* the driver's search: id, root bus, frames of pci_scan_bus
  driven,     \* history: [id, at] of the devices the drivers found
  bstatus     \* "ok", "deep" when the recursion has used up the stack

pcivars == <<present, slot, search, driven, bstatus>>

\* A machine as the PCI standard has it: a function answers at one address, the first one of its
\* device says that there are several, and the first address is the host bridge's.
ASSUME PciAssumption ==
  /\ BUS_PER_DOMAIN \in Nat \ {0} /\ DEV_PER_BUS \in Nat \ {0} /\ MaxDepth \in Nat \ {0}
  /\ Functions \in Nat \ {0} /\ FUNC_PER_DEV \in Nat /\ Functions <= FUNC_PER_DEV
  /\ "none" \notin Cards
  /\ \A m \in Machines : \A x \in m :
       /\ x.at \in Nat \X (0..DEV_PER_BUS - 1) \X (0..Functions - 1)
       /\ x.id # "none" /\ x.prog_if \in Nat /\ x.header \in Nat
       /\ x.id \in Cards => x.at # <<0, 0, 0>>
       /\ \A y \in m : y.at = x.at => y = x
       /\ x.at[3] # 0 => \E y \in m : y.at = <<x.at[1], x.at[2], 0>> /\ y.header >= 128

-----------------------------------------------------------------------------
(* pci_read: the registers of a function. *)

At(b, d, f) == <<b, d, f % Functions>>
IsPresent(a) == \E x \in present : x.at = a
Reg(a) == CHOOSE x \in present : x.at = a
Id(a) == IF IsPresent(a) THEN Reg(a).id ELSE "none"
DeviceHasFunctions(b, d) == IsPresent(At(b, d, 0)) => Reg(At(b, d, 0)).header >= 128
get_device_type(a) == IF IsPresent(a) /\ Reg(a).bridge THEN "bridge" ELSE "other"
get_secondary_bus(a) == Reg(a).prog_if      \* the register read is that of the programming interface
pci_reach_endMulti(b, d) == Reg(At(b, d, 0)).header \in {0, 128}     \* mutant: the bit of several functions is masked
pci_reach_end(b, d) == Reg(At(b, d, 0)).header = 0

-----------------------------------------------------------------------------
(* The search. A frame is a scan of a bus: where it is, and whether the scan behind a bridge there
   has returned; what that scan found is dropped. *)

NoSearch == [id |-> "none", root |-> 0, frames |-> <<>>]
Scan(bus) == [bus |-> bus, device |-> 0, function |-> 0, returned |-> FALSE]
Searching == search # NoSearch /\ bstatus = "ok"
Here(f) == At(f.bus, f.device, f.function)
NextDevice(f) == [f EXCEPT !.device = @ + 1, !.function = 0, !.returned = FALSE]
NextFunction(f) ==
  IF f.function = 0 /\ pci_reach_end(f.bus, f.device) THEN NextDevice(f)
  ELSE IF f.function + 1 = FUNC_PER_DEV THEN NextDevice(f)
  ELSE [f EXCEPT !.function = @ + 1, !.returned = FALSE]
Top == search.frames[Len(search.frames)]
Below == SubSeq(search.frames, 1, Len(search.frames) - 1)

\* pci_scan_device and pci_scan_function for the function that the innermost scan has come to
EmptySlot(f) == f.function = 0 /\ Id(Here(f)) = "none"
EntersBridge(f) == get_device_type(Here(f)) = "bridge" /\ ~f.returned
IsMatch(f) == Id(Here(f)) = search.id /\ Here(f) # <<0, 0, 0>>     \* that address has no bits set
pci_scan_device ==
  /\ Searching /\ search.frames # <<>> /\ Top.device < DEV_PER_BUS
  /\ ~EmptySlot(Top) => ~EntersBridge(Top) /\ ~IsMatch(Top)
  /\ search' = [search EXCEPT !.frames = Append(Below, IF EmptySlot(Top) THEN NextDevice(Top) ELSE NextFunction(Top))]
  /\ UNCHANGED <<present, slot, driven, bstatus>>
EnterBridge ==
  /\ Searching /\ search.frames # <<>> /\ Top.device < DEV_PER_BUS
  /\ ~EmptySlot(Top) /\ EntersBridge(Top)
  /\ IF Len(search.frames) < MaxDepth
     THEN /\ search' = [search EXCEPT !.frames = Append(Append(Below, [Top EXCEPT !.returned = TRUE]),
                                                        Scan(get_secondary_bus(Here(Top))))]
          /\ UNCHANGED bstatus
     ELSE bstatus' = "deep" /\ UNCHANGED search
  /\ UNCHANGED <<present, slot, driven>>
Found ==
  /\ Searching /\ search.frames # <<>> /\ Top.device < DEV_PER_BUS
  /\ ~EmptySlot(Top) /\ ~EntersBridge(Top) /\ IsMatch(Top)
  /\ IF Below = <<>>
     THEN search' = NoSearch /\ driven' = driven \cup {[id |-> search.id, at |-> Here(Top)]}
     ELSE search' = [search EXCEPT !.frames = Below] /\ UNCHANGED driven
  /\ UNCHANGED <<present, slot, bstatus>>

\* the end of a bus; pci_get_device then takes the functions of device 0 for further buses
ScanEnds ==
  /\ Searching /\ search.frames # <<>> /\ Top.device = DEV_PER_BUS
  /\ search' = [search EXCEPT !.frames = Below]
  /\ UNCHANGED <<present, slot, driven, bstatus>>
pci_get_device ==
  /\ Searching /\ search.frames = <<>>
  /\ LET r == search.root + 1 IN
     search' = IF r = FUNC_PER_DEV \/ Id(At(0, 0, r)) = "none" THEN NoSearch
               ELSE [search EXCEPT !.root = r, !.frames = <<Scan(r)>>]
  /\ UNCHANGED <<present, slot, driven, bstatus>>

-----------------------------------------------------------------------------
(* enumerate_pci_devices and identify_pci_device. A gap ends the functions of a device. *)

PciInit ==
  /\ present \in Machines /\ slot = <<0, 0, 0>> /\ search = NoSearch /\ driven = {} /\ bstatus = "ok"

Visited == slot[1] = BUS_PER_DOMAIN
SlotAfter(s) ==
  LET functions == IF DeviceHasFunctions(s[1], s[2]) THEN Functions ELSE 1 IN
  IF Id(s) # "none" /\ s[3] + 1 < functions THEN <<s[1], s[2], s[3] + 1>>
  ELSE IF s[2] + 1 < DEV_PER_BUS THEN <<s[1], s[2] + 1, 0>> ELSE <<s[1] + 1, 0, 0>>
identify_pci_device(a) == IF Id(a) \in Cards THEN [NoSearch EXCEPT !.id = Id(a), !.frames = <<Scan(0)>>] ELSE NoSearch
enumerate_pci_devices ==
  /\ bstatus = "ok" /\ search = NoSearch /\ ~Visited
  /\ search' = identify_pci_device(slot)
  /\ slot' = SlotAfter(slot)
  /\ UNCHANGED <<present, driven, bstatus>>

PciNext == pci_scan_device \/ EnterBridge \/ Found \/ ScanEnds \/ pci_get_device \/ enumerate_pci_devices
PciSpec == PciInit /\ [][PciNext]_pcivars

-----------------------------------------------------------------------------
(* A driver is only given a device of its own; every card on bus 0 that the enumeration comes to is
   found by its driver when it looks for it; and a search uses up the stack only on its way through
   a bridge, before it has come to a device it looks for on that bus (pci_get_device,
   pci_scan_function). A card behind a bridge is enumerated, and not found. *)
Before(a, b) == a[2] < b[2] \/ (a[2] = b[2] /\ a[3] < b[3])
Enumerated(x) == x.at[3] = 0 \/ (DeviceHasFunctions(x.at[1], x.at[2]) /\ \A f \in 0..x.at[3] - 1 : IsPresent(At(x.at[1], x.at[2], f)))
DeviceFound ==
  /\ \A d \in driven : Id(d.at) = d.id
  /\ (Visited /\ search = NoSearch) =>
       \A x \in present : x.id \in Cards /\ x.at[1] = 0 /\ Enumerated(x) => \E d \in driven : d.id = x.id
  /\ bstatus = "deep" =>
       \E b \in present : b.bridge /\ \A x \in present : x.at[1] = 0 /\ x.id = search.id => ~Before(x.at, b.at)
=============================================================================
