------------------------------ MODULE Network ------------------------------
(***************************************************************************)
(* The IPv4 stack under the network commands of the init file: ARP, the    *)
(* wait of ip_send_packet for a hardware address, and the DHCP client.     *)
(*                                                                         *)
(* The commands run in task context.  A network card's interrupt runs the  *)
(* receive path with interrupts disabled, to its end or, when the path     *)
(* itself sends, for as long as ip_send_packet waits there.  The peers,    *)
(* the DHCP server and the wire are the environment.                       *)
(*                                                                         *)
(* An address is two of its four octets.  A hardware address is named by   *)
(* the address of its owner.                                               *)
(***************************************************************************)
EXTENDS Integers, Sequences

CONSTANTS
  Scripts,    \* the sequences of commands an init file may have
  TableSize,  \* entries of arp_table, 512 in the code
  Peers,      \* addresses of the hosts on the wire
  Free,       \* addresses the DHCP server may lease to this host
  Taken,      \* addresses it has leased to others
  MaxLost,    \* bound on the ARP frames lost
  MaxSpare    \* bound on the ARP frames the peers send unasked

Addr == (0 .. 255) \X (0 .. 255)
Zero == <<0, 0>>
Broadcast == <<255, 255>>
Self == Zero    \* names the card of this host

ASSUME TableAssumption == TableSize \in Nat \ {0}
ASSUME AddrAssumption ==
  /\ Peers \cup Free \cup Taken \subseteq Addr \ {Zero, Broadcast}
  /\ Free \cap Taken = {}
ASSUME BoundAssumption == MaxLost \in Nat /\ MaxSpare \in Nat
ASSUME ScriptAssumption ==
  \A s \in Scripts :
    /\ Len(s) \in Nat
    /\ \A k \in 1 .. Len(s) :
         /\ (s[k].op = "netinterface") => (s[k].arg \in BOOLEAN)
         /\ (s[k].op = "udpsend") => (s[k].arg \in Peers)
         /\ (s[k].op = "ip static") => (s[k].arg \in Free \cup Taken)

Index == 0 .. TableSize - 1
None  == -1
Entry == [ip : Addr, mac : Addr]

VARIABLES
  script, pc,        \* the init file and the command it is at
  sending,           \* by context, the packets to send: the first is being sent
  arp_sent,          \* by context, the requests that may still be sent
  found,             \* by context, the table entry whose address matched, or None
  arp_table, arp_table_current,
  adding,            \* how far the task is in init_arp, "no" outside it
  panicked,          \* the assertion at its end failed
  isNetworkON, current_interface, \* switched on; a card is selected
  ip,                \* the address set in the card
  is_ip_allocated, isStatic,
  wire,              \* copies of each ARP frame on its way
  dhcp_out, dhcp_in, \* DHCP messages on their way, in order
  lease,             \* what the server has leased to this host
  lost, spare,       \* frames lost and sent unasked so far
  sent, overwritten  \* history: frames sent; an entry was written over another

stack   == <<arp_table, arp_table_current, overwritten>>
init    == <<adding, panicked>>
config  == <<isNetworkON, current_interface>>
dhcp    == <<is_ip_allocated, isStatic, ip>>
senders == <<sending, arp_sent, found>>
budgets == <<lost, spare>>
vars == <<script, pc, senders, stack, init, config, dhcp, wire, dhcp_out, dhcp_in, lease, budgets, sent>>

Context == {"task", "irq"}
Message  == [dst : Peers \cup {Broadcast}, op : {"discover", "request", "data"}, arg : Addr]
ArpFrame == [op : {"request", "reply"}, from : Peers \cup {Self}, ip : Peers \cup Free \cup {Broadcast}]

Init ==
  /\ script \in Scripts /\ pc = 1
  /\ sending = [c \in Context |-> <<>>]
  /\ arp_sent = [c \in Context |-> 3]
  /\ found = [c \in Context |-> None]
  /\ arp_table = [i \in Index |-> [ip |-> Zero, mac |-> Zero]] /\ arp_table_current = 0
  /\ adding = "no" /\ panicked = FALSE
  /\ isNetworkON = FALSE /\ current_interface = FALSE
  /\ ip = Zero /\ is_ip_allocated = FALSE /\ isStatic = FALSE
  /\ wire = [f \in ArpFrame |-> 0] /\ dhcp_out = <<>> /\ dhcp_in = <<>>
  /\ lease = Zero /\ lost = 0 /\ spare = 0
  /\ sent = {} /\ overwritten = FALSE

-----------------------------------------------------------------------------
Connected == isNetworkON /\ current_interface
Put(w, f) == [w EXCEPT ![f] = @ + 1]
Take(w, f) == [w EXCEPT ![f] = @ - 1]
Asks(from, a) == [op |-> "request", from |-> from, ip |-> a]
Answers(p, a) == [op |-> "reply", from |-> p, ip |-> a]
Packet(a, op, arg) == [dst |-> a, op |-> op, arg |-> arg]

\* With interrupts disabled the interrupt context runs alone.
Running(c) == IF c = "irq" THEN sending["irq"] # <<>>
              ELSE sending["irq"] = <<>> /\ sending["task"] # <<>>

Matches(a) == {i \in Index : arp_table[i].ip = a}
FirstMatch(a) == {i \in Matches(a) : \A j \in Matches(a) : i <= j}

NextIndex == (arp_table_current + 1) % TableSize

\* Mutant: the two halves of an entry are written around the increment.
AddEntryTorn(i, m) ==
  /\ arp_table' = [arp_table EXCEPT ![arp_table_current].mac = m, ![NextIndex].ip = i]
  /\ arp_table_current' = NextIndex
  /\ overwritten' = (overwritten \/ arp_table[arp_table_current].ip # Zero)

\* What the receive interrupt does with a reply, alone.
AddEntry(i, m) ==
  /\ arp_table' = [arp_table EXCEPT ![arp_table_current] = [ip |-> i, mac |-> m]]
  /\ arp_table_current' = NextIndex
  /\ overwritten' = (overwritten \/ arp_table[arp_table_current] # [ip |-> Zero, mac |-> Zero])

-----------------------------------------------------------------------------
(* ip_send_packet *)

\* arp_lookup finds the first entry for the address.
Lookup(c) ==
  /\ Running(c) /\ found[c] = None
  /\ \E i \in FirstMatch(Head(sending[c]).dst) : found' = [found EXCEPT ![c] = i]
  /\ UNCHANGED <<script, pc, sending, arp_sent, stack, init, config, dhcp, wire, dhcp_out,
                 dhcp_in, lease, budgets, sent>>

\* Mutant: the other two requests are never sent.
AskOnce(c) ==
  /\ Running(c) /\ found[c] = None
  /\ Matches(Head(sending[c]).dst) = {} /\ arp_sent[c] = 3
  /\ arp_sent' = [arp_sent EXCEPT ![c] = @ - 1]
  /\ wire' = IF Connected THEN Put(wire, Asks(Self, Head(sending[c]).dst)) ELSE wire
  /\ UNCHANGED <<script, pc, sending, found, stack, init, config, dhcp, dhcp_out, dhcp_in,
                 lease, budgets, sent>>

\* It found none: one of three requests is sent; after that the loop only looks.
Ask(c) ==
  /\ Running(c) /\ found[c] = None
  /\ Matches(Head(sending[c]).dst) = {} /\ arp_sent[c] > 0
  /\ arp_sent' = [arp_sent EXCEPT ![c] = @ - 1]
  /\ wire' = IF Connected THEN Put(wire, Asks(Self, Head(sending[c]).dst)) ELSE wire
  /\ UNCHANGED <<script, pc, sending, found, stack, init, config, dhcp, dhcp_out, dhcp_in,
                 lease, budgets, sent>>

\* The hardware address is copied from the entry found before, and the frame
\* sent to it.
Transmit(c) ==
  LET packet == Head(sending[c])
      mac    == arp_table[found[c]].mac
  IN /\ Running(c) /\ found[c] # None
     /\ sending' = [sending EXCEPT ![c] = Tail(@)]
     /\ arp_sent' = [arp_sent EXCEPT ![c] = 3]
     /\ found' = [found EXCEPT ![c] = None]
     /\ sent' = IF Connected THEN sent \cup {[dst |-> packet.dst, mac |-> mac]} ELSE sent
     /\ dhcp_out' = IF Connected /\ mac = Broadcast THEN Append(dhcp_out, packet) ELSE dhcp_out
     /\ UNCHANGED <<script, pc, stack, init, config, dhcp, wire, dhcp_in, lease, budgets>>

-----------------------------------------------------------------------------
(* Commands of the init file *)

Discover == Packet(Broadcast, "discover", Zero)
Request(a) == Packet(Broadcast, "request", a)

SendAll(c, packets) == sending' = [sending EXCEPT ![c] = packets]

Command(op) ==
  /\ sending["irq"] = <<>> /\ sending["task"] = <<>>
  /\ pc <= Len(script) /\ script[pc].op = op
  /\ adding = "no" /\ ~panicked
  /\ pc' = pc + 1
  /\ UNCHANGED <<script, panicked, arp_sent, found, wire, dhcp_out, dhcp_in, lease, budgets, sent>>

ChangeNetworkState ==
  /\ Command("netinterface")
  /\ isNetworkON' = script[pc].arg
  /\ UNCHANGED <<sending, stack, adding, current_interface, dhcp>>

SwitchInterface ==
  /\ Command("switch")
  /\ current_interface' = TRUE
  /\ UNCHANGED <<sending, stack, adding, isNetworkON, dhcp>>

\* init_arp adds the broadcast address: the hardware address of the entry first.
InitArp ==
  /\ Command("init arp")
  /\ arp_table' = [arp_table EXCEPT ![arp_table_current].mac = Broadcast]
  /\ overwritten' = (overwritten \/ arp_table[arp_table_current].ip # Zero)
  /\ adding' = "ip"
  /\ UNCHANGED <<sending, arp_table_current, config, dhcp>>

InArp(step) ==
  /\ sending["irq"] = <<>> /\ adding = step
  /\ UNCHANGED <<script, pc, senders, config, dhcp, wire, dhcp_out, dhcp_in, lease, budgets, sent>>

\* Then its address, in the entry that is the current one by now.
WriteAddress ==
  /\ InArp("ip") /\ adding' = "advance"
  /\ arp_table' = [arp_table EXCEPT ![arp_table_current].ip = Broadcast]
  /\ UNCHANGED <<arp_table_current, overwritten, panicked>>

Advance ==
  /\ InArp("advance") /\ adding' = "check"
  /\ arp_table_current' = NextIndex
  /\ UNCHANGED <<arp_table, overwritten, panicked>>

\* The assertion compares what a lookup of it returns; when there is no such
\* entry, an array that was never written.
CheckBroadcast ==
  /\ InArp("check") /\ adding' = "no"
  /\ \E mac \in IF Matches(Broadcast) = {} THEN {Zero, Broadcast}
                 ELSE {arp_table[i].mac : i \in FirstMatch(Broadcast)} :
       panicked' = (mac # Broadcast)
  /\ UNCHANGED stack

InitDhcp ==
  /\ Command("init dhcp")
  /\ is_ip_allocated' = FALSE
  /\ UNCHANGED <<sending, stack, adding, config, isStatic, ip>>

IpDhcp ==
  /\ Command("ip dhcp")
  /\ SendAll("task", <<Discover>>)
  /\ UNCHANGED <<stack, adding, config, dhcp>>

IpStatic ==
  /\ Command("ip static")
  /\ isStatic' = TRUE
  /\ SendAll("task", <<Discover, Request(script[pc].arg)>>)
  /\ UNCHANGED <<stack, adding, config, is_ip_allocated, ip>>

\* udpsend spins until DHCP has set an address.
UdpSend ==
  /\ Command("udpsend") /\ is_ip_allocated
  /\ SendAll("task", <<Packet(script[pc].arg, "data", Zero)>>)
  /\ UNCHANGED <<stack, adding, config, dhcp>>

TaskStep ==
  \/ Lookup("task") \/ Ask("task") \/ Transmit("task")
  \/ WriteAddress \/ Advance \/ CheckBroadcast
  \/ ChangeNetworkState \/ SwitchInterface \/ InitArp \/ InitDhcp \/ IpDhcp \/ IpStatic \/ UdpSend

-----------------------------------------------------------------------------
(* The receive interrupt *)

Interrupted == sending["irq"] = <<>> /\ UNCHANGED <<script, init, pc, arp_sent, found, lease, budgets, sent>>

\* interface_getip as arp_handle_packet uses it: a number.
MyIp == IF Connected THEN 256 * ip[1] + ip[2] ELSE 0

\* The requested address is read as a single octet.
IsForMe(a) == MyIp = a[1]

ReceiveArp(f) ==
  /\ Interrupted
  /\ wire[f] > 0 /\ f.from # Self
  /\ LET answer == isNetworkON /\ f.op = "request" /\ IsForMe(f.ip)
         rest   == Take(wire, f)
     IN wire' = IF answer /\ Connected THEN Put(rest, Answers(Self, f.ip)) ELSE rest
  /\ IF isNetworkON /\ f.op = "reply" THEN AddEntry(f.ip, f.from) ELSE UNCHANGED stack
  /\ UNCHANGED <<sending, config, dhcp, dhcp_out, dhcp_in>>

\* Mutant: an offer is taken also when a static address was asked for.
HandleDhcpAlways(m) ==
  \/ m.op = "offer" /\ SendAll("irq", <<Request(m.arg)>>) /\ UNCHANGED dhcp
  \/ /\ m.op = "nak"
     /\ isStatic' = FALSE
     /\ SendAll("irq", <<Discover>>)
     /\ UNCHANGED <<is_ip_allocated, ip>>
  \/ /\ m.op = "ack"
     /\ is_ip_allocated' = TRUE
     /\ ip' = IF current_interface THEN m.arg ELSE ip
     /\ UNCHANGED <<isStatic, sending>>

\* dhcp_handle_packet looks at the message type and the offered address only.
HandleDhcp(m) ==
  \/ /\ m.op = "offer"
     /\ IF isStatic THEN UNCHANGED sending ELSE SendAll("irq", <<Request(m.arg)>>)
     /\ UNCHANGED dhcp
  \/ /\ m.op = "nak"
     /\ isStatic' = FALSE
     /\ SendAll("irq", <<Discover>>)
     /\ UNCHANGED <<is_ip_allocated, ip>>
  \/ /\ m.op = "ack"
     /\ is_ip_allocated' = TRUE
     /\ ip' = IF current_interface THEN m.arg ELSE ip
     /\ UNCHANGED <<isStatic, sending>>

ReceiveDhcp ==
  /\ Interrupted
  /\ dhcp_in # <<>> /\ dhcp_in' = Tail(dhcp_in)
  /\ IF isNetworkON THEN HandleDhcp(Head(dhcp_in)) ELSE UNCHANGED <<sending, dhcp>>
  /\ UNCHANGED <<stack, config, wire, dhcp_out>>

-----------------------------------------------------------------------------
(* The environment *)

host == <<script, pc, senders, stack, init, config, dhcp, sent>>

PeerAnswers(p) ==
  /\ wire[Asks(Self, p)] > 0
  /\ wire' = Put(Take(wire, Asks(Self, p)), Answers(p, p))
  /\ UNCHANGED <<host, dhcp_out, dhcp_in, lease, budgets>>

\* A peer announces itself unasked, or asks for this host.
PeerSpeaks(p) ==
  /\ spare < MaxSpare /\ spare' = spare + 1
  /\ \/ wire' = Put(wire, Answers(p, p))
     \/ lease # Zero /\ wire' = Put(wire, Asks(p, lease))
  /\ UNCHANGED <<host, dhcp_out, dhcp_in, lease, lost>>

Lose(f) ==
  /\ lost < MaxLost /\ lost' = lost + 1
  /\ wire[f] > 0 /\ wire' = Take(wire, f)
  /\ UNCHANGED <<host, dhcp_out, dhcp_in, lease, spare>>

\* One server that leases any free address, and refuses those it has given away.
Server ==
  /\ dhcp_out # <<>> /\ dhcp_out' = Tail(dhcp_out)
  /\ LET m == Head(dhcp_out)
         say(op, a) == dhcp_in' = Append(dhcp_in, [op |-> op, arg |-> a])
     IN \/ m.op = "discover" /\ UNCHANGED lease /\ \E a \in Free : say("offer", a)
        \/ m.op = "request" /\ m.arg \in Free /\ lease' = m.arg /\ say("ack", m.arg)
        \/ m.op = "request" /\ m.arg \notin Free /\ UNCHANGED lease /\ say("nak", Zero)
  /\ UNCHANGED <<host, wire, budgets>>

IrqStep == Lookup("irq") \/ Ask("irq") \/ Transmit("irq")

Next ==
  \/ TaskStep \/ IrqStep
  \/ \E f \in ArpFrame : ReceiveArp(f) \/ Lose(f)
  \/ ReceiveDhcp
  \/ \E p \in Peers : PeerAnswers(p) \/ PeerSpeaks(p)
  \/ Server

Spec == Init /\ [][Next]_vars

\* The CPU keeps executing; frames that are not lost arrive; the others answer.
FairSpec ==
  /\ Spec
  /\ WF_vars(TaskStep) /\ WF_vars(IrqStep) /\ WF_vars(ReceiveDhcp) /\ WF_vars(Server)
  /\ \A f \in ArpFrame : WF_vars(ReceiveArp(f))
  /\ \A p \in Peers : WF_vars(PeerAnswers(p))
-----------------------------------------------------------------------------
(* Properties *)

TypeOK ==
  /\ script \in Scripts /\ pc \in 1 .. Len(script) + 1
  /\ sending \in [Context -> Seq(Message)]
  /\ arp_sent \in [Context -> 0 .. 3] /\ found \in [Context -> Index \cup {None}]
  /\ arp_table \in [Index -> Entry] /\ arp_table_current \in Index
  /\ adding \in {"no", "ip", "advance", "check"}
  /\ isNetworkON \in BOOLEAN /\ current_interface \in BOOLEAN
  /\ is_ip_allocated \in BOOLEAN /\ isStatic \in BOOLEAN
  /\ panicked \in BOOLEAN /\ overwritten \in BOOLEAN
  /\ ip \in Addr /\ lease \in Free \cup {Zero}
  /\ wire \in [ArpFrame -> Nat]
  /\ dhcp_in \in Seq([op : {"offer", "nak", "ack"}, arg : Addr])
  /\ lost \in 0 .. MaxLost /\ spare \in 0 .. MaxSpare

\* As long as no entry was written over another, every packet went to the
\* hardware address its destination announced, whatever was added to the table
\* while ip_send_packet waited.
SentToAnnounced == overwritten \/ \A s \in sent : s.mac = s.dst

Idle == pc > Len(script) /\ adding = "no" /\ \A c \in Context : sending[c] = <<>>
Quiet == Idle /\ dhcp_out = <<>> /\ dhcp_in = <<>>

IsLastStatic(k) == /\ script[k].op = "ip static"
                   /\ \A j \in k + 1 .. Len(script) : script[j].op # "ip static"

\* Once the exchange is over, the card has the address the server leased to this
\* host; and isStatic stands only for a static address that was granted, unless
\* the request was lost with the broadcast entry.
LeaseAgrees ==
  Quiet =>
    /\ is_ip_allocated => (ip = lease /\ lease # Zero)
    /\ isStatic /\ ~overwritten =>
         \E k \in 1 .. Len(script) : IsLastStatic(k) /\ ip = script[k].arg

\* The init file ends, and no interrupt waits for ever: udpsend gets its address
\* and every wait in ip_send_packet its reply, although MaxLost frames are lost.
ScriptEnds == <>[](Idle \/ overwritten)

\* What arp.c asserts after init_arp: the broadcast entry is there.
BroadcastFound == ~panicked
=============================================================================
