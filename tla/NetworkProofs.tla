--------------------------- MODULE NetworkProofs ---------------------------
(***************************************************************************)
(* Packets go where their destination announced itself, for every size of  *)
(* the ARP table, every set of hosts and every init file, as long as the   *)
(* table was not overwritten; and the card has the address that the DHCP   *)
(* server granted, as long as the network is up during the exchange.       *)
(***************************************************************************)
EXTENDS Network, TLAPS

\* A context that has found an entry has a packet to send.
Waiting == \A c \in Context : found[c] # None => sending[c] # <<>>

\* The peers only announce themselves.
WireAgrees ==
  \A f \in ArpFrame : wire[f] > 0 /\ f.op = "reply" /\ f.from # Self => f.ip = f.from

\* The half-written entry of init_arp is the current one, and the entry a sender
\* has found is still the one of its destination.
TableAgrees ==
  ~overwritten =>
    /\ \A i \in Index : arp_table[i].ip # Zero => arp_table[i].mac = arp_table[i].ip
    /\ adding = "ip" => arp_table[arp_table_current] = [ip |-> Zero, mac |-> Broadcast]
    /\ \A c \in Context : found[c] # None => arp_table[found[c]].ip = Head(sending[c]).dst

\* The type invariant in parts.
Flags ==
  /\ isNetworkON \in BOOLEAN /\ current_interface \in BOOLEAN
  /\ is_ip_allocated \in BOOLEAN /\ isStatic \in BOOLEAN
  /\ panicked \in BOOLEAN /\ overwritten \in BOOLEAN

Reply == [op : {"offer", "nak", "ack"}, arg : Addr]
Place ==
  /\ script \in Scripts /\ pc \in 1 .. Len(script) + 1
  /\ adding \in {"no", "ip", "advance", "check"}
Tables == arp_table \in [Index -> Entry] /\ arp_table_current \in Index
Senders ==
  /\ sending \in [Context -> Seq(Message)]
  /\ arp_sent \in [Context -> 0 .. 3] /\ found \in [Context -> Index \cup {None}]
Lines ==
  /\ wire \in [ArpFrame -> Nat]
  /\ dhcp_in \in Seq(Reply)
  /\ ip \in Addr /\ lease \in Free \cup {Zero}
  /\ lost \in 0 .. MaxLost /\ spare \in 0 .. MaxSpare

\* What a packet is sent to was in the table when it was found, and the table
\* got it from the wire: SentToAnnounced needs the other parts as its history.
IInv == TypeOK /\ Waiting /\ WireAgrees /\ TableAgrees /\ SentToAnnounced

LEMMA TypeParts ==
  /\ TypeOK <=> Flags /\ Place /\ Tables /\ Senders /\ Lines
  /\ TypeOK' <=> Flags' /\ Place' /\ Tables' /\ Senders' /\ Lines'
  BY Zenon DEF TypeOK, Flags, Place, Tables, Senders, Lines, Reply

-----------------------------------------------------------------------------
(***************************************************************************)
(* All that the proofs use of addresses.                                   *)
(***************************************************************************)
LEMMA Addresses ==
  /\ Zero \in Addr /\ Broadcast \in Addr /\ Zero # Broadcast /\ Self = Zero
  /\ Peers \cup Free \cup Taken \subseteq Addr
  /\ Zero \notin Peers \cup Free \cup Taken /\ Broadcast \notin Peers \cup Free \cup Taken
  BY AddrAssumption DEF Addr, Zero, Broadcast, Self

LEMMA Indexes ==
  /\ 0 \in Index /\ None \notin Index /\ TableSize \in Nat
  /\ arp_table_current \in Index => NextIndex \in Index
  BY TableAssumption DEF Index, None, NextIndex

LEMMA Frames ==
  /\ \A p \in Peers : Asks(Self, p) \in ArpFrame /\ Answers(p, p) \in ArpFrame
  /\ \A a \in Peers \cup {Broadcast} : Asks(Self, a) \in ArpFrame
  /\ \A p \in Peers, a \in Free : Asks(p, a) \in ArpFrame
  /\ \A f \in ArpFrame : Answers(Self, f.ip) \in ArpFrame
  BY DEF ArpFrame, Asks, Answers

LEMMA ScriptLength == \A s \in Scripts : Len(s) \in Nat
  BY Zenon, ScriptAssumption

\* The packet a context is sending.
LEMMA HeadIsMessage ==
  ASSUME TypeOK, NEW c \in Context, sending[c] # <<>>
  PROVE  /\ Head(sending[c]) \in Message /\ Tail(sending[c]) \in Seq(Message)
         /\ Head(sending[c]).dst \in Peers \cup {Broadcast}
         /\ Head(sending[c]).dst # Zero
<1>1. sending[c] \in Seq(Message)
  BY DEF TypeOK
<1>2. Head(sending[c]) \in Message /\ Tail(sending[c]) \in Seq(Message)
  BY <1>1
<1>3. Head(sending[c]).dst \in Peers \cup {Broadcast}
  BY <1>2 DEF Message
<1> QED
  BY <1>2, <1>3, Addresses

-----------------------------------------------------------------------------
LEMMA InitIInv == ASSUME Init PROVE IInv
<1>1. /\ arp_table \in [Index -> Entry]
      /\ \A i \in Index : arp_table[i].ip = Zero
  BY Addresses DEF Init, Entry
<1>2. wire \in [ArpFrame -> Nat] /\ \A f \in ArpFrame : wire[f] = 0
  BY DEF Init
<1>3. /\ sending \in [Context -> Seq(Message)]
      /\ arp_sent \in [Context -> 0 .. 3]
      /\ found \in [Context -> Index \cup {None}]
      /\ \A c \in Context : found[c] = None
  BY DEF Init
<1>4. script \in Scripts /\ pc \in 1 .. Len(script) + 1
  BY ScriptLength DEF Init
<1>5. TypeOK
  <2>1. Flags
    BY Zenon DEF Init, Flags
  <2>2. Place
    BY <1>4 DEF Init, Place
  <2>3. Tables /\ Senders
    BY <1>1, <1>3, Indexes DEF Init, Tables, Senders
  <2>4. Lines
    BY <1>2, Addresses, BoundAssumption DEF Init, Lines
  <2> QED
    BY <2>1, <2>2, <2>3, <2>4, TypeParts
<1>6. Waiting /\ WireAgrees /\ SentToAnnounced
  BY <1>2, <1>3 DEF Init, Waiting, WireAgrees, SentToAnnounced
<1>7. TableAgrees
  BY <1>1, <1>3 DEF Init, TableAgrees
<1> QED
  BY <1>5, <1>6, <1>7 DEF IInv

(***************************************************************************)
(* Type correctness, together with Waiting.                                *)
(***************************************************************************)
LEMMA AddEntryType ==
  ASSUME TypeOK, NEW i \in Addr, NEW m \in Addr, AddEntry(i, m)
  PROVE  /\ arp_table' \in [Index -> Entry] /\ arp_table_current' \in Index
         /\ overwritten' \in BOOLEAN
<1>1. [ip |-> i, mac |-> m] \in Entry
  BY DEF Entry
<1>2. arp_table' \in [Index -> Entry] /\ arp_table_current' \in Index
  BY <1>1, Indexes DEF TypeOK, AddEntry
<1>3. overwritten' \in BOOLEAN
  BY Zenon DEF TypeOK, AddEntry
<1> QED
  BY <1>2, <1>3

LEMMA SendAllType ==
  ASSUME TypeOK, NEW c \in Context, NEW ps \in Seq(Message), SendAll(c, ps)
  PROVE  sending' \in [Context -> Seq(Message)]
  BY DEF TypeOK, SendAll

LEMMA Messages ==
  /\ Discover \in Message
  /\ \A a \in Addr : Request(a) \in Message
  /\ \A p \in Peers : Packet(p, "data", Zero) \in Message
  BY Addresses DEF Discover, Request, Packet, Message

LEMMA PutType ==
  ASSUME TypeOK, NEW f \in ArpFrame
  PROVE  /\ Put(wire, f) \in [ArpFrame -> Nat]
         /\ wire[f] > 0 => Take(wire, f) \in [ArpFrame -> Nat]
         /\ \A g \in ArpFrame : wire[f] > 0 => Put(Take(wire, f), g) \in [ArpFrame -> Nat]
  BY SMTT(60) DEF TypeOK, Put, Take

\* The commands and the rest of init_arp.
LEMMA CommandArg ==
  ASSUME TypeOK, NEW op, Command(op)
  PROVE  /\ pc' \in 1 .. Len(script) + 1 /\ script' = script
         /\ op = "netinterface" => script[pc].arg \in BOOLEAN
         /\ op = "udpsend" => script[pc].arg \in Peers
         /\ op = "ip static" => script[pc].arg \in Addr
<1>1. pc \in 1 .. Len(script) /\ script[pc].op = op /\ pc' = pc + 1 /\ script' = script
      /\ Len(script) \in Nat /\ script \in Scripts
  BY ScriptLength DEF TypeOK, Command
<1>2. /\ (op = "netinterface") => (script[pc].arg \in BOOLEAN)
      /\ (op = "udpsend") => (script[pc].arg \in Peers)
      /\ (op = "ip static") => (script[pc].arg \in Free \cup Taken)
  BY <1>1, Zenon, ScriptAssumption
<1>3. pc' \in 1 .. Len(script) + 1
  BY <1>1
<1> QED
  BY <1>1, <1>2, <1>3, Addresses, Zenon

\* What an action leaves alone keeps its part of the type.
LEMMA SameParts ==
  ASSUME TypeOK
  PROVE  /\ UNCHANGED <<config, is_ip_allocated, isStatic, panicked, overwritten>> => Flags'
         /\ UNCHANGED <<script, pc, adding>> => Place'
         /\ UNCHANGED <<arp_table, arp_table_current>> => Tables'
         /\ UNCHANGED senders => Senders'
         /\ UNCHANGED <<wire, dhcp_in, ip, lease, budgets>> => Lines'
  BY Zenon, TypeParts DEF Flags, Place, Tables, Senders, Lines, config, senders, budgets

-----------------------------------------------------------------------------
(***************************************************************************)
(* Each turn of ip_send_packet keeps the types.                            *)
(***************************************************************************)
LEMMA SendType ==
  ASSUME TypeOK, Waiting, NEW c \in Context, Lookup(c) \/ Ask(c) \/ Transmit(c)
  PROVE  TypeOK' /\ Waiting'
<1>1. sending[c] # <<>>
  BY DEF Lookup, Ask, Transmit, Running, Context
<1>2. Flags' /\ Place' /\ Tables'
  BY SameParts DEF Lookup, Ask, Transmit, stack, init, dhcp
<1>3. CASE Lookup(c)
  <2>1. found' \in [Context -> Index \cup {None}]
    BY <1>3 DEF Lookup, FirstMatch, Matches, TypeOK
  <2>2. Senders'
    BY <1>3, <2>1 DEF Lookup, Senders, TypeOK
  <2>3. Lines'
    BY <1>3, SameParts DEF Lookup, dhcp
  <2>4. Waiting'
    BY <1>1, <1>3 DEF Lookup, Waiting, TypeOK
  <2> QED
    BY <1>2, <2>2, <2>3, <2>4, TypeParts
<1>4. CASE Ask(c)
  <2>1. Senders'
    BY <1>4 DEF Ask, Senders, TypeOK
  <2>2. wire' \in [ArpFrame -> Nat]
    BY <1>1, <1>4, HeadIsMessage, Frames, PutType DEF Ask, TypeOK
  <2>3. Lines'
    BY <1>4, <2>2, TypeParts DEF Ask, Lines, dhcp, budgets
  <2>4. Waiting'
    BY <1>4 DEF Ask, Waiting
  <2> QED
    BY <1>2, <2>1, <2>3, <2>4, TypeParts
<1>5. CASE Transmit(c)
  <2>1. Senders'
    BY <1>1, <1>5, HeadIsMessage DEF Transmit, Senders, TypeOK
  <2>2. Lines'
    BY <1>5, SameParts DEF Transmit, dhcp
  <2>3. Waiting'
    BY <1>5 DEF Transmit, Waiting, TypeOK
  <2> QED
    BY <1>2, <2>1, <2>2, <2>3, TypeParts
<1> QED
  BY <1>3, <1>4, <1>5

(***************************************************************************)
(* Each command of the init file keeps the types.                          *)
(***************************************************************************)
LEMMA CommandType ==
  ASSUME TypeOK, Waiting,
         ChangeNetworkState \/ SwitchInterface \/ InitDhcp \/ IpDhcp \/ IpStatic \/ UdpSend
  PROVE  TypeOK' /\ Waiting'
<1>1. /\ pc' \in 1 .. Len(script) + 1 /\ script' = script
      /\ ChangeNetworkState => isNetworkON' \in BOOLEAN
  BY Zenon, CommandArg DEF ChangeNetworkState, SwitchInterface, InitDhcp, IpDhcp, IpStatic, UdpSend
<1>2. Flags'
  BY TypeParts, <1>1, ZenonT(60)
  DEF ChangeNetworkState, SwitchInterface, InitDhcp, IpDhcp, IpStatic, UdpSend, Command,
      Flags, config, dhcp, stack
<1>3. Place'
  BY <1>1, TypeParts
  DEF ChangeNetworkState, SwitchInterface, InitDhcp, IpDhcp, IpStatic, UdpSend, Place
<1>4. Tables' /\ Lines'
  BY SameParts
  DEF ChangeNetworkState, SwitchInterface, InitDhcp, IpDhcp, IpStatic, UdpSend, Command, stack, dhcp
<1>5. /\ sending["task"] = <<>> /\ UNCHANGED <<arp_sent, found>>
  BY DEF ChangeNetworkState, SwitchInterface, InitDhcp, IpDhcp, IpStatic, UdpSend, Command
<1>6. /\ sending' \in [Context -> Seq(Message)]
      /\ sending' = [sending EXCEPT !["task"] = sending'["task"]]
  <2>1. CASE ChangeNetworkState \/ SwitchInterface \/ InitDhcp
    BY <2>1 DEF ChangeNetworkState, SwitchInterface, InitDhcp, TypeOK
  <2>2. CASE IpDhcp
    <3>1. <<Discover>> \in Seq(Message) /\ "task" \in Context
      BY Messages DEF Context
    <3> QED
      BY <2>2, <3>1, SendAllType DEF IpDhcp, SendAll, TypeOK
  <2>3. CASE IpStatic
    <3>1. script[pc].arg \in Addr
      BY <2>3, CommandArg DEF IpStatic
    <3>2. <<Discover, Request(script[pc].arg)>> \in Seq(Message) /\ "task" \in Context
      BY <3>1, Messages DEF Context
    <3> QED
      BY <2>3, <3>2, SendAllType DEF IpStatic, SendAll, TypeOK
  <2>4. CASE UdpSend
    <3>1. script[pc].arg \in Peers
      BY <2>4, CommandArg DEF UdpSend
    <3>2. <<Packet(script[pc].arg, "data", Zero)>> \in Seq(Message) /\ "task" \in Context
      BY <3>1, Messages DEF Context
    <3> QED
      BY <2>4, <3>2, SendAllType DEF UdpSend, SendAll, TypeOK
  <2> QED
    BY <2>1, <2>2, <2>3, <2>4
<1>7. Senders'
  BY <1>5, <1>6, TypeParts DEF Senders
<1>8. Waiting'
  BY <1>5, <1>6 DEF Waiting, TypeOK, Context
<1> QED
  BY <1>2, <1>3, <1>4, <1>7, <1>8, TypeParts

\* init_arp, step by step.
LEMMA ArpType ==
  ASSUME TypeOK, Waiting, InitArp \/ WriteAddress \/ Advance \/ CheckBroadcast
  PROVE  TypeOK' /\ Waiting'
<1>1. /\ UNCHANGED senders
      /\ UNCHANGED <<wire, dhcp_in, ip, lease, budgets, config, is_ip_allocated, isStatic>>
  BY DEF InitArp, WriteAddress, Advance, CheckBroadcast, InArp, Command, dhcp, senders
<1>2. Flags'
  BY <1>1, TypeParts, Zenon
  DEF InitArp, WriteAddress, Advance, CheckBroadcast, InArp, Command, Flags, config, stack
<1>3. Place'
  BY CommandArg, TypeParts DEF InitArp, WriteAddress, Advance, CheckBroadcast, InArp, Place
<1>4. Tables'
  <2>1. CASE InitArp
    BY <2>1, Addresses, TypeParts DEF InitArp, Tables, Entry
  <2>2. CASE WriteAddress
    BY <2>2, Addresses, TypeParts DEF WriteAddress, Tables, Entry
  <2>3. CASE Advance
    BY <2>3, Indexes, TypeParts DEF Advance, Tables
  <2>4. CASE CheckBroadcast
    BY <2>4, TypeParts DEF CheckBroadcast, stack, Tables
  <2> QED
    BY <2>1, <2>2, <2>3, <2>4
<1>5. Senders' /\ Lines'
  BY <1>1, SameParts
<1>6. Waiting'
  BY <1>1 DEF Waiting, senders
<1> QED
  BY <1>2, <1>3, <1>4, <1>5, <1>6, TypeParts

(***************************************************************************)
(* The receive interrupt keeps the types.                                  *)
(***************************************************************************)
LEMMA ReceiveArpType ==
  ASSUME TypeOK, Waiting, NEW f \in ArpFrame, ReceiveArp(f)
  PROVE  TypeOK' /\ Waiting'
<1>1. UNCHANGED <<script, pc, adding, panicked, senders, config, is_ip_allocated, isStatic,
                  dhcp_in, ip, lease, budgets>>
  BY DEF ReceiveArp, Interrupted, init, senders, dhcp
<1>2. f.ip \in Addr /\ f.from \in Addr
  BY Addresses DEF ArpFrame
<1>3. AddEntry(f.ip, f.from) \/ UNCHANGED stack
  BY DEF ReceiveArp
<1>4. Tables' /\ overwritten' \in BOOLEAN
  BY <1>2, <1>3, AddEntryType, TypeParts, Zenon DEF Tables, Flags, stack
<1>5. Flags'
  BY <1>1, <1>4, TypeParts, Zenon DEF Flags, config
<1>6. wire' \in [ArpFrame -> Nat]
  BY PutType, Frames DEF ReceiveArp
<1>7. Lines'
  BY <1>1, <1>6, TypeParts DEF Lines, budgets
<1>8. Place' /\ Senders'
  BY <1>1, SameParts
<1>9. Waiting'
  BY <1>1 DEF Waiting, senders
<1> QED
  BY <1>4, <1>5, <1>7, <1>8, <1>9, TypeParts

LEMMA ReceiveDhcpType ==
  ASSUME TypeOK, Waiting, ReceiveDhcp
  PROVE  TypeOK' /\ Waiting'
<1> DEFINE m == Head(dhcp_in)
<1>1. /\ UNCHANGED <<script, pc, adding, panicked, arp_sent, found, lease, budgets,
                      isNetworkON, current_interface, arp_table, arp_table_current,
                      overwritten, wire>>
      /\ sending["irq"] = <<>> /\ dhcp_in # <<>> /\ dhcp_in' = Tail(dhcp_in)
      /\ HandleDhcp(m) \/ UNCHANGED <<sending, dhcp>>
  BY DEF ReceiveDhcp, Interrupted, init, stack, config
<1>2. dhcp_in \in Seq(Reply) /\ m \in Reply /\ dhcp_in' \in Seq(Reply) /\ m.arg \in Addr
  <2>1. dhcp_in \in Seq(Reply)
    BY TypeParts DEF Lines
  <2>2. m \in Reply /\ Tail(dhcp_in) \in Seq(Reply)
    BY <1>1, <2>1
  <2> QED
    BY <1>1, <2>1, <2>2 DEF Reply
<1> HIDE DEF m
<1>3. Flags'
  BY <1>1, TypeParts, Zenon DEF Flags, HandleDhcp, dhcp
<1>4. ip' \in Addr
  BY <1>1, <1>2, TypeParts DEF HandleDhcp, dhcp, Lines
<1>5. \/ UNCHANGED sending
      \/ SendAll("irq", <<Discover>>)
      \/ SendAll("irq", <<Request(m.arg)>>)
  BY <1>1 DEF HandleDhcp
<1>6. <<Discover>> \in Seq(Message) /\ <<Request(m.arg)>> \in Seq(Message) /\ "irq" \in Context
  BY <1>2, Messages DEF Context
<1>7. /\ sending' \in [Context -> Seq(Message)]
      /\ sending' = [sending EXCEPT !["irq"] = sending'["irq"]]
  BY <1>5, <1>6, SendAllType DEF SendAll, TypeOK
<1>8. Lines'
  BY <1>1, <1>2, <1>4, TypeParts DEF Lines, budgets
<1>9. Place' /\ Tables'
  BY <1>1, SameParts
<1>10. Senders'
  BY <1>1, <1>7, TypeParts DEF Senders
<1>11. Waiting'
  BY <1>1, <1>7 DEF Waiting, TypeOK, Context
<1> QED
  BY <1>3, <1>8, <1>9, <1>10, <1>11, TypeParts

(***************************************************************************)
(* The environment keeps the types.                                        *)
(***************************************************************************)
LEMMA EnvironmentType ==
  ASSUME TypeOK, Waiting,
         \/ \E p \in Peers : PeerAnswers(p) \/ PeerSpeaks(p)
         \/ \E f \in ArpFrame : Lose(f)
         \/ Server
  PROVE  TypeOK' /\ Waiting'
<1>1. UNCHANGED host
  BY DEF PeerAnswers, PeerSpeaks, Lose, Server
<1>2. Flags' /\ Place' /\ Tables' /\ Senders' /\ ip' = ip
  BY <1>1, SameParts DEF host, stack, init, dhcp
<1>3. Waiting'
  BY <1>1 DEF Waiting, host, senders
<1>4. wire' \in [ArpFrame -> Nat]
  <2>1. ASSUME NEW p \in Peers, PeerAnswers(p) PROVE wire' \in [ArpFrame -> Nat]
    BY <2>1, PutType, Frames DEF PeerAnswers
  <2>2. ASSUME NEW p \in Peers, PeerSpeaks(p) PROVE wire' \in [ArpFrame -> Nat]
    <3>1. lease # Zero => lease \in Free
      BY DEF TypeOK
    <3> QED
      BY <2>2, <3>1, PutType, Frames DEF PeerSpeaks
  <2>3. ASSUME NEW f \in ArpFrame, Lose(f) PROVE wire' \in [ArpFrame -> Nat]
    BY <2>3, PutType DEF Lose
  <2>4. CASE Server
    BY <2>4, TypeParts DEF Server, Lines
  <2> QED
    BY <2>1, <2>2, <2>3, <2>4
<1>5. dhcp_in' \in Seq(Reply) /\ lease' \in Free \cup {Zero}
  <2>1. CASE Server
    <3>1. \A a \in Free \cup {Zero}, op \in {"offer", "nak", "ack"} : [op |-> op, arg |-> a] \in Reply
      BY Addresses DEF Reply
    <3>2. dhcp_in \in Seq(Reply) /\ lease \in Free \cup {Zero}
      BY TypeParts DEF Lines
    <3>3. \E a \in Free \cup {Zero}, op \in {"offer", "nak", "ack"} :
             dhcp_in' = Append(dhcp_in, [op |-> op, arg |-> a])
      BY <2>1 DEF Server
    <3>4. PICK m \in Reply : dhcp_in' = Append(dhcp_in, m)
      BY <3>1, <3>3, Zenon
    <3>6. dhcp_in' \in Seq(Reply)
      BY <3>2, <3>4
    <3>5. lease' \in Free \cup {Zero}
      BY <2>1, <3>2 DEF Server
    <3> QED
      BY <3>6, <3>5
  <2>2. CASE UNCHANGED <<dhcp_in, lease>>
    BY <2>2, TypeParts DEF Lines
  <2> QED
    BY <2>1, <2>2 DEF PeerAnswers, PeerSpeaks, Lose
<1>6. lost' \in 0 .. MaxLost /\ spare' \in 0 .. MaxSpare
  BY BoundAssumption, TypeParts DEF Lines, PeerAnswers, PeerSpeaks, Lose, Server, budgets
<1>7. Lines'
  BY <1>2, <1>4, <1>5, <1>6, TypeParts DEF Lines
<1> QED
  BY <1>2, <1>3, <1>7, TypeParts

LEMMA NextType == ASSUME TypeOK, Waiting, [Next]_vars PROVE TypeOK' /\ Waiting'
<1>1. ASSUME NEW c \in Context, Lookup(c) \/ Ask(c) \/ Transmit(c) PROVE TypeOK' /\ Waiting'
  BY <1>1, SendType
<1>2. CASE TaskStep
  BY <1>1, <1>2, CommandType, ArpType DEF TaskStep, Context
<1>3. CASE IrqStep
  BY <1>1, <1>3 DEF IrqStep, Context
<1>4. CASE UNCHANGED vars
  <2>1. TypeOK'
    BY <1>4, SameParts, TypeParts DEF vars, stack, init, dhcp
  <2>2. Waiting'
    BY <1>4 DEF vars, senders, Waiting
  <2> QED
    BY <2>1, <2>2
<1> QED
  BY <1>2, <1>3, <1>4, ReceiveArpType, ReceiveDhcpType, EnvironmentType DEF Next

\* Every variable of the network model has its type in every reachable state.
THEOREM TypeCorrect == Spec => []TypeOK
<1>1. Init => TypeOK /\ Waiting
  BY InitIInv DEF IInv
<1>2. TypeOK /\ Waiting /\ [Next]_vars => (TypeOK /\ Waiting)'
  BY NextType
<1> QED
  BY <1>1, <1>2, PTL DEF Spec

-----------------------------------------------------------------------------
(***************************************************************************)
(* The wire: no step makes one host answer for another.                    *)
(***************************************************************************)
LEMMA WireNext ==
  ASSUME TypeOK, Waiting, WireAgrees, [Next]_vars
  PROVE  WireAgrees'
<1> USE DEF WireAgrees
<1>1. wire \in [ArpFrame -> Nat]
  BY DEF TypeOK
<1>2. ASSUME UNCHANGED wire PROVE WireAgrees'
  BY <1>2
<1>3. ASSUME NEW g \in ArpFrame, g.op = "request" \/ g.from = Self \/ g.ip = g.from,
             wire' = Put(wire, g)
      PROVE  WireAgrees'
  BY <1>1, <1>3 DEF Put
<1>4. ASSUME NEW f \in ArpFrame, wire[f] > 0, wire' = Take(wire, f) PROVE WireAgrees'
  BY <1>1, <1>4 DEF Take
<1>5. ASSUME NEW f \in ArpFrame, wire[f] > 0, NEW g \in ArpFrame,
             g.from = Self \/ g.ip = g.from, wire' = Put(Take(wire, f), g)
      PROVE  WireAgrees'
  BY <1>1, <1>5 DEF Put, Take
<1>6. ASSUME NEW c \in Context, Lookup(c) \/ Ask(c) \/ Transmit(c) PROVE WireAgrees'
  <2>1. CASE Ask(c)
    <3>1. sending[c] # <<>>
      BY <2>1 DEF Ask, Running, Context
    <3>2. Head(sending[c]).dst \in Peers \cup {Broadcast}
      BY <3>1, HeadIsMessage
    <3> QED
      BY <1>2, <1>3, <2>1, <3>2, Frames DEF Ask, Asks
  <2> QED
    BY <1>2, <1>6, <2>1 DEF Lookup, Transmit
<1>7. CASE TaskStep \/ IrqStep
  <2>1. ASSUME NEW op, Command(op) PROVE UNCHANGED wire
    BY <2>1 DEF Command
  <2>2. ASSUME NEW step, InArp(step) PROVE UNCHANGED wire
    BY <2>2 DEF InArp
  <2> QED
    BY <1>2, <1>6, <1>7, <2>1, <2>2
    DEF TaskStep, IrqStep, Context, WriteAddress, Advance, CheckBroadcast,
        ChangeNetworkState, SwitchInterface, InitArp, InitDhcp, IpDhcp, IpStatic, UdpSend
<1>8. ASSUME NEW f \in ArpFrame, ReceiveArp(f) PROVE WireAgrees'
  <2>1. Answers(Self, f.ip) \in ArpFrame /\ Answers(Self, f.ip).from = Self /\ wire[f] > 0
    BY <1>8, Frames DEF ReceiveArp, Answers
  <2>2. wire' = Take(wire, f) \/ wire' = Put(Take(wire, f), Answers(Self, f.ip))
    BY <1>8 DEF ReceiveArp
  <2> QED
    BY <1>4, <1>5, <2>1, <2>2
<1>9. ASSUME NEW p \in Peers, PeerAnswers(p) \/ PeerSpeaks(p) PROVE WireAgrees'
  <2>1. /\ Answers(p, p) \in ArpFrame /\ Answers(p, p).ip = Answers(p, p).from
        /\ Asks(Self, p) \in ArpFrame
        /\ lease # Zero => Asks(p, lease) \in ArpFrame /\ Asks(p, lease).op = "request"
    BY Frames DEF Answers, Asks, TypeOK
  <2> QED
    BY <1>3, <1>5, <1>9, <2>1 DEF PeerAnswers, PeerSpeaks
<1>10. CASE ReceiveDhcp \/ Server \/ UNCHANGED vars
  BY <1>2, <1>10 DEF ReceiveDhcp, Server, vars
<1>11. ASSUME NEW f \in ArpFrame, Lose(f) PROVE WireAgrees'
  BY <1>4, <1>11 DEF Lose
<1> QED
  BY <1>7, <1>8, <1>9, <1>10, <1>11 DEF Next

-----------------------------------------------------------------------------
(***************************************************************************)
(* The table agrees with what was announced.                               *)
(***************************************************************************)

\* A sender that has found an entry keeps it, when the table stays as it is and
\* what changes is the queue of a context that had found none.
LEMMA SameTable ==
  ASSUME TypeOK, TableAgrees, UNCHANGED <<arp_table, arp_table_current, overwritten>>,
         adding' # "ip" \/ adding' = adding,
         \A c \in Context : found'[c] # None =>
            (found'[c] = found[c] /\ sending'[c] = sending[c])
  PROVE  TableAgrees'
  BY DEF TableAgrees

\* The entry at arp_table_current was empty, so nobody had found it.
LEMMA CurrentNotFound ==
  ASSUME TypeOK, Waiting, TableAgrees, ~overwritten,
         arp_table[arp_table_current].ip = Zero, NEW c \in Context, found[c] # None
  PROVE  found[c] \in Index /\ found[c] # arp_table_current
<1>1. Head(sending[c]).dst # Zero
  BY HeadIsMessage DEF Waiting
<1>2. arp_table[found[c]].ip = Head(sending[c]).dst
  BY DEF TableAgrees
<1> QED
  BY <1>1, <1>2 DEF TypeOK

LEMMA SendTable ==
  ASSUME TypeOK, TableAgrees, NEW c \in Context, Lookup(c) \/ Ask(c) \/ Transmit(c)
  PROVE  TableAgrees'
<1>1. UNCHANGED <<arp_table, arp_table_current, overwritten, adding>>
  BY DEF Lookup, Ask, Transmit, stack, init
<1>2. CASE Ask(c)
  BY <1>1, <1>2, SameTable DEF Ask
<1>3. CASE Transmit(c)
  <2>1. \A d \in Context : found'[d] # None => found'[d] = found[d] /\ sending'[d] = sending[d]
    BY <1>3 DEF Transmit, TypeOK
  <2> QED
    BY <1>1, <2>1, SameTable
<1>4. CASE Lookup(c)
  <2>1. PICK i \in Index : /\ arp_table[i].ip = Head(sending[c]).dst
                          /\ found' = [found EXCEPT ![c] = i]
    BY <1>4 DEF Lookup, FirstMatch, Matches
  <2>2. sending' = sending
    BY <1>4 DEF Lookup
  <2> QED
    BY <1>1, <2>1, <2>2 DEF TableAgrees, TypeOK
<1> QED
  BY <1>2, <1>3, <1>4

LEMMA CommandTable ==
  ASSUME TypeOK, Waiting, TableAgrees,
         ChangeNetworkState \/ SwitchInterface \/ InitDhcp \/ IpDhcp \/ IpStatic \/ UdpSend
  PROVE  TableAgrees'
<1>1. /\ UNCHANGED <<arp_table, arp_table_current, overwritten, adding, found>>
      /\ sending["task"] = <<>>
  BY DEF ChangeNetworkState, SwitchInterface, InitDhcp, IpDhcp, IpStatic, UdpSend, Command, stack
<1>2. sending' = [sending EXCEPT !["task"] = sending'["task"]]
  BY DEF ChangeNetworkState, SwitchInterface, InitDhcp, IpDhcp, IpStatic, UdpSend, SendAll, TypeOK
<1>3. \A c \in Context : found'[c] # None => found'[c] = found[c] /\ sending'[c] = sending[c]
  BY <1>1, <1>2 DEF Waiting, TypeOK
<1> QED
  BY <1>1, <1>3, SameTable

\* init_arp: the entry it writes was empty, or it counts as overwritten.
LEMMA ArpTable ==
  ASSUME TypeOK, Waiting, TableAgrees, InitArp \/ WriteAddress \/ Advance \/ CheckBroadcast
  PROVE  TableAgrees'
<1> DEFINE k == arp_table_current
<1>1. UNCHANGED <<sending, found>>
  BY DEF InitArp, WriteAddress, Advance, CheckBroadcast, InArp, Command, senders
<1>2. arp_table \in [Index -> Entry] /\ k \in Index
  BY DEF TypeOK
<1>3. SUFFICES ASSUME ~overwritten'
               PROVE  TableAgrees'
  BY DEF TableAgrees
<1>4. CASE InitArp
  <2>1. /\ ~overwritten /\ arp_table[k].ip = Zero /\ k' = k
        /\ arp_table' = [arp_table EXCEPT ![k].mac = Broadcast]
    BY <1>3, <1>4 DEF InitArp
  <2>2. /\ \A i \in Index : arp_table'[i].ip = arp_table[i].ip
        /\ \A i \in Index \ {k} : arp_table'[i] = arp_table[i]
        /\ arp_table'[k] = [ip |-> Zero, mac |-> Broadcast]
    BY <1>2, <2>1 DEF Entry
  <2>3. \A c \in Context : found[c] # None => found[c] \in Index
    BY DEF TypeOK
  <2> QED
    BY <1>1, <2>1, <2>2, <2>3 DEF TableAgrees
<1>5. CASE WriteAddress
  <2>1. /\ ~overwritten /\ arp_table[k] = [ip |-> Zero, mac |-> Broadcast]
        /\ adding' = "advance"
        /\ arp_table' = [arp_table EXCEPT ![k].ip = Broadcast]
    BY <1>3, <1>5 DEF WriteAddress, InArp, TableAgrees
  <2>2. /\ \A i \in Index \ {k} : arp_table'[i] = arp_table[i]
        /\ arp_table'[k].ip = Broadcast /\ arp_table'[k].mac = Broadcast
    BY <1>2, <2>1 DEF Entry
  <2>3. \A c \in Context : found[c] # None => found[c] \in Index \ {k}
    BY <2>1, CurrentNotFound
  <2> QED
    BY <1>1, <2>1, <2>2, <2>3 DEF TableAgrees
<1>6. CASE Advance \/ CheckBroadcast
  BY <1>1, <1>6 DEF Advance, CheckBroadcast, stack, TableAgrees
<1> QED
  BY <1>4, <1>5, <1>6

LEMMA ReceiveTable ==
  ASSUME TypeOK, Waiting, WireAgrees, TableAgrees, NEW f \in ArpFrame, ReceiveArp(f)
  PROVE  TableAgrees'
<1> DEFINE k == arp_table_current
<1>1. UNCHANGED <<sending, found, adding>>
  BY DEF ReceiveArp, Interrupted, init
<1>2. CASE UNCHANGED stack
  BY <1>1, <1>2, SameTable DEF stack
<1>3. CASE f.op = "reply" /\ AddEntry(f.ip, f.from)
  <2>1. SUFFICES ASSUME ~overwritten'
                 PROVE  TableAgrees'
    BY DEF TableAgrees
  <2>2. f.ip = f.from
    BY <1>3 DEF ReceiveArp, WireAgrees
  <2>3. ~overwritten /\ arp_table[k] = [ip |-> Zero, mac |-> Zero]
    BY <1>3, <2>1 DEF AddEntry
  <2>4. arp_table[k].ip = Zero /\ adding # "ip"
    BY <2>3, Addresses DEF TableAgrees
  <2>5. /\ arp_table \in [Index -> Entry] /\ k \in Index
        /\ arp_table' = [arp_table EXCEPT ![k] = [ip |-> f.ip, mac |-> f.from]]
    BY <1>3 DEF AddEntry, TypeOK
  <2>6. /\ \A i \in Index \ {k} : arp_table'[i] = arp_table[i]
        /\ arp_table'[k].ip = arp_table'[k].mac
    BY <2>2, <2>5
  <2>7. \A c \in Context : found[c] # None => found[c] \in Index \ {k}
    BY <2>3, <2>4, CurrentNotFound
  <2> QED
    BY <1>1, <2>3, <2>4, <2>6, <2>7 DEF TableAgrees
<1> QED
  BY <1>2, <1>3 DEF ReceiveArp

LEMMA TableNext ==
  ASSUME TypeOK, Waiting, WireAgrees, TableAgrees, [Next]_vars
  PROVE  TableAgrees'
<1>1. ASSUME NEW c \in Context, Lookup(c) \/ Ask(c) \/ Transmit(c) PROVE TableAgrees'
  BY <1>1, SendTable
<1>2. CASE TaskStep \/ IrqStep
  BY <1>1, <1>2, CommandTable, ArpTable DEF TaskStep, IrqStep, Context
<1>3. CASE ReceiveDhcp
  <2>1. /\ UNCHANGED <<arp_table, arp_table_current, overwritten, adding, found>>
        /\ sending["irq"] = <<>>
    BY <1>3 DEF ReceiveDhcp, Interrupted, stack, init
  <2>2. sending' = [sending EXCEPT !["irq"] = sending'["irq"]]
    BY <1>3 DEF ReceiveDhcp, HandleDhcp, SendAll, TypeOK
  <2>3. \A c \in Context : found'[c] # None => found'[c] = found[c] /\ sending'[c] = sending[c]
    BY <2>1, <2>2 DEF Waiting, TypeOK
  <2> QED
    BY <2>1, <2>3, SameTable
<1>4. CASE UNCHANGED <<stack, adding, sending, found>>
  BY <1>4, SameTable DEF stack
<1>5. ASSUME NEW f \in ArpFrame, Lose(f) PROVE TableAgrees'
  BY <1>4, <1>5 DEF Lose, host, senders, init
<1>6. ASSUME NEW p \in Peers, PeerAnswers(p) \/ PeerSpeaks(p) PROVE TableAgrees'
  BY <1>4, <1>6 DEF PeerAnswers, PeerSpeaks, host, senders, init
<1>7. CASE Server \/ UNCHANGED vars
  BY <1>4, <1>7 DEF Server, host, vars, senders, init
<1> QED
  BY <1>2, <1>3, <1>5, <1>6, <1>7, ReceiveTable DEF Next

LEMMA SentNext ==
  ASSUME TypeOK, Waiting, TableAgrees, SentToAnnounced, [Next]_vars
  PROVE  SentToAnnounced'
<1> USE DEF SentToAnnounced
<1>1. ASSUME NEW c \in Context, Transmit(c) PROVE SentToAnnounced'
  <2> DEFINE packet == Head(sending[c])
             entry  == arp_table[found[c]]
  <2>1. UNCHANGED overwritten /\ found[c] # None
    BY <1>1 DEF Transmit, stack
  <2>2. found[c] \in Index /\ packet.dst # Zero
    BY <2>1, HeadIsMessage DEF TypeOK, Waiting
  <2>3. overwritten \/ entry.mac = packet.dst
    BY <2>1, <2>2 DEF TableAgrees
  <2>4. sent' = sent \/ sent' = sent \cup {[dst |-> packet.dst, mac |-> entry.mac]}
    BY <1>1 DEF Transmit
  <2> QED
    BY <2>1, <2>3, <2>4
<1>2. ASSUME UNCHANGED sent, overwritten => overwritten' PROVE SentToAnnounced'
  BY <1>2
<1>3. CASE TaskStep \/ IrqStep
  <2>1. ASSUME NEW c \in Context, Lookup(c) \/ Ask(c) PROVE SentToAnnounced'
    BY <1>2, <2>1 DEF Lookup, Ask, stack
  <2>2. CASE \/ ChangeNetworkState \/ SwitchInterface \/ InitDhcp \/ IpDhcp \/ IpStatic \/ UdpSend
             \/ InitArp \/ WriteAddress \/ Advance \/ CheckBroadcast
    BY <1>2, <2>2
    DEF ChangeNetworkState, SwitchInterface, InitDhcp, IpDhcp, IpStatic, UdpSend, InitArp,
        WriteAddress, Advance, CheckBroadcast, Command, InArp, stack
  <2> QED
    BY <1>1, <1>3, <2>1, <2>2 DEF TaskStep, IrqStep, Context
<1>4. ASSUME NEW f \in ArpFrame, ReceiveArp(f) \/ Lose(f) PROVE SentToAnnounced'
  BY <1>2, <1>4 DEF ReceiveArp, Interrupted, AddEntry, Lose, host, stack
<1>5. ASSUME NEW p \in Peers, PeerAnswers(p) \/ PeerSpeaks(p) PROVE SentToAnnounced'
  BY <1>2, <1>5 DEF PeerAnswers, PeerSpeaks, host, stack
<1>6. CASE ReceiveDhcp \/ Server \/ UNCHANGED vars
  BY <1>2, <1>6 DEF ReceiveDhcp, Interrupted, Server, host, vars, stack
<1> QED
  BY <1>3, <1>4, <1>5, <1>6 DEF Next

(***************************************************************************)
(* As long as no entry was written over another, every packet goes to the  *)
(* hardware address its destination announced.                             *)
(***************************************************************************)
THEOREM PacketsReachAnnounced == Spec => []SentToAnnounced
<1>1. Init => IInv
  BY InitIInv
<1>2. IInv /\ [Next]_vars => IInv'
  BY NextType, WireNext, TableNext, SentNext DEF IInv
<1>3. IInv => SentToAnnounced
  BY DEF IInv
<1> QED
  BY <1>1, <1>2, <1>3, PTL DEF Spec

-----------------------------------------------------------------------------
(***************************************************************************)
(* The lease: the card has what the server granted last, and a static      *)
(* address only as it was asked for.                                       *)
(***************************************************************************)

\* None of the messages q is of a kind in ops; the last of them that is refuses, or is about a.
NoneOf(q, ops) == \A i \in 1..Len(q) : q[i].op \notin ops
IsLast(q, ops, i) == i \in 1..Len(q) /\ q[i].op \in ops /\ \A j \in i + 1..Len(q) : q[j].op \notin ops
LastFor(q, ops, a) == \A i \in 1..Len(q) : IsLast(q, ops, i) => q[i].op = "nak" \/ q[i].arg = a
Requests == {"request"}
Acks == {"ack"}
Verdicts == {"ack", "nak"}

(* While a request waits to be sent or a DHCP message is under way, the network is on and a card
   is selected: a message is dropped otherwise, and with it what the server granted. *)
DhcpUp ==
  (dhcp_out # <<>> \/ dhcp_in # <<>> \/ \E c \in Context : ~NoneOf(sending[c], Requests)) => Connected

Asked ==
  /\ dhcp_out \in Seq(Message)
  /\ \A c \in Context : \A i \in 1..Len(sending[c]) : sending[c][i].op = "request" => sending[c][i].dst = Broadcast

\* The server's last word on the lease is on its way or in the card.
Leased ==
  /\ LastFor(dhcp_in, Acks, lease)
  /\ ~NoneOf(dhcp_in, Acks) => lease # Zero
  /\ NoneOf(dhcp_in, Acks) /\ is_ip_allocated => ip = lease /\ lease # Zero

\* The last request on the way from the task to the card is for a, and no other was granted after it.
Toward(a) ==
  /\ LastFor(sending["task"], Requests, a)
  /\ NoneOf(sending["task"], Requests) =>
       /\ LastFor(dhcp_out, Requests, a)
       /\ NoneOf(dhcp_out, Requests) =>
            /\ LastFor(dhcp_in, Verdicts, a)
            /\ NoneOf(dhcp_in, Verdicts) => ip = a
StaticBefore(k) == /\ k \in 1..Len(script) /\ k < pc /\ script[k].op = "ip static"
                   /\ \A j \in k + 1..Len(script) : j < pc => script[j].op # "ip static"
Static ==
  isStatic /\ ~overwritten =>
    sending["irq"] = <<>> /\ \E k \in 1..Len(script) : StaticBefore(k) /\ Toward(script[k].arg)

LInv == Asked /\ Leased /\ Static

LEMMA LastAppend ==
  ASSUME NEW S, NEW q \in Seq(S), NEW e \in S, NEW ops, NEW a
  PROVE  /\ NoneOf(Append(q, e), ops) <=> NoneOf(q, ops) /\ e.op \notin ops
         /\ e.op \notin ops /\ LastFor(q, ops, a) => LastFor(Append(q, e), ops, a)
         /\ e.op \in ops /\ (e.op = "nak" \/ e.arg = a) => LastFor(Append(q, e), ops, a)
<1>0. PICK n \in Nat : n = Len(q)
  OBVIOUS
<1>1. PICK r : r = Append(q, e)
  OBVIOUS
<1>2. Len(q) = n /\ Len(r) = n + 1 /\ r[n + 1] = e /\ \A i \in 1..n : r[i] = q[i]
  BY <1>0, <1>1
<1>3. NoneOf(r, ops) <=> NoneOf(q, ops) /\ e.op \notin ops
  <2>1. \A i \in 1..n + 1 : i \in 1..n \/ i = n + 1
    OBVIOUS
  <2>2. n + 1 \in 1..n + 1 /\ \A i \in 1..n : i \in 1..n + 1
    OBVIOUS
  <2> QED BY <1>1, <1>2, <2>1, <2>2 DEF NoneOf
<1>4. ASSUME e.op \notin ops, LastFor(q, ops, a) PROVE LastFor(r, ops, a)
  <2> SUFFICES ASSUME NEW i \in 1..n + 1, IsLast(r, ops, i) PROVE r[i].op = "nak" \/ r[i].arg = a
    BY <1>2 DEF LastFor
  <2>1. i \in 1..n
    BY <1>2, <1>4 DEF IsLast
  <2>2. ASSUME NEW j \in i + 1..n PROVE q[j].op \notin ops
    <3>1. j \in i + 1..n + 1 /\ j \in 1..n
      BY <2>1
    <3> QED BY <1>2, <3>1 DEF IsLast
  <2>3. IsLast(q, ops, i)
    BY <1>1, <1>2, <2>1, <2>2 DEF IsLast
  <2> QED BY <1>1, <1>2, <1>4, <2>1, <2>3 DEF LastFor
<1>5. ASSUME e.op \in ops, e.op = "nak" \/ e.arg = a PROVE LastFor(r, ops, a)
  <2> SUFFICES ASSUME NEW i \in 1..n + 1, IsLast(r, ops, i) PROVE r[i].op = "nak" \/ r[i].arg = a
    BY <1>2 DEF LastFor
  <2>1. i = n + 1
    <3>1. i # n + 1 => n + 1 \in i + 1..n + 1
      OBVIOUS
    <3> QED BY <1>2, <1>5, <3>1 DEF IsLast
  <2> QED BY <1>2, <1>5, <2>1
<1> QED BY <1>1, <1>3, <1>4, <1>5

LEMMA LastTail ==
  ASSUME NEW S, NEW q \in Seq(S), q # <<>>, NEW ops, NEW a
  PROVE  /\ NoneOf(q, ops) <=> NoneOf(Tail(q), ops) /\ Head(q).op \notin ops
         /\ LastFor(q, ops, a) => LastFor(Tail(q), ops, a)
         /\ LastFor(q, ops, a) /\ Head(q).op \in ops /\ NoneOf(Tail(q), ops) => Head(q).op = "nak" \/ Head(q).arg = a
<1>0. PICK n \in Nat : n = Len(q) - 1
  OBVIOUS
<1>1. PICK r, h : r = Tail(q) /\ h = Head(q)
  OBVIOUS
<1>2. Len(q) = n + 1 /\ Len(r) = n /\ h = q[1] /\ \A i \in 1..n : r[i] = q[i + 1]
  BY <1>0, <1>1
<1>3. \A i \in 1..n + 1 : i = 1 \/ (i - 1 \in 1..n /\ (i - 1) + 1 = i)
  OBVIOUS
<1>4. 1 \in 1..n + 1 /\ \A i \in 1..n : i + 1 \in 1..n + 1
  OBVIOUS
<1>5. NoneOf(q, ops) <=> NoneOf(r, ops) /\ h.op \notin ops
  <2>1. ASSUME NoneOf(q, ops) PROVE NoneOf(r, ops) /\ h.op \notin ops
    BY <1>2, <1>4, <2>1 DEF NoneOf
  <2>2. ASSUME NoneOf(r, ops), h.op \notin ops, NEW i \in 1..n + 1 PROVE q[i].op \notin ops
    <3>1. CASE i = 1
      BY <1>2, <2>2, <3>1
    <3>2. CASE i - 1 \in 1..n /\ (i - 1) + 1 = i
      <4>1. r[i - 1].op \notin ops /\ r[i - 1] = q[i]
        BY <1>2, <2>2, <3>2 DEF NoneOf
      <4> QED BY <4>1
    <3> QED BY <1>3, <3>1, <3>2
  <2>3. (NoneOf(r, ops) /\ h.op \notin ops) => NoneOf(q, ops)
    BY <1>2, <2>2 DEF NoneOf
  <2> QED BY <2>1, <2>3
<1>6. ASSUME LastFor(q, ops, a) PROVE LastFor(r, ops, a)
  <2> SUFFICES ASSUME NEW i \in 1..n, IsLast(r, ops, i) PROVE r[i].op = "nak" \/ r[i].arg = a
    BY <1>2 DEF LastFor
  <2>1. ASSUME NEW j \in (i + 1) + 1..n + 1 PROVE q[j].op \notin ops
    <3>1. j - 1 \in i + 1..n /\ j - 1 \in 1..n /\ (j - 1) + 1 = j
      OBVIOUS
    <3>2. r[j - 1].op \notin ops /\ r[j - 1] = q[j]
      BY <1>2, <3>1 DEF IsLast
    <3> QED BY <3>2
  <2>2. r[i] = q[i + 1] /\ i + 1 \in 1..n + 1 /\ r[i].op \in ops
    BY <1>2, <1>4 DEF IsLast
  <2>3. IsLast(q, ops, i + 1)
    BY <1>2, <2>1, <2>2 DEF IsLast
  <2> QED BY <1>2, <1>6, <2>2, <2>3 DEF LastFor
<1>7. ASSUME LastFor(q, ops, a), h.op \in ops, NoneOf(r, ops) PROVE h.op = "nak" \/ h.arg = a
  <2>1. ASSUME NEW j \in 1 + 1..n + 1 PROVE q[j].op \notin ops
    <3>1. j - 1 \in 1..n /\ (j - 1) + 1 = j
      OBVIOUS
    <3>2. r[j - 1].op \notin ops /\ r[j - 1] = q[j]
      BY <1>2, <1>7, <3>1 DEF NoneOf
    <3> QED BY <3>2
  <2>2. IsLast(q, ops, 1)
    BY <1>2, <1>4, <1>7, <2>1 DEF IsLast
  <2> QED BY <1>2, <1>4, <1>7, <2>2 DEF LastFor
<1> QED BY <1>1, <1>5, <1>6, <1>7

LEMMA LastOfNone ==
  ASSUME NEW q, NEW ops, NEW a, NoneOf(q, ops)
  PROVE  LastFor(q, ops, a)
BY DEF NoneOf, LastFor, IsLast

LEMMA NoneOfEmpty == \A ops : NoneOf(<<>>, ops)
<1>1. Len(<<>>) = 0
  OBVIOUS
<1> QED BY <1>1 DEF NoneOf

LEMMA PlaceInScript ==
  ASSUME TypeOK
  PROVE  pc \in Nat /\ Len(script) \in Nat /\ 1 <= pc
<1>1. PICK n \in Nat : n = Len(script)
  BY ScriptLength DEF TypeOK
<1>2. pc \in 1..n + 1
  BY <1>1 DEF TypeOK
<1> QED BY <1>1, <1>2

LEMMA OneMore ==
  ASSUME NEW p \in Nat, NEW n \in Nat, NEW k \in 1..n, k < p
  PROVE  k < p + 1 /\ \A j \in k + 1..n : j < p + 1 => j < p \/ j = p
OBVIOUS

LEMMA LeaseSame ==
  ASSUME LInv, UNCHANGED <<script, pc, sending, dhcp_out, dhcp_in, lease, ip, is_ip_allocated, isStatic>>,
         overwritten => overwritten'
  PROVE  LInv'
<1>1. Asked' /\ Leased'
  BY DEF LInv, Asked, Leased
<1>2. ASSUME NEW a PROVE Toward(a)' <=> Toward(a)
  BY DEF Toward
<1>3. ASSUME NEW k PROVE StaticBefore(k)' <=> StaticBefore(k)
  BY DEF StaticBefore
<1>4. Static'
  <2> SUFFICES ASSUME isStatic', ~overwritten'
               PROVE  sending'["irq"] = <<>> /\ \E k \in 1..Len(script') : StaticBefore(k)' /\ Toward(script[k].arg)'
    BY DEF Static
  <2>1. isStatic /\ ~overwritten
    OBVIOUS
  <2>2. PICK k \in 1..Len(script) : sending["irq"] = <<>> /\ StaticBefore(k) /\ Toward(script[k].arg)
    BY <2>1 DEF LInv, Static
  <2> QED BY <1>2, <1>3, <2>2
<1> QED BY <1>1, <1>4 DEF LInv

LEMMA LeaseCommand ==
  ASSUME TypeOK, LInv, UNCHANGED <<script, dhcp_out, dhcp_in, lease, ip, isStatic>>, overwritten => overwritten',
         pc' = pc + 1, script[pc].op # "ip static", is_ip_allocated' => is_ip_allocated,
         sending["task"] = <<>>, sending'["irq"] = sending["irq"], NoneOf(sending'["task"], Requests)
  PROVE  LInv'
<1>1. Asked'
  BY DEF LInv, Asked, NoneOf, Requests, Context
<1>2. Leased'
  BY DEF LInv, Leased
<1>3. Static'
  <2> SUFFICES ASSUME isStatic', ~overwritten'
               PROVE  sending'["irq"] = <<>> /\ \E k \in 1..Len(script') : StaticBefore(k)' /\ Toward(script[k].arg)'
    BY DEF Static
  <2>1. isStatic /\ ~overwritten
    OBVIOUS
  <2>2. PICK k \in 1..Len(script) : sending["irq"] = <<>> /\ StaticBefore(k) /\ Toward(script[k].arg)
    BY <2>1 DEF LInv, Static
  <2>3. StaticBefore(k)'
    <3>1. pc \in Nat /\ Len(script) \in Nat
      BY PlaceInScript
    <3>2. PICK n \in Nat : n = Len(script)
      BY <3>1
    <3>3. k < pc /\ k \in 1..n
      BY <2>2, <3>2 DEF StaticBefore
    <3>4. k < pc + 1 /\ \A j \in k + 1..n : j < pc + 1 => j < pc \/ j = pc
      BY <3>1, <3>3, OneMore
    <3> QED BY <2>2, <3>2, <3>4 DEF StaticBefore
  <2>4. PICK a : a = script[k].arg
    OBVIOUS
  <2>5. NoneOf(sending["task"], Requests)
    BY NoneOfEmpty
  <2>6. LastFor(sending'["task"], Requests, a)
    BY LastOfNone
  <2>7. Toward(a)'
    BY <2>2, <2>4, <2>5, <2>6 DEF Toward
  <2> QED BY <2>2, <2>3, <2>4, <2>7
<1> QED BY <1>1, <1>2, <1>3 DEF LInv

\* a static address is asked for
LEMMA LeaseStatic ==
  ASSUME TypeOK, LInv, IpStatic
  PROVE  LInv'
<1>1. /\ UNCHANGED <<script, dhcp_out, dhcp_in, lease, ip, is_ip_allocated>>
      /\ pc' = pc + 1 /\ pc <= Len(script) /\ script[pc].op = "ip static" /\ sending["irq"] = <<>>
      /\ sending' = [sending EXCEPT !["task"] = <<Discover, Request(script[pc].arg)>>]
  BY DEF IpStatic, Command, SendAll
<1>2. pc \in 1..Len(script) /\ pc \in Nat /\ Len(script) \in Nat
  <2>1. PICK n \in Nat : n = Len(script)
    BY PlaceInScript
  <2>2. pc \in Nat /\ 1 <= pc /\ pc <= n
    BY <1>1, <2>1, PlaceInScript
  <2> QED BY <2>1, <2>2
<1>3. PICK a : a = script[pc].arg
  OBVIOUS
<1>4. sending'["irq"] = <<>> /\ sending'["task"] = <<Discover, Request(a)>>
  BY <1>1, <1>3 DEF TypeOK, Context
<1>6. Leased'
  BY <1>1 DEF LInv, Leased
<1>7. PICK q : q = <<Discover, Request(a)>>
  OBVIOUS
<1>8. Len(q) = 2 /\ q[1].op = "discover" /\ q[2].op = "request" /\ q[2].arg = a /\ q[2].dst = Broadcast
  BY <1>7 DEF Discover, Request, Packet
<1>5. Asked'
  <2>1. \A i \in 1..2 : i = 1 \/ i = 2
    OBVIOUS
  <2>2. \A i \in 1..Len(q) : q[i].op = "request" => q[i].dst = Broadcast
    BY <1>8, <2>1
  <2>3. Len(<<>>) = 0
    OBVIOUS
  <2>4. \A c \in Context : \A i \in 1..Len(sending'[c]) : sending'[c][i].op = "request" => sending'[c][i].dst = Broadcast
    BY <1>4, <1>7, <2>2, <2>3 DEF Context
  <2> QED BY <1>1, <2>4 DEF LInv, Asked
<1>9. LastFor(q, Requests, a) /\ ~NoneOf(q, Requests)
  <2>1. \A i \in 1..2 : i = 1 \/ i = 2
    OBVIOUS
  <2>2. 2 \in 1..2
    OBVIOUS
  <2> QED BY <1>8, <2>1, <2>2 DEF LastFor, IsLast, NoneOf, Requests
<1>10. Toward(a)'
  BY <1>4, <1>7, <1>9 DEF Toward
<1>12. PICK k \in 1..Len(script) : k = pc
  BY <1>2
<1>13. StaticBefore(k)'
  <2>1. \A j \in k + 1..Len(script) : ~ j < pc + 1
    BY <1>2, <1>12
  <2>2. k < pc + 1
    BY <1>2, <1>12
  <2> QED BY <1>1, <1>12, <2>1, <2>2 DEF StaticBefore
<1>14. Static'
  BY <1>1, <1>3, <1>4, <1>10, <1>12, <1>13 DEF Static
<1> QED BY <1>5, <1>6, <1>14 DEF LInv

LEMMA LeaseTransmit ==
  ASSUME TypeOK, Waiting, TableAgrees, LInv, DhcpUp, NEW c \in Context, Transmit(c)
  PROVE  LInv'
<1>1. /\ UNCHANGED <<script, pc, dhcp_in, lease, ip, is_ip_allocated, isStatic, overwritten>>
      /\ sending' = [sending EXCEPT ![c] = Tail(@)] /\ found[c] # None
      /\ c = "irq" => sending["irq"] # <<>>
  BY DEF Transmit, Running, stack, dhcp
<1>2. sending[c] # <<>> /\ sending \in [Context -> Seq(Message)] /\ found[c] \in Index
  BY <1>1 DEF Waiting, TypeOK
<1>3. PICK s, p : s = sending[c] /\ p = Head(sending[c])
  OBVIOUS
<1>4. s \in Seq(Message) /\ s # <<>> /\ p \in Message /\ p.dst \in Peers \cup {Broadcast} /\ p.dst # Zero
  BY <1>2, <1>3, HeadIsMessage
<1>5. dhcp_out' = IF Connected /\ arp_table[found[c]].mac = Broadcast THEN Append(dhcp_out, p) ELSE dhcp_out
  BY <1>3 DEF Transmit
<1>6. dhcp_out \in Seq(Message) /\ dhcp_out' \in Seq(Message)
  BY <1>4, <1>5 DEF LInv, Asked
<1>7. sending'[c] = Tail(s) /\ \A d \in Context \ {c} : sending'[d] = sending[d]
  BY <1>1, <1>2, <1>3
<1>8. Asked'
  <2>1. ASSUME NEW d \in Context, NEW i \in 1..Len(sending'[d]), sending'[d][i].op = "request"
        PROVE  sending'[d][i].dst = Broadcast
    <3>1. CASE d = c
      <4>1. PICK n \in Nat : n = Len(s) - 1
        BY <1>4
      <4>2. Len(Tail(s)) = n /\ Len(s) = n + 1 /\ \A j \in 1..n : Tail(s)[j] = s[j + 1] /\ j + 1 \in 1..n + 1
        BY <1>4, <4>1
      <4>3. i \in 1..n
        BY <1>7, <2>1, <3>1, <4>2
      <4>4. sending'[d][i] = sending[c][i + 1] /\ i + 1 \in 1..Len(sending[c])
        BY <1>3, <1>7, <3>1, <4>2, <4>3
      <4> QED BY <2>1, <4>4 DEF LInv, Asked
    <3>2. CASE d # c
      BY <1>7, <2>1, <3>2 DEF LInv, Asked
    <3> QED BY <3>1, <3>2
  <2> QED BY <1>6, <2>1 DEF Asked
<1>9. Leased'
  BY <1>1 DEF LInv, Leased
<1>10. Static'
  <2> SUFFICES ASSUME isStatic', ~overwritten'
               PROVE  sending'["irq"] = <<>> /\ \E k \in 1..Len(script') : StaticBefore(k)' /\ Toward(script[k].arg)'
    BY DEF Static
  <2>1. PICK k \in 1..Len(script) : sending["irq"] = <<>> /\ StaticBefore(k) /\ Toward(script[k].arg)
    BY <1>1 DEF LInv, Static
  <2>2. c = "task"
    BY <1>1, <2>1 DEF Context
  <2>3. sending'["irq"] = <<>> /\ StaticBefore(k)' /\ s = sending["task"] /\ sending'["task"] = Tail(s)
    BY <1>1, <1>3, <1>7, <2>1, <2>2 DEF StaticBefore, Context
  <2>4. PICK a : a = script[k].arg
    OBVIOUS
  <2>5. p.op = "request" => dhcp_out' = Append(dhcp_out, p)
    <3> SUFFICES ASSUME p.op = "request" PROVE dhcp_out' = Append(dhcp_out, p)
      OBVIOUS
    <3>1. 1 \in 1..Len(sending[c]) /\ sending[c][1] = p
      BY <1>3, <1>4
    <3>2. p.dst = Broadcast
      BY <3>1 DEF LInv, Asked
    <3>3. Connected
      BY <3>1 DEF DhcpUp, NoneOf, Requests
    <3>4. arp_table[found[c]].ip = p.dst /\ arp_table[found[c]].mac = arp_table[found[c]].ip
      BY <1>1, <1>2, <1>3, <1>4 DEF TableAgrees
    <3> QED BY <1>5, <3>2, <3>3, <3>4
  <2>6. Toward(a)'
    <3>1. /\ LastFor(s, Requests, a)
          /\ NoneOf(s, Requests) => /\ LastFor(dhcp_out, Requests, a)
                                    /\ NoneOf(dhcp_out, Requests) => /\ LastFor(dhcp_in, Verdicts, a)
                                                                     /\ NoneOf(dhcp_in, Verdicts) => ip = a
      BY <2>1, <2>3, <2>4 DEF Toward
    <3>2. LastFor(Tail(s), Requests, a)
      BY <1>4, <3>1, LastTail
    <3>3. CASE p.op = "request"
      <4>1. NoneOf(Tail(s), Requests) => p.op = "nak" \/ p.arg = a
        <5>1. p.op \in Requests /\ Head(s) = p
          BY <1>3, <3>3 DEF Requests
        <5> QED BY <1>4, <3>1, <5>1, LastTail
      <4>2. NoneOf(Tail(s), Requests) => LastFor(dhcp_out', Requests, a)
        <5>1. p.op \in Requests
          BY <3>3 DEF Requests
        <5>2. p.op = "nak" \/ p.arg = a => LastFor(Append(dhcp_out, p), Requests, a)
          BY <1>4, <1>6, <5>1, LastAppend
        <5> QED BY <2>5, <3>3, <4>1, <5>2
      <4>3. ~NoneOf(dhcp_out', Requests)
        BY <1>4, <1>6, <2>5, <3>3, LastAppend, ZenonT(60) DEF Requests
      <4> QED BY <2>3, <3>2, <4>2, <4>3 DEF Toward
    <3>4. CASE p.op # "request"
      <4>1. p.op \notin Requests /\ Head(s) = p
        BY <1>3, <3>4 DEF Requests
      <4>2. NoneOf(s, Requests) <=> NoneOf(Tail(s), Requests)
        BY <1>4, <4>1, LastTail
      <4>3. /\ LastFor(dhcp_out, Requests, a) => LastFor(dhcp_out', Requests, a)
            /\ NoneOf(dhcp_out', Requests) => NoneOf(dhcp_out, Requests)
        <5>1. /\ LastFor(dhcp_out, Requests, a) => LastFor(Append(dhcp_out, p), Requests, a)
              /\ NoneOf(Append(dhcp_out, p), Requests) => NoneOf(dhcp_out, Requests)
          BY <1>4, <1>6, <4>1, LastAppend
        <5> QED BY <1>5, <5>1
      <4> QED BY <1>1, <2>3, <3>1, <3>2, <4>2, <4>3 DEF Toward
    <3> QED BY <3>3, <3>4
  <2> QED BY <1>1, <2>3, <2>4, <2>6
<1> QED BY <1>8, <1>9, <1>10 DEF LInv

LEMMA LeaseServer ==
  ASSUME TypeOK, LInv, Server
  PROVE  LInv'
<1>1. /\ UNCHANGED <<script, pc, sending, ip, is_ip_allocated, isStatic, overwritten>>
      /\ dhcp_out # <<>> /\ dhcp_out' = Tail(dhcp_out)
  BY DEF Server, host, senders, stack, dhcp
<1>2. dhcp_out \in Seq(Message) /\ dhcp_in \in Seq(Reply) /\ lease \in Free \cup {Zero}
  BY DEF LInv, Asked, TypeOK, Reply
<1>3. PICK m : m = Head(dhcp_out)
  OBVIOUS
<1>4. m \in Message /\ dhcp_out' \in Seq(Message)
  BY <1>1, <1>2, <1>3
<1>5. PICK op, a : /\ dhcp_in' = Append(dhcp_in, [op |-> op, arg |-> a])
                  /\ \/ m.op # "request" /\ op = "offer" /\ lease' = lease /\ a \in Free
                     \/ m.op = "request" /\ op = "ack" /\ lease' = a /\ a = m.arg /\ a \in Free
                     \/ m.op = "request" /\ op = "nak" /\ lease' = lease /\ a = Zero
  BY <1>3 DEF Server
<1>6. PICK e : e = [op |-> op, arg |-> a]
  OBVIOUS
<1>7. e \in Reply /\ e.op = op /\ e.arg = a /\ dhcp_in' = Append(dhcp_in, e)
  BY <1>5, <1>6, Addresses DEF Reply
<1>8. Asked'
  BY <1>1, <1>4 DEF LInv, Asked
<1>9. Leased'
  <2>1. /\ NoneOf(dhcp_in', Acks) <=> NoneOf(dhcp_in, Acks) /\ e.op \notin Acks
        /\ e.op \notin Acks /\ LastFor(dhcp_in, Acks, lease) => LastFor(dhcp_in', Acks, lease)
    BY <1>2, <1>7, LastAppend
  <2>2. e.op \in Acks /\ (e.op = "nak" \/ e.arg = a) => LastFor(dhcp_in', Acks, a)
    BY <1>2, <1>7, LastAppend
  <2>3. CASE op = "ack"
    <3>1. lease' = a /\ a # Zero /\ e.op \in Acks
      BY <1>5, <1>7, <2>3, Addresses DEF Acks
    <3> QED BY <1>7, <2>1, <2>2, <3>1 DEF Leased
  <2>4. CASE op # "ack"
    <3>1. lease' = lease /\ e.op \notin Acks
      BY <1>5, <1>7, <2>4 DEF Acks
    <3> QED BY <1>1, <2>1, <3>1 DEF LInv, Leased
  <2> QED BY <2>3, <2>4
<1>10. Static'
  <2> SUFFICES ASSUME isStatic', ~overwritten'
               PROVE  sending'["irq"] = <<>> /\ \E k \in 1..Len(script') : StaticBefore(k)' /\ Toward(script[k].arg)'
    BY <1>1 DEF Static
  <2>1. PICK k \in 1..Len(script) : sending["irq"] = <<>> /\ StaticBefore(k) /\ Toward(script[k].arg)
    BY <1>1 DEF LInv, Static
  <2>2. StaticBefore(k)'
    BY <1>1, <2>1 DEF StaticBefore
  <2>3. PICK b : b = script[k].arg
    OBVIOUS
  <2>4. LastFor(sending["task"], Requests, b)
    BY <2>1, <2>3 DEF Toward
  <2>5. NoneOf(sending["task"], Requests) => LastFor(dhcp_out', Requests, b)
    <3>1. NoneOf(sending["task"], Requests) => LastFor(dhcp_out, Requests, b)
      BY <2>1, <2>3 DEF Toward
    <3> QED BY <1>1, <1>2, <3>1, LastTail
  <2>6. ASSUME NoneOf(sending["task"], Requests), NoneOf(dhcp_out', Requests)
        PROVE  LastFor(dhcp_in', Verdicts, b) /\ (NoneOf(dhcp_in', Verdicts) => ip = b)
    <3>1. LastFor(dhcp_out, Requests, b)
      BY <2>1, <2>3, <2>6 DEF Toward
    <3>2. CASE m.op = "request"
      <4>1. m.op \in Requests
        BY <3>2 DEF Requests
      <4>2. m.op = "nak" \/ m.arg = b
        BY <1>1, <1>2, <1>3, <2>6, <3>1, <4>1, LastTail
      <4>3. e.op \in Verdicts /\ (e.op = "nak" \/ e.arg = b)
        BY <1>5, <1>7, <3>2, <4>2 DEF Verdicts
      <4>4. LastFor(Append(dhcp_in, e), Verdicts, b) /\ ~NoneOf(Append(dhcp_in, e), Verdicts)
        BY <1>2, <1>7, <4>3, LastAppend
      <4> QED BY <1>7, <4>4
    <3>3. CASE m.op # "request"
      <4>1. m.op \notin Requests /\ e.op \notin Verdicts
        BY <1>5, <1>7, <3>3 DEF Requests, Verdicts
      <4>2. NoneOf(dhcp_out, Requests)
        BY <1>1, <1>2, <1>3, <2>6, <4>1, LastTail
      <4>3. LastFor(dhcp_in, Verdicts, b) /\ (NoneOf(dhcp_in, Verdicts) => ip = b)
        BY <2>1, <2>3, <2>6, <4>2 DEF Toward
      <4>4. LastFor(Append(dhcp_in, e), Verdicts, b) /\ (NoneOf(Append(dhcp_in, e), Verdicts) => NoneOf(dhcp_in, Verdicts))
        BY <1>2, <1>7, <4>1, <4>3, LastAppend
      <4> QED BY <1>7, <4>3, <4>4
    <3> QED BY <3>2, <3>3
  <2>7. Toward(b)'
    BY <1>1, <2>4, <2>5, <2>6 DEF Toward
  <2> QED BY <1>1, <2>1, <2>2, <2>3, <2>7
<1> QED BY <1>8, <1>9, <1>10 DEF LInv

LEMMA LeaseReceive ==
  ASSUME TypeOK, LInv, DhcpUp, ReceiveDhcp
  PROVE  LInv'
<1>1. /\ UNCHANGED <<script, pc, dhcp_out, lease, overwritten>> /\ sending["irq"] = <<>>
      /\ dhcp_in # <<>> /\ dhcp_in' = Tail(dhcp_in)
  BY DEF ReceiveDhcp, Interrupted, stack
<1>2. isNetworkON /\ current_interface
  BY <1>1 DEF DhcpUp, Connected
<1>3. PICK m : m = Head(dhcp_in)
  OBVIOUS
<1>4. HandleDhcp(m)
  BY <1>2, <1>3 DEF ReceiveDhcp
<1>5. dhcp_in \in Seq(Reply) /\ m \in Reply /\ sending \in [Context -> Seq(Message)]
  <2>1. dhcp_in \in Seq(Reply) /\ sending \in [Context -> Seq(Message)]
    BY DEF TypeOK, Reply
  <2>2. Head(dhcp_in) \in Reply
    BY <1>1, <2>1
  <2> QED BY <1>3, <2>1, <2>2
<1>6. \/ m.op = "offer" /\ (isStatic \/ sending' = [sending EXCEPT !["irq"] = <<Request(m.arg)>>])
         /\ (isStatic => sending' = sending) /\ UNCHANGED <<is_ip_allocated, isStatic, ip>>
      \/ m.op = "nak" /\ isStatic' = FALSE /\ sending' = [sending EXCEPT !["irq"] = <<Discover>>] /\ UNCHANGED <<is_ip_allocated, ip>>
      \/ m.op = "ack" /\ is_ip_allocated' = TRUE /\ ip' = m.arg /\ UNCHANGED <<isStatic, sending>>
  <2>1. CASE m.op = "offer"
    BY <1>4, <2>1 DEF HandleDhcp, SendAll, dhcp
  <2>2. CASE m.op = "nak"
    BY <1>4, <2>2 DEF HandleDhcp, SendAll
  <2>3. CASE m.op = "ack"
    BY <1>2, <1>4, <2>3 DEF HandleDhcp
  <2> QED BY <1>4, <2>1, <2>2, <2>3 DEF HandleDhcp
<1>7. Asked'
  <2>1. ASSUME NEW p, p.dst = Broadcast, sending' = [sending EXCEPT !["irq"] = <<p>>] PROVE Asked'
    <3>1. sending'["irq"] = <<p>> /\ sending'["task"] = sending["task"]
      BY <1>5, <2>1 DEF Context
    <3>2. Len(<<p>>) = 1 /\ <<p>>[1] = p /\ \A i \in 1..1 : i = 1
      OBVIOUS
    <3>3. \A i \in 1..Len(sending'["irq"]) : sending'["irq"][i].dst = Broadcast
      BY <2>1, <3>1, <3>2
    <3> QED BY <1>1, <3>1, <3>3 DEF LInv, Asked, Context
  <2>2. Discover.dst = Broadcast /\ Request(m.arg).dst = Broadcast
    BY DEF Discover, Request, Packet
  <2>3. sending' = sending => Asked'
    BY <1>1 DEF LInv, Asked
  <2> QED BY <1>6, <2>1, <2>2, <2>3
<1>8. Leased'
  <2>1. /\ NoneOf(dhcp_in, Acks) <=> NoneOf(dhcp_in', Acks) /\ m.op \notin Acks
        /\ LastFor(dhcp_in, Acks, lease) => LastFor(dhcp_in', Acks, lease)
        /\ LastFor(dhcp_in, Acks, lease) /\ m.op \in Acks /\ NoneOf(dhcp_in', Acks) => m.op = "nak" \/ m.arg = lease
    BY <1>1, <1>3, <1>5, LastTail
  <2>2. LastFor(dhcp_in, Acks, lease) /\ (~NoneOf(dhcp_in, Acks) => lease # Zero)
    BY DEF LInv, Leased
  <2>3. CASE m.op = "ack"
    <3>1. m.op \in Acks /\ ip' = m.arg
      BY <1>6, <2>3 DEF Acks
    <3> QED BY <1>1, <2>1, <2>2, <2>3, <3>1 DEF Leased
  <2>4. CASE m.op # "ack"
    <3>1. m.op \notin Acks /\ UNCHANGED <<ip, is_ip_allocated>>
      BY <1>6, <2>4 DEF Acks
    <3> QED BY <1>1, <2>1, <2>2, <3>1 DEF LInv, Leased
  <2> QED BY <2>3, <2>4
<1>9. Static'
  <2> SUFFICES ASSUME isStatic', ~overwritten'
               PROVE  sending'["irq"] = <<>> /\ \E k \in 1..Len(script') : StaticBefore(k)' /\ Toward(script[k].arg)'
    BY <1>1 DEF Static
  <2>1. isStatic /\ m.op # "nak" /\ sending' = sending /\ isStatic' = isStatic
    BY <1>6
  <2>2. PICK k \in 1..Len(script) : sending["irq"] = <<>> /\ StaticBefore(k) /\ Toward(script[k].arg)
    BY <1>1, <2>1 DEF LInv, Static
  <2>3. StaticBefore(k)'
    BY <1>1, <2>2 DEF StaticBefore
  <2>4. PICK b : b = script[k].arg
    OBVIOUS
  <2>5. ASSUME NoneOf(sending["task"], Requests), NoneOf(dhcp_out, Requests)
        PROVE  LastFor(dhcp_in', Verdicts, b) /\ (NoneOf(dhcp_in', Verdicts) => ip' = b)
    <3>1. LastFor(dhcp_in, Verdicts, b) /\ (NoneOf(dhcp_in, Verdicts) => ip = b)
      BY <2>2, <2>4, <2>5 DEF Toward
    <3>2. /\ NoneOf(dhcp_in, Verdicts) <=> NoneOf(dhcp_in', Verdicts) /\ m.op \notin Verdicts
          /\ LastFor(dhcp_in, Verdicts, b) => LastFor(dhcp_in', Verdicts, b)
          /\ LastFor(dhcp_in, Verdicts, b) /\ m.op \in Verdicts /\ NoneOf(dhcp_in', Verdicts) => m.op = "nak" \/ m.arg = b
      BY <1>1, <1>3, <1>5, LastTail
    <3>3. CASE m.op = "ack"
      <4>1. m.op \in Verdicts /\ ip' = m.arg
        BY <1>6, <3>3 DEF Verdicts
      <4> QED BY <2>1, <3>1, <3>2, <4>1
    <3>4. CASE m.op # "ack"
      <4>1. m.op \notin Verdicts /\ ip' = ip
        BY <1>6, <2>1, <3>4 DEF Verdicts
      <4> QED BY <3>1, <3>2, <4>1
    <3> QED BY <3>3, <3>4
  <2>6. Toward(b)'
    BY <1>1, <2>1, <2>2, <2>4, <2>5 DEF Toward
  <2> QED BY <1>1, <2>1, <2>2, <2>3, <2>4, <2>6
<1> QED BY <1>7, <1>8, <1>9 DEF LInv

LEMMA LeaseStarts == Init => LInv
<1> SUFFICES ASSUME Init PROVE LInv
  OBVIOUS
<1>1. /\ sending = [c \in Context |-> <<>>] /\ dhcp_out = <<>> /\ dhcp_in = <<>> /\ is_ip_allocated = FALSE /\ isStatic = FALSE
  BY DEF Init
<1>2. Asked
  <2>1. <<>> \in Seq(Message) /\ Len(<<>>) = 0
    OBVIOUS
  <2> QED BY <1>1, <2>1 DEF Asked
<1>3. Leased /\ Static
  BY <1>1, NoneOfEmpty, LastOfNone DEF Leased, Static
<1> QED BY <1>2, <1>3 DEF LInv

LEMMA LeaseStep ==
  ASSUME TypeOK, Waiting, TableAgrees, LInv, DhcpUp, [Next]_vars
  PROVE  LInv'
<1>1. ASSUME UNCHANGED <<script, pc, sending, dhcp_out, dhcp_in, lease, ip, is_ip_allocated, isStatic>>, overwritten => overwritten'
      PROVE  LInv'
  BY <1>1, LeaseSame
<1>2. ASSUME NEW c \in Context, Lookup(c) \/ Ask(c) PROVE LInv'
  BY <1>1, <1>2 DEF Lookup, Ask, stack, dhcp
<1>3. ASSUME NEW c \in Context, Transmit(c) PROVE LInv'
  BY <1>3, LeaseTransmit
<1>4. CASE WriteAddress \/ Advance \/ CheckBroadcast
  BY <1>1, <1>4 DEF WriteAddress, Advance, CheckBroadcast, InArp, senders, stack, dhcp
<1>5. ASSUME NEW op, op # "ip static", Command(op), sending'["irq"] = sending["irq"], NoneOf(sending'["task"], Requests),
             UNCHANGED <<ip, isStatic>>, is_ip_allocated' => is_ip_allocated, overwritten => overwritten'
      PROVE  LInv'
  <2>1. /\ UNCHANGED <<script, dhcp_out, dhcp_in, lease>> /\ pc' = pc + 1 /\ script[pc].op = op /\ sending["task"] = <<>>
    BY <1>5 DEF Command
  <2> QED BY <1>5, <2>1, LeaseCommand
<1>6. CASE ChangeNetworkState \/ SwitchInterface \/ InitArp \/ InitDhcp
  <2>1. PICK op : op # "ip static" /\ Command(op)
    <3>1. Command("netinterface") \/ Command("switch") \/ Command("init arp") \/ Command("init dhcp")
      BY <1>6 DEF ChangeNetworkState, SwitchInterface, InitArp, InitDhcp
    <3> QED BY <3>1
  <2>2. UNCHANGED <<sending, ip, isStatic>> /\ (is_ip_allocated' => is_ip_allocated) /\ (overwritten => overwritten')
    <3>1. CASE ChangeNetworkState
      BY <3>1 DEF ChangeNetworkState, dhcp, stack
    <3>2. CASE SwitchInterface
      BY <3>2 DEF SwitchInterface, dhcp, stack
    <3>3. CASE InitArp
      <4>1. UNCHANGED <<sending, ip, isStatic, is_ip_allocated>>
        BY <3>3 DEF InitArp, dhcp
      <4>2. overwritten' = (overwritten \/ arp_table[arp_table_current].ip # Zero)
        BY <3>3 DEF InitArp
      <4> QED BY <4>1, <4>2
    <3>4. CASE InitDhcp
      <4>1. UNCHANGED <<sending, ip, isStatic, overwritten>>
        BY <3>4 DEF InitDhcp, stack
      <4>2. is_ip_allocated' = FALSE
        BY <3>4 DEF InitDhcp
      <4>3. is_ip_allocated' => is_ip_allocated
        BY <4>2
      <4> QED BY <4>1, <4>3
    <3> QED BY <1>6, <3>1, <3>2, <3>3, <3>4
  <2>3. NoneOf(sending'["task"], Requests)
    BY <2>1, <2>2, NoneOfEmpty DEF Command
  <2> QED BY <1>5, <2>1, <2>2, <2>3
<1>7. ASSUME NEW op, op # "ip static", Command(op), NEW p, p.op # "request", SendAll("task", <<p>>), UNCHANGED <<stack, dhcp>>
      PROVE  LInv'
  <2>1. sending'["task"] = <<p>> /\ sending'["irq"] = sending["irq"]
    BY <1>7 DEF SendAll, TypeOK, Context
  <2>2. NoneOf(<<p>>, Requests)
    <3>1. Len(<<p>>) = 1 /\ <<p>>[1] = p /\ \A i \in 1..1 : i = 1
      OBVIOUS
    <3> QED BY <1>7, <3>1 DEF NoneOf, Requests
  <2>3. UNCHANGED <<ip, isStatic, is_ip_allocated, overwritten>>
    BY <1>7 DEF stack, dhcp
  <2> QED BY <1>5, <1>7, <2>1, <2>2, <2>3
<1>8. CASE IpDhcp
  <2>1. Discover.op # "request" /\ "ip dhcp" # "ip static"
    BY DEF Discover, Packet
  <2> QED BY <1>7, <1>8, <2>1 DEF IpDhcp
<1>9. CASE UdpSend
  <2>1. PICK p : p = Packet(script[pc].arg, "data", Zero)
    OBVIOUS
  <2>2. p.op # "request" /\ "udpsend" # "ip static"
    BY <2>1 DEF Packet
  <2> QED BY <1>7, <1>9, <2>1, <2>2 DEF UdpSend
<1>10. CASE TaskStep \/ IrqStep
  BY <1>2, <1>3, <1>4, <1>6, <1>8, <1>9, <1>10, LeaseStatic DEF TaskStep, IrqStep, Context
<1>11. ASSUME NEW f \in ArpFrame, ReceiveArp(f) PROVE LInv'
  BY <1>1, <1>11 DEF ReceiveArp, Interrupted, AddEntry, stack, dhcp, budgets
<1>12. ASSUME NEW f \in ArpFrame, Lose(f) PROVE LInv'
  BY <1>1, <1>12 DEF Lose, host, stack, senders, dhcp
<1>13. ASSUME NEW p \in Peers, PeerAnswers(p) \/ PeerSpeaks(p) PROVE LInv'
  BY <1>1, <1>13 DEF PeerAnswers, PeerSpeaks, host, stack, senders, dhcp
<1>14. CASE UNCHANGED vars
  BY <1>1, <1>14 DEF vars, stack, senders, dhcp
<1> QED BY <1>10, <1>11, <1>12, <1>13, <1>14, LeaseServer, LeaseReceive DEF Next

LEMMA LeaseSays ==
  ASSUME TypeOK, LInv
  PROVE  LeaseAgrees
<1> SUFFICES ASSUME Quiet
             PROVE  /\ is_ip_allocated => (ip = lease /\ lease # Zero)
                    /\ isStatic /\ ~overwritten => \E k \in 1..Len(script) : IsLastStatic(k) /\ ip = script[k].arg
  BY DEF LeaseAgrees
<1>1. dhcp_in = <<>> /\ dhcp_out = <<>> /\ sending["task"] = <<>> /\ pc > Len(script)
  BY DEF Quiet, Idle, Context
<1>2. NoneOf(dhcp_in, Acks) /\ NoneOf(dhcp_in, Verdicts) /\ NoneOf(dhcp_out, Requests) /\ NoneOf(sending["task"], Requests)
  BY <1>1, NoneOfEmpty
<1>3. is_ip_allocated => (ip = lease /\ lease # Zero)
  BY <1>2 DEF LInv, Leased
<1>4. ASSUME isStatic /\ ~overwritten PROVE \E k \in 1..Len(script) : IsLastStatic(k) /\ ip = script[k].arg
  <2>1. PICK k \in 1..Len(script) : StaticBefore(k) /\ Toward(script[k].arg)
    BY <1>4 DEF LInv, Static
  <2>2. ip = script[k].arg
    BY <1>2, <2>1 DEF Toward
  <2>3. \A j \in k + 1..Len(script) : j < pc
    <3>1. PICK n \in Nat, p \in Nat : n = Len(script) /\ p = pc
      BY PlaceInScript
    <3>2. p > n
      BY <1>1, <3>1
    <3>3. \A j \in k + 1..n : j < p
      BY <3>2
    <3> QED BY <3>1, <3>3
  <2>4. IsLastStatic(k)
    BY <2>1, <2>3 DEF StaticBefore, IsLastStatic
  <2> QED BY <2>2, <2>4
<1> QED BY <1>3, <1>4

(* While the network is on whenever a DHCP message is under way, the card ends up with the address
   the server leased last, and isStatic with the address that the last "ip static" asked for, in
   whatever order offers, refusals and grants of several requests come, for every init file, as
   long as the broadcast entry was not overwritten (dhcp_handle_packet). *)
THEOREM LeaseHonoured == Spec /\ []DhcpUp => []LeaseAgrees
<1> DEFINE I == IInv /\ LInv
<1>1. Init => I
  BY InitIInv, LeaseStarts
<1>2. I /\ DhcpUp /\ [Next]_vars => I'
  BY NextType, WireNext, TableNext, SentNext, LeaseStep DEF IInv
<1>3. I => LeaseAgrees
  BY LeaseSays DEF IInv
<1> HIDE DEF I
<1> QED BY <1>1, <1>2, <1>3, PTL DEF Spec

\* A script that brings the network up before it asks for an address, and keeps it up.
StaysUp(s) ==
  \A k \in 1..Len(s) :
    /\ s[k].op = "netinterface" => s[k].arg = TRUE
    /\ s[k].op \in {"ip dhcp", "ip static"} =>
         \E i, j \in 1..k - 1 : s[i].op = "netinterface" /\ s[j].op = "switch"

\* What the commands executed so far have brought up.
Brought ==
  \A k \in 1..Len(script) : k < pc =>
    /\ script[k].op = "netinterface" => isNetworkON
    /\ script[k].op = "switch" => current_interface

UInv == StaysUp(script) /\ Brought /\ DhcpUp

LEMMA UpStarts == ASSUME \A s \in Scripts : StaysUp(s), Init PROVE UInv
<1>1. script \in Scripts /\ pc = 1 /\ sending = [c \in Context |-> <<>>] /\ dhcp_out = <<>> /\ dhcp_in = <<>>
  BY DEF Init
<1>2. Brought
  BY <1>1 DEF Brought
<1>3. DhcpUp
  BY <1>1, NoneOfEmpty DEF DhcpUp
<1> QED BY <1>1, <1>2, <1>3 DEF UInv

NoNewRequest == \A c \in Context : NoneOf(sending[c], Requests) => NoneOf(sending'[c], Requests)

(* A command op has brought up what it is for and taken nothing down, and only
   those that ask for an address have put a request under way. *)
Brings(op) ==
  /\ op = "netinterface" => isNetworkON'
  /\ op = "switch" => current_interface'
  /\ isNetworkON => isNetworkON'
  /\ current_interface => current_interface'
  /\ op \in {"ip dhcp", "ip static"} \/ NoNewRequest

\* A command that has brought up what it is for, and an address only asked for when all is up.
LEMMA UpCommand ==
  ASSUME TypeOK, UInv, NEW op, Command(op),
         Brings(op)
  PROVE  UInv'
<1>1. UNCHANGED <<script, dhcp_out, dhcp_in>> /\ pc' = pc + 1 /\ script[pc].op = op /\ pc <= Len(script)
  BY DEF Command
<1>n. PICK n \in Nat : n = Len(script)
  BY PlaceInScript
<1>p. PICK p \in Nat : p = pc
  BY PlaceInScript
<1>q. p <= n /\ 1 <= p
  BY <1>1, <1>n, <1>p, PlaceInScript
<1>2. Brought'
  <2> SUFFICES ASSUME NEW k \in 1..n, k < p + 1
               PROVE  /\ script[k].op = "netinterface" => isNetworkON'
                      /\ script[k].op = "switch" => current_interface'
    BY <1>1, <1>n, <1>p DEF Brought
  <2>1. k < p \/ k = p
    OBVIOUS
  <2>2. CASE k < p
    BY <1>n, <1>p, <2>2 DEF UInv, Brought, Brings
  <2>3. CASE k = p
    BY <1>1, <1>p, <2>3 DEF Brings
  <2> QED BY <2>1, <2>2, <2>3
<1>3. CASE op \in {"ip dhcp", "ip static"}
  <2>0. p \in 1..n
    BY <1>q
  <2>1. PICK i, j \in 1..p - 1 : script[i].op = "netinterface" /\ script[j].op = "switch"
    BY <1>1, <1>n, <1>p, <1>3, <2>0 DEF UInv, StaysUp
  <2>2. i \in 1..n /\ i < p /\ j \in 1..n /\ j < p
    BY <1>q
  <2>3. isNetworkON /\ current_interface
    BY <1>n, <1>p, <2>1, <2>2 DEF UInv, Brought
  <2> QED BY <1>1, <1>2, <2>3 DEF UInv, DhcpUp, Connected, Brings
<1>4. CASE NoNewRequest
  <2>1. DhcpUp'
    BY <1>1, <1>4 DEF UInv, DhcpUp, Connected, Brings, NoNewRequest
  <2> QED BY <1>1, <1>2, <2>1 DEF UInv
<1> QED BY <1>3, <1>4 DEF Brings

\* Any other step keeps what is up, and puts no DHCP message under way while all is down.
LEMMA UpOther ==
  ASSUME UInv, UNCHANGED <<script, pc, config>>,
         Connected \/ (/\ dhcp_out = <<>> => dhcp_out' = <<>>
                       /\ dhcp_out = <<>> /\ dhcp_in = <<>> => dhcp_in' = <<>>
                       /\ dhcp_in # <<>> \/ \A c \in Context : NoneOf(sending[c], Requests) => NoneOf(sending'[c], Requests))
  PROVE  UInv'
<1>1. Brought'
  BY DEF UInv, Brought, config
<1>2. DhcpUp'
  BY DEF UInv, DhcpUp, Connected, config
<1> QED BY <1>1, <1>2 DEF UInv

LEMMA UpStep ==
  ASSUME TypeOK, Waiting, UInv, [Next]_vars
  PROVE  UInv'
<1>1. ASSUME UNCHANGED <<script, pc, config, sending, dhcp_out, dhcp_in>> PROVE UInv'
  BY <1>1, UpOther
<1>2. ASSUME NEW c \in Context, Lookup(c) \/ Ask(c) PROVE UInv'
  BY <1>1, <1>2 DEF Lookup, Ask
<1>3. ASSUME NEW c \in Context, Transmit(c) PROVE UInv'
  <2>1. UNCHANGED <<script, pc, config, dhcp_in>> /\ sending' = [sending EXCEPT ![c] = Tail(@)] /\ sending[c] # <<>>
    BY <1>3 DEF Transmit, Running, Context
  <2>2. ~Connected => dhcp_out' = dhcp_out
    BY <1>3 DEF Transmit
  <2>3. ASSUME NEW d \in Context, NoneOf(sending[d], Requests) PROVE NoneOf(sending'[d], Requests)
    <3>1. sending[c] \in Seq(Message) /\ sending \in [Context -> Seq(Message)]
      BY DEF TypeOK
    <3>2. NoneOf(sending[c], Requests) => NoneOf(Tail(sending[c]), Requests)
      BY <2>1, <3>1, LastTail
    <3>3. CASE d = c
      BY <2>1, <2>3, <3>1, <3>2, <3>3
    <3>4. CASE d # c
      BY <2>1, <2>3, <3>1, <3>4
    <3> QED BY <3>3, <3>4
  <2> QED BY <2>1, <2>2, <2>3, UpOther
<1>4. CASE WriteAddress \/ Advance \/ CheckBroadcast
  BY <1>1, <1>4 DEF WriteAddress, Advance, CheckBroadcast, InArp, senders
<1>5. CASE ChangeNetworkState
  <2>1. Command("netinterface") /\ UNCHANGED <<sending, current_interface>> /\ isNetworkON' = script[pc].arg
    BY <1>5 DEF ChangeNetworkState
  <2>2. pc \in 1..Len(script) /\ script[pc].op = "netinterface"
    BY <2>1 DEF Command, TypeOK
  <2>3. isNetworkON' = TRUE
    BY <2>1, <2>2 DEF UInv, StaysUp
  <2>4. Brings("netinterface")
    BY <2>1, <2>3 DEF Brings, NoNewRequest
  <2> QED BY <2>1, <2>4, UpCommand
<1>6. CASE SwitchInterface
  <2>1. Command("switch") /\ UNCHANGED <<sending, isNetworkON>> /\ current_interface' = TRUE
    BY <1>6 DEF SwitchInterface
  <2>2. Brings("switch")
    BY <2>1 DEF Brings, NoNewRequest
  <2> QED BY <2>1, <2>2, UpCommand
<1>7. CASE InitArp \/ InitDhcp
  <2>1. PICK op : op \notin {"netinterface", "switch", "ip dhcp", "ip static"} /\ Command(op)
    <3>1. Command("init arp") \/ Command("init dhcp")
      BY <1>7 DEF InitArp, InitDhcp
    <3> QED BY <3>1
  <2>2. UNCHANGED <<sending, config>>
    BY <1>7 DEF InitArp, InitDhcp
  <2>3. Brings(op)
    BY <2>1, <2>2 DEF Brings, config, NoNewRequest
  <2> QED BY <2>1, <2>2, <2>3, UpCommand
<1>8. CASE IpDhcp
  <2>1. Command("ip dhcp") /\ UNCHANGED config
    BY <1>8 DEF IpDhcp
  <2>2. Brings("ip dhcp")
    BY <2>1 DEF Brings, config
  <2> QED BY <2>1, <2>2, UpCommand
<1>9. CASE IpStatic
  <2>1. Command("ip static") /\ UNCHANGED config
    BY <1>9 DEF IpStatic
  <2>2. Brings("ip static")
    BY <2>1 DEF Brings, config
  <2> QED BY <2>1, <2>2, UpCommand
<1>10. CASE UdpSend
  <2>1. PICK p : p = Packet(script[pc].arg, "data", Zero)
    OBVIOUS
  <2>2. Command("udpsend") /\ UNCHANGED config /\ sending' = [sending EXCEPT !["task"] = <<p>>] /\ p.op \notin Requests
    BY <1>10, <2>1 DEF UdpSend, SendAll, Packet, Requests
  <2>3. sending'["task"] = <<p>> /\ sending'["irq"] = sending["irq"]
    BY <2>2 DEF TypeOK, Context
  <2>4. NoneOf(<<p>>, Requests)
    <3>1. Len(<<p>>) = 1 /\ <<p>>[1] = p /\ \A i \in 1..1 : i = 1
      OBVIOUS
    <3> QED BY <2>2, <3>1 DEF NoneOf
  <2>5. \A c \in Context : NoneOf(sending[c], Requests) => NoneOf(sending'[c], Requests)
    BY <2>3, <2>4 DEF Context
  <2>6. Brings("udpsend")
    BY <2>2, <2>5 DEF Brings, config, NoNewRequest
  <2> QED BY <2>2, <2>5, <2>6, UpCommand
<1>11. CASE TaskStep \/ IrqStep
  BY <1>2, <1>3, <1>4, <1>5, <1>6, <1>7, <1>8, <1>9, <1>10, <1>11 DEF TaskStep, IrqStep, Context
<1>12. ASSUME NEW f \in ArpFrame, ReceiveArp(f) \/ Lose(f) PROVE UInv'
  BY <1>1, <1>12 DEF ReceiveArp, Interrupted, Lose, host, senders
<1>13. CASE ReceiveDhcp
  <2>1. UNCHANGED <<script, pc, config, dhcp_out>> /\ dhcp_in # <<>>
    BY <1>13 DEF ReceiveDhcp, Interrupted
  <2>2. Connected
    BY <2>1 DEF UInv, DhcpUp
  <2> QED BY <2>1, <2>2, UpOther
<1>14. ASSUME NEW p \in Peers, PeerAnswers(p) \/ PeerSpeaks(p) PROVE UInv'
  BY <1>1, <1>14 DEF PeerAnswers, PeerSpeaks, host, senders
<1>15. CASE Server
  <2>1. UNCHANGED <<script, pc, config, sending>> /\ dhcp_out # <<>>
    BY <1>15 DEF Server, host, senders
  <2>2. Connected
    BY <2>1 DEF UInv, DhcpUp
  <2> QED BY <2>1, <2>2, UpOther
<1>16. CASE UNCHANGED vars
  BY <1>1, <1>16 DEF vars, senders
<1> QED BY <1>11, <1>12, <1>13, <1>14, <1>15, <1>16 DEF Next

(* With scripts that keep the network up the lease is honoured: the card has
   what the server granted, although requests, offers and refusals of several
   exchanges may be under way at once. *)
THEOREM LeaseHonouredWhileUp ==
  ASSUME \A s \in Scripts : StaysUp(s)
  PROVE  Spec => []LeaseAgrees
<1> DEFINE I == IInv /\ UInv
<1>1. Init => I
  BY InitIInv, UpStarts
<1>2. I /\ [Next]_vars => I'
  BY NextType, WireNext, TableNext, SentNext, UpStep DEF IInv
<1>3. I => DhcpUp
  BY DEF UInv
<1> HIDE DEF I
<1> QED BY <1>1, <1>2, <1>3, LeaseHonoured, PTL DEF Spec
=============================================================================
