------------------------------ MODULE Rtl8139 ------------------------------
(***************************************************************************)
(* The RTL8139 driver (drivers/ethernet/rtl8139.c) and the card, which     *)
(* writes arriving packets to a ring in memory and sends from four         *)
(* descriptors while the CPU goes on. The handler runs with interrupts     *)
(* off; a send from task context is cut by it between any two steps.       *)
(*                                                                         *)
(* Offsets are in units of four bytes, to which driver and card align. The *)
(* card is told to write a packet that reaches the end of the ring on      *)
(* behind it, without wrapping (bit 7 of RCR).                             *)
(***************************************************************************)
EXTENDS Integers, Sequences, FiniteSets

CONSTANTS RX_BUF_SIZE,    \* 2048 units
          Lengths,        \* packet_length of packets, in units
          MaxArrivals, MaxSends     \* bounds

ASSUME NicAssumption == RX_BUF_SIZE \in Nat \ {0} /\ Lengths \subseteq Nat /\ \A len \in Lengths : len + 1 < RX_BUF_SIZE

VARIABLES
  rx,          \* offset -> the packet whose header is there, or None
  cbr, capr,   \* where the card writes next; how far the driver has read, as the card was told
  current_packet_ptr,
  isr,         \* interrupt status bits
  at, status,  \* the handler's next step, and the status it has read
  arrived, handed,   \* history: packets the card accepted; packets given to interface_receive
  merged,      \* history: a packet arrived before the last one's interrupt was acknowledged
  TSAD, busy,  \* descriptor -> frame; descriptors the card has not sent yet
  tx_cur, tx,  \* the driver's descriptor; the send in task context: step, index
  card_tx,     \* the card's next descriptor
  sent, wire,  \* history: frames started by the driver; frames on the wire
  crowded,     \* history: a descriptor was reused before the card had sent it, or a send was cut
  nstatus      \* "ok", "astray" once a header is read where none is, "wild" past the four descriptors

nicvars == <<rx, cbr, capr, current_packet_ptr, isr, at, status, arrived, handed, merged,
             TSAD, busy, tx_cur, tx, card_tx, sent, wire, crowded, nstatus>>
rxvars == <<rx, cbr, capr, current_packet_ptr, arrived, handed, merged>>
txvars == <<TSAD, busy, tx_cur, tx, card_tx, sent, wire, crowded>>

None == [id |-> 0, len |-> 0]
NicInit ==
  /\ rx = [o \in 0..RX_BUF_SIZE |-> None] /\ cbr = 0 /\ capr = 0 /\ current_packet_ptr = 0
  /\ isr = {} /\ at = "idle" /\ status = {}
  /\ arrived = <<>> /\ handed = <<>> /\ merged = FALSE
  /\ TSAD = [i \in 0..3 |-> 0] /\ busy = {} /\ tx_cur = 0 /\ tx = [step |-> "idle", index |-> 0]
  /\ card_tx = 0 /\ sent = <<>> /\ wire = <<>> /\ crowded = FALSE /\ nstatus = "ok"

-----------------------------------------------------------------------------
(* The card. A packet takes a unit for its header; one that does not fit is dropped. *)

Room == (RX_BUF_SIZE + capr - cbr) % RX_BUF_SIZE
Arrive(len) ==
  /\ nstatus = "ok" /\ Len(arrived) < MaxArrivals
  /\ Room = 0 \/ len + 1 < Room
  /\ LET p == [id |-> Len(arrived) + 1, len |-> len] IN
     /\ rx' = [o \in DOMAIN rx |-> IF o = cbr THEN p ELSE IF o \in cbr..cbr + len THEN None ELSE rx[o]]
     /\ arrived' = Append(arrived, p)
  /\ cbr' = (cbr + len + 1) % RX_BUF_SIZE
  /\ isr' = isr \cup {"ROK"}
  /\ merged' = (merged \/ "ROK" \in isr \/ at # "idle")
  /\ UNCHANGED <<capr, current_packet_ptr, at, status, handed, txvars, nstatus>>

\* Each descriptor in turn; the frame is read now.
TransmitNext ==
  /\ nstatus = "ok" /\ card_tx \in busy
  /\ wire' = Append(wire, TSAD[card_tx]) /\ busy' = busy \ {card_tx}
  /\ card_tx' = (card_tx + 1) % 4 /\ isr' = isr \cup {"TOK"}
  /\ UNCHANGED <<rxvars, at, status, TSAD, tx_cur, tx, sent, crowded, nstatus>>

-----------------------------------------------------------------------------
(* rtl8139_send. kmalloc_a and the copy, the address; `tx_cur++`; the length, which starts the
   card; the wrap. *)

Frame == Len(sent) + 1
WrapLate(c) == IF c > 4 THEN 0 ELSE c     \* mutant
Wrap(c) == IF c > 3 THEN 0 ELSE c

send_addr ==
  /\ nstatus = "ok" /\ at = "idle" /\ tx.step = "idle" /\ Len(sent) < MaxSends
  /\ IF tx_cur \in DOMAIN TSAD
     THEN TSAD' = [TSAD EXCEPT ![tx_cur] = Frame] /\ UNCHANGED nstatus
     ELSE nstatus' = "wild" /\ UNCHANGED TSAD
  /\ crowded' = (crowded \/ tx_cur \in busy)
  /\ tx' = [tx EXCEPT !.step = "take"]
  /\ UNCHANGED <<rxvars, isr, at, status, busy, tx_cur, card_tx, sent, wire>>
send_take ==
  /\ nstatus = "ok" /\ at = "idle" /\ tx.step = "take"
  /\ tx' = [step |-> "start", index |-> tx_cur] /\ tx_cur' = tx_cur + 1
  /\ UNCHANGED <<rxvars, isr, at, status, TSAD, busy, card_tx, sent, wire, crowded, nstatus>>
send_start ==
  /\ nstatus = "ok" /\ at = "idle" /\ tx.step = "start"
  /\ busy' = busy \cup {tx.index} /\ sent' = Append(sent, Frame)
  /\ tx' = [tx EXCEPT !.step = "wrap"]
  /\ UNCHANGED <<rxvars, isr, at, status, TSAD, tx_cur, card_tx, wire, crowded, nstatus>>
send_wrap ==
  /\ nstatus = "ok" /\ at = "idle" /\ tx.step = "wrap"
  /\ tx_cur' = Wrap(tx_cur) /\ tx' = [tx EXCEPT !.step = "idle"]
  /\ UNCHANGED <<rxvars, isr, at, status, TSAD, busy, card_tx, sent, wire, crowded, nstatus>>

\* the same in the handler, where nothing cuts in
SendInHandler ==
  /\ Len(sent) < MaxSends
  /\ crowded' = (crowded \/ tx.step # "idle" \/ tx_cur \in busy)
  /\ IF tx_cur \in DOMAIN TSAD
     THEN /\ TSAD' = [TSAD EXCEPT ![tx_cur] = Frame] /\ busy' = busy \cup {tx_cur}
          /\ sent' = Append(sent, Frame) /\ tx_cur' = Wrap(tx_cur + 1) /\ UNCHANGED nstatus
     ELSE nstatus' = "wild" /\ UNCHANGED <<TSAD, busy, sent, tx_cur>>
  /\ UNCHANGED <<tx, card_tx, wire>>

-----------------------------------------------------------------------------
(* rtl8139_handler: read the status, take one packet if there is one, acknowledge both bits. *)

handler ==
  /\ nstatus = "ok" /\ at = "idle" /\ isr # {}
  /\ status' = isr /\ at' = IF "ROK" \in isr THEN "receive" ELSE "ack"
  /\ UNCHANGED <<rxvars, isr, txvars, nstatus>>

AdvancedNever(p) == current_packet_ptr + p.len + 1          \* mutant: the end of the ring is not tested
Advanced(p) ==
  LET o == current_packet_ptr + p.len + 1 IN IF o > RX_BUF_SIZE THEN o - RX_BUF_SIZE ELSE o

\* A packet may be answered at once (ARP, ICMP echo).
receive_packet ==
  /\ nstatus = "ok" /\ at = "receive"
  /\ LET p == IF current_packet_ptr \in DOMAIN rx THEN rx[current_packet_ptr] ELSE None IN
     IF p = None \/ Len(handed) = Len(arrived)
     THEN nstatus' = "astray" /\ UNCHANGED <<rx, cbr, capr, current_packet_ptr, arrived, handed, merged, at, txvars>>
     ELSE /\ handed' = Append(handed, p)
          /\ current_packet_ptr' = Advanced(p)
          /\ capr' = current_packet_ptr' % RX_BUF_SIZE
          /\ at' = "ack"
          /\ SendInHandler \/ (UNCHANGED <<txvars, nstatus>>)
          /\ UNCHANGED <<rx, cbr, arrived, merged>>
  /\ UNCHANGED <<isr, status>>

acknowledge ==
  /\ nstatus = "ok" /\ at = "ack" /\ at' = "idle" /\ isr' = {}
  /\ UNCHANGED <<rxvars, status, txvars, nstatus>>

NicNext ==
  \/ \E len \in Lengths : Arrive(len)
  \/ TransmitNext
  \/ send_addr \/ send_take \/ send_start \/ send_wrap
  \/ handler \/ receive_packet \/ acknowledge

NicSpec == NicInit /\ [][NicNext]_nicvars

-----------------------------------------------------------------------------
(* Properties. *)

(* The packets given to the network are those the card accepted, in order and each once, however
   late the handler comes, until the read pointer meets the end of the ring exactly, where the
   card is at its start; no packet stays in the ring when the card is quiet, unless one arrived
   before the interrupt of another was acknowledged (receive_packet, rtl8139_handler). *)
ReceivedInOrder ==
  /\ handed = SubSeq(arrived, 1, Len(handed))
  /\ nstatus = "astray" => current_packet_ptr = RX_BUF_SIZE
  /\ (at = "idle" /\ isr \cap {"ROK"} = {} /\ ~merged) => handed = arrived

(* The frames on the wire are those the driver started, in order and each once, while fewer are
   under way than there are descriptors and no send in the handler cuts into one in a task; and
   only then is a descriptor used that does not exist (rtl8139_send). *)
SentInOrder ==
  ~crowded =>
    /\ wire = SubSeq(sent, 1, Len(wire))
    /\ Len(sent) - Len(wire) = Cardinality(busy)
    /\ nstatus # "wild"
=============================================================================
