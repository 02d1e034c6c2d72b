------------------------------ MODULE Am79c973 -----------------------------
(***************************************************************************)
(* The driver of the AMD PCnet card (drivers/ethernet/am79c973.c), which   *)
(* shares two rings of descriptors with it: a set own bit gives one to the *)
(* card. The handler runs with interrupts off; a send in task context is   *)
(* cut by it, and the card works on between any two steps.                 *)
(*                                                                         *)
(* The arrays of buffers are declared with their dimensions the other way  *)
(* round: buffer i begins 8 bytes behind buffer i - 1, rounded up to 16,   *)
(* so buffers lie over one another. Memory is counted in units of 16.      *)
(***************************************************************************)
EXTENDS Integers, Sequences, FiniteSets

CONSTANTS
  Ring,          \* 8 descriptors of each kind
  FrameUnits,    \* length of a frame, at least 60 bytes, in units
  Skew,          \* where the arrays begin: 0 or 8 behind a multiple of 16
  MaxPackets, MaxFrames     \* bounds

ASSUME AmAssumption == Ring \in Nat \ {0} /\ FrameUnits \in Nat \ {0} /\ Skew \in {0, 8}

VARIABLES
  recv_own, recv_mem,      \* descriptors the card owns; unit of memory -> <<packet, its unit>>
  recv_good,               \* descriptor -> whether it has a whole packet, without error
  card_recv, currentRecvBuffer,
  csr,                     \* status bits of register 0
  am_step, temp,               \* the handler's next step and the status it has read
  accepted, taken,         \* history: packets the card stored; those given to the network, 0 for a mixture
  unread,                  \* history: packets stored while another waited, or that waited
  late,                    \* history: a packet came between the handler's last look and its acknowledge
  send_own, send_mem, card_send, currentSendBuffer,
  sending,                 \* the send in task context: step, descriptor
  started, carried,        \* history: frames given to the card; frames on the wire, 0 for a mixture
  met, split               \* history: frames copied while another waited, or that waited; a send was
                           \* cut by one in the handler, or took a descriptor still to be sent

amvars == <<recv_own, recv_mem, recv_good, card_recv, currentRecvBuffer, csr, am_step, temp, accepted, taken, unread, late,
            send_own, send_mem, card_send, currentSendBuffer, sending, started, carried, met, split>>
amrecv == <<recv_own, recv_mem, recv_good, card_recv, currentRecvBuffer, accepted, taken, unread>>
amsend == <<send_own, send_mem, card_send, currentSendBuffer, sending, started, carried, met, split>>

Address16(i) == (8 * i + Skew + 15) \div 16
Units(i) == Address16(i)..Address16(i) + FrameUnits - 1
Memory == 0..Address16(Ring - 1) + FrameUnits - 1
Copied(mem, i, f) == [u \in Memory |-> IF u \in Units(i) THEN <<f, u - Address16(i)>> ELSE mem[u]]
\* what is read from buffer i: a frame, or a mixture
Content(mem, i) ==
  LET f == mem[Address16(i)][1] IN IF \A u \in Units(i) : mem[u] = <<f, u - Address16(i)>> THEN f ELSE 0
Following(i) == (i + 1) % Ring

init_AM79C ==
  /\ recv_own = 0..Ring - 1 /\ recv_mem = [u \in Memory |-> <<0, 0>>] /\ recv_good = [i \in 0..Ring - 1 |-> FALSE]
  /\ card_recv = 0 /\ currentRecvBuffer = 0 /\ csr = {} /\ am_step = "idle" /\ temp = {}
  /\ accepted = <<>> /\ taken = <<>> /\ unread = {} /\ late = FALSE
  /\ send_own = {} /\ send_mem = [u \in Memory |-> <<0, 0>>] /\ card_send = 0 /\ currentSendBuffer = 0
  /\ sending = [step |-> "idle", descriptor |-> 0] /\ started = <<>> /\ carried = <<>> /\ met = {} /\ split = FALSE

-----------------------------------------------------------------------------
(* The card. *)

\* A packet without a free descriptor is missed; one with an error is not counted as accepted.
Store(good) ==
  /\ Len(accepted) < MaxPackets /\ card_recv \in recv_own
  /\ LET p == Len(accepted) + 1 IN
     /\ recv_mem' = Copied(recv_mem, card_recv, IF good THEN p ELSE -1)
     /\ accepted' = IF good THEN Append(accepted, p) ELSE accepted
     /\ unread' = IF Len(taken) = Len(accepted) THEN unread ELSE unread \cup (Len(taken) + 1..Len(accepted'))
  /\ recv_good' = [recv_good EXCEPT ![card_recv] = good]
  /\ recv_own' = recv_own \ {card_recv} /\ card_recv' = Following(card_recv)
  /\ csr' = csr \cup {"RECV"} /\ late' = (late \/ am_step = "ack")
  /\ UNCHANGED <<currentRecvBuffer, am_step, temp, taken, amsend>>

Carry ==
  /\ card_send \in send_own
  /\ carried' = Append(carried, Content(send_mem, card_send))
  /\ send_own' = send_own \ {card_send} /\ card_send' = Following(card_send)
  /\ csr' = csr \cup {"SENT"}
  /\ UNCHANGED <<amrecv, am_step, temp, late, send_mem, currentSendBuffer, sending, started, met, split>>

-----------------------------------------------------------------------------
(* AM79C_send: the descriptor's number; the next one's; the copy; the own bit. *)

Waiting == {started[i] : i \in Len(carried) + 1..Len(started)}
Copy(i, f) ==
  /\ send_mem' = Copied(send_mem, i, f)
  /\ met' = IF Waiting = {} THEN met ELSE met \cup Waiting \cup {f}

send_begin ==
  /\ am_step = "idle" /\ sending.step = "idle" /\ Len(started) < MaxFrames
  /\ sending' = [step |-> "next", descriptor |-> currentSendBuffer]
  /\ UNCHANGED <<amrecv, csr, am_step, temp, late, send_own, send_mem, card_send, currentSendBuffer, started, carried, met, split>>
send_next ==
  /\ am_step = "idle" /\ sending.step = "next"
  /\ currentSendBuffer' = Following(currentSendBuffer) /\ sending' = [sending EXCEPT !.step = "copy"]
  /\ UNCHANGED <<amrecv, csr, am_step, temp, late, send_own, send_mem, card_send, started, carried, met, split>>
send_copy ==
  /\ am_step = "idle" /\ sending.step = "copy"
  /\ Copy(sending.descriptor, Len(started) + 1)
  /\ split' = (split \/ sending.descriptor \in send_own) /\ sending' = [sending EXCEPT !.step = "own"]
  /\ UNCHANGED <<amrecv, csr, am_step, temp, late, send_own, card_send, currentSendBuffer, started, carried>>
send_own_bit ==
  /\ am_step = "idle" /\ sending.step = "own"
  /\ send_own' = send_own \cup {sending.descriptor} /\ started' = Append(started, Len(started) + 1)
  /\ sending' = [step |-> "idle", descriptor |-> 0]
  /\ UNCHANGED <<amrecv, csr, am_step, temp, late, send_mem, card_send, currentSendBuffer, carried, met, split>>

\* the same in the handler, as an answer
AnswerInHandler ==
  /\ Len(started) < MaxFrames
  /\ Copy(currentSendBuffer, Len(started) + 1)
  /\ split' = (split \/ sending.step # "idle" \/ currentSendBuffer \in send_own)
  /\ send_own' = send_own \cup {currentSendBuffer} /\ started' = Append(started, Len(started) + 1)
  /\ currentSendBuffer' = Following(currentSendBuffer)
  /\ UNCHANGED <<card_send, sending, carried>>

-----------------------------------------------------------------------------
(* AM97C_ISR: the status is read, packets are received until one descriptor is the card's, and the
   bits that were read are acknowledged. *)

AM97C_ISR ==
  /\ am_step = "idle" /\ csr # {}
  /\ temp' = csr /\ am_step' = IF "RECV" \in csr THEN "receive" ELSE "ack"
  /\ UNCHANGED <<amrecv, csr, late, amsend>>

\* The packet may be answered at once; then its descriptor goes back.
AM79C_receive ==
  /\ am_step = "receive" /\ currentRecvBuffer \notin recv_own
  /\ IF recv_good[currentRecvBuffer]
     THEN /\ taken' = Append(taken, Content(recv_mem, currentRecvBuffer))
          /\ AnswerInHandler \/ (UNCHANGED amsend)
     ELSE UNCHANGED <<taken, amsend>>
  /\ recv_own' = recv_own \cup {currentRecvBuffer} /\ currentRecvBuffer' = Following(currentRecvBuffer)
  /\ recv_good' = [recv_good EXCEPT ![currentRecvBuffer] = FALSE]
  /\ UNCHANGED <<recv_mem, card_recv, csr, am_step, temp, accepted, unread, late>>
receive_done ==
  /\ am_step = "receive" /\ currentRecvBuffer \in recv_own /\ am_step' = "ack"
  /\ UNCHANGED <<amrecv, csr, temp, late, amsend>>
AM97C_ack ==
  /\ am_step = "ack" /\ am_step' = "idle" /\ csr' = csr \ temp /\ temp' = {}
  /\ UNCHANGED <<amrecv, late, amsend>>

AmNext ==
  \/ \E good \in BOOLEAN : Store(good)
  \/ Carry
  \/ send_begin \/ send_next \/ send_copy \/ send_own_bit
  \/ AM97C_ISR \/ AM79C_receive \/ receive_done \/ AM97C_ack
AmSpec == init_AM79C /\ [][AmNext]_amvars

-----------------------------------------------------------------------------
(* Properties. *)

(* The packets given to the network are those the card accepted, in order and each once; each is
   itself and whole unless another was stored while it waited, or it while another did; and none
   waits once the card's bits are acknowledged, unless one came just before that (AM97C_ISR, AM79C_receive). *)
RingInOrder ==
  /\ Len(taken) <= Len(accepted)
  /\ \A i \in 1..Len(taken) : taken[i] = i \/ i \in unread
  /\ (am_step = "idle" /\ "RECV" \notin csr /\ ~late) => Len(taken) = Len(accepted)

(* Frames go on the wire in the order they are started, none lost or twice, if none is started in
   the handler while a task is starting one and none takes a descriptor still to be sent; each is
   itself and whole unless it was copied while another waited, or waited while another was (AM79C_send). *)
RingSends ==
  ~split =>
    /\ Len(started) - Len(carried) = Cardinality(send_own)
    /\ send_own # {} => card_send \in send_own
    /\ \A i \in 1..Len(carried) : carried[i] = i \/ i \in met
=============================================================================
