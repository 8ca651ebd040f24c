----------------------------- MODULE ExportAck ------------------------------
(***************************************************************************)
(* export_ack and its partner import_ack.  MessageStacker puts messages    *)
(* into OutQueue; SocketSender moves each into a slot of SQ, the send      *)
(* queue, and writes it to the socket; import_ack acknowledges it with the *)
(* number of the slot and puts it into its ring; SocketRecv marks the slot *)
(* as acknowledged.  When the connection breaks, the main thread kills the *)
(* socket threads and waits for import_ack to connect again; the new       *)
(* SocketSender sends again what was not acknowledged.                     *)
(*                                                                         *)
(* The threads share SQ, the status words and the mutex of OutQueue; a     *)
(* thread is killed by a signal, wherever it is.  Left out: the bytes of   *)
(* a packet, the filter, heartbeats as packets (Beating says when they     *)
(* flow), the shutdown, and the restart of export_ack.                     *)
(***************************************************************************)
EXTENDS Integers, Sequences, FiniteSets, SequencesExt

CONSTANTS
  SendQueueLen,  \* slots of SQ
  RingSize,      \* entries of OutQueue
  MaxMsgs,       \* bound: messages in a behaviour
  MaxBreaks      \* bound: faults in a behaviour

ASSUME ExportAssumption ==
  /\ {SendQueueLen, RingSize} \subseteq Nat \ {0}
  /\ {MaxMsgs, MaxBreaks} \subseteq Nat

Places == {"review", "resent", "top", "wait", "none", "taken", "filled", "new",
           "numbered", "send", "sent"}

Slots == 0 .. SendQueueLen - 1
Msgs == 1 .. MaxMsgs

VARIABLES
  main,          \* export_ack, main: program counter
  senderStatus,  \* SocketSenderStatus
  recvStatus,    \* SocketRecvStatus
  sender,        \* SocketSender: program counter and loop variable
  recv,          \* SocketRecv runs
  SQ,            \* the send queue
  SendSequence,  \* the slot to fill next
  OutQueue,
  mutex,         \* of OutQueue: "free", "held", or "dead" with its thread
  linked,        \* the two sockets are ends of one connection
  toImport,      \* what import_ack may still read from its socket
  toExport,      \* what export_ack may still read from its socket
  Sd,            \* import_ack's socket; "queued": connected, not accepted
  receiver,      \* MessageReceiver: program counter, message at hand
  stacked,       \* messages MessageStacker got from the ring; -1: not started
  got,           \* messages import_ack has put into its ring
  dropped,       \* history: messages a full OutQueue gave up
  lost,          \* history: messages that a killed thread had at hand
  early,         \* history: messages whose slot was killed half made
  breaks         \* faults so far

state == <<main, senderStatus, recvStatus, sender, recv>>
queues == <<SQ, SendSequence, OutQueue, mutex>>
net == <<linked, toImport, toExport>>
import == <<Sd, receiver, got>>
fates == <<dropped, lost, early>>
history == <<stacked, fates, breaks>>
vars == <<state, queues, net, import, history>>

Status == {"off", "alive", "err"}

(* Types: a connection never carries more packets than SQ has slots.       *)
TypeOK ==
  /\ main \in {"accept", "sender", "recv", "watch"}
  /\ senderStatus \in Status /\ recvStatus \in Status
  /\ sender \in [pc : Places \cup {"off"}, i : 0 .. SendQueueLen]
  /\ recv \in BOOLEAN
  /\ SQ \in [Slots -> [m : 0 .. MaxMsgs, sequence : Slots,
                       status : {"new", "sent", "ack"}]]
  /\ SendSequence \in Slots
  /\ OutQueue \in Seq(Msgs) /\ Len(OutQueue) <= RingSize
  /\ mutex \in {"free", "held", "dead"}
  /\ linked \in BOOLEAN
  /\ toImport \in Seq([m : Msgs, sequence : Slots]) /\ toExport \in Seq(Slots)
  /\ Len(toImport) + Len(toExport) <= SendQueueLen
  /\ Sd \in {"closed", "queued", "open"}
  /\ receiver \in [pc : {"off", "read", "acked"}, m : 0 .. MaxMsgs]
  /\ stacked \in -1 .. MaxMsgs
  /\ {got, dropped, lost, early} \subseteq SUBSET Msgs
  /\ breaks \in 0 .. MaxBreaks

Init ==
  /\ main = "accept" /\ senderStatus = "off" /\ recvStatus = "off"
  /\ sender = [pc |-> "off", i |-> 0] /\ recv = FALSE
  /\ SQ = [s \in Slots |-> [m |-> 0, sequence |-> 0, status |-> "ack"]]
  /\ SendSequence = 0 /\ OutQueue = <<>> /\ mutex = "free"
  /\ linked = FALSE /\ toImport = <<>> /\ toExport = <<>>
  /\ Sd = "closed" /\ receiver = [pc |-> "off", m |-> 0] /\ got = {}
  /\ stacked = -1 /\ breaks = 0
  /\ dropped = {} /\ lost = {} /\ early = {}

-----------------------------------------------------------------------------
(* The connection (external: TCP).  A broken one still gives what arrived  *)
(* before, a prefix of what was sent; then reads fail.  A write into it    *)
(* fails or is lost.                                                       *)

Cut(s) == {SubSeq(s, 1, n) : n \in 0 .. Len(s)}

Fault == breaks < MaxBreaks /\ breaks' = breaks + 1

Break ==
  /\ linked /\ Fault
  /\ linked' = FALSE
  /\ toImport' \in Cut(toImport) /\ toExport' \in Cut(toExport)
  /\ UNCHANGED <<state, queues, import, stacked, fates>>

-----------------------------------------------------------------------------
(* MessageStacker: one message from the ring into OutQueue, which gives up *)
(* its oldest when it is full.                                             *)

MessageStacker ==
  /\ stacked \in 0 .. MaxMsgs - 1
  /\ mutex = "free"
  /\ stacked' = stacked + 1
  /\ IF Len(OutQueue) = RingSize
     THEN /\ OutQueue' = Append(Tail(OutQueue), stacked')
          /\ dropped' = dropped \cup {Head(OutQueue)}
     ELSE OutQueue' = Append(OutQueue, stacked') /\ UNCHANGED dropped
  /\ UNCHANGED <<state, SQ, SendSequence, mutex, net, import, lost, early, breaks>>

-----------------------------------------------------------------------------
(* SocketSender.                                                           *)

At(pc) == sender.pc = pc
Goto(pc) == sender' = [sender EXCEPT !.pc = pc]

SenderRest == UNCHANGED <<main, recvStatus, recv, toExport, import, history>>

(* The thread complains and ends.                                          *)
Fails ==
  /\ senderStatus' = "err"
  /\ Goto("off")
  /\ UNCHANGED <<queues, linked, toImport>>

(* SendPacket of slot s.                                                   *)
SendPacket(s, pc) ==
  \/ /\ ~linked /\ Fails
  \/ /\ toImport' = IF linked
                    THEN Append(toImport, [m |-> SQ[s].m, sequence |-> SQ[s].sequence])
                    ELSE toImport
     /\ Goto(pc)
     /\ UNCHANGED <<senderStatus, queues, linked>>

(* Fault: the review starts with slot 0, not with the oldest message.      *)
Reviewed_FromZero(i) == i

Reviewed(i) == (SendSequence + i) % SendQueueLen

(* Fault: a message that was not sent yet is not looked for.               *)
Unacked_SentOnly(s) == SQ[s].status = "sent"

Unacked(s) == SQ[s].status # "ack"

(* The review of SQ when the thread starts.                                *)
Skip ==
  /\ At("review")
  /\ sender.i < SendQueueLen => ~Unacked(Reviewed(sender.i))
  /\ sender' = IF sender.i < SendQueueLen THEN [sender EXCEPT !.i = @ + 1]
               ELSE [pc |-> "top", i |-> 0]
  /\ UNCHANGED <<senderStatus, queues, linked, toImport>>

Resend ==
  /\ At("review")
  /\ sender.i < SendQueueLen /\ Unacked(Reviewed(sender.i))
  /\ SendPacket(Reviewed(sender.i), "resent")

(* The status is set after the packet was sent; SocketRecv may have seen   *)
(* its acknowledgement before.                                             *)
MarkResent ==
  /\ At("resent")
  /\ SQ' = [SQ EXCEPT ![Reviewed(sender.i)].status = "sent"]
  /\ sender' = [pc |-> "review", i |-> sender.i + 1]
  /\ UNCHANGED <<senderStatus, SendSequence, OutQueue, mutex, linked, toImport>>

(* Top of the loop: the heartbeat to import_ack, which may fail.           *)
BeatFails == At("top") /\ ~linked /\ Fails

Wait ==
  /\ At("top") /\ SQ[SendSequence].status = "sent"
  /\ Goto("wait")
  /\ UNCHANGED <<senderStatus, queues, linked, toImport>>

(* Fault: the slot is used again without an acknowledgement.               *)
SlotFree_Always == At("top") \/ At("wait")

SlotFree ==
  \/ At("top") /\ SQ[SendSequence].status # "sent"
  \/ At("wait") /\ SQ[SendSequence].status = "ack"

(* dequeue writes into the slot; its status is still what it was.          *)
Dequeue ==
  /\ SlotFree
  /\ mutex = "free" /\ mutex' = "held"
  /\ IF OutQueue = <<>> THEN Goto("none") /\ UNCHANGED <<SQ, OutQueue>>
     ELSE /\ SQ' = [SQ EXCEPT ![SendSequence].m = Head(OutQueue)]
          /\ OutQueue' = Tail(OutQueue)
          /\ Goto("taken")
  /\ UNCHANGED <<senderStatus, SendSequence, linked, toImport>>

Unlock ==
  /\ At("none") \/ At("taken")
  /\ mutex' = "free"
  /\ Goto(IF At("none") THEN "top" ELSE "filled")
  /\ UNCHANGED <<senderStatus, SQ, SendSequence, OutQueue, linked, toImport>>

(* sq->status, sq->sequence and SendSequence, one after the other.         *)
MarkNew ==
  /\ At("filled")
  /\ SQ' = [SQ EXCEPT ![SendSequence].status = "new"]
  /\ Goto("new")
  /\ UNCHANGED <<senderStatus, SendSequence, OutQueue, mutex, linked, toImport>>

Number ==
  /\ At("new")
  /\ SQ' = [SQ EXCEPT ![SendSequence].sequence = SendSequence]
  /\ Goto("numbered")
  /\ UNCHANGED <<senderStatus, SendSequence, OutQueue, mutex, linked, toImport>>

Advance ==
  /\ At("numbered")
  /\ SendSequence' = (SendSequence + 1) % SendQueueLen
  /\ sender' = [pc |-> "send", i |-> SendSequence]
  /\ UNCHANGED <<senderStatus, SQ, OutQueue, mutex, linked, toImport>>

Send == At("send") /\ SendPacket(sender.i, "sent")

MarkSent ==
  /\ At("sent")
  /\ SQ' = [SQ EXCEPT ![sender.i].status = "sent"]
  /\ sender' = [pc |-> "top", i |-> 0]
  /\ UNCHANGED <<senderStatus, SendSequence, OutQueue, mutex, linked, toImport>>

SocketSender ==
  /\ \/ Skip \/ Resend \/ MarkResent
     \/ BeatFails \/ Wait \/ Dequeue \/ Unlock \/ MarkNew \/ Number \/ Advance
     \/ Send \/ MarkSent
  /\ SenderRest

-----------------------------------------------------------------------------
(* SocketRecv: an acknowledgement, or the end of the connection.           *)

Acknowledged ==
  /\ toExport # <<>>
  /\ SQ' = [SQ EXCEPT ![Head(toExport) % SendQueueLen].status = "ack"]
  /\ toExport' = Tail(toExport)
  /\ UNCHANGED <<recv, recvStatus>>

RecvFails ==
  /\ toExport = <<>> /\ ~linked
  /\ recv' = FALSE /\ recvStatus' = "err"
  /\ UNCHANGED <<SQ, toExport>>

SocketRecv ==
  /\ recv
  /\ Acknowledged \/ RecvFails
  /\ UNCHANGED <<main, senderStatus, sender, SendSequence, OutQueue, mutex,
                 linked, toImport, import, history>>

-----------------------------------------------------------------------------
(* The main thread of export_ack.                                          *)

(* accept_ew, and SocketSender is started.                                 *)
Accept ==
  /\ main = "accept" /\ Sd = "queued"
  /\ Sd' = "open" /\ linked' = TRUE /\ toExport' = <<>>
  /\ stacked' = IF stacked = -1 THEN 0 ELSE stacked
  /\ main' = "sender" /\ senderStatus' = "alive"
  /\ sender' = [pc |-> "review", i |-> 0]
  /\ UNCHANGED <<recvStatus, recv, queues, toImport, receiver, got, fates, breaks>>

(* main sets the status too, after the start, whatever the thread has      *)
(* done by then; SocketRecv is started.                                    *)
StartRecv ==
  /\ main = "sender" /\ main' = "recv"
  /\ senderStatus' = "alive"
  /\ recv' = TRUE /\ recvStatus' = "alive"
  /\ UNCHANGED <<sender, queues, net, import, history>>

StartWatch ==
  /\ main = "recv" /\ main' = "watch"
  /\ recvStatus' = "alive"
  /\ UNCHANGED <<senderStatus, sender, recv, queues, net, import, history>>

(* SocketSender goes through its loop and can write: heartbeats reach      *)
(* import_ack, which answers them.                                         *)
Beating ==
  /\ linked
  /\ ~At("off")
  /\ At("wait") => SQ[SendSequence].status = "ack" \/ toExport # <<>>
  /\ mutex = "dead" => ~At("top") /\ ~At("wait")

(* Nothing from import_ack will arrive.                                    *)
ImportSilent ==
  /\ toExport = <<>>
  /\ ~linked \/ (receiver.pc = "read" /\ toImport = <<>> /\ ~Beating)

(* Fault: only the status words are looked at.                             *)
ImportLost_Never == FALSE /\ UNCHANGED breaks

(* No heartbeat within RcvAliveInt: nothing comes any more, or it is late. *)
ImportLost == (ImportSilent /\ UNCHANGED breaks) \/ Fault

(* Both sockets are closed, both threads killed, wherever they are; the    *)
(* mutex and the message SocketSender had at hand go with it.              *)
Retry ==
  /\ main = "watch"
  /\ \/ (senderStatus # "alive" \/ recvStatus # "alive") /\ UNCHANGED breaks
     \/ ImportLost
  /\ main' = "accept"
  /\ senderStatus' = "off" /\ recvStatus' = "off"
  /\ sender' = [pc |-> "off", i |-> 0] /\ recv' = FALSE
  /\ mutex' = IF mutex = "held" THEN "dead" ELSE mutex
  /\ lost' = lost \cup (IF At("taken") \/ At("filled") THEN {SQ[SendSequence].m} ELSE {})
  /\ early' = early \cup (IF At("new") \/ At("numbered") THEN {SQ[SendSequence].m} ELSE {})
  /\ linked' = FALSE /\ toExport' = <<>>
  /\ toImport' \in IF linked THEN Cut(toImport) ELSE {toImport}
  /\ Sd' = IF Sd = "queued" THEN "open" ELSE Sd
  /\ UNCHANGED <<SQ, SendSequence, OutQueue, receiver, got, stacked, dropped>>

ExportMain == Accept \/ StartRecv \/ StartWatch \/ Retry

-----------------------------------------------------------------------------
(* import_ack.                                                             *)

ImportRest == UNCHANGED <<state, queues, stacked>>

(* connect_ew: the listening socket takes the connection before main       *)
(* accepts it.                                                             *)
Connect ==
  /\ Sd = "closed" /\ Sd' = "queued"
  /\ receiver' = [pc |-> "read", m |-> 0]
  /\ UNCHANGED <<net, got, fates, breaks>>

(* A packet is acknowledged, then put into the ring.  A write error ends   *)
(* the thread before the message is put.                                   *)
ReadAndAck ==
  /\ receiver.pc = "read" /\ toImport # <<>>
  /\ toImport' = Tail(toImport)
  /\ \/ /\ receiver' = [pc |-> "acked", m |-> Head(toImport).m]
        /\ toExport' = IF linked THEN Append(toExport, Head(toImport).sequence)
                       ELSE toExport
     \/ /\ ~linked
        /\ receiver' = [pc |-> "off", m |-> 0]
        /\ UNCHANGED toExport
  /\ UNCHANGED <<linked, Sd, got, fates, breaks>>

PutMsg ==
  /\ receiver.pc = "acked"
  /\ got' = got \cup {receiver.m}
  /\ receiver' = [pc |-> "read", m |-> 0]
  /\ UNCHANGED <<net, Sd, fates, breaks>>

ReadFails ==
  /\ receiver.pc = "read" /\ Sd = "open" /\ toImport = <<>> /\ ~linked
  /\ receiver' = [pc |-> "off", m |-> 0]
  /\ UNCHANGED <<net, Sd, got, fates, breaks>>

MessageReceiver == (ReadAndAck \/ PutMsg \/ ReadFails) /\ ImportRest

(* Nothing from export_ack will arrive.                                    *)
ExportSilent ==
  /\ receiver.pc = "read" /\ toImport = <<>> /\ ~Beating
  /\ Sd = "queued" => main # "accept"

(* The thread has ended, or no heartbeat came within SenderHeartRate:      *)
(* nothing comes any more, or it is late, or the process is restarted.     *)
(* The thread is killed with the message it had at hand.                   *)
Reconnect ==
  /\ Sd # "closed" /\ Sd' = "closed"
  /\ \/ (receiver.pc = "off" \/ ExportSilent) /\ UNCHANGED breaks
     \/ Fault
  /\ receiver' = [pc |-> "off", m |-> 0]
  /\ lost' = lost \cup (IF receiver.pc = "acked" THEN {receiver.m} ELSE {})
  /\ linked' = FALSE /\ toImport' = <<>>
  /\ toExport' \in IF linked THEN Cut(toExport) ELSE {toExport}
  /\ UNCHANGED <<got, dropped, early>>

ImportMain == (Connect \/ Reconnect) /\ ImportRest

-----------------------------------------------------------------------------

Next ==
  \/ MessageStacker \/ SocketSender \/ SocketRecv \/ ExportMain
  \/ MessageReceiver \/ ImportMain \/ Break

Spec == Init /\ [][Next]_vars

(* Every thread runs, and heartbeats that will not come are missed.  New   *)
(* messages and faults come or do not.                                     *)
FairSpec ==
  /\ Spec
  /\ WF_vars(SocketSender) /\ WF_vars(SocketRecv)
  /\ WF_vars(ExportMain /\ UNCHANGED breaks)
  /\ WF_vars(MessageReceiver)
  /\ WF_vars(ImportMain /\ UNCHANGED breaks)

-----------------------------------------------------------------------------

(* SocketSender was killed between the status and the number of a slot in  *)
(* its first use: the slot is sent again and again with the number 0,      *)
(* which takes the acknowledgement for slot 0, and SendSequence stays.     *)
Jammed ==
  /\ SQ[SendSequence].status # "ack" /\ SQ[SendSequence].sequence # SendSequence
  /\ ~At("new")

(* The message is with the partner, or on its way to it.                   *)
Kept(m) ==
  \/ m \in got
  \/ m \in Range(OutQueue)
  \/ \E s \in Slots : SQ[s].m = m /\ SQ[s].status # "ack"
  \/ sender.pc \in {"taken", "filled"} /\ SQ[SendSequence].m = m
  \/ receiver = [pc |-> "acked", m |-> m]

(* What the manual says of a message given to export_ack: it is not lost,  *)
(* unless a full OutQueue pushes it out ("export*ack re-sends any msgs in  *)
(* the SendQueue which haven't been acknowledged", "duplicate data instead *)
(* of lost data", import-export_ovr.html:140, 169).  Not kept: a kill.     *)
NoneLost == \A m \in 1 .. stacked : Kept(m) \/ m \in dropped

(* What is lost besides is what a thread had at hand when it was killed:   *)
(* SocketSender, after it dequeued a message and before it marked the      *)
(* slot; the receiver of import_ack, after it acknowledged the message and *)
(* before it put it.  All others are kept, until the queue is jammed.      *)
NoneForgotten ==
  ~Jammed => \A m \in 1 .. stacked : Kept(m) \/ m \in dropped \cup lost

(* Messages reach the ring in the order in which they were stacked, over   *)
(* all reconnects; only what is there already comes again ("re-send the    *)
(* packet and import_ack will see the same packet more than once").  The   *)
(* exception is a message whose slot was new, and SendSequence not yet     *)
(* advanced, when SocketSender was killed: it overtakes the older ones.    *)
FirstInOrder == [][\A m \in got' \ got : \A k \in got \ early : k < m]_got

(* An acknowledgement that SocketRecv noted is overwritten.                *)
Overwritten ==
  \/ At("sent") /\ SQ[sender.i].status = "ack" /\ SocketSender
  \/ At("resent") /\ SQ[Reviewed(sender.i)].status = "ack" /\ SocketSender

(* Every message arrives or is given up, whatever threads died unnoticed   *)
(* and whichever slots wait for an acknowledgement that was overwritten:   *)
(* the heartbeats end such a connection.  Not if acknowledgements are      *)
(* overwritten for ever, nor with the mutex held by a killed thread, nor   *)
(* with the queue jammed.                                                  *)
Progress ==
  \/ \A m \in Msgs :
       m <= stacked ~> m \in got \cup dropped \cup lost \/ mutex = "dead" \/ Jammed
  \/ []<><<Overwritten>>_vars
=============================================================================
