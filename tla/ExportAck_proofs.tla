-------------------------- MODULE ExportAck_proofs --------------------------
(***************************************************************************)
(* Proofs about ExportAck: no message is forgotten while the queue is not  *)
(* jammed, messages arrive in order and no connection carries more than    *)
(* the slots, for any number of slots, messages and faults, wherever the   *)
(* threads are killed.                                                     *)
(*                                                                         *)
(* NoneForgotten alone is not inductive: that an acknowledgement may clear *)
(* its slot needs that the slot still holds the message it is for, which   *)
(* needs that no slot is sent twice on one connection and that a slot      *)
(* knows its number before it is sent (IInv).  A kill between the status   *)
(* and the number of a slot in its first use is the one step out of IInv;  *)
(* what holds from then on is Stuck, of which the queue is jammed.         *)
(***************************************************************************)
EXTENDS ExportAck, FiniteSetTheorems, TLAPS

SlotTypes == [Slots -> [m : 0 .. MaxMsgs, sequence : Slots,
                        status : {"new", "sent", "ack"}]]

Packets == [m : 0 .. MaxMsgs, sequence : Slots]

(* What a full OutQueue or a kill took.                                    *)
Gone == dropped \cup lost

(* Types, as far as they are needed.                                       *)
Types ==
  /\ main \in {"accept", "sender", "recv", "watch"}
  /\ sender \in [pc : Places \cup {"off"}, i : 0 .. SendQueueLen]
  /\ SQ \in SlotTypes
  /\ SendSequence \in Slots
  /\ OutQueue \in Seq(Msgs)
  /\ linked \in BOOLEAN
  /\ toImport \in Seq(Packets)
  /\ toExport \in Seq(Slots)
  /\ Sd \in {"closed", "queued", "open"}
  /\ receiver \in [pc : {"off", "read", "acked"}, m : 0 .. MaxMsgs]
  /\ stacked \in -1 .. MaxMsgs

(* A connection nobody accepted carries nothing.                           *)
Connections ==
  /\ main = "accept" => At("off") /\ ~linked
  /\ linked => Sd = "open"
  /\ Sd # "open" => toImport = <<>>
  /\ Sd = "closed" => receiver.pc = "off"

(* The slots a review that began at slot q has before it from its k-th on. *)
Ahead(q, k) == {(q + i) % SendQueueLen : i \in k .. SendQueueLen - 1}

(* Where a slot may be new: SocketSender has it at hand, has yet to review *)
(* it, or does not run.                                                    *)
New(s) ==
  \/ At("off")
  \/ sender.pc \in {"review", "resent"} /\ s \in Ahead(SendSequence, sender.i)
  \/ sender.pc \in {"new", "numbered"} /\ s = SendSequence
  \/ sender.pc \in {"send", "sent"} /\ s = sender.i

(* What SocketSender has yet to send.                                      *)
Unsent(s) ==
  \/ At("review") /\ s \in Ahead(SendSequence, sender.i)
  \/ At("resent") /\ s \in Ahead(SendSequence, sender.i + 1)
  \/ sender.pc \in {"new", "numbered"} /\ s = SendSequence
  \/ At("send") /\ s = sender.i

(* The status words agree with what SocketSender is doing.                 *)
Placed ==
  /\ \A s \in Slots : SQ[s].status = "new" => New(s)
  /\ sender.pc \in {"taken", "filled"} => SQ[SendSequence].status = "ack"
  /\ sender.pc \in {"new", "numbered"} => SQ[SendSequence].status = "new"
  /\ At("send") => SQ[sender.i].status = "new"
  /\ sender.pc \in {"send", "sent"} => sender.i \in Slots
  /\ At("resent") => sender.i < SendQueueLen

(* What holds always, jammed or not.                                       *)
Base == Types /\ Connections /\ Placed

(* A slot knows its number, or none yet.                                   *)
OwnNumbers == \A s \in Slots : SQ[s].sequence \in {s, 0}

(* A slot that waits for an acknowledgement knows its number.              *)
Numbered ==
  /\ OwnNumbers
  /\ \A s \in Slots : SQ[s].status # "ack" =>
       SQ[s].sequence = s \/ (At("new") /\ s = SendSequence)
  /\ sender.pc \in {"send", "sent"} => SQ[sender.i].sequence = sender.i
  /\ At("resent") => SQ[Reviewed(sender.i)].sequence = Reviewed(sender.i)

Marked == Placed /\ Numbered

(* What is on the connection is of a slot that waits for it, the message   *)
(* still in it; an acknowledgement, of one import_ack has or gave up.      *)
Carried ==
  /\ \A k \in 1 .. Len(toImport) :
       /\ SQ[toImport[k].sequence].status # "ack"
       /\ SQ[toImport[k].sequence].m = toImport[k].m
       /\ ~Unsent(toImport[k].sequence)
  /\ \A k \in 1 .. Len(toExport) :
       /\ SQ[toExport[k]].status # "ack"
       /\ ~Unsent(toExport[k])
       /\ \/ SQ[toExport[k]].m \in got \cup Gone
          \/ receiver.pc = "acked" /\ receiver.m = SQ[toExport[k]].m

(* No slot is on the connection twice.                                     *)
Once ==
  /\ \A k, l \in 1 .. Len(toImport) :
       k # l => toImport[k].sequence # toImport[l].sequence
  /\ \A k, l \in 1 .. Len(toExport) : k # l => toExport[k] # toExport[l]
  /\ \A k \in 1 .. Len(toImport), l \in 1 .. Len(toExport) :
       toImport[k].sequence # toExport[l]

(* Every message is kept, or was given up.                                 *)
AllKept == \A m \in 1 .. stacked : Kept(m) \/ m \in Gone

IInv == Types /\ Connections /\ Marked /\ Carried /\ Once /\ AllKept

-----------------------------------------------------------------------------
(* What is needed of sequences and of the slots of a review.               *)

LEMMA TailElements ==
  ASSUME NEW S, NEW q \in Seq(S), q # <<>>
  PROVE  /\ Tail(q) \in Seq(S) /\ Head(q) \in S /\ Head(q) = q[1]
         /\ Len(q) \in Nat /\ 1 \in 1 .. Len(q) /\ Len(Tail(q)) = Len(q) - 1
         /\ \A k \in 1 .. Len(Tail(q)) : k + 1 \in 1 .. Len(q) /\ Tail(q)[k] = q[k + 1]
OBVIOUS

LEMMA AppendElements ==
  ASSUME NEW S, NEW q \in Seq(S), NEW x \in S
  PROVE  /\ Append(q, x) \in Seq(S)
         /\ Len(q) \in Nat /\ Len(Append(q, x)) = Len(q) + 1
         /\ \A k \in 1 .. Len(q) : Append(q, x)[k] = q[k]
         /\ Append(q, x)[Len(q) + 1] = x
OBVIOUS

LEMMA CutElements ==
  ASSUME NEW S, NEW q \in Seq(S), NEW p \in Cut(q)
  PROVE  /\ p \in Seq(S)
         /\ \A k \in 1 .. Len(p) : k \in 1 .. Len(q) /\ p[k] = q[k]
<1>1. PICK n \in 0 .. Len(q) : p = SubSeq(q, 1, n)
  BY DEF Cut
<1>2. Len(q) \in Nat /\ n \in Nat /\ n <= Len(q)
  OBVIOUS
<1>3. \A k \in 1 .. n : q[k] \in S
  BY <1>2
<1>4. p \in Seq(S) /\ Len(p) = n /\ \A k \in 1 .. n : p[k] = q[k]
  BY <1>1, <1>2, <1>3
<1> QED
  BY <1>2, <1>4

LEMMA CutWhole ==
  ASSUME NEW S, NEW q \in Seq(S)
  PROVE  q \in Cut(q) /\ <<>> \in Cut(q)
<1>1. Len(q) \in 0 .. Len(q) /\ 0 \in 0 .. Len(q)
  OBVIOUS
<1>2. SubSeq(q, 1, Len(q)) = q /\ SubSeq(q, 1, 0) = <<>>
  OBVIOUS
<1> QED
  BY <1>1, <1>2 DEF Cut

(* A sequence without its first, or with one more.                         *)
LEMMA RangeTail ==
  ASSUME NEW S, NEW q \in Seq(S), q # <<>>
  PROVE  \A x \in Range(q) : x = Head(q) \/ x \in Range(Tail(q))
<1> SUFFICES ASSUME NEW k \in 1 .. Len(q) PROVE q[k] = Head(q) \/ q[k] \in Range(Tail(q))
  BY DEF Range
<1>1. CASE k = 1
  BY <1>1, TailElements
<1>2. CASE k # 1
  <2>1. k - 1 \in 1 .. Len(Tail(q)) /\ Tail(q)[k - 1] = q[k]
    BY <1>2, TailElements
  <2>2. DOMAIN Tail(q) = 1 .. Len(Tail(q))
    BY TailElements
  <2> QED
    BY <2>1, <2>2 DEF Range
<1> QED
  BY <1>1, <1>2

LEMMA RangeAppend ==
  ASSUME NEW S, NEW q \in Seq(S), NEW x \in S
  PROVE  Range(q) \cup {x} \subseteq Range(Append(q, x))
<1>1. DOMAIN Append(q, x) = 1 .. Len(q) + 1 /\ DOMAIN q = 1 .. Len(q)
  BY AppendElements
<1> QED
  BY <1>1, AppendElements DEF Range

LEMMA Modulo ==
  ASSUME NEW q \in Slots, NEW i \in 0 .. SendQueueLen - 1
  PROVE  /\ (q + i) % SendQueueLen \in Slots
         /\ (q + i) % SendQueueLen = IF q + i < SendQueueLen THEN q + i
                                     ELSE q + i - SendQueueLen
BY ExportAssumption DEF Slots

LEMMA AheadAll ==
  ASSUME NEW q \in Slots
  PROVE  Slots \subseteq Ahead(q, 0)
<1> SUFFICES ASSUME NEW s \in Slots
             PROVE  \E i \in 0 .. SendQueueLen - 1 : s = (q + i) % SendQueueLen
  BY DEF Ahead
<1>1. CASE s >= q
  <2>1. s - q \in 0 .. SendQueueLen - 1 /\ q + (s - q) < SendQueueLen
    BY <1>1, ExportAssumption DEF Slots
  <2>2. s = (q + (s - q)) % SendQueueLen
    BY <2>1, Modulo DEF Slots
  <2> QED
    BY <2>1, <2>2
<1>2. CASE s < q
  <2> DEFINE i == s + SendQueueLen - q
  <2>1. i \in 0 .. SendQueueLen - 1 /\ q + i >= SendQueueLen /\ q + i - SendQueueLen = s
    BY <1>2, ExportAssumption DEF Slots
  <2>2. s = (q + i) % SendQueueLen
    BY <2>1, Modulo, ExportAssumption DEF Slots
  <2> QED
    BY <2>1, <2>2
<1> QED
  BY <1>1, <1>2 DEF Slots

LEMMA AheadStep ==
  ASSUME NEW q \in Slots, NEW k \in 0 .. SendQueueLen - 1
  PROVE  /\ (q + k) % SendQueueLen \in Ahead(q, k)
         /\ (q + k) % SendQueueLen \notin Ahead(q, k + 1)
         /\ Ahead(q, k) \subseteq Ahead(q, k + 1) \cup {(q + k) % SendQueueLen}
         /\ Ahead(q, k + 1) \subseteq Ahead(q, k)
<1>1. SendQueueLen \in Nat /\ k \in k .. SendQueueLen - 1
  BY ExportAssumption
<1>2. ASSUME NEW i \in k + 1 .. SendQueueLen - 1
      PROVE  (q + i) % SendQueueLen # (q + k) % SendQueueLen
  <2>1. i \in 0 .. SendQueueLen - 1 /\ i > k /\ q \in 0 .. SendQueueLen - 1
    BY <1>1 DEF Slots
  <2>2. (q + i) % SendQueueLen = IF q + i < SendQueueLen THEN q + i
                                 ELSE q + i - SendQueueLen
    BY <2>1, Modulo
  <2>3. (q + k) % SendQueueLen = IF q + k < SendQueueLen THEN q + k
                                 ELSE q + k - SendQueueLen
    BY Modulo
  <2>4. i < SendQueueLen /\ k < SendQueueLen /\ i - k < SendQueueLen
    BY <1>1, <2>1
  <2> QED
    BY <1>1, <2>1, <2>2, <2>3, <2>4
<1>3. k .. SendQueueLen - 1 = (k + 1 .. SendQueueLen - 1) \cup {k}
  BY <1>1
<1> QED
  BY <1>1, <1>2, <1>3 DEF Ahead

LEMMA AheadEnd ==
  ASSUME NEW q \in Slots
  PROVE  Ahead(q, SendQueueLen) = {}
BY ExportAssumption DEF Ahead
-----------------------------------------------------------------------------
(* The initial state.                                                      *)
LEMMA InitSafe == Init => IInv
<1> SUFFICES ASSUME Init PROVE IInv
  OBVIOUS
<1> USE DEF Init
<1>1. SendQueueLen \in Nat /\ 0 \in Slots /\ MaxMsgs \in Nat
  BY ExportAssumption DEF Slots
<1>2. SQ \in SlotTypes
  BY <1>1 DEF SlotTypes
<1>3. Types
  <2>1. sender \in [pc : Places \cup {"off"}, i : 0 .. SendQueueLen]
    BY <1>1
  <2>2. receiver \in [pc : {"off", "read", "acked"}, m : 0 .. MaxMsgs]
    BY <1>1
  <2>3. stacked \in -1 .. MaxMsgs
    BY <1>1
  <2>4. /\ OutQueue \in Seq(Msgs) /\ toImport \in Seq(Packets) /\ toExport \in Seq(Slots)
        /\ main = "accept" /\ linked = FALSE /\ Sd = "closed" /\ SendSequence \in Slots
    BY <1>1
  <2> HIDE DEF Init
  <2> QED
    BY <1>2, <2>1, <2>2, <2>3, <2>4 DEF Types
<1>4. Connections /\ Marked
  BY DEF Connections, Marked, Placed, Numbered, OwnNumbers, At
<1>5. Carried /\ Once
  BY DEF Carried, Once
<1>6. AllKept
  BY DEF AllKept, Kept
<1> QED
  BY <1>3, <1>4, <1>5, <1>6 DEF IInv

-----------------------------------------------------------------------------
(* Types of what SocketSender uses.                                        *)
LEMMA SenderTypes ==
  ASSUME Types
  PROVE  /\ SendQueueLen \in Nat /\ SendQueueLen > 0
         /\ sender.i \in 0 .. SendQueueLen /\ sender.pc \in Places \cup {"off"}
         /\ sender.i < SendQueueLen =>
              /\ Reviewed(sender.i) \in Slots
              /\ sender.i + 1 \in 0 .. SendQueueLen
              /\ Reviewed(sender.i) \in Ahead(SendSequence, sender.i)
              /\ Reviewed(sender.i) \notin Ahead(SendSequence, sender.i + 1)
              /\ Ahead(SendSequence, sender.i) \subseteq
                   Ahead(SendSequence, sender.i + 1) \cup {Reviewed(sender.i)}
              /\ Ahead(SendSequence, sender.i + 1) \subseteq Ahead(SendSequence, sender.i)
         /\ Ahead(SendSequence, SendQueueLen) = {}
<1>1. SendQueueLen \in Nat /\ SendQueueLen > 0
  BY ExportAssumption
<1>2. sender.i \in 0 .. SendQueueLen /\ sender.pc \in Places \cup {"off"}
  BY DEF Types
<1>3. ASSUME sender.i < SendQueueLen PROVE sender.i \in 0 .. SendQueueLen - 1
  BY <1>1, <1>2, <1>3
<1> QED
  BY <1>1, <1>2, <1>3, Modulo, AheadStep, AheadEnd DEF Types, Reviewed

(* What is carried stays so if the slots that wait keep their messages.    *)
LEMMA CarriedStays ==
  ASSUME Types, Carried, Once, UNCHANGED <<toImport, toExport, receiver, got, Gone>>,
         \A s \in Slots : SQ[s].status # "ack" /\ ~Unsent(s) =>
            SQ'[s].status # "ack" /\ SQ'[s].m = SQ[s].m /\ ~Unsent(s)'
  PROVE  Carried' /\ Once'
<1>1. \A k \in 1 .. Len(toImport) : toImport[k].sequence \in Slots
  <2> TAKE k \in 1 .. Len(toImport)
  <2>1. toImport[k] \in Packets
    BY DEF Types
  <2> QED
    BY <2>1 DEF Packets
<1>2. \A k \in 1 .. Len(toExport) : toExport[k] \in Slots
  BY DEF Types
<1>3. Carried'
  BY <1>1, <1>2 DEF Carried
<1>4. Once'
  BY DEF Once
<1> QED
  BY <1>3, <1>4

(* So it does when the packet of a slot that waits to be sent is added.    *)
LEMMA PacketSent ==
  ASSUME Types, Carried, Once,
         NEW s \in Slots, SQ[s].status # "ack", SQ[s].sequence = s, Unsent(s),
         toImport' = Append(toImport, [m |-> SQ[s].m, sequence |-> SQ[s].sequence]),
         UNCHANGED <<SQ, toExport, receiver, got, Gone>>,
         \A t \in Slots : ~Unsent(t) => ~Unsent(t)', ~Unsent(s)'
  PROVE  toImport' \in Seq(Packets) /\ Carried' /\ Once'
<1> DEFINE p == [m |-> SQ[s].m, sequence |-> SQ[s].sequence]
<1>1. p \in Packets /\ p.sequence = s /\ p.m = SQ[s].m
  BY DEF Types, SlotTypes, Packets
<1>2. /\ toImport \in Seq(Packets) /\ toImport' = Append(toImport, p)
      /\ Len(toExport) \in Nat
  BY DEF Types
<1> HIDE DEF p
<1>3. /\ toImport' \in Seq(Packets)
      /\ Len(toImport) \in Nat /\ Len(toImport') = Len(toImport) + 1
      /\ \A k \in 1 .. Len(toImport) : toImport'[k] = toImport[k]
      /\ toImport'[Len(toImport) + 1] = p
  BY <1>1, <1>2, AppendElements
<1>4. \A k \in 1 .. Len(toImport) : toImport[k].sequence \in Slots
  <2> TAKE k \in 1 .. Len(toImport)
  <2>1. toImport[k] \in Packets
    BY <1>2
  <2> QED
    BY <2>1 DEF Packets
<1>5. \A k \in 1 .. Len(toExport) : toExport[k] \in Slots
  BY DEF Types
<1>6. \A k \in 1 .. Len(toImport') : k \in 1 .. Len(toImport) \/ k = Len(toImport) + 1
  BY <1>3
<1>7. \A k \in 1 .. Len(toImport') :
        \/ k \in 1 .. Len(toImport) /\ toImport'[k].sequence # s
           /\ toImport'[k] = toImport[k]
        \/ k = Len(toImport) + 1 /\ toImport'[k].sequence = s /\ toImport'[k].m = SQ[s].m
  BY <1>1, <1>3, <1>6 DEF Carried
<1>8. \A k \in 1 .. Len(toExport) : toExport[k] # s
  BY DEF Carried
<1>9. Carried'
  BY <1>4, <1>5, <1>7, <1>8 DEF Carried
<1>10. Once'
  <2>1. \A k, l \in 1 .. Len(toImport') :
          k # l => toImport'[k].sequence # toImport'[l].sequence
    BY <1>7 DEF Once
  <2>2. \A k \in 1 .. Len(toImport'), l \in 1 .. Len(toExport) :
          toImport'[k].sequence # toExport[l]
    BY <1>7, <1>8 DEF Once
  <2> QED
    BY <2>1, <2>2 DEF Once
<1> QED
  BY <1>3, <1>9, <1>10

(* So it does when the end of what is carried is lost.                     *)
LEMMA CutCarried ==
  ASSUME Types, Carried, Once, SQ' = SQ,
         toImport' \in Cut(toImport), toExport' \in Cut(toExport),
         \A s \in Slots : ~Unsent(s) => ~Unsent(s)',
         got \cup Gone \subseteq got' \cup Gone',
         receiver.pc = "acked" =>
           receiver' = receiver \/ receiver.m \in got' \cup Gone'
  PROVE  /\ toImport' \in Seq(Packets) /\ toExport' \in Seq(Slots)
         /\ Carried' /\ Once'
<1>1. toImport \in Seq(Packets) /\ toExport \in Seq(Slots)
  BY DEF Types
<1>2. /\ toImport' \in Seq(Packets)
      /\ \A k \in 1 .. Len(toImport') :
           k \in 1 .. Len(toImport) /\ toImport'[k] = toImport[k]
  BY <1>1, CutElements
<1>3. /\ toExport' \in Seq(Slots)
      /\ \A k \in 1 .. Len(toExport') :
           k \in 1 .. Len(toExport) /\ toExport'[k] = toExport[k]
  BY <1>1, CutElements
<1>4. \A k \in 1 .. Len(toImport) : toImport[k].sequence \in Slots
  <2> TAKE k \in 1 .. Len(toImport)
  <2>1. toImport[k] \in Packets
    BY <1>1
  <2> QED
    BY <2>1 DEF Packets
<1>5. \A k \in 1 .. Len(toExport) : toExport[k] \in Slots
  BY <1>1
<1>6. Carried'
  <2>1. \A k \in 1 .. Len(toImport') :
          /\ SQ[toImport'[k].sequence].status # "ack"
          /\ SQ[toImport'[k].sequence].m = toImport'[k].m
    BY <1>2, <1>4 DEF Carried
  <2>2. \A k \in 1 .. Len(toExport') :
          /\ SQ[toExport'[k]].status # "ack"
          /\ \/ SQ[toExport'[k]].m \in got' \cup Gone'
             \/ receiver'.pc = "acked" /\ receiver'.m = SQ[toExport'[k]].m
    BY <1>3 DEF Carried
  <2>3. \A s \in Slots : ~Unsent(s) => ~Unsent(s)'
    OBVIOUS
  <2> QED
    BY <1>2, <1>3, <1>4, <1>5, <2>1, <2>2, <2>3 DEF Carried
<1>7. Once'
  BY <1>2, <1>3 DEF Once
<1> QED
  BY <1>2, <1>3, <1>6, <1>7

(* Nothing is forgotten if OutQueue and the slots that wait stay.          *)
LEMMA NothingLost ==
  ASSUME Types, AllKept, UNCHANGED <<stacked, OutQueue, receiver, got, Gone>>,
         \A s \in Slots : SQ[s].status # "ack" => SQ'[s].status # "ack" /\ SQ'[s].m = SQ[s].m,
         sender.pc \in {"taken", "filled"} =>
           /\ SendSequence' = SendSequence /\ SQ'[SendSequence].m = SQ[SendSequence].m
           /\ sender'.pc \in {"taken", "filled"} \/ SQ'[SendSequence].status # "ack"
  PROVE  AllKept'
<1> SUFFICES ASSUME NEW m \in 1 .. stacked
             PROVE  \/ m \in got \cup Gone
                    \/ m \in Range(OutQueue)
                    \/ \E s \in Slots : SQ'[s].m = m /\ SQ'[s].status # "ack"
                    \/ sender'.pc \in {"taken", "filled"} /\ SQ'[SendSequence'].m = m
                    \/ receiver = [pc |-> "acked", m |-> m]
  BY Zenon DEF AllKept, Kept
<1>1. SendSequence \in Slots
  BY DEF Types
<1>2. CASE \E s \in Slots : SQ[s].m = m /\ SQ[s].status # "ack"
  BY <1>2
<1>3. CASE sender.pc \in {"taken", "filled"} /\ SQ[SendSequence].m = m
  BY <1>1, <1>3
<1> QED
  BY <1>2, <1>3 DEF AllKept, Kept
-----------------------------------------------------------------------------
(* Each step of SocketSender.                                              *)

LEMMA SkipSafe ==
  ASSUME IInv, Skip, SenderRest
  PROVE  IInv'
<1> USE DEF IInv
<1>1. /\ sender' \in [pc : Places \cup {"off"}, i : 0 .. SendQueueLen]
      /\ sender.pc = "review"
      /\ \/ /\ sender.i < SendQueueLen /\ SQ[Reviewed(sender.i)].status = "ack"
            /\ sender'.pc = "review" /\ sender'.i = sender.i + 1
         \/ sender.i = SendQueueLen /\ sender'.pc = "top" /\ sender'.i = 0
  BY SenderTypes DEF Types, Skip, Unacked, At, Places
<1>2. UNCHANGED <<SendSequence, SQ, main, OutQueue, linked, toImport, toExport, Sd,
                 receiver, got, stacked, Gone>>
  BY DEF Skip, SenderRest, import, history, fates, Gone, net, queues
<1>3. Types'
  BY <1>1, <1>2, SenderTypes DEF Types, Places
<1>4. Connections'
  BY <1>1, <1>2 DEF Connections, At
<1>5. \A s \in Slots : SQ'[s].status = "new" => New(s)'
  BY <1>1, <1>2, SenderTypes DEF Marked, Placed, Numbered, OwnNumbers, New, At
<1>6. Marked'
  BY <1>1, <1>2, <1>5, SenderTypes DEF Marked, Placed, Numbered, OwnNumbers, At, Reviewed
<1>7. \A s \in Slots : SQ[s].status # "ack" /\ ~Unsent(s) =>
        SQ'[s].status # "ack" /\ SQ'[s].m = SQ[s].m /\ ~Unsent(s)'
  BY <1>1, <1>2, SenderTypes DEF Marked, Placed, Numbered, OwnNumbers, Unsent, At
<1>8. Carried' /\ Once'
  BY <1>2, <1>7, CarriedStays
<1>9. AllKept'
  BY <1>1, <1>2, NothingLost DEF Marked, Placed, Numbered, OwnNumbers
<1> QED
  BY <1>3, <1>4, <1>6, <1>8, <1>9

LEMMA MarkResentSafe ==
  ASSUME IInv, MarkResent, SenderRest
  PROVE  IInv'
<1> USE DEF IInv
<1>1. /\ sender' \in [pc : Places \cup {"off"}, i : 0 .. SendQueueLen]
      /\ SQ' \in SlotTypes
      /\ \A t \in Slots : t # Reviewed(sender.i) => SQ'[t] = SQ[t]
      /\ Reviewed(sender.i) \in Slots
      /\ SQ'[Reviewed(sender.i)].status = "sent"
      /\ SQ'[Reviewed(sender.i)].m = SQ[Reviewed(sender.i)].m
      /\ SQ'[Reviewed(sender.i)].sequence = Reviewed(sender.i)
      /\ sender.i < SendQueueLen
      /\ sender.pc = "resent" /\ sender'.pc = "review" /\ sender'.i = sender.i + 1
  <2>1. /\ SQ \in SlotTypes /\ Reviewed(sender.i) \in Slots
        /\ SQ' = [SQ EXCEPT ![Reviewed(sender.i)].status = "sent"]
    BY SenderTypes DEF Types, Marked, Placed, Numbered, OwnNumbers, MarkResent, At, Places
  <2>2. /\ SQ' \in SlotTypes
        /\ \A t \in Slots : t # Reviewed(sender.i) => SQ'[t] = SQ[t]
        /\ SQ'[Reviewed(sender.i)].m = SQ[Reviewed(sender.i)].m
        /\ SQ'[Reviewed(sender.i)].status = "sent"
        /\ SQ'[Reviewed(sender.i)].sequence = SQ[Reviewed(sender.i)].sequence
    BY <2>1 DEF SlotTypes
  <2> QED
    BY <2>1, <2>2, SenderTypes DEF Types, Marked, Placed, Numbered, OwnNumbers, MarkResent,
       At, Places
<1>2. UNCHANGED <<SendSequence, main, OutQueue, linked, toImport, toExport, Sd,
                 receiver, got, stacked, Gone>>
  BY DEF MarkResent, SenderRest, import, history, fates, Gone, net, queues
<1>3. Types'
  BY <1>1, <1>2, SenderTypes DEF Types, Places
<1>4. Connections'
  BY <1>1, <1>2 DEF Connections, At
<1>5. \A s \in Slots : SQ'[s].status = "new" => New(s)'
  BY <1>1, <1>2, SenderTypes DEF Marked, Placed, Numbered, OwnNumbers, New, At
<1>6. Marked'
  BY <1>1, <1>2, <1>5, SenderTypes DEF Marked, Placed, Numbered, OwnNumbers, At, Reviewed
<1>7. \A s \in Slots : SQ[s].status # "ack" /\ ~Unsent(s) =>
        SQ'[s].status # "ack" /\ SQ'[s].m = SQ[s].m /\ ~Unsent(s)'
  BY <1>1, <1>2, SenderTypes DEF Marked, Placed, Numbered, OwnNumbers, Unsent, At
<1>8. Carried' /\ Once'
  BY <1>2, <1>7, CarriedStays
<1>9. AllKept'
  BY <1>1, <1>2, NothingLost DEF Marked, Placed, Numbered, OwnNumbers
<1> QED
  BY <1>3, <1>4, <1>6, <1>8, <1>9

LEMMA BeatFailsSafe ==
  ASSUME IInv, BeatFails, SenderRest
  PROVE  IInv'
<1> USE DEF IInv
<1>1. /\ sender' \in [pc : Places \cup {"off"}, i : 0 .. SendQueueLen]
      /\ sender.pc \in {"top", "none", "taken"} /\ sender'.i = sender.i
      /\ sender'.pc \in {"off", "wait", "top", "filled"}
      /\ sender'.pc = "filled" <=> sender.pc = "taken"
  BY SenderTypes DEF Types, BeatFails, Fails, At, Goto, Places
<1>2. UNCHANGED <<SendSequence, SQ, main, OutQueue, linked, toImport, toExport, Sd,
                 receiver, got, stacked, Gone>>
  BY DEF BeatFails, Fails, SenderRest, import, history, fates, Gone, net, queues
<1>3. Types'
  BY <1>1, <1>2, SenderTypes DEF Types, Places
<1>4. Connections'
  BY <1>1, <1>2 DEF Connections, At
<1>5. \A s \in Slots : SQ'[s].status = "new" => New(s)'
  BY <1>1, <1>2, SenderTypes DEF Marked, Placed, Numbered, OwnNumbers, New, At
<1>6. Marked'
  BY <1>1, <1>2, <1>5, SenderTypes DEF Marked, Placed, Numbered, OwnNumbers, At, Reviewed
<1>7. \A s \in Slots : SQ[s].status # "ack" /\ ~Unsent(s) =>
        SQ'[s].status # "ack" /\ SQ'[s].m = SQ[s].m /\ ~Unsent(s)'
  BY <1>1, <1>2, SenderTypes DEF Marked, Placed, Numbered, OwnNumbers, Unsent, At
<1>8. Carried' /\ Once'
  BY <1>2, <1>7, CarriedStays
<1>9. AllKept'
  BY <1>1, <1>2, NothingLost DEF Marked, Placed, Numbered, OwnNumbers
<1> QED
  BY <1>3, <1>4, <1>6, <1>8, <1>9

LEMMA WaitSafe ==
  ASSUME IInv, Wait, SenderRest
  PROVE  IInv'
<1> USE DEF IInv
<1>1. /\ sender' \in [pc : Places \cup {"off"}, i : 0 .. SendQueueLen]
      /\ sender.pc \in {"top", "none", "taken"} /\ sender'.i = sender.i
      /\ sender'.pc \in {"off", "wait", "top", "filled"}
      /\ sender'.pc = "filled" <=> sender.pc = "taken"
  BY SenderTypes DEF Types, Wait, Fails, At, Goto, Places
<1>2. UNCHANGED <<SendSequence, SQ, main, OutQueue, linked, toImport, toExport, Sd,
                 receiver, got, stacked, Gone>>
  BY DEF Wait, SenderRest, import, history, fates, Gone, net, queues
<1>3. Types'
  BY <1>1, <1>2, SenderTypes DEF Types, Places
<1>4. Connections'
  BY <1>1, <1>2 DEF Connections, At
<1>5. \A s \in Slots : SQ'[s].status = "new" => New(s)'
  BY <1>1, <1>2, SenderTypes DEF Marked, Placed, Numbered, OwnNumbers, New, At
<1>6. Marked'
  BY <1>1, <1>2, <1>5, SenderTypes DEF Marked, Placed, Numbered, OwnNumbers, At, Reviewed
<1>7. \A s \in Slots : SQ[s].status # "ack" /\ ~Unsent(s) =>
        SQ'[s].status # "ack" /\ SQ'[s].m = SQ[s].m /\ ~Unsent(s)'
  BY <1>1, <1>2, SenderTypes DEF Marked, Placed, Numbered, OwnNumbers, Unsent, At
<1>8. Carried' /\ Once'
  BY <1>2, <1>7, CarriedStays
<1>9. AllKept'
  BY <1>1, <1>2, NothingLost DEF Marked, Placed, Numbered, OwnNumbers
<1> QED
  BY <1>3, <1>4, <1>6, <1>8, <1>9

LEMMA UnlockSafe ==
  ASSUME IInv, Unlock, SenderRest
  PROVE  IInv'
<1> USE DEF IInv
<1>1. /\ sender' \in [pc : Places \cup {"off"}, i : 0 .. SendQueueLen]
      /\ sender.pc \in {"top", "none", "taken"} /\ sender'.i = sender.i
      /\ sender'.pc \in {"off", "wait", "top", "filled"}
      /\ sender'.pc = "filled" <=> sender.pc = "taken"
  BY SenderTypes DEF Types, Unlock, Fails, At, Goto, Places
<1>2. UNCHANGED <<SendSequence, SQ, main, OutQueue, linked, toImport, toExport, Sd,
                 receiver, got, stacked, Gone>>
  BY DEF Unlock, SenderRest, import, history, fates, Gone, net, queues
<1>3. Types'
  BY <1>1, <1>2, SenderTypes DEF Types, Places
<1>4. Connections'
  BY <1>1, <1>2 DEF Connections, At
<1>5. \A s \in Slots : SQ'[s].status = "new" => New(s)'
  BY <1>1, <1>2, SenderTypes DEF Marked, Placed, Numbered, OwnNumbers, New, At
<1>6. Marked'
  BY <1>1, <1>2, <1>5, SenderTypes DEF Marked, Placed, Numbered, OwnNumbers, At, Reviewed
<1>7. \A s \in Slots : SQ[s].status # "ack" /\ ~Unsent(s) =>
        SQ'[s].status # "ack" /\ SQ'[s].m = SQ[s].m /\ ~Unsent(s)'
  BY <1>1, <1>2, SenderTypes DEF Marked, Placed, Numbered, OwnNumbers, Unsent, At
<1>8. Carried' /\ Once'
  BY <1>2, <1>7, CarriedStays
<1>9. AllKept'
  BY <1>1, <1>2, NothingLost DEF Marked, Placed, Numbered, OwnNumbers
<1> QED
  BY <1>3, <1>4, <1>6, <1>8, <1>9

LEMMA MarkNewSafe ==
  ASSUME IInv, MarkNew, SenderRest
  PROVE  IInv'
<1> USE DEF IInv
<1>1. /\ sender' \in [pc : Places \cup {"off"}, i : 0 .. SendQueueLen]
      /\ SQ' \in SlotTypes
      /\ \A t \in Slots : t # SendSequence => SQ'[t] = SQ[t]
      /\ SendSequence \in Slots
      /\ SQ'[SendSequence].status = "new"
      /\ SQ'[SendSequence].m = SQ[SendSequence].m
      /\ SQ'[SendSequence].sequence = SQ[SendSequence].sequence
      /\ sender.pc = "filled" /\ sender'.pc = "new" /\ sender'.i = sender.i
  <2>1. /\ SQ \in SlotTypes /\ SendSequence \in Slots
        /\ SQ' = [SQ EXCEPT ![SendSequence].status = "new"]
    BY SenderTypes DEF Types, MarkNew, At, Goto, Places
  <2>2. /\ SQ' \in SlotTypes
        /\ \A t \in Slots : t # SendSequence => SQ'[t] = SQ[t]
        /\ SQ'[SendSequence].m = SQ[SendSequence].m
        /\ SQ'[SendSequence].status = "new"
        /\ SQ'[SendSequence].sequence = SQ[SendSequence].sequence
    BY <2>1 DEF SlotTypes
  <2> QED
    BY <2>1, <2>2, SenderTypes DEF Types, MarkNew, At, Goto, Places
<1>2. UNCHANGED <<SendSequence, main, OutQueue, linked, toImport, toExport, Sd,
                 receiver, got, stacked, Gone>>
  BY DEF MarkNew, SenderRest, import, history, fates, Gone, net, queues
<1>3. Types'
  BY <1>1, <1>2, SenderTypes DEF Types, Places
<1>4. Connections'
  BY <1>1, <1>2 DEF Connections, At
<1>5. \A s \in Slots : SQ'[s].status = "new" => New(s)'
  BY <1>1, <1>2, SenderTypes DEF Marked, Placed, Numbered, OwnNumbers, New, At
<1>6. Marked'
  BY <1>1, <1>2, <1>5, SenderTypes DEF Marked, Placed, Numbered, OwnNumbers, At, Reviewed
<1>7. \A s \in Slots : SQ[s].status # "ack" /\ ~Unsent(s) =>
        SQ'[s].status # "ack" /\ SQ'[s].m = SQ[s].m /\ ~Unsent(s)'
  BY <1>1, <1>2, SenderTypes DEF Marked, Placed, Numbered, OwnNumbers, Unsent, At
<1>8. Carried' /\ Once'
  BY <1>2, <1>7, CarriedStays
<1>9. AllKept'
  BY <1>1, <1>2, NothingLost DEF Marked, Placed, Numbered, OwnNumbers
<1> QED
  BY <1>3, <1>4, <1>6, <1>8, <1>9

LEMMA NumberSafe ==
  ASSUME IInv, Number, SenderRest
  PROVE  IInv'
<1> USE DEF IInv
<1>1. /\ sender' \in [pc : Places \cup {"off"}, i : 0 .. SendQueueLen]
      /\ SQ' \in SlotTypes
      /\ \A t \in Slots : t # SendSequence => SQ'[t] = SQ[t]
      /\ SendSequence \in Slots
      /\ SQ'[SendSequence].status = SQ[SendSequence].status
      /\ SQ'[SendSequence].m = SQ[SendSequence].m
      /\ SQ'[SendSequence].sequence = SendSequence
      /\ sender.pc = "new" /\ sender'.pc = "numbered" /\ sender'.i = sender.i
  <2>1. /\ SQ \in SlotTypes /\ SendSequence \in Slots
        /\ SQ' = [SQ EXCEPT ![SendSequence].sequence = SendSequence]
    BY SenderTypes DEF Types, Number, At, Goto, Places
  <2>2. /\ SQ' \in SlotTypes
        /\ \A t \in Slots : t # SendSequence => SQ'[t] = SQ[t]
        /\ SQ'[SendSequence].m = SQ[SendSequence].m
        /\ SQ'[SendSequence].sequence = SendSequence
        /\ SQ'[SendSequence].status = SQ[SendSequence].status
    BY <2>1 DEF SlotTypes
  <2> QED
    BY <2>1, <2>2, SenderTypes DEF Types, Number, At, Goto, Places
<1>2. UNCHANGED <<SendSequence, main, OutQueue, linked, toImport, toExport, Sd,
                 receiver, got, stacked, Gone>>
  BY DEF Number, SenderRest, import, history, fates, Gone, net, queues
<1>3. Types'
  BY <1>1, <1>2, SenderTypes DEF Types, Places
<1>4. Connections'
  BY <1>1, <1>2 DEF Connections, At
<1>5. \A s \in Slots : SQ'[s].status = "new" => New(s)'
  BY <1>1, <1>2, SenderTypes DEF Marked, Placed, Numbered, OwnNumbers, New, At
<1>6. Marked'
  BY <1>1, <1>2, <1>5, SenderTypes DEF Marked, Placed, Numbered, OwnNumbers, At, Reviewed
<1>7. \A s \in Slots : SQ[s].status # "ack" /\ ~Unsent(s) =>
        SQ'[s].status # "ack" /\ SQ'[s].m = SQ[s].m /\ ~Unsent(s)'
  BY <1>1, <1>2, SenderTypes DEF Marked, Placed, Numbered, OwnNumbers, Unsent, At
<1>8. Carried' /\ Once'
  BY <1>2, <1>7, CarriedStays
<1>9. AllKept'
  BY <1>1, <1>2, NothingLost DEF Marked, Placed, Numbered, OwnNumbers
<1> QED
  BY <1>3, <1>4, <1>6, <1>8, <1>9

LEMMA AdvanceSafe ==
  ASSUME IInv, Advance, SenderRest
  PROVE  IInv'
<1> USE DEF IInv
<1>1. /\ sender' \in [pc : Places \cup {"off"}, i : 0 .. SendQueueLen]
      /\ SendSequence \in Slots /\ SendSequence' \in Slots
      /\ SendSequence \in 0 .. SendQueueLen
      /\ SQ[SendSequence].status # "ack"
      /\ sender.pc = "numbered" /\ sender'.pc = "send" /\ sender'.i = SendSequence
  <2>1. SendSequence \in Slots /\ SendQueueLen \in Nat \ {0}
    BY ExportAssumption, SenderTypes DEF Types
  <2>2. /\ SendSequence' = (SendSequence + 1) % SendQueueLen
        /\ sender.pc = "numbered"
        /\ sender' = [pc |-> "send", i |-> SendSequence]
    BY DEF Advance, At
  <2>3. SendSequence' \in Slots /\ SendSequence \in 0 .. SendQueueLen
    BY <2>1, <2>2 DEF Slots
  <2>4. sender' \in [pc : Places \cup {"off"}, i : 0 .. SendQueueLen]
    BY <2>2, <2>3 DEF Places
  <2>5. SQ[SendSequence].status # "ack"
    BY <2>1, <2>2 DEF Marked, Placed, Numbered, At
  <2> QED
    BY <2>1, <2>2, <2>3, <2>4, <2>5
<1>2. UNCHANGED <<SQ, main, OutQueue, linked, toImport, toExport, Sd, receiver, got,
                 stacked, Gone>>
  BY DEF Advance, SenderRest, import, history, fates, Gone, net, queues
<1>3. Types'
  BY <1>1, <1>2, SenderTypes DEF Types, Places
<1>4. Connections'
  BY <1>1, <1>2 DEF Connections, At
<1>5. \A s \in Slots : SQ'[s].status = "new" => New(s)'
  BY <1>1, <1>2, SenderTypes DEF Marked, Placed, Numbered, OwnNumbers, New, At
<1>6. Marked'
  BY <1>1, <1>2, <1>5, SenderTypes DEF Marked, Placed, Numbered, OwnNumbers, At, Reviewed
<1>7. \A s \in Slots : SQ[s].status # "ack" /\ ~Unsent(s) =>
        SQ'[s].status # "ack" /\ SQ'[s].m = SQ[s].m /\ ~Unsent(s)'
  BY <1>1, <1>2, SenderTypes DEF Marked, Placed, Numbered, OwnNumbers, Unsent, At
<1>8. Carried' /\ Once'
  BY <1>2, <1>7, CarriedStays
<1>9. AllKept'
  BY <1>1, <1>2, NothingLost DEF Marked, Placed, Numbered, OwnNumbers
<1> QED
  BY <1>3, <1>4, <1>6, <1>8, <1>9

LEMMA MarkSentSafe ==
  ASSUME IInv, MarkSent, SenderRest
  PROVE  IInv'
<1> USE DEF IInv
<1>1. /\ sender' \in [pc : Places \cup {"off"}, i : 0 .. SendQueueLen]
      /\ SQ' \in SlotTypes
      /\ \A t \in Slots : t # sender.i => SQ'[t] = SQ[t]
      /\ sender.i \in Slots
      /\ SQ'[sender.i].status = "sent"
      /\ SQ'[sender.i].m = SQ[sender.i].m
      /\ SQ'[sender.i].sequence = sender.i
      /\ sender.pc = "sent" /\ sender'.pc = "top" /\ sender'.i = 0
  <2>1. /\ SQ \in SlotTypes /\ sender.i \in Slots
        /\ SQ' = [SQ EXCEPT ![sender.i].status = "sent"]
    BY SenderTypes DEF Types, Marked, Placed, Numbered, OwnNumbers, MarkSent, At, Places
  <2>2. /\ SQ' \in SlotTypes
        /\ \A t \in Slots : t # sender.i => SQ'[t] = SQ[t]
        /\ SQ'[sender.i].m = SQ[sender.i].m
        /\ SQ'[sender.i].status = "sent"
        /\ SQ'[sender.i].sequence = SQ[sender.i].sequence
    BY <2>1 DEF SlotTypes
  <2> QED
    BY <2>1, <2>2, SenderTypes DEF Types, Marked, Placed, Numbered, OwnNumbers, MarkSent,
       At, Places
<1>2. UNCHANGED <<SendSequence, main, OutQueue, linked, toImport, toExport, Sd,
                 receiver, got, stacked, Gone>>
  BY DEF MarkSent, SenderRest, import, history, fates, Gone, net, queues
<1>3. Types'
  BY <1>1, <1>2, SenderTypes DEF Types, Places
<1>4. Connections'
  BY <1>1, <1>2 DEF Connections, At
<1>5. \A s \in Slots : SQ'[s].status = "new" => New(s)'
  BY <1>1, <1>2, SenderTypes DEF Marked, Placed, Numbered, OwnNumbers, New, At
<1>6. Marked'
  BY <1>1, <1>2, <1>5, SenderTypes DEF Marked, Placed, Numbered, OwnNumbers, At, Reviewed
<1>7. \A s \in Slots : SQ[s].status # "ack" /\ ~Unsent(s) =>
        SQ'[s].status # "ack" /\ SQ'[s].m = SQ[s].m /\ ~Unsent(s)'
  BY <1>1, <1>2, SenderTypes DEF Marked, Placed, Numbered, OwnNumbers, Unsent, At
<1>8. Carried' /\ Once'
  BY <1>2, <1>7, CarriedStays
<1>9. AllKept'
  BY <1>1, <1>2, NothingLost DEF Marked, Placed, Numbered, OwnNumbers
<1> QED
  BY <1>3, <1>4, <1>6, <1>8, <1>9
LEMMA ResendSafe ==
  ASSUME IInv, Resend, SenderRest
  PROVE  IInv'
<1> USE DEF IInv
<1>0. PICK s \in Slots :
        /\ s = Reviewed(sender.i) /\ sender.i < SendQueueLen
        /\ SQ[s].status # "ack" /\ SQ[s].sequence = s
        /\ sender.pc = "review" /\ sender'.i = sender.i /\ sender'.pc \in {"off", "resent"}
        /\ sender' \in [pc : Places \cup {"off"}, i : 0 .. SendQueueLen]
  BY SenderTypes DEF Types, Marked, Placed, Numbered, OwnNumbers, Resend, SendPacket,
     Fails, Unacked, Places, At,
     Goto, SenderRest, import, history, fates, Gone, net, queues, state
<1>1. UNCHANGED <<main, recvStatus, recv, SQ, SendSequence, OutQueue, mutex, linked,
                  toExport,
                  Sd, receiver, got, stacked, Gone, breaks>>
  BY DEF Resend, SendPacket, Fails, At, Goto, SenderRest, import, history, fates, Gone,
     net, queues,
     state
<1>2. Unsent(s) /\ ~Unsent(s)' /\ \A t \in Slots : ~Unsent(t) => ~Unsent(t)'
  BY <1>0, <1>1, SenderTypes DEF Unsent, At
<1>3. \/ toImport' = toImport
      \/ /\ linked
         /\ toImport' = Append(toImport, [m |-> SQ[s].m, sequence |-> SQ[s].sequence])
  BY <1>0 DEF Resend, SendPacket, Fails
<1>4. toImport' \in Seq(Packets) /\ Carried' /\ Once'
  <2>1. CASE toImport' = toImport
    BY <1>1, <1>2, <2>1, CarriedStays DEF Types
  <2>2. CASE toImport' # toImport
    BY <1>0, <1>1, <1>2, <1>3, <2>2, PacketSent
  <2> QED
    BY <2>1, <2>2
<1>5. Types'
  BY <1>0, <1>1, <1>4 DEF Types
<1>6. Connections'
  BY <1>0, <1>1, <1>3 DEF Connections, At
<1>7. Marked'
  <2>1. \A t \in Slots : SQ[t].status = "new" => New(t)'
    BY <1>0, <1>1 DEF Marked, Placed, Numbered, OwnNumbers, New, At
  <2> QED
    BY <1>0, <1>1, <2>1, SenderTypes DEF Marked, Placed, Numbered, OwnNumbers, At, Reviewed
<1>8. AllKept'
  BY <1>0, <1>1, NothingLost
<1> QED
  BY <1>4, <1>5, <1>6, <1>7, <1>8

LEMMA SendSafe ==
  ASSUME IInv, Send, SenderRest
  PROVE  IInv'
<1> USE DEF IInv
<1>0. PICK s \in Slots :
        /\ s = sender.i
        /\ SQ[s].status # "ack" /\ SQ[s].sequence = s
        /\ sender.pc = "send" /\ sender'.i = sender.i /\ sender'.pc \in {"off", "sent"}
        /\ sender' \in [pc : Places \cup {"off"}, i : 0 .. SendQueueLen]
  BY SenderTypes DEF Types, Marked, Placed, Numbered, OwnNumbers, Send, SendPacket, Fails,
     Unacked, Places, At, Goto,
     SenderRest, import, history, fates, Gone, net, queues, state
<1>1. UNCHANGED <<main, recvStatus, recv, SQ, SendSequence, OutQueue, mutex, linked,
                  toExport,
                  Sd, receiver, got, stacked, Gone, breaks>>
  BY DEF Send, SendPacket, Fails, At, Goto, SenderRest, import, history, fates, Gone, net,
     queues,
     state
<1>2. Unsent(s) /\ ~Unsent(s)' /\ \A t \in Slots : ~Unsent(t) => ~Unsent(t)'
  BY <1>0, <1>1, SenderTypes DEF Unsent, At
<1>3. \/ toImport' = toImport
      \/ /\ linked
         /\ toImport' = Append(toImport, [m |-> SQ[s].m, sequence |-> SQ[s].sequence])
  BY <1>0 DEF Send, SendPacket, Fails
<1>4. toImport' \in Seq(Packets) /\ Carried' /\ Once'
  <2>1. CASE toImport' = toImport
    BY <1>1, <1>2, <2>1, CarriedStays DEF Types
  <2>2. CASE toImport' # toImport
    BY <1>0, <1>1, <1>2, <1>3, <2>2, PacketSent
  <2> QED
    BY <2>1, <2>2
<1>5. Types'
  BY <1>0, <1>1, <1>4 DEF Types
<1>6. Connections'
  BY <1>0, <1>1, <1>3 DEF Connections, At
<1>7. Marked'
  <2>1. \A t \in Slots : SQ[t].status = "new" => New(t)'
    BY <1>0, <1>1 DEF Marked, Placed, Numbered, OwnNumbers, New, At
  <2> QED
    BY <1>0, <1>1, <2>1, SenderTypes DEF Marked, Placed, Numbered, OwnNumbers, At, Reviewed
<1>8. AllKept'
  BY <1>0, <1>1, NothingLost
<1> QED
  BY <1>4, <1>5, <1>6, <1>7, <1>8

LEMMA DequeueSafe ==
  ASSUME IInv, Dequeue, SenderRest
  PROVE  IInv'
<1> USE DEF IInv
<1>1. /\ SendSequence \in Slots /\ SQ \in SlotTypes /\ OutQueue \in Seq(Msgs)
      /\ SQ[SendSequence].status = "ack" /\ sender.pc \in {"top", "wait"}
      /\ \A s \in Slots : SQ[s].status # "new"
  BY DEF Types, SlotTypes, Marked, Placed, Numbered, OwnNumbers, Dequeue, SlotFree, New, At
<1>2. /\ sender'.i = sender.i /\ sender'.pc \in {"none", "taken"}
      /\ sender' \in [pc : Places \cup {"off"}, i : 0 .. SendQueueLen]
      /\ UNCHANGED <<main, SendSequence, linked, toImport, toExport, Sd, receiver,
                     got, stacked, Gone>>
  BY DEF Types, Dequeue, Places, At, Goto, SenderRest, import, history, fates, Gone, net,
     queues, state
<1>3. /\ SQ' \in SlotTypes /\ OutQueue' \in Seq(Msgs)
      /\ \A t \in Slots : t # SendSequence => SQ'[t] = SQ[t]
      /\ SQ'[SendSequence].status = "ack"
      /\ SQ'[SendSequence].sequence = SQ[SendSequence].sequence
      /\ \/ UNCHANGED OutQueue
         \/ /\ OutQueue # <<>> /\ OutQueue' = Tail(OutQueue)
            /\ sender'.pc = "taken" /\ SQ'[SendSequence].m = Head(OutQueue)
  <2>1. CASE OutQueue = <<>>
    BY <1>1, <2>1 DEF Dequeue
  <2>2. CASE OutQueue # <<>>
    <3>1. PICK x \in 0 .. MaxMsgs : x = Head(OutQueue) /\ Tail(OutQueue) \in Seq(Msgs)
      BY <1>1, <2>2, TailElements, ExportAssumption DEF Msgs
    <3>2. /\ SQ' = [SQ EXCEPT ![SendSequence].m = x]
          /\ OutQueue' = Tail(OutQueue) /\ sender'.pc = "taken"
      BY <2>2, <3>1 DEF Types, Dequeue, Goto
    <3>3. SQ \in SlotTypes /\ SendSequence \in Slots
      BY <1>1
    <3>4. /\ SQ' \in SlotTypes
          /\ \A t \in Slots : t # SendSequence => SQ'[t] = SQ[t]
          /\ SQ'[SendSequence].status = SQ[SendSequence].status
          /\ SQ'[SendSequence].sequence = SQ[SendSequence].sequence
          /\ SQ'[SendSequence].m = x
      <4> DEFINE r == [SQ[SendSequence] EXCEPT !.m = x]
      <4>1. SQ[SendSequence] \in [m : 0 .. MaxMsgs, sequence : Slots,
                                  status : {"new", "sent", "ack"}]
        BY <3>3 DEF SlotTypes
      <4>2. /\ r \in [m : 0 .. MaxMsgs, sequence : Slots,
                      status : {"new", "sent", "ack"}]
            /\ r.status = SQ[SendSequence].status /\ r.m = x
            /\ r.sequence = SQ[SendSequence].sequence
        BY <3>1, <4>1
      <4>3. SQ' = [SQ EXCEPT ![SendSequence] = r]
        BY <3>2
      <4> HIDE DEF r
      <4> QED
        BY <3>3, <4>2, <4>3 DEF SlotTypes
    <3> QED
      BY <1>1, <2>2, <3>1, <3>2, <3>4
  <2> QED
    BY <2>1, <2>2
<1>4. Types'
  BY <1>1, <1>2, <1>3 DEF Types
<1>5. Connections'
  BY <1>1, <1>2 DEF Connections, At
<1>6. Marked'
  BY <1>1, <1>2, <1>3 DEF Marked, Placed, Numbered, OwnNumbers, New, At
<1>7. \A s \in Slots : SQ[s].status # "ack" /\ ~Unsent(s) =>
        SQ'[s].status # "ack" /\ SQ'[s].m = SQ[s].m /\ ~Unsent(s)'
  BY <1>1, <1>2, <1>3 DEF Unsent, At
<1>8. Carried' /\ Once'
  BY <1>2, <1>7, CarriedStays
<1>9. AllKept'
  <2>1. \A m \in Range(OutQueue) : \/ m \in Range(OutQueue')
                                   \/ sender'.pc = "taken" /\ SQ'[SendSequence].m = m
    BY <1>1, <1>3, RangeTail
  <2>2. \A s \in Slots : SQ[s].status # "ack" => SQ'[s] = SQ[s]
    BY <1>1, <1>3
  <2> QED
    BY <1>1, <1>2, <2>1, <2>2 DEF AllKept, Kept
<1> QED
  BY <1>4, <1>5, <1>6, <1>8, <1>9

LEMMA SenderStep ==
  ASSUME IInv, SocketSender
  PROVE  IInv'
BY SkipSafe, ResendSafe, MarkResentSafe, BeatFailsSafe, WaitSafe, DequeueSafe, UnlockSafe,
   MarkNewSafe, NumberSafe, AdvanceSafe, SendSafe, MarkSentSafe DEF SocketSender
-----------------------------------------------------------------------------
(* SocketRecv.                                                             *)

(* The numbers of slots fit SQ.                                            *)
LEMMA OwnNumber == \A s \in Slots : s % SendQueueLen = s
BY ExportAssumption DEF Slots

LEMMA AcknowledgedSafe ==
  ASSUME IInv, Acknowledged,
         UNCHANGED <<main, senderStatus, sender, SendSequence, OutQueue, mutex,
                     linked, toImport, import, history>>
  PROVE  IInv'
<1> USE DEF IInv
<1>1. /\ SQ \in SlotTypes /\ toExport \in Seq(Slots) /\ toExport # <<>>
      /\ toImport \in Seq(Packets)
  BY DEF Types, Acknowledged
<1>2. /\ Tail(toExport) \in Seq(Slots) /\ Head(toExport) = toExport[1]
      /\ Head(toExport) \in Slots
      /\ Len(toExport) \in Nat /\ 1 \in 1 .. Len(toExport)
      /\ \A k \in 1 .. Len(Tail(toExport)) : /\ k \in Nat /\ k > 0
                                             /\ k + 1 \in 1 .. Len(toExport)
                                             /\ Tail(toExport)[k] = toExport[k + 1]
  BY <1>1, TailElements
<1>3. PICK a \in Slots : a = toExport[1] /\ a = Head(toExport) /\ a % SendQueueLen = a
  BY <1>2, OwnNumber
<1>4. /\ SQ' = [SQ EXCEPT ![a].status = "ack"]
      /\ toExport' = Tail(toExport)
      /\ UNCHANGED <<main, sender, SendSequence, OutQueue, linked, toImport,
                     Sd, receiver, got, stacked, Gone>>
  BY <1>3 DEF Acknowledged, import, history, fates, Gone
<1>5. /\ SQ' \in SlotTypes
      /\ \A t \in Slots : t # a => SQ'[t] = SQ[t]
      /\ SQ'[a].status = "ack" /\ SQ'[a].m = SQ[a].m /\ SQ'[a].sequence = SQ[a].sequence
  BY <1>1, <1>3, <1>4 DEF SlotTypes
<1>6. /\ SQ[a].status # "ack" /\ ~Unsent(a)
      /\ SQ[a].m \in got \cup Gone \/ (receiver.pc = "acked" /\ receiver.m = SQ[a].m)
  BY <1>2, <1>3 DEF Carried
<1>7. Types'
  BY <1>2, <1>4, <1>5 DEF Types
<1>8. Connections'
  BY <1>4 DEF Connections, At
<1>9. Marked'
  <2>1. \A s \in Slots : New(s)' <=> New(s)
    BY <1>4 DEF New, At
  <2>2. sender.pc \in {"new", "numbered"} => SendSequence # a
    BY <1>6 DEF Unsent
  <2>3. At("send") => sender.i # a
    BY <1>6 DEF Unsent
  <2>4. sender.i < SendQueueLen => Reviewed(sender.i) \in Slots
    BY SenderTypes
  <2>5. SendSequence \in Slots
    BY DEF Types
  <2> QED
    BY <1>4, <1>5, <2>1, <2>2, <2>3, <2>4, <2>5 DEF Marked, Placed, Numbered, OwnNumbers,
       At, Reviewed
<1>10. Carried'
  <2>1. \A s \in Slots : Unsent(s)' <=> Unsent(s)
    BY <1>4 DEF Unsent, At
  <2>2. \A k \in 1 .. Len(toImport) : toImport[k].sequence \in Slots
                                      /\ toImport[k].sequence # a
    <3> TAKE k \in 1 .. Len(toImport)
    <3>1. toImport[k] \in Packets
      BY <1>1
    <3> QED
      BY <1>2, <1>3, <3>1 DEF Packets, Once
  <2>3. \A k \in 1 .. Len(toExport') :
          toExport'[k] \in Slots /\ toExport'[k] # a /\ k + 1 \in 1 .. Len(toExport)
          /\ toExport'[k] = toExport[k + 1]
    BY <1>1, <1>2, <1>3, <1>4 DEF Once
  <2>4. \A k \in 1 .. Len(toImport') :
          /\ SQ'[toImport'[k].sequence].status # "ack"
          /\ SQ'[toImport'[k].sequence].m = toImport'[k].m
          /\ ~Unsent(toImport[k].sequence)'
    BY <1>4, <1>5, <2>1, <2>2 DEF Carried
  <2>5. \A k \in 1 .. Len(toExport') :
          /\ SQ'[toExport'[k]].status # "ack"
          /\ ~Unsent(toExport[k])'
          /\ \/ SQ'[toExport'[k]].m \in got \cup Gone
             \/ receiver.pc = "acked" /\ receiver.m = SQ'[toExport'[k]].m
    BY <1>5, <2>1, <2>3 DEF Carried
  <2> QED
    BY <1>4, <2>4, <2>5 DEF Carried
<1>11. Once'
  <2>1. \A k \in 1 .. Len(toExport') : /\ k \in Nat /\ k + 1 \in 1 .. Len(toExport)
                                       /\ toExport'[k] = toExport[k + 1]
    BY <1>2, <1>4
  <2> QED
    BY <1>4, <2>1 DEF Once
<1>12. AllKept'
  <2>1. receiver.pc = "acked" => receiver = [pc |-> "acked", m |-> receiver.m]
    BY DEF Types
  <2>2. SendSequence \in Slots
    BY DEF Types
  <2>3. \A s \in Slots : SQ'[s].m = SQ[s].m
    BY <1>5
  <2> QED
    BY <1>4, <1>5, <1>6, <2>1, <2>2, <2>3 DEF AllKept, Kept
<1> QED
  BY <1>7, <1>8, <1>9, <1>10, <1>11, <1>12
-----------------------------------------------------------------------------
(* The other steps.                                                        *)

(* A step that leaves SocketSender and the slots alone.                    *)
LEMMA StepAround ==
  ASSUME IInv, UNCHANGED <<SQ, sender, SendSequence, OutQueue, stacked>>,
         toImport' \in Cut(toImport), toExport' \in Cut(toExport),
         main' \in {"accept", "sender", "recv", "watch"}, linked' \in BOOLEAN,
         Sd' \in {"closed", "queued", "open"},
         receiver' \in [pc : {"off", "read", "acked"}, m : 0 .. MaxMsgs],
         got \cup Gone \subseteq got' \cup Gone',
         receiver.pc = "acked" => receiver' = receiver \/ receiver.m \in got' \cup Gone',
         Connections'
  PROVE  IInv'
<1> USE DEF IInv
<1>1. \A s \in Slots : ~Unsent(s) => ~Unsent(s)'
  BY DEF Unsent, At
<1>2. /\ toImport' \in Seq(Packets) /\ toExport' \in Seq(Slots)
      /\ Carried' /\ Once'
  BY <1>1, CutCarried
<1>3. Types'
  BY <1>2 DEF Types
<1>4. Marked'
  BY DEF Marked, Placed, Numbered, OwnNumbers, New, At, Reviewed
<1>5. AllKept'
  BY DEF AllKept, Kept
<1> QED
  BY <1>2, <1>3, <1>4, <1>5

LEMMA RecvFailsSafe ==
  ASSUME IInv, RecvFails, UNCHANGED <<main, senderStatus, sender, SendSequence,
                                      OutQueue, mutex,
                     linked, toImport, import, history>>
  PROVE  IInv'
<1>1. /\ toImport \in Seq(Packets) /\ toExport \in Seq(Slots)
      /\ receiver \in [pc : {"off", "read", "acked"}, m : 0 .. MaxMsgs]
  BY DEF IInv, Types
<1>2. toImport \in Cut(toImport) /\ <<>> \in Cut(toImport)
  BY <1>1, CutWhole
<1>3. toExport \in Cut(toExport) /\ <<>> \in Cut(toExport)
  BY <1>1, CutWhole
<1>4. Connections
  BY DEF IInv
<1>5. /\ toImport' \in Cut(toImport) /\ toExport' \in Cut(toExport)
      /\ UNCHANGED <<SQ, sender, SendSequence, OutQueue, stacked>>
      /\ main' \in {"accept", "sender", "recv", "watch"} /\ linked' \in BOOLEAN
      /\ Sd' \in {"closed", "queued", "open"}
      /\ receiver' \in [pc : {"off", "read", "acked"}, m : 0 .. MaxMsgs]
  BY <1>1, <1>2, <1>3 DEF IInv, Types, RecvFails, import, history, fates, Gone
<1>6. /\ got \cup Gone \subseteq got' \cup Gone'
      /\ receiver.pc = "acked" => receiver' = receiver \/ receiver.m \in got' \cup Gone'
      /\ Connections'
  BY <1>1, <1>4 DEF RecvFails, Connections, At, import, history, fates, Gone
<1> QED
  BY <1>5, <1>6, StepAround

LEMMA RecvStep ==
  ASSUME IInv, SocketRecv
  PROVE  IInv'
BY AcknowledgedSafe, RecvFailsSafe DEF SocketRecv

LEMMA StackerStep ==
  ASSUME IInv, MessageStacker
  PROVE  IInv'
<1> USE DEF IInv
<1>1. /\ stacked \in 0 .. MaxMsgs - 1 /\ stacked' = stacked + 1 /\ OutQueue \in Seq(Msgs)
      /\ UNCHANGED <<SQ, sender, SendSequence, main, linked, toImport, toExport, Sd,
                     receiver,
                     got>>
  BY DEF Types, MessageStacker, state, net, import
<1>2. stacked' \in -1 .. MaxMsgs /\ stacked' \in Msgs
  BY <1>1, ExportAssumption DEF Msgs
<1>3. /\ OutQueue' \in Seq(Msgs) /\ Gone \subseteq Gone'
      /\ \A m \in Range(OutQueue) \cup {stacked'} : m \in Range(OutQueue') \/ m \in Gone'
  <2>1. CASE Len(OutQueue) = RingSize
    <3>1. OutQueue # <<>>
      BY <2>1, ExportAssumption
    <3>2. Tail(OutQueue) \in Seq(Msgs)
      BY <1>1, <3>1, TailElements
    <3>3. /\ OutQueue' = Append(Tail(OutQueue), stacked')
          /\ Gone' = Gone \cup {Head(OutQueue)}
      BY <2>1 DEF MessageStacker, Gone
    <3>4. OutQueue' \in Seq(Msgs)
      BY <1>2, <3>2, <3>3, AppendElements
    <3> QED
      BY <1>1, <1>2, <3>1, <3>2, <3>3, <3>4, RangeTail, RangeAppend
  <2>2. CASE Len(OutQueue) # RingSize
    <3>1. OutQueue' = Append(OutQueue, stacked') /\ Gone' = Gone
      BY <2>2 DEF MessageStacker, Gone
    <3> QED
      BY <1>1, <1>2, <3>1, AppendElements, RangeAppend
  <2> QED
    BY <2>1, <2>2
<1>4. Types'
  BY <1>1, <1>2, <1>3 DEF Types
<1>5. Connections'
  BY <1>1 DEF Connections, At
<1>6. Marked'
  BY <1>1 DEF Marked, Placed, Numbered, OwnNumbers, New, At, Reviewed
<1>7. Carried' /\ Once'
  <2>1. \A s \in Slots : ~Unsent(s) => ~Unsent(s)'
    BY <1>1 DEF Unsent, At
  <2>2. toImport \in Cut(toImport) /\ toExport \in Cut(toExport)
    BY CutWhole DEF Types
  <2> QED
    BY <1>1, <1>3, <2>1, <2>2, CutCarried
<1>8. AllKept'
  <2>1. \A m \in 1 .. stacked' : m \in 1 .. stacked \/ m = stacked'
    BY <1>1
  <2> QED
    BY <1>1, <1>3, <2>1 DEF AllKept, Kept
<1> QED
  BY <1>4, <1>5, <1>6, <1>7, <1>8

LEMMA BreakSafe ==
  ASSUME IInv, Break, TRUE
  PROVE  IInv'
<1>1. /\ toImport \in Seq(Packets) /\ toExport \in Seq(Slots)
      /\ receiver \in [pc : {"off", "read", "acked"}, m : 0 .. MaxMsgs]
  BY DEF IInv, Types
<1>2. toImport \in Cut(toImport) /\ <<>> \in Cut(toImport)
  BY <1>1, CutWhole
<1>3. toExport \in Cut(toExport) /\ <<>> \in Cut(toExport)
  BY <1>1, CutWhole
<1>4. Connections
  BY DEF IInv
<1>5. /\ toImport' \in Cut(toImport) /\ toExport' \in Cut(toExport)
      /\ UNCHANGED <<SQ, sender, SendSequence, OutQueue, stacked>>
      /\ main' \in {"accept", "sender", "recv", "watch"} /\ linked' \in BOOLEAN
      /\ Sd' \in {"closed", "queued", "open"}
      /\ receiver' \in [pc : {"off", "read", "acked"}, m : 0 .. MaxMsgs]
  BY <1>1, <1>2, <1>3 DEF IInv, Types, Break, state, queues, import
<1>6. /\ got \cup Gone \subseteq got' \cup Gone'
      /\ receiver.pc = "acked" => receiver' = receiver \/ receiver.m \in got' \cup Gone'
      /\ Connections'
  BY <1>1, <1>4 DEF Break, Connections, At, state, queues, import, fates, Gone
<1> QED
  BY <1>5, <1>6, StepAround

LEMMA StartRecvSafe ==
  ASSUME IInv, StartRecv, TRUE
  PROVE  IInv'
<1>1. /\ toImport \in Seq(Packets) /\ toExport \in Seq(Slots)
      /\ receiver \in [pc : {"off", "read", "acked"}, m : 0 .. MaxMsgs]
  BY DEF IInv, Types
<1>2. toImport \in Cut(toImport) /\ <<>> \in Cut(toImport)
  BY <1>1, CutWhole
<1>3. toExport \in Cut(toExport) /\ <<>> \in Cut(toExport)
  BY <1>1, CutWhole
<1>4. Connections
  BY DEF IInv
<1>5. /\ toImport' \in Cut(toImport) /\ toExport' \in Cut(toExport)
      /\ UNCHANGED <<SQ, sender, SendSequence, OutQueue, stacked>>
      /\ main' \in {"accept", "sender", "recv", "watch"} /\ linked' \in BOOLEAN
      /\ Sd' \in {"closed", "queued", "open"}
      /\ receiver' \in [pc : {"off", "read", "acked"}, m : 0 .. MaxMsgs]
  BY <1>1, <1>2, <1>3 DEF IInv, Types, StartRecv, queues, net, import, history, fates, Gone
<1>6. /\ got \cup Gone \subseteq got' \cup Gone'
      /\ receiver.pc = "acked" => receiver' = receiver \/ receiver.m \in got' \cup Gone'
      /\ Connections'
  BY <1>1, <1>4 DEF StartRecv, Connections, At, queues, net, import, history, fates, Gone
<1> QED
  BY <1>5, <1>6, StepAround

LEMMA StartWatchSafe ==
  ASSUME IInv, StartWatch, TRUE
  PROVE  IInv'
<1>1. /\ toImport \in Seq(Packets) /\ toExport \in Seq(Slots)
      /\ receiver \in [pc : {"off", "read", "acked"}, m : 0 .. MaxMsgs]
  BY DEF IInv, Types
<1>2. toImport \in Cut(toImport) /\ <<>> \in Cut(toImport)
  BY <1>1, CutWhole
<1>3. toExport \in Cut(toExport) /\ <<>> \in Cut(toExport)
  BY <1>1, CutWhole
<1>4. Connections
  BY DEF IInv
<1>5. /\ toImport' \in Cut(toImport) /\ toExport' \in Cut(toExport)
      /\ UNCHANGED <<SQ, sender, SendSequence, OutQueue, stacked>>
      /\ main' \in {"accept", "sender", "recv", "watch"} /\ linked' \in BOOLEAN
      /\ Sd' \in {"closed", "queued", "open"}
      /\ receiver' \in [pc : {"off", "read", "acked"}, m : 0 .. MaxMsgs]
  BY <1>1, <1>2, <1>3 DEF IInv, Types, StartWatch, queues, net, import, history, fates, Gone
<1>6. /\ got \cup Gone \subseteq got' \cup Gone'
      /\ receiver.pc = "acked" => receiver' = receiver \/ receiver.m \in got' \cup Gone'
      /\ Connections'
  BY <1>1, <1>4 DEF StartWatch, Connections, At, queues, net, import, history, fates, Gone
<1> QED
  BY <1>5, <1>6, StepAround

(* All slots are to be reviewed, and the connection is new.                *)
LEMMA AcceptSafe ==
  ASSUME IInv, Accept
  PROVE  IInv'
<1> USE DEF IInv
<1>1. /\ toImport = <<>> /\ toExport' = <<>> /\ toImport' = <<>> /\ main' = "sender"
      /\ Sd' = "open" /\ sender' = [pc |-> "review", i |-> 0] /\ sender.pc = "off"
      /\ UNCHANGED <<SQ, SendSequence, OutQueue, receiver, got, Gone>>
      /\ linked' = TRUE
      /\ stacked' = stacked \/ (stacked = -1 /\ stacked' = 0)
  BY DEF Connections, Accept, queues, At, fates, Gone
<1>2. SendQueueLen \in Nat /\ MaxMsgs \in Nat
  BY ExportAssumption
<1>3. Types'
  <2>1. sender' \in [pc : Places \cup {"off"}, i : 0 .. SendQueueLen]
    BY <1>1, <1>2 DEF Places
  <2> QED
    BY <1>1, <1>2, <2>1 DEF Types
<1>4. Connections'
  BY <1>1 DEF Connections
<1>5. Marked'
  BY <1>1, AheadAll DEF Types, Marked, Placed, Numbered, OwnNumbers, New, At
<1>6. Carried' /\ Once'
  BY <1>1 DEF Carried, Once
<1>7. AllKept'
  BY <1>1 DEF AllKept, Kept
<1> QED
  BY <1>3, <1>4, <1>5, <1>6, <1>7

(* SocketSender is killed, but not between the status and the number of a  *)
(* slot in its first use.                                                  *)
LEMMA RetrySafe ==
  ASSUME IInv, Retry, At("new") => SQ[SendSequence].sequence = SendSequence
  PROVE  IInv'
<1> USE DEF IInv
<1>1. /\ toImport \in Cut(toImport) /\ <<>> \in Cut(toExport)
  BY CutWhole DEF Types
<1>2. /\ sender' = [pc |-> "off", i |-> 0] /\ main' = "accept"
      /\ toImport' \in Cut(toImport) /\ toExport' \in Cut(toExport)
      /\ UNCHANGED <<SQ, SendSequence, OutQueue, receiver, got, stacked>>
      /\ linked' = FALSE /\ Sd' = IF Sd = "queued" THEN "open" ELSE Sd
      /\ Gone' = IF sender.pc \in {"taken", "filled"} THEN Gone \cup {SQ[SendSequence].m}
                 ELSE Gone
  BY <1>1 DEF Retry, At, Gone
<1>3. \A s \in Slots : ~Unsent(s)'
  BY <1>2 DEF Unsent, At
<1>4. /\ toImport' \in Seq(Packets) /\ toExport' \in Seq(Slots)
      /\ Carried' /\ Once'
  BY <1>2, <1>3, CutCarried
<1>5. Types'
  <2>1. sender' \in [pc : Places \cup {"off"}, i : 0 .. SendQueueLen]
    BY <1>2, ExportAssumption
  <2> QED
    BY <1>2, <1>4, <2>1 DEF Types
<1>6. Connections'
  <2>1. Sd # "open" => toImport = <<>>
    BY DEF Connections
  <2>2. \A p \in Cut(<<>>) : p = <<>>
    <3> TAKE p \in Cut(<<>>)
    <3>1. PICK n \in 0 .. 0 : p = SubSeq(<<>>, 1, n)
      BY DEF Cut
    <3> QED
      BY <3>1
  <2> QED
    BY <1>2, <2>1, <2>2 DEF Connections, At, Types
<1>7. Marked'
  BY <1>2 DEF Marked, Placed, Numbered, OwnNumbers, New, At
<1>8. AllKept'
  BY <1>2 DEF AllKept, Kept
<1> QED
  BY <1>4, <1>5, <1>6, <1>7, <1>8

LEMMA ConnectSafe ==
  ASSUME IInv, Connect, ImportRest
  PROVE  IInv'
<1>1. /\ toImport \in Seq(Packets) /\ toExport \in Seq(Slots)
      /\ receiver \in [pc : {"off", "read", "acked"}, m : 0 .. MaxMsgs]
  BY DEF IInv, Types
<1>2. toImport \in Cut(toImport) /\ <<>> \in Cut(toImport)
  BY <1>1, CutWhole
<1>3. toExport \in Cut(toExport) /\ <<>> \in Cut(toExport)
  BY <1>1, CutWhole
<1>4. Connections
  BY DEF IInv
<1>5. /\ toImport' \in Cut(toImport) /\ toExport' \in Cut(toExport)
      /\ UNCHANGED <<SQ, sender, SendSequence, OutQueue, stacked>>
      /\ main' \in {"accept", "sender", "recv", "watch"} /\ linked' \in BOOLEAN
      /\ Sd' \in {"closed", "queued", "open"}
      /\ receiver' \in [pc : {"off", "read", "acked"}, m : 0 .. MaxMsgs]
  BY <1>1, <1>2, <1>3, ExportAssumption DEF IInv, Types, Connect, ImportRest, state,
     queues, net
<1>6. /\ got \cup Gone \subseteq got' \cup Gone'
      /\ receiver.pc = "acked" => receiver' = receiver \/ receiver.m \in got' \cup Gone'
      /\ Connections'
  BY <1>1, <1>4, ExportAssumption DEF Connect, Connections, At, ImportRest, state,
     queues, net, fates, Gone
<1> QED
  BY <1>5, <1>6, StepAround

LEMMA ReconnectSafe ==
  ASSUME IInv, Reconnect, ImportRest
  PROVE  IInv'
<1>1. /\ toImport \in Seq(Packets) /\ toExport \in Seq(Slots)
      /\ receiver \in [pc : {"off", "read", "acked"}, m : 0 .. MaxMsgs]
  BY DEF IInv, Types
<1>2. toImport \in Cut(toImport) /\ <<>> \in Cut(toImport)
  BY <1>1, CutWhole
<1>3. toExport \in Cut(toExport) /\ <<>> \in Cut(toExport)
  BY <1>1, CutWhole
<1>4. Connections
  BY DEF IInv
<1>5. /\ toImport' \in Cut(toImport) /\ toExport' \in Cut(toExport)
      /\ UNCHANGED <<SQ, sender, SendSequence, OutQueue, stacked>>
      /\ main' \in {"accept", "sender", "recv", "watch"} /\ linked' \in BOOLEAN
      /\ Sd' \in {"closed", "queued", "open"}
      /\ receiver' \in [pc : {"off", "read", "acked"}, m : 0 .. MaxMsgs]
  <2>1. toImport' \in Cut(toImport) /\ toExport' \in Cut(toExport)
    BY <1>2, <1>3 DEF Reconnect
  <2>2. receiver' \in [pc : {"off", "read", "acked"}, m : 0 .. MaxMsgs]
    BY ExportAssumption DEF Reconnect
  <2>3. Sd' = "closed" /\ linked' = FALSE
    BY DEF Reconnect
  <2> QED
    BY <2>1, <2>2, <2>3 DEF IInv, Types, ImportRest, state, queues
<1>6. /\ got \cup Gone \subseteq got' \cup Gone'
      /\ receiver.pc = "acked" => receiver' = receiver \/ receiver.m \in got' \cup Gone'
      /\ Connections'
  BY <1>1, <1>4, ExportAssumption DEF Reconnect, Connections, At, ImportRest, state,
     queues, net, fates, Gone
<1> QED
  BY <1>5, <1>6, StepAround

LEMMA PutMsgSafe ==
  ASSUME IInv, PutMsg, ImportRest
  PROVE  IInv'
<1>1. /\ toImport \in Seq(Packets) /\ toExport \in Seq(Slots)
      /\ receiver \in [pc : {"off", "read", "acked"}, m : 0 .. MaxMsgs]
  BY DEF IInv, Types
<1>2. toImport \in Cut(toImport) /\ <<>> \in Cut(toImport)
  BY <1>1, CutWhole
<1>3. toExport \in Cut(toExport) /\ <<>> \in Cut(toExport)
  BY <1>1, CutWhole
<1>4. Connections
  BY DEF IInv
<1>5. /\ toImport' \in Cut(toImport) /\ toExport' \in Cut(toExport)
      /\ UNCHANGED <<SQ, sender, SendSequence, OutQueue, stacked>>
      /\ main' \in {"accept", "sender", "recv", "watch"} /\ linked' \in BOOLEAN
      /\ Sd' \in {"closed", "queued", "open"}
      /\ receiver' \in [pc : {"off", "read", "acked"}, m : 0 .. MaxMsgs]
  BY <1>1, <1>2, <1>3, ExportAssumption DEF IInv, Types, PutMsg, ImportRest, state,
     queues, net
<1>6. /\ got \cup Gone \subseteq got' \cup Gone'
      /\ receiver.pc = "acked" => receiver' = receiver \/ receiver.m \in got' \cup Gone'
      /\ Connections'
  BY <1>1, <1>4, ExportAssumption DEF PutMsg, Connections, At, ImportRest, state,
     queues, net, fates, Gone
<1> QED
  BY <1>5, <1>6, StepAround

LEMMA ReadFailsSafe ==
  ASSUME IInv, ReadFails, ImportRest
  PROVE  IInv'
<1>1. /\ toImport \in Seq(Packets) /\ toExport \in Seq(Slots)
      /\ receiver \in [pc : {"off", "read", "acked"}, m : 0 .. MaxMsgs]
  BY DEF IInv, Types
<1>2. toImport \in Cut(toImport) /\ <<>> \in Cut(toImport)
  BY <1>1, CutWhole
<1>3. toExport \in Cut(toExport) /\ <<>> \in Cut(toExport)
  BY <1>1, CutWhole
<1>4. Connections
  BY DEF IInv
<1>5. /\ toImport' \in Cut(toImport) /\ toExport' \in Cut(toExport)
      /\ UNCHANGED <<SQ, sender, SendSequence, OutQueue, stacked>>
      /\ main' \in {"accept", "sender", "recv", "watch"} /\ linked' \in BOOLEAN
      /\ Sd' \in {"closed", "queued", "open"}
      /\ receiver' \in [pc : {"off", "read", "acked"}, m : 0 .. MaxMsgs]
  BY <1>1, <1>2, <1>3, ExportAssumption DEF IInv, Types, ReadFails, ImportRest, state,
     queues, net
<1>6. /\ got \cup Gone \subseteq got' \cup Gone'
      /\ receiver.pc = "acked" => receiver' = receiver \/ receiver.m \in got' \cup Gone'
      /\ Connections'
  BY <1>1, <1>4, ExportAssumption DEF ReadFails, Connections, At, ImportRest, state,
     queues, net, fates, Gone
<1> QED
  BY <1>5, <1>6, StepAround

LEMMA ReadAndAckSafe ==
  ASSUME IInv, ReadAndAck, ImportRest
  PROVE  IInv'
<1> USE DEF IInv
<1>1. /\ toImport \in Seq(Packets) /\ toImport # <<>> /\ toExport \in Seq(Slots)
      /\ receiver.pc = "read"
  BY DEF Types, ReadAndAck
<1>2. /\ toImport' = Tail(toImport)
      /\ UNCHANGED <<SQ, sender, SendSequence, OutQueue, stacked, main, linked, Sd,
                     got, Gone>>
  BY DEF ReadAndAck, ImportRest, state, queues, fates, Gone
<1>3. /\ Tail(toImport) \in Seq(Packets) /\ Head(toImport) \in Packets
      /\ Head(toImport) = toImport[1]
      /\ Len(toImport) \in Nat /\ 1 \in 1 .. Len(toImport)
      /\ \A k \in 1 .. Len(Tail(toImport)) : /\ k + 1 \in 1 .. Len(toImport)
                                             /\ Tail(toImport)[k] = toImport[k + 1]
  BY <1>1, TailElements
<1>4. PICK p \in Packets : p = Head(toImport) /\ p = toImport[1]
  BY <1>3
<1>5. /\ p.sequence \in Slots /\ p.m \in 0 .. MaxMsgs
      /\ SQ[p.sequence].status # "ack" /\ SQ[p.sequence].m = p.m /\ ~Unsent(p.sequence)
  BY <1>3, <1>4 DEF Packets, Carried
<1>6. \A s \in Slots : ~Unsent(s) => ~Unsent(s)'
  BY <1>2 DEF Unsent, At
<1>7. \A k \in 1 .. Len(toImport) : toImport[k].sequence \in Slots
  <2> TAKE k \in 1 .. Len(toImport)
  <2>1. toImport[k] \in Packets
    BY <1>1
  <2> QED
    BY <2>1 DEF Packets
<1>8. \A k \in 1 .. Len(toImport') :
        /\ k \in Nat /\ k + 1 \in 1 .. Len(toImport) /\ toImport'[k] = toImport[k + 1]
        /\ toImport'[k].sequence \in Slots /\ toImport'[k].sequence # p.sequence
        /\ SQ[toImport'[k].sequence].status # "ack"
        /\ SQ[toImport'[k].sequence].m = toImport'[k].m
        /\ ~Unsent(toImport[k].sequence)'
        /\ \A l \in 1 .. Len(toExport) : toImport'[k].sequence # toExport[l]
  <2> TAKE k \in 1 .. Len(toImport')
  <2>1. k \in Nat /\ k + 1 \in 1 .. Len(toImport) /\ toImport'[k] = toImport[k + 1] /\ k + 1 # 1
    BY <1>2, <1>3
  <2>2. toImport'[k].sequence \in Slots /\ ~Unsent(toImport[k + 1].sequence)
    BY <1>7, <2>1 DEF Carried
  <2> QED
    BY <1>2, <1>3, <1>4, <1>6, <2>1, <2>2 DEF Carried, Once
<1>9. \A k \in 1 .. Len(toExport) :
        /\ toExport[k] \in Slots /\ SQ[toExport[k]].status # "ack"
        /\ toExport[k] # p.sequence
        /\ SQ[toExport[k]].m \in got \cup Gone /\ ~Unsent(toExport[k])
  BY <1>1, <1>3, <1>4 DEF Carried, Once
<1>10. \/ toExport' = toExport
       \/ /\ toExport' = Append(toExport, p.sequence)
          /\ receiver' = [pc |-> "acked", m |-> p.m]
  BY <1>4 DEF ReadAndAck
<1>11. /\ toExport' \in Seq(Slots)
       /\ \A k \in 1 .. Len(toExport') :
            \/ k \in 1 .. Len(toExport) /\ toExport'[k] = toExport[k]
            \/ k = Len(toExport) + 1 /\ toExport'[k] = p.sequence
               /\ receiver'.pc = "acked" /\ receiver'.m = p.m
  <2>1. CASE toExport' = toExport
    BY <1>1, <2>1
  <2>2. CASE toExport' # toExport
    <3>1. /\ toExport' = Append(toExport, p.sequence)
          /\ receiver' = [pc |-> "acked", m |-> p.m]
      BY <1>10, <2>2
    <3>2. /\ toExport' \in Seq(Slots)
          /\ Len(toExport) \in Nat /\ Len(toExport') = Len(toExport) + 1
          /\ \A k \in 1 .. Len(toExport) : toExport'[k] = toExport[k]
          /\ toExport'[Len(toExport) + 1] = p.sequence
      BY <1>1, <1>5, <3>1, AppendElements
    <3>3. \A k \in 1 .. Len(toExport') : k \in 1 .. Len(toExport) \/ k = Len(toExport) + 1
      BY <3>2
    <3> QED
      BY <3>1, <3>2, <3>3
  <2> QED
    BY <2>1, <2>2
<1>12. /\ Sd' = Sd /\ receiver' \in [pc : {"off", "read", "acked"}, m : 0 .. MaxMsgs]
  BY <1>4, <1>5, ExportAssumption DEF ReadAndAck
<1>13. Types'
  BY <1>2, <1>3, <1>11, <1>12 DEF Types
<1>14. Connections'
  BY <1>1, <1>2 DEF Connections, At
<1>15. Marked'
  BY <1>2 DEF Marked, Placed, Numbered, OwnNumbers, New, At, Reviewed
<1>16. Carried'
  <2>1. \A k \in 1 .. Len(toExport') :
          /\ SQ[toExport'[k]].status # "ack"
          /\ \/ SQ[toExport'[k]].m \in got \cup Gone
             \/ receiver'.pc = "acked" /\ receiver'.m = SQ[toExport'[k]].m
    BY <1>5, <1>9, <1>11
  <2>2. \A k \in 1 .. Len(toExport') : ~Unsent(toExport[k])'
    BY <1>5, <1>6, <1>9, <1>11
  <2> QED
    BY <1>2, <1>8, <2>1, <2>2 DEF Carried
<1>17. Once'
  <2>1. \A k, l \in 1 .. Len(toImport') :
          k # l => toImport'[k].sequence # toImport'[l].sequence
    BY <1>8 DEF Once
  <2>2. \A k, l \in 1 .. Len(toExport') : k # l => toExport'[k] # toExport'[l]
    BY <1>9, <1>11 DEF Once
  <2>3. \A k \in 1 .. Len(toImport'), l \in 1 .. Len(toExport') :
          toImport'[k].sequence # toExport'[l]
    BY <1>8, <1>11
  <2> QED
    BY <2>1, <2>2, <2>3 DEF Once
<1>18. AllKept'
  BY <1>1, <1>2 DEF AllKept, Kept
<1> QED
  BY <1>13, <1>14, <1>15, <1>16, <1>17, <1>18

-----------------------------------------------------------------------------
(* Packets and acknowledgements under way are of different slots, so they  *)
(* are no more than there are slots.                                       *)
LEMMA NoMoreThanSlots ==
  ASSUME Types, Once
  PROVE  Len(toImport) + Len(toExport) <= SendQueueLen
<1> DEFINE a == Len(toImport)
           b == Len(toExport)
           f == [k \in 1 .. a + b |-> IF k <= a THEN toImport[k].sequence ELSE toExport[k - a]]
<1>1. a \in Nat /\ b \in Nat /\ SendQueueLen \in Nat
  BY ExportAssumption DEF Types
<1>2. \A k \in 1 .. a : toImport[k].sequence \in Slots
  <2> TAKE k \in 1 .. a
  <2>1. toImport[k] \in Packets
    BY DEF Types
  <2> QED
    BY <2>1 DEF Packets
<1>3. \A k \in 1 .. b : toExport[k] \in Slots
  BY DEF Types
<1>4. \A k \in 1 .. a + b : k \in 1 .. a \/ (k > a /\ k - a \in 1 .. b)
  BY <1>1
<1>5. f \in [1 .. a + b -> Slots]
  BY <1>1, <1>2, <1>3, <1>4
<1>6. ASSUME NEW k \in 1 .. a + b, NEW l \in 1 .. a + b, k # l
      PROVE  f[k] # f[l]
  <2>1. f[k] = (IF k <= a THEN toImport[k].sequence ELSE toExport[k - a])
    OBVIOUS
  <2>2. f[l] = (IF l <= a THEN toImport[l].sequence ELSE toExport[l - a])
    OBVIOUS
  <2>3. CASE k <= a /\ l <= a
    BY <1>1, <1>4, <1>6, <2>1, <2>2, <2>3 DEF Once
  <2>4. CASE k <= a /\ l > a
    BY <1>1, <1>4, <2>1, <2>2, <2>4 DEF Once
  <2>5. CASE k > a /\ l <= a
    BY <1>1, <1>4, <2>1, <2>2, <2>5 DEF Once
  <2>6. CASE k > a /\ l > a
    BY <1>1, <1>4, <1>6, <2>1, <2>2, <2>6 DEF Once
  <2> QED
    BY <1>1, <2>3, <2>4, <2>5, <2>6
<1> HIDE DEF f
<1>7. f \in Injection(1 .. a + b, Slots)
  <2>1. DOMAIN f = 1 .. a + b
    BY <1>5
  <2> QED
    BY <1>5, <1>6, <2>1 DEF Injection, IsInjective
<1>8. IsFiniteSet(Slots) /\ Cardinality(Slots) = SendQueueLen
  <2> DEFINE n == SendQueueLen - 1
  <2>1. n \in Int /\ 0 \in Int /\ ~(0 > n) /\ n - 0 + 1 = SendQueueLen
    BY ExportAssumption
  <2> HIDE DEF n
  <2>2. IsFiniteSet(0 .. n) /\ Cardinality(0 .. n) = n - 0 + 1
    BY <2>1, FS_Interval
  <2> QED
    BY <2>1, <2>2 DEF Slots, n
<1>9. Cardinality(1 .. a + b) <= SendQueueLen
  BY <1>7, <1>8, FS_Injection
<1>10. Cardinality(1 .. a + b) = a + b
  BY <1>1, FS_Interval
<1> QED
  BY <1>9, <1>10

-----------------------------------------------------------------------------
(* After the kill between the status and the number of a slot: the slot at *)
(* SendSequence waits for an acknowledgement that cannot come, nothing of  *)
(* that number being sent, and SocketSender never gets beyond it.          *)

(* The slots from which there may be a packet on this connection.          *)
Looked == IF At("review") THEN sender.i
          ELSE IF At("resent") THEN sender.i + 1
          ELSE SendQueueLen

Stuck ==
  /\ Base /\ OwnNumbers
  /\ sender.pc \in {"off", "review", "resent", "top", "wait"}
  /\ SQ[SendSequence].status # "ack" /\ SQ[SendSequence].sequence # SendSequence
  /\ \A k \in 1 .. Len(toImport) : toImport[k].sequence # SendSequence
  /\ \A k \in 1 .. Len(toExport) : toExport[k] # SendSequence
  /\ Len(toImport) + Len(toExport) <= Looked

LEMMA CutLength ==
  ASSUME NEW S, NEW q \in Seq(S), NEW p \in Cut(q)
  PROVE  Len(p) \in Nat /\ Len(q) \in Nat /\ Len(p) <= Len(q)
<1>1. PICK n \in 0 .. Len(q) : p = SubSeq(q, 1, n)
  BY DEF Cut
<1>2. Len(q) \in Nat /\ n \in Nat /\ n <= Len(q)
  OBVIOUS
<1>3. \A k \in 1 .. n : q[k] \in S
  BY <1>2
<1>4. Len(p) = n
  BY <1>1, <1>2, <1>3
<1> QED
  BY <1>2, <1>4

(* A step of another thread, with no packet of that number.                *)
LEMMA StuckAround ==
  ASSUME Stuck, UNCHANGED <<SQ, sender, SendSequence>>, Types', Connections',
         \A k \in 1 .. Len(toImport') : toImport'[k].sequence # SendSequence,
         \A k \in 1 .. Len(toExport') : toExport'[k] # SendSequence,
         Len(toImport') + Len(toExport') <= Len(toImport) + Len(toExport)
  PROVE  Stuck'
<1>1. Placed'
  BY DEF Stuck, Base, Placed, New, At
<1>2. Looked' = Looked /\ Looked \in Nat
  BY SenderTypes DEF Stuck, Base, Looked, At
<1>3. /\ Len(toImport) \in Nat /\ Len(toExport) \in Nat
      /\ Len(toImport') \in Nat /\ Len(toExport') \in Nat
  BY DEF Stuck, Base, Types
<1> QED
  BY <1>1, <1>2, <1>3 DEF Stuck, Base, OwnNumbers

(* What is cut from the connection does not come back.                     *)
LEMMA StuckCut ==
  ASSUME Stuck, UNCHANGED <<SQ, sender, SendSequence>>, Types', Connections',
         toImport' \in Cut(toImport), toExport' \in Cut(toExport)
  PROVE  Stuck'
<1>1. toImport \in Seq(Packets) /\ toExport \in Seq(Slots)
  BY DEF Stuck, Base, Types
<1>2. /\ \A k \in 1 .. Len(toImport') : k \in 1 .. Len(toImport) /\ toImport'[k] = toImport[k]
      /\ \A k \in 1 .. Len(toExport') : k \in 1 .. Len(toExport) /\ toExport'[k] = toExport[k]
  BY <1>1, CutElements
<1>3. Len(toImport') + Len(toExport') <= Len(toImport) + Len(toExport)
  <2>1. Len(toImport') \in Nat /\ Len(toImport) \in Nat /\ Len(toImport') <= Len(toImport)
    BY <1>1, CutLength
  <2>2. Len(toExport') \in Nat /\ Len(toExport) \in Nat /\ Len(toExport') <= Len(toExport)
    BY <1>1, CutLength
  <2> QED
    BY <2>1, <2>2
<1>4. /\ \A k \in 1 .. Len(toImport') : toImport'[k].sequence # SendSequence
      /\ \A k \in 1 .. Len(toExport') : toExport'[k] # SendSequence
  BY <1>2 DEF Stuck
<1> QED
  BY <1>3, <1>4, StuckAround

(* SocketSender reviews the slots, then waits; it dequeues nothing.        *)
LEMMA StuckSender ==
  ASSUME Stuck, SocketSender
  PROVE  Stuck'
<1> USE DEF Stuck, Base
<1>1. /\ SQ \in SlotTypes /\ SendSequence \in Slots /\ toImport \in Seq(Packets)
      /\ sender \in [pc : Places \cup {"off"}, i : 0 .. SendQueueLen]
      /\ Len(toImport) \in Nat /\ Len(toExport) \in Nat
  BY DEF Types
<1>2. UNCHANGED <<main, toExport, Sd, receiver, stacked>>
  BY DEF SocketSender, SenderRest, import, history
<1>3. CASE Skip
  <2>1. /\ sender' \in [pc : Places \cup {"off"}, i : 0 .. SendQueueLen]
        /\ sender.pc = "review"
        /\ \/ /\ sender.i < SendQueueLen /\ SQ[Reviewed(sender.i)].status = "ack"
              /\ sender'.pc = "review" /\ sender'.i = sender.i + 1
           \/ sender.i = SendQueueLen /\ sender'.pc = "top" /\ sender'.i = 0
    BY <1>3, SenderTypes DEF Types, Skip, Unacked, At, Places
  <2>2. UNCHANGED <<SQ, SendSequence, OutQueue, linked, toImport>>
    BY <1>3 DEF Skip, queues
  <2>3. Types' /\ Connections'
    BY <1>2, <2>1, <2>2 DEF Types, Connections, At
  <2>4. Placed'
    BY <2>1, <2>2, SenderTypes DEF Placed, New, At
  <2>5. Len(toImport') + Len(toExport') <= Looked'
    BY <1>1, <1>2, <2>1, <2>2, SenderTypes DEF Looked, At
  <2> QED
    BY <1>2, <2>1, <2>2, <2>3, <2>4, <2>5 DEF OwnNumbers
<1>4. CASE Resend
  <2> DEFINE t == Reviewed(sender.i)
  <2>1. /\ sender.pc = "review" /\ sender.i < SendQueueLen /\ t \in Slots
        /\ SendPacket(t, "resent")
    BY <1>4, SenderTypes DEF Resend, At
  <2> HIDE DEF t
  <2>2. /\ UNCHANGED <<SQ, SendSequence, OutQueue, linked>>
        /\ sender' \in [pc : Places \cup {"off"}, i : 0 .. SendQueueLen]
        /\ sender'.i = sender.i
        /\ \/ sender'.pc = "off" /\ toImport' = toImport
           \/ /\ sender'.pc = "resent"
              /\ \/ toImport' = toImport
                 \/ /\ linked
                    /\ toImport' = Append(toImport, [m |-> SQ[t].m, sequence |-> SQ[t].sequence])
    BY <1>1, <2>1 DEF SendPacket, Fails, Goto, queues, Places
  <2>3. ASSUME toImport' = Append(toImport, [m |-> SQ[t].m, sequence |-> SQ[t].sequence])
        PROVE  /\ toImport' \in Seq(Packets) /\ Len(toImport') = Len(toImport) + 1
               /\ \A k \in 1 .. Len(toImport') : toImport'[k].sequence # SendSequence
    <3> DEFINE p == [m |-> SQ[t].m, sequence |-> SQ[t].sequence]
    <3>1. p \in Packets /\ p.sequence = SQ[t].sequence
      BY <1>1, <2>1 DEF SlotTypes, Packets
    <3>2. p.sequence # SendSequence
      BY <1>1, <2>1, <3>1 DEF OwnNumbers
    <3> HIDE DEF p
    <3>3. /\ toImport' \in Seq(Packets) /\ Len(toImport') = Len(toImport) + 1
          /\ \A k \in 1 .. Len(toImport) : toImport'[k] = toImport[k]
          /\ toImport'[Len(toImport) + 1] = p
      BY <1>1, <2>3, <3>1, AppendElements DEF p
    <3>4. \A k \in 1 .. Len(toImport') : k \in 1 .. Len(toImport) \/ k = Len(toImport) + 1
      BY <1>1, <3>3
    <3> QED
      BY <3>2, <3>3, <3>4
  <2>4. /\ toImport' \in Seq(Packets)
        /\ \A k \in 1 .. Len(toImport') : toImport'[k].sequence # SendSequence
        /\ Len(toImport') + Len(toExport') <= Looked'
    <3>1. /\ toImport' \in Seq(Packets)
          /\ \A k \in 1 .. Len(toImport') : toImport'[k].sequence # SendSequence
      BY <1>1, <2>2, <2>3
    <3>2. Looked = sender.i /\ sender.i + 1 <= SendQueueLen /\ sender.i \in Nat
      BY <1>1, <2>1, SenderTypes DEF Looked, At
    <3>3. /\ Looked' >= sender.i + 1 \/ (sender'.pc = "off" /\ Looked' = SendQueueLen)
          /\ Looked' \in Nat
      BY <2>2, <3>2, SenderTypes DEF Looked, At
    <3>4. Len(toImport') \in Nat /\ Len(toImport') <= Len(toImport) + 1
      BY <1>1, <2>2, <2>3
    <3> QED
      BY <1>1, <1>2, <3>1, <3>2, <3>3, <3>4, SenderTypes
  <2>5. Types' /\ Connections'
    BY <1>2, <2>1, <2>2, <2>4 DEF Types, Connections, At
  <2>6. Placed'
    BY <2>1, <2>2 DEF Placed, New, At
  <2> QED
    BY <1>2, <2>2, <2>4, <2>5, <2>6 DEF OwnNumbers
<1>5. CASE MarkResent
  <2>1. /\ sender.pc = "resent" /\ sender.i < SendQueueLen /\ Reviewed(sender.i) \in Slots
        /\ sender'.pc = "review" /\ sender'.i = sender.i + 1
        /\ sender' \in [pc : Places \cup {"off"}, i : 0 .. SendQueueLen]
        /\ SQ' = [SQ EXCEPT ![Reviewed(sender.i)].status = "sent"]
    BY <1>5, SenderTypes DEF MarkResent, Placed, At, Places
  <2>2. UNCHANGED <<SendSequence, OutQueue, linked, toImport>>
    BY <1>5 DEF MarkResent
  <2>3. /\ SQ' \in SlotTypes
        /\ \A s \in Slots : s # Reviewed(sender.i) => SQ'[s] = SQ[s]
        /\ \A s \in Slots : SQ'[s].sequence = SQ[s].sequence
        /\ SQ'[Reviewed(sender.i)].status = "sent"
    <3> DEFINE t == Reviewed(sender.i)
    <3>1. SQ \in SlotTypes /\ t \in Slots /\ SQ' = [SQ EXCEPT ![t].status = "sent"]
      BY <1>1, <2>1, SenderTypes
    <3> HIDE DEF t
    <3>2. /\ SQ' \in SlotTypes
          /\ \A s \in Slots : s # t => SQ'[s] = SQ[s]
          /\ SQ'[t].sequence = SQ[t].sequence /\ SQ'[t].status = "sent"
      BY <3>1 DEF SlotTypes
    <3>3. \A s \in Slots : SQ'[s].sequence = SQ[s].sequence
      BY <3>2
    <3> QED
      BY <3>2, <3>3 DEF t
  <2>4. Types' /\ Connections'
    BY <1>2, <2>1, <2>2, <2>3 DEF Types, Connections, At
  <2>5. Placed'
    BY <2>1, <2>2, <2>3, SenderTypes DEF Placed, New, At
  <2>6. Len(toImport') + Len(toExport') <= Looked'
    BY <1>1, <1>2, <2>1, <2>2 DEF Looked, At
  <2>7. SQ'[SendSequence].status # "ack"
    BY <1>1, <2>3
  <2> QED
    BY <1>1, <1>2, <2>1, <2>2, <2>3, <2>4, <2>5, <2>6, <2>7 DEF OwnNumbers
<1>6. CASE BeatFails \/ Wait
  <2>1. /\ sender.pc = "top" /\ sender'.pc \in {"off", "wait"} /\ sender'.i = sender.i
        /\ sender' \in [pc : Places \cup {"off"}, i : 0 .. SendQueueLen]
        /\ UNCHANGED <<SQ, SendSequence, OutQueue, linked, toImport>>
    BY <1>1, <1>6 DEF BeatFails, Wait, Fails, At, Goto, queues, Places
  <2>2. Types' /\ Connections'
    BY <1>2, <2>1 DEF Types, Connections, At
  <2>3. Placed'
    BY <2>1 DEF Placed, New, At
  <2>4. Looked' = Looked
    BY <2>1 DEF Looked, At
  <2> QED
    BY <1>2, <2>1, <2>2, <2>3, <2>4 DEF OwnNumbers
<1>7. ~(Dequeue \/ Unlock \/ MarkNew \/ Number \/ Advance \/ Send \/ MarkSent)
  <2>1. ~SlotFree
    BY <1>1 DEF SlotFree, SlotTypes, Placed, New, At
  <2> QED
    BY <2>1 DEF Dequeue, Unlock, MarkNew, Number, Advance, Send, MarkSent, At
<1> QED
  BY <1>3, <1>4, <1>5, <1>6, <1>7 DEF SocketSender

(* An acknowledgement clears another slot.                                 *)
LEMMA StuckRecv ==
  ASSUME Stuck, SocketRecv
  PROVE  Stuck'
<1> USE DEF Stuck, Base
<1>1. /\ SQ \in SlotTypes /\ SendSequence \in Slots
      /\ toImport \in Seq(Packets) /\ toExport \in Seq(Slots)
      /\ UNCHANGED <<main, sender, SendSequence, OutQueue, linked, toImport, Sd,
                     receiver, stacked>>
  BY DEF SocketRecv, Types, import, history
<1>2. CASE Acknowledged
  <2>1. toExport # <<>> /\ toExport' = Tail(toExport)
    BY <1>2 DEF Acknowledged
  <2>2. /\ toExport' \in Seq(Slots) /\ Head(toExport) = toExport[1]
        /\ Head(toExport) \in Slots /\ 1 \in 1 .. Len(toExport)
        /\ Len(toExport) \in Nat /\ Len(toExport') = Len(toExport) - 1
        /\ \A k \in 1 .. Len(toExport') : k + 1 \in 1 .. Len(toExport)
                                          /\ toExport'[k] = toExport[k + 1]
    BY <1>1, <2>1, TailElements
  <2>3. PICK a \in Slots : a = Head(toExport) /\ a % SendQueueLen = a /\ a # SendSequence
    BY <2>2, OwnNumber
  <2>4. SQ' = [SQ EXCEPT ![a].status = "ack"]
    BY <1>2, <2>3 DEF Acknowledged
  <2>5. /\ SQ' \in SlotTypes
        /\ \A s \in Slots : s # a => SQ'[s] = SQ[s]
        /\ \A s \in Slots : SQ'[s].sequence = SQ[s].sequence
        /\ SQ'[a].status = "ack"
    BY <1>1, <2>3, <2>4 DEF SlotTypes
  <2>6. Types' /\ Connections'
    BY <1>1, <2>2, <2>5 DEF Types, Connections, At
  <2>7. Placed'
    BY <1>1, <2>3, <2>5 DEF Placed, New, At
  <2>8. Len(toImport') + Len(toExport') <= Looked'
    <3>1. Looked' = Looked /\ Looked \in Nat
      BY <1>1, SenderTypes DEF Looked, At
    <3> QED
      BY <1>1, <2>2, <3>1
  <2>9. \A k \in 1 .. Len(toExport') : toExport'[k] # SendSequence
    BY <2>2
  <2> QED
    BY <1>1, <2>3, <2>5, <2>6, <2>7, <2>8, <2>9 DEF OwnNumbers
<1>3. CASE RecvFails
  <2>1. UNCHANGED <<SQ, toExport>>
    BY <1>3 DEF RecvFails
  <2>2. Types' /\ Connections'
    BY <1>1, <2>1 DEF Types, Connections, At
  <2>3. toImport' \in Cut(toImport) /\ toExport' \in Cut(toExport)
    BY <1>1, <2>1, CutWhole
  <2> QED
    BY <1>1, <2>1, <2>2, <2>3, StuckCut
<1> QED
  BY <1>2, <1>3 DEF SocketRecv

LEMMA StuckAccept ==
  ASSUME Stuck, Accept
  PROVE  Stuck'
<1> USE DEF Stuck, Base
<1>1. /\ toImport = <<>> /\ toExport' = <<>> /\ toImport' = <<>> /\ main' = "sender"
      /\ Sd' = "open" /\ sender' = [pc |-> "review", i |-> 0] /\ sender.pc = "off"
      /\ UNCHANGED <<SQ, SendSequence, OutQueue, receiver>>
      /\ linked' = TRUE
      /\ stacked' = stacked \/ (stacked = -1 /\ stacked' = 0)
  BY DEF Connections, Accept, queues, At
<1>2. SendQueueLen \in Nat /\ MaxMsgs \in Nat
  BY ExportAssumption
<1>3. Types'
  <2>1. sender' \in [pc : Places \cup {"off"}, i : 0 .. SendQueueLen]
    BY <1>1, <1>2 DEF Places
  <2> QED
    BY <1>1, <1>2, <2>1 DEF Types
<1>4. Connections' /\ Placed'
  BY <1>1, AheadAll DEF Types, Connections, Placed, New, At
<1>5. Len(toImport') + Len(toExport') <= Looked'
  BY <1>1 DEF Looked, At
<1> QED
  BY <1>1, <1>3, <1>4, <1>5 DEF OwnNumbers

(* The threads are killed: what is on the connection after that.           *)
LEMMA RetryBase ==
  ASSUME Base, Retry
  PROVE  /\ Base' /\ sender'.pc = "off" /\ UNCHANGED <<SQ, SendSequence>>
         /\ toExport' = <<>> /\ Len(toImport') \in Nat /\ Len(toImport) \in Nat
         /\ Len(toImport') <= Len(toImport)
         /\ \A k \in 1 .. Len(toImport') :
              k \in 1 .. Len(toImport) /\ toImport'[k] = toImport[k]
<1> USE DEF Base
<1>1. toImport \in Seq(Packets) /\ toImport \in Cut(toImport)
  BY CutWhole DEF Types
<1>2. /\ sender' = [pc |-> "off", i |-> 0] /\ main' = "accept"
      /\ toImport' \in Cut(toImport) /\ toExport' = <<>>
      /\ UNCHANGED <<SQ, SendSequence, OutQueue, receiver, stacked>>
      /\ linked' = FALSE /\ Sd' = IF Sd = "queued" THEN "open" ELSE Sd
  BY <1>1 DEF Retry
<1>3. /\ toImport' \in Seq(Packets) /\ Len(toImport') \in Nat /\ Len(toImport) \in Nat
      /\ Len(toImport') <= Len(toImport)
      /\ \A k \in 1 .. Len(toImport') : k \in 1 .. Len(toImport) /\ toImport'[k] = toImport[k]
  BY <1>1, <1>2, CutElements, CutLength
<1>4. Types'
  <2>1. sender' \in [pc : Places \cup {"off"}, i : 0 .. SendQueueLen]
    BY <1>2, ExportAssumption
  <2>2. Sd' \in {"closed", "queued", "open"}
    BY <1>2 DEF Types
  <2>3. toExport' \in Seq(Slots)
    BY <1>2
  <2> QED
    BY <1>2, <1>3, <2>1, <2>2, <2>3 DEF Types
<1>5. Connections'
  <2>1. Sd # "open" => toImport = <<>>
    BY DEF Connections
  <2>2. toImport = <<>> => toImport' = <<>>
    BY <1>3
  <2> QED
    BY <1>2, <2>1, <2>2 DEF Connections, At, Types
<1>6. Placed'
  BY <1>2 DEF Placed, New, At
<1> QED
  BY <1>2, <1>3, <1>4, <1>5, <1>6

LEMMA StuckRetry ==
  ASSUME Stuck, Retry
  PROVE  Stuck'
<1>1. /\ Base' /\ sender'.pc = "off" /\ UNCHANGED <<SQ, SendSequence>>
      /\ toExport' = <<>> /\ Len(toImport') \in Nat /\ Len(toImport) \in Nat
      /\ Len(toImport') <= Len(toImport)
      /\ \A k \in 1 .. Len(toImport') : k \in 1 .. Len(toImport) /\ toImport'[k] = toImport[k]
  BY RetryBase DEF Stuck
<1>2. Looked \in Nat /\ Looked <= SendQueueLen /\ Len(toExport) \in Nat
  BY SenderTypes DEF Stuck, Base, Looked, At, Types, Placed
<1>3. Looked' = SendQueueLen /\ SendQueueLen \in Nat
  BY <1>1, ExportAssumption DEF Looked, At
<1> QED
  BY <1>1, <1>2, <1>3 DEF Stuck, OwnNumbers

(* So it begins.                                                           *)
LEMMA StuckBegins ==
  ASSUME IInv, Retry, At("new"), SQ[SendSequence].sequence # SendSequence,
         Len(toImport) + Len(toExport) <= SendQueueLen
  PROVE  Stuck'
<1>1. Base
  BY DEF IInv, Base, Marked
<1>2. /\ Base' /\ sender'.pc = "off" /\ UNCHANGED <<SQ, SendSequence>>
      /\ toExport' = <<>> /\ Len(toImport') \in Nat /\ Len(toImport) \in Nat
      /\ Len(toImport') <= Len(toImport)
      /\ \A k \in 1 .. Len(toImport') : k \in 1 .. Len(toImport) /\ toImport'[k] = toImport[k]
  BY <1>1, RetryBase
<1>3. Looked' = SendQueueLen /\ SendQueueLen \in Nat /\ Len(toExport) \in Nat
  BY <1>2, ExportAssumption DEF Looked, At, IInv, Types
<1>4. SQ[SendSequence].status # "ack" /\ OwnNumbers
  BY DEF IInv, Marked, Placed, Numbered, At
<1>5. \A k \in 1 .. Len(toImport) : toImport[k].sequence # SendSequence
  <2> SUFFICES ASSUME NEW k \in 1 .. Len(toImport), toImport[k].sequence = SendSequence
               PROVE  FALSE
    OBVIOUS
  <2>1. ~Unsent(toImport[k].sequence)
    BY DEF IInv, Carried
  <2>2. sender.pc = "new"
    BY DEF At
  <2> QED
    BY <2>1, <2>2 DEF Unsent
<1> QED
  BY <1>2, <1>3, <1>4, <1>5 DEF Stuck, OwnNumbers

LEMMA StuckImport ==
  ASSUME Stuck, MessageReceiver \/ ImportMain
  PROVE  Stuck'
<1> USE DEF Stuck, Base
<1>1. /\ toImport \in Seq(Packets) /\ toExport \in Seq(Slots) /\ MaxMsgs \in Nat
      /\ UNCHANGED <<main, sender, SQ, SendSequence, OutQueue, stacked>>
  BY ExportAssumption DEF MessageReceiver, ImportMain, ImportRest, state, queues, Types
<1>2. CASE ReadAndAck
  <2>1. /\ toImport # <<>> /\ toImport' = Tail(toImport) /\ receiver.pc = "read"
        /\ UNCHANGED <<linked, Sd>>
    BY <1>2 DEF ReadAndAck
  <2>2. /\ toImport' \in Seq(Packets) /\ Head(toImport) \in Packets
        /\ Head(toImport) = toImport[1] /\ 1 \in 1 .. Len(toImport)
        /\ Len(toImport) \in Nat /\ Len(toImport') = Len(toImport) - 1
        /\ \A k \in 1 .. Len(toImport') : k + 1 \in 1 .. Len(toImport)
                                          /\ toImport'[k] = toImport[k + 1]
    BY <1>1, <2>1, TailElements
  <2>3. PICK p \in Packets : p = Head(toImport) /\ p.sequence # SendSequence
    BY <2>2
  <2>4. /\ receiver' \in [pc : {"off", "read", "acked"}, m : 0 .. MaxMsgs]
        /\ toExport' = toExport \/ toExport' = Append(toExport, p.sequence)
    BY <1>1, <1>2, <2>3 DEF ReadAndAck, Packets
  <2>5. /\ toExport' \in Seq(Slots) /\ Len(toExport) \in Nat /\ Len(toExport') \in Nat
        /\ Len(toExport') <= Len(toExport) + 1
        /\ \A k \in 1 .. Len(toExport') : toExport'[k] # SendSequence
    <3>1. CASE toExport' = toExport
      BY <1>1, <3>1
    <3>2. CASE toExport' = Append(toExport, p.sequence)
      <4>1. p.sequence \in Slots
        BY DEF Packets
      <4>2. /\ toExport' \in Seq(Slots) /\ Len(toExport) \in Nat
            /\ Len(toExport') = Len(toExport) + 1
            /\ \A k \in 1 .. Len(toExport) : toExport'[k] = toExport[k]
            /\ toExport'[Len(toExport) + 1] = p.sequence
        BY <1>1, <3>2, <4>1, AppendElements
      <4>3. \A k \in 1 .. Len(toExport') : k \in 1 .. Len(toExport) \/ k = Len(toExport) + 1
        BY <4>2
      <4> QED
        BY <2>3, <4>2, <4>3
    <3> QED
      BY <2>4, <3>1, <3>2
  <2>6. Types' /\ Connections'
    BY <1>1, <2>1, <2>2, <2>4, <2>5 DEF Types, Connections, At
  <2>7. Len(toImport') + Len(toExport') <= Len(toImport) + Len(toExport)
    BY <2>2, <2>5
  <2>8. \A k \in 1 .. Len(toImport') : toImport'[k].sequence # SendSequence
    BY <2>2
  <2> QED
    BY <1>1, <2>5, <2>6, <2>7, <2>8, StuckAround
<1>3. CASE PutMsg \/ ReadFails \/ Connect
  <2>1. /\ UNCHANGED net
        /\ receiver' \in [pc : {"off", "read", "acked"}, m : 0 .. MaxMsgs]
        /\ \/ UNCHANGED Sd /\ Sd # "closed"
           \/ Sd' = "queued" /\ Sd = "closed"
    BY <1>1, <1>3 DEF PutMsg, ReadFails, Connect, Connections, Types
  <2>2. Types' /\ Connections'
    BY <1>1, <2>1 DEF Types, Connections, At, net
  <2>3. toImport' \in Cut(toImport) /\ toExport' \in Cut(toExport)
    BY <1>1, <2>1, CutWhole DEF net
  <2> QED
    BY <1>1, <2>2, <2>3, StuckCut
<1>4. CASE Reconnect
  <2>1. toImport' \in Cut(toImport) /\ toExport' \in Cut(toExport)
    BY <1>1, <1>4, CutWhole DEF Reconnect
  <2>2. /\ receiver' = [pc |-> "off", m |-> 0] /\ Sd' = "closed" /\ linked' = FALSE
        /\ toImport' = <<>>
    BY <1>4 DEF Reconnect
  <2>3. toExport' \in Seq(Slots)
    BY <1>1, <2>1, CutElements
  <2>4. /\ toImport' \in Seq(Packets)
        /\ receiver' \in [pc : {"off", "read", "acked"}, m : 0 .. MaxMsgs]
    BY <1>1, <2>2
  <2>5. Types'
    BY <1>1, <2>2, <2>3, <2>4 DEF Types
  <2>6. Connections'
    BY <1>1, <2>2 DEF Connections, At
  <2> QED
    BY <1>1, <2>1, <2>5, <2>6, StuckCut
<1> QED
  BY <1>2, <1>3, <1>4 DEF MessageReceiver, ImportMain

LEMMA StuckOthers ==
  ASSUME Stuck, MessageStacker \/ StartRecv \/ StartWatch \/ Break \/ UNCHANGED vars
  PROVE  Stuck'
<1> USE DEF Stuck, Base
<1>1. /\ toImport \in Seq(Packets) /\ toExport \in Seq(Slots) /\ OutQueue \in Seq(Msgs)
      /\ UNCHANGED <<sender, SQ, SendSequence, Sd, receiver>>
  BY DEF MessageStacker, StartRecv, StartWatch, Break, vars, state, queues, net, import, Types
<1>2. /\ toImport' \in Cut(toImport) /\ toExport' \in Cut(toExport)
      /\ linked' => linked
      /\ linked' \in BOOLEAN /\ main' \in {main, "recv", "watch"}
  <2>1. CASE Break
    BY <2>1 DEF Break, state, Types
  <2>2. CASE ~Break
    <3>1. /\ UNCHANGED <<toImport, toExport, linked>>
          /\ main' \in {main, "recv", "watch"}
      BY <2>2 DEF MessageStacker, StartRecv, StartWatch, vars, state, net
    <3> QED
      BY <1>1, <3>1, CutWhole DEF Types
  <2> QED
    BY <2>1, <2>2
<1>3. /\ toImport' \in Seq(Packets) /\ toExport' \in Seq(Slots)
      /\ toImport = <<>> => toImport' = <<>>
  <2>1. /\ toImport' \in Seq(Packets) /\ toExport' \in Seq(Slots)
        /\ Len(toImport') \in Nat /\ Len(toImport') <= Len(toImport)
    BY <1>1, <1>2, CutElements, CutLength
  <2> QED
    BY <2>1
<1>4. OutQueue' \in Seq(Msgs) /\ stacked' \in -1 .. MaxMsgs
  <2>1. CASE MessageStacker
    <3>1. stacked' \in Msgs /\ stacked' \in -1 .. MaxMsgs
      BY <2>1, ExportAssumption DEF MessageStacker, Msgs
    <3>2. Len(OutQueue) = RingSize => OutQueue # <<>>
      BY ExportAssumption
    <3>3. CASE Len(OutQueue) = RingSize
      <4>1. Tail(OutQueue) \in Seq(Msgs) /\ OutQueue' = Append(Tail(OutQueue), stacked')
        BY <1>1, <2>1, <3>2, <3>3, TailElements DEF MessageStacker
      <4> QED
        BY <3>1, <4>1, AppendElements
    <3>4. CASE Len(OutQueue) # RingSize
      <4>1. OutQueue' = Append(OutQueue, stacked')
        BY <2>1, <3>4 DEF MessageStacker
      <4> QED
        BY <1>1, <3>1, <4>1, AppendElements
    <3> QED
      BY <3>1, <3>3, <3>4
  <2>2. CASE ~MessageStacker
    <3>1. UNCHANGED <<OutQueue, stacked>>
      BY <2>2 DEF StartRecv, StartWatch, Break, vars, queues, history
    <3> QED
      BY <3>1 DEF Types
  <2> QED
    BY <2>1, <2>2
<1>5. Types'
  BY <1>1, <1>2, <1>3, <1>4 DEF Types
<1>6. Connections'
  BY <1>1, <1>2, <1>3 DEF Connections, At, Types
<1> QED
  BY <1>1, <1>2, <1>5, <1>6, StuckCut

LEMMA StuckStays ==
  ASSUME Stuck, [Next]_vars
  PROVE  Stuck'
BY StuckSender, StuckRecv, StuckAccept, StuckRetry, StuckImport, StuckOthers
   DEF Next, ExportMain
LEMMA StepSafe ==
  ASSUME IInv, [Next]_vars
  PROVE  IInv' \/ Stuck'
<1>1. CASE Next /\ ~Retry
  BY <1>1, SenderStep, RecvStep, StackerStep, BreakSafe, AcceptSafe, StartRecvSafe,
     StartWatchSafe, ConnectSafe, ReconnectSafe, PutMsgSafe, ReadFailsSafe, ReadAndAckSafe
     DEF Next, ExportMain, ImportMain, MessageReceiver
<1>2. CASE Retry
  <2>1. Len(toImport) + Len(toExport) <= SendQueueLen
    BY NoMoreThanSlots DEF IInv
  <2> QED
    BY <1>2, <2>1, RetrySafe, StuckBegins
<1>3. CASE UNCHANGED vars
  BY <1>3 DEF vars, state, queues, net, import, history, fates, Gone, IInv, Types,
     Connections, Marked, Placed, Numbered, OwnNumbers, Carried, Once, AllKept, Kept, At, New,
     Unsent, Reviewed
<1> QED
  BY <1>1, <1>2, <1>3

LEMMA BaseHolds == IInv \/ Stuck => Base
BY DEF IInv, Stuck, Base, Marked

(* No message is forgotten (NoneForgotten), wherever threads are killed    *)
(* and connections break: it is in OutQueue, in a slot that waits for its  *)
(* acknowledgement, at hand, or in the ring of the partner, or it was      *)
(* given up by a full OutQueue or lost with a killed thread; until the     *)
(* queue is jammed (export_ack.c, SocketSender and main).                  *)
THEOREM NothingForgotten == Spec => []NoneForgotten
<1>1. Init => IInv \/ Stuck
  BY InitSafe
<1>2. (IInv \/ Stuck) /\ [Next]_vars => (IInv \/ Stuck)'
  BY StepSafe, StuckStays
<1>3. IInv => NoneForgotten
  BY DEF IInv, AllKept, NoneForgotten, Gone
<1>4. Stuck => NoneForgotten
  <2> SUFFICES ASSUME Stuck PROVE Jammed
    BY DEF NoneForgotten
  <2> QED
    BY DEF Stuck, Jammed, At
<1> QED
  BY <1>1, <1>2, <1>3, <1>4, PTL DEF Spec
-----------------------------------------------------------------------------
(* Types and bounds.                                                       *)

(* A slot without a message is not in use.                                 *)
Empty(s) ==
  /\ SQ[s].status = "ack"
  /\ sender.pc \in {"taken", "filled", "new", "numbered"} => s # SendSequence
  /\ sender.pc \in {"send", "sent"} => s # sender.i
  /\ At("resent") => s # Reviewed(sender.i)

AllMsgs(q) == \A k \in 1 .. Len(q) : q[k].m \in Msgs

(* What is a message somewhere was one in OutQueue, which has a limit.     *)
Sound ==
  /\ \A s \in Slots : SQ[s].m = 0 => Empty(s)
  /\ AllMsgs(toImport)
  /\ receiver.pc = "acked" => receiver.m \in Msgs
  /\ {got, dropped, lost, early} \subseteq SUBSET Msgs
  /\ Len(OutQueue) <= RingSize
  /\ senderStatus \in Status /\ recvStatus \in Status /\ recv \in BOOLEAN
  /\ mutex \in {"free", "held", "dead"} /\ breaks \in 0 .. MaxBreaks

LEMMA InitSound == Init => Sound
<1> SUFFICES ASSUME Init PROVE Sound
  OBVIOUS
<1>1. Len(OutQueue) <= RingSize /\ 0 \in 0 .. MaxBreaks
  BY ExportAssumption DEF Init
<1>2. \A s \in Slots : Empty(s)
  BY DEF Init, Empty, At
<1>3. AllMsgs(toImport)
  BY DEF Init, AllMsgs
<1>4. {got, dropped, lost, early} \subseteq SUBSET Msgs
  BY DEF Init
<1> QED
  BY <1>1, <1>2, <1>3, <1>4 DEF Init, Sound, Status

(* A message is not 0.                                                     *)
LEMMA NotZero == \A m \in 0 .. MaxMsgs : m \in Msgs <=> m # 0
BY ExportAssumption DEF Msgs

LEMMA StillMsgs ==
  ASSUME NEW q \in Seq(Packets), AllMsgs(q)
  PROVE  /\ \A p \in Cut(q) : AllMsgs(p)
         /\ q # <<>> => AllMsgs(Tail(q)) /\ Head(q).m \in Msgs
         /\ \A x \in Packets : x.m \in Msgs => AllMsgs(Append(q, x))
<1>1. ASSUME NEW p \in Cut(q) PROVE AllMsgs(p)
  BY CutElements DEF AllMsgs
<1>2. ASSUME q # <<>> PROVE AllMsgs(Tail(q)) /\ Head(q).m \in Msgs
  BY <1>2, TailElements DEF AllMsgs
<1>3. ASSUME NEW x \in Packets, x.m \in Msgs PROVE AllMsgs(Append(q, x))
  <2>1. /\ Len(q) \in Nat /\ Len(Append(q, x)) = Len(q) + 1
        /\ \A k \in 1 .. Len(q) : Append(q, x)[k] = q[k]
        /\ Append(q, x)[Len(q) + 1] = x
    BY AppendElements
  <2>2. \A k \in 1 .. Len(Append(q, x)) : k \in 1 .. Len(q) \/ k = Len(q) + 1
    BY <2>1
  <2> QED
    BY <1>3, <2>1, <2>2 DEF AllMsgs
<1> QED
  BY <1>1, <1>2, <1>3

(* What is sent is a message.                                              *)
LEMMA SentSound ==
  ASSUME Base, Sound, SocketSender
  PROVE  AllMsgs(toImport')
<1> USE DEF Base
<1>1. toImport \in Seq(Packets) /\ SQ \in SlotTypes /\ AllMsgs(toImport)
  BY DEF Types, Sound
<1>2. ASSUME NEW s \in Slots, SQ[s].m # 0
      PROVE  AllMsgs(Append(toImport, [m |-> SQ[s].m, sequence |-> SQ[s].sequence]))
  <2> DEFINE x == [m |-> SQ[s].m, sequence |-> SQ[s].sequence]
  <2>1. x \in Packets /\ x.m \in Msgs
    BY <1>1, <1>2, NotZero DEF SlotTypes, Packets
  <2> HIDE DEF x
  <2>2. AllMsgs(Append(toImport, x))
    BY <1>1, <2>1, StillMsgs
  <2> QED
    BY <2>2 DEF x
<1>3. CASE Resend
  <2>1. Reviewed(sender.i) \in Slots /\ SQ[Reviewed(sender.i)].m # 0
    BY <1>3, SenderTypes DEF Resend, Unacked, Sound, Empty
  <2> QED
    BY <1>1, <1>2, <1>3, <2>1 DEF Resend, SendPacket, Fails
<1>4. CASE Send
  <2>1. sender.i \in Slots /\ SQ[sender.i].m # 0
    BY <1>4 DEF Send, At, Placed, Sound, Empty
  <2> QED
    BY <1>1, <1>2, <1>4, <2>1 DEF Send, SendPacket, Fails
<1>5. CASE ~Resend /\ ~Send
  <2>1. toImport' = toImport
    BY <1>5 DEF SocketSender, Skip, MarkResent, BeatFails, Wait, Dequeue, Unlock, MarkNew,
       Number, Advance, MarkSent, Fails
  <2> QED
    BY <1>1, <2>1
<1> QED
  BY <1>3, <1>4, <1>5

LEMMA SenderSound ==
  ASSUME Base, Sound, SocketSender
  PROVE  Sound'
<1> USE DEF Base
<1>1. /\ UNCHANGED <<recvStatus, recv, receiver, got, dropped, lost, early, breaks>>
      /\ SQ \in SlotTypes /\ SendSequence \in Slots /\ OutQueue \in Seq(Msgs)
  BY DEF SocketSender, SenderRest, import, history, fates, Types
<1>2. /\ Len(OutQueue') <= RingSize /\ senderStatus' \in Status
      /\ mutex' \in {"free", "held", "dead"}
  <2>1. CASE Dequeue
    <3>1. OutQueue # <<>> => Len(Tail(OutQueue)) = Len(OutQueue) - 1 /\ Len(OutQueue) \in Nat
      BY <1>1, TailElements
    <3> QED
      BY <2>1, <3>1, ExportAssumption DEF Dequeue, Sound
  <2>2. CASE ~Dequeue
    BY <2>2 DEF SocketSender, Sound, Status, Skip, Resend, MarkResent, BeatFails, Wait,
       Unlock,
       MarkNew, Number, Advance, Send, MarkSent, SendPacket, Fails, queues
  <2> QED
    BY <2>1, <2>2
<1>3. \A s \in Slots : SQ'[s].m = 0 => Empty(s)'
  <2>1. CASE Skip \/ BeatFails \/ Wait \/ Unlock \/ Resend \/ Send
    BY <1>1, <2>1, SenderTypes DEF Sound, Empty, Skip, BeatFails, Wait, Unlock, Resend,
       Send,
       SendPacket, Fails, queues, At, Goto, Types, Placed, Unacked, Reviewed
  <2>2. CASE MarkResent
    BY <1>1, <2>2, SenderTypes DEF Sound, Empty, MarkResent, SlotTypes, At
  <2>3. CASE MarkNew
    BY <1>1, <2>3 DEF Sound, Empty, MarkNew, SlotTypes, At, Goto, Types
  <2>4. CASE Number
    BY <1>1, <2>4 DEF Sound, Empty, Number, SlotTypes, At, Goto, Types
  <2>5. CASE Advance
    BY <1>1, <2>5 DEF Sound, Empty, Advance, At
  <2>6. CASE MarkSent
    BY <1>1, <2>6 DEF Sound, Empty, MarkSent, SlotTypes, At
  <2>7. CASE Dequeue
    <3>1. /\ UNCHANGED SendSequence /\ sender.pc \in {"top", "wait"} /\ sender'.i = sender.i
          /\ sender'.pc \in {"none", "taken"}
          /\ sender'.pc = "taken" => OutQueue # <<>>
          /\ OutQueue = <<>> => UNCHANGED SQ
      BY <2>7 DEF Dequeue, SlotFree, At, Goto, Types
    <3>2. ASSUME OutQueue # <<>>
          PROVE  /\ \A s \in Slots : SQ'[s].status = SQ[s].status
                 /\ \A s \in Slots : s # SendSequence => SQ'[s].m = SQ[s].m
                 /\ SQ'[SendSequence].m # 0
      <4>1. PICK x \in Msgs : x = Head(OutQueue)
        BY <1>1, <3>2, TailElements
      <4>2. SQ' = [SQ EXCEPT ![SendSequence].m = x]
        BY <2>7, <3>2, <4>1 DEF Dequeue
      <4>3. x # 0
        BY ExportAssumption DEF Msgs
      <4> QED
        BY <1>1, <4>2, <4>3 DEF SlotTypes
    <3> QED
      BY <1>1, <3>1, <3>2 DEF Sound, Empty, At
  <2> QED
    BY <2>1, <2>2, <2>3, <2>4, <2>5, <2>6, <2>7 DEF SocketSender
<1> QED
  BY <1>1, <1>2, <1>3, SentSound DEF Sound

LEMMA StepSound ==
  ASSUME Base, Sound, [Next]_vars
  PROVE  Sound'
<1> USE DEF Base
<1>1. CASE SocketSender
  BY <1>1, SenderSound
<1>2. CASE SocketRecv
  <2>1. CASE Acknowledged
    <3>1. UNCHANGED <<senderStatus, sender, recv, recvStatus, SendSequence, OutQueue,
                      mutex,
                      toImport, receiver, got, dropped, lost, early, breaks>>
      BY <1>2, <2>1 DEF SocketRecv, Acknowledged, import, history, fates
    <3>2. \A s \in Slots : SQ'[s].m = 0 => SQ[s].m = 0 /\ SQ'[s].status \in {"ack", SQ[s].status}
      BY <2>1 DEF Acknowledged, Types, SlotTypes
    <3> QED
      BY <3>1, <3>2 DEF Sound, Empty, At, Reviewed
  <2>2. CASE RecvFails
    BY <1>2, <2>2 DEF SocketRecv, RecvFails, Sound, Empty, At, Reviewed, Status,
       import, history, fates
  <2> QED
    BY <1>2, <2>1, <2>2 DEF SocketRecv
<1>3. CASE MessageStacker
  <2>1. OutQueue \in Seq(Msgs) /\ stacked' \in Msgs
    BY <1>3, ExportAssumption DEF MessageStacker, Types, Msgs
  <2>2. Len(OutQueue') <= RingSize /\ dropped' \subseteq Msgs
    <3>1. CASE Len(OutQueue) = RingSize
      <4>1. OutQueue # <<>>
        BY <3>1, ExportAssumption
      <4>2. /\ Tail(OutQueue) \in Seq(Msgs) /\ Len(Tail(OutQueue)) = Len(OutQueue) - 1
            /\ Head(OutQueue) \in Msgs
        BY <2>1, <4>1, TailElements
      <4>3. OutQueue' = Append(Tail(OutQueue), stacked') /\ dropped' = dropped \cup {Head(OutQueue)}
        BY <1>3, <3>1 DEF MessageStacker
      <4>4. Len(OutQueue') = Len(Tail(OutQueue)) + 1
        BY <2>1, <4>2, <4>3, AppendElements
      <4> QED
        BY <3>1, <4>2, <4>3, <4>4, ExportAssumption DEF Sound
    <3>2. CASE Len(OutQueue) # RingSize
      <4>1. OutQueue' = Append(OutQueue, stacked') /\ dropped' = dropped
        BY <1>3, <3>2 DEF MessageStacker
      <4>2. Len(OutQueue) \in Nat /\ Len(OutQueue') = Len(OutQueue) + 1
        BY <2>1, <4>1, AppendElements
      <4> QED
        BY <3>2, <4>1, <4>2, ExportAssumption DEF Sound
    <3> QED
      BY <3>1, <3>2
  <2> QED
    BY <1>3, <2>2 DEF MessageStacker, Sound, Empty, At, Reviewed, state, net, import
<1>4. CASE Accept \/ StartRecv \/ StartWatch
  <2>1. /\ sender' = sender \/ sender' = [pc |-> "review", i |-> 0]
        /\ senderStatus' \in Status /\ recvStatus' \in Status /\ recv' \in BOOLEAN
        /\ UNCHANGED <<SQ, SendSequence, OutQueue, mutex, toImport, receiver, got, dropped,
                       lost, early, breaks>>
    BY <1>4 DEF Accept, StartRecv, StartWatch, Sound, Status, queues, net, import, history,
       fates
  <2> QED
    BY <2>1 DEF Sound, Empty, At, Reviewed
<1>5. CASE Retry
  <2>1. lost' \subseteq Msgs /\ early' \subseteq Msgs
    <3>1. SendSequence \in Slots /\ SQ[SendSequence].m \in 0 .. MaxMsgs
      BY DEF Types, SlotTypes
    <3> QED
      BY <1>5, <3>1, NotZero DEF Retry, Sound, Empty, At
  <2>2. breaks' \in 0 .. MaxBreaks
    BY <1>5, ExportAssumption DEF Retry, ImportLost, Fault, Sound
  <2>3. AllMsgs(toImport')
    BY <1>5, StillMsgs DEF Retry, Sound, Types
  <2> QED
    BY <1>5, <2>1, <2>2, <2>3 DEF Retry, Sound, Empty, At, Status
<1>6. CASE ImportMain
  <2>1. lost' \subseteq Msgs /\ UNCHANGED <<dropped, early>>
    BY <1>6 DEF ImportMain, Connect, Reconnect, Sound, fates
  <2>2. breaks' \in 0 .. MaxBreaks
    BY <1>6, ExportAssumption DEF ImportMain, Connect, Reconnect, Fault, Sound
  <2>3. receiver'.pc # "acked" /\ got' = got
    BY <1>6 DEF ImportMain, Connect, Reconnect
  <2>4. AllMsgs(toImport')
    BY <1>6 DEF ImportMain, Connect, Reconnect, net, Sound, AllMsgs
  <2> QED
    BY <1>6, <2>1, <2>2, <2>3, <2>4 DEF ImportMain, ImportRest, Sound, Empty, At, Reviewed,
       state, queues
<1>7. CASE MessageReceiver
  <2>1. /\ receiver'.pc = "acked" => receiver'.m \in Msgs
        /\ AllMsgs(toImport')
    <3>1. toImport \in Seq(Packets) /\ AllMsgs(toImport)
      BY DEF Types, Sound
    <3>2. CASE ReadAndAck
      BY <3>1, <3>2, StillMsgs DEF ReadAndAck
    <3>3. CASE PutMsg \/ ReadFails
      BY <3>1, <3>3 DEF PutMsg, ReadFails, net
    <3> QED
      BY <1>7, <3>2, <3>3 DEF MessageReceiver
  <2>2. got' \subseteq Msgs /\ UNCHANGED <<dropped, lost, early, breaks>>
    BY <1>7 DEF MessageReceiver, ReadAndAck, PutMsg, ReadFails, Sound, fates
  <2> QED
    BY <1>7, <2>1, <2>2 DEF MessageReceiver, ImportRest, Sound, Empty, At, Reviewed,
       state, queues
<1>8. CASE Break
  <2>1. breaks' \in 0 .. MaxBreaks
    BY <1>8, ExportAssumption DEF Break, Fault, Sound
  <2>2. AllMsgs(toImport')
    BY <1>8, StillMsgs DEF Break, Sound, Types
  <2> QED
    BY <1>8, <2>1, <2>2 DEF Break, Sound, Empty, At, Reviewed, state, queues, import, fates
<1>9. CASE UNCHANGED vars
  BY <1>9 DEF vars, state, queues, net, import, history, fates, Sound, Empty, At, Reviewed
<1> QED
  BY <1>1, <1>2, <1>3, <1>4, <1>5, <1>6, <1>7, <1>8, <1>9 DEF Next, ExportMain

(* TypeOK, which bounds what is under way between export_ack and           *)
(* import_ack by the number of slots: a slot is not filled again before    *)
(* its acknowledgement came, and a jammed queue sends no slot twice on one *)
(* connection (export_ack.c, SocketSender).                                *)
THEOREM TypeCorrect == Spec => []TypeOK
<1>1. Init => (IInv \/ Stuck) /\ Sound
  BY InitSafe, InitSound
<1>2. (IInv \/ Stuck) /\ Sound /\ [Next]_vars => (IInv \/ Stuck)' /\ Sound'
  BY StepSafe, StuckStays, StepSound, BaseHolds
<1>3. (IInv \/ Stuck) /\ Sound => TypeOK
  <2> SUFFICES ASSUME IInv \/ Stuck, Sound PROVE TypeOK
    OBVIOUS
  <2>1. Types
    BY BaseHolds DEF Base
  <2>2. toImport \in Seq([m : Msgs, sequence : Slots])
    <3> DEFINE R == [m : Msgs, sequence : Slots]
    <3>1. toImport \in Seq(Packets)
      BY <2>1 DEF Types
    <3>2. ASSUME NEW k \in 1 .. Len(toImport)
          PROVE  toImport[k] \in R
      <4>1. toImport[k] \in Packets /\ toImport[k].m \in Msgs
        BY <3>1 DEF Sound, AllMsgs
      <4> QED
        BY <4>1 DEF Packets
    <3> HIDE DEF R
    <3>3. toImport \in Seq(R)
      BY <3>1, <3>2
    <3> QED
      BY <3>3 DEF R
  <2>3. Len(toImport) + Len(toExport) <= SendQueueLen
    <3>1. CASE IInv
      BY <3>1, NoMoreThanSlots DEF IInv
    <3>2. CASE Stuck
      <4>1. /\ Looked \in Nat /\ Looked <= SendQueueLen
            /\ Len(toImport) + Len(toExport) <= Looked
        BY <2>1, <3>2, SenderTypes DEF Stuck, Base, Placed, Looked, At
      <4>2. Len(toImport) \in Nat /\ Len(toExport) \in Nat /\ SendQueueLen \in Nat
        BY <2>1, ExportAssumption DEF Types
      <4> QED
        BY <4>1, <4>2
    <3> QED
      BY <3>1, <3>2
  <2> QED
    BY <2>1, <2>2, <2>3 DEF TypeOK, Types, SlotTypes, Sound
<1> QED
  BY <1>1, <1>2, <1>3, PTL DEF Spec
-----------------------------------------------------------------------------
(* Messages arrive in order (FirstInOrder).  What is stacked goes through  *)
(* OutQueue, a slot and the connection, perhaps several times; at each     *)
(* place messages are in order, and what is behind was stacked later.      *)

(* A slot whose message is not known to have arrived; its status may have  *)
(* been cleared while SocketSender was about to set it.                    *)
Live(s) ==
  \/ SQ[s].status # "ack"
  \/ sender.pc \in {"taken", "filled"} /\ s = SendSequence
  \/ At("sent") /\ s = sender.i
  \/ At("resent") /\ s = Reviewed(sender.i)

(* SocketSender has a new message at hand and SendSequence not yet moved.  *)
Filling == sender.pc \in {"taken", "filled", "new", "numbered"}

(* The message at SendSequence is the last that was dequeued: it is at     *)
(* hand, or it was when SocketSender was killed.                           *)
Newest == Filling \/ SQ[SendSequence].m \in early

(* From SendSequence on messages are in order; the newest may be first.    *)
SlotsInOrder ==
  \A i, j \in 0 .. SendQueueLen - 1 :
    i < j /\ Live(Reviewed(i)) /\ Live(Reviewed(j)) =>
      IF Newest /\ i = 0 THEN SQ[Reviewed(j)].m < SQ[Reviewed(i)].m
      ELSE SQ[Reviewed(i)].m < SQ[Reviewed(j)].m

(* The message that is dequeued next.                                      *)
NextOut == IF OutQueue = <<>> THEN stacked + 1 ELSE Head(OutQueue)

QueueInOrder ==
  /\ \A i, j \in 1 .. Len(OutQueue) : i < j => OutQueue[i] < OutQueue[j]
  /\ \A i \in 1 .. Len(OutQueue) : OutQueue[i] <= stacked

(* What import_ack will put if nothing breaks any more.                    *)
Way ==
  IF receiver.pc = "off" THEN {}
  ELSE {toImport[k].m : k \in 1 .. Len(toImport)} \cup
       (IF receiver.pc = "acked" THEN {receiver.m} ELSE {})

WayInOrder ==
  /\ \A k, l \in 1 .. Len(toImport) :
       k < l => toImport[k].m < toImport[l].m \/ toImport[k].m \in early
  /\ receiver.pc = "acked" =>
       \A k \in 1 .. Len(toImport) : receiver.m < toImport[k].m \/ receiver.m \in early

(* A message whose slot was killed half made stays where it was; the next  *)
(* one takes its slot.                                                     *)
EarlyInPlace ==
  /\ \A s \in Slots : Live(s) /\ SQ[s].m \in early => s = SendSequence /\ ~Filling
  /\ \A x \in early : x < NextOut

(* All of this was dequeued before what is in OutQueue.                    *)
Dequeued ==
  /\ \A s \in Slots : Live(s) => SQ[s].m < NextOut
  /\ \A x \in Way \cup got : x < NextOut

(* x is in the ring of the partner, or newer than all that is.             *)
Timely(x) == x \in got \/ \A k \in got \ early : k < x

NothingStale ==
  /\ \A s \in Slots : Live(s) => Timely(SQ[s].m)
  /\ \A x \in Way : Timely(x)

(* What is older than a message on the way is there or on the way.         *)
NoneBehind ==
  \A x \in Way \ early, s \in Slots :
    Live(s) /\ SQ[s].m < x => SQ[s].m \in got \cup Way

(* What SocketSender will still send on this connection.                   *)
ToSend(s) ==
  \/ At("review") /\ s \in Ahead(SendSequence, sender.i)
  \/ At("resent") /\ s \in Ahead(SendSequence, sender.i + 1)
  \/ Filling /\ s = SendSequence
  \/ At("send") /\ s = sender.i

(* While the connection stands, what is not to be sent any more was sent   *)
(* before the rest.                                                        *)
SentInOrder ==
  linked => \A s \in Slots : Live(s) =>
    IF ToSend(s) THEN \A x \in Way \ early : x < SQ[s].m ELSE SQ[s].m \in got \cup Way

Receiving ==
  /\ Sd = "queued" => receiver.pc = "read"
  /\ linked => receiver.pc # "off"
  /\ receiver.pc = "acked" => Sd = "open"

InOrder ==
  /\ SlotsInOrder /\ QueueInOrder /\ WayInOrder /\ EarlyInPlace /\ Dequeued
  /\ NothingStale /\ NoneBehind /\ SentInOrder /\ Receiving

(* The numbers compared are numbers.                                       *)
LEMMA Numbers ==
  ASSUME Base, Sound
  PROVE  /\ \A s \in Slots : SQ[s].m \in Int
         /\ Way \subseteq Int /\ got \subseteq Int /\ early \subseteq Int /\ NextOut \in Int
         /\ \A k \in 1 .. Len(toImport) : toImport[k].m \in Int
         /\ receiver.m \in Int /\ stacked \in Int /\ Len(toImport) \in Nat
<1> USE DEF Base
<1>1. toImport \in Seq(Packets) /\ MaxMsgs \in Nat /\ Len(toImport) \in Nat
  BY ExportAssumption DEF Types
<1>2. \A k \in 1 .. Len(toImport) : toImport[k].m \in Int
  <2> TAKE k \in 1 .. Len(toImport)
  <2>1. toImport[k] \in Packets
    BY <1>1
  <2> QED
    BY <2>1, <1>1 DEF Packets
<1>3. receiver.m \in Int /\ stacked \in Int
  BY <1>1 DEF Types
<1>4. Way \subseteq Int
  BY <1>2, <1>3 DEF Way
<1>5. got \subseteq Int /\ early \subseteq Int
  BY <1>1 DEF Sound, Msgs
<1>6. NextOut \in Int
  <2>1. CASE OutQueue = <<>>
    BY <2>1, <1>3 DEF NextOut
  <2>2. CASE OutQueue # <<>>
    <3>1. Head(OutQueue) \in Msgs
      BY <2>2, TailElements DEF Types
    <3> QED
      BY <3>1, <2>2, <1>1 DEF NextOut, Msgs
  <2> QED
    BY <2>1, <2>2
<1>7. \A s \in Slots : SQ[s].m \in Int
  BY <1>1 DEF Types, SlotTypes
<1> QED
  BY <1>1, <1>2, <1>3, <1>4, <1>5, <1>6, <1>7

LEMMA FirstReviewed ==
  ASSUME Base
  PROVE  /\ Reviewed(0) = SendSequence /\ SendSequence \in Slots
         /\ SendQueueLen \in Nat /\ SendQueueLen > 0
         /\ \A i \in 0 .. SendQueueLen - 1 : Reviewed(i) \in Slots
<1>1. SendSequence \in Slots /\ SendQueueLen \in Nat /\ SendQueueLen > 0
  BY ExportAssumption DEF Base, Types
<1>2. Reviewed(0) = SendSequence
  BY <1>1 DEF Reviewed, Slots
<1> QED
  BY <1>1, <1>2, Modulo DEF Reviewed

(* Slots stay in order when SendSequence does not move and messages are    *)
(* only forgotten.                                                         *)
LEMMA SameOrder ==
  ASSUME Base, SlotsInOrder, SendSequence' = SendSequence,
         \A s \in Slots : Live(s)' => Live(s) /\ SQ'[s].m = SQ[s].m,
         \A s \in Slots : s = SendSequence /\ Live(s)' => (Newest' <=> Newest)
  PROVE  SlotsInOrder'
<1>1. \A i : Reviewed(i)' = Reviewed(i)
  BY DEF Reviewed
<1> SUFFICES ASSUME NEW i \in 0 .. SendQueueLen - 1, NEW j \in 0 .. SendQueueLen - 1,
                    i < j, Live(Reviewed(i))', Live(Reviewed(j))'
             PROVE  IF Newest' /\ i = 0 THEN SQ'[Reviewed(j)].m < SQ'[Reviewed(i)].m
                    ELSE SQ'[Reviewed(i)].m < SQ'[Reviewed(j)].m
  BY <1>1 DEF SlotsInOrder
<1>2. Reviewed(i) \in Slots /\ Reviewed(j) \in Slots
  BY FirstReviewed
<1>3. PICK s \in Slots, t \in Slots : s = Reviewed(i) /\ t = Reviewed(j)
  BY <1>2
<1>4. Live(s)' /\ Live(t)'
  BY <1>1, <1>3 DEF Live
<1>5. Live(s) /\ Live(t) /\ SQ'[s].m = SQ[s].m /\ SQ'[t].m = SQ[t].m
  BY <1>4
<1>6. i = 0 => (Newest' <=> Newest)
  BY <1>3, <1>4, FirstReviewed
<1> QED
  BY <1>3, <1>5, <1>6 DEF SlotsInOrder

(* Everything but the order of the slots and of what is to be sent stays   *)
(* when messages are only forgotten and the connection is only cut.        *)
LEMMA StillInOrder ==
  ASSUME Base, Sound, InOrder,
         UNCHANGED <<receiver, got, OutQueue>>, stacked' \in Int, stacked <= stacked',
         early \subseteq early',
         toImport' \in Cut(toImport),
         \A s \in Slots : Live(s)' => Live(s) /\ SQ'[s].m = SQ[s].m
  PROVE  QueueInOrder' /\ WayInOrder' /\ Dequeued' /\ NothingStale' /\ NoneBehind'
<1> USE DEF InOrder
<1>1. /\ Len(toImport') \in Nat
      /\ \A k \in 1 .. Len(toImport') : k \in 1 .. Len(toImport) /\ toImport'[k] = toImport[k]
  <2>1. toImport \in Seq(Packets)
    BY DEF Base, Types
  <2> QED
    BY <2>1, CutElements
<1>2. QueueInOrder' /\ NextOut <= NextOut' /\ NextOut' \in Int
  <2>1. OutQueue \in Seq(Msgs)
    BY DEF Base, Types
  <2>2. \A k \in 1 .. Len(OutQueue) : OutQueue[k] \in Int
    <3> TAKE k \in 1 .. Len(OutQueue)
    <3>1. OutQueue[k] \in Msgs
      BY <2>1
    <3> QED
      BY <3>1 DEF Msgs
  <2>3. QueueInOrder'
    BY <2>2, Numbers DEF QueueInOrder
  <2> QED
    BY <2>3, Numbers DEF NextOut
<1>3. WayInOrder'
  BY <1>1 DEF WayInOrder
<1>4. Way' \subseteq Way
  BY <1>1 DEF Way
<1>5. Dequeued'
  BY <1>2, <1>4, Numbers DEF Dequeued
<1>6. NothingStale'
  BY <1>4 DEF NothingStale, Timely
<1>7. NoneBehind'
  <2> SUFFICES ASSUME NEW x \in Way', x \notin early, NEW s \in Slots, Live(s)', SQ'[s].m < x
               PROVE  SQ'[s].m \in got \cup Way'
    BY DEF NoneBehind
  <2>1. SQ'[s].m = SQ[s].m /\ SQ[s].m \in got \cup Way /\ receiver.pc # "off"
    BY <1>4 DEF NoneBehind, Way
  <2>2. ASSUME NEW l \in 1 .. Len(toImport), SQ[s].m = toImport[l].m
        PROVE  SQ[s].m \in Way'
    <3>1. PICK k \in 1 .. Len(toImport') : x = toImport[k].m
      <4>1. ~(receiver.pc = "acked" /\ x = receiver.m)
        BY <2>1, <2>2, Numbers DEF WayInOrder
      <4> QED
        BY <4>1, <1>1 DEF Way
    <3>2. k \in 1 .. Len(toImport) /\ toImport[l].m < toImport[k].m
      BY <3>1, <2>1, <2>2, <1>1
    <3>3. l <= k
      BY <3>1, <3>2, Numbers DEF WayInOrder
    <3>4. l \in 1 .. Len(toImport') /\ toImport'[l] = toImport[l]
      BY <3>3, <1>1
    <3> QED
      BY <3>4, <2>1, <2>2 DEF Way
  <2> QED
    BY <2>1, <2>2 DEF Way
<1> QED
  BY <1>2, <1>3, <1>5, <1>6, <1>7

(* What is to be sent stays in order while nothing is sent.                *)
LEMMA StillSent ==
  ASSUME SentInOrder, linked' => linked /\ toImport' = toImport,
         UNCHANGED <<receiver, got, early>>,
         \A s \in Slots : Live(s)' => Live(s) /\ SQ'[s].m = SQ[s].m /\ (ToSend(s)' <=> ToSend(s))
  PROVE  SentInOrder'
<1> SUFFICES ASSUME linked', NEW s \in Slots, Live(s)'
             PROVE  IF ToSend(s)' THEN \A x \in Way' \ early : x < SQ'[s].m
                    ELSE SQ'[s].m \in got \cup Way'
  BY DEF SentInOrder
<1>1. Way' = Way
  BY DEF Way
<1> QED
  BY <1>1 DEF SentInOrder

(* A step that sends nothing, puts nothing and takes nothing on.           *)
LEMMA QuietInOrder ==
  ASSUME Base, Sound, InOrder,
         UNCHANGED <<SendSequence, receiver, got, OutQueue, stacked, early>>,
         Sd' \in {Sd, "open"}, toImport' \in Cut(toImport),
         linked' => linked /\ toImport' = toImport,
         \A s \in Slots : Live(s)' => Live(s) /\ SQ'[s].m = SQ[s].m,
         \A s \in Slots : linked' /\ Live(s)' => (ToSend(s)' <=> ToSend(s)),
         \A s \in Slots : s = SendSequence /\ Live(s)' => (Filling' <=> Filling)
  PROVE  InOrder'
<1>1. SlotsInOrder'
  <2>1. \A s \in Slots : s = SendSequence /\ Live(s)' => (Newest' <=> Newest)
    BY DEF Newest
  <2> QED
    BY <2>1, SameOrder DEF InOrder
<1>2. stacked' \in Int /\ stacked <= stacked' /\ EarlyInPlace'
  BY Numbers DEF InOrder, EarlyInPlace, NextOut
<1>3. QueueInOrder' /\ WayInOrder' /\ Dequeued' /\ NothingStale' /\ NoneBehind'
  BY <1>2, StillInOrder
<1>4. SentInOrder'
  <2>1. CASE linked'
    BY <2>1, StillSent DEF InOrder
  <2>2. CASE ~linked'
    BY <2>2 DEF SentInOrder
  <2> QED
    BY <2>1, <2>2
<1>5. Receiving'
  BY DEF InOrder, Receiving
<1> QED
  BY <1>1, <1>2, <1>3, <1>4, <1>5 DEF InOrder

LEMMA SkipInOrder ==
  ASSUME Base, Sound, InOrder, Skip, SenderRest
  PROVE  InOrder'
<1>1. /\ sender.pc = "review"
      /\ \/ /\ sender.i < SendQueueLen /\ SQ[Reviewed(sender.i)].status = "ack"
            /\ sender'.pc = "review" /\ sender'.i = sender.i + 1
         \/ sender.i = SendQueueLen /\ sender'.pc = "top" /\ sender'.i = 0
  BY SenderTypes DEF Base, Types, Skip, Unacked, At, Places
<1>2. UNCHANGED <<SendSequence, SQ, OutQueue, linked, toImport, Sd, receiver, got, stacked,
                  early>>
  BY DEF Skip, SenderRest, import, history, fates, queues
<1>3. toImport' \in Cut(toImport)
  BY <1>2, CutWhole DEF Base, Types
<1>4. \A s \in Slots : Live(s)' => Live(s) /\ SQ'[s].m = SQ[s].m
  BY <1>1, <1>2 DEF Live, At
<1>5. \A s \in Slots : Live(s)' => (ToSend(s)' <=> ToSend(s))
  BY <1>1, <1>2, SenderTypes DEF Base, Live, ToSend, At, Filling
<1>6. ~Filling /\ ~Filling'
  BY <1>1 DEF Filling
<1> QED
  BY <1>2, <1>3, <1>4, <1>5, <1>6, QuietInOrder

(* The status of a slot that was sent is set; SocketSender may be at       *)
(* another place then.                                                     *)
LEMMA MarkResentInOrder ==
  ASSUME Base, Sound, InOrder, MarkResent, SenderRest
  PROVE  InOrder'
<1>1. /\ sender.pc = "resent" /\ sender'.pc = "review" /\ sender'.i = sender.i + 1
      /\ sender.i < SendQueueLen
      /\ SQ' = [SQ EXCEPT ![Reviewed(sender.i)].status = "sent"]
  BY DEF Base, Placed, MarkResent, At
<1>2. UNCHANGED <<SendSequence, OutQueue, linked, toImport, Sd, receiver, got, stacked,
                  early>>
  BY DEF MarkResent, SenderRest, import, history, fates
<1>3. toImport' \in Cut(toImport)
  BY <1>2, CutWhole DEF Base, Types
<1>4. Reviewed(sender.i) \in Slots
  BY <1>1, SenderTypes DEF Base
<1>5. \A s \in Slots : SQ'[s].m = SQ[s].m /\ (s # Reviewed(sender.i) => SQ'[s].status = SQ[s].status)
  BY <1>1, <1>4 DEF Base, Types, SlotTypes
<1>6. \A s \in Slots : Live(s)' => Live(s) /\ SQ'[s].m = SQ[s].m
  BY <1>1, <1>5 DEF Live, At
<1>7. \A s \in Slots : Live(s)' => (ToSend(s)' <=> ToSend(s))
  BY <1>1, <1>2 DEF ToSend, At, Filling
<1>8. ~Filling /\ ~Filling'
  BY <1>1 DEF Filling
<1> QED
  BY <1>2, <1>3, <1>6, <1>7, <1>8, QuietInOrder

LEMMA MarkSentInOrder ==
  ASSUME Base, Sound, InOrder, MarkSent, SenderRest
  PROVE  InOrder'
<1>1. /\ sender.pc = "sent" /\ sender'.pc = "top" /\ sender.i \in Slots
      /\ SQ' = [SQ EXCEPT ![sender.i].status = "sent"]
  BY DEF Base, Placed, MarkSent, At
<1>2. UNCHANGED <<SendSequence, OutQueue, linked, toImport, Sd, receiver, got, stacked,
                  early>>
  BY DEF MarkSent, SenderRest, import, history, fates
<1>3. toImport' \in Cut(toImport)
  BY <1>2, CutWhole DEF Base, Types
<1>4. \A s \in Slots : SQ'[s].m = SQ[s].m /\ (s # sender.i => SQ'[s].status = SQ[s].status)
  BY <1>1 DEF Base, Types, SlotTypes
<1>5. \A s \in Slots : Live(s)' => Live(s) /\ SQ'[s].m = SQ[s].m
  BY <1>1, <1>4 DEF Live, At
<1>6. \A s \in Slots : Live(s)' => (ToSend(s)' <=> ToSend(s))
  BY <1>1, <1>2 DEF ToSend, At, Filling
<1>7. ~Filling /\ ~Filling'
  BY <1>1 DEF Filling
<1> QED
  BY <1>2, <1>3, <1>5, <1>6, <1>7, QuietInOrder

(* The thread ends, which it does only when the connection is broken.      *)
LEMMA FailsInOrder ==
  ASSUME Base, Sound, InOrder, Fails, SenderRest, ~linked, ~Filling, ~At("resent")
  PROVE  InOrder'
<1>1. sender'.pc = "off"
  BY DEF Fails, Goto, Base, Types
<1>2. UNCHANGED <<SendSequence, SQ, OutQueue, linked, toImport, Sd, receiver, got, stacked,
                  early>>
  BY DEF Fails, SenderRest, import, history, fates, queues
<1>3. toImport' \in Cut(toImport)
  BY <1>2, CutWhole DEF Base, Types
<1>4. \A s \in Slots : Live(s)' => Live(s) /\ SQ'[s].m = SQ[s].m
  BY <1>1, <1>2 DEF Live, At
<1>5. ~Filling'
  BY <1>1 DEF Filling
<1> QED
  BY <1>2, <1>3, <1>4, <1>5, QuietInOrder

(* The steps that only move SocketSender on, or mark its new slot.         *)
LEMMA WaitInOrder ==
  ASSUME Base, Sound, InOrder, Wait \/ Unlock \/ MarkNew \/ Number, SenderRest
  PROVE  InOrder'
<1>1. /\ SQ \in SlotTypes /\ SendSequence \in Slots
      /\ sender \in [pc : Places \cup {"off"}, i : 0 .. SendQueueLen]
  BY DEF Base, Types
<1>2. UNCHANGED <<SendSequence, OutQueue, linked, toImport, Sd, receiver, got, stacked,
                  early>>
  BY DEF Wait, Unlock, MarkNew, Number, SenderRest, import, history, fates, queues
<1>3. toImport' \in Cut(toImport)
  BY <1>2, CutWhole DEF Base, Types
<1>4. \/ /\ sender.pc \in {"top", "none"} /\ sender'.pc \in {"top", "wait"} /\ SQ' = SQ
      \/ /\ sender.pc = "taken" /\ sender'.pc = "filled" /\ SQ' = SQ
      \/ /\ sender.pc = "filled" /\ sender'.pc = "new"
         /\ SQ' = [SQ EXCEPT ![SendSequence].status = "new"]
      \/ /\ sender.pc = "new" /\ sender'.pc = "numbered"
         /\ SQ' = [SQ EXCEPT ![SendSequence].sequence = SendSequence]
  BY <1>1 DEF Wait, Unlock, MarkNew, Number, At, Goto, queues
<1>5. \A s \in Slots : SQ'[s].m = SQ[s].m /\ (s # SendSequence => SQ'[s].status = SQ[s].status)
  BY <1>1, <1>4 DEF SlotTypes
<1>6. sender.pc = "new" => SQ'[SendSequence].status = SQ[SendSequence].status
  BY <1>1, <1>4 DEF SlotTypes
<1>7. \A s \in Slots : Live(s)' => Live(s) /\ SQ'[s].m = SQ[s].m
  BY <1>2, <1>4, <1>5, <1>6 DEF Live, At
<1>8. Filling' <=> Filling
  BY <1>4 DEF Filling
<1>9. \A s \in Slots : Live(s)' => (ToSend(s)' <=> ToSend(s))
  BY <1>2, <1>4, <1>8 DEF ToSend, At
<1> QED
  BY <1>2, <1>3, <1>7, <1>8, <1>9, QuietInOrder

(* SendSequence moves on: what was at hand is last now.                    *)
LEMMA AdvanceInOrder ==
  ASSUME Base, Sound, InOrder, Advance, SenderRest
  PROVE  InOrder'
<1>1. /\ sender.pc = "numbered" /\ sender'.pc = "send" /\ sender'.i = SendSequence
      /\ SendSequence' = (SendSequence + 1) % SendQueueLen
  BY DEF Advance, At
<1>2. UNCHANGED <<SQ, OutQueue, linked, toImport, Sd, receiver, got, stacked, early>>
  BY DEF Advance, SenderRest, import, history, fates
<1>3. toImport' \in Cut(toImport)
  BY <1>2, CutWhole DEF Base, Types
<1>4. \A s \in Slots : Live(s)' => Live(s) /\ SQ'[s].m = SQ[s].m
  BY <1>1, <1>2 DEF Live, At
<1>5. \A s \in Slots : Live(s)' => (ToSend(s)' <=> ToSend(s))
  BY <1>1, <1>2 DEF ToSend, At, Filling
<1>6. \A i \in 0 .. SendQueueLen - 1 :
        Reviewed(i)' = Reviewed(IF i < SendQueueLen - 1 THEN i + 1 ELSE 0)
  <2> SUFFICES ASSUME NEW i \in 0 .. SendQueueLen - 1
               PROVE  (((SendSequence + 1) % SendQueueLen) + i) % SendQueueLen =
                      (SendSequence + (IF i < SendQueueLen - 1 THEN i + 1 ELSE 0)) % SendQueueLen
    BY <1>1 DEF Reviewed
  <2>1. SendSequence \in Slots /\ SendQueueLen \in Nat /\ SendQueueLen > 0
    BY FirstReviewed
  <2> DEFINE q == (SendSequence + 1) % SendQueueLen
  <2>2. q \in Slots /\ q = IF SendSequence + 1 < SendQueueLen THEN SendSequence + 1 ELSE 0
    BY <2>1 DEF Slots
  <2>3. (q + i) % SendQueueLen = IF q + i < SendQueueLen THEN q + i ELSE q + i - SendQueueLen
    BY <2>2, Modulo
  <2>4. (SendSequence + 0) % SendQueueLen = SendSequence
    BY <2>1 DEF Slots
  <2>5. i < SendQueueLen - 1 =>
          (SendSequence + (i + 1)) % SendQueueLen =
             IF SendSequence + (i + 1) < SendQueueLen THEN SendSequence + (i + 1)
             ELSE SendSequence + (i + 1) - SendQueueLen
    BY <2>1, Modulo
  <2> HIDE DEF q
  <2>6. i < SendQueueLen - 1 => (q + i) % SendQueueLen = (SendSequence + (i + 1)) % SendQueueLen
    BY <2>1, <2>2, <2>3, <2>5 DEF Slots
  <2>7. i = SendQueueLen - 1 => (q + i) % SendQueueLen = SendSequence
    BY <2>1, <2>2, <2>3 DEF Slots
  <2>8. i < SendQueueLen - 1 \/ i = SendQueueLen - 1
    BY <2>1
  <2> QED
    BY <2>4, <2>6, <2>7, <2>8 DEF q
<1>7. SlotsInOrder'
  <2> SUFFICES ASSUME NEW i \in 0 .. SendQueueLen - 1, NEW j \in 0 .. SendQueueLen - 1,
                      i < j, Live(Reviewed(i))', Live(Reviewed(j))'
               PROVE  SQ'[Reviewed(i)'].m < SQ'[Reviewed(j)'].m
    <3>1. \A s \in Slots : Live(s)' => SQ'[s].m \notin early'
      BY <1>1, <1>2, <1>4 DEF InOrder, EarlyInPlace, Filling
    <3>2. ~Filling' /\ SendSequence' \in Slots /\ Reviewed(0)' = SendSequence'
      <4>1. SendSequence \in Slots /\ SendQueueLen \in Nat /\ SendQueueLen > 0
        BY FirstReviewed
      <4>2. SendSequence' \in Slots
        BY <1>1, <4>1 DEF Slots
      <4>3. Reviewed(0)' = (SendSequence' + 0) % SendQueueLen
        BY DEF Reviewed
      <4>4. (SendSequence' + 0) % SendQueueLen = SendSequence'
        BY <4>1, <4>2 DEF Slots
      <4> QED
        BY <1>1, <4>2, <4>3, <4>4 DEF Filling
    <3> QED
      BY <3>1, <3>2 DEF SlotsInOrder, Newest
  <2> DEFINE k == i + 1
             l == IF j < SendQueueLen - 1 THEN j + 1 ELSE 0
  <2>1. k \in 0 .. SendQueueLen - 1 /\ l \in 0 .. SendQueueLen - 1 /\ k > 0 /\ (l = 0 \/ k < l)
    BY FirstReviewed
  <2>2. Reviewed(i)' = Reviewed(k) /\ Reviewed(j)' = Reviewed(l)
    BY <1>6, FirstReviewed
  <2> HIDE DEF k, l
  <2>3. PICK s \in Slots, t \in Slots : s = Reviewed(k) /\ t = Reviewed(l)
    BY <2>1, FirstReviewed
  <2>4. Live(s)' /\ Live(t)'
    BY <2>2, <2>3 DEF Live
  <2>5. Live(s) /\ Live(t)
    BY <2>4, <1>4
  <2>6. SQ[s].m < SQ[t].m
    BY <2>1, <2>3, <2>5, <1>1 DEF InOrder, SlotsInOrder, Newest, Filling
  <2> QED
    BY <2>2, <2>3, <2>6, <1>2
<1>8. QueueInOrder' /\ WayInOrder' /\ Dequeued' /\ NothingStale' /\ NoneBehind'
  BY <1>2, <1>3, <1>4, Numbers, StillInOrder
<1>9. EarlyInPlace'
  BY <1>1, <1>2, <1>4 DEF InOrder, EarlyInPlace, Filling, NextOut
<1>10. SentInOrder'
  BY <1>2, <1>4, <1>5, StillSent DEF InOrder
<1>11. Receiving'
  BY <1>2 DEF InOrder, Receiving
<1> QED
  BY <1>7, <1>8, <1>9, <1>10, <1>11 DEF InOrder

(* A packet is sent: everything older is there, on the way, or known to    *)
(* have arrived; everything still to be sent is newer.                     *)
LEMMA SentInTurn ==
  ASSUME Base, Sound, InOrder, linked, NEW t \in Slots, Live(t), ToSend(t), ~Filling,
     ~Filling',
         toImport' = Append(toImport, [m |-> SQ[t].m, sequence |-> SQ[t].sequence]),
         UNCHANGED <<SQ, SendSequence, OutQueue, linked, Sd, receiver, got, stacked, early>>,
         \A s \in Slots : Live(s)' => Live(s),
         \A s \in Slots : Live(s)' => (ToSend(s)' <=> ToSend(s) /\ s # t),
         \A s \in Slots : Live(s) /\ ToSend(s) /\ s # t =>
           SQ[t].m < SQ[s].m \/ SQ[t].m \in early
  PROVE  InOrder'
<1> DEFINE p == [m |-> SQ[t].m, sequence |-> SQ[t].sequence]
<1>1. p \in Packets /\ p.m = SQ[t].m /\ toImport \in Seq(Packets) /\ toImport' = Append(toImport, p)
  BY DEF Base, Types, SlotTypes, Packets
<1> HIDE DEF p
<1>2. /\ Len(toImport) \in Nat /\ Len(toImport') = Len(toImport) + 1
      /\ \A k \in 1 .. Len(toImport) : toImport'[k] = toImport[k]
      /\ toImport'[Len(toImport) + 1].m = SQ[t].m
  BY <1>1, AppendElements
<1>3. \A k \in 1 .. Len(toImport') : k \in 1 .. Len(toImport) \/ k = Len(toImport) + 1
  BY <1>2
<1>4. Len(toImport) + 1 \in 1 .. Len(toImport') /\ 1 .. Len(toImport) \subseteq 1 .. Len(toImport')
  BY <1>2
<1>5. receiver.pc # "off" /\ Way' = Way \cup {SQ[t].m}
  BY <1>2, <1>3, <1>4 DEF InOrder, Receiving, Way
<1>6. \A x \in Way \ early : x < SQ[t].m
  BY DEF InOrder, SentInOrder
<1>7. SlotsInOrder' /\ EarlyInPlace'
  <2>1. \A s \in Slots : s = SendSequence /\ Live(s)' => (Newest' <=> Newest)
    BY DEF Newest
  <2>2. SlotsInOrder'
    BY <2>1, SameOrder DEF InOrder
  <2> QED
    BY <2>2 DEF InOrder, EarlyInPlace, NextOut
<1>8. WayInOrder'
  <2>1. \A k \in 1 .. Len(toImport) : toImport[k].m \in Way
    BY <1>5 DEF Way
  <2>2. receiver.pc = "acked" => receiver.m \in Way
    BY <1>5 DEF Way
  <2>3. ASSUME NEW k \in 1 .. Len(toImport'), NEW l \in 1 .. Len(toImport'), k < l
        PROVE  toImport'[k].m < toImport'[l].m \/ toImport'[k].m \in early
    <3>1. k \in 1 .. Len(toImport)
      BY <1>2, <2>3
    <3> QED
      BY <1>2, <1>3, <1>6, <2>1, <2>3, <3>1 DEF InOrder, WayInOrder
  <2>4. ASSUME receiver.pc = "acked", NEW k \in 1 .. Len(toImport')
        PROVE  receiver.m < toImport'[k].m \/ receiver.m \in early
    BY <1>2, <1>3, <1>6, <2>2, <2>4 DEF InOrder, WayInOrder
  <2> QED
    BY <2>3, <2>4 DEF WayInOrder
<1>9. QueueInOrder' /\ NextOut' = NextOut
  BY DEF InOrder, QueueInOrder, NextOut
<1>10. Dequeued'
  BY <1>5, <1>9 DEF InOrder, Dequeued
<1>11. NothingStale'
  BY <1>5 DEF InOrder, NothingStale, Timely
<1>12. NoneBehind'
  <2> SUFFICES ASSUME NEW x \in Way', x \notin early, NEW s \in Slots, Live(s), SQ[s].m < x
               PROVE  SQ[s].m \in got \cup Way'
    BY DEF NoneBehind
  <2>1. CASE x \in Way
    BY <2>1, <1>5 DEF InOrder, NoneBehind
  <2>2. CASE x = SQ[t].m
    <3>1. s # t
      BY <2>2, Numbers
    <3>2. ~ToSend(s)
      BY <2>2, <3>1, Numbers
    <3> QED
      BY <3>2, <1>5 DEF InOrder, SentInOrder
  <2> QED
    BY <2>1, <2>2, <1>5
<1>13. SentInOrder'
  <2> SUFFICES ASSUME NEW s \in Slots, Live(s)'
               PROVE  IF ToSend(s)' THEN \A x \in Way' \ early : x < SQ[s].m
                      ELSE SQ[s].m \in got \cup Way'
    BY DEF SentInOrder
  <2>1. CASE ToSend(s) /\ s # t
    BY <2>1, <1>5 DEF InOrder, SentInOrder
  <2>2. CASE ~ToSend(s) \/ s = t
    BY <2>2, <1>5 DEF InOrder, SentInOrder
  <2> QED
    BY <2>1, <2>2
<1>14. Receiving'
  BY DEF InOrder, Receiving
<1> QED
  BY <1>7, <1>8, <1>9, <1>10, <1>11, <1>12, <1>13, <1>14 DEF InOrder

(* A packet that is written into a broken connection is lost.              *)
LEMMA ResendInOrder ==
  ASSUME Base, Sound, InOrder, Resend, SenderRest
  PROVE  InOrder'
<1> DEFINE t == Reviewed(sender.i)
<1>1. /\ sender.pc = "review" /\ sender.i \in 0 .. SendQueueLen - 1 /\ SQ[t].status # "ack"
      /\ t \in Slots /\ SendPacket(t, "resent")
  BY SenderTypes DEF Base, Resend, Unacked, At
<1>2. UNCHANGED <<Sd, receiver, got, stacked, early>>
  BY DEF SenderRest, import, history, fates
<1>3. CASE ~linked /\ Fails
  BY <1>1, <1>3, FailsInOrder DEF Filling, At
<1>4. CASE /\ Goto("resent")
           /\ UNCHANGED <<senderStatus, queues, linked>>
           /\ toImport' = IF linked THEN Append(toImport, [m |-> SQ[t].m, sequence |-> SQ[t].sequence])
                          ELSE toImport
  <2>1. sender'.pc = "resent" /\ sender'.i = sender.i
    BY <1>4 DEF Goto, Base, Types
  <2>2. UNCHANGED <<SQ, SendSequence, OutQueue, linked>>
    BY <1>4 DEF queues
  <2>3. t' = t
    BY <2>1, <2>2 DEF Reviewed
  <2>4. \A s \in Slots : Live(s)' => Live(s)
    BY <1>1, <2>1, <2>2, <2>3 DEF Live, At
  <2>5. ~Filling /\ ~Filling'
    BY <1>1, <2>1 DEF Filling
  <2>6. CASE linked
    <3>1. Live(t) /\ ToSend(t)
      BY <1>1, SenderTypes DEF Base, Live, ToSend, At
    <3>2. \A s \in Slots : ToSend(s)' <=> ToSend(s) /\ s # t
      BY <1>1, <2>1, <2>2, SenderTypes, FirstReviewed DEF Base, ToSend, At, Filling
    <3>3. ASSUME NEW s \in Slots, Live(s), ToSend(s), s # t
          PROVE  SQ[t].m < SQ[s].m \/ SQ[t].m \in early
      <4>1. s \in Ahead(SendSequence, sender.i)
        BY <1>1, <3>3 DEF ToSend, At, Filling
      <4>2. PICK j \in sender.i .. SendQueueLen - 1 : s = Reviewed(j)
        BY <4>1 DEF Ahead, Reviewed
      <4>3. j \in 0 .. SendQueueLen - 1 /\ sender.i < j
        BY <4>2, <3>3, <1>1, FirstReviewed
      <4> QED
        BY <4>2, <4>3, <3>1, <3>3, <2>5, <1>1, FirstReviewed DEF InOrder, SlotsInOrder, Newest
    <3> HIDE DEF t
    <3> QED
      BY <1>1, <1>2, <1>4, <2>2, <2>4, <2>5, <2>6, <3>1, <3>2, <3>3, SentInTurn
  <2>7. CASE ~linked
    <3>1. toImport' \in Cut(toImport) /\ ~linked'
      BY <1>4, <2>2, <2>7, CutWhole DEF Base, Types
    <3> QED
      BY <1>2, <2>2, <2>4, <2>5, <3>1, QuietInOrder
  <2> QED
    BY <2>6, <2>7
<1> QED
  BY <1>1, <1>3, <1>4 DEF SendPacket

LEMMA SendInOrder ==
  ASSUME Base, Sound, InOrder, Send, SenderRest
  PROVE  InOrder'
<1> DEFINE t == sender.i
<1>1. /\ sender.pc = "send" /\ SQ[t].status # "ack" /\ t \in Slots /\ SendPacket(t, "sent")
  BY DEF Base, Placed, Send, At
<1>2. UNCHANGED <<Sd, receiver, got, stacked, early>>
  BY DEF SenderRest, import, history, fates
<1>3. CASE ~linked /\ Fails
  BY <1>1, <1>3, FailsInOrder DEF Filling, At
<1>4. CASE /\ Goto("sent")
           /\ UNCHANGED <<senderStatus, queues, linked>>
           /\ toImport' = IF linked THEN Append(toImport, [m |-> SQ[t].m, sequence |-> SQ[t].sequence])
                          ELSE toImport
  <2>1. sender'.pc = "sent" /\ sender'.i = sender.i
    BY <1>4 DEF Goto, Base, Types
  <2>2. UNCHANGED <<SQ, SendSequence, OutQueue, linked>>
    BY <1>4 DEF queues
  <2>3. \A s \in Slots : Live(s)' => Live(s)
    BY <1>1, <2>1, <2>2 DEF Live, At
  <2>4. ~Filling /\ ~Filling'
    BY <1>1, <2>1 DEF Filling
  <2>5. CASE linked
    <3>1. Live(t) /\ ToSend(t) /\ \A s \in Slots : ToSend(s) => s = t
      BY <1>1 DEF Live, ToSend, At, Filling
    <3>2. \A s \in Slots : ~ToSend(s)'
      BY <2>1 DEF ToSend, At, Filling
    <3> HIDE DEF t
    <3> QED
      BY <1>1, <1>2, <1>4, <2>2, <2>3, <2>4, <2>5, <3>1, <3>2, SentInTurn
  <2>6. CASE ~linked
    <3>1. toImport' \in Cut(toImport) /\ ~linked'
      BY <1>4, <2>2, <2>6, CutWhole DEF Base, Types
    <3> QED
      BY <1>2, <2>2, <2>3, <2>4, <3>1, QuietInOrder
  <2> QED
    BY <2>5, <2>6
<1> QED
  BY <1>1, <1>3, <1>4 DEF SendPacket

(* The oldest of OutQueue leaves it; the newest of all joins it.           *)
LEMMA TailInOrder ==
  ASSUME NEW q \in Seq(Msgs), q # <<>>, NEW n \in Int,
         \A i, j \in 1 .. Len(q) : i < j => q[i] < q[j],
         \A i \in 1 .. Len(q) : q[i] <= n
  PROVE  /\ Tail(q) \in Seq(Msgs)
         /\ \A i, j \in 1 .. Len(Tail(q)) : i < j => Tail(q)[i] < Tail(q)[j]
         /\ \A i \in 1 .. Len(Tail(q)) : Tail(q)[i] <= n
         /\ Head(q) <= n /\ Head(q) \in Int
         /\ Tail(q) # <<>> => Head(q) < Head(Tail(q)) /\ Head(Tail(q)) \in Int
<1>1. /\ Tail(q) \in Seq(Msgs) /\ Head(q) \in Msgs /\ Head(q) = q[1]
      /\ Len(q) \in Nat /\ 1 \in 1 .. Len(q) /\ Len(Tail(q)) = Len(q) - 1
      /\ \A k \in 1 .. Len(Tail(q)) : k + 1 \in 1 .. Len(q) /\ Tail(q)[k] = q[k + 1]
  BY TailElements
<1>2. \A i, j \in 1 .. Len(Tail(q)) : i < j => Tail(q)[i] < Tail(q)[j]
  <2> TAKE i, j \in 1 .. Len(Tail(q))
  <2>1. i + 1 \in 1 .. Len(q) /\ j + 1 \in 1 .. Len(q) /\ (i < j => i + 1 < j + 1)
    BY <1>1
  <2> QED
    BY <2>1, <1>1
<1>3. \A i \in 1 .. Len(Tail(q)) : Tail(q)[i] <= n
  BY <1>1
<1>4. ASSUME Tail(q) # <<>> PROVE Head(q) < Head(Tail(q)) /\ Head(Tail(q)) \in Msgs
  <2>1. Head(Tail(q)) = Tail(q)[1] /\ 1 \in 1 .. Len(Tail(q)) /\ Head(Tail(q)) \in Msgs
    BY <1>1, <1>4, TailElements
  <2>2. Head(Tail(q)) = q[2] /\ 2 \in 1 .. Len(q)
    BY <2>1, <1>1
  <2> QED
    BY <2>1, <2>2, <1>1
<1>5. Msgs \subseteq Int
  BY DEF Msgs
<1> QED
  BY <1>1, <1>2, <1>3, <1>4, <1>5

LEMMA AppendInOrder ==
  ASSUME NEW q \in Seq(Msgs), NEW n \in Int, n + 1 \in Msgs,
         \A i, j \in 1 .. Len(q) : i < j => q[i] < q[j],
         \A i \in 1 .. Len(q) : q[i] <= n
  PROVE  LET r == Append(q, n + 1)
         IN  /\ \A i, j \in 1 .. Len(r) : i < j => r[i] < r[j]
             /\ \A i \in 1 .. Len(r) : r[i] <= n + 1
             /\ r # <<>> /\ Head(r) = IF q = <<>> THEN n + 1 ELSE Head(q)
<1> DEFINE r == Append(q, n + 1)
<1>1. /\ r \in Seq(Msgs) /\ Len(q) \in Nat /\ Len(r) = Len(q) + 1
      /\ \A k \in 1 .. Len(q) : r[k] = q[k]
      /\ r[Len(q) + 1] = n + 1
  BY AppendElements
<1>2. \A k \in 1 .. Len(q) : q[k] \in Int
  <2> TAKE k \in 1 .. Len(q)
  <2>1. q[k] \in Msgs
    OBVIOUS
  <2> QED
    BY <2>1 DEF Msgs
<1>3. r # <<>> /\ Head(r) = r[1] /\ (q # <<>> => Head(q) = q[1] /\ 1 \in 1 .. Len(q))
      /\ (q = <<>> => Len(q) = 0)
  BY <1>1
<1> HIDE DEF r
<1>4. Head(r) = IF q = <<>> THEN n + 1 ELSE Head(q)
  BY <1>1, <1>3
<1>5. \A k \in 1 .. Len(r) : k \in 1 .. Len(q) \/ k = Len(q) + 1
  BY <1>1
<1>6. \A i \in 1 .. Len(r) : r[i] <= n + 1
  BY <1>1, <1>2, <1>5
<1>7. ASSUME NEW i \in 1 .. Len(r), NEW j \in 1 .. Len(r), i < j PROVE r[i] < r[j]
  <2>1. i \in 1 .. Len(q)
    BY <1>1, <1>7
  <2>2. CASE j \in 1 .. Len(q)
    BY <1>1, <1>7, <2>1, <2>2
  <2>3. CASE j = Len(q) + 1
    BY <1>1, <1>2, <2>1, <2>3
  <2> QED
    BY <1>5, <2>2, <2>3
<1> QED
  BY <1>3, <1>4, <1>6, <1>7 DEF r

(* The slot that is filled gets the newest message that was dequeued.      *)
LEMMA DequeueInOrder ==
  ASSUME Base, Sound, InOrder, Dequeue, SenderRest
  PROVE  InOrder'
<1>1. /\ SQ \in SlotTypes /\ SendSequence \in Slots /\ OutQueue \in Seq(Msgs)
      /\ sender.pc \in {"top", "wait"} /\ SQ[SendSequence].status = "ack"
  BY DEF Base, Types, SlotTypes, Placed, New, Dequeue, SlotFree, At
<1>2. UNCHANGED <<SendSequence, linked, toImport, Sd, receiver, got, stacked, early>>
  BY DEF Dequeue, SenderRest, import, history, fates
<1>3. toImport' \in Cut(toImport)
  BY <1>2, CutWhole DEF Base, Types
<1>4. \A s \in Slots : (Live(s) <=> SQ[s].status # "ack") /\ ~ToSend(s)
  BY <1>1 DEF Live, ToSend, At, Filling
<1>5. CASE OutQueue = <<>>
  <2>1. sender'.pc = "none" /\ UNCHANGED <<SQ, OutQueue>>
    BY <1>5 DEF Dequeue, Goto, Base, Types
  <2>2. \A s \in Slots : Live(s)' => Live(s)
    BY <2>1, <1>4 DEF Live, At
  <2>3. \A s \in Slots : ~ToSend(s)'
    BY <2>1 DEF ToSend, At, Filling
  <2>4. ~Filling /\ ~Filling'
    BY <2>1, <1>1 DEF Filling
  <2> QED
    BY <1>2, <1>3, <1>4, <2>1, <2>2, <2>3, <2>4, QuietInOrder
<1>6. CASE OutQueue # <<>>
  <2>1. /\ sender'.pc = "taken" /\ OutQueue' = Tail(OutQueue)
        /\ SQ' = [SQ EXCEPT ![SendSequence].m = Head(OutQueue)]
    BY <1>6 DEF Dequeue, Goto, Base, Types
  <2>2. /\ SQ'[SendSequence].m = Head(OutQueue)
        /\ \A s \in Slots : /\ SQ'[s].status = SQ[s].status
                            /\ s # SendSequence => SQ'[s].m = SQ[s].m
    BY <2>1, <1>1 DEF SlotTypes
  <2>3. \A s \in Slots : (Live(s)' <=> Live(s) \/ s = SendSequence) /\ (ToSend(s)' <=> s = SendSequence)
    BY <2>1, <2>2, <1>1, <1>2, <1>4 DEF Live, ToSend, At, Filling
  <2>4. Filling' /\ ~Filling
    BY <2>1, <1>1 DEF Filling
  <2>5. ~Live(SendSequence)
    BY <1>1, <1>4
  <2>6. /\ QueueInOrder' /\ NextOut = Head(OutQueue) /\ NextOut < NextOut' /\ NextOut' \in Int
    <3>1. /\ \A i, j \in 1 .. Len(Tail(OutQueue)) : i < j => Tail(OutQueue)[i] < Tail(OutQueue)[j]
          /\ \A i \in 1 .. Len(Tail(OutQueue)) : Tail(OutQueue)[i] <= stacked
          /\ Head(OutQueue) <= stacked /\ Head(OutQueue) \in Int
          /\ Tail(OutQueue) # <<>> =>
               Head(OutQueue) < Head(Tail(OutQueue)) /\ Head(Tail(OutQueue)) \in Int
      BY <1>1, <1>6, Numbers, TailInOrder DEF InOrder, QueueInOrder
    <3>2. QueueInOrder'
      BY <3>1, <2>1, <1>2 DEF QueueInOrder
    <3> QED
      BY <3>1, <3>2, <2>1, <1>2, <1>6, Numbers DEF NextOut
  <2>7. Way' = Way
    BY <1>2 DEF Way
  <2>8. SlotsInOrder'
    <3>1. \A i : Reviewed(i)' = Reviewed(i)
      BY <1>2 DEF Reviewed
    <3> SUFFICES ASSUME NEW i \in 0 .. SendQueueLen - 1, NEW j \in 0 .. SendQueueLen - 1,
                        i < j, Live(Reviewed(i))', Live(Reviewed(j))'
                 PROVE  IF i = 0 THEN SQ'[Reviewed(j)].m < SQ'[Reviewed(i)].m
                        ELSE SQ'[Reviewed(i)].m < SQ'[Reviewed(j)].m
      BY <3>1, <2>4 DEF SlotsInOrder, Newest
    <3>2. PICK s \in Slots, t \in Slots : s = Reviewed(i) /\ t = Reviewed(j)
      BY FirstReviewed
    <3>3. Live(s)' /\ Live(t)'
      BY <3>1, <3>2 DEF Live
    <3>4. \A k \in 1 .. SendQueueLen - 1 : Reviewed(k) # SendSequence
      <4> TAKE k \in 1 .. SendQueueLen - 1
      <4>1. /\ 0 \in 0 .. SendQueueLen - 1 /\ k \in 0 + 1 .. SendQueueLen - 1
            /\ (SendSequence + 0) % SendQueueLen = SendSequence
        BY FirstReviewed DEF Reviewed
      <4>2. (SendSequence + 0) % SendQueueLen \notin Ahead(SendSequence, 0 + 1)
        BY <4>1, <1>1, AheadStep
      <4>3. Reviewed(k) \in Ahead(SendSequence, 0 + 1)
        BY <4>1 DEF Ahead, Reviewed
      <4> QED
        BY <4>1, <4>2, <4>3
    <3>5. t # SendSequence
      BY <3>2, <3>4, FirstReviewed
    <3>6. Live(t) /\ SQ'[t].m = SQ[t].m
      BY <3>3, <3>5, <2>2, <2>3
    <3>7. CASE i = 0
      <4>1. s = SendSequence
        BY <3>2, <3>7, FirstReviewed
      <4> QED
        BY <4>1, <3>2, <3>6, <3>7, <2>2, <2>6 DEF InOrder, Dequeued
    <3>8. CASE i # 0
      <4>1. s # SendSequence
        BY <3>2, <3>4, <3>8
      <4>2. Live(s) /\ SQ'[s].m = SQ[s].m
        BY <4>1, <3>3, <2>2, <2>3
      <4>3. SQ[s].m < SQ[t].m
        BY <4>2, <3>2, <3>6, <3>8 DEF InOrder, SlotsInOrder
      <4> QED
        BY <4>2, <4>3, <3>2, <3>6, <3>8
    <3> QED
      BY <3>7, <3>8
  <2>9. WayInOrder' /\ EarlyInPlace'
    <3>1. \A x \in early : x < Head(OutQueue) /\ x < NextOut'
      BY <2>6, Numbers DEF InOrder, EarlyInPlace
    <3>2. \A s \in Slots : Live(s)' => SQ'[s].m \notin early
      <4> SUFFICES ASSUME NEW s \in Slots, Live(s)', SQ'[s].m \in early PROVE FALSE
        OBVIOUS
      <4>1. s # SendSequence
        BY <2>2, <2>6, <3>1, Numbers
      <4> QED
        BY <4>1, <2>2, <2>3 DEF InOrder, EarlyInPlace
    <3> QED
      BY <3>1, <3>2, <1>2 DEF InOrder, WayInOrder, EarlyInPlace
  <2>10. Dequeued'
    <3>1. ASSUME NEW s \in Slots, Live(s)' PROVE SQ'[s].m < NextOut'
      <4>1. CASE s = SendSequence
        BY <4>1, <2>2, <2>6
      <4>2. CASE s # SendSequence
        BY <4>2, <3>1, <2>2, <2>3, <2>6, Numbers DEF InOrder, Dequeued
      <4> QED
        BY <4>1, <4>2
    <3>2. \A x \in Way \cup got : x < NextOut'
      BY <2>6, Numbers DEF InOrder, Dequeued
    <3> QED
      BY <3>1, <3>2, <2>7, <1>2 DEF Dequeued
  <2>11. NothingStale'
    <3>1. ASSUME NEW s \in Slots, Live(s)' PROVE Timely(SQ'[s].m)
      BY <3>1, <2>2, <2>3, <2>6 DEF InOrder, Dequeued, NothingStale, Timely
    <3> QED
      BY <3>1, <2>7, <1>2 DEF InOrder, NothingStale, Timely
  <2>12. NoneBehind'
    <3> SUFFICES ASSUME NEW x \in Way, x \notin early, NEW s \in Slots, Live(s)', SQ'[s].m < x
                 PROVE  SQ'[s].m \in got \cup Way
      BY <2>7, <1>2 DEF NoneBehind
    <3>1. s # SendSequence
      BY <2>2, <2>6, Numbers DEF InOrder, Dequeued
    <3> QED
      BY <3>1, <2>2, <2>3 DEF InOrder, NoneBehind
  <2>13. SentInOrder'
    <3> SUFFICES ASSUME linked, NEW s \in Slots, Live(s)'
                 PROVE  IF s = SendSequence THEN \A x \in Way \ early : x < SQ'[s].m
                        ELSE SQ'[s].m \in got \cup Way
      BY <2>3, <2>7, <1>2 DEF SentInOrder
    <3> QED
      BY <2>2, <2>3, <2>6, <1>4 DEF InOrder, SentInOrder, Dequeued
  <2>14. Receiving'
    BY <1>2 DEF InOrder, Receiving
  <2> QED
    BY <2>6, <2>8, <2>9, <2>10, <2>11, <2>12, <2>13, <2>14 DEF InOrder
<1> QED
  BY <1>5, <1>6

LEMMA SenderInOrder ==
  ASSUME Base, Sound, InOrder, SocketSender
  PROVE  InOrder'
<1>1. CASE BeatFails
  BY <1>1, FailsInOrder DEF BeatFails, SocketSender, At, Filling
<1> QED
  BY <1>1, SkipInOrder, ResendInOrder, MarkResentInOrder, WaitInOrder, DequeueInOrder,
     AdvanceInOrder, SendInOrder, MarkSentInOrder DEF SocketSender

(* A new message is the newest of all.                                     *)
LEMMA StackerInOrder ==
  ASSUME Base, Sound, InOrder, MessageStacker
  PROVE  InOrder'
<1>1. UNCHANGED <<sender, SQ, SendSequence, linked, toImport, Sd, receiver, got, early>>
  BY DEF MessageStacker, state, net, import
<1>2. /\ stacked' = stacked + 1 /\ stacked + 1 \in Msgs /\ stacked \in Int
      /\ OutQueue \in Seq(Msgs)
  BY ExportAssumption DEF MessageStacker, Base, Types, Msgs
<1>3. QueueInOrder' /\ NextOut <= NextOut' /\ NextOut' \in Int
  <2>1. CASE OutQueue # <<>> /\ OutQueue' = Append(Tail(OutQueue), stacked + 1)
    <3> DEFINE q == Tail(OutQueue)
               r == Append(q, stacked + 1)
    <3>1. /\ q \in Seq(Msgs)
          /\ \A i, j \in 1 .. Len(q) : i < j => q[i] < q[j]
          /\ \A i \in 1 .. Len(q) : q[i] <= stacked
          /\ Head(OutQueue) <= stacked /\ Head(OutQueue) \in Int
          /\ q # <<>> => Head(OutQueue) < Head(q) /\ Head(q) \in Int
      BY <1>2, <2>1, TailInOrder DEF InOrder, QueueInOrder
    <3> HIDE DEF q
    <3>2. /\ \A i, j \in 1 .. Len(r) : i < j => r[i] < r[j]
          /\ \A i \in 1 .. Len(r) : r[i] <= stacked + 1
          /\ r # <<>> /\ Head(r) = IF q = <<>> THEN stacked + 1 ELSE Head(q)
      BY <1>2, <3>1, AppendInOrder
    <3>3. OutQueue' = r
      BY <2>1 DEF q
    <3> HIDE DEF r
    <3>4. QueueInOrder'
      BY <1>2, <3>2, <3>3 DEF QueueInOrder
    <3>5. NextOut = Head(OutQueue)
      BY <2>1 DEF NextOut
    <3>6. NextOut' = IF q = <<>> THEN stacked + 1 ELSE Head(q)
      BY <3>2, <3>3 DEF NextOut
    <3>7. NextOut <= NextOut' /\ NextOut' \in Int
      <4>1. CASE q = <<>>
        BY <1>2, <3>1, <3>5, <3>6, <4>1
      <4>2. CASE q # <<>>
        BY <3>1, <3>5, <3>6, <4>2
      <4> QED
        BY <4>1, <4>2
    <3> QED
      BY <3>4, <3>7
  <2>2. CASE OutQueue' = Append(OutQueue, stacked + 1)
    <3> DEFINE r == Append(OutQueue, stacked + 1)
    <3>1. /\ \A i, j \in 1 .. Len(r) : i < j => r[i] < r[j]
          /\ \A i \in 1 .. Len(r) : r[i] <= stacked + 1
          /\ r # <<>> /\ Head(r) = IF OutQueue = <<>> THEN stacked + 1 ELSE Head(OutQueue)
      BY <1>2, AppendInOrder DEF InOrder, QueueInOrder
    <3> HIDE DEF r
    <3>2. QueueInOrder'
      BY <1>2, <2>2, <3>1 DEF QueueInOrder, r
    <3>3. NextOut' = NextOut
      BY <2>2, <3>1 DEF NextOut, r
    <3> QED
      BY <3>2, <3>3, Numbers
  <2>3. Len(OutQueue) = RingSize => OutQueue # <<>>
    BY ExportAssumption
  <2> QED
    BY <1>2, <2>1, <2>2, <2>3 DEF MessageStacker
<1>4. /\ Way' = Way /\ (Filling' <=> Filling)
      /\ \A s \in Slots : (Live(s)' <=> Live(s)) /\ (ToSend(s)' <=> ToSend(s))
      /\ (Newest' <=> Newest) /\ \A i : Reviewed(i)' = Reviewed(i)
  BY <1>1 DEF Way, Filling, Newest, Live, ToSend, Reviewed, At
<1>5. SlotsInOrder'
  BY <1>1, <1>4, SameOrder DEF InOrder
<1>6. Dequeued' /\ EarlyInPlace'
  BY <1>1, <1>3, <1>4, Numbers DEF InOrder, Dequeued, EarlyInPlace
<1>7. WayInOrder' /\ Receiving'
  BY <1>1 DEF InOrder, WayInOrder, Receiving
<1>8. NothingStale'
  BY <1>1, <1>4 DEF InOrder, NothingStale, Timely
<1>9. NoneBehind' /\ SentInOrder'
  BY <1>1, <1>4 DEF InOrder, NoneBehind, SentInOrder
<1> QED
  BY <1>3, <1>5, <1>6, <1>7, <1>8, <1>9 DEF InOrder

LEMMA RecvInOrder ==
  ASSUME Base, Sound, InOrder, SocketRecv
  PROVE  InOrder'
<1>1. UNCHANGED <<sender, SendSequence, OutQueue, linked, toImport, Sd, receiver, got,
                  stacked, early>>
  BY DEF SocketRecv, import, history, fates
<1>2. toImport' \in Cut(toImport)
  BY <1>1, CutWhole DEF Base, Types
<1>3. \A s \in Slots : SQ'[s].m = SQ[s].m /\ SQ'[s].status \in {"ack", SQ[s].status}
  <2>1. CASE Acknowledged
    BY <2>1 DEF Acknowledged, Base, Types, SlotTypes
  <2>2. CASE RecvFails
    BY <2>2 DEF RecvFails
  <2> QED
    BY <2>1, <2>2 DEF SocketRecv
<1>4. \A s \in Slots : Live(s)' => Live(s)
  BY <1>1, <1>3 DEF Live, At, Reviewed
<1>5. (Filling' <=> Filling) /\ \A s \in Slots : ToSend(s)' <=> ToSend(s)
  BY <1>1 DEF ToSend, Filling, At
<1> QED
  BY <1>1, <1>2, <1>3, <1>4, <1>5, QuietInOrder

(* A new connection carries nothing yet, and all slots are to be reviewed. *)
LEMMA AcceptInOrder ==
  ASSUME Base, Sound, InOrder, Accept
  PROVE  InOrder'
<1>1. /\ UNCHANGED <<SQ, SendSequence, OutQueue, toImport, receiver, got, early>>
      /\ Sd = "queued" /\ Sd' = "open" /\ sender'.pc = "review" /\ sender'.i = 0
      /\ sender.pc = "off" /\ toImport = <<>> /\ receiver.pc = "read"
  BY DEF Accept, queues, fates, Base, Connections, At, InOrder, Receiving
<1>2. toImport' \in Cut(toImport)
  BY <1>1, CutWhole DEF Base, Types
<1>3. \A s \in Slots : Live(s)' => Live(s) /\ SQ'[s].m = SQ[s].m
  BY <1>1 DEF Live, At
<1>4. ~Filling /\ ~Filling'
  BY <1>1 DEF Filling
<1>5. SlotsInOrder'
  <2>1. Newest' <=> Newest
    BY <1>1, <1>4 DEF Newest
  <2> QED
    BY <1>1, <1>3, <2>1, SameOrder DEF InOrder
<1>6. stacked' \in Int /\ stacked <= stacked'
  BY Numbers DEF Accept
<1>7. QueueInOrder' /\ WayInOrder' /\ Dequeued' /\ NothingStale' /\ NoneBehind'
  BY <1>1, <1>2, <1>3, <1>6, StillInOrder
<1>8. Way' = {}
  BY <1>1 DEF Way
<1>9. \A s \in Slots : ToSend(s)'
  BY <1>1, AheadAll DEF ToSend, At, Base, Types
<1>10. EarlyInPlace'
  <2>1. NextOut <= NextOut' /\ NextOut' \in Int
    BY <1>1, <1>6, Numbers DEF NextOut
  <2> QED
    BY <1>1, <1>3, <1>4, <2>1, Numbers DEF InOrder, EarlyInPlace
<1>11. SentInOrder' /\ Receiving'
  BY <1>1, <1>8, <1>9 DEF SentInOrder, Receiving
<1> QED
  BY <1>5, <1>7, <1>10, <1>11 DEF InOrder

LEMMA StartInOrder ==
  ASSUME Base, Sound, InOrder, StartRecv \/ StartWatch
  PROVE  InOrder'
<1>1. UNCHANGED <<sender, SQ, SendSequence, OutQueue, linked, toImport, Sd, receiver, got,
                  stacked, early>>
  BY DEF StartRecv, StartWatch, queues, net, import, history, fates
<1>2. toImport' \in Cut(toImport)
  BY <1>1, CutWhole DEF Base, Types
<1>3. /\ Filling' <=> Filling
      /\ \A s \in Slots : (Live(s)' <=> Live(s)) /\ (ToSend(s)' <=> ToSend(s))
  BY <1>1 DEF Live, ToSend, Filling, At, Reviewed
<1> QED
  BY <1>1, <1>2, <1>3, QuietInOrder

LEMMA BreakInOrder ==
  ASSUME Base, Sound, InOrder, Break
  PROVE  InOrder'
<1>1. /\ UNCHANGED <<sender, SQ, SendSequence, OutQueue, Sd, receiver, got, stacked, early>>
      /\ ~linked' /\ toImport' \in Cut(toImport)
  BY DEF Break, state, queues, import, fates
<1>2. (Filling' <=> Filling) /\ \A s \in Slots : Live(s)' <=> Live(s)
  BY <1>1 DEF Live, Filling, At, Reviewed
<1> QED
  BY <1>1, <1>2, QuietInOrder

(* SocketSender is killed: what it had dequeued is lost, or its slot is    *)
(* made already and stays where it is.                                     *)
LEMMA RetryInOrder ==
  ASSUME Base, Sound, InOrder, Retry
  PROVE  InOrder'
<1>1. /\ UNCHANGED <<SQ, SendSequence, OutQueue, receiver, got, stacked>>
      /\ ~linked' /\ sender'.pc = "off" /\ Sd' \in {Sd, "open"}
      /\ early' = early \cup (IF sender.pc \in {"new", "numbered"} THEN {SQ[SendSequence].m}
                              ELSE {})
  BY DEF Retry, At
<1>2. /\ SendSequence \in Slots
      /\ sender.pc \in {"taken", "filled"} => SQ[SendSequence].status = "ack"
      /\ sender.pc \in {"new", "numbered"} => SQ[SendSequence].status = "new"
  BY DEF Base, Types, Placed
<1>3. toImport' \in Cut(toImport)
  BY CutWhole DEF Retry, Base, Types
<1>4. \A s \in Slots : (Live(s)' <=> SQ[s].status # "ack") /\ (Live(s)' => Live(s))
  BY <1>1 DEF Live, At
<1>5. SlotsInOrder'
  <2>1. Live(SendSequence)' => (Newest' <=> Newest)
    BY <1>1, <1>2, <1>4 DEF Newest, Filling
  <2> QED
    BY <1>1, <1>4, <2>1, SameOrder DEF InOrder
<1>6. stacked' \in Int /\ stacked <= stacked'
  BY <1>1, Numbers
<1>7. QueueInOrder' /\ WayInOrder' /\ Dequeued' /\ NothingStale' /\ NoneBehind'
  BY <1>1, <1>3, <1>4, <1>6, StillInOrder
<1>8. EarlyInPlace'
  <2>1. ~Filling' /\ NextOut' = NextOut
    BY <1>1 DEF Filling, NextOut
  <2>2. CASE sender.pc \in {"new", "numbered"}
    <3>1. Live(SendSequence) /\ SQ[SendSequence].m < NextOut
      BY <1>2, <2>2 DEF Live, InOrder, Dequeued
    <3>2. ASSUME NEW s \in Slots, Live(s), s # SendSequence
          PROVE  SQ[s].m # SQ[SendSequence].m
      <4>1. PICK j \in 0 .. SendQueueLen - 1 : s = Reviewed(j)
        BY AheadAll, <1>2 DEF Ahead, Reviewed
      <4>2. 0 \in 0 .. SendQueueLen - 1 /\ 0 < j /\ Reviewed(0) = SendSequence
        BY <3>2, <4>1, FirstReviewed
      <4>3. SQ[s].m < SQ[SendSequence].m
        BY <2>2, <3>1, <3>2, <4>1, <4>2 DEF InOrder, SlotsInOrder, Newest, Filling
      <4> QED
        BY <4>3, <1>2, Numbers
    <3> QED
      BY <1>1, <1>4, <2>1, <3>1, <3>2 DEF InOrder, EarlyInPlace
  <2>3. CASE sender.pc \notin {"new", "numbered"}
    BY <1>1, <1>4, <2>1, <2>3 DEF InOrder, EarlyInPlace
  <2> QED
    BY <2>2, <2>3
<1>9. SentInOrder' /\ Receiving'
  BY <1>1 DEF SentInOrder, InOrder, Receiving
<1> QED
  BY <1>5, <1>7, <1>8, <1>9 DEF InOrder

LEMMA MainInOrder ==
  ASSUME Base, Sound, InOrder, ExportMain
  PROVE  InOrder'
BY AcceptInOrder, StartInOrder, RetryInOrder DEF ExportMain

(* import_ack: nothing more will come from this connection.                *)
LEMMA GoneInOrder ==
  ASSUME Base, Sound, InOrder,
         UNCHANGED <<sender, SQ, SendSequence, OutQueue, stacked, got, early>>,
         Way' = {}, ~linked', WayInOrder', Receiving'
  PROVE  InOrder'
<1>1. /\ (Filling' <=> Filling) /\ (Newest' <=> Newest)
      /\ NextOut' = NextOut /\ \A s \in Slots : Live(s)' <=> Live(s)
  BY DEF Live, Filling, Newest, At, Reviewed, NextOut
<1>2. SlotsInOrder'
  BY <1>1, SameOrder DEF InOrder
<1>3. /\ QueueInOrder' /\ Dequeued' /\ EarlyInPlace'
      /\ NothingStale' /\ NoneBehind' /\ SentInOrder'
  BY <1>1 DEF InOrder, QueueInOrder, Dequeued, EarlyInPlace, NothingStale, Timely, NoneBehind,
     SentInOrder
<1> QED
  BY <1>2, <1>3 DEF InOrder

LEMMA ImportMainInOrder ==
  ASSUME Base, Sound, InOrder, ImportMain
  PROVE  InOrder'
<1>1. UNCHANGED <<sender, SQ, SendSequence, OutQueue, stacked, got, early>>
  BY DEF ImportMain, Connect, Reconnect, ImportRest, state, queues, fates
<1>2. Way' = {} /\ ~linked' /\ WayInOrder' /\ Receiving'
  <2>1. CASE Connect
    <3>1. /\ toImport' = <<>> /\ ~linked' /\ Sd' = "queued" /\ receiver'.pc = "read"
      BY <2>1 DEF Connect, net, Base, Connections
    <3> QED
      BY <3>1 DEF Way, WayInOrder, Receiving
  <2>2. CASE Reconnect
    <3>1. toImport' = <<>> /\ ~linked' /\ Sd' = "closed" /\ receiver'.pc = "off"
      BY <2>2 DEF Reconnect
    <3> QED
      BY <3>1 DEF Way, WayInOrder, Receiving
  <2> QED
    BY <2>1, <2>2 DEF ImportMain
<1> QED
  BY <1>1, <1>2, GoneInOrder

LEMMA ReadInOrder ==
  ASSUME Base, Sound, InOrder, ReadAndAck \/ ReadFails, ImportRest
  PROVE  InOrder'
<1>1. /\ UNCHANGED <<sender, SQ, SendSequence, OutQueue, stacked, got, early, linked, Sd>>
      /\ receiver.pc = "read" /\ toImport \in Seq(Packets)
  BY DEF ReadAndAck, ReadFails, ImportRest, state, queues, net, fates, Base, Types
<1>2. CASE ReadFails
  <2>1. toImport' = <<>> /\ ~linked' /\ receiver'.pc = "off" /\ Sd' = "open"
    BY <1>2 DEF ReadFails, net
  <2>2. Way' = {} /\ WayInOrder' /\ Receiving'
    BY <2>1, <1>1 DEF Way, WayInOrder, InOrder, Receiving
  <2> QED
    BY <1>1, <2>1, <2>2, GoneInOrder
<1>3. CASE ReadAndAck
  <2>1. toImport # <<>> /\ toImport' = Tail(toImport) /\ Sd = "open"
    BY <1>3 DEF ReadAndAck, Base, Connections
  <2>2. /\ Head(toImport) = toImport[1] /\ Len(toImport) \in Nat /\ 1 \in 1 .. Len(toImport)
        /\ Len(toImport') = Len(toImport) - 1
        /\ \A k \in 1 .. Len(toImport') : k + 1 \in 1 .. Len(toImport) /\ toImport'[k] = toImport[k + 1]
    BY <1>1, <2>1, TailElements
  <2>3. \A k, l \in 1 .. Len(toImport') :
          k < l => toImport'[k].m < toImport'[l].m \/ toImport'[k].m \in early
    <3> TAKE k, l \in 1 .. Len(toImport')
    <3>1. k < l => k + 1 < l + 1
      OBVIOUS
    <3> QED
      BY <3>1, <2>2 DEF InOrder, WayInOrder
  <2>4. \A k \in 1 .. Len(toImport') :
          toImport[1].m < toImport'[k].m \/ toImport[1].m \in early
    <3> TAKE k \in 1 .. Len(toImport')
    <3>1. 1 < k + 1
      OBVIOUS
    <3> QED
      BY <3>1, <2>2 DEF InOrder, WayInOrder
  <2>5. CASE receiver'.pc = "off" /\ ~linked
    <3>1. Way' = {} /\ WayInOrder' /\ Receiving'
      BY <2>1, <2>3, <2>5, <1>1 DEF Way, WayInOrder, InOrder, Receiving
    <3> QED
      BY <1>1, <2>5, <3>1, GoneInOrder
  <2>6. CASE receiver'.pc = "acked" /\ receiver'.m = toImport[1].m
    <3>1. Way' = Way
      <4>1. ASSUME NEW k \in 1 .. Len(toImport), k # 1
            PROVE  k - 1 \in 1 .. Len(toImport') /\ toImport'[k - 1] = toImport[k]
        <5>1. k - 1 \in 1 .. Len(toImport')
          BY <4>1, <2>2
        <5> QED
          BY <5>1, <2>2
      <4>2. Way' = {toImport'[k].m : k \in 1 .. Len(toImport')} \cup {toImport[1].m}
        BY <2>6 DEF Way
      <4>3. Way = {toImport[k].m : k \in 1 .. Len(toImport)}
        BY <1>1 DEF Way
      <4>4. Way \subseteq Way'
        BY <4>1, <4>2, <4>3
      <4>5. Way' \subseteq Way
        BY <2>2, <4>2, <4>3
      <4> QED
        BY <4>4, <4>5
    <3>2. /\ (Filling' <=> Filling) /\ (Newest' <=> Newest) /\ NextOut' = NextOut
          /\ \A s \in Slots : (Live(s)' <=> Live(s)) /\ (ToSend(s)' <=> ToSend(s))
      BY <1>1 DEF Live, ToSend, Filling, Newest, At, Reviewed, NextOut
    <3>3. SlotsInOrder'
      BY <1>1, <3>2, SameOrder DEF InOrder
    <3>4. WayInOrder'
      BY <1>1, <2>3, <2>4, <2>6 DEF WayInOrder
    <3>5. QueueInOrder' /\ Dequeued' /\ EarlyInPlace'
      BY <1>1, <3>1, <3>2 DEF InOrder, QueueInOrder, Dequeued, EarlyInPlace
    <3>6. NothingStale' /\ NoneBehind' /\ SentInOrder'
      BY <1>1, <3>1, <3>2 DEF InOrder, NothingStale, Timely, NoneBehind, SentInOrder
    <3>7. Receiving'
      BY <1>1, <2>1, <2>6 DEF InOrder, Receiving
    <3> QED
      BY <3>3, <3>4, <3>5, <3>6, <3>7 DEF InOrder
  <2> QED
    BY <1>3, <2>2, <2>5, <2>6 DEF ReadAndAck
<1> QED
  BY <1>2, <1>3

(* The message that is put: it was there already or is newer than all that *)
(* was, and nothing older is left behind.                                  *)
LEMMA PutInOrder ==
  ASSUME Base, Sound, InOrder, PutMsg, ImportRest
  PROVE  /\ InOrder'
         /\ \A m \in got' \ got : \A k \in got \ early : k < m
<1> DEFINE x == receiver.m
<1>1. /\ UNCHANGED <<sender, SQ, SendSequence, OutQueue, stacked, early, linked, toImport,
                     Sd>>
      /\ receiver.pc = "acked" /\ receiver'.pc = "read" /\ got' = got \cup {x}
  BY DEF PutMsg, ImportRest, state, queues, net, fates
<1>2. /\ Way = Way' \cup {x} /\ x \in Way
      /\ x \in early \/ \A y \in Way' : x < y
  BY <1>1 DEF Way, InOrder, WayInOrder
<1>3. /\ (Filling' <=> Filling) /\ (Newest' <=> Newest) /\ NextOut' = NextOut
      /\ \A s \in Slots : (Live(s)' <=> Live(s)) /\ (ToSend(s)' <=> ToSend(s))
  BY <1>1 DEF Live, ToSend, Filling, Newest, At, Reviewed, NextOut
<1>4. SlotsInOrder'
  BY <1>1, <1>3, SameOrder DEF InOrder
<1>5. QueueInOrder' /\ WayInOrder' /\ Receiving'
  BY <1>1 DEF InOrder, QueueInOrder, WayInOrder, Receiving
<1>6. Dequeued' /\ EarlyInPlace'
  BY <1>1, <1>2, <1>3 DEF InOrder, Dequeued, EarlyInPlace
<1>7. got \cup Way = got' \cup Way'
  BY <1>1, <1>2
<1>8. NoneBehind' /\ SentInOrder'
  <2>1. NoneBehind'
    BY <1>1, <1>2, <1>3, <1>7 DEF InOrder, NoneBehind
  <2>2. SentInOrder'
    BY <1>1, <1>2, <1>3, <1>7 DEF InOrder, SentInOrder
  <2> QED
    BY <2>1, <2>2
<1>9. NothingStale'
  <2>1. ASSUME NEW s \in Slots, Live(s) PROVE Timely(SQ[s].m)'
    <3> SUFFICES ASSUME SQ[s].m \notin got'
                 PROVE  \A k \in got' \ early : k < SQ[s].m
      BY <1>1 DEF Timely
    <3>1. \A k \in got \ early : k < SQ[s].m
      BY <1>1, <2>1 DEF InOrder, NothingStale, Timely
    <3>2. x \in early \/ ~(SQ[s].m < x)
      <4> SUFFICES ASSUME x \notin early, SQ[s].m < x PROVE FALSE
        OBVIOUS
      <4>1. SQ[s].m \in Way'
        BY <1>2, <1>7, <2>1 DEF InOrder, NoneBehind
      <4> QED
        BY <4>1, <1>2, Numbers
    <3>3. x \in early \/ x < SQ[s].m
      BY <3>2, <1>1, Numbers
    <3> QED
      BY <3>1, <3>3, <1>1
  <2>2. ASSUME NEW y \in Way' PROVE Timely(y)'
    BY <1>1, <1>2, <2>2 DEF InOrder, NothingStale, Timely
  <2> QED
    BY <1>1, <1>3, <2>1, <2>2 DEF NothingStale
<1>10. \A m \in got' \ got : \A k \in got \ early : k < m
  BY <1>1, <1>2 DEF InOrder, NothingStale, Timely
<1> QED
  BY <1>4, <1>5, <1>6, <1>8, <1>9, <1>10 DEF InOrder

LEMMA InitInOrder == Init => InOrder
<1> SUFFICES ASSUME Init PROVE InOrder
  OBVIOUS
<1>1. \A s \in Slots : ~Live(s)
  BY DEF Init, Live, At
<1>2. Way = {} /\ got = {}
  BY DEF Init, Way
<1>3. \A i \in 0 .. SendQueueLen - 1 : Reviewed(i) \in Slots
  BY FirstReviewed, InitSafe, BaseHolds
<1>4. SlotsInOrder
  BY <1>1, <1>3 DEF SlotsInOrder
<1>5. QueueInOrder /\ WayInOrder /\ Receiving
  BY DEF Init, QueueInOrder, WayInOrder, Receiving
<1>6. Dequeued /\ EarlyInPlace /\ NothingStale /\ NoneBehind /\ SentInOrder
  BY <1>1, <1>2 DEF Init, Dequeued, EarlyInPlace, NothingStale, NoneBehind, SentInOrder
<1> QED
  BY <1>4, <1>5, <1>6 DEF InOrder

LEMMA StepInOrder ==
  ASSUME Base, Sound, InOrder, [Next]_vars
  PROVE  /\ InOrder'
         /\ [\A m \in got' \ got : \A k \in got \ early : k < m]_got
<1>1. CASE MessageStacker
  BY <1>1, StackerInOrder DEF MessageStacker, import
<1>2. CASE SocketSender
  BY <1>2, SenderInOrder DEF SocketSender, SenderRest, import
<1>3. CASE SocketRecv
  BY <1>3, RecvInOrder DEF SocketRecv, import
<1>4. CASE ExportMain
  BY <1>4, MainInOrder DEF ExportMain, Accept, StartRecv, StartWatch, Retry, import
<1>5. CASE MessageReceiver
  <2>1. CASE PutMsg
    BY <1>5, <2>1, PutInOrder DEF MessageReceiver
  <2>2. CASE ReadAndAck \/ ReadFails
    BY <1>5, <2>2, ReadInOrder DEF MessageReceiver, ReadAndAck, ReadFails
  <2> QED
    BY <1>5, <2>1, <2>2 DEF MessageReceiver
<1>6. CASE ImportMain
  BY <1>6, ImportMainInOrder DEF ImportMain, Connect, Reconnect
<1>7. CASE Break
  BY <1>7, BreakInOrder DEF Break, import
<1>8. CASE UNCHANGED vars
  <2>1. /\ UNCHANGED <<sender, SQ, SendSequence, OutQueue, linked, toImport, Sd, receiver,
                       got, stacked, early>>
    BY <1>8 DEF vars, state, queues, net, import, history, fates
  <2>2. /\ (Filling' <=> Filling)
        /\ \A s \in Slots : (Live(s)' <=> Live(s)) /\ (ToSend(s)' <=> ToSend(s))
    BY <2>1 DEF Live, ToSend, Filling, At, Reviewed
  <2>3. toImport' \in Cut(toImport)
    BY <2>1, CutWhole DEF Base, Types
  <2> QED
    BY <2>1, <2>2, <2>3, QuietInOrder
<1> QED
  BY <1>1, <1>2, <1>3, <1>4, <1>5, <1>6, <1>7, <1>8 DEF Next

(* FirstInOrder: over any number of breaks, kills and reviews, a message   *)
(* that reaches import_ack's ring for the first time was stacked after all *)
(* that are there, but for those whose slot was killed half made, which    *)
(* are sent before the older ones (export_ack.c, SocketSender and main).   *)
THEOREM ArriveInOrder == Spec => FirstInOrder
<1>1. Init => (IInv \/ Stuck) /\ Sound /\ InOrder
  BY InitSafe, InitSound, InitInOrder
<1>2. (IInv \/ Stuck) /\ Sound /\ InOrder /\ [Next]_vars =>
        (IInv \/ Stuck)' /\ Sound' /\ InOrder'
  BY StepSafe, StuckStays, StepSound, StepInOrder, BaseHolds
<1>3. (IInv \/ Stuck) /\ Sound /\ InOrder /\ [Next]_vars =>
        [\A m \in got' \ got : \A k \in got \ early : k < m]_got
  BY StepInOrder, BaseHolds
<1> QED
  BY <1>1, <1>2, <1>3, PTL DEF Spec, FirstInOrder
=============================================================================
