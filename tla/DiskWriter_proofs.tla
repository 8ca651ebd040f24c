-------------------------- MODULE DiskWriter_proofs --------------------------
(***************************************************************************)
(* For every queue size and every number of packets: the types, the count  *)
(* of dropped packets, and the refinement of DropFifo.  The argument needs *)
(* two more invariants: who holds MutexQueue is inside a queue call and    *)
(* nobody else is, and what a call that has copied relies on still holds   *)
(* when it moves the positions.                                            *)
(***************************************************************************)
EXTENDS DiskWriter, MemCircQueue_proofs

LockHeld ==
  /\ mutex = "main" <=> prod.pc \in {"copy", "link", "unlock"}
  /\ mutex = "writer" <=> cons.pc \in {"copy", "link", "unlock"}

CallState ==
  /\ WellFormed(q)
  /\ prod.pc # "loop" => prod.msg \in Messages
  /\ prod.pc = "link" => prod.msg \notin Oversize /\ q.pQE[q.last] = prod.msg
  /\ cons.pc = "link" => q.NumOfElements > 0

IInv == TypeOK /\ LockHeld /\ CallState

(* The queue starts empty, nothing is being called.                        *)
LEMMA InitIInv == Init => IInv
<1> SUFFICES ASSUME Init PROVE IInv
  OBVIOUS
<1>1. TypeOK
  <2>1. <<>> \in Seq(Messages)
    BY EmptySeq
  <2>2. 0 \in 0 .. MaxPackets
    BY PacketAssumption
  <2>3. prod \in Producer /\ cons \in Consumer
    BY DEF Init, Producer, Consumer
  <2>. QED
    BY <2>1, <2>2, <2>3, InitQueue DEF Init, TypeOK
<1>2. LockHeld
  BY DEF Init, LockHeld
<1>3. CallState
  BY InitQueue DEF Init, CallState
<1>. QED
  BY <1>1, <1>2, <1>3 DEF IInv

(* Which branch enqueue reports.                                           *)
LEMMA EnqueueReturn ==
  ASSUME NEW x
  PROVE  /\ enqueueReturn(q, x) \in {0, -1, -3}
         /\ enqueueReturn(q, x) = 0 <=> x \notin Oversize /\ ~Full(q)
<1>1. CASE x \in Oversize
  BY <1>1 DEF enqueueReturn
<1>2. CASE x \notin Oversize /\ Full(q)
  BY <1>2 DEF enqueueReturn
<1>3. CASE x \notin Oversize /\ ~Full(q)
  BY <1>3 DEF enqueueReturn
<1>. QED
  BY <1>1, <1>2, <1>3

LEMMA NextIInv == IInv /\ [Next]_vars => IInv'
<1> SUFFICES ASSUME IInv, [Next]_vars PROVE IInv'
  OBVIOUS
<1> USE DEF IInv
<1>1. CASE ReadRing
  <2>1. read + 1 \in Messages /\ read + 1 \in 0 .. MaxPackets
    BY <1>1, PacketAssumption DEF ReadRing, TypeOK
  <2>2. TypeOK'
    BY <1>1, <2>1 DEF ReadRing, TypeOK, Producer
  <2>. QED
    BY <1>1, <2>1, <2>2 DEF ReadRing, TypeOK, LockHeld, CallState, Producer
<1>2. CASE Exit
  BY <1>2 DEF Exit, TypeOK, LockHeld, CallState
<1>3. CASE LockIn
  <2>1. TypeOK'
    BY <1>3 DEF LockIn, TypeOK, Producer
  <2>. QED
    BY <1>3, <2>1 DEF LockIn, TypeOK, LockHeld, CallState, Producer
<1>4. CASE CopyIn
  <2>1. prod.msg \in Messages /\ prod.pc = "copy" /\ cons.pc # "link"
    BY <1>4 DEF CopyIn, LockHeld, CallState
  <2>2. CASE prod.msg \in Oversize
    <3>1. /\ prod' = [prod EXCEPT !.pc = "unlock", !.ret = enqueueReturn(q, prod.msg)]
          /\ UNCHANGED <<q, mutex, cons, read, iNumMsgDrop, taken, exited>>
      BY <1>4, <2>2 DEF CopyIn
    <3>2. TypeOK'
      BY <3>1, EnqueueReturn DEF TypeOK, Producer
    <3>. QED
      BY <2>1, <3>1, <3>2 DEF TypeOK, LockHeld, CallState, Producer
  <2>3. CASE prod.msg \notin Oversize
    <3>1. /\ prod' = [prod EXCEPT !.pc = "link"] /\ q' = EnqueueCopy(q, prod.msg)
          /\ UNCHANGED <<mutex, cons, read, iNumMsgDrop, taken, exited>>
      BY <1>4, <2>3 DEF CopyIn
    <3>2. q' \in Queue /\ WellFormed(q') /\ q'.pQE[q'.last] = prod.msg
      BY <2>1, <3>1, CopyContents DEF TypeOK, CallState
    <3>3. TypeOK'
      BY <3>1, <3>2 DEF TypeOK, Producer
    <3>4. LockHeld'
      BY <2>1, <3>1 DEF TypeOK, LockHeld, Producer
    <3>5. CallState'
      BY <2>1, <2>3, <3>1, <3>2 DEF TypeOK, CallState, Producer
    <3>. QED
      BY <3>3, <3>4, <3>5
  <2>. QED
    BY <2>2, <2>3
<1>5. CASE LinkIn
  <2>1. /\ prod.pc = "link" /\ cons.pc # "link"
        /\ prod.msg \in Messages /\ q.pQE[q.last] = prod.msg
    BY <1>5 DEF LinkIn, LockHeld, CallState
  <2>2. q' \in Queue /\ WellFormed(q')
    <3>1. q.pQE[q.last] # NULL
      BY <2>1, QueueAssumption
    <3>. QED
      BY <1>5, <3>1, LinkContents DEF LinkIn, TypeOK, CallState
  <2>3. TypeOK'
    BY <1>5, <2>2, EnqueueReturn DEF LinkIn, TypeOK, Producer
  <2>4. LockHeld'
    BY <1>5 DEF LinkIn, TypeOK, LockHeld, Producer
  <2>5. CallState'
    BY <1>5, <2>1, <2>2 DEF LinkIn, TypeOK, CallState, Producer
  <2>. QED
    BY <2>3, <2>4, <2>5
<1>6. CASE UnlockIn
  <2>1. TypeOK'
    BY <1>6 DEF UnlockIn, TypeOK, Producer
  <2>. QED
    BY <1>6, <2>1 DEF UnlockIn, TypeOK, LockHeld, CallState, Producer
<1>7. CASE CountDrop
  <2>1. TypeOK'
    BY <1>7 DEF CountDrop, TypeOK, Producer
  <2>. QED
    BY <1>7, <2>1 DEF CountDrop, TypeOK, LockHeld, CallState, Producer
<1>8. CASE LockOut
  <2>1. TypeOK'
    BY <1>8 DEF LockOut, TypeOK, Consumer
  <2>. QED
    BY <1>8, <2>1 DEF LockOut, TypeOK, LockHeld, CallState, Consumer
<1>9. CASE CopyOut
  <2>1. cons.pc = "copy" /\ prod.pc # "link"
    BY <1>9 DEF CopyOut, LockHeld
  <2>2. CASE q.NumOfElements > 0
    <3>1. peekNextElement(q) \in Messages /\ peekNextElement(q) # NULL
      BY <2>2, DequeueContents, QueueAssumption DEF TypeOK, CallState
    <3>2. /\ cons' = [pc |-> "link", msg |-> peekNextElement(q)]
          /\ taken' = Append(taken, peekNextElement(q))
          /\ UNCHANGED <<q, mutex, prod, read, iNumMsgDrop, exited>>
      BY <1>9, <3>1 DEF CopyOut
    <3>3. TypeOK'
      BY <3>1, <3>2 DEF TypeOK, Consumer
    <3>. QED
      BY <2>1, <2>2, <3>2, <3>3 DEF TypeOK, LockHeld, CallState, Consumer
  <2>3. CASE ~(q.NumOfElements > 0)
    <3>1. peekNextElement(q) = NULL
      BY <2>3 DEF peekNextElement
    <3>2. /\ cons' = [pc |-> "unlock", msg |-> NULL]
          /\ UNCHANGED <<q, mutex, prod, read, iNumMsgDrop, taken, exited>>
      BY <1>9, <3>1 DEF CopyOut
    <3>3. TypeOK'
      BY <3>2 DEF TypeOK, Consumer
    <3>. QED
      BY <2>1, <3>2, <3>3 DEF TypeOK, LockHeld, CallState, Consumer
  <2>. QED
    BY <2>2, <2>3
<1>10. CASE LinkOut
  <2>1. cons.pc = "link" /\ q.NumOfElements > 0 /\ prod.pc # "link"
    BY <1>10 DEF LinkOut, LockHeld, CallState
  <2>2. q' \in Queue /\ WellFormed(q')
    BY <1>10, <2>1, DequeueContents DEF LinkOut, TypeOK, CallState
  <2>3. TypeOK'
    BY <1>10, <2>2 DEF LinkOut, TypeOK, Consumer
  <2>4. LockHeld'
    BY <1>10 DEF LinkOut, TypeOK, LockHeld, Consumer
  <2>5. CallState'
    BY <1>10, <2>1, <2>2 DEF LinkOut, TypeOK, CallState, Consumer
  <2>. QED
    BY <2>3, <2>4, <2>5
<1>11. CASE UnlockOut
  <2>1. TypeOK'
    BY <1>11 DEF UnlockOut, TypeOK, Consumer
  <2>. QED
    BY <1>11, <2>1 DEF UnlockOut, TypeOK, LockHeld, CallState, Consumer
<1>12. CASE WriteDiskData
  <2>1. TypeOK'
    BY <1>12 DEF WriteDiskData, TypeOK, Consumer
  <2>. QED
    BY <1>12, <2>1 DEF WriteDiskData, TypeOK, LockHeld, CallState, Consumer
<1>13. CASE UNCHANGED vars
  BY <1>13 DEF vars, TypeOK, LockHeld, CallState
<1>. QED
  BY <1>1, <1>2, <1>3, <1>4, <1>5, <1>6, <1>7, <1>8, <1>9, <1>10, <1>11, <1>12, <1>13
  DEF Next, Main, DiskWriterThread

(* Spec => []TypeOK: the positions and the count of the queue stay in      *)
(* range in every interleaving of the two threads.                         *)
THEOREM TypeCorrect == Spec => []TypeOK
<1>1. IInv => TypeOK
  BY DEF IInv
<1>. QED
  BY <1>1, InitIInv, NextIInv, PTL DEF Spec

-----------------------------------------------------------------------------
(* The settled queue is a queue.                                           *)
LEMMA SettledQueue ==
  ASSUME IInv
  PROVE  Settled \in Queue /\ WellFormed(Settled)
<1> USE DEF IInv
<1>1. CASE prod.pc = "link"
  <2>1. q.pQE[q.last] # NULL
    BY <1>1, QueueAssumption DEF CallState
  <2>. QED
    BY <1>1, <2>1, LinkContents DEF Settled, TypeOK, CallState
<1>2. CASE prod.pc # "link" /\ cons.pc = "link"
  BY <1>2, DequeueContents DEF Settled, TypeOK, CallState
<1>3. CASE prod.pc # "link" /\ cons.pc # "link"
  BY <1>3 DEF Settled, TypeOK, CallState
<1>. QED
  BY <1>1, <1>2, <1>3

(* What each step does to the settled queue and to the count of dropped    *)
(* packets: the copy of enqueue adds or overwrites, the copy of dequeue    *)
(* takes, and no other step shows.                                         *)
Added ==
  /\ prod.pc = "copy" /\ prod.msg \in Messages
  /\ taken' = taken
  /\ \/ /\ Settled.NumOfElements < MyMaxElements
        /\ Contents(Settled') = Append(Contents(Settled), prod.msg)
        /\ Settled'.NumOfElements = Settled.NumOfElements + 1
        /\ Dropped' = Dropped
     \/ /\ Settled.NumOfElements = MyMaxElements
        /\ Contents(Settled') = Append(Tail(Contents(Settled)), prod.msg)
        /\ Settled'.NumOfElements = Settled.NumOfElements
        /\ Dropped' = Dropped + 1
     \/ /\ Settled' = Settled
        /\ Dropped' = Dropped + 1

Taken ==
  /\ Contents(Settled) # <<>>
  /\ taken' = Append(taken, Head(Contents(Settled)))
  /\ Contents(Settled') = Tail(Contents(Settled))
  /\ Settled'.NumOfElements = Settled.NumOfElements - 1
  /\ Dropped' = Dropped
  /\ UNCHANGED <<prod, read>>

Unseen ==
  /\ UNCHANGED taken
  /\ Settled' = Settled /\ Dropped' = Dropped

LEMMA AddedOrRefused == IInv /\ CopyIn => Added
<1> SUFFICES ASSUME IInv, CopyIn PROVE Added
  OBVIOUS
<1> USE DEF IInv
<1>1. /\ prod.pc = "copy" /\ cons.pc # "link" /\ cons.pc \notin {"copy", "link", "unlock"}
      /\ prod.msg \in Messages /\ taken' = taken /\ cons' = cons
      /\ iNumMsgDrop' = iNumMsgDrop /\ iNumMsgDrop \in Nat
      /\ q \in Queue /\ WellFormed(q) /\ prod \in Producer
  BY DEF CopyIn, LockHeld, CallState, TypeOK
<1>2. Settled = q /\ Dropped = iNumMsgDrop
  BY <1>1 DEF Settled, Dropped
<1>3. CASE prod.msg \in Oversize
  <2>1. /\ prod' = [prod EXCEPT !.pc = "unlock", !.ret = enqueueReturn(q, prod.msg)]
        /\ q' = q
    BY <1>3 DEF CopyIn
  <2>2. prod'.pc = "unlock" /\ prod'.ret # 0
    BY <1>1, <1>3, <2>1, EnqueueReturn DEF Producer
  <2>3. Settled' = q /\ Dropped' = iNumMsgDrop + 1
    BY <1>1, <2>1, <2>2 DEF Settled, Dropped
  <2>. QED
    BY <1>1, <1>2, <2>3 DEF Added
<1>4. CASE prod.msg \notin Oversize
  <2>1. /\ prod' = [prod EXCEPT !.pc = "link"] /\ q' = EnqueueCopy(q, prod.msg)
    BY <1>4 DEF CopyIn
  <2>2. prod'.pc = "link"
    BY <1>1, <2>1 DEF Producer
  <2>3. Settled' = EnqueueLink(EnqueueCopy(q, prod.msg))
    BY <2>1, <2>2 DEF Settled
  <2>4. q'.NumOfElements = q.NumOfElements
    BY <1>1, <2>1, CopyContents
  <2>5. Dropped' = iNumMsgDrop + (IF Full(q) THEN 1 ELSE 0)
    BY <1>1, <2>2, <2>4 DEF Dropped, Full
  <2>6. /\ Settled'.NumOfElements = IF Full(q) THEN q.NumOfElements ELSE q.NumOfElements + 1
        /\ ~Full(q) => Contents(Settled') = Append(Contents(q), prod.msg)
        /\ Full(q) => Contents(Settled') = Append(Tail(Contents(q)), prod.msg)
    BY <1>1, <2>3, EnqueueContents
  <2>7. q.NumOfElements \in 0 .. MyMaxElements
    BY <1>1 DEF Queue
  <2>8. CASE Full(q)
    BY <1>1, <1>2, <2>5, <2>6, <2>8 DEF Full, Added
  <2>9. CASE ~Full(q)
    <3>1. q.NumOfElements < MyMaxElements
      BY <2>7, <2>9, QueueAssumption DEF Full
    <3>. QED
      BY <1>1, <1>2, <2>5, <2>6, <2>9, <3>1 DEF Added
  <2>. QED
    BY <2>8, <2>9
<1>. QED
  BY <1>3, <1>4

LEMMA TakenOrEmpty == IInv /\ CopyOut => Taken \/ Unseen
<1> SUFFICES ASSUME IInv, CopyOut PROVE Taken \/ Unseen
  OBVIOUS
<1> USE DEF IInv
<1>1. /\ cons.pc = "copy" /\ prod.pc # "link" /\ prod.pc \notin {"copy", "link", "unlock"}
      /\ q' = q /\ prod' = prod /\ read' = read /\ iNumMsgDrop' = iNumMsgDrop
      /\ q \in Queue /\ WellFormed(q) /\ cons \in Consumer
  BY DEF CopyOut, LockHeld, CallState, TypeOK
<1>2. Settled = q /\ Dropped' = Dropped
  BY <1>1 DEF Settled, Dropped, Full
<1>3. CASE q.NumOfElements > 0
  <2>1. /\ Contents(q) # <<>>
        /\ Contents(DequeueLink(q)) = Tail(Contents(q))
        /\ DequeueLink(q).NumOfElements = q.NumOfElements - 1
        /\ peekNextElement(q) = Head(Contents(q)) /\ peekNextElement(q) # NULL
    BY <1>1, <1>3, DequeueContents, QueueAssumption
  <2>2. /\ cons' = [pc |-> "link", msg |-> peekNextElement(q)]
        /\ taken' = Append(taken, peekNextElement(q))
    BY <2>1 DEF CopyOut
  <2>3. Settled' = DequeueLink(q)
    BY <1>1, <2>2 DEF Settled
  <2>. QED
    BY <1>1, <1>2, <2>1, <2>2, <2>3 DEF Taken
<1>4. CASE ~(q.NumOfElements > 0)
  <2>1. peekNextElement(q) = NULL
    BY <1>4 DEF peekNextElement
  <2>2. cons' = [pc |-> "unlock", msg |-> NULL] /\ taken' = taken
    BY <2>1 DEF CopyOut
  <2>3. Settled' = q
    BY <1>1, <2>2 DEF Settled
  <2>. QED
    BY <1>2, <2>2, <2>3 DEF Unseen
<1>. QED
  BY <1>3, <1>4

LEMMA LinkUnseen == IInv /\ (LinkIn \/ LinkOut) => Unseen
<1> SUFFICES ASSUME IInv, LinkIn \/ LinkOut PROVE Unseen
  OBVIOUS
<1> USE DEF IInv
<1>1. CASE LinkIn
  <2>1. /\ prod.pc = "link" /\ cons.pc # "link" /\ cons' = cons
        /\ q' = EnqueueLink(q) /\ taken' = taken /\ iNumMsgDrop' = iNumMsgDrop
        /\ prod' = [prod EXCEPT !.pc = "unlock", !.ret = enqueueReturn(q, prod.msg)]
        /\ prod \in Producer /\ prod.msg \notin Oversize
    BY <1>1 DEF LinkIn, LockHeld, CallState, TypeOK
  <2>2. prod'.pc = "unlock" /\ prod'.ret = enqueueReturn(q, prod.msg)
    BY <2>1 DEF Producer
  <2>3. prod'.ret # 0 <=> Full(q)
    BY <2>1, <2>2, EnqueueReturn
  <2>4. Settled = EnqueueLink(q) /\ Settled' = EnqueueLink(q)
    BY <2>1, <2>2 DEF Settled
  <2>5. Dropped' = Dropped
    BY <2>1, <2>2, <2>3 DEF Dropped
  <2>. QED
    BY <2>1, <2>4, <2>5 DEF Unseen
<1>2. CASE LinkOut
  <2>1. /\ cons.pc = "link" /\ prod.pc # "link" /\ prod' = prod
        /\ q' = DequeueLink(q) /\ taken' = taken /\ iNumMsgDrop' = iNumMsgDrop
        /\ cons' = [cons EXCEPT !.pc = "unlock"] /\ cons \in Consumer
    BY <1>2 DEF LinkOut, LockHeld, TypeOK
  <2>2. cons'.pc = "unlock"
    BY <2>1 DEF Consumer
  <2>3. Settled = DequeueLink(q) /\ Settled' = DequeueLink(q)
    BY <2>1, <2>2 DEF Settled
  <2>4. Dropped' = Dropped
    BY <2>1 DEF Dropped
  <2>. QED
    BY <2>1, <2>3, <2>4 DEF Unseen
<1>. QED
  BY <1>1, <1>2

Elsewhere ==
  \/ ReadRing \/ Exit \/ LockIn \/ UnlockIn \/ CountDrop
  \/ LockOut \/ UnlockOut \/ WriteDiskData \/ UNCHANGED vars

LEMMA OtherUnseen == IInv /\ Elsewhere => Unseen
<1> SUFFICES ASSUME IInv, Elsewhere PROVE Unseen
  OBVIOUS
<1> USE DEF IInv
<1>1. q' = q /\ taken' = taken
  BY DEF Elsewhere, ReadRing, Exit, LockIn, UnlockIn, CountDrop, LockOut, UnlockOut,
         WriteDiskData, vars
<1>2. prod \in Producer /\ cons \in Consumer /\ iNumMsgDrop \in Nat
  BY DEF TypeOK
<1>3. /\ prod.pc = "link" <=> prod'.pc = "link"
      /\ cons.pc = "link" <=> cons'.pc = "link"
  <2>1. CASE ReadRing \/ LockIn \/ UnlockIn \/ CountDrop
    BY <1>2, <2>1 DEF ReadRing, LockIn, UnlockIn, CountDrop, Producer
  <2>2. CASE LockOut \/ UnlockOut \/ WriteDiskData
    BY <1>2, <2>2 DEF LockOut, UnlockOut, WriteDiskData, Consumer
  <2>3. CASE Exit \/ UNCHANGED vars
    BY <2>3 DEF Exit, vars
  <2>. QED
    BY <2>1, <2>2, <2>3 DEF Elsewhere
<1>4. Settled' = Settled
  BY <1>1, <1>3 DEF Settled
<1>5. Dropped' = Dropped
  <2>1. CASE CountDrop
    <3>1. /\ prod.pc = "count" /\ prod'.pc = "loop"
          /\ iNumMsgDrop' = iNumMsgDrop + (IF prod.ret # 0 THEN 1 ELSE 0)
      BY <1>2, <2>1 DEF CountDrop, Producer
    <3>. QED
      BY <1>2, <3>1 DEF Dropped
  <2>2. CASE ~CountDrop
    <3>1. /\ iNumMsgDrop' = iNumMsgDrop
          /\ prod.pc \in {"unlock", "count"} /\ prod.ret # 0
               <=> prod'.pc \in {"unlock", "count"} /\ prod'.ret # 0
      BY <1>2, <2>2 DEF Elsewhere, ReadRing, Exit, LockIn, UnlockIn, LockOut, UnlockOut,
                        WriteDiskData, vars, Producer
    <3>. QED
      BY <1>1, <1>3, <3>1 DEF Dropped
  <2>. QED
    BY <2>1, <2>2
<1>. QED
  BY <1>1, <1>4, <1>5 DEF Unseen

-----------------------------------------------------------------------------
LEMMA InitCounted == Init => DropsCounted
<1> SUFFICES ASSUME Init PROVE DropsCounted
  OBVIOUS
<1>1. prod.pc = "loop" /\ cons.pc = "lock" /\ q = initqueue /\ read = 0 /\ taken = <<>>
      /\ iNumMsgDrop = 0
  BY DEF Init
<1>2. Settled = initqueue /\ Dropped = 0 /\ Queued = 0
  BY <1>1 DEF Settled, Dropped, Queued
<1>. QED
  BY <1>1, <1>2, InitQueue DEF DropsCounted

LEMMA NextCounted == IInv /\ DropsCounted /\ [Next]_vars => DropsCounted'
<1> SUFFICES ASSUME IInv, DropsCounted, [Next]_vars PROVE DropsCounted'
  OBVIOUS
<1> USE DEF IInv
<1>1. /\ taken \in Seq(Messages) /\ read \in Nat /\ Dropped \in Nat
      /\ Settled.NumOfElements \in Nat /\ prod \in Producer /\ Len(taken) \in Nat
  <2>1. Settled.NumOfElements \in 0 .. MyMaxElements
    BY SettledQueue DEF Queue
  <2>. QED
    BY <2>1, PacketAssumption, QueueAssumption DEF TypeOK, Dropped
<1>2. Queued = Len(taken) + Settled.NumOfElements + Dropped
  BY DEF DropsCounted
<1>3. CASE CopyIn
  <2>1. Added
    BY <1>3, AddedOrRefused
  <2>2. prod.pc = "copy" /\ prod'.pc \in {"unlock", "link"} /\ read' = read
    BY <1>1, <1>3 DEF CopyIn, Producer
  <2>3. Queued' = Queued + 1
    BY <1>1, <2>2 DEF Queued
  <2>4. taken' = taken
        /\ \/ Settled'.NumOfElements = Settled.NumOfElements + 1 /\ Dropped' = Dropped
           \/ Settled'.NumOfElements = Settled.NumOfElements /\ Dropped' = Dropped + 1
    BY <2>1 DEF Added
  <2>5. DropsCounted' <=> Queued' = Len(taken') + Settled'.NumOfElements + Dropped'
    BY DEF DropsCounted
  <2>6. Len(taken') = Len(taken)
    BY <2>4
  <2>. QED
    BY <1>1, <1>2, <2>3, <2>4, <2>5, <2>6
<1>4. CASE CopyOut
  <2>1. prod' = prod /\ read' = read
    BY <1>4 DEF CopyOut
  <2>2. Queued' = Queued
    BY <2>1 DEF Queued
  <2>3. CASE Taken
    <3>1. Len(taken') = Len(taken) + 1
      <4>1. Contents(Settled) \in Seq(Cell) /\ Contents(Settled) # <<>>
        BY <2>3, SettledQueue, ContentsType DEF Taken
      <4>2. Head(Contents(Settled)) \in Cell
        BY <4>1, HeadTailProperties
      <4>3. taken \in Seq(Cell)
        BY <1>1, SeqMonotonic DEF Cell
      <4>. QED
        BY <2>3, <4>2, <4>3 DEF Taken
    <3>. QED
      BY <1>1, <1>2, <2>2, <2>3, <3>1 DEF Taken, DropsCounted
  <2>4. CASE Unseen
    BY <1>2, <2>2, <2>4 DEF Unseen, DropsCounted
  <2>. QED
    BY <1>4, <2>3, <2>4, TakenOrEmpty
<1>5. CASE LinkIn \/ LinkOut
  <2>1. Unseen
    BY <1>5, LinkUnseen
  <2>2. Queued' = Queued
    BY <1>1, <1>5 DEF LinkIn, LinkOut, Queued, Producer
  <2>. QED
    BY <1>2, <2>1, <2>2 DEF Unseen, DropsCounted
<1>6. CASE Elsewhere
  <2>1. Unseen
    BY <1>6, OtherUnseen
  <2>2. Queued' = Queued
    <3>1. CASE ReadRing
      BY <1>1, <3>1 DEF ReadRing, Queued, Producer
    <3>2. CASE LockIn \/ UnlockIn \/ CountDrop
      BY <1>1, <3>2 DEF LockIn, UnlockIn, CountDrop, Queued, Producer
    <3>3. CASE LockOut \/ UnlockOut \/ WriteDiskData \/ Exit \/ UNCHANGED vars
      BY <3>3 DEF LockOut, UnlockOut, WriteDiskData, Exit, vars, Queued
    <3>. QED
      BY <1>6, <3>1, <3>2, <3>3 DEF Elsewhere
  <2>. QED
    BY <1>2, <2>1, <2>2 DEF Unseen, DropsCounted
<1>. QED
  BY <1>3, <1>4, <1>5, <1>6 DEF Next, Main, DiskWriterThread, Elsewhere

(* Spec => []DropsCounted: no packet is lost without being counted, and    *)
(* none is counted that the writer still gets.                             *)
THEOREM DropsAreCounted == Spec => []DropsCounted
<1>1. Init => IInv /\ DropsCounted
  BY InitIInv, InitCounted
<1>2. IInv /\ DropsCounted /\ [Next]_vars => (IInv /\ DropsCounted)'
  BY NextIInv, NextCounted
<1>. QED
  BY <1>1, <1>2, PTL DEF Spec

-----------------------------------------------------------------------------
(* Every step of the two threads is a step of DropFifo or changes nothing  *)
(* it sees.                                                                *)
LEMMA StepRefines == IInv /\ [Next]_vars => [Fifo!Next]_(Fifo!vars)
<1> SUFFICES ASSUME IInv, [Next]_vars PROVE [Fifo!Next]_(Fifo!vars)
  OBVIOUS
<1> USE DEF IInv
<1>1. /\ Contents(Settled) \in Seq(Cell)
      /\ Len(Contents(Settled)) = Settled.NumOfElements
  BY SettledQueue, ContentsType
<1>2. ASSUME Unseen PROVE UNCHANGED Fifo!vars
  BY <1>2 DEF Unseen, Fifo!vars
<1>3. CASE CopyIn
  <2>1. Added
    BY <1>3, AddedOrRefused
  <2>2. prod.msg \in Messages /\ taken' = taken
    BY <2>1 DEF Added
  <2>3. CASE /\ Settled.NumOfElements < MyMaxElements
             /\ Contents(Settled') = Append(Contents(Settled), prod.msg)
             /\ Dropped' = Dropped
    <3>1. Fifo!Add(prod.msg)
      BY <1>1, <2>2, <2>3 DEF Fifo!Add
    <3>. QED
      BY <2>2, <3>1 DEF Fifo!Next
  <2>4. CASE /\ Settled.NumOfElements = MyMaxElements
             /\ Contents(Settled') = Append(Tail(Contents(Settled)), prod.msg)
             /\ Dropped' = Dropped + 1
    <3>1. Fifo!Overwrite(prod.msg)
      BY <1>1, <2>2, <2>4 DEF Fifo!Overwrite
    <3>. QED
      BY <2>2, <3>1 DEF Fifo!Next
  <2>5. CASE Settled' = Settled /\ Dropped' = Dropped + 1
    <3>1. Fifo!Refuse
      BY <2>2, <2>5 DEF Fifo!Refuse
    <3>. QED
      BY <3>1 DEF Fifo!Next
  <2>. QED
    BY <2>1, <2>3, <2>4, <2>5 DEF Added
<1>4. CASE CopyOut
  <2>1. CASE Taken
    <3>1. Fifo!Take
      BY <2>1 DEF Taken, Fifo!Take
    <3>. QED
      BY <3>1 DEF Fifo!Next
  <2>. QED
    BY <1>2, <1>4, <2>1, TakenOrEmpty
<1>5. CASE LinkIn \/ LinkOut
  BY <1>2, <1>5, LinkUnseen
<1>6. CASE Elsewhere
  BY <1>2, <1>6, OtherUnseen
<1>. QED
  BY <1>3, <1>4, <1>5, <1>6 DEF Next, Main, DiskWriterThread, Elsewhere

(* Spec => ImplementsFifo: the circular queue with its two threads is the  *)
(* first-in first-out queue of DropFifo.                                   *)
THEOREM QueueIsFifo == Spec => ImplementsFifo
<1>1. Init => Fifo!Init
  <2> SUFFICES ASSUME Init PROVE Fifo!Init
    OBVIOUS
  <2>1. prod.pc = "loop" /\ cons.pc = "lock" /\ q = initqueue /\ taken = <<>> /\ iNumMsgDrop = 0
    BY DEF Init
  <2>2. Settled = initqueue /\ Dropped = 0
    BY <2>1 DEF Settled, Dropped
  <2>. QED
    BY <2>1, <2>2, InitQueue DEF Fifo!Init
<1>. QED
  BY <1>1, InitIInv, NextIInv, StepRefines, PTL DEF Spec, ImplementsFifo, Fifo!Spec
=============================================================================
