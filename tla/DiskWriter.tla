----------------------------- MODULE DiskWriter -----------------------------
(***************************************************************************)
(* disk_wcatwc: the main thread reads packets from the ring and puts them  *)
(* into a memory queue; the writer thread takes them out and writes them   *)
(* to the disk.  MutexQueue guards the queue.  When main returns the       *)
(* process ends, whatever the writer is doing.                             *)
(*                                                                         *)
(* Packets are numbered in the order in which they are read.               *)
(***************************************************************************)
EXTENDS MemCircQueue, FiniteSets

CONSTANT MaxPackets  \* bound: packets read in a behaviour

ASSUME PacketAssumption ==
  /\ MaxPackets \in Nat
  /\ Messages = 1 .. MaxPackets

VARIABLES
  q,            \* MsgQueue
  mutex,        \* holder of MutexQueue, or "free"
  prod,         \* main thread: program counter, WaveBuf, result of enqueue
  cons,         \* writer thread: program counter, LocalBuf
  read,         \* packets read from the ring so far
  iNumMsgDrop,  \* packets main thinks were dropped
  taken,        \* history: the packets the writer took, in order
  exited        \* main has returned

vars == <<q, mutex, prod, cons, read, iNumMsgDrop, taken, exited>>

Producer == [pc : {"loop", "lock", "copy", "link", "unlock", "count"},
             msg : Messages \cup {NULL}, ret : {0, -1, -3}]

Consumer == [pc : {"lock", "copy", "link", "unlock", "work"},
             msg : Messages \cup {NULL}]

(* Types: the positions and the count of the queue stay inside it, also    *)
(* half way through enqueue and dequeue.                                   *)
TypeOK ==
  /\ q \in Queue
  /\ mutex \in {"free", "main", "writer"}
  /\ prod \in Producer /\ cons \in Consumer
  /\ read \in 0 .. MaxPackets
  /\ iNumMsgDrop \in Nat
  /\ taken \in Seq(Messages)
  /\ exited \in BOOLEAN

Init ==
  /\ q = initqueue
  /\ mutex = "free"
  /\ prod = [pc |-> "loop", msg |-> NULL, ret |-> 0]
  /\ cons = [pc |-> "lock", msg |-> NULL]
  /\ read = 0
  /\ iNumMsgDrop = 0
  /\ taken = <<>>
  /\ exited = FALSE

-----------------------------------------------------------------------------
(* The main thread.                                                        *)

(* A packet arrives in WaveBuf.  GET_NONE and GET_TOOBIG only go back to   *)
(* the top of the loop; the other return codes differ in a log line.       *)
ReadRing ==
  /\ prod.pc = "loop"
  /\ read < MaxPackets
  /\ read' = read + 1
  /\ prod' = [prod EXCEPT !.pc = "lock", !.msg = read + 1]
  /\ UNCHANGED <<q, mutex, cons, iNumMsgDrop, taken, exited>>

(* The TERMINATE flag is seen, or a heartbeat could not be sent.           *)
Exit ==
  /\ prod.pc = "loop"
  /\ exited' = TRUE
  /\ UNCHANGED <<q, mutex, prod, cons, read, iNumMsgDrop, taken>>

LockIn ==
  /\ prod.pc = "lock"
  /\ mutex = "free"
  /\ mutex' = "main"
  /\ prod' = [prod EXCEPT !.pc = "copy"]
  /\ UNCHANGED <<q, cons, read, iNumMsgDrop, taken, exited>>

CopyIn ==
  /\ prod.pc = "copy"
  /\ IF prod.msg \in Oversize
     THEN /\ prod' = [prod EXCEPT !.pc = "unlock", !.ret = enqueueReturn(q, prod.msg)]
          /\ UNCHANGED q
     ELSE /\ prod' = [prod EXCEPT !.pc = "link"]
          /\ q' = EnqueueCopy(q, prod.msg)
  /\ UNCHANGED <<mutex, cons, read, iNumMsgDrop, taken, exited>>

LinkIn ==
  /\ prod.pc = "link"
  /\ q' = EnqueueLink(q)
  /\ prod' = [prod EXCEPT !.pc = "unlock", !.ret = enqueueReturn(q, prod.msg)]
  /\ UNCHANGED <<mutex, cons, read, iNumMsgDrop, taken, exited>>

UnlockIn ==
  /\ prod.pc = "unlock"
  /\ mutex' = "free"
  /\ prod' = [prod EXCEPT !.pc = "count"]
  /\ UNCHANGED <<q, cons, read, iNumMsgDrop, taken, exited>>

CountDrop ==
  /\ prod.pc = "count"
  /\ iNumMsgDrop' = iNumMsgDrop + (IF prod.ret # 0 THEN 1 ELSE 0)
  /\ prod' = [prod EXCEPT !.pc = "loop"]
  /\ UNCHANGED <<q, mutex, cons, read, taken, exited>>

-----------------------------------------------------------------------------
(* The writer thread.                                                      *)

(* Mutant: the writer does not wait for MutexQueue.                        *)
LockOut_Unguarded ==
  /\ cons.pc = "lock"
  /\ cons' = [cons EXCEPT !.pc = "copy"]
  /\ UNCHANGED <<q, mutex, prod, read, iNumMsgDrop, taken, exited>>

LockOut ==
  /\ cons.pc = "lock"
  /\ mutex = "free"
  /\ mutex' = "writer"
  /\ cons' = [cons EXCEPT !.pc = "copy"]
  /\ UNCHANGED <<q, prod, read, iNumMsgDrop, taken, exited>>

CopyOut ==
  /\ cons.pc = "copy"
  /\ cons' = [pc |-> IF peekNextElement(q) = NULL THEN "unlock" ELSE "link",
              msg |-> peekNextElement(q)]
  /\ taken' = IF peekNextElement(q) = NULL THEN taken
                                           ELSE Append(taken, peekNextElement(q))
  /\ UNCHANGED <<q, mutex, prod, read, iNumMsgDrop, exited>>

LinkOut ==
  /\ cons.pc = "link"
  /\ q' = DequeueLink(q)
  /\ cons' = [cons EXCEPT !.pc = "unlock"]
  /\ UNCHANGED <<mutex, prod, read, iNumMsgDrop, taken, exited>>

(* Mutant: MutexQueue is not released when the queue was empty.            *)
UnlockOut_Forgotten ==
  /\ cons.pc = "unlock"
  /\ mutex' = IF cons.msg = NULL THEN mutex ELSE "free"
  /\ cons' = [cons EXCEPT !.pc = IF cons.msg = NULL THEN "lock" ELSE "work"]
  /\ UNCHANGED <<q, prod, read, iNumMsgDrop, taken, exited>>

(* An empty queue: the thread sleeps 50 ms and tries again.                *)
UnlockOut ==
  /\ cons.pc = "unlock"
  /\ mutex' = "free"
  /\ cons' = [cons EXCEPT !.pc = IF cons.msg = NULL THEN "lock" ELSE "work"]
  /\ UNCHANGED <<q, prod, read, iNumMsgDrop, taken, exited>>

(* The packet is checked against the station list and written, or thrown   *)
(* away.                                                                   *)
WriteDiskData ==
  /\ cons.pc = "work"
  /\ cons' = [pc |-> "lock", msg |-> NULL]
  /\ UNCHANGED <<q, mutex, prod, read, iNumMsgDrop, taken, exited>>

-----------------------------------------------------------------------------
Main == ReadRing \/ LockIn \/ CopyIn \/ LinkIn \/ UnlockIn \/ CountDrop

DiskWriterThread == LockOut \/ CopyOut \/ LinkOut \/ UnlockOut \/ WriteDiskData

Next == ~exited /\ (Main \/ Exit \/ DiskWriterThread)

Spec == Init /\ [][Next]_vars

(* Each thread keeps running while the process lives.  A thread waiting    *)
(* for MutexQueue gets it if the other keeps giving it back: the writer    *)
(* sleeps after it found the queue empty, and main before it polls again.  *)
FairSpec ==
  /\ Spec
  /\ WF_vars(~exited /\ Main) /\ SF_vars(~exited /\ LockIn)
  /\ WF_vars(~exited /\ DiskWriterThread) /\ SF_vars(~exited /\ LockOut)

-----------------------------------------------------------------------------
(* Properties.                                                             *)

(* The queue between two calls: a call that copied but has not moved the   *)
(* positions yet counts as done.                                           *)
Settled ==
  IF prod.pc = "link" THEN EnqueueLink(q)
  ELSE IF cons.pc = "link" THEN DequeueLink(q) ELSE q

(* Packets whose loss is certain: counted in iNumMsgDrop, or by the        *)
(* enqueue that is under way.                                              *)
Dropped ==
  iNumMsgDrop +
    (IF \/ prod.pc = "link" /\ Full(q)
        \/ prod.pc \in {"unlock", "count"} /\ prod.ret # 0
     THEN 1 ELSE 0)

(* Packets handed to enqueue.                                              *)
Queued == IF prod.pc \in {"lock", "copy"} THEN read - 1 ELSE read

(* The count of dropped packets that main logs is exact: every packet read *)
(* was taken by the writer, is still queued, or was counted, however the   *)
(* two threads interleave.                                                 *)
DropsCounted == Queued = Len(taken) + Settled.NumOfElements + Dropped

(* Through both threads and the wrap of the positions the queue behaves as *)
(* a first-in first-out queue that drops its oldest message when it is     *)
(* full: nothing is torn, duplicated, reordered or silently lost.          *)
Fifo ==
  INSTANCE DropFifo WITH Capacity <- MyMaxElements,
    pending <- Contents(Settled), dropped <- Dropped

ImplementsFifo == Fifo!Spec

(* For every packet read, the writer takes it or a newer one (it was then  *)
(* pushed out), unless the process ends first: no thread waits for         *)
(* MutexQueue for ever, and the writer never falls asleep on a full queue. *)
TakenOrDropped ==
  \A m \in Messages :
    (prod.msg = m) ~> (exited \/ \E i \in DOMAIN taken : taken[i] >= m)

=============================================================================
