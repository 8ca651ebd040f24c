------------------------------ MODULE TrigQueue ------------------------------
(***************************************************************************)
(* trig2disk: the stacker thread moves trigger messages from the ring to   *)
(* OutQueue, the snippet maker takes them out and processes them, main     *)
(* watches both.  After each change of the queue its contents are dumped   *)
(* to QueueFile, and a new process loads them; QueueFile is taken to be    *)
(* configured.  Processes stop, are killed and are started again.          *)
(*                                                                         *)
(* Messages are numbered in the order in which the stacker reads them.     *)
(* The queue calls are single steps: both threads make them under one      *)
(* mutex, and that this is enough is shown by DiskWriter.  The dump is not *)
(* one step, for a stop may come between any two of its writes.            *)
(***************************************************************************)
EXTENDS MemCircQueue, FiniteSets

CONSTANTS
  DelayTime,    \* whether a message must age before it is processed
  DumpFails,    \* calls of dumpqueue that may fail, of "open", "write" and "close"
  MallocFails,  \* whether the stacker's malloc may fail
  MaxRead,      \* bound: messages read in a behaviour
  MaxBoots      \* bound: processes started in a behaviour

ASSUME TrigAssumption ==
  /\ DelayTime \in BOOLEAN /\ MallocFails \in BOOLEAN
  /\ DumpFails \subseteq {"open", "write", "close"}
  /\ MaxRead \in Nat /\ MaxBoots \in Nat
  /\ Messages = 1 .. MaxRead

VARIABLES
  q,           \* OutQueue
  file,        \* QueueFile
  mutex,       \* the thread that holds the queue mutex, or "free"
  main,        \* program counter of the main thread; "down": no process
  status,      \* MessageStackerStatus and SnippetMakerStatus
  thr,         \* program counters of the threads, their message and return code
  read,        \* messages read from the ring so far
  ripe,        \* how many of them are older than DelayTime
  begun,       \* history: the messages whose processing began, in order
  dumpFailed,  \* history: the last dump of this process failed, noticed or not
  stale,       \* history: a dump could not open the file, which kept its contents
  boots        \* processes started so far

vars == <<q, file, mutex, main, status, thr, read, ripe, begun, dumpFailed, stale, boots>>

Threads == {"stacker", "snipper"}

Thread ==
  [pc : {"off", "begin", "loop", "lock", "peek", "call", "open", "write", "unlock",
         "work", "dead"},
   msg : Messages \cup {NULL}, ret : {0, -1, -3}]

Off == [pc |-> "off", msg |-> NULL, ret |-> 0]

(* Types: a queue that was loaded from a file is a queue, whatever part of *)
(* it a stop or a failing write left in the file (undumpqueue).            *)
TypeOK ==
  /\ q \in Queue
  /\ file.count \in -1 .. MyMaxElements /\ Len(file.body) <= MyMaxElements
  /\ mutex \in Threads \cup {"free"}
  /\ main \in {"down", "start1", "ok1", "start2", "ok2", "watch", "stop"}
  /\ status \in [Threads -> {-1, 0, 1}]
  /\ thr \in [Threads -> Thread]
  /\ read \in 0 .. MaxRead /\ ripe \in 0 .. read
  /\ begun \in Seq(Messages)
  /\ dumpFailed \in BOOLEAN /\ stale \in BOOLEAN
  /\ boots \in 0 .. MaxBoots

Init ==
  /\ q = initqueue /\ file = NoFile
  /\ mutex = "free" /\ main = "down"
  /\ status = [t \in Threads |-> 0]
  /\ thr = [t \in Threads |-> Off]
  /\ read = 0 /\ ripe = 0
  /\ begun = <<>>
  /\ dumpFailed = FALSE /\ stale = FALSE
  /\ boots = 0

-----------------------------------------------------------------------------
(* The main thread.                                                        *)

(* Start-up to the load of the queue file.  A file with too many or too    *)
(* long entries makes the process return at once.                          *)
Boot ==
  /\ main = "down" /\ boots < MaxBoots
  /\ undumpReturn(file) \notin {-2, -3}
  /\ q' = undumpqueue(file)
  /\ dumpFailed' = FALSE
  /\ main' = "start1"
  /\ boots' = boots + 1
  /\ UNCHANGED <<file, mutex, status, thr, read, ripe, begun, stale>>

Start(t, from, to) ==
  /\ main = from
  /\ thr' = [thr EXCEPT ![t].pc = "begin"]
  /\ main' = to
  /\ UNCHANGED <<q, file, mutex, status, read, ripe, begun, dumpFailed, stale, boots>>

(* "Assume the best": main clears the status after it started the thread.  *)
AssumeBest(t, from, to) ==
  /\ main = from
  /\ status' = [status EXCEPT ![t] = 0]
  /\ main' = to
  /\ UNCHANGED <<q, file, mutex, thr, read, ripe, begun, dumpFailed, stale, boots>>

(* The end of the process, and with it of the threads and the queue.       *)
Down ==
  /\ main' = "down"
  /\ q' = initqueue /\ mutex' = "free"
  /\ status' = [t \in Threads |-> 0]
  /\ thr' = [t \in Threads |-> Off]
  /\ UNCHANGED <<file, read, ripe, begun, dumpFailed, stale, boots>>

(* A thread reported its death: main returns.                              *)
ThreadDied == main = "watch" /\ (\E t \in Threads : status[t] < 0) /\ Down

(* TERMINATE, or the process's own id in the flag: the threads are told.   *)
Terminate ==
  /\ main = "watch"
  /\ status' = [t \in Threads |-> 1]
  /\ main' = "stop"
  /\ UNCHANGED <<q, file, mutex, thr, read, ripe, begun, dumpFailed, stale, boots>>

(* One second later main returns, whatever the threads are doing.          *)
Return == main = "stop" /\ Down

Main ==
  \/ Start("stacker", "start1", "ok1") \/ AssumeBest("stacker", "ok1", "start2")
  \/ Start("snipper", "start2", "ok2") \/ AssumeBest("snipper", "ok2", "watch")
  \/ ThreadDied \/ Return

(* The process is killed or dies of a fatal error.                         *)
Crash == main # "down" /\ Down

-----------------------------------------------------------------------------
(* What both threads do.                                                   *)

Goto(t, pc) == thr' = [thr EXCEPT ![t].pc = pc]

Die(t) ==
  /\ status' = [status EXCEPT ![t] = -1]
  /\ Goto(t, "dead")

Lock(t) ==
  /\ thr[t].pc = "lock" /\ mutex = "free"
  /\ mutex' = t
  /\ Goto(t, IF t = "snipper" /\ DelayTime THEN "peek" ELSE "call")
  /\ UNCHANGED <<q, file, main, status, read, ripe, begun, dumpFailed, stale, boots>>

(* dumpqueue opens, and so empties, the file that holds the last dump.     *)
DumpOpen(t) ==
  /\ thr[t].pc = "open"
  /\ \/ file' = Truncated /\ Goto(t, "write") /\ UNCHANGED <<dumpFailed, stale>>
     \/ /\ "open" \in DumpFails
        /\ dumpFailed' = TRUE /\ stale' = TRUE
        /\ Goto(t, "unlock") /\ UNCHANGED file
  /\ UNCHANGED <<q, mutex, main, status, read, ripe, begun, boots>>

(* What is left of a written file when its last buffers are lost.          *)
CutShort(f) == {Truncated} \cup {[f EXCEPT !.body = SubSeq(@, 1, n)] : n \in 0 .. Len(f.body)}

(* A failed write deletes the file.  The buffers are written out by fclose *)
(* at the latest, but nobody looks at its result: if that fails, the dump  *)
(* counts as done, and the file stays, cut short.                          *)
DumpWrite(t) ==
  /\ thr[t].pc = "write"
  /\ \/ /\ file' = DumpNext(q, file)
        /\ IF file'.whole
           THEN dumpFailed' = FALSE /\ Goto(t, "unlock")
           ELSE UNCHANGED <<dumpFailed, thr>>
     \/ /\ "write" \in DumpFails
        /\ file' = NoFile /\ dumpFailed' = TRUE /\ Goto(t, "unlock")
     \/ /\ "close" \in DumpFails /\ DumpNext(q, file).whole
        /\ file' \in CutShort(file) /\ dumpFailed' = TRUE /\ Goto(t, "unlock")
  /\ UNCHANGED <<q, mutex, main, status, read, ripe, begun, stale, boots>>

-----------------------------------------------------------------------------
(* MessageStacker.                                                         *)

(* malloc, the status, and the flush of the ring: what was put while no    *)
(* process ran is thrown away.                                             *)
StackerBegin ==
  /\ thr["stacker"].pc = "begin"
  /\ \/ /\ status' = [status EXCEPT !["stacker"] = 0]
        /\ Goto("stacker", "loop")
     \/ MallocFails /\ Die("stacker")
  /\ UNCHANGED <<q, file, mutex, main, read, ripe, begun, dumpFailed, stale, boots>>

StackerLoop ==
  /\ thr["stacker"].pc = "loop"
  /\ \/ status["stacker"] > 0 /\ Die("stacker") /\ UNCHANGED read
     \/ /\ status["stacker"] <= 0 /\ read < MaxRead
        /\ read' = read + 1
        /\ thr' = [thr EXCEPT !["stacker"].pc = "lock", !["stacker"].msg = read + 1]
        /\ UNCHANGED status
  /\ UNCHANGED <<q, file, mutex, main, ripe, begun, dumpFailed, stale, boots>>

(* The dump follows only when nothing was overwritten.                     *)
StackerEnqueue ==
  /\ thr["stacker"].pc = "call"
  /\ LET m == thr["stacker"].msg
         ret == enqueueReturn(q, m)
     IN /\ q' = enqueue(q, m)
        /\ thr' = [thr EXCEPT !["stacker"].ret = ret,
                              !["stacker"].pc = IF ret = 0 THEN "open" ELSE "unlock"]
  /\ UNCHANGED <<file, mutex, main, status, read, ripe, begun, dumpFailed, stale, boots>>

StackerUnlock ==
  /\ thr["stacker"].pc = "unlock"
  /\ mutex' = "free"
  /\ Goto("stacker", "loop")
  /\ UNCHANGED <<q, file, main, status, read, ripe, begun, dumpFailed, stale, boots>>

Stacker ==
  \/ StackerBegin \/ StackerLoop \/ Lock("stacker") \/ StackerEnqueue
  \/ DumpOpen("stacker") \/ DumpWrite("stacker") \/ StackerUnlock

-----------------------------------------------------------------------------
(* SnippetMaker.                                                           *)

SnipperLoop ==
  /\ thr["snipper"].pc \in {"begin", "loop"}
  /\ IF thr["snipper"].pc = "begin"
     THEN status' = [status EXCEPT !["snipper"] = 0] /\ Goto("snipper", "loop")
     ELSE IF status["snipper"] > 0 THEN Die("snipper")
     ELSE Goto("snipper", "lock") /\ UNCHANGED status
  /\ UNCHANGED <<q, file, mutex, main, read, ripe, begun, dumpFailed, stale, boots>>

(* Mutants: the mutex is released between the look and the dequeue; or it  *)
(* is kept when the message is too young.                                  *)
SnipperPeek_Releases ==
  /\ thr["snipper"].pc = "peek"
  /\ LET m == peekNextElement(q)
     IN /\ thr' = [thr EXCEPT
             !["snipper"].msg = NULL,
             !["snipper"].pc = IF m # NULL /\ m <= ripe THEN "call" ELSE "unlock"]
        /\ mutex' = IF m # NULL /\ m <= ripe THEN "free" ELSE mutex
  /\ UNCHANGED <<q, file, main, status, read, ripe, begun, dumpFailed, stale, boots>>

SnipperPeek_Keeps ==
  /\ thr["snipper"].pc = "peek"
  /\ LET m == peekNextElement(q)
     IN thr' = [thr EXCEPT
          !["snipper"].msg = NULL,
          !["snipper"].pc = IF m # NULL /\ m <= ripe THEN "call" ELSE "loop"]
  /\ UNCHANGED <<q, file, mutex, main, status, read, ripe, begun, dumpFailed, stale, boots>>

(* With DelayTime the oldest message must be old enough; the mutex is kept *)
(* from here to the dequeue.                                               *)
SnipperPeek ==
  /\ thr["snipper"].pc = "peek"
  /\ LET m == peekNextElement(q)
     IN thr' = [thr EXCEPT
          !["snipper"].msg = NULL,
          !["snipper"].pc = IF m # NULL /\ m <= ripe THEN "call" ELSE "unlock"]
  /\ UNCHANGED <<q, file, mutex, main, status, read, ripe, begun, dumpFailed, stale, boots>>

(* Mutant: the queue is not dumped after a dequeue.                        *)
SnipperDequeue_NoDump ==
  /\ thr["snipper"].pc = "call"
  /\ LET m == peekNextElement(q)
     IN /\ q' = IF m = NULL THEN q ELSE DequeueLink(q)
        /\ thr' = [thr EXCEPT !["snipper"].msg = m, !["snipper"].pc = "unlock"]
  /\ UNCHANGED <<file, mutex, main, status, read, ripe, begun, dumpFailed, stale, boots>>

SnipperDequeue ==
  /\ thr["snipper"].pc = "call"
  /\ LET m == peekNextElement(q)
     IN /\ q' = IF m = NULL THEN q ELSE DequeueLink(q)
        /\ thr' = [thr EXCEPT !["snipper"].msg = m,
                              !["snipper"].pc = IF m = NULL THEN "unlock" ELSE "open"]
  /\ UNCHANGED <<file, mutex, main, status, read, ripe, begun, dumpFailed, stale, boots>>

SnipperUnlock ==
  /\ thr["snipper"].pc = "unlock"
  /\ mutex' = "free"
  /\ IF thr["snipper"].msg = NULL
     THEN Goto("snipper", "loop") /\ UNCHANGED begun
     ELSE Goto("snipper", "work") /\ begun' = Append(begun, thr["snipper"].msg)
  /\ UNCHANGED <<q, file, main, status, read, ripe, dumpFailed, stale, boots>>

(* The traces are fetched and put away.  The message is finished, is given *)
(* up because no wave server answered, or the thread gives itself up.      *)
SnipperWork ==
  /\ thr["snipper"].pc = "work"
  /\ \/ status["snipper"] <= 0 /\ Goto("snipper", "loop") /\ UNCHANGED status
     \/ Die("snipper")
  /\ UNCHANGED <<q, file, mutex, main, read, ripe, begun, dumpFailed, stale, boots>>

Snipper ==
  \/ SnipperLoop \/ Lock("snipper") \/ SnipperPeek \/ SnipperDequeue
  \/ DumpOpen("snipper") \/ DumpWrite("snipper") \/ SnipperUnlock \/ SnipperWork

(* The oldest message that is younger than DelayTime comes of age.         *)
Ripen ==
  /\ ripe < read
  /\ ripe' = ripe + 1
  /\ UNCHANGED <<q, file, mutex, main, status, thr, read, begun, dumpFailed, stale, boots>>

Next == Boot \/ Main \/ Terminate \/ Crash \/ Stacker \/ Snipper \/ Ripen

Spec == Init /\ [][Next]_vars

(* The threads of a living process run on, time passes, and a thread gets  *)
(* the mutex if it is free again and again: both sleep between tries.      *)
(* Nothing forces a stop, a crash or a new start.                          *)
FairSpec ==
  /\ Spec
  /\ WF_vars(Main) /\ WF_vars(Stacker) /\ WF_vars(Snipper) /\ WF_vars(Ripen)
  /\ \A t \in Threads : SF_vars(Lock(t))

-----------------------------------------------------------------------------
(* Properties.                                                             *)

Restored == Contents(undumpqueue(file))

(* Between two calls the file restores exactly the queue, whichever thread *)
(* changed it last, except when the queue is full, for an overwrite is not *)
(* dumped, and after a dump that failed, whether the code noticed or not.  *)
SavedUnlessFull ==
  mutex = "free" /\ main # "down" /\ ~Full(q) /\ ~dumpFailed => Restored = Contents(q)

(* No message is processed twice and none after a later one, over any      *)
(* number of stops and kills: a message leaves the file before its         *)
(* processing begins, and a message that was pushed out of the queue but   *)
(* not out of the file comes back only before its successors are begun.    *)
(* A dump that cannot open the file leaves a begun message in it.          *)
InOrderOnce == ~stale => \A i, j \in DOMAIN begun : i < j => begun[i] < begun[j]

(* With DelayTime no message is processed early, though the message the    *)
(* snippet maker looked at may be pushed out by the stacker before the     *)
(* maker looks again.                                                      *)
NoneTooYoung == DelayTime => \A i \in DOMAIN begun : begun[i] <= ripe

(* What dumpqueue says: a dump that fails leaves no file ("-1 on errors    *)
(* opening or writing file; file is deleted").  Not kept: fclose may fail. *)
WholeOrDeleted ==
  [][\A t \in Threads :
       thr[t].pc = "write" /\ thr'[t].pc = "unlock" => file'.whole \/ ~file'.exists]_vars

InQueue(m) == \E i \in DOMAIN Contents(q) : Contents(q)[i] = m
Begun(m)   == \E i \in DOMAIN begun : begun[i] = m
InHand(m)  == thr["snipper"].msg = m /\ thr["snipper"].pc \in {"open", "write", "unlock"}
PushedOut(m) == ~InQueue(m) /\ ~InHand(m) /\ ~Begun(m)

(* A queued message is begun or pushed out by newer ones, unless the       *)
(* process ends or the snippet maker has died: no dump, delay or wait for  *)
(* the mutex stalls the queue.  That something is begun at all is not      *)
(* promised: with DelayTime and triggers enough each is pushed out before  *)
(* it is old enough ("we'll never have to do any work!").                  *)
BegunOrPushedOut ==
  \A m \in Messages :
    InQueue(m) ~> Begun(m) \/ PushedOut(m) \/ main = "down" \/ thr["snipper"].pc = "dead"

=============================================================================
