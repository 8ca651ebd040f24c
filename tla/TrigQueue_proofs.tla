-------------------------- MODULE TrigQueue_proofs --------------------------
(***************************************************************************)
(* What trig2disk's queue and its file promise, for any number of entries, *)
(* messages, stops and starts, whether or not the dumps fail: messages are *)
(* begun in order and once, none too young, and between calls the file     *)
(* holds the queue.                                                        *)
(***************************************************************************)
EXTENDS TrigQueue, MemCircQueue_proofs

(***************************************************************************)
(* The sequences of messages the proofs are about: the queue, the file and *)
(* the messages begun are all in the order of reading.                     *)
(***************************************************************************)
Rising(s) == \A i, j \in DOMAIN s : i < j => s[i] < s[j]

AtMost(s, n) == \A i \in DOMAIN s : s[i] <= n

(* Every message of s was read before every message of r.                  *)
Before(s, r) == \A i \in DOMAIN s, j \in DOMAIN r : s[i] < r[j]

-----------------------------------------------------------------------------
(* The parts of the inductive invariant.                                   *)

Queued == Contents(q)

Data ==
  /\ q \in Queue /\ WellFormed(q)
  /\ FileOK(file)
  /\ Fits(Queued)
  /\ begun \in Seq(Messages)
  /\ read \in 0 .. MaxRead /\ ripe \in 0 .. read

(* The mutex is held exactly between a lock and the unlock that follows,   *)
(* and the threads run only while main does.                               *)
InCall == {"peek", "call", "open", "write", "unlock"}

Control ==
  /\ mutex \in Threads \cup {"free"}
  /\ main \in {"down", "start1", "ok1", "start2", "ok2", "watch", "stop"}
  /\ status \in [Threads -> {-1, 0, 1}]
  /\ thr \in [Threads -> Thread]
  /\ dumpFailed \in BOOLEAN /\ stale \in BOOLEAN
  /\ boots \in 0 .. MaxBoots
  /\ \A t \in Threads : mutex = t <=> thr[t].pc \in InCall
  /\ main \in {"down", "start1"} => thr["stacker"] = Off
  /\ main \in {"down", "start1", "ok1", "start2"} => thr["snipper"] = Off

(* The message the snippet maker has taken out and not begun.              *)
Taken ==
  IF thr["snipper"].pc \in {"open", "write", "unlock"} /\ thr["snipper"].msg # NULL
  THEN <<thr["snipper"].msg>> ELSE <<>>

(* No message is numbered higher than n.                                   *)
UpTo(n) == AtMost(Queued, n) /\ AtMost(file.body, n) /\ AtMost(begun, n) /\ AtMost(Taken, n)

(* The message the stacker has read is newer than all that are anywhere.   *)
Newest ==
  /\ UpTo(read)
  /\ thr["stacker"].pc \in {"lock", "call"} =>
       thr["stacker"].msg = read /\ read \in Messages /\ UpTo(read - 1)

(* A dump under way has written a part of the queue as it is.              *)
Dumping == \A t \in Threads : thr[t].pc = "write" => PartOf(file, q)

(* Outside of a dump the file holds what the queue holds.                  *)
Saved ==
  main # "down" /\ ~Full(q) /\ ~dumpFailed /\ (\A t \in Threads : thr[t].pc \notin {"open", "write"})
    => file.body = Queued

(* With a delay the message at the head, once looked at, is old enough.    *)
Aged ==
  DelayTime =>
    /\ AtMost(begun, ripe) /\ AtMost(Taken, ripe)
    /\ thr["snipper"].pc = "call" =>
         q.NumOfElements > 0 /\ peekNextElement(q) <= ripe

(* What was begun, what is being begun, and what waits, in this order.     *)
Ordered ==
  /\ Rising(Queued) /\ Rising(file.body)
  /\ Before(Taken, Queued)
  /\ ~stale =>
       /\ Rising(begun)
       /\ Before(begun, Taken) /\ Before(begun, Queued) /\ Before(begun, file.body)
       /\ thr["snipper"].pc = "unlock" => Before(Taken, file.body)

IInv == Data /\ Control /\ Newest /\ Dumping /\ Saved /\ Aged /\ Ordered

-----------------------------------------------------------------------------
(* Sequences of messages.                                                  *)

LEMMA MessagesInt == Messages \subseteq Int /\ Messages = 1 .. MaxRead /\ MaxRead \in Nat
BY TrigAssumption

LEMMA AppendOrder ==
  ASSUME NEW s \in Seq(Messages), NEW x \in Messages
  PROVE  /\ Append(s, x) \in Seq(Messages)
         /\ Rising(s) /\ Before(s, <<x>>) => Rising(Append(s, x))
         /\ \A n \in Int : AtMost(s, n) /\ x <= n => AtMost(Append(s, x), n)
         /\ \A r \in Seq(Messages) :
              /\ Before(r, s) /\ Before(r, <<x>>) => Before(r, Append(s, x))
              /\ Before(s, r) /\ Before(<<x>>, r) => Before(Append(s, x), r)
         /\ Fits(s) /\ x \notin Oversize => Fits(Append(s, x))
<1>1. /\ Append(s, x) \in Seq(Messages) /\ Len(Append(s, x)) = Len(s) + 1
      /\ \A i \in 1 .. Len(s) : Append(s, x)[i] = s[i]
      /\ Append(s, x)[Len(s) + 1] = x
      /\ Len(s) \in Nat
  OBVIOUS
<1>2. DOMAIN <<x>> = {1} /\ <<x>>[1] = x
  OBVIOUS
<1>3. \A i \in DOMAIN s : s[i] \in Int
  BY MessagesInt
<1>. QED
  BY <1>1, <1>2, <1>3, MessagesInt DEF Rising, AtMost, Before, Fits

LEMMA TailOrder ==
  ASSUME NEW s \in Seq(Messages), s # <<>>
  PROVE  /\ Tail(s) \in Seq(Messages) /\ Head(s) \in Messages
         /\ Rising(s) => Rising(Tail(s)) /\ Before(<<Head(s)>>, Tail(s))
         /\ \A n \in Int : AtMost(s, n) => AtMost(Tail(s), n) /\ Head(s) <= n
         /\ \A r \in Seq(Messages) :
              Before(r, s) => Before(r, Tail(s)) /\ Before(r, <<Head(s)>>)
         /\ \A r \in Seq(Messages) : Before(s, r) => Before(Tail(s), r)
         /\ Fits(s) => Fits(Tail(s))
<1>1. /\ Tail(s) \in Seq(Messages) /\ Len(Tail(s)) = Len(s) - 1
      /\ \A i \in 1 .. Len(s) - 1 : Tail(s)[i] = s[i + 1]
      /\ Head(s) = s[1] /\ Len(s) \in Nat /\ Len(s) > 0
      /\ Head(s) \in Messages
  BY HeadTailProperties, EmptySeq
<1>2. DOMAIN <<Head(s)>> = {1} /\ <<Head(s)>>[1] = Head(s)
  OBVIOUS
<1>3. DOMAIN s = 1 .. Len(s) /\ DOMAIN Tail(s) = 1 .. Len(s) - 1
  BY <1>1
<1>4. /\ 1 \in DOMAIN s
      /\ \A i \in DOMAIN Tail(s) : i \in Int /\ i + 1 \in DOMAIN s /\ Tail(s)[i] = s[i + 1]
  BY <1>1, <1>3
<1>5. Rising(s) => Rising(Tail(s)) /\ Before(<<Head(s)>>, Tail(s))
  <2>1. \A i \in DOMAIN Tail(s) : 1 < i + 1
    BY <1>1, <1>3
  <2>. QED
    BY <1>1, <1>2, <1>4, <2>1 DEF Rising, Before
<1>6. \A n \in Int : AtMost(s, n) => AtMost(Tail(s), n) /\ Head(s) <= n
  BY <1>1, <1>4 DEF AtMost
<1>7. \A r \in Seq(Messages) :
        /\ Before(r, s) => Before(r, Tail(s)) /\ Before(r, <<Head(s)>>)
        /\ Before(s, r) => Before(Tail(s), r)
  BY <1>1, <1>2, <1>4 DEF Before
<1>8. Fits(s) => Fits(Tail(s))
  BY <1>4 DEF Fits
<1>. QED
  BY <1>1, <1>5, <1>6, <1>7, <1>8

(* A sequence that another one begins with.                                *)
LEMMA PartOrder ==
  ASSUME NEW s \in Seq(Messages), NEW b \in Seq(Messages), Len(b) <= Len(s),
         \A i \in 1 .. Len(b) : b[i] = s[i]
  PROVE  /\ Rising(s) => Rising(b)
         /\ \A n \in Int : AtMost(s, n) => AtMost(b, n)
         /\ \A r \in Seq(Messages) : Before(r, s) => Before(r, b)
<1>1. DOMAIN s = 1 .. Len(s) /\ DOMAIN b = 1 .. Len(b) /\ Len(b) \in Nat /\ Len(s) \in Nat
  OBVIOUS
<1>2. \A i \in DOMAIN b : i \in DOMAIN s /\ b[i] = s[i]
  BY <1>1
<1>. QED
  BY <1>1, <1>2 DEF Rising, AtMost, Before

(* What is bounded by n comes before a message above n.                    *)
LEMMA AboveAll ==
  ASSUME NEW s \in Seq(Messages), NEW n \in Int, AtMost(s, n), NEW x \in Messages, n < x
  PROVE  Before(s, <<x>>)
<1>1. \A i \in DOMAIN s : s[i] \in Int
  BY MessagesInt
<1>. QED
  BY <1>1, MessagesInt DEF AtMost, Before

LEMMA AtMostMore ==
  ASSUME NEW s \in Seq(Messages), NEW m \in Int, NEW n \in Int, m <= n, AtMost(s, m)
  PROVE  AtMost(s, n)
<1>1. \A i \in DOMAIN s : s[i] \in Int
  BY MessagesInt
<1>. QED
  BY <1>1 DEF AtMost

LEMMA NoneIn ==
  /\ <<>> \in Seq(Messages) /\ Rising(<<>>) /\ Fits(<<>>)
  /\ \A n : AtMost(<<>>, n)
  /\ \A r : Before(<<>>, r) /\ Before(r, <<>>)
<1>1. DOMAIN <<>> = {}
  OBVIOUS
<1>. QED
  BY <1>1 DEF Rising, Fits, AtMost, Before

-----------------------------------------------------------------------------
(* The types that follow from the invariant.                               *)

LEMMA Types ==
  ASSUME IInv
  PROVE  /\ Queued \in Seq(Messages) /\ Len(Queued) = q.NumOfElements
         /\ q.NumOfElements \in 0 .. MyMaxElements
         /\ file.body \in Seq(Messages) /\ begun \in Seq(Messages)
         /\ Taken \in Seq(Messages)
         /\ read \in Nat /\ ripe \in Nat /\ ripe <= read /\ read <= MaxRead
         /\ \A t \in Threads : thr[t] \in Thread
<1>1. /\ Queued \in Seq(Messages) /\ Len(Queued) = q.NumOfElements
      /\ q.NumOfElements \in 0 .. MyMaxElements
  BY ContentsMessages DEF IInv, Data, Queued
<1>2. \A t \in Threads : thr[t] \in Thread
  BY DEF IInv, Control
<1>3. Taken \in Seq(Messages)
  <2>1. thr["snipper"].msg \in Messages \cup {NULL}
    BY <1>2 DEF Thread, Threads
  <2>. QED
    BY <2>1, NoneIn DEF Taken
<1>. QED
  BY <1>1, <1>2, <1>3, MessagesInt DEF IInv, Data, FileOK, Files

LEMMA TypeOKFollows == IInv => TypeOK
<1> SUFFICES ASSUME IInv PROVE TypeOK
  OBVIOUS
<1>1. file.count \in -1 .. MyMaxElements /\ Len(file.body) <= MyMaxElements
  <2>1. file.body = <<>> => Len(file.body) = 0
    OBVIOUS
  <2>2. file.body \in Seq(Messages) /\ file.count \in -1 .. MyMaxElements
    BY DEF IInv, Data, FileOK, Files
  <2>. QED
    BY <2>1, <2>2, QueueAssumption DEF IInv, Data, FileOK
<1>. QED
  BY <1>1 DEF IInv, Data, Control, TypeOK

LEMMA InitIInv == Init => IInv
<1> SUFFICES ASSUME Init PROVE IInv
  OBVIOUS
<1>1. q = initqueue /\ Queued = <<>> /\ file.body = <<>> /\ begun = <<>> /\ Taken = <<>>
  BY InitQueue DEF Init, Queued, NoFile, Taken, Off, Threads
<1>2. FileOK(file)
  BY EmptyFiles DEF Init
<1>3. Data
  BY <1>1, <1>2, InitQueue, NoneIn, MessagesInt DEF Init, Data
<1>4. Off \in Thread
  BY DEF Off, Thread
<1>5. Control
  <2>1. \A t \in Threads : thr[t] = Off /\ thr[t].pc = "off" /\ mutex # t
    BY DEF Init, Threads, Off
  <2>2. \A t \in Threads : mutex = t <=> thr[t].pc \in InCall
    BY <2>1 DEF InCall
  <2>3. thr \in [Threads -> Thread] /\ status \in [Threads -> {-1, 0, 1}]
    BY <1>4 DEF Init
  <2>4. boots \in 0 .. MaxBoots
    BY TrigAssumption DEF Init
  <2>5. main = "down" /\ mutex = "free" /\ dumpFailed = FALSE /\ stale = FALSE
    BY DEF Init
  <2>6. thr["stacker"] = Off /\ thr["snipper"] = Off
    BY <2>1 DEF Threads
  <2>. QED
    BY <2>2, <2>3, <2>4, <2>5, <2>6 DEF Control
<1>6. Newest
  BY <1>1, NoneIn DEF Init, Newest, UpTo, Off, Threads
<1>7. Dumping /\ Saved /\ Aged /\ Ordered
  BY <1>1, NoneIn DEF Init, Dumping, Saved, Aged, Ordered, Off, Threads
<1>. QED
  BY <1>3, <1>5, <1>6, <1>7 DEF IInv

-----------------------------------------------------------------------------
(* Moves of the program counters.                                          *)

PcValues == {"off", "begin", "loop", "lock", "peek", "call", "open", "write", "unlock",
             "work", "dead"}

LEMMA GotoMoves ==
  ASSUME thr \in [Threads -> Thread], NEW t \in Threads, NEW pc \in PcValues, Goto(t, pc)
  PROVE  /\ thr' \in [Threads -> Thread]
         /\ thr'[t].pc = pc /\ thr'[t].msg = thr[t].msg
         /\ \A u \in Threads : u # t => thr'[u] = thr[u]
BY DEF Goto, Thread, PcValues

(* The thread that holds the mutex is the only one inside a call.          *)
LEMMA OneInCall ==
  ASSUME Control, NEW t \in Threads, NEW u \in Threads,
         thr[t].pc \in InCall, thr[u].pc \in InCall
  PROVE  t = u
BY DEF Control

(* A step that touches neither the queue nor the file, and takes no        *)
(* message out or forgets the one it took.                                 *)
LEMMA QuietStep ==
  ASSUME IInv, Control', UNCHANGED <<q, file, read, ripe, begun, dumpFailed, stale>>,
         main' # "down" => main # "down",
         Taken' = Taken \/ Taken' = <<>>,
         thr'["snipper"].pc = "unlock" => thr["snipper"].pc = "unlock" \/ Taken' = <<>>,
         DelayTime /\ thr'["snipper"].pc = "call" =>
           q.NumOfElements > 0 /\ peekNextElement(q) <= ripe,
         thr'["stacker"].pc \in {"lock", "call"} =>
           thr["stacker"].pc \in {"lock", "call"} /\ thr'["stacker"].msg = thr["stacker"].msg,
         \A t \in Threads : /\ thr'[t].pc = "write" => thr[t].pc = "write"
                            /\ thr[t].pc \in {"open", "write"} =>
                                 main' = "down" \/ thr'[t].pc \in {"open", "write"}
  PROVE  IInv'
<1>1. Queued' = Queued /\ file' = file /\ begun' = begun /\ q' = q /\ read' = read
  BY DEF Queued
<1>2. Data'
  BY <1>1 DEF IInv, Data
<1>3. \A n : UpTo(n) => UpTo(n)'
  BY <1>1, NoneIn DEF UpTo
<1>4. Newest'
  BY <1>1, <1>3 DEF IInv, Newest
<1>5. Dumping'
  BY <1>1 DEF IInv, Dumping
<1>6. Saved'
  BY <1>1 DEF IInv, Saved
<1>7. Aged'
  BY <1>1, NoneIn DEF IInv, Aged
<1>8. Ordered'
  BY <1>1, NoneIn DEF IInv, Ordered
<1>. QED
  BY <1>2, <1>4, <1>5, <1>6, <1>7, <1>8 DEF IInv

-----------------------------------------------------------------------------
(* The main thread.                                                        *)

LEMMA BootStep ==
  ASSUME IInv, Boot
  PROVE  IInv'
<1>1. /\ main = "down" /\ main' = "start1" /\ dumpFailed' = FALSE
      /\ boots < MaxBoots /\ boots' = boots + 1
      /\ q' = undumpqueue(file)
      /\ UNCHANGED <<file, mutex, status, thr, read, ripe, begun, stale>>
  BY DEF Boot
<1>2. thr["stacker"] = Off /\ thr["snipper"] = Off
  BY <1>1 DEF IInv, Control
<1>3. q' \in Queue /\ WellFormed(q') /\ Queued' = file.body
  BY <1>1, UndumpContents DEF IInv, Data, Queued
<1>4. Taken = <<>> /\ Taken' = <<>>
  BY <1>1 DEF Taken, IInv, Control, Off
<1>5. Data'
  BY <1>1, <1>3 DEF IInv, Data, FileOK
<1>6. Control'
  <2>1. boots' \in 0 .. MaxBoots
    BY <1>1, TrigAssumption DEF IInv, Control
  <2>. QED
    BY <1>1, <1>2, <2>1 DEF IInv, Control
<1>7. \A t \in Threads : thr[t].pc = "off"
  BY <1>1 DEF IInv, Control, Off, Threads
<1>8. Newest' /\ Dumping' /\ Saved'
  BY <1>1, <1>3, <1>4, <1>7, NoneIn DEF IInv, Newest, UpTo, Dumping, Saved, Threads
<1>9. Aged' /\ Ordered'
  BY <1>1, <1>3, <1>4, <1>7, NoneIn DEF IInv, Aged, Ordered, Threads
<1>. QED
  BY <1>5, <1>6, <1>8, <1>9 DEF IInv

(* However the process ends, the file and what was begun are what is left. *)
LEMMA DownStep ==
  ASSUME IInv, Down
  PROVE  IInv'
<1>1. /\ main' = "down" /\ q' = initqueue /\ mutex' = "free"
      /\ status' = [t \in Threads |-> 0] /\ thr' = [t \in Threads |-> Off]
      /\ UNCHANGED <<file, read, ripe, begun, dumpFailed, stale, boots>>
  BY DEF Down
<1>2. q' \in Queue /\ WellFormed(q') /\ Queued' = <<>>
  BY <1>1, InitQueue DEF Queued
<1>3. \A t \in Threads : thr'[t] = Off /\ thr'[t].pc = "off" /\ thr'[t].msg = NULL
  BY <1>1 DEF Off
<1>4. Taken' = <<>>
  BY <1>3 DEF Taken, Threads
<1>5. Data'
  BY <1>1, <1>2, NoneIn DEF IInv, Data
<1>6. Control'
  <2>1. Off \in Thread
    BY DEF Off, Thread
  <2>2. thr' \in [Threads -> Thread] /\ status' \in [Threads -> {-1, 0, 1}]
    BY <1>1, <2>1
  <2>3. \A t \in Threads : mutex' = t <=> thr'[t].pc \in InCall
    BY <1>1, <1>3 DEF InCall, Threads
  <2>4. thr'["stacker"] = Off /\ thr'["snipper"] = Off
    BY <1>3 DEF Threads
  <2>5. dumpFailed' \in BOOLEAN /\ stale' \in BOOLEAN /\ boots' \in 0 .. MaxBoots
    BY <1>1 DEF IInv, Control
  <2>. QED
    BY <1>1, <2>2, <2>3, <2>4, <2>5 DEF Control
<1>7. Newest' /\ Dumping' /\ Saved'
  BY <1>1, <1>2, <1>3, <1>4, NoneIn DEF IInv, Newest, UpTo, Dumping, Saved, Threads
<1>8. Aged' /\ Ordered'
  BY <1>1, <1>2, <1>3, <1>4, NoneIn DEF IInv, Aged, Ordered, Threads
<1>. QED
  BY <1>5, <1>6, <1>7, <1>8 DEF IInv

LEMMA MainStep ==
  ASSUME IInv, Main \/ Terminate \/ Crash
  PROVE  IInv'
<1>1. CASE ThreadDied \/ Return \/ Crash
  BY <1>1, DownStep DEF ThreadDied, Return, Crash
<1>2. CASE \/ AssumeBest("stacker", "ok1", "start2") \/ AssumeBest("snipper", "ok2", "watch")
           \/ Terminate
  <2>1. /\ main # "down" /\ main' # "down"
        /\ UNCHANGED <<q, file, mutex, thr, read, ripe, begun, dumpFailed, stale, boots>>
    BY <1>2 DEF AssumeBest, Terminate
  <2>2. Control'
    BY <1>2 DEF IInv, Control, AssumeBest, Terminate, Threads
  <2>3. Taken' = Taken
    BY <2>1 DEF Taken
  <2>4. DelayTime /\ thr'["snipper"].pc = "call" =>
          q.NumOfElements > 0 /\ peekNextElement(q) <= ripe
    BY <2>1 DEF IInv, Aged
  <2>. QED
    BY <2>1, <2>2, <2>3, <2>4, QuietStep
<1>3. ASSUME NEW t \in Threads, NEW from, NEW to, Start(t, from, to),
             \/ t = "stacker" /\ from = "start1" /\ to = "ok1"
             \/ t = "snipper" /\ from = "start2" /\ to = "ok2"
      PROVE  IInv'
  <2>1. /\ main = from /\ main' = to /\ Goto(t, "begin")
        /\ UNCHANGED <<q, file, mutex, status, read, ripe, begun, dumpFailed, stale, boots>>
    BY <1>3 DEF Start, Goto
  <2>2. thr[t] = Off /\ thr[t].pc = "off" /\ thr[t].msg = NULL
    BY <1>3, <2>1 DEF IInv, Control, Off
  <2>3. /\ thr' \in [Threads -> Thread]
        /\ thr'[t].pc = "begin" /\ thr'[t].msg = NULL
        /\ \A u \in Threads : u # t => thr'[u] = thr[u]
    BY <2>1, <2>2, GotoMoves DEF IInv, Control, PcValues
  <2>4. Control'
    BY <1>3, <2>1, <2>2, <2>3 DEF IInv, Control, InCall, Threads
  <2>5. Taken' = Taken
    BY <2>2, <2>3 DEF Taken, Threads
  <2>6. DelayTime /\ thr'["snipper"].pc = "call" =>
          q.NumOfElements > 0 /\ peekNextElement(q) <= ripe
    BY <2>3 DEF IInv, Aged, Threads
  <2>. QED
    BY <1>3, <2>1, <2>2, <2>3, <2>4, <2>5, <2>6, QuietStep DEF Threads
<1>. QED
  BY <1>1, <1>2, <1>3 DEF Main, Threads

-----------------------------------------------------------------------------
(* The threads.                                                            *)

(* A thread that lives moves on, and keeps to the mutex.                   *)
LEMMA ThreadControl ==
  ASSUME Control, NEW t \in Threads, thr[t].pc # "off",
         thr' \in [Threads -> Thread],
         \A u \in Threads : u # t => thr'[u] = thr[u],
         status' \in [Threads -> {-1, 0, 1}],
         dumpFailed' \in BOOLEAN, stale' \in BOOLEAN,
         UNCHANGED <<main, boots>>,
         thr'[t].pc \in InCall =>
           mutex' = t /\ (thr[t].pc \in InCall \/ mutex = "free"),
         thr'[t].pc \notin InCall =>
           mutex' = IF thr[t].pc \in InCall THEN "free" ELSE mutex
  PROVE  Control'
<1>1. thr[t] # Off
  BY DEF Off
<1>2. /\ main' \in {"down", "start1"} => thr'["stacker"] = Off
      /\ main' \in {"down", "start1", "ok1", "start2"} => thr'["snipper"] = Off
  BY <1>1 DEF Control, Threads
<1>3. mutex \in Threads \cup {"free"} /\ mutex' \in Threads \cup {"free"} /\ "free" \notin Threads
  BY DEF Control, Threads
<1>4. \A u \in Threads : mutex' = u <=> thr'[u].pc \in InCall
  BY <1>3 DEF Control
<1>. QED
  BY <1>2, <1>3, <1>4 DEF Control

LEMMA GotoQuiet ==
  ASSUME IInv, NEW t \in Threads, NEW pc \in {"begin", "loop", "lock", "work", "dead", "unlock"},
         Goto(t, pc), thr[t].pc \notin {"off", "open", "write"}, Control',
         UNCHANGED <<q, file, main, read, ripe, begun, dumpFailed, stale>>,
         pc = "lock" => t = "snipper",
         pc = "unlock" => Taken' = <<>> \/ t = "stacker"
  PROVE  IInv'
<1>1. /\ thr'[t].pc = pc /\ thr'[t].msg = thr[t].msg
      /\ \A u \in Threads : u # t => thr'[u] = thr[u]
  BY GotoMoves DEF IInv, Control, PcValues
<1>2. Taken' = Taken \/ Taken' = <<>>
  BY <1>1 DEF Taken, Threads
<1>3. DelayTime /\ thr'["snipper"].pc = "call" =>
        q.NumOfElements > 0 /\ peekNextElement(q) <= ripe
  BY <1>1 DEF IInv, Aged, Threads
<1>4. thr'["stacker"].pc \in {"lock", "call"} =>
        thr["stacker"].pc \in {"lock", "call"} /\ thr'["stacker"].msg = thr["stacker"].msg
  BY <1>1 DEF Threads
<1>5. thr'["snipper"].pc = "unlock" => thr["snipper"].pc = "unlock" \/ Taken' = <<>>
  BY <1>1 DEF Threads
<1>6. \A u \in Threads : /\ thr'[u].pc = "write" => thr[u].pc = "write"
                         /\ thr[u].pc \in {"open", "write"} => thr'[u].pc \in {"open", "write"}
  BY <1>1
<1>. QED
  BY <1>2, <1>3, <1>4, <1>5, <1>6, QuietStep

LEMMA LockStep ==
  ASSUME IInv, NEW t \in Threads, Lock(t)
  PROVE  IInv'
<1> DEFINE pc == IF t = "snipper" /\ DelayTime THEN "peek" ELSE "call"
<1>1. /\ thr[t].pc = "lock" /\ mutex = "free" /\ mutex' = t /\ Goto(t, pc)
      /\ UNCHANGED <<q, file, main, status, read, ripe, begun, dumpFailed, stale, boots>>
  BY DEF Lock
<1>2. pc \in {"peek", "call"} /\ pc \in PcValues
  BY DEF PcValues
<1>3. /\ thr' \in [Threads -> Thread]
      /\ thr'[t].pc = pc /\ thr'[t].msg = thr[t].msg
      /\ \A u \in Threads : u # t => thr'[u] = thr[u]
  BY <1>1, <1>2, GotoMoves DEF IInv, Control
<1>4. Control'
  <2>1. status' \in [Threads -> {-1, 0, 1}] /\ dumpFailed' \in BOOLEAN /\ stale' \in BOOLEAN
    BY <1>1 DEF IInv, Control
  <2>. QED
    BY <1>1, <1>2, <1>3, <2>1, ThreadControl DEF IInv, InCall
<1>5. Taken' = Taken
  BY <1>1, <1>2, <1>3 DEF Taken, Threads
<1>6. DelayTime /\ thr'["snipper"].pc = "call" =>
        q.NumOfElements > 0 /\ peekNextElement(q) <= ripe
  <2>1. CASE t = "snipper"
    BY <1>3, <2>1
  <2>2. CASE t # "snipper"
    BY <1>3, <2>2 DEF IInv, Aged, Threads
  <2>. QED
    BY <2>1, <2>2
<1>7. thr'["stacker"].pc \in {"lock", "call"} =>
        thr["stacker"].pc \in {"lock", "call"} /\ thr'["stacker"].msg = thr["stacker"].msg
  BY <1>1, <1>3 DEF Threads
<1>8. thr'["snipper"].pc = "unlock" => thr["snipper"].pc = "unlock" \/ Taken' = <<>>
  BY <1>2, <1>3 DEF Threads
<1>9. \A u \in Threads : /\ thr'[u].pc = "write" => thr[u].pc = "write"
                         /\ thr[u].pc \in {"open", "write"} => thr'[u].pc \in {"open", "write"}
  BY <1>1, <1>2, <1>3
<1>. QED
  BY <1>1, <1>4, <1>5, <1>6, <1>7, <1>8, <1>9, QuietStep

(* What a step may do to the file while a thread dumps.                    *)
LEMMA DumpOpenStep ==
  ASSUME IInv, NEW t \in Threads, DumpOpen(t)
  PROVE  IInv'
<1>1. /\ thr[t].pc = "open"
      /\ UNCHANGED <<q, mutex, main, status, read, ripe, begun, boots>>
      /\ Queued' = Queued
  BY DEF DumpOpen, Queued
<1>2. PICK pc \in {"write", "unlock"} :
        /\ Goto(t, pc)
        /\ \/ pc = "write" /\ file' = Truncated /\ UNCHANGED <<dumpFailed, stale>>
           \/ pc = "unlock" /\ file' = file /\ dumpFailed' = TRUE /\ stale' = TRUE
  BY DEF DumpOpen
<1>3. /\ thr' \in [Threads -> Thread]
      /\ thr'[t].pc = pc /\ thr'[t].msg = thr[t].msg
      /\ \A u \in Threads : u # t => thr'[u] = thr[u]
  BY <1>2, GotoMoves DEF IInv, Control, PcValues
<1>4. \A u \in Threads : u # t => thr[u].pc \notin InCall
  BY <1>1, OneInCall DEF IInv, InCall
<1>5. Control'
  <2>1. status' \in [Threads -> {-1, 0, 1}] /\ dumpFailed' \in BOOLEAN /\ stale' \in BOOLEAN
    BY <1>1, <1>2 DEF IInv, Control
  <2>2. mutex = t /\ thr[t].pc \in InCall
    BY <1>1 DEF IInv, Control, InCall
  <2>. QED
    BY <1>1, <1>2, <1>3, <2>1, <2>2, ThreadControl DEF IInv, InCall
<1>6. Taken' = Taken
  BY <1>1, <1>2, <1>3 DEF Taken, Threads
<1>7. pc = "write" => /\ FileOK(file') /\ PartOf(file', q) /\ file'.body = <<>>
  BY <1>2, EmptyFiles DEF IInv, Data
<1>8. FileOK(file') /\ (file'.body = file.body \/ file'.body = <<>>)
  BY <1>2, <1>7 DEF IInv, Data
<1>9. Data'
  BY <1>1, <1>8 DEF IInv, Data
<1>10. Newest'
  <2>1. \A n : UpTo(n) => UpTo(n)'
    BY <1>1, <1>6, <1>8, NoneIn DEF UpTo
  <2>2. thr'["stacker"].pc \in {"lock", "call"} =>
          thr["stacker"].pc \in {"lock", "call"} /\ thr'["stacker"].msg = thr["stacker"].msg
    BY <1>2, <1>3 DEF Threads
  <2>. QED
    BY <1>1, <2>1, <2>2 DEF IInv, Newest
<1>11. Dumping'
  BY <1>1, <1>2, <1>3, <1>4, <1>7 DEF IInv, Dumping, InCall
<1>12. Saved'
  BY <1>1, <1>2, <1>3 DEF Saved
<1>13. Aged'
  BY <1>1, <1>2, <1>3, <1>6 DEF IInv, Aged, Threads
<1>14. Ordered'
  <2>1. Rising(file.body)'
    BY <1>8, NoneIn DEF IInv, Ordered
  <2>2. ~stale' => ~stale /\ pc = "write"
    BY <1>2
  <2>3. thr'["snipper"].pc = "unlock" =>
          (t = "snipper" /\ pc = "unlock") \/ thr["snipper"].pc = "unlock"
    BY <1>3 DEF Threads
  <2>4. thr["snipper"].pc # "unlock"
    BY <1>1, <1>4 DEF InCall, Threads
  <2>. QED
    BY <1>1, <1>6, <1>7, <2>1, <2>2, <2>3, <2>4, NoneIn DEF IInv, Ordered
<1>. QED
  BY <1>5, <1>9, <1>10, <1>11, <1>12, <1>13, <1>14 DEF IInv

(* What a dump leaves when its last buffers are lost begins as the queue.  *)
LEMMA CutShortPart ==
  ASSUME q \in Queue, WellFormed(q), FileOK(file), PartOf(file, q), NEW f \in CutShort(file)
  PROVE  /\ FileOK(f) /\ Len(f.body) <= q.NumOfElements
         /\ \A i \in 1 .. Len(f.body) : f.body[i] = Contents(q)[i]
<1>1. q.NumOfElements \in Nat
  BY DEF Queue
<1>2. CASE f = Truncated
  <2>1. FileOK(f) /\ f.body = <<>>
    BY <1>2, EmptyFiles
  <2>2. Len(f.body) = 0
    BY <2>1
  <2>. QED
    BY <1>1, <2>1, <2>2
<1>3. ASSUME NEW n \in 0 .. Len(file.body), f = [file EXCEPT !.body = SubSeq(@, 1, n)]
      PROVE  /\ FileOK(f) /\ Len(f.body) <= q.NumOfElements
             /\ \A i \in 1 .. Len(f.body) : f.body[i] = Contents(q)[i]
  <2>1. /\ file \in Files /\ Len(file.body) \in Nat /\ file.exists
        /\ file.body \in Seq(Messages) /\ Fits(file.body)
        /\ Len(file.body) <= file.count \/ file.body = <<>>
    BY DEF FileOK, PartOf, Files
  <2> DEFINE b == SubSeq(file.body, 1, n)
  <2>2. /\ b \in Seq(Messages) /\ Len(b) = n
        /\ \A i \in 1 .. n : b[i] = file.body[i]
    BY <2>1
  <2>3. f \in Files /\ f.body = b /\ f.count = file.count /\ f.exists = file.exists
    BY <1>3, <2>1, <2>2 DEF Files
  <2> HIDE DEF b
  <2>4. Fits(b)
    BY <2>1, <2>2 DEF Fits
  <2>5. n <= file.count \/ b = <<>>
    <3>1. CASE Len(file.body) <= file.count
      BY <2>1, <3>1 DEF Files
    <3>2. CASE file.body = <<>>
      <4>1. Len(b) = 0
        BY <2>2, <3>2
      <4>. QED
        BY <2>2, <4>1
    <3>. QED
      BY <2>1, <3>1, <3>2
  <2>6. FileOK(f)
    BY <2>1, <2>2, <2>3, <2>4, <2>5 DEF FileOK
  <2>7. Len(file.body) <= q.NumOfElements /\ \A i \in 1 .. Len(file.body) : file.body[i] = Contents(q)[i]
    BY DEF PartOf
  <2>. QED
    BY <1>1, <2>1, <2>2, <2>3, <2>6, <2>7
<1>. QED
  BY <1>2, <1>3 DEF CutShort

LEMMA DumpWriteStep ==
  ASSUME IInv, NEW t \in Threads, DumpWrite(t)
  PROVE  IInv'
<1>1. /\ thr[t].pc = "write"
      /\ UNCHANGED <<q, mutex, main, status, read, ripe, begun, stale, boots>>
      /\ Queued' = Queued
  BY DEF DumpWrite, Queued
<1>2. PartOf(file, q) /\ FileOK(file) /\ q \in Queue /\ WellFormed(q) /\ Fits(Queued)
  BY <1>1 DEF IInv, Dumping, Data
<1>3. \A u \in Threads : u # t => thr[u].pc \notin InCall
  BY <1>1, OneInCall DEF IInv, InCall
<1>4. /\ FileOK(file')
      /\ \/ thr' = thr /\ dumpFailed' = dumpFailed /\ PartOf(file', q)
         \/ /\ Goto(t, "unlock") /\ dumpFailed' \in BOOLEAN
            /\ file'.body = Queued \/ dumpFailed' = TRUE
      /\ Len(file'.body) <= q.NumOfElements
      /\ \A i \in 1 .. Len(file'.body) : file'.body[i] = Queued[i]
  <2>1. CASE file' = DumpNext(q, file) /\
             IF file'.whole THEN dumpFailed' = FALSE /\ Goto(t, "unlock")
                            ELSE UNCHANGED <<dumpFailed, thr>>
    BY <1>2, <2>1, DumpNextPart DEF Queued
  <2>2. CASE file' = NoFile /\ dumpFailed' = TRUE /\ Goto(t, "unlock")
    <3>1. FileOK(file') /\ file'.body = <<>> /\ dumpFailed' \in BOOLEAN
      BY <2>2, EmptyFiles
    <3>2. Len(file'.body) = 0 /\ q.NumOfElements \in Nat /\ 0 <= q.NumOfElements
      BY <3>1, Types
    <3>3. \A i \in 1 .. Len(file'.body) : file'.body[i] = Queued[i]
      BY <3>2
    <3>. QED
      BY <2>2, <3>1, <3>2, <3>3
  <2>3. CASE file' \in CutShort(file) /\ dumpFailed' = TRUE /\ Goto(t, "unlock")
    BY <1>2, <2>3, CutShortPart, Types DEF Queued
  <2>. QED
    BY <2>1, <2>2, <2>3 DEF DumpWrite
<1>5. /\ thr' \in [Threads -> Thread] /\ thr'[t].msg = thr[t].msg
      /\ \A u \in Threads : u # t => thr'[u] = thr[u]
      /\ \/ thr'[t].pc = "write" /\ dumpFailed' = dumpFailed /\ PartOf(file', q)
         \/ /\ thr'[t].pc = "unlock" /\ dumpFailed' \in BOOLEAN
            /\ file'.body = Queued \/ dumpFailed' = TRUE
  BY <1>1, <1>4, GotoMoves DEF IInv, Control, PcValues
<1>6. Control'
  <2>1. status' \in [Threads -> {-1, 0, 1}] /\ dumpFailed' \in BOOLEAN /\ stale' \in BOOLEAN
    BY <1>1, <1>5 DEF IInv, Control
  <2>2. mutex = t /\ thr[t].pc \in InCall
    BY <1>1 DEF IInv, Control, InCall
  <2>. QED
    BY <1>1, <1>5, <2>1, <2>2, ThreadControl DEF IInv, InCall
<1>7. Taken' = Taken
  BY <1>1, <1>5 DEF Taken, Threads
<1>8. file'.body \in Seq(Messages)
  BY <1>4 DEF FileOK, Files
<1>9. /\ Rising(Queued) => Rising(file'.body)
      /\ \A n \in Int : AtMost(Queued, n) => AtMost(file'.body, n)
      /\ \A r \in Seq(Messages) : Before(r, Queued) => Before(r, file'.body)
  BY <1>4, <1>8, Types, PartOrder
<1>10. Data'
  BY <1>1, <1>4 DEF IInv, Data
<1>11. Newest'
  <2>1. \A n \in Int : UpTo(n) => UpTo(n)'
    BY <1>1, <1>7, <1>9 DEF UpTo
  <2>2. thr'["stacker"].pc \in {"lock", "call"} =>
          thr["stacker"].pc \in {"lock", "call"} /\ thr'["stacker"].msg = thr["stacker"].msg
    BY <1>5 DEF Threads
  <2>3. read \in Int /\ read - 1 \in Int
    BY Types
  <2>. QED
    BY <1>1, <2>1, <2>2, <2>3 DEF IInv, Newest
<1>12. Dumping'
  BY <1>1, <1>3, <1>5 DEF IInv, Dumping, InCall
<1>13. Saved'
  <2>1. thr'[t].pc = "write" => \E u \in Threads : thr'[u].pc \in {"open", "write"}
    OBVIOUS
  <2>. QED
    BY <1>1, <1>5, <2>1 DEF Saved
<1>14. Aged'
  BY <1>1, <1>5, <1>7 DEF IInv, Aged, Threads
<1>15. Ordered'
  BY <1>1, <1>7, <1>9, Types DEF IInv, Ordered
<1>. QED
  BY <1>6, <1>10, <1>11, <1>12, <1>13, <1>14, <1>15 DEF IInv

(* The stacker reads the next message, which is newer than all.            *)
LEMMA StackerLoopStep ==
  ASSUME IInv, StackerLoop
  PROVE  IInv'
<1>1. /\ thr["stacker"].pc = "loop" /\ "stacker" \in Threads
      /\ UNCHANGED <<q, file, mutex, main, ripe, begun, dumpFailed, stale, boots>>
  BY DEF StackerLoop, Threads
<1>2. CASE Die("stacker") /\ UNCHANGED read
  <2>1. status' \in [Threads -> {-1, 0, 1}] /\ Goto("stacker", "dead")
    BY <1>2 DEF Die, IInv, Control
  <2>2. Control'
    <3>1. /\ thr' \in [Threads -> Thread] /\ thr'["stacker"].pc = "dead"
          /\ \A u \in Threads : u # "stacker" => thr'[u] = thr[u]
      BY <1>1, <2>1, GotoMoves DEF IInv, Control, PcValues
    <3>. QED
      BY <1>1, <2>1, <3>1, ThreadControl DEF IInv, InCall, Control
  <2>. QED
    BY <1>1, <1>2, <2>1, <2>2, GotoQuiet
<1>3. CASE /\ read < MaxRead /\ read' = read + 1
           /\ thr' = [thr EXCEPT !["stacker"].pc = "lock", !["stacker"].msg = read + 1]
           /\ UNCHANGED status
  <2>1. read \in Nat /\ read' \in Messages /\ read' \in 0 .. MaxRead /\ read' - 1 = read
        /\ read <= read' /\ read' \in Int
    BY <1>3, Types, MessagesInt
  <2>2. /\ thr' \in [Threads -> Thread]
        /\ thr'["stacker"].pc = "lock" /\ thr'["stacker"].msg = read'
        /\ \A u \in Threads : u # "stacker" => thr'[u] = thr[u]
    BY <1>1, <1>3, <2>1 DEF IInv, Control, Thread
  <2>3. Control'
    BY <1>1, <1>3, <2>2, ThreadControl DEF IInv, InCall, Control
  <2>4. Queued' = Queued /\ Taken' = Taken /\ thr'["snipper"] = thr["snipper"]
    BY <1>1, <2>2 DEF Queued, Taken, Threads
  <2>5. Data'
    BY <1>1, <2>1, <2>4 DEF IInv, Data
  <2>6. UpTo(read - 1)' /\ UpTo(read)'
    <3>1. UpTo(read)
      BY DEF IInv, Newest
    <3>2. AtMost(Queued, read') /\ AtMost(file.body, read') /\ AtMost(begun, read')
          /\ AtMost(Taken, read')
      BY <2>1, <3>1, Types, AtMostMore DEF UpTo
    <3>. QED
      BY <1>1, <2>1, <2>4, <3>1, <3>2 DEF UpTo
  <2>7. Newest'
    BY <2>1, <2>2, <2>6 DEF Newest
  <2>8. Dumping' /\ Saved'
    BY <1>1, <2>2, <2>4 DEF IInv, Dumping, Saved
  <2>9. Aged' /\ Ordered'
    BY <1>1, <2>4 DEF IInv, Aged, Ordered
  <2>. QED
    BY <2>3, <2>5, <2>7, <2>8, <2>9 DEF IInv
<1>. QED
  BY <1>2, <1>3 DEF StackerLoop

LEMMA StackerEnqueueStep ==
  ASSUME IInv, StackerEnqueue
  PROVE  IInv'
<1> DEFINE m == thr["stacker"].msg
           pc == IF enqueueReturn(q, m) = 0 THEN "open" ELSE "unlock"
<1>1. /\ thr["stacker"].pc = "call" /\ "stacker" \in Threads /\ "snipper" \in Threads
      /\ q' = enqueue(q, m)
      /\ thr' = [thr EXCEPT !["stacker"].ret = enqueueReturn(q, m), !["stacker"].pc = pc]
      /\ UNCHANGED <<file, mutex, main, status, read, ripe, begun, dumpFailed, stale, boots>>
  BY DEF StackerEnqueue, Threads
<1>2. /\ m = read /\ m \in Messages /\ UpTo(read - 1) /\ read - 1 \in Int /\ read \in Int
      /\ read - 1 < m /\ read - 1 <= read
  BY <1>1, Types DEF IInv, Newest
<1>3. /\ q \in Queue /\ WellFormed(q) /\ Fits(Queued) /\ Queued \in Seq(Messages)
      /\ Len(Queued) = q.NumOfElements /\ q.NumOfElements \in 0 .. MyMaxElements
  BY Types DEF IInv, Data
<1>4. /\ m \in Oversize => enqueueReturn(q, m) = -1
      /\ m \notin Oversize /\ Full(q) => enqueueReturn(q, m) = -3
      /\ m \notin Oversize /\ ~Full(q) => enqueueReturn(q, m) = 0
  BY DEF enqueueReturn
<1>5. pc \in {"open", "unlock"} /\ enqueueReturn(q, m) \in {0, -1, -3}
  BY <1>4
<1> HIDE DEF m, pc
<1>6. /\ thr' \in [Threads -> Thread] /\ thr'["stacker"].pc = pc
      /\ \A u \in Threads : u # "stacker" => thr'[u] = thr[u]
  BY <1>1, <1>5 DEF IInv, Control, Thread
<1>7. thr["snipper"].pc \notin InCall /\ thr'["snipper"] = thr["snipper"]
  <2>1. "snipper" # "stacker" /\ thr["stacker"].pc \in InCall
    BY <1>1 DEF InCall
  <2>. QED
    BY <1>1, <1>6, <2>1, OneInCall DEF IInv
<1>8. Control'
  <2>1. mutex = "stacker" /\ thr["stacker"].pc \in InCall
    BY <1>1 DEF IInv, Control, InCall
  <2>2. /\ status' \in [Threads -> {-1, 0, 1}] /\ dumpFailed' \in BOOLEAN /\ stale' \in BOOLEAN
        /\ UNCHANGED <<main, boots, mutex>> /\ thr'["stacker"].pc \in InCall
    BY <1>1, <1>5, <1>6 DEF IInv, Control, InCall
  <2>. QED
    BY <1>1, <1>6, <2>1, <2>2, ThreadControl DEF IInv, InCall
<1>9. Taken = <<>> /\ Taken' = <<>>
  BY <1>7 DEF Taken, InCall
(* The queue after the call: what it was, or with m at its end.            *)
<1>10. /\ q' \in Queue /\ WellFormed(q') /\ Fits(Queued')
       /\ Rising(Queued')
       /\ AtMost(Queued', read)
       /\ ~stale => Before(begun, Queued')
       /\ pc = "unlock" => Full(q') \/ q' = q
  <2>1. CASE m \in Oversize
    <3>1. q' = q /\ Queued' = Queued
      BY <1>1, <2>1 DEF enqueue, Queued
    <3>. QED
      BY <1>3, <3>1 DEF IInv, Ordered, Newest, UpTo
  <2>2. CASE m \notin Oversize
    <3>1. /\ q' = EnqueueLink(EnqueueCopy(q, m))
      BY <1>1, <2>2 DEF enqueue
    <3>2. /\ q' \in Queue /\ WellFormed(q')
          /\ q'.NumOfElements = IF Full(q) THEN q.NumOfElements ELSE q.NumOfElements + 1
          /\ ~Full(q) => Queued' = Append(Queued, m)
          /\ Full(q) => Queued' = Append(Tail(Queued), m)
      BY <1>2, <1>3, <3>1, EnqueueContents DEF Queued
    <3>3. pc = "unlock" => Full(q')
      BY <1>4, <2>2, <3>2 DEF Full, pc
    <3>4. PICK s \in {Queued, Tail(Queued)} :
            /\ s \in Seq(Messages) /\ Queued' = Append(s, m)
            /\ Rising(s) /\ AtMost(s, read - 1) /\ Fits(s)
            /\ ~stale => Before(begun, s)
      <4>1. Rising(Queued) /\ AtMost(Queued, read - 1) /\ (~stale => Before(begun, Queued))
        BY <1>2 DEF IInv, Ordered, UpTo
      <4>2. CASE ~Full(q)
        BY <1>3, <3>2, <4>1, <4>2
      <4>3. CASE Full(q)
        <5>1. Queued # <<>>
          BY <1>3, <4>3, QueueAssumption DEF Full
        <5>2. begun \in Seq(Messages)
          BY Types
        <5>. QED
          BY <1>2, <1>3, <3>2, <4>1, <4>3, <5>1, <5>2, TailOrder
      <4>. QED
        BY <4>2, <4>3
    <3>5. Before(s, <<m>>) /\ AtMost(s, read)
      BY <1>2, <3>4, AboveAll, AtMostMore
    <3>6. Before(begun, <<m>>)
      BY <1>2, Types, AboveAll DEF UpTo
    <3>7. begun \in Seq(Messages) /\ m <= read
      BY <1>2, Types
    <3>. QED
      BY <1>2, <2>2, <3>2, <3>3, <3>4, <3>5, <3>6, <3>7, AppendOrder
  <2>. QED
    BY <2>1, <2>2
<1>11. Data'
  BY <1>1, <1>10 DEF IInv, Data
<1>12. Newest'
  <2>1. UpTo(read)
    BY DEF IInv, Newest
  <2>2. UpTo(read)'
    BY <1>1, <1>9, <1>10, <2>1 DEF UpTo
  <2>. QED
    BY <1>5, <1>6, <2>2 DEF Newest
<1>13. Dumping'
  BY <1>5, <1>6, <1>7 DEF Dumping, InCall, Threads
<1>14. Saved'
  <2>1. CASE pc = "open"
    BY <1>1, <1>6, <2>1 DEF Saved
  <2>2. CASE pc = "unlock"
    <3>1. \A t \in Threads : thr[t].pc \notin {"open", "write"}
      BY <1>1, <1>7 DEF InCall, Threads
    <3>2. Full(q') \/ (q' = q /\ Queued' = Queued)
      BY <1>10, <2>2 DEF Queued
    <3>. QED
      BY <1>1, <3>1, <3>2 DEF IInv, Saved
  <2>. QED
    BY <1>5, <2>1, <2>2
<1>15. Aged'
  BY <1>1, <1>7, <1>9 DEF IInv, Aged, InCall
<1>16. Ordered'
  BY <1>1, <1>7, <1>9, <1>10, NoneIn DEF IInv, Ordered
<1>. QED
  BY <1>8, <1>11, <1>12, <1>13, <1>14, <1>15, <1>16 DEF IInv

LEMMA StackerStep ==
  ASSUME IInv, Stacker
  PROVE  IInv'
<1>0. "stacker" \in Threads
  BY DEF Threads
<1>1. ASSUME NEW pc \in {"loop", "dead"}, Goto("stacker", pc),
             thr["stacker"].pc \in {"begin", "unlock"},
             status' \in [Threads -> {-1, 0, 1}],
             mutex' = IF thr["stacker"].pc = "unlock" THEN "free" ELSE mutex,
             UNCHANGED <<q, file, main, read, ripe, begun, dumpFailed, stale, boots>>
      PROVE  IInv'
  <2>1. /\ thr' \in [Threads -> Thread] /\ thr'["stacker"].pc = pc
        /\ \A u \in Threads : u # "stacker" => thr'[u] = thr[u]
    BY <1>0, <1>1, GotoMoves DEF IInv, Control, PcValues
  <2>2. Control'
    BY <1>0, <1>1, <2>1, ThreadControl DEF IInv, InCall, Control
  <2>. QED
    BY <1>0, <1>1, <2>2, GotoQuiet
<1>2. CASE StackerBegin
  <2>1. PICK pc \in {"loop", "dead"} :
          Goto("stacker", pc) /\ status' \in [Threads -> {-1, 0, 1}]
    BY <1>2 DEF StackerBegin, Die, IInv, Control
  <2>. QED
    BY <1>1, <1>2, <2>1 DEF StackerBegin
<1>3. CASE StackerUnlock
  BY <1>1, <1>3 DEF StackerUnlock, IInv, Control
<1>. QED
  BY <1>0, <1>2, <1>3, StackerLoopStep, StackerEnqueueStep, LockStep, DumpOpenStep, DumpWriteStep
     DEF Stacker

(* The snippet maker looks at the oldest message.                          *)
LEMMA SnipperPeekStep ==
  ASSUME IInv, SnipperPeek
  PROVE  IInv'
<1> DEFINE m == peekNextElement(q)
           pc == IF m # NULL /\ m <= ripe THEN "call" ELSE "unlock"
<1>1. /\ thr["snipper"].pc = "peek" /\ "snipper" \in Threads
      /\ thr' = [thr EXCEPT !["snipper"].msg = NULL, !["snipper"].pc = pc]
      /\ UNCHANGED <<q, file, mutex, main, status, read, ripe, begun, dumpFailed, stale, boots>>
  BY DEF SnipperPeek, Threads
<1>2. pc \in {"call", "unlock"}
  OBVIOUS
<1>3. pc = "call" => q.NumOfElements > 0 /\ peekNextElement(q) <= ripe
  BY DEF peekNextElement
<1> HIDE DEF pc
<1>4. /\ thr' \in [Threads -> Thread] /\ thr'["snipper"].pc = pc /\ thr'["snipper"].msg = NULL
      /\ \A u \in Threads : u # "snipper" => thr'[u] = thr[u]
  BY <1>1, <1>2 DEF IInv, Control, Thread
<1>5. Control'
  <2>1. mutex = "snipper" /\ thr["snipper"].pc \in InCall
    BY <1>1 DEF IInv, Control, InCall
  <2>2. /\ status' \in [Threads -> {-1, 0, 1}] /\ dumpFailed' \in BOOLEAN /\ stale' \in BOOLEAN
        /\ thr'["snipper"].pc \in InCall
    BY <1>1, <1>2, <1>4 DEF IInv, Control, InCall
  <2>. QED
    BY <1>1, <1>4, <2>1, <2>2, ThreadControl DEF IInv
<1>6. Taken' = <<>>
  BY <1>4 DEF Taken
<1>7. DelayTime /\ thr'["snipper"].pc = "call" =>
        q.NumOfElements > 0 /\ peekNextElement(q) <= ripe
  BY <1>3, <1>4
<1>8. thr'["stacker"].pc \in {"lock", "call"} =>
        thr["stacker"].pc \in {"lock", "call"} /\ thr'["stacker"].msg = thr["stacker"].msg
  BY <1>4 DEF Threads
<1>9. \A t \in Threads : /\ thr'[t].pc = "write" => thr[t].pc = "write"
                         /\ thr[t].pc \in {"open", "write"} => thr'[t].pc \in {"open", "write"}
  BY <1>1, <1>2, <1>4
<1>. QED
  BY <1>1, <1>5, <1>6, <1>7, <1>8, <1>9, QuietStep

(* It takes the oldest message out.                                        *)
LEMMA SnipperDequeueStep ==
  ASSUME IInv, SnipperDequeue
  PROVE  IInv'
<1> DEFINE m == peekNextElement(q)
           pc == IF m = NULL THEN "unlock" ELSE "open"
<1>1. /\ thr["snipper"].pc = "call" /\ "snipper" \in Threads /\ "stacker" \in Threads
      /\ q' = IF m = NULL THEN q ELSE DequeueLink(q)
      /\ thr' = [thr EXCEPT !["snipper"].msg = m, !["snipper"].pc = pc]
      /\ UNCHANGED <<file, mutex, main, status, read, ripe, begun, dumpFailed, stale, boots>>
  BY DEF SnipperDequeue, Threads
<1>2. /\ q \in Queue /\ WellFormed(q) /\ Fits(Queued) /\ Queued \in Seq(Messages)
      /\ q.NumOfElements \in 0 .. MyMaxElements
      /\ begun \in Seq(Messages)
  BY Types DEF IInv, Data
<1>3. \/ q.NumOfElements = 0 /\ m = NULL
      \/ q.NumOfElements > 0 /\ m \in Messages
  <2>1. CASE q.NumOfElements > 0
    <3>1. peekNextElement(q) \in Messages
      BY <1>2, <2>1, DequeueContents
    <3>. QED
      BY <2>1, <3>1
  <2>2. CASE ~(q.NumOfElements > 0)
    <3>1. q.NumOfElements = 0
      BY <1>2, <2>2, QueueAssumption
    <3>. QED
      BY <2>2, <3>1 DEF peekNextElement
  <2>. QED
    BY <2>1, <2>2
<1>4. pc \in {"unlock", "open"} /\ m \in Messages \cup {NULL}
  BY <1>3
<1>5. /\ m = NULL => pc = "unlock" /\ q' = q
      /\ m # NULL => pc = "open" /\ q' = DequeueLink(q)
  BY <1>1
<1> HIDE DEF m, pc
<1>6. /\ thr' \in [Threads -> Thread] /\ thr'["snipper"].pc = pc /\ thr'["snipper"].msg = m
      /\ \A u \in Threads : u # "snipper" => thr'[u] = thr[u]
  BY <1>1, <1>4 DEF IInv, Control, Thread
<1>7. thr["stacker"].pc \notin InCall /\ thr'["stacker"] = thr["stacker"]
  <2>1. "snipper" # "stacker" /\ thr["snipper"].pc \in InCall
    BY <1>1 DEF InCall
  <2>. QED
    BY <1>1, <1>6, <2>1, OneInCall DEF IInv
<1>8. Control'
  <2>1. mutex = "snipper" /\ thr["snipper"].pc \in InCall
    BY <1>1 DEF IInv, Control, InCall
  <2>2. /\ status' \in [Threads -> {-1, 0, 1}] /\ dumpFailed' \in BOOLEAN /\ stale' \in BOOLEAN
        /\ UNCHANGED <<main, boots, mutex>> /\ thr'["snipper"].pc \in InCall
    BY <1>1, <1>4, <1>6 DEF IInv, Control, InCall
  <2>. QED
    BY <1>1, <1>6, <2>1, <2>2, ThreadControl DEF IInv
<1>9. CASE m = NULL
  <2>1. Taken' = <<>> /\ q' = q /\ thr'["snipper"].pc = "unlock"
    BY <1>5, <1>6, <1>9 DEF Taken
  <2>2. \A t \in Threads : /\ thr'[t].pc = "write" => thr[t].pc = "write"
                           /\ thr[t].pc \in {"open", "write"} => thr'[t].pc \in {"open", "write"}
    BY <1>1, <1>6, <2>1
  <2>. QED
    BY <1>1, <1>7, <1>8, <2>1, <2>2, QuietStep
<1>10. CASE m # NULL
  <2>1. /\ q' = DequeueLink(q) /\ thr'["snipper"].pc = "open"
        /\ q.NumOfElements > 0 /\ m \in Messages
    BY <1>3, <1>5, <1>6, <1>10
  <2>2. /\ q' \in Queue /\ WellFormed(q') /\ Queued # <<>>
        /\ Queued' = Tail(Queued) /\ m = Head(Queued)
    BY <1>2, <2>1, DequeueContents DEF Queued, m
  <2>3. Taken' = <<m>>
    BY <1>6, <1>10, <2>1 DEF Taken
  <2>4. Taken = <<>>
    BY <1>1 DEF Taken
  <2>5. \A n \in Int : AtMost(Queued, n) => AtMost(Queued', n) /\ AtMost(Taken', n)
    <3>1. \A n \in Int : AtMost(Queued, n) => AtMost(Tail(Queued), n) /\ m <= n
      BY <1>2, <2>2, TailOrder
    <3>2. \A n : m <= n => AtMost(<<m>>, n)
      BY DEF AtMost
    <3>. QED
      BY <2>2, <2>3, <3>1, <3>2
  <2>6. /\ Rising(Queued) /\ Rising(file.body)
        /\ ~stale => Rising(begun) /\ Before(begun, Queued) /\ Before(begun, file.body)
    BY DEF IInv, Ordered
  <2>7. /\ Rising(Queued') /\ Before(Taken', Queued') /\ Fits(Queued')
        /\ ~stale => Before(begun, Queued') /\ Before(begun, Taken')
    BY <1>2, <2>2, <2>3, <2>6, TailOrder
  <2>8. Data'
    BY <1>1, <2>2, <2>7 DEF IInv, Data
  <2>9. Newest'
    <3>1. \A n \in Int : UpTo(n) => UpTo(n)'
      BY <1>1, <2>5 DEF UpTo
    <3>2. read \in Int /\ read - 1 \in Int
      BY Types
    <3>. QED
      BY <1>1, <1>7, <3>1, <3>2 DEF IInv, Newest
  <2>10. Dumping' /\ Saved'
    BY <1>1, <1>7, <2>1 DEF Dumping, Saved, Threads, InCall
  <2>11. Aged'
    <3>1. ripe \in Int
      BY Types
    <3>2. DelayTime => m <= ripe
      BY <1>1 DEF IInv, Aged, m
    <3>3. m <= ripe => AtMost(<<m>>, ripe)
      BY DEF AtMost
    <3>. QED
      BY <1>1, <2>1, <2>3, <3>2, <3>3 DEF IInv, Aged
  <2>12. Ordered'
    BY <1>1, <2>1, <2>6, <2>7 DEF Ordered
  <2>. QED
    BY <1>8, <2>8, <2>9, <2>10, <2>11, <2>12 DEF IInv
<1>. QED
  BY <1>9, <1>10

LEMMA SnipperUnlockStep ==
  ASSUME IInv, SnipperUnlock
  PROVE  IInv'
<1> DEFINE m == thr["snipper"].msg
           pc == IF m = NULL THEN "loop" ELSE "work"
<1>1. /\ thr["snipper"].pc = "unlock" /\ "snipper" \in Threads /\ "stacker" \in Threads
      /\ mutex' = "free" /\ Goto("snipper", pc)
      /\ begun' = IF m = NULL THEN begun ELSE Append(begun, m)
      /\ UNCHANGED <<q, file, main, status, read, ripe, dumpFailed, stale, boots>>
  BY DEF SnipperUnlock, Threads
<1>2. pc \in {"loop", "work"} /\ pc \in PcValues
  BY DEF PcValues
<1>3. /\ thr' \in [Threads -> Thread] /\ thr'["snipper"].pc = pc /\ thr'["snipper"].msg = m
      /\ \A u \in Threads : u # "snipper" => thr'[u] = thr[u]
  BY <1>1, <1>2, GotoMoves DEF IInv, Control
<1>4. Control'
  <2>1. /\ thr["snipper"].pc \in InCall /\ thr'["snipper"].pc \notin InCall
        /\ status' \in [Threads -> {-1, 0, 1}] /\ dumpFailed' \in BOOLEAN /\ stale' \in BOOLEAN
    BY <1>1, <1>2, <1>3 DEF IInv, Control, InCall
  <2>. QED
    BY <1>1, <1>3, <2>1, ThreadControl DEF IInv
<1>5. Taken' = <<>> /\ Queued' = Queued
  BY <1>1, <1>2, <1>3 DEF Taken, Queued
<1>6. CASE m = NULL
  BY <1>1, <1>2, <1>4, <1>5, <1>6, GotoQuiet
<1>7. CASE m # NULL
  <2>1. m \in Messages /\ Taken = <<m>> /\ begun' = Append(begun, m)
    BY <1>1, <1>7 DEF IInv, Control, Thread, Taken
  <2>2. /\ begun \in Seq(Messages) /\ Queued \in Seq(Messages) /\ file.body \in Seq(Messages)
        /\ read \in Int /\ ripe \in Int
    BY Types
  <2>3. \A n : AtMost(<<m>>, n) => m <= n
    BY DEF AtMost
  <2>4. /\ begun' \in Seq(Messages)
        /\ \A n \in Int : AtMost(begun, n) /\ AtMost(Taken, n) => AtMost(begun', n)
    BY <2>1, <2>2, <2>3, AppendOrder
  <2>5. ~stale => /\ Rising(begun') /\ Before(begun', Queued) /\ Before(begun', file.body)
    <3> SUFFICES ASSUME ~stale
                 PROVE  Rising(begun') /\ Before(begun', Queued) /\ Before(begun', file.body)
      OBVIOUS
    <3>1. /\ Rising(begun) /\ Before(begun, <<m>>)
          /\ Before(begun, Queued) /\ Before(begun, file.body)
          /\ Before(<<m>>, Queued) /\ Before(<<m>>, file.body)
      BY <1>1, <2>1 DEF IInv, Ordered
    <3>. QED
      BY <2>1, <2>2, <3>1, AppendOrder
  <2>6. Data'
    BY <1>1, <1>5, <2>4 DEF IInv, Data
  <2>7. Newest'
    <3>1. \A n \in Int : UpTo(n) => UpTo(n)'
      BY <1>1, <1>5, <2>4, NoneIn DEF UpTo
    <3>2. thr'["stacker"] = thr["stacker"] /\ read - 1 \in Int
      BY <1>1, <1>3, <2>2
    <3>. QED
      BY <1>1, <2>2, <3>1, <3>2 DEF IInv, Newest
  <2>8. Dumping' /\ Saved'
    BY <1>1, <1>2, <1>3, <1>5 DEF IInv, Dumping, Saved, Threads
  <2>9. Aged'
    BY <1>1, <1>2, <1>3, <1>5, <2>2, <2>4, NoneIn DEF IInv, Aged
  <2>10. Ordered'
    BY <1>1, <1>2, <1>3, <1>5, <2>5, NoneIn DEF IInv, Ordered
  <2>. QED
    BY <1>4, <2>6, <2>7, <2>8, <2>9, <2>10 DEF IInv
<1>. QED
  BY <1>6, <1>7

LEMMA SnipperStep ==
  ASSUME IInv, Snipper
  PROVE  IInv'
<1>0. "snipper" \in Threads
  BY DEF Threads
<1>1. ASSUME NEW pc \in {"loop", "lock", "dead"}, Goto("snipper", pc),
             thr["snipper"].pc \in {"begin", "loop", "work"},
             status' \in [Threads -> {-1, 0, 1}],
             UNCHANGED <<q, file, mutex, main, read, ripe, begun, dumpFailed, stale, boots>>
      PROVE  IInv'
  <2>1. /\ thr' \in [Threads -> Thread] /\ thr'["snipper"].pc = pc
        /\ \A u \in Threads : u # "snipper" => thr'[u] = thr[u]
    BY <1>0, <1>1, GotoMoves DEF IInv, Control, PcValues
  <2>2. Control'
    BY <1>0, <1>1, <2>1, ThreadControl DEF IInv, InCall, Control
  <2>. QED
    BY <1>0, <1>1, <2>2, GotoQuiet
<1>2. CASE SnipperLoop
  <2>1. PICK pc \in {"loop", "lock", "dead"} :
          Goto("snipper", pc) /\ status' \in [Threads -> {-1, 0, 1}]
    BY <1>2 DEF SnipperLoop, Die, IInv, Control
  <2>. QED
    BY <1>1, <1>2, <2>1 DEF SnipperLoop
<1>3. CASE SnipperWork
  <2>1. PICK pc \in {"loop", "lock", "dead"} :
          Goto("snipper", pc) /\ status' \in [Threads -> {-1, 0, 1}]
    BY <1>3 DEF SnipperWork, Die, IInv, Control
  <2>. QED
    BY <1>1, <1>3, <2>1 DEF SnipperWork
<1>. QED
  BY <1>0, <1>2, <1>3, LockStep, SnipperPeekStep, SnipperDequeueStep, DumpOpenStep,
     DumpWriteStep, SnipperUnlockStep DEF Snipper

(* Messages only grow older.                                               *)
LEMMA RipenStep ==
  ASSUME IInv, Ripen
  PROVE  IInv'
<1>1. /\ ripe < read /\ ripe' = ripe + 1
      /\ UNCHANGED <<q, file, mutex, main, status, thr, read, begun, dumpFailed, stale, boots>>
  BY DEF Ripen
<1>2. ripe \in Nat /\ read \in Nat /\ ripe' \in 0 .. read /\ ripe <= ripe' /\ ripe' \in Int
  BY <1>1, Types
<1>3. Queued' = Queued /\ Taken' = Taken
  BY <1>1 DEF Queued, Taken
<1>4. Data' /\ Control' /\ Newest' /\ Dumping' /\ Saved' /\ Ordered'
  BY <1>1, <1>2, <1>3
     DEF IInv, Data, Control, Newest, UpTo, Dumping, Saved, Ordered
<1>5. q.NumOfElements > 0 => peekNextElement(q) \in Int
  BY DequeueContents, MessagesInt DEF IInv, Data
<1>6. Aged'
  <2> SUFFICES ASSUME DelayTime
               PROVE  /\ AtMost(begun, ripe') /\ AtMost(Taken, ripe')
                      /\ thr["snipper"].pc = "call" =>
                           q.NumOfElements > 0 /\ peekNextElement(q) <= ripe'
    BY <1>1, <1>3 DEF Aged
  <2>1. AtMost(begun, ripe') /\ AtMost(Taken, ripe')
    BY <1>2, Types, AtMostMore DEF IInv, Aged
  <2>. QED
    BY <1>2, <1>5, <2>1 DEF IInv, Aged
<1>. QED
  BY <1>4, <1>6 DEF IInv

-----------------------------------------------------------------------------
(* The invariant.                                                          *)

LEMMA StepIInv == IInv /\ [Next]_vars => IInv'
<1> SUFFICES ASSUME IInv, [Next]_vars PROVE IInv'
  OBVIOUS
<1>1. CASE UNCHANGED vars
  BY <1>1 DEF vars, IInv, Data, Control, Newest, UpTo, Dumping, Saved, Aged, Ordered,
              Queued, Taken
<1>. QED
  BY <1>1, BootStep, MainStep, StackerStep, SnipperStep, RipenStep DEF Next

LEMMA IInvAlways == Spec => []IInv
BY InitIInv, StepIInv, PTL DEF Spec

(* Type correctness: whatever part of a dump a stop left in the file, what *)
(* is loaded from it is a queue, and positions never leave the array.      *)
THEOREM TypesHold == Spec => []TypeOK
BY TypeOKFollows, IInvAlways, PTL

(* Between two calls the file restores exactly the queue, unless the queue *)
(* is full or the last dump failed.                                        *)
THEOREM FileHoldsQueue == Spec => []SavedUnlessFull
<1>1. IInv => SavedUnlessFull
  <2> SUFFICES ASSUME IInv, mutex = "free", main # "down", ~Full(q), ~dumpFailed
               PROVE  Restored = Queued
    BY DEF SavedUnlessFull, Queued
  <2>1. \A t \in Threads : thr[t].pc \notin {"open", "write"}
    BY DEF IInv, Control, Threads, InCall
  <2>2. file.body = Queued
    BY <2>1 DEF IInv, Saved
  <2>3. Contents(undumpqueue(file)) = file.body
    BY UndumpContents DEF IInv, Data
  <2>. QED
    BY <2>2, <2>3 DEF Restored
<1>. QED
  BY <1>1, IInvAlways, PTL

(* Messages are begun in the order they were read and none twice, over any *)
(* number of stops, kills and restarts, as long as every dump could open   *)
(* its file.                                                               *)
THEOREM BegunInOrderOnce == Spec => []InOrderOnce
<1>1. IInv => InOrderOnce
  BY DEF IInv, Ordered, Rising, InOrderOnce
<1>. QED
  BY <1>1, IInvAlways, PTL

(* With DelayTime no message is begun before it is old enough.             *)
THEOREM NoneBegunTooYoung == Spec => []NoneTooYoung
<1>1. IInv => NoneTooYoung
  BY DEF IInv, Aged, AtMost, NoneTooYoung
<1>. QED
  BY <1>1, IInvAlways, PTL
=============================================================================
