------------------------- MODULE MemCircQueue_proofs -------------------------
(***************************************************************************)
(* What the calls of mem_circ_queue.c do to the contents of a queue, for   *)
(* every number of entries: lemmas for the modules that use the queue.     *)
(***************************************************************************)
EXTENDS MemCircQueue, SequenceTheorems, TLAPS

Cell == Messages \cup {NULL}

(* Up to a whole turn, stepping from the oldest entry stays in the array.  *)
LEMMA AfterInPos ==
  ASSUME NEW q \in Queue, NEW i \in 0 .. MyMaxElements
  PROVE  After(q, i) \in Pos
BY QueueAssumption DEF After, Pos, Queue

(* Moving a position is stepping by one.                                   *)
LEMMA IncIsAfter ==
  ASSUME NEW q \in Queue, NEW i \in 0 .. MyMaxElements - 1
  PROVE  inc_circular(After(q, i)) = After(q, i + 1)
BY QueueAssumption DEF inc_circular, After, Pos, Queue

(* Different entries of a queue are at different positions.                *)
LEMMA AfterInjective ==
  ASSUME NEW q \in Queue, NEW i \in 0 .. MyMaxElements - 1,
         NEW j \in 0 .. MyMaxElements - 1, i # j
  PROVE  After(q, i) # After(q, j)
BY QueueAssumption DEF After, Pos, Queue

(* The contents are a sequence as long as NumOfElements says.              *)
LEMMA ContentsType ==
  ASSUME NEW q \in Queue
  PROVE  /\ Contents(q) \in Seq(Cell)
         /\ Len(Contents(q)) = q.NumOfElements
         /\ \A i \in 1 .. q.NumOfElements :
              Contents(q)[i] = q.pQE[After(q, i - 1)]
<1>1. q.NumOfElements \in 0 .. MyMaxElements /\ q.pQE \in [Pos -> Cell]
  BY DEF Queue, Cell
<1>2. \A i \in 1 .. q.NumOfElements : q.pQE[After(q, i - 1)] \in Cell
  <2> SUFFICES ASSUME NEW i \in 1 .. q.NumOfElements
               PROVE  q.pQE[After(q, i - 1)] \in Cell
    OBVIOUS
  <2>1. i - 1 \in 0 .. MyMaxElements
    BY <1>1, QueueAssumption
  <2>2. After(q, i - 1) \in Pos
    BY <2>1, AfterInPos
  <2>. QED
    BY <1>1, <2>2
<1>3. Contents(q) \in [1 .. q.NumOfElements -> Cell]
  BY <1>2 DEF Contents
<1>4. Contents(q) \in Seq(Cell)
  BY <1>1, <1>3, SeqDef, QueueAssumption
<1>5. Len(Contents(q)) = q.NumOfElements
  BY <1>1, <1>3, <1>4, LenProperties, QueueAssumption
<1>. QED
  BY <1>4, <1>5 DEF Contents

(* Copying a message to the next free entry, or over the oldest one of a   *)
(* full queue, changes no other queued message.                            *)
LEMMA CopyContents ==
  ASSUME NEW q \in Queue, WellFormed(q), NEW x \in Messages
  PROVE  LET r == EnqueueCopy(q, x)
         IN /\ r \in Queue /\ WellFormed(r)
            /\ r.pQE[r.last] = x
            /\ r.first = q.first /\ r.NumOfElements = q.NumOfElements
            /\ \A i \in 0 .. MyMaxElements - 1 : After(r, i) = After(q, i)
            /\ ~Full(q) => Contents(r) = Contents(q)
            /\ Full(q) => \A i \in 2 .. q.NumOfElements : Contents(r)[i] = Contents(q)[i]
<1> DEFINE r == EnqueueCopy(q, x)
<1>1. /\ q.pQE \in [Pos -> Cell] /\ q.first \in Pos /\ q.last \in Pos
      /\ q.NumOfElements \in 0 .. MyMaxElements
  BY DEF Queue, Cell
<1>2. /\ r \in Queue
      /\ r.first = q.first /\ r.last = q.last /\ r.NumOfElements = q.NumOfElements
      /\ r.pQE = [q.pQE EXCEPT ![q.last] = x]
  BY DEF EnqueueCopy, Queue
<1>3. \A i \in 0 .. MyMaxElements : After(r, i) = After(q, i)
  BY <1>2 DEF After
<1>4. r.pQE[r.last] = x
  BY <1>1, <1>2
<1>5. x # NULL
  BY QueueAssumption
<1>6. \A i \in 1 .. q.NumOfElements :
        Contents(r)[i] = IF After(q, i - 1) = q.last THEN x ELSE Contents(q)[i]
  <2> SUFFICES ASSUME NEW i \in 1 .. q.NumOfElements
               PROVE  Contents(r)[i] = IF After(q, i - 1) = q.last THEN x ELSE Contents(q)[i]
    OBVIOUS
  <2>1. i - 1 \in 0 .. MyMaxElements
    BY <1>1, QueueAssumption
  <2>2. After(q, i - 1) \in Pos
    BY <2>1, AfterInPos
  <2>3. Contents(r)[i] = r.pQE[After(q, i - 1)] /\ Contents(q)[i] = q.pQE[After(q, i - 1)]
    BY <1>2, <1>3, <2>1, ContentsType
  <2>. QED
    BY <1>1, <1>2, <2>2, <2>3
<1>7. WellFormed(r)
  BY <1>1, <1>2, <1>3, <1>5, <1>6, QueueAssumption DEF WellFormed
<1>8. ASSUME ~Full(q) PROVE Contents(r) = Contents(q)
  <2>1. q.NumOfElements \in 0 .. MyMaxElements - 1
    BY <1>1, <1>8, QueueAssumption DEF Full
  <2>2. \A i \in 1 .. q.NumOfElements : After(q, i - 1) # q.last
    BY <1>1, <2>1, AfterInjective, QueueAssumption DEF WellFormed
  <2>3. \A i \in 1 .. q.NumOfElements : Contents(r)[i] = Contents(q)[i]
    BY <1>6, <2>2
  <2>. QED
    BY <1>2, <2>3, ContentsType, SeqEqual
<1>9. ASSUME Full(q), NEW i \in 2 .. q.NumOfElements
      PROVE  Contents(r)[i] = Contents(q)[i]
  <2>1. i - 1 \in 0 .. MyMaxElements - 1 /\ i - 1 # 0 /\ 0 \in 0 .. MyMaxElements - 1
    BY <1>9, <1>1, QueueAssumption DEF Full
  <2>2. q.last = After(q, 0)
    BY <1>1, <1>9, QueueAssumption DEF WellFormed, Full, After, Pos
  <2>3. After(q, i - 1) # After(q, 0)
    BY <2>1, AfterInjective
  <2>. QED
    BY <1>6, <1>9, <2>2, <2>3, <1>1
<1>. QED
  BY <1>2, <1>3, <1>4, <1>7, <1>8, <1>9, QueueAssumption

(* Moving the positions over the entry at last queues what it holds; in a  *)
(* full queue it takes the place of the oldest message.                    *)
LEMMA LinkContents ==
  ASSUME NEW q \in Queue, WellFormed(q), q.pQE[q.last] # NULL
  PROVE  LET r == EnqueueLink(q)
         IN /\ r \in Queue /\ WellFormed(r)
            /\ r.NumOfElements = IF Full(q) THEN q.NumOfElements ELSE q.NumOfElements + 1
            /\ ~Full(q) => Contents(r) = Append(Contents(q), q.pQE[q.last])
            /\ Full(q) => Contents(r) = Append(Tail(Contents(q)), q.pQE[q.last])
<1> DEFINE r == EnqueueLink(q)
<1>1. /\ q.pQE \in [Pos -> Cell] /\ q.first \in Pos /\ q.last \in Pos
      /\ q.NumOfElements \in 0 .. MyMaxElements
  BY DEF Queue, Cell
<1>2. q.pQE[q.last] \in Cell
  BY <1>1
<1>3. CASE ~Full(q)
  <2>1. q.NumOfElements \in 0 .. MyMaxElements - 1
    BY <1>1, <1>3, QueueAssumption DEF Full
  <2>2. r = [q EXCEPT !.last = inc_circular(q.last), !.NumOfElements = q.NumOfElements + 1]
    BY <1>3 DEF EnqueueLink
  <2>3. /\ r.first = q.first /\ r.pQE = q.pQE
        /\ r.NumOfElements = q.NumOfElements + 1 /\ r.last = inc_circular(q.last)
    BY <2>2 DEF Queue
  <2>4. inc_circular(q.last) = After(q, q.NumOfElements + 1)
    BY <2>1, IncIsAfter DEF WellFormed
  <2>5. After(q, q.NumOfElements + 1) \in Pos
    BY <2>1, AfterInPos, QueueAssumption
  <2>6. r \in Queue
    <3>1. q.NumOfElements + 1 \in 0 .. MyMaxElements /\ inc_circular(q.last) \in Pos
      BY <2>1, <2>4, <2>5, QueueAssumption
    <3>. QED
      BY <2>2, <3>1 DEF Queue
  <2>7. \A i \in 0 .. MyMaxElements : After(r, i) = After(q, i)
    BY <2>3 DEF After
  <2>8. r.last = After(r, r.NumOfElements)
    BY <2>1, <2>3, <2>4, <2>7, QueueAssumption
  <2>9. \A i \in 1 .. q.NumOfElements + 1 :
          Contents(r)[i] = IF i = q.NumOfElements + 1 THEN q.pQE[q.last] ELSE Contents(q)[i]
    <3> SUFFICES ASSUME NEW i \in 1 .. q.NumOfElements + 1
                 PROVE  Contents(r)[i] = IF i = q.NumOfElements + 1 THEN q.pQE[q.last]
                                         ELSE Contents(q)[i]
      OBVIOUS
    <3>1. Contents(r)[i] = q.pQE[After(q, i - 1)]
      <4>1. i \in 1 .. r.NumOfElements
        BY <2>3
      <4>2. Contents(r)[i] = r.pQE[After(r, i - 1)]
        BY <2>6, <4>1, ContentsType
      <4>3. i - 1 \in 0 .. MyMaxElements
        BY <2>1, QueueAssumption
      <4>4. After(r, i - 1) = After(q, i - 1)
        BY <2>7, <4>3
      <4>. QED
        BY <2>3, <4>2, <4>4
    <3>2. CASE i = q.NumOfElements + 1
      <4>1. i - 1 = q.NumOfElements
        BY <2>1, <3>2, QueueAssumption
      <4>. QED
        BY <3>1, <3>2, <4>1 DEF WellFormed
    <3>3. CASE i # q.NumOfElements + 1
      <4>1. i \in 1 .. q.NumOfElements
        BY <2>1, <3>3, QueueAssumption
      <4>. QED
        BY <3>1, <3>3, <4>1, ContentsType
    <3>. QED
      BY <3>2, <3>3
  <2>10. WellFormed(r)
    BY <1>1, <2>1, <2>3, <2>8, <2>9, QueueAssumption DEF WellFormed
  <2>11. Contents(r) = Append(Contents(q), q.pQE[q.last])
    <3>1. /\ Contents(r) \in Seq(Cell) /\ Len(Contents(r)) = q.NumOfElements + 1
          /\ Contents(q) \in Seq(Cell) /\ Len(Contents(q)) = q.NumOfElements
      BY <2>3, <2>6, ContentsType
    <3>2. /\ Append(Contents(q), q.pQE[q.last]) \in Seq(Cell)
          /\ Len(Append(Contents(q), q.pQE[q.last])) = q.NumOfElements + 1
          /\ \A i \in 1 .. q.NumOfElements + 1 :
               Append(Contents(q), q.pQE[q.last])[i] =
                 IF i = q.NumOfElements + 1 THEN q.pQE[q.last] ELSE Contents(q)[i]
      BY <1>2, <3>1, <2>1, QueueAssumption
    <3>. QED
      BY <2>9, <3>1, <3>2, SeqEqual
  <2>. QED
    BY <1>3, <2>3, <2>6, <2>10, <2>11
<1>4. CASE Full(q)
  <2>1. q.NumOfElements = MyMaxElements /\ MyMaxElements \in Nat /\ MyMaxElements >= 1
    BY <1>4, QueueAssumption DEF Full
  <2>2. q.last = q.first
    BY <1>1, <2>1 DEF WellFormed, After, Pos
  <2>3. r = [q EXCEPT !.last = inc_circular(q.last), !.first = inc_circular(q.first)]
    BY <1>4 DEF EnqueueLink
  <2>4. /\ r.first = inc_circular(q.first) /\ r.last = r.first /\ r.pQE = q.pQE
        /\ r.NumOfElements = MyMaxElements
    BY <2>1, <2>2, <2>3 DEF Queue
  <2>5. inc_circular(q.first) \in Pos
    BY <1>1, <2>1 DEF inc_circular, Pos
  <2>6. r \in Queue
    BY <2>2, <2>3, <2>5 DEF Queue
  <2>7. r.last = After(r, r.NumOfElements)
    BY <2>1, <2>4, <2>5 DEF After, Pos
  <2>8. /\ \A i \in 0 .. MyMaxElements - 2 : After(r, i) = After(q, i + 1)
        /\ After(r, MyMaxElements - 1) = q.last
    <3>1. CASE q.first + 1 >= MyMaxElements
      <4>1. r.first = 0 /\ q.first = MyMaxElements - 1
        BY <1>1, <2>1, <2>4, <3>1 DEF inc_circular, Pos
      <4>. QED
        BY <2>1, <2>2, <4>1 DEF After
    <3>2. CASE ~(q.first + 1 >= MyMaxElements)
      <4>1. r.first = q.first + 1 /\ q.first \in 0 .. MyMaxElements - 2
        BY <1>1, <2>1, <2>4, <3>2 DEF inc_circular, Pos
      <4>. QED
        BY <2>1, <2>2, <4>1 DEF After
    <3>. QED
      BY <3>1, <3>2
  <2>9. \A i \in 1 .. MyMaxElements :
          Contents(r)[i] = IF i = MyMaxElements THEN q.pQE[q.last] ELSE Contents(q)[i + 1]
    <3> SUFFICES ASSUME NEW i \in 1 .. MyMaxElements
                 PROVE  Contents(r)[i] = IF i = MyMaxElements THEN q.pQE[q.last]
                                         ELSE Contents(q)[i + 1]
      OBVIOUS
    <3>1. Contents(r)[i] = q.pQE[After(r, i - 1)]
      BY <2>4, <2>6, ContentsType
    <3>2. CASE i = MyMaxElements
      BY <2>8, <3>1, <3>2
    <3>3. CASE i # MyMaxElements
      <4>1. i - 1 \in 0 .. MyMaxElements - 2 /\ i + 1 \in 1 .. q.NumOfElements
            /\ (i - 1) + 1 = (i + 1) - 1
        BY <2>1, <3>3
      <4>2. After(r, i - 1) = After(q, (i + 1) - 1)
        BY <2>8, <4>1
      <4>3. Contents(q)[i + 1] = q.pQE[After(q, (i + 1) - 1)]
        BY <4>1, ContentsType
      <4>. QED
        BY <3>1, <3>3, <4>2, <4>3
    <3>. QED
      BY <3>2, <3>3
  <2>10. WellFormed(r)
    <3> SUFFICES ASSUME NEW i \in 1 .. MyMaxElements
                 PROVE  Contents(r)[i] # NULL
      BY <2>4, <2>7 DEF WellFormed
    <3>1. CASE i = MyMaxElements
      BY <2>9, <3>1
    <3>2. CASE i # MyMaxElements
      <4>1. i + 1 \in 1 .. q.NumOfElements
        BY <2>1, <3>2
      <4>. QED
        BY <2>9, <3>2, <4>1 DEF WellFormed
    <3>. QED
      BY <3>1, <3>2
  <2>11. Contents(r) = Append(Tail(Contents(q)), q.pQE[q.last])
    <3> DEFINE t == Tail(Contents(q))
    <3>1. /\ Contents(r) \in Seq(Cell) /\ Len(Contents(r)) = MyMaxElements
          /\ Contents(q) \in Seq(Cell) /\ Len(Contents(q)) = MyMaxElements
      BY <2>1, <2>4, <2>6, ContentsType
    <3>2. Contents(q) # <<>>
      BY <2>1, <3>1
    <3>3. /\ t \in Seq(Cell) /\ Len(t) = MyMaxElements - 1
          /\ \A i \in 1 .. MyMaxElements - 1 : t[i] = Contents(q)[i + 1]
      BY <3>1, <3>2, HeadTailProperties
    <3> HIDE DEF t
    <3>4. /\ Append(t, q.pQE[q.last]) \in Seq(Cell)
          /\ Len(Append(t, q.pQE[q.last])) = MyMaxElements
          /\ \A i \in 1 .. MyMaxElements :
               Append(t, q.pQE[q.last])[i] =
                 IF i = MyMaxElements THEN q.pQE[q.last] ELSE t[i]
      BY <1>2, <2>1, <3>3
    <3>5. \A i \in 1 .. MyMaxElements : Contents(r)[i] = Append(t, q.pQE[q.last])[i]
      BY <2>1, <2>9, <3>3, <3>4
    <3>. QED
      BY <3>1, <3>4, <3>5, SeqEqual DEF t
  <2>. QED
    BY <1>4, <2>1, <2>4, <2>6, <2>10, <2>11
<1>. QED
  BY <1>3, <1>4

(* A whole enqueue of a message that is not too long.                      *)
LEMMA EnqueueContents ==
  ASSUME NEW q \in Queue, WellFormed(q), NEW x \in Messages
  PROVE  LET r == EnqueueLink(EnqueueCopy(q, x))
         IN /\ r \in Queue /\ WellFormed(r)
            /\ r.NumOfElements = IF Full(q) THEN q.NumOfElements ELSE q.NumOfElements + 1
            /\ ~Full(q) => Contents(r) = Append(Contents(q), x)
            /\ Full(q) => Contents(r) = Append(Tail(Contents(q)), x)
<1> DEFINE c == EnqueueCopy(q, x)
<1>1. /\ c \in Queue /\ WellFormed(c) /\ c.pQE[c.last] = x
      /\ c.NumOfElements = q.NumOfElements
      /\ ~Full(q) => Contents(c) = Contents(q)
      /\ Full(q) => \A i \in 2 .. q.NumOfElements : Contents(c)[i] = Contents(q)[i]
  BY CopyContents
<1>2. Full(c) <=> Full(q)
  BY <1>1 DEF Full
<1>3. x # NULL
  BY QueueAssumption
<1>4. ASSUME Full(q) PROVE Tail(Contents(c)) = Tail(Contents(q))
  <2>1. /\ Contents(c) \in Seq(Cell) /\ Len(Contents(c)) = MyMaxElements
        /\ Contents(q) \in Seq(Cell) /\ Len(Contents(q)) = MyMaxElements
        /\ MyMaxElements \in Nat /\ MyMaxElements >= 1
    BY <1>1, <1>4, ContentsType, QueueAssumption DEF Full
  <2>2. Contents(c) # <<>> /\ Contents(q) # <<>>
    BY <2>1
  <2>3. /\ Tail(Contents(c)) \in Seq(Cell) /\ Len(Tail(Contents(c))) = MyMaxElements - 1
        /\ \A i \in 1 .. MyMaxElements - 1 : Tail(Contents(c))[i] = Contents(c)[i + 1]
    BY <2>1, <2>2, HeadTailProperties
  <2>4. /\ Tail(Contents(q)) \in Seq(Cell) /\ Len(Tail(Contents(q))) = MyMaxElements - 1
        /\ \A i \in 1 .. MyMaxElements - 1 : Tail(Contents(q))[i] = Contents(q)[i + 1]
    BY <2>1, <2>2, HeadTailProperties
  <2>5. \A i \in 1 .. MyMaxElements - 1 : Tail(Contents(c))[i] = Tail(Contents(q))[i]
    BY <1>1, <1>4, <2>1, <2>3, <2>4 DEF Full
  <2>. QED
    BY <2>3, <2>4, <2>5, SeqEqual
<1> HIDE DEF c
<1>. QED
  BY <1>1, <1>2, <1>3, <1>4, LinkContents DEF c

(* dequeue hands over the oldest message and keeps the others.             *)
LEMMA DequeueContents ==
  ASSUME NEW q \in Queue, WellFormed(q), q.NumOfElements > 0
  PROVE  LET r == DequeueLink(q)
         IN /\ r \in Queue /\ WellFormed(r)
            /\ r.NumOfElements = q.NumOfElements - 1
            /\ Contents(q) # <<>>
            /\ Contents(r) = Tail(Contents(q))
            /\ peekNextElement(q) = Head(Contents(q))
            /\ peekNextElement(q) \in Messages
<1> DEFINE r == DequeueLink(q)
<1>1. /\ q.pQE \in [Pos -> Cell] /\ q.first \in Pos /\ q.last \in Pos
      /\ q.NumOfElements \in 1 .. MyMaxElements
      /\ MyMaxElements \in Nat /\ MyMaxElements >= 1
  BY QueueAssumption DEF Queue, Cell
<1>2. r = [q EXCEPT !.first = inc_circular(q.first), !.NumOfElements = q.NumOfElements - 1]
  BY DEF DequeueLink
<1>3. /\ r.first = inc_circular(q.first) /\ r.last = q.last /\ r.pQE = q.pQE
      /\ r.NumOfElements = q.NumOfElements - 1
  BY <1>2 DEF Queue
<1>4. inc_circular(q.first) \in Pos
  BY <1>1 DEF inc_circular, Pos
<1>5. r \in Queue
  <2>1. q.NumOfElements - 1 \in 0 .. MyMaxElements
    BY <1>1
  <2>. QED
    BY <1>2, <1>4, <2>1 DEF Queue
<1>6. \A i \in 0 .. MyMaxElements - 1 : After(r, i) = After(q, i + 1)
  <2>1. CASE q.first + 1 >= MyMaxElements
    <3>1. r.first = 0 /\ q.first = MyMaxElements - 1
      BY <1>1, <1>3, <2>1 DEF inc_circular, Pos
    <3>. QED
      BY <1>1, <3>1 DEF After
  <2>2. CASE ~(q.first + 1 >= MyMaxElements)
    <3>1. r.first = q.first + 1 /\ q.first \in 0 .. MyMaxElements - 2
      BY <1>1, <1>3, <2>2 DEF inc_circular, Pos
    <3>. QED
      BY <1>1, <3>1 DEF After
  <2>. QED
    BY <2>1, <2>2
<1>7. r.last = After(r, r.NumOfElements)
  BY <1>1, <1>3, <1>6 DEF WellFormed
<1>8. /\ Contents(q) \in Seq(Cell) /\ Len(Contents(q)) = q.NumOfElements
      /\ Contents(r) \in Seq(Cell) /\ Len(Contents(r)) = q.NumOfElements - 1
      /\ \A i \in 1 .. q.NumOfElements : Contents(q)[i] = q.pQE[After(q, i - 1)]
      /\ \A i \in 1 .. q.NumOfElements - 1 : Contents(r)[i] = q.pQE[After(r, i - 1)]
  BY <1>3, <1>5, ContentsType
<1>9. Contents(q) # <<>>
  BY <1>1, <1>8
<1>10. \A i \in 1 .. q.NumOfElements - 1 : Contents(r)[i] = Contents(q)[i + 1]
  <2> SUFFICES ASSUME NEW i \in 1 .. q.NumOfElements - 1
               PROVE  Contents(r)[i] = Contents(q)[i + 1]
    OBVIOUS
  <2>1. i - 1 \in 0 .. MyMaxElements - 1 /\ i + 1 \in 1 .. q.NumOfElements
        /\ (i - 1) + 1 = (i + 1) - 1
    BY <1>1
  <2>. QED
    BY <1>6, <1>8, <2>1
<1>11. WellFormed(r)
  <2> SUFFICES ASSUME NEW i \in 1 .. q.NumOfElements - 1
               PROVE  Contents(r)[i] # NULL
    BY <1>3, <1>7 DEF WellFormed
  <2>1. i + 1 \in 1 .. q.NumOfElements
    BY <1>1
  <2>. QED
    BY <1>10, <2>1 DEF WellFormed
<1>12. /\ Tail(Contents(q)) \in Seq(Cell) /\ Len(Tail(Contents(q))) = q.NumOfElements - 1
       /\ \A i \in 1 .. q.NumOfElements - 1 : Tail(Contents(q))[i] = Contents(q)[i + 1]
  BY <1>8, <1>9, HeadTailProperties
<1>13. Contents(r) = Tail(Contents(q))
  <2>1. \A i \in 1 .. q.NumOfElements - 1 : Contents(r)[i] = Tail(Contents(q))[i]
    BY <1>10, <1>12
  <2>. QED
    BY <1>8, <1>12, <2>1, SeqEqual
<1>14. /\ peekNextElement(q) = Head(Contents(q))
       /\ peekNextElement(q) \in Messages
  <2>1. 1 \in 1 .. q.NumOfElements /\ After(q, 1 - 1) = q.first
    BY <1>1 DEF After, Pos
  <2>2. Contents(q)[1] = q.pQE[q.first]
    BY <1>8, <2>1
  <2>3. Head(Contents(q)) = Contents(q)[1]
    BY <1>8, <1>9
  <2>4. peekNextElement(q) = q.pQE[q.first]
    BY <1>1 DEF peekNextElement
  <2>5. Contents(q)[1] # NULL
    BY <2>1 DEF WellFormed
  <2>6. q.pQE[q.first] \in Cell
    BY <1>1
  <2>. QED
    BY <2>2, <2>3, <2>4, <2>5, <2>6 DEF Cell
<1>. QED
  BY <1>3, <1>5, <1>9, <1>11, <1>13, <1>14

(* Queued entries hold messages.                                           *)
LEMMA ContentsMessages ==
  ASSUME NEW q \in Queue, WellFormed(q)
  PROVE  /\ Contents(q) \in Seq(Messages) /\ Len(Contents(q)) = q.NumOfElements
         /\ q.NumOfElements \in 0 .. MyMaxElements
<1>1. /\ Contents(q) \in Seq(Cell) /\ Len(Contents(q)) = q.NumOfElements
      /\ q.NumOfElements \in 0 .. MyMaxElements
  BY ContentsType DEF Queue
<1>2. \A i \in 1 .. q.NumOfElements : Contents(q)[i] \in Messages
  BY <1>1 DEF WellFormed, Cell
<1>3. Contents(q) \in [1 .. q.NumOfElements -> Messages]
  BY <1>2 DEF Contents
<1>. QED
  BY <1>1, <1>3, SeqDef, QueueAssumption

-----------------------------------------------------------------------------
(* The dump file.                                                          *)

(* What the queue takes: messages that are not too long.                   *)
Fits(s) == \A i \in DOMAIN s : s[i] \in Messages \ Oversize

Files ==
  [exists : BOOLEAN, count : -1 .. MyMaxElements, body : Seq(Messages), whole : BOOLEAN]

(* A file some dump has left, finished or not.                             *)
FileOK(f) ==
  /\ f \in Files
  /\ Len(f.body) <= f.count \/ f.body = <<>>
  /\ ~f.exists => f.body = <<>>
  /\ Fits(f.body)

(* A file that a dump of q is writing: it holds the oldest messages of q.  *)
PartOf(f, q) ==
  /\ f.exists /\ ~f.whole
  /\ f.count \in {-1, q.NumOfElements}
  /\ Len(f.body) <= q.NumOfElements
  /\ f.count = -1 => f.body = <<>>
  /\ \A i \in 1 .. Len(f.body) : f.body[i] = Contents(q)[i]

(* A file that does not exist, and one that was just opened.               *)
LEMMA EmptyFiles ==
  /\ FileOK(NoFile) /\ NoFile.body = <<>>
  /\ FileOK(Truncated) /\ Truncated.body = <<>>
  /\ \A q \in Queue : PartOf(Truncated, q)
<1>1. <<>> \in Seq(Messages) /\ Fits(<<>>) /\ Len(<<>>) = 0 /\ -1 \in -1 .. MyMaxElements
  BY QueueAssumption DEF Fits
<1>2. NoFile \in Files /\ NoFile.body = <<>> /\ NoFile.count = -1 /\ NoFile.whole = FALSE
  BY <1>1 DEF NoFile, Files
<1>3. /\ Truncated \in Files /\ Truncated.body = <<>> /\ Truncated.count = -1
      /\ Truncated.whole = FALSE /\ Truncated.exists = TRUE
  BY <1>2 DEF Truncated, Files
<1>4. FileOK(NoFile) /\ FileOK(Truncated)
  BY <1>1, <1>2, <1>3 DEF FileOK
<1>5. ASSUME NEW q \in Queue
      PROVE  PartOf(Truncated, q)
  <2>1. q.NumOfElements \in Nat
    BY QueueAssumption DEF Queue
  <2>. QED
    BY <1>1, <1>3, <2>1 DEF PartOf
<1>. QED
  BY <1>2, <1>3, <1>4, <1>5

(* The queue of initqueue is empty.                                        *)
LEMMA InitQueue ==
  /\ initqueue \in Queue /\ WellFormed(initqueue)
  /\ Contents(initqueue) = <<>> /\ initqueue.NumOfElements = 0
<1>1. initqueue \in Queue
  BY QueueAssumption DEF initqueue, Queue, Pos
<1>2. initqueue.NumOfElements = 0 /\ initqueue.last = 0 /\ initqueue.first = 0
  BY DEF initqueue
<1>3. Contents(initqueue) \in Seq(Cell) /\ Len(Contents(initqueue)) = 0
  BY <1>1, <1>2, ContentsType
<1>4. Contents(initqueue) = <<>>
  BY <1>3, EmptySeq
<1>5. WellFormed(initqueue)
  BY <1>2, QueueAssumption DEF WellFormed, After
<1>. QED
  BY <1>1, <1>2, <1>4, <1>5

(* Loading a file fills the queue with what is in it, in that order,       *)
(* whether or not the dump that wrote it came to an end.                   *)
LEMMA UndumpContents ==
  ASSUME NEW f, FileOK(f)
  PROVE  LET r == undumpqueue(f)
         IN r \in Queue /\ WellFormed(r) /\ Contents(r) = f.body
<1> DEFINE n == Len(f.body)
           r == undumpqueue(f)
<1>1. /\ f.exists \in BOOLEAN /\ f.count \in -1 .. MyMaxElements
      /\ f.body \in Seq(Messages) /\ f.whole \in BOOLEAN
      /\ MyMaxElements \in Nat /\ MyMaxElements >= 1
  BY QueueAssumption DEF FileOK, Files
<1>2. n \in Nat /\ n <= MyMaxElements
  BY <1>1 DEF FileOK
<1>3. ~ \E i \in DOMAIN f.body : f.body[i] \in Oversize
  BY DEF FileOK, Fits
<1>4. CASE ~f.exists
  <2>1. undumpReturn(f) = 1
    BY <1>1, <1>4, <1>3 DEF undumpReturn
  <2>2. r = initqueue
    BY <2>1 DEF undumpqueue
  <2>. QED
    BY <1>4, <2>2, InitQueue DEF FileOK
<1>5. CASE f.exists
  <2>1. undumpReturn(f) \in {0, -1}
    BY <1>1, <1>5, <1>3 DEF undumpReturn
  <2>2. r = [pQE |-> [i \in Pos |-> IF i < n THEN f.body[i + 1] ELSE NULL],
             first |-> 0, NumOfElements |-> n,
             last |-> IF n = MyMaxElements THEN 0 ELSE n]
    BY <2>1 DEF undumpqueue
  <2> HIDE DEF r
  <2>3. /\ r.first = 0 /\ r.NumOfElements = n
        /\ r.last = IF n = MyMaxElements THEN 0 ELSE n
        /\ \A i \in Pos : r.pQE[i] = IF i < n THEN f.body[i + 1] ELSE NULL
    BY <2>2
  <2>4. \A i \in 1 .. n : f.body[i] \in Messages
    BY <1>1
  <2>5. [i \in Pos |-> IF i < n THEN f.body[i + 1] ELSE NULL] \in [Pos -> Cell]
    BY <1>2, <2>4 DEF Pos, Cell
  <2>6. r \in Queue
    BY <1>1, <1>2, <2>2, <2>5 DEF Queue, Cell, Pos
  <2>7. \A i \in 1 .. n : Contents(r)[i] = f.body[i]
    <3> SUFFICES ASSUME NEW i \in 1 .. n
                 PROVE  Contents(r)[i] = f.body[i]
      OBVIOUS
    <3>1. Contents(r)[i] = r.pQE[After(r, i - 1)]
      BY <2>3, <2>6, ContentsType
    <3>2. After(r, i - 1) = i - 1 /\ i - 1 \in Pos /\ i - 1 < n /\ (i - 1) + 1 = i
      BY <1>1, <1>2, <2>3 DEF After, Pos
    <3>. QED
      BY <2>3, <3>1, <3>2
  <2>8. WellFormed(r)
    <3>1. r.last = After(r, r.NumOfElements)
      BY <1>1, <1>2, <2>3 DEF After
    <3>2. \A i \in 1 .. n : Contents(r)[i] # NULL
      BY <2>4, <2>7, QueueAssumption
    <3>. QED
      BY <2>3, <3>1, <3>2 DEF WellFormed
  <2>9. Contents(r) \in Seq(Messages) /\ Len(Contents(r)) = n
    BY <2>3, <2>6, <2>8, ContentsMessages
  <2>10. Contents(r) = f.body
    BY <1>1, <2>7, <2>9, SeqEqual
  <2>. QED
    BY <2>6, <2>8, <2>10 DEF r
<1>. QED
  BY <1>1, <1>4, <1>5

(* Each write of a dump leaves the file a part of the queue, and the last  *)
(* one finds all of the queue written.                                     *)
LEMMA DumpNextPart ==
  ASSUME NEW q \in Queue, WellFormed(q), Fits(Contents(q)),
         NEW f, FileOK(f), PartOf(f, q)
  PROVE  LET g == DumpNext(q, f)
         IN /\ FileOK(g)
            /\ ~g.whole => PartOf(g, q)
            /\ g.whole => g.body = Contents(q)
            /\ Len(g.body) <= q.NumOfElements
            /\ \A i \in 1 .. Len(g.body) : g.body[i] = Contents(q)[i]
<1> DEFINE g == DumpNext(q, f)
           c == Contents(q)
           n == q.NumOfElements
<1>1. /\ f.exists = TRUE /\ f.whole = FALSE /\ f.count \in -1 .. MyMaxElements
      /\ f.body \in Seq(Messages) /\ f \in Files
      /\ Len(f.body) <= n /\ f.count \in {-1, n}
      /\ f.count = -1 => f.body = <<>>
      /\ \A i \in 1 .. Len(f.body) : f.body[i] = c[i]
  BY DEF FileOK, Files, PartOf
<1>2. c \in Seq(Messages) /\ Len(c) = n /\ n \in 0 .. MyMaxElements
      /\ \A i \in 1 .. n : c[i] \in Messages \ Oversize
  BY ContentsMessages DEF Fits
<1>3. CASE f.count = -1
  <2>1. g = [f EXCEPT !.count = n]
    BY <1>3 DEF DumpNext
  <2>2. g \in Files /\ g.body = <<>> /\ g.count = n /\ g.exists = TRUE /\ g.whole = FALSE
    BY <1>1, <1>2, <1>3, <2>1 DEF Files
  <2>. QED
    BY <1>2, <2>2 DEF FileOK, PartOf, Fits
<1>4. CASE f.count # -1 /\ Len(f.body) < n
  <2> DEFINE b == Append(f.body, c[Len(f.body) + 1])
  <2>1. g = [f EXCEPT !.body = Append(@, c[Len(@) + 1])]
    BY <1>4 DEF DumpNext
  <2>2. g = [f EXCEPT !.body = b]
    BY <1>1, <2>1 DEF Files
  <2>3. Len(f.body) \in Nat /\ Len(f.body) + 1 \in 1 .. n
    BY <1>1, <1>2, <1>4
  <2>4. /\ b \in Seq(Messages) /\ Len(b) = Len(f.body) + 1
        /\ \A i \in 1 .. Len(b) : b[i] = c[i]
    BY <1>1, <1>2, <2>3
  <2> HIDE DEF b
  <2>5. g \in Files /\ g.body = b /\ g.count = n /\ g.exists = TRUE /\ g.whole = FALSE
    BY <1>1, <1>4, <2>2, <2>4 DEF Files
  <2>6. \A i \in DOMAIN b : b[i] \in Messages \ Oversize
    BY <1>2, <2>3, <2>4
  <2>. QED
    BY <1>2, <2>3, <2>4, <2>5, <2>6 DEF FileOK, PartOf, Fits
<1>5. CASE f.count # -1 /\ ~(Len(f.body) < n)
  <2>1. g = [f EXCEPT !.whole = TRUE]
    BY <1>5 DEF DumpNext
  <2>2. g \in Files /\ g.body = f.body /\ g.count = n /\ g.exists = TRUE /\ g.whole = TRUE
    BY <1>1, <1>5, <2>1 DEF Files
  <2>3. Len(f.body) = n
    BY <1>1, <1>2, <1>5
  <2>4. f.body = c
    BY <1>1, <1>2, <2>3, SeqEqual
  <2>. QED
    BY <1>2, <2>2, <2>3, <2>4 DEF FileOK, Fits
<1>. QED
  BY <1>3, <1>4, <1>5
=============================================================================
