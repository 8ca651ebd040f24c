---------------------------- MODULE MemCircQueue ----------------------------
(***************************************************************************)
(* The circular memory queue of libsrc/util/mem_circ_queue.c, as operators *)
(* on the QUEUE structure, for the modules that model its users.  enqueue  *)
(* and dequeue are each given in two halves, the copy of the message and   *)
(* the moves of the positions, because a thread that did not hold the      *)
(* users' mutex could come between the two.                                *)
(***************************************************************************)
EXTENDS Integers, Sequences

CONSTANTS
  MyMaxElements,  \* number of entries of the queue
  Messages,       \* the messages users queue
  Oversize,       \* those longer than MyMaxSize
  NULL            \* no message; also what an entry holds before its first use

ASSUME QueueAssumption ==
  /\ MyMaxElements \in Nat \ {0}
  /\ Oversize \subseteq Messages
  /\ NULL \notin Messages

Pos == 0 .. MyMaxElements - 1

Queue ==
  [pQE : [Pos -> Messages \cup {NULL}], first : Pos, last : Pos,
   NumOfElements : 0 .. MyMaxElements]

initqueue ==
  [pQE |-> [i \in Pos |-> NULL], first |-> 0, last |-> 0, NumOfElements |-> 0]

(* Mutant: the wrap comes one entry late.                                  *)
inc_circular_Late(p) == IF p + 1 > MyMaxElements THEN 0 ELSE p + 1

inc_circular(p) == IF p + 1 >= MyMaxElements THEN 0 ELSE p + 1

(* The position i entries after the oldest.                                *)
After(q, i) ==
  IF q.first + i >= MyMaxElements THEN q.first + i - MyMaxElements
                                  ELSE q.first + i

(* The queued messages, oldest first: the loop of dumpqueue.               *)
Contents(q) == [i \in 1 .. q.NumOfElements |-> q.pQE[After(q, i - 1)]]

Full(q) == q.NumOfElements = MyMaxElements

(* last is where the next message goes, one past the youngest, and every   *)
(* entry from first up to it holds a message.                              *)
WellFormed(q) ==
  /\ q.last = After(q, q.NumOfElements)
  /\ \A i \in 1 .. q.NumOfElements : Contents(q)[i] # NULL

-----------------------------------------------------------------------------
(* enqueue.                                                                *)

EnqueueCopy(q, x) == [q EXCEPT !.pQE[q.last] = x]

EnqueueLink(q) ==
  IF Full(q)
  THEN [q EXCEPT !.last = inc_circular(@), !.first = inc_circular(@)]
  ELSE [q EXCEPT !.last = inc_circular(@), !.NumOfElements = @ + 1]

enqueue(q, x) == IF x \in Oversize THEN q ELSE EnqueueLink(EnqueueCopy(q, x))

(* Mutant: an overwrite is not reported.                                   *)
enqueueReturn_Silent(q, x) == IF x \in Oversize THEN -1 ELSE 0

enqueueReturn(q, x) ==
  CASE x \in Oversize -> -1
    [] x \notin Oversize /\ Full(q) -> -3
    [] x \notin Oversize /\ ~Full(q) -> 0

(* dequeue and peekNextElement.  Users see NULL for an empty queue.        *)

peekNextElement(q) == IF q.NumOfElements > 0 THEN q.pQE[q.first] ELSE NULL

DequeueLink(q) ==
  [q EXCEPT !.first = inc_circular(@), !.NumOfElements = @ - 1]

-----------------------------------------------------------------------------
(* The dump file.  "count" is NumOfElements at its head, -1 while the      *)
(* stamp and the count are not both written; "body" the entries written;   *)
(* "whole" whether the second stamp follows.  All stamps of one file are   *)
(* the same value, since opening the file truncates it.                    *)

NoFile == [exists |-> FALSE, count |-> -1, body |-> <<>>, whole |-> FALSE]

Truncated == [NoFile EXCEPT !.exists = TRUE]

(* The next item dumpqueue writes to a file that is not whole.             *)
DumpNext(q, file) ==
  IF file.count = -1 THEN [file EXCEPT !.count = q.NumOfElements]
  ELSE IF Len(file.body) < q.NumOfElements
  THEN [file EXCEPT !.body = Append(@, Contents(q)[Len(@) + 1])]
  ELSE [file EXCEPT !.whole = TRUE]

undumpReturn(file) ==
  CASE ~file.exists -> 1
    [] file.exists /\ file.count = -1 -> -1
    [] file.count > MyMaxElements -> -2
    [] /\ file.count \in 0 .. MyMaxElements
       /\ \E i \in DOMAIN file.body : file.body[i] \in Oversize -> -3
    [] OTHER -> IF file.whole THEN 0 ELSE -1

(* Mutant: last is not wrapped when the file fills the queue.              *)
undumpqueue_NoWrap(file) ==
  LET n == Len(file.body)
  IN [pQE |-> [i \in Pos |-> IF i < n THEN file.body[i + 1] ELSE NULL],
      first |-> 0, NumOfElements |-> n, last |-> n]

(* What the reads put into the empty queue before undumpqueue returns; a   *)
(* file that ends early leaves the entries read so far.                    *)
undumpqueue(file) ==
  IF undumpReturn(file) \notin {0, -1} THEN initqueue
  ELSE LET n == Len(file.body)
       IN [pQE |-> [i \in Pos |-> IF i < n THEN file.body[i + 1] ELSE NULL],
           first |-> 0, NumOfElements |-> n,
           last |-> IF n = MyMaxElements THEN 0 ELSE n]
=============================================================================
