------------------------------ MODULE DropFifo ------------------------------
(***************************************************************************)
(* What a queue of mem_circ_queue.c promises its users: first in, first    *)
(* out, at most Capacity messages, and when it is full a new message takes *)
(* the place of the oldest one, which is counted as dropped.               *)
(***************************************************************************)
EXTENDS Naturals, Sequences

CONSTANTS
  Messages,  \* what can be queued
  Capacity   \* MyMaxElements

VARIABLES
  pending,   \* the queued messages, oldest first
  taken,     \* what the consumer was handed so far
  dropped    \* how many messages made room for a newer one

vars == <<pending, taken, dropped>>

Init ==
  /\ pending = <<>>
  /\ taken = <<>>
  /\ dropped = 0

Add(m) ==
  /\ Len(pending) < Capacity
  /\ pending' = Append(pending, m)
  /\ UNCHANGED <<taken, dropped>>

Overwrite(m) ==
  /\ Len(pending) = Capacity
  /\ pending' = Append(Tail(pending), m)
  /\ dropped' = dropped + 1
  /\ UNCHANGED taken

(* A message the queue has no room for at all, because it is too long.     *)
Refuse ==
  /\ dropped' = dropped + 1
  /\ UNCHANGED <<pending, taken>>

Take ==
  /\ pending # <<>>
  /\ taken' = Append(taken, Head(pending))
  /\ pending' = Tail(pending)
  /\ UNCHANGED dropped

Next ==
  \/ \E m \in Messages : Add(m) \/ Overwrite(m)
  \/ Refuse
  \/ Take

Spec == Init /\ [][Next]_vars
=============================================================================
