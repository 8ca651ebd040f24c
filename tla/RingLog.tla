------------------------------ MODULE RingLog ------------------------------
(***************************************************************************)
(* What a transport ring promises, without the ring: a log of messages of  *)
(* which only the newest fit in the region.  A putter appends, the oldest  *)
(* messages are dropped when a new one needs their room, and each getter   *)
(* is handed messages that are still in the log, every logo in the order   *)
(* in which it was put and no message twice.                               *)
(***************************************************************************)
EXTENDS Naturals, Sequences, FiniteSets

CONSTANTS
  Logos,     \* the message logos (type, module, installation)
  Getters,   \* the processes that read
  Sizes,     \* the sizes a message can have, header included
  Capacity   \* usable bytes of the region

VARIABLES
  log,       \* every message published so far, oldest first
  first,     \* how many of them have been dropped
  cur        \* cur[g][l]: the last message of logo l handed to getter g

vars == <<log, first, cur>>

Message == [logo : Logos, size : Sizes, at : Nat]

(* The stream offset just after the last published message.                *)
End == IF log = <<>> THEN 0 ELSE log[Len(log)].at + log[Len(log)].size

(* Bytes held by the messages that have not been dropped.                  *)
Held == IF first = Len(log) THEN 0 ELSE End - log[first + 1].at

Init ==
  /\ log = <<>>
  /\ first = 0
  /\ cur = [g \in Getters |-> [l \in Logos |-> 0]]

Publish(m) ==
  /\ m.at = End
  /\ Held + m.size <= Capacity
  /\ log' = Append(log, m)
  /\ UNCHANGED <<first, cur>>

(* The oldest message goes only to make room for one that does not fit.    *)
Drop ==
  /\ first < Len(log)
  /\ \E n \in Sizes : Held + n > Capacity
  /\ first' = first + 1
  /\ UNCHANGED <<log, cur>>

Deliver(g, k) ==
  /\ k > cur[g][log[k].logo]
  /\ cur' = [cur EXCEPT ![g][log[k].logo] = k]
  /\ UNCHANGED <<log, first>>

Next ==
  \/ \E l \in Logos, n \in Sizes : Publish([logo |-> l, size |-> n, at |-> End])
  \/ Drop
  \/ \E g \in Getters : \E k \in first + 1 .. Len(log) : Deliver(g, k)

Spec == Init /\ [][Next]_vars
=============================================================================
