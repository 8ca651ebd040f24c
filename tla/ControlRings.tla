---------------------------- MODULE ControlRings ----------------------------
(***************************************************************************)
(* What startstop, statmgr, ew_controller and the modules share: the       *)
(* processes of the system and the control messages on the rings.  A ring  *)
(* behaves as RingLog does for a reader that keeps up: each reader gets    *)
(* each message of the types it asks for once, in the order of the puts to *)
(* that ring; between two rings there is no order.                         *)
(***************************************************************************)
EXTENDS Integers, Sequences

CONSTANTS
  MaxChild,  \* bound: entries of startstop's command file
  MaxPid,    \* bound: processes forked in a behaviour
  Readers,   \* which of startstop, statmgr, ew_controller there are
  Rings,     \* the transport rings
  OpRing,    \* the ring operators send their requests to
  BeatRing,  \* the ring modules put their heartbeats into
  Heard,     \* the rings statmgr gets messages from
  LastRing   \* the one of them it polls last, and sends its requests to

ASSUME ControlAssumption ==
  /\ MaxChild \in Nat /\ MaxPid \in Nat
  /\ Readers \subseteq {"startstop", "statmgr", "ew_controller"}
  /\ {OpRing, BeatRing} \subseteq Rings
  /\ Heard \subseteq Rings /\ LastRing \in Heard

VARIABLES
  proc,   \* processes: "none" (never forked, or reaped), "running", "zombie"
  owner,  \* the entry of the command file whose program a process runs
  flag,   \* TERMINATE is in the header of the rings
  inbox   \* for each reader and ring, the messages it has not got yet

Children == 1 .. MaxChild
Pids == 1 .. MaxPid

\* pid_t values an entry of child[] can hold: 0 before the first fork, -1
\* after a fork that failed.
PidValues == -1 .. MaxPid

\* a row of a status: the name is that of the entry's program
Row == [name : Children, pid : PidValues,
        word : {"Alive", "Zombie", "Stop", "Dead"}]

Messages ==
  [type : {"restart", "stop"}, pid : PidValues]
    \cup [type : {"reqstatus", "reconfig"}]
    \cup [type : {"heartbeat"}, mod : Children, pid : Pids]
    \cup [type : {"status"}, rows : Seq(Row)]

RingsTypeOK ==
  /\ proc \in [Pids -> {"none", "running", "zombie"}]
  /\ owner \in [Pids -> Children]
  /\ flag \in BOOLEAN
  /\ inbox \in [Readers -> [Rings -> Seq(Messages)]]

Wants(reader) ==
  CASE reader = "startstop" -> {"restart", "stop", "reqstatus", "reconfig"}
    [] reader = "statmgr" -> {"heartbeat", "restart", "stop"}
    [] reader = "ew_controller" -> {"status"}

Polls(reader) ==
  CASE reader = "startstop" -> Rings
    [] reader = "statmgr" -> Heard
    [] reader = "ew_controller" -> {OpRing}

Put(boxes, ring, m) ==
  [reader \in Readers |->
    IF m.type \in Wants(reader) /\ ring \in Polls(reader)
      THEN [boxes[reader] EXCEPT ![ring] = Append(@, m)]
      ELSE boxes[reader]]

Got(reader, ring) == [inbox EXCEPT ![reader][ring] = Tail(@)]

Available(reader, ring) ==
  /\ ring \in Polls(reader)
  /\ inbox[reader][ring] # <<>>

Next1(reader, ring) == Head(inbox[reader][ring])

Running(i) == \E p \in Pids : proc[p] = "running" /\ owner[p] = i

Unread(reader) == UNION {{inbox[reader][r][k] : k \in DOMAIN inbox[reader][r]}
                           : r \in Rings}
=============================================================================
