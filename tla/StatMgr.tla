------------------------------- MODULE StatMgr -------------------------------
(***************************************************************************)
(* statmgr: follows the heartbeats of the modules, and asks startstop for  *)
(* a restart when those of a module with restartMe cease, unless somebody  *)
(* stopped it.  What it knows is gone when its process ends.               *)
(*                                                                         *)
(* There is no clock: a module that is checked may be found late, because  *)
(* it is dead, hangs, or is slow.                                          *)
(***************************************************************************)
EXTENDS ControlRings

CONSTANTS
  Monitored,  \* the entries with a descriptor and a heartbeat interval
  RestartMe,  \* those of them whose descriptor says restartMe
  MaxUnread   \* bound: messages startstop has not got when a module is late

ASSUME MonitorAssumption ==
  /\ Monitored \subseteq Children /\ RestartMe \subseteq Monitored
  /\ MaxUnread \in Nat

VARIABLES
  desc,  \* desc[]: restart, hbeat.alive, modPid (0 when none is known)
  sm     \* process that runs statmgr, program counter, entry it checks

smVars == <<desc, sm>>

Descriptor ==
  [restart : {"never", "restartme", "unknownpid", "stopped"},
   alive : BOOLEAN, pid : {0} \cup Pids]

SmTypeOK ==
  /\ desc \in [Children -> Descriptor]
  /\ sm \in [pid : {0} \cup Pids, pc : {"get", "chores"},
             j : 1 .. MaxChild + 1]

FirstDesc ==
  [m \in Children |->
     [restart |-> IF m \in RestartMe THEN "unknownpid" ELSE "never",
      alive |-> TRUE, pid |-> 0]]

Attached_FromZero(p) ==   \* mutant: starts one before the first
  [pid |-> p, pc |-> "get", j |-> 0]

Attached(p) == [pid |-> p, pc |-> "get", j |-> 1]

SmInit ==
  /\ desc = FirstDesc
  /\ sm = Attached(0)

SmUp == sm.pid \in Pids /\ proc[sm.pid] = "running"

SmPoll(ring) == SmUp /\ sm.pc = "get" /\ Available("statmgr", ring)

-----------------------------------------------------------------------------
(* A new process of entry i: it reads its descriptors, and throws away     *)
(* what is in the rings it attaches to.                                    *)
Boot(i) ==
  /\ \E p \in Pids : /\ proc[p] = "running" /\ owner[p] = i /\ sm.pid # p
                     /\ sm' = Attached(p)
  /\ desc' = FirstDesc
  /\ inbox' = [inbox EXCEPT !["statmgr"] = [r \in Rings |-> <<>>]]

(* A heartbeat tells the pid, and that the module is alive.                *)
Beaten(d, pid) ==
  [d EXCEPT !.pid = pid, !.alive = TRUE,
            !.restart = IF @ = "unknownpid" THEN "restartme" ELSE @]

HeartBeat(ring) ==
  /\ SmPoll(ring)
  /\ LET m == Next1("statmgr", ring) IN
       /\ m.type = "heartbeat"
       /\ desc' = IF m.mod \in Monitored
                    THEN [desc EXCEPT ![m.mod] = Beaten(@, m.pid)]
                    ELSE desc
  /\ inbox' = Got("statmgr", ring)
  /\ UNCHANGED sm

(* A stop or restart, of whoever it is, changes the mark of the module     *)
(* with that pid.                                                          *)
Marked(d, type) ==
  [d EXCEPT !.restart =
     IF type = "stop" /\ @ = "restartme" THEN "stopped"
     ELSE IF type = "restart" /\ @ = "stopped" THEN "restartme" ELSE @]

SeeOrder(ring) ==
  /\ SmPoll(ring)
  /\ LET m == Next1("statmgr", ring) IN
       /\ m.type \in {"stop", "restart"}
       /\ desc' = [i \in Children |-> IF desc[i].pid = m.pid
                                        THEN Marked(desc[i], m.type)
                                        ELSE desc[i]]
  /\ inbox' = Got("statmgr", ring)
  /\ UNCHANGED sm

-----------------------------------------------------------------------------
NothingLeft_Ignored == TRUE   \* mutant: chores even with messages to get

NothingLeft == inbox["statmgr"][LastRing] = <<>>

(* The ring polled last is empty: statmgr goes through its descriptors.    *)
Quiet ==
  /\ SmUp /\ sm.pc = "get"
  /\ NothingLeft
  /\ sm' = [sm EXCEPT !.pc = "chores", !.j = 1]
  /\ UNCHANGED <<desc, inbox>>

Request(m) == [type |-> "restart", pid |-> desc[m].pid]

(* The heartbeats of a module ceased; those before it are not late, or     *)
(* were reported before.  When its pid is not known yet, the rest of the   *)
(* descriptors is left for another time.                                   *)
Late(m) ==
  /\ SmUp /\ sm.pc = "chores"
  /\ m \in Monitored /\ sm.j <= m
  /\ desc[m].alive
  /\ Len(inbox["startstop"][LastRing]) <= MaxUnread
  /\ desc' = [desc EXCEPT ![m].alive = FALSE]
  /\ sm' = IF desc[m].restart = "unknownpid"
             THEN [sm EXCEPT !.pc = "get"]
             ELSE [sm EXCEPT !.j = m + 1]
  /\ inbox' = IF desc[m].restart = "restartme"
                THEN Put(inbox, LastRing, Request(m))
                ELSE inbox

(* None of the rest is late.                                               *)
Rested ==
  /\ SmUp /\ sm.pc = "chores"
  /\ sm' = [sm EXCEPT !.pc = "get"]
  /\ UNCHANGED <<desc, inbox>>

SmStep(i) ==
  /\ \/ Boot(i)
     \/ \E r \in Rings : HeartBeat(r) \/ SeeOrder(r)
     \/ Quiet \/ Rested
     \/ \E m \in Children : Late(m)
  /\ UNCHANGED <<proc, owner, flag>>
=============================================================================
