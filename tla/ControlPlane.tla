---------------------------- MODULE ControlPlane ----------------------------
(***************************************************************************)
(* startstop, statmgr, the modules they look after and an operator,        *)
(* composed over the rings they exchange messages through.                 *)
(***************************************************************************)
EXTENDS StartStop, StatMgr

CONSTANTS
  Asked,      \* what operators ask for: types of messages, "pau", "quit"
  MaxOrders,  \* bound: requests of operators in a behaviour
  MaxDeaths   \* bound: processes that end without being asked to

ASSUME PlaneAssumption ==
  /\ {"startstop", "statmgr"} \subseteq Readers
  /\ MaxOrders \in Nat /\ MaxDeaths \in Nat

VARIABLES
  orders,  \* requests of operators so far
  deaths,  \* crashes so far
  halted   \* history: "asked" for a module an operator asked to stop, and
           \* "calm" if nothing else was under way for it then; "no" again
           \* when an operator asks for a restart or statmgr ends, which
           \* forgets

envVars == <<orders, deaths, halted>>

vars == <<proc, owner, flag, inbox, child, nChild, next, ss, report,
          desc, sm, orders, deaths, halted>>

Init ==
  /\ proc = [p \in Pids |-> "none"]
  /\ owner = [p \in Pids |-> 1]
  /\ flag = FALSE
  /\ inbox = [reader \in Readers |-> [r \in Rings |-> <<>>]]
  /\ SsInit /\ SmInit
  /\ orders = 0 /\ deaths = 0
  /\ halted = [m \in Children |-> "no"]

(* Types: child[] holds pids it was given, statmgr's index over desc[] and *)
(* startstop's over child[] stay inside them.                              *)
TypeOK ==
  /\ RingsTypeOK /\ SsTypeOK /\ SmTypeOK
  /\ orders \in 0 .. MaxOrders /\ deaths \in 0 .. MaxDeaths
  /\ halted \in [Children -> {"no", "asked", "calm"}]

-----------------------------------------------------------------------------
(* The modules.                                                            *)

(* A heartbeat; bound: one of a module is unread at a time.  A statmgr     *)
(* that is not up would throw it away when it attaches.                    *)
Beat(p) ==
  /\ proc[p] = "running" /\ owner[p] \in Monitored
  /\ SmUp
  /\ \A m \in Unread("statmgr") :
       ~(m.type = "heartbeat" /\ m.mod = owner[p])
  /\ inbox' = Put(inbox, BeatRing,
                  [type |-> "heartbeat", mod |-> owner[p], pid |-> p])
  /\ UNCHANGED <<proc, owner, flag, ssVars, smVars, envVars>>

NoneHalted == [m \in Children |-> "no"]

Ended(p) ==
  /\ proc[p] = "running"
  /\ proc' = [proc EXCEPT ![p] = "zombie"]
  /\ halted' = IF owner[p] = Statmgr THEN NoneHalted ELSE halted
  /\ UNCHANGED <<owner, flag, inbox, ssVars, smVars, orders>>

(* A process ends by itself, or its exec failed.                           *)
Die(p) ==
  /\ deaths < MaxDeaths
  /\ deaths' = deaths + 1
  /\ Ended(p)

(* It sees TERMINATE, or gets SIGTERM.                                     *)
Leave(p) ==
  /\ flag \/ ss.pc = "wait"
  /\ Ended(p)
  /\ UNCHANGED deaths

-----------------------------------------------------------------------------
(* Operators: the programs restart, stopmodule, status, reconfigure, pau   *)
(* and the console.  The pids they know are those startstop showed them.   *)

Ask(m) ==
  /\ orders < MaxOrders
  /\ m.type \in Asked
  /\ orders' = orders + 1
  /\ inbox' = Put(inbox, OpRing, m)

KnownPids == {child[i].pid : i \in Entries} \ {0}

(* Nothing else is under way for module m: startstop and statmgr both wait *)
(* for messages, know the same process of m, which runs, and no restart of *)
(* it is on its way; both find the operator's request in the same ring.    *)
Calm(m) ==
  /\ SmUp /\ sm.pc = "get" /\ ss.pc = "poll"
  /\ OpRing = LastRing
  /\ desc[m].restart = "restartme"
  /\ desc[m].pid = child[m].pid /\ child[m].pid \in Pids
  /\ proc[child[m].pid] = "running"
  /\ [type |-> "restart", pid |-> child[m].pid] \notin Unread("startstop")

OpStop(m) ==
  /\ child[m].pid \in KnownPids
  /\ Ask([type |-> "stop", pid |-> child[m].pid])
  /\ halted' = [halted EXCEPT ![m] = IF Calm(m) THEN "calm" ELSE "asked"]
  /\ UNCHANGED <<proc, owner, flag, ssVars, smVars, deaths>>

OpRestart(m) ==
  /\ child[m].pid \in KnownPids
  /\ Ask([type |-> "restart", pid |-> child[m].pid])
  /\ halted' = [halted EXCEPT ![m] = "no"]
  /\ UNCHANGED <<proc, owner, flag, ssVars, smVars, deaths>>

OpRequest(type) ==
  /\ Ask([type |-> type])
  /\ UNCHANGED <<proc, owner, flag, ssVars, smVars, deaths, halted>>

Pau ==
  /\ "pau" \in Asked
  /\ orders < MaxOrders
  /\ orders' = orders + 1
  /\ flag' = TRUE
  /\ UNCHANGED <<proc, owner, inbox, ssVars, smVars, deaths, halted>>

-----------------------------------------------------------------------------
StartStopStep ==
  /\ SsStep
  /\ halted' = IF Running(Statmgr) /\ ~Running(Statmgr)'
                 THEN NoneHalted ELSE halted
  /\ UNCHANGED <<smVars, orders, deaths>>

StatMgrStep == SmStep(Statmgr) /\ UNCHANGED <<ssVars, envVars>>

QuitStep ==
  /\ "quit" \in Asked
  /\ orders < MaxOrders /\ orders' = orders + 1
  /\ Quit /\ UNCHANGED <<smVars, deaths, halted>>

Next ==
  \/ StartStopStep \/ StatMgrStep \/ QuitStep
  \/ \E p \in Pids : Beat(p) \/ Die(p) \/ Leave(p)
  \/ \E m \in Children : OpStop(m) \/ OpRestart(m)
  \/ \E type \in {"reqstatus", "reconfig"} : OpRequest(type)
  \/ Pau

Spec == Init /\ [][Next]_vars

(* startstop and statmgr loop for ever.  statmgr empties its rings faster  *)
(* than modules fill them, and sees time pass: that a module is dead does  *)
(* not escape it for ever.  Each sweep of startstop looks at the flag      *)
(* first.  A module looks at the flag, or is ended by SIGTERM.             *)
DeadIsLate(m) == ~Running(m) /\ Late(m) /\ UNCHANGED <<proc, owner, flag>>

Fairness ==
  /\ WF_vars(StartStopStep)
  /\ SF_vars(StartStopStep /\ SeeFlag)
  /\ WF_vars(StatMgrStep)
  /\ SF_vars(StatMgrStep /\ Quiet)
  /\ \A m \in Children :
       SF_vars(StatMgrStep /\ DeadIsLate(m))
  /\ \A p \in Pids : WF_vars(Leave(p))

FairSpec == Spec /\ Fairness

-----------------------------------------------------------------------------
(* Safety.                                                                 *)

(* No module has two live processes: neither a restart that statmgr and an *)
(* operator both asked for, nor a reconfigure, nor a request that names a  *)
(* process long gone, starts a second one beside it (RestartChild).        *)
OneProcess ==
  \A p, q \in Pids :
    proc[p] = "running" /\ proc[q] = "running" /\ owner[p] = owner[q] => p = q

Starts(m) == ~Running(m) /\ Running(m)'

(* A module an operator stopped while nothing else was under way for it is *)
(* not started again, though its heartbeats cease (statmgr marks it        *)
(* STOPPED), until an operator asks for it or statmgr itself is replaced   *)
(* and forgets.  One ring: with two, statmgr may find it dead first.       *)
StaysStopped == [][\A m \in Children : halted[m] = "calm" => ~Starts(m)]_vars

(* startstop carried out the stop, and no operator asked for a restart.    *)
StoppedByOperator(m) ==
  ss.pc = "poll" /\ child[m].status = "Stopped" /\ halted[m] # "no"

(* Once a stop was carried out, startstop does not start the module again  *)
(* by itself or for statmgr, whatever was under way when it was asked      *)
(* (stopmodule: "statmgr should not restart it").                          *)
StopHolds ==
  [][\A m \in Children :
       StoppedByOperator(m) => ~(ss'.pc = "fork" /\ ss'.idx = m)]_vars

(* What startstop says of a reconfigure ("Even if this new GetConfig       *)
(* returns an error, we don't want to bail out on our running earthworm"): *)
(* when it has ended itself, no process it ever forked is left, neither    *)
(* alive nor a zombie.  Not kept: GetConfig exits.                         *)
NoOrphans == ss.pc \in {"exited", "bailed"} => \A p \in Pids : proc[p] = "none"

-----------------------------------------------------------------------------
(* Liveness.                                                               *)

Lost(m) ==
  /\ SmUp /\ ~Running(m)
  /\ desc[m].alive /\ desc[m].restart = "restartme"
  /\ desc[m].pid = child[m].pid

(* bound: startstop would fork one process more                            *)
OutOfPids == ss.pc \in {"start", "spawn", "fork"} /\ next > MaxPid

(* A module with restartMe that is dead, and whose process statmgr and     *)
(* startstop agree on, runs again, unless somebody stops it, statmgr dies  *)
(* or the system ends: the one request statmgr makes per death is enough.  *)
Restarted ==
  \A m \in RestartMe :
    Lost(m) ~> (Running(m) \/ desc[m].restart = "stopped" \/ ~SmUp \/ flag
                  \/ OutOfPids)

(* Once the flag is up startstop ends: no child that ignores it, is forked *)
(* late or was reaped elsewhere keeps it waiting for ever (KillDelay, then *)
(* SIGTERM).                                                               *)
ShutsDown == flag ~> (ss.pc = "exited" \/ OutOfPids)
=============================================================================
