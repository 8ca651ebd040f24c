------------------------------ MODULE StartStop ------------------------------
(***************************************************************************)
(* startstop on Linux (startstop_unix_generic.c with _UNIX): it forks the  *)
(* processes of its command file, stops and restarts them on request,      *)
(* answers status requests, re-reads the file, and ends the system.        *)
(*                                                                         *)
(* One message is one step, but for the forks, which may fail, and the     *)
(* rows of a status: other processes come and go between them.  SIGKILL    *)
(* and the waitpid that follows are one step: nobody can see a process     *)
(* between the two.                                                        *)
(***************************************************************************)
EXTENDS ControlRings

CONSTANTS
  FirstChildren,  \* entries of the command file when startstop starts
  Statmgr,        \* the entry that is statmgr
  ForkFails,      \* whether fork may fail
  BadConfig       \* whether the file may be wrong at a reconfigure

ASSUME StartAssumption ==
  /\ FirstChildren \in Children
  /\ Statmgr \in Children
  /\ ForkFails \in BOOLEAN /\ BadConfig \in BOOLEAN

VARIABLES
  child,   \* child[]: pid and status of each entry
  nChild,  \* entries read so far
  next,    \* the pid the next fork returns
  ss,      \* program counter of startstop, entry it works on
  report   \* the status under way: ring it goes to, rows written so far

ssVars == <<child, nChild, next, ss, report>>

Child == [pid : PidValues, status : {"", "Alive", "Stopped"}]

SsTypeOK ==
  /\ child \in [Children -> Child]
  /\ nChild \in Children
  /\ next \in 1 .. MaxPid + 1
  /\ ss \in [pc : {"start", "poll", "fork", "spawn", "status", "grace",
                   "wait", "exited", "bailed", "killed"},
             idx : 1 .. MaxChild + 1]
  /\ report \in [ring : Rings, rows : Seq(Row)]

SsInit ==
  /\ child = [i \in Children |-> [pid |-> 0, status |-> ""]]
  /\ nChild = FirstChildren
  /\ next = 1
  /\ ss = [pc |-> "start", idx |-> 1]
  /\ report = [ring |-> OpRing, rows |-> <<>>]

Entries == 1 .. nChild

-----------------------------------------------------------------------------
(* StartChild.                                                             *)

Forked(i) ==
  /\ next <= MaxPid
  /\ proc' = [proc EXCEPT ![next] = "running"]
  /\ owner' = [owner EXCEPT ![next] = i]
  /\ child' = [child EXCEPT ![i] = [pid |-> next, status |-> "Alive"]]
  /\ next' = next + 1

ForkFailed(i) ==
  /\ ForkFails
  /\ child' = [child EXCEPT ![i].pid = -1]
  /\ UNCHANGED <<proc, owner, next>>

StartChild(i) == Forked(i) \/ ForkFailed(i)

Killed_Asked(pid) == proc   \* mutant: asked to end, and not waited for

(* StopChild for the pid of a message: SIGKILL and waitpid.  0 stands for  *)
(* the process group and -1 for every process, as they do in kill(2).      *)
Killed(pid) ==
  IF pid \in Pids THEN [proc EXCEPT ![pid] = "none"]
                  ELSE [p \in Pids |-> "none"]

StopChild(i) ==
  /\ proc' = Killed(child[i].pid)
  /\ child' = [child EXCEPT ![i].status = "Stopped"]
  /\ UNCHANGED <<owner, next>>

-----------------------------------------------------------------------------
(* StartEarthworm and, at a reconfigure, SpawnChildren, which leaves       *)
(* statmgr out because it is restarted when all others run.                *)
StartNext ==
  /\ ss.pc = "start" /\ ss.idx <= nChild
  /\ StartChild(ss.idx)
  /\ ss' = [ss EXCEPT !.idx = @ + 1]
  /\ UNCHANGED <<nChild, inbox, report, flag>>

Started ==
  /\ ss.pc = "start" /\ ss.idx > nChild
  /\ ss' = [ss EXCEPT !.pc = "poll", !.idx = 1]
  /\ UNCHANGED <<proc, owner, child, nChild, next, inbox, report, flag>>

SpawnNext ==
  /\ ss.pc = "spawn" /\ ss.idx <= nChild
  /\ IF ss.idx = Statmgr THEN UNCHANGED <<proc, owner, child, next>>
                         ELSE StartChild(ss.idx)
  /\ ss' = [ss EXCEPT !.idx = @ + 1]
  /\ UNCHANGED <<nChild, inbox, report, flag>>

AfterStop_NoStart(pid, again) ==   \* mutant: a restart is a stop
  IF pid = 0 THEN "killed" ELSE "poll"

AfterStop(pid, again) ==
  IF pid = 0 THEN "killed" ELSE IF again THEN "fork" ELSE "poll"

(* RestartChild and StopChild for a pid: the first entry that has it; a    *)
(* pid of no entry is reported and nothing else is done.                   *)
Order(pid, again) ==
  LET named == {i \in Entries : child[i].pid = pid} IN
  \/ /\ named = {}
     /\ ss' = [pc |-> "poll", idx |-> 1]
     /\ UNCHANGED <<proc, owner, child, next>>
  \/ \E i \in named :
       /\ \A j \in named : i <= j
       /\ StopChild(i)
       /\ ss' = [pc |-> AfterStop(pid, again), idx |-> i]

Spawned ==
  /\ ss.pc = "spawn" /\ ss.idx > nChild
  /\ Order(child[Statmgr].pid, TRUE)
  /\ UNCHANGED <<nChild, inbox, report, flag>>

-----------------------------------------------------------------------------
(* The loop over the rings: one message of one ring.                       *)
Polled(ring) == ss.pc = "poll" /\ Available("startstop", ring)

TakeOrder(ring) ==
  /\ Polled(ring)
  /\ LET m == Next1("startstop", ring) IN
       /\ m.type \in {"restart", "stop"}
       /\ Order(m.pid, m.type = "restart")
  /\ inbox' = Got("startstop", ring)
  /\ UNCHANGED <<nChild, report, flag>>

ForkAgain ==
  /\ ss.pc = "fork"
  /\ StartChild(ss.idx)
  /\ ss' = [pc |-> "poll", idx |-> 1]
  /\ UNCHANGED <<nChild, inbox, report, flag>>

TakeRequest(ring) ==
  /\ Polled(ring)
  /\ Next1("startstop", ring).type = "reqstatus"
  /\ ss' = [pc |-> "status", idx |-> 1]
  /\ report' = [ring |-> ring, rows |-> <<>>]
  /\ inbox' = Got("startstop", ring)
  /\ UNCHANGED <<proc, owner, child, nChild, next, flag>>

(* EncodeStatus asks waitpid for each entry in turn, and so reaps it when  *)
(* it is a zombie; -1 reaps any child.                                     *)
AsksFor(pid, state) == {p \in Pids : proc[p] = state /\ pid \in {p, -1}}

Word(i) ==
  IF AsksFor(child[i].pid, "zombie") # {} THEN "Zombie"
  ELSE IF AsksFor(child[i].pid, "running") # {} THEN "Alive"
  ELSE IF child[i].status = "Stopped" THEN "Stop" ELSE "Dead"

RowOf(i) == [name |-> i, pid |-> child[i].pid, word |-> Word(i)]

EncodeRow ==
  /\ ss.pc = "status" /\ ss.idx <= nChild
  /\ LET zombies == AsksFor(child[ss.idx].pid, "zombie") IN
       \/ zombies = {} /\ UNCHANGED proc
       \/ \E p \in zombies : proc' = [proc EXCEPT ![p] = "none"]
  /\ report' = [report EXCEPT !.rows = Append(@, RowOf(ss.idx))]
  /\ ss' = [ss EXCEPT !.idx = @ + 1]
  /\ UNCHANGED <<owner, child, nChild, next, inbox, flag>>

SendStatus ==
  /\ ss.pc = "status" /\ ss.idx > nChild
  /\ inbox' = Put(inbox, report.ring, [type |-> "status", rows |-> report.rows])
  /\ report' = [report EXCEPT !.rows = <<>>]
  /\ ss' = [pc |-> "poll", idx |-> 1]
  /\ UNCHANGED <<proc, owner, child, nChild, next, flag>>

(* The command file may have new entries at its end.  One that statmgr is  *)
(* not in makes startstop use an entry outside child[]: not considered.    *)
Reconfigure(ring) ==
  /\ Polled(ring)
  /\ Next1("startstop", ring).type = "reconfig"
  /\ \E n \in nChild .. MaxChild :
       /\ Statmgr <= n
       /\ nChild' = n
       /\ ss' = [pc |-> "spawn", idx |-> nChild + 1]
  /\ inbox' = Got("startstop", ring)
  /\ UNCHANGED <<proc, owner, child, next, report, flag>>

(* GetConfig exits on every error.                                         *)
ReconfigureExits(ring) ==
  /\ BadConfig
  /\ Polled(ring)
  /\ Next1("startstop", ring).type = "reconfig"
  /\ ss' = [ss EXCEPT !.pc = "bailed"]
  /\ inbox' = Got("startstop", ring)
  /\ UNCHANGED <<proc, owner, child, nChild, next, report, flag>>

-----------------------------------------------------------------------------
(* StopEarthworm.                                                          *)

SeeFlag ==
  /\ ss.pc = "poll" /\ flag
  /\ ss' = [ss EXCEPT !.pc = "grace"]
  /\ UNCHANGED <<proc, owner, child, nChild, next, inbox, report, flag>>

(* quit on the console: the loop ends after the ring at hand               *)
Quit ==
  /\ ss.pc = "poll"
  /\ ss' = [ss EXCEPT !.pc = "grace"]
  /\ flag' = TRUE
  /\ UNCHANGED <<proc, owner, child, nChild, next, report, inbox>>

Reaping_Grace == ss.pc = "grace"   \* mutant: no wait after SIGTERM

Reaping == ss.pc \in {"grace", "wait"}

ReapOne ==
  /\ Reaping
  /\ \E p \in Pids : /\ proc[p] = "zombie"
                     /\ proc' = [proc EXCEPT ![p] = "none"]
  /\ UNCHANGED <<owner, child, nChild, next, ss, inbox, report, flag>>

(* KillDelay is over, or waitpid finds no children: SIGTERM to the group.  *)
SigTerm ==
  /\ ss.pc = "grace"
  /\ ss' = [ss EXCEPT !.pc = "wait"]
  /\ UNCHANGED <<proc, owner, child, nChild, next, inbox, report, flag>>

NoneLeft == \A p \in Pids : proc[p] = "none"

Exit ==
  /\ ss.pc = "wait" /\ NoneLeft
  /\ ss' = [ss EXCEPT !.pc = "exited"]
  /\ UNCHANGED <<proc, owner, child, nChild, next, inbox, report, flag>>

SsStep ==
  \/ StartNext \/ Started \/ SpawnNext \/ Spawned \/ ForkAgain
  \/ EncodeRow \/ SendStatus
  \/ \E r \in Rings : TakeOrder(r) \/ TakeRequest(r)
                        \/ Reconfigure(r) \/ ReconfigureExits(r)
  \/ SeeFlag \/ ReapOne \/ SigTerm \/ Exit
=============================================================================
