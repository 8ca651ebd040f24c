------------------------ MODULE ControlPlane_proofs ------------------------
(***************************************************************************)
(* No entry of the command file ever runs twice, and startstop leaves      *)
(* nobody behind, for any number of entries, processes and rings, whether  *)
(* or not forks fail, and whatever is on the rings; and a module that was  *)
(* stopped in a calm moment stays stopped, which does depend on the rings. *)
(***************************************************************************)
EXTENDS ControlPlane, TLAPS

(* A process that runs is the one its entry in child[] names.              *)
Listed ==
  \A p \in Pids :
    proc[p] = "running" => owner[p] \in Entries /\ child[owner[p]].pid = p

(* A pid that was never returned by fork is nobody's.                      *)
Unused == \A p \in Pids : p >= next => proc[p] = "none"

(* What startstop is about to fork does not run.                           *)
Ready ==
  /\ ss.pc = "fork" => ss.idx \in Entries /\ ~Running(ss.idx)
  /\ ss.pc \in {"start", "spawn"} =>
       \A i \in Children : i >= ss.idx => ~Running(i)

Safe == Listed /\ Unused /\ Ready

IInv == TypeOK /\ Safe

-----------------------------------------------------------------------------
(* Messages.                                                               *)

Boxes == [Readers -> [Rings -> Seq(Messages)]]

LEMMA PutType ==
  ASSUME NEW B \in Boxes, NEW ring \in Rings, NEW m \in Messages
  PROVE  Put(B, ring, m) \in Boxes
<1>1. ASSUME NEW reader \in Readers
      PROVE  [B[reader] EXCEPT ![ring] = Append(@, m)]
               \in [Rings -> Seq(Messages)]
  <2>1. B[reader] \in [Rings -> Seq(Messages)]
    BY DEF Boxes
  <2>2. Append(B[reader][ring], m) \in Seq(Messages)
    BY <2>1
  <2> QED BY <2>1, <2>2
<1> QED BY <1>1 DEF Put, Boxes

LEMMA GotType ==
  ASSUME inbox \in Boxes, NEW reader \in Readers, NEW ring \in Rings,
         Available(reader, ring)
  PROVE  Got(reader, ring) \in Boxes /\ Next1(reader, ring) \in Messages
<1>1. inbox[reader] \in [Rings -> Seq(Messages)]
  BY DEF Boxes
<1>2. inbox[reader][ring] \in Seq(Messages) /\ inbox[reader][ring] # <<>>
  BY <1>1 DEF Available
<1>3. Tail(inbox[reader][ring]) \in Seq(Messages)
  BY <1>2
<1>4. Next1(reader, ring) \in Messages
  BY <1>2 DEF Next1
<1>5. [inbox[reader] EXCEPT ![ring] = Tail(@)] \in [Rings -> Seq(Messages)]
  BY <1>1, <1>3
<1>6. Got(reader, ring) \in Boxes
  BY <1>5 DEF Got, Boxes
<1> QED BY <1>4, <1>6

(* The kinds of messages.                                                  *)
LEMMA Kinds ==
  /\ \A p \in PidValues : \A t \in {"restart", "stop"} :
       [type |-> t, pid |-> p] \in Messages
  /\ \A t \in {"reqstatus", "reconfig"} : [type |-> t] \in Messages
  /\ \A i \in Children, p \in Pids :
       [type |-> "heartbeat", mod |-> i, pid |-> p] \in Messages
  /\ \A rows \in Seq(Row) : [type |-> "status", rows |-> rows] \in Messages
  /\ \A m \in Messages : m.type = "heartbeat" =>
       m.mod \in Children /\ m.pid \in Pids
BY DEF Messages

-----------------------------------------------------------------------------
(* What a fork, a kill and an end do to the processes.                     *)

Types == RingsTypeOK /\ SsTypeOK

ProcTypes ==
  /\ proc \in [Pids -> {"none", "running", "zombie"}]
  /\ owner \in [Pids -> Children]
  /\ child \in [Children -> Child]
  /\ next \in 1 .. MaxPid + 1

LEMMA PidFacts == -1 \in PidValues /\ 0 \in PidValues /\ Pids \subseteq PidValues
BY ControlAssumption DEF PidValues, Pids

LEMMA NewChild ==
  ASSUME NEW p \in PidValues, NEW c \in Child
  PROVE  [c EXCEPT !.pid = p] \in Child /\ [pid |-> p, status |-> "Alive"] \in Child
BY DEF Child

LEMMA ForkSafe ==
  ASSUME Types, Listed, Unused, nChild' = nChild,
         NEW i \in Entries, ~Running(i), StartChild(i)
  PROVE  /\ ProcTypes' /\ Listed' /\ Unused'
         /\ \A j \in Children : j # i /\ Running(j)' => Running(j)
<1> USE DEF Types, RingsTypeOK, SsTypeOK, Pids, Entries, Children
<1>0. i \in Children /\ MaxPid \in Nat /\ nChild \in 1 .. MaxChild
  BY ControlAssumption
<1>1. CASE Forked(i)
  <2>1. next \in Pids
    BY <1>0, <1>1 DEF Forked
  <2>2. /\ proc' = [proc EXCEPT ![next] = "running"]
        /\ owner' = [owner EXCEPT ![next] = i]
        /\ child' = [child EXCEPT ![i] = [pid |-> next, status |-> "Alive"]]
        /\ next' = next + 1
    BY <1>1 DEF Forked
  <2>3. [pid |-> next, status |-> "Alive"] \in Child
    BY <1>0, <2>1, NewChild, PidFacts
  <2>4. ProcTypes'
    BY <1>0, <2>1, <2>2, <2>3 DEF ProcTypes
  <2>5. \A p \in Pids : p # next =>
          proc'[p] = proc[p] /\ owner'[p] = owner[p]
    BY <2>2
  <2>6. Listed'
    <3> SUFFICES ASSUME NEW p \in Pids, proc'[p] = "running"
                 PROVE  /\ owner'[p] \in Entries'
                        /\ child'[owner'[p]].pid = p
      BY DEF Listed
    <3>1. CASE p = next
      <4>1. owner'[p] = i
        BY <3>1, <2>1, <2>2
      <4>2. child'[i] = [pid |-> next, status |-> "Alive"]
        BY <1>0, <2>2
      <4> QED BY <3>1, <4>1, <4>2
    <3>2. CASE p # next
      <4>1. proc[p] = "running" /\ owner'[p] = owner[p]
        BY <3>2, <2>5
      <4>2. owner[p] \in Entries /\ child[owner[p]].pid = p
        BY <4>1 DEF Listed
      <4>3. owner[p] # i
        BY <4>1 DEF Running
      <4>4. child'[owner[p]] = child[owner[p]]
        BY <1>0, <2>2, <4>2, <4>3
      <4> QED BY <4>1, <4>2, <4>4
    <3> QED BY <3>1, <3>2
  <2>7. Unused'
    BY <1>0, <2>1, <2>2, <2>5 DEF Unused
  <2>8. \A j \in Children : j # i /\ Running(j)' => Running(j)
    BY <2>1, <2>2, <2>5 DEF Running
  <2> QED BY <2>4, <2>6, <2>7, <2>8
<1>2. CASE ForkFailed(i)
  <2>1. /\ child' = [child EXCEPT ![i].pid = -1]
        /\ proc' = proc /\ owner' = owner /\ next' = next
    BY <1>2 DEF ForkFailed
  <2>2. ProcTypes'
    BY <1>0, <2>1, NewChild, PidFacts DEF ProcTypes
  <2>3. Listed'
    BY <1>0, <2>1 DEF Listed, Running
  <2>4. Unused' /\ \A j \in Children : Running(j)' => Running(j)
    BY <2>1 DEF Unused, Running
  <2> QED BY <2>2, <2>3, <2>4
<1> QED BY <1>1, <1>2 DEF StartChild

LEMMA EndSafe ==
  ASSUME Types, Listed, Unused, UNCHANGED <<owner, nChild, next>>,
         \A i \in Children : child'[i].pid = child[i].pid,
         \A p \in Pids : /\ proc'[p] = "running" => proc[p] = "running"
                         /\ proc[p] = "none" => proc'[p] = "none"
  PROVE  /\ Listed' /\ Unused'
         /\ \A j \in Children : Running(j)' => Running(j)
BY ControlAssumption
   DEF Types, RingsTypeOK, SsTypeOK, Listed, Unused, Running, Entries,
       Children, Pids

LEMMA StopSafe ==
  ASSUME Types, Listed, Unused, nChild' = nChild,
         NEW i \in Entries, StopChild(i)
  PROVE  /\ ProcTypes' /\ Listed' /\ Unused' /\ ~Running(i)'
         /\ \A j \in Children : Running(j)' => Running(j)
<1>0. i \in Children
  BY ControlAssumption DEF Types, SsTypeOK, Entries, Children
<1>1. /\ proc' = Killed(child[i].pid) /\ owner' = owner /\ next' = next
      /\ child' = [child EXCEPT ![i].status = "Stopped"]
  BY DEF StopChild
<1>2. ProcTypes'
  BY <1>0, <1>1 DEF Types, RingsTypeOK, SsTypeOK, ProcTypes, Killed, Child
<1>3. \A j \in Children : child'[j].pid = child[j].pid
  BY <1>0, <1>1 DEF Types, SsTypeOK, Child
<1>4. \A p \in Pids : /\ proc'[p] = "running" => proc[p] = "running"
                      /\ proc[p] = "none" => proc'[p] = "none"
  BY <1>1 DEF Types, RingsTypeOK, Killed
<1>5. Listed' /\ Unused' /\ \A j \in Children : Running(j)' => Running(j)
  BY <1>1, <1>3, <1>4, EndSafe
<1>6. ~Running(i)'
  <2> SUFFICES ASSUME NEW p \in Pids, proc'[p] = "running", owner'[p] = i
               PROVE  FALSE
    BY DEF Running
  <2>1. proc[p] = "running" /\ child[i].pid = p
    BY <1>1, <1>4 DEF Listed
  <2> QED BY <1>1, <2>1 DEF Killed, Types, RingsTypeOK
<1> QED BY <1>2, <1>5, <1>6

-----------------------------------------------------------------------------
(* The steps of startstop.                                                 *)

SsSafe == ProcTypes /\ SsTypeOK /\ Safe

LEMMA StartNextSafe ==
  ASSUME Types, Safe, StartNext
  PROVE  SsSafe'
<1>1. /\ ss.pc = "start" /\ ss.idx <= nChild /\ StartChild(ss.idx)
      /\ ss' = [ss EXCEPT !.idx = @ + 1]
      /\ nChild' = nChild /\ report' = report
  BY DEF StartNext
<1>2. ss.idx \in Entries /\ nChild \in Children /\ ss.idx \in Children
  BY <1>1, ControlAssumption DEF Types, SsTypeOK, Entries, Children
<1>3. \A i \in Children : i >= ss.idx => ~Running(i)
  BY <1>1 DEF Safe, Ready
<1>4. ~Running(ss.idx)
  BY <1>2, <1>3, ControlAssumption DEF Children
<1>5. /\ ProcTypes' /\ Listed' /\ Unused'
      /\ \A j \in Children : j # ss.idx /\ Running(j)' => Running(j)
  BY <1>1, <1>2, <1>4, ForkSafe DEF Safe
<1>6. ss'.idx = ss.idx + 1 /\ ss'.pc = "start"
  BY <1>1 DEF Types, SsTypeOK
<1>7. Ready'
  BY <1>2, <1>3, <1>5, <1>6, ControlAssumption DEF Ready, Children
<1>8. SsTypeOK'
  BY <1>1, <1>2, <1>5, ControlAssumption
     DEF Types, SsTypeOK, ProcTypes, Children
<1> QED BY <1>5, <1>7, <1>8 DEF SsSafe, Safe

LEMMA SpawnNextSafe ==
  ASSUME Types, Safe, SpawnNext
  PROVE  SsSafe'
<1>1. /\ ss.pc = "spawn" /\ ss.idx <= nChild
      /\ ss' = [ss EXCEPT !.idx = @ + 1]
      /\ nChild' = nChild /\ report' = report
  BY DEF SpawnNext
<1>2. ss.idx \in Entries /\ nChild \in Children /\ ss.idx \in Children
  BY <1>1, ControlAssumption DEF Types, SsTypeOK, Entries, Children
<1>3. \A i \in Children : i >= ss.idx => ~Running(i)
  BY <1>1 DEF Safe, Ready
<1>4. ~Running(ss.idx)
  BY <1>2, <1>3, ControlAssumption DEF Children
<1>5. /\ ProcTypes' /\ Listed' /\ Unused'
      /\ \A j \in Children : j # ss.idx /\ Running(j)' => Running(j)
  <2>1. CASE ss.idx = Statmgr
    BY <1>1, <2>1
       DEF SpawnNext, Types, RingsTypeOK, SsTypeOK, ProcTypes, Safe, Listed,
           Unused, Running, Entries
  <2>2. CASE ss.idx # Statmgr
    <3>1. StartChild(ss.idx)
      BY <2>2 DEF SpawnNext
    <3> QED BY <1>1, <1>2, <1>4, <3>1, ForkSafe DEF Safe
  <2> QED BY <2>1, <2>2
<1>6. ss'.idx = ss.idx + 1 /\ ss'.pc = "spawn"
  BY <1>1 DEF Types, SsTypeOK
<1>7. Ready'
  BY <1>2, <1>3, <1>5, <1>6, ControlAssumption DEF Ready, Children
<1>8. SsTypeOK'
  BY <1>1, <1>2, <1>5, ControlAssumption
     DEF Types, SsTypeOK, ProcTypes, Children
<1> QED BY <1>5, <1>7, <1>8 DEF SsSafe, Safe

LEMMA OrderSafe ==
  ASSUME Types, Safe, UNCHANGED <<nChild, report>>,
         NEW pid, NEW again \in BOOLEAN, Order(pid, again)
  PROVE  SsSafe'
<1> DEFINE named == {i \in Entries : child[i].pid = pid}
<1>1. CASE /\ ss' = [pc |-> "poll", idx |-> 1]
           /\ UNCHANGED <<proc, owner, child, next>>
  <2>1. ProcTypes' /\ SsTypeOK'
    BY <1>1, ControlAssumption DEF Types, RingsTypeOK, SsTypeOK, ProcTypes
  <2>2. Listed' /\ Unused'
    BY <1>1 DEF Safe, Listed, Unused, Entries
  <2>3. Ready'
    BY <1>1 DEF Ready
  <2> QED BY <2>1, <2>2, <2>3 DEF SsSafe, Safe
<1>2. ASSUME NEW i \in named, StopChild(i),
             ss' = [pc |-> AfterStop(pid, again), idx |-> i]
      PROVE  SsSafe'
  <2>1. /\ i \in Entries /\ i \in Children /\ i \in 1 .. MaxChild + 1
        /\ Entries' = Entries
    BY ControlAssumption DEF Types, SsTypeOK, Entries, Children
  <2>2. /\ ProcTypes' /\ Listed' /\ Unused' /\ ~Running(i)'
        /\ \A j \in Children : Running(j)' => Running(j)
    BY <1>2, <2>1, StopSafe DEF Safe
  <2>3. ss'.pc \in {"killed", "fork", "poll"} /\ ss'.idx = i
    BY <1>2 DEF AfterStop
  <2>4. SsTypeOK'
    BY <1>2, <2>1, <2>2, <2>3 DEF Types, SsTypeOK, ProcTypes
  <2>5. Ready'
    BY <2>1, <2>2, <2>3 DEF Ready
  <2> QED BY <2>2, <2>4, <2>5 DEF SsSafe, Safe
<1> QED BY <1>1, <1>2 DEF Order

LEMMA ForkAgainSafe ==
  ASSUME Types, Safe, ForkAgain
  PROVE  SsSafe'
<1>1. /\ ss.pc = "fork" /\ StartChild(ss.idx)
      /\ ss' = [pc |-> "poll", idx |-> 1]
      /\ nChild' = nChild /\ report' = report
  BY DEF ForkAgain
<1>2. ss.idx \in Entries /\ ~Running(ss.idx)
  BY <1>1 DEF Safe, Ready
<1>3. ProcTypes' /\ Listed' /\ Unused'
  BY <1>1, <1>2, ForkSafe DEF Safe
<1>4. Ready'
  BY <1>1 DEF Ready
<1>5. SsTypeOK'
  BY <1>1, <1>3, ControlAssumption DEF Types, SsTypeOK, ProcTypes
<1> QED BY <1>3, <1>4, <1>5 DEF SsSafe, Safe

(* Steps that fork nothing, and leave no entry about to be forked.         *)
LEMMA IdleSafe ==
  ASSUME Types, Safe, UNCHANGED <<owner, child, nChild, next>>,
         proc' \in [Pids -> {"none", "running", "zombie"}],
         \A p \in Pids : /\ proc'[p] = "running" => proc[p] = "running"
                         /\ proc[p] = "none" => proc'[p] = "none",
         SsTypeOK',
         ss'.pc \notin {"fork", "start", "spawn"} \/ ss' = ss
  PROVE  SsSafe'
<1>1. \A i \in Children : child'[i].pid = child[i].pid
  OBVIOUS
<1>2. Listed' /\ Unused' /\ \A j \in Children : Running(j)' => Running(j)
  BY <1>1, EndSafe DEF Safe
<1>3. ProcTypes'
  BY DEF Types, RingsTypeOK, SsTypeOK, ProcTypes
<1>4. CASE ss'.pc \notin {"fork", "start", "spawn"}
  BY <1>2, <1>3, <1>4 DEF SsSafe, Safe, Ready
<1>5. CASE ss' = ss
  <2>1. Entries' = Entries /\ Entries \subseteq Children
    BY ControlAssumption DEF Entries, Children, Types, SsTypeOK
  <2>2. Ready'
    BY <1>2, <1>5, <2>1 DEF Safe, Ready
  <2> QED BY <1>2, <1>3, <2>2 DEF SsSafe, Safe
<1> QED BY <1>4, <1>5

LEMMA EncodeRowSafe ==
  ASSUME Types, Safe, EncodeRow
  PROVE  SsSafe'
<1>1. /\ ss.pc = "status" /\ ss.idx <= nChild
      /\ ss' = [ss EXCEPT !.idx = @ + 1]
      /\ UNCHANGED <<owner, child, nChild, next>>
      /\ report' = [report EXCEPT !.rows = Append(@, RowOf(ss.idx))]
  BY DEF EncodeRow
<1>2. ss.idx \in Children /\ ss.idx + 1 \in 1 .. MaxChild + 1
  BY <1>1, ControlAssumption DEF Types, SsTypeOK, Children
<1>3. Word(ss.idx) \in {"Alive", "Zombie", "Stop", "Dead"}
  BY DEF Word
<1>4. child[ss.idx].pid \in PidValues
  BY <1>2 DEF Types, SsTypeOK, Child
<1>5. RowOf(ss.idx) \in Row
  BY <1>2, <1>3, <1>4 DEF Row, RowOf
<1>6. report' \in [ring : Rings, rows : Seq(Row)]
  <2>1. report.rows \in Seq(Row) /\ report \in [ring : Rings, rows : Seq(Row)]
    BY DEF Types, SsTypeOK
  <2>2. Append(report.rows, RowOf(ss.idx)) \in Seq(Row)
    BY <1>5, <2>1
  <2> QED BY <1>1, <2>1, <2>2
<1>7. SsTypeOK' /\ ss'.pc = "status"
  BY <1>1, <1>2, <1>6 DEF Types, SsTypeOK
<1>8. /\ proc' \in [Pids -> {"none", "running", "zombie"}]
      /\ \A p \in Pids : /\ proc'[p] = "running" => proc[p] = "running"
                         /\ proc[p] = "none" => proc'[p] = "none"
  BY DEF EncodeRow, AsksFor, Types, RingsTypeOK
<1>9. ss'.pc \notin {"fork", "start", "spawn", "exited"}
  BY <1>7
<1>10. SsTypeOK' /\ UNCHANGED <<owner, child, nChild, next>>
  BY <1>1, <1>7
<1> QED BY <1>8, <1>9, <1>10, IdleSafe

LEMMA ReconfigureSafe ==
  ASSUME Types, Safe, NEW ring, Reconfigure(ring)
  PROVE  SsSafe'
<1>1. PICK n \in nChild .. MaxChild :
        nChild' = n /\ ss' = [pc |-> "spawn", idx |-> nChild + 1]
  BY DEF Reconfigure
<1>2. UNCHANGED <<proc, owner, child, next, report>>
  BY DEF Reconfigure
<1>3. /\ nChild \in 1 .. MaxChild /\ MaxChild \in Nat
      /\ Entries \subseteq Entries'
  BY <1>1, ControlAssumption DEF Types, SsTypeOK, Children, Entries
<1>4. ProcTypes' /\ SsTypeOK'
  BY <1>1, <1>2, <1>3
     DEF Types, RingsTypeOK, SsTypeOK, ProcTypes, Children
<1>5. Listed' /\ Unused'
  BY <1>2, <1>3 DEF Safe, Listed, Unused
<1>6. Ready'
  <2> SUFFICES ASSUME NEW i \in Children, i >= nChild + 1, Running(i)
               PROVE  FALSE
    BY <1>1, <1>2 DEF Ready, Running
  <2>1. i \in Entries
    BY DEF Running, Safe, Listed
  <2> QED BY <1>3, <2>1 DEF Entries
<1> QED BY <1>4, <1>5, <1>6 DEF SsSafe, Safe

(* Every step of startstop.                                                *)
LEMMA SsStepSafe ==
  ASSUME Types, Safe, SsStep
  PROVE  SsSafe'
<1> USE DEF Types
<1>0. Statmgr \in Children /\ MaxChild \in Nat /\ 1 \in 1 .. MaxChild + 1
  BY ControlAssumption, StartAssumption
<1>1. CASE StartNext
  BY <1>1, StartNextSafe
<1>2. CASE SpawnNext
  BY <1>2, SpawnNextSafe
<1>3. CASE ForkAgain
  BY <1>3, ForkAgainSafe
<1>4. CASE EncodeRow
  BY <1>4, EncodeRowSafe
<1>5. CASE Spawned
  BY <1>5, OrderSafe DEF Spawned
<1>6. CASE Started
  <2>1. SsTypeOK' /\ ss'.pc = "poll"
    BY <1>0, <1>6 DEF Started, SsTypeOK
  <2> QED BY <1>6, <2>1, IdleSafe DEF Started, RingsTypeOK
<1>7. CASE SendStatus
  <2>0. [report EXCEPT !.rows = <<>>] \in [ring : Rings, rows : Seq(Row)]
    <3>1. <<>> \in Seq(Row)
      OBVIOUS
    <3>2. report \in [ring : Rings, rows : Seq(Row)]
      BY DEF SsTypeOK
    <3> QED BY <3>1, <3>2
  <2>1. SsTypeOK' /\ ss'.pc = "poll"
    BY <1>0, <1>7, <2>0 DEF SendStatus, SsTypeOK
  <2> QED BY <1>7, <2>1, IdleSafe DEF SendStatus, RingsTypeOK
<1>8. CASE SeeFlag \/ SigTerm \/ Exit
  <2>1. /\ SsTypeOK'
        /\ UNCHANGED <<proc, owner, child, nChild, next>>
        /\ ss'.pc \in {"grace", "wait", "exited"}
    BY <1>8 DEF SeeFlag, SigTerm, Exit, SsTypeOK
  <2> QED BY <2>1, IdleSafe DEF RingsTypeOK
<1>9. CASE ReapOne
  <2>1. SsTypeOK'
    BY <1>9 DEF ReapOne, SsTypeOK
  <2>2. /\ proc' \in [Pids -> {"none", "running", "zombie"}]
        /\ \A p \in Pids : /\ proc'[p] = "running" => proc[p] = "running"
                           /\ proc[p] = "none" => proc'[p] = "none"
    BY <1>9 DEF ReapOne, RingsTypeOK
  <2> QED BY <1>9, <2>1, <2>2, IdleSafe DEF ReapOne
<1>10. ASSUME NEW r \in Rings, TakeOrder(r)
       PROVE  SsSafe'
  BY <1>10, OrderSafe DEF TakeOrder
<1>11. ASSUME NEW r \in Rings, TakeRequest(r)
       PROVE  SsSafe'
  <2>1. SsTypeOK' /\ ss'.pc = "status"
    BY <1>0, <1>11 DEF TakeRequest, SsTypeOK
  <2> QED BY <1>11, <2>1, IdleSafe DEF TakeRequest, RingsTypeOK
<1>12. ASSUME NEW r \in Rings, Reconfigure(r)
       PROVE  SsSafe'
  BY <1>12, ReconfigureSafe
<1>13. ASSUME NEW r \in Rings, ReconfigureExits(r)
       PROVE  SsSafe'
  <2>1. SsTypeOK' /\ ss'.pc = "bailed"
    BY <1>13 DEF ReconfigureExits, SsTypeOK
  <2> QED BY <1>13, <2>1, IdleSafe DEF ReconfigureExits, RingsTypeOK
<1> QED BY <1>1, <1>2, <1>3, <1>4, <1>5, <1>6, <1>7, <1>8, <1>9, <1>10,
           <1>11, <1>12, <1>13 DEF SsStep

(* The messages of startstop.                                              *)
LEMMA SsStepTypes ==
  ASSUME Types, SsStep
  PROVE  inbox' \in Boxes /\ flag' \in BOOLEAN
<1>0. inbox \in Boxes /\ flag \in BOOLEAN /\ "startstop" \in Readers
  BY PlaneAssumption DEF Types, RingsTypeOK, Boxes
<1>1. CASE SendStatus
  <2>1. [type |-> "status", rows |-> report.rows] \in Messages
    BY Kinds DEF Types, SsTypeOK
  <2>2. inbox' = Put(inbox, report.ring,
                     [type |-> "status", rows |-> report.rows])
    BY <1>1 DEF SendStatus
  <2> QED BY <1>0, <1>1, <2>1, <2>2, PutType DEF SendStatus, Types, SsTypeOK
<1>2. ASSUME NEW r \in Rings,
             TakeOrder(r) \/ TakeRequest(r) \/ Reconfigure(r)
               \/ ReconfigureExits(r)
      PROVE  inbox' \in Boxes /\ flag' \in BOOLEAN
  <2>1. /\ Available("startstop", r) /\ flag' = flag
        /\ inbox' = Got("startstop", r)
    BY <1>2 DEF TakeOrder, TakeRequest, Reconfigure, ReconfigureExits, Polled
  <2> QED BY <1>0, <2>1, GotType
<1>3. CASE \/ StartNext \/ Started \/ SpawnNext \/ Spawned \/ ForkAgain
           \/ EncodeRow \/ SeeFlag \/ ReapOne \/ SigTerm \/ Exit
  BY <1>0, <1>3
     DEF StartNext, Started, SpawnNext, Spawned, ForkAgain, EncodeRow,
         SeeFlag, ReapOne, SigTerm, Exit
<1> QED BY <1>1, <1>2, <1>3 DEF SsStep

-----------------------------------------------------------------------------
(* The steps of statmgr leave the processes and startstop alone.           *)

SmType == [pid : {0} \cup Pids, pc : {"get", "chores"}, j : 1 .. MaxChild + 1]

LEMMA SmTypes ==
  /\ \A p \in {0} \cup Pids : Attached(p) \in SmType
  /\ \A s \in SmType : \A pc \in {"get", "chores"} :
       /\ [s EXCEPT !.pc = pc] \in SmType
       /\ [s EXCEPT !.pc = pc, !.j = 1] \in SmType
  /\ \A s \in SmType : \A m \in Children : [s EXCEPT !.j = m + 1] \in SmType
<1>1. 1 \in 1 .. MaxChild + 1 /\ \A m \in Children : m + 1 \in 1 .. MaxChild + 1
  BY ControlAssumption DEF Children
<1>2. \A p \in {0} \cup Pids : Attached(p) \in SmType
  BY <1>1 DEF Attached, SmType
<1>3. ASSUME NEW s \in SmType, NEW pc \in {"get", "chores"}
      PROVE  /\ [s EXCEPT !.pc = pc] \in SmType
             /\ [s EXCEPT !.pc = pc, !.j = 1] \in SmType
  BY <1>1 DEF SmType
<1>4. ASSUME NEW s \in SmType, NEW m \in Children
      PROVE  [s EXCEPT !.j = m + 1] \in SmType
  BY <1>1 DEF SmType
<1> QED BY <1>2, <1>3, <1>4

LEMMA FirstDescType == FirstDesc \in [Children -> Descriptor]
BY DEF FirstDesc, Descriptor

LEMMA SmStepTypes ==
  ASSUME RingsTypeOK, SmTypeOK, SmStep(Statmgr)
  PROVE  SmTypeOK' /\ inbox' \in Boxes
<1> USE DEF SmTypeOK
<1>0. /\ inbox \in Boxes /\ "statmgr" \in Readers
      /\ LastRing \in Rings /\ MaxChild \in Nat
  BY ControlAssumption, PlaneAssumption DEF RingsTypeOK, Boxes
<1>1. CASE Boot(Statmgr)
  <2>1. PICK p \in Pids : sm' = Attached(p)
    BY <1>1 DEF Boot
  <2>2. desc' = FirstDesc
    BY <1>1 DEF Boot
  <2>3. [r \in Rings |-> <<>>] \in [Rings -> Seq(Messages)]
    OBVIOUS
  <2>4. inbox' \in Boxes
    BY <1>0, <1>1, <2>3 DEF Boot, Boxes
  <2> QED BY <2>1, <2>2, <2>4, SmTypes, FirstDescType DEF SmType
<1>2. ASSUME NEW r \in Rings, HeartBeat(r)
      PROVE  SmTypeOK' /\ inbox' \in Boxes
  <2>1. Available("statmgr", r)
    BY <1>2 DEF HeartBeat, SmPoll
  <2>2. Got("statmgr", r) \in Boxes /\ Next1("statmgr", r) \in Messages
    BY <1>0, <2>1, GotType
  <2> DEFINE m == Next1("statmgr", r)
  <2>3. m.mod \in Children /\ m.pid \in Pids
    BY <1>2, <2>2, Kinds DEF HeartBeat
  <2>4. Beaten(desc[m.mod], m.pid) \in Descriptor
    BY <2>3 DEF Beaten, Descriptor
  <2>5. \/ desc' = [desc EXCEPT ![m.mod] = Beaten(desc[m.mod], m.pid)]
        \/ desc' = desc
    BY <1>2 DEF HeartBeat
  <2> HIDE DEF m
  <2>6. desc' \in [Children -> Descriptor]
    BY <2>3, <2>4, <2>5
  <2> QED BY <1>2, <2>2, <2>6 DEF HeartBeat
<1>3. ASSUME NEW r \in Rings, SeeOrder(r)
      PROVE  SmTypeOK' /\ inbox' \in Boxes
  <2>1. Available("statmgr", r)
    BY <1>3 DEF SeeOrder, SmPoll
  <2>2. Got("statmgr", r) \in Boxes
    BY <1>0, <2>1, GotType
  <2>3. \A d \in Descriptor, t \in {"stop", "restart"} :
          Marked(d, t) \in Descriptor
    BY DEF Marked, Descriptor
  <2>4. desc' \in [Children -> Descriptor]
    BY <1>3, <2>3 DEF SeeOrder
  <2> QED BY <1>3, <2>2, <2>4 DEF SeeOrder
<1>4. CASE Quiet \/ Rested
  <2>1. sm' \in SmType
    BY <1>4, SmTypes DEF Quiet, Rested, SmType
  <2> QED BY <1>0, <1>4, <2>1 DEF Quiet, Rested, SmType
<1>5. ASSUME NEW m \in Children, Late(m)
      PROVE  SmTypeOK' /\ inbox' \in Boxes
  <2>1. desc' \in [Children -> Descriptor]
    BY <1>5 DEF Late, Descriptor
  <2>2. sm' \in SmType
    BY <1>5, SmTypes DEF Late, SmType
  <2>3. desc[m].pid \in PidValues
    BY PidFacts DEF Descriptor
  <2>4. Request(m) \in Messages
    BY <2>3, Kinds DEF Request
  <2>5. inbox' \in Boxes
    BY <1>0, <1>5, <2>4, PutType DEF Late
  <2> QED BY <2>1, <2>2, <2>5 DEF SmType
<1> QED BY <1>1, <1>2, <1>3, <1>4, <1>5 DEF SmStep

-----------------------------------------------------------------------------
(* The steps of modules and operators.                                     *)

LEMMA InitIInv == Init => IInv
<1> SUFFICES ASSUME Init PROVE IInv
  OBVIOUS
<1>0. 1 \in 1 .. MaxChild + 1 /\ 1 \in 1 .. MaxPid + 1 /\ 1 \in Children
  BY ControlAssumption, StartAssumption DEF Children
<1>1. RingsTypeOK
  <2>1. [r \in Rings |-> <<>>] \in [Rings -> Seq(Messages)]
    OBVIOUS
  <2> QED BY <1>0, <2>1 DEF Init, RingsTypeOK
<1>2. SsTypeOK
  <2>1. [pid |-> 0, status |-> ""] \in Child
    BY PidFacts DEF Child
  <2>2. [ring |-> OpRing, rows |-> <<>>] \in [ring : Rings, rows : Seq(Row)]
    <3>1. <<>> \in Seq(Row)
      OBVIOUS
    <3> QED BY <3>1, ControlAssumption
  <2> QED BY <1>0, <2>1, <2>2, StartAssumption DEF Init, SsInit, SsTypeOK
<1>3. SmTypeOK
  BY SmTypes, FirstDescType DEF Init, SmInit, SmTypeOK, SmType
<1>4. TypeOK
  BY <1>1, <1>2, <1>3, PlaneAssumption DEF TypeOK, Init
<1>5. Safe
  BY DEF Init, SsInit, Safe, Listed, Unused, Ready, Running
<1> QED BY <1>4, <1>5 DEF IInv

(* A step that keeps the processes, or ends some, and keeps startstop.     *)
LEMMA EnvSafe ==
  ASSUME TypeOK, Safe, UNCHANGED <<owner, ssVars>>,
         proc' \in [Pids -> {"none", "running", "zombie"}],
         \A p \in Pids : /\ proc'[p] = "running" => proc[p] = "running"
                         /\ proc[p] = "none" => proc'[p] = "none",
         inbox' \in Boxes, flag' \in BOOLEAN, SmTypeOK',
         orders' \in 0 .. MaxOrders, deaths' \in 0 .. MaxDeaths,
         halted' \in [Children -> {"no", "asked", "calm"}]
  PROVE  IInv'
<1>1. Types /\ SsTypeOK' /\ ss' = ss
      /\ UNCHANGED <<owner, child, nChild, next>>
  BY DEF TypeOK, Types, SsTypeOK, ssVars
<1>2. SsSafe'
  BY <1>1, IdleSafe
<1>3. RingsTypeOK'
  BY <1>2 DEF SsSafe, ProcTypes, RingsTypeOK, Boxes
<1> QED BY <1>1, <1>2, <1>3 DEF IInv, SsSafe, TypeOK

LEMMA EnvStep ==
  ASSUME IInv,
         \/ \E p \in Pids : Beat(p) \/ Die(p) \/ Leave(p)
         \/ \E m \in Children : OpStop(m) \/ OpRestart(m)
         \/ \E type \in {"reqstatus", "reconfig"} : OpRequest(type)
         \/ Pau
  PROVE  IInv'
<1>0. /\ TypeOK /\ Safe /\ SmTypeOK /\ RingsTypeOK /\ SsTypeOK
      /\ inbox \in Boxes /\ flag \in BOOLEAN
      /\ OpRing \in Rings /\ BeatRing \in Rings
      /\ orders \in 0 .. MaxOrders /\ deaths \in 0 .. MaxDeaths
      /\ halted \in [Children -> {"no", "asked", "calm"}]
      /\ orders < MaxOrders => orders + 1 \in 0 .. MaxOrders
      /\ deaths < MaxDeaths => deaths + 1 \in 0 .. MaxDeaths
  BY ControlAssumption, PlaneAssumption
     DEF IInv, TypeOK, RingsTypeOK, Boxes
<1>1. NoneHalted \in [Children -> {"no", "asked", "calm"}]
  BY DEF NoneHalted
<1>2. UNCHANGED smVars => SmTypeOK'
  BY <1>0 DEF smVars, SmTypeOK
<1>3. ASSUME NEW p \in Pids, Beat(p)
      PROVE  IInv'
  <2>1. owner[p] \in Children
    BY <1>0 DEF RingsTypeOK
  <2>2. inbox' \in Boxes
    BY <1>0, <1>3, <2>1, Kinds, PutType DEF Beat
  <2>3. /\ UNCHANGED <<proc, owner, flag, ssVars>> /\ UNCHANGED smVars
        /\ UNCHANGED <<orders, deaths, halted>>
    BY <1>3 DEF Beat, envVars
  <2> QED BY <1>0, <1>2, <2>2, <2>3, EnvSafe DEF RingsTypeOK
<1>4. ASSUME NEW p \in Pids, Die(p) \/ Leave(p)
      PROVE  IInv'
  <2>1. Ended(p) /\ deaths' \in 0 .. MaxDeaths
    BY <1>0, <1>4 DEF Die, Leave
  <2>2. /\ proc' \in [Pids -> {"none", "running", "zombie"}]
        /\ \A q \in Pids : /\ proc'[q] = "running" => proc[q] = "running"
                           /\ proc[q] = "none" => proc'[q] = "none"
    BY <1>0, <2>1 DEF Ended, RingsTypeOK
  <2>3. halted' \in [Children -> {"no", "asked", "calm"}]
    BY <1>0, <1>1, <2>1 DEF Ended
  <2>4. UNCHANGED <<owner, flag, inbox, ssVars, orders>> /\ UNCHANGED smVars
    BY <2>1 DEF Ended
  <2>5. UNCHANGED <<owner, ssVars>>
    BY <2>4
  <2>6. SmTypeOK' /\ inbox' \in Boxes /\ flag' \in BOOLEAN
        /\ orders' \in 0 .. MaxOrders /\ deaths' \in 0 .. MaxDeaths
    BY <1>0, <1>2, <2>1, <2>4
  <2> QED BY <1>0, <2>2, <2>3, <2>5, <2>6, EnvSafe
<1>5. ASSUME NEW m \in Children, OpStop(m) \/ OpRestart(m)
      PROVE  IInv'
  <2>1. child[m].pid \in PidValues
    BY <1>0 DEF SsTypeOK, Child
  <2>2. PICK t \in {"restart", "stop"} :
          Ask([type |-> t, pid |-> child[m].pid])
    BY <1>5 DEF OpStop, OpRestart
  <2>3. inbox' \in Boxes /\ orders' \in 0 .. MaxOrders
    BY <1>0, <2>1, <2>2, Kinds, PutType DEF Ask
  <2>4. halted' \in [Children -> {"no", "asked", "calm"}]
    BY <1>0, <1>5 DEF OpStop, OpRestart
  <2>5. UNCHANGED <<proc, owner, flag, ssVars, deaths>> /\ UNCHANGED smVars
    BY <1>5 DEF OpStop, OpRestart
  <2> QED BY <1>0, <1>2, <2>3, <2>4, <2>5, EnvSafe DEF RingsTypeOK
<1>6. ASSUME NEW t \in {"reqstatus", "reconfig"}, OpRequest(t)
      PROVE  IInv'
  <2>1. inbox' \in Boxes /\ orders' \in 0 .. MaxOrders
    BY <1>0, <1>6, Kinds, PutType DEF OpRequest, Ask
  <2>2. /\ UNCHANGED <<proc, owner, flag, ssVars, deaths, halted>>
        /\ UNCHANGED smVars
    BY <1>6 DEF OpRequest
  <2> QED BY <1>0, <1>2, <2>1, <2>2, EnvSafe DEF RingsTypeOK
<1>7. CASE Pau
  <2>1. /\ flag' \in BOOLEAN /\ orders' \in 0 .. MaxOrders
        /\ UNCHANGED <<proc, owner, inbox, ssVars, deaths, halted>>
        /\ UNCHANGED smVars
    BY <1>0, <1>7 DEF Pau
  <2> QED BY <1>0, <1>2, <2>1, EnvSafe DEF RingsTypeOK
<1> QED BY <1>3, <1>4, <1>5, <1>6, <1>7

-----------------------------------------------------------------------------
(* The invariant.                                                          *)

LEMMA StepIInv == IInv /\ [Next]_vars => IInv'
<1> SUFFICES ASSUME IInv, [Next]_vars PROVE IInv'
  OBVIOUS
<1>0. /\ Types /\ Safe /\ SmTypeOK /\ RingsTypeOK /\ SsTypeOK
      /\ inbox \in Boxes
      /\ orders \in 0 .. MaxOrders /\ deaths \in 0 .. MaxDeaths
      /\ halted \in [Children -> {"no", "asked", "calm"}]
      /\ orders < MaxOrders => orders + 1 \in 0 .. MaxOrders
  BY PlaneAssumption DEF IInv, TypeOK, Types, RingsTypeOK, Boxes
<1>1. CASE StartStopStep
  <2>1. SsSafe' /\ inbox' \in Boxes /\ flag' \in BOOLEAN
    BY <1>0, <1>1, SsStepSafe, SsStepTypes DEF StartStopStep
  <2>2. RingsTypeOK'
    BY <2>1 DEF SsSafe, ProcTypes, RingsTypeOK, Boxes
  <2>3. SmTypeOK' /\ UNCHANGED <<orders, deaths>>
    BY <1>0, <1>1 DEF StartStopStep, smVars, SmTypeOK
  <2>4. halted' \in [Children -> {"no", "asked", "calm"}]
    BY <1>0, <1>1 DEF StartStopStep, NoneHalted
  <2> QED BY <1>0, <2>1, <2>2, <2>3, <2>4 DEF IInv, SsSafe, TypeOK
<1>2. CASE StatMgrStep
  <2>1. SmTypeOK' /\ inbox' \in Boxes
    BY <1>0, <1>2, SmStepTypes DEF StatMgrStep
  <2>2. UNCHANGED <<proc, owner, flag, ssVars, orders, deaths, halted>>
    BY <1>2 DEF StatMgrStep, SmStep, envVars
  <2> QED BY <1>0, <2>1, <2>2, EnvSafe DEF IInv, RingsTypeOK
<1>3. CASE QuitStep
  <2>1. /\ UNCHANGED <<proc, owner, child, nChild, next, inbox>>
        /\ SsTypeOK' /\ ss'.pc = "grace" /\ flag' = TRUE
        /\ UNCHANGED <<smVars, deaths, halted>>
        /\ orders' \in 0 .. MaxOrders
    BY <1>0, <1>3 DEF QuitStep, Quit, SsTypeOK
  <2>2. SsSafe'
    BY <1>0, <2>1, IdleSafe DEF RingsTypeOK
  <2>3. RingsTypeOK' /\ SmTypeOK'
    BY <1>0, <2>1 DEF RingsTypeOK, smVars, SmTypeOK
  <2> QED BY <1>0, <2>1, <2>2, <2>3 DEF IInv, SsSafe, TypeOK
<1>4. CASE \/ \E p \in Pids : Beat(p) \/ Die(p) \/ Leave(p)
           \/ \E m \in Children : OpStop(m) \/ OpRestart(m)
           \/ \E type \in {"reqstatus", "reconfig"} : OpRequest(type)
           \/ Pau
  BY <1>4, EnvStep
<1>5. CASE UNCHANGED vars
  <2>1. /\ UNCHANGED <<proc, owner, flag, inbox, ssVars, orders, deaths, halted>>
        /\ SmTypeOK'
    BY <1>0, <1>5 DEF vars, ssVars, SmTypeOK
  <2> QED BY <1>0, <2>1, EnvSafe DEF IInv, RingsTypeOK
<1> QED BY <1>1, <1>2, <1>3, <1>4, <1>5 DEF Next

LEMMA IInvAlways == Spec => []IInv
BY InitIInv, StepIInv, PTL DEF Spec

(* Type correctness of startstop, statmgr and what they share.             *)
THEOREM TypesHold == Spec => []TypeOK
<1>1. IInv => TypeOK
  BY DEF IInv
<1> QED BY <1>1, IInvAlways, PTL

(* An entry of the command file never has two running processes: a restart *)
(* kills and waits before it forks, whoever asks for it and however often. *)
THEOREM NeverTwo == Spec => []OneProcess
<1>1. IInv => OneProcess
  BY DEF IInv, Safe, Listed, OneProcess
<1> QED BY <1>1, IInvAlways, PTL

-----------------------------------------------------------------------------
(* What a stop that nothing crosses relies on.                             *)

Restart(p) == [type |-> "restart", pid |-> p]
Stop(p) == [type |-> "stop", pid |-> p]

(* A pid in child[] belongs to its entry and is the latest that does.      *)
Newest ==
  \A i \in Children : child[i].pid \in Pids =>
    /\ child[i].pid < next /\ owner[child[i].pid] = i /\ i \in Entries
    /\ \A q \in Pids : q < next /\ owner[q] = i => q <= child[i].pid

(* So does what statmgr knows belong to whom it thinks.                    *)
Known ==
  /\ sm.pid \in Pids => sm.pid < next /\ owner[sm.pid] = Statmgr
  /\ \A i \in Children : desc[i].pid \in Pids =>
       desc[i].pid < next /\ owner[desc[i].pid] = i

(* Heartbeats of a module wait in the order of its processes, and none is  *)
(* older than what statmgr knows.                                          *)
InTime(m) ==
  m.type = "heartbeat" =>
    m.pid < next /\ owner[m.pid] = m.mod /\ desc[m.mod].pid <= m.pid

Follows(m, n) ==
  m.type = "heartbeat" /\ n.type = "heartbeat" /\ m.mod = n.mod => m.pid <= n.pid

Beats ==
  \A r \in Rings :
    /\ \A k \in DOMAIN inbox["statmgr"][r] :
         /\ InTime(inbox["statmgr"][r][k])
         /\ inbox["statmgr"][r][k].type = "heartbeat" => r = BeatRing
    /\ \A j, k \in DOMAIN inbox["statmgr"][r] :
         j <= k => Follows(inbox["statmgr"][r][j], inbox["statmgr"][r][k])

(* A restart statmgr has not read, of a process that runs, startstop has   *)
(* not read either.                                                        *)
Both ==
  \A p \in Pids : Restart(p) \in Unread("statmgr") =>
    /\ p < next
    /\ proc[p] = "running" => Restart(p) \in Unread("startstop")

(* The stop of module m is on its way or done, and nothing else is.        *)
Halting(m) ==
  \/ desc[m].restart = "stopped"
  \/ /\ desc[m].restart = "restartme" /\ sm.pc = "get"
     /\ \E k \in DOMAIN inbox["statmgr"][LastRing] :
          inbox["statmgr"][LastRing][k] = Stop(child[m].pid)

NoRestart(m) ==
  /\ Restart(child[m].pid) \notin Unread("startstop")
  /\ Restart(child[m].pid) \notin Unread("statmgr")

NoFork(m) ==
  /\ ss.pc # "start"
  /\ ss.pc = "spawn" => m < ss.idx
  /\ ss.pc = "fork" => m # ss.idx

AtRest(m) ==
  /\ SmUp
  /\ child[m].pid \in Pids /\ desc[m].pid = child[m].pid
  /\ Halting(m) /\ NoRestart(m) /\ NoFork(m)

Undisturbed == \A m \in Children : halted[m] = "calm" => AtRest(m)

StopInv == Newest /\ Known /\ Beats /\ Both /\ Undisturbed

-----------------------------------------------------------------------------
(* What a put and a get do to the messages a reader has not got yet.       *)

LEMMA PutBox ==
  ASSUME inbox \in Boxes, NEW ring \in Rings, NEW m \in Messages,
         NEW x \in Readers, NEW r \in Rings
  PROVE  /\ inbox[x][r] \in Seq(Messages)
         /\ Put(inbox, ring, m)[x][r] =
              IF m.type \in Wants(x) /\ ring \in Polls(x) /\ r = ring
              THEN Append(inbox[x][r], m) ELSE inbox[x][r]
<1>1. inbox[x] \in [Rings -> Seq(Messages)]
  BY DEF Boxes
<1> QED
  BY <1>1 DEF Put

LEMMA GotBox ==
  ASSUME inbox \in Boxes, NEW y \in Readers, NEW ring \in Rings,
         NEW x \in Readers, NEW r \in Rings
  PROVE  Got(y, ring)[x][r] =
           IF x = y /\ r = ring THEN Tail(inbox[x][r]) ELSE inbox[x][r]
<1>1. inbox[x] \in [Rings -> Seq(Messages)] /\ inbox[y] \in [Rings -> Seq(Messages)]
  BY DEF Boxes
<1> QED
  BY <1>1 DEF Got, Boxes

LEMMA TailElements ==
  ASSUME NEW s \in Seq(Messages), s # <<>>
  PROVE  /\ DOMAIN s = 1 .. Len(s) /\ Len(s) \in Nat \ {0} /\ Head(s) = s[1]
         /\ DOMAIN Tail(s) = 1 .. Len(s) - 1
         /\ \A k \in DOMAIN Tail(s) : k + 1 \in DOMAIN s /\ Tail(s)[k] = s[k + 1]
         /\ \A k \in DOMAIN s : k # 1 => k - 1 \in DOMAIN Tail(s) /\ Tail(s)[k - 1] = s[k]
  OBVIOUS

LEMMA AppendElements ==
  ASSUME NEW s \in Seq(Messages), NEW m \in Messages
  PROVE  /\ DOMAIN s = 1 .. Len(s) /\ Len(s) \in Nat
         /\ DOMAIN Append(s, m) = 1 .. Len(s) + 1
         /\ \A k \in DOMAIN s : Append(s, m)[k] = s[k]
         /\ Append(s, m)[Len(s) + 1] = m
  OBVIOUS

(* A put appends to the boxes of those who want it, and changes no other.  *)
LEMMA PutPlaces ==
  ASSUME inbox \in Boxes, NEW ring \in Rings, NEW m \in Messages,
         inbox' = Put(inbox, ring, m), NEW x \in Readers, NEW r \in Rings
  PROVE  /\ \A k \in DOMAIN inbox[x][r] :
              k \in DOMAIN inbox'[x][r] /\ inbox'[x][r][k] = inbox[x][r][k]
         /\ \A k \in DOMAIN inbox'[x][r] :
              \/ k \in DOMAIN inbox[x][r] /\ inbox'[x][r][k] = inbox[x][r][k]
              \/ /\ inbox'[x][r][k] = m /\ k \in Nat
                 /\ m.type \in Wants(x) /\ ring \in Polls(x) /\ r = ring
                 /\ \A j \in DOMAIN inbox[x][r] : j < k
         /\ m.type \in Wants(x) /\ ring \in Polls(x) /\ r = ring =>
              \E k \in DOMAIN inbox'[x][r] : inbox'[x][r][k] = m
<1>1. PICK s \in Seq(Messages) : s = inbox[x][r]
  BY PutBox
<1>2. PICK t : t = inbox'[x][r]
  OBVIOUS
<1>3. t = IF m.type \in Wants(x) /\ ring \in Polls(x) /\ r = ring THEN Append(s, m) ELSE s
  BY <1>1, <1>2, PutBox
<1>4. /\ DOMAIN s = 1 .. Len(s) /\ Len(s) \in Nat /\ DOMAIN Append(s, m) = 1 .. Len(s) + 1
      /\ \A k \in DOMAIN s : Append(s, m)[k] = s[k]
      /\ Append(s, m)[Len(s) + 1] = m
  BY AppendElements
<1>5. \A k \in DOMAIN s : k \in DOMAIN t /\ t[k] = s[k]
  BY <1>3, <1>4
<1>6. ASSUME NEW k \in DOMAIN t, k \notin DOMAIN s
      PROVE  /\ t[k] = m /\ k \in Nat /\ \A j \in DOMAIN s : j < k
             /\ m.type \in Wants(x) /\ ring \in Polls(x) /\ r = ring
  <2>1. /\ t = Append(s, m)
        /\ m.type \in Wants(x) /\ ring \in Polls(x) /\ r = ring
    BY <1>3, <1>6
  <2>2. k = Len(s) + 1
    BY <1>4, <1>6, <2>1
  <2> QED
    BY <1>4, <2>1, <2>2
<1>7. m.type \in Wants(x) /\ ring \in Polls(x) /\ r = ring =>
        Len(s) + 1 \in DOMAIN t /\ t[Len(s) + 1] = m
  BY <1>3, <1>4
<1> QED
  BY <1>1, <1>2, <1>5, <1>6, <1>7

(* A put of something else leaves n read or unread; a put of n does not    *)
(* leave it read.                                                          *)
LEMMA PutUnread ==
  ASSUME inbox \in Boxes, NEW ring \in Rings, NEW m \in Messages,
         inbox' = Put(inbox, ring, m), NEW x \in Readers, NEW n
  PROVE  /\ n \in Unread(x) => n \in Unread(x)'
         /\ n \in Unread(x)' =>
              n \in Unread(x) \/ (n = m /\ m.type \in Wants(x) /\ ring \in Polls(x))
         /\ m.type \in Wants(x) /\ ring \in Polls(x) => m \in Unread(x)'
  BY PutPlaces DEF Unread

(* A get takes the first message out of one box, and changes no other.     *)
LEMMA GotPlaces ==
  ASSUME inbox \in Boxes, NEW y \in Readers, NEW ring \in Rings, Available(y, ring),
         inbox' = Got(y, ring), NEW x \in Readers, NEW r \in Rings
  PROVE  /\ x # y \/ r # ring => inbox'[x][r] = inbox[x][r]
         /\ x = y /\ r = ring =>
              /\ \A k \in DOMAIN inbox[x][r] : k \in Nat
              /\ 1 \in DOMAIN inbox[x][r] /\ inbox[x][r][1] = Next1(y, ring)
              /\ \A k \in DOMAIN inbox'[x][r] :
                   /\ k \in Nat /\ 1 <= k
                   /\ k + 1 \in DOMAIN inbox[x][r] /\ inbox'[x][r][k] = inbox[x][r][k + 1]
              /\ \A k \in DOMAIN inbox[x][r] : k # 1 =>
                   k - 1 \in DOMAIN inbox'[x][r] /\ inbox'[x][r][k - 1] = inbox[x][r][k]
<1>1. inbox'[x][r] = IF x = y /\ r = ring THEN Tail(inbox[x][r]) ELSE inbox[x][r]
  BY GotBox
<1>2. CASE x = y /\ r = ring
  <2>1. inbox[x][r] \in Seq(Messages) /\ inbox[x][r] # <<>>
    BY <1>2 DEF Boxes, Available
  <2>2. PICK s \in Seq(Messages) : s = inbox[x][r]
    BY <2>1
  <2>3. PICK t : t = inbox'[x][r]
    OBVIOUS
  <2>4. t = Tail(s) /\ s # <<>> /\ Next1(y, ring) = Head(s)
    BY <1>1, <1>2, <2>1, <2>2, <2>3 DEF Next1
  <2>5. /\ DOMAIN s = 1 .. Len(s) /\ Len(s) \in Nat \ {0} /\ Head(s) = s[1]
        /\ DOMAIN t = 1 .. Len(s) - 1
        /\ \A k \in DOMAIN t : k + 1 \in DOMAIN s /\ t[k] = s[k + 1]
        /\ \A k \in DOMAIN s : k # 1 => k - 1 \in DOMAIN t /\ t[k - 1] = s[k]
    BY <2>4, TailElements
  <2>6. /\ \A k \in DOMAIN s : k \in Nat
        /\ 1 \in DOMAIN s /\ s[1] = Next1(y, ring)
        /\ \A k \in DOMAIN t : k \in Nat /\ 1 <= k
    BY <2>4, <2>5
  <2> QED
    BY <1>2, <2>2, <2>3, <2>5, <2>6
<1> QED
  BY <1>1, <1>2

LEMMA GotUnread ==
  ASSUME inbox \in Boxes, NEW y \in Readers, NEW ring \in Rings, Available(y, ring),
         inbox' = Got(y, ring), NEW x \in Readers, NEW n
  PROVE  /\ n \in Unread(x)' => n \in Unread(x)
         /\ n \in Unread(x) => n \in Unread(x)' \/ (x = y /\ n = Next1(y, ring))
         /\ Next1(y, ring) \in Unread(y)
         /\ x # y => inbox'[x] = inbox[x]
<1>1. ASSUME NEW r \in Rings, NEW k \in DOMAIN inbox'[x][r]
      PROVE  \E j \in DOMAIN inbox[x][r] : inbox'[x][r][k] = inbox[x][r][j]
  BY GotPlaces
<1>2. ASSUME NEW r \in Rings, NEW k \in DOMAIN inbox[x][r]
      PROVE  \/ \E j \in DOMAIN inbox'[x][r] : inbox[x][r][k] = inbox'[x][r][j]
             \/ x = y /\ inbox[x][r][k] = Next1(y, ring)
  BY GotPlaces
<1>3. \E k \in DOMAIN inbox[y][ring] : inbox[y][ring][k] = Next1(y, ring)
  BY GotPlaces
<1>4. x # y => inbox'[x] = inbox[x]
  BY DEF Got, Boxes
<1> QED
  BY <1>1, <1>2, <1>3, <1>4 DEF Unread

(* Messages of one type.                                                   *)
LEMMA MessageKinds ==
  ASSUME NEW m \in Messages
  PROVE  /\ m.type = "restart" => m = Restart(m.pid)
         /\ m.type = "stop" => m = Stop(m.pid)
         /\ m.type = "heartbeat" => m.mod \in Children /\ m.pid \in Pids
         /\ \A p : m = Restart(p) => m.type = "restart" /\ m.pid = p
         /\ \A p : m = Stop(p) => m.type = "stop" /\ m.pid = p
  BY DEF Messages, Restart, Stop

LEMMA PollsWants ==
  /\ Polls("startstop") = Rings /\ Polls("statmgr") = Heard
  /\ Wants("startstop") = {"restart", "stop", "reqstatus", "reconfig"}
  /\ Wants("statmgr") = {"heartbeat", "restart", "stop"}
  /\ "startstop" \in Readers /\ "statmgr" \in Readers
  /\ OpRing \in Rings /\ BeatRing \in Rings /\ LastRing \in Rings /\ LastRing \in Heard
  BY ControlAssumption, PlaneAssumption DEF Polls, Wants

-----------------------------------------------------------------------------
(* What a step of startstop does to the processes.                         *)

Ends ==
  /\ UNCHANGED <<owner, next>> /\ nChild' \in nChild .. MaxChild
  /\ \A i \in Children : child'[i].pid = child[i].pid
  /\ \A p \in Pids : proc'[p] = "running" => proc[p] = "running"

Forks ==
  /\ ss.pc \in {"start", "spawn", "fork"} /\ ss.idx \in Entries
  /\ ~Running(ss.idx) /\ StartChild(ss.idx) /\ nChild' = nChild

LEMMA StopEnds ==
  ASSUME TypeOK, NEW i \in Children, StopChild(i), nChild' = nChild
  PROVE  Ends
<1>1. child' = [child EXCEPT ![i].status = "Stopped"] /\ UNCHANGED <<owner, next>>
  BY DEF StopChild
<1>2. \A j \in Children : child'[j].pid = child[j].pid
  BY <1>1 DEF TypeOK, SsTypeOK, Child
<1>3. \A p \in Pids : proc'[p] = "running" => proc[p] = "running"
  BY DEF StopChild, Killed, TypeOK, RingsTypeOK
<1>4. nChild' \in nChild .. MaxChild
  BY ControlAssumption DEF TypeOK, SsTypeOK, Children
<1> QED
  BY <1>1, <1>2, <1>3, <1>4 DEF Ends

LEMMA OrderEnds ==
  ASSUME TypeOK, NEW pid, NEW again, Order(pid, again), nChild' = nChild
  PROVE  /\ Ends /\ ss'.pc \in {"poll", "fork", "killed"}
         /\ ss'.pc = "fork" => again /\ child[ss'.idx].pid = pid /\ ss'.idx \in Entries
                               /\ StopChild(ss'.idx)
<1>0. Entries \subseteq Children /\ nChild \in nChild .. MaxChild
  BY ControlAssumption DEF TypeOK, SsTypeOK, Entries, Children
<1>1. CASE /\ ss' = [pc |-> "poll", idx |-> 1]
           /\ UNCHANGED <<proc, owner, child, next>>
  BY <1>0, <1>1 DEF Ends
<1>2. CASE \E i \in Entries : /\ child[i].pid = pid /\ StopChild(i)
                              /\ ss' = [pc |-> AfterStop(pid, again), idx |-> i]
  <2>1. PICK i \in Entries : /\ child[i].pid = pid /\ StopChild(i)
                             /\ ss' = [pc |-> AfterStop(pid, again), idx |-> i]
    BY <1>2
  <2>2. Ends
    BY <1>0, <2>1, StopEnds
  <2> QED
    BY <2>1, <2>2 DEF AfterStop
<1> QED
  BY <1>1, <1>2 DEF Order

LEMMA SsKinds ==
  ASSUME IInv, SsStep
  PROVE  Ends \/ Forks
<1>0. /\ TypeOK /\ Safe /\ nChild \in nChild .. MaxChild /\ nChild \in Children
      /\ Entries = 1 .. nChild /\ Entries \subseteq Children
  BY ControlAssumption DEF IInv, TypeOK, SsTypeOK, Entries, Children
<1>1. CASE StartNext
  <2>1. ss.pc = "start" /\ ss.idx <= nChild /\ StartChild(ss.idx) /\ nChild' = nChild
    BY <1>1 DEF StartNext
  <2>2. ss.idx \in Entries
    BY <1>0, <2>1 DEF TypeOK, SsTypeOK, Children
  <2>3. ~Running(ss.idx)
    BY <1>0, <2>1, <2>2 DEF Safe, Ready, Children
  <2> QED
    BY <2>1, <2>2, <2>3 DEF Forks
<1>2. CASE SpawnNext
  <2>1. ss.pc = "spawn" /\ ss.idx <= nChild /\ nChild' = nChild
    BY <1>2 DEF SpawnNext
  <2>2. ss.idx \in Entries
    BY <1>0, <2>1 DEF TypeOK, SsTypeOK, Children
  <2>3. ~Running(ss.idx)
    BY <1>0, <2>1, <2>2 DEF Safe, Ready, Children
  <2>4. CASE ss.idx = Statmgr
    BY <1>0, <1>2, <2>1, <2>4 DEF SpawnNext, Ends
  <2>5. CASE ss.idx # Statmgr
    BY <1>2, <2>1, <2>2, <2>3, <2>5 DEF SpawnNext, Forks
  <2> QED
    BY <2>4, <2>5
<1>3. CASE ForkAgain
  BY <1>0, <1>3 DEF ForkAgain, Forks, Safe, Ready
<1>4. CASE Spawned
  <2>1. Order(child[Statmgr].pid, TRUE) /\ nChild' = nChild
    BY <1>4 DEF Spawned
  <2> QED
    BY <1>0, <2>1, OrderEnds
<1>5. ASSUME NEW r \in Rings, TakeOrder(r) PROVE Ends
  <2>1. /\ Order(Next1("startstop", r).pid, Next1("startstop", r).type = "restart")
        /\ nChild' = nChild
    BY <1>5 DEF TakeOrder
  <2> QED
    BY <1>0, <2>1, OrderEnds
<1>6. ASSUME NEW r \in Rings, Reconfigure(r) PROVE Ends
  <2>1. UNCHANGED <<proc, owner, child, next>> /\ nChild' \in nChild .. MaxChild
    BY <1>6 DEF Reconfigure
  <2> QED
    BY <1>0, <2>1 DEF Ends
<1>7. CASE EncodeRow \/ ReapOne
  <2>1. UNCHANGED <<owner, child, next, nChild>>
    BY <1>7 DEF EncodeRow, ReapOne
  <2>2. \A p \in Pids : proc'[p] = "running" => proc[p] = "running"
    BY <1>0, <1>7 DEF EncodeRow, ReapOne, TypeOK, RingsTypeOK
  <2> QED
    BY <1>0, <2>1, <2>2 DEF Ends
<1>8. ASSUME UNCHANGED <<proc, owner, child, next, nChild>> PROVE Ends
  BY <1>0, <1>8 DEF Ends
<1>9. ASSUME NEW r \in Rings, TakeRequest(r) \/ ReconfigureExits(r) PROVE Ends
  BY <1>8, <1>9 DEF TakeRequest, ReconfigureExits
<1>10. CASE Started \/ SendStatus \/ SeeFlag \/ SigTerm \/ Exit
  BY <1>8, <1>10 DEF Started, SendStatus, SeeFlag, SigTerm, Exit
<1> QED
  BY <1>1, <1>2, <1>3, <1>4, <1>5, <1>6, <1>7, <1>9, <1>10 DEF SsStep

(* A fork takes a pid nobody had, and is nobody's end.                     *)
LEMMA ForkDoes ==
  ASSUME IInv, Forks
  PROVE  \/ /\ UNCHANGED <<proc, owner, next>>
            /\ child' = [child EXCEPT ![ss.idx].pid = -1]
         \/ /\ next \in Pids /\ next' = next + 1
            /\ proc' = [proc EXCEPT ![next] = "running"]
            /\ owner' = [owner EXCEPT ![next] = ss.idx]
            /\ child' = [child EXCEPT ![ss.idx] = [pid |-> next, status |-> "Alive"]]
<1>1. next \in 1 .. MaxPid + 1 /\ MaxPid \in Nat
  BY ControlAssumption DEF IInv, TypeOK, SsTypeOK
<1> QED
  BY <1>1 DEF Forks, StartChild, Forked, ForkFailed, Pids

(* The pids of child[] stay the newest.                                    *)
LEMMA NewestKept ==
  ASSUME IInv, Newest, Ends \/ Forks
  PROVE  /\ Newest'
         /\ next <= next' /\ \A p \in Pids : p < next => owner'[p] = owner[p]
<1>0. /\ next \in 1 .. MaxPid + 1 /\ MaxPid \in Nat
      /\ nChild \in 1 .. MaxChild /\ MaxChild \in Nat
      /\ child \in [Children -> Child] /\ owner \in [Pids -> Children]
  BY ControlAssumption DEF IInv, TypeOK, RingsTypeOK, SsTypeOK, Children
<1>1. CASE Ends
  <2>1. \A i \in Children : i \in Entries => i \in Entries'
    BY <1>0, <1>1 DEF Ends, Entries, Children
  <2>2. next' = next /\ owner' = owner /\ \A i \in Children : child'[i].pid = child[i].pid
    BY <1>1 DEF Ends
  <2>3. Newest'
    BY <2>1, <2>2 DEF Newest, Children, Pids
  <2> QED
    BY <1>0, <2>2, <2>3
<1>2. CASE Forks
  <2>0. nChild' = nChild /\ ss.idx \in Children /\ ss.idx \in Entries
    BY <1>0, <1>2 DEF Forks, Entries, Children
  <2>1. CASE /\ UNCHANGED <<proc, owner, next>>
             /\ child' = [child EXCEPT ![ss.idx].pid = -1]
    <3>1. \A i \in Children : child'[i].pid = IF i = ss.idx THEN -1 ELSE child[i].pid
      BY <1>0, <2>0, <2>1 DEF Child
    <3>2. -1 \notin Pids
      BY DEF Pids
    <3>3. Newest'
      BY <2>0, <2>1, <3>1, <3>2 DEF Newest, Children, Pids, Entries
    <3> QED
      BY <1>0, <2>1, <3>3
  <2>2. CASE /\ next \in Pids /\ next' = next + 1
             /\ owner' = [owner EXCEPT ![next] = ss.idx]
             /\ child' = [child EXCEPT ![ss.idx] = [pid |-> next, status |-> "Alive"]]
    <3>1. \A i \in Children : child'[i].pid = IF i = ss.idx THEN next ELSE child[i].pid
      BY <1>0, <2>0, <2>2
    <3>2. \A q \in Pids : owner'[q] = IF q = next THEN ss.idx ELSE owner[q]
      BY <1>0, <2>2
    <3>3. ASSUME NEW i \in Children, child'[i].pid \in Pids
          PROVE  /\ child'[i].pid < next' /\ owner'[child'[i].pid] = i /\ i \in Entries
                 /\ \A q \in Pids : q < next' /\ owner'[q] = i => q <= child'[i].pid
      <4>1. CASE i = ss.idx
        BY <1>0, <2>0, <2>2, <3>1, <3>2, <4>1 DEF Pids
      <4>2. CASE i # ss.idx
        <5>1. /\ child[i].pid < next /\ owner[child[i].pid] = i /\ i \in Entries
              /\ \A q \in Pids : q < next /\ owner[q] = i => q <= child[i].pid
          BY <3>1, <3>3, <4>2 DEF Newest
        <5> QED
          BY <1>0, <2>2, <3>1, <3>2, <3>3, <4>2, <5>1 DEF Pids
      <4> QED
        BY <4>1, <4>2
    <3>4. Newest'
      BY <2>0, <3>3 DEF Newest, Entries, Children, Pids
    <3> QED
      BY <1>0, <2>2, <3>2, <3>4 DEF Pids
  <2> QED
    BY <1>2, <2>1, <2>2, ForkDoes
<1> QED
  BY <1>1, <1>2

LEMMA Basics ==
  ASSUME IInv
  PROVE  /\ inbox \in Boxes /\ owner \in [Pids -> Children] /\ next \in 1 .. MaxPid + 1
         /\ proc \in [Pids -> {"none", "running", "zombie"}]
         /\ child \in [Children -> Child] /\ \A i \in Children : child[i].pid \in PidValues
         /\ desc \in [Children -> Descriptor] /\ \A i \in Children : desc[i].pid \in {0} \cup Pids
         /\ sm.pid \in {0} \cup Pids /\ ss.idx \in 1 .. MaxChild + 1 /\ report.rows \in Seq(Row)
         /\ nChild \in Children /\ Entries \subseteq Children
         /\ halted \in [Children -> {"no", "asked", "calm"}]
         /\ MaxPid \in Nat /\ MaxChild \in Nat /\ Statmgr \in Children
         /\ 0 \notin Pids /\ -1 \notin Pids /\ Pids \subseteq Nat
<1>1. MaxPid \in Nat /\ MaxChild \in Nat /\ Statmgr \in Children
  BY ControlAssumption, StartAssumption
<1>2. /\ inbox \in Boxes /\ owner \in [Pids -> Children] /\ next \in 1 .. MaxPid + 1
      /\ proc \in [Pids -> {"none", "running", "zombie"}]
      /\ child \in [Children -> Child] /\ desc \in [Children -> Descriptor]
      /\ sm.pid \in {0} \cup Pids /\ ss.idx \in 1 .. MaxChild + 1 /\ report.rows \in Seq(Row)
      /\ nChild \in Children /\ halted \in [Children -> {"no", "asked", "calm"}]
  BY DEF IInv, TypeOK, RingsTypeOK, SsTypeOK, SmTypeOK, Boxes
<1>3. \A i \in Children : child[i].pid \in PidValues
  BY <1>2 DEF Child
<1>4. \A i \in Children : desc[i].pid \in {0} \cup Pids
  BY <1>2 DEF Descriptor
<1>5. Entries \subseteq Children
  BY <1>1, <1>2 DEF Entries, Children
<1>6. 0 \notin Pids /\ -1 \notin Pids /\ Pids \subseteq Nat
  BY <1>1 DEF Pids
<1> QED
  BY <1>1, <1>2, <1>3, <1>4, <1>5, <1>6

(* What statmgr and startstop have not read are messages.                  *)
LEMMA BoxMessages ==
  ASSUME inbox \in Boxes, NEW x \in Readers, NEW r \in Rings, NEW k \in DOMAIN inbox[x][r]
  PROVE  inbox[x][r] \in Seq(Messages) /\ inbox[x][r][k] \in Messages
<1>1. inbox[x] \in [Rings -> Seq(Messages)]
  BY DEF Boxes
<1>2. PICK s \in Seq(Messages) : s = inbox[x][r]
  BY <1>1
<1>3. k \in DOMAIN s /\ s[k] \in Messages
  BY <1>2
<1> QED
  BY <1>2, <1>3

(* Who runs is the newest of its entry.                                    *)
LEMMA RunsNewest ==
  ASSUME IInv, Newest, NEW p \in Pids, proc[p] = "running"
  PROVE  /\ p < next /\ owner[p] \in Entries /\ child[owner[p]].pid = p
         /\ \A q \in Pids : q < next /\ owner[q] = owner[p] => q <= p
<1>1. owner[p] \in Entries /\ owner[p] \in Children /\ child[owner[p]].pid = p
  BY Basics DEF IInv, Safe, Listed
<1> QED
  BY <1>1 DEF Newest

LEMMA OrderKills ==
  ASSUME IInv, NEW p \in Pids, proc[p] = "running", NEW again, Order(p, again)
  PROVE  proc'[p] # "running"
<1>1. owner[p] \in Entries /\ child[owner[p]].pid = p
  BY DEF IInv, Safe, Listed
<1>2. PICK i \in Entries : child[i].pid = p /\ StopChild(i)
  BY <1>1 DEF Order
<1>3. proc' = [proc EXCEPT ![p] = "none"]
  BY <1>2 DEF StopChild, Killed
<1> QED
  BY <1>3, Basics

-----------------------------------------------------------------------------
(* What a step of startstop does to the messages.                          *)

LEMMA SsMessages ==
  ASSUME IInv, SsStep
  PROVE  /\ inbox'["statmgr"] = inbox["statmgr"]
         /\ \A n : n \in Unread("startstop")' => n \in Unread("startstop")
         /\ \A p \in Pids :
              Restart(p) \in Unread("startstop") /\ proc[p] = "running" /\ proc'[p] = "running"
                => Restart(p) \in Unread("startstop")'
<1> DEFINE Goal ==
      /\ inbox'["statmgr"] = inbox["statmgr"]
      /\ \A n : n \in Unread("startstop")' => n \in Unread("startstop")
      /\ \A p \in Pids :
           Restart(p) \in Unread("startstop") /\ proc[p] = "running" /\ proc'[p] = "running"
             => Restart(p) \in Unread("startstop")'
<1>1. inbox \in Boxes /\ "startstop" \in Readers /\ "statmgr" \in Readers
  BY Basics, PollsWants
<1>2. ASSUME UNCHANGED inbox PROVE Goal
  BY <1>2 DEF Unread
<1>3. CASE SendStatus
  <2> DEFINE m == [type |-> "status", rows |-> report.rows]
  <2>1. m \in Messages /\ m.type = "status" /\ report.ring \in Rings
    BY Basics, Kinds DEF IInv, TypeOK, SsTypeOK
  <2>2. inbox' = Put(inbox, report.ring, m)
    BY <1>3 DEF SendStatus
  <2> HIDE DEF m
  <2>3. inbox'["statmgr"] = inbox["statmgr"]
    BY <1>1, <2>1, <2>2, PollsWants DEF Put
  <2>4. \A n : /\ n \in Unread("startstop") => n \in Unread("startstop")'
               /\ n \in Unread("startstop")' => n \in Unread("startstop")
    BY <1>1, <2>1, <2>2, PutUnread, PollsWants
  <2> QED
    BY <2>3, <2>4
<1>4. ASSUME NEW r \in Rings, Polled(r), inbox' = Got("startstop", r),
             \A p \in Pids : Next1("startstop", r) = Restart(p) /\ proc[p] = "running"
                               => proc'[p] # "running"
      PROVE  Goal
  <2>1. Available("startstop", r)
    BY <1>4 DEF Polled
  <2>2. inbox'["statmgr"] = inbox["statmgr"]
    BY <1>1, <1>4, <2>1, GotUnread
  <2>3. \A n : /\ n \in Unread("startstop")' => n \in Unread("startstop")
               /\ n \in Unread("startstop") =>
                    n \in Unread("startstop")' \/ n = Next1("startstop", r)
    BY <1>1, <1>4, <2>1, GotUnread
  <2> QED
    BY <1>4, <2>2, <2>3
<1>5. ASSUME NEW r \in Rings, TakeOrder(r) PROVE Goal
  <2>1. /\ Polled(r) /\ inbox' = Got("startstop", r)
        /\ Order(Next1("startstop", r).pid, Next1("startstop", r).type = "restart")
    BY <1>5 DEF TakeOrder
  <2>2. ASSUME NEW p \in Pids, Next1("startstop", r) = Restart(p), proc[p] = "running"
        PROVE  proc'[p] # "running"
    <3>1. Next1("startstop", r).pid = p
      BY <2>2 DEF Restart
    <3>2. Order(p, Next1("startstop", r).type = "restart")
      BY <2>1, <3>1
    <3> QED
      BY <2>2, <3>2, OrderKills
  <2> QED
    BY <1>4, <2>1, <2>2
<1>6. ASSUME NEW r \in Rings, TakeRequest(r) \/ Reconfigure(r) \/ ReconfigureExits(r)
      PROVE  Goal
  <2>1. /\ Polled(r) /\ inbox' = Got("startstop", r)
        /\ Next1("startstop", r).type \in {"reqstatus", "reconfig"}
    BY <1>6 DEF TakeRequest, Reconfigure, ReconfigureExits
  <2>2. \A p : Next1("startstop", r) # Restart(p)
    BY <2>1 DEF Restart
  <2> QED
    BY <1>4, <2>1, <2>2
<1>7. CASE \/ StartNext \/ Started \/ SpawnNext \/ Spawned \/ ForkAgain
           \/ EncodeRow \/ SeeFlag \/ ReapOne \/ SigTerm \/ Exit
  <2>1. UNCHANGED inbox
    BY <1>7 DEF StartNext, Started, SpawnNext, Spawned, ForkAgain, EncodeRow, SeeFlag,
                ReapOne, SigTerm, Exit
  <2> QED
    BY <1>2, <2>1
<1> QED
  BY <1>3, <1>5, <1>6, <1>7 DEF SsStep

(* Where startstop stands after a step: a fork of entry m is not begun     *)
(* without an order for it.                                                *)
LEMMA NoForkKept ==
  ASSUME IInv, Newest, SsStep, NEW m \in Children, child[m].pid \in Pids, NoFork(m),
         Restart(child[m].pid) \notin Unread("startstop"),
         SmUp, owner[sm.pid] = Statmgr, proc'[sm.pid] = "running"
  PROVE  NoFork(m)'
<1>0. /\ m \in Entries /\ owner[child[m].pid] = m /\ m \in Nat /\ nChild \in Nat
      /\ Entries = 1 .. nChild /\ ss.idx \in Nat /\ Entries \subseteq Children
  BY Basics DEF Newest, Entries, Children
<1>1. /\ ss.pc # "start" /\ (ss.pc = "spawn" => m < ss.idx) /\ (ss.pc = "fork" => m # ss.idx)
  BY DEF NoFork
<1>2. ASSUME NEW pid, NEW again, Order(pid, again), again => child[m].pid # pid
      PROVE  NoFork(m)'
  <2>1. CASE ss' = [pc |-> "poll", idx |-> 1]
    BY <2>1 DEF NoFork
  <2>2. CASE \E i \in Entries : /\ child[i].pid = pid /\ StopChild(i)
                                /\ ss' = [pc |-> AfterStop(pid, again), idx |-> i]
    <3>1. PICK i \in Entries : /\ child[i].pid = pid
                               /\ ss' = [pc |-> AfterStop(pid, again), idx |-> i]
      BY <2>2
    <3>2. ss'.pc = "fork" => again /\ ss'.idx = i
      BY <3>1 DEF AfterStop
    <3>3. ss'.pc \in {"killed", "fork", "poll"}
      BY <3>1 DEF AfterStop
    <3>4. ss'.pc = "fork" => m # ss'.idx
      BY <1>2, <3>1, <3>2
    <3> QED
      BY <3>3, <3>4 DEF NoFork
  <2> QED
    BY <1>2, <2>1, <2>2 DEF Order
<1>3. ASSUME NEW r \in Rings, TakeOrder(r) PROVE NoFork(m)'
  <2> DEFINE n == Next1("startstop", r)
  <2>1. Available("startstop", r) /\ Order(n.pid, n.type = "restart")
    BY <1>3 DEF TakeOrder, Polled
  <2>2. n \in Unread("startstop") /\ n \in Messages
    <3>1. inbox' = Got("startstop", r)
      BY <1>3 DEF TakeOrder
    <3> QED
      BY <2>1, <3>1, GotUnread, GotType, Basics, PollsWants
  <2>3. n.type = "restart" => n = Restart(n.pid)
    BY <2>2, MessageKinds
  <2>4. n.type = "restart" => child[m].pid # n.pid
    BY <2>2, <2>3
  <2> HIDE DEF n
  <2> QED
    BY <1>2, <2>1, <2>4
<1>4. CASE Spawned
  <2>1. Order(child[Statmgr].pid, TRUE)
    BY <1>4 DEF Spawned
  <2>2. sm.pid \in Pids /\ proc[sm.pid] = "running" /\ child[Statmgr].pid = sm.pid
    BY DEF SmUp, IInv, Safe, Listed
  <2>3. proc'[sm.pid] # "running"
    BY <2>1, <2>2, OrderKills
  <2> QED
    BY <2>3
<1>5. ASSUME NEW r \in Rings, Reconfigure(r) PROVE NoFork(m)'
  <2>1. ss' = [pc |-> "spawn", idx |-> nChild + 1]
    BY <1>5 DEF Reconfigure
  <2> QED
    BY <1>0, <2>1 DEF NoFork
<1>6. CASE SpawnNext
  <2>1. ss' = [ss EXCEPT !.idx = @ + 1] /\ ss.pc = "spawn"
    BY <1>6 DEF SpawnNext
  <2>2. ss \in [pc : {"start", "poll", "fork", "spawn", "status", "grace",
                   "wait", "exited", "bailed", "killed"}, idx : 1 .. MaxChild + 1]
    BY DEF IInv, TypeOK, SsTypeOK
  <2>3. ss'.pc = "spawn" /\ ss'.idx = ss.idx + 1
    BY <2>1, <2>2
  <2> QED
    BY <1>0, <1>1, <2>1, <2>3 DEF NoFork
<1>7. CASE \/ ForkAgain \/ EncodeRow \/ SendStatus \/ SeeFlag \/ SigTerm \/ Exit
           \/ \E r \in Rings : TakeRequest(r) \/ ReconfigureExits(r)
  <2>1. ss'.pc \in {"poll", "status", "bailed", "grace", "wait", "exited"}
    BY <1>7 DEF ForkAgain, EncodeRow, SendStatus, SeeFlag, SigTerm, Exit, TakeRequest,
                ReconfigureExits, IInv, TypeOK, SsTypeOK
  <2> QED
    BY <2>1 DEF NoFork
<1>8. CASE StartNext \/ Started
  BY <1>1, <1>8 DEF StartNext, Started
<1>9. CASE ReapOne
  BY <1>1, <1>9 DEF ReapOne, NoFork
<1> QED
  BY <1>3, <1>4, <1>5, <1>6, <1>7, <1>8, <1>9 DEF SsStep

-----------------------------------------------------------------------------
(* The parts of the invariant over a step.                                 *)

(* Pids that were given out keep their owner.                              *)
Older ==
  next <= next' /\ next' \in Nat /\ \A p \in Pids : p < next => owner'[p] = owner[p]

LEMMA KnownKept ==
  ASSUME IInv, Known, Older, UNCHANGED <<desc, sm>>
  PROVE  Known'
<1>1. next \in Nat /\ Pids \subseteq Nat
  BY Basics
<1>2. \A p \in Pids : p < next => p < next' /\ owner'[p] = owner[p]
  BY <1>1 DEF Older
<1> QED
  BY <1>2 DEF Known

LEMMA BeatsKept ==
  ASSUME IInv, Beats, Older, UNCHANGED desc, inbox'["statmgr"] = inbox["statmgr"]
  PROVE  Beats'
<1>1. next \in Nat /\ Pids \subseteq Nat /\ inbox \in Boxes /\ "statmgr" \in Readers
  BY Basics, PollsWants
<1>2. \A p \in Pids : p < next => p < next' /\ owner'[p] = owner[p]
  BY <1>1 DEF Older
<1>3. ASSUME NEW m \in Messages, InTime(m)
      PROVE  m.type = "heartbeat" =>
               m.pid < next' /\ owner'[m.pid] = m.mod /\ desc'[m.mod].pid <= m.pid
  BY <1>2, <1>3, MessageKinds DEF InTime
<1>4. PICK box : box = inbox["statmgr"]
  OBVIOUS
<1>5. \A r \in Rings : \A k \in DOMAIN box[r] : box[r][k] \in Messages
  BY <1>1, <1>4, BoxMessages
<1> QED
  BY <1>3, <1>4, <1>5 DEF Beats, InTime

(* No process starts or is forked, and no restart that is read by one      *)
(* reader and not by the other.                                            *)
LEMMA BothKept ==
  ASSUME IInv, Both, Older,
         \A p \in Pids : Restart(p) \in Unread("statmgr")' => Restart(p) \in Unread("statmgr"),
         \A p \in Pids : p < next /\ proc'[p] = "running" => proc[p] = "running",
         \A p \in Pids :
           Restart(p) \in Unread("startstop") /\ proc[p] = "running" /\ proc'[p] = "running"
             => Restart(p) \in Unread("startstop")'
  PROVE  Both'
<1>1. next \in Nat /\ Pids \subseteq Nat
  BY Basics
<1> QED
  BY <1>1 DEF Both, Older

LEMMA SmUpKept ==
  ASSUME IInv, Known, Ends \/ Forks, SmUp, Running(Statmgr)'
  PROVE  proc'[sm.pid] = "running"
<1>1. sm.pid \in Pids /\ proc[sm.pid] = "running" /\ owner[sm.pid] = Statmgr
  BY DEF SmUp, Known
<1>2. child[Statmgr].pid = sm.pid
  BY <1>1 DEF IInv, Safe, Listed
<1>3. PICK p \in Pids : proc'[p] = "running" /\ owner'[p] = Statmgr
  BY DEF Running
<1>4. proc[p] = "running" /\ owner[p] = Statmgr => p = sm.pid
  BY <1>2 DEF IInv, Safe, Listed
<1>5. CASE Ends
  BY <1>3, <1>4, <1>5 DEF Ends
<1>6. CASE Forks
  <2>1. ~Running(ss.idx)
    BY <1>6 DEF Forks
  <2>2. CASE UNCHANGED <<proc, owner, next>>
    BY <1>3, <1>4, <2>2
  <2>3. CASE /\ proc' = [proc EXCEPT ![next] = "running"] /\ next \in Pids
             /\ owner' = [owner EXCEPT ![next] = ss.idx]
    <3>1. p # next
      <4>1. owner'[next] = ss.idx
        BY <2>3, Basics
      <4>2. Running(Statmgr)
        BY <1>1 DEF Running
      <4> QED
        BY <1>3, <2>1, <4>1, <4>2
    <3> QED
      BY <1>3, <1>4, <2>3, <3>1, Basics
  <2> QED
    BY <1>6, <2>2, <2>3, ForkDoes
<1> QED
  BY <1>5, <1>6

LEMMA SsAtRest ==
  ASSUME IInv, Newest, Known, SsStep, Ends \/ Forks, UNCHANGED <<desc, sm>>,
         Running(Statmgr)', NEW m \in Children, AtRest(m)
  PROVE  AtRest(m)'
<1>1. /\ SmUp /\ child[m].pid \in Pids /\ desc[m].pid = child[m].pid
      /\ Halting(m) /\ NoRestart(m) /\ NoFork(m)
  BY DEF AtRest
<1>2. sm.pid \in Pids /\ owner[sm.pid] = Statmgr /\ proc'[sm.pid] = "running"
  BY <1>1, SmUpKept DEF SmUp, Known
<1>3. SmUp'
  BY <1>2 DEF SmUp
<1>4. child'[m].pid = child[m].pid
  <2>1. CASE Ends
    BY <2>1 DEF Ends
  <2>2. CASE Forks
    <3>1. m # ss.idx /\ ss.idx \in Children
      <4>1. ss.pc \in {"start", "spawn", "fork"} /\ ss.idx \in Entries
        BY <2>2 DEF Forks
      <4> QED
        BY <1>1, <4>1, Basics DEF NoFork, Children
    <3> QED
      BY <2>2, <3>1, ForkDoes, Basics
  <2> QED
    BY <2>1, <2>2
<1>5. /\ inbox'["statmgr"] = inbox["statmgr"]
      /\ \A n : n \in Unread("startstop")' => n \in Unread("startstop")
  BY SsMessages
<1>6. Halting(m)'
  BY <1>1, <1>4, <1>5 DEF Halting
<1>7. Unread("statmgr")' = Unread("statmgr")
  BY <1>5 DEF Unread
<1>8. NoRestart(m)'
  BY <1>1, <1>4, <1>5, <1>7 DEF NoRestart
<1>9. NoFork(m)'
  BY <1>1, <1>2, NoForkKept DEF NoRestart
<1> QED
  BY <1>1, <1>3, <1>4, <1>6, <1>8, <1>9 DEF AtRest

LEMMA SsStop ==
  ASSUME IInv, IInv', StopInv, StartStopStep
  PROVE  StopInv'
<1>1. /\ SsStep /\ UNCHANGED <<desc, sm>>
      /\ halted' = IF Running(Statmgr) /\ ~Running(Statmgr)' THEN NoneHalted ELSE halted
  BY DEF StartStopStep, smVars
<1>2. Newest /\ Known /\ Beats /\ Both /\ Undisturbed
  BY DEF StopInv
<1>3. Ends \/ Forks
  BY <1>1, SsKinds
<1>4. Newest' /\ Older
  <2>1. next' \in 1 .. MaxPid + 1 /\ MaxPid \in Nat
    BY ControlAssumption DEF IInv, TypeOK, SsTypeOK
  <2> QED
    BY <1>2, <1>3, <2>1, NewestKept DEF Older
<1>5. Known'
  BY <1>1, <1>2, <1>4, KnownKept
<1>6. Beats'
  BY <1>1, <1>2, <1>4, BeatsKept, SsMessages
<1>7. Both'
  <2>1. Unread("statmgr")' = Unread("statmgr")
    BY <1>1, SsMessages DEF Unread
  <2>2. \A p \in Pids : p < next /\ proc'[p] = "running" => proc[p] = "running"
    <3>1. CASE Ends
      BY <3>1 DEF Ends
    <3>2. CASE Forks
      BY <3>2, ForkDoes, Basics
    <3> QED
      BY <1>3, <3>1, <3>2
  <2> QED
    BY <1>1, <1>2, <1>4, <2>1, <2>2, BothKept, SsMessages
<1>8. Undisturbed'
  <2> SUFFICES ASSUME NEW m \in Children, halted'[m] = "calm" PROVE AtRest(m)'
    BY DEF Undisturbed
  <2>1. halted' = halted /\ (Running(Statmgr) => Running(Statmgr)')
    BY <1>1 DEF NoneHalted
  <2>2. AtRest(m)
    BY <1>2, <2>1 DEF Undisturbed
  <2>3. Running(Statmgr)
    <3>1. sm.pid \in Pids /\ proc[sm.pid] = "running" /\ owner[sm.pid] = Statmgr
      BY <1>2, <2>2 DEF AtRest, SmUp, Known
    <3> QED
      BY <3>1 DEF Running
  <2> QED
    BY <1>1, <1>2, <1>3, <2>1, <2>2, <2>3, SsAtRest
<1> QED
  BY <1>4, <1>5, <1>6, <1>7, <1>8 DEF StopInv

LEMMA RestFrame ==
  ASSUME NEW m \in Children, AtRest(m), SmUp',
         child'[m].pid = child[m].pid, UNCHANGED ss,
         desc'[m].pid = desc[m].pid, desc'[m].restart = desc[m].restart,
         sm'.pc = "get" \/ desc[m].restart = "stopped",
         \A k \in DOMAIN inbox["statmgr"][LastRing] :
           inbox["statmgr"][LastRing][k] = Stop(child[m].pid) =>
             \E j \in DOMAIN inbox'["statmgr"][LastRing] :
               inbox'["statmgr"][LastRing][j] = Stop(child[m].pid),
         \A x \in {"startstop", "statmgr"} :
           Restart(child[m].pid) \in Unread(x)' => Restart(child[m].pid) \in Unread(x)
  PROVE  AtRest(m)'
<1>1. /\ child[m].pid \in Pids /\ desc[m].pid = child[m].pid
      /\ Halting(m) /\ NoRestart(m) /\ NoFork(m)
  BY DEF AtRest
<1>2. Halting(m)'
  BY <1>1 DEF Halting
<1>3. NoRestart(m)'
  BY <1>1 DEF NoRestart
<1>4. NoFork(m)'
  BY <1>1 DEF NoFork
<1> QED
  BY <1>1, <1>2, <1>3, <1>4 DEF AtRest

LEMMA NewestSame ==
  ASSUME Newest, UNCHANGED <<owner, child, nChild, next>>
  PROVE  Newest'
  BY DEF Newest, Entries

LEMMA OlderSame ==
  ASSUME IInv, UNCHANGED <<owner, next>>
  PROVE  Older
  BY Basics DEF Older

LEMMA GotBeats ==
  ASSUME IInv, Beats, UNCHANGED <<owner, next>>, NEW ring \in Rings,
         Available("statmgr", ring), inbox' = Got("statmgr", ring),
         \A i \in Children :
           \/ desc'[i].pid = desc[i].pid
           \/ /\ Next1("statmgr", ring).type = "heartbeat"
              /\ Next1("statmgr", ring).mod = i /\ desc'[i].pid = Next1("statmgr", ring).pid
  PROVE  Beats'
<1>0. inbox \in Boxes /\ "statmgr" \in Readers
  BY Basics, PollsWants
<1>1. PICK old, new, h : old = inbox["statmgr"] /\ new = inbox'["statmgr"] /\ h = Next1("statmgr", ring)
  OBVIOUS
<1>2. ASSUME NEW r \in Rings
      PROVE  /\ \A k \in DOMAIN old[r] : old[r][k] \in Messages /\ InTime(old[r][k])
                     /\ (old[r][k].type = "heartbeat" => r = BeatRing)
             /\ \A j, k \in DOMAIN old[r] : j <= k => Follows(old[r][j], old[r][k])
  BY <1>0, <1>1, BoxMessages DEF Beats
<1>3. ASSUME NEW r \in Rings
      PROVE  /\ r # ring => new[r] = old[r]
             /\ r = ring =>
                  /\ 1 \in DOMAIN old[r] /\ old[r][1] = h
                  /\ \A k \in DOMAIN new[r] : /\ k \in Nat /\ 1 <= k /\ k + 1 \in DOMAIN old[r]
                                              /\ new[r][k] = old[r][k + 1]
  BY <1>0, <1>1, GotPlaces
<1>4. ASSUME NEW r \in Rings, NEW k \in DOMAIN new[r]
      PROVE  /\ new[r][k].type = "heartbeat" => r = BeatRing
             /\ InTime(new[r][k])'
  <2>1. PICK n : n = new[r][k]
    OBVIOUS
  <2>2. \E j \in DOMAIN old[r] : n = old[r][j] /\ (r = ring => 1 <= j)
    BY <1>3, <2>1
  <2>3. n \in Messages /\ InTime(n) /\ (n.type = "heartbeat" => r = BeatRing)
    BY <1>2, <2>2
  <2>4. ASSUME n.type = "heartbeat"
        PROVE  n.pid < next' /\ owner'[n.pid] = n.mod /\ desc'[n.mod].pid <= n.pid
    <3>1. n.pid < next /\ owner[n.pid] = n.mod /\ desc[n.mod].pid <= n.pid /\ n.mod \in Children
      BY <2>3, <2>4, MessageKinds DEF InTime
    <3>2. CASE desc'[n.mod].pid = desc[n.mod].pid
      BY <3>1, <3>2
    <3>3. CASE h.type = "heartbeat" /\ h.mod = n.mod /\ desc'[n.mod].pid = h.pid
      <4>1. ring = BeatRing /\ r = ring
        BY <1>2, <1>3, <2>3, <2>4, <3>3
      <4>2. PICK j \in DOMAIN old[r] : n = old[r][j] /\ 1 <= j
        BY <2>2, <4>1
      <4>3. Follows(old[r][1], old[r][j]) /\ old[r][1] = h
        BY <1>2, <1>3, <4>1, <4>2
      <4>4. h.pid <= n.pid
        BY <2>4, <3>3, <4>2, <4>3 DEF Follows
      <4> QED
        BY <3>1, <3>3, <4>4
    <3> QED
      BY <1>1, <3>1, <3>2, <3>3
  <2> QED
    BY <2>1, <2>3, <2>4 DEF InTime
<1>5. ASSUME NEW r \in Rings, NEW j \in DOMAIN new[r], NEW k \in DOMAIN new[r], j <= k
      PROVE  Follows(new[r][j], new[r][k])
  <2>1. CASE r # ring
    BY <1>2, <1>3, <1>5, <2>1
  <2>2. CASE r = ring
    <3>1. /\ j \in Nat /\ k \in Nat /\ j + 1 \in DOMAIN old[r] /\ k + 1 \in DOMAIN old[r]
          /\ new[r][j] = old[r][j + 1] /\ new[r][k] = old[r][k + 1]
      BY <1>3, <2>2
    <3>2. j + 1 <= k + 1
      BY <1>5, <3>1
    <3> QED
      BY <1>2, <3>1, <3>2
  <2> QED
    BY <2>1, <2>2
<1>6. \A r \in Rings :
        /\ \A k \in DOMAIN new[r] :
             InTime(new[r][k])' /\ (new[r][k].type = "heartbeat" => r = BeatRing)
        /\ \A j, k \in DOMAIN new[r] : j <= k => Follows(new[r][j], new[r][k])
  BY <1>4, <1>5
<1> QED
  BY <1>1, <1>6 DEF Beats, InTime

LEMMA PutBeats ==
  ASSUME IInv, Newest, Beats, UNCHANGED <<owner, next>>,
         \A i \in Children : desc'[i].pid = desc[i].pid,
         NEW ring \in Rings, NEW n \in Messages, inbox' = Put(inbox, ring, n),
         n.type = "heartbeat" =>
           /\ ring = BeatRing /\ owner[n.pid] = n.mod /\ desc[n.mod].pid <= n.pid
           /\ proc[n.pid] = "running"
  PROVE  Beats'
<1>0. inbox \in Boxes /\ "statmgr" \in Readers
  BY Basics, PollsWants
<1>1. PICK old, new : old = inbox["statmgr"] /\ new = inbox'["statmgr"]
  OBVIOUS
<1>2. ASSUME NEW r \in Rings
      PROVE  /\ \A k \in DOMAIN old[r] : old[r][k] \in Messages /\ InTime(old[r][k])
                     /\ (old[r][k].type = "heartbeat" => r = BeatRing)
             /\ \A j, k \in DOMAIN old[r] : j <= k => Follows(old[r][j], old[r][k])
             /\ \A k \in DOMAIN old[r] : k \in Nat
  <2>1. \A k \in DOMAIN old[r] : old[r][k] \in Messages /\ old[r] \in Seq(Messages)
    BY <1>0, <1>1, BoxMessages
  <2>2. \A k \in DOMAIN old[r] : k \in Nat
    BY <2>1
  <2> QED
    BY <1>1, <2>1, <2>2 DEF Beats
<1>3. ASSUME NEW r \in Rings, NEW k \in DOMAIN new[r]
      PROVE  \/ k \in DOMAIN old[r] /\ new[r][k] = old[r][k]
             \/ new[r][k] = n /\ r = ring /\ k \in Nat /\ \A j \in DOMAIN old[r] : j < k
  BY <1>0, <1>1, PutPlaces
<1>4. InTime(n) /\ (n.type = "heartbeat" => n.mod \in Children /\ n.pid \in Pids /\ n.pid < next)
  <2>1. n.type = "heartbeat" => n.mod \in Children /\ n.pid \in Pids
    BY MessageKinds
  <2> QED
    BY <2>1, RunsNewest DEF InTime
<1>5. ASSUME NEW m \in Messages, InTime(m)
      PROVE  m.type = "heartbeat" =>
               m.pid < next' /\ owner'[m.pid] = m.mod /\ desc'[m.mod].pid <= m.pid
  BY <1>5, MessageKinds DEF InTime
<1>6. ASSUME NEW m \in Messages, InTime(m) PROVE Follows(m, n)
  <2> SUFFICES ASSUME m.type = "heartbeat", n.type = "heartbeat", m.mod = n.mod
               PROVE  m.pid <= n.pid
    BY DEF Follows
  <2>1. m.pid \in Pids /\ m.pid < next /\ owner[m.pid] = owner[n.pid]
    BY <1>6, MessageKinds DEF InTime
  <2> QED
    BY <1>4, <2>1, RunsNewest
<1>7. Follows(n, n)
  BY <1>4, Basics DEF Follows
<1>8. ASSUME NEW r \in Rings, NEW k \in DOMAIN new[r]
      PROVE  InTime(new[r][k])' /\ (new[r][k].type = "heartbeat" => r = BeatRing)
  <2>1. PICK m : m = new[r][k]
    OBVIOUS
  <2>2. m \in Messages /\ InTime(m) /\ (m.type = "heartbeat" => r = BeatRing)
    BY <1>2, <1>3, <1>4, <2>1
  <2> QED
    BY <1>5, <2>1, <2>2 DEF InTime
<1>9. ASSUME NEW r \in Rings, NEW j \in DOMAIN new[r], NEW k \in DOMAIN new[r], j <= k
      PROVE  Follows(new[r][j], new[r][k])
  <2>1. CASE j \in DOMAIN old[r] /\ k \in DOMAIN old[r]
    BY <1>2, <1>3, <1>9, <2>1
  <2>2. CASE k \notin DOMAIN old[r]
    BY <1>2, <1>3, <1>6, <1>7, <2>2
  <2>3. CASE j \notin DOMAIN old[r] /\ k \in DOMAIN old[r]
    BY <1>2, <1>3, <1>9, <2>3
  <2> QED
    BY <2>1, <2>2, <2>3
<1>10. \A r \in Rings :
        /\ \A k \in DOMAIN new[r] :
             InTime(new[r][k])' /\ (new[r][k].type = "heartbeat" => r = BeatRing)
        /\ \A j, k \in DOMAIN new[r] : j <= k => Follows(new[r][j], new[r][k])
  BY <1>8, <1>9
<1> QED
  BY <1>1, <1>10 DEF Beats, InTime

(* statmgr takes a message: a stop marks who was stopped, a heartbeat      *)
(* tells no more than is known of a module at rest.                        *)
LEMMA TakesAtRest ==
  ASSUME IInv, Newest, Beats, UNCHANGED <<proc, owner, child, nChild, next, ss, sm>>,
         NEW ring \in Rings, HeartBeat(ring) \/ SeeOrder(ring), NEW m \in Children, AtRest(m)
  PROVE  AtRest(m)'
<1>0. /\ inbox \in Boxes /\ "statmgr" \in Readers /\ "startstop" \in Readers
      /\ LastRing \in Rings /\ desc[m] \in Descriptor /\ desc \in [Children -> Descriptor]
  BY Basics, PollsWants
<1>1. PICK h : h = Next1("statmgr", ring)
  OBVIOUS
<1>2. Available("statmgr", ring) /\ inbox' = Got("statmgr", ring)
  BY DEF HeartBeat, SeeOrder, SmPoll
<1>3. /\ SmUp /\ child[m].pid \in Pids /\ desc[m].pid = child[m].pid
      /\ Halting(m) /\ NoRestart(m)
  BY DEF AtRest
<1>4. h \in Unread("statmgr") /\ h \in Messages
  BY <1>0, <1>1, <1>2, GotUnread, GotType
<1>5. \A x \in {"startstop", "statmgr"} :
        Restart(child[m].pid) \in Unread(x)' => Restart(child[m].pid) \in Unread(x)
  BY <1>0, <1>2, GotUnread
<1>6. \A k \in DOMAIN inbox["statmgr"][LastRing] :
        inbox["statmgr"][LastRing][k] = Stop(child[m].pid) =>
          \/ h = Stop(child[m].pid)
          \/ \E j \in DOMAIN inbox'["statmgr"][LastRing] :
               inbox'["statmgr"][LastRing][j] = Stop(child[m].pid)
  <2> SUFFICES ASSUME NEW k \in DOMAIN inbox["statmgr"][LastRing],
                      inbox["statmgr"][LastRing][k] = Stop(child[m].pid)
               PROVE  \/ h = Stop(child[m].pid)
                      \/ \E j \in DOMAIN inbox'["statmgr"][LastRing] :
                           inbox'["statmgr"][LastRing][j] = Stop(child[m].pid)
    OBVIOUS
  <2>1. CASE ring # LastRing
    <3>1. inbox'["statmgr"][LastRing] = inbox["statmgr"][LastRing]
      BY <1>0, <1>2, <2>1, GotPlaces
    <3> QED
      BY <3>1
  <2>2. CASE ring = LastRing
    <3>1. /\ inbox["statmgr"][LastRing][1] = h
          /\ k # 1 => /\ k - 1 \in DOMAIN inbox'["statmgr"][LastRing]
                      /\ inbox'["statmgr"][LastRing][k - 1] = inbox["statmgr"][LastRing][k]
      BY <1>0, <1>1, <1>2, <2>2, GotPlaces
    <3> QED
      BY <3>1
  <2> QED
    BY <2>1, <2>2
<1>7. SmUp' /\ sm' = sm /\ child' = child /\ ss' = ss
  BY <1>3 DEF SmUp
<1>8. CASE HeartBeat(ring)
  <2>1. h.type = "heartbeat" /\ h # Stop(child[m].pid)
    BY <1>1, <1>8 DEF HeartBeat, Stop
  <2>2. h.mod = m => h.pid = child[m].pid
    <3>1. InTime(h)
      <4>1. \E k \in DOMAIN inbox["statmgr"][ring] : inbox["statmgr"][ring][k] = h
        BY <1>0, <1>1, <1>2, GotPlaces
      <4> QED
        BY <4>1 DEF Beats
    <3>2. h.pid \in Pids
      BY <1>4, <2>1, MessageKinds
    <3>3. h.mod = m => /\ h.pid < next /\ owner[h.pid] = m /\ child[m].pid <= h.pid
      BY <1>3, <2>1, <3>1 DEF InTime
    <3>4. h.mod = m => h.pid <= child[m].pid
      BY <1>3, <3>2, <3>3 DEF Newest
    <3> QED
      BY <1>3, <3>2, <3>3, <3>4, Basics
  <2>3. desc'[m].pid = desc[m].pid /\ desc'[m].restart = desc[m].restart
    <3>1. desc[m].restart # "unknownpid"
      BY <1>3 DEF Halting
    <3>2. Beaten(desc[m], h.pid).restart = desc[m].restart /\ Beaten(desc[m], h.pid).pid = h.pid
      BY <1>0, <3>1 DEF Beaten, Descriptor
    <3>3. h.mod \in Children
      BY <1>4, <2>1, MessageKinds
    <3>4. \/ desc'[m] = desc[m]
          \/ h.mod = m /\ desc'[m] = Beaten(desc[m], h.pid)
      BY <1>0, <1>1, <1>8, <3>3 DEF HeartBeat
    <3> QED
      BY <1>3, <2>2, <3>2, <3>4
  <2>4. sm'.pc = "get" \/ desc[m].restart = "stopped"
    BY <1>3, <1>7 DEF Halting
  <2> QED
    BY <1>5, <1>6, <1>7, <2>1, <2>3, <2>4, RestFrame
<1>9. CASE SeeOrder(ring)
  <2>1. h.type \in {"stop", "restart"}
    BY <1>1, <1>9 DEF SeeOrder
  <2>2. desc'[m] = IF desc[m].pid = h.pid THEN Marked(desc[m], h.type) ELSE desc[m]
    BY <1>1, <1>9 DEF SeeOrder
  <2>3. h # Restart(child[m].pid)
    BY <1>3, <1>4 DEF NoRestart
  <2>4. CASE desc[m].pid = h.pid
    <3>1. h.type = "stop" /\ h = Stop(child[m].pid)
      BY <1>3, <1>4, <2>1, <2>3, <2>4, MessageKinds
    <3>2. desc'[m].restart = "stopped" /\ desc'[m].pid = desc[m].pid
      <4>1. desc[m].restart \in {"stopped", "restartme"}
        BY <1>3 DEF Halting
      <4> QED
        BY <1>0, <2>2, <2>4, <3>1, <4>1 DEF Marked, Descriptor
    <3>3. Halting(m)'
      BY <3>2 DEF Halting
    <3>4. NoRestart(m)'
      BY <1>3, <1>5, <1>7 DEF NoRestart
    <3>5. NoFork(m)'
      BY <1>7 DEF AtRest, NoFork
    <3> QED
      BY <1>3, <1>7, <3>2, <3>3, <3>4, <3>5 DEF AtRest
  <2>5. CASE desc[m].pid # h.pid
    <3>1. desc'[m] = desc[m] /\ h # Stop(child[m].pid)
      BY <1>3, <2>2, <2>5 DEF Stop
    <3>2. sm'.pc = "get" \/ desc[m].restart = "stopped"
      BY <1>3, <1>7 DEF Halting
    <3> QED
      BY <1>5, <1>6, <1>7, <3>1, <3>2, RestFrame
  <2> QED
    BY <2>4, <2>5
<1> QED
  BY <1>8, <1>9

LEMMA TakesStop ==
  ASSUME IInv, StopInv, UNCHANGED <<proc, owner, child, nChild, next, ss, halted>>,
         NEW ring \in Rings, HeartBeat(ring) \/ SeeOrder(ring)
  PROVE  StopInv'
<1>0. /\ inbox \in Boxes /\ "statmgr" \in Readers /\ "startstop" \in Readers
      /\ desc \in [Children -> Descriptor]
      /\ Newest /\ Known /\ Beats /\ Both /\ Undisturbed
  BY Basics, PollsWants DEF StopInv
<1>1. PICK h : h = Next1("statmgr", ring)
  OBVIOUS
<1>2. Available("statmgr", ring) /\ inbox' = Got("statmgr", ring) /\ UNCHANGED sm
  BY DEF HeartBeat, SeeOrder, SmPoll
<1>3. h \in Messages /\ InTime(h)
  <2>1. \E k \in DOMAIN inbox["statmgr"][ring] : inbox["statmgr"][ring][k] = h
    BY <1>0, <1>1, <1>2, GotPlaces
  <2> QED
    BY <1>0, <1>1, <1>2, <2>1, GotType DEF Beats
<1>4. ASSUME NEW i \in Children
      PROVE  \/ desc'[i].pid = desc[i].pid
             \/ h.type = "heartbeat" /\ h.mod = i /\ desc'[i].pid = h.pid
  <2>1. CASE HeartBeat(ring)
    <3>1. h.type = "heartbeat" /\ h.mod \in Children
      BY <1>1, <1>3, <2>1, MessageKinds DEF HeartBeat
    <3>2. \/ desc'[i] = desc[i]
          \/ h.mod = i /\ desc'[i] = Beaten(desc[i], h.pid)
      BY <1>0, <1>1, <2>1, <3>1 DEF HeartBeat
    <3>3. Beaten(desc[i], h.pid).pid = h.pid
      BY <1>0 DEF Beaten, Descriptor
    <3> QED
      BY <3>1, <3>2, <3>3
  <2>2. CASE SeeOrder(ring)
    <3>1. desc'[i] = IF desc[i].pid = h.pid THEN Marked(desc[i], h.type) ELSE desc[i]
      BY <1>1, <2>2 DEF SeeOrder
    <3>2. Marked(desc[i], h.type).pid = desc[i].pid
      BY <1>0 DEF Marked, Descriptor
    <3> QED
      BY <3>1, <3>2
  <2> QED
    BY <2>1, <2>2
<1>5. Newest'
  BY <1>0, NewestSame
<1>6. Known'
  <2>1. ASSUME NEW i \in Children, desc'[i].pid \in Pids
        PROVE  desc'[i].pid < next /\ owner[desc'[i].pid] = i
    BY <1>0, <1>3, <1>4, <2>1 DEF Known, InTime
  <2> QED
    BY <1>0, <1>2, <2>1 DEF Known
<1>7. Beats'
  BY <1>0, <1>1, <1>2, <1>4, GotBeats
<1>8. Both'
  BY <1>0, <1>2, OlderSame, GotUnread, BothKept
<1>9. Undisturbed'
  BY <1>0, <1>2, TakesAtRest DEF Undisturbed
<1> QED
  BY <1>5, <1>6, <1>7, <1>8, <1>9 DEF StopInv

LEMMA BootStop ==
  ASSUME IInv, StopInv, UNCHANGED <<proc, owner, child, nChild, next, ss, halted>>,
         Boot(Statmgr)
  PROVE  StopInv'
<1>0. /\ inbox \in Boxes /\ "statmgr" \in Readers
      /\ Newest /\ Known /\ Beats /\ Both /\ Undisturbed
  BY Basics, PollsWants DEF StopInv
<1>1. PICK p \in Pids : /\ proc[p] = "running" /\ owner[p] = Statmgr /\ sm.pid # p
                        /\ sm' = Attached(p)
  BY DEF Boot
<1>2. desc' = FirstDesc /\ \A r \in Rings : inbox'["statmgr"][r] = <<>>
  BY <1>0 DEF Boot, Boxes
<1>3. Newest'
  BY <1>0, NewestSame
<1>4. Known'
  <2>1. sm'.pid = p /\ p < next
    BY <1>0, <1>1, RunsNewest DEF Attached
  <2>2. \A i \in Children : desc'[i].pid = 0
    BY <1>2 DEF FirstDesc
  <2> QED
    BY <1>1, <2>1, <2>2, Basics DEF Known
<1>5. Unread("statmgr")' = {} /\ Beats'
  BY <1>2 DEF Unread, Beats
<1>6. Both'
  BY <1>5 DEF Both
<1>7. ASSUME NEW m \in Children PROVE halted[m] # "calm"
  <2> SUFFICES ASSUME AtRest(m) PROVE FALSE
    BY <1>0 DEF Undisturbed
  <2>1. sm.pid \in Pids /\ proc[sm.pid] = "running" /\ owner[sm.pid] = Statmgr
    BY <1>0 DEF AtRest, SmUp, Known
  <2> QED
    BY <1>1, <2>1 DEF IInv, Safe, Listed
<1>8. Undisturbed'
  BY <1>7 DEF Undisturbed
<1> QED
  BY <1>3, <1>4, <1>5, <1>6, <1>8 DEF StopInv

LEMMA ChoresStop ==
  ASSUME IInv, StopInv, UNCHANGED <<proc, owner, child, nChild, next, ss, halted>>,
         Quiet \/ Rested
  PROVE  StopInv'
<1>0. /\ Newest /\ Known /\ Beats /\ Both /\ Undisturbed
      /\ sm \in [pid : {0} \cup Pids, pc : {"get", "chores"}, j : 1 .. MaxChild + 1]
  BY DEF StopInv, IInv, TypeOK, SmTypeOK
<1>1. UNCHANGED <<desc, inbox>> /\ sm'.pid = sm.pid
  BY <1>0 DEF Quiet, Rested
<1>2. Newest' /\ Known' /\ Beats' /\ Both'
  <2>1. Newest'
    BY <1>0, NewestSame
  <2>2. Known'
    BY <1>0, <1>1 DEF Known
  <2>3. Beats'
    BY <1>0, <1>1 DEF Beats, InTime
  <2>4. Both'
    BY <1>0, <1>1 DEF Both, Unread
  <2> QED
    BY <2>1, <2>2, <2>3, <2>4
<1>3. ASSUME NEW m \in Children, AtRest(m) PROVE AtRest(m)'
  <2>1. SmUp' /\ child' = child /\ ss' = ss /\ desc' = desc
    BY <1>1, <1>3 DEF AtRest, SmUp
  <2>2. desc[m].restart = "stopped"
    BY <1>3 DEF AtRest, Halting, Quiet, Rested, NothingLeft
  <2> QED
    BY <1>1, <1>3, <2>1, <2>2, RestFrame DEF Unread
<1> QED
  BY <1>0, <1>2, <1>3 DEF StopInv, Undisturbed

(* A put leaves a module at rest, unless it asks for its restart.          *)
LEMMA PutAtRest ==
  ASSUME IInv, NEW m \in Children, AtRest(m), SmUp',
         UNCHANGED <<child, ss>>,
         desc'[m].pid = desc[m].pid, desc'[m].restart = desc[m].restart,
         sm'.pc = "get" \/ desc[m].restart = "stopped",
         NEW ring \in Rings, NEW n \in Messages, inbox' = Put(inbox, ring, n),
         n # Restart(child[m].pid)
  PROVE  AtRest(m)'
<1>1. inbox \in Boxes /\ "statmgr" \in Readers /\ "startstop" \in Readers /\ LastRing \in Rings
  BY Basics, PollsWants
<1>2. \A x \in {"startstop", "statmgr"} :
        Restart(child[m].pid) \in Unread(x)' => Restart(child[m].pid) \in Unread(x)
  BY <1>1, PutUnread
<1>3. \A k \in DOMAIN inbox["statmgr"][LastRing] :
        k \in DOMAIN inbox'["statmgr"][LastRing] /\
        inbox'["statmgr"][LastRing][k] = inbox["statmgr"][LastRing][k]
  BY <1>1, PutPlaces
<1>4. \A k \in DOMAIN inbox["statmgr"][LastRing] :
        inbox["statmgr"][LastRing][k] = Stop(child[m].pid) =>
          \E j \in DOMAIN inbox'["statmgr"][LastRing] :
            inbox'["statmgr"][LastRing][j] = Stop(child[m].pid)
  BY <1>3
<1>5. child'[m].pid = child[m].pid
  OBVIOUS
<1> QED
  BY <1>2, <1>4, <1>5, RestFrame

(* What all but Undisturbed need of a put.                                 *)
LEMMA PutStop ==
  ASSUME IInv, StopInv, UNCHANGED <<owner, child, nChild, next>>, sm'.pid = sm.pid,
         \A i \in Children : desc'[i].pid = desc[i].pid,
         \A p \in Pids : proc'[p] = "running" => proc[p] = "running",
         NEW ring \in Rings, NEW n \in Messages, inbox' = Put(inbox, ring, n),
         n.type = "heartbeat" =>
           /\ ring = BeatRing /\ owner[n.pid] = n.mod /\ desc[n.mod].pid <= n.pid
           /\ proc[n.pid] = "running",
         n.type = "restart" /\ n.pid \in Pids => n.pid < next
  PROVE  Newest' /\ Known' /\ Beats' /\ Both'
<1>0. /\ Newest /\ Known /\ Beats /\ Both /\ inbox \in Boxes
      /\ "statmgr" \in Readers /\ "startstop" \in Readers
  BY Basics, PollsWants DEF StopInv
<1>1. Newest'
  BY <1>0, NewestSame
<1>2. Known'
  BY <1>0 DEF Known
<1>3. Beats'
  BY <1>0, PutBeats
<1>4. ASSUME NEW p \in Pids, Restart(p) \in Unread("statmgr")'
      PROVE  /\ p < next'
             /\ proc'[p] = "running" => Restart(p) \in Unread("startstop")'
  <2>1. CASE Restart(p) \in Unread("statmgr")
    BY <1>0, <2>1, PutUnread DEF Both
  <2>2. CASE Restart(p) = n
    <3>1. n.type = "restart" /\ n.pid = p
      BY <2>2 DEF Restart
    <3>2. n \in Unread("startstop")'
      BY <1>0, <3>1, PutUnread, PollsWants
    <3> QED
      BY <2>2, <3>1, <3>2
  <2> QED
    BY <1>0, <1>4, <2>1, <2>2, PutUnread
<1>5. Both'
  BY <1>4 DEF Both
<1> QED
  BY <1>1, <1>2, <1>3, <1>5

LEMMA LateStop ==
  ASSUME IInv, StopInv, UNCHANGED <<proc, owner, child, nChild, next, ss, halted>>,
         NEW i \in Children, Late(i)
  PROVE  StopInv'
<1>0. /\ Newest /\ Known /\ Beats /\ Both /\ Undisturbed
      /\ sm \in [pid : {0} \cup Pids, pc : {"get", "chores"}, j : 1 .. MaxChild + 1]
      /\ desc \in [Children -> Descriptor] /\ desc[i] \in Descriptor
      /\ inbox \in Boxes /\ LastRing \in Rings /\ desc[i].pid \in {0} \cup Pids
  BY Basics, PollsWants DEF StopInv, IInv, TypeOK, SmTypeOK
<1>1. sm'.pid = sm.pid /\ sm.pc = "chores" /\ SmUp
  BY <1>0 DEF Late
<1>2. desc' = [desc EXCEPT ![i].alive = FALSE]
  BY DEF Late
<1>3. ASSUME NEW k \in Children
      PROVE  desc'[k].pid = desc[k].pid /\ desc'[k].restart = desc[k].restart
  BY <1>0, <1>2 DEF Descriptor
<1>4. SmUp'
  BY <1>1 DEF SmUp
<1>5. ASSUME NEW m \in Children, AtRest(m)
      PROVE  desc[m].restart = "stopped" /\ child[m].pid \in Pids /\ desc[m].pid = child[m].pid
  BY <1>1, <1>5 DEF AtRest, Halting
<1>6. CASE desc[i].restart = "restartme"
  <2>1. PICK n : n = Restart(desc[i].pid)
    OBVIOUS
  <2>2. n \in Messages /\ n.type = "restart" /\ n.pid = desc[i].pid
    BY <1>0, <2>1, Kinds, PidFacts DEF Restart
  <2>3. inbox' = Put(inbox, LastRing, n)
    BY <1>6, <2>1 DEF Late, Request, Restart
  <2>4. n.pid \in Pids => n.pid < next
    BY <1>0, <2>2 DEF Known
  <2>5. Newest' /\ Known' /\ Beats' /\ Both'
    BY <1>0, <1>1, <1>3, <2>2, <2>3, <2>4, PutStop
  <2>6. ASSUME NEW m \in Children, AtRest(m) PROVE AtRest(m)'
    <3>1. n # Restart(child[m].pid)
      <4>1. desc[i].pid \in Pids => owner[desc[i].pid] = i
        BY <1>0 DEF Known
      <4>2. owner[child[m].pid] = m
        BY <1>0, <1>5, <2>6 DEF Newest
      <4>3. i # m
        BY <1>5, <1>6, <2>6
      <4> QED
        BY <1>5, <2>1, <2>6, <4>1, <4>2, <4>3 DEF Restart
    <3> QED
      BY <1>0, <1>3, <1>4, <1>5, <2>2, <2>3, <2>6, <3>1, PutAtRest
  <2> QED
    BY <1>0, <2>5, <2>6 DEF StopInv, Undisturbed
<1>7. CASE desc[i].restart # "restartme"
  <2>1. inbox' = inbox
    BY <1>7 DEF Late
  <2>2. Newest' /\ Known'
    BY <1>0, <1>1, <1>3, NewestSame DEF Known
  <2>3. Beats'
    <3>1. \A r \in Rings : \A k \in DOMAIN inbox["statmgr"][r] : inbox["statmgr"][r][k] \in Messages
      BY <1>0, BoxMessages, PollsWants
    <3>2. ASSUME NEW n \in Messages, InTime(n)
          PROVE  n.type = "heartbeat" =>
                   n.pid < next' /\ owner'[n.pid] = n.mod /\ desc'[n.mod].pid <= n.pid
      BY <1>3, <3>2, MessageKinds DEF InTime
    <3> QED
      BY <1>0, <2>1, <3>1, <3>2 DEF Beats, InTime
  <2>4. Both'
    BY <1>0, <2>1 DEF Both, Unread
  <2>5. ASSUME NEW m \in Children, AtRest(m) PROVE AtRest(m)'
    BY <1>3, <1>4, <1>5, <2>1, <2>5, RestFrame DEF Unread
  <2> QED
    BY <1>0, <2>2, <2>3, <2>4, <2>5 DEF StopInv, Undisturbed
<1> QED
  BY <1>6, <1>7

LEMMA SmStop ==
  ASSUME IInv, StopInv, StatMgrStep
  PROVE  StopInv'
<1>1. UNCHANGED <<proc, owner, child, nChild, next, ss, halted>> /\ SmStep(Statmgr)
  BY DEF StatMgrStep, SmStep, ssVars, envVars
<1> QED
  BY <1>1, TakesStop, BootStop, ChoresStop, LateStop DEF SmStep

-----------------------------------------------------------------------------
(* Everybody else.                                                         *)

LEMMA BeatStop ==
  ASSUME IInv, StopInv, NEW p \in Pids, Beat(p)
  PROVE  StopInv'
<1>0. /\ Newest /\ Known /\ Beats /\ Both /\ Undisturbed /\ owner[p] \in Children
      /\ BeatRing \in Rings
  BY Basics, PollsWants DEF StopInv
<1>1. /\ proc[p] = "running" /\ SmUp
      /\ UNCHANGED <<proc, owner, child, nChild, next, ss, desc, sm, halted>>
  BY DEF Beat, ssVars, smVars, envVars
<1>2. PICK n : n = [type |-> "heartbeat", mod |-> owner[p], pid |-> p]
  OBVIOUS
<1>3. n \in Messages /\ n.type = "heartbeat" /\ n.mod = owner[p] /\ n.pid = p
  BY <1>0, <1>2, Kinds
<1>4. inbox' = Put(inbox, BeatRing, n)
  BY <1>2 DEF Beat
<1>5. desc[owner[p]].pid <= p
  <2>1. desc[owner[p]].pid \in {0} \cup Pids
    BY <1>0, Basics
  <2>2. CASE desc[owner[p]].pid \in Pids
    BY <1>0, <1>1, <2>2, RunsNewest DEF Known
  <2> QED
    BY <2>1, <2>2, Basics
<1>6. Newest' /\ Known' /\ Beats' /\ Both'
  BY <1>0, <1>1, <1>3, <1>4, <1>5, PutStop
<1>7. ASSUME NEW m \in Children, AtRest(m) PROVE AtRest(m)'
  <2>1. n # Restart(child[m].pid)
    BY <1>3 DEF Restart
  <2>2. SmUp' /\ (sm'.pc = "get" \/ desc[m].restart = "stopped")
    BY <1>1, <1>7 DEF AtRest, Halting, SmUp
  <2> QED
    BY <1>0, <1>1, <1>3, <1>4, <1>7, <2>1, <2>2, PutAtRest
<1> QED
  BY <1>0, <1>1, <1>6, <1>7 DEF StopInv, Undisturbed

LEMMA EndedStop ==
  ASSUME IInv, StopInv, NEW p \in Pids, Ended(p)
  PROVE  StopInv'
<1>0. /\ Newest /\ Known /\ Beats /\ Both /\ Undisturbed
  BY DEF StopInv
<1>1. /\ proc' = [proc EXCEPT ![p] = "zombie"]
      /\ halted' = IF owner[p] = Statmgr THEN NoneHalted ELSE halted
      /\ UNCHANGED <<owner, inbox, child, nChild, next, ss, desc, sm>>
  BY DEF Ended, ssVars, smVars
<1>2. \A q \in Pids : /\ proc'[q] = "running" => proc[q] = "running"
                      /\ q # p => proc'[q] = proc[q]
  BY <1>1, Basics
<1>3. Newest' /\ Known' /\ Beats'
  BY <1>0, <1>1, NewestSame DEF Known, Beats, InTime
<1>4. Both'
  BY <1>0, <1>1, <1>2 DEF Both, Unread
<1>5. ASSUME NEW m \in Children, halted'[m] = "calm" PROVE AtRest(m)'
  <2>1. owner[p] # Statmgr /\ AtRest(m)
    BY <1>0, <1>1, <1>5 DEF NoneHalted, Undisturbed
  <2>2. SmUp'
    BY <1>0, <1>1, <1>2, <2>1 DEF AtRest, SmUp, Known
  <2>3. sm'.pc = "get" \/ desc[m].restart = "stopped"
    BY <1>1, <2>1 DEF AtRest, Halting
  <2> QED
    BY <1>1, <2>1, <2>2, <2>3, RestFrame DEF Unread
<1> QED
  BY <1>3, <1>4, <1>5 DEF StopInv, Undisturbed

(* A request of an operator.                                               *)
LEMMA AskStop ==
  ASSUME IInv, StopInv, UNCHANGED <<proc, owner, child, nChild, next, ss, desc, sm>>,
         NEW n \in Messages, inbox' = Put(inbox, OpRing, n), n.type # "heartbeat",
         n.type = "restart" /\ n.pid \in Pids => n.pid < next,
         \A m \in Children : halted'[m] = "calm" =>
           \/ halted[m] = "calm" /\ n # Restart(child[m].pid)
           \/ Calm(m) /\ n = Stop(child[m].pid)
  PROVE  StopInv'
<1>0. /\ Newest /\ Known /\ Beats /\ Both /\ Undisturbed /\ OpRing \in Rings
      /\ inbox \in Boxes /\ "statmgr" \in Readers /\ "startstop" \in Readers
  BY Basics, PollsWants DEF StopInv
<1>1. Newest' /\ Known' /\ Beats' /\ Both'
  BY <1>0, PutStop
<1>2. ASSUME NEW m \in Children, AtRest(m), n # Restart(child[m].pid) PROVE AtRest(m)'
  <2>1. SmUp' /\ (sm'.pc = "get" \/ desc[m].restart = "stopped")
    BY <1>2 DEF AtRest, Halting, SmUp
  <2> QED
    BY <1>0, <1>2, <2>1, PutAtRest
<1>3. ASSUME NEW m \in Children, Calm(m), n = Stop(child[m].pid) PROVE AtRest(m)'
  <2>1. /\ SmUp /\ sm.pc = "get" /\ ss.pc = "poll" /\ OpRing = LastRing
        /\ desc[m].restart = "restartme" /\ desc[m].pid = child[m].pid
        /\ child[m].pid \in Pids /\ proc[child[m].pid] = "running"
        /\ Restart(child[m].pid) \notin Unread("startstop")
    BY <1>3 DEF Calm, Restart
  <2>2. Restart(child[m].pid) \notin Unread("statmgr")
    BY <1>0, <2>1 DEF Both
  <2>3. n.type = "stop" /\ n # Restart(child[m].pid)
    BY <1>3 DEF Stop, Restart
  <2>4. NoRestart(m)'
    BY <1>0, <2>1, <2>2, <2>3, PutUnread DEF NoRestart
  <2>5. \E k \in DOMAIN inbox'["statmgr"][LastRing] : inbox'["statmgr"][LastRing][k] = n
    BY <1>0, <2>1, <2>3, PutPlaces, PollsWants
  <2>6. Halting(m)'
    BY <1>3, <2>1, <2>5 DEF Halting
  <2>7. SmUp' /\ NoFork(m)'
    BY <2>1 DEF SmUp, NoFork
  <2> QED
    BY <2>1, <2>4, <2>6, <2>7 DEF AtRest
<1>4. Undisturbed'
  BY <1>0, <1>2, <1>3 DEF Undisturbed
<1> QED
  BY <1>1, <1>4 DEF StopInv

LEMMA OperatorStop ==
  ASSUME IInv, StopInv, NEW m \in Children, OpStop(m) \/ OpRestart(m)
  PROVE  StopInv'
<1>0. /\ child[m].pid \in PidValues /\ halted \in [Children -> {"no", "asked", "calm"}]
      /\ Newest /\ Undisturbed
  BY Basics DEF StopInv
<1>1. UNCHANGED <<proc, owner, child, nChild, next, ss, desc, sm>>
  BY DEF OpStop, OpRestart, ssVars, smVars
<1>2. child[m].pid \in Pids => child[m].pid < next /\ owner[child[m].pid] = m
  BY <1>0 DEF Newest
<1>3. CASE OpStop(m)
  <2>1. PICK n : n = Stop(child[m].pid)
    OBVIOUS
  <2>2. n \in Messages /\ n.type = "stop" /\ \A i \in Children : n # Restart(child[i].pid)
    BY <1>0, <2>1, Kinds DEF Stop, Restart
  <2>3. inbox' = Put(inbox, OpRing, n)
    BY <1>3, <2>1 DEF OpStop, Ask, Stop
  <2>4. \A i \in Children : halted'[i] = "calm" =>
          halted[i] = "calm" \/ (Calm(i) /\ n = Stop(child[i].pid))
    BY <1>0, <1>3, <2>1 DEF OpStop
  <2> QED
    BY <1>1, <2>2, <2>3, <2>4, AskStop
<1>4. CASE OpRestart(m)
  <2>1. PICK n : n = Restart(child[m].pid)
    OBVIOUS
  <2>2. n \in Messages /\ n.type = "restart" /\ n.pid = child[m].pid
    BY <1>0, <2>1, Kinds DEF Restart
  <2>3. inbox' = Put(inbox, OpRing, n)
    BY <1>4, <2>1 DEF OpRestart, Ask, Restart
  <2>4. ASSUME NEW i \in Children, halted'[i] = "calm"
        PROVE  halted[i] = "calm" /\ n # Restart(child[i].pid)
    <3>1. i # m /\ halted[i] = "calm"
      BY <1>0, <1>4, <2>4 DEF OpRestart
    <3>2. child[i].pid \in Pids /\ owner[child[i].pid] = i
      BY <1>0, <3>1 DEF Undisturbed, AtRest, Newest
    <3>3. child[i].pid # child[m].pid
      BY <1>2, <3>1, <3>2
    <3> QED
      BY <2>1, <3>1, <3>3 DEF Restart
  <2> QED
    BY <1>1, <1>2, <2>2, <2>3, <2>4, AskStop
<1> QED
  BY <1>3, <1>4

LEMMA RequestStop ==
  ASSUME IInv, StopInv, NEW type \in {"reqstatus", "reconfig"}, OpRequest(type)
  PROVE  StopInv'
<1>1. UNCHANGED <<proc, owner, child, nChild, next, ss, desc, sm, halted>>
  BY DEF OpRequest, ssVars, smVars
<1>2. PICK n : n = [type |-> type]
  OBVIOUS
<1>3. n \in Messages /\ n.type \in {"reqstatus", "reconfig"}
  BY <1>2, Kinds
<1>4. inbox' = Put(inbox, OpRing, n)
  BY <1>2 DEF OpRequest, Ask
<1>5. \A p : n # Restart(p)
  BY <1>3 DEF Restart
<1> QED
  BY <1>1, <1>3, <1>4, <1>5, AskStop

LEMMA EndingStop ==
  ASSUME IInv, StopInv, Pau \/ QuitStep
  PROVE  StopInv'
<1>0. Newest /\ Known /\ Beats /\ Both /\ Undisturbed
  BY DEF StopInv
<1>1. /\ UNCHANGED <<proc, owner, inbox, child, nChild, next, desc, sm, halted>>
      /\ ss' = ss \/ ss' = [ss EXCEPT !.pc = "grace"]
  BY DEF Pau, QuitStep, Quit, ssVars, smVars
<1>2. Newest' /\ Known' /\ Beats' /\ Both'
  BY <1>0, <1>1, NewestSame DEF Known, Beats, InTime, Both, Unread
<1>3. ASSUME NEW m \in Children, AtRest(m) PROVE AtRest(m)'
  <2>1. ss' = ss \/ ss'.pc = "grace"
    BY <1>1 DEF IInv, TypeOK, SsTypeOK
  <2>2. NoFork(m)'
    BY <1>3, <2>1 DEF AtRest, NoFork
  <2> QED
    BY <1>1, <1>3, <2>2 DEF AtRest, SmUp, Halting, NoRestart, Unread
<1> QED
  BY <1>0, <1>1, <1>2, <1>3 DEF StopInv, Undisturbed

LEMMA StepStop == IInv /\ StopInv /\ [Next]_vars => StopInv'
<1> SUFFICES ASSUME IInv, StopInv, [Next]_vars PROVE StopInv'
  OBVIOUS
<1>1. IInv'
  BY StepIInv
<1>2. CASE UNCHANGED vars
  BY <1>2 DEF vars, StopInv, Newest, Known, Beats, InTime, Both, Undisturbed, AtRest, SmUp,
              Halting, NoRestart, NoFork, Unread, Entries
<1>3. CASE Next
  BY <1>1, <1>3, SsStop, SmStop, BeatStop, EndedStop, OperatorStop, RequestStop, EndingStop
     DEF Next, Die, Leave
<1> QED
  BY <1>2, <1>3

LEMMA InitStop == Init => StopInv
<1> SUFFICES ASSUME Init PROVE StopInv
  OBVIOUS
<1>1. /\ \A i \in Children : child[i].pid = 0 /\ desc[i].pid = 0 /\ halted[i] = "no"
      /\ sm.pid = 0 /\ 0 \notin Pids
  BY Basics, InitIInv DEF Init, SsInit, SmInit, FirstDesc, Attached
<1>2. \A x \in Readers : \A r \in Rings : inbox[x][r] = <<>>
  BY DEF Init
<1>3. Unread("statmgr") = {} /\ Beats
  BY <1>2, PollsWants DEF Unread, Beats
<1> QED
  BY <1>1, <1>3 DEF StopInv, Newest, Known, Both, Undisturbed

(* StaysStopped: a module that was stopped while nothing else was under    *)
(* way for it is not started again before an operator asks for it or       *)
(* statmgr ends, whatever is asked for, reconfigured, dies or fails after  *)
(* that, for any number of modules, processes, rings and requests.         *)
THEOREM StoppedStays == Spec => StaysStopped
<1> DEFINE Stays == \A m \in Children : halted[m] = "calm" => ~Starts(m)
<1>1. IInv /\ StopInv /\ [Next]_vars => [Stays]_vars
  <2> SUFFICES ASSUME IInv, StopInv, Next, NEW m \in Children, halted[m] = "calm", Starts(m)
               PROVE  FALSE
    OBVIOUS
  <2>1. NoFork(m)
    BY DEF StopInv, Undisturbed, AtRest
  <2>2. ~Running(m) /\ \E p \in Pids : proc'[p] = "running" /\ owner'[p] = m
    BY DEF Starts, Running
  <2>3. CASE StartStopStep
    <3>1. Ends \/ Forks
      BY <2>3, SsKinds DEF StartStopStep
    <3>2. CASE Ends
      BY <2>2, <3>2 DEF Ends, Running
    <3>3. CASE Forks
      <4>1. ss.idx # m /\ m \in Nat
        BY <2>1, <3>3, Basics DEF Forks, NoFork, Children
      <4> QED
        BY <2>2, <3>3, <4>1, ForkDoes, Basics DEF Running
    <3> QED
      BY <3>1, <3>2, <3>3
  <2>4. CASE ~StartStopStep
    <3>1. owner' = owner /\ \A p \in Pids : proc'[p] = "running" => proc[p] = "running"
      BY <2>4, Basics DEF Next, StatMgrStep, SmStep, QuitStep, Quit, Beat, Die, Leave, Ended,
                  OpStop, OpRestart, OpRequest, Pau
    <3> QED
      BY <2>2, <3>1 DEF Running
  <2> QED
    BY <2>3, <2>4
<1> QED
  BY <1>1, InitIInv, StepIInv, InitStop, StepStop, PTL DEF Spec, StaysStopped
=============================================================================
