------------------------ MODULE EwController_proofs ------------------------
(***************************************************************************)
(* ew_controller, for any table of modules and any number of questions:    *)
(* the selection stays inside of the table, and what is sent after a       *)
(* question is a pid of the module that the question named.                *)
(***************************************************************************)
EXTENDS EwController, WellFoundedInduction, TLAPS

-----------------------------------------------------------------------------
(* The parts of the first invariant.                                       *)

Replies == inbox["ew_controller"][OpRing]

(* ew_controller gets nothing but statuses.                                *)
AllStatuses == \A k \in DOMAIN Replies : Replies[k].type = "status"

(* What startstop is about to fork is in its table.                        *)
ForksEntry == ss.pc = "fork" => ss.idx \in Entries

(* A question that is open asks something.                                 *)
Asked == Asking => dlg.kind # "none"

Types == RingsTypeOK /\ SsTypeOK

WindowTypes ==
  /\ mods \in Seq(Row) /\ sel \in 0 .. Len(mods) /\ selPid \in PidValues
  /\ dlg \in Question /\ sent \in Question
  /\ used \in [orders : 0 .. MaxOrders, deaths : 0 .. MaxDeaths, asked : 0 .. MaxAsked]

Typed == Types /\ WindowTypes /\ AllStatuses /\ ForksEntry /\ Asked

-----------------------------------------------------------------------------
(* The parts of the second one.                                            *)

(* pid was forked for the module name.                                     *)
Known(pid, name) == pid \in Pids /\ pid < next /\ owner[pid] = name

(* A row with a pid has one of its own module.                             *)
TrueRows(rows) ==
  \A k \in DOMAIN rows : rows[k].pid > 0 => Known(rows[k].pid, rows[k].name)

(* The same of startstop's table, of the status it is writing, of those on *)
(* their way, and of the one shown, in which every row has a pid.          *)
Entered == \A i \in Children : child[i].pid > 0 => Known(child[i].pid, i)

Reporting == TrueRows(report.rows)

Arriving == \A k \in DOMAIN Replies : TrueRows(Replies[k].rows)

Shown == \A k \in DOMAIN mods : Known(mods[k].pid, mods[k].name)

(* The row selected is one of the module an open question names.           *)
StillSelected ==
  Asking /\ ~dlg.shifted => sel \in DOMAIN mods /\ mods[sel].name = dlg.name

SentKnown == sent # None /\ ~sent.shifted => Known(sent.pid, sent.name)

Meant ==
  Typed /\ Entered /\ Reporting /\ Shown /\ Arriving /\ StillSelected /\ SentKnown

-----------------------------------------------------------------------------
(* Sets of numbers: the least element, and induction.                      *)

LEMMA LeastOf ==
  ASSUME NEW S \in SUBSET Nat, S # {}
  PROVE  \E m \in S : \A n \in S : m <= n
<1>1. IsWellFoundedOn(OpToRel(<, Nat), Nat)
  BY NatLessThanWellFounded
<1>2. PICK m \in S : \A n \in S : ~(<<n, m>> \in OpToRel(<, Nat))
  BY <1>1, WFMin
<1>3. \A n \in S : ~(n < m)
  BY <1>2 DEF OpToRel
<1>. QED
  BY <1>3

LEMMA Induction ==
  ASSUME NEW n \in Nat, NEW S, 0 \in S,
         \A k \in 1 .. n : k - 1 \in S => k \in S
  PROVE  0 .. n \subseteq S
<1> DEFINE T == {k \in 0 .. n : k \notin S}
<1>1. T \in SUBSET Nat /\ \A k : k \in T <=> k \in 0 .. n /\ k \notin S
  OBVIOUS
<1> HIDE DEF T
<1>2. ASSUME T # {} PROVE FALSE
  <2>1. PICK m \in T : \A k \in T : m <= k
    BY <1>1, <1>2, LeastOf
  <2>2. m \in 1 .. n /\ m - 1 \in 0 .. n /\ m \notin S
    BY <1>1, <2>1
  <2>3. m - 1 \in S
    BY <1>1, <2>1, <2>2
  <2>. QED
    BY <2>2, <2>3
<1>. QED
  BY <1>1, <1>2

-----------------------------------------------------------------------------
(* What parse_status and the search of a pid do.                           *)

(* The row at j, if it has a pid, after what the rows before it gave.      *)
Longer(rows, upTo, j) ==
  IF j = 0 THEN <<>>
  ELSE IF rows[j].pid > 0 THEN Append(upTo[j - 1], rows[j]) ELSE upTo[j - 1]

UpTo(rows) ==
  CHOOSE upTo : upTo = [k \in 0 .. Len(rows) |-> Longer(rows, upTo, k)]

(* The loop of parse_status is well defined.                               *)
LEMMA UpToIs ==
  ASSUME NEW rows \in Seq(Row)
  PROVE  UpTo(rows) = [k \in 0 .. Len(rows) |-> Longer(rows, UpTo(rows), k)]
<1> DEFINE n == Len(rows)
           S == {k \in 0 .. n : \E f : f = [j \in 0 .. k |-> Longer(rows, f, j)]}
<1>1. n \in Nat /\ n = Len(rows)
  OBVIOUS
<1> HIDE DEF n
<1>2. 0 \in S
  <2>1. [j \in 0 .. 0 |-> <<>>] = [j \in 0 .. 0 |-> Longer(rows, [i \in 0 .. 0 |-> <<>>], j)]
    BY DEF Longer
  <2>. QED
    BY <1>1, <2>1
<1>3. ASSUME NEW k \in 1 .. n, k - 1 \in S PROVE k \in S
  <2>1. PICK f : f = [j \in 0 .. k - 1 |-> Longer(rows, f, j)]
    BY <1>3
  <2> DEFINE g == [j \in 0 .. k |-> IF j = k THEN Longer(rows, f, k) ELSE f[j]]
  <2>2. ASSUME NEW j \in 0 .. k PROVE g[j] = Longer(rows, g, j)
    <3>1. j # 0 => j - 1 \in 0 .. k - 1 /\ g[j - 1] = f[j - 1]
      OBVIOUS
    <3>2. Longer(rows, g, j) = Longer(rows, f, j)
      BY <3>1 DEF Longer
    <3>3. j # k => f[j] = Longer(rows, f, j)
      BY <2>1
    <3>. QED
      BY <3>2, <3>3
  <2>3. g = [j \in 0 .. k |-> g[j]]
    OBVIOUS
  <2> HIDE DEF g
  <2>4. g = [j \in 0 .. k |-> Longer(rows, g, j)]
    BY <2>2, <2>3
  <2>. QED
    BY <2>4
<1> HIDE DEF S
<1>4. n \in S
  <2>1. 0 .. n \subseteq S
    BY <1>1, <1>2, <1>3, Induction
  <2>. QED
    BY <1>1, <2>1
<1>5. \E f : f = [j \in 0 .. n |-> Longer(rows, f, j)]
  BY <1>4 DEF S
<1>. QED
  BY <1>1, <1>5 DEF UpTo

LEMMA ParsedRows ==
  ASSUME NEW rows \in Seq(Row)
  PROVE  /\ Parsed(rows) \in Seq(Row)
         /\ \A j \in 1 .. Len(Parsed(rows)) :
              /\ Parsed(rows)[j].pid > 0
              /\ \E i \in 1 .. Len(rows) : Parsed(rows)[j] = rows[i]
<1> DEFINE n == Len(rows)
           f == UpTo(rows)
           Taken(t) == \A j \in 1 .. Len(t) :
                         t[j].pid > 0 /\ \E i \in 1 .. n : t[j] = rows[i]
           S == {k \in 0 .. n : f[k] \in Seq(Row) /\ Taken(f[k])}
<1>1. n \in Nat /\ n = Len(rows) /\ \A k \in 1 .. n : rows[k] \in Row
  OBVIOUS
<1> HIDE DEF n
<1>2. Parsed(rows) = f[n]
  BY <1>1 DEF Parsed, UpTo, Longer
<1>3. \A k \in 0 .. n : f[k] = Longer(rows, f, k)
  BY <1>1, UpToIs
<1> HIDE DEF f
<1>4. f[0] \in Seq(Row) /\ Taken(f[0])
  <2>1. f[0] = <<>>
    BY <1>1, <1>3 DEF Longer
  <2>2. <<>> \in Seq(Row) /\ Len(<<>>) = 0
    OBVIOUS
  <2>. QED
    BY <2>1, <2>2
<1>5. \A k \in 1 .. n : f[k] = IF rows[k].pid > 0 THEN Append(f[k - 1], rows[k]) ELSE f[k - 1]
  BY <1>3 DEF Longer
<1>6. \A k : k \in S <=> k \in 0 .. n /\ f[k] \in Seq(Row) /\ Taken(f[k])
  OBVIOUS
<1> HIDE DEF S
<1>7. 0 \in S
  BY <1>1, <1>4, <1>6
<1>8. ASSUME NEW k \in 1 .. n, k - 1 \in S PROVE k \in S
  <2>1. /\ f[k - 1] \in Seq(Row) /\ Taken(f[k - 1]) /\ rows[k] \in Row
        /\ Len(f[k - 1]) \in Nat
    BY <1>1, <1>6, <1>8
  <2>2. CASE rows[k].pid > 0
    <3>1. f[k] = Append(f[k - 1], rows[k])
      BY <1>5, <2>2
    <3>2. /\ f[k] \in Seq(Row) /\ Len(f[k]) = Len(f[k - 1]) + 1
          /\ f[k][Len(f[k - 1]) + 1] = rows[k]
          /\ \A j \in 1 .. Len(f[k - 1]) : f[k][j] = f[k - 1][j]
      BY <2>1, <3>1
    <3>3. ASSUME NEW j \in 1 .. Len(f[k])
          PROVE  f[k][j].pid > 0 /\ \E i \in 1 .. n : f[k][j] = rows[i]
      <4>1. CASE j = Len(f[k - 1]) + 1
        BY <2>2, <3>2, <4>1
      <4>2. CASE j # Len(f[k - 1]) + 1
        <5>1. j \in 1 .. Len(f[k - 1]) /\ f[k][j] = f[k - 1][j]
          BY <2>1, <3>2, <4>2
        <5>. QED
          BY <2>1, <5>1
      <4>. QED
        BY <4>1, <4>2
    <3>. QED
      BY <1>6, <3>2, <3>3
  <2>3. CASE ~(rows[k].pid > 0)
    BY <1>5, <1>6, <2>1, <2>3
  <2>. QED
    BY <2>2, <2>3
<1>9. n \in S
  <2>1. 0 .. n \subseteq S
    BY <1>1, <1>7, <1>8, Induction
  <2>. QED
    BY <1>1, <2>1
<1>10. f[n] \in Seq(Row) /\ Taken(f[n])
  BY <1>6, <1>9
<1>. QED
  BY <1>1, <1>2, <1>10

LEMMA First ==
  ASSUME NEW table \in Seq(Row), NEW pid
  PROVE  /\ FirstWith(table, pid) \in 0 .. Len(table)
         /\ \A k \in 1 .. Len(table) : table[k].pid = pid =>
              FirstWith(table, pid) # 0
         /\ FirstWith(table, pid) # 0 => table[FirstWith(table, pid)].pid = pid
<1> DEFINE I == {k \in 1 .. Len(table) : table[k].pid = pid}
<1>1. FirstWith(table, pid) = IF I # {} THEN Min(I) ELSE 0
  BY DEF FirstWith, SelectInSeq
<1>2. I \in SUBSET Nat /\ \A k : k \in I <=> k \in 1 .. Len(table) /\ table[k].pid = pid
  OBVIOUS
<1> HIDE DEF I
<1>3. ASSUME I # {} PROVE Min(I) \in I
  <2>1. PICK m \in I : \A n \in I : m <= n
    BY <1>2, <1>3, LeastOf
  <2>2. Min(I) = CHOOSE x \in I : \A y \in I : x <= y
    BY DEF Min
  <2>. QED
    BY <2>1, <2>2
<1>. QED
  <2>1. CASE I = {}
    BY <1>1, <1>2, <2>1
  <2>2. CASE I # {}
    BY <1>1, <1>2, <1>3, <2>2
  <2>. QED
    BY <2>1, <2>2

-----------------------------------------------------------------------------
(* Messages.                                                               *)

Boxes == [Readers -> [Rings -> Seq(Messages)]]

LEMMA PutType ==
  ASSUME NEW B \in Boxes, NEW ring \in Rings, NEW m \in Messages
  PROVE  Put(B, ring, m) \in Boxes
<1>1. ASSUME NEW reader \in Readers
      PROVE  [B[reader] EXCEPT ![ring] = Append(@, m)] \in [Rings -> Seq(Messages)]
  <2>1. B[reader] \in [Rings -> Seq(Messages)]
    BY DEF Boxes
  <2>2. Append(B[reader][ring], m) \in Seq(Messages)
    BY <2>1
  <2>. QED
    BY <2>1, <2>2
<1>. QED
  BY <1>1 DEF Put, Boxes

(* What ew_controller is given to read by a put.                           *)
LEMMA PutReplies ==
  ASSUME NEW B \in Boxes, NEW ring \in Rings, NEW m \in Messages
  PROVE  Put(B, ring, m)["ew_controller"][OpRing] =
           IF m.type = "status" /\ ring = OpRing
           THEN Append(B["ew_controller"][OpRing], m)
           ELSE B["ew_controller"][OpRing]
<1>1. "ew_controller" \in Readers /\ OpRing \in Rings
  BY ControllerAssumption, ControlAssumption
<1>2. Wants("ew_controller") = {"status"} /\ Polls("ew_controller") = {OpRing}
  BY DEF Wants, Polls
<1>3. B["ew_controller"] \in [Rings -> Seq(Messages)]
  BY <1>1 DEF Boxes
<1>. QED
  BY <1>1, <1>2, <1>3 DEF Put

LEMMA GotType ==
  ASSUME inbox \in Boxes, NEW reader \in Readers, NEW ring \in Rings,
         Available(reader, ring)
  PROVE  /\ Got(reader, ring) \in Boxes /\ Next1(reader, ring) \in Messages
         /\ inbox[reader][ring] \in Seq(Messages) /\ inbox[reader][ring] # <<>>
         /\ Got(reader, ring)["ew_controller"][OpRing] =
              IF reader = "ew_controller" THEN Tail(Replies) ELSE Replies
<1>0. "ew_controller" \in Readers /\ OpRing \in Rings
  BY ControllerAssumption, ControlAssumption
<1>1. /\ inbox[reader] \in [Rings -> Seq(Messages)]
      /\ inbox["ew_controller"] \in [Rings -> Seq(Messages)]
  BY <1>0 DEF Boxes
<1>2. inbox[reader][ring] \in Seq(Messages) /\ inbox[reader][ring] # <<>>
  BY <1>1 DEF Available
<1>3. Tail(inbox[reader][ring]) \in Seq(Messages) /\ Head(inbox[reader][ring]) \in Messages
  BY <1>2
<1>4. [inbox[reader] EXCEPT ![ring] = Tail(@)] \in [Rings -> Seq(Messages)]
  BY <1>1, <1>3
<1>5. Got(reader, ring) = [inbox EXCEPT ![reader] = [inbox[reader] EXCEPT ![ring] = Tail(@)]]
  BY <1>1 DEF Got, Boxes
<1>6. Got(reader, ring) \in Boxes
  BY <1>4, <1>5 DEF Boxes
<1>7. reader = "ew_controller" => ring = OpRing
  BY DEF Available, Polls
<1>8. Got(reader, ring)["ew_controller"][OpRing] =
        IF reader = "ew_controller" THEN Tail(Replies) ELSE Replies
  BY <1>0, <1>1, <1>5, <1>7 DEF Boxes, Replies
<1>. QED
  BY <1>2, <1>3, <1>6, <1>8 DEF Next1

LEMMA MessageKinds ==
  /\ \A p \in PidValues : \A t \in {"restart", "stop"} :
       [type |-> t, pid |-> p] \in Messages
  /\ \A t \in {"reqstatus", "reconfig"} : [type |-> t] \in Messages
  /\ \A rows \in Seq(Row) : [type |-> "status", rows |-> rows] \in Messages
  /\ \A m \in Messages : m.type = "status" => m.rows \in Seq(Row)
BY DEF Messages

LEMMA PidFacts ==
  /\ -1 \in PidValues /\ 0 \in PidValues /\ Pids \subseteq PidValues
  /\ MaxPid \in Nat /\ MaxChild \in Nat
BY ControlAssumption DEF PidValues, Pids

-----------------------------------------------------------------------------
(* The types of what startstop keeps.                                      *)

ProcTypes ==
  /\ proc \in [Pids -> {"none", "running", "zombie"}]
  /\ owner \in [Pids -> Children]
  /\ child \in [Children -> Child]
  /\ next \in 1 .. MaxPid + 1

LEMMA NewChild ==
  ASSUME NEW p \in PidValues, NEW c \in Child
  PROVE  [c EXCEPT !.pid = p] \in Child /\ [pid |-> p, status |-> "Alive"] \in Child
BY DEF Child

LEMMA EntryFacts ==
  ASSUME Types
  PROVE  /\ nChild \in 1 .. MaxChild /\ nChild \in Nat /\ Entries \subseteq Children
         /\ ss.idx \in 1 .. MaxChild + 1 /\ ss.idx \in Nat
         /\ next \in 1 .. MaxPid + 1 /\ next \in Nat
         /\ inbox \in Boxes /\ flag \in BOOLEAN
         /\ report \in [ring : Rings, rows : Seq(Row)]
         /\ report.rows \in Seq(Row) /\ report.ring \in Rings
BY PidFacts DEF Types, RingsTypeOK, SsTypeOK, Boxes, Entries, Children

LEMMA ForkTypes ==
  ASSUME Types, NEW i \in Children, StartChild(i)
  PROVE  ProcTypes'
<1> USE DEF Types, RingsTypeOK, SsTypeOK
<1>1. CASE Forked(i)
  <2>1. next \in Pids /\ next + 1 \in 1 .. MaxPid + 1
    BY <1>1, PidFacts DEF Forked, Pids
  <2>2. [pid |-> next, status |-> "Alive"] \in Child
    BY <2>1, PidFacts DEF Child
  <2>. QED
    BY <1>1, <2>1, <2>2 DEF Forked, ProcTypes
<1>2. CASE ForkFailed(i)
  <2>1. [child[i] EXCEPT !.pid = -1] \in Child
    BY NewChild, PidFacts
  <2>. QED
    BY <1>2, <2>1 DEF ForkFailed, ProcTypes
<1>. QED
  BY <1>1, <1>2 DEF StartChild

LEMMA StopTypes ==
  ASSUME Types, NEW i \in Children, StopChild(i)
  PROVE  ProcTypes'
BY DEF Types, RingsTypeOK, SsTypeOK, StopChild, Killed, Child, ProcTypes

(* An order stops the first entry with the pid, or does nothing.           *)
LEMMA OrderDoes ==
  ASSUME Types, NEW pid, NEW again \in BOOLEAN, Order(pid, again)
  PROVE  \/ /\ \A i \in Entries : child[i].pid # pid
            /\ ss' = [pc |-> "poll", idx |-> 1]
            /\ UNCHANGED <<proc, owner, child, next>>
         \/ \E i \in Entries :
              /\ child[i].pid = pid /\ StopChild(i)
              /\ ss' = [pc |-> AfterStop(pid, again), idx |-> i]
              /\ ss'.pc \in {"killed", "fork", "poll"} /\ (pid = 0 => ss'.pc = "killed")
BY DEF Order, AfterStop

SsTyped == ProcTypes /\ SsTypeOK /\ ForksEntry

LEMMA OrderTyped ==
  ASSUME Types, UNCHANGED <<nChild, report>>,
         NEW pid, NEW again \in BOOLEAN, Order(pid, again)
  PROVE  SsTyped'
<1>1. /\ ProcTypes /\ 1 \in 1 .. MaxChild + 1 /\ Entries' = Entries
      /\ Entries \subseteq 1 .. MaxChild + 1
  BY PidFacts, EntryFacts DEF Types, RingsTypeOK, SsTypeOK, ProcTypes, Entries, Children
<1>2. CASE /\ ss' = [pc |-> "poll", idx |-> 1]
           /\ UNCHANGED <<proc, owner, child, next>>
  BY <1>1, <1>2 DEF Types, SsTypeOK, SsTyped, ProcTypes, ForksEntry
<1>3. ASSUME NEW i \in Entries, StopChild(i), ss' = [pc |-> AfterStop(pid, again), idx |-> i],
             ss'.pc \in {"killed", "fork", "poll"}
      PROVE  SsTyped'
  <2>1. ProcTypes'
    BY <1>3, EntryFacts, StopTypes
  <2>2. ss'.idx = i /\ ss'.pc \in {"killed", "fork", "poll"}
    BY <1>3
  <2>3. ForksEntry'
    BY <1>1, <2>2 DEF ForksEntry
  <2>. QED
    BY <1>1, <1>3, <2>1, <2>2, <2>3 DEF Types, SsTypeOK, SsTyped, ProcTypes
<1>. QED
  BY <1>2, <1>3, OrderDoes

LEMMA RowType ==
  ASSUME Types, ss.idx <= nChild
  PROVE  RowOf(ss.idx) \in Row
<1>1. ss.idx \in Children
  BY EntryFacts DEF Entries, Children
<1>2. child[ss.idx].pid \in PidValues
  BY <1>1 DEF Types, SsTypeOK, Child
<1>3. Word(ss.idx) \in {"Alive", "Zombie", "Stop", "Dead"}
  BY DEF Word
<1>. QED
  BY <1>1, <1>2, <1>3 DEF Row, RowOf

(* Every step of startstop keeps its types.                                *)
LEMMA SsStepTyped ==
  ASSUME Types, ForksEntry, SsStep
  PROVE  SsTyped'
<1>0. /\ ProcTypes /\ 1 \in 1 .. MaxChild + 1
      /\ nChild \in Nat /\ ss.idx \in Nat /\ MaxChild \in Nat /\ nChild <= MaxChild
      /\ Entries = 1 .. nChild /\ Children = 1 .. MaxChild
  BY PidFacts, EntryFacts DEF Types, RingsTypeOK, SsTypeOK, ProcTypes, Entries, Children
<1>1. ASSUME StartNext \/ SpawnNext
      PROVE  SsTyped'
  <2>1. /\ ss.idx <= nChild /\ ss' = [ss EXCEPT !.idx = @ + 1]
        /\ nChild' = nChild /\ report' = report /\ ss.pc \in {"start", "spawn"}
        /\ StartChild(ss.idx) \/ UNCHANGED <<proc, owner, child, next>>
    BY <1>1 DEF StartNext, SpawnNext
  <2>2. ss.idx \in Children /\ ss.idx + 1 \in 1 .. MaxChild + 1
    BY <1>0, <2>1, EntryFacts
  <2>3. ProcTypes'
    <3>1. CASE StartChild(ss.idx)
      BY <2>2, <3>1, ForkTypes
    <3>2. CASE UNCHANGED <<proc, owner, child, next>>
      BY <1>0, <3>2 DEF ProcTypes
    <3>. QED
      BY <2>1, <3>1, <3>2
  <2>4. ss' \in [pc : {"start", "poll", "fork", "spawn", "status", "grace",
                      "wait", "exited", "bailed", "killed"}, idx : 1 .. MaxChild + 1]
        /\ ss'.pc = ss.pc
    BY <2>1, <2>2 DEF Types, SsTypeOK
  <2>. QED
    BY <2>1, <2>3, <2>4 DEF Types, SsTypeOK, SsTyped, ProcTypes, ForksEntry
<1>2. CASE ForkAgain
  <2>1. ss.idx \in Children /\ StartChild(ss.idx)
    BY <1>2, EntryFacts DEF ForkAgain, ForksEntry
  <2>2. ProcTypes'
    BY <2>1, ForkTypes
  <2>. QED
    BY <1>0, <1>2, <2>2 DEF ForkAgain, Types, SsTypeOK, SsTyped, ProcTypes, ForksEntry
<1>3. ASSUME NEW pid, NEW again \in BOOLEAN, Order(pid, again), UNCHANGED <<nChild, report>>
      PROVE  SsTyped'
  BY <1>3, OrderTyped
<1>4. CASE EncodeRow
  <2>1. /\ ss.idx <= nChild /\ ss' = [ss EXCEPT !.idx = @ + 1] /\ ss.pc = "status"
        /\ report' = [report EXCEPT !.rows = Append(@, RowOf(ss.idx))]
        /\ UNCHANGED <<owner, child, nChild, next>>
        /\ proc' \in [Pids -> {"none", "running", "zombie"}]
    BY <1>4 DEF EncodeRow, AsksFor, Types, RingsTypeOK
  <2>2. Append(report.rows, RowOf(ss.idx)) \in Seq(Row)
    BY <2>1, RowType, EntryFacts
  <2>3. report' \in [ring : Rings, rows : Seq(Row)]
    BY <2>1, <2>2, EntryFacts
  <2>4. ss.idx + 1 \in 1 .. MaxChild + 1
    BY <1>0, <2>1
  <2>. QED
    BY <1>0, <2>1, <2>3, <2>4 DEF Types, SsTypeOK, SsTyped, ProcTypes, ForksEntry
<1>5. CASE SendStatus
  <2>1. <<>> \in Seq(Row)
    OBVIOUS
  <2>2. report' \in [ring : Rings, rows : Seq(Row)]
    BY <1>5, <2>1, EntryFacts DEF SendStatus
  <2>. QED
    BY <1>0, <1>5, <2>2 DEF SendStatus, Types, SsTypeOK, SsTyped, ProcTypes, ForksEntry
<1>6. ASSUME NEW r \in Rings, TakeRequest(r)
      PROVE  SsTyped'
  <2>1. <<>> \in Seq(Row)
    OBVIOUS
  <2>2. report' \in [ring : Rings, rows : Seq(Row)]
    BY <1>6, <2>1 DEF TakeRequest
  <2>. QED
    BY <1>0, <1>6, <2>2 DEF TakeRequest, Types, SsTypeOK, SsTyped, ProcTypes, ForksEntry
<1>7. ASSUME NEW r \in Rings, Reconfigure(r)
      PROVE  SsTyped'
  <2>1. PICK n \in nChild .. MaxChild :
          nChild' = n /\ ss' = [pc |-> "spawn", idx |-> nChild + 1]
    BY <1>7 DEF Reconfigure
  <2>2. nChild' \in Children /\ nChild + 1 \in 1 .. MaxChild + 1
    BY <1>0, <2>1, EntryFacts
  <2>. QED
    BY <1>0, <1>7, <2>1, <2>2 DEF Reconfigure, Types, SsTypeOK, SsTyped, ProcTypes, ForksEntry
<1>8. ASSUME Started \/ SeeFlag \/ SigTerm \/ Exit \/ \E r \in Rings : ReconfigureExits(r)
      PROVE  SsTyped'
  <2>1. /\ UNCHANGED <<proc, owner, child, nChild, next, report>>
        /\ ss' \in [pc : {"poll", "grace", "wait", "exited", "bailed"}, idx : 1 .. MaxChild + 1]
    BY <1>0, <1>8 DEF Started, SeeFlag, SigTerm, Exit, ReconfigureExits, Types, SsTypeOK
  <2>. QED
    BY <1>0, <2>1 DEF Types, SsTypeOK, SsTyped, ProcTypes, ForksEntry
<1>9. CASE ReapOne
  BY <1>0, <1>9 DEF ReapOne, Types, RingsTypeOK, SsTypeOK, SsTyped, ProcTypes, ForksEntry, Entries
<1>10. CASE Spawned
  BY <1>3, <1>10 DEF Spawned
<1>11. ASSUME NEW r \in Rings, TakeOrder(r)
       PROVE  SsTyped'
  BY <1>3, <1>11 DEF TakeOrder
<1>. QED
  BY <1>1, <1>2, <1>4, <1>5, <1>6, <1>7, <1>8, <1>9, <1>10, <1>11 DEF SsStep

(* The only messages of startstop are statuses.                            *)
LEMMA SsStepSends ==
  ASSUME Types, SsStep
  PROVE  /\ inbox' \in Boxes /\ flag' \in BOOLEAN
         /\ \/ Replies' = Replies
            \/ /\ SendStatus
               /\ Replies' = Append(Replies, [type |-> "status", rows |-> report.rows])
<1>0. inbox \in Boxes /\ flag \in BOOLEAN /\ "startstop" \in Readers
  BY EntryFacts, ControllerAssumption
<1>1. CASE SendStatus
  <2> DEFINE m == [type |-> "status", rows |-> report.rows]
  <2>1. m \in Messages /\ report.ring \in Rings /\ flag' = flag
    BY <1>1, EntryFacts, MessageKinds DEF SendStatus
  <2>2. inbox' = Put(inbox, report.ring, m)
    BY <1>1 DEF SendStatus
  <2> HIDE DEF m
  <2>3. Put(inbox, report.ring, m) \in Boxes
    BY <1>0, <2>1, PutType
  <2>4. Replies' = Replies \/ Replies' = Append(Replies, m)
    BY <1>0, <2>1, <2>2, PutReplies DEF Replies
  <2>. QED
    BY <1>0, <1>1, <2>1, <2>2, <2>3, <2>4 DEF m
<1>2. ASSUME NEW r \in Rings,
             TakeOrder(r) \/ TakeRequest(r) \/ Reconfigure(r) \/ ReconfigureExits(r)
      PROVE  inbox' \in Boxes /\ flag' \in BOOLEAN /\ Replies' = Replies
  <2>1. /\ Available("startstop", r) /\ flag' = flag /\ inbox' = Got("startstop", r)
    BY <1>2 DEF TakeOrder, TakeRequest, Reconfigure, ReconfigureExits, Polled
  <2>2. Got("startstop", r)["ew_controller"][OpRing] = Replies
    BY <1>0, <2>1, GotType
  <2>. QED
    BY <1>0, <2>1, <2>2, GotType DEF Replies
<1>3. CASE \/ StartNext \/ Started \/ SpawnNext \/ Spawned \/ ForkAgain
           \/ EncodeRow \/ SeeFlag \/ ReapOne \/ SigTerm \/ Exit
  <2>1. UNCHANGED <<inbox, flag>>
    BY <1>3 DEF StartNext, Started, SpawnNext, Spawned, ForkAgain, EncodeRow,
                SeeFlag, ReapOne, SigTerm, Exit
  <2>. QED
    BY <1>0, <2>1 DEF Replies
<1>. QED
  BY <1>1, <1>2, <1>3 DEF SsStep

-----------------------------------------------------------------------------
(* The first invariant: types.                                             *)

LEMMA InitTyped == Init => Typed
<1> SUFFICES ASSUME Init PROVE Typed
  OBVIOUS
<1>1. /\ 1 \in Children /\ FirstChildren \in Children
      /\ 1 \in 1 .. MaxChild + 1 /\ 1 \in 1 .. MaxPid + 1
  BY PidFacts, StartAssumption DEF Children
<1>2. /\ <<>> \in Seq(Row) /\ <<>> \in Seq(Messages) /\ Len(<<>>) = 0
  OBVIOUS
<1>3. "ew_controller" \in Readers /\ OpRing \in Rings
  BY ControlAssumption, ControllerAssumption
<1>4. [pid |-> 0, status |-> ""] \in Child
  BY PidFacts DEF Child
<1>5. Types
  <2>1. RingsTypeOK
    BY <1>1, <1>2 DEF Init, RingsTypeOK
  <2>2. next \in 1 .. MaxPid + 1
    BY <1>1 DEF Init, SsInit
  <2>3. child \in [Children -> Child] /\ nChild \in Children
    BY <1>1, <1>4 DEF Init, SsInit
  <2>4. report \in [ring : Rings, rows : Seq(Row)]
    BY <1>2, <1>3 DEF Init, SsInit
  <2>. QED
    BY <1>1, <2>1, <2>2, <2>3, <2>4 DEF Init, SsInit, Types, SsTypeOK
<1>6. None \in Question
  BY <1>1, PidFacts DEF None, Kinds, Question
<1>7. mods = <<>> /\ sel \in 0 .. Len(mods)
  BY <1>2 DEF Init
<1>8. WindowTypes
  BY <1>2, <1>6, <1>7, PidFacts, ControllerAssumption DEF Init, WindowTypes
<1>9. AllStatuses
  <2>1. Replies = <<>>
    BY <1>3 DEF Init, Replies
  <2>. QED
    BY <2>1 DEF AllStatuses
<1>10. ForksEntry
  BY DEF Init, SsInit, ForksEntry
<1>11. Asked
  BY DEF Init, Asked, Asking
<1>. QED
  BY <1>5, <1>8, <1>9, <1>10, <1>11 DEF Typed

(* A request of anybody leaves the statuses alone.                         *)
LEMMA RequestPut ==
  ASSUME NEW B \in Boxes, NEW m \in Messages, m.type # "status"
  PROVE  /\ Put(B, OpRing, m) \in Boxes
         /\ Put(B, OpRing, m)["ew_controller"][OpRing] = B["ew_controller"][OpRing]
BY ControlAssumption, PutType, PutReplies

(* What the window does when it reads.                                     *)
LEMMA ReadDoes ==
  ASSUME Typed, Read
  PROVE  /\ Replies \in Seq(Messages) /\ Replies # <<>>
         /\ Head(Replies).rows \in Seq(Row) /\ Replies[1] = Head(Replies)
         /\ mods' = Parsed(Head(Replies).rows) /\ mods' \in Seq(Row)
         /\ selPid' = Intent(mods') /\ sel' = FirstWith(mods', Intent(mods'))
         /\ dlg' = [dlg EXCEPT !.shifted = @ \/ Shifted(mods')]
         /\ Replies' = Tail(Replies) /\ inbox' \in Boxes
<1>1. "ew_controller" \in Readers /\ OpRing \in Rings /\ inbox \in Boxes
  BY ControlAssumption, ControllerAssumption, EntryFacts DEF Typed
<1>2. /\ Available("ew_controller", OpRing) /\ inbox' = Got("ew_controller", OpRing)
      /\ Next1("ew_controller", OpRing) = Head(Replies)
  BY DEF Read, Next1, Replies
<1>3. /\ Replies \in Seq(Messages) /\ Replies # <<>>
      /\ Replies' = Tail(Replies) /\ inbox' \in Boxes /\ Head(Replies) \in Messages
  BY <1>1, <1>2, GotType DEF Replies
<1>4. Replies[1] = Head(Replies) /\ 1 \in DOMAIN Replies
  BY <1>3
<1>5. Head(Replies).type = "status"
  BY <1>4 DEF Typed, AllStatuses
<1>6. Head(Replies).rows \in Seq(Row)
  BY <1>3, <1>5, MessageKinds
<1>7. /\ mods' = Parsed(Head(Replies).rows)
      /\ selPid' = Intent(mods') /\ sel' = FirstWith(mods', Intent(mods'))
      /\ dlg' = [dlg EXCEPT !.shifted = @ \/ Shifted(mods')]
  BY <1>2 DEF Read
<1>8. mods' \in Seq(Row)
  BY <1>6, <1>7, ParsedRows
<1>. QED
  BY <1>3, <1>4, <1>6, <1>7, <1>8

LEMMA ReadTyped ==
  ASSUME Typed, Read
  PROVE  Typed'
<1>1. UNCHANGED <<proc, owner, flag, ssVars, sent, used>>
  BY DEF Read
<1>2. WindowTypes /\ Types /\ ForksEntry /\ AllStatuses /\ Asked
  BY DEF Typed
<1>3. selPid' \in PidValues
  <2>1. CASE sel \in DOMAIN mods'
    <3>1. mods'[sel] \in Row
      BY <2>1, ReadDoes
    <3>. QED
      BY <2>1, <3>1, ReadDoes DEF Intent, Row
  <2>2. CASE sel \notin DOMAIN mods'
    BY <1>2, <2>2, ReadDoes DEF Intent, WindowTypes
  <2>. QED
    BY <2>1, <2>2
<1>4. sel' \in 0 .. Len(mods')
  BY ReadDoes, First
<1>10. dlg' \in Question /\ dlg'.kind = dlg.kind /\ (~Asking => dlg' = dlg)
  <2>1. Shifted(mods') \in BOOLEAN /\ dlg \in Question
    BY <1>2 DEF Shifted, WindowTypes
  <2>2. ~Asking => ~Shifted(mods') /\ ~dlg.shifted
    BY DEF Shifted, Asking, None
  <2>. QED
    BY <2>1, <2>2, ReadDoes DEF Question, Asking, None
<1>5. WindowTypes'
  BY <1>1, <1>2, <1>3, <1>4, <1>10, ReadDoes DEF WindowTypes
<1>6. Types'
  BY <1>1, <1>2, ReadDoes DEF Types, RingsTypeOK, SsTypeOK, ssVars, Boxes
<1>7. ForksEntry'
  BY <1>1, <1>2 DEF ForksEntry, Entries, ssVars
<1>8. AllStatuses'
  <2>1. Replies' = Tail(Replies) /\ Replies \in Seq(Messages) /\ Replies # <<>>
    BY ReadDoes
  <2>2. \A k \in DOMAIN Replies' : k + 1 \in DOMAIN Replies /\ Replies'[k] = Replies[k + 1]
    BY <2>1
  <2>. QED
    BY <1>2, <2>2 DEF AllStatuses
<1>9. Asked'
  BY <1>2, <1>10 DEF Asked, Asking
<1>. QED
  BY <1>5, <1>6, <1>7, <1>8, <1>9 DEF Typed

(* What the other steps of the window, and those of everybody else, leave  *)
(* alone.                                                                  *)
LEMMA QuietTyped ==
  ASSUME Typed, UNCHANGED <<owner, flag, ssVars>>, inbox' \in Boxes, Replies' = Replies,
         proc' \in [Pids -> {"none", "running", "zombie"}], WindowTypes', Asked'
  PROVE  Typed'
<1>1. Types'
  BY DEF Typed, Types, RingsTypeOK, SsTypeOK, ssVars, Boxes
<1>2. ForksEntry' /\ AllStatuses'
  BY DEF Typed, ForksEntry, AllStatuses, Entries, ssVars
<1>. QED
  BY <1>1, <1>2 DEF Typed

LEMMA YesTyped ==
  ASSUME Typed, Yes
  PROVE  /\ Typed' /\ Replies' = Replies
         /\ \E pid \in PidsSent : sent' = [dlg EXCEPT !.pid = pid]
<1>0. /\ WindowTypes /\ Asked /\ inbox \in Boxes
      /\ proc \in [Pids -> {"none", "running", "zombie"}]
      /\ mods \in Seq(Row)
  BY EntryFacts DEF Typed, Types, RingsTypeOK, WindowTypes
<1>1. PICK pid \in PidsSent :
        /\ sent' = [dlg EXCEPT !.pid = pid]
        /\ inbox' = Put(Put(inbox, OpRing, [type |-> dlg.kind, pid |-> pid]),
                        OpRing, [type |-> "reqstatus"])
  BY DEF Yes
<1>2. /\ Asking /\ dlg' = None
      /\ UNCHANGED <<proc, owner, flag, ssVars, mods, sel, selPid, used>>
  BY DEF Yes
<1>3. pid \in PidValues
  <2>1. CASE sel = 0
    BY <1>1, <2>1 DEF PidsSent
  <2>2. CASE sel # 0
    <3>1. mods[sel] \in Row
      BY <1>0, <2>2 DEF WindowTypes
    <3>. QED
      BY <1>1, <2>2, <3>1 DEF PidsSent, Row
  <2>. QED
    BY <2>1, <2>2
<1>4. dlg.kind \in {"stop", "restart"} /\ dlg \in Question
  BY <1>0, <1>2 DEF WindowTypes, Asked, Kinds, Question
<1> DEFINE m == [type |-> dlg.kind, pid |-> pid]
           n == [type |-> "reqstatus"]
<1>5. m \in Messages /\ n \in Messages /\ m.type # "status" /\ n.type # "status"
  BY <1>3, <1>4, MessageKinds
<1>6. inbox' = Put(Put(inbox, OpRing, m), OpRing, n)
  BY <1>1
<1> HIDE DEF m, n
<1>7. /\ Put(inbox, OpRing, m) \in Boxes
      /\ Put(inbox, OpRing, m)["ew_controller"][OpRing] = Replies
  BY <1>0, <1>5, RequestPut DEF Replies
<1>8. inbox' \in Boxes /\ Replies' = Replies
  BY <1>5, <1>6, <1>7, RequestPut DEF Replies
<1>9. None \in Question
  BY PidFacts, StartAssumption DEF None, Kinds, Children, Question
<1>10. sent' \in Question
  BY <1>1, <1>3, <1>4 DEF Question
<1>11. WindowTypes'
  BY <1>0, <1>2, <1>9, <1>10 DEF WindowTypes
<1>12. Asked'
  BY <1>2 DEF Asked, Asking
<1>. QED
  BY <1>0, <1>1, <1>2, <1>8, <1>11, <1>12, QuietTyped

LEMMA StepTyped == Typed /\ [Next]_vars => Typed'
<1> SUFFICES ASSUME Typed, [Next]_vars PROVE Typed'
  OBVIOUS
<1>0. /\ Types /\ WindowTypes /\ AllStatuses /\ ForksEntry /\ Asked
      /\ inbox \in Boxes /\ proc \in [Pids -> {"none", "running", "zombie"}]
      /\ mods \in Seq(Row)
  BY EntryFacts DEF Typed, Types, RingsTypeOK, WindowTypes
<1>1. CASE StartStopStep
  <2>1. SsStep /\ UNCHANGED ewVars
    BY <1>1 DEF StartStopStep
  <2>2. SsTyped' /\ inbox' \in Boxes /\ flag' \in BOOLEAN
    BY <1>0, <2>1, SsStepTyped, SsStepSends
  <2>3. AllStatuses'
    <3>1. Replies \in Seq(Messages)
      BY <1>0, ControlAssumption, ControllerAssumption DEF Boxes, Replies
    <3>2. CASE Replies' = Replies
      BY <1>0, <3>2 DEF AllStatuses
    <3>3. CASE Replies' = Append(Replies, [type |-> "status", rows |-> report.rows])
      <4>1. \A k \in DOMAIN Replies' :
              \/ k \in DOMAIN Replies /\ Replies'[k] = Replies[k]
              \/ Replies'[k] = [type |-> "status", rows |-> report.rows]
        BY <3>1, <3>3
      <4>. QED
        BY <1>0, <4>1 DEF AllStatuses
    <3>. QED
      BY <1>0, <2>1, <3>2, <3>3, SsStepSends
  <2>4. WindowTypes' /\ Asked'
    BY <1>0, <2>1 DEF WindowTypes, ewVars, Asked, Asking
  <2>5. Types'
    BY <2>2 DEF SsTyped, ProcTypes, Types, RingsTypeOK, Boxes
  <2>. QED
    BY <2>2, <2>3, <2>4, <2>5 DEF Typed, SsTyped
<1>2. CASE PollStatus
  <2>1. [type |-> "reqstatus"] \in Messages
    BY MessageKinds
  <2>2. inbox' \in Boxes /\ Replies' = Replies
    BY <1>0, <1>2, <2>1, RequestPut DEF PollStatus, Replies
  <2>3. WindowTypes' /\ Asked'
    BY <1>0, <1>2 DEF PollStatus, WindowTypes, ewVars, Asked, Asking
  <2>. QED
    BY <1>0, <1>2, <2>2, <2>3, QuietTyped DEF PollStatus
<1>3. CASE Read
  BY <1>3, ReadTyped
<1>4. CASE No
  <2>1. WindowTypes' /\ Asked'
    BY <1>0, <1>4, PidFacts, StartAssumption
       DEF No, WindowTypes, None, Kinds, Children, Question, Asked, Asking
  <2>. QED
    BY <1>0, <1>4, <2>1, QuietTyped DEF No, Replies
<1>5. CASE Yes
  BY <1>5, YesTyped
<1>6. ASSUME NEW k \in 0 .. Len(mods), Select(k)
      PROVE  Typed'
  <2>1. sel' \in 0 .. Len(mods) /\ selPid' \in PidValues
    <3>1. CASE k = 0
      BY <1>0, <1>6, <3>1 DEF Select, WindowTypes
    <3>2. CASE k # 0
      <4>1. mods[k] \in Row
        BY <1>0, <3>2
      <4>2. sel' = FirstWith(mods, mods[k].pid) /\ selPid' = mods[k].pid
        BY <1>6, <3>2 DEF Select
      <4>. QED
        BY <1>0, <4>1, <4>2, First DEF Row
    <3>. QED
      BY <3>1, <3>2
  <2>2. WindowTypes' /\ Asked'
    BY <1>0, <1>6, <2>1 DEF Select, WindowTypes, Asked, Asking
  <2>. QED
    BY <1>0, <1>6, <2>2, QuietTyped DEF Select, Replies
<1>7. ASSUME NEW kind \in {"stop", "restart"}, Press(kind)
      PROVE  Typed'
  <2>1. sel # 0 /\ sel \in DOMAIN mods /\ used.asked < MaxAsked
    BY <1>0, <1>7 DEF Press, WindowTypes
  <2>2. mods[sel] \in Row
    BY <1>0, <2>1
  <2>3. dlg' \in Question /\ dlg'.kind # "none"
    BY <1>7, <2>2 DEF Press, Kinds, Row, Question
  <2>4. used' \in [orders : 0 .. MaxOrders, deaths : 0 .. MaxDeaths, asked : 0 .. MaxAsked]
    BY <1>0, <1>7, <2>1, ControllerAssumption DEF Press, WindowTypes
  <2>5. WindowTypes' /\ Asked'
    BY <1>0, <1>7, <2>3, <2>4 DEF Press, WindowTypes, Asked, Asking
  <2>. QED
    BY <1>0, <1>7, <2>5, QuietTyped DEF Press, Replies
<1>8. ASSUME NEW m \in Messages, m.type # "status", Others(m)
      PROVE  Typed'
  <2>1. inbox' \in Boxes /\ Replies' = Replies
    BY <1>0, <1>8, RequestPut DEF Others, Replies
  <2>2. WindowTypes' /\ Asked'
    BY <1>0, <1>8, ControllerAssumption DEF Others, WindowTypes, Asked, Asking
  <2>. QED
    BY <1>0, <1>8, <2>1, <2>2, QuietTyped DEF Others
<1>9. ASSUME NEW p \in Pids, Die(p)
      PROVE  Typed'
  <2>1. WindowTypes' /\ Asked'
    BY <1>0, <1>9, ControllerAssumption DEF Die, WindowTypes, Asked, Asking
  <2>2. proc' \in [Pids -> {"none", "running", "zombie"}]
    BY <1>0, <1>9 DEF Die
  <2>. QED
    BY <1>0, <1>9, <2>1, <2>2, QuietTyped DEF Die, Replies
<1>10. ASSUME NEW i \in Entries, Others([type |-> "restart", pid |-> child[i].pid])
       PROVE  Typed'
  <2>1. child[i].pid \in PidValues
    BY <1>0, EntryFacts DEF Types, SsTypeOK, Child
  <2>2. [type |-> "restart", pid |-> child[i].pid] \in Messages
    BY <2>1, MessageKinds
  <2>. QED
    BY <1>8, <1>10, <2>2
<1>11. CASE Others([type |-> "reconfig"])
  <2>1. [type |-> "reconfig"] \in Messages
    BY MessageKinds
  <2>. QED
    BY <1>8, <1>11, <2>1
<1>12. CASE UNCHANGED vars
  <2>1. WindowTypes' /\ Asked'
    BY <1>0, <1>12 DEF vars, WindowTypes, ewVars, Asked, Asking
  <2>. QED
    BY <1>0, <1>12, <2>1, QuietTyped DEF vars, Replies
<1>. QED
  BY <1>1, <1>2, <1>3, <1>4, <1>5, <1>6, <1>7, <1>9, <1>10, <1>11, <1>12 DEF Next

LEMMA TypedAlways == Spec => []Typed
BY InitTyped, StepTyped, PTL DEF Spec

(* Types: however the table shrinks, grows and is read while a row is      *)
(* selected, the index of that row is in the table.                        *)
THEOREM TypesHold == Spec => []TypeOK
<1>1. Typed => TypeOK
  BY DEF Typed, Types, WindowTypes, TypeOK
<1>. QED
  BY <1>1, TypedAlways, PTL

-----------------------------------------------------------------------------
(* The second invariant, the steps of startstop.                           *)

(* What is known of a pid remains true.                                    *)
Onward == \A p \in Pids : p < next => p < next' /\ owner'[p] = owner[p]

LEMMA KnownKept ==
  ASSUME Onward, NEW pid, NEW name, Known(pid, name)
  PROVE  Known(pid, name)'
BY DEF Onward, Known

LEMMA TrueKept ==
  ASSUME Onward, NEW rows, TrueRows(rows)
  PROVE  \A k \in DOMAIN rows :
           rows[k].pid > 0 => rows[k].pid \in Pids /\ rows[k].pid < next'
                              /\ owner'[rows[k].pid] = rows[k].name
BY DEF Onward, Known, TrueRows

(* A fork gives an entry a pid of its own, or none.                        *)
LEMMA ForkGives ==
  ASSUME Types, Entered, NEW i \in Children, StartChild(i)
  PROVE  Entered' /\ Onward
<1>0. owner \in [Pids -> Children] /\ child \in [Children -> Child] /\ Pids \subseteq Nat
  BY DEF Types, RingsTypeOK, SsTypeOK, Pids
<1>1. CASE Forked(i)
  <2>1. /\ next <= MaxPid /\ next' = next + 1
        /\ owner' = [owner EXCEPT ![next] = i]
        /\ child' = [child EXCEPT ![i] = [pid |-> next, status |-> "Alive"]]
    BY <1>1 DEF Forked
  <2>2. next \in Pids /\ next \in Nat
    BY <2>1, PidFacts, EntryFacts DEF Pids
  <2>3. Onward
    BY <1>0, <2>1, <2>2 DEF Onward
  <2>4. child'[i].pid = next /\ \A k \in Children : k # i => child'[k] = child[k]
    BY <1>0, <2>1
  <2>5. Known(child[i].pid, i)'
    BY <1>0, <2>1, <2>2, <2>4 DEF Known
  <2>6. ASSUME NEW k \in Children, k # i, child'[k].pid > 0
        PROVE  Known(child[k].pid, k)'
    <3>1. child'[k] = child[k] /\ Known(child[k].pid, k)
      BY <2>4, <2>6 DEF Entered
    <3>. QED
      BY <2>3, <3>1 DEF Known, Onward
  <2>. QED
    BY <2>3, <2>5, <2>6 DEF Entered
<1>2. CASE ForkFailed(i)
  <2>1. UNCHANGED <<owner, next>> /\ child' = [child EXCEPT ![i].pid = -1]
    BY <1>2 DEF ForkFailed
  <2>2. child'[i] = [child[i] EXCEPT !.pid = -1]
    BY <1>0, <2>1
  <2>3. child'[i].pid = -1
    BY <1>0, <2>2 DEF Child
  <2>4. \A k \in Children : k # i => child'[k] = child[k]
    BY <1>0, <2>1
  <2>. QED
    BY <2>1, <2>3, <2>4 DEF Entered, Onward, Known
<1>. QED
  BY <1>1, <1>2 DEF StartChild

(* What a step that forks nothing keeps.                                   *)
LEMMA PidsKept ==
  ASSUME Entered, UNCHANGED <<owner, next>>,
         \A k \in Children : child'[k].pid = child[k].pid
  PROVE  Entered' /\ Onward
BY DEF Entered, Known, Onward

LEMMA OrderEntered ==
  ASSUME Types, Entered, NEW pid, NEW again \in BOOLEAN, Order(pid, again)
  PROVE  Entered' /\ Onward
<1>1. CASE UNCHANGED <<proc, owner, child, next>>
  BY <1>1, PidsKept
<1>2. ASSUME NEW i \in Entries, StopChild(i)
      PROVE  Entered' /\ Onward
  <2>1. UNCHANGED <<owner, next>> /\ \A k \in Children : child'[k].pid = child[k].pid
    BY <1>2, EntryFacts DEF StopChild, Types, SsTypeOK, Child
  <2>. QED
    BY <2>1, PidsKept
<1>. QED
  BY <1>1, <1>2, OrderDoes

(* Every step of startstop keeps what is known of the pids.                *)
LEMMA SsStepEntered ==
  ASSUME Typed, Entered, SsStep
  PROVE  Entered' /\ Onward
<1>0. Types /\ ForksEntry
  BY DEF Typed
<1>1. ASSUME NEW i \in Children, StartChild(i)
      PROVE  Entered' /\ Onward
  BY <1>0, <1>1, ForkGives
<1>2. ASSUME UNCHANGED <<owner, child, next>>
      PROVE  Entered' /\ Onward
  BY <1>2, PidsKept
<1>3. CASE StartNext \/ SpawnNext
  <2>1. ss.idx <= nChild /\ (StartChild(ss.idx) \/ UNCHANGED <<owner, child, next>>)
    BY <1>3 DEF StartNext, SpawnNext
  <2>2. ss.idx \in Children
    BY <1>0, <2>1, EntryFacts DEF Entries
  <2>. QED
    BY <1>1, <1>2, <2>1, <2>2
<1>4. CASE ForkAgain
  <2>1. StartChild(ss.idx) /\ ss.idx \in Children
    BY <1>0, <1>4, EntryFacts DEF ForkAgain, ForksEntry
  <2>. QED
    BY <1>1, <2>1
<1>5. CASE Spawned \/ \E r \in Rings : TakeOrder(r)
  <2>1. PICK pid : \E again \in BOOLEAN : Order(pid, again)
    BY <1>5 DEF Spawned, TakeOrder
  <2>2. PICK again \in BOOLEAN : Order(pid, again)
    BY <2>1
  <2>. QED
    BY <1>0, <2>2, OrderEntered
<1>6. CASE \/ Started \/ EncodeRow \/ SendStatus \/ SeeFlag \/ ReapOne \/ SigTerm \/ Exit
           \/ \E r \in Rings : TakeRequest(r) \/ Reconfigure(r) \/ ReconfigureExits(r)
  <2>1. UNCHANGED <<owner, child, next>>
    BY <1>6 DEF Started, EncodeRow, SendStatus, SeeFlag, ReapOne, SigTerm, Exit,
                TakeRequest, Reconfigure, ReconfigureExits
  <2>. QED
    BY <1>2, <2>1
<1>. QED
  BY <1>3, <1>4, <1>5, <1>6 DEF SsStep

(* The rows written so far stay true, and each new one is.                 *)
LEMMA SsStepReports ==
  ASSUME Typed, Entered, Reporting, Onward, SsStep
  PROVE  Reporting'
<1>0. /\ Types /\ report.rows \in Seq(Row) /\ Len(report.rows) \in Nat
      /\ DOMAIN report.rows = 1 .. Len(report.rows)
  BY EntryFacts DEF Typed
<1>1. \A k \in DOMAIN report.rows :
        report.rows[k].pid > 0 =>
          /\ report.rows[k].pid \in Pids /\ report.rows[k].pid < next'
          /\ owner'[report.rows[k].pid] = report.rows[k].name
  BY TrueKept DEF Reporting
<1>2. CASE EncodeRow
  <2>1. /\ ss.idx <= nChild /\ UNCHANGED <<owner, next>>
        /\ report' = [report EXCEPT !.rows = Append(@, RowOf(ss.idx))]
    BY <1>2 DEF EncodeRow
  <2> DEFINE row == RowOf(ss.idx)
             m == Len(report.rows) + 1
  <2>2. ss.idx \in Children /\ row.name = ss.idx /\ row.pid = child[ss.idx].pid
    BY <1>0, <2>1, EntryFacts DEF RowOf, Entries
  <2>3. row \in Row
    BY <1>0, <2>1, RowType
  <2>4. row.pid > 0 => row.pid \in Pids /\ row.pid < next /\ owner[row.pid] = row.name
    BY <2>2 DEF Entered, Known
  <2>5. report'.rows = Append(report.rows, row)
    BY <1>0, <2>1, EntryFacts
  <2> HIDE DEF row
  <2>6. /\ DOMAIN report'.rows = 1 .. m /\ report'.rows[m] = row /\ m \in Nat
        /\ \A k \in 1 .. m : k # m =>
             k \in DOMAIN report.rows /\ report'.rows[k] = report.rows[k]
    BY <1>0, <2>3, <2>5
  <2> HIDE DEF m
  <2>7. \A k \in 1 .. m :
          report'.rows[k].pid > 0 =>
            /\ report'.rows[k].pid \in Pids /\ report'.rows[k].pid < next'
            /\ owner'[report'.rows[k].pid] = report'.rows[k].name
    BY <1>1, <2>1, <2>4, <2>6
  <2>. QED
    BY <2>6, <2>7 DEF Reporting, TrueRows, Known
<1>3. CASE SendStatus \/ \E r \in Rings : TakeRequest(r)
  <2>1. report'.rows = <<>>
    BY <1>0, <1>3, EntryFacts DEF SendStatus, TakeRequest
  <2>2. DOMAIN <<>> = {}
    OBVIOUS
  <2>. QED
    BY <2>1, <2>2 DEF Reporting, TrueRows
<1>4. CASE report' = report
  BY <1>1, <1>4 DEF Reporting, TrueRows, Known
<1>5. CASE \/ StartNext \/ Started \/ SpawnNext \/ Spawned \/ ForkAgain \/ SeeFlag
           \/ ReapOne \/ SigTerm \/ Exit
           \/ \E r \in Rings : TakeOrder(r) \/ Reconfigure(r) \/ ReconfigureExits(r)
  BY <1>4, <1>5 DEF StartNext, Started, SpawnNext, Spawned, ForkAgain, SeeFlag, ReapOne,
                    SigTerm, Exit, TakeOrder, Reconfigure, ReconfigureExits
<1>. QED
  BY <1>2, <1>3, <1>5 DEF SsStep

(* What is shown and was sent stays true while processes come.             *)
LEMMA WindowKept ==
  ASSUME Shown, StillSelected, SentKnown, Onward, UNCHANGED ewVars
  PROVE  Shown' /\ StillSelected' /\ SentKnown'
<1>1. UNCHANGED <<mods, sel, dlg, sent>>
  BY DEF ewVars
<1>2. Shown'
  BY <1>1 DEF Shown, Known, Onward
<1>3. StillSelected'
  BY <1>1 DEF StillSelected, Asking
<1>4. SentKnown'
  BY <1>1 DEF SentKnown, Known, Onward
<1>. QED
  BY <1>2, <1>3, <1>4

LEMMA RepliesType ==
  ASSUME Typed
  PROVE  /\ Replies \in Seq(Messages) /\ Len(Replies) \in Nat /\ DOMAIN Replies = 1 .. Len(Replies)
         /\ \A k \in DOMAIN Replies : Replies[k].rows \in Seq(Row)
<1>1. inbox \in Boxes /\ "ew_controller" \in Readers /\ OpRing \in Rings
  BY EntryFacts, ControlAssumption, ControllerAssumption DEF Typed
<1>2. Replies \in Seq(Messages)
  BY <1>1 DEF Boxes, Replies
<1>3. \A k \in DOMAIN Replies : Replies[k].rows \in Seq(Row)
  BY <1>2, MessageKinds DEF Typed, AllStatuses
<1>. QED
  BY <1>2, <1>3

LEMMA SsStepArrives ==
  ASSUME Typed, Reporting, Arriving, Onward, SsStep
  PROVE  Arriving'
<1> DEFINE Good(rows) == \A k \in DOMAIN rows :
             rows[k].pid > 0 => rows[k].pid \in Pids /\ rows[k].pid < next'
                                /\ owner'[rows[k].pid] = rows[k].name
<1>1. \A k \in DOMAIN Replies : Good(Replies[k].rows)
  BY DEF Arriving, TrueRows, Known, Onward
<1>2. Good(report.rows)
  BY DEF Reporting, TrueRows, Known, Onward
<1>3. Arriving' <=> \A k \in DOMAIN Replies' : Good(Replies'[k].rows)
  BY DEF Arriving, TrueRows, Known
<1> HIDE DEF Good
<1>4. CASE Replies' = Replies
  BY <1>1, <1>3, <1>4
<1>5. CASE Replies' = Append(Replies, [type |-> "status", rows |-> report.rows])
  <2> DEFINE m == [type |-> "status", rows |-> report.rows]
  <2>1. m.rows = report.rows /\ Replies' = Append(Replies, m)
    BY <1>5
  <2> HIDE DEF m
  <2>2. \A k \in DOMAIN Replies' :
          \/ k \in DOMAIN Replies /\ Replies'[k] = Replies[k]
          \/ Replies'[k] = m
    BY <2>1, RepliesType
  <2>. QED
    BY <1>1, <1>2, <1>3, <2>1, <2>2
<1>. QED
  BY <1>4, <1>5, SsStepSends DEF Typed

-----------------------------------------------------------------------------
(* The second invariant, the steps of the window.                          *)

(* The rows of a status with a pid are taken over.  The pid searched in    *)
(* them is that of the row at the old place; a row that has it is one of   *)
(* the same module, for a pid is forked for one module only.               *)
LEMMA ReadMeant ==
  ASSUME Meant, Read
  PROVE  Shown' /\ Arriving' /\ StillSelected' /\ SentKnown'
<1> DEFINE rows == Head(Replies).rows
<1>0. /\ Typed /\ Shown /\ Arriving /\ StillSelected /\ SentKnown
      /\ UNCHANGED <<owner, next, sent>>
  BY DEF Read, Meant, ssVars
<1>1. /\ Replies \in Seq(Messages) /\ Replies # <<>> /\ Replies[1] = Head(Replies)
      /\ rows \in Seq(Row) /\ mods' = Parsed(rows) /\ mods' \in Seq(Row)
      /\ sel' = FirstWith(mods', Intent(mods')) /\ Replies' = Tail(Replies)
      /\ dlg' = [dlg EXCEPT !.shifted = @ \/ Shifted(mods')]
  BY <1>0, ReadDoes
<1>2. 1 \in DOMAIN Replies /\ Replies[1].rows = rows
  BY <1>1
<1>3. TrueRows(rows)
  BY <1>0, <1>2 DEF Arriving
<1> HIDE DEF rows
<1>4. \A j \in 1 .. Len(mods') :
        mods'[j].pid > 0 /\ \E i \in 1 .. Len(rows) : mods'[j] = rows[i]
  BY <1>1, ParsedRows
<1>5. /\ DOMAIN mods' = 1 .. Len(mods')
      /\ \A j \in 1 .. Len(mods') : Known(mods'[j].pid, mods'[j].name)
  BY <1>1, <1>3, <1>4 DEF TrueRows
<1>6. Shown'
  BY <1>0, <1>5 DEF Shown, Known
<1>7. Arriving'
  <2>1. \A k \in DOMAIN Replies' : k + 1 \in DOMAIN Replies /\ Replies'[k] = Replies[k + 1]
    BY <1>1
  <2>. QED
    BY <1>0, <2>1 DEF Arriving, TrueRows, Known
<1>8. StillSelected'
  <2> SUFFICES ASSUME dlg' # None, ~dlg'.shifted
               PROVE  sel' \in DOMAIN mods' /\ mods'[sel'].name = dlg'.name
    BY DEF StillSelected, Asking
  <2>1. dlg \in Question
    BY <1>0 DEF Typed, WindowTypes
  <2>2. ~dlg.shifted /\ ~Shifted(mods') /\ dlg'.name = dlg.name
    BY <1>1, <2>1 DEF Question
  <2>3. Asking
    <3>1. CASE dlg = None
      BY <1>1, <2>2, <3>1 DEF None
    <3>. QED
      BY <3>1 DEF Asking
  <2>4. sel \in 1 .. Len(mods') /\ mods'[sel].name = dlg.name
    BY <1>5, <2>2, <2>3 DEF Shifted
  <2>5. Intent(mods') = mods'[sel].pid
    BY <1>5, <2>4 DEF Intent
  <2>6. sel' \in 0 .. Len(mods') /\ sel' # 0 /\ mods'[sel'].pid = mods'[sel].pid
    BY <1>1, <2>4, <2>5, First
  <2>7. sel' \in 1 .. Len(mods')
    BY <2>6
  <2>8. mods'[sel'].name = mods'[sel].name
    BY <1>5, <2>4, <2>6, <2>7 DEF Known
  <2>. QED
    BY <1>5, <2>2, <2>4, <2>7, <2>8
<1>9. SentKnown'
  BY <1>0 DEF SentKnown, Known
<1>. QED
  BY <1>6, <1>7, <1>8, <1>9

(* What a step of the window or of another process has no part in.         *)
LEMMA QuietMeant ==
  ASSUME Meant, UNCHANGED <<owner, ssVars, mods>>, Replies' = Replies
  PROVE  Entered' /\ Reporting' /\ Shown' /\ Arriving'
<1>1. Entered /\ Reporting /\ Shown /\ Arriving /\ UNCHANGED <<child, next, report>>
  BY DEF Meant, ssVars
<1>. QED
  BY <1>1 DEF Entered, Reporting, Shown, Arriving, TrueRows, Known

LEMMA StepMeant ==
  ASSUME Meant, [Next]_vars
  PROVE  Meant'
<1>0. /\ Typed /\ Entered /\ Reporting /\ Shown /\ Arriving /\ StillSelected /\ SentKnown
      /\ inbox \in Boxes /\ WindowTypes /\ mods \in Seq(Row) /\ Types /\ dlg \in Question
  BY EntryFacts DEF Meant, Typed, WindowTypes
<1>1. Typed'
  BY <1>0, StepTyped
<1>2. CASE StartStopStep
  <2>1. SsStep /\ UNCHANGED ewVars /\ mods' = mods
    BY <1>2 DEF StartStopStep, ewVars
  <2>2. Entered' /\ Onward
    BY <1>0, <2>1, SsStepEntered
  <2>3. Reporting' /\ Arriving'
    BY <1>0, <2>1, <2>2, SsStepReports, SsStepArrives
  <2>4. Shown' /\ StillSelected' /\ SentKnown'
    BY <1>0, <2>1, <2>2, WindowKept
  <2>. QED
    BY <1>1, <2>2, <2>3, <2>4 DEF Meant
<1>3. CASE Read
  <2>1. Entered' /\ Reporting'
    BY <1>0, <1>3 DEF Read, ssVars, Entered, Known, Reporting, TrueRows
  <2>. QED
    BY <1>1, <1>3, <2>1, ReadMeant DEF Meant
<1>4. ASSUME UNCHANGED <<owner, ssVars, mods, sel, dlg, sent>>, Replies' = Replies
      PROVE  Meant'
  <2>1. StillSelected' /\ SentKnown'
    BY <1>0, <1>4 DEF StillSelected, Asking, SentKnown, Known, ssVars
  <2>. QED
    BY <1>1, <1>4, <2>1, QuietMeant DEF Meant
<1>5. CASE PollStatus
  <2>1. [type |-> "reqstatus"] \in Messages
    BY MessageKinds
  <2>2. Replies' = Replies
    BY <1>0, <1>5, <2>1, RequestPut DEF PollStatus, Replies
  <2>. QED
    BY <1>4, <1>5, <2>2 DEF PollStatus, ewVars
<1>6. CASE No
  <2>1. /\ UNCHANGED <<owner, ssVars, mods, sel, sent>> /\ Replies' = Replies /\ dlg' = None
    BY <1>6 DEF No, Replies
  <2>2. StillSelected' /\ SentKnown'
    BY <1>0, <2>1 DEF StillSelected, Asking, SentKnown, Known, ssVars
  <2>. QED
    BY <1>1, <2>1, <2>2, QuietMeant DEF Meant
<1>7. CASE Yes
  <2>1. /\ UNCHANGED <<owner, ssVars, mods, sel>> /\ dlg' = None /\ Asking
    BY <1>7 DEF Yes
  <2>2. PICK pid \in PidsSent : sent' = [dlg EXCEPT !.pid = pid]
    BY <1>0, <1>7, YesTyped
  <2>3. sent'.pid = pid /\ sent'.name = dlg.name /\ sent'.shifted = dlg.shifted
    BY <1>0, <2>2 DEF Question
  <2>4. ASSUME ~dlg.shifted PROVE Known(pid, dlg.name)
    <3>1. sel \in DOMAIN mods /\ mods[sel].name = dlg.name /\ DOMAIN mods = 1 .. Len(mods)
      BY <1>0, <2>1, <2>4 DEF StillSelected
    <3>2. pid = mods[sel].pid
      BY <2>2, <3>1 DEF PidsSent
    <3>. QED
      BY <1>0, <3>1, <3>2 DEF Shown
  <2>5. SentKnown' /\ StillSelected'
    BY <2>1, <2>3, <2>4 DEF SentKnown, Known, StillSelected, Asking, ssVars
  <2>. QED
    BY <1>0, <1>1, <1>7, <2>1, <2>5, YesTyped, QuietMeant DEF Meant
<1>8. ASSUME NEW k \in 0 .. Len(mods), Select(k)
      PROVE  Meant'
  <2>1. UNCHANGED <<owner, ssVars, mods, dlg, sent>> /\ Replies' = Replies /\ ~Asking
    BY <1>8 DEF Select, Replies
  <2>2. StillSelected' /\ SentKnown'
    BY <1>0, <2>1 DEF StillSelected, Asking, SentKnown, Known, ssVars
  <2>. QED
    BY <1>1, <2>1, <2>2, QuietMeant DEF Meant
<1>9. ASSUME NEW kind \in {"stop", "restart"}, Press(kind)
      PROVE  Meant'
  <2>1. /\ UNCHANGED <<owner, ssVars, mods, sel, sent>> /\ Replies' = Replies /\ sel # 0
        /\ dlg' = [kind |-> kind, name |-> mods[sel].name, pid |-> mods[sel].pid,
                   shifted |-> FALSE]
    BY <1>9 DEF Press, Replies
  <2>2. sel \in DOMAIN mods
    BY <1>0, <2>1 DEF WindowTypes
  <2>3. dlg'.name = mods[sel].name
    BY <2>1
  <2>4. StillSelected' /\ SentKnown'
    BY <1>0, <2>1, <2>2, <2>3 DEF StillSelected, SentKnown, Known, ssVars
  <2>. QED
    BY <1>1, <2>1, <2>4, QuietMeant DEF Meant
<1>10. ASSUME NEW m \in Messages, m.type # "status", Others(m)
       PROVE  Meant'
  <2>1. Replies' = Replies
    BY <1>0, <1>10, RequestPut DEF Others, Replies
  <2>. QED
    BY <1>4, <1>10, <2>1 DEF Others
<1>11. ASSUME NEW i \in Entries, Others([type |-> "restart", pid |-> child[i].pid])
       PROVE  Meant'
  <2>1. child[i].pid \in PidValues
    BY <1>0, EntryFacts DEF Types, SsTypeOK, Child
  <2>2. [type |-> "restart", pid |-> child[i].pid] \in Messages
    BY <2>1, MessageKinds
  <2>. QED
    BY <1>10, <1>11, <2>2
<1>12. CASE Others([type |-> "reconfig"])
  <2>1. [type |-> "reconfig"] \in Messages
    BY MessageKinds
  <2>. QED
    BY <1>10, <1>12, <2>1
<1>13. ASSUME NEW p \in Pids, Die(p)
       PROVE  Meant'
  BY <1>4, <1>13 DEF Die, Replies
<1>14. CASE UNCHANGED vars
  BY <1>4, <1>14 DEF vars, ewVars, Replies
<1>. QED
  BY <1>2, <1>3, <1>5, <1>6, <1>7, <1>8, <1>9, <1>11, <1>12, <1>13, <1>14 DEF Next

LEMMA InitMeant == Init => Meant
<1> SUFFICES ASSUME Init PROVE Meant
  OBVIOUS
<1>1. Typed
  BY InitTyped
<1>2. "ew_controller" \in Readers /\ OpRing \in Rings
  BY ControlAssumption, ControllerAssumption
<1>3. /\ Replies = <<>> /\ mods = <<>> /\ report.rows = <<>>
      /\ DOMAIN Replies = {} /\ DOMAIN mods = {} /\ DOMAIN report.rows = {} /\ Len(mods) = 0
  <2>1. Replies = <<>> /\ mods = <<>> /\ report.rows = <<>>
    BY <1>2 DEF Init, SsInit, Replies
  <2>2. DOMAIN <<>> = {} /\ Len(<<>>) = 0
    OBVIOUS
  <2>. QED
    BY <2>1, <2>2
<1>4. \A i \in Children : child[i].pid = 0
  BY DEF Init, SsInit
<1>6. Entered
  BY <1>4 DEF Entered
<1>7. Reporting /\ Shown /\ Arriving
  BY <1>3 DEF Reporting, Shown, Arriving, TrueRows
<1>8. StillSelected /\ SentKnown
  BY DEF Init, StillSelected, Asking, SentKnown
<1>. QED
  BY <1>1, <1>6, <1>7, <1>8 DEF Meant

(* What is sent on yes is the pid of a process of the module that the      *)
(* question named, for any number of modules, statuses on their way,       *)
(* failed forks, restarts, deaths and reconfigures while it is open, or    *)
(* else a status put another module, or none, in that module's place.      *)
THEOREM QuestionIsMeant == Spec => []NamedUnlessShifted
<1>1. Meant /\ [Next]_vars => Meant'
  BY StepMeant
<1>2. Meant => NamedUnlessShifted
  BY DEF Meant, SentKnown, Known, NamedUnlessShifted, NamedIsMeant
<1>. QED
  BY <1>1, <1>2, InitMeant, PTL DEF Spec
=============================================================================
