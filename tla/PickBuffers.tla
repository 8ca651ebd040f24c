---------------------------- MODULE PickBuffers -----------------------------
(***************************************************************************)
(* loc_wcatwc: the main thread puts the picks it gets from the ring into   *)
(* pick buffers, one buffer per quake; LocateThread goes over the buffers, *)
(* locates what has changed and moves picks between them.  One mutex       *)
(* guards the buffers; main does all of a message under it.                *)
(*                                                                         *)
(* Left out: travel times (a pick fits a quake or it does not),            *)
(* magnitudes, the clock (a time limit has passed or it has not), and      *)
(* picks of one station further apart than BUFFER_TIMEOUT.                 *)
(***************************************************************************)
EXTENDS LocateQuake, FiniteSetsExt

CONSTANTS
  NumPBuffs,    \* Gparm.NumPBuffs
  MaxIds,       \* quake ids are below this (10000 in the code)
  ManyPs,       \* picks from which misfits are removed for good (10)
  LargePs,      \* picks of a large event (MinPs + 10)
  MaxScavenge,  \* MAX_SCAVENGE
  KOs,          \* iUseMe of the picks that name no quake: 1, and 0 if any is
                \* taken back
  MaxMsgs,      \* bound: messages in a behaviour
  MaxAsked      \* bound: those of them about a quake

ASSUME BuffersAssumption ==
  /\ {NumPBuffs, MaxIds, ManyPs, LargePs, MaxScavenge} \subseteq Nat \ {0}
  /\ {MaxMsgs, MaxAsked} \subseteq Nat
  /\ KOs \subseteq {0, 1}
  /\ NumPBuffs < MaxIds

Buffers == 1 .. NumPBuffs

VARIABLES
  buf,      \* PBuf and iPBufCnt
  hypo,     \* Hypo, without the id
  id,       \* Hypo[i].iQuakeID
  last,     \* iLastBuffCnt
  removed,  \* szStnRem and iNumPBufRem
  active,   \* iActiveBuffer
  loc,      \* LocateThread: program counter and local variables
  known,    \* the quakes reported, which hypo_display shows
  msgs,     \* messages so far, and those about a quake
  due       \* history: buffers an analyst changed and nothing visited since

vars == <<buf, hypo, id, last, removed, active, loc, known, msgs, due>>

Locator ==
  [pc : {"look", "lock", "misfit", "scavenge", "release", "final", "scan",
         "recycle"},
   b : Buffers,        \* the buffer at hand (i, or iMin)
   iFinal : BOOLEAN,
   iLoc : BOOLEAN,
   iRC : 0 .. NumPBuffs,  \* what LocateQuake returned, 0 for -1
   from : Buffers, k : 1 .. MaxStations + 1]  \* where a search goes on

(* Types: no buffer is filled past MAX_STATIONS, whoever puts the pick in, *)
(* and LocateQuake never counts more picks than fit into one.              *)
TypeOK ==
  /\ buf \in [Buffers -> Seq(Picks)] /\ \A b \in Buffers : Len(buf[b]) <= MaxStations
  /\ hypo \in [Buffers -> Hypos]
  /\ \A b \in Buffers : hypo[b].nump + hypo[b].bad <= MaxStations
  /\ id \in [Buffers -> 0 .. MaxIds - 1]
  /\ last \in [Buffers -> -1 .. MaxStations]
  /\ removed \in [Buffers -> SUBSET Stations]
  /\ active \in Buffers
  /\ loc \in Locator
  /\ known \subseteq 0 .. MaxIds - 1
  /\ msgs \in [all : 0 .. MaxMsgs, asked : 0 .. MaxAsked]
  /\ due \subseteq Buffers

Idle == [pc |-> "look", b |-> 1, iFinal |-> FALSE, iLoc |-> FALSE, iRC |-> 0,
         from |-> 1, k |-> 1]

Init ==
  /\ buf = [b \in Buffers |-> <<>>]
  /\ hypo = [b \in Buffers |-> InitHypo]
  /\ id = [b \in Buffers |-> b]
  /\ last = [b \in Buffers |-> 0]
  /\ removed = [b \in Buffers |-> {}]
  /\ active = 1
  /\ loc = Idle
  /\ known = {}
  /\ msgs = [all |-> 0, asked |-> 0]
  /\ due = {}

-----------------------------------------------------------------------------
(* Buffers.                                                                *)

Has(b, stn) == \E i \in DOMAIN buf[b] : buf[b][i].stn = stn

Room(b) == Len(buf[b]) < MaxStations

(* The entry of the station found first in buffer b.                       *)
PlaceOf(b, stn) == Min({i \in DOMAIN buf[b] : buf[b][i].stn = stn})

(* Fault: a full buffer is written past its end.                           *)
AppendIfRoom_Unchecked(b, p) == buf' = [buf EXCEPT ![b] = Append(@, p)]

AppendIfRoom(b, p) ==
  buf' = IF Room(b) THEN [buf EXCEPT ![b] = Append(@, p)] ELSE buf

(* The n-th buffer from the active one on.                                 *)
FromActive(n) == ((active + n - 1) % NumPBuffs) + 1

(* The oldest P of the buffers E; none: the index is still 0, the first.   *)
Oldest(E) ==
  LET stns == {p.stn : p \in {p \in UNION {Range(buf[b]) : b \in E} : p.timed}}
  IN IF stns = {} THEN 1
     ELSE Min({b \in E : \E p \in Range(buf[b]) : p.timed /\ p.stn = Min(stns)})

(* Buffers a new quake may take: without an Ms yet, or two hours old.      *)
Recyclable == {E \in SUBSET Buffers : \A b \in Buffers : Solved(hypo[b]) \/ b \in E}

(* Fault: the quake takes the next id, whichever buffer has it.            *)
NextId_One(i) == IF i + 1 >= MaxIds THEN i + 1 - MaxIds ELSE i + 1

NextId(i) == IF i + NumPBuffs >= MaxIds THEN i + NumPBuffs - MaxIds
             ELSE i + NumPBuffs

(* Buffer b is emptied for a new quake, which starts with the picks ps.    *)
Recycle(b, ps) ==
  /\ buf' = [buf EXCEPT ![b] = ps]
  /\ hypo' = [hypo EXCEPT ![b] = InitHypo]
  /\ id' = [id EXCEPT ![b] = NextId(@)]
  /\ last' = [last EXCEPT ![b] = 0]
  /\ removed' = [removed EXCEPT ![b] = {}]
  /\ due' = due \ {b}

(* What LocateQuake may make of buffer b.  A good quake behind a large one *)
(* is not (dPreferredMag > 5.8); one that is the same as a quake with more *)
(* picks returns that buffer.                                              *)
Outcomes(b, iLoc) ==
  LET others == {c \in Buffers \ {b} : Solved(hypo[c])}
      fits == IF iLoc THEN Locations(buf[b], hypo[b]) ELSE MagsOnly(buf[b], hypo[b])
      Behind(h) == IF others # {} THEN {h, [h EXCEPT !.good = FALSE]} ELSE {h}
      Same(r) == {b} \cup {c \in others : Len(buf[c]) > Len(r.ps)}
  IN {[ps |-> r.ps, h |-> r.h, rc |-> 0] : r \in {r \in fits : ~r.ok}}
       \cup UNION {{[ps |-> r.ps, h |-> h, rc |-> c] : h \in Behind(r.h), c \in Same(r)} :
                     r \in {r \in fits : r.ok}}

(* The outcome r; a good quake that is no other's copy is reported.        *)
LocateQuake(b, r) ==
  /\ buf' = [buf EXCEPT ![b] = r.ps]
  /\ hypo' = [hypo EXCEPT ![b] = r.h]
  /\ known' = IF r.rc = b /\ Located(r.h) THEN known \cup {id[b]} ELSE known

(* A pick of buffer b at place i is moved to the end of buffer c.          *)
Move(b, i, c) ==
  buf' = [buf EXCEPT ![c] = Append(@, buf[b][i]), ![b] = RemoveP(@, i)]

-----------------------------------------------------------------------------
(* The main thread: one message from the ring, under the mutex.            *)

Free == loc.pc \notin {"misfit", "scavenge", "release"}

Message(asked) ==
  /\ Free
  /\ msgs.all < MaxMsgs /\ msgs.asked + asked <= MaxAsked
  /\ msgs' = [all |-> msgs.all + 1, asked |-> msgs.asked + asked]

Named(q) == {b \in Buffers : id[b] = q}

(* Force button of hypo_display.  The quake may be gone.                   *)
ForceLocation(q) ==
  /\ IF Named(q) = {} THEN UNCHANGED <<buf, hypo, known, active, due>>
     ELSE LET b == Min(Named(q))
          IN \E r \in Outcomes(b, TRUE) :
               /\ LocateQuake(b, r)
               /\ active' = IF r.rc > 0 /\ r.h.good THEN r.rc ELSE active
               /\ due' = due \ {b}
  /\ UNCHANGED <<id, last, removed, loc>>

(* hypo_display deletes the pick of a station.                             *)
Delete(q, stn) ==
  /\ \E b \in Buffers : id[b] = q
  /\ LET b == Min(Named(q))
     IN IF Has(b, stn)
        THEN /\ buf' = [buf EXCEPT ![b] = RemoveP(@, PlaceOf(b, stn))]
             /\ last' = [last EXCEPT ![b] = -1]
             /\ due' = due \cup {b}
        ELSE UNCHANGED <<buf, last, due>>
  /\ UNCHANGED <<hypo, id, removed, active, loc, known>>

(* LoadUpPBuff, an amplitude without a P for the quake q.                  *)
Amplitude(q, stn) ==
  /\ Named(q) # {}
  /\ LET b == Min(Named(q))
     IN IF Has(b, stn)
        THEN \E r \in Outcomes(b, FALSE) : LocateQuake(b, r)
        ELSE /\ AppendIfRoom(b, [stn |-> stn, timed |-> FALSE, use |-> 1])
             /\ UNCHANGED <<hypo, known>>
  /\ UNCHANGED <<id, last, removed, active, loc, due>>

(* Fault: a pick put in the place of another leaves the count as it was.   *)
NamedPick_InPlace(p, q) ==
  /\ Named(q) # {}
  /\ LET b == Min(Named(q))
     IN IF Has(b, p.stn)
        THEN /\ buf' = [buf EXCEPT ![b][PlaceOf(b, p.stn)] = p]
             /\ due' = due \cup {b}
        ELSE AppendIfRoom(b, p) /\ UNCHANGED due
  /\ UNCHANGED <<hypo, id, last, removed, active, loc, known>>

(* LoadUpPBuff, the pick p names the quake q and the quake is there.       *)
NamedPick(p, q) ==
  /\ Named(q) # {}
  /\ LET b == Min(Named(q))
     IN IF Has(b, p.stn)
        THEN /\ buf' = [buf EXCEPT ![b][PlaceOf(b, p.stn)] = p]
             /\ last' = [last EXCEPT ![b] = -1]
             /\ due' = due \cup {b}
        ELSE AppendIfRoom(b, p) /\ UNCHANGED <<last, due>>
  /\ UNCHANGED <<hypo, id, removed, active, loc, known>>

(* The buffers with a P of the station, and the place of the first.        *)
Holding(stn) == {b \in Buffers : \E p \in Range(buf[b]) : p.timed /\ p.stn = stn}

PlaceOfP(b, stn) == Min({i \in DOMAIN buf[b] : buf[b][i].timed /\ buf[b][i].stn = stn})

(* LoadUpPBuff, the station's P is already in a buffer: it is replaced,    *)
(* unless it is manual and p automatic.                                    *)
RepeatedPick(p) ==
  /\ Holding(p.stn) # {}
  /\ LET b == Min(Holding(p.stn))
         i == PlaceOfP(b, p.stn)
         manual == p.use = 2
     IN IF p.use = 1 /\ buf[b][i].use = 2 THEN UNCHANGED <<buf, last, due>>
        ELSE /\ buf' = [buf EXCEPT ![b][i] = p]
             /\ last' = IF manual THEN [last EXCEPT ![b] = -1] ELSE last
             /\ due' = IF manual THEN due \cup {b} ELSE due
  /\ UNCHANGED <<hypo, id, removed, active, loc, known>>

(* LoadUpPBuff, a P of a new station.  The quakes located are tried from   *)
(* the active buffer on; a buffer the station was removed from ends it.    *)
Barred(p, n) == \E m \in 0 .. n : p.stn \in removed[FromActive(m)]

NewPick(p) == Holding(p.stn) = {}

Joins(p) ==
  /\ NewPick(p)
  /\ \E n \in 0 .. NumPBuffs - 1 :
       ~Barred(p, n) /\ Located(hypo[FromActive(n)]) /\ AppendIfRoom(FromActive(n), p)
  /\ UNCHANGED <<hypo, id, last, removed, active, loc, known, due>>

(* Dropped: barred, or a later phase of a large event.                     *)
Dropped(p) ==
  /\ NewPick(p)
  /\ \/ Barred(p, NumPBuffs - 1)
     \/ \E b \in Buffers : hypo[b].nump >= LargePs /\ hypo[b].good
  /\ UNCHANGED <<buf, hypo, id, last, removed, active, loc, known, due>>

(* Picks without a location yet may be near the pick in place and time.    *)
Near(b, stn) == buf[b] # <<>> /\ ~Located(hypo[b]) /\ ~Has(b, stn)

Gathers(p) ==
  /\ NewPick(p) /\ ~Barred(p, NumPBuffs - 1)
  /\ \E b \in Buffers \ {active} : Near(b, p.stn) /\ AppendIfRoom(b, p)
  /\ UNCHANGED <<hypo, id, last, removed, active, loc, known, due>>

Empty == {b \in Buffers : buf[b] = <<>>}

FirstEmpty(b) == CHOOSE c \in Empty : \A d \in Empty :
                   (c - b + NumPBuffs) % NumPBuffs <= (d - b + NumPBuffs) % NumPBuffs

(* The pick starts a quake, in an empty buffer or in the oldest one.       *)
Starts(p) ==
  /\ NewPick(p) /\ ~Barred(p, NumPBuffs - 1)
  /\ \/ /\ Empty # {}
        /\ buf' = [buf EXCEPT ![FirstEmpty(active)] = <<p>>]
        /\ UNCHANGED <<hypo, id, last, removed, due>>
     \/ /\ Empty = {}
        /\ \E E \in Recyclable : Recycle(Oldest(E), <<p>>)
  /\ UNCHANGED <<active, loc, known>>

LoadUpPBuff(p) ==
  RepeatedPick(p) \/ Joins(p) \/ Dropped(p) \/ Gathers(p) \/ Starts(p)

(* A pick that names a quake that is gone is one like any other.           *)
ManualPick(p, q) ==
  IF Named(q) = {} THEN LoadUpPBuff(p) ELSE NamedPick(p, q)

(* What the senders put into the ring.  pick_wcatwc: an automatic pick.    *)
(* new_develo: an operator's pick, or the same with iUseMe 0 before it     *)
(* replaces it; neither names a quake.  hypo_display: a manual pick or a   *)
(* deletion for a quake it shows, or a forced location.  An amplitude      *)
(* comes for a quake reported (external: lpproc).                          *)
Main ==
  \/ /\ Message(0)
     /\ \E stn \in Stations, use \in KOs :
          LoadUpPBuff([stn |-> stn, timed |-> TRUE, use |-> use])
  \/ /\ Message(1)
     /\ \E q \in known \ {0}, stn \in Stations :
          ManualPick([stn |-> stn, timed |-> TRUE, use |-> 2], q) \/ Delete(q, stn)
  \/ Message(1) /\ \E q \in known \ {0} : ForceLocation(q)
  \/ Message(1) /\ \E q \in known, stn \in Stations : Amplitude(q, stn)

-----------------------------------------------------------------------------
(* LocateThread.                                                           *)

At(pc) == loc.pc = pc

Passed == IF loc.b < NumPBuffs THEN [Idle EXCEPT !.b = loc.b + 1]
          ELSE [Idle EXCEPT !.pc = "scan"]

Changed(b) == Len(buf[b]) >= MinPs /\ Len(buf[b]) # last[b]

(* The look at a buffer takes no mutex.  A last location is due when no    *)
(* pick has come for a while.                                              *)
Look ==
  /\ At("look")
  /\ \E iFinal \in BOOLEAN :
       /\ iFinal => hypo[loc.b].good /\ ~hypo[loc.b].final
       /\ loc' = IF Changed(loc.b) \/ iFinal
                 THEN [loc EXCEPT !.pc = "lock", !.iFinal = iFinal]
                 ELSE Passed
  /\ UNCHANGED <<buf, hypo, id, last, removed, active, known, msgs, due>>

(* Fault: no limit on the versions of a quake.                             *)
MayLocate_AnyVersion(b) ==
  /\ buf[b] # <<>> => Last(buf[b]).timed
  /\ hypo[b].nump < MaxStations

MayLocate(b) ==
  /\ buf[b] # <<>> => Last(buf[b]).timed
  /\ hypo[b].ver < MaxVersions
  /\ hypo[b].nump < MaxStations

(* With the mutex.  An emptied buffer is read in front of its first entry: *)
(* anything may be there.                                                  *)
Locate ==
  /\ At("lock")
  /\ LET b == loc.b
     IN \E iLoc \in IF buf[b] = <<>> THEN BOOLEAN ELSE {MayLocate(b)} :
        \E r \in Outcomes(b, iLoc /\ MayLocate(b)) :
          /\ LocateQuake(b, r)
          /\ last' = [last EXCEPT ![b] = Len(buf[b])]
          /\ due' = due \ {b}
          /\ loc' = [loc EXCEPT !.iLoc = iLoc /\ MayLocate(b), !.iRC = r.rc,
                       !.pc = IF r.rc = 0 \/ loc.iFinal THEN "release"
                              ELSE IF Len(r.ps) > MinPs + 1 THEN "misfit"
                              ELSE "scavenge"]
  /\ UNCHANGED <<id, removed, active, msgs>>

(* CheckPBuffTimes.  A misfit is removed and its station barred, or goes   *)
(* to a quake it fits, to picks it may belong to, to an empty buffer; or   *)
(* it is dropped.                                                          *)
Barring(b, i) ==
  /\ buf[b][i].use < 2 /\ hypo[b].good /\ hypo[b].nump >= ManyPs
  /\ removed' = [removed EXCEPT ![b] = @ \cup {buf[b][i].stn}]
  /\ buf' = [buf EXCEPT ![b] = RemoveP(@, i)]

Misfit(b, i) ==
  /\ \/ \E c \in Buffers \ {b} :
          /\ (Located(hypo[c]) /\ ~Has(c, buf[b][i].stn)) \/ Near(c, buf[b][i].stn)
          /\ Room(c)
          /\ Move(b, i, c)
     \/ Empty # {} /\ Move(b, i, FirstEmpty(b))
     \/ Empty = {} /\ buf' = [buf EXCEPT ![b] = RemoveP(@, i)]
  /\ UNCHANGED removed

RemoveMisfits ==
  /\ At("misfit")
  /\ \E i \in loc.k .. Len(buf[loc.b]) :
       /\ buf[loc.b][i].timed
       /\ Barring(loc.b, i) \/ Misfit(loc.b, i)
       /\ loc' = [loc EXCEPT !.k = i]
  /\ UNCHANGED <<hypo, id, last, active, known, msgs, due>>

(* A located quake takes picks that fit it out of the other buffers.  The  *)
(* entry behind the one taken is not looked at.                            *)
Takes(b, c, i) ==
  /\ c # b
  /\ At("misfit") \/ c > loc.from \/ (c = loc.from /\ i >= loc.k)
  /\ ~hypo[c].good \/ buf[c][i].use < 1
  /\ buf[c][i].timed
  /\ hypo[c].nump < MaxScavenge
  /\ ~Has(b, buf[c][i].stn)
  /\ Room(b)

Scavenge ==
  /\ At("misfit") \/ At("scavenge")
  /\ Located(hypo[loc.b])
  /\ \E c \in Buffers : \E i \in DOMAIN buf[c] :
       /\ Takes(loc.b, c, i)
       /\ Move(c, i, loc.b)
       /\ loc' = [loc EXCEPT !.pc = "scavenge", !.from = c, !.k = i + 1]
  /\ UNCHANGED <<hypo, id, last, removed, active, known, msgs, due>>

(* The end of the visit, when no more picks are moved.                     *)
Release ==
  /\ ~Free
  /\ active' = IF loc.iRC > 0 /\ hypo[loc.b].good THEN loc.iRC ELSE active
  /\ loc' = IF loc.iFinal THEN [Idle EXCEPT !.pc = "final", !.b = loc.b] ELSE Passed
  /\ UNCHANGED <<buf, hypo, id, last, removed, known, msgs, due>>

(* iFinalMade is set after the mutex is released.                          *)
FinalMade ==
  /\ At("final")
  /\ hypo' = [hypo EXCEPT ![loc.b].final = TRUE]
  /\ loc' = Passed
  /\ UNCHANGED <<buf, id, last, removed, active, known, msgs, due>>

(* No empty buffer is left: one is chosen, without the mutex.              *)
Scan ==
  /\ At("scan")
  /\ IF Empty # {} THEN loc' = Idle
     ELSE \E E \in Recyclable : loc' = [loc EXCEPT !.pc = "recycle", !.b = Oldest(E)]
  /\ UNCHANGED <<buf, hypo, id, last, removed, active, known, msgs, due>>

(* And emptied with it, whatever main has put there meanwhile.             *)
Reuse ==
  /\ At("recycle")
  /\ Recycle(loc.b, <<>>)
  /\ loc' = Idle
  /\ UNCHANGED <<active, known, msgs>>

LocateThread ==
  \/ Look \/ Locate \/ RemoveMisfits \/ Scavenge \/ Release \/ FinalMade
  \/ Scan \/ Reuse

-----------------------------------------------------------------------------

Next == Main \/ LocateThread

Spec == Init /\ [][Next]_vars

(* The thread runs; main waits for a message as long as it likes.          *)
FairSpec == Spec /\ WF_vars(LocateThread)

-----------------------------------------------------------------------------

(* No two buffers hold quakes of the same id, whoever recycles them and    *)
(* however often the ids wrap (Hypo[i].iQuakeID += NumPBuffs).             *)
UniqueIds == \A b, c \in Buffers : b # c => id[b] # id[c]

(* What an analyst changed is looked at again, although the number of      *)
(* picks is what it was (iLastBuffCnt = -1), unless picks become too few.  *)
Revisited ==
  \A b \in Buffers :
    b \in due /\ Len(buf[b]) >= MinPs ~> b \notin due \/ Len(buf[b]) < MinPs

(* When no more messages come, the locator comes to rest: picks that two   *)
(* buffers take from each other do not keep it locating for ever           *)
(* (MAX_VERSIONS).                                                         *)
Settles == <>[](~loc.iLoc)

(* A location knocks out automatic picks only ("2->This pick will not be   *)
(* removed by FindBadPs", earlybirdlib.h:406), as long as the buffer has   *)
(* as many of them as FindBadPs may look for: no fewer than MAX_TO_KO, and *)
(* no second solution without the newest picks.                            *)
Automatic(b) == {i \in DOMAIN buf[b] : buf[b][i].timed /\ buf[b][i].use < 2}

Enough(b) ==
  /\ Cardinality(Automatic(b)) >= MaxKO
  /\ hypo[b].good => Len(buf[b]) <= MinPs + 2

ManualKept ==
  [][LET b == loc.b
     IN Locate /\ Enough(b) =>
          \A j \in DOMAIN buf'[b] : buf'[b][j].use = 0 =>
            \E i \in DOMAIN buf[b] :
              buf[b][i].stn = buf'[b][j].stn /\ buf[b][i].use < 2]_vars
=============================================================================
