------------------------- MODULE Transport_proofs -------------------------
(***************************************************************************)
(* What is proved of the transport ring for every number of putters,       *)
(* getters and logos and every size of the region.                         *)
(***************************************************************************)
EXTENDS Transport, FiniteSetTheorems, SequenceTheorems, TLAPS

(* A table with room for one more entry stays within its size, and so does *)
(* one that already has the entry.                                         *)
LEMMA TableBound ==
  ASSUME NEW D, IsFiniteSet(D), NEW l, NEW N \in Nat, Cardinality(D) <= N,
         l \in D \/ Cardinality(D) < N
  PROVE  Cardinality(D \cup {l}) <= N
  <1>1. Cardinality(D) \in Nat
    BY FS_CardinalityType
  <1>2. Cardinality(D \cup {l}) = IF l \in D THEN Cardinality(D) ELSE Cardinality(D) + 1
    BY FS_AddElement
  <1> QED
    BY <1>1, <1>2

(* A set of new entries chosen to fit leaves the table within its size.    *)
LEMMA TableFill ==
  ASSUME NEW D, IsFiniteSet(D), NEW E, IsFiniteSet(E), E \cap D = {}, NEW N \in Nat,
         Cardinality(E) <= N - Cardinality(D)
  PROVE  Cardinality(D \cup E) <= N
  <1>1. /\ Cardinality(D) \in Nat /\ Cardinality(E) \in Nat
    BY FS_CardinalityType
  <1>2. Cardinality(D \cup E) = Cardinality(D) + Cardinality(E) - Cardinality(D \cap E)
    BY FS_Union
  <1>3. Cardinality(D \cap E) = 0
    <2>1. D \cap E = {}
      OBVIOUS
    <2> QED
      BY <2>1, FS_EmptySet
  <1> QED
    BY <1>1, <1>2, <1>3

(* Slots, words and sequence numbers stay in their ranges.                 *)
LEMMA Ranges ==
  /\ \A k \in Nat : Slot(k) \in 0 .. KeyMax - 1
  /\ \A k \in Nat : Slot(k) \in Nat
  /\ \A x \in Int : Word(x) \in Nat
  /\ \A s \in Nat : NextSeq(s) \in 0 .. SeqMod - 1
  BY TransportAssumption DEF TransportAssumption, Slot, Word, NextSeq

LEMMA NextSeqZero == 0 \in 0 .. SeqMod - 1
  BY TransportAssumption DEF TransportAssumption

-----------------------------------------------------------------------------
(* The initial state is well typed.                                        *)
LEMMA InitTypes == Init => TypeOK
  <1> SUFFICES ASSUME Init PROVE TypeOK
    OBVIOUS
  <1>1. Cardinality({}) = 0
    BY FS_EmptySet
  <1>2. RingTypes
    BY TransportAssumption DEF TransportAssumption, Init, RingTypes, Cells, NoCell
  <1>3. PutTypes
    BY <1>1, TransportAssumption
    DEF TransportAssumption, Init, PutTypes, PutState, IdlePut, NoTable, Patterns
  <1>4. GetTypes
    BY <1>1, TransportAssumption
    DEF TransportAssumption, Init, GetTypes, GetState, IdleGet, NoTable, NoHeader, Patterns,
        Cells
  <1> QED
    BY <1>2, <1>3, <1>4 DEF TypeOK

(* A message appended to the history changes no type the getters rely on.  *)
LEMMA CellsGrow ==
  ASSUME RingTypes, NEW m \in Message, sent' = Append(sent, m)
  PROVE  /\ sent' \in Seq(Message)
         /\ Len(sent') = Len(sent) + 1
         /\ Cells \subseteq Cells'
         /\ \A c \in Cells : IsStart(c) => IsStart(c)'
  BY DEF RingTypes, Cells, IsStart

(* A header read from any cell has a length and a sequence number, and one  *)
(* that is asked for has a logo.                                           *)
LEMMA DecodeTypes ==
  ASSUME RingTypes, NEW c \in Cells
  PROVE  \A h \in Decode(c) : h \in [logo : Logos, len : Nat, seq : 0 .. SeqMod - 1]
  <1>1. CASE IsFields(c)
    <2>1. sent[c[1]] \in Message
      <3>1. c[1] \in 1 .. Len(sent)
        BY <1>1, LenProperties DEF IsFields, Cells, RingTypes
      <3> QED
        BY <3>1, ElementOfSeq DEF RingTypes
    <2> QED
      BY <1>1, <2>1 DEF Decode, HeaderOf, Message
  <1>2. CASE ~IsFields(c)
    BY <1>2, TransportAssumption DEF TransportAssumption, Decode, Header
  <1> QED
    BY <1>1, <1>2

-----------------------------------------------------------------------------
(* The half of the types a step does not touch.                            *)
LEMMA GetFrame == GetTypes /\ UNCHANGED <<get, gtrak, last, sent>> => GetTypes'
  BY DEF GetTypes, GetState, Cells, IsStart, Header, Tracker, Patterns

LEMMA PutFrame == PutTypes /\ UNCHANGED <<put, ptrak>> => PutTypes'
  BY DEF PutTypes, PutState, Patterns

(* A step that only moves one putter on.                                   *)
LEMMA PutterMoves ==
  ASSUME PutTypes, NEW p \in Putters, NEW s \in PutState, put' = [put EXCEPT ![p] = s],
         s.pc \notin {"idle", "dead"} => s.logo \in Logos, ptrak' = ptrak
  PROVE  PutTypes'
  <1>1. put' \in [Putters -> PutState]
    BY DEF PutTypes
  <1>2. \A q \in Putters : put'[q].pc \notin {"idle", "dead"} => put'[q].logo \in Logos
    BY DEF PutTypes
  <1>3. /\ ptrak' = [q \in Putters |-> ptrak'[q]]
        /\ \A q \in Putters : /\ ptrak'[q] \in [DOMAIN ptrak'[q] -> 0 .. SeqMod - 1]
                              /\ DOMAIN ptrak'[q] \subseteq Logos
                              /\ Cardinality(DOMAIN ptrak'[q]) <= NTrackPut
    BY DEF PutTypes
  <1> QED
    BY <1>1, <1>2, <1>3 DEF PutTypes, PutState, Patterns

(* Building the header: the tracking table takes one entry.                *)
LEMMA StampTypes ==
  ASSUME TypeOK, NEW p \in Putters, put[p].pc = "wait", CanTrack(p), Stamp(p)
  PROVE  /\ \E m \in Message : sent' = Append(sent, m)
         /\ ptrak' = [q \in Putters |-> ptrak'[q]]
         /\ \A q \in Putters : /\ ptrak'[q] \in [DOMAIN ptrak'[q] -> 0 .. SeqMod - 1]
                               /\ DOMAIN ptrak'[q] \subseteq Logos
                               /\ Cardinality(DOMAIN ptrak'[q]) <= NTrackPut
  <1> DEFINE l == put[p].logo
             s == IF l \in DOMAIN ptrak[p] THEN ptrak[p][l] ELSE 0
             T == [k \in DOMAIN ptrak[p] \cup {l} |->
                     IF k = l THEN NextSeq(s) ELSE ptrak[p][k]]
  <1>1. /\ l \in Logos /\ put[p].len \in Nat /\ put[p].looks \in BOOLEAN
        /\ ptrak[p] \in [DOMAIN ptrak[p] -> 0 .. SeqMod - 1]
        /\ DOMAIN ptrak[p] \subseteq Logos
        /\ Cardinality(DOMAIN ptrak[p]) <= NTrackPut
    BY DEF TypeOK, PutTypes, PutState
  <1>2. s \in 0 .. SeqMod - 1
    BY <1>1, NextSeqZero
  <1>3. EndOf(Len(sent)) \in Nat
    <2>1. Len(sent) \in Nat /\ (Len(sent) # 0 => sent[Len(sent)] \in Message)
      BY ElementOfSeq, LenProperties DEF TypeOK, RingTypes
    <2> QED
      BY <2>1, TransportAssumption DEF TransportAssumption, EndOf, Size, Message
  <1>4. \E m \in Message : sent' = Append(sent, m)
    <2> DEFINE m == [logo |-> l, len |-> put[p].len, seq |-> s,
                     looks |-> put[p].looks, at |-> EndOf(Len(sent))]
    <2>1. sent' = Append(sent, m)
      BY DEF Stamp
    <2>2. m \in Message
      BY <1>1, <1>2, <1>3 DEF Message
    <2> QED
      BY <2>1, <2>2
  <1>5. ptrak' = [ptrak EXCEPT ![p] = T]
    BY DEF Stamp
  <1>6. NextSeq(s) \in 0 .. SeqMod - 1
    BY <1>2, Ranges
  <1>7. T \in [DOMAIN T -> 0 .. SeqMod - 1] /\ DOMAIN T = DOMAIN ptrak[p] \cup {l}
    BY <1>1, <1>6
  <1>8. Cardinality(DOMAIN T) <= NTrackPut
    <2>1. IsFiniteSet(DOMAIN ptrak[p])
      BY <1>1, FS_Subset, TransportAssumption DEF TransportAssumption
    <2> QED
      BY <1>1, <1>7, <2>1, TableBound, TransportAssumption DEF TransportAssumption, CanTrack
  <1> QED
    <2>1. ptrak = [q \in Putters |-> ptrak[q]]
      BY DEF TypeOK, PutTypes
    <2>2. \A q \in Putters : ptrak'[q] = IF q = p THEN T ELSE ptrak[q]
      BY <1>5, <2>1
    <2>3. ptrak' = [q \in Putters |-> ptrak'[q]]
      BY <1>5, <2>1
    <2>4. \A q \in Putters : /\ ptrak[q] \in [DOMAIN ptrak[q] -> 0 .. SeqMod - 1]
                            /\ DOMAIN ptrak[q] \subseteq Logos
                            /\ Cardinality(DOMAIN ptrak[q]) <= NTrackPut
      BY DEF TypeOK, PutTypes
    <2> HIDE DEF T
    <2>5. \A q \in Putters : /\ ptrak'[q] \in [DOMAIN ptrak'[q] -> 0 .. SeqMod - 1]
                            /\ DOMAIN ptrak'[q] \subseteq Logos
                            /\ Cardinality(DOMAIN ptrak'[q]) <= NTrackPut
      BY <1>1, <1>7, <1>8, <2>2, <2>4
    <2> QED
      BY <1>4, <2>3, <2>5

(* Every step of a putter keeps the types.                                 *)
LEMMA PutCallTypes ==
  ASSUME TypeOK, NEW p \in Putters, PutCall(p) PROVE TypeOK'
  <1>1. RingTypes'
    BY DEF TypeOK, RingTypes, PutCall, Cells, Message
  <1>2. PutTypes'
    <2>1. PICK l \in PutLogos[p], n \in Lens, x \in Looks :
            put' = [put EXCEPT ![p] = [pc |-> "wait", logo |-> l, len |-> n, looks |-> x,
                                       i |-> 0]]
      BY DEF PutCall
    <2>2. /\ l \in Logos
          /\ [pc |-> "wait", logo |-> l, len |-> n, looks |-> x, i |-> 0] \in PutState
      BY TransportAssumption DEF TransportAssumption, PutState, Patterns
    <2> QED
      BY <2>1, <2>2, PutterMoves DEF TypeOK, PutCall
  <1>3. GetTypes'
    BY GetFrame DEF TypeOK, PutCall, getVars
  <1> QED
    BY <1>1, <1>2, <1>3 DEF TypeOK

LEMMA AcquireTypes ==
  ASSUME TypeOK, NEW p \in Putters, Acquire(p) PROVE TypeOK'
  <1>1. CASE CanTrack(p)
    <2>1. Stamp(p) /\ Goto(p, "wrapin")
      BY <1>1 DEF Acquire
    <2>2. PICK m \in Message : sent' = Append(sent, m)
      BY <1>1, <2>1, StampTypes DEF Acquire
    <2>3. RingTypes'
      BY <2>2, CellsGrow, TransportAssumption
      DEF TransportAssumption, TypeOK, RingTypes, Acquire, SemDown, Message
    <2>4. PutTypes'
      <3>1. /\ ptrak' = [q \in Putters |-> ptrak'[q]]
            /\ \A q \in Putters : /\ ptrak'[q] \in [DOMAIN ptrak'[q] -> 0 .. SeqMod - 1]
                                  /\ DOMAIN ptrak'[q] \subseteq Logos
                                  /\ Cardinality(DOMAIN ptrak'[q]) <= NTrackPut
        BY <1>1, <2>1, StampTypes DEF Acquire
      <3>2. /\ put' \in [Putters -> PutState]
            /\ \A q \in Putters : put'[q].pc \notin {"idle", "dead"} => put'[q].logo \in Logos
        BY <2>1 DEF Acquire, Goto, TypeOK, PutTypes, PutState
      <3> QED
        BY <3>1, <3>2 DEF PutTypes, PutState, Patterns
    <2>5. GetTypes'
      <3>1. /\ Cells \subseteq Cells' /\ Len(sent') = Len(sent) + 1 /\ Len(sent) \in Nat
            /\ \A c \in Cells : IsStart(c) => IsStart(c)'
        BY <2>2, CellsGrow DEF TypeOK, RingTypes
      <3>2. UNCHANGED <<get, gtrak, last>>
        BY DEF Acquire, getVars
      <3>3. \A x \in GetState : x.buf \in Seq(Cells')
        BY <3>1, SeqMonotonic DEF GetState
      <3>4. GetState \subseteq GetState'
        BY <3>3 DEF GetState, Patterns
      <3>5. \A g \in Getters : get[g].pc = "body" => IsStart(get[g].buf[1])'
        <4> SUFFICES ASSUME NEW g \in Getters, get[g].pc = "body"
                     PROVE  IsStart(get[g].buf[1])'
          OBVIOUS
        <4>1. /\ get[g].buf \in Seq(Cells) /\ Len(get[g].buf) >= HDR
              /\ IsStart(get[g].buf[1])
          BY DEF TypeOK, GetTypes, GetState
        <4>2. get[g].buf[1] \in Cells
          <5>1. 1 \in 1 .. Len(get[g].buf)
            BY <4>1, LenProperties, TransportAssumption DEF TransportAssumption
          <5> QED
            BY <4>1, <5>1, ElementOfSeq
        <4>3. get' = get
          BY <3>2
        <4> QED
          BY <3>1, <4>1, <4>2, <4>3 DEF IsStart
      <3>6. last' \in [Getters -> [Logos -> 0 .. Len(sent')]]
        BY <3>1, <3>2 DEF TypeOK, GetTypes
      <3> QED
        BY <3>2, <3>4, <3>5, <3>6 DEF TypeOK, GetTypes, Header, Tracker, Patterns
    <2> QED
      BY <2>3, <2>4, <2>5 DEF TypeOK
  <1>2. CASE ~CanTrack(p)
    <2>1. RingTypes'
      BY <1>2 DEF TypeOK, RingTypes, Acquire, SemDown, Cells, Message
    <2>2. PutTypes'
      <3>1. IdlePut \in PutState /\ IdlePut.pc = "idle"
        BY DEF IdlePut, PutState, Patterns
      <3> QED
        BY <1>2, <3>1, PutterMoves DEF TypeOK, Acquire
    <2>3. GetTypes'
      BY <1>2, GetFrame DEF TypeOK, Acquire, getVars
    <2> QED
      BY <2>1, <2>2, <2>3 DEF TypeOK
  <1> QED
    BY <1>1, <1>2

(* A step that moves the keys and counters but copies nothing.             *)
LEMMA RingMoves ==
  ASSUME RingTypes, keyin' \in Nat, keyold' \in Nat, sem' \in {0, 1}, npub' \in Nat,
         ndel' \in Nat, kills' \in Nat, ring' = ring, sent' = sent
  PROVE  RingTypes'
  BY DEF RingTypes, Cells, Message

(* The steps between semop(SHM_INUSE) and semop(SHM_FREE) touch the ring    *)
(* header and one putter's place in the code.                              *)
LEMMA InCallTypes ==
  ASSUME TypeOK, NEW p \in Putters, PutStep(p) PROVE TypeOK'
  <1>1. /\ put[p] \in PutState /\ put[p].i \in Nat /\ put[p].len \in Nat
        /\ put[p].pc \notin {"idle", "dead"} => put[p].logo \in Logos
        /\ keyin \in Nat /\ keyold \in Nat /\ Need(p) \in Nat
        /\ sem \in {0, 1} /\ npub \in Nat /\ ndel \in Nat /\ kills \in Nat
        /\ Len(sent) \in Nat /\ KeyMax \in Nat /\ HDR \in Nat
    <2>1. /\ keyin \in Nat /\ keyold \in Nat /\ sent \in Seq(Message)
          /\ sem \in {0, 1} /\ npub \in Nat /\ ndel \in Nat /\ kills \in Nat
      BY DEF TypeOK, RingTypes
    <2>2. Len(sent) \in Nat
      BY <2>1, LenProperties
    <2>3. put[p] \in PutState /\ (put[p].pc \notin {"idle", "dead"} => put[p].logo \in Logos)
      BY DEF TypeOK, PutTypes
    <2>4. put[p].i \in Nat /\ put[p].len \in Nat
      BY <2>3 DEF PutState
    <2>5. KeyMax \in Nat /\ HDR \in Nat
      BY TransportAssumption DEF TransportAssumption
    <2> QED
      BY <2>1, <2>2, <2>3, <2>4, <2>5 DEF Need
  <1>2. ASSUME NEW pc \in {"wrapin", "wrapold", "wrapfix", "room", "copy", "free", "exit"},
               Goto(p, pc), ptrak' = ptrak, put[p].pc \notin {"idle", "dead"}
        PROVE  PutTypes'
    <2> DEFINE s == [put[p] EXCEPT !.pc = pc]
    <2>1. s \in PutState /\ s.logo = put[p].logo
      BY <1>1 DEF PutState
    <2>2. put' = [put EXCEPT ![p] = s]
      BY <1>2 DEF Goto
    <2> HIDE DEF s
    <2> QED
      BY <1>1, <1>2, <2>1, <2>2, PutterMoves DEF TypeOK
  <1>3. UNCHANGED <<get, gtrak, last, sent>> => GetTypes'
    BY GetFrame DEF TypeOK
  <1>4. CASE WrapIn(p)
    <2>1. RingTypes'
      BY <1>1, <1>4, Ranges, RingMoves DEF WrapIn, TypeOK
    <2> QED
      BY <1>2, <1>3, <1>4, <2>1 DEF WrapIn, TypeOK, getVars
  <1>5. CASE WrapOld(p)
    <2>1. RingTypes'
      BY <1>1, <1>5, Ranges, RingMoves DEF WrapOld, TypeOK
    <2> QED
      BY <1>2, <1>3, <1>5, <2>1 DEF WrapOld, TypeOK, getVars
  <1>6. CASE WrapFix(p)
    <2>1. RingTypes'
      <3>1. FixedIn \in Nat
        BY <1>1 DEF FixedIn
      <3> QED
        BY <1>1, <1>6, <3>1, RingMoves DEF WrapFix, TypeOK
    <2> QED
      BY <1>2, <1>3, <1>6, <2>1 DEF WrapFix, TypeOK, getVars
  <1>7. CASE Delete(p)
    <2>1. \A h \in Decode(ring[Slot(keyold + HDR - 1)]) : Word(keyold + Size(h)) \in Nat
      <3>1. Slot(keyold + HDR - 1) \in 0 .. KeyMax - 1
        <4>1. keyold + HDR - 1 \in Nat
          BY <1>1, TransportAssumption DEF TransportAssumption
        <4> QED
          BY <4>1, Ranges
      <3>2. ring[Slot(keyold + HDR - 1)] \in Cells
        BY <3>1 DEF TypeOK, RingTypes
      <3> QED
        <4> SUFFICES ASSUME NEW h \in Decode(ring[Slot(keyold + HDR - 1)])
                     PROVE  Word(keyold + Size(h)) \in Nat
          OBVIOUS
        <4>1. h.len \in Nat
          BY <3>2, DecodeTypes DEF TypeOK
        <4>2. keyold + Size(h) \in Int
          BY <1>1, <4>1 DEF Size
        <4> QED
          BY <4>2, Ranges
    <2>2. RingTypes'
      BY <1>1, <1>7, <2>1, RingMoves DEF Delete, TypeOK
    <2>3. PutTypes'
      <3>1. CASE IsStart(ring[Slot(keyold)])
        BY <1>7, <3>1, PutFrame DEF Delete, TypeOK
      <3>2. CASE ~IsStart(ring[Slot(keyold)])
        BY <1>2, <1>7, <3>2 DEF Delete
      <3> QED
        BY <3>1, <3>2
    <2> QED
      BY <1>3, <1>7, <2>2, <2>3 DEF Delete, TypeOK, getVars
  <1>8. CASE CopyCell(p)
    <2>1. Slot(keyin + put[p].i) \in 0 .. KeyMax - 1
      <3>1. keyin + put[p].i \in Nat
        BY <1>1
      <3> QED
        BY <3>1, Ranges
    <2>2. <<Len(sent), put[p].i>> \in Cells
      BY <1>1 DEF Cells
    <2>3. RingTypes'
      BY <1>8, <2>1, <2>2 DEF CopyCell, TypeOK, RingTypes, Cells, Message
    <2>4. PutTypes'
      <3> DEFINE j == put[p].i + 1
                 s == [put[p] EXCEPT !.pc = "copy", !.i = j]
      <3>0. j \in Nat
        BY <1>1
      <3> HIDE DEF j
      <3>1. s \in PutState /\ s.logo = put[p].logo
        BY <1>1, <3>0 DEF PutState
      <3> USE DEF j
      <3>2. put' = [put EXCEPT ![p] = s] /\ put[p].pc \notin {"idle", "dead"}
        BY <1>8 DEF CopyCell
      <3> HIDE DEF s
      <3> QED
        BY <1>1, <1>8, <3>1, <3>2, PutterMoves DEF TypeOK, CopyCell
    <2> QED
      BY <1>3, <1>8, <2>3, <2>4 DEF CopyCell, TypeOK, getVars
  <1>9. CASE Publish(p)
    <2>1. RingTypes'
      BY <1>1, <1>9, Ranges, RingMoves DEF Publish, TypeOK
    <2> QED
      BY <1>2, <1>3, <1>9, <2>1 DEF Publish, TypeOK, getVars
  <1>10. CASE Release(p)
    <2>1. RingTypes'
      BY <1>1, <1>10, RingMoves DEF Release, SemUp, TypeOK
    <2>2. IdlePut \in PutState /\ IdlePut.pc = "idle"
      BY DEF IdlePut, PutState, Patterns
    <2>3. PutTypes'
      BY <1>10, <2>2, PutterMoves DEF Release, TypeOK
    <2> QED
      BY <1>3, <1>10, <2>1, <2>3 DEF Release, TypeOK, getVars
  <1> QED
    BY <1>4, <1>5, <1>6, <1>7, <1>8, <1>9, <1>10 DEF PutStep

LEMMA KillTypes ==
  ASSUME TypeOK, NEW p \in Putters, Kill(p) \/ Restart(p) PROVE TypeOK'
  <1>1. RingTypes'
    BY DEF Kill, Restart, TypeOK, RingTypes, Cells, Message
  <1>2. GetTypes'
    BY GetFrame DEF Kill, Restart, TypeOK, getVars
  <1>3. CASE Kill(p)
    <2>1. [IdlePut EXCEPT !.pc = "dead"] \in PutState
      BY DEF IdlePut, PutState, Patterns
    <2>2. [IdlePut EXCEPT !.pc = "dead"].pc = "dead"
      BY DEF IdlePut
    <2>3. PutTypes'
      BY <1>3, <2>1, <2>2, PutterMoves DEF Kill, TypeOK
    <2> QED
      BY <1>1, <1>2, <2>3 DEF TypeOK
  <1>4. CASE Restart(p)
    <2>1. put' \in [Putters -> PutState]
      BY <1>4 DEF Restart, TypeOK, PutTypes, IdlePut, PutState, Patterns
    <2>2. \A q \in Putters : put'[q].pc \notin {"idle", "dead"} => put'[q].logo \in Logos
      BY <1>4 DEF Restart, TypeOK, PutTypes, IdlePut
    <2>3. /\ ptrak' = [q \in Putters |-> ptrak'[q]]
          /\ \A q \in Putters : ptrak'[q] = IF q = p THEN NoTable ELSE ptrak[q]
      BY <1>4 DEF Restart, TypeOK, PutTypes
    <2>4. /\ NoTable \in [DOMAIN NoTable -> 0 .. SeqMod - 1] /\ DOMAIN NoTable = {}
          /\ Cardinality({}) <= NTrackPut
      BY FS_EmptySet, TransportAssumption DEF TransportAssumption, NoTable
    <2>5. \A q \in Putters : /\ ptrak'[q] \in [DOMAIN ptrak'[q] -> 0 .. SeqMod - 1]
                            /\ DOMAIN ptrak'[q] \subseteq Logos
                            /\ Cardinality(DOMAIN ptrak'[q]) <= NTrackPut
      BY <2>3, <2>4 DEF TypeOK, PutTypes
    <2>6. PutTypes'
      BY <2>1, <2>2, <2>3, <2>5 DEF PutTypes, PutState, Patterns
    <2> QED
      BY <1>1, <1>2, <2>6 DEF TypeOK
  <1> QED
    BY <1>3, <1>4

-----------------------------------------------------------------------------
(* A step that only changes the locals of one getter.                      *)
LEMMA GetterMoves ==
  ASSUME GetTypes, NEW g \in Getters, NEW s \in GetState, get' = [get EXCEPT ![g] = s],
         s.pc = "body" => Len(s.buf) >= HDR /\ IsStart(s.buf[1]),
         gtrak' = gtrak, last' = last, sent' = sent
  PROVE  GetTypes'
  <1>1. get' \in [Getters -> GetState] /\ GetState' = GetState
    BY DEF GetTypes, GetState, Cells, Patterns
  <1>2. \A h \in Getters : get'[h] = IF h = g THEN s ELSE get[h]
    BY DEF GetTypes
  <1>3. \A h \in Getters : get'[h].pc = "body" => Len(get'[h].buf) >= HDR /\ IsStart(get[h].buf[1])'
    BY <1>2 DEF GetTypes, IsStart
  <1> QED
    BY <1>1, <1>3 DEF GetTypes, Tracker, Patterns

(* A step that changes one tracking table and the locals of its getter,    *)
(* and perhaps what that getter last got.                                  *)
LEMMA TrackerMoves ==
  ASSUME GetTypes, NEW g \in Getters, NEW s \in GetState, get' = [get EXCEPT ![g] = s],
         s.pc # "body",
         NEW T, gtrak' = [gtrak EXCEPT ![g] = T], T \in [DOMAIN T -> Tracker],
         DOMAIN T \subseteq Patterns, Cardinality(DOMAIN T) <= NTrackGet,
         last' \in [Getters -> [Logos -> 0 .. Len(sent)]], sent' = sent
  PROVE  GetTypes'
  <1>1. get' \in [Getters -> GetState] /\ GetState' = GetState
    BY DEF GetTypes, GetState, Cells, Patterns
  <1>2. \A h \in Getters : get'[h] = IF h = g THEN s ELSE get[h]
    BY DEF GetTypes
  <1>3. \A h \in Getters : get'[h].pc = "body" => Len(get'[h].buf) >= HDR /\ IsStart(get[h].buf[1])'
    BY <1>2 DEF GetTypes, IsStart
  <1>4. /\ gtrak' = [h \in Getters |-> gtrak'[h]]
        /\ \A h \in Getters : gtrak'[h] = IF h = g THEN T ELSE gtrak[h]
    BY DEF GetTypes
  <1>5. \A h \in Getters : /\ gtrak'[h] \in [DOMAIN gtrak'[h] -> Tracker]
                          /\ DOMAIN gtrak'[h] \subseteq Patterns
                          /\ Cardinality(DOMAIN gtrak'[h]) <= NTrackGet
    BY <1>4 DEF GetTypes
  <1> QED
    BY <1>1, <1>3, <1>4, <1>5 DEF GetTypes, Tracker, Patterns

(* The facts about one getter that its steps use.                          *)
LEMMA GetterFacts ==
  ASSUME TypeOK, NEW g \in Getters
  PROVE  /\ get[g] \in GetState /\ get[g].keyget \in Nat /\ get[g].keyin \in Nat
         /\ get[g].buf \in Seq(Cells) /\ Len(get[g].buf) \in Nat
         /\ get[g].hd \in [logo : Patterns, len : Nat, seq : 0 .. SeqMod - 1]
         /\ gtrak[g] \in [DOMAIN gtrak[g] -> Tracker] /\ DOMAIN gtrak[g] \subseteq Patterns
         /\ Cardinality(DOMAIN gtrak[g]) <= NTrackGet
         /\ IsFiniteSet(DOMAIN gtrak[g])
         /\ get[g].pc = "body" => Len(get[g].buf) >= HDR /\ IsStart(get[g].buf[1])
         /\ keyin \in Nat /\ keyold \in Nat /\ HDR \in Nat \ {0} /\ KeyMax \in Nat \ {0}
         /\ last \in [Getters -> [Logos -> 0 .. Len(sent)]]
  <1>1. get[g] \in GetState
    BY DEF TypeOK, GetTypes
  <1>2. IsFiniteSet(Patterns)
    BY FS_AddElement, TransportAssumption DEF TransportAssumption, Patterns
  <1>3. IsFiniteSet(DOMAIN gtrak[g])
    BY <1>2, FS_Subset DEF TypeOK, GetTypes
  <1>4. Len(get[g].buf) \in Nat
    BY <1>1, LenProperties DEF GetState
  <1> QED
    BY <1>1, <1>3, <1>4, TransportAssumption
    DEF TransportAssumption, TypeOK, GetTypes, RingTypes, GetState

(* Moving requested trackers to a key keeps a table a table.               *)
LEMMA WrapupTypes ==
  ASSUME NEW g \in Getters, NEW T, T \in [DOMAIN T -> Tracker], NEW key \in Nat
  PROVE  /\ Wrapup(g, T, key) \in [DOMAIN T -> Tracker]
         /\ DOMAIN Wrapup(g, T, key) = DOMAIN T
  BY DEF Wrapup, Tracker

(* Wherever a tracker is put after a key reset, it is put at a key.        *)
LEMMA ResetOutNat ==
  ASSUME NEW out \in Nat, NEW in \in Nat, keyold \in Nat
  PROVE  ResetOut(out, in) \in Nat
  <1> DEFINE o == Slot(out)
             turns == (keyold - o + KeyMax - 1) \div KeyMax
  <1>1. o \in Nat /\ KeyMax \in Nat \ {0} /\ o < KeyMax
    BY Ranges, TransportAssumption DEF TransportAssumption
  <1> HIDE DEF o
  <1>2. ~(o >= keyold) => turns \in Nat
    BY <1>1
  <1> HIDE DEF turns
  <1>3. ~(o >= keyold) => o + KeyMax * turns \in Nat
    BY <1>1, <1>2
  <1> USE DEF o, turns
  <1> QED
    BY <1>1, <1>3 DEF ResetOut

LEMMA GetCallTypes ==
  ASSUME TypeOK, NEW g \in Getters, GetCall(g) PROVE GetTypes'
  <1> DEFINE tracked == DOMAIN gtrak[g]
             free == NTrackGet - Cardinality(tracked)
  <1>1. PICK req \in Requests[g] :
          /\ get' = [get EXCEPT ![g].pc = "find", ![g].req = req]
          /\ \E e \in IF Cardinality(req \ tracked) <= free THEN {req \ tracked}
                      ELSE {d \in SUBSET (req \ tracked) : Cardinality(d) = free} :
               gtrak' = [gtrak EXCEPT ![g] =
                 [t \in tracked \cup e |->
                    IF t \in tracked THEN gtrak[g][t]
                    ELSE [seq |-> 0, keyout |-> 0, active |-> FALSE]]]
    BY DEF GetCall
  <1>2. req \subseteq Patterns
    BY TransportAssumption DEF TransportAssumption, Patterns
  <1>3. PICK e \in SUBSET (req \ tracked) :
          /\ Cardinality(e) <= free
          /\ gtrak' = [gtrak EXCEPT ![g] =
                 [t \in tracked \cup e |->
                    IF t \in tracked THEN gtrak[g][t]
                    ELSE [seq |-> 0, keyout |-> 0, active |-> FALSE]]]
    <2>1. free \in Int
      BY GetterFacts, FS_CardinalityType, TransportAssumption DEF TransportAssumption
    <2>2. CASE Cardinality(req \ tracked) <= free
      BY <1>1, <2>2
    <2>3. CASE ~(Cardinality(req \ tracked) <= free)
      <3>1. PICK e \in SUBSET (req \ tracked) :
              /\ Cardinality(e) = free
              /\ gtrak' = [gtrak EXCEPT ![g] =
                   [t \in tracked \cup e |->
                      IF t \in tracked THEN gtrak[g][t]
                      ELSE [seq |-> 0, keyout |-> 0, active |-> FALSE]]]
        BY <1>1, <2>3, Zenon
      <3>2. Cardinality(e) <= free
        BY <2>1, <3>1
      <3> QED
        BY <3>1, <3>2
    <2> QED
      BY <2>2, <2>3
  <1> DEFINE T == [t \in tracked \cup e |->
                    IF t \in tracked THEN gtrak[g][t]
                    ELSE [seq |-> 0, keyout |-> 0, active |-> FALSE]]
             s == [get[g] EXCEPT !.pc = "find", !.req = req]
  <1>4. T \in [DOMAIN T -> Tracker] /\ DOMAIN T = tracked \cup e
    BY GetterFacts, NextSeqZero DEF Tracker
  <1>5. Cardinality(tracked \cup e) <= NTrackGet
    <2>1. IsFiniteSet(e)
      BY <1>2, FS_Subset, FS_AddElement, TransportAssumption DEF TransportAssumption, Patterns
    <2> QED
      BY <1>3, <2>1, GetterFacts, TableFill, TransportAssumption DEF TransportAssumption
  <1>6. s \in GetState /\ s.pc = "find"
    BY <1>2, GetterFacts DEF GetState
  <1>7. get' = [get EXCEPT ![g] = s]
    BY <1>1
  <1>8. /\ gtrak' = [gtrak EXCEPT ![g] = T] /\ DOMAIN T \subseteq Patterns
        /\ last' \in [Getters -> [Logos -> 0 .. Len(sent)]] /\ sent' = sent
    BY <1>2, <1>3, GetterFacts DEF GetCall, putVars
  <1> HIDE DEF T, s
  <1> QED
    BY <1>4, <1>5, <1>6, <1>7, <1>8, TrackerMoves DEF TypeOK

(* The steps of a call that look for a message.                            *)
LEMMA SearchTypes ==
  ASSUME TypeOK, NEW g \in Getters,
         FindKey(g) \/ SnapIn(g) \/ ResetTrackers(g) \/ Scan(g) \/ ReadCell(g) \/ Return(g)
  PROVE  GetTypes'
  <1>1. CASE FindKey(g)
    <2> DEFINE outs == {keyold} \cup
                 {gtrak[g][t].keyout : t \in {u \in DOMAIN gtrak[g] : Wanted(g, u)}}
    <2>1. PICK k \in outs : get' = [get EXCEPT ![g].pc = "bound", ![g].keyget = k]
      BY <1>1 DEF FindKey
    <2>2. k \in Nat
      BY GetterFacts DEF Tracker
    <2> DEFINE s == [get[g] EXCEPT !.pc = "bound", !.keyget = k]
    <2>3. s \in GetState /\ s.pc = "bound"
      BY <2>2, GetterFacts DEF GetState
    <2>4. get' = [get EXCEPT ![g] = s]
      BY <2>1
    <2> HIDE DEF s
    <2> QED
      BY <1>1, <2>3, <2>4, GetterMoves DEF FindKey, putVars, TypeOK
  <1>2. CASE SnapIn(g)
    <2> DEFINE s == [get[g] EXCEPT !.keyin = keyin,
                                   !.pc = IF get[g].keyget > keyin THEN "reset" ELSE "scan"]
    <2>1. s \in GetState /\ s.pc # "body"
      BY GetterFacts DEF GetState
    <2>2. get' = [get EXCEPT ![g] = s]
      BY <1>2 DEF SnapIn
    <2> HIDE DEF s
    <2> QED
      BY <1>2, <2>1, <2>2, GetterMoves DEF SnapIn, putVars, TypeOK
  <1>3. CASE ResetTrackers(g)
    <2> DEFINE T == [t \in DOMAIN gtrak[g] |->
                       [gtrak[g][t] EXCEPT !.keyout = ResetOut(@, get[g].keyin)]]
               s == [get[g] EXCEPT !.pc = "find"]
    <2>1. \A out \in Nat : ResetOut(out, get[g].keyin) \in Nat
      BY GetterFacts, ResetOutNat
    <2>2. T \in [DOMAIN T -> Tracker] /\ DOMAIN T = DOMAIN gtrak[g]
      <3>1. \A t \in DOMAIN gtrak[g] : gtrak[g][t] \in Tracker
        BY GetterFacts
      <3>2. \A t \in DOMAIN gtrak[g] :
              [gtrak[g][t] EXCEPT !.keyout = ResetOut(@, get[g].keyin)] \in Tracker
        <4> SUFFICES ASSUME NEW t \in DOMAIN gtrak[g]
                     PROVE  [gtrak[g][t] EXCEPT !.keyout = ResetOut(@, get[g].keyin)] \in Tracker
          OBVIOUS
        <4> DEFINE r == gtrak[g][t]
                   k == ResetOut(r.keyout, get[g].keyin)
        <4>1. r \in Tracker
          BY <3>1
        <4>2. k \in Nat
          BY <2>1, <4>1 DEF Tracker
        <4> HIDE DEF r, k
        <4>3. [r EXCEPT !.keyout = k] \in Tracker
          BY <4>1, <4>2 DEF Tracker
        <4> QED
          BY <4>3 DEF r, k
      <3> QED
        BY <3>2
    <2>3. s \in GetState /\ s.pc = "find"
      BY GetterFacts DEF GetState
    <2>4. /\ get' = [get EXCEPT ![g] = s] /\ gtrak' = [gtrak EXCEPT ![g] = T]
          /\ last' \in [Getters -> [Logos -> 0 .. Len(sent)]] /\ sent' = sent
      BY <1>3, GetterFacts DEF ResetTrackers, putVars
    <2> HIDE DEF T, s
    <2> QED
      BY <2>2, <2>3, <2>4, GetterFacts, TrackerMoves DEF TypeOK
  <1>4. CASE Scan(g)
    <2>1. CASE get[g].keyget < get[g].keyin
      <3> DEFINE k == IF get[g].keyget < keyold THEN keyold ELSE get[g].keyget
                 s == [get[g] EXCEPT !.pc = "head", !.buf = <<>>, !.keyget = k]
      <3>1. k \in Nat /\ <<>> \in Seq(Cells)
        BY GetterFacts
      <3> HIDE DEF k
      <3>2. s \in GetState /\ s.pc = "head"
        BY <3>1, GetterFacts DEF GetState
      <3> USE DEF k
      <3>3. get' = [get EXCEPT ![g] = s]
        BY <1>4, <2>1 DEF Scan
      <3> HIDE DEF s
      <3> QED
        BY <1>4, <2>1, <3>2, <3>3, GetterMoves DEF Scan, putVars, TypeOK
    <2>2. CASE ~(get[g].keyget < get[g].keyin)
      <3> DEFINE T == Wrapup(g, gtrak[g], get[g].keyget)
                 s == [get[g] EXCEPT !.pc = "ret", !.status = "GET_NONE"]
      <3>1. T \in [DOMAIN T -> Tracker] /\ DOMAIN T = DOMAIN gtrak[g]
        <4>1. gtrak[g] \in [DOMAIN gtrak[g] -> Tracker] /\ get[g].keyget \in Nat
          BY GetterFacts
        <4> QED
          BY <4>1, WrapupTypes
      <3>2. s \in GetState /\ s.pc = "ret"
        BY GetterFacts DEF GetState
      <3>3. /\ get' = [get EXCEPT ![g] = s] /\ gtrak' = [gtrak EXCEPT ![g] = T]
            /\ last' \in [Getters -> [Logos -> 0 .. Len(sent)]] /\ sent' = sent
        BY <1>4, <2>2, GetterFacts DEF Scan, putVars
      <3> HIDE DEF T, s
      <3> QED
        BY <3>1, <3>2, <3>3, GetterFacts, TrackerMoves DEF TypeOK
    <2> QED
      BY <2>1, <2>2
  <1>5. CASE ReadCell(g)
    <2> DEFINE c == ring[Slot(get[g].keyget + Len(get[g].buf))]
               b == Append(get[g].buf, c)
               s == [get[g] EXCEPT !.buf = b]
    <2>1. c \in Cells
      <3>1. get[g].keyget + Len(get[g].buf) \in Nat
        BY GetterFacts
      <3>2. Slot(get[g].keyget + Len(get[g].buf)) \in 0 .. KeyMax - 1
        BY <3>1, Ranges
      <3> QED
        BY <3>2 DEF TypeOK, RingTypes
    <2> HIDE DEF c
    <2>2. /\ b \in Seq(Cells) /\ Len(b) = Len(get[g].buf) + 1
          /\ Len(get[g].buf) >= HDR => b[1] = get[g].buf[1]
      BY <2>1, GetterFacts
    <2> HIDE DEF b
    <2>3. s \in GetState /\ s.pc = get[g].pc /\ s.buf = b
      BY <2>2, GetterFacts DEF GetState
    <2>4. get' = [get EXCEPT ![g] = s]
      BY <1>5 DEF ReadCell, c, b
    <2>5. s.pc = "body" => Len(s.buf) >= HDR /\ IsStart(s.buf[1])
      BY <2>2, <2>3, GetterFacts
    <2> HIDE DEF s
    <2> QED
      BY <1>5, <2>3, <2>4, <2>5, GetterMoves DEF ReadCell, putVars, TypeOK
  <1>6. CASE Return(g)
    <2>1. IdleGet \in GetState /\ IdleGet.pc = "idle"
      BY NextSeqZero DEF IdleGet, GetState, NoHeader, Patterns
    <2> QED
      BY <1>6, <2>1, GetterMoves DEF Return, putVars, TypeOK
  <1> QED
    BY <1>1, <1>2, <1>3, <1>4, <1>5, <1>6

(* trackit leaves a tracking table that still fits.                        *)
LEMMA TrackitTypes ==
  ASSUME TypeOK, NEW g \in Getters, NEW toobig \in BOOLEAN,
         NEW h \in [logo : Patterns, len : Nat, seq : 0 .. SeqMod - 1]
  PROVE  LET r == Trackit(g, h, toobig)
         IN  /\ r.trak \in [DOMAIN r.trak -> Tracker] /\ DOMAIN r.trak \subseteq Patterns
             /\ Cardinality(DOMAIN r.trak) <= NTrackGet
             /\ r.status \in {"GET_OK", "GET_NONE", "GET_MISS", "GET_NOTRACK", "GET_TOOBIG"}
  <1> DEFINE D == DOMAIN gtrak[g]
             l == h.logo
             known == l \in D
             e == IF known /\ gtrak[g][l].active THEN gtrak[g][l]
                  ELSE [seq |-> h.seq, active |-> TRUE,
                        keyout |-> IF known THEN gtrak[g][l].keyout ELSE 0]
             set(x) == [t \in D \cup {l} |-> IF t = l THEN x ELSE gtrak[g][t]]
             e2 == [e EXCEPT !.seq = SeqAfter(h)]
  <1>1. /\ gtrak[g] \in [D -> Tracker] /\ D \subseteq Patterns /\ IsFiniteSet(D)
        /\ Cardinality(D) <= NTrackGet /\ l \in Patterns /\ Cardinality(D) \in Nat
        /\ NTrackGet \in Nat
    BY GetterFacts, FS_CardinalityType, TransportAssumption DEF TransportAssumption
  <1>2. e \in Tracker
    BY <1>1 DEF Tracker
  <1>3. e2 \in Tracker
    <2>1. SeqAfter(h) \in 0 .. SeqMod - 1
      BY Ranges DEF SeqAfter
    <2> HIDE DEF e
    <2> QED
      BY <1>2, <2>1 DEF Tracker
  <1>4. ASSUME NEW x \in Tracker, known \/ Cardinality(D) < NTrackGet
        PROVE  /\ set(x) \in [DOMAIN set(x) -> Tracker] /\ DOMAIN set(x) \subseteq Patterns
               /\ Cardinality(DOMAIN set(x)) <= NTrackGet
    <2>1. set(x) \in [D \cup {l} -> Tracker] /\ DOMAIN set(x) = D \cup {l}
      BY <1>1
    <2>2. Cardinality(D \cup {l}) <= NTrackGet
      BY <1>1, <1>4, TableBound
    <2> QED
      BY <1>1, <2>1, <2>2
  <1>5. CASE ~known /\ Cardinality(D) >= NTrackGet
    BY <1>1, <1>5 DEF Trackit
  <1>6. CASE ~(~known /\ Cardinality(D) >= NTrackGet) /\ toobig
    <2>1. Trackit(g, h, toobig) = [trak |-> set(e), status |-> "GET_TOOBIG"]
      BY <1>6 DEF Trackit
    <2>2. known \/ Cardinality(D) < NTrackGet
      BY <1>1, <1>6
    <2> HIDE DEF e
    <2>3. /\ set(e) \in [DOMAIN set(e) -> Tracker] /\ DOMAIN set(e) \subseteq Patterns
          /\ Cardinality(DOMAIN set(e)) <= NTrackGet
      BY <1>2, <1>4, <2>2
    <2> HIDE DEF set
    <2> QED
      BY <2>1, <2>3
  <1>7. CASE ~(~known /\ Cardinality(D) >= NTrackGet) /\ ~toobig
    <2>1. Trackit(g, h, toobig) =
            [trak |-> set(e2), status |-> IF h.seq = e.seq THEN "GET_OK" ELSE "GET_MISS"]
      BY <1>7 DEF Trackit
    <2> HIDE DEF e, e2, set
    <2> QED
      BY <1>1, <1>3, <1>4, <1>7, <2>1
  <1> QED
    BY <1>5, <1>6, <1>7

(* What the caller is handed, and the bookkeeping that goes with it.       *)
LEMMA FinishTypes ==
  ASSUME TypeOK, NEW g \in Getters, NEW toobig \in BOOLEAN,
         NEW h \in [logo : Patterns, len : Nat, seq : 0 .. SeqMod - 1],
         Len(get[g].buf) >= HDR, IsStart(get[g].buf[1]), Finish(g, h, toobig), sent' = sent
  PROVE  GetTypes'
  <1> DEFINE r == Trackit(g, h, toobig)
             k == get[g].buf[1][1]
             l == sent[k].logo
             T == Wrapup(g, r.trak, NextKey(g, h))
             s == [get[g] EXCEPT !.pc = "ret", !.status = r.status, !.hd = h,
                                 !.prev = last[g][l]]
  <1>1. k \in 1 .. Len(sent) /\ l \in Logos
    <2>1. 1 \in 1 .. Len(get[g].buf)
      BY GetterFacts
    <2>2. get[g].buf[1] \in Cells
      BY <2>1, GetterFacts, ElementOfSeq
    <2>3. k \in 1 .. Len(sent)
      BY <2>2, LenProperties DEF IsStart, Cells, TypeOK, RingTypes
    <2>4. sent[k] \in Message
      BY <2>3, ElementOfSeq DEF TypeOK, RingTypes
    <2> QED
      BY <2>3, <2>4 DEF Message
  <1>2. /\ r.trak \in [DOMAIN r.trak -> Tracker] /\ DOMAIN r.trak \subseteq Patterns
        /\ Cardinality(DOMAIN r.trak) <= NTrackGet
        /\ r.status \in {"GET_OK", "GET_NONE", "GET_MISS", "GET_NOTRACK", "GET_TOOBIG"}
    BY TrackitTypes
  <1>3. NextKey(g, h) \in Nat
    <2>1. get[g].keyget + Size(h) \in Int
      BY GetterFacts DEF Size
    <2> QED
      BY <2>1, Ranges DEF NextKey
  <1> HIDE DEF r, k
  <1>4. T \in [DOMAIN T -> Tracker] /\ DOMAIN T = DOMAIN r.trak
    BY <1>2, <1>3, WrapupTypes
  <1>5. last[g][l] \in Nat
    BY <1>1, GetterFacts
  <1> HIDE DEF l
  <1>6. s \in GetState /\ s.pc = "ret"
    BY <1>2, <1>5, GetterFacts DEF GetState
  <1>7. last' \in [Getters -> [Logos -> 0 .. Len(sent)]]
    <2>1. last' = last \/ last' = [last EXCEPT ![g] = [last[g] EXCEPT ![l] = k]]
      BY DEF Finish, k, l
    <2>2. last \in [Getters -> [Logos -> 0 .. Len(sent)]] /\ k \in 0 .. Len(sent)
      BY <1>1, GetterFacts
    <2>3. [last[g] EXCEPT ![l] = k] \in [Logos -> 0 .. Len(sent)]
      BY <2>2
    <2> QED
      BY <2>1, <2>2, <2>3
  <1>8. get' = [get EXCEPT ![g] = s] /\ gtrak' = [gtrak EXCEPT ![g] = T]
    <2>1. gtrak' = [gtrak EXCEPT ![g] = T]
      BY DEF Finish, r
    <2>2. get' = [get EXCEPT ![g] = s]
      BY DEF Finish, r, k, l
    <2> QED
      BY <2>1, <2>2
  <1> HIDE DEF T, s
  <1> QED
    BY <1>2, <1>4, <1>6, <1>7, <1>8, TrackerMoves DEF TypeOK

(* The steps of a call that have a header or a whole message in hand.      *)
LEMMA CheckTypes ==
  ASSUME TypeOK, NEW g \in Getters, CheckHeader(g) \/ CheckCopied(g)
  PROVE  GetTypes'
  <1>1. ASSUME NEW key \in Nat, Rescan(g, key), sent' = sent PROVE GetTypes'
    <2> DEFINE s == [get[g] EXCEPT !.pc = "scan", !.keyget = key, !.buf = <<>>,
                                   !.hd = NoHeader]
    <2>1. <<>> \in Seq(Cells) /\ NoHeader \in [logo : Patterns, len : Nat, seq : 0 .. SeqMod - 1]
      BY NextSeqZero DEF NoHeader, Patterns
    <2>2. s \in GetState /\ s.pc = "scan"
      BY <1>1, <2>1, GetterFacts DEF GetState
    <2>3. get' = [get EXCEPT ![g] = s]
      BY <1>1 DEF Rescan
    <2> HIDE DEF s
    <2> QED
      BY <1>1, <2>2, <2>3, GetterMoves DEF Rescan, TypeOK
  <1>2. CASE CheckHeader(g)
    <2>0. sent' = sent /\ Len(get[g].buf) = HDR
      BY <1>2 DEF CheckHeader, putVars
    <2>1. get[g].buf[HDR] \in Cells
      BY <2>0, GetterFacts, ElementOfSeq
    <2>2. \A h \in Decode(get[g].buf[HDR]) :
            h \in [logo : Logos, len : Nat, seq : 0 .. SeqMod - 1]
      BY <2>1, DecodeTypes DEF TypeOK
    <2>3. CASE Rescan(g, get[g].keyget)
      BY <1>1, <2>0, <2>3, GetterFacts
    <2>4. CASE get' = [get EXCEPT ![g].pc = "exit"] /\ UNCHANGED <<gtrak, last>>
      <3> DEFINE s == [get[g] EXCEPT !.pc = "exit"]
      <3>1. s \in GetState /\ s.pc = "exit" /\ get' = [get EXCEPT ![g] = s]
        BY <2>4, GetterFacts DEF GetState
      <3> HIDE DEF s
      <3> QED
        BY <2>0, <2>4, <3>1, GetterMoves DEF TypeOK
    <2>5. ASSUME IsStart(get[g].buf[1]), NEW h \in Decode(get[g].buf[HDR]),
                 \/ Rescan(g, NextKey(g, h))
                 \/ Finish(g, h, TRUE)
                 \/ /\ get' = [get EXCEPT ![g].pc = "body", ![g].hd = h]
                    /\ UNCHANGED <<gtrak, last>>
          PROVE  GetTypes'
      <3>1. h \in [logo : Patterns, len : Nat, seq : 0 .. SeqMod - 1]
        BY <2>2, <2>5 DEF Patterns
      <3>2. NextKey(g, h) \in Nat
        <4>1. get[g].keyget + Size(h) \in Int
          BY <3>1, GetterFacts DEF Size
        <4> QED
          BY <4>1, Ranges DEF NextKey
      <3>3. CASE Rescan(g, NextKey(g, h))
        BY <1>1, <2>0, <3>2, <3>3
      <3>4. CASE Finish(g, h, TRUE)
        <4>1. Len(get[g].buf) >= HDR
          BY <2>0, GetterFacts
        <4> QED
          BY <2>0, <2>5, <3>1, <3>4, <4>1, FinishTypes
      <3>5. CASE get' = [get EXCEPT ![g].pc = "body", ![g].hd = h] /\ UNCHANGED <<gtrak, last>>
        <4> DEFINE s == [get[g] EXCEPT !.pc = "body", !.hd = h]
        <4>1. s \in GetState /\ s.buf = get[g].buf
          BY <3>1, GetterFacts DEF GetState
        <4>2. get' = [get EXCEPT ![g] = s]
          BY <3>5
        <4>3. Len(s.buf) >= HDR /\ IsStart(s.buf[1])
          BY <2>0, <2>5, <4>1, GetterFacts
        <4> HIDE DEF s
        <4> QED
          BY <2>0, <3>5, <4>1, <4>2, <4>3, GetterMoves DEF TypeOK
      <3> QED
        BY <2>5, <3>3, <3>4, <3>5
    <2> QED
      BY <1>2, <2>3, <2>4, <2>5 DEF CheckHeader
  <1>3. CASE CheckCopied(g)
    <2>1. sent' = sent /\ get[g].pc = "body"
      BY <1>3 DEF CheckCopied, putVars
    <2>2. CASE Rescan(g, keyold)
      BY <1>1, <2>1, <2>2, GetterFacts
    <2>3. CASE Finish(g, get[g].hd, FALSE)
      BY <2>1, <2>3, GetterFacts, FinishTypes
    <2> QED
      BY <1>3, <2>2, <2>3 DEF CheckCopied
  <1> QED
    BY <1>2, <1>3

(* A getter never writes what putters use.                                 *)
LEMMA GetterFrame ==
  ASSUME NEW g \in Getters, GetCall(g) \/ GetStep(g)
  PROVE  UNCHANGED putVars
  BY DEF GetCall, GetStep, FindKey, SnapIn, ResetTrackers, Scan, ReadCell, CheckHeader,
         CheckCopied, Return

LEMMA StepTypes == TypeOK /\ [Next]_vars => TypeOK'
  <1> SUFFICES ASSUME TypeOK, [Next]_vars PROVE TypeOK'
    OBVIOUS
  <1>1. ASSUME NEW p \in Putters,
               PutCall(p) \/ Acquire(p) \/ PutStep(p) \/ Kill(p) \/ Restart(p)
        PROVE  TypeOK'
    BY <1>1, PutCallTypes, AcquireTypes, InCallTypes, KillTypes
  <1>2. ASSUME NEW g \in Getters, GetCall(g) \/ GetStep(g) PROVE TypeOK'
    <2>1. UNCHANGED putVars
      BY <1>2, GetterFrame
    <2>2. RingTypes'
      BY <2>1, RingMoves DEF putVars, TypeOK, RingTypes
    <2>3. PutTypes'
      BY <2>1, PutFrame DEF putVars, TypeOK
    <2>4. GetTypes'
      BY <1>2, GetCallTypes, SearchTypes, CheckTypes DEF GetStep
    <2> QED
      BY <2>2, <2>3, <2>4 DEF TypeOK
  <1>3. CASE UNCHANGED vars
    <2>1. RingTypes'
      BY <1>3, RingMoves DEF vars, TypeOK, RingTypes
    <2> QED
      BY <1>3, <2>1, PutFrame, GetFrame DEF vars, TypeOK
  <1> QED
    BY <1>1, <1>2, <1>3 DEF Next

(* Whatever the interleaving of putters, getters and kills, the tracking   *)
(* tables stay within NTRACK_PUT and NTRACK_GET, every cell read or        *)
(* written lies in the region, and sequence numbers fit their byte.        *)
THEOREM TypeCorrect == Spec => []TypeOK
  BY InitTypes, StepTypes, PTL DEF Spec

-----------------------------------------------------------------------------
(* Whoever takes the semaphore finds nobody inside, and nobody joins it.   *)
LEMMA StepExclusion == TypeOK /\ MutualExclusion /\ [Next]_vars => MutualExclusion'
  <1> SUFFICES ASSUME TypeOK, MutualExclusion, [Next]_vars PROVE MutualExclusion'
    OBVIOUS
  <1> DEFINE F == put \in [Putters -> PutState]
  <1>0. F
    BY DEF TypeOK, PutTypes
  <1>1. ASSUME NEW p \in Putters, PutCall(p) PROVE MutualExclusion'
    BY <1>0, <1>1 DEF MutualExclusion, InCS, PutCall
  <1>2. ASSUME NEW p \in Putters, Acquire(p) PROVE MutualExclusion'
    BY <1>0, <1>2 DEF MutualExclusion, InCS, Acquire, SemDown, Goto, IdlePut, PutState
  <1>3. ASSUME NEW p \in Putters, PutStep(p) PROVE MutualExclusion'
    <2>1. CASE WrapIn(p)
      BY <1>0, <2>1 DEF MutualExclusion, InCS, WrapIn, Goto, PutState
    <2>2. CASE WrapOld(p)
      BY <1>0, <2>2 DEF MutualExclusion, InCS, WrapOld, Goto, PutState
    <2>3. CASE WrapFix(p)
      BY <1>0, <2>3 DEF MutualExclusion, InCS, WrapFix, Goto, PutState
    <2>4. CASE Delete(p)
      BY <1>0, <2>4 DEF MutualExclusion, InCS, Delete, Goto, PutState
    <2>5. CASE CopyCell(p)
      BY <1>0, <2>5 DEF MutualExclusion, InCS, CopyCell, PutState
    <2>6. CASE Publish(p)
      BY <1>0, <2>6 DEF MutualExclusion, InCS, Publish, Goto, PutState
    <2>7. CASE Release(p)
      BY <1>0, <2>7 DEF MutualExclusion, InCS, Release, SemUp, IdlePut, PutState
    <2> QED
      BY <1>3, <2>1, <2>2, <2>3, <2>4, <2>5, <2>6, <2>7 DEF PutStep
  <1>4. ASSUME NEW p \in Putters, Kill(p) PROVE MutualExclusion'
    BY <1>0, <1>4 DEF MutualExclusion, InCS, Kill, IdlePut, PutState
  <1>5. ASSUME NEW p \in Putters, Restart(p) PROVE MutualExclusion'
    BY <1>0, <1>5 DEF MutualExclusion, InCS, Restart, IdlePut, PutState
  <1>6. ASSUME NEW g \in Getters, GetCall(g) \/ GetStep(g) PROVE MutualExclusion'
    BY <1>6, GetterFrame DEF putVars, MutualExclusion, InCS
  <1>7. CASE UNCHANGED vars
    BY <1>7 DEF vars, MutualExclusion, InCS
  <1> QED
    BY <1>1, <1>2, <1>3, <1>4, <1>5, <1>6, <1>7 DEF Next

(* tport_putmsg's semaphore keeps the ring to one putter at a time, for    *)
(* any number of putters, kills and restarts and full tracking tables.     *)
THEOREM OnePutterAtATime == Spec => []MutualExclusion
  <1>1. Init => MutualExclusion
    BY DEF Init, MutualExclusion, InCS, IdlePut
  <1> QED
    BY <1>1, StepExclusion, TypeCorrect, PTL DEF Spec

-----------------------------------------------------------------------------
(***************************************************************************)
(* Arithmetic of offsets in the ring.                                      *)
(***************************************************************************)

(* A multiple of a number that is smaller than it is zero.                 *)
LEMMA NoMultiple ==
  ASSUME NEW M \in Nat \ {0}, NEW q \in Int, - M < M * q, M * q < M
  PROVE  q = 0
  <1>1. CASE q >= 1
    <2>1. M * q >= M
      BY <1>1, SMT
    <2> QED
      BY <2>1
  <1>2. CASE q <= -1
    <2>1. M * q <= - M
      BY <1>2, SMT
    <2> QED
      BY <2>1
  <1> QED
    BY <1>1, <1>2

LEMMA Division ==
  ASSUME NEW M \in Nat \ {0}, NEW x \in Nat
  PROVE  \E q \in Nat : x = M * q + (x % M) /\ x % M \in 0 .. M - 1
  <1>1. x = M * (x \div M) + (x % M) /\ x \div M \in Nat /\ x % M \in 0 .. M - 1
    OBVIOUS
  <1> QED
    BY <1>1

(* Two numbers with one remainder that are less than the modulus apart.    *)
LEMMA SameRemainder ==
  ASSUME NEW M \in Nat \ {0}, NEW x \in Nat, NEW y \in Nat, x % M = y % M,
         x <= y, y - x < M
  PROVE  x = y
  <1>1. PICK q \in Nat : x = M * q + (x % M) /\ x % M \in 0 .. M - 1
    BY Division
  <1>2. PICK r \in Nat : y = M * r + (y % M)
    BY Division
  <1>3. M * (r - q) = y - x
    <2>1. M * (r - q) = M * r - M * q
      OBVIOUS
    <2> QED
      BY <1>1, <1>2, <2>1
  <1>4. r - q = 0
    BY <1>3, NoMultiple
  <1> QED
    BY <1>3, <1>4

(* The remainder of a number given by quotient and rest.                   *)
LEMMA RemainderIs ==
  ASSUME NEW M \in Nat \ {0}, NEW q \in Nat, NEW r \in 0 .. M - 1
  PROVE  (M * q + r) % M = r
  <1> DEFINE x == M * q + r
  <1>1. M * q \in Nat
    OBVIOUS
  <1>2. x \in Nat
    BY <1>1
  <1>3. PICK s \in Nat : x = M * s + (x % M) /\ x % M \in 0 .. M - 1
    BY <1>2, Division
  <1>4. M * (q - s) = (x % M) - r
    <2>1. M * (q - s) = M * q - M * s
      OBVIOUS
    <2> QED
      BY <1>1, <1>3, <2>1
  <1>5. q - s = 0
    <2>1. - M < (x % M) - r /\ (x % M) - r < M
      BY <1>3
    <2> QED
      BY <1>4, <2>1, NoMultiple
  <1>6. (x % M) - r = 0
    BY <1>4, <1>5
  <1> QED
    BY <1>3, <1>6

LEMMA RemainderSum ==
  ASSUME NEW M \in Nat \ {0}, NEW x \in Nat, NEW d \in Nat
  PROVE  ((x % M) + d) % M = (x + d) % M
  <1>1. PICK q \in Nat : x = M * q + (x % M) /\ x % M \in 0 .. M - 1
    BY Division
  <1> DEFINE y == (x % M) + d
  <1>2. y \in Nat
    BY <1>1
  <1>3. PICK r \in Nat : y = M * r + (y % M) /\ y % M \in 0 .. M - 1
    BY <1>2, Division
  <1>4. x + d = M * (q + r) + (y % M)
    <2>1. M * (q + r) = M * q + M * r
      OBVIOUS
    <2> QED
      BY <1>1, <1>3, <2>1
  <1>5. q + r \in Nat
    OBVIOUS
  <1> HIDE DEF y
  <1>6. (M * (q + r) + (y % M)) % M = y % M
    BY <1>3, <1>5, RemainderIs
  <1> QED
    BY <1>4, <1>6 DEF y

(* Slots of the ring: 0 .. KeyMax - 1 are their own slots, a key and the   *)
(* same key after going round once have one slot.                          *)
LEMMA SlotSum ==
  ASSUME NEW a \in Nat, NEW d \in 0 .. KeyMax
  PROVE  Slot(a + d) = IF Slot(a) + d < KeyMax THEN Slot(a) + d ELSE Slot(a) + d - KeyMax
  <1>1. KeyMax \in Nat \ {0}
    BY TransportAssumption DEF TransportAssumption
  <1>2. PICK q \in Nat : a = KeyMax * q + (a % KeyMax) /\ a % KeyMax \in 0 .. KeyMax - 1
    BY <1>1, Division
  <1> DEFINE s == a % KeyMax
             r == IF s + d < KeyMax THEN s + d ELSE s + d - KeyMax
             t == IF s + d < KeyMax THEN q ELSE q + 1
  <1>3. t \in Nat /\ r \in 0 .. KeyMax - 1
    BY <1>1, <1>2
  <1>4. a + d = KeyMax * t + r
    <2>1. KeyMax * (q + 1) = KeyMax * q + KeyMax /\ KeyMax * q \in Nat
      BY <1>1
    <2>2. s \in Nat /\ a = KeyMax * q + s
      BY <1>2
    <2> HIDE DEF s
    <2>3. CASE s + d < KeyMax
      BY <1>1, <2>1, <2>2, <2>3
    <2>4. CASE ~(s + d < KeyMax)
      BY <1>1, <2>1, <2>2, <2>4
    <2> QED
      BY <2>3, <2>4
  <1> HIDE DEF t, r
  <1>5. (KeyMax * t + r) % KeyMax = r
    BY <1>1, <1>3, RemainderIs
  <1> QED
    BY <1>4, <1>5 DEF Slot, r

LEMMA SlotOfSmall == \A a \in 0 .. KeyMax - 1 : Slot(a) = a
  <1> SUFFICES ASSUME NEW a \in 0 .. KeyMax - 1 PROVE Slot(a) = a
    OBVIOUS
  <1>1. KeyMax \in Nat \ {0} /\ a \in Nat
    BY TransportAssumption DEF TransportAssumption
  <1>2. (KeyMax * 0 + a) % KeyMax = a
    BY <1>1, RemainderIs
  <1> QED
    BY <1>1, <1>2 DEF Slot

LEMMA SlotShift ==
  ASSUME NEW a \in Nat, NEW b \in Nat, Slot(a) = Slot(b), NEW d \in Nat
  PROVE  Slot(a + d) = Slot(b + d)
  <1>1. KeyMax \in Nat \ {0}
    BY TransportAssumption DEF TransportAssumption
  <1>2. ((a % KeyMax) + d) % KeyMax = (a + d) % KeyMax
    BY <1>1, RemainderSum
  <1>3. ((b % KeyMax) + d) % KeyMax = (b + d) % KeyMax
    BY <1>1, RemainderSum
  <1> QED
    BY <1>2, <1>3 DEF Slot

(* Two cells of one lap of the ring are different.                         *)
LEMMA SlotsDiffer ==
  ASSUME NEW a \in Nat, NEW b \in Nat, a < b, b - a < KeyMax
  PROVE  Slot(a) # Slot(b)
  <1>1. KeyMax \in Nat \ {0}
    BY TransportAssumption DEF TransportAssumption
  <1>2. \A M \in Nat \ {0} : M = KeyMax => (a % M = b % M => a = b)
    <2> SUFFICES ASSUME NEW M \in Nat \ {0}, M = KeyMax, a % M = b % M PROVE a = b
      OBVIOUS
    <2>1. a <= b /\ b - a < M
      OBVIOUS
    <2> QED
      BY <2>1, SameRemainder
  <1> QED
    BY <1>1, <1>2 DEF Slot

(* Going round once.                                                       *)
LEMMA WordSmall == \A x \in 0 .. WordMod - 1 : Word(x) = x
  <1> SUFFICES ASSUME NEW x \in 0 .. WordMod - 1 PROVE Word(x) = x
    OBVIOUS
  <1>1. WordMod \in Nat \ {0} /\ x \in Nat
    BY TransportAssumption DEF TransportAssumption
  <1>2. (WordMod * 0 + x) % WordMod = x
    BY <1>1, RemainderIs
  <1> QED
    BY <1>1, <1>2 DEF Word

LEMMA WordOver == \A x \in 0 .. WordMod - 1 : Word(WordMod + x) = x
  <1> SUFFICES ASSUME NEW x \in 0 .. WordMod - 1 PROVE Word(WordMod + x) = x
    OBVIOUS
  <1>1. WordMod \in Nat \ {0} /\ x \in Nat
    BY TransportAssumption DEF TransportAssumption
  <1>2. (WordMod * 1 + x) % WordMod = x
    BY <1>1, RemainderIs
  <1> QED
    BY <1>1, <1>2 DEF Word

-----------------------------------------------------------------------------
(***************************************************************************)
(* The invariant of the ring: the stream of messages, where they are stored, *)
(* the keys, and how far each putter has come                              *)
(***************************************************************************)

Stream ==
  /\ ndel <= npub /\ npub <= Len(sent) /\ Len(sent) <= npub + 1
  /\ \A k \in 1 .. Len(sent) : /\ sent[k].at = EndOf(k - 1)
                               /\ sent[k].len \in Lens /\ Size(sent[k]) <= KeyMax
  /\ \A j, k \in 1 .. Len(sent) : j < k => EndOf(j) <= sent[k].at

Stored ==
  \A k \in ndel + 1 .. npub : \A i \in 0 .. Size(sent[k]) - 1 :
    ring[Slot(sent[k].at + i)] = <<k, i>>

Fresh == npub = 0 /\ keyin = 0 /\ keyold = 0

Settled ==
  /\ keyin - keyold = EndOf(npub) - EndOf(ndel)
  /\ keyin - keyold <= KeyMax
  /\ Slot(keyold) = Slot(EndOf(ndel))
  /\ keyin < WordMod

Keys ==
  /\ KeysSettled => Settled
  /\ sem = 1 => Len(sent) = npub /\ (ndel < npub \/ Fresh)

Called(p) ==
  /\ put[p].pc # "exit"
  /\ put[p].pc \notin {"idle", "dead"} =>
       put[p].len \in Lens /\ Need(p) <= KeyMax /\ put[p].logo \in PutLogos[p]
  /\ put[p].pc \in {"wait", "wrapin", "wrapold", "wrapfix", "room"} => put[p].i = 0
  /\ put[p].pc = "copy" => put[p].i <= Need(p)

Resetting == {"wrapold", "wrapfix"}

Inside(p) ==
  /\ put[p].pc = "free" => Len(sent) = npub /\ ndel < npub
  /\ put[p].pc \in {"wrapin", "wrapold", "wrapfix", "room", "copy"} =>
       Len(sent) = npub + 1 /\ sent[npub + 1].len = put[p].len
  /\ put[p].pc = "wrapin" => ndel < npub \/ Fresh
  /\ put[p].pc \in Resetting =>
       /\ ndel < npub /\ EndOf(npub) - EndOf(ndel) <= KeyMax
       /\ keyin = Slot(EndOf(npub)) /\ Slot(keyold) = Slot(EndOf(ndel))
  /\ put[p].pc = "wrapfix" => keyold = Slot(EndOf(ndel))
  /\ put[p].pc \in {"room", "copy"} => keyin + Need(p) < WordMod
  /\ put[p].pc = "copy" =>
       /\ keyin + Need(p) - keyold <= KeyMax
       /\ \A j \in 0 .. put[p].i - 1 : ring[Slot(EndOf(npub) + j)] = <<npub + 1, j>>

Putting == \A p \in Putters : Called(p) /\ Inside(p)

RingInv == TypeOK /\ MutualExclusion /\ Stream /\ Stored /\ Keys /\ Putting

LEMMA Constants ==
  /\ KeyMax \in Nat \ {0} /\ HDR \in Nat \ {0} /\ WordMod \in Nat \ {0}
  /\ WordMod >= 3 * KeyMax
  BY TransportAssumption DEF TransportAssumption

(* The stream offsets of the messages sent.                                *)
LEMMA StreamFacts ==
  ASSUME TypeOK, Stream
  PROVE  /\ ndel \in Nat /\ npub \in Nat /\ Len(sent) \in Nat
         /\ ndel <= npub /\ npub <= Len(sent)
         /\ \A k \in 1 .. Len(sent) :
              /\ sent[k] \in Message /\ sent[k].at \in Nat /\ Size(sent[k]) \in Nat \ {0}
              /\ EndOf(k) = sent[k].at + Size(sent[k]) /\ sent[k].at = EndOf(k - 1)
              /\ Size(sent[k]) = HDR + sent[k].len /\ Size(sent[k]) <= KeyMax
         /\ \A k \in 0 .. Len(sent) : EndOf(k) \in Nat
         /\ \A j, k \in 0 .. Len(sent) : /\ j < k => EndOf(j) < EndOf(k)
                                         /\ j <= k => EndOf(j) <= EndOf(k)
         /\ \A j, k \in 1 .. Len(sent) : j < k => EndOf(j) <= sent[k].at
         /\ Oldest = EndOf(ndel) /\ EndOf(0) = 0
  <1>1. /\ ndel \in Nat /\ npub \in Nat /\ Len(sent) \in Nat
        /\ ndel <= npub /\ npub <= Len(sent)
    BY LenProperties DEF TypeOK, RingTypes, Stream
  <1>2. \A k \in 1 .. Len(sent) :
              /\ sent[k] \in Message /\ sent[k].at \in Nat /\ Size(sent[k]) \in Nat \ {0}
              /\ EndOf(k) = sent[k].at + Size(sent[k]) /\ sent[k].at = EndOf(k - 1)
              /\ Size(sent[k]) = HDR + sent[k].len /\ Size(sent[k]) <= KeyMax
    <2> SUFFICES ASSUME NEW k \in 1 .. Len(sent)
                 PROVE  /\ sent[k] \in Message /\ sent[k].at \in Nat
                        /\ Size(sent[k]) \in Nat \ {0}
                        /\ EndOf(k) = sent[k].at + Size(sent[k]) /\ sent[k].at = EndOf(k - 1)
                        /\ Size(sent[k]) = HDR + sent[k].len /\ Size(sent[k]) <= KeyMax
      OBVIOUS
    <2>1. sent[k] \in Message
      BY ElementOfSeq DEF TypeOK, RingTypes
    <2>2. sent[k].at \in Nat /\ sent[k].len \in Nat
      BY <2>1 DEF Message
    <2>3. k # 0
      BY <1>1
    <2> QED
      BY <2>1, <2>2, <2>3, Constants DEF Stream, Size, EndOf
  <1>3. EndOf(0) = 0
    BY DEF EndOf
  <1>4. \A k \in 0 .. Len(sent) : EndOf(k) \in Nat
    <2> SUFFICES ASSUME NEW k \in 0 .. Len(sent) PROVE EndOf(k) \in Nat
      OBVIOUS
    <2>1. CASE k = 0
      BY <1>3, <2>1
    <2>2. CASE k \in 1 .. Len(sent)
      BY <1>2, <2>2
    <2> QED
      BY <1>1, <2>1, <2>2
  <1>5. \A j, k \in 0 .. Len(sent) : j < k => EndOf(j) < EndOf(k)
    <2> SUFFICES ASSUME NEW j \in 0 .. Len(sent), NEW k \in 0 .. Len(sent), j < k
                 PROVE  EndOf(j) < EndOf(k)
      OBVIOUS
    <2>1. k \in 1 .. Len(sent)
      BY <1>1
    <2>2. EndOf(k) = sent[k].at + Size(sent[k]) /\ sent[k].at \in Nat /\ Size(sent[k]) \in Nat \ {0}
      BY <1>2, <2>1
    <2>3. CASE j = 0
      BY <1>3, <2>2, <2>3
    <2>4. CASE j \in 1 .. Len(sent)
      <3>1. EndOf(j) <= sent[k].at /\ EndOf(j) \in Nat
        BY <1>4, <2>1, <2>4 DEF Stream
      <3> QED
        BY <2>2, <3>1
    <2> QED
      BY <1>1, <2>3, <2>4
  <1>6. \A j, k \in 0 .. Len(sent) : j <= k => EndOf(j) <= EndOf(k)
    <2> SUFFICES ASSUME NEW j \in 0 .. Len(sent), NEW k \in 0 .. Len(sent), j <= k
                 PROVE  EndOf(j) <= EndOf(k)
      OBVIOUS
    <2>1. EndOf(j) \in Nat /\ EndOf(k) \in Nat
      BY <1>4
    <2>2. CASE j = k
      BY <2>1, <2>2
    <2>3. CASE j < k
      BY <1>5, <2>1, <2>3
    <2> QED
      BY <1>1, <2>2, <2>3
  <1>7. Oldest = EndOf(ndel)
    <2>1. CASE ndel < npub
      <3>1. ndel + 1 \in 1 .. Len(sent) /\ (ndel + 1) - 1 = ndel
        BY <1>1, <2>1
      <3>2. sent[ndel + 1].at = EndOf(ndel)
        BY <1>2, <3>1
      <3> QED
        BY <2>1, <3>2 DEF Oldest
    <2>2. CASE ndel = npub
      BY <1>1, <2>2 DEF Oldest
    <2> QED
      BY <1>1, <2>1, <2>2
  <1>8. \A j, k \in 1 .. Len(sent) : j < k => EndOf(j) <= sent[k].at
    BY DEF Stream
  <1> QED
    BY <1>1, <1>2, <1>3, <1>4, <1>5, <1>6, <1>7, <1>8

(* One putter is inside, so no other is.                                   *)
LEMMA OneInside ==
  ASSUME MutualExclusion, NEW p \in Putters, InCS(p)
  PROVE  sem = 0 /\ \A q \in Putters : q # p => ~InCS(q)
  BY DEF MutualExclusion

LEMMA SettledInside ==
  ASSUME MutualExclusion, NEW p \in Putters, InCS(p)
  PROVE  KeysSettled <=> put[p].pc \in {"wrapin", "room", "copy", "free"}
  BY OneInside DEF KeysSettled, InCS

(* The ring invariant says RingIntact.                                     *)
LEMMA RingInvIntact == RingInv => RingIntact
  <1> SUFFICES ASSUME RingInv PROVE RingIntact
    OBVIOUS
  <1>1. Oldest = EndOf(ndel)
    BY StreamFacts DEF RingInv
  <1> QED
    BY <1>1 DEF RingInv, RingIntact, Stored, Keys, Settled, Putting, Called

LEMMA InitRing == Init => RingInv
  <1> SUFFICES ASSUME Init PROVE RingInv
    OBVIOUS
  <1>1. TypeOK
    BY InitTypes
  <1>2. MutualExclusion
    BY DEF Init, MutualExclusion, InCS, IdlePut
  <1>3. sent = <<>> /\ Len(<<>>) = 0 /\ npub = 0 /\ ndel = 0
    BY DEF Init
  <1>4. Stream /\ Stored
    BY <1>3 DEF Stream, Stored
  <1>5. Keys
    <2>1. EndOf(0) = 0
      BY DEF EndOf
    <2> QED
      BY <1>3, <2>1, Constants DEF Init, Keys, Settled, Fresh
  <1>6. Putting
    BY DEF Init, Putting, Called, Inside, Resetting, IdlePut
  <1> QED
    BY <1>1, <1>2, <1>4, <1>5, <1>6 DEF RingInv

(* A step of a putter that is not inside, and moves nothing it shares.     *)
LEMMA OutsideStep ==
  ASSUME RingInv, NEW p \in Putters, ~ InCS(p), NEW s, put' = [put EXCEPT ![p] = s],
         s.pc \in {"idle", "wait", "dead"},
         s.pc = "wait" => /\ s.len \in Lens /\ HDR + s.len <= KeyMax
                          /\ s.logo \in PutLogos[p] /\ s.i = 0,
         UNCHANGED <<keyin, keyold, ring, sem, sent, npub, ndel>>
  PROVE  Stream' /\ Stored' /\ Keys' /\ Putting'
  <1>1. Stream' /\ Stored'
    BY DEF RingInv, Stream, Stored, EndOf, Size, Slot
  <1>2. put \in [Putters -> PutState]
    BY DEF RingInv, TypeOK, PutTypes
  <1>3. put'[p] = s /\ \A q \in Putters : q # p => put'[q] = put[q]
    BY <1>2
  <1>4. Keys'
    <2>1. Settled' = Settled /\ Fresh' = Fresh
      BY DEF Settled, Fresh, EndOf, Size
    <2>2. KeysSettled' => KeysSettled
      BY <1>3 DEF KeysSettled
    <2> QED
      BY <2>1, <2>2 DEF RingInv, Keys
  <1>5. Putting'
    <2> SUFFICES ASSUME NEW q \in Putters PROVE Called(q)' /\ Inside(q)'
      BY DEF Putting
    <2>1. CASE q = p
      BY <1>3, <2>1 DEF Called, Inside, Resetting, Need
    <2>2. CASE q # p
      BY <1>3, <2>2 DEF RingInv, Putting, Called, Inside, Resetting, Need, EndOf, Size, Fresh, Slot
    <2> QED
      BY <2>1, <2>2
  <1> QED
    BY <1>1, <1>4, <1>5

LEMMA PutCallRing ==
  ASSUME RingInv, NEW p \in Putters, PutCall(p)
  PROVE  Stream' /\ Stored' /\ Keys' /\ Putting'
  <1>1. PICK l \in PutLogos[p], n \in Lens, x \in Looks :
          /\ ~ TooBig(n)
          /\ put' = [put EXCEPT ![p] = [pc |-> "wait", logo |-> l, len |-> n, looks |-> x,
                                        i |-> 0]]
    BY DEF PutCall
  <1> DEFINE s == [pc |-> "wait", logo |-> l, len |-> n, looks |-> x, i |-> 0]
  <1>2. s.pc = "wait" /\ s.len \in Lens /\ s.logo \in PutLogos[p] /\ s.i = 0 /\ s.len = n
    BY <1>1
  <1>3. n \in Nat /\ HDR + n <= KeyMax
    BY <1>1, TransportAssumption DEF TransportAssumption, TooBig
  <1>4. put' = [put EXCEPT ![p] = s]
    BY <1>1
  <1> HIDE DEF s
  <1> QED
    BY <1>2, <1>3, <1>4, OutsideStep DEF PutCall, InCS

LEMMA RestartRing ==
  ASSUME RingInv, NEW p \in Putters, Restart(p)
  PROVE  Stream' /\ Stored' /\ Keys' /\ Putting'
  <1>1. IdlePut.pc = "idle"
    BY DEF IdlePut
  <1> QED
    BY <1>1, OutsideStep DEF Restart, InCS

(* A putter killed inside leaves the semaphore down, and the keys where    *)
(* they are.                                                               *)
LEMMA KillRing ==
  ASSUME RingInv, NEW p \in Putters, Kill(p)
  PROVE  Stream' /\ Stored' /\ Keys' /\ Putting'
  <1>1. Stream' /\ Stored'
    BY DEF RingInv, Stream, Stored, EndOf, Size, Slot, Kill
  <1>2. put \in [Putters -> PutState]
    BY DEF RingInv, TypeOK, PutTypes
  <1>3. put'[p].pc = "dead" /\ \A q \in Putters : q # p => put'[q] = put[q]
    BY <1>2 DEF Kill, IdlePut
  <1>4. Keys'
    <2>1. Settled' = Settled /\ Fresh' = Fresh
      BY DEF Settled, Fresh, EndOf, Size, Kill
    <2>2. KeysSettled' => KeysSettled
      BY <1>3 DEF KeysSettled, Kill
    <2> QED
      BY <2>1, <2>2 DEF RingInv, Keys, Kill
  <1>5. Putting'
    <2> SUFFICES ASSUME NEW q \in Putters PROVE Called(q)' /\ Inside(q)'
      BY DEF Putting
    <2>1. CASE q = p
      BY <1>3, <2>1 DEF Called, Inside, Resetting, Need
    <2>2. CASE q # p
      BY <1>3, <2>2
      DEF RingInv, Putting, Called, Inside, Resetting, Need, EndOf, Size, Fresh, Slot, Kill
    <2> QED
      BY <2>1, <2>2
  <1> QED
    BY <1>1, <1>4, <1>5

(* A step of the putter inside: the others are as they were.               *)
LEMMA OthersStay ==
  ASSUME RingInv, NEW p \in Putters, InCS(p), NEW s, put' = [put EXCEPT ![p] = s]
  PROVE  /\ put'[p] = s /\ sem = 0
         /\ \A q \in Putters : q # p => /\ put'[q] = put[q] /\ ~ InCS(q)
                                        /\ Called(q)' /\ Inside(q)'
  <1>1. put \in [Putters -> PutState]
    BY DEF RingInv, TypeOK, PutTypes
  <1>2. put'[p] = s /\ \A q \in Putters : q # p => put'[q] = put[q]
    BY <1>1
  <1>3. sem = 0 /\ \A q \in Putters : q # p => ~ InCS(q)
    BY OneInside DEF RingInv
  <1>4. \A q \in Putters : q # p => Called(q)' /\ Inside(q)'
    <2> SUFFICES ASSUME NEW q \in Putters, q # p PROVE Called(q)' /\ Inside(q)'
      OBVIOUS
    <2>1. put'[q] = put[q] /\ ~ InCS(q) /\ Called(q)
      BY <1>2, <1>3 DEF RingInv, Putting
    <2> QED
      BY <2>1 DEF Called, Inside, Resetting, Need, InCS
  <1> QED
    BY <1>2, <1>3, <1>4

(* What the others leave to show after such a step.                        *)
LEMMA InsideStep ==
  ASSUME RingInv, NEW p \in Putters, InCS(p), NEW s, put' = [put EXCEPT ![p] = s],
         sem' = sem,
         s.pc \in {"wrapin", "room", "copy", "free"} => Settled',
         Called(p)', Inside(p)'
  PROVE  Keys' /\ Putting'
  <1>1. /\ put'[p] = s /\ sem = 0
        /\ \A q \in Putters : q # p => /\ put'[q] = put[q] /\ ~ InCS(q)
                                       /\ Called(q)' /\ Inside(q)'
    BY OthersStay
  <1>2. KeysSettled' => s.pc \in {"wrapin", "room", "copy", "free"}
    BY <1>1 DEF KeysSettled, InCS
  <1> QED
    BY <1>1, <1>2 DEF Keys, Putting

(* The facts of the putter inside.                                         *)
LEMMA InsideFacts ==
  ASSUME RingInv, NEW p \in Putters, InCS(p)
  PROVE  /\ put \in [Putters -> PutState] /\ put[p] \in PutState
         /\ put[p].len \in Nat /\ put[p].len \in Lens /\ put[p].i \in Nat
         /\ Need(p) \in Nat \ {0} /\ Need(p) = HDR + put[p].len /\ Need(p) <= KeyMax
         /\ keyin \in Nat /\ keyold \in Nat /\ sem = 0
         /\ Called(p) /\ Inside(p)
         /\ put[p].pc \in {"wrapin", "room", "copy", "free"} => Settled
         /\ put[p].logo \in PutLogos[p]
  <1>1. put \in [Putters -> PutState] /\ put[p] \in PutState
    BY DEF RingInv, TypeOK, PutTypes
  <1>2. put[p].len \in Nat /\ put[p].i \in Nat
    BY <1>1 DEF PutState
  <1>3. Called(p) /\ Inside(p) /\ sem = 0
    BY OneInside DEF RingInv, Putting
  <1>4. put[p].len \in Lens /\ Need(p) <= KeyMax /\ put[p].logo \in PutLogos[p]
    BY <1>3 DEF Called, InCS
  <1>5. put[p].pc \in {"wrapin", "room", "copy", "free"} => Settled
    BY SettledInside DEF RingInv, Keys
  <1> QED
    BY <1>1, <1>2, <1>3, <1>4, <1>5, Constants DEF Need, RingInv, TypeOK, RingTypes

-----------------------------------------------------------------------------
(***************************************************************************)
(* The steps of a putter keep the ring invariant.                          *)
(***************************************************************************)

(* The keys alone move: what is stored stays.                              *)
LEMMA WrapInRing ==
  ASSUME RingInv, NEW p \in Putters, WrapIn(p)
  PROVE  Stream' /\ Stored' /\ Keys' /\ Putting'
  <1>1. InCS(p) /\ put[p].pc = "wrapin"
    BY DEF WrapIn, InCS
  <1>2. Stream' /\ Stored'
    BY DEF RingInv, Stream, Stored, EndOf, Size, Slot, WrapIn
  <1> DEFINE N == Need(p)
             E == EndOf(npub)
             O == EndOf(ndel)
  <1>3. /\ keyin \in Nat /\ keyold \in Nat /\ N \in Nat \ {0} /\ N <= KeyMax /\ Settled
        /\ Len(sent) = npub + 1 /\ sent[npub + 1].len = put[p].len
        /\ (ndel < npub \/ Fresh) /\ put[p].i = 0
        /\ put[p] \in PutState
    BY <1>1, InsideFacts DEF Called, Inside
  <1>4. E \in Nat /\ O \in Nat /\ O <= E
    BY <1>3, StreamFacts DEF RingInv
  <1>5. E' = E /\ O' = O
    BY DEF WrapIn, EndOf, Size
  <1> HIDE DEF N
  <1>6. CASE Word(keyin + N) < keyold
    <2> DEFINE s == [put[p] EXCEPT !.pc = "wrapold"]
    <2>1. /\ put' = [put EXCEPT ![p] = s] /\ keyin' = Slot(keyin)
          /\ UNCHANGED <<keyold, ring, sem, sent, npub, ndel>>
      BY <1>6 DEF WrapIn, Goto, N
    <2>2. /\ s.pc = "wrapold" /\ s.i = 0 /\ s.len = put[p].len /\ s.logo = put[p].logo
      BY <1>3 DEF PutState
    <2> HIDE DEF s
    <2>3. put'[p] = s
      BY <1>1, <2>1, OthersStay
    <2>4. ndel < npub
      <3>1. ~ (keyin = 0 /\ keyold = 0)
        <4> SUFFICES ASSUME keyin = 0, keyold = 0 PROVE FALSE
          OBVIOUS
        <4>1. Word(N) = N
          BY <1>3, WordSmall, Constants
        <4> QED
          BY <1>3, <1>6, <4>1
      <3> QED
        BY <1>3, <3>1 DEF Fresh
    <2>5. Slot(keyin) = Slot(E)
      <3>1. keyin = keyold + (E - O) /\ E - O \in Nat /\ E = O + (E - O) /\ Slot(keyold) = Slot(O)
        BY <1>3, <1>4 DEF Settled
      <3>2. Slot(keyold + (E - O)) = Slot(O + (E - O))
        BY <1>3, <1>4, <3>1, SlotShift
      <3> QED
        BY <3>1, <3>2
    <2>6. Called(p)'
      BY <2>2, <2>3, <1>1, InsideFacts DEF Called, Need, Resetting
    <2>7. Inside(p)'
      <3>1. E - O <= KeyMax /\ Slot(keyold) = Slot(O)
        BY <1>3 DEF Settled
      <3>2. keyin' = Slot(E')
        BY <2>1, <2>5, <1>5
      <3> HIDE DEF E, O
      <3>3. E' - O' <= KeyMax /\ Slot(keyold)' = Slot(O') /\ ndel' < npub'
        BY <1>5, <2>1, <2>4, <3>1 DEF Slot
      <3> USE DEF E, O
      <3> QED
        BY <1>3, <2>1, <2>2, <2>3, <3>2, <3>3 DEF Inside, Resetting, Slot
    <2>8. Keys' /\ Putting'
      BY <1>1, <2>1, <2>2, <2>6, <2>7, InsideStep
    <2> QED
      BY <1>2, <2>8
  <1>7. CASE ~ (Word(keyin + N) < keyold)
    <2> DEFINE s == [put[p] EXCEPT !.pc = "room"]
    <2>1. /\ put' = [put EXCEPT ![p] = s]
          /\ UNCHANGED <<keyin, keyold, ring, sem, sent, npub, ndel>>
      BY <1>7 DEF WrapIn, Goto, N
    <2>2. /\ s.pc = "room" /\ s.i = 0 /\ s.len = put[p].len /\ s.logo = put[p].logo
      BY <1>3 DEF PutState
    <2> HIDE DEF s
    <2>3. put'[p] = s
      BY <1>1, <2>1, OthersStay
    <2>4. keyin + N < WordMod
      <3> SUFFICES ASSUME keyin + N >= WordMod PROVE FALSE
        BY <1>3, Constants
      <3> DEFINE x == keyin + N - WordMod
      <3>1. x \in 0 .. WordMod - 1 /\ x < keyold
        BY <1>3, Constants DEF Settled
      <3>2. keyin + N = WordMod + x
        BY <1>3, Constants
      <3> HIDE DEF x
      <3>3. Word(WordMod + x) = x
        BY <3>1, WordOver
      <3> QED
        BY <1>7, <3>1, <3>2, <3>3
    <2>5. Called(p)'
      BY <2>2, <2>3, <1>1, InsideFacts DEF Called, Need, Resetting
    <2>6. Inside(p)'
      <3>1. Need(p)' = N
        BY <2>2, <2>3 DEF Need, N
      <3> QED
        BY <1>3, <2>1, <2>2, <2>3, <2>4, <3>1 DEF Inside, Resetting
    <2>7. Settled'
      BY <1>3, <2>1 DEF Settled, EndOf, Size, Slot
    <2>8. Keys' /\ Putting'
      BY <1>1, <2>1, <2>2, <2>5, <2>6, <2>7, InsideStep
    <2> QED
      BY <1>2, <2>8
  <1> QED
    BY <1>6, <1>7

LEMMA WrapOldRing ==
  ASSUME RingInv, NEW p \in Putters, WrapOld(p)
  PROVE  Stream' /\ Stored' /\ Keys' /\ Putting'
  <1>1. InCS(p) /\ put[p].pc = "wrapold"
    BY DEF WrapOld, InCS
  <1>2. Stream' /\ Stored'
    BY DEF RingInv, Stream, Stored, EndOf, Size, Slot, WrapOld
  <1> DEFINE s == [put[p] EXCEPT !.pc = "wrapfix"]
  <1>3. put' = [put EXCEPT ![p] = s]
    BY DEF WrapOld, Goto
  <1>4. put[p] \in PutState /\ put[p].i = 0
    BY <1>1, InsideFacts DEF Called
  <1>5. s.pc = "wrapfix" /\ s.i = 0 /\ s.len = put[p].len /\ s.logo = put[p].logo
    BY <1>4 DEF PutState
  <1> HIDE DEF s
  <1>6. put'[p] = s
    BY <1>1, <1>3, OthersStay
  <1>7. Called(p)'
    BY <1>1, <1>5, <1>6, InsideFacts DEF Called, Need, Resetting
  <1>8. Inside(p)'
    <2>1. Inside(p) /\ keyold \in Nat
      BY <1>1, InsideFacts
    <2>2. Slot(keyold) \in 0 .. KeyMax - 1
      BY <2>1, Ranges
    <2>3. Slot(Slot(keyold)) = Slot(keyold)
      BY <2>2, SlotOfSmall
    <2>4. EndOf(npub)' = EndOf(npub) /\ EndOf(ndel)' = EndOf(ndel)
      BY DEF WrapOld, EndOf, Size
    <2>5. keyold' = Slot(keyold) /\ UNCHANGED <<keyin, npub, ndel, sent>>
      BY DEF WrapOld
    <2> QED
      BY <1>1, <1>5, <1>6, <2>1, <2>3, <2>4, <2>5 DEF Inside, Resetting, Slot
  <1>9. Keys' /\ Putting'
    BY <1>1, <1>3, <1>5, <1>7, <1>8, InsideStep DEF WrapOld
  <1> QED
    BY <1>2, <1>9

(* After the three stores the keys are as far apart as before.             *)
LEMMA WrapFixRing ==
  ASSUME RingInv, NEW p \in Putters, WrapFix(p)
  PROVE  Stream' /\ Stored' /\ Keys' /\ Putting'
  <1>1. InCS(p) /\ put[p].pc = "wrapfix"
    BY DEF WrapFix, InCS
  <1>2. Stream' /\ Stored'
    BY DEF RingInv, Stream, Stored, EndOf, Size, Slot, WrapFix
  <1> DEFINE s == [put[p] EXCEPT !.pc = "room"]
             E == EndOf(npub)
             O == EndOf(ndel)
  <1>3. put' = [put EXCEPT ![p] = s]
    BY DEF WrapFix, Goto
  <1>4. put[p] \in PutState /\ put[p].i = 0
    BY <1>1, InsideFacts DEF Called
  <1>5. s.pc = "room" /\ s.i = 0 /\ s.len = put[p].len /\ s.logo = put[p].logo
    BY <1>4 DEF PutState
  <1> HIDE DEF s
  <1>6. put'[p] = s
    BY <1>1, <1>3, OthersStay
  <1>7. /\ ndel < npub /\ E - O <= KeyMax /\ keyin = Slot(E) /\ keyold = Slot(O)
        /\ Slot(keyold) = Slot(O) /\ keyin \in Nat /\ keyold \in Nat
        /\ Len(sent) = npub + 1 /\ sent[npub + 1].len = put[p].len
        /\ Need(p) \in Nat \ {0} /\ Need(p) <= KeyMax
    BY <1>1, InsideFacts DEF Inside, Resetting
  <1>8. E \in Nat /\ O \in Nat /\ O < E
    <2>1. npub \in 0 .. Len(sent) /\ ndel \in 0 .. Len(sent)
      BY StreamFacts DEF RingInv
    <2> QED
      BY <1>7, <2>1, StreamFacts DEF RingInv
  <1>9. keyin' = FixedIn /\ UNCHANGED <<keyold, sem, sent, npub, ndel>>
    BY DEF WrapFix
  <1>10. E' = E /\ O' = O
    BY DEF WrapFix, EndOf, Size
  <1>11. keyin' - keyold = E - O /\ keyin' < 2 * KeyMax
    <2> DEFINE d == E - O
    <2>1. d \in 0 .. KeyMax /\ d > 0 /\ E = O + d
      BY <1>7, <1>8
    <2> HIDE DEF d, E, O
    <2>2. Slot(O + d) = IF Slot(O) + d < KeyMax THEN Slot(O) + d ELSE Slot(O) + d - KeyMax
      BY <1>8, <2>1, SlotSum
    <2>3. keyin = IF keyold + d < KeyMax THEN keyold + d ELSE keyold + d - KeyMax
      BY <1>7, <2>1, <2>2
    <2>4. keyold < KeyMax
      <3>1. Slot(O) \in 0 .. KeyMax - 1
        BY <1>8, Ranges
      <3> QED
        BY <1>7, <3>1, Constants
    <2>5. FixedIn = keyold + d
      BY <1>7, <2>1, <2>3, <2>4, Constants DEF FixedIn
    <2> QED
      BY <1>7, <1>8, <1>9, <2>1, <2>4, <2>5, Constants
  <1>12. Settled'
    <2> HIDE DEF E, O
    <2>1. keyin' - keyold' = E' - O' /\ keyin' - keyold' <= KeyMax /\ Slot(keyold') = Slot(O')
      BY <1>7, <1>9, <1>10, <1>11
    <2>2. keyin' < WordMod
      BY <1>9, <1>11, <1>7, Constants DEF FixedIn
    <2> QED
      BY <2>1, <2>2 DEF Settled, E, O, Slot
  <1>13. Called(p)'
    BY <1>1, <1>5, <1>6, InsideFacts DEF Called, Need, Resetting
  <1>14. Inside(p)'
    <2>1. Need(p)' = Need(p)
      BY <1>5, <1>6 DEF Need
    <2>2. keyin' + Need(p)' < WordMod
      BY <1>7, <1>9, <1>11, <2>1, Constants DEF FixedIn
    <2> QED
      BY <1>5, <1>6, <1>7, <1>9, <2>2 DEF Inside, Resetting
  <1>15. Keys' /\ Putting'
    BY <1>1, <1>3, <1>9, <1>12, <1>13, <1>14, InsideStep
  <1> QED
    BY <1>2, <1>15

(* Room is missing only while there is a message to delete, and the cells  *)
(* at keyold are its header.                                               *)
LEMMA OldestHeader ==
  ASSUME RingInv, NEW p \in Putters, put[p].pc = "room", NoRoom(p)
  PROVE  /\ ndel < npub /\ keyin + Need(p) - keyold > KeyMax
         /\ IsStart(ring[Slot(keyold)])
         /\ \A h \in Decode(ring[Slot(keyold + HDR - 1)]) :
              h = HeaderOf(sent[ndel + 1])
         /\ Size(HeaderOf(sent[ndel + 1])) = Size(sent[ndel + 1])
         /\ Word(keyold + Size(sent[ndel + 1])) = keyold + Size(sent[ndel + 1])
         /\ keyold + Size(sent[ndel + 1]) <= keyin
  <1>1. InCS(p)
    BY DEF InCS
  <1> DEFINE k == ndel + 1
             O == EndOf(ndel)
  <1>2. /\ keyin \in Nat /\ keyold \in Nat /\ Need(p) \in Nat \ {0} /\ Need(p) <= KeyMax
        /\ Settled /\ keyin + Need(p) < WordMod
    BY <1>1, InsideFacts DEF Inside
  <1>3. EndOf(npub) \in Nat /\ O \in Nat /\ O <= EndOf(npub) /\ ndel \in Nat /\ npub \in Nat
        /\ ndel <= npub /\ npub <= Len(sent) /\ Len(sent) \in Nat
    BY StreamFacts DEF RingInv
  <1>4. keyin + Need(p) - keyold > KeyMax
    <2>1. keyin + Need(p) - keyold \in 0 .. WordMod - 1
      BY <1>2, <1>3, Constants DEF Settled
    <2>2. Word(keyin + Need(p) - keyold) = keyin + Need(p) - keyold
      BY <2>1, WordSmall
    <2> QED
      BY <2>2 DEF NoRoom
  <1>5. ndel < npub
    <2> SUFFICES ASSUME ndel = npub PROVE FALSE
      BY <1>3
    <2>1. keyin - keyold = EndOf(npub) - EndOf(ndel)
      BY <1>2 DEF Settled
    <2>2. EndOf(npub) = EndOf(ndel) /\ EndOf(npub) \in Nat
      BY <1>3
    <2>3. keyin = keyold
      BY <1>2, <2>1, <2>2
    <2> QED
      BY <1>2, <1>4, <2>3, Constants
  <1>6. k \in 1 .. Len(sent) /\ k \in ndel + 1 .. npub
    BY <1>3, <1>5
  <1>7. /\ sent[k] \in Message /\ sent[k].at = O /\ Size(sent[k]) \in Nat \ {0}
        /\ Size(sent[k]) = HDR + sent[k].len /\ sent[k].len \in Nat
        /\ EndOf(k) = O + Size(sent[k])
    <2>1. k - 1 = ndel
      BY <1>3
    <2> HIDE DEF k
    <2>2. /\ sent[k] \in Message /\ sent[k].at = EndOf(k - 1) /\ Size(sent[k]) \in Nat \ {0}
          /\ Size(sent[k]) = HDR + sent[k].len /\ EndOf(k) = sent[k].at + Size(sent[k])
      BY <1>6, StreamFacts DEF RingInv
    <2> QED
      BY <2>1, <2>2 DEF Message
  <1>8. Slot(O) = Slot(keyold)
    BY <1>2 DEF Settled
  <1>9. \A i \in 0 .. HDR - 1 : ring[Slot(keyold + i)] = <<k, i>>
    <2> SUFFICES ASSUME NEW i \in 0 .. HDR - 1 PROVE ring[Slot(keyold + i)] = <<k, i>>
      OBVIOUS
    <2>1. i \in 0 .. Size(sent[k]) - 1 /\ i \in Nat
      BY <1>7, Constants
    <2>2. ring[Slot(sent[k].at + i)] = <<k, i>>
      BY <1>6, <2>1 DEF RingInv, Stored
    <2>3. Slot(O + i) = Slot(keyold + i)
      BY <1>2, <1>3, <1>8, <2>1, SlotShift
    <2> QED
      BY <1>7, <2>2, <2>3
  <1>10. IsStart(ring[Slot(keyold)])
    <2>1. 0 \in 0 .. HDR - 1 /\ keyold + 0 = keyold
      BY <1>2, Constants
    <2>2. ring[Slot(keyold)] = <<k, 0>>
      BY <1>9, <2>1
    <2>3. k # 0
      BY <1>6
    <2> QED
      BY <2>2, <2>3 DEF IsStart
  <1>11. \A h \in Decode(ring[Slot(keyold + HDR - 1)]) : h = HeaderOf(sent[k])
    <2>1. HDR - 1 \in 0 .. HDR - 1 /\ keyold + (HDR - 1) = keyold + HDR - 1
      BY <1>2, Constants
    <2>2. ring[Slot(keyold + HDR - 1)] = <<k, HDR - 1>>
      BY <1>9, <2>1
    <2>3. k # 0
      BY <1>6
    <2> QED
      BY <2>2, <2>3 DEF Decode, IsFields
  <1>12. Size(HeaderOf(sent[k])) = Size(sent[k])
    BY DEF Size, HeaderOf
  <1>13. keyold + Size(sent[k]) <= keyin
    <2> DEFINE E == EndOf(npub)
               z == Size(sent[k])
    <2>1. EndOf(k) <= E /\ EndOf(k) \in Nat /\ E \in Nat
      <3>1. k \in 0 .. Len(sent) /\ npub \in 0 .. Len(sent) /\ k <= npub
        BY <1>3, <1>6
      <3> HIDE DEF k
      <3> QED
        BY <3>1, StreamFacts DEF RingInv
    <2>2. keyin - keyold = E - O /\ EndOf(k) = O + z /\ z \in Nat
      BY <1>2, <1>7 DEF Settled
    <2> HIDE DEF E, O, z, k
    <2>3. keyold + z <= keyin
      BY <1>2, <1>3, <2>1, <2>2
    <2> QED
      BY <2>3 DEF z
  <1>14. Word(keyold + Size(sent[k])) = keyold + Size(sent[k])
    <2>1. keyold + Size(sent[k]) \in 0 .. WordMod - 1
      BY <1>2, <1>7, <1>13, Constants
    <2> QED
      BY <2>1, WordSmall
  <1> QED
    BY <1>4, <1>5, <1>10, <1>11, <1>12, <1>13, <1>14

(* One turn of the deleting loop drops exactly the oldest message.         *)
LEMMA DeleteEffect ==
  ASSUME RingInv, NEW p \in Putters, Delete(p)
  PROVE  /\ InCS(p) /\ put[p].pc = "room" /\ ndel < npub
         /\ keyin + Need(p) - keyold > KeyMax
         /\ keyold' = keyold + Size(sent[ndel + 1]) /\ ndel' = ndel + 1
         /\ UNCHANGED <<keyin, ring, sem, sent, npub, put>>
  <1>1. put[p].pc = "room" /\ NoRoom(p)
    BY DEF Delete
  <1>2. PICK h \in Decode(ring[Slot(keyold + HDR - 1)]) : keyold' = Word(keyold + Size(h))
    BY <1>1, OldestHeader DEF Delete
  <1>3. h = HeaderOf(sent[ndel + 1])
    BY <1>1, <1>2, OldestHeader
  <1>4. keyold' = keyold + Size(sent[ndel + 1])
    BY <1>1, <1>2, <1>3, OldestHeader
  <1> QED
    BY <1>1, <1>4, OldestHeader DEF Delete, InCS

LEMMA DeleteRing ==
  ASSUME RingInv, NEW p \in Putters, Delete(p)
  PROVE  Stream' /\ Stored' /\ Keys' /\ Putting'
  <1> DEFINE k == ndel + 1
  <1>1. /\ InCS(p) /\ put[p].pc = "room" /\ ndel < npub
        /\ keyold' = keyold + Size(sent[k]) /\ ndel' = k
        /\ UNCHANGED <<keyin, ring, sem, sent, npub, put>>
    BY DeleteEffect
  <1>2. ndel \in Nat /\ npub \in Nat /\ k \in 1 .. Len(sent) /\ k <= npub /\ Len(sent) \in Nat
    BY <1>1, StreamFacts DEF RingInv
  <1>3. Stream'
    BY <1>1, <1>2 DEF RingInv, Stream, EndOf, Size
  <1>4. Stored'
    <2>1. \A j \in ndel' + 1 .. npub : j \in ndel + 1 .. npub
      BY <1>1, <1>2
    <2> QED
      BY <1>1, <2>1 DEF RingInv, Stored, Size, Slot
  <1>5. Settled'
    <2>1. /\ Settled /\ keyin \in Nat /\ keyold \in Nat
          /\ keyin + Need(p) - keyold > KeyMax /\ Need(p) \in Nat /\ Need(p) <= KeyMax
      BY <1>1, InsideFacts, DeleteEffect
    <2> DEFINE z == Size(sent[k])
               O == EndOf(ndel)
               P == EndOf(k)
               E == EndOf(npub)
    <2>2. /\ z \in Nat \ {0} /\ O \in Nat /\ P \in Nat /\ P = O + z /\ E \in Nat
      <3>1. k - 1 = ndel
        BY <1>2
      <3> HIDE DEF k
      <3>2. /\ z \in Nat \ {0} /\ O \in Nat /\ P \in Nat /\ E \in Nat
            /\ P = sent[k].at + z /\ sent[k].at = EndOf(k - 1)
        BY <1>2, StreamFacts DEF RingInv
      <3> QED
        BY <3>1, <3>2
    <2>3. E' = E /\ EndOf(ndel)' = P
      <3>1. sent' = sent /\ npub' = npub /\ ndel' = k
        BY <1>1
      <3> HIDE DEF k
      <3> QED
        BY <3>1 DEF EndOf, Size
    <2>4. keyold' = keyold + z /\ keyin' = keyin
      BY <1>1
    <2>5. keyin - keyold = E - O /\ keyin - keyold <= KeyMax /\ Slot(keyold) = Slot(O)
          /\ keyin < WordMod
      BY <2>1 DEF Settled
    <2> HIDE DEF z, O, P, E, k
    <2>6. Slot(keyold + z) = Slot(O + z)
      BY <2>1, <2>2, <2>5, SlotShift
    <2>7. /\ keyin' - keyold' = E' - P /\ keyin' - keyold' <= KeyMax
          /\ Slot(keyold') = Slot(P) /\ keyin' < WordMod
      BY <2>1, <2>2, <2>3, <2>4, <2>5, <2>6, Constants
    <2> QED
      BY <2>3, <2>7 DEF Settled, E, P, Slot
  <1>6. Called(p)' /\ Inside(p)'
    BY <1>1, InsideFacts DEF Called, Inside, Need, Resetting
  <1>7. put' = [put EXCEPT ![p] = put[p]]
    BY <1>1, InsideFacts
  <1>8. Keys' /\ Putting'
    BY <1>1, <1>5, <1>6, <1>7, InsideStep
  <1> QED
    BY <1>3, <1>4, <1>8

(* The copy writes cells that no message in the ring uses.                 *)
LEMMA CopyRing ==
  ASSUME RingInv, NEW p \in Putters, CopyCell(p)
  PROVE  Stream' /\ Stored' /\ Keys' /\ Putting'
  <1> DEFINE i == put[p].i
             E == EndOf(npub)
             O == EndOf(ndel)
             s == [put[p] EXCEPT !.pc = "copy", !.i = i + 1]
  <1>1. InCS(p) /\ put[p].pc \in {"room", "copy"} /\ i < Need(p)
    BY DEF CopyCell, InCS
  <1>2. /\ keyin \in Nat /\ keyold \in Nat /\ Need(p) \in Nat \ {0} /\ Need(p) <= KeyMax
        /\ Settled /\ keyin + Need(p) < WordMod /\ i \in Nat /\ put[p] \in PutState
        /\ Len(sent) = npub + 1 /\ sent[npub + 1].len = put[p].len
        /\ put[p].pc = "copy" => keyin + Need(p) - keyold <= KeyMax
    BY <1>1, InsideFacts DEF Inside
  <1>3. /\ E \in Nat /\ O \in Nat /\ O <= E /\ ndel \in Nat /\ npub \in Nat
        /\ npub <= Len(sent) /\ Len(sent) \in Nat
    BY StreamFacts DEF RingInv
  <1>4. keyin + Need(p) - keyold <= KeyMax
    <2>1. CASE put[p].pc = "copy"
      BY <1>2, <2>1
    <2>2. CASE put[p].pc = "room"
      <3>0. keyin - keyold = E - O
        BY <1>2 DEF Settled
      <3> HIDE DEF E, O
      <3>1. keyin + Need(p) - keyold \in 0 .. WordMod - 1
        <4>1. keyin + Need(p) - keyold >= 0
          BY <1>2, <1>3, <3>0
        <4>2. WordMod \in Nat /\ keyin + Need(p) - keyold < WordMod
          BY <1>2, Constants
        <4> QED
          BY <1>2, <4>1, <4>2
      <3>2. Word(keyin + Need(p) - keyold) = keyin + Need(p) - keyold
        BY <3>1, WordSmall
      <3>3. ~ NoRoom(p)
        BY <2>2 DEF CopyCell
      <3> QED
        BY <1>2, <3>1, <3>2, <3>3, Constants DEF NoRoom
    <2> QED
      BY <1>1, <2>1, <2>2
  <1>5. /\ UNCHANGED <<keyin, keyold, sem, sent, npub, ndel>>
        /\ ring' = [ring EXCEPT ![Slot(keyin + i)] = <<Len(sent), i>>]
    BY DEF CopyCell
  <1>6. put' = [put EXCEPT ![p] = s]
    BY DEF CopyCell
  <1>7. s.pc = "copy" /\ s.i = i + 1 /\ s.len = put[p].len /\ s.logo = put[p].logo
    <2> DEFINE j == i + 1
    <2>1. j \in Nat
      BY <1>2
    <2> HIDE DEF j
    <2>2. /\ [put[p] EXCEPT !.pc = "copy", !.i = j].pc = "copy"
          /\ [put[p] EXCEPT !.pc = "copy", !.i = j].i = j
          /\ [put[p] EXCEPT !.pc = "copy", !.i = j].len = put[p].len
          /\ [put[p] EXCEPT !.pc = "copy", !.i = j].logo = put[p].logo
      BY <1>2 DEF PutState
    <2> QED
      BY <2>2 DEF j
  <1> HIDE DEF s
  <1>8. put'[p] = s
    BY <1>1, <1>6, OthersStay
  <1>9. Stream'
    BY <1>5 DEF RingInv, Stream, EndOf, Size
  <1>9a. Slot(keyin + i) = Slot(E + i)
    <2> DEFINE d == E - O + i
    <2>1. keyin - keyold = E - O /\ Slot(keyold) = Slot(O) /\ i \in Nat
      BY <1>2 DEF Settled
    <2> HIDE DEF E, O, i
    <2>2. keyin + i = keyold + d /\ E + i = O + d /\ d \in Nat
      BY <1>2, <1>3, <2>1
    <2> HIDE DEF d
    <2>3. Slot(keyold + d) = Slot(O + d)
      BY <1>2, <1>3, <2>1, <2>2, SlotShift
    <2> QED
      BY <2>2, <2>3
  <1>10. Stored'
    <2>2. ASSUME NEW k \in ndel + 1 .. npub, NEW j \in 0 .. Size(sent[k]) - 1
          PROVE  ring'[Slot(sent[k].at + j)] = <<k, j>>
      <3> DEFINE a == sent[k].at + j
      <3>1. k \in 1 .. Len(sent) /\ k - 1 \in ndel .. Len(sent)
        BY <1>3
      <3>2. /\ sent[k].at \in Nat /\ Size(sent[k]) \in Nat \ {0}
            /\ EndOf(k) = sent[k].at + Size(sent[k]) /\ sent[k].at = EndOf(k - 1)
            /\ EndOf(k) <= E /\ O <= EndOf(k - 1)
        <4>1. npub \in 0 .. Len(sent) /\ ndel \in 0 .. Len(sent) /\ k - 1 \in 0 .. Len(sent)
          BY <1>3, <3>1
        <4>2. k \in 0 .. Len(sent) /\ k <= npub /\ ndel <= k - 1
          BY <1>3, <3>1
        <4> HIDE DEF a
        <4>3. EndOf(k) <= EndOf(npub) /\ EndOf(ndel) <= EndOf(k - 1)
          BY <4>1, <4>2, StreamFacts DEF RingInv
        <4> QED
          BY <3>1, <4>3, StreamFacts DEF RingInv
      <3>3. a \in Nat /\ O <= a /\ a < E /\ j \in Nat
        BY <1>3, <3>2
      <3>4. E + i \in Nat /\ a < E + i /\ (E + i) - a < KeyMax
        <4>1. keyin - keyold = E - O
          BY <1>2 DEF Settled
        <4> DEFINE N == Need(p)
        <4>2. N \in Nat /\ i \in Nat /\ i < N /\ keyin + N - keyold <= KeyMax
          BY <1>1, <1>2, <1>4
        <4> HIDE DEF a, E, O, i, N
        <4> QED
          BY <1>2, <1>3, <3>3, <4>1, <4>2, Constants
      <3> HIDE DEF a
      <3>5. Slot(a) # Slot(E + i)
        BY <3>3, <3>4, SlotsDiffer
      <3>6. ring[Slot(a)] = <<k, j>>
        BY DEF a, RingInv, Stored
      <3>7. ring \in [0 .. KeyMax - 1 -> Cells] /\ Slot(a) \in 0 .. KeyMax - 1
        BY <3>3, Ranges DEF RingInv, TypeOK, RingTypes
      <3>8. ring'[Slot(a)] = ring[Slot(a)]
        BY <1>5, <1>9a, <3>5, <3>7
      <3> QED
        BY <3>6, <3>8 DEF a
    <2> QED
      BY <1>5, <2>2 DEF Stored, Size, Slot
  <1>11. Settled'
    BY <1>2, <1>5 DEF Settled, EndOf, Size, Slot
  <1>12. Need(p)' = Need(p)
    BY <1>7, <1>8 DEF Need
  <1>13. Called(p)'
    <2>1. Called(p)
      BY <1>1, InsideFacts
    <2>2. i + 1 <= Need(p)
      BY <1>1, <1>2
    <2> QED
      BY <1>1, <1>7, <1>8, <1>12, <2>1, <2>2 DEF Called
  <1>14a. \A j \in 0 .. i : ring'[Slot(E + j)] = <<npub + 1, j>>
    <2> SUFFICES ASSUME NEW j \in 0 .. i PROVE ring'[Slot(E + j)] = <<npub + 1, j>>
      OBVIOUS
    <2>1. /\ ring \in [0 .. KeyMax - 1 -> Cells] /\ j \in Nat /\ E + j \in Nat
          /\ E + i \in Nat /\ Slot(E + i) \in 0 .. KeyMax - 1
      <3>1. j \in Nat /\ i \in Nat /\ E \in Nat
        BY <1>2, <1>3
      <3>2. ring \in [0 .. KeyMax - 1 -> Cells]
        BY DEF RingInv, TypeOK, RingTypes
      <3> HIDE DEF E, i
      <3>3. E + j \in Nat /\ E + i \in Nat
        BY <3>1
      <3> QED
        BY <3>1, <3>2, <3>3, Ranges
    <2>2. CASE j = i
      BY <1>2, <1>5, <1>9a, <2>1, <2>2
    <2>3. CASE j # i
      <3>1. j \in 0 .. i - 1 /\ i # 0 /\ j < i
        BY <1>2, <2>1, <2>3
      <3>2. put[p].pc = "copy"
        BY <1>1, <3>1, InsideFacts DEF Called
      <3>3. ring[Slot(E + j)] = <<npub + 1, j>>
        BY <1>1, <3>1, <3>2, InsideFacts DEF Inside
      <3>4. Slot(E + j) # Slot(E + i)
        <4> DEFINE x == E + j
                   y == E + i
        <4> DEFINE N == Need(p)
        <4>0. N \in Nat /\ N <= KeyMax /\ i < N /\ i \in Nat /\ j < i /\ j \in Nat /\ E \in Nat
          BY <1>1, <1>2, <1>3, <2>1, <3>1
        <4> HIDE DEF N, E, i
        <4>1. x \in Nat /\ y \in Nat /\ x < y /\ y - x < KeyMax
          BY <4>0, Constants
        <4> HIDE DEF x, y
        <4>2. Slot(x) # Slot(y)
          BY <4>1, SlotsDiffer
        <4> QED
          BY <4>2 DEF x, y
      <3>5. Slot(E + j) \in 0 .. KeyMax - 1
        BY <2>1, Ranges
      <3> QED
        BY <1>5, <1>9a, <2>1, <3>3, <3>4, <3>5
    <2> QED
      BY <2>2, <2>3
  <1>14. Inside(p)'
    <2>1. (i + 1) - 1 = i /\ E' = E
      BY <1>2, <1>5 DEF EndOf, Size
    <2>2. \A j \in 0 .. put'[p].i - 1 : ring'[Slot(E' + j)] = <<npub + 1, j>>
      BY <1>7, <1>8, <1>14a, <2>1
    <2> QED
    BY <2>2, <1>2, <1>4, <1>5, <1>7, <1>8, <1>12 DEF Inside, Resetting, Slot
  <1>15. Keys' /\ Putting'
    BY <1>1, <1>5, <1>6, <1>7, <1>11, <1>13, <1>14, InsideStep
  <1> QED
    BY <1>9, <1>10, <1>15

(* Publishing makes the copied message the newest of the ring.             *)
LEMMA PublishRing ==
  ASSUME RingInv, NEW p \in Putters, Publish(p)
  PROVE  Stream' /\ Stored' /\ Keys' /\ Putting'
  <1> DEFINE n == npub + 1
             E == EndOf(npub)
             O == EndOf(ndel)
             F == EndOf(n)
             N == Need(p)
             s == [put[p] EXCEPT !.pc = "free"]
  <1>1. InCS(p) /\ put[p].pc = "copy" /\ put[p].i = N
    BY DEF Publish, InCS
  <1>0. \A j \in 0 .. N - 1 : ring[Slot(E + j)] = <<n, j>>
    BY <1>1, InsideFacts DEF Inside
  <1>2. /\ keyin \in Nat /\ keyold \in Nat /\ N \in Nat \ {0} /\ N <= KeyMax
        /\ Settled /\ keyin + N < WordMod /\ put[p] \in PutState
        /\ Len(sent) = n /\ sent[n].len = put[p].len /\ N = HDR + put[p].len
        /\ keyin + N - keyold <= KeyMax
    BY <1>1, InsideFacts DEF Inside
  <1>3. /\ E \in Nat /\ O \in Nat /\ ndel \in Nat /\ npub \in Nat /\ ndel <= npub
        /\ F \in Nat /\ F = E + N
    <2>1. /\ E \in Nat /\ O \in Nat /\ ndel \in Nat /\ npub \in Nat /\ ndel <= npub
      BY StreamFacts DEF RingInv
    <2>2. n \in 1 .. Len(sent) /\ n - 1 = npub /\ n \in 0 .. Len(sent)
      BY <1>2, <2>1
    <2> HIDE DEF n
    <2>3. /\ F = sent[n].at + Size(sent[n]) /\ sent[n].at = EndOf(n - 1)
          /\ Size(sent[n]) = HDR + sent[n].len /\ F \in Nat
      BY <2>2, StreamFacts DEF RingInv
    <2> QED
      BY <1>2, <2>1, <2>2, <2>3
  <1>4. /\ UNCHANGED <<keyold, ring, sem, sent, ndel>> /\ npub' = n
        /\ keyin' = keyin + N
    <2>1. keyin + N \in 0 .. WordMod - 1
      <3>1. keyin \in Nat /\ N \in Nat /\ keyin + N < WordMod
        BY <1>2
      <3> HIDE DEF N
      <3> QED
        BY <3>1, Constants
    <2>2. Word(keyin + N) = keyin + N
      BY <2>1, WordSmall
    <2> QED
      BY <2>2 DEF Publish
  <1>5. put' = [put EXCEPT ![p] = s]
    BY DEF Publish, Goto
  <1>6. s.pc = "free" /\ s.len = put[p].len /\ s.logo = put[p].logo
    BY <1>2 DEF PutState
  <1> HIDE DEF s
  <1>7. put'[p] = s
    BY <1>1, <1>5, OthersStay
  <1>8. Stream'
    <2>1. ndel <= npub' /\ npub' <= Len(sent) /\ Len(sent) <= npub' + 1 
      BY <1>2, <1>3, <1>4
    <2> QED
      BY <1>4, <2>1 DEF RingInv, Stream, EndOf, Size
  <1>8a. Stored'
    <2>1. ASSUME NEW k \in ndel + 1 .. npub', NEW i \in 0 .. Size(sent[k]) - 1
          PROVE  ring[Slot(sent[k].at + i)] = <<k, i>>
      <3>1. CASE k = n
        <4>1. n \in 1 .. Len(sent) /\ n - 1 = npub
          BY <1>2, <1>3
        <4> HIDE DEF n
        <4>2. sent[n].at = E /\ Size(sent[n]) = N
          BY <1>2, <4>1, StreamFacts DEF RingInv
        <4> QED
          BY <1>0, <2>1, <3>1, <4>2
      <3>2. CASE k # n
        <4>1. k \in ndel + 1 .. npub
          BY <1>3, <1>4, <3>2
        <4> QED
          BY <4>1 DEF RingInv, Stored
      <3> QED
        BY <3>1, <3>2
    <2> QED
      BY <1>4, <2>1 DEF Stored, Size, Slot
  <1>9. Settled'
    <2>1. EndOf(npub)' = F /\ EndOf(ndel)' = O
      BY <1>4 DEF EndOf, Size
    <2>2. keyin - keyold = E - O /\ Slot(keyold) = Slot(O) /\ keyold' = keyold
      BY <1>2, <1>4 DEF Settled
    <2>2a. /\ keyin \in Nat /\ keyold \in Nat /\ N \in Nat /\ keyin + N < WordMod
           /\ keyin + N - keyold <= KeyMax /\ keyin' = keyin + N /\ F = E + N
           /\ E \in Nat /\ O \in Nat
      BY <1>2, <1>3, <1>4
    <2> HIDE DEF E, O, F, N, n
    <2>3. /\ keyin' - keyold' = F - O /\ keyin' - keyold' <= KeyMax /\ keyin' < WordMod
          /\ Slot(keyold') = Slot(O)
      BY <2>2a, <2>2, Constants
    <2> QED
      BY <2>1, <2>3 DEF Settled, Slot
  <1>10. Called(p)'
    BY <1>1, <1>6, <1>7, InsideFacts DEF Called, Need
  <1>11. Inside(p)'
    BY <1>2, <1>3, <1>4, <1>6, <1>7 DEF Inside, Resetting
  <1>12. Keys' /\ Putting'
    BY <1>1, <1>4, <1>5, <1>6, <1>9, <1>10, <1>11, InsideStep
  <1> QED
    BY <1>8, <1>8a, <1>12

(* What was copied is what is published.                                   *)
LEMMA ReleaseRing ==
  ASSUME RingInv, NEW p \in Putters, Release(p)
  PROVE  Stream' /\ Stored' /\ Keys' /\ Putting'
  <1>1. InCS(p) /\ put[p].pc = "free"
    BY DEF Release, InCS
  <1>2. Settled /\ Inside(p)
    BY <1>1, InsideFacts
  <1>3. /\ UNCHANGED <<keyin, keyold, ring, sent, npub, ndel>> /\ sem' = 1
        /\ put' = [put EXCEPT ![p] = IdlePut]
    BY DEF Release, SemUp
  <1>4. Stream' /\ Stored'
    BY <1>3 DEF RingInv, Stream, Stored, EndOf, Size, Slot
  <1>5. /\ put'[p] = IdlePut
        /\ \A q \in Putters : q # p => Called(q)' /\ Inside(q)'
    BY <1>1, <1>3, OthersStay
  <1>6. Called(p)' /\ Inside(p)'
    BY <1>5 DEF Called, Inside, Resetting, IdlePut
  <1>7. Settled'
    BY <1>2, <1>3 DEF Settled, EndOf, Size, Slot
  <1>8. Keys'
    BY <1>1, <1>2, <1>3, <1>7 DEF Keys, Inside
  <1> QED
    BY <1>4, <1>5, <1>6, <1>8 DEF Putting

(* Whoever takes the semaphore is alone inside, and finds the keys settled *)
(* and, unless nothing was ever put, a message in the ring.                *)
LEMMA AcquireRing ==
  ASSUME RingInv, NEW p \in Putters, Acquire(p)
  PROVE  Stream' /\ Stored' /\ Keys' /\ Putting'
  <1>1. /\ sem = 1 /\ sem' = 0 /\ put[p].pc = "wait"
        /\ UNCHANGED <<keyin, keyold, ring, npub, ndel>>
    BY DEF Acquire, SemDown
  <1>2. \A q \in Putters : ~ InCS(q)
    BY <1>1 DEF RingInv, MutualExclusion
  <1>3. Settled /\ Len(sent) = npub /\ (ndel < npub \/ Fresh)
    BY <1>1 DEF RingInv, Keys, KeysSettled
  <1>4. put \in [Putters -> PutState] /\ put[p] \in PutState /\ put[p].len \in Nat
    BY DEF RingInv, TypeOK, PutTypes, PutState
  <1>5. Called(p)
    BY DEF RingInv, Putting
  <1>6. CASE CanTrack(p)
    <2> DEFINE n == npub + 1
               s == [put[p] EXCEPT !.pc = "wrapin"]
    <2>1. put' = [put EXCEPT ![p] = s] /\ Stamp(p)
      BY <1>6 DEF Acquire, Goto
    <2>2. PICK m : sent' = Append(sent, m) /\ m.len = put[p].len /\ m.at = EndOf(Len(sent))
      BY <2>1 DEF Stamp
    <2>3. /\ npub \in Nat /\ ndel \in Nat /\ ndel <= npub /\ sent \in Seq(Message)
          /\ sent' \in Seq(Message)
      <3>1. \E x \in Message : sent' = Append(sent, x)
        BY <1>1, <1>6, <2>1, StampTypes DEF RingInv
      <3> QED
        BY <3>1, StreamFacts DEF RingInv, TypeOK, RingTypes
    <2>4. /\ Len(sent') = n /\ sent'[n] = m
          /\ \A k \in 1 .. npub : sent'[k] = sent[k]
      BY <1>3, <2>2, <2>3
    <2>5. \A k \in 0 .. npub : EndOf(k)' = EndOf(k)
      BY <2>3, <2>4 DEF EndOf, Size
    <2>6. Stream'
      <3>1. \A k \in 1 .. npub : /\ sent[k].at = EndOf(k - 1)
                                 /\ sent[k].len \in Lens /\ Size(sent[k]) <= KeyMax
        BY <1>3 DEF RingInv, Stream
      <3>2. put[p].len \in Lens /\ HDR + put[p].len <= KeyMax
        BY <1>1, <1>5 DEF Called, Need
      <3>3. ASSUME NEW k \in 1 .. n
            PROVE  /\ sent'[k].at = EndOf(k - 1)'
                   /\ sent'[k].len \in Lens /\ Size(sent[k])' <= KeyMax
        <4>1. CASE k = n
          <5>1. k - 1 = npub /\ k - 1 \in 0 .. npub
            BY <2>3, <4>1
          <5>2. EndOf(k - 1)' = EndOf(k - 1)
            BY <2>5, <5>1
          <5>3. sent'[n].at = EndOf(npub) /\ sent'[n].len = put[p].len
            BY <1>3, <2>2, <2>4
          <5> HIDE DEF n
          <5> QED
            BY <3>2, <4>1, <5>1, <5>2, <5>3 DEF Size
        <4>2. CASE k # n
          <5>1. k \in 1 .. npub /\ k - 1 \in 0 .. npub
            BY <2>3, <4>2
          <5>2. sent'[k] = sent[k] /\ EndOf(k - 1)' = EndOf(k - 1)
            BY <2>4, <2>5, <5>1
          <5> QED
            BY <3>1, <5>1, <5>2 DEF Size
        <4> QED
          BY <4>1, <4>2
      <3>4. ASSUME NEW j \in 1 .. n, NEW k \in 1 .. n, j < k
            PROVE  EndOf(j)' <= sent'[k].at
        <4>1. j \in 1 .. npub /\ j \in 0 .. npub
          BY <2>3, <3>4
        <4>2. EndOf(j)' = EndOf(j) /\ EndOf(j) <= EndOf(npub)
          BY <1>3, <2>5, <2>3, <4>1, StreamFacts DEF RingInv
        <4>3. CASE k = n
          <5>1. sent'[n].at = EndOf(npub)
            BY <1>3, <2>2, <2>4
          <5> HIDE DEF n
          <5> QED
            BY <4>2, <4>3, <5>1
        <4>4. CASE k # n
          <5>1. k \in 1 .. npub
            BY <2>3, <4>4
          <5>2. EndOf(j) <= sent[k].at
            BY <1>3, <3>4, <4>1, <5>1, StreamFacts DEF RingInv
          <5> QED
            BY <2>4, <4>2, <5>1, <5>2
        <4> QED
          BY <4>3, <4>4
      <3>5. ndel <= npub /\ npub <= n /\ n <= npub + 1
        BY <2>3
      <3> HIDE DEF n
      <3> QED
        BY <1>1, <2>4, <3>3, <3>4, <3>5 DEF Stream
    <2>7. Stored'
      <3>1. \A k \in ndel + 1 .. npub : sent'[k] = sent[k]
        BY <2>3, <2>4
      <3> QED
        BY <1>1, <3>1 DEF RingInv, Stored, Size, Slot
    <2>8. EndOf(npub)' = EndOf(npub) /\ EndOf(ndel)' = EndOf(ndel)
      BY <1>1, <2>3, <2>5
    <2>9. Settled'
      BY <1>1, <1>3, <2>8 DEF Settled, Slot
    <2>10. /\ put'[p] = s /\ s.pc = "wrapin" /\ s.len = put[p].len /\ s.i = put[p].i
           /\ s.logo = put[p].logo
      BY <1>4, <2>1 DEF PutState
    <2>11. \A q \in Putters : q # p => put'[q] = put[q]
      BY <1>4, <2>1
    <2> HIDE DEF s
    <2>12. Called(p)' /\ Inside(p)'
      <3>1. Called(p)'
        BY <1>1, <1>5, <2>10 DEF Called, Need
      <3>2. Inside(p)'
        BY <1>1, <1>3, <2>2, <2>4, <2>10 DEF Inside, Resetting, Fresh
      <3> QED
        BY <3>1, <3>2
    <2>13. \A q \in Putters : q # p => Called(q)' /\ Inside(q)'
      BY <1>2, <2>11 DEF RingInv, Putting, Called, Inside, Resetting, Need, InCS
    <2> QED
      BY <1>1, <2>6, <2>7, <2>9, <2>12, <2>13 DEF Keys, Putting
  <1>7. CASE ~ CanTrack(p)
    <2>1. put' = [put EXCEPT ![p] = IdlePut] /\ sent' = sent
      BY <1>7 DEF Acquire
    <2>2. put'[p] = IdlePut /\ \A q \in Putters : q # p => put'[q] = put[q]
      BY <1>4, <2>1
    <2>3. Stream' /\ Stored'
      BY <1>1, <2>1 DEF RingInv, Stream, Stored, EndOf, Size, Slot
    <2>4. Called(p)' /\ Inside(p)' /\ ~ InCS(p)'
      BY <2>2 DEF Called, Inside, Resetting, IdlePut, InCS
    <2>5. \A q \in Putters : q # p => Called(q)' /\ Inside(q)' /\ ~ InCS(q)'
      BY <1>2, <2>2 DEF RingInv, Putting, Called, Inside, Resetting, Need, InCS
    <2>6. ~ KeysSettled'
      BY <1>1, <2>4, <2>5 DEF KeysSettled, InCS
    <2> QED
      BY <1>1, <2>3, <2>4, <2>5, <2>6 DEF Keys, Putting
  <1> QED
    BY <1>6, <1>7

LEMMA StepRing == RingInv /\ [Next]_vars => RingInv'
  <1> SUFFICES ASSUME RingInv, [Next]_vars PROVE RingInv'
    OBVIOUS
  <1>1. TypeOK' /\ MutualExclusion'
    BY StepTypes, StepExclusion DEF RingInv
  <1>2. ASSUME NEW p \in Putters,
               PutCall(p) \/ Acquire(p) \/ PutStep(p) \/ Kill(p) \/ Restart(p)
        PROVE  Stream' /\ Stored' /\ Keys' /\ Putting'
    BY <1>2, PutCallRing, AcquireRing, WrapInRing, WrapOldRing, WrapFixRing, DeleteRing,
       CopyRing, PublishRing, ReleaseRing, KillRing, RestartRing DEF PutStep
  <1>3. ASSUME UNCHANGED putVars PROVE Stream' /\ Stored' /\ Keys' /\ Putting'
    <2>1. UNCHANGED <<keyin, keyold, ring, sem, put, sent, npub, ndel>>
      BY <1>3 DEF putVars
    <2>2. Stream' /\ Stored'
      BY <2>1 DEF RingInv, Stream, Stored, EndOf, Size, Slot
    <2>3. Keys'
      BY <2>1 DEF RingInv, Keys, KeysSettled, Settled, Fresh, EndOf, Size, Slot
    <2>4. Putting'
      BY <2>1
      DEF RingInv, Putting, Called, Inside, Resetting, Need, EndOf, Size, Fresh, Slot
    <2> QED
      BY <2>2, <2>3, <2>4
  <1>4. \/ \E p \in Putters :
             PutCall(p) \/ Acquire(p) \/ PutStep(p) \/ Kill(p) \/ Restart(p)
        \/ UNCHANGED putVars
    BY GetterFrame DEF Next, vars, putVars
  <1> QED
    BY <1>1, <1>2, <1>3, <1>4 DEF RingInv

(* Between its keys the ring holds whole messages, each where the one      *)
(* before it ended, whatever putters do and wherever they are killed, over *)
(* any number of laps and key resets; no putter ever finds keyold away     *)
(* from a message ("keyold not at FIRST_BYTE").                            *)
THEOREM RingHoldsMessages == Spec => []RingIntact
  BY InitRing, StepRing, RingInvIntact, PTL DEF Spec

-----------------------------------------------------------------------------
(***************************************************************************)
(* Without a key reset the keys are stream offsets, which putters only raise. *)
(***************************************************************************)

(* So few bytes were put that the keys did not have to be reset.           *)
KeysFit == EndOf(Len(sent)) < WordMod

(* Any two messages fit the ring together, so that making room never       *)
(* empties it.                                                             *)
TwoFit == \A m, n \in Lens : (HDR + m) + (HDR + n) <= KeyMax

(* Then the keys are the stream offsets themselves.                        *)
Plain ==
  /\ keyin = EndOf(npub) /\ keyold = EndOf(ndel)
  /\ npub > 0 => ndel < npub
  /\ \A p \in Putters : put[p].pc \notin Resetting

(* The history of what was put only grows.                                 *)
LEMMA SentGrows ==
  ASSUME RingInv, [Next]_vars
  PROVE  /\ Len(sent') \in {Len(sent), Len(sent) + 1} /\ Len(sent) \in Nat
         /\ \A k \in 1 .. Len(sent) : sent'[k] = sent[k]
         /\ \A k \in 0 .. Len(sent) : EndOf(k)' = EndOf(k)
  <1>1. /\ Len(sent') \in {Len(sent), Len(sent) + 1} /\ Len(sent) \in Nat
        /\ \A k \in 1 .. Len(sent) : sent'[k] = sent[k]
    <2>1. CASE sent' = sent
      BY <2>1, StreamFacts DEF RingInv
    <2>2. ASSUME NEW m \in Message, sent' = Append(sent, m)
          PROVE  /\ Len(sent') \in {Len(sent), Len(sent) + 1} /\ Len(sent) \in Nat
                 /\ \A k \in 1 .. Len(sent) : sent'[k] = sent[k]
      <3>1. sent \in Seq(Message)
        BY DEF RingInv, TypeOK, RingTypes
      <3> QED
        BY <2>2, <3>1
    <2>3. ASSUME NEW p \in Putters, Acquire(p)
          PROVE  sent' = sent \/ \E m \in Message : sent' = Append(sent, m)
      <3>1. CASE CanTrack(p)
        BY <2>3, <3>1, StampTypes DEF Acquire, RingInv
      <3>2. CASE ~ CanTrack(p)
        BY <2>3, <3>2 DEF Acquire
      <3> QED
        BY <3>1, <3>2
    <2>4. sent' = sent \/ \E m \in Message : sent' = Append(sent, m)
      <3>1. ASSUME NEW p \in Putters, PutCall(p) \/ PutStep(p) \/ Kill(p) \/ Restart(p)
            PROVE  sent' = sent
        BY <3>1 DEF PutCall, PutStep, Kill, Restart, WrapIn, WrapOld, WrapFix, Delete, CopyCell,
                    Publish, Release
      <3>2. ASSUME NEW g \in Getters, GetCall(g) \/ GetStep(g) PROVE sent' = sent
        BY <3>2, GetterFrame DEF putVars
      <3> QED
        BY <2>3, <3>1, <3>2 DEF Next, vars
    <2> QED
      BY <2>1, <2>2, <2>4
  <1>2. \A k \in 0 .. Len(sent) : EndOf(k)' = EndOf(k)
    BY <1>1 DEF EndOf, Size
  <1> QED
    BY <1>1, <1>2

LEMMA FitBefore ==
  ASSUME RingInv, [Next]_vars, RingInv', KeysFit'
  PROVE  KeysFit
  <1> DEFINE n == Len(sent)
  <1>1. PICK m \in {n, n + 1} : m = Len(sent')
    BY SentGrows
  <1>2. /\ n \in Nat /\ EndOf(n) \in Nat
        /\ \A k \in 1 .. n : sent'[k] = sent[k]
        /\ \A k \in 0 .. n : EndOf(k)' = EndOf(k)
    BY SentGrows, StreamFacts DEF RingInv
  <1>3. (IF m = 0 THEN 0 ELSE sent'[m].at + (HDR + sent'[m].len)) < WordMod
    BY <1>1 DEF KeysFit, EndOf, Size
  <1>4. CASE m = n
    <2>1. EndOf(n) = IF n = 0 THEN 0 ELSE sent[n].at + (HDR + sent[n].len)
      BY DEF EndOf, Size
    <2> HIDE DEF n
    <2>2. n # 0 => sent'[n] = sent[n]
      BY <1>2
    <2>3. EndOf(n) < WordMod
      BY <1>3, <1>4, <2>1, <2>2
    <2> QED
      BY <2>3 DEF KeysFit, n
  <1>5. CASE m = n + 1
    <2>1. m \in 1 .. Len(sent') /\ m - 1 = n /\ n \in 0 .. n
      BY <1>1, <1>2, <1>5
    <2>2. sent'[m].at = EndOf(m - 1)' /\ sent'[m].len \in Lens
      BY <2>1 DEF RingInv, Stream
    <2>3. EndOf(m - 1)' = EndOf(m - 1)
      BY <1>2, <2>1
    <2>4. sent'[m].len \in Nat /\ m # 0
      <3>1. sent'[m].len \in Nat
        BY <2>2, TransportAssumption DEF TransportAssumption
      <3> HIDE DEF n
      <3> QED
        BY <1>2, <1>5, <3>1
    <2>5. EndOf(n) < WordMod
      BY <1>2, <1>3, <2>1, <2>2, <2>3, <2>4, Constants
    <2> QED
      BY <2>5 DEF KeysFit
  <1> QED
    BY <1>1, <1>4, <1>5

(* The message being put will end where its copy does.                     *)
LEMMA NextEnd ==
  ASSUME RingInv, NEW p \in Putters, put[p].pc \in {"wrapin", "wrapold", "wrapfix", "room", "copy"}
  PROVE  /\ Len(sent) = npub + 1 /\ npub \in Nat /\ EndOf(npub) \in Nat
         /\ EndOf(npub + 1) = EndOf(npub) + Need(p) /\ Need(p) \in Nat \ {0}
         /\ sent[npub + 1].at = EndOf(npub) /\ Size(sent[npub + 1]) = Need(p)
  <1> DEFINE n == npub + 1
             E == EndOf(npub)
  <1>1. InCS(p)
    BY DEF InCS
  <1>2. /\ Need(p) \in Nat \ {0} /\ Need(p) = HDR + put[p].len
        /\ Len(sent) = n /\ sent[n].len = put[p].len
    BY <1>1, InsideFacts DEF Inside
  <1>3. npub \in Nat /\ E \in Nat
    BY StreamFacts DEF RingInv
  <1>4. n \in 1 .. Len(sent) /\ n - 1 = npub
    BY <1>2, <1>3
  <1>5. EndOf(n) = E + Need(p) /\ sent[n].at = E /\ Size(sent[n]) = Need(p)
    <2> HIDE DEF n
    <2>1. /\ EndOf(n) = sent[n].at + Size(sent[n]) /\ sent[n].at = EndOf(n - 1)
          /\ Size(sent[n]) = HDR + sent[n].len
      BY <1>4, StreamFacts DEF RingInv
    <2> QED
      BY <1>2, <1>4, <2>1
  <1> QED
    BY <1>2, <1>3, <1>5

(* With plain keys no putter resets them.                                  *)
LEMMA PlainRoom ==
  ASSUME RingInv, KeysFit, Plain, NEW p \in Putters, WrapIn(p)
  PROVE  UNCHANGED keyin /\ Goto(p, "room")
  <1>1. InCS(p) /\ put[p].pc = "wrapin"
    BY DEF WrapIn, InCS
  <1> DEFINE N == Need(p)
             n == npub + 1
             E == EndOf(npub)
             F == EndOf(n)
  <1>2. /\ keyin \in Nat /\ keyold \in Nat /\ N \in Nat \ {0}
        /\ Len(sent) = n /\ keyin - keyold = EndOf(npub) - EndOf(ndel) /\ F = E + N
    BY <1>1, InsideFacts, NextEnd DEF Settled
  <1>5. keyin = E /\ F < WordMod
    BY <1>2 DEF Plain, KeysFit
  <1>6. keyin + N \in 0 .. WordMod - 1
    <2> HIDE DEF N, E, F
    <2> QED
      BY <1>2, <1>5, Constants
  <1>7. Word(keyin + N) = keyin + N
    BY <1>6, WordSmall
  <1>8. keyold <= keyin
    <2>1. EndOf(ndel) <= E /\ EndOf(ndel) \in Nat /\ E \in Nat
      BY StreamFacts DEF RingInv
    <2> HIDE DEF E
    <2> QED
      BY <1>2, <1>5, <2>1 DEF Plain
  <1>9. ~ (Word(keyin + N) < keyold)
    <2> HIDE DEF N
    <2> QED
      BY <1>2, <1>7, <1>8
  <1> QED
    BY <1>9 DEF WrapIn

(* What a step of a putter does to the ring, as the getters see it.        *)
LEMMA PutterEffect ==
  ASSUME RingInv, RingInv', KeysFit, Plain, TwoFit, NEW p \in Putters,
         PutCall(p) \/ Acquire(p) \/ PutStep(p) \/ Kill(p) \/ Restart(p)
  PROVE  /\ UNCHANGED getVars /\ Plain' /\ npub <= npub' /\ ndel <= ndel' /\ keyold <= keyold'
  <1>0. /\ ndel \in Nat /\ npub \in Nat /\ keyold \in Nat /\ put \in [Putters -> PutState]
        /\ Len(sent) \in Nat /\ ndel <= npub /\ npub <= Len(sent)
    BY StreamFacts DEF RingInv, TypeOK, RingTypes, PutTypes
  <1>1. ASSUME UNCHANGED <<keyin, keyold, npub, ndel, getVars>>, [Next]_vars,
               NEW s, put' = [put EXCEPT ![p] = s], s.pc \notin Resetting
        PROVE  /\ UNCHANGED getVars /\ Plain' /\ npub <= npub' /\ ndel <= ndel'
               /\ keyold <= keyold'
    <2>1. EndOf(npub)' = EndOf(npub) /\ EndOf(ndel)' = EndOf(ndel)
      <3>1. npub \in 0 .. Len(sent) /\ ndel \in 0 .. Len(sent)
        BY <1>0
      <3>2. \A k \in 0 .. Len(sent) : EndOf(k)' = EndOf(k)
        BY <1>1, SentGrows
      <3> QED
        BY <1>1, <3>1, <3>2 DEF EndOf
    <2>2. \A q \in Putters : put'[q].pc \notin Resetting
      BY <1>0, <1>1 DEF Plain
    <2> QED
      BY <1>0, <1>1, <2>1, <2>2 DEF Plain
  <1>2. [Next]_vars
    BY DEF Next
  <1>3. CASE PutCall(p) \/ Acquire(p) \/ Release(p) \/ Kill(p) \/ Restart(p)
    <2>1. UNCHANGED <<keyin, keyold, npub, ndel, getVars>>
      BY <1>3 DEF PutCall, Acquire, Release, Kill, Restart
    <2>2. \E s : put' = [put EXCEPT ![p] = s] /\ s.pc \notin Resetting
      <3>1. CASE PutCall(p)
        <4>1. PICK l \in PutLogos[p], n \in Lens, x \in Looks :
                put' = [put EXCEPT ![p] = [pc |-> "wait", logo |-> l, len |-> n, looks |-> x,
                                           i |-> 0]]
          BY <3>1 DEF PutCall
        <4> DEFINE s == [pc |-> "wait", logo |-> l, len |-> n, looks |-> x, i |-> 0]
        <4>2. put' = [put EXCEPT ![p] = s] /\ s.pc \notin Resetting
          BY <4>1 DEF Resetting
        <4> HIDE DEF s
        <4> QED
          BY <4>2
      <3>2. CASE Acquire(p)
        <4> DEFINE s == [put[p] EXCEPT !.pc = "wrapin"]
        <4>1. put' = [put EXCEPT ![p] = s] \/ put' = [put EXCEPT ![p] = IdlePut]
          BY <3>2 DEF Acquire, Goto
        <4>2. s.pc \notin Resetting /\ IdlePut.pc \notin Resetting
          BY <1>0 DEF PutState, Resetting, IdlePut
        <4> QED
          BY <4>1, <4>2
      <3>3. CASE Release(p) \/ Restart(p)
        <4>1. put' = [put EXCEPT ![p] = IdlePut] /\ IdlePut.pc \notin Resetting
          BY <3>3 DEF Release, Restart, IdlePut, Resetting
        <4> QED
          BY <4>1
      <3>4. CASE Kill(p)
        <4> DEFINE s == [IdlePut EXCEPT !.pc = "dead"]
        <4>1. put' = [put EXCEPT ![p] = s] /\ s.pc \notin Resetting
          BY <3>4 DEF Kill, IdlePut, Resetting
        <4> QED
          BY <4>1
      <3> QED
        BY <1>3, <3>1, <3>2, <3>3, <3>4
    <2> QED
      BY <1>1, <1>2, <2>1, <2>2
  <1>4. CASE WrapIn(p)
    <2> DEFINE s == [put[p] EXCEPT !.pc = "room"]
    <2>1. put' = [put EXCEPT ![p] = s] /\ UNCHANGED <<keyin, keyold, npub, ndel, getVars>>
      BY <1>4, PlainRoom DEF WrapIn, Goto
    <2>2. s.pc = "room"
      BY <1>0 DEF PutState
    <2> HIDE DEF s
    <2> QED
      BY <1>1, <1>2, <2>1, <2>2 DEF Resetting
  <1>5. CASE WrapOld(p) \/ WrapFix(p)
    BY <1>5 DEF WrapOld, WrapFix, Plain, Resetting
  <1>6. CASE Delete(p)
    <2> DEFINE k == ndel + 1
    <2>1. /\ put[p].pc = "room" /\ ndel < npub /\ keyin + Need(p) - keyold > KeyMax
          /\ keyold' = keyold + Size(sent[k]) /\ ndel' = k
          /\ UNCHANGED <<keyin, ring, sem, sent, npub, put>>
      BY <1>6, DeleteEffect
    <2>2. k \in 1 .. Len(sent) /\ k - 1 = ndel /\ k \in Nat /\ k <= npub
      BY <1>0, <2>1
    <2> HIDE DEF k
    <2>3. /\ EndOf(k) = sent[k].at + Size(sent[k]) /\ sent[k].at = EndOf(ndel)
          /\ Size(sent[k]) \in Nat \ {0} /\ Size(sent[k]) = HDR + sent[k].len
          /\ EndOf(ndel) \in Nat
      BY <2>2, StreamFacts DEF RingInv
    <2>4. EndOf(npub)' = EndOf(npub) /\ EndOf(ndel)' = EndOf(k)
      BY <2>1 DEF EndOf, Size
    <2>5. k < npub
      <3> SUFFICES ASSUME k = npub PROVE FALSE
        BY <1>0, <2>2
      <3>1. InCS(p)
        BY <2>1 DEF InCS
      <3>2. /\ keyin = EndOf(npub) /\ keyold = EndOf(ndel)
            /\ Need(p) \in Nat /\ Need(p) = HDR + put[p].len /\ put[p].len \in Lens
        BY <3>1, InsideFacts DEF Plain
      <3>3. sent[k].len \in Lens
        BY <2>2 DEF RingInv, Stream
      <3>4. (HDR + sent[k].len) + (HDR + put[p].len) <= KeyMax
        BY <3>2, <3>3 DEF TwoFit
      <3>5. keyin - keyold = Size(sent[k]) /\ keyin \in Nat /\ keyold \in Nat
        BY <2>3, <3>2
      <3> QED
        BY <2>1, <2>3, <3>2, <3>4, <3>5, Constants
    <2>6. /\ keyin' = EndOf(npub)' /\ keyold' = EndOf(ndel)'
          /\ npub' > 0 => ndel' < npub'
      BY <2>1, <2>3, <2>4, <2>5 DEF Plain
    <2>7. \A q \in Putters : put'[q].pc \notin Resetting
      BY <2>1 DEF Plain
    <2>8. ndel <= ndel' /\ keyold <= keyold' /\ npub <= npub'
      BY <1>0, <2>1, <2>2, <2>3
    <2>9. Plain' /\ UNCHANGED getVars
      BY <1>6, <2>6, <2>7 DEF Plain, Delete
    <2> QED
      BY <2>8, <2>9
  <1>7. CASE CopyCell(p)
    <2> DEFINE s == [put[p] EXCEPT !.pc = "copy", !.i = @ + 1]
    <2>1. put' = [put EXCEPT ![p] = s] /\ UNCHANGED <<keyin, keyold, npub, ndel, getVars>>
      BY <1>7 DEF CopyCell
    <2>2. s.pc = "copy"
      BY <1>0 DEF PutState
    <2> HIDE DEF s
    <2> QED
      BY <1>1, <1>2, <2>1, <2>2 DEF Resetting
  <1>8. CASE Publish(p)
    <2> DEFINE n == npub + 1
               s == [put[p] EXCEPT !.pc = "free"]
               N == Need(p)
    <2>1. InCS(p) /\ put[p].pc = "copy"
      BY <1>8 DEF Publish, InCS
    <2>2. /\ keyin \in Nat /\ keyin + N < WordMod /\ N \in Nat /\ npub \in Nat
          /\ EndOf(n) = EndOf(npub) + N
      BY <2>1, InsideFacts, NextEnd DEF Inside
    <2>3. keyin' = keyin + N
      <3>1. keyin + N \in 0 .. WordMod - 1
        <4> HIDE DEF N
        <4> QED
          BY <2>2, Constants
      <3>2. Word(keyin + N) = keyin + N
        BY <3>1, WordSmall
      <3> QED
        BY <1>8, <3>2 DEF Publish
    <2>4. /\ npub' = n /\ UNCHANGED <<keyold, ndel, sent, getVars>>
          /\ put' = [put EXCEPT ![p] = s]
      BY <1>8 DEF Publish, Goto
    <2>5. EndOf(npub)' = EndOf(n) /\ EndOf(ndel)' = EndOf(ndel)
      BY <2>4 DEF EndOf, Size
    <2>6. s.pc = "free"
      BY <1>0 DEF PutState
    <2> HIDE DEF s
    <2>7. \A q \in Putters : put'[q].pc \notin Resetting
      BY <1>0, <2>4, <2>6 DEF Plain, Resetting
    <2>8. keyin' = EndOf(npub)' /\ keyold' = EndOf(ndel)' /\ ndel' < npub'
      BY <1>0, <2>2, <2>3, <2>4, <2>5 DEF Plain
    <2> QED
      BY <1>0, <2>4, <2>7, <2>8 DEF Plain
  <1> QED
    BY <1>3, <1>4, <1>5, <1>6, <1>7, <1>8 DEF PutStep

-----------------------------------------------------------------------------
(***************************************************************************)
(* What each step of a getter does.                                        *)
(***************************************************************************)

(* What a step of a getter leaves alone.                                   *)
LEMMA OtherGetters ==
  ASSUME TypeOK, NEW g \in Getters, GetCall(g) \/ GetStep(g), NEW h \in Getters, h # g
  PROVE  get'[h] = get[h] /\ gtrak'[h] = gtrak[h] /\ last'[h] = last[h]
  <1>1. /\ get \in [Getters -> GetState] /\ last \in [Getters -> [Logos -> 0 .. Len(sent)]]
        /\ gtrak = [x \in Getters |-> gtrak[x]]
    BY DEF TypeOK, GetTypes
  <1>2. CASE GetCall(g)
    <2>1. PICK req \in Requests[g] :
            /\ get' = [get EXCEPT ![g].pc = "find", ![g].req = req]
            /\ \E T : gtrak' = [gtrak EXCEPT ![g] = T]
      BY <1>2 DEF GetCall
    <2>2. PICK T : gtrak' = [gtrak EXCEPT ![g] = T]
      BY <2>1
    <2> QED
      BY <1>1, <1>2, <2>1, <2>2 DEF GetCall
  <1>3. CASE FindKey(g)
    BY <1>1, <1>3 DEF FindKey
  <1>4. CASE SnapIn(g)
    BY <1>1, <1>4 DEF SnapIn
  <1>5. CASE ResetTrackers(g)
    BY <1>1, <1>5 DEF ResetTrackers
  <1>6. CASE Scan(g)
    BY <1>1, <1>6 DEF Scan
  <1>7. CASE ReadCell(g)
    BY <1>1, <1>7 DEF ReadCell
  <1>8. ASSUME NEW key, Rescan(g, key)
        PROVE  get'[h] = get[h] /\ gtrak'[h] = gtrak[h] /\ last'[h] = last[h]
    BY <1>1, <1>8 DEF Rescan
  <1>9. ASSUME NEW x, NEW toobig \in BOOLEAN, Finish(g, x, toobig)
        PROVE  get'[h] = get[h] /\ gtrak'[h] = gtrak[h] /\ last'[h] = last[h]
    BY <1>1, <1>9 DEF Finish
  <1>10. CASE CheckHeader(g)
    BY <1>1, <1>8, <1>9, <1>10 DEF CheckHeader
  <1>11. CASE CheckCopied(g)
    BY <1>8, <1>9, <1>11 DEF CheckCopied
  <1>12. CASE Return(g)
    BY <1>1, <1>12 DEF Return
  <1> QED
    BY <1>2, <1>3, <1>4, <1>5, <1>6, <1>7, <1>10, <1>11, <1>12 DEF GetStep

(* The fields of a getter after each of its steps.                         *)
LEMMA FindKeyEffect ==
  ASSUME TypeOK, NEW g \in Getters, FindKey(g)
  PROVE  /\ get[g].pc = "find" /\ get'[g].pc = "bound" /\ get'[g].req = get[g].req
         /\ \/ get'[g].keyget = keyold
            \/ \E t \in DOMAIN gtrak[g] : Wanted(g, t) /\ get'[g].keyget = gtrak[g][t].keyout
         /\ keyold <= get'[g].keyget
         /\ \A t \in DOMAIN gtrak[g] : Wanted(g, t) => gtrak[g][t].keyout <= get'[g].keyget
         /\ gtrak' = gtrak /\ last' = last
  <1> DEFINE outs == {keyold} \cup
                 {gtrak[g][t].keyout : t \in {u \in DOMAIN gtrak[g] : Wanted(g, u)}}
  <1>1. PICK k \in outs : /\ \A o \in outs : o <= k
                          /\ get' = [get EXCEPT ![g].pc = "bound", ![g].keyget = k]
    BY DEF FindKey
  <1>2. get \in [Getters -> GetState]
    BY DEF TypeOK, GetTypes
  <1>3. get'[g].pc = "bound" /\ get'[g].keyget = k /\ get'[g].req = get[g].req
    BY <1>1, <1>2 DEF GetState
  <1> QED
    BY <1>1, <1>3 DEF FindKey

LEMMA SnapInEffect ==
  ASSUME TypeOK, NEW g \in Getters, SnapIn(g)
  PROVE  /\ get[g].pc = "bound" /\ get'[g].keyin = keyin /\ get'[g].keyget = get[g].keyget
         /\ get'[g].pc = IF get[g].keyget > keyin THEN "reset" ELSE "scan"
         /\ get'[g].req = get[g].req /\ gtrak' = gtrak /\ last' = last
  BY DEF SnapIn, TypeOK, GetTypes, GetState

LEMMA ScanEffect ==
  ASSUME TypeOK, NEW g \in Getters, Scan(g)
  PROVE  /\ get[g].pc = "scan" /\ get'[g].req = get[g].req /\ last' = last
         /\ \/ /\ get[g].keyget < get[g].keyin /\ get'[g].pc = "head" /\ get'[g].buf = <<>>
               /\ get'[g].keyget = IF get[g].keyget < keyold THEN keyold ELSE get[g].keyget
               /\ get'[g].keyin = get[g].keyin /\ gtrak' = gtrak
            \/ /\ get'[g].pc = "ret" /\ get'[g].status = "GET_NONE"
               /\ gtrak'[g] = Wrapup(g, gtrak[g], get[g].keyget)
  <1>1. /\ get \in [Getters -> GetState] /\ gtrak = [x \in Getters |-> gtrak[x]]
    BY DEF TypeOK, GetTypes
  <1> DEFINE k == IF get[g].keyget < keyold THEN keyold ELSE get[g].keyget
  <1>2. CASE get[g].keyget < get[g].keyin
    <2>1. get' = [get EXCEPT ![g].pc = "head", ![g].buf = <<>>, ![g].keyget = k]
      BY <1>2 DEF Scan
    <2> HIDE DEF k
    <2>2. /\ get'[g].pc = "head" /\ get'[g].buf = <<>> /\ get'[g].keyget = k
          /\ get'[g].keyin = get[g].keyin /\ get'[g].req = get[g].req
      BY <1>1, <2>1 DEF GetState
    <2> QED
      BY <1>2, <2>2 DEF Scan, k
  <1>3. CASE ~ (get[g].keyget < get[g].keyin)
    <2>1. get'[g].pc = "ret" /\ get'[g].status = "GET_NONE" /\ get'[g].req = get[g].req
      BY <1>1, <1>3 DEF Scan, GetState
    <2>2. gtrak' = [gtrak EXCEPT ![g] = Wrapup(g, gtrak[g], get[g].keyget)]
      BY <1>3 DEF Scan
    <2>3. gtrak'[g] = Wrapup(g, gtrak[g], get[g].keyget)
      BY <1>1, <2>2
    <2> QED
      BY <1>3, <2>1, <2>3 DEF Scan
  <1> QED
    BY <1>2, <1>3

LEMMA ReadCellEffect ==
  ASSUME TypeOK, NEW g \in Getters, ReadCell(g)
  PROVE  /\ \/ get[g].pc = "head" /\ Len(get[g].buf) < HDR
            \/ get[g].pc = "body" /\ Len(get[g].buf) < HDR + get[g].hd.len
         /\ get'[g].pc = get[g].pc /\ get'[g].keyget = get[g].keyget
         /\ get'[g].keyin = get[g].keyin /\ get'[g].hd = get[g].hd /\ get'[g].req = get[g].req
         /\ get'[g].buf = Append(get[g].buf, ring[Slot(get[g].keyget + Len(get[g].buf))])
         /\ gtrak' = gtrak /\ last' = last
  <1>1. get \in [Getters -> GetState]
    BY DEF TypeOK, GetTypes
  <1> DEFINE b == Append(get[g].buf, ring[Slot(get[g].keyget + Len(get[g].buf))])
  <1>2. get' = [get EXCEPT ![g].buf = b]
    BY DEF ReadCell
  <1> HIDE DEF b
  <1>3. /\ get'[g].pc = get[g].pc /\ get'[g].keyget = get[g].keyget /\ get'[g].buf = b
        /\ get'[g].keyin = get[g].keyin /\ get'[g].hd = get[g].hd /\ get'[g].req = get[g].req
    BY <1>1, <1>2 DEF GetState
  <1> QED
    BY <1>3 DEF ReadCell, b

LEMMA RescanEffect ==
  ASSUME TypeOK, NEW g \in Getters, NEW key, Rescan(g, key)
  PROVE  /\ get'[g].pc = "scan" /\ get'[g].keyget = key /\ get'[g].buf = <<>>
         /\ get'[g].keyin = get[g].keyin /\ get'[g].req = get[g].req
         /\ gtrak' = gtrak /\ last' = last
  BY DEF Rescan, TypeOK, GetTypes, GetState

LEMMA BodyEffect ==
  ASSUME TypeOK, NEW g \in Getters, NEW h, get' = [get EXCEPT ![g].pc = "body", ![g].hd = h]
  PROVE  /\ get'[g].pc = "body" /\ get'[g].hd = h /\ get'[g].buf = get[g].buf
         /\ get'[g].keyget = get[g].keyget /\ get'[g].keyin = get[g].keyin
         /\ get'[g].req = get[g].req
  BY DEF TypeOK, GetTypes, GetState

LEMMA ReturnEffect ==
  ASSUME TypeOK, NEW g \in Getters, Return(g)
  PROVE  get'[g].pc = "idle" /\ gtrak' = gtrak /\ last' = last
  BY DEF Return, TypeOK, GetTypes, IdleGet

LEMMA FinishEffect ==
  ASSUME TypeOK, NEW g \in Getters, NEW h, NEW toobig \in BOOLEAN, Finish(g, h, toobig)
  PROVE  LET r == Trackit(g, h, toobig)
             k == get[g].buf[1][1]
         IN  /\ gtrak'[g] = Wrapup(g, r.trak, NextKey(g, h))
             /\ get'[g].pc = "ret" /\ get'[g].status = r.status /\ get'[g].hd = h
             /\ get'[g].prev = last[g][sent[k].logo] /\ get'[g].buf = get[g].buf
             /\ get'[g].req = get[g].req
             /\ toobig => last' = last
             /\ ~ toobig => last' = [last EXCEPT ![g][sent[k].logo] = k]
  <1> DEFINE r == Trackit(g, h, toobig)
             k == get[g].buf[1][1]
             pv == last[g][sent[k].logo]
             W == Wrapup(g, r.trak, NextKey(g, h))
             st == r.status
  <1>1. /\ get \in [Getters -> GetState] /\ gtrak = [x \in Getters |-> gtrak[x]]
    BY DEF TypeOK, GetTypes
  <1>2. /\ gtrak' = [gtrak EXCEPT ![g] = W]
        /\ get' = [get EXCEPT ![g].pc = "ret", ![g].status = st, ![g].hd = h, ![g].prev = pv]
        /\ last' = IF toobig THEN last ELSE [last EXCEPT ![g][sent[k].logo] = k]
    BY DEF Finish
  <1> HIDE DEF W, st, pv
  <1>3. /\ get'[g].pc = "ret" /\ get'[g].status = st /\ get'[g].hd = h /\ get'[g].prev = pv
        /\ get'[g].buf = get[g].buf /\ get'[g].req = get[g].req
    BY <1>1, <1>2 DEF GetState
  <1>4. gtrak'[g] = W
    BY <1>1, <1>2
  <1> QED
    BY <1>2, <1>3, <1>4 DEF W, st, pv

(* A call enters what it asks for while there is room.                     *)
LEMMA GetCallEffect ==
  ASSUME TypeOK, NEW g \in Getters, GetCall(g)
  PROVE  /\ get[g].pc = "idle" /\ get'[g].pc = "find" /\ get'[g].req \in Requests[g]
         /\ last' = last /\ DOMAIN gtrak[g] \subseteq DOMAIN gtrak'[g]
         /\ \A t \in DOMAIN gtrak'[g] :
              IF t \in DOMAIN gtrak[g] THEN gtrak'[g][t] = gtrak[g][t]
              ELSE /\ t \in get'[g].req /\ gtrak'[g][t].keyout = 0
                   /\ Cardinality(DOMAIN gtrak[g]) < NTrackGet
         /\ \/ get'[g].req = {} \/ DOMAIN gtrak[g] # {} \/ NTrackGet = 0
            \/ get'[g].req \cap DOMAIN gtrak'[g] # {}
  <1> DEFINE D == DOMAIN gtrak[g]
             free == NTrackGet - Cardinality(D)
  <1>0. /\ get \in [Getters -> GetState] /\ gtrak = [x \in Getters |-> gtrak[x]]
        /\ D \subseteq Patterns /\ IsFiniteSet(D) /\ Cardinality(D) \in Nat /\ NTrackGet \in Nat
    BY GetterFacts, FS_CardinalityType, TransportAssumption
    DEF TransportAssumption, TypeOK, GetTypes
  <1>1. PICK req \in Requests[g] :
          /\ get' = [get EXCEPT ![g].pc = "find", ![g].req = req]
          /\ \E e \in IF Cardinality(req \ D) <= free THEN {req \ D}
                      ELSE {d \in SUBSET (req \ D) : Cardinality(d) = free} :
               gtrak' = [gtrak EXCEPT ![g] =
                 [t \in D \cup e |->
                    IF t \in D THEN gtrak[g][t]
                    ELSE [seq |-> 0, keyout |-> 0, active |-> FALSE]]]
    BY DEF GetCall
  <1>2. req \subseteq Patterns /\ IsFiniteSet(req \ D)
    <2>1. req \subseteq Patterns
      BY TransportAssumption DEF TransportAssumption, Patterns
    <2>2. IsFiniteSet(Patterns)
      BY FS_AddElement, TransportAssumption DEF TransportAssumption, Patterns
    <2> QED
      BY <2>1, <2>2, FS_Subset
  <1>3. PICK e \in SUBSET (req \ D) :
          /\ Cardinality(req \ D) <= free => e = req \ D
          /\ ~ (Cardinality(req \ D) <= free) => Cardinality(e) = free
          /\ gtrak' = [gtrak EXCEPT ![g] =
                 [t \in D \cup e |->
                    IF t \in D THEN gtrak[g][t]
                    ELSE [seq |-> 0, keyout |-> 0, active |-> FALSE]]]
    <2>1. CASE Cardinality(req \ D) <= free
      BY <1>1, <2>1
    <2>2. CASE ~(Cardinality(req \ D) <= free)
      <3>1. PICK e \in SUBSET (req \ D) :
              /\ Cardinality(e) = free
              /\ gtrak' = [gtrak EXCEPT ![g] =
                   [t \in D \cup e |->
                      IF t \in D THEN gtrak[g][t]
                      ELSE [seq |-> 0, keyout |-> 0, active |-> FALSE]]]
        BY <1>1, <2>2, Zenon
      <3> QED
        BY <2>2, <3>1
    <2> QED
      BY <2>1, <2>2
  <1> DEFINE T == [t \in D \cup e |->
                    IF t \in D THEN gtrak[g][t]
                    ELSE [seq |-> 0, keyout |-> 0, active |-> FALSE]]
  <1>4. gtrak'[g] = T
    BY <1>0, <1>3
  <1>5. DOMAIN T = D \cup e
    OBVIOUS
  <1>6. \A t \in D \cup e : IF t \in D THEN T[t] = gtrak[g][t] ELSE T[t].keyout = 0
    OBVIOUS
  <1>7. get'[g].pc = "find" /\ get'[g].req = req
    BY <1>0, <1>1 DEF GetState
  <1>8. IsFiniteSet(e)
    BY <1>2, FS_Subset
  <1>9. e # {} => Cardinality(D) < NTrackGet
    <2> SUFFICES ASSUME e # {} PROVE Cardinality(D) < NTrackGet
      OBVIOUS
    <2>1. Cardinality(e) \in Nat /\ Cardinality(e) # 0
      BY <1>8, FS_CardinalityType, FS_EmptySet
    <2>2. Cardinality(e) <= free
      <3>1. free \in Int
        BY <1>0
      <3> HIDE DEF free
      <3> QED
        BY <1>3, <2>1, <3>1
    <2> QED
      BY <1>0, <2>1, <2>2
  <1>10. \/ req = {} \/ D # {} \/ NTrackGet = 0 \/ req \cap (D \cup e) # {}
    <2> SUFFICES ASSUME req # {}, D = {}, NTrackGet # 0 PROVE e # {}
      BY <1>3
    <2>1. Cardinality({}) = 0
      BY FS_EmptySet
    <2>2. free = NTrackGet
      BY <1>0, <2>1
    <2>3. CASE Cardinality(req \ D) <= free
      BY <1>3, <2>3
    <2>4. CASE ~ (Cardinality(req \ D) <= free)
      <3>1. Cardinality(e) = NTrackGet
        BY <1>3, <2>2, <2>4
      <3> QED
        BY <2>1, <3>1
    <2> QED
      BY <2>3, <2>4
  <1> HIDE DEF T, D
  <1>11. /\ last' = last /\ get[g].pc = "idle"
    BY DEF GetCall
  <1>12. /\ D \subseteq DOMAIN gtrak'[g]
         /\ \A t \in DOMAIN gtrak'[g] :
              IF t \in D THEN gtrak'[g][t] = gtrak[g][t]
              ELSE /\ t \in req /\ gtrak'[g][t].keyout = 0
                   /\ Cardinality(D) < NTrackGet
    BY <1>3, <1>4, <1>5, <1>6, <1>9
  <1> QED
    BY <1>4, <1>5, <1>7, <1>10, <1>11, <1>12 DEF D

(* What trackit makes of the table and of the message's number.            *)
LEMMA TrackitEffect ==
  ASSUME TypeOK, NEW g \in Getters, NEW toobig \in BOOLEAN,
         NEW h \in [logo : Logos, len : Nat, seq : 0 .. SeqMod - 1]
  PROVE  LET r == Trackit(g, h, toobig)
             T == gtrak[g]
             l == h.logo
             full == l \notin DOMAIN T /\ Cardinality(DOMAIN T) >= NTrackGet
         IN  /\ DOMAIN r.trak = IF full THEN DOMAIN T ELSE DOMAIN T \cup {l}
             /\ \A t \in DOMAIN r.trak :
                  r.trak[t].keyout = IF t \in DOMAIN T THEN T[t].keyout ELSE 0
             /\ \A t \in DOMAIN T : t # l => r.trak[t] = T[t]
             /\ toobig => r.status = "GET_TOOBIG"
             /\ toobig /\ l \in DOMAIN T /\ T[l].active => r.trak[l] = T[l]
             /\ ~ toobig /\ full => r.status = "GET_NOTRACK"
             /\ ~ toobig /\ ~ full =>
                  /\ r.trak[l].active /\ r.trak[l].seq = NextSeq(h.seq)
                  /\ r.status = IF l \in DOMAIN T /\ T[l].active /\ T[l].seq # h.seq
                                THEN "GET_MISS" ELSE "GET_OK"
  <1> DEFINE T == gtrak[g]
             D == DOMAIN T
             l == h.logo
             known == l \in D
             full == ~ known /\ Cardinality(D) >= NTrackGet
             e == IF known /\ T[l].active THEN T[l]
                  ELSE [seq |-> h.seq, active |-> TRUE,
                        keyout |-> IF known THEN T[l].keyout ELSE 0]
             set(x) == [t \in D \cup {l} |-> IF t = l THEN x ELSE T[t]]
             e2 == [e EXCEPT !.seq = SeqAfter(h)]
             r == Trackit(g, h, toobig)
  <1>1. T \in [D -> Tracker]
    BY GetterFacts
  <1>2. e \in Tracker
    BY <1>1 DEF Tracker
  <1>3. /\ e.active /\ e.keyout = (IF known THEN T[l].keyout ELSE 0)
        /\ e.seq = (IF known /\ T[l].active THEN T[l].seq ELSE h.seq)
        /\ known /\ T[l].active => e = T[l]
    BY <1>1 DEF Tracker
  <1>4. /\ e2.active = e.active /\ e2.keyout = e.keyout /\ e2.seq = NextSeq(h.seq)
    <2> HIDE DEF e
    <2> QED
      BY <1>2 DEF Tracker, SeqAfter
  <1>5. CASE full
    <2>1. r.trak = T /\ r.status = IF toobig THEN "GET_TOOBIG" ELSE "GET_NOTRACK"
      BY <1>5 DEF Trackit
    <2> HIDE DEF r, T
    <2> QED
      BY <1>5, <2>1 DEF r, T
  <1>6. CASE ~ full /\ toobig
    <2>1. r = [trak |-> set(e), status |-> "GET_TOOBIG"]
      BY <1>6 DEF Trackit
    <2> HIDE DEF e
    <2>2. /\ DOMAIN set(e) = D \cup {l} /\ set(e)[l] = e
          /\ \A t \in D : t # l => set(e)[t] = T[t]
      OBVIOUS
    <2> HIDE DEF set
    <2>3. r.trak = set(e) /\ r.status = "GET_TOOBIG"
      BY <2>1
    <2> HIDE DEF r
    <2>4. \A t \in DOMAIN r.trak : r.trak[t].keyout = IF t \in D THEN T[t].keyout ELSE 0
      BY <1>3, <2>2, <2>3
    <2> QED
      BY <1>3, <1>6, <2>2, <2>3, <2>4 DEF r
  <1>7. CASE ~ full /\ ~ toobig
    <2>1. r = [trak |-> set(e2), status |-> IF h.seq = e.seq THEN "GET_OK" ELSE "GET_MISS"]
      BY <1>7 DEF Trackit
    <2> HIDE DEF e, e2
    <2>2. /\ DOMAIN set(e2) = D \cup {l} /\ set(e2)[l] = e2
          /\ \A t \in D : t # l => set(e2)[t] = T[t]
      OBVIOUS
    <2> HIDE DEF set
    <2>3. r.trak = set(e2) /\ r.status = IF h.seq = e.seq THEN "GET_OK" ELSE "GET_MISS"
      BY <2>1
    <2> HIDE DEF r
    <2>4. \A t \in DOMAIN r.trak : r.trak[t].keyout = IF t \in D THEN T[t].keyout ELSE 0
      BY <1>3, <1>4, <2>2, <2>3
    <2>5. r.status = IF known /\ T[l].active /\ T[l].seq # h.seq THEN "GET_MISS" ELSE "GET_OK"
      BY <1>3, <2>3
    <2> QED
      BY <1>3, <1>4, <1>7, <2>2, <2>3, <2>4, <2>5 DEF r
  <1> QED
    BY <1>5, <1>6, <1>7

-----------------------------------------------------------------------------
(***************************************************************************)
(* Where a getter stands: always between messages, or in one.              *)
(***************************************************************************)

(* x is where a message put so far ended, or where the stream began.       *)
Boundary(x) == \E k \in 0 .. npub : x = EndOf(k)
Searching == {"bound", "scan", "head", "body"}

AtMessage(g) ==
  \E k \in 1 .. npub :
    /\ get[g].keyget = sent[k].at
    /\ keyold <= get[g].keyget =>
         \A i \in 1 .. Len(get[g].buf) : get[g].buf[i] = <<k, i - 1>>
    /\ get[g].pc = "body" => get[g].hd = HeaderOf(sent[k]) /\ get[g].buf[1] = <<k, 0>>

Delivered(g) ==
  Returned(g, {"GET_OK", "GET_MISS", "GET_NOTRACK"}) =>
    /\ Got(g) \in 1 .. npub
    /\ get[g].hd = HeaderOf(sent[Got(g)])
    /\ get[g].buf = [i \in 1 .. Size(sent[Got(g)]) |-> <<Got(g), i - 1>>]

Reading(g) ==
  /\ get[g].pc \notin {"reset", "exit"}
  /\ \A t \in DOMAIN gtrak[g] : Boundary(gtrak[g][t].keyout)
  /\ get[g].pc \in Searching => Boundary(get[g].keyget)
  /\ get[g].pc \in {"scan", "head", "body"} => Boundary(get[g].keyin)
  /\ get[g].pc = "head" => Len(get[g].buf) <= HDR
  /\ get[g].pc = "body" => /\ Len(get[g].buf) <= HDR + get[g].hd.len
                           /\ get[g].hd.logo \in Logos /\ Wanted(g, get[g].hd.logo)
  /\ get[g].pc \in {"head", "body"} => AtMessage(g)
  /\ Delivered(g)
  /\ \A l \in Logos : last[g][l] <= npub /\ (last[g][l] # 0 => sent[last[g][l]].logo = l)

(* A step of a putter takes no getter anywhere it should not be.           *)
LEMMA ReadingFrame ==
  ASSUME RingInv, [Next]_vars, Plain, Plain', npub <= npub', npub' \in Nat, keyold <= keyold', keyold' \in Nat,
         NEW g \in Getters, get'[g] = get[g], gtrak'[g] = gtrak[g], last'[g] = last[g],
         Reading(g)
  PROVE  Reading(g)'
  <1>1. /\ npub \in Nat /\ npub <= Len(sent) /\ Len(sent) \in Nat /\ keyold \in Nat
        /\ last[g] \in [Logos -> Nat] /\ get[g].keyget \in Nat
    BY StreamFacts, GetterFacts DEF RingInv
  <1>2. /\ \A k \in 1 .. npub : sent'[k] = sent[k]
        /\ \A k \in 0 .. npub : EndOf(k)' = EndOf(k)
    <2>1. \A k \in 0 .. npub : k \in 0 .. Len(sent) /\ (k # 0 => k \in 1 .. Len(sent))
      BY <1>1
    <2> QED
      BY <2>1, <1>1, SentGrows
  <1>3. ASSUME NEW x, Boundary(x) PROVE \E k \in 0 .. npub' : x = EndOf(k)'
    <2>1. PICK k \in 0 .. npub : x = EndOf(k)
      BY <1>3 DEF Boundary
    <2>2. k \in 0 .. npub' /\ x = EndOf(k)'
      BY <1>1, <1>2, <2>1
    <2> QED
      BY <2>2
  <1>4. \A t \in DOMAIN gtrak'[g] : Boundary(gtrak[g][t].keyout)'
    BY <1>3 DEF Reading, Boundary
  <1>5. /\ get[g].pc \in Searching => Boundary(get[g].keyget)'
        /\ get[g].pc \in {"scan", "head", "body"} => Boundary(get[g].keyin)'
    BY <1>3 DEF Reading, Boundary
  <1>6. AtMessage(g) => AtMessage(g)'
    <2> SUFFICES ASSUME AtMessage(g) PROVE AtMessage(g)'
      OBVIOUS
    <2>1. PICK k \in 1 .. npub :
            /\ get[g].keyget = sent[k].at
            /\ keyold <= get[g].keyget =>
                 \A i \in 1 .. Len(get[g].buf) : get[g].buf[i] = <<k, i - 1>>
            /\ get[g].pc = "body" => get[g].hd = HeaderOf(sent[k]) /\ get[g].buf[1] = <<k, 0>>
      BY DEF AtMessage
    <2>2. k \in 1 .. npub' /\ sent'[k] = sent[k]
      BY <1>1, <1>2
    <2>3. keyold' <= get[g].keyget => keyold <= get[g].keyget
      BY <1>1
    <2> QED
      BY <2>1, <2>2, <2>3 DEF AtMessage, HeaderOf
  <1>7. Delivered(g)'
    <2> SUFFICES ASSUME Returned(g, {"GET_OK", "GET_MISS", "GET_NOTRACK"})
                 PROVE  Delivered(g)'
      BY DEF Delivered, Returned
    <2> DEFINE k == get[g].buf[1][1]
    <2>1. /\ k \in 1 .. npub /\ get[g].hd = HeaderOf(sent[k])
          /\ get[g].buf = [i \in 1 .. Size(sent[k]) |-> <<k, i - 1>>]
      BY DEF Reading, Delivered, Got
    <2> HIDE DEF k
    <2>2. sent'[k] = sent[k] /\ k \in 1 .. npub'
      BY <1>1, <1>2, <2>1
    <2>3. /\ get'[g].buf[1][1] = k /\ get'[g].hd = HeaderOf(sent'[k])
          /\ get'[g].buf = [i \in 1 .. Size(sent'[k]) |-> <<k, i - 1>>]
      BY <2>1, <2>2 DEF k
    <2> QED
      BY <2>2, <2>3 DEF Delivered, Got, HeaderOf, Size
  <1>8. \A l \in Logos : /\ last'[g][l] <= npub'
                         /\ last'[g][l] # 0 => sent'[last'[g][l]].logo = l
    <2> SUFFICES ASSUME NEW l \in Logos
                 PROVE  /\ last[g][l] <= npub'
                        /\ last[g][l] # 0 => sent'[last[g][l]].logo = l
      OBVIOUS
    <2>1. last[g][l] <= npub /\ (last[g][l] # 0 => sent[last[g][l]].logo = l)
          /\ last[g][l] \in Nat
      BY <1>1 DEF Reading
    <2>2. last[g][l] # 0 => last[g][l] \in 1 .. npub
      BY <1>1, <2>1
    <2> QED
      BY <1>1, <1>2, <2>1, <2>2
  <1> QED
    BY <1>4, <1>5, <1>6, <1>7, <1>8 DEF Reading, Wanted

LEMMA WrapupEffect ==
  ASSUME NEW g \in Getters, NEW T, T \in [DOMAIN T -> Tracker], NEW key \in Nat
  PROVE  /\ DOMAIN Wrapup(g, T, key) = DOMAIN T
         /\ \A t \in DOMAIN T :
              /\ Wrapup(g, T, key)[t].keyout = IF Wanted(g, t) THEN key ELSE T[t].keyout
              /\ Wrapup(g, T, key)[t].active = T[t].active
              /\ Wrapup(g, T, key)[t].seq = T[t].seq
  BY DEF Wrapup, Tracker

(* While keyold has not passed a message, the ring holds it.               *)
LEMMA NotLapped ==
  ASSUME RingInv, Plain, NEW k \in 1 .. npub, keyold < EndOf(k)
  PROVE  /\ k \in ndel + 1 .. npub /\ keyold <= sent[k].at
         /\ \A i \in 0 .. Size(sent[k]) - 1 : ring[Slot(sent[k].at + i)] = <<k, i>>
  <1>1. /\ ndel \in Nat /\ npub \in Nat /\ npub <= Len(sent) /\ ndel <= npub /\ Len(sent) \in Nat
        /\ \A i, j \in 0 .. Len(sent) : i <= j => EndOf(i) <= EndOf(j)
        /\ \A i \in 0 .. Len(sent) : EndOf(i) \in Nat
    BY StreamFacts DEF RingInv
  <1>2. keyold = EndOf(ndel)
    BY DEF Plain
  <1>3. k \in 0 .. Len(sent) /\ ndel \in 0 .. Len(sent) /\ k - 1 \in 0 .. Len(sent)
        /\ k \in 1 .. Len(sent)
    BY <1>1
  <1>4. ndel < k
    <2> SUFFICES ASSUME k <= ndel PROVE FALSE
      BY <1>1
    <2>1. EndOf(k) <= EndOf(ndel)
      BY <1>1, <1>3
    <2> QED
      BY <1>1, <1>2, <1>3, <2>1
  <1>5. sent[k].at = EndOf(k - 1)
    BY <1>3, StreamFacts DEF RingInv
  <1>6. EndOf(ndel) <= EndOf(k - 1)
    <2>1. ndel <= k - 1
      BY <1>1, <1>4
    <2> QED
      BY <1>1, <1>3, <2>1
  <1>7. k \in ndel + 1 .. npub
    BY <1>1, <1>4
  <1> QED
    BY <1>2, <1>5, <1>6, <1>7 DEF RingInv, Stored

(* The offsets of message k, and the key behind it.                        *)
LEMMA MessageKeys ==
  ASSUME RingInv, Plain, KeysFit, NEW k \in 1 .. npub
  PROVE  /\ sent[k].at \in Nat /\ EndOf(k) = sent[k].at + Size(sent[k])
         /\ Size(sent[k]) \in Nat \ {0} /\ Size(sent[k]) = HDR + sent[k].len
         /\ sent[k].len \in Nat /\ sent[k].logo \in Logos
         /\ Size(HeaderOf(sent[k])) = Size(sent[k])
         /\ HeaderOf(sent[k]) \in [logo : Logos, len : Nat, seq : 0 .. SeqMod - 1]
         /\ \A g \in Getters : get[g].keyget = sent[k].at =>
              NextKey(g, HeaderOf(sent[k])) = EndOf(k)
         /\ k \in 0 .. npub /\ sent[k].at < EndOf(k) /\ EndOf(k) \in Nat
         /\ sent[k].at = EndOf(k - 1)
  <1>1. k \in 1 .. Len(sent) /\ k \in 0 .. Len(sent) /\ Len(sent) \in 0 .. Len(sent) /\ k <= Len(sent)
        /\ k \in 0 .. npub
    BY StreamFacts DEF RingInv
  <1>2. /\ sent[k].at \in Nat /\ EndOf(k) = sent[k].at + Size(sent[k])
        /\ Size(sent[k]) \in Nat \ {0} /\ Size(sent[k]) = HDR + sent[k].len
        /\ sent[k] \in Message /\ EndOf(k) <= EndOf(Len(sent)) /\ EndOf(Len(sent)) \in Nat
        /\ sent[k].at = EndOf(k - 1)
    BY <1>1, StreamFacts DEF RingInv
  <1>3. sent[k].len \in Nat /\ sent[k].logo \in Logos /\ sent[k].seq \in 0 .. SeqMod - 1
    BY <1>2 DEF Message
  <1>4. Size(HeaderOf(sent[k])) = Size(sent[k])
    BY DEF Size, HeaderOf
  <1>5. EndOf(k) \in 0 .. WordMod - 1
    <2>1. EndOf(Len(sent)) < WordMod
      BY DEF KeysFit
    <2> QED
      BY <1>2, <2>1, Constants
  <1>6. Word(EndOf(k)) = EndOf(k)
    BY <1>5, WordSmall
  <1> QED
    BY <1>1, <1>2, <1>3, <1>4, <1>5, <1>6 DEF NextKey, HeaderOf

(* The header a getter looks at is that of the message it stands at.       *)
LEMMA HeaderOutcome ==
  ASSUME RingInv, Plain, KeysFit, NEW g \in Getters, Reading(g), CheckHeader(g)
  PROVE  \/ Rescan(g, get[g].keyget)
         \/ \E k \in 1 .. npub :
              /\ get[g].keyget = sent[k].at /\ keyold <= get[g].keyget
              /\ \A i \in 1 .. Len(get[g].buf) : get[g].buf[i] = <<k, i - 1>>
              /\ get[g].buf[1] = <<k, 0>> /\ Len(get[g].buf) = HDR
              /\ \/ Rescan(g, EndOf(k))
                 \/ Wanted(g, sent[k].logo) /\ Finish(g, HeaderOf(sent[k]), TRUE)
                 \/ /\ Wanted(g, sent[k].logo)
                    /\ get' = [get EXCEPT ![g].pc = "body", ![g].hd = HeaderOf(sent[k])]
                    /\ UNCHANGED <<gtrak, last>>
  <1> SUFFICES ASSUME ~ Rescan(g, get[g].keyget)
               PROVE  \E k \in 1 .. npub :
              /\ get[g].keyget = sent[k].at /\ keyold <= get[g].keyget
              /\ \A i \in 1 .. Len(get[g].buf) : get[g].buf[i] = <<k, i - 1>>
              /\ get[g].buf[1] = <<k, 0>> /\ Len(get[g].buf) = HDR
              /\ \/ Rescan(g, EndOf(k))
                 \/ Wanted(g, sent[k].logo) /\ Finish(g, HeaderOf(sent[k]), TRUE)
                 \/ /\ Wanted(g, sent[k].logo)
                    /\ get' = [get EXCEPT ![g].pc = "body", ![g].hd = HeaderOf(sent[k])]
                    /\ UNCHANGED <<gtrak, last>>
    OBVIOUS
  <1>1. get[g].pc = "head" /\ Len(get[g].buf) = HDR /\ ~ Lapped(g)
    BY DEF CheckHeader
  <1>2. PICK k \in 1 .. npub :
          /\ get[g].keyget = sent[k].at
          /\ keyold <= get[g].keyget =>
               \A i \in 1 .. Len(get[g].buf) : get[g].buf[i] = <<k, i - 1>>
    BY <1>1 DEF Reading, AtMessage
  <1>3. keyold <= get[g].keyget
    <2>1. keyold \in Nat /\ get[g].keyget \in Nat
      BY GetterFacts DEF RingInv
    <2> QED
      BY <1>1, <2>1 DEF Lapped
  <1>4. \A i \in 1 .. Len(get[g].buf) : get[g].buf[i] = <<k, i - 1>>
    BY <1>2, <1>3
  <1>5. 1 \in 1 .. HDR /\ HDR \in 1 .. HDR /\ 1 - 1 = 0 /\ k # 0
    BY Constants
  <1>6. get[g].buf[1] = <<k, 0>> /\ get[g].buf[HDR] = <<k, HDR - 1>>
    BY <1>1, <1>4, <1>5
  <1>7. IsStart(get[g].buf[1])
    BY <1>5, <1>6 DEF IsStart
  <1>8. Decode(get[g].buf[HDR]) = {HeaderOf(sent[k])}
    BY <1>5, <1>6 DEF Decode, IsFields
  <1>9. NextKey(g, HeaderOf(sent[k])) = EndOf(k) /\ HeaderOf(sent[k]).logo = sent[k].logo
    BY <1>2, MessageKeys DEF HeaderOf
  <1>10. \/ Rescan(g, EndOf(k))
         \/ Wanted(g, sent[k].logo) /\ Finish(g, HeaderOf(sent[k]), TRUE)
         \/ /\ Wanted(g, sent[k].logo)
            /\ get' = [get EXCEPT ![g].pc = "body", ![g].hd = HeaderOf(sent[k])]
            /\ UNCHANGED <<gtrak, last>>
    BY <1>1, <1>7, <1>8, <1>9 DEF CheckHeader
  <1> QED
    BY <1>1, <1>2, <1>3, <1>4, <1>6, <1>10

(* A message is taken only if it was whole all the time.                   *)
LEMMA CopiedOutcome ==
  ASSUME RingInv, Plain, KeysFit, NEW g \in Getters, Reading(g), CheckCopied(g)
  PROVE  \E k \in 1 .. npub :
           /\ get[g].keyget = sent[k].at /\ get[g].hd = HeaderOf(sent[k])
           /\ Wanted(g, sent[k].logo)
           /\ \/ EndOf(k) <= keyold /\ Rescan(g, keyold)
              \/ /\ Finish(g, HeaderOf(sent[k]), FALSE)
                 /\ k \in ndel + 1 .. npub /\ get[g].buf[1] = <<k, 0>>
                 /\ get[g].buf = [i \in 1 .. Size(sent[k]) |-> <<k, i - 1>>]
  <1>1. get[g].pc = "body" /\ Len(get[g].buf) = HDR + get[g].hd.len
    BY DEF CheckCopied
  <1>2. PICK k \in 1 .. npub :
          /\ get[g].keyget = sent[k].at
          /\ keyold <= get[g].keyget =>
               \A i \in 1 .. Len(get[g].buf) : get[g].buf[i] = <<k, i - 1>>
          /\ get[g].hd = HeaderOf(sent[k]) /\ get[g].buf[1] = <<k, 0>>
    BY <1>1 DEF Reading, AtMessage
  <1>3. /\ NextKey(g, get[g].hd) = EndOf(k) /\ EndOf(k) \in Nat
        /\ HeaderOf(sent[k]).logo = sent[k].logo /\ HeaderOf(sent[k]).len = sent[k].len
        /\ Size(sent[k]) = HDR + sent[k].len
    BY <1>2, MessageKeys DEF HeaderOf
  <1>4. Wanted(g, sent[k].logo)
    BY <1>1, <1>2, <1>3 DEF Reading
  <1>5. CASE keyold >= EndOf(k)
    BY <1>1, <1>2, <1>3, <1>4, <1>5 DEF CheckCopied, RunOver
  <1>6. CASE ~ (keyold >= EndOf(k))
    <2>1. keyold < EndOf(k)
      <3>1. keyold \in Nat
        BY GetterFacts DEF RingInv
      <3> QED
        BY <1>3, <1>6, <3>1
    <2>2. k \in ndel + 1 .. npub /\ keyold <= get[g].keyget
      BY <1>2, <2>1, NotLapped
    <2>3. /\ get[g].buf \in Seq(Cells) /\ Len(get[g].buf) = Size(sent[k])
          /\ \A i \in 1 .. Len(get[g].buf) : get[g].buf[i] = <<k, i - 1>>
      BY <1>1, <1>2, <1>3, <2>2, GetterFacts DEF RingInv
    <2>4. get[g].buf = [i \in 1 .. Size(sent[k]) |-> <<k, i - 1>>]
      <3>1. get[g].buf \in [1 .. Size(sent[k]) -> Cells]
        BY <2>3, LenProperties
      <3>2. \A i \in 1 .. Size(sent[k]) : get[g].buf[i] = <<k, i - 1>>
        BY <2>3
      <3> QED
        BY <3>1, <3>2
    <2>5. Finish(g, HeaderOf(sent[k]), FALSE)
      BY <1>2, <1>3, <1>6 DEF CheckCopied, RunOver
    <2> QED
      BY <1>2, <1>4, <2>2, <2>4, <2>5
  <1> QED
    BY <1>5, <1>6

(* A getter's tables after a message is taken or skipped.                  *)
LEMMA FinishKeys ==
  ASSUME RingInv, Plain, KeysFit, NEW g \in Getters, NEW k \in 1 .. npub,
         NEW toobig \in BOOLEAN, get[g].keyget = sent[k].at, get[g].buf[1] = <<k, 0>>,
         Finish(g, HeaderOf(sent[k]), toobig)
  PROVE  /\ DOMAIN gtrak[g] \subseteq DOMAIN gtrak'[g]
         /\ DOMAIN gtrak'[g] \subseteq DOMAIN gtrak[g] \cup {sent[k].logo}
         /\ \A t \in DOMAIN gtrak'[g] :
              gtrak'[g][t].keyout = IF Wanted(g, t) THEN EndOf(k)
                                    ELSE IF t \in DOMAIN gtrak[g] THEN gtrak[g][t].keyout
                                    ELSE 0
         /\ \A t \in DOMAIN gtrak[g] : t # sent[k].logo =>
              gtrak'[g][t].active = gtrak[g][t].active /\ gtrak'[g][t].seq = gtrak[g][t].seq
         /\ sent[k].logo \in DOMAIN gtrak'[g] \/ Cardinality(DOMAIN gtrak[g]) >= NTrackGet
  <1> DEFINE h == HeaderOf(sent[k])
             r == Trackit(g, h, toobig)
             T == gtrak[g]
             l == sent[k].logo
             W == Wrapup(g, r.trak, EndOf(k))
  <1>1. h \in [logo : Logos, len : Nat, seq : 0 .. SeqMod - 1] /\ h.logo = l
    BY MessageKeys DEF HeaderOf
  <1>2. NextKey(g, h) = EndOf(k) /\ EndOf(k) \in Nat
    BY MessageKeys
  <1>3. gtrak'[g] = W
    BY <1>2, FinishEffect DEF RingInv
  <1>4. /\ r.trak \in [DOMAIN r.trak -> Tracker]
    <2>1. h \in [logo : Patterns, len : Nat, seq : 0 .. SeqMod - 1]
      BY <1>1 DEF Patterns
    <2> HIDE DEF h
    <2> QED
      BY <2>1, TrackitTypes DEF RingInv
  <1>5. LET full == l \notin DOMAIN T /\ Cardinality(DOMAIN T) >= NTrackGet
        IN  /\ DOMAIN r.trak = IF full THEN DOMAIN T ELSE DOMAIN T \cup {l}
            /\ \A t \in DOMAIN r.trak :
                 r.trak[t].keyout = IF t \in DOMAIN T THEN T[t].keyout ELSE 0
            /\ \A t \in DOMAIN T : t # l => r.trak[t] = T[t]
    <2> HIDE DEF h
    <2> QED
      BY <1>1, TrackitEffect DEF RingInv
  <1> HIDE DEF r
  <1>6. /\ DOMAIN W = DOMAIN r.trak
        /\ \A t \in DOMAIN r.trak :
             /\ W[t].keyout = IF Wanted(g, t) THEN EndOf(k) ELSE r.trak[t].keyout
             /\ W[t].active = r.trak[t].active
             /\ W[t].seq = r.trak[t].seq
    BY <1>2, <1>4, WrapupEffect
  <1> HIDE DEF W, T
  <1>7. \A t \in DOMAIN W :
              W[t].keyout = IF Wanted(g, t) THEN EndOf(k)
                            ELSE IF t \in DOMAIN T THEN T[t].keyout ELSE 0
    BY <1>5, <1>6
  <1>8. /\ DOMAIN T \subseteq DOMAIN W /\ DOMAIN W \subseteq DOMAIN T \cup {l}
        /\ \A t \in DOMAIN T : t # l => W[t].active = T[t].active /\ W[t].seq = T[t].seq
        /\ l \in DOMAIN W \/ Cardinality(DOMAIN T) >= NTrackGet
    BY <1>5, <1>6
  <1> QED
    BY <1>3, <1>7, <1>8 DEF T

(* Reading(g)' of a step that leaves the ring alone, part by part.         *)
LEMMA ReadingAfter ==
  ASSUME UNCHANGED putVars, NEW g \in Getters,
         get'[g].pc \notin {"reset", "exit"},
         \A t \in DOMAIN gtrak'[g] : \E k \in 0 .. npub : gtrak'[g][t].keyout = EndOf(k),
         get'[g].pc \in Searching => \E k \in 0 .. npub : get'[g].keyget = EndOf(k),
         get'[g].pc \in {"scan", "head", "body"} =>
           \E k \in 0 .. npub : get'[g].keyin = EndOf(k),
         get'[g].pc = "head" => Len(get'[g].buf) <= HDR,
         get'[g].pc = "body" =>
           /\ Len(get'[g].buf) <= HDR + get'[g].hd.len /\ get'[g].hd.logo \in Logos
           /\ \E pat \in get'[g].req : Matches(pat, get'[g].hd.logo),
         get'[g].pc \in {"head", "body"} =>
           \E k \in 1 .. npub :
             /\ get'[g].keyget = sent[k].at
             /\ keyold <= get'[g].keyget =>
                  \A i \in 1 .. Len(get'[g].buf) : get'[g].buf[i] = <<k, i - 1>>
             /\ get'[g].pc = "body" => get'[g].hd = HeaderOf(sent[k]) /\ get'[g].buf[1] = <<k, 0>>,
         get'[g].pc = "ret" /\ get'[g].status \in {"GET_OK", "GET_MISS", "GET_NOTRACK"} =>
           \E k \in 1 .. npub :
             /\ get'[g].hd = HeaderOf(sent[k]) /\ get'[g].buf[1] = <<k, 0>>
             /\ get'[g].buf = [i \in 1 .. Size(sent[k]) |-> <<k, i - 1>>],
         \A l \in Logos : /\ last'[g][l] <= npub
                          /\ last'[g][l] # 0 => sent[last'[g][l]].logo = l
  PROVE  Reading(g)'
  <1>1. npub' = npub /\ sent' = sent /\ keyold' = keyold
    BY DEF putVars
  <1>2. \A t \in DOMAIN gtrak'[g] : Boundary(gtrak[g][t].keyout)'
    BY <1>1 DEF Boundary, EndOf, Size
  <1>3. /\ get'[g].pc \in Searching => Boundary(get[g].keyget)'
        /\ get'[g].pc \in {"scan", "head", "body"} => Boundary(get[g].keyin)'
    BY <1>1 DEF Boundary, EndOf, Size
  <1>4. get'[g].pc = "body" => Wanted(g, get[g].hd.logo)'
    BY DEF Wanted
  <1>5. get'[g].pc \in {"head", "body"} => AtMessage(g)'
    BY <1>1 DEF AtMessage, HeaderOf
  <1>6. Delivered(g)'
    <2> SUFFICES ASSUME Returned(g, {"GET_OK", "GET_MISS", "GET_NOTRACK"})'
                 PROVE  /\ Got(g)' \in 1 .. npub'
                        /\ get'[g].hd = HeaderOf(sent'[Got(g)'])
                        /\ get'[g].buf = [i \in 1 .. Size(sent[Got(g)])' |-> <<Got(g)', i - 1>>]
      BY DEF Delivered, HeaderOf
    <2>1. PICK k \in 1 .. npub :
             /\ get'[g].hd = HeaderOf(sent[k]) /\ get'[g].buf[1] = <<k, 0>>
             /\ get'[g].buf = [i \in 1 .. Size(sent[k]) |-> <<k, i - 1>>]
      BY DEF Returned
    <2>2. Got(g)' = k
      BY <2>1 DEF Got
    <2>3. Size(sent[Got(g)])' = Size(sent[k]) /\ sent'[Got(g)'] = sent[k]
      BY <1>1, <2>2 DEF Size
    <2> QED
      BY <1>1, <2>1, <2>2, <2>3
  <1>7. \A l \in Logos : /\ last'[g][l] <= npub'
                         /\ last'[g][l] # 0 => sent'[last'[g][l]].logo = l
    BY <1>1
  <1> QED
    BY <1>2, <1>3, <1>4, <1>5, <1>6, <1>7 DEF Reading

LEMMA InitReading == Init => Plain /\ \A g \in Getters : Reading(g)
  <1> SUFFICES ASSUME Init PROVE Plain /\ \A g \in Getters : Reading(g)
    OBVIOUS
  <1>1. Plain
    BY DEF Init, Plain, EndOf, IdlePut, Resetting
  <1>2. ASSUME NEW g \in Getters PROVE Reading(g)
    <2>1. get[g].pc = "idle" /\ DOMAIN gtrak[g] = {}
      BY DEF Init, IdleGet, NoTable
    <2>2. \A l \in Logos : last[g][l] = 0 /\ npub = 0
      BY DEF Init
    <2> QED
      BY <2>1, <2>2 DEF Reading, Searching, Delivered, Returned
  <1> QED
    BY <1>1, <1>2

(* What a getter has got is published, also after its next step.           *)
LEMMA LastKept ==
  ASSUME RingInv, NEW g \in Getters, Reading(g), last' = last
  PROVE  \A l \in Logos : /\ last'[g][l] <= npub
                          /\ last'[g][l] # 0 => sent[last'[g][l]].logo = l
  BY DEF Reading

LEMMA StartReading ==
  ASSUME RingInv, Plain, NEW g \in Getters, Reading(g), UNCHANGED putVars,
         GetCall(g) \/ FindKey(g) \/ SnapIn(g) \/ ResetTrackers(g) \/ Return(g)
  PROVE  Reading(g)'
  <1>0. /\ TypeOK /\ npub \in Nat /\ ndel \in 0 .. npub /\ npub \in 0 .. npub /\ 0 \in 0 .. npub
        /\ EndOf(0) = 0 /\ keyold = EndOf(ndel) /\ keyin = EndOf(npub)
        /\ \A k \in 0 .. npub : EndOf(k) <= EndOf(npub) /\ EndOf(k) \in Nat
    <2>1. /\ npub \in Nat /\ ndel \in Nat /\ ndel <= npub /\ npub <= Len(sent) /\ Len(sent) \in Nat
          /\ \A j, k \in 0 .. Len(sent) : j <= k => EndOf(j) <= EndOf(k)
          /\ \A k \in 0 .. Len(sent) : EndOf(k) \in Nat
          /\ EndOf(0) = 0
      BY StreamFacts DEF RingInv
    <2>2. \A k \in 0 .. npub : k \in 0 .. Len(sent) /\ k <= npub
      BY <2>1
    <2>3. npub \in 0 .. Len(sent) /\ ndel \in 0 .. npub /\ npub \in 0 .. npub /\ 0 \in 0 .. npub
      BY <2>1
    <2> QED
      BY <2>1, <2>2, <2>3 DEF Plain, RingInv
  <1>1. CASE GetCall(g)
    <2>1. get'[g].pc = "find" /\ last' = last
      BY <1>0, <1>1, GetCallEffect
    <2>2. \A t \in DOMAIN gtrak'[g] :
            (t \in DOMAIN gtrak[g] /\ gtrak'[g][t] = gtrak[g][t]) \/ gtrak'[g][t].keyout = 0
      BY <1>0, <1>1, GetCallEffect
    <2>3. \A t \in DOMAIN gtrak'[g] : \E k \in 0 .. npub : gtrak'[g][t].keyout = EndOf(k)
      BY <1>0, <2>2 DEF Reading, Boundary
    <2> QED
      BY <2>1, <2>3, LastKept, ReadingAfter DEF Searching
  <1>2. CASE FindKey(g)
    <2>1. /\ get'[g].pc = "bound" /\ gtrak' = gtrak /\ last' = last
          /\ \/ get'[g].keyget = keyold
             \/ \E t \in DOMAIN gtrak[g] : get'[g].keyget = gtrak[g][t].keyout
      BY <1>0, <1>2, FindKeyEffect
    <2>2. \A t \in DOMAIN gtrak[g] : \E k \in 0 .. npub : gtrak[g][t].keyout = EndOf(k)
      BY DEF Reading, Boundary
    <2>3. \E k \in 0 .. npub : get'[g].keyget = EndOf(k)
      BY <1>0, <2>1, <2>2
    <2> QED
      BY <2>1, <2>2, <2>3, LastKept, ReadingAfter
  <1>3. CASE SnapIn(g)
    <2>1. /\ get[g].pc = "bound" /\ get'[g].keyin = keyin /\ get'[g].keyget = get[g].keyget
          /\ get'[g].pc = IF get[g].keyget > keyin THEN "reset" ELSE "scan"
          /\ gtrak' = gtrak /\ last' = last
      BY <1>0, <1>3, SnapInEffect
    <2>2. PICK k \in 0 .. npub : get[g].keyget = EndOf(k)
      BY <2>1 DEF Reading, Boundary, Searching
    <2>3. get'[g].pc = "scan"
      BY <1>0, <2>1, <2>2
    <2>4. \A t \in DOMAIN gtrak[g] : \E j \in 0 .. npub : gtrak[g][t].keyout = EndOf(j)
      BY DEF Reading, Boundary
    <2> QED
      BY <1>0, <2>1, <2>2, <2>3, <2>4, LastKept, ReadingAfter
  <1>4. CASE ResetTrackers(g)
    BY <1>4 DEF ResetTrackers, Reading
  <1>5. CASE Return(g)
    <2>1. get'[g].pc = "idle" /\ gtrak' = gtrak /\ last' = last
      BY <1>0, <1>5, ReturnEffect
    <2>2. \A t \in DOMAIN gtrak[g] : \E k \in 0 .. npub : gtrak[g][t].keyout = EndOf(k)
      BY DEF Reading, Boundary
    <2> QED
      BY <2>1, <2>2, LastKept, ReadingAfter DEF Searching
  <1> QED
    BY <1>1, <1>2, <1>3, <1>4, <1>5

(* The stream, seen by a getter.                                           *)
LEMMA GetterStream ==
  ASSUME RingInv, Plain
  PROVE  /\ TypeOK /\ npub \in Nat /\ ndel \in 0 .. npub /\ npub \in 0 .. npub
         /\ keyold = EndOf(ndel) /\ keyin = EndOf(npub)
         /\ npub > 0 => ndel < npub
         /\ \A k \in 0 .. npub : EndOf(k) \in Nat
         /\ \A j, k \in 0 .. npub : (j <= k => EndOf(j) <= EndOf(k)) /\ (j < k => EndOf(j) < EndOf(k))
         /\ \A k \in 1 .. npub : sent[k].at = EndOf(k - 1)
  <1>1. /\ npub \in Nat /\ ndel \in Nat /\ ndel <= npub /\ npub <= Len(sent) /\ Len(sent) \in Nat
        /\ \A j, k \in 0 .. Len(sent) : (j <= k => EndOf(j) <= EndOf(k)) /\ (j < k => EndOf(j) < EndOf(k))
        /\ \A k \in 0 .. Len(sent) : EndOf(k) \in Nat
        /\ \A k \in 1 .. Len(sent) : sent[k].at = EndOf(k - 1)
    BY StreamFacts DEF RingInv
  <1>2. \A k \in 0 .. npub : k \in 0 .. Len(sent) /\ (k # 0 => k \in 1 .. Len(sent))
    BY <1>1
  <1>3. \A k \in 1 .. npub : k \in 1 .. Len(sent)
    BY <1>1
  <1>4. ndel \in 0 .. npub /\ npub \in 0 .. npub
    BY <1>1
  <1> QED
    BY <1>1, <1>2, <1>3, <1>4 DEF Plain, RingInv

(* The scan goes on from the start of a message, which is at keyold or     *)
(* behind it.                                                              *)
LEMMA ScanReading ==
  ASSUME RingInv, Plain, NEW g \in Getters, Reading(g), UNCHANGED putVars, Scan(g)
  PROVE  Reading(g)'
  <1>1. get[g].pc = "scan" /\ last' = last /\ TypeOK
    BY ScanEffect DEF RingInv
  <1>2. PICK j \in 0 .. npub : get[g].keyget = EndOf(j)
    BY <1>1 DEF Reading, Boundary, Searching
  <1>3. PICK m \in 0 .. npub : get[g].keyin = EndOf(m)
    BY <1>1 DEF Reading, Boundary
  <1>4. \A t \in DOMAIN gtrak[g] : \E k \in 0 .. npub : gtrak[g][t].keyout = EndOf(k)
    BY DEF Reading, Boundary
  <1>5. CASE /\ get[g].keyget < get[g].keyin /\ get'[g].pc = "head" /\ get'[g].buf = <<>>
             /\ get'[g].keyget = IF get[g].keyget < keyold THEN keyold ELSE get[g].keyget
             /\ get'[g].keyin = get[g].keyin /\ gtrak' = gtrak
    <2> DEFINE o == IF EndOf(j) < EndOf(ndel) THEN ndel ELSE j
    <2>1. j < m
      <3> SUFFICES ASSUME m <= j PROVE FALSE
        BY <1>2, <1>3, GetterStream
      <3>1. EndOf(m) <= EndOf(j) /\ EndOf(m) \in Nat /\ EndOf(j) \in Nat
        BY GetterStream
      <3> QED
        BY <1>2, <1>3, <1>5, <3>1
    <2>2. o \in 0 .. npub /\ o < npub /\ npub \in Nat
      BY <2>1, GetterStream
    <2>3. get'[g].keyget = EndOf(o)
      BY <1>2, <1>5, GetterStream
    <2> HIDE DEF o
    <2>4. o + 1 \in 1 .. npub /\ (o + 1) - 1 = o
      BY <2>2
    <2>5. sent[o + 1].at = EndOf(o)
      BY <2>4, GetterStream
    <2>6. Len(get'[g].buf) = 0 /\ 0 <= HDR
      BY <1>5, Constants
    <2>7. \E k \in 1 .. npub :
             /\ get'[g].keyget = sent[k].at
             /\ \A i \in 1 .. Len(get'[g].buf) : get'[g].buf[i] = <<k, i - 1>>
      BY <2>3, <2>4, <2>5, <2>6
    <2>8. get'[g].pc = "head" /\ \E k \in 0 .. npub : get'[g].keyget = EndOf(k)
      BY <1>5, <2>2, <2>3
    <2>9. \E k \in 0 .. npub : get'[g].keyin = EndOf(k)
      BY <1>3, <1>5
    <2>10. \A t \in DOMAIN gtrak'[g] : \E k \in 0 .. npub : gtrak'[g][t].keyout = EndOf(k)
      BY <1>4, <1>5
    <2> QED
      BY <1>1, <2>6, <2>7, <2>8, <2>9, <2>10, LastKept, ReadingAfter
  <1>6. CASE /\ get'[g].pc = "ret" /\ get'[g].status = "GET_NONE"
             /\ gtrak'[g] = Wrapup(g, gtrak[g], get[g].keyget)
    <2>1. gtrak[g] \in [DOMAIN gtrak[g] -> Tracker] /\ get[g].keyget \in Nat
      BY <1>1, GetterFacts
    <2>2. /\ DOMAIN gtrak'[g] = DOMAIN gtrak[g]
          /\ \A t \in DOMAIN gtrak[g] :
               gtrak'[g][t].keyout = IF Wanted(g, t) THEN get[g].keyget ELSE gtrak[g][t].keyout
      BY <1>6, <2>1, WrapupEffect
    <2>3. \A t \in DOMAIN gtrak'[g] : \E k \in 0 .. npub : gtrak'[g][t].keyout = EndOf(k)
      BY <1>2, <1>4, <2>2
    <2> QED
      BY <1>1, <1>6, <2>3, LastKept, ReadingAfter DEF Searching
  <1> QED
    BY <1>1, <1>5, <1>6, ScanEffect

(* The cell read is the next one of the message, unless that was deleted.  *)
LEMMA ReadCellReading ==
  ASSUME RingInv, Plain, KeysFit, NEW g \in Getters, Reading(g), UNCHANGED putVars, ReadCell(g)
  PROVE  Reading(g)'
  <1> DEFINE b == get[g].buf
             n == Len(b)
             c == ring[Slot(get[g].keyget + n)]
  <1>1. /\ \/ get[g].pc = "head" /\ n < HDR
           \/ get[g].pc = "body" /\ n < HDR + get[g].hd.len
        /\ get'[g].pc = get[g].pc /\ get'[g].keyget = get[g].keyget
        /\ get'[g].keyin = get[g].keyin /\ get'[g].hd = get[g].hd /\ get'[g].req = get[g].req
        /\ get'[g].buf = Append(b, c) /\ gtrak' = gtrak /\ last' = last
    BY ReadCellEffect DEF RingInv
  <1>2. /\ b \in Seq(Cells) /\ n \in Nat /\ HDR \in Nat \ {0} /\ keyold \in Nat
        /\ get[g].keyget \in Nat /\ (get[g].pc = "body" => n >= HDR)
        /\ get[g].hd.len \in Nat
    BY GetterFacts DEF RingInv
  <1>3. /\ Len(get'[g].buf) = n + 1 /\ get'[g].buf[n + 1] = c
        /\ \A i \in 1 .. n : get'[g].buf[i] = b[i]
    BY <1>1, <1>2
  <1>4. PICK k \in 1 .. npub :
          /\ get[g].keyget = sent[k].at
          /\ keyold <= get[g].keyget => \A i \in 1 .. n : b[i] = <<k, i - 1>>
          /\ get[g].pc = "body" => get[g].hd = HeaderOf(sent[k]) /\ b[1] = <<k, 0>>
    BY <1>1 DEF Reading, AtMessage
  <1>5. /\ sent[k].at \in Nat /\ EndOf(k) = sent[k].at + Size(sent[k])
        /\ Size(sent[k]) \in Nat \ {0} /\ Size(sent[k]) = HDR + sent[k].len
        /\ sent[k].len \in Nat /\ sent[k].at < EndOf(k)
    BY MessageKeys
  <1> HIDE DEF b, n, c
  <1>6. n < Size(sent[k])
    <2>1. get[g].pc = "body" => get[g].hd.len = sent[k].len
      BY <1>4 DEF HeaderOf
    <2> QED
      BY <1>1, <1>2, <1>5, <2>1
  <1>7. ASSUME keyold <= get[g].keyget
        PROVE  \A i \in 1 .. Len(get'[g].buf) : get'[g].buf[i] = <<k, i - 1>>
    <2>1. keyold < EndOf(k)
      <3>1. keyold <= sent[k].at /\ EndOf(k) \in Nat
        BY <1>4, <1>7, MessageKeys
      <3> QED
        BY <1>2, <1>5, <3>1
    <2>2. \A i \in 0 .. Size(sent[k]) - 1 : ring[Slot(sent[k].at + i)] = <<k, i>>
      BY <2>1, NotLapped
    <2>3. n \in 0 .. Size(sent[k]) - 1
      BY <1>2, <1>5, <1>6
    <2>4. c = <<k, n>>
      BY <1>4, <2>2, <2>3 DEF c
    <2> SUFFICES ASSUME NEW i \in 1 .. n + 1 PROVE get'[g].buf[i] = <<k, i - 1>>
      BY <1>3
    <2>5. CASE i = n + 1
      BY <1>2, <1>3, <2>4, <2>5
    <2>6. CASE i \in 1 .. n
      BY <1>3, <1>4, <1>7, <2>6
    <2> QED
      BY <1>2, <2>5, <2>6
  <1>8. get'[g].pc = "body" => get'[g].hd = HeaderOf(sent[k]) /\ get'[g].buf[1] = <<k, 0>>
    <2> SUFFICES ASSUME get[g].pc = "body" PROVE get'[g].buf[1] = <<k, 0>>
      BY <1>1, <1>4
    <2>1. 1 \in 1 .. n
      BY <1>2
    <2> QED
      BY <1>3, <1>4, <2>1
  <1>9. get'[g].pc = "head" => Len(get'[g].buf) <= HDR
    BY <1>1, <1>2, <1>3
  <1>10. get'[g].pc = "body" =>
           /\ Len(get'[g].buf) <= HDR + get'[g].hd.len /\ get'[g].hd.logo \in Logos
           /\ \E pat \in get'[g].req : Matches(pat, get'[g].hd.logo)
    <2> SUFFICES ASSUME get[g].pc = "body"
                 PROVE  /\ n + 1 <= HDR + get[g].hd.len /\ get[g].hd.logo \in Logos
                        /\ \E pat \in get[g].req : Matches(pat, get[g].hd.logo)
      BY <1>1, <1>3
    <2>1. get[g].hd.logo \in Logos /\ Wanted(g, get[g].hd.logo)
      BY DEF Reading
    <2>2. n + 1 <= HDR + get[g].hd.len
      BY <1>1, <1>2
    <2> QED
      BY <2>1, <2>2 DEF Wanted
  <1>11. get'[g].pc \in {"head", "body"} /\ get[g].pc \in {"head", "body"}
    BY <1>1
  <1>12. \A t \in DOMAIN gtrak'[g] : \E j \in 0 .. npub : gtrak'[g][t].keyout = EndOf(j)
    BY <1>1 DEF Reading, Boundary
  <1>13. \E j \in 0 .. npub : get'[g].keyget = EndOf(j)
    BY <1>1, <1>11 DEF Reading, Boundary, Searching
  <1>14. \E j \in 0 .. npub : get'[g].keyin = EndOf(j)
    BY <1>1, <1>11 DEF Reading, Boundary
  <1>15. get'[g].keyget = sent[k].at
    BY <1>1, <1>4
  <1>16. \A l \in Logos : /\ last'[g][l] <= npub
                          /\ last'[g][l] # 0 => sent[last'[g][l]].logo = l
    BY <1>1, LastKept
  <1>17. \E j \in 1 .. npub :
           /\ get'[g].keyget = sent[j].at
           /\ keyold <= get'[g].keyget =>
                \A i \in 1 .. Len(get'[g].buf) : get'[g].buf[i] = <<j, i - 1>>
           /\ get'[g].pc = "body" => get'[g].hd = HeaderOf(sent[j]) /\ get'[g].buf[1] = <<j, 0>>
    BY <1>1, <1>7, <1>8, <1>15
  <1>18. get'[g].pc \notin {"reset", "exit", "ret"}
    BY <1>11
  <1> QED
    BY <1>9, <1>10, <1>12, <1>13, <1>14, <1>16, <1>17, <1>18, ReadingAfter

LEMMA RescanReading ==
  ASSUME RingInv, NEW g \in Getters, Reading(g), UNCHANGED putVars,
         get[g].pc \in {"head", "body"}, NEW j \in 0 .. npub, Rescan(g, EndOf(j))
  PROVE  Reading(g)'
  <1>1. /\ get'[g].pc = "scan" /\ get'[g].keyget = EndOf(j) /\ get'[g].keyin = get[g].keyin
        /\ gtrak' = gtrak /\ last' = last
    BY RescanEffect DEF RingInv
  <1>2. \E k \in 0 .. npub : get'[g].keyin = EndOf(k)
    BY <1>1 DEF Reading, Boundary
  <1>3. \A t \in DOMAIN gtrak'[g] : \E k \in 0 .. npub : gtrak'[g][t].keyout = EndOf(k)
    BY <1>1 DEF Reading, Boundary
  <1>4. \E k \in 0 .. npub : get'[g].keyget = EndOf(k)
    BY <1>1
  <1> QED
    BY <1>1, <1>2, <1>3, <1>4, LastKept, ReadingAfter

(* What the getter returns with, and what it will remember.                *)
LEMMA FinishReading ==
  ASSUME RingInv, Plain, KeysFit, NEW g \in Getters, Reading(g), UNCHANGED putVars,
         NEW k \in 1 .. npub, NEW toobig \in BOOLEAN,
         get[g].keyget = sent[k].at, get[g].buf[1] = <<k, 0>>,
         ~ toobig => get[g].buf = [i \in 1 .. Size(sent[k]) |-> <<k, i - 1>>],
         Finish(g, HeaderOf(sent[k]), toobig)
  PROVE  Reading(g)'
  <1> DEFINE h == HeaderOf(sent[k])
  <1>1. /\ h \in [logo : Logos, len : Nat, seq : 0 .. SeqMod - 1]
        /\ sent[k].logo \in Logos /\ k \in 0 .. npub
    BY MessageKeys
  <1>2. /\ get'[g].pc = "ret" /\ get'[g].hd = h /\ get'[g].buf = get[g].buf
        /\ toobig => last' = last
        /\ ~ toobig => last' = [last EXCEPT ![g][sent[k].logo] = k]
        /\ get'[g].status = Trackit(g, h, toobig).status
    BY FinishEffect DEF RingInv
  <1>3. toobig => Trackit(g, h, toobig).status = "GET_TOOBIG"
    BY DEF Trackit
  <1>4. ASSUME NEW t \in DOMAIN gtrak'[g]
        PROVE  \E j \in 0 .. npub : gtrak'[g][t].keyout = EndOf(j)
    <2>1. gtrak'[g][t].keyout = IF Wanted(g, t) THEN EndOf(k)
                                ELSE IF t \in DOMAIN gtrak[g] THEN gtrak[g][t].keyout
                                ELSE 0
      BY FinishKeys
    <2>2. 0 \in 0 .. npub /\ EndOf(0) = 0
      BY GetterStream DEF EndOf
    <2>3. t \in DOMAIN gtrak[g] => \E j \in 0 .. npub : gtrak[g][t].keyout = EndOf(j)
      BY DEF Reading, Boundary
    <2> QED
      BY <1>1, <2>1, <2>2, <2>3
  <1>5. ASSUME NEW l \in Logos
        PROVE  last'[g][l] <= npub /\ (last'[g][l] # 0 => sent[last'[g][l]].logo = l)
    <2>1. last[g][l] <= npub /\ (last[g][l] # 0 => sent[last[g][l]].logo = l)
      BY DEF Reading
    <2>2. CASE toobig
      BY <1>2, <2>1, <2>2
    <2>3. CASE ~ toobig
      <3>1. last \in [Getters -> [Logos -> 0 .. Len(sent)]]
        BY GetterFacts DEF RingInv
      <3>2. last'[g][l] = IF l = sent[k].logo THEN k ELSE last[g][l]
        BY <1>2, <2>3, <3>1
      <3>3. k <= npub
        OBVIOUS
      <3> QED
        BY <2>1, <3>2, <3>3
    <2> QED
      BY <2>2, <2>3
  <1>6. get'[g].status \in {"GET_OK", "GET_MISS", "GET_NOTRACK"} =>
          get'[g].buf = [i \in 1 .. Size(sent[k]) |-> <<k, i - 1>>]
    BY <1>2, <1>3
  <1>7. get'[g].buf[1] = <<k, 0>> /\ get'[g].hd = HeaderOf(sent[k])
    BY <1>2
  <1> QED
    BY <1>2, <1>4, <1>5, <1>6, <1>7, ReadingAfter DEF Searching

LEMMA CheckReading ==
  ASSUME RingInv, Plain, KeysFit, NEW g \in Getters, Reading(g), UNCHANGED putVars,
         CheckHeader(g) \/ CheckCopied(g)
  PROVE  Reading(g)'
  <1>1. CASE CheckHeader(g)
    <2>1. get[g].pc = "head"
      BY <1>1 DEF CheckHeader
    <2>2. CASE Rescan(g, get[g].keyget)
      <3>1. PICK j \in 0 .. npub : get[g].keyget = EndOf(j)
        BY <2>1 DEF Reading, Boundary, Searching
      <3> QED
        BY <2>1, <2>2, <3>1, RescanReading
    <2>3. CASE ~ Rescan(g, get[g].keyget)
      <3>1. PICK k \in 1 .. npub :
              /\ get[g].keyget = sent[k].at
              /\ get[g].buf[1] = <<k, 0>>
              /\ \/ Rescan(g, EndOf(k))
                 \/ Wanted(g, sent[k].logo) /\ Finish(g, HeaderOf(sent[k]), TRUE)
                 \/ /\ Wanted(g, sent[k].logo)
                    /\ get' = [get EXCEPT ![g].pc = "body", ![g].hd = HeaderOf(sent[k])]
                    /\ UNCHANGED <<gtrak, last>>
              /\ \A i \in 1 .. Len(get[g].buf) : get[g].buf[i] = <<k, i - 1>>
              /\ Len(get[g].buf) = HDR
        BY <1>1, <2>3, HeaderOutcome
      <3>2. k \in 0 .. npub /\ sent[k].logo \in Logos /\ sent[k].len \in Nat
        BY MessageKeys
      <3>3. CASE Rescan(g, EndOf(k))
        BY <2>1, <3>2, <3>3, RescanReading
      <3>4. CASE Finish(g, HeaderOf(sent[k]), TRUE)
        BY <3>1, <3>4, FinishReading
      <3>5. CASE /\ Wanted(g, sent[k].logo)
                 /\ get' = [get EXCEPT ![g].pc = "body", ![g].hd = HeaderOf(sent[k])]
                 /\ UNCHANGED <<gtrak, last>>
        <4>1. /\ get'[g].pc = "body" /\ get'[g].hd = HeaderOf(sent[k])
              /\ get'[g].buf = get[g].buf
              /\ get'[g].keyget = get[g].keyget /\ get'[g].keyin = get[g].keyin
              /\ get'[g].req = get[g].req
          BY <3>5, BodyEffect DEF RingInv
        <4>2. HeaderOf(sent[k]).logo = sent[k].logo /\ HeaderOf(sent[k]).len = sent[k].len
          BY DEF HeaderOf
        <4>3. HDR <= HDR + sent[k].len
          BY <3>2, Constants
        <4>4. /\ Len(get'[g].buf) <= HDR + get'[g].hd.len /\ get'[g].hd.logo \in Logos
              /\ \E pat \in get'[g].req : Matches(pat, get'[g].hd.logo)
          BY <3>1, <3>2, <3>5, <4>1, <4>2, <4>3 DEF Wanted
        <4>5. \A t \in DOMAIN gtrak'[g] : \E j \in 0 .. npub : gtrak'[g][t].keyout = EndOf(j)
          BY <3>5 DEF Reading, Boundary
        <4>6. /\ \E j \in 0 .. npub : get'[g].keyget = EndOf(j)
              /\ \E j \in 0 .. npub : get'[g].keyin = EndOf(j)
          BY <2>1, <4>1 DEF Reading, Boundary, Searching
        <4>7. \E j \in 1 .. npub :
             /\ get'[g].keyget = sent[j].at
             /\ keyold <= get'[g].keyget =>
                  \A i \in 1 .. Len(get'[g].buf) : get'[g].buf[i] = <<j, i - 1>>
             /\ get'[g].hd = HeaderOf(sent[j]) /\ get'[g].buf[1] = <<j, 0>>
          BY <3>1, <4>1
        <4>8. \A l \in Logos : /\ last'[g][l] <= npub
                               /\ last'[g][l] # 0 => sent[last'[g][l]].logo = l
          BY <3>5, LastKept
        <4>9. get'[g].pc \notin {"reset", "exit", "ret", "head"}
          BY <4>1
        <4> QED
          BY <4>4, <4>5, <4>6, <4>7, <4>8, <4>9, ReadingAfter
      <3> QED
        BY <3>1, <3>3, <3>4, <3>5
    <2> QED
      BY <2>2, <2>3
  <1>2. CASE CheckCopied(g)
    <2>1. PICK k \in 1 .. npub :
           /\ get[g].keyget = sent[k].at
           /\ \/ Rescan(g, keyold)
              \/ /\ Finish(g, HeaderOf(sent[k]), FALSE)
                 /\ get[g].buf[1] = <<k, 0>>
                 /\ get[g].buf = [i \in 1 .. Size(sent[k]) |-> <<k, i - 1>>]
      BY <1>2, CopiedOutcome
    <2>2. CASE Rescan(g, keyold)
      <3>1. keyold = EndOf(ndel) /\ ndel \in 0 .. npub /\ get[g].pc = "body"
        BY <1>2, GetterStream DEF CheckCopied
      <3> QED
        BY <2>2, <3>1, RescanReading
    <2>3. CASE /\ Finish(g, HeaderOf(sent[k]), FALSE)
               /\ get[g].buf[1] = <<k, 0>>
               /\ get[g].buf = [i \in 1 .. Size(sent[k]) |-> <<k, i - 1>>]
      BY <2>1, <2>3, FinishReading
    <2> QED
      BY <2>1, <2>2, <2>3
  <1> QED
    BY <1>1, <1>2

(* Where getters stand, as long as the keys need no reset.                 *)
ReadInv == RingInv /\ (KeysFit => Plain /\ \A g \in Getters : Reading(g))

LEMMA StepRead == ASSUME TwoFit, ReadInv, [Next]_vars PROVE ReadInv'
  <1>1. RingInv /\ RingInv'
    BY StepRing DEF ReadInv
  <1> SUFFICES ASSUME KeysFit' PROVE Plain' /\ \A g \in Getters : Reading(g)'
    BY <1>1 DEF ReadInv
  <1>2. KeysFit /\ Plain /\ \A g \in Getters : Reading(g)
    BY <1>1, FitBefore DEF ReadInv
  <1>3. CASE \E p \in Putters : PutCall(p) \/ Acquire(p) \/ PutStep(p) \/ Kill(p) \/ Restart(p)
    <2>1. /\ UNCHANGED getVars /\ Plain' /\ npub <= npub' /\ keyold <= keyold'
      BY <1>1, <1>2, <1>3, PutterEffect
    <2>2. npub' \in Nat /\ keyold' \in Nat
      BY <1>1 DEF RingInv, TypeOK, RingTypes
    <2>3. ASSUME NEW g \in Getters PROVE Reading(g)'
      <3>1. get'[g] = get[g] /\ gtrak'[g] = gtrak[g] /\ last'[g] = last[g]
        BY <2>1 DEF getVars
      <3> QED
        BY <1>1, <1>2, <2>1, <2>2, <3>1, ReadingFrame
    <2> QED
      BY <2>1, <2>3
  <1>4. ASSUME UNCHANGED putVars PROVE Plain'
    BY <1>2, <1>4 DEF putVars, Plain, EndOf, Size
  <1>5. ASSUME UNCHANGED vars, NEW g \in Getters PROVE Reading(g)'
    <2>1. UNCHANGED putVars /\ npub' = npub /\ keyold' = keyold /\ npub \in Nat /\ keyold \in Nat
      BY <1>1, <1>5 DEF vars, putVars, RingInv, TypeOK, RingTypes
    <2>2. npub <= npub' /\ keyold <= keyold' /\ npub' \in Nat /\ keyold' \in Nat
      BY <2>1
    <2>3. get'[g] = get[g] /\ gtrak'[g] = gtrak[g] /\ last'[g] = last[g]
      BY <1>5 DEF vars
    <2> QED
      BY <1>1, <1>2, <1>4, <2>1, <2>2, <2>3, ReadingFrame
  <1>6. ASSUME NEW g \in Getters, GetCall(g) \/ GetStep(g), NEW h \in Getters PROVE Reading(h)'
    <2>1. UNCHANGED putVars
      BY <1>6, GetterFrame
    <2>2. CASE h = g
      BY <1>1, <1>2, <1>6, <2>1, <2>2, StartReading, ScanReading, ReadCellReading, CheckReading
      DEF GetStep
    <2>3. CASE h # g
      <3>1. get'[h] = get[h] /\ gtrak'[h] = gtrak[h] /\ last'[h] = last[h]
        BY <1>1, <1>6, <2>3, OtherGetters DEF RingInv
      <3>2. npub <= npub' /\ keyold <= keyold' /\ npub' \in Nat /\ keyold' \in Nat
        BY <1>1, <2>1 DEF putVars, RingInv, TypeOK, RingTypes
      <3> QED
        BY <1>1, <1>2, <1>4, <2>1, <3>1, <3>2, ReadingFrame
    <2> QED
      BY <2>2, <2>3
  <1>7. CASE \E g \in Getters : GetCall(g) \/ GetStep(g)
    BY <1>4, <1>6, <1>7, GetterFrame
  <1>8. CASE UNCHANGED vars
    BY <1>4, <1>5, <1>8 DEF vars, putVars
  <1> QED
    BY <1>3, <1>7, <1>8 DEF Next

LEMMA ReadAlways == ASSUME TwoFit PROVE Spec => []ReadInv
  <1>1. Init => ReadInv
    BY InitRing, InitReading DEF ReadInv
  <1>2. ReadInv /\ [Next]_vars => ReadInv'
    BY StepRead
  <1> QED
    BY <1>1, <1>2, PTL DEF Spec

(* As long as the keys fit their word, what tport_getmsg returns is one    *)
(* message as it was put, whole, although getters take no lock.            *)
THEOREM WholeMessagesOnly ==
  ASSUME TwoFit PROVE Spec => [](KeysFit => DeliveredIntact)
  <1>1. ReadInv => (KeysFit => DeliveredIntact)
    <2> SUFFICES ASSUME ReadInv, KeysFit, NEW g \in Getters,
                        Returned(g, {"GET_OK", "GET_MISS", "GET_NOTRACK"})
                 PROVE  /\ Got(g) <= npub
                        /\ get[g].hd = HeaderOf(sent[Got(g)])
                        /\ get[g].buf = [i \in 1 .. Size(sent[Got(g)]) |-> <<Got(g), i - 1>>]
      BY DEF DeliveredIntact
    <2>1. Delivered(g)
      BY DEF ReadInv, Reading
    <2>2. npub \in Nat
      BY DEF ReadInv, RingInv, TypeOK, RingTypes
    <2> QED
      BY <2>1, <2>2 DEF Delivered
  <1> QED
    BY <1>1, ReadAlways, PTL

(* As long as the keys fit their word, a getter never loses its place in   *)
(* the ring ("keyget not at FIRST_BYTE"), which would end its process.     *)
THEOREM PlaceNeverLost ==
  ASSUME TwoFit PROVE Spec => [](KeysFit => NoGetterExit)
  <1>1. ReadInv => (KeysFit => NoGetterExit)
    BY DEF ReadInv, Reading, NoGetterExit
  <1> QED
    BY <1>1, ReadAlways, PTL

-----------------------------------------------------------------------------
(***************************************************************************)
(* Trackers: no search begins before what was got.                         *)
(***************************************************************************)

(* A getter's table has an entry for every logo it could get, or the       *)
(* getter asks for the same logos in every call.                           *)
SameRequests(g) == \A r, s \in Requests[g] : r = s
RoomToTrack ==
  \A g \in Getters : NTrackGet > Cardinality(Logos) \/ (NTrackGet > 0 /\ SameRequests(g))

(* Every request for logo l also consults tracker t.                       *)
Covers(g, t, l) ==
  \A req \in Requests[g] :
    (\E pat \in req : Matches(pat, l)) => \E pat \in req : Matches(pat, t)

(* No search begins before what was got of a logo it is for.               *)
Ordered(g) ==
  /\ get[g].pc # "idle" => get[g].req \in Requests[g]
  /\ \A l \in Logos : last[g][l] # 0 =>
       \E t \in DOMAIN gtrak[g] : Covers(g, t, l) /\ EndOf(last[g][l]) <= gtrak[g][t].keyout
  /\ get[g].pc \in Searching =>
       /\ \A l \in Logos : Wanted(g, l) => EndOf(last[g][l]) <= get[g].keyget
       /\ \A t \in DOMAIN gtrak[g] : Wanted(g, t) => gtrak[g][t].keyout <= get[g].keyget
  /\ SameRequests(g) =>
       /\ \A r \in Requests[g] : r = {} \/ DOMAIN gtrak[g] = {} \/ r \cap DOMAIN gtrak[g] # {}
       /\ get[g].pc # "idle" => get[g].req = {} \/ get[g].req \cap DOMAIN gtrak[g] # {}
  /\ Returned(g, {"GET_OK", "GET_MISS", "GET_NOTRACK"}) => Got(g) > get[g].prev

LEMMA OrderedFrame ==
  ASSUME RingInv, [Next]_vars, NEW g \in Getters, Reading(g), Ordered(g),
         get'[g] = get[g], gtrak'[g] = gtrak[g], last'[g] = last[g]
  PROVE  Ordered(g)'
  <1>1. ASSUME NEW l \in Logos PROVE EndOf(last[g][l])' = EndOf(last[g][l])
    <2>1. last[g][l] \in Nat /\ last[g][l] <= npub /\ npub <= Len(sent) /\ Len(sent) \in Nat
      BY StreamFacts, GetterFacts DEF RingInv, Reading
    <2>2. last[g][l] \in 0 .. Len(sent)
      BY <2>1, StreamFacts DEF RingInv
    <2>3. ASSUME NEW k \in 0 .. Len(sent), last'[g][l] = k PROVE EndOf(last[g][l])' = EndOf(k)
      <3>1. EndOf(k)' = EndOf(k)
        BY SentGrows
      <3> QED
        BY <2>3, <3>1 DEF EndOf, Size
    <2> QED
      BY <2>2, <2>3
  <1>2. \A l \in Logos : last'[g][l] # 0 =>
       \E t \in DOMAIN gtrak'[g] : Covers(g, t, l) /\ EndOf(last[g][l])' <= gtrak'[g][t].keyout
    BY <1>1 DEF Ordered
  <1>3. get'[g].pc \in Searching =>
       /\ \A l \in Logos : Wanted(g, l)' => EndOf(last[g][l])' <= get'[g].keyget
       /\ \A t \in DOMAIN gtrak'[g] : Wanted(g, t)' => gtrak'[g][t].keyout <= get'[g].keyget
    BY <1>1 DEF Ordered, Wanted
  <1>4. Returned(g, {"GET_OK", "GET_MISS", "GET_NOTRACK"})' => Got(g)' > get'[g].prev
    BY DEF Ordered, Returned, Got
  <1>5. SameRequests(g) =>
       /\ \A r \in Requests[g] : r = {} \/ DOMAIN gtrak'[g] = {} \/ r \cap DOMAIN gtrak'[g] # {}
       /\ get'[g].pc # "idle" => get'[g].req = {} \/ get'[g].req \cap DOMAIN gtrak'[g] # {}
    BY DEF Ordered
  <1>6. get'[g].pc # "idle" => get'[g].req \in Requests[g]
    BY DEF Ordered
  <1> HIDE DEF Covers, SameRequests, Returned, Got, Searching
  <1> QED
    BY <1>2, <1>3, <1>4, <1>5, <1>6 DEF Ordered, Covers, SameRequests

LEMMA OrderedAfter ==
  ASSUME UNCHANGED putVars, NEW g \in Getters,
         get'[g].pc # "idle" => get'[g].req \in Requests[g],
         \A l \in Logos : last'[g][l] # 0 =>
           \E t \in DOMAIN gtrak'[g] : Covers(g, t, l) /\ EndOf(last'[g][l]) <= gtrak'[g][t].keyout,
         get'[g].pc \in Searching =>
           /\ \A l \in Logos :
                (\E pat \in get'[g].req : Matches(pat, l)) => EndOf(last'[g][l]) <= get'[g].keyget
           /\ \A t \in DOMAIN gtrak'[g] :
                (\E pat \in get'[g].req : Matches(pat, t)) => gtrak'[g][t].keyout <= get'[g].keyget,
         SameRequests(g) =>
           /\ \A r \in Requests[g] : r = {} \/ DOMAIN gtrak'[g] = {} \/ r \cap DOMAIN gtrak'[g] # {}
           /\ get'[g].pc # "idle" => get'[g].req = {} \/ get'[g].req \cap DOMAIN gtrak'[g] # {},
         get'[g].pc = "ret" /\ get'[g].status \in {"GET_OK", "GET_MISS", "GET_NOTRACK"} =>
           get'[g].buf[1][1] > get'[g].prev
  PROVE  Ordered(g)'
  <1>1. sent' = sent
    BY DEF putVars
  <1>2. \A l \in Logos : last'[g][l] # 0 =>
       \E t \in DOMAIN gtrak'[g] : Covers(g, t, l) /\ EndOf(last[g][l])' <= gtrak'[g][t].keyout
    BY <1>1 DEF EndOf, Size
  <1>3. get'[g].pc \in Searching =>
       /\ \A l \in Logos : Wanted(g, l)' => EndOf(last[g][l])' <= get'[g].keyget
       /\ \A t \in DOMAIN gtrak'[g] : Wanted(g, t)' => gtrak'[g][t].keyout <= get'[g].keyget
    BY <1>1 DEF EndOf, Size, Wanted
  <1>4. Returned(g, {"GET_OK", "GET_MISS", "GET_NOTRACK"})' => Got(g)' > get'[g].prev
    BY DEF Returned, Got
  <1> QED
    BY <1>2, <1>3, <1>4 DEF Ordered, Covers, SameRequests

LEMMA InitOrdered == Init => \A g \in Getters : Ordered(g)
  <1> SUFFICES ASSUME Init, NEW g \in Getters PROVE Ordered(g)
    OBVIOUS
  <1>1. get[g].pc = "idle" /\ DOMAIN gtrak[g] = {} /\ \A l \in Logos : last[g][l] = 0
    BY DEF Init, IdleGet, NoTable
  <1> QED
    BY <1>1 DEF Ordered, Searching, Returned

(* Trackers only move on, and none is forgotten.                           *)
LEMMA OnlyOn ==
  ASSUME RingInv, NEW g \in Getters, Ordered(g),
         DOMAIN gtrak[g] \subseteq DOMAIN gtrak'[g],
         \A t \in DOMAIN gtrak[g] : gtrak[g][t].keyout <= gtrak'[g][t].keyout
                                    /\ gtrak'[g][t].keyout \in Nat,
         NEW l \in Logos, last'[g][l] = last[g][l], EndOf(last[g][l]) \in Nat, last'[g][l] # 0
  PROVE  \E t \in DOMAIN gtrak'[g] : Covers(g, t, l) /\ EndOf(last'[g][l]) <= gtrak'[g][t].keyout
  <1>1. PICK t \in DOMAIN gtrak[g] : Covers(g, t, l) /\ EndOf(last[g][l]) <= gtrak[g][t].keyout
    BY DEF Ordered
  <1>2. gtrak[g][t].keyout \in Nat
    BY <1>1, GetterFacts DEF RingInv, Tracker
  <1>3. EndOf(last[g][l]) <= gtrak'[g][t].keyout
    BY <1>1, <1>2
  <1> QED
    BY <1>1, <1>3

(* A getter's place among what it got, as numbers.                         *)
LEMMA LastFacts ==
  ASSUME RingInv, Plain, NEW g \in Getters, Reading(g), NEW l \in Logos
  PROVE  /\ last[g][l] \in 0 .. npub /\ EndOf(last[g][l]) \in Nat
  <1>1. last[g][l] \in Nat /\ last[g][l] <= npub /\ npub \in Nat
    BY StreamFacts, GetterFacts DEF RingInv, Reading
  <1> QED
    BY <1>1, GetterStream

(* A search that starts at the furthest tracker, and only moves on.        *)
LEMMA SearchOrdered ==
  ASSUME RingInv, Plain, NEW g \in Getters, Reading(g), Ordered(g), UNCHANGED putVars,
         last' = last, gtrak' = gtrak, get'[g].req = get[g].req,
         get[g].pc # "idle", get'[g].pc \in Searching, get'[g].keyget \in Nat,
         get[g].pc \in Searching => get[g].keyget <= get'[g].keyget,
         get[g].pc \notin Searching =>
           \A t \in DOMAIN gtrak[g] : Wanted(g, t) => gtrak[g][t].keyout <= get'[g].keyget
  PROVE  Ordered(g)'
  <1>0. get[g].req \in Requests[g] /\ get[g].keyget \in Nat
        /\ \A t \in DOMAIN gtrak[g] : gtrak[g][t].keyout \in Nat
    BY GetterFacts DEF RingInv, Ordered, Tracker
  <1>1. \A t \in DOMAIN gtrak[g] : Wanted(g, t) => gtrak[g][t].keyout <= get'[g].keyget
    BY <1>0 DEF Ordered
  <1>2. ASSUME NEW l \in Logos, Wanted(g, l)
        PROVE  EndOf(last[g][l]) <= get'[g].keyget
    <2>1. CASE last[g][l] = 0
      BY <2>1, GetterStream DEF EndOf
    <2>2. CASE last[g][l] # 0
      <3>1. PICK t \in DOMAIN gtrak[g] :
              Covers(g, t, l) /\ EndOf(last[g][l]) <= gtrak[g][t].keyout
        BY <2>2 DEF Ordered
      <3>2. Wanted(g, t)
        BY <1>0, <1>2, <3>1 DEF Covers, Wanted
      <3>3. EndOf(last[g][l]) \in Nat
        BY LastFacts
      <3> QED
        BY <1>0, <1>1, <3>1, <3>2, <3>3
    <2> QED
      BY <2>1, <2>2
  <1>3. \A l \in Logos : last'[g][l] # 0 =>
          \E t \in DOMAIN gtrak'[g] : Covers(g, t, l) /\ EndOf(last'[g][l]) <= gtrak'[g][t].keyout
    BY DEF Ordered
  <1>4. SameRequests(g) =>
          /\ \A r \in Requests[g] : r = {} \/ DOMAIN gtrak'[g] = {} \/ r \cap DOMAIN gtrak'[g] # {}
          /\ get'[g].req = {} \/ get'[g].req \cap DOMAIN gtrak'[g] # {}
    BY DEF Ordered
  <1>5. get'[g].pc \notin {"idle", "ret"}
    BY DEF Searching
  <1>6. /\ \A l \in Logos :
             (\E pat \in get'[g].req : Matches(pat, l)) => EndOf(last'[g][l]) <= get'[g].keyget
        /\ \A t \in DOMAIN gtrak'[g] :
             (\E pat \in get'[g].req : Matches(pat, t)) => gtrak'[g][t].keyout <= get'[g].keyget
    BY <1>1, <1>2 DEF Wanted
  <1> HIDE DEF Searching, SameRequests, Covers
  <1> QED
    BY <1>0, <1>3, <1>4, <1>5, <1>6, OrderedAfter

LEMMA StartOrdered ==
  ASSUME RingInv, Plain, RoomToTrack, NEW g \in Getters, Reading(g), Ordered(g),
         UNCHANGED putVars, GetCall(g) \/ Return(g)
  PROVE  Ordered(g)'
  <1>1. CASE GetCall(g)
    <2>1. /\ get'[g].pc = "find" /\ get'[g].req \in Requests[g]
          /\ last' = last /\ DOMAIN gtrak[g] \subseteq DOMAIN gtrak'[g]
          /\ \A t \in DOMAIN gtrak[g] : gtrak'[g][t] = gtrak[g][t]
          /\ \/ get'[g].req = {} \/ DOMAIN gtrak[g] # {} \/ NTrackGet = 0
             \/ get'[g].req \cap DOMAIN gtrak'[g] # {}
      BY <1>1, GetCallEffect DEF RingInv
    <2>2. \A t \in DOMAIN gtrak[g] : gtrak[g][t].keyout \in Nat
      BY GetterFacts DEF RingInv, Tracker
    <2>3. \A t \in DOMAIN gtrak[g] : /\ gtrak[g][t].keyout <= gtrak'[g][t].keyout
                                     /\ gtrak'[g][t].keyout \in Nat
      BY <2>1, <2>2
    <2>4. \A l \in Logos : last'[g][l] # 0 =>
            \E t \in DOMAIN gtrak'[g] : Covers(g, t, l) /\ EndOf(last'[g][l]) <= gtrak'[g][t].keyout
      BY <2>1, <2>3, LastFacts, OnlyOn
    <2>5. SameRequests(g) =>
            /\ \A r \in Requests[g] : r = {} \/ DOMAIN gtrak'[g] = {} \/ r \cap DOMAIN gtrak'[g] # {}
            /\ get'[g].req = {} \/ get'[g].req \cap DOMAIN gtrak'[g] # {}
      <3> SUFFICES ASSUME SameRequests(g)
                   PROVE  \A r \in Requests[g] : r = {} \/ r \cap DOMAIN gtrak'[g] # {}
        BY <2>1
      <3> SUFFICES ASSUME NEW r \in Requests[g], r # {} PROVE r \cap DOMAIN gtrak'[g] # {}
        OBVIOUS
      <3>1. get'[g].req = r
        BY <2>1 DEF SameRequests
      <3>2. CASE DOMAIN gtrak[g] = {}
        <4>1. NTrackGet # 0
          <5>1. Cardinality(Logos) \in Nat /\ NTrackGet \in Nat
            BY FS_CardinalityType, TransportAssumption DEF TransportAssumption
          <5> QED
            BY <5>1 DEF RoomToTrack
        <4> QED
          BY <2>1, <3>1, <3>2, <4>1
      <3>3. CASE DOMAIN gtrak[g] # {}
        <4>1. r \cap DOMAIN gtrak[g] # {}
          BY <3>3 DEF Ordered
        <4> QED
          BY <2>1, <4>1
      <3> QED
        BY <3>2, <3>3
    <2> HIDE DEF Searching, SameRequests, Covers
    <2>6. get'[g].pc \notin Searching
      BY <2>1 DEF Searching
    <2> QED
      BY <2>1, <2>4, <2>5, <2>6, OrderedAfter
  <1>2. CASE Return(g)
    <2>1. get'[g].pc = "idle" /\ gtrak' = gtrak /\ last' = last
      BY <1>2, ReturnEffect DEF RingInv
    <2>2. get'[g].pc \notin Searching
      BY <2>1 DEF Searching
    <2>3. \A l \in Logos : last'[g][l] # 0 =>
            \E t \in DOMAIN gtrak'[g] : Covers(g, t, l) /\ EndOf(last'[g][l]) <= gtrak'[g][t].keyout
      BY <2>1 DEF Ordered
    <2>4. SameRequests(g) =>
            \A r \in Requests[g] : r = {} \/ DOMAIN gtrak'[g] = {} \/ r \cap DOMAIN gtrak'[g] # {}
      BY <2>1 DEF Ordered
    <2> HIDE DEF Searching, SameRequests, Covers
    <2> QED
      BY <2>1, <2>2, <2>3, <2>4, OrderedAfter
  <1> QED
    BY <1>1, <1>2

(* With room for every pattern, the table has an entry for the logo of     *)
(* the message.                                                            *)
LEMMA Tracked ==
  ASSUME RingInv, NEW g \in Getters, NTrackGet > Cardinality(Logos), NEW l \in Logos,
         l \in DOMAIN gtrak'[g] \/ Cardinality(DOMAIN gtrak[g]) >= NTrackGet,
         DOMAIN gtrak[g] \subseteq DOMAIN gtrak'[g]
  PROVE  l \in DOMAIN gtrak'[g]
  <1> SUFFICES ASSUME Cardinality(DOMAIN gtrak[g]) >= NTrackGet, l \notin DOMAIN gtrak[g]
               PROVE  FALSE
    OBVIOUS
  <1>1. IsFiniteSet(Logos) /\ WILD \notin Logos /\ NTrackGet \in Nat
    BY TransportAssumption DEF TransportAssumption
  <1>2. /\ IsFiniteSet(Patterns) /\ Cardinality(Patterns) = Cardinality(Logos) + 1
        /\ Cardinality(Logos) \in Nat
    BY <1>1, FS_AddElement, FS_CardinalityType DEF Patterns
  <1>3. DOMAIN gtrak[g] \subseteq Patterns /\ l \in Patterns
    BY GetterFacts DEF RingInv, Patterns
  <1>4. IsFiniteSet(Patterns \ {l}) /\ Cardinality(Patterns \ {l}) = Cardinality(Patterns) - 1
    BY <1>2, <1>3, FS_RemoveElement
  <1>5. DOMAIN gtrak[g] \subseteq Patterns \ {l}
    BY <1>3
  <1>6. Cardinality(DOMAIN gtrak[g]) <= Cardinality(Patterns \ {l}) /\ IsFiniteSet(DOMAIN gtrak[g])
    BY <1>4, <1>5, FS_Subset
  <1>7. Cardinality(DOMAIN gtrak[g]) \in Nat
    BY <1>6, FS_CardinalityType
  <1> QED
    BY <1>1, <1>2, <1>4, <1>6, <1>7

(* What is taken lies behind what was got of that logo, and the trackers   *)
(* of the request are moved behind it.                                     *)
LEMMA FinishOrdered ==
  ASSUME RingInv, Plain, KeysFit, RoomToTrack, NEW g \in Getters, Reading(g), Ordered(g),
         UNCHANGED putVars, get[g].pc \in {"head", "body"},
         NEW k \in 1 .. npub, NEW toobig \in BOOLEAN,
         get[g].keyget = sent[k].at, get[g].buf[1] = <<k, 0>>, Wanted(g, sent[k].logo),
         Finish(g, HeaderOf(sent[k]), toobig)
  PROVE  Ordered(g)' /\ last[g][sent[k].logo] < k
  <1> DEFINE h == HeaderOf(sent[k])
             l0 == sent[k].logo
             D == DOMAIN gtrak[g]
             E == DOMAIN gtrak'[g]
  <1>1. /\ l0 \in Logos /\ k \in 0 .. npub /\ sent[k].at < EndOf(k) /\ EndOf(k) \in Nat
        /\ sent[k].at = EndOf(k - 1) /\ sent[k].at \in Nat /\ k \in Nat
    BY MessageKeys
  <1>2. /\ get'[g].pc = "ret" /\ get'[g].req = get[g].req /\ get'[g].buf[1][1] = k
        /\ get'[g].prev = last[g][l0]
        /\ toobig => last' = last
        /\ ~ toobig => last' = [last EXCEPT ![g][l0] = k]
    BY FinishEffect DEF RingInv
  <1>3. get[g].req \in Requests[g] /\ get[g].pc \in Searching
    BY DEF Ordered, Searching
  <1>4. last[g][l0] < k
    <2>1. last[g][l0] \in 0 .. npub /\ EndOf(last[g][l0]) \in Nat
      BY <1>1, LastFacts
    <2>2. EndOf(last[g][l0]) <= EndOf(k - 1)
      BY <1>1, <1>3 DEF Ordered
    <2> SUFFICES ASSUME k <= last[g][l0] PROVE FALSE
      BY <1>1, <2>1
    <2>3. EndOf(k) <= EndOf(last[g][l0])
      BY <1>1, <2>1, GetterStream
    <2> QED
      BY <1>1, <2>1, <2>2, <2>3
  <1>5. /\ D \subseteq E
        /\ \A t \in E : gtrak'[g][t].keyout = IF Wanted(g, t) THEN EndOf(k)
                                              ELSE IF t \in D THEN gtrak[g][t].keyout ELSE 0
        /\ l0 \in E \/ Cardinality(D) >= NTrackGet
    BY FinishKeys
  <1>6. \A t \in D : gtrak[g][t].keyout \in Nat
    BY GetterFacts DEF RingInv, Tracker
  <1>7. \A t \in D : gtrak[g][t].keyout <= gtrak'[g][t].keyout /\ gtrak'[g][t].keyout \in Nat
    <2> SUFFICES ASSUME NEW t \in D
                 PROVE  gtrak[g][t].keyout <= gtrak'[g][t].keyout /\ gtrak'[g][t].keyout \in Nat
      OBVIOUS
    <2>1. CASE Wanted(g, t)
      <3>1. gtrak[g][t].keyout <= get[g].keyget
        BY <1>3, <2>1 DEF Ordered
      <3> QED
        BY <1>1, <1>5, <1>6, <2>1, <3>1
    <2>2. CASE ~ Wanted(g, t)
      BY <1>5, <1>6, <2>2
    <2> QED
      BY <2>1, <2>2
  <1>8. \E t \in E : Covers(g, t, l0) /\ EndOf(k) = gtrak'[g][t].keyout
    <2>1. CASE NTrackGet > Cardinality(Logos)
      <3>1. l0 \in E
        BY <1>1, <1>5, <2>1, Tracked
      <3>2. Covers(g, l0, l0)
        BY DEF Covers
      <3> QED
        BY <1>5, <3>1, <3>2
    <2>2. CASE SameRequests(g)
      <3>1. get[g].req # {} /\ get[g].pc # "idle"
        BY DEF Wanted
      <3>2. PICK t \in get[g].req : t \in D
        BY <2>2, <3>1 DEF Ordered
      <3>3. Wanted(g, t)
        BY <3>2 DEF Wanted, Matches
      <3>4. Covers(g, t, l0)
        BY <1>3, <2>2, <3>2 DEF Covers, SameRequests, Matches
      <3> QED
        BY <1>5, <3>2, <3>3, <3>4
    <2> QED
      BY <2>1, <2>2 DEF RoomToTrack
  <1>9. ASSUME NEW l \in Logos, last'[g][l] # 0
        PROVE  \E t \in E : Covers(g, t, l) /\ EndOf(last'[g][l]) <= gtrak'[g][t].keyout
    <2>1. last \in [Getters -> [Logos -> 0 .. Len(sent)]]
      BY GetterFacts DEF RingInv
    <2>2. CASE toobig \/ l # l0
      <3>1. last'[g][l] = last[g][l]
        BY <1>2, <2>1, <2>2
      <3> QED
        BY <1>5, <1>7, <1>9, <3>1, LastFacts, OnlyOn
    <2>3. CASE ~ toobig /\ l = l0
      <3>1. last'[g][l] = k
        BY <1>2, <2>1, <2>3
      <3>2. PICK t \in E : Covers(g, t, l0) /\ EndOf(k) = gtrak'[g][t].keyout
        BY <1>8
      <3> QED
        BY <1>1, <2>3, <3>1, <3>2
    <2> QED
      BY <2>2, <2>3
  <1>10. SameRequests(g) =>
           /\ \A r \in Requests[g] : r = {} \/ r \cap E # {} \/ E = {}
           /\ get'[g].req = {} \/ get'[g].req \cap E # {}
    <2> SUFFICES ASSUME SameRequests(g) PROVE \A r \in Requests[g] : r \cap E # {}
      BY <1>2, <1>3
    <2>1. get[g].req # {} /\ get[g].pc # "idle"
      BY DEF Wanted
    <2>2. get[g].req \cap D # {}
      BY <2>1 DEF Ordered
    <2> QED
      BY <1>3, <1>5, <2>2 DEF SameRequests
  <1>11. get'[g].pc \notin Searching
    BY <1>2 DEF Searching
  <1>12. get'[g].buf[1][1] > get'[g].prev
    <2>1. last[g][l0] \in 0 .. npub
      BY <1>1, LastFacts
    <2> QED
      BY <1>1, <1>2, <1>4, <2>1
  <1> HIDE DEF Searching, SameRequests, Covers, l0
  <1> QED
    BY <1>2, <1>3, <1>4, <1>9, <1>10, <1>11, <1>12, OrderedAfter DEF l0

LEMMA GetterOrdered ==
  ASSUME RingInv, Plain, KeysFit, RoomToTrack, NEW g \in Getters, Reading(g), Ordered(g),
         GetCall(g) \/ GetStep(g), UNCHANGED putVars
  PROVE  Ordered(g)'
  <1>0. TypeOK /\ keyold \in Nat /\ get[g].keyget \in Nat
    BY GetterFacts DEF RingInv
  <1>1. CASE GetCall(g) \/ Return(g)
    BY <1>1, StartOrdered
  <1>2. CASE FindKey(g)
    <2>1. /\ get[g].pc = "find" /\ get'[g].pc = "bound" /\ get'[g].req = get[g].req
          /\ \A t \in DOMAIN gtrak[g] : Wanted(g, t) => gtrak[g][t].keyout <= get'[g].keyget
          /\ gtrak' = gtrak /\ last' = last
          /\ \/ get'[g].keyget = keyold
             \/ \E t \in DOMAIN gtrak[g] : get'[g].keyget = gtrak[g][t].keyout
      BY <1>0, <1>2, FindKeyEffect
    <2>2. \A t \in DOMAIN gtrak[g] : gtrak[g][t].keyout \in Nat
      BY GetterFacts DEF RingInv, Tracker
    <2>3. get'[g].keyget \in Nat
      BY <1>0, <2>1, <2>2
    <2> QED
      BY <2>1, <2>3, SearchOrdered DEF Searching
  <1>3. CASE SnapIn(g)
    <2>1. /\ get[g].pc = "bound" /\ get'[g].keyget = get[g].keyget
          /\ get'[g].pc \in {"reset", "scan"}
          /\ get'[g].req = get[g].req /\ gtrak' = gtrak /\ last' = last
      BY <1>0, <1>3, SnapInEffect
    <2>2. get'[g].pc = "scan"
      <3>1. Reading(g)'
        BY <1>3, StartReading
      <3> QED
        BY <2>1, <3>1 DEF Reading
    <2> QED
      BY <1>0, <2>1, <2>2, SearchOrdered DEF Searching
  <1>4. CASE ResetTrackers(g)
    BY <1>4 DEF ResetTrackers, Reading
  <1>5. CASE Scan(g)
    <2>1. get[g].pc = "scan" /\ get'[g].req = get[g].req /\ last' = last
      BY <1>0, <1>5, ScanEffect
    <2>2. CASE /\ get'[g].pc = "head" /\ gtrak' = gtrak
               /\ get'[g].keyget = IF get[g].keyget < keyold THEN keyold ELSE get[g].keyget
      <3>1. get'[g].keyget \in Nat /\ get[g].keyget <= get'[g].keyget
        BY <1>0, <2>2
      <3> QED
        BY <2>1, <2>2, <3>1, SearchOrdered DEF Searching
    <2>3. CASE /\ get'[g].pc = "ret" /\ get'[g].status = "GET_NONE"
               /\ gtrak'[g] = Wrapup(g, gtrak[g], get[g].keyget)
      <3>1. gtrak[g] \in [DOMAIN gtrak[g] -> Tracker]
        BY <1>0, GetterFacts
      <3>2. /\ DOMAIN gtrak'[g] = DOMAIN gtrak[g]
            /\ \A t \in DOMAIN gtrak[g] :
                 gtrak'[g][t].keyout = IF Wanted(g, t) THEN get[g].keyget ELSE gtrak[g][t].keyout
        BY <1>0, <2>3, <3>1, WrapupEffect
      <3>3. \A t \in DOMAIN gtrak[g] : /\ gtrak[g][t].keyout <= gtrak'[g][t].keyout
                                       /\ gtrak'[g][t].keyout \in Nat
        <4>1. \A t \in DOMAIN gtrak[g] : Wanted(g, t) => gtrak[g][t].keyout <= get[g].keyget
          BY <2>1 DEF Ordered, Searching
        <4>2. \A t \in DOMAIN gtrak[g] : gtrak[g][t].keyout \in Nat
          BY GetterFacts DEF RingInv, Tracker
        <4> QED
          BY <1>0, <3>2, <4>1, <4>2
      <3>4. \A l \in Logos : last'[g][l] # 0 =>
            \E t \in DOMAIN gtrak'[g] : Covers(g, t, l) /\ EndOf(last'[g][l]) <= gtrak'[g][t].keyout
        BY <2>1, <3>2, <3>3, LastFacts, OnlyOn
      <3>5. get'[g].req \in Requests[g]
        BY <2>1 DEF Ordered
      <3>6. SameRequests(g) =>
           /\ \A r \in Requests[g] : r = {} \/ DOMAIN gtrak'[g] = {} \/ r \cap DOMAIN gtrak'[g] # {}
           /\ get'[g].req = {} \/ get'[g].req \cap DOMAIN gtrak'[g] # {}
        BY <2>1, <3>2 DEF Ordered
      <3>7. get'[g].pc \notin Searching
        BY <2>3 DEF Searching
      <3> HIDE DEF Searching, SameRequests, Covers
      <3> QED
        BY <2>3, <3>4, <3>5, <3>6, <3>7, OrderedAfter
    <2> QED
      BY <1>0, <1>5, <2>2, <2>3, ScanEffect
  <1>6. CASE ReadCell(g)
    <2>1. /\ get[g].pc \in {"head", "body"} /\ get'[g].pc = get[g].pc
          /\ get'[g].keyget = get[g].keyget /\ get'[g].req = get[g].req
          /\ gtrak' = gtrak /\ last' = last
      BY <1>0, <1>6, ReadCellEffect
    <2> QED
      BY <1>0, <2>1, SearchOrdered DEF Searching
  <1>7. ASSUME NEW key \in Nat, get[g].keyget <= key, get[g].pc \in {"head", "body"}, Rescan(g, key)
        PROVE  Ordered(g)'
    BY <1>0, <1>7, RescanEffect, SearchOrdered DEF Searching
  <1>8. CASE CheckHeader(g)
    <2>1. get[g].pc = "head"
      BY <1>8 DEF CheckHeader
    <2>2. CASE Rescan(g, get[g].keyget)
      BY <1>0, <1>7, <2>1, <2>2
    <2>3. CASE ~ Rescan(g, get[g].keyget)
      <3>1. PICK k \in 1 .. npub :
              /\ get[g].keyget = sent[k].at /\ get[g].buf[1] = <<k, 0>>
              /\ \/ Rescan(g, EndOf(k))
                 \/ Wanted(g, sent[k].logo) /\ Finish(g, HeaderOf(sent[k]), TRUE)
                 \/ /\ Wanted(g, sent[k].logo)
                    /\ get' = [get EXCEPT ![g].pc = "body", ![g].hd = HeaderOf(sent[k])]
                    /\ UNCHANGED <<gtrak, last>>
        BY <1>8, <2>3, HeaderOutcome
      <3>2. sent[k].at < EndOf(k) /\ EndOf(k) \in Nat
        BY MessageKeys
      <3>3. CASE Rescan(g, EndOf(k))
        BY <1>0, <1>7, <2>1, <3>1, <3>2, <3>3
      <3>4. CASE Wanted(g, sent[k].logo) /\ Finish(g, HeaderOf(sent[k]), TRUE)
        BY <2>1, <3>1, <3>4, FinishOrdered
      <3>5. CASE /\ get' = [get EXCEPT ![g].pc = "body", ![g].hd = HeaderOf(sent[k])]
                 /\ UNCHANGED <<gtrak, last>>
        <4>1. /\ get'[g].pc = "body" /\ get'[g].keyget = get[g].keyget
              /\ get'[g].req = get[g].req
          BY <1>0, <3>5, BodyEffect
        <4>2. last' = last /\ gtrak' = gtrak /\ get'[g].keyget \in Nat
              /\ get[g].keyget <= get'[g].keyget
          BY <1>0, <3>5, <4>1
        <4>3. get[g].pc \in Searching /\ get'[g].pc \in Searching /\ get[g].pc # "idle"
          BY <2>1, <4>1 DEF Searching
        <4> QED
          BY <4>1, <4>2, <4>3, SearchOrdered
      <3> QED
        BY <3>1, <3>3, <3>4, <3>5
    <2> QED
      BY <2>2, <2>3
  <1>9. CASE CheckCopied(g)
    <2>1. get[g].pc = "body"
      BY <1>9 DEF CheckCopied
    <2>2. PICK k \in 1 .. npub :
           /\ get[g].keyget = sent[k].at /\ Wanted(g, sent[k].logo)
           /\ \/ EndOf(k) <= keyold /\ Rescan(g, keyold)
              \/ Finish(g, HeaderOf(sent[k]), FALSE) /\ get[g].buf[1] = <<k, 0>>
      BY <1>9, CopiedOutcome
    <2>3. sent[k].at < EndOf(k) /\ EndOf(k) \in Nat
      BY MessageKeys
    <2>4. CASE EndOf(k) <= keyold /\ Rescan(g, keyold)
      <3>1. get[g].keyget <= keyold
        BY <1>0, <2>2, <2>3, <2>4
      <3> QED
        BY <1>0, <1>7, <2>1, <2>4, <3>1
    <2>5. CASE Finish(g, HeaderOf(sent[k]), FALSE) /\ get[g].buf[1] = <<k, 0>>
      BY <2>1, <2>2, <2>5, FinishOrdered
    <2> QED
      BY <2>2, <2>4, <2>5
  <1> QED
    BY <1>1, <1>2, <1>3, <1>4, <1>5, <1>6, <1>8, <1>9 DEF GetStep

-----------------------------------------------------------------------------
(***************************************************************************)
(* The ring implements the log.                                            *)
(***************************************************************************)

(* Where getters stand and what they got.                                  *)
OrderInv == ReadInv /\ (KeysFit => \A g \in Getters : Ordered(g))

LEMMA StepOrder == ASSUME TwoFit, RoomToTrack, OrderInv, [Next]_vars PROVE OrderInv'
  <1>1. ReadInv /\ ReadInv' /\ RingInv /\ RingInv'
    BY StepRead DEF OrderInv, ReadInv
  <1> SUFFICES ASSUME KeysFit', NEW g \in Getters PROVE Ordered(g)'
    BY <1>1 DEF OrderInv
  <1>2. KeysFit /\ Plain /\ Reading(g) /\ Ordered(g)
    BY <1>1, FitBefore DEF ReadInv, OrderInv
  <1>3. CASE \E p \in Putters : PutCall(p) \/ Acquire(p) \/ PutStep(p) \/ Kill(p) \/ Restart(p)
    <2>1. UNCHANGED getVars
      BY <1>1, <1>2, <1>3, PutterEffect
    <2>2. get'[g] = get[g] /\ gtrak'[g] = gtrak[g] /\ last'[g] = last[g]
      BY <2>1 DEF getVars
    <2> QED
      BY <1>1, <1>2, <2>2, OrderedFrame
  <1>4. ASSUME NEW h \in Getters, GetCall(h) \/ GetStep(h) PROVE Ordered(g)'
    <2>1. CASE h = g
      BY <1>1, <1>2, <1>4, <2>1, GetterFrame, GetterOrdered
    <2>2. CASE h # g
      <3>1. get'[g] = get[g] /\ gtrak'[g] = gtrak[g] /\ last'[g] = last[g]
        BY <1>1, <1>4, <2>2, OtherGetters DEF RingInv
      <3> QED
        BY <1>1, <1>2, <3>1, OrderedFrame
    <2> QED
      BY <2>1, <2>2
  <1>5. CASE UNCHANGED vars
    <2>1. get'[g] = get[g] /\ gtrak'[g] = gtrak[g] /\ last'[g] = last[g]
      BY <1>5 DEF vars
    <2> QED
      BY <1>1, <1>2, <2>1, OrderedFrame
  <1> QED
    BY <1>3, <1>4, <1>5 DEF Next

LEMMA OrderAlways == ASSUME TwoFit, RoomToTrack PROVE Spec => []OrderInv
  <1>1. Init => OrderInv
    BY InitRing, InitReading, InitOrdered DEF OrderInv, ReadInv
  <1>2. OrderInv /\ [Next]_vars => OrderInv'
    BY StepOrder
  <1> QED
    BY <1>1, <1>2, PTL DEF Spec

(* With room in its table a getter sees the messages of a logo in the      *)
(* order in which they were put and none twice, whatever it asks for.      *)
THEOREM InOrderNoneTwice ==
  ASSUME TwoFit, RoomToTrack PROVE Spec => [](KeysFit => InPutOrder)
  <1>1. OrderInv => (KeysFit => InPutOrder)
    BY DEF OrderInv, Ordered, InPutOrder
  <1> QED
    BY <1>1, OrderAlways, PTL

(* The log that the region stands for.                                     *)
Entry(k) == [logo |-> sent[k].logo, size |-> Size(sent[k]), at |-> sent[k].at]
Published == [k \in 1 .. npub |-> [logo |-> sent[k].logo, size |-> Size(sent[k]),
                                   at |-> sent[k].at]]

LEMMA LogFacts ==
  ASSUME RingInv
  PROVE  /\ Published \in Seq([logo : Logos, size : Nat, at : Nat]) /\ Len(Published) = npub
         /\ \A k \in 1 .. npub : Published[k] = Entry(k)
         /\ Log!End = EndOf(npub) /\ Log!Held = EndOf(npub) - EndOf(ndel)
  <1>1. /\ ndel \in Nat /\ npub \in Nat /\ Len(sent) \in Nat /\ ndel <= npub /\ npub <= Len(sent)
        /\ \A k \in 0 .. Len(sent) : EndOf(k) \in Nat
        /\ EndOf(0) = 0
    BY StreamFacts DEF RingInv
  <1>2. ASSUME NEW k \in 1 .. npub
        PROVE  /\ Entry(k) \in [logo : Logos, size : Nat, at : Nat]
               /\ EndOf(k) = sent[k].at + Size(sent[k]) /\ sent[k].at = EndOf(k - 1)
    <2>1. k \in 1 .. Len(sent)
      BY <1>1
    <2>2. /\ sent[k] \in Message /\ sent[k].at \in Nat /\ Size(sent[k]) \in Nat
          /\ EndOf(k) = sent[k].at + Size(sent[k]) /\ sent[k].at = EndOf(k - 1)
      BY <2>1, StreamFacts DEF RingInv
    <2>3. sent[k].logo \in Logos
      BY <2>2 DEF Message
    <2> QED
      BY <2>2, <2>3 DEF Entry
  <1>3. Published = [k \in 1 .. npub |-> Entry(k)]
    BY DEF Published, Entry
  <1>4. Published \in Seq([logo : Logos, size : Nat, at : Nat])
    BY <1>1, <1>2, <1>3
  <1>5. DOMAIN Published = 1 .. npub /\ Len(Published) = npub
    BY <1>1, <1>3, <1>4
  <1>6. \A k \in 1 .. npub : Published[k] = Entry(k)
    BY <1>3
  <1>7. Log!End = IF Published = <<>> THEN 0
                  ELSE Published[Len(Published)].at + Published[Len(Published)].size
    BY DEF Log!End, Published
  <1>8. Log!Held = IF ndel = Len(Published) THEN 0 ELSE Log!End - Published[ndel + 1].at
    BY DEF Log!Held, Published
  <1>9. Log!End = EndOf(npub)
    <2>1. CASE npub = 0
      <3>1. Published = <<>>
        BY <1>4, <1>5, <2>1, EmptySeq
      <3> QED
        BY <1>1, <1>7, <2>1, <3>1
    <2>2. CASE npub # 0
      <3>1. npub \in 1 .. npub /\ Published # <<>>
        <4>1. Published = <<>> => Len(Published) = 0
          OBVIOUS
        <4> QED
          BY <1>1, <1>5, <2>2, <4>1
      <3>2. Published[npub].at = sent[npub].at /\ Published[npub].size = Size(sent[npub])
        <4>1. Published[npub] = Entry(npub)
          BY <1>6, <3>1
        <4> QED
          BY <4>1 DEF Entry
      <3> QED
        BY <1>2, <1>5, <1>7, <3>1, <3>2
    <2> QED
      BY <2>1, <2>2
  <1>10. Log!Held = EndOf(npub) - EndOf(ndel)
    <2>1. EndOf(npub) \in Nat /\ EndOf(ndel) \in Nat
      <3>1. npub \in 0 .. Len(sent) /\ ndel \in 0 .. Len(sent)
        BY <1>1
      <3> QED
        BY <1>1, <3>1
    <2>2. CASE ndel = npub
      BY <1>5, <1>8, <2>1, <2>2
    <2>3. CASE ndel # npub
      <3>1. ndel + 1 \in 1 .. npub /\ (ndel + 1) - 1 = ndel
        BY <1>1, <2>3
      <3>2. Published[ndel + 1].at = EndOf(ndel)
        <4>1. Published[ndel + 1] = Entry(ndel + 1) /\ sent[ndel + 1].at = EndOf(ndel)
          BY <1>2, <1>6, <3>1
        <4> QED
          BY <4>1 DEF Entry
      <3> QED
        BY <1>5, <1>8, <1>9, <2>3, <3>2
    <2> QED
      BY <2>2, <2>3
  <1> HIDE DEF Published
  <1> QED
    BY <1>4, <1>5, <1>6, <1>9, <1>10

(* Nothing is published or dropped while the two counts stay.              *)
LEMMA LogStays ==
  ASSUME RingInv, [Next]_vars, UNCHANGED <<npub, ndel, last>>
  PROVE  UNCHANGED Log!vars
  <1>1. \A k \in 1 .. npub : sent'[k] = sent[k]
    <2>1. \A k \in 1 .. npub : k \in 1 .. Len(sent)
      BY StreamFacts DEF RingInv
    <2> QED
      BY <2>1, SentGrows
  <1> DEFINE L == [k \in 1 .. npub |-> [logo |-> sent[k].logo, size |-> Size(sent[k]),
                                        at |-> sent[k].at]]
  <1>2. L' = L
    BY <1>1 DEF Size
  <1> QED
    BY <1>2 DEF Log!vars

(* A message published is one appended to the log, for which it has room.  *)
LEMMA PublishLog ==
  ASSUME RingInv, RingInv', NEW p \in Putters, Publish(p)
  PROVE  \E l \in Logos, n \in {HDR + m : m \in Lens} :
           Log!Publish([logo |-> l, size |-> n, at |-> Log!End])
  <1> DEFINE n == npub + 1
             m == [logo |-> sent[n].logo, size |-> Size(sent[n]), at |-> Log!End]
             T == [logo : Logos, size : Nat, at : Nat]
  <1>1. /\ put[p].pc = "copy" /\ InCS(p) /\ npub' = n
        /\ UNCHANGED <<sent, ndel, last>>
    BY DEF Publish, InCS, getVars
  <1>2. /\ Settled /\ Inside(p) /\ keyin \in Nat /\ keyold \in Nat /\ put[p].len \in Lens
        /\ Need(p) = HDR + put[p].len
    BY <1>1, InsideFacts
  <1>3. /\ Len(sent) = n /\ npub \in Nat /\ EndOf(npub) \in Nat /\ Need(p) \in Nat
        /\ sent[n].at = EndOf(npub) /\ Size(sent[n]) = Need(p)
    BY <1>1, NextEnd
  <1>4. /\ Published \in Seq(T) /\ Len(Published) = npub
        /\ \A k \in 1 .. npub : Published[k] = Entry(k)
        /\ Log!End = EndOf(npub) /\ Log!Held = EndOf(npub) - EndOf(ndel)
    BY LogFacts
  <1>5. Log!Held + m.size <= KeyMax
    <2>1. keyin + Need(p) - keyold <= KeyMax
      BY <1>1, <1>2 DEF Inside
    <2>2. Log!Held = keyin - keyold
      BY <1>2, <1>4 DEF Settled
    <2>3. m.size = Need(p)
      BY <1>3
    <2> HIDE DEF m
    <2> QED
      BY <1>2, <1>3, <2>1, <2>2, <2>3, Constants
  <1>6. m = Entry(n)
    BY <1>3, <1>4 DEF Entry
  <1>7. m \in T /\ m.at = Log!End
    <2>1. sent[n].logo \in Logos
      <3>1. n \in 1 .. Len(sent)
        BY <1>3
      <3>2. sent[n] \in Message
        BY <3>1, StreamFacts DEF RingInv
      <3> QED
        BY <3>2 DEF Message
    <2> QED
      BY <1>3, <1>4, <2>1
  <1>8. Published' = Append(Published, m)
    <2> DEFINE P == Published
               Q == [k \in 1 .. n |-> Entry(k)]
    <2>1. Published' = Q
      BY <1>1 DEF Published, Entry, Size
    <2> HIDE DEF m, T, P
    <2>2. /\ Append(P, m) \in Seq(T) /\ Len(Append(P, m)) = n
          /\ \A k \in 1 .. npub : Append(P, m)[k] = P[k]
          /\ Append(P, m)[n] = m
      BY <1>3, <1>4, <1>7, AppendProperties DEF P
    <2>3. \A k \in 1 .. n : Append(P, m)[k] = Entry(k)
      <3> SUFFICES ASSUME NEW k \in 1 .. n PROVE Append(P, m)[k] = Entry(k)
        OBVIOUS
      <3>1. CASE k \in 1 .. npub
        <4>1. P[k] = Entry(k)
          BY <1>4, <3>1 DEF P
        <4>2. Append(P, m)[k] = P[k]
          BY <2>2, <3>1
        <4> QED
          BY <4>1, <4>2
      <3>2. CASE k = n
        BY <1>6, <2>2, <3>2
      <3>3. k \in 1 .. npub \/ k = n
        <4>1. npub \in Nat
          BY <1>3
        <4> QED
          BY <4>1
      <3> QED
        BY <3>1, <3>2, <3>3
    <2>4. Append(P, m) \in [1 .. n -> T]
      BY <2>2, LenProperties
    <2>5. Append(P, m) = Q
      <3> HIDE DEF n
      <3> QED
        BY <2>3, <2>4
    <2> QED
      BY <2>1, <2>5 DEF P
  <1>10. Size(sent[n]) \in {HDR + x : x \in Lens} /\ sent[n].logo \in Logos
    BY <1>2, <1>3, <1>7
  <1> DEFINE Fits(l, x) ==
               /\ [logo |-> l, size |-> x, at |-> Log!End].at = Log!End
               /\ Log!Held + [logo |-> l, size |-> x, at |-> Log!End].size <= KeyMax
               /\ Published' = Append(Published, [logo |-> l, size |-> x, at |-> Log!End])
               /\ UNCHANGED <<ndel, last>>
  <1>11. \E l \in Logos, x \in {HDR + y : y \in Lens} : Fits(l, x)
    <2>1. Fits(sent[n].logo, Size(sent[n]))
      BY <1>1, <1>5, <1>8
    <2> HIDE DEF Fits
    <2> QED
      BY <1>10, <2>1
  <1> HIDE DEF n, m, T
  <1> QED
    BY <1>11, Zenon DEF Log!Publish, Published

(* A message deleted is dropped from the log, for one that needs its room. *)
LEMMA DropLog ==
  ASSUME RingInv, RingInv', NEW p \in Putters, Delete(p)
  PROVE  Log!Drop
  <1>1. /\ InCS(p) /\ put[p].pc = "room" /\ ndel < npub
        /\ keyin + Need(p) - keyold > KeyMax
        /\ ndel' = ndel + 1
        /\ UNCHANGED <<sent, npub>>
    BY DeleteEffect
  <1>2. last' = last
    BY DEF Delete, getVars
  <1>3. /\ Settled /\ put[p].len \in Lens /\ Need(p) = HDR + put[p].len /\ Need(p) \in Nat
        /\ keyin \in Nat /\ keyold \in Nat
    BY <1>1, InsideFacts
  <1>4. Len(Published) = npub /\ Log!Held = EndOf(npub) - EndOf(ndel)
    BY LogFacts
  <1>5. Log!Held + Need(p) > KeyMax
    <2>1. Log!Held = keyin - keyold
      BY <1>3, <1>4 DEF Settled
    <2> QED
      BY <1>1, <1>3, <2>1, Constants
  <1>6. \E x \in {HDR + m : m \in Lens} : Log!Held + x > KeyMax
    BY <1>3, <1>5
  <1>7. Published' = Published
    BY <1>1 DEF Published, Size
  <1> QED
    BY <1>1, <1>2, <1>4, <1>6, <1>7 DEF Log!Drop, Published

(* A message taken is delivered: it is still in the log, and later than    *)
(* what the getter had of its logo.                                        *)
LEMMA DeliverLog ==
  ASSUME RingInv, Plain, KeysFit, RoomToTrack, NEW g \in Getters, Reading(g), Ordered(g),
         UNCHANGED putVars, CheckCopied(g)
  PROVE  UNCHANGED last \/ \E k \in ndel + 1 .. Len(Published) : Log!Deliver(g, k)
  <1>1. get[g].pc = "body"
    BY DEF CheckCopied
  <1>2. PICK k \in 1 .. npub :
           /\ get[g].keyget = sent[k].at /\ Wanted(g, sent[k].logo)
           /\ \/ Rescan(g, keyold)
              \/ /\ Finish(g, HeaderOf(sent[k]), FALSE)
                 /\ k \in ndel + 1 .. npub /\ get[g].buf[1] = <<k, 0>>
    BY CopiedOutcome
  <1>3. CASE Rescan(g, keyold)
    BY <1>3 DEF Rescan
  <1>4. CASE /\ Finish(g, HeaderOf(sent[k]), FALSE)
             /\ k \in ndel + 1 .. npub /\ get[g].buf[1] = <<k, 0>>
    <2>1. last[g][sent[k].logo] < k
      BY <1>1, <1>2, <1>4, FinishOrdered
    <2>2. last' = [last EXCEPT ![g][sent[k].logo] = k]
      BY <1>4 DEF Finish
    <2>3. Len(Published) = npub /\ Published[k] = Entry(k)
      BY LogFacts
    <2>4. Published[k].logo = sent[k].logo
      BY <2>3 DEF Entry
    <2>5. Published' = Published /\ UNCHANGED ndel
      BY DEF putVars, Published, Size
    <2>6. k > last[g][sent[k].logo]
      <3>1. last[g][sent[k].logo] \in Nat /\ k \in Nat
        <4>1. sent[k].logo \in Logos /\ k \in 0 .. npub
          BY MessageKeys
        <4>2. last[g][sent[k].logo] \in 0 .. npub
          BY <4>1, LastFacts
        <4> QED
          BY <4>2
      <3> QED
        BY <2>1, <3>1
    <2>7. Log!Deliver(g, k)
      BY <2>2, <2>4, <2>5, <2>6 DEF Log!Deliver, Published
    <2> QED
      BY <1>4, <2>3, <2>7
  <1> QED
    BY <1>2, <1>3, <1>4

LEMMA InitLog == Init => Log!Init
  BY DEF Init, Log!Init

(* Every step of the ring is a step of the log or leaves the log as it is. *)
LEMMA StepLog ==
  ASSUME TwoFit, RoomToTrack, OrderInv, KeysFit, [Next]_vars
  PROVE  [Log!Next]_(Log!vars)
  <1>1. RingInv /\ RingInv' /\ Plain /\ \A g \in Getters : Reading(g) /\ Ordered(g)
    BY StepRead DEF OrderInv, ReadInv
  <1>2. ASSUME UNCHANGED <<npub, ndel, last>> PROVE [Log!Next]_(Log!vars)
    BY <1>1, <1>2, LogStays
  <1>3. ASSUME NEW p \in Putters, Publish(p) PROVE Log!Next
    BY <1>1, <1>3, PublishLog DEF Log!Next
  <1>4. ASSUME NEW p \in Putters, Delete(p) PROVE [Log!Next]_(Log!vars)
    <2>1. Log!Drop
      BY <1>1, <1>4, DropLog
    <2> QED
      BY <2>1 DEF Log!Next
  <1>5. ASSUME NEW p \in Putters,
               \/ PutCall(p) \/ Acquire(p) \/ WrapIn(p) \/ WrapOld(p) \/ WrapFix(p)
               \/ CopyCell(p) \/ Release(p) \/ Kill(p) \/ Restart(p)
        PROVE  UNCHANGED <<npub, ndel, last>>
    BY <1>5 DEF PutCall, Acquire, WrapIn, WrapOld, WrapFix, CopyCell, Release, Kill, Restart,
                getVars
  <1>6. ASSUME NEW g \in Getters, GetCall(g) \/ GetStep(g)
        PROVE  [Log!Next]_(Log!vars)
    <2>1. UNCHANGED putVars /\ UNCHANGED <<npub, ndel>>
      BY <1>6, GetterFrame DEF putVars
    <2>2. CASE CheckCopied(g)
      <3>1. UNCHANGED last \/ \E k \in ndel + 1 .. Len(Published) : Log!Deliver(g, k)
        BY <1>1, <2>1, <2>2, DeliverLog
      <3>2. CASE UNCHANGED last
        BY <1>2, <2>1, <3>2
      <3>3. CASE \E k \in ndel + 1 .. Len(Published) : Log!Deliver(g, k)
        BY <3>3 DEF Log!Next, Log!Deliver, Published
      <3> QED
        BY <3>1, <3>2, <3>3
    <2>3. CASE CheckHeader(g)
      <3>1. last' = last
        <4>1. \A h : Finish(g, h, TRUE) => last' = last
          BY DEF Finish
        <4>2. \A key : Rescan(g, key) => last' = last
          BY DEF Rescan
        <4> QED
          BY <2>3, <4>1, <4>2 DEF CheckHeader
      <3> QED
        BY <1>2, <2>1, <3>1
    <2>4. CASE ~ CheckHeader(g) /\ ~ CheckCopied(g)
      <3>1. last' = last
        BY <1>6, <2>4 DEF GetCall, GetStep, FindKey, SnapIn, ResetTrackers, Scan, ReadCell, Return
      <3> QED
        BY <1>2, <2>1, <3>1
    <2> QED
      BY <2>2, <2>3, <2>4
  <1>7. CASE UNCHANGED vars
    BY <1>2, <1>7 DEF vars
  <1> QED
    BY <1>2, <1>3, <1>4, <1>5, <1>6, <1>7 DEF Next, PutStep

(* As long as the keys fit their word the ring implements the log of       *)
(* RingLog: it appends what is published, drops the oldest only for want   *)
(* of room, and hands out what is there, in order.                         *)
THEOREM RingIsLog ==
  ASSUME TwoFit, RoomToTrack PROVE Spec /\ []KeysFit => ImplementsLog
  <1>1. Init => Log!Init
    BY InitLog
  <1>2. OrderInv /\ KeysFit /\ [Next]_vars => [Log!Next]_(Log!vars)
    BY StepLog
  <1> QED
    BY <1>1, <1>2, OrderAlways, PTL DEF Spec, ImplementsLog, Log!Spec

-----------------------------------------------------------------------------
(***************************************************************************)
(* Sequence numbers: what a getter expects next.                           *)
(***************************************************************************)

(* No two processes put messages of one logo.                              *)
OneSource == \A p, q \in Putters : p # q => PutLogos[p] \cap PutLogos[q] = {}

(* The messages after k, up to n, that have its logo.                      *)
Follow(k, n) == {m \in k + 1 .. n : sent[m].logo = sent[k].logo}

(* A message's number counts on from those before it of its logo, and a    *)
(* putter's table counts on from them all.                                 *)
Numbered ==
  /\ \A j, k \in 1 .. Len(sent) :
       j < k /\ sent[j].logo = sent[k].logo =>
         sent[k].seq = (sent[j].seq + Cardinality(Follow(j, k))) % SeqMod
  /\ \A p \in Putters : \A k \in 1 .. Len(sent) :
       sent[k].logo \in PutLogos[p] =>
         /\ sent[k].logo \in DOMAIN ptrak[p]
         /\ ptrak[p][sent[k].logo] =
              (sent[k].seq + 1 + Cardinality(Follow(k, Len(sent)))) % SeqMod

Alive == \A p \in Putters : put[p].pc # "dead"
NumInv == RingInv /\ (kills = 0 => Alive /\ Numbered)

LEMMA FollowFinite ==
  ASSUME NEW k \in Nat, NEW n \in Nat
  PROVE  IsFiniteSet(Follow(k, n)) /\ Cardinality(Follow(k, n)) \in Nat
  <1>1. IsFiniteSet(k + 1 .. n)
    BY FS_Interval
  <1>2. Follow(k, n) \subseteq k + 1 .. n
    BY DEF Follow
  <1> QED
    BY <1>1, <1>2, FS_Subset, FS_CardinalityType

(* The fields of a message as it is stamped.                               *)
LEMMA StampEffect ==
  ASSUME RingInv, NEW p \in Putters, Acquire(p), CanTrack(p)
  PROVE  LET l == put[p].logo
             s == IF l \in DOMAIN ptrak[p] THEN ptrak[p][l] ELSE 0
             n == Len(sent) + 1
         IN  /\ l \in PutLogos[p] /\ s \in Nat /\ Len(sent) \in Nat
             /\ Len(sent') = n /\ \A k \in 1 .. Len(sent) : sent'[k] = sent[k]
             /\ sent'[n].logo = l /\ sent'[n].seq = s
             /\ \A q \in Putters : q # p => ptrak'[q] = ptrak[q]
             /\ DOMAIN ptrak'[p] = DOMAIN ptrak[p] \cup {l}
             /\ ptrak'[p][l] = NextSeq(s)
             /\ \A k \in DOMAIN ptrak[p] : k # l => ptrak'[p][k] = ptrak[p][k]
  <1> DEFINE l == put[p].logo
             s == IF l \in DOMAIN ptrak[p] THEN ptrak[p][l] ELSE 0
             n == Len(sent) + 1
             m == [logo |-> l, len |-> put[p].len, seq |-> s,
                   looks |-> put[p].looks, at |-> EndOf(Len(sent))]
             T == [k \in DOMAIN ptrak[p] \cup {l} |->
                     IF k = l THEN NextSeq(s) ELSE ptrak[p][k]]
  <1>1. put[p].pc = "wait" /\ Stamp(p)
    BY DEF Acquire
  <1>2. l \in PutLogos[p]
    BY <1>1 DEF RingInv, Putting, Called
  <1>3. sent' = Append(sent, m) /\ ptrak' = [ptrak EXCEPT ![p] = T]
    BY <1>1 DEF Stamp
  <1>4. \E x \in Message : sent' = Append(sent, x)
    BY <1>1, StampTypes DEF RingInv
  <1>5. sent \in Seq(Message) /\ Len(sent) \in Nat /\ sent' \in Seq(Message)
    <2>1. sent \in Seq(Message) /\ Len(sent) \in Nat
      BY StreamFacts DEF RingInv, TypeOK, RingTypes
    <2> QED
      BY <1>4, <2>1
  <1>6. s \in Nat
    <2>1. ptrak[p] \in [DOMAIN ptrak[p] -> 0 .. SeqMod - 1]
      BY DEF RingInv, TypeOK, PutTypes
    <2> QED
      BY <2>1
  <1>7. m.logo = l /\ m.seq = s
    OBVIOUS
  <1>8. ptrak'[p] = T /\ \A q \in Putters : q # p => ptrak'[q] = ptrak[q]
    <2>1. ptrak = [q \in Putters |-> ptrak[q]]
      BY DEF RingInv, TypeOK, PutTypes
    <2> HIDE DEF T
    <2> QED
      BY <1>3, <2>1
  <1>9. /\ DOMAIN T = DOMAIN ptrak[p] \cup {l} /\ T[l] = NextSeq(s)
        /\ \A k \in DOMAIN ptrak[p] : k # l => T[k] = ptrak[p][k]
    OBVIOUS
  <1> HIDE DEF m, T, s
  <1>10. /\ Len(sent') = n /\ sent'[n] = m
         /\ \A k \in 1 .. Len(sent) : sent'[k] = sent[k]
    BY <1>3, <1>5
  <1> QED
    BY <1>2, <1>5, <1>6, <1>7, <1>8, <1>9, <1>10 DEF s

(* The number after a sum of numbers.                                      *)
LEMMA NumberAfter ==
  ASSUME NEW x \in Nat PROVE NextSeq(x % SeqMod) = (x + 1) % SeqMod
  <1>1. SeqMod \in Nat \ {0}
    BY TransportAssumption DEF TransportAssumption
  <1> QED
    BY <1>1, RemainderSum DEF NextSeq

LEMMA StampNumbers ==
  ASSUME RingInv, OneSource, Numbered, NEW p \in Putters, Acquire(p), CanTrack(p),
         NEW N \in Nat, NEW n \in Nat, N = Len(sent), n = N + 1
  PROVE  Numbered'
  <1> DEFINE l == put[p].logo
             s == IF l \in DOMAIN ptrak[p] THEN ptrak[p][l] ELSE 0
  <1>1. /\ l \in PutLogos[p] /\ s \in Nat /\ N \in Nat /\ Len(sent') = n
        /\ \A k \in 1 .. N : sent'[k] = sent[k]
        /\ sent'[n].logo = l /\ sent'[n].seq = s
    BY StampEffect
  <1>2. /\ \A q \in Putters : q # p => ptrak'[q] = ptrak[q]
        /\ DOMAIN ptrak'[p] = DOMAIN ptrak[p] \cup {l}
        /\ ptrak'[p][l] = NextSeq(s)
        /\ \A k \in DOMAIN ptrak[p] : k # l => ptrak'[p][k] = ptrak[p][k]
    BY StampEffect
  <1>3. \A k \in 1 .. N : sent[k].seq \in Nat
    <2>1. \A k \in 1 .. N : sent[k] \in Message
      BY StreamFacts DEF RingInv
    <2> QED
      BY <2>1 DEF Message
  <1>4. \A q \in Putters : l \in PutLogos[q] => q = p
    BY <1>1 DEF OneSource
  <1>5. ASSUME NEW k \in 1 .. N, sent[k].logo = l
        PROVE  /\ l \in DOMAIN ptrak[p]
               /\ s = (sent[k].seq + 1 + Cardinality(Follow(k, N))) % SeqMod
    BY <1>1, <1>5 DEF Numbered
  <1> HIDE DEF s, l
  <1>6. ASSUME NEW k \in 1 .. N, NEW i \in 1 .. N PROVE Follow(k, i)' = Follow(k, i)
    <2>1. \A x \in k + 1 .. i : sent'[x] = sent[x]
      BY <1>1
    <2>2. sent'[k] = sent[k]
      BY <1>1
    <2> QED
      BY <2>1, <2>2 DEF Follow
  <1>7. ASSUME NEW k \in 1 .. N
        PROVE  /\ Follow(k, n)' = IF sent[k].logo = l THEN Follow(k, N) \cup {n} ELSE Follow(k, N)
               /\ n \notin Follow(k, N)
    <2>1. \A x \in k + 1 .. N : sent'[x] = sent[x]
      BY <1>1
    <2>2. sent'[k] = sent[k]
      BY <1>1
    <2>3. k + 1 .. n = (k + 1 .. N) \cup {n} /\ n \notin k + 1 .. N
      BY <1>1
    <2>4. Follow(k, n)' = {x \in k + 1 .. n : sent'[x].logo = sent'[k].logo}
      BY <1>1 DEF Follow
    <2>5. Follow(k, N) = {x \in k + 1 .. N : sent[x].logo = sent[k].logo}
      BY DEF Follow
    <2>6. CASE sent[k].logo = l
      <3>1. {x \in k + 1 .. n : sent'[x].logo = sent'[k].logo}
              = {x \in k + 1 .. N : sent[x].logo = sent[k].logo} \cup {n}
        BY <1>1, <2>1, <2>2, <2>3, <2>6
      <3> QED
        BY <2>3, <2>4, <2>5, <2>6, <3>1
    <2>7. CASE sent[k].logo # l
      <3>1. {x \in k + 1 .. n : sent'[x].logo = sent'[k].logo}
              = {x \in k + 1 .. N : sent[x].logo = sent[k].logo}
        BY <1>1, <2>1, <2>2, <2>3, <2>7
      <3> QED
        BY <2>3, <2>4, <2>5, <2>7, <3>1
    <2> QED
      BY <2>6, <2>7
  <1>8. ASSUME NEW k \in 1 .. N
        PROVE  /\ Cardinality(Follow(k, N)) \in Nat
               /\ Cardinality(Follow(k, n))' = IF sent[k].logo = l
                                               THEN Cardinality(Follow(k, N)) + 1
                                               ELSE Cardinality(Follow(k, N))
    <2>1. IsFiniteSet(Follow(k, N)) /\ Cardinality(Follow(k, N)) \in Nat
      <3>1. k \in Nat /\ N \in Nat
        OBVIOUS
      <3> QED
        BY <3>1, FollowFinite
    <2>2. Cardinality(Follow(k, N) \cup {n}) = Cardinality(Follow(k, N)) + 1
      BY <1>7, <2>1, FS_AddElement
    <2> QED
      BY <1>7, <2>1, <2>2
  <1>9. ASSUME NEW j \in 1 .. n, NEW k \in 1 .. n, j < k, sent'[j].logo = sent'[k].logo
        PROVE  sent'[k].seq = (sent'[j].seq + Cardinality(Follow(j, k))') % SeqMod
    <2>1. j \in 1 .. N
      BY <1>1, <1>9
    <2>2. sent'[j] = sent[j]
      BY <1>1, <2>1
    <2>3. CASE k \in 1 .. N
      <3>1. sent'[k] = sent[k] /\ Follow(j, k)' = Follow(j, k)
        BY <1>1, <1>6, <2>1, <2>3
      <3> QED
        BY <1>9, <2>1, <2>2, <2>3, <3>1 DEF Numbered
    <2>4. CASE k = n
      <3>1. sent[j].logo = l
        BY <1>1, <1>9, <2>2, <2>4
      <3>2. /\ s = (sent[j].seq + 1 + Cardinality(Follow(j, N))) % SeqMod
            /\ Cardinality(Follow(j, n))' = Cardinality(Follow(j, N)) + 1
            /\ Cardinality(Follow(j, N)) \in Nat /\ sent[j].seq \in Nat
        BY <1>3, <1>5, <1>8, <2>1, <3>1
      <3>3. sent[j].seq + 1 + Cardinality(Follow(j, N)) = sent[j].seq + Cardinality(Follow(j, n))'
        <4> QED
          BY <3>2
      <3>4. Cardinality(Follow(j, k))' = Cardinality(Follow(j, n))'
        BY <1>1, <2>4 DEF Follow
      <3> QED
        BY <1>1, <2>2, <2>4, <3>2, <3>3, <3>4
    <2> QED
      BY <1>1, <2>3, <2>4
  <1>10. ASSUME NEW q \in Putters, NEW k \in 1 .. n, sent'[k].logo \in PutLogos[q]
         PROVE  /\ sent'[k].logo \in DOMAIN ptrak'[q]
                /\ ptrak'[q][sent'[k].logo] =
                     (sent'[k].seq + 1 + Cardinality(Follow(k, n))') % SeqMod
    <2>1. CASE k = n
      <3>1. q = p /\ sent'[k].logo = l /\ sent'[k].seq = s
        BY <1>1, <1>4, <1>10, <2>1
      <3>2. ptrak'[q][sent'[k].logo] = NextSeq(s) /\ sent'[k].logo \in DOMAIN ptrak'[q]
        BY <1>2, <3>1
      <3>3. Follow(k, n)' = {}
        BY <1>1, <2>1 DEF Follow
      <3>4. Cardinality(Follow(k, n))' = 0
        BY <3>3, FS_EmptySet
      <3>5. NextSeq(s) = (s + 1 + 0) % SeqMod
        BY <1>1 DEF NextSeq
      <3> QED
        BY <3>1, <3>2, <3>4, <3>5
    <2>2. CASE k \in 1 .. N /\ sent[k].logo = l
      <3>1. sent'[k] = sent[k] /\ q = p
        BY <1>1, <1>4, <1>10, <2>2
      <3>2. ptrak'[q][l] = NextSeq(s) /\ l \in DOMAIN ptrak'[q]
        BY <1>2, <3>1
      <3> DEFINE c == Cardinality(Follow(k, N))
                 d == Cardinality(Follow(k, n))'
                 z == sent[k].seq
                 x == z + 1 + c
      <3>3. s = x % SeqMod /\ x \in Nat /\ z \in Nat
            /\ d = c + 1 /\ c \in Nat
        BY <1>3, <1>5, <1>8, <2>2
      <3>4. NextSeq(s) = (x + 1) % SeqMod
        BY <3>3, NumberAfter
      <3>5. x + 1 = z + 1 + d
        <4> HIDE DEF c, d, z
        <4> QED
          BY <3>3 DEF x
      <3> HIDE DEF x
      <3> QED
        BY <2>2, <3>1, <3>2, <3>4, <3>5
    <2>3. CASE k \in 1 .. N /\ sent[k].logo # l
      <3>1. sent'[k] = sent[k]
        BY <1>1, <2>3
      <3>2. /\ sent[k].logo \in DOMAIN ptrak[q]
            /\ ptrak[q][sent[k].logo] =
                 (sent[k].seq + 1 + Cardinality(Follow(k, N))) % SeqMod
        BY <1>10, <2>3, <3>1 DEF Numbered
      <3>3. Cardinality(Follow(k, n))' = Cardinality(Follow(k, N))
        BY <1>8, <2>3
      <3>4. /\ sent[k].logo \in DOMAIN ptrak'[q]
            /\ ptrak'[q][sent[k].logo] = ptrak[q][sent[k].logo]
        BY <1>2, <2>3, <3>2
      <3> QED
        BY <3>1, <3>2, <3>3, <3>4
    <2> QED
      BY <1>1, <2>1, <2>2, <2>3
  <1> QED
    BY <1>1, <1>9, <1>10 DEF Numbered

(* Only Kill makes a process die.                                          *)
LEMMA AliveStays ==
  ASSUME TypeOK, Alive, NEW p \in Putters, PutCall(p) \/ Acquire(p) \/ PutStep(p)
  PROVE  Alive'
  <1>1. put \in [Putters -> PutState]
    BY DEF TypeOK, PutTypes
  <1>2. ASSUME NEW s, s.pc # "dead", put' = [put EXCEPT ![p] = s] PROVE Alive'
    BY <1>1, <1>2 DEF Alive
  <1>3. ASSUME NEW c, c # "dead", Goto(p, c) PROVE Alive'
    BY <1>1, <1>3 DEF Alive, Goto, PutState
  <1>4. IdlePut.pc # "dead"
    BY DEF IdlePut
  <1>5. CASE PutCall(p)
    <2>1. PICK l \in PutLogos[p], n \in Lens, x \in Looks :
            put' = [put EXCEPT ![p] = [pc |-> "wait", logo |-> l, len |-> n, looks |-> x, i |-> 0]]
      BY <1>5 DEF PutCall
    <2> QED
      BY <1>2, <2>1
  <1>6. CASE Acquire(p)
    BY <1>2, <1>3, <1>4, <1>6 DEF Acquire
  <1>7. CASE WrapIn(p) \/ WrapOld(p) \/ WrapFix(p) \/ Publish(p)
    BY <1>3, <1>7 DEF WrapIn, WrapOld, WrapFix, Publish
  <1>8. CASE Delete(p)
    BY <1>3, <1>8 DEF Delete, Alive
  <1>9. CASE CopyCell(p)
    BY <1>1, <1>9 DEF CopyCell, Alive, PutState
  <1>10. CASE Release(p)
    BY <1>2, <1>4, <1>10 DEF Release
  <1> QED
    BY <1>5, <1>6, <1>7, <1>8, <1>9, <1>10 DEF PutStep

(* Numbers stay as they are while nothing is stamped.                      *)
LEMMA NumberedStays == Numbered /\ UNCHANGED <<sent, ptrak>> => Numbered'
  <1> SUFFICES ASSUME Numbered, UNCHANGED <<sent, ptrak>> PROVE Numbered'
    OBVIOUS
  <1>1. \A j, k \in 1 .. Len(sent') :
       j < k /\ sent'[j].logo = sent'[k].logo =>
         sent'[k].seq = (sent'[j].seq + Cardinality(Follow(j, k))') % SeqMod
    BY DEF Numbered, Follow
  <1>2. \A p \in Putters : \A k \in 1 .. Len(sent') :
       sent'[k].logo \in PutLogos[p] =>
         /\ sent'[k].logo \in DOMAIN ptrak'[p]
         /\ ptrak'[p][sent'[k].logo] =
              (sent'[k].seq + 1 + Cardinality(Follow(k, Len(sent)))') % SeqMod
    BY DEF Numbered, Follow
  <1> QED
    BY <1>1, <1>2 DEF Numbered

LEMMA StepNumbers ==
  ASSUME OneSource, NumInv, RingInv', [Next]_vars PROVE NumInv'
  <1> SUFFICES ASSUME kills' = 0 PROVE Alive' /\ Numbered'
    BY DEF NumInv
  <1>0. RingInv /\ TypeOK /\ kills \in Nat /\ Len(sent) \in Nat
    BY StreamFacts DEF NumInv, RingInv, TypeOK, RingTypes
  <1>1. CASE \E p \in Putters : Kill(p)
    <2>1. kills' = kills + 1
      BY <1>1 DEF Kill
    <2> QED
      BY <1>0, <2>1
  <1>2. CASE \E p \in Putters : Restart(p)
    <2>1. kills = 0
      BY <1>2 DEF Restart
    <2>2. Alive
      BY <2>1 DEF NumInv
    <2> QED
      BY <1>2, <2>2 DEF Restart, Alive
  <1>3. ASSUME NEW p \in Putters, PutCall(p) \/ Acquire(p) \/ PutStep(p)
        PROVE  Alive' /\ Numbered'
    <2>1. kills = 0
      BY <1>3 DEF PutCall, Acquire, PutStep, WrapIn, WrapOld, WrapFix, Delete, CopyCell, Publish,
                  Release
    <2>2. Alive /\ Numbered
      BY <2>1 DEF NumInv
    <2>3. Alive'
      BY <1>0, <1>3, <2>2, AliveStays
    <2>4. CASE Acquire(p) /\ CanTrack(p)
      BY <1>0, <2>2, <2>3, <2>4, StampNumbers
    <2>5. CASE ~ (Acquire(p) /\ CanTrack(p))
      <3>1. UNCHANGED <<sent, ptrak>>
        BY <1>3, <2>5 DEF PutCall, Acquire, PutStep, WrapIn, WrapOld, WrapFix, Delete, CopyCell,
                  Publish, Release
      <3> QED
        BY <2>2, <2>3, <3>1, NumberedStays
    <2> QED
      BY <2>4, <2>5
  <1>4. CASE (\E g \in Getters : GetCall(g) \/ GetStep(g)) \/ UNCHANGED vars
    <2>1. UNCHANGED <<sent, ptrak, kills, put>>
      <3>1. CASE \E g \in Getters : GetCall(g) \/ GetStep(g)
        BY <3>1, GetterFrame DEF putVars
      <3>2. CASE UNCHANGED vars
        BY <3>2 DEF vars
      <3> QED
        BY <1>4, <3>1, <3>2
    <2>2. Alive /\ Numbered
      BY <2>1 DEF NumInv
    <2> QED
      BY <2>1, <2>2, NumberedStays DEF Alive
  <1> QED
    BY <1>1, <1>2, <1>3, <1>4 DEF Next

LEMMA InitNumbers == Init => NumInv
  <1> SUFFICES ASSUME Init PROVE Alive /\ Numbered
    BY InitRing DEF NumInv
  <1>1. \A p \in Putters : put[p].pc = "idle"
    BY DEF Init, IdlePut
  <1>2. Len(sent) = 0
    BY DEF Init
  <1> QED
    BY <1>1, <1>2 DEF Alive, Numbered

(* The entries of a getter's table are counted.                            *)
LEMMA TableSize ==
  ASSUME RingInv, NEW g \in Getters
  PROVE  NTrackGet \in Nat /\ Cardinality(DOMAIN gtrak[g]) \in Nat
  <1>1. DOMAIN gtrak[g] \subseteq Patterns /\ IsFiniteSet(Logos) /\ NTrackGet \in Nat
    BY TransportAssumption, GetterFacts DEF RingInv, TransportAssumption
  <1>2. IsFiniteSet(Patterns)
    BY <1>1, FS_AddElement DEF Patterns
  <1> QED
    BY <1>1, <1>2, FS_Subset, FS_CardinalityType

(* The tracker of a logo expects the number after that of the message last *)
(* got; without a tracker there is no room for one.                        *)
Expects(g) ==
  \A l \in Logos : last[g][l] # 0 =>
    IF l \in DOMAIN gtrak[g]
    THEN gtrak[g][l].active /\ gtrak[g][l].seq = NextSeq(sent[last[g][l]].seq)
    ELSE Cardinality(DOMAIN gtrak[g]) >= NTrackGet
Told(g) ==
  Returned(g, {"GET_OK", "GET_MISS"}) /\ get[g].prev # 0 =>
    (get[g].status = "GET_MISS" <=> Cardinality(Skipped(g)) % SeqMod # 0)
Expecting(g) == Expects(g) /\ Told(g)

LEMMA ExpectsKept ==
  ASSUME RingInv, [Next]_vars, NEW g \in Getters, Reading(g), Expects(g), last'[g] = last[g],
         DOMAIN gtrak[g] \subseteq DOMAIN gtrak'[g],
         \A t \in DOMAIN gtrak[g] : gtrak[g][t].active =>
           gtrak'[g][t].active /\ gtrak'[g][t].seq = gtrak[g][t].seq,
         \A t \in DOMAIN gtrak'[g] : t \in DOMAIN gtrak[g] \/ Cardinality(DOMAIN gtrak[g]) < NTrackGet
  PROVE  Expects(g)'
  <1> SUFFICES ASSUME NEW l \in Logos, NEW j, j = last[g][l], j # 0
               PROVE  IF l \in DOMAIN gtrak'[g]
                      THEN gtrak'[g][l].active /\ gtrak'[g][l].seq = NextSeq(sent'[j].seq)
                      ELSE Cardinality(DOMAIN gtrak'[g]) >= NTrackGet
    BY DEF Expects, NextSeq
  <1>1. sent'[j] = sent[j]
    <2>1. j \in 1 .. Len(sent)
      <3>1. last \in [Getters -> [Logos -> 0 .. Len(sent)]] /\ Len(sent) \in Nat
        BY GetterFacts, StreamFacts DEF RingInv
      <3> QED
        BY <3>1
    <2> QED
      BY <2>1, SentGrows
  <1>2. IF l \in DOMAIN gtrak[g]
        THEN gtrak[g][l].active /\ gtrak[g][l].seq = NextSeq(sent[j].seq)
        ELSE Cardinality(DOMAIN gtrak[g]) >= NTrackGet
    BY DEF Expects
  <1>3. CASE l \in DOMAIN gtrak[g]
    BY <1>1, <1>2, <1>3
  <1>4. CASE l \notin DOMAIN gtrak[g]
    <2>1. /\ Cardinality(DOMAIN gtrak[g]) >= NTrackGet
          /\ ~ (Cardinality(DOMAIN gtrak[g]) < NTrackGet)
      <3>1. NTrackGet \in Nat /\ Cardinality(DOMAIN gtrak[g]) \in Nat
        BY TableSize
      <3> QED
        BY <1>2, <1>4, <3>1
    <2>2. DOMAIN gtrak'[g] = DOMAIN gtrak[g]
      BY <2>1
    <2> QED
      BY <1>4, <2>1, <2>2
  <1> QED
    BY <1>3, <1>4

(* What a getter was told stays true.                                      *)
LEMMA ToldKept ==
  ASSUME RingInv, [Next]_vars, NEW g \in Getters, Reading(g), Told(g),
         get'[g] = get[g]
  PROVE  Told(g)'
  <1> SUFFICES ASSUME get[g].pc = "ret", get[g].status \in {"GET_OK", "GET_MISS"}, get[g].prev # 0
               PROVE  (get[g].status = "GET_MISS" <=> Cardinality(Skipped(g))' % SeqMod # 0)
    BY DEF Told, Returned
  <1>1. (get[g].status = "GET_MISS" <=> Cardinality(Skipped(g)) % SeqMod # 0)
    BY DEF Told, Returned
  <1> DEFINE k == get[g].buf[1][1]
             j == get[g].prev
  <1>2. k \in 1 .. npub /\ npub \in Nat /\ Len(sent) \in Nat /\ npub <= Len(sent) /\ j \in Nat
    <2>1. k \in 1 .. npub
      BY DEF Reading, Delivered, Returned, Got
    <2>2. j \in Nat
      BY GetterFacts DEF RingInv, GetState, TypeOK, GetTypes
    <2> QED
      BY <2>1, <2>2, StreamFacts DEF RingInv
  <1> HIDE DEF k, j
  <1>3. \A x \in j + 1 .. k - 1 : sent'[x] = sent[x]
    BY <1>2, SentGrows
  <1>4. sent'[k] = sent[k]
    BY <1>2, SentGrows
  <1>5. {x \in j + 1 .. k - 1 : sent'[x].logo = sent'[k].logo} =
        {x \in j + 1 .. k - 1 : sent[x].logo = sent[k].logo}
    BY <1>3, <1>4
  <1>6. Skipped(g)' = Skipped(g)
    BY <1>5 DEF Skipped, Got, k, j
  <1> QED
    BY <1>1, <1>6

(* Adding c to a number leaves its remainder exactly when c is a multiple. *)
LEMMA SameNumber ==
  ASSUME NEW M \in Nat \ {0}, NEW x \in Nat, NEW c \in Nat
  PROVE  (x + c) % M = x % M <=> c % M = 0
  <1>1. x % M \in 0 .. M - 1 /\ c % M \in 0 .. M - 1
    OBVIOUS
  <1> DEFINE a == x % M
             b == c % M
  <1>2. a \in 0 .. M - 1 /\ b \in 0 .. M - 1
    BY <1>1
  <1>3. (x + c) % M = (a + c) % M
    BY RemainderSum
  <1>4. (c + a) % M = (b + a) % M
    <2>1. a \in Nat
      BY <1>2
    <2> HIDE DEF a
    <2> QED
      BY <2>1, RemainderSum
  <1> HIDE DEF a, b
  <1>5. (x + c) % M = (a + b) % M
    <2>1. a + c = c + a /\ b + a = a + b
      BY <1>2
    <2> QED
      BY <1>3, <1>4, <2>1
  <1>6. CASE a + b < M
    <2>1. a + b \in 0 .. M - 1
      BY <1>2, <1>6
    <2>2. (a + b) % M = a + b
      <3>1. \A y \in 0 .. M - 1 : (M * 0 + y) % M = y
        BY RemainderIs
      <3> DEFINE y == a + b
      <3>2. y \in 0 .. M - 1 /\ M * 0 + y = y
        BY <2>1
      <3> HIDE DEF y
      <3>3. y % M = y
        BY <3>1, <3>2
      <3> QED
        BY <3>3 DEF y
    <2> QED
      BY <1>2, <1>5, <2>2 DEF a, b
  <1>7. CASE a + b >= M
    <2>1. a + b - M \in 0 .. M - 1 /\ b # 0 /\ a + b - M # a
      BY <1>2, <1>7
    <2>2. (a + b) % M = a + b - M
      <3>1. \A y \in 0 .. M - 1 : (M * 1 + y) % M = y
        BY RemainderIs
      <3> DEFINE y == a + b - M
      <3>2. y \in 0 .. M - 1 /\ M * 1 + y = a + b
        BY <1>2, <2>1
      <3> HIDE DEF y
      <3>3. (a + b) % M = y
        BY <3>1, <3>2
      <3> QED
        BY <3>3 DEF y
    <2> QED
      BY <1>5, <2>1, <2>2 DEF a, b
  <1> QED
    BY <1>2, <1>6, <1>7

(* A getter's trackers and status after a message is taken or skipped.     *)
LEMMA FinishNumbers ==
  ASSUME RingInv, Plain, KeysFit, NEW g \in Getters, NEW k \in 1 .. npub,
         NEW toobig \in BOOLEAN, get[g].keyget = sent[k].at,
         Finish(g, HeaderOf(sent[k]), toobig)
  PROVE  LET T == gtrak[g]
             l == sent[k].logo
             full == l \notin DOMAIN T /\ Cardinality(DOMAIN T) >= NTrackGet
         IN  /\ DOMAIN gtrak'[g] = IF full THEN DOMAIN T ELSE DOMAIN T \cup {l}
             /\ toobig => get'[g].status = "GET_TOOBIG"
             /\ toobig /\ l \in DOMAIN T /\ T[l].active =>
                  gtrak'[g][l].active /\ gtrak'[g][l].seq = T[l].seq
             /\ \A t \in DOMAIN T : t # l =>
                  gtrak'[g][t].active = T[t].active /\ gtrak'[g][t].seq = T[t].seq
             /\ ~ toobig /\ full => get'[g].status = "GET_NOTRACK"
             /\ ~ toobig /\ ~ full =>
                  /\ gtrak'[g][l].active /\ gtrak'[g][l].seq = NextSeq(sent[k].seq)
                  /\ get'[g].status = IF l \in DOMAIN T /\ T[l].active /\ T[l].seq # sent[k].seq
                                      THEN "GET_MISS" ELSE "GET_OK"
  <1> DEFINE h == HeaderOf(sent[k])
             r == Trackit(g, h, toobig)
             W == Wrapup(g, r.trak, EndOf(k))
             T == gtrak[g]
             l == sent[k].logo
             full == l \notin DOMAIN T /\ Cardinality(DOMAIN T) >= NTrackGet
  <1>1. /\ h \in [logo : Logos, len : Nat, seq : 0 .. SeqMod - 1] /\ h.logo = l
        /\ h.seq = sent[k].seq
    BY MessageKeys DEF HeaderOf
  <1>2. NextKey(g, h) = EndOf(k) /\ EndOf(k) \in Nat
    BY MessageKeys
  <1>3. gtrak'[g] = W /\ get'[g].status = r.status
    BY <1>2, FinishEffect DEF RingInv
  <1>4. /\ r.trak \in [DOMAIN r.trak -> Tracker]
    <2>1. h \in [logo : Patterns, len : Nat, seq : 0 .. SeqMod - 1]
      BY <1>1 DEF Patterns
    <2> HIDE DEF h
    <2> QED
      BY <2>1, TrackitTypes DEF RingInv
  <1>5. /\ DOMAIN r.trak = IF full THEN DOMAIN T ELSE DOMAIN T \cup {l}
        /\ \A t \in DOMAIN T : t # l => r.trak[t] = T[t]
        /\ toobig => r.status = "GET_TOOBIG"
        /\ toobig /\ l \in DOMAIN T /\ T[l].active => r.trak[l] = T[l]
        /\ ~ toobig /\ full => r.status = "GET_NOTRACK"
        /\ ~ toobig /\ ~ full =>
             /\ r.trak[l].active /\ r.trak[l].seq = NextSeq(sent[k].seq)
             /\ r.status = IF l \in DOMAIN T /\ T[l].active /\ T[l].seq # sent[k].seq
                           THEN "GET_MISS" ELSE "GET_OK"
    <2> HIDE DEF h
    <2> QED
      BY <1>1, TrackitEffect DEF RingInv
  <1> HIDE DEF r, full, T
  <1>6. /\ DOMAIN W = DOMAIN r.trak
        /\ \A t \in DOMAIN r.trak : /\ W[t].active = r.trak[t].active
                                    /\ W[t].seq = r.trak[t].seq
    BY <1>2, <1>4, WrapupEffect
  <1> HIDE DEF W, h
  <1>7. /\ full => DOMAIN gtrak'[g] = DOMAIN T
        /\ ~ full => DOMAIN gtrak'[g] = DOMAIN T \cup {l}
        /\ full => l \notin DOMAIN T
    BY <1>3, <1>5, <1>6 DEF full
  <1>8. \A t \in DOMAIN T : t # l =>
          gtrak'[g][t].active = T[t].active /\ gtrak'[g][t].seq = T[t].seq
    BY <1>3, <1>5, <1>6, <1>7
  <1>9. /\ toobig /\ l \in DOMAIN T /\ T[l].active =>
             gtrak'[g][l].active /\ gtrak'[g][l].seq = T[l].seq
        /\ ~ toobig /\ ~ full => gtrak'[g][l].active /\ gtrak'[g][l].seq = NextSeq(sent[k].seq)
    BY <1>3, <1>5, <1>6, <1>7
  <1> QED
    BY <1>3, <1>5, <1>7, <1>8, <1>9 DEF full, T

(* A message too long for the caller's buffer leaves all expectations.     *)
LEMMA SkipExpects ==
  ASSUME RingInv, Plain, KeysFit, [Next]_vars, NEW g \in Getters, Reading(g), Expecting(g),
         NEW k \in 1 .. npub, get[g].keyget = sent[k].at,
         NEW toobig \in BOOLEAN, toobig, Finish(g, HeaderOf(sent[k]), toobig)
  PROVE  Expecting(g)'
  <1> DEFINE l == sent[k].logo
             T == gtrak[g]
             full == l \notin DOMAIN T /\ Cardinality(DOMAIN T) >= NTrackGet
  <1>1. /\ DOMAIN gtrak'[g] = IF full THEN DOMAIN T ELSE DOMAIN T \cup {l}
        /\ get'[g].status = "GET_TOOBIG"
        /\ l \in DOMAIN T /\ T[l].active => gtrak'[g][l].active /\ gtrak'[g][l].seq = T[l].seq
        /\ \A t \in DOMAIN T : t # l =>
             gtrak'[g][t].active = T[t].active /\ gtrak'[g][t].seq = T[t].seq
    <2>1. /\ DOMAIN gtrak'[g] = IF full THEN DOMAIN T ELSE DOMAIN T \cup {l}
          /\ toobig => get'[g].status = "GET_TOOBIG"
          /\ toobig /\ l \in DOMAIN T /\ T[l].active =>
               gtrak'[g][l].active /\ gtrak'[g][l].seq = T[l].seq
          /\ \A t \in DOMAIN T : t # l =>
               gtrak'[g][t].active = T[t].active /\ gtrak'[g][t].seq = T[t].seq
          /\ ~ toobig /\ full => get'[g].status = "GET_NOTRACK"
          /\ ~ toobig /\ ~ full =>
               /\ gtrak'[g][l].active /\ gtrak'[g][l].seq = NextSeq(sent[k].seq)
               /\ get'[g].status = IF l \in DOMAIN T /\ T[l].active /\ T[l].seq # sent[k].seq
                                   THEN "GET_MISS" ELSE "GET_OK"
      BY FinishNumbers
    <2> HIDE DEF T, l, full
    <2> QED
      BY <2>1
  <1>2. last' = last
    BY DEF Finish
  <1>3. NTrackGet \in Nat /\ Cardinality(DOMAIN T) \in Nat
    BY TableSize
  <1>4. \A t \in DOMAIN gtrak'[g] : t \in DOMAIN T \/ Cardinality(DOMAIN T) < NTrackGet
    BY <1>1, <1>3
  <1>5. Told(g)'
    BY <1>1 DEF Told, Returned
  <1>6. \A t \in DOMAIN gtrak[g] : gtrak[g][t].active =>
           gtrak'[g][t].active /\ gtrak'[g][t].seq = gtrak[g][t].seq
    BY <1>1
  <1>7. DOMAIN gtrak[g] \subseteq DOMAIN gtrak'[g] /\ last'[g] = last[g]
    BY <1>1, <1>2
  <1>8. \A t \in DOMAIN gtrak'[g] : t \in DOMAIN gtrak[g] \/ Cardinality(DOMAIN gtrak[g]) < NTrackGet
    BY <1>4
  <1>9. Expects(g)
    BY DEF Expecting
  <1>10. Expects(g)'
    BY <1>6, <1>7, <1>8, <1>9, ExpectsKept
  <1> QED
    BY <1>5, <1>10 DEF Expecting

(* A message taken is the one expected next, or some were missed.          *)
LEMMA TakeExpects ==
  ASSUME RingInv, Plain, KeysFit, Numbered, UNCHANGED putVars, NEW g \in Getters, Reading(g),
         Expecting(g), NEW k \in 1 .. npub, get[g].keyget = sent[k].at,
         get[g].buf[1] = <<k, 0>>, last[g][sent[k].logo] < k,
         NEW toobig \in BOOLEAN, ~ toobig, Finish(g, HeaderOf(sent[k]), toobig)
  PROVE  Expecting(g)'
  <1> DEFINE l == sent[k].logo
             j == last[g][l]
             T == gtrak[g]
             full == l \notin DOMAIN T /\ Cardinality(DOMAIN T) >= NTrackGet
  <1>1. /\ DOMAIN gtrak'[g] = IF full THEN DOMAIN T ELSE DOMAIN T \cup {l}
        /\ \A t \in DOMAIN T : t # l =>
             gtrak'[g][t].active = T[t].active /\ gtrak'[g][t].seq = T[t].seq
        /\ full => get'[g].status = "GET_NOTRACK"
        /\ ~ full => /\ gtrak'[g][l].active /\ gtrak'[g][l].seq = NextSeq(sent[k].seq)
                     /\ get'[g].status = IF l \in DOMAIN T /\ T[l].active /\ T[l].seq # sent[k].seq
                                         THEN "GET_MISS" ELSE "GET_OK"
    <2>1. /\ DOMAIN gtrak'[g] = IF full THEN DOMAIN T ELSE DOMAIN T \cup {l}
          /\ toobig => get'[g].status = "GET_TOOBIG"
          /\ toobig /\ l \in DOMAIN T /\ T[l].active =>
               gtrak'[g][l].active /\ gtrak'[g][l].seq = T[l].seq
          /\ \A t \in DOMAIN T : t # l =>
               gtrak'[g][t].active = T[t].active /\ gtrak'[g][t].seq = T[t].seq
          /\ ~ toobig /\ full => get'[g].status = "GET_NOTRACK"
          /\ ~ toobig /\ ~ full =>
               /\ gtrak'[g][l].active /\ gtrak'[g][l].seq = NextSeq(sent[k].seq)
               /\ get'[g].status = IF l \in DOMAIN T /\ T[l].active /\ T[l].seq # sent[k].seq
                                   THEN "GET_MISS" ELSE "GET_OK"
      BY FinishNumbers
    <2> HIDE DEF T, l, full
    <2> QED
      BY <2>1
  <1>2. /\ get'[g].pc = "ret" /\ get'[g].prev = j /\ get'[g].buf[1][1] = k
        /\ last' = [last EXCEPT ![g][l] = k]
    BY FinishEffect DEF RingInv
  <1>3. /\ l \in Logos /\ last \in [Getters -> [Logos -> 0 .. Len(sent)]] /\ k \in Nat
        /\ Len(sent) \in Nat /\ npub \in Nat /\ npub <= Len(sent) /\ j \in Nat
        /\ k \in 1 .. Len(sent)
    <2>1. l \in Logos /\ last \in [Getters -> [Logos -> 0 .. Len(sent)]]
      BY MessageKeys, GetterFacts DEF RingInv
    <2> QED
      BY <2>1, StreamFacts DEF RingInv
  <1>4. sent' = sent
    BY DEF putVars
  <1>5. ASSUME NEW x \in Logos, last'[g][x] # 0
        PROVE  IF x \in DOMAIN gtrak'[g]
               THEN gtrak'[g][x].active /\ gtrak'[g][x].seq = NextSeq(sent[last'[g][x]].seq)
               ELSE Cardinality(DOMAIN gtrak'[g]) >= NTrackGet
    <2>1. CASE x = l
      <3>1. last'[g][x] = k
        BY <1>2, <1>3, <2>1
      <3> QED
        BY <1>1, <2>1, <3>1
    <2>2. CASE x # l
      <3>1. last'[g][x] = last[g][x]
        BY <1>2, <1>3, <2>2
      <3>2. IF x \in DOMAIN T
            THEN T[x].active /\ T[x].seq = NextSeq(sent[last[g][x]].seq)
            ELSE Cardinality(DOMAIN T) >= NTrackGet
        BY <1>5, <3>1 DEF Expecting, Expects
      <3>3. CASE x \in DOMAIN T
        BY <1>1, <2>2, <3>1, <3>2, <3>3
      <3>4. CASE x \notin DOMAIN T
        <4>1. l \in DOMAIN T \/ full
          BY <3>2, <3>4
        <4>2. DOMAIN gtrak'[g] = DOMAIN T
          BY <1>1, <4>1
        <4> QED
          BY <3>2, <3>4, <4>2
      <3> QED
        BY <3>3, <3>4
    <2> QED
      BY <2>1, <2>2
  <1>6. Expects(g)'
    <2> HIDE DEF T, l, j, full
    <2> QED
      BY <1>4, <1>5 DEF Expects, NextSeq
  <1>7. ASSUME ~ full, j # 0
        PROVE  get'[g].status = "GET_MISS" <=> Cardinality(Skipped(g))' % SeqMod # 0
    <2>1. l \in DOMAIN T /\ T[l].active /\ T[l].seq = NextSeq(sent[j].seq)
      <3>1. IF l \in DOMAIN T THEN T[l].active /\ T[l].seq = NextSeq(sent[j].seq)
            ELSE Cardinality(DOMAIN T) >= NTrackGet
        BY <1>3, <1>7 DEF Expecting, Expects
      <3> QED
        BY <1>7, <3>1
    <2>2. get'[g].status = "GET_MISS" <=> NextSeq(sent[j].seq) # sent[k].seq
      BY <1>1, <1>7, <2>1
    <2>3. j \in 1 .. Len(sent) /\ sent[j].logo = l /\ j < k
      BY <1>3, <1>7 DEF Reading
    <2> DEFINE S == {m \in j + 1 .. k - 1 : sent[m].logo = l}
               c == Cardinality(S)
               x == sent[j].seq + 1
    <2>4. Skipped(g)' = S
      BY <1>2, <1>4 DEF Skipped, Got
    <2>5. Follow(j, k) = S \cup {k} /\ k \notin S
      <3>1. j + 1 .. k = (j + 1 .. k - 1) \cup {k} /\ k \notin j + 1 .. k - 1
        BY <1>3, <2>3
      <3>2. Follow(j, k) = {m \in j + 1 .. k : sent[m].logo = l}
        BY <2>3 DEF Follow
      <3> HIDE DEF j
      <3> QED
        BY <3>1, <3>2
    <2>6. IsFiniteSet(S) /\ c \in Nat
      <3>0. j + 1 \in Int /\ k - 1 \in Int
        BY <1>3
      <3> HIDE DEF j
      <3>1. IsFiniteSet(j + 1 .. k - 1)
        BY <3>0, FS_Interval
      <3>2. S \subseteq j + 1 .. k - 1
        OBVIOUS
      <3> QED
        BY <3>1, <3>2, FS_Subset, FS_CardinalityType
    <2>7. Cardinality(Follow(j, k)) = c + 1
      BY <2>5, <2>6, FS_AddElement
    <2>8. sent[k].seq = (sent[j].seq + Cardinality(Follow(j, k))) % SeqMod
      BY <1>3, <2>3 DEF Numbered
    <2>9. sent[j].seq \in Nat /\ x \in Nat /\ SeqMod \in Nat \ {0}
      <3>1. sent[j] \in Message
        BY <2>3, StreamFacts DEF RingInv
      <3> QED
        BY <3>1, TransportAssumption DEF Message, TransportAssumption
    <2>10. sent[k].seq = (x + c) % SeqMod
      <3> DEFINE s == sent[j].seq
      <3>1. s \in Nat /\ sent[k].seq = (s + (c + 1)) % SeqMod /\ x = s + 1
        BY <2>7, <2>8, <2>9
      <3>2. s + (c + 1) = x + c
        <4> HIDE DEF s, c, x
        <4> QED
          BY <2>6, <3>1
      <3> HIDE DEF s, c, x
      <3> QED
        BY <3>1, <3>2
    <2>11. NextSeq(sent[j].seq) = x % SeqMod
      BY DEF NextSeq
    <2> HIDE DEF x, c, S, j
    <2>12. (x + c) % SeqMod = x % SeqMod <=> c % SeqMod = 0
      BY <2>6, <2>9, SameNumber
    <2> QED
      BY <2>2, <2>4, <2>10, <2>11, <2>12 DEF c
  <1>8. Told(g)'
    <2> SUFFICES ASSUME get'[g].status \in {"GET_OK", "GET_MISS"}, get'[g].prev # 0
                 PROVE  get'[g].status = "GET_MISS" <=> Cardinality(Skipped(g))' % SeqMod # 0
      BY DEF Told, Returned
    <2>1. ~ full
      BY <1>1
    <2> QED
      BY <1>2, <1>7, <2>1
  <1> QED
    BY <1>6, <1>8 DEF Expecting

LEMMA InitExpecting == Init => \A g \in Getters : Expecting(g)
  <1> SUFFICES ASSUME Init, NEW g \in Getters PROVE Expecting(g)
    OBVIOUS
  <1>1. get[g].pc = "idle" /\ \A l \in Logos : last[g][l] = 0
    BY DEF Init, IdleGet
  <1> QED
    BY <1>1 DEF Expecting, Expects, Told, Returned

(* A getter's own steps keep its expectations.                             *)
LEMMA GetterExpecting ==
  ASSUME RingInv, Plain, KeysFit, RoomToTrack, Numbered, [Next]_vars, NEW g \in Getters,
         Reading(g), Ordered(g), Expecting(g), GetCall(g) \/ GetStep(g), UNCHANGED putVars
  PROVE  Expecting(g)'
  <1>0. TypeOK /\ keyold \in Nat /\ get[g].keyget \in Nat /\ Expects(g)
    BY GetterFacts DEF RingInv, Expecting
  <1>1. ASSUME gtrak'[g] = gtrak[g], last'[g] = last[g],
               get'[g].pc # "ret" \/ get'[g].status = "GET_NONE"
        PROVE  Expecting(g)'
    <2>1. Expects(g)'
      BY <1>0, <1>1, ExpectsKept
    <2>2. Told(g)'
      BY <1>1 DEF Told, Returned
    <2> QED
      BY <2>1, <2>2 DEF Expecting
  <1>2. CASE GetCall(g)
    <2>1. /\ get'[g].pc = "find" /\ last' = last /\ DOMAIN gtrak[g] \subseteq DOMAIN gtrak'[g]
          /\ \A t \in DOMAIN gtrak'[g] :
               IF t \in DOMAIN gtrak[g] THEN gtrak'[g][t] = gtrak[g][t]
               ELSE /\ t \in get'[g].req /\ gtrak'[g][t].keyout = 0
                    /\ Cardinality(DOMAIN gtrak[g]) < NTrackGet
      BY <1>0, <1>2, GetCallEffect
    <2>2. Expects(g)'
      BY <1>0, <2>1, ExpectsKept
    <2>3. Told(g)'
      BY <2>1 DEF Told, Returned
    <2> QED
      BY <2>2, <2>3 DEF Expecting
  <1>3. CASE FindKey(g)
    BY <1>0, <1>1, <1>3, FindKeyEffect
  <1>4. CASE SnapIn(g)
    <2>1. gtrak' = gtrak /\ last' = last /\ get'[g].pc # "ret"
      BY <1>0, <1>4, SnapInEffect
    <2> QED
      BY <1>1, <2>1
  <1>5. CASE ResetTrackers(g)
    BY <1>5 DEF ResetTrackers, Reading
  <1>6. CASE Scan(g)
    <2>1. last' = last
      BY <1>0, <1>6, ScanEffect
    <2>2. CASE get'[g].pc = "head" /\ gtrak' = gtrak
      BY <1>1, <2>1, <2>2
    <2>3. CASE /\ get'[g].pc = "ret" /\ get'[g].status = "GET_NONE"
               /\ gtrak'[g] = Wrapup(g, gtrak[g], get[g].keyget)
      <3>1. gtrak[g] \in [DOMAIN gtrak[g] -> Tracker]
        BY <1>0, GetterFacts
      <3>2. /\ DOMAIN gtrak'[g] = DOMAIN gtrak[g]
            /\ \A t \in DOMAIN gtrak[g] : /\ gtrak'[g][t].active = gtrak[g][t].active
                                          /\ gtrak'[g][t].seq = gtrak[g][t].seq
        BY <1>0, <2>3, <3>1, WrapupEffect
      <3>3. Expects(g)'
        BY <1>0, <2>1, <3>2, ExpectsKept
      <3>4. Told(g)'
        BY <2>3 DEF Told, Returned
      <3> QED
        BY <3>3, <3>4 DEF Expecting
    <2> QED
      BY <1>0, <1>6, <2>2, <2>3, ScanEffect
  <1>7. CASE ReadCell(g)
    <2>1. /\ get[g].pc \in {"head", "body"} /\ get'[g].pc = get[g].pc
          /\ gtrak' = gtrak /\ last' = last
      BY <1>0, <1>7, ReadCellEffect
    <2> QED
      BY <1>1, <2>1
  <1>8. ASSUME NEW key, Rescan(g, key) PROVE Expecting(g)'
    BY <1>0, <1>1, <1>8, RescanEffect
  <1>9. CASE CheckHeader(g)
    <2>1. get[g].pc = "head"
      BY <1>9 DEF CheckHeader
    <2>2. CASE Rescan(g, get[g].keyget)
      BY <1>8, <2>2
    <2>3. CASE ~ Rescan(g, get[g].keyget)
      <3>1. PICK k \in 1 .. npub :
              /\ get[g].keyget = sent[k].at
              /\ \/ Rescan(g, EndOf(k))
                 \/ Wanted(g, sent[k].logo) /\ Finish(g, HeaderOf(sent[k]), TRUE)
                 \/ /\ Wanted(g, sent[k].logo)
                    /\ get' = [get EXCEPT ![g].pc = "body", ![g].hd = HeaderOf(sent[k])]
                    /\ UNCHANGED <<gtrak, last>>
        BY <1>9, <2>3, HeaderOutcome
      <3>2. CASE Rescan(g, EndOf(k))
        BY <1>8, <3>2
      <3>3. CASE Finish(g, HeaderOf(sent[k]), TRUE)
        BY <3>1, <3>3, SkipExpects
      <3>4. CASE /\ get' = [get EXCEPT ![g].pc = "body", ![g].hd = HeaderOf(sent[k])]
                 /\ UNCHANGED <<gtrak, last>>
        <4>1. get'[g].pc = "body"
          BY <1>0, <3>4, BodyEffect
        <4>2. gtrak'[g] = gtrak[g] /\ last'[g] = last[g]
          BY <3>4
        <4> QED
          BY <1>1, <4>1, <4>2
      <3> QED
        BY <3>1, <3>2, <3>3, <3>4
    <2> QED
      BY <2>2, <2>3
  <1>10. CASE CheckCopied(g)
    <2>1. get[g].pc = "body"
      BY <1>10 DEF CheckCopied
    <2>2. PICK k \in 1 .. npub :
           /\ get[g].keyget = sent[k].at /\ Wanted(g, sent[k].logo)
           /\ \/ Rescan(g, keyold)
              \/ Finish(g, HeaderOf(sent[k]), FALSE) /\ get[g].buf[1] = <<k, 0>>
      BY <1>10, CopiedOutcome
    <2>3. CASE Rescan(g, keyold)
      BY <1>8, <2>3
    <2>4. CASE Finish(g, HeaderOf(sent[k]), FALSE) /\ get[g].buf[1] = <<k, 0>>
      <3>1. last[g][sent[k].logo] < k
        BY <2>1, <2>2, <2>4, FinishOrdered
      <3> QED
        BY <2>2, <2>4, <3>1, TakeExpects
    <2> QED
      BY <2>2, <2>3, <2>4
  <1>11. CASE Return(g)
    <2>1. get'[g].pc = "idle" /\ gtrak' = gtrak /\ last' = last
      BY <1>0, <1>11, ReturnEffect
    <2> QED
      BY <1>1, <2>1
  <1> QED
    BY <1>2, <1>3, <1>4, <1>5, <1>6, <1>7, <1>9, <1>10, <1>11 DEF GetStep

(* What each getter expects, as long as nobody was killed.                 *)
ExpectInv == /\ OrderInv /\ NumInv
             /\ KeysFit /\ kills = 0 => \A g \in Getters : Expecting(g)

LEMMA StepExpect ==
  ASSUME TwoFit, RoomToTrack, OneSource, ExpectInv, [Next]_vars PROVE ExpectInv'
  <1>1. OrderInv /\ ReadInv /\ RingInv /\ OrderInv'
    BY StepOrder DEF ExpectInv, OrderInv, ReadInv
  <1>2. RingInv'
    BY <1>1 DEF OrderInv, ReadInv
  <1>3. NumInv'
    BY <1>2, StepNumbers DEF ExpectInv
  <1> SUFFICES ASSUME KeysFit', kills' = 0, NEW g \in Getters PROVE Expecting(g)'
    BY <1>1, <1>3 DEF ExpectInv
  <1>4. kills \in Nat /\ kills = 0
    <2>1. kills \in Nat
      BY <1>1 DEF RingInv, TypeOK, RingTypes
    <2>2. kills' \in {kills, kills + 1}
      <3>1. CASE \E p \in Putters : PutCall(p) \/ Acquire(p) \/ PutStep(p) \/ Kill(p) \/ Restart(p)
        BY <3>1 DEF PutCall, Acquire, PutStep, WrapIn, WrapOld, WrapFix, Delete, CopyCell, Publish,
                  Release, Kill, Restart
      <3>2. CASE \E h \in Getters : GetCall(h) \/ GetStep(h)
        BY <3>2, GetterFrame DEF putVars
      <3>3. CASE UNCHANGED vars
        BY <3>3 DEF vars
      <3> QED
        BY <3>1, <3>2, <3>3 DEF Next
    <2> QED
      BY <2>1, <2>2
  <1>5. KeysFit /\ Plain /\ Reading(g) /\ Ordered(g) /\ Expecting(g) /\ Numbered
    <2>1. KeysFit
      BY <1>1, <1>2, FitBefore
    <2> QED
      BY <1>1, <1>4, <2>1 DEF ReadInv, OrderInv, ExpectInv, NumInv
  <1>6. ASSUME get'[g] = get[g], gtrak'[g] = gtrak[g], last'[g] = last[g] PROVE Expecting(g)'
    <2>1. Expects(g)'
      BY <1>1, <1>5, <1>6, ExpectsKept DEF Expecting
    <2>2. Told(g)'
      BY <1>1, <1>5, <1>6, ToldKept DEF Expecting
    <2> QED
      BY <2>1, <2>2 DEF Expecting
  <1>7. CASE \E p \in Putters : PutCall(p) \/ Acquire(p) \/ PutStep(p) \/ Kill(p) \/ Restart(p)
    <2>1. UNCHANGED getVars
      BY <1>1, <1>2, <1>5, <1>7, PutterEffect
    <2> QED
      BY <1>6, <2>1 DEF getVars
  <1>8. ASSUME NEW h \in Getters, GetCall(h) \/ GetStep(h) PROVE Expecting(g)'
    <2>1. CASE h = g
      BY <1>1, <1>5, <1>8, <2>1, GetterFrame, GetterExpecting
    <2>2. CASE h # g
      BY <1>1, <1>6, <1>8, <2>2, OtherGetters DEF RingInv
    <2> QED
      BY <2>1, <2>2
  <1>9. CASE UNCHANGED vars
    BY <1>6, <1>9 DEF vars
  <1> QED
    BY <1>7, <1>8, <1>9 DEF Next

LEMMA ExpectAlways == ASSUME TwoFit, RoomToTrack, OneSource PROVE Spec => []ExpectInv
  <1>1. Init => ExpectInv
    BY InitRing, InitReading, InitOrdered, InitNumbers, InitExpecting
       DEF ExpectInv, OrderInv, ReadInv
  <1>2. ExpectInv /\ [Next]_vars => ExpectInv'
    BY StepExpect
  <1> QED
    BY <1>1, <1>2, PTL DEF Spec

(* Fewer messages were skipped than a sequence number can count.           *)
FewSkipped == \A g \in Getters : Cardinality(Skipped(g)) < SeqMod

(* GET_MISS is returned exactly when a message of the logo was missed, as  *)
(* long as no process that puts it was restarted with its table empty and  *)
(* not so many were missed that the unsigned char comes round.             *)
THEOREM MissesAreTold ==
  ASSUME TwoFit, RoomToTrack, OneSource
  PROVE  Spec => [](KeysFit /\ kills = 0 /\ FewSkipped => MissExact)
  <1>1. ExpectInv => (KeysFit /\ kills = 0 /\ FewSkipped => MissExact)
    <2> SUFFICES ASSUME ExpectInv, KeysFit, kills = 0, FewSkipped, NEW g \in Getters,
                        Returned(g, {"GET_OK", "GET_MISS"}), get[g].prev # 0
                 PROVE  get[g].status = "GET_MISS" <=> Skipped(g) # {}
      BY DEF MissExact
    <2> DEFINE c == Cardinality(Skipped(g))
    <2>1. get[g].status = "GET_MISS" <=> c % SeqMod # 0
      BY DEF ExpectInv, Expecting, Told
    <2>2. IsFiniteSet(Skipped(g))
      <3> DEFINE I == get[g].prev + 1 .. Got(g) - 1
      <3>1. RingInv /\ ReadInv
        BY DEF ExpectInv, OrderInv, ReadInv
      <3>2. Got(g) \in Nat /\ get[g].prev \in Nat
        <4>1. Reading(g) /\ Plain
          BY <3>1 DEF ReadInv
        <4>2. Got(g) \in 1 .. npub
          BY <4>1 DEF Reading, Delivered, Returned
        <4>3. get[g].prev \in Nat
          BY <3>1 DEF RingInv, TypeOK, GetTypes, GetState
        <4> QED
          BY <4>2, <4>3
      <3>3. IsFiniteSet(I)
        BY <3>2, FS_Interval
      <3>4. Skipped(g) \subseteq I
        BY DEF Skipped
      <3> QED
        BY <3>3, <3>4, FS_Subset
    <2>3. c \in Nat /\ (c = 0 <=> Skipped(g) = {})
      BY <2>2, FS_CardinalityType, FS_EmptySet
    <2>4. c < SeqMod /\ SeqMod \in Nat \ {0}
      BY TransportAssumption DEF FewSkipped, TransportAssumption
    <2> HIDE DEF c
    <2>5. c % SeqMod = c
      <3>1. (SeqMod * 0 + c) % SeqMod = c /\ SeqMod * 0 + c = c
        <4>1. c \in 0 .. SeqMod - 1
          BY <2>3, <2>4
        <4>2. (SeqMod * 0 + c) % SeqMod = c
          BY <2>4, <4>1, RemainderIs
        <4> QED
          BY <2>3, <2>4, <4>2
      <3> QED
        BY <3>1
    <2> QED
      BY <2>1, <2>3, <2>5
  <1> QED
    BY <1>1, ExpectAlways, PTL

-----------------------------------------------------------------------------
(***************************************************************************)
(* The gap: what lies behind keyin is not taken for a message.             *)
(***************************************************************************)

(* The first cell of a message.                                            *)
Begins(c) == c[1] # 0 /\ c[2] = 0

(* No message begins in the ring from n cells behind keyin round to keyold. *)
Gap(n) ==
  \A x \in EndOf(npub) + n .. EndOf(ndel) + KeyMax - 1 : ~ Begins(ring[Slot(x)])

(* The room a putter has taken for its message begins behind keyin.        *)
Taken(p) == IF put[p].pc \in {"room", "copy"} THEN Need(p) ELSE 0

GapInv ==
  /\ RingInv
  /\ sem = 1 => Gap(0)
  /\ \A p \in Putters : InCS(p) => Gap(Taken(p))

LEMMA InitGap == Init => GapInv
  <1> SUFFICES ASSUME Init PROVE GapInv
    OBVIOUS
  <1>1. RingInv
    BY InitRing
  <1>3. Gap(0)
    <2> SUFFICES ASSUME NEW x \in EndOf(npub) + 0 .. EndOf(ndel) + KeyMax - 1
                 PROVE  ~ Begins(ring[Slot(x)])
      BY DEF Gap
    <2>1. EndOf(npub) = 0 /\ EndOf(ndel) = 0
      BY DEF Init, EndOf
    <2>2. x \in Nat /\ Slot(x) \in 0 .. KeyMax - 1
      BY <2>1, Constants, Ranges
    <2>3. ring[Slot(x)] = NoCell
      BY <2>2 DEF Init
    <2> QED
      BY <2>3 DEF Begins, NoCell
  <1>4. \A p \in Putters : ~ InCS(p)
    BY DEF Init, InCS, IdlePut
  <1> QED
    BY <1>1, <1>3, <1>4 DEF GapInv

(* A step of the putter inside leaves the others outside.                  *)
LEMMA GapInside ==
  ASSUME RingInv', NEW p \in Putters, InCS(p)', Gap(Taken(p))'
  PROVE  /\ sem' = 1 => Gap(0)'
         /\ \A q \in Putters : InCS(q)' => Gap(Taken(q))'
  <1>1. MutualExclusion'
    BY DEF RingInv
  <1>2. sem' = 0 /\ \A q \in Putters : InCS(q)' => q = p
    BY <1>1 DEF MutualExclusion
  <1> QED
    BY <1>2

(* The ring and the counts stay, and the gap is no larger than it was.     *)
LEMMA GapStays ==
  ASSUME TypeOK, Stream, NEW m \in Nat, NEW n \in Nat, m <= n, Gap(m),
         UNCHANGED <<ring, npub, ndel>>,
         EndOf(npub)' = EndOf(npub), EndOf(ndel)' = EndOf(ndel)
  PROVE  Gap(n)'
  <1> DEFINE E == EndOf(npub)
             O == EndOf(ndel)
  <1>1. E \in Nat /\ O \in Nat
    BY StreamFacts
  <1>2. E' = E /\ O' = O
    OBVIOUS
  <1>3. \A x \in E + m .. O + KeyMax - 1 : ~ Begins(ring[Slot(x)])
    BY DEF Gap
  <1> HIDE DEF E, O
  <1>4. \A x \in E + n .. O + KeyMax - 1 : x \in E + m .. O + KeyMax - 1
    BY <1>1, Constants
  <1>5. \A x \in E + n .. O + KeyMax - 1 : ~ Begins(ring'[Slot(x)])
    BY <1>3, <1>4
  <1>6. \A x \in E' + n .. O' + KeyMax - 1 : ~ Begins(ring'[Slot(x)])
    BY <1>2, <1>5
  <1> QED
    BY <1>6 DEF Gap, E, O, Slot, Begins

LEMMA TakenFacts ==
  ASSUME RingInv, NEW p \in Putters
  PROVE  /\ Taken(p) \in Nat
         /\ put[p].pc \notin {"room", "copy"} => Taken(p) = 0
         /\ put[p].pc \in {"room", "copy"} => Taken(p) = Need(p)
  BY InsideFacts DEF Taken, InCS

(* A deleted message began where the gap ended; what is left of it in the  *)
(* gap is its inside.                                                      *)
LEMMA DeleteGap ==
  ASSUME RingInv, RingInv', NEW p \in Putters, Gap(Taken(p)), Delete(p)
  PROVE  Gap(Taken(p))'
  <1> DEFINE k == ndel + 1
             E == EndOf(npub)
             O == EndOf(ndel)
             P == EndOf(k)
             N == Need(p)
             z == Size(sent[k])
  <1>1. /\ InCS(p) /\ put[p].pc = "room" /\ ndel < npub /\ keyin + N - keyold > KeyMax
        /\ ndel' = k /\ UNCHANGED <<ring, sent, npub, put>>
    BY DeleteEffect
  <1>2. Settled /\ N \in Nat /\ N <= KeyMax /\ keyin \in Nat /\ keyold \in Nat
    BY <1>1, InsideFacts
  <1>3. ndel \in Nat /\ npub \in Nat /\ k \in 1 .. Len(sent) /\ k \in ndel + 1 .. npub
    BY <1>1, StreamFacts DEF RingInv
  <1>4. E \in Nat /\ O \in Nat /\ P \in Nat /\ P = O + z /\ z \in Nat \ {0} /\ sent[k].at = O
    <2>1. k - 1 = ndel
      BY <1>3
    <2> HIDE DEF k
    <2> QED
      BY <1>3, <2>1, StreamFacts DEF RingInv
  <1>5. E' = E /\ EndOf(ndel)' = P
    BY <1>1 DEF EndOf, Size
  <1>6. keyin - keyold = E - O
    BY <1>2 DEF Settled
  <1>7. \A x \in E + N .. O + KeyMax - 1 : ~ Begins(ring[Slot(x)])
    <2>1. Taken(p) = N
      BY <1>1 DEF Taken
    <2> QED
      BY <2>1 DEF Gap
  <1>8. \A i \in 0 .. z - 1 : ring[Slot(O + i)] = <<k, i>>
    BY <1>3, <1>4 DEF RingInv, Stored
  <1>9. Taken(p)' = N
    BY <1>1 DEF Taken, Need
  <1> HIDE DEF k, E, O, P, N, z
  <1>10. ASSUME NEW x \in E + N .. P + KeyMax - 1 PROVE ~ Begins(ring[Slot(x)])
    <2>1. CASE x < O + KeyMax
      BY <1>2, <1>4, <1>7, <2>1, Constants
    <2>2. CASE x >= O + KeyMax
      <3> DEFINE i == x - KeyMax - O
      <3>1. i \in 0 .. z - 1 /\ i # 0 /\ i \in Nat /\ x = (O + i) + KeyMax /\ O + i \in Nat
        BY <1>1, <1>2, <1>4, <1>6, <2>2, Constants
      <3> HIDE DEF i
      <3>2. Slot((O + i) + KeyMax) = Slot(O + i)
        <4> DEFINE a == O + i
        <4>1. a \in Nat /\ KeyMax \in 0 .. KeyMax /\ Slot(a) \in 0 .. KeyMax - 1
          BY <3>1, Constants, Ranges
        <4> HIDE DEF a
        <4>2. Slot(a + KeyMax) = IF Slot(a) + KeyMax < KeyMax THEN Slot(a) + KeyMax
                                 ELSE Slot(a) + KeyMax - KeyMax
          BY <4>1, SlotSum
        <4>3. Slot(a + KeyMax) = Slot(a)
          BY <4>1, <4>2, Constants
        <4> QED
          BY <4>3 DEF a
      <3>3. ring[Slot(x)] = <<k, i>>
        BY <1>8, <3>1, <3>2
      <3> QED
        BY <3>1, <3>3 DEF Begins
    <2> QED
      BY <1>2, <1>4, <2>1, <2>2, Constants
  <1>11. ring' = ring
    BY <1>1
  <1>12. \A x \in E' + N .. EndOf(ndel)' + KeyMax - 1 : ~ Begins(ring'[Slot(x)])
    BY <1>5, <1>10, <1>11
  <1> QED
    BY <1>9, <1>12 DEF Gap, E, Begins, Slot

(* A copy stays in the room the putter took.                               *)
LEMMA CopyGap ==
  ASSUME RingInv, RingInv', NEW p \in Putters, Gap(Taken(p)), CopyCell(p)
  PROVE  Gap(Taken(p))'
  <1> DEFINE E == EndOf(npub)
             O == EndOf(ndel)
             N == Need(p)
             i == put[p].i
  <1>1. InCS(p) /\ put[p].pc \in {"room", "copy"} /\ i < N
    BY DEF CopyCell, InCS
  <1>2. /\ Settled /\ N \in Nat /\ N <= KeyMax /\ i \in Nat /\ keyin \in Nat /\ keyold \in Nat
        /\ put[p] \in PutState /\ put \in [Putters -> PutState]
    BY <1>1, InsideFacts
  <1>3. E \in Nat /\ O \in Nat /\ O <= E
    <2>1. ndel \in 0 .. Len(sent) /\ npub \in 0 .. Len(sent) /\ ndel <= npub
      BY StreamFacts DEF RingInv
    <2> QED
      BY <2>1, StreamFacts DEF RingInv
  <1>4. /\ UNCHANGED <<sent, npub, ndel>>
        /\ ring' = [ring EXCEPT ![Slot(keyin + i)] = <<Len(sent), i>>]
        /\ put'[p].pc = "copy" /\ put'[p].len = put[p].len
    BY <1>1, <1>2 DEF CopyCell, PutState
  <1>5. E' = E /\ O' = O /\ Taken(p)' = N
    BY <1>4 DEF EndOf, Size, Taken, Need
  <1>6. \A x \in E + N .. O + KeyMax - 1 : ~ Begins(ring[Slot(x)])
    <2>1. Taken(p) = N
      BY <1>1 DEF Taken
    <2> QED
      BY <2>1 DEF Gap
  <1>7. Slot(keyin + i) = Slot(E + i)
    <2>1. keyin = keyold + (E - O) /\ E - O \in Nat /\ E = O + (E - O) /\ Slot(keyold) = Slot(O)
      BY <1>2, <1>3 DEF Settled
    <2>2. Slot(keyold + (E - O)) = Slot(O + (E - O))
      BY <1>2, <1>3, <2>1, SlotShift
    <2>3. Slot(keyin) = Slot(E)
      BY <2>1, <2>2
    <2> QED
      BY <1>2, <1>3, <2>3, SlotShift
  <1>8. ring \in [0 .. KeyMax - 1 -> Cells]
    BY DEF RingInv, TypeOK, RingTypes
  <1> HIDE DEF E, O, N, i
  <1>9. ASSUME NEW x \in E + N .. O + KeyMax - 1 PROVE ~ Begins(ring'[Slot(x)])
    <2> DEFINE y == E + i
    <2>1. y \in Nat /\ x \in Nat /\ y < x /\ x - y < KeyMax
      BY <1>1, <1>2, <1>3, Constants
    <2> HIDE DEF y
    <2>2. Slot(y) # Slot(x) /\ Slot(x) \in 0 .. KeyMax - 1
      BY <2>1, SlotsDiffer, Ranges
    <2>3. ring'[Slot(x)] = ring[Slot(x)]
      BY <1>4, <1>7, <1>8, <2>2 DEF y
    <2> QED
      BY <1>6, <2>3
  <1>10. \A x \in E' + N .. O' + KeyMax - 1 : ~ Begins(ring'[Slot(x)])
    BY <1>5, <1>9
  <1> QED
    BY <1>5, <1>10 DEF Gap, E, O, Begins, Slot

(* Publishing gives the room to the message.                               *)
LEMMA PublishGap ==
  ASSUME RingInv, RingInv', NEW p \in Putters, Gap(Taken(p)), Publish(p)
  PROVE  Gap(0)' /\ Taken(p)' = 0 /\ InCS(p)'
  <1> DEFINE n == npub + 1
             E == EndOf(npub)
             F == EndOf(n)
             O == EndOf(ndel)
             N == Need(p)
  <1>1. InCS(p) /\ put[p].pc = "copy"
    BY DEF Publish, InCS
  <1>2. /\ N \in Nat /\ Len(sent) = n /\ sent[n].len = put[p].len /\ N = HDR + put[p].len
        /\ put \in [Putters -> PutState] /\ put[p] \in PutState
    BY <1>1, InsideFacts DEF Inside
  <1>3. E \in Nat /\ F = E + N /\ O \in Nat /\ npub \in Nat
    <2>1. E \in Nat /\ O \in Nat /\ npub \in Nat
      BY StreamFacts DEF RingInv
    <2>2. n \in 1 .. Len(sent) /\ n - 1 = npub
      BY <1>2, <2>1
    <2> HIDE DEF n
    <2>3. /\ F = sent[n].at + Size(sent[n]) /\ sent[n].at = EndOf(n - 1)
          /\ Size(sent[n]) = HDR + sent[n].len
      BY <2>2, StreamFacts DEF RingInv
    <2> QED
      BY <1>2, <2>1, <2>2, <2>3
  <1>4. UNCHANGED <<ring, sent, ndel>> /\ npub' = n /\ put'[p].pc = "free"
    BY <1>2 DEF Publish, Goto, PutState
  <1>5. EndOf(npub)' = F /\ O' = O
    BY <1>4 DEF EndOf, Size
  <1>6. \A x \in E + N .. O + KeyMax - 1 : ~ Begins(ring[Slot(x)])
    <2>1. Taken(p) = N
      BY <1>1 DEF Taken
    <2> QED
      BY <2>1 DEF Gap
  <1>7. ring' = ring
    BY <1>4
  <1> HIDE DEF n, E, F, O, N
  <1>8. \A x \in EndOf(npub)' + 0 .. O' + KeyMax - 1 : ~ Begins(ring'[Slot(x)])
    BY <1>3, <1>5, <1>6, <1>7
  <1>9. Gap(0)'
    BY <1>8 DEF Gap, O, Begins, Slot
  <1> QED
    BY <1>4, <1>9 DEF Taken, InCS

LEMMA StepGap ==
  ASSUME GapInv, [Next]_vars PROVE GapInv'
  <1>1. RingInv /\ RingInv'
    BY StepRing DEF GapInv
  <1>2. put \in [Putters -> PutState]
    BY <1>1 DEF RingInv, TypeOK, PutTypes
  <1> DEFINE Kept == /\ sem' = 1 => Gap(0)'
                     /\ \A q \in Putters : InCS(q)' => Gap(Taken(q))'
  <1>3. \A k \in 0 .. Len(sent) : EndOf(k)' = EndOf(k)
    BY <1>1, SentGrows
  <1>4. npub \in 0 .. Len(sent) /\ ndel \in 0 .. Len(sent)
    BY <1>1, StreamFacts DEF RingInv
  <1>5. ASSUME UNCHANGED <<ring, npub, ndel>>, NEW m \in Nat, NEW n \in Nat, m <= n, Gap(m)
        PROVE  Gap(n)'
    <2>1. EndOf(npub)' = EndOf(npub) /\ EndOf(ndel)' = EndOf(ndel)
      BY <1>3, <1>4, <1>5
    <2> QED
      BY <1>1, <1>5, <2>1, GapStays DEF RingInv
  <1>6. ASSUME NEW p \in Putters, ~ InCS(p), UNCHANGED <<ring, npub, ndel, sem>>,
               ~ InCS(p)', \A q \in Putters : q # p => put'[q] = put[q]
        PROVE  Kept
    <2>1. sem' = 1 => Gap(0)'
      BY <1>5, <1>6 DEF GapInv
    <2>2. ASSUME NEW q \in Putters, InCS(q)' PROVE Gap(Taken(q))'
      <3>1. put'[q] = put[q] /\ InCS(q)
        BY <1>6, <2>2 DEF InCS
      <3>2. Taken(q)' = Taken(q)
        BY <3>1 DEF Taken, Need
      <3>3. Taken(q) \in Nat /\ Gap(Taken(q))
        BY <1>1, <3>1, TakenFacts DEF GapInv
      <3>4. PICK t \in Nat : t = Taken(q) /\ Gap(t)
        BY <3>3
      <3>5. Gap(t)'
        BY <1>5, <1>6, <3>4
      <3> QED
        BY <3>2, <3>4, <3>5
    <2> QED
      BY <2>1, <2>2
  <1>7. ASSUME NEW p \in Putters, PutCall(p) \/ Restart(p) PROVE Kept
    BY <1>2, <1>6, <1>7 DEF PutCall, Restart, InCS, IdlePut
  <1>8. ASSUME NEW p \in Putters, Kill(p) PROVE Kept
    <2>1. /\ ~ InCS(p)' /\ \A q \in Putters : q # p => put'[q] = put[q]
          /\ UNCHANGED <<ring, npub, ndel, sem>>
      BY <1>2, <1>8 DEF Kill, InCS, IdlePut
    <2>2. CASE InCS(p)
      <3>1. sem = 0 /\ \A q \in Putters : q # p => ~ InCS(q)
        BY <1>1, <2>2, OneInside DEF RingInv
      <3>2. \A q \in Putters : ~ InCS(q)'
        BY <2>1, <3>1 DEF InCS
      <3> QED
        BY <2>1, <3>1, <3>2
    <2> QED
      BY <1>6, <2>1, <2>2
  <1>9. ASSUME NEW p \in Putters, Acquire(p) PROVE Kept
    <2>1. sem = 1 /\ sem' = 0 /\ UNCHANGED <<ring, npub, ndel>> /\ Gap(0)
      BY <1>9 DEF Acquire, SemDown, GapInv
    <2>2. \A q \in Putters : InCS(q)' => put'[q].pc = "wrapin"
      <3>1. \A q \in Putters : ~ InCS(q)
        BY <1>1, <2>1 DEF RingInv, MutualExclusion
      <3> QED
        BY <1>2, <1>9, <3>1 DEF Acquire, Goto, IdlePut, InCS, PutState
    <2>3. Gap(0)'
      BY <1>5, <2>1
    <2>4. \A q \in Putters : InCS(q)' => Taken(q)' = 0
      BY <2>2 DEF Taken
    <2> QED
      BY <2>1, <2>3, <2>4
  <1>10. ASSUME NEW p \in Putters, WrapIn(p) \/ WrapOld(p) \/ WrapFix(p) PROVE Kept
    <2>1. /\ InCS(p) /\ InCS(p)' /\ put[p].pc \notin {"room", "copy"}
          /\ UNCHANGED <<ring, npub, ndel>>
      BY <1>2, <1>10 DEF WrapIn, WrapOld, WrapFix, Goto, InCS, PutState
    <2>2. Gap(0)
      BY <2>1 DEF GapInv, Taken
    <2>3. PICK t \in Nat : t = Taken(p)'
      <3>1. put'[p].len = put[p].len /\ put[p].len \in Nat
        BY <1>1, <1>2, <1>10, <2>1, InsideFacts DEF WrapIn, WrapOld, WrapFix, Goto, PutState
      <3>2. Taken(p)' \in Nat
        BY <3>1, Constants DEF Taken, Need
      <3> QED
        BY <3>2
    <2>4. Gap(t)'
      BY <1>5, <2>1, <2>2
    <2>5. Gap(Taken(p))'
      BY <2>3, <2>4
    <2> QED
      BY <1>1, <2>1, <2>5, GapInside
  <1>11. ASSUME NEW p \in Putters, Delete(p) PROVE Kept
    <2>1. InCS(p) /\ put' = put
      BY <1>1, <1>11, DeleteEffect
    <2>2. InCS(p)' /\ Gap(Taken(p))'
      BY <1>1, <1>11, <2>1, DeleteGap DEF GapInv, InCS
    <2> QED
      BY <1>1, <2>2, GapInside
  <1>12. ASSUME NEW p \in Putters, CopyCell(p) PROVE Kept
    <2>1. InCS(p) /\ InCS(p)'
      BY <1>2, <1>12 DEF CopyCell, InCS, PutState
    <2>2. Gap(Taken(p))'
      BY <1>1, <1>12, <2>1, CopyGap DEF GapInv
    <2> QED
      BY <1>1, <2>1, <2>2, GapInside
  <1>13. ASSUME NEW p \in Putters, Publish(p) PROVE Kept
    <2>1. InCS(p)
      BY <1>13 DEF Publish, InCS
    <2>2. Gap(0)' /\ Taken(p)' = 0 /\ InCS(p)'
      BY <1>1, <1>13, <2>1, PublishGap DEF GapInv
    <2>3. Gap(Taken(p))'
      BY <2>2
    <2> QED
      BY <1>1, <2>2, <2>3, GapInside
  <1>14. ASSUME NEW p \in Putters, Release(p) PROVE Kept
    <2>1. InCS(p) /\ put[p].pc = "free" /\ UNCHANGED <<ring, npub, ndel>> /\ sem' = 1
      BY <1>14 DEF Release, InCS, SemUp
    <2>2. Gap(0)'
      <3>1. Gap(0)
        BY <2>1 DEF GapInv, Taken
      <3> QED
        BY <1>5, <2>1, <3>1
    <2>3. \A q \in Putters : ~ InCS(q)'
      <3>1. MutualExclusion'
        BY <1>1 DEF RingInv
      <3> QED
        BY <2>1, <3>1 DEF MutualExclusion
    <2> QED
      BY <2>2, <2>3
  <1>15. ASSUME UNCHANGED putVars PROVE Kept
    <2>1. UNCHANGED <<ring, npub, ndel, sem, put>>
      BY <1>15 DEF putVars
    <2> QED
      <3>1. sem' = 1 => Gap(0)'
        BY <1>5, <2>1 DEF GapInv
      <3>2. ASSUME NEW q \in Putters, InCS(q)' PROVE Gap(Taken(q))'
        <4>1. InCS(q) /\ Taken(q)' = Taken(q)
          BY <2>1, <3>2 DEF InCS, Taken, Need
        <4>2. PICK t \in Nat : t = Taken(q) /\ Gap(t)
          BY <1>1, <4>1, TakenFacts DEF GapInv
        <4>3. Gap(t)'
          BY <1>5, <2>1, <4>2
        <4> QED
          BY <4>1, <4>2, <4>3
      <3> QED
        BY <3>1, <3>2
  <1>16. \/ \E p \in Putters :
              PutCall(p) \/ Acquire(p) \/ PutStep(p) \/ Kill(p) \/ Restart(p)
         \/ UNCHANGED putVars
    BY GetterFrame DEF Next, vars, putVars
  <1>17. Kept
    BY <1>7, <1>8, <1>9, <1>10, <1>11, <1>12, <1>13, <1>14, <1>15, <1>16 DEF PutStep
  <1> QED
    BY <1>1, <1>17 DEF GapInv

(* Where a getter's place is put after the keys were reset.                *)
LEMMA ResetOutRange ==
  ASSUME GapInv, sem = 1, NEW out \in Nat
  PROVE  LET r == ResetOut(out, keyin)
         IN  /\ keyold <= r /\ r <= keyold + KeyMax
             /\ r > keyin => Misleads(ring[Slot(r)])
  <1> DEFINE r == ResetOut(out, keyin)
             Back == /\ keyold <= r /\ r <= keyold + KeyMax
                     /\ r > keyin => Misleads(ring[Slot(r)])
             o == Slot(out)
             E == EndOf(npub)
             O == EndOf(ndel)
             turns == (keyold - o + KeyMax - 1) \div KeyMax
  <1>1. /\ Settled /\ Gap(0) /\ keyin \in Nat /\ keyold \in Nat
        /\ ring \in [0 .. KeyMax - 1 -> Cells]
    BY DEF GapInv, RingInv, Keys, KeysSettled, TypeOK, RingTypes
  <1>2. E \in Nat /\ O \in Nat /\ O <= E
    <2>1. ndel \in 0 .. Len(sent) /\ npub \in 0 .. Len(sent) /\ ndel <= npub
      BY StreamFacts DEF RingInv, GapInv
    <2> QED
      BY <2>1, StreamFacts DEF RingInv, GapInv
  <1>3. /\ keyold <= keyin /\ keyin - keyold = E - O /\ Slot(keyold) = Slot(O)
        /\ keyin <= keyold + KeyMax
    BY <1>1, <1>2, Constants DEF Settled
  <1>4. o \in 0 .. KeyMax - 1
    BY Ranges
  <1>5. ASSUME NEW x \in keyold .. keyold + KeyMax - 1, Slot(x) = o, IsStart(ring[o])
        PROVE  /\ keyold <= x /\ x <= keyold + KeyMax
               /\ x > keyin => Misleads(ring[Slot(x)])
    <2> SUFFICES ASSUME x > keyin PROVE Misleads(ring[o])
      BY <1>1, <1>5, Constants
    <2> DEFINE e == x - keyold
    <2>1. e \in Nat /\ x = keyold + e /\ O + e \in E + 0 .. O + KeyMax - 1
      BY <1>1, <1>2, <1>3, Constants
    <2> HIDE DEF e, E, O
    <2>2. Slot(keyold + e) = Slot(O + e)
      BY <1>1, <1>2, <1>3, <2>1, SlotShift
    <2>3. ~ Begins(ring[o])
      <3>1. ~ Begins(ring[Slot(O + e)])
        BY <1>1, <2>1 DEF Gap, E, O
      <3> QED
        BY <1>5, <2>1, <2>2, <3>1
    <2> QED
      BY <1>5, <2>3 DEF IsStart, Begins, Misleads
  <1> SUFFICES Back
    OBVIOUS
  <1>6. CASE Slot(Word(keyin - o)) = 0
    <2>1. r = keyin
      BY <1>6 DEF ResetOut
    <2> QED
      BY <1>1, <1>3, <2>1
  <1>7. CASE Slot(Word(keyin - o)) # 0 /\ ~ IsStart(ring[o])
    <2>1. r = keyold
      BY <1>7 DEF ResetOut
    <2> QED
      BY <1>1, <1>3, <2>1, Constants
  <1>8. CASE Slot(Word(keyin - o)) # 0 /\ IsStart(ring[o]) /\ o >= keyold
    <2>1. r = o
      BY <1>8 DEF ResetOut
    <2>2. Slot(o) = o /\ o \in keyold .. keyold + KeyMax - 1
      BY <1>1, <1>4, <1>8, SlotOfSmall, Constants
    <2> QED
      BY <1>5, <1>8, <2>1, <2>2
  <1>9. CASE Slot(Word(keyin - o)) # 0 /\ IsStart(ring[o]) /\ o < keyold
    <2> DEFINE x == o + KeyMax * turns
    <2>1. r = x
      BY <1>1, <1>4, <1>9 DEF ResetOut
    <2>2. x \in keyold .. keyold + KeyMax - 1 /\ turns \in Nat
      <3> DEFINE d == keyold - o + KeyMax - 1
      <3>1. d \in Nat /\ o \in Nat /\ keyold = d + o + 1 - KeyMax
        BY <1>1, <1>4, <1>9, Constants
      <3> HIDE DEF d, o
      <3>2. d = KeyMax * (d \div KeyMax) + (d % KeyMax) /\ d \div KeyMax \in Nat /\ d % KeyMax \in 0 .. KeyMax - 1
        BY <3>1, Constants
      <3>3. turns = d \div KeyMax
        BY DEF d, o
      <3> HIDE DEF turns
      <3>4. KeyMax * turns = d - (d % KeyMax) /\ turns \in Nat
        BY <3>1, <3>2, <3>3, Constants
      <3>5. x \in keyold .. keyold + KeyMax - 1
        BY <1>1, <3>1, <3>2, <3>4, Constants
      <3> QED
        BY <3>4, <3>5
    <2>3. Slot(x) = o
      <3> HIDE DEF turns, o
      <3>1. (KeyMax * turns + o) % KeyMax = o
        BY <1>4, <2>2, Constants, RemainderIs
      <3>2. KeyMax * turns + o = x
        BY <1>4, <2>2, Constants
      <3> QED
        BY <3>1, <3>2 DEF Slot
    <2> HIDE DEF x
    <2> QED
      BY <1>5, <1>9, <2>1, <2>2, <2>3
  <1> QED
    BY <1>1, <1>4, <1>6, <1>7, <1>8, <1>9

(* KeyoutPutBack: after a key reset, with no putter at work, the trackers   *)
(* of a getter are put back behind no more than a lap of the ring, and     *)
(* beyond keyin only where a byte inside a message looks like a first one. *)
THEOREM PlacesPutBack == Spec => KeyoutPutBack
  <1> DEFINE Placed(r) == /\ keyold <= r /\ r <= keyold + KeyMax
                          /\ r > keyin => Misleads(ring[Slot(r)])
             Back == \A g \in Getters : PutsBack(g) =>
                       \A t \in DOMAIN gtrak[g] : Placed(gtrak'[g][t].keyout)
  <1>1. GapInv => Back
    <2> SUFFICES ASSUME GapInv, NEW g \in Getters, PutsBack(g), NEW t \in DOMAIN gtrak[g]
                 PROVE  Placed(gtrak'[g][t].keyout)
      OBVIOUS
    <2>0. ResetTrackers(g) /\ sem = 1 /\ get[g].keyin = keyin
      BY DEF PutsBack
    <2>1. /\ gtrak = [h \in Getters |-> gtrak[h]]
          /\ gtrak[g] \in [DOMAIN gtrak[g] -> Tracker]
      BY DEF GapInv, RingInv, TypeOK, GetTypes
    <2>2. gtrak[g][t] \in Tracker /\ gtrak[g][t].keyout \in Nat
      BY <2>1 DEF Tracker
    <2>3. gtrak' = [gtrak EXCEPT ![g] =
                 [u \in DOMAIN gtrak[g] |->
                    [gtrak[g][u] EXCEPT !.keyout = ResetOut(@, keyin)]]]
      BY <2>0 DEF ResetTrackers
    <2>4. gtrak'[g] = [u \in DOMAIN gtrak[g] |->
                         [gtrak[g][u] EXCEPT !.keyout = ResetOut(@, keyin)]]
      BY <2>1, <2>3
    <2>5. gtrak'[g][t].keyout = ResetOut(gtrak[g][t].keyout, keyin)
      BY <2>2, <2>4 DEF Tracker
    <2> QED
      BY <2>0, <2>2, <2>5, ResetOutRange
  <1>2. GapInv /\ [Next]_vars => GapInv'
    BY StepGap
  <1> QED
    BY <1>1, <1>2, InitGap, PTL DEF Spec, KeyoutPutBack
=============================================================================
