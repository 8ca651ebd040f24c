----------------------------- MODULE Transport -----------------------------
(***************************************************************************)
(* The shared-memory transport ring of Earthworm: tport_putmsg and         *)
(* tport_getmsg of libsrc/unix/transport.c on one region.                  *)
(*                                                                         *)
(* Putters exclude each other with a System V semaphore; getters take no   *)
(* lock at all and detect that a putter overtook them by looking at        *)
(* keyold before and after they copy.  Every load and store of the shared  *)
(* header and every cell copied is a step of its own, except where a       *)
(* comment says that several private steps are one.                        *)
(*                                                                         *)
(* A cell of the ring stands for the bytes of one message copied in one    *)
(* go: <<k, i>> is the i-th cell of message k.  Its header takes HDR       *)
(* cells, the first holding the byte FIRST_BYTE and the last one the size, *)
(* logo and sequence number.                                               *)
(***************************************************************************)
EXTENDS Integers, Sequences, FiniteSets

CONSTANTS
  Putters,    \* processes that call tport_putmsg
  Getters,    \* processes that call tport_getmsg
  Logos,      \* concrete message logos
  WILD,       \* the wildcard logo
  PutLogos,   \* PutLogos[p]: logos putter p puts
  Requests,   \* Requests[g]: the sets of patterns getter g calls with
  Lens,       \* message lengths, in cells
  Looks,      \* whether bytes of a message other than its first may be FIRST_BYTE
  MaxSize,    \* size of the caller's buffer in tport_getmsg
  HDR,        \* cells of a transport header
  KeyMax,     \* cells of the ring
  WordMod,    \* 2^w, w the width of the unsigned long keys
  SeqMod,     \* 256 in the code: the sequence number is an unsigned char
  NTrackPut,  \* NTRACK_PUT
  NTrackGet,  \* NTRACK_GET
  MaxMsgs,    \* bound: no call is made once so many messages were put
  MaxKills    \* bound: putters killed in a behaviour

ASSUME TransportAssumption ==
  /\ HDR \in Nat \ {0} /\ KeyMax \in Nat \ {0}
  /\ WordMod \in Nat /\ WordMod >= 3 * KeyMax
  /\ SeqMod \in Nat \ {0}
  /\ Lens \subseteq Nat /\ Looks \subseteq BOOLEAN /\ MaxSize \in Nat
  /\ NTrackPut \in Nat /\ NTrackGet \in Nat
  /\ MaxMsgs \in Nat /\ MaxKills \in Nat
  /\ IsFiniteSet(Logos) /\ WILD \notin Logos
  /\ PutLogos \in [Putters -> SUBSET Logos]
  /\ Requests \in [Getters -> SUBSET SUBSET (Logos \cup {WILD})]

VARIABLES
  keyin, keyold,  \* SHM_HEAD: next free byte, oldest complete message
  ring,           \* the circular buffer
  sem,            \* the region's semaphore: 1 = SHM_FREE
  put,            \* put[p]: program counter and arguments of a putter
  ptrak,          \* ptrak[p]: its static trak[], next sequence number by logo
  get,            \* get[g]: program counter and locals of a getter
  gtrak,          \* gtrak[g]: its static trak[], by pattern
  last,           \* history: last[g][l] = last message of logo l got by g
  sent,           \* history: every message stamped, in order
  npub, ndel,     \* history: how many were published, and deleted
  kills           \* putters killed so far

putVars  == <<keyin, keyold, ring, sem, put, ptrak, sent, npub, ndel, kills>>
getVars  == <<get, gtrak, last>>
vars     == <<keyin, keyold, ring, sem, put, ptrak, get, gtrak, last, sent, npub,
              ndel, kills>>

Patterns == Logos \cup {WILD}
Key      == 0 .. WordMod - 1
Slot(k)  == k % KeyMax
Word(x)  == x % WordMod
NoCell   == <<0, 0>>               \* a byte no message ever wrote
Cells    == (0 .. Len(sent)) \X Nat
Message  == [logo : Logos, len : Nat, seq : 0 .. SeqMod - 1, looks : BOOLEAN, at : Nat]
Tracker  == [seq : 0 .. SeqMod - 1, keyout : Nat, active : BOOLEAN]
NoTable  == [l \in {} |-> 0]      \* trak[] before the first call

Size(m)     == HDR + m.len
IsStart(c)  == c[1] # 0 /\ (c[2] = 0 \/ sent[c[1]].looks)
IsFields(c) == c[1] # 0 /\ c[2] = HDR - 1
Matches(pat, l) == pat = WILD \/ pat = l

(* The stream offset where message k begins, and where the next one will.  *)
EndOf(k) == IF k = 0 THEN 0 ELSE sent[k].at + Size(sent[k])

(***************************************************************************)
(* A header is known by its fields cell; any other cell decodes to         *)
(* whatever bytes it holds, so to any header.                              *)
(***************************************************************************)
Header == [logo : Logos, len : Lens, seq : 0 .. SeqMod - 1]
HeaderOf(m) == [logo |-> m.logo, len |-> m.len, seq |-> m.seq]
Decode(c) == IF IsFields(c) THEN {HeaderOf(sent[c[1]])} ELSE Header

(***************************************************************************)
(* tport_putmsg.                                                           *)
(***************************************************************************)
IdlePut == [pc |-> "idle", logo |-> WILD, len |-> 0, looks |-> FALSE, i |-> 0]
Goto(p, pc) == put' = [put EXCEPT ![p].pc = pc]
Need(p) == HDR + put[p].len

(* The call: a message that can never fit is refused before the semaphore  *)
(* is touched (PUT_TOOBIG, which changes nothing and is left out).         *)
TooBig(len) == len + HDR > KeyMax

PutCall(p) ==
  /\ put[p].pc = "idle"
  /\ Len(sent) < MaxMsgs
  /\ \E l \in PutLogos[p], n \in Lens, x \in Looks :
       /\ ~TooBig(n)
       /\ put' = [put EXCEPT ![p] = [pc |-> "wait", logo |-> l, len |-> n, looks |-> x,
                                    i |-> 0]]
  /\ UNCHANGED <<keyin, keyold, ring, sem, ptrak, sent, npub, ndel, kills, getVars>>

SemDown_Ignored == sem' = 0
SemDown == sem = 1 /\ sem' = 0

SemUp_Forgotten == sem' = sem
SemUp == sem' = 1

(* An incremented unsigned char.                                           *)
NextSeq_Wide(s) == s + 1
NextSeq(s) == (s + 1) % SeqMod

(* semop(SHM_INUSE), the search of trak[] and the building of the header,  *)
(* which only touch private memory, are one step.  With the table full the *)
(* code returns PUT_NOTRACK at once: the semaphore stays down.             *)
CanTrack(p) == \/ put[p].logo \in DOMAIN ptrak[p]
               \/ Cardinality(DOMAIN ptrak[p]) < NTrackPut

Stamp(p) ==
  LET l == put[p].logo
      s == IF l \in DOMAIN ptrak[p] THEN ptrak[p][l] ELSE 0
  IN  /\ sent' = Append(sent, [logo |-> l, len |-> put[p].len, seq |-> s,
                               looks |-> put[p].looks, at |-> EndOf(Len(sent))])
      /\ ptrak' = [ptrak EXCEPT ![p] =
                     [k \in DOMAIN ptrak[p] \cup {l} |->
                        IF k = l THEN NextSeq(s) ELSE ptrak[p][k]]]

Acquire(p) ==
  /\ put[p].pc = "wait"
  /\ SemDown
  /\ IF CanTrack(p) THEN Goto(p, "wrapin") /\ Stamp(p)
                    ELSE put' = [put EXCEPT ![p] = IdlePut] /\ UNCHANGED <<ptrak, sent>>
  /\ UNCHANGED <<keyin, keyold, ring, npub, ndel, kills, getVars>>

(* keyin and keyold are reset, in up to three stores, when keyin would     *)
(* overflow the word.                                                      *)
WrapIn(p) ==
  /\ put[p].pc = "wrapin"
  /\ IF Word(keyin + Need(p)) < keyold
       THEN keyin' = Slot(keyin) /\ Goto(p, "wrapold")
       ELSE keyin' = keyin /\ Goto(p, "room")
  /\ UNCHANGED <<keyold, ring, sem, ptrak, sent, npub, ndel, kills, getVars>>

WrapOld(p) ==
  /\ put[p].pc = "wrapold"
  /\ keyold' = Slot(keyold)
  /\ Goto(p, "wrapfix")
  /\ UNCHANGED <<keyin, ring, sem, ptrak, sent, npub, ndel, kills, getVars>>

FixedIn_Strict == IF keyin < keyold THEN keyin + KeyMax ELSE keyin
FixedIn == IF keyin <= keyold THEN keyin + KeyMax ELSE keyin

WrapFix(p) ==
  /\ put[p].pc = "wrapfix"
  /\ keyin' = FixedIn
  /\ Goto(p, "room")
  /\ UNCHANGED <<keyold, ring, sem, ptrak, sent, npub, ndel, kills, getVars>>

NoRoom(p) == Word(keyin + Need(p) - keyold) > KeyMax

(* One turn of the loop that deletes the oldest message.                   *)
Delete(p) ==
  /\ put[p].pc = "room"
  /\ NoRoom(p)
  /\ IF IsStart(ring[Slot(keyold)])
       THEN /\ \E h \in Decode(ring[Slot(keyold + HDR - 1)]) :
                 keyold' = Word(keyold + Size(h))
            /\ ndel' = ndel + 1
            /\ put' = put
       ELSE Goto(p, "exit") /\ UNCHANGED <<keyold, ndel>>
  /\ UNCHANGED <<keyin, ring, sem, ptrak, sent, npub, kills, getVars>>

CopyCell(p) ==
  /\ put[p].pc = "copy" \/ (put[p].pc = "room" /\ ~NoRoom(p))
  /\ put[p].i < Need(p)
  /\ ring' = [ring EXCEPT ![Slot(keyin + put[p].i)] = <<Len(sent), put[p].i>>]
  /\ put' = [put EXCEPT ![p].pc = "copy", ![p].i = @ + 1]
  /\ UNCHANGED <<keyin, keyold, sem, ptrak, sent, npub, ndel, kills, getVars>>

Publish(p) ==
  /\ put[p].pc = "copy"
  /\ put[p].i = Need(p)
  /\ keyin' = Word(keyin + Need(p))
  /\ npub' = npub + 1
  /\ Goto(p, "free")
  /\ UNCHANGED <<keyold, ring, sem, ptrak, sent, ndel, kills, getVars>>

Release(p) ==
  /\ put[p].pc = "free"
  /\ SemUp
  /\ put' = [put EXCEPT ![p] = IdlePut]
  /\ UNCHANGED <<keyin, keyold, ring, ptrak, sent, npub, ndel, kills, getVars>>

(* startstop kills a module with SIGKILL wherever it is; semop was called  *)
(* without SEM_UNDO, so the semaphore keeps its value.                     *)
Kill(p) ==
  /\ kills < MaxKills
  /\ put[p].pc \notin {"dead", "exit"}
  /\ kills' = kills + 1
  /\ put' = [put EXCEPT ![p] = [IdlePut EXCEPT !.pc = "dead"]]
  /\ UNCHANGED <<keyin, keyold, ring, sem, ptrak, sent, npub, ndel, getVars>>

(* The restarted module starts with an empty trak[].                       *)
Restart(p) ==
  /\ put[p].pc = "dead"
  /\ put' = [put EXCEPT ![p] = IdlePut]
  /\ ptrak' = [ptrak EXCEPT ![p] = NoTable]
  /\ UNCHANGED <<keyin, keyold, ring, sem, sent, npub, ndel, kills, getVars>>

PutStep(p) == \/ WrapIn(p) \/ WrapOld(p) \/ WrapFix(p) \/ Delete(p)
              \/ CopyCell(p) \/ Publish(p) \/ Release(p)

(***************************************************************************)
(* tport_getmsg.                                                           *)
(***************************************************************************)
NoHeader == [logo |-> WILD, len |-> 0, seq |-> 0]
IdleGet  == [pc |-> "idle", req |-> {}, keyget |-> 0, keyin |-> 0, buf |-> <<>>,
             hd |-> NoHeader, status |-> "GET_OK", prev |-> 0]

Wanted(g, l) == \E pat \in get[g].req : Matches(pat, l)

(* The call: requested logos enter trak[] while there is room.             *)
GetCall(g) ==
  /\ get[g].pc = "idle"
  /\ \E req \in Requests[g] :
       LET tracked == DOMAIN gtrak[g]
           free    == NTrackGet - Cardinality(tracked)
           new     == req \ tracked
           entered == IF Cardinality(new) <= free THEN {new}
                      ELSE {e \in SUBSET new : Cardinality(e) = free}
       IN  /\ get' = [get EXCEPT ![g].pc = "find", ![g].req = req]
           /\ \E e \in entered :
                gtrak' = [gtrak EXCEPT ![g] =
                  [t \in tracked \cup e |->
                     IF t \in tracked THEN gtrak[g][t]
                     ELSE [seq |-> 0, keyout |-> 0, active |-> FALSE]]]
  /\ UNCHANGED <<last, putVars>>

(* findkey: the latest position any matching tracker reached.              *)
FindKey(g) ==
  /\ get[g].pc = "find"
  /\ LET outs == {keyold} \cup
                 {gtrak[g][t].keyout : t \in {u \in DOMAIN gtrak[g] : Wanted(g, u)}}
     IN  \E k \in outs : /\ \A o \in outs : o <= k
                         /\ get' = [get EXCEPT ![g].pc = "bound", ![g].keyget = k]
  /\ UNCHANGED <<gtrak, last, putVars>>

SnapIn(g) ==
  /\ get[g].pc = "bound"
  /\ get' = [get EXCEPT ![g].keyin = keyin,
                        ![g].pc = IF get[g].keyget > keyin THEN "reset" ELSE "scan"]
  /\ UNCHANGED <<gtrak, last, putVars>>

(* The keys were reset by a putter: every tracker is moved to the same     *)
(* place of the ring, to keyold if that is no message start, or to keyin.  *)
(* keyold and the start bytes are read in one step.                        *)
ResetOut_NotLifted(out, in) ==
  LET o == Slot(out)
  IN  CASE Slot(Word(in - o)) = 0                    -> in
        [] Slot(Word(in - o)) # 0 /\ ~IsStart(ring[o]) -> keyold
        [] OTHER -> o
ResetOut(out, in) ==
  LET o == Slot(out)
  IN  CASE Slot(Word(in - o)) = 0                    -> in
        [] Slot(Word(in - o)) # 0 /\ ~IsStart(ring[o]) -> keyold
        [] OTHER -> IF o >= keyold THEN o
                    ELSE o + KeyMax * ((keyold - o + KeyMax - 1) \div KeyMax)

ResetTrackers(g) ==
  /\ get[g].pc = "reset"
  /\ gtrak' = [gtrak EXCEPT ![g] =
                 [t \in DOMAIN gtrak[g] |->
                    [gtrak[g][t] EXCEPT !.keyout = ResetOut(@, get[g].keyin)]]]
  /\ get' = [get EXCEPT ![g].pc = "find"]
  /\ UNCHANGED <<last, putVars>>

(* wrapup: all requested trackers point behind what was looked at.         *)
Wrapup_Forgotten(g, trak, key) == trak
Wrapup_Skips(g, trak, key) ==
  [t \in DOMAIN trak |->
     IF Wanted(g, t) THEN [trak[t] EXCEPT !.keyout = get[g].keyin] ELSE trak[t]]
Wrapup(g, trak, key) ==
  [t \in DOMAIN trak |-> IF Wanted(g, t) THEN [trak[t] EXCEPT !.keyout = key] ELSE trak[t]]

(* The loop's condition, and the step over what was deleted meanwhile:     *)
(* keyold is loaded once.                                                  *)
Scan(g) ==
  /\ get[g].pc = "scan"
  /\ LET key == get[g].keyget
     IN  IF key < get[g].keyin
           THEN /\ get' = [get EXCEPT ![g].pc = "head", ![g].buf = <<>>,
                                      ![g].keyget = IF key < keyold THEN keyold ELSE key]
                /\ UNCHANGED gtrak
           ELSE /\ get' = [get EXCEPT ![g].pc = "ret", ![g].status = "GET_NONE"]
                /\ gtrak' = [gtrak EXCEPT ![g] = Wrapup(g, @, key)]
  /\ UNCHANGED <<last, putVars>>

ReadCell(g) ==
  /\ \/ get[g].pc = "head" /\ Len(get[g].buf) < HDR
     \/ get[g].pc = "body" /\ Len(get[g].buf) < HDR + get[g].hd.len
  /\ get' = [get EXCEPT ![g].buf = Append(@, ring[Slot(get[g].keyget + Len(@))])]
  /\ UNCHANGED <<gtrak, last, putVars>>

(* The two checks that a putter has not overtaken this getter.             *)
Lapped_Unchecked(g) == FALSE
Lapped(g) == get[g].keyget < keyold
NextKey_Stays(g, h) == get[g].keyget
NextKey(g, h) == Word(get[g].keyget + Size(h))
RunOver_Unchecked(g, h) == FALSE
RunOver(g, h) == keyold >= NextKey(g, h)

(* trackit: find or make the tracker of the message's logo and compare     *)
(* sequence numbers.                                                       *)
SeqAfter_Stale(h) == h.seq
SeqAfter(h) == NextSeq(h.seq)

Trackit(g, h, toobig) ==
  LET T     == gtrak[g]
      l     == h.logo
      known == l \in DOMAIN T
      e     == IF known /\ T[l].active THEN T[l]
               ELSE [seq |-> h.seq, active |-> TRUE,
                     keyout |-> IF known THEN T[l].keyout ELSE 0]
      set(x) == [t \in DOMAIN T \cup {l} |-> IF t = l THEN x ELSE T[t]]
  IN  IF ~known /\ Cardinality(DOMAIN T) >= NTrackGet
        THEN [trak |-> T, status |-> IF toobig THEN "GET_TOOBIG" ELSE "GET_NOTRACK"]
      ELSE IF toobig THEN [trak |-> set(e), status |-> "GET_TOOBIG"]
      ELSE [trak   |-> set([e EXCEPT !.seq = SeqAfter(h)]),
            status |-> IF h.seq = e.seq THEN "GET_OK" ELSE "GET_MISS"]

(* The getter ends its call with the message after buf skipped or taken.   *)
Finish(g, h, toobig) ==
  LET r == Trackit(g, h, toobig)
      k == get[g].buf[1][1]
  IN  /\ gtrak' = [gtrak EXCEPT ![g] = Wrapup(g, r.trak, NextKey(g, h))]
      /\ get' = [get EXCEPT ![g].pc = "ret", ![g].status = r.status, ![g].hd = h,
                            ![g].prev = last[g][sent[k].logo]]
      /\ last' = IF toobig THEN last ELSE [last EXCEPT ![g][sent[k].logo] = k]

Rescan(g, key) ==
  /\ get' = [get EXCEPT ![g].pc = "scan", ![g].keyget = key, ![g].buf = <<>>,
                        ![g].hd = NoHeader]
  /\ UNCHANGED <<gtrak, last>>

CheckHeader(g) ==
  /\ get[g].pc = "head"
  /\ Len(get[g].buf) = HDR
  /\ \/ Lapped(g) /\ Rescan(g, get[g].keyget)
     \/ /\ ~Lapped(g) /\ ~IsStart(get[g].buf[1])
        /\ get' = [get EXCEPT ![g].pc = "exit"] /\ UNCHANGED <<gtrak, last>>
     \/ /\ ~Lapped(g) /\ IsStart(get[g].buf[1])
        /\ \E h \in Decode(get[g].buf[HDR]) :
             \/ ~Wanted(g, h.logo) /\ Rescan(g, NextKey(g, h))
             \/ Wanted(g, h.logo) /\ h.len > MaxSize /\ Finish(g, h, TRUE)
             \/ /\ Wanted(g, h.logo) /\ h.len <= MaxSize
                /\ get' = [get EXCEPT ![g].pc = "body", ![g].hd = h]
                /\ UNCHANGED <<gtrak, last>>
  /\ UNCHANGED putVars

CheckCopied(g) ==
  /\ get[g].pc = "body"
  /\ Len(get[g].buf) = HDR + get[g].hd.len
  /\ IF RunOver(g, get[g].hd) THEN Rescan(g, keyold) ELSE Finish(g, get[g].hd, FALSE)
  /\ UNCHANGED putVars

Return(g) ==
  /\ get[g].pc = "ret"
  /\ get' = [get EXCEPT ![g] = IdleGet]
  /\ UNCHANGED <<gtrak, last, putVars>>

GetStep(g) == \/ FindKey(g) \/ SnapIn(g) \/ ResetTrackers(g) \/ Scan(g) \/ ReadCell(g)
              \/ CheckHeader(g) \/ CheckCopied(g) \/ Return(g)

(***************************************************************************)
(* tport_create leaves an empty, zeroed region with a free semaphore.      *)
(***************************************************************************)
Init ==
  /\ keyin = 0 /\ keyold = 0
  /\ ring = [s \in 0 .. KeyMax - 1 |-> NoCell]
  /\ sem = 1
  /\ put = [p \in Putters |-> IdlePut]
  /\ ptrak = [p \in Putters |-> NoTable]
  /\ get = [g \in Getters |-> IdleGet]
  /\ gtrak = [g \in Getters |-> NoTable]
  /\ last = [g \in Getters |-> [l \in Logos |-> 0]]
  /\ sent = <<>>
  /\ npub = 0 /\ ndel = 0 /\ kills = 0

Next ==
  \/ \E p \in Putters : \/ PutCall(p) \/ Acquire(p) \/ PutStep(p)
                        \/ Kill(p) \/ Restart(p)
  \/ \E g \in Getters : GetCall(g) \/ GetStep(g)

Spec == Init /\ [][Next]_vars

(* A process that is inside a call keeps running; a process asleep on the  *)
(* semaphore is woken when it keeps being freed; a getter polls for ever.  *)
Fairness ==
  /\ \A p \in Putters : WF_vars(PutStep(p)) /\ SF_vars(Acquire(p))
  /\ \A g \in Getters : WF_vars(GetStep(g)) /\ WF_vars(GetCall(g))

FairSpec == Spec /\ Fairness

(***************************************************************************)
(* Properties.                                                             *)
(***************************************************************************)
InCS(p) == put[p].pc \in {"wrapin", "wrapold", "wrapfix", "room", "copy", "free"}
KeysSettled == sem = 1 \/ \E p \in Putters : put[p].pc \in {"wrapin", "room", "copy", "free"}

(* Types; the tracking tables stay within NTRACK_PUT and NTRACK_GET and    *)
(* sequence numbers within an unsigned char.                               *)
PutState == [pc : {"idle", "wait", "wrapin", "wrapold", "wrapfix", "room", "copy", "free",
                   "dead", "exit"},
             logo : Patterns, len : Nat, looks : BOOLEAN, i : Nat]
GetState == [pc : {"idle", "find", "bound", "reset", "scan", "head", "body", "ret", "exit"},
             req : SUBSET Patterns, keyget : Nat, keyin : Nat, buf : Seq(Cells),
             hd : [logo : Patterns, len : Nat, seq : 0 .. SeqMod - 1],
             status : {"GET_OK", "GET_NONE", "GET_MISS", "GET_NOTRACK", "GET_TOOBIG"},
             prev : Nat]

PutTypes ==
  /\ put \in [Putters -> PutState]
  /\ ptrak = [p \in Putters |-> ptrak[p]]
  /\ \A p \in Putters : /\ ptrak[p] \in [DOMAIN ptrak[p] -> 0 .. SeqMod - 1]
                        /\ DOMAIN ptrak[p] \subseteq Logos
                        /\ Cardinality(DOMAIN ptrak[p]) <= NTrackPut
                        /\ put[p].pc \notin {"idle", "dead"} => put[p].logo \in Logos

GetTypes ==
  /\ get \in [Getters -> GetState]
  /\ gtrak = [g \in Getters |-> gtrak[g]]
  /\ \A g \in Getters : /\ gtrak[g] \in [DOMAIN gtrak[g] -> Tracker]
                        /\ DOMAIN gtrak[g] \subseteq Patterns
                        /\ Cardinality(DOMAIN gtrak[g]) <= NTrackGet
                        /\ get[g].pc = "body" => /\ Len(get[g].buf) >= HDR
                                                 /\ IsStart(get[g].buf[1])
  /\ last \in [Getters -> [Logos -> 0 .. Len(sent)]]

RingTypes ==
  /\ keyin \in Nat /\ keyold \in Nat
  /\ ring \in [0 .. KeyMax - 1 -> Cells]
  /\ sem \in {0, 1}
  /\ sent \in Seq(Message)
  /\ npub \in Nat /\ ndel \in Nat /\ kills \in Nat

(* Types, which include that the tracking tables never exceed NTRACK_PUT   *)
(* and NTRACK_GET and that a sequence number fits its byte.                *)
TypeOK == RingTypes /\ PutTypes /\ GetTypes

(* One putter at a time is between semop(SHM_INUSE) and semop(SHM_FREE),   *)
(* also across kills and PUT_NOTRACK.                                      *)
MutualExclusion ==
  \A p, q \in Putters : InCS(p) => sem = 0 /\ (InCS(q) => p = q)

Oldest == IF ndel < npub THEN sent[ndel + 1].at ELSE EndOf(npub)

(* From keyold to keyin the ring holds whole messages, each where the one  *)
(* before it ended, none of them touched by the copy in progress or cut    *)
(* short by a kill.  Unless a putter is, or was killed, in the three       *)
(* stores of a key reset, the two keys are as far apart as those messages  *)
(* are long.                                                               *)
RingIntact ==
  /\ \A k \in ndel + 1 .. npub : \A i \in 0 .. Size(sent[k]) - 1 :
       ring[Slot(sent[k].at + i)] = <<k, i>>
  /\ KeysSettled => /\ keyin - keyold = EndOf(npub) - Oldest
                     /\ keyin - keyold <= KeyMax
                     /\ Slot(keyold) = Slot(Oldest)
  /\ \A p \in Putters : put[p].pc # "exit"

(* A getter never loses its place in the ring ("keyget not at FIRST_BYTE").*)
NoGetterExit == \A g \in Getters : get[g].pc # "exit"

Returned(g, statuses) == get[g].pc = "ret" /\ get[g].status \in statuses
Got(g) == get[g].buf[1][1]

(* What tport_getmsg returns is one message as it was put, whole, however  *)
(* the putters moved while it was copied.                                  *)
DeliveredIntact ==
  \A g \in Getters :
    Returned(g, {"GET_OK", "GET_MISS", "GET_NOTRACK"}) =>
      /\ Got(g) <= npub
      /\ get[g].hd = HeaderOf(sent[Got(g)])
      /\ get[g].buf = [i \in 1 .. Size(sent[Got(g)]) |-> <<Got(g), i - 1>>]

(* A getter sees the messages of a logo in the order in which they were    *)
(* put and none of them twice, whatever sets of logos it asks for.         *)
InPutOrder ==
  \A g \in Getters :
    Returned(g, {"GET_OK", "GET_MISS", "GET_NOTRACK"}) => Got(g) > get[g].prev

Skipped(g) == {k \in get[g].prev + 1 .. Got(g) - 1 : sent[k].logo = sent[Got(g)].logo}

(* GET_MISS is returned exactly when a message of that logo was missed     *)
(* since the last one this getter got.                                     *)
MissExact ==
  \A g \in Getters :
    Returned(g, {"GET_OK", "GET_MISS"}) /\ get[g].prev # 0 =>
      (get[g].status = "GET_MISS" <=> Skipped(g) # {})

(* Getter g puts its trackers back after a reset, with no putter at work.  *)
PutsBack(g) == ResetTrackers(g) /\ sem = 1 /\ get[g].keyin = keyin

(* What tport_getmsg says of a reset: every tracker is put between the     *)
(* keys ("make sure keyout's value is between keyold and keyin").  Not     *)
(* kept: a byte inside a deleted message may pass for a start.             *)
KeyoutInRange ==
  [][\A g \in Getters : PutsBack(g) =>
       \A t \in DOMAIN gtrak[g] : gtrak'[g][t].keyout \in keyold .. keyin]_vars

(* A byte inside a message that is taken for the first of one.             *)
Misleads(c) == IsStart(c) /\ c[2] # 0

(* What does hold: the tracker is never put behind keyold nor a whole lap  *)
(* before it, and beyond keyin only if a byte inside an overwritten or     *)
(* deleted message misleads the getter.                                    *)
KeyoutPutBack ==
  [][\A g \in Getters : PutsBack(g) =>
       \A t \in DOMAIN gtrak[g] :
         LET out == gtrak'[g][t].keyout
         IN  /\ keyold <= out /\ out <= keyold + KeyMax
             /\ out > keyin => Misleads(ring[Slot(out)])]_vars

(* The ring implements the log of RingLog.                                 *)
Log == INSTANCE RingLog WITH
         Sizes    <- {HDR + n : n \in Lens},
         Capacity <- KeyMax,
         log      <- [k \in 1 .. npub |-> [logo |-> sent[k].logo, size |-> Size(sent[k]),
                                           at |-> sent[k].at]],
         first    <- ndel,
         cur      <- last

ImplementsLog == Log!Spec

(* What the manual says: every call of tport_putmsg returns, unless it is  *)
(* killed ("it will return PUT_NOTRACK, write a warning to stdout and      *)
(* continue", transport.txt:175).  Not kept: PUT_NOTRACK is returned with  *)
(* the semaphore down.                                                     *)
EveryPutReturns ==
  \A p \in Putters : put[p].pc = "wait" ~> put[p].pc \in {"idle", "dead"}

(* The semaphore is down and nobody is there to raise it: a putter was     *)
(* killed, or one with a full table was refused another logo.              *)
Refused(p) == /\ Cardinality(DOMAIN ptrak[p]) = NTrackPut
              /\ PutLogos[p] \ DOMAIN ptrak[p] # {}
LeftDown == /\ sem = 0 /\ \A p \in Putters : ~InCS(p)
            /\ kills > 0 \/ \E p \in Putters : Refused(p)

(* Every call of tport_putmsg returns, unless its process is killed, or a  *)
(* putter was killed between its two semop calls or returned between them  *)
(* with PUT_NOTRACK.                                                       *)
PutReturns ==
  \A p \in Putters : put[p].pc = "wait" ~> put[p].pc \in {"idle", "dead"} \/ LeftDown

(* Every call of tport_getmsg returns.                                     *)
GetReturns == \A g \in Getters : get[g].pc = "find" ~> get[g].pc = "idle"

(* A message is got by every getter or overwritten.                        *)
GotOrOverwritten ==
  \A g \in Getters : \A k \in 1 .. MaxMsgs :
    npub >= k ~> (ndel >= k \/ (npub >= k /\ last[g][sent[k].logo] >= k))
=============================================================================
