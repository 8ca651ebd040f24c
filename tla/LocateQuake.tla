---------------------------- MODULE LocateQuake -----------------------------
(***************************************************************************)
(* LocateQuake of loc_wcatwc, as a relation: from the picks and the        *)
(* hypocenter of one buffer to every outcome the travel-time fit may have. *)
(* The residuals and the coordinates are left out; which picks end up      *)
(* used, how good the solution is and when the function gives up are not.  *)
(*                                                                         *)
(* A station is a number: its place in the order in which P reaches the    *)
(* stations.  An entry that is not timed carries an amplitude only         *)
(* (dPTime is 0).                                                          *)
(***************************************************************************)
EXTENDS Integers, Sequences, FiniteSets, SequencesExt

CONSTANTS
  Stations,     \* the stations picks come from
  MinPs,        \* Gparm.MinPs: picks needed for a location
  MaxStations,  \* MAX_STATIONS: room in a buffer
  MaxKO,        \* MAX_TO_KO: picks FindBadPs may knock out
  MaxVersions   \* MAX_VERSIONS

ASSUME LocateAssumption ==
  /\ Stations \subseteq Nat \ {0}
  /\ {MinPs, MaxStations, MaxKO, MaxVersions} \subseteq Nat \ {0}

(* PPICK: use is iUseMe, 2 a manual pick, 1 an automatic one, 0 knocked    *)
(* out.                                                                    *)
Picks == [stn : Stations, timed : BOOLEAN, use : 0 .. 2]

(* HYPO: iVersion (past MAX_VERSIONS nothing tells versions apart: they    *)
(* are one), iGoodSoln >= 2, iNumPs, iNumBadPs, iFinalMade.                *)
Hypos == [ver : 1 .. MaxVersions, good : BOOLEAN, nump : Nat, bad : Nat,
          final : BOOLEAN]

InitHypo == [ver |-> 1, good |-> FALSE, nump |-> 0, bad |-> 0, final |-> FALSE]

(* The latitude and longitude are set: a location was computed.            *)
Solved(h) == h.nump + h.bad > 0

NumPs(ps) == Cardinality({i \in DOMAIN ps : ps[i].timed /\ ps[i].use > 0})

(* A quake good enough to report and to draw picks to it.                  *)
Located(h) == h.nump >= MinPs /\ h.good

RemoveP(ps, i) == RemoveAt(ps, i)

Revived(ps) ==
  [i \in DOMAIN ps |-> IF ps[i].use = 0 THEN [ps[i] EXCEPT !.use = 1] ELSE ps[i]]

(* Every order qsort may leave: it does not say which of two entries with  *)
(* one time comes first.                                                   *)
Time(p) == IF p.timed THEN p.stn ELSE 0

SortAllByPTime(ps) ==
  {[i \in DOMAIN ps |-> ps[f[i]]] :
     f \in {f \in Bijection(DOMAIN ps, DOMAIN ps) :
              \A i, j \in DOMAIN ps : i < j => Time(ps[f[i]]) <= Time(ps[f[j]])}}

(* Fault: manual picks are candidates like any other.                      *)
KnockedOut_Manual(ps) ==
  LET used == {i \in DOMAIN ps : ps[i].timed /\ ps[i].use > 0}
  IN {K \in SUBSET used : Cardinality(K) \in 1 .. MaxKO}

(* The sets of places FindBadPs may knock out.  Its candidates are the     *)
(* automatic picks; when it looks for more than there are, the index left  *)
(* over is still 0, the first place of the buffer, whatever pick is there. *)
KnockedOut(ps) ==
  LET auto == {i \in DOMAIN ps : ps[i].timed /\ ps[i].use = 1}
  IN {K \in SUBSET auto : Cardinality(K) \in 1 .. MaxKO}
       \cup (IF Cardinality(auto) < MaxKO THEN {auto \cup {1}} ELSE {})

(* K is knocked out, and R of it taken back where the azimuthal coverage   *)
(* lets the depth be solved for as well.                                   *)
FindBadPs(ps, K, R) ==
  [i \in DOMAIN ps |->
     IF i \in K THEN [ps[i] EXCEPT !.use = IF i \in R THEN 1 ELSE 0] ELSE ps[i]]

Fitted(ps) == {ps} \cup {FindBadPs(ps, K, R) : K \in KnockedOut(ps), R \in SUBSET {1}}

(* What the sort, InitialLocator, QuakeSolveIasp, FindBadPs and            *)
(* IsItGoodSoln leave.                                                     *)
Solutions(ps) ==
  {s \in [ps : UNION {Fitted(r) : r \in SortAllByPTime(ps)}, good : BOOLEAN] :
     s.good => NumPs(s.ps) >= MinPs}

(* The hypocenter after a solution; InitHypo clears iFinalMade.            *)
Fit(h, s) ==
  [h EXCEPT !.good = s.good, !.nump = NumPs(s.ps),
            !.bad = Len(s.ps) - NumPs(s.ps), !.final = FALSE]

(* szLastSta: the stations of the picks that are new since the last        *)
(* location, at most five.                                                 *)
NewPs(ps, h) ==
  LET new == Len(ps) - (h.nump + h.bad)
      n   == IF new < 0 THEN 0 ELSE IF new > 5 THEN 5 ELSE new
  IN [j \in 1 .. n |-> ps[Len(ps) + 1 - j].stn]

(* The loop removes an entry of the station and goes on behind the entry   *)
(* that moved into its place.                                              *)
DropStation(ps, stn) ==
  LET gone[i \in DOMAIN ps] == ps[i].stn = stn /\ (i = 1 \/ ~gone[i - 1])
      kept == {i \in DOMAIN ps : ~gone[i]}
  IN [j \in 1 .. Cardinality(kept) |->
        ps[CHOOSE i \in kept : Cardinality({k \in kept : k <= i}) = j]]

DropStations(ps, stns) ==
  LET left[n \in 0 .. Len(stns)] ==
        IF n = 0 THEN ps ELSE DropStation(left[n - 1], stns[n])
  IN left[Len(stns)]

Newer(h) == [h EXCEPT !.ver = IF @ < MaxVersions THEN @ + 1 ELSE @]

(* One location (iLoc = 1).  Too few usable picks: the picks are revived,  *)
(* nothing else happens.  A quake that was good and no longer is loses its *)
(* newest stations and is solved once more.                                *)
Locations(ps, h) ==
  LET all == Revived(ps)
      Retry(s) == h.good /\ ~s.good /\ Len(ps) > MinPs + 2
      Rest(s) == DropStations(s.ps, NewPs(ps, h))
      Done(s) == [ps |-> s.ps, h |-> Newer(Fit(h, s)), ok |-> TRUE]
      Again(s) ==
        IF NumPs(Rest(s)) < MinPs
        THEN {[ps |-> Rest(s), h |-> Fit(h, s), ok |-> FALSE]}
        ELSE {Done(r) : r \in Solutions(Rest(s))}
  IN IF NumPs(all) < MinPs
     THEN {[ps |-> all, h |-> h, ok |-> FALSE]}
     ELSE UNION {IF Retry(s) THEN Again(s) ELSE {Done(s)} :
                   s \in Solutions(all)}

(* iLoc = 0: the magnitudes only.                                          *)
MagsOnly(ps, h) == {[ps |-> ps, h |-> h, ok |-> TRUE]}
=============================================================================
