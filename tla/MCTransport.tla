---------------------------- MODULE MCTransport ----------------------------
(* Small instances of Transport for TLC.                                   *)
EXTENDS Transport, TLC

CONSTANTS p1, p2, g1, a, b

OnePutter == [p \in Putters |-> Logos]
\* p1 puts one logo, the others all
OneOrAll  == [p \in Putters |-> IF p = p1 THEN {a} ELSE Logos]
OwnLogo   == [p \in Putters |-> IF p = p1 THEN {a} ELSE {b}]

(* Putters that put the same logos are interchangeable, and so are logos   *)
(* that are put and asked for alike.                                       *)
Symmetry == Permutations(Putters) \cup Permutations(Logos)

AskAll    == [g \in Getters |-> {{WILD}}]
\* overlapping requests, one at a time
AskEither == [g \in Getters |-> {{WILD}, {a}, {b}}]
=============================================================================
