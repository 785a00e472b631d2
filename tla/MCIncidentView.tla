--------------------------- MODULE MCIncidentView ---------------------------
(* Two sellers of diagnoses, the dearer tried last; one of repairs.        *)
EXTENDS IncidentView

CONSTANTS p1, p2

MCSellers == [s \in Services |-> IF s = "ops" THEN {p1} ELSE {p1, p2}]
MCPrice == [p \in Providers |-> IF p = p2 THEN 2 ELSE 1]
=============================================================================
