----------------------------- MODULE MCAutopilot -----------------------------
(* Two sellers of inference: p1, which also sells repairs, and p2, which is *)
(* dearer than some budgets.                                                *)
EXTENDS Autopilot

CONSTANTS p1, p2

MCSellers == [s \in Services |-> IF s = "ops" THEN {p1} ELSE {p1, p2}]
MCPrice == [p \in Providers |-> IF p = p2 THEN 2 ELSE 1]
=============================================================================
