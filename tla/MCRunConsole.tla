---------------------------- MODULE MCRunConsole ----------------------------
(* Three sellers: two that every cap pays for, and a dearer one.           *)
EXTENDS RunConsole

CONSTANTS p1, p2, p3

MCSellers == [s \in Services |-> IF s = "ops" THEN {} ELSE {p1, p2, p3}]
MCPrice == [p \in Providers |-> IF p = p3 THEN 2 ELSE 1]
=============================================================================
