--------------------------- MODULE MCAutopilotPage ---------------------------
(* Two calls at once: they can overtake each other.                         *)
EXTENDS AutopilotPage

CONSTANTS c1, c2
==============================================================================
