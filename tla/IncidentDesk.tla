---------------------------- MODULE IncidentDesk ----------------------------
(***************************************************************************)
(* What the autopilot promises whoever watches it, without its wallet, its *)
(* timers and its queue: who may open an incident, the course it takes,    *)
(* and what the switch does at its end.  Autopilot implements this, and    *)
(* the pages that show incidents are built on it.                          *)
(***************************************************************************)
EXTENDS Naturals

VARIABLES
  enabled,  \* State.enabled
  down,     \* State.health is there, and not healthy
  trigger,  \* State.current.trigger
  course    \* how far the response to it is, or what came of it

deskVars == <<enabled, down, trigger, course>>

Courses == {"none", "diagnosing", "fixing", "verifying", "recovered", "lost"}

DeskTypeOK ==
  /\ enabled \in BOOLEAN
  /\ down \in BOOLEAN
  /\ trigger \in {"none", "autopilot", "manual"}
  /\ course \in Courses

DeskInit ==
  /\ enabled \in BOOLEAN
  /\ down = FALSE
  /\ trigger = "none"
  /\ course = "none"

\* A health check is answered.
Check(bad) ==
  /\ down' = bad
  /\ UNCHANGED <<enabled, trigger, course>>

Open(who) ==
  /\ trigger = "none"
  /\ trigger' = who
  /\ course' = "diagnosing"
  /\ UNCHANGED enabled

\* The check's answer is bad, and the switch is on.
OpenAlone == enabled /\ down' = TRUE /\ Open("autopilot")

\* The owner asks for it, of a stack that is down.
OpenAsked == down /\ Open("manual") /\ UNCHANGED down

\* From one stage to the next, or out of any of them to no avail.
Steps == {<<"diagnosing", "fixing">>, <<"fixing", "verifying">>, <<"verifying", "recovered">>}
         \cup {<<c, "lost">> : c \in {"diagnosing", "fixing", "verifying"}}

Advance(next) ==
  /\ <<course, next>> \in Steps
  /\ course' = next
  /\ UNCHANGED <<enabled, down, trigger>>

\* Only a stack seen healthy again leaves the autopilot on.
Close ==
  /\ course \in {"recovered", "lost"}
  /\ trigger' = "none"
  /\ course' = "none"
  /\ enabled' = (enabled /\ course = "recovered")
  /\ UNCHANGED down

Switch(on) ==
  /\ enabled' = on
  /\ UNCHANGED <<down, trigger, course>>

DeskNext ==
  \/ OpenAlone \/ OpenAsked \/ Close
  \/ \E bad \in BOOLEAN : Check(bad)
  \/ \E next \in Courses : Advance(next)
  \/ \E on \in BOOLEAN : Switch(on)

DeskSpec == DeskInit /\ [][DeskNext]_deskVars
=============================================================================
