---------------------------- MODULE AutopilotPage ----------------------------
(***************************************************************************)
(* The Autopilot page, in front of the desk (IncidentDesk): polls that     *)
(* overlap and are answered in any order or not at all, the switch and the *)
(* buttons, which post and then ask again, and a page that is left and     *)
(* opened again while answers are on their way.  A hidden tab does not     *)
(* poll: that is a page whose next poll is late.                           *)
(*                                                                         *)
(* What an incident looks like inside is IncidentView's; here it is open   *)
(* or closed.  Clocks, toasts and the policies shown are left out.         *)
(***************************************************************************)
EXTENDS IncidentDesk

CONSTANTS
  Slots,       \* calls the browser may have under way at once
  MaxChanges,  \* bound: changes of the desk that no call asked for
  MaxPresses,  \* bound: presses of a button
  MaxFaults    \* bound: calls that fail

ASSUME PageAssumption == MaxChanges \in Nat /\ MaxPresses \in Nat /\ MaxFaults \in Nat

VARIABLES
  known,    \* State.health is there
  paused,   \* State.paused_reason is there
  last,     \* the status of State.history's first
  open,     \* whether the page is shown
  shown,    \* `state`: the answer applied last
  error,    \* `error` is set
  busy,     \* `busy`
  calls,    \* of each slot: who called and how far the call is
  changes, presses, faults  \* used up of the bounds

serverVars == <<deskVars, known, paused, last>>
pageVars == <<open, shown, error, busy>>
boundVars == <<changes, presses, faults>>
vars == <<serverVars, pageVars, calls, boundVars>>

\* state_route's answer: AutopilotState, as far as the page acts on it.
View ==
  [enabled |-> enabled,
   paused  |-> paused,
   health  |-> IF ~known THEN "unknown" ELSE IF down THEN "down" ELSE "healthy",
   current |-> trigger # "none",
   last    |-> last]

NoView == [enabled |-> FALSE, paused |-> FALSE, health |-> "none", current |-> FALSE, last |-> "none"]

\* `chaos` is to break something, or to reset what is broken.
Buttons == {"toggle", "respond", "chaos"}

Free == [who |-> "nobody", gone |-> FALSE, at |-> "idle", on |-> FALSE, answer |-> NoView]

Init ==
  /\ DeskInit
  /\ known = FALSE
  /\ paused = FALSE
  /\ last = "none"
  /\ open = FALSE
  /\ shown = NoView
  /\ error = FALSE
  /\ busy = "none"
  /\ calls = [i \in Slots |-> Free]
  /\ changes = 0
  /\ presses = 0
  /\ faults = 0

-----------------------------------------------------------------------------
(* The desk, by itself. *)

\* watch_once.
Watch ==
  /\ known' = TRUE
  /\ OpenAlone \/ \E bad \in BOOLEAN : Check(bad) /\ (bad # down \/ ~known)
  /\ UNCHANGED <<paused, last>>

\* respond's end.
Ends ==
  /\ Close
  /\ last' = course
  /\ paused' = (paused \/ (enabled /\ course = "lost"))
  /\ UNCHANGED known

\* Somebody else's page.
Elsewhere ==
  /\ Switch(~enabled)
  /\ paused' = FALSE
  /\ UNCHANGED <<known, last>>

Work ==
  /\ \E next \in Courses : Advance(next)
  /\ UNCHANGED <<known, paused, last, pageVars, calls, boundVars>>

Change ==
  /\ changes < MaxChanges
  /\ changes' = changes + 1
  /\ Watch \/ Ends \/ Elsewhere
  /\ UNCHANGED <<pageVars, calls, presses, faults>>

-----------------------------------------------------------------------------
(* The calls. *)

Set(i, call) == calls' = [calls EXCEPT ![i] = call]

Move(i, at) == Set(i, [calls[i] EXCEPT !.at = at])

\* load, every POLL_MS while the tab is not hidden, whatever is under way.
Poll(i) ==
  /\ open
  /\ calls[i] = Free
  /\ Set(i, [Free EXCEPT !.who = "poll", !.at = "get"])
  /\ UNCHANGED <<serverVars, pageVars, boundVars>>

\* What can be pressed, by what is shown and what is busy.
Offered(what) ==
  CASE what = "toggle" -> shown # NoView /\ busy # "toggle"
    [] what = "respond" ->
         shown.health = "down" /\ ~shown.current /\ ~shown.enabled /\ busy # "respond"
    [] what = "chaos" -> shown.health \in {"healthy", "down"} /\ ~shown.current /\ busy = "none"

\* act: the switch asks for the opposite of what it shows.
Press(i, what) ==
  /\ presses < MaxPresses
  /\ open
  /\ Offered(what)
  /\ calls[i] = Free
  /\ busy' = what
  /\ Set(i, [Free EXCEPT !.who = what, !.at = "post", !.on = ~shown.enabled])
  /\ presses' = presses + 1
  /\ UNCHANGED <<serverVars, open, shown, error, changes, faults>>

Sent(i, what) == calls[i].who = what /\ calls[i].at = "post"

\* toggle_route.
ServeToggle(i) ==
  /\ Sent(i, "toggle")
  /\ Switch(calls[i].on)
  /\ paused' = FALSE
  /\ Move(i, "done")
  /\ UNCHANGED <<known, last, pageVars, boundVars>>

\* respond_route.
ServeRespond(i) ==
  /\ Sent(i, "respond")
  /\ \/ OpenAsked /\ Move(i, "done")
     \/ ~(down /\ trigger = "none") /\ Move(i, "refused") /\ UNCHANGED deskVars
  /\ UNCHANGED <<known, paused, last, pageVars, boundVars>>

\* chaos_route: the stack changes, or not; a later check finds out.
ServeChaos(i) ==
  /\ Sent(i, "chaos")
  /\ Move(i, "done") \/ Move(i, "refused")
  /\ UNCHANGED <<serverVars, pageVars, boundVars>>

\* state_route.
ServeGet(i) ==
  /\ calls[i].at = "get"
  /\ Set(i, [calls[i] EXCEPT !.at = "got", !.answer = View])
  /\ UNCHANGED <<serverVars, pageVars, boundVars>>

\* A call fails on its way there or back; a post may have been served.
Fail(i) ==
  /\ faults < MaxFaults
  /\ calls[i].at \in {"post", "done", "get", "got"}
  /\ Move(i, "refused")
  /\ faults' = faults + 1
  /\ UNCHANGED <<serverVars, pageVars, changes, presses>>

\* What comes back to the page that asked.
Comes(i, who) == calls[i].who \in who /\ ~calls[i].gone

\* apply.
Apply(view) ==
  /\ shown' = view
  /\ error' = FALSE

\* The poll's `then` and `catch`.
PollReturns(i) ==
  /\ Comes(i, {"poll"})
  /\ \/ calls[i].at = "got" /\ Apply(calls[i].answer)
     \/ calls[i].at = "refused" /\ error' = TRUE /\ UNCHANGED shown
  /\ Set(i, Free)
  /\ UNCHANGED <<serverVars, open, busy, boundVars>>

\* act, its post answered: it asks again.
ActAsks(i) ==
  /\ Comes(i, Buttons)
  /\ calls[i].at = "done"
  /\ Move(i, "get")
  /\ UNCHANGED <<serverVars, pageVars, boundVars>>

\* Mutant of ActReturns: nothing is enabled again after a failure.
ActReturnsUnlessRefused(i) ==
  /\ Comes(i, Buttons)
  /\ \/ calls[i].at = "got" /\ Apply(calls[i].answer) /\ busy' = "none"
     \/ calls[i].at = "refused" /\ UNCHANGED <<shown, error, busy>>
  /\ Set(i, Free)
  /\ UNCHANGED <<serverVars, open, boundVars>>

\* act's end, `finally` included: whichever act set `busy` last.
ActReturns(i) ==
  /\ Comes(i, Buttons)
  /\ \/ calls[i].at = "got" /\ Apply(calls[i].answer)
     \/ calls[i].at = "refused" /\ UNCHANGED <<shown, error>>
  /\ busy' = "none"
  /\ Set(i, Free)
  /\ UNCHANGED <<serverVars, open, boundVars>>

\* The answer to a post of a page that is gone.
GoneReturns(i) ==
  /\ calls[i].gone
  /\ calls[i].at \in {"done", "refused"}
  /\ Set(i, Free)
  /\ UNCHANGED <<serverVars, pageVars, boundVars>>

-----------------------------------------------------------------------------
(* Coming and going. *)

Come ==
  /\ ~open
  /\ open' = TRUE
  /\ UNCHANGED <<serverVars, shown, error, busy, calls, boundVars>>

\* The page starts from nothing when it is opened again.  A post under way
\* reaches the runner; no other answer matters any more (`cancelled`).
Leave ==
  /\ open
  /\ open' = FALSE
  /\ shown' = NoView
  /\ error' = FALSE
  /\ busy' = "none"
  /\ calls' = [i \in Slots |->
                 IF calls[i].at = "post" THEN [calls[i] EXCEPT !.gone = TRUE] ELSE Free]
  /\ UNCHANGED <<serverVars, boundVars>>

Serve(i) == ServeToggle(i) \/ ServeRespond(i) \/ ServeChaos(i) \/ ServeGet(i)

Return(i) == PollReturns(i) \/ ActAsks(i) \/ ActReturns(i) \/ GoneReturns(i)

Next ==
  \/ Work \/ Change \/ Come \/ Leave
  \/ \E i \in Slots :
       \/ Poll(i) \/ Serve(i) \/ Return(i) \/ Fail(i)
       \/ \E what \in Buttons : Press(i, what)

Spec == Init /\ [][Next]_vars

\* The interval goes on, and calls are answered.
FairSpec ==
  /\ Spec
  /\ WF_vars(\E i \in Slots : Poll(i))
  /\ \A i \in Slots : WF_vars(Serve(i)) /\ WF_vars(Return(i))

-----------------------------------------------------------------------------
(* Properties. *)

\* Autopilot.tsx:46-82.  If from some time on the desk stays as it is and the
\* page is looked at, then the page comes to show just that, for good, with
\* no error and nothing disabled as busy; whatever was answered late or out
\* of order, pressed, refused or lost before.
PageSettles ==
  <>[]open /\ <>[][UNCHANGED serverVars]_vars
    => <>[](shown = View /\ ~error /\ busy = "none")
=============================================================================
