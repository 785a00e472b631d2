------------------------------ MODULE Autopilot ------------------------------
(***************************************************************************)
(* The agent runner at work: runs a user starts, and three agents that     *)
(* keep a stack alive.  A detector polls its health and opens incidents;   *)
(* a response buys a diagnosis, then repairs, and verifies; what it did    *)
(* not resolve pauses the autopilot.  Runs and responses take turns.       *)
(*                                                                         *)
(* Time is counted in ticks by two timers: how long the health check under *)
(* way has taken, and how much is left of the quiet time after an incident.*)
(* A restart is Init again, and is left out; so is MIN_GAP between runs.   *)
(***************************************************************************)
EXTENDS Purchase

CONSTANTS
  Budgets,        \* per-payment budgets a caller may ask for
  ConfirmChecks,  \* CONFIRM_CHECKS
  Cooldown,       \* COOLDOWN, in ticks
  FetchTimeout    \* how long a health check may take, in ticks

ASSUME PilotAssumption ==
  /\ Budgets \subseteq 0..MaxAtomic
  /\ ConfirmChecks \in Nat \ {0}
  /\ Cooldown \in Nat
  /\ FetchTimeout \in Nat
  /\ FetchTimeout < Cooldown

VARIABLES
  enabled,    \* State.enabled
  known,      \* whether State.provider is set
  streak,     \* State.unhealthy_streak, up to ConfirmChecks; its last reading
              \* is unhealthy when this is not 0
  reading,    \* the check under way: begun since the last incident closed, or before
  age,        \* ticks it has taken
  quiet,      \* ticks until COOLDOWN has elapsed since last_closed
  stage,      \* how far the response to State.current got
  trigger,    \* State.current.trigger
  todo,       \* repairs of the plan not ordered yet
  outcome,    \* what the pipeline returned
  recorded,   \* orders whose amount is in the incident's `spent`
  unresolved, \* history: an incident went unresolved since the switch was turned on
  excused     \* history: the switch was used since the last incident closed

watchVars == <<known, streak, reading, age>>
pilotVars == <<stage, trigger, todo, outcome, recorded>>
historyVars == <<unresolved, excused>>
vars == <<purchaseVars, lockVars, enabled, watchVars, quiet, pilotVars, historyVars>>

PilotTypeOK ==
  /\ enabled \in BOOLEAN
  /\ known \in BOOLEAN
  /\ streak \in 0..ConfirmChecks
  /\ reading \in {"none", "since", "before"}
  /\ age \in 0..FetchTimeout
  /\ quiet \in 0..Cooldown
  /\ stage \in {"none", "opened", "diagnosing", "fixing", "verifying",
                "returned", "closing"}
  /\ trigger \in {"none", "autopilot", "manual"}
  /\ todo \in 0..MaxActions
  /\ outcome \in {"none", "resolved", "unresolved"}
  /\ recorded \in SUBSET Orders
  /\ unresolved \in BOOLEAN
  /\ excused \in BOOLEAN

TypeOK == PurchaseTypeOK /\ PilotTypeOK

\* `enabled_at_start` may be set.
Init ==
  /\ PurchaseInit
  /\ enabled \in BOOLEAN
  /\ known = FALSE
  /\ streak = 0
  /\ reading = "none"
  /\ age = 0
  /\ quiet = 0
  /\ stage = "none"
  /\ trigger = "none"
  /\ todo = 0
  /\ outcome = "none"
  /\ recorded = {}
  /\ unresolved = FALSE
  /\ excused = FALSE

-----------------------------------------------------------------------------
(* Runs. *)

\* POST /v1/run, past its checks: refused unless the lock is free.  Other
\* services are bought the same way.
StartRun(b) ==
  /\ TryLock
  /\ Begin("inference", b)
  /\ UNCHANGED <<enabled, watchVars, quiet, pilotVars, historyVars>>

\* The task is over, the wait for the receipt included: the guard is dropped.
EndRun ==
  /\ busy = "run"
  /\ Ended
  /\ Unlock
  /\ UNCHANGED <<enabled, watchVars, quiet, pilotVars, historyVars>>

-----------------------------------------------------------------------------
(* The detector. *)

\* ops_provider: discovery finds it, for the watcher or for chaos.
FindProvider ==
  /\ ~known
  /\ known' = TRUE
  /\ UNCHANGED <<purchaseVars, lockVars, enabled, streak, reading, age, quiet,
                 pilotVars, historyVars>>

\* watch_once sends its request.
BeginCheck ==
  /\ known
  /\ reading = "none"
  /\ reading' = "since"
  /\ UNCHANGED <<purchaseVars, lockVars, enabled, known, streak, age, quiet,
                 pilotVars, historyVars>>

EndCheck ==
  /\ reading # "none"
  /\ reading' = "none"
  /\ age' = 0

OpenIncident(who) ==
  /\ stage = "none"
  /\ stage' = "opened"
  /\ trigger' = who
  /\ UNCHANGED <<todo, outcome, recorded>>

\* Mutant of MayOpen: no cooldown.
MayOpenAtOnce == enabled /\ stage = "none" /\ streak + 1 >= ConfirmChecks

\* The condition on an unhealthy answer, all of it under the lock of State.
MayOpen ==
  /\ enabled
  /\ stage = "none"
  /\ streak + 1 >= ConfirmChecks
  /\ quiet = 0

\* An unhealthy answer; it opens an incident if it may.
CheckFindsOutage ==
  /\ EndCheck
  /\ streak' = IF streak = ConfirmChecks THEN streak ELSE streak + 1
  /\ IF MayOpen THEN OpenIncident("autopilot") ELSE UNCHANGED pilotVars
  /\ UNCHANGED <<purchaseVars, lockVars, enabled, known, quiet, historyVars>>

CheckFindsHealth ==
  /\ EndCheck
  /\ streak' = 0
  /\ UNCHANGED <<purchaseVars, lockVars, enabled, known, quiet, pilotVars, historyVars>>

\* No answer: the provider is to be found again.
CheckFails ==
  /\ EndCheck
  /\ known' = FALSE
  /\ UNCHANGED <<purchaseVars, lockVars, enabled, streak, quiet, pilotVars, historyVars>>

\* A check is answered or times out before FetchTimeout is over.
Tick ==
  /\ reading # "none" => age < FetchTimeout
  /\ reading # "none" \/ quiet > 0
  /\ age' = IF reading = "none" THEN age ELSE age + 1
  /\ quiet' = IF quiet = 0 THEN 0 ELSE quiet - 1
  /\ UNCHANGED <<purchaseVars, lockVars, enabled, known, streak, reading,
                 pilotVars, historyVars>>

-----------------------------------------------------------------------------
(* The owner. *)

\* POST /v1/autopilot: also forgets the last incident's end.  Calls that
\* would change nothing are left out.
Toggle(on) ==
  /\ enabled # on \/ quiet > 0
  /\ enabled' = on
  /\ quiet' = 0
  /\ unresolved' = (unresolved /\ ~on)
  /\ excused' = TRUE
  /\ UNCHANGED <<purchaseVars, lockVars, watchVars, pilotVars>>

\* POST /v1/autopilot/respond, armed or not.
RespondNow ==
  /\ streak > 0
  /\ OpenIncident("manual")
  /\ UNCHANGED <<purchaseVars, lockVars, enabled, watchVars, quiet, historyVars>>

-----------------------------------------------------------------------------
(* A response: respond() and pipeline(). *)

\* respond, first await: it takes the lock or queues for it.
WaitTurn ==
  /\ stage = "opened"
  /\ LockOrWait
  /\ UNCHANGED <<purchaseVars, enabled, watchVars, quiet, pilotVars, historyVars>>

Return(result) ==
  /\ stage' = "returned"
  /\ outcome' = result

\* The provider and the reading are looked at again, then the diagnosis is
\* ordered, whatever that reading says.  The budget is the caller's, if any.
Diagnose(b) ==
  /\ stage = "opened"
  /\ busy = "response"
  /\ \/ /\ known
        /\ trigger = "autopilot" => b = MaxAtomic
        /\ Begin("inference", b)
        /\ stage' = "diagnosing"
        /\ UNCHANGED outcome
     \/ /\ ~known
        /\ Return("unresolved")
        /\ UNCHANGED purchaseVars
  /\ UNCHANGED <<lockVars, enabled, watchVars, quiet, trigger, todo, recorded, historyVars>>

\* record_spend, when purchase() returned what it bought.
RecordSpend ==
  recorded' = IF step = "bought" THEN recorded \cup {order} ELSE recorded

\* A plan of the model's, or the runbook's when there is none: the first
\* repair is ordered, if there is any on the menu.
Plan(n) ==
  /\ stage = "diagnosing"
  /\ Ended
  /\ RecordSpend
  /\ \/ /\ n > 0
        /\ todo' = n - 1
        /\ Begin("ops", budget)
        /\ stage' = "fixing"
        /\ UNCHANGED outcome
     \/ /\ n = 0
        /\ Return("unresolved")
        /\ UNCHANGED <<purchaseVars, todo>>
  /\ UNCHANGED <<lockVars, enabled, watchVars, quiet, trigger, historyVars>>

OrderNext ==
  /\ todo > 0
  /\ todo' = todo - 1
  /\ Begin("ops", budget)

\* A repair was bought: that made the stack healthy, or the next one is
\* ordered, or it was the last.
Repaired ==
  /\ stage = "fixing"
  /\ step = "bought"
  /\ RecordSpend
  /\ \/ stage' = "verifying" /\ UNCHANGED <<purchaseVars, todo>>
     \/ OrderNext /\ UNCHANGED stage
  /\ UNCHANGED <<lockVars, enabled, watchVars, quiet, trigger, outcome, historyVars>>

\* Mutant of Blocked: the next repair is tried all the same.
BlockedOrNext ==
  /\ stage = "fixing"
  /\ step = "stopped"
  /\ \/ todo = 0 /\ Return("unresolved") /\ UNCHANGED <<purchaseVars, todo>>
     \/ OrderNext /\ UNCHANGED <<stage, outcome>>
  /\ UNCHANGED <<lockVars, enabled, watchVars, quiet, trigger, recorded, historyVars>>

\* It was not, or nobody knows: the incident ends there.
Blocked ==
  /\ stage = "fixing"
  /\ step = "stopped"
  /\ Return("unresolved")
  /\ UNCHANGED <<purchaseVars, lockVars, enabled, watchVars, quiet, trigger, todo,
                 recorded, historyVars>>

\* Polls of its own until the stack is healthy or VERIFY_WAIT is over.
Verify ==
  /\ stage = "verifying"
  /\ Return("resolved") \/ Return("unresolved")
  /\ UNCHANGED <<purchaseVars, lockVars, enabled, watchVars, quiet, trigger, todo,
                 recorded, historyVars>>

\* respond: the lock goes before the incident is closed.
GiveTurn ==
  /\ stage = "returned"
  /\ Unlock
  /\ stage' = "closing"
  /\ UNCHANGED <<enabled, watchVars, quiet, trigger, todo, outcome, recorded, historyVars>>

\* Mutant of Pauses: only what the autopilot began can pause it.
PausesOwn == outcome # "resolved" /\ trigger = "autopilot"

Pauses == outcome # "resolved"

\* The incident goes to the history; all of it under the lock of State.
Close ==
  /\ stage = "closing"
  /\ stage' = "none"
  /\ trigger' = "none"
  /\ todo' = 0
  /\ outcome' = "none"
  /\ recorded' = {}
  /\ quiet' = Cooldown
  /\ enabled' = (enabled /\ ~Pauses)
  /\ reading' = IF reading = "none" THEN "none" ELSE "before"
  /\ unresolved' = (unresolved \/ outcome # "resolved")
  /\ excused' = FALSE
  /\ UNCHANGED <<purchaseVars, lockVars, known, streak, age>>

-----------------------------------------------------------------------------
Elsewhere == UNCHANGED <<enabled, watchVars, quiet, pilotVars, historyVars>>

Buying == Shop /\ Elsewhere

Gateways == (\E q \in Quotes : Serve(q)) /\ Elsewhere

Respond ==
  \/ WaitTurn \/ Repaired \/ Blocked \/ Verify \/ GiveTurn \/ Close
  \/ \E b \in Budgets \cup {MaxAtomic} : Diagnose(b)
  \/ \E n \in 0..MaxActions : Plan(n)

Watch ==
  FindProvider \/ BeginCheck \/ CheckFindsOutage \/ CheckFindsHealth \/ CheckFails

Next ==
  \/ Buying \/ Gateways \/ Respond \/ Watch \/ Tick \/ EndRun \/ RespondNow
  \/ \E b \in Budgets : StartRun(b)
  \/ \E on \in BOOLEAN : Toggle(on)

Spec == Init /\ [][Next]_vars

\* Calls return, the two tasks are polled and the deadline of a verification
\* passes.
FairSpec == Spec /\ WF_vars(Buying) /\ WF_vars(Respond) /\ WF_vars(EndRun)

-----------------------------------------------------------------------------
(* Properties. *)

\* What the response under way has come to, for those who watch.
Course ==
  CASE stage = "none" -> "none"
    [] stage \in {"opened", "diagnosing"} -> "diagnosing"
    [] stage \in {"fixing", "verifying"} -> stage
    [] OTHER -> IF outcome = "resolved" THEN "recovered" ELSE "lost"

Desk == INSTANCE IncidentDesk WITH
          enabled <- enabled, down <- streak > 0, trigger <- trigger, course <- Course

\* autopilot.rs:1-20,200-210,307-331,341-464.  Whatever runs, waits, fails or
\* is switched meanwhile: the autopilot opens an incident only while it is on
\* and the stack is down, repairs only what it has diagnosed, calls resolved
\* only what it has seen healthy after a repair, and is off after anything
\* else until its owner turns it on.
ImplementsDesk == Desk!DeskSpec

\* autopilot.rs:18-20.  After an incident that was not resolved, whoever
\* opened it and whatever was toggled meanwhile, the autopilot opens no other
\* before its owner has touched the switch.
PauseHolds ==
  [][stage = "none" /\ stage' = "opened" /\ trigger' = "autopilot" => ~unresolved]_vars

\* autopilot.rs:38,201-207,267-275.  An answer that was on its way when an
\* incident closed shows the stack before its repair.  It opens no second
\* incident, because COOLDOWN outlasts it, unless the switch cut that short.
EvidenceIsFresh ==
  [][stage = "none" /\ stage' = "opened" /\ trigger' = "autopilot" =>
       reading = "since" \/ excused]_vars

\* Order n of the incident was paid, or may yet be, and purchase() returned
\* without knowing.
Lost(n) == MayCharge(n) # {} /\ n \notin recorded /\ (n = order => step = "stopped")

\* autopilot.rs:120,163-169.  `spent` may miss what an incident paid, where
\* an answer was lost; but no more than its diagnosis and its last repair,
\* and it never holds what was not paid.
MissedSpendIsBounded ==
  busy = "response" =>
    /\ \A n \in Orders : Lost(n) => n \in {1, order}
    /\ \A n \in recorded : \E p \in Providers : phase[<<n, p>>] = "charged"

\* autopilot.rs:307-332.  Every incident closes, though it waits for a run to
\* end while others ask to start theirs, and calls fail, and answers are lost.
EveryIncidentCloses == stage = "opened" ~> stage = "none"
=============================================================================
