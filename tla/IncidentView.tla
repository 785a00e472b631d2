---------------------------- MODULE IncidentView ----------------------------
(***************************************************************************)
(* What the Autopilot page tells of an incident, composed with the         *)
(* response that writes it: the desk (IncidentDesk), the purchases of the  *)
(* diagnosis and of each repair (RunSteps), and the log of steps the page  *)
(* turns into four lanes and into sentences about money.                   *)
(*                                                                         *)
(* Every step is pushed under the lock of State, one at a time, and the    *)
(* page may be given what is there at any moment.  The runs a response     *)
(* takes turns with, and the detector's timers, are Autopilot's; the page  *)
(* asks for responses without a budget.  Of the history only the last      *)
(* incident is kept.  The receipts that a task in the background adds      *)
(* whenever they come are left out: no lane and no sentence modelled here  *)
(* looks at them.                                                          *)
(***************************************************************************)
EXTENDS RunSteps, IncidentDesk, FiniteSets

VARIABLES
  todo,      \* repairs of the plan not ordered yet
  raised,    \* whether the last purchase() ended in an error
  result,    \* the status pipeline() returned
  pending,   \* what the response is about to write, in order
  log,       \* Incident.steps, of the incident under way or of the last one
  status,    \* its `status`
  closed,    \* whether it has `closed_at` and `outcome`
  bills       \* history: whom its orders have charged or may charge, from its end on

responseVars == <<todo, raised, result>>
incidentVars == <<log, status, closed>>
viewVars == <<purchaseVars, lockVars, taskVars, deskVars, responseVars, pending,
              incidentVars, bills>>

\* IncidentStep, as far as the page looks at it; `none_left` is a
\* service_failed that does not say trying_next.
Step(stage, kind, p) == [stage |-> stage, step |-> kind, provider |-> p]

\* set_status, among the writes.
Status(s) == Step("status", s, NoOne)

\* No incident yet: the page shows none, as it shows nothing of an empty one.
ViewInit ==
  /\ PurchaseInit
  /\ TaskInit
  /\ DeskInit
  /\ todo = 0
  /\ raised = FALSE
  /\ result = "none"
  /\ pending = <<>>
  /\ log = <<>>
  /\ status = "failed"
  /\ closed = TRUE
  /\ bills = [n \in Orders |-> {}]

-----------------------------------------------------------------------------
(* The desk. *)

\* open: a fresh incident, of the detector's or the owner's.
OpenIncident ==
  /\ OpenAlone \/ OpenAsked
  /\ log' = <<>>
  /\ status' = "diagnosing"
  /\ closed' = FALSE
  /\ bills' = [n \in Orders |-> {}]
  /\ UNCHANGED <<purchaseVars, lockVars, taskVars, responseVars, pending>>

\* watch_once, and the switch.
CheckOrSwitch ==
  /\ (\E bad \in BOOLEAN : Check(bad)) \/ (\E on \in BOOLEAN : Switch(on))
  /\ UNCHANGED <<purchaseVars, lockVars, taskVars, responseVars, pending,
                 incidentVars, bills>>

-----------------------------------------------------------------------------
(* The response. *)

Drained == pending = <<>>

\* push_step or set_status, of the incident whether open or closed.
Write ==
  /\ ~Drained
  /\ pending' = Tail(pending)
  /\ LET w == Head(pending) IN
       IF w.stage = "status" THEN status' = w.step /\ UNCHANGED log
                             ELSE log' = Append(log, w) /\ UNCHANGED status
  /\ UNCHANGED <<purchaseVars, lockVars, taskVars, deskVars, responseVars, closed, bills>>

Elements(kinds) == {kinds[i] : i \in DOMAIN kinds}

Says(stage, kinds) == [i \in DOMAIN kinds |-> Step(stage, kinds[i], NoOne)]

TakeTurn ==
  /\ course = "diagnosing"
  /\ busy = "free"
  /\ LockOrWait
  /\ UNCHANGED <<purchaseVars, taskVars, deskVars, responseVars, pending, incidentVars, bills>>

\* An order goes to purchase(), after what is written before it.
Order(stage, service, before) ==
  /\ Begin(service, MaxAtomic)
  /\ failures' = FALSE
  /\ raised' = FALSE
  /\ \E said \in Opening(service, MaxAtomic) :
       /\ "unavailable" \notin Elements(said)   \* a no_provider to this page
       /\ pending' = before \o Says(stage, said)
  /\ UNCHANGED answered

Return(outcome) ==
  /\ result' = outcome
  /\ Advance(IF outcome = "resolved" THEN "recovered" ELSE "lost")

\* The diagnosis; or the provider went away.
Diagnose ==
  /\ course = "diagnosing"
  /\ busy = "response"
  /\ order = 0
  /\ \/ /\ Order("diagnose", "inference", <<Status("diagnosing"), Step("diagnose", "briefed", NoOne)>>)
        /\ UNCHANGED <<deskVars, result>>
     \/ /\ Return("failed")
        /\ UNCHANGED <<purchaseVars, taskVars, raised, pending>>
  /\ UNCHANGED <<lockVars, todo, incidentVars, bills>>

Here == IF order = 1 THEN "diagnose" ELSE "fix"

Note(said, p) ==
  pending' = [i \in DOMAIN said |->
                Step(Here,
                     IF said[i] = "service_failed" /\ offers' = {} THEN "none_left" ELSE said[i],
                     IF said[i] \in {"selected", "service_failed"} THEN p ELSE NoOne)]

TryOffer(p) ==
  /\ Drained
  /\ Try(p)
  /\ \E said \in Tried :
       /\ Note(said, p)
       /\ raised' = (said = <<"authorization", "selected">>)
  /\ UNCHANGED <<taskVars, deskVars, todo, result, incidentVars, bills>>

PayOffer(p) ==
  /\ Drained
  /\ Pay(p)
  /\ \E said \in PaidSteps : Paid(p, said) /\ Note(said, p)
  /\ UNCHANGED <<deskVars, responseVars, incidentVars, bills>>

\* The plan, the model's or the runbook's, and its first repair if any.
Plan(n) ==
  /\ course = "diagnosing"
  /\ order = 1
  /\ result = "none"
  /\ Ended
  /\ Drained
  /\ LET diagnosis == Step("diagnose", "diagnosis", NoOne) IN
       \/ /\ n > 0
          /\ todo' = n - 1
          /\ Order("fix", "ops", <<diagnosis, Status("fixing"), Step("fix", "ordering", NoOne)>>)
          /\ Advance("fixing")
          /\ UNCHANGED result
       \/ /\ n = 0
          /\ Return("failed")
          /\ pending' = <<diagnosis>>
          /\ UNCHANGED <<purchaseVars, taskVars, raised, todo>>
  /\ UNCHANGED <<lockVars, incidentVars, bills>>

\* A repair was bought: the stack is healthy or this was the last, or the
\* next one is ordered.
Repaired ==
  /\ course = "fixing"
  /\ step = "bought"
  /\ Drained
  /\ LET repaired == Step("fix", "repaired", NoOne) IN
       \/ /\ Advance("verifying")
          /\ pending' = <<repaired, Status("verifying")>>
          /\ UNCHANGED <<purchaseVars, taskVars, raised, todo>>
       \/ /\ todo > 0
          /\ todo' = todo - 1
          /\ Order("fix", "ops", <<repaired, Step("fix", "ordering", NoOne)>>)
          /\ UNCHANGED deskVars
  /\ UNCHANGED <<lockVars, result, incidentVars, bills>>

Blocked ==
  /\ course = "fixing"
  /\ step = "stopped"
  /\ Drained
  /\ Return(IF raised THEN "failed" ELSE "blocked")
  /\ UNCHANGED <<purchaseVars, lockVars, taskVars, todo, raised, pending, incidentVars, bills>>

\* Healthy; or not when VERIFY_WAIT is over; or no answer then.
Verify ==
  /\ course = "verifying"
  /\ Drained
  /\ \/ Return("resolved") /\ pending' = <<Step("verify", "recovered", NoOne)>>
     \/ Return("failed") /\ pending' \in {<<>>, <<Step("verify", "still_failing", NoOne)>>}
  /\ UNCHANGED <<purchaseVars, lockVars, taskVars, todo, raised, incidentVars, bills>>

\* respond: the lock goes first.
GiveTurn ==
  /\ result # "none"
  /\ busy = "response"
  /\ Drained
  /\ bills' = [n \in Orders |-> BillOf(n)]
  /\ Unlock
  /\ failures' = FALSE
  /\ answered' = {}
  /\ UNCHANGED <<deskVars, responseVars, pending, incidentVars>>

\* Then the incident goes to the history with what came of it.
CloseIncident ==
  /\ result # "none"
  /\ busy = "free"
  /\ Close
  /\ status' = result
  /\ closed' = TRUE
  /\ result' = "none"
  /\ todo' = 0
  /\ raised' = FALSE
  /\ UNCHANGED <<purchaseVars, lockVars, taskVars, pending, log, bills>>

\* A gateway, once the paying request is said to be under way.
GatewaysServe ==
  /\ Drained
  /\ ServeSent
  /\ UNCHANGED <<taskVars, deskVars, responseVars, pending, incidentVars, bills>>

ViewNext ==
  \/ OpenIncident \/ CheckOrSwitch \/ TakeTurn \/ Diagnose \/ Repaired \/ Blocked
  \/ Verify \/ GiveTurn \/ CloseIncident \/ Write \/ GatewaysServe
  \/ \E p \in Providers : TryOffer(p) \/ PayOffer(p)
  \/ \E n \in 0..MaxActions : Plan(n)

ViewSpec == ViewInit /\ [][ViewNext]_viewVars

-----------------------------------------------------------------------------
(* What the page makes of it. *)

\* find, of stepsOf a stage.
Wrote(stage, kind) == \E i \in DOMAIN log : log[i].stage = stage /\ log[i].step = kind

\* laneState, and VerifyLane's answer when there is nothing to verify.
DiagnoseLane ==
  IF Wrote("diagnose", "diagnosis") THEN "done"
  ELSE IF status = "diagnosing" THEN "working" ELSE "failed"

\* Mutant of FixLane: a repair that was made counts before what followed.
FixLaneDoneFirst ==
  CASE status = "fixing" -> "working"
    [] Wrote("fix", "repaired") -> "done"
    [] status = "blocked" -> "blocked"
    [] OTHER -> IF status = "diagnosing" THEN "waiting" ELSE "failed"

FixLane ==
  CASE status = "fixing" -> "working"
    [] status = "blocked" -> "blocked"
    [] OTHER -> IF Wrote("fix", "repaired") THEN "done"
                ELSE IF status = "diagnosing" THEN "waiting" ELSE "failed"

VerifyLane ==
  IF Wrote("verify", "recovered") THEN "done"
  ELSE IF Wrote("verify", "still_failing") THEN "failed"
  ELSE IF status = "verifying" THEN "working"
  ELSE IF status \in {"blocked", "failed"} THEN "skipped" ELSE "waiting"

Lanes == <<"done", DiagnoseLane, FixLane, VerifyLane>>

\* IncidentStatusChip.
Chip ==
  CASE status = "resolved" -> "Resolved"
    [] status = "blocked" -> "Blocked"
    [] status = "failed" -> "Not resolved"
    [] OTHER -> "under way"

\* How many repairs were ordered, as of the i-th of these steps.
Ordered(steps, i) == Cardinality({k \in 1..i : steps[k].step = "ordering"})

\* Which order of the incident the last step is about.
Latest == 1 + Ordered(log, Len(log))

\* Where the steps of order n are: those of the diagnosis, or, one group per
\* repair ordered, from its `ordering` to the next.
Purchased(n) ==
  {i \in DOMAIN log : IF n = 1 THEN log[i].stage = "diagnose"
                      ELSE log[i].stage = "fix" /\ Ordered(log, i) = n - 1}

Those(places, kinds) == {i \in places : log[i].step \in kinds}

\* Mutant of Chosen: the first that was chosen.
ChosenFirst(places) == log[CHOOSE i \in Those(places, {"selected"}) :
                             \A j \in Those(places, {"selected"}) : i <= j].provider

\* Paid: what was chosen last, and whether it settled.
Chosen(places) == log[CHOOSE i \in Those(places, {"selected"}) :
                        \A j \in Those(places, {"selected"}) : j <= i].provider

SaysPaid(places) == Those(places, {"selected"}) # {} /\ Those(places, {"settled"}) # {}

\* Those stopped() gives a reason for, and all that it looks for.
Reasons == {"denied", "over_budget", "refused", "none_left", "no_provider", "payment_failed"}
Endings == Reasons \cup {"service_failed", "settled", "result"}

\* stopped: the last step that says why, unless it bought or tries another.
Stopped(places) ==
  LET last == log[CHOOSE i \in Those(places, Endings) :
                    \A j \in Those(places, Endings) : j <= i].step
  IN IF Those(places, Endings) # {} /\ last \in Reasons THEN last ELSE "nothing"

\* working and stepVerb: what the headline says the agents do.
Verb ==
  IF status \notin {"diagnosing", "fixing"} \/ log = <<>> THEN "other"
  ELSE LET last == log[Len(log)].step IN
       CASE last \in {"briefed", "discovered"} -> "shopping for a provider"
         [] last = "quote" -> "comparing quotes"
         [] last \in {"authorization", "selected"} -> "checking its policy"
         [] last \in {"payment_required", "paying"} -> "paying over x402"
         [] OTHER -> "other"

\* FixLane's last line.
SaysNoRepairPaid == status = "blocked" /\ closed /\ \E i \in DOMAIN log : log[i].stage = "fix"

-----------------------------------------------------------------------------
(* Properties. *)

\* Autopilot.tsx:545-564,619-635,803-872.  Whatever has been written of an
\* incident when the page asks: one lane works at most; none works, waits or
\* is yet to come once it is closed, and none is skipped before; nothing is
\* done behind what failed or was blocked; and the lanes agree with the chip.
LanesAgree ==
  /\ \A i, j \in 1..4 : Lanes[i] = "working" /\ Lanes[j] = "working" => i = j
  /\ \A i \in 1..4 : Lanes[i] \in {"working", "waiting"} => ~closed
  /\ \A i \in 1..4 : Lanes[i] = "skipped" => closed
  /\ \A i, j \in 1..4 : i < j /\ Lanes[i] \in {"failed", "blocked"} => Lanes[j] # "done"
  /\ Chip = "Resolved" => \A i \in 1..4 : Lanes[i] = "done"
  /\ (Chip = "Blocked") <=> (Lanes[3] = "blocked")

\* Whom order n of the incident has charged or may charge.
BillFor(n) == IF busy = "response" THEN BillOf(n) ELSE bills[n]

\* A paying request goes out when all that is said before it is written.
Announced == step = "paying" /\ ~Drained

\* Autopilot.tsx:403-424,691-766,803-847.  Whichever orders fail, and however
\* late their gateways answer: who the page says was paid, was, and alone;
\* who it says was not charged, and of whom it says that a policy, a budget
\* or a failure stopped them before, was not and will not be; and where it
\* says that an agent still shops, nothing is out.  That nothing was paid for
\* the repair is right of one repair whose payment did not fail.
MoneyIsTrue ==
  /\ \A n \in 1..Latest :
       /\ SaysPaid(Purchased(n)) => BillFor(n) = {Chosen(Purchased(n))}
       /\ \A i \in Those(Purchased(n), {"service_failed", "none_left"}) :
            log[i].provider \notin BillFor(n)
       /\ Stopped(Purchased(n)) \notin {"nothing", "payment_failed"} => BillFor(n) = {}
  /\ Verb \in {"shopping for a provider", "comparing quotes", "checking its policy"} =>
       BillFor(Latest) = {} \/ Announced
  /\ SaysNoRepairPaid /\ Latest = 2 /\ Stopped(Purchased(2)) # "payment_failed" => BillFor(2) = {}
=============================================================================
