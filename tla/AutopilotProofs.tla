--------------------------- MODULE AutopilotProofs ---------------------------
(***************************************************************************)
(* Theorems about Autopilot for every set of providers, every price and    *)
(* budget, every length of plan and every COOLDOWN that outlasts a health  *)
(* check: types, that an order is paid once, that an incident's `spent` is *)
(* nearly complete, that a pause holds and that evidence is fresh.         *)
(***************************************************************************)
EXTENDS Autopilot, TLAPS

ResponseStages == {"opened", "diagnosing", "fixing", "verifying", "returned"}

\* Nothing was ordered since the lock changed hands.
NoOrders == order = 0 /\ step = "none" /\ sent = {}

\* Who holds the lock, and how many orders it can have placed.
FlowInv ==
  /\ busy = "response" => stage \in ResponseStages
  /\ stage \in ResponseStages \ {"opened"} => busy = "response"
  /\ queued => busy = "run" /\ stage = "opened"
  /\ step # "none" => order \in Orders
  /\ busy = "free" => NoOrders
  /\ busy = "response" /\ stage = "opened" => NoOrders
  /\ busy = "run" => order = 1
  /\ stage = "diagnosing" => order = 1
  /\ stage = "fixing" => order \in Orders /\ order + todo <= 1 + MaxActions

\* A quote that is paid for no more.
Dead(q) == phase[q] \in {"forfeited", "lapsed"}

\* What is out for each order: nothing that may still be charged while the
\* next offer is considered, and only the chosen one while it is being paid.
SpendInv ==
  /\ \A n \in Orders, p \in Providers :
       <<n, p>> \in sent => n <= order /\ Price[p] <= budget
  /\ \A n \in Orders, p, r \in Providers :
       /\ <<n, p>> \in sent /\ ~Dead(<<n, p>>)
       /\ <<n, r>> \in sent /\ ~Dead(<<n, r>>)
       => p = r
  /\ step \in {"trying", "paying"} => \A p \in offers : Price[p] <= budget
  /\ step = "trying" =>
       \A p \in Providers : <<order, p>> \in sent => p \notin offers /\ Dead(<<order, p>>)
  /\ step = "paying" =>
       \A p, r \in Providers :
         <<order, p>> \in sent /\ p \in offers /\ <<order, r>> \in sent /\ r # p =>
           r \notin offers /\ Dead(<<order, r>>)

PaidFor(n) == \E p \in Providers : phase[<<n, p>>] = "charged"

\* What a response has in its `spent`: all its orders but the first, until
\* the last.
RecordInv ==
  /\ step = "bought" => PaidFor(order)
  /\ stage \in {"none", "opened"} => recorded = {}
  /\ busy = "response" =>
       /\ \A n \in recorded : n \in Orders /\ PaidFor(n)
       /\ \A n \in Orders : 2 <= n /\ n < order => n \in recorded

\* What a pause and a late answer leave behind.
SwitchInv ==
  /\ unresolved => ~enabled
  /\ reading = "before" /\ ~excused => quiet + age >= Cooldown

IInv == TypeOK /\ FlowInv /\ SpendInv /\ RecordInv /\ SwitchInv

-----------------------------------------------------------------------------
\* Every step keeps the types of the order and of the lock.
LEMMA PurchaseTypeStep ==
  ASSUME TypeOK, FlowInv, [Next]_vars
  PROVE  PurchaseTypeOK'
<1> USE PurchaseAssumption, PilotAssumption
    DEF purchaseVars, orderVars, lockVars, watchVars, pilotVars, historyVars,
        TypeOK, PurchaseTypeOK, PilotTypeOK, FlowInv, NoOrders, ResponseStages, Orders, Quotes, Services, Contract!Phases
<1>1. ASSUME NEW p \in Providers, Try(p), Elsewhere PROVE PurchaseTypeOK'
  <2>1. Quote(p) \in Quotes
    BY <1>1 DEF Try, Quote
  <2>2. sent' \in SUBSET Quotes
    BY <1>1, <2>1 DEF Elsewhere, Try
  <2>3. offers' \in SUBSET Providers /\ step' \in {"trying", "paying", "stopped"}
    BY <1>1 DEF Elsewhere, Try, Consider
  <2> QED
    BY <1>1, <2>2, <2>3 DEF Elsewhere, Try
<1>2. ASSUME NEW p \in Providers, Pay(p), Elsewhere PROVE PurchaseTypeOK'
  BY <1>2 DEF Elsewhere, Pay, Consider, Quote
<1>3. ASSUME NEW q \in Quotes, Serve(q), Elsewhere PROVE PurchaseTypeOK'
  BY <1>3 DEF Elsewhere, Serve, Contract!Lapse, Contract!Run, Contract!Forfeit, Contract!Settle,
              Contract!Charge, Contract!Refuse, Contract!Move
<1>4. ASSUME WaitTurn PROVE PurchaseTypeOK'
  BY <1>4 DEF WaitTurn, LockOrWait
<1>5. ASSUME NEW b \in Budgets \cup {MaxAtomic}, Diagnose(b) PROVE PurchaseTypeOK'
  BY <1>5 DEF Diagnose, Begin, Consider, Affordable, Return
<1>6. ASSUME NEW n \in 0..MaxActions, Plan(n) PROVE PurchaseTypeOK'
  BY <1>6 DEF Plan, Begin, Consider, Affordable, Return, RecordSpend, Ended
<1>7. ASSUME Repaired PROVE PurchaseTypeOK'
  BY <1>7 DEF Repaired, OrderNext, Begin, Consider, Affordable, RecordSpend
<1>8. ASSUME Blocked PROVE PurchaseTypeOK'
  BY <1>8 DEF Blocked, Return
<1>9. ASSUME Verify PROVE PurchaseTypeOK'
  BY <1>9 DEF Verify, Return
<1>10. ASSUME GiveTurn PROVE PurchaseTypeOK'
  <2>1. busy' \in {"free", "response"} /\ queued' = FALSE
    BY <1>10 DEF GiveTurn, Unlock
  <2>2. phase' \in [Quotes -> Contract!Phases]
    BY <1>10 DEF GiveTurn, Unlock, Idle
  <2>3. order' = 0 /\ step' = "none" /\ offers' = {} /\ sent' = {} /\ budget' = 0
    BY <1>10 DEF GiveTurn, Unlock, Idle
  <2>4. queued' \in BOOLEAN
    BY <1>10 DEF GiveTurn, Unlock
  <2>5. 0 \in 0..MaxAtomic
    OBVIOUS
  <2> QED
    BY <2>1, <2>2, <2>3, <2>4, <2>5
<1>11. ASSUME Close PROVE PurchaseTypeOK'
  BY <1>11 DEF Close, Pauses
<1>12. ASSUME FindProvider PROVE PurchaseTypeOK'
  BY <1>12 DEF FindProvider
<1>13. ASSUME BeginCheck PROVE PurchaseTypeOK'
  BY <1>13 DEF BeginCheck
<1>14. ASSUME CheckFindsOutage PROVE PurchaseTypeOK'
  BY <1>14 DEF CheckFindsOutage, EndCheck, OpenIncident, MayOpen
<1>15. ASSUME CheckFindsHealth PROVE PurchaseTypeOK'
  BY <1>15 DEF CheckFindsHealth, EndCheck
<1>16. ASSUME CheckFails PROVE PurchaseTypeOK'
  BY <1>16 DEF CheckFails, EndCheck
<1>17. ASSUME Tick PROVE PurchaseTypeOK'
  BY <1>17 DEF Tick
<1>18. ASSUME EndRun PROVE PurchaseTypeOK'
  <2>1. busy' \in {"free", "response"} /\ queued' = FALSE
    BY <1>18 DEF EndRun, Unlock
  <2>2. phase' \in [Quotes -> Contract!Phases]
    BY <1>18 DEF EndRun, Unlock, Idle
  <2>3. order' = 0 /\ step' = "none" /\ offers' = {} /\ sent' = {} /\ budget' = 0
    BY <1>18 DEF EndRun, Unlock, Idle
  <2>4. queued' \in BOOLEAN
    BY <1>18 DEF EndRun, Unlock
  <2>5. 0 \in 0..MaxAtomic
    OBVIOUS
  <2> QED
    BY <2>1, <2>2, <2>3, <2>4, <2>5
<1>19. ASSUME RespondNow PROVE PurchaseTypeOK'
  BY <1>19 DEF RespondNow, OpenIncident
<1>20. ASSUME NEW b \in Budgets, StartRun(b) PROVE PurchaseTypeOK'
  BY <1>20 DEF StartRun, TryLock, Begin, Consider, Affordable
<1>21. ASSUME NEW on \in BOOLEAN, Toggle(on) PROVE PurchaseTypeOK'
  BY <1>21 DEF Toggle
<1>22. ASSUME UNCHANGED vars PROVE PurchaseTypeOK'
  BY <1>22 DEF vars
<1> QED
  BY <1>1, <1>2, <1>3, <1>4, <1>5, <1>6, <1>7, <1>8, <1>9, <1>10, <1>11, <1>12, <1>13,
     <1>14, <1>15, <1>16, <1>17, <1>18, <1>19, <1>20, <1>21, <1>22
  DEF Next, Buying, Shop, Gateways, Respond, Watch

\* Every step keeps the types of the autopilot.
LEMMA PilotTypeStep ==
  ASSUME TypeOK, FlowInv, [Next]_vars
  PROVE  PilotTypeOK'
<1> USE PurchaseAssumption, PilotAssumption
    DEF purchaseVars, orderVars, lockVars, watchVars, pilotVars, historyVars,
        TypeOK, PilotTypeOK, PurchaseTypeOK, FlowInv, ResponseStages, Orders
<1>1. ASSUME NEW p \in Providers, Try(p), Elsewhere PROVE PilotTypeOK'
  BY <1>1 DEF Elsewhere, Try, Consider, Cheapest, Quote
<1>2. ASSUME NEW p \in Providers, Pay(p), Elsewhere PROVE PilotTypeOK'
  BY <1>2 DEF Elsewhere, Pay, Consider, Quote
<1>3. ASSUME NEW q \in Quotes, Serve(q), Elsewhere PROVE PilotTypeOK'
  BY <1>3 DEF Elsewhere, Serve, Contract!Lapse, Contract!Run, Contract!Forfeit, Contract!Settle,
              Contract!Charge, Contract!Refuse, Contract!Move
<1>4. ASSUME WaitTurn PROVE PilotTypeOK'
  BY <1>4 DEF WaitTurn, LockOrWait
<1>5. ASSUME NEW b \in Budgets \cup {MaxAtomic}, Diagnose(b) PROVE PilotTypeOK'
  BY <1>5 DEF Diagnose, Begin, Consider, Affordable, Return
<1>6. ASSUME NEW n \in 0..MaxActions, Plan(n) PROVE PilotTypeOK'
  BY <1>6 DEF Plan, Begin, Consider, Affordable, Return, RecordSpend, Ended
<1>7. ASSUME Repaired PROVE PilotTypeOK'
  BY <1>7 DEF Repaired, OrderNext, Begin, Consider, Affordable, RecordSpend
<1>8. ASSUME Blocked PROVE PilotTypeOK'
  BY <1>8 DEF Blocked, Return
<1>9. ASSUME Verify PROVE PilotTypeOK'
  BY <1>9 DEF Verify, Return
<1>10. ASSUME GiveTurn PROVE PilotTypeOK'
  BY <1>10 DEF GiveTurn, Unlock, Idle
<1>11. ASSUME Close PROVE PilotTypeOK'
  <2>1. enabled' \in BOOLEAN /\ unresolved' \in BOOLEAN
    BY <1>11 DEF Close
  <2>2. reading' \in {"none", "since", "before"}
    BY <1>11 DEF Close
  <2>3. quiet' \in 0..Cooldown
    BY <1>11 DEF Close
  <2>4. stage' = "none" /\ trigger' = "none" /\ outcome' = "none"
    BY <1>11 DEF Close
  <2>5. todo' \in 0..MaxActions /\ recorded' = {} /\ excused' = FALSE
    BY <1>11 DEF Close
  <2>6. UNCHANGED <<known, streak, age>>
    BY <1>11 DEF Close
  <2> QED
    BY <2>1, <2>2, <2>3, <2>4, <2>5, <2>6
<1>12. ASSUME FindProvider PROVE PilotTypeOK'
  BY <1>12 DEF FindProvider
<1>13. ASSUME BeginCheck PROVE PilotTypeOK'
  BY <1>13 DEF BeginCheck
<1>14. ASSUME CheckFindsOutage PROVE PilotTypeOK'
  <2>1. age' \in 0..FetchTimeout
    BY <1>14 DEF CheckFindsOutage, EndCheck
  <2>2. streak' \in 0..ConfirmChecks
    BY <1>14 DEF CheckFindsOutage
  <2>3. stage' \in {stage, "opened"} /\ trigger' \in {trigger, "autopilot"}
    BY <1>14 DEF CheckFindsOutage, OpenIncident
  <2>4. UNCHANGED <<todo, outcome, recorded>>
    BY <1>14 DEF CheckFindsOutage, OpenIncident
  <2> QED
    BY <1>14, <2>1, <2>2, <2>3, <2>4 DEF CheckFindsOutage, EndCheck
<1>15. ASSUME CheckFindsHealth PROVE PilotTypeOK'
  BY <1>15 DEF CheckFindsHealth, EndCheck
<1>16. ASSUME CheckFails PROVE PilotTypeOK'
  <2>1. age' \in 0..FetchTimeout
    BY <1>16 DEF CheckFails, EndCheck
  <2> QED
    BY <1>16, <2>1 DEF CheckFails, EndCheck
<1>17. ASSUME Tick PROVE PilotTypeOK'
  BY <1>17 DEF Tick
<1>18. ASSUME EndRun PROVE PilotTypeOK'
  BY <1>18 DEF EndRun, Unlock, Idle, Ended
<1>19. ASSUME RespondNow PROVE PilotTypeOK'
  BY <1>19 DEF RespondNow, OpenIncident
<1>20. ASSUME NEW b \in Budgets, StartRun(b) PROVE PilotTypeOK'
  BY <1>20 DEF StartRun, TryLock, Begin, Consider, Affordable
<1>21. ASSUME NEW on \in BOOLEAN, Toggle(on) PROVE PilotTypeOK'
  BY <1>21 DEF Toggle
<1>22. ASSUME UNCHANGED vars PROVE PilotTypeOK'
  BY <1>22 DEF vars
<1> QED
  BY <1>1, <1>2, <1>3, <1>4, <1>5, <1>6, <1>7, <1>8, <1>9, <1>10, <1>11, <1>12, <1>13,
     <1>14, <1>15, <1>16, <1>17, <1>18, <1>19, <1>20, <1>21, <1>22
  DEF Next, Buying, Shop, Gateways, Respond, Watch

\* Every step keeps the lock and the orders of its holder in agreement.
LEMMA FlowStep ==
  ASSUME TypeOK, FlowInv, [Next]_vars
  PROVE  FlowInv'
<1> USE PurchaseAssumption, PilotAssumption
    DEF purchaseVars, orderVars, lockVars, watchVars, pilotVars, historyVars,
        TypeOK, PurchaseTypeOK, PilotTypeOK, FlowInv, NoOrders, ResponseStages, Orders
<1>1. ASSUME NEW p \in Providers, Try(p), Elsewhere PROVE FlowInv'
  BY <1>1 DEF Elsewhere, Try, Consider, Cheapest, Quote
<1>2. ASSUME NEW p \in Providers, Pay(p), Elsewhere PROVE FlowInv'
  BY <1>2 DEF Elsewhere, Pay, Consider, Quote
<1>3. ASSUME NEW q \in Quotes, Serve(q), Elsewhere PROVE FlowInv'
  BY <1>3 DEF Elsewhere, Serve, Contract!Lapse, Contract!Run, Contract!Forfeit, Contract!Settle,
              Contract!Charge, Contract!Refuse, Contract!Move
<1>4. ASSUME WaitTurn PROVE FlowInv'
  BY <1>4 DEF WaitTurn, LockOrWait
<1>5. ASSUME NEW b \in Budgets \cup {MaxAtomic}, Diagnose(b) PROVE FlowInv'
  BY <1>5 DEF Diagnose, Begin, Consider, Affordable, Return
<1>6. ASSUME NEW n \in 0..MaxActions, Plan(n) PROVE FlowInv'
  BY <1>6 DEF Plan, Begin, Consider, Affordable, Return, RecordSpend, Ended
<1>7. ASSUME Repaired PROVE FlowInv'
  BY <1>7 DEF Repaired, OrderNext, Begin, Consider, Affordable, RecordSpend
<1>8. ASSUME Blocked PROVE FlowInv'
  BY <1>8 DEF Blocked, Return
<1>9. ASSUME Verify PROVE FlowInv'
  BY <1>9 DEF Verify, Return
<1>10. ASSUME GiveTurn PROVE FlowInv'
  BY <1>10 DEF GiveTurn, Unlock, Idle
<1>11. ASSUME Close PROVE FlowInv'
  BY <1>11 DEF Close, Pauses
<1>12. ASSUME FindProvider PROVE FlowInv'
  BY <1>12 DEF FindProvider
<1>13. ASSUME BeginCheck PROVE FlowInv'
  BY <1>13 DEF BeginCheck
<1>14. ASSUME CheckFindsOutage PROVE FlowInv'
  BY <1>14 DEF CheckFindsOutage, EndCheck, OpenIncident, MayOpen
<1>15. ASSUME CheckFindsHealth PROVE FlowInv'
  BY <1>15 DEF CheckFindsHealth, EndCheck
<1>16. ASSUME CheckFails PROVE FlowInv'
  BY <1>16 DEF CheckFails, EndCheck
<1>17. ASSUME Tick PROVE FlowInv'
  BY <1>17 DEF Tick
<1>18. ASSUME EndRun PROVE FlowInv'
  BY <1>18 DEF EndRun, Unlock, Idle, Ended
<1>19. ASSUME RespondNow PROVE FlowInv'
  BY <1>19 DEF RespondNow, OpenIncident
<1>20. ASSUME NEW b \in Budgets, StartRun(b) PROVE FlowInv'
  BY <1>20 DEF StartRun, TryLock, Begin, Consider, Affordable
<1>21. ASSUME NEW on \in BOOLEAN, Toggle(on) PROVE FlowInv'
  BY <1>21 DEF Toggle
<1>22. ASSUME UNCHANGED vars PROVE FlowInv'
  BY <1>22 DEF vars
<1> QED
  BY <1>1, <1>2, <1>3, <1>4, <1>5, <1>6, <1>7, <1>8, <1>9, <1>10, <1>11, <1>12, <1>13,
     <1>14, <1>15, <1>16, <1>17, <1>18, <1>19, <1>20, <1>21, <1>22
  DEF Next, Buying, Shop, Gateways, Respond, Watch

\* Every step leaves at most one payment out for an order.
LEMMA SpendStep ==
  ASSUME TypeOK, FlowInv, SpendInv, [Next]_vars
  PROVE  SpendInv'
<1> USE PurchaseAssumption, PilotAssumption
    DEF purchaseVars, orderVars, lockVars, watchVars, pilotVars, historyVars,
        TypeOK, PurchaseTypeOK, PilotTypeOK, FlowInv, NoOrders, ResponseStages, SpendInv, Dead, Orders, Quotes, Services
<1>1. ASSUME NEW p \in Providers, Try(p), Elsewhere PROVE SpendInv'
  BY <1>1 DEF Elsewhere, Try, Consider, Cheapest, Quote
<1>2. ASSUME NEW p \in Providers, Pay(p), Elsewhere PROVE SpendInv'
  BY <1>2 DEF Elsewhere, Pay, Consider, Quote
<1>3. ASSUME NEW q \in Quotes, Serve(q), Elsewhere PROVE SpendInv'
  BY <1>3 DEF Elsewhere, Serve, Contract!Lapse, Contract!Run, Contract!Forfeit, Contract!Settle,
              Contract!Charge, Contract!Refuse, Contract!Move
<1>4. ASSUME WaitTurn PROVE SpendInv'
  BY <1>4 DEF WaitTurn, LockOrWait
<1>5. ASSUME NEW b \in Budgets \cup {MaxAtomic}, Diagnose(b) PROVE SpendInv'
  BY <1>5 DEF Diagnose, Begin, Consider, Affordable, Return
<1>6. ASSUME NEW n \in 0..MaxActions, Plan(n) PROVE SpendInv'
  BY <1>6 DEF Plan, Begin, Consider, Affordable, Return, RecordSpend, Ended
<1>7. ASSUME Repaired PROVE SpendInv'
  BY <1>7 DEF Repaired, OrderNext, Begin, Consider, Affordable, RecordSpend
<1>8. ASSUME Blocked PROVE SpendInv'
  BY <1>8 DEF Blocked, Return
<1>9. ASSUME Verify PROVE SpendInv'
  BY <1>9 DEF Verify, Return
<1>10. ASSUME GiveTurn PROVE SpendInv'
  BY <1>10 DEF GiveTurn, Unlock, Idle
<1>11. ASSUME Close PROVE SpendInv'
  BY <1>11 DEF Close, Pauses
<1>12. ASSUME FindProvider PROVE SpendInv'
  BY <1>12 DEF FindProvider
<1>13. ASSUME BeginCheck PROVE SpendInv'
  BY <1>13 DEF BeginCheck
<1>14. ASSUME CheckFindsOutage PROVE SpendInv'
  BY <1>14 DEF CheckFindsOutage, EndCheck, OpenIncident, MayOpen
<1>15. ASSUME CheckFindsHealth PROVE SpendInv'
  BY <1>15 DEF CheckFindsHealth, EndCheck
<1>16. ASSUME CheckFails PROVE SpendInv'
  BY <1>16 DEF CheckFails, EndCheck
<1>17. ASSUME Tick PROVE SpendInv'
  BY <1>17 DEF Tick
<1>18. ASSUME EndRun PROVE SpendInv'
  BY <1>18 DEF EndRun, Unlock, Idle, Ended
<1>19. ASSUME RespondNow PROVE SpendInv'
  BY <1>19 DEF RespondNow, OpenIncident
<1>20. ASSUME NEW b \in Budgets, StartRun(b) PROVE SpendInv'
  BY <1>20 DEF StartRun, TryLock, Begin, Consider, Affordable
<1>21. ASSUME NEW on \in BOOLEAN, Toggle(on) PROVE SpendInv'
  BY <1>21 DEF Toggle
<1>22. ASSUME UNCHANGED vars PROVE SpendInv'
  BY <1>22 DEF vars
<1> QED
  BY <1>1, <1>2, <1>3, <1>4, <1>5, <1>6, <1>7, <1>8, <1>9, <1>10, <1>11, <1>12, <1>13,
     <1>14, <1>15, <1>16, <1>17, <1>18, <1>19, <1>20, <1>21, <1>22
  DEF Next, Buying, Shop, Gateways, Respond, Watch

\* Every step keeps what was bought on record.
LEMMA RecordStep ==
  ASSUME TypeOK, FlowInv, RecordInv, [Next]_vars
  PROVE  RecordInv'
<1> USE PurchaseAssumption, PilotAssumption
    DEF purchaseVars, orderVars, lockVars, watchVars, pilotVars, historyVars,
        TypeOK, PurchaseTypeOK, PilotTypeOK, FlowInv, NoOrders, ResponseStages, RecordInv, PaidFor, Orders, Quotes
<1>1. ASSUME NEW p \in Providers, Try(p), Elsewhere PROVE RecordInv'
  BY <1>1 DEF Elsewhere, Try, Consider, Cheapest, Quote
<1>2. ASSUME NEW p \in Providers, Pay(p), Elsewhere PROVE RecordInv'
  BY <1>2 DEF Elsewhere, Pay, Consider, Quote
<1>3. ASSUME NEW q \in Quotes, Serve(q), Elsewhere PROVE RecordInv'
  <2>1. \A r \in Quotes : phase[r] = "charged" => phase'[r] = "charged"
    BY <1>3 DEF Serve, Contract!Lapse, Contract!Run, Contract!Forfeit, Contract!Settle,
                Contract!Charge, Contract!Refuse, Contract!Move
  <2>2. UNCHANGED <<order, step, busy, stage, recorded>>
    BY <1>3 DEF Elsewhere, Serve
  <2> QED
    BY <2>1, <2>2
<1>4. ASSUME WaitTurn PROVE RecordInv'
  <2>1. phase' = phase /\ order' = order /\ step' = step
    BY <1>4 DEF WaitTurn
  <2>2. recorded = {} /\ recorded' = {}
    BY <1>4 DEF WaitTurn
  <2>3. busy' = "response" => order = 0
    BY <1>4 DEF WaitTurn, LockOrWait
  <2> QED
    BY <2>1, <2>2, <2>3
<1>5. ASSUME NEW b \in Budgets \cup {MaxAtomic}, Diagnose(b) PROVE RecordInv'
  BY <1>5 DEF Diagnose, Begin, Consider, Affordable, Return
<1>6. ASSUME NEW n \in 0..MaxActions, Plan(n) PROVE RecordInv'
  <2>1. order = 1 /\ busy = "response"
    BY <1>6 DEF Plan
  <2>2. \A m \in recorded' : m \in Orders /\ PaidFor(m)
    BY <1>6, <2>1 DEF Plan, RecordSpend
  <2>3. order' \in {1, 2} /\ phase' = phase /\ busy' = busy
    BY <1>6, <2>1 DEF Plan, Begin
  <2>4. step' = "bought" => order' = order /\ step = "bought"
    BY <1>6 DEF Plan, Begin, Consider
  <2>5. stage' \notin {"none", "opened"}
    BY <1>6 DEF Plan, Return
  <2>6. \A m \in Orders : ~(2 <= m /\ m < order')
    BY <2>3
  <2>7. step' = "bought" => PaidFor(order)'
    BY <2>3, <2>4
  <2> QED
    BY <2>2, <2>3, <2>5, <2>6, <2>7
<1>7. ASSUME Repaired PROVE RecordInv'
  <2>1. order \in Orders /\ busy = "response" /\ recorded' = recorded \cup {order}
    BY <1>7 DEF Repaired, RecordSpend
  <2>2. \A m \in recorded' : m \in Orders /\ PaidFor(m)
    BY <1>7, <2>1 DEF Repaired
  <2>3. order' \in {order, order + 1} /\ phase' = phase /\ busy' = busy
    BY <1>7 DEF Repaired, OrderNext, Begin
  <2>4. step' = "bought" => order' = order /\ step = "bought"
    BY <1>7 DEF Repaired, OrderNext, Begin, Consider
  <2>5. stage' \notin {"none", "opened"}
    BY <1>7 DEF Repaired
  <2>6. \A m \in Orders : 2 <= m /\ m < order' => m \in recorded'
    BY <2>1, <2>3
  <2> QED
    BY <2>1, <2>2, <2>3, <2>4, <2>5, <2>6
<1>8. ASSUME Blocked PROVE RecordInv'
  BY <1>8 DEF Blocked, Return
<1>9. ASSUME Verify PROVE RecordInv'
  BY <1>9 DEF Verify, Return
<1>10. ASSUME GiveTurn PROVE RecordInv'
  BY <1>10 DEF GiveTurn, Unlock, Idle
<1>11. ASSUME Close PROVE RecordInv'
  BY <1>11 DEF Close, Pauses
<1>12. ASSUME FindProvider PROVE RecordInv'
  BY <1>12 DEF FindProvider
<1>13. ASSUME BeginCheck PROVE RecordInv'
  BY <1>13 DEF BeginCheck
<1>14. ASSUME CheckFindsOutage PROVE RecordInv'
  BY <1>14 DEF CheckFindsOutage, EndCheck, OpenIncident, MayOpen
<1>15. ASSUME CheckFindsHealth PROVE RecordInv'
  BY <1>15 DEF CheckFindsHealth, EndCheck
<1>16. ASSUME CheckFails PROVE RecordInv'
  BY <1>16 DEF CheckFails, EndCheck
<1>17. ASSUME Tick PROVE RecordInv'
  BY <1>17 DEF Tick
<1>18. ASSUME EndRun PROVE RecordInv'
  BY <1>18 DEF EndRun, Unlock, Idle, Ended
<1>19. ASSUME RespondNow PROVE RecordInv'
  BY <1>19 DEF RespondNow, OpenIncident
<1>20. ASSUME NEW b \in Budgets, StartRun(b) PROVE RecordInv'
  BY <1>20 DEF StartRun, TryLock, Begin, Consider, Affordable
<1>21. ASSUME NEW on \in BOOLEAN, Toggle(on) PROVE RecordInv'
  BY <1>21 DEF Toggle
<1>22. ASSUME UNCHANGED vars PROVE RecordInv'
  BY <1>22 DEF vars
<1> QED
  BY <1>1, <1>2, <1>3, <1>4, <1>5, <1>6, <1>7, <1>8, <1>9, <1>10, <1>11, <1>12, <1>13,
     <1>14, <1>15, <1>16, <1>17, <1>18, <1>19, <1>20, <1>21, <1>22
  DEF Next, Buying, Shop, Gateways, Respond, Watch

\* Every step keeps a pause on and a late answer within the quiet time.
LEMMA SwitchStep ==
  ASSUME TypeOK, SwitchInv, [Next]_vars
  PROVE  SwitchInv'
<1> USE PurchaseAssumption, PilotAssumption
    DEF purchaseVars, orderVars, lockVars, watchVars, pilotVars, historyVars,
        TypeOK, PurchaseTypeOK, PilotTypeOK, SwitchInv
<1>1. ASSUME NEW p \in Providers, Try(p), Elsewhere PROVE SwitchInv'
  BY <1>1 DEF Elsewhere, Try, Consider, Cheapest, Quote
<1>2. ASSUME NEW p \in Providers, Pay(p), Elsewhere PROVE SwitchInv'
  BY <1>2 DEF Elsewhere, Pay, Consider, Quote
<1>3. ASSUME NEW q \in Quotes, Serve(q), Elsewhere PROVE SwitchInv'
  BY <1>3 DEF Elsewhere, Serve, Contract!Lapse, Contract!Run, Contract!Forfeit, Contract!Settle,
              Contract!Charge, Contract!Refuse, Contract!Move
<1>4. ASSUME WaitTurn PROVE SwitchInv'
  BY <1>4 DEF WaitTurn, LockOrWait
<1>5. ASSUME NEW b \in Budgets \cup {MaxAtomic}, Diagnose(b) PROVE SwitchInv'
  BY <1>5 DEF Diagnose, Begin, Consider, Affordable, Return
<1>6. ASSUME NEW n \in 0..MaxActions, Plan(n) PROVE SwitchInv'
  BY <1>6 DEF Plan, Begin, Consider, Affordable, Return, RecordSpend, Ended
<1>7. ASSUME Repaired PROVE SwitchInv'
  BY <1>7 DEF Repaired, OrderNext, Begin, Consider, Affordable, RecordSpend
<1>8. ASSUME Blocked PROVE SwitchInv'
  BY <1>8 DEF Blocked, Return
<1>9. ASSUME Verify PROVE SwitchInv'
  BY <1>9 DEF Verify, Return
<1>10. ASSUME GiveTurn PROVE SwitchInv'
  BY <1>10 DEF GiveTurn, Unlock, Idle
<1>11. ASSUME Close PROVE SwitchInv'
  BY <1>11 DEF Close, Pauses
<1>12. ASSUME FindProvider PROVE SwitchInv'
  BY <1>12 DEF FindProvider
<1>13. ASSUME BeginCheck PROVE SwitchInv'
  BY <1>13 DEF BeginCheck
<1>14. ASSUME CheckFindsOutage PROVE SwitchInv'
  BY <1>14 DEF CheckFindsOutage, EndCheck, OpenIncident, MayOpen
<1>15. ASSUME CheckFindsHealth PROVE SwitchInv'
  BY <1>15 DEF CheckFindsHealth, EndCheck
<1>16. ASSUME CheckFails PROVE SwitchInv'
  BY <1>16 DEF CheckFails, EndCheck
<1>17. ASSUME Tick PROVE SwitchInv'
  BY <1>17 DEF Tick
<1>18. ASSUME EndRun PROVE SwitchInv'
  BY <1>18 DEF EndRun, Unlock, Idle, Ended
<1>19. ASSUME RespondNow PROVE SwitchInv'
  BY <1>19 DEF RespondNow, OpenIncident
<1>20. ASSUME NEW b \in Budgets, StartRun(b) PROVE SwitchInv'
  BY <1>20 DEF StartRun, TryLock, Begin, Consider, Affordable
<1>21. ASSUME NEW on \in BOOLEAN, Toggle(on) PROVE SwitchInv'
  BY <1>21 DEF Toggle
<1>22. ASSUME UNCHANGED vars PROVE SwitchInv'
  BY <1>22 DEF vars
<1> QED
  BY <1>1, <1>2, <1>3, <1>4, <1>5, <1>6, <1>7, <1>8, <1>9, <1>10, <1>11, <1>12, <1>13,
     <1>14, <1>15, <1>16, <1>17, <1>18, <1>19, <1>20, <1>21, <1>22
  DEF Next, Buying, Shop, Gateways, Respond, Watch

-----------------------------------------------------------------------------
\* The invariant holds at the start.
LEMMA StartsRight == Init => IInv
<1> SUFFICES ASSUME Init PROVE IInv
  OBVIOUS
<1> USE PurchaseAssumption, PilotAssumption DEF Init, PurchaseInit, Idle, Orders, Quotes
<1>1. PurchaseTypeOK
  <2>1. phase \in [Quotes -> Contract!Phases]
    BY DEF Contract!Phases
  <2>2. order \in {0} \cup Orders /\ budget \in 0..MaxAtomic
    OBVIOUS
  <2>3. queued \in BOOLEAN
    OBVIOUS
  <2>4. offers \in SUBSET Providers /\ sent \in SUBSET Quotes
    OBVIOUS
  <2> QED
    BY <2>1, <2>2, <2>3, <2>4 DEF PurchaseTypeOK
<1>2. PilotTypeOK
  <2>1. enabled \in BOOLEAN /\ known \in BOOLEAN /\ unresolved \in BOOLEAN /\ excused \in BOOLEAN
    OBVIOUS
  <2>2. streak \in 0..ConfirmChecks /\ age \in 0..FetchTimeout
    OBVIOUS
  <2>3. quiet \in 0..Cooldown /\ todo \in 0..MaxActions
    OBVIOUS
  <2> QED
    BY <2>1, <2>2, <2>3 DEF PilotTypeOK
<1>3. FlowInv /\ SpendInv
  BY DEF FlowInv, ResponseStages, NoOrders, SpendInv
<1>4. RecordInv /\ SwitchInv
  BY DEF RecordInv, SwitchInv
<1> QED
  BY <1>1, <1>2, <1>3, <1>4 DEF IInv, TypeOK

\* Every step keeps it.
LEMMA StaysRight == IInv /\ [Next]_vars => IInv'
<1> SUFFICES ASSUME IInv, [Next]_vars PROVE IInv'
  OBVIOUS
<1> USE DEF IInv
<1>1. TypeOK'
  BY PurchaseTypeStep, PilotTypeStep DEF TypeOK
<1> QED
  BY <1>1, FlowStep, SpendStep, RecordStep, SwitchStep

\* In every reachable state, the types are right, whoever holds the lock has
\* placed the orders that are out, and each is paid to one provider at most.
THEOREM AutopilotInvariant == Spec => []IInv
  BY StartsRight, StaysRight, PTL DEF Spec

\* main.rs:417-452, autopilot.rs:89-127.  Types, for any plan and any prices.
THEOREM TypeCorrect == Spec => []TypeOK
<1>1. IInv => TypeOK
  BY DEF IInv
<1> QED
  BY <1>1, AutopilotInvariant, PTL

\* main.rs:732-735.  However many providers a purchase tries and whatever
\* their gateways do later, it pays one of them at most, within its budget.
THEOREM OrdersArePaidOnce == Spec => []OnePaymentPerOrder
<1>1. IInv => OnePaymentPerOrder
  BY DEF IInv, SpendInv, Dead, OnePaymentPerOrder, MayCharge
<1> QED
  BY <1>1, AutopilotInvariant, PTL

\* autopilot.rs:163-169.  An incident's `spent` lacks at most its diagnosis
\* and its last repair, however long the plan, and holds only what was paid.
THEOREM SpendIsNearlyComplete == Spec => []MissedSpendIsBounded
<1>1. IInv => MissedSpendIsBounded
  <2> SUFFICES ASSUME IInv, busy = "response"
               PROVE  /\ \A n \in Orders : Lost(n) => n \in {1, order}
                      /\ \A n \in recorded : \E p \in Providers : phase[<<n, p>>] = "charged"
    BY DEF MissedSpendIsBounded
  <2>1. \A n \in recorded : \E p \in Providers : phase[<<n, p>>] = "charged"
    BY DEF IInv, RecordInv, PaidFor
  <2>2. ASSUME NEW n \in Orders, Lost(n) PROVE n \in {1, order}
    <3>1. n <= order /\ n \notin recorded
      BY <2>2 DEF Lost, MayCharge, IInv, SpendInv
    <3>2. ~(2 <= n /\ n < order)
      BY <3>1 DEF IInv, RecordInv
    <3>3. order \in {0} \cup Orders /\ n >= 1
      BY DEF IInv, TypeOK, PurchaseTypeOK, Orders
    <3> QED
      BY <3>1, <3>2, <3>3, PurchaseAssumption DEF Orders
  <2> QED
    BY <2>1, <2>2
<1> QED
  BY <1>1, AutopilotInvariant, PTL

\* A step that opens an incident of the autopilot's own is an answer of the
\* detector's that may open one.
LEMMA OpensByAnswer ==
  ASSUME IInv, Next, stage = "none", stage' = "opened", trigger' = "autopilot"
  PROVE  reading # "none" /\ MayOpen
<1>1. CASE CheckFindsOutage
  BY <1>1 DEF CheckFindsOutage, EndCheck, pilotVars
<1>2. CASE RespondNow
  BY <1>2 DEF RespondNow, OpenIncident
<1>3. CASE Respond
  BY <1>3 DEF Respond, WaitTurn, Diagnose, Plan, Repaired, Blocked, Verify, GiveTurn, Close
<1>4. ASSUME UNCHANGED stage
      PROVE  FALSE
  BY <1>4
<1> QED
  BY <1>1, <1>2, <1>3, <1>4
  DEF Next, Buying, Gateways, Elsewhere, Watch, FindProvider, BeginCheck, CheckFindsHealth,
      CheckFails, Tick, EndRun, StartRun, Toggle, pilotVars

\* autopilot.rs:326-330.  No matter who opened the incident that was not
\* resolved and what was switched meanwhile, only its owner ends a pause.
THEOREM PausesHold == Spec => PauseHolds
<1>1. IInv /\ [Next]_vars =>
        [stage = "none" /\ stage' = "opened" /\ trigger' = "autopilot" => ~unresolved]_vars
  BY OpensByAnswer DEF IInv, SwitchInv, MayOpen
<1> QED
  BY <1>1, AutopilotInvariant, PTL DEF Spec, PauseHolds

\* autopilot.rs:38.  For every COOLDOWN longer than a health check may take,
\* an answer from before an incident's end does not open the next.
THEOREM EvidenceStaysFresh == Spec => EvidenceIsFresh
<1>1. ASSUME IInv, Next, stage = "none", stage' = "opened", trigger' = "autopilot"
      PROVE  reading = "since" \/ excused
  <2>1. reading \in {"since", "before"} /\ quiet = 0
    BY <1>1, OpensByAnswer DEF IInv, TypeOK, PilotTypeOK, MayOpen
  <2>2. CASE reading = "before" /\ ~excused
    <3>1. quiet + age >= Cooldown
      BY <1>1, <2>2 DEF IInv, SwitchInv
    <3> QED
      BY <1>1, <2>1, <3>1, PilotAssumption DEF IInv, TypeOK, PilotTypeOK
  <2> QED
    BY <2>1, <2>2
<1>2. IInv /\ [Next]_vars =>
        [stage = "none" /\ stage' = "opened" /\ trigger' = "autopilot" =>
           reading = "since" \/ excused]_vars
  BY <1>1
<1> QED
  BY <1>2, AutopilotInvariant, PTL DEF Spec, EvidenceIsFresh

-----------------------------------------------------------------------------
(* The autopilot keeps what IncidentDesk promises. *)

\* An incident is open exactly while its response is somewhere.
OpenInv == (stage = "none") <=> (trigger = "none")

\* Every step keeps it.
LEMMA OpenStep == OpenInv /\ [Next]_vars => OpenInv'
<1> SUFFICES ASSUME OpenInv, [Next]_vars PROVE OpenInv'
  OBVIOUS
<1> USE DEF OpenInv
<1>1. CASE UNCHANGED <<stage, trigger>>
  BY <1>1
<1>2. CASE CheckFindsOutage
  BY <1>2 DEF CheckFindsOutage, OpenIncident, pilotVars
<1>3. CASE RespondNow
  BY <1>3 DEF RespondNow, OpenIncident
<1>4. CASE Respond
  BY <1>4 DEF Respond, WaitTurn, Diagnose, Plan, Repaired, Blocked, Verify, GiveTurn, Close,
              Return, pilotVars
<1> QED
  BY <1>1, <1>2, <1>3, <1>4
  DEF Next, vars, Buying, Gateways, Elsewhere, Watch, FindProvider, BeginCheck,
      CheckFindsHealth, CheckFails, Tick, EndRun, StartRun, Toggle, pilotVars

\* Where no step of the desk is made, the desk sees nothing.
LEMMA DeskStutter ==
  ASSUME UNCHANGED <<enabled, streak, trigger, Course>>
  PROVE  UNCHANGED Desk!deskVars
  BY DEF Desk!deskVars

\* The detector's steps.
LEMMA WatchSteps ==
  ASSUME IInv, OpenInv, Watch
  PROVE  [Desk!DeskNext]_(Desk!deskVars)
<1> USE DEF IInv, TypeOK, PilotTypeOK, OpenInv
<1>0. streak \in Nat /\ ConfirmChecks \in Nat \ {0}
  BY PilotAssumption
<1>1. CASE FindProvider \/ BeginCheck \/ CheckFails
  <2>1. UNCHANGED <<enabled, streak, trigger, stage, outcome>>
    BY <1>1 DEF FindProvider, BeginCheck, CheckFails, pilotVars
  <2> QED
    BY <2>1, DeskStutter DEF Course
<1>2. CASE CheckFindsHealth
  <2>1. streak' = 0 /\ UNCHANGED <<enabled, trigger, Course>>
    BY <1>2 DEF CheckFindsHealth, pilotVars, Course
  <2>2. (streak > 0)' = FALSE
    BY <2>1
  <2>3. Desk!Check(FALSE)
    BY <2>1, <2>2 DEF Desk!Check
  <2> QED
    BY <2>3 DEF Desk!DeskNext
<1>3. CASE CheckFindsOutage
  <2>1. streak' = (IF streak = ConfirmChecks THEN streak ELSE streak + 1) /\ enabled' = enabled
    BY <1>3 DEF CheckFindsOutage
  <2>2. (streak > 0)' = TRUE
    BY <2>1, <1>0
  <2>3. CASE MayOpen
    <3>1. /\ enabled /\ stage = "none" /\ trigger = "none"
          /\ stage' = "opened" /\ trigger' = "autopilot"
      BY <1>3, <2>3 DEF CheckFindsOutage, MayOpen, OpenIncident
    <3>2. Course' = "diagnosing"
      BY <3>1 DEF Course
    <3>3. Desk!OpenAlone
      BY <2>1, <2>2, <3>1, <3>2 DEF Desk!OpenAlone, Desk!Open
    <3> QED
      BY <3>3 DEF Desk!DeskNext
  <2>4. CASE ~MayOpen
    <3>1. UNCHANGED <<enabled, trigger, Course>>
      BY <1>3, <2>4 DEF CheckFindsOutage, pilotVars, Course
    <3>2. Desk!Check(TRUE)
      BY <2>2, <3>1 DEF Desk!Check
    <3> QED
      BY <3>2 DEF Desk!DeskNext
  <2> QED
    BY <2>3, <2>4
<1> QED
  BY <1>1, <1>2, <1>3 DEF Watch

\* The response's steps.
LEMMA RespondSteps ==
  ASSUME IInv, OpenInv, Respond
  PROVE  [Desk!DeskNext]_(Desk!deskVars)
<1> USE DEF OpenInv
<1>0. UNCHANGED streak
  BY DEF Respond, WaitTurn, Diagnose, Plan, Repaired, Blocked, Verify, GiveTurn, Close,
         watchVars
<1>1. CASE WaitTurn \/ GiveTurn
  <2>1. UNCHANGED <<enabled, trigger, Course>>
    BY <1>1 DEF WaitTurn, GiveTurn, pilotVars, Course
  <2> QED
    BY <1>0, <2>1, DeskStutter
<1>2. CASE Close
  <2>1. /\ stage = "closing" /\ stage' = "none" /\ trigger' = "none"
        /\ enabled' = (enabled /\ outcome = "resolved")
    BY <1>2 DEF Close, Pauses
  <2>2. Course' = "none"
    BY <2>1 DEF Course
  <2>3. /\ Course \in {"recovered", "lost"}
        /\ (Course = "recovered") <=> (outcome = "resolved")
    BY <2>1 DEF Course
  <2>4. Desk!Close
    BY <1>0, <2>1, <2>2, <2>3 DEF Desk!Close
  <2> QED
    BY <2>4 DEF Desk!DeskNext
<1>3. ASSUME <<Course, Course'>> \in Desk!Steps, UNCHANGED <<enabled, trigger>>
      PROVE  Desk!DeskNext
  <2>1. Course' \in Desk!Courses
    BY <1>3 DEF Desk!Steps, Desk!Courses
  <2>2. Desk!Advance(Course')
    BY <1>0, <1>3 DEF Desk!Advance
  <2> QED
    BY <2>1, <2>2 DEF Desk!DeskNext
<1>4. CASE \E b \in Budgets \cup {MaxAtomic} : Diagnose(b)
  <2>1. UNCHANGED <<enabled, trigger>> /\ stage = "opened" /\ Course = "diagnosing"
    BY <1>4 DEF Diagnose, Course
  <2>2. stage' = "diagnosing" \/ (stage' = "returned" /\ outcome' = "unresolved")
    BY <1>4 DEF Diagnose, Return
  <2>3. CASE stage' = "diagnosing"
    <3>1. UNCHANGED Course
      BY <2>1, <2>3 DEF Course
    <3> QED
      BY <1>0, <2>1, <3>1, DeskStutter
  <2>4. CASE stage' = "returned" /\ outcome' = "unresolved"
    <3>1. Course' = "lost"
      BY <2>4 DEF Course
    <3> QED
      BY <1>3, <2>1, <3>1 DEF Desk!Steps
  <2> QED
    BY <2>2, <2>3, <2>4
<1>5. CASE \E n \in 0..MaxActions : Plan(n)
  <2>1. UNCHANGED <<enabled, trigger>> /\ stage = "diagnosing" /\ Course = "diagnosing"
    BY <1>5 DEF Plan, Course
  <2>2. stage' = "fixing" \/ (stage' = "returned" /\ outcome' = "unresolved")
    BY <1>5 DEF Plan, Return
  <2>3. Course' \in {"fixing", "lost"}
    BY <2>2 DEF Course
  <2> QED
    BY <1>3, <2>1, <2>3 DEF Desk!Steps
<1>6. CASE Repaired
  <2>1. UNCHANGED <<enabled, trigger, outcome>> /\ stage = "fixing" /\ Course = "fixing"
    BY <1>6 DEF Repaired, Course
  <2>2. stage' = "verifying" \/ stage' = stage
    BY <1>6 DEF Repaired
  <2>3. CASE stage' = stage
    BY <1>0, <2>1, <2>3, DeskStutter DEF Course
  <2>4. CASE stage' = "verifying"
    <3>1. Course' = "verifying"
      BY <2>4 DEF Course
    <3> QED
      BY <1>3, <2>1, <3>1 DEF Desk!Steps
  <2> QED
    BY <2>2, <2>3, <2>4
<1>7. CASE Blocked \/ Verify
  <2>1. /\ UNCHANGED <<enabled, trigger>> /\ stage' = "returned"
        /\ \/ stage = "fixing" /\ outcome' = "unresolved"
           \/ stage = "verifying" /\ outcome' \in {"resolved", "unresolved"}
    BY <1>7 DEF Blocked, Verify, Return
  <2>2. <<Course, Course'>> \in Desk!Steps
    BY <2>1 DEF Course, Desk!Steps
  <2> QED
    BY <1>3, <2>1, <2>2
<1> QED
  BY <1>1, <1>2, <1>4, <1>5, <1>6, <1>7 DEF Respond

\* The owner's steps, and everyone else's.
LEMMA DeskStep ==
  ASSUME IInv, OpenInv, [Next]_vars
  PROVE  [Desk!DeskNext]_(Desk!deskVars)
<1>1. CASE Watch
  BY <1>1, WatchSteps
<1>2. CASE Respond
  BY <1>2, RespondSteps
<1>3. CASE RespondNow
  <2>1. /\ streak > 0 /\ stage = "none" /\ UNCHANGED <<enabled, streak>>
        /\ stage' = "opened" /\ trigger' = "manual"
    BY <1>3 DEF RespondNow, OpenIncident, watchVars
  <2>2. trigger = "none" /\ Course' = "diagnosing"
    BY <2>1 DEF OpenInv, Course
  <2>3. Desk!OpenAsked
    BY <2>1, <2>2 DEF Desk!OpenAsked, Desk!Open
  <2> QED
    BY <2>3 DEF Desk!DeskNext
<1>4. ASSUME NEW on \in BOOLEAN, Toggle(on)
      PROVE  Desk!DeskNext
  <2>1. enabled' = on /\ UNCHANGED <<streak, trigger, Course>>
    BY <1>4 DEF Toggle, watchVars, pilotVars, Course
  <2>2. Desk!Switch(on)
    BY <2>1 DEF Desk!Switch
  <2> QED
    BY <2>2 DEF Desk!DeskNext
<1>5. CASE Buying \/ Gateways \/ Tick \/ EndRun \/ (\E b \in Budgets : StartRun(b)) \/ UNCHANGED vars
  <2>1. UNCHANGED <<enabled, streak, trigger, Course>>
    BY <1>5 DEF Buying, Gateways, Elsewhere, Tick, EndRun, StartRun, watchVars, pilotVars,
                vars, Course
  <2> QED
    BY <2>1, DeskStutter
<1> QED
  BY <1>1, <1>2, <1>3, <1>4, <1>5 DEF Next

\* autopilot.rs:1-20.  For any plan, prices and timing, and however runs,
\* queues and lost answers interleave with it, the autopilot is one that
\* IncidentDesk allows: no repair without a diagnosis, nothing resolved that
\* was not seen healthy, and off after anything else.
THEOREM AutopilotKeepsItsPromise == Spec => ImplementsDesk
<1>1. Init => OpenInv /\ Desk!DeskInit
  BY DEF Init, OpenInv, Desk!DeskInit, Course
<1>2. Spec => []OpenInv
  BY <1>1, OpenStep, PTL DEF Spec
<1> QED
  BY <1>1, <1>2, AutopilotInvariant, DeskStep, PTL DEF Spec, ImplementsDesk, Desk!DeskSpec
=============================================================================
