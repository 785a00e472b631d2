---------------------------- MODULE GatewayProofs ----------------------------
(***************************************************************************)
(* Theorems about Gateway for every set of quotes, requests and agents:    *)
(* types, the inductive invariant behind the payment properties, and the   *)
(* step simulation that makes it an implementation of QuoteContract.       *)
(***************************************************************************)
EXTENDS Gateway, Totals

\* A request in progress names a quote that was issued, and an agent.
RequestInv ==
  \A r \in Requests :
    pc[r] # "idle" =>
      /\ target[r] \in Quotes
      /\ sender[r] \in Agents
      /\ store[target[r]] # "unissued"

TypeInv == TypeOK /\ RequestInv

\* The model's sums are the totals of the lemmas.
LEMMA SumIsTotal == \A f, S : Sum(f, S) = Total(f, S)
BY DEF Sum, Total

\* What others settled costs a natural number, and less of it costs less.
LEMMA ElsewhereSums ==
  ASSUME NEW K \in SUBSET Others, NEW L \in SUBSET K, NEW n
  PROVE  /\ Total(Bought, Under(K, n)) \in Nat
         /\ Total(Bought, Under(L, n)) \in Nat
         /\ Total(Bought, Under(L, n)) <= Total(Bought, Under(K, n))
<1>1. /\ IsFiniteSet(Under(K, n)) /\ IsFiniteSet(Under(L, n))
      /\ Under(L, n) \subseteq Under(K, n)
  BY FS_Subset, GatewayAssumption DEF Under
<1>2. \A x \in Under(K, n) : Bought[x] \in Nat
  BY GatewayAssumption DEF Under
<1> QED
  BY <1>1, <1>2, TotalType, TotalMonotone

\* What is heard now and what is not add up.
LEMMA ElsewhereSplits ==
  ASSUME NEW K \in SUBSET Others, NEW L \in SUBSET (Others \ K), NEW n
  PROVE  Total(Bought, Under(K \cup L, n))
           = Total(Bought, Under(K, n)) + Total(Bought, Under(L, n))
<1>1. /\ IsFiniteSet(Under(K, n)) /\ IsFiniteSet(Under(L, n))
      /\ Under(K, n) \cap Under(L, n) = {}
      /\ Under(K \cup L, n) = Under(K, n) \cup Under(L, n)
  BY FS_Subset, GatewayAssumption DEF Under
<1>2. \A x \in Under(K, n) \cup Under(L, n) : Bought[x] \in Nat
  BY GatewayAssumption DEF Under
<1>3. Total(Bought, Under(K, n) \cup Under(L, n))
        = Total(Bought, Under(K, n)) + Total(Bought, Under(L, n))
  BY <1>1, <1>2, TotalUnion
<1> QED
  BY <1>1, <1>3

\* Types are right at the start.
LEMMA TypeInvInit == Init => TypeInv
BY GatewayAssumption
DEF Init, TypeInv, TypeOK, RequestInv, Steps, Closed, NoSpend

\* Every step keeps the types, and what a request names.
LEMMA TypeInvStep ==
  ASSUME TypeInv, [Next]_vars
  PROVE  TypeInv'
<1> USE GatewayAssumption
    DEF TypeInv, TypeOK, RequestInv, Steps, Closed, NoSpend, Advance,
        storeVars, settingVars, inputVars, readVars, moneyVars, historyVars
<1>1. ASSUME NEW q \in Quotes, Issue(q)
      PROVE  TypeInv'
  BY <1>1 DEF Issue
<1>2. ASSUME NEW q \in Quotes, Age(q)
      PROVE  TypeInv'
  BY <1>2 DEF Age
<1>3. ASSUME NEW r \in Requests, NEW q \in Quotes, NEW a \in Agents, Gate(r, q, a)
      PROVE  TypeInv'
  BY <1>3 DEF Gate
<1>4. ASSUME NEW r \in Requests, ReadSpent(r)
      PROVE  TypeInv'
  <2>1. PICK news \in SUBSET (elsewhere \ heard) : Replay(news)
    BY <1>4 DEF ReadSpent
  <2>2. \A n \in Names : spent[n] + Sum(Bought, Under(news, n)) \in Nat
    <3>1. news \in SUBSET Others /\ news \in SUBSET news
      BY <2>1
    <3>2. \A n \in Names : Total(Bought, Under(news, n)) \in Nat
      BY <3>1, ElsewhereSums
    <3> QED
      BY <3>2, SumIsTotal
  <2>3. /\ spent' \in [Names -> Nat]
        /\ heard' \in SUBSET Others
    BY <2>1, <2>2 DEF Replay
  <2> QED
    BY <1>4, <2>3 DEF ReadSpent
<1>5. ASSUME NEW r \in Requests, Decide(r)
      PROVE  TypeInv'
  <2>1. /\ pc' \in [Requests -> Steps]
        /\ pc[r] = "weighed"
        /\ \A x \in Requests : pc'[x] # "idle" => pc[x] # "idle"
    BY <1>5 DEF Decide
  <2>2. /\ target[r] \in Quotes
        /\ sender[r] \in Agents
    BY <2>1
  <2>3. path' \in [Quotes -> Agents \cup {NoAgent}]
    BY <1>5, <2>2 DEF Decide, RecordMandatePath
  <2>4. snapshot' \in [Requests -> [Names -> Nat]]
    BY <1>5 DEF Decide
  <2>5. approvals' \in SUBSET (Quotes \X Agents)
    BY <1>5, <2>2 DEF Decide
  <2> QED
    BY <1>5, <2>1, <2>3, <2>4, <2>5 DEF Decide
<1>6. ASSUME NEW r \in Requests, PriceRequest(r)
      PROVE  TypeInv'
  BY <1>6 DEF PriceRequest
<1>7. ASSUME NEW r \in Requests, Redeem(r)
      PROVE  TypeInv'
  <2>1. CASE Redeemable(target[r])
    <3>1. /\ store' = [store EXCEPT ![target[r]] = "redeemed"]
          /\ pc' = [pc EXCEPT ![r] = "working"]
          /\ pc[r] # "idle"
          /\ UNCHANGED <<target, sender>>
      BY <1>7, <2>1 DEF Redeem
    <3>2. RequestInv'
      BY <3>1
    <3>3. TypeOK'
      BY <1>7, <2>1, <3>1 DEF Redeem
    <3> QED
      BY <3>2, <3>3
  <2>2. CASE ~Redeemable(target[r])
    BY <1>7, <2>2 DEF Redeem
  <2> QED
    BY <2>1, <2>2
<1>8. ASSUME NEW r \in Requests, Work(r)
      PROVE  TypeInv'
  BY <1>8 DEF Work
<1>9. ASSUME NEW r \in Requests, AskToSettle(r) \/ Facilitate(r) \/ Settle(r)
      PROVE  TypeInv'
  <2>1. CASE AskToSettle(r)
    BY <2>1 DEF AskToSettle
  <2>2. CASE Facilitate(r)
    <3>1. /\ transfer' \in [Requests -> {"none", "asked", "refused", "settled"}]
          /\ UNCHANGED <<guarded, store, expired, path, pc, target, sender, snapshot, carried,
                        live, spent, heard, elsewhere, verified, runs, known, approvals>>
      BY <2>2 DEF Facilitate
    <3> QED
      BY <3>1
  <2>3. CASE Settle(r)
    BY <2>3 DEF Settle
  <2> QED
    BY <1>9, <2>1, <2>2, <2>3
<1>10. ASSUME NEW r \in Requests, BuildReceipt(r)
      PROVE  TypeInv'
  BY <1>10 DEF BuildReceipt
<1>11. ASSUME NEW r \in Requests, RecordReceipt(r)
      PROVE  TypeInv'
  BY <1>11 DEF RecordReceipt
<1>12. ASSUME NEW r \in Requests, Disconnect(r)
      PROVE  TypeInv'
  BY <1>12 DEF Disconnect, InFlight
<1>13. ASSUME NEW n \in Names, Revoke(n) \/ Seed(n)
      PROVE  TypeInv'
  BY <1>13 DEF Revoke, Seed
<1>14. ASSUME NEW x \in Others, SettleElsewhere(x)
      PROVE  TypeInv'
  BY <1>14 DEF SettleElsewhere
<1>15. CASE UNCHANGED vars
  BY <1>15 DEF vars
<1> QED
  BY <1>1, <1>2, <1>3, <1>4, <1>5, <1>6, <1>7, <1>8, <1>9, <1>10, <1>11, <1>12, <1>13, <1>14,
     <1>15
  DEF Next, Serve

\* Every variable keeps its type, whatever the mandates, prices and budgets.
THEOREM TypeCorrect == Spec => []TypeOK
<1>1. Spec => []TypeInv
  BY TypeInvInit, TypeInvStep, PTL DEF Spec
<1> QED
  BY <1>1, PTL DEF TypeInv

-----------------------------------------------------------------------------
(***************************************************************************)
(* Payment.  No handler works unpaid because once the x402 layer has found *)
(* no price the quote stays unredeemable, whatever happens meanwhile; and  *)
(* only one works because a run leaves its quote redeemed or purged.       *)
(***************************************************************************)

\* A request whose handler has not got past redeem().
Unstarted == {"idle", "gated", "weighed", "allowed", "verified", "unpriced",
              "rejected", "refused", "challenged"}

\* What was verified, and what its quote has become, at each stage.
PayInv ==
  /\ \A r \in Requests : pc[r] = "unpriced" => ~Redeemable(target[r])
  /\ \A r \in Requests : pc[r] = "verified" => r \in verified
  /\ \A r \in runs : /\ r \in verified
                     /\ pc[r] \notin Unstarted
                     /\ store[target[r]] \in {"redeemed", "purged"}
  /\ \A r1, r2 \in runs : target[r1] = target[r2] => r1 = r2

\* Every step keeps payment ahead of work.
LEMMA PayInvStep ==
  ASSUME TypeInv, PayInv, [Next]_vars
  PROVE  PayInv'
<1> USE DEF PayInv, TypeInv, TypeOK, RequestInv, Unstarted, Redeemable, Advance,
        storeVars, settingVars, inputVars, readVars, moneyVars, historyVars
<1>1. ASSUME NEW q \in Quotes, Issue(q)
      PROVE  PayInv'
  BY <1>1 DEF Issue, Stale, Stored
<1>2. ASSUME NEW q \in Quotes, Age(q)
      PROVE  PayInv'
  BY <1>2 DEF Age, Stored
<1>3. ASSUME NEW r \in Requests, NEW q \in Quotes, NEW a \in Agents, Gate(r, q, a)
      PROVE  PayInv'
  BY <1>3 DEF Gate
<1>4. ASSUME NEW r \in Requests, ReadSpent(r)
      PROVE  PayInv'
  BY <1>4 DEF ReadSpent
<1>5. ASSUME NEW r \in Requests, Decide(r)
      PROVE  PayInv'
  BY <1>5 DEF Decide
<1>6. ASSUME NEW r \in Requests, PriceRequest(r)
      PROVE  PayInv'
  BY <1>6 DEF PriceRequest, Priced
<1>7. ASSUME NEW r \in Requests, Redeem(r)
      PROVE  PayInv'
  <2>1. CASE ~Redeemable(target[r])
    BY <1>7, <2>1 DEF Redeem
  <2>2. CASE Redeemable(target[r])
    <3>1. /\ r \in verified
          /\ target[r] \in Quotes
          /\ \A x \in runs : target[x] # target[r]
      BY <1>7, <2>2 DEF Redeem
    <3>2. /\ store' = [store EXCEPT ![target[r]] = "redeemed"]
          /\ pc' = [pc EXCEPT ![r] = "working"]
          /\ runs' = runs \cup {r}
          /\ UNCHANGED <<target, verified, expired>>
      BY <1>7, <2>2 DEF Redeem
    <3>3. \A q \in Quotes : store'[q] = "open" => store[q] = "open"
      BY <3>1, <3>2
    <3>4. \A x \in Requests : pc'[x] = "unpriced" => ~Redeemable(target[x])'
      BY <3>2, <3>3
    <3>5. \A x \in runs' : store'[target'[x]] \in {"redeemed", "purged"}
      BY <3>1, <3>2
    <3> QED
      BY <3>1, <3>2, <3>4, <3>5
  <2> QED
    BY <2>1, <2>2
<1>8. ASSUME NEW r \in Requests, Work(r)
      PROVE  PayInv'
  BY <1>8 DEF Work
<1>9. ASSUME NEW r \in Requests, AskToSettle(r) \/ Facilitate(r) \/ Settle(r)
      PROVE  PayInv'
  BY <1>9 DEF AskToSettle, Facilitate, Settle
<1>10. ASSUME NEW r \in Requests, BuildReceipt(r)
      PROVE  PayInv'
  BY <1>10 DEF BuildReceipt
<1>11. ASSUME NEW r \in Requests, RecordReceipt(r)
      PROVE  PayInv'
  BY <1>11 DEF RecordReceipt
<1>12. ASSUME NEW r \in Requests, Disconnect(r)
      PROVE  PayInv'
  BY <1>12 DEF Disconnect, InFlight
<1>13. ASSUME NEW n \in Names, Revoke(n) \/ Seed(n)
      PROVE  PayInv'
  BY <1>13 DEF Revoke, Seed
<1>14. ASSUME NEW x \in Others, SettleElsewhere(x)
      PROVE  PayInv'
  BY <1>14 DEF SettleElsewhere
<1>15. CASE UNCHANGED vars
  BY <1>15 DEF vars
<1> QED
  BY <1>1, <1>2, <1>3, <1>4, <1>5, <1>6, <1>7, <1>8, <1>9, <1>10, <1>11, <1>12, <1>13, <1>14,
     <1>15
  DEF Next, Serve

\* No handler does paid work for a request whose payment was not verified.
THEOREM WorkIsPaid == Spec => []NoUnpaidWork
<1>1. Init => TypeInv /\ PayInv
  BY TypeInvInit DEF Init, PayInv
<1>2. TypeInv /\ PayInv /\ [Next]_vars => (TypeInv /\ PayInv)'
  BY TypeInvStep, PayInvStep
<1>3. PayInv => NoUnpaidWork
  BY DEF PayInv, NoUnpaidWork
<1> QED
  BY <1>1, <1>2, <1>3, PTL DEF Spec

\* However many requests race for a quote, at most one runs.
THEOREM QuoteRunsOnce == Spec => []OneRunPerQuote
<1>1. Init => TypeInv /\ PayInv
  BY TypeInvInit DEF Init, PayInv
<1>2. TypeInv /\ PayInv /\ [Next]_vars => (TypeInv /\ PayInv)'
  BY TypeInvStep, PayInvStep
<1>3. PayInv => OneRunPerQuote
  BY DEF PayInv, OneRunPerQuote
<1> QED
  BY <1>1, <1>2, <1>3, PTL DEF Spec

-----------------------------------------------------------------------------
(***************************************************************************)
(* Attribution.  Every path an entry ever holds was approved for that very *)
(* quote, and a receipt copies what the entry holds.                       *)
(***************************************************************************)

\* Paths held by entries and by receipts are approved ones.
BillInv ==
  /\ \A q \in Quotes : path[q] # NoAgent => <<q, path[q]>> \in approvals
  /\ BilledChainWasApproved
  /\ \A r \in Requests : pc[r] = "idle" => carried[r] = NoAgent

\* Every step keeps the paths approved.
LEMMA BillInvStep ==
  ASSUME TypeInv, BillInv, [Next]_vars
  PROVE  BillInv'
<1> USE DEF BillInv, BilledChainWasApproved, TypeInv, TypeOK, RequestInv, Advance,
        storeVars, settingVars, inputVars, readVars, moneyVars, historyVars
<1>1. ASSUME NEW q \in Quotes, Issue(q)
      PROVE  BillInv'
  BY <1>1 DEF Issue, Stale, Stored
<1>2. ASSUME NEW q \in Quotes, Age(q)
      PROVE  BillInv'
  BY <1>2 DEF Age, Stored
<1>3. ASSUME NEW r \in Requests, NEW q \in Quotes, NEW a \in Agents, Gate(r, q, a)
      PROVE  BillInv'
  BY <1>3 DEF Gate
<1>4. ASSUME NEW r \in Requests, ReadSpent(r)
      PROVE  BillInv'
  BY <1>4 DEF ReadSpent
<1>5. ASSUME NEW r \in Requests, Decide(r)
      PROVE  BillInv'
  BY <1>5 DEF Decide, RecordMandatePath, Stored
<1>6. ASSUME NEW r \in Requests, PriceRequest(r)
      PROVE  BillInv'
  BY <1>6 DEF PriceRequest, Priced
<1>7. ASSUME NEW r \in Requests, Redeem(r)
      PROVE  BillInv'
  BY <1>7 DEF Redeem
<1>8. ASSUME NEW r \in Requests, Work(r)
      PROVE  BillInv'
  BY <1>8 DEF Work
<1>9. ASSUME NEW r \in Requests, AskToSettle(r) \/ Facilitate(r) \/ Settle(r)
      PROVE  BillInv'
  BY <1>9 DEF AskToSettle, Facilitate, Settle
<1>10. ASSUME NEW r \in Requests, BuildReceipt(r)
      PROVE  BillInv'
  BY <1>10 DEF BuildReceipt
<1>11. ASSUME NEW r \in Requests, RecordReceipt(r)
      PROVE  BillInv'
  BY <1>11 DEF RecordReceipt
<1>12. ASSUME NEW r \in Requests, Disconnect(r)
      PROVE  BillInv'
  BY <1>12 DEF Disconnect, InFlight
<1>13. ASSUME NEW n \in Names, Revoke(n) \/ Seed(n)
      PROVE  BillInv'
  BY <1>13 DEF Revoke, Seed
<1>14. ASSUME NEW x \in Others, SettleElsewhere(x)
      PROVE  BillInv'
  BY <1>14 DEF SettleElsewhere
<1>15. CASE UNCHANGED vars
  BY <1>15 DEF vars
<1> QED
  BY <1>1, <1>2, <1>3, <1>4, <1>5, <1>6, <1>7, <1>8, <1>9, <1>10, <1>11, <1>12, <1>13, <1>14,
     <1>15
  DEF Next, Serve

\* A receipt never bills a chain the gate did not approve for its quote.
THEOREM BillingIsApproved == Spec => []BilledChainWasApproved
<1>1. Init => TypeInv /\ BillInv
  BY TypeInvInit DEF Init, BillInv, BilledChainWasApproved
<1>2. TypeInv /\ BillInv /\ [Next]_vars => (TypeInv /\ BillInv)'
  BY TypeInvStep, BillInvStep
<1> QED
  BY <1>1, <1>2, PTL DEF Spec, BillInv

-----------------------------------------------------------------------------
(***************************************************************************)
(* Refinement: every step of the gateway is a step of the quote contract,  *)
(* or leaves every quote's phase alone.                                    *)
(***************************************************************************)

\* Where a charged or working request can be.
ChargeInv ==
  /\ \A r \in Requests : transfer[r] # "none" =>
       /\ r \in runs
       /\ pc[r] \in {"settling", "settled", "unsettled", "noted", "done", "aborted"}
  /\ \A r \in Requests : pc[r] \in {"working", "served"} => r \in runs
  /\ \A q \in Quotes : store[q] = "unissued" => ~expired[q]

\* Every step keeps charges behind served runs.
LEMMA ChargeInvStep ==
  ASSUME TypeInv, ChargeInv, [Next]_vars
  PROVE  ChargeInv'
<1> USE DEF ChargeInv, TypeInv, TypeOK, RequestInv, Closed, Advance,
        storeVars, settingVars, inputVars, readVars, moneyVars, historyVars
<1>1. ASSUME NEW q \in Quotes, Issue(q)
      PROVE  ChargeInv'
  BY <1>1 DEF Issue, Stale, Stored
<1>2. ASSUME NEW q \in Quotes, Age(q)
      PROVE  ChargeInv'
  BY <1>2 DEF Age, Stored
<1>3. ASSUME NEW r \in Requests, NEW q \in Quotes, NEW a \in Agents, Gate(r, q, a)
      PROVE  ChargeInv'
  BY <1>3 DEF Gate
<1>4. ASSUME NEW r \in Requests, ReadSpent(r)
      PROVE  ChargeInv'
  BY <1>4 DEF ReadSpent
<1>5. ASSUME NEW r \in Requests, Decide(r)
      PROVE  ChargeInv'
  BY <1>5 DEF Decide
<1>6. ASSUME NEW r \in Requests, PriceRequest(r)
      PROVE  ChargeInv'
  BY <1>6 DEF PriceRequest, Priced
<1>7. ASSUME NEW r \in Requests, Redeem(r)
      PROVE  ChargeInv'
  BY <1>7 DEF Redeem, Redeemable
<1>8. ASSUME NEW r \in Requests, Work(r)
      PROVE  ChargeInv'
  BY <1>8 DEF Work
<1>9. ASSUME NEW r \in Requests, AskToSettle(r) \/ Facilitate(r) \/ Settle(r)
      PROVE  ChargeInv'
  BY <1>9 DEF AskToSettle, Facilitate, Settle
<1>10. ASSUME NEW r \in Requests, BuildReceipt(r)
      PROVE  ChargeInv'
  BY <1>10 DEF BuildReceipt
<1>11. ASSUME NEW r \in Requests, RecordReceipt(r)
      PROVE  ChargeInv'
  BY <1>11 DEF RecordReceipt
<1>12. ASSUME NEW r \in Requests, Disconnect(r)
      PROVE  ChargeInv'
  BY <1>12 DEF Disconnect, InFlight
<1>13. ASSUME NEW n \in Names, Revoke(n) \/ Seed(n)
      PROVE  ChargeInv'
  BY <1>13 DEF Revoke, Seed
<1>14. ASSUME NEW x \in Others, SettleElsewhere(x)
      PROVE  ChargeInv'
  BY <1>14 DEF SettleElsewhere
<1>15. CASE UNCHANGED vars
  BY <1>15 DEF vars
<1> QED
  BY <1>1, <1>2, <1>3, <1>4, <1>5, <1>6, <1>7, <1>8, <1>9, <1>10, <1>11, <1>12, <1>13, <1>14,
     <1>15
  DEF Next, Serve

\* A quote's phase depends on the runs that claim it and on its entry.
LEMMA SamePhase ==
  ASSUME NEW q,
         Claimed(q, Charged)' <=> Claimed(q, Charged),
         Claimed(q, InDoubt)' <=> Claimed(q, InDoubt),
         Claimed(q, AtWork)' <=> Claimed(q, AtWork),
         Claimed(q, runs)' <=> Claimed(q, runs),
         ~Claimed(q, runs) =>
           /\ store'[q] = "unissued" <=> store[q] = "unissued"
           /\ Priced(q)' <=> Priced(q)
  PROVE  PhaseOf(q)' = PhaseOf(q)
BY DEF PhaseOf

\* When one quote's phase changes, that is a move of the contract.
LEMMA OneMove ==
  ASSUME NEW q \in Quotes, NEW from, NEW to,
         PhaseOf(q) = from, PhaseOf(q)' = to,
         \A x \in Quotes \ {q} : PhaseOf(x)' = PhaseOf(x)
  PROVE  Contract!Move(q, from, to)
BY DEF Contract!Move, phase

\* If no quote moves, neither does the contract.
LEMMA NoMove ==
  ASSUME \A q \in Quotes : PhaseOf(q)' = PhaseOf(q)
  PROVE  UNCHANGED phase
BY DEF phase

\* Runs are charged, in doubt and at work; nobody else is.
LEMMA RunsOnly ==
  ASSUME ChargeInv
  PROVE  Charged \subseteq runs /\ InDoubt \subseteq runs /\ AtWork \subseteq runs
BY DEF ChargeInv, Charged, InDoubt, AtWork

\* What claims a quote is what its runs are doing.
LEMMA SameClaims ==
  ASSUME TypeInv, ChargeInv, UNCHANGED runs, NEW q,
         \A r \in runs :
           /\ target'[r] = target[r]
           /\ target[r] = q =>
                transfer'[r] = transfer[r] /\ (r \in AtWork' <=> r \in AtWork),
         ChargeInv'
  PROVE  /\ Claimed(q, Charged)' <=> Claimed(q, Charged)
         /\ Claimed(q, InDoubt)' <=> Claimed(q, InDoubt)
         /\ Claimed(q, AtWork)' <=> Claimed(q, AtWork)
         /\ Claimed(q, runs)' <=> Claimed(q, runs)
<1>1. /\ Charged \subseteq runs /\ Charged' \subseteq runs
      /\ AtWork \subseteq runs /\ AtWork' \subseteq runs
      /\ runs \subseteq Requests
  BY DEF ChargeInv, Charged, AtWork, TypeInv, TypeOK
<1> QED
  BY <1>1 DEF Claimed, Charged, InDoubt

\* A step that starts no run, moves no transfer and no run in or out of its
\* handler leaves every phase alone, if it leaves the entries alone.
LEMMA QuietStep ==
  ASSUME TypeInv, ChargeInv, ChargeInv',
         UNCHANGED <<runs, transfer, store, expired>>,
         \A r \in runs : /\ target'[r] = target[r]
                         /\ r \in AtWork' <=> r \in AtWork
  PROVE  UNCHANGED phase
<1>1. ASSUME NEW q \in Quotes
      PROVE  PhaseOf(q)' = PhaseOf(q)
  <2>1. Priced(q)' <=> Priced(q)
    BY DEF Priced
  <2> QED
    BY <2>1, SameClaims, SamePhase
<1> QED
  BY <1>1, NoMove

\* A step of one run r: only the phase of r's quote can change.
LEMMA RunStep ==
  ASSUME TypeInv, PayInv, ChargeInv, ChargeInv',
         NEW r \in runs, NEW p \in Quotes, target[r] = p,
         UNCHANGED <<runs, target, store, expired>>,
         \A x \in runs \ {r} : /\ transfer'[x] = transfer[x]
                               /\ x \in AtWork' <=> x \in AtWork
  PROVE  /\ \A q \in Quotes \ {p} : PhaseOf(q)' = PhaseOf(q)
         /\ PhaseOf(p) = IF transfer[r] = "settled" THEN "charged"
                         ELSE IF transfer[r] = "asked" THEN "settling"
                         ELSE IF r \in AtWork THEN "running" ELSE "forfeited"
         /\ PhaseOf(p)' = IF transfer'[r] = "settled" THEN "charged"
                          ELSE IF transfer'[r] = "asked" THEN "settling"
                          ELSE IF r \in AtWork' THEN "running" ELSE "forfeited"
<1>1. ASSUME NEW q \in Quotes \ {p}
      PROVE  PhaseOf(q)' = PhaseOf(q)
  <2>1. Priced(q)' <=> Priced(q)
    BY DEF Priced
  <2>2. \A x \in runs : target[x] = q => x # r
    BY <1>1
  <2> QED
    BY <2>1, <2>2, SameClaims, SamePhase
<1>2. \A x \in runs : target[x] = p => x = r
  BY DEF PayInv
<1>3. r \in Requests /\ Charged \subseteq runs /\ Charged' \subseteq runs
  BY DEF ChargeInv, Charged, TypeInv, TypeOK
<1>4. /\ Claimed(p, Charged) <=> transfer[r] = "settled"
      /\ Claimed(p, InDoubt) <=> transfer[r] = "asked"
      /\ Claimed(p, AtWork) <=> r \in AtWork
      /\ Claimed(p, runs)
  BY <1>2, <1>3 DEF Claimed, Charged, InDoubt, AtWork
<1>5. /\ Claimed(p, Charged)' <=> transfer'[r] = "settled"
      /\ Claimed(p, InDoubt)' <=> transfer'[r] = "asked"
      /\ Claimed(p, AtWork)' <=> r \in AtWork'
      /\ Claimed(p, runs)'
  BY <1>2, <1>3 DEF Claimed, Charged, InDoubt, AtWork
<1> QED
  BY <1>1, <1>4, <1>5 DEF PhaseOf

\* Every step of the gateway is a step of the contract, or none of its own.
LEMMA Simulation ==
  ASSUME TypeInv, PayInv, ChargeInv, ChargeInv', [Next]_vars
  PROVE  [Contract!Next]_phase
<1> USE DEF Advance, storeVars, settingVars, inputVars, readVars, moneyVars, historyVars
<1>1. ASSUME NEW q \in Quotes, Issue(q)
      PROVE  Contract!Issue(q)
  <2>1. /\ UNCHANGED <<runs, transfer, target, pc, expired>>
        /\ store[q] = "unissued" /\ store'[q] = "open" /\ ~expired[q]
        /\ \A x \in Quotes \ {q} : store'[x] = IF Stale(x) THEN "purged" ELSE store[x]
    BY <1>1 DEF Issue, ChargeInv, TypeInv, TypeOK
  <2>2. ~Claimed(q, runs)
    BY <2>1 DEF Claimed, PayInv
  <2>3. ~Claimed(q, Charged) /\ ~Claimed(q, InDoubt) /\ ~Claimed(q, AtWork)
    BY <2>2, RunsOnly DEF Claimed
  <2>4. ASSUME NEW x \in Quotes
        PROVE  /\ Claimed(x, Charged)' <=> Claimed(x, Charged)
               /\ Claimed(x, InDoubt)' <=> Claimed(x, InDoubt)
               /\ Claimed(x, AtWork)' <=> Claimed(x, AtWork)
               /\ Claimed(x, runs)' <=> Claimed(x, runs)
    BY <2>1 DEF Claimed, Charged, InDoubt, AtWork
  <2>5. PhaseOf(q) = "unissued" /\ PhaseOf(q)' = "open"
    BY <2>1, <2>2, <2>3, <2>4 DEF PhaseOf, Priced
  <2>6. ASSUME NEW x \in Quotes \ {q}
        PROVE  PhaseOf(x)' = PhaseOf(x)
    <3>1. /\ store'[x] = "unissued" <=> store[x] = "unissued"
          /\ Priced(x)' <=> Priced(x)
      BY <2>1, <2>6 DEF Stale, Stored, Priced
    <3> QED
      BY <2>4, <3>1, SamePhase
  <2> QED
    BY <2>5, <2>6, OneMove DEF Contract!Issue
<1>2. ASSUME NEW q \in Quotes, Age(q)
      PROVE  Contract!Lapse(q) \/ UNCHANGED phase
  <2>1. /\ UNCHANGED <<runs, transfer, target, pc, store>>
        /\ expired'[q] /\ ~expired[q] /\ Stored(q)
        /\ \A x \in Quotes \ {q} : expired'[x] = expired[x]
    BY <1>2 DEF Age, TypeInv, TypeOK
  <2>2. ASSUME NEW x \in Quotes
        PROVE  /\ Claimed(x, Charged)' <=> Claimed(x, Charged)
               /\ Claimed(x, InDoubt)' <=> Claimed(x, InDoubt)
               /\ Claimed(x, AtWork)' <=> Claimed(x, AtWork)
               /\ Claimed(x, runs)' <=> Claimed(x, runs)
    BY <2>1 DEF Claimed, Charged, InDoubt, AtWork
  <2>3. ASSUME NEW x \in Quotes \ {q}
        PROVE  PhaseOf(x)' = PhaseOf(x)
    <3>1. Priced(x)' <=> Priced(x)
      BY <2>1, <2>3 DEF Priced
    <3> QED
      BY <2>1, <2>2, <2>3, <3>1, SamePhase
  <2>4. CASE Priced(q) /\ ~Claimed(q, runs)
    <3>1. ~Claimed(q, Charged) /\ ~Claimed(q, InDoubt) /\ ~Claimed(q, AtWork)
      BY <2>4, RunsOnly DEF Claimed
    <3>2. PhaseOf(q) = "open" /\ PhaseOf(q)' = "lapsed"
      BY <2>1, <2>2, <2>4, <3>1 DEF PhaseOf, Priced
    <3> QED
      BY <2>3, <3>2, OneMove DEF Contract!Lapse
  <2>5. CASE ~Priced(q) \/ Claimed(q, runs)
    <3>1. ~Claimed(q, runs) => (Priced(q)' <=> Priced(q))
      BY <2>1, <2>5 DEF Priced
    <3>2. PhaseOf(q)' = PhaseOf(q)
      BY <2>1, <2>2, <3>1, SamePhase
    <3> QED
      BY <2>3, <3>2, NoMove
  <2> QED
    BY <2>4, <2>5
<1>3. ASSUME NEW r \in Requests, NEW q \in Quotes, NEW a \in Agents, Gate(r, q, a)
      PROVE  UNCHANGED phase
  <2>1. r \notin runs
    BY <1>3 DEF Gate, PayInv, Unstarted
  <2>2. \A x \in runs : /\ target'[x] = target[x]
                        /\ pc'[x] = pc[x]
    BY <1>3, <2>1 DEF Gate, TypeInv, TypeOK
  <2> QED
    BY <1>3, <2>2, QuietStep DEF Gate, AtWork
<1>4. ASSUME NEW r \in Requests, ReadSpent(r) \/ Decide(r) \/ PriceRequest(r)
      PROVE  UNCHANGED phase
  <2>1. r \notin runs /\ UNCHANGED <<runs, transfer, store, expired, target>>
    BY <1>4 DEF ReadSpent, Decide, PriceRequest, PayInv, Unstarted
  <2>2. \A x \in runs : pc'[x] = pc[x]
    BY <1>4, <2>1 DEF ReadSpent, Decide, PriceRequest, TypeInv, TypeOK
  <2> QED
    BY <2>1, <2>2, QuietStep DEF AtWork
<1>5. ASSUME NEW r \in Requests, Settle(r) \/ BuildReceipt(r) \/ RecordReceipt(r)
      PROVE  UNCHANGED phase
  <2>1. UNCHANGED <<runs, transfer, store, expired, target>>
    BY <1>5 DEF Settle, BuildReceipt, RecordReceipt
  <2>2. \A x \in runs : pc'[x] \in {"working", "served"} <=> pc[x] \in {"working", "served"}
    BY <1>5 DEF Settle, BuildReceipt, RecordReceipt, TypeInv, TypeOK
  <2> QED
    BY <2>1, <2>2, QuietStep DEF AtWork
<1>6. ASSUME \/ \E n \in Names : Revoke(n) \/ Seed(n)
             \/ \E x \in Others : SettleElsewhere(x)
      PROVE  UNCHANGED phase
  BY <1>6, QuietStep DEF Revoke, Seed, SettleElsewhere, AtWork
<1>7. CASE UNCHANGED vars
  BY <1>7, QuietStep DEF vars, AtWork
<1>8. ASSUME NEW r \in Requests, Redeem(r)
      PROVE  (\E q \in Quotes : Contract!Run(q)) \/ UNCHANGED phase
  <2>1. CASE ~Redeemable(target[r])
    <3>1. r \notin runs /\ UNCHANGED <<runs, transfer, store, expired, target>>
      BY <1>8, <2>1 DEF Redeem, PayInv, Unstarted
    <3>2. \A x \in runs : pc'[x] = pc[x]
      BY <1>8, <2>1, <3>1 DEF Redeem, TypeInv, TypeOK
    <3> QED
      BY <3>1, <3>2, QuietStep DEF AtWork
  <2>2. CASE Redeemable(target[r])
    <3>0. PICK q \in Quotes : q = target[r]
      BY <1>8 DEF Redeem, TypeInv, RequestInv
    <3>1. /\ UNCHANGED <<target, transfer, expired>>
          /\ pc' = [pc EXCEPT ![r] = "working"]
          /\ runs' = runs \cup {r}
          /\ store' = [store EXCEPT ![q] = "redeemed"]
          /\ pc[r] \in {"verified", "unpriced"}
      BY <1>8, <2>2, <3>0 DEF Redeem
    <3>2. /\ r \notin runs
          /\ target[r] = q
          /\ Priced(q) /\ store[q] = "open"
          /\ transfer[r] = "none"
      BY <2>2, <3>0, <3>1 DEF PayInv, Unstarted, Redeemable, Priced, ChargeInv
    <3>3. ~Claimed(q, runs)
      BY <3>2 DEF Claimed, PayInv
    <3>4. ~Claimed(q, Charged) /\ ~Claimed(q, InDoubt) /\ ~Claimed(q, AtWork)
      BY <3>3, RunsOnly DEF Claimed
    <3>5. PhaseOf(q) = "open"
      BY <3>2, <3>3, <3>4 DEF PhaseOf
    <3>6. pc'[r] = "working"
      BY <3>1 DEF TypeInv, TypeOK
    <3>7. Charged' = Charged /\ InDoubt' = InDoubt
      BY <3>1, <3>2 DEF Charged, InDoubt
    <3>8. PhaseOf(q)' = "running"
      <4>1. Claimed(q, AtWork)' /\ ~Claimed(q, Charged)' /\ ~Claimed(q, InDoubt)'
        BY <3>1, <3>2, <3>4, <3>6, <3>7 DEF Claimed, AtWork
      <4> QED
        BY <4>1 DEF PhaseOf
    <3>9. ASSUME NEW x \in Quotes \ {q}
          PROVE  PhaseOf(x)' = PhaseOf(x)
      <4>1. Claimed(x, runs)' <=> Claimed(x, runs)
        BY <3>1, <3>2, <3>9 DEF Claimed
      <4>2. /\ Claimed(x, Charged)' <=> Claimed(x, Charged)
            /\ Claimed(x, InDoubt)' <=> Claimed(x, InDoubt)
        BY <3>1, <3>7 DEF Claimed
      <4>3. \A y \in runs : pc'[y] = pc[y]
        BY <3>1, <3>2 DEF TypeInv, TypeOK
      <4>4. Claimed(x, AtWork)' <=> Claimed(x, AtWork)
        BY <3>1, <3>2, <3>9, <4>3 DEF Claimed, AtWork
      <4>5. store'[x] = store[x]
        BY <3>1, <3>9 DEF TypeInv, TypeOK
      <4>6. Priced(x)' <=> Priced(x)
        BY <3>1, <4>5 DEF Priced
      <4> QED
        BY <4>1, <4>2, <4>4, <4>5, <4>6, SamePhase
    <3> QED
      BY <3>2, <3>5, <3>8, <3>9, OneMove DEF Contract!Run
  <2> QED
    BY <2>1, <2>2
\* Steps of one run after it has redeemed its quote, and of its transfer.
<1>9. ASSUME NEW r \in Requests, Work(r) \/ AskToSettle(r) \/ Facilitate(r)
      PROVE  \/ \E q \in Quotes :
                  \/ Contract!Forfeit(q) \/ Contract!Settle(q)
                  \/ Contract!Charge(q) \/ Contract!Refuse(q)
             \/ UNCHANGED phase
  <2>1. /\ r \in runs
        /\ target[r] \in Quotes
        /\ \/ r \in AtWork /\ transfer[r] = "none"
           \/ r \notin AtWork' /\ transfer[r] = "asked" /\ transfer'[r] \in {"settled", "refused"}
    BY <1>9 DEF Work, AskToSettle, Facilitate, ChargeInv, AtWork, TypeInv, TypeOK, RequestInv
  <2> PICK q \in Quotes : q = target[r]
    BY <2>1
  <2>2. /\ UNCHANGED <<runs, target, store, expired>>
        /\ \A x \in runs \ {r} : /\ transfer'[x] = transfer[x]
                                 /\ x \in AtWork' <=> x \in AtWork
    BY <1>9 DEF Work, AskToSettle, Facilitate, AtWork, TypeInv, TypeOK
  <2>3. transfer'[r] \in {"none", "asked", "settled", "refused"}
    BY <1>9 DEF Work, AskToSettle, Facilitate, TypeInv, TypeOK
  <2>4. /\ \A x \in Quotes \ {q} : PhaseOf(x)' = PhaseOf(x)
        /\ PhaseOf(q) = IF transfer[r] = "settled" THEN "charged"
                        ELSE IF transfer[r] = "asked" THEN "settling"
                        ELSE IF r \in AtWork THEN "running" ELSE "forfeited"
        /\ PhaseOf(q)' = IF transfer'[r] = "settled" THEN "charged"
                         ELSE IF transfer'[r] = "asked" THEN "settling"
                         ELSE IF r \in AtWork' THEN "running" ELSE "forfeited"
    BY <2>1, <2>2, RunStep
  <2>5. CASE r \in AtWork /\ transfer[r] = "none"
    <3>1. transfer'[r] \in {"none", "asked"}
      BY <1>9, <2>5 DEF Work, AskToSettle, Facilitate, TypeInv, TypeOK
    <3>2. PhaseOf(q) = "running" /\ PhaseOf(q)' \in {"settling", "running", "forfeited"}
      BY <2>4, <2>5, <3>1
    <3>3. CASE PhaseOf(q)' = "running"
      BY <2>4, <3>2, <3>3, NoMove
    <3>4. CASE PhaseOf(q)' = "forfeited"
      BY <2>4, <3>2, <3>4, OneMove DEF Contract!Forfeit
    <3>5. CASE PhaseOf(q)' = "settling"
      BY <2>4, <3>2, <3>5, OneMove DEF Contract!Settle
    <3> QED
      BY <3>2, <3>3, <3>4, <3>5
  <2>6. CASE r \notin AtWork' /\ transfer[r] = "asked" /\ transfer'[r] \in {"settled", "refused"}
    <3>1. PhaseOf(q) = "settling" /\ PhaseOf(q)' \in {"charged", "forfeited"}
      BY <2>4, <2>6
    <3>2. CASE PhaseOf(q)' = "charged"
      BY <2>4, <3>1, <3>2, OneMove DEF Contract!Charge
    <3>3. CASE PhaseOf(q)' = "forfeited"
      BY <2>4, <3>1, <3>3, OneMove DEF Contract!Refuse
    <3> QED
      BY <3>1, <3>2, <3>3
  <2> QED
    BY <2>1, <2>5, <2>6
<1>10. ASSUME NEW r \in Requests, Disconnect(r)
       PROVE  (\E q \in Quotes : Contract!Forfeit(q)) \/ UNCHANGED phase
  <2>1. /\ UNCHANGED <<runs, transfer, target, store, expired>>
        /\ \A x \in runs \ {r} : x \in AtWork' <=> x \in AtWork
        /\ r \notin AtWork'
    BY <1>10 DEF Disconnect, AtWork, TypeInv, TypeOK
  <2>2. CASE r \notin AtWork
    BY <2>1, <2>2, QuietStep
  <2>3. CASE r \in AtWork
    <3>1. /\ r \in runs /\ transfer[r] = "none"
          /\ target[r] \in Quotes
      BY <2>3 DEF AtWork, ChargeInv, TypeInv, TypeOK, RequestInv
    <3> PICK q \in Quotes : q = target[r]
      BY <3>1
    <3>2. /\ \A x \in Quotes \ {q} : PhaseOf(x)' = PhaseOf(x)
          /\ PhaseOf(q) = "running"
          /\ PhaseOf(q)' = "forfeited"
      BY <2>1, <2>3, <3>1, RunStep
    <3> QED
      BY <3>1, <3>2, OneMove DEF Contract!Forfeit
  <2> QED
    BY <2>2, <2>3
<1> QED
  <2>1. ASSUME NEW r \in Requests, Serve(r) \/ Facilitate(r) \/ Disconnect(r)
        PROVE  [Contract!Next]_phase
    BY <1>4, <1>5, <1>8, <1>9, <1>10, <2>1
    DEF Serve, Contract!Next, Contract!Step
  <2> QED
    BY <1>1, <1>2, <1>3, <1>6, <1>7, <2>1 DEF Next, Contract!Next, Contract!Step

\* The request path implements the quote contract: one run, then at most one
\* charge, and no charge without that run.
THEOREM ContractHolds == Spec => Contract!Spec
<1>1. Init => TypeInv /\ PayInv /\ ChargeInv
  BY TypeInvInit DEF Init, PayInv, ChargeInv
<1>2. TypeInv /\ PayInv /\ ChargeInv /\ [Next]_vars => (TypeInv /\ PayInv /\ ChargeInv)'
  BY TypeInvStep, PayInvStep, ChargeInvStep
<1>3. Init => Contract!Init
  BY DEF Init, Contract!Init, phase, PhaseOf, Claimed, AtWork, Charged, InDoubt
<1>4. TypeInv /\ PayInv /\ ChargeInv /\ ChargeInv' /\ [Next]_vars => [Contract!Next]_phase
  BY Simulation
<1> QED
  BY <1>1, <1>2, <1>3, <1>4, PTL DEF Spec, Contract!Spec

-----------------------------------------------------------------------------
(***************************************************************************)
(* The overrun.  What a name owes is the quotes recorded under it and      *)
(* those that may yet be: one whose receipt is built, and one that can be  *)
(* or is being run while a request for it has been weighed for that name,  *)
(* or while the path it holds has that name.  Quotes come in only when a   *)
(* request is weighed; then that one fits on top of what is recorded and   *)
(* what is heard of others, so with these a name owes no more than its     *)
(* budget and the others in flight.  What it owes never grows otherwise,   *)
(* and what is charged is owed, or its receipt is lost.                    *)
(***************************************************************************)

\* The quotes whose receipts are recorded under n.
Done == {r \in Requests : pc[r] = "done"}
Rec(n) == {target[r] : r \in {x \in Done : n \in Hops(carried[x])}}

\* The quote can still be redeemed, or the request that did is not settled.
AtRun == {"working", "served", "settling", "settled"}
Payable(q) == store[q] = "open" \/ \E r \in runs : target[r] = q /\ pc[r] \in AtRun

\* r read a total that has room for it under n, which is on its own chain.
FitsIn(r, n) ==
  /\ pc[r] = "weighed"
  /\ n \in Chain[sender[r]]
  /\ snapshot[r][n] + Price[target[r]] <= Budget[n]

\* r was let through, and a receipt built now would bill n.
WouldBill(r, n) ==
  /\ pc[r] \in {"allowed", "verified", "unpriced"} \cup AtRun
  /\ n \in Hops(path[target[r]])

\* r's receipt is built and bills n.
Bills(r, n) == pc[r] = "noted" /\ n \in Hops(carried[r])

\* Requests whose quote may yet be billed to n, and those quotes.
Claimants(n) ==
  {r \in Requests :
     \/ Bills(r, n)
     \/ Payable(target[r]) /\ (FitsIn(r, n) \/ WouldBill(r, n))}
Pending(n) == {target[r] : r \in Claimants(n)}

Owed(n) == Total(Price, Rec(n)) + Total(Price, Pending(n))

\* How much may be owed past a budget, by those who heard of K.
Overrun == (MaxInFlight - 1) * MaxPrice
Bound(n, own, K) == own + Total(Bought, Under(K, n)) <= Budget[n] + Overrun

\* The gate found room under n for r, or will if it decides now.
Checked(r, n) == n \in Chain[sender[r]] /\ (pc[r] = "weighed" => FitsIn(r, n))

\* Requests past redeem() are runs; only a guarded gateway weighs requests,
\* and only what its store holds has a path; no more are in flight than may.
FlightInv ==
  /\ \A r \in Requests : pc[r] \in {"gated", "weighed"} => guarded
  /\ \A r \in Requests : pc[r] \in AtRun \cup {"noted", "done"} => r \in runs
  /\ \A q \in Quotes : path[q] # NoAgent => guarded /\ Stored(q)
  /\ IsFiniteSet(InFlight) /\ Cardinality(InFlight) <= MaxInFlight

\* A total is what is recorded and what is heard; and who heard what.
AccountInv ==
  /\ \A n \in Names : spent[n] = Total(Price, Rec(n)) + Total(Bought, Under(heard, n))
  /\ heard \subseteq elsewhere
  /\ \A r \in Requests : /\ known[r] \subseteq heard
                         /\ pc[r] = "idle" => known[r] = {}

OverrunInv ==
  \A n \in Names :
    /\ Bound(n, Owed(n), {})
    /\ \A r \in Requests : Checked(r, n) => Bound(n, Owed(n), known[r])

\* No request gets in flight but by Gate.
LEMMA FlightShrinks ==
  ASSUME IsFiniteSet(InFlight), Cardinality(InFlight) <= MaxInFlight,
         InFlight' \subseteq InFlight
  PROVE  IsFiniteSet(InFlight') /\ Cardinality(InFlight') <= MaxInFlight
<1>1. IsFiniteSet(InFlight') /\ Cardinality(InFlight') <= Cardinality(InFlight)
  BY FS_Subset
<1>2. Cardinality(InFlight) \in Nat /\ Cardinality(InFlight') \in Nat
  BY <1>1, FS_CardinalityType
<1> QED
  BY <1>1, <1>2, GatewayAssumption

\* Gate lets one in while there is room.
LEMMA FlightGrows ==
  ASSUME IsFiniteSet(InFlight), Cardinality(InFlight) < MaxInFlight,
         NEW r, InFlight' \subseteq InFlight \cup {r}
  PROVE  IsFiniteSet(InFlight') /\ Cardinality(InFlight') <= MaxInFlight
<1>1. /\ IsFiniteSet(InFlight \cup {r})
      /\ \/ Cardinality(InFlight \cup {r}) = Cardinality(InFlight)
         \/ Cardinality(InFlight \cup {r}) = Cardinality(InFlight) + 1
  BY FS_AddElement
<1>2. /\ IsFiniteSet(InFlight')
      /\ Cardinality(InFlight') <= Cardinality(InFlight \cup {r})
  BY <1>1, FS_Subset
<1>3. Cardinality(InFlight') \in Nat /\ Cardinality(InFlight) \in Nat
  BY <1>2, FS_CardinalityType
<1> QED
  BY <1>1, <1>2, <1>3, GatewayAssumption

\* Every step keeps FlightInv.
LEMMA FlightStep ==
  ASSUME TypeInv, FlightInv, [Next]_vars
  PROVE  FlightInv'
<1> USE GatewayAssumption
    DEF FlightInv, TypeInv, TypeOK, RequestInv, AtRun, Closed, Advance, Stored,
        storeVars, settingVars, inputVars, readVars, moneyVars, historyVars
<1>1. ASSUME NEW q \in Quotes, Issue(q)
      PROVE  FlightInv'
  BY <1>1 DEF Issue, Stale, InFlight
<1>2. ASSUME NEW q \in Quotes, Age(q)
      PROVE  FlightInv'
  BY <1>2 DEF Age, InFlight
<1>3. ASSUME NEW r \in Requests, NEW q \in Quotes, NEW a \in Agents, Gate(r, q, a)
      PROVE  FlightInv'
  <2>1. \A x \in Requests \ {r} : pc'[x] = pc[x]
    BY <1>3 DEF Gate
  <2>2. InFlight' \subseteq InFlight \cup {r}
    BY <2>1 DEF InFlight
  <2>3. Cardinality(InFlight) < MaxInFlight
    BY <1>3 DEF Gate
  <2>4. IsFiniteSet(InFlight') /\ Cardinality(InFlight') <= MaxInFlight
    BY <2>2, <2>3, FlightGrows
  <2> QED
    BY <1>3, <2>1, <2>4 DEF Gate
<1>4. ASSUME NEW r \in Requests, ReadSpent(r)
      PROVE  FlightInv'
  <2>1. InFlight' \subseteq InFlight
    BY <1>4 DEF ReadSpent, InFlight
  <2> QED
    BY <1>4, <2>1, FlightShrinks DEF ReadSpent
<1>5. ASSUME NEW r \in Requests, Decide(r)
      PROVE  FlightInv'
  <2>1. InFlight' \subseteq InFlight
    BY <1>5 DEF Decide, InFlight
  <2>2. \A x \in Requests : pc'[x] \in AtRun \cup {"noted", "done"} => x \in runs
    BY <1>5 DEF Decide
  <2>3. IsFiniteSet(InFlight') /\ Cardinality(InFlight') <= MaxInFlight
    BY <2>1, FlightShrinks
  <2>4. \A q \in Quotes : path'[q] # NoAgent => guarded' /\ Stored(q)'
    BY <1>5 DEF Decide, RecordMandatePath
  <2> QED
    BY <1>5, <2>2, <2>3, <2>4 DEF Decide
<1>6. ASSUME NEW r \in Requests, PriceRequest(r)
      PROVE  FlightInv'
  <2>1. InFlight' \subseteq InFlight
    BY <1>6 DEF PriceRequest, InFlight
  <2> QED
    BY <1>6, <2>1, FlightShrinks DEF PriceRequest
<1>7. ASSUME NEW r \in Requests, Redeem(r)
      PROVE  FlightInv'
  <2>1. InFlight' \subseteq InFlight
    BY <1>7 DEF Redeem, InFlight
  <2> QED
    BY <1>7, <2>1, FlightShrinks DEF Redeem
<1>8. ASSUME NEW r \in Requests, Work(r) \/ AskToSettle(r) \/ Facilitate(r) \/ Settle(r)
      PROVE  FlightInv'
  <2>1. InFlight' \subseteq InFlight
    BY <1>8 DEF Work, AskToSettle, Facilitate, Settle, InFlight
  <2> QED
    BY <1>8, <2>1, FlightShrinks DEF Work, AskToSettle, Facilitate, Settle
<1>9. ASSUME NEW r \in Requests, BuildReceipt(r) \/ RecordReceipt(r)
      PROVE  FlightInv'
  <2>1. InFlight' \subseteq InFlight
    BY <1>9 DEF BuildReceipt, RecordReceipt, InFlight
  <2> QED
    BY <1>9, <2>1, FlightShrinks DEF BuildReceipt, RecordReceipt
<1>10. ASSUME NEW r \in Requests, Disconnect(r)
       PROVE  FlightInv'
  <2>1. InFlight' \subseteq InFlight
    BY <1>10 DEF Disconnect, InFlight
  <2> QED
    BY <1>10, <2>1, FlightShrinks DEF Disconnect
<1>11. ASSUME NEW n \in Names, Revoke(n) \/ Seed(n)
       PROVE  FlightInv'
  BY <1>11 DEF Revoke, Seed, InFlight
<1>12. ASSUME NEW x \in Others, SettleElsewhere(x)
       PROVE  FlightInv'
  BY <1>12 DEF SettleElsewhere, InFlight
<1>13. CASE UNCHANGED vars
  BY <1>13 DEF vars, InFlight
<1> QED
  BY <1>1, <1>2, <1>3, <1>4, <1>5, <1>6, <1>7, <1>8, <1>9, <1>10, <1>11, <1>12, <1>13
  DEF Next, Serve

\* Prices are bounded by the greatest.
LEMMA PricesBounded == MaxPrice \in Nat /\ \A q \in Quotes : Price[q] <= MaxPrice
<1> DEFINE prices == {Price[q] : q \in Quotes}
<1>1. Price \in Surjection(Quotes, prices)
  BY GatewayAssumption DEF Surjection
<1>2. IsFiniteSet(prices) /\ prices # {} /\ prices \in SUBSET Nat
  BY <1>1, FS_Surjection, GatewayAssumption
<1>3. MaxPrice = Max(prices)
  BY DEF MaxPrice
<1> HIDE DEF prices
<1>4. MaxPrice \in prices /\ \A x \in prices : x <= MaxPrice
  BY <1>2, <1>3, FiniteHasMax
<1> QED
  BY <1>2, <1>4 DEF prices

\* The bound is a natural number.
LEMMA BoundType == \A n \in Names : Budget[n] \in Nat /\ Budget[n] + Overrun \in Nat
<1>1. MaxInFlight - 1 \in Nat /\ MaxPrice \in Nat
  BY GatewayAssumption, PricesBounded
<1>2. Overrun \in Nat
  BY <1>1 DEF Overrun
<1> QED
  BY <1>2, GatewayAssumption

\* What is pending are quotes, no more than requests in flight.
LEMMA PendingFew ==
  ASSUME TypeInv, FlightInv, NEW n \in Names
  PROVE  /\ Pending(n) \subseteq Quotes
         /\ IsFiniteSet(Pending(n))
         /\ Cardinality(Pending(n)) <= MaxInFlight
<1>1. Claimants(n) \subseteq InFlight
  BY DEF Claimants, Bills, FitsIn, WouldBill, AtRun, InFlight, Closed
<1>2. /\ IsFiniteSet(Claimants(n))
      /\ Cardinality(Claimants(n)) <= Cardinality(InFlight)
  BY <1>1, FS_Subset DEF FlightInv
<1>3. Pending(n) \subseteq Quotes
  BY <1>1 DEF Pending, InFlight, TypeInv, RequestInv
<1> DEFINE quote == [r \in Claimants(n) |-> target[r]]
<1>4. quote \in Surjection(Claimants(n), Pending(n))
  BY DEF Surjection, Pending
<1>5. /\ IsFiniteSet(Pending(n))
      /\ Cardinality(Pending(n)) <= Cardinality(Claimants(n))
  BY <1>2, <1>4, FS_Surjection
<1>6. /\ Cardinality(Pending(n)) \in Nat
      /\ Cardinality(Claimants(n)) \in Nat
      /\ Cardinality(InFlight) \in Nat
  BY <1>2, <1>5, FS_CardinalityType DEF FlightInv
<1> QED
  BY <1>2, <1>3, <1>5, <1>6, GatewayAssumption DEF FlightInv

\* Sums of prices are natural numbers, smaller for smaller sets.
LEMMA PendingSums ==
  ASSUME NEW S \in SUBSET Quotes, NEW T \in SUBSET S
  PROVE  /\ Total(Price, S) \in Nat
         /\ Total(Price, T) \in Nat
         /\ Total(Price, T) <= Total(Price, S)
<1>1. IsFiniteSet(S) /\ IsFiniteSet(T)
  BY FS_Subset, GatewayAssumption
<1>2. \A q \in S : Price[q] \in Nat
  BY GatewayAssumption
<1> QED
  BY <1>1, <1>2, TotalType, TotalMonotone

-----------------------------------------------------------------------------
(* What is recorded, and the totals. *)

\* Recorded quotes were run, so they are quotes.
LEMMA RecQuotes ==
  ASSUME TypeInv, NEW n
  PROVE  Rec(n) \subseteq Quotes
BY DEF Rec, Done, TypeInv, RequestInv

\* Only recording a receipt changes what is recorded.
LEMMA RecKept ==
  ASSUME TypeInv, [Next]_vars, \A r \in Requests : ~RecordReceipt(r)
  PROVE  \A n : Rec(n)' = Rec(n)
<1> SUFFICES /\ Done' = Done
             /\ \A x \in Done : target'[x] = target[x] /\ carried'[x] = carried[x]
  BY DEF Rec, Hops
<1> USE DEF Done, TypeInv, TypeOK, Advance, storeVars, settingVars, inputVars, readVars,
            moneyVars, historyVars
<1>1. ASSUME NEW q \in Quotes, Issue(q) \/ Age(q)
      PROVE  /\ Done' = Done
             /\ \A x \in Done : target'[x] = target[x] /\ carried'[x] = carried[x]
  BY <1>1 DEF Issue, Age
<1>2. ASSUME NEW r \in Requests, NEW q \in Quotes, NEW a \in Agents, Gate(r, q, a)
      PROVE  /\ Done' = Done
             /\ \A x \in Done : target'[x] = target[x] /\ carried'[x] = carried[x]
  BY <1>2 DEF Gate
<1>3. ASSUME NEW r \in Requests, ReadSpent(r) \/ Decide(r) \/ PriceRequest(r) \/ Redeem(r)
      PROVE  /\ Done' = Done
             /\ \A x \in Done : target'[x] = target[x] /\ carried'[x] = carried[x]
  BY <1>3 DEF ReadSpent, Decide, PriceRequest, Redeem
<1>4. ASSUME NEW r \in Requests,
             Work(r) \/ AskToSettle(r) \/ Facilitate(r) \/ Settle(r) \/ BuildReceipt(r)
      PROVE  /\ Done' = Done
             /\ \A x \in Done : target'[x] = target[x] /\ carried'[x] = carried[x]
  BY <1>4 DEF Work, AskToSettle, Facilitate, Settle, BuildReceipt
<1>5. ASSUME NEW r \in Requests, Disconnect(r)
      PROVE  /\ Done' = Done
             /\ \A x \in Done : target'[x] = target[x] /\ carried'[x] = carried[x]
  BY <1>5 DEF Disconnect, InFlight, Closed
<1>6. ASSUME \/ \E n \in Names : Revoke(n) \/ Seed(n)
             \/ \E x \in Others : SettleElsewhere(x)
      PROVE  /\ Done' = Done
             /\ \A x \in Done : target'[x] = target[x] /\ carried'[x] = carried[x]
  BY <1>6 DEF Revoke, Seed, SettleElsewhere
<1>7. CASE UNCHANGED vars
  BY <1>7 DEF vars
<1> QED
  BY <1>1, <1>2, <1>3, <1>4, <1>5, <1>6, <1>7 DEF Next, Serve

\* A recorded receipt brings in its quote, once.
LEMMA RecGrows ==
  ASSUME TypeInv, PayInv, FlightInv, NEW r \in Requests, RecordReceipt(r), NEW n
  PROVE  /\ target[r] \in Quotes
         /\ n \in Hops(carried[r]) =>
              Rec(n)' = Rec(n) \cup {target[r]} /\ target[r] \notin Rec(n)
         /\ n \notin Hops(carried[r]) => Rec(n)' = Rec(n)
<1>1. /\ pc[r] = "noted" /\ Done' = Done \cup {r}
      /\ UNCHANGED <<target, carried>>
      /\ target[r] \in Quotes
  BY DEF RecordReceipt, Advance, Done, TypeInv, TypeOK, RequestInv, inputVars
<1>2. \A x \in Done : x \in runs /\ x # r
  BY <1>1 DEF Done, FlightInv
<1>3. r \in runs
  BY <1>1 DEF FlightInv
<1>4. \A x \in Done : target[x] # target[r]
  BY <1>2, <1>3 DEF PayInv
<1>5. target[r] \notin Rec(n)
  BY <1>4 DEF Rec
<1>6. CASE n \in Hops(carried[r])
  <2>1. {x \in Done' : n \in Hops(carried'[x])} = {x \in Done : n \in Hops(carried[x])} \cup {r}
    BY <1>1, <1>6 DEF Hops
  <2>2. Rec(n)' = Rec(n) \cup {target[r]}
    BY <1>1, <2>1 DEF Rec, Hops
  <2> QED
    BY <1>1, <1>5, <1>6, <2>2
<1>7. CASE n \notin Hops(carried[r])
  <2>1. {x \in Done' : n \in Hops(carried'[x])} = {x \in Done : n \in Hops(carried[x])}
    BY <1>1, <1>7 DEF Hops
  <2>2. Rec(n)' = Rec(n)
    BY <1>1, <2>1 DEF Rec, Hops
  <2> QED
    BY <1>1, <1>7, <2>2
<1> QED
  BY <1>6, <1>7

\* Adding a new quote to recorded ones adds its price.
LEMMA PriceAdds ==
  ASSUME NEW S \in SUBSET Quotes, NEW q \in Quotes \ S
  PROVE  Total(Price, S \cup {q}) = Price[q] + Total(Price, S)
<1>1. IsFiniteSet(S)
  BY FS_Subset, GatewayAssumption
<1>2. \A x \in S \cup {q} : Price[x] \in Nat
  BY GatewayAssumption
<1> QED
  BY <1>1, <1>2, TotalAdd

\* Every step keeps the totals sums of what is recorded and heard.
LEMMA AccountStep ==
  ASSUME TypeInv, PayInv, FlightInv, AccountInv, [Next]_vars
  PROVE  AccountInv'
<1>1. ASSUME NEW r \in Requests, ReadSpent(r)
      PROVE  AccountInv'
  <2>1. PICK news \in SUBSET (elsewhere \ heard) : Replay(news)
    BY <1>1 DEF ReadSpent
  <2>2. heard' = heard \cup news /\ heard \subseteq Others /\ news \subseteq Others \ heard
    BY <2>1 DEF Replay, TypeInv, TypeOK
  <2>3. ASSUME NEW n \in Names
        PROVE  spent'[n] = Total(Price, Rec(n)') + Total(Bought, Under(heard', n))
    <3>1. \A r0 \in Requests : ~RecordReceipt(r0)
      BY <1>1 DEF ReadSpent, RecordReceipt, Advance, TypeInv, TypeOK
    <3>2. Rec(n)' = Rec(n)
      BY <3>1, RecKept
    <3>3. spent'[n] = spent[n] + Total(Bought, Under(news, n))
      BY <2>1, SumIsTotal DEF Replay
    <3>4. Total(Bought, Under(heard \cup news, n))
            = Total(Bought, Under(heard, n)) + Total(Bought, Under(news, n))
      BY <2>2, ElsewhereSplits
    <3>5. /\ Total(Bought, Under(heard, n)) \in Nat /\ Total(Bought, Under(news, n)) \in Nat
          /\ Total(Price, Rec(n)) \in Nat
      <4>1. heard \in SUBSET Others /\ news \in SUBSET Others
        BY <2>2
      <4>2. heard \in SUBSET heard /\ news \in SUBSET news
        OBVIOUS
      <4>3. Rec(n) \in SUBSET Quotes
        BY RecQuotes
      <4> QED
        BY <4>1, <4>2, <4>3, ElsewhereSums, PendingSums
    <3>6. spent[n] = Total(Price, Rec(n)) + Total(Bought, Under(heard, n))
      BY DEF AccountInv
    <3> QED
      BY <2>2, <3>2, <3>3, <3>4, <3>5, <3>6
  <2>4. heard' \subseteq elsewhere'
    BY <1>1, <2>2 DEF ReadSpent, settingVars, AccountInv
  <2>5. \A x \in Requests : known'[x] \subseteq heard' /\ (pc'[x] = "idle" => known'[x] = {})
    BY <1>1, <2>2 DEF ReadSpent, Advance, AccountInv, TypeInv, TypeOK
  <2> QED
    BY <2>3, <2>4, <2>5 DEF AccountInv
<1>2. ASSUME NEW r \in Requests, RecordReceipt(r)
      PROVE  AccountInv'
  <2>1. ASSUME NEW n \in Names
        PROVE  spent'[n] = Total(Price, Rec(n)') + Total(Bought, Under(heard', n))
    <3>1. /\ heard' = heard
          /\ spent'[n] = IF n \in Hops(carried[r]) THEN spent[n] + Price[target[r]] ELSE spent[n]
      BY <1>2 DEF RecordReceipt
    <3>2. spent[n] = Total(Price, Rec(n)) + Total(Bought, Under(heard, n))
      BY DEF AccountInv
    <3>3. /\ Total(Bought, Under(heard, n)) \in Nat /\ Total(Price, Rec(n)) \in Nat
          /\ Rec(n) \in SUBSET Quotes
      <4>1. heard \in SUBSET Others /\ heard \in SUBSET heard
        BY DEF TypeInv, TypeOK
      <4>2. Rec(n) \in SUBSET Quotes
        BY RecQuotes
      <4> QED
        BY <4>1, <4>2, ElsewhereSums, PendingSums
    <3>4. CASE n \in Hops(carried[r])
      <4>1. Rec(n)' = Rec(n) \cup {target[r]} /\ target[r] \in Quotes \ Rec(n)
        BY <1>2, <3>4, RecGrows
      <4>2. Total(Price, Rec(n)') = Price[target[r]] + Total(Price, Rec(n))
        BY <3>3, <4>1, PriceAdds
      <4>3. Price[target[r]] \in Nat
        BY <4>1, GatewayAssumption
      <4> QED
        BY <3>1, <3>2, <3>3, <3>4, <4>2, <4>3
    <3>5. CASE n \notin Hops(carried[r])
      BY <1>2, <3>1, <3>2, <3>5, RecGrows
    <3> QED
      BY <3>4, <3>5
  <2>2. UNCHANGED <<heard, elsewhere, known>> /\ \A x \in Requests : pc'[x] = "idle" => pc[x] = "idle"
    BY <1>2 DEF RecordReceipt, settingVars, readVars, Advance, TypeInv, TypeOK
  <2> QED
    BY <2>1, <2>2 DEF AccountInv
<1>3. ASSUME \A r \in Requests : ~RecordReceipt(r),
             UNCHANGED <<spent, heard>>, elsewhere \subseteq elsewhere',
             \A x \in Requests : /\ known'[x] \in {known[x], {}}
                                 /\ pc'[x] = "idle" => pc[x] = "idle"
      PROVE  AccountInv'
  <2>1. \A n \in Names : Rec(n)' = Rec(n)
    BY <1>3, RecKept
  <2> QED
    BY <1>3, <2>1 DEF AccountInv
<1>4. ASSUME \A r \in Requests : ~RecordReceipt(r) /\ ~ReadSpent(r)
      PROVE  AccountInv'
  <2> USE DEF TypeInv, TypeOK, Advance, storeVars, settingVars, inputVars, readVars,
              moneyVars, historyVars
  <2>1. ASSUME NEW q \in Quotes, Issue(q) \/ Age(q)
        PROVE  AccountInv'
    BY <1>3, <1>4, <2>1 DEF Issue, Age
  <2>2. ASSUME NEW r \in Requests, NEW q \in Quotes, NEW a \in Agents, Gate(r, q, a)
        PROVE  AccountInv'
    BY <1>3, <1>4, <2>2 DEF Gate
  <2>3. ASSUME NEW r \in Requests, Decide(r) \/ PriceRequest(r) \/ Redeem(r)
        PROVE  AccountInv'
    BY <1>3, <1>4, <2>3 DEF Decide, PriceRequest, Redeem
  <2>4. ASSUME NEW r \in Requests,
               Work(r) \/ AskToSettle(r) \/ Facilitate(r) \/ Settle(r) \/ BuildReceipt(r)
        PROVE  AccountInv'
    BY <1>3, <1>4, <2>4 DEF Work, AskToSettle, Facilitate, Settle, BuildReceipt
  <2>5. ASSUME NEW r \in Requests, Disconnect(r)
        PROVE  AccountInv'
    BY <1>3, <1>4, <2>5 DEF Disconnect, InFlight, Closed
  <2>6. ASSUME \/ \E n \in Names : Revoke(n) \/ Seed(n)
               \/ \E x \in Others : SettleElsewhere(x)
        PROVE  AccountInv'
    BY <1>3, <1>4, <2>6 DEF Revoke, Seed, SettleElsewhere
  <2>7. CASE UNCHANGED vars
    BY <1>3, <1>4, <2>7 DEF vars
  <2> QED
    BY <1>4, <2>1, <2>2, <2>3, <2>4, <2>5, <2>6, <2>7 DEF Next, Serve
<1> QED
  BY <1>1, <1>2, <1>4

-----------------------------------------------------------------------------
(* What is owed. *)

\* What is owed is a natural number.
LEMMA OwedType ==
  ASSUME TypeInv, FlightInv, NEW n \in Names
  PROVE  /\ Owed(n) \in Nat
         /\ Total(Price, Rec(n)) \in Nat /\ Total(Price, Pending(n)) \in Nat
<1>1. Rec(n) \in SUBSET Quotes /\ Pending(n) \in SUBSET Quotes
  BY RecQuotes, PendingFew
<1>2. Total(Price, Rec(n)) \in Nat /\ Total(Price, Pending(n)) \in Nat
  BY <1>1, PendingSums
<1> QED
  BY <1>2 DEF Owed

\* A request in flight that fits on top of what is recorded leaves room for
\* everything pending, up to the overrun.
LEMMA FitBounds ==
  ASSUME TypeInv, FlightInv, NEW n \in Names, NEW r \in InFlight, NEW base \in Nat,
         base + Price[target[r]] <= Budget[n]
  PROVE  base + Total(Price, Pending(n)) <= Budget[n] + Overrun
<1> USE GatewayAssumption
<1> DEFINE q == target[r]
           rest == Pending(n) \ {q}
           others == InFlight \ {r}
<1>1. r \in Requests /\ q \in Quotes
  BY DEF InFlight, TypeInv, RequestInv
<1>2. rest \subseteq Quotes /\ IsFiniteSet(rest) /\ IsFiniteSet(others)
  BY PendingFew, FS_Subset DEF FlightInv
<1>3. Cardinality(rest) \in Nat /\ Cardinality(rest) <= MaxInFlight - 1
  <2> DEFINE from == {x \in Claimants(n) : target[x] # q}
             quote == [x \in from |-> target[x]]
  <2>1. from \subseteq others /\ IsFiniteSet(from) /\ Cardinality(from) <= Cardinality(others)
    <3>1. from \subseteq others
      BY DEF Claimants, Bills, FitsIn, WouldBill, AtRun, InFlight, Closed
    <3> QED
      BY <1>2, <3>1, FS_Subset
  <2>2. quote \in Surjection(from, rest)
    BY DEF Surjection, Pending
  <2>3. Cardinality(rest) <= Cardinality(from)
    BY <2>1, <2>2, FS_Surjection
  <2>4. Cardinality(others) = Cardinality(InFlight) - 1
    BY FS_RemoveElement DEF FlightInv
  <2>5. /\ Cardinality(rest) \in Nat /\ Cardinality(from) \in Nat
        /\ Cardinality(others) \in Nat /\ Cardinality(InFlight) \in Nat
    BY <1>2, <2>1, FS_CardinalityType DEF FlightInv
  <2>6. Cardinality(InFlight) <= MaxInFlight
    BY DEF FlightInv
  <2> HIDE DEF from, quote, rest, others
  <2> QED
    BY <2>1, <2>3, <2>4, <2>5, <2>6
<1>4. Total(Price, Pending(n)) <= Price[q] + Total(Price, rest)
  <2>1. Total(Price, rest \cup {q}) = Price[q] + Total(Price, rest)
    BY <1>1, <1>2, PriceAdds
  <2>2. Total(Price, Pending(n)) <= Total(Price, rest \cup {q})
    <3>1. rest \cup {q} \in SUBSET Quotes /\ Pending(n) \in SUBSET (rest \cup {q})
      BY <1>1, <1>2
    <3> QED
      BY <3>1, PendingSums
  <2> QED
    BY <2>1, <2>2
<1>5. Total(Price, rest) <= Cardinality(rest) * MaxPrice
  <2>1. \A x \in rest : Price[x] \in Nat /\ Price[x] <= MaxPrice
    BY <1>2, PricesBounded
  <2> QED
    BY <1>2, <2>1, PricesBounded, TotalBound
<1>6. Cardinality(rest) * MaxPrice <= Overrun /\ Overrun \in Nat
  <2>1. \A i, j, k \in Nat : i <= j => i * k <= j * k
    OBVIOUS
  <2>2. MaxInFlight - 1 \in Nat
    OBVIOUS
  <2> QED
    BY <1>3, <2>1, <2>2, PricesBounded DEF Overrun
<1>7. /\ Total(Price, rest) \in Nat /\ Price[q] \in Nat /\ Budget[n] \in Nat
      /\ Total(Price, Pending(n)) \in Nat
      /\ Cardinality(rest) * MaxPrice \in Nat
  <2>1. Total(Price, rest) \in Nat
    BY <1>2, PendingSums
  <2>2. Price[q] \in Nat /\ Budget[n] \in Nat /\ Total(Price, Pending(n)) \in Nat
    BY <1>1, OwedType
  <2>3. Cardinality(rest) * MaxPrice \in Nat
    <3>1. \A i, k \in Nat : i * k \in Nat
      OBVIOUS
    <3> QED
      BY <1>3, <3>1, PricesBounded
  <2> QED
    BY <2>1, <2>2, <2>3
<1>8. base + Price[q] <= Budget[n]
  OBVIOUS
<1> HIDE DEF rest, q, others
<1> QED
  BY <1>4, <1>5, <1>6, <1>7, <1>8

\* The same of the state a step leads to.
LEMMA FitsLater ==
  ASSUME TypeInv', FlightInv', NEW n \in Names, NEW r \in InFlight', NEW base \in Nat,
         base + Price[target'[r]] <= Budget[n]
  PROVE  base + Total(Price, Pending(n)') <= Budget[n] + Overrun
<1> SUFFICES (TypeInv /\ FlightInv /\ r \in InFlight /\ base + Price[target[r]] <= Budget[n]
               => base + Total(Price, Pending(n)) <= Budget[n] + Overrun)'
  OBVIOUS
<1> QED
  BY FitBounds, PTL

\* Less is owed when nothing is recorded and no quote comes in.
LEMMA OwedKept ==
  ASSUME TypeInv, FlightInv, NEW n \in Names,
         Rec(n)' = Rec(n), Pending(n)' \subseteq Pending(n)
  PROVE  Owed(n)' \in Nat /\ Owed(n)' <= Owed(n)
<1>1. /\ Pending(n) \in SUBSET Quotes /\ Rec(n) \in SUBSET Quotes
      /\ Pending(n)' \in SUBSET Pending(n) /\ Rec(n)' \in SUBSET Rec(n)
  BY PendingFew, RecQuotes
<1>2. /\ Total(Price, Pending(n)) \in Nat /\ Total(Price, Pending(n)') \in Nat
      /\ Total(Price, Pending(n)') <= Total(Price, Pending(n))
      /\ Total(Price, Rec(n)) \in Nat /\ Total(Price, Rec(n)') = Total(Price, Rec(n))
  BY <1>1, PendingSums
<1> QED
  BY <1>2 DEF Owed

\* So it is when a pending quote is recorded and leaves.
LEMMA OwedPaid ==
  ASSUME TypeInv, FlightInv, NEW n \in Names, NEW q \in Pending(n), q \notin Rec(n),
         Rec(n)' = Rec(n) \cup {q}, Pending(n)' \subseteq Pending(n) \ {q}
  PROVE  Owed(n)' \in Nat /\ Owed(n)' <= Owed(n)
<1> USE GatewayAssumption
<1> DEFINE rest == Pending(n) \ {q}
<1>1. /\ Pending(n) \in SUBSET Quotes /\ IsFiniteSet(Pending(n)) /\ q \in Quotes
      /\ Rec(n) \in SUBSET Quotes
  BY PendingFew, RecQuotes
<1>2. Total(Price, Pending(n)) = Price[q] + Total(Price, rest)
  <2>1. \A x \in Pending(n) : Price[x] \in Nat
    BY <1>1
  <2> QED
    BY <1>1, <2>1, TotalTake
<1>3. Total(Price, Rec(n)') = Price[q] + Total(Price, Rec(n))
  BY <1>1, PriceAdds
<1>4. /\ Total(Price, rest) \in Nat /\ Total(Price, Pending(n)') \in Nat
      /\ Total(Price, Pending(n)') <= Total(Price, rest)
      /\ Total(Price, Rec(n)) \in Nat /\ Price[q] \in Nat
  <2>1. rest \in SUBSET Quotes /\ Pending(n)' \in SUBSET rest /\ Rec(n) \in SUBSET Rec(n)
    BY <1>1
  <2> QED
    BY <1>1, <2>1, PendingSums
<1> HIDE DEF rest
<1> QED
  BY <1>2, <1>3, <1>4 DEF Owed

\* Claimants that stay, with the quotes they had, bring none in.
LEMMA PendingShrinks ==
  ASSUME NEW n \in Names,
         \A r \in Claimants(n)' : r \in Claimants(n) /\ target'[r] = target[r]
  PROVE  Pending(n)' \subseteq Pending(n)
BY DEF Pending

\* A request that is let through was weighed for every name it may bill, so
\* its quote was pending, and so was that of others it now names a path for.
LEMMA DecidePending ==
  ASSUME TypeInv, FlightInv, NEW r \in Requests, NEW n \in Names, Decide(r)
  PROVE  Pending(n)' \subseteq Pending(n)
<1> USE GatewayAssumption DEF TypeInv, TypeOK, Advance
<1>1. /\ pc[r] = "weighed"
      /\ target[r] \in Quotes /\ sender[r] \in Agents
      /\ UNCHANGED <<target, sender, carried, store, runs>>
      /\ \A x \in Requests \ {r} : pc'[x] = pc[x] /\ snapshot'[x] = snapshot[x]
      /\ pc'[r] \in {"allowed", "refused"}
  BY DEF Decide, inputVars, moneyVars, RequestInv
<1>2. \A q \in Quotes : Payable(q)' => Payable(q)
  BY <1>1 DEF Payable, AtRun
<1>3. ASSUME NEW q \in Quotes, n \in Hops(path'[q]), n \notin Hops(path[q])
      PROVE  q = target[r] /\ FitsIn(r, n)
  <2>1. /\ Approves(r)
        /\ path' = [path EXCEPT ![target[r]] = sender[r]]
    BY <1>3 DEF Decide, RecordMandatePath
  <2>2. q = target[r] /\ n \in Chain[sender[r]]
    BY <1>1, <1>3, <2>1 DEF Hops
  <2> QED
    BY <1>1, <2>1, <2>2 DEF Approves, FitsIn
<1>4. ASSUME pc'[r] = "allowed", n \in Hops(path'[target[r]])
      PROVE  FitsIn(r, n)
  <2>1. Approves(r) /\ RecordMandatePath(target[r], sender[r])
    BY <1>1, <1>4 DEF Decide
  <2>2. CASE Stored(target[r])
    <3>1. n \in Chain[sender[r]]
      BY <1>1, <1>4, <2>1, <2>2 DEF RecordMandatePath, Hops
    <3> QED
      BY <1>1, <2>1, <3>1 DEF Approves, FitsIn
  <2>3. CASE ~Stored(target[r])
    BY <1>1, <1>4, <2>1, <2>3 DEF RecordMandatePath, Hops, FlightInv
  <2> QED
    BY <2>2, <2>3
<1>5. ASSUME NEW x \in Claimants(n)'
      PROVE  target[x] \in Pending(n)
  <2>1. CASE x = r
    <3>1. pc'[r] = "allowed" /\ n \in Hops(path'[target[r]]) /\ Payable(target[r])
      BY <1>1, <1>2, <1>5, <2>1 DEF Claimants, Bills, FitsIn, WouldBill, AtRun
    <3> QED
      BY <1>4, <2>1, <3>1 DEF Claimants, Pending
  <2>2. CASE x # r /\ Bills(x, n)'
    BY <1>1, <1>5, <2>2 DEF Bills, Claimants, Pending
  <2>3. CASE x # r /\ FitsIn(x, n)' /\ Payable(target[x])'
    <3>1. x \in Requests /\ FitsIn(x, n) /\ target[x] \in Quotes
      BY <1>1, <1>5, <2>3 DEF FitsIn, Claimants, RequestInv
    <3> QED
      BY <1>1, <1>2, <2>3, <3>1 DEF Claimants, Pending
  <2>4. CASE x # r /\ WouldBill(x, n)' /\ Payable(target[x])'
    <3>1. /\ x \in Requests /\ target[x] \in Quotes
          /\ pc[x] \in {"allowed", "verified", "unpriced"} \cup AtRun
          /\ n \in Hops(path'[target[x]])
      BY <1>1, <1>5, <2>4 DEF WouldBill, Claimants, RequestInv, AtRun
    <3>2. Payable(target[x])
      BY <1>1, <1>2, <2>4, <3>1
    <3>3. CASE n \in Hops(path[target[x]])
      BY <3>1, <3>2, <3>3 DEF WouldBill, Claimants, Pending
    <3>4. CASE n \notin Hops(path[target[x]])
      BY <1>3, <3>1, <3>2, <3>4 DEF Claimants, Pending
    <3> QED
      BY <3>3, <3>4
  <2> QED
    BY <1>5, <2>1, <2>2, <2>3, <2>4 DEF Claimants
<1> QED
  BY <1>1, <1>5 DEF Pending

\* A receipt is recorded: its quote was pending for the names it bills, and
\* is so no longer, for its request was the only one to run it.
LEMMA RecordOwes ==
  ASSUME TypeInv, PayInv, FlightInv, NEW r \in Requests, RecordReceipt(r), NEW n \in Names
  PROVE  Owed(n)' \in Nat /\ Owed(n)' <= Owed(n)
<1> USE DEF TypeInv, TypeOK, Advance
<1>1. /\ pc' = [pc EXCEPT ![r] = "done"]
      /\ pc[r] = "noted"
      /\ UNCHANGED <<target, sender, snapshot, carried, path, store, runs>>
  BY DEF RecordReceipt, storeVars, inputVars, readVars, historyVars
<1>2. r \in runs /\ store[target[r]] \in {"redeemed", "purged"} /\ target[r] \in Quotes
  BY <1>1 DEF FlightInv, PayInv, RequestInv
<1>3. \A q : Payable(q)' <=> Payable(q)
  BY <1>1 DEF Payable, AtRun
<1>4. ~Payable(target[r])
  BY <1>1, <1>2 DEF Payable, AtRun, PayInv
<1>5. \A x \in Claimants(n)' : x \in Claimants(n) /\ x # r
  BY <1>1, <1>3 DEF Claimants, Bills, FitsIn, WouldBill, AtRun, Hops
<1>6. Pending(n)' \subseteq Pending(n)
  BY <1>1, <1>5, PendingShrinks
<1>7. target[r] \notin Pending(n)'
  <2>1. ASSUME NEW x \in Claimants(n)', target[x] = target[r]
        PROVE  FALSE
    <3>1. Bills(x, n) /\ x # r /\ x \in Requests
      BY <1>1, <1>3, <1>4, <1>5, <2>1 DEF Claimants, Bills, Hops
    <3>2. x \in runs
      BY <3>1 DEF Bills, FlightInv
    <3> QED
      BY <1>2, <2>1, <3>1, <3>2 DEF PayInv
  <2> QED
    BY <1>1, <2>1 DEF Pending
<1>8. CASE n \in Hops(carried[r])
  <2>1. target[r] \in Pending(n)
    BY <1>1, <1>8 DEF Pending, Claimants, Bills
  <2>2. Rec(n)' = Rec(n) \cup {target[r]} /\ target[r] \notin Rec(n)
    BY <1>8, RecGrows
  <2> QED
    BY <1>6, <1>7, <2>1, <2>2, OwedPaid
<1>9. CASE n \notin Hops(carried[r])
  BY <1>6, <1>9, RecGrows, OwedKept
<1> QED
  BY <1>8, <1>9

\* Nothing but a weighed request makes more be owed.
LEMMA OwedShrinks ==
  ASSUME TypeInv, PayInv, FlightInv, [Next]_vars, \A r \in Requests : ~ReadSpent(r),
         NEW n \in Names
  PROVE  Owed(n)' \in Nat /\ Owed(n)' <= Owed(n)
<1>1. ASSUME \A r \in Requests : ~RecordReceipt(r), Pending(n)' \subseteq Pending(n)
      PROVE  Owed(n)' \in Nat /\ Owed(n)' <= Owed(n)
  BY <1>1, RecKept, OwedKept
<1>2. ASSUME \A r \in Requests : ~RecordReceipt(r),
             \A r \in Claimants(n)' : r \in Claimants(n) /\ target'[r] = target[r]
      PROVE  Owed(n)' \in Nat /\ Owed(n)' <= Owed(n)
  BY <1>1, <1>2, PendingShrinks
<1>3. ASSUME NEW r \in Requests, RecordReceipt(r)
      PROVE  Owed(n)' \in Nat /\ Owed(n)' <= Owed(n)
  BY <1>3, RecordOwes
<1>4. ASSUME \A r \in Requests : ~RecordReceipt(r)
      PROVE  Owed(n)' \in Nat /\ Owed(n)' <= Owed(n)
  <2>1. ASSUME NEW r \in Requests, Decide(r)
        PROVE  Owed(n)' \in Nat /\ Owed(n)' <= Owed(n)
    BY <1>1, <1>4, <2>1, DecidePending
  <2> USE DEF TypeInv, TypeOK, RequestInv, Advance, Claimants, Bills, FitsIn, WouldBill,
              Payable, AtRun, Hops, storeVars, settingVars, inputVars, readVars, moneyVars,
              historyVars
  <2>2. ASSUME NEW q \in Quotes, Issue(q)
        PROVE  Owed(n)' \in Nat /\ Owed(n)' <= Owed(n)
    <3>1. \A x \in Quotes : /\ store'[x] = "open" => store[x] = "open" \/ store[x] = "unissued"
                            /\ path'[x] \in {path[x], NoAgent}
      BY <2>2 DEF Issue
    <3>2. UNCHANGED <<pc, target, sender, snapshot, carried, runs>>
      BY <2>2 DEF Issue
    <3>3. \A r \in Claimants(n)' : pc[r] # "idle" /\ target[r] \in Quotes /\ store[target[r]] # "unissued"
      BY <3>2
    <3> QED
      BY <1>2, <1>4, <3>1, <3>2, <3>3
  <2>3. ASSUME NEW q \in Quotes, Age(q)
        PROVE  Owed(n)' \in Nat /\ Owed(n)' <= Owed(n)
    BY <1>2, <1>4, <2>3 DEF Age
  <2>4. ASSUME NEW r \in Requests, NEW q \in Quotes, NEW a \in Agents, Gate(r, q, a)
        PROVE  Owed(n)' \in Nat /\ Owed(n)' <= Owed(n)
    BY <1>2, <1>4, <2>4 DEF Gate, FlightInv, PayInv, Unstarted
  <2>5. ASSUME NEW r \in Requests, PriceRequest(r)
        PROVE  Owed(n)' \in Nat /\ Owed(n)' <= Owed(n)
    BY <1>2, <1>4, <2>5 DEF PriceRequest
  <2>6. ASSUME NEW r \in Requests, Redeem(r)
        PROVE  Owed(n)' \in Nat /\ Owed(n)' <= Owed(n)
    BY <1>2, <1>4, <2>6 DEF Redeem, Redeemable
  <2>7. ASSUME NEW r \in Requests, Work(r) \/ AskToSettle(r) \/ Facilitate(r) \/ Settle(r)
        PROVE  Owed(n)' \in Nat /\ Owed(n)' <= Owed(n)
    BY <1>2, <1>4, <2>7 DEF Work, AskToSettle, Facilitate, Settle
  <2>8. ASSUME NEW r \in Requests, BuildReceipt(r)
        PROVE  Owed(n)' \in Nat /\ Owed(n)' <= Owed(n)
    BY <1>2, <1>4, <2>8 DEF BuildReceipt, FlightInv
  <2>9. ASSUME NEW r \in Requests, Disconnect(r)
        PROVE  Owed(n)' \in Nat /\ Owed(n)' <= Owed(n)
    BY <1>2, <1>4, <2>9 DEF Disconnect
  <2>10. ASSUME \/ \E m \in Names : Revoke(m) \/ Seed(m)
                \/ \E x \in Others : SettleElsewhere(x)
         PROVE  Owed(n)' \in Nat /\ Owed(n)' <= Owed(n)
    BY <1>2, <1>4, <2>10 DEF Revoke, Seed, SettleElsewhere
  <2>11. CASE UNCHANGED vars
    BY <1>2, <1>4, <2>11 DEF vars
  <2> QED
    BY <1>4, <2>1, <2>2, <2>3, <2>4, <2>5, <2>6, <2>7, <2>8, <2>9, <2>10, <2>11
    DEF Next, Serve
<1> QED
  BY <1>3, <1>4

\* A bound that held holds for less, heard by nobody new.
LEMMA BoundShrinks ==
  ASSUME NEW n \in Names, NEW own \in Nat, NEW less \in Nat, less <= own,
         NEW K \in SUBSET Others, NEW L \in SUBSET K, Bound(n, own, K)
  PROVE  Bound(n, less, L)
<1>1. /\ Total(Bought, Under(K, n)) \in Nat /\ Total(Bought, Under(L, n)) \in Nat
      /\ Total(Bought, Under(L, n)) <= Total(Bought, Under(K, n))
  BY ElsewhereSums
<1>2. Budget[n] + Overrun \in Nat
  BY BoundType
<1> QED
  BY <1>1, <1>2 DEF Bound

\* A request is weighed: if it fits, then so does all that is owed now, with
\* all that is heard; if it does not, no more is owed than was.
LEMMA WeighBounds ==
  ASSUME TypeInv, TypeInv', FlightInv, FlightInv', AccountInv, AccountInv', OverrunInv,
         [Next]_vars, NEW r \in Requests, ReadSpent(r), NEW n \in Names
  PROVE  \/ FitsIn(r, n)' /\ Owed(n)' \in Nat /\ Bound(n, Owed(n)', heard')
         \/ ~FitsIn(r, n)' /\ Owed(n)' \in Nat /\ Owed(n)' <= Owed(n)
<1> USE DEF TypeInv, TypeOK, Advance
<1>1. /\ pc' = [pc EXCEPT ![r] = "weighed"]
      /\ pc[r] = "gated"
      /\ snapshot' = [snapshot EXCEPT ![r] = spent']
      /\ UNCHANGED <<target, sender, carried, path, store, runs>>
  BY DEF ReadSpent, storeVars, inputVars, historyVars
<1>2. Rec(n)' = Rec(n)
  <2>1. \A x \in Requests : ~RecordReceipt(x)
    BY <1>1 DEF RecordReceipt
  <2> QED
    BY <2>1, RecKept
<1>3. \A q : Payable(q)' <=> Payable(q)
  BY <1>1 DEF Payable, AtRun
<1>4. \A x \in Requests \ {r} : x \in Claimants(n)' => x \in Claimants(n)
  BY <1>1, <1>3 DEF Claimants, Bills, FitsIn, WouldBill, AtRun, Hops
<1>5. CASE FitsIn(r, n)'
  <2>1. spent'[n] + Price[target'[r]] <= Budget[n] /\ r \in InFlight'
    BY <1>1, <1>5 DEF FitsIn, InFlight, Closed
  <2>2. spent'[n] \in Nat
    OBVIOUS
  <2>3. spent'[n] + Total(Price, Pending(n)') <= Budget[n] + Overrun
    BY <2>1, <2>2, FitsLater
  <2>4. spent'[n] = Total(Price, Rec(n)') + Total(Bought, Under(heard', n))
    BY DEF AccountInv
  <2>5. /\ Total(Price, Rec(n)') \in Nat
        /\ Total(Price, Pending(n)') \in Nat
        /\ Total(Bought, Under(heard', n)) \in Nat
        /\ Budget[n] + Overrun \in Nat
    <3>1. Rec(n)' \in SUBSET Quotes
      BY <1>2, RecQuotes
    <3>2. Pending(n)' \in SUBSET Quotes
      <4>1. \A x \in Claimants(n)' : x \in Requests /\ pc'[x] # "idle"
        BY DEF Claimants, Bills, FitsIn, WouldBill, AtRun
      <4> QED
        BY <4>1 DEF Pending, RequestInv
    <3>3. heard' \in SUBSET Others /\ heard' \in SUBSET heard'
      OBVIOUS
    <3>4. Total(Bought, Under(heard', n)) \in Nat
      BY <3>3, ElsewhereSums
    <3> QED
      BY <3>1, <3>2, <3>4, PendingSums, BoundType
  <2>6. Owed(n)' = Total(Price, Rec(n)') + Total(Price, Pending(n)')
    BY DEF Owed
  <2>7. Owed(n)' \in Nat
    BY <2>5, <2>6
  <2>8. Bound(n, Owed(n)', heard')
    BY <2>3, <2>4, <2>5, <2>6 DEF Bound
  <2> QED
    BY <1>5, <2>7, <2>8
<1>6. CASE ~FitsIn(r, n)'
  <2>1. r \notin Claimants(n)'
    BY <1>1, <1>6 DEF Claimants, Bills, WouldBill, AtRun
  <2>2. Pending(n)' \subseteq Pending(n)
    BY <1>1, <1>4, <2>1, PendingShrinks DEF Claimants
  <2> QED
    BY <1>2, <1>6, <2>2, OwedKept
<1> QED
  BY <1>5, <1>6

\* Whom the gate found room for stays so, and nobody else hears anything.
LEMMA CheckedKept ==
  ASSUME TypeInv, ChargeInv, AccountInv, [Next]_vars,
         NEW x \in Requests, ~ReadSpent(x), NEW n \in Names, Checked(x, n)'
  PROVE  known'[x] = {} \/ (Checked(x, n) /\ known'[x] = known[x])
<1> USE DEF TypeInv, TypeOK, RequestInv, Checked, FitsIn, Advance, storeVars, settingVars, inputVars,
            readVars, moneyVars, historyVars
<1>1. ASSUME NEW q \in Quotes, Issue(q) \/ Age(q)
      PROVE  known'[x] = {} \/ (Checked(x, n) /\ known'[x] = known[x])
  BY <1>1 DEF Issue, Age
<1>2. ASSUME NEW r \in Requests, NEW q \in Quotes, NEW a \in Agents, Gate(r, q, a)
      PROVE  known'[x] = {} \/ (Checked(x, n) /\ known'[x] = known[x])
  BY <1>2 DEF Gate, AccountInv
<1>3. ASSUME NEW r \in Requests, ReadSpent(r)
      PROVE  known'[x] = {} \/ (Checked(x, n) /\ known'[x] = known[x])
  BY <1>3 DEF ReadSpent
<1>4. ASSUME NEW r \in Requests, Decide(r)
      PROVE  known'[x] = {} \/ (Checked(x, n) /\ known'[x] = known[x])
  <2>1. CASE x # r
    BY <1>4, <2>1 DEF Decide
  <2>2. CASE x = r /\ Approves(r)
    <3>1. /\ pc[r] = "weighed" /\ UNCHANGED <<known, sender, target>>
      BY <1>4, <2>2 DEF Decide
    <3>2. n \in Chain[sender[r]]
      BY <2>2, <3>1
    <3>3. snapshot[r][n] + Price[target[r]] <= Budget[n]
      BY <2>2, <3>2 DEF Approves
    <3> QED
      BY <2>2, <3>1, <3>2, <3>3
  <2>3. CASE x = r /\ ~Approves(r)
    <3>1. known' = [known EXCEPT ![r] = {}] /\ known \in [Requests -> SUBSET Others]
      BY <1>4, <2>3 DEF Decide
    <3>2. known'[r] = {}
      BY ONLY <3>1, r \in Requests
    <3> QED
      BY <2>3, <3>2
  <2> QED
    BY <2>1, <2>2, <2>3
<1>5. ASSUME NEW r \in Requests, PriceRequest(r) \/ Redeem(r) \/ Work(r)
      PROVE  known'[x] = {} \/ (Checked(x, n) /\ known'[x] = known[x])
  BY <1>5 DEF PriceRequest, Redeem, Work
<1>6. ASSUME NEW r \in Requests,
             AskToSettle(r) \/ Facilitate(r) \/ Settle(r) \/ BuildReceipt(r) \/ RecordReceipt(r)
      PROVE  known'[x] = {} \/ (Checked(x, n) /\ known'[x] = known[x])
  BY <1>6 DEF AskToSettle, Facilitate, Settle, BuildReceipt, RecordReceipt
<1>7. ASSUME NEW r \in Requests, Disconnect(r)
      PROVE  known'[x] = {} \/ (Checked(x, n) /\ known'[x] = known[x])
  <2>1. CASE x = r /\ transfer[r] = "none"
    <3>1. known' = [known EXCEPT ![r] = {}] /\ known \in [Requests -> SUBSET Others]
      BY <1>7, <2>1 DEF Disconnect
    <3>2. known'[r] = {}
      BY ONLY <3>1, r \in Requests
    <3> QED
      BY <2>1, <3>2
  <2>2. CASE x = r /\ transfer[r] # "none"
    <3>1. pc[r] # "weighed" /\ UNCHANGED <<known, sender>>
      BY <1>7, <2>2 DEF Disconnect, ChargeInv
    <3> QED
      BY <2>2, <3>1
  <2>3. CASE x # r
    BY <1>7, <2>3 DEF Disconnect
  <2> QED
    BY <2>1, <2>2, <2>3
<1>8. ASSUME \/ \E m \in Names : Revoke(m) \/ Seed(m)
             \/ \E y \in Others : SettleElsewhere(y)
      PROVE  known'[x] = {} \/ (Checked(x, n) /\ known'[x] = known[x])
  BY <1>8 DEF Revoke, Seed, SettleElsewhere
<1>9. CASE UNCHANGED vars
  BY <1>9 DEF vars
<1> QED
  BY <1>1, <1>2, <1>3, <1>4, <1>5, <1>6, <1>7, <1>8, <1>9 DEF Next, Serve

\* Every step keeps the bound.
LEMMA OverrunStep ==
  ASSUME TypeInv, TypeInv', PayInv, ChargeInv, FlightInv, FlightInv',
         AccountInv, AccountInv', OverrunInv, [Next]_vars
  PROVE  OverrunInv'
<1> SUFFICES ASSUME NEW n \in Names
             PROVE  /\ Bound(n, Owed(n)', {})
                    /\ \A x \in Requests : Checked(x, n)' => Bound(n, Owed(n)', known'[x])
  BY DEF OverrunInv, Bound, Overrun
<1>0. /\ heard \in SUBSET Others /\ heard' \in SUBSET Others
      /\ \A x \in Requests : known[x] \in SUBSET Others /\ known'[x] \in SUBSET heard'
      /\ Owed(n) \in Nat
  BY OwedType DEF TypeInv, TypeOK, AccountInv
<1>1. ASSUME Owed(n)' \in Nat, Owed(n)' <= Owed(n)
      PROVE  /\ Bound(n, Owed(n)', {})
             /\ \A x \in Requests :
                  Checked(x, n)' /\ ~ReadSpent(x) => Bound(n, Owed(n)', known'[x])
  <2>1. Bound(n, Owed(n)', {})
    <3>1. Bound(n, Owed(n), {}) /\ {} \in SUBSET Others /\ {} \in SUBSET {}
      BY DEF OverrunInv
    <3> QED
      BY <1>0, <1>1, <3>1, BoundShrinks
  <2>2. ASSUME NEW x \in Requests, Checked(x, n)', ~ReadSpent(x)
        PROVE  Bound(n, Owed(n)', known'[x])
    <3>1. CASE known'[x] = {}
      BY <2>1, <3>1
    <3>2. CASE Checked(x, n) /\ known'[x] = known[x]
      <4>1. Bound(n, Owed(n), known[x]) /\ known[x] \in SUBSET known[x]
        BY <3>2 DEF OverrunInv
      <4>2. Bound(n, Owed(n)', known[x])
        BY <1>0, <1>1, <4>1, BoundShrinks
      <4> QED
        BY <3>2, <4>2
    <3> QED
      BY <2>2, <3>1, <3>2, CheckedKept
  <2> QED
    BY <2>1, <2>2
<1>2. ASSUME NEW r \in Requests, ReadSpent(r)
      PROVE  /\ Bound(n, Owed(n)', {})
             /\ \A x \in Requests : Checked(x, n)' => Bound(n, Owed(n)', known'[x])
  <2>1. CASE FitsIn(r, n)' /\ Owed(n)' \in Nat /\ Bound(n, Owed(n)', heard')
    <3>1. ASSUME NEW K \in SUBSET heard'
          PROVE  Bound(n, Owed(n)', K)
      <4>1. Owed(n)' <= Owed(n)'
        BY <2>1
      <4> QED
        BY <1>0, <2>1, <4>1, BoundShrinks
    <3>2. {} \in SUBSET heard'
      OBVIOUS
    <3> QED
      BY <1>0, <3>1, <3>2
  <2>2. CASE ~FitsIn(r, n)' /\ Owed(n)' \in Nat /\ Owed(n)' <= Owed(n)
    <3>1. pc'[r] = "weighed" /\ \A x \in Requests \ {r} : ~ReadSpent(x)
      BY <1>2 DEF ReadSpent, Advance, TypeInv, TypeOK
    <3>2. ~Checked(r, n)'
      BY <2>2, <3>1 DEF Checked
    <3> QED
      BY <1>1, <2>2, <3>1, <3>2
  <2> QED
    BY <1>2, <2>1, <2>2, WeighBounds
<1>3. ASSUME \A r \in Requests : ~ReadSpent(r)
      PROVE  /\ Bound(n, Owed(n)', {})
             /\ \A x \in Requests : Checked(x, n)' => Bound(n, Owed(n)', known'[x])
  <2>1. Owed(n)' \in Nat /\ Owed(n)' <= Owed(n)
    BY <1>3, OwedShrinks
  <2> QED
    BY <1>1, <1>3, <2>1
<1> QED
  BY <1>2, <1>3

\* Two sets of quotes cost no more together than apart.
LEMMA TogetherCheaper ==
  ASSUME NEW S \in SUBSET Quotes, NEW T \in SUBSET Quotes
  PROVE  Total(Price, S \cup T) <= Total(Price, S) + Total(Price, T)
<1> DEFINE rest == T \ S
<1>1. IsFiniteSet(S) /\ IsFiniteSet(rest) /\ S \cap rest = {} /\ S \cup rest = S \cup T
  BY FS_Subset, GatewayAssumption
<1>2. \A x \in S \cup rest : Price[x] \in Nat
  BY GatewayAssumption
<1>3. Total(Price, S \cup rest) = Total(Price, S) + Total(Price, rest)
  BY <1>1, <1>2, TotalUnion
<1>4. /\ Total(Price, rest) <= Total(Price, T)
      /\ Total(Price, rest) \in Nat /\ Total(Price, T) \in Nat /\ Total(Price, S) \in Nat
  <2>1. rest \in SUBSET T /\ S \in SUBSET S
    OBVIOUS
  <2> QED
    BY <2>1, PendingSums
<1> HIDE DEF rest
<1>5. Total(Price, S \cup T) = Total(Price, S) + Total(Price, rest)
  BY <1>1, <1>3
<1> QED
  BY <1>4, <1>5

\* What was paid is owed, or its receipt is lost.
LEMMA PaidIsOwed ==
  ASSUME TypeInv, ChargeInv, FlightInv, NEW n \in Names
  PROVE  /\ Lost(n) \subseteq Quotes
         /\ Paid(n) \subseteq (Rec(n) \cup Pending(n)) \cup Lost(n)
<1>1. ASSUME NEW x \in PayersUnder(n)
      PROVE  /\ x \in Requests /\ target[x] \in Quotes
             /\ Receipted(x, n) => target[x] \in Rec(n) \cup Pending(n)
  <2>1. x \in Requests /\ x \in runs /\ pc[x] # "idle"
    BY <1>1 DEF PayersUnder, Charged, ChargeInv
  <2>2. target[x] \in Quotes
    BY <2>1 DEF TypeInv, RequestInv
  <2>3. ASSUME Receipted(x, n)
        PROVE  target[x] \in Rec(n) \cup Pending(n)
    <3>1. CASE pc[x] \in {"settling", "settled"} /\ n \in Hops(path[target[x]])
      BY <2>1, <3>1 DEF Pending, Claimants, Payable, WouldBill, AtRun
    <3>2. CASE pc[x] = "noted" /\ n \in Hops(carried[x])
      BY <2>1, <3>2 DEF Pending, Claimants, Bills
    <3>3. CASE pc[x] = "done" /\ n \in Hops(carried[x])
      BY <2>1, <3>3 DEF Rec, Done
    <3> QED
      BY <2>3, <3>1, <3>2, <3>3 DEF Receipted
  <2> QED
    BY <2>1, <2>2, <2>3
<1> QED
  BY <1>1 DEF Paid, Lost

\* The bound a payer's check found still accounts for what was paid.
LEMMA OverrunCounts ==
  ASSUME TypeInv, ChargeInv, FlightInv, AccountInv, OverrunInv,
         NEW n \in Names, NEW r \in PayersUnder(n)
  PROVE  Sum(Price, Paid(n)) + Sum(Bought, Under(elsewhere, n))
           <= Budget[n] + (MaxInFlight - 1) * MaxPrice
              + Sum(Price, Lost(n)) + Sum(Bought, Under(elsewhere \ known[r], n))
<1> DEFINE kept == Rec(n) \cup Pending(n)
           all == kept \cup Lost(n)
           unheard == elsewhere \ known[r]
<1>1. /\ Rec(n) \in SUBSET Quotes /\ Pending(n) \in SUBSET Quotes /\ Lost(n) \in SUBSET Quotes
      /\ Paid(n) \in SUBSET all
  BY RecQuotes, PendingFew, PaidIsOwed
<1>2. Total(Price, Paid(n)) \in Nat /\ Total(Price, Paid(n)) <= Total(Price, all)
      /\ Total(Price, all) \in Nat /\ Total(Price, kept) \in Nat /\ Total(Price, Lost(n)) \in Nat
  <2>1. all \in SUBSET Quotes /\ kept \in SUBSET all /\ Lost(n) \in SUBSET all
    BY <1>1
  <2> QED
    BY <1>1, <2>1, PendingSums
<1>3. Total(Price, all) <= Total(Price, kept) + Total(Price, Lost(n))
  <2>1. kept \in SUBSET Quotes
    BY <1>1
  <2> QED
    BY <1>1, <2>1, TogetherCheaper
<1>4. Total(Price, kept) <= Owed(n) /\ Owed(n) \in Nat
  BY <1>1, TogetherCheaper, OwedType DEF Owed
<1>5. r \in Requests /\ Checked(r, n)
  BY DEF PayersUnder, Charged, Checked, ChargeInv
<1>6. Owed(n) + Total(Bought, Under(known[r], n)) <= Budget[n] + Overrun
  BY <1>5 DEF OverrunInv, Bound
<1>7. /\ known[r] \in SUBSET Others /\ unheard \in SUBSET (Others \ known[r])
      /\ known[r] \cup unheard = elsewhere
  BY <1>5 DEF AccountInv, TypeInv, TypeOK
<1>8. Total(Bought, Under(known[r] \cup unheard, n))
        = Total(Bought, Under(known[r], n)) + Total(Bought, Under(unheard, n))
  BY <1>7, ElsewhereSplits
<1>9. Total(Bought, Under(known[r], n)) \in Nat /\ Total(Bought, Under(unheard, n)) \in Nat
  <2>1. unheard \in SUBSET Others /\ unheard \in SUBSET unheard /\ known[r] \in SUBSET known[r]
    BY <1>7
  <2> QED
    BY <1>7, <2>1, ElsewhereSums
<1>10. Budget[n] + Overrun \in Nat
  BY BoundType
<1>11. /\ Sum(Price, Paid(n)) = Total(Price, Paid(n))
       /\ Sum(Price, Lost(n)) = Total(Price, Lost(n))
       /\ Sum(Bought, Under(elsewhere, n)) = Total(Bought, Under(known[r] \cup unheard, n))
       /\ Sum(Bought, Under(unheard, n)) = Total(Bought, Under(unheard, n))
  BY <1>7, SumIsTotal
<1> HIDE DEF kept, all, unheard
<1>12. Sum(Price, Paid(n)) + Sum(Bought, Under(elsewhere, n))
         <= (Budget[n] + Overrun) + Sum(Price, Lost(n)) + Sum(Bought, Under(unheard, n))
  BY <1>2, <1>3, <1>4, <1>6, <1>8, <1>9, <1>10, <1>11
<1> QED
  BY <1>12 DEF Overrun, unheard

\* ledger.rs:15-16.  For any tree, prices and interleaving: what is charged
\* below a name, here and elsewhere, exceeds its budget by less than the
\* dearest quote for each of the other requests in flight, what receipts were
\* lost for, and what the payment's check had not heard of others.
THEOREM OverrunHasASize == Spec => []OverrunIsAccountedFor
<1> DEFINE Inv == TypeInv /\ PayInv /\ ChargeInv /\ FlightInv /\ AccountInv /\ OverrunInv
<1>1. Init => Inv
  <2> SUFFICES ASSUME Init
               PROVE  PayInv /\ ChargeInv /\ FlightInv /\ AccountInv /\ OverrunInv
    BY TypeInvInit
  <2>1. InFlight = {} /\ \A n \in Names : Pending(n) = {} /\ Rec(n) = {} /\ spent[n] = 0
    BY DEF Init, InFlight, Pending, Claimants, Bills, FitsIn, WouldBill, AtRun, NoSpend, Rec, Done
  <2>2. PayInv /\ ChargeInv
    BY DEF Init, PayInv, ChargeInv
  <2>3. FlightInv
    BY <2>1, FS_EmptySet, GatewayAssumption DEF Init, FlightInv, AtRun
  <2>4. \A n : Under({}, n) = {}
    BY DEF Under
  <2>5. AccountInv
    BY <2>1, <2>4, TotalEmpty DEF Init, AccountInv
  <2>6. \A n \in Names : Bound(n, Owed(n), {})
    BY <2>1, <2>4, BoundType, TotalEmpty DEF Bound, Owed
  <2>7. OverrunInv
    BY <2>6 DEF OverrunInv, Init
  <2> QED
    BY <2>2, <2>3, <2>5, <2>7
<1>2. Inv /\ [Next]_vars => Inv'
  <2> SUFFICES ASSUME Inv, [Next]_vars PROVE Inv'
    OBVIOUS
  <2>1. TypeInv' /\ PayInv' /\ ChargeInv' /\ FlightInv' /\ AccountInv'
    BY TypeInvStep, PayInvStep, ChargeInvStep, FlightStep, AccountStep
  <2> QED
    BY <2>1, OverrunStep
<1>3. Inv => OverrunIsAccountedFor
  BY OverrunCounts DEF OverrunIsAccountedFor
<1> QED
  BY <1>1, <1>2, <1>3, PTL DEF Spec
=============================================================================
