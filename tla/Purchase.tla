------------------------------ MODULE Purchase ------------------------------
(***************************************************************************)
(* How the agent runner spends from its one wallet: `purchase`, which      *)
(* shops for a service, asks each provider's policy engine and pays the    *)
(* cheapest that agrees, and the lock that lets one flow buy at a time.    *)
(*                                                                         *)
(* What a gateway does with a paid quote is QuoteContract.  A call may be  *)
(* cut off at any time, and the gateway goes on without its client.        *)
(* Orders are numbered within the flow, a run or a response, that holds    *)
(* the lock.  This module has no specification: Autopilot composes it with *)
(* its users.                                                              *)
(***************************************************************************)
EXTENDS Naturals

CONSTANTS
  Providers,   \* gateways that discovery may find
  Sellers,     \* Sellers[service]: those that sell it to this order
  Price,       \* Price[p]: what p quotes
  MaxAtomic,   \* RUNNER_MAX_ATOMIC
  MaxActions   \* MAX_ACTIONS

Services == {"inference", "ops"}

\* A response orders one diagnosis and MAX_ACTIONS repairs.
Orders == 1..(1 + MaxActions)

ASSUME PurchaseAssumption ==
  /\ Sellers \in [Services -> SUBSET Providers]
  /\ Price \in [Providers -> Nat]
  /\ MaxAtomic \in Nat
  /\ MaxActions \in Nat

\* Every order is quoted afresh by each of its sellers.
Quotes == Orders \X Providers

VARIABLES
  phase,    \* of each quote, at its gateway, from its issue on
  order,    \* calls of purchase() in this flow
  step,     \* how far the last of them got
  offers,   \* offers it may still take
  sent,     \* quotes a paying request went out for
  budget,   \* its `budget`
  busy,     \* who holds Runner.busy
  queued    \* whether respond() waits for it

Contract == INSTANCE QuoteContract

orderVars == <<order, step, offers, budget>>
purchaseVars == <<orderVars, phase, sent>>
lockVars == <<busy, queued>>

PurchaseTypeOK ==
  /\ phase \in [Quotes -> Contract!Phases]
  /\ order \in {0} \cup Orders
  /\ step \in {"none", "trying", "paying", "bought", "stopped"}
  /\ offers \in SUBSET Providers
  /\ sent \in SUBSET Quotes
  /\ budget \in 0..MaxAtomic
  /\ busy \in {"free", "run", "response"}
  /\ queued \in BOOLEAN

Idle == [order |-> 0, step |-> "none", offers |-> {}, budget |-> 0, sent |-> {},
         phase |-> [q \in Quotes |-> "open"]]

PurchaseInit ==
  /\ phase = Idle.phase
  /\ order = Idle.order
  /\ step = Idle.step
  /\ offers = Idle.offers
  /\ sent = Idle.sent
  /\ budget = Idle.budget
  /\ busy = "free"
  /\ queued = FALSE

-----------------------------------------------------------------------------
(* The lock around every paid flow. *)

\* The guard is dropped and goes to whoever waits.  The orders of the flow
\* are over, whatever their gateways still make of them.
Unlock ==
  /\ busy' = IF queued THEN "response" ELSE "free"
  /\ queued' = FALSE
  /\ phase' = Idle.phase
  /\ order' = Idle.order
  /\ step' = Idle.step
  /\ offers' = Idle.offers
  /\ sent' = Idle.sent
  /\ budget' = Idle.budget

\* try_lock_owned, as in run: refused unless nobody holds it.
TryLock ==
  /\ busy = "free"
  /\ busy' = "run"
  /\ UNCHANGED queued

\* Mutant of LockOrWait: the response tries the lock too, and tries again.
LockOrRetry ==
  /\ busy = "free"
  /\ busy' = "response"
  /\ UNCHANGED queued

\* lock_owned().await, as in respond: first come, first served.
LockOrWait ==
  /\ busy # "response"
  /\ ~queued
  /\ IF busy = "free" THEN busy' = "response" /\ UNCHANGED queued
                      ELSE queued' = TRUE /\ UNCHANGED busy

-----------------------------------------------------------------------------
(* purchase(), in the order of its steps. *)

Quote(p) == <<order, p>>

Affordable(S, limit) == {p \in S : Price[p] <= limit}

\* On to what is left of the offers, or the end.
Consider(rest) ==
  /\ offers' = rest
  /\ step' = IF rest = {} THEN "stopped" ELSE "trying"

\* An order is handed to purchase().  Discovery finds some of the sellers,
\* some of them quote, and no request of anybody else's depends on which:
\* one step, which ends at no_provider, at over_budget, or with the offers.
Begin(service, limit) ==
  /\ order' = order + 1
  /\ budget' = limit
  /\ \E quoted \in SUBSET Sellers[service] : Consider(Affordable(quoted, limit))
  /\ UNCHANGED <<phase, sent>>

Cheapest(p) == p \in offers /\ \A other \in offers : Price[p] <= Price[other]

\* The policy engine declines or fails to answer, and the next offer's turn
\* comes; or it approves, and the probe is answered 402, upon which the
\* paying request goes out, or 403 or anything else, which ends the purchase.
Try(p) ==
  /\ step = "trying"
  /\ Cheapest(p)
  /\ \/ Consider(offers \ {p}) /\ UNCHANGED sent
     \/ /\ step' = "paying"
        /\ sent' = sent \cup {Quote(p)}
        /\ UNCHANGED offers
     \/ step' = "stopped" /\ UNCHANGED <<sent, offers>>
  /\ UNCHANGED <<phase, order, budget, lockVars>>

\* Mutant of Pay: whatever went wrong, the next offer is tried.
PayOrTryNext(p) ==
  /\ step = "paying"
  /\ p \in offers
  /\ Quote(p) \in sent
  /\ \/ /\ phase[Quote(p)] = "charged"
        /\ step' = "bought"
        /\ UNCHANGED offers
     \/ Consider(offers \ {p})
  /\ UNCHANGED <<phase, order, budget, sent, lockVars>>

\* client.purchase returns: a result; a 502, which no payment follows, and
\* the next offer is tried; or a refusal, an error or a lost answer.  (A
\* refused settlement may do either here, where the code stops.)
Pay(p) ==
  /\ step = "paying"
  /\ p \in offers
  /\ Quote(p) \in sent
  /\ \/ /\ phase[Quote(p)] = "charged"
        /\ step' = "bought"
        /\ UNCHANGED offers
     \/ /\ phase[Quote(p)] = "forfeited"
        /\ Consider(offers \ {p})
     \/ step' = "stopped" /\ UNCHANGED offers
  /\ UNCHANGED <<phase, order, budget, sent, lockVars>>

Shop == \E p \in Providers : Try(p) \/ Pay(p)

\* A gateway deals with a paying request, or lets its quote lapse.
Serve(q) ==
  /\ q \in sent
  /\ \/ Contract!Lapse(q) \/ Contract!Run(q) \/ Contract!Forfeit(q)
     \/ Contract!Settle(q) \/ Contract!Charge(q) \/ Contract!Refuse(q)
  /\ UNCHANGED <<orderVars, sent, lockVars>>

Ended == step \in {"bought", "stopped"}

-----------------------------------------------------------------------------
(* Properties. *)

\* Those order n has paid, or may yet pay.
MayCharge(n) ==
  {p \in Providers : <<n, p>> \in sent /\ phase[<<n, p>>] \notin {"forfeited", "lapsed"}}

\* main.rs:732-735, client.rs:249-254.  A purchase may try one provider
\* after another and lose any answer; whatever their gateways do later, it
\* never pays two of them, and never one above its budget.
OnePaymentPerOrder ==
  \A n \in Orders :
    /\ \A p1, p2 \in MayCharge(n) : p1 = p2
    /\ \A p \in MayCharge(n) : Price[p] <= budget
=============================================================================
