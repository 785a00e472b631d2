------------------------------- MODULE Gateway -------------------------------
(***************************************************************************)
(* One provider's paid endpoint, `POST /v1/infer?quote=..&agent=..`:       *)
(* crates/gateway's quote store, the mandate gate in front of the x402     *)
(* layer, the handler behind it and the receipt hook after settlement.     *)
(* Around it are the facilitator, which may settle what nobody waits for   *)
(* any more, and the other providers that sell to the same agents.         *)
(*                                                                         *)
(* Requests interleave at every await.  A request is one HTTP exchange, so *)
(* an element of Requests is used once; the probe that gets the 402 and    *)
(* the paid request that follows it are two elements.                      *)
(***************************************************************************)
EXTENDS Naturals, FiniteSetsExt

CONSTANTS
  Quotes,       \* quote ids this process may issue (random UUIDs)
  Requests,     \* HTTP requests to /v1/infer
  Agents,       \* agents, by ENS subname
  Names,        \* nodes of the mandate tree
  Chain,        \* Chain[a]: the names from agent a up to its root
  Price,        \* Price[q]: what the quote was metered at
  Others,       \* settlements of other providers, with receipts on the topic
  Bought,       \* Bought[x]: what x cost
  Through,      \* Through[x]: the names on x's mandate path
  Budget,       \* Budget[n]: the authority recorded at a name
  Modes,        \* how it may be started: with a MandateGuard or without
  MaxInFlight,  \* bound: requests open at the same time
  NoAgent, NoQuote

\* UUIDs have a fixed width, so there are finitely many.
ASSUME GatewayAssumption ==
  /\ IsFiniteSet(Quotes) /\ Quotes # {}
  /\ Chain \in [Agents -> SUBSET Names]
  /\ Price \in [Quotes -> Nat]
  /\ IsFiniteSet(Others)
  /\ Bought \in [Others -> Nat]
  /\ Through \in [Others -> SUBSET Names]
  /\ Budget \in [Names -> Nat]
  /\ Modes \subseteq BOOLEAN
  /\ MaxInFlight \in Nat \ {0}
  /\ NoAgent \notin Agents
  /\ NoQuote \notin Quotes

VARIABLES
  guarded,   \* whether this gateway was started with a MandateGuard
  store,     \* QuoteStore entry: its State, or why there is none
  expired,   \* whether an entry is past its TTL
  path,      \* the agent whose chain an entry's mandate_path holds
  pc,        \* how far a request got
  target,    \* its ?quote=
  sender,    \* its ?agent=
  snapshot,  \* the spending evaluate() read for it
  carried,   \* the agent whose chain its receipt carries
  live,      \* names that resolve and have not expired
  spent,     \* SpendLedger totals of this process
  heard,     \* settlements of others among them
  elsewhere, \* settlements of others so far
  transfer,  \* what the facilitator makes of a request's payment
  verified,  \* requests whose payment the facilitator verified
  runs,      \* requests whose handler got past redeem()
  known,     \* settlements of others in the totals evaluate() read
  approvals  \* <<quote, agent>> pairs the gate has approved so far

storeVars == <<store, expired, path>>
settingVars == <<guarded, live, elsewhere>>
inputVars == <<target, sender>>
readVars == <<snapshot, known>>
moneyVars == <<spent, heard, carried>>
historyVars == <<verified, runs, transfer, approvals>>
vars == <<guarded, store, expired, path, pc, target, sender, snapshot, carried,
          live, spent, heard, elsewhere, transfer, verified, runs, known, approvals>>

Closed == {"rejected", "refused", "challenged", "failed", "unsettled", "done",
           "aborted"}
Steps == {"idle", "gated", "weighed", "allowed", "verified", "unpriced",
          "working", "served", "settling", "settled", "noted"} \cup Closed

NoSpend == [n \in Names |-> 0]
InFlight == {r \in Requests : pc[r] \notin Closed \cup {"idle"}}

TypeOK ==
  /\ guarded \in BOOLEAN
  /\ store \in [Quotes -> {"unissued", "open", "redeemed", "purged"}]
  /\ expired \in [Quotes -> BOOLEAN]
  /\ path \in [Quotes -> Agents \cup {NoAgent}]
  /\ pc \in [Requests -> Steps]
  /\ target \in [Requests -> Quotes \cup {NoQuote}]
  /\ sender \in [Requests -> Agents \cup {NoAgent}]
  /\ snapshot \in [Requests -> [Names -> Nat]]
  /\ carried \in [Requests -> Agents \cup {NoAgent}]
  /\ live \in SUBSET Names
  /\ spent \in [Names -> Nat]
  /\ heard \in SUBSET Others
  /\ elsewhere \in SUBSET Others
  /\ transfer \in [Requests -> {"none", "asked", "refused", "settled"}]
  /\ verified \in SUBSET Requests
  /\ runs \in SUBSET Requests
  /\ known \in [Requests -> SUBSET Others]
  /\ approvals \in SUBSET (Quotes \X Agents)

Init ==
  /\ guarded \in Modes
  /\ store = [q \in Quotes |-> "unissued"]
  /\ expired = [q \in Quotes |-> FALSE]
  /\ path = [q \in Quotes |-> NoAgent]
  /\ pc = [r \in Requests |-> "idle"]
  /\ target = [r \in Requests |-> NoQuote]
  /\ sender = [r \in Requests |-> NoAgent]
  /\ snapshot = [r \in Requests |-> NoSpend]
  /\ carried = [r \in Requests |-> NoAgent]
  /\ live = Names
  /\ spent = NoSpend
  /\ heard = {}
  /\ elsewhere = {}
  /\ transfer = [r \in Requests |-> "none"]
  /\ verified = {}
  /\ runs = {}
  /\ known = [r \in Requests |-> {}]
  /\ approvals = {}

-----------------------------------------------------------------------------
(* The quote store. *)

\* The map holds an entry for q.
Stored(q) == store[q] \in {"open", "redeemed"}

\* price_of: what the 402 will charge, if anything.
Priced(q) == store[q] = "open" /\ ~expired[q]

\* What `retain` drops before an insert.
Stale(q) == Stored(q) /\ expired[q]

\* POST /v1/quote: insert, insert_job and insert_action all drop every
\* expired entry first, redeemed ones included.
Issue(q) ==
  /\ store[q] = "unissued"
  /\ store' = [p \in Quotes |-> IF p = q THEN "open"
                                ELSE IF Stale(p) THEN "purged" ELSE store[p]]
  /\ path' = [p \in Quotes |-> IF Stale(p) THEN NoAgent ELSE path[p]]
  /\ UNCHANGED <<expired, pc, inputVars, readVars, moneyVars, settingVars, historyVars>>

\* An entry outlives quote_ttl_secs.
Age(q) ==
  /\ Stored(q)
  /\ ~expired[q]
  /\ expired' = [expired EXCEPT ![q] = TRUE]
  /\ UNCHANGED <<store, path, pc, inputVars, readVars, moneyVars, settingVars, historyVars>>

-----------------------------------------------------------------------------
(* One request, in the order of main.rs's layers. *)

Advance(r, from, to) ==
  /\ pc[r] = from
  /\ pc' = [pc EXCEPT ![r] = to]

\* A request comes in and `gate` runs up to its first await.  Its quote id
\* is one this gateway issued at some time.
Gate(r, q, a) ==
  /\ Cardinality(InFlight) < MaxInFlight
  /\ store[q] # "unissued"
  /\ target' = [target EXCEPT ![r] = q]
  /\ sender' = [sender EXCEPT ![r] = a]
  /\ \/ ~guarded /\ Advance(r, "idle", "allowed")
     \/ guarded /\ Priced(q) /\ Advance(r, "idle", "gated")
     \/ guarded /\ ~Priced(q) /\ Advance(r, "idle", "rejected")
  /\ UNCHANGED <<storeVars, readVars, moneyVars, settingVars, historyVars>>

Sum(f, S) == MapThenSumSet(LAMBDA x : f[x], S)

\* Those settlements that were paid under name n.
Under(S, n) == {x \in S : n \in Through[x]}

\* spent(): the topic is replayed from the cursor.  What it brings of the
\* others' receipts is whatever has reached the mirror node and was read before
\* a page failed: nothing at worst, and the totals are used all the same.
Replay(news) ==
  /\ heard' = heard \cup news
  /\ spent' = [n \in Names |-> spent[n] + Sum(Bought, Under(news, n))]

\* Mutant of ReadSpent: the check reads a ledger that was never filled.
ReadNoSpend(r) ==
  /\ Advance(r, "gated", "weighed")
  /\ \E news \in SUBSET (elsewhere \ heard) : Replay(news)
  /\ known' = [known EXCEPT ![r] = heard']
  /\ UNCHANGED <<storeVars, inputVars, snapshot, carried, settingVars, historyVars>>

\* evaluate(), first await: the ledger's totals, after catching up.
ReadSpent(r) ==
  /\ Advance(r, "gated", "weighed")
  /\ \E news \in SUBSET (elsewhere \ heard) : Replay(news)
  /\ snapshot' = [snapshot EXCEPT ![r] = spent']
  /\ known' = [known EXCEPT ![r] = heard']
  /\ UNCHANGED <<storeVars, inputVars, carried, settingVars, historyVars>>

\* MandateGuard::evaluate on expiry and authority: every hop is alive and
\* has room for the amount on top of what was read.  The tests of service,
\* asset and per-call limit are in MandateTree: here, requests pass them.
Approves(r) ==
  \A n \in Chain[sender[r]] :
    /\ n \in live
    /\ snapshot[r][n] + Price[target[r]] <= Budget[n]

\* record_mandate_path: a no-op when the entry has been dropped meanwhile.
RecordMandatePath(q, a) ==
  path' = IF Stored(q) THEN [path EXCEPT ![q] = a] ELSE path

\* Mutant of Decide: the path is recorded before the decision is looked at.
DecideAfterRecording(r) ==
  /\ \/ /\ Advance(r, "weighed", "allowed")
        /\ Approves(r)
        /\ approvals' = approvals \cup {<<target[r], sender[r]>>}
        /\ UNCHANGED known
     \/ /\ Advance(r, "weighed", "refused")
        /\ ~Approves(r)
        /\ known' = [known EXCEPT ![r] = {}]
        /\ UNCHANGED approvals
  /\ RecordMandatePath(target[r], sender[r])
  /\ snapshot' = [snapshot EXCEPT ![r] = NoSpend]
  /\ UNCHANGED <<store, expired, inputVars, moneyVars, settingVars, verified, runs, transfer>>

\* The decision, and the 403 or the call into the x402 layer.
Decide(r) ==
  /\ \/ /\ Advance(r, "weighed", "allowed")
        /\ Approves(r)
        /\ RecordMandatePath(target[r], sender[r])
        /\ approvals' = approvals \cup {<<target[r], sender[r]>>}
        /\ UNCHANGED known
     \/ /\ Advance(r, "weighed", "refused")
        /\ ~Approves(r)
        /\ known' = [known EXCEPT ![r] = {}]
        /\ UNCHANGED <<path, approvals>>
  /\ snapshot' = [snapshot EXCEPT ![r] = NoSpend]
  /\ UNCHANGED <<store, expired, inputVars, moneyVars, settingVars, verified, runs, transfer>>

\* Mutant of PriceRequest: a quote without a price is never answered.
PriceRequestOrWait(r) ==
  /\ \/ /\ Advance(r, "allowed", "challenged")
        /\ Priced(target[r])
        /\ UNCHANGED verified
     \/ /\ Advance(r, "allowed", "verified")
        /\ Priced(target[r])
        /\ verified' = verified \cup {r}
  /\ UNCHANGED <<storeVars, inputVars, readVars, moneyVars, settingVars, runs, transfer, approvals>>

\* The x402 layer prices the request again.  No price tag means no payment
\* is asked for; otherwise the request carries one the facilitator verifies,
\* or it gets the 402.
PriceRequest(r) ==
  /\ \/ /\ Advance(r, "allowed", "unpriced")
        /\ ~Priced(target[r])
        /\ UNCHANGED verified
     \/ /\ Advance(r, "allowed", "challenged")
        /\ Priced(target[r])
        /\ UNCHANGED verified
     \/ /\ Advance(r, "allowed", "verified")
        /\ Priced(target[r])
        /\ verified' = verified \cup {r}
  /\ UNCHANGED <<storeVars, inputVars, readVars, moneyVars, settingVars, runs, transfer, approvals>>

\* Mutants of Redeemable: no TTL check; no check of the entry's State.
RedeemableLate(q) == store[q] = "open"
RedeemableAgain(q) == Stored(q) /\ ~expired[q]

\* QuoteStore::redeem succeeds.
Redeemable(q) == store[q] = "open" /\ ~expired[q]

\* The handler redeems the quote, or answers 400.
Redeem(r) ==
  /\ pc[r] \in {"verified", "unpriced"}
  /\ IF Redeemable(target[r])
       THEN /\ store' = [store EXCEPT ![target[r]] = "redeemed"]
            /\ runs' = runs \cup {r}
            /\ pc' = [pc EXCEPT ![r] = "working"]
       ELSE /\ pc' = [pc EXCEPT ![r] = "rejected"]
            /\ UNCHANGED <<store, runs>>
  /\ UNCHANGED <<expired, path, inputVars, readVars, moneyVars, settingVars, verified, transfer, approvals>>

\* The repair, the container or the completion: done, or a 502.
Work(r) ==
  /\ \/ Advance(r, "working", "served")
     \/ Advance(r, "working", "failed")
  /\ UNCHANGED <<storeVars, inputVars, readVars, moneyVars, settingVars, historyVars>>

\* Mutant of AskToSettle: an error response is settled too.
SettleAnyResponse(r) ==
  /\ Advance(r, "served", "settling") \/ Advance(r, "failed", "settling")
  /\ transfer' = [transfer EXCEPT ![r] = "asked"]
  /\ UNCHANGED <<storeVars, inputVars, readVars, moneyVars, settingVars, verified, runs, approvals>>

\* The x402 layer asks the facilitator to settle a successful response.
AskToSettle(r) ==
  /\ Advance(r, "served", "settling")
  /\ transfer' = [transfer EXCEPT ![r] = "asked"]
  /\ UNCHANGED <<storeVars, inputVars, readVars, moneyVars, settingVars, verified, runs, approvals>>

\* The facilitator submits the transfer or refuses to, whether or not the
\* request is still waiting for it.
Facilitate(r) ==
  /\ transfer[r] = "asked"
  /\ \E outcome \in {"settled", "refused"} :
       transfer' = [transfer EXCEPT ![r] = outcome]
  /\ UNCHANGED <<storeVars, pc, inputVars, readVars, moneyVars, settingVars, verified, runs, approvals>>

\* The facilitator's answer arrives; or a refusal, an error or a timeout, and
\* the last two say nothing about the transfer.
Settle(r) ==
  /\ \/ Advance(r, "settling", "settled") /\ transfer[r] = "settled"
     \/ Advance(r, "settling", "unsettled")
  /\ UNCHANGED <<storeVars, inputVars, readVars, moneyVars, settingVars, historyVars>>

\* after_settle reads the quote back: its path, or none if it was dropped.
BuildReceipt(r) ==
  /\ Advance(r, "settled", "noted")
  /\ carried' = [carried EXCEPT ![r] = path[target[r]]]
  /\ UNCHANGED <<storeVars, inputVars, readVars, spent, heard, settingVars, historyVars>>

\* The names on the chain a receipt carries.
Hops(a) == IF a = NoAgent THEN {} ELSE Chain[a]

\* ledger.record, once its lock is free; then the HCS queue and the log.
RecordReceipt(r) ==
  /\ Advance(r, "noted", "done")
  /\ spent' = [n \in Names |-> IF n \in Hops(carried[r])
                               THEN spent[n] + Price[target[r]] ELSE spent[n]]
  /\ UNCHANGED <<storeVars, inputVars, readVars, heard, carried, settingVars, historyVars>>

\* The client hangs up and the server drops the request's future, wherever
\* it is waiting: after settlement, its receipt with it.
Disconnect(r) ==
  /\ r \in InFlight
  /\ pc' = [pc EXCEPT ![r] = "aborted"]
  /\ snapshot' = [snapshot EXCEPT ![r] = NoSpend]
  /\ known' = IF transfer[r] = "none" THEN [known EXCEPT ![r] = {}] ELSE known
  /\ UNCHANGED <<storeVars, inputVars, moneyVars, settingVars, historyVars>>

-----------------------------------------------------------------------------
(* The mandate tree, changed by its owner or by time, and other providers. *)

Revoke(n) ==
  /\ n \in live
  /\ live' = live \ {n}
  /\ UNCHANGED <<guarded, elsewhere, storeVars, pc, inputVars, readVars, moneyVars, historyVars>>

Seed(n) ==
  /\ n \notin live
  /\ live' = live \cup {n}
  /\ UNCHANGED <<guarded, elsewhere, storeVars, pc, inputVars, readVars, moneyVars, historyVars>>

\* Another provider settles a payment of an agent below some names.
SettleElsewhere(x) ==
  /\ x \notin elsewhere
  /\ elsewhere' = elsewhere \cup {x}
  /\ UNCHANGED <<guarded, live, storeVars, pc, inputVars, readVars, moneyVars, historyVars>>

-----------------------------------------------------------------------------
Serve(r) ==
  \/ ReadSpent(r) \/ Decide(r) \/ PriceRequest(r) \/ Redeem(r) \/ Work(r)
  \/ AskToSettle(r) \/ Settle(r) \/ BuildReceipt(r) \/ RecordReceipt(r)

Next ==
  \/ \E q \in Quotes : Issue(q) \/ Age(q)
  \/ \E r \in Requests, q \in Quotes, a \in Agents : Gate(r, q, a)
  \/ \E r \in Requests : Serve(r) \/ Facilitate(r) \/ Disconnect(r)
  \/ \E n \in Names : Revoke(n) \/ Seed(n)
  \/ \E x \in Others : SettleElsewhere(x)

Spec == Init /\ [][Next]_vars

\* The runtime polls every ready task, and the RPC, the facilitator and the
\* work itself answer or time out.  That the facilitator ever makes up its mind
\* about a transfer is not assumed.
FairSpec == Spec /\ \A r \in Requests : WF_vars(Serve(r))

-----------------------------------------------------------------------------
(* Properties. *)

\* quotes.rs:183-188 and routes.rs:192-197.  The price is looked up three
\* times (gate, x402 layer, redeem) with awaits in between, and an x402 layer
\* that finds no price asks for no payment.  Even so no handler works unpaid.
NoUnpaidWork == runs \subseteq verified

\* quotes.rs:1-6.  However many paid requests race for a quote, one runs.
OneRunPerQuote ==
  \A r1, r2 \in runs : target[r1] = target[r2] => r1 = r2

\* quotes.rs:36-38, hcs.rs:292.  A receipt bills no chain but one the gate
\* approved for that very quote, whatever requests overwrote the path or
\* purged the entry before settlement.
BilledChainWasApproved ==
  \A r \in Requests :
    carried[r] # NoAgent => <<target[r], carried[r]>> \in approvals

MaxPrice == Max({Price[q] : q \in Quotes})

\* The request's receipt bills name n, or will when it is built as things are.
Receipted(r, n) ==
  \/ pc[r] \in {"settling", "settled"} /\ n \in Hops(path[target[r]])
  \/ pc[r] \in {"noted", "done"} /\ n \in Hops(carried[r])

\* Requests of agents below n that were charged, the quotes they paid, and
\* those of them that the ledger will not have under n: the client hung up or
\* the answer came too late, or the quote's path was purged or overwritten.
Charged == {r \in Requests : transfer[r] = "settled"}
PayersUnder(n) == {r \in Charged : n \in Chain[sender[r]]}
Paid(n) == {target[r] : r \in PayersUnder(n)}
Lost(n) == {target[r] : r \in {x \in PayersUnder(n) : ~Receipted(x, n)}}

\* ledger.rs:15-16, the known gap and its size.  What agents below a name
\* spend, here and at other providers, exceeds its budget by no more than the
\* other requests in flight, what receipts were lost for, and what a payment's
\* own check had not yet heard of others.
OverrunIsAccountedFor ==
  \A n \in Names : \A r \in PayersUnder(n) :
    Sum(Price, Paid(n)) + Sum(Bought, Under(elsewhere, n))
      <= Budget[n] + (MaxInFlight - 1) * MaxPrice
         + Sum(Price, Lost(n)) + Sum(Bought, Under(elsewhere \ known[r], n))

\* A request that came in is answered, refused or cut off; none waits for ever.
EveryRequestEnds ==
  \A r \in Requests : r \in InFlight ~> pc[r] \in Closed

\* Where a quote stands in the contract.
AtWork == {r \in runs : pc[r] \in {"working", "served"}}
InDoubt == {r \in runs : transfer[r] = "asked"}
Claimed(q, reqs) == \E r \in reqs : target[r] = q
PhaseOf(q) ==
  IF Claimed(q, Charged) THEN "charged"
  ELSE IF Claimed(q, InDoubt) THEN "settling"
  ELSE IF Claimed(q, AtWork) THEN "running"
  ELSE IF Claimed(q, runs) THEN "forfeited"
  ELSE IF store[q] = "unissued" THEN "unissued"
  ELSE IF Priced(q) THEN "open" ELSE "lapsed"
phase == [q \in Quotes |-> PhaseOf(q)]

Contract == INSTANCE QuoteContract

\* quotes.rs:1-6.  The request path implements the contract: one run, and a
\* charge only for a run that was served.
ImplementsContract == Contract!FairSpec
=============================================================================
