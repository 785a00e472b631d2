# Levy in TLA+

Levy lets AI agents spend money inside a *mandate tree*: every name of an ENS
subtree carries a budget, a per-call limit, an expiry and permitted services and
assets, and a payment of a leaf is good only if every name above it allows it.
Providers run a *gateway* that sells inference, repairs and containers per call
over x402, settles on Hedera and publishes receipts on an HCS topic. A dashboard in the browser shows the tree, the payments and
the autopilot that repairs a stack on its owner's behalf, and signs changes of
the tree with the owner's wallet; in a demo mode it does the same over a store of
its own.

This directory holds a model of that system: TLA+ modules, TLC configurations
that check them on small instances, and TLAPS proofs about them. Paths below are
relative to the repository.

- [Inventory](#inventory): the parts of the system and what makes them correct
- [Modules](#modules): which module models which part, and how
- [Runs](#runs): what is checked, on which instances
- [Known divergences](#known-divergences): where the code does not do what its comments say
- [Proofs](#proofs): what holds for every instance, and why
- [Limits](#limits): fairness, abstractions, what is left out
- [Plan](#plan): what is done and what comes next

## Inventory

| component | state | operations | works with |
|---|---|---|---|
| Quote store, request path (`crates/gateway/src/{quotes,routes,mandate_guard,main,hcs}.rs`) | `QuoteStore` map: state, price, age, mandate path of each quote | `POST /v1/quote` (insert, purge), then for `/v1/infer`: gate, pricing, payment, redeem, work, settle, receipt | asks the guard, the ledger, the facilitator and one of the providers below |
| Spend ledger, HCS publisher (`ledger.rs`, `hcs.rs`) | totals per name, ids seen, cursor; an in-memory queue | record, sync (paged replay), publish | fed by the receipt hook and by the mirror node; read by the guard |
| Compute broker (`compute.rs`) | tracked containers with deadlines and owners | price, provision, extend, stop, adopt; a reaper task | Docker through its CLI; the guard, for revocations |
| Mandate guard, resolvers (`crates/mandate/src`) | none of its own; the mock has a map | evaluate, check; resolve | ENSv2 registries and resolvers over RPC |
| Registrar (`contracts/src/MandateRegistrar.sol`) | the registry below each bound parent | registerChild, bindParent | ENSv2 registries |
| Wallet actions (`frontend/src/lib/live/wallet.ts`) | none | create child, revoke, renew | the registrar, the registries |
| Ops provider (`ops.rs`) | none; the shop's | price, execute, health, chaos | shell commands |
| Inference provider (`inference.rs`) | none | run | one upstream model |
| Metering (`crates/meter`) | none | count tokens, price, message formats | everything that prices or publishes |
| Model picker (`crates/common/src/models.rs`) | current model, fetch time | resolve, model_unavailable | inference provider, agents |
| Agent client (`crates/agent/src/client.rs`) | none | quote, challenge, purchase | one gateway |
| Agent runner (`agent_runner/main.rs`) | a lock that lets one paid flow run at a time | discover, authorize, plan, purchase, await the receipt | gateways, mirror node |
| Autopilot (`agent_runner/autopilot.rs`) | whether it is armed, last health, current and past incidents, when the last one closed | watch, open, diagnose, repair, verify, close, toggle, respond now | ops provider, runner |
| Allowance drip (`bin/allowance_drip.rs`) | none | scheduled transfer per period | Hedera |
| Demo store, selectors (`frontend/src/lib/{store.tsx,selectors.ts,treeLayout.ts}`) | demo tree, activity | create, revoke, request a payment; roll-ups, layout | the pages |
| Pages over it (`pages/{Agents,AgentDetail,Overview,Activity}.tsx`, `components/agents`) | the creation form | wizard, table, tree, tabs, lists | the store |
| Live data (`frontend/src/lib/live/{useLiveData,ens,adapter,hedera}.ts`) | last snapshot of chain, topic and gateway; the refresh in flight; a backoff | poll, force, walk, merge, derive | RPC, mirror node, gateway; the dialog that mints |
| Run dialog (`components/agents/RunAgentModal.tsx`, `live/runner.ts`) | what the stream said so far, the spend cap typed | start, fold a frame, leave | the runner's stream |
| Autopilot page (`pages/Autopilot.tsx`) | last answer, error, busy | poll, toggle, respond, break and reset; draw an incident | the runner's routes |
| Shell (`app`, `components/{layout,common,demo}`, `hooks/useRestore.ts`) | what is open, busy flags, the body's scroll lock, toasts, the mode | open, close, switch, ask the wallet | everything above |
| Demo shop, scripts, Services and Settings pages | presentation | | |

### What is hard, and what makes it correct

**Request path.** Every request crosses about eight awaits and re-reads the quote
store at most of them: the gate, the x402 layer's price callback and the handler
each look the quote up for themselves, so expiry, a purge or another request can
come in between. Several requests may hold the same quote; a client may hang up
anywhere. It is correct if no work is done unpaid, a quote runs once, a receipt
bills only a chain that was approved, and every request ends. Spending is checked
on entry and recorded after settlement, which the code admits leaves a gap
(`ledger.rs:15-16`); what it does not say is how large the gap can become, with
other providers selling under the same budget, a topic that is heard of late and
receipts that are lost on the way.

**Ledger.** The same settlement arrives twice, from the gateway's own hook and
from the topic, in either order, or not at all, when the buyer hangs up while the
hook waits for the ledger's lock; pages are short, full or fail; a process loses its
queue and its memory. It is correct if each settlement counts once in a ledger, the
cursor never passes one that was not counted, two gateways that have read as far
differ only by what each recorded itself, and what is on the topic reaches all.

**Broker.** A deadline passes while `docker run` or an extension is under way; a
reaper goes through a list it took before its awaits; a payment is verified before
its minutes are granted and settled after, or not; the process dies and finds its
containers again by their labels. It is correct if a container reported torn down is
gone, none is left that nobody will take down, no deadline is later than what was
paid for but by the minutes of payments that never settled, and every deadline and
revocation is acted on.

**Mandate tree.** An evaluation is a few dozen RPC calls, at different blocks, in
parallel, some of which fail, while names are minted, revoked, renewed and edited.
It is correct if an approval rests on facts that held while it was being made, for
every hop, and a refusal blames a hop for what it was. One blame is not so: a live
name that leads nowhere is called expired.

**Runner and autopilot.** A payment is made and its answer lost; the next provider
is then one too many. Runs and incidents compete for one lock. A health check is
answered after the incident that it is about was closed; the switch is used in the
middle of a response. It is correct if an order is paid once, an incident's record
of its spending is nearly complete, a pause lasts until the owner ends it, no
stale answer reopens an incident, and every incident closes.

**Demo store and its pages.** The tree may change under a half filled form, since a
dialog does not keep the keyboard from the rest of the page; meters, roll-ups and the
log are each computed on their own, spending through revoked children and
delegation without them; and every page decides for itself what it offers. It is
correct if nothing lives below a revoked agent, claims fit the authority, meters
and log agree, what is offered is granted, and the list reads like the tree.

**Live data.** One refresh is dozens of calls, some of which fail, to three systems
that change meanwhile and agree late or never: the gateway keeps its newest receipts
until it restarts, and the topic gets those whose submission did not fail. Nobody
reads while the tab is hidden. It is correct if a status shown was true while it was
read, no payment is shown twice or before it settled, and a page that is looked at
catches up with what can still be read once things are quiet.

**Run dialog, autopilot page.** They tell what was paid from a stream or a log of
steps that holds several attempts, breaks off, or is read between two writes.
They are correct if what they say of money is what was or will be charged, if
what they draw is consistent at every instant, and if neither stays busy.

**Shell.** Requests to wallet and runner outlive the dialog, the page and the mode
they were begun in. It is correct if the page can be scrolled again when the last
dialog is gone, a busy flag has something in flight behind it, and no control of the
frame begins a request while the demo is on.

`PROJECT.json` lists hazards one by one, each at its line, with the property
that is about it. Of those known and without one: the reaper stops containers from a
list it copied, though an extension was paid meanwhile (`compute.rs:298`); an
extension is sold by a status recorded earlier (`compute.rs:114`); the mock's
parents may form a cycle (`guard.rs:242`); discovery reads the newest 100
messages (`agent_runner/main.rs:288`); a deployment may stop half-way at the root
(`DeployMandate.s.sol:167`); a response goes on when the stack has become healthy
while it waited (`autopilot.rs:344`); and the paying request has no timeout
(`client.rs:214`).

## Modules

```
QuoteContract <--refines-- Gateway        MCGateway       GatewayProofs
     ^                     SpendLedger    MCSpendLedger   LedgerProofs
     |                     ComputeBroker  MCComputeBroker BrokerProofs
     |                     MandateTree    MCMandateTree   MandateProofs
     |
     +-- Purchase <-EXTENDS- Autopilot    MCAutopilot     AutopilotProofs
            ^                    | refines
            |                    v
            |               IncidentDesk <-EXTENDS- AutopilotPage  MCAutopilotPage
            |                    ^
            +-- RunSteps <-------+---- IncidentView  MCIncidentView  DialogProofs
                   ^
                   +------------------ RunConsole    MCRunConsole    DialogProofs

Selectors <- DemoStore <- DemoPages <- DemoApp       MCDemoApp       DashboardProofs
Dashboard                                            MCDashboard     DashboardProofs
AppShell                                             MCAppShell      DashboardProofs

Totals, a theory of sums: GatewayProofs, LedgerProofs, DialogProofs, DashboardProofs
```

`Purchase` instantiates the contract that `Gateway` is shown to implement: the
buyer's side is checked against what a gateway promises, not against a gateway. In
the same way `IncidentDesk` is what `Autopilot` is proved to implement, and what
the models of its page are built on.

Each system module declares its parameters as CONSTANTS with one named ASSUME,
has one action per handler or per stretch of a handler between two awaits, and
ends with its properties. An operator commented "Mutant of X" is a plausible bug
in X; it is used by no specification and is there to show that a property can
fail. The `map` of `PROJECT.json` gives the source lines of every definition.

### Gateway

| in the model | in the code |
|---|---|
| `store`, `expired`, `path` | a `QuoteStore` entry: its `State`, `issued_at` against the TTL, `mandate_path` |
| `Issue`, `Age` | `insert` and its siblings, which drop expired entries first; time |
| `Gate`, `ReadSpent`, `Decide` | the `gate` middleware: `price_of`, the ledger read inside `evaluate`, then `record_mandate_path` or 403 |
| `Replay`, `heard`, `known` | `spent()` catches up with the topic first, as far as it comes; what each check had heard of other providers by then |
| `PriceRequest` | the x402 layer's dynamic price: no price tag, a 402, or a payment the facilitator verified |
| `Redeem`, `Work` | the handler: `redeem`, then the provider |
| `AskToSettle`, `Facilitate`, `Settle` | settlement of a 2xx: the request to the facilitator, what it does with the transfer, whether or not anyone waits any more, and its answer, or none |
| `BuildReceipt`, `RecordReceipt` | `after_settle`'s read of the quote, `ledger.record` after its lock |
| `Disconnect` | the server drops the request's future at an await |
| `Revoke`, `Seed` | the tree changes; what a chain resolves to is `live` |
| `SettleElsewhere` | another provider settles a payment below the same names |

`guarded` is fixed at start: `main.rs` mounts the gate only where a mandate guard
is configured. `transfer` is the facilitator's side of a request: a request that
timed out or was cut off may be charged all the same. `QuoteContract` is what a buyer
may rely on: issued, then open, then lapsed or run once; then forfeited, or served
and settling, for as long as the facilitator likes; and then charged, or not. `phase`
in Gateway is the refinement mapping.

### SpendLedger

One state per gateway (`last`, `seen`, `spent`), one topic for all of them, and a
mirror node that serves a growing prefix of it. `Settle` is a settlement whose hook
now waits for the ledger's lock (`hooks`); `Record` is the rest of the hook, which
applies the receipt and hands it to the publisher's queue; `HangUp` is a request
dropped in between, and its receipt with it. `BeginSync`, `ReadPage`
and `SyncFails` are the paged replay, which holds the ledger's mutex throughout;
`pages` counts down `MAX_PAGES`. `Publish` submits one message, or logs that it
could not; `Restart` is a process that comes back with nothing in memory.

### ComputeBroker

Broker state is `tracked`, `expires` and `status`; Docker's is `container`,
`label` and `booting`, the `docker run`s that have not returned. `Launch`, `Boot`
and `Track` split `provision` at its await and `Extend` is its other branch; both
leave the job `settling`, since the x402 layer settles what the handler has granted.
`Settle` is the facilitator's answer, and a refusal, a timeout or a hang-up leaves
the job `unsettled` with its minutes granted.
`Untrack` is `stop` up to its await and `Remove` is the rest, so that the stop
route and the reaper can both be inside. `reaper`, `doomed` and `unchecked` are
where the reaper is in its two loops and what it still has in hand. `Crash` and
`Adopt` are a restart.

### MandateTree

`expiry`, `linked` and `policy` are the registries and resolvers along one path;
the actions on them are the registrar's `registerChild`, the resolver multicall,
the wallet's revoke and renew, and the mock's `set` and `revoke`. An evaluation
starts `resolve` for every hop (`Ask`); each hop then walks down one
`getSubregistry` at a time (`Descend`), reads expiry and resolver, then its text
records (`ReadFact`), any of which may fail (`FailRead`, `MissAssets`); and
`Decide` is the guard's verdict over what came back. What a hop has been told is
kept as a set of facts, and a history variable `was` collects every fact that was
true of the hop since the evaluation began, so that properties can say "at some
instant of this evaluation". `Cause` says what makes a blame true; `LedNowhere` is
the one case where the code's is not.

### Purchase and Autopilot

| in the model | in the code |
|---|---|
| `busy`, `queued` | `Runner.busy`; `TryLock` is `run`'s `try_lock_owned`, `LockOrWait` is `respond`'s `lock_owned`, which queues |
| `Begin`, `Try`, `Pay` | `purchase`: discovery, quotes and the budget; `authorize` and `challenge` of the cheapest offer left; the answer of `client.purchase` |
| `phase`, `sent`, `Serve` | the quotes at their gateways, once a paying request went out; a gateway goes on when its client has given up |
| `known`, `streak`, `reading`, `age` | `State.provider`, `unhealthy_streak`, the health check under way |
| `CheckFindsOutage` with `MayOpen`, `RespondNow` | `watch_once` and `respond_route` opening an incident |
| `Diagnose`, `Plan`, `Repaired`, `Blocked`, `Verify` | `pipeline`, one action for each of its ends and each order it places |
| `GiveTurn`, `Close`, `quiet` | the end of `respond`: the lock first, then the incident; COOLDOWN |
| `Toggle` | `toggle_route` |

Discovery and quoting are one step (`Begin`): no other actor's step depends on
them, and which sellers are found and answer is left open. Orders are numbered
within the flow that holds the lock and forgotten when it lets go, so nothing is
unbounded; that a gateway may still charge after its client has given up is kept
by `MayCharge`, which counts whatever was sent and not forfeited. `trigger`,
`recorded` and `outcome` are fields of `State.current`. `unresolved` and `excused`
are history variables for the properties.

### IncidentDesk

Four variables: the switch, whether the last health check was bad, who triggered
the open incident and how far the response is. `Autopilot` maps `streak > 0`, its
`stage` and its `outcome` onto it (`Desk`, `Course`).

### Selectors, DemoStore, DemoPages, DemoApp

`Selectors` is `selectors.ts` and `treeLayout.ts` as functions of an index of agents
and a log: the tree, roll-ups, windows of days, derived status, layout in
sixteenths of a pixel. `DemoStore` has `agents`, `events` and a clock; `Objections`
and `Breaches` are the tests of `createAgent` and `requestPayment` (which of them
is reported is wording), `Doomed` the recursion of `revokeAgent`. `DemoPages` is what
list, table, tree, tabs, overview and activity make of it, each one a function.
`DemoApp` adds `form`, the four-step wizard with its bounds and the summary's
`Ticks`, and the buttons that change the store behind it (`RevokeNow`, `PayNow`). The
seed is any index and log with what `mockData.ts` makes sure of (`SeedAssumption`):
children and parents agree, grants fit, nobody is revoked, and the payments add up to
what each agent spent.

### RunSteps, RunConsole

`RunSteps` is `Purchase` with what `main.rs` emits at each of its steps. `RunConsole`
puts a stream (`frames`, `link`) between it and the dialog: `Read` folds a frame
with `Reduce`, `Break` loses the rest, `Leave` closes the dialog and aborts the
request while the runner pays on. `run` is the set of step kinds seen since the
dialog's last start, from which `Lifecycle` and the seven stages are derived. `mine`
tells whether the runner's current task is the one shown; `asked` is the cap a run
was started with.

### Dashboard

`log` is the history of the registries' events, `alive` the names that have not
lapsed, `deep` how many events lie below the confirmed head. A refresh is
`BeginRefresh`, which asks for the head and so fixes what `Walk` finds, a
`ReadState` for each name, `ReadRecords`, `ReadGateway` and `Commit`, any of which
may fail within `MaxFaults`; its `was` and `wasnt` collect, as history, which names
were alive and which were not meanwhile.
Of the payments some are this gateway's `Own`: `Settle` puts their receipts on its
list `held`, which keeps the newest `ListCap`, and in its publisher's `queue`, or loses
them; `Publish` submits the oldest, and drops it if that fails; `Restart` empties both
list and queue. Other providers' come by the topic alone (`SettleElsewhere`). The timer
polls while the document is not `hidden` (`Poll`), and coming back to it polls at once
(`Look`, `LookAway`). `StatusOf`, `Receipts` and `SpentShown` are the adapter. `FillIn`, `Mint`,
`WriteRecords`, `AwaitRefresh` and `Cancel` are the dialog that creates a live
agent from what is shown.

### IncidentView, AutopilotPage

`IncidentView` composes the desk, the orders of a response and the log of steps;
`pending` holds what the response is about to write, one lock at a time (`Write`),
and the lanes, the chip and the sentences about money are functions of what is
written. `AutopilotPage` has `calls`: polls and buttons as slots that are sent,
served and answered separately, fail, or outlive the page that asked.

### AppShell

One variable for each thing that may be open, `busy` for each flag, a bag `acts` of
what is in flight, each with the stage it is in. `Rerender` is one commit of React: it
works out which modals left, came or ran their effect again (`Restless` ones are
given a new handler at each render), applies their cleanups and effects to
`locked`, and forgets the flags of what was unmounted.

## Runs

Runs that pass explore their whole state space.

| run | instance | shows |
|---|---|---|
| `gateway` | 2 quotes of price 1, 2 requests, 2 agents, budget 1, 2 in flight, guarded or not, a sale at another provider under the same budget, fair | `NoUnpaidWork`, `OneRunPerQuote`, `BilledChainWasApproved` through expiry, purges, hang-ups, revocation and reseeding; `OverrunIsAccountedFor`: what agents spend past a budget is at most the other requests in flight, the receipts that were lost, and what the last check had not heard of; every request ends, and the request path implements `QuoteContract` with its liveness |
| `ledger` | 2 gateways, 2 settlements, 1 other message, pages of 1, 2 pages a sync, 1 restart, fair | totals count once, the cursor skips nothing, gateways that read as far agree up to their own records (`LedgersAgree`), and what is on the topic reaches every ledger |
| `broker` | 2 jobs of one agent, 2 instants, 1 restart, payments that settle or do not, fair | `ReportedIsGone`, `NoStray`, `FreeMinutesAreOwed`, `EveryDeadlineIsKept`, `RevocationStops` |
| `mandate` | 2 levels, 1 or 2 of them deployed, 2 changes of the tree, both backends | `ApprovalHeld`, `BlameIsExplained` |
| `mandate_blame` | the same | refutes `ExpiredMeansExpired`, which `ens.rs:15-17` promises ([divergence 6](#known-divergences)) |
| `autopilot` | 2 providers, 2 repairs a plan, 2 checks to confirm, a cooldown of 2 ticks, fair | `OnePaymentPerOrder`, `MissedSpendIsBounded`, `EvidenceIsFresh`, `EveryIncidentCloses`, `ImplementsDesk`, over any number of runs and incidents |
| `demo` | a root and a team that has spent, 2 agents to create, 2 events, 2 days | `NothingLivesBelowRevoked`, `ClaimsFit`, `MetersMatchLog`, `OffersAreKept`, `ReadsLikeTheTree` |
| `console` | 3 providers, one dearer, caps of 0, 1 and 3, any number of runs, fair | `NothingPaidIsTrue`, `PaymentShownIsTheBill`, `DialogLetsGo` |
| `dashboard` | root, a child, and a grandchild to be minted, 2 payments to the gateway and 1 to another, 2 changes or payments, a list and a topic window of 1, 1 failed call, fair | `StatusWasTrue`, `SpendIsNotOverstated`, `CatchesUp` |
| `incident` | 2 providers, plans of up to 2 repairs, any number of incidents | `LanesAgree`, `MoneyIsTrue` |
| `page` | 2 calls under way, 2 changes, 2 presses, 1 failed call, fair | `PageSettles` |
| `shell` | a live and a demo agent, 3 things open or in flight at once | `ScrollIsGivenBack`, `BusyTellsTheTruth`, `DemoStartsNothing` |

### Bounds, and why they are enough

- `Quotes`, `Requests`, `MaxInFlight` (Gateway): a request is one HTTP exchange.
  Two in flight are needed to race for a quote, and the insert of the other quote
  purges the one they race for. Two agents let one overwrite the path of the other's
  quote. One sale elsewhere (`Others`) can be heard of before a check, after it or
  never, and with it a check that forgot what was spent would exceed the bound of
  `OverrunIsAccountedFor`.
- `Price`, `Budget`: all 1, so that every budget is exhausted by one payment and
  any second approval is an overrun.
- `PageSize`, `MaxPages` (SpendLedger): with pages of 1, two of them and three
  messages, a sync can end on a short page, on a full last page and at the page
  limit with more to read. `MaxNotes` 1 puts a message that is no receipt before,
  between or after them. `MaxCrashes` 1 because a second restart starts from the
  state the first one does.
- `Minutes` 1, `MaxTime` 1 (ComputeBroker): a deadline can be ahead and now;
  extension and crash fall in any order. Two jobs suffice, one of which may
  extend the other. `Answers` is how settlements end. The view of the run
  (`WhatMatters`) leaves out the label of a container that is gone and how its
  teardown went, which no guard and no property reads any more.
- `Depth` 2, `MaxTime` 1, `MaxTxs` 2 (MandateTree): root and agent; an evaluation
  sees the tree before, between and after two changes, and names that expire
  under it. A third level only repeats the walk; the theorems below are for any
  depth.

- `MaxActions` 2, `Cooldown` 2, `FetchTimeout` 1 (Autopilot): a plan has a repair
  before its last; a check can be as old as it gets and still fit the cooldown,
  as the code's 8 s fit its 10 s. Two sellers of inference, one dearer than some
  budgets reach, are what it takes to pay the wrong one or a second one. There is
  no bound on runs or incidents.

- `Ids` 4, `MaxEvents` 2 (DemoApp): with the seed's two agents, two more make a tree
  four deep or two wide; two events of the store after the seed's are a creation
  and a revocation or payment, in either order, under an open form. Authority 9 and
  5, a budget of 2 and a payment of 3 make each limit the one that bites somewhere;
  days of 4 instants put a payment on either side of midnight.
- `Providers` 3 (RunConsole): one to fail, one to pay and a dearer one beyond a
  cap. A cap of 3 is above `MaxAtomic`, to which the runner clamps it.
- `MaxChanges`, `MaxFaults` (Dashboard, AutopilotPage): one change or payment before
  and one after any call of the refresh under way; more failures only begin the same
  wait again. `Window` 1, `ListCap` 1 with two payments: the topic's newest page misses
  a receipt and the list drops one, by count and not by fault.
- `MaxAtOnce` 3, `ToastsKept` 1 (AppShell): two stacked dialogs and a request in
  flight, or three of either; toasts only count to their limit.

Deadlock is checked in `autopilot`, `console`, `incident`, `page` and `shell`: in
the others requests, jobs, clocks, transactions or events are finite, so the model
runs out where the program would wait for the next call.

## Known divergences

Where the code, as modelled, does not do what a comment, a page or a name says. The
properties of the runs state what does hold.

Providers:

1. `quotes.rs:106`, `ledger.rs:11`: a receipt carries the mandate path that
   authorized it. The path is read back from the quote store after settlement; a
   quote redeemed near the end of its TTL may be purged by then, and settles without
   a path, and another agent's request for the same quote may overwrite it. What
   holds is that a billed chain was approved for that quote.
2. `hcs.rs:196`: the topic is called the source of truth for spending across
   restarts, but a submit that fails is only logged and the queue is in memory.
3. `compute.rs:322-328`: "A backend hiccup (RPC down) must not tear down paid
   infrastructure" — `evaluate` maps backend errors to `Unresolvable`, on which the
   reaper does.
4. `compute.rs:246-262`: adopted containers are said to keep their deadlines; an
   extension is not on the label that `adopt` reads.
5. `ens.rs:215`: a failed read of `allowedAssets` counts as a record never set.
6. `ens.rs:15-17`: "an expired entry surfaces as `AncestorExpired`", and "dead
   ancestors are attributed precisely". `ens.rs:134` calls any ancestor without a
   subregistry expired whose expiry is not 0, so a name that was registered and not
   linked yet is blamed as expired while it is alive. Run `mandate_blame` shows it;
   `BlameIsExplained` says what is left.
7. `compute.rs:134-135`: "Called only after the payment is verified; settlement follows
   only if this succeeds" — and may fail, time out or be cut off, and then a container
   runs, or was extended, for minutes nobody paid for. `FreeMinutesAreOwed` bounds them.
8. `ledger.rs:7-8`: "A receipt this gateway settles counts immediately" — when the
   buyer hangs up while the hook waits for the ledger's lock (`hcs.rs:310`), it counts
   nowhere and is never published.

Dashboard:

9. `selectors.ts:43`: "the three always sum to `authority`" fails once a revoked
   child had spent: its grant returns, its spending stays. Restricted accordingly in
   `MetersMatchLog`.
10. `CreateLiveAgentModal.tsx:57-59`: the sum of the children's budgets "is kept
    here", but from a view that may be stale; two mints from one view exceed it.
11. `RunAgentModal.tsx:229-231`: "nothing was paid" may be wrong once the stream broke.
12. `Autopilot.tsx:844`: "Nothing was paid for the repair." may be wrong when an
    earlier repair was paid or an answer lost; `MoneyIsTrue` excludes both.
    `Autopilot.tsx:259` says "No person involved." of a manual response too.
13. A revocation confirmed in demo mode for a live agent announces "Agent revoked"
    and does nothing (`AppShell.tsx:128-137`); "Revoke not sent" may be said of one
    that was sent when waiting for its receipt fails; "can authorize payments again"
    (`useRestore.ts`) is said of an agent whose parent is dead; a finished revocation
    or creation closes whichever dialog of its kind is open by then; "Sign 2
    transactions" may be pressed twice before the simulation returns.
14. A failed multicall chunk shows names whose expiry was not read as active, and a
    failed level of the logs drops a subtree (`ens.ts`).
15. The agents' table offers no child under an expired agent while its page does, by
    the stored status (`AgentTable.tsx`, `AgentDetail.tsx`); Activity's "Today" is
    the last 24 hours, Spending's since midnight.
16. `selectors.ts:175-181` keys the bars of a chart by `today - i * 86_400_000`. Behind a
    change of the clocks those are not the days' beginnings, and payments of such days
    are in no bar, in a shorter window or a longer one.
17. "Nothing touches … or Hedera" (`AppShell.tsx:67-68`): a revocation confirmed before
    the switch to the demo waits for the wallet, is signed and mined under that banner;
    and the autopilot's page, which has no demo, toggles, breaks and responds for real.
    What holds is that no control of the frame begins a request (`DemoStartsNothing`).
18. `useLiveData.ts:26-27`: "HCS carries the same receipts" — but those whose submission
    failed or that were queued at a restart, and those behind its newest messages. Once
    the gateway has restarted, or has had a hundred others since, such a payment is
    shown no more, and what an agent is shown to have spent goes down.
19. "Payment could not be settled" (`RunAgentModal.tsx:517`) is said after a lost answer
    too, when the payment may settle.

## Proofs

Proofs are in modules of their own, in TLAPS. They assume the named ASSUME of the
module and nothing else: any number of quotes, requests, gateways, jobs or levels,
any bound.

**GatewayProofs.** `TypeCorrect`, `WorkIsPaid`, `QuoteRunsOnce`,
`BillingIsApproved`, `ContractHolds`, `OverrunHasASize`. `NoUnpaidWork` is not
inductive: a request that was told "no price" is never asked for a payment, and would run unpaid if its
quote were open when it redeems. `PayInv` adds that such a request's quote is
unredeemable, and stays so because no entry ever goes back to open; and that a run
leaves its quote redeemed or purged, which is why there is only one. `BillInv` says
every path in the store was approved for that quote. With `ChargeInv`, which says
where a settled request can be, `ContractHolds` shows that every step moves one
quote's `phase` along the contract or leaves all of them alone.

`OverrunHasASize` gives the gap of `ledger.rs:15-16` its size. The bound is not
inductive: nothing in it says why the next record fits. `AccountInv` says what a total
is, what this process recorded and what it heard of others; `OverrunInv` adds to the
first what is still to be billed (`Pending`: requests weighed or served whose quote can
be paid, once for each quote), and says that what a name so owes (`Owed`), with what
the last check of each request had heard of others (`known`), is at most the budget and
`MaxInFlight - 1` times the largest price. A request that is weighed either fits the
budget as it was read, in which case it and the others in flight make the bound, or is
refused; one that records moves its price from one summand to the other; and what is
lost only leaves. What is charged is then owed or lost (`PaidIsOwed`). The assumptions
this added are that quotes and sales elsewhere are finitely many, that there is a quote
and that at least one request may be in flight. Nothing is assumed of how often the topic
is heard of: that `known` may be nothing at all is the case where every sync fails.

**LedgerProofs.** `LedgerInvariant`, `CursorSkipsNothing`, `ProvidersAgree`,
`SettlementsCountOnce`. The strengthening (`CursorInv`) keeps each cursor behind what the mirror node
serves, and that within the topic, which only grows: a page that was read is read
for good. `SeenIsHeard` is the invariant behind `ProvidersAgree`: a ledger holds what
lies before its cursor and what its gateway recorded since it started, neither more nor
less, so that equal cursors leave only the records to differ. For `CountedOnce`, `SumInv` ties each total to the finite set of settlements
seen; a page adds the sum over those of its messages that are new, which is a sum over
a set disjoint from it (`ApplyCountsOnce`).

**BrokerProofs.** `BrokerInvariant`, `TypeCorrect`, `TeardownIsFinal`,
`EveryContainerIsWatched`, `MinutesAreAccountedFor`. `JobInv` says which containers,
entries and removals can exist at each stage of a job, so that a late `docker run`
and a teardown never concern the same container; `DeadlineInv` that a deadline is
the one on the label, from which `adopt` takes it, put off at most once by each
extension that was granted. Such a job, and the one the container is of, has paid or
still owes: no stage forgets a settlement that is out.

**MandateProofs.** `TreeInvariant`, `TypeCorrect`, `ApprovalsHeld`,
`BlameHasGrounds`. Both are action properties of `Decide`. The invariant says
that what is known of a hop (`got`, how far its walk came, its answer) was true of
it since the evaluation began, or comes from a call that failed; with the clock
only moving forward, an expiry accepted earlier and re-tested by `Decide` is
still ahead. For a blame it says which facts a hop's answer comes from; the walk's
answer for an ancestor that led nowhere is the one that need not be true of it, and is
kept apart (`Explained`).

**AutopilotProofs.** `AutopilotInvariant`, `TypeCorrect`, `OrdersArePaidOnce`,
`SpendIsNearlyComplete`, `PausesHold`, `EvidenceStaysFresh`,
`AutopilotKeepsItsPromise`. `FlowInv` ties the
lock to its holder's stage and bounds the orders it has placed. `SpendInv` is why
trying the next provider is safe: while an offer is considered, every quote sent
for the order is dead, and while one is being paid, every other is. `RecordInv`
says that only the first order of a response can be missing from its record before
the last. `SwitchInv` says that a check older than the last incident has, together
with the quiet time left, at least COOLDOWN; it is answered within FetchTimeout,
which is less, so the quiet time is not over. The assumption
`FetchTimeout < Cooldown` is the code's 8 s against 10 s, and is needed.
`AutopilotKeepsItsPromise` is the refinement of `IncidentDesk`: every step maps to a
step of the desk or leaves it alone, given `OpenInv`, which says that an incident
has a trigger exactly while a response is at some stage.

**DashboardProofs.** Of `Dashboard`: `ShownSpendIsReal`, `ShownStatusWasTrue`. The invariant `Travels` follows a receipt
through every place it is copied to: the gateway's list and its publisher's queue, the
topic, the refresh in flight and the two halves of the snapshot hold settled payments
only, stale or not. That each is counted once is then a lemma about the merge: what a name is
shown to have spent maps one to one into what settled for it.

For the statuses, `ReadInv` says that what a refresh has read of an expiry was so
since it began, and that it found no name without those above it; `TreeInv` is why:
a name is minted where its parent is, so every prefix of the log holds, with a name,
all above it, and a parent is at no greater depth than its children, so a walk that
is cut short holds them too. `Above` is a recursive function; that one exists is shown
by giving it (the names in every set that holds the parent and the parents of its
members), and that it stays within such a set by taking the first exception in the
order of the walk. This is what the assumption that the walk lists parents before
children is for: it is breadth first (`ens.ts:228-290`).

Of `AppShell`: `ScrollComesBack`, `FlagsTellTheTruth`, `DemoBeginsNothing`.
`ScrollIsGivenBack` is inductive as it stands: a commit unlocks for what leaves
before it locks for what comes, so that the lock is kept without a dialog coming
only if none left. `BusyTellsTheTruth` is not: `ShellInv` adds that what is in
flight is a finite bag of requests, that a revocation in flight is still mounted
(its confirmation belongs to the frame, which no mode takes away) and there once,
and that a flag that is up has a mounted request. A commit is the step to prove:
it maps the requests, and two that differed only in being mounted may become one
request there twice, so sums over the bag are kept fibre by fibre
(`CommitTells`, `Totals!TotalByParts`). `DemoBeginsNothing` follows step by step:
every control that adds a request is disabled in the demo, and no commit adds one.

Of `DemoApp`: `RevocationReachesAll`, `GrantsHold`, `MetersHold`, `OffersHold`. They
rest on one invariant (`DemoInv`): the index is a tree (`IsTree`: who lists a child is
its parent, and a depth exists that grows downwards), each grant holds what was spent
and handed on (`AuthorityFits`), and whoever has a revoked parent is revoked
(`RevokedBelow`). A step of the store rewrites the index as a whole, so each part is
shown of the new one: a creation adds a leaf one deeper than its parent, a revocation
moves a set that is closed downwards, a payment leaves the tree alone and takes from
what was free.

The code walks the tree by recursion, the model by recursive functions, and the
properties speak of what the walks return. Three are opened, always in the same way.
`Descendants` is what every set holds that has the children of the agent and of its own
members (`Reach`), since that solves its equation; `Ancestors` and `RollupSpent` exist
because a solution on part of the tree can be given for one agent more
(`ClimbsOneMore`, from the roots down, `GathersOneMore`, from the leaves up). Where an
induction over the tree is meant, a set of exceptions has a member whose parent is not in
it and one whose children are not (`SomeTop`, `SomeBottom`). `SubtreeBound`, for
`GrantsHold`, is such an induction, and is not `ClaimsFit` itself: of a revoked agent it
says more, that its subtree spent no more than what the revoked in it had. Sums over a
subtree are taken child by child (`TotalOverTrees`), which needs that the subtrees of
siblings are apart. `MetersHold` adds that the log accounts for the meters
(`LogFits`); an event put in front moves every index of the log by one
(`LogAddsUp`), and an agent that is new has nothing in it yet.

`SeedAssumption` is what is assumed of the demo's data, and holds of `SEEDS`,
`buildAgents` and `buildPayments` (`mockData.ts:151-338`). No assumption is made about
the calendar but that days begin somewhere (`CalendarAssumption`).

**DialogProofs.** Of `RunConsole`: `DialogInvariant`, `NothingIsPaidUnsaid`,
`PaymentShownIsReal`. What the dialog shows lags behind the task by whatever is still
in the stream, so no invariant of what it shows alone is inductive. `StreamInv` speaks
of all the readings that the messages under way will make of it, one after the other
(`Heard`): each is `Sound`, that is, shows nobody as paid but one who was and whom
nobody will follow, and no failure next to a payment; and the last one is `Told`, tied
to how far the purchase is. A message said lengthens that chain of readings (`HeardOn`),
one read shortens it (`HeardHead`). Sound readings stay sound because being the one who
was paid (`Payee`) is for ever. `PurchaseInv` is the buyer's side: while an offer is
considered every quote sent is forfeited, and while one is being paid every other is.
The chain is a function that exists rather than a recursive operator, so that no
induction over the stream is needed. TLC checked the invariant with the chain
computed.

Of `IncidentView`: `LanesNeverDisagree`, `MoneyIsToldTruly`. Neither property is
inductive: a lane is read off what is written, and what is written lags behind the
response by what it is still about to write (`pending`). `LanesInv` ties how far the
response is (`course`) to which of `diagnosis`, `repaired` and `recovered` is written
or about to be (`Narrated`); that each of these is written before the next, though
several may be pending, follows from when they are said; and a status is final
exactly once the incident is closed. It rests on who holds the lock and where its
order is (`TurnInv`), and on the buyer's side as in `AutopilotProofs` (`ShopInv`).

For money, the page sorts the log by order: the n-th is what is written from one
`ordering` to the next, so `Said(i, w, n)` says that the i-th step is w and about
order n, and `CountInv` that the orders written and those about to be are the orders
placed. A step is `Right` if whom it names is `Gone` (that quote is forfeited, or
nobody's bill has it) or, for a refusal, a budget or nobody left, if the whole order is
`Clear`; a `settled` is right if the last one chosen is `PaidTo`. These three facts
are never taken back (`Kept`) and a bill only gets smaller (`Less`), but for the order
under way when a paying request goes out. So `PendingInv` puts them of what is about to
be written, when it is said; `LogInv` of what is written, when it moves from one to the
other; and `LossInv` says that an order that stopped with its money in doubt says so
(`payment_failed`). A step of the system has one of six shapes (`Shapes`): an incident
begins, an order is placed, an offer is tried, one is paid, something is written, or
all that is left alone and the desk, the lock or a gateway moves. `Purchased`, `Chosen` and `Stopped`, as the page computes them, are
then the last of those steps (`ThoseSaid`, `TheLast`).

**Totals.** What the sums over ledgers, requests, bags and trees need. `MapThenSumSet` is defined by a recursive
function on sets; that it exists, adds one element at a time, is the sum of the sums of
two disjoint parts and is bounded by a count times a largest value is proved by smallest
counterexample: among the sets that a statement fails for, one has the fewest elements
(`SmallestSet`), and one element less gives a contradiction. No induction theorem
with an operator for a parameter is used.

Type invariants and `PausesHold` are proved and no run repeats them.

Model-checked only: everything under fairness (`EveryRequestEnds`,
`EveryLedgerCatchesUp`, `EveryDeadlineIsKept`, `RevocationStops`,
`EveryIncidentCloses`, `DialogLetsGo`, `CatchesUp`, `PageSettles`, the liveness of
`QuoteContract`), which this prover cannot do; and `ReadsLikeTheTree`, which is about
positions in a concatenation of walks and in a layout, each an induction over
sequences.

## Limits

**Fairness.** `Gateway`: weak fairness of each request's own next step. The
runtime polls ready tasks, its locks are held across no unbounded wait, and the
facilitator and the work are HTTP requests or child processes that return. That the
facilitator ever decides on a transfer it was asked for is not assumed.
`SpendLedger`: the publisher loop and the mirror node go on, agents keep asking,
and a mirror node that is read again and again answers sometimes (strong fairness
of `ReadPage`: each attempt may time out). `ComputeBroker`: the reaper's loop goes
on and its revocation interval does elapse (`Survey`, strong: most rounds skip
it); `docker rm` returns. An RPC or Docker call that hangs for ever would stop the
reaper; the code sets no timeout on either, so this is an assumption. `Autopilot`:
the runner's tasks are polled and their calls return, with or without an answer
(`Buying`, `Respond`, `EndRun`); nothing is assumed of gateways, the detector, the
owner, or those who start runs. Only some of the runner's calls have a timeout
(`authorize` 20 s, health 8 s, discovery 5 s); for the quote, the probe and the
payment it is an assumption, without which a provider that never answers holds the
lock.

`RunConsole`: the runner's calls return, its task is
polled, and what it emitted arrives or the stream is seen to break. `Dashboard`:
blocks go by, the timer polls while the document is visible, calls return (there is no
fetch timeout: a hung request would block every later refresh) and the backoff ends.
That a receipt is published is not assumed, and that someone looks, again and again, is
a premise of `CatchesUp`.
`AutopilotPage`: the interval goes on, and calls are answered or fail.

**Abstractions.** Prices, budgets and amounts are small numbers, already parsed;
a name's services are tested like its per-call limit and left out. In Gateway the
service, asset and per-call tests of the guard are constants of a request, so
`Approves` is about expiry and budget, and the tree's interior is `live`; in
ComputeBroker it is the set of agents whose chain stands. MandateTree opens that
box. Its clock is both the chain's and the gateway's. In SpendLedger a message is
one entry of the topic, also where HCS would chunk a long one. Docker, the facilitator, the
mirror node, React and the ENS registries are environments, modelled from how the
code uses them. In the dashboard's modules text, layout and icons are left out
except where a property is about them: a step of a stream is its kind, a sentence is
whether it is shown. `AppShell` leaves out the mobile navigation, the notice that
there is no wallet, the page's own Restore button and the command menu's cursor;
`DemoApp` takes one policy and two services; `Dashboard` leaves out the payer's
balance, refusals and the runner's list of providers, which are kept the same way.

**Not modelled.** The ops and inference providers keep no state of their own: they
are `Work`, which succeeds or fails. Metering is arithmetic and wording. The
allowance drip fires and logs. The model picker is a cache that nothing modelled
depends on. The list of running containers in the browser (a poll begun before Stop
may show the container again until the next), the policy simulator and its
checklist, `effectiveCeiling`, the Services and Settings pages, the formatting of
activity, the demo shop and the scripts.

## Plan

Order: what may lose money first, then what may mislead its owner.

1. *(done)* `QuoteContract`, `Gateway`: the request path, and its promise.
2. *(done)* `SpendLedger`: spending as each provider knows it.
3. *(done)* `ComputeBroker`: infrastructure that must end.
4. *(done)* `MandateTree`: what an approval and a refusal rest on.
5. *(done)* `Purchase`, `Autopilot`: how the runner spends, on its users' behalf
   and on its own. Left: what discovery reads from the topic, the planner of
   compute jobs, and the wait for a receipt that was never published.
6. *(done)* `IncidentDesk`, and the proof that `Autopilot` implements it.
7. *(done)* `Selectors`, `DemoStore`, `DemoPages`, `DemoApp`: the browser's tree.
8. *(done)* `RunSteps`, `RunConsole`, `IncidentView`, `AutopilotPage`: what owners are
   told of what is spent.
9. *(done)* `Dashboard`, `AppShell`: live data, and the frame around it.
10. `Restart` of the runner: `AUTOPILOT=1` arms it again, a pause is forgotten, and
    so is an incident whose repair was paid.
11. `ModelPicker`, running containers, `effectiveCeiling` against the guard's verdict.

Theorems to come: `ReadsLikeTheTree`, once its walks are stated without positions.
