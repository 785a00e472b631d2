------------------------------ MODULE Dashboard ------------------------------
(***************************************************************************)
(* The dashboard on live data: how a refresh reads the tree from Sepolia,  *)
(* and the payments from a gateway and from the topic, one call after the  *)
(* other while all three change; what the pages make of the last snapshot; *)
(* and the dialog that mints a child from what they show.                  *)
(*                                                                         *)
(* Registries and the registrar are modelled as far as the dashboard uses  *)
(* them, and of the gateway its list of receipts and its publisher; time   *)
(* only by names that lapse.  The payer's balance, the list of providers   *)
(* and refusals are read and kept the same way and left out.               *)
(***************************************************************************)
EXTENDS Integers, Sequences, FiniteSets, FiniteSetsExt, SequencesExt

CONSTANTS
  Names,       \* names of the tree
  NoName,
  Parent,      \* Parent[n]: the name over n, or NoName
  Order,       \* the names in the order the tree is walked
  Existing,    \* those there from the start
  Grant,       \* Grant[n]: the budget of an existing name
  Amounts,     \* budgets the owner may give a child
  Payments,
  PaidBy,      \* PaidBy[p]: the name a payment is made for
  Own,         \* payments to the gateway that is read; others are to providers
               \* that share its topic
  ListCap,     \* LOG_CAPACITY: receipts the gateway's list holds
  Window,      \* messages of the topic a refresh reads: maxPages times 100
  MaxChanges,  \* bound on changes of the tree and payments, together
  MaxFaults    \* bound on calls that fail and on restarts of the gateway

\* The tree is walked breadth first, and a name is registered in the registry
\* of the name above it.
ASSUME DashboardAssumption ==
  /\ Parent \in [Names -> Names \cup {NoName}]
  /\ NoName \notin Names
  /\ Order \in Seq(Names) /\ IsInjective(Order) /\ ToSet(Order) = Names
  /\ \A i \in DOMAIN Order :
       Parent[Order[i]] \in {Order[j] : j \in 1..(i - 1)} \cup {NoName}
  /\ Existing \subseteq Names
  /\ \A n \in Existing : Parent[n] \in Existing \cup {NoName}
  /\ Grant \in [Existing -> Nat]
  /\ Amounts \subseteq Nat
  /\ PaidBy \in [Payments -> Names]
  /\ Own \subseteq Payments
  /\ ListCap \in Nat /\ Window \in Nat

VARIABLES
  log,      \* events of the registries and the registrar since the deployment
  deep,     \* how many of them are at least three blocks old
  alive,    \* names whose expiry is in the future
  written,  \* names whose records are written
  settled,  \* payments settled on Hedera
  held,     \* ReceiptLog: the gateway's list, newest last
  queue,    \* receipts its publisher is to submit
  topic,    \* receipts on the topic, in consensus order
  shown,    \* last.current, as far as it is modelled
  load,     \* the refresh in flight
  backoff,  \* whether the gateway is backed off
  hidden,   \* document.hidden
  wizard,   \* CreateLiveAgentModal
  faults    \* faults so far

chainVars == <<log, deep, alive, written>>
payVars == <<settled, held, queue, topic>>
timing == <<backoff, hidden>>
viewVars == <<shown, load, timing>>
vars == <<chainVars, payVars, viewVars, wizard, faults>>

-----------------------------------------------------------------------------
(* The tree. *)

Entry(kind, n, b) == [kind |-> kind, name |-> n, budget |-> b]

Mints(events) == {e \in ToSet(events) : e.kind = "mint"}

Minted(events) == Existing \cup {e.name : e \in Mints(events)}

\* What a name was minted with, in its record too once that is written.
BudgetOf(n) ==
  IF n \in Existing THEN Grant[n]
  ELSE (CHOOSE e \in Mints(log) : e.name = n).budget

\* An unregister after the latest activation.
Unregistered(events, n) ==
  LET own == SelectSeq(events, LAMBDA e : e.name = n)
  IN own # <<>> /\ own[Len(own)].kind = "unregister"

\* The names above each.
Above[n \in Names] ==
  IF Parent[n] = NoName THEN {} ELSE {Parent[n]} \cup Above[Parent[n]]

Depth(n) == Cardinality(Above[n])

Depths == {Depth(n) : n \in Names}

InFlight == load.ens # "none"

\* What has happened so far.
Changes == Len(log) + Cardinality(settled)

\* A change on chain, as a refresh in flight lives through it.
Observe(now) ==
  load' = IF InFlight
          THEN [load EXCEPT !.was = @ \cup now, !.wasnt = @ \cup (Names \ now)]
          ELSE load

Change(entries, now) ==
  /\ Changes + Len(entries) <= MaxChanges
  /\ log' = log \o entries
  /\ alive' = now
  /\ Observe(now)

\* Anyone with the role unregisters a name; its expiry is now.
Revoke(n) ==
  /\ n \in alive
  /\ Change(<<Entry("unregister", n, 0)>>, alive \ {n})
  /\ UNCHANGED <<deep, written, payVars, shown, timing, wizard, faults>>

\* A dead name under a living one is renewed, to its parent's expiry.
Renew(n) ==
  /\ n \in Minted(log) \ alive
  /\ Parent[n] = NoName \/ Parent[n] \in alive
  /\ Change(<<Entry("renew", n, 0)>>, alive \cup {n})
  /\ UNCHANGED <<deep, written, payVars, shown, timing, wizard, faults>>

\* A name's time is up, on its own or with its parent's.  It counts as a
\* fault, so that the bounds bound it.
Lapse(n) ==
  /\ n \in alive
  /\ faults < MaxFaults
  /\ faults' = faults + 1
  /\ Change(<<>>, alive \ {n})
  /\ UNCHANGED <<deep, written, payVars, shown, timing, wizard>>

\* Blocks go by.
Bury ==
  /\ deep < Len(log)
  /\ deep' = Len(log)
  /\ UNCHANGED <<log, alive, written, payVars, viewVars, wizard, faults>>

-----------------------------------------------------------------------------
(* Payments. *)

\* The newest n of a sequence.
Latest(seq, n) == SubSeq(seq, IF Len(seq) > n THEN Len(seq) - n + 1 ELSE 1, Len(seq))

\* A payment settles, and after_settle hands its receipt to the publisher and
\* to the list; a request that is cut off before it gets there leaves none.
Settle(p) ==
  /\ p \in Own \ settled
  /\ Changes < MaxChanges
  /\ settled' = settled \cup {p}
  /\ \/ /\ queue' = Append(queue, p)
        /\ held' = Latest(Append(held, p), ListCap)
     \/ UNCHANGED <<queue, held>>
  /\ UNCHANGED <<chainVars, topic, viewVars, wizard, faults>>

\* A payment to another provider, whose receipt is published or is not.
SettleElsewhere(p) ==
  /\ p \in Payments \ (Own \cup settled)
  /\ Changes < MaxChanges
  /\ settled' = settled \cup {p}
  /\ topic' \in {topic, Append(topic, p)}
  /\ UNCHANGED <<chainVars, queue, held, viewVars, wizard, faults>>

\* spawn_publisher submits one after the other; what the topic does not take
\* is logged and dropped.
Publish ==
  /\ queue # <<>>
  /\ topic' \in {topic, Append(topic, Head(queue))}
  /\ queue' = Tail(queue)
  /\ UNCHANGED <<chainVars, settled, held, viewVars, wizard, faults>>

\* The gateway restarts: an empty list, and nothing to publish.
Restart ==
  /\ held # <<>> \/ queue # <<>>
  /\ faults < MaxFaults
  /\ faults' = faults + 1
  /\ held' = <<>>
  /\ queue' = <<>>
  /\ UNCHANGED <<chainVars, settled, topic, viewVars, wizard>>

-----------------------------------------------------------------------------
(* What a refresh reads and keeps: useLiveData and loadTree. *)

\* An EnsSnapshot: the names found, those unregistered last, what their
\* expiry was read as, and the budget recorded for them.
NoTree ==
  [found |-> {}, gone |-> {}, expiry |-> [n \in Names |-> "unread"],
   budget |-> [n \in Names |-> 0]]

Blank == [tree |-> NoTree, gateway |-> {}, topic |-> {}]

\* The refresh in flight: none, or how far loadTree and readGateway got; as
\* history, the names that were alive, and that were not, since it began.
Idle ==
  [found |-> NoTree.found, gone |-> NoTree.gone, expiry |-> NoTree.expiry,
   budget |-> NoTree.budget,
   ens |-> "none", gw |-> "none", got |-> {}, was |-> {}, wasnt |-> {}]

Closed == [stage |-> "closed", name |-> NoName, budget |-> 0]

Fault == faults < MaxFaults /\ faults' = faults + 1

\* The logs, registry by registry, up to three blocks below the head.  Where
\* a level does not answer, what hangs below is not there.
Walk(reach) ==
  LET events == SubSeq(log, 1, deep)
      found == {n \in Minted(events) : Depth(n) <= reach}
  IN [Idle EXCEPT !.ens = "reading",
                  !.found = found,
                  !.gone = {n \in found : Unregistered(events, n)},
                  !.was = alive,
                  !.wasnt = Names \ alive]

\* refresh, when none is in flight; `force` asks a backed-off gateway too.
\* The head is asked for first, so that the walk is of this instant.
BeginRefresh(force) ==
  /\ ~InFlight
  /\ LET gw == IF force \/ ~backoff THEN "asked" ELSE "skipped" IN
       \/ /\ load' = [Walk(Cardinality(Names)) EXCEPT !.gw = gw]
          /\ UNCHANGED faults
       \/ /\ Fault
          /\ \E reach \in Depths : load' = [Walk(reach) EXCEPT !.gw = gw]
       \/ /\ Fault
          /\ load' = [Idle EXCEPT !.ens = "rejected", !.gw = gw]

\* The timer, unless nobody looks.
Poll ==
  /\ ~hidden
  /\ BeginRefresh(FALSE)
  /\ UNCHANGED <<chainVars, payVars, shown, timing, wizard>>

\* onVisible: who looks again sees a refresh begin, or one is in flight.
Look ==
  /\ hidden
  /\ hidden' = FALSE
  /\ IF InFlight THEN UNCHANGED <<load, faults>> ELSE BeginRefresh(FALSE)
  /\ UNCHANGED <<chainVars, payVars, shown, backoff, wizard>>

LookAway ==
  /\ ~hidden
  /\ hidden' = TRUE
  /\ UNCHANGED <<chainVars, payVars, shown, load, backoff, wizard, faults>>

\* The owner presses Refresh, or money moved.
ForceRefresh ==
  /\ backoff \/ hidden
  /\ BeginRefresh(TRUE)
  /\ UNCHANGED <<chainVars, payVars, shown, timing, wizard>>

\* The expiries, in the order of the walk; a call that fails yields none.
Unread == {i \in DOMAIN Order : Order[i] \in load.found /\ load.expiry[Order[i]] = "unread"}

ReadState ==
  /\ load.ens = "reading"
  /\ Unread # {}
  /\ LET n == Order[Min(Unread)] IN
       \/ /\ load' = [load EXCEPT !.expiry[n] = IF n \in alive THEN "future" ELSE "past"]
          /\ UNCHANGED faults
       \/ Fault /\ load' = [load EXCEPT !.expiry[n] = "failed"]
  /\ UNCHANGED <<chainVars, payVars, shown, timing, wizard>>

\* The records, with the budget of the mint where there is none to read.
Authority(n, readable) ==
  IF n \in load.found /\ ((readable /\ n \in written) \/ n \notin Existing)
  THEN BudgetOf(n) ELSE 0

ReadRecords ==
  /\ load.ens = "reading"
  /\ Unread = {}
  /\ \E readable \in BOOLEAN :
       /\ IF readable THEN UNCHANGED faults ELSE Fault
       /\ load' = [load EXCEPT !.ens = "fulfilled",
                               !.budget = [n \in Names |-> Authority(n, readable)]]
  /\ UNCHANGED <<chainVars, payVars, shown, timing, wizard>>

\* readGateway: the manifest and then the receipts, or not even the manifest.
\* It runs beside loadTree and shares nothing with it, so which of the two is
\* done first shows nowhere: here loadTree is.
ReadGateway ==
  /\ load.ens \in {"fulfilled", "rejected"}
  /\ load.gw = "asked"
  /\ \/ /\ load' = [load EXCEPT !.gw = "receipts", !.got = ToSet(held)]
        /\ backoff' = FALSE
        /\ UNCHANGED faults
     \/ Fault /\ load' = [load EXCEPT !.gw = "manifest"] /\ backoff' = FALSE
     \/ Fault /\ load' = [load EXCEPT !.gw = "rejected"] /\ backoff' = TRUE
  /\ UNCHANGED <<chainVars, payVars, shown, hidden, wizard>>

\* GATEWAY_BACKOFF_CAP_MS at most.
BackoffEnds ==
  /\ backoff
  /\ backoff' = FALSE
  /\ UNCHANGED <<chainVars, payVars, shown, load, hidden, wizard, faults>>

\* readTopic: the newest messages.
Newest == ToSet(Latest(topic, Window))

\* What a source did not answer stays as it was.
Keep(answered, value, prev) == IF answered THEN value ELSE prev

\* Mutant of Landed: only what succeeded lets go.
LandedWell == IF load.ens = "rejected" THEN load ELSE Idle

\* inFlight is null again, however the refresh went.
Landed == Idle

\* The topic is read when both have come back, and the snapshot replaced.
Commit ==
  /\ load.ens \in {"fulfilled", "rejected"}
  /\ load.gw # "asked"
  /\ \E answered \in BOOLEAN :
       /\ IF answered THEN UNCHANGED faults ELSE Fault
       /\ shown' =
            [tree |-> Keep(load.ens = "fulfilled",
                           [f \in DOMAIN NoTree |-> load[f]], shown.tree),
             gateway |-> Keep(load.gw = "receipts", load.got, shown.gateway),
             topic |-> Keep(answered, Newest, shown.topic)]
  /\ load' = Landed
  /\ wizard' = IF wizard.stage = "waiting" THEN Closed ELSE wizard
  /\ UNCHANGED <<chainVars, payVars, timing>>

-----------------------------------------------------------------------------
(* What the pages show: adapt. *)

\* A name's own entry.
NodeStatus(n) ==
  LET e == shown.tree.expiry[n] IN
  IF n \in shown.tree.gone /\ e # "future" THEN "revoked"
  ELSE IF e = "past" THEN "expired" ELSE "active"

\* Mutant of Dead: only the parent is looked at.
DeadParent(n) == {a \in {Parent[n]} \cap shown.tree.found : NodeStatus(a) # "active"}

\* The dead entries above a name.
Dead(n) == {a \in Above[n] \cap shown.tree.found : NodeStatus(a) # "active"}

StatusOf(n) ==
  IF n \notin shown.tree.found THEN "absent"
  ELSE IF NodeStatus(n) # "active" THEN NodeStatus(n)
  ELSE IF Dead(n) # {} THEN "suspended" ELSE "active"

\* Mutant of Receipts: what both sources tell of is two payments.
ReceiptsOfBoth == shown.topic \X {"hcs"} \cup shown.gateway \X {"gateway"}

\* mergeReceipts: a payment the topic tells of is not the gateway's to tell.
Receipts == shown.topic \X {"hcs"} \cup (shown.gateway \ shown.topic) \X {"gateway"}

\* A payment of a name that is not shown counts for none.
SpentShown(n) ==
  IF n \in shown.tree.found THEN Cardinality({r \in Receipts : PaidBy[r[1]] = n}) ELSE 0

-----------------------------------------------------------------------------
(* The dialog that creates a child: CreateLiveAgentModal and createChild. *)

\* What is left of a parent's budget, as shown.
Ceiling(n) ==
  shown.tree.budget[n]
    - MapThenSumSet(LAMBDA c : shown.tree.budget[c],
                    {c \in shown.tree.found : Parent[c] = n
                                              /\ StatusOf(c) \notin {"revoked", "expired"}})

\* Its first two steps, against what is shown: a parent that can mint, a label
\* that is not taken, a budget within the ceiling.
FillIn(n, b) ==
  /\ wizard.stage = "closed"
  /\ Parent[n] \in shown.tree.found
  /\ NodeStatus(Parent[n]) = "active"
  /\ n \notin shown.tree.found
  /\ b > 0
  /\ b <= Ceiling(Parent[n])
  /\ wizard' = [stage |-> "filled", name |-> n, budget |-> b]
  /\ UNCHANGED <<chainVars, payVars, viewVars, faults>>

\* The owner changes his mind, or gives up on what failed.
Cancel ==
  /\ wizard.stage \in {"filled", "halfway"}
  /\ wizard' = Closed
  /\ UNCHANGED <<chainVars, payVars, viewVars, faults>>

\* The registrar mints a free name under a living parent that has the budget.
Mintable(n, b) ==
  /\ n \notin Minted(log)
  /\ Parent[n] \in alive
  /\ b <= BudgetOf(Parent[n])

\* submit, from the last step, which looks at the expiry alone; both
\* transactions are simulated first.
Mint ==
  /\ wizard.stage = "filled"
  /\ Mintable(wizard.name, wizard.budget)
  /\ Change(<<Entry("mint", wizard.name, wizard.budget)>>, alive \cup {wizard.name})
  /\ wizard' = [wizard EXCEPT !.stage = "minted"]
  /\ UNCHANGED <<deep, written, payVars, shown, timing, faults>>

\* The second signature; or it is refused, and the name stays without records.
WriteRecords ==
  /\ wizard.stage = "minted"
  /\ \/ /\ written' = written \cup {wizard.name}
        /\ wizard' = [wizard EXCEPT !.stage = "done"]
        /\ UNCHANGED faults
     \/ /\ Fault
        /\ wizard' = [wizard EXCEPT !.stage = "halfway"]
        /\ UNCHANGED written
  /\ UNCHANGED <<log, deep, alive, payVars, viewVars>>

\* live.create then waits for a refresh: its own, or the one in flight.
AwaitRefresh ==
  /\ wizard.stage = "done"
  /\ wizard' = [wizard EXCEPT !.stage = "waiting"]
  /\ IF InFlight THEN UNCHANGED <<load, faults>> ELSE BeginRefresh(FALSE)
  /\ UNCHANGED <<chainVars, payVars, shown, timing>>

-----------------------------------------------------------------------------
Init ==
  /\ log = <<>>
  /\ deep = 0
  /\ alive = Existing
  /\ written = Existing
  /\ settled = {}
  /\ held = <<>>
  /\ queue = <<>>
  /\ topic = <<>>
  /\ shown = Blank
  /\ load = Idle
  /\ backoff = FALSE
  /\ hidden = FALSE
  /\ wizard = Closed
  /\ faults = 0

Loading == ReadState \/ ReadRecords \/ ReadGateway \/ Commit

Next ==
  \/ \E n \in Names : Revoke(n) \/ Renew(n) \/ Lapse(n)
  \/ \E p \in Payments : Settle(p) \/ SettleElsewhere(p)
  \/ Bury \/ Publish \/ Restart
  \/ Poll \/ Look \/ LookAway \/ ForceRefresh \/ Loading \/ BackoffEnds
  \/ \E n \in Names \ Existing, b \in Amounts : FillIn(n, b)
  \/ Cancel \/ Mint \/ WriteRecords \/ AwaitRefresh

Spec == Init /\ [][Next]_vars

\* Blocks go by; the timer polls, the calls of a refresh return, and a gateway
\* is backed off for a while only.  Nothing obliges a receipt to be published,
\* or anyone to look.
FairSpec ==
  /\ Spec
  /\ WF_vars(Bury) /\ WF_vars(Poll) /\ WF_vars(Loading) /\ WF_vars(BackoffEnds)

-----------------------------------------------------------------------------
(* Properties. *)

\* ens.ts:1-12, adapter.ts:288-298.  Registries are read one after the other
\* while the tree changes: still no name is shown active unless it and every
\* name above it were alive while the tree was read, none as revoked, expired
\* or suspended unless it, or one above it, was not.  Where an expiry could
\* not be read this is not so.
StatusWasTrue ==
  [][load.ens = "fulfilled" /\ load' = Idle =>
       \A n \in load.found :
         LET line == {n} \cup Above[n]
             status == StatusOf(n)'
         IN (\A a \in line : load.expiry[a] # "failed") =>
              CASE status = "active" -> line \subseteq load.was
                [] status = "suspended" -> Above[n] \cap load.wasnt # {}
                [] OTHER -> n \in load.wasnt]_vars

\* adapter.ts:83-101,147-155.  What is shown as spent has settled, and each
\* payment counts once, however late its receipt reaches the topic, whichever
\* source is stale, and when the gateway restarts in between.
SpendIsNotOverstated ==
  \A n \in Names : SpentShown(n) <= Cardinality({p \in settled : PaidBy[p] = n})

TrueStatus(n) ==
  IF n \notin Minted(log) THEN "absent"
  ELSE IF n \notin alive THEN IF Unregistered(log, n) THEN "revoked" ELSE "expired"
  ELSE IF Above[n] \subseteq alive THEN "active" ELSE "suspended"

\* What there is to read of the payments: the newest messages of the topic,
\* and the gateway's list.
Readable == Newest \cup ToSet(held)

\* useLiveData.ts:40-46,135-150.  Who looks, or looks again and again, sees the
\* tree as it is and all that the gateway and the topic tell of the payments,
\* once both are left alone and calls stop failing.  A payment neither tells of
\* any more is not shown, though it was.
CatchesUp ==
  []<>~hidden =>
    []<>(\A n \in Names :
           /\ StatusOf(n) = TrueStatus(n)
           /\ n \in Minted(log) =>
                SpentShown(n) = Cardinality({p \in Readable : PaidBy[p] = n}))

=============================================================================
