----------------------------- MODULE SpendLedger -----------------------------
(***************************************************************************)
(* Spending so far, per mandate node, as each provider's gateway knows it: *)
(* crates/gateway's SpendLedger, fed at once by the receipts the gateway   *)
(* settles itself and, page by page, by replaying the HCS topic through a  *)
(* mirror node that lags.  A settlement is recorded by a hook that waits   *)
(* for the ledger's lock and dies with its request, and receipts reach the *)
(* topic through an in-memory queue whose publisher never retries: a       *)
(* hang-up, a failure or a crash between settlement and consensus loses    *)
(* one for good.                                                           *)
(***************************************************************************)
EXTENDS Naturals, FiniteSetsExt, SequencesExt

CONSTANTS
  Gateways,    \* one process per provider, all on one topic
  Txs,         \* Hedera transactions that settle payments
  Names,       \* nodes of the mandate tree
  Path,        \* Path[t]: the names on the mandate path t's receipt carries
  Amount,      \* Amount[t]: what it settled
  TreeTxs,     \* those in the asset budgets are denominated in
  Note,        \* a message that is no settlement receipt
  PageSize,    \* messages per mirror page (100 in the code)
  MaxPages,    \* MAX_PAGES
  MaxNotes,    \* bound: other messages on the topic
  MaxCrashes   \* bound: gateway restarts

ASSUME LedgerAssumption ==
  /\ Path \in [Txs -> SUBSET Names]
  /\ Amount \in [Txs -> Nat]
  /\ TreeTxs \subseteq Txs
  /\ Note \notin Txs
  /\ PageSize \in Nat \ {0}
  /\ MaxPages \in Nat \ {0}
  /\ MaxNotes \in Nat
  /\ MaxCrashes \in Nat

VARIABLES
  settled,    \* transactions settled so far, by any gateway
  hooks,      \* hooks[g]: settlements whose after_settle awaits g's ledger
  recorded,   \* recorded[g]: receipts g recorded since it last started
  queue,      \* queue[g]: messages waiting for g's publisher
  topic,      \* the HCS topic
  visible,    \* how much of it the mirror node serves
  last,       \* last[g]: State.last_sequence
  seen,       \* seen[g]: State.seen
  spent,      \* spent[g]: State.spent
  pages,      \* pages[g]: pages its sync may still read; 0 when not syncing
  crashes

stateVars == <<last, seen, spent>>
topicVars == <<topic, visible>>
vars == <<settled, hooks, recorded, queue, topic, visible, last, seen, spent,
          pages, crashes>>

Messages == Txs \cup {Note}
NoSpend == [n \in Names |-> 0]

TypeOK ==
  /\ settled \in SUBSET Txs
  /\ hooks \in [Gateways -> SUBSET Txs]
  /\ recorded \in [Gateways -> SUBSET Txs]
  /\ queue \in [Gateways -> Seq(Messages)]
  /\ topic \in Seq(Messages)
  /\ visible \in 0..Len(topic)
  /\ last \in [Gateways -> 0..Len(topic)]
  /\ seen \in [Gateways -> SUBSET TreeTxs]
  /\ spent \in [Gateways -> [Names -> Nat]]
  /\ pages \in [Gateways -> 0..MaxPages]
  /\ crashes \in 0..MaxCrashes

Init ==
  /\ settled = {}
  /\ hooks = [g \in Gateways |-> {}]
  /\ recorded = [g \in Gateways |-> {}]
  /\ queue = [g \in Gateways |-> <<>>]
  /\ topic = <<>>
  /\ visible = 0
  /\ last = [g \in Gateways |-> 0]
  /\ seen = [g \in Gateways |-> {}]
  /\ spent = [g \in Gateways |-> NoSpend]
  /\ pages = [g \in Gateways |-> 0]
  /\ crashes = 0

-----------------------------------------------------------------------------
\* Mutant of Counts: no deduplication by transaction id.
CountsAgain(g, m) == m \in TreeTxs

\* apply: a receipt counts if it is in the tree's asset and was not seen.
Counts(g, m) == m \in TreeTxs \ seen[g]

\* What a batch of messages adds to each name on its receipts' paths.
Added(g, batch) ==
  [n \in Names |->
     MapThenSumSet(LAMBDA t : Amount[t],
                   {t \in batch : Counts(g, t) /\ n \in Path[t]})]

Apply(g, batch) ==
  /\ seen' = [seen EXCEPT ![g] = @ \cup {t \in batch : Counts(g, t)}]
  /\ spent' = [spent EXCEPT ![g] = [n \in Names |-> @[n] + Added(g, batch)[n]]]

\* The async mutex around State: a sync holds it across its requests.
Unlocked(g) == pages[g] = 0

\* The facilitator settles a payment; after_settle builds the receipt and asks
\* for the ledger's lock.
Settle(g, t) ==
  /\ t \notin settled
  /\ settled' = settled \cup {t}
  /\ hooks' = [hooks EXCEPT ![g] = @ \cup {t}]
  /\ UNCHANGED <<recorded, queue, topicVars, stateVars, pages, crashes>>

\* Mutant of Record: the receipt counts when the topic delivers it.
RecordLater(g, t) ==
  /\ t \in hooks[g]
  /\ Unlocked(g)
  /\ hooks' = [hooks EXCEPT ![g] = @ \ {t}]
  /\ recorded' = [recorded EXCEPT ![g] = @ \cup {t}]
  /\ queue' = [queue EXCEPT ![g] = Append(@, t)]
  /\ UNCHANGED <<settled, topicVars, stateVars, pages, crashes>>

\* The rest of after_settle: ledger.record, then the message goes to the
\* publisher, with no await in between.
Record(g, t) ==
  /\ t \in hooks[g]
  /\ Unlocked(g)
  /\ hooks' = [hooks EXCEPT ![g] = @ \ {t}]
  /\ recorded' = [recorded EXCEPT ![g] = @ \cup {t}]
  /\ Apply(g, {t})
  /\ queue' = [queue EXCEPT ![g] = Append(@, t)]
  /\ UNCHANGED <<settled, topicVars, last, pages, crashes>>

\* The buyer hangs up while the hook waits: the request is dropped with its
\* hook, and the settlement reaches neither this ledger nor the topic.
HangUp(g, t) ==
  /\ t \in hooks[g]
  /\ hooks' = [hooks EXCEPT ![g] = @ \ {t}]
  /\ UNCHANGED <<settled, recorded, queue, topicVars, stateVars, pages, crashes>>

NotesSent == Len(SelectSeq(topic, LAMBDA m : m = Note))
             + MapThenSumSet(LAMBDA g : Len(SelectSeq(queue[g], LAMBDA m : m = Note)),
                             Gateways)

\* A refusal, an announcement or a teardown shares the queue and the topic.
SendNote(g) ==
  /\ NotesSent < MaxNotes
  /\ queue' = [queue EXCEPT ![g] = Append(@, Note)]
  /\ UNCHANGED <<settled, hooks, recorded, topicVars, stateVars, pages, crashes>>

\* spawn_publisher: one message at a time; a failed submit is only logged.
Publish(g) ==
  /\ queue[g] # <<>>
  /\ queue' = [queue EXCEPT ![g] = Tail(@)]
  /\ \/ topic' = Append(topic, Head(queue[g]))
     \/ UNCHANGED topic
  /\ UNCHANGED <<settled, hooks, recorded, visible, stateVars, pages, crashes>>

\* The mirror node catches up with consensus.
Mirror ==
  /\ visible < Len(topic)
  /\ visible' = visible + 1
  /\ UNCHANGED <<settled, hooks, recorded, queue, topic, stateVars, pages, crashes>>

\* spent(): the last sync was at least MIN_SYNC_GAP ago, so sync again.
BeginSync(g) ==
  /\ Unlocked(g)
  /\ pages' = [pages EXCEPT ![g] = MaxPages]
  /\ UNCHANGED <<settled, hooks, recorded, queue, topicVars, stateVars, crashes>>

\* The page after g's cursor, as the mirror serves it now.
PageEnd(g) == IF visible < last[g] + PageSize THEN visible ELSE last[g] + PageSize
Page(g) == {topic[i] : i \in last[g] + 1 .. PageEnd(g)}

\* Mutant of ReadPage: only receipts move the cursor.
ReadReceiptsOnly(g) ==
  /\ ~Unlocked(g)
  /\ Apply(g, Page(g))
  /\ last' = [last EXCEPT ![g] = IF Page(g) \subseteq TreeTxs THEN PageEnd(g) ELSE @]
  /\ pages' = [pages EXCEPT ![g] = IF PageEnd(g) = last[g] + PageSize THEN @ - 1 ELSE 0]
  /\ UNCHANGED <<settled, hooks, recorded, queue, topicVars, crashes>>

\* One page: every message on it moves the cursor, receipts are applied.
\* A `next` link is there while the page is full.
ReadPage(g) ==
  /\ ~Unlocked(g)
  /\ Apply(g, Page(g))
  /\ last' = [last EXCEPT ![g] = PageEnd(g)]
  /\ pages' = [pages EXCEPT ![g] = IF PageEnd(g) = last[g] + PageSize THEN @ - 1 ELSE 0]
  /\ UNCHANGED <<settled, hooks, recorded, queue, topicVars, crashes>>

\* Mutant of SyncFails: the cursor is saved before the page is applied.
SyncFailsPastPage(g) ==
  /\ ~Unlocked(g)
  /\ last' = [last EXCEPT ![g] = PageEnd(g)]
  /\ pages' = [pages EXCEPT ![g] = 0]
  /\ UNCHANGED <<settled, hooks, recorded, queue, topicVars, seen, spent, crashes>>

\* The request times out or the page does not parse: what was applied stays,
\* and the check goes on with the totals as they are.
SyncFails(g) ==
  /\ ~Unlocked(g)
  /\ pages' = [pages EXCEPT ![g] = 0]
  /\ UNCHANGED <<settled, hooks, recorded, queue, topicVars, stateVars, crashes>>

\* The process dies and starts again with nothing in memory.
Restart(g) ==
  /\ crashes < MaxCrashes
  /\ crashes' = crashes + 1
  /\ hooks' = [hooks EXCEPT ![g] = {}]
  /\ recorded' = [recorded EXCEPT ![g] = {}]
  /\ queue' = [queue EXCEPT ![g] = <<>>]
  /\ last' = [last EXCEPT ![g] = 0]
  /\ seen' = [seen EXCEPT ![g] = {}]
  /\ spent' = [spent EXCEPT ![g] = NoSpend]
  /\ pages' = [pages EXCEPT ![g] = 0]
  /\ UNCHANGED <<settled, topicVars>>

Next ==
  \/ \E g \in Gateways, t \in Txs : Settle(g, t) \/ Record(g, t) \/ HangUp(g, t)
  \/ \E g \in Gateways :
       \/ SendNote(g) \/ Publish(g) \/ BeginSync(g) \/ ReadPage(g)
       \/ SyncFails(g) \/ Restart(g)
  \/ Mirror

Spec == Init /\ [][Next]_vars

\* The publisher task and the mirror node keep going, agents keep asking (so
\* syncs begin), and a mirror node that is asked again and again answers.
FairSpec ==
  /\ Spec
  /\ WF_vars(Mirror)
  /\ \A g \in Gateways :
       WF_vars(Publish(g)) /\ WF_vars(BeginSync(g)) /\ SF_vars(ReadPage(g))

-----------------------------------------------------------------------------
(* Properties. *)

\* ledger.rs:7-9.  A settlement counts once in every ledger, however often and
\* in whatever order the hook and the pages of the topic deliver it.
CountedOnce ==
  \A g \in Gateways, n \in Names :
    spent[g][n] = MapThenSumSet(LAMBDA t : Amount[t], {t \in seen[g] : n \in Path[t]})

\* ledger.rs:116-144.  The cursor never passes a receipt that was not counted,
\* through short pages, failed pages, page limits and restarts.
NothingSkipped ==
  \A g \in Gateways : \A i \in 1..last[g] :
    topic[i] \in TreeTxs => topic[i] \in seen[g]

\* ledger.rs:1-9.  Providers share a budget through the topic: two gateways
\* that have read it to the same place differ by the receipts each recorded
\* itself since it started, and by nothing else.  So a settlement counts at
\* its own gateway before the topic shows it, and a page that was applied is
\* a page the cursor has passed.
LedgersAgree ==
  \A g, h \in Gateways : last[g] = last[h] =>
    seen[g] \ seen[h] = (recorded[g] \cap TreeTxs) \ seen[h]

\* ledger.rs:4-7.  Once on the topic a receipt reaches every ledger, again
\* after each restart.
EveryLedgerCatchesUp ==
  \A g \in Gateways, t \in TreeTxs :
    t \in ToSet(topic) ~> t \in seen[g]

=============================================================================
