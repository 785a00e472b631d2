---------------------------- MODULE LedgerProofs ----------------------------
(***************************************************************************)
(* Theorems about SpendLedger for every set of gateways and transactions,  *)
(* every page size and page limit: a ledger holds what its gateway has     *)
(* read of the topic and what it recorded itself, so the cursor leaves no  *)
(* receipt behind and gateways that have read equally far agree but for    *)
(* their own receipts; and its totals are the sums of the receipts it has  *)
(* seen, each counted once.                                                *)
(***************************************************************************)
EXTENDS SpendLedger, Totals

\* The queues and the topic hold messages; no cursor is ahead of the mirror
\* node.
CursorInv ==
  /\ queue \in [Gateways -> Seq(Messages)]
  /\ topic \in Seq(Messages)
  /\ visible \in 0..Len(topic)
  /\ last \in [Gateways -> Nat]
  /\ \A g \in Gateways : last[g] <= visible

\* The sets a gateway keeps hold transactions.
SeenInv ==
  /\ seen \in [Gateways -> SUBSET TreeTxs]
  /\ hooks \in [Gateways -> SUBSET Txs]
  /\ recorded \in [Gateways -> SUBSET Txs]

\* Every step keeps the cursors behind the mirror node.
LEMMA CursorStep ==
  ASSUME CursorInv, [Next]_vars
  PROVE  CursorInv'
<1> USE LedgerAssumption DEF CursorInv, Messages, stateVars, topicVars
<1>1. ASSUME NEW g \in Gateways, NEW t \in Txs, Record(g, t)
      PROVE  CursorInv'
  BY <1>1 DEF Record
<1>10. ASSUME NEW g \in Gateways, NEW t \in Txs, Settle(g, t) \/ HangUp(g, t)
       PROVE  CursorInv'
  BY <1>10 DEF Settle, HangUp
<1>2. ASSUME NEW g \in Gateways, SendNote(g)
      PROVE  CursorInv'
  BY <1>2 DEF SendNote
<1>3. ASSUME NEW g \in Gateways, Publish(g)
      PROVE  CursorInv'
  <2>1. Head(queue[g]) \in Messages /\ Tail(queue[g]) \in Seq(Messages)
    BY <1>3 DEF Publish
  <2>2. queue' \in [Gateways -> Seq(Messages)]
    BY <1>3, <2>1 DEF Publish
  <2>3. topic' = topic \/ topic' = Append(topic, Head(queue[g]))
    BY <1>3 DEF Publish
  <2>4. topic' \in Seq(Messages) /\ Len(topic) <= Len(topic')
    <3>1. CASE topic' = topic
      BY <3>1
    <3>2. CASE topic' = Append(topic, Head(queue[g]))
      <4>1. Append(topic, Head(queue[g])) \in Seq(Messages)
        BY <2>1
      <4>2. Len(Append(topic, Head(queue[g]))) = Len(topic) + 1 /\ Len(topic) \in Nat
        BY <2>1
      <4> QED
        BY <3>2, <4>1, <4>2
    <3> QED
      BY <2>3, <3>1, <3>2
  <2> QED
    BY <1>3, <2>2, <2>4 DEF Publish
<1>4. ASSUME NEW g \in Gateways, BeginSync(g)
      PROVE  CursorInv'
  BY <1>4 DEF BeginSync
<1>5. ASSUME NEW g \in Gateways, ReadPage(g)
      PROVE  CursorInv'
  <2>1. PageEnd(g) \in Nat /\ PageEnd(g) <= visible
    BY DEF PageEnd
  <2>2. last' = [last EXCEPT ![g] = PageEnd(g)]
    BY <1>5 DEF ReadPage
  <2>3. UNCHANGED <<queue, topic, visible>>
    BY <1>5 DEF ReadPage
  <2> QED
    BY <2>1, <2>2, <2>3
<1>6. ASSUME NEW g \in Gateways, SyncFails(g)
      PROVE  CursorInv'
  BY <1>6 DEF SyncFails
<1>7. ASSUME NEW g \in Gateways, Restart(g)
      PROVE  CursorInv'
  BY <1>7 DEF Restart
<1>8. CASE Mirror
  BY <1>8 DEF Mirror
<1>9. CASE UNCHANGED vars
  BY <1>9 DEF vars
<1> QED
  BY <1>1, <1>2, <1>3, <1>4, <1>5, <1>6, <1>7, <1>8, <1>9, <1>10 DEF Next

\* What a batch adds to the transactions seen.
LEMMA ApplySees ==
  ASSUME SeenInv, NEW g \in Gateways, NEW batch, Apply(g, batch)
  PROVE  /\ seen' \in [Gateways -> SUBSET TreeTxs]
         /\ \A h \in Gateways \ {g} : seen'[h] = seen[h]
         /\ seen'[g] = seen[g] \cup (batch \cap TreeTxs)
<1>1. seen' = [seen EXCEPT ![g] = @ \cup {t \in batch : t \in TreeTxs \ seen[g]}]
  BY DEF Apply, Counts
<1> QED
  BY <1>1 DEF SeenInv

\* Every step leaves transactions in the sets.
LEMMA SeenStep ==
  ASSUME SeenInv, [Next]_vars
  PROVE  SeenInv'
<1> USE LedgerAssumption DEF SeenInv, stateVars, topicVars
<1>1. ASSUME NEW g \in Gateways, NEW t \in Txs, Settle(g, t) \/ HangUp(g, t)
      PROVE  SeenInv'
  BY <1>1 DEF Settle, HangUp
<1>2. ASSUME NEW g \in Gateways, NEW t \in Txs, Record(g, t)
      PROVE  SeenInv'
  <2>1. Apply(g, {t})
    BY <1>2 DEF Record
  <2>2. /\ recorded' = [recorded EXCEPT ![g] = @ \cup {t}]
        /\ hooks' = [hooks EXCEPT ![g] = @ \ {t}]
    BY <1>2 DEF Record
  <2> QED
    BY <2>1, <2>2, ApplySees
<1>3. ASSUME NEW g \in Gateways, ReadPage(g)
      PROVE  SeenInv'
  <2>1. Apply(g, Page(g)) /\ UNCHANGED <<hooks, recorded>>
    BY <1>3 DEF ReadPage
  <2> QED
    BY <2>1, ApplySees
<1>4. ASSUME NEW g \in Gateways, Restart(g)
      PROVE  SeenInv'
  BY <1>4 DEF Restart
<1>5. ASSUME NEW g \in Gateways, SendNote(g) \/ Publish(g) \/ BeginSync(g) \/ SyncFails(g)
      PROVE  SeenInv'
  BY <1>5 DEF SendNote, Publish, BeginSync, SyncFails
<1>6. CASE Mirror \/ UNCHANGED vars
  BY <1>6 DEF Mirror, vars
<1> QED
  BY <1>1, <1>2, <1>3, <1>4, <1>5, <1>6 DEF Next

\* The topic only grows at its end.
LEMMA TopicGrows ==
  ASSUME CursorInv, [Next]_vars
  PROVE  \A i \in 1..Len(topic) : topic'[i] = topic[i]
<1> USE DEF CursorInv, topicVars
<1>1. ASSUME NEW g \in Gateways, Publish(g)
      PROVE  \A i \in 1..Len(topic) : topic'[i] = topic[i]
  <2>1. topic' = topic \/ topic' = Append(topic, Head(queue[g]))
    BY <1>1 DEF Publish
  <2>2. Head(queue[g]) \in Messages
    BY <1>1 DEF Publish
  <2>3. ASSUME NEW m \in Messages, NEW i \in 1..Len(topic)
        PROVE  Append(topic, m)[i] = topic[i]
    <3>1. topic \in Seq(Messages)
      OBVIOUS
    <3> QED
      BY <3>1
  <2> QED
    BY <2>1, <2>2, <2>3
<1>2. ASSUME \A g \in Gateways : ~Publish(g)
      PROVE  topic' = topic
  BY <1>2 DEF Next, vars, Settle, Record, HangUp, SendNote, BeginSync, ReadPage, SyncFails, Restart, Mirror
<1> QED
  BY <1>1, <1>2

\* The messages a gateway has read since it started.
Read(g) == {topic[i] : i \in 1..last[g]}

\* A ledger holds what its gateway has read and what it recorded.
SeenIsHeard == \A g \in Gateways : seen[g] = (Read(g) \cup recorded[g]) \cap TreeTxs

\* Nothing the cursor has passed is lost or changed by a step that leaves it.
LEMMA ReadStays ==
  ASSUME CursorInv, [Next]_vars, NEW g \in Gateways, last'[g] = last[g]
  PROVE  Read(g)' = Read(g)
<1>1. \A i \in 1..Len(topic) : topic'[i] = topic[i]
  BY TopicGrows
<1>2. \A i \in 1..last[g] : i \in 1..Len(topic)
  BY DEF CursorInv
<1>3. \A i \in 1..last[g] : topic'[i] = topic[i]
  BY <1>1, <1>2
<1> QED
  BY <1>3 DEF Read

\* Every step leaves a ledger with what was read and recorded.
LEMMA HeardStep ==
  ASSUME CursorInv, SeenInv, SeenIsHeard, [Next]_vars
  PROVE  SeenIsHeard'
<1> USE DEF stateVars, topicVars
<1>1. ASSUME UNCHANGED <<last, seen, recorded>>
      PROVE  SeenIsHeard'
  BY <1>1, ReadStays DEF SeenIsHeard
<1>2. ASSUME NEW g \in Gateways, NEW t \in Txs, Record(g, t)
      PROVE  SeenIsHeard'
  <2>1. Apply(g, {t}) /\ UNCHANGED last /\ recorded' = [recorded EXCEPT ![g] = @ \cup {t}]
    BY <1>2 DEF Record
  <2>2. \A h \in Gateways : Read(h)' = Read(h)
    BY <2>1, ReadStays
  <2>3. \A h \in Gateways \ {g} : seen'[h] = seen[h] /\ recorded'[h] = recorded[h]
    BY <2>1, ApplySees DEF SeenInv
  <2>4. seen'[g] = seen[g] \cup ({t} \cap TreeTxs) /\ recorded'[g] = recorded[g] \cup {t}
    BY <2>1, ApplySees DEF SeenInv
  <2> QED
    BY <2>2, <2>3, <2>4 DEF SeenIsHeard
<1>3. ASSUME NEW g \in Gateways, ReadPage(g)
      PROVE  SeenIsHeard'
  <2>1. Apply(g, Page(g)) /\ UNCHANGED <<topic, recorded>>
    BY <1>3 DEF ReadPage
  <2>2. last' = [last EXCEPT ![g] = PageEnd(g)] /\ PageEnd(g) \in Nat
    <3>1. last' = [last EXCEPT ![g] = PageEnd(g)]
      BY <1>3 DEF ReadPage
    <3>2. PageEnd(g) \in Nat
      BY LedgerAssumption DEF PageEnd, CursorInv
    <3> QED
      BY <3>1, <3>2
  <2>3. last[g] <= PageEnd(g) /\ last[g] \in Nat
    BY LedgerAssumption DEF PageEnd, CursorInv
  <2>4. Read(g)' = Read(g) \cup Page(g)
    <3>1. last'[g] = PageEnd(g)
      BY <2>2 DEF CursorInv
    <3>2. 1..PageEnd(g) = (1..last[g]) \cup (last[g] + 1 .. PageEnd(g))
      BY <2>2, <2>3
    <3>3. Read(g)' = {topic[i] : i \in 1..PageEnd(g)}
      BY <2>1, <3>1 DEF Read
    <3> QED
      BY <3>2, <3>3 DEF Read, Page
  <2>5. \A h \in Gateways \ {g} : Read(h)' = Read(h)
    BY <2>2, ReadStays DEF CursorInv
  <2>6. /\ \A h \in Gateways \ {g} : seen'[h] = seen[h]
        /\ seen'[g] = seen[g] \cup (Page(g) \cap TreeTxs)
    BY <2>1, ApplySees
  <2> QED
    BY <2>1, <2>4, <2>5, <2>6 DEF SeenIsHeard
<1>4. ASSUME NEW g \in Gateways, Restart(g)
      PROVE  SeenIsHeard'
  <2>1. /\ last' = [last EXCEPT ![g] = 0]
        /\ seen' = [seen EXCEPT ![g] = {}]
        /\ recorded' = [recorded EXCEPT ![g] = {}]
    BY <1>4 DEF Restart
  <2>2. \A h \in Gateways \ {g} : Read(h)' = Read(h)
    BY <2>1, ReadStays DEF CursorInv
  <2>3. Read(g)' = {}
    BY <2>1 DEF Read, CursorInv
  <2> QED
    BY <2>1, <2>2, <2>3 DEF SeenIsHeard, SeenInv
<1>5. ASSUME NEW g \in Gateways, NEW t \in Txs, Settle(g, t) \/ HangUp(g, t)
      PROVE  SeenIsHeard'
  BY <1>1, <1>5 DEF Settle, HangUp
<1>6. ASSUME NEW g \in Gateways, SendNote(g) \/ Publish(g) \/ BeginSync(g) \/ SyncFails(g)
      PROVE  SeenIsHeard'
  BY <1>1, <1>6 DEF SendNote, Publish, BeginSync, SyncFails
<1>7. CASE Mirror \/ UNCHANGED vars
  BY <1>1, <1>7 DEF Mirror, vars
<1> QED
  BY <1>2, <1>3, <1>4, <1>5, <1>6, <1>7 DEF Next

\* A gateway has seen finitely many receipts and has a total for every name.
SumInv ==
  /\ \A g \in Gateways : IsFiniteSet(seen[g])
  /\ spent \in [Gateways -> [Names -> Nat]]

\* The receipts a gateway has seen that concern a name.
Seen(g, n) == {t \in seen[g] : n \in Path[t]}

\* CountedOnce, said with Total.
Counted ==
  \A g \in Gateways, n \in Names : spent[g][n] = Total(Amount, Seen(g, n))

\* A page holds finitely many messages, whatever cursor it starts from.
LEMMA PageIsFinite ==
  ASSUME CursorInv, NEW g \in Gateways
  PROVE  IsFiniteSet(Page(g))
<1> DEFINE places == last[g] + 1 .. PageEnd(g)
           message == [i \in places |-> topic[i]]
<1>1. IsFiniteSet(places)
  <2>1. last[g] + 1 \in Int /\ PageEnd(g) \in Int
    BY LedgerAssumption DEF CursorInv, PageEnd
  <2> QED
    BY <2>1, FS_Interval
<1>2. message \in Surjection(places, Page(g))
  BY DEF Page, Surjection
<1> HIDE DEF places, message
<1> QED
  BY <1>1, <1>2, FS_Surjection

\* apply, under the lock: what the batch adds to a name's total is the sum of
\* its receipts that were not seen, and those are seen from then on.
LEMMA ApplyCountsOnce ==
  ASSUME SeenInv, SumInv, Counted,
         NEW g \in Gateways, NEW batch, IsFiniteSet(batch), Apply(g, batch)
  PROVE  SumInv' /\ Counted'
<1> USE LedgerAssumption
<1> DEFINE fresh == {t \in batch : Counts(g, t)}
           freshOf(n) == {t \in batch : Counts(g, t) /\ n \in Path[t]}
<1>1. fresh \subseteq TreeTxs /\ fresh \cap seen[g] = {}
  BY DEF Counts
<1>2. IsFiniteSet(fresh)
  BY FS_Subset
<1>3. /\ seen' = [seen EXCEPT ![g] = @ \cup fresh]
      /\ spent' = [spent EXCEPT ![g] = [n \in Names |-> @[n] + Added(g, batch)[n]]]
  BY DEF Apply
<1>4. seen'[g] = seen[g] \cup fresh
  BY <1>3 DEF SeenInv
<1>5. \A h \in Gateways \ {g} : seen'[h] = seen[h] /\ spent'[h] = spent[h]
  BY <1>3 DEF SeenInv, SumInv
<1>6. ASSUME NEW n \in Names
      PROVE  /\ Added(g, batch)[n] = Total(Amount, freshOf(n))
             /\ Total(Amount, freshOf(n)) \in Nat
             /\ IsFiniteSet(Seen(g, n)) /\ IsFiniteSet(freshOf(n))
             /\ Seen(g, n) \cap freshOf(n) = {}
             /\ \A t \in Seen(g, n) \cup freshOf(n) : Amount[t] \in Nat
             /\ Seen(g, n)' = Seen(g, n) \cup freshOf(n)
  <2>1. Added(g, batch)[n] = Total(Amount, freshOf(n))
    BY DEF Added, Total
  <2>2. IsFiniteSet(Seen(g, n)) /\ IsFiniteSet(freshOf(n))
    BY FS_Subset DEF SumInv, Seen
  <2>3. \A t \in Seen(g, n) \cup freshOf(n) : Amount[t] \in Nat
    BY DEF SeenInv, Seen, Counts
  <2>4. Seen(g, n)' = Seen(g, n) \cup freshOf(n) /\ Seen(g, n) \cap freshOf(n) = {}
    BY <1>4 DEF Seen, Counts
  <2> QED
    BY <2>1, <2>2, <2>3, <2>4, TotalType
<1> HIDE DEF fresh, freshOf
<1>7. ASSUME NEW n \in Names
      PROVE  spent'[g][n] \in Nat /\ spent'[g][n] = Total(Amount, Seen(g, n)')
  <2>1. spent[g][n] = Total(Amount, Seen(g, n)) /\ spent[g][n] \in Nat
    BY DEF Counted, SumInv
  <2>2. spent'[g][n] = spent[g][n] + Total(Amount, freshOf(n))
    BY <1>3, <1>6 DEF SumInv
  <2>3. Total(Amount, Seen(g, n) \cup freshOf(n))
          = Total(Amount, Seen(g, n)) + Total(Amount, freshOf(n))
    BY <1>6, TotalUnion
  <2>4. Seen(g, n)' = Seen(g, n) \cup freshOf(n)
    BY <1>6
  <2>5. spent'[g][n] \in Nat
    BY <1>6, <2>1, <2>2
  <2>6. spent'[g][n] = Total(Amount, Seen(g, n) \cup freshOf(n))
    BY <2>1, <2>2, <2>3
  <2> QED
    BY <2>4, <2>5, <2>6
<1>8. spent' \in [Gateways -> [Names -> Nat]]
  <2>1. ASSUME NEW n \in Names
        PROVE  spent[g][n] + Added(g, batch)[n] \in Nat
    <3>1. spent[g][n] \in Nat
      BY DEF SumInv
    <3>2. Added(g, batch)[n] \in Nat
      BY <1>6
    <3> QED
      BY <3>1, <3>2
  <2>2. [n \in Names |-> spent[g][n] + Added(g, batch)[n]] \in [Names -> Nat]
    BY <2>1
  <2> QED
    BY <1>3, <2>2 DEF SumInv
<1>9. \A h \in Gateways : IsFiniteSet(seen'[h])
  <2>1. IsFiniteSet(seen[g] \cup fresh)
    BY <1>2, FS_Union DEF SumInv
  <2> QED
    BY <1>4, <1>5, <2>1 DEF SumInv
<1>10. ASSUME NEW h \in Gateways, NEW n \in Names
       PROVE  spent'[h][n] = Total(Amount, Seen(h, n)')
  <2>1. CASE h = g
    BY <1>7, <2>1
  <2>2. CASE h # g
    BY <1>5, <2>2 DEF Counted, Seen
  <2> QED
    BY <2>1, <2>2
<1> QED
  BY <1>8, <1>9, <1>10 DEF SumInv, Counted

\* Every step keeps each total the sum of what was seen.
LEMMA CountStep ==
  ASSUME CursorInv, SeenInv, SumInv, Counted, [Next]_vars
  PROVE  SumInv' /\ Counted'
<1>1. ASSUME UNCHANGED <<seen, spent>>
      PROVE  SumInv' /\ Counted'
  BY <1>1 DEF SumInv, Counted, Seen
<1>2. ASSUME NEW g \in Gateways, NEW t \in Txs, Record(g, t)
      PROVE  SumInv' /\ Counted'
  BY <1>2, ApplyCountsOnce, FS_Singleton DEF Record
<1>3. ASSUME NEW g \in Gateways, ReadPage(g)
      PROVE  SumInv' /\ Counted'
  BY <1>3, ApplyCountsOnce, PageIsFinite DEF ReadPage
<1>4. ASSUME NEW g \in Gateways, Restart(g)
      PROVE  SumInv' /\ Counted'
  <2>1. /\ seen' = [seen EXCEPT ![g] = {}]
        /\ spent' = [spent EXCEPT ![g] = NoSpend]
    BY <1>4 DEF Restart
  <2>2. SumInv'
    BY <2>1, FS_EmptySet DEF SumInv, SeenInv, NoSpend
  <2>3. ASSUME NEW h \in Gateways, NEW n \in Names
        PROVE  spent'[h][n] = Total(Amount, Seen(h, n)')
    <3>1. CASE h = g
      <4>1. Seen(h, n)' = {} /\ spent'[h][n] = 0
        BY <2>1, <3>1 DEF Seen, SeenInv, SumInv, NoSpend
      <4> QED
        BY <4>1, TotalEmpty
    <3>2. CASE h # g
      <4>1. Seen(h, n)' = Seen(h, n) /\ spent'[h][n] = spent[h][n]
        BY <2>1, <3>2 DEF Seen, SeenInv, SumInv
      <4> QED
        BY <4>1 DEF Counted, Seen
    <3> QED
      BY <3>1, <3>2
  <2> QED
    BY <2>2, <2>3 DEF Counted, Seen
<1>5. ASSUME NEW g \in Gateways, SendNote(g) \/ Publish(g) \/ BeginSync(g) \/ SyncFails(g)
      PROVE  SumInv' /\ Counted'
  BY <1>1, <1>5 DEF SendNote, Publish, BeginSync, SyncFails, stateVars
<1>7. ASSUME NEW g \in Gateways, NEW t \in Txs, Settle(g, t) \/ HangUp(g, t)
      PROVE  SumInv' /\ Counted'
  BY <1>1, <1>7 DEF Settle, HangUp, stateVars
<1>6. CASE Mirror \/ UNCHANGED vars
  BY <1>1, <1>6 DEF Mirror, vars, stateVars
<1> QED
  BY <1>2, <1>3, <1>4, <1>5, <1>6, <1>7 DEF Next

-----------------------------------------------------------------------------
\* The conjunction the theorems rest on.
Inv ==
  /\ CursorInv /\ SeenInv /\ SumInv
  /\ SeenIsHeard /\ Counted

\* It holds of every reachable state.
THEOREM LedgerInvariant == Spec => []Inv
<1>1. Init => Inv
  <2> SUFFICES ASSUME Init PROVE Inv
    OBVIOUS
  <2>1. CursorInv /\ SeenInv /\ SeenIsHeard
    BY LedgerAssumption
    DEF Init, CursorInv, SeenInv, SeenIsHeard, Read, Messages
  <2>2. SumInv
    BY FS_EmptySet DEF Init, SumInv, NoSpend
  <2>3. ASSUME NEW g \in Gateways, NEW n \in Names
        PROVE  spent[g][n] = Total(Amount, Seen(g, n))
    <3>1. Seen(g, n) = {} /\ spent[g][n] = 0
      BY DEF Init, Seen, NoSpend
    <3> QED
      BY <3>1, TotalEmpty
  <2>4. Counted
    BY <2>3 DEF Counted
  <2> QED
    BY <2>1, <2>2, <2>4 DEF Inv
<1>2. Inv /\ [Next]_vars => Inv'
  BY CursorStep, SeenStep, HeardStep, CountStep DEF Inv
<1> QED
  BY <1>1, <1>2, PTL DEF Spec

\* ledger.rs:116-144: no page limit, failed page or restart makes a gateway's
\* cursor pass a receipt it did not count.
THEOREM CursorSkipsNothing == Spec => []NothingSkipped
<1>1. Inv => NothingSkipped
  BY DEF Inv, SeenIsHeard, Read, NothingSkipped
<1> QED
  BY <1>1, LedgerInvariant, PTL

\* ledger.rs:1-9: for any number of gateways, however late the topic and
\* whatever is lost on the way to it, two that have read it to the same place
\* differ by exactly what each recorded itself since it started.
THEOREM ProvidersAgree == Spec => []LedgersAgree
<1>1. Inv => LedgersAgree
  <2> SUFFICES ASSUME SeenIsHeard, NEW g \in Gateways, NEW h \in Gateways, last[g] = last[h]
               PROVE  seen[g] \ seen[h] = (recorded[g] \cap TreeTxs) \ seen[h]
    BY DEF Inv, LedgersAgree
  <2>1. Read(g) = Read(h)
    BY DEF Read
  <2>2. /\ seen[g] = (Read(g) \cup recorded[g]) \cap TreeTxs
        /\ seen[h] = (Read(h) \cup recorded[h]) \cap TreeTxs
    BY DEF SeenIsHeard
  <2> QED
    BY <2>1, <2>2
<1> QED
  BY <1>1, LedgerInvariant, PTL

\* ledger.rs:7-9: for any gateways and any receipts, a settlement counts once
\* in every ledger's totals, whichever of the hook and the pages of the topic
\* brings it first and however often.
THEOREM SettlementsCountOnce == Spec => []CountedOnce
<1>1. Inv => CountedOnce
  BY DEF Inv, Counted, CountedOnce, Seen, Total
<1> QED
  BY <1>1, LedgerInvariant, PTL
=============================================================================
