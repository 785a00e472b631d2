--------------------------- MODULE DashboardProofs ---------------------------
(***************************************************************************)
(* Theorems about the dashboard on live data, about the frame around every *)
(* page, and about the demo store.                                         *)
(*                                                                         *)
(* Dashboard: what is shown as spent has settled.  Receipts travel: from   *)
(* the settlement to the gateway's list and its publisher, from there to   *)
(* the topic, into a refresh and to the page; some get lost on the way, and *)
(* a source that fails leaves an older copy.  The invariant follows them:  *)
(* no place holds one that is not settled.  That each counts once is then  *)
(* the merge's doing.  And what is shown of a name was so while the tree   *)
(* was read.                                                               *)
(*                                                                         *)
(* AppShell: the page's scrolling is given back; a flag tells of what is   *)
(* in flight; and no control of the frame begins a request in the demo.    *)
(*                                                                         *)
(* DemoApp: the store keeps a tree, in which each grant holds what was     *)
(* spent and handed on, who is below a revoked one is revoked, and the log *)
(* accounts for every meter.  What the pages show is a walk of that tree.  *)
(***************************************************************************)
EXTENDS Dashboard, AppShell, DemoApp, Totals, SequenceTheorems

\* Every place a receipt comes through.
Travels ==
  /\ IsFiniteSet(settled)
  /\ held \in Seq(settled)
  /\ queue \in Seq(settled)
  /\ topic \in Seq(settled)
  /\ "got" \in DOMAIN load
  /\ load.got \subseteq settled
  /\ shown.gateway \subseteq settled
  /\ shown.topic \subseteq settled

(* The newest of a sequence are of it.                                     *)
LEMMA LatestIsOfIt ==
  ASSUME NEW S, NEW seq \in Seq(S), NEW n \in Nat
  PROVE  Latest(seq, n) \in Seq(S) /\ ToSet(Latest(seq, n)) \subseteq S
<1> DEFINE first == IF Len(seq) > n THEN Len(seq) - n + 1 ELSE 1
<1>1. Len(seq) \in Nat /\ \A i \in 1..Len(seq) : seq[i] \in S
  OBVIOUS
<1>2. first \in Nat /\ first >= 1 /\ first <= Len(seq) + 1
  BY <1>1
<1> HIDE DEF first
<1>3. SubSeq(seq, first, Len(seq)) \in Seq(S)
  BY <1>1, <1>2
<1>4. Latest(seq, n) \in Seq(S)
  BY <1>3 DEF Latest, first
<1> QED
  BY <1>4 DEF ToSet

(* The topic and the gateway's list are of what had settled, so what a     *)
(* refresh reads of them is settled (adapter.ts:83-101).                   *)
LEMMA SourcesHoldTheSettled ==
  ASSUME Travels
  PROVE  ToSet(held) \subseteq settled /\ Newest \subseteq settled
<1>1. Newest \subseteq settled
  BY LatestIsOfIt, DashboardAssumption DEF Travels, Newest
<1>2. ToSet(held) \subseteq settled
  BY DEF Travels, ToSet
<1> QED
  BY <1>1, <1>2

(* A refresh that begins or is given up holds no receipt yet.              *)
LEMMA IdleHoldsNothing == "got" \in DOMAIN Idle /\ Idle.got = {}
BY DEF Idle

(* What a step of the tree does to the refresh in flight is about names.   *)
LEMMA ChangeKeepsReceipts ==
  ASSUME "got" \in DOMAIN load, NEW there, Observe(there)
  PROVE  "got" \in DOMAIN load' /\ load'.got = load.got
BY DEF Observe

(* A refresh starts empty, whichever of its sources it asks.               *)
LEMMA BeginHoldsNothing ==
  ASSUME NEW force, BeginRefresh(force)
  PROVE  "got" \in DOMAIN load' /\ load'.got = {}
BY IdleHoldsNothing DEF BeginRefresh, Walk

(* What a payment, a change on chain or a call of the refresh does, place  *)
(* by place.                                                               *)
LEMMA StepKeepsSettled ==
  ASSUME Travels, Next
  PROVE  Travels'
<1> USE DEF Travels, chainVars, payVars, viewVars, timing
<1>1. ASSUME NEW n, Revoke(n) \/ Renew(n) \/ Lapse(n) PROVE Travels'
  BY <1>1, ChangeKeepsReceipts DEF Revoke, Renew, Lapse, Change
<1>2. ASSUME NEW p, Settle(p) \/ SettleElsewhere(p) PROVE Travels'
  <2>1. settled' = settled \cup {p}
    BY <1>2 DEF Settle, SettleElsewhere
  <2>2. IsFiniteSet(settled')
    BY <2>1, FS_AddElement
  <2>3. Append(queue, p) \in Seq(settled') /\ Append(topic, p) \in Seq(settled')
    <3>1. queue \in Seq(settled') /\ topic \in Seq(settled') /\ p \in settled'
      BY <2>1
    <3> QED
      BY <3>1
  <2>4. held \in Seq(settled') /\ Latest(Append(held, p), ListCap) \in Seq(settled')
    <3>1. held \in Seq(settled') /\ p \in settled'
      BY <2>1
    <3>2. Append(held, p) \in Seq(settled')
      BY <3>1
    <3> QED
      BY <3>1, <3>2, LatestIsOfIt, DashboardAssumption
  <2>5. queue \in Seq(settled') /\ topic \in Seq(settled')
    BY <2>1
  <2>6. UNCHANGED <<load, shown>>
    BY <1>2 DEF Settle, SettleElsewhere
  <2>7. /\ queue' \in {queue, Append(queue, p)}
        /\ topic' \in {topic, Append(topic, p)}
        /\ held' \in {held, Latest(Append(held, p), ListCap)}
    BY <1>2 DEF Settle, SettleElsewhere
  <2> QED
    BY <2>1, <2>2, <2>3, <2>4, <2>5, <2>6, <2>7
<1>3. CASE Publish
  <2>1. Tail(queue) \in Seq(settled) /\ Append(topic, Head(queue)) \in Seq(settled)
    BY <1>3 DEF Publish
  <2> QED BY <1>3, <2>1 DEF Publish
<1>4. CASE Bury
  BY <1>4 DEF Bury
<1>5. CASE Restart
  BY <1>5 DEF Restart
<1>6. CASE Poll \/ Look \/ LookAway \/ ForceRefresh
  <2>1. "got" \in DOMAIN load' /\ load'.got \subseteq load.got
    BY <1>6, BeginHoldsNothing DEF Poll, Look, LookAway, ForceRefresh
  <2> QED BY <1>6, <2>1 DEF Poll, Look, LookAway, ForceRefresh
<1>7. CASE ReadState
  <2>1. "got" \in DOMAIN load' /\ load'.got = load.got
    BY <1>7 DEF ReadState
  <2> QED BY <1>7, <2>1 DEF ReadState
<1>8. CASE ReadRecords
  <2>1. "got" \in DOMAIN load' /\ load'.got = load.got
    BY <1>8 DEF ReadRecords
  <2> QED BY <1>8, <2>1 DEF ReadRecords
<1>9. CASE ReadGateway
  <2>1. "got" \in DOMAIN load' /\ load'.got \in {ToSet(held), load.got}
    BY <1>9 DEF ReadGateway
  <2> QED BY <1>9, <2>1, SourcesHoldTheSettled DEF ReadGateway
<1>10. CASE Commit
  <2>1. shown'.gateway \in {load.got, shown.gateway}
    BY <1>10 DEF Commit, Keep
  <2>2. shown'.topic \in {Newest, shown.topic}
    BY <1>10 DEF Commit, Keep
  <2>3. "got" \in DOMAIN load' /\ load'.got = {}
    BY <1>10, IdleHoldsNothing DEF Commit, Landed
  <2> QED BY <1>10, <2>1, <2>2, <2>3, SourcesHoldTheSettled DEF Commit
<1>11. CASE BackoffEnds
  BY <1>11 DEF BackoffEnds
<1>12. ASSUME NEW n, NEW b, FillIn(n, b) PROVE Travels'
  BY <1>12 DEF FillIn
<1>13. CASE Cancel
  BY <1>13 DEF Cancel
<1>14. CASE Mint
  BY <1>14, ChangeKeepsReceipts DEF Mint, Change
<1>15. CASE WriteRecords
  BY <1>15 DEF WriteRecords
<1>16. CASE AwaitRefresh
  <2>1. "got" \in DOMAIN load' /\ load'.got \subseteq load.got
    BY <1>16, BeginHoldsNothing DEF AwaitRefresh
  <2> QED BY <1>16, <2>1 DEF AwaitRefresh
<1> QED
  BY <1>1, <1>2, <1>3, <1>4, <1>5, <1>6, <1>7, <1>8, <1>9, <1>10, <1>11, <1>12,
     <1>13, <1>14, <1>15, <1>16 DEF Next, Loading

(* mergeReceipts (adapter.ts:83-101) leaves each payment one receipt: what *)
(* a name is shown to have spent maps one to one into what settled for it. *)
LEMMA MergeCountsOnce ==
  ASSUME Travels
  PROVE  SpendIsNotOverstated
<1> SUFFICES ASSUME NEW n \in Names
             PROVE  SpentShown(n) <= Cardinality({p \in settled : PaidBy[p] = n})
  BY DEF SpendIsNotOverstated
<1> DEFINE counted == {r \in Receipts : PaidBy[r[1]] = n}
           paid == {p \in settled : PaidBy[p] = n}
           payment == [r \in counted |-> r[1]]
<1>1. IsFiniteSet(paid) /\ Cardinality(paid) \in Nat
  BY FS_Subset, FS_CardinalityType DEF Travels
<1>2. ASSUME NEW r \in counted PROVE r[1] \in paid
  BY DEF Travels, Receipts
<1>3. ASSUME NEW r \in counted, NEW s \in counted, r[1] = s[1] PROVE r = s
  <2>1. \/ r[1] \in shown.topic /\ r = <<r[1], "hcs">>
        \/ r[1] \notin shown.topic /\ r = <<r[1], "gateway">>
    BY DEF Receipts
  <2>2. \/ s[1] \in shown.topic /\ s = <<s[1], "hcs">>
        \/ s[1] \notin shown.topic /\ s = <<s[1], "gateway">>
    BY DEF Receipts
  <2> QED BY <1>3, <2>1, <2>2
<1>4. payment \in Injection(counted, paid)
  <2>1. payment \in [counted -> paid]
    BY <1>2
  <2>2. IsInjective(payment)
    BY <1>3 DEF IsInjective
  <2> QED BY <2>1, <2>2 DEF Injection
<1>5. Cardinality(counted) <= Cardinality(paid)
  BY <1>1, <1>4, FS_Injection
<1>6. SpentShown(n) \in {0, Cardinality(counted)}
  BY DEF SpentShown
<1> QED BY <1>1, <1>5, <1>6

(* adapter.ts:83-101,147-155.  For any tree, any payments and any window   *)
(* on the topic, however sources fail and a gateway restarts: what a page  *)
(* shows as spent has settled, each payment counted once.                  *)
THEOREM ShownSpendIsReal == Spec => []SpendIsNotOverstated
<1>1. Init => Travels
  <2> SUFFICES ASSUME Init PROVE Travels
    OBVIOUS
  <2>1. "got" \in DOMAIN load /\ load.got = {}
    BY IdleHoldsNothing DEF Init
  <2>2. <<>> \in Seq({})
    OBVIOUS
  <2> QED BY <2>1, <2>2, FS_EmptySet DEF Init, Travels, Blank
<1>2. ASSUME Travels, [Next]_vars PROVE Travels'
  <2>1. CASE Next
    BY <1>2, <2>1, StepKeepsSettled
  <2>2. CASE UNCHANGED vars
    BY <1>2, <2>2 DEF vars, payVars, viewVars, Travels
  <2> QED BY <1>2, <2>1, <2>2
<1>3. Travels => SpendIsNotOverstated
  BY MergeCountsOnce
<1> QED BY <1>1, <1>2, <1>3, PTL DEF Spec

-----------------------------------------------------------------------------
(***************************************************************************)
(* A status that is shown was true while the tree was read.  The invariant *)
(* has the chain's side, that whoever lives was minted and that a name is  *)
(* minted where its parent is, and the reader's: with a name it found all  *)
(* above it, and an expiry it has was so at some instant since it began.   *)
(* What is above a name is a recursive function; that there is one, and    *)
(* what it is of a set that holds the parents, is proved first.            *)
(***************************************************************************)

Entries == [kind : {"mint", "unregister", "renew"}, name : Names, budget : Nat]

\* The names there after so many events.
MintedBy(entries, k) ==
  Existing \cup {entries[i].name : i \in {j \in 1..k : entries[j].kind = "mint"}}

\* The chain: a name is minted under one that is there, and only a name that
\* was minted is alive.
TreeInv ==
  /\ log \in Seq(Entries)
  /\ deep \in 0..Len(log)
  /\ alive \subseteq MintedBy(log, Len(log))
  /\ \A i \in 1..Len(log) : log[i].kind = "mint" => Parent[log[i].name] \in MintedBy(log, i - 1)
  /\ wizard \in [stage : {"closed", "filled", "minted", "halfway", "done", "waiting"},
                 name : Names \cup {NoName}, budget : Nat]
  /\ wizard.stage = "filled" => wizard.name \in Names

\* The refresh: it found no name without those above it, and what it read of a
\* name's expiry was so at some instant since it began.
ReadInv ==
  /\ DOMAIN load = DOMAIN Idle
  /\ load.found \subseteq Names
  /\ \A n \in load.found : Above[n] \subseteq load.found
  /\ load.expiry \in [Names -> {"unread", "future", "past", "failed"}]
  /\ \A n \in Names : /\ load.expiry[n] = "future" => n \in load.was
                      /\ load.expiry[n] = "past" => n \in load.wasnt
  /\ load.ens = "reading" => alive \subseteq load.was /\ Names \ alive \subseteq load.wasnt
  /\ load.ens = "fulfilled" => \A n \in load.found : load.expiry[n] # "unread"

\* A set that holds, with a name, the one above it.
Upward(S) == \A n \in S : Parent[n] \in S \cup {NoName}

\* What Above is defined to be, and a function that is so: the names in every
\* upward set that holds the parent.
IsAbove(f) ==
  f = [n \in Names |-> IF Parent[n] = NoName THEN {} ELSE {Parent[n]} \cup f[Parent[n]]]

Ups(n) ==
  {m \in Names : \A S \in SUBSET Names :
                   Upward(S) /\ Parent[n] \in S \cup {NoName} => m \in S}

(* The names above a name are its parent and those above that.             *)
LEMMA AboveIs ==
  ASSUME NEW n \in Names
  PROVE  Above[n] = IF Parent[n] = NoName THEN {} ELSE {Parent[n]} \cup Above[Parent[n]]
<1>1. IsAbove([m \in Names |-> Ups(m)])
  <2>1. ASSUME NEW m \in Names, Parent[m] = NoName PROVE Ups(m) = {}
    <3>1. {} \in SUBSET Names /\ Upward({}) /\ Parent[m] \in {} \cup {NoName}
      BY <2>1 DEF Upward
    <3> QED
      BY <3>1 DEF Ups
  <2>2. ASSUME NEW m \in Names, Parent[m] # NoName
        PROVE  Parent[m] \in Names /\ Ups(m) = {Parent[m]} \cup Ups(Parent[m])
    <3> DEFINE p == Parent[m]
               S == {p} \cup Ups(p)
    <3>1. p \in Names
      BY <2>2, DashboardAssumption
    <3>2. S \in SUBSET Names
      BY <3>1 DEF Ups
    <3>3. ASSUME NEW T \in SUBSET Names, Upward(T), p \in T PROVE S \subseteq T
      <4>1. Parent[p] \in T \cup {NoName}
        BY <3>3 DEF Upward
      <4> QED
        BY <3>3, <4>1 DEF Ups
    <3>4. Upward(S)
      <4>1. ASSUME NEW x \in S, Parent[x] # NoName PROVE Parent[x] \in S
        <5>1. Parent[x] \in Names
          BY <3>2, <4>1, DashboardAssumption
        <5>2. ASSUME NEW T \in SUBSET Names, Upward(T), Parent[p] \in T \cup {NoName}
              PROVE  x = p \/ Parent[x] \in T
          BY <4>1, <5>2 DEF Ups, Upward
        <5>3. CASE x = p
          <6>1. Parent[p] \in Ups(p)
            BY <4>1, <5>1, <5>3 DEF Ups
          <6> QED
            BY <5>3, <6>1
        <5>4. CASE x # p
          BY <5>1, <5>2, <5>4 DEF Ups
        <5> QED
          BY <5>3, <5>4
      <4> QED
        BY <4>1 DEF Upward
    <3> HIDE DEF S
    <3>5. p \in S
      BY DEF S
    <3>6. Ups(m) \subseteq S
      BY <3>2, <3>4, <3>5 DEF Ups
    <3>7. S \subseteq Ups(m)
      BY <2>2, <3>2, <3>3 DEF Ups
    <3> QED
      BY <3>1, <3>6, <3>7 DEF S
  <2> QED
    BY <2>1, <2>2 DEF IsAbove
<1>2. IsAbove(CHOOSE f : IsAbove(f))
  BY <1>1
<1>3. Above = CHOOSE f : IsAbove(f)
  BY DEF Above, IsAbove
<1>4. IsAbove(Above)
  BY <1>2, <1>3
<1> QED
  BY <1>4 DEF IsAbove

(* A set that holds the parents holds all that is above: of the names for  *)
(* which it would not, one comes first in the walk, and its parent before  *)
(* it.                                                                     *)
LEMMA AboveWithin ==
  ASSUME NEW S \in SUBSET Names, Upward(S), NEW n \in S
  PROVE  Above[n] \subseteq S
<1> DEFINE bad == {i \in DOMAIN Order : Order[i] \in S /\ ~ (Above[Order[i]] \subseteq S)}
<1>1. DOMAIN Order = 1..Len(Order) /\ Len(Order) \in Nat
  BY DashboardAssumption
<1>2. \E i \in DOMAIN Order : Order[i] = n
  BY DashboardAssumption DEF ToSet
<1>3. SUFFICES ASSUME bad # {} PROVE FALSE
  BY <1>2
<1>4. bad \in SUBSET Nat
  BY <1>1
<1>5. PICK i \in bad : \A j \in bad : i <= j
  <2> HIDE DEF bad
  <2> QED
    BY <1>3, <1>4, NatHasMin
<1>6. i \in DOMAIN Order /\ Order[i] \in S /\ ~ (Above[Order[i]] \subseteq S)
  BY <1>5
<1>7. CASE Parent[Order[i]] = NoName
  BY <1>6, <1>7, AboveIs
<1>8. CASE Parent[Order[i]] # NoName
  <2>1. PICK j \in 1..(i - 1) : Parent[Order[i]] = Order[j]
    BY <1>6, <1>8, DashboardAssumption
  <2>2. j \in DOMAIN Order /\ j < i
    BY <1>1, <1>6, <2>1
  <2>3. Order[j] \in S
    BY <1>6, <1>8, <2>1 DEF Upward
  <2>4. j \notin bad
    BY <1>1, <1>5, <1>6, <2>2
  <2>5. Above[Order[j]] \subseteq S
    BY <2>2, <2>3, <2>4
  <2>6. Above[Order[i]] = {Order[j]} \cup Above[Order[j]]
    BY <1>6, <1>8, <2>1, AboveIs
  <2> QED
    BY <1>6, <2>3, <2>5, <2>6
<1> QED
  BY <1>7, <1>8

(* The walk has an end.                                                    *)
LEMMA NamesFinite == IsFiniteSet(Names)
<1>1. Order \in Seq(Names) /\ ToSet(Order) = Names
  BY DashboardAssumption
<1>2. Order \in [1..Len(Order) -> Names] /\ Len(Order) \in Nat
  BY <1>1
<1>3. \A n \in Names : \E i \in 1..Len(Order) : Order[i] = n
  BY <1>1, <1>2 DEF ToSet
<1>4. Order \in Surjection(1..Len(Order), Names)
  BY <1>2, <1>3 DEF Surjection
<1>5. IsFiniteSet(1..Len(Order))
  BY <1>2, FS_Interval
<1> QED
  BY <1>4, <1>5, FS_Surjection

(* Only names of the tree are above one of them, so that its depth counts. *)
LEMMA DepthIsNat ==
  ASSUME NEW n \in Names
  PROVE  Above[n] \subseteq Names /\ IsFiniteSet(Above[n]) /\ Depth(n) \in Nat
<1>1. Upward(Names)
  BY DashboardAssumption DEF Upward
<1>2. Above[n] \subseteq Names
  BY <1>1, AboveWithin
<1> QED
  BY <1>2, NamesFinite, FS_Subset, FS_CardinalityType DEF Depth

(* A parent is at no greater depth.                                        *)
LEMMA ParentIsShallower ==
  ASSUME NEW n \in Names, Parent[n] # NoName
  PROVE  Parent[n] \in Names /\ Depth(Parent[n]) \in Nat /\ Depth(n) \in Nat
         /\ Depth(Parent[n]) <= Depth(n)
<1>1. Parent[n] \in Names
  BY DashboardAssumption
<1>2. Above[Parent[n]] \subseteq Above[n]
  BY <1>1, AboveIs
<1> QED
  BY <1>1, <1>2, DepthIsNat, FS_Subset DEF Depth

(* The names minted by a prefix of the log are those of its mints.         *)
LEMMA MintedByPrefix ==
  ASSUME log \in Seq(Entries), NEW k \in 0..Len(log)
  PROVE  Minted(SubSeq(log, 1, k)) = MintedBy(log, k)
<1> DEFINE entries == SubSeq(log, 1, k)
<1>1. DOMAIN entries = 1..k /\ \A i \in 1..k : entries[i] = log[i]
  OBVIOUS
<1> HIDE DEF entries
<1>2. Mints(entries) = {log[i] : i \in {j \in 1..k : log[j].kind = "mint"}}
  BY <1>1 DEF Mints, ToSet
<1> QED
  BY <1>2 DEF Minted, MintedBy, entries

(* And those of the whole log.                                             *)
LEMMA MintedIs ==
  ASSUME log \in Seq(Entries)
  PROVE  Minted(log) = MintedBy(log, Len(log))
<1>1. Mints(log) = {log[i] : i \in {j \in 1..Len(log) : log[j].kind = "mint"}}
  BY DEF Mints, ToSet
<1> QED
  BY <1>1 DEF Minted, MintedBy

(* They are names of the tree.                                             *)
LEMMA MintedAreNames ==
  ASSUME log \in Seq(Entries), NEW k \in 0..Len(log)
  PROVE  MintedBy(log, k) \subseteq Names
<1>1. \A i \in 1..k : log[i] \in Entries
  OBVIOUS
<1>2. \A i \in 1..k : log[i].name \in Names
  BY <1>1 DEF Entries
<1>3. Existing \subseteq Names
  BY DashboardAssumption
<1> QED
  BY <1>2, <1>3 DEF MintedBy

(* What a walk finds, however far it reaches, it finds with all above it.  *)
LEMMA WalkFindsAbove ==
  ASSUME TreeInv, NEW reach \in Nat
  PROVE  /\ Walk(reach).found \subseteq Names
         /\ \A n \in Walk(reach).found : Above[n] \subseteq Walk(reach).found
<1> DEFINE F == {n \in MintedBy(log, deep) : Depth(n) <= reach}
<1>1. Walk(reach).found = F
  <2>1. Minted(SubSeq(log, 1, deep)) = MintedBy(log, deep)
    BY MintedByPrefix DEF TreeInv
  <2> QED
    BY <2>1 DEF Walk, Idle
<1>2. MintedBy(log, deep) \subseteq Names
  BY MintedAreNames DEF TreeInv
<1>3. Upward(F)
  <2> SUFFICES ASSUME NEW n \in F, Parent[n] # NoName PROVE Parent[n] \in F
    BY DEF Upward
  <2>1. Parent[n] \in MintedBy(log, deep)
    <3>1. CASE n \in Existing
      BY <3>1, DashboardAssumption DEF MintedBy
    <3>2. CASE n \notin Existing
      <4>1. PICK i \in 1..deep : log[i].kind = "mint" /\ log[i].name = n
        BY <3>2 DEF MintedBy
      <4>2. i \in 1..Len(log) /\ deep \in Nat
        BY <4>1 DEF TreeInv
      <4>3. Parent[n] \in MintedBy(log, i - 1)
        BY <4>1, <4>2 DEF TreeInv
      <4>4. MintedBy(log, i - 1) \subseteq MintedBy(log, deep)
        BY <4>1, <4>2 DEF MintedBy
      <4> QED
        BY <4>3, <4>4
    <3> QED
      BY <3>1, <3>2
  <2>2. Depth(Parent[n]) <= Depth(n) /\ Depth(Parent[n]) \in Nat /\ Depth(n) \in Nat
    BY <1>2, ParentIsShallower
  <2> QED
    BY <2>1, <2>2
<1> HIDE DEF F
<1>4. F \subseteq Names
  BY <1>2 DEF F
<1> QED
  BY <1>1, <1>3, <1>4, AboveWithin

(* An event at the end of the log changes nothing of what was before.      *)
LEMMA LogGrows ==
  ASSUME TreeInv, NEW e \in Entries, log' = log \o <<e>>
  PROVE  /\ log' \in Seq(Entries)
         /\ Len(log') = Len(log) + 1
         /\ log'[Len(log) + 1] = e
         /\ \A i \in 1..Len(log) : log'[i] = log[i]
         /\ \A k \in 0..Len(log) : MintedBy(log', k) = MintedBy(log, k)
<1>1. /\ log' \in Seq(Entries)
      /\ Len(log') = Len(log) + 1
      /\ log'[Len(log) + 1] = e
      /\ \A i \in 1..Len(log) : log'[i] = log[i]
  BY DEF TreeInv
<1>2. ASSUME NEW k \in 0..Len(log) PROVE MintedBy(log', k) = MintedBy(log, k)
  <2>1. \A i \in 1..k : log'[i] = log[i]
    BY <1>1 DEF TreeInv
  <2> QED
    BY <2>1 DEF MintedBy
<1> QED
  BY <1>1, <1>2

(* A change of the tree: nobody lives who was not minted, and a name is    *)
(* minted where its parent is (MandateRegistrar, through wallet.ts).       *)
LEMMA ChangeKeepsTree ==
  ASSUME TreeInv, NEW e \in Entries, NEW there,
         Change(<<e>>, there),
         there \subseteq MintedBy(log, Len(log)) \cup (IF e.kind = "mint" THEN {e.name} ELSE {}),
         e.kind = "mint" => Parent[e.name] \in alive,
         deep' = deep,
         wizard' = wizard \/ wizard' = [wizard EXCEPT !.stage = "minted"]
  PROVE  TreeInv'
<1>1. log' = log \o <<e>> /\ alive' = there
  BY DEF Change
<1>2. /\ log' \in Seq(Entries)
      /\ Len(log') = Len(log) + 1
      /\ log'[Len(log) + 1] = e
      /\ \A i \in 1..Len(log) : log'[i] = log[i]
      /\ \A k \in 0..Len(log) : MintedBy(log', k) = MintedBy(log, k)
  BY <1>1, LogGrows
<1>3. Len(log) \in Nat
  BY DEF TreeInv
<1>4. MintedBy(log', Len(log')) = MintedBy(log, Len(log)) \cup (IF e.kind = "mint" THEN {e.name} ELSE {})
  BY <1>2, <1>3 DEF MintedBy
<1>5. ASSUME NEW i \in 1..Len(log'), log'[i].kind = "mint"
      PROVE  Parent[log'[i].name] \in MintedBy(log', i - 1)
  <2>1. CASE i \in 1..Len(log)
    <3>1. log'[i] = log[i] /\ i - 1 \in 0..Len(log)
      BY <1>2, <1>3, <2>1
    <3>2. MintedBy(log', i - 1) = MintedBy(log, i - 1)
      BY <1>2, <3>1
    <3>3. Parent[log[i].name] \in MintedBy(log, i - 1)
      BY <1>5, <2>1, <3>1 DEF TreeInv
    <3> QED
      BY <3>1, <3>2, <3>3
  <2>2. CASE i = Len(log) + 1
    <3>1. Parent[e.name] \in MintedBy(log, Len(log))
      BY <1>2, <1>5, <2>2 DEF TreeInv
    <3>2. i - 1 = Len(log)
      BY <1>3, <2>2
    <3> QED
      BY <1>2, <1>3, <2>2, <3>1, <3>2
  <2> QED
    BY <1>2, <1>3, <2>1, <2>2
<1>6. deep' \in 0..Len(log')
  BY <1>2, <1>3 DEF TreeInv
<1>7. /\ wizard' \in [stage : {"closed", "filled", "minted", "halfway", "done", "waiting"},
                      name : Names \cup {NoName}, budget : Nat]
      /\ wizard'.stage = "filled" => wizard'.name \in Names
  BY DEF TreeInv
<1>8. alive' \subseteq MintedBy(log', Len(log'))
  BY <1>1, <1>4
<1> QED
  BY <1>2, <1>5, <1>6, <1>7, <1>8 DEF TreeInv

(* The tree as it is stays, whatever happens to the dialog.                *)
LEMMA DialogKeepsTree ==
  ASSUME TreeInv, UNCHANGED <<log, alive>>, deep' \in {deep, Len(log)},
         wizard' \in {wizard, Closed}
           \cup {[wizard EXCEPT !.stage = stage] : stage \in {"halfway", "done", "waiting"}}
  PROVE  TreeInv'
<1>1. /\ wizard' \in [stage : {"closed", "filled", "minted", "halfway", "done", "waiting"},
                      name : Names \cup {NoName}, budget : Nat]
      /\ wizard'.stage = "filled" => wizard'.name \in Names
  BY DEF TreeInv, Closed
<1>2. deep' \in 0..Len(log')
  BY DEF TreeInv
<1> QED
  BY <1>1, <1>2 DEF TreeInv

(* The chain's side, action by action.                                     *)
LEMMA StepKeepsTree ==
  ASSUME TreeInv, Next
  PROVE  TreeInv'
<1> USE DEF chainVars, viewVars, payVars, timing
<1>1. ASSUME NEW n \in Names, Revoke(n) PROVE TreeInv'
  <2>1. Entry("unregister", n, 0) \in Entries /\ Entry("unregister", n, 0).kind = "unregister"
    BY DEF Entry, Entries
  <2>2. alive \ {n} \subseteq MintedBy(log, Len(log))
    BY DEF TreeInv
  <2> QED
    BY <1>1, <2>1, <2>2, ChangeKeepsTree DEF Revoke
<1>2. ASSUME NEW n \in Names, Renew(n) PROVE TreeInv'
  <2>1. Entry("renew", n, 0) \in Entries /\ Entry("renew", n, 0).kind = "renew"
    BY DEF Entry, Entries
  <2>2. alive \cup {n} \subseteq MintedBy(log, Len(log))
    BY <1>2, MintedIs DEF TreeInv, Renew
  <2> QED
    BY <1>2, <2>1, <2>2, ChangeKeepsTree DEF Renew
<1>3. ASSUME NEW n \in Names, Lapse(n) PROVE TreeInv'
  <2>1. log' = log /\ alive' = alive \ {n} /\ deep' = deep /\ wizard' = wizard
    BY <1>3 DEF Lapse, Change, TreeInv
  <2> QED
    BY <2>1 DEF TreeInv
<1>4. ASSUME NEW p, Settle(p) \/ SettleElsewhere(p) \/ Publish PROVE TreeInv'
  BY <1>4, DialogKeepsTree DEF Settle, SettleElsewhere, Publish
<1>5. CASE Bury
  BY <1>5, DialogKeepsTree DEF Bury
<1>6. CASE Restart \/ Poll \/ Look \/ LookAway \/ ForceRefresh \/ BackoffEnds
  BY <1>6, DialogKeepsTree DEF Restart, Poll, Look, LookAway, ForceRefresh, BackoffEnds
<1>7. CASE ReadState \/ ReadRecords \/ ReadGateway
  BY <1>7, DialogKeepsTree DEF ReadState, ReadRecords, ReadGateway
<1>8. CASE Commit
  BY <1>8, DialogKeepsTree DEF Commit
<1>9. ASSUME NEW n \in Names \ Existing, NEW b \in Amounts, FillIn(n, b) PROVE TreeInv'
  <2>1. wizard' \in [stage : {"closed", "filled", "minted", "halfway", "done", "waiting"},
                     name : Names \cup {NoName}, budget : Nat]
        /\ wizard'.name \in Names
    BY <1>9, DashboardAssumption DEF FillIn
  <2>2. log' = log /\ deep' = deep /\ alive' = alive
    BY <1>9 DEF FillIn
  <2> QED
    BY <2>1, <2>2 DEF TreeInv
<1>10. CASE Cancel
  BY <1>10, DialogKeepsTree DEF Cancel
<1>11. CASE Mint
  <2> DEFINE e == Entry("mint", wizard.name, wizard.budget)
  <2>1. e \in Entries /\ e.kind = "mint" /\ e.name = wizard.name
    BY <1>11 DEF Entry, Entries, Mint, TreeInv
  <2>2. Parent[e.name] \in alive
    BY <1>11, <2>1 DEF Mint, Mintable
  <2>3. alive \cup {wizard.name} \subseteq MintedBy(log, Len(log)) \cup {e.name}
    BY <2>1 DEF TreeInv
  <2>4. Change(<<e>>, alive \cup {wizard.name}) /\ deep' = deep
        /\ wizard' = [wizard EXCEPT !.stage = "minted"]
    BY <1>11 DEF Mint
  <2> HIDE DEF e
  <2> QED
    BY <2>1, <2>2, <2>3, <2>4, ChangeKeepsTree
<1>12. CASE WriteRecords
  BY <1>12, DialogKeepsTree DEF WriteRecords
<1>13. CASE AwaitRefresh
  BY <1>13, DialogKeepsTree DEF AwaitRefresh
<1> QED
  BY <1>1, <1>2, <1>3, <1>4, <1>5, <1>6, <1>7, <1>8, <1>9, <1>10, <1>11, <1>12, <1>13
     DEF Next, Loading

(* Nothing is found by a refresh that has not begun, or whose head block   *)
(* could not be asked for.                                                 *)
LEMMA IdleReadsNothing ==
  ASSUME NEW x, DOMAIN x = DOMAIN Idle, x.found = {}, x.expiry = Idle.expiry,
         x.ens \in {"none", "rejected"}, load' = x
  PROVE  ReadInv'
<1>1. \A n \in Names : x.expiry[n] = "unread"
  BY DEF Idle, NoTree
<1>2. x.expiry \in [Names -> {"unread", "future", "past", "failed"}]
  BY DEF Idle, NoTree
<1> QED
  BY <1>1, <1>2 DEF ReadInv

(* A refresh begins: the walk is of one instant, and what is alive then is *)
(* noted.                                                                  *)
LEMMA BeginReads ==
  ASSUME TreeInv, NEW force, BeginRefresh(force), alive' = alive
  PROVE  ReadInv'
<1>1. ASSUME NEW reach \in Nat, NEW gw, load' = [Walk(reach) EXCEPT !.gw = gw]
      PROVE  ReadInv'
  <2>1. /\ DOMAIN load' = DOMAIN Idle
        /\ load'.found = Walk(reach).found
        /\ load'.expiry = [n \in Names |-> "unread"]
        /\ load'.ens = "reading"
        /\ load'.was = alive
        /\ load'.wasnt = Names \ alive
    BY <1>1 DEF Walk, Idle, NoTree
  <2>2. /\ Walk(reach).found \subseteq Names
        /\ \A n \in Walk(reach).found : Above[n] \subseteq Walk(reach).found
    BY <1>1, WalkFindsAbove
  <2> QED
    BY <2>1, <2>2 DEF ReadInv
<1>2. ASSUME NEW gw, load' = [Idle EXCEPT !.ens = "rejected", !.gw = gw]
      PROVE  ReadInv'
  <2> DEFINE x == [Idle EXCEPT !.ens = "rejected", !.gw = gw]
  <2>1. DOMAIN x = DOMAIN Idle /\ x.found = {} /\ x.expiry = Idle.expiry /\ x.ens = "rejected"
    BY DEF Idle, NoTree
  <2> HIDE DEF x
  <2>2. load' = x
    BY <1>2 DEF x
  <2> QED
    BY <2>1, <2>2, IdleReadsNothing
<1>3. Depths \subseteq Nat
  BY DepthIsNat DEF Depths
<1>4. Cardinality(Names) \in Nat
  BY NamesFinite, FS_CardinalityType
<1> QED
  BY <1>1, <1>2, <1>3, <1>4 DEF BeginRefresh

(* The tree changes under a refresh: what was read was so.                 *)
LEMMA ObserveKeepsRead ==
  ASSUME ReadInv, NEW there, Observe(there), alive' = there
  PROVE  ReadInv'
<1>1. CASE InFlight
  <2>1. load' = [load EXCEPT !.was = @ \cup there, !.wasnt = @ \cup (Names \ there)]
    BY <1>1 DEF Observe
  <2>2. /\ DOMAIN load' = DOMAIN Idle
        /\ load'.found = load.found
        /\ load'.expiry = load.expiry
        /\ load'.ens = load.ens
        /\ load'.was = load.was \cup there
        /\ load'.wasnt = load.wasnt \cup (Names \ there)
    BY <2>1 DEF ReadInv, Idle
  <2> QED
    BY <2>2 DEF ReadInv
<1>2. CASE ~InFlight
  BY <1>2 DEF Observe, ReadInv, InFlight
<1> QED
  BY <1>1, <1>2

(* An expiry is read, or is not.                                           *)
LEMMA ReadStateKeepsRead ==
  ASSUME ReadInv, ReadState
  PROVE  ReadInv'
<1> DEFINE n == Order[Min(Unread)]
<1>1. PICK e \in {"future", "past", "failed"} :
        /\ load' = [load EXCEPT !.expiry[n] = e]
        /\ e = "future" => n \in alive
        /\ e = "past" => n \notin alive
  BY DEF ReadState
<1>2. load.ens = "reading" /\ alive' = alive
  BY DEF ReadState, chainVars
<1> HIDE DEF n
<1>3. /\ DOMAIN load' = DOMAIN Idle
      /\ load'.found = load.found
      /\ load'.expiry = [load.expiry EXCEPT ![n] = e]
      /\ load'.ens = "reading"
      /\ load'.was = load.was
      /\ load'.wasnt = load.wasnt
  BY <1>1, <1>2 DEF ReadInv, Idle
<1>4. load'.expiry \in [Names -> {"unread", "future", "past", "failed"}]
  BY <1>3 DEF ReadInv
<1>5. ASSUME NEW m \in Names
      PROVE  /\ load'.expiry[m] = "future" => m \in load.was
             /\ load'.expiry[m] = "past" => m \in load.wasnt
  <2>1. CASE m = n
    BY <1>1, <1>2, <1>3, <1>5, <2>1 DEF ReadInv
  <2>2. CASE m # n
    BY <1>3, <1>5, <2>2 DEF ReadInv
  <2> QED
    BY <2>1, <2>2
<1> QED
  BY <1>2, <1>3, <1>4, <1>5 DEF ReadInv

(* The records are read when no expiry is left to read.                    *)
LEMMA ReadRecordsKeepsRead ==
  ASSUME ReadInv, ReadRecords
  PROVE  ReadInv'
<1>1. PICK readable \in BOOLEAN :
        load' = [load EXCEPT !.ens = "fulfilled",
                             !.budget = [n \in Names |-> Authority(n, readable)]]
  BY DEF ReadRecords
<1>2. /\ DOMAIN load' = DOMAIN Idle
      /\ load'.found = load.found
      /\ load'.expiry = load.expiry
      /\ load'.ens = "fulfilled"
      /\ load'.was = load.was
      /\ load'.wasnt = load.wasnt
  BY <1>1 DEF ReadInv, Idle
<1>3. ASSUME NEW n \in load.found PROVE load.expiry[n] # "unread"
  <2>1. n \in Names
    BY <1>3 DEF ReadInv
  <2>2. PICK i \in DOMAIN Order : Order[i] = n
    BY <2>1, DashboardAssumption DEF ToSet
  <2>3. Unread = {}
    BY DEF ReadRecords
  <2> QED
    BY <1>3, <2>2, <2>3 DEF Unread
<1> QED
  BY <1>2, <1>3 DEF ReadInv

(* The reader's side: only a refresh reads, whatever the chain does.       *)
LEMMA StepKeepsRead ==
  ASSUME TreeInv, ReadInv, Next
  PROVE  ReadInv'
<1> USE DEF chainVars, viewVars, payVars, timing
<1>1. ASSUME UNCHANGED <<alive, load>> PROVE ReadInv'
  BY <1>1 DEF ReadInv
<1>2. ASSUME NEW n, Revoke(n) \/ Renew(n) \/ Lapse(n) PROVE ReadInv'
  <2>1. PICK there : Observe(there) /\ alive' = there
    BY <1>2 DEF Revoke, Renew, Lapse, Change
  <2> QED
    BY <2>1, ObserveKeepsRead
<1>3. CASE Mint
  <2>1. PICK there : Observe(there) /\ alive' = there
    BY <1>3 DEF Mint, Change
  <2> QED
    BY <2>1, ObserveKeepsRead
<1>4. ASSUME NEW p, Settle(p) \/ SettleElsewhere(p) \/ Publish PROVE ReadInv'
  BY <1>1, <1>4 DEF Settle, SettleElsewhere, Publish
<1>5. CASE Bury \/ Restart \/ LookAway \/ BackoffEnds \/ Cancel \/ WriteRecords
  BY <1>1, <1>5 DEF Bury, Restart, LookAway, BackoffEnds, Cancel, WriteRecords
<1>6. CASE Poll \/ Look \/ ForceRefresh
  BY <1>1, <1>6, BeginReads DEF Poll, Look, ForceRefresh
<1>7. CASE ReadState
  BY <1>7, ReadStateKeepsRead
<1>8. CASE ReadRecords
  BY <1>8, ReadRecordsKeepsRead
<1>9. CASE ReadGateway
  <2>1. PICK gw, got : load' = [load EXCEPT !.gw = gw, !.got = got]
    <3>1. load.got = load.got /\ DOMAIN load = DOMAIN Idle
      BY DEF ReadInv
    <3>2. ASSUME NEW gw, load' = [load EXCEPT !.gw = gw]
          PROVE  load' = [load EXCEPT !.gw = gw, !.got = load.got]
      BY <3>1, <3>2 DEF Idle
    <3> QED
      BY <1>9, <3>2 DEF ReadGateway
  <2>2. /\ DOMAIN load' = DOMAIN Idle
        /\ load'.found = load.found
        /\ load'.expiry = load.expiry
        /\ load'.ens = load.ens
        /\ load'.was = load.was
        /\ load'.wasnt = load.wasnt
    BY <2>1 DEF ReadInv, Idle
  <2>3. alive' = alive
    BY <1>9 DEF ReadGateway
  <2> QED
    BY <2>2, <2>3 DEF ReadInv
<1>10. CASE Commit
  <2>1. load' = Idle
    BY <1>10 DEF Commit, Landed
  <2>2. Idle.found = {} /\ Idle.ens = "none"
    BY DEF Idle, NoTree
  <2> QED
    BY <2>1, <2>2, IdleReadsNothing
<1>11. ASSUME NEW n, NEW b, FillIn(n, b) PROVE ReadInv'
  BY <1>1, <1>11 DEF FillIn
<1>12. CASE AwaitRefresh
  BY <1>1, <1>12, BeginReads DEF AwaitRefresh
<1> QED
  BY <1>2, <1>3, <1>4, <1>5, <1>6, <1>7, <1>8, <1>9, <1>10, <1>11, <1>12 DEF Next, Loading

(* Only a commit ends a refresh that read the tree.                        *)
LEMMA CommitEnds ==
  ASSUME TreeInv, ReadInv, [Next]_vars, load.ens = "fulfilled", load' = Idle
  PROVE  Commit
<1> USE DEF chainVars, viewVars, payVars, timing
<1>1. Idle.ens = "none" /\ InFlight /\ "ens" \in DOMAIN load
  BY DEF Idle, InFlight, ReadInv
<1>2. ASSUME load'.ens = load.ens PROVE FALSE
  BY <1>1, <1>2
<1>3. ASSUME NEW there, Observe(there) PROVE FALSE
  <2>1. load'.ens = load.ens
    BY <1>1, <1>3 DEF Observe
  <2> QED
    BY <1>2, <2>1
<1>4. ASSUME NEW n, Revoke(n) \/ Renew(n) \/ Lapse(n) PROVE FALSE
  BY <1>3, <1>4 DEF Revoke, Renew, Lapse, Change
<1>5. CASE Mint
  BY <1>3, <1>5 DEF Mint, Change
<1>6. ASSUME NEW p, Settle(p) \/ SettleElsewhere(p) \/ Publish PROVE FALSE
  BY <1>2, <1>6 DEF Settle, SettleElsewhere, Publish
<1>7. CASE Bury \/ Restart \/ LookAway \/ BackoffEnds \/ Cancel \/ WriteRecords
  BY <1>2, <1>7 DEF Bury, Restart, LookAway, BackoffEnds, Cancel, WriteRecords
<1>8. CASE Poll \/ Look \/ ForceRefresh
  BY <1>1, <1>2, <1>8 DEF Poll, Look, ForceRefresh, BeginRefresh
<1>9. CASE ReadState \/ ReadRecords
  BY <1>9 DEF ReadState, ReadRecords
<1>10. CASE ReadGateway
  <2>1. load'.ens = load.ens
    BY <1>1, <1>10 DEF ReadGateway
  <2> QED
    BY <1>2, <2>1
<1>11. ASSUME NEW n, NEW b, FillIn(n, b) PROVE FALSE
  BY <1>2, <1>11 DEF FillIn
<1>12. CASE AwaitRefresh
  BY <1>1, <1>2, <1>12 DEF AwaitRefresh
<1>13. CASE UNCHANGED vars
  BY <1>2, <1>13 DEF vars
<1> QED
  BY <1>4, <1>5, <1>6, <1>7, <1>8, <1>9, <1>10, <1>11, <1>12, <1>13 DEF Next, Loading

\* What is shown of a name was so.
WasTrue(n) ==
  LET line == {n} \cup Above[n]
  IN (\A a \in line : load.expiry[a] # "failed") =>
       CASE StatusOf(n)' = "active" -> line \subseteq load.was
         [] StatusOf(n)' = "suspended" -> Above[n] \cap load.wasnt # {}
         [] OTHER -> n \in load.wasnt

(* The snapshot replaces the last one, and statuses come of it             *)
(* (adapter.ts:288-298).                                                   *)
LEMMA CommitShowsTheTruth ==
  ASSUME ReadInv, Commit, load.ens = "fulfilled", NEW n \in load.found
  PROVE  WasTrue(n)
<1> DEFINE line == {n} \cup Above[n]
<1> SUFFICES ASSUME \A a \in line : load.expiry[a] # "failed"
             PROVE  CASE StatusOf(n)' = "active" -> line \subseteq load.was
                      [] StatusOf(n)' = "suspended" -> Above[n] \cap load.wasnt # {}
                      [] OTHER -> n \in load.wasnt
  BY DEF WasTrue
<1>1. shown'.tree.found = load.found /\ shown'.tree.gone = load.gone
      /\ shown'.tree.expiry = load.expiry
  <2>1. shown'.tree = [f \in DOMAIN NoTree |-> load[f]]
    BY DEF Commit, Keep
  <2>2. DOMAIN NoTree = {"found", "gone", "expiry", "budget"}
    BY DEF NoTree
  <2> QED
    BY <2>1, <2>2
<1>2. line \subseteq load.found /\ load.found \subseteq Names
  BY DEF ReadInv
<1>3. ASSUME NEW a \in line
      PROVE  IF NodeStatus(a)' = "active" THEN a \in load.was ELSE a \in load.wasnt
  <2>1. load.expiry[a] \in {"future", "past"}
    BY <1>2, <1>3 DEF ReadInv
  <2>2. NodeStatus(a)' = "active" <=> load.expiry[a] = "future"
    BY <1>1, <2>1 DEF NodeStatus
  <2> QED
    BY <1>2, <1>3, <2>1, <2>2 DEF ReadInv
<1>4. NodeStatus(n)' \in {"active", "revoked", "expired"}
  BY DEF NodeStatus
<1>5. Dead(n)' = {a \in Above[n] : NodeStatus(a)' # "active"}
  BY <1>1, <1>2 DEF Dead
<1>6. StatusOf(n)' = IF NodeStatus(n)' # "active" THEN NodeStatus(n)'
                     ELSE IF Dead(n)' # {} THEN "suspended" ELSE "active"
  BY <1>1 DEF StatusOf
<1> QED
  BY <1>3, <1>4, <1>5, <1>6

(* ens.ts:1-12, adapter.ts:288-298.  For any tree, however it changes while *)
(* its registries are read one after the other, and wherever the walk is   *)
(* cut short: when a refresh ends, a name is shown active only if it and   *)
(* all above it were alive since the refresh began, revoked or expired     *)
(* only if it was not, suspended only if one above it was not.             *)
THEOREM ShownStatusWasTrue == Spec => StatusWasTrue
<1>1. Init => TreeInv /\ ReadInv
  <2> SUFFICES ASSUME Init PROVE TreeInv /\ ReadInv
    OBVIOUS
  <2>1. TreeInv
    BY DEF Init, TreeInv, MintedBy, Closed
  <2>2. Idle.found = {} /\ Idle.ens = "none" /\ load = Idle
    BY DEF Idle, NoTree, Init
  <2>3. Idle.expiry = [n \in Names |-> "unread"]
    BY DEF Idle, NoTree
  <2> QED
    BY <2>1, <2>2, <2>3 DEF ReadInv
<1>2. TreeInv /\ ReadInv /\ [Next]_vars => (TreeInv /\ ReadInv)'
  <2>1. CASE Next
    BY <2>1, StepKeepsTree, StepKeepsRead
  <2>2. ASSUME UNCHANGED vars, TreeInv, ReadInv PROVE (TreeInv /\ ReadInv)'
    BY <2>2 DEF vars, chainVars, viewVars, TreeInv, ReadInv
  <2> QED
    BY <2>1, <2>2
<1> DEFINE shows == load.ens = "fulfilled" /\ load' = Idle => \A n \in load.found : WasTrue(n)
<1>3. TreeInv /\ ReadInv /\ [Next]_vars => [shows]_vars
  BY CommitEnds, CommitShowsTheTruth
<1>4. Spec => [][shows]_vars
  <2> HIDE DEF shows
  <2> QED
    BY <1>1, <1>2, <1>3, PTL DEF Spec
<1> QED
  BY <1>4 DEF StatusWasTrue, WasTrue

-----------------------------------------------------------------------------
(***************************************************************************)
(* The page's scrolling is given back.  The invariant is inductive as it   *)
(* stands: every step either leaves what is on screen and the lock alone,  *)
(* or is a commit, whose cleanups unlock before its effects lock.          *)
(***************************************************************************)

(* A commit keeps the invariant, whatever it mounts, takes away or renders *)
(* again: the effect of Modal (Modal.tsx:19-28) locks for a dialog that is *)
(* there, and keeps the lock only when none went away.                     *)
LEMMA CommitUnlocks ==
  ASSUME ScrollIsGivenBack,
         NEW flying, NEW flags, Rerender(flying, flags)
  PROVE  ScrollIsGivenBack'
<1> DEFINE left == Modals \ Modals'
           came == Modals' \ Modals
           again == (Restless \cup Restless') \cap Modals'
<1>1. locked' = Relock(left, came, again)
  BY DEF Rerender
<1>2. CASE came \cup again # {}
  <2>1. Modals' # {}
    BY <1>2
  <2> QED
    BY <2>1 DEF ScrollIsGivenBack
<1>3. CASE came \cup again = {}
  <2>1. SUFFICES ASSUME locked' PROVE Modals' # {}
    BY DEF ScrollIsGivenBack
  <2>2. locked /\ left = {}
    BY <1>1, <1>3, <2>1 DEF Relock
  <2>3. Modals # {}
    BY <2>2 DEF ScrollIsGivenBack
  <2> QED
    BY <2>2, <2>3
<1> QED
  BY <1>2, <1>3

(* What leaves the open dialogs, the mode and the lock alone keeps it.     *)
LEMMA NothingShown ==
  ASSUME ScrollIsGivenBack, UNCHANGED <<demo, layerVars, locked>>
  PROVE  ScrollIsGivenBack'
BY DEF ScrollIsGivenBack, Modals, CreateModal, RunModal, RevokeModal, PaymentModal, layerVars

(* Every way to open, close, ask or be answered either commits or leaves   *)
(* the open dialogs alone; closing the payment's dialog alone touches the  *)
(* lock by hand, and unlocks it.                                           *)
LEMMA StepUnlocks ==
  ASSUME ScrollIsGivenBack, ShellNext
  PROVE  ScrollIsGivenBack'
<1>1. CASE SwitchMode
  BY <1>1, CommitUnlocks DEF SwitchMode, Render
<1>2. CASE Open
  <2>1. ASSUME NEW parent, OpenCreate(parent) PROVE ScrollIsGivenBack'
    BY <2>1, CommitUnlocks DEF OpenCreate, Render
  <2>2. ASSUME NEW agent, OpenRun(agent) PROVE ScrollIsGivenBack'
    BY <2>2, CommitUnlocks DEF OpenRun, Render
  <2>3. ASSUME NEW agent, OpenRevoke(agent) PROVE ScrollIsGivenBack'
    BY <2>3, CommitUnlocks DEF OpenRevoke, Render
  <2>4. ASSUME NEW agent, OpenAgent(agent) PROVE ScrollIsGivenBack'
    BY <2>4, CommitUnlocks DEF OpenAgent, Render
  <2>5. ASSUME NEW m, ToggleMenu(m) PROVE ScrollIsGivenBack'
    BY <2>5, NothingShown DEF ToggleMenu
  <2>6. CASE OpenEvent
    BY <2>6, CommitUnlocks DEF OpenEvent, Render
  <2>7. CASE OpenCommand
    BY <2>7, CommitUnlocks DEF OpenCommand, Render
  <2>8. ASSUME NEW command, Choose(command) PROVE ScrollIsGivenBack'
    BY <2>8, CommitUnlocks DEF Choose, Render
  <2>9. CASE Pay
    BY <2>9, CommitUnlocks DEF Pay, Render
  <2> QED
    BY <1>2, <2>1, <2>2, <2>3, <2>4, <2>5, <2>6, <2>7, <2>8, <2>9 DEF Open
<1>3. CASE Close
  <2>1. CASE CloseCreate
    BY <2>1, CommitUnlocks DEF CloseCreate, Render
  <2>2. CASE CloseRun
    BY <2>2, CommitUnlocks DEF CloseRun, Render
  <2>3. CASE CloseRevoke
    BY <2>3, CommitUnlocks DEF CloseRevoke, Render
  <2>4. CASE CloseAgent
    BY <2>4, CommitUnlocks DEF CloseAgent, Render
  <2>5. CASE CloseEvent
    BY <2>5, CommitUnlocks DEF CloseEvent, Render
  <2>6. CASE ClosePayment
    <3>1. PaymentModal # {}
      BY <2>6 DEF ClosePayment, PaymentModal
    <3>2. ~locked'
      BY <2>6, <3>1 DEF ClosePayment, Relock
    <3> QED
      BY <3>2 DEF ScrollIsGivenBack
  <2>7. CASE LeaveMenus
    BY <2>7, NothingShown DEF LeaveMenus
  <2>8. CASE Escape
    BY <2>8, CommitUnlocks DEF Escape, Render
  <2>9. CASE Dismiss
    BY <2>9, NothingShown DEF Dismiss
  <2> QED
    BY <1>3, <2>1, <2>2, <2>3, <2>4, <2>5, <2>6, <2>7, <2>8, <2>9 DEF Close
<1>4. CASE Ask
  <2>1. CASE RevokeFromDrawer
    BY <2>1, CommitUnlocks DEF RevokeFromDrawer, Render
  <2>2. CASE Restore
    BY <2>2, CommitUnlocks DEF Restore
  <2>3. CASE ConfirmRevoke
    BY <2>3, CommitUnlocks DEF ConfirmRevoke, ConfirmInDemo, ConfirmLive, Render
  <2>4. CASE SubmitCreate
    BY <2>4, CommitUnlocks DEF SubmitCreate
  <2>5. CASE StartRun
    BY <2>5, CommitUnlocks DEF StartRun
  <2>6. CASE ConnectWallet
    BY <2>6, CommitUnlocks DEF ConnectWallet
  <2> QED
    BY <1>4, <2>1, <2>2, <2>3, <2>4, <2>5, <2>6 DEF Ask
<1>5. CASE Answer
  <2>1. PICK act : \/ Connected(act) \/ Signed(act) \/ Mined(act)
                   \/ Finished(act) \/ Failed(act) \/ RunEnds(act)
    BY <1>5 DEF Answer
  <2>2. CASE Connected(act)
    <3>1. CASE act.kind = "connect"
      BY <2>2, <3>1, CommitUnlocks DEF Connected
    <3>2. CASE act.kind = "create"
      BY <2>2, <3>2, CommitUnlocks DEF Connected
    <3>3. CASE act.kind \notin {"connect", "create"}
      BY <2>2, <3>3, CommitUnlocks DEF Connected
    <3> QED
      BY <3>1, <3>2, <3>3
  <2>3. CASE Signed(act)
    BY <2>3, CommitUnlocks DEF Signed
  <2>4. CASE Mined(act)
    BY <2>4, CommitUnlocks DEF Mined
  <2>5. CASE Finished(act)
    BY <2>5, CommitUnlocks DEF Finished
  <2>6. CASE Failed(act)
    BY <2>6, CommitUnlocks DEF Failed
  <2>7. CASE RunEnds(act)
    BY <2>7, CommitUnlocks DEF RunEnds
  <2> QED
    BY <2>1, <2>2, <2>3, <2>4, <2>5, <2>6, <2>7
<1>6. CASE AccountsChanged
  BY <1>6, NothingShown DEF AccountsChanged
<1> QED
  BY <1>1, <1>2, <1>3, <1>4, <1>5, <1>6 DEF ShellNext

(* Modal.tsx:19-28.  However dialogs are stacked, replaced, rendered again *)
(* or taken away with the mode, for whatever agents and however many       *)
(* requests are out: the body is locked only while a dialog is on screen.  *)
THEOREM ScrollComesBack == ShellSpec => []ScrollIsGivenBack
<1>1. ShellInit => ScrollIsGivenBack
  BY DEF ShellInit, ScrollIsGivenBack
<1>2. ASSUME ScrollIsGivenBack, [ShellNext]_shellVars PROVE ScrollIsGivenBack'
  <2>1. CASE ShellNext
    BY <2>1, <1>2, StepUnlocks
  <2>2. CASE UNCHANGED shellVars
    BY <2>2, <1>2, NothingShown DEF shellVars
  <2> QED
    BY <1>2, <2>1, <2>2
<1> QED
  BY <1>1, <1>2, PTL DEF ShellSpec

-----------------------------------------------------------------------------
(***************************************************************************)
(* The flags of the frame.  What is asked of the wallet and the runner is  *)
(* a bag of requests.  A commit of React maps it: who goes away leaves its *)
(* requests unmounted, which may make two of them one and the same, and    *)
(* the stream of a run is aborted.  Sums over the bag are kept fibre by    *)
(* fibre (TotalByParts).                                                   *)
(***************************************************************************)

Whoever == Agents \cup {None, Owner}

Request ==
  [kind : Kinds, agent : Whoever, mounted : BOOLEAN,
   stage : {"connect", "sign", "wait", "refresh", "stream"}]

\* Requests in flight, so many of each.
Flights(flying) ==
  /\ DOMAIN flying \in SUBSET Request
  /\ IsFiniteSet(DOMAIN flying)
  /\ \A act \in DOMAIN flying : flying[act] \in Nat \ {0}

\* The flags tell of what is in flight: one revocation at most, whose dialog
\* hears of its end and whose flag is up; and a request behind every flag.
Told(flying, flags) ==
  /\ \A act \in DOMAIN flying :
       act.kind = "revoke" => act.mounted /\ flying[act] = 1 /\ flags["revoke"] # None
  /\ \A one, two \in DOMAIN flying : one.kind = "revoke" /\ two.kind = "revoke" => one = two
  /\ \A kind \in Kinds :
       flags[kind] # None => \E act \in DOMAIN flying : act.kind = kind /\ act.mounted

ShellInv ==
  /\ Flights(acts)
  /\ busy \in [Kinds -> Whoever]
  /\ Told(acts, busy)
  /\ revokeTarget \in Agents \cup {None}
  /\ agentDrawer.agent \in Agents \cup {None}

\* How much is in flight.
Load == Number(DOMAIN acts)

(* It is the sum that Totals knows, and so it is after a step.             *)
LEMMA LoadIs == Load = Total(acts, DOMAIN acts)
BY DEF Load, Number, Total

(* The same, in the state that a step leads to.                            *)
LEMMA LoadWillBe == Load' = Total(acts', DOMAIN acts')
<1>1. (Load = Total(acts, DOMAIN acts))'
  BY LoadIs, PTL
<1> QED
  BY <1>1

(* One request more (useRestore.ts:17, AppShell.tsx:138).                  *)
LEMMA OneMore ==
  ASSUME NEW B, Flights(B), NEW x \in Request
  PROVE  /\ Flights((B (+) SetToBag({x})))
         /\ DOMAIN (B (+) SetToBag({x})) = DOMAIN B \cup {x}
         /\ \A act \in DOMAIN B \ {x} : (B (+) SetToBag({x}))[act] = B[act]
         /\ (B (+) SetToBag({x}))[x] = IF x \in DOMAIN B THEN B[x] + 1 ELSE 1
         /\ Total((B (+) SetToBag({x})), DOMAIN (B (+) SetToBag({x}))) = Total(B, DOMAIN B) + 1
<1> DEFINE C == (B (+) SetToBag({x}))
<1>1. /\ DOMAIN C = DOMAIN B \cup {x}
      /\ \A act \in DOMAIN B \ {x} : C[act] = B[act]
      /\ C[x] = IF x \in DOMAIN B THEN B[x] + 1 ELSE 1
  BY DEF (+), SetToBag, Flights
<1> HIDE DEF C
<1>2. Flights(C)
  BY <1>1, FS_AddElement DEF Flights
<1>3. Total(C, DOMAIN C) = C[x] + Total(C, DOMAIN B \ {x})
  <2>1. DOMAIN C \ {x} = DOMAIN B \ {x} /\ x \in DOMAIN C
    BY <1>1
  <2>2. \A act \in DOMAIN C : C[act] \in Nat
    BY <1>2 DEF Flights
  <2> QED
    BY <1>2, <2>1, <2>2, TotalTake DEF Flights
<1>4. Total(C, DOMAIN B \ {x}) = Total(B, DOMAIN B \ {x})
  <2>1. IsFiniteSet(DOMAIN B \ {x})
    BY FS_RemoveElement DEF Flights
  <2> QED
    BY <1>1, <2>1, TotalCongruence
<1>5. \A act \in DOMAIN B : B[act] \in Nat
  BY DEF Flights
<1>6. Total(B, DOMAIN B) \in Nat /\ Total(B, DOMAIN B \ {x}) \in Nat
  BY <1>5, FS_RemoveElement, TotalType DEF Flights
<1>7. CASE x \in DOMAIN B
  <2>1. Total(B, DOMAIN B) = B[x] + Total(B, DOMAIN B \ {x})
    BY <1>5, <1>7, TotalTake DEF Flights
  <2>2. C[x] = B[x] + 1 /\ B[x] \in Nat
    BY <1>1, <1>5, <1>7
  <2>3. Total(C, DOMAIN C) = Total(B, DOMAIN B) + 1
    BY <1>3, <1>4, <1>6, <2>1, <2>2
  <2> QED
    BY <1>1, <1>2, <2>3 DEF C
<1>8. CASE x \notin DOMAIN B
  <2>1. DOMAIN B \ {x} = DOMAIN B /\ C[x] = 1
    BY <1>1, <1>8
  <2>2. Total(C, DOMAIN C) = Total(B, DOMAIN B) + 1
    BY <1>3, <1>4, <1>6, <2>1
  <2> QED
    BY <1>1, <1>2, <2>2 DEF C
<1> QED
  BY <1>7, <1>8

(* One request less: its answer came.                                      *)
LEMMA OneFewer ==
  ASSUME NEW B, Flights(B), NEW x \in DOMAIN B
  PROVE  /\ Flights((B (-) SetToBag({x})))
         /\ DOMAIN (B (-) SetToBag({x})) = IF B[x] = 1 THEN DOMAIN B \ {x} ELSE DOMAIN B
         /\ \A act \in DOMAIN B \ {x} : (B (-) SetToBag({x}))[act] = B[act]
         /\ B[x] # 1 => (B (-) SetToBag({x}))[x] = B[x] - 1
         /\ Total((B (-) SetToBag({x})), DOMAIN (B (-) SetToBag({x}))) + 1 = Total(B, DOMAIN B)
<1> DEFINE C == (B (-) SetToBag({x}))
<1>1. /\ DOMAIN C = IF B[x] = 1 THEN DOMAIN B \ {x} ELSE DOMAIN B
      /\ \A act \in DOMAIN B \ {x} : C[act] = B[act]
      /\ B[x] # 1 => C[x] = B[x] - 1
  BY DEF (-), SetToBag, Flights
<1> HIDE DEF C
<1>2. B[x] \in Nat \ {0} /\ \A act \in DOMAIN B : B[act] \in Nat
  BY DEF Flights
<1>3. Flights(C)
  BY <1>1, <1>2, FS_RemoveElement DEF Flights
<1>4. Total(C, DOMAIN B \ {x}) = Total(B, DOMAIN B \ {x})
  <2>1. IsFiniteSet(DOMAIN B \ {x})
    BY FS_RemoveElement DEF Flights
  <2> QED
    BY <1>1, <2>1, TotalCongruence
<1>5. Total(B, DOMAIN B \ {x}) \in Nat
  BY <1>2, FS_RemoveElement, TotalType DEF Flights
<1>6. Total(B, DOMAIN B) = B[x] + Total(B, DOMAIN B \ {x})
  BY <1>2, TotalTake DEF Flights
<1>7. CASE B[x] = 1
  <2>1. Total(C, DOMAIN C) + 1 = Total(B, DOMAIN B)
    BY <1>1, <1>4, <1>5, <1>6, <1>7
  <2> QED
    BY <1>1, <1>3, <2>1 DEF C
<1>8. CASE B[x] # 1
  <2>1. DOMAIN C = DOMAIN B /\ C[x] = B[x] - 1
    BY <1>1, <1>8
  <2>2. \A act \in DOMAIN C : C[act] \in Nat
    BY <1>3 DEF Flights
  <2>3. Total(C, DOMAIN C) = C[x] + Total(C, DOMAIN B \ {x})
    BY <1>3, <2>1, <2>2, TotalTake DEF Flights
  <2>4. Total(C, DOMAIN C) + 1 = Total(B, DOMAIN B)
    BY <1>2, <1>4, <1>5, <1>6, <2>1, <2>3
  <2> QED
    BY <1>1, <1>3, <2>4 DEF C
<1> QED
  BY <1>7, <1>8

(* A commit: who is unmounted, and whose stream is aborted.                *)
LEMMA CommitTells ==
  ASSUME NEW flying, NEW flags, Flights(flying), flags \in [Kinds -> Whoever],
         Told(flying, flags), Rerender(flying, flags)
  PROVE  /\ Flights(acts')
         /\ busy' \in [Kinds -> Whoever]
         /\ Told(acts', busy')
         /\ Load' <= Total(flying, DOMAIN flying)
<1> DEFINE S == Kept(flying)
           m == [act \in S |-> Unmounted(act)]
           I == {Unmounted(one) : one \in S}
<1>1. S \in SUBSET (DOMAIN flying) /\ IsFiniteSet(S) /\ S \in SUBSET Request
  BY FS_Subset DEF Flights, Kept
<1>2. IsFiniteSet(I)
  <2>1. m \in Surjection(S, I)
    BY DEF Surjection
  <2> QED
    BY <1>1, <2>1, FS_Surjection
<1>3. \A act \in S : /\ Unmounted(act) \in Request
                     /\ Unmounted(act).kind = act.kind
                     /\ Unmounted(act).mounted = (act.mounted /\ ~Gone(act.kind))
                     /\ ~Gone(act.kind) => Unmounted(act) = act
  BY <1>1 DEF Unmounted, Request
<1>4. \A x \in S : flying[x] \in Nat
  BY <1>1 DEF Flights
<1>5. DOMAIN acts' = I /\ \A act \in I : acts'[act] = Total(flying, Part(S, m, act))
  <2>1. acts' = [act \in I |-> Total(flying, {one \in S : Unmounted(one) = act})]
    BY DEF Rerender, Total
  <2>2. \A act : {one \in S : Unmounted(one) = act} = Part(S, m, act)
    BY DEF Part
  <2> HIDE DEF I, m, S
  <2> QED
    BY <2>1, <2>2
<1>6. /\ \A act \in I : acts'[act] \in Nat
      /\ Total(acts', I) = Total(flying, S)
  <2>1. \A one \in S : m[one] \in I
    OBVIOUS
  <2> HIDE DEF I, m, S
  <2> QED
    BY <1>1, <1>2, <1>4, <1>5, <2>1, TotalByParts
<1>8. Load' <= Total(flying, DOMAIN flying)
  <2>1. Load' = Total(acts', DOMAIN acts')
    BY LoadWillBe
  <2>2. Total(flying, S) <= Total(flying, DOMAIN flying)
    BY <1>1, TotalMonotone DEF Flights
  <2> QED
    BY <1>5, <1>6, <2>1, <2>2
<1>9. \A act \in S : acts'[Unmounted(act)] >= flying[act]
  <2> SUFFICES ASSUME NEW act \in S PROVE acts'[Unmounted(act)] >= flying[act]
    OBVIOUS
  <2> DEFINE part == Part(S, m, Unmounted(act))
  <2>1. act \in part /\ IsFiniteSet(part) /\ \A x \in part : flying[x] \in Nat
    BY <1>1, <1>4, FS_Subset DEF Part
  <2>2. acts'[Unmounted(act)] = Total(flying, part)
    BY <1>5
  <2> HIDE DEF part
  <2>3. Total(flying, part) = flying[act] + Total(flying, part \ {act})
    BY <2>1, TotalTake
  <2>4. Total(flying, part \ {act}) \in Nat /\ flying[act] \in Nat
    BY <2>1, FS_RemoveElement, TotalType
  <2> QED
    BY <2>2, <2>3, <2>4
<1>10. Flights(acts')
  <2>1. I \in SUBSET Request
    BY <1>3
  <2>2. ASSUME NEW act \in I PROVE acts'[act] \in Nat \ {0}
    <3>1. PICK one \in S : act = Unmounted(one)
      OBVIOUS
    <3>2. flying[one] \in Nat \ {0}
      BY <1>1 DEF Flights
    <3> QED
      BY <1>6, <1>9, <2>2, <3>1, <3>2
  <2> QED
    BY <1>2, <1>5, <2>1, <2>2 DEF Flights
<1>11. busy' = [k \in Kinds |-> IF Gone(k) THEN None ELSE flags[k]]
  BY DEF Rerender
<1>12. busy' \in [Kinds -> Whoever]
  BY <1>11 DEF Whoever
<1>13. ~Gone("revoke")
  BY DEF Gone
<1>14. ASSUME NEW act \in I, act.kind = "revoke"
       PROVE  act \in S /\ acts'[act] = flying[act]
  <2>1. PICK one \in S : act = Unmounted(one)
    BY <1>14
  <2>2. one = act
    BY <1>3, <1>13, <1>14, <2>1
  <2> DEFINE part == Part(S, m, act)
  <2>3. part = {act}
    <3>1. ASSUME NEW x \in part PROVE x = act
      BY <1>3, <1>13, <1>14 DEF Part
    <3> QED
      BY <2>1, <2>2, <3>1 DEF Part
  <2>4. acts'[act] = Total(flying, {act})
    BY <1>5, <1>14, <2>3
  <2>5. Total(flying, {act}) = flying[act] + Total(flying, {act} \ {act})
    <3>1. IsFiniteSet({act}) /\ \A x \in {act} : flying[x] \in Nat
      BY <1>4, <2>1, <2>2, FS_Singleton
    <3> QED
      BY <3>1, TotalTake
  <2>6. {act} \ {act} = {}
    OBVIOUS
  <2> QED
    BY <1>4, <2>1, <2>2, <2>4, <2>5, <2>6, TotalEmpty
<1>15. Told(acts', busy')
  <2>1. ASSUME NEW act \in DOMAIN acts', act.kind = "revoke"
        PROVE  act.mounted /\ acts'[act] = 1 /\ busy'["revoke"] # None
    <3>1. act \in S /\ acts'[act] = flying[act]
      BY <1>5, <1>14, <2>1
    <3>2. act.mounted /\ flying[act] = 1 /\ flags["revoke"] # None
      BY <1>1, <2>1, <3>1 DEF Told
    <3> QED
      BY <1>11, <1>13, <3>1, <3>2 DEF Kinds
  <2>2. ASSUME NEW one \in DOMAIN acts', NEW two \in DOMAIN acts',
               one.kind = "revoke", two.kind = "revoke"
        PROVE  one = two
    <3>1. one \in S /\ two \in S
      BY <1>5, <1>14, <2>2
    <3> QED
      BY <1>1, <2>2, <3>1 DEF Told
  <2>3. ASSUME NEW kind \in Kinds, busy'[kind] # None
        PROVE  \E act \in DOMAIN acts' : act.kind = kind /\ act.mounted
    <3>1. ~Gone(kind) /\ flags[kind] # None
      BY <1>11, <2>3
    <3>2. PICK act \in DOMAIN flying : act.kind = kind /\ act.mounted
      BY <3>1 DEF Told
    <3>3. act \in S
      BY <3>1, <3>2 DEF Kept
    <3>4. Unmounted(act) = act
      BY <1>3, <3>1, <3>2, <3>3
    <3> QED
      BY <1>5, <3>2, <3>3, <3>4
  <2> QED
    BY <2>1, <2>2, <2>3 DEF Told
<1> QED
  BY <1>8, <1>10, <1>12, <1>15

(* A request goes out: a revocation with its flag up and when none was, a  *)
(* creation without one (AppShell.tsx:138-143, useRestore.ts:16-17).       *)
LEMMA WithTells ==
  ASSUME ShellInv, NEW act \in Request, act.mounted,
         NEW flags \in [Kinds -> Whoever],
         \A kind \in Kinds \ {act.kind} : flags[kind] = busy[kind],
         act.kind = "revoke" => busy["revoke"] = None /\ flags["revoke"] # None
  PROVE  Flights(With(act)) /\ Told(With(act), flags)
<1> DEFINE B == With(act)
<1>1. /\ Flights(B)
      /\ DOMAIN B = DOMAIN acts \cup {act}
      /\ \A a \in DOMAIN acts \ {act} : B[a] = acts[a]
      /\ B[act] = IF act \in DOMAIN acts THEN acts[act] + 1 ELSE 1
  <2>1. Flights(acts)
    BY DEF ShellInv
  <2> QED
    BY <2>1, OneMore DEF With
<1> HIDE DEF B
<1>2. Told(acts, busy) /\ act.kind \in Kinds
  BY DEF ShellInv, Request
<1>3. CASE act.kind = "revoke"
  <2>1. \A a \in DOMAIN acts : a.kind # "revoke"
    BY <1>2, <1>3 DEF Told
  <2>2. B[act] = 1
    BY <1>1, <1>3, <2>1
  <2> QED
    BY <1>1, <1>2, <1>3, <2>1, <2>2 DEF Told, B
<1>4. CASE act.kind # "revoke"
  <2>1. "revoke" \in Kinds
    BY DEF Kinds
  <2>2. \A a \in DOMAIN B : a.kind = "revoke" => a \in DOMAIN acts \ {act}
    BY <1>1, <1>4
  <2>3. flags["revoke"] = busy["revoke"]
    BY <1>4, <2>1
  <2> QED
    BY <1>1, <1>2, <1>4, <2>2, <2>3 DEF Told, B
<1> QED
  BY <1>3, <1>4

(* An answer ends a request, and the flag of whoever is still there goes   *)
(* down (useRestore.ts:24-28, AppShell.tsx:149-151).                       *)
LEMMA OverTells ==
  ASSUME ShellInv, NEW act \in DOMAIN acts, NEW ok
  PROVE  /\ Flights(Over(act))
         /\ Release(act, ok) \in [Kinds -> Whoever]
         /\ Told(Over(act), Release(act, ok))
         /\ Total(Over(act), DOMAIN Over(act)) <= Load
<1> DEFINE B == Over(act)
           flags == Release(act, ok)
<1>1. /\ Flights(B)
      /\ DOMAIN B = IF acts[act] = 1 THEN DOMAIN acts \ {act} ELSE DOMAIN acts
      /\ \A a \in DOMAIN acts \ {act} : B[a] = acts[a]
      /\ Total(B, DOMAIN B) + 1 = Total(acts, DOMAIN acts)
  BY OneFewer DEF Over, ShellInv
<1>2. Total(B, DOMAIN B) \in Nat
  BY <1>1, TotalType DEF Flights
<1> HIDE DEF B
<1>3. act \in Request /\ act.kind \in Kinds /\ act.mounted \in BOOLEAN
  BY DEF ShellInv, Flights, Request
<1>4. flags = IF act.mounted THEN [busy EXCEPT ![act.kind] = None] ELSE busy
  BY DEF Release
<1>5. busy \in [Kinds -> Whoever] /\ Told(acts, busy)
  BY DEF ShellInv
<1>6. flags \in [Kinds -> Whoever]
  BY <1>3, <1>4, <1>5 DEF Whoever
<1>7. \A kind \in Kinds : flags[kind] = IF act.mounted /\ kind = act.kind THEN None ELSE busy[kind]
  BY <1>3, <1>4, <1>5
<1> HIDE DEF flags
<1>8. Told(B, flags)
  <2>1. CASE act.kind = "revoke"
    <3>1. acts[act] = 1 /\ act.mounted /\ \A a \in DOMAIN acts : a.kind = "revoke" => a = act
      BY <1>5, <2>1 DEF Told
    <3>2. \A a \in DOMAIN B : a \in DOMAIN acts /\ a.kind # "revoke"
      BY <1>1, <3>1
    <3>3. ASSUME NEW kind \in Kinds, flags[kind] # None
          PROVE  \E a \in DOMAIN B : a.kind = kind /\ a.mounted
      <4>1. kind # "revoke" /\ busy[kind] # None
        BY <1>7, <2>1, <3>1, <3>3
      <4>2. PICK a \in DOMAIN acts : a.kind = kind /\ a.mounted
        BY <1>5, <4>1 DEF Told
      <4>3. a \in DOMAIN B
        BY <1>1, <2>1, <3>1, <4>1, <4>2
      <4> QED
        BY <4>2, <4>3
    <3> QED
      BY <3>2, <3>3 DEF Told
  <2>2. CASE act.kind # "revoke"
    <3>1. \A a \in DOMAIN B : a.kind = "revoke" => a \in DOMAIN acts /\ B[a] = acts[a]
      BY <1>1, <2>2
    <3>2. flags["revoke"] = busy["revoke"]
      BY <1>7, <2>2 DEF Kinds
    <3>3. ASSUME NEW kind \in Kinds, flags[kind] # None
          PROVE  \E a \in DOMAIN B : a.kind = kind /\ a.mounted
      <4>1. busy[kind] # None /\ ~(act.mounted /\ kind = act.kind)
        BY <1>7, <3>3
      <4>2. PICK a \in DOMAIN acts : a.kind = kind /\ a.mounted
        BY <1>5, <4>1 DEF Told
      <4>3. a \in DOMAIN B
        BY <1>1, <4>1, <4>2
      <4> QED
        BY <4>2, <4>3
    <3>4. DOMAIN B \subseteq DOMAIN acts
      BY <1>1
    <3>5. \A a \in DOMAIN B : a.kind = "revoke" => a.mounted /\ B[a] = 1 /\ flags["revoke"] # None
      BY <1>5, <3>1, <3>2 DEF Told
    <3>6. \A one, two \in DOMAIN B : one.kind = "revoke" /\ two.kind = "revoke" => one = two
      BY <1>5, <3>4 DEF Told
    <3> QED
      BY <3>3, <3>5, <3>6 DEF Told
  <2> QED
    BY <2>1, <2>2
<1>9. Total(B, DOMAIN B) <= Load
  <2>1. Total(acts, DOMAIN acts) = Total(B, DOMAIN B) + 1
    BY <1>1
  <2> QED
    BY <1>2, <2>1, LoadIs
<1> QED
  BY <1>1, <1>6, <1>8, <1>9 DEF B, flags

(* A request goes on to its next stage: to the wallet, to the chain, to    *)
(* the refresh.  A creation's flag goes up on the way, if its dialog is    *)
(* there (CreateLiveAgentModal.tsx:106-147).                               *)
LEMMA OntoTells ==
  ASSUME ShellInv, NEW act \in DOMAIN acts, NEW stage \in {"sign", "wait", "refresh"},
         NEW flags \in [Kinds -> Whoever],
         \A kind \in Kinds :
           flags[kind] # busy[kind] => act.mounted /\ kind = act.kind /\ kind # "revoke"
  PROVE  /\ Flights(Onto(act, stage))
         /\ Told(Onto(act, stage), flags)
         /\ Total(Onto(act, stage), DOMAIN Onto(act, stage)) <= Load
<1> DEFINE B == Over(act)
           x == [act EXCEPT !.stage = stage]
           C == Onto(act, stage)
<1>1. /\ Flights(B)
      /\ DOMAIN B = IF acts[act] = 1 THEN DOMAIN acts \ {act} ELSE DOMAIN acts
      /\ \A a \in DOMAIN acts \ {act} : B[a] = acts[a]
      /\ Total(B, DOMAIN B) + 1 = Total(acts, DOMAIN acts)
  BY OneFewer DEF Over, ShellInv
<1>2. act \in Request
  BY DEF ShellInv, Flights
<1>3. x \in Request /\ x.kind = act.kind /\ x.mounted = act.mounted
  BY <1>2 DEF Request
<1>4. /\ Flights(C)
      /\ DOMAIN C = DOMAIN B \cup {x}
      /\ \A a \in DOMAIN B \ {x} : C[a] = B[a]
      /\ C[x] = IF x \in DOMAIN B THEN B[x] + 1 ELSE 1
      /\ Total(C, DOMAIN C) = Total(B, DOMAIN B) + 1
  BY <1>1, <1>3, OneMore DEF Onto
<1> HIDE DEF B, C, x
<1>5. Told(acts, busy)
  BY DEF ShellInv
<1>6. flags["revoke"] = busy["revoke"]
  BY DEF Kinds
<1>7. ASSUME NEW kind \in Kinds, flags[kind] # None
      PROVE  \E a \in DOMAIN C : a.kind = kind /\ a.mounted
  <2>1. CASE flags[kind] # busy[kind]
    BY <1>3, <1>4, <2>1
  <2>2. CASE flags[kind] = busy[kind]
    <3>1. PICK a \in DOMAIN acts : a.kind = kind /\ a.mounted
      BY <1>5, <1>7, <2>2 DEF Told
    <3>2. CASE a = act
      BY <1>3, <1>4, <3>1, <3>2
    <3>3. CASE a # act
      BY <1>1, <1>4, <3>1, <3>3
    <3> QED
      BY <3>2, <3>3
  <2> QED
    BY <2>1, <2>2
<1>8. /\ \A a \in DOMAIN C : a.kind = "revoke" => a.mounted /\ C[a] = 1 /\ flags["revoke"] # None
      /\ \A one, two \in DOMAIN C : one.kind = "revoke" /\ two.kind = "revoke" => one = two
  <2>1. CASE act.kind = "revoke"
    <3>1. /\ acts[act] = 1 /\ act.mounted /\ busy["revoke"] # None
          /\ \A a \in DOMAIN acts : a.kind = "revoke" => a = act
      BY <1>5, <2>1 DEF Told
    <3>2. \A a \in DOMAIN B : a.kind # "revoke"
      BY <1>1, <3>1
    <3>3. C[x] = 1 /\ x.mounted
      BY <1>3, <1>4, <2>1, <3>1, <3>2
    <3>4. \A a \in DOMAIN C : a.kind = "revoke" => a = x
      BY <1>4, <3>2
    <3> QED
      BY <1>6, <3>1, <3>3, <3>4
  <2>2. CASE act.kind # "revoke"
    <3>1. \A a \in DOMAIN C : a.kind = "revoke" => a \in DOMAIN acts \ {act} /\ C[a] = acts[a]
      BY <1>1, <1>3, <1>4, <2>2
    <3> QED
      BY <1>5, <1>6, <3>1 DEF Told
  <2> QED
    BY <2>1, <2>2
<1>9. Total(C, DOMAIN C) <= Load
  <2>1. Total(C, DOMAIN C) = Total(acts, DOMAIN acts)
    BY <1>1, <1>4
  <2>2. Total(C, DOMAIN C) \in Nat
    BY <1>4, TotalType DEF Flights
  <2> QED
    BY <2>1, <2>2, LoadIs
<1>10. Told(C, flags)
  BY <1>7, <1>8 DEF Told
<1> QED
  BY <1>4, <1>9, <1>10 DEF C

\* Whom a dialog or the drawer names.
Named == revokeTarget \in Agents \cup {None} /\ agentDrawer.agent \in Agents \cup {None}

\* What a step owes: the invariant, and in the demo no more in flight.
Quiet == ShellInv' /\ (demo => Load' <= Load)

(* A commit over requests and flags that tell of each other.               *)
LEMMA CommitKeeps ==
  ASSUME ShellInv, Named',
         NEW flying, NEW flags, Flights(flying), flags \in [Kinds -> Whoever],
         Told(flying, flags), Rerender(flying, flags),
         demo => Total(flying, DOMAIN flying) <= Load
  PROVE  Quiet
<1>1. /\ Flights(acts')
      /\ busy' \in [Kinds -> Whoever]
      /\ Told(acts', busy')
      /\ Load' <= Total(flying, DOMAIN flying)
  BY CommitTells
<1>2. ShellInv'
  BY <1>1 DEF ShellInv, Named
<1>3. demo => Load' <= Load
  <2>1. Load \in Nat
    BY LoadIs, TotalType DEF ShellInv, Flights
  <2>2. Load' \in Nat
    BY <1>1, LoadWillBe, TotalType DEF Flights
  <2>3. Total(flying, DOMAIN flying) \in Nat
    BY TotalType DEF Flights
  <2> QED
    BY <1>1, <2>1, <2>2, <2>3
<1> QED
  BY <1>2, <1>3 DEF Quiet

(* A commit that concerns nothing in flight.                               *)
LEMMA RenderKeeps ==
  ASSUME ShellInv, Named', Render
  PROVE  Quiet
<1>1. Flights(acts) /\ busy \in [Kinds -> Whoever] /\ Told(acts, busy)
  BY DEF ShellInv
<1>2. Total(acts, DOMAIN acts) <= Load
  BY <1>1, LoadIs, TotalType DEF Flights
<1> QED
  BY <1>1, <1>2, CommitKeeps DEF Render

(* What leaves the requests and their flags alone.                         *)
LEMMA StillKeeps ==
  ASSUME ShellInv, UNCHANGED <<acts, busy, revokeTarget, agentDrawer>>
  PROVE  Quiet
<1>1. ShellInv'
  BY DEF ShellInv
<1>2. Load' = Load /\ Load \in Nat
  BY LoadIs, LoadWillBe, TotalType DEF ShellInv, Flights
<1> QED
  BY <1>1, <1>2 DEF Quiet

(* Neither the target nor the drawer is touched.                           *)
LEMMA NamedStays ==
  ASSUME ShellInv, UNCHANGED <<revokeTarget, agentDrawer>>
  PROVE  Named'
BY DEF ShellInv, Named

(* The names of either view are agents.                                    *)
LEMMA ViewNamed == View \subseteq Agents
BY DEF View, Agents

(* Opening asks for nothing (ui.tsx:50-65).                                *)
LEMMA OpenKeeps ==
  ASSUME ShellInv, Open
  PROVE  Quiet
<1>1. ASSUME NEW parent, OpenCreate(parent) PROVE Quiet
  BY <1>1, NamedStays, RenderKeeps DEF OpenCreate
<1>2. ASSUME NEW agent, OpenRun(agent) PROVE Quiet
  BY <1>2, NamedStays, RenderKeeps DEF OpenRun
<1>3. ASSUME NEW agent \in View, OpenRevoke(agent) PROVE Quiet
  <2>1. Named'
    BY <1>3, ViewNamed DEF OpenRevoke, ShellInv, Named
  <2> QED
    BY <1>3, <2>1, RenderKeeps DEF OpenRevoke
<1>4. ASSUME NEW agent \in View, OpenAgent(agent) PROVE Quiet
  <2>1. Named'
    BY <1>4, ViewNamed DEF OpenAgent, ShellInv, Named
  <2> QED
    BY <1>4, <2>1, RenderKeeps DEF OpenAgent
<1>5. ASSUME NEW m, ToggleMenu(m) PROVE Quiet
  BY <1>5, StillKeeps DEF ToggleMenu, layerVars
<1>6. CASE OpenEvent
  BY <1>6, NamedStays, RenderKeeps DEF OpenEvent
<1>7. CASE OpenCommand
  BY <1>7, NamedStays, RenderKeeps DEF OpenCommand
<1>8. ASSUME NEW command, Choose(command) PROVE Quiet
  BY <1>8, NamedStays, RenderKeeps DEF Choose
<1>9. CASE Pay
  BY <1>9, NamedStays, RenderKeeps DEF Pay
<1> QED
  BY <1>1, <1>2, <1>3, <1>4, <1>5, <1>6, <1>7, <1>8, <1>9 DEF Open

(* Closing may unmount who asked, but not the confirmation of a revocation *)
(* that is in flight: it stays in the frame (AppShell.tsx:123-154).        *)
LEMMA CloseKeeps ==
  ASSUME ShellInv, Close
  PROVE  Quiet
<1>1. CASE CloseCreate
  BY <1>1, NamedStays, RenderKeeps DEF CloseCreate
<1>2. CASE CloseRun
  BY <1>2, NamedStays, RenderKeeps DEF CloseRun
<1>3. CASE CloseRevoke
  <2>1. Named'
    BY <1>3 DEF CloseRevoke, ShellInv, Named
  <2> QED
    BY <1>3, <2>1, RenderKeeps DEF CloseRevoke
<1>4. CASE CloseAgent
  <2>1. Named'
    BY <1>4 DEF CloseAgent, ShellInv, Named, Shut
  <2> QED
    BY <1>4, <2>1, RenderKeeps DEF CloseAgent
<1>5. CASE CloseEvent
  BY <1>5, NamedStays, RenderKeeps DEF CloseEvent
<1>6. CASE ClosePayment
  BY <1>6, StillKeeps DEF ClosePayment
<1>7. CASE LeaveMenus
  BY <1>7, StillKeeps DEF LeaveMenus, layerVars
<1>8. CASE Escape
  <2>1. Named'
    BY <1>8 DEF Escape, ShellInv, Named, Shut
  <2> QED
    BY <1>8, <2>1, RenderKeeps DEF Escape
<1>9. CASE Dismiss
  BY <1>9, StillKeeps DEF Dismiss, layerVars
<1> QED
  BY <1>1, <1>2, <1>3, <1>4, <1>5, <1>6, <1>7, <1>8, <1>9 DEF Close

(* Whoever asks the wallet or the runner is in live mode: the demo's       *)
(* confirmation is the store's, and the other buttons are not there        *)
(* (AppShell.tsx:128-153, AgentActions.tsx:10-47, useRestore.ts:14-18).    *)
LEMMA AskKeeps ==
  ASSUME ShellInv, Ask
  PROVE  Quiet
<1>1. CASE RevokeFromDrawer
  <2>1. Named'
    BY <1>1 DEF RevokeFromDrawer, ShellInv, Named, Shut
  <2> QED
    BY <1>1, <2>1, RenderKeeps DEF RevokeFromDrawer
<1> DEFINE asked(act, flags) == ~demo /\ act \in Request /\ act.mounted
                                /\ flags \in [Kinds -> Whoever]
                                /\ (\A kind \in Kinds \ {act.kind} : flags[kind] = busy[kind])
                                /\ (act.kind = "revoke" => busy["revoke"] = None /\ flags["revoke"] # None)
<1>2. ASSUME NEW act, NEW flags, asked(act, flags), Rerender(With(act), flags),
             UNCHANGED layerVars
      PROVE  Quiet
  <2>1. Named'
    BY <1>2, NamedStays DEF layerVars
  <2>2. Flights(With(act)) /\ Told(With(act), flags)
    BY <1>2, WithTells
  <2> QED
    BY <1>2, <2>1, <2>2, CommitKeeps
<1>3. busy \in [Kinds -> Whoever] /\ Owner \in Whoever /\ Entrance \in {"sign", "connect"}
  BY DEF ShellInv, Whoever, Entrance
<1>4. CASE Restore
  <2>1. asked(Act("restore", agentDrawer.agent, Entrance), [busy EXCEPT !["restore"] = agentDrawer.agent])
    BY <1>3, <1>4 DEF Restore, Restorable, Act, Request, Kinds, Whoever, ShellInv
  <2> QED
    BY <1>2, <1>4, <2>1 DEF Restore
<1>5. CASE ConfirmRevoke
  <2>1. CASE ConfirmInDemo
    <3>1. Named'
      BY <2>1 DEF ConfirmInDemo, ShellInv, Named
    <3> QED
      BY <2>1, <3>1, RenderKeeps DEF ConfirmInDemo
  <2>2. CASE ConfirmLive
    <3>1. asked(Act("revoke", revokeTarget, Entrance), [busy EXCEPT !["revoke"] = revokeTarget])
      BY <1>3, <1>5, <2>2 DEF ConfirmRevoke, ConfirmLive, Live, Act, Request, Kinds, Whoever, ShellInv
    <3> QED
      BY <1>2, <2>2, <3>1 DEF ConfirmLive
  <2> QED
    BY <1>5, <2>1, <2>2 DEF ConfirmRevoke
<1>6. CASE SubmitCreate
  <2>1. asked(Act("create", Owner, "connect"), busy)
    BY <1>3, <1>6 DEF SubmitCreate, Live, Act, Request, Kinds
  <2> QED
    BY <1>2, <1>6, <2>1 DEF SubmitCreate
<1>7. CASE StartRun
  <2>1. asked(Act("run", Owner, "stream"), [busy EXCEPT !["run"] = Owner])
    BY <1>3, <1>7 DEF StartRun, RunModal, Act, Request, Kinds
  <2> QED
    BY <1>2, <1>7, <2>1 DEF StartRun
<1>8. CASE ConnectWallet
  <2>1. asked(Act("connect", Owner, "connect"), [busy EXCEPT !["connect"] = Owner])
    BY <1>3, <1>8 DEF ConnectWallet, Live, Act, Request, Kinds
  <2> QED
    BY <1>2, <1>8, <2>1 DEF ConnectWallet
<1> QED
  BY <1>1, <1>4, <1>5, <1>6, <1>7, <1>8 DEF Ask

(* What the wallet, the chain or the runner answers.                       *)
LEMMA AnswerKeeps ==
  ASSUME ShellInv, Answer
  PROVE  Quiet
<1>1. PICK act \in DOMAIN acts :
        \/ Connected(act) \/ Signed(act) \/ Mined(act)
        \/ Finished(act) \/ Failed(act) \/ RunEnds(act)
  BY DEF Answer
<1>2. ASSUME NEW ok, Rerender(Over(act), Release(act, ok)), Named' PROVE Quiet
  BY <1>2, OverTells, CommitKeeps
<1>3. ASSUME NEW stage \in {"sign", "wait", "refresh"}, NEW flags \in [Kinds -> Whoever],
             \A kind \in Kinds :
               flags[kind] # busy[kind] => act.mounted /\ kind = act.kind /\ kind # "revoke",
             Rerender(Onto(act, stage), flags), Named'
      PROVE  Quiet
  BY <1>3, OntoTells, CommitKeeps
<1>4. ASSUME NEW stage \in {"sign", "wait", "refresh"}, Rerender(Onto(act, stage), busy), Named'
      PROVE  Quiet
  <2>1. busy \in [Kinds -> Whoever]
    BY DEF ShellInv
  <2> QED
    BY <1>3, <1>4, <2>1
<1>5. CASE Connected(act)
  <2>1. Named'
    BY <1>5, NamedStays DEF Connected, layerVars
  <2>2. CASE act.kind = "connect"
    BY <1>2, <1>5, <2>1, <2>2 DEF Connected
  <2>3. CASE act.kind = "create"
    <3> DEFINE flags == IF act.mounted THEN [busy EXCEPT !["create"] = Owner] ELSE busy
    <3>1. flags \in [Kinds -> Whoever]
      BY DEF ShellInv, Whoever
    <3>2. \A kind \in Kinds :
            flags[kind] # busy[kind] => act.mounted /\ kind = act.kind /\ kind # "revoke"
      BY <2>3 DEF ShellInv
    <3>3. Rerender(Onto(act, "sign"), flags)
      BY <1>5, <2>3 DEF Connected
    <3> HIDE DEF flags
    <3> QED
      BY <1>3, <2>1, <3>1, <3>2, <3>3
  <2>4. CASE act.kind \notin {"connect", "create"}
    BY <1>4, <1>5, <2>1, <2>4 DEF Connected
  <2> QED
    BY <2>2, <2>3, <2>4
<1>6. CASE Signed(act)
  BY <1>4, <1>6, NamedStays DEF Signed, layerVars
<1>7. CASE Mined(act)
  BY <1>4, <1>7, NamedStays DEF Mined, layerVars
<1>8. CASE Finished(act)
  <2>1. Named'
    BY <1>8 DEF Finished, ShellInv, Named
  <2> QED
    BY <1>2, <1>8, <2>1 DEF Finished
<1>9. CASE Failed(act)
  BY <1>2, <1>9, NamedStays DEF Failed, layerVars
<1>10. CASE RunEnds(act)
  BY <1>2, <1>10, NamedStays DEF RunEnds, layerVars
<1> QED
  BY <1>1, <1>5, <1>6, <1>7, <1>8, <1>9, <1>10

(* Together.                                                               *)
LEMMA StepKeeps ==
  ASSUME ShellInv, [ShellNext]_shellVars
  PROVE  Quiet
<1>1. CASE SwitchMode
  BY <1>1, NamedStays, RenderKeeps DEF SwitchMode, layerVars
<1>2. CASE AccountsChanged
  BY <1>2, StillKeeps DEF AccountsChanged, layerVars
<1>3. CASE UNCHANGED shellVars
  BY <1>3, StillKeeps DEF shellVars, layerVars
<1> QED
  BY <1>1, <1>2, <1>3, OpenKeeps, CloseKeeps, AskKeeps, AnswerKeeps DEF ShellNext

(* Nothing is in flight at first.                                          *)
LEMMA ShellStarts == ShellInit => ShellInv
<1> SUFFICES ASSUME ShellInit PROVE ShellInv
  OBVIOUS
<1>1. DOMAIN acts = {}
  BY DEF ShellInit, EmptyBag, SetToBag
<1>2. Flights(acts) /\ Told(acts, busy)
  BY <1>1, FS_EmptySet DEF ShellInit, Flights, Told
<1> QED
  BY <1>2 DEF ShellInit, ShellInv, Whoever, Shut

(* The flags tell of what is in flight, in every state.                    *)
LEMMA ShellInvHolds == ShellSpec => []ShellInv
<1>1. ASSUME ShellInv, [ShellNext]_shellVars PROVE ShellInv'
  BY <1>1, StepKeeps DEF Quiet
<1> QED
  BY <1>1, ShellStarts, PTL DEF ShellSpec

(* AppShell.tsx:138-153, useRestore.ts:14-29.  For whatever agents and     *)
(* however much is open and in flight: one revocation at most is out, and  *)
(* exactly while its flag holds the confirmation back; and behind every    *)
(* flag that keeps a control waiting there is a request whose answer will  *)
(* reach it.                                                               *)
THEOREM FlagsTellTheTruth == ShellSpec => []BusyTellsTheTruth
<1>1. ASSUME ShellInv PROVE BusyTellsTheTruth
  <2>1. Flights(acts) /\ Told(acts, busy)
    BY <1>1 DEF ShellInv
  <2>2. \A kind \in Kinds : busy[kind] # None => \E act \in Flying(kind) : act.mounted
    BY <2>1 DEF Told, Flying
  <2>3. HowMany("revoke") = Total(acts, Flying("revoke"))
    BY DEF HowMany, Number, Total
  <2>4. CASE busy["revoke"] = None
    <3>1. Flying("revoke") = {}
      BY <2>1, <2>4 DEF Told, Flying
    <3> QED
      BY <2>2, <2>3, <2>4, <3>1, TotalEmpty DEF BusyTellsTheTruth
  <2>5. CASE busy["revoke"] # None
    <3>1. PICK act \in Flying("revoke") : TRUE
      BY <2>2, <2>5 DEF Kinds
    <3>2. acts[act] = 1 /\ Flying("revoke") = {act}
      BY <2>1, <3>1 DEF Told, Flying
    <3>3. Total(acts, {act}) = acts[act] + Total(acts, {act} \ {act})
      <4>1. IsFiniteSet({act})
        BY FS_Singleton
      <4>2. \A x \in {act} : acts[x] \in Nat
        BY <3>2
      <4> QED
        BY <4>1, <4>2, TotalTake
    <3>4. {act} \ {act} = {}
      OBVIOUS
    <3>5. HowMany("revoke") = 1
      BY <2>3, <3>2, <3>3, <3>4, TotalEmpty
    <3> QED
      BY <2>2, <2>5, <3>5 DEF BusyTellsTheTruth
  <2> QED
    BY <2>4, <2>5
<1> QED
  BY <1>1, ShellInvHolds, PTL

(* AppShell.tsx:129-139.  While simulated data is on screen no step of the *)
(* frame adds a request to the wallet or the runner, from whatever dialog  *)
(* or drawer the live system left open.  One begun before may go on.       *)
THEOREM DemoBeginsNothing == ShellSpec => DemoStartsNothing
<1>1. ASSUME ShellInv, [ShellNext]_shellVars
      PROVE  [demo => Number(DOMAIN acts)' <= Number(DOMAIN acts)]_shellVars
  BY <1>1, StepKeeps DEF Quiet, Load
<1> QED
  BY <1>1, ShellInvHolds, PTL DEF ShellSpec, DemoStartsNothing

-----------------------------------------------------------------------------
(***************************************************************************)
(* DemoApp: the store of the demo, and what its pages offer.               *)
(***************************************************************************)

Drafts ==
  [parent : Ids \cup {NoAgent}, authority : Nat, services : SUBSET Resource,
   transaction : Nat \cup {Unset}, daily : Nat \cup {Unset}, expires : Nat \cup {Never}]

DemoTypeInv ==
  /\ now \in Nat
  /\ DOMAIN agents \subseteq Ids /\ agents \in [DOMAIN agents -> AgentRecords]
  /\ events \in Seq(EventRecords)
  /\ form \in [open : BOOLEAN, step : 0..3, draft : Drafts]
  /\ form.open => form.draft.parent \in DOMAIN agents

StoreInv == DemoTypeInv /\ IsTree(agents) /\ AuthorityFits(agents)

-----------------------------------------------------------------------------
(* Sums over an index. *)

LEMMA AddedIs == ASSUME NEW f PROVE Added(f) = Total(f, DOMAIN f)
BY DEF Added, Total

LEMMA AddedType ==
  ASSUME NEW S, IsFiniteSet(S), NEW f \in [S -> Nat]
  PROVE  Added(f) \in Nat
BY AddedIs, TotalType

\* The children that are counted as holding what they were given.
LiveKids(ix, a) == {k \in KidSet(ix, a) : ix[k].status # "revoked"}

LEMMA DelegatedIs ==
  ASSUME NEW ix, IsFiniteSet(DOMAIN ix), ix \in [DOMAIN ix -> AgentRecords], NEW a
  PROVE  /\ LiveKids(ix, a) \subseteq DOMAIN ix /\ IsFiniteSet(LiveKids(ix, a))
         /\ \A k \in DOMAIN ix : ix[k].authority \in Nat
         /\ Delegated(ix, a) = Total([c \in LiveKids(ix, a) |-> ix[c].authority], LiveKids(ix, a))
         /\ Delegated(ix, a) \in Nat
<1>1. LiveKids(ix, a) \subseteq DOMAIN ix
  BY DEF LiveKids, KidSet
<1>2. IsFiniteSet(LiveKids(ix, a))
  BY <1>1, FS_Subset
<1>3. \A k \in DOMAIN ix : ix[k].authority \in Nat
  BY DEF AgentRecords
<1> DEFINE f == [c \in LiveKids(ix, a) |-> ix[c].authority]
<1>4. f \in [LiveKids(ix, a) -> Nat]
  BY <1>1, <1>3
<1>5. Delegated(ix, a) = Added(f)
  BY DEF Delegated, LiveKids
<1>6. Added(f) = Total(f, LiveKids(ix, a))
  BY AddedIs
<1> HIDE DEF f
<1>7. Added(f) \in Nat
  BY <1>2, <1>4, AddedType
<1> QED
  BY <1>1, <1>2, <1>3, <1>5, <1>6, <1>7 DEF f

\* What an agent may still hand on or spend.
LEMMA AvailableIs ==
  ASSUME StoreInv, NEW a \in DOMAIN agents
  PROVE  /\ Delegated(agents, a) \in Nat
         /\ agents[a].authority \in Nat /\ agents[a].spent \in Nat
         /\ StatsFor(agents, a).available
              = agents[a].authority - agents[a].spent - Delegated(agents, a)
         /\ StatsFor(agents, a).available \in Nat
<1>1. Delegated(agents, a) \in Nat
  BY DelegatedIs DEF StoreInv, DemoTypeInv, IsTree
<1>2. agents[a].authority \in Nat /\ agents[a].spent \in Nat
  BY DEF StoreInv, DemoTypeInv, AgentRecords
<1>3. agents[a].spent + Delegated(agents, a) <= agents[a].authority
  BY DEF StoreInv, AuthorityFits
<1>4. StatsFor(agents, a).available = Free(agents, a)
  BY DEF StatsFor
<1>5. Free(agents, a) = agents[a].authority - agents[a].spent - Delegated(agents, a)
  BY <1>1, <1>2, <1>3 DEF Free, Positive
<1> QED
  BY <1>1, <1>2, <1>3, <1>4, <1>5

LEMMA TodayIs ==
  ASSUME DemoTypeInv, NEW A
  PROVE  SpentToday(events, A, now) \in Nat
<1> DEFINE S == {j \in ApprovedFor(events, A) : events[j].at >= StartOfDay(now)}
           f == [i \in S |-> events[i].amount]
<1>1. S \subseteq DOMAIN events /\ DOMAIN events = 1..Len(events) /\ Len(events) \in Nat
  BY DEF ApprovedFor, DemoTypeInv
<1>2. IsFiniteSet(S)
  <2>1. IsFiniteSet(1..Len(events))
    BY <1>1, FS_Interval
  <2> HIDE DEF S
  <2> QED
    BY <1>1, <2>1, FS_Subset
<1>3. \A i \in DOMAIN events : events[i].amount \in Nat
  <2>1. \A i \in DOMAIN events : events[i] \in EventRecords
    BY <1>1 DEF DemoTypeInv
  <2> QED
    BY <2>1 DEF EventRecords
<1>5. f \in [S -> Nat]
  <2> HIDE DEF S
  <2> QED
    BY <1>1, <1>3
<1>4. SpentToday(events, A, now) = Added(f)
  BY DEF SpentToday, SpentSince
<1> HIDE DEF S, f
<1> QED
  BY <1>2, <1>4, <1>5, AddedType

-----------------------------------------------------------------------------
(* The tree. *)

LEMMA KidsAre ==
  ASSUME NEW ix, IsTree(ix), NEW a \in DOMAIN ix
  PROVE  /\ KidSet(ix, a) = {c \in DOMAIN ix : ix[c].parent = a}
         /\ ix[a].parent \in DOMAIN ix \cup {NoAgent}
BY DEF KidSet, IsTree

\* Of some agents, one has its parent elsewhere, and one all its children.
LEMMA SomeTop ==
  ASSUME NEW ix, IsTree(ix), NoAgent \notin DOMAIN ix, NEW S \in SUBSET DOMAIN ix, S # {}
  PROVE  \E a \in S : ix[a].parent \notin S
<1>1. PICK depth \in [DOMAIN ix -> 0..Cardinality(DOMAIN ix)] :
        \A a \in DOMAIN ix : ix[a].parent # NoAgent => depth[ix[a].parent] < depth[a]
  BY DEF IsTree
<1>2. Cardinality(DOMAIN ix) \in Nat
  BY FS_CardinalityType DEF IsTree
<1> DEFINE T == {depth[a] : a \in S}
<1>3. T \in SUBSET Nat /\ T # {}
  BY <1>1, <1>2
<1>4. PICK n \in T : \A m \in T : n <= m
  BY <1>3, NatHasMin
<1>5. PICK a \in S : n = depth[a]
  BY <1>4
<1>6. ASSUME ix[a].parent \in S PROVE FALSE
  <2>1. depth[ix[a].parent] < depth[a]
    BY <1>1, <1>6
  <2>2. depth[a] <= depth[ix[a].parent]
    BY <1>4, <1>5, <1>6
  <2>3. depth[a] \in Nat /\ depth[ix[a].parent] \in Nat
    BY <1>1, <1>2, <1>6
  <2> QED
    BY <2>1, <2>2, <2>3
<1> QED
  BY <1>6

LEMMA SomeBottom ==
  ASSUME NEW ix, IsTree(ix), NoAgent \notin DOMAIN ix, NEW S \in SUBSET DOMAIN ix, S # {}
  PROVE  \E a \in S : KidSet(ix, a) \cap S = {}
<1> DEFINE N == Cardinality(DOMAIN ix)
<1>1. PICK depth \in [DOMAIN ix -> 0..N] :
        \A a \in DOMAIN ix : ix[a].parent # NoAgent => depth[ix[a].parent] < depth[a]
  BY DEF IsTree
<1>2. N \in Nat
  BY FS_CardinalityType DEF IsTree
<1> HIDE DEF N
<1> DEFINE T == {N - depth[a] : a \in S}
<1>3. T \in SUBSET Nat /\ T # {}
  <2>1. \A a \in S : N - depth[a] \in Nat
    BY <1>1, <1>2
  <2> QED
    BY <2>1
<1>4. PICK n \in T : \A m \in T : n <= m
  BY <1>3, NatHasMin
<1>5. PICK a \in S : n = N - depth[a]
  BY <1>4
<1>6. ASSUME NEW c \in KidSet(ix, a) \cap S PROVE FALSE
  <2>1. ix[c].parent = a /\ a # NoAgent
    BY <1>6, KidsAre
  <2>2. depth[a] < depth[c]
    BY <1>1, <1>6, <2>1
  <2>3. N - depth[a] <= N - depth[c]
    BY <1>4, <1>5, <1>6
  <2>4. depth[a] \in Int /\ depth[c] \in Int
    BY <1>1, <1>6
  <2> QED
    BY <1>2, <2>2, <2>3, <2>4
<1> QED
  BY <1>6

\* What Descendants is defined to be: one of the functions that are so.
IsBelow(ix, f) == f = [a \in DOMAIN ix |-> UNION {{c} \cup f[c] : c \in KidSet(ix, a)}]

\* In every set with the children of a and of all its members.
Reach(ix, a) ==
  {d \in DOMAIN ix : \A T \in SUBSET DOMAIN ix :
     KidSet(ix, a) \subseteq T /\ (\A x \in T : KidSet(ix, x) \subseteq T) => d \in T}

LEMMA ReachIs ==
  ASSUME NEW ix, NEW a
  PROVE  /\ KidSet(ix, a) \subseteq Reach(ix, a)
         /\ \A x \in Reach(ix, a) : KidSet(ix, x) \subseteq Reach(ix, a)
         /\ Reach(ix, a) = UNION {{c} \cup Reach(ix, c) : c \in KidSet(ix, a)}
<1>1. \A x : KidSet(ix, x) \subseteq DOMAIN ix
  BY DEF KidSet
<1>2. \A x : KidSet(ix, x) \subseteq Reach(ix, x)
  BY <1>1 DEF Reach
<1>3. \A x : \A y \in Reach(ix, x) : KidSet(ix, y) \subseteq Reach(ix, x)
  BY <1>1 DEF Reach
<1> DEFINE U == UNION {{c} \cup Reach(ix, c) : c \in KidSet(ix, a)}
<1>4. U \subseteq Reach(ix, a)
  <2>1. SUFFICES ASSUME NEW c \in KidSet(ix, a), NEW d \in {c} \cup Reach(ix, c)
                 PROVE  d \in Reach(ix, a)
    OBVIOUS
  <2>2. CASE d = c
    BY <1>2, <2>2
  <2>3. CASE d \in Reach(ix, c)
    <3>1. d \in DOMAIN ix
      BY <2>3 DEF Reach
    <3>2. ASSUME NEW T \in SUBSET DOMAIN ix, KidSet(ix, a) \subseteq T,
                 \A x \in T : KidSet(ix, x) \subseteq T
          PROVE  d \in T
      <4>1. KidSet(ix, c) \subseteq T
        BY <3>2
      <4> QED
        BY <2>3, <3>2, <4>1 DEF Reach
    <3> QED
      BY <3>1, <3>2 DEF Reach
  <2> QED
    BY <2>1, <2>2, <2>3
<1>5. Reach(ix, a) \subseteq U
  <2>1. U \in SUBSET DOMAIN ix
    BY <1>1 DEF Reach
  <2>2. KidSet(ix, a) \subseteq U
    OBVIOUS
  <2>3. ASSUME NEW x \in U PROVE KidSet(ix, x) \subseteq U
    <3>1. PICK c \in KidSet(ix, a) : x \in {c} \cup Reach(ix, c)
      BY <2>3
    <3>2. KidSet(ix, x) \subseteq Reach(ix, c)
      BY <1>2, <1>3, <3>1
    <3> QED
      BY <3>2
  <2> HIDE DEF U
  <2> QED
    BY <2>1, <2>2, <2>3 DEF Reach
<1> QED
  BY <1>2, <1>3, <1>4, <1>5

LEMMA DescendantsReach ==
  ASSUME NEW ix, IsTree(ix), NoAgent \notin DOMAIN ix, NEW a \in DOMAIN ix
  PROVE  Descendants(ix, a) = Reach(ix, a)
<1> DEFINE g == [x \in DOMAIN ix |-> Reach(ix, x)]
           f == CHOOSE h : IsBelow(ix, h)
<1>1. IsBelow(ix, g)
  <2>1. \A x : KidSet(ix, x) \subseteq DOMAIN ix
    BY DEF KidSet
  <2>2. \A x \in DOMAIN ix : g[x] = UNION {{c} \cup g[c] : c \in KidSet(ix, x)}
    <3>1. TAKE x \in DOMAIN ix
    <3>2. \A c \in KidSet(ix, x) : g[c] = Reach(ix, c)
      BY <2>1
    <3>3. UNION {{c} \cup g[c] : c \in KidSet(ix, x)} = UNION {{c} \cup Reach(ix, c) : c \in KidSet(ix, x)}
      BY <3>2
    <3> QED
      BY <3>3, ReachIs
  <2> QED
    BY <2>2 DEF IsBelow
<1>2. IsBelow(ix, f)
  BY <1>1
<1>3. Descendants(ix, a) = f[a]
  BY DEF Descendants, IsBelow
<1> HIDE DEF f
<1> DEFINE S == {x \in DOMAIN ix : f[x] # Reach(ix, x)}
<1>4. ASSUME S # {} PROVE FALSE
  <2>1. PICK x \in S : KidSet(ix, x) \cap S = {}
    BY <1>4, SomeBottom
  <2>2. \A c \in KidSet(ix, x) : f[c] = Reach(ix, c)
    BY <2>1 DEF KidSet
  <2>3. f[x] = UNION {{c} \cup f[c] : c \in KidSet(ix, x)}
    BY <1>2 DEF IsBelow
  <2>4. f[x] = UNION {{c} \cup Reach(ix, c) : c \in KidSet(ix, x)}
    BY <2>2, <2>3
  <2> QED
    BY <2>1, <2>4, ReachIs
<1> QED
  BY <1>3, <1>4

\* What Ancestors is defined to be, of one agent and of all but some.
Climb(ix, f, a) ==
  IF ix[a].parent \in DOMAIN ix THEN <<ix[a].parent>> \o f[ix[a].parent] ELSE << >>
IsClimb(ix, f) == f = [a \in DOMAIN ix |-> Climb(ix, f, a)]
ClimbsBut(ix, rest, f) ==
  \A a \in DOMAIN ix \ rest : ix[a].parent \notin rest /\ f[a] = Climb(ix, f, a)

LEMMA ClimbsOneMore ==
  ASSUME NEW ix, IsTree(ix), NoAgent \notin DOMAIN ix, NEW rest \in SUBSET DOMAIN ix, rest # {},
         NEW f \in [DOMAIN ix \ rest -> Seq(DOMAIN ix)], ClimbsBut(ix, rest, f)
  PROVE  \E a \in rest : \E g \in [DOMAIN ix \ (rest \ {a}) -> Seq(DOMAIN ix)] :
           ClimbsBut(ix, rest \ {a}, g)
<1>1. PICK a \in rest : ix[a].parent \notin rest
  BY SomeTop
<1> DEFINE D == DOMAIN ix
           R == rest \ {a}
           g == [x \in D \ R |-> IF x = a THEN Climb(ix, f, a) ELSE f[x]]
<1>2. \A x \in D \ R : x = a \/ x \in D \ rest
  OBVIOUS
<1>3. \A x \in D \ R : ix[x].parent \notin rest
  BY <1>1, <1>2 DEF ClimbsBut
<1>4. \A x \in D \ R : Climb(ix, g, x) = Climb(ix, f, x)
  <2>1. TAKE x \in D \ R
  <2>2. CASE ix[x].parent \in D
    <3>1. ix[x].parent \in D \ R /\ ix[x].parent # a
      BY <1>3, <2>2
    <3>2. g[ix[x].parent] = f[ix[x].parent]
      BY <3>1
    <3> QED
      BY <3>2 DEF Climb
  <2>3. CASE ix[x].parent \notin D
    BY <2>3 DEF Climb
  <2> QED
    BY <2>2, <2>3
<1>5. \A x \in D \ R : Climb(ix, f, x) \in Seq(D)
  <2>1. TAKE x \in D \ R
  <2>2. CASE ix[x].parent \in D
    <3>1. f[ix[x].parent] \in Seq(D)
      BY <1>3, <2>2
    <3>2. <<ix[x].parent>> \in Seq(D)
      BY <2>2
    <3> QED
      BY <2>2, <3>1, <3>2, ConcatProperties DEF Climb
  <2>3. CASE ix[x].parent \notin D
    BY <2>3 DEF Climb
  <2> QED
    BY <2>2, <2>3
<1>6. \A x \in D \ R : g[x] = Climb(ix, f, x)
  BY <1>2 DEF ClimbsBut
<1>7. g \in [D \ R -> Seq(D)]
  BY <1>5, <1>6
<1>8. ClimbsBut(ix, R, g)
  BY <1>3, <1>4, <1>6 DEF ClimbsBut
<1> QED
  BY <1>7, <1>8

LEMMA AncestorsAre ==
  ASSUME NEW ix, IsTree(ix), NoAgent \notin DOMAIN ix
  PROVE  \A a \in DOMAIN ix :
           /\ Ancestors(ix, a) \in Seq(DOMAIN ix)
           /\ ToSet(Ancestors(ix, a)) =
                IF ix[a].parent \in DOMAIN ix
                  THEN {ix[a].parent} \cup ToSet(Ancestors(ix, ix[a].parent)) ELSE {}
<1> DEFINE D == DOMAIN ix
           Cuts == {rest \in SUBSET D : \E f \in [D \ rest -> Seq(D)] : ClimbsBut(ix, rest, f)}
<1>1. \A rest \in Cuts : IsFiniteSet(rest)
  BY FS_Subset DEF IsTree
<1>2. D \in Cuts
  <2>1. [x \in D \ D |-> << >>] \in [D \ D -> Seq(D)]
    OBVIOUS
  <2> QED
    BY <2>1 DEF ClimbsBut
<1>3. PICK rest \in Cuts : \A T \in Cuts : Cardinality(rest) <= Cardinality(T)
  <2> HIDE DEF Cuts
  <2> QED
    BY <1>1, <1>2, SmallestSet
<1>4. rest = {}
  <2>1. SUFFICES ASSUME rest # {} PROVE FALSE
    OBVIOUS
  <2>2. PICK f \in [D \ rest -> Seq(D)] : ClimbsBut(ix, rest, f)
    BY <1>3
  <2>3. PICK a \in rest : \E g \in [D \ (rest \ {a}) -> Seq(D)] : ClimbsBut(ix, rest \ {a}, g)
    BY <1>3, <2>1, <2>2, ClimbsOneMore
  <2>4. rest \ {a} \in Cuts
    BY <1>3, <2>3
  <2> QED
    BY <1>1, <1>3, <2>3, <2>4, OneLess
<1>5. \E f \in [D -> Seq(D)] : IsClimb(ix, f)
  <2>1. PICK f \in [D -> Seq(D)] : ClimbsBut(ix, {}, f)
    BY <1>3, <1>4
  <2> QED
    BY <2>1 DEF IsClimb, ClimbsBut
<1> DEFINE up == CHOOSE f : IsClimb(ix, f)
<1>6. IsClimb(ix, up)
  BY <1>5
<1>7. \A a : Ancestors(ix, a) = up[a]
  BY DEF Ancestors, IsClimb, Climb
<1> HIDE DEF up
<1>8. \A a \in D : up[a] = Climb(ix, up, a)
  BY <1>6 DEF IsClimb
<1>9. \A a \in D : up[a] \in Seq(D)
  <2> DEFINE S == {a \in D : up[a] \notin Seq(D)}
  <2>1. SUFFICES ASSUME S # {} PROVE FALSE
    OBVIOUS
  <2>2. PICK a \in S : ix[a].parent \notin S
    BY <2>1, SomeTop
  <2>3. a \in D /\ up[a] \notin Seq(D) /\ up[a] = Climb(ix, up, a)
    BY <1>8, <2>2
  <2>4. Climb(ix, up, a) \in Seq(D)
    <3>1. CASE ix[a].parent \in D
      <4>1. up[ix[a].parent] \in Seq(D) /\ <<ix[a].parent>> \in Seq(D)
        BY <2>2, <3>1
      <4> QED
        BY <3>1, <4>1, ConcatProperties DEF Climb
    <3>2. CASE ix[a].parent \notin D
      BY <3>2 DEF Climb
    <3> QED
      BY <3>1, <3>2
  <2> QED
    BY <2>3, <2>4
<1>10. ASSUME NEW a \in D
       PROVE  ToSet(up[a]) = IF ix[a].parent \in D THEN {ix[a].parent} \cup ToSet(up[ix[a].parent]) ELSE {}
  <2>1. CASE ix[a].parent \in D
    <3> DEFINE p == ix[a].parent
               s == up[p]
    <3>1. p \in D /\ s \in Seq(D) /\ up[a] = <<p>> \o s
      BY <1>8, <1>9, <2>1 DEF Climb
    <3> HIDE DEF p, s
    <3>2. /\ Len(<<p>> \o s) = 1 + Len(s) /\ Len(s) \in Nat
          /\ DOMAIN (<<p>> \o s) = 1..(1 + Len(s)) /\ DOMAIN s = 1..Len(s)
          /\ (<<p>> \o s)[1] = p
          /\ \A i \in 1..Len(s) : (<<p>> \o s)[1 + i] = s[i]
      BY <3>1
    <3>3. ToSet(<<p>> \o s) = {p} \cup ToSet(s)
      <4>1. ASSUME NEW x \in ToSet(<<p>> \o s) PROVE x \in {p} \cup ToSet(s)
        <5>1. PICK i \in 1..(1 + Len(s)) : x = (<<p>> \o s)[i]
          BY <3>2, <4>1 DEF ToSet
        <5>2. CASE i = 1
          BY <3>2, <5>1, <5>2
        <5>3. CASE i # 1
          <6>1. i - 1 \in 1..Len(s) /\ i = 1 + (i - 1)
            BY <3>2, <5>1, <5>3
          <6>2. x = s[i - 1]
            BY <3>2, <5>1, <6>1
          <6> QED
            BY <3>2, <6>1, <6>2 DEF ToSet
        <5> QED
          BY <5>2, <5>3
      <4>2. p \in ToSet(<<p>> \o s)
        <5>1. 1 \in 1..(1 + Len(s))
          BY <3>2
        <5> QED
          BY <3>2, <5>1 DEF ToSet
      <4>3. ASSUME NEW x \in ToSet(s) PROVE x \in ToSet(<<p>> \o s)
        <5>1. PICK i \in 1..Len(s) : x = s[i]
          BY <3>2, <4>3 DEF ToSet
        <5>2. 1 + i \in 1..(1 + Len(s)) /\ x = (<<p>> \o s)[1 + i]
          BY <3>2, <5>1
        <5> QED
          BY <3>2, <5>2 DEF ToSet
      <4> QED
        BY <4>1, <4>2, <4>3
    <3> QED
      BY <2>1, <3>1, <3>3 DEF p, s
  <2>2. CASE ix[a].parent \notin D
    <3>1. up[a] = << >>
      BY <1>8, <2>2 DEF Climb
    <3> QED
      BY <2>2, <3>1 DEF ToSet
  <2> QED
    BY <2>1, <2>2
<1> QED
  BY <1>7, <1>9, <1>10

\* Who hangs below a revoked one is revoked.
RevokedBelow(ix) ==
  \A c \in DOMAIN ix :
    ix[c].parent \in DOMAIN ix /\ ix[ix[c].parent].status = "revoked" => ix[c].status = "revoked"

DemoInv == StoreInv /\ RevokedBelow(agents)

LEMMA NoAgentOutside == DemoTypeInv => NoAgent \notin DOMAIN agents
BY StoreAssumption DEF DemoTypeInv

LEMMA NothingLives == DemoInv => NothingLivesBelowRevoked
<1> SUFFICES ASSUME DemoInv PROVE NothingLivesBelowRevoked
  OBVIOUS
<1>1. IsTree(agents) /\ NoAgent \notin DOMAIN agents /\ RevokedBelow(agents)
  BY NoAgentOutside DEF DemoInv, StoreInv
<1> SUFFICES ASSUME NEW a \in DOMAIN agents, agents[a].status = "revoked",
                    {b \in DOMAIN agents : a \in ToSet(Ancestors(agents, b)) /\ agents[b].status # "revoked"} # {}
             PROVE  FALSE
  BY DEF NothingLivesBelowRevoked
<1> DEFINE S == {b \in DOMAIN agents : a \in ToSet(Ancestors(agents, b)) /\ agents[b].status # "revoked"}
<1>2. PICK b \in S : agents[b].parent \notin S
  BY <1>1, SomeTop
<1> DEFINE p == agents[b].parent
<1>3. b \in DOMAIN agents /\ agents[b].status # "revoked" /\ a \in ToSet(Ancestors(agents, b))
  BY <1>2
<1>4. p \in DOMAIN agents /\ (a = p \/ a \in ToSet(Ancestors(agents, p)))
  BY <1>1, <1>3, AncestorsAre
<1>5. agents[p].status = "revoked"
  BY <1>2, <1>4
<1> QED
  BY <1>1, <1>3, <1>4, <1>5 DEF RevokedBelow

-----------------------------------------------------------------------------
(* What the store's actions make of the tree. *)

LEMMA EventAdded ==
  ASSUME DemoTypeInv, NEW a \in DOMAIN agents, NEW amount \in Nat,
         NEW kind \in {"created", "delegated", "revoked", "approved", "blocked"}
  PROVE  \A s \in Seq(EventRecords) : <<Happened(kind, a, amount)>> \o s \in Seq(EventRecords)
<1>1. a \in Ids /\ now \in Nat
  BY DEF DemoTypeInv
<1>2. Happened(kind, a, amount) \in EventRecords
  BY <1>1 DEF Happened, EventRecords
<1>3. <<Happened(kind, a, amount)>> \in Seq(EventRecords)
  BY <1>2
<1> QED
  BY <1>3, ConcatProperties

LEMMA DelegatedLess ==
  ASSUME NEW ix, IsFiniteSet(DOMAIN ix), ix \in [DOMAIN ix -> AgentRecords],
         NEW jx, IsFiniteSet(DOMAIN jx), jx \in [DOMAIN jx -> AgentRecords], NEW a,
         LiveKids(jx, a) \subseteq LiveKids(ix, a),
         \A c \in LiveKids(jx, a) : jx[c].authority = ix[c].authority
  PROVE  Delegated(jx, a) <= Delegated(ix, a)
<1> DEFINE S == LiveKids(ix, a)
           T == LiveKids(jx, a)
           f == [c \in S |-> ix[c].authority]
           g == [c \in T |-> jx[c].authority]
<1>1. /\ S \subseteq DOMAIN ix /\ IsFiniteSet(S) /\ \A c \in DOMAIN ix : ix[c].authority \in Nat
      /\ Delegated(ix, a) = Total(f, S)
  BY DelegatedIs
<1>2. IsFiniteSet(T) /\ Delegated(jx, a) = Total(g, T)
  BY DelegatedIs
<1>3. T \in SUBSET S /\ \A c \in T : g[c] = f[c]
  OBVIOUS
<1>4. \A c \in S : f[c] \in Nat
  BY <1>1
<1> HIDE DEF S, T, f, g
<1>5. Total(g, T) = Total(f, T)
  BY <1>2, <1>3, TotalCongruence
<1>6. Total(f, T) <= Total(f, S)
  BY <1>1, <1>3, <1>4, TotalMonotone
<1> QED
  BY <1>1, <1>2, <1>5, <1>6

\* The same agents, of the same parents, with what they were given.
LEMMA TreeKept ==
  ASSUME NEW ix, IsTree(ix), NEW jx, DOMAIN jx = DOMAIN ix,
         \A a \in DOMAIN ix : jx[a].parent = ix[a].parent /\ jx[a].children = ix[a].children
  PROVE  IsTree(jx) /\ \A a \in DOMAIN ix : KidSet(jx, a) = KidSet(ix, a)
<1>1. PICK depth \in [DOMAIN ix -> 0..Cardinality(DOMAIN ix)] :
        \A a \in DOMAIN ix : ix[a].parent # NoAgent => depth[ix[a].parent] < depth[a]
  BY DEF IsTree
<1>2. \A a \in DOMAIN jx : jx[a].parent # NoAgent => depth[jx[a].parent] < depth[a]
  BY <1>1
<1>3. \A a \in DOMAIN jx : /\ jx[a].parent \in DOMAIN jx \cup {NoAgent}
                           /\ ToSet(jx[a].children) = {c \in DOMAIN jx : jx[c].parent = a}
  <2>1. TAKE a \in DOMAIN jx
  <2>2. {c \in DOMAIN jx : jx[c].parent = a} = {c \in DOMAIN ix : ix[c].parent = a}
    OBVIOUS
  <2> QED
    BY <2>2 DEF IsTree
<1>4. IsFiniteSet(DOMAIN jx)
  BY DEF IsTree
<1>5. \E d \in [DOMAIN jx -> 0..Cardinality(DOMAIN jx)] :
        \A a \in DOMAIN jx : jx[a].parent # NoAgent => d[jx[a].parent] < d[a]
  BY <1>1, <1>2
<1>6. \A a \in DOMAIN ix : KidSet(jx, a) = KidSet(ix, a)
  BY DEF KidSet
<1> QED
  BY <1>3, <1>4, <1>5, <1>6 DEF IsTree

LEMMA RevokeKeeps ==
  ASSUME DemoInv, NEW a \in DOMAIN agents, RevokeAgent(a)
  PROVE  /\ DOMAIN agents' = DOMAIN agents /\ agents' \in [DOMAIN agents -> AgentRecords]
         /\ events' \in Seq(EventRecords)
         /\ IsTree(agents') /\ AuthorityFits(agents') /\ RevokedBelow(agents')
<1> DEFINE D == DOMAIN agents
<1>1. DemoTypeInv /\ IsTree(agents) /\ AuthorityFits(agents) /\ RevokedBelow(agents) /\ NoAgent \notin D
  BY NoAgentOutside DEF DemoInv, StoreInv
<1>2. /\ agents' = [b \in D |-> IF b \in Doomed(a) THEN [agents[b] EXCEPT !.status = "revoked"] ELSE agents[b]]
      /\ events' = <<Happened("revoked", a, 0)>> \o events
  BY DEF RevokeAgent
<1>3. \A b \in D : agents[b] \in AgentRecords
  BY <1>1 DEF DemoTypeInv
<1>4. D = DOMAIN agents' /\ agents' \in [D -> AgentRecords]
  BY <1>2, <1>3 DEF AgentRecords
<1>5. \A b \in D : /\ agents'[b].parent = agents[b].parent /\ agents'[b].children = agents[b].children
                   /\ agents'[b].authority = agents[b].authority /\ agents'[b].spent = agents[b].spent
                   /\ agents'[b].status = IF b \in Doomed(a) THEN "revoked" ELSE agents[b].status
  BY <1>2, <1>3 DEF AgentRecords
<1>6. IsTree(agents') /\ \A b \in D : KidSet(agents', b) = KidSet(agents, b)
  BY <1>1, <1>4, <1>5, TreeKept
<1>7. AuthorityFits(agents')
  <2>1. SUFFICES ASSUME NEW b \in D
                 PROVE  agents'[b].spent + Delegated(agents', b) <= agents'[b].authority
    BY <1>4 DEF AuthorityFits
  <2>2. LiveKids(agents', b) \subseteq LiveKids(agents, b) /\ LiveKids(agents', b) \subseteq D
    BY <1>5, <1>6 DEF LiveKids, KidSet
  <2>3. IsFiniteSet(D) /\ IsFiniteSet(DOMAIN agents') /\ agents \in [D -> AgentRecords]
        /\ agents' \in [DOMAIN agents' -> AgentRecords]
    BY <1>1, <1>4 DEF IsTree, DemoTypeInv
  <2>4. Delegated(agents', b) <= Delegated(agents, b)
    BY <1>5, <2>2, <2>3, DelegatedLess
  <2>5. Delegated(agents', b) \in Nat /\ Delegated(agents, b) \in Nat
    BY <2>3, DelegatedIs
  <2>6. agents[b].spent + Delegated(agents, b) <= agents[b].authority
    BY <1>1 DEF AuthorityFits
  <2>7. agents[b].spent \in Nat /\ agents[b].authority \in Nat
    BY <1>3 DEF AgentRecords
  <2> QED
    BY <1>5, <2>4, <2>5, <2>6, <2>7
<1>8. RevokedBelow(agents')
  <2>1. SUFFICES ASSUME NEW c \in D, agents[c].parent \in D, agents'[agents[c].parent].status = "revoked"
                 PROVE  agents'[c].status = "revoked"
    BY <1>4, <1>5 DEF RevokedBelow
  <2>2. CASE agents[c].parent \in Doomed(a)
    <3>1. c \in KidSet(agents, agents[c].parent)
      BY <1>1, <2>1, KidsAre
    <3>2. c \in Reach(agents, a)
      BY <1>1, <2>2, <3>1, ReachIs, DescendantsReach DEF Doomed
    <3> QED
      BY <1>1, <1>5, <3>2, DescendantsReach DEF Doomed
  <2>3. CASE agents[c].parent \notin Doomed(a)
    <3>1. agents[c].status = "revoked"
      BY <1>1, <1>5, <2>1, <2>3 DEF RevokedBelow
    <3> QED
      BY <1>5, <3>1
  <2> QED
    BY <2>2, <2>3
<1>9. events' \in Seq(EventRecords)
  BY <1>1, <1>2, EventAdded DEF DemoTypeInv
<1> QED
  BY <1>4, <1>6, <1>7, <1>8, <1>9

LEMMA PaymentKeeps ==
  ASSUME DemoInv, NEW a \in DOMAIN agents, NEW amount \in Nat, NEW service,
         RequestPayment(a, amount, service)
  PROVE  /\ DOMAIN agents' = DOMAIN agents /\ agents' \in [DOMAIN agents -> AgentRecords]
         /\ events' \in Seq(EventRecords)
         /\ IsTree(agents') /\ AuthorityFits(agents') /\ RevokedBelow(agents')
<1> DEFINE D == DOMAIN agents
<1>1. DemoTypeInv /\ IsTree(agents) /\ AuthorityFits(agents) /\ RevokedBelow(agents) /\ NoAgent \notin D
      /\ StoreInv
  BY NoAgentOutside DEF DemoInv, StoreInv
<1>2. events' \in Seq(EventRecords)
  <2>1. \E kind \in {"approved", "blocked"} : events' = <<Happened(kind, a, amount)>> \o events
    BY DEF RequestPayment
  <2> QED
    BY <1>1, <2>1, EventAdded DEF DemoTypeInv
<1>3. CASE Breaches(a, amount, service) # {}
  <2>1. agents' = agents
    BY <1>3 DEF RequestPayment
  <2> QED
    BY <1>1, <1>2, <2>1 DEF DemoTypeInv
<1>4. CASE Breaches(a, amount, service) = {}
  <2>1. agents' = [agents EXCEPT ![a].spent = @ + amount]
    BY <1>4 DEF RequestPayment, Charge
  <2>2. amount <= StatsFor(agents, a).available
    <3>1. "authority" \in {Tests[i] : i \in DOMAIN Tests}
      <4>1. 6 \in DOMAIN Tests /\ Tests[6] = "authority"
        BY DEF Tests
      <4> QED
        BY <4>1
    <3>2. ~ (amount > StatsFor(agents, a).available)
      BY <1>4, <3>1 DEF Breaches
    <3> QED
      BY <1>1, <3>2, AvailableIs
  <2>3. \A b \in D : agents[b] \in AgentRecords
    BY <1>1 DEF DemoTypeInv
  <2>4. D = DOMAIN agents' /\ agents' \in [D -> AgentRecords]
    <3>1. agents[a] \in AgentRecords /\ agents[a].spent + amount \in Nat
      BY <2>3 DEF AgentRecords
    <3>2. [agents[a] EXCEPT !.spent = @ + amount] \in AgentRecords
      BY <3>1 DEF AgentRecords
    <3> QED
      BY <2>1, <2>3, <3>2
  <2>5. \A b \in D : /\ agents'[b].parent = agents[b].parent /\ agents'[b].children = agents[b].children
                     /\ agents'[b].authority = agents[b].authority /\ agents'[b].status = agents[b].status
                     /\ agents'[b].spent = agents[b].spent + IF b = a THEN amount ELSE 0
    BY <2>1, <2>3 DEF AgentRecords
  <2>6. IsTree(agents') /\ \A b \in D : KidSet(agents', b) = KidSet(agents, b)
    BY <1>1, <2>4, <2>5, TreeKept
  <2>7. AuthorityFits(agents')
    <3>1. SUFFICES ASSUME NEW b \in D
                   PROVE  agents'[b].spent + Delegated(agents', b) <= agents'[b].authority
      BY <2>4 DEF AuthorityFits
    <3>2. LiveKids(agents', b) \subseteq LiveKids(agents, b) /\ LiveKids(agents', b) \subseteq D
      BY <2>5, <2>6 DEF LiveKids, KidSet
    <3>3. IsFiniteSet(D) /\ IsFiniteSet(DOMAIN agents') /\ agents \in [D -> AgentRecords]
          /\ agents' \in [DOMAIN agents' -> AgentRecords]
      BY <1>1, <2>4 DEF IsTree, DemoTypeInv
    <3>4. Delegated(agents', b) <= Delegated(agents, b)
      BY <2>5, <3>2, <3>3, DelegatedLess
    <3>5. Delegated(agents', b) \in Nat /\ Delegated(agents, b) \in Nat
      BY <3>3, DelegatedIs
    <3>6. agents[b].spent + Delegated(agents, b) <= agents[b].authority
      BY <1>1 DEF AuthorityFits
    <3>7. agents[b].spent \in Nat /\ agents[b].authority \in Nat
      BY <2>3 DEF AgentRecords
    <3>8. b = a => amount <= agents[b].authority - agents[b].spent - Delegated(agents, b)
      BY <1>1, <2>2, AvailableIs
    <3> QED
      BY <2>5, <3>4, <3>5, <3>6, <3>7, <3>8
  <2>8. RevokedBelow(agents')
    BY <1>1, <2>4, <2>5 DEF RevokedBelow
  <2> QED
    BY <1>2, <2>4, <2>6, <2>7, <2>8
<1> QED
  BY <1>3, <1>4

LEMMA NewAgentType ==
  ASSUME DemoTypeInv, NEW d \in Drafts, d.parent \in DOMAIN agents
  PROVE  /\ NewAgent(d) \in AgentRecords
         /\ NewAgent(d).parent = d.parent /\ NewAgent(d).children = << >>
         /\ NewAgent(d).authority = d.authority /\ NewAgent(d).spent = 0
         /\ NewAgent(d).status = "active"
<1>1. agents[d.parent] \in AgentRecords /\ d.parent \in Ids
  BY DEF DemoTypeInv
<1>2. agents[d.parent].policy \in DOMAIN Policies
  BY <1>1 DEF AgentRecords
<1>3. Policies[agents[d.parent].policy] \in [transaction : Nat, daily : Nat]
  BY <1>2, StoreAssumption
<1>4. /\ (IF d.transaction = Unset THEN Policies[agents[d.parent].policy].transaction ELSE d.transaction) \in Nat
      /\ (IF d.daily = Unset THEN Policies[agents[d.parent].policy].daily ELSE d.daily) \in Nat
  BY <1>3 DEF Drafts
<1>5. /\ d.authority \in Nat /\ d.services \in SUBSET Resource /\ d.expires \in Nat \cup {Never}
  BY DEF Drafts
<1>6. << >> \in Seq(Ids)
  OBVIOUS
<1> QED
  BY <1>1, <1>2, <1>4, <1>5, <1>6 DEF NewAgent, AgentRecords

LEMMA NoObjection ==
  ASSUME StoreInv, NEW d \in Drafts, d.parent \in DOMAIN agents, Objections(d) = {}
  PROVE  /\ agents[d.parent].status # "revoked"
         /\ d.authority <= agents[d.parent].authority - agents[d.parent].spent
                             - Delegated(agents, d.parent)
<1>1. agents[d.parent].status # "revoked" /\ ~ (d.authority > StatsFor(agents, d.parent).available)
  BY DEF Objections
<1>2. d.authority \in Nat
  BY DEF Drafts
<1> QED
  BY <1>1, <1>2, AvailableIs

LEMMA CreateKeeps ==
  ASSUME DemoInv, NEW d \in Drafts, d.parent \in DOMAIN agents, NEW id \in Ids, CreateAgent(d, id)
  PROVE  /\ DOMAIN agents \subseteq DOMAIN agents' /\ DOMAIN agents' \subseteq Ids
         /\ agents' \in [DOMAIN agents' -> AgentRecords] /\ events' \in Seq(EventRecords)
         /\ IsTree(agents') /\ AuthorityFits(agents') /\ RevokedBelow(agents')
<1> DEFINE D == DOMAIN agents
           E == DOMAIN agents'
           p == d.parent
<1>1. DemoTypeInv /\ IsTree(agents) /\ AuthorityFits(agents) /\ RevokedBelow(agents) /\ NoAgent \notin D
      /\ StoreInv /\ p \in D
  BY NoAgentOutside DEF DemoInv, StoreInv
<1>2. /\ id \notin D
      /\ agents' = [a \in D \cup {id} |->
                      IF a = id THEN NewAgent(d)
                      ELSE IF a = p THEN [agents[a] EXCEPT !.children = Append(@, id)] ELSE agents[a]]
      /\ events' = <<Happened("delegated", p, d.authority), Happened("created", p, 0)>> \o events
      /\ Objections(d) = {}
  BY DEF CreateAgent
<1>3. /\ NewAgent(d) \in AgentRecords /\ NewAgent(d).parent = p /\ NewAgent(d).children = << >>
      /\ NewAgent(d).authority = d.authority /\ NewAgent(d).spent = 0 /\ NewAgent(d).status = "active"
  BY <1>1, NewAgentType
<1>4. \A a \in D : agents[a] \in AgentRecords
  BY <1>1 DEF DemoTypeInv
<1>5. E = D \cup {id} /\ E \subseteq Ids
  BY <1>1, <1>2 DEF DemoTypeInv
<1>6. \A a \in D : /\ agents'[a].parent = agents[a].parent /\ agents'[a].authority = agents[a].authority
                   /\ agents'[a].spent = agents[a].spent /\ agents'[a].status = agents[a].status
                   /\ agents'[a].children = IF a = p THEN Append(agents[a].children, id) ELSE agents[a].children
                   /\ agents'[a] \in AgentRecords
  <2>1. TAKE a \in D
  <2>2. agents[a].children \in Seq(Ids) /\ Append(agents[a].children, id) \in Seq(Ids)
    BY <1>4 DEF AgentRecords
  <2>3. a # id /\ agents'[a] = IF a = p THEN [agents[a] EXCEPT !.children = Append(@, id)] ELSE agents[a]
    BY <1>2
  <2> QED
    BY <1>4, <2>2, <2>3 DEF AgentRecords
<1>7. agents'[id] = NewAgent(d)
  BY <1>2
<1>8. agents' \in [E -> AgentRecords]
  BY <1>2, <1>3, <1>5, <1>6, <1>7
<1>9. events' \in Seq(EventRecords)
  <2> DEFINE e1 == Happened("delegated", p, d.authority)
             e2 == Happened("created", p, 0)
  <2>1. d.authority \in Nat
    BY DEF Drafts
  <2>2. <<e2>> \o events \in Seq(EventRecords)
    BY <1>1, EventAdded DEF DemoTypeInv
  <2>3. <<e1>> \o (<<e2>> \o events) \in Seq(EventRecords)
    BY <1>1, <2>1, <2>2, EventAdded
  <2>4. e1 \in EventRecords /\ e2 \in EventRecords
    BY <1>1, <2>1 DEF Happened, EventRecords, DemoTypeInv
  <2>5. <<e1, e2>> \in Seq(EventRecords) /\ events \in Seq(EventRecords)
    BY <1>1, <2>4 DEF DemoTypeInv
  <2> QED
    BY <1>2, <2>5, ConcatProperties
<1>10. IsTree(agents')
  <2>1. IsFiniteSet(D) /\ IsFiniteSet(E) /\ Cardinality(E) = Cardinality(D) + 1 /\ Cardinality(D) \in Nat
    BY <1>1, <1>2, <1>5, FS_AddElement, FS_CardinalityType DEF IsTree
  <2>2. \A a \in E : /\ agents'[a].parent \in E \cup {NoAgent}
                     /\ ToSet(agents'[a].children) = {c \in E : agents'[c].parent = a}
    <3>1. TAKE a \in E
    <3>2. CASE a = id
      <4>1. agents'[a].parent = p /\ agents'[a].children = << >>
        BY <1>3, <1>7, <3>2
      <4>2. \A c \in E : agents'[c].parent # id
        BY <1>1, <1>2, <1>3, <1>5, <1>6, <1>7, StoreAssumption DEF IsTree
      <4> QED
        BY <1>1, <1>5, <3>2, <4>1, <4>2 DEF ToSet
    <3>3. CASE a # id
      <4>1. a \in D /\ agents'[a].parent \in D \cup {NoAgent}
        BY <1>1, <1>5, <1>6, <3>3 DEF IsTree
      <4>2. ToSet(agents[a].children) = {c \in D : agents[c].parent = a}
        BY <1>1, <4>1 DEF IsTree
      <4>3. {c \in E : agents'[c].parent = a}
              = {c \in D : agents[c].parent = a} \cup (IF a = p THEN {id} ELSE {})
        BY <1>2, <1>3, <1>5, <1>6, <1>7
      <4>4. CASE a = p
        <5> DEFINE s == agents[a].children
        <5>1. s \in Seq(Ids) /\ agents'[a].children = Append(s, id)
          BY <1>4, <1>6, <4>1, <4>4 DEF AgentRecords
        <5> HIDE DEF s
        <5>2. /\ DOMAIN Append(s, id) = 1..(Len(s) + 1) /\ DOMAIN s = 1..Len(s) /\ Len(s) \in Nat
              /\ Append(s, id)[Len(s) + 1] = id
              /\ \A i \in 1..Len(s) : Append(s, id)[i] = s[i]
          BY <5>1
        <5>3. DOMAIN Append(s, id) = DOMAIN s \cup {Len(s) + 1}
          BY <5>2
        <5>4. ToSet(Append(s, id)) = ToSet(s) \cup {id}
          BY <5>2, <5>3 DEF ToSet
        <5> QED
          BY <1>5, <4>1, <4>2, <4>3, <4>4, <5>1, <5>4 DEF s
      <4>5. CASE a # p
        BY <1>5, <1>6, <4>1, <4>2, <4>3, <4>5
      <4> QED
        BY <4>4, <4>5
    <3> QED
      BY <3>2, <3>3
  <2>3. PICK depth \in [D -> 0..Cardinality(D)] :
          \A a \in D : agents[a].parent # NoAgent => depth[agents[a].parent] < depth[a]
    BY <1>1 DEF IsTree
  <2> DEFINE deeper == [a \in E |-> IF a = id THEN depth[p] + 1 ELSE depth[a]]
  <2>4. deeper \in [E -> 0..Cardinality(E)]
    BY <1>1, <1>5, <2>1, <2>3
  <2>5. ASSUME NEW a \in E, agents'[a].parent # NoAgent PROVE deeper[agents'[a].parent] < deeper[a]
    <3>1. CASE a = id
      BY <1>1, <1>2, <1>3, <1>5, <1>7, <2>1, <2>3, <3>1
    <3>2. CASE a # id
      <4>1. a \in D /\ agents'[a].parent = agents[a].parent /\ agents[a].parent \in D
        BY <1>1, <1>5, <1>6, <2>5, <3>2 DEF IsTree
      <4>2. agents[a].parent # id /\ agents[a].parent # NoAgent
        BY <1>2, <2>5, <4>1
      <4> QED
        BY <1>5, <2>3, <3>2, <4>1, <4>2
    <3> QED
      BY <3>1, <3>2
  <2> HIDE DEF deeper
  <2> QED
    BY <2>1, <2>2, <2>4, <2>5 DEF IsTree
<1>11. AuthorityFits(agents')
  <2>1. SUFFICES ASSUME NEW a \in E
                 PROVE  agents'[a].spent + Delegated(agents', a) <= agents'[a].authority
    BY DEF AuthorityFits
  <2>2. IsFiniteSet(D) /\ IsFiniteSet(E) /\ agents \in [D -> AgentRecords]
    BY <1>1, <1>10 DEF IsTree, DemoTypeInv
  <2>3. \A b \in E : KidSet(agents', b) = {c \in E : agents'[c].parent = b}
    BY <1>10, KidsAre
  <2>4. \A b \in D : KidSet(agents, b) = {c \in D : agents[c].parent = b}
    BY <1>1, KidsAre
  <2>5. \A b \in D : agents[b].parent # id
    BY <1>1, <1>2, StoreAssumption DEF IsTree
  <2>6. CASE a = id
    <3>1. LiveKids(agents', a) = {}
      <4>1. \A c \in E : agents'[c].parent # id
        BY <1>1, <1>2, <1>3, <1>5, <1>6, <1>7, <2>5
      <4>2. KidSet(agents', id) = {}
        BY <1>5, <2>3, <4>1
      <4> QED
        BY <2>6, <4>2 DEF LiveKids
    <3>2. Delegated(agents', a) = Total([c \in LiveKids(agents', a) |-> agents'[c].authority], LiveKids(agents', a))
      BY <1>8, <2>2, DelegatedIs
    <3>3. Delegated(agents', a) = 0
      BY <3>1, <3>2, TotalEmpty
    <3>4. d.authority \in Nat
      BY DEF Drafts
    <3> QED
      BY <1>3, <1>7, <2>6, <3>3, <3>4
  <2>7. CASE a = p
    <3> DEFINE S == LiveKids(agents, p)
               T == LiveKids(agents', p)
               f == [c \in S |-> agents[c].authority]
               g == [c \in T |-> agents'[c].authority]
    <3>1. /\ S \subseteq D /\ IsFiniteSet(S) /\ \A c \in D : agents[c].authority \in Nat
          /\ Delegated(agents, p) = Total(f, S) /\ Delegated(agents, p) \in Nat
      BY <2>2, DelegatedIs
    <3>2. Delegated(agents', p) = Total(g, T)
      BY <1>8, <2>2, DelegatedIs
    <3>3. T = S \cup {id} /\ id \notin S
      <4>1. KidSet(agents', p) = KidSet(agents, p) \cup {id}
        <5>1. {c \in E : agents'[c].parent = p} = {c \in D : agents[c].parent = p} \cup {id}
          BY <1>2, <1>3, <1>5, <1>6, <1>7
        <5>2. p \in D /\ p \in E
          BY <1>1, <1>5
        <5> QED
          BY <2>3, <2>4, <5>1, <5>2
      <4>2. KidSet(agents, p) \subseteq D
        BY <1>1, <2>4
      <4>3. \A c \in KidSet(agents, p) : agents'[c].status = agents[c].status
        BY <1>6, <4>2
      <4>4. agents'[id].status # "revoked"
        BY <1>3, <1>7
      <4> QED
        BY <1>2, <4>1, <4>2, <4>3, <4>4 DEF LiveKids
    <3>4. /\ \A c \in S : g[c] = f[c] /\ f[c] \in Nat
          /\ g[id] = d.authority /\ d.authority \in Nat
      BY <1>3, <1>6, <1>7, <3>1, <3>3 DEF Drafts
    <3> HIDE DEF S, T, f, g
    <3>5. \A c \in S \cup {id} : g[c] \in Nat
      BY <3>4
    <3>6. Total(g, T) = g[id] + Total(g, S)
      BY <3>1, <3>3, <3>5, TotalAdd
    <3>7. Total(g, S) = Total(f, S)
      BY <3>1, <3>4, TotalCongruence
    <3>8. d.authority <= agents[p].authority - agents[p].spent - Delegated(agents, p)
      BY <1>1, <1>2, NoObjection
    <3>9. agents[p].authority \in Nat /\ agents[p].spent \in Nat
      BY <1>1, <1>4 DEF AgentRecords
    <3> QED
      BY <1>1, <1>6, <2>7, <3>1, <3>2, <3>4, <3>6, <3>7, <3>8, <3>9
  <2>8. CASE a # id /\ a # p
    <3>1. a \in D
      BY <1>5, <2>8
    <3>2. LiveKids(agents', a) \subseteq LiveKids(agents, a) /\ LiveKids(agents', a) \subseteq D
      BY <1>3, <1>5, <1>6, <1>7, <2>3, <2>4, <2>8, <3>1 DEF LiveKids
    <3>3. Delegated(agents', a) <= Delegated(agents, a)
      BY <1>6, <1>8, <2>2, <3>2, DelegatedLess
    <3>4. Delegated(agents', a) \in Nat /\ Delegated(agents, a) \in Nat
      BY <1>8, <2>2, DelegatedIs
    <3>5. agents[a].spent + Delegated(agents, a) <= agents[a].authority
      BY <1>1, <3>1 DEF AuthorityFits
    <3>6. agents[a].spent \in Nat /\ agents[a].authority \in Nat
      BY <1>4, <3>1 DEF AgentRecords
    <3> QED
      BY <1>6, <3>1, <3>3, <3>4, <3>5, <3>6
  <2> QED
    BY <2>6, <2>7, <2>8
<1>12. RevokedBelow(agents')
  <2>1. SUFFICES ASSUME NEW c \in E, agents'[c].parent \in E, agents'[agents'[c].parent].status = "revoked"
                 PROVE  agents'[c].status = "revoked"
    BY DEF RevokedBelow
  <2>2. agents[p].status # "revoked"
    BY <1>1, <1>2, NoObjection
  <2>3. c # id
    BY <1>1, <1>3, <1>6, <1>7, <2>1, <2>2
  <2>4. c \in D /\ agents[c].parent \in D
    BY <1>1, <1>2, <1>5, <1>6, <2>1, <2>3, StoreAssumption DEF IsTree, DemoTypeInv
  <2> QED
    BY <1>1, <1>6, <2>1, <2>4 DEF RevokedBelow
<1> QED
  BY <1>5, <1>8, <1>9, <1>10, <1>11, <1>12

-----------------------------------------------------------------------------
(* The form. *)

Forms == [open : BOOLEAN, step : 0..3, draft : Drafts]

LEMMA FreshType ==
  ASSUME now \in Nat, NEW a \in Ids \cup {NoAgent}, NEW open \in BOOLEAN
  PROVE  /\ DefaultDraft(a) \in Drafts /\ FreshForm(open, a) \in Forms
         /\ FreshForm(open, a).open = open /\ FreshForm(open, a).draft.parent = a
<1>1. Head(Services) \in Resource
  BY StoreAssumption
<1>2. now + Month \in Nat
  BY AppAssumption
<1>3. DefaultDraft(a) \in Drafts /\ DefaultDraft(a).parent = a
  BY <1>1, <1>2 DEF DefaultDraft, Drafts
<1> QED
  BY <1>3 DEF FreshForm, Forms

\* Whatever is patched, a draft remains one, under an agent there is.
LEMMA EditsType ==
  ASSUME DemoTypeInv, NEW d \in Drafts, d.parent \in DOMAIN agents,
         NEW e \in ParentEdits(d) \cup BudgetEdits(d) \cup PolicyEdits(d) \cup ExpiryEdits(d)
  PROVE  e \in Drafts /\ e.parent \in DOMAIN agents
<1>1. CASE e \in ParentEdits(d)
  <2>1. PICK a \in DOMAIN agents : e = [d EXCEPT !.parent = a]
    BY <1>1 DEF ParentEdits, EligibleParents
  <2>2. a \in Ids
    BY DEF DemoTypeInv
  <2> QED
    BY <2>1, <2>2 DEF Drafts
<1>2. CASE e \in BudgetEdits(d)
  BY <1>2, AppAssumption DEF BudgetEdits, Drafts
<1>3. CASE e \in ExpiryEdits(d)
  BY <1>3, AppAssumption DEF ExpiryEdits, Drafts
<1>4. CASE e \in PolicyEdits(d)
  <2>1. agents[d.parent] \in AgentRecords
    BY DEF DemoTypeInv
  <2>2. agents[d.parent].services \subseteq Resource /\ agents[d.parent].policy \in DOMAIN Policies
    BY <2>1 DEF AgentRecords
  <2>3. Policies[agents[d.parent].policy] \in [transaction : Nat, daily : Nat]
    BY <2>2, StoreAssumption
  <2>4. \A x, y \in Nat : Min({x, y}) \in Nat
    <3>1. TAKE x, y \in Nat
    <3>2. \E z \in {x, y} : \A w \in {x, y} : z <= w
      OBVIOUS
    <3> QED
      BY <3>2 DEF Min
  <2> DEFINE ceiling == Policies[agents[d.parent].policy]
             toggle(s) == IF s \in d.services THEN d.services \ {s} ELSE d.services \cup {s}
             services == {[d EXCEPT !.services = toggle(s)] : s \in agents[d.parent].services}
             single == {[d EXCEPT !.transaction = Min({l, ceiling.transaction})] : l \in Limits}
             perDay == {[d EXCEPT !.daily = Min({l, ceiling.daily})] : l \in Limits}
  <2>5. e \in services \cup single \cup perDay
    BY <1>4, Zenon DEF PolicyEdits
  <2>6. CASE e \in services
    BY <2>2, <2>6 DEF Drafts
  <2>7. \A l \in Limits : Min({l, ceiling.transaction}) \in Nat /\ Min({l, ceiling.daily}) \in Nat
    BY <2>3, <2>4, AppAssumption
  <2> HIDE DEF ceiling
  <2>8. CASE e \in single
    BY <2>7, <2>8 DEF Drafts
  <2>9. CASE e \in perDay
    BY <2>7, <2>9 DEF Drafts
  <2> HIDE DEF services, single, perDay
  <2> QED
    BY <2>5, <2>6, <2>8, <2>9
<1> QED
  BY <1>1, <1>2, <1>3, <1>4

LEMMA DemoInitInv == DemoInit => DemoInv
<1> SUFFICES ASSUME DemoInit PROVE DemoInv
  OBVIOUS
<1>1. now = 0 /\ agents = Seed /\ events = SeedLog /\ form = FreshForm(FALSE, NoAgent)
  BY DEF DemoInit, StoreInit, NoForm
<1>2. form \in Forms /\ ~form.open
  BY <1>1, FreshType
<1>3. DemoTypeInv
  BY <1>1, <1>2, SeedAssumption DEF DemoTypeInv, Forms
<1>4. RevokedBelow(agents)
  BY <1>1, SeedAssumption DEF RevokedBelow
<1> QED
  BY <1>1, <1>3, <1>4, SeedAssumption DEF DemoInv, StoreInv

LEMMA DemoStep == DemoInv /\ [DemoNext]_demoVars => DemoInv'
<1> SUFFICES ASSUME DemoInv, [DemoNext]_demoVars PROVE DemoInv'
  OBVIOUS
<1>1. /\ StoreInv /\ DemoTypeInv /\ IsTree(agents) /\ AuthorityFits(agents) /\ RevokedBelow(agents)
      /\ now \in Nat /\ DOMAIN agents \subseteq Ids /\ events \in Seq(EventRecords)
      /\ agents \in [DOMAIN agents -> AgentRecords]
      /\ form \in Forms /\ form.draft \in Drafts /\ (form.open => form.draft.parent \in DOMAIN agents)
  BY DEF DemoInv, StoreInv, DemoTypeInv, Forms
<1>2. ASSUME UNCHANGED storeVars, form' \in Forms, form'.open => form'.draft.parent \in DOMAIN agents
      PROVE  DemoInv'
  <2>1. now' = now /\ agents' = agents /\ events' = events
    BY <1>2 DEF storeVars
  <2>2. DemoTypeInv'
    BY <1>1, <1>2, <2>1 DEF DemoTypeInv, Forms
  <2> QED
    BY <1>1, <2>1, <2>2 DEF DemoInv, StoreInv
<1>3. ASSUME now' = now, form' \in Forms, form'.open => form'.draft.parent \in DOMAIN agents,
             DOMAIN agents \subseteq DOMAIN agents', DOMAIN agents' \subseteq Ids,
             agents' \in [DOMAIN agents' -> AgentRecords], events' \in Seq(EventRecords),
             IsTree(agents'), AuthorityFits(agents'), RevokedBelow(agents')
      PROVE  DemoInv'
  <2>1. DemoTypeInv'
    BY <1>1, <1>3 DEF DemoTypeInv, Forms
  <2> QED
    BY <1>3, <2>1 DEF DemoInv, StoreInv
<1>4. CASE UNCHANGED demoVars
  BY <1>1, <1>2, <1>4 DEF demoVars
<1>5. ASSUME NEW a \in DOMAIN agents, OpenForm(a) PROVE DemoInv'
  <2>1. form' = FreshForm(TRUE, a) /\ UNCHANGED storeVars
    BY <1>5 DEF OpenForm
  <2>2. form' \in Forms /\ form'.draft.parent = a
    BY <1>1, <2>1, FreshType
  <2> QED
    BY <1>2, <2>1, <2>2
<1>6. ASSUME NEW a \in DOMAIN agents, RevokeNow(a) PROVE DemoInv'
  <2>1. RevokeAgent(a) /\ now' = now /\ form' = form
    BY <1>6 DEF RevokeNow
  <2>2. /\ DOMAIN agents' = DOMAIN agents /\ agents' \in [DOMAIN agents -> AgentRecords]
        /\ events' \in Seq(EventRecords)
        /\ IsTree(agents') /\ AuthorityFits(agents') /\ RevokedBelow(agents')
    BY <2>1, RevokeKeeps
  <2> QED
    BY <1>1, <1>3, <2>1, <2>2
<1>7. CASE CloseForm
  <2>1. form' = FreshForm(FALSE, NoAgent) /\ UNCHANGED storeVars
    BY <1>7 DEF CloseForm, NoForm
  <2>2. form' \in Forms /\ form'.open = FALSE
    BY <1>1, <2>1, FreshType
  <2> QED
    BY <1>2, <2>1, <2>2
<1>8. CASE Patch
  <2>1. form.open /\ UNCHANGED storeVars
    BY <1>8 DEF Patch
  <2>2. form.step \in {0, 1, 2, 3}
    BY <1>1 DEF Forms
  <2>3. \E d \in ParentEdits(form.draft) \cup BudgetEdits(form.draft) \cup PolicyEdits(form.draft)
                   \cup ExpiryEdits(form.draft) : form' = [form EXCEPT !.draft = d]
    BY <1>8, <2>2 DEF Patch
  <2>4. PICK d \in Drafts : d.parent \in DOMAIN agents /\ form' = [form EXCEPT !.draft = d]
    BY <1>1, <2>1, <2>3, EditsType
  <2>5. form' \in Forms /\ form'.draft = d
    BY <1>1, <2>4 DEF Forms
  <2> QED
    BY <1>2, <2>1, <2>4, <2>5
<1>9. CASE GoTo
  <2>1. UNCHANGED storeVars /\ form.open
    BY <1>9 DEF GoTo
  <2>2. PICK s \in 0..3 : form' = [form EXCEPT !.step = s]
    <3>1. form.step \in 0..3
      BY <1>1 DEF Forms
    <3> QED
      BY <1>9, <3>1 DEF GoTo, Forward
  <2>3. form' \in Forms /\ form'.draft = form.draft
    BY <1>1, <2>2 DEF Forms
  <2> QED
    BY <1>1, <1>2, <2>1, <2>3
<1>10. CASE Submit
  <2>1. CASE UNCHANGED demoVars
    BY <1>4, <2>1
  <2>2. CASE ~ UNCHANGED demoVars
    <3> DEFINE id == CHOOSE i \in Ids \ DOMAIN agents : TRUE
    <3>1. form.open /\ Ids \ DOMAIN agents # {} /\ CreateAgent(form.draft, id) /\ now' = now
          /\ form' = FreshForm(FALSE, NoAgent)
      BY <1>10, <2>2 DEF Submit, NoForm
    <3>2. id \in Ids
      BY <3>1
    <3> HIDE DEF id
    <3>3. form' \in Forms /\ form'.open = FALSE
      BY <1>1, <3>1, FreshType
    <3>4. /\ DOMAIN agents \subseteq DOMAIN agents' /\ DOMAIN agents' \subseteq Ids
          /\ agents' \in [DOMAIN agents' -> AgentRecords] /\ events' \in Seq(EventRecords)
          /\ IsTree(agents') /\ AuthorityFits(agents') /\ RevokedBelow(agents')
      BY <1>1, <3>1, <3>2, CreateKeeps
    <3> QED
      BY <1>3, <3>1, <3>3, <3>4
  <2> QED
    BY <2>1, <2>2
<1>11. ASSUME NEW a \in DOMAIN agents, NEW x \in DemoAmounts, PayNow(a, x) PROVE DemoInv'
  <2>1. RequestPayment(a, x, ServiceOf(a)) /\ now' = now /\ form' = form
    BY <1>11 DEF PayNow
  <2>2. x \in Nat
    BY AppAssumption
  <2>3. /\ DOMAIN agents' = DOMAIN agents /\ agents' \in [DOMAIN agents -> AgentRecords]
        /\ events' \in Seq(EventRecords)
        /\ IsTree(agents') /\ AuthorityFits(agents') /\ RevokedBelow(agents')
    BY <2>1, <2>2, PaymentKeeps
  <2> QED
    BY <1>1, <1>3, <2>1, <2>3
<1>12. CASE Wait
  <2>1. now' \in Nat /\ agents' = agents /\ events' = events /\ form' = form
    BY <1>12, StoreAssumption DEF Wait, Tick
  <2>2. DemoTypeInv'
    BY <1>1, <2>1 DEF DemoTypeInv, Forms
  <2> QED
    BY <1>1, <2>1, <2>2 DEF DemoInv, StoreInv
<1> QED
  BY <1>4, <1>5, <1>6, <1>7, <1>8, <1>9, <1>10, <1>11, <1>12 DEF DemoNext

\* store.tsx:340-371 with 228-235.  However many agents there are and however
\* deep, none with authority is below one that was revoked.
THEOREM RevocationReachesAll == DemoSpec => []NothingLivesBelowRevoked
<1>1. DemoInit => DemoInv
  BY DemoInitInv
<1>2. DemoInv /\ [DemoNext]_demoVars => DemoInv'
  BY DemoStep
<1>3. DemoInv => NothingLivesBelowRevoked
  BY NothingLives
<1> QED
  BY <1>1, <1>2, <1>3, PTL DEF DemoSpec

-----------------------------------------------------------------------------
(* What is offered. *)

LEMMA TicksSuffice ==
  ASSUME DemoInv, form.open, Ticks
  PROVE  Objections(form.draft) \subseteq {"revoked", "outlives"}
<1> DEFINE d == form.draft
<1>1. StoreInv /\ d.parent \in DOMAIN agents /\ d \in Drafts /\ now \in Nat
  BY DEF DemoInv, StoreInv, DemoTypeInv
<1>2. d.authority \in Nat /\ d.expires \in Nat \cup {Never}
  BY <1>1 DEF Drafts
<1>3. d.authority > 0 /\ d.authority <= StatsFor(agents, d.parent).available /\ d.services # {}
      /\ (d.expires # Never => d.expires > now)
  BY DEF Ticks, Available
<1>4. StatsFor(agents, d.parent).available \in Nat
  BY <1>1, AvailableIs
<1>5. ~ Outlived(d.expires, now)
  BY <1>1, <1>2, <1>3 DEF Outlived
<1>6. ~ (d.authority > StatsFor(agents, d.parent).available) /\ d.authority # 0
  BY <1>2, <1>3, <1>4
<1> HIDE DEF d
<1> QED
  BY <1>3, <1>5, <1>6 DEF Objections, d

LEMMA StatusDead ==
  ASSUME NEW a
  PROVE  /\ Lapsed(a) <=> agents[a].status = "revoked" \/ Outlived(agents[a].expires, now)
         /\ Status(a) = "revoked" <=> agents[a].status = "revoked"
BY DEF Lapsed, Status, DeriveStatus

LEMMA DelegationKept ==
  ASSUME DemoInv, NEW a \in DOMAIN agents
  PROVE  LET tab == ChildrenTab(a)
             draft(b) == [DefaultDraft(a) EXCEPT !.authority = b, !.expires = Never]
         IN  /\ TableRow(a).createChild => tab.canDelegate
             /\ tab.canDelegate => a \in EligibleParents
             /\ tab.canDelegate = (\E b \in {tab.available, 1} : Objections(draft(b)) = {})
<1> DEFINE tab == ChildrenTab(a)
           free == StatsFor(agents, a).available
           draft(b) == [DefaultDraft(a) EXCEPT !.authority = b, !.expires = Never]
<1>1. StoreInv /\ free \in Nat
  BY AvailableIs DEF DemoInv
<1>2. tab.canDelegate = (free > 0 /\ agents[a].status # "revoked") /\ tab.available = free
  BY DEF ChildrenTab
<1>3. TableRow(a).createChild = (~Lapsed(a) /\ free > 0)
  BY DEF TableRow
<1>4. TableRow(a).createChild => tab.canDelegate
  BY <1>2, <1>3, StatusDead
<1>5. tab.canDelegate => a \in EligibleParents
  BY <1>2 DEF EligibleParents
<1>6. \A b : /\ draft(b).parent = a /\ draft(b).authority = b /\ draft(b).expires = Never
             /\ draft(b).services # {}
  BY DEF DefaultDraft
<1>7. ASSUME NEW b \in Nat
      PROVE  Objections(draft(b)) = {} <=> agents[a].status # "revoked" /\ b # 0 /\ b <= free
  <2> DEFINE e == draft(b)
  <2>1. e.parent = a /\ e.authority = b /\ e.expires = Never /\ e.services # {}
    BY <1>6
  <2> HIDE DEF e, draft
  <2>2. ~ Outlived(e.expires, now)
    BY <2>1 DEF Outlived
  <2>3. Objections(e) = {o \in {"revoked", "budget", "available", "services", "past", "outlives"} :
                           \/ o = "revoked" /\ agents[a].status = "revoked"
                           \/ o = "budget" /\ b = 0
                           \/ o = "available" /\ b > free}
    BY <2>1, <2>2 DEF Objections
  <2>4. Objections(e) = {} <=> ~ (agents[a].status = "revoked" \/ b = 0 \/ b > free)
    BY <2>3
  <2> QED
    BY <1>1, <2>4 DEF e
<1>8. tab.canDelegate = (\E b \in {tab.available, 1} : Objections(draft(b)) = {})
  <2> HIDE DEF draft, tab
  <2>1. \A b \in {free, 1} : b \in Nat
    BY <1>1
  <2>2. (\E b \in {free, 1} : Objections(draft(b)) = {})
          <=> (free > 0 /\ agents[a].status # "revoked")
    BY <1>1, <1>7, <2>1
  <2> QED
    BY <1>2, <2>2
<1> QED
  BY <1>4, <1>5, <1>8

LEMMA PaymentsKept ==
  ASSUME DemoInv, NEW a \in DOMAIN agents, NEW x \in DemoAmounts, NEW s \in Resource
  PROVE  (Breaches(a, x, s) = {})
           = (/\ ~Lapsed(a) /\ s \in PermissionsTab(a).allowed
              /\ x <= PermissionsTab(a).transaction
              /\ SpendingTab(a).today + x <= PermissionsTab(a).daily
              /\ x <= ChildrenTab(a).available)
<1> DEFINE free == StatsFor(agents, a).available
           today == SpentToday(events, {a}, now)
<1>1. StoreInv /\ DemoTypeInv /\ free \in Nat /\ today \in Nat /\ x \in Nat
  BY AvailableIs, TodayIs, AppAssumption DEF DemoInv, StoreInv
<1>2. agents[a].transaction \in Nat /\ agents[a].daily \in Nat
  BY <1>1 DEF DemoTypeInv, AgentRecords
<1>3. /\ PermissionsTab(a).allowed = agents[a].services
      /\ s \in agents[a].services => /\ PermissionsTab(a).transaction = agents[a].transaction
                                     /\ PermissionsTab(a).daily = agents[a].daily
      /\ SpendingTab(a).today = today /\ ChildrenTab(a).available = free
  BY DEF PermissionsTab, SpendingTab, ChildrenTab
<1>4. {Tests[i] : i \in DOMAIN Tests} = {"revoked", "expired", "service", "transaction", "daily", "authority"}
  <2>1. DOMAIN Tests = {1, 2, 3, 4, 5, 6}
    BY DEF Tests
  <2>2. /\ Tests[1] = "revoked" /\ Tests[2] = "expired" /\ Tests[3] = "service"
        /\ Tests[4] = "transaction" /\ Tests[5] = "daily" /\ Tests[6] = "authority"
    BY DEF Tests
  <2> QED
    BY <2>1, <2>2
<1>5. Breaches(a, x, s) = {}
        <=> ~ (\/ agents[a].status = "revoked" \/ Outlived(agents[a].expires, now)
               \/ s \notin agents[a].services \/ x > agents[a].transaction
               \/ today + x > agents[a].daily \/ x > free)
  BY <1>4 DEF Breaches
<1> HIDE DEF free, today
<1>6. CASE s \in agents[a].services
  <2>1. /\ PermissionsTab(a).transaction = agents[a].transaction
        /\ PermissionsTab(a).daily = agents[a].daily
    BY <1>3, <1>6
  <2>2. /\ ~(x > agents[a].transaction) <=> x <= PermissionsTab(a).transaction
        /\ ~(today + x > agents[a].daily) <=> SpendingTab(a).today + x <= PermissionsTab(a).daily
        /\ ~(x > free) <=> x <= ChildrenTab(a).available
    BY <1>1, <1>2, <1>3, <2>1
  <2>3. Breaches(a, x, s) = {}
          <=> (/\ ~Lapsed(a) /\ s \in PermissionsTab(a).allowed
               /\ x <= PermissionsTab(a).transaction
               /\ SpendingTab(a).today + x <= PermissionsTab(a).daily
               /\ x <= ChildrenTab(a).available)
    BY <1>3, <1>5, <1>6, <2>2, StatusDead, Zenon
  <2> QED
    BY <2>3
<1>7. CASE s \notin agents[a].services
  BY <1>3, <1>5, <1>7
<1> QED
  BY <1>6, <1>7

\* CreateAgentModal.tsx:529-550, AgentTable.tsx:120-124, AgentDetail.tsx:414-416,
\* 287-316 with store.tsx:228-265, 407-451.  Whatever the tree, its budgets and
\* limits are, what a page offers the store grants.
THEOREM OffersHold == DemoSpec => []OffersAreKept
<1>1. DemoInit => DemoInv
  BY DemoInitInv
<1>2. DemoInv /\ [DemoNext]_demoVars => DemoInv'
  BY DemoStep
<1>3. DemoInv => OffersAreKept
  BY TicksSuffice, DelegationKept, PaymentsKept DEF OffersAreKept
<1> QED
  BY <1>1, <1>2, <1>3, PTL DEF DemoSpec

-----------------------------------------------------------------------------
(* What a subtree spent. *)

\* What RollupSpent is defined to be, of one agent and of all but some.
Gather(ix, f, a) == ix[a].spent + Added([c \in KidSet(ix, a) |-> f[c]])
IsGather(ix, f) == f = [a \in DOMAIN ix |-> Gather(ix, f, a)]
GathersBut(ix, rest, f) ==
  \A a \in DOMAIN ix \ rest : KidSet(ix, a) \cap rest = {} /\ f[a] = Gather(ix, f, a)

LEMMA GatherIs ==
  ASSUME NEW ix, IsTree(ix), ix \in [DOMAIN ix -> AgentRecords], NEW a \in DOMAIN ix,
         NEW f, NEW g, \A c \in KidSet(ix, a) : f[c] = g[c] /\ f[c] \in Nat
  PROVE  /\ Gather(ix, f, a) = Gather(ix, g, a)
         /\ Gather(ix, f, a) \in Nat
         /\ IsFiniteSet(KidSet(ix, a))
         /\ Gather(ix, f, a) = ix[a].spent + Total(f, KidSet(ix, a))
<1> DEFINE K == KidSet(ix, a)
           h == [c \in K |-> f[c]]
<1>1. IsFiniteSet(K)
  BY FS_Subset DEF IsTree, KidSet
<1>2. h = [c \in K |-> g[c]]
  OBVIOUS
<1>3. Gather(ix, f, a) = ix[a].spent + Added(h)
  BY DEF Gather
<1>4. Gather(ix, g, a) = ix[a].spent + Added(h)
  BY <1>2 DEF Gather
<1>5. h \in [K -> Nat] /\ \A c \in K : h[c] = f[c]
  OBVIOUS
<1>6. Added(h) = Total(h, K)
  BY AddedIs
<1>7. ix[a].spent \in Nat
  BY DEF AgentRecords
<1> HIDE DEF h, K
<1>8. Added(h) \in Nat
  BY <1>1, <1>5, AddedType
<1>9. Total(h, K) = Total(f, K)
  BY <1>1, <1>5, TotalCongruence
<1> QED
  BY <1>1, <1>3, <1>4, <1>6, <1>7, <1>8, <1>9 DEF K

LEMMA GathersOneMore ==
  ASSUME NEW ix, IsTree(ix), NoAgent \notin DOMAIN ix, ix \in [DOMAIN ix -> AgentRecords],
         NEW rest \in SUBSET DOMAIN ix, rest # {},
         NEW f \in [DOMAIN ix \ rest -> Nat], GathersBut(ix, rest, f)
  PROVE  \E a \in rest : \E g \in [DOMAIN ix \ (rest \ {a}) -> Nat] :
           GathersBut(ix, rest \ {a}, g)
<1>1. PICK a \in rest : KidSet(ix, a) \cap rest = {}
  BY SomeBottom
<1> DEFINE D == DOMAIN ix
           R == rest \ {a}
           g == [x \in D \ R |-> IF x = a THEN Gather(ix, f, a) ELSE f[x]]
<1>2. \A x \in D \ R : x = a \/ x \in D \ rest
  OBVIOUS
<1>3. \A x \in D \ R : KidSet(ix, x) \cap rest = {} /\ KidSet(ix, x) \subseteq D
  BY <1>1, <1>2 DEF GathersBut, KidSet
<1>4. \A x \in D \ R : \A c \in KidSet(ix, x) : f[c] = g[c] /\ f[c] \in Nat
  BY <1>3
<1>5. \A x \in D \ R : Gather(ix, f, x) = Gather(ix, g, x) /\ Gather(ix, f, x) \in Nat
  <2> HIDE DEF g
  <2> QED
    BY <1>4, GatherIs
<1>6. \A x \in D \ R : g[x] = Gather(ix, f, x)
  BY <1>2 DEF GathersBut
<1>7. g \in [D \ R -> Nat]
  BY <1>5, <1>6
<1>8. GathersBut(ix, R, g)
  BY <1>3, <1>5, <1>6 DEF GathersBut
<1> QED
  BY <1>7, <1>8

LEMMA RollupIs ==
  ASSUME NEW ix, IsTree(ix), NoAgent \notin DOMAIN ix, ix \in [DOMAIN ix -> AgentRecords]
  PROVE  \E up \in [DOMAIN ix -> Nat] :
           \A a \in DOMAIN ix :
             /\ RollupSpent(ix, a) = up[a]
             /\ IsFiniteSet(KidSet(ix, a))
             /\ up[a] = ix[a].spent + Total(up, KidSet(ix, a))
<1> DEFINE D == DOMAIN ix
           Cuts == {rest \in SUBSET D : \E f \in [D \ rest -> Nat] : GathersBut(ix, rest, f)}
<1>1. \A rest \in Cuts : IsFiniteSet(rest)
  BY FS_Subset DEF IsTree
<1>2. D \in Cuts
  <2>1. [x \in D \ D |-> 0] \in [D \ D -> Nat]
    OBVIOUS
  <2> QED
    BY <2>1 DEF GathersBut
<1>3. PICK rest \in Cuts : \A T \in Cuts : Cardinality(rest) <= Cardinality(T)
  <2> HIDE DEF Cuts
  <2> QED
    BY <1>1, <1>2, SmallestSet
<1>4. rest = {}
  <2>1. SUFFICES ASSUME rest # {} PROVE FALSE
    OBVIOUS
  <2>2. PICK f \in [D \ rest -> Nat] : GathersBut(ix, rest, f)
    BY <1>3
  <2>3. PICK a \in rest : \E g \in [D \ (rest \ {a}) -> Nat] : GathersBut(ix, rest \ {a}, g)
    BY <1>3, <2>1, <2>2, GathersOneMore
  <2>4. rest \ {a} \in Cuts
    BY <1>3, <2>3
  <2> QED
    BY <1>1, <1>3, <2>3, <2>4, OneLess
<1>5. \E f \in [D -> Nat] : IsGather(ix, f)
  <2>1. PICK f \in [D -> Nat] : GathersBut(ix, {}, f)
    BY <1>3, <1>4
  <2> QED
    BY <2>1 DEF IsGather, GathersBut
<1> DEFINE up == CHOOSE f : IsGather(ix, f)
<1>6. IsGather(ix, up)
  BY <1>5
<1>7. \A a : RollupSpent(ix, a) = up[a]
  BY DEF RollupSpent, IsGather, Gather
<1> HIDE DEF up
<1>8. \A a \in D : up[a] = Gather(ix, up, a)
  BY <1>6 DEF IsGather
<1>9. \A a \in D : up[a] \in Nat
  <2> DEFINE S == {a \in D : up[a] \notin Nat}
  <2>1. SUFFICES ASSUME S # {} PROVE FALSE
    OBVIOUS
  <2>2. PICK a \in S : KidSet(ix, a) \cap S = {}
    BY <2>1, SomeBottom
  <2>3. \A c \in KidSet(ix, a) : up[c] = up[c] /\ up[c] \in Nat
    BY <2>2 DEF KidSet
  <2>4. Gather(ix, up, a) \in Nat
    BY <2>3, GatherIs
  <2> QED
    BY <1>8, <2>2, <2>4
<1>10. up \in [D -> Nat]
  <2>1. up = [a \in D |-> up[a]]
    BY <1>6 DEF IsGather
  <2> QED
    BY <1>9, <2>1
<1>11. \A a \in D : IsFiniteSet(KidSet(ix, a)) /\ up[a] = ix[a].spent + Total(up, KidSet(ix, a))
  <2>1. \A a \in D : \A c \in KidSet(ix, a) : up[c] = up[c] /\ up[c] \in Nat
    BY <1>9 DEF KidSet
  <2> QED
    BY <1>8, <2>1, GatherIs
<1> QED
  BY <1>7, <1>10, <1>11

\* The subtrees of two siblings, or of two roots, are apart.
LEMMA SubtreesApart ==
  ASSUME NEW ix, IsTree(ix), NoAgent \notin DOMAIN ix, NEW c \in DOMAIN ix, NEW d \in DOMAIN ix,
         ix[c].parent = ix[d].parent, c # d
  PROVE  ({c} \cup Reach(ix, c)) \cap ({d} \cup Reach(ix, d)) = {}
<1> DEFINE D == DOMAIN ix
           S == ({c} \cup Reach(ix, c)) \cap ({d} \cup Reach(ix, d))
<1>1. PICK depth \in [D -> 0..Cardinality(D)] :
        \A x \in D : ix[x].parent # NoAgent => depth[ix[x].parent] < depth[x]
  BY DEF IsTree
<1>2. \A x \in D : depth[x] \in Int
  BY <1>1
<1>3. \A x \in D : \A k \in KidSet(ix, x) : k \in D /\ ix[k].parent = x /\ depth[x] < depth[k]
  BY <1>1, KidsAre
<1> DEFINE a == ix[c].parent
<1>4. c \in D /\ d \in D /\ ix[c].parent = a /\ ix[d].parent = a
  OBVIOUS
<1>5. ASSUME NEW k \in D, NEW x \in Reach(ix, k)
      PROVE  x \in D /\ depth[k] < depth[x] /\ ix[x].parent \in {k} \cup Reach(ix, k)
  <2> DEFINE T == {y \in D : depth[k] < depth[y] /\ ix[y].parent \in {k} \cup Reach(ix, k)}
             U == T \cap Reach(ix, k)
  <2>1. KidSet(ix, k) \subseteq U
    BY <1>3, ReachIs
  <2>2. ASSUME NEW y \in U, NEW z \in KidSet(ix, y) PROVE z \in U
    <3>1. y \in D /\ y \in Reach(ix, k) /\ depth[k] < depth[y]
      OBVIOUS
    <3>2. z \in D /\ ix[z].parent = y /\ depth[y] < depth[z] /\ z \in Reach(ix, k)
      BY <1>3, <3>1, ReachIs
    <3>3. depth[k] < depth[z]
      BY <1>2, <3>1, <3>2
    <3> QED
      BY <3>1, <3>2, <3>3
  <2>3. U \in SUBSET D
    OBVIOUS
  <2>4. x \in U
    <3> HIDE DEF U
    <3> QED
      BY <2>1, <2>2, <2>3 DEF Reach
  <2> QED
    BY <2>4
<1>6. ASSUME S # {} PROVE FALSE
  <2>1. S \in SUBSET D
    BY <1>4 DEF Reach
  <2>2. PICK x \in S : ix[x].parent \notin S
    BY <1>6, <2>1, SomeTop
  <2>3. a \notin D \/ (a \in D /\ depth[a] < depth[c] /\ depth[a] < depth[d])
    BY <1>1, <1>4
  <2>4. a \notin {c} \cup Reach(ix, c) /\ a \notin {d} \cup Reach(ix, d)
    <3>1. CASE a \notin D
      BY <1>4, <3>1 DEF Reach
    <3>2. CASE a \in D
      BY <1>2, <1>4, <1>5, <2>3, <3>2
    <3> QED
      BY <3>1, <3>2
  <2>5. x # c /\ x # d
    BY <1>4, <1>5, <2>2, <2>4
  <2>6. x \in Reach(ix, c) /\ x \in Reach(ix, d)
    BY <2>2, <2>5
  <2>7. ix[x].parent \in S
    BY <1>4, <1>5, <2>6
  <2> QED
    BY <2>2, <2>7
<1> QED
  BY <1>6

\* A sum over the subtrees of siblings, one by one.
LEMMA TotalOverTrees ==
  ASSUME NEW ix, IsTree(ix), NoAgent \notin DOMAIN ix, NEW K \in SUBSET DOMAIN ix,
         \A c, d \in K : ix[c].parent = ix[d].parent,
         NEW S, S = UNION {{c} \cup Reach(ix, c) : c \in K},
         NEW f, \A x \in DOMAIN ix : f[x] \in Nat
  PROVE  Total(f, S) = Total([c \in K |-> f[c] + Total(f, Reach(ix, c))], K)
<1> DEFINE D == DOMAIN ix
           tree(c) == {c} \cup Reach(ix, c)
           m == [x \in S |-> CHOOSE c \in K : x \in tree(c)]
           g == [c \in K |-> f[c] + Total(f, Reach(ix, c))]
<1>1. S \in SUBSET D /\ K \in SUBSET D /\ \A c : Reach(ix, c) \in SUBSET D
  BY DEF Reach
<1>2. IsFiniteSet(S) /\ IsFiniteSet(K) /\ \A c : IsFiniteSet(Reach(ix, c))
  BY <1>1, FS_Subset DEF IsTree
<1>3. \A x \in S : \E c \in K : x \in tree(c)
  OBVIOUS
<1>4. \A c \in K : tree(c) \subseteq S
  OBVIOUS
<1>5. \A x \in S : m[x] \in K /\ x \in tree(m[x])
  BY <1>3
<1>6. \A c, d \in K : c # d => tree(c) \cap tree(d) = {}
  BY SubtreesApart
<1> HIDE DEF m, tree
<1>7. \A c \in K : Part(S, m, c) = tree(c)
  <2> SUFFICES ASSUME NEW c \in K, NEW x \in S PROVE m[x] = c <=> x \in tree(c)
    BY <1>4 DEF Part
  <2> QED
    BY <1>5, <1>6
<1>8. ASSUME NEW c \in K PROVE c \notin Reach(ix, c)
  <2>1. PICK depth \in [D -> 0..Cardinality(D)] :
          \A x \in D : ix[x].parent # NoAgent => depth[ix[x].parent] < depth[x]
    BY DEF IsTree
  <2> DEFINE T == {x \in D : depth[c] < depth[x]}
  <2>2. \A x \in D : depth[x] \in Int
    BY <2>1
  <2>3. \A x \in D : \A k \in KidSet(ix, x) : k \in D /\ depth[x] < depth[k]
    BY <2>1, KidsAre
  <2>4. c \in D
    BY <1>1
  <2>5. KidSet(ix, c) \subseteq T
    BY <2>3, <2>4
  <2>6. \A x \in T : KidSet(ix, x) \subseteq T
    BY <2>2, <2>3, <2>4
  <2>7. c \notin T
    BY <2>2, <2>4
  <2>8. T \in SUBSET D
    OBVIOUS
  <2> HIDE DEF T
  <2> QED
    BY <2>5, <2>6, <2>7, <2>8 DEF Reach
<1>9. ASSUME NEW c \in K PROVE g[c] = Total(f, Part(S, m, c))
  <2>1. Total(f, Reach(ix, c) \cup {c}) = f[c] + Total(f, Reach(ix, c))
    <3>1. \A y \in Reach(ix, c) \cup {c} : f[y] \in Nat
      BY <1>1
    <3> QED
      BY <1>2, <1>8, <3>1, TotalAdd
  <2>2. tree(c) = Reach(ix, c) \cup {c}
    BY DEF tree
  <2> QED
    BY <1>7, <2>1, <2>2
<1> HIDE DEF g
<1>10. \A x \in S : f[x] \in Nat
  BY <1>1
<1>11. \A x \in S : m[x] \in K
  BY <1>5
<1>12. IsFiniteSet(S) /\ IsFiniteSet(K) /\ \A c \in K : g[c] = Total(f, Part(S, m, c))
  BY <1>2, <1>9
<1>13. Total(g, K) = Total(f, S)
  BY ONLY <1>10, <1>11, <1>12, TotalByParts
<1> QED
  BY <1>13 DEF g

\* A sum over what is below an agent, child by child.
LEMMA TotalBelow ==
  ASSUME NEW ix, IsTree(ix), NoAgent \notin DOMAIN ix, NEW a \in DOMAIN ix,
         NEW f, \A x \in DOMAIN ix : f[x] \in Nat
  PROVE  Total(f, Reach(ix, a))
           = Total([c \in KidSet(ix, a) |-> f[c] + Total(f, Reach(ix, c))], KidSet(ix, a))
<1> DEFINE K == KidSet(ix, a)
           S == Reach(ix, a)
<1>1. K \in SUBSET DOMAIN ix /\ \A c, d \in K : ix[c].parent = ix[d].parent
  BY KidsAre
<1>2. S = UNION {{c} \cup Reach(ix, c) : c \in K}
  BY ReachIs
<1> HIDE DEF K, S
<1>3. Total(f, S) = Total([c \in K |-> f[c] + Total(f, Reach(ix, c))], K)
  BY <1>1, <1>2, TotalOverTrees
<1> QED
  BY <1>3 DEF K, S

\* What the revoked of an index had spent, and what the others were given.
Lost(ix) == [b \in DOMAIN ix |-> IF ix[b].status = "revoked" THEN ix[b].spent ELSE 0]
Held(ix) == [b \in DOMAIN ix |-> IF ix[b].status = "revoked" THEN 0 ELSE ix[b].authority]

\* A live agent's subtree spends within its authority and what the revoked below
\* had spent; a revoked one's, what it and they had.
LEMMA SubtreeBound ==
  ASSUME NEW ix, IsTree(ix), NoAgent \notin DOMAIN ix, ix \in [DOMAIN ix -> AgentRecords],
         AuthorityFits(ix), RevokedBelow(ix), NEW a \in DOMAIN ix
  PROVE  /\ RollupSpent(ix, a) <= ix[a].spent + Delegated(ix, a) + Total(Lost(ix), Reach(ix, a))
         /\ RollupSpent(ix, a) <= Held(ix)[a] + Lost(ix)[a] + Total(Lost(ix), Reach(ix, a))
<1> DEFINE D == DOMAIN ix
           lost == Lost(ix)
           granted == Held(ix)
           below(x) == Total(lost, Reach(ix, x))
<1>1. PICK up \in [D -> Nat] :
        \A x \in D : /\ RollupSpent(ix, x) = up[x]
                     /\ IsFiniteSet(KidSet(ix, x))
                     /\ up[x] = ix[x].spent + Total(up, KidSet(ix, x))
  BY RollupIs
<1>2. \A x \in D : ix[x].spent \in Nat /\ ix[x].authority \in Nat
  BY DEF AgentRecords
<1>3. \A x \in D : lost[x] \in Nat /\ granted[x] \in Nat
  BY <1>2 DEF Lost, Held
<1>4. \A x \in D : below(x) \in Nat
  <2> TAKE x \in D
  <2>1. IsFiniteSet(Reach(ix, x)) /\ Reach(ix, x) \subseteq D
    BY FS_Subset DEF IsTree, Reach
  <2> HIDE DEF lost
  <2> QED
    BY <1>3, <2>1, TotalType
<1>5. \A x \in D : KidSet(ix, x) \subseteq D
  BY DEF KidSet
<1>6. ASSUME NEW x \in D,
             \A c \in KidSet(ix, x) : up[c] <= granted[c] + lost[c] + below(c)
      PROVE  /\ up[x] <= ix[x].spent + Delegated(ix, x) + below(x)
             /\ up[x] <= granted[x] + lost[x] + below(x)
  <2> DEFINE K == KidSet(ix, x)
             g == [c \in K |-> lost[c] + below(c)]
             live == LiveKids(ix, x)
             given == [c \in live |-> ix[c].authority]
  <2>2. x \in D /\ K \subseteq D /\ IsFiniteSet(K)
    BY <1>1, <1>5
  <2>3. \A c \in K : /\ up[c] \in Nat /\ granted[c] \in Nat /\ g[c] \in Nat
                     /\ up[c] <= granted[c] + g[c]
    <3> TAKE c \in K
    <3>1. up[c] <= granted[c] + lost[c] + below(c)
      BY <1>6
    <3>2. c \in D /\ up[c] \in Nat /\ granted[c] \in Nat /\ lost[c] \in Nat /\ below(c) \in Nat
      BY <1>3, <1>4, <2>2
    <3>3. g[c] = lost[c] + below(c)
      OBVIOUS
    <3> HIDE DEF g, below, lost, granted
    <3> QED
      BY <3>1, <3>2, <3>3
  <2>4. Total(up, K) <= Total(granted, K) + Total(g, K)
    <3> HIDE DEF g, granted, K
    <3> QED
      BY <2>2, <2>3, TotalWithin
  <2>5. Total(g, K) = below(x)
    <3> HIDE DEF lost
    <3> QED
      BY <1>3, TotalBelow
  <2>6. Total(granted, K) = Delegated(ix, x)
    <3>1. live \subseteq K /\ \A c \in K \ live : granted[c] = 0
      BY <2>2 DEF LiveKids, Held
    <3>2. \A c \in live : granted[c] = given[c]
      BY <2>2 DEF LiveKids, Held
    <3>3. Delegated(ix, x) = Total(given, live) /\ IsFiniteSet(live)
      BY DelegatedIs DEF IsTree
    <3> HIDE DEF K, live, given, granted
    <3>4. Total(granted, K) = Total(granted, live)
      BY <2>2, <2>3, <3>1, TotalNonzero
    <3>5. Total(granted, live) = Total(given, live)
      BY <3>2, <3>3, TotalCongruence
    <3> QED
      BY <3>3, <3>4, <3>5
  <2>7. Delegated(ix, x) \in Nat /\ Total(up, K) \in Nat
    <3>1. Delegated(ix, x) \in Nat
      BY DelegatedIs DEF IsTree
    <3> HIDE DEF K
    <3>2. Total(up, K) \in Nat
      BY <2>2, <2>3, TotalType
    <3> QED
      BY <3>1, <3>2
  <2>8. up[x] <= ix[x].spent + Delegated(ix, x) + below(x)
    <3>1. up[x] = ix[x].spent + Total(up, K)
      BY <1>1, <2>2
    <3>2. below(x) \in Nat /\ ix[x].spent \in Nat
      BY <1>2, <1>4, <2>2
    <3> HIDE DEF below, K
    <3> QED
      BY <2>4, <2>5, <2>6, <2>7, <3>1, <3>2
  <2>9. ix[x].spent + Delegated(ix, x) <= granted[x] + lost[x]
    <3>1. CASE ix[x].status = "revoked"
      <4>1. live = {}
        BY <2>2, <3>1, KidsAre DEF LiveKids, RevokedBelow
      <4>2. Delegated(ix, x) = 0
        BY <4>1, DelegatedIs, TotalEmpty DEF IsTree
      <4>3. granted[x] = 0 /\ lost[x] = ix[x].spent
        BY <2>2, <3>1 DEF Held, Lost
      <4> QED
        BY <1>2, <2>2, <4>2, <4>3
    <3>2. CASE ix[x].status # "revoked"
      <4>1. granted[x] = ix[x].authority /\ lost[x] = 0
        BY <2>2, <3>2 DEF Held, Lost
      <4>2. ix[x].spent + Delegated(ix, x) <= ix[x].authority
        BY <2>2 DEF AuthorityFits
      <4> QED
        BY <1>2, <2>2, <4>1, <4>2
    <3> QED
      BY <3>1, <3>2
  <2>10. up[x] \in Nat /\ granted[x] \in Nat /\ lost[x] \in Nat /\ below(x) \in Nat /\ ix[x].spent \in Nat
    BY <1>2, <1>3, <1>4, <2>2
  <2> HIDE DEF granted, lost, below
  <2> QED
    BY <2>7, <2>8, <2>9, <2>10
<1> DEFINE S == {x \in D : ~ (up[x] <= granted[x] + lost[x] + below(x))}
<1>7. ASSUME S # {} PROVE FALSE
  <2>1. PICK x \in S : KidSet(ix, x) \cap S = {}
    BY <1>7, SomeBottom
  <2>2. \A c \in KidSet(ix, x) : up[c] <= granted[c] + lost[c] + below(c)
    BY <1>5, <2>1
  <2>3. ~ (up[x] <= granted[x] + lost[x] + below(x))
    BY <2>1
  <2> HIDE DEF S, below, granted, lost
  <2> QED
    BY <1>6, <2>2, <2>3 DEF S
<1>8. \A x \in D : up[x] <= granted[x] + lost[x] + below(x)
  BY <1>7
<1> HIDE DEF below, granted, lost
<1>9. /\ up[a] <= ix[a].spent + Delegated(ix, a) + below(a)
      /\ up[a] <= granted[a] + lost[a] + below(a)
  BY <1>5, <1>6, <1>8
<1> QED
  BY <1>1, <1>9 DEF below, granted, lost

LEMMA ClaimsAre == DemoInv => ClaimsFit
<1> SUFFICES ASSUME DemoInv, NEW a \in DOMAIN agents
             PROVE  /\ agents[a].spent + Delegated(agents, a) <= agents[a].authority
                    /\ RollupSpent(agents, a)
                         <= agents[a].authority
                              + Added([b \in {d \in Descendants(agents, a) : agents[d].status = "revoked"} |->
                                         agents[b].spent])
  BY DEF ClaimsFit
<1> DEFINE D == DOMAIN agents
           lost == Lost(agents)
           granted == Held(agents)
           R == Reach(agents, a)
           gone == {d \in Descendants(agents, a) : agents[d].status = "revoked"}
           f == [b \in gone |-> agents[b].spent]
<1>1. /\ IsTree(agents) /\ NoAgent \notin D /\ agents \in [D -> AgentRecords]
      /\ AuthorityFits(agents) /\ RevokedBelow(agents)
  BY NoAgentOutside DEF DemoInv, StoreInv, DemoTypeInv
<1>2. agents[a].spent + Delegated(agents, a) <= agents[a].authority
  BY <1>1 DEF AuthorityFits
<1>3. /\ \A x \in D : agents[x].spent \in Nat /\ agents[x].authority \in Nat
      /\ Delegated(agents, a) \in Nat
  BY <1>1, DelegatedIs DEF AgentRecords, IsTree
<1>4. granted[a] + lost[a] <= agents[a].authority /\ granted[a] \in Nat /\ lost[a] \in Nat
  BY <1>2, <1>3 DEF Held, Lost
<1>5. Descendants(agents, a) = R /\ R \subseteq D /\ IsFiniteSet(R)
  BY <1>1, DescendantsReach, FS_Subset DEF Reach, IsTree
<1>6. /\ gone \subseteq R /\ IsFiniteSet(gone)
      /\ \A x \in R : lost[x] \in Nat
      /\ \A x \in R \ gone : lost[x] = 0
      /\ \A x \in gone : lost[x] = f[x]
  BY <1>3, <1>5, FS_Subset DEF Lost
<1>7. RollupSpent(agents, a) <= granted[a] + lost[a] + Total(lost, R)
  BY <1>1, SubtreeBound
<1>8. Added(f) = Total(f, gone)
  BY AddedIs
<1>9. \E n \in Nat : RollupSpent(agents, a) = n
  BY <1>1, RollupIs
<1> HIDE DEF lost, granted, R, gone, f
<1>10. Total(lost, R) = Total(f, gone) /\ Total(lost, R) \in Nat
  BY <1>5, <1>6, TotalNonzero, TotalCongruence, TotalType
<1>11. RollupSpent(agents, a) <= agents[a].authority + Added(f)
  BY <1>3, <1>4, <1>7, <1>8, <1>9, <1>10
<1> QED
  BY <1>2, <1>11 DEF f, gone

\* store.tsx:245-254, 340-371, 437-446, selectors.ts:71-114.  Whatever the
\* tree and the budgets are: what was spent and handed on stays within each grant,
\* and a subtree outspends its grant by no more than what the revoked in it had
\* spent.
THEOREM GrantsHold == DemoSpec => []ClaimsFit
<1>1. DemoInit => DemoInv
  BY DemoInitInv
<1>2. DemoInv /\ [DemoNext]_demoVars => DemoInv'
  BY DemoStep
<1>3. DemoInv => ClaimsFit
  BY ClaimsAre
<1> QED
  BY <1>1, <1>2, <1>3, PTL DEF DemoSpec

-----------------------------------------------------------------------------
(* The meters, and the log. *)

\* A subtree's spending, and everybody's, is the sum of its agents'.
LEMMA RollupIsSum ==
  ASSUME NEW ix, IsTree(ix), NoAgent \notin DOMAIN ix, ix \in [DOMAIN ix -> AgentRecords],
         NEW f, \A x \in DOMAIN ix : f[x] = ix[x].spent
  PROVE  \A a \in DOMAIN ix : RollupSpent(ix, a) = f[a] + Total(f, Reach(ix, a))
<1> DEFINE D == DOMAIN ix
<1>1. PICK up \in [D -> Nat] :
        \A x \in D : /\ RollupSpent(ix, x) = up[x]
                     /\ IsFiniteSet(KidSet(ix, x))
                     /\ up[x] = ix[x].spent + Total(up, KidSet(ix, x))
  BY RollupIs
<1>2. \A x \in D : f[x] \in Nat
  BY DEF AgentRecords
<1> DEFINE S == {x \in D : up[x] # f[x] + Total(f, Reach(ix, x))}
<1>3. ASSUME S # {} PROVE FALSE
  <2>1. PICK x \in S : KidSet(ix, x) \cap S = {}
    BY <1>3, SomeBottom
  <2> DEFINE K == KidSet(ix, x)
             g == [c \in K |-> f[c] + Total(f, Reach(ix, c))]
  <2>2. x \in D /\ K \subseteq D /\ IsFiniteSet(K)
    BY <1>1 DEF KidSet
  <2>3. \A c \in K : up[c] = g[c]
    BY <2>1, <2>2
  <2>4. Total(f, Reach(ix, x)) = Total(g, K)
    BY <1>2, <2>2, TotalBelow
  <2> HIDE DEF g, K
  <2>5. Total(up, K) = Total(g, K)
    BY <2>2, <2>3, TotalCongruence
  <2>6. up[x] = f[x] + Total(up, K)
    BY <1>1, <2>2 DEF K
  <2> QED
    BY <2>1, <2>4, <2>5, <2>6
<1> QED
  BY <1>1, <1>3

LEMMA RootsSpendAll ==
  ASSUME NEW ix, IsTree(ix), NoAgent \notin DOMAIN ix, ix \in [DOMAIN ix -> AgentRecords],
         NEW f, \A x \in DOMAIN ix : f[x] = ix[x].spent,
         NEW up, \A a \in DOMAIN ix : RollupSpent(ix, a) = up[a]
  PROVE  Total(f, DOMAIN ix) = Total(up, RootAgents(ix))
<1> DEFINE D == DOMAIN ix
           K == RootAgents(ix)
           g == [c \in K |-> f[c] + Total(f, Reach(ix, c))]
           U == UNION {{c} \cup Reach(ix, c) : c \in K}
<1>1. K \in SUBSET D /\ \A c, d \in K : ix[c].parent = ix[d].parent
  BY DEF RootAgents
<1>2. \A x \in D : f[x] \in Nat
  BY DEF AgentRecords
<1>3. D = U
  <2>1. U \subseteq D
    BY <1>1 DEF Reach
  <2>2. ASSUME D \ U # {} PROVE FALSE
    <3>1. PICK x \in D \ U : ix[x].parent \notin D \ U
      BY <2>2, SomeTop
    <3>2. CASE ix[x].parent \in D
      <4>1. PICK c \in K : ix[x].parent \in {c} \cup Reach(ix, c)
        BY <3>1, <3>2
      <4>2. x \in KidSet(ix, ix[x].parent)
        BY <3>1, <3>2, KidsAre
      <4>3. x \in Reach(ix, c)
        BY <4>1, <4>2, ReachIs
      <4> QED
        BY <3>1, <4>3
    <3>3. CASE ix[x].parent \notin D
      <4>1. x \in K
        BY <3>1, <3>3, KidsAre DEF RootAgents
      <4> QED
        BY <3>1, <4>1
    <3> QED
      BY <3>2, <3>3
  <2> QED
    BY <2>1, <2>2
<1>4. Total(f, D) = Total(g, K)
  <2> HIDE DEF K
  <2>1. PICK S : S = UNION {{c} \cup Reach(ix, c) : c \in K}
    OBVIOUS
  <2>2. Total(f, S) = Total(g, K)
    BY <1>1, <1>2, <2>1, TotalOverTrees
  <2> QED
    BY <1>3, <2>1, <2>2
<1>5. IsFiniteSet(K) /\ \A c \in K : g[c] = up[c]
  BY <1>1, RollupIsSum, FS_Subset DEF IsTree
<1> HIDE DEF g, K
<1>6. Total(g, K) = Total(up, K)
  BY <1>5, TotalCongruence
<1> QED
  BY <1>4, <1>6 DEF K

LEMMA TotalsMatch ==
  ASSUME DemoInv
  PROVE  Overview.totals.spent
           = Added([r \in RootAgents(agents) |->
                      agents[r].spent
                        + Added([c \in KidSet(agents, r) \cap DOMAIN Overview.byAgent |->
                                   Overview.byAgent[c]])])
<1> DEFINE D == DOMAIN agents
           f == [a \in D |-> agents[a].spent]
           by == SpendByAgent(agents)
           roots == RootAgents(agents)
           listed(r) == KidSet(agents, r) \cap DOMAIN by
           credit(r) == [c \in listed(r) |-> by[c]]
           h == [r \in roots |-> agents[r].spent + Added(credit(r))]
<1>1. IsTree(agents) /\ NoAgent \notin D /\ agents \in [D -> AgentRecords]
  BY NoAgentOutside DEF DemoInv, StoreInv, DemoTypeInv
<1>2. PICK up \in [D -> Nat] :
        \A x \in D : /\ RollupSpent(agents, x) = up[x]
                     /\ IsFiniteSet(KidSet(agents, x))
                     /\ up[x] = agents[x].spent + Total(up, KidSet(agents, x))
  BY <1>1, RollupIs
<1>3. Overview.totals.spent = Added(f) /\ Overview.byAgent = by
  BY DEF Overview, PortfolioTotals
<1>4. Added(f) = Total(f, D)
  BY AddedIs
<1>5. Total(f, D) = Total(up, roots)
  <2>1. \A x \in D : f[x] = agents[x].spent
    OBVIOUS
  <2> HIDE DEF f
  <2> QED
    BY <1>1, <1>2, <2>1, RootsSpendAll
<1>6. ASSUME NEW r \in roots PROVE h[r] = up[r]
  <2> DEFINE K == KidSet(agents, r)
             T == listed(r)
             g == credit(r)
  <2>1. r \in D /\ K \subseteq D /\ IsFiniteSet(K) /\ \A c \in K : agents[c].parent # NoAgent
    <3>1. r \in D /\ K \subseteq D
      BY DEF RootAgents, KidSet
    <3>2. \A c \in K : agents[c].parent = r
      BY <1>1, <3>1, KidsAre
    <3> QED
      BY <1>1, <1>2, <3>1, <3>2
  <2>2. /\ T \in SUBSET K /\ IsFiniteSet(T)
        /\ \A c \in K : up[c] \in Nat
        /\ \A c \in K \ T : up[c] = 0
        /\ \A c \in T : up[c] = g[c]
    <3>1. DOMAIN by = {b \in D : agents[b].parent # NoAgent /\ RollupSpent(agents, b) > 0}
          /\ \A b \in DOMAIN by : by[b] = RollupSpent(agents, b)
      BY DEF SpendByAgent
    <3>2. IsFiniteSet(T)
      BY <2>1, FS_Subset
    <3> HIDE DEF by
    <3> QED
      BY <1>2, <2>1, <3>1, <3>2
  <2>3. Added(g) = Total(g, T)
    BY AddedIs
  <2>4. h[r] = agents[r].spent + Added(g)
    OBVIOUS
  <2> HIDE DEF K, T, g, h
  <2>5. Total(up, K) = Total(g, T)
    BY <2>1, <2>2, TotalNonzero, TotalCongruence
  <2> QED
    BY <1>2, <2>1, <2>3, <2>4, <2>5 DEF K
<1>7. IsFiniteSet(roots)
  BY <1>1, FS_Subset DEF IsTree, RootAgents
<1>8. Added(h) = Total(h, roots)
  BY AddedIs
<1> HIDE DEF h, roots, f
<1>9. Total(h, roots) = Total(up, roots)
  BY <1>6, <1>7, TotalCongruence
<1>10. Overview.totals.spent = Added(h)
  BY <1>3, <1>4, <1>5, <1>8, <1>9
<1> QED
  BY <1>3, <1>10 DEF h, roots

\* The legend and the bar of a card.
LEMMA CardAddsUp ==
  ASSUME DemoInv, NEW a \in DOMAIN agents,
         \A b \in Descendants(agents, a) : agents[b].status = "revoked" => agents[b].spent = 0
  PROVE  LET card == Headline(a)
         IN /\ card.legend[1] + card.legend[2] + card.legend[3] = agents[a].authority
            /\ card.bar = <<card.legend[1], card.legend[2]>>
<1> DEFINE D == DOMAIN agents
           lost == Lost(agents)
           R == Reach(agents, a)
           n == RollupSpent(agents, a)
           W == agents[a].authority
           stats == StatsFor(agents, a)
<1>1. /\ IsTree(agents) /\ NoAgent \notin D /\ agents \in [D -> AgentRecords]
      /\ AuthorityFits(agents) /\ RevokedBelow(agents) /\ StoreInv
  BY NoAgentOutside DEF DemoInv, StoreInv, DemoTypeInv
<1>2. /\ Delegated(agents, a) \in Nat /\ W \in Nat /\ agents[a].spent \in Nat
      /\ stats.available = W - agents[a].spent - Delegated(agents, a)
      /\ stats.available \in Nat
  BY <1>1, AvailableIs
<1>3. n \in Nat
  BY <1>1, RollupIs
<1>4. Total(lost, R) = 0
  <2>1. R \subseteq D /\ IsFiniteSet(R) /\ Descendants(agents, a) = R
    BY <1>1, DescendantsReach, FS_Subset DEF Reach, IsTree
  <2>2. \A x \in R : lost[x] = 0
    BY <2>1 DEF Lost
  <2> HIDE DEF lost, R
  <2>3. Total(lost, R) = Total(lost, {})
    BY <2>1, <2>2, TotalNonzero
  <2> QED
    BY <2>3, TotalEmpty
<1>5. n <= agents[a].spent + Delegated(agents, a) + Total(lost, R)
  BY <1>1, SubtreeBound
<1>6. /\ stats.spent = n
      /\ stats.reserved = Positive(W - n - stats.available)
  BY DEF StatsFor
<1> DEFINE free == stats.available
           kept == stats.reserved
<1> HIDE DEF n, W, stats, lost, R
<1>7. n + free <= W
  BY <1>2, <1>3, <1>4, <1>5
<1>8. kept = W - n - free /\ kept \in Nat
  BY <1>2, <1>3, <1>6, <1>7 DEF Positive
<1>9. Min({n, W}) = n /\ Min({W - n, kept}) = kept
  <2>1. \A x, y \in Int : x <= y => Min({x, y}) = x /\ Min({y, x}) = x
    <3> SUFFICES ASSUME NEW x \in Int, NEW y \in Int, x <= y
                 PROVE  Min({x, y}) = x /\ Min({y, x}) = x
      OBVIOUS
    <3>1. \A z \in {x, y} : (\A w \in {x, y} : z <= w) => z = x
      OBVIOUS
    <3>2. \A w \in {x, y} : x <= w
      OBVIOUS
    <3>3. {y, x} = {x, y}
      OBVIOUS
    <3> QED
      BY <3>1, <3>2, <3>3 DEF Min
  <2> QED
    BY <1>2, <1>3, <1>7, <1>8, <2>1
<1>10. /\ Headline(a).legend = <<stats.spent, kept, free>>
       /\ Headline(a).bar = <<Min({stats.spent, W}), Min({W - Min({stats.spent, W}), kept})>>
  BY DEF Headline, stats, W
<1>11. /\ Headline(a).legend = <<n, kept, free>>
       /\ Headline(a).bar = <<n, kept>>
  BY <1>6, <1>9, <1>10
<1> QED
  BY <1>2, <1>3, <1>8, <1>11 DEF W

Approved(e, a) == IF e.kind = "approved" /\ e.agent = a THEN e.amount ELSE 0

LEMMA LogIs ==
  ASSUME NEW s \in Seq(EventRecords), NEW a
  PROVE  LET A == ApprovedFor(s, {a})
             f == [i \in A |-> s[i].amount]
         IN /\ A \subseteq 1..Len(s) /\ IsFiniteSet(A) /\ f \in [A -> Nat]
            /\ SpentSince(s, {a}, 0) = Total(f, A)
<1> DEFINE A == ApprovedFor(s, {a})
           f == [i \in A |-> s[i].amount]
<1>1. \A i \in 1..Len(s) : s[i].amount \in Nat /\ s[i].at \in Nat
  <2>1. \A i \in 1..Len(s) : s[i] \in EventRecords
    OBVIOUS
  <2> QED
    BY <2>1 DEF EventRecords
<1>2. DOMAIN s = 1..Len(s) /\ Len(s) \in Nat
  OBVIOUS
<1>3. A \subseteq 1..Len(s)
  BY <1>2 DEF ApprovedFor
<1>6. SpentSince(s, {a}, 0) = Added([i \in {j \in A : s[j].at >= 0} |-> s[i].amount])
  BY DEF SpentSince
<1> HIDE DEF A
<1>4. IsFiniteSet(A)
  <2>1. IsFiniteSet(1..Len(s))
    BY <1>2, FS_Interval
  <2> QED
    BY <1>3, <2>1, FS_Subset
<1>5. {j \in A : s[j].at >= 0} = A
  <2>1. \A j \in A : s[j].at \in Nat
    BY <1>1, <1>3
  <2>2. \A j \in A : s[j].at >= 0
    BY <2>1
  <2> QED
    BY <2>2, Zenon
<1>7. SpentSince(s, {a}, 0) = Added(f)
  BY <1>5, <1>6
<1>8. Added(f) = Total(f, A) /\ f \in [A -> Nat]
  BY <1>1, <1>3, AddedIs
<1> QED
  BY <1>3, <1>4, <1>7, <1>8 DEF A

\* Only an approved payment of the agent's adds to what its log says.
LEMMA LogAddsUp ==
  ASSUME NEW s \in Seq(EventRecords), NEW e \in EventRecords, NEW a
  PROVE  SpentSince(<<e>> \o s, {a}, 0) = SpentSince(s, {a}, 0) + Approved(e, a)
<1> DEFINE t == <<e>> \o s
           A == ApprovedFor(s, {a})
           B == ApprovedFor(t, {a})
           f == [i \in A |-> s[i].amount]
           g == [i \in B |-> t[i].amount]
           shifted == {i + 1 : i \in A}
           m == [i \in A |-> i + 1]
<1>1. /\ t \in Seq(EventRecords) /\ DOMAIN t = 1..(Len(s) + 1) /\ DOMAIN s = 1..Len(s) /\ Len(s) \in Nat
      /\ t[1] = e /\ \A i \in 1..Len(s) : t[i + 1] = s[i]
  <2>1. <<e>> \in Seq(EventRecords) /\ Len(<<e>>) = 1 /\ <<e>>[1] = e
    OBVIOUS
  <2>2. t \in Seq(EventRecords) /\ Len(t) = 1 + Len(s)
    BY <2>1, ConcatProperties
  <2> QED
    BY <2>1, <2>2
<1>2. /\ A \subseteq 1..Len(s) /\ IsFiniteSet(A) /\ f \in [A -> Nat]
      /\ SpentSince(s, {a}, 0) = Total(f, A)
  BY LogIs
<1>3. IsFiniteSet(B) /\ g \in [B -> Nat] /\ SpentSince(t, {a}, 0) = Total(g, B)
  <2> HIDE DEF t
  <2> QED
    BY <1>1, LogIs
<1>4. \A i \in 1..Len(s) : i \in A <=> i + 1 \in B
  BY <1>1 DEF ApprovedFor
<1>5. 1 \in B <=> e.kind = "approved" /\ e.agent = a
  BY <1>1 DEF ApprovedFor
<1>6. B \subseteq 1..(Len(s) + 1)
  BY <1>1 DEF ApprovedFor
<1>7. \A i \in A : g[i + 1] = f[i] /\ i + 1 \in B
  BY <1>1, <1>2, <1>4
<1>8. 1 \in B => g[1] = e.amount
  BY <1>1
<1> HIDE DEF A, B, f, g, t
<1>9. shifted = B \ {1}
  <2>1. \A y \in B \ {1} : y - 1 \in 1..Len(s) /\ y = (y - 1) + 1
    BY <1>1, <1>6
  <2>2. \A i \in A : i + 1 # 1
    BY <1>2
  <2>3. \A y \in B \ {1} : y \in shifted
    BY <1>4, <2>1
  <2> QED
    BY <1>7, <2>2, <2>3
<1>10. IsFiniteSet(shifted)
  BY <1>3, <1>9, FS_Subset
<1>11. Total(g, shifted) = Total(f, A)
  <2>1. \A y \in shifted : g[y] = Total(f, Part(A, m, y))
    <3> SUFFICES ASSUME NEW i \in A PROVE g[i + 1] = Total(f, Part(A, m, i + 1))
      OBVIOUS
    <3>1. Part(A, m, i + 1) = {i}
      <4>1. \A x \in A : m[x] = x + 1 /\ x \in Int
        BY <1>2
      <4> QED
        BY <4>1 DEF Part
    <3>2. {} \cup {i} = {i} /\ IsFiniteSet({}) /\ f[i] \in Nat
      BY <1>2, FS_EmptySet
    <3>3. Total(f, {} \cup {i}) = f[i] + Total(f, {})
      BY <3>2, TotalAdd
    <3>4. Total(f, {i}) = f[i]
      BY <3>2, <3>3, TotalEmpty
    <3> QED
      BY <1>7, <3>1, <3>4
  <2>2. \A i \in A : m[i] \in shifted
    OBVIOUS
  <2>3. IsFiniteSet(A) /\ \A i \in A : f[i] \in Nat
    BY <1>2
  <2> HIDE DEF m, shifted
  <2> QED
    BY ONLY <1>10, <2>1, <2>2, <2>3, TotalByParts
<1> HIDE DEF shifted, m
<1>12. SpentSince(s, {a}, 0) = Total(f, A) /\ SpentSince(t, {a}, 0) = Total(g, B)
  BY <1>2, <1>3
<1>13. ASSUME 1 \in B PROVE SpentSince(t, {a}, 0) = SpentSince(s, {a}, 0) + Approved(e, a)
  <2>1. Total(g, B) = g[1] + Total(g, B \ {1})
    BY <1>3, <1>13, TotalTake
  <2>2. Approved(e, a) = g[1] /\ g[1] \in Nat
    BY <1>3, <1>5, <1>8, <1>13 DEF Approved
  <2>3. Total(f, A) \in Nat
    BY <1>2, TotalType
  <2>4. Total(g, B) = g[1] + Total(f, A)
    BY <1>9, <1>11, <2>1
  <2> QED
    BY <1>12, <2>2, <2>3, <2>4
<1>14. ASSUME 1 \notin B PROVE SpentSince(t, {a}, 0) = SpentSince(s, {a}, 0) + Approved(e, a)
  <2>1. shifted = B
    BY <1>9, <1>14
  <2>2. Approved(e, a) = 0
    BY <1>5, <1>14 DEF Approved
  <2>3. Total(f, A) \in Nat
    BY <1>2, TotalType
  <2>4. Total(g, B) = Total(f, A)
    BY <1>11, <2>1
  <2> QED
    BY <1>12, <2>2, <2>3, <2>4
<1> QED
  BY <1>13, <1>14 DEF t

LEMMA LogKept ==
  ASSUME NEW ix, NEW jx, NEW s \in Seq(EventRecords), NEW e \in EventRecords, LogFits(ix, s),
         DOMAIN ix \subseteq DOMAIN jx, e.agent \in DOMAIN ix,
         \A a \in DOMAIN ix : jx[a].spent = ix[a].spent + Approved(e, a),
         \A a \in DOMAIN jx \ DOMAIN ix : jx[a].spent = 0
  PROVE  LogFits(jx, <<e>> \o s)
<1> DEFINE t == <<e>> \o s
<1>1. /\ DOMAIN t = 1..(Len(s) + 1) /\ DOMAIN s = 1..Len(s) /\ Len(s) \in Nat
      /\ t[1] = e /\ \A i \in 1..Len(s) : t[i + 1] = s[i]
  <2>1. <<e>> \in Seq(EventRecords) /\ Len(<<e>>) = 1 /\ <<e>>[1] = e
    OBVIOUS
  <2>2. t \in Seq(EventRecords) /\ Len(t) = 1 + Len(s)
    BY <2>1, ConcatProperties
  <2> QED
    BY <2>1, <2>2
<1>2. \A i \in DOMAIN s : s[i].agent \in DOMAIN ix
  BY DEF LogFits
<1> HIDE DEF t
<1>3. ASSUME NEW i \in DOMAIN t PROVE t[i].agent \in DOMAIN jx
  <2>1. CASE i = 1
    BY <1>1, <2>1
  <2>2. CASE i # 1
    <3>1. i - 1 \in 1..Len(s) /\ i = (i - 1) + 1
      BY <1>1, <2>2
    <3>2. t[i] = s[i - 1]
      BY <1>1, <3>1
    <3> QED
      BY <1>1, <1>2, <3>1, <3>2
  <2> QED
    BY <2>1, <2>2
<1>4. ASSUME NEW a \in DOMAIN jx PROVE jx[a].spent = SpentSince(t, {a}, 0)
  <2>1. SpentSince(t, {a}, 0) = SpentSince(s, {a}, 0) + Approved(e, a)
    BY LogAddsUp DEF t
  <2>2. CASE a \in DOMAIN ix
    BY <2>1, <2>2 DEF LogFits
  <2>3. CASE a \notin DOMAIN ix
    <3>1. ApprovedFor(s, {a}) = {}
      BY <1>2, <2>3 DEF ApprovedFor
    <3>2. SpentSince(s, {a}, 0) = 0
      BY <3>1, LogIs, TotalEmpty
    <3>3. Approved(e, a) = 0
      BY <2>3 DEF Approved
    <3> QED
      BY <2>1, <2>3, <3>2, <3>3
  <2> QED
    BY <2>2, <2>3
<1> QED
  BY <1>3, <1>4 DEF LogFits, t

LEMMA LogStep == DemoInv /\ LogFits(agents, events) /\ [DemoNext]_demoVars => LogFits(agents, events)'
<1> SUFFICES ASSUME DemoInv, LogFits(agents, events), [DemoNext]_demoVars
             PROVE  LogFits(agents', events')
  OBVIOUS
<1>1. /\ StoreInv /\ DemoTypeInv /\ IsTree(agents) /\ now \in Nat
      /\ DOMAIN agents \subseteq Ids /\ events \in Seq(EventRecords)
      /\ form \in Forms /\ form.draft \in Drafts /\ (form.open => form.draft.parent \in DOMAIN agents)
      /\ \A a \in DOMAIN agents : agents[a].spent \in Nat
  BY DEF DemoInv, StoreInv, DemoTypeInv, Forms, AgentRecords
<1>2. ASSUME UNCHANGED <<agents, events>> PROVE LogFits(agents', events')
  BY <1>2
<1>3. ASSUME NEW a \in DOMAIN agents, NEW amount \in Nat,
             NEW kind \in {"created", "delegated", "revoked", "approved", "blocked"}
      PROVE  /\ Happened(kind, a, amount) \in EventRecords
             /\ Happened(kind, a, amount).agent = a
             /\ \A b : Approved(Happened(kind, a, amount), b)
                         = IF kind = "approved" /\ b = a THEN amount ELSE 0
  BY <1>1 DEF Happened, EventRecords, Approved
<1>4. ASSUME NEW a \in DOMAIN agents, RevokeNow(a) PROVE LogFits(agents', events')
  <2> DEFINE e == Happened("revoked", a, 0)
  <2>1. /\ agents' = [b \in DOMAIN agents |->
                       IF b \in Doomed(a) THEN [agents[b] EXCEPT !.status = "revoked"] ELSE agents[b]]
        /\ events' = <<e>> \o events
    BY <1>4 DEF RevokeNow, RevokeAgent
  <2>2. e \in EventRecords /\ e.agent = a /\ \A b : Approved(e, b) = 0
    BY <1>3
  <2>3. DOMAIN agents' = DOMAIN agents /\ \A b \in DOMAIN agents : agents'[b].spent = agents[b].spent
    <3>1. \A b \in DOMAIN agents : agents[b] \in AgentRecords
      BY <1>1 DEF DemoTypeInv
    <3> QED
      BY <2>1, <3>1 DEF AgentRecords
  <2> HIDE DEF e
  <2>4. \A b \in DOMAIN agents : agents'[b].spent = agents[b].spent + Approved(e, b)
    BY <1>1, <2>2, <2>3
  <2> QED
    BY <1>1, <2>1, <2>2, <2>3, <2>4, LogKept
<1>5. ASSUME NEW a \in DOMAIN agents, NEW x \in DemoAmounts, PayNow(a, x)
      PROVE  LogFits(agents', events')
  <2>1. RequestPayment(a, x, ServiceOf(a)) /\ x \in Nat
    BY <1>5, AppAssumption DEF PayNow
  <2>2. CASE Breaches(a, x, ServiceOf(a)) = {}
    <3> DEFINE e == Happened("approved", a, x)
    <3>1. agents' = [agents EXCEPT ![a].spent = @ + x] /\ events' = <<e>> \o events
      BY <2>1, <2>2 DEF RequestPayment, Charge
    <3>2. e \in EventRecords /\ e.agent = a /\ \A b : Approved(e, b) = IF b = a THEN x ELSE 0
      BY <1>3, <2>1
    <3>3. DOMAIN agents' = DOMAIN agents
          /\ \A b \in DOMAIN agents : agents'[b].spent = IF b = a THEN agents[b].spent + x ELSE agents[b].spent
      <4>1. \A b \in DOMAIN agents : agents[b] \in AgentRecords
        BY <1>1 DEF DemoTypeInv
      <4>2. agents \in [DOMAIN agents -> AgentRecords]
        BY <1>1 DEF DemoTypeInv
      <4> QED
        BY <3>1, <4>1, <4>2 DEF AgentRecords
    <3> HIDE DEF e
    <3>4. \A b \in DOMAIN agents : agents'[b].spent = agents[b].spent + Approved(e, b)
      BY <1>1, <3>2, <3>3
    <3> QED
      BY <1>1, <3>1, <3>2, <3>3, <3>4, LogKept
  <2>3. CASE Breaches(a, x, ServiceOf(a)) # {}
    <3> DEFINE e == Happened("blocked", a, x)
    <3>1. agents' = agents /\ events' = <<e>> \o events
      BY <2>1, <2>3 DEF RequestPayment
    <3>2. e \in EventRecords /\ e.agent = a /\ \A b : Approved(e, b) = 0
      BY <1>3, <2>1
    <3> HIDE DEF e
    <3>3. \A b \in DOMAIN agents : agents'[b].spent = agents[b].spent + Approved(e, b)
      BY <1>1, <3>1, <3>2
    <3> QED
      BY <1>1, <3>1, <3>2, <3>3, LogKept
  <2> QED
    BY <2>2, <2>3
<1>6. CASE Submit
  <2>1. CASE UNCHANGED demoVars
    BY <1>2, <2>1 DEF demoVars, storeVars
  <2>2. CASE ~ UNCHANGED demoVars
    <3> DEFINE d == form.draft
               id == CHOOSE i \in Ids \ DOMAIN agents : TRUE
               p == d.parent
               e1 == Happened("delegated", p, d.authority)
               e2 == Happened("created", p, 0)
    <3>1. form.open /\ CreateAgent(d, id)
      BY <1>6, <2>2 DEF Submit
    <3>2. d \in Drafts /\ p \in DOMAIN agents /\ d.authority \in Nat
      BY <1>1, <3>1 DEF Drafts
    <3> HIDE DEF id, d, p
    <3>3. /\ id \notin DOMAIN agents
          /\ agents' = [a \in DOMAIN agents \cup {id} |->
                          IF a = id THEN NewAgent(d)
                          ELSE IF a = p THEN [agents[a] EXCEPT !.children = Append(@, id)]
                          ELSE agents[a]]
          /\ events' = <<e1, e2>> \o events
      BY <3>1 DEF CreateAgent, p
    <3>4. /\ e1 \in EventRecords /\ e1.agent = p /\ \A b : Approved(e1, b) = 0
          /\ e2 \in EventRecords /\ e2.agent = p /\ \A b : Approved(e2, b) = 0
      BY <1>3, <3>2
    <3>5. NewAgent(d).spent = 0
      BY DEF NewAgent
    <3>6. /\ DOMAIN agents' = DOMAIN agents \cup {id}
          /\ \A a \in DOMAIN agents : agents'[a].spent = agents[a].spent
          /\ agents'[id].spent = 0
      <4>1. \A a \in DOMAIN agents : agents[a] \in AgentRecords
        BY <1>1 DEF DemoTypeInv
      <4> QED
        BY <3>3, <3>5, <4>1 DEF AgentRecords
    <3> HIDE DEF e1, e2
    <3>7. LogFits(agents', <<e2>> \o events)
      <4>1. \A a \in DOMAIN agents : agents'[a].spent = agents[a].spent + Approved(e2, a)
        BY <1>1, <3>4, <3>6
      <4>2. \A a \in DOMAIN agents' \ DOMAIN agents : agents'[a].spent = 0
        BY <3>6
      <4> QED
        BY <1>1, <3>2, <3>4, <3>6, <4>1, <4>2, LogKept
    <3>8. <<e2>> \o events \in Seq(EventRecords) /\ events' = <<e1>> \o (<<e2>> \o events)
      <4>1. <<e1>> \in Seq(EventRecords) /\ <<e2>> \in Seq(EventRecords)
        BY <3>4
      <4>2. <<e1>> \o <<e2>> = <<e1, e2>>
        <5> DEFINE u == <<e1>> \o <<e2>>
                   v == <<e1, e2>>
        <5>1. /\ u \in Seq(EventRecords) /\ Len(u) = 2 /\ u[1] = e1 /\ u[2] = e2
          BY <4>1, ConcatProperties
        <5>2. /\ v \in Seq(EventRecords) /\ Len(v) = 2 /\ v[1] = e1 /\ v[2] = e2
          BY <3>4
        <5> HIDE DEF u, v
        <5>3. \A i \in 1..Len(u) : u[i] = v[i]
          BY <5>1, <5>2
        <5>4. u = v
          BY <5>1, <5>2, <5>3, SeqEqual
        <5> QED
          BY <5>4 DEF u, v
      <4>3. (<<e1>> \o <<e2>>) \o events = <<e1>> \o (<<e2>> \o events)
        BY <1>1, <4>1, ConcatAssociative
      <4> QED
        BY <1>1, <3>3, <4>1, <4>2, <4>3, ConcatProperties
    <3>9. \A a \in DOMAIN agents' : agents'[a].spent = agents'[a].spent + Approved(e1, a)
      BY <1>1, <3>4, <3>6
    <3>10. e1.agent \in DOMAIN agents'
      BY <3>2, <3>4, <3>6
    <3> QED
      BY <3>4, <3>7, <3>8, <3>9, <3>10, LogKept
  <2> QED
    BY <2>1, <2>2
<1>7. CASE UNCHANGED storeVars
  BY <1>2, <1>7 DEF storeVars
<1>8. CASE Wait
  BY <1>2, <1>8 DEF Wait, Tick
<1>9. UNCHANGED demoVars \/ CloseForm \/ Patch \/ GoTo \/ (\E a \in DOMAIN agents : OpenForm(a))
        => UNCHANGED storeVars
  BY DEF demoVars, CloseForm, Patch, GoTo, OpenForm
<1> QED
  BY <1>4, <1>5, <1>6, <1>7, <1>8, <1>9 DEF DemoNext

\* store.tsx:437-451, selectors.ts:71-143, 205-262.  Whatever the tree and however
\* long the log: each agent's meter is the sum of its approved payments, a card's
\* three figures sum to its authority, and the overview's total is the sum of what
\* it lists.
THEOREM MetersHold == DemoSpec => []MetersMatchLog
<1>1. DemoInit => DemoInv /\ LogFits(agents, events)
  BY DemoInitInv, SeedAssumption DEF DemoInit, StoreInit
<1>2. DemoInv /\ LogFits(agents, events) /\ [DemoNext]_demoVars
        => DemoInv' /\ LogFits(agents, events)'
  BY DemoStep, LogStep
<1>3. DemoInv /\ LogFits(agents, events) => MetersMatchLog
  BY TotalsMatch, CardAddsUp DEF MetersMatchLog, LogFits
<1> QED
  BY <1>1, <1>2, <1>3, PTL DEF DemoSpec
=============================================================================
