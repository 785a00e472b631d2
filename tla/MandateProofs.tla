---------------------------- MODULE MandateProofs ----------------------------
(***************************************************************************)
(* Theorems about MandateTree for every depth, policy, price, spending and *)
(* number of changes to the tree: types, that an approval held hop by hop, *)
(* and what a refusal's blame rests on.                                    *)
(***************************************************************************)
EXTENDS MandateTree, TLAPS

\* Reads that failed and count as an absent record.
Missed(n) == IF n \in failed THEN {<<"assets", "unset">>} ELSE {}

\* Nothing that resolve() reports of n is made up.
Unresolved(n) ==
  \/ n \in failed
  \/ <<"expiry", 0>> \in was[n]
  \/ <<"resolver", FALSE>> \in was[n]
  \/ \E f \in was[n] : f[2] = Unset
  \/ \E m \in 1..(n - 1) : <<"linked", FALSE>> \in was[m]

Lapsed(n) == \E f \in was[n] : f[1] = "expiry" /\ f[2] <= now

\* What is known about a hop while it is resolved.
HopInv(n) ==
  /\ Facts(n) \subseteq was[n]
  /\ got[n] \subseteq was[n] \cup Missed(n)
  /\ reached[n] <= n
  /\ \A m \in 1..(reached[n] - 1) : <<"linked", TRUE>> \in was[m]
  /\ stage[n] = "gone" => reached[n] < n /\ <<"linked", FALSE>> \in was[reached[n]]
  /\ stage[n] \in {"entry", "records"} => reached[n] = n
  /\ stage[n] = "records" => \E f \in got[n] : f[1] = "expiry"
  /\ stage[n] = "done" =>
       \/ /\ answer[n].kind = "ok"
          /\ \A k \in TextKeys \cup {"expiry"} : \E f \in got[n] : f[1] = k
          /\ \A f \in got[n] : f[1] \in {"budget", "maxPerCall"} => f[2] # Unset
          /\ backend = "ens" => reached[n] = n
       \/ answer[n] = [kind |-> "unresolvable", node |-> n] /\ Unresolved(n)
       \/ answer[n] = [kind |-> "expiry", node |-> n] /\ Lapsed(n)
       \/ \E m \in 1..(n - 1) :
            /\ answer[n] = [kind |-> "expiry", node |-> m]
            /\ <<"linked", FALSE>> \in was[m]

EvalInv == agent # 0 => \A n \in Levels : HopInv(n)

IdleInv == agent = 0 => \A n \in Levels :
  stage[n] = "idle" /\ reached[n] = 1 /\ got[n] = {}

\* A mock node is there with all its limits, or not at all.
MockInv == backend = "mock" => \A n \in Levels :
  policy[n].budget # Unset => policy[n].maxPerCall # Unset

IInv == TypeOK /\ EvalInv /\ IdleInv /\ MockInv

-----------------------------------------------------------------------------
(* Types. *)

\* What a call can return has the type of a fact.
LEMMA FactsTyped ==
  ASSUME NEW e \in Nat, NEW alive \in BOOLEAN, NEW link \in BOOLEAN, NEW p \in Policy
  PROVE  {<<"expiry", e>>, <<"resolver", alive>>, <<"linked", link>>}
           \cup {<<k, p[k]>> : k \in TextKeys} \subseteq Fact
<1>1. p.budget \in Nat \cup {Unset} /\ p.maxPerCall \in Nat \cup {Unset}
  BY DEF Policy
<1>2. p.assets \in {"unset", "listed", "other"}
  BY DEF Policy
<1>3. ASSUME NEW k \in TextKeys PROVE <<k, p[k]>> \in Fact
  <2>1. CASE k = "budget"
    BY <1>1, <2>1 DEF Fact
  <2>2. CASE k = "maxPerCall"
    BY <1>1, <2>2 DEF Fact
  <2>3. CASE k = "assets"
    BY <1>2, <2>3 DEF Fact
  <2> QED
    BY <2>1, <2>2, <2>3 DEF TextKeys
<1>4. <<"expiry", e>> \in Fact
  BY DEF Fact
<1>5. <<"resolver", alive>> \in Fact /\ <<"linked", link>> \in Fact
  BY DEF Fact
<1> QED
  BY <1>3, <1>4, <1>5

\* The records the script writes and the empty ones are policies.
LEMMA PoliciesTyped ==
  /\ NoPolicy \in Policy
  /\ \A p \in Policy : [p EXCEPT !.assets = "unset"] \in Policy
BY DEF NoPolicy, Policy

\* Types are right at the start.
LEMMA TypeInit == Init => TypeOK
<1> SUFFICES ASSUME Init PROVE TypeOK
  OBVIOUS
<1> USE TreeAssumption DEF Init, Levels
<1>1. PICK d \in Deployments :
        /\ expiry = [n \in Levels |-> IF backend = "ens" /\ n <= d THEN Term[n] ELSE 0]
        /\ linked = [n \in Levels |-> backend = "ens" /\ n < d]
        /\ policy = [n \in Levels |-> IF backend = "ens" /\ n <= d THEN Grant[n] ELSE NoPolicy]
  OBVIOUS
<1>2. expiry \in [Levels -> Nat] /\ linked \in [Levels -> BOOLEAN]
  BY <1>1
<1>3. policy \in [Levels -> Policy]
  BY <1>1, PoliciesTyped
<1>4. Nobody \in [kind : Kinds, node : 0..Depth]
  BY DEF Nobody, Kinds
<1>5. /\ answer \in [Levels -> [kind : Kinds, node : 0..Depth]]
      /\ verdict \in [kind : Kinds, node : 0..Depth]
  BY <1>4
<1>6. got \in [Levels -> SUBSET Fact] /\ was \in [Levels -> SUBSET Fact]
  OBVIOUS
<1>7. /\ stage \in [Levels -> {"idle", "walk", "gone", "entry", "records", "done"}]
      /\ reached \in [Levels -> Levels]
      /\ failed \in SUBSET Levels
      /\ backend \in {"ens", "mock"}
      /\ now \in 0..MaxTime /\ txs \in 0..MaxTxs /\ agent \in 0..Depth /\ amount \in Nat
  OBVIOUS
<1> QED
  BY <1>2, <1>3, <1>5, <1>6, <1>7 DEF TypeOK

\* A change of the tree: the evaluation's own variables stay.
TreeStep ==
  /\ backend' = backend
  /\ now' \in 0..MaxTime /\ now <= now'
  /\ txs' \in 0..MaxTxs
  /\ expiry' \in [Levels -> Nat]
  /\ linked' \in [Levels -> BOOLEAN]
  /\ policy' \in [Levels -> Policy]
  /\ MockInv'
  /\ Remember
  /\ UNCHANGED <<evalVars, verdict>>

\* The transactions and the clock are tree steps.
LEMMA TreeSteps ==
  ASSUME TypeOK, MockInv, ChangeTree \/ Tick
  PROVE  TreeStep
<1> USE TreeAssumption DEF TypeOK
<1>0. now \in Nat /\ now <= now
  OBVIOUS
<1>1. ASSUME NEW kind, Transaction(kind)
      PROVE  /\ backend' = backend /\ now' = now /\ txs' \in 0..MaxTxs
             /\ Remember /\ UNCHANGED <<evalVars, verdict>>
             /\ backend = kind
  BY <1>1 DEF Transaction
<1>2. ASSUME NEW n \in Levels, NEW e \in 1..(MaxTime + 1), NEW p \in Policies,
             RegisterChild(n, e, p.budget)
      PROVE  TreeStep
  <2>1. expiry' \in [Levels -> Nat] /\ linked' \in [Levels -> BOOLEAN]
    BY <1>2 DEF RegisterChild
  <2>2. policy' \in [Levels -> Policy]
    BY <1>2, PoliciesTyped DEF RegisterChild
  <2> QED
    BY <1>0, <1>1, <1>2, <2>1, <2>2 DEF RegisterChild, TreeStep, MockInv
<1>3. ASSUME NEW n \in Levels, NEW p \in Policies, WriteRecords(n, p)
      PROVE  TreeStep
  <2>1. policy' \in [Levels -> Policy]
    BY <1>3 DEF WriteRecords
  <2> QED
    BY <1>0, <1>1, <1>3, <2>1 DEF WriteRecords, TreeStep, MockInv
<1>4. ASSUME NEW n \in Levels, SetSubregistry(n)
      PROVE  TreeStep
  <2>1. linked' \in [Levels -> BOOLEAN]
    BY <1>4 DEF SetSubregistry
  <2> QED
    BY <1>0, <1>1, <1>4, <2>1 DEF SetSubregistry, TreeStep, MockInv
<1>9. ASSUME NEW n \in Levels, Unregister(n)
      PROVE  TreeStep
  <2>1. expiry' \in [Levels -> Nat]
    BY <1>0, <1>9 DEF Unregister
  <2> QED
    BY <1>0, <1>1, <1>9, <2>1 DEF Unregister, TreeStep, MockInv
<1>5. ASSUME NEW n \in Levels, NEW e \in 1..(MaxTime + 1), Renew(n, e)
      PROVE  TreeStep
  <2>1. expiry' \in [Levels -> Nat]
    BY <1>5 DEF Renew
  <2> QED
    BY <1>0, <1>1, <1>5, <2>1 DEF Renew, TreeStep, MockInv
<1>6. ASSUME NEW n \in Levels, RevokeMock(n)
      PROVE  TreeStep
  <2>1. expiry' \in [Levels -> Nat]
    BY <1>6 DEF RevokeMock
  <2> QED
    BY <1>0, <1>1, <1>6, <2>1 DEF RevokeMock, TreeStep, MockInv
<1>7. ASSUME NEW n \in Levels, NEW e \in 0..(MaxTime + 1), NEW p \in Policies, Set(n, p, e)
      PROVE  TreeStep
  <2>1. expiry' \in [Levels -> Nat] /\ linked' = linked
    BY <1>7 DEF Set
  <2>2. [p EXCEPT !.assets = "unset"] \in Policy
    BY PoliciesTyped
  <2>3. policy' \in [Levels -> Policy]
    BY <1>7, <2>2 DEF Set
  <2>4. [p EXCEPT !.assets = "unset"].maxPerCall # Unset
    BY <1>7 DEF Set, Policy
  <2>5. MockInv'
    BY <1>1, <1>7, <2>4 DEF Set, MockInv
  <2> QED
    BY <1>0, <1>1, <1>7, <2>1, <2>3, <2>5 DEF Set, TreeStep
<1>8. ASSUME Tick PROVE TreeStep
  <2>1. now' \in 0..MaxTime /\ now <= now'
    BY <1>8 DEF Tick
  <2> QED
    BY <1>8, <2>1 DEF Tick, TreeStep, MockInv
<1> QED
  BY <1>2, <1>3, <1>4, <1>5, <1>6, <1>7, <1>8, <1>9 DEF ChangeTree

\* Every step keeps the types.
LEMMA TypeStep ==
  ASSUME TypeOK, IdleInv, MockInv, EvalInv, [Next]_vars
  PROVE  TypeOK'
<1> USE TreeAssumption
<1>1. \A n \in Levels : Facts(n) \subseteq Fact
  <2> SUFFICES ASSUME NEW n \in Levels PROVE Facts(n) \subseteq Fact
    OBVIOUS
  <2>1. expiry[n] \in Nat /\ policy[n] \in Policy
    BY DEF TypeOK
  <2>2. Alive(n) \in BOOLEAN /\ Linked(n) \in BOOLEAN
    BY DEF Alive, Linked
  <2> QED
    BY <2>1, <2>2, FactsTyped DEF Facts
<1>2. CASE ChangeTree \/ Tick
  <2>1. TreeStep
    BY <1>2, TreeSteps
  <2>2. \A n \in Levels : Facts(n)' \subseteq Fact
    <3> SUFFICES ASSUME NEW n \in Levels PROVE Facts(n)' \subseteq Fact
      OBVIOUS
    <3>1. expiry'[n] \in Nat /\ policy'[n] \in Policy
      BY <2>1 DEF TreeStep
    <3>2. Alive(n)' \in BOOLEAN /\ Linked(n)' \in BOOLEAN
      BY DEF Alive, Linked
    <3> QED
      BY <3>1, <3>2, FactsTyped DEF Facts
  <2>3. was' \in [Levels -> SUBSET Fact]
    BY <2>1, <2>2 DEF TreeStep, Remember, TypeOK
  <2> QED
    BY <2>1, <2>3 DEF TreeStep, TypeOK, evalVars
<1>3. ASSUME NEW a \in Levels, NEW x \in Amounts, Ask(a, x)
      PROVE  TypeOK'
  <2>1. was' \in [Levels -> SUBSET Fact]
    BY <1>1, <1>3 DEF Ask
  <2>2. verdict' \in [kind : Kinds, node : 0..Depth]
    BY <1>3 DEF Ask, Nobody, Kinds
  <2>3. agent' \in 0..Depth /\ amount' \in Nat
    <3>1. agent' = a /\ amount' = x
      BY <1>3, Zenon DEF Ask
    <3>2. a \in 0..Depth /\ x \in Nat
      BY DEF Levels
    <3> QED
      BY <3>1, <3>2
  <2>4. stage' \in [Levels -> {"idle", "walk", "gone", "entry", "records", "done"}]
    BY <1>3 DEF Ask
  <2> QED
    BY <1>3, <2>1, <2>2, <2>3, <2>4 DEF Ask, TypeOK, treeVars
<1>4. ASSUME NEW n \in Levels, NEW kind \in Kinds, NEW m \in Levels, Answer(n, kind, m), TypeOK
      PROVE  /\ answer' \in [Levels -> [kind : Kinds, node : 0..Depth]]
             /\ stage' \in [Levels -> {"idle", "walk", "gone", "entry", "records", "done"}]
  BY <1>4 DEF Answer, MoveTo, TypeOK, Levels
<1>5. ASSUME NEW n \in Levels, Descend(n)
      PROVE  TypeOK'
  <2>0. reached \in [Levels -> Levels]
    BY DEF TypeOK
  <2>1. reached' \in [Levels -> Levels]
    <3>1. CASE reached[n] < n /\ reached' = [reached EXCEPT ![n] = reached[n] + 1]
      <4>0. reached[n] \in Nat /\ n \in 1..Depth /\ Depth \in Nat
        <5>1. reached[n] \in Levels
          BY <2>0
        <5> QED
          BY <5>1 DEF Levels
      <4>1. reached[n] + 1 \in Levels
        BY <3>1, <4>0 DEF Levels
      <4> QED
        BY <2>0, <3>1, <4>1
    <3>2. CASE UNCHANGED reached
      BY <2>0, <3>2
    <3> QED
      BY <1>5, <3>1, <3>2 DEF Descend
  <2>2. stage' \in [Levels -> {"idle", "walk", "gone", "entry", "records", "done"}]
    BY <1>5 DEF Descend, MoveTo, TypeOK
  <2> QED
    BY <1>5, <2>1, <2>2 DEF Descend, TypeOK, treeVars
<1>6. {"unresolvable", "expiry", "ok"} \subseteq Kinds
  BY DEF Kinds
<1>7. ASSUME NEW n \in Levels, BlameAncestor(n)
      PROVE  TypeOK'
  <2>1. reached[n] \in Levels
    BY DEF TypeOK
  <2> QED
    BY <1>4, <1>6, <1>7, <2>1 DEF BlameAncestor, TypeOK, treeVars
<1>8. ASSUME NEW n \in Levels, NEW f \in Facts(n), ReadFact(n, f)
      PROVE  TypeOK'
  <2>1. got' \in [Levels -> SUBSET Fact]
    BY <1>1, <1>8 DEF ReadFact, Read, TypeOK
  <2> QED
    BY <1>8, <2>1 DEF ReadFact, TypeOK, treeVars
<1>9. ASSUME NEW n \in Levels, MissAssets(n)
      PROVE  TypeOK'
  <2>1. <<"assets", "unset">> \in Fact
    BY DEF Fact
  <2>2. got' \in [Levels -> SUBSET Fact]
    BY <1>9, <2>1 DEF MissAssets, Read, TypeOK
  <2> QED
    BY <1>9, <2>2 DEF MissAssets, TypeOK, treeVars
<1>10. ASSUME NEW n \in Levels, FailRead(n)
       PROVE  TypeOK'
  BY <1>4, <1>6, <1>10 DEF FailRead, TypeOK, treeVars
<1>11. ASSUME NEW n \in Levels, JudgeEntry(n)
       PROVE  TypeOK'
  <2>1. /\ answer' \in [Levels -> [kind : Kinds, node : 0..Depth]]
        /\ stage' \in [Levels -> {"idle", "walk", "gone", "entry", "records", "done"}]
    <3>1. CASE Answer(n, "unresolvable", n) \/ Answer(n, "expiry", n)
      BY <1>4, <1>6, <3>1
    <3>2. CASE MoveTo(n, "records") /\ UNCHANGED answer
      BY <3>2 DEF MoveTo, TypeOK
    <3> QED
      BY <1>11, <3>1, <3>2 DEF JudgeEntry
  <2> QED
    BY <1>11, <2>1 DEF JudgeEntry, TypeOK, treeVars
<1>12. ASSUME NEW n \in Levels, JudgeRecords(n)
       PROVE  TypeOK'
  BY <1>4, <1>6, <1>12 DEF JudgeRecords, TypeOK, treeVars
<1>13. ASSUME NEW n \in Levels, Lookup(n)
       PROVE  TypeOK'
  <2>1. got' \in [Levels -> SUBSET Fact]
    BY <1>1, <1>13 DEF Lookup, TypeOK
  <2> QED
    BY <1>4, <1>6, <1>13, <2>1 DEF Lookup, TypeOK, treeVars
<1>14. CASE Decide
  <2>1. verdict' \in [kind : Kinds, node : 0..Depth]
    <3>1. ASSUME NEW n \in Levels, verdict' = answer[n]
          PROVE  verdict' \in [kind : Kinds, node : 0..Depth]
      BY <3>1 DEF TypeOK
    <3>2. ASSUME NEW i \in 1..4, NEW n \in Levels, verdict' = [kind |-> Rank[i], node |-> n]
          PROVE  verdict' \in [kind : Kinds, node : 0..Depth]
      <4>1. Rank[i] \in Kinds
        BY DEF Rank, Kinds, TextKeys
      <4>2. n \in 0..Depth
        BY DEF Levels
      <4> QED
        BY <3>2, <4>1, <4>2
    <3>3. ASSUME verdict' = [kind |-> "approved", node |-> agent]
          PROVE  verdict' \in [kind : Kinds, node : 0..Depth]
      BY <3>3 DEF TypeOK, Kinds
    <3> QED
      BY <1>14, <3>1, <3>2, <3>3 DEF Decide
  <2>2. Nobody \in [kind : Kinds, node : 0..Depth]
    BY DEF Nobody, Kinds
  <2>3. /\ got' \in [Levels -> SUBSET Fact] /\ was' \in [Levels -> SUBSET Fact]
        /\ answer' \in [Levels -> [kind : Kinds, node : 0..Depth]]
        /\ reached' \in [Levels -> Levels]
        /\ stage' \in [Levels -> {"idle", "walk", "gone", "entry", "records", "done"}]
    BY <1>14, <2>2 DEF Decide, Levels
  <2>4. agent' \in 0..Depth /\ amount' \in Nat /\ failed' \in SUBSET Levels
    BY <1>14 DEF Decide
  <2> QED
    BY <1>14, <2>1, <2>3, <2>4 DEF Decide, TypeOK, treeVars
<1>15. CASE UNCHANGED vars
  BY <1>15 DEF TypeOK, vars, treeVars, evalVars
<1> QED
  BY <1>2, <1>3, <1>5, <1>7, <1>8, <1>9, <1>10, <1>11, <1>12, <1>13, <1>14, <1>15
  DEF Next, Resolve

-----------------------------------------------------------------------------
(* The hops under resolution. *)

\* What is known about a hop stays known while its own state does.
LEMMA HopFrame ==
  ASSUME NEW n \in Levels, HopInv(n), TypeOK,
         Facts(n)' \subseteq was'[n],
         \A m \in Levels : was[m] \subseteq was'[m],
         failed \subseteq failed', now' \in Nat, now <= now', backend' = backend,
         stage'[n] = stage[n], reached'[n] = reached[n],
         got'[n] = got[n], answer'[n] = answer[n]
  PROVE  HopInv(n)'
<1> USE TreeAssumption
<1>0. n \in Nat /\ reached[n] \in Nat /\ n <= Depth /\ now \in Nat
  BY DEF TypeOK, Levels
<1>1. reached[n] <= n
  BY DEF HopInv
<1>2. \A m \in 1..n : m \in Levels
  BY <1>0 DEF Levels
<1>3. Missed(n) \subseteq Missed(n)'
  BY DEF Missed
<1>4. got'[n] \subseteq was'[n] \cup Missed(n)'
  BY <1>3 DEF HopInv
<1>5. \A m \in 1..(reached'[n] - 1) : <<"linked", TRUE>> \in was'[m]
  <2> SUFFICES ASSUME NEW m \in 1..(reached[n] - 1) PROVE <<"linked", TRUE>> \in was'[m]
    OBVIOUS
  <2>1. m \in Levels
    BY <1>0, <1>1, <1>2
  <2> QED
    BY <2>1 DEF HopInv
<1>6. stage'[n] = "gone" => reached'[n] < n /\ <<"linked", FALSE>> \in was'[reached'[n]]
  BY DEF HopInv, TypeOK
<1>7. Unresolved(n) => Unresolved(n)'
  <2>1. ASSUME NEW m \in 1..(n - 1), <<"linked", FALSE>> \in was[m]
        PROVE  Unresolved(n)'
    <3>1. m \in Levels
      BY <1>0, <1>2
    <3> QED
      BY <2>1, <3>1 DEF Unresolved
  <2> QED
    BY <2>1 DEF Unresolved
<1>8. Lapsed(n) => Lapsed(n)'
  <2>1. ASSUME NEW f \in was[n], f[1] = "expiry", f[2] <= now
        PROVE  f \in was'[n] /\ f[2] <= now'
    <3>1. f \in Fact
      BY DEF TypeOK
    <3>2. f[2] \in Nat
      BY <2>1, <3>1 DEF Fact
    <3> QED
      BY <1>0, <2>1, <3>2
  <2> QED
    BY <2>1 DEF Lapsed
<1>9. (\E m \in 1..(n - 1) : /\ answer[n] = [kind |-> "expiry", node |-> m]
                            /\ <<"linked", FALSE>> \in was[m])
      => (\E m \in 1..(n - 1) : /\ answer[n] = [kind |-> "expiry", node |-> m]
                                /\ <<"linked", FALSE>> \in was'[m])
  BY <1>0, <1>2
<1> QED
  BY <1>4, <1>5, <1>6, <1>7, <1>8, <1>9 DEF HopInv

\* While the tree stands still so do the facts.
LEMMA FactsKept ==
  ASSUME NEW n \in Levels, UNCHANGED treeVars
  PROVE  Facts(n)' = Facts(n)
BY DEF treeVars, Facts, Linked, Alive

\* A call of one hop touches no other.
OneHop(n) ==
  /\ UNCHANGED <<treeVars, agent, amount, was, verdict>>
  /\ failed \subseteq failed'
  /\ \A m \in Levels \ {n} :
       /\ stage'[m] = stage[m] /\ reached'[m] = reached[m]
       /\ got'[m] = got[m] /\ answer'[m] = answer[m]

\* Every step of a resolve() is a call of one hop.
LEMMA ResolveIsLocal ==
  ASSUME TypeOK, NEW n \in Levels, Resolve(n)
  PROVE  OneHop(n)
<1> USE DEF TypeOK, OneHop
<1>1. CASE Descend(n)
  BY <1>1 DEF Descend, MoveTo
<1>2. CASE BlameAncestor(n)
  BY <1>2 DEF BlameAncestor, Answer, MoveTo
<1>3. ASSUME NEW f \in Facts(n), ReadFact(n, f) PROVE OneHop(n)
  BY <1>3 DEF ReadFact, Read
<1>4. CASE MissAssets(n)
  BY <1>4 DEF MissAssets, Read
<1>5. CASE FailRead(n)
  BY <1>5 DEF FailRead, Answer, MoveTo
<1>6. CASE JudgeEntry(n)
  BY <1>6 DEF JudgeEntry, Answer, MoveTo
<1>7. CASE JudgeRecords(n)
  BY <1>7 DEF JudgeRecords, Answer, MoveTo
<1>8. CASE Lookup(n)
  BY <1>8 DEF Lookup, Answer, MoveTo
<1> QED
  BY <1>1, <1>2, <1>3, <1>4, <1>5, <1>6, <1>7, <1>8 DEF Resolve

\* What stays of a hop's invariant however its own stage changes.
LEMMA HopBase ==
  ASSUME NEW n \in Levels, HopInv(n), OneHop(n)
  PROVE  /\ Facts(n)' \subseteq was'[n]
         /\ was' = was /\ now' = now /\ backend' = backend
         /\ Missed(n) \subseteq Missed(n)'
         /\ Unresolved(n) => Unresolved(n)'
         /\ Lapsed(n) => Lapsed(n)'
<1>1. Facts(n)' = Facts(n)
  BY FactsKept DEF OneHop
<1>2. was' = was /\ now' = now /\ backend' = backend /\ failed \subseteq failed'
  BY DEF OneHop, treeVars
<1>3. Unresolved(n) => Unresolved(n)'
  BY <1>2 DEF Unresolved
<1> QED
  BY <1>1, <1>2, <1>3 DEF HopInv, Missed, Lapsed

\* Walking down: each pointer that was followed was there.
LEMMA DescendStep ==
  ASSUME TypeOK, NEW n \in Levels, HopInv(n), \A m \in Levels : HopInv(m), Descend(n)
  PROVE  HopInv(n)'
<1> USE TreeAssumption
<1>0. OneHop(n)
  BY ResolveIsLocal DEF Resolve
<1>1. /\ reached \in [Levels -> Levels] /\ stage \in [Levels ->
           {"idle", "walk", "gone", "entry", "records", "done"}]
      /\ stage[n] = "walk" /\ UNCHANGED <<got, answer, failed, was>>
  BY DEF TypeOK, Descend
<1>2. reached[n] \in Levels
  BY <1>1
<1>3. reached[n] \in Nat /\ n \in Nat /\ reached[n] <= n
  BY <1>2 DEF Levels, HopInv
<1>4. <<"linked", Linked(reached[n])>> \in was[reached[n]]
  BY <1>2 DEF HopInv, Facts
<1>5. /\ Facts(n)' \subseteq was'[n]
      /\ got'[n] \subseteq was'[n] \cup Missed(n)'
  BY <1>0, <1>1, HopBase DEF HopInv
<1>6. \A m \in 1..(reached[n] - 1) : <<"linked", TRUE>> \in was[m]
  BY DEF HopInv
<1>7. CASE reached[n] = n /\ MoveTo(n, "entry") /\ UNCHANGED reached
  <2>1. stage'[n] = "entry" /\ reached'[n] = n
    BY <1>1, <1>7 DEF MoveTo
  <2> QED
    BY <1>1, <1>3, <1>5, <1>6, <1>7, <2>1 DEF HopInv
<1>8. CASE reached[n] < n /\ Linked(reached[n]) /\ UNCHANGED stage
           /\ reached' = [reached EXCEPT ![n] = @ + 1]
  <2>1. stage'[n] = "walk" /\ reached'[n] = reached[n] + 1
    BY <1>1, <1>8
  <2>2. <<"linked", TRUE>> \in was[reached[n]]
    BY <1>4, <1>8 DEF Linked
  <2>3. \A m \in 1..(reached'[n] - 1) : <<"linked", TRUE>> \in was'[m]
    BY <1>1, <1>3, <1>6, <2>1, <2>2
  <2>4. reached'[n] <= n
    BY <1>3, <1>8, <2>1
  <2> QED
    BY <1>5, <2>1, <2>3, <2>4 DEF HopInv
<1>9. CASE reached[n] < n /\ ~Linked(reached[n]) /\ MoveTo(n, "gone") /\ UNCHANGED reached
  <2>1. stage'[n] = "gone" /\ reached'[n] = reached[n]
    BY <1>1, <1>9 DEF MoveTo
  <2>2. Linked(reached[n]) = FALSE
    BY <1>9 DEF Linked
  <2> QED
    BY <1>1, <1>3, <1>4, <1>5, <1>6, <1>9, <2>1, <2>2 DEF HopInv
<1> QED
  BY <1>7, <1>8, <1>9 DEF Descend

\* A hop that is answered, with a cause, needs nothing of its walk but what
\* it had.
LEMMA AnswerStep ==
  ASSUME TypeOK, NEW n \in Levels, HopInv(n), OneHop(n),
         NEW kind, NEW m, Answer(n, kind, m), UNCHANGED <<reached, got>>,
         \/ kind = "unresolvable" /\ m = n /\ Unresolved(n)'
         \/ kind = "expiry" /\ m = n /\ Lapsed(n)
         \/ kind = "expiry" /\ m \in 1..(n - 1) /\ <<"linked", FALSE>> \in was[m]
  PROVE  HopInv(n)'
<1>1. stage'[n] = "done" /\ answer'[n] = [kind |-> kind, node |-> m]
  BY DEF Answer, MoveTo, TypeOK
<1>2. /\ Facts(n)' \subseteq was'[n]
      /\ was' = was /\ now' = now
      /\ Lapsed(n) => Lapsed(n)'
      /\ got'[n] \subseteq was'[n] \cup Missed(n)'
  BY HopBase DEF HopInv
<1>3. \/ answer'[n] = [kind |-> "unresolvable", node |-> n] /\ Unresolved(n)'
      \/ answer'[n] = [kind |-> "expiry", node |-> n] /\ Lapsed(n)'
      \/ \E i \in 1..(n - 1) : /\ answer'[n] = [kind |-> "expiry", node |-> i]
                               /\ <<"linked", FALSE>> \in was'[i]
  BY <1>1, <1>2
<1>4. /\ reached'[n] <= n
      /\ \A i \in 1..(reached'[n] - 1) : <<"linked", TRUE>> \in was'[i]
  BY <1>2 DEF HopInv
<1> QED
  BY <1>1, <1>2, <1>3, <1>4 DEF HopInv

\* A missing pointer is a cause.
LEMMA BlameAncestorStep ==
  ASSUME TypeOK, NEW n \in Levels, HopInv(n), BlameAncestor(n)
  PROVE  HopInv(n)'
<1> USE TreeAssumption
<1>0. OneHop(n)
  BY ResolveIsLocal DEF Resolve
<1>1. reached[n] \in Levels
  BY DEF TypeOK
<1>2. reached[n] < n /\ <<"linked", FALSE>> \in was[reached[n]]
  BY DEF BlameAncestor, HopInv
<1>3. reached[n] \in 1..(n - 1)
  BY <1>1, <1>2 DEF Levels
<1>4. was' = was /\ UNCHANGED <<reached, got>>
  BY DEF BlameAncestor
<1>5. Unresolved(n)'
  BY <1>2, <1>3, <1>4 DEF Unresolved
<1>6. CASE Answer(n, "unresolvable", n)
  BY <1>0, <1>4, <1>5, <1>6, AnswerStep
<1>7. CASE Answer(n, "expiry", reached[n])
  BY <1>0, <1>2, <1>3, <1>4, <1>7, AnswerStep
<1> QED
  BY <1>6, <1>7 DEF BlameAncestor

\* A fact that is read was true, or its read failed.
LEMMA ReadStep ==
  ASSUME TypeOK, NEW n \in Levels, HopInv(n), OneHop(n),
         NEW f \in was[n] \cup Missed(n)', Read(n, f),
         stage[n] \in {"entry", "records"},
         UNCHANGED <<stage, reached, answer>>
  PROVE  HopInv(n)'
<1>1. got'[n] = got[n] \cup {f}
  BY DEF Read, TypeOK
<1>2. /\ Facts(n)' \subseteq was'[n]
      /\ was' = was /\ now' = now /\ backend' = backend
      /\ Missed(n) \subseteq Missed(n)'
  BY HopBase
<1>3. got'[n] \subseteq was'[n] \cup Missed(n)'
  BY <1>1, <1>2 DEF HopInv
<1>4. stage'[n] = "records" => \E g \in got'[n] : g[1] = "expiry"
  BY <1>1 DEF HopInv
<1> QED
  BY <1>2, <1>3, <1>4 DEF HopInv

\* A failed call is a cause.
LEMMA FailReadStep ==
  ASSUME TypeOK, NEW n \in Levels, HopInv(n), FailRead(n)
  PROVE  HopInv(n)'
<1>0. OneHop(n)
  BY ResolveIsLocal DEF Resolve
<1>1. Unresolved(n)' /\ Answer(n, "unresolvable", n) /\ UNCHANGED <<reached, got>>
  BY DEF FailRead, Unresolved
<1> QED
  BY <1>0, <1>1, AnswerStep

\* The entry is judged on what was read of it.
LEMMA JudgeEntryStep ==
  ASSUME TypeOK, NEW n \in Levels, HopInv(n), JudgeEntry(n)
  PROVE  HopInv(n)'
<1>0. OneHop(n)
  BY ResolveIsLocal DEF Resolve
<1>1. UNCHANGED <<reached, got, failed>> /\ was' = was
  BY DEF JudgeEntry
<1>2. PICK f \in got[n] :
        /\ f[1] = "expiry"
        /\ \/ f[2] = 0 /\ Answer(n, "unresolvable", n)
           \/ /\ f[2] # 0
              /\ f[2] <= now
              /\ Answer(n, "expiry", n)
           \/ /\ f[2] > now
              /\ IF <<"resolver", TRUE>> \in got[n]
                   THEN MoveTo(n, "records") /\ UNCHANGED answer
                   ELSE Answer(n, "unresolvable", n)
  BY DEF JudgeEntry
<1>3. f \in Fact /\ f \in was[n]
  BY <1>2 DEF HopInv, Missed, TypeOK
<1>4. f = <<"expiry", f[2]>>
  BY <1>2, <1>3 DEF Fact
<1>5. CASE f[2] = 0 /\ Answer(n, "unresolvable", n)
  <2>1. Unresolved(n)'
    BY <1>1, <1>3, <1>4, <1>5 DEF Unresolved
  <2> QED
    BY <1>0, <1>1, <1>5, <2>1, AnswerStep
<1>6. CASE f[2] <= now /\ Answer(n, "expiry", n)
  <2>1. Lapsed(n)
    BY <1>2, <1>3, <1>6 DEF Lapsed
  <2> QED
    BY <1>0, <1>1, <1>6, <2>1, AnswerStep
<1>7. CASE <<"resolver", TRUE>> \notin got[n] /\ Answer(n, "unresolvable", n)
  <2>1. PICK g \in got[n] : g[1] = "resolver"
    BY DEF JudgeEntry, Known, EntryKeys
  <2>2. g \in Fact /\ g \in was[n]
    BY <2>1 DEF HopInv, Missed, TypeOK
  <2>3. g = <<"resolver", FALSE>>
    <3>1. g = <<"resolver", g[2]>> /\ g[2] \in BOOLEAN
      BY <2>1, <2>2 DEF Fact
    <3> QED
      BY <1>7, <3>1
  <2>4. Unresolved(n)'
    BY <1>1, <2>2, <2>3 DEF Unresolved
  <2> QED
    BY <1>0, <1>1, <1>7, <2>4, AnswerStep
<1>8. CASE MoveTo(n, "records") /\ UNCHANGED answer
  <2>1. stage'[n] = "records"
    BY <1>8 DEF MoveTo, TypeOK
  <2>2. reached'[n] = n
    BY <1>1 DEF HopInv, JudgeEntry
  <2>3. /\ Facts(n)' \subseteq was'[n]
        /\ got'[n] \subseteq was'[n] \cup Missed(n)'
    BY <1>0, <1>1, HopBase DEF HopInv
  <2> QED
    BY <1>1, <1>2, <2>1, <2>2, <2>3 DEF HopInv
<1> QED
  BY <1>2, <1>5, <1>6, <1>7, <1>8

\* A record that was never written is a cause; a full set is an answer.
LEMMA JudgeRecordsStep ==
  ASSUME TypeOK, NEW n \in Levels, HopInv(n), JudgeRecords(n)
  PROVE  HopInv(n)'
<1> USE TreeAssumption
<1>0. OneHop(n)
  BY ResolveIsLocal DEF Resolve
<1>1. UNCHANGED <<reached, got, failed>> /\ was' = was /\ stage[n] = "records"
  BY DEF JudgeRecords
<1>2. CASE Answer(n, "unresolvable", n) /\ \E f \in got[n] : f[2] = Unset
  <2>1. PICK f \in got[n] : f[2] = Unset
    BY <1>2
  <2>2. f # <<"assets", "unset">>
    BY <2>1
  <2>3. f \in was[n]
    BY <2>1, <2>2 DEF HopInv, Missed
  <2>4. Unresolved(n)'
    BY <1>1, <2>1, <2>3 DEF Unresolved
  <2> QED
    BY <1>0, <1>1, <1>2, <2>4, AnswerStep
<1>3. CASE Answer(n, "ok", n) /\ ~\E f \in got[n] : f[2] = Unset
  <2>1. stage'[n] = "done" /\ answer'[n] = [kind |-> "ok", node |-> n]
    BY <1>3 DEF Answer, MoveTo, TypeOK
  <2>2. \A k \in TextKeys : \E f \in got[n] : f[1] = k
    BY DEF JudgeRecords, Known
  <2>3. /\ \E f \in got[n] : f[1] = "expiry"
        /\ reached[n] = n
        /\ \A m \in 1..(reached[n] - 1) : <<"linked", TRUE>> \in was[m]
    BY <1>1 DEF HopInv
  <2>4. /\ Facts(n)' \subseteq was'[n]
        /\ got'[n] \subseteq was'[n] \cup Missed(n)'
        /\ reached'[n] <= n
    BY <1>0, <1>1, HopBase DEF HopInv
  <2>5. \A k \in TextKeys \cup {"expiry"} : \E f \in got'[n] : f[1] = k
    BY <1>1, <2>2, <2>3
  <2> QED
    BY <1>1, <1>3, <2>1, <2>3, <2>4, <2>5 DEF HopInv
<1> QED
  BY <1>2, <1>3 DEF JudgeRecords

\* The mock resolver answers with what it holds.
LEMMA LookupStep ==
  ASSUME TypeOK, MockInv, NEW n \in Levels, HopInv(n), Lookup(n)
  PROVE  HopInv(n)'
<1>0. OneHop(n)
  BY ResolveIsLocal DEF Resolve
<1>1. UNCHANGED <<reached, failed, policy, backend>> /\ was' = was /\ backend = "mock"
  BY DEF Lookup, treeVars
<1>2. CASE policy[n].budget = Unset /\ Answer(n, "unresolvable", n) /\ UNCHANGED got
  <2>1. <<"budget", policy[n]["budget"]>> \in Facts(n)
    BY DEF Facts, TextKeys
  <2>2. <<"budget", Unset>> \in was[n]
    BY <1>2, <2>1 DEF HopInv
  <2>3. Unresolved(n)'
    BY <1>1, <2>2 DEF Unresolved
  <2> QED
    BY <1>0, <1>1, <1>2, <2>3, AnswerStep
<1>3. CASE /\ policy[n].budget # Unset
           /\ Answer(n, "ok", n) /\ got' = [got EXCEPT ![n] = Facts(n)]
  <2>1. stage'[n] = "done" /\ answer'[n].kind = "ok" /\ got'[n] = Facts(n)
    BY <1>3 DEF Answer, MoveTo, TypeOK
  <2>2. \A k \in TextKeys : <<k, policy[n][k]>> \in Facts(n)
    BY DEF Facts
  <2>3. <<"expiry", expiry[n]>> \in Facts(n)
    BY DEF Facts
  <2>4. ASSUME NEW k \in TextKeys \cup {"expiry"}
        PROVE  \E f \in got'[n] : f[1] = k
    <3>1. CASE k \in TextKeys
      <4>1. <<k, policy[n][k]>> \in got'[n] /\ <<k, policy[n][k]>>[1] = k
        BY <2>1, <2>2, <3>1
      <4> QED
        BY <4>1
    <3>2. CASE k = "expiry"
      <4>1. <<"expiry", expiry[n]>> \in got'[n] /\ <<"expiry", expiry[n]>>[1] = k
        BY <2>1, <2>3, <3>2
      <4> QED
        BY <4>1
    <3> QED
      BY <3>1, <3>2
  <2>5. policy[n].maxPerCall # Unset
    BY <1>1, <1>3 DEF MockInv
  <2>6. \A f \in Facts(n) : f[1] \in {"budget", "maxPerCall"} => f[2] # Unset
    BY <1>3, <2>5 DEF Facts, TextKeys
  <2>7. /\ Facts(n)' \subseteq was'[n]
        /\ got'[n] \subseteq was'[n] \cup Missed(n)'
        /\ reached'[n] <= n
        /\ \A m \in 1..(reached'[n] - 1) : <<"linked", TRUE>> \in was'[m]
    BY <1>0, <1>1, <2>1, HopBase DEF HopInv
  <2> QED
    BY <1>1, <2>1, <2>4, <2>6, <2>7 DEF HopInv
<1> QED
  BY <1>2, <1>3 DEF Lookup

\* A call of a resolve() keeps the invariant of its own hop.
LEMMA ResolveStep ==
  ASSUME TypeOK, MockInv, \A m \in Levels : HopInv(m), NEW n \in Levels, Resolve(n)
  PROVE  HopInv(n)'
<1>0. OneHop(n)
  BY ResolveIsLocal
<1>1. ASSUME NEW f \in Facts(n), ReadFact(n, f) PROVE HopInv(n)'
  <2>1. f \in was[n]
    BY DEF HopInv
  <2>2. Read(n, f) /\ stage[n] \in {"entry", "records"} /\ UNCHANGED <<stage, reached, answer>>
    BY <1>1 DEF ReadFact
  <2> QED
    BY <1>0, <2>1, <2>2, ReadStep
<1>2. CASE MissAssets(n)
  <2>1. <<"assets", "unset">> \in Missed(n)'
    BY <1>2 DEF MissAssets, Missed
  <2>2. /\ Read(n, <<"assets", "unset">>)
        /\ stage[n] \in {"entry", "records"} /\ UNCHANGED <<stage, reached, answer>>
    BY <1>2 DEF MissAssets
  <2> QED
    BY <1>0, <2>1, <2>2, ReadStep
<1>3. CASE Descend(n)
  BY <1>3, DescendStep
<1>4. CASE BlameAncestor(n)
  BY <1>4, BlameAncestorStep
<1>5. CASE FailRead(n)
  BY <1>5, FailReadStep
<1>6. CASE JudgeEntry(n)
  BY <1>6, JudgeEntryStep
<1>7. CASE JudgeRecords(n)
  BY <1>7, JudgeRecordsStep
<1>8. CASE Lookup(n)
  BY <1>8, LookupStep
<1> QED
  BY <1>1, <1>2, <1>3, <1>4, <1>5, <1>6, <1>7, <1>8 DEF Resolve

-----------------------------------------------------------------------------
(* The inductive invariant. *)

\* It holds at the start.
LEMMA InvInit == Init => IInv
<1> SUFFICES ASSUME Init PROVE IInv
  OBVIOUS
<1>1. TypeOK
  BY TypeInit
<1>2. EvalInv /\ IdleInv
  BY DEF Init, EvalInv, IdleInv
<1>3. MockInv
  <2> SUFFICES ASSUME backend = "mock", NEW n \in Levels PROVE policy[n].budget = Unset
    BY DEF MockInv
  <2>1. policy[n] = NoPolicy
    BY DEF Init
  <2> QED
    BY <2>1 DEF NoPolicy
<1> QED
  BY <1>1, <1>2, <1>3 DEF IInv

\* Every step keeps it.
LEMMA InvStep == IInv /\ [Next]_vars => IInv'
<1> SUFFICES ASSUME IInv, [Next]_vars PROVE IInv'
  OBVIOUS
<1> USE TreeAssumption DEF IInv
<1>0. TypeOK'
  BY TypeStep
<1>1. CASE ChangeTree \/ Tick
  <2>1. TreeStep
    BY <1>1, TreeSteps
  <2>2. IdleInv' /\ MockInv'
    BY <2>1 DEF TreeStep, IdleInv, evalVars
  <2>3. EvalInv'
    <3> SUFFICES ASSUME agent # 0, NEW n \in Levels PROVE HopInv(n)'
      BY <2>1 DEF EvalInv, TreeStep, evalVars
    <3>1. HopInv(n) /\ now' \in Nat
      BY <2>1 DEF EvalInv, TreeStep
    <3>2. \A m \in Levels : was'[m] = was[m] \cup Facts(m)'
      BY <2>1 DEF TreeStep, Remember
    <3> QED
      BY <2>1, <3>1, <3>2, HopFrame DEF TreeStep, evalVars
  <2> QED
    BY <1>0, <2>2, <2>3
<1>2. ASSUME NEW a \in Levels, NEW x \in Amounts, Ask(a, x) PROVE IInv'
  <2>1. a # 0 /\ agent' = a /\ UNCHANGED <<treeVars, reached, got, failed>>
    BY <1>2 DEF Ask, Levels
  <2>2. IdleInv' /\ MockInv'
    BY <2>1 DEF IdleInv, MockInv, treeVars
  <2>3. EvalInv'
    <3> SUFFICES ASSUME NEW n \in Levels PROVE HopInv(n)'
      BY DEF EvalInv
    <3>1. Facts(n)' = Facts(n) /\ was'[n] = Facts(n)
      BY <1>2, <2>1, FactsKept DEF Ask
    <3>2. reached'[n] = 1 /\ got'[n] = {}
      BY <1>2, <2>1 DEF Ask, IdleInv
    <3>3. stage'[n] \in {"walk", "idle"}
      BY <1>2 DEF Ask
    <3>4. 1 <= n /\ ~\E m \in 1..(1 - 1) : TRUE
      BY DEF Levels
    <3> QED
      BY <3>1, <3>2, <3>3, <3>4 DEF HopInv
  <2> QED
    BY <1>0, <2>2, <2>3
<1>3. ASSUME NEW n \in Levels, Resolve(n) PROVE IInv'
  <2>1. OneHop(n)
    BY <1>3, ResolveIsLocal
  <2>2. agent # 0
    BY <1>3 DEF IdleInv, Resolve, Descend, BlameAncestor, ReadFact, MissAssets,
                FailRead, JudgeEntry, JudgeRecords, Lookup
  <2>3. \A m \in Levels : HopInv(m)
    BY <2>2 DEF EvalInv
  <2>4. HopInv(n)'
    BY <1>3, <2>3, ResolveStep
  <2>5. ASSUME NEW m \in Levels \ {n} PROVE HopInv(m)'
    <3>1. /\ HopInv(m) /\ Facts(m)' = Facts(m) /\ was' = was
          /\ now' = now /\ now' \in Nat /\ now <= now' /\ backend' = backend
      BY <2>1, <2>3, FactsKept DEF OneHop, treeVars, TypeOK
    <3>2. Facts(m)' \subseteq was'[m]
      BY <3>1 DEF HopInv
    <3> QED
      BY <2>1, <3>1, <3>2, HopFrame DEF OneHop
  <2>6. EvalInv' /\ IdleInv' /\ MockInv'
    BY <2>1, <2>2, <2>4, <2>5 DEF OneHop, EvalInv, IdleInv, MockInv, treeVars
  <2> QED
    BY <1>0, <2>6
<1>4. CASE Decide
  <2>1. agent' = 0 /\ IdleInv' /\ MockInv'
    BY <1>4 DEF Decide, IdleInv, MockInv, treeVars
  <2> QED
    BY <1>0, <2>1 DEF EvalInv
<1>5. CASE UNCHANGED vars
  <2>1. \A n \in Levels : HopInv(n)' <=> HopInv(n)
    BY <1>5 DEF HopInv, Facts, Linked, Alive, Missed, Unresolved, Lapsed, vars, treeVars, evalVars
  <2> QED
    BY <1>0, <1>5, <2>1 DEF EvalInv, IdleInv, MockInv, vars, treeVars, evalVars
<1> QED
  BY <1>1, <1>2, <1>3, <1>4, <1>5 DEF Next

\* Every reachable state satisfies the inductive invariant: whatever an
\* evaluation holds about a hop was true of it since the evaluation began.
THEOREM TreeInvariant == Spec => []IInv
<1>1. Init => IInv
  BY InvInit
<1>2. IInv /\ [Next]_vars => IInv'
  BY InvStep
<1> QED
  BY <1>1, <1>2, PTL DEF Spec

\* Every variable of the tree and of the evaluation keeps its type.
THEOREM TypeCorrect == Spec => []TypeOK
<1>1. IInv => TypeOK
  BY DEF IInv
<1> QED
  BY <1>1, TreeInvariant, PTL

-----------------------------------------------------------------------------
(* Decisions. *)

\* A decision, in the words of both properties, is a step of Decide.
LEMMA DecidedIsDecide ==
  ASSUME IInv, Next, Decided
  PROVE  Decide
<1> USE TreeAssumption DEF Decided
<1>1. ASSUME ChangeTree \/ Tick PROVE FALSE
  BY <1>1, TreeSteps DEF IInv, TreeStep, evalVars
<1>2. ASSUME NEW n \in Levels, Resolve(n) PROVE FALSE
  BY <1>2, ResolveIsLocal DEF IInv, OneHop
<1> QED
  BY <1>1, <1>2 DEF Next, Ask

\* What a finished resolve() answers: only "ok" leaves a hop to be judged.
LEMMA AnsweredHop ==
  ASSUME NEW n \in Levels, HopInv(n), stage[n] = "done"
  PROVE  /\ answer[n].kind \in {"ok", "unresolvable", "expiry"}
         /\ answer[n].kind = "ok" =>
              /\ \A k \in TextKeys \cup {"expiry"} : \E f \in got[n] : f[1] = k
              /\ \A f \in got[n] : f[1] \in {"budget", "maxPerCall"} => f[2] # Unset
              /\ backend = "ens" => reached[n] = n
              /\ \A m \in 1..(reached[n] - 1) : <<"linked", TRUE>> \in was[m]
<1>1. ASSUME NEW kind, NEW m PROVE [kind |-> kind, node |-> m].kind = kind
  OBVIOUS
<1>2. \/ /\ answer[n].kind = "ok"
         /\ \A k \in TextKeys \cup {"expiry"} : \E f \in got[n] : f[1] = k
         /\ \A f \in got[n] : f[1] \in {"budget", "maxPerCall"} => f[2] # Unset
         /\ backend = "ens" => reached[n] = n
      \/ answer[n].kind \in {"unresolvable", "expiry"}
  BY <1>1 DEF HopInv
<1>3. \A m \in 1..(reached[n] - 1) : <<"linked", TRUE>> \in was[m]
  BY DEF HopInv
<1>4. CASE answer[n].kind = "ok"
  BY <1>2, <1>3, <1>4
<1>5. CASE answer[n].kind # "ok"
  BY <1>2, <1>5
<1> QED
  BY <1>4, <1>5

\* guard.rs:4-10.  Whatever changes under the evaluation, an approval rests
\* on facts that each held of their hop at some instant of it.
THEOREM ApprovalsHeld == Spec => ApprovalHeld
<1> USE TreeAssumption
<1>1. ASSUME IInv, [Next]_vars
      PROVE  [Decided /\ verdict'.kind = "approved" =>
                \A n \in 1..agent :
                  /\ \A k \in {"expiry", "budget", "maxPerCall"} : AllowedOnce(n, k)
                  /\ AllowedOnce(n, "assets") \/ n \in failed
                  /\ backend = "ens" /\ n < agent => <<"linked", TRUE>> \in was[n]]_vars
  <2> SUFFICES ASSUME Next, Decided, verdict'.kind = "approved", NEW n \in 1..agent
               PROVE  /\ \A k \in {"expiry", "budget", "maxPerCall"} : AllowedOnce(n, k)
                      /\ AllowedOnce(n, "assets") \/ n \in failed
                      /\ backend = "ens" /\ n < agent => <<"linked", TRUE>> \in was[n]
    BY <1>1
  <2>1. Decide
    BY <1>1, DecidedIsDecide
  <2>2. agent \in Levels /\ n \in Levels /\ n <= agent
    BY <1>1 DEF IInv, TypeOK, Levels, Decided
  <2>3. \A m \in Levels : HopInv(m)
    BY <1>1 DEF IInv, EvalInv, Decided
  <2>4. \A m \in Chain(agent) : m \in Levels /\ stage[m] = "done"
    BY <2>1, <2>2 DEF Decide, Chain, Levels
  <2>5. \A m \in Chain(agent) : answer[m].kind # "approved"
    BY <2>3, <2>4, AnsweredHop
  <2>6. Broken = {} /\ \A i \in 1..4 : Failing(Rank[i]) = {}
    <3>1. ASSUME NEW m \in Levels, Nearest(m, Broken), verdict' = answer[m] PROVE FALSE
      BY <2>5, <3>1 DEF Nearest, Broken
    <3>2. ASSUME NEW i \in 1..4, NEW m \in Levels, verdict' = [kind |-> Rank[i], node |-> m]
          PROVE  FALSE
      BY <3>2 DEF Rank
    <3> QED
      BY <2>1, <3>1, <3>2 DEF Decide
  <2>7. \A m \in Chain(agent) : HopInv(m) /\ stage[m] = "done" /\ answer[m].kind = "ok"
    BY <2>3, <2>4, <2>6 DEF Broken
  <2>11. n \in Chain(agent) /\ agent \in Chain(agent)
    BY <2>2 DEF Chain, Levels
  <2>8. /\ \A k \in TextKeys \cup {"expiry"} : \E f \in got[n] : f[1] = k
        /\ \A f \in got[n] : f[1] \in {"budget", "maxPerCall"} => f[2] # Unset
    BY <2>2, <2>7, <2>11, AnsweredHop
  <2>9. ASSUME NEW k \in TextKeys \cup {"expiry"}
        PROVE  AllowedOnce(n, k) \/ (k = "assets" /\ n \in failed)
    <3>1. PICK f \in got[n] : f[1] = k
      BY <2>8
    <3>2. f \in Fact /\ f \in was[n] \cup Missed(n)
      BY <1>1, <2>2, <2>3 DEF IInv, TypeOK, HopInv
    <3>3. f[2] # Unset
      BY <2>8, <3>1, <3>2 DEF TextKeys, Fact
    <3>4. ~Refuses(n, f)
      <4>1. Failing(k) = {}
        <5>1. /\ Rank[1] = "expiry" /\ Rank[2] = "assets"
              /\ Rank[3] = "budget" /\ Rank[4] = "maxPerCall"
          BY DEF Rank
        <5> QED
          BY <2>6, <5>1 DEF TextKeys
      <4> QED
        BY <2>11, <3>1, <4>1 DEF Failing
    <3>5. CASE f \in was[n]
      BY <3>1, <3>3, <3>4, <3>5 DEF AllowedOnce
    <3>6. CASE f \in Missed(n)
      <4>1. f = <<"assets", "unset">> /\ n \in failed
        BY <3>6 DEF Missed
      <4> QED
        BY <3>1, <4>1
    <3> QED
      BY <3>2, <3>5, <3>6
  <2>10. backend = "ens" /\ n < agent => <<"linked", TRUE>> \in was[n]
    <3> SUFFICES ASSUME backend = "ens", n < agent PROVE <<"linked", TRUE>> \in was[n]
      OBVIOUS
    <3>1. /\ reached[agent] = agent
          /\ \A m \in 1..(reached[agent] - 1) : <<"linked", TRUE>> \in was[m]
      <4>1. HopInv(agent) /\ stage[agent] = "done" /\ answer[agent].kind = "ok"
        BY <2>7, <2>11
      <4> QED
        BY <2>2, <4>1, AnsweredHop
    <3>2. n \in 1..(agent - 1)
      BY <2>2 DEF Levels
    <3> QED
      BY <3>1, <3>2
  <2> QED
    BY <2>9, <2>10 DEF TextKeys
<1> QED
  BY <1>1, TreeInvariant, PTL DEF Spec, ApprovalHeld

\* A reason that held, or the one that may be said of a name that led nowhere.
Explained(n, kind) == Cause(n, kind) \/ (kind = "expiry" /\ LedNowhere(n))

\* guard.rs:69-76.  A refusal names a hop of the chain, and a reason that
\* held of it at some instant of the evaluation; only "expired" is also said
\* of a live hop that led nowhere.
THEOREM BlameHasGrounds == Spec => BlameIsExplained
<1> USE TreeAssumption
<1>1. ASSUME IInv, [Next]_vars
      PROVE  [Decided /\ verdict'.kind # "approved" =>
                verdict'.node \in 1..agent /\ Explained(verdict'.node, verdict'.kind)]_vars
  <2> SUFFICES ASSUME Next, Decided, verdict'.kind # "approved"
               PROVE  verdict'.node \in 1..agent /\ Explained(verdict'.node, verdict'.kind)
    BY <1>1
  <2>1. Decide
    BY <1>1, DecidedIsDecide
  <2>2. agent \in Levels
    BY <1>1 DEF IInv, TypeOK, Levels, Decided
  <2>3. \A m \in Levels : HopInv(m)
    BY <1>1 DEF IInv, EvalInv, Decided
  <2>4. \A m \in Chain(agent) : m \in Levels /\ m \in 1..agent /\ stage[m] = "done"
    BY <2>1, <2>2 DEF Decide, Chain, Levels
  <2>5. ASSUME NEW n \in Levels, Nearest(n, Broken), verdict' = answer[n]
        PROVE  verdict'.node \in 1..agent /\ Explained(verdict'.node, verdict'.kind)
    <3>1. n \in Chain(agent) /\ answer[n].kind # "ok" /\ stage[n] = "done"
      BY <2>4, <2>5 DEF Nearest, Broken
    <3>2. CASE answer[n] = [kind |-> "unresolvable", node |-> n] /\ Unresolved(n)
      BY <2>4, <2>5, <3>1, <3>2 DEF Explained, Cause, Unresolved
    <3>3. CASE answer[n] = [kind |-> "expiry", node |-> n] /\ Lapsed(n)
      <4>1. PICK f \in was[n] : f[1] = "expiry" /\ f[2] <= now
        BY <3>3 DEF Lapsed
      <4>2. f \in Fact
        BY <1>1 DEF IInv, TypeOK
      <4>3. f[2] # Unset
        BY <4>1, <4>2 DEF Fact
      <4>4. Cause(n, "expiry")
        BY <4>1, <4>3 DEF Cause, Refuses
      <4> QED
        BY <2>4, <2>5, <3>1, <3>3, <4>4 DEF Explained
    <3>4. CASE \E m \in 1..(n - 1) : /\ answer[n] = [kind |-> "expiry", node |-> m]
                                     /\ <<"linked", FALSE>> \in was[m]
      <4>1. PICK m \in 1..(n - 1) : /\ answer[n] = [kind |-> "expiry", node |-> m]
                                    /\ <<"linked", FALSE>> \in was[m]
        BY <3>4
      <4>2. m < agent /\ m \in 1..agent
        BY <2>2, <2>4, <3>1, <4>1 DEF Levels
      <4>3. Explained(m, "expiry")
        BY <4>1, <4>2 DEF Explained, LedNowhere
      <4> QED
        BY <2>5, <4>1, <4>2, <4>3
    <3> QED
      BY <2>3, <3>1, <3>2, <3>3, <3>4 DEF HopInv
  <2>6. ASSUME NEW i \in 1..4, NEW n \in Levels, Nearest(n, Failing(Rank[i])),
               verdict' = [kind |-> Rank[i], node |-> n]
        PROVE  verdict'.node \in 1..agent /\ Explained(verdict'.node, verdict'.kind)
    <3>1. PICK f \in got[n] : f[1] = Rank[i] /\ Refuses(n, f)
      BY <2>6 DEF Nearest, Failing
    <3>2. n \in 1..agent
      BY <2>4, <2>6 DEF Nearest, Failing
    <3>3. f \in was[n] \cup Missed(n)
      BY <2>3 DEF HopInv
    <3>4. Rank[i] \in TextKeys \cup {"expiry"}
      BY DEF Rank, TextKeys
    <3>5. Cause(n, Rank[i])
      <4>1. CASE f \in was[n]
        BY <3>1, <3>4, <4>1 DEF Cause
      <4>2. CASE f \in Missed(n)
        BY <3>1, <4>2 DEF Cause, Missed
      <4> QED
        BY <3>3, <4>1, <4>2
    <3> QED
      BY <2>6, <3>2, <3>5 DEF Explained
  <2> QED
    BY <2>1, <2>5, <2>6 DEF Decide
<1> QED
  BY <1>1, TreeInvariant, PTL DEF Spec, BlameIsExplained, Explained
=============================================================================
