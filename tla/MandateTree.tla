----------------------------- MODULE MandateTree -----------------------------
(***************************************************************************)
(* One path of the mandate tree, from the root (level 1) down to an agent, *)
(* and MandateGuard's evaluation of a payment against it.                  *)
(*                                                                         *)
(* The tree is ENSv2 registries filled through the MandateRegistrar, or    *)
(* the gateway's MockResolver.  An evaluation reads every hop at once, each *)
(* with several calls, so the tree may change between any two of them.     *)
(* Clocks agree: block.timestamp and the gateway's time are one variable.  *)
(* allowedServices is tested like maxPerCall and is left out; so is        *)
(* ratePerMinute, which the guard never looks at.                          *)
(***************************************************************************)
EXTENDS Naturals

CONSTANTS
  Depth,       \* levels of the path
  Deployments, \* how many levels the deploy script may have minted
  Term,        \* Term[n]: the expiry the script gives level n
  Grant,       \* Grant[n]: the policy records it writes
  Policies,    \* policy records that may be written later
  Amounts,     \* what an agent may ask to spend
  Spent,       \* Spent[n]: the spending evaluate() is handed
  InTreeAsset, \* whether the payment is in the asset of the budgets
  Backends,    \* MANDATE_MODE: "ens" or "mock"
  MaxTime,     \* bound: the last instant of the clock
  MaxTxs,      \* bound: changes of the tree
  Unset        \* a text record that was never written

Levels == 1..Depth
Policy == [budget : Nat \cup {Unset}, maxPerCall : Nat \cup {Unset},
           assets : {"unset", "listed", "other"}]

ASSUME TreeAssumption ==
  /\ Depth \in Nat \ {0}
  /\ Deployments \subseteq Levels
  /\ Term \in [Levels -> Nat]
  /\ Grant \in [Levels -> Policy]
  /\ Policies \subseteq Policy
  /\ Amounts \subseteq Nat
  /\ Spent \in [Levels -> Nat]
  /\ InTreeAsset \in BOOLEAN
  /\ Backends \subseteq {"ens", "mock"}
  /\ MaxTime \in Nat
  /\ MaxTxs \in Nat
  /\ Unset \notin Nat \cup BOOLEAN \cup {"unset", "listed", "other"}

VARIABLES
  backend,  \* which resolver the guard was built with
  now,
  expiry,   \* registered until; 0 for a name that never was
  linked,   \* whether the name's subregistry pointer is set
  policy,   \* its text records
  txs,      \* changes of the tree so far
  agent,    \* level of the agent under evaluation, 0 for none
  amount,   \* what it asks for
  stage,    \* how far resolve() got for a hop
  reached,  \* the level whose registry its walk down has come to
  got,      \* facts read about a hop, <<key, value>>
  answer,   \* what resolve() returned for it
  failed,   \* hops on which an RPC call failed
  was,      \* history: facts true of a hop at some instant of the evaluation
  verdict   \* the last decision

treeVars == <<backend, now, expiry, linked, policy, txs>>
evalVars == <<agent, amount, stage, reached, got, answer, failed>>
vars == <<treeVars, evalVars, was, verdict>>

EntryKeys == {"expiry", "resolver"}
TextKeys == {"budget", "maxPerCall", "assets"}
Fact == ({"expiry"} \X Nat) \cup ({"resolver", "linked"} \X BOOLEAN)
          \cup ({"budget", "maxPerCall"} \X (Nat \cup {Unset}))
          \cup ({"assets"} \X {"unset", "listed", "other"})
Nobody == [kind |-> "none", node |-> 0]
Kinds == {"none", "ok", "approved", "unresolvable", "expiry"} \cup TextKeys

TypeOK ==
  /\ backend \in {"ens", "mock"}
  /\ now \in 0..MaxTime
  /\ expiry \in [Levels -> Nat]
  /\ linked \in [Levels -> BOOLEAN]
  /\ policy \in [Levels -> Policy]
  /\ txs \in 0..MaxTxs
  /\ agent \in 0..Depth
  /\ amount \in Nat
  /\ stage \in [Levels -> {"idle", "walk", "gone", "entry", "records", "done"}]
  /\ reached \in [Levels -> Levels]
  /\ got \in [Levels -> SUBSET Fact]
  /\ was \in [Levels -> SUBSET Fact]
  /\ answer \in [Levels -> [kind : Kinds, node : 0..Depth]]
  /\ failed \in SUBSET Levels
  /\ verdict \in [kind : Kinds, node : 0..Depth]

-----------------------------------------------------------------------------
(* The registries, as the gateway's calls see them. *)

Alive(n) == expiry[n] > now

\* getSubregistry and getResolver give zero for a name that has expired.
Linked(n) == linked[n] /\ Alive(n)

\* What is true of level n: what a call made now would return.
Facts(n) ==
  {<<"expiry", expiry[n]>>, <<"resolver", Alive(n)>>, <<"linked", Linked(n)>>}
    \cup {<<k, policy[n][k]>> : k \in TextKeys}

Remember ==
  was' = [n \in Levels |-> IF agent = 0 THEN {} ELSE was[n] \cup Facts(n)']

NoPolicy == [budget |-> Unset, maxPerCall |-> Unset, assets |-> "unset"]

\* DeployMandate.s.sol, or a mock resolver nobody has seeded.
Init ==
  /\ backend \in Backends
  /\ \E d \in Deployments :
       /\ expiry = [n \in Levels |-> IF backend = "ens" /\ n <= d THEN Term[n] ELSE 0]
       /\ linked = [n \in Levels |-> backend = "ens" /\ n < d]
       /\ policy = [n \in Levels |-> IF backend = "ens" /\ n <= d THEN Grant[n] ELSE NoPolicy]
  /\ now = 0
  /\ txs = 0
  /\ agent = 0
  /\ amount = 0
  /\ stage = [n \in Levels |-> "idle"]
  /\ reached = [n \in Levels |-> 1]
  /\ got = [n \in Levels |-> {}]
  /\ answer = [n \in Levels |-> Nobody]
  /\ failed = {}
  /\ was = [n \in Levels |-> {}]
  /\ verdict = Nobody

Transaction(kind) ==
  /\ backend = kind
  /\ txs < MaxTxs
  /\ txs' = txs + 1
  /\ UNCHANGED <<backend, now, evalVars, verdict>>
  /\ Remember

\* MandateRegistrar.registerChild.  The resolver it is given may still hold
\* the records of an earlier mandate of this name.
RegisterChild(n, e, b) ==
  /\ n > 1
  /\ Alive(n - 1)
  /\ e > now /\ e <= expiry[n - 1]
  /\ policy[n - 1].budget # Unset
  /\ b <= policy[n - 1].budget
  /\ ~Alive(n)
  /\ expiry' = [expiry EXCEPT ![n] = e]
  /\ linked' = [linked EXCEPT ![n] = FALSE]
  /\ policy' \in {policy, [policy EXCEPT ![n] = NoPolicy]}
  /\ Transaction("ens")

\* The resolver multicall that follows a mint, or a later edit by a holder
\* of the resolver's roles.
WriteRecords(n, p) ==
  /\ expiry[n] # 0
  /\ policy' = [policy EXCEPT ![n] = p]
  /\ UNCHANGED <<expiry, linked>>
  /\ Transaction("ens")

SetSubregistry(n) ==
  /\ Alive(n)
  /\ linked' = [linked EXCEPT ![n] = TRUE]
  /\ UNCHANGED <<expiry, policy>>
  /\ Transaction("ens")

\* wallet.ts revoke.
Unregister(n) ==
  /\ Alive(n)
  /\ expiry' = [expiry EXCEPT ![n] = now]
  /\ UNCHANGED <<linked, policy>>
  /\ Transaction("ens")

Renew(n, e) ==
  /\ expiry[n] # 0
  /\ e > now
  /\ expiry' = [expiry EXCEPT ![n] = e]
  /\ UNCHANGED <<linked, policy>>
  /\ Transaction("ens")

\* MockResolver.set and revoke.
Set(n, p, e) ==
  /\ p.budget # Unset /\ p.maxPerCall # Unset
  /\ policy' = [policy EXCEPT ![n] = [p EXCEPT !.assets = "unset"]]
  /\ expiry' = [expiry EXCEPT ![n] = e]
  /\ UNCHANGED linked
  /\ Transaction("mock")

RevokeMock(n) ==
  /\ policy[n].budget # Unset
  /\ expiry' = [expiry EXCEPT ![n] = 0]
  /\ UNCHANGED <<linked, policy>>
  /\ Transaction("mock")

Tick ==
  /\ now < MaxTime
  /\ now' = now + 1
  /\ UNCHANGED <<backend, expiry, linked, policy, txs, evalVars, verdict>>
  /\ Remember

-----------------------------------------------------------------------------
(* EnsResolver.resolve for each hop, all hops of an evaluation in parallel. *)

Read(n, f) == got' = [got EXCEPT ![n] = @ \cup {f}]
Known(n) == {f[1] : f \in got[n]}
MoveTo(n, s) == stage' = [stage EXCEPT ![n] = s]
Answer(n, kind, node) ==
  /\ answer' = [answer EXCEPT ![n] = [kind |-> kind, node |-> node]]
  /\ MoveTo(n, "done")

\* evaluate() begins: join_all starts a resolve() for every hop.
Ask(a, x) ==
  /\ agent = 0
  /\ agent' = a
  /\ amount' = x
  /\ stage' = [n \in Levels |-> IF n <= a THEN "walk" ELSE "idle"]
  /\ was' = [n \in Levels |-> Facts(n)]
  /\ verdict' = Nobody
  /\ UNCHANGED <<treeVars, reached, got, answer, failed>>

\* One getSubregistry call of the walk down.
Descend(n) ==
  /\ backend = "ens"
  /\ stage[n] = "walk"
  /\ \/ /\ reached[n] = n
        /\ MoveTo(n, "entry")
        /\ UNCHANGED reached
     \/ /\ reached[n] < n
        /\ Linked(reached[n])
        /\ reached' = [reached EXCEPT ![n] = @ + 1]
        /\ UNCHANGED stage
     \/ /\ reached[n] < n
        /\ ~Linked(reached[n])
        /\ MoveTo(n, "gone")
        /\ UNCHANGED reached
  /\ UNCHANGED <<treeVars, agent, amount, got, answer, failed, was, verdict>>

\* Mutant of BlameAncestor: the name that walks through is blamed.
BlameLeaf(n) ==
  /\ stage[n] = "gone"
  /\ IF expiry[reached[n]] = 0 THEN Answer(n, "unresolvable", n)
                               ELSE Answer(n, "expiry", n)
  /\ UNCHANGED <<treeVars, agent, amount, reached, got, failed, was, verdict>>

\* Nothing below: the pointer's owner was never registered, or it is blamed.
BlameAncestor(n) ==
  /\ stage[n] = "gone"
  /\ IF expiry[reached[n]] = 0 THEN Answer(n, "unresolvable", n)
                               ELSE Answer(n, "expiry", reached[n])
  /\ UNCHANGED <<treeVars, agent, amount, reached, got, failed, was, verdict>>

\* getExpiry and getResolver, in either order; the five texts, in any order.
ReadFact(n, f) ==
  /\ f \in Facts(n)
  /\ f[1] \notin Known(n)
  /\ \/ stage[n] = "entry" /\ f[1] \in EntryKeys
     \/ stage[n] = "records" /\ f[1] \in TextKeys
  /\ Read(n, f)
  /\ UNCHANGED <<treeVars, agent, amount, stage, reached, answer, failed, was, verdict>>

\* A failed read of allowedAssets counts as a record that is not there.
MissAssets(n) ==
  /\ stage[n] = "records"
  /\ "assets" \notin Known(n)
  /\ Read(n, <<"assets", "unset">>)
  /\ failed' = failed \cup {n}
  /\ UNCHANGED <<treeVars, agent, amount, stage, reached, answer, was, verdict>>

\* Any other call fails: MandateError::Backend.
FailRead(n) ==
  /\ \/ stage[n] = "walk" /\ reached[n] < n
     \/ stage[n] = "gone"
     \/ stage[n] = "entry" /\ ~(EntryKeys \subseteq Known(n))
     \/ stage[n] = "records" /\ ~({"budget", "maxPerCall"} \subseteq Known(n))
  /\ backend = "ens"
  /\ Answer(n, "unresolvable", n)
  /\ failed' = failed \cup {n}
  /\ UNCHANGED <<treeVars, agent, amount, reached, got, was, verdict>>

\* Expiry is judged first; then a resolver that reads back as zero.
JudgeEntry(n) ==
  /\ stage[n] = "entry"
  /\ EntryKeys \subseteq Known(n)
  /\ \E f \in got[n] :
       /\ f[1] = "expiry"
       /\ \/ f[2] = 0 /\ Answer(n, "unresolvable", n)
          \/ /\ f[2] # 0
             /\ f[2] <= now
             /\ Answer(n, "expiry", n)
          \/ /\ f[2] > now
             /\ IF <<"resolver", TRUE>> \in got[n]
                  THEN MoveTo(n, "records") /\ UNCHANGED answer
                  ELSE Answer(n, "unresolvable", n)
  /\ UNCHANGED <<treeVars, agent, amount, reached, got, failed, was, verdict>>

\* A budget or a limit that is not a number is a Backend error too.
JudgeRecords(n) ==
  /\ stage[n] = "records"
  /\ TextKeys \subseteq Known(n)
  /\ IF \E f \in got[n] : f[2] = Unset THEN Answer(n, "unresolvable", n)
                                       ELSE Answer(n, "ok", n)
  /\ UNCHANGED <<treeVars, agent, amount, reached, got, failed, was, verdict>>

\* MockResolver.resolve: one look into the map.
Lookup(n) ==
  /\ backend = "mock"
  /\ stage[n] = "walk"
  /\ IF policy[n].budget = Unset
       THEN Answer(n, "unresolvable", n) /\ UNCHANGED got
       ELSE Answer(n, "ok", n) /\ got' = [got EXCEPT ![n] = Facts(n)]
  /\ UNCHANGED <<treeVars, agent, amount, reached, failed, was, verdict>>

-----------------------------------------------------------------------------
(* The decision. *)

Chain(a) == 1..a

Permits(assets) == assets = "listed" \/ (assets = "unset" /\ InTreeAsset)

\* A fact about level n that speaks against the payment.
Refuses(n, f) ==
  /\ f[2] # Unset
  /\ \/ f[1] = "expiry" /\ f[2] <= now
     \/ f[1] = "assets" /\ ~Permits(f[2])
     \/ f[1] = "budget" /\ Spent[n] + amount > f[2]
     \/ f[1] = "maxPerCall" /\ amount > f[2]

\* Mutant of Failing: only the agent's own record is tested.
FailingAgent(k) == {n \in {agent} : \E f \in got[n] : f[1] = k /\ Refuses(n, f)}

Failing(k) == {n \in Chain(agent) : \E f \in got[n] : f[1] = k /\ Refuses(n, f)}

\* What is looked at first: alive, then what is bought, then how much.
Rank == <<"expiry", "assets", "budget", "maxPerCall">>

\* The walk goes up from the agent, so the hop nearest to it is named.
Nearest(n, S) == n \in S /\ \A m \in S : m <= n

Broken == {n \in Chain(agent) : answer[n].kind # "ok"}

Decide ==
  /\ agent # 0
  /\ \A n \in Chain(agent) : stage[n] = "done"
  /\ \/ \E n \in Levels : Nearest(n, Broken) /\ verdict' = answer[n]
     \/ /\ Broken = {}
        /\ \E i \in 1..4, n \in Levels :
             /\ Nearest(n, Failing(Rank[i]))
             /\ \A j \in 1..(i - 1) : Failing(Rank[j]) = {}
             /\ verdict' = [kind |-> Rank[i], node |-> n]
     \/ /\ Broken = {}
        /\ \A i \in 1..4 : Failing(Rank[i]) = {}
        /\ verdict' = [kind |-> "approved", node |-> agent]
  /\ agent' = 0
  /\ amount' = 0
  /\ stage' = [n \in Levels |-> "idle"]
  /\ reached' = [n \in Levels |-> 1]
  /\ got' = [n \in Levels |-> {}]
  /\ answer' = [n \in Levels |-> Nobody]
  /\ failed' = {}
  /\ was' = [n \in Levels |-> {}]
  /\ UNCHANGED treeVars

-----------------------------------------------------------------------------
ChangeTree ==
  \E n \in Levels :
    \/ \E e \in 1..(MaxTime + 1), p \in Policies : RegisterChild(n, e, p.budget)
    \/ \E p \in Policies : WriteRecords(n, p)
    \/ SetSubregistry(n) \/ Unregister(n) \/ RevokeMock(n)
    \/ \E e \in 1..(MaxTime + 1) : Renew(n, e)
    \/ \E e \in 0..(MaxTime + 1), p \in Policies : Set(n, p, e)

Resolve(n) ==
  \/ Descend(n) \/ BlameAncestor(n) \/ MissAssets(n) \/ FailRead(n)
  \/ JudgeEntry(n) \/ JudgeRecords(n) \/ Lookup(n)
  \/ \E f \in Facts(n) : ReadFact(n, f)

Next ==
  \/ ChangeTree \/ Tick \/ Decide
  \/ \E a \in Levels, x \in Amounts : Ask(a, x)
  \/ \E n \in Levels : Resolve(n)

Spec == Init /\ [][Next]_vars

-----------------------------------------------------------------------------
(* Properties. *)

Decided == agent # 0 /\ agent' = 0

\* Some instant of the evaluation did not speak against n on this key.
AllowedOnce(n, k) ==
  \E f \in was[n] : f[1] = k /\ f[2] # Unset /\ ~Refuses(n, f)

\* guard.rs:4-10.  The hops are read at different instants while the tree
\* changes.  Even so no payment is approved unless each test held of each hop
\* at some instant of this very evaluation, on an expiry that is still ahead
\* when it is approved, and each name led to the next.  So a revocation
\* reaches the next check.  (A failed read of allowedAssets is an exception.)
ApprovalHeld ==
  [][Decided /\ verdict'.kind = "approved" =>
       \A n \in 1..agent :
         /\ \A k \in {"expiry", "budget", "maxPerCall"} : AllowedOnce(n, k)
         /\ AllowedOnce(n, "assets") \/ n \in failed
         /\ backend = "ens" /\ n < agent => <<"linked", TRUE>> \in was[n]]_vars

\* What makes this reason true of level n.
Cause(n, kind) ==
  \/ kind \in TextKeys \cup {"expiry"} /\ \E f \in was[n] : f[1] = kind /\ Refuses(n, f)
  \/ kind = "assets" /\ n \in failed
  \/ kind = "unresolvable" /\ \/ n \in failed
                              \/ <<"expiry", 0>> \in was[n]
                              \/ <<"resolver", FALSE>> \in was[n]
                              \/ \E f \in was[n] : f[2] = Unset
                              \/ \E m \in 1..(n - 1) : <<"linked", FALSE>> \in was[m]

\* A name the agent hangs from whose pointer read as zero, be it expired or
\* live and never given a subregistry.
LedNowhere(n) == n < agent /\ <<"linked", FALSE>> \in was[n]

\* guard.rs:69-76.  A refusal names a hop of the chain and a reason that held
\* of it at some instant of this very evaluation, with one exception: a hop
\* above the agent that led nowhere is called expired, though it may be live
\* and have no subregistry.
BlameIsExplained ==
  [][Decided /\ verdict'.kind # "approved" =>
       /\ verdict'.node \in 1..agent
       /\ \/ Cause(verdict'.node, verdict'.kind)
          \/ verdict'.kind = "expiry" /\ LedNowhere(verdict'.node)]_vars

\* ens.rs:15-19: "Dead ancestors are attributed precisely: [...] an expired
\* entry surfaces as `AncestorExpired`".  Not so: a hop that is called expired
\* need not have expired at any instant of the evaluation.
ExpiredMeansExpired ==
  [][Decided /\ verdict'.kind = "expiry" => Cause(verdict'.node, "expiry")]_vars

=============================================================================
