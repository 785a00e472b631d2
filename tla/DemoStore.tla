------------------------------ MODULE DemoStore ------------------------------
(***************************************************************************)
(* The dashboard's demo store, frontend lib/store.tsx: a tree of agents    *)
(* kept in the browser, and the three actions that change it.  A payment   *)
(* is decided by the store itself.  React runs one click at a time and     *)
(* commits it before the next, so an action is one step.                   *)
(*                                                                         *)
(* Names are left out, any may be taken, and of a policy all but the two    *)
(* limits requestPayment looks at; monthlyLimit is never tested.           *)
(***************************************************************************)
EXTENDS Selectors

CONSTANTS
  Ids,       \* what makeId may return, and the ids of the seed
  Seed,      \* data/mockData.ts: the first index
  SeedLog,   \* and the payments that explain its spending
  Policies,  \* policy id -> [transaction, daily]
  Services,  \* resources that can be bought, in the order of permissions
  Unset,     \* a limit the draft leaves out
  Instants,  \* bound: when the clock is looked at
  MaxEvents  \* bound: events after the seed

Resource == {Services[i] : i \in DOMAIN Services}

\* Agent and ActivityEvent.
AgentRecords ==
  [parent : Ids \cup {NoAgent}, children : Seq(Ids), authority : Nat, spent : Nat,
   status : {"active", "warning", "revoked"}, expires : Nat \cup {Never},
   services : SUBSET Resource, policy : DOMAIN Policies, transaction : Nat, daily : Nat]
EventRecords ==
  [kind : {"created", "delegated", "revoked", "approved", "blocked"}, agent : Ids,
   amount : Nat, at : Nat]

\* An agent lists those it is the parent of, and none is above itself.
IsTree(ix) ==
  /\ IsFiniteSet(DOMAIN ix)
  /\ \A a \in DOMAIN ix :
       /\ ix[a].parent \in DOMAIN ix \cup {NoAgent}
       /\ ToSet(ix[a].children) = {c \in DOMAIN ix : ix[c].parent = a}
  /\ \E depth \in [DOMAIN ix -> 0..Cardinality(DOMAIN ix)] :
       \A a \in DOMAIN ix : ix[a].parent # NoAgent => depth[ix[a].parent] < depth[a]

\* "Child authority always fits inside the parent's", beside what it spent.
AuthorityFits(ix) ==
  \A a \in DOMAIN ix : ix[a].spent + Delegated(ix, a) <= ix[a].authority

\* "Approved payments that add up, per agent, to exactly that agent's spend."
LogFits(ix, log) ==
  /\ \A i \in DOMAIN log : log[i].agent \in DOMAIN ix
  /\ \A a \in DOMAIN ix : ix[a].spent = SpentSince(log, {a}, 0)

\* The demo hierarchy is built that way, with nobody revoked.
ASSUME SeedAssumption ==
  /\ DOMAIN Seed \subseteq Ids
  /\ Seed \in [DOMAIN Seed -> AgentRecords]
  /\ SeedLog \in Seq(EventRecords)
  /\ IsTree(Seed)
  /\ AuthorityFits(Seed)
  /\ LogFits(Seed, SeedLog)
  /\ \A a \in DOMAIN Seed : Seed[a].status # "revoked"

ASSUME StoreAssumption ==
  /\ NoAgent \notin Ids
  /\ Never \notin Nat
  /\ Unset \notin Nat
  /\ Policies \in [DOMAIN Policies -> [transaction : Nat, daily : Nat]]
  /\ Services \in Seq(Resource) /\ Services # << >>
  /\ Instants \subseteq Nat
  /\ 0 \in Instants
  /\ MaxEvents \in Nat

VARIABLES
  now,
  agents,   \* the index
  events    \* newest first

storeVars == <<now, agents, events>>

StoreInit ==
  /\ now = 0
  /\ agents = Seed
  /\ events = SeedLog

\* A creation is two events; its second is not counted.
RoomLeft ==
  Cardinality({i \in DOMAIN events : events[i].kind # "created"})
    < MaxEvents + Len(SeedLog)

Tick ==
  /\ \E t \in Instants : /\ t > now
                         /\ \A u \in Instants : u > now => t <= u
                         /\ now' = t
  /\ UNCHANGED <<agents, events>>

Happened(kind, a, amount) == [kind |-> kind, agent |-> a, amount |-> amount, at |-> now]

-----------------------------------------------------------------------------
(* createAgent *)

\* Why a draft is turned down, but for a name already taken; the first that
\* applies is the message.  A draft that never expires is not held against the
\* parent's expiry.
Objections(d) ==
  LET parent == agents[d.parent] IN
  {o \in {"revoked", "budget", "available", "services", "past", "outlives"} :
     \/ o = "revoked" /\ parent.status = "revoked"
     \/ o = "budget" /\ d.authority = 0
     \/ o = "available" /\ d.authority > StatsFor(agents, d.parent).available
     \/ o = "services" /\ d.services = {}
     \/ o = "past" /\ Outlived(d.expires, now)
     \/ o = "outlives" /\ d.expires # Never /\ parent.expires # Never
                       /\ d.expires > parent.expires}

NewAgent(d) ==
  LET policy == agents[d.parent].policy
      limit(key) == IF d[key] = Unset THEN Policies[policy][key] ELSE d[key]
  IN [parent |-> d.parent, children |-> << >>, authority |-> d.authority, spent |-> 0,
      status |-> "active", expires |-> d.expires, services |-> d.services,
      policy |-> policy,
      transaction |-> limit("transaction"), daily |-> limit("daily")]

CreateAgent(d, id) ==
  /\ Objections(d) = {}
  /\ id \notin DOMAIN agents
  /\ agents' = [a \in DOMAIN agents \cup {id} |->
                  IF a = id THEN NewAgent(d)
                  ELSE IF a = d.parent
                    THEN [agents[a] EXCEPT !.children = Append(@, id)]
                    ELSE agents[a]]
  /\ events' = <<Happened("delegated", d.parent, d.authority),
                 Happened("created", d.parent, 0)>> \o events

-----------------------------------------------------------------------------
(* revokeAgent *)

\* Mutant of Doomed: only the agent's own children go with it.
DoomedChildren(a) == {a} \cup KidSet(agents, a)

Doomed(a) == {a} \cup Descendants(agents, a)

RevokeAgent(a) ==
  /\ agents' = [b \in DOMAIN agents |->
                  IF b \in Doomed(a) THEN [agents[b] EXCEPT !.status = "revoked"]
                                     ELSE agents[b]]
  /\ events' = <<Happened("revoked", a, 0)>> \o events

-----------------------------------------------------------------------------
(* requestPayment *)

\* The tests, the first that fails is the reason given.  Only the agent itself is
\* looked at, not the path.
Tests == <<"revoked", "expired", "service", "transaction", "daily", "authority">>

Breaches(a, amount, service) ==
  {t \in {Tests[i] : i \in DOMAIN Tests} :
     \/ t = "revoked" /\ agents[a].status = "revoked"
     \/ t = "expired" /\ Outlived(agents[a].expires, now)
     \/ t = "service" /\ service \notin agents[a].services
     \/ t = "transaction" /\ amount > agents[a].transaction
     \/ t = "daily" /\ SpentToday(events, {a}, now) + amount > agents[a].daily
     \/ t = "authority" /\ amount > StatsFor(agents, a).available}

Charge(a, amount) == agents' = [agents EXCEPT ![a].spent = @ + amount]

RequestPayment(a, amount, service) ==
  IF Breaches(a, amount, service) = {}
    THEN /\ Charge(a, amount)
         /\ events' = <<Happened("approved", a, amount)>> \o events
    ELSE /\ events' = <<Happened("blocked", a, amount)>> \o events
         /\ UNCHANGED agents
=============================================================================
