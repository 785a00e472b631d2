------------------------------ MODULE DemoPages ------------------------------
(***************************************************************************)
(* What the dashboard's pages make of the demo store: the agent list and   *)
(* its table, an agent's tabs and the overview.  They hold no state a      *)
(* property needs; each is a function of the store and of what the reader  *)
(* picked.                                                                 *)
(***************************************************************************)
EXTENDS DemoStore

Status(a) == DeriveStatus(agents, a, now)
Lapsed(a) == Status(a) \in {"revoked", "expired"}

-----------------------------------------------------------------------------
(* pages/Agents.tsx *)

\* Depth first, then whatever no root leads to.
Ordered ==
  LET walk[a \in DOMAIN agents] ==
        LET kids == Kids(agents, a)
        IN <<a>> \o FlattenSeq([i \in DOMAIN kids |-> walk[kids[i]]])
      roots == SetToSeq(RootAgents(agents))
      reached == FlattenSeq([i \in DOMAIN roots |-> walk[roots[i]]])
  IN reached \o SetToSeq(DOMAIN agents \ ToSet(reached))

TypeOf(a) ==
  IF agents[a].parent = NoAgent THEN "root"
  ELSE IF agents[a].children # << >> THEN "delegating" ELSE "leaf"

\* The three menus; the search box is left out.
Filtered(status, parent, type) ==
  SelectSeq(Ordered, LAMBDA a : /\ status \in {"all", Status(a)}
                                /\ parent \in {"all", agents[a].parent}
                                /\ type \in {"all", TypeOf(a)})

\* A row of AgentTable, with the two items of its menu that may be disabled.
TableRow(a) ==
  LET stats == StatsFor(agents, a)
  IN [depth |-> Len(Ancestors(agents, a)),
      spent |-> stats.spent,
      status |-> Status(a),
      createChild |-> ~Lapsed(a) /\ stats.available > 0,
      revoke |-> Status(a) # "revoked"]

\* The lines of AgentTree; a dead one is dashed.  It looks at the stored status,
\* so a line may be full that leads to a card greyed for its expiry.
TreeLines ==
  {[parent |-> agents[a].parent, child |-> a, amount |-> agents[a].authority,
    dead |-> agents[a].status = "revoked"] : a \in DOMAIN agents \ RootAgents(agents)}

-----------------------------------------------------------------------------
(* pages/AgentDetail.tsx *)

\* The card on top: its figures, and its meter part by part.
Headline(a) ==
  LET stats == StatsFor(agents, a)
      gone == Min({stats.spent, agents[a].authority})
  IN [spent |-> stats.spent, remaining |-> stats.remaining,
      legend |-> <<stats.spent, stats.reserved, stats.available>>,
      bar |-> <<gone, Min({agents[a].authority - gone, stats.reserved})>>]

SpendingTab(a) ==
  LET since(days) == SpentSince(events, {a}, StartOfDay(now) - days * DayLength)
  IN [today |-> SpentToday(events, {a}, now),
      week |-> since(6),
      month |-> since(29),
      trend |-> DailySpend(events, 14, {a}, now)]

\* A demo agent has one pair of limits, whatever it may buy.
PermissionsTab(a) ==
  [allowed |-> agents[a].services,
   transaction |-> IF agents[a].services = {} THEN 0 ELSE agents[a].transaction,
   daily |-> IF agents[a].services = {} THEN 0 ELSE agents[a].daily]

\* The delegation bar, its figures and the table under it.  The button looks at
\* the stored status: an agent that ran out of time may still be handed on from.
ChildrenTab(a) ==
  LET stats == StatsFor(agents, a)
  IN [canDelegate |-> stats.available > 0 /\ agents[a].status # "revoked",
      direct |-> agents[a].spent,
      delegated |-> stats.delegated,
      available |-> stats.available,
      rows |-> [c \in KidSet(agents, a) |->
                  [budget |-> agents[c].authority,
                   spent |-> RollupSpent(agents, c),
                   status |-> Status(c)]]]

-----------------------------------------------------------------------------
(* pages/Overview.tsx *)

Overview ==
  [totals |-> PortfolioTotals(agents, events, now),
   points |-> DailySpend(events, 14, DOMAIN agents, now),
   byAgent |-> SpendByAgent(agents)]
=============================================================================
