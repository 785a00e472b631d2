------------------------------ MODULE Selectors ------------------------------
(***************************************************************************)
(* The dashboard's derived figures, frontend lib/selectors.ts and          *)
(* lib/treeLayout.ts, as operators on                                      *)
(*   ix      an index: agent id -> [parent, children, authority, spent,    *)
(*           status, expires], children a sequence of ids;                 *)
(*   log     a sequence of events [kind, agent, amount, at].               *)
(* Amounts are whole micro-dollars, which is what round() keeps.  A         *)
(* recursive walk of the code is a recursive function on the index.        *)
(***************************************************************************)
EXTENDS Integers, Sequences, SequencesExt

CONSTANTS
  DayStarts, \* the local midnights
  DayLength, \* 86_400_000 ms
  NoAgent,   \* no parent
  Never      \* no expiry

ASSUME CalendarAssumption ==
  /\ DayStarts \subseteq Nat
  /\ 0 \in DayStarts
  /\ DayLength \in Nat \ {0}

Kids(ix, a) == SelectSeq(ix[a].children, LAMBDA c : c \in DOMAIN ix)
KidSet(ix, a) == ToSet(ix[a].children) \cap DOMAIN ix
Positive(x) == IF x > 0 THEN x ELSE 0
Added(f) == MapThenSumSet(LAMBDA x : f[x], DOMAIN f)

RootAgents(ix) == {a \in DOMAIN ix : ix[a].parent = NoAgent}

Descendants(ix, id) ==
  LET below[a \in DOMAIN ix] == UNION {{c} \cup below[c] : c \in KidSet(ix, a)}
  IN below[id]

\* Nearest first.
Ancestors(ix, id) ==
  LET above[a \in DOMAIN ix] ==
        IF ix[a].parent \in DOMAIN ix
          THEN <<ix[a].parent>> \o above[ix[a].parent]
          ELSE << >>
  IN above[id]

RollupSpent(ix, id) ==
  LET rollup[a \in DOMAIN ix] ==
        ix[a].spent + Added([c \in KidSet(ix, a) |-> rollup[c]])
  IN rollup[id]

DelegatedToAll(ix, a) == Added([c \in KidSet(ix, a) |-> ix[c].authority])

Delegated(ix, a) ==
  Added([c \in {k \in KidSet(ix, a) : ix[k].status # "revoked"} |-> ix[c].authority])

\* Mutant of Free: what was spent is there to be spent again.
FreeAfterSpending(ix, a) == Positive(ix[a].authority - Delegated(ix, a))

\* Neither spent nor delegated.
Free(ix, a) == Positive(ix[a].authority - ix[a].spent - Delegated(ix, a))

StatsFor(ix, a) ==
  LET spent == RollupSpent(ix, a)
      available == Free(ix, a)
  IN [delegated |-> Delegated(ix, a),
      spent |-> spent,
      available |-> available,
      reserved |-> Positive(ix[a].authority - spent - available),
      remaining |-> Positive(ix[a].authority - spent)]

Outlived(e, now) == e # Never /\ e <= now

\* "warning" from four fifths of the authority on.
DeriveStatus(ix, a, now) ==
  IF ix[a].status = "revoked" THEN "revoked"
  ELSE IF Outlived(ix[a].expires, now) THEN "expired"
  ELSE IF ix[a].authority > 0 /\ 5 * RollupSpent(ix, a) >= 4 * ix[a].authority
    THEN "warning"
  ELSE "active"

\* The agents under a root that something was spent under.
SpendByAgent(ix) ==
  [a \in {b \in DOMAIN ix : ix[b].parent # NoAgent /\ RollupSpent(ix, b) > 0} |->
     RollupSpent(ix, a)]

-----------------------------------------------------------------------------
(* Spending over time. *)

StartOfDay(t) == Max({d \in DayStarts : d <= t})

\* Mutant of ApprovedFor: payments that were blocked are taken for spending.
PaymentsFor(log, A) ==
  {i \in DOMAIN log : log[i].kind \in {"approved", "blocked"} /\ log[i].agent \in A}

ApprovedFor(log, A) == {i \in DOMAIN log : log[i].kind = "approved" /\ log[i].agent \in A}

SpentSince(log, A, since) ==
  Added([i \in {j \in ApprovedFor(log, A) : log[j].at >= since} |-> log[i].amount])

SpentToday(log, A, now) == SpentSince(log, A, StartOfDay(now))
SpentThisWeek(log, A, now) == SpentSince(log, A, StartOfDay(now) - 6 * DayLength)

\* One bar per day for the last `days` days, keyed by the day's first instant.
DailySpend(log, days, A, now) ==
  LET buckets == {StartOfDay(now) - i * DayLength : i \in 0..(days - 1)}
  IN [day \in buckets |->
        Added([i \in {j \in ApprovedFor(log, A) : StartOfDay(log[j].at) = day} |->
                 log[i].amount])]

PortfolioTotals(ix, log, now) ==
  LET roots == RootAgents(ix)
      live == {a \in DOMAIN ix : ix[a].status \notin {"revoked", "expired"}}
  IN [authority |-> Added([a \in roots |-> ix[a].authority]),
      spent |-> Added([a \in DOMAIN ix |-> ix[a].spent]),
      delegated |-> Added([a \in roots |-> DelegatedToAll(ix, a)]),
      active |-> live,
      delegating |-> {a \in live : ix[a].children # << >>},
      today |-> SpentToday(log, DOMAIN ix, now),
      week |-> SpentThisWeek(log, DOMAIN ix, now)]

-----------------------------------------------------------------------------
(* layoutTree, in sixteenths of a pixel. *)

NodeWidth == 16 * 192
NodeHeight == 16 * 112
Pitch == NodeWidth + 16 * 18
Row == NodeHeight + 16 * 56

\* Mutant of Leaves: an inner node is as wide as its own children.
LeavesByKids(ix) ==
  [a \in DOMAIN ix |-> IF KidSet(ix, a) = {} THEN 1 ELSE Len(Kids(ix, a))]

\* How many columns a subtree moves the cursor on by.
Leaves(ix) ==
  LET n[a \in DOMAIN ix] ==
        IF KidSet(ix, a) = {} THEN 1 ELSE Added([c \in KidSet(ix, a) |-> n[c]])
  IN n

Place(ix) ==
  LET leaves == Leaves(ix)
      parent(c) == ix[c].parent
      older(c) == LET kids == Kids(ix, parent(c))
                  IN {kids[j] : j \in 1..(SelectInSeq(kids, LAMBDA k : k = c) - 1)}
      column[a \in DOMAIN ix] ==
        IF parent(a) \notin DOMAIN ix THEN 0
        ELSE column[parent(a)] + Added([b \in older(a) |-> leaves[b]])
      center[a \in DOMAIN ix] ==
        LET kids == Kids(ix, a)
        IN IF kids = << >> THEN column[a] * Pitch + NodeWidth \div 2
           ELSE (center[Head(kids)] + center[Last(kids)]) \div 2
  IN [a \in DOMAIN ix |-> [x |-> center[a] - NodeWidth \div 2,
                           y |-> Len(Ancestors(ix, a)) * Row]]

LayoutWidth(ix, root) == Leaves(ix)[root] * Pitch - (Pitch - NodeWidth)
=============================================================================
