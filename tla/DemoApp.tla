------------------------------- MODULE DemoApp -------------------------------
(***************************************************************************)
(* The dashboard in demo mode: the create wizard, the revoke dialog and    *)
(* the demo controls, over the store of DemoStore and next to the pages of  *)
(* DemoPages.                                                              *)
(*                                                                         *)
(* Dialogs do not hold the focus, so every control stays within reach of   *)
(* the keyboard whatever is open, and the store may change under a form.   *)
(***************************************************************************)
EXTENDS DemoPages

CONSTANTS
  Budgets,   \* what may be typed as a budget; 0 is the empty field
  Limits,    \* what may be typed as a limit per payment or per day
  Terms,     \* expiry dates that may be picked
  Month,     \* the wizard proposes an expiry this far ahead
  DemoAmounts   \* the amounts of the two demo buttons

ASSUME AppAssumption ==
  /\ Budgets \subseteq Nat
  /\ Limits \subseteq Nat
  /\ Terms \subseteq Nat
  /\ Month \in Nat \ {0}
  /\ DemoAmounts \subseteq Nat \ {0}

VARIABLE form   \* CreateAgentModal: [open, step, draft]

demoVars == <<storeVars, form>>

Root == CHOOSE a \in RootAgents(Seed) : TRUE

DefaultDraft(parent) ==
  [parent |-> parent, authority |-> 0, services |-> {Head(Services)},
   transaction |-> Unset, daily |-> Unset, expires |-> IF parent = NoAgent THEN Never ELSE now + Month]

FreshForm(open, parent) ==
  [open |-> open, step |-> 0, draft |-> DefaultDraft(parent)]

\* A closed form is never looked at: AppShell mounts another one to open it.
NoForm == FreshForm(FALSE, NoAgent)

DemoInit ==
  /\ StoreInit
  /\ form = NoForm

-----------------------------------------------------------------------------
(* The wizard. *)

\* AppShell keys the modal by its parent: another parent is another form, the
\* first one closed.
OpenForm(parent) ==
  /\ ~form.open
  /\ RoomLeft
  /\ form' = FreshForm(TRUE, parent)
  /\ UNCHANGED storeVars

CloseForm ==
  /\ form.open
  /\ form' = NoForm
  /\ UNCHANGED storeVars

Available == StatsFor(agents, form.draft.parent).available

\* A name can be typed at step 0.
StepValid ==
  \/ form.step = 0
  \/ form.step = 1 /\ form.draft.authority > 0 /\ form.draft.authority <= Available
  \/ form.step = 2 /\ form.draft.services # {}
  \/ form.step = 3

EligibleParents ==
  {a \in DOMAIN agents : agents[a].status # "revoked" /\ StatsFor(agents, a).available > 0}

\* What the controls of a step let the user make of draft d.
ParentEdits(d) == {[d EXCEPT !.parent = a] : a \in EligibleParents}

BudgetEdits(d) == {[d EXCEPT !.authority = b] : b \in Budgets}

\* A checkbox of a service the parent is not permitted is disabled, ticked or
\* not; a limit is cut to the parent's policy.  The details of a compute job
\* (provider, instance types, hourly cost) are never read.
PolicyEdits(d) ==
  LET ceiling == Policies[agents[d.parent].policy]
      toggle(s) == IF s \in d.services THEN d.services \ {s} ELSE d.services \cup {s}
  IN {[d EXCEPT !.services = toggle(s)] : s \in agents[d.parent].services}
     \cup {[d EXCEPT !.transaction = Min({l, ceiling.transaction})] : l \in Limits}
     \cup {[d EXCEPT !.daily = Min({l, ceiling.daily})] : l \in Limits}

ExpiryEdits(d) == {[d EXCEPT !.expires = e] : e \in Terms \cup {Never}}

Patch ==
  /\ form.open
  /\ \E d \in (CASE form.step = 0 -> ParentEdits(form.draft)
               [] form.step = 1 -> BudgetEdits(form.draft)
               [] form.step = 2 -> PolicyEdits(form.draft)
               [] form.step = 3 -> ExpiryEdits(form.draft)) :
       form' = [form EXCEPT !.draft = d]
  /\ UNCHANGED storeVars

Forward ==
  /\ form.step < 3
  /\ StepValid
  /\ form' = [form EXCEPT !.step = @ + 1]

\* Continue, Back, and the headings of the steps already passed.
GoTo ==
  /\ form.open
  /\ \/ Forward
     \/ \E s \in 0..3 : s < form.step /\ form' = [form EXCEPT !.step = s]
  /\ UNCHANGED storeVars

\* Mutant of Ticks: the budget is left out.
TicksWithoutBudget ==
  /\ form.draft.services # {}
  /\ form.draft.expires # Never => form.draft.expires > now

\* The three ticks of the summary.
Ticks ==
  /\ form.draft.authority > 0 /\ form.draft.authority <= Available
  /\ form.draft.services # {}
  /\ form.draft.expires # Never => form.draft.expires > now

\* "Create Agent" is never disabled; the store has the last word.
Submit ==
  /\ form.open /\ form.step = 3
  /\ \/ /\ RoomLeft
        /\ Ids \ DOMAIN agents # {}
        /\ CreateAgent(form.draft, CHOOSE id \in Ids \ DOMAIN agents : TRUE)
        /\ form' = NoForm
        /\ UNCHANGED now
     \/ UNCHANGED demoVars  \* turned down, with a message

-----------------------------------------------------------------------------
(* Revoking and paying. *)

\* RevokeAgentModal confirmed.  It names no condition: the demo controls open
\* it for their acting agent, revoked or not.
RevokeNow(a) ==
  /\ RoomLeft
  /\ RevokeAgent(a)
  /\ UNCHANGED <<now, form>>

\* The service is guessed from the first permission, "Storage" if in doubt.
ServiceOf(a) ==
  IF Head(Services) \in agents[a].services THEN Head(Services) ELSE Services[2]

\* The acting agent is any agent: it stays picked when it is revoked.
PayNow(a, amount) ==
  /\ RoomLeft
  /\ RequestPayment(a, amount, ServiceOf(a))
  /\ UNCHANGED <<now, form>>

Wait == Tick /\ UNCHANGED form

DemoNext ==
  \/ \E a \in DOMAIN agents : OpenForm(a) \/ RevokeNow(a)
  \/ CloseForm \/ Patch \/ GoTo \/ Submit
  \/ \E a \in DOMAIN agents, x \in DemoAmounts : PayNow(a, x)
  \/ Wait

DemoSpec == DemoInit /\ [][DemoNext]_demoVars

-----------------------------------------------------------------------------
(* Properties. *)

\* No page depends on the form, and closing it leaves the store as it is: what
\* holds of the pages whenever no form is open holds of them always.
InView == ~form.open

\* store.tsx:340-371 with 228-235.  However agents are created and revoked,
\* and whatever a form was filled in with meanwhile, an agent with authority
\* never hangs below one that was revoked.
NothingLivesBelowRevoked ==
  \A a \in DOMAIN agents :
    agents[a].status = "revoked" =>
      \A b \in DOMAIN agents :
        a \in ToSet(Ancestors(agents, b)) => agents[b].status = "revoked"

\* store.tsx:245-254, 437-446.  What an agent has spent and what it has handed
\* to live children never exceed its authority, so what its subtree spends
\* beyond the grant is at most what its revoked descendants had spent.
ClaimsFit ==
  \A a \in DOMAIN agents :
    /\ agents[a].spent + Delegated(agents, a) <= agents[a].authority
    /\ RollupSpent(agents, a)
         <= agents[a].authority
              + Added([b \in {d \in Descendants(agents, a) : agents[d].status = "revoked"} |->
                         agents[b].spent])

\* selectors.ts:40-48, 71-143, 205-262, AgentDetail.tsx:115-142, store.tsx:437-451.
\* The log and the meters agree: an agent's spending is the sum of its approved
\* payments; "the three always sum to authority", as long as nobody revoked had
\* spent below; the overview's total is what its roots spent and what the list
\* credits to their children.
MetersMatchLog ==
  InView =>
    /\ \A page \in {Overview} :
         page.totals.spent
           = Added([r \in RootAgents(agents) |->
                      agents[r].spent
                        + Added([c \in KidSet(agents, r) \cap DOMAIN page.byAgent |->
                                   page.byAgent[c]])])
    /\ \A a \in DOMAIN agents :
         /\ agents[a].spent = SpentSince(events, {a}, 0)
         /\ \A card \in {Headline(a)} :
              (\A b \in Descendants(agents, a) : agents[b].status = "revoked" => agents[b].spent = 0) =>
                /\ card.legend[1] + card.legend[2] + card.legend[3] = agents[a].authority
                /\ card.bar = <<card.legend[1], card.legend[2]>>

\* CreateAgentModal.tsx:529-550, AgentTable.tsx:120-124, AgentDetail.tsx:414-416,
\* 287-316 with store.tsx:228-265, 407-451.  What a page offers the store grants,
\* whatever happened to the tree meanwhile: a draft whose three ticks are shown is
\* turned down only for a reason the summary does not list; a table that offers a
\* child, and a tab that does, can be taken at their word for all that is
\* available, and no draft passes under an agent whose tab does not; and a payment
\* is approved exactly when the agent's tabs say so.
OffersAreKept ==
  /\ form.open /\ form.step = 3 /\ Ticks =>
       Objections(form.draft) \subseteq {"revoked", "outlives"}
  /\ InView => \A a \in DOMAIN agents :
       LET tab == ChildrenTab(a)
           permissions == PermissionsTab(a)
           draft(b) == [DefaultDraft(a) EXCEPT !.authority = b, !.expires = Never]
       IN /\ TableRow(a).createChild => tab.canDelegate
          /\ tab.canDelegate => a \in EligibleParents
          /\ tab.canDelegate = (\E b \in {tab.available, 1} : Objections(draft(b)) = {})
          /\ \A x \in DemoAmounts, s \in Resource :
               (Breaches(a, x, s) = {})
                 = (/\ ~Lapsed(a) /\ s \in permissions.allowed
                    /\ x <= permissions.transaction
                    /\ SpendingTab(a).today + x <= permissions.daily
                    /\ x <= tab.available)

\* treeLayout.ts:34-38, AgentTree.tsx:76-98, Agents.tsx:30-42.  Leaves are packed and parents centred
\* over their children, and no two agents of a generation are drawn over each
\* other; past a line drawn dead every line is.  "Depth-first so the table reads
\* like the tree": the list has every agent once, right after it all that hangs
\* below it, its children one step further in.
ReadsLikeTheTree == InView =>
  /\ \A at \in {Place(agents)}, width \in {LayoutWidth(agents, Root)} :
       \A a \in DOMAIN agents :
         /\ at[a].x >= 0 /\ at[a].x + NodeWidth <= width
         /\ \A b \in DOMAIN agents \ {a} :
              at[a].y = at[b].y /\ at[a].x <= at[b].x => at[a].x + Pitch <= at[b].x
  /\ \A lines \in {TreeLines} :
       \A l, m \in lines : l.dead /\ m.parent = l.child => m.dead
  /\ \A rows \in {Filtered("all", "all", "all")} :
       /\ ToSet(rows) = DOMAIN agents /\ Len(rows) = Cardinality(DOMAIN agents)
       /\ \A i \in DOMAIN rows :
            \A below \in {Descendants(agents, rows[i])} :
              /\ {rows[j] : j \in (i + 1)..(i + Cardinality(below))} = below
              /\ \A c \in KidSet(agents, rows[i]) :
                   TableRow(c).depth = TableRow(rows[i]).depth + 1
=============================================================================
