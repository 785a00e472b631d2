------------------------------ MODULE AppShell ------------------------------
(***************************************************************************)
(* The frame around every page: its dialogs, drawers and command menu, the *)
(* switch between the demo and the live system, and what is asked of the   *)
(* wallet from them.                                                       *)
(*                                                                         *)
(* Nothing holds the focus, so the keyboard reaches every control whatever *)
(* is open.  A commit of React is one step: what goes away cleans up       *)
(* first, then what came, or has another handler, sets up.                 *)
(*                                                                         *)
(* A browser wallet is installed and the tree was read once.  The subtree  *)
(* that a demo revocation takes along is DemoStore's business, stale views *)
(* of the chain are Dashboard's, the form of each dialog its own module's. *)
(***************************************************************************)
EXTENDS Naturals, FiniteSets, FiniteSetsExt, Bags

CONSTANTS
  LiveAgents,  \* names of the live tree
  DemoAgents,  \* agents of the demo's store
  None,
  ToastsKept,  \* notices on screen at most: 4
  MaxAtOnce    \* bound on what is open and what is in flight, together

ASSUME ShellAssumption ==
  /\ LiveAgents \cap DemoAgents = {}
  /\ None \notin LiveAgents \cup DemoAgents
  /\ ToastsKept \in Nat \ {0}
  /\ MaxAtOnce \in Nat \ {0}

Agents == LiveAgents \cup DemoAgents
Owner == "owner"  \* no agent is named: the account's owner, or the default

\* What waits for the wallet or the network, by the control that began it.
Kinds == {"revoke", "restore", "create", "connect", "run"}

VARIABLES
  demo,          \* state.demoMode
  status,        \* of each agent: the chain's for the live ones
  account,       \* whether live.account is known
  createFor,     \* createOpen and createParentId: None when closed
  runFor,        \* runOpen and runAgentId: None when closed
  revokeTarget,
  agentDrawer,   \* the agent and the status it had when the drawer opened
  eventOpen,     \* whether eventDrawer is set
  commandOpen,
  decision,      \* whether DemoControls holds a decision to show
  menus,         \* menus that hang open: of the top bar, of an agent's row
  locked,        \* whether the body may not scroll
  busy,          \* revoking, pending, progress, the wallet button's, running
  acts,          \* what is in flight
  toasts         \* how many are on screen

layerVars == <<createFor, runFor, revokeTarget, agentDrawer, eventOpen, commandOpen, decision>>
shellVars == <<demo, status, account, layerVars, menus, locked, busy, acts, toasts>>

\* What has lapsed is as good as revoked here.
Statuses == {"active", "revoked"}

Shut == [agent |-> None, status |-> "active"]

ShellInit ==
  /\ demo \in BOOLEAN
  /\ status \in [Agents -> Statuses]
  /\ \A a \in DemoAgents : status[a] = "active"
  /\ account = FALSE
  /\ createFor = None /\ runFor = None /\ revokeTarget = None
  /\ agentDrawer = Shut
  /\ eventOpen = FALSE /\ commandOpen = FALSE /\ decision = FALSE
  /\ menus = {}
  /\ locked = FALSE
  /\ busy = [k \in Kinds |-> None]
  /\ acts = EmptyBag
  /\ toasts = 0

-----------------------------------------------------------------------------
(* What a commit does. *)

\* The agents of the view.
View == IF demo THEN DemoAgents ELSE LiveAgents

\* The menus that have a button: the network's while the demo is on, the
\* user's, one in each row of the agents' table.
Hung == View \cup {"user"} \cup (IF demo THEN {"network"} ELSE {})

Flying(kind) == {act \in DOMAIN acts : act.kind = kind}

\* How many of a set of them.
Number(some) == MapThenSumSet(LAMBDA act : acts[act], some)

HowMany(kind) == Number(Flying(kind))

\* The modals on screen, each with the key it is mounted under.
CreateModal == IF createFor = None THEN {} ELSE {<<"create", demo, createFor>>}
RunModal == IF runFor = None \/ demo THEN {} ELSE {<<"run", runFor>>}
RevokeModal == IF revokeTarget = None THEN {} ELSE {<<"revoke">>}
PaymentModal == IF decision /\ demo THEN {<<"payment">>} ELSE {}

Modals == CreateModal \cup RunModal \cup RevokeModal \cup PaymentModal

\* Those that hand Modal another onClose at every render.
Restless ==
  PaymentModal
    \cup (IF demo \/ busy["create"] # None THEN CreateModal ELSE {})
    \cup (IF busy["run"] # None THEN RunModal ELSE {})

\* What is open, on screen or behind the other mode.
Layers ==
  Cardinality({createFor, runFor, revokeTarget, agentDrawer.agent} \ {None})
    + Cardinality(menus)
    + Cardinality({i \in 1..3 : <<eventOpen, commandOpen, decision>>[i]})

Room == Layers + Number(DOMAIN acts) < MaxAtOnce

\* A bug: the page is given back by the dialog's own closing, which taking
\* the dialog away with the mode is not.
RelockOnClose(left, came, again) ==
  \/ came \cup again # {}
  \/ locked /\ (left = {} \/ demo' # demo)

\* The effect of Modal: what leaves gives the page's scrolling back, what
\* comes, or runs its effect again, takes it.
Relock(left, came, again) ==
  \/ came \cup again # {}
  \/ locked /\ left = {}

\* Whether the component that holds the busy flag of a kind is taken away:
\* setting it is then lost.
Gone(kind) ==
  CASE kind = "create" -> CreateModal' # CreateModal
    [] kind = "run" -> RunModal' # RunModal
    [] kind = "restore" -> agentDrawer'.agent = None
    [] kind = "connect" -> demo'
    [] kind = "revoke" -> FALSE

\* Nothing is called back: who began it is just no longer there.
Unmounted(act) == [act EXCEPT !.mounted = @ /\ ~Gone(act.kind)]

\* Only the stream of a run is aborted with its dialog.
Kept(flying) == {act \in DOMAIN flying : act.kind = "run" => ~Gone("run")}

Rerender(flying, flags) ==
  /\ acts' = [act \in {Unmounted(one) : one \in Kept(flying)} |->
               MapThenSumSet(LAMBDA one : flying[one],
                             {one \in Kept(flying) : Unmounted(one) = act})]
  /\ busy' = [k \in Kinds |-> IF Gone(k) THEN None ELSE flags[k]]
  /\ locked' = Relock(Modals \ Modals', Modals' \ Modals, (Restless \cup Restless') \cap Modals')

\* A commit that concerns nothing in flight.
Render == Rerender(acts, busy)

\* push: one more, the oldest going when there is no room.
Toast == toasts' = Min({toasts + 1, ToastsKept})

Dismiss ==
  /\ toasts > 0
  /\ toasts' = toasts - 1
  /\ UNCHANGED <<menus, demo, status, account, layerVars, locked, busy, acts>>

-----------------------------------------------------------------------------
(* Opening and closing. *)

SwitchMode ==
  /\ demo' = ~demo
  /\ menus' = menus \cap Hung'
  /\ UNCHANGED <<status, account, layerVars, toasts>>
  /\ Render

\* Row menu, which closes first, agent page, demo controls and page headers.
OpenCreate(parent) ==
  /\ Room
  /\ parent \in View => status[parent] = "active"
  /\ createFor' = parent
  /\ menus' \in {menus, menus \ {parent}}
  /\ UNCHANGED <<demo, status, account, runFor, revokeTarget, agentDrawer, eventOpen, commandOpen, decision, toasts>>
  /\ Render

\* Its last step keeps a live dialog open while it waits for the wallet.
CreateCloses == demo \/ busy["create"] = None

CloseCreate ==
  /\ createFor # None
  /\ CreateCloses
  /\ createFor' = None
  /\ UNCHANGED <<menus, demo, status, account, runFor, revokeTarget, agentDrawer, eventOpen, commandOpen, decision, toasts>>
  /\ Render

OpenRun(agent) ==
  /\ ~demo
  /\ Room
  /\ runFor' = agent
  /\ UNCHANGED <<menus, demo, status, account, createFor, revokeTarget, agentDrawer, eventOpen, commandOpen, decision, toasts>>
  /\ Render

\* What is not on screen hears nothing: the flag outlives a look at the demo.
RunCloses == ~demo /\ busy["run"] = None

CloseRun ==
  /\ runFor # None
  /\ RunCloses
  /\ runFor' = None
  /\ UNCHANGED <<menus, demo, status, account, createFor, revokeTarget, agentDrawer, eventOpen, commandOpen, decision, toasts>>
  /\ Render

OpenRevoke(agent) ==
  /\ Room
  /\ status[agent] # "revoked"
  /\ revokeTarget' = agent
  /\ menus' \in {menus, menus \ {agent}}
  /\ UNCHANGED <<demo, status, account, createFor, runFor, agentDrawer, eventOpen, commandOpen, decision, toasts>>
  /\ Render

\* Cancel and the cross wait for the wallet, Escape and the backdrop do not.
CloseRevoke ==
  /\ revokeTarget # None
  /\ revokeTarget' = None
  /\ UNCHANGED <<menus, demo, status, account, createFor, runFor, agentDrawer, eventOpen, commandOpen, decision, toasts>>
  /\ Render

OpenAgent(agent) ==
  /\ Room
  /\ agentDrawer' = [agent |-> agent, status |-> status[agent]]
  /\ UNCHANGED <<menus, demo, status, account, createFor, runFor, revokeTarget, eventOpen, commandOpen, decision, toasts>>
  /\ Render

CloseAgent ==
  /\ agentDrawer # Shut
  /\ agentDrawer' = Shut
  /\ UNCHANGED <<menus, demo, status, account, createFor, runFor, revokeTarget, eventOpen, commandOpen, decision, toasts>>
  /\ Render

OpenEvent ==
  /\ Room
  /\ eventOpen' = TRUE
  /\ UNCHANGED <<menus, demo, status, account, createFor, runFor, revokeTarget, agentDrawer, commandOpen, decision, toasts>>
  /\ Render

CloseEvent ==
  /\ eventOpen
  /\ eventOpen' = FALSE
  /\ UNCHANGED <<menus, demo, status, account, createFor, runFor, revokeTarget, agentDrawer, commandOpen, decision, toasts>>
  /\ Render

OpenCommand ==
  /\ Room
  /\ commandOpen' = TRUE
  /\ UNCHANGED <<menus, demo, status, account, createFor, runFor, revokeTarget, agentDrawer, eventOpen, decision, toasts>>
  /\ Render

\* The commands that matter here; a page of an agent or of the policies is
\* one more way to close the menu.
Commands == {"page", "create", "transaction"} \cup (IF demo THEN {} ELSE {"run"})

\* The line under the cursor, by Enter or a click.
Choose(command) ==
  /\ commandOpen
  /\ commandOpen' = FALSE
  /\ createFor' = IF command = "create" THEN Owner ELSE createFor
  /\ runFor' = IF command = "run" THEN Owner ELSE runFor
  /\ eventOpen' = (eventOpen \/ command = "transaction")
  /\ UNCHANGED <<menus, demo, status, account, revokeTarget, agentDrawer, decision, toasts>>
  /\ Render

\* Every layer listens on the document, so one key closes them all.
Escape ==
  /\ createFor' = IF CreateCloses THEN None ELSE createFor
  /\ runFor' = IF RunCloses THEN None ELSE runFor
  /\ revokeTarget' = None
  /\ agentDrawer' = Shut
  /\ eventOpen' = FALSE
  /\ commandOpen' = FALSE
  /\ decision' = (decision /\ ~demo)
  /\ menus' = {}
  /\ <<layerVars, menus>>' # <<layerVars, menus>>
  /\ UNCHANGED <<demo, status, account, toasts>>
  /\ Render

\* A demo button shows what the store decided.
Pay ==
  /\ demo
  /\ Room
  /\ decision' = TRUE
  /\ UNCHANGED <<menus, demo, status, account, createFor, runFor, revokeTarget, agentDrawer, eventOpen, commandOpen>>
  /\ Toast
  /\ Render

\* DemoControls alone renders: no other dialog takes the scrolling back.
ClosePayment ==
  /\ decision /\ demo
  /\ decision' = FALSE
  /\ locked' = Relock(PaymentModal, {}, {})
  /\ UNCHANGED <<menus, demo, status, account, createFor, runFor, revokeTarget, agentDrawer, eventOpen, commandOpen, busy, acts, toasts>>

-----------------------------------------------------------------------------
(* Menus: Menu, Dropdown and UserMenu. *)

\* The mouse, which closes every other menu on its way down, or the keyboard.
ToggleMenu(m) ==
  /\ m \in menus \/ Room
  /\ \E others \in {menus \ {m}, {}} :
       menus' = IF m \in menus THEN others ELSE others \cup {m}
  /\ UNCHANGED <<demo, status, account, layerVars, locked, busy, acts, toasts>>

\* The mouse goes down outside of them, or a page or a network is chosen, which
\* may take the table away.
LeaveMenus ==
  /\ menus # {}
  /\ \/ menus' = {}
     \/ menus' = menus \ View
     \/ \E m \in menus : menus' = menus \ {m}
  /\ UNCHANGED <<demo, status, account, layerVars, locked, busy, acts, toasts>>

-----------------------------------------------------------------------------
(* Asking the wallet. *)

Act(kind, agent, stage) == [kind |-> kind, agent |-> agent, mounted |-> TRUE, stage |-> stage]

\* Where revoking and restoring begin: live.connect, unless an account is known.
Entrance == IF account THEN "sign" ELSE "connect"

With(act) == acts (+) SetToBag({act})

\* The drawer shows the agent as the view has it, else as it was.
DrawnStatus ==
  IF agentDrawer.agent \in View THEN status[agentDrawer.agent] ELSE agentDrawer.status

Restorable == ~demo /\ DrawnStatus = "revoked"

RevokeFromDrawer ==
  /\ agentDrawer # Shut
  /\ ~Restorable /\ DrawnStatus # "revoked"
  /\ revokeTarget' = agentDrawer.agent
  /\ agentDrawer' = Shut
  /\ UNCHANGED <<menus, demo, status, account, createFor, runFor, eventOpen, commandOpen, decision, toasts>>
  /\ Render

Restore ==
  /\ agentDrawer # Shut
  /\ Restorable
  /\ busy["restore"] # agentDrawer.agent
  /\ Room
  /\ UNCHANGED <<menus, demo, status, account, layerVars, toasts>>
  /\ Rerender(With(Act("restore", agentDrawer.agent, Entrance)), [busy EXCEPT !["restore"] = agentDrawer.agent])

\* live.active
Live == ~demo

\* The demo's store marks the agent; it does not know a live one.
ConfirmInDemo ==
  /\ ~Live
  /\ status' = IF revokeTarget \in DemoAgents THEN [status EXCEPT ![revokeTarget] = "revoked"] ELSE status
  /\ revokeTarget' = None
  /\ UNCHANGED <<menus, demo, account, createFor, runFor, agentDrawer, eventOpen, commandOpen, decision>>
  /\ Toast
  /\ Render

\* A bug: what opened in live mode is signed whatever the mode is by now.
ConfirmLiveAnyway ==
  /\ Room
  /\ revokeTarget \in LiveAgents
  /\ UNCHANGED <<menus, demo, status, account, layerVars, toasts>>
  /\ Rerender(With(Act("revoke", revokeTarget, Entrance)), [busy EXCEPT !["revoke"] = revokeTarget])

ConfirmLive ==
  /\ Live
  /\ Room
  /\ UNCHANGED <<menus, demo, status, account, layerVars, toasts>>
  /\ Rerender(With(Act("revoke", revokeTarget, Entrance)), [busy EXCEPT !["revoke"] = revokeTarget])

ConfirmRevoke ==
  /\ revokeTarget # None
  /\ busy["revoke"] = None
  /\ ConfirmInDemo \/ ConfirmLive

\* submit: not busy before the records were simulated, so it may be pressed again.
SubmitCreate ==
  /\ Live
  /\ createFor # None
  /\ busy["create"] = None
  /\ Room
  /\ UNCHANGED <<menus, demo, status, account, layerVars, toasts>>
  /\ Rerender(With(Act("create", Owner, "connect")), busy)

StartRun ==
  /\ RunModal # {}
  /\ busy["run"] = None
  /\ Room
  /\ UNCHANGED <<menus, demo, status, account, layerVars, toasts>>
  /\ Rerender(With(Act("run", Owner, "stream")), [busy EXCEPT !["run"] = Owner])

\* The wallet's button, a link once there is an account.
ConnectWallet ==
  /\ Live
  /\ ~account
  /\ busy["connect"] = None
  /\ Room
  /\ UNCHANGED <<menus, demo, status, account, layerVars, toasts>>
  /\ Rerender(With(Act("connect", Owner, "connect")), [busy EXCEPT !["connect"] = Owner])

-----------------------------------------------------------------------------
(* Answers. *)

\* A bug: a failure does not reach what resets the flag.
ReleaseOnSuccess(act, ok) ==
  IF act.mounted /\ ok THEN [busy EXCEPT ![act.kind] = None] ELSE busy

\* finally: the flag of whoever is still there.
Release(act, ok) ==
  IF act.mounted THEN [busy EXCEPT ![act.kind] = None] ELSE busy

Over(act) == acts (-) SetToBag({act})

Onto(act, stage) == Over(act) (+) SetToBag({[act EXCEPT !.stage = stage]})

\* The wallet gave an account, and the records' simulation passed.
Connected(act) ==
  /\ act.stage = "connect"
  /\ account' = TRUE
  /\ UNCHANGED <<menus, demo, status, layerVars, toasts>>
  /\ CASE act.kind = "connect" -> Rerender(Over(act), Release(act, TRUE))
       [] act.kind = "create" ->
            Rerender(Onto(act, "sign"), IF act.mounted THEN [busy EXCEPT !["create"] = Owner] ELSE busy)
       [] OTHER -> Rerender(Onto(act, "sign"), busy)

\* nodeFor knows names of the live tree only.
Signed(act) ==
  /\ act.stage = "sign"
  /\ act.agent \in LiveAgents
  /\ UNCHANGED <<menus, demo, status, account, layerVars, toasts>>
  /\ Rerender(Onto(act, "wait"), busy)

\* What the transaction of an act does to the tree.
MinedStatus(act) ==
  [status EXCEPT ![act.agent] = IF act.kind = "revoke" THEN "revoked" ELSE "active"]

Mined(act) ==
  /\ act.stage = "wait"
  /\ status' = MinedStatus(act)
  /\ UNCHANGED <<menus, demo, account, layerVars, toasts>>
  /\ Rerender(Onto(act, "refresh"), busy)

\* The tree was read again.  Whatever dialog is open by now closes.  What a
\* creation signs and does to the tree, in two transactions, is Dashboard's.
Finished(act) ==
  /\ act.stage = "refresh" \/ (act.kind = "create" /\ act.stage = "sign")
  /\ revokeTarget' = IF act.kind = "revoke" THEN None ELSE revokeTarget
  /\ createFor' = IF act.kind = "create" THEN None ELSE createFor
  /\ UNCHANGED <<menus, demo, status, account, runFor, agentDrawer, eventOpen, commandOpen, decision>>
  /\ Toast
  /\ Rerender(Over(act), Release(act, TRUE))

\* Rejected, refused by a simulation, or the receipt did not come: the
\* transaction may then be mined all the same.  A creation says so in its dialog.
Failed(act) ==
  /\ act.stage \in {"connect", "sign", "wait"}
  /\ \/ status' = status
     \/ act.stage = "wait" /\ status' = MinedStatus(act)
  /\ IF act.kind = "create" THEN toasts' = toasts ELSE Toast
  /\ UNCHANGED <<menus, demo, account, layerVars>>
  /\ Rerender(Over(act), Release(act, FALSE))

\* The stream of a run ends; a payment or a denial is announced.
RunEnds(act) ==
  /\ act.stage = "stream"
  /\ Toast \/ toasts' = toasts
  /\ UNCHANGED <<menus, demo, status, account, layerVars>>
  /\ Rerender(Over(act), Release(act, TRUE))

\* accountsChanged, heard in live mode, and currentAccount on the way into it.
AccountsChanged ==
  /\ Live
  /\ account' = ~account
  /\ UNCHANGED <<menus, demo, status, layerVars, locked, busy, acts, toasts>>

-----------------------------------------------------------------------------

Open ==
  \/ \E parent \in View \cup {Owner} : OpenCreate(parent)
  \/ \E agent \in LiveAgents \cup {Owner} : OpenRun(agent)
  \/ \E agent \in View : OpenRevoke(agent) \/ OpenAgent(agent)
  \/ \E m \in Hung : ToggleMenu(m)
  \/ OpenEvent
  \/ OpenCommand
  \/ \E command \in Commands : Choose(command)
  \/ Pay

Close ==
  \/ CloseCreate
  \/ CloseRun
  \/ CloseRevoke
  \/ CloseAgent
  \/ CloseEvent
  \/ ClosePayment
  \/ LeaveMenus
  \/ Escape
  \/ Dismiss

Ask ==
  \/ RevokeFromDrawer
  \/ Restore
  \/ ConfirmRevoke
  \/ SubmitCreate
  \/ StartRun
  \/ ConnectWallet

Answer ==
  \E act \in DOMAIN acts :
    \/ Connected(act)
    \/ Signed(act)
    \/ Mined(act)
    \/ Finished(act)
    \/ Failed(act)
    \/ RunEnds(act)

ShellNext ==
  \/ SwitchMode
  \/ Open
  \/ Close
  \/ Ask
  \/ Answer
  \/ AccountsChanged

ShellSpec == ShellInit /\ [][ShellNext]_shellVars

-----------------------------------------------------------------------------
(* Properties. *)

\* The page is locked only under a dialog: however dialogs were stacked,
\* replaced or taken away with the mode, the last one gone gives the scrolling
\* back (Modal.tsx:24-27).
ScrollIsGivenBack == locked => Modals # {}

\* The confirmation is held back exactly while one revocation is in flight,
\* whatever was closed, opened or switched meanwhile (AppShell.tsx:138-152);
\* and a flag that keeps a control waiting has something in flight behind it.
BusyTellsTheTruth ==
  /\ HowMany("revoke") = IF busy["revoke"] = None THEN 0 ELSE 1
  /\ \A kind \in Kinds : busy[kind] # None => \E act \in Flying(kind) : act.mounted

\* AppShell.tsx:86-110,129-137, AgentActions.tsx:10-47.  While simulated data is
\* on screen no control of the frame begins a request to the wallet or the
\* runner, from whatever dialog or drawer the live system left open.  One begun
\* before goes on, and may be signed and mined meanwhile.
DemoStartsNothing ==
  [][demo => Number(DOMAIN acts)' <= Number(DOMAIN acts)]_shellVars
=============================================================================
