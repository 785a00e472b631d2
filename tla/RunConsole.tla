----------------------------- MODULE RunConsole -----------------------------
(***************************************************************************)
(* "Give an agent a task": the dialog a run is started from, composed with *)
(* the purchase the runner makes for it (Purchase) and the stream of       *)
(* events between the two.  The dialog folds what it reads into one record *)
(* and shows labels, seven stages and sentences about money made from it.  *)
(*                                                                         *)
(* The stream may break, and the dialog may go away; the runner pays on.   *)
(* A step of the stream is its kind; what is quoted, planned or answered   *)
(* is left out, and so is the gap the runner asks for between two runs.    *)
(***************************************************************************)
EXTENDS RunSteps, FiniteSetsExt

CONSTANT Caps  \* spend caps that may be typed; 0 is the empty field

ASSUME ConsoleAssumption == Caps \subseteq Nat

VARIABLES
  cap,       \* the field "Spend cap"
  known,     \* whether the runner has told its own, `runner` of the dialog
  frames,    \* steps emitted that the dialog has not read
  link,      \* its response stream
  run,       \* the fields of Run that are set, by the step that sets them
  chosen,    \* run.selected, its provider
  running,   \* the dialog waits for runAgent
  mine,      \* whether the task the dialog shows is under way
  asked,     \* history: the cap it was started with
  owed       \* history: whom that task has charged or may charge, from its end on

formVars == <<cap, known>>
consoleVars == <<formVars, run, chosen, running, link>>
historyVars == <<mine, asked, owed>>
vars == <<purchaseVars, lockVars, taskVars, frames, consoleVars, historyVars>>

\* A step of the stream, with the provider of a selection.
Frame(kind, p) == [step |-> kind, provider |-> p]

Init ==
  /\ PurchaseInit
  /\ TaskInit
  /\ cap = 0
  /\ known = FALSE
  /\ frames = <<>>
  /\ link = "none"
  /\ run = {}
  /\ chosen = NoOne
  /\ running = FALSE
  /\ mine = "none"
  /\ asked = 0
  /\ owed = {}

-----------------------------------------------------------------------------
(* What the runner says. *)

Plain(kinds) == [i \in DOMAIN kinds |-> Frame(kinds[i], NoOne)]

\* emit: nobody may be reading any more.
Say(said) == frames' = IF link = "open" THEN frames \o said ELSE frames

\* An offer's turn; the task says what purchase() raised.
TryNext(p) ==
  /\ Try(p)
  /\ \E said \in Tried :
       Say([i \in DOMAIN said |-> Frame(said[i], IF said[i] = "selected" THEN p ELSE NoOne)]
           \o Plain(IF said = <<"authorization", "selected">> THEN <<"error">> ELSE <<>>))
  /\ UNCHANGED <<taskVars, consoleVars, historyVars>>

PayNext(p) ==
  /\ Pay(p)
  /\ \E said \in PaidSteps : Paid(p, said) /\ Say(Plain(said))
  /\ UNCHANGED <<consoleVars, historyVars>>

Gateways ==
  /\ ServeSent
  /\ UNCHANGED <<taskVars, frames, consoleVars, historyVars>>

\* Whom the task under way has charged, or may yet charge.
Bill == UNION {BillOf(n) : n \in Orders}

\* The receipt's wait and `done`; the guard is dropped and the channel closes.
EndTask ==
  /\ busy = "run"
  /\ Ended
  /\ IF step = "bought" THEN \E audit \in AuditSteps :
                              Say(Plain(<<audit, "done">>))
                        ELSE Say(Plain(<<"done">>))
  /\ Unlock
  /\ failures' = FALSE
  /\ answered' = {}
  /\ IF mine = "current" THEN mine' = "over" /\ owed' = Bill /\ UNCHANGED asked
     ELSE UNCHANGED historyVars
  /\ UNCHANGED consoleVars

\* A response to an incident takes its turn at the wallet, and gives it back.
ElsewhereBegins ==
  /\ busy = "free"
  /\ LockOrWait
  /\ UNCHANGED <<purchaseVars, taskVars, frames, consoleVars, historyVars>>

ElsewhereEnds ==
  /\ busy = "response"
  /\ Unlock
  /\ UNCHANGED <<taskVars, frames, consoleVars, historyVars>>

-----------------------------------------------------------------------------
(* What the dialog makes of it. *)

\* Mutant of Reduce: a new attempt does not replace the failed one.
ReduceKeepingFailure(seen, kind) == seen \cup {kind}

\* A later selection is a new attempt: it replaces what failed before it.
Reduce(seen, kind) ==
  {kind} \cup IF kind = "selected"
              THEN seen \ {"service_failed", "payment_required", "paying"}
              ELSE seen

Has(kinds) == run \cap kinds # {}

\* lifecycle: the first of these that holds.
Lifecycle ==
  LET rows == <<
        <<Has({"error"}), "Failed">>,
        <<Has({"unavailable"}), "Provider unavailable">>,
        <<Has({"no_provider"}), "No provider">>,
        <<Has({"over_budget"}), "Over spend cap">>,
        <<Has({"denied"}) \/ (Has({"refused"}) /\ ~Has({"settled"})), "Policy denied">>,
        <<Has({"payment_failed"}), "Payment failed">>,
        <<Has({"service_failed"}), "Service failed">>,
        <<Has({"settled"}) /\ ~Has({"result"}) /\ ~running, "Service failed">>,
        <<Has({"audited"}), "Audited">>,
        <<Has({"result"}), "Completed">>,
        <<Has({"settled"}), "Settled">>,
        <<Has({"paying"}), "Paying">>,
        <<Has({"selected"}), "Approved">>,
        <<Has({"quote"}), "Quoted">>,
        <<TRUE, "Discovering">> >>
      first == CHOOSE i \in DOMAIN rows : rows[i][1] /\ \A j \in 1..(i - 1) : ~rows[j][1]
  IN rows[first][2]

FailedOrDone(failed, done) == IF failed THEN "failed" ELSE IF done THEN "done" ELSE "pending"

DoneOrFailed(done, failed) == IF done THEN "done" ELSE IF failed THEN "failed" ELSE "pending"

\* The seven stages; a stage under way is pending too.
DiscoverStage == FailedOrDone(Has({"no_provider"}), Has({"discovered"}))
QuoteStage == FailedOrDone(Has({"over_budget", "unavailable"}), Has({"quote"}))
AuthorizeStage == FailedOrDone(Has({"denied"}), Has({"selected"}))
PayStage ==
  FailedOrDone(\/ Has({"payment_failed", "service_failed"})
               \/ Has({"refused"}) /\ ~Has({"settled"}),
               Has({"settled"}))
ExecuteStage ==
  DoneOrFailed(Has({"result"}),
               \/ Has({"service_failed"})
               \/ Has({"settled"}) /\ ~running)
ResultStage == DoneOrFailed(Has({"result"}), FALSE)
AuditStage == DoneOrFailed(Has({"audited"}), Has({"audit_pending"}))

Stages ==
  <<DiscoverStage, QuoteStage, AuthorizeStage, PayStage, ExecuteStage, ResultStage, AuditStage>>

\* getRunner answered: its limit is proposed unless something was typed.  A
\* failure is shown and leaves the dialog as it is.
LearnRunner ==
  /\ ~known
  /\ known' = TRUE
  /\ cap' = IF cap = 0 THEN MaxAtomic ELSE cap
  /\ UNCHANGED <<purchaseVars, lockVars, taskVars, frames, run, chosen, running, link, historyVars>>

\* The only field that can be edited during a run.
TypeCap(c) ==
  /\ c # cap
  /\ cap' = c
  /\ UNCHANGED <<purchaseVars, lockVars, taskVars, frames, known, run, chosen, running, link, historyVars>>

\* An agent and a task there are.
CanRun == known /\ ~running /\ cap > 0 /\ cap <= MaxAtomic

\* `budget` in the runner's handler.
Granted == Min({cap, MaxAtomic})

\* start, while nothing runs here: the runner takes the run.
Start ==
  /\ CanRun
  /\ TryLock
  /\ Begin("inference", Granted)
  /\ \E said \in Opening("inference", Granted) : frames' = Plain(said)
  /\ link' = "open"
  /\ run' = {}
  /\ chosen' = NoOne
  /\ running' = TRUE
  /\ mine' = "current"
  /\ asked' = cap
  /\ owed' = {}
  /\ UNCHANGED <<taskVars, formVars>>

\* Mutant of Refused: the dialog waits on.
RefusedAndWaits ==
  /\ CanRun
  /\ busy # "free"
  /\ frames' = <<>>
  /\ link' = "none"
  /\ run' = {"error"}
  /\ chosen' = NoOne
  /\ running' = TRUE
  /\ mine' = "none"
  /\ asked' = 0
  /\ owed' = {}
  /\ UNCHANGED <<purchaseVars, lockVars, taskVars, formVars>>

\* Or it answers 429, which runAgent throws.
Refused ==
  /\ CanRun
  /\ busy # "free"
  /\ frames' = <<>>
  /\ link' = "none"
  /\ run' = {"error"}
  /\ chosen' = NoOne
  /\ running' = FALSE
  /\ mine' = "none"
  /\ asked' = 0
  /\ owed' = {}
  /\ UNCHANGED <<purchaseVars, lockVars, taskVars, formVars>>

\* onStep, with the oldest step of the stream.
Read ==
  /\ link = "open"
  /\ frames # <<>>
  /\ LET f == Head(frames) IN
       /\ run' = Reduce(run, f.step)
       /\ chosen' = IF f.step = "selected" THEN f.provider ELSE chosen
  /\ frames' = Tail(frames)
  /\ UNCHANGED <<purchaseVars, lockVars, taskVars, formVars, running, link, historyVars>>

\* The runner closed the stream and all of it is read.
EndOfStream ==
  /\ link = "open"
  /\ mine = "over"
  /\ frames = <<>>
  /\ link' = "ended"
  /\ running' = FALSE
  /\ UNCHANGED <<purchaseVars, lockVars, taskVars, formVars, frames, run, chosen, historyVars>>

\* The connection breaks; the task goes on without its reader.
Break ==
  /\ link = "open"
  /\ link' = "lost"
  /\ run' = run \cup {"error"}
  /\ running' = FALSE
  /\ frames' = <<>>
  /\ UNCHANGED <<purchaseVars, lockVars, taskVars, formVars, chosen, historyVars>>

\* The dialog is closed, or unmounted with the page, which aborts the fetch.
\* The next one starts afresh.
Leave ==
  /\ link # "none" \/ run # {} \/ known \/ cap # 0
  /\ cap' = 0
  /\ known' = FALSE
  /\ link' = "none"
  /\ run' = {}
  /\ chosen' = NoOne
  /\ running' = FALSE
  /\ frames' = <<>>
  /\ mine' = "none"
  /\ asked' = 0
  /\ owed' = {}
  /\ UNCHANGED <<purchaseVars, lockVars, taskVars>>

-----------------------------------------------------------------------------
Buying == \E p \in Providers : TryNext(p) \/ PayNext(p)

Reading == Read \/ EndOfStream

Next ==
  \/ LearnRunner
  \/ \E c \in Caps : TypeCap(c)
  \/ Start \/ Refused \/ Buying \/ Gateways \/ EndTask \/ Reading \/ Break \/ Leave
  \/ ElsewhereBegins \/ ElsewhereEnds

Spec == Init /\ [][Next]_vars

\* The runner's calls return, its task is polled, and what it emitted arrives.
FairSpec == Spec /\ WF_vars(Buying) /\ WF_vars(EndTask) /\ WF_vars(Reading)

-----------------------------------------------------------------------------
(* Properties. *)

\* The dialog has read all that was said, or all there was.
UpToDate == frames = <<>> /\ link \in {"open", "ended"}

\* Whom the run shown has charged or may charge.
BillShown == IF mine = "current" THEN Bill ELSE owed

\* Sentences and toasts that promise no money moved.
PromisesNoPayment ==
  run \cap {"no_provider", "unavailable", "over_budget", "denied", "refused",
            "service_failed"} # {}

\* RunAgentModal.tsx:229-231,344,438-446,466,492-496,518.  Where the dialog
\* says that nothing was paid, nothing was and nothing will be, whichever
\* providers failed before or are paid after; unless its stream broke.
NothingPaidIsTrue == UpToDate /\ PromisesNoPayment => BillShown = {}

\* RunAgentModal.tsx:75-78,105-115,185-199,480-560.  Once the dialog shows a
\* settlement or a result, the provider it shows as chosen was charged and no
\* other was or will be, even if its stream broke since; what a run charges stays
\* within the cap it was started with, whatever the field says by now; and no
\* stage is done after one that failed.
PaymentShownIsTheBill ==
  /\ Lifecycle \in {"Settled", "Completed", "Audited"} \/ run \cap {"settled", "result"} # {}
       => BillShown = {chosen}
  /\ \A p \in BillShown : Price[p] <= asked
  /\ \A i, j \in 1..7 : i < j /\ Stages[i] = "failed" => Stages[j] # "done"

\* RunAgentModal.tsx:241-244,261,270,594.  The dialog cannot be closed
\* while it runs; it always comes to an end.
DialogLetsGo == running ~> ~running
=============================================================================
