---------------------------- MODULE ComputeBroker ----------------------------
(***************************************************************************)
(* Containers sold by the minute: crates/gateway's compute Broker, the     *)
(* reaper task it spawns, and the Docker daemon it drives through a CLI.   *)
(*                                                                         *)
(* A container is named by the job that bought it.  Docker commands are    *)
(* child processes: they outlive the request, and the process, that issued *)
(* them.  A job's payment is verified before its minutes are granted and   *)
(* settled after; what leads up to that is in Gateway.                     *)
(***************************************************************************)
EXTENDS Naturals, FiniteSets

CONSTANTS
  Jobs,        \* paid requests for compute
  Agents,      \* agents, by name
  Owner,       \* Owner[j]: the agent that asks for job j
  Fresh,       \* a job that extends nothing
  Minutes,     \* what a job buys
  Answers,     \* what comes of a settlement: "done", "unsettled"
  MaxTime,     \* bound: the last minute of the clock
  MaxCrashes   \* bound: restarts of the gateway

ASSUME BrokerAssumption ==
  /\ Owner \in [Jobs -> Agents]
  /\ Fresh \notin Jobs
  /\ Minutes \in Nat \ {0}
  /\ Answers \subseteq {"done", "unsettled"}
  /\ MaxTime \in Nat
  /\ MaxCrashes \in Nat

VARIABLES
  now,
  live,        \* agents whose mandate resolves and has not expired
  stage,       \* how far a job got
  extends,     \* the container a job extends, or Fresh
  container,   \* what Docker has
  label,       \* LABEL_EXPIRES on the container
  booting,     \* jobs whose `docker run` has not returned
  tracked,     \* keys of Broker.resources
  expires,     \* Tracked.expires of a key; 0 for the others
  status,      \* Tracked.resource.status of a key; "running" for the others
  stopping,    \* who waits for `docker rm` on a container
  up,          \* whether the gateway process serves
  reaper,      \* what the reaper is doing
  doomed,      \* ids it goes on to stop
  unchecked,   \* ids in the owners map it has not come to
  reported,    \* history: containers with a teardown on HCS
  refused,     \* history: containers `docker rm` failed on
  blind,       \* history: whether the last adopt() got no listing
  crashes

jobVars == <<stage, extends>>
dockerVars == <<container, label, booting>>
trackedVars == <<tracked, expires, status>>
reaperVars == <<reaper, doomed, unchecked>>
historyVars == <<reported, refused, blind, crashes>>
vars == <<now, live, jobVars, dockerVars, trackedVars, stopping, up,
          reaperVars, historyVars>>

TypeOK ==
  /\ now \in 0..MaxTime
  /\ live \in SUBSET Agents
  /\ stage \in [Jobs -> {"new", "quoted", "paid", "launching", "launched",
                         "settling", "done", "unsettled", "failed", "dropped"}]
  /\ extends \in [Jobs -> Jobs \cup {Fresh}]
  /\ container \in [Jobs -> {"none", "running", "exited", "removed"}]
  /\ label \in [Jobs -> Nat]
  /\ booting \in SUBSET Jobs
  /\ tracked \in SUBSET Jobs
  /\ expires \in [Jobs -> Nat]
  /\ status \in [Jobs -> {"running", "exited"}]
  /\ stopping \in [Jobs -> {"no", "request", "reaper", "lost"}]
  /\ up \in BOOLEAN
  /\ reaper \in {"asleep", "expiring", "checking", "revoking"}
  /\ doomed \in SUBSET Jobs
  /\ unchecked \in SUBSET Jobs
  /\ reported \in SUBSET Jobs
  /\ refused \in SUBSET Jobs
  /\ blind \in BOOLEAN
  /\ crashes \in 0..MaxCrashes

Init ==
  /\ now = 0
  /\ live = Agents
  /\ stage = [j \in Jobs |-> "new"]
  /\ extends = [j \in Jobs |-> Fresh]
  /\ container = [j \in Jobs |-> "none"]
  /\ label = [j \in Jobs |-> 0]
  /\ booting = {}
  /\ tracked = {}
  /\ expires = [j \in Jobs |-> 0]
  /\ status = [j \in Jobs |-> "running"]
  /\ stopping = [j \in Jobs |-> "no"]
  /\ up = TRUE
  /\ reaper = "asleep"
  /\ doomed = {}
  /\ unchecked = {}
  /\ reported = {}
  /\ refused = {}
  /\ blind = FALSE
  /\ crashes = 0

Exists(c) == container[c] \in {"running", "exited"}

-----------------------------------------------------------------------------
(* Selling. *)

\* price: an extension needs a container whose recorded status is running.
Quote(j, c) ==
  /\ up
  /\ stage[j] = "new"
  /\ c # Fresh => c \in tracked /\ status[c] = "running"
  /\ stage' = [stage EXCEPT ![j] = "quoted"]
  /\ extends' = [extends EXCEPT ![j] = c]
  /\ UNCHANGED <<now, live, dockerVars, trackedVars, stopping, up, reaperVars, historyVars>>

\* The mandate gate passes and the payment is verified.
Pay(j) ==
  /\ up
  /\ stage[j] = "quoted"
  /\ Owner[j] \in live
  /\ stage' = [stage EXCEPT ![j] = "paid"]
  /\ UNCHANGED <<now, live, extends, dockerVars, trackedVars, stopping, up, reaperVars, historyVars>>

\* provision, a fresh job: the deadline is fixed, `docker run` starts.
Launch(j) ==
  /\ stage[j] = "paid"
  /\ extends[j] = Fresh
  /\ stage' = [stage EXCEPT ![j] = "launching"]
  /\ label' = [label EXCEPT ![j] = now + Minutes]
  /\ booting' = booting \cup {j}
  /\ UNCHANGED <<now, live, extends, container, trackedVars, stopping, up, reaperVars, historyVars>>

\* Docker starts the container, or fails; whoever waits learns which.
Boot(j) ==
  /\ j \in booting
  /\ booting' = booting \ {j}
  /\ \/ /\ container' = [container EXCEPT ![j] = "running"]
        /\ stage' = [stage EXCEPT ![j] = IF @ = "launching" THEN "launched" ELSE @]
     \/ /\ stage' = [stage EXCEPT ![j] = IF @ = "launching" THEN "failed" ELSE @]
        /\ UNCHANGED container
  /\ UNCHANGED <<now, live, extends, label, trackedVars, stopping, up, reaperVars, historyVars>>

\* Mutant of Track: the deadline counts from when `docker run` returned.
TrackFromNow(j) ==
  /\ stage[j] = "launched"
  /\ stage' = [stage EXCEPT ![j] = "settling"]
  /\ tracked' = tracked \cup {j}
  /\ expires' = [expires EXCEPT ![j] = now + Minutes]
  /\ status' = [status EXCEPT ![j] = "running"]
  /\ UNCHANGED <<now, live, extends, dockerVars, stopping, up, reaperVars, historyVars>>

\* provision, after `docker run` returned: the insert.  The handler answers,
\* and the x402 layer asks the facilitator to settle.
Track(j) ==
  /\ stage[j] = "launched"
  /\ stage' = [stage EXCEPT ![j] = "settling"]
  /\ tracked' = tracked \cup {j}
  /\ expires' = [expires EXCEPT ![j] = label[j]]
  /\ status' = [status EXCEPT ![j] = "running"]
  /\ UNCHANGED <<now, live, extends, dockerVars, stopping, up, reaperVars, historyVars>>

\* provision, an extension, under the lock: of one's own container only.  It
\* holds before its payment settles, and stays if that fails.
Extend(j) ==
  LET c == extends[j] IN
  /\ stage[j] = "paid"
  /\ c # Fresh
  /\ IF c \in tracked /\ Owner[c] = Owner[j]
       THEN /\ stage' = [stage EXCEPT ![j] = "settling"]
            /\ expires' = [expires EXCEPT ![c] = @ + Minutes]
       ELSE /\ stage' = [stage EXCEPT ![j] = "failed"]
            /\ UNCHANGED expires
  /\ UNCHANGED <<now, live, extends, dockerVars, tracked, status, stopping, up, reaperVars, historyVars>>

\* The facilitator's answer: settled; or a refusal, or none in time, and then
\* the job's minutes are not taken back.
Settle(j) ==
  /\ stage[j] = "settling"
  /\ \E answer \in Answers : stage' = [stage EXCEPT ![j] = answer]
  /\ UNCHANGED <<now, live, extends, dockerVars, trackedVars, stopping, up, reaperVars, historyVars>>

\* What becomes of a job whose request is dropped.
Dropped(j) == IF stage[j] = "settling" THEN "unsettled" ELSE "dropped"

\* The client hangs up and the request's future is dropped; a `docker run`
\* under way is not killed, and a settlement may go through.
HangUp(j) ==
  /\ stage[j] \in {"paid", "launching", "launched", "settling"}
  /\ stage' = [stage EXCEPT ![j] = Dropped(j)]
  /\ UNCHANGED <<now, live, extends, dockerVars, trackedVars, stopping, up, reaperVars, historyVars>>

\* The job's command ends; nothing in `resources` changes.
Exit(c) ==
  /\ container[c] = "running"
  /\ container' = [container EXCEPT ![c] = "exited"]
  /\ UNCHANGED <<now, live, jobVars, label, booting, trackedVars, stopping, up, reaperVars, historyVars>>

-----------------------------------------------------------------------------
(* Tearing down. *)

\* Mutant of Untrack: the entry stays in the map.
UntrackLater(c, who) ==
  IF c \in tracked
    THEN stopping' = [stopping EXCEPT ![c] = who] /\ UNCHANGED trackedVars
    ELSE UNCHANGED <<trackedVars, stopping>>

\* stop, up to its await: the entry leaves the map, or there is none.  (A
\* removal a dead process left behind merges with the new one.)
Untrack(c, who) ==
  IF c \in tracked
    THEN /\ tracked' = tracked \ {c}
         /\ expires' = [expires EXCEPT ![c] = 0]
         /\ status' = [status EXCEPT ![c] = "running"]
         /\ stopping' = [stopping EXCEPT ![c] = who]
    ELSE UNCHANGED <<trackedVars, stopping>>

\* POST /v1/resources/{id}/stop.
StopResource(c) ==
  /\ up
  /\ c \in tracked
  /\ Untrack(c, "request")
  /\ UNCHANGED <<now, live, jobVars, dockerVars, up, reaperVars, historyVars>>

\* `docker rm -f` succeeds or fails.  Either way the teardown is published,
\* unless the request or the process that waited is gone.
Remove(c) ==
  /\ stopping[c] # "no"
  /\ stopping' = [stopping EXCEPT ![c] = "no"]
  /\ \/ /\ container' = [container EXCEPT ![c] = "removed"]
        /\ UNCHANGED refused
     \/ /\ refused' = refused \cup {c}
        /\ UNCHANGED container
  /\ \/ /\ stopping[c] # "lost"
        /\ reported' = reported \cup {c}
     \/ /\ stopping[c] # "reaper"
        /\ UNCHANGED reported
  /\ UNCHANGED <<now, live, jobVars, label, booting, trackedVars, up, reaperVars,
                 blind, crashes>>

ReaperWaits == \E c \in Jobs : stopping[c] = "reaper"

\* Mutant of Wake: only what the map has as running.
WakeForRunning ==
  /\ up
  /\ reaper = "asleep"
  /\ reaper' = "expiring"
  /\ doomed' = {c \in tracked : expires[c] <= now /\ status[c] = "running"}
  /\ UNCHANGED <<now, live, jobVars, dockerVars, trackedVars, stopping, up, unchecked, historyVars>>

\* spawn_reaper, after its sleep: what is past its deadline now.
Wake ==
  /\ up
  /\ reaper = "asleep"
  /\ reaper' = "expiring"
  /\ doomed' = {c \in tracked : expires[c] <= now}
  /\ UNCHANGED <<now, live, jobVars, dockerVars, trackedVars, stopping, up, unchecked, historyVars>>

\* One `self.stop(..).await` of either loop.
Reap(c) ==
  /\ reaper \in {"expiring", "revoking"}
  /\ c \in doomed
  /\ ~ReaperWaits
  /\ doomed' = doomed \ {c}
  /\ Untrack(c, "reaper")
  /\ UNCHANGED <<now, live, jobVars, dockerVars, up, reaper, unchecked, historyVars>>

\* revocation_every has not elapsed: back to sleep.
Rest ==
  /\ reaper = "expiring"
  /\ doomed = {}
  /\ ~ReaperWaits
  /\ reaper' = "asleep"
  /\ UNCHANGED <<now, live, jobVars, dockerVars, trackedVars, stopping, up, doomed, unchecked, historyVars>>

\* It has: the owners map is taken.
Survey ==
  /\ reaper = "expiring"
  /\ doomed = {}
  /\ ~ReaperWaits
  /\ reaper' = "checking"
  /\ unchecked' = tracked
  /\ UNCHANGED <<now, live, jobVars, dockerVars, trackedVars, stopping, up, doomed, historyVars>>

\* Mutant of Unauthorized: a chain that does not resolve is let off.
NeverUnauthorized(a) == FALSE

\* guard.check(agent, 0) fails on the chain itself.
Unauthorized(a) == a \notin live

\* The next agent of the owners map.  evaluate() turns every resolver error
\* into Unresolvable, that of an RPC which is down included.
CheckOwner(a) ==
  LET ids == {c \in unchecked : Owner[c] = a} IN
  /\ reaper = "checking"
  /\ ids # {}
  /\ unchecked' = unchecked \ ids
  /\ \E outage \in BOOLEAN :
       IF outage \/ Unauthorized(a)
         THEN doomed' = ids /\ reaper' = "revoking"
         ELSE UNCHANGED <<doomed, reaper>>
  /\ UNCHANGED <<now, live, jobVars, dockerVars, trackedVars, stopping, up, historyVars>>

\* That agent's containers are gone; go on with the next agent.
Revoked ==
  /\ reaper = "revoking"
  /\ doomed = {}
  /\ ~ReaperWaits
  /\ reaper' = "checking"
  /\ UNCHANGED <<now, live, jobVars, dockerVars, trackedVars, stopping, up, doomed, unchecked, historyVars>>

\* Every agent was checked.
Checked ==
  /\ reaper = "checking"
  /\ unchecked = {}
  /\ reaper' = "asleep"
  /\ UNCHANGED <<now, live, jobVars, dockerVars, trackedVars, stopping, up, doomed, unchecked, historyVars>>

-----------------------------------------------------------------------------
(* The process, the clock and the mandate tree. *)

\* Everything in memory is gone: the map, the quotes, whoever waited.
Crash ==
  /\ up
  /\ crashes < MaxCrashes
  /\ crashes' = crashes + 1
  /\ up' = FALSE
  /\ stage' = [j \in Jobs |-> IF stage[j] \in {"quoted", "paid", "launching", "launched", "settling"}
                                THEN Dropped(j) ELSE stage[j]]
  /\ tracked' = {}
  /\ expires' = [c \in Jobs |-> 0]
  /\ status' = [c \in Jobs |-> "running"]
  /\ stopping' = [c \in Jobs |-> IF stopping[c] = "no" THEN "no" ELSE "lost"]
  /\ reaper' = "asleep"
  /\ doomed' = {}
  /\ unchecked' = {}
  /\ UNCHANGED <<now, live, extends, dockerVars, reported, refused, blind>>

\* Mutant of Listed: `docker ps` without -a.
ListedRunning == {c \in Jobs : container[c] = "running"}

\* `docker ps -a` on this provider's label.
Listed == {c \in Jobs : Exists(c)}

\* main.rs: adopt() before the listener opens.  It returns early when the
\* listing fails.
Adopt ==
  /\ ~up
  /\ up' = TRUE
  /\ \/ /\ tracked' = Listed
        /\ expires' = [c \in Jobs |-> IF c \in Listed THEN label[c] ELSE expires[c]]
        /\ status' = [c \in Jobs |-> IF c \in Listed THEN container[c] ELSE status[c]]
        /\ blind' = FALSE
     \/ /\ blind' = TRUE
        /\ UNCHANGED trackedVars
  /\ UNCHANGED <<now, live, jobVars, dockerVars, stopping, reaperVars,
                 reported, refused, crashes>>

Tick ==
  /\ now < MaxTime
  /\ now' = now + 1
  /\ UNCHANGED <<live, jobVars, dockerVars, trackedVars, stopping, up, reaperVars, historyVars>>

Revoke(a) ==
  /\ a \in live
  /\ live' = live \ {a}
  /\ UNCHANGED <<now, jobVars, dockerVars, trackedVars, stopping, up, reaperVars, historyVars>>

Seed(a) ==
  /\ a \notin live
  /\ live' = live \cup {a}
  /\ UNCHANGED <<now, jobVars, dockerVars, trackedVars, stopping, up, reaperVars, historyVars>>

-----------------------------------------------------------------------------
Reaper ==
  \/ Wake \/ Rest \/ Survey \/ Revoked \/ Checked
  \/ \E c \in Jobs : Reap(c)
  \/ \E a \in Agents : CheckOwner(a)

Next ==
  \/ \E j \in Jobs :
       \/ \E c \in Jobs \cup {Fresh} : Quote(j, c)
       \/ Pay(j) \/ Launch(j) \/ Boot(j) \/ Track(j) \/ Extend(j)
       \/ Settle(j) \/ HangUp(j)
       \/ Exit(j) \/ StopResource(j) \/ Remove(j)
  \/ Reaper \/ Crash \/ Adopt \/ Tick
  \/ \E a \in Agents : Revoke(a) \/ Seed(a)

Spec == Init /\ [][Next]_vars

\* The reaper's loop and Docker go on, and revocation_every does elapse.
FairSpec ==
  /\ Spec
  /\ WF_vars(Reaper)
  /\ SF_vars(Survey)
  /\ \A c \in Jobs : WF_vars(Remove(c))

-----------------------------------------------------------------------------
(* Properties. *)

\* compute.rs:219-244.  The reaper's two loops, the stop route and adopt()
\* race for a container; one that was reported torn down on HCS is not
\* tracked, and gone, unless Docker refused.
ReportedIsGone ==
  \A c \in reported \ refused : c \notin tracked /\ container[c] = "removed"

\* compute.rs:5-8,246-287.  Every container there is has someone who will
\* take it down: the map, or a request or teardown under way.  What is left
\* are those whose buyer hung up, whose removal Docker refused, or that a
\* restart could not list.
NoStray ==
  \A c \in Jobs :
    up /\ Exists(c) =>
      \/ c \in tracked
      \/ stage[c] \in {"launching", "launched", "dropped"}
      \/ stopping[c] # "no"
      \/ c \in refused
      \/ blind

\* Jobs whose minutes a container was given: those that paid, and those whose
\* settlement is out, failed or was cut off.
Buyers(c) == {c} \cup {j \in Jobs : extends[j] = c /\ stage[j] \in {"settling", "unsettled", "done"}}
Paid(c) == {j \in Buyers(c) : stage[j] = "done"}
Owing(c) == {j \in Buyers(c) : stage[j] \in {"settling", "unsettled", "dropped"}}

\* compute.rs:130-201,248-287.  Payments settle after the minutes are granted,
\* and may fail.  The reaper's deadline gives a container the minutes of the
\* jobs that paid and of those that still owe, each once, however extensions,
\* teardowns and restarts interleave: a provider loses one job's minutes for
\* each settlement that is lost, and no others.
FreeMinutesAreOwed ==
  \A c \in tracked :
    expires[c] + Minutes
      <= label[c] + Minutes * (Cardinality(Paid(c)) + Cardinality(Owing(c)))

\* compute.rs:5-8.  A container past its deadline is taken off, or extended.
EveryDeadlineIsKept ==
  \A c \in Jobs :
    c \in tracked /\ expires[c] <= now ~> c \notin tracked \/ expires[c] > now

\* compute.rs:289-291.  Revoking an agent stops its infrastructure.
RevocationStops ==
  \A c \in Jobs :
    c \in tracked /\ Owner[c] \notin live ~> c \notin tracked \/ Owner[c] \in live

=============================================================================
