---------------------------- MODULE QuoteContract ----------------------------
(***************************************************************************)
(* What the quote store promises a buyer, whatever the request path does   *)
(* in between: a quote is good for one run of the work it was priced for,  *)
(* and for at most one charge, which only ever follows that run.           *)
(***************************************************************************)
CONSTANT Quotes

VARIABLE phase

Phases == {"unissued", "open", "lapsed", "running", "forfeited", "settling", "charged"}

Init == phase = [q \in Quotes |-> "unissued"]

Move(q, from, to) ==
  /\ phase[q] = from
  /\ phase' = [phase EXCEPT ![q] = to]

Issue(q) == Move(q, "unissued", "open")

\* Past its time to live: it can no longer be bought.
Lapse(q) == Move(q, "open", "lapsed")

\* A paid request redeemed it and its handler started.
Run(q) == Move(q, "open", "running")

\* The work failed, or the request was cut off before it was to be settled.
Forfeit(q) == Move(q, "running", "forfeited")

\* The work is done and the facilitator is asked to settle.
Settle(q) == Move(q, "running", "settling")

\* The payment settled on Hedera, or never will.
Charge(q) == Move(q, "settling", "charged")
Refuse(q) == Move(q, "settling", "forfeited")

Step(q) ==
  Issue(q) \/ Lapse(q) \/ Run(q) \/ Forfeit(q) \/ Settle(q) \/ Charge(q) \/ Refuse(q)

Next == \E q \in Quotes : Step(q)

Spec == Init /\ [][Next]_phase

\* Work that started ends.  A settlement may stay in doubt for good.
FairSpec == Spec /\ \A q \in Quotes : WF_phase(Forfeit(q) \/ Settle(q))
=============================================================================
