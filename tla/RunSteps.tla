------------------------------ MODULE RunSteps ------------------------------
(***************************************************************************)
(* What a purchase says while it is made (the `emit` of main.rs): the      *)
(* steps of Purchase, each with the steps of the stream it emits, for the  *)
(* two pages that are built from them.  `start`, `planned` and             *)
(* `quote_failed` only narrate and are left out, and a no_provider that    *)
(* says `unavailable` is a kind of its own.  This module has no            *)
(* specification: RunConsole and IncidentView compose it with a reader.    *)
(***************************************************************************)
EXTENDS Purchase, Sequences

CONSTANT NoOne  \* no provider

ASSUME NobodyAssumption == NoOne \notin Providers

VARIABLES
  failures,  \* purchase(): `failed` is not 0
  answered   \* quotes whose paying request the guard answered with 403

taskVars == <<failures, answered>>

TaskInit == failures = FALSE /\ answered = {}

\* The steps from discovery to the first offer that is asked about.
Opening(service, limit) ==
  IF offers' # {} THEN {<<"discovered", "quote">>}
  ELSE {<<"discovered", "no_provider">>, <<"discovered", "unavailable">>}
       \cup {<<"discovered", "quote", "over_budget">> :
               p \in {q \in Sellers[service] : Price[q] > limit}}

\* An offer whose turn came: passed over, and then denied if no other is
\* left and none was tried; or selected, and then refused, or paid, or the
\* probe failed, which purchase() raises.
Tried ==
  IF offers' # offers
  THEN {<<said>> \o IF offers' = {} /\ ~failures THEN <<"denied">> ELSE <<>> :
          said \in {"authorization", "authorization_failed"}}
  ELSE {<<"authorization", "selected">> \o last :
          last \in IF step' = "paying" THEN {<<"payment_required", "paying">>}
                                       ELSE {<<"refused">>, <<>>}}

\* client.purchase returned.  A 403 is the guard's, which comes before the
\* quote is redeemed: the request is answered and the quote stays open.
Paid(p, said) ==
  \/ /\ step' = "bought"
     /\ said \in {<<"result">>, <<"settled", "result">>}
     /\ UNCHANGED taskVars
  \/ /\ offers' # offers
     /\ said = <<"service_failed">>
     /\ failures' = TRUE
     /\ UNCHANGED answered
  \/ /\ step' = "stopped" /\ offers' = offers
     /\ said = <<"payment_failed">>
     /\ UNCHANGED taskVars
  \/ /\ step' = "stopped" /\ offers' = offers
     /\ phase[Quote(p)] = "open"
     /\ said = <<"refused">>
     /\ answered' = answered \cup {Quote(p)}
     /\ UNCHANGED failures

PaidSteps ==
  {<<"result">>, <<"settled", "result">>, <<"service_failed">>, <<"payment_failed">>, <<"refused">>}

\* audit(): the receipt reaches consensus on the topic, or is given up.
AuditSteps == {"audited", "audit_pending"}

ServeSent == \E q \in Quotes \ answered : Serve(q)

\* Whom order n has charged, or may yet charge.
BillOf(n) == {p \in MayCharge(n) : <<n, p>> \notin answered}
=============================================================================
