---------------------------- MODULE MCFulfillment ----------------------------
(* One or two opportunities, one or two requests at a time, one event. *)
EXTENDS Fulfillment, TLC

CONSTANTS p1, p2, v1

OneCard     == {1}
TwoCards    == {1, 2}
ThreeCards  == {1, 2, 3}
OneSession  == {p1}
TwoSessions == {p1, p2}
OneEvent    == {v1}
FirstNamed  == {1}
Sessions    == Permutations(TwoSessions)

\* Extra receipts play no part in capacity, notices and tokens.
NoExtraReceipt == \A c \in Card : "extra_receipt" \notin card[c].flags

\* A later beginning, which two requests of Spec reach: every card was blocked
\* for want of an event, its lead was told so, and the event is about to be
\* scheduled.  From here two edits at once take both cards.
WaitingForEvent ==
    /\ card = [c \in Card |-> [stage |-> "PAYMENT_VALIDATED", by |-> "user",
                               flags |-> {"no_event"}, kind |-> "entry"]]
    /\ entry = [c \in Card |-> NoRow]
    /\ templated = {} /\ noticed = Card /\ rejected = {}
    /\ agenda = [v \in Event |-> "none"]
    /\ lead = [c \in Card |-> [tokens |-> {}, served |-> FALSE, notices |-> 1]]
    /\ minted = [c \in Card |-> 0]
    /\ session = [p \in Session |-> Idle]
    /\ requests = 0

\* Only the agenda and the requests move from there: operators, reconciliation
\* and the webhook meet the requests on a single card, in the other runs.
AgendaNext == \/ \E p \in Session, v \in Event, status \in {"open", "shut"} :
                     EditEvent(p, v, status)
              \/ \E p \in Session : Work(p) \/ Crash(p)
              \/ \E v \in Event : EventEnds(v) \/ DeleteEvent(v)

WaitingSpec == WaitingForEvent /\ [][AgendaNext]_vars /\ Fairness
=============================================================================
