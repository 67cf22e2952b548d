----------------------------- MODULE MCDispatch -----------------------------
(* One lead with up to three messages and two conversations; one or two    *)
(* webhook requests in flight and one or two workers.                        *)
EXTENDS Dispatch, TLC

CONSTANTS m1, m2, m3, w1, w2, k1, k2

TwoConv == {1, 2}

TwoMessages   == {m1, m2}
ThreeMessages == {m1, m2, m3}
NoOptOut      == {}
OneOptOut     == {m1}

OneWebhook  == {w1}
TwoWebhooks == {w1, w2}
OneWorker   == {k1}
TwoWorkers  == {k1, k2}

NoActs   == {}
AllActs  == {"takeover", "handback", "close", "reopen"}
JustTakeover == {"takeover"}
JustClose == {"close"}

NoFaults  == {}
AllFaults == {"webhook", "turn", "sweep"}
WebhookFault == {"webhook"}
TurnFault == {"turn"}

Symmetry == Permutations(Webhook) \cup Permutations(Worker)
            \cup Permutations(Message \ OptOut)
=============================================================================
