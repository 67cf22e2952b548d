-------------------------------- MODULE Inbox --------------------------------
(***************************************************************************)
(* What the intake of WhatsApp promises, before queues, locks and marks: a *)
(* message of a lead is kept once, and each turn of the agent replies to   *)
(* messages of one conversation that no turn has replied to.  The abstract *)
(* specification that Dispatch implements.                                 *)
(***************************************************************************)
EXTENDS Naturals

CONSTANT Conv               \* conversations

VARIABLES kept,             \* messages in the history
          answered,         \* those that some turn has replied to
          replies           \* turns saved in each conversation

vars == <<kept, answered, replies>>

Init == /\ kept = {}
        /\ answered = {}
        /\ replies = [c \in Conv |-> 0]

Keep == /\ kept \subseteq kept'
        /\ \A r, s \in kept' : r.msg = s.msg => r = s
        /\ UNCHANGED <<answered, replies>>

Reply(c) == \E batch \in SUBSET {r \in kept \ answered : r.conv = c} :
                /\ batch # {}
                /\ answered' = answered \cup batch
                /\ replies' = [replies EXCEPT ![c] = @ + 1]
                /\ UNCHANGED kept

Next == Keep \/ \E c \in Conv : Reply(c)

Spec == Init /\ [][Next]_vars
=============================================================================
