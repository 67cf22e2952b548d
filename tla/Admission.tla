------------------------------ MODULE Admission ------------------------------
(***************************************************************************)
(* What an entry promises, as the documentation draws it: it is issued, it *)
(* is used once or annulled, and whoever holds it is let in at most once,  *)
(* and only on the use that consumed it.  The abstract specification that  *)
(* Door implements.                                                        *)
(***************************************************************************)
EXTENDS Naturals

CONSTANT Entry              \* entries a card may hold

VARIABLES life,             \* where each entry is in its life
          admissions        \* how many people each entry has let in

vars == <<life, admissions>>

Life == {"none", "issued", "used", "revoked", "gone"}

Init == /\ life = [e \in Entry |-> "none"]
        /\ admissions = [e \in Entry |-> 0]

Become(e, from, to) == /\ life[e] \in from
                       /\ life' = [life EXCEPT ![e] = to]
                       /\ UNCHANGED admissions

Issue(e)    == Become(e, {"none"}, "issued")
Use(e)      == Become(e, {"issued"}, "used")
Revoke(e)   == Become(e, {"issued"}, "revoked")

\* The opportunity is deleted and its entry with it.
Withdraw(e) == Become(e, {"issued", "revoked"}, "gone")

Enter(e) == /\ life[e] = "used"
            /\ admissions[e] = 0
            /\ admissions' = [admissions EXCEPT ![e] = 1]
            /\ UNCHANGED life

Next == \E e \in Entry : \/ Issue(e) \/ Use(e) \/ Revoke(e)
                         \/ Withdraw(e) \/ Enter(e)

Spec == Init /\ [][Next]_vars
=============================================================================
