------------------------------ MODULE MCReceipt ------------------------------
(* Two cards, two photos, two images of the same transfer. *)
EXTENDS Receipt, MCReceiptChecks, TLC

CONSTANTS c1, c2, p1, p2, i1, i2, t1, w1, w2

MCCard  == {c1, c2}
MCPhoto == {p1, p2}
MCImage == {i1, i2}
MCTransfer == {t1}
MCShows == [i \in MCImage |-> t1]
\* What the model and the checks make of a photo that shows the payment due.
MCReading == {[passed |-> TRUE,  legible |-> TRUE],
              [passed |-> FALSE, legible |-> TRUE],
              [passed |-> FALSE, legible |-> FALSE]}
ASSUME ReadingsAreVerdicts ==
    MCReading = {[passed  |-> Passes(raw, Due),
                  legible |-> ParseExtraction(raw).reference # Null] : raw \in Answers}
MCSelling == {c1}
MCSends == {<<p1, c1, i1>>} \cup ({p2} \X MCCard \X MCImage)
OneWorker == {w1}
NoImage == {}
MCTargets == {"HUMAN_INTAKE", "HUMAN_LOST", "PAYMENT_VALIDATED"}
=============================================================================
