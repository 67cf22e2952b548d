----------------------------- MODULE MCFunctions -----------------------------
(* The pure functions: a state is one input of one of them. *)
EXTENDS MCReceiptChecks, DeliveryPlan, FunnelRules

VARIABLE input

InitReceipts ==
    \/ \E a \in Amounts : \E text \in Written(a) : input = <<"amount", a, text>>
    \/ \E owner \in Owners : \/ \E found \in Printed(owner) : input = <<"own", owner, found>>
                            \/ \E found \in Others : input = <<"other", owner, found>>
    \/ \E raw \in Answers : \/ \E worse \in Worse(raw) : input = <<"worse", raw, worse>>
                           \/ \E due \in Incomparable : input = <<"answer", raw, due>>

\* A catalogue: up to three links, each of a kind, some left blank.
Link(kind, url) == [kind |-> kind, url |-> url]
SomeLink == {Link("whatsapp_group", "g"), Link("meeting", "m"), Link("meeting", Nothing),
             Link("other", "o"), Link("maps", "p"), Link("maps", Nothing)}
Links   == UNION {{[i \in DOMAIN f |-> IF f[i].url = Nothing THEN f[i]
                                       ELSE [f[i] EXCEPT !.url = <<@, i>>]]
                   : f \in [1 .. n -> SomeLink]} : n \in 0 .. 3}
Modalities == {"presencial", "virtual", "hibrido", Nothing}
Events  == {Nothing, [maps_url |-> Nothing], [maps_url |-> <<"e", 0>>]}

InitPlans ==
    \E modality \in Modalities, links \in Links, event \in Events, issued \in BOOLEAN,
       gate \in {Nothing, "no_event", "capacity_full"} :
        /\ event = Nothing => gate # Nothing \/ issued
        /\ gate = "no_event" => event = Nothing
        /\ input = <<"plan", modality, links, event, issued, gate>>

\* A turn: up to three calls in one answer of the model, or two answers with one.
Uses == {Call("fijar_servicio", "s1"), Call("fijar_servicio", "unknown"),
         Call("enviar_qr_pago", ""), Call("out_of_scope", "")}
        \cup {Call("handoff_to_human", r) : r \in HandoffReasons \cup {"unknown"}}
        \cup {Call("set_lead_stage", s) : s \in {"engaging", "qualified", "handed_off"}}
Batches == UNION {{<<uses>> : uses \in [1 .. n -> Uses]} : n \in 0 .. 3}
           \cup {<<<<first>>, <<second>>>> : first \in Uses, second \in Uses}
           \cup {[i \in 1 .. MaxIterations |-> <<use>>] : use \in Uses}

\* What the model says, and says again; whether the lead sent a photo.
InitTurns ==
    \E stage \in FunnelStage, batches \in Batches, text \in {"model", None},
       again \in {"again", None}, isMedia \in BOOLEAN :
        input = <<"turn", stage, batches, text, again, isMedia>>

\* A message for the router: the words it hits and what the model takes it for.
InitFlows ==
    \E stage \in FunnelStage, spoke \in BOOLEAN,
       words \in SUBSET {"greeting", "handoff", "qualify", "service", "faq"},
       classified \in {"greeting", "handoff", "generate"} :
        input = <<"flow", stage, spoke, words, classified>>

Init == InitReceipts \/ InitPlans \/ InitTurns \/ InitFlows
Next == UNCHANGED input
Spec == Init /\ [][Next]_input

-----------------------------------------------------------------------------
\* Whatever layout the bank uses, the amount that is compared with the price is
\* the one that was paid (money.py:9-13).
AmountsReadAsWritten == input[1] = "amount" => ParseAmount(input[3]) = input[2]

\* The name of the owner matches however the bank orders, cuts or masks it and
\* whatever it adds (beneficiary.py:3-13), and a name that lacks one of its
\* words does not (beneficiary.py:15-19).
OnlyTheOwnerMatches ==
    LET owner == input[2]
        found == input[3]
    IN /\ input[1] = "own" => MatchesBeneficiary(owner, found)
       /\ input[1] = "other" =>
            \/ \A a \in ToSet(NormalizeName(owner)) :
                 \E b \in ToSet(NormalizeName(found)) : Alike(a, b)
            \/ ~MatchesBeneficiary(owner, found)

\* "La duda va a un humano" (receipt_checks.py:7-10): an answer that passes
\* fails as soon as one field is missing, is a marker or says something else,
\* and so does every answer when there is no price or nobody to compare with.
DoubtGoesToHuman ==
    LET raw == input[2]
    IN /\ input[1] = "worse"  => (Passes(raw, Due) => ~Passes(input[3], Due))
       /\ input[1] = "answer" => ~Passes(raw, input[3])

-----------------------------------------------------------------------------
Planned == PlanFor(<<[modality |-> input[2], links |-> input[3]]>>, input[5], input[4], input[6])

Filled(kinds) == {i \in DOMAIN input[3] : input[3][i].kind \in kinds /\ input[3][i].url # Nothing}

Rank(l) == CHOOSE r \in DOMAIN DeliveryKindOrder : DeliveryKindOrder[r] = l.kind

\* A message lists every link that was filled in, once, the groups before the
\* meetings before the material and each kind in the order of the catalogue
\* (delivery.py:185-189), whatever order they were loaded in.
LinksInOrder ==
    Planned.lines # <<>> =>
        /\ Len(Planned.lines) = Cardinality(Filled(ToSet(DeliveryKindOrder)))
        /\ ToSet(Planned.lines) = {input[3][i] : i \in Filled(ToSet(DeliveryKindOrder))}
        /\ \A i, j \in DOMAIN Planned.lines : i < j =>
             LET a == Planned.lines[i]
                 b == Planned.lines[j]
             IN Rank(a) < Rank(b) \/ (Rank(a) = Rank(b) /\ a.url[2] < b.url[2])

\* Who paid gets the entry or something that opens the course, or a human is
\* told (delivery.py:21-27): nothing sent is empty, nothing held back is sent,
\* and an entry that was issued goes out whatever the gate says now
\* (delivery_planner.py:63-68); a message has all the links.
PaidIsServedOrFlagged ==
    input[1] = "plan" =>
        LET access == Filled({"whatsapp_group", "meeting"}) # {}
        IN /\ Planned.blocked_by = Nothing => Planned.entry \/ access
           /\ Planned.blocked_by # Nothing => ~Planned.entry /\ Planned.lines = <<>>
           /\ input[2] \in {"presencial", "hibrido"} =>
                /\ Planned.entry <=> input[5] \/ input[6] = Nothing
                /\ input[2] = "hibrido" /\ Planned.entry /\ ~access
                     => "missing_link" \in Planned.warnings
                /\ Planned.entry /\ Planned.place = Nothing => "missing_link" \in Planned.warnings
           /\ LinksInOrder

-----------------------------------------------------------------------------
Turned ==
    IF input[1] = "flow"
    THEN Handle(Route(input[4], IsFirstTurn(input[2], input[3]), input[5]), input[2],
                <<<<>>>>, "model", None, FALSE)
    ELSE Generate(input[2], input[3], input[4], input[5], input[6])

Degree(stage) == CASE stage = "new" -> 0 [] stage = "engaging" -> 1 [] stage = "qualifying" -> 2
                   [] stage = "qualified" -> 3 [] OTHER -> 4

\* Whatever the model calls, and in whatever order, the funnel only goes forward:
\* no turn reopens a lead, and who gives a buying signal and stays with the
\* agent is hot on the board (funnel_fsm.py:1-8, lead_rating.py:3-9).
FunnelOnlyForward ==
    input[1] \in {"turn", "flow"} =>
        /\ IsTerminal(input[2]) => Turned.stage = input[2]
        /\ Degree(Turned.stage) >= Degree(input[2])
        /\ (Turned.qr \/ Turned.slugs # {}) /\ ~IsTerminal(Turned.stage)
              => RatingForStage(Turned.stage, Turned.slugs # {}) = "hot"

\* A lead that is handed over is told so, unless its service is unknown; no QR
\* goes with it, a photo is acknowledged as such and never asked for again
\* (_finalize_reply).  A lead that stays is not left without an agent.
HandedOverIsTold ==
    input[1] \in {"turn", "flow"} =>
        /\ Turned.ai <=> Turned.reason = None
        /\ Turned.reason # None => ~Turned.qr
        /\ Turned.reason \notin {None, "unknown_service"} => Turned.reply # None
        /\ input[1] = "turn" /\ Turned.reason = "payment_validation" =>
             IF input[6] THEN Turned.reply = "received" ELSE Turned.reply # "received"
        /\ Turned.reply = "greeting" => IsFirstTurn(input[2], input[3])

=============================================================================
