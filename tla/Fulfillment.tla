----------------------------- MODULE Fulfillment -----------------------------
(***************************************************************************)
(* Delivering what a lead paid for.  A card in "Pago validado" is taken by *)
(* a request (an operator's drag, the vision worker's approval, the lead's *)
(* next message, an edited event, the "Generar entrada" button), which     *)
(* decides what to send, issues the entry, sends it, and only then moves   *)
(* the card on.  Requests run at the same time, each in a transaction of   *)
(* its own, on cards it read when it began; operators, reconciliation and  *)
(* the webhook change the same cards in between.                           *)
(***************************************************************************)
EXTENDS Naturals, FiniteSets

CONSTANTS
    Card,           \* opportunities, numbered in the order they were created
    Session,        \* requests that may be served at the same time
    Event,          \* events of the service sold in person
    NoEvent,        \* event_id NULL
    Capacity,       \* seats of every event
    Named,          \* cards whose lead has told a name
    Kinds,          \* what the services of a card may amount to
    MaxRequests,    \* bound: requests in a behaviour
    Faults          \* whether processes die and WhatsApp's answers get lost

ASSUME CardsAreNumbered == Card \subseteq Nat /\ Card # {}
ASSUME NoEventIsNoEvent == NoEvent \notin Event
ASSUME NamedAreCards    == Named \subseteq Card
ASSUME KindsAreKnown    ==
    Kinds \subseteq {"none", "ambiguous", "nolink", "virtual", "entry", "nomaps"}
ASSUME CapacityIsNumber == Capacity \in Nat
ASSUME FaultsIsBoolean  == Faults \in BOOLEAN

VARIABLES
    card,           \* stage, who moved it there, avisos and services of each card
    entry,          \* qr_entry rows, as committed
    templated,      \* cards whose entry holds its outbound dedupe key, committed
    noticed,        \* threads with a "payment_confirmed_notice" row
    rejected,       \* payments reconciliation rejected and nobody validated again
    agenda,         \* the events
    lead,           \* what each lead has received on WhatsApp
    minted,         \* tokens generated for each card
    session,        \* the requests being served
    requests        \* how many have begun

world == <<agenda, rejected, minted, requests>>
vars  == <<card, entry, templated, noticed, rejected, agenda, lead, minted,
           session, requests>>

Stage == {"PAYMENT_VALIDATION", "PAYMENT_VALIDATED", "DELIVERED", "CLOSED", "HUMAN_LOST"}

DeliveryFlags == {"delivery_pending", "no_modality", "missing_link",
                  "ambiguous_service", "needs_name", "no_event", "capacity_full"}
Flag == DeliveryFlags \cup {"extra_receipt"}

\* A retry drops the avisos of the previous attempt and keeps the others.
ReplaceDeliveryFlags(flags, new) == (flags \ DeliveryFlags) \cup new

EventOrNone == Event \cup {NoEvent}
EntryRow == [token : Nat, event : EventOrNone, revoked : BOOLEAN]
NoRow    == [token |-> 0, event |-> NoEvent, revoked |-> FALSE]
Exists(row) == row.token # 0

CardView == [stage : Stage, flags : SUBSET Flag]
Unread   == [stage |-> "PAYMENT_VALIDATION", flags |-> {}]

PC == {"idle", "plan", "insert", "flush", "send", "template", "claim", "record",
       "move", "clear", "close", "notify", "note", "block"}

\* "snap" is what the request read of its cards when it began and nobody
\* refreshes; "open" and "key" are the inserts its transaction has not committed.
Request == [pc : PC, card : Card, todo : SUBSET Card, snap : [Card -> CardView],
            button : BOOLEAN, needs : BOOLEAN, row : EntryRow, event : EventOrNone,
            warnings : SUBSET Flag, flag : Flag,
            open : [Card -> EntryRow], key : SUBSET Card]

Idle == [pc |-> "idle", card |-> CHOOSE c \in Card : TRUE, todo |-> {},
         snap |-> [c \in Card |-> Unread], button |-> FALSE, needs |-> FALSE,
         row |-> NoRow, event |-> NoEvent, warnings |-> {}, flag |-> "no_modality",
         open |-> [c \in Card |-> NoRow], key |-> {}]

Init == /\ card \in [Card -> [stage : {"PAYMENT_VALIDATION"}, by : {"user"},
                              flags : {{}}, kind : Kinds]]
        /\ entry = [c \in Card |-> NoRow]
        /\ templated = {} /\ noticed = {} /\ rejected = {}
        /\ agenda \in [Event -> {"none", "open"}]
        /\ lead = [c \in Card |-> [tokens |-> {}, served |-> FALSE, notices |-> 0]]
        /\ minted = [c \in Card |-> 0]
        /\ session = [p \in Session |-> Idle]
        /\ requests = 0

-----------------------------------------------------------------------------
(* How a request goes on, and its transaction. *)

At(p, pc) == session[p].pc = pc

Goto(p, pc) == session' = [session EXCEPT ![p].pc = pc]

\* Mutant of Proceed: without ORDER BY two retries may take the cards in
\* opposite orders.
ProceedInAnyOrder(r) ==
    IF r.todo = {} THEN Idle
    ELSE LET c == CHOOSE x \in r.todo : \A y \in r.todo :
                      IF requests % 2 = 0 THEN x <= y ELSE x >= y
         IN [Idle EXCEPT !.pc = "plan", !.card = c, !.todo = r.todo \ {c},
                         !.snap = r.snap, !.open = r.open, !.key = r.key]

\* The event retry takes its cards in the order they were created; any other
\* request has one.  When there are none left, what is not committed is lost.
Proceed(r) ==
    IF r.todo = {} THEN Idle
    ELSE LET c == CHOOSE x \in r.todo : \A y \in r.todo : x <= y
         IN [Idle EXCEPT !.pc = "plan", !.card = c, !.todo = r.todo \ {c},
                         !.snap = [r.snap EXCEPT ![r.card] = Unread],
                         !.open = r.open, !.key = r.key]

Committed(r) == [r EXCEPT !.open = [c \in Card |-> NoRow], !.key = {}]

\* session.commit(): everything the transaction inserted becomes visible.
Commit(p) ==
    /\ entry' = [c \in Card |-> IF Exists(session[p].open[c])
                                THEN session[p].open[c] ELSE entry[c]]
    /\ templated' = templated \cup session[p].key

\* A deliver() that raises: the button's request ends; the other callers log
\* the error and go on with the next card, without a rollback.
Raise(p) == session' = [session EXCEPT ![p] = IF @.button THEN Idle ELSE Proceed(@)]

Receive(p) ==
    LET c == session[p].card
        t == session[p].row.token
    IN lead' = [lead EXCEPT ![c].served = TRUE,
                            ![c].tokens = IF session[p].needs THEN @ \cup {t} ELSE @]

SetFlags(p, flags) ==
    LET c == session[p].card
    IN card' = IF flags = session[p].snap[c].flags THEN card
               ELSE [card EXCEPT ![c].flags = flags]


-----------------------------------------------------------------------------
(* What begins a request.  Its cards are read here and not again. *)

Fresh(c) == [stage |-> card[c].stage, flags |-> card[c].flags]

Begin(p, cards, view, button) ==
    /\ At(p, "idle")
    /\ requests < MaxRequests
    /\ requests' = requests + 1
    /\ session' = [session EXCEPT ![p] =
           LET start == Proceed([Idle EXCEPT !.todo = cards])
           IN IF cards = {} THEN Idle
              ELSE [start EXCEPT !.snap = view, !.button = button]]

\* An operator drags the card to "Pago validado" or validates it in the panel
\* ("user"), or the vision worker approves a card that awaits it ("system").
Validate(p, c, by) ==
    /\ by = "system" => card[c].stage = "PAYMENT_VALIDATION"
    /\ card' = IF card[c].stage = "PAYMENT_VALIDATED" THEN card
               ELSE [card EXCEPT ![c].stage = "PAYMENT_VALIDATED", ![c].by = by]
    /\ rejected' = rejected \ {c}
    /\ Begin(p, {c}, [x \in Card |-> IF x = c
                        THEN [stage |-> "PAYMENT_VALIDATED", flags |-> card[c].flags]
                        ELSE Unread], FALSE)
    /\ UNCHANGED <<entry, templated, noticed, agenda, lead, minted>>

\* The lead writes and a delivery was waiting for the 24h window to open.
RetryOnInbound(p, c) ==
    /\ "delivery_pending" \in card[c].flags
    /\ Begin(p, {c}, [x \in Card |-> IF x = c THEN Fresh(c) ELSE Unread], FALSE)
    /\ UNCHANGED <<card, entry, templated, noticed, rejected, agenda, lead, minted>>

\* Creating or editing an event retries the cards that waited for it.
EditEvent(p, v, status) ==
    LET waiting == {c \in Card : /\ card[c].stage = "PAYMENT_VALIDATED"
                                 /\ card[c].kind \in {"entry", "nomaps", "ambiguous"}
                                 /\ card[c].flags \cap {"no_event", "capacity_full"} # {}}
    IN /\ agenda' = [agenda EXCEPT ![v] = status]
       /\ Begin(p, waiting, [x \in Card |-> IF x \in waiting THEN Fresh(x) ELSE Unread],
                FALSE)
       /\ UNCHANGED <<card, entry, templated, noticed, rejected, lead, minted>>

\* The "Generar entrada" button.
GenerateEntry(p, c) ==
    /\ card[c].stage = "PAYMENT_VALIDATED"
    /\ card[c].kind \in {"entry", "nomaps"}
    /\ Begin(p, {c}, [x \in Card |-> IF x = c THEN Fresh(c) ELSE Unread], TRUE)
    /\ UNCHANGED <<card, entry, templated, noticed, rejected, agenda, lead, minted>>

-----------------------------------------------------------------------------
(* The plan: DeliveryPlanner.plan_for, then the gate of the event. *)

\* Mutant of Blocking: an aviso that card_flags does not know.
BlockingUnknownly(kind) == IF kind = "none" THEN {"no_service"} ELSE {}

Blocking(kind) == CASE kind = "none"      -> {"no_modality"}
                    [] kind = "ambiguous" -> {"ambiguous_service"}
                    [] kind = "nolink"    -> {"missing_link"}
                    [] OTHER              -> {}

Warnings(kind) == IF kind = "nomaps" THEN {"missing_link"} ELSE {}

Current == LET open == {v \in Event : agenda[v] = "open"}
           IN IF open = {} THEN {NoEvent} ELSE open

Bound(rows, v) == {c \in Card : Exists(rows[c]) /\ rows[c].event = v /\ ~rows[c].revoked}

\* Mutant of Issued: the entries of its own transaction are not counted.
IssuedByOthers(p, v) == Cardinality(Bound(entry, v))

\* issued_count: committed entries and those of the same transaction.
Issued(p, v) == Cardinality(Bound(entry, v)) + Cardinality(Bound(session[p].open, v))

\* A blocked delivery is told to the lead and flagged; the button only says so.
Blocked(p, flag) ==
    session' = [session EXCEPT ![p] = IF @.button THEN Idle
                                      ELSE [@ EXCEPT !.pc = "notify", !.flag = flag]]

Gate(p, v) ==
    LET r == session[p] IN
    IF v = NoEvent THEN Blocked(p, "no_event")
    ELSE IF Issued(p, v) >= Capacity THEN Blocked(p, "capacity_full")
    ELSE session' = [session EXCEPT ![p] =
             [r EXCEPT !.pc = "insert", !.needs = TRUE, !.event = v,
                       !.warnings = Warnings(card[r.card].kind)]]

\* Mutant of Resend: sending again issues a new token.
ResendAnew(p) ==
    LET r   == session[p]
        row == [entry[r.card] EXCEPT !.token = @ + 1]
    IN session' = [session EXCEPT ![p] =
           [r EXCEPT !.pc = "send", !.needs = TRUE, !.row = row, !.event = row.event]]

\* An issued entry is sent again as it is, and skips the gate.
Resend(p) ==
    LET r   == session[p]
        row == entry[r.card]
    IN session' = [session EXCEPT ![p] =
           [r EXCEPT !.pc = "send", !.needs = TRUE, !.row = row, !.event = row.event,
                     !.warnings = Warnings(card[r.card].kind)]]

\* Links are sent as they are.  The button issues an entry whatever the plan is,
\* and would give one without event to a service that turned virtual meanwhile.
PlanVirtual(p) ==
    session' = [session EXCEPT ![p] = IF @.button
                    THEN [@ EXCEPT !.pc = "insert", !.needs = TRUE]
                    ELSE [@ EXCEPT !.pc = "send"]]

Plan(p) ==
    LET r == session[p]
        c == r.card
        k == card[c].kind
    IN /\ r.pc = "plan"
       /\ IF r.snap[c].stage # "PAYMENT_VALIDATED"
          THEN session' = [session EXCEPT ![p] = Proceed(r)]
          ELSE IF Blocking(k) # {} THEN \E flag \in Blocking(k) : Blocked(p, flag)
          ELSE IF k = "virtual" THEN PlanVirtual(p)
          ELSE IF Exists(entry[c]) THEN Resend(p)
          ELSE \E v \in Current : Gate(p, v)
       /\ UNCHANGED <<card, entry, templated, noticed, lead>>
       /\ UNCHANGED world

-----------------------------------------------------------------------------
(* A blocked delivery: the notice, once per thread, and the aviso. *)

Notify(p) ==
    LET c == session[p].card IN
    /\ At(p, "notify")
    /\ \/ /\ c \notin noticed
          /\ lead' = [lead EXCEPT ![c].notices = @ + 1]
          /\ Goto(p, "note")
       \/ /\ c \notin noticed /\ Faults       \* told, but the answer is lost
          /\ lead' = [lead EXCEPT ![c].notices = @ + 1]
          /\ Goto(p, "block")
       \/ /\ Goto(p, "block")                 \* told before, or the send failed
          /\ UNCHANGED lead
    /\ UNCHANGED <<card, entry, templated, noticed>>
    /\ UNCHANGED world

\* Mutant of Note: the row of the notice is left without its kind.
NoteUntagged(p) ==
    /\ At(p, "note")
    /\ Commit(p)
    /\ session' = [session EXCEPT ![p] = [Committed(@) EXCEPT !.pc = "block"]]
    /\ UNCHANGED <<card, noticed, lead>>
    /\ UNCHANGED world

Note(p) ==
    /\ At(p, "note")
    /\ noticed' = noticed \cup {session[p].card}
    /\ Commit(p)
    /\ session' = [session EXCEPT ![p] = [Committed(@) EXCEPT !.pc = "block"]]
    /\ UNCHANGED <<card, lead>>
    /\ UNCHANGED world

Block(p) ==
    LET r == session[p] IN
    /\ r.pc = "block"
    /\ SetFlags(p, ReplaceDeliveryFlags(r.snap[r.card].flags, {r.flag}))
    /\ Commit(p)
    /\ session' = [session EXCEPT ![p] = Proceed(Committed(r))]
    /\ UNCHANGED <<noticed, lead>>
    /\ UNCHANGED world

-----------------------------------------------------------------------------
(* The entry and its sending: EntryService.issue_and_send. *)

\* The row is looked up again; another request may have committed one.
Insert(p) ==
    LET r   == session[p]
        row == entry[r.card]
    IN /\ r.pc = "insert"
       /\ session' = [session EXCEPT ![p] = IF Exists(row)
                          THEN [r EXCEPT !.pc = "send", !.row = row]
                          ELSE [r EXCEPT !.pc = "flush"]]
       /\ UNCHANGED <<card, entry, templated, noticed, lead>>
       /\ UNCHANGED world

\* The INSERT waits for another one of the same card to be decided; then it
\* fails on the unique card_id, or on an event deleted meanwhile, and with it
\* the whole transaction of the request.
Inserting(p, c) == \E q \in Session \ {p} : Exists(session[q].open[c])

\* Mutant of Flush: qr_entry.card_id is not unique.
FlushNotUnique(p) ==
    LET r   == session[p]
        c   == r.card
        row == [token |-> minted[c] + 1, event |-> r.event, revoked |-> FALSE]
    IN /\ r.pc = "flush"
       /\ minted' = [minted EXCEPT ![c] = @ + 1]
       /\ session' = [session EXCEPT ![p] =
              [r EXCEPT !.pc = "send", !.row = row, !.open[c] = row]]
       /\ UNCHANGED <<card, entry, templated, noticed, lead, agenda, rejected, requests>>

Flush(p) ==
    LET r   == session[p]
        c   == r.card
        row == [token |-> minted[c] + 1, event |-> r.event, revoked |-> FALSE]
    IN /\ r.pc = "flush"
       /\ ~Inserting(p, c)
       /\ minted' = [minted EXCEPT ![c] = @ + 1]
       /\ session' = [session EXCEPT ![p] =
              IF Exists(entry[c]) \/ (r.event # NoEvent /\ agenda[r.event] = "none")
              THEN Idle
              ELSE [r EXCEPT !.pc = "send", !.row = row, !.open[c] = row]]
       /\ UNCHANGED <<card, entry, templated, noticed, lead, agenda, rejected, requests>>

SendDelivered(p) ==
    /\ At(p, "send")
    /\ Receive(p)
    /\ Goto(p, IF session[p].button THEN "move" ELSE "record")
    /\ UNCHANGED <<card, entry, templated, noticed>>
    /\ UNCHANGED world

\* Mutant of SendOutsideWindow: the refusal is logged and the card moves on.
SendOutsideWindowIgnored(p) ==
    /\ At(p, "send")
    /\ Goto(p, "record")
    /\ UNCHANGED <<card, entry, templated, noticed, lead>>
    /\ UNCHANGED world

\* Outside the 24h window an entry of a known event may go out as a template.
SendOutsideWindow(p) ==
    LET r == session[p] IN
    /\ r.pc = "send"
    /\ session' = [session EXCEPT ![p] =
           IF r.button THEN Idle
           ELSE IF r.needs /\ r.event # NoEvent THEN [r EXCEPT !.pc = "template"]
           ELSE [r EXCEPT !.pc = "block", !.flag = "delivery_pending"]]
    /\ UNCHANGED <<card, entry, templated, noticed, lead>>
    /\ UNCHANGED world

\* Mutant of SendFails: the error is swallowed where the entry is sent.
SendFailsSilently(p) ==
    /\ At(p, "send")
    /\ Goto(p, IF session[p].button THEN "move" ELSE "record")
    /\ UNCHANGED <<card, entry, templated, noticed, lead>>
    /\ UNCHANGED world

\* Any other failure; the lead may have received it all the same.
SendFails(p) ==
    /\ At(p, "send")
    /\ (Faults /\ Receive(p)) \/ UNCHANGED lead
    /\ Raise(p)
    /\ UNCHANGED <<card, entry, templated, noticed>>
    /\ UNCHANGED world

-----------------------------------------------------------------------------
(* The template, and what follows a delivery. *)

SendTemplate(p) ==
    /\ At(p, "template")
    /\ session[p].card \notin templated
    /\ Receive(p)
    /\ Goto(p, "claim")
    /\ UNCHANGED <<card, entry, templated, noticed>>
    /\ UNCHANGED world

\* Already sent, opted out, or Meta did not take it (or did, and did not say).
TemplateNotSent(p) ==
    /\ At(p, "template")
    /\ (Faults /\ session[p].card \notin templated /\ Receive(p)) \/ UNCHANGED lead
    /\ session' = [session EXCEPT ![p].pc = "block", ![p].flag = "delivery_pending"]
    /\ UNCHANGED <<card, entry, templated, noticed>>
    /\ UNCHANGED world

\* A success claims the unique dedupe key, waiting for whoever is claiming it.
Claim(p) ==
    LET r == session[p] IN
    /\ r.pc = "claim"
    /\ \A q \in Session \ {p} : r.card \notin session[q].key
    /\ session' = [session EXCEPT ![p] = IF r.card \in templated THEN Idle
                       ELSE [r EXCEPT !.pc = "move", !.key = @ \cup {r.card}]]
    /\ UNCHANGED <<card, entry, templated, noticed, lead>>
    /\ UNCHANGED world

\* record_delivery mirrors what was sent in the thread, and commits.
Record(p) ==
    /\ At(p, "record")
    /\ Commit(p)
    /\ session' = [session EXCEPT ![p] = [Committed(@) EXCEPT !.pc = "move"]]
    /\ UNCHANGED <<card, noticed, lead>>
    /\ UNCHANGED world

Move(p) ==
    LET r == session[p]
        c == r.card
    IN /\ r.pc = "move"
       /\ card' = [card EXCEPT ![c].stage = "DELIVERED",
                               ![c].by = IF r.button THEN "user" ELSE "system"]
       /\ Commit(p)
       /\ session' = [session EXCEPT ![p] = IF r.button THEN Idle
                          ELSE [Committed(r) EXCEPT !.pc = "clear",
                                                    !.snap[c].stage = "DELIVERED"]]
       /\ UNCHANGED <<noticed, lead>>
       /\ UNCHANGED world

Clear(p) ==
    LET r     == session[p]
        flags == ReplaceDeliveryFlags(r.snap[r.card].flags, r.warnings)
    IN /\ r.pc = "clear"
       /\ SetFlags(p, flags)
       /\ session' = [session EXCEPT ![p] = [r EXCEPT !.pc = "close",
                                                      !.snap[r.card].flags = flags]]
       /\ UNCHANGED <<entry, templated, noticed, lead>>
       /\ UNCHANGED world

\* Won, or flagged when nobody knows the lead's name.
Close(p) ==
    LET r == session[p]
        c == r.card
    IN /\ r.pc = "close"
       /\ IF c \in Named
          THEN card' = [card EXCEPT ![c].stage = "CLOSED", ![c].by = "system"]
          ELSE SetFlags(p, r.snap[c].flags \cup {"needs_name"})
       /\ session' = [session EXCEPT ![p] = Proceed(r)]
       /\ UNCHANGED <<entry, templated, noticed, lead>>
       /\ UNCHANGED world

-----------------------------------------------------------------------------
(* Everything else that happens to the cards meanwhile. *)

\* An operator drags the card anywhere else; winning asks for the name.
Drag(c, stage) ==
    /\ stage \notin {card[c].stage, "PAYMENT_VALIDATED"}
    /\ stage = "CLOSED" => c \in Named
    /\ card' = [card EXCEPT ![c].stage = stage, ![c].by = "user"]
    /\ UNCHANGED <<entry, templated, noticed, lead, session>>
    /\ UNCHANGED world

SetService(c, kind) ==
    /\ card[c].kind # kind
    /\ card' = [card EXCEPT ![c].kind = kind]
    /\ UNCHANGED <<entry, templated, noticed, lead, session>>
    /\ UNCHANGED world

\* Reconciliation: the payment did not arrive, the entry is annulled.
Reject(c) ==
    /\ c \notin rejected
    /\ rejected' = rejected \cup {c}
    /\ entry' = IF Exists(entry[c]) THEN [entry EXCEPT ![c].revoked = TRUE] ELSE entry
    /\ card' = IF card[c].stage = "HUMAN_LOST" THEN card
               ELSE [card EXCEPT ![c].stage = "HUMAN_LOST", ![c].by = "user"]
    /\ UNCHANGED <<templated, noticed, agenda, lead, minted, session, requests>>

\* The webhook: a receipt for a card whose payment was already processed.
ExtraReceipt(c) ==
    /\ card[c].stage \in {"PAYMENT_VALIDATED", "DELIVERED", "CLOSED"}
    /\ "extra_receipt" \notin card[c].flags
    /\ card' = [card EXCEPT ![c].flags = @ \cup {"extra_receipt"}]
    /\ UNCHANGED <<entry, templated, noticed, lead, session>>
    /\ UNCHANGED world

\* The date of an event passes.
EventEnds(v) ==
    /\ agenda[v] = "open"
    /\ agenda' = [agenda EXCEPT ![v] = "shut"]
    /\ UNCHANGED <<card, entry, templated, noticed, rejected, lead, minted, session, requests>>

\* DELETE waits for the inserts that refer to the event; then its entries lose it.
DeleteEvent(v) ==
    /\ agenda[v] # "none"
    /\ \A p \in Session, c \in Card : ~(Exists(session[p].open[c])
                                        /\ session[p].open[c].event = v)
    /\ agenda' = [agenda EXCEPT ![v] = "none"]
    /\ entry' = [c \in Card |-> IF entry[c].event = v
                                THEN [entry[c] EXCEPT !.event = NoEvent] ELSE entry[c]]
    /\ UNCHANGED <<card, templated, noticed, rejected, lead, minted, session, requests>>

\* A process dies with its transaction; what WhatsApp took stays sent.
Crash(p) ==
    /\ Faults
    /\ ~At(p, "idle")
    /\ session' = [session EXCEPT ![p] = Idle]
    /\ UNCHANGED <<card, entry, templated, noticed, lead>>
    /\ UNCHANGED world

-----------------------------------------------------------------------------
Work(p) == \/ Plan(p) \/ Notify(p) \/ Note(p) \/ Block(p)
           \/ Insert(p) \/ Flush(p)
           \/ SendDelivered(p) \/ SendOutsideWindow(p) \/ SendFails(p)
           \/ SendTemplate(p) \/ TemplateNotSent(p) \/ Claim(p)
           \/ Record(p) \/ Move(p) \/ Clear(p) \/ Close(p)

Next ==
    \/ \E p \in Session, c \in Card, by \in {"user", "system"} : Validate(p, c, by)
    \/ \E p \in Session, c \in Card : RetryOnInbound(p, c)
    \/ \E p \in Session, v \in Event, status \in {"open", "shut"} : EditEvent(p, v, status)
    \/ \E p \in Session, c \in Card : GenerateEntry(p, c)
    \/ \E p \in Session : Work(p)
    \/ \E p \in Session : Crash(p)
    \/ \E c \in Card, stage \in Stage : Drag(c, stage)
    \/ \E c \in Card, kind \in Kinds : SetService(c, kind)
    \/ \E c \in Card : Reject(c)
    \/ \E c \in Card : ExtraReceipt(c)
    \/ \E v \in Event : EventEnds(v)
    \/ \E v \in Event : DeleteEvent(v)

Spec == Init /\ [][Next]_vars

\* A request that is being served is never abandoned: it takes its next step
\* unless its process dies.
Fairness == \A p \in Session : WF_vars(Work(p))

FairSpec == Spec /\ Fairness

-----------------------------------------------------------------------------
(* Properties. *)

CardRow == [stage : Stage, by : {"user", "system"}, flags : SUBSET Flag, kind : Kinds]

\* The avisos stay within card_flags.ALL_FLAGS, the stages within the funnel and
\* every request at a step of FulfillmentService.deliver.
TypeOK == /\ card \in [Card -> CardRow]
          /\ entry \in [Card -> EntryRow]
          /\ templated \subseteq Card /\ noticed \subseteq Card /\ rejected \subseteq Card
          /\ agenda \in [Event -> {"none", "open", "shut"}]
          /\ lead \in [Card -> [tokens : SUBSET Nat, served : BOOLEAN, notices : Nat]]
          /\ minted \in [Card -> Nat]
          /\ session \in [Session -> Request]
          /\ requests \in Nat

\* "Send first, move later": the system moves a card past "Pago validado" only
\* when its lead has received the delivery, whoever moves the card meanwhile.
ServedBeforeAdvanced ==
    \A c \in Card : /\ card[c].by = "system"
                    /\ card[c].stage \in {"DELIVERED", "CLOSED"}
                    => lead[c].served

\* Why it is inductive: a request that is past the sending served its lead.
ServedByThen ==
    \A p \in Session : session[p].pc \in {"claim", "record", "move", "clear", "close"}
                       => lead[session[p].card].served

\* One entry per card: a row being inserted is the only one of its card, and
\* the QR a request sends is the committed entry or its own insert.
OneEntryPerCard ==
    /\ \A p, q \in Session, c \in Card :
           Exists(session[p].open[c]) =>
               /\ ~Exists(entry[c])
               /\ Exists(session[q].open[c]) => p = q
    /\ \A p \in Session :
           /\ session[p].needs
           /\ session[p].pc \in {"send", "template", "claim", "record", "move"}
           => LET c == session[p].card IN
              /\ Exists(session[p].row)
              /\ session[p].row.token \in {entry[c].token, session[p].open[c].token}

\* Once the entry of a card is committed its token is the one the door knows:
\* it does not change, and no retry, race or restart sends the lead another.
IssuedEntryStands ==
    [][\A c \in Card : Exists(entry[c]) =>
           /\ entry'[c].token = entry[c].token
           /\ lead'[c].tokens \subseteq lead[c].tokens \cup {entry[c].token}]_vars

\* Requests that wait for each other's inserts do not wait for ever: each one
\* ends, whatever the others do.
RequestsEnd == \A p \in Session : ~At(p, "idle") ~> At(p, "idle")

\* No event has more live entries than seats.  has_capacity is asked before the
\* insert and nothing is locked: it holds of one request at a time only.
CapacityRespected == \A v \in Event : Cardinality(Bound(entry, v)) <= Capacity

\* A lead is told once that the payment is validated and the rest will come
\* (confirm_payment_pending).  The row that remembers it is written after the
\* sending: it holds of one request at a time, none of which dies.
NoticedOnce == \A c \in Card : lead[c].notices <= 1

\* A lead never holds two different QR codes of one card.  The entry is sent
\* before it is committed: it holds of one request at a time without failures.
OneToken == \A c \in Card : Cardinality(lead[c].tokens) <= 1

\* An "extra receipt" aviso stays until a person looks at it: replacing the
\* avisos of a delivery keeps it (replace_delivery_flags).  The code writes the
\* set it read when the request began, and drops one that arrived since.
ExtraReceiptKept ==
    [][\A c \in Card : "extra_receipt" \in card[c].flags
                       => "extra_receipt" \in card'[c].flags]_vars

\* A card that is no longer in "Pago validado" when its delivery begins is not
\* delivered again (FulfillmentService.deliver).  The check looks at the card as
\* the request read it, which a retry of several cards does long before.
OnlyValidatedDelivered ==
    [][\A p \in Session : session[p].pc = "plan" /\ session'[p].pc \in {"send", "insert"}
                          => card[session[p].card].stage = "PAYMENT_VALIDATED"]_vars

\* Rejecting a payment annuls its entry, so that the door turns the lead away.
\* The code annuls the entry it finds: one being issued is committed later, live.
RejectedIsAnnulled ==
    \A c \in rejected : Exists(entry[c]) => entry[c].revoked

\* Rejecting a payment closes the opportunity as lost; no delivery undoes it.
\* A delivery that has begun moves the card without looking at its stage again.
RejectedStaysLost ==
    \A c \in rejected : ~(card[c].by = "system" /\ card[c].stage \in {"DELIVERED", "CLOSED"})
=============================================================================
