------------------------------- MODULE Funnel -------------------------------
(***************************************************************************)
(* The opportunities of one lead: the conversation of each, the card that  *)
(* mirrors it on the board, the services the lead accepted and the contact *)
(* behind the phone.  Turns of the agent write them in several             *)
(* transactions, and project the card in one more; people move cards, take *)
(* chats over, edit, open and drop opportunities meanwhile.  Turns of one  *)
(* conversation do not overlap (Dispatch).                                 *)
(***************************************************************************)
EXTENDS FunnelRules, FiniteSets

CONSTANTS Conv,             \* ids of conversation, in the order they are created
          Tools,            \* calls the model may make in a turn
          Typed,            \* names people type: "null", "blank", "named"
          Overlap,          \* whether a person may act inside a projection
          Acts,             \* what people do
          Faults,           \* what fails: "turn", "crash"
          Dragged,          \* bound: stages a card is dragged to
          MaxFaults,        \* bound: conversations a fault cuts a turn of
          MaxInbound,       \* bound: messages of the lead
          MaxActs           \* bound: acts of people

ASSUME ConvIsNat  == Conv \subseteq Nat /\ IsFiniteSet(Conv)
ASSUME NoneIsNone == None \notin FunnelStage \cup HandoffReasons \cup Service

VARIABLES conv,             \* the conversation table
          card,             \* the card of each conversation
          services,         \* how each service got on the card: card_service.source
          event,            \* the reason of the latest handoff_event of the thread
          contact,          \* the contact of the phone
          unread,           \* turns of the lead above the mark of the conversation
          jobs,             \* conversations with a job in the list
          turn,             \* what the worker does with each conversation
          why,              \* ghost: why the agent of each is silent
          broken,           \* ghost: what cut a turn of each short: a fault, a crash
          inbound, acts     \* bounds

vars == <<conv, card, services, event, contact, unread, jobs, turn, why, broken,
          inbound, acts>>
tables == <<conv, card, services, event, contact>>
ghosts == <<why, broken>>
bounds == <<inbound, acts>>

StageName == {IaStages[i] : i \in DOMAIN IaStages} \cup {HumanStages[i] : i \in DOMAIN HumanStages}
Human     == {HumanStages[i] : i \in DOMAIN HumanStages}
Lost      == {"Descalificado", "Perdido"}
Won       == {"Cerrado"}
Closing   == Won \cup Lost

\* full_name: NULL, without letters, or a name.
Names == {"null", "blank", "named"}

ASSUME NoneIsNothing == None \notin StageName \cup Names
                                     \cup {"turn", "crash", "captured", "assigned"}
ASSUME InputsAreAllowed == Dragged \subseteq StageName /\ Typed \subseteq Names

Conversation == [kept : BOOLEAN, stage : FunnelStage, ai : BOOLEAN, name : Names,
                 closed : BOOLEAN]
Card   == [stage : StageName \cup {None}, linked : BOOLEAN]
Source == {None, "captured", "assigned"}
Reason == HandoffReasons \cup {None}

NewConv == [kept |-> FALSE, stage |-> "new", ai |-> TRUE, name |-> "null",
            closed |-> FALSE]
NoCard  == [stage |-> None, linked |-> FALSE]

\* What the rest of a turn needs of its outcome, and what a projection has read.
Idle == [pc |-> "idle", stage |-> "new", seen |-> {}, reason |-> None, slugs |-> {},
         name |-> FALSE, target |-> None, card |-> None, linked |-> FALSE, closed |-> FALSE]
Turn == [pc : {"idle", "turn", "name", "event", "capture", "read", "write"},
         stage : FunnelStage, seen : SUBSET Nat, reason : Reason, slugs : SUBSET Service,
         name : BOOLEAN, target : StageName \cup {None}, card : StageName \cup {None},
         linked : BOOLEAN, closed : BOOLEAN]

Init == /\ conv = [c \in Conv |-> NewConv]
        /\ card = [c \in Conv |-> NoCard]
        /\ services = [c \in Conv |-> [s \in Service |-> None]]
        /\ event = [c \in Conv |-> None]
        /\ contact = None
        /\ unread = [c \in Conv |-> {}]
        /\ jobs = {}
        /\ turn = [c \in Conv |-> Idle]
        /\ why = [c \in Conv |-> None]
        /\ broken = [c \in Conv |-> None]
        /\ inbound = 0
        /\ acts = 0

Kept(c)    == conv[c].kept
HasCard(c) == card[c].stage # None
Latest(c)  == Kept(c) /\ \A d \in Conv : Kept(d) => d <= c
Next1(c)   == ~Kept(c) /\ \A d \in Conv : d < c => Kept(d)

\* The conversation of the phone: the latest, unless there is none or it is closed.
Open(c) == \/ Latest(c) /\ ~conv[c].closed
           \/ Next1(c) /\ \A d \in Conv : Latest(d) => conv[d].closed

-----------------------------------------------------------------------------
(* The lead writes: the message is kept and its conversation queued. *)

Inbound(c) ==
    /\ inbound < MaxInbound
    /\ Open(c)
    /\ inbound' = inbound + 1
    /\ conv' = [conv EXCEPT ![c].kept = TRUE]
    /\ unread' = [unread EXCEPT ![c] = @ \cup {inbound + 1}]
    /\ jobs' = jobs \cup {c}
    /\ UNCHANGED <<card, services, event, contact, turn, ghosts, acts>>

\* The sweep of a worker that starts queues what was left unanswered.
Sweep(c) ==
    /\ c \notin jobs
    /\ turn[c].pc = "idle"
    /\ Kept(c) /\ conv[c].ai /\ ~conv[c].closed /\ unread[c] # {}
    /\ jobs' = jobs \cup {c}
    /\ UNCHANGED <<tables, unread, turn, ghosts, bounds>>

-----------------------------------------------------------------------------
(* The turn: process_message, one action per transaction. *)

\* load: a turn starts if the agent has the chat and there is something to answer.
Load(c) ==
    /\ c \in jobs /\ turn[c].pc = "idle"
    /\ conv[c].ai /\ unread[c] # {}
    /\ jobs' = jobs \ {c}
    /\ turn' = [turn EXCEPT ![c].pc = "turn", ![c].stage = conv[c].stage, ![c].seen = unread[c]]
    /\ UNCHANGED <<tables, unread, ghosts, bounds>>

NothingToDo(c) ==
    /\ c \in jobs /\ turn[c].pc = "idle"
    /\ ~conv[c].ai \/ unread[c] = {}
    /\ jobs' = jobs \ {c}
    /\ turn' = [turn EXCEPT ![c].pc = "read"]
    /\ UNCHANGED <<tables, unread, ghosts, bounds>>

\* The outcomes of a turn: a fixed flow, up to two calls in one answer of the
\* model, and its failure before any.
Outcomes ==
    [s \in FunnelStage |->
        {Greet(s), AskedHuman(s), ModelFailed(s)}
        \cup {Generate(s, <<uses>>, "model", "model", FALSE) :
                uses \in UNION {[1 .. n -> Tools] : n \in 0 .. 2}}]

\* The transactions left of a turn, in their order; then the projection.
Rest(t) == IF t.name THEN "name" ELSE IF t.reason # None THEN "event"
           ELSE IF t.slugs # {} THEN "capture" ELSE "read"

\* save_turn writes the funnel and the switch of the turn, and the mark.
SaveTurn(c) ==
    /\ turn[c].pc = "turn"
    /\ \E o \in Outcomes[turn[c].stage] :
        /\ conv' = [conv EXCEPT ![c].stage = o.stage, ![c].ai = o.ai]
        /\ turn' = [turn EXCEPT ![c] = [Idle EXCEPT !.pc = Rest(o), !.reason = o.reason,
                                        !.slugs = o.slugs, !.name = o.name]]
        /\ why' = [why EXCEPT ![c] = o.reason]
    /\ unread' = [unread EXCEPT ![c] = @ \ turn[c].seen]
    /\ UNCHANGED <<card, services, event, contact, jobs, broken, bounds>>

\* save_full_name, in a transaction of its own.
SaveFullName(c) ==
    /\ turn[c].pc = "name"
    /\ conv' = [conv EXCEPT ![c].name = "named"]
    /\ turn' = [turn EXCEPT ![c].pc = Rest([turn[c] EXCEPT !.name = FALSE]), ![c].name = FALSE]
    /\ UNCHANGED <<card, services, event, contact, unread, jobs, ghosts, bounds>>

\* Mutant of OnHandoff: the reason is told to the board and not kept.
OnHandoffUnkept(c) ==
    /\ turn[c].pc = "event"
    /\ turn' = [turn EXCEPT ![c].pc = Rest([turn[c] EXCEPT !.reason = None]), ![c].reason = None]
    /\ UNCHANGED <<tables, unread, jobs, ghosts, bounds>>

\* on_handoff keeps the reason, after a summary that may fail; then the messages
\* are sent.
OnHandoff(c) ==
    /\ turn[c].pc = "event"
    /\ event' = [event EXCEPT ![c] = turn[c].reason]
    /\ turn' = [turn EXCEPT ![c].pc = Rest([turn[c] EXCEPT !.reason = None]), ![c].reason = None]
    /\ UNCHANGED <<conv, card, services, contact, unread, jobs, ghosts, bounds>>

\* on_captured stamps the accepted services on the card, if there is one.
OnCaptured(c) ==
    /\ turn[c].pc = "capture"
    /\ services' = IF ~HasCard(c) THEN services
                   ELSE [services EXCEPT ![c] =
                            [s \in Service |-> IF s \in turn[c].slugs /\ @[s] = None
                                               THEN "captured" ELSE @[s]]]
    /\ turn' = [turn EXCEPT ![c].pc = "read", ![c].slugs = {}]
    /\ UNCHANGED <<conv, card, event, contact, unread, jobs, ghosts, bounds>>

Fault(c, kind) ==
    /\ kind \in Faults
    /\ Cardinality({d \in Conv : broken[d] # None} \cup {c}) <= MaxFaults
    /\ broken' = [broken EXCEPT ![c] = IF @ = "crash" THEN @ ELSE kind]

\* Mutant of TurnFails: the card waits for a turn that ends well.
TurnFailsUnprojected(c) ==
    /\ Fault(c, "turn")
    /\ turn[c].pc \in {"turn", "name", "event", "capture"}
    /\ turn' = [turn EXCEPT ![c] = Idle]
    /\ UNCHANGED <<tables, unread, jobs, why, bounds>>

\* Meta, the database or the code fails: the turn is rolled back to its last
\* commit and the card is projected all the same.
TurnFails(c) ==
    /\ Fault(c, "turn")
    /\ turn[c].pc \in {"turn", "name", "event", "capture"}
    /\ turn' = [turn EXCEPT ![c] = [Idle EXCEPT !.pc = "read"]]
    /\ UNCHANGED <<tables, unread, jobs, why, bounds>>

\* The process dies; the job is not queued again.
Crash(c) ==
    /\ Fault(c, "crash")
    /\ turn[c].pc # "idle"
    /\ turn' = [turn EXCEPT ![c] = Idle]
    /\ UNCHANGED <<tables, unread, jobs, why, bounds>>

-----------------------------------------------------------------------------
(* The projection: CardService.sync reads and then writes, without a lock. *)

\* Mutant of Target: the board shows the stage of the funnel as it is named there.
TargetAsNamed(c) ==
    IF conv[c].ai THEN conv[c].stage ELSE HumanStageByReason(event[c])

Target(c) == TargetStage(conv[c].stage, conv[c].ai, event[c])

SyncRead(c) ==
    /\ turn[c].pc = "read"
    /\ turn' = [turn EXCEPT ![c].pc = "write", ![c].target = Target(c),
                            ![c].card = card[c].stage, ![c].linked = contact # None,
                            ![c].closed = conv[c].closed]
    /\ UNCHANGED <<tables, unread, jobs, ghosts, bounds>>

Position(stage) == CHOOSE i \in DOMAIN HumanStages : HumanStages[i] = stage

\* Mutant of WouldRegress: the card goes wherever the conversation says.
NeverRegresses(current, target) == FALSE

\* Inside the board after the sale the projection only goes forward.
WouldRegress(current, target) ==
    /\ current \in Human /\ target \in Human
    /\ Position(target) <= Position(current)

\* apply_closed_state with what was read: a closed_at that stays NULL is not
\* written.
Project(c, stage, linked) ==
    /\ card' = [card EXCEPT ![c] = [stage |-> stage, linked |-> linked]]
    /\ conv' = [conv EXCEPT ![c].closed = stage \in Closing \/ (@ /\ ~turn[c].closed)]

\* Mutant of SyncWrite: a new card forgets the contact.
SyncWriteUnlinked(c) ==
    /\ turn[c].pc = "write"
    /\ turn[c].card = None /\ ~HasCard(c)
    /\ Project(c, turn[c].target, FALSE)
    /\ turn' = [turn EXCEPT ![c] = Idle]
    /\ UNCHANGED <<services, event, contact, unread, jobs, ghosts, bounds>>

\* Mutant of SyncWrite: the card moves and its conversation stays as it was.
SyncWriteOpen(c) ==
    /\ turn[c].pc = "write"
    /\ turn[c].card # turn[c].target /\ ~WouldRegress(turn[c].card, turn[c].target)
    /\ card' = [card EXCEPT ![c] = [stage |-> turn[c].target, linked |-> turn[c].linked]]
    /\ turn' = [turn EXCEPT ![c] = Idle]
    /\ UNCHANGED <<conv, services, event, contact, unread, jobs, ghosts, bounds>>

Created(c) == turn[c].card = None /\ ~HasCard(c) /\ (turn[c].linked => contact # None)
Moved(c)   == /\ turn[c].card # None /\ HasCard(c)
              /\ turn[c].card # turn[c].target
              /\ ~WouldRegress(turn[c].card, turn[c].target)

\* The card is created, moved or left.  A card that appeared meanwhile, or a
\* contact that went, makes the insertion fail; a card that went, the update.
SyncWrite(c) ==
    /\ turn[c].pc = "write"
    /\ CASE Created(c) -> Project(c, turn[c].target, turn[c].linked)
         [] Moved(c)   -> Project(c, turn[c].target, card[c].linked)
         [] OTHER      -> UNCHANGED <<conv, card>>
    /\ turn' = [turn EXCEPT ![c] = Idle]
    /\ UNCHANGED <<services, event, contact, unread, jobs, ghosts, bounds>>

Work(c) == \/ Load(c) \/ NothingToDo(c) \/ SaveTurn(c) \/ SaveFullName(c) \/ OnHandoff(c)
           \/ OnCaptured(c) \/ SyncRead(c) \/ SyncWrite(c)
-----------------------------------------------------------------------------
(* People.  Each request is one transaction; a projection may be half done   *)
(* meanwhile only with Overlap.                                              *)

Act(kind) ==
    /\ kind \in Acts
    /\ acts < MaxActs
    /\ acts' = acts + 1
    /\ Overlap \/ \A c \in Conv : turn[c].pc # "write"

\* The switch of the board (set_ai_active); giving the chat back reopens a
\* terminal funnel.
TakeOver(c) ==
    /\ Act("takeover")
    /\ Kept(c) /\ conv[c].ai
    /\ conv' = [conv EXCEPT ![c].ai = FALSE]
    /\ why' = [why EXCEPT ![c] = "takeover"]
    /\ UNCHANGED <<card, services, event, contact, unread, jobs, turn, broken, inbound>>

HandBack(c) ==
    /\ Act("takeover")
    /\ Kept(c) /\ ~conv[c].ai
    /\ conv' = [conv EXCEPT ![c].ai = TRUE, ![c].stage = Reopen(@, FALSE)]
    /\ why' = [why EXCEPT ![c] = None]
    /\ UNCHANGED <<card, services, event, contact, unread, jobs, turn, broken, inbound>>

\* Every card of the phone points to its contact, or to none.
LinkAll(linked) == [d \in Conv |-> IF HasCard(d) THEN [card[d] EXCEPT !.linked = linked]
                                   ELSE card[d]]

\* Mutants of Upsert and Nameable: NULL overwrites a name; nobody asks for one.
UpsertAlways(known, name) == name
NameableAlways(c) == TRUE

\* The contact of a phone takes a name that is not NULL.
Upsert(known, name) == IF known # None /\ name = "null" THEN known ELSE name

\* _ensure_lead_name
Nameable(c) == conv[c].name = "named" \/ contact = "named"

\* Mutant of Win: only the card that is won is linked.
WinAlone(c) ==
    /\ contact' = Upsert(contact, conv[c].name)
    /\ card' = [card EXCEPT ![c] = [stage |-> "Cerrado", linked |-> TRUE]]

\* The hook of a won card, in the transaction of the move.
Win(c) ==
    /\ contact' = Upsert(contact, conv[c].name)
    /\ card' = [LinkAll(TRUE) EXCEPT ![c].stage = "Cerrado"]

\* A card is moved by hand, or by the delivery of what was paid (move_card).
Drag(c, stage) ==
    /\ Act("drag")
    /\ HasCard(c) /\ card[c].stage # stage
    /\ IF stage \in Won THEN Nameable(c) /\ Win(c)
       ELSE card' = [card EXCEPT ![c].stage = stage] /\ UNCHANGED contact
    /\ conv' = [conv EXCEPT ![c].closed = stage \in Closing]
    /\ UNCHANGED <<services, event, unread, jobs, turn, ghosts, inbound>>

\* The name is edited in the detail of the card; it may be emptied.
Edit(c, name) ==
    /\ Act("edit")
    /\ HasCard(c) /\ conv[c].name # name
    /\ conv' = [conv EXCEPT ![c].name = name]
    /\ UNCHANGED <<card, services, event, contact, unread, jobs, turn, ghosts, inbound>>

\* An opportunity is opened by hand: the open conversation of the phone is
\* reused, and named if it has no name, or one is created; the card too.
OpenByHand(c, name) ==
    /\ Act("open")
    /\ Open(c)
    /\ IF HasCard(c) THEN UNCHANGED <<conv, card>>
       ELSE /\ conv' = [conv EXCEPT ![c].kept = TRUE,
                            ![c].name = IF @ # "named" /\ name = "named" THEN name
                                        ELSE IF Kept(c) THEN @ ELSE name]
            /\ card' = [card EXCEPT ![c] = [stage |-> "Nuevo", linked |-> contact # None]]
    /\ UNCHANGED <<services, event, contact, unread, jobs, turn, ghosts, inbound>>

\* The card is deleted with its services, and its conversation is closed.
Drop(c) ==
    /\ Act("drop")
    /\ HasCard(c)
    /\ card' = [card EXCEPT ![c] = NoCard]
    /\ conv' = [conv EXCEPT ![c].closed = TRUE]
    /\ services' = [services EXCEPT ![c] = [s \in Service |-> None]]
    /\ UNCHANGED <<event, contact, unread, jobs, turn, ghosts, inbound>>

\* Mutant of Reconcile: what is not asked for goes, whoever put it there.
ReconcileAll(source, wanted) ==
    IF ~wanted THEN None ELSE IF source = None THEN "assigned" ELSE source

\* set_assigned: only what people assigned is taken away.
Reconcile(source, wanted) ==
    CASE wanted /\ source = None -> "assigned"
      [] ~wanted /\ source = "assigned" -> None
      [] OTHER -> source

SetServices(c, chosen) ==
    /\ Act("services")
    /\ HasCard(c)
    /\ services' = [services EXCEPT ![c] = [s \in Service |-> Reconcile(@[s], s \in chosen)]]
    /\ UNCHANGED <<conv, card, event, contact, unread, jobs, turn, ghosts, inbound>>

\* The contacts page, which asks for a name, and links every card of the phone.
SaveContact ==
    /\ Act("contact")
    /\ contact' = "named"
    /\ card' = LinkAll(TRUE)
    /\ UNCHANGED <<conv, services, event, unread, jobs, turn, ghosts, inbound>>

DeleteContact ==
    /\ Act("contact")
    /\ contact # None
    /\ contact' = None
    /\ card' = LinkAll(FALSE)
    /\ UNCHANGED <<conv, services, event, unread, jobs, turn, ghosts, inbound>>

People(c) == \/ TakeOver(c) \/ HandBack(c) \/ Drop(c)
             \/ \E stage \in Dragged : Drag(c, stage)
             \/ \E name \in Typed : Edit(c, name) \/ OpenByHand(c, name)
             \/ \E chosen \in SUBSET Service : SetServices(c, chosen)

-----------------------------------------------------------------------------
Next == \/ \E c \in Conv : \/ Inbound(c) \/ Sweep(c) \/ Work(c)
                           \/ TurnFails(c) \/ Crash(c) \/ People(c)
        \/ SaveContact \/ DeleteContact

Spec == Init /\ [][Next]_vars

\* A worker that took a job goes on with it; nothing obliges leads or people.
FairSpec == Spec /\ \A c \in Conv : WF_vars(Work(c))

-----------------------------------------------------------------------------
TypeOK ==
    /\ conv \in [Conv -> Conversation]
    /\ card \in [Conv -> Card]
    /\ services \in [Conv -> [Service -> Source]]
    /\ event \in [Conv -> Reason]
    /\ contact \in Names \cup {None}
    /\ unread \in [Conv -> SUBSET Nat]
    /\ jobs \subseteq Conv
    /\ turn \in [Conv -> Turn]
    /\ why \in [Conv -> Reason \cup {"takeover"}]
    /\ broken \in [Conv -> {None, "turn", "crash"}]
    /\ inbound \in Nat /\ acts \in Nat

\* A conversation is closed when its card is at a closing stage and open when it is
\* not: a card at work never stops receiving what its lead writes
\* (apply_closed_state).
ClosedAsItsCard == \A c \in Conv : HasCard(c) => (conv[c].closed <=> card[c].stage \in Closing)

\* The cards of a phone with a contact are linked to it, those that were there
\* and those that come after (link_to_contact_by_phone, CardService.sync).
CardsKnowContact == \A c \in Conv : HasCard(c) => (card[c].linked <=> contact # None)

\* An opportunity is won only with the lead in the contacts, with a name
\* (_ensure_lead_name, the won hook).
WonIsNamed == [][\A c \in Conv : card'[c].stage \in Won /\ card[c].stage \notin Won
                                 => contact' = "named" /\ card'[c].linked]_vars

\* A person's write of a card; anything else that moves it is a projection.
ByPeople == acts' # acts

\* The projection takes no card back inside the board after the sale, nor out of
\* it while the agent is silent (_would_regress).
ForwardOnly ==
    [][\A c \in Conv :
         card[c].stage \in Human /\ ~ByPeople =>
            \/ card'[c].stage \in Human /\ Position(card'[c].stage) >= Position(card[c].stage)
            \/ conv[c].ai]_vars

\* What the lead accepted stays on the card, whatever people assign.
CapturedStays ==
    [][\A c \in Conv, s \in Service :
         services[c][s] = "captured" /\ card'[c].stage # None => services'[c][s] = "captured"]_vars

\* The lead that the agent hands over lands in the tray of its reason, unless a
\* fault cut the turn (on_handoff before sync).
RightTray ==
    [][\A c \in Conv :
         /\ ~ByPeople /\ broken[c] = None /\ why[c] \in HandoffReasons
         /\ card[c].stage \notin Human /\ card'[c].stage \in Human
         => card'[c].stage = HumanStageByReason(why[c])]_vars

\* A lead whose agent fell silent by itself reaches the board of people, whatever
\* fails but the process (the projection has a try of its own).
SilencedReachesPeople ==
    \A c \in Conv :
        turn[c].pc \in {"name", "event"} /\ why[c] \in HandoffReasons /\ ~conv[c].ai
        ~> card[c].stage \in Human \/ conv[c].ai \/ broken[c] = "crash"

\* A dropped opportunity does not come back: the next message opens a new one
\* (OpportunityService.delete).
DroppedStaysDropped ==
    [][\A c \in Conv : conv[c].closed /\ ~HasCard(c) => card'[c].stage = None]_vars

\* What the lead accepts in a turn ends on the card of its conversation
\* (ServiceCaptureService).
AcceptedIsStamped ==
    [][\A c \in Conv :
         turn[c].pc = "capture" /\ turn'[c].pc = "read" /\ broken'[c] = broken[c]
         => \A s \in turn[c].slugs : services'[c][s] # None]_vars

\* The name typed when an opportunity is opened by hand is kept
\* (OpportunityService.create).
NameGivenIsKept ==
    [][\A c \in Conv : OpenByHand(c, "named") => conv'[c].name = "named"]_vars

\* A funnel that was handed over has a silent agent (handoff_service.py:6).
HandedOverIsSilent == \A c \in Conv : conv[c].stage = "handed_off" => ~conv[c].ai
=============================================================================
