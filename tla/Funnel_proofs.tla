---------------------------- MODULE Funnel_proofs ----------------------------
(***************************************************************************)
(* Proofs about Funnel, for any conversations, services and tools, with    *)
(* every fault: about the board and the contact, most of them when no      *)
(* person acts inside a projection; about what a turn decides, for any     *)
(* calls of the model; and the types.                                      *)
(***************************************************************************)
EXTENDS Funnel, FiniteSetTheorems, WellFoundedInduction, TLAPS

\* Which fields the records have is all that the first invariant needs of them.
ConvFields == {"kept", "stage", "ai", "name", "closed"}
TurnFields == {"pc", "stage", "seen", "reason", "slugs", "name", "target", "card",
               "linked", "closed"}

Shaped ==
    /\ DOMAIN conv = Conv /\ \A c \in Conv : DOMAIN conv[c] = ConvFields
    /\ DOMAIN card = Conv /\ \A c \in Conv : DOMAIN card[c] = {"stage", "linked"}
    /\ DOMAIN turn = Conv /\ \A c \in Conv : DOMAIN turn[c] = TurnFields
    /\ DOMAIN event = Conv /\ DOMAIN why = Conv /\ DOMAIN broken = Conv
    /\ acts \in Nat

\* Nothing is done with a conversation before it is kept.
Unborn == \A c \in Conv : ~Kept(c) =>
             ~conv[c].closed /\ ~HasCard(c) /\ c \notin jobs /\ turn[c].pc = "idle"

\* What a projection has read is still so when it writes.
ReadsStand == \A c \in Conv : turn[c].pc = "write" =>
                 /\ turn[c].target = Target(c)
                 /\ turn[c].card = card[c].stage
                 /\ turn[c].closed = conv[c].closed

\* The reason of an agent that fell silent by itself is kept, or about to be.
ReasonKept == \A c \in Conv :
    /\ turn[c].pc = "event" => turn[c].reason # None
    /\ why[c] \in HandoffReasons /\ broken[c] = None =>
         IF turn[c].pc \in {"name", "event"} /\ turn[c].reason # None
         THEN turn[c].reason = why[c] ELSE event[c] = why[c]

IInv == Shaped /\ Unborn /\ ClosedAsItsCard /\ ReadsStand /\ ReasonKept

-----------------------------------------------------------------------------
(* The stages of the board, and where a conversation belongs.               *)


LEMMA HumanIs == Human = {"Por atender", "Por validar pago", "Pago validado", "Entregado",
                          "Cerrado", "Perdido"}
<1>1. DOMAIN HumanStages = 1 .. 6
  BY DEF HumanStages
<1>2. /\ HumanStages[1] = "Por atender"   /\ HumanStages[2] = "Por validar pago"
      /\ HumanStages[3] = "Pago validado" /\ HumanStages[4] = "Entregado"
      /\ HumanStages[5] = "Cerrado"       /\ HumanStages[6] = "Perdido"
  BY DEF HumanStages
<1>3. 1 .. 6 = {1, 2, 3, 4, 5, 6}
  OBVIOUS
<1> HIDE DEF HumanStages
<1> QED
  BY <1>1, <1>2, <1>3 DEF Human

LEMMA IaIs == {IaStages[i] : i \in DOMAIN IaStages} =
                {"Nuevo", "Enganchando", "Calificando", "Calificado", "Descalificado"}
<1>1. DOMAIN IaStages = 1 .. 5
  BY DEF IaStages
<1>2. /\ IaStages[1] = "Nuevo"       /\ IaStages[2] = "Enganchando"
      /\ IaStages[3] = "Calificando" /\ IaStages[4] = "Calificado"
      /\ IaStages[5] = "Descalificado"
  BY DEF IaStages
<1>3. 1 .. 5 = {1, 2, 3, 4, 5}
  OBVIOUS
<1> QED
  BY <1>1, <1>2, <1>3

LEMMA NoneIsNoHuman == None \notin Human
BY NoneIsNothing DEF StageName, Human

LEMMA PositionIsNat == ASSUME NEW s \in Human PROVE Position(s) \in Nat
<1>1. \E i \in DOMAIN HumanStages : HumanStages[i] = s
  BY DEF Human
<1>2. Position(s) \in DOMAIN HumanStages
  BY <1>1 DEF Position
<1>3. DOMAIN HumanStages = 1 .. 6
  BY DEF HumanStages
<1> QED
  BY <1>2, <1>3

\* The agent in its own stages; the tray of the reason where a person attends.
LEMMA TargetIs ==
    ASSUME NEW c \in Conv
    PROVE  /\ HumanStageByReason(event[c]) \in Human
           /\ Target(c) \in Human => Target(c) = HumanStageByReason(event[c])
           /\ ~conv[c].ai => Target(c) = HumanStageByReason(event[c])
<1>1. HumanStageByReason(event[c]) \in Human
  BY HumanIs DEF HumanStageByReason
<1>2. IaStageByFunnel(conv[c].stage) \in
        {"Nuevo", "Enganchando", "Calificando", "Calificado", "Descalificado"}
  BY DEF IaStageByFunnel
<1>3. IaStageByFunnel(conv[c].stage) \notin Human
  BY <1>2, HumanIs
<1> QED
  BY <1>1, <1>3 DEF Target, TargetStage

LEMMA RestIs == ASSUME NEW t PROVE Rest(t) \in {"name", "event", "capture", "read"}
BY DEF Rest

-----------------------------------------------------------------------------
(* The invariant. *)

LEMMA InitInv == Init => IInv
BY NoneIsNone DEF Init, IInv, Shaped, Unborn, ClosedAsItsCard, ReadsStand, ReasonKept,
       NewConv, NoCard,
       Idle, Kept, HasCard, ConvFields, TurnFields

LEMMA InboundInv == ASSUME IInv, NEW c \in Conv, Inbound(c) PROVE IInv'
<1>1. Shaped'
  BY DEF IInv, Shaped, ConvFields, Inbound, ghosts
<1>2. Unborn'
  BY DEF IInv, Shaped, Unborn, Kept, HasCard, ConvFields, Inbound, ghosts
<1>3. ClosedAsItsCard'
  BY DEF IInv, Shaped, ClosedAsItsCard, HasCard, ConvFields, Inbound, ghosts
<1>4. ReadsStand'
  BY DEF IInv, Shaped, ReadsStand, Target, ConvFields, Inbound, ghosts
<1>5. ReasonKept'
  BY NoneIsNone DEF IInv, Shaped, ReasonKept, Inbound, ghosts, HandoffReasons
<1> QED
  BY <1>1, <1>2, <1>3, <1>4, <1>5 DEF IInv

LEMMA SweepInv == ASSUME IInv, NEW c \in Conv, Sweep(c) PROVE IInv'
<1>1. Shaped'
  BY DEF IInv, Shaped, Sweep, tables, bounds, ghosts
<1>2. Unborn'
  BY DEF IInv, Shaped, Unborn, Kept, HasCard, Sweep, tables, bounds, ghosts
<1>3. ClosedAsItsCard'
  BY DEF IInv, Shaped, ClosedAsItsCard, HasCard, Sweep, tables, bounds, ghosts
<1>4. ReadsStand'
  BY DEF IInv, Shaped, ReadsStand, Target, Sweep, tables, bounds, ghosts
<1>5. ReasonKept'
  BY NoneIsNone DEF IInv, Shaped, ReasonKept, Sweep, tables, bounds, ghosts, HandoffReasons
<1> QED
  BY <1>1, <1>2, <1>3, <1>4, <1>5 DEF IInv

LEMMA LoadInv == ASSUME IInv, NEW c \in Conv, Load(c) PROVE IInv'
<1>1. Shaped'
  BY DEF IInv, Shaped, TurnFields, Load, tables, bounds, ghosts
<1>2. Unborn'
  BY DEF IInv, Shaped, Unborn, Kept, HasCard, TurnFields, Load, tables, bounds, ghosts
<1>3. ClosedAsItsCard'
  BY DEF IInv, Shaped, ClosedAsItsCard, HasCard, Load, tables, bounds, ghosts
<1>4. ReadsStand'
  BY DEF IInv, Shaped, ReadsStand, Target, TurnFields, Load, tables, bounds, ghosts
<1>5. ReasonKept'
  BY NoneIsNone DEF IInv, Shaped, ReasonKept, TurnFields, Load, tables, bounds, ghosts,
         HandoffReasons
<1> QED
  BY <1>1, <1>2, <1>3, <1>4, <1>5 DEF IInv

LEMMA NothingToDoInv == ASSUME IInv, NEW c \in Conv, NothingToDo(c) PROVE IInv'
<1>1. Shaped'
  BY DEF IInv, Shaped, TurnFields, NothingToDo, tables, bounds, ghosts
<1>2. Unborn'
  BY DEF IInv, Shaped, Unborn, Kept, HasCard, TurnFields, NothingToDo, tables, bounds,
         ghosts
<1>3. ClosedAsItsCard'
  BY DEF IInv, Shaped, ClosedAsItsCard, HasCard, NothingToDo, tables, bounds, ghosts
<1>4. ReadsStand'
  BY DEF IInv, Shaped, ReadsStand, Target, TurnFields, NothingToDo, tables, bounds, ghosts
<1>5. ReasonKept'
  BY NoneIsNone DEF IInv, Shaped, ReasonKept, TurnFields, NothingToDo, tables, bounds,
         ghosts, HandoffReasons
<1> QED
  BY <1>1, <1>2, <1>3, <1>4, <1>5 DEF IInv

LEMMA SaveTurnInv == ASSUME IInv, NEW c \in Conv, SaveTurn(c) PROVE IInv'
<1>1. Shaped'
  BY RestIs DEF IInv, Shaped, ConvFields, TurnFields, Idle, SaveTurn, bounds
<1>2. Unborn'
  BY RestIs DEF IInv, Shaped, Unborn, Kept, HasCard, ConvFields, TurnFields, Idle,
         SaveTurn, bounds
<1>3. ClosedAsItsCard'
  BY RestIs DEF IInv, Shaped, ClosedAsItsCard, HasCard, ConvFields, SaveTurn, bounds
<1>4. ReadsStand'
  <2> SUFFICES ASSUME NEW d \in Conv, (turn[d].pc = "write")'
               PROVE  /\ (turn[d].target = Target(d))'
                      /\ (turn[d].card = card[d].stage)'
                      /\ (turn[d].closed = conv[d].closed)'
    BY DEF ReadsStand
  <2> PICK o \in Outcomes[turn[c].stage] :
        turn' = [turn EXCEPT ![c] = [Idle EXCEPT !.pc = Rest(o), !.reason = o.reason,
                                     !.slugs = o.slugs, !.name = o.name]]
    BY DEF SaveTurn
  <2>1. Rest(o) # "write"
    BY RestIs
  <2>2. d # c
    BY <2>1 DEF IInv, Shaped, Idle
  <2> QED
    BY <2>2 DEF IInv, Shaped, ReadsStand, SaveTurn, Target
<1>5. ReasonKept'
  BY NoneIsNone DEF IInv, Shaped, ReasonKept, TurnFields, Idle, Rest, SaveTurn, bounds,
         HandoffReasons
<1> QED
  BY <1>1, <1>2, <1>3, <1>4, <1>5 DEF IInv

LEMMA SaveFullNameInv == ASSUME IInv, NEW c \in Conv, SaveFullName(c) PROVE IInv'
<1>1. Shaped'
  BY RestIs DEF IInv, Shaped, ConvFields, TurnFields, SaveFullName, bounds, ghosts
<1>2. Unborn'
  BY RestIs DEF IInv, Shaped, Unborn, Kept, HasCard, ConvFields, TurnFields,
         SaveFullName, bounds, ghosts
<1>3. ClosedAsItsCard'
  BY RestIs DEF IInv, Shaped, ClosedAsItsCard, HasCard, ConvFields, SaveFullName, bounds,
         ghosts
<1>4. ReadsStand'
  BY RestIs DEF IInv, Shaped, ReadsStand, Target, ConvFields, TurnFields, SaveFullName,
         bounds, ghosts
<1>5. ReasonKept'
  BY NoneIsNone DEF IInv, Shaped, ReasonKept, TurnFields, Rest, SaveFullName, bounds,
         ghosts, HandoffReasons
<1> QED
  BY <1>1, <1>2, <1>3, <1>4, <1>5 DEF IInv

LEMMA OnHandoffInv == ASSUME IInv, NEW c \in Conv, OnHandoff(c) PROVE IInv'
<1>1. Shaped'
  BY RestIs DEF IInv, Shaped, TurnFields, OnHandoff, bounds, ghosts
<1>2. Unborn'
  BY RestIs DEF IInv, Shaped, Unborn, Kept, HasCard, TurnFields, OnHandoff, bounds, ghosts
<1>3. ClosedAsItsCard'
  BY RestIs DEF IInv, Shaped, ClosedAsItsCard, HasCard, OnHandoff, bounds, ghosts
<1>4. ReadsStand'
  BY RestIs DEF IInv, Shaped, ReadsStand, Target, TurnFields, OnHandoff, bounds, ghosts
<1>5. ReasonKept'
  BY NoneIsNone DEF IInv, Shaped, ReasonKept, TurnFields, Rest, OnHandoff, bounds,
         ghosts, HandoffReasons
<1> QED
  BY <1>1, <1>2, <1>3, <1>4, <1>5 DEF IInv

LEMMA OnCapturedInv == ASSUME IInv, NEW c \in Conv, OnCaptured(c) PROVE IInv'
<1>1. Shaped'
  BY DEF IInv, Shaped, TurnFields, OnCaptured, bounds, ghosts
<1>2. Unborn'
  BY DEF IInv, Shaped, Unborn, Kept, HasCard, TurnFields, OnCaptured, bounds, ghosts
<1>3. ClosedAsItsCard'
  BY DEF IInv, Shaped, ClosedAsItsCard, HasCard, OnCaptured, bounds, ghosts
<1>4. ReadsStand'
  BY DEF IInv, Shaped, ReadsStand, Target, TurnFields, OnCaptured, bounds, ghosts
<1>5. ReasonKept'
  BY NoneIsNone DEF IInv, Shaped, ReasonKept, TurnFields, OnCaptured, bounds, ghosts,
         HandoffReasons
<1> QED
  BY <1>1, <1>2, <1>3, <1>4, <1>5 DEF IInv

LEMMA SyncReadInv == ASSUME IInv, NEW c \in Conv, SyncRead(c) PROVE IInv'
<1>1. Shaped'
  BY DEF IInv, Shaped, TurnFields, SyncRead, tables, bounds, ghosts
<1>2. Unborn'
  BY DEF IInv, Shaped, Unborn, Kept, HasCard, TurnFields, SyncRead, tables, bounds, ghosts
<1>3. ClosedAsItsCard'
  BY DEF IInv, Shaped, ClosedAsItsCard, HasCard, SyncRead, tables, bounds, ghosts
<1>4. ReadsStand'
  BY DEF IInv, Shaped, ReadsStand, Target, TurnFields, SyncRead, tables, bounds, ghosts
<1>5. ReasonKept'
  BY NoneIsNone DEF IInv, Shaped, ReasonKept, TurnFields, SyncRead, tables, bounds,
         ghosts, HandoffReasons
<1> QED
  BY <1>1, <1>2, <1>3, <1>4, <1>5 DEF IInv

LEMMA SyncWriteInv == ASSUME IInv, NEW c \in Conv, SyncWrite(c) PROVE IInv'
<1>1. Shaped'
  BY DEF IInv, Shaped, ConvFields, TurnFields, Idle, SyncWrite, bounds, ghosts, Project
<1>2. Unborn'
  BY DEF IInv, Shaped, Unborn, Kept, HasCard, ConvFields, TurnFields, Idle, SyncWrite,
         bounds, ghosts, Project, Created, Moved
<1>3. ClosedAsItsCard'
  <2> DEFINE closed == turn[c].target \in Closing \/ (conv[c].closed /\ ~turn[c].closed)
  <2>1. ASSUME NEW linked, Project(c, turn[c].target, linked)
        PROVE  ClosedAsItsCard'
    <3>1. turn[c].closed = conv[c].closed
      BY DEF SyncWrite, IInv, ReadsStand
    <3>2. conv' = [conv EXCEPT ![c] = [conv[c] EXCEPT !.closed = closed]]
      BY <2>1 DEF Project
    <3>3. conv'[c].closed <=> turn[c].target \in Closing
      BY <3>1, <3>2 DEF IInv, Shaped, ConvFields
    <3>4. card'[c].stage = turn[c].target
      BY <2>1 DEF Project, IInv, Shaped
    <3>5. \A d \in Conv \ {c} : conv'[d] = conv[d] /\ card'[d] = card[d]
      BY <2>1 DEF Project, IInv, Shaped
    <3> QED
      BY <3>3, <3>4, <3>5 DEF IInv, ClosedAsItsCard, HasCard
  <2>2. ASSUME UNCHANGED <<conv, card>> PROVE ClosedAsItsCard'
    BY <2>2 DEF IInv, ClosedAsItsCard, HasCard
  <2> QED
    BY <2>1, <2>2 DEF SyncWrite
<1>4. ReadsStand'
  BY DEF IInv, Shaped, ReadsStand, Target, ConvFields, TurnFields, Idle, SyncWrite,
         Project, bounds, ghosts
<1>5. ReasonKept'
  BY NoneIsNone DEF IInv, Shaped, ReasonKept, TurnFields, Idle, SyncWrite, bounds,
         ghosts, HandoffReasons
<1> QED
  BY <1>1, <1>2, <1>3, <1>4, <1>5 DEF IInv

LEMMA TurnFailsInv == ASSUME IInv, NEW c \in Conv, TurnFails(c) PROVE IInv'
<1>1. Shaped'
  BY DEF IInv, Shaped, TurnFields, Idle, TurnFails, tables, bounds, Fault
<1>2. Unborn'
  BY DEF IInv, Shaped, Unborn, Kept, HasCard, TurnFields, Idle, TurnFails, tables,
         bounds, Fault
<1>3. ClosedAsItsCard'
  BY DEF IInv, Shaped, ClosedAsItsCard, HasCard, TurnFails, tables, bounds, Fault
<1>4. ReadsStand'
  BY DEF IInv, Shaped, ReadsStand, Target, TurnFields, Idle, TurnFails, tables, bounds,
         Fault
<1>5. ReasonKept'
  BY NoneIsNothing DEF IInv, Shaped, ReasonKept, TurnFields, Idle, TurnFails, tables,
         bounds, Fault, HandoffReasons
<1> QED
  BY <1>1, <1>2, <1>3, <1>4, <1>5 DEF IInv

LEMMA CrashInv == ASSUME IInv, NEW c \in Conv, Crash(c) PROVE IInv'
<1>1. Shaped'
  BY DEF IInv, Shaped, TurnFields, Idle, Crash, tables, bounds, Fault
<1>2. Unborn'
  BY DEF IInv, Shaped, Unborn, Kept, HasCard, TurnFields, Idle, Crash, tables, bounds, Fault
<1>3. ClosedAsItsCard'
  BY DEF IInv, Shaped, ClosedAsItsCard, HasCard, Crash, tables, bounds, Fault
<1>4. ReadsStand'
  BY DEF IInv, Shaped, ReadsStand, Target, TurnFields, Idle, Crash, tables, bounds, Fault
<1>5. ReasonKept'
  BY NoneIsNothing DEF IInv, Shaped, ReasonKept, TurnFields, Idle, Crash, tables, bounds,
         Fault, HandoffReasons
<1> QED
  BY <1>1, <1>2, <1>3, <1>4, <1>5 DEF IInv

LEMMA TakeOverInv == ASSUME IInv, ~Overlap, NEW c \in Conv, TakeOver(c) PROVE IInv'
<1>1. Shaped'
  BY DEF IInv, Shaped, ConvFields, TakeOver, Act
<1>2. Unborn'
  BY DEF IInv, Shaped, Unborn, Kept, HasCard, ConvFields, TakeOver, Act
<1>3. ClosedAsItsCard'
  BY DEF IInv, Shaped, ClosedAsItsCard, HasCard, ConvFields, TakeOver, Act
<1>4. ReadsStand'
  BY DEF IInv, Shaped, ReadsStand, Target, ConvFields, TakeOver, Act
<1>5. ReasonKept'
  BY NoneIsNone DEF IInv, Shaped, ReasonKept, TakeOver, Act, HandoffReasons
<1> QED
  BY <1>1, <1>2, <1>3, <1>4, <1>5 DEF IInv

LEMMA HandBackInv == ASSUME IInv, ~Overlap, NEW c \in Conv, HandBack(c) PROVE IInv'
<1>1. Shaped'
  BY DEF IInv, Shaped, ConvFields, HandBack, Act
<1>2. Unborn'
  BY DEF IInv, Shaped, Unborn, Kept, HasCard, ConvFields, HandBack, Act
<1>3. ClosedAsItsCard'
  BY DEF IInv, Shaped, ClosedAsItsCard, HasCard, ConvFields, HandBack, Act
<1>4. ReadsStand'
  BY DEF IInv, Shaped, ReadsStand, Target, ConvFields, HandBack, Act
<1>5. ReasonKept'
  BY NoneIsNone DEF IInv, Shaped, ReasonKept, HandBack, Act, HandoffReasons
<1> QED
  BY <1>1, <1>2, <1>3, <1>4, <1>5 DEF IInv

LEMMA DropInv == ASSUME IInv, ~Overlap, NEW c \in Conv, Drop(c) PROVE IInv'
<1>1. Shaped'
  BY DEF IInv, Shaped, ConvFields, Drop, ghosts, Act, NoCard
<1>2. Unborn'
  BY DEF IInv, Shaped, Unborn, Kept, HasCard, ConvFields, Drop, ghosts, Act, NoCard
<1>3. ClosedAsItsCard'
  BY DEF IInv, Shaped, ClosedAsItsCard, HasCard, ConvFields, Drop, ghosts, Act, NoCard
<1>4. ReadsStand'
  BY DEF IInv, Shaped, ReadsStand, Target, ConvFields, Drop, ghosts, Act, NoCard
<1>5. ReasonKept'
  BY NoneIsNone DEF IInv, Shaped, ReasonKept, Drop, ghosts, Act, NoCard, HandoffReasons
<1> QED
  BY <1>1, <1>2, <1>3, <1>4, <1>5 DEF IInv

LEMMA DragInv == ASSUME IInv, ~Overlap, NEW c \in Conv, NEW s, Drag(c, s) PROVE IInv'
<1>0. /\ DOMAIN card' = Conv /\ \A d \in Conv : DOMAIN card'[d] = {"stage", "linked"}
      /\ card'[c].stage = s /\ \A d \in Conv \ {c} : card'[d].stage = card[d].stage
  <2>1. CASE s \in Won
    <3> DEFINE all == LinkAll(TRUE)
    <3>1. DOMAIN all = Conv /\ \A d \in Conv : DOMAIN all[d] = {"stage", "linked"}
      BY DEF LinkAll, IInv, Shaped
    <3>2. \A d \in Conv : all[d].stage = card[d].stage
      BY DEF LinkAll, IInv, Shaped
    <3>3. s = "Cerrado" /\ card' = [all EXCEPT ![c] = [all[c] EXCEPT !.stage = "Cerrado"]]
      BY <2>1 DEF Drag, Win, Won
    <3> QED
      BY <3>1, <3>2, <3>3
  <2>2. CASE s \notin Won
    BY <2>2 DEF IInv, Shaped, Drag
  <2> QED
    BY <2>1, <2>2
<1>1. Shaped'
  BY <1>0 DEF IInv, Shaped, ConvFields, Drag, ghosts, Act
<1>2. Unborn'
  BY DEF IInv, Shaped, Unborn, Kept, HasCard, ConvFields, Drag, ghosts, Act, Win, LinkAll
<1>3. ClosedAsItsCard'
  <2>1. conv'[c].closed <=> s \in Closing
    BY DEF IInv, Shaped, ConvFields, Drag
  <2>2. \A d \in Conv \ {c} : conv'[d] = conv[d]
    BY DEF IInv, Shaped, Drag
  <2> QED
    BY <1>0, <2>1, <2>2 DEF IInv, ClosedAsItsCard, HasCard
<1>4. ReadsStand'
  BY DEF IInv, Shaped, ReadsStand, Target, ConvFields, Drag, ghosts, Act, Win, LinkAll
<1>5. ReasonKept'
  BY NoneIsNone DEF IInv, Shaped, ReasonKept, Drag, ghosts, Act, Win, LinkAll,
         HandoffReasons
<1> QED
  BY <1>1, <1>2, <1>3, <1>4, <1>5 DEF IInv

LEMMA EditInv == ASSUME IInv, ~Overlap, NEW c \in Conv, NEW n, Edit(c, n) PROVE IInv'
<1>1. Shaped'
  BY DEF IInv, Shaped, ConvFields, Edit, ghosts, Act
<1>2. Unborn'
  BY DEF IInv, Shaped, Unborn, Kept, HasCard, ConvFields, Edit, ghosts, Act
<1>3. ClosedAsItsCard'
  BY DEF IInv, Shaped, ClosedAsItsCard, HasCard, ConvFields, Edit, ghosts, Act
<1>4. ReadsStand'
  BY DEF IInv, Shaped, ReadsStand, Target, ConvFields, Edit, ghosts, Act
<1>5. ReasonKept'
  BY NoneIsNone DEF IInv, Shaped, ReasonKept, Edit, ghosts, Act, HandoffReasons
<1> QED
  BY <1>1, <1>2, <1>3, <1>4, <1>5 DEF IInv

LEMMA OpenByHandInv ==
    ASSUME IInv, ~Overlap, NEW c \in Conv, NEW n, OpenByHand(c, n)
    PROVE  IInv'
<1>1. Shaped'
  BY DEF IInv, Shaped, ConvFields, OpenByHand, ghosts, Act
<1>2. Unborn'
  BY DEF IInv, Shaped, Unborn, Kept, HasCard, ConvFields, OpenByHand, ghosts, Act, Open,
         Next1, Latest
<1>3. ClosedAsItsCard'
  BY DEF IInv, Shaped, Unborn, ClosedAsItsCard, Kept, HasCard, ConvFields, OpenByHand,
         Open, Next1, Latest, Closing, Won, Lost
<1>4. ReadsStand'
  BY DEF IInv, Shaped, ReadsStand, Target, ConvFields, OpenByHand, ghosts, Act
<1>5. ReasonKept'
  BY NoneIsNone DEF IInv, Shaped, ReasonKept, OpenByHand, ghosts, Act, HandoffReasons
<1> QED
  BY <1>1, <1>2, <1>3, <1>4, <1>5 DEF IInv

LEMMA SetServicesInv ==
    ASSUME IInv, ~Overlap, NEW c \in Conv, NEW w, SetServices(c, w)
    PROVE  IInv'
<1>1. Shaped'
  BY DEF IInv, Shaped, SetServices, ghosts, Act
<1>2. Unborn'
  BY DEF IInv, Shaped, Unborn, Kept, HasCard, SetServices, ghosts, Act
<1>3. ClosedAsItsCard'
  BY DEF IInv, Shaped, ClosedAsItsCard, HasCard, SetServices, ghosts, Act
<1>4. ReadsStand'
  BY DEF IInv, Shaped, ReadsStand, Target, SetServices, ghosts, Act
<1>5. ReasonKept'
  BY NoneIsNone DEF IInv, Shaped, ReasonKept, SetServices, ghosts, Act, HandoffReasons
<1> QED
  BY <1>1, <1>2, <1>3, <1>4, <1>5 DEF IInv

LEMMA SaveContactInv == ASSUME IInv, ~Overlap, SaveContact PROVE IInv'
<1>1. Shaped'
  BY DEF IInv, Shaped, SaveContact, ghosts, Act, LinkAll
<1>2. Unborn'
  BY DEF IInv, Shaped, Unborn, Kept, HasCard, SaveContact, ghosts, Act, LinkAll
<1>3. ClosedAsItsCard'
  BY DEF IInv, Shaped, ClosedAsItsCard, HasCard, SaveContact, ghosts, Act, LinkAll
<1>4. ReadsStand'
  BY DEF IInv, Shaped, ReadsStand, Target, SaveContact, ghosts, Act, LinkAll
<1>5. ReasonKept'
  BY NoneIsNone DEF IInv, Shaped, ReasonKept, SaveContact, ghosts, Act, LinkAll,
         HandoffReasons
<1> QED
  BY <1>1, <1>2, <1>3, <1>4, <1>5 DEF IInv

LEMMA DeleteContactInv == ASSUME IInv, ~Overlap, DeleteContact PROVE IInv'
<1>1. Shaped'
  BY DEF IInv, Shaped, DeleteContact, ghosts, Act, LinkAll
<1>2. Unborn'
  BY DEF IInv, Shaped, Unborn, Kept, HasCard, DeleteContact, ghosts, Act, LinkAll
<1>3. ClosedAsItsCard'
  BY DEF IInv, Shaped, ClosedAsItsCard, HasCard, DeleteContact, ghosts, Act, LinkAll
<1>4. ReadsStand'
  BY DEF IInv, Shaped, ReadsStand, Target, DeleteContact, ghosts, Act, LinkAll
<1>5. ReasonKept'
  BY NoneIsNone DEF IInv, Shaped, ReasonKept, DeleteContact, ghosts, Act, LinkAll,
         HandoffReasons
<1> QED
  BY <1>1, <1>2, <1>3, <1>4, <1>5 DEF IInv

LEMMA NextInv == ASSUME IInv, ~Overlap, Next PROVE IInv'
<1>1. ASSUME NEW c \in Conv, Inbound(c) \/ Sweep(c) PROVE IInv'
  BY <1>1, InboundInv, SweepInv
<1>2. ASSUME NEW c \in Conv, Work(c) PROVE IInv'
  BY <1>2, LoadInv, NothingToDoInv, SaveTurnInv, SaveFullNameInv, OnHandoffInv,
         OnCapturedInv,
     SyncReadInv, SyncWriteInv DEF Work
<1>3. ASSUME NEW c \in Conv, TurnFails(c) \/ Crash(c) PROVE IInv'
  BY <1>3, TurnFailsInv, CrashInv
<1>4. ASSUME NEW c \in Conv, People(c) PROVE IInv'
  BY <1>4, TakeOverInv, HandBackInv, DropInv, DragInv, EditInv, OpenByHandInv,
         SetServicesInv
     DEF People
<1>5. ASSUME SaveContact \/ DeleteContact PROVE IInv'
  BY <1>5, SaveContactInv, DeleteContactInv
<1> QED
  BY <1>1, <1>2, <1>3, <1>4, <1>5 DEF Next

LEMMA StutterInv == ASSUME IInv, UNCHANGED vars PROVE IInv'
BY DEF IInv, Shaped, Unborn, ClosedAsItsCard, ReadsStand, ReasonKept, vars, tables,
       ghosts, bounds,
       Kept, HasCard, Target

LEMMA Invariant == ASSUME ~Overlap PROVE Spec => []IInv
<1>1. IInv /\ [Next]_vars => IInv'
  BY NextInv, StutterInv
<1> QED
  BY <1>1, InitInv, PTL DEF Spec

\* If no person acts between the read and the write of a projection, a conversation is
\* closed exactly while its card is at a closing stage, whatever turns fail or die and
\* whatever people do (apply_closed_state, card_service.py).
THEOREM ClosedWithItsCard == ASSUME ~Overlap PROVE Spec => []ClosedAsItsCard
<1>1. IInv => ClosedAsItsCard
  BY DEF IInv
<1> QED
  BY <1>1, Invariant, PTL

-----------------------------------------------------------------------------
(* What a step that no person takes does to a card. *)

LEMMA OnlyTheProjection ==
    ASSUME IInv, [Next]_vars, ~ByPeople, NEW c \in Conv, card'[c] # card[c]
    PROVE  /\ SyncWrite(c)
           /\ Created(c) \/ Moved(c)
           /\ card'[c].stage = Target(c)
           /\ turn[c].card = card[c].stage
<1>1. acts \in Nat
  BY DEF IInv, Shaped
<1>2. ASSUME NEW k, Act(k) PROVE FALSE
  BY <1>1, <1>2 DEF Act, ByPeople
<1>3. ~SaveContact /\ ~DeleteContact /\ \A d \in Conv : ~People(d)
  BY <1>2 DEF People, SaveContact, DeleteContact, TakeOver, HandBack, Drop, Drag, Edit,
              OpenByHand, SetServices
<1>4. ASSUME NEW d \in Conv,
             \/ Inbound(d) \/ Sweep(d) \/ Load(d) \/ NothingToDo(d) \/ SaveTurn(d) \/ SaveFullName(d)
             \/ OnHandoff(d) \/ OnCaptured(d) \/ SyncRead(d) \/ TurnFails(d) \/ Crash(d)
      PROVE  UNCHANGED card
  BY <1>4 DEF Inbound, Sweep, Load, NothingToDo, SaveTurn, SaveFullName, OnHandoff,
         OnCaptured,
              SyncRead, TurnFails, Crash, tables
<1>5. PICK d \in Conv : SyncWrite(d)
  BY <1>3, <1>4 DEF Next, Work, vars, tables
<1>6. Created(d) \/ Moved(d)
  BY <1>5 DEF SyncWrite
<1>7. PICK linked : Project(d, turn[d].target, linked)
  BY <1>5, <1>6 DEF SyncWrite
<1>8. d = c /\ card'[c].stage = turn[c].target
  BY <1>7 DEF Project, IInv, Shaped
<1> QED
  BY <1>5, <1>6, <1>8 DEF SyncWrite, IInv, ReadsStand

\* The projection takes no card back inside the board after the sale, nor out of it while
\* the agent is silent (_would_regress, card_service.py).
THEOREM NeverPulledBack == ASSUME ~Overlap PROVE Spec => ForwardOnly
<1> DEFINE Forward(c) ==
      card[c].stage \in Human /\ ~ByPeople =>
        \/ card'[c].stage \in Human /\ Position(card'[c].stage) >= Position(card[c].stage)
        \/ conv[c].ai
<1>1. ASSUME IInv, [Next]_vars, NEW c \in Conv PROVE Forward(c)
  <2> SUFFICES ASSUME card[c].stage \in Human, ~ByPeople, ~conv[c].ai
               PROVE  card'[c].stage \in Human /\ Position(card'[c].stage) >= Position(card[c].stage)
    OBVIOUS
  <2>1. CASE card'[c] = card[c]
    BY <2>1, PositionIsNat
  <2>2. CASE card'[c] # card[c]
    <3>1. /\ Created(c) \/ Moved(c)
          /\ card'[c].stage = Target(c) /\ turn[c].card = card[c].stage
          /\ turn[c].target = Target(c)
      BY <1>1, <2>2, OnlyTheProjection DEF SyncWrite, IInv, ReadsStand
    <3>2. Target(c) \in Human
      BY TargetIs
    <3>3. ~Created(c)
      BY NoneIsNoHuman DEF Created, HasCard
    <3>4. ~(Position(Target(c)) <= Position(card[c].stage))
      BY <3>1, <3>2, <3>3 DEF Moved, WouldRegress
    <3> QED
      BY <3>1, <3>2, <3>4, PositionIsNat
  <2> QED
    BY <2>1, <2>2
<1>2. IInv /\ [Next]_vars => [\A c \in Conv : Forward(c)]_vars
  BY <1>1
<1> QED
  BY <1>2, Invariant, PTL DEF Spec, ForwardOnly

\* The lead that the agent hands over lands in the tray of its reason, unless a fault cut a
\* turn of its conversation (on_handoff is committed before the projection).
THEOREM LandsInItsTray == ASSUME ~Overlap PROVE Spec => RightTray
<1> DEFINE Lands(c) ==
      /\ ~ByPeople /\ broken[c] = None /\ why[c] \in HandoffReasons
      /\ card[c].stage \notin Human /\ card'[c].stage \in Human
      => card'[c].stage = HumanStageByReason(why[c])
<1>1. ASSUME IInv, [Next]_vars, NEW c \in Conv PROVE Lands(c)
  <2> SUFFICES ASSUME ~ByPeople, broken[c] = None, why[c] \in HandoffReasons,
                      card[c].stage \notin Human, card'[c].stage \in Human
               PROVE  card'[c].stage = HumanStageByReason(why[c])
    OBVIOUS
  <2>1. SyncWrite(c) /\ card'[c].stage = Target(c)
    BY <1>1, OnlyTheProjection
  <2>2. event[c] = why[c]
    BY <1>1, <2>1 DEF SyncWrite, IInv, ReasonKept
  <2> QED
    BY <2>1, <2>2, TargetIs
<1>2. IInv /\ [Next]_vars => [\A c \in Conv : Lands(c)]_vars
  BY <1>1
<1> QED
  BY <1>2, Invariant, PTL DEF Spec, RightTray

-----------------------------------------------------------------------------
(* Folds.  The calls of the model are folded into what a turn has gathered  *)
(* by FoldLeft, which chooses a function that satisfies an equation: that   *)
(* one exists is proved by induction over the length, and the induction by  *)
(* the least counterexample, for no step of it has an operator to take.     *)

LEMMA Least ==
    ASSUME NEW T, T \subseteq Nat, T # {} PROVE \E x \in T : \A y \in T : x <= y
<1> DEFINE R == StrictSubsetOrdering(Nat)
           F == {0 .. x : x \in T}
<1>1. IsWellFoundedOn(R, FiniteSubsetsOf(Nat))
  BY FS_StrictSubsetOrderingWellFounded
<1>2. F \subseteq FiniteSubsetsOf(Nat) /\ F # {}
  <2>1. ASSUME NEW x \in T PROVE 0 .. x \in FiniteSubsetsOf(Nat)
    <3>1. IsFiniteSet(0 .. x)
      BY FS_Interval
    <3> QED
      BY <3>1 DEF FiniteSubsetsOf
  <2> QED
    BY <2>1
<1>3. PICK d \in F : \A e \in F : ~(<<e, d>> \in R)
  <2> HIDE DEF R, F
  <2> QED
    BY <1>1, <1>2, WFMin
<1>4. PICK x \in T : d = 0 .. x
  OBVIOUS
<1>5. ASSUME NEW y \in T, y < x PROVE FALSE
  <2>1. 0 .. y \subseteq 0 .. x /\ 0 .. y # 0 .. x /\ 0 .. x \subseteq Nat
    BY <1>5
  <2>2. 0 .. y \in F
    OBVIOUS
  <2>3. <<0 .. y, d>> \in R
    BY <1>4, <2>1 DEF StrictSubsetOrdering
  <2> QED
    BY <1>3, <2>2, <2>3
<1> QED
  BY <1>5

LEMMA Inductive ==
    ASSUME NEW n \in Nat, NEW P, 0 \in P, \A k \in 0 .. n : k < n /\ k \in P => k + 1 \in P
    PROVE  n \in P
<1> SUFFICES ASSUME n \notin P PROVE FALSE
  OBVIOUS
<1> DEFINE T == {k \in 0 .. n : k \notin P}
<1>1. PICK x \in T : \A y \in T : x <= y
  <2>1. T \subseteq Nat /\ T # {}
    OBVIOUS
  <2> HIDE DEF T
  <2> QED
    BY <2>1, Least
<1>2. x # 0 /\ x - 1 \in 0 .. n /\ x - 1 < n /\ x - 1 \in P
  BY <1>1
<1> QED
  BY <1>2

LEMMA GreatestIs ==
    ASSUME NEW n \in Nat, NEW T, T \subseteq 0 .. n, T # {}
    PROVE  Max(T) \in T /\ \A y \in T : Max(T) >= y
<1> DEFINE U == {n - x : x \in T}
<1>1. PICK u \in U : \A y \in U : u <= y
  <2>1. ASSUME NEW x \in T PROVE n - x \in Nat
    <3>1. x \in 0 .. n
      OBVIOUS
    <3> QED
      BY <3>1
  <2>2. U \subseteq Nat /\ U # {}
    BY <2>1
  <2> HIDE DEF U
  <2> QED
    BY <2>2, Least
<1>2. PICK x \in T : u = n - x
  OBVIOUS
<1>3. \A y \in T : x >= y
  <2>1. \A y \in T : n - y \in U
    OBVIOUS
  <2> QED
    BY <1>1, <1>2, <2>1
<1> QED
  BY <1>3 DEF Max

\* The equation of a fold over the places of a sequence (MapThenFoldSet takes the
\* greatest place first): g is what a place makes of what the places before it made.
Folds(f, n, base, g) ==
    /\ f[{}] = base
    /\ \A s \in SUBSET (1 .. n) : s # {} => f[s] = g[<<Max(s), f[s \ {Max(s)}]>>]

LEMMA GreatestPlace ==
    ASSUME NEW n \in Nat, NEW s \in SUBSET (1 .. n), s # {}
    PROVE  /\ Max(s) \in 1 .. n /\ Max(s) \in s /\ s \ {Max(s)} \in SUBSET (1 .. n)
           /\ \A y \in s : Max(s) >= y
<1>1. s \subseteq 0 .. n
  OBVIOUS
<1>2. Max(s) \in s /\ \A y \in s : Max(s) >= y
  BY <1>1, GreatestIs
<1> QED
  BY <1>2

\* It has a solution, whatever the step.
LEMMA FoldExists ==
    ASSUME NEW V, NEW base \in V, NEW n \in Nat, NEW g \in [(1 .. n) \X V -> V]
    PROVE  \E f \in [SUBSET (1 .. n) -> V] : Folds(f, n, base, g)
<1> DEFINE P == {k \in 0 .. n : \E f \in [SUBSET (1 .. k) -> V] : Folds(f, k, base, g)}
<1>1. 0 \in P
  <2> DEFINE f == [s \in SUBSET (1 .. 0) |-> base]
  <2>1. SUBSET (1 .. 0) = {{}}
    OBVIOUS
  <2>2. f \in [SUBSET (1 .. 0) -> V] /\ Folds(f, 0, base, g)
    BY <2>1 DEF Folds
  <2>3. 0 \in 0 .. n
    OBVIOUS
  <2> HIDE DEF f
  <2> QED
    BY <2>2, <2>3
<1>2. ASSUME NEW k \in 0 .. n, k < n, k \in P PROVE k + 1 \in P
  <2>1. PICK f \in [SUBSET (1 .. k) -> V] : Folds(f, k, base, g)
    BY <1>2
  <2> DEFINE h == [s \in SUBSET (1 .. k + 1) |->
                     IF k + 1 \in s THEN g[<<k + 1, f[s \ {k + 1}]>>] ELSE f[s]]
  <2>2. ASSUME NEW s \in SUBSET (1 .. k + 1), k + 1 \notin s
        PROVE  s \in SUBSET (1 .. k) /\ h[s] = f[s]
    <3>1. \A i \in s : i \in 1 .. k
      BY <2>2
    <3> QED
      BY <2>2, <3>1
  <2>3. ASSUME NEW s \in SUBSET (1 .. k + 1), k + 1 \in s
        PROVE  /\ Max(s) = k + 1 /\ s \ {k + 1} \in SUBSET (1 .. k)
               /\ h[s] = g[<<k + 1, f[s \ {k + 1}]>>] /\ h[s \ {k + 1}] = f[s \ {k + 1}]
    <3>1. Max(s) \in s /\ Max(s) \in 1 .. k + 1 /\ \A y \in s : Max(s) >= y
      BY <2>3, GreatestPlace, k + 1 \in Nat
    <3>2. Max(s) = k + 1
      BY <2>3, <3>1
    <3>3. s \ {k + 1} \in SUBSET (1 .. k + 1) /\ k + 1 \notin s \ {k + 1}
      OBVIOUS
    <3>4. s \ {k + 1} \in SUBSET (1 .. k) /\ h[s \ {k + 1}] = f[s \ {k + 1}]
      <4> HIDE DEF h
      <4> QED
        BY <2>2, <3>3
    <3>5. h[s] = g[<<k + 1, f[s \ {k + 1}]>>]
      BY <2>3
    <3> QED
      BY <3>2, <3>4, <3>5
  <2> HIDE DEF h
  <2>4. ASSUME NEW s \in SUBSET (1 .. k + 1) PROVE h[s] \in V
    <3>1. CASE k + 1 \in s
      <4>1. f[s \ {k + 1}] \in V /\ k + 1 \in 1 .. n
        BY <1>2, <2>3, <3>1
      <4> QED
        BY <2>3, <3>1, <4>1
    <3>2. CASE k + 1 \notin s
      BY <2>2, <3>2
    <3> QED
      BY <3>1, <3>2
  <2>5. h \in [SUBSET (1 .. k + 1) -> V]
    <3>1. h = [s \in SUBSET (1 .. k + 1) |-> h[s]]
      BY DEF h
    <3> QED
      BY <2>4, <3>1
  <2>6. ASSUME NEW s \in SUBSET (1 .. k + 1), s # {}
        PROVE  h[s] = g[<<Max(s), h[s \ {Max(s)}]>>]
    <3>1. CASE k + 1 \in s
      BY <3>1, <2>3
    <3>2. CASE k + 1 \notin s
      <4>1. s \in SUBSET (1 .. k) /\ h[s] = f[s]
        BY <3>2, <2>2
      <4>2. s \ {Max(s)} \in SUBSET (1 .. k + 1) /\ k + 1 \notin s \ {Max(s)}
        BY <3>2
      <4>3. h[s \ {Max(s)}] = f[s \ {Max(s)}]
        BY <4>2, <2>2
      <4> QED
        BY <4>1, <4>3, <2>6, <2>1 DEF Folds
    <3> QED
      BY <3>1, <3>2
  <2>7. h[{}] = base
    BY <2>1, <2>2 DEF Folds
  <2>8. Folds(h, k + 1, base, g)
    BY <2>6, <2>7 DEF Folds
  <2>9. k + 1 \in 0 .. n
    BY <1>2
  <2> QED
    BY <2>5, <2>8, <2>9
<1>3. n \in P
  <2> HIDE DEF P
  <2> QED
    BY <1>1, <1>2, Inductive
<1> QED
  BY <1>3

\* What holds of the base and is kept by every step holds of a fold.
LEMMA FoldStays ==
    ASSUME NEW n \in Nat, NEW V, NEW f, f[{}] \in V,
           \A s \in SUBSET (1 .. n) : s # {} /\ f[s \ {Max(s)}] \in V => f[s] \in V
    PROVE  f[1 .. n] \in V
<1> DEFINE P == {k \in 0 .. n : f[1 .. k] \in V}
<1>1. 0 \in P
  BY 1 .. 0 = {}
<1>2. ASSUME NEW k \in 0 .. n, k < n, k \in P PROVE k + 1 \in P
  <2>1. 1 .. k + 1 \in SUBSET (1 .. n) /\ 1 .. k + 1 # {} /\ 1 .. k + 1 \subseteq 0 .. k + 1
    <3>1. \A i \in 1 .. k + 1 : i \in 1 .. n /\ i \in 0 .. k + 1
      BY <1>2
    <3>2. 1 \in 1 .. k + 1
      OBVIOUS
    <3> QED
      BY <3>1, <3>2
  <2>2. Max(1 .. k + 1) \in 1 .. k + 1 /\ \A y \in 1 .. k + 1 : Max(1 .. k + 1) >= y
    BY <2>1, GreatestIs, k + 1 \in Nat
  <2>3. Max(1 .. k + 1) = k + 1
    BY <2>2
  <2>4. (1 .. k + 1) \ {k + 1} = 1 .. k
    OBVIOUS
  <2>5. f[1 .. k] \in V
    BY <1>2
  <2>6. f[1 .. k + 1] \in V
    BY <2>1, <2>3, <2>4, <2>5
  <2> QED
    BY <1>2, <2>6
<1>3. n \in P
  <2> HIDE DEF P
  <2> QED
    BY <1>1, <1>2, Inductive
<1> QED
  BY <1>3

LEMMA RunToolsStays ==
    ASSUME NEW V, NEW got \in V, NEW uses, NEW n \in Nat, DOMAIN uses = 1 .. n,
           \A v \in V, i \in 1 .. n : RunTool(v, uses[i]) \in V
    PROVE  RunTools(got, uses) \in V
<1> DEFINE g == [x \in (1 .. n) \X V |-> RunTool(x[2], uses[x[1]])]
           It(f) == f = [s \in SUBSET (1 .. n) |->
                           IF s = {} THEN got ELSE RunTool(f[s \ {Max(s)}], uses[Max(s)])]
<1>1. g \in [(1 .. n) \X V -> V]
  OBVIOUS
<1>2. PICK h \in [SUBSET (1 .. n) -> V] : Folds(h, n, got, g)
  <2> HIDE DEF g
  <2> QED
    BY <1>1, FoldExists
<1>3. ASSUME NEW s \in SUBSET (1 .. n), s # {}
      PROVE  h[s] = RunTool(h[s \ {Max(s)}], uses[Max(s)])
  <2>1. Max(s) \in 1 .. n /\ h[s \ {Max(s)}] \in V
    BY <1>3, GreatestPlace
  <2>2. h[s] = g[<<Max(s), h[s \ {Max(s)}]>>]
    BY <1>2, <1>3 DEF Folds
  <2> QED
    BY <2>1, <2>2
<1>5. It(h)
  <2>1. h[{}] = got
    BY <1>2 DEF Folds
  <2>2. h = [s \in SUBSET (1 .. n) |-> h[s]]
    OBVIOUS
  <2> QED
    BY <1>3, <2>1, <2>2
<1> DEFINE iter == CHOOSE f : It(f)
<1>6. It(iter)
  <2> HIDE DEF It
  <2> QED
    BY <1>5
<1>7. RunTools(got, uses) = iter[1 .. n]
  BY DEF RunTools, FoldLeft, MapThenFoldSet
<1>8. iter[{}] = got /\ \A s \in SUBSET (1 .. n) : s # {} =>
         iter[s] = RunTool(iter[s \ {Max(s)}], uses[Max(s)])
  <2> HIDE DEF iter
  <2> QED
    BY <1>6
<1>9. iter[1 .. n] \in V
  <2> HIDE DEF iter
  <2>1. ASSUME NEW s \in SUBSET (1 .. n), s # {}, iter[s \ {Max(s)}] \in V
        PROVE  iter[s] \in V
    <3>1. Max(s) \in 1 .. n
      BY <2>1, GreatestPlace
    <3>2. iter[s] = RunTool(iter[s \ {Max(s)}], uses[Max(s)])
      BY <1>8, <2>1
    <3>3. RunTool(iter[s \ {Max(s)}], uses[Max(s)]) \in V
      BY <2>1, <3>1
    <3> QED
      BY <3>2, <3>3
  <2> QED
    BY <1>8, <2>1, FoldStays
<1> QED
  BY <1>7, <1>9

LEMMA RunBatchesStays ==
    ASSUME NEW V, NEW got \in V, NEW batches, NEW n \in Nat, DOMAIN batches = 1 .. n,
           \A v \in V, i \in 1 .. n : RunTools(v, batches[i]) \in V
    PROVE  RunBatches(got, batches) \in V
<1> DEFINE Step(v, i) == IF v.reason = None THEN RunTools(v, batches[i]) ELSE v
           g == [x \in (1 .. n) \X V |-> Step(x[2], x[1])]
           It(f) == f = [s \in SUBSET (1 .. n) |->
                           IF s = {} THEN got ELSE Step(f[s \ {Max(s)}], Max(s))]
<1>0. \A v \in V, i \in 1 .. n : Step(v, i) \in V
  OBVIOUS
<1>1. g \in [(1 .. n) \X V -> V]
  BY <1>0
<1>2. PICK h \in [SUBSET (1 .. n) -> V] : Folds(h, n, got, g)
  <2> HIDE DEF g
  <2> QED
    BY <1>1, FoldExists
<1>3. ASSUME NEW s \in SUBSET (1 .. n), s # {}
      PROVE  h[s] = Step(h[s \ {Max(s)}], Max(s))
  <2>1. Max(s) \in 1 .. n /\ h[s \ {Max(s)}] \in V
    BY <1>3, GreatestPlace
  <2>2. h[s] = g[<<Max(s), h[s \ {Max(s)}]>>]
    BY <1>2, <1>3 DEF Folds
  <2> HIDE DEF Step
  <2> QED
    BY <2>1, <2>2
<1>5. It(h)
  <2>1. h[{}] = got
    BY <1>2 DEF Folds
  <2>2. h = [s \in SUBSET (1 .. n) |-> h[s]]
    OBVIOUS
  <2> HIDE DEF Step
  <2> QED
    BY <1>3, <2>1, <2>2
<1> DEFINE iter == CHOOSE f : It(f)
<1>6. It(iter)
  <2> HIDE DEF It
  <2> QED
    BY <1>5
<1>7. RunBatches(got, batches) = iter[1 .. n]
  BY DEF RunBatches, FoldLeft, MapThenFoldSet
<1>8. iter[{}] = got /\ \A s \in SUBSET (1 .. n) : s # {} =>
         iter[s] = Step(iter[s \ {Max(s)}], Max(s))
  <2> HIDE DEF iter, Step
  <2> QED
    BY <1>6
<1>9. iter[1 .. n] \in V
  <2> HIDE DEF iter
  <2>1. ASSUME NEW s \in SUBSET (1 .. n), s # {}, iter[s \ {Max(s)}] \in V
        PROVE  iter[s] \in V
    <3> HIDE DEF Step
    <3>1. Max(s) \in 1 .. n
      BY <2>1, GreatestPlace
    <3>2. iter[s] = Step(iter[s \ {Max(s)}], Max(s))
      BY <1>8, <2>1
    <3>3. Step(iter[s \ {Max(s)}], Max(s)) \in V
      BY <1>0, <2>1, <3>1
    <3> QED
      BY <3>2, <3>3
  <2> HIDE DEF Step
  <2> QED
    BY <1>8, <2>1, FoldStays
<1> QED
  BY <1>7, <1>9

-----------------------------------------------------------------------------
(* What a turn decides (funnel_fsm.py, agent_tools.py, agent_service.py).   *)

\* The stages that may come after each.
Onward(stage) ==
    CASE stage = "new"        -> FunnelStage
      [] stage = "engaging"   -> FunnelStage \ {"new"}
      [] stage = "qualifying" -> {"qualifying", "qualified"} \cup Ends
      [] stage = "qualified"  -> {"qualified"} \cup Ends
      [] OTHER                -> {stage}

\* What a turn that begins at a stage may have gathered.
Got == [stage : FunnelStage, reason : Reason, slugs : SUBSET Service, qr : BOOLEAN,
        name : BOOLEAN]

Sound(stage) ==
    {g \in Got : /\ g.stage \in Onward(stage)
                 /\ g.reason # None => g.stage = "handed_off"
                 /\ g.qr \/ g.slugs # {} => g.stage \in {"qualified"} \cup Ends}

LEMMA TransitionsAre ==
    /\ AllowedTransitions["new"] = {"engaging"} \cup Ends
    /\ AllowedTransitions["engaging"] = {"qualifying"} \cup Ends
    /\ AllowedTransitions["qualifying"] = {"qualified"} \cup Ends
    /\ AllowedTransitions["qualified"] = Ends
    /\ AllowedTransitions["handed_off"] = {}
    /\ AllowedTransitions["disqualified"] = {}
BY DEF AllowedTransitions, FunnelStage

LEMMA AdvanceIsOnward ==
    ASSUME NEW from \in FunnelStage, NEW stage \in Onward(from), NEW target \in FunnelStage
    PROVE  Advance(stage, target) \in Onward(from) /\ Onward(from) \subseteq FunnelStage
<1>1. stage \in FunnelStage /\ Onward(from) \subseteq FunnelStage
  BY DEF Onward, FunnelStage, Ends
<1>2. CASE Advance(stage, target) = stage
  BY <1>1, <1>2
<1>3. CASE target \in AllowedTransitions[stage] /\ Advance(stage, target) = target
  <2>1. CASE stage = "new"
    BY <1>1, <1>3, <2>1 DEF Onward, FunnelStage, Ends
  <2>2. CASE stage = "engaging"
    BY <1>1, <1>3, <2>2, TransitionsAre DEF Onward, FunnelStage, Ends
  <2>3. CASE stage = "qualifying"
    BY <1>1, <1>3, <2>3, TransitionsAre DEF Onward, FunnelStage, Ends
  <2>4. CASE stage = "qualified"
    BY <1>1, <1>3, <2>4, TransitionsAre DEF Onward, FunnelStage, Ends
  <2>5. CASE stage \in Ends
    BY <1>3, <2>5, TransitionsAre DEF Ends
  <2> QED
    BY <1>1, <2>1, <2>2, <2>3, <2>4, <2>5 DEF FunnelStage, Ends
<1> QED
  BY <1>1, <1>2, <1>3 DEF Advance, ValidTransition

\* A buying signal leaves a lead that has been engaged qualified, unless it was out.
LEMMA TowardQualifiedIs ==
    ASSUME NEW from \in FunnelStage \ {"new"}, NEW stage \in Onward(from)
    PROVE  /\ TowardQualified(stage) \in Onward(from)
           /\ TowardQualified(stage) \in {"qualified"} \cup Ends
           /\ stage \in Ends => TowardQualified(stage) = stage
<1>1. stage \in FunnelStage \ {"new"} /\ {"qualifying", "qualified"} \subseteq FunnelStage
  BY DEF Onward, FunnelStage, Ends
<1>2. Advance(stage, "qualifying") \in Onward(from)
  BY <1>1, AdvanceIsOnward
<1>3. TowardQualified(stage) \in Onward(from)
  BY <1>1, <1>2, AdvanceIsOnward DEF TowardQualified
<1>4. CASE stage = "engaging"
  BY <1>3, <1>4, TransitionsAre DEF TowardQualified, Advance, ValidTransition, Ends
<1>5. CASE stage = "qualifying"
  BY <1>3, <1>5, TransitionsAre DEF TowardQualified, Advance, ValidTransition, Ends
<1>6. CASE stage = "qualified"
  BY <1>3, <1>6, TransitionsAre DEF TowardQualified, Advance, ValidTransition, Ends
<1>7. CASE stage \in Ends
  BY <1>3, <1>7, TransitionsAre DEF TowardQualified, Advance, ValidTransition, Ends
<1> QED
  BY <1>1, <1>4, <1>5, <1>6, <1>7 DEF FunnelStage, Ends

LEMMA EndsStay ==
    ASSUME NEW stage \in Ends, NEW target PROVE Advance(stage, target) = stage
BY TransitionsAre DEF Ends, Advance, ValidTransition

\* Whatever tool the model calls, and with whatever argument.
LEMMA RunToolSound ==
    ASSUME NEW from \in FunnelStage \ {"new"}, NEW got \in Sound(from), NEW use
    PROVE  RunTool(got, use) \in Sound(from)
<1>1. /\ got \in Got /\ got.stage \in Onward(from) /\ got.stage \in FunnelStage
      /\ got.reason # None => got.stage = "handed_off"
      /\ got.qr \/ got.slugs # {} => got.stage \in {"qualified"} \cup Ends
  BY DEF Sound, Got
<1>2. /\ TowardQualified(got.stage) \in Onward(from) /\ TowardQualified(got.stage) \in FunnelStage
      /\ TowardQualified(got.stage) \in {"qualified"} \cup Ends
      /\ got.stage \in Ends => TowardQualified(got.stage) = got.stage
  BY <1>1, TowardQualifiedIs DEF FunnelStage, Ends
<1>3. FijarServicio(got, use.arg) \in Sound(from)
  BY <1>1, <1>2 DEF FijarServicio, Sound, Got, Ends
<1>4. EnviarQrPago(got) \in Sound(from)
  BY <1>1, <1>2 DEF EnviarQrPago, Sound, Got, Ends
<1>5. GuardarNombre(got, use.arg) \in Sound(from)
  BY <1>1 DEF GuardarNombre, Sound, Got
<1>6. ASSUME NEW target \in FunnelStage
      PROVE  [got EXCEPT !.stage = Advance(@, target)] \in Sound(from)
  <2>1. /\ Advance(got.stage, target) \in Onward(from)
        /\ Advance(got.stage, target) \in FunnelStage
    BY <1>1, AdvanceIsOnward
  <2>2. got.stage \in Ends => Advance(got.stage, target) = got.stage
    BY EndsStay
  <2>3. got.stage = "qualified" => Advance(got.stage, target) \in {"qualified"} \cup Ends
    BY TransitionsAre DEF Advance, ValidTransition
  <2> QED
    BY <1>1, <2>1, <2>2, <2>3 DEF Sound, Got, Ends
<1>7. SetLeadStage(got, use.arg) \in Sound(from)
  BY <1>6 DEF SetLeadStage
<1>8. OutOfScope(got) \in Sound(from)
  BY <1>6 DEF OutOfScope, FunnelStage
<1>9. HandoffToHuman(got, use.arg) \in Sound(from)
  <2> SUFFICES ASSUME use.arg \in HandoffReasons, ValidTransition(got.stage, "handed_off")
               PROVE  [got EXCEPT !.stage = "handed_off", !.reason = use.arg] \in Sound(from)
    BY DEF HandoffToHuman
  <2>1. "handed_off" \in Onward(from) /\ "handed_off" \in FunnelStage
    <3>1. Advance(got.stage, "handed_off") = "handed_off"
      BY DEF Advance
    <3> QED
      BY <1>1, <3>1, AdvanceIsOnward DEF FunnelStage
  <2> QED
    BY <1>1, <2>1 DEF Sound, Got, Ends, Reason
<1> QED
  BY <1>3, <1>4, <1>5, <1>7, <1>8, <1>9 DEF RunTool

\* Calls of the model, in any number, of any tools, in as many answers.
LEMMA RunBatchesSound ==
    ASSUME NEW from \in FunnelStage \ {"new"}, NEW got \in Sound(from), NEW Use,
           NEW batches \in Seq(Seq(Use))
    PROVE  RunBatches(got, batches) \in Sound(from)
<1>1. ASSUME NEW g \in Sound(from), NEW uses \in Seq(Use)
      PROVE  RunTools(g, uses) \in Sound(from)
  <2>1. Len(uses) \in Nat /\ DOMAIN uses = 1 .. Len(uses)
    OBVIOUS
  <2> QED
    BY <2>1, RunToolSound, RunToolsStays
<1>2. Len(batches) \in Nat /\ DOMAIN batches = 1 .. Len(batches)
  OBVIOUS
<1>3. \A i \in 1 .. Len(batches) : batches[i] \in Seq(Use)
  OBVIOUS
<1> QED
  BY <1>1, <1>2, <1>3, RunBatchesStays

\* What a turn says, writes and shows, whatever it was about: Handle.
TurnSound(stage, o) ==
    /\ o.stage \in Onward(stage) /\ o.stage \in FunnelStage
    /\ o.reason \in Reason /\ o.slugs \in SUBSET Service
    /\ o.qr \in BOOLEAN /\ o.name \in BOOLEAN /\ o.ai \in BOOLEAN
    /\ o.ai <=> o.reason = None
    /\ o.reason # None => o.stage \in Ends /\ ~o.qr
    /\ (o.qr \/ o.slugs # {}) /\ ~IsTerminal(o.stage) => o.stage = "qualified"
    /\ o.reason \notin {None, "unknown_service"} => o.reply # None

LEMMA OutcomeSound ==
    ASSUME NEW stage \in FunnelStage, NEW reply, NEW target \in Onward(stage), NEW reason \in Reason,
           reason # None => target \in Ends,
           reason \notin {None, "unknown_service"} => reply # None
    PROVE  TurnSound(stage, Outcome(reply, target, reason))
<1>1. target \in FunnelStage
  BY DEF Onward, FunnelStage, Ends
<1> QED
  BY <1>1 DEF TurnSound, Outcome

LEMMA EngagingIs ==
    ASSUME NEW stage \in FunnelStage
    PROVE  /\ Advance(stage, "engaging") \in FunnelStage \ {"new"}
           /\ Advance(stage, "engaging") \in Onward(stage)
           /\ Onward(Advance(stage, "engaging")) \subseteq Onward(stage)
<1>1. stage \in Onward(stage) /\ "engaging" \in FunnelStage
  BY DEF Onward, FunnelStage, Ends
<1>2. Advance(stage, "engaging") \in Onward(stage) /\ Onward(stage) \subseteq FunnelStage
  BY <1>1, AdvanceIsOnward
<1>3. CASE stage = "new"
  <2>1. Advance(stage, "engaging") = "engaging"
    BY <1>3, TransitionsAre DEF Advance, ValidTransition
  <2> QED
    BY <1>2, <1>3, <2>1 DEF Onward
<1>4. CASE stage # "new"
  <2>1. Advance(stage, "engaging") = stage
    BY <1>4, TransitionsAre DEF Advance, ValidTransition, FunnelStage, Ends
  <2> QED
    BY <1>2, <1>4, <2>1
<1> QED
  BY <1>3, <1>4

LEMMA GatheredIs ==
    ASSUME NEW from \in FunnelStage PROVE Gathered(from) \in Sound(from)
BY DEF Gathered, Sound, Got, Reason, Onward, FunnelStage, Ends

\* The hand-over of a lead that is not out yet; one that is out stays out.
LEMMA HandedOverIsOnward ==
    ASSUME NEW from \in FunnelStage, NEW stage \in Onward(from)
    PROVE  /\ Advance(stage, "handed_off") \in Onward(from)
           /\ Advance(stage, "handed_off") \in Ends
<1>1. stage \in FunnelStage /\ "handed_off" \in FunnelStage
  BY DEF Onward, FunnelStage, Ends
<1>2. Advance(stage, "handed_off") \in Onward(from)
  BY <1>1, AdvanceIsOnward
<1>3. stage \in Ends \/ "handed_off" \in AllowedTransitions[stage]
  BY <1>1, TransitionsAre DEF FunnelStage, Ends
<1> QED
  BY <1>2, <1>3 DEF Advance, ValidTransition, Ends

\* What is said of a receipt that came, and of one that did not.
Acknowledged(reply, isMedia) == IF isMedia THEN reply = "received" ELSE reply # "received"

LEMMA PaymentIsAcknowledged ==
    ASSUME NEW isMedia \in BOOLEAN
    PROVE  Acknowledged(HandoffReply("payment_validation", None, isMedia), isMedia)
<1>1. HandoffReply("payment_validation", None, TRUE) = "received"
  BY DEF HandoffReply
<1>2. HandoffReply("payment_validation", None, FALSE) = "ask_proof"
  BY DEF HandoffReply
<1>3. CASE isMedia = TRUE
  BY <1>1, <1>3 DEF Acknowledged
<1>4. CASE isMedia = FALSE
  BY <1>2, <1>4 DEF Acknowledged
<1> QED
  BY <1>3, <1>4

LEMMA GenerateSound ==
    ASSUME NEW stage \in FunnelStage, NEW Use, NEW batches \in Seq(Seq(Use)),
           NEW text, NEW again, NEW isMedia \in BOOLEAN
    PROVE  LET o == Generate(stage, batches, text, again, isMedia)
           IN  /\ TurnSound(stage, o)
               /\ o.reason = "payment_validation" => Acknowledged(o.reply, isMedia)
<1> DEFINE from == Advance(stage, "engaging")
           got  == RunBatches(Gathered(from), batches)
           said == IF got.reason = None THEN text ELSE None
           o    == Generate(stage, batches, text, again, isMedia)
<1>1. from \in FunnelStage \ {"new"} /\ Onward(from) \subseteq Onward(stage)
  BY EngagingIs
<1>2. got \in Sound(from)
  BY <1>1, GatheredIs, RunBatchesSound
<1> HIDE DEF from, got
<1>3. /\ got.stage \in Onward(from) /\ got.stage \in Onward(stage) /\ got.stage \in FunnelStage
      /\ got.reason \in Reason /\ got.slugs \in SUBSET Service
      /\ got.qr \in BOOLEAN /\ got.name \in BOOLEAN
      /\ got.reason # None => got.stage = "handed_off"
      /\ got.qr \/ got.slugs # {} => got.stage \in {"qualified"} \cup Ends
  BY <1>1, <1>2 DEF Sound, Got
<1>4. CASE got.reason = None /\ Len(batches) = MaxIterations
  <2>1. o = Outcome("error", Advance(got.stage, "handed_off"), "agent_error")
    BY <1>4 DEF Generate, got, from
  <2>2. /\ Advance(got.stage, "handed_off") \in Onward(stage)
        /\ Advance(got.stage, "handed_off") \in Ends
    BY <1>3, HandedOverIsOnward
  <2>3. "agent_error" \in Reason /\ "error" # None
    BY SilenceIsNoAnswer DEF Reason, HandoffReasons
  <2>4. TurnSound(stage, o)
    BY <2>1, <2>2, <2>3, OutcomeSound
  <2>5. o.reason = "agent_error"
    BY <2>1 DEF Outcome
  <2> QED
    BY <2>4, <2>5
<1>5. CASE ~(got.reason = None /\ Len(batches) = MaxIterations)
  <2> DEFINE reply == IF got.reason # None THEN HandoffReply(got.reason, said, isMedia)
                      ELSE IF said # None THEN said ELSE again
  <2>1. o = [Outcome(reply, got.stage, got.reason)
               EXCEPT !.slugs = got.slugs, !.qr = Images(got), !.name = got.name]
    BY <1>5 DEF Generate, got, from
  <2>2. /\ o.reply = reply /\ o.stage = got.stage /\ o.ai = (got.reason = None)
        /\ o.reason = got.reason /\ o.slugs = got.slugs /\ o.qr = Images(got)
        /\ o.name = got.name
    <3> HIDE DEF reply, o
    <3> QED
      BY <2>1 DEF Outcome
  <2>3. got.reason # None => reply = HandoffReply(got.reason, None, isMedia)
    OBVIOUS
  <2>4. got.reason \notin {None, "unknown_service"} => reply # None
    <3> HIDE DEF reply
    <3> QED
      BY <2>3, SilenceIsNoAnswer DEF HandoffReply
  <2>5. got.reason = "payment_validation" => Acknowledged(reply, isMedia)
    <3> SUFFICES ASSUME got.reason = "payment_validation" PROVE Acknowledged(reply, isMedia)
      OBVIOUS
    <3>1. reply = HandoffReply("payment_validation", None, isMedia)
      BY <2>3, NoneIsNone DEF HandoffReasons
    <3> QED
      BY <3>1, PaymentIsAcknowledged
  <2>6. /\ Images(got) \in BOOLEAN /\ (Images(got) => got.qr /\ got.reason = None)
    BY <1>3 DEF Images
  <2>7. \A s \in Ends : IsTerminal(s)
    BY TransitionsAre DEF IsTerminal, Ends
  <2> HIDE DEF reply, o
  <2>8. TurnSound(stage, o)
    BY <1>3, <2>2, <2>4, <2>6, <2>7 DEF TurnSound, Ends
  <2> QED
    BY <2>2, <2>5, <2>8 DEF o
<1> QED
  BY <1>4, <1>5

LEMMA HandleSound ==
    ASSUME NEW stage \in FunnelStage, NEW flow, NEW Use, NEW batches \in Seq(Seq(Use)),
           NEW text, NEW again, NEW isMedia \in BOOLEAN
    PROVE  LET o == Handle(flow, stage, batches, text, again, isMedia)
           IN  /\ TurnSound(stage, o)
               /\ o.reason = "payment_validation" => Acknowledged(o.reply, isMedia)
<1>1. stage \in Onward(stage) /\ "explicit_request" \in Reason /\ None \in Reason
  BY DEF Onward, FunnelStage, Ends, Reason, HandoffReasons
<1>2. TurnSound(stage, Greet(stage)) /\ Greet(stage).reason = None
  <2>1. TurnSound(stage, Greet(stage))
    BY <1>1, EngagingIs, OutcomeSound DEF Greet
  <2> QED
    BY <2>1 DEF Greet, Outcome
<1>3. TurnSound(stage, AskedHuman(stage)) /\ AskedHuman(stage).reason = "explicit_request"
  <2>1. TurnSound(stage, AskedHuman(stage))
    BY <1>1, HandedOverIsOnward, OutcomeSound, SilenceIsNoAnswer DEF AskedHuman
  <2> QED
    BY <2>1 DEF AskedHuman, Outcome
<1>4. None # "payment_validation"
  BY NoneIsNone DEF HandoffReasons
<1> QED
  BY <1>2, <1>3, <1>4, GenerateSound DEF Handle

\* Whatever the model calls, in whatever order and however often, the funnel only goes
\* forward: a lead that is out stays out, none goes back to an earlier stage, and who
\* gives a buying signal and stays with the agent is hot on the board (funnel_fsm.py,
\* agent_tools.py, lead_rating.py).
THEOREM OnlyForwardInTheFunnel ==
    ASSUME NEW stage \in FunnelStage, NEW flow, NEW Use, NEW batches \in Seq(Seq(Use)),
           NEW text, NEW again, NEW isMedia \in BOOLEAN
    PROVE  LET o == Handle(flow, stage, batches, text, again, isMedia)
           IN  /\ o.stage \in Onward(stage)
               /\ (o.qr \/ o.slugs # {}) /\ ~IsTerminal(o.stage)
                     => RatingForStage(o.stage, o.slugs # {}) = "hot"
<1> DEFINE o == Handle(flow, stage, batches, text, again, isMedia)
<1>1. TurnSound(stage, o)
  BY HandleSound
<1> HIDE DEF o
<1>2. /\ o.stage \in Onward(stage)
      /\ (o.qr \/ o.slugs # {}) /\ ~IsTerminal(o.stage)
            => RatingForStage(o.stage, o.slugs # {}) = "hot"
  BY <1>1 DEF TurnSound, RatingForStage
<1> QED
  BY <1>2 DEF o

\* Whatever the model calls, a lead that is handed over is out of its hands and told so,
\* unless its service is unknown; no QR goes with it, and a photo is acknowledged as such
\* (_finalize_reply, agent_service.py).  A lead that stays is not left without an agent.
THEOREM HandedOverAndTold ==
    ASSUME NEW stage \in FunnelStage, NEW flow, NEW Use, NEW batches \in Seq(Seq(Use)),
           NEW text, NEW again, NEW isMedia \in BOOLEAN
    PROVE  LET o == Handle(flow, stage, batches, text, again, isMedia)
           IN  /\ o.ai <=> o.reason = None
               /\ o.reason # None => IsTerminal(o.stage) /\ ~o.qr
               /\ o.reason \notin {None, "unknown_service"} => o.reply # None
               /\ o.reason = "payment_validation" => Acknowledged(o.reply, isMedia)
<1> DEFINE o == Handle(flow, stage, batches, text, again, isMedia)
<1>1. TurnSound(stage, o) /\ (o.reason = "payment_validation" => Acknowledged(o.reply, isMedia))
  BY HandleSound
<1>2. \A s \in Ends : IsTerminal(s)
  BY TransitionsAre DEF IsTerminal, Ends
<1> HIDE DEF o
<1>3. /\ o.ai <=> o.reason = None
      /\ o.reason # None => IsTerminal(o.stage) /\ ~o.qr
      /\ o.reason \notin {None, "unknown_service"} => o.reply # None
      /\ o.reason = "payment_validation" => Acknowledged(o.reply, isMedia)
  BY <1>1, <1>2 DEF TurnSound
<1> QED
  BY <1>3 DEF o


-----------------------------------------------------------------------------
(* The types. *)

\* What a turn may end in, by the lemmas about what it decides.
LEMMA OutcomesAre ==
    ASSUME NEW stage \in FunnelStage, NEW o \in Outcomes[stage]
    PROVE  TurnSound(stage, o)
<1>1. TurnSound(stage, Greet(stage)) /\ TurnSound(stage, AskedHuman(stage))
  <2>1. /\ stage \in Onward(stage) /\ "explicit_request" \in Reason /\ None \in Reason
        /\ "explicit_request" # None
    BY NoneIsNone DEF Onward, FunnelStage, Ends, Reason, HandoffReasons
  <2> QED
    BY <2>1, EngagingIs, HandedOverIsOnward, OutcomeSound, SilenceIsNoAnswer DEF Greet, AskedHuman
<1>2. TurnSound(stage, ModelFailed(stage))
  <2>1. stage \in Onward(stage) /\ "agent_error" \in Reason
    BY DEF Onward, FunnelStage, Ends, Reason, HandoffReasons
  <2> QED
    BY <2>1, HandedOverIsOnward, OutcomeSound, SilenceIsNoAnswer DEF ModelFailed
<1>3. ASSUME NEW n \in 0 .. 2, NEW uses \in [1 .. n -> Tools]
      PROVE  TurnSound(stage, Generate(stage, <<uses>>, "model", "model", FALSE))
  <2>1. uses \in Seq(Tools)
    OBVIOUS
  <2>2. <<uses>> \in Seq(Seq(Tools)) /\ FALSE \in BOOLEAN
    BY <2>1
  <2> QED
    BY <2>2, GenerateSound
<1>4. Outcomes[stage] = {Greet(stage), AskedHuman(stage), ModelFailed(stage)}
        \cup {Generate(stage, <<uses>>, "model", "model", FALSE) :
                uses \in UNION {[1 .. n -> Tools] : n \in 0 .. 2}}
  BY DEF Outcomes
<1> QED
  BY <1>1, <1>2, <1>3, <1>4

LEMMA TargetIsAStage == ASSUME NEW c \in Conv PROVE Target(c) \in StageName
<1>1. /\ IaStageByFunnel(conv[c].stage) \in
           {"Nuevo", "Enganchando", "Calificando", "Calificado", "Descalificado"}
      /\ HumanStageByReason(event[c]) \in {"Por atender", "Por validar pago"}
  BY DEF IaStageByFunnel, HumanStageByReason
<1> QED
  BY <1>1, HumanIs, IaIs DEF Target, TargetStage, StageName, Human

LEMMA StagesAre == {"Nuevo", "Cerrado"} \subseteq StageName
BY HumanIs, IaIs DEF StageName, Human

LEMMA InitType == Init => TypeOK
BY DEF Init, TypeOK, NewConv, NoCard, Idle, Conversation, Card, Source, Reason, Turn, Names,
       FunnelStage

\* The fields of a turn, written one at a time.
Pc == {"idle", "turn", "name", "event", "capture", "read", "write"}

LEMMA TurnRow ==
    ASSUME NEW t \in Turn
    PROVE  /\ \A p \in Pc : [t EXCEPT !.pc = p] \in Turn
           /\ \A b \in BOOLEAN : [t EXCEPT !.name = b] \in Turn
           /\ \A b \in BOOLEAN : [t EXCEPT !.linked = b] \in Turn
           /\ \A b \in BOOLEAN : [t EXCEPT !.closed = b] \in Turn
           /\ \A r \in Reason : [t EXCEPT !.reason = r] \in Turn
           /\ \A s \in FunnelStage : [t EXCEPT !.stage = s] \in Turn
           /\ \A s \in StageName \cup {None} : [t EXCEPT !.target = s] \in Turn
           /\ \A s \in StageName \cup {None} : [t EXCEPT !.card = s] \in Turn
           /\ \A w \in SUBSET Nat : [t EXCEPT !.seen = w] \in Turn
           /\ \A w \in SUBSET Service : [t EXCEPT !.slugs = w] \in Turn
<1>1. \A p \in Pc : [t EXCEPT !.pc = p] \in Turn
  BY DEF Turn, Pc
<1>2. \A b \in BOOLEAN : [t EXCEPT !.name = b] \in Turn
  BY DEF Turn
<1>3. \A b \in BOOLEAN : [t EXCEPT !.linked = b] \in Turn
  BY DEF Turn
<1>4. \A b \in BOOLEAN : [t EXCEPT !.closed = b] \in Turn
  BY DEF Turn
<1>5. \A r \in Reason : [t EXCEPT !.reason = r] \in Turn
  BY DEF Turn
<1>6. \A s \in FunnelStage : [t EXCEPT !.stage = s] \in Turn
  BY DEF Turn
<1>7. \A s \in StageName \cup {None} : [t EXCEPT !.target = s] \in Turn
  BY DEF Turn
<1>8. \A s \in StageName \cup {None} : [t EXCEPT !.card = s] \in Turn
  BY DEF Turn
<1>9. \A w \in SUBSET Nat : [t EXCEPT !.seen = w] \in Turn
  BY DEF Turn
<1>10. \A w \in SUBSET Service : [t EXCEPT !.slugs = w] \in Turn
  BY DEF Turn
<1> QED
  BY <1>1, <1>2, <1>3, <1>4, <1>5, <1>6, <1>7, <1>8, <1>9, <1>10

LEMMA InboundType == ASSUME TypeOK, NEW c \in Conv, Inbound(c) PROVE TypeOK'
<1>1. [conv[c] EXCEPT !.kept = TRUE] \in Conversation
  BY DEF TypeOK, Conversation
<1>2. conv' \in [Conv -> Conversation]
  BY <1>1 DEF TypeOK, Inbound
<1> QED
  BY <1>2 DEF TypeOK, Inbound, ghosts

LEMMA SweepType == ASSUME TypeOK, NEW c \in Conv, Sweep(c) PROVE TypeOK'
BY DEF TypeOK, Sweep, tables, ghosts, bounds

LEMMA LoadType == ASSUME TypeOK, NEW c \in Conv, Load(c) PROVE TypeOK'
<1>1. [turn[c] EXCEPT !.pc = "turn", !.stage = conv[c].stage, !.seen = unread[c]] \in Turn
  <2>1. /\ turn[c] \in Turn /\ conv[c].stage \in FunnelStage /\ unread[c] \in SUBSET Nat
        /\ "turn" \in Pc
    BY DEF TypeOK, Conversation, Pc
  <2>2. [turn[c] EXCEPT !.pc = "turn", !.stage = conv[c].stage] \in Turn
    BY <2>1, TurnRow
  <2> QED
    BY <2>1, <2>2, TurnRow
<1>2. turn' \in [Conv -> Turn]
  BY <1>1 DEF TypeOK, Load
<1> QED
  BY <1>2 DEF TypeOK, Load, tables, ghosts, bounds

LEMMA NothingToDoType == ASSUME TypeOK, NEW c \in Conv, NothingToDo(c) PROVE TypeOK'
<1>1. [turn[c] EXCEPT !.pc = "read"] \in Turn
  BY TurnRow DEF TypeOK, Pc
<1>2. turn' \in [Conv -> Turn]
  BY <1>1 DEF TypeOK, NothingToDo
<1> QED
  BY <1>2 DEF TypeOK, NothingToDo, tables, ghosts, bounds

LEMMA SaveTurnType == ASSUME TypeOK, NEW c \in Conv, SaveTurn(c) PROVE TypeOK'
<1>1. turn[c] \in Turn /\ turn[c].stage \in FunnelStage
  BY DEF TypeOK, Turn
<1> PICK o \in Outcomes[turn[c].stage] :
      /\ conv' = [conv EXCEPT ![c].stage = o.stage, ![c].ai = o.ai]
      /\ turn' = [turn EXCEPT ![c] = [Idle EXCEPT !.pc = Rest(o), !.reason = o.reason,
                                      !.slugs = o.slugs, !.name = o.name]]
      /\ why' = [why EXCEPT ![c] = o.reason]
  BY DEF SaveTurn
<1>2. /\ o.stage \in FunnelStage /\ o.ai \in BOOLEAN /\ o.reason \in Reason
      /\ o.slugs \in SUBSET Service /\ o.name \in BOOLEAN
  BY <1>1, OutcomesAre DEF TurnSound
<1>3. [Idle EXCEPT !.pc = Rest(o), !.reason = o.reason, !.slugs = o.slugs, !.name = o.name]
        \in Turn
  <2>1. Rest(o) \in {"idle", "turn", "name", "event", "capture", "read", "write"}
    BY RestIs
  <2> QED
    BY <1>2, <2>1 DEF Idle, Turn, FunnelStage
<1>4. conv' \in [Conv -> Conversation]
  BY <1>2 DEF TypeOK, Conversation
<1>5. turn' \in [Conv -> Turn]
  BY <1>3 DEF TypeOK
<1>6. why' \in [Conv -> Reason \cup {"takeover"}]
  BY <1>2 DEF TypeOK
<1>7. unread' \in [Conv -> SUBSET Nat]
  BY DEF TypeOK, SaveTurn
<1> QED
  BY <1>4, <1>5, <1>6, <1>7 DEF TypeOK, SaveTurn, bounds

LEMMA SaveFullNameType == ASSUME TypeOK, NEW c \in Conv, SaveFullName(c) PROVE TypeOK'
<1>1. conv' \in [Conv -> Conversation]
  BY DEF TypeOK, SaveFullName, Conversation, Names
<1>2. [turn[c] EXCEPT !.pc = Rest([turn[c] EXCEPT !.name = FALSE]), !.name = FALSE] \in Turn
  BY RestIs, TurnRow DEF TypeOK, Pc
<1>3. turn' \in [Conv -> Turn]
  BY <1>2 DEF TypeOK, SaveFullName
<1> QED
  BY <1>1, <1>3 DEF TypeOK, SaveFullName, ghosts, bounds

LEMMA OnHandoffType == ASSUME TypeOK, NEW c \in Conv, OnHandoff(c) PROVE TypeOK'
<1>1. event' \in [Conv -> Reason]
  BY DEF TypeOK, OnHandoff, Turn
<1>2. [turn[c] EXCEPT !.pc = Rest([turn[c] EXCEPT !.reason = None]), !.reason = None] \in Turn
  BY RestIs, TurnRow DEF TypeOK, Pc, Reason
<1>3. turn' \in [Conv -> Turn]
  BY <1>2 DEF TypeOK, OnHandoff
<1> QED
  BY <1>1, <1>3 DEF TypeOK, OnHandoff, ghosts, bounds

LEMMA OnCapturedType == ASSUME TypeOK, NEW c \in Conv, OnCaptured(c) PROVE TypeOK'
<1>1. services' \in [Conv -> [Service -> Source]]
  BY DEF TypeOK, OnCaptured, Source
<1>2. [turn[c] EXCEPT !.pc = "read", !.slugs = {}] \in Turn
  BY TurnRow DEF TypeOK, Pc
<1>3. turn' \in [Conv -> Turn]
  BY <1>2 DEF TypeOK, OnCaptured
<1> QED
  BY <1>1, <1>3 DEF TypeOK, OnCaptured, ghosts, bounds

LEMMA SyncReadType == ASSUME TypeOK, NEW c \in Conv, SyncRead(c) PROVE TypeOK'
<1>1. card[c].stage \in StageName \cup {None} /\ conv[c].closed \in BOOLEAN /\ Target(c) \in StageName
  BY TargetIsAStage DEF TypeOK, Card, Conversation
<1>2. [turn[c] EXCEPT !.pc = "write", !.target = Target(c), !.card = card[c].stage,
                      !.linked = contact # None, !.closed = conv[c].closed] \in Turn
  <2>1. turn[c] \in Turn /\ "write" \in Pc /\ (contact # None) \in BOOLEAN
    BY DEF TypeOK, Pc
  <2>2. [turn[c] EXCEPT !.pc = "write", !.target = Target(c)] \in Turn
    BY <1>1, <2>1, TurnRow
  <2>3. [turn[c] EXCEPT !.pc = "write", !.target = Target(c), !.card = card[c].stage] \in Turn
    BY <1>1, <2>2, TurnRow
  <2>4. [turn[c] EXCEPT !.pc = "write", !.target = Target(c), !.card = card[c].stage,
                        !.linked = contact # None] \in Turn
    BY <2>1, <2>3, TurnRow
  <2> QED
    BY <1>1, <2>4, TurnRow
<1>3. turn' \in [Conv -> Turn]
  BY <1>2 DEF TypeOK, SyncRead
<1> QED
  BY <1>3 DEF TypeOK, SyncRead, tables, ghosts, bounds

LEMMA SyncWriteType == ASSUME TypeOK, NEW c \in Conv, SyncWrite(c) PROVE TypeOK'
<1>1. /\ turn[c].target \in StageName \cup {None} /\ turn[c].linked \in BOOLEAN
      /\ card[c].linked \in BOOLEAN
  BY DEF TypeOK, Turn, Card
<1>2. ASSUME NEW linked \in BOOLEAN, Project(c, turn[c].target, linked)
      PROVE  card' \in [Conv -> Card] /\ conv' \in [Conv -> Conversation]
  <2> DEFINE closed == turn[c].target \in Closing \/ (conv[c].closed /\ ~turn[c].closed)
  <2>1. [stage |-> turn[c].target, linked |-> linked] \in Card
    BY <1>1 DEF Card
  <2>2. [conv[c] EXCEPT !.closed = closed] \in Conversation
    <3>1. closed \in BOOLEAN
      OBVIOUS
    <3> HIDE DEF closed
    <3> QED
      BY <3>1 DEF TypeOK, Conversation
  <2>3. conv' = [conv EXCEPT ![c] = [conv[c] EXCEPT !.closed = closed]]
    BY <1>2 DEF Project
  <2> HIDE DEF closed
  <2> QED
    BY <1>2, <2>1, <2>2, <2>3 DEF TypeOK, Project
<1>3. card' \in [Conv -> Card] /\ conv' \in [Conv -> Conversation]
  BY <1>1, <1>2 DEF SyncWrite, TypeOK
<1>4. turn' \in [Conv -> Turn]
  BY DEF TypeOK, SyncWrite, Turn, Idle, FunnelStage, Reason
<1> QED
  BY <1>3, <1>4 DEF TypeOK, SyncWrite, ghosts, bounds

LEMMA TurnFailsType == ASSUME TypeOK, NEW c \in Conv, TurnFails(c) PROVE TypeOK'
<1>1. turn' \in [Conv -> Turn]
  BY DEF TypeOK, TurnFails, Turn, Idle, FunnelStage, Reason
<1> QED
  BY <1>1 DEF TypeOK, TurnFails, Fault, tables, bounds

LEMMA CrashType == ASSUME TypeOK, NEW c \in Conv, Crash(c) PROVE TypeOK'
<1>1. turn' \in [Conv -> Turn]
  BY DEF TypeOK, Crash, Turn, Idle, FunnelStage, Reason
<1> QED
  BY <1>1 DEF TypeOK, Crash, Fault, tables, bounds

LEMMA TakeOverType == ASSUME TypeOK, NEW c \in Conv, TakeOver(c) PROVE TypeOK'
<1>1. [conv[c] EXCEPT !.ai = FALSE] \in Conversation
  BY DEF TypeOK, Conversation
<1>2. conv' \in [Conv -> Conversation]
  BY <1>1 DEF TypeOK, TakeOver
<1> QED
  BY <1>2 DEF TypeOK, TakeOver, Act

LEMMA HandBackType == ASSUME TypeOK, NEW c \in Conv, HandBack(c) PROVE TypeOK'
<1>1. [conv[c] EXCEPT !.ai = TRUE, !.stage = Reopen(@, FALSE)] \in Conversation
  BY DEF TypeOK, Conversation, Reopen, FunnelStage
<1>2. conv' \in [Conv -> Conversation]
  BY <1>1 DEF TypeOK, HandBack
<1> QED
  BY <1>2 DEF TypeOK, HandBack, Act, Reason

LEMMA LinkAllType == ASSUME TypeOK, NEW linked \in BOOLEAN PROVE LinkAll(linked) \in [Conv -> Card]
BY DEF TypeOK, LinkAll, Card

LEMMA DragType == ASSUME TypeOK, NEW c \in Conv, NEW s \in Dragged, Drag(c, s) PROVE TypeOK'
<1>1. card' \in [Conv -> Card] /\ contact' \in Names \cup {None}
  <2>1. CASE s \in Won
    <3>1. LinkAll(TRUE) \in [Conv -> Card]
      BY LinkAllType
    <3>2. card' \in [Conv -> Card]
      BY <2>1, <3>1, StagesAre DEF Drag, Win, Card
    <3>3. contact' \in Names \cup {None}
      BY <2>1 DEF Drag, Win, Upsert, TypeOK, Conversation
    <3> QED
      BY <3>2, <3>3
  <2>2. CASE s \notin Won
    <3>1. [card[c] EXCEPT !.stage = s] \in Card
      BY InputsAreAllowed DEF TypeOK, Card
    <3> QED
      BY <2>2, <3>1 DEF TypeOK, Drag
  <2> QED
    BY <2>1, <2>2
<1>2. [conv[c] EXCEPT !.closed = s \in Closing] \in Conversation
  <2>1. (s \in Closing) \in BOOLEAN
    OBVIOUS
  <2>2. \A b \in BOOLEAN : [conv[c] EXCEPT !.closed = b] \in Conversation
    BY DEF TypeOK, Conversation
  <2> QED
    BY <2>1, <2>2
<1>3. conv' \in [Conv -> Conversation]
  BY <1>2 DEF TypeOK, Drag
<1> QED
  BY <1>1, <1>3 DEF TypeOK, Drag, Act, ghosts

LEMMA EditType == ASSUME TypeOK, NEW c \in Conv, NEW n \in Typed, Edit(c, n) PROVE TypeOK'
<1>1. [conv[c] EXCEPT !.name = n] \in Conversation
  BY InputsAreAllowed DEF TypeOK, Conversation
<1>2. conv' \in [Conv -> Conversation]
  BY <1>1 DEF TypeOK, Edit
<1> QED
  BY <1>2 DEF TypeOK, Edit, Act, ghosts

LEMMA OpenByHandType ==
    ASSUME TypeOK, NEW c \in Conv, NEW n \in Typed, OpenByHand(c, n) PROVE TypeOK'
<1>1. CASE HasCard(c)
  BY <1>1 DEF TypeOK, OpenByHand, Act, ghosts
<1>2. CASE ~HasCard(c)
  <2> DEFINE name == IF conv[c].name # "named" /\ n = "named" THEN n
                     ELSE IF Kept(c) THEN conv[c].name ELSE n
  <2>1. conv' = [conv EXCEPT ![c] = [conv[c] EXCEPT !.kept = TRUE, !.name = name]]
    BY <1>2 DEF OpenByHand
  <2>2. name \in Names
    BY InputsAreAllowed DEF TypeOK, Conversation
  <2> HIDE DEF name
  <2>3. [conv[c] EXCEPT !.kept = TRUE, !.name = name] \in Conversation
    BY <2>2 DEF TypeOK, Conversation
  <2>4. [stage |-> "Nuevo", linked |-> contact # None] \in Card
    BY StagesAre DEF Card
  <2>5. conv' \in [Conv -> Conversation] /\ card' \in [Conv -> Card]
    BY <1>2, <2>1, <2>3, <2>4 DEF TypeOK, OpenByHand
  <2> QED
    BY <2>5 DEF TypeOK, OpenByHand, Act, ghosts
<1> QED
  BY <1>1, <1>2

LEMMA DropType == ASSUME TypeOK, NEW c \in Conv, Drop(c) PROVE TypeOK'
<1>1. [conv[c] EXCEPT !.closed = TRUE] \in Conversation
  BY DEF TypeOK, Conversation
<1>2. NoCard \in Card /\ [s \in Service |-> None] \in [Service -> Source]
  BY DEF NoCard, Card, Source
<1>3. conv' \in [Conv -> Conversation] /\ card' \in [Conv -> Card]
  BY <1>1, <1>2 DEF TypeOK, Drop
<1>4. services' \in [Conv -> [Service -> Source]]
  BY <1>2 DEF TypeOK, Drop
<1> QED
  BY <1>3, <1>4 DEF TypeOK, Drop, Act, ghosts

LEMMA SetServicesType == ASSUME TypeOK, NEW c \in Conv, NEW w, SetServices(c, w) PROVE TypeOK'
<1>1. services' \in [Conv -> [Service -> Source]]
  BY DEF TypeOK, SetServices, Reconcile, Source
<1> QED
  BY <1>1 DEF TypeOK, SetServices, Act, ghosts

LEMMA ContactsType == ASSUME TypeOK, SaveContact \/ DeleteContact PROVE TypeOK'
<1>1. card' \in [Conv -> Card]
  BY LinkAllType DEF SaveContact, DeleteContact
<1>2. contact' \in Names \cup {None}
  BY DEF SaveContact, DeleteContact, Names
<1>3. acts' = acts + 1 /\ acts \in Nat
  BY DEF TypeOK, SaveContact, DeleteContact, Act
<1>4. acts' \in Nat
  BY <1>3
<1> QED
  BY <1>1, <1>2, <1>4 DEF TypeOK, SaveContact, DeleteContact, ghosts

LEMMA NextType == ASSUME TypeOK, [Next]_vars PROVE TypeOK'
<1>1. ASSUME NEW c \in Conv, Work(c) PROVE TypeOK'
  BY <1>1, LoadType, NothingToDoType, SaveTurnType, SaveFullNameType, OnHandoffType,
     OnCapturedType, SyncReadType, SyncWriteType DEF Work
<1>2. ASSUME NEW c \in Conv, People(c) PROVE TypeOK'
  BY <1>2, TakeOverType, HandBackType, DropType, DragType, EditType, OpenByHandType,
     SetServicesType DEF People
<1>3. ASSUME UNCHANGED vars PROVE TypeOK'
  BY <1>3 DEF TypeOK, vars
<1> QED
  BY <1>1, <1>2, <1>3, InboundType, SweepType, TurnFailsType, CrashType, ContactsType DEF Next

\* Whatever the model calls, fails or dies, and whatever people do, also inside a
\* projection, the tables hold what their columns and CHECKs allow.
THEOREM TypeCorrect == Spec => []TypeOK
BY InitType, NextType, PTL DEF Spec


-----------------------------------------------------------------------------
(* The contact of the phone and the services of the card. *)

LEMMA NoneIsElsewhere ==
    None \notin Names /\ None \notin {"captured", "assigned"} /\ None \notin Won
BY NoneIsNothing, StagesAre DEF Won

\* A projection writes no stage of closing but the one of who was disqualified.
LEMMA TargetIsNotWon == ASSUME NEW c \in Conv PROVE Target(c) \notin Won
BY DEF Target, TargetStage, HumanStageByReason, IaStageByFunnel, Won

\* What is said of the contact when a projection has been read and not written.
LinkStands == \A c \in Conv : turn[c].pc = "write" => (turn[c].linked <=> contact # None)

CInv == TypeOK /\ CardsKnowContact /\ LinkStands

\* A step that leaves the contact, the cards and the half done projections.
LEMMA ContactApart ==
    ASSUME CInv, TypeOK', UNCHANGED <<contact, card>>,
           \A d \in Conv : turn'[d].pc = "write" => turn'[d] = turn[d]
    PROVE  CInv'
BY DEF CInv, CardsKnowContact, LinkStands, HasCard

LEMMA WorkContact ==
    ASSUME CInv, TypeOK', NEW c \in Conv,
           \/ Inbound(c) \/ Sweep(c) \/ Load(c) \/ NothingToDo(c) \/ SaveTurn(c)
           \/ SaveFullName(c) \/ OnHandoff(c) \/ OnCaptured(c) \/ TurnFails(c) \/ Crash(c)
    PROVE  CInv'
<1>1. turn \in [Conv -> Turn] /\ \A d \in Conv : DOMAIN turn[d] = TurnFields
  BY DEF CInv, TypeOK, Turn, TurnFields
<1>2. UNCHANGED <<contact, card>>
  BY DEF Inbound, Sweep, Load, NothingToDo, SaveTurn, SaveFullName, OnHandoff, OnCaptured,
         TurnFails, Crash, tables
<1> DEFINE Apart == turn'[c].pc # "write" /\ \A d \in Conv \ {c} : turn'[d] = turn[d]
<1>3. CASE UNCHANGED turn
  BY <1>2, <1>3, ContactApart
<1>4. CASE Apart
  <2>1. \A d \in Conv : turn'[d].pc = "write" => turn'[d] = turn[d]
    BY <1>4
  <2> QED
    BY <1>2, <2>1, ContactApart
<1>5. Inbound(c) \/ Sweep(c) => UNCHANGED turn
  BY DEF Inbound, Sweep
<1>6. Load(c) => Apart
  BY <1>1 DEF Load, TurnFields
<1>7. NothingToDo(c) => Apart
  BY <1>1 DEF NothingToDo, TurnFields
<1>8. ASSUME SaveTurn(c) PROVE Apart
  <2>1. PICK o : turn' = [turn EXCEPT ![c] = [Idle EXCEPT !.pc = Rest(o), !.reason = o.reason,
                                              !.slugs = o.slugs, !.name = o.name]]
    BY <1>8 DEF SaveTurn
  <2>2. Rest(o) # "write"
    BY RestIs
  <2> QED
    BY <1>1, <2>1, <2>2 DEF Idle
<1>9. SaveFullName(c) => Apart
  BY <1>1, RestIs DEF SaveFullName, TurnFields
<1>10. OnHandoff(c) => Apart
  BY <1>1, RestIs DEF OnHandoff, TurnFields
<1>11. OnCaptured(c) => Apart
  BY <1>1 DEF OnCaptured, TurnFields
<1>12. TurnFails(c) \/ Crash(c) => Apart
  BY <1>1 DEF TurnFails, Crash, Idle
<1> HIDE DEF Apart
<1> QED
  BY <1>3, <1>4, <1>5, <1>6, <1>7, <1>8, <1>9, <1>10, <1>11, <1>12

LEMMA SyncReadContact == ASSUME CInv, TypeOK', NEW c \in Conv, SyncRead(c) PROVE CInv'
<1>1. turn \in [Conv -> Turn] /\ DOMAIN turn[c] = TurnFields
  BY DEF CInv, TypeOK, Turn, TurnFields
<1>2. UNCHANGED <<contact, card>>
  BY DEF SyncRead, tables
<1>3. /\ turn'[c].linked = (contact # None)
      /\ \A d \in Conv \ {c} : turn'[d] = turn[d]
  BY <1>1 DEF SyncRead, TurnFields
<1> QED
  BY <1>2, <1>3 DEF CInv, CardsKnowContact, LinkStands, HasCard

LEMMA SyncWriteContact == ASSUME CInv, TypeOK', NEW c \in Conv, SyncWrite(c) PROVE CInv'
<1>1. /\ turn \in [Conv -> Turn] /\ card \in [Conv -> Card]
      /\ \A d \in Conv : HasCard(d) => (card[d].linked <=> contact # None)
      /\ turn[c].linked <=> contact # None
      /\ turn[c].linked \in BOOLEAN /\ card[c].linked \in BOOLEAN
  BY DEF CInv, TypeOK, CardsKnowContact, LinkStands, SyncWrite, Turn, Card
<1>2. UNCHANGED contact /\ turn' = [turn EXCEPT ![c] = Idle]
  BY DEF SyncWrite
<1>3. LinkStands'
  <2>1. \A d \in Conv : turn'[d].pc = "write" => turn'[d] = turn[d]
    BY <1>1, <1>2 DEF Idle
  <2> QED
    BY <1>2, <2>1 DEF CInv, LinkStands
<1>4. ASSUME NEW linked \in BOOLEAN, linked <=> contact # None,
             card' = [card EXCEPT ![c] = [stage |-> turn[c].target, linked |-> linked]]
      PROVE  CardsKnowContact'
  <2>1. card'[c].linked = linked /\ \A d \in Conv \ {c} : card'[d] = card[d]
    BY <1>1, <1>4
  <2> QED
    BY <1>1, <1>2, <1>4, <2>1 DEF CardsKnowContact, HasCard
<1>5. CardsKnowContact'
  <2>1. CASE Created(c) /\ Project(c, turn[c].target, turn[c].linked)
    BY <1>1, <1>4, <2>1 DEF Project
  <2>2. CASE Moved(c) /\ Project(c, turn[c].target, card[c].linked)
    BY <1>1, <1>4, <2>2 DEF Project, Moved
  <2>3. CASE UNCHANGED <<conv, card>>
    BY <1>1, <1>2, <2>3 DEF CardsKnowContact, HasCard
  <2> QED
    BY <2>1, <2>2, <2>3 DEF SyncWrite
<1> QED
  BY <1>3, <1>5 DEF CInv

\* What a person does, when no projection is half done.
LEMMA PeopleContact ==
    ASSUME CInv, TypeOK', ~Overlap, NEW c,
           (c \in Conv /\ People(c)) \/ SaveContact \/ DeleteContact
    PROVE  CInv'
<1>1. /\ card \in [Conv -> Card] /\ \A d \in Conv : DOMAIN card[d] = {"stage", "linked"}
      /\ \A d \in Conv : HasCard(d) => (card[d].linked <=> contact # None)
      /\ \A d \in Conv : conv[d].name \in Names
  BY DEF CInv, TypeOK, Card, Conversation, CardsKnowContact
<1>2. LinkStands'
  <2>1. UNCHANGED turn /\ \A d \in Conv : turn[d].pc # "write"
    BY DEF People, SaveContact, DeleteContact, TakeOver, HandBack, Drop, Drag, Edit, OpenByHand,
           SetServices, Act
  <2> QED
    BY <2>1 DEF LinkStands
<1>3. ASSUME TakeOver(c) \/ HandBack(c) \/ (\E n \in Typed : Edit(c, n))
             \/ (\E w \in SUBSET Service : SetServices(c, w))
      PROVE  CardsKnowContact'
  <2>1. UNCHANGED <<card, contact>>
    BY <1>3 DEF TakeOver, HandBack, Edit, SetServices
  <2> QED
    BY <2>1 DEF CInv, CardsKnowContact, HasCard
<1>4. ASSUME c \in Conv, Drop(c) PROVE CardsKnowContact'
  <2>1. /\ UNCHANGED contact /\ card'[c].stage = None
        /\ \A d \in Conv \ {c} : card'[d] = card[d]
    BY <1>1, <1>4 DEF Drop, NoCard
  <2> QED
    BY <2>1 DEF CInv, CardsKnowContact, HasCard
<1>5. ASSUME c \in Conv, NEW s \in Dragged, Drag(c, s) PROVE CardsKnowContact'
  <2>1. CASE s \in Won
    <3>1. /\ card' = [LinkAll(TRUE) EXCEPT ![c].stage = "Cerrado"]
          /\ contact' = Upsert(contact, conv[c].name) /\ HasCard(c)
      BY <1>5, <2>1 DEF Drag, Win
    <3>2. contact' # None
      BY <1>1, <1>5, <3>1, NoneIsElsewhere DEF Upsert
    <3>3. \A d \in Conv : HasCard(d) =>
             LinkAll(TRUE)[d].linked = TRUE /\ DOMAIN LinkAll(TRUE)[d] = {"stage", "linked"}
      BY <1>1 DEF LinkAll
    <3>4. \A d \in Conv : card'[d].stage # None => HasCard(d) /\ card'[d].linked = TRUE
      BY <3>1, <3>3 DEF LinkAll, HasCard
    <3> QED
      BY <3>2, <3>4 DEF CardsKnowContact, HasCard
  <2>2. CASE s \notin Won
    <3>1. /\ UNCHANGED contact /\ HasCard(c)
          /\ card'[c].linked = card[c].linked /\ \A d \in Conv \ {c} : card'[d] = card[d]
      BY <1>1, <1>5, <2>2 DEF Drag
    <3> QED
      BY <1>1, <3>1 DEF CardsKnowContact, HasCard
  <2> QED
    BY <2>1, <2>2
<1>6. ASSUME c \in Conv, NEW n \in Typed, OpenByHand(c, n) PROVE CardsKnowContact'
  <2>1. /\ UNCHANGED contact
        /\ \A d \in Conv : card'[d] = card[d] \/ card'[d].linked = (contact # None)
    BY <1>1, <1>6 DEF OpenByHand
  <2> QED
    BY <1>1, <2>1 DEF CardsKnowContact, HasCard
<1>7. ASSUME SaveContact PROVE CardsKnowContact'
  <2>1. contact' # None
    BY <1>7, NoneIsElsewhere DEF SaveContact, Names
  <2>2. \A d \in Conv : card'[d].stage # None => card'[d].linked = TRUE
    BY <1>1, <1>7 DEF SaveContact, LinkAll, HasCard
  <2> QED
    BY <2>1, <2>2 DEF CardsKnowContact, HasCard
<1>8. ASSUME DeleteContact PROVE CardsKnowContact'
  <2>1. \A d \in Conv : card'[d].stage # None => card'[d].linked = FALSE
    BY <1>1, <1>8 DEF DeleteContact, LinkAll, HasCard
  <2> QED
    BY <1>8, <2>1 DEF DeleteContact, CardsKnowContact, HasCard
<1> QED
  BY <1>2, <1>3, <1>4, <1>5, <1>6, <1>7, <1>8 DEF People, CInv

LEMMA NextContact == ASSUME CInv, ~Overlap, [Next]_vars PROVE CInv'
<1>1. TypeOK'
  BY NextType DEF CInv
<1>2. CASE UNCHANGED vars
  BY <1>1, <1>2, ContactApart DEF vars
<1>3. CASE Next
  BY <1>1, <1>3, WorkContact, SyncReadContact, SyncWriteContact, PeopleContact DEF Next, Work
<1> QED
  BY <1>2, <1>3

\* If no person acts inside a projection, the cards of a phone are linked exactly while it
\* has a contact: those that were there when it was made, those that come after and those
\* of a contact that was deleted (link_to_contact_by_phone, CardService.sync).
THEOREM CardsFollowContact == ASSUME ~Overlap PROVE Spec => []CardsKnowContact
<1>1. Init => CInv
  BY InitType DEF Init, CInv, CardsKnowContact, LinkStands, HasCard, NoCard, Idle
<1>2. CInv /\ [Next]_vars => CInv'
  BY NextContact
<1>3. CInv => CardsKnowContact
  BY DEF CInv
<1> QED
  BY <1>1, <1>2, <1>3, PTL DEF Spec


\* What the lead accepted stays on the card while there is one, whatever people assign to
\* it meanwhile (set_assigned, ServiceCaptureService).
THEOREM AcceptedServicesStay == Spec => CapturedStays
<1> DEFINE Stays(c, s) ==
      services[c][s] = "captured" /\ card'[c].stage # None => services'[c][s] = "captured"
<1>1. ASSUME TypeOK, [Next]_vars, NEW c \in Conv, NEW s \in Service PROVE Stays(c, s)
  <2> SUFFICES ASSUME services[c][s] = "captured", card'[c].stage # None
               PROVE  services'[c][s] = "captured"
    OBVIOUS
  <2>1. services \in [Conv -> [Service -> Source]] /\ card \in [Conv -> Card] /\ "captured" # None
    BY <1>1, NoneIsElsewhere DEF TypeOK
  <2>2. CASE UNCHANGED services
    BY <2>2
  <2>3. ASSUME NEW d \in Conv, OnCaptured(d) PROVE services'[c][s] = "captured"
    BY <2>1, <2>3 DEF OnCaptured
  <2>4. ASSUME NEW d \in Conv, Drop(d) PROVE services'[c][s] = "captured"
    BY <2>1, <2>4 DEF Drop, NoCard
  <2>5. ASSUME NEW d \in Conv, NEW w, SetServices(d, w) PROVE services'[c][s] = "captured"
    BY <2>1, <2>5 DEF SetServices, Reconcile
  <2>6. CASE SaveContact \/ DeleteContact
    BY <2>2, <2>6 DEF SaveContact, DeleteContact
  <2>7. ASSUME NEW d \in Conv, Work(d), ~OnCaptured(d) PROVE UNCHANGED services
    BY <2>7 DEF Work, Load, NothingToDo, SaveTurn, SaveFullName, OnHandoff, SyncRead, SyncWrite,
            tables
  <2>8. ASSUME NEW d \in Conv, Inbound(d) \/ Sweep(d) \/ TurnFails(d) \/ Crash(d)
        PROVE  UNCHANGED services
    BY <2>8 DEF Inbound, Sweep, TurnFails, Crash, tables
  <2>9. ASSUME NEW d \in Conv, NEW n, NEW stage,
               TakeOver(d) \/ HandBack(d) \/ Drag(d, stage) \/ Edit(d, n) \/ OpenByHand(d, n)
        PROVE  UNCHANGED services
    BY <2>9 DEF TakeOver, HandBack, Drag, Edit, OpenByHand
  <2> QED
    BY <1>1, <2>2, <2>3, <2>4, <2>5, <2>6, <2>7, <2>8, <2>9 DEF Next, People, vars
<1>2. TypeOK /\ [Next]_vars => [\A c \in Conv, s \in Service : Stays(c, s)]_vars
  BY <1>1
<1> QED
  BY <1>2, TypeCorrect, PTL DEF Spec, CapturedStays

-----------------------------------------------------------------------------
(* A won card has a contact with a name, unless somebody typed a blank one. *)

\* No name of blanks, and no projection that wins a card.
WInv == /\ TypeOK
        /\ \A c \in Conv : conv[c].name # "blank"
        /\ \A c \in Conv : turn[c].pc = "write" => turn[c].target \notin Won

LEMMA NextWon == ASSUME WInv, "blank" \notin Typed, [Next]_vars PROVE WInv'
<1>1. TypeOK'
  BY NextType DEF WInv
<1>2. /\ conv \in [Conv -> Conversation] /\ \A d \in Conv : DOMAIN conv[d] = ConvFields
      /\ turn \in [Conv -> Turn] /\ \A d \in Conv : DOMAIN turn[d] = TurnFields
  BY DEF WInv, TypeOK, Turn, Conversation, TurnFields, ConvFields
<1> DEFINE Clean == \A d \in Conv : conv'[d].name # "blank"
           Fair  == \A d \in Conv : turn'[d].pc = "write" => turn'[d].target \notin Won
<1>3. ASSUME \A d \in Conv : conv'[d].name = conv[d].name PROVE Clean
  BY <1>3 DEF WInv
<1>4. ASSUME NEW c \in Conv, turn'[c].pc # "write" \/ turn'[c].target \notin Won,
             \A d \in Conv \ {c} : turn'[d] = turn[d]
      PROVE  Fair
  BY <1>4 DEF WInv
<1>5. ASSUME UNCHANGED turn PROVE Fair
  BY <1>5 DEF WInv
<1>6. ASSUME UNCHANGED conv PROVE Clean
  BY <1>6 DEF WInv
<1> HIDE DEF Clean, Fair
<1>7. CASE UNCHANGED vars \/ SaveContact \/ DeleteContact
  <2>1. UNCHANGED <<conv, turn>>
    BY <1>7 DEF vars, SaveContact, DeleteContact
  <2> QED
    BY <1>1, <1>5, <1>6, <2>1 DEF WInv, Clean, Fair
<1>8. ASSUME NEW c \in Conv, Inbound(c) \/ Sweep(c) PROVE Clean /\ Fair
  <2>1. UNCHANGED turn /\ \A d \in Conv : conv'[d].name = conv[d].name
    BY <1>2, <1>8 DEF Inbound, Sweep, tables, ConvFields
  <2> QED
    BY <1>3, <1>5, <2>1
<1>9. ASSUME NEW c \in Conv, Load(c) \/ NothingToDo(c) PROVE Clean /\ Fair
  <2>1. UNCHANGED conv /\ turn'[c].pc # "write" /\ \A d \in Conv \ {c} : turn'[d] = turn[d]
    BY <1>2, <1>9 DEF Load, NothingToDo, tables, TurnFields
  <2> QED
    BY <1>4, <1>6, <2>1
<1>10. ASSUME NEW c \in Conv, SaveTurn(c) PROVE Clean /\ Fair
  <2>1. PICK o : /\ conv' = [conv EXCEPT ![c].stage = o.stage, ![c].ai = o.ai]
                 /\ turn' = [turn EXCEPT ![c] = [Idle EXCEPT !.pc = Rest(o), !.reason = o.reason,
                                                 !.slugs = o.slugs, !.name = o.name]]
    BY <1>10 DEF SaveTurn
  <2>2. turn'[c].pc # "write" /\ \A d \in Conv \ {c} : turn'[d] = turn[d]
    BY <1>2, <2>1, RestIs DEF Idle
  <2>3. \A d \in Conv : conv'[d].name = conv[d].name
    BY <1>2, <2>1 DEF ConvFields
  <2> QED
    BY <1>3, <1>4, <2>2, <2>3
<1>11. ASSUME NEW c \in Conv, SaveFullName(c) PROVE Clean /\ Fair
  <2>1. turn'[c].pc # "write" /\ \A d \in Conv \ {c} : turn'[d] = turn[d]
    BY <1>2, <1>11, RestIs DEF SaveFullName, TurnFields
  <2>2. \A d \in Conv : conv'[d].name \in {"named", conv[d].name}
    BY <1>2, <1>11 DEF SaveFullName, ConvFields
  <2> QED
    BY <1>4, <2>1, <2>2 DEF WInv, Clean
<1>12. ASSUME NEW c \in Conv, OnHandoff(c) \/ OnCaptured(c) PROVE Clean /\ Fair
  <2>1. turn'[c].pc # "write" /\ \A d \in Conv \ {c} : turn'[d] = turn[d]
    BY <1>2, <1>12, RestIs DEF OnHandoff, OnCaptured, TurnFields
  <2> QED
    BY <1>4, <1>6, <1>12, <2>1 DEF OnHandoff, OnCaptured
<1>13. ASSUME NEW c \in Conv, TurnFails(c) \/ Crash(c) PROVE Clean /\ Fair
  <2>1. UNCHANGED conv /\ turn'[c].pc # "write" /\ \A d \in Conv \ {c} : turn'[d] = turn[d]
    BY <1>2, <1>13 DEF TurnFails, Crash, Idle, tables
  <2> QED
    BY <1>4, <1>6, <2>1
<1>14. ASSUME NEW c \in Conv, SyncRead(c) PROVE Clean /\ Fair
  <2>1. /\ UNCHANGED conv /\ turn'[c].target = Target(c)
        /\ \A d \in Conv \ {c} : turn'[d] = turn[d]
    BY <1>2, <1>14 DEF SyncRead, tables, TurnFields
  <2> QED
    BY <1>4, <1>6, <2>1, TargetIsNotWon
<1>15. ASSUME NEW c \in Conv, SyncWrite(c) PROVE Clean /\ Fair
  <2>1. turn'[c].pc # "write" /\ \A d \in Conv \ {c} : turn'[d] = turn[d]
    BY <1>2, <1>15 DEF SyncWrite, Idle
  <2>2. \A d \in Conv : conv'[d].name = conv[d].name
    BY <1>2, <1>15 DEF SyncWrite, Project, ConvFields
  <2> QED
    BY <1>3, <1>4, <2>1, <2>2
<1>16. ASSUME NEW c \in Conv, TakeOver(c) \/ HandBack(c) \/ Drop(c) \/ (\E s \in Dragged : Drag(c, s))
       PROVE  Clean /\ Fair
  <2>1. UNCHANGED turn
    BY <1>16 DEF TakeOver, HandBack, Drop, Drag
  <2>2. ASSUME TakeOver(c) \/ Drop(c) PROVE \A d \in Conv : conv'[d].name = conv[d].name
    BY <1>2, <2>2 DEF TakeOver, Drop, ConvFields
  <2>4. ASSUME HandBack(c) PROVE \A d \in Conv : conv'[d].name = conv[d].name
    <3> DEFINE stage == Reopen(conv[c].stage, FALSE)
    <3>1. conv' = [conv EXCEPT ![c] = [conv[c] EXCEPT !.ai = TRUE, !.stage = stage]]
      BY <2>4 DEF HandBack
    <3> HIDE DEF stage
    <3> QED
      BY <1>2, <3>1 DEF ConvFields
  <2>3. ASSUME NEW s, Drag(c, s) PROVE \A d \in Conv : conv'[d].name = conv[d].name
    BY <1>2, <2>3 DEF Drag, ConvFields
  <2> QED
    BY <1>3, <1>5, <1>16, <2>1, <2>2, <2>3, <2>4
<1>17. ASSUME NEW c \in Conv, NEW n \in Typed, Edit(c, n) \/ OpenByHand(c, n) PROVE Clean /\ Fair
  <2>1. UNCHANGED turn /\ \A d \in Conv : conv'[d].name \in {n, conv[d].name}
    BY <1>2, <1>17 DEF Edit, OpenByHand, ConvFields
  <2> QED
    BY <1>5, <2>1 DEF WInv, Clean
<1>18. ASSUME NEW c \in Conv, NEW w, SetServices(c, w) PROVE Clean /\ Fair
  BY <1>5, <1>6, <1>18 DEF SetServices
<1>19. ASSUME Clean /\ Fair PROVE WInv'
  BY <1>1, <1>19 DEF WInv, Clean, Fair
<1> QED
  BY <1>7, <1>8, <1>9, <1>10, <1>11, <1>12, <1>13, <1>14, <1>15, <1>16, <1>17, <1>18, <1>19
  DEF Next, Work, People

\* If nobody types a name of blanks, an opportunity is won only with the lead in the
\* contacts, with a name, and its card linked to it, also when a projection is half done
\* (_ensure_lead_name, the won hook).
THEOREM WonHasAName == ASSUME "blank" \notin Typed PROVE Spec => WonIsNamed
<1> DEFINE Named(c) == card'[c].stage \in Won /\ card[c].stage \notin Won
                         => contact' = "named" /\ card'[c].linked
<1>1. ASSUME WInv, [Next]_vars, NEW c \in Conv PROVE Named(c)
  <2> SUFFICES ASSUME card'[c].stage \in Won, card[c].stage \notin Won
               PROVE  contact' = "named" /\ card'[c].linked = TRUE
    OBVIOUS
  <2>1. /\ card \in [Conv -> Card] /\ \A d \in Conv : DOMAIN card[d] = {"stage", "linked"}
        /\ \A d \in Conv : conv[d].name \in Names \ {"blank"}
        /\ contact \in Names \cup {None}
    BY <1>1 DEF WInv, TypeOK, Card, Conversation
  <2>2. ASSUME \A d \in Conv : card'[d].stage \in {card[d].stage, None, "Nuevo"} PROVE FALSE
    BY <2>2, NoneIsElsewhere DEF Won
  <2>3. ASSUME NEW d \in Conv, NEW s \in Dragged, Drag(d, s)
        PROVE  contact' = "named" /\ card'[c].linked = TRUE
    <3>1. CASE s \notin Won
      BY <2>1, <2>3, <3>1 DEF Drag
    <3>2. CASE s \in Won
      <4>1. /\ card' = [LinkAll(TRUE) EXCEPT ![d].stage = "Cerrado"] /\ Nameable(d) /\ HasCard(d)
            /\ contact' = Upsert(contact, conv[d].name)
        BY <2>3, <3>2 DEF Drag, Win
      <4>2. \A e \in Conv : LinkAll(TRUE)[e].stage = card[e].stage
        BY <2>1 DEF LinkAll
      <4>3. c = d
        BY <4>1, <4>2 DEF LinkAll
      <4>4. LinkAll(TRUE)[d].linked = TRUE /\ DOMAIN LinkAll(TRUE)[d] = {"stage", "linked"}
        BY <2>1, <4>1 DEF LinkAll
      <4>5. card'[c].linked = TRUE
        BY <4>1, <4>3, <4>4 DEF LinkAll
      <4>6. contact' = "named"
        BY <2>1, <4>1, NoneIsElsewhere DEF Upsert, Nameable, Names
      <4> QED
        BY <4>5, <4>6
    <3> QED
      BY <3>1, <3>2
  <2>4. ASSUME NEW d \in Conv, SyncWrite(d) PROVE FALSE
    <3>1. turn[d].target \notin Won
      BY <1>1, <2>4 DEF WInv, SyncWrite
    <3> QED
      BY <2>1, <2>4, <3>1 DEF SyncWrite, Project
  <2>5. ASSUME NEW d \in Conv, Work(d), ~SyncWrite(d) PROVE UNCHANGED card
    BY <2>5 DEF Work, Load, NothingToDo, SaveTurn, SaveFullName, OnHandoff, OnCaptured, SyncRead,
            tables
  <2>6. ASSUME NEW d \in Conv, NEW n, NEW w,
               \/ Inbound(d) \/ Sweep(d) \/ TurnFails(d) \/ Crash(d)
               \/ TakeOver(d) \/ HandBack(d) \/ Edit(d, n) \/ SetServices(d, w)
        PROVE  UNCHANGED card
    BY <2>6 DEF Inbound, Sweep, TurnFails, Crash, TakeOver, HandBack, Edit, SetServices, tables
  <2>7. ASSUME UNCHANGED card PROVE FALSE
    BY <2>2, <2>7
  <2>8. ASSUME NEW d \in Conv, NEW n, Drop(d) \/ OpenByHand(d, n) PROVE FALSE
    <3>1. \A e \in Conv : card'[e].stage \in {card[e].stage, None, "Nuevo"}
      BY <2>1, <2>8 DEF Drop, OpenByHand, NoCard
    <3> QED
      BY <2>2, <3>1
  <2>9. ASSUME SaveContact \/ DeleteContact PROVE FALSE
    <3>1. \A e \in Conv : card'[e].stage = card[e].stage
      BY <2>1, <2>9 DEF SaveContact, DeleteContact, LinkAll
    <3> QED
      BY <2>2, <3>1
  <2> QED
    BY <1>1, <2>3, <2>4, <2>5, <2>6, <2>7, <2>8, <2>9 DEF Next, People, vars
<1>2. WInv /\ [Next]_vars => [\A c \in Conv : Named(c)]_vars
  BY <1>1
<1>3. Init => WInv
  BY InitType DEF Init, WInv, NewConv, Idle
<1>4. WInv /\ [Next]_vars => WInv'
  BY NextWon
<1> QED
  BY <1>2, <1>3, <1>4, PTL DEF Spec, WonIsNamed
=============================================================================
