-------------------------- MODULE Fulfillment_proofs --------------------------
(***************************************************************************)
(* Proofs about Fulfillment, for any number of cards, requests at a time,  *)
(* events and seats, with and without faults.                              *)
(***************************************************************************)
EXTENDS Fulfillment, FiniteSetTheorems, TLAPS

-----------------------------------------------------------------------------
(* The pieces of a request keep their types. *)

\* The absence of a row is a row without a token.
LEMMA NoRowType == NoRow \in EntryRow /\ ~Exists(NoRow)
BY DEF NoRow, EntryRow, EventOrNone, Exists

\* A session that serves nobody is a request like any other.
LEMMA IdleType == Idle \in Request
<1>1. (CHOOSE c \in Card : TRUE) \in Card
  BY CardsAreNumbered
<1>2. [c \in Card |-> Unread] \in [Card -> CardView]
  BY DEF Unread, CardView, Stage
<1> QED
  BY <1>1, <1>2, NoRowType DEF Idle, Request, PC, EventOrNone, Flag, DeliveryFlags

\* A set of naturals has a least one: the intervals 0..x are finite sets, and
\* strict inclusion of finite sets is well founded.
LEMMA LeastNatural ==
    ASSUME NEW T \in SUBSET Nat, T # {}
    PROVE  \E x \in T : \A y \in T : x <= y
<1> DEFINE below == {0 .. x : x \in T}
           order == StrictSubsetOrdering(Nat)
<1>1. below \subseteq FiniteSubsetsOf(Nat)
  <2> SUFFICES ASSUME NEW x \in T PROVE 0 .. x \in FiniteSubsetsOf(Nat)
    OBVIOUS
  <2>1. IsFiniteSet(0 .. x)
    BY FS_Interval
  <2>2. 0 .. x \subseteq Nat
    OBVIOUS
  <2> QED
    BY <2>1, <2>2 DEF FiniteSubsetsOf
<1>2. below # {}
  OBVIOUS
<1>3. IsWellFoundedOn(order, FiniteSubsetsOf(Nat))
  BY FS_StrictSubsetOrderingWellFounded
<1> HIDE DEF below, order
<1>4. PICK s \in below : \A t \in below : ~(<<t, s>> \in order)
  BY <1>1, <1>2, <1>3, WFMin
<1> USE DEF below, order
<1>5. PICK x \in T : s = 0 .. x
  OBVIOUS
<1>6. ASSUME NEW y \in T, y < x PROVE FALSE
  <2>1. 0 .. y \in below
    OBVIOUS
  <2>2. 0 .. y \subseteq 0 .. x
    BY <1>6
  <2>3. x \in 0 .. x /\ x \notin 0 .. y
    BY <1>6
  <2>4. 0 .. x \subseteq Nat /\ 0 .. y \subseteq Nat
    OBVIOUS
  <2>5. <<0 .. y, 0 .. x>> \in StrictSubsetOrdering(Nat)
    BY <2>2, <2>3, <2>4 DEF StrictSubsetOrdering
  <2> QED
    BY <1>4, <1>5, <2>1, <2>5
<1>7. \A y \in T : x <= y
  BY <1>6
<1> QED
  BY <1>7

\* The next card of a request is one of those it still has to deliver.
LEMMA FirstInTodo ==
    ASSUME NEW todo \in SUBSET Card, todo # {}
    PROVE  (CHOOSE x \in todo : \A y \in todo : x <= y) \in todo
<1>1. \E x \in todo : \A y \in todo : x <= y
  BY LeastNatural, CardsAreNumbered
<1> QED
  BY <1>1

\* Going on ends the request or plans its next card, whose delivery starts
\* from nothing but what the transaction has open.
LEMMA ProceedType ==
    ASSUME NEW r \in Request
    PROVE  /\ Proceed(r) \in Request
           /\ Proceed(r).pc \in {"idle", "plan"}
           /\ ~Proceed(r).needs
           /\ \A c \in Card : Exists(Proceed(r).open[c]) => Proceed(r).open[c] = r.open[c]
<1>1. CASE r.todo = {}
  BY <1>1, IdleType, NoRowType DEF Proceed, Idle
<1>2. CASE r.todo # {}
  <2> DEFINE c == CHOOSE x \in r.todo : \A y \in r.todo : x <= y
             snap == [r.snap EXCEPT ![r.card] = Unread]
             s == [Idle EXCEPT !.pc = "plan", !.card = c, !.todo = r.todo \ {c},
                               !.snap = snap, !.open = r.open, !.key = r.key]
  <2>1. c \in Card
    BY <1>2, FirstInTodo DEF Request
  <2>2. snap \in [Card -> CardView]
    BY DEF Request, Unread, CardView, Stage
  <2>3. Proceed(r) = s
    BY <1>2 DEF Proceed
  <2> HIDE DEF c, snap
  <2>4. s.pc = "plan" /\ s.needs = FALSE /\ s.open = r.open
    BY DEF Idle
  <2>5. /\ "plan" \in PC /\ r.todo \ {c} \in SUBSET Card
        /\ r.open \in [Card -> EntryRow] /\ r.key \in SUBSET Card
    BY DEF Request, PC
  <2>6. s \in Request
    BY <2>1, <2>2, <2>5, IdleType DEF Request
  <2> QED
    BY <2>3, <2>4, <2>6
<1> QED
  BY <1>1, <1>2

\* Committing empties the transaction of a request and nothing else.
LEMMA CommittedType ==
    ASSUME NEW r \in Request
    PROVE  /\ Committed(r) \in Request
           /\ \A c \in Card : ~Exists(Committed(r).open[c])
           /\ Committed(r).card = r.card /\ Committed(r).needs = r.needs
           /\ Committed(r).row = r.row /\ Committed(r).snap = r.snap
           /\ Committed(r).button = r.button /\ Committed(r).pc = r.pc
BY NoRowType DEF Committed, Request

\* session.commit() keeps the types of what it publishes.
LEMMA CommitType ==
    ASSUME TypeOK, NEW p \in Session, Commit(p)
    PROVE  entry' \in [Card -> EntryRow] /\ templated' \subseteq Card
BY DEF TypeOK, Request, Commit

\* CardDeliveryRepository.set_flags keeps the cards typed.
LEMMA SetFlagsType ==
    ASSUME TypeOK, NEW p \in Session, NEW flags \in SUBSET Flag, SetFlags(p, flags)
    PROVE  card' \in [Card -> CardRow]
<1> DEFINE c == session[p].card
<1>1. c \in Card
  BY DEF TypeOK, Request
<1>2. card[c] \in CardRow
  BY <1>1 DEF TypeOK
<1>3. [card[c] EXCEPT !.flags = flags] \in CardRow
  BY <1>2 DEF CardRow
<1>4. [card EXCEPT ![c].flags = flags] \in [Card -> CardRow]
  BY <1>1, <1>3 DEF TypeOK
<1> QED
  BY <1>4 DEF SetFlags, TypeOK

\* A card that somebody moves.
LEMMA MovedType ==
    ASSUME TypeOK, NEW c \in Card, NEW stage \in Stage, NEW by \in {"user", "system"}
    PROVE  [card EXCEPT ![c].stage = stage, ![c].by = by] \in [Card -> CardRow]
<1>1. card[c] \in CardRow
  BY DEF TypeOK
<1>2. [card[c] EXCEPT !.stage = stage, !.by = by] \in CardRow
  BY <1>1 DEF CardRow
<1>3. [card EXCEPT ![c].stage = stage, ![c].by = by]
          = [card EXCEPT ![c] = [card[c] EXCEPT !.stage = stage, !.by = by]]
  BY DEF TypeOK
<1> QED
  BY <1>2, <1>3 DEF TypeOK

\* What reaches a lead keeps its type.
LEMMA ReceiveType ==
    ASSUME TypeOK, NEW p \in Session, Receive(p)
    PROVE  lead' \in [Card -> [tokens : SUBSET Nat, served : BOOLEAN, notices : Nat]]
<1> DEFINE c == session[p].card
           old == lead[c]
           tokens == IF session[p].needs THEN old.tokens \cup {session[p].row.token}
                                         ELSE old.tokens
<1>1. c \in Card /\ session[p].row.token \in Nat
  BY DEF TypeOK, Request, EntryRow
<1>2. old \in [tokens : SUBSET Nat, served : BOOLEAN, notices : Nat]
  BY <1>1 DEF TypeOK
<1>3. lead' = [lead EXCEPT ![c] = [old EXCEPT !.served = TRUE, !.tokens = tokens]]
  BY DEF Receive, TypeOK
<1>4. tokens \in SUBSET Nat
  BY <1>1, <1>2
<1> HIDE DEF tokens
<1>5. [old EXCEPT !.served = TRUE, !.tokens = tokens]
          \in [tokens : SUBSET Nat, served : BOOLEAN, notices : Nat]
  BY <1>2, <1>4
<1> QED
  BY <1>3, <1>5 DEF TypeOK

-----------------------------------------------------------------------------
(* Type correctness. *)

\* The types hold at the start.
LEMMA TypeInit == Init => TypeOK
<1> SUFFICES ASSUME Init PROVE TypeOK
  OBVIOUS
<1>1. card \in [Card -> CardRow]
  BY DEF Init, CardRow, Stage, Flag, DeliveryFlags
<1>2. session \in [Session -> Request]
  BY IdleType DEF Init
<1>3. entry \in [Card -> EntryRow]
  BY NoRowType DEF Init
<1> QED
  BY <1>1, <1>2, <1>3 DEF Init, TypeOK

\* A step of one request.
LEMMA StepOf ==
    ASSUME TypeOK, NEW p \in Session, NEW s \in Request,
           session' = [session EXCEPT ![p] = s]
    PROVE  /\ session' \in [Session -> Request]
           /\ session'[p] = s
           /\ \A q \in Session \ {p} : session'[q] = session[q]
BY DEF TypeOK

\* A request goes to its next step with no more than that.
LEMMA GotoType ==
    ASSUME TypeOK, NEW p \in Session, NEW pc \in PC, Goto(p, pc)
    PROVE  session' \in [Session -> Request]
<1>1. session[p] \in Request
  BY DEF TypeOK
<1>2. [session[p] EXCEPT !.pc = pc] \in Request
  BY <1>1 DEF Request
<1>3. session' = [session EXCEPT ![p] = [session[p] EXCEPT !.pc = pc]]
  BY DEF Goto, TypeOK
<1> QED
  BY <1>2, <1>3, StepOf

\* A request that begins is typed if what it reads is.
LEMMA BeginType ==
    ASSUME TypeOK, NEW p \in Session, NEW cards \in SUBSET Card,
           NEW view \in [Card -> CardView], NEW button \in BOOLEAN,
           Begin(p, cards, view, button)
    PROVE  session' \in [Session -> Request] /\ requests' \in Nat
<1> DEFINE start == Proceed([Idle EXCEPT !.todo = cards])
<1>1. [Idle EXCEPT !.todo = cards] \in Request
  BY IdleType DEF Request
<1>2. start \in Request
  BY <1>1, ProceedType
<1> HIDE DEF start
<1>3. [start EXCEPT !.snap = view, !.button = button] \in Request
  BY <1>2 DEF Request
<1> USE DEF start
<1>4. session' = [session EXCEPT ![p] = IF cards = {} THEN Idle
                      ELSE [start EXCEPT !.snap = view, !.button = button]]
  BY DEF Begin
<1>5. session' \in [Session -> Request]
  BY <1>3, <1>4, IdleType DEF TypeOK
<1> QED
  BY <1>5 DEF Begin, TypeOK

\* What a request reads of its only card when it begins.
LEMMA ViewType ==
    ASSUME NEW c \in Card, NEW v \in CardView
    PROVE  [x \in Card |-> IF x = c THEN v ELSE Unread] \in [Card -> CardView]
BY DEF Unread, CardView, Stage

\* What a request reads of a card has the type of such a reading.
LEMMA FreshType ==
    ASSUME TypeOK, NEW c \in Card
    PROVE  Fresh(c) \in CardView
BY DEF TypeOK, CardRow, CardView, Fresh

\* The actions that begin a request keep the types.
LEMMA TypeBegin ==
    ASSUME TypeOK, NEW p \in Session,
           \/ \E c \in Card, by \in {"user", "system"} : Validate(p, c, by)
           \/ \E c \in Card : RetryOnInbound(p, c)
           \/ \E v \in Event, status \in {"open", "shut"} : EditEvent(p, v, status)
           \/ \E c \in Card : GenerateEntry(p, c)
    PROVE  TypeOK'
<1>1. ASSUME NEW c \in Card, NEW by \in {"user", "system"}, Validate(p, c, by)
      PROVE TypeOK'
  <2> DEFINE v == [stage |-> "PAYMENT_VALIDATED", flags |-> card[c].flags]
  <2>1. v \in CardView
    BY DEF TypeOK, CardRow, CardView, Stage
  <2>2. session' \in [Session -> Request] /\ requests' \in Nat
    BY <1>1, <2>1, ViewType, BeginType DEF Validate
  <2>3. card' \in [Card -> CardRow]
    <3>1. "PAYMENT_VALIDATED" \in Stage
      BY DEF Stage
    <3> QED
      BY <1>1, <3>1, MovedType DEF Validate, TypeOK
  <2> QED
    BY <1>1, <2>2, <2>3 DEF Validate, TypeOK
<1>2. ASSUME NEW c \in Card, RetryOnInbound(p, c) PROVE TypeOK'
  <2>1. session' \in [Session -> Request] /\ requests' \in Nat
    BY <1>2, FreshType, ViewType, BeginType DEF RetryOnInbound
  <2> QED
    BY <1>2, <2>1 DEF RetryOnInbound, TypeOK
<1>3. ASSUME NEW v \in Event, NEW status \in {"open", "shut"}, EditEvent(p, v, status)
      PROVE TypeOK'
  <2>1. \A T \in SUBSET Card :
            [x \in Card |-> IF x \in T THEN Fresh(x) ELSE Unread] \in [Card -> CardView]
    BY FreshType DEF Unread, CardView, Stage
  <2>2. session' \in [Session -> Request] /\ requests' \in Nat
    BY <1>3, <2>1, BeginType DEF EditEvent
  <2> QED
    BY <1>3, <2>2 DEF EditEvent, TypeOK
<1>4. ASSUME NEW c \in Card, GenerateEntry(p, c) PROVE TypeOK'
  <2>1. session' \in [Session -> Request] /\ requests' \in Nat
    BY <1>4, FreshType, ViewType, BeginType DEF GenerateEntry
  <2> QED
    BY <1>4, <2>1 DEF GenerateEntry, TypeOK
<1> QED
  BY <1>1, <1>2, <1>3, <1>4

\* Ends, blocks and goes on: what the steps below assign to a request.
LEMMA BlockedType ==
    ASSUME TypeOK, NEW p \in Session, NEW flag \in Flag, Blocked(p, flag)
    PROVE  session' \in [Session -> Request]
<1>1. session[p] \in Request
  BY DEF TypeOK
<1>2. [session[p] EXCEPT !.pc = "notify", !.flag = flag] \in Request
  BY <1>1 DEF Request, PC
<1>3. PICK s \in Request : session' = [session EXCEPT ![p] = s]
  BY <1>2, IdleType DEF Blocked, TypeOK
<1> QED
  BY <1>3, StepOf

\* A delivery that raises leaves a typed request.
LEMMA RaiseType ==
    ASSUME TypeOK, NEW p \in Session, Raise(p)
    PROVE  session' \in [Session -> Request]
BY ProceedType, IdleType DEF Raise, TypeOK

\* The avisos of a delivery are in the vocabulary of card_flags.
LEMMA FlagTypes ==
    /\ \A kind \in Kinds : Blocking(kind) \subseteq Flag /\ Warnings(kind) \subseteq Flag
    /\ {"no_event", "capacity_full", "delivery_pending", "needs_name"} \subseteq Flag
    /\ \A old, new \in SUBSET Flag : ReplaceDeliveryFlags(old, new) \in SUBSET Flag
BY KindsAreKnown DEF Blocking, Warnings, Flag, DeliveryFlags, ReplaceDeliveryFlags

\* Planning keeps the types.
LEMMA TypePlan ==
    ASSUME TypeOK, NEW p \in Session, Plan(p)
    PROVE  TypeOK'
<1> DEFINE r == session[p]
           c == r.card
           k == card[c].kind
<1> SUFFICES session' \in [Session -> Request]
  BY DEF Plan, TypeOK, world
<1>1. r \in Request /\ c \in Card /\ k \in Kinds /\ entry[c] \in EntryRow
  BY DEF TypeOK, Request, CardRow
<1>2. CASE session' = [session EXCEPT ![p] = Proceed(r)]
  BY <1>1, <1>2, ProceedType, StepOf
<1>3. CASE \E flag \in Blocking(k) : Blocked(p, flag)
  BY <1>1, <1>3, FlagTypes, BlockedType
<1>4. CASE PlanVirtual(p)
  <2>1. /\ [r EXCEPT !.pc = "insert", !.needs = TRUE] \in Request
        /\ [r EXCEPT !.pc = "send"] \in Request
    BY <1>1 DEF Request, PC
  <2>2. \/ session' = [session EXCEPT ![p] = [r EXCEPT !.pc = "insert", !.needs = TRUE]]
        \/ session' = [session EXCEPT ![p] = [r EXCEPT !.pc = "send"]]
    BY <1>4 DEF PlanVirtual, TypeOK
  <2> QED
    BY <2>1, <2>2, StepOf
<1>5. CASE Resend(p)
  <2> DEFINE s == [r EXCEPT !.pc = "send", !.needs = TRUE, !.row = entry[c],
                            !.event = entry[c].event, !.warnings = Warnings(k)]
  <2>1. s \in Request
    <3>1. Warnings(k) \subseteq Flag /\ entry[c].event \in EventOrNone
      BY <1>1, FlagTypes DEF EntryRow
    <3> QED
      BY <1>1, <3>1 DEF Request, PC
  <2>2. session' = [session EXCEPT ![p] = s]
    BY <1>5 DEF Resend
  <2> QED
    BY <2>1, <2>2, StepOf
<1>6. CASE \E v \in Current : Gate(p, v)
  <2>1. PICK v \in Current : Gate(p, v)
    BY <1>6
  <2>2. v \in EventOrNone
    BY DEF Current, EventOrNone
  <2> DEFINE s == [r EXCEPT !.pc = "insert", !.needs = TRUE, !.event = v,
                            !.warnings = Warnings(k)]
  <2>3. s \in Request
    <3>1. Warnings(k) \subseteq Flag
      BY <1>1, FlagTypes
    <3> QED
      BY <1>1, <2>2, <3>1 DEF Request, PC
  <2>4. \/ Blocked(p, "no_event") \/ Blocked(p, "capacity_full")
        \/ session' = [session EXCEPT ![p] = s]
    BY <2>1 DEF Gate
  <2> QED
    BY <2>3, <2>4, StepOf, FlagTypes, BlockedType
<1> QED
  BY <1>2, <1>3, <1>4, <1>5, <1>6 DEF Plan

\* The steps that only take the request further.
LEMMA TypeOnward ==
    ASSUME TypeOK, NEW p \in Session,
           Insert(p) \/ SendOutsideWindow(p) \/ Claim(p)
    PROVE  TypeOK'
<1> DEFINE r == session[p]
           c == r.card
<1>1. r \in Request /\ c \in Card /\ entry[c] \in EntryRow
  BY DEF TypeOK, Request
<1>2. /\ [r EXCEPT !.pc = "send", !.row = entry[c]] \in Request
      /\ [r EXCEPT !.pc = "flush"] \in Request
  BY <1>1 DEF Request, PC
<1>3. /\ [r EXCEPT !.pc = "template"] \in Request
      /\ [r EXCEPT !.pc = "block", !.flag = "delivery_pending"] \in Request
  BY <1>1, FlagTypes DEF Request, PC
<1>4. [r EXCEPT !.pc = "move", !.key = @ \cup {c}] \in Request
  BY <1>1 DEF Request, PC
<1>5. session' \in [Session -> Request]
  <2>1. CASE Insert(p)
    BY <1>2, <2>1, StepOf DEF Insert
  <2>2. CASE SendOutsideWindow(p)
    BY <1>3, <2>2, IdleType, StepOf DEF SendOutsideWindow
  <2>3. CASE Claim(p)
    BY <1>4, <2>3, IdleType, StepOf DEF Claim
  <2> QED
    BY <2>1, <2>2, <2>3
<1> QED
  BY <1>5 DEF Insert, SendOutsideWindow, Claim, TypeOK, world

\* Inserting the entry keeps the types.
LEMMA TypeFlush ==
    ASSUME TypeOK, NEW p \in Session, Flush(p)
    PROVE  TypeOK'
<1> DEFINE r   == session[p]
           c   == r.card
           row == [token |-> minted[c] + 1, event |-> r.event, revoked |-> FALSE]
           s   == [r EXCEPT !.pc = "send", !.row = row, !.open[c] = row]
<1>1. r \in Request /\ c \in Card /\ minted[c] \in Nat
  BY DEF TypeOK, Request
<1>2. row \in EntryRow
  BY <1>1 DEF EntryRow, Request
<1>3. s \in Request
  <2> HIDE DEF row
  <2> QED
    BY <1>1, <1>2 DEF Request, PC
<1>4. session' \in [Session -> Request]
  BY <1>3, IdleType, StepOf DEF Flush
<1> QED
  BY <1>1, <1>4 DEF Flush, TypeOK

\* The steps that send.
LEMMA TypeSend ==
    ASSUME TypeOK, NEW p \in Session,
           \/ SendDelivered(p) \/ SendFails(p) \/ SendTemplate(p) \/ TemplateNotSent(p)
           \/ Notify(p)
    PROVE  TypeOK'
<1> DEFINE r == session[p]
<1>1. r \in Request /\ r.card \in Card
  BY DEF TypeOK, Request
<1>2. CASE SendDelivered(p)
  BY <1>2, ReceiveType, GotoType DEF SendDelivered, PC, TypeOK, world
<1>3. CASE SendFails(p)
  BY <1>3, ReceiveType, RaiseType DEF SendFails, TypeOK, world
<1>4. CASE SendTemplate(p)
  BY <1>4, ReceiveType, GotoType DEF SendTemplate, PC, TypeOK, world
<1>5. CASE TemplateNotSent(p)
  <2>1. [r EXCEPT !.pc = "block", !.flag = "delivery_pending"] \in Request
    BY <1>1, FlagTypes DEF Request, PC
  <2>2. session' = [session EXCEPT ![p] =
                        [r EXCEPT !.pc = "block", !.flag = "delivery_pending"]]
    BY <1>5 DEF TemplateNotSent, TypeOK
  <2> QED
    BY <1>5, <2>1, <2>2, ReceiveType, StepOf DEF TemplateNotSent, TypeOK, world
<1>6. CASE Notify(p)
  <2>1. session' \in [Session -> Request]
    BY <1>6, GotoType DEF Notify, PC
  <2>2. lead' \in [Card -> [tokens : SUBSET Nat, served : BOOLEAN, notices : Nat]]
    BY <1>1, <1>6 DEF Notify, TypeOK
  <2> QED
    BY <1>6, <2>1, <2>2 DEF Notify, TypeOK, world
<1> QED
  BY <1>2, <1>3, <1>4, <1>5, <1>6

\* The steps that commit.
LEMMA TypeCommits ==
    ASSUME TypeOK, NEW p \in Session,
           Note(p) \/ Block(p) \/ Record(p) \/ Move(p)
    PROVE  TypeOK'
<1> DEFINE r == session[p]
           c == r.card
<1>1. r \in Request /\ c \in Card /\ r.snap[c] \in CardView
  BY DEF TypeOK, Request
<1>2. /\ Committed(r) \in Request /\ Committed(r).snap = r.snap
  BY <1>1, CommittedType
<1>3. CASE Note(p) \/ Record(p)
  <2>1. \A pc \in PC : [Committed(r) EXCEPT !.pc = pc] \in Request
    BY <1>2 DEF Request
  <2>2. session' \in [Session -> Request]
    BY <1>3, <2>1, StepOf DEF Note, Record, PC
  <2> QED
    BY <1>1, <1>3, <2>2, CommitType DEF Note, Record, TypeOK, world
<1>4. CASE Block(p)
  <2>1. session' \in [Session -> Request]
    BY <1>2, <1>4, ProceedType, StepOf DEF Block
  <2>2. ReplaceDeliveryFlags(r.snap[c].flags, {r.flag}) \in SUBSET Flag
    BY <1>1, FlagTypes DEF Request, CardView
  <2>3. card' \in [Card -> CardRow]
    BY <1>4, <2>2, SetFlagsType DEF Block
  <2> QED
    BY <1>4, <2>1, <2>3, CommitType DEF Block, TypeOK, world
<1>5. CASE Move(p)
  <2> DEFINE by == IF r.button THEN "user" ELSE "system"
             s  == [Committed(r) EXCEPT !.pc = "clear", !.snap[c].stage = "DELIVERED"]
  <2>1. "DELIVERED" \in Stage /\ by \in {"user", "system"}
    BY DEF Stage
  <2>2. card' \in [Card -> CardRow]
    BY <1>1, <1>5, <2>1, MovedType DEF Move
  <2>3. s \in Request
    <3>1. [r.snap[c] EXCEPT !.stage = "DELIVERED"] \in CardView
      BY <1>1, <2>1 DEF CardView
    <3>2. [r.snap EXCEPT ![c] = [r.snap[c] EXCEPT !.stage = "DELIVERED"]]
              \in [Card -> CardView]
      BY <1>1, <3>1 DEF Request
    <3>3. s = [Committed(r) EXCEPT !.pc = "clear",
                  !.snap = [r.snap EXCEPT ![c] = [r.snap[c] EXCEPT !.stage = "DELIVERED"]]]
      BY <1>1, <1>2 DEF Request
    <3> HIDE DEF s
    <3> QED
      BY <1>2, <3>2, <3>3 DEF Request, PC
  <2>4. session' \in [Session -> Request]
    BY <1>5, <2>3, IdleType, StepOf DEF Move
  <2> QED
    BY <1>5, <2>2, <2>4, CommitType DEF Move, TypeOK, world
<1> QED
  BY <1>3, <1>4, <1>5

\* Replacing the avisos after a delivery keeps the types.
LEMMA TypeClear ==
    ASSUME TypeOK, NEW p \in Session, Clear(p)
    PROVE  TypeOK'
<1> DEFINE r     == session[p]
           c     == r.card
           flags == ReplaceDeliveryFlags(r.snap[c].flags, r.warnings)
           s     == [r EXCEPT !.pc = "close", !.snap[c].flags = flags]
<1>1. r \in Request /\ c \in Card /\ r.snap[c] \in CardView
  BY DEF TypeOK, Request
<1>2. flags \in SUBSET Flag
  BY <1>1, FlagTypes DEF Request, CardView
<1>3. card' \in [Card -> CardRow]
  BY <1>2, SetFlagsType DEF Clear
<1>4. s \in Request
  <2> HIDE DEF flags
  <2>1. [r.snap[c] EXCEPT !.flags = flags] \in CardView
    BY <1>1, <1>2 DEF CardView
  <2>2. [r.snap EXCEPT ![c] = [r.snap[c] EXCEPT !.flags = flags]] \in [Card -> CardView]
    BY <1>1, <2>1 DEF Request
  <2>3. s = [r EXCEPT !.pc = "close",
                 !.snap = [r.snap EXCEPT ![c] = [r.snap[c] EXCEPT !.flags = flags]]]
    BY <1>1 DEF Request
  <2> HIDE DEF s
  <2> QED
    BY <1>1, <2>2, <2>3 DEF Request, PC
<1>5. session' \in [Session -> Request]
  BY <1>4, StepOf DEF Clear
<1> QED
  BY <1>3, <1>5 DEF Clear, TypeOK, world

\* Closing as won keeps the types.
LEMMA TypeClose ==
    ASSUME TypeOK, NEW p \in Session, Close(p)
    PROVE  TypeOK'
<1> DEFINE r == session[p]
           c == r.card
<1>1. r \in Request /\ c \in Card /\ r.snap[c] \in CardView
  BY DEF TypeOK, Request
<1>2. session' \in [Session -> Request]
  BY <1>1, ProceedType, StepOf DEF Close
<1>3. r.snap[c].flags \cup {"needs_name"} \in SUBSET Flag
  BY <1>1, FlagTypes DEF CardView
<1>4. "CLOSED" \in Stage
  BY DEF Stage
<1>5. card' \in [Card -> CardRow]
  <2>1. CASE c \in Named
    <3>1. card' = [card EXCEPT ![c].stage = "CLOSED", ![c].by = "system"]
      BY <2>1 DEF Close
    <3> QED
      BY <1>1, <1>4, <3>1, MovedType
  <2>2. CASE c \notin Named
    <3>1. SetFlags(p, r.snap[c].flags \cup {"needs_name"})
      BY <2>2 DEF Close
    <3> QED
      BY <1>3, <3>1, SetFlagsType
  <2> QED
    BY <2>1, <2>2
<1> QED
  BY <1>2, <1>5 DEF Close, TypeOK, world

\* What others do to the cards, the agenda and the payments; a crash.
LEMMA TypeElsewhere ==
    ASSUME TypeOK,
           \/ \E c \in Card, stage \in Stage : Drag(c, stage)
           \/ \E c \in Card, kind \in Kinds : SetService(c, kind)
           \/ \E c \in Card : Reject(c) \/ ExtraReceipt(c)
           \/ \E v \in Event : EventEnds(v) \/ DeleteEvent(v)
           \/ \E p \in Session : Crash(p)
    PROVE  TypeOK'
<1>1. ASSUME NEW c \in Card, NEW stage \in Stage, Drag(c, stage) PROVE TypeOK'
  BY <1>1, MovedType DEF Drag, TypeOK, world
<1>2. ASSUME NEW c \in Card, NEW kind \in Kinds, SetService(c, kind) PROVE TypeOK'
  <2>1. [card[c] EXCEPT !.kind = kind] \in CardRow
    BY DEF TypeOK, CardRow
  <2>2. card' \in [Card -> CardRow]
    BY <1>2, <2>1 DEF SetService, TypeOK
  <2> QED
    BY <1>2, <2>2 DEF SetService, TypeOK, world
<1>3. ASSUME NEW c \in Card, Reject(c) PROVE TypeOK'
  <2>1. "HUMAN_LOST" \in Stage
    BY DEF Stage
  <2>2. card' \in [Card -> CardRow]
    BY <1>3, <2>1, MovedType DEF Reject, TypeOK
  <2>3. entry' \in [Card -> EntryRow]
    BY <1>3 DEF Reject, TypeOK, EntryRow
  <2> QED
    BY <1>3, <2>2, <2>3 DEF Reject, TypeOK
<1>4. ASSUME NEW c \in Card, ExtraReceipt(c) PROVE TypeOK'
  <2>1. [card[c] EXCEPT !.flags = @ \cup {"extra_receipt"}] \in CardRow
    BY DEF TypeOK, CardRow, Flag
  <2>2. card' \in [Card -> CardRow]
    BY <1>4, <2>1 DEF ExtraReceipt, TypeOK
  <2> QED
    BY <1>4, <2>2 DEF ExtraReceipt, TypeOK, world
<1>5. ASSUME NEW v \in Event, EventEnds(v) PROVE TypeOK'
  BY <1>5 DEF EventEnds, TypeOK
<1>6. ASSUME NEW v \in Event, DeleteEvent(v) PROVE TypeOK'
  <2>1. entry' \in [Card -> EntryRow]
    BY <1>6 DEF DeleteEvent, TypeOK, EntryRow, EventOrNone
  <2> QED
    BY <1>6, <2>1 DEF DeleteEvent, TypeOK
<1>7. ASSUME NEW p \in Session, Crash(p) PROVE TypeOK'
  BY <1>7, IdleType, StepOf DEF Crash, TypeOK, world
<1> QED
  BY <1>1, <1>2, <1>3, <1>4, <1>5, <1>6, <1>7

\* Every step keeps the types.
LEMMA TypeStep == TypeOK /\ [Next]_vars => TypeOK'
<1> SUFFICES ASSUME TypeOK, [Next]_vars PROVE TypeOK'
  OBVIOUS
<1>1. CASE UNCHANGED vars
  BY <1>1 DEF vars, TypeOK
<1>2. ASSUME NEW p \in Session, Work(p) PROVE TypeOK'
  BY <1>2, TypePlan, TypeOnward, TypeFlush, TypeSend, TypeCommits, TypeClear, TypeClose
     DEF Work
<1> QED
  BY <1>1, <1>2, TypeBegin, TypeElsewhere DEF Next

\* Every behaviour keeps the types: no aviso outside the vocabulary of
\* card_flags, no stage outside the funnel, and every request at a known step.
THEOREM TypeCorrect == Spec => []TypeOK
<1> QED
  BY TypeInit, TypeStep, PTL DEF Spec

-----------------------------------------------------------------------------
(* Send first, move later.                                                 *)
(*                                                                         *)
(* ServedBeforeAdvanced is not inductive: that a request about to move its *)
(* card has served the lead is ServedByThen, and the two are, together.    *)

Late == {"claim", "record", "move", "clear", "close"}

ServedStays == \A c \in Card : lead[c].served => lead'[c].served

\* A sending serves its lead and takes nothing from the others.
LEMMA ReceiveServes ==
    ASSUME TypeOK, NEW p \in Session, Receive(p)
    PROVE  ServedStays /\ lead'[session[p].card].served
<1>1. session[p].card \in Card
  BY DEF TypeOK, Request
<1> QED
  BY <1>1 DEF TypeOK, Receive, ServedStays

\* A request that takes a step owes its lead nothing new.
LEMMA LateStep ==
    ASSUME TypeOK, ServedByThen, ServedStays, NEW p \in Session, NEW s,
           session' = [session EXCEPT ![p] = s],
           s.pc \in Late => lead'[s.card].served
    PROVE  ServedByThen'
<1> SUFFICES ASSUME NEW q \in Session, session'[q].pc \in Late
             PROVE  lead'[session'[q].card].served
  BY DEF ServedByThen, Late
<1>1. CASE q = p
  BY <1>1 DEF TypeOK
<1>2. CASE q # p
  <2>1. session'[q] = session[q] /\ session[q].card \in Card
    BY <1>2 DEF TypeOK, Request
  <2> QED
    BY <2>1 DEF ServedByThen, ServedStays, Late
<1> QED
  BY <1>1, <1>2

\* Going on with the next card is not a step past the sending.
LEMMA ProceedNotLate ==
    ASSUME NEW r \in Request
    PROVE  Proceed(r).pc \notin Late /\ Idle.pc \notin Late
BY ProceedType DEF Late, Idle

\* A request that begins owes its lead nothing.
LEMMA BeginServed ==
    ASSUME TypeOK, ServedByThen, UNCHANGED lead, NEW p \in Session,
           NEW cards \in SUBSET Card, NEW view, NEW button, Begin(p, cards, view, button)
    PROVE  ServedByThen'
<1> DEFINE r     == [Idle EXCEPT !.todo = cards]
           start == Proceed(r)
           s     == IF cards = {} THEN Idle
                    ELSE [start EXCEPT !.snap = view, !.button = button]
<1>1. r \in Request
  BY IdleType DEF Request
<1>2. start.pc \notin Late /\ Idle.pc \notin Late /\ start \in Request
  BY <1>1, ProceedNotLate, ProceedType
<1> HIDE DEF start
<1>3. s.pc \notin Late
  BY <1>2 DEF Request
<1> USE DEF start
<1>4. session' = [session EXCEPT ![p] = s]
  BY DEF Begin
<1> HIDE DEF s
<1> QED
  BY <1>3, <1>4, LateStep DEF ServedStays

\* What planning makes of a request: the end of its card, a block, an entry to
\* issue, or a sending of the committed one.
LEMMA PlanStep ==
    ASSUME TypeOK, NEW p \in Session, Plan(p)
    PROVE  LET r == session[p]
               s == session'[p]
           IN /\ session' = [session EXCEPT ![p] = s]
              /\ s.pc \in {"idle", "plan", "notify", "insert", "send"}
              /\ s.pc \in {"idle", "plan"} => ~s.needs
              /\ \A c \in Card : Exists(s.open[c]) => s.open[c] = r.open[c]
              /\ s.pc = "send" => \/ s.needs = r.needs
                                 \/ /\ s.card = r.card /\ s.row = entry[r.card]
                                    /\ Exists(entry[r.card])
<1> DEFINE r == session[p]
           c == r.card
           k == card[c].kind
           Good(s) == /\ session' = [session EXCEPT ![p] = s]
                      /\ s.pc \in {"idle", "plan", "notify", "insert", "send"}
                      /\ s.pc \in {"idle", "plan"} => ~s.needs
                      /\ \A x \in Card : Exists(s.open[x]) => s.open[x] = r.open[x]
                      /\ s.pc = "send" => \/ s.needs = r.needs
                                         \/ /\ s.card = c /\ s.row = entry[c]
                                            /\ Exists(entry[c])
<1>1. r \in Request /\ c \in Card /\ k \in Kinds /\ session \in [Session -> Request]
  BY DEF TypeOK, Request, CardRow
<1> SUFFICES Good(session'[p])
  OBVIOUS
<1>2. ASSUME session' = [session EXCEPT ![p] = Idle] PROVE Good(session'[p])
  <2>1. session'[p] = Idle
    BY <1>1, <1>2
  <2>2. Idle.pc = "idle" /\ Idle.needs = FALSE /\ \A x \in Card : ~Exists(Idle.open[x])
    BY NoRowType DEF Idle
  <2> QED
    BY <1>2, <2>1, <2>2
<1>3. CASE session' = [session EXCEPT ![p] = Proceed(r)]
  <2>1. session'[p] = Proceed(r)
    BY <1>1, <1>3
  <2> QED
    BY <1>1, <1>3, <2>1, ProceedType
<1>4. ASSUME NEW flag \in Flag, Blocked(p, flag) PROVE Good(session'[p])
  <2> DEFINE s == [r EXCEPT !.pc = "notify", !.flag = flag]
  <2>1. CASE session' = [session EXCEPT ![p] = s]
    <3>1. session'[p] = s
      BY <1>1, <2>1
    <3>2. s.pc = "notify" /\ s.open = r.open
      BY <1>1 DEF Request
    <3> QED
      BY <2>1, <3>1, <3>2
  <2> QED
    BY <1>1, <1>2, <1>4, <2>1 DEF Blocked
<1>5. CASE PlanVirtual(p)
  <2> DEFINE s == IF r.button THEN [r EXCEPT !.pc = "insert", !.needs = TRUE]
                              ELSE [r EXCEPT !.pc = "send"]
  <2>1. session' = [session EXCEPT ![p] = s] /\ session'[p] = s
    BY <1>1, <1>5 DEF PlanVirtual
  <2>2. /\ s.open = r.open
        /\ s.pc = "insert" \/ (s.pc = "send" /\ s.needs = r.needs)
    BY <1>1 DEF Request
  <2> HIDE DEF s
  <2> QED
    BY <2>1, <2>2
<1>6. CASE Exists(entry[c]) /\ Resend(p)
  <2> DEFINE s == [r EXCEPT !.pc = "send", !.needs = TRUE, !.row = entry[c],
                            !.event = entry[c].event, !.warnings = Warnings(k)]
  <2>1. session' = [session EXCEPT ![p] = s] /\ session'[p] = s
    BY <1>1, <1>6 DEF Resend
  <2>2. s.pc = "send" /\ s.open = r.open /\ s.card = c /\ s.row = entry[c]
    BY <1>1 DEF Request
  <2> QED
    BY <1>6, <2>1, <2>2
<1>7. ASSUME NEW v \in Current, Gate(p, v) PROVE Good(session'[p])
  <2> DEFINE s == [r EXCEPT !.pc = "insert", !.needs = TRUE, !.event = v,
                            !.warnings = Warnings(k)]
  <2>1. CASE session' = [session EXCEPT ![p] = s]
    <3>1. session'[p] = s
      BY <1>1, <2>1
    <3>2. s.pc = "insert" /\ s.open = r.open
      BY <1>1 DEF Request
    <3> QED
      BY <2>1, <3>1, <3>2
  <2>2. \/ session' = [session EXCEPT ![p] = s]
        \/ Blocked(p, "no_event") \/ Blocked(p, "capacity_full")
    BY <1>7 DEF Gate
  <2> QED
    BY <1>4, <2>1, <2>2, FlagTypes
<1>8. Blocking(k) \subseteq Flag
  BY <1>1, FlagTypes
<1> HIDE DEF Good
<1> QED
  BY <1>3, <1>4, <1>5, <1>6, <1>7, <1>8 DEF Plan

\* The steps that end the request, block it or take it to a step before the
\* lead is served.
LEMMA EarlyServed ==
    ASSUME TypeOK, ServedByThen, NEW p \in Session,
           \/ Plan(p) \/ Notify(p) \/ Note(p) \/ Block(p) \/ Insert(p) \/ Flush(p)
           \/ SendOutsideWindow(p) \/ SendFails(p) \/ TemplateNotSent(p)
    PROVE  ServedByThen' /\ ServedStays
<1> DEFINE r == session[p]
<1>1. r \in Request /\ r.card \in Card
  BY DEF TypeOK, Request
<1>2. Committed(r) \in Request /\ Committed(r).pc = r.pc
  BY <1>1, CommittedType
<1>3. ServedStays
  <2>1. CASE UNCHANGED lead
    BY <2>1 DEF ServedStays
  <2>2. CASE Receive(p)
    BY <2>2, ReceiveServes
  <2>3. CASE Notify(p)
    BY <1>1, <2>3 DEF Notify, ServedStays, TypeOK
  <2> QED
    BY <2>1, <2>2, <2>3
       DEF Plan, Note, Block, Insert, Flush, SendOutsideWindow, SendFails, TemplateNotSent
<1>4. /\ session' = [session EXCEPT ![p] = session'[p]]
      /\ session'[p].pc \notin Late
  <2>1. CASE Plan(p)
    BY <2>1, PlanStep DEF Late
  <2>2. CASE Notify(p)
    BY <1>1, <2>2 DEF Notify, Goto, TypeOK, Request, Late
  <2>3. CASE Note(p)
    BY <1>2, <2>3 DEF Note, Request, Late, TypeOK
  <2>4. CASE Block(p)
    BY <1>2, <2>4, ProceedType, ProceedNotLate DEF Block, TypeOK
  <2>5. CASE Insert(p)
    BY <1>1, <2>5 DEF Insert, Request, Late, TypeOK
  <2>6. CASE Flush(p)
    <3> DEFINE row == [token |-> minted[r.card] + 1, event |-> r.event, revoked |-> FALSE]
    <3>1. \/ session' = [session EXCEPT ![p] = Idle]
          \/ session' = [session EXCEPT ![p] =
                [r EXCEPT !.pc = "send", !.row = row, !.open[r.card] = row]]
      BY <2>6 DEF Flush
    <3> HIDE DEF row
    <3>2. [r EXCEPT !.pc = "send", !.row = row, !.open[r.card] = row].pc = "send"
      BY <1>1 DEF Request
    <3> QED
      BY <1>1, <3>1, <3>2, ProceedNotLate DEF Late, TypeOK
  <2>7. CASE SendOutsideWindow(p)
    BY <1>1, <2>7, ProceedNotLate DEF SendOutsideWindow, Request, Late, TypeOK
  <2>8. CASE SendFails(p)
    BY <1>1, <2>8, ProceedNotLate DEF SendFails, Raise, TypeOK
  <2>9. CASE TemplateNotSent(p)
    BY <1>1, <2>9 DEF TemplateNotSent, TypeOK, Request, Late
  <2> QED
    BY <2>1, <2>2, <2>3, <2>4, <2>5, <2>6, <2>7, <2>8, <2>9
<1> QED
  BY <1>3, <1>4, LateStep

\* The steps that serve the lead, and those that follow.
LEMMA LateServed ==
    ASSUME TypeOK, ServedByThen, NEW p \in Session,
           \/ SendDelivered(p) \/ SendTemplate(p) \/ Claim(p) \/ Record(p)
           \/ Move(p) \/ Clear(p) \/ Close(p)
    PROVE  ServedByThen' /\ ServedStays
<1> DEFINE r == session[p]
           c == r.card
<1>1. r \in Request /\ c \in Card /\ session \in [Session -> Request]
  BY DEF TypeOK, Request
<1>2. Committed(r) \in Request /\ Committed(r).card = c
  BY <1>1, CommittedType
<1>3. ServedStays /\ (SendDelivered(p) \/ SendTemplate(p) => lead'[c].served)
  <2>1. CASE UNCHANGED lead /\ ~SendDelivered(p) /\ ~SendTemplate(p)
    BY <2>1 DEF ServedStays
  <2>2. CASE Receive(p)
    BY <2>2, ReceiveServes
  <2> QED
    BY <2>1, <2>2 DEF SendDelivered, SendTemplate, Claim, Record, Move, Clear, Close
<1>4. r.pc \in Late => lead'[c].served
  BY <1>1, <1>3 DEF ServedByThen, ServedStays, Late
<1>5. /\ session' = [session EXCEPT ![p] = session'[p]]
      /\ session'[p].card = c \/ session'[p].pc \notin Late
  <2>1. CASE SendDelivered(p) \/ SendTemplate(p)
    BY <1>1, <2>1 DEF SendDelivered, SendTemplate, Goto, Request
  <2>2. CASE Claim(p)
    BY <1>1, <2>2, ProceedNotLate DEF Claim, Request
  <2>3. CASE Record(p)
    BY <1>1, <1>2, <2>3 DEF Record, Request
  <2>4. CASE Move(p)
    <3> DEFINE s == [Committed(r) EXCEPT !.pc = "clear", !.snap[c].stage = "DELIVERED"]
    <3>1. session' = [session EXCEPT ![p] = Idle] \/ session' = [session EXCEPT ![p] = s]
      BY <2>4 DEF Move
    <3>2. s.card = c
      BY <1>2 DEF Request
    <3> HIDE DEF s
    <3> QED
      BY <1>1, <3>1, <3>2, ProceedNotLate
  <2>5. CASE Clear(p)
    <3> DEFINE flags == ReplaceDeliveryFlags(r.snap[c].flags, r.warnings)
               s == [r EXCEPT !.pc = "close", !.snap[c].flags = flags]
    <3>1. session' = [session EXCEPT ![p] = s]
      BY <2>5 DEF Clear
    <3>2. s.card = c
      BY <1>1 DEF Request
    <3> HIDE DEF s
    <3> QED
      BY <1>1, <3>1, <3>2
  <2>6. CASE Close(p)
    BY <1>1, <2>6, ProceedNotLate DEF Close
  <2> QED
    BY <2>1, <2>2, <2>3, <2>4, <2>5, <2>6
<1>6. SendDelivered(p) \/ SendTemplate(p) \/ r.pc \in Late
  BY DEF Claim, Record, Move, Clear, Close, At, Late
<1> QED
  BY <1>3, <1>4, <1>5, <1>6, LateStep

\* Whatever begins a request makes it begin with some cards.
LEMMA SomeBegin ==
    ASSUME NEW p \in Session,
           \/ \E c \in Card, by \in {"user", "system"} : Validate(p, c, by)
           \/ \E c \in Card : RetryOnInbound(p, c) \/ GenerateEntry(p, c)
           \/ \E v \in Event, status \in {"open", "shut"} : EditEvent(p, v, status)
    PROVE  \E cards \in SUBSET Card : \E view, button : Begin(p, cards, view, button)
<1>1. ASSUME NEW c \in Card, NEW by \in {"user", "system"}, Validate(p, c, by)
      PROVE  \E cards \in SUBSET Card : \E view, button : Begin(p, cards, view, button)
  <2>1. {c} \in SUBSET Card
    OBVIOUS
  <2> QED
    BY <1>1, <2>1, Zenon DEF Validate
<1>2. ASSUME NEW c \in Card, RetryOnInbound(p, c) \/ GenerateEntry(p, c)
      PROVE  \E cards \in SUBSET Card : \E view, button : Begin(p, cards, view, button)
  <2>1. {c} \in SUBSET Card
    OBVIOUS
  <2> QED
    BY <1>2, <2>1, Zenon DEF RetryOnInbound, GenerateEntry
<1>3. ASSUME NEW v \in Event, NEW status \in {"open", "shut"},
             EditEvent(p, v, status)
      PROVE  \E cards \in SUBSET Card : \E view, button : Begin(p, cards, view, button)
  <2> DEFINE waiting == {c \in Card :
                 /\ card[c].stage = "PAYMENT_VALIDATED"
                 /\ card[c].kind \in {"entry", "nomaps", "ambiguous"}
                 /\ card[c].flags \cap {"no_event", "capacity_full"} # {}}
  <2>1. waiting \in SUBSET Card
    OBVIOUS
  <2> QED
    BY <1>3, <2>1, Zenon DEF EditEvent
<1> QED
  BY <1>1, <1>2, <1>3

\* Every step keeps ServedByThen, and a served lead stays served.
LEMMA ServedStep ==
    ASSUME TypeOK, ServedByThen, [Next]_vars
    PROVE  ServedByThen' /\ ServedStays
<1>1. CASE UNCHANGED vars
  BY <1>1 DEF vars, ServedByThen, ServedStays
<1>2. ASSUME NEW p \in Session, Work(p) PROVE ServedByThen' /\ ServedStays
  BY <1>2, EarlyServed, LateServed DEF Work
<1>3. ASSUME NEW p \in Session,
             \/ \E c \in Card, by \in {"user", "system"} : Validate(p, c, by)
             \/ \E c \in Card : RetryOnInbound(p, c) \/ GenerateEntry(p, c)
             \/ \E v \in Event, status \in {"open", "shut"} : EditEvent(p, v, status)
      PROVE  ServedByThen' /\ ServedStays
  <2>1. UNCHANGED lead
    BY <1>3 DEF Validate, RetryOnInbound, EditEvent, GenerateEntry
  <2>2. \E cards \in SUBSET Card : \E view, button : Begin(p, cards, view, button)
    BY <1>3, SomeBegin
  <2> QED
    BY <2>1, <2>2, BeginServed DEF ServedStays
<1>4. ASSUME NEW p \in Session, Crash(p) PROVE ServedByThen' /\ ServedStays
  <2>1. Idle.pc \notin Late
    BY DEF Idle, Late
  <2> QED
    BY <1>4, <2>1, LateStep DEF Crash, ServedStays
<1>5. CASE \/ \E c \in Card, stage \in Stage : Drag(c, stage)
           \/ \E c \in Card, kind \in Kinds : SetService(c, kind)
           \/ \E c \in Card : Reject(c) \/ ExtraReceipt(c)
           \/ \E v \in Event : EventEnds(v) \/ DeleteEvent(v)
  <2>1. UNCHANGED <<lead, session>>
    BY <1>5 DEF Drag, SetService, Reject, ExtraReceipt, EventEnds, DeleteEvent
  <2> QED
    BY <2>1 DEF ServedByThen, ServedStays
<1> QED
  BY <1>1, <1>2, <1>3, <1>4, <1>5 DEF Next

\* Replacing avisos moves no card.
LEMMA FlagsMoveNothing ==
    ASSUME TypeOK, NEW p \in Session, NEW flags, SetFlags(p, flags)
    PROVE  \A c \in Card : card'[c].stage = card[c].stage /\ card'[c].by = card[c].by
BY DEF TypeOK, CardRow, SetFlags

\* Only Move and Close take a card past "Pago validado" for the system.
LEMMA AdvancedBy ==
    ASSUME TypeOK, Next, NEW c \in Card,
           card'[c].by = "system", card'[c].stage \in {"DELIVERED", "CLOSED"}
    PROVE  \/ card[c].by = "system" /\ card[c].stage \in {"DELIVERED", "CLOSED"}
           \/ \E p \in Session : (Move(p) \/ Close(p)) /\ c = session[p].card
<1> SUFFICES ASSUME ~(card[c].by = "system" /\ card[c].stage \in {"DELIVERED", "CLOSED"})
             PROVE  \E p \in Session : (Move(p) \/ Close(p)) /\ c = session[p].card
  OBVIOUS
<1>1. card \in [Card -> CardRow]
  BY DEF TypeOK
<1>2. ~(card'[c].stage = card[c].stage /\ card'[c].by = card[c].by)
  OBVIOUS
<1>3. ASSUME NEW p \in Session, Work(p)
      PROVE  (Move(p) \/ Close(p)) /\ c = session[p].card
  <2>1. card' # card
    BY <1>2
  <2>2. ~ \E flags : SetFlags(p, flags)
    BY <1>2, FlagsMoveNothing
  <2>3. Move(p) \/ Close(p)
    BY <1>3, <2>1, <2>2
       DEF Work, Plan, Notify, Note, Block, Insert, Flush, SendDelivered,
           SendOutsideWindow, SendFails, SendTemplate, TemplateNotSent, Claim, Record,
           Clear
  <2>4. c = session[p].card
    BY <1>1, <1>2, <2>2, <2>3 DEF Move, Close, CardRow
  <2> QED
    BY <2>3, <2>4
<1>4. ASSUME NEW x \in Card, NEW by \in {"user", "system"}, NEW p \in Session,
             Validate(p, x, by)
      PROVE  FALSE
  BY <1>1, <1>2, <1>4 DEF Validate, CardRow
<1>5. ASSUME NEW x \in Card, NEW stage \in Stage, Drag(x, stage) PROVE FALSE
  BY <1>1, <1>2, <1>5 DEF Drag, CardRow
<1>6. ASSUME NEW x \in Card, NEW kind \in Kinds, SetService(x, kind) PROVE FALSE
  BY <1>1, <1>2, <1>6 DEF SetService, CardRow
<1>7. ASSUME NEW x \in Card, Reject(x) \/ ExtraReceipt(x) PROVE FALSE
  BY <1>1, <1>2, <1>7 DEF Reject, ExtraReceipt, CardRow
<1>8. card' # card
  BY <1>2
<1>9. /\ \A p \in Session, x \in Card : ~RetryOnInbound(p, x) /\ ~GenerateEntry(p, x)
      /\ \A p \in Session, v \in Event, status \in {"open", "shut"} :
             ~EditEvent(p, v, status)
      /\ \A v \in Event : ~EventEnds(v) /\ ~DeleteEvent(v)
      /\ \A p \in Session : ~Crash(p)
  BY <1>8 DEF RetryOnInbound, GenerateEntry, EditEvent, EventEnds, DeleteEvent, Crash
<1> QED
  BY <1>3, <1>4, <1>5, <1>6, <1>7, <1>9 DEF Next

\* Every step keeps ServedBeforeAdvanced.
LEMMA AdvancedStep ==
    ASSUME TypeOK, ServedByThen, ServedBeforeAdvanced, [Next]_vars
    PROVE  ServedBeforeAdvanced'
<1> SUFFICES ASSUME NEW c \in Card, card'[c].by = "system",
                    card'[c].stage \in {"DELIVERED", "CLOSED"}
             PROVE  lead'[c].served
  BY DEF ServedBeforeAdvanced
<1>1. lead[c].served => lead'[c].served
  BY ServedStep DEF ServedStays
<1>2. CASE card[c].by = "system" /\ card[c].stage \in {"DELIVERED", "CLOSED"}
  BY <1>1, <1>2 DEF ServedBeforeAdvanced
<1>3. CASE \E p \in Session : (Move(p) \/ Close(p)) /\ c = session[p].card
  BY <1>1, <1>3 DEF Move, Close, ServedByThen
<1>4. CASE UNCHANGED vars
  BY <1>2, <1>4 DEF vars
<1> QED
  BY <1>2, <1>3, <1>4, AdvancedBy

\* Send first, move later (FulfillmentService.deliver): in no interleaving, with
\* crashes and lost answers, does the system move a card to "Entregado" or
\* "Cerrado" without having sent its lead what was paid for.
THEOREM SendFirstMoveLater == Spec => [](ServedBeforeAdvanced /\ ServedByThen)
<1> DEFINE Inv == TypeOK /\ ServedByThen /\ ServedBeforeAdvanced
<1>1. Init => Inv
  <2> SUFFICES ASSUME Init PROVE ServedByThen /\ ServedBeforeAdvanced
    BY TypeInit
  <2>1. ServedByThen
    BY DEF Init, ServedByThen, Idle
  <2>2. ServedBeforeAdvanced
    BY DEF Init, ServedBeforeAdvanced
  <2> QED
    BY <2>1, <2>2
<1>2. Inv /\ [Next]_vars => Inv'
  BY TypeStep, ServedStep, AdvancedStep
<1> QED
  BY <1>1, <1>2, PTL DEF Spec

-----------------------------------------------------------------------------
(* One entry per card.                                                     *)
(*                                                                         *)
(* OneEntryPerCard needs one more fact to be inductive: a request that     *)
(* plans the next card carries nothing of the previous one.                *)

Sending == {"send", "template", "claim", "record", "move"}

PlansAfresh == \A p \in Session : At(p, "plan") => ~session[p].needs

Entries == TypeOK /\ OneEntryPerCard /\ PlansAfresh

\* The QR that r sends is one that rows or its own transaction hold.
Knows(r, rows) ==
    r.needs /\ r.pc \in Sending =>
        Exists(r.row) /\ r.row.token \in {rows[r.card].token, r.open[r.card].token}

\* OneEntryPerCard, said of one request.
LEMMA KnowsOwn ==
    ASSUME OneEntryPerCard, NEW p \in Session
    PROVE  Knows(session[p], entry)
BY DEF OneEntryPerCard, Knows, Sending

\* A step of the request p, seen from the entries: a row changes its token only
\* to what p had inserted, p inserts only what nobody else has, and knows what
\* it sends.
LEMMA EntriesStep ==
    ASSUME Entries, NEW p \in Session, NEW s \in Request,
           session' = [session EXCEPT ![p] = s],
           \A c \in Card : \/ entry'[c].token = entry[c].token
                          \/ Exists(session[p].open[c]),
           \A c \in Card : Exists(s.open[c]) =>
               /\ ~Exists(entry'[c])
               /\ \A q \in Session \ {p} : ~Exists(session[q].open[c]),
           Knows(s, entry'),
           s.pc = "plan" => ~s.needs
    PROVE  (OneEntryPerCard /\ PlansAfresh)'
<1>1. /\ session'[p] = s
      /\ \A q \in Session \ {p} : session'[q] = session[q]
  BY DEF Entries, TypeOK
<1>2. PlansAfresh'
  BY <1>1 DEF Entries, PlansAfresh, At
<1>3. ASSUME NEW q \in Session, NEW x \in Session, NEW c \in Card,
             Exists(session'[q].open[c])
      PROVE  ~Exists(entry'[c]) /\ (Exists(session'[x].open[c]) => q = x)
  <2>1. CASE q = p
    BY <1>1, <1>3, <2>1
  <2>2. CASE q # p
    <3>1. Exists(session[q].open[c]) /\ ~Exists(entry[c]) /\ ~Exists(session[p].open[c])
      BY <1>1, <1>3, <2>2 DEF Entries, OneEntryPerCard
    <3>2. entry'[c].token = entry[c].token
      BY <3>1
    <3>3. ~Exists(s.open[c])
      BY <2>2, <3>1
    <3> QED
      BY <1>1, <2>2, <3>1, <3>2, <3>3 DEF Entries, OneEntryPerCard, Exists
  <2> QED
    BY <2>1, <2>2
<1>4. ASSUME NEW q \in Session PROVE Knows(session'[q], entry')
  <2>1. CASE q = p
    BY <1>1, <2>1
  <2>2. CASE q # p
    <3> DEFINE r == session[q]
    <3> SUFFICES ASSUME r.needs, r.pc \in Sending
                 PROVE  /\ Exists(r.row)
                        /\ r.row.token \in {entry'[r.card].token, r.open[r.card].token}
      BY <1>1, <2>2 DEF Knows
    <3>1. /\ Exists(r.row) /\ r.card \in Card
          /\ r.row.token \in {entry[r.card].token, r.open[r.card].token}
      BY KnowsOwn DEF Knows, Entries, TypeOK, Request
    <3>2. CASE r.row.token = entry[r.card].token
      <4>1. ~Exists(session[p].open[r.card])
        BY <3>1, <3>2 DEF Entries, OneEntryPerCard, Exists
      <4> QED
        BY <3>1, <3>2, <4>1
    <3> QED
      BY <3>1, <3>2
  <2> QED
    BY <2>1, <2>2
<1>5. OneEntryPerCard'
  BY <1>3, <1>4 DEF OneEntryPerCard, Knows, Sending
<1> QED
  BY <1>2, <1>5

\* A step that commits nothing and inserts nothing.
LEMMA EntriesKept ==
    ASSUME Entries, NEW p \in Session, NEW s \in Request,
           session' = [session EXCEPT ![p] = s], UNCHANGED entry,
           \A c \in Card : Exists(s.open[c]) => s.open[c] = session[p].open[c],
           Knows(s, entry),
           s.pc = "plan" => ~s.needs
    PROVE  (OneEntryPerCard /\ PlansAfresh)'
<1>1. \A c \in Card : Exists(s.open[c]) =>
          /\ ~Exists(entry'[c])
          /\ \A q \in Session \ {p} : ~Exists(session[q].open[c])
  BY DEF Entries, OneEntryPerCard
<1> QED
  BY <1>1, EntriesStep

\* What a commit does to the entries: it publishes what p had inserted.
LEMMA CommitPublishes ==
    ASSUME Entries, NEW p \in Session, Commit(p)
    PROVE  \A c \in Card :
               /\ Exists(entry[c]) => entry'[c] = entry[c]
               /\ \/ Exists(session[p].open[c]) /\ entry'[c] = session[p].open[c]
                  \/ ~Exists(session[p].open[c]) /\ entry'[c] = entry[c]
BY DEF Entries, OneEntryPerCard, Commit

\* A step that commits.
LEMMA EntriesCommitted ==
    ASSUME Entries, NEW p \in Session, NEW s \in Request, Commit(p),
           session' = [session EXCEPT ![p] = s],
           \A c \in Card : ~Exists(s.open[c]),
           s.needs /\ s.pc \in Sending =>
               /\ session[p].needs /\ session[p].pc \in Sending
               /\ s.row = session[p].row /\ s.card = session[p].card,
           s.pc = "plan" => ~s.needs
    PROVE  (OneEntryPerCard /\ PlansAfresh)'
<1> DEFINE r == session[p]
<1>1. Knows(s, entry')
  <2> SUFFICES ASSUME s.needs, s.pc \in Sending
               PROVE  Exists(s.row) /\ s.row.token = entry'[s.card].token
    BY DEF Knows
  <2>1. /\ Exists(r.row) /\ r.card \in Card /\ s.row = r.row /\ s.card = r.card
        /\ r.row.token \in {entry[r.card].token, r.open[r.card].token}
    BY KnowsOwn DEF Knows, Entries, TypeOK, Request
  <2>2. CASE Exists(r.open[r.card])
    <3>1. ~Exists(entry[r.card]) /\ entry'[r.card] = r.open[r.card]
      BY <2>1, <2>2, CommitPublishes DEF Entries, OneEntryPerCard
    <3> QED
      BY <2>1, <3>1 DEF Exists
  <2>3. CASE ~Exists(r.open[r.card])
    <3>1. entry'[r.card] = entry[r.card]
      BY <2>1, <2>3, CommitPublishes
    <3> QED
      BY <2>1, <2>3, <3>1 DEF Exists
  <2> QED
    BY <2>2, <2>3
<1>2. \A c \in Card : entry'[c].token = entry[c].token \/ Exists(session[p].open[c])
  BY CommitPublishes
<1> QED
  BY <1>1, <1>2, EntriesStep

\* Ending a request, or going on with its next card, sends nothing.
LEMMA EndsKnow ==
    ASSUME NEW r \in Request, NEW rows
    PROVE  /\ Knows(Idle, rows) /\ Knows(Proceed(r), rows)
           /\ ~Idle.needs /\ ~Proceed(r).needs
           /\ Idle \in Request /\ Proceed(r) \in Request
           /\ \A c \in Card : ~Exists(Idle.open[c])
           /\ \A c \in Card : Exists(Proceed(r).open[c]) => Proceed(r).open[c] = r.open[c]
<1>1. Idle.needs = FALSE /\ \A c \in Card : ~Exists(Idle.open[c])
  BY NoRowType DEF Idle
<1> QED
  BY <1>1, ProceedType, IdleType DEF Knows

\* The steps that leave the entries and the transaction as they are.
LEMMA EntriesQuiet ==
    ASSUME Entries, NEW p \in Session,
           \/ Plan(p) \/ Notify(p) \/ Insert(p) \/ SendDelivered(p) \/ SendOutsideWindow(p)
           \/ SendFails(p) \/ SendTemplate(p) \/ TemplateNotSent(p) \/ Claim(p)
           \/ Clear(p) \/ Close(p) \/ Crash(p)
    PROVE  (OneEntryPerCard /\ PlansAfresh)'
<1> DEFINE r == session[p]
           c == r.card
           s == session'[p]
<1>1. /\ r \in Request /\ c \in Card /\ session \in [Session -> Request]
      /\ entry \in [Card -> EntryRow] /\ Knows(r, entry)
  BY KnowsOwn DEF Entries, TypeOK, Request
<1> USE DEF Entries
<1>2. ASSUME session' = [session EXCEPT ![p] = Idle], UNCHANGED entry
      PROVE  (OneEntryPerCard /\ PlansAfresh)'
  BY <1>1, <1>2, EndsKnow, EntriesKept
<1>3. ASSUME session' = [session EXCEPT ![p] = Proceed(r)], UNCHANGED entry
      PROVE  (OneEntryPerCard /\ PlansAfresh)'
  BY <1>1, <1>3, EndsKnow, EntriesKept
<1>4. ASSUME NEW x \in Request, session' = [session EXCEPT ![p] = x], UNCHANGED entry,
             x.open = r.open, x.pc # "plan",
             \/ x.pc \notin Sending
             \/ x.needs = r.needs /\ x.row = r.row /\ x.card = c /\ r.pc \in Sending
             \/ x.row = entry[c] /\ x.card = c /\ Exists(entry[c])
      PROVE  (OneEntryPerCard /\ PlansAfresh)'
  <2>1. Knows(x, entry)
    BY <1>1, <1>4 DEF Knows
  <2> QED
    BY <1>4, <2>1, EntriesKept
<1>5. CASE Plan(p)
  <2>1. /\ session' = [session EXCEPT ![p] = s] /\ UNCHANGED entry
        /\ s.pc \in {"idle", "plan", "notify", "insert", "send"}
        /\ s.pc \in {"idle", "plan"} => ~s.needs
        /\ \A x \in Card : Exists(s.open[x]) => s.open[x] = r.open[x]
        /\ s.pc = "send" => \/ s.needs = r.needs
                           \/ /\ s.card = c /\ s.row = entry[c] /\ Exists(entry[c])
    BY <1>5, PlanStep DEF Plan
  <2>2. s \in Request
    BY <1>5, TypePlan DEF TypeOK
  <2>3. ~r.needs
    BY <1>5 DEF PlansAfresh, Plan, At
  <2>4. Knows(s, entry)
    BY <2>1, <2>3 DEF Knows, Sending
  <2> HIDE DEF s
  <2> QED
    BY <2>1, <2>2, <2>4, EntriesKept
<1>6. CASE Insert(p)
  <2> DEFINE x == [r EXCEPT !.pc = "send", !.row = entry[c]]
             y == [r EXCEPT !.pc = "flush"]
  <2>1. /\ x \in Request /\ x.open = r.open /\ x.pc = "send" /\ x.row = entry[c]
        /\ x.card = c
        /\ y \in Request /\ y.open = r.open /\ y.pc = "flush"
    BY <1>1 DEF Request, PC
  <2>2. /\ UNCHANGED entry
        /\ \/ Exists(entry[c]) /\ session' = [session EXCEPT ![p] = x]
           \/ session' = [session EXCEPT ![p] = y]
    BY <1>6 DEF Insert
  <2> HIDE DEF x, y
  <2> QED
    BY <1>4, <2>1, <2>2 DEF Sending
<1>7. CASE Notify(p) \/ SendDelivered(p) \/ SendTemplate(p)
  <2>1. PICK pc \in {"note", "block", "move", "record", "claim"} :
            /\ Goto(p, pc) /\ UNCHANGED entry
            /\ pc \in Sending => r.pc \in Sending
    BY <1>7 DEF Notify, SendDelivered, SendTemplate, At, Sending
  <2> DEFINE x == [r EXCEPT !.pc = pc]
  <2>2. /\ x \in Request /\ x.open = r.open /\ x.pc = pc /\ x.needs = r.needs
        /\ x.row = r.row /\ x.card = c
    BY <1>1, <2>1 DEF Request, PC
  <2>3. session' = [session EXCEPT ![p] = x]
    BY <1>1, <2>1 DEF Goto
  <2> HIDE DEF x
  <2> QED
    BY <1>4, <2>1, <2>2, <2>3
<1>8. CASE SendOutsideWindow(p) \/ TemplateNotSent(p)
  <2> DEFINE x == [r EXCEPT !.pc = "template"]
             y == [r EXCEPT !.pc = "block", !.flag = "delivery_pending"]
  <2>1. /\ x \in Request /\ x.open = r.open /\ x.pc = "template" /\ x.needs = r.needs
        /\ x.row = r.row /\ x.card = c
    BY <1>1 DEF Request, PC
  <2>2. y \in Request /\ y.open = r.open /\ y.pc = "block"
    BY <1>1, FlagTypes DEF Request, PC
  <2>3. /\ UNCHANGED entry /\ r.pc \in Sending
        /\ \/ session' = [session EXCEPT ![p] = Idle]
           \/ session' = [session EXCEPT ![p] = x]
           \/ session' = [session EXCEPT ![p] = y]
    BY <1>1, <1>8 DEF SendOutsideWindow, TemplateNotSent, At, Sending
  <2> HIDE DEF x, y
  <2> QED
    BY <1>2, <1>4, <2>1, <2>2, <2>3 DEF Sending
<1>9. CASE SendFails(p)
  BY <1>1, <1>2, <1>3, <1>9 DEF SendFails, Raise
<1>10. CASE Claim(p)
  <2> DEFINE x == [r EXCEPT !.pc = "move", !.key = @ \cup {c}]
  <2>1. /\ x \in Request /\ x.open = r.open /\ x.pc = "move" /\ x.needs = r.needs
        /\ x.row = r.row /\ x.card = c
    BY <1>1 DEF Request, PC
  <2>2. /\ UNCHANGED entry /\ r.pc \in Sending
        /\ \/ session' = [session EXCEPT ![p] = Idle]
           \/ session' = [session EXCEPT ![p] = x]
    BY <1>10 DEF Claim, Sending
  <2> HIDE DEF x
  <2> QED
    BY <1>2, <1>4, <2>1, <2>2
<1>11. CASE Clear(p)
  <2> DEFINE flags == ReplaceDeliveryFlags(r.snap[c].flags, r.warnings)
             x == [r EXCEPT !.pc = "close", !.snap[c].flags = flags]
  <2>1. x.open = r.open /\ x.pc = "close"
    BY <1>1 DEF Request
  <2>2. session' = [session EXCEPT ![p] = x] /\ UNCHANGED entry
    BY <1>11 DEF Clear
  <2>3. x \in Request
    BY <1>1, <1>11, <2>2, TypeClear DEF TypeOK
  <2> HIDE DEF x
  <2> QED
    BY <1>4, <2>1, <2>2, <2>3 DEF Sending
<1>12. CASE Close(p)
  BY <1>3, <1>12 DEF Close
<1>13. CASE Crash(p)
  BY <1>2, <1>13 DEF Crash
<1> QED
  BY <1>5, <1>6, <1>7, <1>8, <1>9, <1>10, <1>11, <1>12, <1>13

\* The steps that commit keep one entry per card.
LEMMA EntriesCommits ==
    ASSUME Entries, NEW p \in Session,
           Note(p) \/ Block(p) \/ Record(p) \/ Move(p)
    PROVE  (OneEntryPerCard /\ PlansAfresh)'
<1> DEFINE r == session[p]
           c == r.card
           d == Committed(r)
<1>1. /\ r \in Request /\ c \in Card /\ session \in [Session -> Request]
  BY DEF Entries, TypeOK, Request
<1>2. /\ d \in Request /\ d.card = c /\ d.needs = r.needs /\ d.row = r.row
      /\ \A x \in Card : ~Exists(d.open[x])
  BY <1>1, CommittedType
<1>3. Commit(p)
  BY DEF Note, Block, Record, Move
<1> HIDE DEF d
<1>4. CASE Note(p) \/ Record(p)
  <2>1. PICK pc \in {"block", "move"} :
            /\ session' = [session EXCEPT ![p] = [d EXCEPT !.pc = pc]]
            /\ pc \in Sending => r.pc \in Sending
    BY <1>4 DEF Note, Record, At, Sending, d
  <2> DEFINE x == [d EXCEPT !.pc = pc]
  <2>2. /\ x \in Request /\ x.pc = pc /\ x.needs = r.needs /\ x.row = r.row
        /\ x.card = c /\ x.open = d.open
    BY <1>2, <2>1 DEF Request, PC
  <2> HIDE DEF x
  <2> QED
    BY <1>2, <1>3, <2>1, <2>2, EntriesCommitted DEF x
<1>5. CASE Block(p)
  <2>1. session' = [session EXCEPT ![p] = Proceed(d)]
    BY <1>5 DEF Block, d
  <2>2. /\ Proceed(d) \in Request /\ ~Proceed(d).needs
        /\ \A x \in Card : ~Exists(Proceed(d).open[x])
    BY <1>2, EndsKnow
  <2> QED
    BY <1>3, <2>1, <2>2, EntriesCommitted
<1>6. CASE Move(p)
  <2> DEFINE x == [d EXCEPT !.pc = "clear", !.snap[c].stage = "DELIVERED"]
  <2>1. \/ session' = [session EXCEPT ![p] = Idle]
        \/ session' = [session EXCEPT ![p] = x]
    BY <1>6 DEF Move, d
  <2>2. x.pc = "clear" /\ x.open = d.open
    BY <1>2 DEF Request
  <2>3. session' = [session EXCEPT ![p] = x] => x \in Request
    <3>1. session' \in [Session -> Request]
      BY <1>6, TypeCommits DEF Entries, TypeOK
    <3> HIDE DEF x
    <3> QED
      BY <1>1, <3>1
  <2>4. Idle \in Request /\ ~Idle.needs /\ \A y \in Card : ~Exists(Idle.open[y])
    BY <1>1, EndsKnow
  <2> HIDE DEF x
  <2> QED
    BY <1>2, <1>3, <2>1, <2>2, <2>3, <2>4, EntriesCommitted DEF Sending
<1> QED
  BY <1>4, <1>5, <1>6

\* The INSERT: whoever gets to it is the only one with a row of that card.
LEMMA EntriesFlush ==
    ASSUME Entries, NEW p \in Session, Flush(p)
    PROVE  (OneEntryPerCard /\ PlansAfresh)'
<1> DEFINE r   == session[p]
           c   == r.card
           row == [token |-> minted[c] + 1, event |-> r.event, revoked |-> FALSE]
           x   == [r EXCEPT !.pc = "send", !.row = row, !.open[c] = row]
<1>1. /\ r \in Request /\ c \in Card /\ minted[c] \in Nat
      /\ session \in [Session -> Request]
  BY DEF Entries, TypeOK, Request
<1>2. CASE session' = [session EXCEPT ![p] = Idle]
  BY <1>1, <1>2, EndsKnow, EntriesKept DEF Flush
<1>3. CASE ~Exists(entry[c]) /\ session' = [session EXCEPT ![p] = x]
  <2>1. row.token # 0
    BY <1>1
  <2>2. x \in Request
    <3>1. session' \in [Session -> Request]
      BY TypeFlush DEF Entries, TypeOK
    <3> HIDE DEF x
    <3> QED
      BY <1>1, <1>3, <3>1
  <2> HIDE DEF row
  <2>3. /\ x.pc = "send" /\ x.row = row /\ x.card = c
        /\ x.open = [r.open EXCEPT ![c] = row] /\ r.open \in [Card -> EntryRow]
    BY <1>1 DEF Request
  <2> HIDE DEF x
  <2>4. Knows(x, entry')
    BY <1>1, <2>1, <2>3 DEF Knows, Exists
  <2>5. UNCHANGED entry /\ ~Inserting(p, c)
    BY DEF Flush
  <2>6. \A y \in Card : Exists(x.open[y]) =>
            /\ ~Exists(entry'[y])
            /\ \A q \in Session \ {p} : ~Exists(session[q].open[y])
    BY <1>1, <1>3, <2>3, <2>5 DEF Inserting, Entries, OneEntryPerCard
  <2> QED
    BY <1>3, <2>2, <2>3, <2>4, <2>5, <2>6, EntriesStep
<1> QED
  BY <1>2, <1>3 DEF Flush

\* A request that begins has inserted nothing.
LEMMA EntriesBegin ==
    ASSUME Entries, UNCHANGED entry, NEW p \in Session, session' \in [Session -> Request],
           NEW cards \in SUBSET Card, NEW view, NEW button, Begin(p, cards, view, button)
    PROVE  (OneEntryPerCard /\ PlansAfresh)'
<1> DEFINE r     == [Idle EXCEPT !.todo = cards]
           start == Proceed(r)
           x     == [start EXCEPT !.snap = view, !.button = button]
<1>1. r \in Request /\ r.open = Idle.open
  BY IdleType DEF Request
<1>2. /\ start \in Request /\ ~start.needs /\ \A c \in Card : ~Exists(start.open[c])
      /\ Idle \in Request /\ ~Idle.needs /\ \A c \in Card : ~Exists(Idle.open[c])
  BY <1>1, EndsKnow
<1> HIDE DEF start
<1>3. x.needs = start.needs /\ x.open = start.open
  BY <1>2 DEF Request
<1>4. \/ session' = [session EXCEPT ![p] = Idle]
      \/ session' = [session EXCEPT ![p] = x]
  BY DEF Begin, start
<1> HIDE DEF x
<1>5. session' = [session EXCEPT ![p] = x] => x \in Request
  BY DEF Entries, TypeOK
<1> QED
  BY <1>2, <1>3, <1>4, <1>5, EntriesKept DEF Knows

\* The strengthened invariant is inductive.
LEMMA EntriesInductive ==
    ASSUME Entries, [Next]_vars
    PROVE  Entries'
<1>1. TypeOK'
  BY TypeStep DEF Entries
<1> SUFFICES (OneEntryPerCard /\ PlansAfresh)'
  BY <1>1 DEF Entries
<1>2. CASE UNCHANGED vars
  BY <1>2 DEF vars, Entries, OneEntryPerCard, PlansAfresh, At
<1>3. ASSUME NEW p \in Session, Work(p) \/ Crash(p)
      PROVE  (OneEntryPerCard /\ PlansAfresh)'
  BY <1>3, EntriesQuiet, EntriesCommits, EntriesFlush DEF Work
<1>4. ASSUME NEW p \in Session,
             \/ \E c \in Card, by \in {"user", "system"} : Validate(p, c, by)
             \/ \E c \in Card : RetryOnInbound(p, c) \/ GenerateEntry(p, c)
             \/ \E v \in Event, status \in {"open", "shut"} : EditEvent(p, v, status)
      PROVE  (OneEntryPerCard /\ PlansAfresh)'
  <2>1. UNCHANGED entry
    BY <1>4 DEF Validate, RetryOnInbound, EditEvent, GenerateEntry
  <2> QED
    BY <1>1, <1>4, <2>1, SomeBegin, EntriesBegin DEF TypeOK
<1>5. CASE \/ \E c \in Card, stage \in Stage : Drag(c, stage)
           \/ \E c \in Card, kind \in Kinds : SetService(c, kind)
           \/ \E c \in Card : Reject(c) \/ ExtraReceipt(c)
           \/ \E v \in Event : EventEnds(v) \/ DeleteEvent(v)
  <2>1. UNCHANGED session
    BY <1>5 DEF Drag, SetService, Reject, ExtraReceipt, EventEnds, DeleteEvent
  <2>2. \A c \in Card : entry'[c].token = entry[c].token
    <3>1. CASE UNCHANGED entry
      BY <3>1
    <3>2. ASSUME NEW c \in Card, Reject(c)
          PROVE  \A x \in Card : entry'[x].token = entry[x].token
      BY <3>2 DEF Reject, Entries, TypeOK, EntryRow
    <3>3. ASSUME NEW v \in Event, DeleteEvent(v)
          PROVE  \A x \in Card : entry'[x].token = entry[x].token
      BY <3>3 DEF DeleteEvent, Entries, TypeOK, EntryRow
    <3> QED
      BY <1>5, <3>1, <3>2, <3>3 DEF Drag, SetService, ExtraReceipt, EventEnds
  <2>3. \A p \in Session : session[p].card \in Card
    BY DEF Entries, TypeOK, Request
  <2> QED
    BY <2>1, <2>2, <2>3 DEF Entries, OneEntryPerCard, PlansAfresh, At, Exists
<1> QED
  BY <1>2, <1>3, <1>4, <1>5 DEF Next

\* The strengthened invariant always holds.
LEMMA EntriesAlways == Spec => []Entries
<1>1. Init => Entries
  <2> SUFFICES ASSUME Init PROVE OneEntryPerCard /\ PlansAfresh
    BY TypeInit DEF Entries
  <2>1. \A p \in Session : session[p] = Idle
    BY DEF Init
  <2>2. Idle.needs = FALSE /\ \A c \in Card : ~Exists(Idle.open[c])
    BY NoRowType DEF Idle
  <2> QED
    BY <2>1, <2>2 DEF OneEntryPerCard, PlansAfresh
<1> QED
  BY <1>1, EntriesInductive, PTL DEF Spec

\* qr_entry has one row per card, and what a request sends is that row
\* (EntryService.issue_and_send), however many requests deliver the same card.
THEOREM OneEntry == Spec => []OneEntryPerCard
<1>1. Entries => OneEntryPerCard
  BY DEF Entries
<1> QED
  BY <1>1, EntriesAlways, PTL

\* No step changes the token of a committed entry.
LEMMA TokenStands ==
    ASSUME Entries, Next, NEW c \in Card, Exists(entry[c])
    PROVE  entry'[c].token = entry[c].token
<1>1. CASE UNCHANGED entry
  BY <1>1
<1>2. ASSUME NEW p \in Session, Commit(p) PROVE entry'[c].token = entry[c].token
  BY <1>2, CommitPublishes
<1>3. ASSUME NEW x \in Card, Reject(x) PROVE entry'[c].token = entry[c].token
  BY <1>3 DEF Reject, Entries, TypeOK, EntryRow
<1>4. ASSUME NEW v \in Event, DeleteEvent(v) PROVE entry'[c].token = entry[c].token
  BY <1>4 DEF DeleteEvent, Entries, TypeOK, EntryRow
<1>5. ASSUME NEW p \in Session, Work(p) PROVE Commit(p) \/ UNCHANGED entry
  BY <1>5 DEF Work, Plan, Notify, Note, Block, Insert, Flush, SendDelivered,
              SendOutsideWindow, SendFails, SendTemplate, TemplateNotSent, Claim, Record,
              Move, Clear, Close
<1> QED
  BY <1>1, <1>2, <1>3, <1>4, <1>5
     DEF Next, Validate, RetryOnInbound, EditEvent, GenerateEntry, Crash, Drag,
         SetService, ExtraReceipt, EventEnds

\* What a lead receives once the entry is committed is that entry.
LEMMA SendsTheIssued ==
    ASSUME Entries, Next, NEW c \in Card, Exists(entry[c])
    PROVE  lead'[c].tokens \subseteq lead[c].tokens \cup {entry[c].token}
<1>1. CASE UNCHANGED lead
  BY <1>1
<1>2. ASSUME NEW p \in Session, Receive(p), session[p].pc \in Sending
      PROVE  lead'[c].tokens \subseteq lead[c].tokens \cup {entry[c].token}
  <2> DEFINE r == session[p]
  <2>1. /\ r.card \in Card
        /\ lead \in [Card -> [tokens : SUBSET Nat, served : BOOLEAN, notices : Nat]]
    BY DEF Entries, TypeOK, Request
  <2>2. CASE c = r.card /\ r.needs
    <3>1. r.row.token = entry[c].token
      <4>1. /\ Exists(r.row)
            /\ r.row.token \in {entry[c].token, r.open[c].token}
        BY <1>2, <2>2, KnowsOwn DEF Knows, Entries
      <4>2. ~Exists(r.open[c])
        BY DEF Entries, OneEntryPerCard
      <4> QED
        BY <4>1, <4>2 DEF Exists
    <3>2. lead'[c].tokens = lead[c].tokens \cup {r.row.token}
      BY <1>2, <2>1, <2>2 DEF Receive
    <3> QED
      BY <3>1, <3>2
  <2>3. CASE c # r.card \/ ~r.needs
    <3>1. lead'[c].tokens = lead[c].tokens
      BY <1>2, <2>1, <2>3 DEF Receive
    <3> QED
      BY <3>1
  <2> QED
    BY <2>2, <2>3
<1>3. ASSUME NEW p \in Session, Notify(p)
      PROVE  lead'[c].tokens = lead[c].tokens
  <2>1. /\ session[p].card \in Card
        /\ lead \in [Card -> [tokens : SUBSET Nat, served : BOOLEAN, notices : Nat]]
    BY DEF Entries, TypeOK, Request
  <2> QED
    BY <1>3, <2>1 DEF Notify
<1>4. ASSUME NEW p \in Session, Work(p)
      PROVE  \/ UNCHANGED lead \/ Notify(p)
             \/ Receive(p) /\ session[p].pc \in Sending
  BY <1>4 DEF Work, Plan, Note, Block, Insert, Flush, SendDelivered, At, Sending,
              SendOutsideWindow, SendFails, SendTemplate, TemplateNotSent, Claim, Record,
              Move, Clear, Close
<1> QED
  BY <1>1, <1>2, <1>3, <1>4
     DEF Next, Validate, RetryOnInbound, EditEvent, GenerateEntry, Crash, Drag,
         SetService, Reject, ExtraReceipt, EventEnds, DeleteEvent, world

\* Once committed, the token of an entry never changes, and it is the only one
\* any later sending of that card carries (EntryService.issue_and_send: a retry
\* sends the same QR).
THEOREM IssuedStands == Spec => IssuedEntryStands
<1> DEFINE Stands == \A c \in Card : Exists(entry[c]) =>
                        /\ entry'[c].token = entry[c].token
                        /\ lead'[c].tokens \subseteq lead[c].tokens \cup {entry[c].token}
<1>1. Entries /\ [Next]_vars => [Stands]_vars
  BY TokenStands, SendsTheIssued
<1>2. Spec => [][Stands]_vars
  <2> HIDE DEF Stands
  <2> QED
    BY <1>1, EntriesAlways, PTL DEF Spec
<1> QED
  BY <1>2 DEF IssuedEntryStands


-----------------------------------------------------------------------------
(* One request at a time: no event is oversold, and no lead is told twice. *)

\* What the two theorems ask of the requests.
Alone == \E p : Session = {p}

\* The seats a request knows to be taken, and the event it is about to take one of.
Taken(p, v)  == Bound(entry, v) \cup Bound(session[p].open, v)
Issues(p, v) == session[p].pc \in {"insert", "flush"} /\ session[p].event = v

\* A request about to issue an entry leaves a seat for it; one that plans a card has no
\* event yet, so that the button issues none for a card that turned virtual.
Seats ==
    /\ \A p \in Session, v \in Event :
         /\ IsFiniteSet(Taken(p, v)) /\ Cardinality(Taken(p, v)) <= Capacity
         /\ Issues(p, v) => Cardinality(Taken(p, v)) < Capacity
    /\ \A p \in Session : At(p, "plan") => session[p].event = NoEvent

\* A request that begins nothing to insert or to note: it ends, goes on with its next card,
\* or is past both.
Leaves(r, s) == /\ s.pc \notin {"insert", "flush", "note"}
                /\ s.pc = "plan" => s.event = NoEvent
                /\ \A c \in Card : Exists(s.open[c]) => s.open[c] = r.open[c]

\* Ending a request, or going on with its next card.
LEMMA EndsLeave ==
    ASSUME NEW r \in Request
    PROVE  /\ Leaves(r, Idle) /\ Leaves(r, Proceed(r))
           /\ Idle.event = NoEvent /\ Proceed(r).event = NoEvent
           /\ \A c \in Card : ~Exists(Idle.open[c])
<1>1. /\ Idle.pc = "idle" /\ Idle.event = NoEvent
      /\ \A c \in Card : ~Exists(Idle.open[c])
  BY NoRowType DEF Idle
<1>2. Proceed(r).event = NoEvent
  <2>1. CASE r.todo = {}
    BY <1>1, <2>1 DEF Proceed
  <2>2. CASE r.todo # {}
    BY <2>2 DEF Proceed, Idle
  <2> QED
    BY <2>1, <2>2
<1> QED
  BY <1>1, <1>2, ProceedType DEF Leaves

\* The steps that neither plan, insert nor notify.
LEMMA OthersLeave ==
    ASSUME TypeOK, NEW p \in Session,
           \/ SendDelivered(p) \/ SendOutsideWindow(p) \/ SendFails(p) \/ SendTemplate(p)
           \/ TemplateNotSent(p) \/ Claim(p) \/ Clear(p) \/ Close(p) \/ Crash(p)
           \/ Note(p) \/ Block(p) \/ Record(p) \/ Move(p)
    PROVE  Leaves(session[p], session'[p])
<1> DEFINE r == session[p]
           c == r.card
           d == Committed(r)
<1>1. r \in Request /\ c \in Card /\ session \in [Session -> Request]
  BY DEF TypeOK, Request
<1>2. /\ d \in Request /\ \A x \in Card : ~Exists(d.open[x])
  BY <1>1, CommittedType
<1> HIDE DEF d
<1>3. ASSUME NEW s, session' = [session EXCEPT ![p] = s],
             \/ s = Idle \/ s = Proceed(r) \/ s = Proceed(d)
             \/ s.pc \notin {"insert", "flush", "note", "plan"} /\ s.open \in {r.open, d.open}
      PROVE  Leaves(r, session'[p])
  <2>1. session'[p] = s
    BY <1>1, <1>3
  <2>2. Leaves(r, Proceed(d))
    BY <1>2, EndsLeave DEF Leaves
  <2> QED
    BY <1>1, <1>2, <1>3, <2>1, <2>2, EndsLeave DEF Leaves
<1>4. CASE SendDelivered(p) \/ SendTemplate(p)
  <2>1. PICK pc \in {"move", "record", "claim"} : Goto(p, pc)
    BY <1>4 DEF SendDelivered, SendTemplate
  <2> DEFINE x == [r EXCEPT !.pc = pc]
  <2>2. x.open = r.open /\ x.pc = pc /\ session' = [session EXCEPT ![p] = x]
    BY <1>1, <2>1 DEF Request, Goto
  <2> HIDE DEF x
  <2> QED
    BY <1>3, <2>2
<1>5. CASE SendOutsideWindow(p) \/ TemplateNotSent(p)
  <2> DEFINE x == [r EXCEPT !.pc = "template"]
             y == [r EXCEPT !.pc = "block", !.flag = "delivery_pending"]
  <2>1. x.open = r.open /\ x.pc = "template" /\ y.open = r.open /\ y.pc = "block"
    BY <1>1 DEF Request
  <2>2. \/ session' = [session EXCEPT ![p] = Idle]
        \/ session' = [session EXCEPT ![p] = x]
        \/ session' = [session EXCEPT ![p] = y]
    BY <1>1, <1>5 DEF SendOutsideWindow, TemplateNotSent
  <2> HIDE DEF x, y
  <2> QED
    BY <1>3, <2>1, <2>2
<1>6. CASE SendFails(p) \/ Close(p) \/ Crash(p)
  BY <1>3, <1>6 DEF SendFails, Raise, Close, Crash
<1>7. CASE Claim(p)
  <2> DEFINE x == [r EXCEPT !.pc = "move", !.key = @ \cup {c}]
  <2>1. x.open = r.open /\ x.pc = "move"
    BY <1>1 DEF Request
  <2>2. session' = [session EXCEPT ![p] = Idle] \/ session' = [session EXCEPT ![p] = x]
    BY <1>7 DEF Claim
  <2> HIDE DEF x
  <2> QED
    BY <1>3, <2>1, <2>2
<1>8. CASE Clear(p)
  <2> DEFINE flags == ReplaceDeliveryFlags(r.snap[c].flags, r.warnings)
             x == [r EXCEPT !.pc = "close", !.snap[c].flags = flags]
  <2>1. x.open = r.open /\ x.pc = "close"
    BY <1>1 DEF Request
  <2>2. session' = [session EXCEPT ![p] = x]
    BY <1>8 DEF Clear
  <2> HIDE DEF x
  <2> QED
    BY <1>3, <2>1, <2>2
<1>9. CASE Note(p) \/ Record(p)
  <2>1. PICK pc \in {"block", "move"} : session' = [session EXCEPT ![p] = [d EXCEPT !.pc = pc]]
    BY <1>9 DEF Note, Record, d
  <2> DEFINE x == [d EXCEPT !.pc = pc]
  <2>2. x.pc = pc /\ x.open = d.open /\ session' = [session EXCEPT ![p] = x]
    BY <1>2, <2>1 DEF Request
  <2> HIDE DEF x
  <2> QED
    BY <1>3, <2>2
<1>10. CASE Block(p)
  BY <1>3, <1>10 DEF Block, d
<1>11. CASE Move(p)
  <2> DEFINE x == [d EXCEPT !.pc = "clear", !.snap[c].stage = "DELIVERED"]
  <2>1. session' = [session EXCEPT ![p] = Idle] \/ session' = [session EXCEPT ![p] = x]
    BY <1>11 DEF Move, d
  <2>2. x.pc = "clear" /\ x.open = d.open
    BY <1>2 DEF Request
  <2> HIDE DEF x
  <2> QED
    BY <1>3, <2>1, <2>2
<1> QED
  BY <1>4, <1>5, <1>6, <1>7, <1>8, <1>9, <1>10, <1>11


\* A step that takes no seat: what it commits it had taken, and what it inserts is nothing.
SeatsQuiet ==
    \A p \in Session :
        /\ \A v \in Event : Taken(p, v)' \subseteq Taken(p, v) /\ (Issues(p, v)' => Issues(p, v))
        /\ At(p, "plan")' => session'[p].event = NoEvent

LEMMA QuietKeepsSeats ==
    ASSUME Seats, SeatsQuiet
    PROVE  Seats'
<1>1. ASSUME NEW p \in Session, NEW v \in Event
      PROVE  /\ IsFiniteSet(Taken(p, v)') /\ Cardinality(Taken(p, v)') <= Capacity
             /\ Issues(p, v)' => Cardinality(Taken(p, v)') < Capacity
  <2>1. Taken(p, v)' \in SUBSET Taken(p, v) /\ (Issues(p, v)' => Issues(p, v))
    BY DEF SeatsQuiet
  <2>2. /\ IsFiniteSet(Taken(p, v)) /\ Cardinality(Taken(p, v)) <= Capacity
        /\ Issues(p, v) => Cardinality(Taken(p, v)) < Capacity
    BY DEF Seats
  <2> DEFINE S == Taken(p, v)
             T == Taken(p, v)'
  <2> HIDE DEF S, T
  <2>3. /\ IsFiniteSet(T) /\ Cardinality(T) <= Cardinality(S)
        /\ Cardinality(T) \in Nat /\ Cardinality(S) \in Nat
    BY <2>1, <2>2, FS_Subset, FS_CardinalityType DEF S, T
  <2>4. Cardinality(T) <= Capacity /\ (Issues(p, v)' => Cardinality(T) < Capacity)
    BY <2>1, <2>2, <2>3, CapacityIsNumber DEF S
  <2> QED
    BY <2>3, <2>4 DEF T
<1> QED
  BY <1>1 DEF Seats, SeatsQuiet

\* Rows that only lose their event or are annulled.
LEMMA FewerBound ==
    ASSUME NEW old, NEW new, NEW v,
           \A c \in Card : Exists(new[c]) /\ new[c].event = v /\ ~new[c].revoked =>
               Exists(old[c]) /\ old[c].event = v /\ ~old[c].revoked
    PROVE  Bound(new, v) \subseteq Bound(old, v)
BY DEF Bound

\* A request that leaves, and has committed what it had inserted or nothing.
LEMMA LeavingIsQuiet ==
    ASSUME Alone, NEW p \in Session, Leaves(session[p], session'[p]),
           \A c \in Card : entry'[c] \in {entry[c], session[p].open[c]}
    PROVE  SeatsQuiet
<1>1. Session = {p}
  BY DEF Alone
<1>2. \A v \in Event : Taken(p, v)' \subseteq Taken(p, v) /\ ~Issues(p, v)'
  BY DEF Leaves, Taken, Bound, Issues
<1> QED
  BY <1>1, <1>2 DEF SeatsQuiet, Leaves, At

\* The steps that leave the requests alone.
LEMMA ElsewhereIsQuiet ==
    ASSUME TypeOK, Seats,
           \/ \E c \in Card, stage \in Stage : Drag(c, stage)
           \/ \E c \in Card, kind \in Kinds : SetService(c, kind)
           \/ \E c \in Card : Reject(c) \/ ExtraReceipt(c)
           \/ \E v \in Event : EventEnds(v) \/ DeleteEvent(v)
    PROVE  SeatsQuiet
<1>1. session' = session
  BY DEF Drag, SetService, Reject, ExtraReceipt, EventEnds, DeleteEvent
<1>2. \A u \in Event : Bound(entry', u) \subseteq Bound(entry, u)
  <2>1. CASE entry' = entry
    BY <2>1
  <2>2. ASSUME NEW c \in Card, Reject(c), NEW u \in Event
        PROVE  Bound(entry', u) \subseteq Bound(entry, u)
    <3> DEFINE k == [entry[c] EXCEPT !.revoked = TRUE]
    <3>1. entry' = entry \/ entry' = [entry EXCEPT ![c] = k]
      BY <2>2 DEF Reject
    <3>2. k.revoked /\ entry \in [Card -> EntryRow]
      BY DEF TypeOK, EntryRow
    <3> HIDE DEF k
    <3> QED
      BY <3>1, <3>2 DEF Bound
  <2>3. ASSUME NEW v \in Event, DeleteEvent(v), NEW u \in Event
        PROVE  Bound(entry', u) \subseteq Bound(entry, u)
    <3> DEFINE k(c) == [entry[c] EXCEPT !.event = NoEvent]
    <3>1. \A c \in Card : entry'[c] = IF entry[c].event = v THEN k(c) ELSE entry[c]
      BY <2>3 DEF DeleteEvent
    <3>2. \A c \in Card : k(c).event = NoEvent
      BY DEF TypeOK, EntryRow
    <3>3. u # NoEvent
      BY NoEventIsNoEvent
    <3> HIDE DEF k
    <3> QED
      BY <3>1, <3>2, <3>3 DEF Bound
  <2> QED
    BY <2>1, <2>2, <2>3 DEF Drag, SetService, ExtraReceipt, EventEnds
<1>3. \A p \in Session, u \in Event : Bound(session[p].open, u)' = Bound(session[p].open, u)
  BY <1>1 DEF Bound
<1>4. \A p \in Session, u \in Event : Taken(p, u)' \subseteq Taken(p, u)
  BY <1>2, <1>3 DEF Taken, Bound
<1> QED
  BY <1>1, <1>4 DEF SeatsQuiet, Issues, At, Seats

\* A request that begins has taken nothing, and plans a card without an event.
LEMMA BeginIsQuiet ==
    ASSUME Alone, TypeOK, UNCHANGED entry, NEW p \in Session,
           NEW cards \in SUBSET Card, NEW view, NEW button, Begin(p, cards, view, button)
    PROVE  SeatsQuiet
<1> DEFINE r     == [Idle EXCEPT !.todo = cards]
           start == Proceed(r)
           x     == [start EXCEPT !.snap = view, !.button = button]
<1>1. r \in Request /\ r.open = Idle.open
  BY IdleType DEF Request
<1>2. /\ Leaves(r, start) /\ start \in Request /\ Leaves(r, Idle)
      /\ \A c \in Card : ~Exists(Idle.open[c])
  BY <1>1, EndsLeave, ProceedType
<1> HIDE DEF start, r
<1>3. x.pc = start.pc /\ x.open = start.open /\ x.event = start.event
  BY <1>2 DEF Request
<1>4. session' = [session EXCEPT ![p] = Idle] \/ session' = [session EXCEPT ![p] = x]
  BY DEF Begin, start, r
<1> HIDE DEF x
<1>5. session'[p] \in {Idle, x}
  BY <1>4 DEF TypeOK
<1>6. Leaves(session[p], session'[p])
  BY <1>1, <1>2, <1>3, <1>5 DEF Leaves
<1> QED
  BY <1>6, LeavingIsQuiet

\* Looking the row up, and telling the lead of a blocked delivery, take no seat.
LEMMA InsertNotifyQuiet ==
    ASSUME Alone, TypeOK, NEW p \in Session, Insert(p) \/ Notify(p)
    PROVE  SeatsQuiet
<1> DEFINE r == session[p]
           c == r.card
<1>1. r \in Request /\ session \in [Session -> Request] /\ Session = {p}
  BY DEF TypeOK, Alone
<1>2. UNCHANGED entry
  BY DEF Insert, Notify
<1>3. ASSUME NEW s, session' = [session EXCEPT ![p] = s], s.open = r.open, s.pc # "plan",
             s.pc \in {"insert", "flush"} => r.pc = "insert" /\ s.event = r.event
      PROVE  SeatsQuiet
  <2>1. session'[p] = s
    BY <1>1, <1>3
  <2> QED
    BY <1>1, <1>2, <1>3, <2>1 DEF SeatsQuiet, Taken, Bound, Issues, At
<1>4. CASE Insert(p)
  <2> DEFINE x == [r EXCEPT !.pc = "send", !.row = entry[c]]
             y == [r EXCEPT !.pc = "flush"]
  <2>1. /\ x.open = r.open /\ x.pc = "send"
        /\ y.open = r.open /\ y.pc = "flush" /\ y.event = r.event
    BY <1>1 DEF Request
  <2>2. /\ r.pc = "insert"
        /\ session' = [session EXCEPT ![p] = x] \/ session' = [session EXCEPT ![p] = y]
    BY <1>4 DEF Insert
  <2> HIDE DEF x, y
  <2> QED
    BY <1>3, <2>1, <2>2
<1>5. CASE Notify(p)
  <2>1. PICK pc \in {"note", "block"} : Goto(p, pc)
    BY <1>5 DEF Notify
  <2> DEFINE x == [r EXCEPT !.pc = pc]
  <2>2. x.open = r.open /\ x.pc = pc /\ session' = [session EXCEPT ![p] = x]
    BY <1>1, <2>1 DEF Request, Goto
  <2> HIDE DEF x
  <2> QED
    BY <1>3, <2>2
<1> QED
  BY <1>4, <1>5


\* The count of issued_count covers the seats a request knows to be taken.
LEMMA IssuedCounts ==
    ASSUME Seats, NEW p \in Session, NEW v \in Event
    PROVE  Cardinality(Taken(p, v)) <= Issued(p, v)
           /\ Issued(p, v) \in Nat /\ Cardinality(Taken(p, v)) \in Nat
<1> DEFINE S == Bound(entry, v)
           T == Bound(session[p].open, v)
<1>1. IsFiniteSet(S \cup T)
  BY DEF Seats, Taken
<1> HIDE DEF S, T
<1>2. IsFiniteSet(S) /\ IsFiniteSet(T) /\ IsFiniteSet(S \cap T)
  <2>1. S \in SUBSET (S \cup T) /\ T \in SUBSET (S \cup T) /\ S \cap T \in SUBSET (S \cup T)
    OBVIOUS
  <2> QED
    BY <1>1, <2>1, FS_Subset
<1>3. /\ Cardinality(S \cup T) = Cardinality(S) + Cardinality(T) - Cardinality(S \cap T)
      /\ Cardinality(S) \in Nat /\ Cardinality(T) \in Nat /\ Cardinality(S \cap T) \in Nat
      /\ Cardinality(S \cup T) \in Nat
  BY <1>1, <1>2, FS_Union, FS_CardinalityType
<1>4. Cardinality(S \cup T) <= Cardinality(S) + Cardinality(T)
  BY <1>3
<1> QED
  BY <1>3, <1>4 DEF S, T, Taken, Issued

\* The gate asks for a free seat before it lets a request issue an entry.
LEMMA PlanKeepsSeats ==
    ASSUME Alone, TypeOK, Seats, NEW p \in Session, Plan(p)
    PROVE  Seats'
<1> DEFINE r == session[p]
           c == r.card
           k == card[c].kind
<1>1. /\ r \in Request /\ session \in [Session -> Request] /\ Session = {p}
      /\ UNCHANGED entry /\ r.event = NoEvent
  BY DEF TypeOK, Alone, Plan, Seats, At
<1>2. ASSUME NEW s, session' = [session EXCEPT ![p] = s], Leaves(r, s) PROVE Seats'
  <2>1. Leaves(session[p], session'[p])
    BY <1>1, <1>2
  <2> QED
    BY <1>1, <2>1, LeavingIsQuiet, QuietKeepsSeats
<1>3. ASSUME NEW s, session' = [session EXCEPT ![p] = s], s.open = r.open,
             s.pc \in {"notify", "send", "insert"}, s.pc = "insert" => s.event = NoEvent
      PROVE  Seats'
  <2>1. session'[p] = s
    BY <1>1, <1>3
  <2>2. SeatsQuiet
    BY <1>1, <1>3, <2>1, NoEventIsNoEvent DEF SeatsQuiet, Taken, Bound, Issues, At
  <2> QED
    BY <2>2, QuietKeepsSeats
<1>4. CASE session' = [session EXCEPT ![p] = Proceed(r)]
  BY <1>1, <1>2, <1>4, EndsLeave
<1>5. ASSUME NEW flag, Blocked(p, flag) PROVE Seats'
  <2> DEFINE s == [r EXCEPT !.pc = "notify", !.flag = flag]
  <2>1. s.pc = "notify" /\ s.open = r.open
    BY <1>1 DEF Request
  <2>2. session' = [session EXCEPT ![p] = Idle] \/ session' = [session EXCEPT ![p] = s]
    BY <1>5 DEF Blocked
  <2> HIDE DEF s
  <2> QED
    BY <1>1, <1>2, <1>3, <2>1, <2>2, EndsLeave
<1>6. CASE PlanVirtual(p)
  <2> DEFINE s == [r EXCEPT !.pc = "insert", !.needs = TRUE]
             t == [r EXCEPT !.pc = "send"]
  <2>1. /\ s.pc = "insert" /\ s.open = r.open /\ s.event = r.event
        /\ t.pc = "send" /\ t.open = r.open
    BY <1>1 DEF Request
  <2>2. session' = [session EXCEPT ![p] = s] \/ session' = [session EXCEPT ![p] = t]
    BY <1>6 DEF PlanVirtual
  <2> HIDE DEF s, t
  <2> QED
    BY <1>1, <1>3, <2>1, <2>2
<1>7. CASE Resend(p)
  <2> DEFINE s == [r EXCEPT !.pc = "send", !.needs = TRUE, !.row = entry[c],
                            !.event = entry[c].event, !.warnings = Warnings(k)]
  <2>1. s.pc = "send" /\ s.open = r.open
    BY <1>1 DEF Request
  <2>2. session' = [session EXCEPT ![p] = s]
    BY <1>7 DEF Resend
  <2> HIDE DEF s
  <2> QED
    BY <1>3, <2>1, <2>2
<1>8. ASSUME NEW v \in Current, Gate(p, v) PROVE Seats'
  <2> DEFINE s == [r EXCEPT !.pc = "insert", !.needs = TRUE, !.event = v,
                            !.warnings = Warnings(k)]
  <2>1. CASE v # NoEvent /\ ~(Issued(p, v) >= Capacity) /\ session' = [session EXCEPT ![p] = s]
    <3>1. s.pc = "insert" /\ s.open = r.open /\ s.event = v
      BY <1>1 DEF Request
    <3> HIDE DEF s
    <3>2. session'[p].pc = "insert" /\ session'[p].open = r.open /\ session'[p].event = v
      BY <1>1, <2>1, <3>1
    <3>3. v \in Event
      BY <2>1 DEF Current
    <3>4. Cardinality(Taken(p, v)) < Capacity
      BY <2>1, <3>3, IssuedCounts, CapacityIsNumber
    <3>5. \A u \in Event : Taken(p, u)' = Taken(p, u)
      BY <1>1, <3>2 DEF Taken, Bound
    <3>6. \A u \in Event : Issues(p, u)' => u = v
      BY <3>2 DEF Issues
    <3>7. \A u \in Event : /\ IsFiniteSet(Taken(p, u)') /\ Cardinality(Taken(p, u)') <= Capacity
                           /\ Issues(p, u)' => Cardinality(Taken(p, u)') < Capacity
      BY <3>4, <3>5, <3>6 DEF Seats
    <3> QED
      BY <1>1, <3>2, <3>7 DEF Seats, At
  <2>2. CASE Blocked(p, "no_event") \/ Blocked(p, "capacity_full")
    BY <1>5, <2>2
  <2> QED
    BY <1>8, <2>1, <2>2 DEF Gate
<1> QED
  BY <1>4, <1>5, <1>6, <1>7, <1>8 DEF Plan

\* The INSERT takes the seat that the gate found.
LEMMA FlushKeepsSeats ==
    ASSUME Alone, TypeOK, Seats, NEW p \in Session, Flush(p)
    PROVE  Seats'
<1> DEFINE r   == session[p]
           c   == r.card
           row == [token |-> minted[c] + 1, event |-> r.event, revoked |-> FALSE]
           x   == [r EXCEPT !.pc = "send", !.row = row, !.open[c] = row]
<1>1. /\ r \in Request /\ c \in Card /\ session \in [Session -> Request] /\ Session = {p}
      /\ UNCHANGED entry /\ r.pc = "flush"
  BY DEF TypeOK, Alone, Flush, Request
<1>2. CASE session' = [session EXCEPT ![p] = Idle]
  <2>1. Leaves(session[p], session'[p])
    BY <1>1, <1>2, EndsLeave
  <2> QED
    BY <1>1, <2>1, LeavingIsQuiet, QuietKeepsSeats
<1>3. CASE session' = [session EXCEPT ![p] = x]
  <2>1. row.event = r.event
    OBVIOUS
  <2> HIDE DEF row
  <2>2. x.pc = "send" /\ x.open = [r.open EXCEPT ![c] = row] /\ r.open \in [Card -> EntryRow]
    BY <1>1 DEF Request
  <2> HIDE DEF x
  <2>3. session'[p] = x
    BY <1>1, <1>3
  <2>4. \A y \in Card : x.open[y] = IF y = c THEN row ELSE r.open[y]
    BY <1>1, <2>2
  <2>5. ASSUME NEW v \in Event
        PROVE  /\ IsFiniteSet(Taken(p, v)') /\ Cardinality(Taken(p, v)') <= Capacity
               /\ ~Issues(p, v)'
    <3> DEFINE S == Taken(p, v)
               T == Taken(p, v)'
    <3>1. IsFiniteSet(S) /\ Cardinality(S) <= Capacity /\ Cardinality(S) \in Nat
          /\ (r.event = v => Cardinality(S) < Capacity)
      BY <1>1, FS_CardinalityType DEF Seats, Issues
    <3>2. T \subseteq S \cup {c} /\ (r.event # v => T \subseteq S)
      BY <1>1, <2>1, <2>3, <2>4 DEF Taken, Bound
    <3>3. ~Issues(p, v)'
      BY <2>2, <2>3 DEF Issues
    <3> HIDE DEF S, T
    <3>4. CASE r.event = v
      <4>1. IsFiniteSet(S \cup {c}) /\ Cardinality(S \cup {c}) <= Cardinality(S) + 1
        <5>1. /\ IsFiniteSet(S \cup {c})
              /\ Cardinality(S \cup {c}) = IF c \in S THEN Cardinality(S)
                                            ELSE Cardinality(S) + 1
          BY <3>1, FS_AddElement, Zenon
        <5> QED
          BY <3>1, <5>1
      <4>2. T \in SUBSET (S \cup {c})
        BY <3>2
      <4>3. /\ IsFiniteSet(T) /\ Cardinality(T) <= Cardinality(S \cup {c})
            /\ Cardinality(T) \in Nat /\ Cardinality(S \cup {c}) \in Nat
        BY <4>1, <4>2, FS_Subset, FS_CardinalityType
      <4>4. Cardinality(T) <= Capacity
        BY <3>1, <3>4, <4>1, <4>3, CapacityIsNumber
      <4> QED
        BY <3>3, <4>3, <4>4 DEF T
    <3>5. CASE r.event # v
      <4>1. IsFiniteSet(T) /\ Cardinality(T) <= Cardinality(S) /\ Cardinality(T) \in Nat
        <5>1. T \in SUBSET S
          BY <3>2, <3>5
        <5> QED
          BY <3>1, <5>1, FS_Subset, FS_CardinalityType
      <4>2. Cardinality(T) <= Capacity
        BY <3>1, <4>1, CapacityIsNumber
      <4> QED
        BY <3>3, <4>1, <4>2 DEF T
    <3> QED
      BY <3>4, <3>5
  <2> QED
    BY <1>1, <2>2, <2>3, <2>5 DEF Seats, At
<1> QED
  BY <1>2, <1>3 DEF Flush

LEMMA SeatsNext ==
    ASSUME Alone, TypeOK, Seats, [Next]_vars
    PROVE  Seats'
<1>1. ASSUME NEW p \in Session, Plan(p) \/ Flush(p) PROVE Seats'
  BY <1>1, PlanKeepsSeats, FlushKeepsSeats
<1>2. ASSUME NEW p \in Session, Insert(p) \/ Notify(p) PROVE Seats'
  BY <1>2, InsertNotifyQuiet, QuietKeepsSeats
<1>3. ASSUME NEW p \in Session,
             \/ SendDelivered(p) \/ SendOutsideWindow(p) \/ SendFails(p) \/ SendTemplate(p)
             \/ TemplateNotSent(p) \/ Claim(p) \/ Clear(p) \/ Close(p) \/ Crash(p)
             \/ Note(p) \/ Block(p) \/ Record(p) \/ Move(p)
      PROVE  Seats'
  <2>1. entry' = entry \/ Commit(p)
    BY <1>3 DEF SendDelivered, SendOutsideWindow, SendFails, SendTemplate, TemplateNotSent,
       Claim, Clear, Close, Crash, Note, Block, Record, Move
  <2>2. \A c \in Card : entry'[c] \in {entry[c], session[p].open[c]}
    BY <2>1 DEF Commit
  <2> QED
    BY <1>3, <2>2, OthersLeave, LeavingIsQuiet, QuietKeepsSeats
<1>4. ASSUME NEW p \in Session,
             \/ \E c \in Card, by \in {"user", "system"} : Validate(p, c, by)
             \/ \E c \in Card : RetryOnInbound(p, c) \/ GenerateEntry(p, c)
             \/ \E v \in Event, status \in {"open", "shut"} : EditEvent(p, v, status)
      PROVE  Seats'
  <2>1. UNCHANGED entry
    BY <1>4 DEF Validate, RetryOnInbound, EditEvent, GenerateEntry
  <2> QED
    BY <1>4, <2>1, SomeBegin, BeginIsQuiet, QuietKeepsSeats
<1>5. CASE \/ \E c \in Card, stage \in Stage : Drag(c, stage)
           \/ \E c \in Card, kind \in Kinds : SetService(c, kind)
           \/ \E c \in Card : Reject(c) \/ ExtraReceipt(c)
           \/ \E v \in Event : EventEnds(v) \/ DeleteEvent(v)
  BY <1>5, ElsewhereIsQuiet, QuietKeepsSeats
<1>6. CASE UNCHANGED vars
  BY <1>6 DEF vars, Seats, Taken, Issues, Bound, At
<1> QED
  BY <1>1, <1>2, <1>3, <1>4, <1>5, <1>6 DEF Next, Work

\* When requests are served one at a time, no event has more live entries than seats
\* (EventRepository.has_capacity), whatever is annulled, deleted or issued again.
THEOREM NoOverbooking == Alone /\ Spec => []CapacityRespected
<1> SUFFICES ASSUME Alone PROVE Spec => []CapacityRespected
  OBVIOUS
<1>1. Init => TypeOK /\ Seats
  <2> SUFFICES ASSUME Init PROVE Seats
    BY TypeInit
  <2>1. \A p \in Session : session[p] = Idle
    BY DEF Init
  <2>2. Idle.pc = "idle" /\ \A c \in Card : ~Exists(Idle.open[c]) /\ ~Exists(entry[c])
    BY NoRowType DEF Idle, Init
  <2>3. \A p \in Session, v \in Event : Taken(p, v) = {}
    BY <2>1, <2>2 DEF Taken, Bound
  <2> QED
    BY <2>1, <2>2, <2>3, FS_EmptySet, CapacityIsNumber DEF Seats, Issues, At
<1>2. TypeOK /\ Seats /\ [Next]_vars => (TypeOK /\ Seats)'
  BY TypeStep, SeatsNext
<1>3. Seats => CapacityRespected
  <2> SUFFICES ASSUME Seats, NEW v \in Event PROVE Cardinality(Bound(entry, v)) <= Capacity
    BY DEF CapacityRespected
  <2>1. PICK p \in Session : TRUE
    BY DEF Alone
  <2> DEFINE S == Taken(p, v)
             T == Bound(entry, v)
  <2>2. IsFiniteSet(S) /\ Cardinality(S) <= Capacity /\ T \in SUBSET S
    BY DEF Seats, Taken
  <2> HIDE DEF S, T
  <2>3. /\ Cardinality(T) <= Cardinality(S)
        /\ Cardinality(T) \in Nat /\ Cardinality(S) \in Nat
    BY <2>2, FS_Subset, FS_CardinalityType
  <2>4. Cardinality(T) <= Capacity
    BY <2>2, <2>3, CapacityIsNumber
  <2> QED
    BY <2>4 DEF T
<1> QED
  BY <1>1, <1>2, <1>3, PTL DEF Spec


\* What is told to a lead is remembered, or is about to be.
ToldOnce ==
    \A c \in Card :
        /\ lead[c].notices <= 1
        /\ \/ c \in noticed \/ lead[c].notices = 0
           \/ \E p \in Session : At(p, "note") /\ session[p].card = c

\* A sending is no notice.
LEMMA ReceiveTellsNothing ==
    ASSUME TypeOK, NEW p \in Session, Receive(p)
    PROVE  \A c \in Card : lead'[c].notices = lead[c].notices
<1> DEFINE c == session[p].card
           old == lead[c]
           tokens == IF session[p].needs THEN old.tokens \cup {session[p].row.token}
                                         ELSE old.tokens
           k == [old EXCEPT !.served = TRUE, !.tokens = tokens]
<1>1. c \in Card
  BY DEF TypeOK, Request
<1>2. lead' = [lead EXCEPT ![c] = k]
  BY DEF Receive, TypeOK
<1> HIDE DEF tokens
<1>3. k.notices = old.notices
  BY <1>1 DEF TypeOK
<1> HIDE DEF k
<1> QED
  BY <1>1, <1>2, <1>3 DEF TypeOK

\* A step that tells nothing, of a request that had nothing to remember.
LEMMA SilentKeepsTold ==
    ASSUME ToldOnce, Alone, NEW p \in Session,
           session' = session \/ ~At(p, "note"),
           \A c \in Card : lead'[c].notices = lead[c].notices,
           noticed \subseteq noticed'
    PROVE  ToldOnce'
BY DEF ToldOnce, Alone, At

LEMMA NotifyKeepsTold ==
    ASSUME TypeOK, ToldOnce, Alone, ~Faults, NEW p \in Session, Notify(p)
    PROVE  ToldOnce'
<1> DEFINE r == session[p]
           c == r.card
<1>1. /\ r \in Request /\ c \in Card /\ session \in [Session -> Request] /\ Session = {p}
      /\ r.pc = "notify" /\ noticed' = noticed
  BY DEF TypeOK, Alone, Notify, At, Request
<1>2. CASE UNCHANGED lead
  BY <1>1, <1>2, SilentKeepsTold DEF At
<1>3. CASE lead' # lead
  <2>1. /\ c \notin noticed /\ Goto(p, "note")
        /\ lead' = [lead EXCEPT ![c].notices = lead[c].notices + 1]
    BY <1>3 DEF Notify
  <2>2. lead[c].notices = 0
    BY <1>1, <2>1 DEF ToldOnce, At
  <2>3. lead'[c].notices = 1 /\ \A d \in Card : d # c => lead'[d] = lead[d]
    BY <1>1, <2>1, <2>2 DEF TypeOK
  <2>4. session'[p].pc = "note" /\ session'[p].card = c
    BY <1>1, <2>1 DEF Goto, Request
  <2>5. \A d \in Card : d # c => d \in noticed \/ lead[d].notices = 0
    BY <1>1 DEF ToldOnce, At
  <2>6. ASSUME NEW d \in Card
        PROVE  /\ lead'[d].notices <= 1
               /\ \/ d \in noticed' \/ lead'[d].notices = 0
                  \/ At(p, "note")' /\ session'[p].card = d
    BY <1>1, <2>3, <2>4, <2>5 DEF ToldOnce, At
  <2> QED
    BY <2>6 DEF ToldOnce
<1> QED
  BY <1>2, <1>3

LEMMA NoteKeepsTold ==
    ASSUME ToldOnce, Alone, NEW p \in Session, Note(p)
    PROVE  ToldOnce'
<1>1. lead' = lead /\ noticed' = noticed \cup {session[p].card} /\ Session = {p}
  BY DEF Note, Alone
<1> QED
  BY <1>1 DEF ToldOnce, Alone, At

LEMMA ToldNext ==
    ASSUME TypeOK, ToldOnce, Alone, ~Faults, [Next]_vars
    PROVE  ToldOnce'
<1>1. PICK q : Session = {q}
  BY DEF Alone
<1>2. ASSUME NEW p \in Session, Notify(p) \/ Note(p) PROVE ToldOnce'
  BY <1>2, NotifyKeepsTold, NoteKeepsTold
<1>3. ASSUME NEW p \in Session, Work(p), ~Notify(p), ~Note(p) PROVE ToldOnce'
  <2>1. ~At(p, "note") /\ noticed' = noticed
    BY <1>3 DEF Work, Plan, Block, Insert, Flush, SendDelivered, SendOutsideWindow, SendFails,
       SendTemplate, TemplateNotSent, Claim, Record, Move, Clear, Close, At
  <2>2. UNCHANGED lead \/ Receive(p)
    BY <1>3 DEF Work, Plan, Block, Insert, Flush, SendDelivered, SendOutsideWindow, SendFails,
       SendTemplate, TemplateNotSent, Claim, Record, Move, Clear, Close
  <2>3. \A c \in Card : lead'[c].notices = lead[c].notices
    BY <2>2, ReceiveTellsNothing
  <2> QED
    BY <2>1, <2>3, SilentKeepsTold
<1>4. ASSUME NEW p \in Session,
             \/ \E c \in Card, by \in {"user", "system"} : Validate(p, c, by)
             \/ \E c \in Card : RetryOnInbound(p, c) \/ GenerateEntry(p, c)
             \/ \E v \in Event, status \in {"open", "shut"} : EditEvent(p, v, status)
      PROVE  ToldOnce'
  <2>1. At(p, "idle") /\ lead' = lead /\ noticed' = noticed
    BY <1>4 DEF Validate, RetryOnInbound, EditEvent, GenerateEntry, Begin
  <2> QED
    BY <2>1, SilentKeepsTold DEF At
<1>5. CASE \/ \E c \in Card, stage \in Stage : Drag(c, stage)
           \/ \E c \in Card, kind \in Kinds : SetService(c, kind)
           \/ \E c \in Card : Reject(c) \/ ExtraReceipt(c)
           \/ \E v \in Event : EventEnds(v) \/ DeleteEvent(v)
           \/ UNCHANGED vars
  <2>1. session' = session /\ lead' = lead /\ noticed' = noticed
    BY <1>5 DEF Drag, SetService, Reject, ExtraReceipt, EventEnds, DeleteEvent, vars
  <2> QED
    BY <1>1, <2>1, SilentKeepsTold
<1>6. ASSUME NEW p \in Session, Crash(p) PROVE ToldOnce'
  BY <1>6 DEF Crash
<1> QED
  BY <1>2, <1>3, <1>4, <1>5, <1>6 DEF Next

\* When requests are served one at a time and none of them dies, a lead whose delivery is
\* blocked is told so once (confirm_payment_pending), however often it is tried again.
THEOREM ToldOnlyOnce == Alone /\ ~Faults /\ Spec => []NoticedOnce
<1> SUFFICES ASSUME Alone, ~Faults PROVE Spec => []NoticedOnce
  OBVIOUS
<1>1. Init => TypeOK /\ ToldOnce
  BY TypeInit DEF Init, ToldOnce
<1>2. TypeOK /\ ToldOnce /\ [Next]_vars => (TypeOK /\ ToldOnce)'
  BY TypeStep, ToldNext
<1>3. ToldOnce => NoticedOnce
  BY DEF ToldOnce, NoticedOnce
<1> QED
  BY <1>1, <1>2, <1>3, PTL DEF Spec


-----------------------------------------------------------------------------
(* One request at a time, without failures: a lead holds one QR of a card. *)

\* What a lead holds is the entry of its card or the one about to be committed, which no
\* earlier template prevents.
Sent == {"claim", "record", "move"}
HoldsIssued ==
    \A c \in Card :
        IF Exists(entry[c]) THEN lead[c].tokens \subseteq {entry[c].token}
        ELSE \/ lead[c].tokens = {}
             \/ \E p \in Session : /\ session[p].pc \in Sent /\ session[p].card = c
                                   /\ Exists(session[p].open[c])
                                   /\ lead[c].tokens \subseteq {session[p].open[c].token}
ClaimsFree == \A p \in Session : At(p, "claim") => session[p].card \notin templated

Tokens == Entries /\ HoldsIssued /\ ClaimsFree

\* Only a template that was sent is claimed.
LEMMA ClaimFrom ==
    ASSUME TypeOK, NEW p \in Session, Work(p), ~SendTemplate(p)
    PROVE  session'[p].pc # "claim"
<1> DEFINE r == session[p]
           d == Committed(r)
<1>1. r \in Request /\ r.card \in Card /\ session \in [Session -> Request]
  BY DEF TypeOK, Request
<1>2. d \in Request
  BY <1>1, CommittedType
<1>3. Idle.pc # "claim" /\ Proceed(r).pc # "claim" /\ Proceed(d).pc # "claim"
  BY <1>1, <1>2, ProceedType DEF Idle
<1>4. CASE Plan(p)
  BY <1>4, PlanStep
<1>5. CASE Notify(p) \/ SendDelivered(p)
  <2>1. PICK pc \in {"note", "block", "move", "record"} : Goto(p, pc)
    BY <1>5 DEF Notify, SendDelivered
  <2> QED
    BY <1>1, <2>1 DEF Goto, Request
<1>6. CASE Note(p) \/ Record(p)
  <2>1. PICK pc \in {"block", "move"} : session' = [session EXCEPT ![p] = [d EXCEPT !.pc = pc]]
    BY <1>6 DEF Note, Record
  <2> HIDE DEF d
  <2> QED
    BY <1>1, <1>2, <2>1 DEF Request
<1>7. CASE Block(p) \/ Close(p) \/ SendFails(p)
  BY <1>1, <1>3, <1>7 DEF Block, Close, SendFails, Raise
<1>8. CASE Insert(p)
  BY <1>1, <1>8 DEF Insert, Request
<1>9. CASE Flush(p)
  <2> DEFINE row == [token |-> minted[r.card] + 1, event |-> r.event, revoked |-> FALSE]
             x   == [r EXCEPT !.pc = "send", !.row = row, !.open[r.card] = row]
  <2>1. session' = [session EXCEPT ![p] = Idle] \/ session' = [session EXCEPT ![p] = x]
    BY <1>9 DEF Flush
  <2> HIDE DEF row
  <2>2. x.pc = "send"
    BY <1>1 DEF Request
  <2> HIDE DEF x
  <2> QED
    BY <1>1, <1>3, <2>1, <2>2
<1>10. CASE SendOutsideWindow(p) \/ TemplateNotSent(p)
  BY <1>1, <1>3, <1>10 DEF SendOutsideWindow, TemplateNotSent, Request
<1>11. CASE Claim(p)
  BY <1>1, <1>3, <1>11 DEF Claim, Request
<1>12. CASE Move(p)
  <2> DEFINE x == [d EXCEPT !.pc = "clear", !.snap[r.card].stage = "DELIVERED"]
  <2>1. session' = [session EXCEPT ![p] = Idle] \/ session' = [session EXCEPT ![p] = x]
    BY <1>12 DEF Move
  <2> HIDE DEF d
  <2>2. x.pc = "clear"
    BY <1>2 DEF Request
  <2> HIDE DEF x
  <2> QED
    BY <1>1, <1>3, <2>1, <2>2
<1>13. CASE Clear(p)
  <2> DEFINE flags == ReplaceDeliveryFlags(r.snap[r.card].flags, r.warnings)
             x == [r EXCEPT !.pc = "close", !.snap[r.card].flags = flags]
  <2>1. session' = [session EXCEPT ![p] = x]
    BY <1>13 DEF Clear
  <2>2. x.pc = "close"
    BY <1>1 DEF Request
  <2> HIDE DEF x
  <2> QED
    BY <1>1, <2>1, <2>2
<1> QED
  BY <1>4, <1>5, <1>6, <1>7, <1>8, <1>9, <1>10, <1>11, <1>12, <1>13 DEF Work

\* A step of a request that had not sent anything, which sends nothing.
LEMMA UnsentKeepsTokens ==
    ASSUME HoldsIssued, Alone, NEW p \in Session, session[p].pc \notin Sent, UNCHANGED lead,
           \A c \in Card : Exists(entry[c]) => entry'[c].token = entry[c].token
    PROVE  HoldsIssued'
<1>1. ASSUME NEW c \in Card, Exists(entry[c])
      PROVE  Exists(entry'[c]) /\ lead'[c].tokens \subseteq {entry'[c].token}
  BY <1>1 DEF HoldsIssued, Exists
<1>2. ASSUME NEW c \in Card, ~Exists(entry[c]) PROVE lead'[c].tokens = {}
  BY <1>2 DEF HoldsIssued, Alone
<1> QED
  BY <1>1, <1>2 DEF HoldsIssued

\* What is sent is the entry that is committed, or the one the request has inserted.
LEMMA SendingKeepsTokens ==
    ASSUME Tokens, Alone, NEW p \in Session, SendDelivered(p) \/ SendTemplate(p)
    PROVE  HoldsIssued'
<1> DEFINE r == session[p]
           c == r.card
           t == r.row.token
           tokens == IF r.needs THEN lead[c].tokens \cup {t} ELSE lead[c].tokens
           k == [lead[c] EXCEPT !.served = TRUE, !.tokens = tokens]
<1>1. /\ r \in Request /\ c \in Card /\ session \in [Session -> Request] /\ Session = {p}
      /\ UNCHANGED entry /\ Receive(p) /\ r.pc \in {"send", "template"}
  BY DEF Tokens, Entries, TypeOK, Alone, SendDelivered, SendTemplate, At, Request
<1>2. PICK pc \in Sent : Goto(p, pc)
  BY DEF SendDelivered, SendTemplate, Sent
<1>3. session'[p].pc \in Sent /\ session'[p].card = c /\ session'[p].open = r.open
  <2> DEFINE x == [r EXCEPT !.pc = pc]
  <2>1. x.pc = pc /\ x.card = c /\ x.open = r.open /\ session' = [session EXCEPT ![p] = x]
    BY <1>1, <1>2 DEF Request, Goto
  <2> HIDE DEF x
  <2> QED
    BY <1>1, <2>1
<1>4. lead' = [lead EXCEPT ![c] = k]
  BY <1>1 DEF Receive, Tokens, Entries, TypeOK
<1> HIDE DEF tokens
<1>5. k.tokens = tokens
  BY <1>1 DEF Tokens, Entries, TypeOK
<1> HIDE DEF k
<1>6. lead'[c].tokens = tokens /\ \A d \in Card : d # c => lead'[d] = lead[d]
  BY <1>1, <1>4, <1>5 DEF Tokens, Entries, TypeOK
<1> USE DEF tokens
<1>7. r.needs => t # 0 /\ t \in {entry[c].token, r.open[c].token}
  BY <1>1 DEF Tokens, Entries, OneEntryPerCard, Exists
<1>8. ASSUME NEW d \in Card, ~Exists(entry[d]) PROVE lead[d].tokens = {}
  BY <1>1, <1>8 DEF Tokens, HoldsIssued, Sent
<1>9. CASE Exists(entry[c])
  <2>1. ~Exists(r.open[c])
    BY <1>1, <1>9 DEF Tokens, Entries, OneEntryPerCard
  <2>2. tokens \subseteq {entry[c].token}
    BY <1>1, <1>7, <1>9, <2>1 DEF Tokens, HoldsIssued, Exists
  <2> HIDE DEF tokens
  <2> QED
    BY <1>1, <1>6, <1>8, <1>9, <2>2 DEF Tokens, HoldsIssued
<1>10. CASE ~Exists(entry[c])
  <2>1. tokens = {} \/ (Exists(r.open[c]) /\ tokens \subseteq {r.open[c].token})
    BY <1>1, <1>7, <1>8, <1>10 DEF Exists
  <2> HIDE DEF tokens
  <2>2. \/ lead'[c].tokens = {}
        \/ /\ Exists(session'[p].open[c])
           /\ lead'[c].tokens \subseteq {session'[p].open[c].token}
    BY <1>3, <1>6, <2>1
  <2> QED
    BY <1>1, <1>3, <1>6, <1>8, <1>10, <2>2 DEF Tokens, HoldsIssued
<1> QED
  BY <1>9, <1>10


\* The template was free, so the claim succeeds and the row goes on to its commit.
LEMMA ClaimKeepsTokens ==
    ASSUME Tokens, Alone, NEW p \in Session, Claim(p)
    PROVE  HoldsIssued'
<1> DEFINE r == session[p]
           x == [r EXCEPT !.pc = "move", !.key = @ \cup {r.card}]
<1>1. /\ r \in Request /\ session \in [Session -> Request] /\ Session = {p}
      /\ UNCHANGED <<entry, lead>>
  BY DEF Tokens, Entries, TypeOK, Alone, Claim
<1>2. session' = [session EXCEPT ![p] = x]
  BY DEF Claim, Tokens, ClaimsFree, At
<1>3. x.pc = "move" /\ x.card = r.card /\ x.open = r.open
  BY <1>1 DEF Request
<1> HIDE DEF x
<1>4. session'[p] = x
  BY <1>1, <1>2
<1> QED
  BY <1>1, <1>3, <1>4 DEF Tokens, HoldsIssued, Sent

\* A commit publishes the row that was sent.
LEMMA CommitKeepsTokens ==
    ASSUME Tokens, Alone, NEW p \in Session, Commit(p), UNCHANGED lead
    PROVE  HoldsIssued'
<1>1. \A c \in Card : Exists(entry[c]) => entry'[c] = entry[c]
  BY CommitPublishes DEF Tokens
<1>2. \A c \in Card : /\ Exists(session[p].open[c]) => entry'[c] = session[p].open[c]
                      /\ ~Exists(session[p].open[c]) => entry'[c] = entry[c]
  BY DEF Commit, Tokens, Entries, TypeOK
<1>3. Session = {p}
  BY DEF Alone
<1> QED
  BY <1>1, <1>2, <1>3 DEF Tokens, HoldsIssued

LEMMA TokensNext ==
    ASSUME Tokens, Alone, ~Faults, [Next]_vars
    PROVE  Tokens'
<1> USE DEF Tokens
<1>1. Entries' /\ TypeOK
  BY EntriesInductive DEF Entries
<1>2. ASSUME NEW p \in Session, SendDelivered(p) \/ SendTemplate(p) PROVE HoldsIssued'
  BY <1>2, SendingKeepsTokens
<1>3. ASSUME NEW p \in Session, Claim(p) PROVE HoldsIssued'
  BY <1>3, ClaimKeepsTokens
<1>4. ASSUME NEW p \in Session, Record(p) \/ Move(p) \/ Note(p) \/ Block(p) PROVE HoldsIssued'
  BY <1>4, CommitKeepsTokens DEF Record, Move, Note, Block
<1>5. ASSUME NEW p \in Session, Notify(p) PROVE HoldsIssued'
  <2> DEFINE c == session[p].card
             k == [lead[c] EXCEPT !.notices = lead[c].notices + 1]
  <2>1. lead' = lead \/ lead' = [lead EXCEPT ![c] = k]
    BY <1>5 DEF Notify
  <2>2. c \in Card /\ k.tokens = lead[c].tokens
    BY <1>1 DEF TypeOK, Request
  <2> HIDE DEF k
  <2>3. \A d \in Card : lead'[d].tokens = lead[d].tokens
    BY <1>1, <2>1, <2>2 DEF TypeOK
  <2>4. session[p].pc = "notify" /\ UNCHANGED entry /\ Session = {p}
    BY <1>5 DEF Notify, At, Alone
  <2>5. ASSUME NEW d \in Card, ~Exists(entry[d]) PROVE lead'[d].tokens = {}
    BY <2>3, <2>4, <2>5 DEF HoldsIssued, Sent
  <2>6. ASSUME NEW d \in Card, Exists(entry[d]) PROVE lead'[d].tokens \subseteq {entry'[d].token}
    BY <2>3, <2>4, <2>6 DEF HoldsIssued
  <2> QED
    BY <2>4, <2>5, <2>6 DEF HoldsIssued
<1>6. ASSUME NEW p \in Session,
             \/ Plan(p) \/ Insert(p) \/ Flush(p) \/ SendOutsideWindow(p) \/ SendFails(p)
             \/ TemplateNotSent(p) \/ Clear(p) \/ Close(p)
      PROVE  HoldsIssued'
  <2>1. session[p].pc \notin Sent /\ UNCHANGED <<lead, entry>>
    BY <1>6 DEF Plan, Insert, Flush, SendOutsideWindow, SendFails, TemplateNotSent, Clear, Close,
       At, Sent
  <2> QED
    BY <2>1, UnsentKeepsTokens
<1>7. ASSUME NEW p \in Session, Work(p) PROVE ClaimsFree'
  <2>1. session'[p].pc = "claim" => SendTemplate(p)
    BY <1>1, <1>7, ClaimFrom
  <2>2. ASSUME SendTemplate(p) PROVE session'[p].card \notin templated'
    <3>1. session'[p].card = session[p].card
      BY <1>1, <2>2 DEF SendTemplate, Goto, TypeOK, Request
    <3> QED
      BY <2>2, <3>1 DEF SendTemplate
  <2> QED
    BY <2>1, <2>2 DEF ClaimsFree, Alone, At
<1>8. ASSUME NEW p \in Session,
             \/ \E c \in Card, by \in {"user", "system"} : Validate(p, c, by)
             \/ \E c \in Card : RetryOnInbound(p, c) \/ GenerateEntry(p, c)
             \/ \E v \in Event, status \in {"open", "shut"} : EditEvent(p, v, status)
      PROVE  HoldsIssued' /\ ClaimsFree'
  <2>1. UNCHANGED <<entry, lead>> /\ session[p].pc = "idle"
    BY <1>8 DEF Validate, RetryOnInbound, EditEvent, GenerateEntry, Begin, At
  <2>2. HoldsIssued'
    BY <2>1, UnsentKeepsTokens DEF Sent
  <2>3. PICK cards \in SUBSET Card : \E view, button : Begin(p, cards, view, button)
    BY <1>8, SomeBegin
  <2>4. PICK view, button : Begin(p, cards, view, button)
    BY <2>3
  <2> DEFINE r     == [Idle EXCEPT !.todo = cards]
             start == Proceed(r)
             x     == [start EXCEPT !.snap = view, !.button = button]
  <2>5. start \in Request /\ start.pc # "claim" /\ Idle.pc # "claim"
    <3>1. r \in Request
      BY IdleType DEF Request
    <3> HIDE DEF r
    <3> QED
      BY <3>1, ProceedType DEF Idle
  <2>6. session' = [session EXCEPT ![p] = Idle] \/ session' = [session EXCEPT ![p] = x]
    BY <2>4 DEF Begin
  <2> HIDE DEF start
  <2>7. x.pc = start.pc
    BY <2>5 DEF Request
  <2> HIDE DEF x
  <2>8. session'[p].pc # "claim"
    BY <1>1, <2>5, <2>6, <2>7 DEF TypeOK
  <2> QED
    BY <2>2, <2>8 DEF ClaimsFree, Alone, At
<1>9. CASE \/ \E c \in Card, stage \in Stage : Drag(c, stage)
           \/ \E c \in Card, kind \in Kinds : SetService(c, kind)
           \/ \E c \in Card : Reject(c) \/ ExtraReceipt(c)
           \/ \E v \in Event : EventEnds(v) \/ DeleteEvent(v)
           \/ UNCHANGED vars
  <2>1. session' = session /\ lead' = lead /\ templated' = templated
    BY <1>9 DEF Drag, SetService, Reject, ExtraReceipt, EventEnds, DeleteEvent, vars
  <2>2. \A c \in Card : entry'[c].token = entry[c].token
    <3>1. CASE UNCHANGED entry
      BY <3>1
    <3>2. ASSUME NEW c \in Card, Reject(c)
          PROVE  \A x \in Card : entry'[x].token = entry[x].token
      BY <1>1, <3>2 DEF Reject, TypeOK, EntryRow
    <3>3. ASSUME NEW v \in Event, DeleteEvent(v)
          PROVE  \A x \in Card : entry'[x].token = entry[x].token
      BY <1>1, <3>3 DEF DeleteEvent, TypeOK, EntryRow
    <3> QED
      BY <1>9, <3>1, <3>2, <3>3 DEF Drag, SetService, ExtraReceipt, EventEnds, vars
  <2>3. HoldsIssued'
    BY <2>1, <2>2 DEF HoldsIssued, Exists
  <2>4. ClaimsFree'
    BY <2>1 DEF ClaimsFree, At
  <2> QED
    BY <1>1, <2>3, <2>4
<1>10. ASSUME NEW p \in Session, Crash(p) PROVE FALSE
  BY <1>10 DEF Crash
<1>11. HoldsIssued' /\ ClaimsFree'
  BY <1>2, <1>3, <1>4, <1>5, <1>6, <1>7, <1>8, <1>9, <1>10 DEF Next, Work
<1> QED
  BY <1>1, <1>11

\* When requests are served one at a time and none fails, a lead never holds two QR codes of
\* a card, however often its delivery is tried and however its entry was sent.
THEOREM OneQrOfACard == Alone /\ ~Faults /\ Spec => []OneToken
<1> SUFFICES ASSUME Alone, ~Faults PROVE Spec => []OneToken
  OBVIOUS
<1>1. Init => HoldsIssued /\ ClaimsFree
  <2> SUFFICES ASSUME Init PROVE HoldsIssued /\ ClaimsFree
    OBVIOUS
  <2>1. \A c \in Card : ~Exists(entry[c]) /\ lead[c].tokens = {}
    BY NoRowType DEF Init
  <2>2. \A p \in Session : session[p].pc = "idle"
    BY DEF Init, Idle
  <2> QED
    BY <2>1, <2>2 DEF HoldsIssued, ClaimsFree, At
<1>2. (HoldsIssued /\ ClaimsFree) /\ Entries /\ [Next]_vars => (HoldsIssued /\ ClaimsFree)'
  BY TokensNext DEF Tokens
<1>3. HoldsIssued => OneToken
  <2> SUFFICES ASSUME HoldsIssued, NEW c \in Card PROVE Cardinality(lead[c].tokens) <= 1
    BY DEF OneToken
  <2>1. PICK t : lead[c].tokens \in SUBSET {t}
    BY DEF HoldsIssued
  <2>2. IsFiniteSet({t}) /\ Cardinality({t}) = 1
    BY FS_Singleton
  <2> QED
    BY <2>1, <2>2, FS_Subset
<1> QED
  BY <1>1, <1>2, <1>3, EntriesAlways, PTL DEF Spec
=============================================================================
