------------------------------- MODULE Receipt -------------------------------
(***************************************************************************)
(* The validation of payment receipts.  The photo a lead sends is queued   *)
(* by the webhook before its row is committed, and again by the turn that  *)
(* leaves the card waiting for the payment; the vision worker looks at the *)
(* card, has the photo read, compares and stores a verdict, and moves the  *)
(* card of a green one if it still waits.  Operators validate, drag and    *)
(* reconcile the same cards while it works.                                *)
(***************************************************************************)
EXTENDS Naturals, Sequences, FiniteSets, SequencesExt

CONSTANTS
    Card,           \* opportunities
    Selling,        \* those the agent is still selling to
    Photo,          \* WhatsApp messages with a photo, by wamid
    Image,          \* contents of a photo, by sha256
    Transfer,       \* numbers of transaction at the bank
    Sends,          \* who may send what: photo, card and image
    Shows,          \* the transfer each image shows
    Unopenable,     \* images no longer on the disk, too large or not an image
    Reading,        \* what the model and the checks may make of an image
    None,           \* NULL
    Worker,         \* consumers of agent:vision
    Slow,           \* whether a job may outlast the TTL of its lock
    MaxQueue,       \* bound: jobs in agent:vision
    MaxActs,        \* bound: what people do and what fails in a behaviour
    Overlap,        \* whether a person may act between the fresh read and the move
    Targets         \* stages a person drags a card to

Stage   == {"sale", "PAYMENT_VALIDATION", "PAYMENT_VALIDATED", "DELIVERED",
            "HUMAN_INTAKE", "HUMAN_LOST"}

ASSUME ImagesShowTransfers == Shows \in [Image -> Transfer]
ASSUME UnopenableAreImages == Unopenable \subseteq Image
ASSUME SendsAreMessages    == Sends \subseteq Photo \X Card \X Image
ASSUME SellingAreCards     == Selling \subseteq Card
ASSUME NoneIsNoTransfer    == None \notin Transfer
ASSUME PassedIsLegible     ==
    /\ Reading \subseteq [passed : BOOLEAN, legible : BOOLEAN]
    /\ \A r \in Reading : r.passed => r.legible
ASSUME SlowIsBoolean       == Slow \in BOOLEAN
ASSUME OverlapIsBoolean    == Overlap \in BOOLEAN
ASSUME TargetsAreStages    == Targets \subseteq Stage
ASSUME SomeToChoose        == Card # {} /\ Photo # {} /\ Image # {}
ASSUME PhotosAreFinite     == IsFiniteSet(Photo)
ASSUME BoundsAreNumbers    == MaxQueue \in Nat /\ MaxActs \in Nat

VARIABLES
    photo,          \* the message of each photo
    card,           \* stage and avisos of each card
    receipt,        \* payment_receipt, oldest first
    queue,          \* agent:vision, oldest first
    lock,           \* vision locks held in Redis
    job,            \* what each worker is doing
    turn,           \* the dispatch job of each conversation and its mark
    dead,           \* photos whose job died with its process
    acts            \* how much people have done and how much has failed

bounds == <<dead, acts>>
vars   == <<photo, card, receipt, queue, lock, job, turn, dead, acts>>

Flag    == {"receipt_review", "payment_unconfirmed"}
Message == [state : {"none", "arriving", "kept", "undone"}, card : Card, image : Image]

\* image_sha256 holds the hash or a placeholder made of the wamid.
Sha == ({"sha"} \X Image) \cup ({"unreadable", "reused"} \X Photo)

Row == [photo : Photo, card : Card, sha : Sha, reference : Transfer \cup {None},
        extracted : Transfer \cup {None}, green : BOOLEAN,
        approved : {"nobody", "system", "user", "drag"}, note : BOOLEAN,
        confirmed : BOOLEAN, rejected : BOOLEAN]

PC   == {"idle", "look", "read", "store", "compare", "move", "release"}
Work == [pc : PC, photo : Photo, flags : SUBSET Flag, sha : Sha,
         extracted : Transfer \cup {None}, green : BOOLEAN]
Idle == [pc |-> "idle", photo |-> CHOOSE p \in Photo : TRUE, flags |-> {},
         sha |-> <<"sha", CHOOSE i \in Image : TRUE>>, extracted |-> None, green |-> FALSE]

Turn == [pc : {"idle", "answered", "synced"}, due : BOOLEAN, handoff : BOOLEAN,
         before : SUBSET Photo, mark : SUBSET Photo]

Init ==
    /\ photo = [p \in Photo |-> [state |-> "none", card |-> CHOOSE c \in Card : TRUE,
                                 image |-> CHOOSE i \in Image : TRUE]]
    /\ card = [c \in Card |-> [stage |-> IF c \in Selling THEN "sale" ELSE "PAYMENT_VALIDATION",
                             flags |-> {}]]
    /\ receipt = <<>> /\ queue = <<>> /\ lock = {}
    /\ job = [w \in Worker |-> Idle]
    /\ turn = [c \in Card |-> [pc |-> "idle", due |-> FALSE, handoff |-> FALSE,
                               before |-> {}, mark |-> {}]]
    /\ dead = {} /\ acts = 0

-----------------------------------------------------------------------------
(* payment_receipt, as its repository asks for it. *)

Rows == ToSet(receipt)

already_processed(p) == \E r \in Rows : r.photo = p
BySha(s)             == {r \in Rows : r.sha = s}
ByReference(t)       == {r \in Rows : r.reference = t}
OfCard(c)            == {i \in DOMAIN receipt : receipt[i].card = c}
Latest(c)            == CHOOSE i \in OfCard(c) : \A j \in OfCard(c) : j <= i

\* Payments the system approved and nobody has looked up at the bank.
ListPendingConfirmation ==
    {r \in Rows : r.green /\ ~r.note /\ ~r.confirmed /\ ~r.rejected}

Waiting(c) == card[c].stage = "PAYMENT_VALIDATION"

Act == acts < MaxActs /\ acts' = acts + 1

-----------------------------------------------------------------------------
(* The webhook and the dispatch job of a turn. *)

\* The request of a photo: its job is queued, its row is not committed yet.  A
\* photo for a card whose payment was processed is not sent to be validated.
Arrive(p) ==
    /\ photo[p].state \in {"none", "undone"} /\ Len(queue) < MaxQueue
    /\ \E c \in Card, i \in Image :
         /\ <<p, c, i>> \in Sends
         /\ photo[p].state = "undone" => c = photo[p].card /\ i = photo[p].image
         /\ photo' = [photo EXCEPT ![p] = [state |-> "arriving", card |-> c, image |-> i]]
         /\ queue' = IF card[c].stage \in {"PAYMENT_VALIDATED", "DELIVERED"}
                     THEN queue ELSE Append(queue, p)
    /\ UNCHANGED <<card, receipt, lock, job, turn, bounds>>

\* The request commits, and the turn it queued finds the photo.
Keep(p) ==
    /\ photo[p].state = "arriving"
    /\ photo' = [photo EXCEPT ![p].state = "kept"]
    /\ turn' = [turn EXCEPT ![photo[p].card].due = TRUE]
    /\ UNCHANGED <<card, receipt, queue, lock, job, bounds>>

\* The request fails after queueing the job: its transaction is rolled back,
\* and WhatsApp sends the message again.
Undo(p) ==
    /\ photo[p].state = "arriving" /\ Act
    /\ photo' = [photo EXCEPT ![p].state = "undone"]
    /\ UNCHANGED <<card, receipt, queue, lock, job, turn, dead>>

\* A text of the lead makes another turn.
LeadWrites(c) ==
    /\ ~turn[c].due /\ Len(queue) < MaxQueue /\ Act
    /\ turn' = [turn EXCEPT ![c].due = TRUE]
    /\ UNCHANGED <<photo, card, receipt, queue, lock, job, dead>>

Kept(c) == {p \in Photo : photo[p].state = "kept" /\ photo[p].card = c}

\* The agent answers everything it finds, and may hand the conversation over
\* for its receipt; in the human pipeline it is silent and the mark stays.
Answer(c) ==
    /\ turn[c].pc = "idle" /\ turn[c].due
    /\ \E handoff \in (IF card[c].stage = "sale" THEN BOOLEAN ELSE {FALSE}) :
         turn' = [turn EXCEPT ![c] =
                    [pc |-> "answered", due |-> FALSE, handoff |-> handoff,
                     before |-> @.mark,
                     mark |-> IF card[c].stage = "sale" THEN Kept(c) ELSE @.mark]]
    /\ UNCHANGED <<photo, card, receipt, queue, lock, job, bounds>>

\* The projection of the funnel leaves the card waiting for its payment.
Sync(c) ==
    /\ turn[c].pc = "answered"
    /\ card' = [card EXCEPT ![c].stage =
                  IF turn[c].handoff /\ @ = "sale" THEN "PAYMENT_VALIDATION" ELSE @]
    /\ turn' = [turn EXCEPT ![c].pc = "synced"]
    /\ UNCHANGED <<photo, receipt, queue, lock, job, bounds>>

\* Mutant of Trigger: nobody queues the photos of a turn again.
NoTrigger(c) ==
    /\ turn[c].pc = "synced"
    /\ turn' = [turn EXCEPT ![c] = [@ EXCEPT !.pc = "idle", !.handoff = FALSE, !.before = {}]]
    /\ UNCHANGED <<photo, card, receipt, queue, lock, job, bounds>>

\* enqueue_receipts_awaiting_validation: the photos above the mark the turn
\* started from, when the card waits and nobody has given a verdict on them.
Trigger(c) ==
    /\ turn[c].pc = "synced"
    /\ turn' = [turn EXCEPT ![c] = [@ EXCEPT !.pc = "idle", !.handoff = FALSE, !.before = {}]]
    /\ queue' = IF Waiting(c)
                THEN queue \o SetToSeq({p \in Kept(c) \ turn[c].before : ~already_processed(p)})
                ELSE queue
    /\ UNCHANGED <<photo, card, receipt, lock, job, bounds>>

-----------------------------------------------------------------------------
(* The vision worker. *)

At(w, pc) == job[w].pc = pc
Holder(p) == {w \in Worker : job[w].pc # "idle" /\ job[w].photo = p}

\* A copy of a photo whose lock is held is thrown away.
Pop(w) ==
    /\ At(w, "idle") /\ queue # <<>>
    /\ queue' = Tail(queue)
    /\ IF Head(queue) \in lock THEN UNCHANGED <<lock, job>>
       ELSE /\ lock' = lock \cup {Head(queue)}
            /\ job' = [job EXCEPT ![w] = [Idle EXCEPT !.pc = "look", !.photo = Head(queue)]]
    /\ UNCHANGED <<photo, card, receipt, turn, bounds>>

Goto(w, pc) == job' = [job EXCEPT ![w].pc = pc]

\* The photo of the job, where its row is committed and its file opens.
Opens(p) == photo[p].state = "kept" /\ photo[p].image \notin Unopenable

\* Failed before it is read: the verdict is a human's.
Unread(w, sha) ==
    LET seen == card[photo[job[w].photo].card].flags
    IN job' = [job EXCEPT ![w].pc = "store", ![w].flags = seen, ![w].sha = sha]

\* Mutant of Look: nobody asks whether the message was processed.
LookAgain(w) ==
    LET p    == job[w].photo
        c    == photo[p].card
        same == BySha(<<"sha", photo[p].image>>)
    IN /\ At(w, "look")
       /\ IF ~Waiting(c) \/ (Opens(p) /\ same # {}) THEN Goto(w, "release")
          ELSE IF Opens(p)
          THEN job' = [job EXCEPT ![w].pc = "read", ![w].flags = card[c].flags,
                                  ![w].sha = <<"sha", photo[p].image>>]
          ELSE Unread(w, <<"unreadable", p>>)
       /\ UNCHANGED <<photo, card, receipt, queue, lock, turn, bounds>>

\* validate(), up to the call to the model: what it reads of the card and of the
\* receipts is read here.
Look(w) ==
    LET p    == job[w].photo
        c    == photo[p].card
        same == BySha(<<"sha", photo[p].image>>)
    IN /\ At(w, "look")
       /\ \/ /\ already_processed(p) \/ ~Waiting(c)
             /\ Goto(w, "release")
          \/ /\ ~already_processed(p) /\ Waiting(c) /\ ~Opens(p)
             /\ Unread(w, <<"unreadable", p>>)
          \/ /\ ~already_processed(p) /\ Waiting(c) /\ Opens(p)
             /\ \E r \in same : r.card = c
             /\ Goto(w, "release")
          \/ /\ ~already_processed(p) /\ Waiting(c) /\ Opens(p)
             /\ \E r \in same : r.card # c
             /\ Unread(w, <<"reused", p>>)
          \/ /\ ~already_processed(p) /\ Waiting(c) /\ Opens(p) /\ same = {}
             /\ job' = [job EXCEPT ![w].pc = "read", ![w].flags = card[c].flags,
                                  ![w].sha = <<"sha", photo[p].image>>]
       /\ UNCHANGED <<photo, card, receipt, queue, lock, turn, bounds>>

\* with_reuse_check: a transaction already stored turns the verdict red.
WithReuseCheck(passed, t) == passed /\ ByReference(t) = {}

\* The model answers, the checks run and the transaction is looked up.
Read(w) ==
    LET t == Shows[job[w].sha[2]]
    IN /\ At(w, "read")
       /\ \E r \in Reading :
            job' = [job EXCEPT ![w].pc = "store",
                               ![w].extracted = IF r.legible THEN t ELSE None,
                               ![w].green = WithReuseCheck(r.passed, t)]
       /\ UNCHANGED <<photo, card, receipt, queue, lock, turn, bounds>>

\* Mutant of NewRow: an image that was not read is named by its wamid alone.
NewRowUnprefixed(j) ==
    [photo |-> j.photo, card |-> photo[j.photo].card,
     sha |-> IF j.sha[1] = "sha" THEN j.sha ELSE <<"sha", j.photo>>,
     reference |-> IF j.green THEN j.extracted ELSE None, extracted |-> j.extracted,
     green |-> j.green, approved |-> "nobody", note |-> FALSE,
     confirmed |-> FALSE, rejected |-> FALSE]

\* The reference is stored only with a green verdict.
NewRow(j) ==
    [photo |-> j.photo, card |-> photo[j.photo].card, sha |-> j.sha,
     reference |-> IF j.green THEN j.extracted ELSE None, extracted |-> j.extracted,
     green |-> j.green, approved |-> "nobody", note |-> FALSE,
     confirmed |-> FALSE, rejected |-> FALSE]

\* Mutant of Conflict: without the constraints of the table.
NoConflict(row) == FALSE

\* The two unique constraints of payment_receipt.
Conflict(row) == \/ BySha(row.sha) # {}
                 \/ row.reference # None /\ ByReference(row.reference) # {}

\* Mutant of SetFlags: the list is appended to in place, which is not written.
SetFlagsInPlace(c, seen, flags) == UNCHANGED card

\* A list equal to the one that was loaded is not written.
SetFlags(c, seen, flags) ==
    card' = IF flags = seen THEN card ELSE [card EXCEPT ![c].flags = flags]

\* persist(), the avisos and the first commit.  A broken constraint ends the
\* job, which is logged and not tried again.
Store(w) ==
    LET row == NewRow(job[w])
    IN /\ At(w, "store")
       /\ IF Conflict(row)
          THEN Goto(w, "release") /\ UNCHANGED <<receipt, card>>
          ELSE /\ receipt' = Append(receipt, row)
               /\ SetFlags(row.card, job[w].flags,
                           IF row.green
                           THEN (job[w].flags \ {"receipt_review"}) \cup {"payment_unconfirmed"}
                           ELSE job[w].flags \cup {"receipt_review"})
               /\ Goto(w, IF row.green THEN "compare" ELSE "release")
       /\ UNCHANGED <<photo, queue, lock, turn, bounds>>

\* Mutant of Compare: the card it read at the beginning is good enough.
CompareSnapshot(w) ==
    /\ At(w, "compare") /\ Goto(w, "move")
    /\ UNCHANGED <<photo, card, receipt, queue, lock, turn, bounds>>

\* still_awaiting_payment: the card is read again from the database.
Compare(w) ==
    /\ At(w, "compare")
    /\ Goto(w, IF Waiting(photo[job[w].photo].card) THEN "move" ELSE "release")
    /\ UNCHANGED <<photo, card, receipt, queue, lock, turn, bounds>>

\* The approval is recorded and the card moved in one commit.
Approve(w) ==
    LET p == job[w].photo
    IN /\ At(w, "move")
       /\ receipt' = [i \in DOMAIN receipt |->
                        IF receipt[i].photo = p /\ receipt[i].green
                        THEN [receipt[i] EXCEPT !.approved = "system"] ELSE receipt[i]]
       /\ card' = [card EXCEPT ![photo[p].card].stage = "PAYMENT_VALIDATED"]
       /\ Goto(w, "release")
       /\ UNCHANGED <<photo, queue, lock, turn, bounds>>

\* The key has no owner: a job that lost it deletes that of the next.
Release(w) ==
    /\ At(w, "release")
    /\ lock' = lock \ {job[w].photo}
    /\ job' = [job EXCEPT ![w] = Idle]
    /\ UNCHANGED <<photo, card, receipt, queue, turn, bounds>>

\* The process dies: the job was popped, and its lock stays until it expires.
Crash(w) ==
    /\ ~At(w, "idle") /\ Act
    /\ job' = [job EXCEPT ![w] = Idle]
    /\ dead' = dead \cup {job[w].photo}
    /\ UNCHANGED <<photo, card, receipt, queue, lock, turn>>

\* The TTL is set once, with the key, and nothing renews it: where jobs may be slow it
\* ends under them.
Expire(p) ==
    /\ p \in lock
    /\ Slow \/ Holder(p) = {}
    /\ lock' = lock \ {p}
    /\ UNCHANGED <<photo, card, receipt, queue, job, turn, bounds>>

-----------------------------------------------------------------------------
(* People at the board. *)

\* A person may act unless an approval is between its fresh read and its commit.
MayAct(c) == Overlap \/ \A w \in Worker : At(w, "move") => photo[job[w].photo].card # c

\* Mutant of Claim: a manual approval leaves the constraint free.
NoClaim(row) == row

\* _claim_reference: what a person approves takes the transaction, unless some
\* other payment has it.
Claim(row) ==
    IF row.reference = None /\ row.extracted # None /\ ByReference(row.extracted) = {}
    THEN [row EXCEPT !.reference = row.extracted] ELSE row

\* validate_payment: the first approval counts; a red receipt needs a note.
Validate(c) ==
    /\ card[c].stage # "DELIVERED" /\ MayAct(c) /\ Act
    /\ \E note \in BOOLEAN :
         IF OfCard(c) = {} THEN UNCHANGED receipt
         ELSE LET i == Latest(c)
                  r == receipt[i]
              IN /\ r.green \/ note
                 /\ receipt' = [receipt EXCEPT ![i] =
                      Claim([r EXCEPT !.note = r.note \/ note,
                                      !.approved = IF @ = "nobody" THEN "user" ELSE @])]
    /\ card' = [card EXCEPT ![c] = [stage |-> "PAYMENT_VALIDATED",
                                    flags |-> @.flags \ {"receipt_review"}]]
    /\ UNCHANGED <<photo, queue, lock, job, turn, dead>>

\* The delivery that follows a validated payment moves the card on.
Deliver(c) ==
    /\ card[c].stage = "PAYMENT_VALIDATED"
    /\ card' = [card EXCEPT ![c].stage = "DELIVERED"]
    /\ UNCHANGED <<photo, receipt, queue, lock, job, turn, bounds>>

\* _record_manual_approval: dragging to the validated payment approves the latest
\* receipt, if nobody has, and takes no transaction.
RecordManualApproval(c, s) ==
    IF s = "PAYMENT_VALIDATED" /\ OfCard(c) # {} /\ receipt[Latest(c)].approved = "nobody"
    THEN /\ receipt' = [receipt EXCEPT ![Latest(c)].approved = "drag"]
         /\ card' = [card EXCEPT ![c] = [stage |-> s, flags |-> @.flags \ {"receipt_review"}]]
    ELSE /\ card' = [card EXCEPT ![c].stage = s]
         /\ UNCHANGED receipt

Drag(c) ==
    /\ MayAct(c) /\ Act
    /\ \E s \in Targets \ {card[c].stage} : RecordManualApproval(c, s)
    /\ UNCHANGED <<photo, queue, lock, job, turn, dead>>

Confirm(i) ==
    LET c == receipt[i].card
    IN /\ ~receipt[i].confirmed /\ Act
       /\ receipt' = [receipt EXCEPT ![i].confirmed = TRUE]
       /\ card' = [card EXCEPT ![c].flags = @ \ {"payment_unconfirmed"}]
       /\ UNCHANGED <<photo, queue, lock, job, turn, dead>>

\* The money did not arrive: whatever the card had become is lost.
Reject(i) ==
    LET c == receipt[i].card
    IN /\ ~receipt[i].rejected /\ MayAct(c) /\ Act
       /\ receipt' = [receipt EXCEPT ![i].rejected = TRUE, ![i].note = TRUE]
       /\ card' = [card EXCEPT ![c] = [stage |-> "HUMAN_LOST",
                                       flags |-> @.flags \ {"payment_unconfirmed"}]]
       /\ UNCHANGED <<photo, queue, lock, job, turn, dead>>

-----------------------------------------------------------------------------
Webhook(p) == Arrive(p) \/ Keep(p) \/ Undo(p)
TurnOf(c)  == Answer(c) \/ Sync(c) \/ Trigger(c)
Vision(w)  == \/ Pop(w) \/ Look(w) \/ Read(w) \/ Store(w)
              \/ Compare(w) \/ Approve(w) \/ Release(w)
Person(c)  == Validate(c) \/ Drag(c)

Next ==
    \/ \E p \in Photo : Webhook(p) \/ Expire(p)
    \/ \E c \in Card : LeadWrites(c) \/ TurnOf(c) \/ Person(c) \/ Deliver(c)
    \/ \E w \in Worker : Vision(w) \/ Crash(w)
    \/ \E i \in DOMAIN receipt : Confirm(i) \/ Reject(i)

Spec == Init /\ [][Next]_vars

\* Requests and turns end, and the loops of the workers go on.
Fairness ==
    /\ \A p \in Photo : WF_vars(Keep(p)) /\ WF_vars(Expire(p))
    /\ \A c \in Card : WF_vars(TurnOf(c))
    /\ \A w \in Worker : WF_vars(Vision(w))

FairSpec == Spec /\ Fairness

-----------------------------------------------------------------------------
(* Properties. *)

\* Every variable keeps to its type.
TypeOK ==
    /\ photo \in [Photo -> Message]
    /\ card \in [Card -> [stage : Stage, flags : SUBSET Flag]]
    /\ receipt \in Seq(Row) /\ queue \in Seq(Photo) /\ lock \subseteq Photo
    /\ job \in [Worker -> Work] /\ turn \in [Card -> Turn]
    /\ dead \subseteq Photo /\ acts \in 0 .. MaxActs

\* The two defences against paying twice with one receipt
\* (payment_models.py:72-75): no two rows hold the same image, none the same
\* number of transaction.
OneRowEach ==
    \A i, j \in DOMAIN receipt : i # j =>
        /\ receipt[i].sha # receipt[j].sha
        /\ receipt[i].reference = None \/ receipt[i].reference # receipt[j].reference

\* Approved by the system or from the panel of the receipt.
Claiming == {"system", "user"}

\* The transaction of a payment approved by the system or from the panel is taken, so that
\* no other payment can be approved alone with it (receipt_review_service.py:121-124).
ApprovedIsClaimed ==
    \A r \in Rows : r.approved \in Claiming /\ r.extracted # None => ByReference(r.extracted) # {}

\* A transfer that such a receipt shows validates no other payment by itself, even when a
\* person approves it while the model reads the other one.
UsedTransferIsRed ==
    [][ \A r \in ToSet(receipt') :
          r.green /\ ~already_processed(r.photo) =>
            \A q \in Rows : q.approved \in Claiming => q.extracted # r.extracted ]_vars

\* The same of every approval, which a card dragged to "Pago validado" breaks: the drag
\* records the approval and leaves the transaction free.
ApprovedStaysUsed ==
    [][ \A r \in ToSet(receipt') :
          r.green /\ ~already_processed(r.photo) =>
            \A q \in Rows : q.approved # "nobody" => q.extracted # r.extracted ]_vars

\* A message gets one verdict, however often its job is queued and although its lock
\* expires (payment_receipt_repository.py:20).  No index says so: two consumers break it.
OneVerdict ==
    \A i, j \in DOMAIN receipt : receipt[i].photo = receipt[j].photo => i = j

\* One green verdict, so one approval by the system, even where it gets several: what two
\* jobs of a message read is the same image, which the table takes once.
PaysOnce ==
    \A i, j \in DOMAIN receipt :
        /\ receipt[i].photo = receipt[j].photo
        /\ receipt[i].green /\ receipt[j].green
        => i = j

\* The board says what is left to do.  A card that waits with a red receipt nobody has
\* decided on says so, whatever avisos it had while the photo was read
\* (receipt_validation_service.py:176-181); and a payment the system approved says that
\* nobody looked it up at the bank until somebody did, whatever else happens to its card
\* (card_flags.py:39-40).
AvisosAreShown ==
    \A c \in Card : OfCard(c) # {} =>
        /\ LET r == receipt[Latest(c)]
           IN Waiting(c) /\ ~r.green /\ r.approved = "nobody" /\ ~r.rejected
                => "receipt_review" \in card[c].flags
        /\ /\ \E i \in OfCard(c) : receipt[i].approved = "system"
           /\ \A i \in OfCard(c) : ~receipt[i].confirmed /\ ~receipt[i].rejected
           => "payment_unconfirmed" \in card[c].flags

\* Each payment the system approved is in the list of reconciliation until
\* somebody looks it up (payment_reconciliation_service.py:4-5).
QueuedUntilReconciled ==
    \A r \in Rows : r.approved = "system" /\ ~r.confirmed /\ ~r.rejected
                       => r \in ListPendingConfirmation

\* The decision of a person wins over a verdict that was being reached
\* (receipt_validation_service.py:16-17): the system approves only where the card waits
\* for its payment at that moment and nobody has rejected the receipt.
PersonDecides ==
    [][ \A i \in DOMAIN receipt :
          receipt[i].approved = "nobody" /\ receipt'[i].approved = "system" =>
              Waiting(receipt[i].card) /\ ~receipt[i].rejected ]_vars

\* The photos somebody has to look at: those the turn that hands the card over
\* has answered, and those that come while it waits.
Owed(p) ==
    LET c == photo[p].card
    IN /\ photo[p].state = "kept"
       /\ \/ Waiting(c) /\ p \notin turn[c].mark
          \/ turn[c].pc = "answered" /\ turn[c].handoff /\ p \in turn[c].mark \ turn[c].before

\* The image or the transaction of the photo is already known.
Known(p) == \/ \E r \in BySha(<<"sha", photo[p].image>>) : r.card = photo[p].card
            \/ ByReference(Shows[photo[p].image]) # {}

\* No receipt is dropped silently by a job that ran too early
\* (receipt_trigger.py:3-9): every photo that is owed a look gets its verdict,
\* unless its job died, its image or transaction is known already, or the card
\* left the stage of payments.
PhotoLookedAt ==
    \A p \in Photo : Owed(p) ~>
        \/ already_processed(p) \/ p \in dead \/ Known(p)
        \/ card[photo[p].card].stage \notin {"sale", "PAYMENT_VALIDATION"}
=============================================================================
