--------------------------- MODULE Receipt_proofs ---------------------------
(***************************************************************************)
(* Proofs about Receipt, for any cards, photos, images, transfers and      *)
(* workers, and with every crash and every act of a person.                *)
(***************************************************************************)
EXTENDS Receipt, FiniteSetTheorems, SequenceTheorems, TLAPS

-----------------------------------------------------------------------------
(* Types. *)

\* A worker that is about to read has the hash of an image.
ReadsAnImage == \A w \in Worker : job[w].pc = "read" => job[w].sha \in {"sha"} \X Image

Typed == TypeOK /\ ReadsAnImage

LEMMA BlankJob == Idle \in Work /\ Idle.pc = "idle" /\ ~Idle.green
BY SomeToChoose DEF Idle, Work, PC, Sha

LEMMA TypedInit == Init => Typed
<1> SUFFICES ASSUME Init PROVE Typed
  OBVIOUS
<1>1. photo \in [Photo -> Message]
  BY SomeToChoose DEF Init, Message
<1>2. card \in [Card -> [stage : Stage, flags : SUBSET Flag]]
  BY DEF Init, Stage
<1>3. turn \in [Card -> Turn]
  BY DEF Init, Turn
<1>4. job \in [Worker -> Work] /\ ReadsAnImage
  BY BlankJob DEF Init, ReadsAnImage
<1> QED
  BY <1>1, <1>2, <1>3, <1>4, BoundsAreNumbers DEF Init, Typed, TypeOK

\* A sequence of the members of a set of photos.
LEMMA PhotosInSequence ==
    ASSUME NEW S \in SUBSET Photo
    PROVE  SetToSeq(S) \in Seq(S) /\ SetToSeq(S) \in Seq(Photo)
<1>1. IsFiniteSet(S)
  BY PhotosAreFinite, FS_Subset
<1>2. PICK n \in Nat : ExistsBijection(1 .. n, S)
  BY <1>1, FS_NatBijection
<1>3. Cardinality(S) = n
  BY <1>1, <1>2, FS_CountingElements
<1>4. PICK f : f \in Bijection(1 .. n, S)
  BY <1>2 DEF ExistsBijection
<1>5. f \in [1 .. Cardinality(S) -> S] /\ IsInjective(f)
  BY <1>3, <1>4 DEF Bijection, Injection, Surjection, IsInjective
<1>6. SetToSeq(S) \in [1 .. Cardinality(S) -> S]
  BY <1>5 DEF SetToSeq
<1> QED
  BY <1>1, <1>3, <1>6

\* Steps that put a job of the right form where one was.
LEMMA PutJob ==
    ASSUME Typed, NEW w \in Worker, NEW j \in Work, job' = [job EXCEPT ![w] = j],
           j.pc = "read" => j.sha \in {"sha"} \X Image
    PROVE  job' \in [Worker -> Work] /\ ReadsAnImage'
BY DEF Typed, TypeOK, ReadsAnImage

LEMMA TypedGoto ==
    ASSUME Typed, NEW w \in Worker, NEW pc \in PC, pc # "read", Goto(w, pc)
    PROVE  job' \in [Worker -> Work] /\ ReadsAnImage'
<1> DEFINE j == [job[w] EXCEPT !.pc = pc]
<1>1. job[w] \in Work
  BY DEF Typed, TypeOK
<1>2. j \in Work /\ j.pc = pc
  BY <1>1 DEF Work
<1>3. job' = [job EXCEPT ![w] = j]
  BY DEF Goto
<1> QED
  BY <1>2, <1>3, PutJob

LEMMA TypedUnread ==
    ASSUME Typed, NEW w \in Worker, NEW s \in Sha, Unread(w, s)
    PROVE  job' \in [Worker -> Work] /\ ReadsAnImage'
<1> DEFINE seen == card[photo[job[w].photo].card].flags
           j == [job[w] EXCEPT !.pc = "store", !.flags = seen, !.sha = s]
<1>1. job[w] \in Work
  BY DEF Typed, TypeOK
<1>2. seen \in SUBSET Flag
  BY <1>1 DEF Typed, TypeOK, Work, Message
<1>3. j \in Work /\ j.pc = "store"
  BY <1>1, <1>2 DEF Work, PC
<1>4. job' = [job EXCEPT ![w] = j]
  BY DEF Unread
<1> QED
  BY <1>3, <1>4, PutJob

-----------------------------------------------------------------------------
(* The webhook and the turns keep the types. *)

LEMMA TypedArrive == ASSUME Typed, NEW p \in Photo, Arrive(p) PROVE Typed'
<1> PICK c \in Card, i \in Image :
      /\ photo' = [photo EXCEPT ![p] = [state |-> "arriving", card |-> c, image |-> i]]
      /\ queue' = IF card[c].stage \in {"PAYMENT_VALIDATED", "DELIVERED"}
                  THEN queue ELSE Append(queue, p)
  BY DEF Arrive
<1>1. photo' \in [Photo -> Message]
  BY DEF Typed, TypeOK, Message
<1>2. queue' \in Seq(Photo)
  BY DEF Typed, TypeOK
<1> QED
  BY <1>1, <1>2 DEF Arrive, Typed, TypeOK, ReadsAnImage, bounds

LEMMA TypedKeep == ASSUME Typed, NEW p \in Photo, Keep(p) PROVE Typed'
<1> DEFINE c == photo[p].card
           m == [photo[p] EXCEPT !.state = "kept"]
           t == [turn[c] EXCEPT !.due = TRUE]
<1>1. photo[p] \in Message /\ c \in Card
  BY DEF Typed, TypeOK, Message
<1>2. m \in Message
  BY <1>1 DEF Message
<1>3. photo' = [photo EXCEPT ![p] = m] /\ turn' = [turn EXCEPT ![c] = t]
  BY DEF Keep
<1>4. t \in Turn
  BY <1>1 DEF Typed, TypeOK, Turn
<1> QED
  BY <1>1, <1>2, <1>3, <1>4 DEF Keep, Typed, TypeOK, ReadsAnImage, bounds

LEMMA TypedUndo == ASSUME Typed, NEW p \in Photo, Undo(p) PROVE Typed'
<1> DEFINE m == [photo[p] EXCEPT !.state = "undone"]
<1>1. m \in Message /\ photo' = [photo EXCEPT ![p] = m]
  BY DEF Undo, Typed, TypeOK, Message
<1>2. acts' \in 0 .. MaxActs
  BY BoundsAreNumbers DEF Undo, Act, Typed, TypeOK
<1> QED
  BY <1>1, <1>2 DEF Undo, Typed, TypeOK, ReadsAnImage

LEMMA TypedLeadWrites == ASSUME Typed, NEW c \in Card, LeadWrites(c) PROVE Typed'
<1> DEFINE t == [turn[c] EXCEPT !.due = TRUE]
<1>1. t \in Turn /\ turn' = [turn EXCEPT ![c] = t]
  BY DEF LeadWrites, Typed, TypeOK, Turn
<1>2. acts' \in 0 .. MaxActs
  BY BoundsAreNumbers DEF LeadWrites, Act, Typed, TypeOK
<1> QED
  BY <1>1, <1>2 DEF LeadWrites, Typed, TypeOK, ReadsAnImage

LEMMA TypedAnswer == ASSUME Typed, NEW c \in Card, Answer(c) PROVE Typed'
<1> PICK handoff \in BOOLEAN :
      turn' = [turn EXCEPT ![c] =
                 [pc |-> "answered", due |-> FALSE, handoff |-> handoff,
                  before |-> turn[c].mark,
                  mark |-> IF card[c].stage = "sale" THEN Kept(c) ELSE turn[c].mark]]
  BY DEF Answer
<1>1. turn[c] \in Turn /\ Kept(c) \in SUBSET Photo
  BY DEF Typed, TypeOK, Kept
<1>2. turn' \in [Card -> Turn]
  BY <1>1 DEF Typed, TypeOK, Turn
<1> QED
  BY <1>2 DEF Answer, Typed, TypeOK, ReadsAnImage, bounds

LEMMA TypedSync == ASSUME Typed, NEW c \in Card, Sync(c) PROVE Typed'
<1> DEFINE s == IF turn[c].handoff /\ card[c].stage = "sale"
                THEN "PAYMENT_VALIDATION" ELSE card[c].stage
           k == [card[c] EXCEPT !.stage = s]
           t == [turn[c] EXCEPT !.pc = "synced"]
<1>1. k \in [stage : Stage, flags : SUBSET Flag] /\ card' = [card EXCEPT ![c] = k]
  BY DEF Sync, Typed, TypeOK, Stage
<1>2. t \in Turn /\ turn' = [turn EXCEPT ![c] = t]
  BY DEF Sync, Typed, TypeOK, Turn
<1> QED
  BY <1>1, <1>2 DEF Sync, Typed, TypeOK, ReadsAnImage, bounds

LEMMA TypedTrigger == ASSUME Typed, NEW c \in Card, Trigger(c) PROVE Typed'
<1> DEFINE t == [turn[c] EXCEPT !.pc = "idle", !.handoff = FALSE, !.before = {}]
           S == {p \in Kept(c) \ turn[c].before : ~already_processed(p)}
<1>1. t \in Turn /\ turn' = [turn EXCEPT ![c] = t]
  BY DEF Trigger, Typed, TypeOK, Turn
<1>2. S \in SUBSET Photo
  BY DEF Kept
<1>3. SetToSeq(S) \in Seq(Photo)
  BY <1>2, PhotosInSequence
<1>4. queue' = IF Waiting(c) THEN queue \o SetToSeq(S) ELSE queue
  BY DEF Trigger
<1>5. queue' \in Seq(Photo)
  <2> HIDE DEF S
  <2> QED
    BY <1>3, <1>4 DEF Typed, TypeOK
<1> QED
  BY <1>1, <1>5 DEF Trigger, Typed, TypeOK, ReadsAnImage, bounds

-----------------------------------------------------------------------------
(* The worker keeps the types. *)

LEMMA TypedPop == ASSUME Typed, NEW w \in Worker, Pop(w) PROVE Typed'
<1> DEFINE p == Head(queue)
           j == [Idle EXCEPT !.pc = "look", !.photo = p]
<1>1. p \in Photo /\ queue' \in Seq(Photo)
  BY DEF Pop, Typed, TypeOK
<1>2. CASE p \in lock
  BY <1>1, <1>2 DEF Pop, Typed, TypeOK, ReadsAnImage, bounds
<1>3. CASE p \notin lock
  <2>1. j \in Work /\ j.pc = "look"
    BY <1>1, BlankJob DEF Work, PC
  <2>2. job' = [job EXCEPT ![w] = j] /\ lock' = lock \cup {p}
    BY <1>3 DEF Pop
  <2>3. job' \in [Worker -> Work] /\ ReadsAnImage'
    BY <2>1, <2>2, PutJob
  <2> QED
    BY <1>1, <2>2, <2>3 DEF Pop, Typed, TypeOK, bounds
<1> QED
  BY <1>2, <1>3

LEMMA TypedLook == ASSUME Typed, NEW w \in Worker, Look(w) PROVE Typed'
<1> DEFINE p == job[w].photo
           c == photo[p].card
           i == photo[p].image
           j == [job[w] EXCEPT !.pc = "read", !.flags = card[c].flags, !.sha = <<"sha", i>>]
<1>1. job[w] \in Work /\ p \in Photo /\ c \in Card /\ i \in Image
  BY DEF Typed, TypeOK, Work, Message
<1>2. <<"unreadable", p>> \in Sha /\ <<"reused", p>> \in Sha /\ <<"sha", i>> \in {"sha"} \X Image
  BY <1>1 DEF Sha
<1>3. \/ Goto(w, "release")
      \/ Unread(w, <<"unreadable", p>>)
      \/ Unread(w, <<"reused", p>>)
      \/ job' = [job EXCEPT ![w] = j]
  BY DEF Look
<1>4. card[c].flags \in SUBSET Flag
  BY <1>1 DEF Typed, TypeOK
<1>5. j \in Work /\ j.sha = <<"sha", i>>
  BY <1>1, <1>2, <1>4 DEF Work, PC, Sha
<1>6. job' \in [Worker -> Work] /\ ReadsAnImage'
  <2>1. CASE Goto(w, "release")
    BY <2>1, TypedGoto DEF PC
  <2>2. CASE Unread(w, <<"unreadable", p>>)
    BY <2>2, <1>2, TypedUnread
  <2>3. CASE Unread(w, <<"reused", p>>)
    BY <2>3, <1>2, TypedUnread
  <2>4. CASE job' = [job EXCEPT ![w] = j]
    <3> HIDE DEF j
    <3> QED
      BY <2>4, <1>2, <1>5, PutJob
  <2> QED
    BY <1>3, <2>1, <2>2, <2>3, <2>4
<1> QED
  BY <1>6 DEF Look, Typed, TypeOK, bounds

LEMMA TypedRead == ASSUME Typed, NEW w \in Worker, Read(w) PROVE Typed'
<1> DEFINE t == Shows[job[w].sha[2]]
           j(r) == [job[w] EXCEPT !.pc = "store", !.extracted = IF r.legible THEN t ELSE None,
                                  !.green = WithReuseCheck(r.passed, t)]
<1>1. job[w].sha \in {"sha"} \X Image
  BY DEF Read, At, Typed, ReadsAnImage
<1>2. t \in Transfer
  BY <1>1, ImagesShowTransfers
<1>3. PICK r \in Reading : job' = [job EXCEPT ![w] = j(r)]
  BY DEF Read
<1>4. r.passed \in BOOLEAN
  BY PassedIsLegible
<1>5. WithReuseCheck(r.passed, t) \in BOOLEAN
  BY <1>4 DEF WithReuseCheck
<1>6. job[w] \in Work
  BY DEF Typed, TypeOK
<1>7. j(r) \in Work /\ j(r).pc = "store"
  <2> DEFINE x == IF r.legible THEN t ELSE None
             g == WithReuseCheck(r.passed, t)
  <2>1. x \in Transfer \cup {None}
    BY <1>2
  <2> HIDE DEF x, g
  <2> QED
    BY <1>5, <1>6, <2>1 DEF Work, PC, g, x
<1>8. job' \in [Worker -> Work] /\ ReadsAnImage'
  <2> HIDE DEF j
  <2> QED
    BY <1>3, <1>7, PutJob
<1> QED
  BY <1>8 DEF Read, Typed, TypeOK, bounds

-----------------------------------------------------------------------------
(* What a step may do to the rows of payment_receipt. *)

\* A transaction that is read, not stored with the row, and free.
Free(r) == r.reference = None /\ r.extracted # None /\ ByReference(r.extracted) = {}

\* What never changes of a row.
Same(q, r) == /\ q.photo = r.photo /\ q.card = r.card /\ q.sha = r.sha
              /\ q.extracted = r.extracted /\ q.green = r.green

\* A row may be approved; by the system if it is green, from the panel with its transaction.
Approval(q, r) ==
    \/ q.approved = r.approved \/ q.approved = "drag"
    \/ q.approved = "system" /\ r.green
    \/ /\ q.approved = "user"
       /\ q.reference # None \/ r.extracted = None \/ ByReference(r.extracted) # {}

\* The rows stay, and one of them at most takes its transaction.
Amended(k) ==
    /\ receipt' \in Seq(Row) /\ DOMAIN receipt' = DOMAIN receipt
    /\ \A i \in DOMAIN receipt :
         /\ Same(receipt'[i], receipt[i]) /\ Approval(receipt'[i], receipt[i])
         /\ \/ receipt'[i].reference = receipt[i].reference
            \/ i = k /\ Free(receipt[i]) /\ receipt'[i].reference = receipt[i].extracted

\* A row is added, which the constraints allow.
Added(w) == /\ Store(w) /\ ~Conflict(NewRow(job[w]))
            /\ receipt' = Append(receipt, NewRow(job[w]))

LEMMA Untouched == ASSUME Typed, receipt' = receipt PROVE Amended(0)
BY DEF Typed, TypeOK, Amended, Same, Approval

LEMMA NewRowTyped == ASSUME Typed, NEW w \in Worker PROVE NewRow(job[w]) \in Row
<1>1. job[w] \in Work
  BY DEF Typed, TypeOK
<1>2. photo[job[w].photo].card \in Card
  BY <1>1 DEF Typed, TypeOK, Work, Message
<1> QED
  BY <1>1, <1>2 DEF NewRow, Row, Work

\* _claim_reference gives back a row like the one it was given.
LEMMA ClaimedRow ==
    ASSUME NEW r \in Row
    PROVE  /\ Claim(r) \in Row /\ Same(Claim(r), r)
           /\ Claim(r).approved = r.approved /\ Claim(r).rejected = r.rejected
           /\ \/ Claim(r).reference = r.reference
              \/ Free(r) /\ Claim(r).reference = r.extracted
           /\ \/ Claim(r).reference # None \/ r.extracted = None
              \/ ByReference(r.extracted) # {}
<1>1. CASE Free(r)
  <2> DEFINE q == [r EXCEPT !.reference = r.extracted]
  <2>1. Claim(r) = q
    BY <1>1 DEF Claim, Free
  <2>2. q \in Row /\ Same(q, r) /\ q.approved = r.approved /\ q.rejected = r.rejected
        /\ q.reference = r.extracted
    BY DEF Row, Same
  <2>3. r.extracted # None
    BY <1>1 DEF Free
  <2> HIDE DEF q
  <2> QED
    BY <1>1, <2>1, <2>2, <2>3
<1>2. CASE ~Free(r)
  <2>1. Claim(r) = r
    BY <1>2 DEF Claim, Free
  <2> QED
    BY <1>2, <2>1 DEF Same, Free
<1> QED
  BY <1>1, <1>2

\* One row is put in the place of another, or of none.
LEMMA PutRow ==
    ASSUME Typed, NEW k, NEW q,
           receipt' = [receipt EXCEPT ![k] = q],
           k \in DOMAIN receipt =>
              /\ q \in Row /\ Same(q, receipt[k]) /\ Approval(q, receipt[k])
              /\ \/ q.reference = receipt[k].reference
                 \/ Free(receipt[k]) /\ q.reference = receipt[k].extracted
    PROVE  Amended(k)
<1>1. receipt \in Seq(Row)
  BY DEF Typed, TypeOK
<1>2. CASE k \in DOMAIN receipt
  <2>1. k \in 1 .. Len(receipt) /\ q \in Row
    BY <1>1, <1>2
  <2>2. /\ receipt' \in Seq(Row) /\ DOMAIN receipt' = DOMAIN receipt
        /\ \A i \in DOMAIN receipt : receipt'[i] = IF i = k THEN q ELSE receipt[i]
    BY <1>1, <2>1
  <2> QED
    BY <1>2, <2>2 DEF Amended, Same, Approval
<1>3. CASE k \notin DOMAIN receipt
  <2>1. receipt' = receipt
    BY <1>1, <1>3
  <2> QED
    BY <1>1, <2>1 DEF Amended, Same, Approval
<1> QED
  BY <1>2, <1>3

\* Flags and stages.
CardRow == [stage : Stage, flags : SUBSET Flag]

LEMMA PutCard ==
    ASSUME Typed, NEW c \in Card, NEW k \in CardRow, card' = [card EXCEPT ![c] = k]
    PROVE  card' \in [Card -> CardRow]
BY DEF Typed, TypeOK, CardRow

LEMMA RowsStore ==
    ASSUME Typed, NEW w \in Worker, Store(w)
    PROVE  Typed' /\ (Added(w) \/ receipt' = receipt)
<1> DEFINE row == NewRow(job[w])
           c == row.card
           f == IF row.green THEN (job[w].flags \ {"receipt_review"}) \cup {"payment_unconfirmed"}
                             ELSE job[w].flags \cup {"receipt_review"}
           k == [card[c] EXCEPT !.flags = f]
<1>1. row \in Row /\ job[w] \in Work
  BY NewRowTyped DEF Typed, TypeOK
<1>2. c \in Card /\ card[c] \in CardRow /\ f \in SUBSET Flag
  BY <1>1 DEF Row, Work, Flag, Typed, TypeOK, CardRow
<1>3. k \in CardRow
  BY <1>2 DEF CardRow
<1>4. \E pc \in {"compare", "release"} : Goto(w, pc)
  BY DEF Store
<1>5. job' \in [Worker -> Work] /\ ReadsAnImage'
  BY <1>4, TypedGoto DEF PC
<1>6. CASE Conflict(row)
  BY <1>5, <1>6 DEF Store, Typed, TypeOK, bounds
<1>7. CASE ~Conflict(row)
  <2>1. receipt' = Append(receipt, row)
    BY <1>7 DEF Store
  <2>2. card' = card \/ card' = [card EXCEPT ![c] = k]
    BY <1>7 DEF Store, SetFlags
  <2>3. card' \in [Card -> CardRow]
    <3> HIDE DEF k, c
    <3> QED
      BY <1>2, <1>3, <2>2, PutCard DEF Typed, TypeOK, CardRow
  <2>4. receipt' \in Seq(Row)
    BY <1>1, <2>1 DEF Typed, TypeOK
  <2>5. Typed'
    BY <1>5, <2>3, <2>4 DEF Store, Typed, TypeOK, bounds, CardRow
  <2> QED
    BY <1>7, <2>1, <2>5 DEF Added, Store
<1> QED
  BY <1>6, <1>7

LEMMA RowsApprove ==
    ASSUME Typed, NEW w \in Worker, Approve(w)
    PROVE  Typed' /\ Amended(0)
<1> DEFINE p == job[w].photo
           c == photo[p].card
           k == [card[c] EXCEPT !.stage = "PAYMENT_VALIDATED"]
           q(r) == IF r.photo = p /\ r.green THEN [r EXCEPT !.approved = "system"] ELSE r
<1>1. c \in Card /\ card[c] \in CardRow
  BY DEF Typed, TypeOK, Work, Message, CardRow
<1>2. k \in CardRow /\ card' = [card EXCEPT ![c] = k]
  BY <1>1 DEF Approve, CardRow, Stage
<1>3. card' \in [Card -> CardRow]
  BY <1>1, <1>2, PutCard
<1>4. job' \in [Worker -> Work] /\ ReadsAnImage'
  BY TypedGoto DEF Approve, PC
<1>5. \A r \in Row : /\ q(r) \in Row /\ Same(q(r), r) /\ Approval(q(r), r)
                     /\ q(r).reference = r.reference
  BY DEF Row, Same, Approval
<1>6. receipt' = [i \in DOMAIN receipt |-> q(receipt[i])]
  BY DEF Approve
<1>7. receipt' \in Seq(Row) /\ Amended(0)
  <2> HIDE DEF q
  <2>1. receipt \in Seq(Row)
    BY DEF Typed, TypeOK
  <2>2. receipt' \in Seq(Row)
    BY <1>5, <1>6, <2>1
  <2>3. \A i \in DOMAIN receipt : receipt'[i] = q(receipt[i]) /\ receipt[i] \in Row
    BY <1>6, <2>1
  <2>4. DOMAIN receipt' = DOMAIN receipt
    BY <1>6
  <2>5. \A i \in DOMAIN receipt :
          /\ Same(receipt'[i], receipt[i]) /\ Approval(receipt'[i], receipt[i])
          /\ receipt'[i].reference = receipt[i].reference
    BY <1>5, <2>3
  <2> QED
    BY <2>2, <2>4, <2>5 DEF Amended
<1> QED
  BY <1>3, <1>4, <1>7 DEF Approve, Typed, TypeOK, bounds, CardRow

LEMMA RowsValidate ==
    ASSUME Typed, NEW c \in Card, Validate(c)
    PROVE  Typed' /\ \E k : Amended(k)
<1> DEFINE k  == Latest(c)
           r  == receipt[k]
           noted(note) == [r EXCEPT !.note = r.note \/ note,
                                    !.approved = IF r.approved = "nobody" THEN "user" ELSE r.approved]
           d  == [stage |-> "PAYMENT_VALIDATED", flags |-> card[c].flags \ {"receipt_review"}]
<1>1. d \in CardRow /\ card' = [card EXCEPT ![c] = d]
  BY DEF Validate, Typed, TypeOK, CardRow, Stage
<1>2. card' \in [Card -> CardRow]
  BY <1>1, PutCard
<1>3. acts' \in 0 .. MaxActs
  BY BoundsAreNumbers DEF Validate, Act, Typed, TypeOK
<1>4. \E x : Amended(x)
  <2>1. CASE receipt' = receipt
    BY <2>1, Untouched
  <2>2. CASE receipt' # receipt
    <3>1. PICK note \in BOOLEAN : receipt' = [receipt EXCEPT ![k] = Claim(noted(note))]
      BY <2>2 DEF Validate
    <3>2. ASSUME k \in DOMAIN receipt
          PROVE  /\ Claim(noted(note)) \in Row /\ Same(Claim(noted(note)), r)
                 /\ Approval(Claim(noted(note)), r)
                 /\ \/ Claim(noted(note)).reference = r.reference
                    \/ Free(r) /\ Claim(noted(note)).reference = r.extracted
      <4>1. r \in Row
        BY <3>2 DEF Typed, TypeOK
      <4> DEFINE q == noted(note)
      <4>2. /\ q \in Row /\ Same(q, r) /\ q.reference = r.reference
            /\ q.approved \in {"user", r.approved}
        <5> HIDE DEF r
        <5> QED
          BY <4>1 DEF Row, Same
      <4> HIDE DEF q, r
      <4>3. /\ Claim(q) \in Row /\ Same(Claim(q), q) /\ Claim(q).approved = q.approved
            /\ Claim(q).reference = q.reference \/ (Free(q) /\ Claim(q).reference = q.extracted)
            /\ \/ Claim(q).reference # None \/ q.extracted = None
               \/ ByReference(q.extracted) # {}
        BY <4>2, ClaimedRow
      <4>4. Same(Claim(q), r) /\ (Free(q) <=> Free(r)) /\ q.extracted = r.extracted
        BY <4>2, <4>3 DEF Same, Free
      <4>5. Approval(Claim(q), r)
        BY <4>2, <4>3, <4>4 DEF Approval
      <4> QED
        BY <4>2, <4>3, <4>4, <4>5 DEF q
    <3>3. Amended(k)
      <4> HIDE DEF k, noted
      <4> QED
        BY <3>1, <3>2, PutRow
    <3> QED
      BY <3>3
  <2> QED
    BY <2>1, <2>2
<1>5. receipt' \in Seq(Row)
  BY <1>4 DEF Amended
<1> QED
  BY <1>2, <1>3, <1>4, <1>5 DEF Validate, Typed, TypeOK, ReadsAnImage, CardRow

LEMMA RowsDrag ==
    ASSUME Typed, NEW c \in Card, Drag(c)
    PROVE  Typed' /\ \E k : Amended(k)
<1> PICK s \in Targets : RecordManualApproval(c, s)
  BY DEF Drag
<1> DEFINE k == Latest(c)
           r == receipt[k]
           q == [r EXCEPT !.approved = "drag"]
           d == [stage |-> s, flags |-> card[c].flags \ {"receipt_review"}]
           e == [card[c] EXCEPT !.stage = s]
<1>1. s \in Stage /\ card[c] \in CardRow
  BY TargetsAreStages DEF Typed, TypeOK, CardRow
<1>2. d \in CardRow /\ e \in CardRow
  BY <1>1 DEF CardRow
<1>3. card' = [card EXCEPT ![c] = d] \/ card' = [card EXCEPT ![c] = e]
  BY DEF RecordManualApproval
<1>4. card' \in [Card -> CardRow]
  <2> HIDE DEF d, e
  <2> QED
    BY <1>2, <1>3, PutCard
<1>5. \E x : Amended(x)
  <2>1. CASE receipt' = receipt
    BY <2>1, Untouched
  <2>2. CASE receipt' # receipt
    <3>1. receipt' = [receipt EXCEPT ![k] = q]
      BY <2>2 DEF RecordManualApproval
    <3>2. k \in DOMAIN receipt => r \in Row
      BY DEF Typed, TypeOK
    <3>3. r \in Row => /\ q \in Row /\ Same(q, r) /\ Approval(q, r)
                       /\ q.reference = r.reference
      <4> HIDE DEF r
      <4> QED
        BY DEF Row, Same, Approval
    <3>4. Amended(k)
      <4> HIDE DEF k, q
      <4> QED
        BY <3>1, <3>2, <3>3, PutRow
    <3> QED
      BY <3>4
  <2> QED
    BY <2>1, <2>2
<1>6. receipt' \in Seq(Row)
  BY <1>5 DEF Amended
<1>7. acts' \in 0 .. MaxActs
  BY BoundsAreNumbers DEF Drag, Act, Typed, TypeOK
<1> QED
  BY <1>4, <1>5, <1>6, <1>7 DEF Drag, Typed, TypeOK, ReadsAnImage, CardRow

LEMMA RowsConfirm ==
    ASSUME Typed, NEW i \in DOMAIN receipt, Confirm(i)
    PROVE  Typed' /\ Amended(i)
<1> DEFINE r == receipt[i]
           q == [r EXCEPT !.confirmed = TRUE]
           c == r.card
           d == [card[c] EXCEPT !.flags = card[c].flags \ {"payment_unconfirmed"}]
<1>1. r \in Row
  BY DEF Typed, TypeOK
<1>2. c \in Card /\ card[c] \in CardRow
  BY <1>1 DEF Row, Typed, TypeOK, CardRow
<1>3. d \in CardRow /\ card' = [card EXCEPT ![c] = d]
  BY <1>2 DEF Confirm, CardRow
<1>4. card' \in [Card -> CardRow]
  <2> HIDE DEF d, c
  <2> QED
    BY <1>2, <1>3, PutCard
<1>5. /\ q \in Row /\ Same(q, r) /\ Approval(q, r) /\ q.reference = r.reference
  <2> HIDE DEF r
  <2> QED
    BY <1>1 DEF Row, Same, Approval
<1>6. receipt' = [receipt EXCEPT ![i] = q]
  BY DEF Confirm
<1>7. Amended(i)
  <2> HIDE DEF q
  <2> QED
    BY <1>5, <1>6, PutRow
<1>8. acts' \in 0 .. MaxActs /\ receipt' \in Seq(Row)
  BY <1>7, BoundsAreNumbers DEF Confirm, Act, Typed, TypeOK, Amended
<1> QED
  BY <1>4, <1>7, <1>8 DEF Confirm, Typed, TypeOK, ReadsAnImage, CardRow

LEMMA RowsReject ==
    ASSUME Typed, NEW i \in DOMAIN receipt, Reject(i)
    PROVE  Typed' /\ Amended(i)
<1> DEFINE r == receipt[i]
           q == [r EXCEPT !.rejected = TRUE, !.note = TRUE]
           c == r.card
           d == [stage |-> "HUMAN_LOST", flags |-> card[c].flags \ {"payment_unconfirmed"}]
<1>1. r \in Row
  BY DEF Typed, TypeOK
<1>2. c \in Card /\ card[c] \in CardRow
  BY <1>1 DEF Row, Typed, TypeOK, CardRow
<1>3. d \in CardRow /\ card' = [card EXCEPT ![c] = d]
  BY <1>2 DEF Reject, CardRow, Stage
<1>4. card' \in [Card -> CardRow]
  <2> HIDE DEF d, c
  <2> QED
    BY <1>2, <1>3, PutCard
<1>5. /\ q \in Row /\ Same(q, r) /\ Approval(q, r) /\ q.reference = r.reference
  <2> HIDE DEF r
  <2> QED
    BY <1>1 DEF Row, Same, Approval
<1>6. receipt' = [receipt EXCEPT ![i] = q]
  BY DEF Reject
<1>7. Amended(i)
  <2> HIDE DEF q
  <2> QED
    BY <1>5, <1>6, PutRow
<1>8. acts' \in 0 .. MaxActs /\ receipt' \in Seq(Row)
  BY <1>7, BoundsAreNumbers DEF Reject, Act, Typed, TypeOK, Amended
<1> QED
  BY <1>4, <1>7, <1>8 DEF Reject, Typed, TypeOK, ReadsAnImage, CardRow

LEMMA TypedDeliver == ASSUME Typed, NEW c \in Card, Deliver(c) PROVE Typed'
<1> DEFINE k == [card[c] EXCEPT !.stage = "DELIVERED"]
<1>1. k \in CardRow /\ card' = [card EXCEPT ![c] = k]
  BY DEF Deliver, Typed, TypeOK, CardRow, Stage
<1>2. card' \in [Card -> CardRow]
  BY <1>1, PutCard
<1> QED
  BY <1>2 DEF Deliver, Typed, TypeOK, ReadsAnImage, bounds, CardRow

LEMMA TypedCompare == ASSUME Typed, NEW w \in Worker, Compare(w) PROVE Typed'
<1>1. \E pc \in {"move", "release"} : Goto(w, pc)
  BY DEF Compare
<1>2. job' \in [Worker -> Work] /\ ReadsAnImage'
  BY <1>1, TypedGoto DEF PC
<1> QED
  BY <1>2 DEF Compare, Typed, TypeOK, bounds

LEMMA TypedRelease == ASSUME Typed, NEW w \in Worker, Release(w) PROVE Typed'
<1>1. job' \in [Worker -> Work] /\ ReadsAnImage'
  BY BlankJob, PutJob DEF Release
<1> QED
  BY <1>1 DEF Release, Typed, TypeOK, bounds

LEMMA TypedCrash == ASSUME Typed, NEW w \in Worker, Crash(w) PROVE Typed'
<1>1. job' \in [Worker -> Work] /\ ReadsAnImage'
  BY BlankJob, PutJob DEF Crash
<1>2. job[w].photo \in Photo
  BY DEF Typed, TypeOK, Work
<1>3. acts' \in 0 .. MaxActs
  BY BoundsAreNumbers DEF Crash, Act, Typed, TypeOK
<1> QED
  BY <1>1, <1>2, <1>3 DEF Crash, Typed, TypeOK

LEMMA TypedExpire == ASSUME Typed, NEW p \in Photo, Expire(p) PROVE Typed'
BY DEF Expire, Typed, TypeOK, ReadsAnImage, bounds

\* Every step keeps the types, and amends the rows or adds one.
LEMMA RowsNext ==
    ASSUME Typed, [Next]_vars
    PROVE  Typed' /\ ((\E k : Amended(k)) \/ \E w \in Worker : Added(w))
<1>1. CASE UNCHANGED vars
  BY <1>1, Untouched DEF vars, Typed, TypeOK, ReadsAnImage
<1>2. ASSUME NEW p \in Photo, Webhook(p) \/ Expire(p) PROVE Typed' /\ \E k : Amended(k)
  <2>1. receipt' = receipt
    BY <1>2 DEF Webhook, Arrive, Keep, Undo, Expire
  <2>2. Typed'
    BY <1>2, TypedArrive, TypedKeep, TypedUndo, TypedExpire DEF Webhook
  <2> QED
    BY <2>1, <2>2, Untouched
<1>3. ASSUME NEW c \in Card, LeadWrites(c) \/ TurnOf(c) \/ Deliver(c)
      PROVE  Typed' /\ \E k : Amended(k)
  <2>1. receipt' = receipt
    BY <1>3 DEF LeadWrites, TurnOf, Answer, Sync, Trigger, Deliver
  <2>2. Typed'
    BY <1>3, TypedLeadWrites, TypedAnswer, TypedSync, TypedTrigger, TypedDeliver DEF TurnOf
  <2> QED
    BY <2>1, <2>2, Untouched
<1>4. ASSUME NEW c \in Card, Person(c) PROVE Typed' /\ \E k : Amended(k)
  BY <1>4, RowsValidate, RowsDrag DEF Person
<1>5. ASSUME NEW w \in Worker, Store(w) PROVE Typed' /\ ((\E k : Amended(k)) \/ Added(w))
  BY <1>5, RowsStore, Untouched
<1>6. ASSUME NEW w \in Worker,
             Pop(w) \/ Look(w) \/ Read(w) \/ Compare(w) \/ Release(w) \/ Crash(w)
      PROVE  Typed' /\ \E k : Amended(k)
  <2>1. receipt' = receipt
    BY <1>6 DEF Pop, Look, Read, Compare, Release, Crash
  <2>2. Typed'
    BY <1>6, TypedPop, TypedLook, TypedRead, TypedCompare, TypedRelease, TypedCrash
  <2> QED
    BY <2>1, <2>2, Untouched
<1>7. ASSUME NEW w \in Worker, Approve(w) PROVE Typed' /\ \E k : Amended(k)
  BY <1>7, RowsApprove
<1>8. ASSUME NEW i \in DOMAIN receipt, Confirm(i) \/ Reject(i)
      PROVE  Typed' /\ \E k : Amended(k)
  BY <1>8, RowsConfirm, RowsReject
<1> QED
  BY <1>1, <1>2, <1>3, <1>4, <1>5, <1>6, <1>7, <1>8 DEF Next, Vision

\* Every photo, card, row, job and turn keeps its type, whatever is read in the photos and
\* whoever does what meanwhile.
THEOREM TypeCorrect == Spec => []TypeOK
<1>1. Init => Typed
  BY TypedInit
<1>2. Typed /\ [Next]_vars => Typed'
  BY RowsNext
<1>3. Typed => TypeOK
  BY DEF Typed
<1> QED
  BY <1>1, <1>2, <1>3, PTL DEF Spec

-----------------------------------------------------------------------------
(* The two defences against paying twice with one receipt. *)

\* A green job has read a transaction.
GreenIsRead == \A w \in Worker : job[w].green => job[w].extracted # None

\* A row holds its own transaction or none, and a green one holds it.
RowsHold == \A i \in DOMAIN receipt :
                /\ receipt[i].reference \in {None, receipt[i].extracted}
                /\ receipt[i].green => /\ receipt[i].reference = receipt[i].extracted
                                       /\ receipt[i].extracted # None

\* ByReference, by the places of the table.
Held(t) == \E i \in DOMAIN receipt : receipt[i].reference = t

\* What a person or the system approved from a photo has its transaction taken.
Claimed == \A i \in DOMAIN receipt :
               receipt[i].approved \in Claiming /\ receipt[i].extracted # None
                   => Held(receipt[i].extracted)

Defended == Typed /\ GreenIsRead /\ RowsHold /\ OneRowEach /\ Claimed

LEMMA HeldIsReferenced == \A t : Held(t) <=> ByReference(t) # {}
BY DEF Held, ByReference, Rows, ToSet

LEMMA DefendedInit == Init => Defended
<1> SUFFICES ASSUME Init PROVE Defended
  OBVIOUS
<1>1. DOMAIN receipt = {}
  BY DEF Init
<1> QED
  BY <1>1, TypedInit, BlankJob DEF Init, Defended, GreenIsRead, RowsHold, OneRowEach, Claimed

LEMMA GreenStep ==
    ASSUME Typed, GreenIsRead, [Next]_vars
    PROVE  GreenIsRead'
<1>1. CASE job' = job
  BY <1>1 DEF GreenIsRead
<1>2. ASSUME NEW w \in Worker, NEW j, job' = [job EXCEPT ![w] = j],
             j.green => j.extracted # None
      PROVE  GreenIsRead'
  BY <1>2 DEF GreenIsRead, Typed, TypeOK
<1>3. ASSUME NEW w \in Worker, NEW pc, Goto(w, pc) PROVE GreenIsRead'
  <2> DEFINE j == [job[w] EXCEPT !.pc = pc]
  <2>1. job' = [job EXCEPT ![w] = j]
    BY <1>3 DEF Goto
  <2>2. j.green = job[w].green /\ j.extracted = job[w].extracted
    BY DEF Typed, TypeOK, Work
  <2> HIDE DEF j
  <2> QED
    BY <1>2, <2>1, <2>2 DEF GreenIsRead
<1>4. ASSUME NEW w \in Worker, Pop(w) PROVE GreenIsRead'
  <2> DEFINE j == [Idle EXCEPT !.pc = "look", !.photo = Head(queue)]
  <2>1. job' = job \/ job' = [job EXCEPT ![w] = j]
    BY <1>4 DEF Pop
  <2>2. ~j.green
    BY DEF Idle
  <2> HIDE DEF j
  <2> QED
    BY <1>1, <1>2, <2>1, <2>2
<1>5. ASSUME NEW w \in Worker, Look(w) PROVE GreenIsRead'
  <2> DEFINE p == job[w].photo
             f == card[photo[p].card].flags
             j(pc, s) == [job[w] EXCEPT !.pc = pc, !.flags = f, !.sha = s]
  <2>1. \/ Goto(w, "release")
        \/ job' = [job EXCEPT ![w] = j("store", <<"unreadable", p>>)]
        \/ job' = [job EXCEPT ![w] = j("store", <<"reused", p>>)]
        \/ job' = [job EXCEPT ![w] = j("read", <<"sha", photo[p].image>>)]
    BY <1>5 DEF Look, Unread
  <2>2. ASSUME NEW pc, NEW s, job' = [job EXCEPT ![w] = j(pc, s)] PROVE GreenIsRead'
    <3>1. j(pc, s).green = job[w].green /\ j(pc, s).extracted = job[w].extracted
      BY DEF Typed, TypeOK, Work
    <3> HIDE DEF j
    <3> QED
      BY <1>2, <2>2, <3>1 DEF GreenIsRead
  <2> HIDE DEF j
  <2> QED
    BY <1>3, <2>1, <2>2
<1>6. ASSUME NEW w \in Worker, Read(w) PROVE GreenIsRead'
  <2> DEFINE t == Shows[job[w].sha[2]]
             j(r) == [job[w] EXCEPT !.pc = "store", !.extracted = IF r.legible THEN t ELSE None,
                                    !.green = WithReuseCheck(r.passed, t)]
  <2>1. PICK r \in Reading : job' = [job EXCEPT ![w] = j(r)]
    BY <1>6 DEF Read
  <2>2. t \in Transfer
    BY <1>6, ImagesShowTransfers DEF Read, At, Typed, ReadsAnImage
  <2>3. r.passed => r.legible
    BY PassedIsLegible
  <2>4. /\ j(r).extracted = IF r.legible THEN t ELSE None
        /\ j(r).green = WithReuseCheck(r.passed, t)
    BY DEF Typed, TypeOK, Work
  <2>5. j(r).green => j(r).extracted # None
    BY <2>2, <2>3, <2>4, NoneIsNoTransfer DEF WithReuseCheck
  <2> HIDE DEF j
  <2> QED
    BY <1>2, <2>1, <2>5
<1>7. ASSUME NEW w \in Worker, Release(w) \/ Crash(w) PROVE GreenIsRead'
  BY <1>2, <1>7, BlankJob DEF Release, Crash
<1>8. ASSUME NEW w \in Worker, Store(w) \/ Compare(w) \/ Approve(w) PROVE GreenIsRead'
  <2>1. \E pc : Goto(w, pc)
    BY <1>8 DEF Store, Compare, Approve
  <2> QED
    BY <1>3, <2>1
<1>9. CASE UNCHANGED vars
  BY <1>1, <1>9 DEF vars
<1>10. ASSUME NEW p \in Photo, Webhook(p) \/ Expire(p) PROVE GreenIsRead'
  BY <1>1, <1>10 DEF Webhook, Arrive, Keep, Undo, Expire
<1>11. ASSUME NEW c \in Card, LeadWrites(c) \/ TurnOf(c) \/ Person(c) \/ Deliver(c)
       PROVE  GreenIsRead'
  BY <1>1, <1>11 DEF LeadWrites, TurnOf, Answer, Sync, Trigger, Person, Validate, Drag, Deliver
<1>12. ASSUME NEW i \in DOMAIN receipt, Confirm(i) \/ Reject(i) PROVE GreenIsRead'
  BY <1>1, <1>12 DEF Confirm, Reject
<1> QED
  BY <1>4, <1>5, <1>6, <1>7, <1>8, <1>9, <1>10, <1>11, <1>12 DEF Next, Vision

LEMMA DefendedNext == Defended /\ [Next]_vars => Defended'
<1> SUFFICES ASSUME Defended, [Next]_vars PROVE Defended'
  OBVIOUS
<1>1. Typed' /\ GreenIsRead'
  BY RowsNext, GreenStep DEF Defended
<1>2. receipt \in Seq(Row)
  BY DEF Defended, Typed, TypeOK
<1>3. ASSUME NEW k, Amended(k) PROVE (RowsHold /\ OneRowEach /\ Claimed)'
  <2>1. DOMAIN receipt' = DOMAIN receipt
    BY <1>3 DEF Amended
  <2>2. \A i \in DOMAIN receipt :
          /\ Same(receipt'[i], receipt[i]) /\ Approval(receipt'[i], receipt[i])
          /\ \/ receipt'[i].reference = receipt[i].reference
             \/ i = k /\ Free(receipt[i]) /\ receipt'[i].reference = receipt[i].extracted
    BY <1>3 DEF Amended
  <2>3. RowsHold'
    BY <2>1, <2>2 DEF RowsHold, Same, Free, Defended
  <2>4. OneRowEach'
    <3> SUFFICES ASSUME NEW i \in DOMAIN receipt, NEW j \in DOMAIN receipt, i # j
                 PROVE  /\ receipt'[i].sha # receipt'[j].sha
                        /\ receipt'[i].reference = None
                           \/ receipt'[i].reference # receipt'[j].reference
      BY <2>1 DEF OneRowEach
    <3>1. receipt[i].sha # receipt[j].sha
          /\ (receipt[i].reference = None \/ receipt[i].reference # receipt[j].reference)
      BY DEF Defended, OneRowEach
    <3>2. receipt'[i].sha # receipt'[j].sha
      BY <2>2, <3>1 DEF Same
    <3>3. \A x \in DOMAIN receipt : Free(receipt[x]) =>
             \A y \in DOMAIN receipt : receipt[y].reference # receipt[x].extracted
      BY HeldIsReferenced DEF Free, Held
    <3> QED
      BY <2>2, <3>1, <3>2, <3>3 DEF Free
  <2> DEFINE HeldThen(t) == \E j \in DOMAIN receipt' : receipt'[j].reference = t
  <2>5. \A t : t # None /\ Held(t) => HeldThen(t)
    BY <2>1, <2>2 DEF Held, Free
  <2>6. Claimed'
    <3> SUFFICES ASSUME NEW i \in DOMAIN receipt, receipt'[i].approved \in Claiming,
                        receipt[i].extracted # None
                 PROVE  HeldThen(receipt[i].extracted)
      BY <2>1, <2>2 DEF Claimed, Same, Held
    <3>1. CASE Held(receipt[i].extracted)
      BY <2>5, <3>1
    <3>2. CASE ~Held(receipt[i].extracted)
      <4>1. receipt[i].approved \notin Claiming /\ ~receipt[i].green
        BY <3>2 DEF Defended, Claimed, RowsHold, Held
      <4>2. receipt'[i].approved = "user" /\ receipt'[i].reference # None
        BY <2>2, <3>2, <4>1, HeldIsReferenced DEF Approval, Claiming
      <4>3. receipt'[i].reference = receipt[i].extracted
        BY <2>1, <2>2, <2>3, <4>2 DEF RowsHold, Same
      <4> QED
        BY <2>1, <4>3
    <3> QED
      BY <3>1, <3>2
  <2> QED
    BY <2>3, <2>4, <2>6
<1>4. ASSUME NEW w \in Worker, Added(w) PROVE (RowsHold /\ OneRowEach /\ Claimed)'
  <2> DEFINE row == NewRow(job[w])
             n == Len(receipt) + 1
  <2>1. row \in Row
    BY NewRowTyped DEF Defended
  <2>2. /\ row.reference = IF job[w].green THEN job[w].extracted ELSE None
        /\ row.extracted = job[w].extracted /\ row.green = job[w].green
        /\ row.approved = "nobody"
    BY DEF NewRow
  <2>3. job[w].green => job[w].extracted # None
    BY DEF Defended, GreenIsRead
  <2>4. BySha(row.sha) = {} /\ (row.reference = None \/ ByReference(row.reference) = {})
    BY <1>4 DEF Added, Conflict
  <2>5. \A i \in DOMAIN receipt : receipt[i].sha # row.sha
    BY <2>4 DEF BySha, Rows, ToSet
  <2>6. row.reference # None => \A i \in DOMAIN receipt : receipt[i].reference # row.reference
    BY <2>4 DEF ByReference, Rows, ToSet
  <2> HIDE DEF row
  <2>7. receipt' = Append(receipt, row)
    BY <1>4 DEF Added, row
  <2>8. /\ DOMAIN receipt' = DOMAIN receipt \cup {n} /\ n \notin DOMAIN receipt
        /\ receipt'[n] = row
        /\ \A i \in DOMAIN receipt : receipt'[i] = receipt[i]
    BY <1>2, <2>1, <2>7
  <2> HIDE DEF n
  <2>9. RowsHold'
    BY <2>2, <2>3, <2>8 DEF RowsHold, Defended
  <2>10. OneRowEach'
    BY <2>5, <2>6, <2>8 DEF OneRowEach, Defended
  <2>11. Claimed'
    <3>1. \A t : Held(t) => Held(t)'
      BY <2>8 DEF Held
    <3>2. receipt'[n].approved \notin Claiming
      BY <2>2, <2>8 DEF Claiming
    <3> QED
      BY <2>8, <3>1, <3>2 DEF Claimed, Defended
  <2> QED
    BY <2>9, <2>10, <2>11
<1>5. (RowsHold /\ OneRowEach /\ Claimed)'
  BY <1>3, <1>4, RowsNext DEF Defended
<1> QED
  BY <1>1, <1>5 DEF Defended

\* No two rows of payment_receipt hold one image, nor one transaction, although both are
\* looked up long before they are stored, and people approve receipts in between.
THEOREM OneRowOfEach == Spec => []OneRowEach
<1>1. Init => Defended
  BY DefendedInit
<1>2. Defended /\ [Next]_vars => Defended'
  BY DefendedNext
<1>3. Defended => OneRowEach
  BY DEF Defended
<1> QED
  BY <1>1, <1>2, <1>3, PTL DEF Spec

\* Whatever the system or the panel approved keeps its transaction taken.
THEOREM ApprovedTakesItsTransaction == Spec => []ApprovedIsClaimed
<1>1. Init => Defended
  BY DefendedInit
<1>2. Defended /\ [Next]_vars => Defended'
  BY DefendedNext
<1>3. Defended => ApprovedIsClaimed
  BY HeldIsReferenced DEF Defended, Claimed, ApprovedIsClaimed, Rows, ToSet
<1> QED
  BY <1>1, <1>2, <1>3, PTL DEF Spec

\* No step judges a photo green when its transfer is that of a payment approved by the
\* system or from the panel, however the two were interleaved.
THEOREM UsedNeverGreen == Spec => UsedTransferIsRed
<1>1. Init => Defended
  BY DefendedInit
<1>2. Defended /\ [Next]_vars => Defended'
  BY DefendedNext
<1>3. ASSUME Defended, [Next]_vars
      PROVE  \A r \in ToSet(receipt') : r.green /\ ~already_processed(r.photo) =>
                \A q \in Rows : q.approved \in Claiming => q.extracted # r.extracted
  <2> SUFFICES ASSUME NEW i \in DOMAIN receipt', receipt'[i].green,
                      ~already_processed(receipt'[i].photo),
                      NEW k \in DOMAIN receipt, receipt[k].approved \in Claiming
               PROVE  receipt[k].extracted # receipt'[i].extracted
    BY DEF Rows, ToSet
  <2>1. i \in DOMAIN receipt => already_processed(receipt[i].photo)
    BY DEF already_processed, Rows, ToSet
  <2>2. ASSUME NEW x, Amended(x) PROVE FALSE
    BY <2>1, <2>2 DEF Amended, Same
  <2>3. PICK w \in Worker : Added(w)
    BY <1>3, <2>2, RowsNext DEF Defended
  <2> DEFINE row == NewRow(job[w])
  <2>4. row \in Row /\ receipt \in Seq(Row) /\ receipt' = Append(receipt, row)
    BY <1>3, <2>3, NewRowTyped DEF Added, Defended, Typed, TypeOK
  <2>5. receipt'[i] = row
    <3> HIDE DEF row
    <3> QED
      BY <2>1, <2>4
  <2>6. row.reference = row.extracted /\ row.extracted # None
    BY <1>3, <2>5 DEF NewRow, Defended, GreenIsRead
  <2>7. ByReference(row.reference) = {}
    BY <2>3, <2>6 DEF Added, Conflict
  <2>8. ~Held(row.extracted)
    BY <2>6, <2>7, HeldIsReferenced
  <2>9. receipt[k].extracted = row.extracted => Held(row.extracted)
    BY <1>3, <2>6 DEF Defended, Claimed
  <2> QED
    BY <2>5, <2>8, <2>9
<1> QED
  BY <1>1, <1>2, <1>3, PTL DEF Spec, UsedTransferIsRed

-----------------------------------------------------------------------------
(* One verdict for each message. *)

\* A step of the job of a worker that goes on with its photo.
GoesOn(w) == Look(w) \/ Read(w) \/ Store(w) \/ Compare(w) \/ Approve(w)

LEMMA JobGoesOn ==
    ASSUME Typed, NEW w \in Worker, GoesOn(w)
    PROVE  /\ job[w].pc \notin {"idle", "release"} /\ job'[w].pc # "idle"
           /\ job'[w].photo = job[w].photo /\ lock' = lock /\ photo' = photo
           /\ \A v \in Worker \ {w} : job'[v] = job[v]
           /\ job'[w].pc \in {"read", "store"} =>
                 /\ receipt' = receipt
                 /\ job[w].pc = "read" \/ ~already_processed(job[w].photo)
           /\ job'[w].pc = "move" =>
                 Compare(w) /\ Waiting(photo[job[w].photo].card)
<1> DEFINE p == job[w].photo
           Kept1(j) == /\ job' = [job EXCEPT ![w] = j] /\ j.photo = p
<1>1. job[w] \in Work
  BY DEF Typed, TypeOK
<1>2. ASSUME NEW pc, Goto(w, pc)
      PROVE  job'[w].photo = p /\ job'[w].pc = pc /\ \A v \in Worker \ {w} : job'[v] = job[v]
  <2> DEFINE j == [job[w] EXCEPT !.pc = pc]
  <2>1. job' = [job EXCEPT ![w] = j] /\ j.photo = p /\ j.pc = pc
    BY <1>1, <1>2 DEF Goto, Work
  <2> HIDE DEF j
  <2> QED
    BY <2>1 DEF Typed, TypeOK
<1>3. CASE Look(w)
  <2> DEFINE f == card[photo[p].card].flags
             j(pc, s) == [job[w] EXCEPT !.pc = pc, !.flags = f, !.sha = s]
  <2>1. \/ Goto(w, "release")
        \/ /\ ~already_processed(p)
           /\ \/ job' = [job EXCEPT ![w] = j("store", <<"unreadable", p>>)]
              \/ job' = [job EXCEPT ![w] = j("store", <<"reused", p>>)]
              \/ job' = [job EXCEPT ![w] = j("read", <<"sha", photo[p].image>>)]
    BY <1>3 DEF Look, Unread
  <2>2. \A pc, s : j(pc, s).photo = p /\ j(pc, s).pc = pc
    BY <1>1 DEF Work
  <2>3. ASSUME NEW pc, NEW s, pc \in {"store", "read"}, job' = [job EXCEPT ![w] = j(pc, s)]
        PROVE  job'[w].photo = p /\ job'[w].pc = pc /\ \A v \in Worker \ {w} : job'[v] = job[v]
    <3> HIDE DEF j
    <3> QED
      BY <2>2, <2>3 DEF Typed, TypeOK
  <2>4. /\ job'[w].photo = p /\ job'[w].pc \in {"release", "store", "read"}
        /\ \A v \in Worker \ {w} : job'[v] = job[v]
        /\ job'[w].pc # "release" => ~already_processed(p)
    <3> HIDE DEF j
    <3> QED
      BY <1>2, <2>1, <2>3
  <2> QED
    BY <1>3, <2>4 DEF Look, At
<1>4. CASE Read(w)
  <2> DEFINE t == Shows[job[w].sha[2]]
             j(r) == [job[w] EXCEPT !.pc = "store", !.extracted = IF r.legible THEN t ELSE None,
                                    !.green = WithReuseCheck(r.passed, t)]
  <2>1. PICK r \in Reading : job' = [job EXCEPT ![w] = j(r)]
    BY <1>4 DEF Read
  <2>2. j(r).photo = p /\ j(r).pc = "store"
    BY <1>1 DEF Work
  <2>3. job'[w].photo = p /\ job'[w].pc = "store" /\ \A v \in Worker \ {w} : job'[v] = job[v]
    <3> HIDE DEF j
    <3> QED
      BY <2>1, <2>2 DEF Typed, TypeOK
  <2> QED
    BY <1>4, <2>3 DEF Read, At
<1>5. CASE Store(w)
  <2>1. PICK pc \in {"compare", "release"} : Goto(w, pc)
    BY <1>5 DEF Store
  <2> QED
    BY <1>2, <1>5, <2>1 DEF Store, At
<1>6. CASE Compare(w)
  <2>1. \/ Goto(w, "move") /\ Waiting(photo[p].card)
        \/ Goto(w, "release")
    BY <1>6 DEF Compare
  <2> QED
    BY <1>2, <1>6, <2>1 DEF Compare, At
<1>7. CASE Approve(w)
  BY <1>2, <1>7 DEF Approve, At
<1> QED
  BY <1>3, <1>4, <1>5, <1>6, <1>7 DEF GoesOn

LEMMA JobEnds ==
    ASSUME Typed, NEW w \in Worker, Release(w) \/ Crash(w)
    PROVE  /\ job[w].pc # "idle" /\ job'[w].pc = "idle"
           /\ \A v \in Worker \ {w} : job'[v] = job[v]
           /\ lock \ {job[w].photo} \subseteq lock'
           /\ receipt' = receipt /\ card' = card /\ photo' = photo
BY BlankJob DEF Typed, TypeOK, Release, Crash, At

LEMMA JobBegins ==
    ASSUME Typed, NEW w \in Worker, Pop(w)
    PROVE  /\ \/ job' = job /\ lock' = lock
              \/ /\ job'[w].pc = "look" /\ job'[w].photo = Head(queue)
                 /\ job'[w].photo \notin lock
                 /\ lock' = lock \cup {job'[w].photo}
                 /\ \A v \in Worker \ {w} : job'[v] = job[v]
           /\ receipt' = receipt /\ card' = card /\ photo' = photo /\ queue # <<>>
           /\ job[w].pc = "idle" /\ queue' = Tail(queue)
<1> DEFINE j == [Idle EXCEPT !.pc = "look", !.photo = Head(queue)]
<1>1. j.pc = "look" /\ j.photo = Head(queue)
  BY DEF Idle
<1>2. \/ job' = job /\ lock' = lock
      \/ /\ job' = [job EXCEPT ![w] = j] /\ Head(queue) \notin lock
         /\ lock' = lock \cup {Head(queue)}
  BY DEF Pop
<1> HIDE DEF j
<1> QED
  BY <1>1, <1>2 DEF Pop, At, Typed, TypeOK

\* A lock that is held stays, unless it expires under its job.
HeldStays == ~Slow => \A v \in Worker : job[v].pc # "idle" /\ job[v].photo \in lock
                                            => job[v].photo \in lock'

\* The other steps leave the jobs alone.
LEMMA JobsRest ==
    ASSUME Typed, [Next]_vars
    PROVE  \/ job' = job /\ HeldStays
           \/ \E w \in Worker : GoesOn(w) \/ Pop(w) \/ Release(w) \/ Crash(w)
<1>1. CASE UNCHANGED vars
  BY <1>1 DEF vars, HeldStays
<1>2. ASSUME NEW p \in Photo, Webhook(p) PROVE job' = job /\ lock' = lock
  BY <1>2 DEF Webhook, Arrive, Keep, Undo
<1>3. ASSUME NEW p \in Photo, Expire(p) PROVE job' = job /\ HeldStays
  BY <1>3 DEF Expire, Holder, HeldStays
<1>4. ASSUME NEW c \in Card, LeadWrites(c) \/ TurnOf(c) \/ Person(c) \/ Deliver(c)
      PROVE  job' = job /\ lock' = lock
  BY <1>4 DEF LeadWrites, TurnOf, Answer, Sync, Trigger, Person, Validate, Drag, Deliver
<1>5. ASSUME NEW i \in DOMAIN receipt, Confirm(i) \/ Reject(i) PROVE job' = job /\ lock' = lock
  BY <1>5 DEF Confirm, Reject
<1>6. lock' = lock => HeldStays
  BY DEF HeldStays
<1> QED
  BY <1>1, <1>2, <1>3, <1>4, <1>5, <1>6 DEF Next, Vision, GoesOn

\* What the theorem asks: no lock expires under its job, or there is one consumer of
\* agent:vision, as in production.
OneConsumer == \A v, w \in Worker : v = w
Serial      == ~Slow \/ OneConsumer

\* A job holds the lock of its photo, where locks last as long as jobs; no two jobs have
\* the same photo, and until one stores a verdict there is none.
Locked   == ~Slow => \A w \in Worker : job[w].pc # "idle" => job[w].photo \in lock
Apart    == \A v, w \in Worker : v # w /\ job[v].pc # "idle" /\ job[w].pc # "idle"
                                   => job[v].photo # job[w].photo
Judged(p) == \E i \in DOMAIN receipt : receipt[i].photo = p
Unjudged == \A w \in Worker : job[w].pc \in {"read", "store"} => ~Judged(job[w].photo)

Judging  == Typed /\ Locked /\ Apart /\ Unjudged /\ OneVerdict

LEMMA JudgingInit == Init => Judging
<1> SUFFICES ASSUME Init PROVE Judging
  OBVIOUS
<1>1. DOMAIN receipt = {} /\ \A w \in Worker : job[w].pc = "idle"
  BY BlankJob DEF Init
<1> QED
  BY <1>1, TypedInit DEF Judging, Locked, Apart, Unjudged, OneVerdict

LEMMA LocksStep ==
    ASSUME Serial, Typed, Locked, Apart, [Next]_vars
    PROVE  Locked' /\ Apart'
<1>0. CASE Slow
  BY <1>0 DEF Serial, OneConsumer, Locked, Apart
<1> SUFFICES ASSUME ~Slow PROVE Locked' /\ Apart'
  BY <1>0
<1>1. CASE job' = job /\ HeldStays
  BY <1>1 DEF Locked, Apart, HeldStays
<1>2. ASSUME NEW w \in Worker, GoesOn(w) PROVE Locked' /\ Apart'
  BY <1>2, JobGoesOn DEF Locked, Apart
<1>3. ASSUME NEW w \in Worker, Pop(w) PROVE Locked' /\ Apart'
  <2>1. CASE job' = job /\ lock' = lock
    BY <2>1 DEF Locked, Apart
  <2>2. CASE ~(job' = job /\ lock' = lock)
    <3>1. /\ job'[w].photo \notin lock /\ lock' = lock \cup {job'[w].photo}
          /\ \A v \in Worker \ {w} : job'[v] = job[v]
      BY <1>3, <2>2, JobBegins
    <3> QED
      BY <3>1 DEF Locked, Apart
  <2> QED
    BY <2>1, <2>2
<1>4. ASSUME NEW w \in Worker, Release(w) \/ Crash(w) PROVE Locked' /\ Apart'
  <2>1. /\ job[w].pc # "idle" /\ job'[w].pc = "idle"
        /\ \A v \in Worker \ {w} : job'[v] = job[v]
        /\ lock \ {job[w].photo} \subseteq lock'
    BY <1>4, JobEnds
  <2> QED
    BY <2>1 DEF Locked, Apart
<1> QED
  BY <1>1, <1>2, <1>3, <1>4, JobsRest

LEMMA JudgingNext == ASSUME Serial, Judging, [Next]_vars PROVE Judging'
<1>1. Typed' /\ Locked' /\ Apart'
  BY RowsNext, LocksStep DEF Judging
<1>2. receipt \in Seq(Row)
  BY DEF Judging, Typed, TypeOK
\* What a step does to the verdicts there are.
<1>3. ASSUME NEW k, Amended(k) PROVE OneVerdict' /\ \A p : Judged(p)' => Judged(p)
  BY <1>3 DEF Amended, Same, OneVerdict, Judging, Judged
<1>4. ASSUME NEW w \in Worker, Added(w)
      PROVE  OneVerdict' /\ \A p : Judged(p)' => Judged(p) \/ p = job[w].photo
  <2> DEFINE row == NewRow(job[w])
             n == Len(receipt) + 1
  <2>1. row \in Row /\ row.photo = job[w].photo
    BY NewRowTyped DEF Judging, NewRow
  <2> HIDE DEF row
  <2>2. receipt' = Append(receipt, row)
    BY <1>4 DEF Added, row
  <2>3. /\ DOMAIN receipt' = DOMAIN receipt \cup {n} /\ n \notin DOMAIN receipt
        /\ receipt'[n] = row
        /\ \A i \in DOMAIN receipt : receipt'[i] = receipt[i]
    BY <1>2, <2>1, <2>2
  <2>4. ~Judged(job[w].photo)
    BY <1>4 DEF Added, Store, At, Judging, Unjudged
  <2> HIDE DEF n
  <2> QED
    BY <2>1, <2>3, <2>4 DEF OneVerdict, Judged, Judging
<1>5. OneVerdict'
  BY <1>3, <1>4, RowsNext DEF Judging
\* A job that has no verdict yet is the one it was, or has just asked for it.
<1>6. ASSUME NEW v \in Worker, job'[v].pc \in {"read", "store"}
      PROVE  \/ job'[v] = job[v]
             \/ receipt' = receipt /\ job'[v].photo = job[v].photo /\ ~Judged(job[v].photo)
  <2>1. CASE job' = job
    BY <2>1
  <2>2. ASSUME NEW w \in Worker, GoesOn(w)
        PROVE  \/ job'[v] = job[v]
               \/ receipt' = receipt /\ job'[v].photo = job[v].photo /\ ~Judged(job[v].photo)
    <3>1. CASE v # w
      BY <2>2, <3>1, JobGoesOn DEF Judging
    <3>2. CASE v = w
      <4>1. /\ receipt' = receipt /\ job'[v].photo = job[v].photo
            /\ job[v].pc = "read" \/ ~already_processed(job[v].photo)
        BY <1>6, <2>2, <3>2, JobGoesOn DEF Judging
      <4>2. ~Judged(job[v].photo)
        BY <4>1 DEF Judging, Unjudged, Judged, already_processed, Rows, ToSet
      <4> QED
        BY <4>1, <4>2
    <3> QED
      BY <3>1, <3>2
  <2>3. ASSUME NEW w \in Worker, Pop(w) PROVE job'[v] = job[v]
    BY <1>6, <2>3, JobBegins DEF Judging
  <2>4. ASSUME NEW w \in Worker, Release(w) \/ Crash(w) PROVE job'[v] = job[v]
    BY <1>6, <2>4, JobEnds DEF Judging
  <2> QED
    BY <2>1, <2>2, <2>3, <2>4, JobsRest DEF Judging
<1>7. ASSUME NEW v \in Worker, job'[v].pc \in {"read", "store"}
      PROVE  ~\E i \in DOMAIN receipt' : receipt'[i].photo = job'[v].photo
  <2>1. CASE receipt' = receipt /\ job'[v].photo = job[v].photo /\ ~Judged(job[v].photo)
    BY <2>1 DEF Judged
  <2>2. CASE job'[v] = job[v]
    <3>1. ~Judged(job[v].photo)
      BY <1>7, <2>2 DEF Judging, Unjudged
    <3>2. CASE \E k : Amended(k)
      BY <2>2, <3>1, <3>2 DEF Amended, Same, Judged
    <3>3. ASSUME NEW w \in Worker, Added(w)
          PROVE  ~\E i \in DOMAIN receipt' : receipt'[i].photo = job'[v].photo
      <4>1. v # w
        <5>1. receipt' # receipt
          BY <1>2, <3>3 DEF Added
        <5>2. GoesOn(w)
          BY <3>3 DEF Added, GoesOn
        <5> QED
          BY <1>7, <5>1, <5>2, JobGoesOn DEF Judging
      <4>2. job[v].photo # job[w].photo
        BY <1>7, <2>2, <3>3, <4>1 DEF Added, Store, At, Judging, Apart
      <4>3. \A p : Judged(p)' => Judged(p) \/ p = job[w].photo
        BY <1>4, <3>3
      <4> QED
        BY <2>2, <3>1, <4>2, <4>3 DEF Judged
    <3> QED
      BY <3>2, <3>3, RowsNext DEF Judging
  <2> QED
    BY <1>6, <1>7, <2>1, <2>2
<1>8. Unjudged'
  BY <1>7 DEF Unjudged, Judged
<1> QED
  BY <1>1, <1>5, <1>8 DEF Judging

\* However often the job of a photo is queued, and whatever dies, a message gets one
\* verdict, if locks last as long as jobs or there is one consumer.
THEOREM OneVerdictPerMessage == ASSUME Serial PROVE Spec => []OneVerdict
<1>1. Init => Judging
  BY JudgingInit
<1>2. Judging /\ [Next]_vars => Judging'
  BY JudgingNext
<1>3. Judging => OneVerdict
  BY DEF Judging
<1> QED
  BY <1>1, <1>2, <1>3, PTL DEF Spec

-----------------------------------------------------------------------------
(* One green verdict for each message, however many jobs of it run at once. *)

\* A photo that was sent stays with its card, and shows what it showed.
LEMMA PhotoStays ==
    ASSUME Typed, [Next]_vars, NEW p \in Photo, photo[p].state # "none"
    PROVE  /\ photo'[p].state # "none" /\ photo'[p].card = photo[p].card
           /\ photo'[p].image = photo[p].image
<1>1. CASE photo' = photo
  BY <1>1
<1>2. ASSUME NEW q \in Photo, Arrive(q)
      PROVE  /\ photo'[p].state # "none" /\ photo'[p].card = photo[p].card
             /\ photo'[p].image = photo[p].image
  <2>1. PICK c \in Card, i \in Image :
          /\ photo[q].state = "undone" => c = photo[q].card /\ i = photo[q].image
          /\ photo' = [photo EXCEPT ![q] = [state |-> "arriving", card |-> c, image |-> i]]
    BY <1>2 DEF Arrive
  <2>2. p = q => photo[p].state = "undone"
    BY <1>2 DEF Arrive
  <2> QED
    BY <2>1, <2>2 DEF Typed, TypeOK
<1>3. ASSUME NEW q \in Photo, Keep(q) \/ Undo(q)
      PROVE  /\ photo'[p].state # "none" /\ photo'[p].card = photo[p].card
             /\ photo'[p].image = photo[p].image
  <2>1. PICK s \in {"kept", "undone"} : photo' = [photo EXCEPT ![q].state = s]
    BY <1>3 DEF Keep, Undo
  <2> QED
    BY <2>1 DEF Typed, TypeOK, Message
<1>4. \/ photo' = photo
      \/ \E q \in Photo : Arrive(q) \/ Keep(q) \/ Undo(q)
  <2>1. ASSUME NEW c \in Card, LeadWrites(c) \/ TurnOf(c) \/ Person(c) \/ Deliver(c)
        PROVE  photo' = photo
    BY <2>1 DEF LeadWrites, TurnOf, Answer, Sync, Trigger, Person, Validate, Drag, Deliver
  <2>2. ASSUME NEW w \in Worker, Vision(w) \/ Crash(w) PROVE photo' = photo
    BY <2>2, JobGoesOn, JobBegins, JobEnds DEF Vision, GoesOn
  <2>3. ASSUME NEW i \in DOMAIN receipt, Confirm(i) \/ Reject(i) PROVE photo' = photo
    BY <2>3 DEF Confirm, Reject
  <2>4. ASSUME NEW q \in Photo, Expire(q) PROVE photo' = photo
    BY <2>4 DEF Expire
  <2>5. CASE UNCHANGED vars
    BY <2>5 DEF vars
  <2> QED
    BY <2>1, <2>2, <2>3, <2>4, <2>5 DEF Next, Webhook
<1> QED
  BY <1>1, <1>2, <1>3, <1>4

\* Jobs and rows are of photos that were sent, and a row is of the card of its photo.
QueuedCame == \A i \in DOMAIN queue : photo[queue[i]].state # "none"
ServedCame == \A w \in Worker : job[w].pc # "idle" => photo[job[w].photo].state # "none"
RowsCame   == \A i \in DOMAIN receipt : /\ photo[receipt[i].photo].state # "none"
                                        /\ receipt[i].card = photo[receipt[i].photo].card
Came == QueuedCame /\ ServedCame /\ RowsCame

LEMMA QueueStep ==
    ASSUME Typed, QueuedCame, [Next]_vars
    PROVE  QueuedCame'
<1>1. \A p \in Photo : photo[p].state # "none" => photo'[p].state # "none"
  BY PhotoStays
<1>2. queue \in Seq(Photo)
  BY DEF Typed, TypeOK
<1>3. CASE queue' = queue
  BY <1>1, <1>2, <1>3 DEF QueuedCame
<1>4. ASSUME NEW p \in Photo, Arrive(p) PROVE QueuedCame'
  <2>1. queue' = queue \/ queue' = Append(queue, p)
    BY <1>4 DEF Arrive
  <2>2. photo'[p].state # "none"
    BY <1>4 DEF Arrive, Typed, TypeOK
  <2>3. CASE queue' = Append(queue, p)
    <3>1. \A i \in DOMAIN queue' : queue'[i] = p \/ \E k \in DOMAIN queue : queue'[i] = queue[k]
      BY <1>2, <2>3
    <3>2. \A k \in DOMAIN queue : photo'[queue[k]].state # "none"
      BY <1>1, <1>2 DEF QueuedCame
    <3> QED
      BY <2>2, <3>1, <3>2 DEF QueuedCame
  <2> QED
    BY <1>3, <2>1, <2>3
<1>5. ASSUME NEW c \in Card, Trigger(c) PROVE QueuedCame'
  <2> DEFINE S == {p \in Kept(c) \ turn[c].before : ~already_processed(p)}
             t == SetToSeq(S)
  <2>1. S \in SUBSET Photo /\ \A p \in S : photo[p].state = "kept"
    BY DEF Kept
  <2>2. t \in Seq(S) /\ t \in Seq(Photo)
    BY <2>1, PhotosInSequence
  <2>3. queue' = queue \/ queue' = queue \o t
    BY <1>5 DEF Trigger
  <2> HIDE DEF S, t
  <2>4. CASE queue' = queue \o t
    <3>1. \A i \in DOMAIN queue' : \/ \E k \in DOMAIN queue : queue'[i] = queue[k]
                                  \/ queue'[i] \in S
      BY <1>2, <2>2, <2>4
    <3>2. photo' = photo
      BY <1>5 DEF Trigger
    <3> QED
      BY <2>1, <3>1, <3>2 DEF QueuedCame
  <2> QED
    BY <1>3, <2>3, <2>4
<1>6. ASSUME NEW w \in Worker, Pop(w) PROVE QueuedCame'
  <2>1. queue' = Tail(queue) /\ queue # <<>> /\ photo' = photo
    BY <1>6 DEF Pop
  <2>2. \A i \in DOMAIN queue' : i + 1 \in DOMAIN queue /\ queue'[i] = queue[i + 1]
    BY <1>2, <2>1
  <2> QED
    BY <2>1, <2>2 DEF QueuedCame
<1>7. \/ queue' = queue
      \/ \E p \in Photo : Arrive(p)
      \/ \E c \in Card : Trigger(c)
      \/ \E w \in Worker : Pop(w)
  <2>1. ASSUME NEW p \in Photo, Keep(p) \/ Undo(p) \/ Expire(p) PROVE queue' = queue
    BY <2>1 DEF Keep, Undo, Expire
  <2>2. ASSUME NEW c \in Card, LeadWrites(c) \/ Answer(c) \/ Sync(c) \/ Person(c) \/ Deliver(c)
        PROVE  queue' = queue
    BY <2>2 DEF LeadWrites, Answer, Sync, Person, Validate, Drag, Deliver
  <2>3. ASSUME NEW w \in Worker, Look(w) \/ Read(w) \/ Store(w) \/ Compare(w) \/ Approve(w)
                                  \/ Release(w) \/ Crash(w)
        PROVE  queue' = queue
    BY <2>3 DEF Look, Read, Store, Compare, Approve, Release, Crash
  <2>4. ASSUME NEW i \in DOMAIN receipt, Confirm(i) \/ Reject(i) PROVE queue' = queue
    BY <2>4 DEF Confirm, Reject
  <2>5. CASE UNCHANGED vars
    BY <2>5 DEF vars
  <2> QED
    BY <2>1, <2>2, <2>3, <2>4, <2>5 DEF Next, Webhook, TurnOf, Vision
<1> QED
  BY <1>3, <1>4, <1>5, <1>6, <1>7

LEMMA CameNext ==
    ASSUME Typed, Came, [Next]_vars
    PROVE  Came'
<1>1. \A p \in Photo : photo[p].state # "none" =>
          photo'[p].state # "none" /\ photo'[p].card = photo[p].card
  BY PhotoStays
<1>2. QueuedCame'
  BY QueueStep DEF Came
<1>3. \A w \in Worker : job[w].photo \in Photo
  BY DEF Typed, TypeOK, Work
<1>4. \A i \in DOMAIN receipt : receipt[i].photo \in Photo
  <2>1. \A i \in DOMAIN receipt : receipt[i] \in Row
    BY DEF Typed, TypeOK
  <2> QED
    BY <2>1 DEF Row
<1>5. ServedCame'
  <2> SUFFICES ASSUME NEW v \in Worker, job'[v].pc # "idle"
               PROVE  photo'[job'[v].photo].state # "none"
    BY DEF ServedCame
  <2>1. CASE job[v].pc # "idle" /\ job'[v].photo = job[v].photo
    BY <1>1, <1>3, <2>1 DEF Came, ServedCame
  <2>2. ASSUME NEW w \in Worker, Pop(w), job'[v] # job[v]
        PROVE  photo'[job'[v].photo].state # "none"
    <3>1. v = w /\ job'[v].photo = Head(queue) /\ queue # <<>> /\ photo' = photo
      BY <2>2, JobBegins
    <3>2. Head(queue) = queue[1] /\ 1 \in DOMAIN queue
      BY <3>1 DEF Typed, TypeOK
    <3> QED
      BY <3>1, <3>2 DEF Came, QueuedCame
  <2>3. ASSUME NEW w \in Worker, GoesOn(w)
        PROVE  job[v].pc # "idle" /\ job'[v].photo = job[v].photo
    BY <2>3, JobGoesOn
  <2>4. ASSUME NEW w \in Worker, Release(w) \/ Crash(w)
        PROVE  job[v].pc # "idle" /\ job'[v].photo = job[v].photo
    BY <2>4, JobEnds
  <2>5. \/ job'[v] = job[v]
        \/ \E w \in Worker : GoesOn(w) \/ Pop(w) \/ Release(w) \/ Crash(w)
    BY JobsRest
  <2> QED
    BY <2>1, <2>2, <2>3, <2>4, <2>5
<1>6. RowsCame'
  <2>1. ASSUME NEW k, Amended(k) PROVE RowsCame'
    BY <1>1, <1>4, <2>1 DEF Amended, Same, Came, RowsCame
  <2>2. ASSUME NEW w \in Worker, Added(w) PROVE RowsCame'
    <3> DEFINE row == NewRow(job[w])
               n == Len(receipt) + 1
    <3>1. row \in Row /\ row.photo = job[w].photo /\ row.card = photo[job[w].photo].card
      BY NewRowTyped DEF NewRow
    <3>2. receipt' = Append(receipt, row) /\ receipt \in Seq(Row) /\ photo' = photo
      BY <2>2 DEF Added, Store, Typed, TypeOK
    <3>3. photo[job[w].photo].state # "none"
      BY <2>2 DEF Added, Store, At, Came, ServedCame
    <3> HIDE DEF row
    <3>4. /\ DOMAIN receipt' = DOMAIN receipt \cup {n} /\ receipt'[n] = row
          /\ \A i \in DOMAIN receipt : receipt'[i] = receipt[i]
      BY <3>1, <3>2
    <3> QED
      BY <3>1, <3>2, <3>3, <3>4 DEF Came, RowsCame
  <2> QED
    BY <2>1, <2>2, RowsNext
<1> QED
  BY <1>2, <1>5, <1>6 DEF Came

\* What the table has of a photo that was read: its own image.
Content(p) == <<"sha", photo[p].image>>

\* A job has judged nothing before it reads, and what it reads is the image of its photo;
\* a green row holds it.
ReadsItsImage(w) ==
    /\ job[w].pc = "look" => ~job[w].green
    /\ job[w].pc = "read" \/ (job[w].pc = "store" /\ job[w].green)
          => job[w].sha = Content(job[w].photo)
JobReads == \A w \in Worker : ReadsItsImage(w)
RowReads == \A i \in DOMAIN receipt : receipt[i].green => receipt[i].sha = Content(receipt[i].photo)

Reads == Typed /\ Came /\ JobReads /\ RowReads

LEMMA ReadsInit == Init => Reads
<1> SUFFICES ASSUME Init PROVE Reads
  OBVIOUS
<1>1. receipt = <<>> /\ queue = <<>> /\ \A w \in Worker : job[w].pc = "idle"
  BY BlankJob DEF Init
<1> QED
  BY <1>1, TypedInit
  DEF Reads, Came, QueuedCame, ServedCame, RowsCame, JobReads, ReadsItsImage, RowReads

\* A step of the job itself.
LEMMA JobReadsOn ==
    ASSUME Typed, NEW w \in Worker, ReadsItsImage(w), GoesOn(w)
    PROVE  ReadsItsImage(w)'
<1> DEFINE p == job[w].photo
<1>1. job[w] \in Work /\ w \in DOMAIN job
  BY DEF Typed, TypeOK
<1>2. job'[w].photo = p /\ photo' = photo
  BY JobGoesOn
<1>3. ASSUME NEW pc, Goto(w, pc) PROVE job'[w].pc = pc
  BY <1>1, <1>3 DEF Goto, Work, Typed, TypeOK
<1>4. CASE Look(w)
  <2> DEFINE f == card[photo[p].card].flags
             j(pc, s) == [job[w] EXCEPT !.pc = pc, !.flags = f, !.sha = s]
  <2>1. \/ Goto(w, "release")
        \/ job' = [job EXCEPT ![w] = j("store", <<"unreadable", p>>)]
        \/ job' = [job EXCEPT ![w] = j("store", <<"reused", p>>)]
        \/ job' = [job EXCEPT ![w] = j("read", Content(p))]
    BY <1>4 DEF Look, Unread, Content
  <2>2. \A pc, s : j(pc, s).pc = pc /\ j(pc, s).sha = s /\ j(pc, s).green = job[w].green
    BY <1>1 DEF Work
  <2>3. ~job[w].green
    BY <1>4 DEF Look, At, ReadsItsImage
  <2> HIDE DEF j
  <2>4. \/ job'[w].pc = "release"
        \/ job'[w].pc = "store" /\ ~job'[w].green
        \/ job'[w].pc = "read" /\ job'[w].sha = Content(p)
    BY <1>1, <1>3, <2>1, <2>2, <2>3
  <2> QED
    BY <1>2, <2>4 DEF ReadsItsImage, Content
<1>5. CASE Read(w)
  <2> DEFINE t == Shows[job[w].sha[2]]
             j(r) == [job[w] EXCEPT !.pc = "store", !.extracted = IF r.legible THEN t ELSE None,
                                    !.green = WithReuseCheck(r.passed, t)]
  <2>1. PICK r \in Reading : job' = [job EXCEPT ![w] = j(r)]
    BY <1>5 DEF Read
  <2>2. j(r).pc = "store" /\ j(r).sha = job[w].sha
    BY <1>1 DEF Work
  <2>3. job[w].sha = Content(p)
    BY <1>5 DEF Read, At, ReadsItsImage
  <2> HIDE DEF j
  <2>4. job'[w].pc = "store" /\ job'[w].sha = Content(p)
    BY <1>1, <2>1, <2>2, <2>3
  <2> QED
    BY <1>2, <2>4 DEF ReadsItsImage, Content
<1>6. CASE Store(w) \/ Compare(w) \/ Approve(w)
  <2>1. job'[w].pc \notin {"look", "read", "store"}
    BY <1>3, <1>6 DEF Store, Compare, Approve
  <2> QED
    BY <2>1 DEF ReadsItsImage
<1> QED
  BY <1>4, <1>5, <1>6 DEF GoesOn

LEMMA JobReadsNext ==
    ASSUME Typed, ServedCame, JobReads, [Next]_vars
    PROVE  JobReads'
<1> SUFFICES ASSUME NEW v \in Worker PROVE ReadsItsImage(v)'
  BY DEF JobReads
<1>1. CASE job'[v] = job[v]
  <2>1. job[v].photo \in Photo
    BY DEF Typed, TypeOK, Work
  <2>2. job[v].pc # "idle" => Content(job[v].photo)' = Content(job[v].photo)
    BY <1>1, <2>1, PhotoStays DEF ServedCame, Content
  <2> QED
    BY <1>1, <2>2 DEF JobReads, ReadsItsImage
<1>2. ASSUME NEW w \in Worker, GoesOn(w), job'[v] # job[v] PROVE ReadsItsImage(v)'
  BY <1>2, JobGoesOn, JobReadsOn DEF JobReads
<1>3. ASSUME NEW w \in Worker, Pop(w), job'[v] # job[v] PROVE ReadsItsImage(v)'
  <2> DEFINE j == [Idle EXCEPT !.pc = "look", !.photo = Head(queue)]
  <2>1. v = w
    BY <1>3, JobBegins
  <2>2. j.pc = "look" /\ ~j.green
    BY DEF Idle
  <2>3. job' = [job EXCEPT ![w] = j]
    BY <1>3 DEF Pop
  <2> HIDE DEF j
  <2>4. job'[v].pc = "look" /\ ~job'[v].green
    BY <2>1, <2>2, <2>3 DEF Typed, TypeOK
  <2> QED
    BY <2>4 DEF ReadsItsImage
<1>4. ASSUME NEW w \in Worker, Release(w) \/ Crash(w), job'[v] # job[v] PROVE ReadsItsImage(v)'
  BY <1>4, JobEnds DEF ReadsItsImage
<1> QED
  BY <1>1, <1>2, <1>3, <1>4, JobsRest

LEMMA ReadsNext ==
    ASSUME Reads, [Next]_vars
    PROVE  Reads'
<1>1. Typed' /\ Came' /\ JobReads'
  BY RowsNext, CameNext, JobReadsNext DEF Reads, Came
<1>2. \A i \in DOMAIN receipt :
         photo'[receipt[i].photo].image = photo[receipt[i].photo].image
  <2>1. \A i \in DOMAIN receipt : receipt[i] \in Row
    BY DEF Reads, Typed, TypeOK
  <2> QED
    BY <2>1, PhotoStays DEF Reads, Came, RowsCame, Row
<1>3. ASSUME NEW k, Amended(k) PROVE RowReads'
  BY <1>2, <1>3 DEF Amended, Same, Reads, RowReads, Content
<1>4. ASSUME NEW w \in Worker, Added(w) PROVE RowReads'
  <2> DEFINE row == NewRow(job[w])
             n == Len(receipt) + 1
  <2>1. row \in Row /\ row.photo = job[w].photo /\ row.sha = job[w].sha /\ row.green = job[w].green
    BY NewRowTyped DEF NewRow, Reads
  <2>2. receipt' = Append(receipt, row) /\ receipt \in Seq(Row) /\ photo' = photo
    BY <1>4 DEF Added, Store, Reads, Typed, TypeOK
  <2>3. row.green => row.sha = Content(row.photo)
    BY <1>4, <2>1 DEF Added, Store, At, Reads, JobReads, ReadsItsImage
  <2> HIDE DEF row
  <2>4. /\ DOMAIN receipt' = DOMAIN receipt \cup {n} /\ receipt'[n] = row
        /\ \A i \in DOMAIN receipt : receipt'[i] = receipt[i]
    BY <2>1, <2>2
  <2> HIDE DEF n
  <2> QED
    BY <2>2, <2>3, <2>4 DEF Reads, RowReads, Content
<1> QED
  BY <1>1, <1>3, <1>4, RowsNext DEF Reads

\* A message gets one green verdict, so the system approves it once, however many jobs of
\* it run at once and whenever their locks expire: both read one image, and the index on
\* the hash of the image takes it once.
THEOREM OneGreenPerMessage == Spec => []PaysOnce
<1>1. Init => Reads
  BY ReadsInit
<1>2. Reads /\ [Next]_vars => Reads'
  BY ReadsNext
<1>3. Reads /\ OneRowEach => PaysOnce
  BY DEF Reads, RowReads, OneRowEach, PaysOnce
<1> QED
  BY <1>1, <1>2, <1>3, OneRowOfEach, PTL DEF Spec

-----------------------------------------------------------------------------
(* The decision of a person wins. *)

\* What the theorem asks: one consumer, nobody acting between a fresh
\* read and its commit, and nobody dragging a card back to where it was sold or paid.
Early        == {"sale", "PAYMENT_VALIDATION"}
NobodyReturns == Targets \cap Early = {}
NobodyMeddles == OneConsumer /\ Overlap = FALSE /\ NobodyReturns

\* Nothing takes a card back to the stages where it was sold or paid.
LEMMA NoReturn ==
    ASSUME Typed, NobodyReturns, [Next]_vars, NEW c \in Card, card'[c].stage \in Early
    PROVE  card[c].stage \in Early
<1>1. ASSUME NEW d \in Card, NEW s, card' = [card EXCEPT ![d].stage = s],
             s \in Early => card[d].stage \in Early
      PROVE  card[c].stage \in Early
  BY <1>1 DEF Typed, TypeOK
<1>2. ASSUME NEW d \in Card, NEW s, NEW f, s \notin Early,
             card' = [card EXCEPT ![d] = [stage |-> s, flags |-> f]]
      PROVE  card[c].stage \in Early
  BY <1>2 DEF Typed, TypeOK
<1>3. ASSUME NEW d \in Card, NEW f, card' = [card EXCEPT ![d].flags = f]
      PROVE  card[c].stage \in Early
  <2> DEFINE k == [card[d] EXCEPT !.flags = f]
  <2>1. card' = [card EXCEPT ![d] = k] /\ k.stage = card[d].stage
    BY <1>3 DEF Typed, TypeOK
  <2> HIDE DEF k
  <2> QED
    BY <2>1 DEF Typed, TypeOK
<1>4. CASE card' = card
  BY <1>4
<1>5. ASSUME NEW d \in Card, Sync(d) PROVE card[c].stage \in Early
  <2> DEFINE s == IF turn[d].handoff /\ card[d].stage = "sale"
                  THEN "PAYMENT_VALIDATION" ELSE card[d].stage
  <2>1. card' = [card EXCEPT ![d].stage = s] /\ (s \in Early => card[d].stage \in Early)
    BY <1>5 DEF Sync, Early
  <2> HIDE DEF s
  <2> QED
    BY <1>1, <2>1
<1>6. ASSUME NEW d \in Card, Validate(d) \/ Deliver(d) PROVE card[c].stage \in Early
  <2>1. \/ card' = [card EXCEPT ![d].stage = "DELIVERED"]
        \/ card' = [card EXCEPT ![d] = [stage |-> "PAYMENT_VALIDATED",
                                       flags |-> card[d].flags \ {"receipt_review"}]]
    BY <1>6 DEF Validate, Deliver
  <2> QED
    BY <1>1, <1>2, <2>1 DEF Early
<1>7. ASSUME NEW d \in Card, Drag(d) PROVE card[c].stage \in Early
  <2>1. PICK s \in Targets : RecordManualApproval(d, s)
    BY <1>7 DEF Drag
  <2>2. s \notin Early
    BY DEF NobodyReturns
  <2>3. \/ card' = [card EXCEPT ![d].stage = s]
        \/ card' = [card EXCEPT ![d] = [stage |-> s, flags |-> card[d].flags \ {"receipt_review"}]]
    BY <2>1 DEF RecordManualApproval
  <2> QED
    BY <1>1, <1>2, <2>2, <2>3
<1>8. ASSUME NEW i \in DOMAIN receipt, Confirm(i) \/ Reject(i) PROVE card[c].stage \in Early
  <2> DEFINE d == receipt[i].card
             f == card[d].flags \ {"payment_unconfirmed"}
  <2>1. d \in Card
    <3>1. receipt[i] \in Row
      BY DEF Typed, TypeOK
    <3> QED
      BY <3>1 DEF Row
  <2>2. \/ card' = [card EXCEPT ![d].flags = f]
        \/ card' = [card EXCEPT ![d] = [stage |-> "HUMAN_LOST", flags |-> f]]
    BY <1>8 DEF Confirm, Reject
  <2> HIDE DEF d, f
  <2> QED
    BY <1>2, <1>3, <2>1, <2>2 DEF Early
<1>9. ASSUME NEW w \in Worker, Store(w) PROVE card[c].stage \in Early
  <2> DEFINE d == NewRow(job[w]).card
  <2>1. d \in Card
    BY NewRowTyped DEF Row
  <2>2. card' = card \/ \E f : card' = [card EXCEPT ![d].flags = f]
    <3>1. \/ card' = card
          \/ \E f : SetFlags(d, job[w].flags, f)
      BY <1>9 DEF Store
    <3> HIDE DEF d
    <3> QED
      BY <3>1 DEF SetFlags
  <2> HIDE DEF d
  <2> QED
    BY <1>3, <1>4, <2>1, <2>2
<1>10. ASSUME NEW w \in Worker, Approve(w) PROVE card[c].stage \in Early
  <2> DEFINE d == photo[job[w].photo].card
  <2>1. d \in Card
    BY DEF Typed, TypeOK, Work, Message
  <2>2. card' = [card EXCEPT ![d].stage = "PAYMENT_VALIDATED"]
    BY <1>10 DEF Approve
  <2> HIDE DEF d
  <2> QED
    BY <1>1, <2>1, <2>2 DEF Early
<1>11. ASSUME NEW p \in Photo, Webhook(p) \/ Expire(p) PROVE card' = card
  BY <1>11 DEF Webhook, Arrive, Keep, Undo, Expire
<1>12. ASSUME NEW d \in Card, LeadWrites(d) \/ Answer(d) \/ Trigger(d) PROVE card' = card
  BY <1>12 DEF LeadWrites, Answer, Trigger
<1>13. ASSUME NEW w \in Worker,
              Pop(w) \/ Look(w) \/ Read(w) \/ Compare(w) \/ Release(w) \/ Crash(w)
       PROVE  card' = card
  BY <1>13 DEF Pop, Look, Read, Compare, Release, Crash
<1>14. CASE UNCHANGED vars
  BY <1>4, <1>14 DEF vars
<1> QED
  BY <1>4, <1>5, <1>6, <1>7, <1>8, <1>9, <1>10, <1>11, <1>12, <1>13, <1>14
  DEF Next, TurnOf, Person, Vision

\* Only the second commit of an approval approves for the system, and only Reject rejects.
ByWhom(i) ==
    /\ receipt'[i].approved = "system" => \/ receipt[i].approved = "system"
                                          \/ \E w \in Worker : Approve(w) /\ receipt[i].photo = job[w].photo
    /\ receipt'[i].rejected => receipt[i].rejected \/ Reject(i)

LEMMA WhoDecides ==
    ASSUME Typed, [Next]_vars, NEW i \in DOMAIN receipt
    PROVE  ByWhom(i)
<1>1. receipt[i] \in Row /\ receipt \in Seq(Row)
  BY DEF Typed, TypeOK
<1>2. CASE receipt'[i] = receipt[i]
  BY <1>2 DEF ByWhom
<1>3. ASSUME NEW k, NEW q, receipt' = [receipt EXCEPT ![k] = q],
             k \in DOMAIN receipt =>
                /\ q.approved = "system" => receipt[k].approved = "system"
                /\ q.rejected = receipt[k].rejected
      PROVE  ByWhom(i)
  <2>1. receipt'[i] = IF i = k THEN q ELSE receipt[i]
    BY <1>3
  <2> QED
    BY <1>3, <2>1 DEF ByWhom
<1>4. ASSUME NEW c \in Card, Validate(c) PROVE ByWhom(i)
  <2> DEFINE k  == Latest(c)
             r  == receipt[k]
             noted(note) == [r EXCEPT !.note = r.note \/ note,
                                      !.approved = IF r.approved = "nobody" THEN "user" ELSE r.approved]
  <2>1. CASE receipt' = receipt
    BY <1>2, <2>1
  <2>2. ASSUME NEW note \in BOOLEAN, receipt' = [receipt EXCEPT ![k] = Claim(noted(note))]
        PROVE  ByWhom(i)
    <3> DEFINE q == noted(note)
    <3>1. ASSUME k \in DOMAIN receipt
          PROVE  /\ Claim(q).approved = "system" => r.approved = "system"
                 /\ Claim(q).rejected = r.rejected
      <4>1. r \in Row
        BY <3>1 DEF Typed, TypeOK
      <4>2. q \in Row /\ q.approved \in {"user", r.approved} /\ q.rejected = r.rejected
        <5> HIDE DEF r
        <5> QED
          BY <4>1 DEF Row
      <4> HIDE DEF q, r
      <4> QED
        BY <4>2, ClaimedRow
    <3> HIDE DEF k, noted
    <3> QED
      BY <1>3, <2>2, <3>1
  <2>3. receipt' = receipt \/ \E note \in BOOLEAN : receipt' = [receipt EXCEPT ![k] = Claim(noted(note))]
    BY <1>4 DEF Validate
  <2> HIDE DEF k, noted
  <2> QED
    BY <2>1, <2>2, <2>3
<1>5. ASSUME NEW c \in Card, Drag(c) PROVE ByWhom(i)
  <2> DEFINE k == Latest(c)
             r == receipt[k]
             q == [r EXCEPT !.approved = "drag"]
  <2>1. receipt' = receipt \/ receipt' = [receipt EXCEPT ![k] = q]
    BY <1>5 DEF Drag, RecordManualApproval
  <2>2. ASSUME k \in DOMAIN receipt PROVE q.approved # "system" /\ q.rejected = r.rejected
    <3>1. r \in Row
      BY <2>2 DEF Typed, TypeOK
    <3> HIDE DEF r
    <3> QED
      BY <3>1 DEF Row
  <2> HIDE DEF k, q
  <2> QED
    BY <1>2, <1>3, <2>1, <2>2
<1>6. ASSUME NEW j \in DOMAIN receipt, Confirm(j) PROVE ByWhom(i)
  <2> DEFINE q == [receipt[j] EXCEPT !.confirmed = TRUE]
  <2>1. receipt' = [receipt EXCEPT ![j] = q]
    BY <1>6 DEF Confirm
  <2>2. q.approved = receipt[j].approved /\ q.rejected = receipt[j].rejected
    BY DEF Typed, TypeOK, Row
  <2> HIDE DEF q
  <2> QED
    BY <1>3, <2>1, <2>2
<1>7. ASSUME NEW j \in DOMAIN receipt, Reject(j) PROVE ByWhom(i)
  <2> DEFINE q == [receipt[j] EXCEPT !.rejected = TRUE, !.note = TRUE]
  <2>1. receipt' = [receipt EXCEPT ![j] = q]
    BY <1>7 DEF Reject
  <2>2. q.approved = receipt[j].approved
    BY DEF Typed, TypeOK, Row
  <2> HIDE DEF q
  <2>3. receipt'[i] = IF i = j THEN q ELSE receipt[i]
    BY <2>1
  <2> QED
    BY <1>7, <2>2, <2>3 DEF ByWhom
<1>8. ASSUME NEW w \in Worker, Store(w) PROVE ByWhom(i)
  <2> DEFINE row == NewRow(job[w])
  <2>1. row \in Row /\ (receipt' = receipt \/ receipt' = Append(receipt, row))
    BY <1>8, NewRowTyped DEF Store
  <2> HIDE DEF row
  <2>2. receipt'[i] = receipt[i]
    BY <1>1, <2>1
  <2> QED
    BY <1>2, <2>2
<1>9. ASSUME NEW w \in Worker, Approve(w) PROVE ByWhom(i)
  <2> DEFINE p == job[w].photo
             q == [receipt[i] EXCEPT !.approved = "system"]
  <2>1. receipt'[i] = IF receipt[i].photo = p /\ receipt[i].green THEN q ELSE receipt[i]
    BY <1>9 DEF Approve
  <2>2. q.rejected = receipt[i].rejected
    BY <1>1 DEF Row
  <2> HIDE DEF q
  <2> QED
    BY <1>9, <2>1, <2>2 DEF ByWhom
<1>10. ASSUME NEW p \in Photo, Webhook(p) \/ Expire(p) PROVE receipt' = receipt
  BY <1>10 DEF Webhook, Arrive, Keep, Undo, Expire
<1>11. ASSUME NEW c \in Card, LeadWrites(c) \/ TurnOf(c) \/ Deliver(c) PROVE receipt' = receipt
  BY <1>11 DEF LeadWrites, TurnOf, Answer, Sync, Trigger, Deliver
<1>12. ASSUME NEW w \in Worker,
              Pop(w) \/ Look(w) \/ Read(w) \/ Compare(w) \/ Release(w) \/ Crash(w)
       PROVE  receipt' = receipt
  BY <1>12 DEF Pop, Look, Read, Compare, Release, Crash
<1>13. CASE UNCHANGED vars
  BY <1>2, <1>13 DEF vars
<1> QED
  BY <1>2, <1>4, <1>5, <1>6, <1>7, <1>8, <1>9, <1>10, <1>11, <1>12, <1>13
  DEF Next, Person, Vision

\* The card of a job about to move it still waits, and that of a rejected payment does not.
Waits         == \A w \in Worker : job[w].pc = "move" => Waiting(photo[job[w].photo].card)
RejectedIsOut == \A i \in DOMAIN receipt : receipt[i].rejected => card[receipt[i].card].stage \notin Early
Decided       == Typed /\ Came /\ Waits /\ RejectedIsOut

LEMMA DecidedInit == Init => Decided
<1> SUFFICES ASSUME Init PROVE Decided
  OBVIOUS
<1>1. DOMAIN receipt = {} /\ DOMAIN queue = {} /\ \A w \in Worker : job[w].pc = "idle"
  BY BlankJob DEF Init
<1> QED
  BY <1>1, TypedInit DEF Decided, Came, QueuedCame, ServedCame, RowsCame, Waits, RejectedIsOut

LEMMA WaitsStep ==
    ASSUME Decided, NobodyMeddles, [Next]_vars
    PROVE  Waits'
<1> SUFFICES ASSUME NEW v \in Worker, job'[v].pc = "move"
             PROVE  card'[photo'[job'[v].photo].card].stage = "PAYMENT_VALIDATION"
  BY DEF Waits, Waiting
<1> DEFINE p == job[v].photo
           c == photo[p].card
<1>1. Typed /\ p \in Photo /\ c \in Card
  BY DEF Decided, Typed, TypeOK, Work, Message
<1>2. ASSUME NEW w \in Worker, GoesOn(w)
      PROVE  card'[photo'[job'[v].photo].card].stage = "PAYMENT_VALIDATION"
  <2>1. v = w
    BY DEF NobodyMeddles, OneConsumer
  <2>2. Compare(v) /\ Waiting(c) /\ job'[v].photo = p /\ photo' = photo
    BY <1>1, <1>2, <2>1, JobGoesOn
  <2> QED
    BY <2>2 DEF Compare, Waiting
<1>3. ASSUME NEW w \in Worker, Pop(w) \/ Release(w) \/ Crash(w) PROVE FALSE
  <2>1. v = w
    BY DEF NobodyMeddles, OneConsumer
  <2> QED
    BY <1>1, <1>3, <2>1, JobBegins, JobEnds
<1>4. ASSUME job' = job, card'[c].stage = card[c].stage
      PROVE  card'[photo'[job'[v].photo].card].stage = "PAYMENT_VALIDATION"
  <2>1. Waiting(c) /\ photo[p].state # "none"
    BY <1>4 DEF Decided, Waits, Came, ServedCame
  <2>2. photo'[p].card = c
    BY <1>1, <2>1, PhotoStays
  <2> QED
    BY <1>4, <2>1, <2>2 DEF Waiting
<1>5. ASSUME job' = job PROVE Waiting(c) /\ (\A d \in Card : MayAct(d) => d # c)
  BY <1>5 DEF Decided, Waits, MayAct, At, NobodyMeddles
<1>6. ASSUME NEW d \in Card, NEW k, card' = [card EXCEPT ![d] = k], d # c \/ k.stage = card[d].stage
      PROVE  card'[c].stage = card[c].stage
  BY <1>1, <1>6 DEF Typed, TypeOK
<1>7. ASSUME NEW d \in Card, Sync(d) PROVE job' = job /\ card'[c].stage = card[c].stage
  <2> DEFINE s == IF turn[d].handoff /\ card[d].stage = "sale"
                  THEN "PAYMENT_VALIDATION" ELSE card[d].stage
             k == [card[d] EXCEPT !.stage = s]
  <2>1. job' = job /\ card' = [card EXCEPT ![d] = k]
    BY <1>7 DEF Sync
  <2>2. k.stage = s
    BY <1>1 DEF Typed, TypeOK
  <2>3. d = c => s = card[d].stage
    BY <1>5, <2>1 DEF Waiting
  <2> HIDE DEF k, s
  <2> QED
    BY <1>6, <2>1, <2>2, <2>3
<1>8. ASSUME NEW d \in Card, Person(d) PROVE job' = job /\ card'[c].stage = card[c].stage
  <2>1. job' = job /\ d # c
    BY <1>5, <1>8 DEF Person, Validate, Drag
  <2>2. \E k : card' = [card EXCEPT ![d] = k]
    BY <1>8 DEF Person, Validate, Drag, RecordManualApproval
  <2> QED
    BY <1>6, <2>1, <2>2
<1>9. ASSUME NEW d \in Card, Deliver(d) PROVE job' = job /\ card'[c].stage = card[c].stage
  <2>1. job' = job /\ d # c
    BY <1>5, <1>9 DEF Deliver, Waiting
  <2>2. \E k : card' = [card EXCEPT ![d] = k]
    BY <1>9 DEF Deliver
  <2> QED
    BY <1>6, <2>1, <2>2
<1>10. ASSUME NEW i \in DOMAIN receipt, Confirm(i) \/ Reject(i)
       PROVE  job' = job /\ card'[c].stage = card[c].stage
  <2> DEFINE d == receipt[i].card
             k == [card[d] EXCEPT !.flags = card[d].flags \ {"payment_unconfirmed"}]
  <2>1. receipt[i] \in Row
    BY <1>1 DEF Typed, TypeOK
  <2>2. d \in Card
    BY <2>1 DEF Row
  <2>3. CASE Confirm(i)
    <3>1. job' = job /\ card' = [card EXCEPT ![d] = k] /\ k.stage = card[d].stage
      BY <1>1, <2>2, <2>3 DEF Confirm, Typed, TypeOK
    <3> HIDE DEF k, d
    <3> QED
      BY <1>6, <2>2, <3>1
  <2>4. CASE Reject(i)
    <3>1. job' = job /\ d # c
      BY <1>5, <2>2, <2>4 DEF Reject
    <3>2. \E x : card' = [card EXCEPT ![d] = x]
      BY <2>4 DEF Reject
    <3> HIDE DEF d
    <3> QED
      BY <1>6, <2>2, <3>1, <3>2
  <2> QED
    BY <1>10, <2>3, <2>4
<1>11. ASSUME NEW q \in Photo, Webhook(q) \/ Expire(q) PROVE job' = job /\ card' = card
  BY <1>11 DEF Webhook, Arrive, Keep, Undo, Expire
<1>12. ASSUME NEW d \in Card, LeadWrites(d) \/ Answer(d) \/ Trigger(d) PROVE job' = job /\ card' = card
  BY <1>12 DEF LeadWrites, Answer, Trigger
<1>13. CASE UNCHANGED vars
  BY <1>4, <1>13 DEF vars
<1> QED
  BY <1>2, <1>3, <1>4, <1>7, <1>8, <1>9, <1>10, <1>11, <1>12, <1>13
  DEF Next, TurnOf, Vision, GoesOn

LEMMA DecidedNext ==
    ASSUME NobodyMeddles, Decided, [Next]_vars
    PROVE  Decided'
<1>1. Typed' /\ Came' /\ Waits'
  BY RowsNext, CameNext, WaitsStep DEF Decided
<1>2. ASSUME NEW i \in DOMAIN receipt'
      PROVE  receipt'[i].rejected => card'[receipt'[i].card].stage \notin Early
  <2>1. CASE i \in DOMAIN receipt
    <3>1. receipt'[i].card = receipt[i].card
      <4>1. ASSUME NEW k, Amended(k) PROVE receipt'[i].card = receipt[i].card
        BY <2>1, <4>1 DEF Amended, Same
      <4>2. ASSUME NEW w \in Worker, Added(w) PROVE receipt'[i].card = receipt[i].card
        <5> DEFINE row == NewRow(job[w])
        <5>1. row \in Row /\ receipt \in Seq(Row) /\ receipt' = Append(receipt, row)
          BY <4>2, NewRowTyped DEF Added, Decided, Typed, TypeOK
        <5> HIDE DEF row
        <5> QED
          BY <2>1, <5>1
      <4> QED
        BY <4>1, <4>2, RowsNext DEF Decided
    <3>2. receipt[i].card \in Card
      <4>1. receipt[i] \in Row
        BY <2>1 DEF Decided, Typed, TypeOK
      <4> QED
        BY <4>1 DEF Row
    <3>3. CASE receipt[i].rejected
      BY <2>1, <3>1, <3>2, <3>3, NoReturn DEF Decided, RejectedIsOut, NobodyMeddles
    <3>4. CASE Reject(i)
      BY <3>1, <3>2, <3>4 DEF Reject, Early, Decided, Typed, TypeOK
    <3> QED
      BY <2>1, <3>3, <3>4, WhoDecides DEF ByWhom, Decided
  <2>2. CASE i \notin DOMAIN receipt
    <3>1. PICK w \in Worker : Added(w)
      BY <2>2, RowsNext DEF Amended, Decided
    <3> DEFINE row == NewRow(job[w])
    <3>2. row \in Row /\ receipt \in Seq(Row) /\ receipt' = Append(receipt, row) /\ ~row.rejected
      BY <3>1, NewRowTyped DEF Added, Decided, Typed, TypeOK, NewRow
    <3> HIDE DEF row
    <3>3. receipt'[i] = row
      BY <2>2, <3>2
    <3> QED
      BY <3>2, <3>3
  <2> QED
    BY <2>1, <2>2
<1> QED
  BY <1>1, <1>2 DEF Decided, RejectedIsOut

\* With one worker, the system approves a payment only where the card waits for it at that
\* moment and nobody has rejected it, whatever people decided while it was read.
THEOREM DecisionWins == NobodyMeddles /\ Spec => PersonDecides
<1> SUFFICES ASSUME NobodyMeddles PROVE Spec => PersonDecides
  OBVIOUS
<1>1. Init => Decided
  BY DecidedInit
<1>2. Decided /\ [Next]_vars => Decided'
  BY DecidedNext
<1>3. ASSUME Decided, [Next]_vars
      PROVE  \A i \in DOMAIN receipt :
                receipt[i].approved = "nobody" /\ receipt'[i].approved = "system" =>
                    Waiting(receipt[i].card) /\ ~receipt[i].rejected
  <2> SUFFICES ASSUME NEW i \in DOMAIN receipt, receipt[i].approved = "nobody",
                      receipt'[i].approved = "system"
               PROVE  Waiting(receipt[i].card) /\ ~receipt[i].rejected
    OBVIOUS
  <2>1. PICK w \in Worker : Approve(w) /\ receipt[i].photo = job[w].photo
    BY <1>3, WhoDecides DEF ByWhom, Decided
  <2>2. receipt[i].card = photo[job[w].photo].card
    BY <1>3, <2>1 DEF Decided, Came, RowsCame
  <2>3. Waiting(receipt[i].card)
    BY <1>3, <2>1, <2>2 DEF Approve, At, Decided, Waits
  <2> QED
    BY <1>3, <2>3 DEF Decided, RejectedIsOut, Waiting, Early
<1> QED
  BY <1>1, <1>2, <1>3, PTL DEF Spec, PersonDecides

-----------------------------------------------------------------------------
(* The board shows what is left to do. *)

\* A job that has looked at its card judges the photo, and then settles the payment.
Judges  == {"read", "store"}
Settles == {"compare", "move"}

\* The card of the photo a worker serves.
Served(w) == photo[job[w].photo].card

\* Somebody looked the payment of a card up at the bank, or it says that nobody did.
LookedUp(c) == \E i \in OfCard(c) : receipt[i].confirmed \/ receipt[i].rejected
Told(c)     == "payment_unconfirmed" \in card[c].flags \/ LookedUp(c)

\* Nothing was judged of a card still in the sale.
SaleIsFresh ==
    /\ \A i \in DOMAIN receipt : card[receipt[i].card].stage # "sale"
    /\ \A w \in Worker : job[w].pc \in Judges \cup Settles => card[Served(w)].stage # "sale"

\* A card whose payment somebody approved does not wait for it.
ApprovedIsOut ==
    \A i \in DOMAIN receipt :
        receipt[i].approved # "nobody" => card[receipt[i].card].stage \notin Early

\* A card with receipts has a latest one.
HasLatest ==
    \A c \in Card : OfCard(c) # {} => \E i \in OfCard(c) : \A j \in OfCard(c) : j <= i

\* A card that waits under a red receipt says so, and so does what a job has read of it.
RedIsShown ==
    \A c \in Card : Waiting(c) /\ OfCard(c) # {} /\ ~receipt[Latest(c)].green
                        => "receipt_review" \in card[c].flags
ReviewIsRead ==
    \A w \in Worker :
        /\ job[w].pc \in Judges /\ Waiting(Served(w))
        /\ "receipt_review" \in job[w].flags
        => "receipt_review" \in card[Served(w)].flags

\* A payment the system approved, or is about to, says whether it was looked up.  A job
\* that judges a photo does so of a card with no such payment.
SystemIsTold ==
    \A i \in DOMAIN receipt : receipt[i].approved = "system" => Told(receipt[i].card)
JobsTell ==
    \A w \in Worker :
        /\ job[w].pc \in Settles => Told(Served(w))
        /\ job[w].pc \in Judges /\ "payment_unconfirmed" \in job[w].flags => Told(Served(w))
        /\ job[w].pc \in Judges => \A i \in OfCard(Served(w)) : receipt[i].approved # "system"

Shown == /\ SaleIsFresh /\ ApprovedIsOut /\ HasLatest
         /\ RedIsShown /\ ReviewIsRead /\ SystemIsTold /\ JobsTell

\* What a step may do without touching on what the board shows: rows keep their card and
\* their verdict, approvals by people take the card out, and no aviso is lost of a card
\* that still waits or was not looked up; jobs go on with what they have read.
RowsQuiet ==
    /\ DOMAIN receipt' = DOMAIN receipt
    /\ \A i \in DOMAIN receipt :
         /\ receipt'[i].card = receipt[i].card /\ receipt'[i].green = receipt[i].green
         /\ receipt[i].confirmed => receipt'[i].confirmed
         /\ receipt[i].rejected => receipt'[i].rejected
         /\ \/ receipt'[i].approved = receipt[i].approved
            \/ /\ receipt'[i].approved # "system"
               /\ card'[receipt[i].card].stage \notin Early
CardsQuiet ==
    \A c \in Card :
        /\ card'[c].stage = "sale" => card[c].stage = "sale"
        /\ card'[c].stage \in Early => card[c].stage \in Early
        /\ "receipt_review" \in card[c].flags /\ card'[c].stage \in Early
             => "receipt_review" \in card'[c].flags
        /\ "payment_unconfirmed" \in card[c].flags
             => \/ "payment_unconfirmed" \in card'[c].flags
                \/ \E i \in OfCard(c) : receipt'[i].confirmed \/ receipt'[i].rejected
JobsQuiet ==
    \A w \in Worker :
        /\ job'[w].pc \in Judges => /\ job[w].pc \in Judges /\ job'[w].flags = job[w].flags
                                    /\ Served(w)' = Served(w)
        /\ job'[w].pc \in Settles => job[w].pc \in Settles /\ Served(w)' = Served(w)

LEMMA CardsOfRows ==
    ASSUME Typed
    PROVE  /\ \A i \in DOMAIN receipt : receipt[i] \in Row /\ receipt[i].card \in Card
           /\ \A w \in Worker : Served(w) \in Card /\ job[w].photo \in Photo
<1>1. \A i \in DOMAIN receipt : receipt[i] \in Row
  BY DEF Typed, TypeOK
<1>2. \A w \in Worker : Served(w) \in Card /\ job[w].photo \in Photo
  BY DEF Typed, TypeOK, Work, Message, Served
<1> QED
  BY <1>1, <1>2 DEF Row

LEMMA QuietKeepsShown ==
    ASSUME Typed, Shown, RowsQuiet, CardsQuiet, JobsQuiet
    PROVE  Shown'
<1> USE CardsOfRows DEF Shown
<1>1. \A c \in Card : OfCard(c)' = OfCard(c)
  BY DEF RowsQuiet, OfCard
<1>2. \A c \in Card : OfCard(c) \subseteq DOMAIN receipt
  BY DEF OfCard
<1>3. \A c \in Card : LookedUp(c) => LookedUp(c)'
  BY <1>1, <1>2 DEF LookedUp, RowsQuiet
<1>4. \A c \in Card : Told(c) => Told(c)'
  BY <1>1, <1>3 DEF Told, CardsQuiet, LookedUp
<1>5. SaleIsFresh'
  BY DEF SaleIsFresh, RowsQuiet, CardsQuiet, JobsQuiet
<1>6. ApprovedIsOut'
  BY DEF ApprovedIsOut, RowsQuiet, CardsQuiet
<1>7. HasLatest'
  BY <1>1 DEF HasLatest
<1>8. RedIsShown'
  <2> SUFFICES ASSUME NEW c \in Card, Waiting(c)', OfCard(c)' # {},
                      ~(receipt[Latest(c)].green)'
               PROVE  "receipt_review" \in card'[c].flags
    BY DEF RedIsShown
  <2>1. Latest(c)' = Latest(c)
    BY <1>1 DEF Latest
  <2>2. PICK i \in OfCard(c) : \A j \in OfCard(c) : j <= i
    BY <1>1 DEF HasLatest
  <2>3. Latest(c) \in OfCard(c)
    BY <2>2 DEF Latest
  <2>4. ~receipt[Latest(c)].green
    BY <1>2, <2>1, <2>3 DEF RowsQuiet
  <2>5. card[c].stage # "sale" /\ card[c].stage \in Early
    BY <1>1 DEF SaleIsFresh, OfCard, CardsQuiet, Waiting, Early
  <2>6. Waiting(c)
    BY <2>5 DEF Waiting, Early
  <2> QED
    BY <1>1, <2>4, <2>6 DEF RedIsShown, CardsQuiet, Waiting, Early
<1>9. ReviewIsRead'
  <2> SUFFICES ASSUME NEW w \in Worker, job'[w].pc \in Judges, Waiting(Served(w))',
                      "receipt_review" \in job'[w].flags
               PROVE  "receipt_review" \in card'[Served(w)'].flags
    BY DEF ReviewIsRead
  <2>1. /\ job[w].pc \in Judges /\ job'[w].flags = job[w].flags
        /\ Served(w)' = Served(w)
    BY DEF JobsQuiet
  <2>2. PICK c \in Card : c = Served(w)
    OBVIOUS
  <2>3. card'[c].stage = "PAYMENT_VALIDATION"
    BY <2>1, <2>2 DEF Waiting
  <2>4. card[c].stage \in Early /\ card[c].stage # "sale"
    BY <2>1, <2>2, <2>3 DEF CardsQuiet, SaleIsFresh, Early
  <2>5. "receipt_review" \in card[c].flags
    BY <2>1, <2>2, <2>4 DEF ReviewIsRead, Waiting, Early
  <2> QED
    BY <2>1, <2>2, <2>3, <2>5 DEF CardsQuiet, Early
<1>10. SystemIsTold'
  BY <1>4 DEF SystemIsTold, RowsQuiet
<1>11. JobsTell'
  <2>1. \A w \in Worker : job'[w].pc \in Settles => Told(Served(w)) /\ Served(w)' = Served(w)
    BY DEF JobsTell, JobsQuiet
  <2>2. \A w \in Worker : job'[w].pc \in Judges =>
            /\ job[w].pc \in Judges /\ Served(w)' = Served(w) /\ job'[w].flags = job[w].flags
    BY DEF JobsQuiet
  <2>3. \A c \in Card : (\A i \in OfCard(c) : receipt[i].approved # "system")
            => \A i \in OfCard(c) : receipt'[i].approved # "system"
    BY <1>2 DEF RowsQuiet
  <2>4. ASSUME NEW w \in Worker, NEW c \in Card, Served(w)' = c, Told(c)
        PROVE  Told(Served(w))'
    BY <1>4, <2>4 DEF Told, LookedUp, OfCard
  <2>5. ASSUME NEW w \in Worker, NEW c \in Card, Served(w)' = c,
               \A i \in OfCard(c) : receipt[i].approved # "system"
        PROVE  (\A i \in OfCard(Served(w)) : receipt[i].approved # "system")'
    BY <1>1, <2>3, <2>5 DEF OfCard
  <2> QED
    BY <2>1, <2>2, <2>4, <2>5 DEF JobsTell
<1> QED
  BY <1>5, <1>6, <1>7, <1>8, <1>9, <1>10, <1>11

\* What is neither a judgement nor an act of a person is quiet.
LEMMA RestIsQuiet ==
    ASSUME receipt' = receipt, Typed
    PROVE  /\ RowsQuiet
           /\ (card' = card) => CardsQuiet
           /\ \A c \in Card : \A s :
                 (/\ card' = [card EXCEPT ![c].stage = s]
                  /\ s # "sale"
                  /\ s \in Early => card[c].stage \in Early) => CardsQuiet
<1>1. RowsQuiet
  BY DEF RowsQuiet
<1>2. ASSUME card' = card PROVE CardsQuiet
  BY <1>2 DEF CardsQuiet
<1>3. ASSUME NEW c \in Card, NEW s, card' = [card EXCEPT ![c].stage = s], s # "sale",
             s \in Early => card[c].stage \in Early
      PROVE  CardsQuiet
  <2> DEFINE k == [card[c] EXCEPT !.stage = s]
  <2>1. card[c] \in CardRow /\ card \in [Card -> CardRow]
    BY DEF Typed, TypeOK, CardRow
  <2>2. k.stage = s /\ k.flags = card[c].flags
    BY <2>1 DEF CardRow
  <2>3. card' = [card EXCEPT ![c] = k]
    BY <1>3
  <2> HIDE DEF k
  <2>4. card'[c] = k /\ \A d \in Card : d # c => card'[d] = card[d]
    BY <2>1, <2>3
  <2> QED
    BY <1>3, <2>2, <2>4 DEF CardsQuiet
<1> QED
  BY <1>1, <1>2, <1>3

\* Jobs are left alone, end, begin, or go on without having judged.
LEMMA JobsAreQuiet ==
    ASSUME Typed, ServedCame, [Next]_vars,
           \A w \in Worker : ~Look(w) /\ ~Store(w) /\ ~Approve(w)
    PROVE  JobsQuiet
<1> USE DEF Judges, Settles
<1>1. SUFFICES ASSUME NEW w \in Worker, job'[w].pc \in Judges \cup Settles
               PROVE  /\ job[w].pc \in Judges <=> job'[w].pc \in Judges
                      /\ job'[w].pc \in Judges => job'[w].flags = job[w].flags
                      /\ job[w].pc \in Judges \cup Settles
                      /\ job'[w].photo = job[w].photo
  <2>1. \A v \in Worker : job[v].pc \in Judges \cup Settles =>
            photo[job[v].photo].state # "none"
    BY DEF ServedCame
  <2>2. \A v \in Worker : job[v].pc \in Judges \cup Settles =>
            photo'[job[v].photo].card = photo[job[v].photo].card
    BY <2>1, PhotoStays, CardsOfRows
  <2> QED
    BY <2>2 DEF JobsQuiet, Served
<1>2. CASE job'[w] = job[w]
  BY <1>1, <1>2
<1>3. ASSUME NEW v \in Worker, Pop(v) \/ Release(v) \/ Crash(v) PROVE job'[w] = job[w]
  BY <1>1, <1>3, JobBegins, JobEnds
<1>4. ASSUME NEW v \in Worker, Read(v) \/ Compare(v), v # w PROVE job'[w] = job[w]
  BY <1>4, JobGoesOn DEF GoesOn
<1>5. CASE Read(w)
  <2> DEFINE t == Shows[job[w].sha[2]]
             j(r) == [job[w] EXCEPT !.pc = "store", !.extracted = IF r.legible THEN t ELSE None,
                                    !.green = WithReuseCheck(r.passed, t)]
  <2>1. PICK r \in Reading : job' = [job EXCEPT ![w] = j(r)]
    BY <1>5 DEF Read
  <2>2. job[w] \in Work /\ job \in [Worker -> Work]
    BY DEF Typed, TypeOK
  <2>3. j(r).photo = job[w].photo /\ j(r).pc = "store" /\ j(r).flags = job[w].flags
    BY <2>2 DEF Work
  <2> HIDE DEF j
  <2> QED
    BY <1>5, <2>1, <2>2, <2>3 DEF Read, At
<1>6. CASE Compare(w)
  <2>1. PICK pc \in {"move", "release"} : job' = [job EXCEPT ![w].pc = pc]
    BY <1>6 DEF Compare, Goto
  <2>2. job[w] \in Work /\ job \in [Worker -> Work]
    BY DEF Typed, TypeOK
  <2> DEFINE j == [job[w] EXCEPT !.pc = pc]
  <2>3. j.photo = job[w].photo /\ j.pc = pc /\ job' = [job EXCEPT ![w] = j]
    BY <2>1, <2>2 DEF Work
  <2> HIDE DEF j
  <2> QED
    BY <1>1, <1>6, <2>1, <2>2, <2>3 DEF Compare, At
<1> QED
  BY <1>2, <1>3, <1>4, <1>5, <1>6, JobsRest DEF GoesOn

\* Claiming a transaction changes nothing else of a row.
LEMMA ClaimKeeps ==
    ASSUME NEW r \in Row
    PROVE  /\ Claim(r).card = r.card /\ Claim(r).green = r.green
           /\ Claim(r).confirmed = r.confirmed /\ Claim(r).rejected = r.rejected
           /\ Claim(r).approved = r.approved
<1>1. CASE Claim(r) = r
  BY <1>1
<1>2. CASE Claim(r) = [r EXCEPT !.reference = r.extracted]
  <2> DEFINE q == [r EXCEPT !.reference = r.extracted]
  <2>1. /\ q.card = r.card /\ q.green = r.green /\ q.confirmed = r.confirmed
        /\ q.rejected = r.rejected /\ q.approved = r.approved
    BY DEF Row
  <2> HIDE DEF q
  <2> QED
    BY <1>2, <2>1 DEF q
<1> QED
  BY <1>1, <1>2 DEF Claim

\* One row is replaced by one that looks the same to the board.
LEMMA OneRowQuiet ==
    ASSUME Typed, NEW k, NEW q, receipt' = [receipt EXCEPT ![k] = q],
           k \in DOMAIN receipt =>
             /\ q.card = receipt[k].card /\ q.green = receipt[k].green
             /\ receipt[k].confirmed => q.confirmed
             /\ receipt[k].rejected => q.rejected
             /\ \/ q.approved = receipt[k].approved
                \/ q.approved # "system" /\ card'[receipt[k].card].stage \notin Early
    PROVE  RowsQuiet
<1>1. DOMAIN receipt' = DOMAIN receipt
  OBVIOUS
<1>2. \A i \in DOMAIN receipt : receipt'[i] = IF i = k THEN q ELSE receipt[i]
  OBVIOUS
<1> QED
  BY <1>1, <1>2 DEF RowsQuiet

\* The latest receipt of a card is of that card.
LEMMA LatestIsOfCard ==
    ASSUME HasLatest, NEW c \in Card, OfCard(c) # {}
    PROVE  Latest(c) \in DOMAIN receipt /\ receipt[Latest(c)].card = c
<1>1. PICK i \in OfCard(c) : \A j \in OfCard(c) : j <= i
  BY DEF HasLatest
<1>2. Latest(c) \in OfCard(c)
  BY <1>1 DEF Latest
<1> QED
  BY <1>2 DEF OfCard

\* A card is put out of the stages before the payment, with its aviso of the bank.
LEMMA OutIsQuiet ==
    ASSUME Typed, NEW c \in Card, NEW s, NEW f, s \notin Early,
           "payment_unconfirmed" \in card[c].flags => "payment_unconfirmed" \in f,
           card' = [card EXCEPT ![c] = [stage |-> s, flags |-> f]]
    PROVE  CardsQuiet /\ card'[c].stage = s
<1>1. card \in [Card -> CardRow]
  BY DEF Typed, TypeOK, CardRow
<1>2. card'[c].stage = s /\ card'[c].flags = f /\ \A d \in Card : d # c => card'[d] = card[d]
  BY <1>1
<1> QED
  BY <1>2 DEF CardsQuiet, Early

LEMMA ValidateIsQuiet ==
    ASSUME Typed, HasLatest, NEW c \in Card, Validate(c)
    PROVE  RowsQuiet /\ CardsQuiet
<1> DEFINE k  == Latest(c)
           r  == receipt[k]
           noted(note) == [r EXCEPT !.note = r.note \/ note,
                                    !.approved = IF r.approved = "nobody" THEN "user" ELSE r.approved]
           f  == card[c].flags \ {"receipt_review"}
<1>1. card' = [card EXCEPT ![c] = [stage |-> "PAYMENT_VALIDATED", flags |-> f]]
  BY DEF Validate
<1>2. CardsQuiet /\ card'[c].stage = "PAYMENT_VALIDATED"
  <2>1. "payment_unconfirmed" \in card[c].flags => "payment_unconfirmed" \in f
    OBVIOUS
  <2> HIDE DEF f
  <2> QED
    BY <1>1, <2>1, OutIsQuiet DEF Early
<1>3. CASE receipt' = receipt
  BY <1>2, <1>3, RestIsQuiet
<1>4. CASE receipt' # receipt
  <2>1. PICK note \in BOOLEAN : receipt' = [receipt EXCEPT ![k] = Claim(noted(note))]
    BY <1>4 DEF Validate
  <2>2. OfCard(c) # {}
    BY <1>4 DEF Validate
  <2>3. k \in DOMAIN receipt /\ r.card = c /\ r \in Row
    BY <2>2, LatestIsOfCard, CardsOfRows
  <2> DEFINE q == noted(note)
  <2>4. /\ q \in Row /\ q.card = r.card /\ q.green = r.green /\ q.confirmed = r.confirmed
        /\ q.rejected = r.rejected /\ q.approved \in {"user", r.approved}
    <3> HIDE DEF r
    <3> QED
      BY <2>3 DEF Row
  <2> HIDE DEF q
  <2>5. receipt' = [receipt EXCEPT ![k] = Claim(q)]
    BY <2>1 DEF q
  <2>6. /\ Claim(q).card = r.card /\ Claim(q).green = r.green
        /\ Claim(q).confirmed = r.confirmed /\ Claim(q).rejected = r.rejected
        /\ Claim(q).approved \in {"user", r.approved}
    BY <2>4, ClaimKeeps
  <2>7. card'[r.card].stage \notin Early
    BY <1>2, <2>3 DEF Early
  <2>8. RowsQuiet
    <3> HIDE DEF k
    <3> QED
      BY <2>5, <2>6, <2>7, OneRowQuiet
  <2> QED
    BY <1>2, <2>8
<1> QED
  BY <1>3, <1>4

LEMMA DragIsQuiet ==
    ASSUME Typed, NobodyReturns, HasLatest, NEW c \in Card, Drag(c)
    PROVE  RowsQuiet /\ CardsQuiet
<1>1. PICK s \in Targets : RecordManualApproval(c, s)
  BY DEF Drag
<1>2. s \notin Early
  BY DEF NobodyReturns
<1>3. CASE receipt' = receipt /\ card' = [card EXCEPT ![c].stage = s]
  BY <1>2, <1>3, RestIsQuiet DEF Early
<1>4. CASE ~(receipt' = receipt /\ card' = [card EXCEPT ![c].stage = s])
  <2> DEFINE k == Latest(c)
             r == receipt[k]
             q == [r EXCEPT !.approved = "drag"]
             f == card[c].flags \ {"receipt_review"}
  <2>1. /\ OfCard(c) # {} /\ receipt' = [receipt EXCEPT ![k] = q]
        /\ card' = [card EXCEPT ![c] = [stage |-> s, flags |-> f]]
    BY <1>1, <1>4 DEF RecordManualApproval
  <2>2. CardsQuiet /\ card'[c].stage = s
    <3>1. "payment_unconfirmed" \in card[c].flags => "payment_unconfirmed" \in f
      OBVIOUS
    <3> HIDE DEF f
    <3> QED
      BY <1>2, <2>1, <3>1, OutIsQuiet
  <2>3. k \in DOMAIN receipt /\ r.card = c /\ r \in Row
    BY <2>1, LatestIsOfCard, CardsOfRows
  <2>4. /\ q.card = r.card /\ q.green = r.green /\ q.confirmed = r.confirmed
        /\ q.rejected = r.rejected /\ q.approved = "drag"
    <3> HIDE DEF r
    <3> QED
      BY <2>3 DEF Row
  <2>5. RowsQuiet
    <3> HIDE DEF k, q
    <3> QED
      BY <1>2, <2>1, <2>2, <2>3, <2>4, OneRowQuiet
  <2> QED
    BY <2>2, <2>5
<1> QED
  BY <1>3, <1>4

\* What is looked up at the bank takes the aviso away, and leaves the answer.
LEMMA ReconcileIsQuiet ==
    ASSUME Typed, NEW i \in DOMAIN receipt, Confirm(i) \/ Reject(i)
    PROVE  RowsQuiet /\ CardsQuiet
<1> DEFINE r == receipt[i]
           c == r.card
           f == card[c].flags \ {"payment_unconfirmed"}
<1>1. r \in Row /\ c \in Card /\ card \in [Card -> CardRow] /\ card[c] \in CardRow
  BY CardsOfRows DEF Typed, TypeOK, CardRow
<1>2. ASSUME NEW q, receipt' = [receipt EXCEPT ![i] = q],
             q.card = r.card, q.green = r.green, q.approved = r.approved,
             r.confirmed => q.confirmed, r.rejected => q.rejected,
             q.confirmed \/ q.rejected
      PROVE  RowsQuiet /\ \E j \in OfCard(c) : receipt'[j].confirmed \/ receipt'[j].rejected
  <2>1. RowsQuiet
    BY <1>2, OneRowQuiet
  <2>2. receipt'[i] = q /\ i \in OfCard(c)
    BY <1>2 DEF OfCard
  <2> QED
    BY <1>2, <2>1, <2>2
<1>3. ASSUME NEW k, card' = [card EXCEPT ![c] = k], k.flags = f,
             k.stage = card[c].stage \/ k.stage \notin Early,
             \E j \in OfCard(c) : receipt'[j].confirmed \/ receipt'[j].rejected
      PROVE  CardsQuiet
  <2>1. card'[c] = k /\ \A d \in Card : d # c => card'[d] = card[d]
    BY <1>1, <1>3
  <2>2. "receipt_review" \in card[c].flags => "receipt_review" \in k.flags
    BY <1>3
  <2> HIDE DEF c
  <2> QED
    BY <1>3, <2>1, <2>2 DEF CardsQuiet, Early
<1>4. CASE Confirm(i)
  <2> DEFINE q == [r EXCEPT !.confirmed = TRUE]
             k == [card[c] EXCEPT !.flags = f]
  <2>1. /\ q.card = r.card /\ q.green = r.green /\ q.approved = r.approved
        /\ q.confirmed /\ (r.rejected => q.rejected)
    <3> HIDE DEF r
    <3> QED
      BY <1>1 DEF Row
  <2>2. k.flags = f /\ k.stage = card[c].stage
    BY <1>1 DEF CardRow
  <2>3. receipt' = [receipt EXCEPT ![i] = q] /\ card' = [card EXCEPT ![c] = k]
    BY <1>4 DEF Confirm
  <2> HIDE DEF q, k, r, c, f
  <2> QED
    BY <1>2, <1>3, <2>1, <2>2, <2>3
<1>5. CASE Reject(i)
  <2> DEFINE q == [r EXCEPT !.rejected = TRUE, !.note = TRUE]
             k == [stage |-> "HUMAN_LOST", flags |-> f]
  <2>1. /\ q.card = r.card /\ q.green = r.green /\ q.approved = r.approved
        /\ q.rejected /\ (r.confirmed => q.confirmed)
    <3> HIDE DEF r
    <3> QED
      BY <1>1 DEF Row
  <2>2. k.flags = f /\ k.stage \notin Early
    BY DEF Early
  <2>3. receipt' = [receipt EXCEPT ![i] = q] /\ card' = [card EXCEPT ![c] = k]
    BY <1>5 DEF Reject
  <2> HIDE DEF q, k, r, c, f
  <2> QED
    BY <1>2, <1>3, <2>1, <2>2, <2>3
<1> QED
  BY <1>4, <1>5

\* A job that looks at its card finds it waiting, with the avisos it reads.
LEMMA LookKeepsShown ==
    ASSUME OneConsumer, Typed, ServedCame, Shown, NEW w \in Worker, Look(w)
    PROVE  Shown'
<1> DEFINE p == job[w].photo
           c == photo[p].card
<1> USE DEF Judges, Settles
<1>1. receipt' = receipt /\ card' = card /\ photo' = photo
  BY DEF Look
<1>2. c \in Card /\ c = Served(w) /\ job[w] \in Work /\ job \in [Worker -> Work]
  BY CardsOfRows DEF Served, Typed, TypeOK
<1>3. \A v \in Worker : v = w
  BY DEF OneConsumer
<1>4. RowsQuiet /\ CardsQuiet
  BY <1>1, RestIsQuiet
<1>5. CASE Goto(w, "release")
  <2>1. job'[w].pc = "release"
    BY <1>2, <1>5 DEF Goto, Work
  <2>2. JobsQuiet
    BY <1>3, <2>1 DEF JobsQuiet
  <2> QED
    BY <1>4, <2>2, QuietKeepsShown
<1>6. CASE ~Goto(w, "release")
  <2>1. /\ Waiting(c)
        /\ \E pc \in {"store", "read"} : \E s :
             job' = [job EXCEPT ![w].pc = pc, ![w].flags = card[c].flags, ![w].sha = s]
    BY <1>6 DEF Look, Unread
  <2>2. PICK pc \in {"store", "read"} :
          \E s : job' = [job EXCEPT ![w].pc = pc, ![w].flags = card[c].flags, ![w].sha = s]
    BY <2>1
  <2>3. PICK s : job' = [job EXCEPT ![w].pc = pc, ![w].flags = card[c].flags, ![w].sha = s]
    BY <2>2
  <2> DEFINE j == [job[w] EXCEPT !.pc = pc, !.flags = card[c].flags, !.sha = s]
  <2>4. j.pc = pc /\ j.flags = card[c].flags /\ j.photo = p
    BY <1>2 DEF Work
  <2>5. job' = [job EXCEPT ![w] = j]
    BY <2>3
  <2> HIDE DEF j
  <2>6. job'[w].pc \in Judges /\ job'[w].flags = card[c].flags /\ job'[w].photo = p
    BY <1>2, <2>4, <2>5
  <2>7. PICK d \in Card : d = c
    BY <1>2
  <2>8. Served(w)' = d /\ job'[w].flags = card[d].flags /\ Waiting(d)
    BY <1>1, <2>1, <2>6, <2>7 DEF Served
  <2>9. \A i \in OfCard(d) : receipt[i].approved = "nobody"
    BY <2>8 DEF Shown, ApprovedIsOut, OfCard, Waiting, Early
  <2>10. SaleIsFresh'
    BY <1>1, <1>3, <2>8 DEF Shown, SaleIsFresh, Waiting
  <2>11. ReviewIsRead'
    BY <1>1, <1>3, <2>8 DEF ReviewIsRead
  <2>12. JobsTell'
    <3>1. "payment_unconfirmed" \in job'[w].flags => Told(d)'
      BY <1>1, <2>8 DEF Told
    <3>2. \A i \in OfCard(d)' : receipt'[i].approved # "system"
      BY <1>1, <2>9 DEF OfCard
    <3>3. Told(Served(w))' <=> Told(d)'
      BY <2>8 DEF Told, LookedUp, OfCard
    <3>4. (\A i \in OfCard(Served(w)) : receipt[i].approved # "system")'
      BY <2>8, <3>2 DEF OfCard
    <3> QED
      BY <1>3, <2>6, <3>1, <3>3, <3>4 DEF JobsTell
  <2>13. ApprovedIsOut' /\ HasLatest' /\ RedIsShown' /\ SystemIsTold'
    BY <1>1 DEF Shown, ApprovedIsOut, HasLatest, RedIsShown, SystemIsTold, OfCard, Waiting,
       Latest, Told, LookedUp
  <2> QED
    BY <2>10, <2>11, <2>12, <2>13 DEF Shown
<1> QED
  BY <1>5, <1>6

\* An approval takes its card out of the stage of payments, which says so.
LEMMA ApproveKeepsShown ==
    ASSUME OneConsumer, Typed, Came, Shown, NEW w \in Worker, Approve(w)
    PROVE  Shown'
<1> DEFINE p == job[w].photo
           k(d) == [card[d] EXCEPT !.stage = "PAYMENT_VALIDATED"]
           q(r) == IF r.photo = p /\ r.green THEN [r EXCEPT !.approved = "system"] ELSE r
<1> USE DEF Judges, Settles
<1>1. PICK c \in Card : c = photo[p].card /\ c = Served(w)
  BY CardsOfRows DEF Served
<1>2. card' = [card EXCEPT ![c] = k(c)] /\ card \in [Card -> CardRow]
  BY <1>1 DEF Approve, Typed, TypeOK, CardRow
<1>3. k(c).stage = "PAYMENT_VALIDATED" /\ k(c).flags = card[c].flags
  BY <1>2 DEF CardRow
<1>4. /\ card'[c].stage = "PAYMENT_VALIDATED" /\ card'[c].flags = card[c].flags
      /\ \A d \in Card : d # c => card'[d] = card[d]
  <2> HIDE DEF k
  <2> QED
    BY <1>2, <1>3
<1>5. \A v \in Worker : job'[v].pc = "release"
  BY DEF OneConsumer, Approve, Goto, Typed, TypeOK, Work
<1>6. /\ DOMAIN receipt' = DOMAIN receipt
      /\ \A i \in DOMAIN receipt : receipt'[i] = q(receipt[i])
  BY DEF Approve
<1>7. \A r \in Row : /\ q(r).card = r.card /\ q(r).green = r.green
                     /\ q(r).confirmed = r.confirmed /\ q(r).rejected = r.rejected
                     /\ r.photo # p => q(r) = r
  BY DEF Row
<1>8. \A i \in DOMAIN receipt :
        /\ receipt'[i].card = receipt[i].card /\ receipt'[i].green = receipt[i].green
        /\ receipt'[i].confirmed = receipt[i].confirmed
        /\ receipt'[i].rejected = receipt[i].rejected
        /\ receipt[i].card # c => receipt'[i] = receipt[i]
  <2>1. \A i \in DOMAIN receipt : receipt[i].photo = p => receipt[i].card = c
    BY <1>1 DEF Came, RowsCame
  <2> HIDE DEF q
  <2> QED
    BY <1>6, <1>7, <2>1, CardsOfRows
<1>9. \A d \in Card : OfCard(d)' = OfCard(d)
  BY <1>6, <1>8 DEF OfCard
<1>10. \A d \in Card : Told(d) => Told(d)'
  BY <1>4, <1>8, <1>9 DEF Told, LookedUp, OfCard
<1>11. SaleIsFresh' /\ JobsTell' /\ ReviewIsRead'
  BY <1>4, <1>5, <1>6, <1>8, CardsOfRows DEF Shown, SaleIsFresh, JobsTell, ReviewIsRead
<1>12. ApprovedIsOut' /\ HasLatest'
  BY <1>4, <1>6, <1>8, <1>9, CardsOfRows DEF Shown, ApprovedIsOut, HasLatest, Early
<1>13. Told(c)
  BY <1>1 DEF Shown, JobsTell, Approve, At
<1>14. SystemIsTold'
  <2> SUFFICES ASSUME NEW i \in DOMAIN receipt, receipt'[i].approved = "system",
                      NEW d \in Card, d = receipt[i].card
               PROVE  Told(d)'
    BY <1>6, <1>8, CardsOfRows DEF SystemIsTold
  <2>1. CASE d = c
    BY <1>10, <1>13, <2>1
  <2>2. CASE d # c
    <3>1. Told(receipt[i].card)
      BY <1>8, <2>2 DEF Shown, SystemIsTold
    <3> QED
      BY <1>10, <3>1
  <2> QED
    BY <2>1, <2>2
<1>15. RedIsShown'
  <2> SUFFICES ASSUME NEW d \in Card, Waiting(d)', OfCard(d)' # {},
                      ~(receipt[Latest(d)].green)'
               PROVE  "receipt_review" \in card'[d].flags
    BY DEF RedIsShown
  <2>1. d # c /\ card'[d] = card[d]
    BY <1>4 DEF Waiting
  <2>2. OfCard(d) # {} /\ Latest(d)' = Latest(d)
    BY <1>9 DEF Latest
  <2>3. Latest(d) \in DOMAIN receipt
    BY <2>2, LatestIsOfCard DEF Shown
  <2> QED
    BY <1>8, <2>1, <2>2, <2>3 DEF Shown, RedIsShown, Waiting
<1> QED
  BY <1>11, <1>12, <1>14, <1>15 DEF Shown


\* A verdict is written with the aviso it calls for, whatever avisos were read before.
LEMMA StoreKeepsShown ==
    ASSUME OneConsumer, Typed, Shown, NEW w \in Worker, Store(w)
    PROVE  Shown'
<1> DEFINE row == NewRow(job[w])
           seen == job[w].flags
           f == IF row.green THEN (seen \ {"receipt_review"}) \cup {"payment_unconfirmed"}
                             ELSE seen \cup {"receipt_review"}
           n == Len(receipt) + 1
<1> USE DEF Judges, Settles
<1>1. PICK c \in Card : c = photo[job[w].photo].card /\ c = Served(w)
  BY CardsOfRows DEF Served
<1>2. \A v \in Worker : v = w
  BY DEF OneConsumer
<1>3. job[w] \in Work /\ job \in [Worker -> Work] /\ job[w].pc = "store" /\ photo' = photo
  BY DEF Typed, TypeOK, Store, At
<1>4. \A pc : Goto(w, pc) => job'[w].pc = pc /\ job'[w].photo = job[w].photo
  <2> SUFFICES ASSUME NEW pc, Goto(w, pc)
               PROVE  job'[w].pc = pc /\ job'[w].photo = job[w].photo
    OBVIOUS
  <2> DEFINE j == [job[w] EXCEPT !.pc = pc]
  <2>1. j.pc = pc /\ j.photo = job[w].photo /\ job' = [job EXCEPT ![w] = j]
    BY <1>3 DEF Work, Goto
  <2> HIDE DEF j
  <2> QED
    BY <1>3, <2>1
<1>5. CASE Conflict(row)
  <2>1. receipt' = receipt /\ card' = card /\ job'[w].pc = "release"
    BY <1>4, <1>5 DEF Store
  <2>2. JobsQuiet
    BY <1>2, <2>1 DEF JobsQuiet
  <2> QED
    BY <2>1, <2>2, RestIsQuiet, QuietKeepsShown
<1>6. CASE ~Conflict(row)
  <2>1. row \in Row /\ receipt \in Seq(Row) /\ receipt' = Append(receipt, row)
    BY <1>6, NewRowTyped DEF Store, Typed, TypeOK
  <2>2. /\ row.card = c /\ row.approved = "nobody" /\ row.green \in BOOLEAN
        /\ ~row.confirmed /\ ~row.rejected
    BY <1>1, <1>3 DEF NewRow, Work
  <2>3. card' = IF f = seen THEN card ELSE [card EXCEPT ![c].flags = f]
    BY <1>1, <1>6, <2>2 DEF Store, SetFlags
  <2>4. Goto(w, IF row.green THEN "compare" ELSE "release")
    BY <1>6 DEF Store
  <2>5. /\ row.green => "payment_unconfirmed" \in f
        /\ ~row.green => "receipt_review" \in f
    OBVIOUS
  <2> HIDE DEF row, f
  <2>6. /\ job'[w].pc = IF row.green THEN "compare" ELSE "release"
        /\ Served(w)' = c
    BY <1>1, <1>3, <1>4, <2>4 DEF Served
  <2>7. /\ DOMAIN receipt' = DOMAIN receipt \cup {n} /\ receipt'[n] = row
        /\ \A i \in DOMAIN receipt : receipt'[i] = receipt[i] /\ i <= n /\ i # n
        /\ n \in Nat
    BY <2>1
  <2> HIDE DEF n
  <2>8. OfCard(c)' = OfCard(c) \cup {n} /\ \A d \in Card : d # c => OfCard(d)' = OfCard(d)
    BY <2>2, <2>7 DEF OfCard
  <2>9. /\ card'[c].stage = card[c].stage /\ \A d \in Card : d # c => card'[d] = card[d]
        /\ card'[c].flags = f \/ (f = seen /\ card'[c].flags = card[c].flags)
    <3>1. CASE f = seen
      BY <2>3, <3>1
    <3>2. CASE f # seen
      <4> DEFINE k == [card[c] EXCEPT !.flags = f]
      <4>1. card[c] \in CardRow /\ card \in [Card -> CardRow]
        BY DEF Typed, TypeOK, CardRow
      <4>2. k.flags = f /\ k.stage = card[c].stage /\ card' = [card EXCEPT ![c] = k]
        BY <2>3, <3>2, <4>1 DEF CardRow
      <4> HIDE DEF k
      <4> QED
        BY <4>1, <4>2
    <3> QED
      BY <3>1, <3>2
  <2>10. \A d \in Card : OfCard(d) \subseteq DOMAIN receipt
    BY DEF OfCard
  <2>11. /\ \A d \in Card : LookedUp(d) => LookedUp(d)'
         /\ \A d \in Card : d # c /\ Told(d) => Told(d)'
    BY <2>7, <2>8, <2>9, <2>10 DEF Told, LookedUp
  <2>12. row.green => Told(c)'
    <3>1. CASE card'[c].flags = f
      BY <2>5, <3>1 DEF Told
    <3>2. CASE f = seen /\ card'[c].flags = card[c].flags
      BY <1>1, <1>3, <2>5, <2>11, <3>2 DEF Shown, JobsTell, Told
    <3> QED
      BY <2>9, <3>1, <3>2
  <2>13. ~row.green /\ Waiting(c) => "receipt_review" \in card'[c].flags
    <3>1. CASE card'[c].flags = f
      BY <2>5, <3>1
    <3>2. CASE f = seen /\ card'[c].flags = card[c].flags
      BY <1>1, <1>3, <2>5, <3>2 DEF Shown, ReviewIsRead
    <3> QED
      BY <2>9, <3>1, <3>2
  <2>14. SaleIsFresh'
    <3>1. card[c].stage # "sale"
      BY <1>1, <1>3 DEF Shown, SaleIsFresh
    <3>2. \A d \in Card : card'[d].stage = card[d].stage
      BY <2>9
    <3>3. \A i \in DOMAIN receipt' :
            receipt'[i].card \in Card /\ card[receipt'[i].card].stage # "sale"
      BY <2>2, <2>7, <3>1, CardsOfRows DEF Shown, SaleIsFresh
    <3> QED
      BY <1>2, <2>6, <3>1, <3>2, <3>3 DEF SaleIsFresh
  <2>15. ApprovedIsOut'
    <3>1. \A d \in Card : card'[d].stage = card[d].stage
      BY <2>9
    <3> QED
      BY <2>2, <2>7, <3>1, CardsOfRows DEF Shown, ApprovedIsOut
  <2>16. HasLatest'
    <3>1. \A j \in OfCard(c) \cup {n} : j <= n
      BY <2>7, <2>10
    <3> QED
      BY <2>8, <3>1 DEF Shown, HasLatest
  <2>17. RedIsShown'
    <3> SUFFICES ASSUME NEW d \in Card, Waiting(d)', OfCard(d)' # {},
                        ~(receipt[Latest(d)].green)'
                 PROVE  "receipt_review" \in card'[d].flags
      BY DEF RedIsShown
    <3>1. CASE d = c
      <4>1. Latest(c)' = n
        <5>1. \A j \in OfCard(c) \cup {n} : j <= n
          BY <2>7, <2>10
        <5>2. \A i \in OfCard(c) : ~(n <= i)
          BY <2>1, <2>7, <2>10 DEF n
        <5> QED
          BY <2>8, <5>1, <5>2 DEF Latest
      <4> QED
        BY <2>7, <2>9, <2>13, <3>1, <4>1 DEF Waiting
    <3>2. CASE d # c
      <4>1. card'[d] = card[d] /\ OfCard(d) # {} /\ Latest(d)' = Latest(d)
        BY <2>8, <2>9, <3>2 DEF Latest
      <4>2. Latest(d) \in DOMAIN receipt
        BY <4>1, LatestIsOfCard DEF Shown
      <4> QED
        BY <2>7, <4>1, <4>2 DEF Shown, RedIsShown, Waiting
    <3> QED
      BY <3>1, <3>2
  <2>18. ReviewIsRead'
    BY <1>2, <2>6 DEF ReviewIsRead
  <2>19. SystemIsTold'
    <3> SUFFICES ASSUME NEW i \in DOMAIN receipt', receipt'[i].approved = "system",
                        NEW d \in Card, d = receipt'[i].card
                 PROVE  Told(d)'
      BY <2>2, <2>7, CardsOfRows DEF SystemIsTold
    <3>1. i \in DOMAIN receipt /\ receipt'[i] = receipt[i]
      BY <2>2, <2>7
    <3>2. d # c
      BY <1>1, <1>3, <3>1 DEF Shown, JobsTell, OfCard
    <3> QED
      BY <2>11, <3>1, <3>2 DEF Shown, SystemIsTold
  <2>20. JobsTell'
    <3>1. row.green => Told(Served(w))'
      BY <2>6, <2>12 DEF Told, LookedUp, OfCard
    <3> QED
      BY <1>2, <2>6, <3>1 DEF JobsTell
  <2> QED
    BY <2>14, <2>15, <2>16, <2>17, <2>18, <2>19, <2>20 DEF Shown
<1> QED
  BY <1>5, <1>6


LEMMA ShownInit == Init => Shown
<1> SUFFICES ASSUME Init PROVE Shown
  OBVIOUS
<1>1. receipt = <<>> /\ \A w \in Worker : job[w].pc = "idle"
  BY DEF Init, Idle
<1>2. \A c \in Card : OfCard(c) = {}
  BY <1>1 DEF OfCard
<1> QED
  BY <1>1, <1>2 DEF Shown, SaleIsFresh, ApprovedIsOut, HasLatest, RedIsShown, ReviewIsRead,
     SystemIsTold, JobsTell, Judges, Settles

LEMMA ShownNext ==
    ASSUME OneConsumer, NobodyReturns, Typed, Came, Shown, [Next]_vars
    PROVE  Shown'
<1>1. ASSUME NEW w \in Worker, Look(w) \/ Store(w) \/ Approve(w) PROVE Shown'
  BY <1>1, LookKeepsShown, StoreKeepsShown, ApproveKeepsShown DEF Came
<1>2. ASSUME \A w \in Worker : ~Look(w) /\ ~Store(w) /\ ~Approve(w) PROVE Shown'
  <2>1. JobsQuiet
    BY <1>2, JobsAreQuiet DEF Came
  <2>2. SUFFICES RowsQuiet /\ CardsQuiet
    BY <2>1, QuietKeepsShown
  <2>3. CASE receipt' = receipt /\ card' = card
    BY <2>3, RestIsQuiet
  <2>4. ASSUME NEW c \in Card, Sync(c) PROVE RowsQuiet /\ CardsQuiet
    <3>1. receipt' = receipt
      BY <2>4 DEF Sync
    <3>2. CASE turn[c].handoff /\ card[c].stage = "sale"
      <4>1. card' = [card EXCEPT ![c].stage = "PAYMENT_VALIDATION"]
        BY <2>4, <3>2 DEF Sync
      <4> QED
        BY <3>1, <3>2, <4>1, RestIsQuiet DEF Early
    <3>3. CASE ~(turn[c].handoff /\ card[c].stage = "sale")
      <4>1. card' = [card EXCEPT ![c].stage = card[c].stage]
        BY <2>4, <3>3 DEF Sync
      <4>2. card' = card
        BY <4>1 DEF Typed, TypeOK
      <4> QED
        BY <3>1, <4>2, RestIsQuiet
    <3> QED
      BY <3>2, <3>3
  <2>5. ASSUME NEW c \in Card, Deliver(c) PROVE RowsQuiet /\ CardsQuiet
    <3>1. /\ receipt' = receipt /\ "DELIVERED" \notin Early
          /\ card' = [card EXCEPT ![c].stage = "DELIVERED"]
      BY <2>5 DEF Deliver, Early
    <3> QED
      BY <3>1, RestIsQuiet
  <2>6. ASSUME NEW c \in Card, Person(c) PROVE RowsQuiet /\ CardsQuiet
    BY <2>6, ValidateIsQuiet, DragIsQuiet DEF Person, Shown
  <2>7. ASSUME NEW i \in DOMAIN receipt, Confirm(i) \/ Reject(i) PROVE RowsQuiet /\ CardsQuiet
    BY <2>7, ReconcileIsQuiet
  <2>8. ASSUME NEW w \in Worker, Vision(w) \/ Crash(w) PROVE receipt' = receipt /\ card' = card
    BY <1>2, <2>8 DEF Vision, Pop, Read, Compare, Release, Crash
  <2>9. ASSUME NEW p \in Photo, Webhook(p) \/ Expire(p) PROVE receipt' = receipt /\ card' = card
    BY <2>9 DEF Webhook, Arrive, Keep, Undo, Expire
  <2>10. ASSUME NEW c \in Card, LeadWrites(c) \/ Answer(c) \/ Trigger(c)
         PROVE  receipt' = receipt /\ card' = card
    BY <2>10 DEF LeadWrites, Answer, Trigger
  <2>11. CASE UNCHANGED vars
    BY <2>3, <2>11 DEF vars
  <2> QED
    BY <2>3, <2>4, <2>5, <2>6, <2>7, <2>8, <2>9, <2>10, <2>11 DEF Next, TurnOf
<1> QED
  BY <1>1, <1>2

\* With one consumer of agent:vision, and nobody dragging a card back to where it was sold
\* or waited, the board says what is left to do: a red receipt under a waiting card asks for
\* its review, and a payment the system approved asks to be looked up until somebody does.
THEOREM BoardSaysWhatIsLeft == OneConsumer /\ NobodyReturns /\ Spec => []AvisosAreShown
<1> SUFFICES ASSUME OneConsumer, NobodyReturns PROVE Spec => []AvisosAreShown
  OBVIOUS
<1> DEFINE I == Typed /\ Came /\ Shown
<1>1. Init => I
  BY DecidedInit, ShownInit DEF Decided
<1>2. I /\ [Next]_vars => I'
  BY RowsNext, CameNext, ShownNext
<1>3. I => AvisosAreShown
  <2> SUFFICES ASSUME I, NEW c \in Card, OfCard(c) # {} PROVE
        /\ Waiting(c) /\ ~receipt[Latest(c)].green => "receipt_review" \in card[c].flags
        /\ /\ \E i \in OfCard(c) : receipt[i].approved = "system"
           /\ \A i \in OfCard(c) : ~receipt[i].confirmed /\ ~receipt[i].rejected
           => "payment_unconfirmed" \in card[c].flags
    BY DEF AvisosAreShown
  <2>1. Waiting(c) /\ ~receipt[Latest(c)].green => "receipt_review" \in card[c].flags
    BY DEF Shown, RedIsShown
  <2>2. (\E i \in OfCard(c) : receipt[i].approved = "system") => Told(c)
    BY DEF Shown, SystemIsTold, OfCard
  <2> QED
    BY <2>1, <2>2 DEF Told, LookedUp
<1> HIDE DEF I
<1> QED
  BY <1>1, <1>2, <1>3, PTL DEF Spec
=============================================================================
