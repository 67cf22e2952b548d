-------------------------------- MODULE Door --------------------------------
(***************************************************************************)
(* Letting people in at the door of an event.  Several devices scan QR     *)
(* codes or tick people off the attendance list at the same time, while    *)
(* the office may annul an entry, delete its opportunity or delete the     *)
(* event.  An admission is three steps of one request: a fresh read that   *)
(* decides the rejections, one conditional UPDATE that decides the race,   *)
(* and the answer on the screen.                                           *)
(***************************************************************************)
EXTENDS Naturals

CONSTANTS Entry,            \* rows of qr_entry (one per card)
          Event,            \* events of the agenda
          Device,           \* requests at the door in flight at the same time
          NoEvent           \* event_id NULL, or a scan without an event selected

ASSUME NoEventIsNoEvent == NoEvent \notin Event

VARIABLES entries,          \* the qr_entry table
          desk,             \* what each request at the door is doing
          admissions        \* people let in with each entry

vars == <<entries, desk, admissions>>

EventOrNone == Event \cup {NoEvent}

\* What a camera can read besides an entry of this organization: the bank's
\* payment QR, or a text or a foreign token that names no entry of ours.
Garbage == {"payment_qr", "unknown"}

EntryRow == [status : {"none", "live", "gone"}, used : BOOLEAN,
             manually : BOOLEAN, revoked : BOOLEAN, event : EventOrNone]

Verdict == {"ok", "legacy", "already_used", "wrong_event", "revoked",
            "not_found", "payment_qr"}

\* pc "read": passed the rejections, about to consume.  pc "won": consumed.
\* "event" is the event_id of the row as it was read; "at" is the event the
\* device is controlling.
Request == [pc : {"idle", "read", "won", "answered"},
            entry : Entry \cup Garbage, at : EventOrNone, event : EventOrNone,
            manual : BOOLEAN, verdict : Verdict]

NewRow  == [status |-> "none", used |-> FALSE, manually |-> FALSE,
            revoked |-> FALSE, event |-> NoEvent]
Waiting == [pc |-> "idle", entry |-> "unknown", at |-> NoEvent, event |-> NoEvent,
            manual |-> FALSE, verdict |-> "not_found"]

Init == /\ entries = [e \in Entry |-> NewRow]
        /\ desk = [d \in Device |-> Waiting]
        /\ admissions = [e \in Entry |-> 0]

-----------------------------------------------------------------------------
(* The office. *)

\* A delivery commits the entry of a card, bound to an event or to none.
Issue(e, v) ==
    /\ entries[e].status = "none"
    /\ entries' = [entries EXCEPT ![e].status = "live", ![e].event = v]
    /\ UNCHANGED <<desk, admissions>>

\* Reconciliation rejects the payment; a used entry is annulled all the same.
Revoke(e) ==
    /\ entries[e].status = "live"
    /\ ~entries[e].revoked
    /\ entries' = [entries EXCEPT ![e].revoked = TRUE]
    /\ UNCHANGED <<desk, admissions>>

\* Deleting the opportunity cascades to its entry.
DeleteCard(e) ==
    /\ entries[e].status = "live"
    /\ entries' = [entries EXCEPT ![e].status = "gone"]
    /\ UNCHANGED <<desk, admissions>>

\* Deleting an event leaves its entries without one (FK SET NULL).
DeleteEvent(v) ==
    /\ \E e \in Entry : entries[e].event = v
    /\ entries' = [e \in Entry |-> IF entries[e].event = v
                                   THEN [entries[e] EXCEPT !.event = NoEvent]
                                   ELSE entries[e]]
    /\ UNCHANGED <<desk, admissions>>

-----------------------------------------------------------------------------
(* A request at the door. *)

Answer(d, r, verdict) ==
    desk' = [desk EXCEPT ![d] = [r EXCEPT !.pc = "answered", !.verdict = verdict,
                                          !.manual = FALSE]]

\* Mutants of Rejection: a status the screen does not know; an entry of another
\* event is let in.
RejectionUnknown(row, at) == IF row.revoked THEN "annulled" ELSE "ok"
RejectionAnyEvent(row, at) == IF row.revoked THEN "revoked"
                              ELSE IF row.used THEN "already_used" ELSE "ok"

\* RedemptionService._rejection, in its order; "ok" when nothing rejects.
Rejection(row, at) ==
    IF row.revoked THEN "revoked"
    ELSE IF row.used THEN "already_used"
    ELSE IF at # NoEvent /\ row.event # NoEvent /\ row.event # at THEN "wrong_event"
    ELSE "ok"

\* _admit up to the consumption: the row is read fresh and rejected or kept.
Admit(d, e, at, manual) ==
    LET row == entries[e]
        r   == [Waiting EXCEPT !.entry = e, !.at = at, !.manual = manual]
    IN  /\ desk[d].pc = "idle"
        /\ IF row.status # "live" THEN Answer(d, r, "not_found")
           ELSE IF Rejection(row, at) # "ok" THEN Answer(d, r, Rejection(row, at))
           ELSE desk' = [desk EXCEPT ![d] = [r EXCEPT !.pc = "read", !.event = row.event]]
        /\ UNCHANGED <<entries, admissions>>

Redeem(d, e, at)  == Admit(d, e, at, FALSE)
CheckIn(d, e, at) == Admit(d, e, at, TRUE)

\* What the camera read is no entry of this organization.
Misread(d, raw) ==
    /\ desk[d].pc = "idle"
    /\ Answer(d, [Waiting EXCEPT !.entry = raw],
              IF raw = "payment_qr" THEN "payment_qr" ELSE "not_found")
    /\ UNCHANGED <<entries, admissions>>

\* Mutants of Consumable: each half of the WHERE dropped.
ConsumableAgain(e)   == entries[e].status = "live" /\ ~entries[e].revoked
ConsumableAnyway(e)  == entries[e].status = "live" /\ ~entries[e].used

\* UPDATE ... WHERE used_at IS NULL AND revoked_at IS NULL.
Consumable(e) == entries[e].status = "live" /\ ~entries[e].used /\ ~entries[e].revoked

Consume(d) ==
    LET r == desk[d] IN
    /\ r.pc = "read"
    /\ Consumable(r.entry)
    /\ entries' = [entries EXCEPT ![r.entry].used = TRUE,
                                  ![r.entry].manually = r.manual]
    /\ desk' = [desk EXCEPT ![d].pc = "won"]
    /\ UNCHANGED admissions

\* rowcount = 0: whatever made the UPDATE miss is told as a use.
LoseRace(d) ==
    /\ desk[d].pc = "read"
    /\ ~Consumable(desk[d].entry)
    /\ Answer(d, desk[d], "already_used")
    /\ UNCHANGED <<entries, admissions>>

\* The screen turns green (or amber for an entry without event).
LetIn(d) ==
    /\ desk[d].pc = "won"
    /\ Answer(d, desk[d], IF desk[d].event = NoEvent THEN "legacy" ELSE "ok")
    /\ admissions' = [admissions EXCEPT ![desk[d].entry] = @ + 1]
    /\ UNCHANGED entries

\* The request dies, or its answer is lost: nobody is let in.
Crash(d) ==
    /\ desk[d].pc \in {"read", "won"}
    /\ desk' = [desk EXCEPT ![d] = Waiting]
    /\ UNCHANGED <<entries, admissions>>

NextPerson(d) ==
    /\ desk[d].pc = "answered"
    /\ desk' = [desk EXCEPT ![d] = Waiting]
    /\ UNCHANGED <<entries, admissions>>

Next ==
    \/ \E e \in Entry : \E v \in EventOrNone : Issue(e, v)
    \/ \E e \in Entry : Revoke(e)
    \/ \E e \in Entry : DeleteCard(e)
    \/ \E v \in Event : DeleteEvent(v)
    \/ \E d \in Device, e \in Entry, at \in EventOrNone : Redeem(d, e, at)
    \/ \E d \in Device, e \in Entry, at \in EventOrNone : CheckIn(d, e, at)
    \/ \E d \in Device, raw \in Garbage : Misread(d, raw)
    \/ \E d \in Device : Consume(d)
    \/ \E d \in Device : LoseRace(d)
    \/ \E d \in Device : LetIn(d)
    \/ \E d \in Device : Crash(d)
    \/ \E d \in Device : NextPerson(d)

Spec == Init /\ [][Next]_vars

-----------------------------------------------------------------------------
(* The list of an event, for the door without a camera. *)

Attendance(v) == {e \in Entry : entries[e].status = "live" /\ entries[e].event = v}
Holders(v)    == {e \in Attendance(v) : ~entries[e].revoked}
CheckedIn(v)  == {e \in Attendance(v) : entries[e].used}

-----------------------------------------------------------------------------
(* Properties. *)

TypeOK == /\ entries \in [Entry -> EntryRow]
          /\ desk \in [Device -> Request]
          /\ admissions \in [Entry -> Nat]

\* An entry lets in one person at most, whatever the devices, the list and the
\* office do at once; RedemptionService._admit relies on rowcount for it.
OneUse == \A e \in Entry : admissions[e] <= 1

\* Why OneUse is inductive: a request that won the UPDATE is alone with its
\* entry, which is marked and has let nobody in yet; nobody uses or annuls an
\* entry that was not issued.
WonAlone ==
    /\ \A d \in Device : desk[d].pc \in {"read", "won"} => desk[d].entry \in Entry
    /\ \A d \in Device : desk[d].pc = "won" =>
           /\ entries[desk[d].entry].used
           /\ admissions[desk[d].entry] = 0
    /\ \A d1, d2 \in Device :
           desk[d1].pc = "won" /\ desk[d2].pc = "won" /\ desk[d1].entry = desk[d2].entry
           => d1 = d2
    /\ \A e \in Entry : admissions[e] > 0 => entries[e].used
    /\ \A e \in Entry : entries[e].status = "none" => ~entries[e].used /\ ~entries[e].revoked

\* A green or amber screen is for the event the device controls: from then on the entry
\* is among those who came in the list of that event, whatever else happens to it; unless
\* the event is deleted in the middle of the scan, or the card, or the entry is for none.
AdmittedToItsEvent ==
    \A d \in Device :
        LET e == desk[d].entry
            v == desk[d].at
        IN /\ desk[d].pc = "answered"
           /\ desk[d].verdict \in {"ok", "legacy"}
           => /\ entries[e].used
              /\ v # NoEvent /\ entries[e].event # NoEvent /\ entries[e].status # "gone"
                   => e \in CheckedIn(v)

\* The list tells who has an entry and who of them has come
\* (attendance_repository.py:1); an entry annulled after it was used is counted only
\* among those who came.
AttendanceAddsUp == \A v \in Event : CheckedIn(v) \subseteq Holders(v)

\* The only defence once the lead holds the QR: after reconciliation annuls an
\* unused entry, or its card is deleted, no request at the door can consume it,
\* not even one that read the row before.
AnnulledStaysOut ==
    [][\A e \in Entry : entries[e].revoked \/ entries[e].status = "gone"
                        => entries'[e].used = entries[e].used]_vars

\* The screen says "already used" only of an entry that somebody used: each
\* rejection explains its motive.  The code does not keep it: an entry annulled
\* between the read and the UPDATE is told as used.
UsedVerdictMeansUsed ==
    \A d \in Device : desk[d].pc = "answered" /\ desk[d].verdict = "already_used"
                      => entries[desk[d].entry].used

\* The life of an entry as the documentation draws it; annulling a used entry
\* leaves it used.
LifeOf(row) == IF row.used THEN "used"
               ELSE IF row.status = "none" THEN "none"
               ELSE IF row.status = "gone" THEN "gone"
               ELSE IF row.revoked THEN "revoked" ELSE "issued"

A == INSTANCE Admission WITH life <- [e \in Entry |-> LifeOf(entries[e])]

\* The door implements the promise of an entry.
ImplementsAdmission == A!Spec
=============================================================================
