----------------------------- MODULE Door_proofs -----------------------------
(***************************************************************************)
(* Proofs about Door, for any number of entries, events and devices.       *)
(***************************************************************************)
EXTENDS Door, TLAPS

\* The records of Door keep their types through every action.
LEMMA TypeInit == Init => TypeOK
BY NoEventIsNoEvent DEF Init, TypeOK, NewRow, Waiting, EntryRow, Request, EventOrNone,
   Garbage, Verdict

\* A device that waits for the next person.
LEMMA WaitingIsRequest == Waiting \in Request
BY DEF Waiting, Request, EventOrNone, Garbage, Verdict

\* What _rejection answers is always something the screen can show.
LEMMA RejectionIsVerdict ==
    ASSUME NEW row, NEW at
    PROVE  Rejection(row, at) \in Verdict
BY DEF Rejection, Verdict

\* Admitting, scanned or by hand, writes only the request of the device.
LEMMA TypeAdmit ==
    ASSUME TypeOK, NEW d \in Device, NEW e \in Entry, NEW at \in EventOrNone,
           NEW manual \in BOOLEAN, Admit(d, e, at, manual)
    PROVE  TypeOK'
<1> DEFINE row == entries[e]
           r   == [Waiting EXCEPT !.entry = e, !.at = at, !.manual = manual]
<1>1. row \in EntryRow
  BY DEF TypeOK
<1>2. r \in Request
  BY DEF Request, Waiting, EventOrNone, Garbage, Verdict
<1>3. ASSUME NEW verdict \in Verdict, Answer(d, r, verdict)
      PROVE  desk' \in [Device -> Request]
  BY <1>2, <1>3 DEF Answer, TypeOK, Request
<1>4. desk' \in [Device -> Request]
  <2>1. CASE row.status # "live"
    <3>1. Answer(d, r, "not_found")
      BY <2>1 DEF Admit
    <3> QED
      BY <1>3, <3>1 DEF Verdict
  <2>2. CASE row.status = "live" /\ Rejection(row, at) # "ok"
    <3>1. Answer(d, r, Rejection(row, at))
      BY <2>2 DEF Admit
    <3> QED
      BY <1>3, <3>1, RejectionIsVerdict
  <2>3. CASE row.status = "live" /\ Rejection(row, at) = "ok"
    <3>1. desk' = [desk EXCEPT ![d] = [r EXCEPT !.pc = "read", !.event = row.event]]
      BY <2>3 DEF Admit
    <3>2. [r EXCEPT !.pc = "read", !.event = row.event] \in Request
      BY <1>1, <1>2 DEF Request, EntryRow
    <3> QED
      BY <3>1, <3>2 DEF TypeOK
  <2> QED
    BY <2>1, <2>2, <2>3
<1> QED
  BY <1>4 DEF Admit, TypeOK

\* Every step keeps the types.
LEMMA TypeStep == TypeOK /\ [Next]_vars => TypeOK'
<1> SUFFICES ASSUME TypeOK, [Next]_vars PROVE TypeOK'
  OBVIOUS
<1>1. ASSUME NEW e \in Entry, NEW v \in EventOrNone, Issue(e, v) PROVE TypeOK'
  BY <1>1 DEF Issue, TypeOK, EntryRow
<1>2. ASSUME NEW e \in Entry, Revoke(e) PROVE TypeOK'
  BY <1>2 DEF Revoke, TypeOK, EntryRow
<1>3. ASSUME NEW e \in Entry, DeleteCard(e) PROVE TypeOK'
  BY <1>3 DEF DeleteCard, TypeOK, EntryRow
<1>4. ASSUME NEW v \in Event, DeleteEvent(v) PROVE TypeOK'
  BY <1>4 DEF DeleteEvent, TypeOK, EntryRow, EventOrNone
<1>5. ASSUME NEW d \in Device, NEW e \in Entry, NEW at \in EventOrNone, Redeem(d, e, at)
      PROVE TypeOK'
  BY <1>5, TypeAdmit DEF Redeem
<1>6. ASSUME NEW d \in Device, NEW e \in Entry, NEW at \in EventOrNone, CheckIn(d, e, at)
      PROVE TypeOK'
  BY <1>6, TypeAdmit DEF CheckIn
<1>7. ASSUME NEW d \in Device, NEW raw \in Garbage, Misread(d, raw) PROVE TypeOK'
  BY <1>7 DEF Misread, Answer, Waiting, TypeOK, Request, Garbage, Verdict, EventOrNone
<1>8. ASSUME NEW d \in Device, Consume(d) PROVE TypeOK'
  <2> DEFINE r == desk[d]
  <2>1. r \in Request /\ r.manual \in BOOLEAN
    BY DEF TypeOK, Request
  <2>2. entries' \in [Entry -> EntryRow]
    <3>1. CASE r.entry \in Entry
      <4>1. entries' = [entries EXCEPT ![r.entry] =
                            [entries[r.entry] EXCEPT !.used = TRUE, !.manually = r.manual]]
        BY <1>8, <3>1 DEF Consume, TypeOK
      <4>2. entries[r.entry] \in EntryRow
        BY <3>1 DEF TypeOK
      <4>3. [entries[r.entry] EXCEPT !.used = TRUE, !.manually = r.manual] \in EntryRow
        BY <2>1, <4>2 DEF EntryRow
      <4> QED
        BY <4>1, <4>3 DEF TypeOK
    <3>2. CASE r.entry \notin Entry
      BY <1>8, <3>2 DEF Consume, TypeOK
    <3> QED
      BY <3>1, <3>2
  <2>3. desk' \in [Device -> Request]
    <3>1. desk' = [desk EXCEPT ![d] = [r EXCEPT !.pc = "won"]]
      BY <1>8 DEF Consume, TypeOK
    <3>2. [r EXCEPT !.pc = "won"] \in Request
      BY <2>1 DEF Request
    <3> QED
      BY <3>1, <3>2 DEF TypeOK
  <2> QED
    BY <1>8, <2>2, <2>3 DEF Consume, TypeOK
<1>9. ASSUME NEW d \in Device, LoseRace(d) PROVE TypeOK'
  BY <1>9 DEF LoseRace, Answer, TypeOK, Request, Verdict
<1>10. ASSUME NEW d \in Device, LetIn(d) PROVE TypeOK'
  <2>1. desk[d] \in Request
    BY DEF TypeOK
  <2>2. ASSUME NEW verdict \in Verdict
        PROVE  [desk[d] EXCEPT !.pc = "answered", !.verdict = verdict, !.manual = FALSE]
                   \in Request
    BY <2>1 DEF Request
  <2>3. desk' \in [Device -> Request]
    BY <1>10, <2>2 DEF LetIn, Answer, TypeOK, Verdict
  <2>4. admissions' \in [Entry -> Nat]
    <3>1. CASE desk[d].entry \in Entry
      BY <1>10, <3>1 DEF LetIn, TypeOK
    <3>2. CASE desk[d].entry \notin Entry
      BY <1>10, <3>2 DEF LetIn, TypeOK
    <3> QED
      BY <3>1, <3>2
  <2> QED
    BY <1>10, <2>3, <2>4 DEF LetIn, TypeOK
<1>11. ASSUME NEW d \in Device, Crash(d) \/ NextPerson(d) PROVE TypeOK'
  BY <1>11, WaitingIsRequest DEF Crash, NextPerson, TypeOK
<1>12. CASE UNCHANGED vars
  BY <1>12 DEF vars, TypeOK
<1> QED
  BY <1>1, <1>2, <1>3, <1>4, <1>5, <1>6, <1>7, <1>8, <1>9, <1>10, <1>11, <1>12 DEF Next

\* Every value a request, a row or a counter may take is of its type.
THEOREM TypeCorrect == Spec => []TypeOK
BY TypeInit, TypeStep, PTL DEF Spec

-----------------------------------------------------------------------------
(* One use.  The UPDATE makes its winner the only one: WonAlone says so for *)
(* every device at once, and OneUse follows step by step.                   *)

Inv == TypeOK /\ WonAlone /\ OneUse

\* The strengthened invariant holds at the start.
LEMMA InvInit == Init => Inv
<1> SUFFICES ASSUME Init PROVE Inv
  OBVIOUS
<1>1. TypeOK
  BY TypeInit
<1>2. WonAlone /\ OneUse
  BY DEF Init, WonAlone, OneUse, Waiting, NewRow
<1> QED
  BY <1>1, <1>2 DEF Inv

\* A step of the office marks no entry as used nor unused, and lets nobody in.
LEMMA InvOffice ==
    ASSUME Inv, UNCHANGED <<desk, admissions>>, TypeOK',
           \A e \in Entry : /\ entries'[e].used = entries[e].used
                            /\ entries'[e].status = "none" =>
                                   /\ entries[e].status = "none"
                                   /\ entries'[e].revoked = entries[e].revoked
    PROVE  WonAlone' /\ OneUse'
BY DEF Inv, WonAlone, OneUse, TypeOK, Request

\* A request that is not about to be "won" leaves the others as they were.
LEMMA InvDesk ==
    ASSUME Inv, UNCHANGED <<entries, admissions>>, TypeOK', NEW d \in Device,
           \A x \in Device \ {d} : desk'[x] = desk[x],
           desk'[d].pc \in {"idle", "read", "answered"},
           desk'[d].pc = "read" => desk'[d].entry \in Entry
    PROVE  WonAlone' /\ OneUse'
BY DEF Inv, WonAlone, OneUse, TypeOK, Request

\* Every step keeps the strengthened invariant.
LEMMA InvStep == Inv /\ [Next]_vars => Inv'
<1> SUFFICES ASSUME Inv, [Next]_vars PROVE Inv'
  OBVIOUS
<1>0. TypeOK /\ TypeOK'
  BY TypeStep DEF Inv
<1> SUFFICES WonAlone' /\ OneUse'
  BY <1>0 DEF Inv
<1>1. ASSUME NEW e \in Entry, NEW v \in EventOrNone, Issue(e, v)
      PROVE WonAlone' /\ OneUse'
  BY <1>0, <1>1, InvOffice DEF Issue, TypeOK, EntryRow
<1>2. ASSUME NEW e \in Entry, Revoke(e) PROVE WonAlone' /\ OneUse'
  BY <1>0, <1>2, InvOffice DEF Revoke, TypeOK, EntryRow
<1>3. ASSUME NEW e \in Entry, DeleteCard(e) PROVE WonAlone' /\ OneUse'
  BY <1>0, <1>3, InvOffice DEF DeleteCard, TypeOK, EntryRow
<1>4. ASSUME NEW v \in Event, DeleteEvent(v) PROVE WonAlone' /\ OneUse'
  BY <1>0, <1>4, InvOffice DEF DeleteEvent, TypeOK, EntryRow
<1>5. ASSUME NEW d \in Device, NEW e \in Entry, NEW at \in EventOrNone,
             NEW manual \in BOOLEAN, Admit(d, e, at, manual)
      PROVE WonAlone' /\ OneUse'
  <2>1. UNCHANGED <<entries, admissions>> /\ \A x \in Device \ {d} : desk'[x] = desk[x]
    BY <1>0, <1>5 DEF Admit, Answer, TypeOK
  <2>2. /\ desk'[d].pc \in {"idle", "read", "answered"}
        /\ desk'[d].pc = "read" => desk'[d].entry \in Entry
    <3> DEFINE r == [Waiting EXCEPT !.entry = e, !.at = at, !.manual = manual]
    <3>1. \A verdict : Answer(d, r, verdict) => desk'[d].pc = "answered"
      BY <1>0 DEF Answer, TypeOK, Waiting
    <3>2. desk' = [desk EXCEPT ![d] = [r EXCEPT !.pc = "read", !.event = entries[e].event]]
          => desk'[d].pc = "read" /\ desk'[d].entry = e
      BY <1>0 DEF TypeOK, Waiting
    <3> QED
      BY <1>5, <3>1, <3>2 DEF Admit
  <2> QED
    BY <1>0, <2>1, <2>2, InvDesk
<1>6. ASSUME NEW d \in Device, NEW raw \in Garbage, Misread(d, raw)
      PROVE WonAlone' /\ OneUse'
  <2>1. /\ UNCHANGED <<entries, admissions>>
        /\ \A x \in Device \ {d} : desk'[x] = desk[x]
        /\ desk'[d].pc = "answered"
    BY <1>0, <1>6 DEF Misread, Answer, TypeOK, Waiting
  <2> QED
    BY <1>0, <2>1, InvDesk
<1>7. ASSUME NEW d \in Device, Consume(d) PROVE WonAlone' /\ OneUse'
  <2> DEFINE e == desk[d].entry
  <2>1. e \in Entry /\ desk[d] \in Request
    BY <1>0, <1>7 DEF Consume, Inv, WonAlone, TypeOK
  <2>2. ~entries[e].used /\ entries[e].status = "live" /\ admissions[e] = 0
    BY <1>0, <1>7, <2>1 DEF Consume, Consumable, Inv, WonAlone, TypeOK
  <2>3. /\ \A x \in Entry \ {e} : entries'[x] = entries[x]
        /\ entries'[e].used /\ entries'[e].status = "live"
    BY <1>0, <1>7, <2>1, <2>2 DEF Consume, TypeOK, EntryRow
  <2>4. /\ \A x \in Device \ {d} : desk'[x] = desk[x]
        /\ desk'[d].pc = "won" /\ desk'[d].entry = e
    BY <1>0, <1>7, <2>1 DEF Consume, TypeOK, Request
  <2>5. admissions' = admissions
    BY <1>7 DEF Consume
  <2>6. \A x \in Device : desk[x].pc = "won" => desk[x].entry # e
    BY <2>2 DEF Inv, WonAlone
  <2> QED
    BY <1>0, <2>1, <2>2, <2>3, <2>4, <2>5, <2>6 DEF Inv, WonAlone, OneUse
<1>8. ASSUME NEW d \in Device, LoseRace(d) PROVE WonAlone' /\ OneUse'
  <2>1. /\ UNCHANGED <<entries, admissions>>
        /\ \A x \in Device \ {d} : desk'[x] = desk[x]
        /\ desk'[d].pc = "answered"
    BY <1>0, <1>8 DEF LoseRace, Answer, TypeOK, Request
  <2> QED
    BY <1>0, <2>1, InvDesk
<1>9. ASSUME NEW d \in Device, LetIn(d) PROVE WonAlone' /\ OneUse'
  <2> DEFINE e == desk[d].entry
  <2>1. e \in Entry /\ entries[e].used /\ admissions[e] = 0
    BY <1>0, <1>9 DEF LetIn, Inv, WonAlone
  <2>2. /\ \A x \in Device \ {d} : desk'[x] = desk[x]
        /\ desk'[d].pc = "answered"
    BY <1>0, <1>9 DEF LetIn, Answer, TypeOK, Request
  <2>3. /\ entries' = entries
        /\ \A x \in Entry \ {e} : admissions'[x] = admissions[x]
        /\ admissions'[e] = 1
    BY <1>0, <1>9, <2>1 DEF LetIn, TypeOK
  <2>4. \A x \in Device \ {d} : desk[x].pc = "won" => desk[x].entry # e
    BY <1>9, <2>1 DEF LetIn, Inv, WonAlone
  <2> QED
    BY <1>0, <2>1, <2>2, <2>3, <2>4 DEF Inv, WonAlone, OneUse
<1>10. ASSUME NEW d \in Device, Crash(d) \/ NextPerson(d) PROVE WonAlone' /\ OneUse'
  <2>1. /\ UNCHANGED <<entries, admissions>>
        /\ \A x \in Device \ {d} : desk'[x] = desk[x]
        /\ desk'[d].pc = "idle"
    BY <1>0, <1>10 DEF Crash, NextPerson, TypeOK, Waiting
  <2> QED
    BY <1>0, <2>1, InvDesk
<1>11. CASE UNCHANGED vars
  BY <1>11 DEF vars, Inv, WonAlone, OneUse
<1> QED
  BY <1>1, <1>2, <1>3, <1>4, <1>5, <1>6, <1>7, <1>8, <1>9, <1>10, <1>11
     DEF Next, Redeem, CheckIn

\* However many devices scan it or tick it off at once, an entry lets in one
\* person at most; and why: whoever won its UPDATE is alone with it.
THEOREM SingleUse == Spec => [](OneUse /\ WonAlone)
<1>1. Inv => OneUse /\ WonAlone
  BY DEF Inv
<1> QED
  BY <1>1, InvInit, InvStep, PTL DEF Spec

-----------------------------------------------------------------------------
(* An annulled entry. *)

\* No step changes the use of an annulled or deleted entry: only Consume
\* writes it, and its WHERE asks for a live entry that is not annulled.
THEOREM AnnulledNeverUsed == Spec => AnnulledStaysOut
<1>1. Inv /\ [Next]_vars =>
          [\A e \in Entry : entries[e].revoked \/ entries[e].status = "gone"
                            => entries'[e].used = entries[e].used]_vars
  <2> SUFFICES ASSUME Inv, Next, NEW e \in Entry,
                      entries[e].revoked \/ entries[e].status = "gone"
               PROVE  entries'[e].used = entries[e].used
    BY DEF vars
  <2>0. entries \in [Entry -> EntryRow]
    BY DEF Inv, TypeOK
  <2>1. ASSUME NEW x \in Entry, NEW v \in EventOrNone, Issue(x, v)
        PROVE entries'[e].used = entries[e].used
    BY <2>0, <2>1 DEF Issue, EntryRow
  <2>2. ASSUME NEW x \in Entry, Revoke(x) \/ DeleteCard(x)
        PROVE entries'[e].used = entries[e].used
    BY <2>0, <2>2 DEF Revoke, DeleteCard, EntryRow
  <2>3. ASSUME NEW v \in Event, DeleteEvent(v) PROVE entries'[e].used = entries[e].used
    BY <2>0, <2>3 DEF DeleteEvent, EntryRow
  <2>4. ASSUME NEW d \in Device, Consume(d) PROVE entries'[e].used = entries[e].used
    <3>1. desk[d].entry # e
      BY <2>4 DEF Consume, Consumable
    <3> QED
      BY <2>0, <2>4, <3>1 DEF Consume
  <2>5. CASE UNCHANGED entries
    BY <2>5
  <2> QED
    BY <2>1, <2>2, <2>3, <2>4, <2>5
       DEF Next, Redeem, CheckIn, Admit, Misread, LoseRace, LetIn, Crash, NextPerson
<1> QED
  BY <1>1, InvInit, InvStep, PTL DEF Spec, AnnulledStaysOut

-----------------------------------------------------------------------------
(* Of the event that the device controls.  Between the read of a row and the *)
(* green screen the entry may only lose its event, never get another: an     *)
(* entry is bound to an event when it is issued, and never again.            *)

Green(r) == r.pc = "answered" /\ r.verdict \in {"ok", "legacy"}

\* What a request that was not rejected knows of its entry, from its read on.
Fits(r, table) ==
    /\ r.pc \in {"read", "won"} \/ Green(r) =>
           /\ r.entry \in Entry
           /\ table[r.entry].status # "none"
           /\ r.at # NoEvent => table[r.entry].event \in {r.at, NoEvent}
    /\ Green(r) => table[r.entry].used

BoundTo == \A d \in Device : Fits(desk[d], entries)

\* Nothing is read at the start.
LEMMA BoundInit == Init => BoundTo
BY DEF Init, BoundTo, Fits, Green, Waiting

\* The office neither binds an issued entry to another event nor unmarks it.
LEMMA BoundOffice ==
    ASSUME Inv, BoundTo, UNCHANGED desk,
           \A e \in Entry : /\ entries[e].used => entries'[e].used
                            /\ entries[e].status # "none" =>
                                   /\ entries'[e].status # "none"
                                   /\ entries'[e].event \in {entries[e].event, NoEvent}
    PROVE  BoundTo'
BY DEF BoundTo, Fits, Green

\* A step that writes only the request of one device.
LEMMA BoundDesk ==
    ASSUME Inv, BoundTo, UNCHANGED entries, NEW d \in Device,
           \A x \in Device \ {d} : desk'[x] = desk[x],
           Fits(desk'[d], entries)
    PROVE  BoundTo'
BY DEF BoundTo

\* Every step keeps every request bound to the event it controls.
LEMMA BoundStep == Inv /\ BoundTo /\ [Next]_vars => BoundTo'
<1> SUFFICES ASSUME Inv, BoundTo, [Next]_vars PROVE BoundTo'
  OBVIOUS
<1>0. entries \in [Entry -> EntryRow] /\ desk \in [Device -> Request]
  BY DEF Inv, TypeOK
<1>1. ASSUME NEW e \in Entry, NEW v \in EventOrNone, Issue(e, v) PROVE BoundTo'
  BY <1>0, <1>1, BoundOffice DEF Issue, EntryRow
<1>2. ASSUME NEW e \in Entry, Revoke(e) PROVE BoundTo'
  BY <1>0, <1>2, BoundOffice DEF Revoke, EntryRow
<1>3. ASSUME NEW e \in Entry, DeleteCard(e) PROVE BoundTo'
  BY <1>0, <1>3, BoundOffice DEF DeleteCard, EntryRow
<1>4. ASSUME NEW v \in Event, DeleteEvent(v) PROVE BoundTo'
  BY <1>0, <1>4, BoundOffice DEF DeleteEvent, EntryRow
<1>5. ASSUME NEW d \in Device, NEW e \in Entry, NEW at \in EventOrNone,
             NEW manual \in BOOLEAN, Admit(d, e, at, manual)
      PROVE BoundTo'
  <2> DEFINE row == entries[e]
             r == [Waiting EXCEPT !.entry = e, !.at = at, !.manual = manual]
  <2>1. UNCHANGED entries /\ \A x \in Device \ {d} : desk'[x] = desk[x]
    BY <1>0, <1>5 DEF Admit, Answer
  <2>2. ASSUME NEW verdict \in {"revoked", "already_used", "wrong_event", "not_found"},
               Answer(d, r, verdict)
        PROVE  Fits(desk'[d], entries)
    <3>1. desk'[d].pc = "answered" /\ desk'[d].verdict = verdict
      BY <1>0, <2>2 DEF Answer, Waiting
    <3> QED
      BY <3>1, <2>2 DEF Fits, Green
  <2>3. Rejection(row, at) \in {"revoked", "already_used", "wrong_event", "ok"}
    BY DEF Rejection
  <2>4. ASSUME row.status = "live", Rejection(row, at) = "ok"
        PROVE  Fits(desk'[d], entries)
    <3>1. desk'[d] = [r EXCEPT !.pc = "read", !.event = row.event]
      BY <1>0, <1>5, <2>4 DEF Admit
    <3>2. desk'[d].pc = "read" /\ desk'[d].entry = e /\ desk'[d].at = at
      BY <3>1 DEF Waiting
    <3>3. at # NoEvent => row.event \in {at, NoEvent}
      BY <2>4 DEF Rejection
    <3> QED
      BY <2>4, <3>2, <3>3 DEF Fits, Green
  <2>5. Fits(desk'[d], entries)
    BY <1>5, <2>2, <2>3, <2>4 DEF Admit
  <2> QED
    BY <2>1, <2>5, BoundDesk
<1>6. ASSUME NEW d \in Device, NEW raw \in Garbage, Misread(d, raw) PROVE BoundTo'
  <2>1. UNCHANGED entries /\ \A x \in Device \ {d} : desk'[x] = desk[x]
    BY <1>0, <1>6 DEF Misread, Answer
  <2>2. desk'[d].pc = "answered" /\ desk'[d].verdict \in {"payment_qr", "not_found"}
    <3> DEFINE r == [Waiting EXCEPT !.entry = raw]
    <3>1. \A verdict : Answer(d, r, verdict)
                      => desk'[d].pc = "answered" /\ desk'[d].verdict = verdict
      BY <1>0 DEF Answer, Waiting
    <3> QED
      BY <1>6, <3>1 DEF Misread
  <2> QED
    BY <2>1, <2>2, BoundDesk DEF Fits, Green
<1>7. ASSUME NEW d \in Device, Consume(d) PROVE BoundTo'
  <2> DEFINE e == desk[d].entry
  <2>1. e \in Entry /\ desk[d] \in Request
    BY <1>0, <1>7 DEF Consume, Inv, WonAlone
  <2>2. /\ \A x \in Entry \ {e} : entries'[x] = entries[x]
        /\ entries'[e].used
        /\ entries'[e].status = entries[e].status
        /\ entries'[e].event = entries[e].event
    BY <1>0, <1>7, <2>1 DEF Consume, EntryRow
  <2>3. /\ \A x \in Device \ {d} : desk'[x] = desk[x]
        /\ desk'[d].pc = "won" /\ desk'[d].entry = e /\ desk'[d].at = desk[d].at
    BY <1>0, <1>7, <2>1 DEF Consume, Request
  <2>4. desk[d].pc = "read"
    BY <1>7 DEF Consume
  <2> QED
    BY <2>1, <2>2, <2>3, <2>4 DEF BoundTo, Fits, Green
<1>8. ASSUME NEW d \in Device, LoseRace(d) PROVE BoundTo'
  <2>1. UNCHANGED entries /\ \A x \in Device \ {d} : desk'[x] = desk[x]
    BY <1>0, <1>8 DEF LoseRace, Answer
  <2>2. desk'[d].pc = "answered" /\ desk'[d].verdict = "already_used"
    BY <1>0, <1>8 DEF LoseRace, Answer, Request
  <2> QED
    BY <2>1, <2>2, BoundDesk DEF Fits, Green
<1>9. ASSUME NEW d \in Device, LetIn(d) PROVE BoundTo'
  <2>1. UNCHANGED entries /\ \A x \in Device \ {d} : desk'[x] = desk[x]
    BY <1>0, <1>9 DEF LetIn, Answer
  <2>2. /\ desk'[d].pc = "answered" /\ desk'[d].entry = desk[d].entry
        /\ desk'[d].at = desk[d].at
    BY <1>0, <1>9 DEF LetIn, Answer, Request
  <2>3. desk[d].pc = "won" /\ entries[desk[d].entry].used
    BY <1>9 DEF LetIn, Inv, WonAlone
  <2> QED
    BY <2>1, <2>2, <2>3, BoundDesk DEF BoundTo, Fits
<1>10. ASSUME NEW d \in Device, Crash(d) \/ NextPerson(d) PROVE BoundTo'
  <2>1. UNCHANGED entries /\ \A x \in Device \ {d} : desk'[x] = desk[x]
    BY <1>0, <1>10 DEF Crash, NextPerson
  <2>2. desk'[d].pc = "idle"
    BY <1>0, <1>10 DEF Crash, NextPerson, Waiting
  <2> QED
    BY <2>1, <2>2, BoundDesk DEF Fits, Green
<1>11. CASE UNCHANGED vars
  BY <1>11 DEF vars, BoundTo
<1> QED
  BY <1>1, <1>2, <1>3, <1>4, <1>5, <1>6, <1>7, <1>8, <1>9, <1>10, <1>11
     DEF Next, Redeem, CheckIn

\* What the list of an event shows of an entry whose request was bound to it.
LEMMA BoundIsListed == Inv /\ BoundTo => AdmittedToItsEvent
BY DEF Inv, TypeOK, EntryRow, BoundTo, Fits, Green, AdmittedToItsEvent, CheckedIn, Attendance

\* Whoever got a green or amber screen is, from then on, among those who came in the
\* list of the event that was being controlled, and in no other list.
THEOREM GreenIsForItsEvent == Spec => []AdmittedToItsEvent
BY InvInit, InvStep, BoundInit, BoundStep, BoundIsListed, PTL DEF Spec

-----------------------------------------------------------------------------
(* The door keeps the promise of an entry.  Each step moves one entry along *)
(* its life or lets its holder in, or is a stutter.                         *)

\* The door starts where the abstract admission starts.
LEMMA AdmissionInit == Init => A!Init
BY DEF Init, A!Init, NewRow, LifeOf

\* Every step of the door is a step of the abstract admission, or none.
LEMMA AdmissionStep == Inv /\ Inv' /\ [Next]_vars => [A!Next]_(A!vars)
<1> SUFFICES ASSUME Inv, Inv', [Next]_vars PROVE [A!Next]_(A!vars)
  OBVIOUS
<1>0. entries \in [Entry -> EntryRow] /\ desk \in [Device -> Request]
      /\ admissions \in [Entry -> Nat]
  BY DEF Inv, TypeOK
<1>a. ASSUME UNCHANGED admissions, \A x \in Entry : LifeOf(entries'[x]) = LifeOf(entries[x])
      PROVE  UNCHANGED A!vars
  BY <1>a DEF A!vars
<1>b. ASSUME NEW e \in Entry, UNCHANGED admissions, NEW from, NEW to,
             \A x \in Entry \ {e} : LifeOf(entries'[x]) = LifeOf(entries[x]),
             LifeOf(entries[e]) \in from, LifeOf(entries'[e]) = to
      PROVE  A!Become(e, from, to)
  <2>1. [x \in Entry |-> LifeOf(entries'[x])] =
            [[x \in Entry |-> LifeOf(entries[x])] EXCEPT ![e] = to]
    BY <1>b
  <2> QED
    BY <1>b, <2>1 DEF A!Become
<1>c. ASSUME NEW d \in Device, NEW e \in Entry, UNCHANGED entries, entries[e].used,
             admissions[e] = 0, admissions' = [admissions EXCEPT ![e] = @ + 1]
      PROVE  A!Enter(e)
  BY <1>0, <1>c DEF A!Enter, LifeOf
<1>1. ASSUME NEW e \in Entry, NEW v \in EventOrNone, Issue(e, v) PROVE A!Next
  <2>1. \A x \in Entry \ {e} : LifeOf(entries'[x]) = LifeOf(entries[x])
    BY <1>0, <1>1 DEF Issue, LifeOf
  <2>2. LifeOf(entries[e]) = "none" /\ LifeOf(entries'[e]) = "issued"
    BY <1>0, <1>1 DEF Issue, LifeOf, EntryRow, Inv, WonAlone
  <2>3. A!Become(e, {"none"}, "issued")
    BY <1>1, <1>b, <2>1, <2>2 DEF Issue
  <2> QED
    BY <2>3 DEF A!Next, A!Issue
<1>2. ASSUME NEW e \in Entry, Revoke(e) PROVE [A!Next]_(A!vars)
  <2>1. \A x \in Entry \ {e} : LifeOf(entries'[x]) = LifeOf(entries[x])
    BY <1>0, <1>2 DEF Revoke, LifeOf
  <2>2. CASE entries[e].used
    <3>1. LifeOf(entries'[e]) = LifeOf(entries[e])
      BY <1>0, <1>2, <2>2 DEF Revoke, LifeOf, EntryRow
    <3> QED
      BY <1>2, <1>a, <2>1, <3>1 DEF Revoke
  <2>3. CASE ~entries[e].used
    <3>1. LifeOf(entries[e]) = "issued" /\ LifeOf(entries'[e]) = "revoked"
      BY <1>0, <1>2, <2>3 DEF Revoke, LifeOf, EntryRow
    <3>2. A!Become(e, {"issued"}, "revoked")
      BY <1>2, <1>b, <2>1, <3>1 DEF Revoke
    <3> QED
      BY <3>2 DEF A!Next, A!Revoke
  <2> QED
    BY <2>2, <2>3
<1>3. ASSUME NEW e \in Entry, DeleteCard(e) PROVE [A!Next]_(A!vars)
  <2>1. \A x \in Entry \ {e} : LifeOf(entries'[x]) = LifeOf(entries[x])
    BY <1>0, <1>3 DEF DeleteCard, LifeOf
  <2>2. CASE entries[e].used
    <3>1. LifeOf(entries'[e]) = LifeOf(entries[e])
      BY <1>0, <1>3, <2>2 DEF DeleteCard, LifeOf, EntryRow
    <3> QED
      BY <1>3, <1>a, <2>1, <3>1 DEF DeleteCard
  <2>3. CASE ~entries[e].used
    <3>1. LifeOf(entries[e]) \in {"issued", "revoked"} /\ LifeOf(entries'[e]) = "gone"
      BY <1>0, <1>3, <2>3 DEF DeleteCard, LifeOf, EntryRow
    <3>2. A!Become(e, {"issued", "revoked"}, "gone")
      BY <1>3, <1>b, <2>1, <3>1 DEF DeleteCard
    <3> QED
      BY <3>2 DEF A!Next, A!Withdraw
  <2> QED
    BY <2>2, <2>3
<1>4. ASSUME NEW v \in Event, DeleteEvent(v) PROVE UNCHANGED A!vars
  <2>1. \A x \in Entry : LifeOf(entries'[x]) = LifeOf(entries[x])
    BY <1>0, <1>4 DEF DeleteEvent, LifeOf, EntryRow
  <2> QED
    BY <1>4, <1>a, <2>1 DEF DeleteEvent
<1>5. ASSUME NEW d \in Device, Consume(d) PROVE A!Next
  <2> DEFINE e == desk[d].entry
  <2>1. e \in Entry
    BY <1>5 DEF Consume, Inv, WonAlone
  <2>2. \A x \in Entry \ {e} : LifeOf(entries'[x]) = LifeOf(entries[x])
    BY <1>0, <1>5, <2>1 DEF Consume, LifeOf
  <2>3. LifeOf(entries[e]) = "issued" /\ LifeOf(entries'[e]) = "used"
    BY <1>0, <1>5, <2>1 DEF Consume, Consumable, LifeOf, EntryRow
  <2>4. A!Become(e, {"issued"}, "used")
    BY <1>5, <1>b, <2>1, <2>2, <2>3 DEF Consume
  <2> QED
    BY <2>1, <2>4 DEF A!Next, A!Use
<1>6. ASSUME NEW d \in Device, LetIn(d) PROVE A!Next
  <2>1. /\ desk[d].entry \in Entry
        /\ entries[desk[d].entry].used
        /\ admissions[desk[d].entry] = 0
    BY <1>6 DEF LetIn, Inv, WonAlone
  <2>2. A!Enter(desk[d].entry)
    BY <1>6, <1>c, <2>1 DEF LetIn
  <2> QED
    BY <2>1, <2>2 DEF A!Next
<1>7. CASE UNCHANGED <<entries, admissions>>
  BY <1>7 DEF A!vars
<1> QED
  BY <1>1, <1>2, <1>3, <1>4, <1>5, <1>6, <1>7
     DEF Next, Redeem, CheckIn, Admit, Misread, LoseRace, Crash, NextPerson, vars

\* What the devices, the list and the office do together is what Admission
\* says an entry may go through.
THEOREM DoorImplementsAdmission == Spec => ImplementsAdmission
BY AdmissionInit, AdmissionStep, InvInit, InvStep, PTL DEF Spec, ImplementsAdmission, A!Spec
=============================================================================
