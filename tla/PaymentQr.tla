----------------------------- MODULE PaymentQr -----------------------------
(***************************************************************************)
(* The payment QR of an organisation: the row of payment_settings, with    *)
(* the URL that leads are sent and the file of ours it refers to, and the  *)
(* files of media_root/payments.  Each request reads the row, commits the  *)
(* columns it changes, and then deletes the file it has left unused.       *)
(***************************************************************************)
EXTENDS Integers, FiniteSets

CONSTANTS File,             \* a fresh name in every upload
          Request,
          External,         \* a URL that is not of ours
          None,
          MaxActs           \* bound: requests and crashes

VARIABLES row,              \* the columns url and ref, or NoRow
          file,             \* the files on disk
          named,            \* the names given so far
          request,
          blurred,          \* ghost: requests have overlapped, or died
          acts              \* bound

vars == <<row, file, named, request, blurred, acts>>

NoRow == [url |-> "unset", ref |-> "unset"]
Blank == [url |-> None, ref |-> None]
Idle  == [pc |-> "idle"]
Row   == [url : File \cup {External, None}, ref : File \cup {None}]
InUse == \E r \in Request : request[r] # Idle

Init == /\ row = NoRow /\ file = {} /\ named = {}
        /\ request = [r \in Request |-> Idle]
        /\ blurred = FALSE /\ acts = 0

Enter(r, q) ==
    /\ request[r] = Idle
    /\ acts < MaxActs /\ acts' = acts + 1
    /\ request' = [request EXCEPT ![r] = q]
    /\ blurred' = (blurred \/ InUse)

\* _ensure_row; what is not there is inserted, with what the request sets.
Loaded == IF row = NoRow THEN Blank ELSE row

\* A request that has read the row: what it read, what it makes of it, and the file
\* it deletes once that is committed.
Saving(new, stale) == [pc |-> "save", inserts |-> row = NoRow, old |-> Loaded, new |-> new,
                       stale |-> stale]

\* set_qr_image stores the file first.
Store(r, f) ==
    /\ f \notin named
    /\ file' = file \cup {f} /\ named' = named \cup {f}
    /\ Enter(r, [pc |-> "stored", file |-> f])
    /\ UNCHANGED row

\* Mutant of SetImage: the file before goes before the commit.
SetImageAtOnce(r) ==
    /\ request[r].pc = "stored"
    /\ file' = file \ {Loaded.ref}
    /\ request' = [request EXCEPT ![r] =
          Saving([url |-> request[r].file, ref |-> request[r].file], None)]
    /\ UNCHANGED <<row, named, blurred, acts>>

SetImage(r) ==
    /\ request[r].pc = "stored"
    /\ request' = [request EXCEPT ![r] =
          Saving([url |-> request[r].file, ref |-> request[r].file], Loaded.ref)]
    /\ UNCHANGED <<row, file, named, blurred, acts>>

\* update: a URL that differs lets go of the file; the one that was read does not.
Stale(url) == IF url = Loaded.url THEN None ELSE Loaded.ref

Update(r, url) ==
    /\ Enter(r, Saving([url |-> url,
                        ref |-> IF Stale(url) = None THEN Loaded.ref ELSE None], Stale(url)))
    /\ UNCHANGED <<row, file, named>>

\* clear_qr; without a row there is nothing to clear.
Clear(r) ==
    /\ row # NoRow
    /\ Enter(r, Saving(Blank, row.ref))
    /\ UNCHANGED <<row, file, named>>

\* Two inserts of a row: the second meets the UNIQUE of the organisation, and fails.
\* An UPDATE sends the columns that changed, and no others.
Save(r) ==
    /\ request[r].pc = "save"
    /\ LET q == request[r]
           refused == q.inserts /\ row # NoRow
       IN /\ row' = IF q.inserts THEN (IF refused THEN row ELSE q.new)
                    ELSE [url |-> IF q.new.url = q.old.url THEN row.url ELSE q.new.url,
                          ref |-> IF q.new.ref = q.old.ref THEN row.ref ELSE q.new.ref]
          /\ request' = [request EXCEPT ![r] =
                IF refused \/ q.stale = None THEN Idle ELSE [pc |-> "delete", stale |-> q.stale]]
    /\ UNCHANGED <<file, named, blurred, acts>>

DeleteFile(r) ==
    /\ request[r].pc = "delete"
    /\ file' = file \ {request[r].stale}
    /\ request' = [request EXCEPT ![r] = Idle]
    /\ UNCHANGED <<row, named, blurred, acts>>

Crash(r) ==
    /\ request[r] # Idle
    /\ acts < MaxActs /\ acts' = acts + 1
    /\ request' = [request EXCEPT ![r] = Idle]
    /\ blurred' = TRUE
    /\ UNCHANGED <<row, file, named>>

\* A client may send back any URL it was ever shown.
Next == \E r \in Request :
            \/ \E f \in File : Store(r, f)
            \/ \E url \in named \cup {External, None} : Update(r, url)
            \/ SetImage(r) \/ Clear(r) \/ Save(r) \/ DeleteFile(r) \/ Crash(r)

Spec == Init /\ [][Next]_vars

-----------------------------------------------------------------------------
TypeOK ==
    /\ row \in Row \cup {NoRow}
    /\ file \subseteq named /\ named \subseteq File
    /\ \A r \in Request : request[r].pc \in {"idle", "stored", "save", "delete"}
    /\ blurred \in BOOLEAN /\ acts \in Nat

\* The file the row refers to is there, whatever overlaps or dies; and where nothing
\* has, it is the only one (payment_settings_service: files go after the commit, and
\* there is one per organisation).
OneImage == /\ Loaded.ref # None => Loaded.ref \in file
            /\ ~blurred /\ ~InUse => file \subseteq {Loaded.ref}

\* A URL of ours that is sent to a lead has its image.
LeadGetsAnImage == Loaded.url \in File => Loaded.url \in file
=============================================================================
