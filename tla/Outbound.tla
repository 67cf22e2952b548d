------------------------------ MODULE Outbound ------------------------------
(***************************************************************************)
(* The templates the business sends on its own: the worker's timer reminds *)
(* entries of their event and reactivates cold leads, one transaction per  *)
(* job; an operator sends one by hand; Meta takes them and tells, late and *)
(* in any order, what became of each; a lead asks to be left alone.        *)
(***************************************************************************)
EXTENDS Integers, Sequences, FiniteSets

CONSTANTS Lead,             \* one conversation, card and entry each
          Runner,           \* loops of scheduled sends
          Desk,             \* requests of the board
          Cap,              \* reactivation_daily_cap
          Inactive,         \* days without a message of the lead
          Recontact,        \* reactivation_recontact_days
          Windows,          \* days before the event: outbound_reminder_windows
          EventDay,
          Overlap,          \* whether two webhooks of statuses may overlap
          Faults,           \* what fails: "refuse", "answer", "job"
          Told,             \* bound: statuses Meta tells
          None,
          MaxDay, MaxEvents        \* bounds: days, what leads, people, Meta and faults do

ASSUME DaysAreNats ==
    /\ Cap \in Nat /\ Inactive \in Nat /\ Recontact \in Nat /\ EventDay \in Nat
    /\ Windows \subseteq Nat
ASSUME SessionsDiffer == Runner \cap Desk = {} /\ IsFiniteSet(Runner \cup Desk)

VARIABLES taken,            \* what Meta took, in order, with the row that records it
          session,          \* a job or a request: what it has read and not committed
          hooks,            \* statuses whose row was read and not written yet
          opted,            \* marketing_opt_out
          live,             \* leads with an entry that is not revoked
          candidate,        \* open conversations in the hands of the agent
          active,           \* day of the last message of each lead
          day,
          late,             \* ghost: templates that may still reach who opted out
          events            \* bound

vars == <<taken, session, hooks, opted, live, candidate, active, day, late,
          events>>
leads == <<opted, live, candidate, active, day>>

Session == Runner \cup Desk
Kind    == {"reminder", "reactivation"}
Status  == {"sent", "delivered", "read", "failed"}

ASSUME StatusesAreTold == Told \subseteq Status /\ None \notin Status

\* status_rank: failed is terminal.
Rank(status) == CASE status = "sent" -> 1 [] status = "delivered" -> 2
                  [] status = "read" -> 3 [] status = "failed" -> 4

\* Statuses that count as sent (_COUNTED_AS_SENT).
Counted == {"sent", "delivered", "read"}

\* The purpose, the lead, and the window or the day; below zero by hand.
Key == Kind \X Lead \X Int

\* A message: row is None until its session commits; lost says that a fault took
\* its row, heard the statuses that found it.
Message == [lead : Lead, key : Key, day : Nat, row : Status \cup {None}, lost : BOOLEAN,
            heard : SUBSET Status]

Idle == [pc |-> "idle", kind |-> "reminder", todo |-> {}, lead |-> None, mark |-> 0,
         day |-> 0, budget |-> 0, rows |-> {}]
Work == [pc : {"idle", "between", "next", "call", "claim"}, kind : Kind, todo : SUBSET Lead,
         lead : Lead \cup {None}, mark : Int, day : Nat, budget : Nat, rows : SUBSET Nat]

Init == /\ taken = <<>>
        /\ session = [s \in Session |-> Idle]
        /\ hooks = {}
        /\ opted = {}
        /\ live \in SUBSET Lead
        /\ candidate = Lead
        /\ active = [l \in Lead |-> 0]
        /\ day = 0
        /\ late = [l \in Lead |-> 0]
        /\ events = 0

At(s, pc) == session[s].pc = pc

-----------------------------------------------------------------------------
(* What a session sees: what is committed and what it has written itself. *)

Seen(s) == {i \in DOMAIN taken : taken[i].row # None \/ i \in session[s].rows}

StatusOf(i) == IF taken[i].row = None THEN "sent" ELSE taken[i].row

\* Mutant of SentSince: what was delivered is not sent any more.
SentSinceOnly(s, i, since) ==
    i \in Seen(s) /\ StatusOf(i) = "sent" /\ taken[i].day >= since

SentSince(s, i, since) == i \in Seen(s) /\ StatusOf(i) \in Counted /\ taken[i].day >= since

\* count_sent_since: those sent by hand are of the same purpose.
Already(s) == Cardinality({i \in DOMAIN taken : /\ taken[i].key[1] = "reactivation"
                                                /\ SentSince(s, i, day)})

\* last_sent_to: any template to the phone, in the days before.
Recent(s, l) == \E i \in DOMAIN taken : taken[i].lead = l /\ SentSince(s, i, day - Recontact + 1)

\* The reminder that is due: the closest window the event is in, none once past.
DueWindow(today) ==
    LET ahead == {w \in Windows : EventDay - today <= w}
    IN IF EventDay <= today \/ ahead = {} THEN None
       ELSE CHOOSE w \in ahead : \A v \in ahead : w <= v

KeyOf(s) == <<session[s].kind, session[s].lead, session[s].mark>>

\* Mutant of Used: nobody looks for the key.
UsedNever(s, key) == FALSE

\* exists_dedupe
Used(s, key) == \E i \in Seen(s) : taken[i].key = key

\* Mutant of OptedOut: only the jobs ask.
OptedOutOfJobs(s, l) == s \in Runner /\ l \in opted

\* is_opted_out
OptedOut(s, l) == l \in opted

-----------------------------------------------------------------------------
(* The jobs of a tick, which comes within the hours of sending. *)

\* EventReminderService.run: the live entries of the event, if a reminder is due.
Remind(r) ==
    /\ At(r, "idle")
    /\ DueWindow(day) # None
    /\ session' = [session EXCEPT ![r] =
                      [Idle EXCEPT !.pc = "next", !.todo = live, !.day = day,
                                   !.mark = DueWindow(day)]]
    /\ UNCHANGED <<taken, hooks, leads, late, events>>

\* ReactivationService.run_for, when it is enabled: one rule with every stage.
Reactivate(r) ==
    /\ At(r, "between") \/ (At(r, "idle") /\ DueWindow(day) = None)
    /\ session' = [session EXCEPT ![r] =
                      [Idle EXCEPT !.pc = "next", !.kind = "reactivation", !.todo = candidate,
                                   !.day = day, !.mark = day,
                                   !.budget = IF Already(r) >= Cap THEN 0 ELSE Cap - Already(r)]]
    /\ UNCHANGED <<taken, hooks, leads, late, events>>

Happens == events < MaxEvents /\ events' = events + 1

\* reactivate_card and remind_card, with a key of their own.
SendByHand(d, l, kind) ==
    /\ At(d, "idle")
    /\ Happens
    /\ kind = "reminder" => l \in live /\ EventDay > day
    /\ session' = [session EXCEPT ![d] =
                      [Idle EXCEPT !.pc = "next", !.kind = kind, !.todo = {l}, !.day = day,
                                   !.mark = -(events + 1)]]
    /\ UNCHANGED <<taken, hooks, leads, late>>

-----------------------------------------------------------------------------
(* The loop over the leads of a job, and TemplateSender.send of each. *)

\* _eligible and the budget; a send by hand asks neither.
Eligible(s, l) ==
    s \in Runner /\ session[s].kind = "reactivation" =>
        /\ session[s].budget > 0
        /\ session[s].day - active[l] >= Inactive
        /\ ~Recent(s, l)

\* The key and the opt-out are looked up, and a row is flushed.
Send(s, l) ==
    /\ At(s, "next")
    /\ l \in session[s].todo
    /\ LET mine == [session[s] EXCEPT !.todo = @ \ {l}, !.lead = l]
           goes == /\ Eligible(s, l)
                   /\ ~Used(s, <<mine.kind, l, mine.mark>>)
                   /\ ~OptedOut(s, l)
       IN session' = [session EXCEPT ![s] = IF goes THEN [mine EXCEPT !.pc = "call"] ELSE mine]
    /\ UNCHANGED <<taken, hooks, leads, late, events>>

Sent(s, lost) == Append(taken, [lead |-> session[s].lead, key |-> KeyOf(s), row |-> None,
                                day |-> session[s].day, lost |-> lost, heard |-> {}])

Reach(l) == late' = IF l \in opted THEN [late EXCEPT ![l] = @ - 1] ELSE late

\* Meta takes it and answers.
Take(s) ==
    /\ At(s, "call")
    /\ taken' = Sent(s, FALSE)
    /\ Reach(session[s].lead)
    /\ session' = [session EXCEPT ![s].pc = "claim", ![s].rows = @ \cup {Len(taken) + 1}]
    /\ UNCHANGED <<hooks, leads, events>>

Fault(kind) == kind \in Faults /\ Happens

\* Meta refuses it: the row says failed and claims nothing.
Refuse(s) ==
    /\ At(s, "call")
    /\ Fault("refuse")
    /\ session' = [session EXCEPT ![s].pc = "next"]
    /\ UNCHANGED <<taken, hooks, leads, late>>

\* Meta takes it and the answer is lost: for the code it was refused.
LoseAnswer(s) ==
    /\ At(s, "call")
    /\ Fault("answer")
    /\ taken' = Sent(s, TRUE)
    /\ Reach(session[s].lead)
    /\ session' = [session EXCEPT ![s].pc = "next"]
    /\ UNCHANGED <<hooks, leads>>

\* The jobs of a tick follow each other whatever becomes of them.
After(s) == IF s \in Runner /\ session[s].kind = "reminder" THEN "between" ELSE "idle"

\* The sent row claims its key, which is unique: it waits for another session that
\* has claimed it, and if that one committed, everything is rolled back.
Claim(s) ==
    /\ At(s, "claim")
    /\ \A t \in Session \ {s} : \A i \in session[t].rows :
          At(t, "claim") \/ taken[i].key # KeyOf(s)
    /\ session' =
          [session EXCEPT ![s] =
              IF \E i \in DOMAIN taken : taken[i].row # None /\ taken[i].key = KeyOf(s)
              THEN [Idle EXCEPT !.pc = After(s)]
              ELSE [session[s] EXCEPT !.pc = "next", !.budget = IF @ = 0 THEN 0 ELSE @ - 1]]
    /\ UNCHANGED <<taken, hooks, leads, late, events>>

\* The whole job, or the request, is one transaction.
Commit(s) ==
    /\ At(s, "next")
    /\ session[s].todo = {}
    /\ taken' = [i \in DOMAIN taken |->
                    IF i \in session[s].rows THEN [taken[i] EXCEPT !.row = "sent"] ELSE taken[i]]
    /\ session' = [session EXCEPT ![s] = [Idle EXCEPT !.pc = After(s)]]
    /\ UNCHANGED <<hooks, leads, late, events>>

Lost(s) == [i \in DOMAIN taken |->
               IF i \in session[s].rows THEN [taken[i] EXCEPT !.lost = TRUE] ELSE taken[i]]

\* Mutant of Fails: a failed job ends the loop.
FailsForGood(s) ==
    /\ ~At(s, "idle") /\ ~At(s, "between")
    /\ Fault("job")
    /\ taken' = Lost(s)
    /\ session' = [session EXCEPT ![s] = [Idle EXCEPT !.pc = "stopped"]]
    /\ UNCHANGED <<hooks, leads, late>>

\* The job raises, or the process dies: nothing of it is left, and the next tick
\* begins again.
Fails(s) ==
    /\ ~At(s, "idle") /\ ~At(s, "between")
    /\ Fault("job")
    /\ taken' = Lost(s)
    /\ \E pc \in {After(s), "idle"} : session' = [session EXCEPT ![s] = [Idle EXCEPT !.pc = pc]]
    /\ UNCHANGED <<hooks, leads, late>>

-----------------------------------------------------------------------------
(* OutboundStatusService: the row of the wamid is read, compared and written *)
(* when the webhook commits.  A row that is not committed is not found.      *)

\* Mutant of Falls: the last status to arrive is the one that stays.
FallsNever(current, status) == FALSE

Falls(current, status) == Rank(status) < Rank(current)

\* The write comes with the commit of the webhook, which another may overlap.
Notify(i, status) ==
    /\ Happens
    /\ Overlap \/ hooks = {}
    /\ i \in DOMAIN taken
    /\ LET row == taken[i].row
       IN /\ taken' = IF row = None THEN taken ELSE [taken EXCEPT ![i].heard = @ \cup {status}]
          /\ hooks' = IF row # None /\ ~Falls(row, status) THEN hooks \cup {<<i, status>>}
                      ELSE hooks
    /\ UNCHANGED <<session, leads, late>>

Write(h) ==
    /\ h \in hooks
    /\ hooks' = hooks \ {h}
    /\ taken' = [taken EXCEPT ![h[1]].row = h[2]]
    /\ UNCHANGED <<session, leads, late, events>>

-----------------------------------------------------------------------------
(* Leads and people. *)

\* The opt-out, from the webhook or by hand.
OptOut(l) ==
    /\ Happens
    /\ l \notin opted
    /\ opted' = opted \cup {l}
    /\ late' = [late EXCEPT ![l] = Cardinality({s \in Session : At(s, "call") /\ session[s].lead = l})]
    /\ UNCHANGED <<taken, session, hooks, live, candidate, active, day>>

LeadWrites(l) ==
    /\ Happens
    /\ active[l] # day
    /\ active' = [active EXCEPT ![l] = day]
    /\ UNCHANGED <<taken, session, hooks, opted, live, candidate, day, late>>

\* A person takes the chat over, or the opportunity ends.
Leave(l) ==
    /\ Happens
    /\ l \in candidate
    /\ candidate' = candidate \ {l}
    /\ UNCHANGED <<taken, session, hooks, opted, live, active, day, late>>

Revoke(l) ==
    /\ Happens
    /\ l \in live
    /\ live' = live \ {l}
    /\ UNCHANGED <<taken, session, hooks, opted, candidate, active, day, late>>

\* Ticks come between the hours of sending, so that no job meets midnight.
NextDay ==
    /\ day < MaxDay
    /\ \A r \in Runner : At(r, "idle")
    /\ day' = day + 1
    /\ UNCHANGED <<taken, session, hooks, opted, live, candidate, active, late, events>>

-----------------------------------------------------------------------------
Run(s) == \/ \E l \in Lead : Send(s, l)
          \/ Take(s) \/ Claim(s) \/ Commit(s)

Jobs(r) == Remind(r) \/ Reactivate(r) \/ Run(r)

Next == \/ \E r \in Runner : Jobs(r)
        \/ \E d \in Desk : Run(d) \/ \E l \in Lead, kind \in Kind : SendByHand(d, l, kind)
        \/ \E s \in Session : Refuse(s) \/ LoseAnswer(s) \/ Fails(s)
        \/ \E i \in DOMAIN taken, status \in Told : Notify(i, status)
        \/ \E h \in hooks : Write(h)
        \/ \E l \in Lead : OptOut(l) \/ LeadWrites(l) \/ Leave(l) \/ Revoke(l)
        \/ NextDay

Spec == Init /\ [][Next]_vars

\* The loop goes on ticking while the worker lives, and goes on with its job.
FairSpec == Spec /\ \A r \in Runner : WF_vars(Jobs(r))

-----------------------------------------------------------------------------
TypeOK ==
    /\ taken \in Seq(Message)
    /\ session \in [Session -> Work]
    /\ hooks \subseteq Nat \X Status
    /\ opted \subseteq Lead /\ live \subseteq Lead /\ candidate \subseteq Lead
    /\ active \in [Lead -> Nat]
    /\ day \in Nat
    /\ late \in [Lead -> Int]
    /\ events \in Nat

\* What the worker sent, and what of it is a reactivation.
Scheduled     == {i \in DOMAIN taken : taken[i].key[3] >= 0}
Reactivations == {i \in Scheduled : taken[i].key[1] = "reactivation"}
Forgotten     == {i \in DOMAIN taken : taken[i].lost \/ taken[i].row = "failed"}

\* A lead gets each reminder once, and no reactivation within the days of another
\* template of the worker, whatever ticks repeat (dedupe_key, last_sent_to),
\* except for the rows that a fault took.
ContactedOnce ==
    \A i, j \in DOMAIN taken : i < j /\ taken[i].lead = taken[j].lead =>
        /\ taken[i].key = taken[j].key => taken[i].lost \/ taken[j].lost
        /\ i \in Scheduled \ Forgotten /\ j \in Reactivations
             => taken[j].day - taken[i].day >= Recontact

\* No day has more reactivations by the worker than the cap allows, but for those
\* that failed or that a fault took (run_for).
CapRespected ==
    \A d \in 0 .. day : Cardinality({i \in Reactivations \ Forgotten : taken[i].day = d}) <= Cap

\* Who asked to be left alone gets no template but those already on their way
\* (TemplateSender.send).
OptOutHonoured == \A l \in Lead : late[l] >= 0

\* A row tells the furthest of the statuses that found it, in whatever order they
\* came (status_rank); it holds of one webhook at a time.
StatusIsFurthest ==
    \A i \in DOMAIN taken : taken[i].row # None /\ (\A h \in hooks : h[1] # i) =>
        \A status \in taken[i].heard : Rank(status) <= Rank(taken[i].row)

Reminded(l, w) == \E i \in DOMAIN taken : taken[i].key = <<"reminder", l, w>>

\* An entry gets the reminder that is due in the end, whatever Meta refuses and
\* whatever job fails, if it stays live and the window lasts (the key is claimed
\* by a success only; the next tick tries again).
RemindedInTheEnd ==
    \A l \in Lead, w \in Windows :
        l \in live /\ DueWindow(day) = w
          ~> Reminded(l, w) \/ l \notin live \/ l \in opted \/ DueWindow(day) # w

\* A status that Meta tells of a message ends on its row (models.py:4-5).
StatusIsKept ==
    [][\A i \in DOMAIN taken, status \in Told : Notify(i, status) => taken'[i].heard # {}]_vars
=============================================================================
