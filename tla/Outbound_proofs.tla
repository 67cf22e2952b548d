--------------------------- MODULE Outbound_proofs ---------------------------
(***************************************************************************)
(* Proofs about Outbound, for any leads, runners, desks and faults: of its *)
(* types, of the opt-out, of the statuses that Meta tells out of order,    *)
(* and, for one worker, of the keys, the spacing and the cap.              *)
(***************************************************************************)
EXTENDS Outbound, FiniteSetTheorems, SequenceTheorems, TLAPS

\* A set of numbers has a least one: of the intervals that end in it, one holds no other.
LEMMA Least ==
    ASSUME NEW T, T \subseteq Nat, T # {} PROVE \E x \in T : \A y \in T : x <= y
<1> DEFINE R == StrictSubsetOrdering(Nat)
           F == {0 .. x : x \in T}
<1>1. IsWellFoundedOn(R, FiniteSubsetsOf(Nat))
  BY FS_StrictSubsetOrderingWellFounded
<1>2. F \subseteq FiniteSubsetsOf(Nat) /\ F # {}
  <2>1. ASSUME NEW x \in T PROVE 0 .. x \in FiniteSubsetsOf(Nat)
    <3>1. IsFiniteSet(0 .. x)
      BY FS_Interval
    <3> QED
      BY <3>1 DEF FiniteSubsetsOf
  <2> QED
    BY <2>1
<1>3. PICK d \in F : \A e \in F : ~(<<e, d>> \in R)
  <2> HIDE DEF R, F
  <2> QED
    BY <1>1, <1>2, WFMin
<1>4. PICK x \in T : d = 0 .. x
  OBVIOUS
<1>5. ASSUME NEW y \in T, y < x PROVE FALSE
  <2>1. 0 .. y \subseteq 0 .. x /\ 0 .. y # 0 .. x /\ 0 .. x \subseteq Nat
    BY <1>5
  <2>2. 0 .. y \in F
    OBVIOUS
  <2>3. <<0 .. y, d>> \in R
    BY <1>4, <2>1 DEF StrictSubsetOrdering
  <2> QED
    BY <1>3, <2>2, <2>3
<1> QED
  BY <1>5

-----------------------------------------------------------------------------
(* Types. *)

\* A session that sends has a lead.
Addressed == \A s \in Session : session[s].pc \in {"call", "claim"} => session[s].lead \in Lead

Typed == TypeOK /\ Addressed

LEMMA IdleIs ==
    /\ Idle.pc = "idle" /\ Idle.rows = {} /\ Idle.lead = None
    /\ Idle \in Work
BY DEF Idle, Work, Kind

LEMMA BudgetIsNat == ASSUME TypeOK, NEW s PROVE Already(s) \in Nat
<1> DEFINE S == {i \in DOMAIN taken : taken[i].key[1] = "reactivation" /\ SentSince(s, i, day)}
<1>1. IsFiniteSet(DOMAIN taken)
  BY FS_Interval DEF TypeOK
<1>2. IsFiniteSet(S)
  BY <1>1, FS_Subset
<1> QED
  BY <1>2, FS_CardinalityType DEF Already

LEMMA DueIsInt == ASSUME TypeOK, DueWindow(day) # None PROVE DueWindow(day) \in Nat
<1> DEFINE ahead == {w \in Windows : EventDay - day <= w}
<1>1. ahead # {} /\ ahead \subseteq Nat
  BY DaysAreNats DEF DueWindow
<1>2. PICK w \in ahead : \A v \in ahead : w <= v
  BY <1>1, Least
<1> QED
  BY <1>1, <1>2 DEF DueWindow

LEMMA TypedInit == Init => Typed
BY IdleIs DEF Init, Typed, TypeOK, Addressed

\* A session that is given a row of its type, and a lead if it sends.
LEMMA TypedSession ==
    ASSUME Typed, NEW s \in Session, NEW w \in Work,
           session' = [session EXCEPT ![s] = w],
           w.pc \in {"call", "claim"} => w.lead \in Lead,
           taken' \in Seq(Message), hooks' \subseteq Nat \X Status, opted' \subseteq Lead,
           live' \subseteq Lead, candidate' \subseteq Lead, active' \in [Lead -> Nat],
           day' \in Nat, late' \in [Lead -> Int], events' \in Nat
    PROVE  Typed'
BY DEF Typed, TypeOK, Addressed

LEMMA TypedRemind == ASSUME Typed, NEW r \in Session, Remind(r) PROVE Typed'
<1> DEFINE w == [Idle EXCEPT !.pc = "next", !.todo = live, !.day = day, !.mark = DueWindow(day)]
<1>1. DueWindow(day) \in Int /\ live \subseteq Lead /\ day \in Nat
  BY DueIsInt DEF Typed, TypeOK, Remind
<1>2. w \in Work /\ w.pc = "next"
  BY <1>1 DEF Idle, Work, Kind
<1>3. session' = [session EXCEPT ![r] = w]
  BY DEF Remind
<1> HIDE DEF w
<1> QED
  BY <1>2, <1>3, TypedSession DEF Remind, leads, Typed, TypeOK

LEMMA TypedReactivate == ASSUME Typed, NEW r \in Session, Reactivate(r) PROVE Typed'
<1> DEFINE b == IF Already(r) >= Cap THEN 0 ELSE Cap - Already(r)
           u == [Idle EXCEPT !.pc = "next", !.kind = "reactivation", !.todo = candidate]
           v == [u EXCEPT !.day = day, !.mark = day]
           w == [v EXCEPT !.budget = b]
<1>1. b \in Nat /\ candidate \subseteq Lead /\ day \in Nat /\ day \in Int
  BY BudgetIsNat, DaysAreNats DEF Typed, TypeOK
<1>3. session' = [session EXCEPT ![r] = w]
  BY DEF Reactivate
<1> HIDE DEF b
<1>4. u \in Work /\ u.pc = "next"
  BY <1>1, IdleIs DEF Work, Kind
<1> HIDE DEF u
<1>5. v \in Work /\ v.pc = "next"
  BY <1>1, <1>4 DEF Work
<1> HIDE DEF v
<1>2. w \in Work /\ w.pc = "next"
  BY <1>1, <1>5 DEF Work
<1> HIDE DEF w
<1> QED
  BY <1>2, <1>3, TypedSession DEF Reactivate, leads, Typed, TypeOK

LEMMA TypedSendByHand ==
    ASSUME Typed, NEW d \in Session, NEW l \in Lead, NEW kind \in Kind, SendByHand(d, l, kind)
    PROVE  Typed'
<1> DEFINE n == -(events + 1)
           w == [Idle EXCEPT !.pc = "next", !.kind = kind, !.todo = {l}, !.day = day, !.mark = n]
<1>1. n \in Int /\ day \in Nat /\ events' \in Nat
  BY DEF Typed, TypeOK, SendByHand, Happens
<1>3. session' = [session EXCEPT ![d] = w]
  BY DEF SendByHand
<1> HIDE DEF n
<1>2. w \in Work /\ w.pc = "next"
  BY <1>1 DEF Idle, Work, Kind
<1> HIDE DEF w
<1> QED
  BY <1>1, <1>2, <1>3, TypedSession DEF SendByHand, leads, Typed, TypeOK

LEMMA TypedSend == ASSUME Typed, NEW s \in Session, NEW l \in Lead, Send(s, l) PROVE Typed'
<1> DEFINE left == session[s].todo \ {l}
           mine == [session[s] EXCEPT !.todo = left, !.lead = l]
           goes == [mine EXCEPT !.pc = "call"]
<1>1. session[s] \in Work /\ left \subseteq Lead /\ session[s].pc = "next"
  BY DEF Typed, TypeOK, Work, Send, At
<1>3. PICK w \in {mine, goes} : session' = [session EXCEPT ![s] = w]
  BY DEF Send
<1> HIDE DEF left
<1>2. mine \in Work /\ mine.pc = "next" /\ mine.lead = l
  BY <1>1 DEF Work
<1> HIDE DEF mine
<1>4. goes \in Work /\ goes.lead = l
  BY <1>2 DEF Work
<1> HIDE DEF goes
<1> QED
  BY <1>2, <1>3, <1>4, TypedSession DEF Send, leads, Typed, TypeOK

\* What Meta takes from a session.
LEMMA SentIs ==
    ASSUME Typed, NEW s \in Session, At(s, "call"), NEW b \in BOOLEAN
    PROVE  /\ Sent(s, b) \in Seq(Message)
           /\ Len(Sent(s, b)) = Len(taken) + 1
           /\ \A i \in DOMAIN taken : Sent(s, b)[i] = taken[i]
           /\ Sent(s, b)[Len(taken) + 1].row = None
           /\ Sent(s, b)[Len(taken) + 1].heard = {}
<1> DEFINE m == [lead |-> session[s].lead, key |-> KeyOf(s), row |-> None,
                 day |-> session[s].day, lost |-> b, heard |-> {}]
<1>1. session[s] \in Work /\ session[s].lead \in Lead
  BY DEF Typed, TypeOK, Addressed, At
<1>2. m \in Message /\ m.row = None /\ m.heard = {}
  BY <1>1 DEF Work, Message, KeyOf, Key
<1> HIDE DEF m
<1>3. Sent(s, b) = Append(taken, m)
  BY DEF Sent, m
<1> QED
  BY <1>2, <1>3 DEF Typed, TypeOK

LEMMA ReachIs ==
    ASSUME Typed, NEW l \in Lead, Reach(l)
    PROVE  late' \in [Lead -> Int]
BY DEF Typed, TypeOK, Reach

LEMMA TypedTake == ASSUME Typed, NEW s \in Session, Take(s) PROVE Typed'
<1> DEFINE mine == session[s].rows \cup {Len(taken) + 1}
           w == [session[s] EXCEPT !.pc = "claim", !.rows = mine]
<1>1. session[s] \in Work /\ mine \subseteq Nat /\ session[s].lead \in Lead
  BY DEF Typed, TypeOK, Addressed, Work, Take, At
<1>3. session' = [session EXCEPT ![s] = w]
  BY DEF Take, Typed, TypeOK
<1> HIDE DEF mine
<1>2. w \in Work /\ w.lead \in Lead
  BY <1>1 DEF Work
<1>4. taken' \in Seq(Message) /\ late' \in [Lead -> Int]
  BY <1>1, SentIs, ReachIs DEF Take
<1> HIDE DEF w
<1> QED
  BY <1>2, <1>3, <1>4, TypedSession DEF Take, leads, Typed, TypeOK

LEMMA TypedRefuse ==
    ASSUME Typed, NEW s \in Session, Refuse(s) \/ LoseAnswer(s) PROVE Typed'
<1> DEFINE w == [session[s] EXCEPT !.pc = "next"]
<1>1. session[s] \in Work /\ session[s].lead \in Lead /\ At(s, "call")
  BY DEF Typed, TypeOK, Addressed, Refuse, LoseAnswer, At
<1>2. w \in Work /\ w.pc = "next"
  BY <1>1 DEF Work
<1>3. session' = [session EXCEPT ![s] = w]
  BY DEF Refuse, LoseAnswer, Typed, TypeOK
<1>4. taken' \in Seq(Message) /\ late' \in [Lead -> Int] /\ events' \in Nat
  <2>1. CASE Refuse(s)
    BY <2>1 DEF Refuse, Typed, TypeOK, Fault, Happens
  <2>2. CASE LoseAnswer(s)
    <3>1. taken' \in Seq(Message)
      BY <1>1, <2>2, SentIs DEF LoseAnswer
    <3>2. late' \in [Lead -> Int]
      BY <1>1, <2>2, ReachIs DEF LoseAnswer
    <3>3. Happens
      BY <2>2 DEF LoseAnswer, Fault
    <3> QED
      BY <3>1, <3>2, <3>3 DEF Typed, TypeOK, Happens
  <2> QED
    BY <2>1, <2>2
<1> HIDE DEF w
<1> QED
  BY <1>2, <1>3, <1>4, TypedSession DEF Refuse, LoseAnswer, leads, Typed, TypeOK

LEMMA EndedIs ==
    ASSUME NEW s PROVE [Idle EXCEPT !.pc = After(s)] \in Work
                        /\ [Idle EXCEPT !.pc = "idle"] \in Work
                        /\ [Idle EXCEPT !.pc = After(s)].pc \in {"between", "idle"}
                        /\ [Idle EXCEPT !.pc = After(s)].rows = {}
                        /\ [Idle EXCEPT !.pc = "idle"].rows = {}
                        /\ [Idle EXCEPT !.pc = "idle"].pc = "idle"
BY DEF Idle, Work, Kind, After

LEMMA TypedClaim == ASSUME Typed, NEW s \in Session, Claim(s) PROVE Typed'
<1> DEFINE w == [session[s] EXCEPT !.pc = "next", !.budget = IF @ = 0 THEN 0 ELSE @ - 1]
           e == [Idle EXCEPT !.pc = After(s)]
<1>1. session[s] \in Work
  BY DEF Typed, TypeOK
<1>3. \/ session' = [session EXCEPT ![s] = w]
      \/ session' = [session EXCEPT ![s] = e]
  <2> DEFINE taken2 == \E i \in DOMAIN taken : taken[i].row # None /\ taken[i].key = KeyOf(s)
  <2>1. session' = [session EXCEPT ![s] = IF taken2 THEN e ELSE w]
    BY Zenon DEF Claim
  <2> HIDE DEF taken2, e, w
  <2> QED
    BY <2>1
<1>2. w \in Work /\ w.pc = "next"
  <2> DEFINE j == [session[s] EXCEPT !.pc = "next"]
             b == IF j.budget = 0 THEN 0 ELSE j.budget - 1
  <2>1. j \in Work /\ b \in Nat /\ j.pc = "next"
    BY <1>1 DEF Work
  <2>2. w = [j EXCEPT !.budget = b]
    OBVIOUS
  <2> HIDE DEF w, j, b
  <2> QED
    BY <2>1, <2>2 DEF Work
<1>4. e \in Work /\ e.pc \in {"between", "idle"}
  BY EndedIs
<1> HIDE DEF w, e
<1> QED
  BY <1>2, <1>3, <1>4, TypedSession DEF Claim, leads, Typed, TypeOK

\* Rows that change keep their type.
LEMMA RowsAre ==
    ASSUME TypeOK, NEW S
    PROVE  /\ [i \in DOMAIN taken |-> IF i \in S THEN [taken[i] EXCEPT !.row = "sent"]
                                      ELSE taken[i]] \in Seq(Message)
           /\ [i \in DOMAIN taken |-> IF i \in S THEN [taken[i] EXCEPT !.lost = TRUE]
                                      ELSE taken[i]] \in Seq(Message)
<1>1. \A i \in DOMAIN taken : taken[i] \in Message
  BY DEF TypeOK
<1>2. \A i \in DOMAIN taken : /\ [taken[i] EXCEPT !.row = "sent"] \in Message
                              /\ [taken[i] EXCEPT !.lost = TRUE] \in Message
  BY <1>1 DEF Message, Status
<1>3. DOMAIN taken = 1 .. Len(taken) /\ Len(taken) \in Nat
  BY DEF TypeOK
<1> DEFINE f == [i \in DOMAIN taken |-> IF i \in S THEN [taken[i] EXCEPT !.row = "sent"]
                                        ELSE taken[i]]
           g == [i \in DOMAIN taken |-> IF i \in S THEN [taken[i] EXCEPT !.lost = TRUE]
                                        ELSE taken[i]]
<1>4. f \in [1 .. Len(taken) -> Message] /\ g \in [1 .. Len(taken) -> Message]
  BY <1>1, <1>2, <1>3
<1> HIDE DEF f, g
<1>5. f \in Seq(Message) /\ g \in Seq(Message)
  BY <1>3, <1>4, SeqDef
<1> QED
  BY <1>5 DEF f, g

LEMMA TypedCommit == ASSUME Typed, NEW s \in Session, Commit(s) PROVE Typed'
<1> DEFINE e == [Idle EXCEPT !.pc = After(s)]
<1>1. e \in Work /\ e.pc \in {"between", "idle"}
  BY EndedIs
<1>2. taken' \in Seq(Message)
  BY RowsAre DEF Commit, Typed
<1>3. session' = [session EXCEPT ![s] = e]
  BY DEF Commit
<1> HIDE DEF e
<1> QED
  BY <1>1, <1>2, <1>3, TypedSession DEF Commit, leads, Typed, TypeOK

LEMMA TypedFails == ASSUME Typed, NEW s \in Session, Fails(s) PROVE Typed'
<1> DEFINE e(pc) == [Idle EXCEPT !.pc = pc]
<1>1. \A pc \in {After(s), "idle"} : e(pc) \in Work /\ e(pc).pc \in {"between", "idle"}
  BY EndedIs
<1>2. taken' \in Seq(Message) /\ events' \in Nat
  <2>1. taken' \in Seq(Message)
    BY RowsAre DEF Fails, Lost, Typed
  <2> QED
    BY <2>1 DEF Fails, Typed, TypeOK, Fault, Happens
<1>3. PICK pc \in {After(s), "idle"} : session' = [session EXCEPT ![s] = e(pc)]
  BY DEF Fails
<1> HIDE DEF e
<1> QED
  BY <1>1, <1>2, <1>3, TypedSession DEF Fails, leads, Typed, TypeOK

LEMMA TypedNotify == ASSUME Typed, NEW i, NEW status \in Told, Notify(i, status) PROVE Typed'
<1> DEFINE m == [taken[i] EXCEPT !.heard = taken[i].heard \cup {status}]
<1>1. i \in DOMAIN taken /\ i \in Nat /\ taken[i] \in Message /\ status \in Status
  BY StatusesAreTold DEF Notify, Typed, TypeOK
<1>2. m \in Message
  BY <1>1 DEF Message
<1>3. taken' = taken \/ taken' = [taken EXCEPT ![i] = m]
  BY DEF Notify, Typed, TypeOK
<1> HIDE DEF m
<1>4. taken' \in Seq(Message)
  BY <1>1, <1>2, <1>3 DEF Typed, TypeOK
<1>5. hooks' \subseteq Nat \X Status /\ events' \in Nat
  BY <1>1 DEF Notify, Happens, Typed, TypeOK
<1> QED
  BY <1>4, <1>5 DEF Notify, leads, Typed, TypeOK, Addressed

LEMMA TypedWrite == ASSUME Typed, NEW h \in hooks, Write(h) PROVE Typed'
<1> DEFINE i == h[1]
           m == [taken[i] EXCEPT !.row = h[2]]
<1>1. taken' = [taken EXCEPT ![i] = m] /\ h[2] \in Status
  BY DEF Write, Typed, TypeOK
<1> HIDE DEF i
<1>2. ASSUME i \in DOMAIN taken PROVE taken' \in Seq(Message)
  <2>1. taken[i] \in Message
    BY <1>2 DEF Typed, TypeOK
  <2>2. m \in Message
    BY <1>1, <2>1 DEF Message
  <2> HIDE DEF m
  <2> QED
    BY <1>1, <1>2, <2>2 DEF Typed, TypeOK
<1>4. ASSUME i \notin DOMAIN taken PROVE taken' = taken
  <2> HIDE DEF m
  <2> QED
    BY <1>1, <1>4 DEF Typed, TypeOK
<1>3. taken' \in Seq(Message)
  BY <1>2, <1>4 DEF Typed, TypeOK
<1> QED
  BY <1>3 DEF Write, leads, Typed, TypeOK, Addressed

LEMMA SessionsFinite == IsFiniteSet(Session)
BY SessionsDiffer DEF Session

LEMMA TypedOptOut == ASSUME Typed, NEW l \in Lead, OptOut(l) PROVE Typed'
<1> DEFINE n == Cardinality({s \in Session : At(s, "call") /\ session[s].lead = l})
<1>1. n \in Nat
  BY SessionsFinite, FS_Subset, FS_CardinalityType
<1>2. late' = [late EXCEPT ![l] = n]
  BY DEF OptOut
<1> HIDE DEF n
<1> QED
  BY <1>1, <1>2 DEF OptOut, Happens, Typed, TypeOK, Addressed

LEMMA TypedNext == ASSUME Typed, [Next]_vars PROVE Typed'
<1> USE DEF Session
<1>1. ASSUME UNCHANGED vars PROVE Typed'
  BY <1>1 DEF vars, leads, Typed, TypeOK, Addressed
<1>2. ASSUME NEW l \in Lead, LeadWrites(l) \/ Leave(l) \/ Revoke(l) PROVE Typed'
  BY <1>2 DEF LeadWrites, Leave, Revoke, Happens, Typed, TypeOK, Addressed
<1>3. ASSUME NextDay PROVE Typed'
  BY <1>3 DEF NextDay, Typed, TypeOK, Addressed
<1> QED
  BY <1>1, <1>2, <1>3, TypedRemind, TypedReactivate, TypedSendByHand, TypedSend, TypedTake,
     TypedRefuse, TypedClaim, TypedCommit, TypedFails, TypedNotify, TypedWrite, TypedOptOut
     DEF Next, Jobs, Run

\* Every session, message, status and counter keeps its type, whatever jobs, desks, leads
\* and Meta do.
THEOREM TypeCorrect == Spec => []TypeOK
<1>1. Typed /\ [Next]_vars => Typed'
  BY TypedNext
<1>2. Typed => TypeOK
  BY DEF Typed
<1> QED
  BY <1>1, <1>2, TypedInit, PTL DEF Spec

-----------------------------------------------------------------------------
(* What a step of a session does to it, but for what Meta takes.             *)

Moves(s) == \/ s \in Runner /\ (Remind(s) \/ Reactivate(s))
            \/ s \in Desk /\ \E l \in Lead, kind \in Kind : SendByHand(s, l, kind)
            \/ Refuse(s) \/ Claim(s) \/ Commit(s) \/ Fails(s)
            \/ \E l \in Lead : Send(s, l)

\* It drops rows but takes none, and calls Meta for nobody who opted out.
LEMMA Moved ==
    ASSUME Typed, NEW s \in Session, Moves(s)
    PROVE  /\ \A t \in Session \ {s} : session'[t] = session[t]
           /\ session'[s].rows \subseteq session[s].rows
           /\ session'[s].pc = "call" => session'[s].lead \notin opted
           /\ UNCHANGED <<opted, late>>
<1> DEFINE P == /\ \A t \in Session \ {s} : session'[t] = session[t]
                /\ session'[s].rows \subseteq session[s].rows
                /\ session'[s].pc = "call" => session'[s].lead \notin opted
                /\ UNCHANGED <<opted, late>>
<1>1. session \in [Session -> Work] /\ session[s] \in Work
  BY DEF Typed, TypeOK
<1>2. CASE Remind(s) \/ Reactivate(s)
  <2>1. session'[s].rows = {} /\ session'[s].pc = "next"
    BY <1>1, <1>2 DEF Remind, Reactivate, Idle
  <2> QED
    BY <1>1, <1>2, <2>1 DEF Remind, Reactivate, leads
<1>3. CASE Refuse(s)
  BY <1>1, <1>3 DEF Refuse, leads, Work
<1>4. CASE Claim(s)
  <2>1. \/ session'[s] = [Idle EXCEPT !.pc = After(s)]
        \/ session'[s] = [session[s] EXCEPT !.pc = "next", !.budget = IF @ = 0 THEN 0 ELSE @ - 1]
    BY <1>1, <1>4 DEF Claim
  <2>2. session'[s].rows \subseteq session[s].rows /\ session'[s].pc # "call"
    BY <1>1, <2>1, EndedIs DEF Work
  <2>3. \A t \in Session \ {s} : session'[t] = session[t]
    BY <1>1, <1>4 DEF Claim
  <2> QED
    BY <1>4, <2>2, <2>3 DEF Claim, leads
<1>5. CASE Commit(s) \/ Fails(s)
  <2>1. PICK pc \in {After(s), "idle"} : session' = [session EXCEPT ![s] = [Idle EXCEPT !.pc = pc]]
    BY <1>5 DEF Commit, Fails
  <2>2. session'[s].rows = {} /\ session'[s].pc # "call"
    BY <1>1, <2>1, EndedIs
  <2> QED
    BY <1>1, <1>5, <2>1, <2>2 DEF Commit, Fails, leads
<1>6. ASSUME NEW l \in Lead, Send(s, l) PROVE P
  <2> DEFINE mine == [session[s] EXCEPT !.todo = @ \ {l}, !.lead = l]
             goes == [mine EXCEPT !.pc = "call"]
  <2>1. \/ session' = [session EXCEPT ![s] = mine]
        \/ session' = [session EXCEPT ![s] = goes] /\ ~OptedOut(s, l)
    BY <1>6 DEF Send
  <2>2. mine.rows = session[s].rows /\ mine.pc = "next" /\ goes.rows = mine.rows /\ goes.lead = l
    BY <1>1, <1>6 DEF Send, At, Work
  <2> HIDE DEF goes, mine
  <2> QED
    BY <1>1, <1>6, <2>1, <2>2 DEF Send, OptedOut, leads
<1>7. ASSUME NEW l \in Lead, NEW kind \in Kind, SendByHand(s, l, kind) PROVE P
  <2>1. session'[s].rows = {} /\ session'[s].pc = "next"
    BY <1>1, <1>7 DEF SendByHand, Idle
  <2> QED
    BY <1>1, <1>7, <2>1 DEF SendByHand, leads
<1> QED
  BY <1>2, <1>3, <1>4, <1>5, <1>6, <1>7 DEF Moves

\* Every other step leaves the sessions alone, but for the two in which Meta takes.
LEMMA Others ==
    ASSUME Typed, [Next]_vars
    PROVE  \/ \E s \in Session : Moves(s) \/ Take(s) \/ LoseAnswer(s)
           \/ UNCHANGED <<taken, session, hooks, opted, late>>
           \/ \E i \in DOMAIN taken, status \in Told : Notify(i, status)
           \/ \E h \in hooks : Write(h)
           \/ \E l \in Lead : OptOut(l)
BY DEF Next, Jobs, Run, Moves, Session, vars, leads, LeadWrites, Leave, Revoke, NextDay, Notify

-----------------------------------------------------------------------------
(* The opt-out. *)

Waiting(l) == {s \in Session : At(s, "call") /\ session[s].lead = l}

\* As many templates may still reach who opted out as were on their way.
Allowance == \A l \in opted : late[l] >= Cardinality(Waiting(l))
NoDebt    == \A l \in Lead : late[l] >= 0

Left == Typed /\ Allowance /\ NoDebt

LEMMA WaitingIsFinite ==
    ASSUME NEW l PROVE IsFiniteSet(Waiting(l)) /\ Cardinality(Waiting(l)) \in Nat
BY SessionsFinite, FS_Subset, FS_CardinalityType DEF Waiting

LEMMA FewerWait ==
    ASSUME NEW l, Waiting(l)' \subseteq Waiting(l)
    PROVE  Cardinality(Waiting(l)') <= Cardinality(Waiting(l)) /\ Cardinality(Waiting(l)') \in Nat
BY WaitingIsFinite, FS_Subset, FS_CardinalityType

LEMMA LeftTakes ==
    ASSUME Left, NEW s \in Session, Take(s) \/ LoseAnswer(s)
    PROVE  Allowance' /\ NoDebt'
<1>0. PICK m \in Lead : m = session[s].lead
  BY DEF Left, Typed, Addressed, Take, LoseAnswer, At
<1>1. session[s] \in Work /\ s \in Waiting(m) /\ opted' = opted
  BY <1>0 DEF Left, Typed, TypeOK, Addressed, Take, LoseAnswer, Waiting, At, leads
<1>2. session'[s].pc # "call" /\ \A t \in Session \ {s} : session'[t] = session[t]
  <2>1. session \in [Session -> Work]
    BY DEF Left, Typed, TypeOK
  <2>2. \/ session' = [session EXCEPT ![s].pc = "next"]
        \/ session' = [session EXCEPT ![s].pc = "claim", ![s].rows = @ \cup {Len(taken) + 1}]
    BY DEF Take, LoseAnswer
  <2> QED
    BY <1>1, <2>1, <2>2 DEF Work
<1>3. late' = IF m \in opted THEN [late EXCEPT ![m] = @ - 1] ELSE late
  BY <1>0 DEF Take, LoseAnswer, Reach
<1>4. \A l : Waiting(l)' \subseteq Waiting(l) \ {s}
  BY <1>2 DEF Waiting, At
<1>5. ASSUME NEW l \in opted, l # m PROVE late'[l] >= Cardinality(Waiting(l)') /\ late'[l] >= 0
  <2>1. late'[l] = late[l] /\ late[l] \in Int /\ late[l] >= Cardinality(Waiting(l))
    BY <1>3, <1>5 DEF Left, Allowance, Typed, TypeOK
  <2>2. Cardinality(Waiting(l)') <= Cardinality(Waiting(l)) /\ Cardinality(Waiting(l)') \in Nat
    BY <1>4, FewerWait
  <2> QED
    BY <2>1, <2>2, WaitingIsFinite
<1>6. ASSUME m \in opted PROVE late'[m] >= Cardinality(Waiting(m)') /\ late'[m] >= 0
  <2>1. late'[m] = late[m] - 1 /\ late[m] \in Int /\ late[m] >= Cardinality(Waiting(m))
    BY <1>1, <1>3, <1>6 DEF Left, Allowance, Typed, TypeOK
  <2>2. IsFiniteSet(Waiting(m) \ {s}) /\ Cardinality(Waiting(m) \ {s}) = Cardinality(Waiting(m)) - 1
    BY <1>1, WaitingIsFinite, FS_RemoveElement
  <2>3. Waiting(m)' \subseteq Waiting(m) \ {s}
    BY <1>4
  <2>4. Cardinality(Waiting(m)') <= Cardinality(Waiting(m)) - 1 /\ Cardinality(Waiting(m)') \in Nat
    BY <2>2, <2>3, FS_Subset, FS_CardinalityType
  <2> QED
    BY <2>1, <2>4, WaitingIsFinite
<1>7. ASSUME NEW l \in Lead, l \notin opted PROVE late'[l] >= 0
  BY <1>3, <1>7 DEF Left, NoDebt, Typed, TypeOK
<1>8. opted \subseteq Lead
  BY DEF Left, Typed, TypeOK
<1>9. \A l \in opted : late'[l] >= Cardinality(Waiting(l)')
  BY <1>5, <1>6
<1>10. \A l \in Lead : late'[l] >= 0
  BY <1>5, <1>6, <1>7
<1> QED
  BY <1>1, <1>9, <1>10 DEF Allowance, NoDebt

LEMMA LeftMoves ==
    ASSUME Left, UNCHANGED <<opted, late>>, \A l \in opted : Waiting(l)' \subseteq Waiting(l)
    PROVE  Allowance' /\ NoDebt'
<1>1. ASSUME NEW l \in opted PROVE late[l] >= Cardinality(Waiting(l)')
  <2>1. late[l] \in Int /\ late[l] >= Cardinality(Waiting(l))
    BY DEF Left, Allowance, Typed, TypeOK
  <2> QED
    BY <2>1, FewerWait, WaitingIsFinite
<1> QED
  BY <1>1 DEF Left, Allowance, NoDebt

LEMMA LeftOptOut ==
    ASSUME Left, NEW l \in Lead, OptOut(l) PROVE Allowance' /\ NoDebt'
<1>1. late' = [late EXCEPT ![l] = Cardinality(Waiting(l))] /\ opted' = opted \cup {l}
  BY DEF OptOut, Waiting
<1>2. \A k : Waiting(k)' = Waiting(k)
  BY DEF OptOut, Waiting, At
<1> QED
  BY <1>1, <1>2, WaitingIsFinite DEF Left, Allowance, NoDebt, Typed, TypeOK

LEMMA LeftNext == ASSUME Left, [Next]_vars PROVE Left'
<1>1. Typed' /\ Typed
  BY TypedNext DEF Left
<1>2. ASSUME NEW s \in Session, Moves(s) PROVE Allowance' /\ NoDebt'
  BY <1>1, <1>2, Moved, LeftMoves DEF Waiting, At
<1>3. ASSUME UNCHANGED <<session, opted, late>> PROVE Allowance' /\ NoDebt'
  BY <1>3, LeftMoves DEF Waiting, At
<1>4. ASSUME NEW i \in DOMAIN taken, NEW status \in Told, Notify(i, status)
      PROVE  Allowance' /\ NoDebt'
  BY <1>3, <1>4 DEF Notify, leads
<1>5. ASSUME NEW h \in hooks, Write(h) PROVE Allowance' /\ NoDebt'
  BY <1>3, <1>5 DEF Write, leads
<1> QED
  BY <1>1, <1>2, <1>3, <1>4, <1>5, Others, LeftTakes, LeftOptOut DEF Left

\* Who asked to be left alone gets no template but those already on their way, for any
\* number of loops and desks (TemplateSender.send looks the opt-out up itself).
THEOREM LeftAlone == Spec => []OptOutHonoured
<1>1. Init => Left
  BY TypedInit DEF Left, Init, Allowance, NoDebt
<1>2. Left /\ [Next]_vars => Left'
  BY LeftNext
<1>3. Left => OptOutHonoured
  BY DEF Left, NoDebt, OptOutHonoured
<1> QED
  BY <1>1, <1>2, <1>3, PTL DEF Spec

-----------------------------------------------------------------------------
(* What becomes of each message.                                             *)

\* The rows of a session are not committed, and nobody else's.
Owned == \A s \in Session : \A i \in session[s].rows :
            /\ i \in DOMAIN taken /\ taken[i].row = None
            /\ \A t \in Session \ {s} : i \notin session[t].rows

\* A row that is not committed is not found by a status.
Unheard == \A i \in DOMAIN taken : taken[i].row = None => taken[i].heard = {}

\* One webhook at a time is between its read and its write, and what it read stands.
ReadsStand ==
    /\ \A g, h \in hooks : g = h
    /\ \A h \in hooks : /\ h[1] \in DOMAIN taken
                        /\ taken[h[1]].row # None /\ Rank(taken[h[1]].row) <= Rank(h[2])

\* What a row has not told yet is with the webhook that is about to write it.
Heard == \A i \in DOMAIN taken : taken[i].row # None =>
            \A status \in taken[i].heard :
                Rank(status) <= Rank(taken[i].row) \/ <<i, status>> \in hooks

Ordered == Typed /\ Owned /\ Unheard /\ ReadsStand /\ Heard

LEMMA RankIs == \A status \in Status : Rank(status) \in 1 .. 4
BY DEF Rank, Status

\* A step that changes no row and no status it has found.
LEMMA OrderedStays ==
    ASSUME Ordered, UNCHANGED hooks, DOMAIN taken \subseteq DOMAIN taken',
           \A i \in DOMAIN taken : taken'[i].row = taken[i].row /\ taken'[i].heard = taken[i].heard,
           \A i \in DOMAIN taken' \ DOMAIN taken : taken'[i].row = None /\ taken'[i].heard = {}
    PROVE  Unheard' /\ ReadsStand' /\ Heard'
<1>1. Unheard' /\ Heard'
  BY DEF Ordered, Unheard, Heard
<1>2. ReadsStand'
  BY DEF Ordered, ReadsStand
<1> QED
  BY <1>1, <1>2

LEMMA LostIs ==
    ASSUME Typed, NEW s \in Session
    PROVE  /\ DOMAIN Lost(s) = DOMAIN taken
           /\ \A i \in DOMAIN taken : /\ Lost(s)[i].row = taken[i].row
                                      /\ Lost(s)[i].heard = taken[i].heard
BY DEF Lost, Typed, TypeOK, Message

LEMMA CommittedIs ==
    ASSUME Typed, NEW s \in Session, Commit(s)
    PROVE  /\ DOMAIN taken' = DOMAIN taken
           /\ \A i \in DOMAIN taken : /\ taken'[i].heard = taken[i].heard
                                      /\ taken'[i].row = IF i \in session[s].rows THEN "sent"
                                                         ELSE taken[i].row
BY DEF Commit, Typed, TypeOK, Message

LEMMA OrderedMove ==
    ASSUME Ordered, Typed', NEW s \in Session, Moves(s) PROVE Ordered'
<1>1. /\ \A t \in Session \ {s} : session'[t] = session[t]
      /\ session'[s].rows \subseteq session[s].rows
  BY Moved DEF Ordered
<1>2. UNCHANGED hooks
  BY DEF Moves, Remind, Reactivate, Refuse, Claim, Commit, Fails, Send, SendByHand
<1>3. CASE ~Commit(s)
  <2>1. /\ DOMAIN taken' = DOMAIN taken
        /\ \A i \in DOMAIN taken : taken'[i].row = taken[i].row /\ taken'[i].heard = taken[i].heard
    BY <1>3, LostIs
       DEF Moves, Remind, Reactivate, Refuse, Claim, Fails, Send, SendByHand, Ordered
  <2>2. Owned'
    BY <1>1, <2>1 DEF Ordered, Owned
  <2> QED
    BY <1>2, <2>1, <2>2, OrderedStays DEF Ordered
<1>4. CASE Commit(s)
  <2>1. session'[s].rows = {}
    <3>1. session \in [Session -> Work]
      BY DEF Ordered, Typed, TypeOK
    <3> QED
      BY <1>4, <3>1, EndedIs DEF Commit
  <2>2. /\ DOMAIN taken' = DOMAIN taken
        /\ \A i \in DOMAIN taken : /\ taken'[i].heard = taken[i].heard
                                   /\ taken'[i].row = IF i \in session[s].rows THEN "sent"
                                                      ELSE taken[i].row
    BY <1>4, CommittedIs DEF Ordered
  <2>3. Owned'
    BY <1>1, <2>1, <2>2 DEF Ordered, Owned
  <2>4. Unheard' /\ Heard'
    BY <1>2, <2>2 DEF Ordered, Owned, Unheard, Heard
  <2>5. ReadsStand'
    BY <1>2, <2>2 DEF Ordered, Owned, ReadsStand
  <2> QED
    BY <2>3, <2>4, <2>5 DEF Ordered
<1> QED
  BY <1>3, <1>4

LEMMA OrderedTakes ==
    ASSUME Ordered, Typed', NEW s \in Session, Take(s) \/ LoseAnswer(s) PROVE Ordered'
<1> DEFINE n == Len(taken) + 1
<1>1. At(s, "call") /\ UNCHANGED hooks /\ \E b \in BOOLEAN : taken' = Sent(s, b)
  BY DEF Take, LoseAnswer
<1>2. /\ taken' \in Seq(Message) /\ Len(taken') = n
      /\ \A i \in DOMAIN taken : taken'[i] = taken[i]
      /\ taken'[n].row = None /\ taken'[n].heard = {}
  BY <1>1, SentIs DEF Ordered
<1>3. taken \in Seq(Message) /\ session \in [Session -> Work]
  BY DEF Ordered, Typed, TypeOK
<1>4. DOMAIN taken' = DOMAIN taken \cup {n} /\ n \notin DOMAIN taken
  BY <1>2, <1>3
<1>5. /\ \A t \in Session \ {s} : session'[t] = session[t]
      /\ session'[s].rows \subseteq session[s].rows \cup {n}
  <2>1. \/ session' = [session EXCEPT ![s].pc = "next"]
        \/ session' = [session EXCEPT ![s].pc = "claim", ![s].rows = @ \cup {Len(taken) + 1}]
    BY DEF Take, LoseAnswer
  <2> HIDE DEF n
  <2> QED
    BY <1>3, <2>1 DEF Work, n
<1> HIDE DEF n
<1>6. Owned'
  BY <1>2, <1>4, <1>5 DEF Ordered, Owned
<1> QED
  BY <1>1, <1>2, <1>4, <1>6, OrderedStays DEF Ordered

LEMMA OrderedNotify ==
    ASSUME Ordered, Typed', ~Overlap, NEW i \in DOMAIN taken, NEW status \in Told,
           Notify(i, status)
    PROVE  Ordered'
<1>1. hooks = {} /\ UNCHANGED session /\ status \in Status
  BY StatusesAreTold DEF Notify
<1>2. taken[i] \in Message /\ DOMAIN taken' = DOMAIN taken
  BY DEF Ordered, Typed, TypeOK, Notify
<1>3. CASE taken[i].row = None
  BY <1>1, <1>3 DEF Notify, Ordered, Owned, Unheard, ReadsStand, Heard
<1>4. CASE taken[i].row # None
  <2>1. /\ \A j \in DOMAIN taken : taken'[j].row = taken[j].row
        /\ \A j \in DOMAIN taken \ {i} : taken'[j].heard = taken[j].heard
        /\ taken'[i].heard = taken[i].heard \cup {status}
    BY <1>2, <1>4 DEF Notify, Ordered, Typed, TypeOK, Message
  <2>2. hooks' = IF Rank(status) < Rank(taken[i].row) THEN {} ELSE {<<i, status>>}
    BY <1>1, <1>4 DEF Notify, Falls
  <2>3. taken[i].row \in Status
    BY <1>2, <1>4 DEF Message
  <2>4. Owned' /\ Unheard'
    BY <1>1, <1>2, <1>4, <2>1 DEF Ordered, Owned, Unheard
  <2>5. ReadsStand'
    BY <1>1, <1>2, <1>4, <2>1, <2>2, <2>3, RankIs DEF ReadsStand
  <2>6. Heard'
    BY <1>1, <1>2, <2>1, <2>2, <2>3, RankIs DEF Ordered, Heard
  <2> QED
    BY <2>4, <2>5, <2>6 DEF Ordered
<1> QED
  BY <1>3, <1>4

LEMMA OrderedWrite ==
    ASSUME Ordered, Typed', NEW h \in hooks, Write(h) PROVE Ordered'
<1>1. PICK i \in DOMAIN taken, status \in Status : h = <<i, status>>
  BY DEF Ordered, ReadsStand, Typed, TypeOK
<1>0. \A j \in DOMAIN taken : taken[j] \in Message
  BY DEF Ordered, Typed, TypeOK
<1>2. hooks' = {} /\ UNCHANGED session /\ hooks = {h}
  BY DEF Write, Ordered, ReadsStand
<1>3. /\ DOMAIN taken' = DOMAIN taken
      /\ \A j \in DOMAIN taken : taken'[j].heard = taken[j].heard
      /\ \A j \in DOMAIN taken \ {i} : taken'[j].row = taken[j].row
      /\ taken'[i].row = status
  <2>1. taken' = [taken EXCEPT ![i].row = status]
    BY <1>1 DEF Write
  <2> QED
    BY <1>0, <2>1 DEF Message
<1>4. /\ taken[i].row # None /\ taken[i].row \in Status
      /\ Rank(taken[i].row) <= Rank(status)
  <2>1. taken[h[1]].row # None /\ Rank(taken[h[1]].row) <= Rank(h[2])
    BY DEF Ordered, ReadsStand
  <2>2. taken[i].row \in Status \cup {None}
    BY <1>0 DEF Message
  <2> QED
    BY <1>1, <2>1, <2>2
<1>5. Owned' /\ Unheard'
  BY <1>1, <1>2, <1>3, <1>4, StatusesAreTold DEF Ordered, Owned, Unheard
<1>6. ReadsStand'
  BY <1>2 DEF ReadsStand
<1>7. ASSUME NEW j \in DOMAIN taken, taken'[j].row # None, NEW told \in taken[j].heard
      PROVE  Rank(told) <= Rank(taken'[j].row)
  <2>1. told \in Status
    BY <1>0 DEF Message
  <2>2. Rank(told) <= Rank(taken[j].row) \/ (j = i /\ told = status)
    BY <1>1, <1>2, <1>3, <1>4, <1>7 DEF Ordered, Heard
  <2> QED
    BY <1>3, <1>4, <2>1, <2>2, RankIs
<1> QED
  BY <1>3, <1>5, <1>6, <1>7 DEF Ordered, Heard

LEMMA OrderedNext == ASSUME Ordered, ~Overlap, [Next]_vars PROVE Ordered'
<1>1. Typed'
  BY TypedNext DEF Ordered
<1>2. ASSUME UNCHANGED <<taken, session, hooks>> PROVE Ordered'
  BY <1>1, <1>2 DEF Ordered, Owned, Unheard, ReadsStand, Heard
<1>3. ASSUME NEW l \in Lead, OptOut(l) PROVE Ordered'
  BY <1>2, <1>3 DEF OptOut
<1> QED
  BY <1>1, <1>2, <1>3, Others, OrderedMove, OrderedTakes, OrderedNotify, OrderedWrite DEF Ordered

\* If one webhook of statuses is served at a time, a row tells the furthest of those that found
\* it, in whatever order Meta tells them (OutboundStatusService.apply).
THEOREM FurthestStatus == ASSUME ~Overlap PROVE Spec => []StatusIsFurthest
<1>1. Init => Ordered
  BY TypedInit DEF Init, Ordered, Owned, Unheard, ReadsStand, Heard, Idle
<1>2. Ordered /\ [Next]_vars => Ordered'
  BY OrderedNext
<1>3. Ordered => StatusIsFurthest
  BY DEF Ordered, Heard, StatusIsFurthest
<1> QED
  BY <1>1, <1>2, <1>3, PTL DEF Spec

-----------------------------------------------------------------------------
(* Once per key, spaced, and within the cap.                                 *)

OneRunner == \A r, q \in Runner : r = q
Busy(s)   == session[s].pc \in {"next", "call", "claim"}

\* The worker numbers its keys by day or by window, and a person below zero.
Marks == \A s \in Session : Busy(s) =>
            IF s \in Runner THEN session[s].mark >= 0 /\ session[s].day = day
            ELSE session[s].mark < 0 /\ -session[s].mark <= events

Apart == \A s, t \in Session \ Runner :
            s # t /\ Busy(s) /\ Busy(t) => session[s].mark # session[t].mark

Numbered == \A i \in DOMAIN taken : -taken[i].key[3] <= events

\* The rows of a session are of its kind, and nothing has taken them yet.
Signed == \A s \in Session : \A i \in session[s].rows :
            ~taken[i].lost /\ (taken[i].key[3] >= 0 <=> s \in Runner)

\* A row is committed, lost, or of a session.
Placed == \A i \in DOMAIN taken :
            IF taken[i].row # None THEN ~taken[i].lost
            ELSE taken[i].lost \/ \E s \in Session : i \in session[s].rows

\* A person sends to one lead, with a key that nobody has used.
Single == \A s \in Session \ Runner : Busy(s) /\ session[s].todo # {} =>
            /\ session[s].pc = "next" /\ \E l \in Lead : session[s].todo = {l}
            /\ \A i \in DOMAIN taken : taken[i].key[3] # session[s].mark

\* Whoever calls has a key that no row has, and whoever claims has its row.
Clear   == \A s \in Session : At(s, "call") =>
             \A i \in DOMAIN taken : taken[i].key = KeyOf(s) => taken[i].lost
Claimed == \A s \in Session : At(s, "claim") =>
             \E i \in session[s].rows : taken[i].key = KeyOf(s)

KeyOnce == \A i, j \in DOMAIN taken :
             i # j /\ taken[i].key = taken[j].key => taken[i].lost \/ taken[j].lost

\* Who does nothing has no rows.
Restful == \A s \in Session : session[s].pc \in {"idle", "between"} => session[s].rows = {}

Once == Ordered /\ Marks /\ Apart /\ Numbered /\ Signed /\ Placed /\ Single /\ Clear /\ Claimed
        /\ KeyOnce /\ Restful

\* What becomes of the rows there are: a message keeps its key, its lead and its day, what is
\* lost stays lost, and what failed stays failed.
Same(i) == /\ taken'[i].key = taken[i].key /\ taken'[i].lead = taken[i].lead
           /\ taken'[i].day = taken[i].day
           /\ taken[i].lost => taken'[i].lost
           /\ taken[i].row = "failed" => taken'[i].row = "failed"

LEMMA SentHas ==
    ASSUME Typed, NEW s \in Session, At(s, "call"), NEW b \in BOOLEAN, taken' = Sent(s, b)
    PROVE  /\ Len(taken) + 1 \notin DOMAIN taken
           /\ DOMAIN taken' = DOMAIN taken \cup {Len(taken) + 1}
           /\ \A i \in DOMAIN taken : taken'[i] = taken[i]
           /\ taken'[Len(taken) + 1] =
                [lead |-> session[s].lead, key |-> KeyOf(s), row |-> None,
                 day |-> session[s].day, lost |-> b, heard |-> {}]
<1> DEFINE m == [lead |-> session[s].lead, key |-> KeyOf(s), row |-> None,
                 day |-> session[s].day, lost |-> b, heard |-> {}]
<1>1. session[s] \in Work /\ session[s].lead \in Lead
  BY DEF Typed, TypeOK, Addressed, At
<1>2. m \in Message
  BY <1>1 DEF Work, Message, KeyOf, Key
<1> HIDE DEF m
<1>3. taken' = Append(taken, m) /\ taken \in Seq(Message)
  BY DEF Sent, m, Typed, TypeOK
<1>4. taken' = Append(taken, m) => taken'[Len(taken) + 1] = m
  BY <1>2, <1>3
<1> QED
  BY <1>2, <1>3, <1>4 DEF m

LEMMA ChangedIs ==
    ASSUME Typed, NEW S
    PROVE  LET f == [i \in DOMAIN taken |-> IF i \in S THEN [taken[i] EXCEPT !.row = "sent"]
                                            ELSE taken[i]]
               g == [i \in DOMAIN taken |-> IF i \in S THEN [taken[i] EXCEPT !.lost = TRUE]
                                            ELSE taken[i]]
           IN \A i \in DOMAIN taken :
                /\ f[i].key = taken[i].key /\ f[i].lead = taken[i].lead /\ f[i].day = taken[i].day
                /\ f[i].lost = taken[i].lost
                /\ f[i].row = IF i \in S THEN "sent" ELSE taken[i].row
                /\ g[i].key = taken[i].key /\ g[i].lead = taken[i].lead /\ g[i].day = taken[i].day
                /\ g[i].row = taken[i].row
                /\ g[i].lost = (i \in S \/ taken[i].lost)
<1>1. \A i \in DOMAIN taken : taken[i] \in Message
  BY DEF Typed, TypeOK
<1> QED
  BY <1>1 DEF Message

\* What a job or a request does to the rows, short of a sending.
LEMMA MovedRows ==
    ASSUME Ordered, NEW s \in Session, Moves(s)
    PROVE  /\ DOMAIN taken' = DOMAIN taken
           /\ \A i \in DOMAIN taken : /\ Same(i)
                                      /\ taken'[i].lost => taken[i].lost \/ i \in session[s].rows
           /\ \/ taken' = taken
              \/ session'[s].rows = {} /\ session'[s].pc \in {"idle", "between"}
           /\ \A i \in DOMAIN taken :
                 \/ /\ taken'[i].row = taken[i].row
                    /\ i \in session[s].rows /\ taken' # taken => taken'[i].lost
                 \/ /\ i \in session[s].rows /\ taken'[i].row = "sent"
                    /\ taken'[i].lost = taken[i].lost
           /\ events' >= events /\ day' = day
<1>0. Typed /\ events \in Nat /\ session \in [Session -> Work]
  BY DEF Ordered, Typed, TypeOK
<1>1. CASE Remind(s) \/ Reactivate(s) \/ Refuse(s) \/ Claim(s)
  <2>1. taken' = taken /\ events' >= events /\ day' = day
    BY <1>0, <1>1 DEF Remind, Reactivate, Refuse, Claim, Fault, Happens, leads
  <2> QED
    BY <2>1 DEF Same
<1>2. ASSUME NEW l \in Lead, Send(s, l) \/ \E kind \in Kind : SendByHand(s, l, kind)
      PROVE  taken' = taken /\ events' >= events /\ day' = day
  <2>1. CASE Send(s, l)
    <3>1. taken' = taken /\ events' = events /\ day' = day
      BY <2>1 DEF Send, leads
    <3> QED
      BY <1>0, <3>1
  <2>2. ASSUME NEW kind \in Kind, SendByHand(s, l, kind)
        PROVE  taken' = taken /\ events' >= events /\ day' = day
    <3>1. taken' = taken /\ events' = events + 1 /\ day' = day
      BY <2>2 DEF SendByHand, Happens, leads
    <3> QED
      BY <1>0, <3>1
  <2> QED
    BY <1>2, <2>1, <2>2
<1>3. CASE Commit(s)
  <2>1. taken' = [i \in DOMAIN taken |-> IF i \in session[s].rows
                     THEN [taken[i] EXCEPT !.row = "sent"] ELSE taken[i]]
    BY <1>3 DEF Commit
  <2>2. \A i \in session[s].rows : i \in DOMAIN taken /\ taken[i].row = None
    BY DEF Ordered, Owned
  <2>3. session'[s].rows = {} /\ session'[s].pc \in {"idle", "between"}
    BY <1>0, <1>3, EndedIs DEF Commit
  <2>4. events' = events /\ day' = day
    BY <1>3 DEF Commit, leads
  <2>5. DOMAIN taken' = DOMAIN taken
    BY <2>1
  <2>6. \A i \in DOMAIN taken :
          /\ taken'[i].key = taken[i].key /\ taken'[i].lead = taken[i].lead
          /\ taken'[i].day = taken[i].day /\ taken'[i].lost = taken[i].lost
          /\ taken'[i].row = IF i \in session[s].rows THEN "sent" ELSE taken[i].row
    BY <1>0, <2>1, ChangedIs
  <2>8. None # "failed"
    BY StatusesAreTold DEF Status
  <2>7. \A i \in DOMAIN taken : Same(i)
    BY <2>2, <2>6, <2>8 DEF Same
  <2> QED
    BY <1>0, <2>3, <2>4, <2>5, <2>6, <2>7
<1>4. CASE Fails(s)
  <2>1. taken' = [i \in DOMAIN taken |-> IF i \in session[s].rows
                     THEN [taken[i] EXCEPT !.lost = TRUE] ELSE taken[i]]
    BY <1>4 DEF Fails, Lost
  <2>3. session'[s].rows = {} /\ session'[s].pc \in {"idle", "between"}
    BY <1>0, <1>4, EndedIs DEF Fails
  <2>4. events' >= events /\ day' = day
    BY <1>0, <1>4 DEF Fails, Fault, Happens, leads
  <2>5. DOMAIN taken' = DOMAIN taken
    BY <2>1
  <2>6. \A i \in DOMAIN taken :
          /\ taken'[i].key = taken[i].key /\ taken'[i].lead = taken[i].lead
          /\ taken'[i].day = taken[i].day /\ taken'[i].row = taken[i].row
          /\ taken'[i].lost = (i \in session[s].rows \/ taken[i].lost)
    BY <1>0, <2>1, ChangedIs
  <2>7. \A i \in DOMAIN taken : Same(i)
    BY <2>6 DEF Same
  <2> QED
    BY <2>3, <2>4, <2>5, <2>6, <2>7
<1>5. ASSUME taken' = taken, events' >= events, day' = day
      PROVE  \A i \in DOMAIN taken : Same(i)
  BY <1>5 DEF Same
<1> QED
  BY <1>1, <1>2, <1>3, <1>4, <1>5 DEF Moves

LEMMA KeysAre ==
    ASSUME Typed, NEW i \in DOMAIN taken
    PROVE  taken[i] \in Message /\ taken[i].key[3] \in Int
<1>1. taken[i] \in Message
  BY DEF Typed, TypeOK
<1>2. taken[i].key \in Kind \X Lead \X Int
  BY <1>1 DEF Message, Key
<1> QED
  BY <1>1, <1>2

\* A step of a session that leaves all rows where they are.
LEMMA OnceStays ==
    ASSUME Once, Ordered', NEW s \in Session, taken' = taken, events' >= events, day' = day,
           \A t \in Session \ {s} : session'[t] = session[t],
           session'[s].rows = session[s].rows,
           session'[s].pc \in {"next", "call"},
           IF s \in Runner THEN session'[s].mark >= 0 /\ session'[s].day = day
           ELSE session'[s].mark < 0 /\ -session'[s].mark <= events',
           s \notin Runner => \A t \in Session \ Runner :
               t # s /\ Busy(t) => session[t].mark # session'[s].mark,
           s \notin Runner /\ session'[s].todo # {} =>
               /\ session'[s].pc = "next" /\ \E l \in Lead : session'[s].todo = {l}
               /\ \A i \in DOMAIN taken : taken[i].key[3] # session'[s].mark,
           session'[s].pc = "call" => \A i \in DOMAIN taken :
               taken[i].key = <<session'[s].kind, session'[s].lead, session'[s].mark>>
                 => taken[i].lost
    PROVE  Once'
<1>0. /\ session \in [Session -> Work] /\ events \in Nat /\ events' \in Nat
      /\ \A i \in DOMAIN taken : taken[i].key[3] \in Int
  BY KeysAre DEF Once, Ordered, Typed, TypeOK
<1>1. Marks'
  <2>1. ASSUME NEW t \in Session, t # s, Busy(t)'
        PROVE  (IF t \in Runner THEN session[t].mark >= 0 /\ session[t].day = day
                ELSE session[t].mark < 0 /\ -session[t].mark <= events')
    <3>1. Busy(t) /\ session[t].mark \in Int
      BY <1>0, <2>1 DEF Busy, Work
    <3> QED
      BY <1>0, <2>1, <3>1 DEF Once, Marks
  <2> QED
    BY <2>1 DEF Marks
<1>2. Apart'
  BY DEF Once, Apart, Busy
<1>3. Numbered'
  BY <1>0 DEF Once, Numbered
<1>4. Signed' /\ Placed' /\ KeyOnce' /\ Restful'
  BY DEF Once, Signed, Placed, KeyOnce, Restful
<1>5. Single'
  BY DEF Once, Single, Busy
<1>6. Clear' /\ Claimed'
  BY DEF Once, Clear, Claimed, At, KeyOf
<1> QED
  BY <1>1, <1>2, <1>3, <1>4, <1>5, <1>6 DEF Once

LEMMA OnceBegin ==
    ASSUME Once, Ordered', NEW r \in Runner, Remind(r) \/ Reactivate(r) PROVE Once'
<1>0. session \in [Session -> Work] /\ r \in Session /\ Typed /\ day \in Nat
  BY DEF Session, Once, Ordered, Typed, TypeOK
<1>1. taken' = taken /\ events' >= events /\ day' = day
  BY <1>0 DEF Remind, Reactivate, leads, Once, Ordered, Typed, TypeOK
<1>2. \A t \in Session \ {r} : session'[t] = session[t]
  BY <1>0 DEF Remind, Reactivate
<1>3. session'[r].rows = {} /\ session'[r].pc = "next" /\ session'[r].day = day
      /\ session'[r].mark >= 0
  <2>1. CASE Remind(r)
    <3>1. DueWindow(day) >= 0
      BY <1>0, <2>1, DueIsInt DEF Remind, Typed
    <3>2. session'[r] = [Idle EXCEPT !.pc = "next", !.todo = live, !.day = day,
                                     !.mark = DueWindow(day)]
      BY <1>0, <2>1 DEF Remind
    <3> QED
      BY <3>1, <3>2 DEF Idle
  <2>2. CASE Reactivate(r)
    BY <1>0, <2>2 DEF Reactivate, Idle
  <2> QED
    BY <2>1, <2>2
<1>4. session[r].rows = {}
  BY <1>0 DEF Once, Restful, Remind, Reactivate, At
<1> QED
  BY <1>0, <1>1, <1>2, <1>3, <1>4, OnceStays

LEMMA OnceByHand ==
    ASSUME Once, Ordered', NEW d \in Desk, NEW l \in Lead, NEW kind \in Kind,
           SendByHand(d, l, kind)
    PROVE  Once'
<1>0. session \in [Session -> Work] /\ d \in Session /\ d \notin Runner /\ events \in Nat
  BY SessionsDiffer DEF Session, Once, Ordered, Typed, TypeOK
<1>1. taken' = taken /\ events' = events + 1 /\ day' = day
  BY DEF SendByHand, Happens, leads
<1>2. \A t \in Session \ {d} : session'[t] = session[t]
  BY <1>0 DEF SendByHand
<1>3. session'[d].rows = {} /\ session'[d].pc = "next" /\ session'[d].mark = -(events + 1)
      /\ session'[d].todo = {l}
  BY <1>0 DEF SendByHand, Idle
<1>4. session[d].rows = {}
  BY <1>0 DEF Once, Restful, SendByHand, At
<1>5. \A i \in DOMAIN taken : taken[i].key[3] # session'[d].mark
  <2>1. ASSUME NEW i \in DOMAIN taken PROVE taken[i].key[3] # -(events + 1)
    <3>1. taken[i].key[3] \in Int /\ -taken[i].key[3] <= events
      BY KeysAre DEF Once, Numbered, Ordered
    <3> QED
      BY <1>0, <3>1
  <2> QED
    BY <1>3, <2>1
<1>6. ASSUME NEW t \in Session \ Runner, Busy(t) PROVE session[t].mark # session'[d].mark
  <2>1. session[t].mark \in Int /\ -session[t].mark <= events
    BY <1>0, <1>6 DEF Once, Marks, Work
  <2> QED
    BY <1>0, <1>3, <2>1
<1>7. session'[d].mark < 0 /\ -session'[d].mark <= events' /\ events' >= events
  BY <1>0, <1>1, <1>3
<1> QED
  BY <1>0, <1>1, <1>2, <1>3, <1>4, <1>5, <1>6, <1>7, OnceStays

\* What a session does with a lead.
LEMMA SendIs ==
    ASSUME Typed, NEW s \in Session, NEW l \in Lead, Send(s, l)
    PROVE  /\ session[s].pc = "next" /\ l \in session[s].todo
           /\ session'[s].kind = session[s].kind /\ session'[s].mark = session[s].mark
           /\ session'[s].day = session[s].day /\ session'[s].budget = session[s].budget
           /\ session'[s].rows = session[s].rows
           /\ session'[s].todo = session[s].todo \ {l} /\ session'[s].lead = l
           /\ session'[s].pc \in {"next", "call"}
           /\ session'[s].pc = "call" =>
                 /\ Eligible(s, l)
                 /\ ~Used(s, <<session[s].kind, l, session[s].mark>>)
           /\ \A t \in Session \ {s} : session'[t] = session[t]
           /\ taken' = taken /\ events' = events /\ day' = day
<1> DEFINE mine == [session[s] EXCEPT !.todo = session[s].todo \ {l}, !.lead = l]
           goes == [mine EXCEPT !.pc = "call"]
<1>1. session \in [Session -> Work] /\ session[s] \in Work /\ session[s].pc = "next"
  BY DEF Typed, TypeOK, Send, At
<1>2. /\ mine.pc = "next" /\ mine.kind = session[s].kind /\ mine.mark = session[s].mark
      /\ mine.day = session[s].day /\ mine.budget = session[s].budget
      /\ mine.rows = session[s].rows /\ mine.todo = session[s].todo \ {l} /\ mine.lead = l
      /\ DOMAIN mine = DOMAIN session[s] /\ "pc" \in DOMAIN mine
  BY <1>1 DEF Work
<1>3. \/ session' = [session EXCEPT ![s] = mine]
      \/ /\ session' = [session EXCEPT ![s] = goes]
         /\ Eligible(s, l) /\ ~Used(s, <<mine.kind, l, mine.mark>>)
  BY DEF Send
<1> HIDE DEF mine
<1>4. /\ goes.pc = "call" /\ goes.kind = mine.kind /\ goes.mark = mine.mark
      /\ goes.day = mine.day /\ goes.budget = mine.budget
      /\ goes.rows = mine.rows /\ goes.todo = mine.todo /\ goes.lead = mine.lead
  BY <1>2
<1> HIDE DEF goes
<1>5. session'[s] = mine \/ (session'[s] = goes /\ Eligible(s, l)
                              /\ ~Used(s, <<mine.kind, l, mine.mark>>))
  BY <1>1, <1>3
<1>6. \A t \in Session \ {s} : session'[t] = session[t]
  BY <1>1, <1>3
<1>7. taken' = taken /\ events' = events /\ day' = day /\ l \in session[s].todo
  BY DEF Send, leads
<1> QED
  BY <1>1, <1>2, <1>4, <1>5, <1>6, <1>7

LEMMA OnceSend ==
    ASSUME Once, Ordered', OneRunner, NEW s \in Session, NEW l \in Lead, Send(s, l) PROVE Once'
<1>0. Typed /\ session \in [Session -> Work] /\ events \in Nat /\ Busy(s)
  BY SendIs DEF Once, Ordered, Typed, TypeOK, Busy
<1>1. ASSUME session'[s].pc = "call", NEW i \in DOMAIN taken,
             taken[i].key = <<session[s].kind, l, session[s].mark>>, ~taken[i].lost
      PROVE  FALSE
  <2>1. taken[i].key[3] = session[s].mark
    BY <1>1
  <2>2. ~Used(s, <<session[s].kind, l, session[s].mark>>)
    BY <1>0, <1>1, SendIs
  <2>3. CASE s \in Runner
    <3>1. session[s].mark >= 0
      BY <1>0, <2>3 DEF Once, Marks
    <3>2. taken[i].row # None \/ \E t \in Session : i \in session[t].rows
      BY <1>1 DEF Once, Placed
    <3>3. ASSUME NEW t \in Session, i \in session[t].rows PROVE t = s
      BY <2>1, <2>3, <3>1, <3>3 DEF Once, Signed, OneRunner
    <3> QED
      BY <1>1, <2>2, <3>2, <3>3 DEF Used, Seen
  <2>4. CASE s \notin Runner
    BY <1>0, <1>1, <2>1, <2>4, SendIs DEF Once, Single
  <2> QED
    BY <2>3, <2>4
<1>2. IF s \in Runner THEN session[s].mark >= 0 /\ session[s].day = day
      ELSE session[s].mark < 0 /\ -session[s].mark <= events
  BY <1>0 DEF Once, Marks
<1>3. ASSUME s \notin Runner PROVE session'[s].todo = {}
  <2>1. l \in session[s].todo /\ session'[s].todo = session[s].todo \ {l}
    BY <1>0, SendIs
  <2>2. PICK m \in Lead : session[s].todo = {m}
    BY <1>0, <1>3, <2>1 DEF Once, Single
  <2> QED
    BY <2>1, <2>2
<1>4. s \notin Runner => \A t \in Session \ Runner :
               t # s /\ Busy(t) => session[t].mark # session[s].mark
  BY <1>0 DEF Once, Apart
<1>5. taken' = taken /\ events' >= events /\ day' = day
  <2>1. taken' = taken /\ events' = events /\ day' = day
    BY <1>0, SendIs
  <2> QED
    BY <1>0, <2>1
<1>6. /\ session'[s].kind = session[s].kind /\ session'[s].mark = session[s].mark
      /\ session'[s].day = session[s].day /\ session'[s].rows = session[s].rows
      /\ session'[s].lead = l /\ session'[s].pc \in {"next", "call"}
      /\ \A t \in Session \ {s} : session'[t] = session[t]
  BY <1>0, SendIs
<1>7. session'[s].pc = "call" => \A i \in DOMAIN taken :
         taken[i].key = <<session'[s].kind, session'[s].lead, session'[s].mark>> => taken[i].lost
  BY <1>1, <1>6
<1>8. IF s \in Runner THEN session'[s].mark >= 0 /\ session'[s].day = day
      ELSE session'[s].mark < 0 /\ -session'[s].mark <= events'
  BY <1>0, <1>2, <1>6, SendIs
<1> QED
  BY <1>3, <1>4, <1>5, <1>6, <1>7, <1>8, OnceStays

\* A session that calls, and one that claims, goes back to its loop.
LEMMA OnceRefuse ==
    ASSUME Once, Ordered', NEW s \in Session, Refuse(s) PROVE Once'
<1>0. Typed /\ session \in [Session -> Work] /\ events \in Nat /\ Busy(s) /\ session[s].pc = "call"
  BY DEF Once, Ordered, Typed, TypeOK, Busy, Refuse, At
<1>1. taken' = taken /\ events' = events + 1 /\ day' = day
  BY DEF Refuse, Fault, Happens, leads
<1>2. session' = [session EXCEPT ![s].pc = "next"]
  BY DEF Refuse
<1>3. /\ session'[s].mark = session[s].mark /\ session'[s].day = session[s].day
      /\ session'[s].rows = session[s].rows /\ session'[s].todo = session[s].todo
      /\ session'[s].pc = "next"
      /\ \A t \in Session \ {s} : session'[t] = session[t]
  BY <1>0, <1>2 DEF Work
<1>4. events' >= events
  BY <1>0, <1>1
<1>5. IF s \in Runner THEN session'[s].mark >= 0 /\ session'[s].day = day
      ELSE session'[s].mark < 0 /\ -session'[s].mark <= events'
  <2>1. session[s].mark \in Int
    BY <1>0 DEF Work
  <2> QED
    BY <1>0, <1>1, <1>3, <2>1 DEF Once, Marks
<1>6. s \notin Runner => \A t \in Session \ Runner :
               t # s /\ Busy(t) => session[t].mark # session[s].mark
  BY <1>0 DEF Once, Apart
<1>7. s \notin Runner => session[s].todo = {}
  BY <1>0 DEF Once, Single
<1> QED
  BY <1>1, <1>3, <1>4, <1>5, <1>6, <1>7, OnceStays

LEMMA ClaimIs ==
    ASSUME Once, NEW s \in Session, Claim(s)
    PROVE  /\ session[s].pc = "claim"
           /\ session'[s].kind = session[s].kind /\ session'[s].mark = session[s].mark
           /\ session'[s].day = session[s].day
           /\ session'[s].budget = IF session[s].budget = 0 THEN 0 ELSE session[s].budget - 1
           /\ session'[s].rows = session[s].rows /\ session'[s].todo = session[s].todo
           /\ session'[s].lead = session[s].lead
           /\ session'[s].pc = "next"
           /\ \A t \in Session \ {s} : session'[t] = session[t]
           /\ taken' = taken /\ events' = events /\ day' = day
<1> DEFINE j == [session[s] EXCEPT !.pc = "next"]
           b == IF session[s].budget = 0 THEN 0 ELSE session[s].budget - 1
           w == [j EXCEPT !.budget = b]
<1>0. /\ session \in [Session -> Work] /\ session[s] \in Work
      /\ session[s].pc = "claim"
  BY DEF Once, Ordered, Typed, TypeOK, Claim, At
<1>1. ~ \E i \in DOMAIN taken : taken[i].row # None /\ taken[i].key = KeyOf(s)
  <2> SUFFICES ASSUME NEW i \in DOMAIN taken, taken[i].row # None, taken[i].key = KeyOf(s)
               PROVE  FALSE
    OBVIOUS
  <2>1. PICK n \in session[s].rows : taken[n].key = KeyOf(s)
    BY <1>0 DEF Once, Claimed, At
  <2>2. n \in DOMAIN taken /\ taken[n].row = None /\ ~taken[n].lost
    BY DEF Once, Signed, Ordered, Owned
  <2>3. ~taken[i].lost
    BY DEF Once, Placed
  <2> QED
    BY <2>1, <2>2, <2>3 DEF Once, KeyOnce
<1>2. session' = [session EXCEPT ![s] = w]
  <2>1. session' = [session EXCEPT ![s] =
              IF \E i \in DOMAIN taken : taken[i].row # None /\ taken[i].key = KeyOf(s)
              THEN [Idle EXCEPT !.pc = After(s)] ELSE w]
    BY DEF Claim
  <2> HIDE DEF w
  <2> QED
    BY <1>1, <2>1
<1>3. /\ j.pc = "next" /\ j.kind = session[s].kind /\ j.mark = session[s].mark
      /\ j.day = session[s].day /\ j.budget = session[s].budget /\ j.rows = session[s].rows
      /\ j.todo = session[s].todo /\ j.lead = session[s].lead
      /\ DOMAIN j = DOMAIN session[s] /\ "budget" \in DOMAIN j
  BY <1>0 DEF Work
<1> HIDE DEF j, b
<1>4. /\ w.pc = "next" /\ w.kind = session[s].kind /\ w.mark = session[s].mark
      /\ w.day = session[s].day /\ w.budget = b /\ w.rows = session[s].rows
      /\ w.todo = session[s].todo /\ w.lead = session[s].lead
  BY <1>3
<1> HIDE DEF w
<1>5. session'[s] = w /\ \A t \in Session \ {s} : session'[t] = session[t]
  BY <1>0, <1>2
<1>6. taken' = taken /\ events' = events /\ day' = day
  BY DEF Claim, leads
<1> QED
  BY <1>0, <1>4, <1>5, <1>6 DEF b

LEMMA OnceClaim ==
    ASSUME Once, Ordered', NEW s \in Session, Claim(s) PROVE Once'
<1>0. Busy(s) /\ session \in [Session -> Work] /\ events \in Nat
  BY ClaimIs DEF Once, Ordered, Typed, TypeOK, Busy
<1>1. taken' = taken /\ events' = events /\ day' = day
  BY ClaimIs
<1>2. events' >= events
  BY <1>0, <1>1
<1>3. IF s \in Runner THEN session[s].mark >= 0 /\ session[s].day = day
      ELSE session[s].mark < 0 /\ -session[s].mark <= events
  BY <1>0 DEF Once, Marks
<1>4. s \notin Runner => \A t \in Session \ Runner :
               t # s /\ Busy(t) => session[t].mark # session[s].mark
  BY <1>0 DEF Once, Apart
<1>5. s \notin Runner => session[s].todo = {}
  BY <1>0, ClaimIs DEF Once, Single
<1>6. /\ session'[s].mark = session[s].mark /\ session'[s].day = session[s].day
      /\ session'[s].rows = session[s].rows /\ session'[s].todo = session[s].todo
      /\ session'[s].pc = "next"
      /\ \A t \in Session \ {s} : session'[t] = session[t]
  BY ClaimIs
<1> QED
  BY <1>1, <1>2, <1>3, <1>4, <1>5, <1>6, OnceStays

\* A session that ends, well or badly.
LEMMA OnceEnd ==
    ASSUME Once, Ordered', NEW s \in Session, Commit(s) \/ Fails(s) PROVE Once'
<1>0. /\ session \in [Session -> Work] /\ events \in Nat /\ events' \in Nat /\ Ordered /\ Typed
      /\ Moves(s)
  BY DEF Once, Ordered, Typed, TypeOK, Moves
<1>1. session'[s].pc \in {"idle", "between"} /\ session'[s].rows = {}
  <2>1. PICK pc \in {After(s), "idle"} : session' = [session EXCEPT ![s] = [Idle EXCEPT !.pc = pc]]
    BY DEF Commit, Fails
  <2> QED
    BY <1>0, <2>1, EndedIs
<1>2. \A t \in Session \ {s} : session'[t] = session[t]
  BY <1>0, Moved
<1>3. /\ DOMAIN taken' = DOMAIN taken /\ events' >= events /\ day' = day
      /\ \A i \in DOMAIN taken : /\ Same(i)
                                 /\ taken'[i].lost => taken[i].lost \/ i \in session[s].rows
  BY <1>0, MovedRows
<1>4. \A i \in DOMAIN taken :
         IF i \in session[s].rows
         THEN \/ taken'[i].row = "sent" /\ taken'[i].lost = taken[i].lost
              \/ taken'[i].row = taken[i].row /\ taken'[i].lost
         ELSE taken'[i].row = taken[i].row /\ taken'[i].lost = taken[i].lost
  <2>1. CASE Commit(s)
    <3>1. taken' = [i \in DOMAIN taken |-> IF i \in session[s].rows
                       THEN [taken[i] EXCEPT !.row = "sent"] ELSE taken[i]]
      BY <2>1 DEF Commit
    <3>2. \A i \in DOMAIN taken :
            /\ taken'[i].lost = taken[i].lost
            /\ taken'[i].row = IF i \in session[s].rows THEN "sent" ELSE taken[i].row
      BY <1>0, <3>1, ChangedIs
    <3> QED
      BY <3>2
  <2>2. CASE Fails(s)
    BY <1>0, <2>2, ChangedIs DEF Fails, Lost
  <2> QED
    BY <2>1, <2>2
<1>5. \A t \in Session \ {s} : \A i \in session[t].rows : i \notin session[s].rows
                                 /\ i \in DOMAIN taken
  BY <1>0 DEF Ordered, Owned
<1>6. Marks' /\ Apart' /\ Restful'
  <2>1. ASSUME NEW t \in Session, t # s, Busy(t)'
        PROVE  (IF t \in Runner THEN session[t].mark >= 0 /\ session[t].day = day
                ELSE session[t].mark < 0 /\ -session[t].mark <= events')
    <3>1. Busy(t) /\ session[t].mark \in Int
      BY <1>0, <1>2, <2>1 DEF Busy, Work
    <3> QED
      BY <1>0, <1>3, <2>1, <3>1 DEF Once, Marks
  <2>2. Marks'
    BY <1>1, <1>2, <1>3, <2>1 DEF Marks, Busy
  <2> QED
    BY <1>1, <1>2, <2>2 DEF Once, Apart, Busy, Restful
<1>7. Numbered'
  <2>1. ASSUME NEW i \in DOMAIN taken PROVE -taken'[i].key[3] <= events'
    <3>1. taken'[i].key = taken[i].key /\ taken[i].key[3] \in Int /\ -taken[i].key[3] <= events
      BY <1>0, <1>3, KeysAre DEF Same, Once, Numbered
    <3> QED
      BY <1>0, <1>3, <3>1
  <2> QED
    BY <1>3, <2>1 DEF Numbered
<1>8. Signed'
  BY <1>1, <1>2, <1>3, <1>4, <1>5 DEF Once, Signed, Same
<1>9. Placed'
  <2>1. ASSUME NEW i \in DOMAIN taken, taken'[i].row # None PROVE ~taken'[i].lost
    <3>1. CASE i \in session[s].rows
      <4>1. taken[i].row = None /\ ~taken[i].lost
        BY <1>0, <3>1 DEF Once, Signed, Ordered, Owned
      <4> QED
        BY <1>4, <2>1, <3>1, <4>1
    <3>2. CASE i \notin session[s].rows
      BY <1>4, <2>1, <3>2 DEF Once, Placed
    <3> QED
      BY <3>1, <3>2
  <2>2. ASSUME NEW i \in DOMAIN taken, taken'[i].row = None, ~taken'[i].lost
        PROVE  \E t \in Session : i \in session'[t].rows
    <3>1. i \notin session[s].rows
      <4>1. "sent" # None
        BY StatusesAreTold DEF Status
      <4> QED
        BY <1>4, <2>2, <4>1
    <3>2. PICK t \in Session : i \in session[t].rows
      BY <1>4, <2>2, <3>1 DEF Once, Placed
    <3> QED
      BY <1>2, <3>1, <3>2
  <2> QED
    BY <1>3, <2>1, <2>2 DEF Placed
<1>10. Single'
  BY <1>1, <1>2, <1>3 DEF Once, Single, Busy, Same
<1>11. Clear' /\ Claimed'
  <2>1. \A t \in Session \ {s} : KeyOf(t)' = KeyOf(t)
    BY <1>2 DEF KeyOf
  <2>2. Clear'
    BY <1>1, <1>2, <1>3, <2>1 DEF Once, Clear, At, Same
  <2>3. Claimed'
    BY <1>1, <1>2, <1>3, <1>5, <2>1 DEF Once, Claimed, At, Same
  <2> QED
    BY <2>2, <2>3
<1>12. KeyOnce'
  BY <1>3 DEF Once, KeyOnce, Same
<1> QED
  BY <1>6, <1>7, <1>8, <1>9, <1>10, <1>11, <1>12 DEF Once

\* What Meta takes is a row of the session that called, or lost.
LEMMA OnceTakes ==
    ASSUME Once, Ordered', OneRunner, NEW s \in Session, Take(s) \/ LoseAnswer(s)
    PROVE  Once'
<1> DEFINE n == Len(taken) + 1
<1>0. /\ session \in [Session -> Work] /\ events \in Nat /\ Ordered /\ Typed
      /\ At(s, "call") /\ Busy(s) /\ session[s].pc = "call"
  BY DEF Once, Ordered, Typed, TypeOK, Take, LoseAnswer, At, Busy
<1>1. PICK b \in BOOLEAN : taken' = Sent(s, b) /\ (b <=> ~Take(s))
  <2>1. CASE Take(s)
    BY <2>1 DEF Take
  <2>2. CASE ~Take(s)
    BY <2>2 DEF LoseAnswer
  <2> QED
    BY <2>1, <2>2
<1>2. /\ n \notin DOMAIN taken /\ DOMAIN taken' = DOMAIN taken \cup {n}
      /\ \A i \in DOMAIN taken : taken'[i] = taken[i]
      /\ taken'[n].key = KeyOf(s) /\ taken'[n].row = None /\ taken'[n].lost = b
  <2>1. taken'[n] = [lead |-> session[s].lead, key |-> KeyOf(s), row |-> None,
                     day |-> session[s].day, lost |-> b, heard |-> {}]
    BY <1>0, <1>1, SentHas
  <2>2. n \notin DOMAIN taken /\ DOMAIN taken' = DOMAIN taken \cup {n}
        /\ \A i \in DOMAIN taken : taken'[i] = taken[i]
    BY <1>0, <1>1, SentHas
  <2> HIDE DEF n
  <2> QED
    BY <2>1, <2>2
<1>3. /\ \A t \in Session \ {s} : session'[t] = session[t]
      /\ session'[s].mark = session[s].mark /\ session'[s].day = session[s].day
      /\ session'[s].kind = session[s].kind /\ session'[s].lead = session[s].lead
      /\ session'[s].todo = session[s].todo
      /\ IF b THEN session'[s].pc = "next" /\ session'[s].rows = session[s].rows
              ELSE session'[s].pc = "claim" /\ session'[s].rows = session[s].rows \cup {n}
  <2>1. CASE Take(s)
    <3>1. session' = [session EXCEPT ![s].pc = "claim", ![s].rows = @ \cup {n}]
      BY <2>1 DEF Take
    <3> HIDE DEF n
    <3> QED
      BY <1>0, <1>1, <2>1, <3>1 DEF Work
  <2>2. CASE ~Take(s)
    <3>1. session' = [session EXCEPT ![s].pc = "next"]
      BY <2>2 DEF LoseAnswer
    <3> HIDE DEF n
    <3> QED
      BY <1>0, <1>1, <2>2, <3>1 DEF Work
  <2> QED
    BY <2>1, <2>2
<1>4. events' \in Nat /\ events' >= events /\ day' = day
  <2>1. (events' = events \/ events' = events + 1) /\ day' = day
    BY DEF Take, LoseAnswer, Fault, Happens, leads
  <2> QED
    BY <1>0, <2>1
<1> HIDE DEF n
<1>5. KeyOf(s)[3] = session[s].mark
  BY DEF KeyOf
<1>6. IF s \in Runner THEN session[s].mark >= 0 /\ session[s].day = day
      ELSE session[s].mark < 0 /\ -session[s].mark <= events
  BY <1>0 DEF Once, Marks
<1>7. \A t \in Session : KeyOf(t)' = KeyOf(t)
  BY <1>3 DEF KeyOf
<1>8. Marks' /\ Apart' /\ Restful'
  <2>1. ASSUME NEW t \in Session, Busy(t)'
        PROVE  (IF t \in Runner THEN session'[t].mark >= 0 /\ session'[t].day = day
                ELSE session'[t].mark < 0 /\ -session'[t].mark <= events')
    <3>1. Busy(t) /\ session[t].mark \in Int /\ session'[t].mark = session[t].mark
          /\ session'[t].day = session[t].day
      BY <1>0, <1>3, <2>1 DEF Busy, Work
    <3> QED
      BY <1>0, <1>4, <2>1, <3>1 DEF Once, Marks
  <2>2. Marks'
    BY <1>4, <2>1 DEF Marks
  <2>3. \A t \in Session : Busy(t)' => Busy(t) /\ session'[t].mark = session[t].mark
    BY <1>0, <1>3 DEF Busy
  <2>4. Apart'
    BY <2>3 DEF Once, Apart
  <2>5. Restful'
    BY <1>3 DEF Once, Restful
  <2> QED
    BY <2>2, <2>4, <2>5
<1>9. Numbered'
  <2>1. ASSUME NEW i \in DOMAIN taken PROVE -taken'[i].key[3] <= events'
    <3>1. taken'[i].key = taken[i].key /\ taken[i].key[3] \in Int /\ -taken[i].key[3] <= events
      BY <1>0, <1>2, KeysAre DEF Once, Numbered
    <3> QED
      BY <1>0, <1>4, <3>1
  <2>2. -taken'[n].key[3] <= events'
    <3>1. session[s].mark \in Int
      BY <1>0 DEF Work
    <3> QED
      BY <1>0, <1>2, <1>4, <1>5, <1>6, <3>1
  <2> QED
    BY <1>2, <2>1, <2>2 DEF Numbered
<1>10. Signed'
  <2>1. \A t \in Session : \A i \in session[t].rows : i \in DOMAIN taken
    BY <1>0 DEF Ordered, Owned
  <2>2. ~b => (taken'[n].key[3] >= 0 <=> s \in Runner)
    <3>1. session[s].mark \in Int
      BY <1>0 DEF Work
    <3> QED
      BY <1>2, <1>5, <1>6, <3>1
  <2> QED
    BY <1>2, <1>3, <2>1, <2>2 DEF Once, Signed
<1>11. Placed'
  <2>1. ASSUME NEW i \in DOMAIN taken, NEW t \in Session, i \in session[t].rows
        PROVE  i \in session'[t].rows
    BY <1>3, <2>1
  <2>2. \A i \in DOMAIN taken : IF taken'[i].row # None THEN ~taken'[i].lost
            ELSE taken'[i].lost \/ \E t \in Session : i \in session'[t].rows
    BY <1>2, <2>1 DEF Once, Placed
  <2>3. taken'[n].lost \/ n \in session'[s].rows
    BY <1>2, <1>3
  <2> QED
    BY <1>2, <2>2, <2>3 DEF Placed
<1>12. Single'
  <2>1. ASSUME NEW t \in Session \ Runner, Busy(t)', session'[t].todo # {}
        PROVE  /\ t # s /\ session[t].pc = "next"
               /\ taken'[n].key[3] # session[t].mark
    <3>1. Busy(t) /\ session[t].todo # {}
      BY <1>0, <1>3, <2>1 DEF Busy
    <3>2. session[t].pc = "next" /\ t # s
      BY <1>0, <3>1 DEF Once, Single
    <3>3. s \notin Runner => session[s].mark # session[t].mark
      BY <1>0, <3>1, <3>2 DEF Once, Apart
    <3>4. session[t].mark < 0 /\ session[t].mark \in Int /\ session[s].mark \in Int
      BY <1>0, <3>1 DEF Once, Marks, Work
    <3> QED
      BY <1>2, <1>5, <1>6, <3>2, <3>3, <3>4
  <2> QED
    BY <1>2, <1>3, <2>1 DEF Once, Single, Busy
<1>13. Clear'
  <2>1. ASSUME NEW t \in Session, At(t, "call")'
        PROVE  \A i \in DOMAIN taken' : taken'[i].key = KeyOf(t) => taken'[i].lost
    <3>1. t # s /\ At(t, "call") /\ Busy(t)
      BY <1>3, <2>1 DEF At, Busy
    <3>2. KeyOf(t)[3] = session[t].mark
      BY DEF KeyOf
    <3>3. session[t].mark # session[s].mark
      <4>1. session[t].mark \in Int /\ session[s].mark \in Int
        BY <1>0 DEF Work
      <4>2. IF t \in Runner THEN session[t].mark >= 0 ELSE session[t].mark < 0
        BY <3>1 DEF Once, Marks
      <4>3. t \notin Runner \/ s \notin Runner
        BY <3>1 DEF OneRunner
      <4>4. t \notin Runner /\ s \notin Runner => session[t].mark # session[s].mark
        BY <1>0, <3>1 DEF Once, Apart
      <4> QED
        BY <1>6, <4>1, <4>2, <4>3, <4>4
    <3>4. taken'[n].key # KeyOf(t)
      BY <1>2, <1>5, <3>2, <3>3
    <3> QED
      BY <1>2, <3>1, <3>4 DEF Once, Clear
  <2> QED
    BY <1>7, <2>1 DEF Clear
<1>14. Claimed'
  <2>1. ASSUME NEW t \in Session, At(t, "claim")'
        PROVE  \E i \in session'[t].rows : taken'[i].key = KeyOf(t)
    <3>1. CASE t = s
      BY <1>2, <1>3, <2>1, <3>1 DEF At
    <3>2. CASE t # s
      <4>1. PICK i \in session[t].rows : taken[i].key = KeyOf(t)
        BY <1>3, <2>1, <3>2 DEF Once, Claimed, At
      <4>2. i \in DOMAIN taken
        BY <1>0, <4>1 DEF Ordered, Owned
      <4> QED
        BY <1>2, <1>3, <3>2, <4>1, <4>2
    <3> QED
      BY <3>1, <3>2
  <2> QED
    BY <1>7, <2>1 DEF Claimed
<1>15. KeyOnce'
  <2>1. \A i \in DOMAIN taken : taken[i].key = KeyOf(s) => taken[i].lost
    BY <1>0 DEF Once, Clear
  <2> QED
    BY <1>2, <2>1 DEF Once, KeyOnce
<1> QED
  BY <1>8, <1>9, <1>10, <1>11, <1>12, <1>13, <1>14, <1>15 DEF Once

\* Webhooks of statuses change rows, and the rest of the world changes none.
LEMMA NotifiedRows ==
    ASSUME Ordered, NEW i \in DOMAIN taken, NEW status \in Told, Notify(i, status)
    PROVE  /\ DOMAIN taken' = DOMAIN taken /\ session' = session /\ day' = day
           /\ events' = events + 1
           /\ \A j \in DOMAIN taken : Same(j) /\ taken'[j].lost = taken[j].lost
                                      /\ taken'[j].row = taken[j].row
<1>1. \A j \in DOMAIN taken : taken[j] \in Message
  BY DEF Ordered, Typed, TypeOK
<1>2. taken' = taken \/ taken' = [taken EXCEPT ![i].heard = @ \cup {status}]
  BY DEF Notify
<1>3. DOMAIN taken' = DOMAIN taken /\ session' = session /\ day' = day /\ events' = events + 1
  BY <1>2 DEF Notify, Happens, leads
<1>4. ASSUME NEW j \in DOMAIN taken
      PROVE  /\ taken'[j].lost = taken[j].lost /\ taken'[j].row = taken[j].row
             /\ taken'[j].key = taken[j].key /\ taken'[j].lead = taken[j].lead
             /\ taken'[j].day = taken[j].day
  BY <1>1, <1>2 DEF Message
<1> QED
  BY <1>3, <1>4 DEF Same

LEMMA WrittenRows ==
    ASSUME Ordered, NEW h \in hooks, Write(h)
    PROVE  /\ DOMAIN taken' = DOMAIN taken /\ session' = session /\ day' = day /\ events' = events
           /\ \A j \in DOMAIN taken : Same(j) /\ taken'[j].lost = taken[j].lost
                                      /\ (taken'[j].row = None <=> taken[j].row = None)
<1>1. \A j \in DOMAIN taken : taken[j] \in Message
  BY DEF Ordered, Typed, TypeOK
<1>2. PICK i \in DOMAIN taken, status \in Status : h = <<i, status>>
  BY DEF Ordered, ReadsStand, Typed, TypeOK
<1>3. taken[i].row # None /\ Rank(taken[i].row) <= Rank(status)
  <2>1. taken[h[1]].row # None /\ Rank(taken[h[1]].row) <= Rank(h[2])
    BY DEF Ordered, ReadsStand
  <2> QED
    BY <1>2, <2>1
<1>4. taken' = [taken EXCEPT ![i].row = status]
  BY <1>2 DEF Write
<1>5. ASSUME NEW j \in DOMAIN taken
      PROVE  /\ taken'[j].lost = taken[j].lost
             /\ taken'[j].key = taken[j].key /\ taken'[j].lead = taken[j].lead
             /\ taken'[j].day = taken[j].day
             /\ taken'[j].row = IF j = i THEN status ELSE taken[j].row
  BY <1>1, <1>4 DEF Message
<1>6. taken[i].row = "failed" => status = "failed"
  BY <1>2, <1>3 DEF Rank, Status
<1>7. DOMAIN taken' = DOMAIN taken /\ session' = session /\ day' = day /\ events' = events
  BY <1>4 DEF Write, leads
<1>8. \A j \in DOMAIN taken : Same(j)
  BY <1>5, <1>6 DEF Same
<1> QED
  BY <1>2, <1>3, <1>5, <1>7, <1>8, StatusesAreTold

LEMMA OnceRest ==
    ASSUME Once, Ordered', session' = session, DOMAIN taken' = DOMAIN taken, events' >= events,
           day' = day \/ \A r \in Runner : At(r, "idle"),
           \A j \in DOMAIN taken : /\ Same(j) /\ taken'[j].lost = taken[j].lost
                                   /\ taken'[j].row = None <=> taken[j].row = None
    PROVE  Once'
<1>0. session \in [Session -> Work] /\ events \in Nat /\ events' \in Nat /\ Typed /\ Ordered
  BY DEF Once, Ordered, Typed, TypeOK
<1>1. Marks'
  <2>1. ASSUME NEW t \in Session, Busy(t)
        PROVE  (IF t \in Runner THEN session[t].mark >= 0 /\ session[t].day = day'
                ELSE session[t].mark < 0 /\ -session[t].mark <= events')
    <3>1. session[t].mark \in Int
      BY <1>0 DEF Work
    <3>2. t \in Runner => day' = day
      BY <2>1 DEF Busy, At
    <3> QED
      BY <1>0, <2>1, <3>1, <3>2 DEF Once, Marks
  <2> QED
    BY <2>1 DEF Marks, Busy
<1>2. Numbered'
  <2>1. ASSUME NEW i \in DOMAIN taken PROVE -taken'[i].key[3] <= events'
    <3>1. taken'[i].key = taken[i].key /\ taken[i].key[3] \in Int /\ -taken[i].key[3] <= events
      BY <1>0, KeysAre DEF Once, Numbered, Same
    <3> QED
      BY <1>0, <3>1
  <2> QED
    BY <2>1 DEF Numbered
<1>3. Apart' /\ Restful' /\ KeyOnce'
  BY DEF Once, Apart, Restful, KeyOnce, Busy, Same
<1>4. \A t \in Session : \A i \in session[t].rows : i \in DOMAIN taken
  BY <1>0 DEF Ordered, Owned
<1>5. Signed' /\ Placed'
  BY <1>4 DEF Once, Signed, Placed, Same
<1>6. Single' /\ Clear' /\ Claimed'
  BY <1>4 DEF Once, Single, Clear, Claimed, Busy, At, KeyOf, Same
<1> QED
  BY <1>1, <1>2, <1>3, <1>5, <1>6 DEF Once

LEMMA OnceNext == ASSUME Once, ~Overlap, OneRunner, [Next]_vars PROVE Once'
<1>0. Ordered' /\ Ordered /\ Typed /\ events \in Nat
  BY OrderedNext DEF Once, Ordered, Typed, TypeOK
<1>1. ASSUME NEW s \in Session, Moves(s) PROVE Once'
  BY <1>0, <1>1, OnceBegin, OnceByHand, OnceSend, OnceRefuse, OnceClaim, OnceEnd DEF Moves
<1>2. ASSUME NEW s \in Session, Take(s) \/ LoseAnswer(s) PROVE Once'
  BY <1>0, <1>2, OnceTakes
<1>3. ASSUME NEW i \in DOMAIN taken, NEW status \in Told, Notify(i, status) PROVE Once'
  <2>1. events' >= events
    BY <1>0, <1>3, NotifiedRows
  <2> QED
    BY <1>0, <1>3, <2>1, NotifiedRows, OnceRest
<1>4. ASSUME NEW h \in hooks, Write(h) PROVE Once'
  <2>1. events' >= events
    BY <1>0, <1>4, WrittenRows
  <2> QED
    BY <1>0, <1>4, <2>1, WrittenRows, OnceRest
<1>5. ASSUME taken' = taken, session' = session, events' >= events,
             day' = day \/ \A r \in Runner : At(r, "idle")
      PROVE  Once'
  BY <1>0, <1>5, OnceRest DEF Same
<1>6. ASSUME UNCHANGED vars \/ NextDay
             \/ \E l \in Lead : OptOut(l) \/ LeadWrites(l) \/ Leave(l) \/ Revoke(l)
      PROVE  Once'
  <2>1. taken' = taken /\ session' = session /\ (events' = events \/ events' = events + 1)
        /\ (day' = day \/ \A r \in Runner : At(r, "idle"))
    BY <1>6 DEF vars, leads, NextDay, OptOut, LeadWrites, Leave, Revoke, Happens
  <2> QED
    BY <1>0, <1>5, <2>1
<1> QED
  BY <1>1, <1>2, <1>3, <1>4, <1>6 DEF Next, Jobs, Run, Moves, Session

\* A reactivation that is on its way keeps its distance to what the worker sent before.
Spaced == \A s \in Runner : At(s, "call") /\ session[s].kind = "reactivation" =>
            \A i \in Scheduled \ Forgotten :
                taken[i].lead = session[s].lead => day - taken[i].day >= Recontact

Spread == \A i \in Scheduled \ Forgotten, j \in Reactivations :
            i < j /\ taken[i].lead = taken[j].lead => taken[j].day - taken[i].day >= Recontact

\* The worker sees all that it sent and nothing took.
LEMMA SeenByRunner ==
    ASSUME Once, OneRunner, NEW s \in Runner, NEW i \in Scheduled \ Forgotten
    PROVE  i \in Seen(s) /\ StatusOf(i) \in Counted /\ i \in DOMAIN taken
<1>1. i \in DOMAIN taken /\ taken[i].key[3] >= 0 /\ ~taken[i].lost /\ taken[i].row # "failed"
  BY DEF Scheduled, Forgotten
<1>2. taken[i].row \in Status \cup {None}
  <2>1. taken[i] \in Message
    BY <1>1, KeysAre DEF Once, Ordered
  <2> QED
    BY <2>1 DEF Message
<1>3. ASSUME taken[i].row = None PROVE i \in session[s].rows
  <2>1. PICK t \in Session : i \in session[t].rows
    BY <1>1, <1>3 DEF Once, Placed
  <2> QED
    BY <1>1, <2>1 DEF Once, Signed, OneRunner
<1> QED
  BY <1>1, <1>2, <1>3 DEF Seen, StatusOf, Counted, Status

\* Rows that were forgotten, or not of the worker, stay so.
LEMMA StillForgotten ==
    ASSUME NEW i \in DOMAIN taken, Same(i), i \in DOMAIN taken'
    PROVE  /\ i \in (Scheduled \ Forgotten)' => i \in Scheduled \ Forgotten
           /\ i \in Reactivations' <=> i \in Reactivations
BY DEF Same, Scheduled, Forgotten, Reactivations

LEMMA SpacedMove ==
    ASSUME Once, ~Overlap, OneRunner, Spaced, Spread, NEW s \in Session, Moves(s)
    PROVE  Spaced' /\ Spread'
<1>1. /\ DOMAIN taken' = DOMAIN taken /\ day' = day
      /\ \A i \in DOMAIN taken : Same(i)
      /\ \A t \in Session \ {s} : session'[t] = session[t]
  BY MovedRows, Moved DEF Once, Ordered
<1>2. Spread'
  <2> SUFFICES ASSUME NEW i \in (Scheduled \ Forgotten)', NEW j \in Reactivations',
                      i < j, taken'[i].lead = taken'[j].lead
               PROVE  taken'[j].day - taken'[i].day >= Recontact
    BY DEF Spread
  <2>1. i \in DOMAIN taken /\ j \in DOMAIN taken
    BY <1>1 DEF Scheduled, Reactivations
  <2>2. i \in Scheduled \ Forgotten /\ j \in Reactivations
    BY <1>1, <2>1, StillForgotten
  <2>3. /\ taken'[i].lead = taken[i].lead /\ taken'[j].lead = taken[j].lead
        /\ taken'[i].day = taken[i].day /\ taken'[j].day = taken[j].day
    BY <1>1, <2>1 DEF Same
  <2> QED
    BY <2>2, <2>3 DEF Spread
<1>3. Spaced'
  <2> SUFFICES ASSUME NEW r \in Runner, At(r, "call")', session'[r].kind = "reactivation",
                      NEW i \in (Scheduled \ Forgotten)', taken'[i].lead = session'[r].lead
               PROVE  day - taken'[i].day >= Recontact
    BY <1>1 DEF Spaced
  <2>1. i \in DOMAIN taken /\ r \in Session
    BY <1>1 DEF Scheduled, Session
  <2>2. i \in Scheduled \ Forgotten /\ taken'[i].lead = taken[i].lead
        /\ taken'[i].day = taken[i].day
    BY <1>1, <2>1, StillForgotten DEF Same
  <2>3. CASE r # s
    BY <1>1, <2>1, <2>2, <2>3 DEF Spaced, At
  <2>4. CASE r = s
    <3>1. PICK l \in Lead : Send(s, l)
      <4>1. session'[s].pc = "call"
        BY <2>4 DEF At
      <4>2. ~(s \in Runner /\ (Remind(s) \/ Reactivate(s)))
        <5>1. ASSUME Remind(s) \/ Reactivate(s) PROVE session'[s].pc = "next"
          BY <2>1, <2>4, <5>1 DEF Remind, Reactivate, Idle, Once, Ordered, Typed, TypeOK
        <5> QED
          BY <4>1, <5>1
      <4>3. s \notin Desk
        BY <2>4, SessionsDiffer
      <4>4. ~Refuse(s)
        BY <4>1 DEF Refuse, Once, Ordered, Typed, TypeOK, Work
      <4>5. ~Claim(s)
        BY <4>1, ClaimIs
      <4>6. ~(Commit(s) \/ Fails(s))
        <5>1. ASSUME Commit(s) \/ Fails(s) PROVE session'[s].pc \in {"idle", "between"}
          <6>1. PICK pc \in {After(s), "idle"} :
                    session' = [session EXCEPT ![s] = [Idle EXCEPT !.pc = pc]]
            BY <5>1 DEF Commit, Fails
          <6>2. session \in [Session -> Work]
            BY DEF Once, Ordered, Typed, TypeOK
          <6> QED
            BY <6>1, <6>2, EndedIs
        <5> QED
          BY <4>1, <5>1
      <4> QED
        BY <4>2, <4>3, <4>4, <4>5, <4>6 DEF Moves
    <3>2. /\ session'[s].lead = l /\ session'[s].kind = session[s].kind
          /\ Eligible(s, l)
      BY <2>4, <3>1, SendIs DEF At, Once, Ordered
    <3>3. ~Recent(s, l)
      BY <2>4, <3>2 DEF Eligible
    <3>4. i \in Seen(s) /\ StatusOf(i) \in Counted /\ i \in DOMAIN taken
      BY <2>2, <2>4, SeenByRunner
    <3>5. ~(taken[i].day >= day - Recontact + 1)
      BY <2>2, <2>4, <3>2, <3>3, <3>4 DEF Recent, SentSince
    <3>6. taken[i].day \in Nat /\ day \in Nat /\ Recontact \in Nat
      <4>1. taken[i] \in Message
        BY <3>4, KeysAre DEF Once, Ordered
      <4> QED
        BY <4>1, DaysAreNats DEF Message, Once, Ordered, Typed, TypeOK
    <3> QED
      BY <2>2, <3>5, <3>6
  <2> QED
    BY <2>3, <2>4
<1> QED
  BY <1>2, <1>3

LEMMA SpacedTakes ==
    ASSUME Once, OneRunner, Spaced, Spread, NEW s \in Session, Take(s) \/ LoseAnswer(s)
    PROVE  Spaced' /\ Spread'
<1> DEFINE n == Len(taken) + 1
<1>0. Typed /\ At(s, "call") /\ session \in [Session -> Work] /\ Busy(s) /\ day' = day
  BY DEF Once, Ordered, Typed, TypeOK, Take, LoseAnswer, At, Busy, leads
<1>1. PICK b \in BOOLEAN : taken' = Sent(s, b)
  BY DEF Take, LoseAnswer
<1>2. /\ DOMAIN taken' = DOMAIN taken \cup {n} /\ n \notin DOMAIN taken
      /\ \A i \in DOMAIN taken : taken'[i] = taken[i] /\ i < n
      /\ taken'[n].key = KeyOf(s) /\ taken'[n].lead = session[s].lead
      /\ taken'[n].day = session[s].day
  <2>1. taken'[n] = [lead |-> session[s].lead, key |-> KeyOf(s), row |-> None,
                     day |-> session[s].day, lost |-> b, heard |-> {}]
    BY <1>0, <1>1, SentHas
  <2>2. n \notin DOMAIN taken /\ DOMAIN taken' = DOMAIN taken \cup {n}
        /\ \A i \in DOMAIN taken : taken'[i] = taken[i]
    BY <1>0, <1>1, SentHas
  <2>3. \A i \in DOMAIN taken : i < n
    BY <1>0 DEF Typed, TypeOK
  <2> HIDE DEF n
  <2> QED
    BY <2>1, <2>2, <2>3
<1> HIDE DEF n
<1>3. \A i \in DOMAIN taken : Same(i)
  BY <1>2 DEF Same
<1>4. ASSUME n \in Scheduled' PROVE s \in Runner /\ session[s].day = day
  <2>1. KeyOf(s)[3] = session[s].mark /\ session[s].mark \in Int
    BY <1>0 DEF KeyOf, Work
  <2>2. session[s].mark >= 0
    BY <1>2, <1>4, <2>1 DEF Scheduled
  <2> QED
    BY <1>0, <2>1, <2>2 DEF Once, Marks
<1>5. \A t \in Session : At(t, "call")' => t # s /\ At(t, "call") /\ session'[t] = session[t]
  <2>1. \/ session' = [session EXCEPT ![s].pc = "next"]
        \/ session' = [session EXCEPT ![s].pc = "claim", ![s].rows = @ \cup {Len(taken) + 1}]
    BY DEF Take, LoseAnswer
  <2>2. session'[s].pc # "call" /\ \A t \in Session \ {s} : session'[t] = session[t]
    BY <1>0, <2>1 DEF Work
  <2> QED
    BY <2>2 DEF At
<1>6. Spaced'
  <2> SUFFICES ASSUME NEW r \in Runner, At(r, "call")', session'[r].kind = "reactivation",
                      NEW i \in (Scheduled \ Forgotten)', taken'[i].lead = session'[r].lead
               PROVE  day - taken'[i].day >= Recontact
    BY <1>0 DEF Spaced
  <2>1. r \in Session /\ r # s /\ At(r, "call") /\ session'[r] = session[r]
    BY <1>5 DEF Session
  <2>2. i # n /\ i \in DOMAIN taken
    BY <1>2, <1>4, <2>1 DEF Scheduled, OneRunner
  <2>3. i \in Scheduled \ Forgotten
    BY <1>2, <1>3, <2>2, StillForgotten
  <2> QED
    BY <1>2, <2>1, <2>2, <2>3 DEF Spaced
<1>7. Spread'
  <2> SUFFICES ASSUME NEW i \in (Scheduled \ Forgotten)', NEW j \in Reactivations',
                      i < j, taken'[i].lead = taken'[j].lead
               PROVE  taken'[j].day - taken'[i].day >= Recontact
    BY DEF Spread
  <2>1. i \in DOMAIN taken' /\ j \in DOMAIN taken'
    BY DEF Scheduled, Reactivations
  <2>2. i \in DOMAIN taken
    <3>1. DOMAIN taken' \subseteq Nat /\ n \in Nat
      BY <1>0, <1>2 DEF Typed, TypeOK, n
    <3>2. j \in DOMAIN taken => j < n
      BY <1>2
    <3> QED
      BY <1>2, <2>1, <3>1, <3>2
  <2>3. i \in Scheduled \ Forgotten
    BY <1>2, <1>3, <2>2, StillForgotten
  <2>4. CASE j = n
    <3>1. j \in Scheduled' /\ taken'[j].key[1] = "reactivation"
      BY DEF Reactivations
    <3>2. session[s].kind = "reactivation"
      BY <1>2, <2>4, <3>1 DEF KeyOf
    <3>3. s \in Runner /\ session[s].day = day
      BY <1>4, <2>4, <3>1
    <3> QED
      BY <1>0, <1>2, <2>2, <2>3, <2>4, <3>2, <3>3 DEF Spaced
  <2>5. CASE j # n
    <3>1. j \in Reactivations
      BY <1>2, <1>3, <2>1, <2>5, StillForgotten
    <3> QED
      BY <1>2, <2>1, <2>2, <2>3, <2>5, <3>1 DEF Spread
  <2> QED
    BY <2>4, <2>5
<1> QED
  BY <1>6, <1>7

LEMMA SpacedRest ==
    ASSUME Once, Spaced, Spread, session' = session, DOMAIN taken' = DOMAIN taken,
           day' = day \/ \A r \in Runner : At(r, "idle"), \A i \in DOMAIN taken : Same(i)
    PROVE  Spaced' /\ Spread'
<1>1. \A i \in DOMAIN taken : /\ i \in (Scheduled \ Forgotten)' => i \in Scheduled \ Forgotten
                              /\ i \in Reactivations' <=> i \in Reactivations
                              /\ taken'[i].lead = taken[i].lead /\ taken'[i].day = taken[i].day
  BY StillForgotten DEF Same
<1>2. Scheduled' \subseteq DOMAIN taken /\ Reactivations' \subseteq DOMAIN taken
  BY DEF Scheduled, Reactivations
<1>3. \A r \in Runner : At(r, "call") => day' = day
  BY DEF At
<1> QED
  BY <1>1, <1>2, <1>3 DEF Spaced, Spread, At

LEMMA SpacedNext ==
    ASSUME Once, ~Overlap, OneRunner, Spaced, Spread, [Next]_vars PROVE Spaced' /\ Spread'
<1>0. Ordered
  BY DEF Once
<1>1. ASSUME NEW s \in Session, Moves(s) PROVE Spaced' /\ Spread'
  BY <1>1, SpacedMove
<1>2. ASSUME NEW s \in Session, Take(s) \/ LoseAnswer(s) PROVE Spaced' /\ Spread'
  BY <1>2, SpacedTakes
<1>3. ASSUME NEW i \in DOMAIN taken, NEW status \in Told, Notify(i, status)
      PROVE  Spaced' /\ Spread'
  BY <1>0, <1>3, NotifiedRows, SpacedRest
<1>4. ASSUME NEW h \in hooks, Write(h) PROVE Spaced' /\ Spread'
  BY <1>0, <1>4, WrittenRows, SpacedRest
<1>5. ASSUME UNCHANGED vars \/ NextDay
             \/ \E l \in Lead : OptOut(l) \/ LeadWrites(l) \/ Leave(l) \/ Revoke(l)
      PROVE  Spaced' /\ Spread'
  <2>1. taken' = taken /\ session' = session /\ (day' = day \/ \A r \in Runner : At(r, "idle"))
    BY <1>5 DEF vars, leads, NextDay, OptOut, LeadWrites, Leave, Revoke
  <2>2. \A i \in DOMAIN taken : Same(i)
    BY <2>1 DEF Same
  <2> QED
    BY <2>1, <2>2, SpacedRest
<1> QED
  BY <1>1, <1>2, <1>3, <1>4, <1>5 DEF Next, Jobs, Run, Moves, Session

LEMMA OnceInit == Init => Once /\ Spaced /\ Spread
<1> SUFFICES ASSUME Init PROVE Once /\ Spaced /\ Spread
  OBVIOUS
<1>1. /\ taken = <<>> /\ hooks = {}
      /\ \A s \in Session : session[s].pc = "idle" /\ session[s].rows = {}
  BY DEF Init, Idle
<1>2. Ordered
  BY <1>1, TypedInit DEF Ordered, Owned, Unheard, ReadsStand, Heard
<1>3. /\ Marks /\ Apart /\ Numbered /\ Signed /\ Placed /\ Single
      /\ Clear /\ Claimed /\ KeyOnce /\ Restful
  BY <1>1 DEF Marks, Apart, Numbered, Signed, Placed, Single, Clear, Claimed, KeyOnce, Restful,
              Busy, At
<1>4. Spaced /\ Spread
  BY <1>1 DEF Spaced, Spread, At, Scheduled, Reactivations
<1> QED
  BY <1>2, <1>3, <1>4 DEF Once

\* A lead gets each reminder once, and no reactivation within the days of another template of
\* the worker (TemplateSender.send, ReactivationService._eligible), of one worker and if no two
\* webhooks of statuses overlap.
THEOREM SentOnce == ASSUME ~Overlap, OneRunner PROVE Spec => []ContactedOnce
<1> DEFINE I == Once /\ Spaced /\ Spread
<1>1. Init => I
  BY OnceInit
<1>2. I /\ [Next]_vars => I'
  BY OnceNext, SpacedNext
<1>3. I => ContactedOnce
  <2> SUFFICES ASSUME I, NEW i \in DOMAIN taken, NEW j \in DOMAIN taken, i < j,
                      taken[i].lead = taken[j].lead
               PROVE  /\ taken[i].key = taken[j].key => taken[i].lost \/ taken[j].lost
                      /\ i \in Scheduled \ Forgotten /\ j \in Reactivations
                           => taken[j].day - taken[i].day >= Recontact
    BY DEF ContactedOnce
  <2>1. i \in Nat /\ j \in Nat
    BY DEF Once, Ordered, Typed, TypeOK
  <2>2. i # j
    BY <2>1
  <2> QED
    BY <2>2 DEF Once, KeyOnce, Spread
<1> QED
  BY <1>1, <1>2, <1>3, PTL DEF Spec

-----------------------------------------------------------------------------
(* The cap of a day.                                                         *)

\* The reactivations that count against the cap of a day.
Of(d) == {i \in Reactivations \ Forgotten : taken[i].day = d}

Dated == \A i \in Scheduled : taken[i].day <= day

\* What a reactivation may still send fits in what the day has left.
Budgeted == \A s \in Runner, d \in Nat : d = day /\ session[s].kind = "reactivation" =>
    /\ At(s, "next")  => session[s].budget = 0 \/ Cardinality(Of(d)) + session[s].budget <= Cap
    /\ At(s, "call")  => session[s].budget > 0 /\ Cardinality(Of(d)) + session[s].budget <= Cap
    /\ At(s, "claim") => session[s].budget > 0 /\ Cardinality(Of(d)) + session[s].budget <= Cap + 1

Within == Dated /\ Budgeted /\ CapRespected

LEMMA OfIs ==
    ASSUME Typed, NEW d
    PROVE  /\ Of(d) \subseteq DOMAIN taken /\ IsFiniteSet(Of(d)) /\ Cardinality(Of(d)) \in Nat
           /\ Cap \in Nat /\ day \in Nat /\ \A i \in DOMAIN taken : taken[i].day \in Nat
           /\ \A s \in Session : session[s].budget \in Nat
<1>1. IsFiniteSet(DOMAIN taken)
  BY FS_Interval DEF Typed, TypeOK
<1>2. Of(d) \subseteq DOMAIN taken
  BY DEF Of, Reactivations, Scheduled
<1>3. ASSUME NEW i \in DOMAIN taken PROVE taken[i].day \in Nat
  <2>1. taken[i] \in Message
    BY DEF Typed, TypeOK
  <2> QED
    BY <2>1 DEF Message
<1>4. ASSUME NEW s \in Session PROVE session[s].budget \in Nat
  <2>1. session[s] \in Work
    BY DEF Typed, TypeOK
  <2> QED
    BY <2>1 DEF Work
<1> QED
  BY <1>1, <1>2, <1>3, <1>4, FS_Subset, FS_CardinalityType, DaysAreNats DEF Typed, TypeOK

\* No step but a sending makes a day fuller.
LEMMA NotFuller ==
    ASSUME Typed, DOMAIN taken' = DOMAIN taken, \A i \in DOMAIN taken : Same(i), NEW d
    PROVE  Cardinality(Of(d)') <= Cardinality(Of(d)) /\ Cardinality(Of(d)') \in Nat
<1>1. Of(d)' \subseteq DOMAIN taken
  BY DEF Of, Reactivations, Scheduled
<1>2. ASSUME NEW i \in Of(d)' PROVE i \in Of(d)
  <2>1. i \in DOMAIN taken /\ Same(i) /\ i \in (Scheduled \ Forgotten)' /\ i \in Reactivations'
        /\ taken'[i].day = d
    BY <1>1 DEF Of, Reactivations
  <2>2. i \in Scheduled \ Forgotten /\ i \in Reactivations /\ taken[i].day = d
    BY <2>1, StillForgotten DEF Same
  <2> QED
    BY <2>2 DEF Of
<1>3. Of(d)' \subseteq Of(d)
  BY <1>2
<1> QED
  BY <1>3, OfIs, FS_Subset, FS_CardinalityType

\* With the rows as they were, the days that were within the cap are.
LEMMA DaysStay ==
    ASSUME Typed, Dated, CapRespected, DOMAIN taken' = DOMAIN taken,
           \A i \in DOMAIN taken : Same(i), day' = day \/ day' = day + 1
    PROVE  Dated' /\ CapRespected'
<1>0. day \in Nat /\ Cap \in Nat /\ \A i \in DOMAIN taken : taken[i].day \in Nat
  BY OfIs
<1>1. Dated'
  <2>1. ASSUME NEW i \in Scheduled' PROVE i \in Scheduled /\ taken'[i].day = taken[i].day
    BY <2>1 DEF Scheduled, Same
  <2> QED
    BY <1>0, <2>1 DEF Dated, Scheduled
<1>2. ASSUME NEW d \in 0 .. day' PROVE Cardinality(Of(d)') <= Cap
  <2>1. CASE d \in 0 .. day
    <3>1. Cardinality(Of(d)) <= Cap
      BY <2>1 DEF CapRespected, Of
    <3> QED
      BY <1>0, <3>1, NotFuller, OfIs
  <2>2. CASE d \notin 0 .. day
    <3>1. d > day
      BY <1>0, <2>2
    <3>2. Of(d) = {}
      BY <1>0, <3>1 DEF Of, Reactivations, Dated, Scheduled
    <3>3. Cardinality(Of(d)) = 0
      BY <3>2, FS_EmptySet
    <3> QED
      BY <1>0, <3>3, NotFuller
  <2> QED
    BY <2>1, <2>2
<1>3. CapRespected'
  BY <1>2 DEF CapRespected, Of
<1> QED
  BY <1>1, <1>3

\* Whoever begins sees all that counts against the cap.
LEMMA BeginsWithin ==
    ASSUME Once, OneRunner, NEW s \in Runner, Reactivate(s), NEW d \in Nat, d = day
    PROVE  /\ session'[s].pc = "next"
           /\ session'[s].budget = 0 \/ Cardinality(Of(d)) + session'[s].budget <= Cap
<1> DEFINE S == {i \in DOMAIN taken : taken[i].key[1] = "reactivation" /\ SentSince(s, i, day)}
           b == IF Already(s) >= Cap THEN 0 ELSE Cap - Already(s)
           u == [Idle EXCEPT !.pc = "next", !.kind = "reactivation", !.todo = candidate,
                             !.day = day, !.mark = day]
           w == [Idle EXCEPT !.pc = "next", !.kind = "reactivation", !.todo = candidate,
                             !.day = day, !.mark = day, !.budget = b]
<1>0. Typed /\ TypeOK /\ session \in [Session -> Work] /\ s \in Session
  BY DEF Once, Ordered, Typed, TypeOK, Session
<1>1. Of(d) \subseteq S
  <2> SUFFICES ASSUME NEW i \in Of(d) PROVE i \in S
    OBVIOUS
  <2>1. i \in Scheduled \ Forgotten /\ taken[i].key[1] = "reactivation" /\ taken[i].day = day
    BY DEF Of, Reactivations
  <2>2. i \in Seen(s) /\ StatusOf(i) \in Counted /\ i \in DOMAIN taken
    BY <2>1, SeenByRunner
  <2> QED
    BY <1>0, <2>1, <2>2, OfIs DEF SentSince
<1>2. IsFiniteSet(S)
  <2>1. IsFiniteSet(DOMAIN taken)
    BY <1>0, FS_Interval DEF TypeOK
  <2> QED
    BY <2>1, FS_Subset
<1>3. Cardinality(Of(d)) <= Already(s)
  BY <1>1, <1>2, FS_Subset DEF Already
<1>4. session' = [session EXCEPT ![s] = w]
  BY DEF Reactivate
<1> HIDE DEF b
<1>5. w.pc = "next" /\ w.budget = b
  BY DEF Idle
<1> HIDE DEF w
<1>6. session'[s] = w
  BY <1>0, <1>4
<1>7. b = 0 \/ Cardinality(Of(d)) + b <= Cap
  BY <1>0, <1>3, OfIs, BudgetIsNat DEF b
<1> QED
  BY <1>5, <1>6, <1>7

LEMMA WithinMove ==
    ASSUME Once, OneRunner, Within, NEW s \in Session, Moves(s) PROVE Within'
<1>0. /\ DOMAIN taken' = DOMAIN taken /\ day' = day
      /\ \A i \in DOMAIN taken : Same(i)
      /\ \A t \in Session \ {s} : session'[t] = session[t]
      /\ Typed /\ session \in [Session -> Work] /\ Runner \subseteq Session
  BY MovedRows, Moved DEF Once, Ordered, Typed, TypeOK, Session
<1>1. Dated' /\ CapRespected'
  BY <1>0, DaysStay DEF Within
<1>2. Budgeted'
  <2> SUFFICES ASSUME NEW r \in Runner, NEW d \in Nat, d = day', session'[r].kind = "reactivation"
               PROVE  LET n == Cardinality(Of(d)')
                          b == session'[r].budget
                      IN /\ session'[r].pc = "next"  => b = 0 \/ n + b <= Cap
                         /\ session'[r].pc = "call"  => b > 0 /\ n + b <= Cap
                         /\ session'[r].pc = "claim" => b > 0 /\ n + b <= Cap + 1
    BY DEF Budgeted, At
  <2>1. /\ d = day /\ r \in Session /\ session[r].budget \in Nat /\ Cap \in Nat
        /\ Cardinality(Of(d)) \in Nat /\ Cardinality(Of(d)') \in Nat
        /\ Cardinality(Of(d)') <= Cardinality(Of(d))
    BY <1>0, OfIs, NotFuller
  <2>2. session[r].kind = "reactivation" =>
          /\ session[r].pc = "next" => session[r].budget = 0
                                         \/ Cardinality(Of(d)) + session[r].budget <= Cap
          /\ session[r].pc = "call" => session[r].budget > 0
                                         /\ Cardinality(Of(d)) + session[r].budget <= Cap
          /\ session[r].pc = "claim" => session[r].budget > 0
                                          /\ Cardinality(Of(d)) + session[r].budget <= Cap + 1
    BY <2>1 DEF Within, Budgeted, At
  <2>3. CASE r # s
    <3>1. session'[r] = session[r]
      BY <1>0, <2>1, <2>3
    <3> QED
      BY <2>1, <2>2, <3>1
  <2>4. CASE r = s /\ Remind(s)
    <3>1. session' = [session EXCEPT ![s] = [Idle EXCEPT !.pc = "next", !.todo = live,
                                                !.day = day, !.mark = DueWindow(day)]]
      BY <2>4 DEF Remind
    <3>2. session'[s].kind = "reminder"
      BY <1>0, <3>1 DEF Idle
    <3> QED
      BY <2>4, <3>2
  <2>5. CASE r = s /\ Reactivate(s)
    <3>1. /\ session'[s].pc = "next" /\ taken' = taken
          /\ session'[s].budget = 0 \/ Cardinality(Of(d)) + session'[s].budget <= Cap
      BY <2>1, <2>5, BeginsWithin DEF Reactivate
    <3>2. Of(d)' = Of(d)
      BY <3>1 DEF Of, Reactivations, Scheduled, Forgotten
    <3> QED
      BY <2>5, <3>1, <3>2
  <2>6. CASE r = s /\ Refuse(s)
    <3>1. session[s].pc = "call" /\ session'[s].pc = "next" /\ session'[s].kind = session[s].kind
          /\ session'[s].budget = session[s].budget
      BY <1>0, <2>6 DEF Refuse, At, Work
    <3> QED
      BY <2>1, <2>2, <2>6, <3>1
  <2>7. CASE r = s /\ Claim(s)
    <3>1. /\ session[s].pc = "claim" /\ session'[s].pc = "next"
          /\ session'[s].kind = session[s].kind
          /\ session'[s].budget = IF session[s].budget = 0 THEN 0 ELSE session[s].budget - 1
      BY <2>7, ClaimIs
    <3> QED
      BY <2>1, <2>2, <2>7, <3>1
  <2>8. CASE r = s /\ (Commit(s) \/ Fails(s))
    <3>1. PICK pc \in {After(s), "idle"} :
              session' = [session EXCEPT ![s] = [Idle EXCEPT !.pc = pc]]
      BY <2>8 DEF Commit, Fails
    <3>2. session'[s].pc \in {"idle", "between"}
      BY <1>0, <3>1, EndedIs
    <3> QED
      BY <2>8, <3>2
  <2>9. ASSUME r = s, NEW l \in Lead, Send(s, l)
        PROVE  LET n == Cardinality(Of(d)')
                   b == session'[r].budget
               IN /\ session'[r].pc = "next"  => b = 0 \/ n + b <= Cap
                  /\ session'[r].pc = "call"  => b > 0 /\ n + b <= Cap
                  /\ session'[r].pc = "claim" => b > 0 /\ n + b <= Cap + 1
    <3>1. /\ session[s].pc = "next" /\ session'[s].kind = session[s].kind
          /\ session'[s].budget = session[s].budget /\ session'[s].pc \in {"next", "call"}
          /\ session'[s].pc = "call" => Eligible(s, l)
      BY <1>0, <2>9, SendIs
    <3>2. session'[s].pc = "call" => session[s].budget > 0
      BY <2>9, <3>1 DEF Eligible
    <3> QED
      BY <2>1, <2>2, <2>9, <3>1, <3>2
  <2>10. CASE r = s /\ s \in Desk
    BY <2>10, SessionsDiffer
  <2> QED
    BY <2>3, <2>4, <2>5, <2>6, <2>7, <2>8, <2>9, <2>10 DEF Moves
<1> QED
  BY <1>1, <1>2 DEF Within

\* What Meta takes fills the day by one at most, of a reactivation that had room for it.
LEMMA WithinTakes ==
    ASSUME Once, OneRunner, Within, NEW s \in Session, Take(s) \/ LoseAnswer(s) PROVE Within'
<1> DEFINE n == Len(taken) + 1
           Mine == Take(s) /\ s \in Runner /\ session[s].kind = "reactivation"
<1>0. /\ Typed /\ At(s, "call") /\ session \in [Session -> Work] /\ Busy(s) /\ day' = day
      /\ day \in Nat /\ Cap \in Nat /\ Runner \subseteq Session
      /\ \A i \in DOMAIN taken : taken[i].day \in Nat
  BY OfIs DEF Once, Ordered, Typed, TypeOK, Take, LoseAnswer, At, Busy, leads, Session
<1>1. PICK b \in BOOLEAN : taken' = Sent(s, b) /\ (b \/ Take(s))
  BY DEF Take, LoseAnswer
<1>2. /\ DOMAIN taken' = DOMAIN taken \cup {n} /\ n \notin DOMAIN taken
      /\ \A i \in DOMAIN taken : taken'[i] = taken[i]
      /\ taken'[n].key = KeyOf(s) /\ taken'[n].lost = b /\ taken'[n].day = session[s].day
  <2>1. taken'[n] = [lead |-> session[s].lead, key |-> KeyOf(s), row |-> None,
                     day |-> session[s].day, lost |-> b, heard |-> {}]
    BY <1>0, <1>1, SentHas
  <2>2. n \notin DOMAIN taken /\ DOMAIN taken' = DOMAIN taken \cup {n}
        /\ \A i \in DOMAIN taken : taken'[i] = taken[i]
    BY <1>0, <1>1, SentHas
  <2> HIDE DEF n
  <2> QED
    BY <2>1, <2>2
<1> HIDE DEF n
<1>3. ASSUME n \in Scheduled' PROVE s \in Runner /\ session[s].day = day
  <2>1. KeyOf(s)[3] = session[s].mark /\ session[s].mark \in Int
    BY <1>0 DEF KeyOf, Work
  <2>2. session[s].mark >= 0
    BY <1>2, <1>3, <2>1 DEF Scheduled
  <2> QED
    BY <1>0, <2>1, <2>2 DEF Once, Marks
<1>4. ASSUME NEW d, n \in Of(d)' PROVE Mine /\ d = day
  <2>1. n \in Scheduled' /\ taken'[n].key[1] = "reactivation" /\ ~taken'[n].lost
        /\ taken'[n].day = d
    BY <1>2, <1>4 DEF Of, Reactivations, Scheduled, Forgotten
  <2>2. KeyOf(s)[1] = session[s].kind
    BY DEF KeyOf
  <2> QED
    BY <1>1, <1>2, <1>3, <2>1, <2>2
<1>5. ASSUME NEW d PROVE Of(d)' \subseteq Of(d) \cup {n}
  BY <1>2 DEF Of, Reactivations, Scheduled, Forgotten
<1>6. ASSUME NEW d
      PROVE  /\ Cardinality(Of(d)) \in Nat /\ Cardinality(Of(d)') \in Nat
             /\ Cardinality(Of(d)') <= Cardinality(Of(d)) \/ (Mine /\ d = day)
             /\ Cardinality(Of(d)') <= Cardinality(Of(d)) + 1
  <2>1. IsFiniteSet(Of(d)) /\ Cardinality(Of(d)) \in Nat /\ n \notin Of(d)
    BY <1>0, <1>2, OfIs
  <2>2. IsFiniteSet(Of(d) \cup {n}) /\ Cardinality(Of(d) \cup {n}) = Cardinality(Of(d)) + 1
    BY <2>1, FS_AddElement
  <2>3. Cardinality(Of(d)') <= Cardinality(Of(d)) + 1 /\ Cardinality(Of(d)') \in Nat
    BY <1>5, <2>2, FS_Subset, FS_CardinalityType
  <2>4. n \notin Of(d)' => Cardinality(Of(d)') <= Cardinality(Of(d))
    <3>1. n \notin Of(d)' => Of(d)' \subseteq Of(d)
      BY <1>5
    <3> QED
      BY <2>1, <3>1, FS_Subset
  <2> QED
    BY <1>4, <2>1, <2>3, <2>4
<1>7. s \in Runner /\ session[s].kind = "reactivation" =>
         \A d \in Nat : d = day =>
             session[s].budget > 0 /\ Cardinality(Of(d)) + session[s].budget <= Cap
  BY <1>0 DEF Within, Budgeted
<1>8. session[s].budget \in Nat
  BY <1>0, OfIs
<1>9. Dated'
  <2> SUFFICES ASSUME NEW i \in Scheduled' PROVE taken'[i].day <= day
    BY <1>0 DEF Dated
  <2>1. CASE i = n
    BY <1>0, <1>2, <1>3, <2>1
  <2>2. CASE i # n
    BY <1>2, <2>2 DEF Within, Dated, Scheduled
  <2> QED
    BY <2>1, <2>2
<1>10. CapRespected'
  <2>1. ASSUME NEW d \in 0 .. day PROVE Cardinality(Of(d)') <= Cap
    <3>1. Cardinality(Of(d)) <= Cap
      BY DEF Within, CapRespected, Of
    <3>2. CASE Mine /\ d = day
      <4>1. session[s].budget > 0 /\ Cardinality(Of(d)) + session[s].budget <= Cap
        BY <1>7, <3>2
      <4> QED
        BY <1>0, <1>6, <1>8, <4>1
    <3>3. CASE ~(Mine /\ d = day)
      BY <1>0, <1>6, <3>1, <3>3
    <3> QED
      BY <3>2, <3>3
  <2> QED
    BY <1>0, <2>1 DEF CapRespected, Of
<1>11. \/ Take(s) /\ session'[s].pc = "claim"
       \/ LoseAnswer(s) /\ ~Take(s) /\ session'[s].pc = "next"
  <2>1. CASE Take(s)
    BY <1>0, <2>1 DEF Take, Work
  <2>2. CASE LoseAnswer(s) /\ ~Take(s)
    BY <1>0, <2>2 DEF LoseAnswer, Work
  <2> QED
    BY <2>1, <2>2
<1>12. /\ session'[s].kind = session[s].kind /\ session'[s].budget = session[s].budget
       /\ \A t \in Session \ {s} : session'[t] = session[t]
  <2>1. \/ session' = [session EXCEPT ![s].pc = "next"]
        \/ session' = [session EXCEPT ![s].pc = "claim", ![s].rows = @ \cup {Len(taken) + 1}]
    BY DEF Take, LoseAnswer
  <2> QED
    BY <1>0, <2>1 DEF Work
<1>13. Budgeted'
  <2> SUFFICES ASSUME NEW r \in Runner, NEW d \in Nat, d = day, session'[r].kind = "reactivation"
               PROVE  LET c == Cardinality(Of(d)')
                          b2 == session'[r].budget
                      IN /\ session'[r].pc = "next"  => b2 = 0 \/ c + b2 <= Cap
                         /\ session'[r].pc = "call"  => b2 > 0 /\ c + b2 <= Cap
                         /\ session'[r].pc = "claim" => b2 > 0 /\ c + b2 <= Cap + 1
    BY <1>0 DEF Budgeted, At
  <2>1. CASE r = s
    BY <1>0, <1>6, <1>7, <1>8, <1>11, <1>12, <2>1
  <2>2. CASE r # s
    <3>1. s \notin Runner /\ session'[r] = session[r] /\ session[r].budget \in Nat
      BY <1>0, <1>12, <2>2, OfIs DEF OneRunner
    <3>2. Cardinality(Of(d)') <= Cardinality(Of(d))
      BY <1>6, <3>1
    <3>3. /\ session[r].pc = "next" => session[r].budget = 0
                                         \/ Cardinality(Of(d)) + session[r].budget <= Cap
          /\ session[r].pc = "call" => session[r].budget > 0
                                         /\ Cardinality(Of(d)) + session[r].budget <= Cap
          /\ session[r].pc = "claim" => session[r].budget > 0
                                          /\ Cardinality(Of(d)) + session[r].budget <= Cap + 1
      BY <3>1 DEF Within, Budgeted, At
    <3> QED
      BY <1>0, <1>6, <3>1, <3>2, <3>3
  <2> QED
    BY <2>1, <2>2
<1> QED
  BY <1>9, <1>10, <1>13 DEF Within

LEMMA WithinRest ==
    ASSUME Typed, Within, session' = session, DOMAIN taken' = DOMAIN taken,
           day' = day \/ (day' = day + 1 /\ \A r \in Runner : At(r, "idle")),
           \A i \in DOMAIN taken : Same(i)
    PROVE  Within'
<1>1. Dated' /\ CapRespected'
  BY DaysStay DEF Within
<1>2. Budgeted'
  <2> SUFFICES ASSUME NEW s \in Runner, NEW d \in Nat, d = day', session[s].kind = "reactivation",
                      session[s].pc \in {"next", "call", "claim"}
               PROVE  LET c == Cardinality(Of(d)')
                          b == session[s].budget
                      IN /\ session[s].pc = "next"  => b = 0 \/ c + b <= Cap
                         /\ session[s].pc = "call"  => b > 0 /\ c + b <= Cap
                         /\ session[s].pc = "claim" => b > 0 /\ c + b <= Cap + 1
    BY DEF Budgeted, At
  <2>1. d = day
    BY DEF At
  <2>2. /\ session[s].budget \in Nat /\ Cap \in Nat
        /\ Cardinality(Of(d)) \in Nat /\ Cardinality(Of(d)') \in Nat
        /\ Cardinality(Of(d)') <= Cardinality(Of(d))
    BY OfIs, NotFuller DEF Session
  <2>3. /\ session[s].pc = "next" => session[s].budget = 0
                                       \/ Cardinality(Of(d)) + session[s].budget <= Cap
        /\ session[s].pc = "call" => session[s].budget > 0
                                       /\ Cardinality(Of(d)) + session[s].budget <= Cap
        /\ session[s].pc = "claim" => session[s].budget > 0
                                        /\ Cardinality(Of(d)) + session[s].budget <= Cap + 1
    BY <2>1 DEF Within, Budgeted, At
  <2> QED
    BY <2>2, <2>3
<1> QED
  BY <1>1, <1>2 DEF Within

LEMMA WithinNext == ASSUME Once, OneRunner, ~Overlap, Within, [Next]_vars PROVE Within'
<1>0. Ordered /\ Typed
  BY DEF Once, Ordered
<1>1. ASSUME NEW s \in Session, Moves(s) PROVE Within'
  BY <1>1, WithinMove
<1>2. ASSUME NEW s \in Session, Take(s) \/ LoseAnswer(s) PROVE Within'
  BY <1>2, WithinTakes
<1>3. ASSUME NEW i \in DOMAIN taken, NEW status \in Told, Notify(i, status) PROVE Within'
  BY <1>0, <1>3, NotifiedRows, WithinRest
<1>4. ASSUME NEW h \in hooks, Write(h) PROVE Within'
  BY <1>0, <1>4, WrittenRows, WithinRest
<1>5. ASSUME UNCHANGED vars \/ NextDay
             \/ \E l \in Lead : OptOut(l) \/ LeadWrites(l) \/ Leave(l) \/ Revoke(l)
      PROVE  Within'
  <2>1. /\ taken' = taken /\ session' = session
        /\ day' = day \/ (day' = day + 1 /\ \A r \in Runner : At(r, "idle"))
    BY <1>5 DEF vars, leads, NextDay, OptOut, LeadWrites, Leave, Revoke
  <2>2. \A i \in DOMAIN taken : Same(i)
    BY <2>1 DEF Same
  <2> QED
    BY <1>0, <2>1, <2>2, WithinRest
<1> QED
  BY <1>1, <1>2, <1>3, <1>4, <1>5 DEF Next, Jobs, Run, Moves, Session

\* No day has more reactivations by the worker than reactivation_daily_cap, whatever commits and
\* fails between the count of the sent ones and the sendings (ReactivationService.run_for), of one
\* worker and if no two webhooks of statuses overlap.
THEOREM CapHolds == ASSUME ~Overlap, OneRunner PROVE Spec => []CapRespected
<1> DEFINE I == Once /\ Within
<1>1. Init => I
  <2> SUFFICES ASSUME Init PROVE Within
    BY OnceInit
  <2>1. taken = <<>> /\ \A s \in Session : session[s].pc = "idle"
    BY DEF Init, Idle
  <2>2. Dated /\ Budgeted
    BY <2>1 DEF Dated, Budgeted, Scheduled, At, Session
  <2>3. ASSUME NEW d PROVE Cardinality(Of(d)) = 0
    <3>1. Of(d) = {}
      BY <2>1 DEF Of, Reactivations, Scheduled
    <3> QED
      BY <3>1, FS_EmptySet
  <2>4. CapRespected
    <3>1. \A d \in 0 .. day : Cardinality(Of(d)) <= Cap
      BY <2>3, DaysAreNats
    <3> QED
      BY <3>1 DEF CapRespected, Of
  <2> QED
    BY <2>2, <2>4 DEF Within
<1>2. I /\ [Next]_vars => I'
  BY OnceNext, WithinNext
<1>3. I => CapRespected
  BY DEF Within
<1> QED
  BY <1>1, <1>2, <1>3, PTL DEF Spec
=============================================================================
