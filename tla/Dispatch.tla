------------------------------ MODULE Dispatch ------------------------------
(***************************************************************************)
(* From a WhatsApp message of a lead to the turn of the agent that answers *)
(* it.  Webhook requests keep the message and push the conversation to the *)
(* list agent:dispatch; workers pop it, take the lock of the conversation, *)
(* read what is above its answered mark, save a turn and project the card. *)
(* Meanwhile Meta repeats deliveries, processes die, locks expire and      *)
(* people take over the chat or drag its card.  One lead, one tenant.      *)
(***************************************************************************)
EXTENDS Naturals, Sequences, FiniteSets

CONSTANTS Conv,             \* ids of conversation, in the order they are created
          Message,          \* WhatsApp messages (wamids)
          OptOut,           \* those that ask not to be contacted again
          Webhook,          \* webhook requests that may be in flight together
          Worker,           \* worker processes
          None,             \* no message, no conversation, no owner
          Slow,             \* whether a turn may outlast the TTL of its lock
          MaxDeliveries,    \* bound: times Meta delivers one message
          MaxCrashes,       \* bound: deaths of a worker
          Acts,             \* what people do: "takeover", "handback", "close", "reopen"
          Faults            \* what fails: "webhook", "turn", "sweep"

ASSUME ConvIsNat     == Conv \subseteq Nat /\ IsFiniteSet(Conv)
ASSUME OptOutMessage == OptOut \subseteq Message
ASSUME NoneIsNone    == None \notin Conv \cup Message \cup Worker

VARIABLES conv,             \* the conversation table, with the card of each
          rows,             \* lead turns committed to ai_chat_histories
          seq,              \* the sequence of message_order
          queue,            \* agent:dispatch, head first
          lock,             \* agent:lock:{conversation}; the owner is a ghost
          webhook,          \* what each webhook request is doing
          worker,           \* what each worker is doing
          errors,           \* conversations whose thread shows an agent_error
          answered,         \* ghost: rows that a saved turn has read
          replies,          \* ghost: turns saved in each conversation
          deliveries,       \* bound of the deliveries of each message
          crashes           \* bound of the deaths

vars == <<conv, rows, seq, queue, lock, webhook, worker, errors, answered,
          replies, deliveries, crashes>>
ghosts == <<answered, replies>>
bounds == <<deliveries, crashes>>

\* Stages of a card, as far as they close its conversation: the board of sales,
\* its terminal one, the board after the sale, and its terminal ones.
Stage    == {"sale", "disqualified", "postsale", "done"}
Terminal == {"disqualified", "done"}
Human    == {"postsale", "done"}

ASSUME NoneIsNoStage == None \notin Stage

\* life "new": inserted by a transaction in flight; "undone": rolled back.
\* out: funnel_stage is disqualified.  A handed off funnel is an inactive ai.
Conversation == [life : {"none", "new", "kept", "undone"}, ai : BOOLEAN,
                 out : BOOLEAN, card : Stage \cup {None}, mark : Nat]
Row     == [msg : Message, conv : Conv, order : Nat]
Request == [pc : {"idle", "open", "store", "enqueue", "commit"},
            msg : Message \cup {None}, conv : Conv \cup {None},
            fresh : BOOLEAN, order : Nat]
Task    == [pc : {"down", "idle", "lock", "load", "turn", "send", "sync", "release"},
            conv : Conv \cup {None}, upto : Nat, out : BOOLEAN, seen : SUBSET Row]

NewConv == [life |-> "none", ai |-> TRUE, out |-> FALSE, card |-> None, mark |-> 0]
Idle    == [pc |-> "idle", msg |-> None, conv |-> None, fresh |-> FALSE, order |-> 0]
Down    == [pc |-> "down", conv |-> None, upto |-> 0, out |-> FALSE, seen |-> {}]
Free    == [pc |-> "idle", conv |-> None, upto |-> 0, out |-> FALSE, seen |-> {}]

Init == /\ conv = [c \in Conv |-> NewConv]
        /\ rows = {}
        /\ seq = 0
        /\ queue = <<>>
        /\ lock = [c \in Conv |-> None]
        /\ webhook = [w \in Webhook |-> Idle]
        /\ worker = [k \in Worker |-> Down]
        /\ errors = {}
        /\ answered = {}
        /\ replies = [c \in Conv |-> 0]
        /\ deliveries = [m \in Message |-> 0]
        /\ crashes = 0

Kept(c)   == conv[c].life = "kept"
Closed(c) == conv[c].card \in Terminal
Known(m)  == \E r \in rows : r.msg = m

\* Lead turns above the high-water mark of the conversation.
Unanswered(c) == {r \in rows : r.conv = c /\ r.order > conv[c].mark}
Eligible(c)   == Kept(c) /\ conv[c].ai /\ ~Closed(c)

Queued(c) == \E i \in DOMAIN queue : queue[i] = c
Push(c)   == queue' = Append(queue, c)

-----------------------------------------------------------------------------
(* The webhook, step by step of its transaction. *)

\* A delivery passes the check of the wamid; one already kept is skipped.
Receive(w, m) ==
    /\ webhook[w].pc = "idle"
    /\ deliveries[m] < MaxDeliveries
    /\ ~Known(m)
    /\ deliveries' = [deliveries EXCEPT ![m] = @ + 1]
    /\ webhook' = [webhook EXCEPT ![w] = [Idle EXCEPT !.pc = "open", !.msg = m]]
    /\ UNCHANGED <<conv, rows, seq, queue, lock, worker, errors, ghosts, crashes>>

\* Mutant of Reusable: a conversation that a person handles is not reused.
ReusableByAgent(c) == Kept(c) /\ ~Closed(c) /\ conv[c].ai

\* The latest conversation of the phone is reused unless it is closed.
Reusable(c) == Kept(c) /\ ~Closed(c)

Latest(c) == Kept(c) /\ \A d \in Conv : Kept(d) => d <= c

Reuse(w) ==
    /\ webhook[w].pc = "open"
    /\ \E c \in Conv :
        /\ Latest(c) /\ Reusable(c)
        /\ webhook' = [webhook EXCEPT ![w].pc = "store", ![w].conv = c]
    /\ UNCHANGED <<conv, rows, seq, queue, lock, worker, errors, ghosts, bounds>>

\* Otherwise one is inserted, which nobody else sees before the commit.
Create(w) ==
    /\ webhook[w].pc = "open"
    /\ \A c \in Conv : Latest(c) => ~Reusable(c)
    /\ \E c \in Conv :
        /\ conv[c].life = "none"
        /\ \A d \in Conv : d < c => conv[d].life # "none"
        /\ conv' = [conv EXCEPT ![c].life = "new"]
        /\ webhook' = [webhook EXCEPT ![w].pc = "store", ![w].conv = c,
                                      ![w].fresh = TRUE]
    /\ UNCHANGED <<rows, seq, queue, lock, worker, errors, ghosts, bounds>>

Inserted(w) == webhook[w].pc \in {"enqueue", "commit"}

\* The transaction of a request is rolled back and Meta gets its 200.
Abort(w) ==
    /\ conv' = IF webhook[w].fresh
               THEN [conv EXCEPT ![webhook[w].conv].life = "undone"] ELSE conv
    /\ webhook' = [webhook EXCEPT ![w] = Idle]
    /\ UNCHANGED <<rows, seq, queue, lock, worker, errors, ghosts, bounds>>

\* Mutant of Store: without the unique index, both copies are kept.
StoreTwice(w) ==
    /\ webhook[w].pc = "store"
    /\ seq' = seq + 1
    /\ webhook' = [webhook EXCEPT ![w].order = seq + 1, ![w].pc = "enqueue"]
    /\ UNCHANGED <<conv, rows, queue, lock, worker, errors, ghosts, bounds>>

\* The INSERT takes its message_order.  The unique index on the wamid makes it
\* wait for a copy in flight and fail if that copy committed.
Store(w) ==
    LET m == webhook[w].msg IN
    /\ webhook[w].pc = "store"
    /\ \A v \in Webhook : ~(Inserted(v) /\ webhook[v].msg = m)
    /\ ~Known(m)
    /\ seq' = seq + 1
    /\ webhook' = [webhook EXCEPT ![w].order = seq + 1,
                                  ![w].pc = IF m \in OptOut THEN "commit" ELSE "enqueue"]
    /\ UNCHANGED <<conv, rows, queue, lock, worker, errors, ghosts, bounds>>

Duplicate(w) ==
    /\ webhook[w].pc = "store"
    /\ Known(webhook[w].msg)
    /\ Abort(w)

\* The job is pushed before the message is committed.
Enqueue(w) ==
    /\ webhook[w].pc = "enqueue"
    /\ Push(webhook[w].conv)
    /\ webhook' = [webhook EXCEPT ![w].pc = "commit"]
    /\ UNCHANGED <<conv, rows, seq, lock, worker, errors, ghosts, bounds>>

Commit(w) ==
    LET h == webhook[w] IN
    /\ h.pc = "commit"
    /\ rows' = rows \cup {[msg |-> h.msg, conv |-> h.conv, order |-> h.order]}
    /\ conv' = [conv EXCEPT ![h.conv].life = "kept"]
    /\ webhook' = [webhook EXCEPT ![w] = Idle]
    /\ UNCHANGED <<seq, queue, lock, worker, errors, ghosts, bounds>>

\* The media cannot be downloaded, a statement fails or the process dies.
WebhookFails(w) ==
    /\ "webhook" \in Faults
    /\ webhook[w].pc # "idle"
    /\ Abort(w)

Serve(w) == \/ \E m \in Message : Receive(w, m)
            \/ Reuse(w) \/ Create(w) \/ Store(w) \/ Duplicate(w)
            \/ Enqueue(w) \/ Commit(w) \/ WebhookFails(w)

-----------------------------------------------------------------------------
(* The worker. *)

\* Before the loop, the conversations left unanswered are pushed, oldest first.
Start(k) ==
    LET left == {c \in Conv : Eligible(c) /\ Unanswered(c) # {}} IN
    /\ worker[k].pc = "down"
    /\ \E jobs \in [1..Cardinality(left) -> left] :
        /\ \A i, j \in DOMAIN jobs : i < j => jobs[i] < jobs[j]
        /\ queue' = queue \o jobs
    /\ worker' = [worker EXCEPT ![k] = Free]
    /\ UNCHANGED <<conv, rows, seq, lock, webhook, errors, ghosts, bounds>>

\* A sweep that fails is logged, and the loop starts all the same.
StartUnswept(k) ==
    /\ "sweep" \in Faults
    /\ worker[k].pc = "down"
    /\ worker' = [worker EXCEPT ![k] = Free]
    /\ UNCHANGED <<conv, rows, seq, queue, lock, webhook, errors, ghosts, bounds>>

Pop(k) ==
    /\ worker[k].pc = "idle"
    /\ queue # <<>>
    /\ queue' = Tail(queue)
    /\ worker' = [worker EXCEPT ![k].pc = "lock", ![k].conv = Head(queue)]
    /\ UNCHANGED <<conv, rows, seq, lock, webhook, errors, ghosts, bounds>>

\* Mutant of Acquire: SET without NX.
AcquireAnyway(k) ==
    /\ worker[k].pc = "lock"
    /\ lock' = [lock EXCEPT ![worker[k].conv] = k]
    /\ worker' = [worker EXCEPT ![k].pc = "load"]
    /\ UNCHANGED <<conv, rows, seq, queue, webhook, errors, ghosts, bounds>>

\* SET NX EX: the lock is taken if nobody has it.
Acquire(k) ==
    /\ worker[k].pc = "lock"
    /\ lock[worker[k].conv] = None
    /\ lock' = [lock EXCEPT ![worker[k].conv] = k]
    /\ worker' = [worker EXCEPT ![k].pc = "load"]
    /\ UNCHANGED <<conv, rows, seq, queue, webhook, errors, ghosts, bounds>>

\* Mutant of Requeue: a job that finds the lock taken is dropped, as a vision one.
RequeueDropped(k) ==
    /\ worker[k].pc = "lock"
    /\ lock[worker[k].conv] # None
    /\ worker' = [worker EXCEPT ![k] = Free]
    /\ UNCHANGED <<conv, rows, seq, queue, lock, webhook, errors, ghosts, bounds>>

\* Otherwise the job goes back to the end of the list.
Requeue(k) ==
    /\ worker[k].pc = "lock"
    /\ lock[worker[k].conv] # None
    /\ Push(worker[k].conv)
    /\ worker' = [worker EXCEPT ![k] = Free]
    /\ UNCHANGED <<conv, rows, seq, lock, webhook, errors, ghosts, bounds>>

\* Mutant of Load: without the comparison with the mark.
LoadAgain(k) ==
    LET c == worker[k].conv
        new == {r \in rows : r.conv = c} IN
    /\ worker[k].pc = "load"
    /\ Kept(c) /\ conv[c].ai
    /\ \E last \in new :
        /\ \A r \in new : r.order <= last.order
        /\ worker' = [worker EXCEPT ![k].pc = "turn", ![k].upto = last.order,
                                    ![k].out = conv[c].out, ![k].seen = new]
    /\ UNCHANGED <<conv, rows, seq, queue, lock, webhook, errors, ghosts, bounds>>

\* process_message reads the conversation and its window: a turn starts when the
\* agent is active and the newest lead turn is above the mark.
Load(k) ==
    LET c == worker[k].conv IN
    /\ worker[k].pc = "load"
    /\ Kept(c) /\ conv[c].ai
    /\ \E last \in Unanswered(c) :
        /\ \A r \in Unanswered(c) : r.order <= last.order
        /\ worker' = [worker EXCEPT ![k].pc = "turn", ![k].upto = last.order,
                                    ![k].out = conv[c].out, ![k].seen = Unanswered(c)]
    /\ UNCHANGED <<conv, rows, seq, queue, lock, webhook, errors, ghosts, bounds>>

\* Unknown conversation, silenced agent or nothing new: straight to the card.
NothingToDo(k) ==
    LET c == worker[k].conv IN
    /\ worker[k].pc = "load"
    /\ Kept(c) /\ conv[c].ai => Unanswered(c) = {}
    /\ worker' = [worker EXCEPT ![k].pc = "sync"]
    /\ UNCHANGED <<conv, rows, seq, queue, lock, webhook, errors, ghosts, bounds>>

\* Mutants of Mark: the newest lead turn at the time of saving, which this turn may
\* not have read; NULL.
MarkNow(c, upto)  == CHOOSE n \in 0..seq :
                         /\ \E r \in rows : r.conv = c /\ r.order = n
                         /\ \A r \in rows : r.conv = c => r.order <= n
MarkNone(c, upto) == IF conv[c].mark = 0 THEN upto ELSE None

\* The new answered_through_order: what the turn read.
Mark(c, upto) == upto

\* What a turn may decide, whichever flow it takes: to hand the chat over or not, to
\* disqualify or not.  A free choice here (FunnelRules computes it); the funnel does not
\* leave disqualified.
Outcome(out) == {o \in [ai : BOOLEAN, out : BOOLEAN] : out => o.out}

\* save_turn reads the row again, writes the funnel, the switch and the mark of
\* the turn, and commits before anything is sent.
Save(k) ==
    LET w == worker[k] IN
    /\ w.pc = "turn"
    /\ \E o \in Outcome(w.out) :
        conv' = [conv EXCEPT ![w.conv].ai = o.ai, ![w.conv].out = o.out,
                             ![w.conv].mark = Mark(w.conv, w.upto)]
    /\ answered' = answered \cup w.seen
    /\ replies' = [replies EXCEPT ![w.conv] = @ + 1]
    /\ worker' = [worker EXCEPT ![k].pc = "send", ![k].upto = 0, ![k].out = FALSE,
                                ![k].seen = {}]
    /\ UNCHANGED <<rows, seq, queue, lock, webhook, errors, bounds>>

Send(k) ==
    /\ worker[k].pc = "send"
    /\ worker' = [worker EXCEPT ![k].pc = "sync"]
    /\ UNCHANGED <<conv, rows, seq, queue, lock, webhook, errors, ghosts, bounds>>

\* Anything but a failure of the model: rolled back and told in the thread.  It
\* is not tried again, and a reply already saved is not sent.
TurnFails(k) ==
    /\ "turn" \in Faults
    /\ worker[k].pc \in {"load", "turn", "send"}
    /\ errors' = errors \cup {worker[k].conv}
    /\ worker' = [worker EXCEPT ![k] = [Free EXCEPT !.pc = "sync", !.conv = worker[k].conv]]
    /\ UNCHANGED <<conv, rows, seq, queue, lock, webhook, ghosts, bounds>>

\* Where the state of a conversation wants its card.
Target(c) == IF ~conv[c].ai THEN "postsale"
             ELSE IF conv[c].out THEN "disqualified" ELSE "sale"

\* CardService.sync: the card is created or moved, and the conversation closed or
\* reopened with it; inside the board after the sale it does not go back.
Sync(k) ==
    LET c == worker[k].conv IN
    /\ worker[k].pc = "sync"
    /\ conv' = IF Kept(c) /\ ~(conv[c].card \in Human /\ Target(c) \in Human)
               THEN [conv EXCEPT ![c].card = Target(c)] ELSE conv
    /\ worker' = [worker EXCEPT ![k].pc = "release"]
    /\ UNCHANGED <<rows, seq, queue, lock, webhook, errors, ghosts, bounds>>

\* DEL, whoever has it by now.
Release(k) ==
    /\ worker[k].pc = "release"
    /\ lock' = [lock EXCEPT ![worker[k].conv] = None]
    /\ worker' = [worker EXCEPT ![k] = Free]
    /\ UNCHANGED <<conv, rows, seq, queue, webhook, errors, ghosts, bounds>>

Holding(k, c) == /\ worker[k].pc \in {"load", "turn", "send", "sync", "release"}
                 /\ worker[k].conv = c

\* Mutant of Expire: the TTL is shorter than a turn.
ExpireEarly(c) ==
    /\ lock[c] # None
    /\ lock' = [lock EXCEPT ![c] = None]
    /\ UNCHANGED <<conv, rows, seq, queue, webhook, worker, errors, ghosts, bounds>>

\* The TTL ends: under a turn only if a turn may be slow.
Expire(c) ==
    /\ lock[c] # None
    /\ Slow \/ ~Holding(lock[c], c)
    /\ lock' = [lock EXCEPT ![c] = None]
    /\ UNCHANGED <<conv, rows, seq, queue, webhook, worker, errors, ghosts, bounds>>

\* The process dies or is killed, its lock left to expire; an error outside the
\* try of the turn frees the lock and takes the process down.
Crash(k) ==
    /\ crashes < MaxCrashes
    /\ worker[k].pc # "down"
    /\ crashes' = crashes + 1
    /\ \/ UNCHANGED lock
       \/ \E c \in Conv : Holding(k, c) /\ lock' = [lock EXCEPT ![c] = None]
    /\ worker' = [worker EXCEPT ![k] = Down]
    /\ UNCHANGED <<conv, rows, seq, queue, webhook, errors, ghosts, deliveries>>

Step(k) == \/ Start(k) \/ Pop(k) \/ Acquire(k) \/ Requeue(k) \/ Load(k)
           \/ NothingToDo(k) \/ Save(k) \/ Send(k) \/ Sync(k) \/ Release(k)

Work(k) == Step(k) \/ StartUnswept(k) \/ TurnFails(k) \/ Crash(k)

-----------------------------------------------------------------------------
(* People at the board. *)

TakeOver(c) ==
    /\ "takeover" \in Acts
    /\ Kept(c) /\ conv[c].ai
    /\ conv' = [conv EXCEPT ![c].ai = FALSE]
    /\ UNCHANGED <<rows, seq, queue, lock, webhook, worker, errors, ghosts, bounds>>

\* The agent is given the chat back, and a terminal funnel is reopened.
HandBack(c) ==
    /\ "handback" \in Acts
    /\ Kept(c) /\ ~conv[c].ai
    /\ conv' = [conv EXCEPT ![c].ai = TRUE, ![c].out = FALSE]
    /\ UNCHANGED <<rows, seq, queue, lock, webhook, worker, errors, ghosts, bounds>>

\* A card is moved by hand, which closes or reopens its conversation.
Drag(c, stage) ==
    /\ IF stage \in Terminal THEN "close" \in Acts ELSE "reopen" \in Acts
    /\ conv[c].card \notin {None, stage}
    /\ conv' = [conv EXCEPT ![c].card = stage]
    /\ UNCHANGED <<rows, seq, queue, lock, webhook, worker, errors, ghosts, bounds>>

People(c) == TakeOver(c) \/ HandBack(c) \/ \E stage \in Stage : Drag(c, stage)

-----------------------------------------------------------------------------
Next == \/ \E w \in Webhook : Serve(w)
        \/ \E k \in Worker : Work(k)
        \/ \E c \in Conv : Expire(c) \/ People(c)

Spec == Init /\ [][Next]_vars

\* A worker that runs keeps running, the container restarts one that died, and
\* Redis ends every TTL.  Nothing obliges a lead, Meta or a person to act.
Fairness == /\ \A k \in Worker : WF_vars(Step(k))
            /\ \A c \in Conv : WF_vars(Expire(c))

FairSpec == Spec /\ Fairness

-----------------------------------------------------------------------------
TypeOK ==
    /\ conv \in [Conv -> Conversation]
    /\ rows \subseteq Row
    /\ seq \in Nat
    /\ queue \in Seq(Conv)
    /\ lock \in [Conv -> Worker \cup {None}]
    /\ webhook \in [Webhook -> Request]
    /\ worker \in [Worker -> Task]
    /\ errors \subseteq Conv
    /\ answered \subseteq Row
    /\ replies \in [Conv -> Nat]
    /\ deliveries \in [Message -> Nat]
    /\ crashes \in Nat

\* A worker with the lock is alone with the conversation, although the lock has no
\* owner and expires, provided that it outlasts every turn (Dispatcher.acquire_lock).
Exclusive == \A j, k \in Worker, c \in Conv : Holding(j, c) /\ Holding(k, c) => j = k

\* The mark passes nothing that no turn has read, such as a message that arrives
\* while the turn is in flight (answered_through_order).
MarkCoversRows == \A r \in rows : r.order <= conv[r.conv].mark => r \in answered

\* While nobody closes a card or hands a chat back, a lead keeps its conversation
\* unless its funnel disqualifies it: of two, the earlier one is of a disqualified
\* lead.  Neither a hand-off nor a person in the chat makes the lead start over.
OnlyTheDisqualifiedStartOver ==
    \A c, d \in Conv : Kept(c) /\ Kept(d) /\ c < d => conv[c].out

\* A lead has one open conversation, the one its messages go to
\* (_get_or_create_conversation).
OneOpenConversation ==
    \A c, d \in {e \in Conv : Kept(e) /\ ~Closed(e)} : c = d

\* A turn of the agent answers more than requests of not being contacted.
OptOutTakesNoTurn ==
    \A k \in Worker : worker[k].pc = "turn" => \E r \in worker[k].seen : r.msg \notin OptOut

\* A message that nobody is attending to is not left without a job: the agent has
\* the chat, it failed no turn, and no worker is about to read it.
NoForgottenInbound ==
    \A c \in Conv :
        /\ Eligible(c) /\ c \notin errors
        /\ \E r \in Unanswered(c) : r.msg \notin OptOut
        => \/ Queued(c)
           \/ \E k \in Worker : \/ worker[k].pc = "down"
                                \/ worker[k].conv = c /\ worker[k].pc \in {"lock", "load", "turn"}

\* A chat that a person took over stays with people until it is handed back.
TakeoverHolds == [][\A c \in Conv : ~conv[c].ai /\ conv'[c].ai => HandBack(c)]_vars

\* The row of a message is above the mark of an open conversation of the agent.
Waits(r) == Eligible(r.conv) /\ r.order > conv[r.conv].mark

\* A message that waits while its conversation has a job is answered in the end,
\* whatever locks and deaths the job meets, unless a turn of the conversation fails
\* or it leaves the agent (process_one, run_catch_up).
JobsServed ==
    \A m \in Message :
        (\E r \in rows : r.msg = m /\ Waits(r) /\ Queued(r.conv))
        ~> (\A r \in rows : r.msg = m => ~Waits(r) \/ r.conv \in errors)

\* Each message is kept once and answered at most once, in a turn of its own
\* conversation that answers something new.
InboxSpec == INSTANCE Inbox WITH kept <- rows
ImplementsInbox == InboxSpec!Spec
=============================================================================
