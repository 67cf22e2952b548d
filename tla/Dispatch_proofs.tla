--------------------------- MODULE Dispatch_proofs ---------------------------
(***************************************************************************)
(* Proofs about Dispatch, for any number of conversations, messages,       *)
(* webhook requests and workers, and with every fault switched on or off.  *)
(***************************************************************************)
EXTENDS Dispatch, FiniteSetTheorems, SequenceTheorems, TLAPS

\* What a request or a worker works on is known once it has found it.
GoodRequest(h) == /\ h \in Request
                  /\ h.pc # "idle" => h.msg \in Message
                  /\ h.pc \in {"store", "enqueue", "commit"} => h.conv \in Conv
                  /\ h.fresh => h.conv \in Conv
GoodTask(t)    == /\ t \in Task
                  /\ t.pc \notin {"down", "idle"} => t.conv \in Conv

Typed == /\ TypeOK
         /\ \A w \in Webhook : GoodRequest(webhook[w])
         /\ \A k \in Worker : GoodTask(worker[k])

\* The blank records are good.
LEMMA Blank == /\ GoodRequest(Idle) /\ ~Idle.fresh
               /\ GoodTask(Down)
               /\ GoodTask(Free)
BY DEF GoodRequest, Idle, Request, GoodTask, Down, Free, Task

LEMMA TypedInit == Init => Typed
<1> SUFFICES ASSUME Init PROVE Typed
  OBVIOUS
<1>1. NewConv \in Conversation
  BY DEF NewConv, Conversation
<1>2. webhook \in [Webhook -> Request] /\ worker \in [Worker -> Task]
  BY Blank DEF Init, GoodRequest, GoodTask
<1> QED
  BY <1>1, <1>2, Blank DEF Init, Typed, TypeOK

\* Steps that put a good record where one was, and leave the rest as typed.
LEMMA PutRequest ==
    ASSUME Typed, NEW w \in Webhook, NEW h, GoodRequest(h),
           webhook' = [webhook EXCEPT ![w] = h]
    PROVE  webhook' \in [Webhook -> Request] /\ \A v \in Webhook : GoodRequest(webhook'[v])
BY DEF Typed, TypeOK, GoodRequest

LEMMA PutTask ==
    ASSUME Typed, NEW k \in Worker, NEW t, GoodTask(t),
           worker' = [worker EXCEPT ![k] = t]
    PROVE  worker' \in [Worker -> Task] /\ \A j \in Worker : GoodTask(worker'[j])
BY DEF Typed, TypeOK, GoodTask

LEMMA PutConv ==
    ASSUME Typed, NEW c \in Conv, NEW row \in Conversation,
           conv' = [conv EXCEPT ![c] = row]
    PROVE  conv' \in [Conv -> Conversation]
BY DEF Typed, TypeOK

\* Rolling back a request.
LEMMA TypedAbort ==
    ASSUME Typed, NEW w \in Webhook, Abort(w)
    PROVE  Typed'
<1> DEFINE c == webhook[w].conv
           row == [conv[c] EXCEPT !.life = "undone"]
<1>1. conv' \in [Conv -> Conversation]
  <2>1. CASE ~webhook[w].fresh
    BY <2>1 DEF Abort, Typed, TypeOK
  <2>2. CASE webhook[w].fresh
    <3>1. c \in Conv /\ conv[c] \in Conversation
      BY <2>2 DEF Typed, TypeOK, GoodRequest
    <3>2. row \in Conversation
      BY <3>1 DEF Conversation
    <3>3. conv' = [conv EXCEPT ![c] = row]
      BY <2>2 DEF Abort
    <3> QED
      BY <3>1, <3>2, <3>3, PutConv
  <2> QED
    BY <2>1, <2>2
<1>2. webhook' = [webhook EXCEPT ![w] = Idle]
  BY DEF Abort
<1>3. webhook' \in [Webhook -> Request] /\ \A v \in Webhook : GoodRequest(webhook'[v])
  BY <1>2, Blank, PutRequest
<1> QED
  BY <1>1, <1>3 DEF Abort, Typed, TypeOK, ghosts, bounds

\* Steps of a webhook request keep the types.
LEMMA TypedServe ==
    ASSUME Typed, NEW w \in Webhook, Serve(w)
    PROVE  Typed'
<1> DEFINE h == webhook[w]
           Put(r) == webhook' = [webhook EXCEPT ![w] = r]
<1>0. h \in Request /\ GoodRequest(h)
  BY DEF Typed, TypeOK
<1>1. ASSUME NEW m \in Message, Receive(w, m)
      PROVE  Typed'
  <2> DEFINE r == [Idle EXCEPT !.pc = "open", !.msg = m]
  <2>2. Put(r)
    BY <1>1 DEF Receive
  <2>3. GoodRequest(r)
    BY Blank DEF GoodRequest, Request
  <2>4. webhook' \in [Webhook -> Request] /\ \A v \in Webhook : GoodRequest(webhook'[v])
    BY <2>2, <2>3, PutRequest
  <2> QED
    BY <1>1, <2>4 DEF Receive, Typed, TypeOK, ghosts, bounds
<1>2. CASE Reuse(w)
  <2>1. PICK c \in Conv : webhook' = [webhook EXCEPT ![w].pc = "store", ![w].conv = c]
    BY <1>2 DEF Reuse
  <2> DEFINE r == [h EXCEPT !.pc = "store", !.conv = c]
  <2>2. Put(r)
    BY <2>1
  <2>3. GoodRequest(r)
    BY <1>0, <1>2 DEF GoodRequest, Request, Reuse
  <2>4. webhook' \in [Webhook -> Request] /\ \A v \in Webhook : GoodRequest(webhook'[v])
    BY <2>2, <2>3, PutRequest
  <2> QED
    BY <1>2, <2>4 DEF Reuse, Typed, TypeOK, ghosts, bounds
<1>3. CASE Create(w)
  <2>1. PICK c \in Conv :
          /\ conv' = [conv EXCEPT ![c].life = "new"]
          /\ webhook' = [webhook EXCEPT ![w].pc = "store", ![w].conv = c, ![w].fresh = TRUE]
    BY <1>3 DEF Create
  <2> DEFINE r == [h EXCEPT !.pc = "store", !.conv = c, !.fresh = TRUE]
             row == [conv[c] EXCEPT !.life = "new"]
  <2>2. Put(r) /\ conv' = [conv EXCEPT ![c] = row]
    BY <2>1
  <2>3. GoodRequest(r)
    BY <1>0, <1>3 DEF GoodRequest, Request, Create
  <2>4. webhook' \in [Webhook -> Request] /\ \A v \in Webhook : GoodRequest(webhook'[v])
    BY <2>2, <2>3, PutRequest
  <2>5. conv[c] \in Conversation
    BY DEF Typed, TypeOK
  <2>6. row \in Conversation
    BY <2>5 DEF Conversation
  <2>7. conv' \in [Conv -> Conversation]
    BY <2>2, <2>6, PutConv
  <2> QED
    BY <1>3, <2>4, <2>7 DEF Create, Typed, TypeOK, ghosts, bounds
<1>4. CASE Store(w)
  <2> DEFINE pc == IF h.msg \in OptOut THEN "commit" ELSE "enqueue"
             r == [h EXCEPT !.order = seq + 1, !.pc = pc]
  <2>1. Put(r)
    BY <1>4 DEF Store
  <2>2. seq + 1 \in Nat /\ h.pc = "store"
    BY <1>4 DEF Store, Typed, TypeOK
  <2>3. GoodRequest(r)
    BY <1>0, <2>2 DEF GoodRequest, Request
  <2>4. webhook' \in [Webhook -> Request] /\ \A v \in Webhook : GoodRequest(webhook'[v])
    BY <2>1, <2>3, PutRequest
  <2> QED
    BY <1>4, <2>2, <2>4 DEF Store, Typed, TypeOK, ghosts, bounds
<1>5. CASE Enqueue(w)
  <2> DEFINE r == [h EXCEPT !.pc = "commit"]
  <2>1. Put(r)
    BY <1>5 DEF Enqueue
  <2>2. GoodRequest(r) /\ h.conv \in Conv
    BY <1>0, <1>5 DEF GoodRequest, Request, Enqueue
  <2>3. webhook' \in [Webhook -> Request] /\ \A v \in Webhook : GoodRequest(webhook'[v])
    BY <2>1, <2>2, PutRequest
  <2>4. queue' \in Seq(Conv)
    BY <1>5, <2>2, AppendProperties DEF Enqueue, Push, Typed, TypeOK
  <2> QED
    BY <1>5, <2>3, <2>4 DEF Enqueue, Typed, TypeOK, ghosts, bounds
<1>6. CASE Commit(w)
  <2> DEFINE row == [conv[h.conv] EXCEPT !.life = "kept"]
             new == [msg |-> h.msg, conv |-> h.conv, order |-> h.order]
  <2>1. h.conv \in Conv /\ h.msg \in Message /\ h.order \in Nat
    BY <1>0, <1>6 DEF Commit, GoodRequest, Request
  <2>2. conv[h.conv] \in Conversation
    BY <2>1 DEF Typed, TypeOK
  <2>3. row \in Conversation
    BY <2>2 DEF Conversation
  <2>4. conv' = [conv EXCEPT ![h.conv] = row]
    BY <1>6 DEF Commit
  <2>5. conv' \in [Conv -> Conversation]
    BY <2>1, <2>3, <2>4, PutConv
  <2>6. webhook' \in [Webhook -> Request] /\ \A v \in Webhook : GoodRequest(webhook'[v])
    BY <1>6, Blank, PutRequest DEF Commit
  <2>7. rows' \subseteq Row
    BY <1>6, <2>1 DEF Commit, Row, Typed, TypeOK
  <2> QED
    BY <1>6, <2>5, <2>6, <2>7 DEF Commit, Typed, TypeOK, ghosts, bounds
<1> QED
  BY <1>1, <1>2, <1>3, <1>4, <1>5, <1>6, TypedAbort DEF Serve, Duplicate, WebhookFails

\* The sweep pushes conversations.
LEMMA SweepIsSeq ==
    ASSUME NEW left \in SUBSET Conv, NEW jobs \in [1..Cardinality(left) -> left]
    PROVE  jobs \in Seq(Conv)
<1>1. Cardinality(left) \in Nat
  BY ConvIsNat, FS_Subset, FS_CardinalityType
<1> QED
  BY <1>1

\* Steps of a worker keep the types.
LEMMA TypedWork ==
    ASSUME Typed, NEW k \in Worker, Work(k)
    PROVE  Typed'
<1> DEFINE t == worker[k]
           Put(s) == worker' = [worker EXCEPT ![k] = s]
           Tasks == worker' \in [Worker -> Task] /\ \A j \in Worker : GoodTask(worker'[j])
           At(pc) == [t EXCEPT !.pc = pc]
<1>0. t \in Task /\ GoodTask(t)
  BY DEF Typed, TypeOK
\* Most steps only advance, or end the task.
<1>a. ASSUME Put(Free) PROVE Tasks
  BY <1>a, Blank, PutTask
<1>b. ASSUME NEW pc \in {"load", "send", "sync", "release"}, t.conv \in Conv, Put(At(pc))
      PROVE  Tasks
  <2>1. GoodTask(At(pc))
    BY <1>0, <1>b DEF GoodTask, Task
  <2> QED
    BY <1>b, <2>1, PutTask
<1>1. CASE Start(k)
  <2> DEFINE left == {c \in Conv : Eligible(c) /\ Unanswered(c) # {}}
  <2>1. PICK jobs \in [1..Cardinality(left) -> left] : queue' = queue \o jobs
    BY <1>1 DEF Start
  <2>2. jobs \in Seq(Conv)
    BY <2>1, SweepIsSeq
  <2>3. queue' \in Seq(Conv)
    BY <2>1, <2>2, ConcatProperties DEF Typed, TypeOK
  <2>4. Tasks
    BY <1>1, <1>a DEF Start
  <2> QED
    BY <1>1, <2>3, <2>4 DEF Start, Typed, TypeOK, ghosts, bounds
<1>2. CASE StartUnswept(k)
  <2>1. Tasks
    BY <1>2, <1>a DEF StartUnswept
  <2> QED
    BY <1>2, <2>1 DEF StartUnswept, Typed, TypeOK, ghosts, bounds
<1>3. CASE Pop(k)
  <2> DEFINE s == [t EXCEPT !.pc = "lock", !.conv = Head(queue)]
  <2>1. Head(queue) \in Conv /\ queue' \in Seq(Conv)
    BY <1>3, HeadTailProperties DEF Pop, Typed, TypeOK
  <2>2. GoodTask(s)
    BY <1>0, <2>1 DEF GoodTask, Task
  <2>3. Tasks
    BY <1>3, <2>2, PutTask DEF Pop
  <2> QED
    BY <1>3, <2>1, <2>3 DEF Pop, Typed, TypeOK, ghosts, bounds
<1>4. CASE Acquire(k)
  <2>1. t.conv \in Conv
    BY <1>0, <1>4 DEF Acquire, GoodTask
  <2>2. Tasks
    BY <1>4, <1>b, <2>1 DEF Acquire
  <2> QED
    BY <1>4, <2>1, <2>2 DEF Acquire, Typed, TypeOK, ghosts, bounds
<1>5. CASE Requeue(k)
  <2>1. t.conv \in Conv
    BY <1>0, <1>5 DEF Requeue, GoodTask
  <2>2. queue' \in Seq(Conv)
    BY <1>5, <2>1, AppendProperties DEF Requeue, Push, Typed, TypeOK
  <2>3. Tasks
    BY <1>5, <1>a DEF Requeue
  <2> QED
    BY <1>5, <2>2, <2>3 DEF Requeue, Typed, TypeOK, ghosts, bounds
<1>6. CASE Load(k)
  <2> DEFINE c == t.conv
  <2>1. c \in Conv
    BY <1>0, <1>6 DEF Load, GoodTask
  <2>2. PICK last \in Unanswered(c) :
          worker' = [worker EXCEPT ![k].pc = "turn", ![k].upto = last.order,
                                   ![k].out = conv[c].out, ![k].seen = Unanswered(c)]
    BY <1>6 DEF Load
  <2> DEFINE s == [t EXCEPT !.pc = "turn", !.upto = last.order,
                            !.out = conv[c].out, !.seen = Unanswered(c)]
  <2>3. Unanswered(c) \in SUBSET Row /\ last.order \in Nat
    BY <2>2 DEF Unanswered, Typed, TypeOK, Row
  <2>4. conv[c].out \in BOOLEAN
    BY <2>1 DEF Typed, TypeOK, Conversation
  <2>5. GoodTask(s)
    BY <1>0, <2>1, <2>3, <2>4 DEF GoodTask, Task
  <2>6. Put(s)
    BY <2>2
  <2>7. Tasks
    BY <2>5, <2>6, PutTask
  <2> QED
    BY <1>6, <2>7 DEF Load, Typed, TypeOK, ghosts, bounds
<1>7. CASE NothingToDo(k)
  <2>1. t.conv \in Conv
    BY <1>0, <1>7 DEF NothingToDo, GoodTask
  <2>2. Tasks
    BY <1>7, <1>b, <2>1 DEF NothingToDo
  <2> QED
    BY <1>7, <2>2 DEF NothingToDo, Typed, TypeOK, ghosts, bounds
<1>8. CASE Save(k)
  <2> DEFINE c == t.conv
             s == [t EXCEPT !.pc = "send", !.upto = 0, !.out = FALSE, !.seen = {}]
  <2>1. c \in Conv /\ t.upto \in Nat /\ t.seen \subseteq Row
    BY <1>0, <1>8 DEF Save, GoodTask, Task
  <2>2. PICK ai, out \in BOOLEAN :
          conv' = [conv EXCEPT ![c].ai = ai, ![c].out = out, ![c].mark = t.upto]
    BY <1>8 DEF Save, Mark, Outcome
  <2> DEFINE row == [conv[c] EXCEPT !.ai = ai, !.out = out, !.mark = t.upto]
  <2>3. conv[c] \in Conversation
    BY <2>1 DEF Typed, TypeOK
  <2>4. row \in Conversation
    BY <2>1, <2>3 DEF Conversation
  <2>5. conv' = [conv EXCEPT ![c] = row]
    BY <2>2
  <2>6. conv' \in [Conv -> Conversation]
    BY <2>1, <2>4, <2>5, PutConv
  <2>7. GoodTask(s)
    BY <1>0, <2>1 DEF GoodTask, Task
  <2>8. Put(s)
    BY <1>8 DEF Save
  <2>9. Tasks
    BY <2>7, <2>8, PutTask
  <2>10. replies' \in [Conv -> Nat] /\ answered' \subseteq Row
    BY <1>8, <2>1 DEF Save, Typed, TypeOK
  <2> QED
    BY <1>8, <2>6, <2>9, <2>10 DEF Save, Typed, TypeOK, ghosts, bounds
<1>9. CASE Send(k)
  <2>1. t.conv \in Conv
    BY <1>0, <1>9 DEF Send, GoodTask
  <2>2. Tasks
    BY <1>9, <1>b, <2>1 DEF Send
  <2> QED
    BY <1>9, <2>2 DEF Send, Typed, TypeOK, ghosts, bounds
<1>10. CASE TurnFails(k)
  <2> DEFINE s == [Free EXCEPT !.pc = "sync", !.conv = t.conv]
  <2>1. t.conv \in Conv
    BY <1>0, <1>10 DEF TurnFails, GoodTask
  <2>2. GoodTask(s)
    BY <2>1, Blank DEF GoodTask, Task
  <2>3. Put(s)
    BY <1>10 DEF TurnFails
  <2>4. Tasks
    BY <2>2, <2>3, PutTask
  <2> QED
    BY <1>10, <2>1, <2>4 DEF TurnFails, Typed, TypeOK, ghosts, bounds
<1>11. CASE Sync(k)
  <2> DEFINE c == t.conv
             row == [conv[c] EXCEPT !.card = Target(c)]
  <2>1. c \in Conv
    BY <1>0, <1>11 DEF Sync, GoodTask
  <2>2. conv[c] \in Conversation
    BY <2>1 DEF Typed, TypeOK
  <2>3. Target(c) \in Stage
    BY DEF Target, Stage
  <2>4. row \in Conversation
    BY <2>2, <2>3 DEF Conversation
  <2>5. conv' = conv \/ conv' = [conv EXCEPT ![c] = row]
    BY <1>11 DEF Sync
  <2>6. conv' \in [Conv -> Conversation]
    BY <2>1, <2>4, <2>5, PutConv DEF Typed, TypeOK
  <2>7. Tasks
    BY <1>11, <1>b, <2>1 DEF Sync
  <2> QED
    BY <1>11, <2>6, <2>7 DEF Sync, Typed, TypeOK, ghosts, bounds
<1>12. CASE Release(k)
  <2>1. Tasks
    BY <1>12, <1>a DEF Release
  <2> QED
    BY <1>12, <2>1 DEF Release, Typed, TypeOK, ghosts, bounds
<1>13. CASE Crash(k)
  <2>1. Tasks
    BY <1>13, Blank, PutTask DEF Crash
  <2>2. lock' \in [Conv -> Worker \cup {None}]
    BY <1>13 DEF Crash, Typed, TypeOK
  <2> QED
    BY <1>13, <2>1, <2>2 DEF Crash, Typed, TypeOK, ghosts
<1> QED
  BY <1>1, <1>2, <1>3, <1>4, <1>5, <1>6, <1>7, <1>8, <1>9, <1>10, <1>11, <1>12, <1>13
  DEF Work, Step

\* What people do writes the switch, the funnel or the card of one conversation.
LEMMA TypedPeople ==
    ASSUME Typed, NEW c \in Conv, People(c)
    PROVE  /\ Typed'
           /\ \E row \in Conversation : /\ row.mark = conv[c].mark
                                        /\ conv' = [conv EXCEPT ![c] = row]
           /\ UNCHANGED <<rows, seq, queue, lock, webhook, worker, errors, ghosts, bounds>>
<1>0. conv[c] \in Conversation
  BY DEF Typed, TypeOK
<1>1. /\ \E row \in Conversation : /\ row.mark = conv[c].mark
                                   /\ conv' = [conv EXCEPT ![c] = row]
      /\ UNCHANGED <<rows, seq, queue, lock, webhook, worker, errors, ghosts, bounds>>
  <2>1. CASE TakeOver(c)
    <3> DEFINE row == [conv[c] EXCEPT !.ai = FALSE]
    <3>1. row \in Conversation /\ row.mark = conv[c].mark
      BY <1>0 DEF Conversation
    <3>2. conv' = [conv EXCEPT ![c] = row]
      BY <2>1 DEF TakeOver
    <3> QED
      BY <2>1, <3>1, <3>2 DEF TakeOver
  <2>2. CASE HandBack(c)
    <3> DEFINE row == [conv[c] EXCEPT !.ai = TRUE, !.out = FALSE]
    <3>1. row \in Conversation /\ row.mark = conv[c].mark
      BY <1>0 DEF Conversation
    <3>2. conv' = [conv EXCEPT ![c] = row]
      BY <2>2 DEF HandBack
    <3> QED
      BY <2>2, <3>1, <3>2 DEF HandBack
  <2>3. ASSUME NEW stage \in Stage, Drag(c, stage)
        PROVE  /\ \E row \in Conversation : /\ row.mark = conv[c].mark
                                            /\ conv' = [conv EXCEPT ![c] = row]
               /\ UNCHANGED <<rows, seq, queue, lock, webhook, worker, errors, ghosts, bounds>>
    <3> DEFINE row == [conv[c] EXCEPT !.card = stage]
    <3>1. row \in Conversation /\ row.mark = conv[c].mark
      BY <1>0 DEF Conversation
    <3>2. conv' = [conv EXCEPT ![c] = row]
      BY <2>3 DEF Drag
    <3> QED
      BY <2>3, <3>1, <3>2 DEF Drag
  <2> QED
    BY <2>1, <2>2, <2>3 DEF People
<1>2. conv' \in [Conv -> Conversation]
  BY <1>1, PutConv
<1> QED
  BY <1>1, <1>2 DEF Typed, TypeOK, ghosts, bounds

\* Every step keeps the types.
LEMMA TypedStep == Typed /\ [Next]_vars => Typed'
<1> SUFFICES ASSUME Typed, [Next]_vars PROVE Typed'
  OBVIOUS
<1>1. ASSUME NEW c \in Conv, Expire(c)
      PROVE  Typed'
  BY <1>1 DEF Expire, Typed, TypeOK, ghosts, bounds
<1>2. CASE UNCHANGED vars
  BY <1>2 DEF vars, Typed, TypeOK
<1> QED
  BY <1>1, <1>2, TypedServe, TypedWork, TypedPeople DEF Next

\* Conversations, history, list, locks, requests and workers keep their types.
THEOREM TypeCorrect == Spec => []TypeOK
<1>1. Spec => []Typed
  BY TypedInit, TypedStep, PTL DEF Spec
<1> QED
  BY <1>1, PTL DEF Typed

-----------------------------------------------------------------------------
(* One worker at a time in a conversation. *)

\* Whoever works on a conversation has its lock, which is what makes it alone.
LockHeld == \A k \in Worker, c \in Conv : Holding(k, c) => lock[c] = k

\* What each step of a worker does to who holds what: it takes a free lock, keeps
\* what it holds, or gives it up and frees at most what it held.
LEMMA WorkHolds ==
    ASSUME Typed, NEW k \in Worker, Work(k)
    PROVE  /\ \A j \in Worker, c \in Conv : j # k => (Holding(j, c)' <=> Holding(j, c))
           /\ \/ \E c \in Conv : /\ lock[c] = None
                                 /\ lock' = [lock EXCEPT ![c] = k]
                                 /\ \A d \in Conv : Holding(k, d)' => d = c
              \/ /\ lock' = lock
                 /\ \A c \in Conv : Holding(k, c)' => Holding(k, c)
              \/ \E c \in Conv : /\ Holding(k, c)
                                 /\ lock' = [lock EXCEPT ![c] = None]
                                 /\ \A d \in Conv : ~Holding(k, d)'
<1> USE DEF Holding
<1>0. worker \in [Worker -> Task] /\ GoodTask(worker[k])
  BY DEF Typed, TypeOK
<1>1. \A j \in Worker : j # k => worker'[j] = worker[j]
  BY <1>0 DEF Work, Step, Start, StartUnswept, Pop, Acquire, Requeue, Load, NothingToDo,
     Save, Send, TurnFails, Sync, Release, Crash
<1>2. CASE Start(k) \/ StartUnswept(k) \/ Requeue(k)
  BY <1>0, <1>1, <1>2 DEF Start, StartUnswept, Requeue, Free
<1>3. CASE Pop(k)
  BY <1>0, <1>1, <1>3 DEF Pop, Task
<1>4. CASE Acquire(k)
  <2> DEFINE c == worker[k].conv
  <2>1. c \in Conv
    BY <1>0, <1>4 DEF Acquire, GoodTask
  <2>2. worker'[k].conv = c
    BY <1>0, <1>4 DEF Acquire, Task
  <2>3. lock[c] = None /\ lock' = [lock EXCEPT ![c] = k]
    BY <1>4 DEF Acquire
  <2> QED
    BY <1>1, <2>1, <2>2, <2>3
<1>5. CASE Load(k) \/ NothingToDo(k) \/ Save(k) \/ Send(k) \/ Sync(k)
  <2>1. worker[k].pc \in {"load", "turn", "send", "sync", "release"} /\ lock' = lock
    BY <1>5 DEF Load, NothingToDo, Save, Send, Sync
  <2>2. worker'[k].conv = worker[k].conv
    <3>1. CASE NothingToDo(k) \/ Send(k) \/ Sync(k)
      BY <1>0, <3>1 DEF NothingToDo, Send, Sync, Task
    <3>2. CASE Load(k)
      BY <1>0, <3>2 DEF Load, Task
    <3>3. CASE Save(k)
      BY <1>0, <3>3 DEF Save, Task
    <3> QED
      BY <1>5, <3>1, <3>2, <3>3
  <2> QED
    BY <1>1, <2>1, <2>2
<1>6. CASE TurnFails(k)
  <2>1. worker[k].pc \in {"load", "turn", "send", "sync", "release"} /\ lock' = lock
    BY <1>6 DEF TurnFails
  <2>2. worker'[k].conv = worker[k].conv
    BY <1>0, <1>6, Blank DEF TurnFails, GoodTask, Task
  <2> QED
    BY <1>1, <2>1, <2>2
<1>7. CASE Release(k)
  <2> DEFINE c == worker[k].conv
  <2>1. c \in Conv /\ Holding(k, c)
    BY <1>0, <1>7 DEF Release, GoodTask
  <2>2. lock' = [lock EXCEPT ![c] = None]
    BY <1>7 DEF Release
  <2>3. \A d \in Conv : ~Holding(k, d)'
    BY <1>0, <1>7 DEF Release, Free
  <2> QED
    BY <1>1, <2>1, <2>2, <2>3
<1>8. CASE Crash(k)
  <2>1. \A d \in Conv : ~Holding(k, d)'
    BY <1>0, <1>8 DEF Crash, Down
  <2>2. \/ lock' = lock
        \/ \E c \in Conv : Holding(k, c) /\ lock' = [lock EXCEPT ![c] = None]
    BY <1>8 DEF Crash
  <2> QED
    BY <1>1, <2>1, <2>2
<1> QED
  BY <1>2, <1>3, <1>4, <1>5, <1>6, <1>7, <1>8 DEF Work, Step

LEMMA LockStep ==
    ASSUME ~Slow, Typed, LockHeld, [Next]_vars
    PROVE  LockHeld'
<1>0. lock \in [Conv -> Worker \cup {None}] /\ None \notin Worker
  BY NoneIsNone DEF Typed, TypeOK
<1>1. ASSUME NEW k \in Worker, Work(k)
      PROVE  LockHeld'
  <2>1. \A j \in Worker, c \in Conv : j # k => (Holding(j, c)' <=> Holding(j, c))
    BY <1>1, WorkHolds
  <2>2. CASE \E c \in Conv : /\ lock[c] = None
                             /\ lock' = [lock EXCEPT ![c] = k]
                             /\ \A d \in Conv : Holding(k, d)' => d = c
    BY <1>0, <2>1, <2>2 DEF LockHeld
  <2>3. CASE /\ lock' = lock
             /\ \A c \in Conv : Holding(k, c)' => Holding(k, c)
    BY <2>1, <2>3 DEF LockHeld
  <2>4. CASE \E c \in Conv : /\ Holding(k, c)
                             /\ lock' = [lock EXCEPT ![c] = None]
                             /\ \A d \in Conv : ~Holding(k, d)'
    BY <1>0, <2>1, <2>4 DEF LockHeld
  <2> QED
    BY <1>1, <2>2, <2>3, <2>4, WorkHolds
<1>2. ASSUME NEW c \in Conv, Expire(c)
      PROVE  LockHeld'
  <2>1. worker' = worker /\ lock' = [lock EXCEPT ![c] = None] /\ ~Holding(lock[c], c)
    BY <1>2 DEF Expire
  <2> QED
    BY <1>0, <2>1 DEF LockHeld, Holding
<1>3. ASSUME worker' = worker, lock' = lock
      PROVE  LockHeld'
  BY <1>3 DEF LockHeld, Holding
<1>4. ASSUME NEW w \in Webhook, Serve(w)
      PROVE  worker' = worker /\ lock' = lock
  BY <1>4 DEF Serve, Receive, Reuse, Create, Store, Duplicate, WebhookFails, Abort,
     Enqueue, Commit
<1>5. ASSUME NEW c \in Conv, People(c)
      PROVE  worker' = worker /\ lock' = lock
  BY <1>5 DEF People, TakeOver, HandBack, Drag
<1>6. CASE UNCHANGED vars
  BY <1>3, <1>6 DEF vars
<1> QED
  BY <1>1, <1>2, <1>3, <1>4, <1>5, <1>6 DEF Next

\* A lock that outlasts every turn, or a single worker as in production.
Serialized == ~Slow \/ \A j, k \in Worker : j = k

LEMMA Serially ==
    ASSUME Serialized
    PROVE  Spec => []Exclusive
<1>1. CASE ~Slow
  <2>1. Init => LockHeld
    BY DEF Init, LockHeld, Holding, Down
  <2>2. Typed /\ LockHeld /\ [Next]_vars => LockHeld'
    BY <1>1, LockStep
  <2>3. LockHeld => Exclusive
    BY DEF LockHeld, Exclusive
  <2> QED
    BY <2>1, <2>2, <2>3, TypedInit, TypedStep, PTL DEF Spec
<1>2. CASE \A j, k \in Worker : j = k
  <2>1. Exclusive
    BY <1>2 DEF Exclusive
  <2> QED
    BY <2>1, PTL
<1> QED
  BY <1>1, <1>2 DEF Serialized

\* Two workers are never in the same conversation when the lock outlasts a turn,
\* although releasing it deletes the key whoever owns it.
THEOREM LockExcludes ==
    ASSUME ~Slow
    PROVE  Spec => []Exclusive
BY Serially DEF Serialized

-----------------------------------------------------------------------------
(* Every message is kept once and answered at most once. *)

\* A turn in flight has read turns of its conversation that are above the mark and
\* not above what it will write there.
TurnAboveMark ==
    \A k \in Worker : worker[k].pc = "turn" =>
        /\ worker[k].seen # {}
        /\ \A r \in worker[k].seen : /\ r \in rows /\ r.conv = worker[k].conv
                                     /\ r.order > conv[r.conv].mark
                                     /\ r.order <= worker[k].upto

\* What was answered is at or below the mark.
AnsweredBelowMark == \A r \in answered : r \in rows /\ r.order <= conv[r.conv].mark

\* The unique index, with what is about to enter it.
KeptOnce == /\ \A r, s \in rows : r.msg = s.msg => r = s
            /\ \A w \in Webhook : Inserted(w) =>
                 /\ ~Known(webhook[w].msg)
                 /\ \A v \in Webhook : Inserted(v) /\ webhook[v].msg = webhook[w].msg => v = w

IntakeInv == TurnAboveMark /\ AnsweredBelowMark /\ KeptOnce

\* A request touches no mark and removes nothing; only its commit adds a row.
LEMMA ServeFrame ==
    ASSUME Typed, NEW w \in Webhook, Serve(w)
    PROVE  /\ UNCHANGED <<worker, answered, replies>>
           /\ \A c \in Conv : conv'[c].mark = conv[c].mark
           /\ rows \subseteq rows'
           /\ Commit(w) \/ rows' = rows
<1>0. conv \in [Conv -> Conversation] /\ GoodRequest(webhook[w])
  BY DEF Typed, TypeOK
<1>1. ASSUME NEW c \in Conv, NEW life,
             conv' = [conv EXCEPT ![c].life = life]
      PROVE  \A d \in Conv : conv'[d].mark = conv[d].mark
  BY <1>0, <1>1 DEF Conversation
<1>2. CASE Create(w)
  BY <1>1, <1>2 DEF Create, ghosts
<1>3. ASSUME Abort(w)
      PROVE  /\ UNCHANGED <<worker, answered, replies>>
             /\ \A c \in Conv : conv'[c].mark = conv[c].mark
             /\ rows' = rows
  <2>1. webhook[w].fresh => webhook[w].conv \in Conv
    BY <1>0 DEF GoodRequest
  <2>2. \A c \in Conv : conv'[c].mark = conv[c].mark
    BY <1>1, <1>3, <2>1 DEF Abort
  <2> QED
    BY <1>3, <2>2 DEF Abort, ghosts
<1>4. CASE Commit(w)
  <2>1. webhook[w].conv \in Conv
    BY <1>0, <1>4 DEF Commit, GoodRequest
  <2>2. \A c \in Conv : conv'[c].mark = conv[c].mark
    BY <1>1, <1>4, <2>1 DEF Commit
  <2> QED
    BY <1>4, <2>2 DEF Commit, ghosts
<1>5. CASE (\E m \in Message : Receive(w, m)) \/ Reuse(w) \/ Store(w) \/ Enqueue(w)
  BY <1>5 DEF Receive, Reuse, Store, Enqueue, ghosts
<1> QED
  BY <1>2, <1>3, <1>4, <1>5 DEF Serve, Duplicate, WebhookFails

\* A worker that neither reads nor saves a turn touches none.
LEMMA WorkFrame ==
    ASSUME Typed, NEW k \in Worker, Work(k), ~Load(k), ~Save(k)
    PROVE  /\ UNCHANGED <<rows, seq, answered, replies, webhook>>
           /\ \A c \in Conv : conv'[c].mark = conv[c].mark
           /\ \A j \in Worker : worker'[j].pc = "turn" => worker'[j] = worker[j]
           /\ \A j \in Worker : worker'[j].upto \in {worker[j].upto, 0}
<1>0. conv \in [Conv -> Conversation] /\ worker \in [Worker -> Task] /\ GoodTask(worker[k])
  BY DEF Typed, TypeOK
<1>1. CASE Start(k) \/ StartUnswept(k) \/ Requeue(k) \/ Release(k) \/ Crash(k)
  BY <1>0, <1>1 DEF Start, StartUnswept, Requeue, Release, Crash, Free, Down, ghosts
<1>2. CASE Pop(k)
  BY <1>0, <1>2 DEF Pop, Task, ghosts
<1>3. CASE Acquire(k) \/ NothingToDo(k) \/ Send(k)
  BY <1>0, <1>3 DEF Acquire, NothingToDo, Send, Task, ghosts
<1>4. CASE TurnFails(k)
  <2>1. worker'[k].pc = "sync" /\ worker'[k].upto = 0
    BY <1>0, <1>4, Blank DEF TurnFails, GoodTask, Task, Free
  <2> QED
    BY <1>0, <1>4, <2>1 DEF TurnFails, ghosts
<1>5. CASE Sync(k)
  <2>1. worker[k].conv \in Conv
    BY <1>0, <1>5 DEF Sync, GoodTask
  <2>2. \A c \in Conv : conv'[c].mark = conv[c].mark
    BY <1>0, <1>5, <2>1 DEF Sync, Conversation
  <2> QED
    BY <1>0, <1>5, <2>2 DEF Sync, Task, ghosts
<1> QED
  BY <1>1, <1>2, <1>3, <1>4, <1>5 DEF Work, Step

\* A turn starts on what is above the mark of its conversation.
LEMMA LoadReads ==
    ASSUME Typed, NEW k \in Worker, Load(k)
    PROVE  /\ UNCHANGED <<conv, rows, seq, answered, replies, webhook>>
           /\ \A j \in Worker : j # k => worker'[j] = worker[j]
           /\ worker'[k].pc = "turn" /\ worker'[k].conv = worker[k].conv
           /\ worker'[k].seen = Unanswered(worker[k].conv)
           /\ worker'[k].seen # {}
           /\ \E last \in worker'[k].seen : worker'[k].upto = last.order
           /\ \A r \in worker'[k].seen : r.order <= worker'[k].upto
<1> DEFINE c == worker[k].conv
<1>1. PICK last \in Unanswered(c) :
        /\ \A r \in Unanswered(c) : r.order <= last.order
        /\ worker' = [worker EXCEPT ![k].pc = "turn", ![k].upto = last.order,
                                    ![k].out = conv[c].out, ![k].seen = Unanswered(c)]
  BY DEF Load
<1>2. worker[k] \in Task /\ worker \in [Worker -> Task]
  BY DEF Typed, TypeOK
<1> DEFINE t == [worker[k] EXCEPT !.pc = "turn", !.upto = last.order,
                                  !.out = conv[c].out, !.seen = Unanswered(c)]
<1>3. worker' = [worker EXCEPT ![k] = t]
  BY <1>1
<1>4. t.pc = "turn" /\ t.upto = last.order /\ t.seen = Unanswered(c) /\ t.conv = c
  BY <1>2 DEF Task
<1>5. worker'[k] = t /\ \A j \in Worker : j # k => worker'[j] = worker[j]
  BY <1>2, <1>3
<1>6. UNCHANGED <<conv, rows, seq, answered, replies, webhook>>
  BY DEF Load, ghosts
<1>7. last \in worker'[k].seen /\ worker'[k].upto = last.order
  BY <1>1, <1>4, <1>5
<1>8. \A r \in worker'[k].seen : r.order <= worker'[k].upto
  <2> HIDE DEF t, c
  <2> QED
    BY <1>1, <1>4, <1>5
<1> QED
  BY <1>4, <1>5, <1>6, <1>7, <1>8

\* A turn is saved with what it read, and writes what it read as the mark.
LEMMA SaveWrites ==
    ASSUME Typed, NEW k \in Worker, Save(k)
    PROVE  LET c == worker[k].conv IN
           /\ worker[k].pc = "turn" /\ c \in Conv
           /\ UNCHANGED <<rows, seq, webhook>>
           /\ \A j \in Worker : j # k => worker'[j] = worker[j]
           /\ worker'[k].pc = "send" /\ worker'[k].upto = 0
           /\ conv'[c].mark = worker[k].upto
           /\ \A d \in Conv : d # c => conv'[d] = conv[d]
           /\ answered' = answered \cup worker[k].seen
           /\ replies' = [replies EXCEPT ![c] = @ + 1]
<1> DEFINE t == worker[k]
           c == t.conv
<1>1. t \in Task /\ worker \in [Worker -> Task] /\ GoodTask(t)
  BY DEF Typed, TypeOK
<1>2. t.pc = "turn" /\ c \in Conv
  BY <1>1 DEF Save, GoodTask
<1>3. PICK ai, out \in BOOLEAN :
        conv' = [conv EXCEPT ![c].ai = ai, ![c].out = out, ![c].mark = t.upto]
  BY DEF Save, Mark, Outcome
<1>4. conv[c] \in Conversation /\ conv \in [Conv -> Conversation]
  BY <1>2 DEF Typed, TypeOK
<1> DEFINE row == [conv[c] EXCEPT !.ai = ai, !.out = out, !.mark = t.upto]
<1>5. conv' = [conv EXCEPT ![c] = row]
  BY <1>3
<1>6. row.mark = t.upto
  BY <1>4 DEF Conversation
<1>7. conv'[c].mark = t.upto /\ \A d \in Conv : d # c => conv'[d] = conv[d]
  BY <1>2, <1>4, <1>5, <1>6
<1> DEFINE s == [t EXCEPT !.pc = "send", !.upto = 0, !.out = FALSE, !.seen = {}]
<1>8. s.pc = "send" /\ s.upto = 0
  BY <1>1 DEF Task
<1>9. worker' = [worker EXCEPT ![k] = s]
  BY DEF Save
<1>10. /\ worker'[k].pc = "send" /\ worker'[k].upto = 0
       /\ \A j \in Worker : j # k => worker'[j] = worker[j]
  BY <1>1, <1>8, <1>9
<1> QED
  BY <1>2, <1>7, <1>10 DEF Save

LEMMA IntakeInit == Init => IntakeInv
BY DEF Init, IntakeInv, TurnAboveMark, AnsweredBelowMark, KeptOnce, Inserted, Known, Idle, Down

\* The unique index does its work.
LEMMA KeptOnceServe ==
    ASSUME Typed, KeptOnce, NEW w \in Webhook, Serve(w)
    PROVE  KeptOnce'
<1> USE DEF KeptOnce, Inserted, Known
<1>0. webhook \in [Webhook -> Request] /\ GoodRequest(webhook[w])
  BY DEF Typed, TypeOK
<1>1. ASSUME NEW m \in Message, Receive(w, m)
      PROVE  KeptOnce'
  <2>1. webhook'[w].pc = "open"
    BY <1>0, <1>1, Blank DEF Receive, GoodRequest, Request
  <2>2. \A v \in Webhook : v # w => webhook'[v] = webhook[v]
    BY <1>0, <1>1 DEF Receive
  <2> QED
    BY <1>1, <2>1, <2>2 DEF Receive
<1>2. CASE Reuse(w) \/ Create(w)
  <2>1. webhook'[w].pc = "store"
    <3>1. CASE Reuse(w)
      BY <1>0, <3>1 DEF Reuse, Request
    <3>2. CASE Create(w)
      BY <1>0, <3>2 DEF Create, Request
    <3> QED
      BY <1>2, <3>1, <3>2
  <2>2. \A v \in Webhook : v # w => webhook'[v] = webhook[v]
    BY <1>0, <1>2 DEF Reuse, Create
  <2>3. rows' = rows
    BY <1>2 DEF Reuse, Create
  <2> QED
    BY <2>1, <2>2, <2>3
<1>3. CASE Store(w)
  <2>1. webhook'[w].msg = webhook[w].msg
    BY <1>0, <1>3 DEF Store, Request
  <2>2. \A v \in Webhook : v # w => webhook'[v] = webhook[v]
    BY <1>0, <1>3 DEF Store
  <2>3. /\ ~Known(webhook[w].msg) /\ rows' = rows
        /\ \A v \in Webhook : ~(Inserted(v) /\ webhook[v].msg = webhook[w].msg)
    BY <1>3 DEF Store
  <2> QED
    BY <2>1, <2>2, <2>3
<1>4. ASSUME webhook' = [webhook EXCEPT ![w] = Idle], rows' = rows
      PROVE  KeptOnce'
  <2>1. webhook'[w].pc = "idle" /\ \A v \in Webhook : v # w => webhook'[v] = webhook[v]
    BY <1>0, <1>4 DEF Idle
  <2> QED
    BY <1>4, <2>1
<1>5. CASE Enqueue(w)
  <2>1. webhook'[w].msg = webhook[w].msg /\ webhook[w].pc = "enqueue"
    BY <1>0, <1>5 DEF Enqueue, Request
  <2>2. \A v \in Webhook : v # w => webhook'[v] = webhook[v]
    BY <1>0, <1>5 DEF Enqueue
  <2> QED
    BY <1>5, <2>1, <2>2 DEF Enqueue
<1>6. CASE Commit(w)
  <2> DEFINE new == [msg |-> webhook[w].msg, conv |-> webhook[w].conv,
                     order |-> webhook[w].order]
  <2>1. webhook'[w].pc = "idle" /\ \A v \in Webhook : v # w => webhook'[v] = webhook[v]
    BY <1>0, <1>6 DEF Commit, Idle
  <2>2. rows' = rows \cup {new} /\ new.msg = webhook[w].msg /\ webhook[w].pc = "commit"
    BY <1>6 DEF Commit
  <2>3. \A r, s \in rows' : r.msg = s.msg => r = s
    BY <2>2
  <2>4. ASSUME NEW v \in Webhook, Inserted(v)'
        PROVE  /\ ~Known(webhook[v].msg)'
               /\ \A u \in Webhook : Inserted(u)' /\ webhook'[u].msg = webhook'[v].msg => u = v
    <3>1. v # w /\ webhook'[v] = webhook[v] /\ webhook[v].msg # new.msg
      BY <2>1, <2>2, <2>4
    <3> QED
      BY <2>1, <2>2, <2>4, <3>1
  <2> QED
    BY <2>3, <2>4
<1> QED
  BY <1>1, <1>2, <1>3, <1>4, <1>5, <1>6 DEF Serve, Duplicate, WebhookFails, Abort

\* Steps that read and save no turn keep what turns have read above the mark.
LEMMA IntakeKeeps ==
    ASSUME Typed, TurnAboveMark, AnsweredBelowMark, answered' = answered,
           rows \subseteq rows',
           \A c \in Conv : conv'[c].mark = conv[c].mark,
           \A j \in Worker : worker'[j].pc = "turn" => worker'[j] = worker[j]
    PROVE  TurnAboveMark' /\ AnsweredBelowMark'
<1>1. \A r \in rows : r.conv \in Conv
  BY DEF Typed, TypeOK, Row
<1>2. TurnAboveMark'
  BY <1>1 DEF TurnAboveMark
<1>3. AnsweredBelowMark'
  BY <1>1 DEF AnsweredBelowMark
<1> QED
  BY <1>2, <1>3

LEMMA IntakeLoad ==
    ASSUME Typed, IntakeInv, NEW k \in Worker, Load(k)
    PROVE  IntakeInv'
<1>1. /\ UNCHANGED <<conv, rows, answered, replies, webhook>>
      /\ \A j \in Worker : j # k => worker'[j] = worker[j]
      /\ worker'[k].conv = worker[k].conv
      /\ worker'[k].seen = Unanswered(worker[k].conv)
      /\ worker'[k].seen # {}
      /\ \A r \in worker'[k].seen : r.order <= worker'[k].upto
  BY LoadReads
<1>2. TurnAboveMark'
  BY <1>1 DEF IntakeInv, TurnAboveMark, Unanswered
<1>3. AnsweredBelowMark' /\ KeptOnce'
  BY <1>1 DEF IntakeInv, AnsweredBelowMark, KeptOnce, Inserted, Known
<1> QED
  BY <1>2, <1>3 DEF IntakeInv

\* Saving raises the mark over what the turn read.  No other turn of the
\* conversation is in flight.
LEMMA IntakeSave ==
    ASSUME Typed, IntakeInv, Exclusive, NEW k \in Worker, Save(k)
    PROVE  IntakeInv'
<1> DEFINE c == worker[k].conv
<1>0. /\ worker \in [Worker -> Task] /\ conv \in [Conv -> Conversation]
      /\ rows \subseteq Row /\ c \in Conv
      /\ \A j \in Worker : GoodTask(worker[j])
  BY SaveWrites DEF Typed, TypeOK
<1>1. /\ worker[k].pc = "turn"
      /\ UNCHANGED <<rows, webhook>>
      /\ \A j \in Worker : j # k => worker'[j] = worker[j]
      /\ worker'[k].pc = "send"
      /\ conv'[c].mark = worker[k].upto
      /\ \A d \in Conv : d # c => conv'[d] = conv[d]
      /\ answered' = answered \cup worker[k].seen
  BY SaveWrites
<1>2. ASSUME NEW j \in Worker, j # k, worker[j].pc = "turn"
      PROVE  worker[j].conv # c /\ worker[j].conv \in Conv
  <2>1. worker[j].conv \in Conv
    BY <1>0, <1>2 DEF GoodTask
  <2> QED
    BY <1>0, <1>1, <1>2, <2>1 DEF Exclusive, Holding
<1>3. \A r \in worker[k].seen : r \in rows /\ r.conv = c /\ r.order > conv[c].mark
                                /\ r.order <= worker[k].upto
  BY <1>1 DEF IntakeInv, TurnAboveMark
<1>4. conv[c].mark <= worker[k].upto
  <2>1. PICK r \in worker[k].seen : TRUE
    BY <1>1 DEF IntakeInv, TurnAboveMark
  <2>2. r.order \in Nat /\ conv[c].mark \in Nat /\ worker[k].upto \in Nat
    BY <1>0, <1>3, <2>1 DEF Row, Conversation, Task
  <2> QED
    BY <1>3, <2>1, <2>2
<1>5. TurnAboveMark'
  BY <1>1, <1>2 DEF IntakeInv, TurnAboveMark
<1>6. AnsweredBelowMark'
  <2> SUFFICES ASSUME NEW r \in answered'
               PROVE  r \in rows /\ r.order <= conv'[r.conv].mark
    BY <1>1 DEF AnsweredBelowMark
  <2>1. CASE r \in worker[k].seen
    BY <1>1, <1>3, <2>1
  <2>2. CASE r \in answered
    <3>1. r \in rows /\ r.order <= conv[r.conv].mark
      BY <2>2 DEF IntakeInv, AnsweredBelowMark
    <3>2. r.order \in Nat /\ r.conv \in Conv /\ conv[c].mark \in Nat /\ worker[k].upto \in Nat
      BY <1>0, <3>1 DEF Row, Conversation, Task
    <3>3. CASE r.conv = c
      BY <1>1, <1>4, <3>1, <3>2, <3>3
    <3>4. CASE r.conv # c
      BY <1>1, <3>1, <3>2, <3>4
    <3> QED
      BY <3>3, <3>4
  <2> QED
    BY <1>1, <2>1, <2>2
<1>7. KeptOnce'
  BY <1>1 DEF IntakeInv, KeptOnce, Inserted, Known
<1> QED
  BY <1>5, <1>6, <1>7 DEF IntakeInv

\* What people do to the chat and its card touches none of it.
LEMMA PeopleFrame ==
    ASSUME Typed, NEW c \in Conv, People(c)
    PROVE  /\ UNCHANGED <<rows, answered, replies, webhook, worker, seq>>
           /\ \A d \in Conv : conv'[d].mark = conv[d].mark
<1>0. conv \in [Conv -> Conversation]
  BY DEF Typed, TypeOK
<1>1. CASE TakeOver(c)
  BY <1>0, <1>1 DEF TakeOver, Conversation, ghosts
<1>2. CASE HandBack(c)
  BY <1>0, <1>2 DEF HandBack, Conversation, ghosts
<1>3. CASE \E stage \in Stage : Drag(c, stage)
  BY <1>0, <1>3 DEF Drag, Conversation, ghosts
<1> QED
  BY <1>1, <1>2, <1>3 DEF People

LEMMA IntakeStep ==
    ASSUME Typed, IntakeInv, Exclusive, [Next]_vars
    PROVE  IntakeInv'
<1> USE DEF IntakeInv
<1>1. ASSUME NEW w \in Webhook, Serve(w)
      PROVE  IntakeInv'
  <2>1. KeptOnce'
    BY <1>1, KeptOnceServe
  <2> QED
    BY <1>1, <2>1, ServeFrame, IntakeKeeps
<1>2. ASSUME UNCHANGED <<rows, answered, webhook>>,
             \A c \in Conv : conv'[c].mark = conv[c].mark,
             \A j \in Worker : worker'[j].pc = "turn" => worker'[j] = worker[j]
      PROVE  IntakeInv'
  <2>1. KeptOnce'
    BY <1>2 DEF KeptOnce, Inserted, Known
  <2> QED
    BY <1>2, <2>1, IntakeKeeps
<1>3. ASSUME NEW k \in Worker, Work(k)
      PROVE  IntakeInv'
  <2>1. CASE Load(k)
    BY <2>1, IntakeLoad
  <2>2. CASE Save(k)
    BY <2>2, IntakeSave
  <2>3. CASE ~Load(k) /\ ~Save(k)
    BY <1>2, <1>3, <2>3, WorkFrame
  <2> QED
    BY <2>1, <2>2, <2>3
<1>4. ASSUME NEW c \in Conv, Expire(c)
      PROVE  IntakeInv'
  BY <1>2, <1>4 DEF Expire, ghosts
<1>5. ASSUME NEW c \in Conv, People(c)
      PROVE  IntakeInv'
  BY <1>2, <1>5, PeopleFrame
<1>6. CASE UNCHANGED vars
  BY <1>2, <1>6 DEF vars, ghosts
<1> QED
  BY <1>1, <1>3, <1>4, <1>5, <1>6 DEF Next

-----------------------------------------------------------------------------
(* Dispatch implements Inbox. *)

\* A commit keeps a message, and no other step of a request is seen.
LEMMA ServeMaps ==
    ASSUME Typed, IntakeInv, NEW w \in Webhook, Serve(w)
    PROVE  [InboxSpec!Next]_(InboxSpec!vars)
<1>1. UNCHANGED <<answered, replies>> /\ rows \subseteq rows'
  BY ServeFrame
<1>2. KeptOnce'
  BY KeptOnceServe DEF IntakeInv
<1>3. InboxSpec!Keep
  BY <1>1, <1>2 DEF InboxSpec!Keep, KeptOnce
<1> QED
  BY <1>3 DEF InboxSpec!Next

\* A save replies to what the turn read, none of it answered before.
LEMMA SaveMaps ==
    ASSUME Typed, IntakeInv, NEW k \in Worker, Save(k)
    PROVE  InboxSpec!Next
<1> DEFINE c == worker[k].conv
           batch == worker[k].seen
<1>1. /\ worker[k].pc = "turn" /\ c \in Conv
      /\ rows' = rows
      /\ answered' = answered \cup batch
      /\ replies' = [replies EXCEPT ![c] = @ + 1]
  BY SaveWrites
<1>2. /\ batch # {}
      /\ \A r \in batch : r \in rows /\ r.conv = c /\ r.order > conv[c].mark
  BY <1>1 DEF IntakeInv, TurnAboveMark
<1>3. \A r \in batch : r \notin answered
  <2> SUFFICES ASSUME NEW r \in batch, r \in answered
               PROVE  FALSE
    OBVIOUS
  <2>1. r.order <= conv[c].mark /\ r.order > conv[c].mark
    BY <1>2 DEF IntakeInv, AnsweredBelowMark
  <2>2. r.order \in Nat /\ conv[c].mark \in Nat
    BY <1>1, <1>2 DEF Typed, TypeOK, Row, Conversation
  <2> QED
    BY <2>1, <2>2
<1>4. batch \in SUBSET {r \in rows \ answered : r.conv = c}
  BY <1>2, <1>3
<1>5. InboxSpec!Reply(c)
  BY <1>1, <1>2, <1>4 DEF InboxSpec!Reply
<1> QED
  BY <1>1, <1>5 DEF InboxSpec!Next

LEMMA StepMaps ==
    ASSUME Typed, IntakeInv, [Next]_vars
    PROVE  [InboxSpec!Next]_(InboxSpec!vars)
<1>1. ASSUME UNCHANGED <<rows, answered, replies>>
      PROVE  UNCHANGED InboxSpec!vars
  BY <1>1 DEF InboxSpec!vars
<1>2. ASSUME NEW k \in Worker, Work(k)
      PROVE  [InboxSpec!Next]_(InboxSpec!vars)
  <2>1. CASE Load(k)
    BY <1>1, <2>1, LoadReads
  <2>2. CASE Save(k)
    BY <2>2, SaveMaps
  <2>3. CASE ~Load(k) /\ ~Save(k)
    BY <1>1, <1>2, <2>3, WorkFrame
  <2> QED
    BY <2>1, <2>2, <2>3
<1>3. ASSUME NEW c \in Conv, Expire(c)
      PROVE  UNCHANGED InboxSpec!vars
  BY <1>1, <1>3 DEF Expire, ghosts
<1>4. ASSUME NEW c \in Conv, People(c)
      PROVE  UNCHANGED InboxSpec!vars
  BY <1>1, <1>4, PeopleFrame
<1>5. CASE UNCHANGED vars
  BY <1>1, <1>5 DEF vars, ghosts
<1> QED
  BY <1>2, <1>3, <1>4, <1>5, ServeMaps DEF Next

\* Each message is kept once and answered at most once, by a turn of its own
\* conversation, whatever is delivered again, crashes or expires: provided that
\* turns of one conversation do not overlap.
THEOREM AnsweredOnce ==
    ASSUME Serialized
    PROVE  Spec => ImplementsInbox
<1>1. Init => InboxSpec!Init
  BY DEF Init, InboxSpec!Init
<1>2. Typed /\ IntakeInv /\ [Next]_vars => [InboxSpec!Next]_(InboxSpec!vars)
  BY StepMaps
<1>3. Typed /\ IntakeInv /\ Exclusive /\ [Next]_vars => IntakeInv'
  BY IntakeStep
<1>4. Spec => []Exclusive
  BY Serially
<1> QED
  BY <1>1, <1>2, <1>3, <1>4, TypedInit, TypedStep, IntakeInit, PTL
  DEF Spec, ImplementsInbox, InboxSpec!Spec

-----------------------------------------------------------------------------
(* The mark passes nothing unread, if requests come one at a time.           *)

OneAtATime == \A v, w \in Webhook : v = w

\* Orders are taken and committed in one order, so that a row about to be committed
\* is above every row, every mark and every mark about to be written.
Ordered ==
    /\ \A r \in rows : r.order <= seq
    /\ \A c \in Conv : conv[c].mark <= seq
    /\ \A k \in Worker : worker[k].upto <= seq
    /\ \A w \in Webhook : Inserted(w) =>
         /\ webhook[w].order <= seq
         /\ \A r \in rows : r.order < webhook[w].order
         /\ \A c \in Conv : conv[c].mark < webhook[w].order
         /\ \A k \in Worker : worker[k].upto < webhook[w].order

\* Nothing is at or below the mark that a turn will write but what it has read and
\* what was answered before.
TurnReadsAll ==
    \A k \in Worker : worker[k].pc = "turn" =>
        \A r \in rows : r.conv = worker[k].conv /\ r.order <= worker[k].upto
                        => r \in worker[k].seen \cup answered

OrderInv == Ordered /\ TurnReadsAll /\ MarkCoversRows

LEMMA Numbers ==
    ASSUME Typed
    PROVE  /\ seq \in Nat
           /\ \A r \in rows : r.order \in Nat /\ r.conv \in Conv
           /\ \A c \in Conv : conv[c].mark \in Nat
           /\ \A k \in Worker : worker[k].upto \in Nat
           /\ \A w \in Webhook : webhook[w].order \in Nat
BY DEF Typed, TypeOK, Row, Conversation, Task, Request

\* A request either leaves rows and orders as they are, takes the next order, or
\* commits the order it took.
LEMMA ServeOrders ==
    ASSUME Typed, NEW w \in Webhook, Serve(w)
    PROVE  /\ \A v \in Webhook : v # w => webhook'[v] = webhook[v]
           /\ \/ /\ UNCHANGED <<rows, seq>>
                 /\ Inserted(w)' => Inserted(w) /\ webhook'[w].order = webhook[w].order
              \/ /\ rows' = rows
                 /\ seq' = seq + 1
                 /\ webhook'[w].order = seq + 1
              \/ /\ seq' = seq
                 /\ Inserted(w) /\ ~Inserted(w)'
                 /\ \E r : rows' = rows \cup {r} /\ r.order = webhook[w].order
                           /\ r.conv \in Conv
<1> USE DEF Inserted
<1>0. webhook \in [Webhook -> Request] /\ GoodRequest(webhook[w])
  BY DEF Typed, TypeOK
<1>1. ASSUME NEW m \in Message, Receive(w, m)
      PROVE  /\ \A v \in Webhook : v # w => webhook'[v] = webhook[v]
             /\ UNCHANGED <<rows, seq>> /\ webhook'[w].pc = "open"
  BY <1>0, <1>1, Blank DEF Receive, GoodRequest, Request
<1>2. ASSUME Reuse(w)
      PROVE  /\ \A v \in Webhook : v # w => webhook'[v] = webhook[v]
             /\ UNCHANGED <<rows, seq>> /\ webhook'[w].pc = "store"
  BY <1>0, <1>2 DEF Reuse, Request
<1>3. ASSUME Create(w)
      PROVE  /\ \A v \in Webhook : v # w => webhook'[v] = webhook[v]
             /\ UNCHANGED <<rows, seq>> /\ webhook'[w].pc = "store"
  BY <1>0, <1>3 DEF Create, Request
<1>4. ASSUME Abort(w)
      PROVE  /\ \A v \in Webhook : v # w => webhook'[v] = webhook[v]
             /\ UNCHANGED <<rows, seq>> /\ webhook'[w].pc = "idle"
  BY <1>0, <1>4 DEF Abort, Idle
<1>5. ASSUME Store(w)
      PROVE  /\ \A v \in Webhook : v # w => webhook'[v] = webhook[v]
             /\ rows' = rows /\ seq' = seq + 1 /\ webhook'[w].order = seq + 1
  <2> DEFINE pc == IF webhook[w].msg \in OptOut THEN "commit" ELSE "enqueue"
             r  == [webhook[w] EXCEPT !.order = seq + 1, !.pc = pc]
  <2>1. webhook' = [webhook EXCEPT ![w] = r]
    BY <1>5 DEF Store
  <2>2. r.order = seq + 1
    BY <1>0 DEF Request
  <2> QED
    BY <1>0, <1>5, <2>1, <2>2 DEF Store
<1>6. ASSUME Enqueue(w)
      PROVE  /\ \A v \in Webhook : v # w => webhook'[v] = webhook[v]
             /\ UNCHANGED <<rows, seq>> /\ Inserted(w)
             /\ webhook'[w].order = webhook[w].order
  BY <1>0, <1>6 DEF Enqueue, Request
<1>7. ASSUME Commit(w)
      PROVE  /\ \A v \in Webhook : v # w => webhook'[v] = webhook[v]
             /\ seq' = seq /\ Inserted(w) /\ webhook'[w].pc = "idle"
             /\ \E r : rows' = rows \cup {r} /\ r.order = webhook[w].order
                       /\ r.conv \in Conv
  <2> DEFINE new == [msg |-> webhook[w].msg, conv |-> webhook[w].conv,
                     order |-> webhook[w].order]
  <2>1. rows' = rows \cup {new} /\ new.order = webhook[w].order /\ new.conv \in Conv
    BY <1>0, <1>7 DEF Commit, GoodRequest
  <2> QED
    BY <1>0, <1>7, <2>1 DEF Commit, Idle
<1> QED
  BY <1>1, <1>2, <1>3, <1>4, <1>5, <1>6, <1>7 DEF Serve, Duplicate, WebhookFails

LEMMA OrderServe ==
    ASSUME OneAtATime, Typed, OrderInv, NEW w \in Webhook, Serve(w)
    PROVE  OrderInv'
<1> USE DEF OrderInv, Ordered, TurnReadsAll, MarkCoversRows
<1>1. UNCHANGED <<worker, answered>> /\ \A c \in Conv : conv'[c].mark = conv[c].mark
  BY ServeFrame
<1>2. \A v \in Webhook : v = w
  BY DEF OneAtATime
<1>3. CASE /\ UNCHANGED <<rows, seq>>
           /\ Inserted(w)' => Inserted(w) /\ webhook'[w].order = webhook[w].order
  BY <1>1, <1>2, <1>3, Numbers
<1>4. CASE rows' = rows /\ seq' = seq + 1 /\ webhook'[w].order = seq + 1
  <2>1. Ordered'
    BY <1>1, <1>2, <1>4, Numbers
  <2>2. TurnReadsAll' /\ MarkCoversRows'
    BY <1>1, <1>4, Numbers
  <2> QED
    BY <2>1, <2>2
<1>5. ASSUME seq' = seq, Inserted(w), ~Inserted(w)',
             NEW r, rows' = rows \cup {r}, r.order = webhook[w].order, r.conv \in Conv
      PROVE  OrderInv'
  <2>1. Ordered'
    BY <1>1, <1>2, <1>5
  <2>2. /\ ~(r.order <= conv[r.conv].mark)
        /\ \A k \in Worker : ~(r.order <= worker[k].upto)
    BY <1>5, Numbers
  <2>3. TurnReadsAll' /\ MarkCoversRows'
    BY <1>1, <1>5, <2>2, Numbers
  <2> QED
    BY <2>1, <2>3
<1> QED
  BY <1>3, <1>4, <1>5, ServeOrders

\* A turn reads all that is above the mark, and what is not above it was answered.
LEMMA OrderLoad ==
    ASSUME Typed, OrderInv, NEW k \in Worker, Load(k)
    PROVE  OrderInv'
<1> USE DEF OrderInv
<1>1. /\ UNCHANGED <<conv, rows, seq, answered, webhook>>
      /\ \A j \in Worker : j # k => worker'[j] = worker[j]
      /\ worker'[k].conv = worker[k].conv
      /\ worker'[k].seen = Unanswered(worker[k].conv)
  BY LoadReads
<1>2. PICK last \in Unanswered(worker[k].conv) : worker'[k].upto = last.order
  BY LoadReads
<1>3. last \in rows
  BY DEF Unanswered
<1>4. Ordered'
  BY <1>1, <1>2, <1>3, Numbers DEF Ordered, Inserted
<1>5. ASSUME NEW r \in rows, r.conv = worker[k].conv
      PROVE  r \in worker'[k].seen \cup answered
  <2>1. CASE r.order <= conv[r.conv].mark
    BY <1>5, <2>1 DEF MarkCoversRows
  <2>2. CASE r.order > conv[r.conv].mark
    BY <1>1, <1>5, <2>2 DEF Unanswered
  <2> QED
    BY <2>1, <2>2, Numbers
<1>6. TurnReadsAll'
  BY <1>1, <1>5 DEF TurnReadsAll
<1>7. MarkCoversRows'
  BY <1>1 DEF MarkCoversRows
<1> QED
  BY <1>4, <1>6, <1>7

LEMMA OrderSave ==
    ASSUME Typed, OrderInv, NEW k \in Worker, Save(k)
    PROVE  OrderInv'
<1> DEFINE c == worker[k].conv
<1> USE DEF OrderInv
<1>1. /\ worker[k].pc = "turn" /\ c \in Conv
      /\ UNCHANGED <<rows, seq, webhook>>
      /\ \A j \in Worker : j # k => worker'[j] = worker[j]
      /\ worker'[k].pc = "send" /\ worker'[k].upto = 0
      /\ conv'[c].mark = worker[k].upto
      /\ \A d \in Conv : d # c => conv'[d] = conv[d]
      /\ answered' = answered \cup worker[k].seen
  BY SaveWrites
<1>2. \A w \in Webhook : Inserted(w) => 0 < webhook[w].order
  BY <1>1, Numbers DEF Ordered
<1>3. \A j \in Worker : worker'[j].upto = worker[j].upto \/ worker'[j].upto = 0
  BY <1>1
<1>4. \A d \in Conv : conv'[d].mark = conv[d].mark \/ conv'[d].mark = worker[k].upto
  BY <1>1
<1>5. Ordered'
  BY <1>1, <1>2, <1>3, <1>4, Numbers DEF Ordered, Inserted
<1>6. TurnReadsAll'
  BY <1>1 DEF TurnReadsAll
<1>7. MarkCoversRows'
  BY <1>1, Numbers DEF TurnReadsAll, MarkCoversRows
<1> QED
  BY <1>5, <1>6, <1>7

LEMMA OrderStep ==
    ASSUME OneAtATime, Typed, OrderInv, [Next]_vars
    PROVE  OrderInv'
<1>1. ASSUME UNCHANGED <<rows, seq, answered, webhook>>,
             \A c \in Conv : conv'[c].mark = conv[c].mark,
             \A j \in Worker : worker'[j].pc = "turn" => worker'[j] = worker[j],
             \A j \in Worker : worker'[j].upto \in {worker[j].upto, 0}
      PROVE  OrderInv'
  <2>1. \A w \in Webhook : webhook[w].order > 0 \/ ~Inserted(w) \/ Worker = {}
    BY Numbers DEF OrderInv, Ordered
  <2>2. Ordered'
    BY <1>1, <2>1, Numbers DEF OrderInv, Ordered, Inserted
  <2>3. TurnReadsAll'
    BY <1>1 DEF OrderInv, TurnReadsAll
  <2>4. MarkCoversRows'
    BY <1>1, Numbers DEF OrderInv, MarkCoversRows
  <2> QED
    BY <2>2, <2>3, <2>4 DEF OrderInv
<1>2. ASSUME NEW k \in Worker, Work(k)
      PROVE  OrderInv'
  <2>1. CASE ~Load(k) /\ ~Save(k)
    BY <1>1, <1>2, <2>1, WorkFrame
  <2> QED
    BY <2>1, OrderLoad, OrderSave
<1>3. ASSUME NEW c \in Conv, Expire(c)
      PROVE  OrderInv'
  BY <1>1, <1>3 DEF Expire, ghosts
<1>4. ASSUME NEW c \in Conv, People(c)
      PROVE  OrderInv'
  BY <1>1, <1>4, PeopleFrame
<1>5. CASE UNCHANGED vars
  BY <1>1, <1>5 DEF vars, ghosts
<1> QED
  BY <1>2, <1>3, <1>4, <1>5, OrderServe DEF Next

\* The answered mark passes no message that no turn has read, even when turns
\* overlap, fail or die: provided that requests are served one at a time.
THEOREM MarkIsSafe ==
    ASSUME OneAtATime
    PROVE  Spec => []MarkCoversRows
<1>1. Init => OrderInv
  <2>1. ASSUME Init
        PROVE  Ordered
    BY <2>1 DEF Init, Ordered, Inserted, Idle, Down, NewConv
  <2>2. ASSUME Init
        PROVE  TurnReadsAll /\ MarkCoversRows
    BY <2>2 DEF Init, TurnReadsAll, MarkCoversRows
  <2> QED
    BY <2>1, <2>2 DEF OrderInv
<1>2. Typed /\ OrderInv /\ [Next]_vars => OrderInv'
  BY OrderStep
<1>3. OrderInv => MarkCoversRows
  BY DEF OrderInv
<1> QED
  BY <1>1, <1>2, <1>3, TypedInit, TypedStep, PTL DEF Spec

-----------------------------------------------------------------------------
(* A lead starts over only after its funnel disqualified it. *)

\* Conversations are inserted in order, and one that is kept is the latest.
InsertedInOrder ==
    /\ \A c, d \in Conv : c < d /\ conv[d].life # "none" => conv[c].life # "none"
    /\ (\E c \in Conv : Kept(c)) => \E c \in Conv : Latest(c)

\* A request works on a conversation that is kept, or on the last one inserted.
RequestTarget ==
    \A w \in Webhook :
        /\ webhook[w].pc \in {"idle", "open"} => ~webhook[w].fresh
        /\ webhook[w].pc \in {"store", "enqueue", "commit"} /\ ~webhook[w].fresh
             => Kept(webhook[w].conv)
        /\ webhook[w].fresh
             => /\ conv[webhook[w].conv].life = "new"
                /\ \A d \in Conv : webhook[w].conv < d => conv[d].life = "none"

\* Whatever comes after a kept conversation comes after a disqualified lead.
EarlierAreOut ==
    \A c, d \in Conv : Kept(c) /\ conv[d].life \in {"new", "kept"} /\ c < d => conv[c].out

\* Only a disqualified funnel closes a conversation, and a turn knows of it.
ClosedIsOut  == \A c \in Conv : Closed(c) => conv[c].out
TurnKnowsOut == \A k \in Worker : worker[k].pc = "turn"
                                   => worker[k].out = conv[worker[k].conv].out

StartInv == InsertedInOrder /\ RequestTarget /\ EarlierAreOut /\ ClosedIsOut /\ TurnKnowsOut

\* The parts that speak of lives alone stay when no life and no request changes, as
\* long as no funnel comes back from being disqualified.
LEMMA LivesKept ==
    ASSUME StartInv, webhook' = webhook,
           \A c \in Conv : conv'[c].life = conv[c].life,
           \A c \in Conv : conv[c].out => conv'[c].out,
           \A w \in Webhook : GoodRequest(webhook[w])
    PROVE  InsertedInOrder' /\ RequestTarget' /\ EarlierAreOut'
<1>1. \A c \in Conv : Kept(c)' <=> Kept(c)
  BY DEF Kept
<1>2. \A c \in Conv : Latest(c) => Latest(c)'
  BY <1>1 DEF Latest
<1>3. InsertedInOrder'
  BY <1>1, <1>2 DEF StartInv, InsertedInOrder
<1>4. EarlierAreOut'
  BY <1>1 DEF StartInv, EarlierAreOut
<1>5. RequestTarget'
  <2> SUFFICES ASSUME NEW w \in Webhook
               PROVE  /\ webhook[w].pc \in {"idle", "open"} => ~webhook[w].fresh
                      /\ webhook[w].pc \in {"store", "enqueue", "commit"} /\ ~webhook[w].fresh
                           => Kept(webhook[w].conv)'
                      /\ webhook[w].fresh
                           => /\ conv'[webhook[w].conv].life = "new"
                              /\ \A d \in Conv : webhook[w].conv < d => conv'[d].life = "none"
    BY DEF RequestTarget
  <2>1. webhook[w].pc \in {"store", "enqueue", "commit"} \/ webhook[w].fresh
          => webhook[w].conv \in Conv
    BY DEF GoodRequest
  <2> QED
    BY <1>1, <2>1 DEF StartInv, RequestTarget
<1> QED
  BY <1>3, <1>4, <1>5

\* A new conversation is inserted when the latest one is closed, that is disqualified.
LEMMA StartCreate ==
    ASSUME OneAtATime, Typed, StartInv, NEW w \in Webhook, Create(w)
    PROVE  StartInv'
<1> USE ConvIsNat DEF StartInv
<1>0. conv \in [Conv -> Conversation] /\ webhook \in [Webhook -> Request]
  BY DEF Typed, TypeOK
<1>1. PICK c \in Conv :
        /\ conv[c].life = "none"
        /\ \A d \in Conv : d < c => conv[d].life # "none"
        /\ conv' = [conv EXCEPT ![c].life = "new"]
        /\ webhook' = [webhook EXCEPT ![w].pc = "store", ![w].conv = c, ![w].fresh = TRUE]
  BY DEF Create
<1>2. /\ conv'[c].life = "new" /\ conv'[c].out = conv[c].out
      /\ conv'[c].card = conv[c].card
      /\ \A d \in Conv : d # c => conv'[d] = conv[d]
  BY <1>0, <1>1 DEF Conversation
<1>3. webhook'[w].conv = c /\ webhook'[w].fresh /\ webhook'[w].pc = "store"
  BY <1>0, <1>1 DEF Request
<1>4. \A d \in Conv : Kept(d)' <=> Kept(d)
  BY <1>1, <1>2 DEF Kept
<1>5. \A d \in Conv : c < d => conv[d].life = "none"
  BY <1>1 DEF InsertedInOrder
<1>6. InsertedInOrder'
  <2>1. \A d \in Conv : Latest(d) => Latest(d)'
    BY <1>4 DEF Latest
  <2>2. \A d, e \in Conv : d < e /\ conv'[e].life # "none" => conv'[d].life # "none"
    BY <1>1, <1>2 DEF InsertedInOrder
  <2> QED
    BY <1>4, <2>1, <2>2 DEF InsertedInOrder
<1>7. RequestTarget'
  <2>1. \A v \in Webhook : v = w
    BY DEF OneAtATime
  <2>2. \A d \in Conv : c < d => conv'[d].life = "none"
    BY <1>2, <1>5
  <2> QED
    BY <1>2, <1>3, <2>1, <2>2 DEF RequestTarget
<1>8. \A d \in Conv : Kept(d) => conv[d].out
  <2> SUFFICES ASSUME NEW d \in Conv, Kept(d)
               PROVE  conv[d].out
    OBVIOUS
  <2>1. PICK last \in Conv : Latest(last)
    BY DEF InsertedInOrder
  <2>2. conv[last].out
    BY <2>1 DEF Create, Latest, Reusable, ClosedIsOut
  <2>3. d = last \/ d < last
    BY <2>1 DEF Latest
  <2> QED
    BY <2>1, <2>2, <2>3 DEF EarlierAreOut, Latest, Kept
<1>9. EarlierAreOut'
  BY <1>2, <1>4, <1>8 DEF EarlierAreOut
<1>10. ClosedIsOut'
  BY <1>2 DEF ClosedIsOut, Closed
<1>11. TurnKnowsOut'
  <2>1. worker' = worker
    BY DEF Create
  <2>2. \A d \in Conv : conv'[d].out = conv[d].out
    BY <1>2
  <2> QED
    BY <2>1, <2>2 DEF TurnKnowsOut, Typed, GoodTask
<1> QED
  BY <1>6, <1>7, <1>9, <1>10, <1>11

\* The conversation of a request is kept with its message, or undone with it.
LEMMA StartEnds ==
    ASSUME OneAtATime, Typed, StartInv, NEW w \in Webhook, Abort(w) \/ Commit(w)
    PROVE  StartInv'
<1> USE ConvIsNat DEF StartInv
<1>0. /\ conv \in [Conv -> Conversation] /\ webhook \in [Webhook -> Request]
      /\ GoodRequest(webhook[w])
  BY DEF Typed, TypeOK
<1>1. webhook' = [webhook EXCEPT ![w] = Idle] /\ worker' = worker
  BY DEF Abort, Commit
<1>2. \A v \in Webhook : v = w
  BY DEF OneAtATime
<1>3. RequestTarget'
  BY <1>0, <1>1, <1>2 DEF RequestTarget, Idle
<1>4. CASE conv' = conv
  <2>1. InsertedInOrder' /\ EarlierAreOut'
    BY <1>4 DEF InsertedInOrder, EarlierAreOut, Kept, Latest
  <2>2. ClosedIsOut' /\ TurnKnowsOut'
    BY <1>1, <1>4 DEF ClosedIsOut, TurnKnowsOut, Closed
  <2> QED
    BY <1>3, <2>1, <2>2
<1>5. CASE Abort(w) /\ ~webhook[w].fresh
  BY <1>4, <1>5 DEF Abort
<1>6. ASSUME NEW life \in {"kept", "undone"},
             NEW c \in Conv, c = webhook[w].conv,
             conv' = [conv EXCEPT ![c].life = life],
             life = "undone" => webhook[w].fresh,
             ~webhook[w].fresh => Kept(c)
      PROVE  StartInv'
  <2>1. /\ conv'[c].life = life /\ conv'[c].out = conv[c].out
        /\ conv'[c].card = conv[c].card
        /\ \A d \in Conv : d # c => conv'[d] = conv[d]
    BY <1>0, <1>6 DEF Conversation
  <2>2. ClosedIsOut' /\ TurnKnowsOut'
    BY <1>1, <2>1 DEF ClosedIsOut, TurnKnowsOut, Closed, Typed, GoodTask
  <2>3. /\ conv[c].life \in {"new", "kept"}
        /\ webhook[w].fresh => conv[c].life = "new" /\ \A d \in Conv : c < d => conv[d].life = "none"
    BY <1>6 DEF RequestTarget, Kept
  <2>4. \A d \in Conv : d # c => (Kept(d)' <=> Kept(d))
    BY <2>1 DEF Kept
  <2>5. \A d, e \in Conv : d < e /\ conv'[e].life # "none" => conv'[d].life # "none"
    BY <1>6, <2>1, <2>3 DEF InsertedInOrder
  <2>6. EarlierAreOut'
    <3> SUFFICES ASSUME NEW d \in Conv, NEW e \in Conv, Kept(d)',
                        conv'[e].life \in {"new", "kept"}, d < e
                 PROVE  conv'[d].out
      BY DEF EarlierAreOut
    <3>1. CASE webhook[w].fresh
      BY <1>6, <2>1, <2>3, <2>4, <3>1 DEF EarlierAreOut, Kept
    <3>2. CASE ~webhook[w].fresh
      BY <1>6, <2>1, <2>3, <2>4, <3>2 DEF EarlierAreOut, Kept
    <3> QED
      BY <3>1, <3>2
  <2>7. (\E d \in Conv : Kept(d)') => \E d \in Conv : Latest(d)'
    <3> SUFFICES ASSUME NEW d \in Conv, Kept(d)'
                 PROVE  \E e \in Conv : Latest(e)'
      OBVIOUS
    <3>1. CASE ~webhook[w].fresh
      <4>1. \A e \in Conv : Kept(e)' <=> Kept(e)
        BY <1>6, <2>1, <2>4, <3>1 DEF Kept
      <4> QED
        BY <4>1 DEF InsertedInOrder, Latest
    <3>2. CASE webhook[w].fresh /\ life = "kept"
      <4>1. Kept(c)'
        BY <2>1, <3>2 DEF Kept
      <4>2. \A e \in Conv : Kept(e)' => e <= c
        BY <2>1, <2>3, <2>4, <3>2 DEF Kept
      <4> QED
        BY <1>6, <4>1, <4>2 DEF Latest
    <3>3. CASE life = "undone"
      <4>1. \A e \in Conv : Kept(e)' <=> Kept(e)
        BY <1>6, <2>1, <2>3, <2>4, <3>3 DEF Kept
      <4> QED
        BY <4>1 DEF InsertedInOrder, Latest
    <3> QED
      BY <1>6, <3>1, <3>2, <3>3
  <2> QED
    BY <1>3, <2>2, <2>5, <2>6, <2>7 DEF InsertedInOrder
<1>7. CASE Abort(w) /\ webhook[w].fresh
  <2>1. webhook[w].conv \in Conv
    BY <1>0, <1>7 DEF GoodRequest
  <2>2. conv' = [conv EXCEPT ![webhook[w].conv].life = "undone"]
    BY <1>7 DEF Abort
  <2> QED
    BY <1>6, <1>7, <2>1, <2>2
<1>8. CASE Commit(w)
  <2>1. webhook[w].conv \in Conv /\ webhook[w].pc = "commit"
    BY <1>0, <1>8 DEF Commit, GoodRequest
  <2>2. conv' = [conv EXCEPT ![webhook[w].conv].life = "kept"]
    BY <1>8 DEF Commit
  <2>3. ~webhook[w].fresh => Kept(webhook[w].conv)
    BY <2>1 DEF RequestTarget
  <2> QED
    BY <1>6, <2>1, <2>2, <2>3
<1> QED
  BY <1>5, <1>7, <1>8

LEMMA StartServe ==
    ASSUME OneAtATime, Typed, StartInv, NEW w \in Webhook, Serve(w)
    PROVE  StartInv'
<1> USE ConvIsNat DEF StartInv
<1>0. /\ conv \in [Conv -> Conversation] /\ webhook \in [Webhook -> Request]
      /\ GoodRequest(webhook[w])
  BY DEF Typed, TypeOK
<1>1. ASSUME UNCHANGED <<conv, worker>>, RequestTarget'
      PROVE  StartInv'
  <2>1. InsertedInOrder' /\ EarlierAreOut'
    BY <1>1 DEF InsertedInOrder, EarlierAreOut, Kept, Latest
  <2>2. ClosedIsOut' /\ TurnKnowsOut'
    BY <1>1 DEF ClosedIsOut, TurnKnowsOut, Closed
  <2> QED
    BY <1>1, <2>1, <2>2
<1>2. \A v \in Webhook : v = w
  BY DEF OneAtATime
<1>3. ASSUME NEW m \in Message, Receive(w, m)
      PROVE  StartInv'
  <2>1. webhook'[w].pc = "open" /\ ~webhook'[w].fresh
    BY <1>0, <1>3, Blank DEF Receive, GoodRequest, Request, Idle
  <2>2. RequestTarget'
    BY <1>2, <2>1 DEF RequestTarget
  <2> QED
    BY <1>1, <1>3, <2>2 DEF Receive
<1>4. CASE Reuse(w)
  <2>1. PICK c \in Conv : /\ Kept(c)
                          /\ webhook' = [webhook EXCEPT ![w].pc = "store", ![w].conv = c]
    BY <1>4 DEF Reuse, Latest
  <2>2. webhook'[w].conv = c /\ webhook'[w].fresh = webhook[w].fresh /\ webhook'[w].pc = "store"
    BY <1>0, <2>1 DEF Request
  <2>3. ~webhook[w].fresh
    BY <1>4 DEF Reuse, RequestTarget
  <2>4. RequestTarget'
    BY <1>2, <1>4, <2>1, <2>2, <2>3 DEF RequestTarget, Reuse, Kept
  <2> QED
    BY <1>1, <1>4, <2>4 DEF Reuse
<1>5. CASE Store(w) \/ Enqueue(w)
  <2>1. /\ webhook[w].pc \in {"store", "enqueue"}
        /\ webhook'[w].pc \in {"enqueue", "commit"}
        /\ webhook'[w].conv = webhook[w].conv /\ webhook'[w].fresh = webhook[w].fresh
    BY <1>0, <1>5 DEF Store, Enqueue, Request
  <2>2. conv' = conv
    BY <1>5 DEF Store, Enqueue
  <2>3. RequestTarget'
    BY <1>2, <2>1, <2>2 DEF RequestTarget, Kept
  <2> QED
    BY <1>1, <1>5, <2>2, <2>3 DEF Store, Enqueue
<1> QED
  BY <1>3, <1>4, <1>5, StartCreate, StartEnds DEF Serve, Duplicate, WebhookFails

\* A turn that is saved alone never takes its conversation back from disqualified.
LEMMA StartSave ==
    ASSUME Typed, Exclusive, StartInv, NEW k \in Worker, Save(k)
    PROVE  StartInv'
<1> DEFINE t == worker[k]
<1>0. /\ conv \in [Conv -> Conversation] /\ worker \in [Worker -> Task]
      /\ GoodTask(t) /\ \A w \in Webhook : GoodRequest(webhook[w])
      /\ \A j \in Worker : GoodTask(worker[j])
  BY DEF Typed, TypeOK
<1>1. PICK c \in Conv : c = t.conv /\ t.pc = "turn"
  BY <1>0 DEF Save, GoodTask
<1>2. PICK ai, out \in BOOLEAN :
        /\ t.out => out
        /\ conv' = [conv EXCEPT ![c].ai = ai, ![c].out = out, ![c].mark = t.upto]
  BY <1>1 DEF Save, Mark, Outcome
<1>3. conv[c] \in Conversation
  BY <1>0
<1> DEFINE row == [conv[c] EXCEPT !.ai = ai, !.out = out, !.mark = t.upto]
<1>4. conv' = [conv EXCEPT ![c] = row]
  BY <1>2
<1>5. row.out = out /\ row.life = conv[c].life /\ row.card = conv[c].card
  BY <1>3 DEF Conversation
<1>6. conv'[c] = row /\ \A d \in Conv : d # c => conv'[d] = conv[d]
  BY <1>0, <1>4
<1>7. t.out = conv[c].out
  BY <1>1 DEF StartInv, TurnKnowsOut
<1> HIDE DEF row
<1>8. \A d \in Conv : /\ conv'[d].life = conv[d].life /\ conv'[d].card = conv[d].card
                      /\ conv[d].out => conv'[d].out
  BY <1>2, <1>5, <1>6, <1>7
<1>9. webhook' = webhook
  BY DEF Save
<1>10. InsertedInOrder' /\ RequestTarget' /\ EarlierAreOut'
  <2>1. \A d \in Conv : conv'[d].life = conv[d].life
    BY <1>8
  <2>2. \A d \in Conv : conv[d].out => conv'[d].out
    BY <1>8
  <2> QED
    BY <1>0, <1>9, <2>1, <2>2, LivesKept
<1>11. ClosedIsOut'
  <2> SUFFICES ASSUME NEW d \in Conv, Closed(d)'
               PROVE  conv'[d].out
    BY DEF ClosedIsOut
  <2>1. Closed(d)
    BY <1>8 DEF Closed
  <2> QED
    BY <1>8, <2>1 DEF StartInv, ClosedIsOut
<1>12. TurnKnowsOut'
  <2> SUFFICES ASSUME NEW j \in Worker, worker'[j].pc = "turn"
               PROVE  worker'[j].out = conv'[worker'[j].conv].out
    BY DEF TurnKnowsOut
  <2>1. j # k /\ worker'[j] = worker[j]
    BY SaveWrites
  <2>2. worker[j].conv \in Conv /\ worker[j].conv # c
    BY <1>0, <1>1, <2>1 DEF Exclusive, Holding, GoodTask
  <2> QED
    BY <1>6, <2>1, <2>2 DEF StartInv, TurnKnowsOut
<1> QED
  BY <1>10, <1>11, <1>12 DEF StartInv

\* Without a save, no funnel changes; a card that is closed by it is disqualified.
LEMMA StartWork ==
    ASSUME Typed, Exclusive, StartInv, NEW k \in Worker, Work(k)
    PROVE  StartInv'
<1>0. /\ conv \in [Conv -> Conversation] /\ worker \in [Worker -> Task]
      /\ GoodTask(worker[k]) /\ \A w \in Webhook : GoodRequest(webhook[w])
      /\ \A j \in Worker : GoodTask(worker[j])
  BY DEF Typed, TypeOK
<1>1. ASSUME webhook' = webhook,
             \A c \in Conv : conv'[c].life = conv[c].life /\ conv'[c].out = conv[c].out,
             ClosedIsOut', TurnKnowsOut'
      PROVE  StartInv'
  BY <1>0, <1>1, LivesKept DEF StartInv
<1>2. ASSUME \A c \in Conv : conv'[c].out = conv[c].out,
             \A j \in Worker : worker'[j].pc = "turn" => worker'[j] = worker[j]
      PROVE  TurnKnowsOut'
  BY <1>0, <1>2 DEF StartInv, TurnKnowsOut, GoodTask
<1>3. CASE Sync(k)
  <2>1. PICK c \in Conv : c = worker[k].conv
    BY <1>0, <1>3 DEF Sync, GoodTask
  <2>2. conv' = conv \/ conv' = [conv EXCEPT ![c].card = Target(c)]
    BY <1>3, <2>1 DEF Sync
  <2>3. \A d \in Conv : conv'[d].life = conv[d].life /\ conv'[d].out = conv[d].out
    BY <1>0, <2>2 DEF Conversation
  <2>4. \A d \in Conv : conv'[d].card = conv[d].card \/ conv'[d].card = Target(d)
    BY <1>0, <2>2 DEF Conversation
  <2>5. \A d \in Conv : Target(d) \in Terminal => conv[d].out
    BY DEF Target, Terminal
  <2>6. ClosedIsOut'
    BY <2>3, <2>4, <2>5 DEF StartInv, ClosedIsOut, Closed
  <2>7. webhook' = webhook /\ \A j \in Worker : worker'[j].pc = "turn" => worker'[j] = worker[j]
    BY <1>0, <1>3 DEF Sync, Task
  <2> QED
    BY <1>1, <1>2, <2>3, <2>6, <2>7
<1>4. CASE Load(k)
  <2>1. conv' = conv /\ webhook' = webhook
    BY <1>4, LoadReads
  <2>2. \A j \in Worker : j # k => worker'[j] = worker[j]
    BY <1>4, LoadReads
  <2>3. worker'[k].conv = worker[k].conv
    BY <1>4, LoadReads
  <2>4. worker'[k].out = conv[worker[k].conv].out
    <3>1. PICK last \in Unanswered(worker[k].conv) :
            worker' = [worker EXCEPT ![k].pc = "turn", ![k].upto = last.order,
                                     ![k].out = conv[worker[k].conv].out,
                                     ![k].seen = Unanswered(worker[k].conv)]
      BY <1>4 DEF Load
    <3> DEFINE u == [worker[k] EXCEPT !.pc = "turn", !.upto = last.order,
                                      !.out = conv[worker[k].conv].out,
                                      !.seen = Unanswered(worker[k].conv)]
    <3>2. worker' = [worker EXCEPT ![k] = u]
      BY <3>1
    <3>3. u.out = conv[worker[k].conv].out
      BY <1>0 DEF Task
    <3> QED
      BY <1>0, <3>2, <3>3
  <2>5. TurnKnowsOut'
    BY <2>1, <2>2, <2>3, <2>4 DEF StartInv, TurnKnowsOut
  <2>6. ClosedIsOut'
    BY <2>1 DEF StartInv, ClosedIsOut, Closed
  <2> QED
    BY <1>1, <2>1, <2>5, <2>6
<1>5. CASE Save(k)
  BY <1>5, StartSave
<1>6. CASE ~Load(k) /\ ~Save(k) /\ ~Sync(k)
  <2>1. webhook' = webhook /\ \A j \in Worker : worker'[j].pc = "turn" => worker'[j] = worker[j]
    BY <1>6, WorkFrame
  <2>2. conv' = conv
    BY <1>6 DEF Work, Step, Start, StartUnswept, Pop, Acquire, Requeue, NothingToDo, Send,
       TurnFails, Release, Crash
  <2>3. ClosedIsOut'
    BY <2>2 DEF StartInv, ClosedIsOut, Closed
  <2> QED
    BY <1>1, <1>2, <2>1, <2>2, <2>3
<1> QED
  BY <1>3, <1>4, <1>5, <1>6

\* What people may still do: take a chat over, and reopen a card.
Unclosed == "close" \notin Acts /\ "handback" \notin Acts

LEMMA StartPeople ==
    ASSUME Unclosed, Typed, StartInv, NEW c \in Conv, People(c)
    PROVE  StartInv'
<1>0. conv \in [Conv -> Conversation] /\ \A w \in Webhook : GoodRequest(webhook[w])
  BY DEF Typed, TypeOK
<1>1. UNCHANGED <<webhook, worker>>
  BY PeopleFrame
<1>2. \/ conv' = [conv EXCEPT ![c].ai = FALSE]
      \/ \E stage \in Stage \ Terminal : conv' = [conv EXCEPT ![c].card = stage]
  BY DEF Unclosed, People, TakeOver, HandBack, Drag
<1>3. \A d \in Conv : /\ conv'[d].life = conv[d].life /\ conv'[d].out = conv[d].out
                      /\ conv'[d].card = conv[d].card \/ conv'[d].card \notin Terminal
  BY <1>0, <1>2 DEF Conversation
<1>4. InsertedInOrder' /\ RequestTarget' /\ EarlierAreOut'
  <2>1. \A d \in Conv : conv'[d].life = conv[d].life
    BY <1>3
  <2>2. \A d \in Conv : conv[d].out => conv'[d].out
    BY <1>3
  <2> QED
    BY <1>0, <1>1, <2>1, <2>2, LivesKept
<1>5. ClosedIsOut'
  BY <1>3 DEF StartInv, ClosedIsOut, Closed
<1>6. TurnKnowsOut'
  <2> SUFFICES ASSUME NEW k \in Worker, worker[k].pc = "turn"
               PROVE  worker[k].out = conv'[worker[k].conv].out
    BY <1>1 DEF TurnKnowsOut
  <2>1. worker[k].conv \in Conv
    BY DEF Typed, GoodTask
  <2> QED
    BY <1>3, <2>1 DEF StartInv, TurnKnowsOut
<1> QED
  BY <1>4, <1>5, <1>6 DEF StartInv

LEMMA StartStep ==
    ASSUME OneAtATime, Unclosed, Typed, Exclusive, StartInv, [Next]_vars
    PROVE  StartInv'
<1>1. ASSUME UNCHANGED <<conv, webhook, worker>>
      PROVE  StartInv'
  <2>1. ClosedIsOut' /\ TurnKnowsOut'
    BY <1>1 DEF StartInv, ClosedIsOut, TurnKnowsOut, Closed
  <2>2. InsertedInOrder' /\ RequestTarget' /\ EarlierAreOut'
    BY <1>1, LivesKept DEF Typed
  <2> QED
    BY <2>1, <2>2 DEF StartInv
<1>2. ASSUME NEW c \in Conv, Expire(c)
      PROVE  StartInv'
  BY <1>1, <1>2 DEF Expire
<1>3. CASE UNCHANGED vars
  BY <1>1, <1>3 DEF vars
<1> QED
  BY <1>2, <1>3, StartServe, StartWork, StartPeople DEF Next

\* A lead starts a second conversation only after its funnel disqualified it in the
\* first, whatever turns fail, workers die and chats are taken over: provided that
\* requests are served one at a time, turns of a conversation do not overlap, and
\* nobody closes a card by hand or hands a chat back.
THEOREM StartsOverOnlyWhenOut ==
    ASSUME OneAtATime, Serialized, Unclosed
    PROVE  Spec => []OnlyTheDisqualifiedStartOver
<1>1. Init => StartInv
  <2>1. ASSUME Init
        PROVE  InsertedInOrder /\ EarlierAreOut /\ ClosedIsOut
    BY <2>1, NoneIsNoStage DEF Init, InsertedInOrder, EarlierAreOut, ClosedIsOut, NewConv,
       Kept, Closed, Terminal, Stage
  <2>2. ASSUME Init
        PROVE  RequestTarget /\ TurnKnowsOut
    BY <2>2 DEF Init, RequestTarget, TurnKnowsOut, Idle, Down
  <2> QED
    BY <2>1, <2>2 DEF StartInv
<1>2. Typed /\ Exclusive /\ StartInv /\ [Next]_vars => StartInv'
  BY StartStep
<1>3. StartInv => OnlyTheDisqualifiedStartOver
  BY DEF StartInv, EarlierAreOut, OnlyTheDisqualifiedStartOver, Kept
<1>4. Spec => []Exclusive
  BY Serially
<1> QED
  BY <1>1, <1>2, <1>3, <1>4, TypedInit, TypedStep, PTL DEF Spec
=============================================================================
