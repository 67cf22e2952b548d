----------------------------- MODULE Attention -----------------------------
(***************************************************************************)
(* The inbox of the CRM over the chat of one phone: the opportunities that *)
(* the phone opens one after another, the rows of its two tables of        *)
(* messages, the replies of a person who has taken a conversation over,    *)
(* and whether the board says that the lead is waiting for someone.        *)
(*                                                                         *)
(* Everything the board compares is a time.  A row of a message carries    *)
(* the beginning of the transaction that inserts it, the mark "attended"   *)
(* the clock of the process, so the order of the times is not the order in *)
(* which things became visible.                                            *)
(***************************************************************************)
EXTENDS Integers, FiniteSets, SequencesExt

CONSTANTS Request,          \* replies that may be on their way at the same time
          None,
          MaxOpps,          \* bound: opportunities
          MaxTime           \* bound: times taken

VARIABLES opp,              \* the opportunities, in the order the phone opened them
          said,             \* ai_chat_histories: leads, agent and errors of the agent
          app,              \* app_chat_histories: people, by phone
          sent,             \* ghost: replies that Meta accepted
          inbound,          \* a webhook whose transaction is open
          turn,             \* a turn of the agent that has loaded its window
          reply,            \* what each reply is about to do
          dealt,            \* ghost: lead messages someone had before them when they answered
          raced,            \* ghost: lead messages that met one of the three races below
          now

vars == <<opp, said, app, sent, inbound, turn, reply, dealt, raced, now>>

Opps        == 1..Len(opp)
Opened(t)   == [born |-> t, closed |-> FALSE, ai |-> TRUE, attended |-> 0, mark |-> 0]
Idle        == [pc |-> "idle"]
Row(c, who, t) == [opp |-> c, role |-> who, at |-> t]

\* The rows of a thread_id, and those of the lead in it.
Thread(c)   == {m \in said : m.opp = c}
FromLead(c) == {m.at : m \in {r \in Thread(c) : r.role = "user"}}
Unread(c)   == FromLead(c) \ dealt

\* The mirror of an opportunity shows what people wrote to the phone since it was opened.
People(c)   == {h \in app : h.at >= opp[c].born}

Init == /\ opp = <<>> /\ said = {} /\ app = {} /\ sent = {}
        /\ inbound = None /\ turn = None
        /\ reply = [r \in Request |-> Idle]
        /\ dealt = {} /\ raced = {} /\ now = 0

Tick == now < MaxTime /\ now' = now + 1

----------------------------------------------------------------------------
\* The badge: times of the last message of each party, 0 when there is none.

LastOf(times)  == Max(times \cup {0})
LastSaid(c, who) == LastOf({m.at : m \in {r \in Thread(c) : r.role = who}})
LastReply      == LastOf({h.at : h \in app})

\* Replies of people are looked up by phone, whichever opportunity they were written in.
Activity(c)     == [user |-> LastSaid(c, "user"), agent |-> LastSaid(c, "assistant"),
                    human |-> LastReply]
LastActivity(c) == LET a == Activity(c) IN Max({a.user, a.agent, a.human})

\* Silenced, open, and the last word is the lead's.
Awaiting(c) ==
    LET a == Activity(c) IN
    /\ ~opp[c].ai /\ ~opp[c].closed
    /\ a.user > Max({a.agent, a.human, opp[c].attended})

\* The board, which lists every card whatever its stage.
Board == [c \in Opps |-> [awaiting |-> Awaiting(c), active |-> opp[c].ai,
                          last |-> LastActivity(c), attended |-> opp[c].attended]]

\* The mirror of a card: both tables as one thread, in the order of their times.
AiToMessage(m)  == [sender |-> CASE m.role = "system" -> "system"
                                 [] m.role = "user"   -> "lead"
                                 [] OTHER             -> "agent",
                    at |-> m.at, opp |-> m.opp]
AppToMessage(h) == [sender |-> "human", at |-> h.at, opp |-> h.opp]
BuildThread(ai, human) ==
    LET rows       == {AiToMessage(m) : m \in ai} \cup {AppToMessage(h) : h \in human}
        Earlier(m) == {n \in rows : n.at < m.at}
    IN [i \in 1..Cardinality(rows) |-> CHOOSE m \in rows : Cardinality(Earlier(m)) = i - 1]
CardDetail(c) == [active |-> opp[c].ai, thread |-> BuildThread(Thread(c), People(c))]

----------------------------------------------------------------------------
\* The webhook.

\* The open opportunity takes the message; a closed one, or none, makes a new one.
Target == IF opp = <<>> \/ opp[Len(opp)].closed THEN Len(opp) + 1 ELSE Len(opp)

InboundBegins ==
    /\ inbound = None
    /\ Target <= MaxOpps
    /\ Tick
    /\ inbound' = [opp |-> Target, at |-> now']
    /\ UNCHANGED <<opp, said, app, sent, turn, reply, dealt, raced>>

\* First race: another time was taken while the transaction was open.
InboundCommits ==
    /\ inbound # None
    /\ opp' = IF inbound.opp > Len(opp) THEN Append(opp, Opened(inbound.at)) ELSE opp
    /\ said' = said \cup {Row(inbound.opp, "user", inbound.at)}
    /\ raced' = IF now > inbound.at THEN raced \cup {inbound.at} ELSE raced
    /\ inbound' = None
    /\ UNCHANGED <<app, sent, turn, reply, dealt, now>>

InboundFails ==
    /\ inbound # None
    /\ inbound' = None
    /\ UNCHANGED <<opp, said, app, sent, turn, reply, dealt, raced, now>>

----------------------------------------------------------------------------
\* The agent.

\* Only with the agent on and something above the mark of what it has answered.
Load(c) ==
    /\ turn = None
    /\ opp[c].ai
    /\ LastSaid(c, "user") > opp[c].mark
    /\ Tick
    /\ turn' = [opp |-> c, at |-> now', read |-> FromLead(c)]
    /\ UNCHANGED <<opp, said, app, sent, inbound, reply, dealt, raced>>

\* save_turn: the switch and the mark, whatever they have become since.
Saved(on) == [opp EXCEPT ![turn.opp] = [@ EXCEPT !.ai = on, !.mark = Max(turn.read)]]

\* The reply, if there is one, belongs to the transaction that loaded the window.
\* A hand-off without a service that the agent knows says nothing.
SaveTurn ==
    /\ turn # None
    /\ \E on, speaks \in BOOLEAN :
          /\ on => speaks
          /\ opp' = Saved(on)
          /\ said' = IF speaks THEN said \cup {Row(turn.opp, "assistant", turn.at)} ELSE said
          /\ dealt' = IF speaks THEN dealt \cup turn.read ELSE dealt
    /\ turn' = None
    /\ UNCHANGED <<app, sent, inbound, reply, raced, now>>

\* The model fails: the error is committed first, so the reply that hands the lead over
\* belongs to a later transaction.  Second race: what arrived since the window was loaded.
ModelFails ==
    /\ turn # None
    /\ now + 2 <= MaxTime /\ now' = now + 2
    /\ opp' = Saved(FALSE)
    /\ said' = said \cup {Row(turn.opp, "system", now + 1), Row(turn.opp, "assistant", now + 2)}
    /\ dealt' = dealt \cup turn.read
    /\ raced' = raced \cup (Unread(turn.opp) \ turn.read)
    /\ turn' = None
    /\ UNCHANGED <<app, sent, inbound, reply>>

\* Any other failure is rolled back and told in the thread.
TurnFails ==
    /\ turn # None
    /\ Tick
    /\ said' = said \cup {Row(turn.opp, "system", now')}
    /\ turn' = None
    /\ UNCHANGED <<opp, app, sent, inbound, reply, dealt, raced>>

----------------------------------------------------------------------------
\* A person.

Enter(r, q) == reply[r] = Idle /\ reply' = [reply EXCEPT ![r] = q]

\* _takeover_conversation: only with the agent off.
BeginReply(r, c) ==
    /\ ~opp[c].ai
    /\ Tick
    /\ Enter(r, [pc |-> "send", opp |-> c, at |-> now', read |-> FromLead(c)])
    /\ UNCHANGED <<opp, said, app, sent, inbound, turn, dealt, raced>>

Send(r) ==
    /\ reply[r].pc = "send"
    /\ \/ /\ sent' = sent \cup {reply[r].at}
          /\ reply' = [reply EXCEPT ![r] = [@ EXCEPT !.pc = "mirror"]]
       \/ /\ reply' = [reply EXCEPT ![r] = Idle]         \* Meta refuses: nothing is kept
          /\ UNCHANGED sent
    /\ UNCHANGED <<opp, said, app, inbound, turn, dealt, raced, now>>

\* The lead messages of the other opportunities of the phone that nobody has answered.
Elsewhere(c) == UNION {Unread(d) : d \in Opps \ {c}}

\* add_app_message: message_time is the now() of the transaction.
Written(r, t) == [opp |-> reply[r].opp, at |-> t]

\* Mutant of Mirror: the row carries the time of its insertion.
MirrorStampedLate(r) ==
    /\ reply[r].pc = "mirror"
    /\ Tick
    /\ app' = app \cup {Written(r, now')}
    /\ dealt' = dealt \cup reply[r].read
    /\ raced' = raced \cup Elsewhere(reply[r].opp)
    /\ reply' = [reply EXCEPT ![r] = Idle]
    /\ UNCHANGED <<opp, said, sent, inbound, turn>>

\* Third race: a reply written from another opportunity of the same phone.
Mirror(r) ==
    /\ reply[r].pc = "mirror"
    /\ app' = app \cup {Written(r, reply[r].at)}
    /\ dealt' = dealt \cup reply[r].read
    /\ raced' = raced \cup Elsewhere(reply[r].opp)
    /\ reply' = [reply EXCEPT ![r] = Idle]
    /\ UNCHANGED <<opp, said, sent, inbound, turn, now>>

Dies(r) ==
    /\ reply[r] # Idle
    /\ reply' = [reply EXCEPT ![r] = Idle]
    /\ UNCHANGED <<opp, said, app, sent, inbound, turn, dealt, raced, now>>

MarkAttended(c) ==
    /\ Tick
    /\ opp' = [opp EXCEPT ![c] = [@ EXCEPT !.attended = now']]
    /\ dealt' = dealt \cup FromLead(c)
    /\ UNCHANGED <<said, app, sent, inbound, turn, reply, raced>>

SetAiActive(c) ==
    /\ opp' = [opp EXCEPT ![c] = [@ EXCEPT !.ai = ~opp[c].ai]]
    /\ UNCHANGED <<said, app, sent, inbound, turn, reply, dealt, raced, now>>

\* A card dragged into a stage that closes, or out of it.
Drag(c) ==
    /\ opp' = [opp EXCEPT ![c] = [@ EXCEPT !.closed = ~opp[c].closed]]
    /\ UNCHANGED <<said, app, sent, inbound, turn, reply, dealt, raced, now>>

----------------------------------------------------------------------------
Next == \/ InboundBegins \/ InboundCommits \/ InboundFails
        \/ SaveTurn \/ ModelFails \/ TurnFails
        \/ \E c \in Opps : Load(c) \/ MarkAttended(c) \/ SetAiActive(c) \/ Drag(c)
        \/ \E r \in Request : Send(r) \/ Mirror(r) \/ Dies(r)
        \/ \E r \in Request, c \in Opps : BeginReply(r, c)

Spec == Init /\ [][Next]_vars

----------------------------------------------------------------------------
\* Every time is taken once, by one row, request or mark.
TypeOK ==
    /\ now \in 0..MaxTime
    /\ opp \in Seq([born : 1..MaxTime, closed : BOOLEAN, ai : BOOLEAN,
                    attended : 0..MaxTime, mark : 0..MaxTime])
    /\ said \subseteq [opp : Opps, role : {"user", "assistant", "system"}, at : 1..now]
    /\ app \subseteq [opp : Opps, at : 1..now]
    /\ sent \subseteq 1..now
    /\ \A m, n \in said : m.at = n.at => m = n
    /\ inbound = None \/ (inbound.opp \in 1..Len(opp) + 1 /\ inbound.at \in 1..now)
    /\ turn = None \/ (turn.opp \in Opps /\ turn.read # {})
    /\ \A r \in Request : reply[r] = Idle \/ reply[r].opp \in Opps

\* Who waits is shown (attention.is_awaiting).  While nobody is answering an open opportunity
\* by itself, the board says that the lead waits as long as there is a message that nobody had
\* before them when they answered, whatever replies, turns and marks overlapped with it -- but
\* for the three races that the actions name.
WaitersAreShown ==
    \A c \in Opps : ~opp[c].ai /\ ~opp[c].closed /\ Unread(c) \ raced # {} => Board[c].awaiting

\* The badge is right (attention.is_awaiting, BoardService.get_board and get_card_detail).
\* Who waits is shown, and a card that the board says to wait shows a thread whose last word is
\* the lead's, although the badge takes the replies of people by phone and the thread
\* since the opportunity was opened.
BadgeIsRight ==
    /\ WaitersAreShown
    /\ \A c \in Opps : Board[c].awaiting =>
          LET t == CardDetail(c).thread
          IN \E i \in DOMAIN t : /\ t[i].sender = "lead" /\ t[i].at = Board[c].last
                                /\ \A j \in DOMAIN t : j > i => t[j].sender = "system"

\* What the docstring of is_awaiting says, which each of the three races breaks.
WaitingIsSeen ==
    \A c \in Opps : ~opp[c].ai /\ ~opp[c].closed /\ Unread(c) # {} => Board[c].awaiting

\* The mirror of an opportunity shows what people wrote in it (MirrorRepository.app_history):
\* a later reply to the same phone shows up in the earlier opportunities too.
ThreadIsItsOwn == \A c \in Opps : LET t == CardDetail(c).thread
                                  IN \A i \in DOMAIN t : t[i].opp = c

\* A reply that the lead got is in the mirror, or about to be: not if the process dies.
SentIsMirrored ==
    \A t \in sent : \/ \E h \in app : h.at = t
                    \/ \E r \in Request : reply[r].pc = "mirror" /\ reply[r].at = t

\* A person writes only with the agent off (ReplyService): it may be on by the time of the call.
OnlyToSilenced ==
    [][\A r \in Request : sent' # sent /\ reply'[r] # reply[r] => ~opp[reply[r].opp].ai]_vars
=============================================================================
