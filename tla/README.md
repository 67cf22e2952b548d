# CRM server: specifications, model checking and proofs

This directory holds TLA+ specifications of the CRM server in `src/`: a service
that answers leads on WhatsApp with an AI agent, projects each conversation on
a sales board, validates payment receipts, delivers what was paid (an entry
with a QR code, or links), and admits people at the door of an event. The
specifications are translated from the code under `src/src/server/`; every
definition that stands for code is listed in `PROJECT.json` (`map`) with the
lines it stands for.

Paths below are relative to `src/src/server/`; `crm/`, `agent/`, `outbound/`
and `core/` abbreviate `modules/crm/` and so on.

## 1. Inventory

Two kinds of process run the code: the API (FastAPI, any number of requests at
the same time) and the worker (`worker.py`: one loop for agent turns, one for
receipts, one for scheduled sendings). They share PostgreSQL (READ COMMITTED,
one `AsyncSession` and so one transaction at a time per request or job,
`expire_on_commit=False` in `shared/database.py`) and Redis (two lists and
expiring locks). WhatsApp is outside: a sending may be taken, refused, or taken
without our learning it.

| Component | State | Operations | Interacts with | What is hard | What makes it correct |
|---|---|---|---|---|---|
| Dispatch queue and worker (`shared/dispatcher.py`, `worker.py`, `agent/services/dispatch_handler.py`, `catch_up_service.py`) | Redis lists, lock keys with a TTL | enqueue, pop, lock, release, catch-up on start | webhook, agent turn, receipts, fulfillment | BRPOP loses a job on a crash; the lock expires and has no owner | one turn per conversation at a time; every inbound is answered in the end |
| Webhook (`agent/services/webhook_service.py`, `agent/api/webhook_router.py`) | conversations, history rows | deduplicate, create or reuse a conversation, store, enqueue | dispatch, receipts, opt-outs, statuses | repeated and concurrent webhooks; enqueue before commit | a message is stored and served once; one open conversation per lead |
| Agent turn (`agent_service.py`, `router.py`, `agent_tools.py`, `funnel_fsm.py`, `handoff_service.py`, `conversation_store.py`) | funnel stage, AI switch, `answered_through_order`, handoff events | route, call tools, advance, answer, save, hand over, capture a service | LLM, WhatsApp, card projection | five transactions a turn; saves before it sends; overwrites what a person changed meanwhile | nothing is answered twice; who is handed over reaches people |
| Card projection (`crm/services/card_service.py`, `crm/domain/stage_mapping.py`) | stage of the card, `closed_at` | sync | agent turn, board | races with a person's moves | never pulls a card back; closed means closed |
| Board, opportunities, contacts (`board_service.py`, `opportunity_service.py`, `contact_service.py`) | `card`, `card_move`, `card_service`, `contact` | move, take over, create, edit, delete, assign services | projection, fulfillment, reconciliation | last writer wins | `closed_at` agrees with the stage; who is won has a name |
| Receipt validation (`receipt_validation_service.py`, `receipt_context.py`, `receipt_trigger.py`, `receipt_checks.py`, `money.py`, `beneficiary.py`) | `payment_receipt`, `agent:vision` | queue, read, compare, store, approve, fail | vision model, board, fulfillment | two commits; reads before it locks; the same transfer in two cards | a message has one verdict, a transfer pays once, doubt goes to a person |
| Receipt review (`receipt_review_service.py`) | approval, note, claim of the transaction | validate_payment | board, fulfillment | overlaps with the automatic path | a person's decision stands |
| Reconciliation (`payment_reconciliation_service.py`) | confirmation, rejection, `revoked_at` | list, confirm, reject | board, door | overlaps with a delivery in flight | a rejected payment lets nobody in |
| Fulfillment (`fulfillment_service.py`, `entry_service.py`, `delivery_*.py`) | `qr_entry`, flags, stage | deliver, generate_entry, retries | WhatsApp, board, agenda, door | sends before it commits; several requests deliver one card | send first and move later; one entry per card |
| Delivery plan (`crm/domain/delivery.py`) | none | plan_delivery, plan_for | fulfillment | every kind of link, modality and gate | what is paid is served, or a person is told |
| Agenda (`event_service.py`, `event_repository.py`) | `event`, seats | create, edit, delete, resolve | fulfillment, door, catalogue | capacity counted before the insert | no more live entries than seats |
| Door (`redemption_service.py`, `entry_admission.py`, `redemption_router.py`) | `used_at`, `used_manually` | redeem, check_in, attendance | reconciliation, agenda | two devices and one entry | one person per entry |
| Flags (`card_flags.py`, `card_delivery_repository.py`) | `card.flags` | add, remove, replace | all of the above | the list is written whole | no aviso is lost |
| Outbound (`outbound/services/*`) | `outbound_message`, opt-outs | reminders, reactivations, sends by hand, statuses | WhatsApp, fulfillment, webhook | one commit per job, dedupe keys, late statuses | nothing is sent twice, nor beyond the cap, nor to who opted out |
| Users, tenants, sessions, magic links (`core/services/*`, `core/api/*`, `scripts/create_user.py`) | users, memberships, tokens, links | log in, register, invite, change, remove, deactivate | all routers | decides on what another request changes | somebody runs the platform; a removal stays in its tenant |
| Catalogue (`catalog_service.py`, `category_service.py`, `asset_service.py`, `catalog_snapshot_service.py`) | services, categories, materials, files, the snapshot in `agent.config` | edit, upload, project | agent turn, agenda | three transactions an edit; a JSON column with two writers | the agent offers what is there |
| Delivery links (`service_link_service.py`) | `service_link` | create under a limit, edit, delete, list | delivery plan | counts before it inserts | all the links of a service are delivered |
| Payment QR (`payment_settings_service.py`, `payment_qr_service.py`) | row and file | update, upload, remove | agent turn | row and file in two steps | a row that names a file has it |
| Inbox of a person (`reply_service.py`, `mirror_repository.py`, `attention.py`) | `app_chat_histories`, badge | reply, attend, list | webhook, agent turn | rows dated at the start of their transactions | who waits is seen waiting |
| Adapters, pub/sub, probes, scripts, migrations | - | - | - | - | out of scope (section 6) |

`PROJECT.json` lists the same components with their status and, under
`hazards`, what in this code is hard to test, each at its line and with the
properties that would notice it going wrong.

## 2. Plan

The modules were written in the order in which the program matters to who pays:
the door and the delivery, the intake, the receipts, the board, then the outbound
templates and the back office. All of these are done:

1. `Admission` (abstract) and `Door`; `Fulfillment`.
2. `Inbox` (abstract) and `Dispatch`.
3. `Receipt`, and `ReceiptChecks` for what a verdict is made of.
4. `FunnelRules` and `DeliveryPlan` as functions; `Funnel`, which uses the former.
5. `Outbound`.
6. `Access`, `Catalogue`, `ServiceLinks`, `PaymentQr`, `Attention`.
7. Theorems about each of them: every invariant, every action property and the two refinements that a
   run checks are one. What the runs alone show is liveness.

Left, in this order: the composition of `Fulfillment` and `Door` on one `qr_entry`
table (each of them already models what the other does to the row); a change of an
event's capacity; the heartbeat and the shutdown of the worker.

## 3. Modules

| Module | What it is |
|---|---|
| `Admission` | what an entry promises: issued, used once or annulled, one person on the use that consumed it |
| `Door`, `MCDoor` | requests at the door against the office; refines `Admission` |
| `Fulfillment`, `MCFulfillment` | requests that deliver cards against everything that happens to the cards |
| `DeliveryPlan` | `plan_delivery` and `plan_for` as functions |
| `Inbox` | what the intake promises: a message is kept once, a turn replies to what no turn has replied to |
| `Dispatch`, `MCDispatch` | webhook requests, the list of turns, workers, locks, turns, and people at the board; refines `Inbox` |
| `Receipt`, `MCReceipt` | photos, their queue, the job of vision, and people that approve, drag, confirm and reject |
| `ReceiptChecks`, `MCReceiptChecks` | what a verdict is made of: parsing of amounts, dates and names, the six checks; and small inputs for them |
| `MCFunctions` | the pure functions of `ReceiptChecks` and `DeliveryPlan` over every small input |
| `FunnelRules` | the stage machine, the tools of the agent, the router, and the mapping of stages, as functions |
| `Funnel`, `MCFunnel` | turns transaction by transaction, the projection of the card, and people at the board |
| `Outbound`, `MCOutbound` | the scheduled sendings, sendings by hand, statuses and opt-outs |
| `Access` | users, tenants, sessions and magic links |
| `Catalogue` | the catalogue, its files, the form of the agent and the snapshot the agent reads |
| `ServiceLinks` | the delivery links of a service |
| `PaymentQr` | the row and the file of the payment QR |
| `Attention` | the chat of a phone, who waits in it, and what a person sends |
| `MCOffice` | `Access`, `Catalogue`, `ServiceLinks`, `PaymentQr` and `Attention` instantiated for TLC |
| `Door_proofs`, `Fulfillment_proofs`, `Dispatch_proofs`, `Receipt_proofs`, `Funnel_proofs`, `Outbound_proofs` | theorems about the module of each name; `Funnel_proofs` those about `FunnelRules` too |
| `Office_proofs` | theorems about `Access`, and about `PaymentQr`, `ServiceLinks`, `Catalogue` and `Attention` under the names that `MCOffice` gives them (`Qr`, `Lnk`, `Cat`, `Chat`); and about the composition of the five |
| `Functions_proofs` | theorems about the functions of `ReceiptChecks` and `DeliveryPlan`, on inputs of any size |

Everywhere an action is the code between two points where another request can see
or change something: a commit, an answer from outside, a read, a statement that may
wait. A constant `Overlap` says whether the transactions of the module may interleave
at those points; what holds only with `Overlap = FALSE` is listed as such in sections
4 and 5. Where a variable is called a ghost, no guard reads it but to bound a run, and
it stands for no line of code.

### Door

`entries` is the `qr_entry` table (one row per card, so entries are named by
their cards), `desk` the requests being served at the door, `admissions` the
people let in with each entry: the screen turned green or amber.

An admission is three steps, the points at which other transactions can be
seen: `Admit` (the row is read and `_rejection` decides, in its order), then
`Consume` or `LoseRace` (the conditional UPDATE, which matched one row or none),
then `LetIn` (the answer). `Redeem` and `CheckIn` are the two ways in; they differ
in `used_manually`. `Misread` is a code that is no entry of this organization.
`Issue`, `Revoke`, `DeleteCard` and `DeleteEvent` are what the office does to
the row; `Issue` and `DeleteEvent` may reuse an event, which the code does not,
and only adds behaviours. `Crash` is a request that dies or whose answer is lost.
`Attendance` is what the list of attendance counts (`redemption_router.py`): `Holders`
are the entries in force, `CheckedIn` those marked used.

### Fulfillment

State and code:

- `card`: stage, the last actor that moved it (`user`, or `system` =
  `SYSTEM_ACTOR`), flags and `kind`. A kind is what the services of the card
  amount to for `plan_delivery`: `none` (no service, or no modality), `ambiguous`
  (more than one), `nolink` (virtual without access), `virtual`, `entry` (in
  person or hybrid, complete) and `nomaps` (the same, with the `missing_link`
  warning).
- `entry`: the committed `qr_entry` rows. A token is a number, new for each
  `uuid4` (`minted` counts them); 0 is no row.
- `templated`, `noticed`: the committed dedupe keys of the entry template and
  the tagged rows `payment_confirmed_notice`.
- `agenda`: `none`, `open` (a date to come, active) or `shut`.
- `lead`: what reached the lead's phone, which no rollback undoes.
- `session`: the requests. `snap` is what the identity map of the request's
  session returns for its cards, read at the beginning and never refreshed;
  `open` and `key` are what its transaction inserted and has not committed;
  `todo` are the cards a retry still has to take, in `created_at` order.
- `rejected`: a history variable, the payments rejected and not validated since.

Each action is the code between two points where other requests can see or
change something: a commit, an answer of WhatsApp, an insert that may wait, a
read. `Plan` is `DeliveryPlanner.plan_for` with the gate of the agenda; `Insert`
and `Flush` the lookup and the INSERT of `issue_and_send`; `SendDelivered`,
`SendOutsideWindow` and `SendFails` the outcomes of the sending; `SendTemplate`,
`TemplateNotSent` and `Claim` the fallback by template; `Record`, `Move`,
`Clear` and `Close` the four commits after a delivery; `Notify`, `Note` and
`Block` those of a blocked plan. `Validate`, `RetryOnInbound`, `EditEvent` and
`GenerateEntry` begin a request, with the read or the move that comes first.
`Drag`, `SetService`, `Reject`, `ExtraReceipt`, `EventEnds` and `DeleteEvent`
are what operators, reconciliation, the webhook and the clock do meanwhile, one
transaction each.

Details of the code that shape the model:

- A retry of several cards logs an error and goes on with the next one without
  a rollback (`_deliver`), so a later commit publishes the entry that the failed
  delivery inserted (`Raise`). When nothing commits afterwards it is lost.
- A failed INSERT poisons the session, so the rest of that request does nothing
  (`Flush` and `Claim` end it).
- INSERTs on a unique key wait for the transaction that holds it (`Inserting`,
  the second conjunct of `Claim`); DELETE of an event waits for the inserts that
  refer to it.
- `set_flags` writes only when the new list differs from the one read (`SetFlags`);
  SQLAlchemy leaves an unchanged attribute out of the UPDATE.
- The button issues an entry whatever the plan is; if the service turned virtual
  between its check and the plan, the entry has no event (`PlanVirtual`).

Abstractions: which open event is taken is a choice (the code takes the next
by date); all events have the same capacity and it does not change; the mirror
rows of the thread, contacts, `RECEIPT_REVIEW` and `PAYMENT_UNCONFIRMED` are left
out, and so is the deletion of an opportunity in the middle of its delivery.

### Dispatch

State and code (one lead, that is one phone, of one tenant):

- `conv`: the `conversation` rows with their cards. `life` is the transaction that
  inserted the row (`new` in flight, `kept` committed, `undone` rolled back); ids
  follow the order of `created_at`, which here is that of the inserts (in the code,
  of the transactions that insert). `ai` is `is_ai_active`, `out` that the funnel
  is disqualified, `mark` is `answered_through_order`. `card` is the stage of the
  card as far as it matters here: an open or a terminal stage of either board, or no
  card yet. `closed_at` is set and cleared with the stage (`apply_closed_state` on
  every move), so `Closed` reads it off the card.
- `rows`: the lead's committed turns in `ai_chat_histories`; `seq` the sequence of
  `message_order`. The agent's own rows take numbers of the same sequence and are
  never compared with anything, so they are left out.
- `queue`: the list `agent:dispatch`, LPUSH at the end and BRPOP at the head;
  `lock`: the key of a conversation. The code stores "1"; the owner is a ghost that
  only `Expire` reads.
- `webhook`: the requests of Meta in flight, by the point of their transaction;
  `worker`: the processes, by the point of their job, with what the turn in flight
  has read.
- `errors`: conversations where a turn failed and the thread says so.
- `answered`, `replies`: ghosts, what saved turns had read and how many there were.

A request is `Receive` (the check of the wamid), `Reuse` or `Create`, `Store` (the
INSERT that takes `message_order`; the unique index on the wamid makes it wait for a
copy in flight, and `Duplicate` is its failure), `Enqueue`, `Commit`. An opt-out goes
from the insert to the commit. `WebhookFails` is any exception or death on the way:
the transaction is rolled back, a job already pushed stays, and Meta has its 200. A
request of the model carries one message; a payload with several is one transaction
for all of them.

A worker is `Start` (the catch-up, whose failure is `StartUnswept`), `Pop`, `Acquire`
or `Requeue`, `Load` or `NothingToDo`, `Save`, `Send`, `Sync`, `Release`.
`process_message` reads at `Load` and writes at `Save` what it decided there: only the
mark, the switch and the funnel are written, and the row is read again, so nothing but
those is overwritten. What the model answers, whether it hands the chat over and
whether it disqualifies the lead are choices. `TurnFails` is whatever is caught by the
handler: it is rolled back, told in the thread, and the job goes on to `Sync`.
`Release` deletes the key without looking whose it is. `Crash` is the death of the
process at any point; an error outside the handler's own try also frees the lock.

`Sync` is one step: the read, the move and the commit of `CardService.sync`. It runs
at the end of every job, also of one that found nothing to do. What it holds back are
moves inside the board after the sale.

Abstractions: a turn reads everything above the mark, and not the last ten rows; the
media of a message, the job of its receipt, the retry of a delivery at the end of a
job, summaries and pub/sub are left out; the row that tells of a failure is always
written; a person's toggle or drag is one transaction.

### Receipt and ReceiptChecks

- `photo`: the message of each photo: not arrived, `arriving` (its webhook has not
  committed), `kept`, `undone`; with the card and the image it carries. Photos are
  named by their wamid.
- `card`: stage (`sale` is any stage of the board of the agent) and the two avisos of
  a receipt.
- `receipt`: `payment_receipt`, oldest first. `sha` is the hash, or the placeholder that
  the code makes of the wamid when there is no image or the image is of another row.
- `queue`, `lock`: `agent:vision` and the keys of its jobs; `job`: what each worker has
  read and at what point it is.
- `turn`: the dispatch job of the conversation as far as it queues photos
  (`receipt_trigger.py`): `Answer`, `Sync`, `Trigger`, or `NoTrigger`.

The webhook is `Arrive` (which queues the job before its commit), `Keep` or `Undo`. The
job of vision is `Pop`, `Look` (or `LookAgain`, of a photo that has a row already), `Read`
(the model and the checks, with the lookup of the reference at that moment), `Store`
(INSERT and commit, or the conflict that ends the job), `Compare`, `Approve`, `Release`;
`Crash` and `Expire` as in `Dispatch`: the key of a job ends whatever the job does, unless
`Slow` is `FALSE`. People `Validate` from the panel, `Drag`, `Deliver`,
`Confirm` and `Reject`.

What a reading is worth is a choice among `Reading` in `Receipt`. `ReceiptChecks` is the
function behind it: how an amount is read from a text with separators (`ToDecimal`), how
masked and partial names match (`MatchesBeneficiary`), and the six checks of `Evaluate`.
`MCReceiptChecks` enumerates inputs for it, and `MCReceipt` assumes, and TLC evaluates, that
the `Reading` it gives to `Receipt` is exactly what those functions return over them
(`ReadingsAreVerdicts`). Digits are a length and a value, letters a sequence of model
letters, dates a number of days.

### DeliveryPlan

`plan_delivery` and `plan_for` as functions of the services of a card, their links in the
order of the relation, the event and what was issued before. `Fulfillment` keeps the
six kinds of outcome that its control tells apart; here the plan is whole. A state of
`MCFunctions` is one input of one function, so its invariants range over all of them.

### FunnelRules and Funnel

`FunnelRules` holds the functions: the stage machine (`AllowedTransitions`, `Advance`,
`Reopen`), each tool of the agent, the loop of the model (`Generate`: batches of calls, the
limit of iterations, the reply that is asked for again), the router (`Route`) and the
mapping of a stage to a column of the board (`TargetStage`).

`Funnel` is one lead with several opportunities: `conv` and `card` rows, how each service
came to the card (`services`), the reason of the latest handoff (`event`), the `contact` of
the phone, what waits to be read (`unread`), the jobs, and the turn of each conversation.
A turn is one action per transaction: `Load` or `NothingToDo`, `SaveTurn`, `SaveFullName`,
`OnHandoff`, `OnCaptured`, then `SyncRead` and `SyncWrite`; `TurnFails` rolls back the
transaction it is in and still projects the card, `Crash` does not. What a turn decides is
folded from the calls of the model by `FunnelRules` (`Outcomes`). Turns of one conversation
do not overlap, which `Dispatch` establishes. People take over, hand back, win, drag, edit,
open by hand, delete, assign services, and keep the book of contacts.

### Outbound

- `taken`: what Meta took, in order, each with its lead, its dedupe key, its day and its
  `row`: the status the committed row has, or `None` while the job that sent it has not
  committed. `lost` says that the row was rolled back.
- `session`: the jobs of a runner (a worker's loop of reminders and reactivations) and the
  requests of a desk (a person sends by hand). `todo` are the leads still to be taken;
  `rows` what the transaction has inserted.
- `hooks`: the statuses being written, with what the request read; `opted`, `live` (holds an
  entry in force), `candidate`, `active`, `day`.

A send is `Send` (opt-out, key and cap, then the row is flushed), the call (`Take`,
`Refuse`, `LoseAnswer`) and `Claim`; `Commit` or `Fails` ends the job with all of its sendings.
A status is `Notify` (the read) and `Write`. `late` counts, for each lead that opts out, the
sends already past their check; `OptOutHonoured` says that no other reaches it.

### Access

`asked -> Decide -> Write` is a request of a manager or an operator: the token gives the
role, the database the rest, and what the guard saw is acted on afterwards. Deleting a user
takes its membership away, or, when it saw no other one, the account with all it has (`Wipe`). `Login`, `Register`, `AskLink`, `OpenLink`
and `Redeem` are the ways in, `Script` and `CreateSuperuser` the command lines, and
`TokenExpires`, `LinkExpires` the clock. `Flag` is what `create_user.py` may be given for
`--superuser`.

### Catalogue, ServiceLinks, PaymentQr

An edit of `Catalogue` is the change and its commit, then the projection of the agent
(`ReadAgent`, `Project`, `Write`) and last the files (`Unlink`); `SubmitForm` writes the form in
the same column. `ServiceLinks` counts and adds in two steps, and loads and writes in two.
`PaymentQr` stores the file, writes the row, and deletes the file that it replaced. The ghosts
`blurred` and `crowded` are set when two requests overlap (or a request dies), and the properties
of the runs that are about what is left in peace name them.

### Attention

One phone and its opportunities. Rows carry the time at which their transaction began, which
is what `now()` gives and what makes the order of rows differ from the order of commits.
`InboundBegins`/`Commits`/`Fails`, `Load`/`SaveTurn`/`ModelFails`/`TurnFails` and
`BeginReply`/`Send`/`Mirror`/`Dies` are the lead, the agent and a person; `Board` and `CardDetail` are
what the screens compute. `raced` marks the three ways in which `BadgeIsRight` does not hold:
an inbound whose transaction is open while something else is written (`attention.py:56`), the
error of a model that is committed before the turn (`agent_service.py`), and a reply from another
opportunity of the same phone (`mirror_repository.py:53`). Each is a finding of its own.

### Simplifications of these modules

The change of rows and its commit are one step where nothing is read in between; a drag's
move and its approval are one step; the three SELECTs of a snapshot are one step.

## 4. Runs

All of these pass; sizes are distinct states.

| Run | Instance | Question |
|---|---|---|
| `door` | 1 entry, 2 events, 3 requests; 73 727 | does one person get in, to the right event, and does `Door` implement `Admission`? |
| `fulfillment` | 1 card, 2 requests, crashes and lost answers; 844 161 | is a lead always served before the system moves the card, and is there one entry that stands? |
| `fulfillment_alone` | 2 cards, 3 requests one after another, no faults; 1 159 044 | are the seats respected and is the lead told once, without overlap? |
| `fulfillment_agenda` | 2 cards, 2 retries at once, with faults; fairness; 54 847 | does every request end? |
| `dispatch` | 2 messages, one of them an opt-out, delivered twice; 1 request, 1 worker with slow turns, 1 crash, all faults, all that people do; 2 904 174 | does the intake keep and answer each message once, and does the mark pass nothing unread? |
| `dispatch_redelivery` | the same message in 2 requests at once that may fail, 1 worker, 1 crash; 1 086 258 | is a message kept once and answered once whatever Meta repeats? |
| `dispatch_live` | 1 request, 2 workers whose locks outlast a turn, 1 crash, failing turns; fairness; 150 514 | do workers exclude each other, does nobody start over but who was disqualified, and is every message that has a job answered? |
| `receipt` | 2 cards, 2 photos, 2 images of one transfer, 1 worker with slow jobs, 1 fault or act; fairness; 985 334 | one verdict, shown to people, red when the transfer was used, never over a person's decision; is every photo looked at? |
| `functions` | every small input of each function; 112 910 | are amounts read as written, does only the owner match, does doubt go to a person, is what was paid served or flagged? |
| `funnel` | 2 opportunities of a lead, 1 service, 2 messages, 1 fault, 2 acts; fairness; 485 803 | is a conversation closed with its card, a card never pulled back, put in the right tray; does who is silenced reach people? |
| `outbound` | 2 leads, a worker and a person, an event a day ahead, 2 days, 2 events of the world; fairness; 388 950 | once per key, within the cap, never to who opted out, the furthest status; is everybody reminded? |
| `office` | the five parts of the back office; 1 775 522 | does an operator remain, is what the agent offers current, do the files named exist, is the badge right? |

What a comment, a docstring, a test or a document of the repository says and the code does
not do is checked outside of the runs. Each row below is a property that TLC refutes; the finding
of `PROJECT.json` with its name quotes the line and tells the behaviour. First, those with a
configuration of their own:

| Configuration | Property | What happens |
|---|---|---|
| `MCDoorVerdict.cfg` | `UsedVerdictMeansUsed` | an entry annulled between the read and the UPDATE is refused as already used |
| `MCFulfillmentCapacity.cfg` | `CapacityRespected` | two requests take the last seat |
| `MCFulfillmentAnnul.cfg` | `RejectedIsAnnulled` | an entry is committed, live, after the rejection |
| `MCFulfillmentToken.cfg` | `OneToken` | a rollback after the sending gives the lead a second QR |
| `MCFulfillmentNotice.cfg` | `NoticedOnce` | two requests tell the lead, each once |
| `MCFulfillmentExtra.cfg` | `ExtraReceiptKept` | the aviso of an extra receipt is overwritten |
| `MCFulfillmentStale.cfg` | `OnlyValidatedDelivered` | a retry delivers a card that left the stage |
| `MCFulfillmentLost.cfg` | `RejectedStaysLost` | a delivery in flight undoes a rejection |
| `MCDispatchOrder.cfg` | `MarkCoversRows` | the mark passes a message that was committed late |
| `MCDispatchFork.cfg` | `OneOpenConversation` | two first messages served at once open two conversations |
| `MCDispatchFork.cfg` with `Message <- ThreeMessages`, `Webhook <- OneWebhook`, `Acts <- JustClose` | `OneOpenConversation` | the `sync` of a running job reopens a conversation that was closed and replaced |
| `MCDispatchTakeover.cfg` | `TakeoverHolds` | saving a turn gives a chat back to the agent |
| `MCDispatchOptOut.cfg` | `OptOutTakesNoTurn` | the catch-up gives a turn of the agent to an opt-out |
| `MCDispatchEarly.cfg` | `NoForgottenInbound` | the job runs before the message is committed |

The others are a configuration of the runs with a constant changed and the property in place of
its own. (Changed the same way, `MCOutbound.cfg` with `EventDay = 2`, `MaxDay = 2`, `SPECIFICATION
Spec` and `SYMMETRY Perms` passes: the safety properties of `outbound` over 1 706 492 states.)

| Base | Change | Property |
|---|---|---|
| `MCDoor.cfg` | - | `AttendanceAddsUp` |
| `MCReceipt.cfg` | - | `ApprovedStaysUsed`, `QueuedUntilReconciled` |
| `MCReceipt.cfg` | `Worker = {w1, w2}`, `SPECIFICATION Spec` | `OneVerdict` |
| `MCReceipt.cfg` | `Overlap = TRUE`; or `MaxActs = 2`, `Targets = {"PAYMENT_VALIDATION"}` | `PersonDecides` |
| `MCReceipt.cfg` | `MaxActs = 2`, `Targets = {"PAYMENT_VALIDATION"}` | `AvisosAreShown` |
| `MCFunnel.cfg` | - | `DroppedStaysDropped`, `AcceptedIsStamped`, `NameGivenIsKept` |
| `MCFunnel.cfg` | `Overlap = TRUE` | `ClosedAsItsCard` |
| `MCFunnel.cfg` | `Tools <- MCToolsAll` | `HandedOverIsSilent` |
| `MCFunnel.cfg` | `Typed` with `"blank"` | `WonIsNamed` |
| `MCOutbound.cfg` | `Overlap = TRUE` | `StatusIsFurthest` |
| `MCOutbound.cfg` | two runners | `ContactedOnce`, `CapRespected` |
| `MCOutbound.cfg` | `SPECIFICATION Spec` | `StatusIsKept` |
| `MCOffice.cfg` | `Overlap = TRUE` | `OperatorRemains`, `RemovalIsLocal`, `LinkOnce` |
| `MCOffice.cfg` | `Flag = {TRUE, FALSE}` | `OperatorRemains` |
| `MCOffice.cfg` | - | `OperatorCanSignIn`, `FormIsKept`, `NoPastEventOffered`, `OffersAreOfServices`, `LeadGetsAnImage`, `LinksLimited`, `DeliveredInOrder` |
| `MCOffice.cfg` | one request, `MaxTime = 6` | `WaitingIsSeen`, `ThreadIsItsOwn`, `SentIsMirrored`, `OnlyToSilenced` |

Properties of the modules that hold and are not listed in a run, because another one or a
theorem says more: `TypeOK` of each module (`AllTyped` of `MCOffice`), `OneUse`, `WonAlone`,
`ServedByThen`, `OneToken` without overlap, `PaysOnce`, `CardsKnowContact`, `CapturedStays`, `WonIsNamed`,
and those of `MCFunctions` about the stage machine (`FunnelOnlyForward`, `HandedOverIsTold`). All of these
are theorems.

**Bounds.** In `Door`, entries share nothing but events, so one is enough; two
events make a wrong one possible; three requests let two race while a third
arrives before or after. In `Fulfillment` a token, the notice, the dedupe key and
the stage belong to one card, so the races for them need one card and two
requests; capacity and the waiting of retries for each other need two cards.
`MaxRequests` bounds how many requests a behaviour has, by the guard of `Begin`.
`Kinds` limits which services are met in a run: `fulfillment` takes a blocked one,
a virtual one and one that issues an entry and leaves a warning; the others
differ in the flag only. `fulfillment_agenda` starts where two requests of
`Spec` lead (both cards blocked for want of an event), because from the beginning
the state would be out of reach of the two requests that matter. `NoExtraReceipt`
in `fulfillment_alone` leaves out an aviso that seats, notices and tokens never
read. `CHECK_DEADLOCK FALSE` is used where only requests and the agenda move
(`WaitingSpec`): once the requests are spent and the event is gone nothing is left
to do.

`OnlyTheDisqualifiedStartOver` is checked where nobody closes a card or hands a chat back
(`Acts <- NoActs`), which the theorem asks for and `MCDispatchFork.cfg` shows to be needed.

In `Dispatch` two conversations are enough for a lead to have one too many, and for
a job to outlive its conversation; two messages let one arrive while the other is
answered; the late commit needs a third, because two have to be in flight above a
mark that a turn is about to write. Two deliveries of one message make the race for
the unique index, one crash the loss of a job and the sweep that finds it. The value
of `Slow` is whether a TTL may end under a turn: with one worker, as in production,
it may; with two it must not (`ImplementsInbox` would fail, as the mutant `ExpireEarly`
shows of `Exclusive`). `MaxDeliveries`, `MaxCrashes` and the set of messages bound
behaviours by the guards of `Receive` and `Crash`. The symmetry of messages leaves out the
opt-outs, and the run with fairness uses none. `CHECK_DEADLOCK FALSE` is there because
a system without new messages rests; so it is in the runs below, where what is bounded
runs out. `OnlyTheDisqualifiedStartOver` is in `dispatch_live`, where nobody closes a card or hands
a chat back: with those acts a lead does start over (`MCDispatchFork.cfg`).

In `Receipt` reuse needs two photos of one transfer, on the same card or on two, as the same
image or another; a third would repeat it. `MaxQueue` bounds the list by the guard of what
pushes, `MaxActs` what people do and what fails: one is enough for a person to come between any
two steps of a job, or for a death and its expiry. `Slow` is `TRUE`: a lock may end under its job, as the TTL does. With the
one consumer of production that starts no second job of the message; with two it does (`OneVerdict`, above). `Targets` leaves out the drag back into the
stages of payment: that is a finding, and the assumption of its theorem.
In `Funnel`, two opportunities let a lead come back after one is closed or deleted; two messages let
the second arrive while the first is answered; two acts let a person undo what one did. `Faults` and
`MaxFaults` bound failures. `Tools` holds the calls whose effects the properties tell apart.
In `Outbound`, two leads and a cap of one make the cap bite; two windows, one with more than the
days left, choose the one that is due; two events of the world let an answer be lost and a status
arrive late. In `Access`, three persons and two tenants let two operators remove each other and
a third be added elsewhere meanwhile. `Catalogue` takes two edits at once, `ServiceLinks` four links for a limit
of two, `PaymentQr` three images, `Attention` two opportunities and five moments.
The parts of `MCOffice` share no state, so a behaviour is of one of them, chosen at the beginning.

**Fairness.** In `Fulfillment`, `Fairness` is weak fairness of each request's next step: the server
does not abandon a request it has begun, unless the process dies, which is an
action of its own and has no fairness. Nothing is assumed of operators, leads,
Meta or the clock. Waits for another transaction's insert are guards, so weak
fairness does not hide a deadlock between requests: `RequestsEnd` would fail, and
does when the cards of a retry are not taken in one order (the mutant
`ProceedInAnyOrder`).

In `Dispatch` it is weak fairness of each worker's next step (its loop runs, and the
container is restarted after a death, `restart: unless-stopped`) and of the expiry of
each key. Requests, deaths, failures and people have none. A job may go round behind
a lock whose owner died; `JobsServed` needs the TTL to end.

In `Receipt` the same of each worker and each key, and of requests and turns that have begun (`Keep`,
`TurnOf`). `PhotoLookedAt` excepts the photo whose job died with its process (`dead`: nothing
queues it again), and those whose image or transaction is known already. In `Funnel` it is the next step of the job of each conversation, that is the worker's
loop; in `Outbound` the loop of each runner, which ticks while it lives. Midnight has no fairness: a day may be
long, and `RemindedInTheEnd` says what happens in it.

## 5. Proofs

For every value of the constants, under the named assumptions of the modules: `NoEvent` is not
an event; cards of `Fulfillment` are numbered and there is one; `Named` are cards; `Kinds` are
known; switches such as `Faults`, `Slow` and `Overlap` are Booleans; conversations are a finite set of
numbers; opt-outs are messages; `None` is none of the values it stands beside; cards, photos and
images exist, photos are finite, each image shows one transfer and a reading that passes is
legible; days and limits are numbers; runners are not desks and both are finite; the statuses told
are statuses; persons and tenants are finite and there is a first operator; `None` is no stage of
a card; the capacity of events is a number; requests and links are finite and a service may have at
least one link (`MAX_LINKS_PER_SERVICE` is 5 in the code); the marks that stand for no image and for no category
are none of them; the mark for "nothing" of a delivery is no flag (`NothingIsNoFlag`), that of an unread field is no
number and no currency, and that of a placeholder no number (`NullIsNoNumber`); today is a day (`TodayIsADay`);
`None` is no reply of the agent (`SilenceIsNoAnswer`), and cards are dragged to stages and contacts typed names that there
are (`InputsAreAllowed`). `PowersOfTen` states what 10, 100 and 1000 are as powers of 10: the prover takes `^` for an
unknown function, and TLC evaluates the assumption.

| Theorem | Says |
|---|---|
| `Door_proofs!TypeCorrect` | `Spec => []TypeOK` |
| `Door_proofs!SingleUse` | `Spec => [](OneUse /\ WonAlone)` |
| `Door_proofs!AnnulledNeverUsed` | `Spec => AnnulledStaysOut` |
| `Door_proofs!GreenIsForItsEvent` | `Spec => []AdmittedToItsEvent` |
| `Door_proofs!DoorImplementsAdmission` | `Spec => ImplementsAdmission` |
| `Fulfillment_proofs!TypeCorrect` | `Spec => []TypeOK` |
| `Fulfillment_proofs!SendFirstMoveLater` | `Spec => [](ServedBeforeAdvanced /\ ServedByThen)` |
| `Fulfillment_proofs!OneEntry` | `Spec => []OneEntryPerCard` |
| `Fulfillment_proofs!IssuedStands` | `Spec => IssuedEntryStands` |
| `Fulfillment_proofs!NoOverbooking` | with one request at a time, `Spec => []CapacityRespected` |
| `Fulfillment_proofs!ToldOnlyOnce` | with one request at a time and no `Faults`, `Spec => []NoticedOnce` |
| `Fulfillment_proofs!OneQrOfACard` | with one request at a time and no `Faults`, `Spec => []OneToken` |
| `Dispatch_proofs!TypeCorrect` | `Spec => []TypeOK` |
| `Dispatch_proofs!LockExcludes` | if not `Slow`, `Spec => []Exclusive` |
| `Dispatch_proofs!AnsweredOnce` | if not `Slow`, or there is one worker, `Spec => ImplementsInbox` |
| `Dispatch_proofs!MarkIsSafe` | with one request at a time, `Spec => []MarkCoversRows` |
| `Dispatch_proofs!StartsOverOnlyWhenOut` | with one request at a time, turns that do not overlap and nobody closing cards or handing chats back, `Spec => []OnlyTheDisqualifiedStartOver` |
| `Receipt_proofs!TypeCorrect` | `Spec => []TypeOK` |
| `Receipt_proofs!OneRowOfEach` | `Spec => []OneRowEach`: no two receipts of one image, none of one claimed transaction |
| `Receipt_proofs!OneVerdictPerMessage` | if not `Slow`, or there is one consumer, `Spec => []OneVerdict` |
| `Receipt_proofs!OneGreenPerMessage` | `Spec => []PaysOnce`: one green verdict of each message, with any consumers and although locks expire under jobs |
| `Receipt_proofs!ApprovedTakesItsTransaction` | `Spec => []ApprovedIsClaimed` |
| `Receipt_proofs!UsedNeverGreen` | `Spec => UsedTransferIsRed` |
| `Receipt_proofs!DecisionWins` | if one consumer, no `Overlap`, and nobody drags back into the stages before the payment, `Spec => PersonDecides` |
| `Receipt_proofs!BoardSaysWhatIsLeft` | if one consumer and nobody drags back into the stages before the payment, `Spec => []AvisosAreShown` |
| `Funnel_proofs!ClosedWithItsCard` | if not `Overlap`, `Spec => []ClosedAsItsCard` |
| `Funnel_proofs!NeverPulledBack` | if not `Overlap`, `Spec => ForwardOnly` |
| `Funnel_proofs!LandsInItsTray` | if not `Overlap`, `Spec => RightTray` |
| `Funnel_proofs!TypeCorrect` | `Spec => []TypeOK` |
| `Funnel_proofs!OnlyForwardInTheFunnel` | what `FunnelOnlyForward` says, for any number of answers with any number of calls |
| `Funnel_proofs!HandedOverAndTold` | what `HandedOverIsTold` says, likewise |
| `Funnel_proofs!CardsFollowContact` | if not `Overlap`, `Spec => []CardsKnowContact` |
| `Funnel_proofs!AcceptedServicesStay` | `Spec => CapturedStays` |
| `Funnel_proofs!WonHasAName` | if nobody types a name of blanks, `Spec => WonIsNamed` |
| `Outbound_proofs!TypeCorrect` | `Spec => []TypeOK` |
| `Outbound_proofs!LeftAlone` | `Spec => []OptOutHonoured` |
| `Outbound_proofs!FurthestStatus` | if not `Overlap`, `Spec => []StatusIsFurthest` |
| `Outbound_proofs!SentOnce` | if not `Overlap`, and there is one worker, `Spec => []ContactedOnce` |
| `Outbound_proofs!CapHolds` | if not `Overlap`, and there is one worker, `Spec => []CapRespected` |
| `Office_proofs!TypeCorrect` | `Spec => []TypeOK` |
| `Office_proofs!OneSessionPerLink` | if not `Overlap`, `Spec => []LinkOnce` |
| `Office_proofs!RemovesFromItsTenant` | if not `Overlap`, `Spec => RemovalIsLocal` |
| `Office_proofs!SomebodyRuns` | if not `Overlap` and the script never takes the flag away, `Spec => []OperatorRemains` |
| `Office_proofs!OneImageIsKept` | `Qr!Spec => []OneImage` |
| `Office_proofs!LinksStayWithinReach` | `Lnk!Spec => []LinksWithinReach` |
| `Office_proofs!SnapshotStaysCurrent` | `Cat!Spec => []SnapshotIsCurrent` |
| `Office_proofs!MaterialsStayServed` | `Cat!Spec => []MaterialsServed` |
| `Office_proofs!WhoWaitsIsShown` | `Chat!Spec => []WaitersAreShown`, which is half of `BadgeIsRight` |
| `Office_proofs!BadgeStaysRight` | `Chat!Spec => []BadgeIsRight` |
| `Office_proofs!OfficeIsItsParts` | `OfficeSpec => Spec /\ Cat!Spec /\ Lnk!Spec /\ Qr!Spec /\ Chat!Spec` |
| `Office_proofs!OfficeStaysRight` | the invariants of the four parts, of `OfficeSpec` |
| `Office_proofs!OfficeKeepsItsPeople` | if not `Overlap` and the script never takes the flag away, `OfficeSpec => []OperatorRemains /\ RemovalIsLocal` |
| `Functions_proofs!AmountsAreRead` | `AmountsReadAsWritten` for every amount up to `MAX_AMOUNT` and every layout of `Written` |
| `Functions_proofs!OwnerIsRecognised` | `OnlyTheOwnerMatches` for names of any number of words, of any letters; each word of the owner that is not a particle has four or more, as `Cut` takes for granted |
| `Functions_proofs!DoubtIsForAHuman` | `DoubtGoesToHuman` for any answer of the model |
| `Functions_proofs!PaidIsServed` | `PaidIsServedOrFlagged` for a catalogue of any length, any event, gate and modality |

Where a theorem assumes that requests do not overlap, the run of section 4 with
`Overlap = TRUE` shows what happens otherwise, and the finding where in the code.

*Single use.* `OneUse` is not inductive: nothing in it says that a second request
cannot be about to answer. `WonAlone` adds that a request which won the UPDATE is
the only winner of its entry, that the entry is marked used, and that it has let
nobody in. Then `Consume` needs an unused entry, so nobody has won it, and `LetIn`
takes the counter from 0 to 1. For the event, the request that was let in had won a
row of the event it controls, and of that row only the deletion of its event or card takes the event away.

*Refinement.* The refinement mapping reads the life of an entry off its row
(`LifeOf`: used wins over everything else, so annulling a used entry is a
stutter). Each action is shown to be one step of `Admission` or a stutter, with
`WonAlone` for `LetIn`.

*Send first, move later.* `ServedByThen` strengthens `ServedBeforeAdvanced`: a
request past the sending has served its card's lead. A request reaches those
steps only from a sending that was taken, and what a lead received is never taken
back; so whatever other requests and operators do to the card, the system's move
finds the lead served.

*One entry.* Type correctness, `OneEntryPerCard` and `PlansAfresh` (a request that
is about to plan carries no row from its previous card) are inductive together.
The INSERT is the point: it waits while another transaction holds the card, and
fails when a committed row exists.

*An entry stands.* From `OneEntryPerCard`: a commit replaces the row of a card only
where there was none, and a sending carries the committed token or the request's
own insert.

`Proceed` takes the least card of a set; that it exists is proved from the
well-foundedness of strict inclusion, since the induction theorems of the library
take an operator as a parameter. So is the least window of `DueWindow`.

*Seats, notices and QR codes.* The three theorems about requests one at a time are not about
what a request reads being true, but about what it does between a sending and the commit that
remembers it. `Seats` counts with the live entries of an event the one that the request is about to insert
or has inserted: whoever is about to issue (`Issues`) leaves a seat, and annulling, deleting or ending a request
only frees. `ToldOnce` says that a lead that was told is remembered, or its request is about to. `HoldsIssued`
says that what a lead holds is the committed entry of the card or the one that its request will commit, and
`ClaimsFree` that no earlier template stops that commit, which a unique key otherwise would. What breaks each of the
three without its assumption is in section 4 (`MCFulfillmentCapacity.cfg`, `MCFulfillmentNotice.cfg`,
`MCFulfillmentToken.cfg`).

*Types of the intake.* `Typed` adds to `TypeOK` what a request or a worker knows at
each point (a request that stores has a message and a conversation), without which
`Push` or `Commit` could not be typed.

*Exclusion.* `Exclusive` alone is not inductive; `LockHeld` says that whoever is in a
conversation owns its key. `Acquire` then finds nobody there, and `Release`, which
deletes the key unseen, deletes its own. The theorem needs that no key expires under
its owner, and `dispatch_live` shows that nothing else is needed.

*Answered once.* `IntakeInv` has three parts: a turn in flight has read only rows above
the mark and up to what it will write (`TurnAboveMark`), what was answered is at or
below the mark (`AnsweredBelowMark`), and a message about to be committed is not in the
table and in no other transaction (`KeptOnce`, which is the unique index). A save is
then a `Reply` of `Inbox` to a batch that no turn has replied to; that its
raised mark leaves no other turn of the conversation below it is where exclusion is used.

*The mark.* `OrderInv` says that a row about to be committed is above every committed
row, every mark and every mark about to be written (`Ordered`), and that a turn has
read all that is at or below what it will write, or it was answered (`TurnReadsAll`).
`Ordered` is what a second request breaks (`MCDispatchOrder.cfg`). Exclusion is not needed.

*Starting over.* `StartInv` says that conversations are inserted in order and that one that is kept is the
latest (`InsertedInOrder`), that a request works on one that is kept or on the last one inserted (`RequestTarget`), that
whatever comes after a kept conversation comes after a disqualified lead (`EarlierAreOut`), that a closed one is of a
disqualified lead (`ClosedIsOut`), and that a turn in flight knows whether its funnel is (`TurnKnowsOut`), without which
saving it could take the disqualification away. The last needs exclusion, the second one request at a time.

*Receipts.* `Defended` carries the two unique indexes, on the image and on the claimed
transaction, through every writer of the table, and what follows from them: an approval by
the system or the panel has its transaction, so a later receipt of it meets the row. Locks may
expire under jobs and jobs repeat: nothing in these depends on exclusion.

*Verdicts of a message.* `OneVerdict` does depend on it, as the table has no index on the message. `Judging` says that a job
has the lock of its photo where locks last (`Locked`), that no two jobs have the same photo (`Apart`), and that
until a job stores its verdict there is none (`Unjudged`). `Locked` gives `Apart` if not `Slow`, and with one consumer it
is plain; with two and a lock that expires, one job may look before the webhook commits, find nothing to open and store
`unreadable`, and the other store what it read (section 4). Money is safe all the same, and that is `PaysOnce`: a green row holds
the hash of the image of its message (`RowReads`, from `JobReads` and from the image of a message being always the same,
`PhotoStays`), and the index on it takes one row. Neither assumes anything of locks.

*Decisions.* `DecisionWins` asks for one consumer: between the fresh read of the job that is about to
move a card and its move, only another consumer or a person that acts at that moment could
change what it saw; and a stage once left is not come back to, which a drag back would break.

*What the board says.* `Shown` follows the two avisos through a job, which writes the list of flags that it read before
the model answered. A red receipt under a waiting card says so (`RedIsShown`), and so does what the job has read of it
(`ReviewIsRead`); a payment that the system approved, or is about to, was looked up or says that it was not
(`SystemIsTold`, `JobsTell`). That the job may write an old list is harmless because a card with such a payment has left
the stages in which jobs judge it (`ApprovedIsOut`), which is where nobody dragging it back is used: with a drag back,
TLC refutes `AvisosAreShown` (section 4). People may act at any moment: `Overlap` is not assumed away.

*Funnel.* The inductive invariant is `Shaped` (what a turn holds at each point), `Unborn` (a
conversation not opened has no card, no turn), `ClosedAsItsCard`, `ReadsStand` (what a projection
that is about to write has read is still so) and `ReasonKept` (the reason that the turn gave is the one
recorded). `ReadsStand` is what a person breaks between `SyncRead` and `SyncWrite` when overlap is
allowed.

*Turns.* What a turn decides is folded from the calls of the model, with `MapThenFoldSet` over the places of a
sequence. No induction theorem can be cited for it, but none is needed: the set that the fold recurs on is one of an interval,
its recursive function exists on the subsets of `1 .. n` (`Folds` in `Funnel_proofs`, one place at a time, as the least
length at which it failed to exist would be the successor of one at which it does), and what each step keeps, all keep. `TurnSound` is what each tool,
each answer and the end of the turn keep: the stage is onward from the one before, a signal makes the lead hot, a handoff
has its reason and takes the QR back. The typing of the turn (`TypeCorrect`) and both theorems about `Handle` come from it.

*Contacts and accepted services.* `CInv` adds to `CardsKnowContact` that what a projection has read of the contact stands
while it writes (`LinkStands`): a person inside a projection breaks it. `WInv` says that no conversation holds a
name of blanks and that no projection is about to win a card: only people do, and their move checks the name. That what was accepted stays needs no invariant but the types.

*Outbound.* For opt-outs, `late[l]` is at least the number of sessions that are calling for
an opted-out lead (`Allowance`), so a send that reaches it was past its check. For statuses, one webhook
at a time is between its read and its write and what it read stands (`ReadsStand`), a row that is not
committed was not heard (`Unheard`), and a status that ranks above its row is with the webhook that is about to
write it (`Heard`).

*Once, apart and within the cap.* A row is committed, lost, or of the session that wrote it
(`Placed`), and the rows of a session are of its kind (`Signed`): by `Marks` and `Apart` the
worker's keys and those of people never meet, so whoever is about to call has a key that no
row has but lost ones (`Clear`), and `KeyOnce` follows. With one worker its session then sees all
that the worker sent and no fault took (`SeenByRunner`): what it does not find in the days before is
not there (`Spaced`), and what it counts for the day is all there is, so what its job may still send
fits in what the day has left (`Budgeted`, with `Dated`: nothing was sent on a day to come). A
second worker sees neither, as section 4 shows; that a failed row stays failed, and so never
counts again, is where one webhook at a time is used.

*Access.* One request decides at a time (`OneDecides`), so what it decided on is still so when it writes:
the person it wipes has no other home (`OnlyHere`), the link that it redeems is fresh (`SpentOnce`), and if
it takes an operator away there is another (`OthersRemain`).

*The QR of the organization.* A name of a file is given once (`named`), so a file that a request is about to
delete (`Doomed`) is one that the row let go of and never takes again: `QrSafe` says so, with the files of requests
between their steps apart from each other and from the row's (`OwnIsFresh`), and what each is about to write
(`AllPlan`). `Tidy` adds that there is nothing else on disk where nothing has overlapped.

*Links.* `Roomy` counts with the links of a service those that requests have been allowed to add and have not added:
a creation takes its place when it counts, so the sum stays within the limit, or, once creations have overlapped, the limit
and one less than the requests.

*The catalogue.* A request that is alone since it began (`ByItself`) reads the column that it will write
(`Stands`), and its projection is of the rows there are; `OneAlone` says that there is one such request at most, and that
where nothing is blurred whoever is busy is alone. So the snapshot is current unless a request still owes
it (`Shown`). Files go last: what requests will delete is of no row and of no other request's (`Filing`), and
a file that the agent may send was of a row when it was projected (`Served`).

*Who waits.* Each message of the lead that nobody had before them and that met no race is later than everything that the
board counts as an answer in its opportunity, and than what the turn and the replies in flight that have not
read it will write there (`HeardLater`): a reply carries the time at which its transaction began, and whoever did not read
a message began before it was committed. `Dated` says that all times are past and that nothing else happened at the time of an
inbound that is open, from which the message is later than all when it commits, unless another time was
taken meanwhile, which is the first race.

*The thread.* The other half of `BadgeIsRight` relates two readings of the same tables: the badge compares times, the thread
sorts messages. `OnceEach` says that no two messages have one moment, so the places of a thread are the messages counted by
what is earlier, and the last message of the lead, later than all that answers it, has only notes of the system after it.

*The office.* Each action of the composition is an action of one part that leaves the variables of the others as they
are; so `OfficeIsItsParts` is five refinements under the identity, and what is proved of a part holds of the whole that TLC checks.

*Amounts.* Up to `MAX_AMOUNT` a whole is one group of digits or two: the fold of `Glue` is unrolled for each (`GlueIs`),
a number of the right value in thousandths is read as the amount (`ReadAs`), and what is left is that each layout of
`Written` is told apart by its separators and the length of its last group.

*Names.* `Words` is a selection of the places of a name, in order (`Selected`). A name printed in full has every word of the owner
or one cut to three letters or more (`CutCovers`, `FoundInName`), whatever the order (`ReorderedHasTheSame`). In a masked name only initials
are left, and they are counted: the order is a bijection of the places, and it takes the places with an initial to as many
(`BijectionCounts`, `AsManyPlaces`). The other way, what `TokenPresent` accepts begins with the same three letters or is the same
(`CutIsAlike`). The theorem says nothing of a masked name of somebody else: the same initials as often are accepted,
as `_matches_masked` has it.

*Answers.* `WhatPasses` lists what a receipt that passes has in each field; each change of `Worse` takes one of them away.

*The plan.* `Those` keeps the links of a kind in the order of the catalogue (`Selected`, again by a least length). The lines are
such selections one after the other, so a place of the message belongs to one kind, the kinds go by `DeliveryKindOrder`, and within
one the places of the catalogue grow. With that, each modality is a case of what the gate, the event and the links leave.

Only model-checked: liveness, which is beyond the prover (`RequestsEnd`, `JobsServed`,
`PhotoLookedAt`, `SilencedReachesPeople`, `RemindedInTheEnd`), and every violation. Of the routing of a message
(`Route`), the runs show what it hits with each set of words; the theorems take any flow it could give.

Three things of the models are as they are for the prover's sake. A selection from a sequence, a sorted
thread and the words of a name are recursive functions or sets of messages by rank, and not `SelectSeq` and `SetToSortSeq`, which take an
operator and are unknown to the provers. Alternatives that overlap are `IF`s: the arms of a `CASE` are not ordered, those of the code are. The separators
of an amount are a set of their own.

## 6. Not modelled

- Adapters of the language model, of vision and of WhatsApp: external calls. Their outcomes
  (taken, refused, taken without an answer, any reading, any sequence of tool calls) are choices.
- Publishing of board events: best effort, no state of the server depends on it.
- Observability, probes, one-off scripts and migrations. `create_user.py` is modelled, since it
  writes what `Access` is about.
- CRUD of WhatsApp instances and of organization settings other than the form of the agent and the QR.
- The heartbeat and the shutdown of the worker by signal; the handshake and the signature of the webhook.
- The window of the last ten rows of a conversation and its summary; API schemas, exports and totals.
- A change of the capacity of an event.

Noticed while reading, and outside of the models or of their runs: a photo whose webhook has not
committed is stored as unreadable when the job runs first (`webhook_service.py:237`); a confirmation after
a rejection leaves both stamps; an `IntegrityError` in the store of a receipt leaves its photo without a verdict;
a death between the two commits of a green receipt leaves it unapproved, and one between the
answer of a turn and the trigger leaves its photos unqueued; the docstring of `receipt_trigger.py` relies on
`payment_receipt` being unique by wamid, which no index says; dragging a card into the
pipeline of people does not silence the agent; a death between the save of a turn and its handoff puts the card in
"Por atender" whatever the reason; a manual takeover after an older handoff for a payment goes to "Por validar
pago" (`card_service.py:47`); a death between the save and the projection leaves a silent lead in the board of
the agent; out of scope and then handoff in one turn rejects the handoff; a PUT of a delivery link with a null
kind or url ends in a 500; the row of a template is only flushed when Meta is called.

## 7. How to run

    tlc -workers 2 -config MCDoor.cfg MCDoor
    tlc -workers 2 -config MCFulfillment.cfg MCFulfillment
    tlc -workers 2 -config MCFulfillmentAlone.cfg MCFulfillment
    tlc -workers 2 -config MCFulfillmentAgenda.cfg MCFulfillment
    tlc -workers 2 -config MCDispatch.cfg MCDispatch
    tlc -workers 2 -config MCDispatchRedelivery.cfg MCDispatch
    tlc -workers 2 -config MCDispatchLive.cfg MCDispatch
    tlc -workers 2 -config MCReceipt.cfg MCReceipt
    tlc -workers 2 -config MCFunctions.cfg MCFunctions
    tlc -workers 2 -config MCFunnel.cfg MCFunnel
    tlc -workers 2 -config MCOutbound.cfg MCOutbound
    tlc -workers 2 -config MCOffice.cfg MCOffice
    tlapm Door_proofs.tla
    tlapm Fulfillment_proofs.tla
    tlapm Dispatch_proofs.tla
    tlapm Receipt_proofs.tla
    tlapm Funnel_proofs.tla
    tlapm Outbound_proofs.tla
    tlapm Office_proofs.tla
    tlapm Functions_proofs.tla
