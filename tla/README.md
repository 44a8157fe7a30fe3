# Verification of the HR Telegram worker

TLA+ modules for the asynchronous HR assistant in `src/`: a bot that writes to
candidates over Telegram (through the CRMchat API), leads them along a recruiting
funnel with two language-model calls per turn, and hands them to a human. The
modules translate the code's control: every state change, guard, early return and
error path, in the code's order. Texts, prompts and formatting are abstracted.

Paths below are relative to `src/app/services/` unless they start with `src/`.

## 1. The system

One Postgres database is the only thing the parts share. They run as separate
processes (`src/scripts/process_outbound_queue.py`, `process_inbound_queue.py`,
`poll_telegram_updates.py`, `sync_crmchat_accounts.py`, the FastAPI application) or in turn in one loop
(`src/scripts/run_autopilot.py`). Sessions are asynchronous SQLAlchemy sessions at
READ COMMITTED with autoflush.

```
Telegram/CRMchat --poll--> Message + InboundEvent --claim--> inbound worker
   ^                                                            |  restart / turn buffer
   |                                                            v
 send                                           funnel gateway: load runtime, run graph
   |                                            (semantic -> knowledge -> reply ->
   |                                             state_controller -> action_executor)
 outbound worker <--claim-- OutboundJob <--execute actions--   |
                                             LeadFunnelRuntime, Lead, HumanHandoff <--persist
```

### Inventory

| Component | State | Operations | Hard behaviour | Correct when |
|---|---|---|---|---|
| Outbound queue worker (`outbound_queue_worker.py`, `repositories/outbound_job.py`) | `outbound_jobs`, `Message.status`, `Account.next_send_at`, `flood_wait_until`, send log | claim, reschedule, block, type, send, retry, dead-letter, cancel by others | several workers; one transaction per batch; answer lost after acceptance; activity during the typing delay; cancellation of a locked row | no lost or doubled message beyond rollbacks, finished is finished, no stale send, pacing, everything ends |
| Voice upload (`crmchat_connector.py`) | parts of a file at Telegram | upload part by part, send the message | file ids shared by two recordings; a second attempt over a first | a recording is heard whole or not at all |
| Funnel policy (`funnel_graph/funnel_policy.py`) | none (table) | transitions, requirements, next stage | several stages completed by one message | never jumps over an action stage, an unanswered question or the age gate |
| Funnel graph (`funnel_graph/graph.py`, `state.py`) | state of one run | semantic analysis, retrieval, reply, `state_controller`, `action_executor` | model answers of any kind; silent replies; interrupts | stage, questions, follow-ups and records agree |
| Semantic analyzer, reply orchestrator (`funnel_graph/semantic.py`, `reply.py`) | none | read a message by rules or by a model, merge the two, write a reply, guard it | model output of any form, provider errors, fallbacks to a larger model | refusals, ages and open questions are the rules' matter whatever a model says; the controller gets a legal outcome |
| Knowledge retrieval (`funnel_graph/knowledge.py`, `brain_v2/knowledge_cards.py`) | `knowledge/*.json`, `knowledge_cards` | rank, cut, fall back to other stages, compose an answer | three cuts in a row, topics with other names | what items and cards know on the topic gets through, each cut giving way only to what beats it |
| Gateway, action executor (`funnel_graph/gateway.py`, `actions.py`) | `LeadFunnelRuntime`, `Lead`, `HumanHandoff`, jobs | one turn, supersede, persist, execute, restart | message arriving while the models run; two workers on one dialog | a superseded run leaves no trace; records agree with the stage |
| Turn buffer (`funnel_graph/turn_buffer.py`) | debounce times in the runtime | accept the latest message, cancel queued jobs, build the batch | messages polled late, equal times, more than 20 unanswered | every message is answered or covered by a later one |
| Inbound queue (`inbound_queue_worker.py`, `inbound_pipeline.py`, `repositories/inbound_event.py`) | `inbound_events` | enqueue with two-layer duplicate check, claim, defer, retry, dead-letter, fail | one transaction per batch; deferrals count as attempts; poison events | every event ends, handled once |
| Telegram poller (`telegram_polling.py`) | accounts, dialogs, messages, events | read dialogs and histories, store, enqueue | overlapping polls, each one long transaction; flood waits and errors half way; histories cut off at a limit | each message once, with one event, in the right dialog, without gaps, and in the end every one |
| Account sync (`account_sync.py`) | `accounts` | copy CRMchat's list, reset flood waits | two syncs, a poll that inserts, and the worker write one row | no account is held back without a wait, an active one comes back |
| Webhooks (`src/app/api/webhooks.py`, `crmchat_webhooks.py`) | `webhook_events`, `inbound_events` | store and enqueue | simultaneous and repeated deliveries, crashes, lost answers | stored once with its task; in the end answered |
| Lead intake, internal API (`lead_intake.py`, `src/app/api/internal.py`) | lead, dialog, run, intake event | create, deduplicate, set a status, approve and reject | two requests for one lead | one lead, one run |
| Campaign sequence, brain orchestrator (`campaign_sequence.py`, `brain_orchestrator.py`) | `dialog_sequence_runs`, jobs, lead, facts, handoffs | fixed messages, gates, brain steps, reports of sent messages, recovery, reset | recovery against worker and candidate; repeated gates; reopened runs | each step once and in order, no run waits for nothing, one handoff, ended is ended |
| Brain v2 (`brain_v2/`) | agenda, lead state, brain runs, jobs, handoffs | turn, local or model decision, validation, shadow mode, approve, reject | operators and turns that overlap; stale plans | nothing uncleared goes out, only the newest plan waits, refusals and legal questions take their fixed way |
| Evaluation tools, prompts and providers, dialog state service, schema, configuration | files, tables | development tools, lookups | none of their own | not modelled |

`PROJECT.json` lists every component with its status and every hazard at its line,
also those that no property covers yet.

## 2. Modules

| Module | What it is |
|---|---|
| `OutboundQueue`, `MCOutboundQueue` | rows of the outbound queue, workers, accounts, cancellation |
| `DeliveryContract` | what the queue promises about one message (abstract) |
| `FunnelPolicy` | the stage table and the pure functions over it |
| `FunnelDialog` | one dialog: turns, restart, what is queued and recorded |
| `SemanticRules` | how the rules read a message, and the merge with a model's reading (pure) |
| `AnalysedTurn`, `MCAnalysedTurn` | analyzer and reply orchestrator of one turn, up to `FunnelDialog`'s decision |
| `InboundTurn` | messages of one candidate: events, batches, turns, answers, with time |
| `TelegramPolling`, `MCTelegramPolling` | pollers as overlapping transactions over accounts, dialogs, messages, events |
| `BrainOrchestrator` | decisions of the older brain and what they mean for a lead (pure) |
| `CampaignSequence`, `MCCampaignSequence` | lead intake and the run of a campaign |
| `BrainRules` | router, local decisions, validator of Brain v2 (pure) |
| `BrainV2`, `MCBrainV2` | turns, shadow mode and operators of Brain v2 for one lead |
| `WebhookReceiver` | deliveries, handlers, the two inserts |
| `AccountSync` | account rows under syncs, polls, resets and flood waits |
| `VoiceUpload` | parts of recordings at Telegram |
| `KnowledgeRetrieval` | ranking and cuts between the knowledge base and an answer |
| `MCServices` | one run for the four modules above, a behaviour follows one of them |
| `OutboundQueueProofs`, `FunnelDialogProofs`, `InboundTurnProofs`, `TelegramPollingProofs`, `CampaignSequenceProofs`, `BrainV2Proofs`, `AnalysedTurnProofs`, `ServicesProofs` | TLAPS proofs |

How they compose: `FunnelDialog` extends `FunnelPolicy` and takes what the analysis of a turn may
yield as an input; `AnalysedTurn` computes these outcomes from `SemanticRules` and instantiates
`FunnelDialog` to decide on them. `OutboundQueue` implements `DeliveryContract`. `CampaignSequence`
extends `BrainOrchestrator`, `BrainV2` extends `BrainRules`. Polling, inbound turn, dialog and
outbound queue follow each other through database rows; each module takes the rows it reads from
any state its producer can leave.

Some definitions come in two forms, `X` and `X_Something`, the second preceded by a
comment "Faulty variant". The system never uses the second; it is a plausible bug,
kept beside the definition so that one can see that the properties notice it
(`mutants` in `PROJECT.json` lists which property rejects which variant).

### OutboundQueue

`process_queued_batch` is one transaction from claim to commit. A row is therefore
modelled twice: `job[j]`, the committed version, and `draft[j]`, what the transaction
that holds the row lock (`lock[j]`) has written. `step[j]` is how far the worker is
with the row. Actions follow the code: `Claim` (FOR UPDATE SKIP LOCKED), then per job
`Reschedule` (account cooling down), `Block`, `StartTyping` (attempt counted, random id
drawn unless the row has one), `EndTyping` or `StaleAfterTyping` (the second look at
candidate activity), `SendSucceeds`, `SendFails` (accepted or not; flood wait, retryable
or permanent error), and `Commit` or `Rollback` for the batch. Other writers are actions
of their own: `Enqueue`, `InboundNewer`, `CancelSelect` and `CancelApply` (the select and
the update of `cancel_pending_outbound`, the update waiting for the row lock).

Time is abstract: `due[j]` says the schedule has passed; `paced` and `flooded` say whether
an account's waiting time runs and *who can see it* (its writer's transaction or
everybody), since marks are not committed before the batch ends.

`DeliveryContract` is the promise without rows and locks: a job is created, stays open,
is settled once as delivered or dropped; a copy reaches the candidate only while it is
open, at most one more than pieces of work were lost; a delivered job may be disowned by a
late cancellation. `Delivery` instantiates it with the fate of the committed row and the
number of ids Telegram accepted.

### FunnelPolicy and FunnelDialog

`FunnelPolicy` holds `STAGE_POLICIES` as operators and the loops over completed stages. A
profile field is `Unset`, `"yes"` or `"no"`: what `stage_requirement_met` can tell of it
(for `age`: at least 18, or less). The loop of `advance_through_completed_waiting_stages`
is written as eight rounds; a chain of waiting stages has at most six.

`FunnelDialog` is one dialog. A turn has two visible moments: `Prepare` (the turn buffer
takes the latest message and cancels what is queued) and `Decide` (the end of the graph
run: persist and execute) or `Supersede` (a newer message came while the models were
working). `TurnFails` is the exception path of the inbound worker, `Restart` the `/restart`
command, `Deliver` and `DeliveryFails` the outbound worker's end of a job.

`Decide` takes any semantic result and any reply the code can produce: `Semantics` are the
message types the controller distinguishes with any facts about the active stage and the
`Volunteered` fields; `Replies` are the replies that the guards of `reply.py` let through
for that semantic result, the deterministic fall-backs included. `Decision` is
`state_controller` as one function of these, conjunct by conjunct: `WantedStage`,
`AdvancedStage`, `TransitionValid`, `SendReply`, `QuestionsAsked`, `FollowupAfter`.
`PersistAndExecute` is `action_executor`, `pending_actions_from_outgoing`,
`_persist_runtime` and `FunnelActionExecutor` for that decision.

Of the queue the dialog keeps only what carries the funnel on: questions, voice packs and
follow-ups. The stages of the previous funnel (`company_intro`, `try_interest_check`,
`ready_for_interview`) exist for old rows and are left out.

### InboundTurn

`FunnelDialog` says what a turn decides; `InboundTurn` says which messages become turns. The
poller stores messages late and in portions (`Poll`; `page[i]` is the `created_at` of message
`i`, the same for all messages of one poll), each with an inbound event. Worker `w` claims a
batch (`Claim`), and `tx[w]` is its transaction: events still to handle, outcomes of those
handled, committed answers cancelled, turns made, and the runtime row as read (`loaded`) and
as changed (`rt`). The steps of `_process_event` are `Dismiss` (covered, already processed, before
the baseline), `Defer` (the quiet window), `StartTurn`, `ReadBatch` (the gateway's own read of
the unanswered messages), `Supersede`, `Decide` and `TurnFails`; a restart is `RestartDialog`,
`RetireEvent` for each event it ends, and `FinishRestart`. `Commit` and `Rollback` end the batch. `Send` and `GiveUp` are what the outbound worker makes of an answer.

- A transaction sees its own writes and what others committed (READ COMMITTED). The runtime is
  read once, because the session keeps the object, and written back column by column; `Merged` is
  what two workers leave. Profile, voice packs and `restart_at` share the column
  `metadata_json`; its contents are the field `version`, counted up by every writer.
- `created_at` and `sent_at` of what a turn makes is the start of its transaction
  (`server_default=func.now()`), not the time of the insert.
- `_retire_pending_inbound_events` selects the open events without a lock (`RestartDialog`, `retire`); the
  UPDATE of each waits while another batch holds the row and then writes "processed" over whatever that batch
  committed (`RetireEvent`). An event that failed meanwhile thus becomes "processed".
- Two transactions that create the runtime of one lead collide on its unique key (`Conflict`); two
  restarts that retire each other's events deadlock, and the database ends one of them
  (`DeadlockVictim`).
- There is one clock, in seconds, for Telegram, the database and the workers. Rows with equal
  times come in any order where the code asks for no other.
- A turn is only what it saw and made: the latest time, the batch, its answer's status. The
  last 20 messages that the graph also gets as history are not part of it.
- Left out: events of outgoing messages (they end without effect) and `simulate` payloads.

### AnalysedTurn and SemanticRules

A message is the set of cues that the marker functions of `semantic.py` find in it (`Cues`), its
shape (`Forms`: an empty message, a greeting, a bare "нет", ...) and the first number it names.
`DeterministicSemantic` is `deterministic_semantic` with its rules in the code's order, each an
operator of its own; `MergeDeterministicFacts` lays them over a model's reading.

`AnalysedTurn` has the calls as actions: `StartReading` and `StartReply` (or the fast paths that ask
no model), `Retry`, `LoseCall`, the fall-back to the larger model where `Setups` has a key for it,
`ReadByModel`, `ReplyByModel`, `SettleByRules`. A model answers any value of its schema in
the proofs and the values of `MCModelReadings` and `MCModelReplies` in the run. A reply is the set
of what its messages hold: own words, the stage's question, another stage's (`"foreign"`), a voice.
`Outcome` is `FunnelDialog`'s `Decision` on what comes out.

### TelegramPolling

A poll (`poll_once`, `poll_all_active_accounts_once`) is one open transaction from its first lookup
to its commit, over all calls to CRMchat. `tx[w]` is where the poll is, what it has fetched, and the
rows it has written (`new`); `Visible` is what it sees: committed rows under its own. Each lookup
(`CheckAccount`, `CheckDialog`, `CheckMessage`) and the `Insert` that follows are separate actions:
between them another poll may write or commit the row. An insert waits for the open transaction
that holds the same unique key, fails if that one commits (`UniqueViolation`; the session is
unusable, so the whole poll is lost), and two polls that wait for each other are ended by the database
(`DeadlockVictim`). `FloodWait`, `CallFails`, `NoAccessHash` and `Crash` are the ways a poll ends or
moves on early; which of them keep what was stored differs, as in the code.

### CampaignSequence and BrainOrchestrator

`conv[l]` are the rows of one lead: the run with its position and what it awaits, the jobs of its
steps, the lead's state, facts and open handoffs. Lead intake is split at its reads
(`CheckDuplicate`, `FindDialog`, `CommitLead`, `StoreFailed`), because there two requests meet; every other
call is one transaction and one action: `HandleInbound` (a candidate's message at a gate, a brain or
an llm step, or to an ended run), `SendJob` and `DropJob` (the outbound worker's end of a job with
its report to the run), `Recover` (the recovery pass), `ResetConversation`, `UpdateLeadStatus`.
`at` orders jobs by the transaction that created them. `BrainOrchestrator` has the decisions: a text
is the set of marker lists it hits and the facts it can be parsed as, a model's decision any value
of the schema.

### BrainV2 and BrainRules

A turn is open while the model thinks (`BeginTurn`, `FinishTurn`, `TurnCrashes`): the runs it marked stale and the
jobs it cancelled are locked but not visible. An operator reads a run (`OpenRun`) and writes later
(`Approve`, `Reject`), and writes only the columns that changed, so that one who opened a run
before a turn's commit writes over the turn. `BrainRules` is the agenda, the router's slots, the
local decision, the validator and `force_handoff`; words of an answer are `"good"`, `"bad"` or
`"none"`. No code in `src/` calls the gateway at present: the module assumes what its interface
asks for, one turn at a time. Whether a turn that was put off is ever tried again is up to a caller that does not
exist, so nothing is assumed of it and no progress is claimed.

### Services

`WebhookReceiver`: up to `Handlers` deliveries at once; a handler looks for a duplicate, inserts the
webhook event (waiting for another handler's uncommitted insert of the id), enqueues, commits;
crashes and lost 2xx answers make CRMchat deliver again. `AccountSync`: a row has a
status, a health and a flood wait. Syncs and polls look at the listed accounts one by one and write what
they changed, column by column, when they look at the next one or at the end (`pending`, then `drafts`); written rows are
locked until the commit; the worker and a reset write concurrently. A sync inserts an account as active, a poll with
the status it has in CRMchat: the configured default account (`Configured`) is read whatever its status is
(`StartPoll`, `NewRow`), and such a row is unavailable until a sync finds the account active. `Available` is the
filter of `get_available_for_assignment`; pacing (`next_available_at`) belongs to `OutboundQueue`. Columns that do not bear on it only delay
those who wait for the row, and are left out.
`VoiceUpload`: Telegram keeps parts by file id and number and takes a message when the parts
have the checksum it names. `KnowledgeRetrieval`: items and cards with chosen word scores, ranked
and cut at `ItemLimit`, `TopK`, `ContextSize` and `MaxTexts` as in the code.

## 3. Runs

| Run | Instance | Shows |
|---|---|---|
| `outbound_safety` | 2 workers, 2 jobs of one dialog and account, 2 attempts, 1 rollback | sent is delivered, finished is finished, no stale send; no batch passes over the interval or flood wait it began; the queue implements `DeliveryContract`, so that copies are bounded by rollbacks |
| `outbound_liveness` | 1 worker, 2 jobs (one not allowed), 1 rollback | every job ends; interval and flood wait of the account hold until a batch is lost |
| `outbound_duplicate` | 1 worker, 1 job | *violation*: a rolled-back batch sends a message twice |
| `funnel_safety` | facts of up to 2 fields, `interview_interest` volunteered, failing turns and sends | no voices, age check or question skipped; a queued question is the stage's; ended stays ended |
| `analysis` | every stage and typical profile, 14 messages, 7 readings and 5 replies of models, the 4 settings | hard stops and open questions are the rules'; each outcome is one `FunnelDialog` foresees |
| `inbound_safety` | 1 worker, 3 messages, batch of 3, clock up to 3, quiet window 1, 1 rollback | every processed message was heard, queued answers are current, turns move forward, every event ends |
| `inbound_flood` | 1 worker, 3 messages, batch of 2, no rollback | *violation*: with more messages than a batch holds, the last is closed unheard |
| `inbound_workers` | 2 workers, 3 messages, clock up to 3, 1 rollback | the outcome of a finished event stays, but for a failure that becomes processed with a restart behind it |
| `polling` | 2 pollers, 2 accounts with one common contact, a channel, histories of 2, chats of 3, 1 and 1 messages, 1 trouble | one event for each message, in a dialog of its peer; no gaps; in the end every message is stored |
| `campaign` | 1 lead, 2 requests, the 3 seeded campaigns, 3 messages, 4 kinds of texts, the model decisions that differ | accepted once; steps in order, each once; a run waits for what can come; one handoff; ended stays ended; no run hangs |
| `brain` | 2 messages of 5 kinds, local rules or 2 model decisions, shadow mode or not, 1 operator with 2 verdicts, 1 trouble | nothing uncleared, only the newest plan waits, hard stops, the open question stays with the stage |
| `services` | webhooks: 2 events (1 malformed), 2 handlers, 2 losses; accounts: 2, one of them configured, autopilot and a script, 2 floods, 1 change in CRMchat; voices: 2 of one file id, 2 parts, 2 attempts; knowledge: 4 items, 3 cards, 3 topics | stored once and answered; held back only for a wait, back in service; whole voices; what items and cards know on an asked topic is in the answer |

Bounds. In the queue the interesting cases need two workers for one row, two rows in one
batch, a second attempt and one lost batch; a second rollback only repeats the first. The
second half of the pacing property says something of one worker only, and until a batch is lost, because it
is false otherwise: marks are uncommitted until the batch ends, which the
code accepts by running one outbound worker per account pool; `outbound_liveness` has one. In the dialog, the only
number is how many facts one message states: two are needed for stages that require two
fields, and to complete a stage and a later one at once; `interview_interest` is what the
semantic analyzer recognises at any stage ("запишите меня"), and it lets a turn jump over
`interview_offer`. `Facts` may set any field of the active stage to "no" as well. There is no
bound on the number of messages, turns, restarts or deliveries.

In `InboundTurn` the clock stops at `MaxTime`, and the candidate writes nothing in the last
`Debounce` seconds, so that the last quiet window ends; `SameSecond` says whether two messages may
have the same time. Three messages are needed for an answer, a message that comes late behind it
and a later one; one rollback to lose a batch after its answers. They fit into
one batch, which `Heard` needs; `inbound_flood` is the other case. `QueuedAnswersAreCurrent` and
`TurnsMoveForward` are checked with one worker, the deployment the scripts and the autopilot
describe: two workers that hold two messages of one dialog leave two answers in the queue, and
can answer one message twice. `inbound_workers` needs three messages: a restart, an event it selects while the
other worker handles it, and one behind. All runs have `SameSecond = FALSE`: with two messages of one time in
one poll, "the latest" is not determined (the query orders by `sent_at` and `created_at` only), so
each can be closed for the sake of the other (`Heard`), or both be answered. A lock that a
worker may already hold on the runtime row from its first flush is not modelled: it only
serialises the two commits, in either order.

In `TelegramPolling` a person has at most `HistoryLimit` messages that are not stored (`Say`): a history
fetches the newest ones only, so a longer silence of the poller loses messages, by the code's design.
A chat of three messages with a limit of two and one known from before has a history that is cut
off and one that overlaps stored messages. The third poll of two pollers adds nothing but another
order. Two accounts leave at most one dialog that a peer is found by; with more the code would raise
`MultipleResultsFound` (`CheckDialog`).

In `CampaignSequence` two requests suffice for a race of lead intake, and leads share no rows. Three
messages reach `MinInbound` = 2, a hand-over, and a message behind it. In `BrainV2` a second message
makes the first one's plan stale, two verdicts are an approval and a rejection of one run. In the
services two of everything that competes are enough; `WebhooksAnswered` uses two losses and
`AccountsComeBack` two flood waits, so that each can strike a first and a second attempt. In the account
part the configured account is inactive in CRMchat at first and the other one active; with one change it becomes
active after a poll inserted it as inactive, or the other one is dropped. In the knowledge part card 7 is always
approved and the topic of an interruption is "room" or none. Card 5 (internal) and card 6 (the mentor's) are of any stage, so that at the late stage they can keep
card 7 out of the two best; at the early stage only the search of all stages finds card 7. `AnalysedTurn` needs no bound: it is
one turn; the instance's messages are chosen so that each rule and each guard applies to some.

Deadlock is checked in the outbound, funnel and inbound runs. In the others the system may
stop: all requests answered, all messages stored, the turn over.

Fairness. In `inbound_safety` the worker's `Claim` and its steps are weakly fair (the script's loop
polls without end, a batch is a loop over finitely many events whose model calls time out) and so is
`Tick`; the candidate, the poller and the sending of answers are not. In `outbound_liveness`,
`Claim`, `Commit` and the step of a claimed job are weakly fair because the scripts' loops poll without end and a batch is a straight-line loop with
finite waits; `BecomeDue` and `Cool` are weakly fair because time passes. Nothing is assumed of
candidates, cancellation, failures or new jobs. In `polling` a started poll goes on (calls time out)
and the autopilot's poll of all accounts starts again and again; an insert that waits is
strongly fair, since the database gives a key that becomes free to whoever waits; troubles are
bounded, so "in the end" means after the last of them. In `campaign` the outbound worker ends open jobs
and the autopilot's recovery pass comes back to a run; candidates need not write. In `brain` there is none (see `BrainV2`). In `services` a handler runs to its end and
CRMchat delivers again what it has no 2xx for (strongly fair, since the server limits no requests:
handlers that are busy only delay a delivery). For accounts, waits end, and the autopilot comes back to a
sync: it alternates with polls in one loop, so `StartSync` is enabled again and again but not for good, hence strongly fair. So are the
steps of a sync or poll under way, which may wait for a row: PostgreSQL queues those who wait for a lock,
so that a script which takes it again and again cannot keep the autopilot off for ever. A sync of the
autopilot that fails at CRMchat is not modelled; it would only be repeated.

## 4. Proofs

The eight proof modules are checked by TLAPS for every value of the constants, under the
assumptions named in the modules (`ConstantsOK`, `NamesOK`, `FunnelConstantsOK`, `TurnConstantsOK`,
`PollingConstantsOK`, `CampaignConstantsOK`, `OrchestratorConstantsOK`, `BrainConstantsOK`, `AgendaOK`,
`WebhookConstantsOK`, `AccountConstantsOK`, `VoiceConstantsOK`, `KnowledgeConstantsOK`), which TLC
evaluates in the runs. No fact about the code is assumed besides the module itself. Every invariant
and every action property of the passing runs is stated by a theorem. Four of these theorems hold
under more than that; the assumption is in their statements:

| Assumption | Theorems | Why it is made | Without it |
|---|---|---|---|
| `OneWorker`, `~SameSecond` | `NothingAnsweredTwice`, `AnswersStayCurrent`, `MessagesAreHeard` | one inbound worker is how the scripts and the autopilot run it; the second is a restriction, since Telegram's times are in seconds | TLC finds a message answered twice, two answers in the queue, or two messages closed for each other's sake |
| `[]FitsOneBatch` | `MessagesAreHeard` | a restriction: the code reads 20 messages | `inbound_flood` |
| `NoGateBeforeLlm` | `CampaignHandsOverOnce` | no seeded campaign has an `interest_gate` ahead of an `llm_decision` step | TLC finds a second open handoff with waiting message, gate, waiting message, `llm_decision` |

*Outbound queue.* `IInv` is `TypeOK` and, for each job, `JobInv`: both versions of the row are well
formed (`RowOK`), only open rows are locked and the work is as far as the row says
(`Progress`), ids are numbered and an id no row records was lost in a rollback (`Ids`), a send
under way was fresh at the last look (`FreshSend`). It is needed because the properties speak
of committed rows while the steps write drafts, which reach the committed row only at
`Commit`. `Invariance` proves it; `TypeCorrect`, `BudgetKept`, `SentIsTrue`, `CopiesBounded`,
`FreshSends`, `FinishedForGood` follow, and `Refinement` proves that every step is a step of
`DeliveryContract` or a stutter. `PacingKept` is the theorem about
marks, in two halves. For any number of workers, no worker is at a job whose account its own batch has
marked (`OwnPace`): a mark is set when the work on a job ends, so the next job of the batch meets it before it
starts typing. With one worker, and until a batch is lost, no account with a job under way is marked
at all (`PacingInv`: every mark is one that the only worker sees). More does not hold: with a second worker its
marks are not seen before they are committed, and after a rollback nobody sees those of messages that have left.

*Funnel.* The lemmas about the policy say what the loop can make of a stage: it never leaves
`Early` (up to the intro voices) or `Mid` (between the two packs) through an action stage
(`SkipOneRegion`, `AdvanceRegion`), and it does not reach the intro voices without a passed age
check (`IntroNeedsAge`). `WantedRegion` and `DecisionRegion` carry that through the
controller. `IInv` adds to the properties that the status repeats the stage
(`StatusFollowsStage`; the controller writes both, and `ClosedIsRecorded` is about the status) and
that a running turn has left nothing queued (`CleanTurn`, without which an old question could
survive the turn). `Invariance`, `TypeCorrect`, `Materials`, `Rests`, `Closed`, `Questions`,
`TerminalStay` and `AgeGated` are the theorems. `NoneSkipped` needs what lies between two stages, too:
`Walked(s, t, p)` says that `t` is `s` or further along the path and that profile `p` answers every
question from `s` up to `t`, an action stage standing for the question behind it. It composes (`WalkedOn`), one
round of the loop is a walk (`SkipOneWalks`), hence the loop (`AdvanceWalks`) and the
controller (`DecisionWalks`).

*Inbound turn.* For any number of workers, `TypesAndClaims` proves `TypeOK` together with
`ClaimedOnce` (each is needed for the other: an outcome is typed because its event was stored,
and an event is taken only when nobody holds it). `FinishedStays` says that a finished event
stays finished and keeps its outcome, except that a failure may become "processed" with a restart behind the
message. Both follow from `HeldInv`, whose last part `RetiresEarlier` is about restarts, which select events they do not
hold: whatever a restart has selected was sent no later than the restart, and an outcome that a transaction has for an
event which somebody else has finished meanwhile is "processed", from a restart that begins the dialog after
that message (`BegunAfter`). Under `OneWorker`
(there is at most one) and `~SameSecond`, `InvariantHolds` proves `IInv` and
`NothingAnsweredTwice` that turns move forward. The argument: the runtime remembers, by its last
message or its restart, the latest message that any turn has seen (`Remembers`, also for the
uncommitted runtime and turns of the transaction, `WorkInOrder`), so a message that
`NotForThisTurn` lets through is later than all of them (`NewToTheRuntime`); with messages in
different seconds, the batch's newest message is at least as late as the one the turn is for, or
the turn is superseded.

What a batch closes or cancels counts only once it commits, so the invariants behind `Heard` and
`QueuedAnswersAreCurrent` state both of what a transaction would leave (`HeardIn`, `CurrentIn`,
over `StatusIn`, `SeenIn`, `WaitingIn`), and of the committed state as the transaction that does
nothing (`Idle`). An event is closed without a turn because of the runtime row (`NotForThisTurn`) or of a later
message. For the row, `RowTold` turns `Remembers` round: whatever the row marks as seen some turn has
seen, and so has every answer that waits. For a later message, its event is open, or a turn took it, or it was
closed for a still later one; messages being finitely many, one of them ends the chain (the
greatest by `Sent`). `CurrentInv` adds to these that a run under way has cancelled all that waited, a restart under way
counting as the message it will queue (`Beginning`);
`AnswersStayCurrent` follows, whatever the size of a batch. `HeardInv` adds that a run has read at least as far
as the message it is for. That step is the one that needs `FitsOneBatch`: a batch is everything since
the last sent answer then (`IsBatch`), the message of the run included, and a run is superseded only
by a message that is later. `MessagesAreHeard` is that argument.

*Polling.* `Inv` says of the committed rows and of every poll's own rows that each message has
its event (`Paired`), and that a poll that stores messages writes them into a dialog with the
peer it is at. `PollingStoredWithEvent` follows: what is committed is one poll's rows over the others'
(`MergedPaired`), and a row is added under a key that neither has. `WholeInv` is for gaps. Messages are
stored newest first, so during a poll there *is* a gap in its own rows; what has none is the union
of what is committed, what the poll has stored and what it has still to store (`Whole`), whatever
others commit meanwhile. That a fetched history closes up with the committed messages is
`InReach`, kept by the limit on `Say` (a count of what is missing, `SayWhole`); that only people's histories are
fetched is `OnlyPeople`. `PollingNoGap` follows.

*Campaign.* For every campaign whose gates are followed by fixed messages that end with a waiting one
(`CampaignConstantsOK`; the three seeded ones are), `Rows` says of a run's jobs: none lies
ahead of the position, each fixed message up to it has exactly one, no two have transaction and
step in common, and of a gate's questions only the latest can be open. `Run` says where a
run can stand: while it waits, it awaits the step of its position; a wait for a sending has a
job, a wait for an answer a sent one. Each call is proved to lead from a `Run` to a `Run`, the
schedule of the messages after a gate by the least step that stops it (`NextStop`). The theorems
are `CampaignAcceptedOnce`, `CampaignStepsInOrder`, `CampaignWaitsForItsMessage` and
`CampaignEndedStaysEnded`. `CampaignHandsOverOnce` adds `Handed`: at most one handoff is open, and only
behind a step that decides, from which the run did not move on unless it was a gate. A brain step and a
gate look for an open handoff before they open one; an `llm_decision` step does not, and what keeps it from opening
a second is that a run reaches it once, and with no gate before it, with none open.

*Brain v2.* `Inv` adds to `NothingUncleared` and `PendingIsNewest` that an open turn has marked
stale whatever waited when it began (`turn.open => Pending \subseteq turn.stale`), so that the run it
adds is the only one that waits after it, and that a run which the validator hands over is a
handoff (`TurnsHandOver`), so that executing or approving it creates no message.
`BrainNothingUncleared` and `BrainPendingIsNewest` follow for any agenda, models and operators.
`BrainHardStops` goes case by case over the local decision and `force_handoff` behind it (`TurnStops`); `Inv`
carries it for the runs already made, because an approval or a rejection changes a run's columns but not
its action. `BrainQuestionKept` needs that a lead has all items of the agenda or, before its first turn, none (`LeadOK`), and that
each way a local decision can end moves stage and question together (`LocalShapes`, `LocalKeeps`);
`AgendaOK` says of the agenda what the local rules take for granted of it: the two items they name are there,
at the stages they step to, and no item stands at the first stage.

*Analysed turn.* Lemmas about the rules say that an open reading is never at the same time an answer
(`Sound`), and that a message with a stop cue, or an age below 18 at the age check, is read as
such before any other rule; further lemmas say what a merge with *any* reading of a model leaves of that.
`Inv` says that the turn's reading is the rules' or such a merge, and that no other stage's question is in a
reply while one is open. `TurnQuestionFirst` and `TurnHardStopsHeld` follow, the latter through
`FunnelDialog`'s decision. `TurnForeseen` joins the two modules: the reading is one of
`FunnelDialog`'s `Semantics` (`FactsForeseen`), and among its `Replies` is one with the same
decision (`RepliesForeseen`). The reply of the turn need not itself be among them, since messages the controller drops
differ; so the lemmas say what the reply is in each case (`Expected`, for the rules and for a model)
and that this settles the decision. The proofs about `FunnelDialog` thereby hold of turns with models in them.

*Services.* `WebhookStoredOnce`: a handler past its insert holds the id, at most one does
(`OneHolder`), and only while nothing is stored (`HeldIsNew`). `AccountHeldBack`: health and wait are written
together, so that a row written by anybody, over whatever it was by then, is held back for a wait or healthy (`WrittenKeepsWait`). `VoiceWhole`: invariance of the property with the types.
`KnowledgeLimits`: the cuts keep their limits: the ranks of the selected
entries are different and at most the limit, so there are no more entries than that.
`KnowledgeAnswersWhatIsAsked` is the converse: an entry is left out of a cut only if as many others as
the cut takes come before it. In the first cut these have the points of a topic (`LeftOutIsBeaten`); the answer is
then composed of the entries on asked topics only, of all of them or of `MaxTexts` (`AnswerHasAll`).
`KnowledgeCardsAreAnswered` says the same of cards, which pass four cuts: whoever is cut names who is better (`Better`), and
only cards that may be offered count behind the filter. An internal card can hide another one by the `TopK`
cut alone, which comes before the filter.

Only model-checked is liveness (`EverySettles`, `EveryEventEnds`, `EventuallyStored`, `NoRunHangs`,
`WebhooksAnswered`, `AccountsComeBack`): fairness and ENABLED are out of the prover's reach.
`NoDuplicateCopy` is false, and so is `Heard` without `FitsOneBatch`; both have their runs. Not
provable with the installed provers are statements by induction over data, so recursive definitions are kept out
of the modules and loops are unrolled or written as sets.

## 5. Where code and documents disagree

`outbound_duplicate` is a run of its own: the random id is committed with the outcome of the whole
batch; after a crash in between, the message is sent again under a new id, though README.md:215 says
the id is there for idempotency.

`inbound_flood` came out of the proof of `Heard`, which failed at the batch: the batch holds the oldest 20 messages
since the last sent one (`IsBatch`). With more, a run never reads the latest message, finds a newer one than it has
read and is superseded; every later message fares the same, and the event of the latest ends as processed
without a turn. The candidate is not answered until an outbound message is sent by other means, though
README.md:455 and PROJECT_CONTEXT.md:22 promise a run on the latest batch. The run has two messages instead of 20.

Seen while modelling, by following the named actions; no run repeats them.

Funnel and inbound queue:

- A silent turn moves to `human_handoff` without a handoff action, so no `HumanHandoff` row exists
  (README.md:66: handoffs are persisted with reason and status). It also sets or keeps
  `awaiting_interrupt_followup` but creates no follow-up (prompts/reply_orchestrator.md:66).
- Queued voices are cancelled by the next message while the pack stays in `sent_voice_packs`; it is
  never delivered (funnel_policy.py:72: the stage's goal is to send them).
- A message stored late, older than an answer created meanwhile, is closed as covered, but no batch
  holds it (turn_buffer.py:43, README.md:455).
- Two workers read one runtime row; the second write discards the profile of the first turn
  (docs/langgraph_funnel_foundation.md:9: a dialog resumes across turns).
- A restart writes "processed" over the failure of an event that another worker ended after the restart selected
  it (`RetireEvent`); the failure is lost, but the restart comes after that message.
- A candidate's first message is answered without the quiet window: `prepare_inbound_turn` keeps the
  window in the runtime row, which the gateway creates later (`InWindow`).
- Only the latest message is compared with the restart baseline (`NotForThisTurn`); the batch it
  brings along may hold messages from before `/restart` (`ReadBatch`).
- The age of an answer is the start of its batch's transaction; a message stored after that makes
  its own answer stale (`IsStale`), and the answer is dropped.
- A silent turn that completes a stage persists the next one without asking its question
  (`QueuedJobs`; prompts/reply_orchestrator.md:62 says that the controller asks).
- A partial answer with an open question moves the stage (`WantedStage`), and the follow-up asks the
  old stage's question (CURRENT_CHAT_HANDOFF.md:106: an interrupt is not a new stage).

Reading and answering:

- A bare "ок", "да" or "нет" at the contact stage is stored as the candidate's name; the first
  number of a message is the interview's hour even when it belongs to a date, and "3:30 по мск" loses
  its minutes. An hour out of range is kept, so the next acknowledgement completes the stage.
- A stage answer that contains a question closes the turn, and the question is not answered.
- An answer of a model that its schema rejects is not tried again; a missing prompt file
  (`OSError`) is not caught by the analyzer; `MAX_TOTAL_REPLY_SENTENCES` is never enforced.
- Cards found by another name of a topic are filtered out again by the comparison with the raw
  name; the five best cards are cut off before internal and weak ones are removed, and where
  only internal ones are among the five, they are offered.

Polling and accounts:

- After a unique violation the whole poll is lost: the branch of `enqueue` for its own violation
  (`inbound_pipeline.py:53`) is never reached. An error of one account that is no flood wait loses what
  `poll_all_active_accounts_once` stored for the others, too.
- `get_by_telegram_peer` ignores the account, so the second account that meets a peer stores into the
  first one's dialog, and with several dialogs of one peer it raises.
- What the worker sends comes back from Telegram as a second message row. `metadata_only` is never reset.
- An account's `status` never leaves "active" when CRMchat drops it, and one that a poll inserted with another
  status cannot be assigned until a sync finds it active. A reset that read an older flood
  wait can clear a newer one. Two inserts of one account that collide roll back a whole sync.

Campaigns and leads:

- `handle_inbound_message` has no caller in `src/`; it is modelled as the service's interface.
  No transaction commits `awaiting_llm`, so its recovery never acts.
- A gate decision that neither ends, answers nor continues leaves the run "active" for good; a lead
  that was refused for lack of an account is answered "idempotent" for good; of two requests for one
  lead at once one can end in a 500 (`lead_intake.py:79`); a manual `DO_NOT_CONTACT` does not stop
  the run. An `llm_decision` step behind a gate that handed over opens a second handoff (`NoGateBeforeLlm`).

Webhooks and voices:

- Of two simultaneous deliveries of one event the second ends in a 500 (README.md:225: idempotent);
  an event with a malformed date does so each time. A body that is not JSON makes a send
  a permanent failure although it may have been delivered (`crmchat_connector.py:185`).

Brain v2:

- An operator who opened a run before a turn's commit and approves it afterwards sends the old
  answer (README.md:456: pending plans are cancelled); a second approval sends again, a rejection
  overwrites "executed"; shadow mode changes the lead's state all the same.
- With the local rules the first trust item is never done, so the agenda does not leave "trust", and
  from `age_gate` no item is reachable, which counts as a completed agenda. The validator reads the
  response, the executor sends the action's text. A closed lead who writes again is handed over
  and set active.

## 6. Not modelled

Wording: recognising markers in Russian text, prompts, sentence limits and the texts themselves are abstracted to
cues and kinds of replies. Evaluation tools, the local chat and the annotation script
(no shared state), with them `timeout_event`. Typing events of the funnel: `record_typing_activity` exists,
but the poller enqueues messages only and webhook events carry no dialog of ours. The planners of
`intro.py`, the agent toolkit, creating and embedding of cards, and the setters of the dialog state service,
which nothing calls. Prompt storage and the catalogue of models, schema and settings. The
LangGraph checkpointer (off by default). The retryable error of the inbound worker, with its backoff and dead
letter: nothing but the `simulate` payloads of the tests raises it. In polling: the direction of
messages, read marks, and the limit on dialogs. In campaigns: repeated delivery of one message
of a candidate, since the caller is not in `src/`. In Brain v2: concurrent turns, for the same reason, and
batches of more than three messages. The order of the parts of one reply group.

## 7. Plan

Done: the modules, runs and proofs above, in the order outbound queue, funnel, inbound turn,
campaign, polling, Brain v2, analysis, services. Left:

1. Proofs: the six liveness properties have safety halves worth stating (what a fair step finds enabled
   it leaves nearer to the end), for instance that a deferred event's attempts only grow.
2. `ReplyGroup`: the order of the parts of one reply over the outbound queue.
3. An abstract dialog ("every message is answered or covered by a later answer") that the
   composition of `InboundTurn` with `FunnelDialog`'s turn implements.
4. Brain v2 and the campaign behind the inbound worker, once code in `src/` calls them.
