----------------------------- MODULE InboundTurn -----------------------------
(***************************************************************************)
(* What happens to the messages of one candidate: the poller stores them    *)
(* with an inbound event each, InboundQueueWorker claims the events in      *)
(* batches, the turn buffer decides which event becomes a turn, the funnel  *)
(* gateway answers a batch of messages, the outbound worker sends or drops  *)
(* the answer.                                                              *)
(*                                                                          *)
(* A batch of events is ONE transaction.  What worker w has written in it   *)
(* stays in tx[w] until Commit and is gone after Rollback; the event rows   *)
(* are locked meanwhile.  The runtime row is read once per transaction and  *)
(* written back field by field, as the session's identity map does.         *)
(*                                                                          *)
(* Time is the database's and Telegram's common clock in whole seconds, of  *)
(* which only the order matters.  sent_at of an outbound message and        *)
(* created_at of its job are the start of the transaction that made them    *)
(* (server_default now()).  Events of our own messages end without any      *)
(* effect and are left out, and so are the "simulate" payloads of the       *)
(* tests, without which no attempt limit is ever looked at.                 *)
(***************************************************************************)
EXTENDS Integers, Sequences, FiniteSets

CONSTANTS
  Workers,       \* inbound worker processes
  Debounce,      \* brain_inbound_debounce_seconds
  BatchLimit,    \* messages of one turn at most (20)
  SameSecond,    \* may a candidate send two messages in one second?
  MaxMessages,   \* bound: messages the candidate writes
  MaxTime,       \* bound: the clock stops here
  MaxRollbacks   \* bound: batches lost by a crash

ASSUME TurnConstantsOK ==
  /\ Debounce \in Nat
  /\ BatchLimit \in Nat \ {0}
  /\ SameSecond \in BOOLEAN
  /\ MaxMessages \in Nat
  /\ MaxTime \in Nat
  /\ MaxRollbacks \in Nat

VARIABLES
  now,        \* the clock
  wrote,      \* what the candidate wrote: when and what
  page,       \* created_at of the stored messages, a prefix of wrote
  event,      \* the inbound event of each stored message
  runtime,    \* the dialog's lead_funnel_runtime row
  turns,      \* the turns committed so far, each with its answer
  tx,         \* what each worker's transaction has done so far
  rollbacks   \* batches lost so far

vars == <<now, wrote, page, event, runtime, turns, tx, rollbacks>>

Times    == 0..MaxTime
Messages == 1..MaxMessages
Never    == -1
Open     == {"queued", "retry"}
Final    == {"processed", "failed"}

Message == [sent : 0..(MaxTime - Debounce), text : {"message", "restart"}]
Event   == [status : Open \cup Final, retryAt : Times]
Runtime == [exists : BOOLEAN,
            last   : {0} \cup Messages,        \* last_processed_message_id
            quiet  : Times,  \* debounce_until
            base   : Times \cup {Never},       \* restart_at
            version : Nat]                     \* of metadata_json (profile, restart_at)
Turn    == [seen  : Times,          \* sent_at of the processed message, or the restart
            batch : SUBSET Messages,
            at    : Times,          \* created_at of what the turn made
            version : Nat,          \* the metadata it wrote
            reply : {"none", "queued", "sent", "dropped"}]

NoRuntime == [exists |-> FALSE, last |-> 0, quiet |-> 0, base |-> Never, version |-> 0]

Phases == {"idle", "next", "ready", "thinking", "retiring"}

\* Outcomes of some of the events.
Outcomes == UNION {[S -> Event] : S \in SUBSET Messages}

\* What a transaction has done: the batch's events still to handle and the outcomes
\* of those handled, the message under work with its batch, the events a restart
\* selected and has not ended yet, the runtime as read and as changed, committed
\* answers it cancelled, turns it made.
Work == [phase : Phases, at : Times, todo : SUBSET Messages, cur : {0} \cup Messages,
         batch : SUBSET Messages, upto : {0} \cup Messages, retire : SUBSET Messages,
         loaded : Runtime, rt : Runtime,
         out : Outcomes,
         drop : SUBSET Nat, new : Seq(Turn)]

NoOutcome == [i \in {} |-> [status |-> "queued", retryAt |-> 0]]
Idle == [phase |-> "idle", at |-> 0, todo |-> {}, cur |-> 0, batch |-> {}, upto |-> 0,
         retire |-> {}, loaded |-> NoRuntime, rt |-> NoRuntime, out |-> NoOutcome, drop |-> {}, new |-> <<>>]

Stored == DOMAIN page
Sent(i) == wrote[i].sent

\* ORDER BY sent_at, created_at; equal rows come in any order.
Before(i, j) == Sent(i) < Sent(j) \/ (Sent(i) = Sent(j) /\ page[i] < page[j])

-----------------------------------------------------------------------------
(* The candidate, the clock, the poller.                                    *)

\* The candidate stops early enough for the last quiet window to end.
CandidateWrites ==
  /\ Len(wrote) < MaxMessages
  /\ now + Debounce <= MaxTime
  /\ SameSecond \/ \A i \in DOMAIN wrote : Sent(i) < now
  /\ \E text \in {"message", "restart"} :
       wrote' = Append(wrote, [sent |-> now, text |-> text])
  /\ UNCHANGED <<now, page, event, runtime, turns, tx, rollbacks>>

Tick ==
  /\ now < MaxTime
  /\ now' = now + 1
  /\ UNCHANGED <<wrote, page, event, runtime, turns, tx, rollbacks>>

\* One poll stores what is new in the dialog's history, each message with its
\* event, in one transaction and so with one created_at.
Poll ==
  /\ Len(page) < Len(wrote)
  /\ LET fresh == [i \in 1..Len(wrote) |-> Len(page) + 1]
         queued == [i \in 1..Len(wrote) |-> [status |-> "queued", retryAt |-> 0]]
     IN /\ page' = [i \in 1..Len(wrote) |-> IF i \in Stored THEN page[i] ELSE fresh[i]]
        /\ event' = [i \in 1..Len(wrote) |-> IF i \in Stored THEN event[i] ELSE queued[i]]
  /\ UNCHANGED <<now, wrote, runtime, turns, tx, rollbacks>>

-----------------------------------------------------------------------------
(* Claiming a batch.                                                        *)

Handled(w) == DOMAIN tx[w].out
Held(w) == tx[w].todo \cup Handled(w)

\* Faulty variant: no row lock keeps another worker off.
Locked_Never(i) == FALSE

Locked(i) == \E w \in Workers : i \in Held(w)

\* Faulty variant: only events that were never tried.
IsReady_QueuedOnly(i) == event[i].status = "queued"

IsReady(i) ==
  \/ event[i].status = "queued"
  \/ event[i].status = "retry" /\ event[i].retryAt <= now

Claimable == {i \in Stored : IsReady(i) /\ ~Locked(i)}

\* ORDER BY created_at LIMIT: an oldest part of what is ready (events of other
\* dialogs may fill the rest of the batch).
Claim(w) ==
  /\ tx[w].phase = "idle"
  /\ \E batch \in SUBSET Claimable \ {{}} :
       /\ \A i \in batch, j \in Claimable \ batch : page[i] <= page[j]
       /\ tx' = [tx EXCEPT ![w] = [Idle EXCEPT !.phase = "next", !.at = now, !.todo = batch]]
  /\ UNCHANGED <<now, wrote, page, event, runtime, turns, rollbacks>>

EmptyBatch(w) ==
  /\ tx[w].phase = "idle"
  /\ Claimable = {}
  /\ UNCHANGED vars

-----------------------------------------------------------------------------
(* One event of the batch.                                                  *)

\* The next event of the batch, in the order of created_at.
IsNext(w, i) ==
  /\ tx[w].phase = "next"
  /\ i \in tx[w].todo
  /\ \A j \in tx[w].todo : page[i] <= page[j]

\* The runtime as the session shows it: its own copy once it has read the row.
View(w) == IF tx[w].rt.exists THEN tx[w].rt ELSE runtime
Loaded(w) == IF tx[w].rt.exists THEN tx[w].loaded ELSE runtime

\* The transaction of w after event i ended with this status.
Finish(t, i, status, retryAt) ==
  [t EXCEPT !.phase = "next", !.cur = 0, !.batch = {}, !.upto = 0,
            !.todo = @ \ {i},
            !.out = [j \in DOMAIN t.out \cup {i} |->
                       IF j = i THEN [status |-> status, retryAt |-> retryAt] ELSE t.out[j]]]

Latest(i) == i \in Stored /\ \A j \in Stored : ~Before(i, j)

\* Faulty variant: the turn that was made for the same message is forgotten.
NotForThisTurn_NoLastProcessed(r, i, latest) ==
  \/ latest # i
  \/ r.exists /\ Sent(latest) <= r.base

\* covered_by_newer_inbound, already_processed_latest_inbound,
\* inbound_before_reset_baseline
NotForThisTurn(r, i, latest) ==
  \/ latest # i
  \/ r.exists /\ r.last = latest
  \/ r.exists /\ Sent(latest) <= r.base

Dismiss(w) ==
  /\ \E i \in tx[w].todo, latest \in Stored :
       /\ IsNext(w, i)
       /\ wrote[i].text # "restart"
       /\ Latest(latest)
       /\ NotForThisTurn(View(w), i, latest)
       /\ tx' = [tx EXCEPT ![w] = [Finish(@, i, "processed", 0)
                                    EXCEPT !.loaded = Loaded(w), !.rt = View(w)]]
  /\ UNCHANGED <<now, wrote, page, event, runtime, turns, rollbacks>>

\* cancel_pending_outbound: the answers still queued, its own among them.
QueuedTurns == {k \in DOMAIN turns : turns[k].reply = "queued"}
\* Faulty variant: nothing is cancelled.
CancelPending_Nothing(t) == t

CancelPending(t) ==
  [t EXCEPT !.drop = @ \cup QueuedTurns,
            !.new = [k \in DOMAIN @ |-> IF @[k].reply = "queued"
                                        THEN [@[k] EXCEPT !.reply = "dropped"] ELSE @[k]]]

QuietUntil(i) == Sent(i) + Debounce

\* Event i is the latest message and new to the runtime: the rest of
\* prepare_inbound_turn.  Without a runtime there is no quiet window.
Accepts(w, i) ==
  /\ IsNext(w, i)
  /\ wrote[i].text # "restart"
  /\ Latest(i)
  /\ ~NotForThisTurn(View(w), i, i)

InWindow(w, i) == View(w).exists /\ QuietUntil(i) > now

Prepared(w, i) ==
  [CancelPending(tx[w]) EXCEPT
     !.loaded = Loaded(w),
     !.rt = IF View(w).exists THEN [View(w) EXCEPT !.quiet = QuietUntil(i)] ELSE NoRuntime]

\* Faulty variant: the deferral is not raised, the event counts as processed.
Deferred_AsDone(t, i) == Finish(t, i, "processed", 0)

Deferred(t, i) == Finish(t, i, "retry", QuietUntil(i))

Defer(w) ==
  /\ \E i \in tx[w].todo :
       /\ Accepts(w, i)
       /\ InWindow(w, i)
       /\ tx' = [tx EXCEPT ![w] = Deferred(Prepared(w, i), i)]
  /\ UNCHANGED <<now, wrote, page, event, runtime, turns, rollbacks>>

StartTurn(w) ==
  /\ \E i \in tx[w].todo :
       /\ Accepts(w, i)
       /\ ~InWindow(w, i)
       /\ tx' = [tx EXCEPT ![w] = [Prepared(w, i) EXCEPT !.phase = "ready", !.cur = i]]
  /\ UNCHANGED <<now, wrote, page, event, runtime, turns, rollbacks>>

\* /restart: drop what is queued and select every other open event of the dialog, as
\* committed or as changed in this batch.  The dialog begins anew at this moment.
ViewEvent(w, i) == IF i \in Handled(w) THEN tx[w].out[i] ELSE event[i]
OtherOpen(w, i) == {j \in Stored \ {i} : ViewEvent(w, j).status \in Open}

RestartDialog(w) ==
  /\ \E i \in tx[w].todo :
       /\ IsNext(w, i)
       /\ wrote[i].text = "restart"
       /\ tx' = [tx EXCEPT ![w] = [CancelPending(tx[w]) EXCEPT
                  !.phase = "retiring", !.cur = i, !.retire = OtherOpen(w, i),
                  !.loaded = Loaded(w),
                  !.rt = [exists |-> TRUE, last |-> i, quiet |-> 0, base |-> now,
                          version |-> View(w).version + 1]]]
  /\ UNCHANGED <<now, wrote, page, event, runtime, turns, rollbacks>>

\* The UPDATE of one of them, in any order.  It waits while another batch holds the row
\* and then looks at nothing but the id: it writes 'processed' over whatever that batch
\* committed.  An event of its own batch is not handled any more.
RetireEvent(w) ==
  /\ tx[w].phase = "retiring"
  /\ \E i \in tx[w].retire :
       /\ \A v \in Workers \ {w} : i \notin Held(v)
       /\ tx' = [tx EXCEPT ![w] = [Finish(@, i, "processed", 0) EXCEPT
                  !.phase = "retiring", !.cur = tx[w].cur, !.retire = tx[w].retire \ {i}]]
  /\ UNCHANGED <<now, wrote, page, event, runtime, turns, rollbacks>>

\* start_for_dialog: the first message of the new dialog is queued.
FinishRestart(w) ==
  /\ tx[w].phase = "retiring"
  /\ tx[w].retire = {}
  /\ LET t == tx[w]
         first == [seen |-> t.rt.base, batch |-> {}, at |-> t.at, version |-> t.rt.version,
                   reply |-> "queued"]
     IN tx' = [tx EXCEPT ![w] = [Finish(t, t.cur, "processed", 0) EXCEPT
                 !.new = Append(t.new, first)]]
  /\ UNCHANGED <<now, wrote, page, event, runtime, turns, rollbacks>>

-----------------------------------------------------------------------------
(* The gateway's run.                                                       *)

\* sent_at of the last outbound message that was sent.
SentTurns == {k \in DOMAIN turns : turns[k].reply = "sent"}
SinceLastOutbound == {i \in Stored : \A k \in SentTurns : Sent(i) > turns[k].at}

\* The first rows of inbound_batch_since_last_outbound.
IsBatch(S) ==
  /\ S \subseteq SinceLastOutbound
  /\ Cardinality(S) <= BatchLimit
  /\ \A i \in S, j \in SinceLastOutbound \ S : ~Before(j, i)
  /\ S # SinceLastOutbound => Cardinality(S) = BatchLimit

\* latest_message_from_batch: max takes the first of equal times.
Newest(S) ==
  {i \in S : \A j \in S : Sent(j) <= Sent(i) /\ (Sent(j) = Sent(i) => ~Before(j, i))}

\* decide_for_dialog_message up to the model calls: the batch is read again,
\* the runtime is created when there is none.
ReadBatch(w) ==
  /\ tx[w].phase = "ready"
  /\ \E S \in SUBSET SinceLastOutbound :
       LET batch == IF S = {} THEN {tx[w].cur} ELSE S
       IN /\ IsBatch(S)
          /\ \E p \in Newest(batch) :
               tx' = [tx EXCEPT ![w] = [@ EXCEPT !.phase = "thinking", !.batch = batch,
                        !.upto = p, !.loaded = Loaded(w),
                        !.rt = [View(w) EXCEPT !.exists = TRUE]]]
  /\ UNCHANGED <<now, wrote, page, event, runtime, turns, rollbacks>>

HasNewerInbound(p) == \E i \in Stored : Sent(i) > Sent(p)

\* A superseded run leaves nothing but a note in the metadata.
Supersede(w) ==
  /\ tx[w].phase = "thinking"
  /\ HasNewerInbound(tx[w].upto)
  /\ LET t == tx[w]
     IN tx' = [tx EXCEPT ![w] = [Finish(t, t.cur, "processed", 0) EXCEPT
                 !.rt = [t.rt EXCEPT !.version = t.rt.version + 1]]]
  /\ UNCHANGED <<now, wrote, page, event, runtime, turns, rollbacks>>

\* The turn is persisted and its answer queued, or it is a silent one.
Decide(w) ==
  /\ tx[w].phase = "thinking"
  /\ ~HasNewerInbound(tx[w].upto)
  /\ \E reply \in {"none", "queued"} :
       LET t == tx[w]
           made == [seen |-> Sent(t.upto), batch |-> t.batch, at |-> t.at,
                    version |-> t.rt.version + 1, reply |-> reply]
       IN tx' = [tx EXCEPT ![w] = [Finish(t, t.cur, "processed", 0) EXCEPT
                   !.rt = [t.rt EXCEPT !.last = t.upto, !.version = t.rt.version + 1],
                   !.new = Append(t.new, made)]]
  /\ UNCHANGED <<now, wrote, page, event, runtime, turns, rollbacks>>

\* Any other exception ends the event for good; what was written before stays.
TurnFails(w) ==
  /\ tx[w].phase = "thinking"
  /\ tx' = [tx EXCEPT ![w] = Finish(@, tx[w].cur, "failed", 0)]
  /\ UNCHANGED <<now, wrote, page, event, runtime, turns, rollbacks>>

-----------------------------------------------------------------------------
(* The end of the batch.                                                    *)

\* The UPDATE carries the columns that differ from the row as it was read; the
\* metadata is one column.
Updated(f, row, read, mine) == IF mine[f] = read[f] THEN row[f] ELSE mine[f]
Merged(row, read, mine) ==
  LET metadata == IF mine.version = read.version /\ mine.base = read.base THEN row ELSE mine
  IN [exists |-> Updated("exists", row, read, mine),
      last   |-> Updated("last", row, read, mine),
      quiet  |-> Updated("quiet", row, read, mine),
      base   |-> metadata.base,
      version |-> metadata.version]

\* Two transactions created the runtime of the dialog (unique lead_id).
Conflict(w) == tx[w].rt.exists /\ ~tx[w].loaded.exists /\ runtime.exists

\* Two restarts wait for each other's events; the database aborts one of them.
WaitsFor(w, v) == tx[w].retire \cap Held(v) # {}
DeadlockVictim(w) == \E v \in Workers \ {w} : WaitsFor(w, v) /\ WaitsFor(v, w)

Commit(w) ==
  /\ tx[w].phase = "next"
  /\ tx[w].todo = {}
  /\ ~Conflict(w)
  /\ event' = [i \in Stored |-> ViewEvent(w, i)]
  /\ runtime' = IF tx[w].rt.exists THEN Merged(runtime, tx[w].loaded, tx[w].rt) ELSE runtime
  /\ turns' = [k \in DOMAIN turns |->
                 IF k \in tx[w].drop THEN [turns[k] EXCEPT !.reply = "dropped"]
                 ELSE turns[k]] \o tx[w].new
  /\ tx' = [tx EXCEPT ![w] = Idle]
  /\ UNCHANGED <<now, wrote, page, rollbacks>>

Rollback(w) ==
  /\ tx[w].phase # "idle"
  /\ \/ (Conflict(w) \/ DeadlockVictim(w)) /\ UNCHANGED rollbacks
     \/ rollbacks < MaxRollbacks /\ rollbacks' = rollbacks + 1
  /\ tx' = [tx EXCEPT ![w] = Idle]
  /\ UNCHANGED <<now, wrote, page, event, runtime, turns>>

-----------------------------------------------------------------------------
(* The outbound worker's end of an answer.                                  *)

Unlocked(k) == \A w \in Workers : k \notin tx[w].drop
IsStale(k) == \E i \in Stored : Sent(i) > turns[k].at

Send(k) ==
  /\ turns[k].reply = "queued"
  /\ Unlocked(k)
  /\ ~IsStale(k)
  /\ turns' = [turns EXCEPT ![k].reply = "sent"]
  /\ UNCHANGED <<now, wrote, page, event, runtime, tx, rollbacks>>

\* Stale, blocked or out of attempts.
GiveUp(k) ==
  /\ turns[k].reply = "queued"
  /\ Unlocked(k)
  /\ turns' = [turns EXCEPT ![k].reply = "dropped"]
  /\ UNCHANGED <<now, wrote, page, event, runtime, tx, rollbacks>>

-----------------------------------------------------------------------------
Init ==
  /\ now = 0
  /\ wrote = <<>>
  /\ page = <<>>
  /\ event = <<>>
  /\ runtime = NoRuntime
  /\ turns = <<>>
  /\ tx = [w \in Workers |-> Idle]
  /\ rollbacks = 0

WorkerStep(w) ==
  \/ Dismiss(w) \/ Defer(w) \/ StartTurn(w)
  \/ RestartDialog(w) \/ RetireEvent(w) \/ FinishRestart(w)
  \/ ReadBatch(w) \/ Supersede(w) \/ Decide(w) \/ TurnFails(w)
  \/ Commit(w)

Next ==
  \/ CandidateWrites
  \/ Tick
  \/ Poll
  \/ \E w \in Workers : Claim(w) \/ EmptyBatch(w) \/ WorkerStep(w) \/ Rollback(w)
  \/ \E k \in DOMAIN turns : Send(k) \/ GiveUp(k)

Spec == Init /\ [][Next]_vars

\* The queue is polled for ever, a batch is a loop over finitely many events with
\* calls that time out, and time passes.
Fairness ==
  /\ WF_vars(Tick)
  /\ \A w \in Workers : WF_vars(Claim(w)) /\ WF_vars(WorkerStep(w))

FairSpec == Spec /\ Fairness

-----------------------------------------------------------------------------
(* Properties.                                                              *)

TxOK(t) ==
  /\ t.todo \subseteq Stored
  /\ t.batch \subseteq Stored
  /\ DOMAIN t.out \subseteq Stored \ t.todo
  /\ t.drop \subseteq DOMAIN turns
  /\ t.phase \in {"ready", "thinking", "retiring"} => t.cur \in t.todo
  /\ t.phase = "thinking" => t.upto \in t.batch
  /\ t.phase = "retiring" => t.retire \subseteq Stored \ {t.cur}

\* Types; an event of a batch is either to be handled or handled, and the message
\* under work is one of the former.
TypeOK ==
  /\ now \in Times
  /\ wrote \in Seq(Message) /\ Len(wrote) <= MaxMessages
  /\ page \in Seq(Messages) /\ Len(page) <= Len(wrote)
  /\ event \in Seq(Event) /\ Len(event) = Len(page)
  /\ runtime \in Runtime
  /\ turns \in Seq(Turn)
  /\ tx \in [Workers -> Work]
  /\ \A w \in Workers : TxOK(tx[w])
  /\ rollbacks \in 0..MaxRollbacks

\* A message whose event was processed was heard: some turn (or restart) has seen
\* a message at least as late, or the event of a message at least as late is not
\* done, or it failed.  No message is closed for the sake of another that was
\* itself closed without a turn.  (As long as FitsOneBatch, below.)
Heard ==
  \A i \in Stored : event[i].status = "processed" =>
    \/ \E k \in DOMAIN turns : turns[k].seen >= Sent(i)
    \/ \E j \in Stored : Sent(j) >= Sent(i) /\ event[j].status # "processed"

\* An answer is never left in the queue behind the candidate's back: for every
\* stored message later than what the queued answer has seen there is an open
\* event of a message at least as late, whose turn will cancel the answer.
QueuedAnswersAreCurrent ==
  \A k \in QueuedTurns, i \in Stored : Sent(i) > turns[k].seen =>
    \E j \in Stored : Sent(j) >= Sent(i) /\ event[j].status \in Open

\* Turns move forward: no turn goes back behind what an earlier turn has seen,
\* and a turn about messages has seen something new, so that nothing is answered
\* twice, whatever was retried, retired or lost in between.
InOrder(ts) ==
  \A k, l \in DOMAIN ts : k < l =>
    /\ ts[k].seen <= ts[l].seen
    /\ ts[l].batch # {} => ts[k].seen < ts[l].seen

TurnsMoveForward == InOrder(turns)

\* No event is in the batches of two workers, and only open events are still to do.
ClaimedOnce ==
  \A w \in Workers : \A i \in Held(w) :
    /\ i \in tx[w].todo => event[i].status \in Open
    /\ \A v \in Workers \ {w} : i \notin Held(v)

\* A restart that t has begun, or brought to its end, begins the dialog anew after
\* message i.
BegunAfter(t, i) ==
  \/ t.phase = "retiring" /\ Sent(i) <= t.rt.base
  \/ \E k \in DOMAIN t.new : t.new[k].batch = {} /\ t.new[k].seen >= Sent(i)

\* What makes FinishedForGood inductive: a restart selected earlier messages only, and
\* an event that ended while it waited will be 'processed' with it.
RetiresEarlier(t) ==
  /\ t.phase = "retiring" =>
       \A i \in t.retire \cup {t.cur} : Sent(i) <= t.rt.base
  /\ \A i \in DOMAIN t.out : event[i].status \in Final =>
       t.out[i].status = "processed" /\ BegunAfter(t, i)

HeldInv ==
  /\ TypeOK
  /\ \A i \in DOMAIN wrote : Sent(i) <= now
  /\ ClaimedOnce
  /\ \A w \in Workers : RetiresEarlier(tx[w])

\* What makes TurnsMoveForward inductive, with one worker and no two messages in
\* one second: the messages are ordered; the runtime, as a transaction has
\* changed it, remembers the latest that any turn has seen, by its last message or
\* by its restart; a run under way is about something later.
SeenBy(r, seen) == seen <= r.base \/ (r.last # 0 /\ seen <= Sent(r.last))

MessagesOrdered ==
  /\ \A i \in DOMAIN wrote : Sent(i) <= now
  /\ \A i, j \in DOMAIN wrote : i < j => Sent(i) < Sent(j)

RowOK(r) ==
  /\ r.last \in {0} \cup Stored
  /\ r.base <= now
  /\ ~r.exists => r = NoRuntime

Remembers(r, ts) ==
  \A k \in DOMAIN ts : r.exists /\ SeenBy(r, ts[k].seen)

NewAfterOld(ts, new) ==
  \A k \in DOMAIN ts, l \in DOMAIN new :
    /\ ts[k].seen <= new[l].seen
    /\ new[l].batch # {} => ts[k].seen < new[l].seen

WorkInOrder(t) ==
  /\ RowOK(t.rt)
  /\ t.rt.exists => t.loaded = runtime /\ Remembers(t.rt, turns)
  /\ InOrder(t.new) /\ NewAfterOld(turns, t.new)
  /\ Remembers(t.rt, t.new)
  /\ t.phase \in {"ready", "thinking"} =>
       /\ \A k \in DOMAIN turns : turns[k].seen < Sent(t.cur)
       /\ \A k \in DOMAIN t.new : t.new[k].seen < Sent(t.cur)
  /\ t.phase = "thinking" => t.rt.exists
  /\ t.phase = "retiring" =>
       /\ t.rt.exists
       /\ \A k \in DOMAIN turns : turns[k].seen <= t.rt.base
       /\ \A k \in DOMAIN t.new : t.new[k].seen <= t.rt.base

IInv ==
  /\ HeldInv
  /\ MessagesOrdered
  /\ RowOK(runtime)
  /\ Remembers(runtime, turns)
  /\ TurnsMoveForward
  /\ \A w \in Workers : WorkInOrder(tx[w])

\* What makes Heard and QueuedAnswersAreCurrent inductive, with one worker: both hold
\* of what the transaction t would leave behind; the runtime row tells of no message
\* that no turn has seen, and of none that a waiting answer has not; a run under way
\* has cancelled every answer.  A restart under way counts as its first message.
StatusIn(t, i) == IF i \in DOMAIN t.out THEN t.out[i].status ELSE event[i].status
Beginning(t) == IF t.phase = "retiring" THEN {t.rt.base} ELSE {}
SeenIn(t) ==
  Beginning(t) \cup {turns[k].seen : k \in DOMAIN turns}
    \cup {t.new[k].seen : k \in DOMAIN t.new}
WaitingIn(t) ==
  Beginning(t) \cup {turns[k].seen : k \in QueuedTurns \ t.drop}
    \cup {t.new[k].seen : k \in {l \in DOMAIN t.new : t.new[l].reply = "queued"}}

HeardIn(t) ==
  \A i \in Stored : StatusIn(t, i) = "processed" =>
    \/ \E seen \in SeenIn(t) : seen >= Sent(i)
    \/ \E j \in Stored : Sent(j) >= Sent(i) /\ StatusIn(t, j) # "processed"

CurrentIn(t) ==
  \A seen \in WaitingIn(t), i \in Stored : Sent(i) > seen =>
    \E j \in Stored : Sent(j) >= Sent(i) /\ StatusIn(t, j) \in Open

RowTold(r, t) ==
  \A x \in Times : SeenBy(r, x) =>
    /\ \E seen \in SeenIn(t) : seen >= x
    /\ \A seen \in WaitingIn(t) : seen >= x

WorkCurrent(w) ==
  /\ CurrentIn(tx[w])
  /\ RowTold(View(w), tx[w])
  /\ tx[w].phase \in {"ready", "thinking"} => WaitingIn(tx[w]) = {}

CurrentInv ==
  /\ IInv
  /\ CurrentIn(Idle)
  /\ RowTold(runtime, Idle)
  /\ \A w \in Workers : WorkCurrent(w)

HeardInv ==
  /\ CurrentInv
  /\ HeardIn(Idle)
  /\ \A w \in Workers :
       /\ HeardIn(tx[w])
       /\ tx[w].phase = "thinking" => Sent(tx[w].upto) >= Sent(tx[w].cur)

\* A run reads every message since the last answer that was sent.  With more of them
\* it reads the oldest only, is superseded by the others, and the event of the latest
\* message is closed unheard.
FitsOneBatch == Cardinality(SinceLastOutbound) <= BatchLimit

\* A finished event is never worked on again, by whatever worker: its outcome stays, but
\* for one case.  A failure may become 'processed', and only together with the first
\* message of a restart that begins the dialog anew after the message: the restart
\* selected the event while another worker had it and wrote over the outcome.
FinishedForGood ==
  [][\A i \in Stored : event[i].status \in Final =>
       \/ event'[i].status = event[i].status
       \/ /\ event[i].status = "failed" /\ event'[i].status = "processed"
          /\ \E k \in DOMAIN turns' \ DOMAIN turns :
               turns'[k].batch = {} /\ turns'[k].seen >= Sent(i)]_vars

\* Every stored message's event ends, deferred and rolled back as it may be.
EveryEventEnds ==
  \A i \in Messages :
    (i \in Stored) ~> (i \in Stored /\ event[i].status \in Final)
=============================================================================
