---------------------------- MODULE OutboundQueue ----------------------------
(***************************************************************************)
(* The outbound queue: rows of outbound_jobs, the OutboundQueueWorker       *)
(* processes that send them through CRMchat, and the other writers of the   *)
(* same rows (FunnelActionExecutor creates them, the turn buffer cancels    *)
(* them when the candidate is active).                                      *)
(*                                                                          *)
(* process_queued_batch is ONE database transaction: the claim (FOR UPDATE  *)
(* SKIP LOCKED), every status change and the clearing of the lease become   *)
(* visible together at its final commit.  A row is therefore a committed    *)
(* version, job[j], and, while a worker holds the row lock, the version     *)
(* that worker has written so far, draft[j].  A rollback (crash, deadlock   *)
(* abort, failed commit) drops the draft but not what Telegram accepted.    *)
(*                                                                          *)
(* Time is abstract: due[j] says that scheduled_at and next_attempt_at have *)
(* passed, and the marks on an account say that its send interval or its    *)
(* flood wait is still running, and which transactions can see that.        *)
(* A canceller that rolls back leaves the row as it was: the model has it   *)
(* as a cancellation that was never requested.                              *)
(***************************************************************************)
EXTENDS Integers, FiniteSets

CONSTANTS
  Jobs,            \* identities of outbound jobs
  Workers,         \* outbound worker processes
  Accounts,        \* Telegram accounts
  AccountOf,       \* the account each job is sent from
  Dialogs,         \* dialogs with candidates
  DialogOf,        \* the dialog each job belongs to
  AllowedJobs,     \* jobs that pass the allowlist and the real-send switch
  CancelOnInbound, \* the brain_cancel_outbound_on_inbound setting
  BatchLimit,      \* rows claimed at most by one batch
  MaxAttempts,     \* max_attempts of every job
  MaxRollbacks,    \* bound: rolled-back batches
  None             \* no worker

ASSUME ConstantsOK ==
  /\ AccountOf \in [Jobs -> Accounts]
  /\ DialogOf \in [Jobs -> Dialogs]
  /\ AllowedJobs \subseteq Jobs
  /\ CancelOnInbound \in BOOLEAN
  /\ BatchLimit \in Nat \ {0}
  /\ MaxAttempts \in Nat \ {0}
  /\ MaxRollbacks \in Nat
  /\ None \notin Workers

VARIABLES
  job,        \* committed row of each job
  draft,      \* row as written so far by the transaction that holds its lock
  lock,       \* the worker whose transaction holds the row, or None
  step,       \* how far the holder has come with the job
  due,        \* scheduled_at and next_attempt_at have passed
  drawn,      \* number of random ids ever drawn for the job
  accepted,   \* random ids Telegram accepted a message of this job under
  activity,   \* candidate activity newer than the job, as the database shows it
  cancelReq,  \* an UPDATE to 'cancelled' by the turn buffer waits for the row
  paced,      \* per account: who knows that the send interval is running
  flooded,    \* per account: who knows that a flood wait is running
  rollbacks   \* batches rolled back so far

rowVars  == <<job, draft, lock, step>>
chatVars == <<drawn, accepted>>
acctVars == <<paced, flooded>>
vars == <<rowVars, due, chatVars, activity, cancelReq, acctVars, rollbacks>>

Open    == {"queued", "retry"}
Final   == {"sent", "blocked", "cancelled", "failed", "dead_letter"}
Statuses == {"absent", "processing"} \cup Open \cup Final
Row == [status : Statuses, attempts : Nat, rid : Nat,
        msg : {"scheduled", "sent", "cancelled"}]
NoRid == 0

\* Marks on an account: a worker (its own uncommitted write), the committed
\* row, or nobody any more because the write was rolled back.
InDB == "in_db"
Lost == "lost"
Knowers == Workers \cup {InDB, Lost}
ASSUME NamesOK == InDB \notin Workers /\ Lost \notin Workers

Steps == {"free", "claimed", "typing", "sending", "done"}
InBatch(w) == {j \in Jobs : lock[j] = w}
Idle(w) == InBatch(w) = {}

\* The worker handles its claimed jobs one after the other.
Handling(w, j) ==
  /\ lock[j] = w
  /\ \A k \in InBatch(w) \ {j} : step[k] \in {"claimed", "done"}

-----------------------------------------------------------------------------
(* Helpers of the worker.                                                  *)

\* Faulty variant: the account is read outside the batch's own transaction.
NotReady_CommittedOnly(w, a) == InDB \in flooded[a] \cup paced[a]

\* Faulty variant: the flood wait of the account is not looked at.
NotReady_IntervalOnly(w, a) == paced[a] \cap {w, InDB} # {}

\* A transaction sees committed marks and its own.
NotReady(w, a) ==
  \/ flooded[a] \cap {w, InDB} # {}
  \/ paced[a] \cap {w, InDB} # {}

HasNewerActivity(j) == CancelOnInbound /\ activity[j] = "newer"

CanRetry(row) == row.attempts < MaxAttempts

\* mark_retry or dead_letter, whichever can_retry says.
RetryOrDeadLetter(row) ==
  [row EXCEPT !.status = IF CanRetry(row) THEN "retry" ELSE "dead_letter"]

MarkTerminal(row, status) == [row EXCEPT !.status = status]

\* Faulty variant: the message row is forgotten.
MarkSent_JobOnly(row) == [row EXCEPT !.status = "sent"]

MarkSent(row) == [row EXCEPT !.status = "sent", !.msg = "sent"]

\* The worker ends its work on j with row r.  Activity that fell into the send
\* window is, from here on, activity like any other.
Finish(j, r) ==
  /\ draft' = [draft EXCEPT ![j] = r]
  /\ step' = [step EXCEPT ![j] = "done"]
  /\ activity' = [activity EXCEPT ![j] = IF @ = "window" THEN "newer" ELSE @]

MarkFlooded(w, a) == flooded' = [flooded EXCEPT ![a] = @ \cup {w}]
MarkPaced(w, a) == paced' = [paced EXCEPT ![a] = @ \cup {w}]

-----------------------------------------------------------------------------
Init ==
  /\ job = [j \in Jobs |-> [status |-> "absent", attempts |-> 0,
                            rid |-> NoRid, msg |-> "scheduled"]]
  /\ draft = job
  /\ lock = [j \in Jobs |-> None]
  /\ step = [j \in Jobs |-> "free"]
  /\ due = [j \in Jobs |-> FALSE]
  /\ drawn = [j \in Jobs |-> 0]
  /\ accepted = [j \in Jobs |-> {}]
  /\ activity = [j \in Jobs |-> "quiet"]
  /\ cancelReq = [j \in Jobs |-> FALSE]
  /\ paced = [a \in Accounts |-> {}]
  /\ flooded = [a \in Accounts |-> {}]
  /\ rollbacks = 0

(***************************************************************************)
(* The other writers of outbound_jobs.                                      *)
(***************************************************************************)

\* FunnelActionExecutor._send_text or _send_voice commits a new job.
Enqueue(j) ==
  /\ job[j].status = "absent"
  /\ job' = [job EXCEPT ![j].status = "queued"]
  /\ draft' = [draft EXCEPT ![j] = job'[j]]
  /\ UNCHANGED <<lock, step, due, chatVars, activity, cancelReq, acctVars,
                 rollbacks>>

\* A new message of the candidate is committed (or LeadBrainState records
\* activity): it is newer than every job the dialog has by now.
InboundNewer(d) ==
  LET older == {j \in Jobs : DialogOf[j] = d /\ job[j].status # "absent"}
  IN  /\ \E j \in older : activity[j] = "quiet"
      /\ activity' = [j \in Jobs |->
                        IF j \in older /\ activity[j] = "quiet"
                        THEN IF step[j] = "sending" THEN "window" ELSE "newer"
                        ELSE activity[j]]
      /\ UNCHANGED <<rowVars, due, chatVars, cancelReq, acctVars, rollbacks>>

\* cancel_pending_outbound reads the committed rows of the dialog that are
\* queued or retry, for a new inbound turn or a restart.  The message behind it
\* may be one polled late, sent before the job was created: then it is no newer
\* activity for the worker, and only the cancellation can stop the job.
CancelSelect(d) ==
  LET pending == {j \in Jobs : DialogOf[j] = d /\ job[j].status \in Open}
  IN  /\ \E j \in pending : ~cancelReq[j]
      /\ cancelReq' = [j \in Jobs |-> cancelReq[j] \/ j \in pending]
      /\ UNCHANGED <<rowVars, due, chatVars, activity, acctVars, rollbacks>>

\* Faulty variant: the UPDATE does not wait for the row lock.
CancelApply_NoWait(j) ==
  /\ cancelReq[j]
  /\ job' = [job EXCEPT ![j].status = "cancelled", ![j].msg = "cancelled"]
  /\ cancelReq' = [cancelReq EXCEPT ![j] = FALSE]
  /\ UNCHANGED <<draft, lock, step, due, chatVars, activity, acctVars,
                 rollbacks>>

\* The UPDATE of that cancellation waits for the row lock and looks at nothing
\* else: it sets job and message to 'cancelled' whatever they have become.
CancelApply(j) ==
  /\ cancelReq[j]
  /\ lock[j] = None
  /\ job' = [job EXCEPT ![j].status = "cancelled", ![j].msg = "cancelled"]
  /\ draft' = [draft EXCEPT ![j] = job'[j]]
  /\ cancelReq' = [cancelReq EXCEPT ![j] = FALSE]
  /\ UNCHANGED <<lock, step, due, chatVars, activity, acctVars, rollbacks>>

(***************************************************************************)
(* Time.                                                                    *)
(***************************************************************************)

\* Faulty variant: a retry is left without its next_attempt_at.
BecomeDue_QueuedOnly(j) ==
  /\ job[j].status = "queued"
  /\ ~due[j]
  /\ due' = [due EXCEPT ![j] = TRUE]
  /\ UNCHANGED <<rowVars, chatVars, activity, cancelReq, acctVars, rollbacks>>

BecomeDue(j) ==
  /\ job[j].status \in Open
  /\ ~due[j]
  /\ due' = [due EXCEPT ![j] = TRUE]
  /\ UNCHANGED <<rowVars, chatVars, activity, cancelReq, acctVars, rollbacks>>

\* next_available_at, or flood_wait_until, of the account passes.
Cool(a, k) ==
  /\ k \in paced[a] \cup flooded[a]
  /\ \/ k \in paced[a] /\ paced' = [paced EXCEPT ![a] = @ \ {k}]
                       /\ UNCHANGED flooded
     \/ k \in flooded[a] /\ flooded' = [flooded EXCEPT ![a] = @ \ {k}]
                         /\ UNCHANGED paced
  /\ UNCHANGED <<rowVars, due, chatVars, activity, cancelReq, rollbacks>>

(***************************************************************************)
(* OutboundQueueWorker.process_queued_batch.                                *)
(***************************************************************************)

Claimable ==
  {j \in Jobs : job[j].status \in Open /\ due[j] /\ lock[j] = None}

\* claim_ready_batch: up to BatchLimit unlocked, due rows.  Which rows come
\* first (scheduled_at, created_at) is left open.
Claim(w) ==
  /\ Idle(w)
  /\ \E batch \in SUBSET Claimable :
       /\ batch # {}
       /\ \/ Cardinality(batch) = BatchLimit
          \/ Cardinality(batch) < BatchLimit /\ batch = Claimable
       /\ lock' = [j \in Jobs |-> IF j \in batch THEN w ELSE lock[j]]
       /\ draft' = [j \in Jobs |-> IF j \in batch THEN job[j] ELSE draft[j]]
       /\ step' = [j \in Jobs |-> IF j \in batch THEN "claimed" ELSE step[j]]
  /\ UNCHANGED <<job, due, chatVars, activity, cancelReq, acctVars, rollbacks>>

\* A poll that claims nothing.
EmptyBatch(w) ==
  /\ Idle(w)
  /\ Claimable = {}
  /\ UNCHANGED vars

\* _account_not_ready, then _reschedule_for_account: no attempt is counted.
Reschedule(w, j) ==
  /\ Handling(w, j)
  /\ step[j] = "claimed"
  /\ NotReady(w, AccountOf[j])
  /\ Finish(j, [draft[j] EXCEPT !.status = "retry"])
  /\ UNCHANGED <<job, lock, due, chatVars, cancelReq, acctVars, rollbacks>>

\* The account is ready and the worker takes up a job it has claimed.
Ready(w, j) ==
  /\ Handling(w, j)
  /\ step[j] = "claimed"
  /\ ~NotReady(w, AccountOf[j])

\* _assert_send_allowed fails.
Block(w, j) ==
  /\ Ready(w, j)
  /\ j \notin AllowedJobs
  /\ Finish(j, MarkTerminal(draft[j], "blocked"))
  /\ UNCHANGED <<job, lock, due, chatVars, cancelReq, acctVars, rollbacks>>

\* The attempt is counted.
Started(j) == [draft[j] EXCEPT !.status = "processing", !.attempts = @ + 1]

\* Faulty variant: every attempt draws an id of its own.
StartTyping_FreshId(w, j) ==
  /\ Ready(w, j)
  /\ j \in AllowedJobs
  /\ ~HasNewerActivity(j)
  /\ drawn' = [drawn EXCEPT ![j] = @ + 1]
  /\ draft' = [draft EXCEPT ![j] = [Started(j) EXCEPT !.rid = drawn[j] + 1]]
  /\ step' = [step EXCEPT ![j] = "typing"]
  /\ UNCHANGED <<job, lock, due, accepted, activity, cancelReq, acctVars,
                 rollbacks>>

\* _send_job up to the typing delay: every check passes, a random id is drawn
\* unless the row already has one.
StartTyping(w, j) ==
  /\ Ready(w, j)
  /\ j \in AllowedJobs
  /\ ~HasNewerActivity(j)
  /\ LET fresh == draft[j].rid = NoRid
         rid == IF fresh THEN drawn[j] + 1 ELSE draft[j].rid
     IN  /\ drawn' = [drawn EXCEPT ![j] = IF fresh THEN rid ELSE @]
         /\ draft' = [draft EXCEPT ![j] = [Started(j) EXCEPT !.rid = rid]]
  /\ step' = [step EXCEPT ![j] = "typing"]
  /\ UNCHANGED <<job, lock, due, accepted, activity, cancelReq, acctVars,
                 rollbacks>>

\* _send_job raises before the typing delay: the first activity check, no
\* workspace, or the peer cannot be resolved.
PrepareFails(w, j) ==
  /\ Ready(w, j)
  /\ j \in AllowedJobs
  /\ \/ /\ HasNewerActivity(j)
        /\ Finish(j, MarkTerminal(Started(j), "cancelled"))
        /\ UNCHANGED flooded
     \/ /\ Finish(j, RetryOrDeadLetter(Started(j)))
        /\ UNCHANGED flooded
     \/ /\ ~HasNewerActivity(j)
        /\ Finish(j, RetryOrDeadLetter(Started(j)))
        /\ MarkFlooded(w, AccountOf[j])
     \/ /\ ~HasNewerActivity(j)
        /\ Finish(j, MarkTerminal(Started(j), "failed"))
        /\ UNCHANGED flooded
  /\ UNCHANGED <<job, lock, due, chatVars, cancelReq, paced, rollbacks>>

\* Faulty variant: activity is looked for before the typing delay only.
EndTyping_NoSecondLook(w, j) ==
  /\ Handling(w, j)
  /\ step[j] = "typing"
  /\ step' = [step EXCEPT ![j] = "sending"]
  /\ UNCHANGED <<job, draft, lock, due, chatVars, activity, cancelReq,
                 acctVars, rollbacks>>

\* The typing delay is over and the second activity check passes.
EndTyping(w, j) ==
  /\ Handling(w, j)
  /\ step[j] = "typing"
  /\ ~HasNewerActivity(j)
  /\ step' = [step EXCEPT ![j] = "sending"]
  /\ UNCHANGED <<job, draft, lock, due, chatVars, activity, cancelReq,
                 acctVars, rollbacks>>

\* The second activity check finds newer activity.
StaleAfterTyping(w, j) ==
  /\ Handling(w, j)
  /\ step[j] = "typing"
  /\ HasNewerActivity(j)
  /\ Finish(j, MarkTerminal(draft[j], "cancelled"))
  /\ UNCHANGED <<job, lock, due, chatVars, cancelReq, acctVars, rollbacks>>

\* Telegram takes the message, unless it has one under this random id.
Accept(j) ==
  accepted' = [accepted EXCEPT ![j] = @ \cup {draft[j].rid}]

SendSucceeds(w, j) ==
  /\ Handling(w, j)
  /\ step[j] = "sending"
  /\ Accept(j)
  /\ MarkPaced(w, AccountOf[j])
  /\ Finish(j, MarkSent(draft[j]))
  /\ UNCHANGED <<job, lock, due, drawn, cancelReq, flooded, rollbacks>>

\* The call raises.  An API or transport error is retried, a flood wait marks
\* the account, anything else (a body that is no JSON) is final; but for the
\* flood wait Telegram may have taken the message all the same.
SendFails(w, j) ==
  /\ Handling(w, j)
  /\ step[j] = "sending"
  /\ \/ /\ Accept(j) \/ UNCHANGED accepted
        /\ \/ Finish(j, RetryOrDeadLetter(draft[j]))
           \/ Finish(j, MarkTerminal(draft[j], "failed"))
        /\ UNCHANGED flooded
     \/ /\ UNCHANGED accepted
        /\ Finish(j, RetryOrDeadLetter(draft[j]))
        /\ MarkFlooded(w, AccountOf[j])
  /\ UNCHANGED <<job, lock, due, drawn, cancelReq, paced, rollbacks>>

\* The row locks of w's transaction are released and its rows are clean.
Release(w) ==
  /\ lock' = [j \in Jobs |-> IF lock[j] = w THEN None ELSE lock[j]]
  /\ step' = [j \in Jobs |-> IF lock[j] = w THEN "free" ELSE step[j]]

\* What w wrote about the accounts becomes known as k.
MarksBecome(w, k) ==
  LET move(s) == IF w \in s THEN (s \ {w}) \cup {k} ELSE s
  IN  /\ paced' = [a \in Accounts |-> move(paced[a])]
      /\ flooded' = [a \in Accounts |-> move(flooded[a])]

\* session.commit() once every claimed job is dealt with.  A row left in
\* 'retry' waits for its next_attempt_at.
Commit(w) ==
  /\ ~Idle(w)
  /\ \A j \in InBatch(w) : step[j] = "done"
  /\ job' = [j \in Jobs |-> IF lock[j] = w THEN draft[j] ELSE job[j]]
  /\ due' = [j \in Jobs |->
               due[j] /\ (lock[j] = w => draft[j].status # "retry")]
  /\ Release(w)
  /\ MarksBecome(w, InDB)
  /\ UNCHANGED <<draft, chatVars, activity, cancelReq, rollbacks>>

\* The process dies, the database aborts the transaction, or an exception
\* leaves the loop: nothing of the batch is kept, its messages stay delivered.
Rollback(w) ==
  /\ ~Idle(w)
  /\ rollbacks < MaxRollbacks
  /\ rollbacks' = rollbacks + 1
  /\ draft' = [j \in Jobs |-> IF lock[j] = w THEN job[j] ELSE draft[j]]
  /\ activity' = [j \in Jobs |->
                    IF lock[j] = w /\ activity[j] = "window"
                    THEN "newer" ELSE activity[j]]
  /\ Release(w)
  /\ MarksBecome(w, Lost)
  /\ UNCHANGED <<job, due, chatVars, cancelReq>>

-----------------------------------------------------------------------------
WorkerStep(w, j) ==
  \/ Reschedule(w, j)
  \/ Block(w, j)
  \/ StartTyping(w, j)
  \/ PrepareFails(w, j)
  \/ EndTyping(w, j)
  \/ StaleAfterTyping(w, j)
  \/ SendSucceeds(w, j)
  \/ SendFails(w, j)

Next ==
  \/ \E j \in Jobs : Enqueue(j) \/ CancelApply(j) \/ BecomeDue(j)
  \/ \E d \in Dialogs : InboundNewer(d) \/ CancelSelect(d)
  \/ \E a \in Accounts, k \in Knowers : Cool(a, k)
  \/ \E w \in Workers :
       \/ Claim(w) \/ EmptyBatch(w) \/ Commit(w) \/ Rollback(w)
       \/ \E j \in Jobs : WorkerStep(w, j)

Spec == Init /\ [][Next]_vars

(***************************************************************************)
(* The worker loop (scripts/process_outbound_queue.py --loop, or            *)
(* run_autopilot) keeps polling and a batch it has claimed it works off;    *)
(* time passes.  Nothing is assumed of candidates, cancellers or failures.  *)
(***************************************************************************)
Fairness ==
  /\ \A w \in Workers :
       /\ WF_vars(Claim(w))
       /\ WF_vars(Commit(w))
       /\ WF_vars(\E j \in Jobs : WorkerStep(w, j))
  /\ \A j \in Jobs : WF_vars(BecomeDue(j))
  /\ \A a \in Accounts, k \in Knowers : WF_vars(Cool(a, k))

FairSpec == Spec /\ Fairness

-----------------------------------------------------------------------------
(***************************************************************************)
(* Properties.                                                              *)
(***************************************************************************)

\* Types of all variables.
TypeOK ==
  /\ job \in [Jobs -> Row]
  /\ draft \in [Jobs -> Row]
  /\ lock \in [Jobs -> Workers \cup {None}]
  /\ step \in [Jobs -> Steps]
  /\ due \in [Jobs -> BOOLEAN]
  /\ drawn \in [Jobs -> Nat]
  /\ accepted \in [Jobs -> SUBSET (Nat \ {NoRid})]
  /\ activity \in [Jobs -> {"quiet", "newer", "window"}]
  /\ cancelReq \in [Jobs -> BOOLEAN]
  /\ paced \in [Accounts -> SUBSET Knowers]
  /\ flooded \in [Accounts -> SUBSET Knowers]
  /\ rollbacks \in 0..MaxRollbacks

\* A committed row can still be worked on exactly as long as it has an attempt
\* left: no row waits for a retry it may not have, and no row is tried more
\* often than max_attempts, whatever mix of reschedules, flood waits, errors
\* and rollbacks it goes through (_can_retry, attempt_count).
AttemptBudget ==
  \A j \in Jobs : /\ job[j].attempts <= MaxAttempts
                  /\ job[j].status \in Open => job[j].attempts < MaxAttempts

\* A job and its message that the database shows as sent were taken by Telegram
\* under the random id the row records.
SentWasDelivered ==
  \A j \in Jobs :
    job[j].status = "sent" => /\ job[j].rid \in accepted[j]
                              /\ job[j].msg = "sent"

\* However often a job is retried, claimed by several workers or answered with
\* an error after Telegram took it, the candidate has at most one copy of it
\* for each batch that was rolled back, and one more: the id is drawn once and
\* kept with the row (telegram_random_id).  DeliveryContract says the same of copies.
CopiesBoundedByRollbacks ==
  \A j \in Jobs : Cardinality(accepted[j]) <= 1 + rollbacks

\* A job the database shows as finished is finished: no worker sends it any
\* more and its status changes at most once again, to cancelled, by a
\* cancellation that was decided before it finished.
FinalIsFinal ==
  [][\A j \in Jobs :
       job[j].status \in Final =>
         /\ accepted'[j] = accepted[j]
         /\ \/ job'[j].status = job[j].status
            \/ cancelReq[j] /\ job'[j].status = "cancelled"]_vars

\* With cancel-on-inbound, no message goes to Telegram when the database showed
\* newer candidate activity before the worker's last look, however long the
\* typing delay was (_has_newer_candidate_activity, both calls).
NoStaleSend ==
  [][\A j \in Jobs : accepted'[j] # accepted[j] => activity[j] # "newer"]_vars

\* No batch sends from an account that it has sent from or that has flooded it
\* before.  Where there is one worker, and until a batch is lost, no message at all
\* leaves an account while its send interval or a flood wait runs.  (With several
\* that does not hold: marks are uncommitted until the end of the batch.)
OneWorker == \A v, w \in Workers : v = w

PacingRespected ==
  [][\A j \in Jobs : accepted'[j] # accepted[j] =>
       LET marks == paced[AccountOf[j]] \cup flooded[AccountOf[j]]
       IN /\ lock[j] \notin marks
          /\ OneWorker /\ rollbacks = 0 => marks = {}]_vars

\* The candidate never has a message twice: what the random id of
\* messages.sendMessage is documented to be for.
NoDuplicateCopy == \A j \in Jobs : Cardinality(accepted[j]) <= 1

\* Every job that was created ends: retries, reschedules and cancellations do
\* not keep a row open for ever while the workers run and time passes.
EverySettles ==
  \A j \in Jobs : job[j].status # "absent" ~> job[j].status \in Final

-----------------------------------------------------------------------------
(***************************************************************************)
(* The inductive invariant behind the properties, job by job.               *)
(***************************************************************************)

\* What holds of a row, committed or not, whenever no attempt is under way.
RowOK(j, row) ==
  /\ row.attempts <= MaxAttempts
  /\ row.status \in Open => row.attempts < MaxAttempts
  /\ row.status = "absent" => row.attempts = 0
  /\ row.status = "sent" => row.rid \in accepted[j] /\ row.msg = "sent"
  /\ row.rid <= drawn[j]

\* Only a locked row has work in progress, only an open row is locked, and the
\* work is as far as the row says.
Progress(j) ==
  /\ lock[j] = None => step[j] = "free" /\ draft[j] = job[j]
  /\ lock[j] # None => step[j] # "free" /\ job[j].status \in Open
  /\ job[j].status # "processing"
  /\ cancelReq[j] => job[j].status # "absent"
  /\ step[j] = "claimed" => draft[j] = job[j]
  /\ step[j] \in {"typing", "sending"} =>
       draft[j].status = "processing" /\ draft[j].rid # NoRid
  /\ step[j] = "done" => draft[j].status \in Open \cup Final

\* Random ids are numbered as they are drawn; an id that no row records any
\* more was lost in a rollback.
Ids(j) ==
  /\ accepted[j] \subseteq 1..drawn[j]
  /\ job[j].rid # NoRid => draft[j].rid = job[j].rid
  /\ drawn[j] <= rollbacks + (IF draft[j].rid = NoRid THEN 0 ELSE 1)

\* A send under way was not stale when the worker last looked.
FreshSend(j) ==
  step[j] = "sending" /\ CancelOnInbound => activity[j] # "newer"

JobInv(j) ==
  /\ RowOK(j, job[j])
  /\ RowOK(j, draft[j])
  /\ Progress(j)
  /\ Ids(j)
  /\ FreshSend(j)

\* The parts together imply every safety property of this module and are
\* preserved by every step of every worker and every other writer.
IInv == TypeOK /\ \A j \in Jobs : JobInv(j)

-----------------------------------------------------------------------------
(***************************************************************************)
(* The queue implements DeliveryContract: what the committed rows say is    *)
(* the fate of a job, and the random ids Telegram took are its copies.      *)
(***************************************************************************)

FateOf(row) ==
  CASE row.status = "absent" -> "absent"
    [] row.status \in Open \cup {"processing"} -> "open"
    [] row.status = "sent" -> "delivered"
    [] row.status \in Final \ {"sent"} -> "dropped"

Delivery == INSTANCE DeliveryContract WITH
  MaxLost <- MaxRollbacks,
  fate    <- [j \in Jobs |-> FateOf(job[j])],
  copies  <- [j \in Jobs |-> Cardinality(accepted[j])],
  lost    <- rollbacks

\* The queue keeps the delivery contract.
KeepsDeliveryContract == Delivery!ContractSpec

=============================================================================
