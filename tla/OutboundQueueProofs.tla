------------------------- MODULE OutboundQueueProofs -------------------------
(***************************************************************************)
(* Proofs about OutboundQueue for every set of jobs, workers, accounts and  *)
(* dialogs and every bound.                                                 *)
(***************************************************************************)
EXTENDS OutboundQueue, FiniteSetTheorems, TLAPS

-----------------------------------------------------------------------------
(* Lemmas about the operators the actions are built from.                  *)

\* Finish moves one job to "done" and keeps the types.
LEMMA FinishTypes ==
  ASSUME TypeOK, NEW j \in Jobs, NEW r \in Row, Finish(j, r)
  PROVE  /\ draft' \in [Jobs -> Row]
         /\ step' \in [Jobs -> Steps]
         /\ activity' \in [Jobs -> {"quiet", "newer", "window"}]
  BY DEF TypeOK, Finish, Steps

\* What the row operators of the worker return.
LEMMA TerminalRow ==
  ASSUME NEW r \in Row, NEW s \in Final
  PROVE  /\ MarkTerminal(r, s) \in Row
         /\ MarkTerminal(r, s).status = s
         /\ MarkTerminal(r, s).rid = r.rid
         /\ MarkTerminal(r, s).attempts = r.attempts
  BY DEF Row, MarkTerminal, Statuses

LEMMA RetryRow ==
  ASSUME NEW r \in Row
  PROVE  /\ RetryOrDeadLetter(r) \in Row
         /\ RetryOrDeadLetter(r).status \in {"retry", "dead_letter"}
         /\ RetryOrDeadLetter(r).status = "retry" => r.attempts < MaxAttempts
         /\ RetryOrDeadLetter(r).rid = r.rid
         /\ RetryOrDeadLetter(r).attempts = r.attempts
  BY DEF Row, RetryOrDeadLetter, Statuses, Open, Final, CanRetry

LEMMA SentRow ==
  ASSUME NEW r \in Row
  PROVE  /\ MarkSent(r) \in Row
         /\ MarkSent(r).status = "sent" /\ MarkSent(r).msg = "sent"
         /\ MarkSent(r).rid = r.rid
         /\ MarkSent(r).attempts = r.attempts
  BY DEF Row, MarkSent, Statuses, Final

LEMMA UpdatedRow ==
  ASSUME NEW r \in Row
  PROVE  /\ [r EXCEPT !.status = "cancelled", !.msg = "cancelled"] \in Row
         /\ \A n \in Nat :
              [r EXCEPT !.status = "processing", !.attempts = n] \in Row
  BY DEF Row, Statuses, Final

\* Starting an attempt returns a row with one attempt more.
LEMMA StartedType ==
  ASSUME TypeOK, NEW j \in Jobs
  PROVE  Started(j) \in Row
<1>1. draft[j] \in Row /\ draft[j].attempts + 1 \in Nat
  BY DEF TypeOK, Row
<1> QED BY <1>1, UpdatedRow DEF Started

\* Marks stay sets of knowers.
LEMMA MarkTypes ==
  ASSUME TypeOK, NEW w \in Workers
  PROVE  /\ \A a \in Accounts : MarkFlooded(w, a) =>
               flooded' \in [Accounts -> SUBSET Knowers]
         /\ \A a \in Accounts : MarkPaced(w, a) =>
               paced' \in [Accounts -> SUBSET Knowers]
         /\ \A k \in {InDB, Lost} : MarksBecome(w, k) =>
               /\ paced' \in [Accounts -> SUBSET Knowers]
               /\ flooded' \in [Accounts -> SUBSET Knowers]
  BY DEF TypeOK, MarkFlooded, MarkPaced, MarksBecome, Knowers

LEMMA ReleaseTypes ==
  ASSUME TypeOK, NEW w \in Workers, Release(w)
  PROVE  /\ lock' \in [Jobs -> Workers \cup {None}]
         /\ step' \in [Jobs -> Steps]
  BY DEF TypeOK, Release, Steps

-----------------------------------------------------------------------------
(* Type correctness.                                                       *)

LEMMA InitTypes == Init => TypeOK
  BY ConstantsOK DEF Init, TypeOK, Row, Statuses, Open, Final, Steps, NoRid

\* The invariant is needed for one thing: the id of a send under way was drawn.
LEMMA NextTypes == IInv /\ [Next]_vars => TypeOK'
<1> SUFFICES ASSUME IInv, [Next]_vars PROVE TypeOK'
  OBVIOUS
<1>0. TypeOK
  BY DEF IInv
<1> USE <1>0
<1> USE ConstantsOK
<1>1. ASSUME NEW j \in Jobs, Enqueue(j) PROVE TypeOK'
  <2>1. [job[j] EXCEPT !.status = "queued"] \in Row
    BY DEF TypeOK, Row, Statuses, Open
  <2>2. job' = [job EXCEPT ![j] = [job[j] EXCEPT !.status = "queued"]]
    BY <1>1 DEF Enqueue, TypeOK
  <2> QED BY <1>1, <2>1, <2>2
         DEF Enqueue, TypeOK, chatVars, acctVars
<1>2. ASSUME NEW j \in Jobs, CancelApply(j) PROVE TypeOK'
  <2>1. [job[j] EXCEPT !.status = "cancelled", !.msg = "cancelled"] \in Row
    BY UpdatedRow DEF TypeOK
  <2>2. job' = [job EXCEPT ![j] = [job[j] EXCEPT !.status = "cancelled",
                                                 !.msg = "cancelled"]]
    BY <1>2 DEF CancelApply, TypeOK
  <2> QED BY <1>2, <2>1, <2>2
         DEF CancelApply, TypeOK, chatVars, acctVars
<1>3. ASSUME NEW j \in Jobs, BecomeDue(j) PROVE TypeOK'
  BY <1>3 DEF BecomeDue, TypeOK, rowVars, chatVars, acctVars
<1>4. ASSUME NEW d \in Dialogs, InboundNewer(d) PROVE TypeOK'
  BY <1>4 DEF InboundNewer, TypeOK, rowVars, chatVars, acctVars
<1>5. ASSUME NEW d \in Dialogs, CancelSelect(d) PROVE TypeOK'
  BY <1>5 DEF CancelSelect, TypeOK, rowVars, chatVars, acctVars
<1>6. ASSUME NEW a \in Accounts, NEW k \in Knowers, Cool(a, k) PROVE TypeOK'
  BY <1>6 DEF Cool, TypeOK, rowVars, chatVars
<1>7. ASSUME NEW w \in Workers, Claim(w) PROVE TypeOK'
  BY <1>7 DEF Claim, TypeOK, Steps, chatVars, acctVars
<1>8. ASSUME NEW w \in Workers, EmptyBatch(w) PROVE TypeOK'
  BY <1>8 DEF EmptyBatch, TypeOK, vars, rowVars, chatVars, acctVars
<1>9. ASSUME NEW w \in Workers, Commit(w) PROVE TypeOK'
  BY <1>9, MarkTypes, ReleaseTypes DEF Commit, TypeOK, chatVars
<1>10. ASSUME NEW w \in Workers, Rollback(w) PROVE TypeOK'
  <2>1. rollbacks' \in 0..MaxRollbacks
    BY <1>10 DEF Rollback, TypeOK
  <2> QED BY <1>10, <2>1, MarkTypes, ReleaseTypes
         DEF Rollback, TypeOK, chatVars
<1>11. ASSUME NEW w \in Workers, NEW j \in Jobs, WorkerStep(w, j)
       PROVE  TypeOK'
  <2>0. AccountOf[j] \in Accounts /\ draft[j] \in Row
    BY DEF TypeOK
  <2>1. CASE Reschedule(w, j)
    <3>1. [draft[j] EXCEPT !.status = "retry"] \in Row
      BY <2>0 DEF Row, Statuses, Open
    <3> QED BY <2>1, <3>1, FinishTypes
           DEF Reschedule, TypeOK, chatVars, acctVars
  <2>2. CASE Block(w, j)
    <3>1. MarkTerminal(draft[j], "blocked") \in Row
      BY <2>0, TerminalRow DEF Final
    <3> QED BY <2>2, <3>1, FinishTypes DEF Block, TypeOK, chatVars, acctVars
  <2>3. CASE StartTyping(w, j)
    <3> DEFINE rid == IF draft[j].rid = NoRid THEN drawn[j] + 1
                                              ELSE draft[j].rid
    <3>1. rid \in Nat
      BY <2>0 DEF TypeOK, Row
    <3>2. [Started(j) EXCEPT !.rid = rid] \in Row
      BY <3>1, StartedType DEF Row
    <3>3. drawn' \in [Jobs -> Nat]
      BY <2>3, <3>1 DEF StartTyping, TypeOK
    <3>4. draft' = [draft EXCEPT ![j] = [Started(j) EXCEPT !.rid = rid]]
      BY <2>3 DEF StartTyping
    <3> HIDE DEF rid
    <3> QED BY <2>3, <3>2, <3>3, <3>4
           DEF StartTyping, TypeOK, Steps, acctVars
  <2>4. CASE PrepareFails(w, j)
    <3>1. /\ MarkTerminal(Started(j), "cancelled") \in Row
          /\ MarkTerminal(Started(j), "failed") \in Row
          /\ RetryOrDeadLetter(Started(j)) \in Row
      BY StartedType, TerminalRow, RetryRow DEF Final
    <3>2. flooded' \in [Accounts -> SUBSET Knowers]
      BY <2>0, <2>4, MarkTypes DEF PrepareFails, TypeOK
    <3>3. /\ draft' \in [Jobs -> Row]
          /\ step' \in [Jobs -> Steps]
          /\ activity' \in [Jobs -> {"quiet", "newer", "window"}]
      BY <2>4, <3>1, FinishTypes DEF PrepareFails
    <3> QED BY <2>4, <3>2, <3>3 DEF PrepareFails, TypeOK, chatVars
  <2>5. CASE EndTyping(w, j)
    BY <2>5 DEF EndTyping, TypeOK, Steps, chatVars, acctVars
  <2>6. CASE StaleAfterTyping(w, j)
    <3>1. MarkTerminal(draft[j], "cancelled") \in Row
      BY <2>0, TerminalRow DEF Final
    <3> QED BY <2>6, <3>1, FinishTypes
           DEF StaleAfterTyping, TypeOK, chatVars, acctVars
  <2>7. CASE SendSucceeds(w, j) \/ SendFails(w, j)
    <3>1. step[j] = "sending"
      BY <2>7 DEF SendSucceeds, SendFails
    <3>2. draft[j].rid \in Nat \ {NoRid}
      BY <2>0, <3>1 DEF IInv, JobInv, Progress, Row
    <3>3. accepted' \in [Jobs -> SUBSET (Nat \ {NoRid})]
      BY <2>7, <3>2 DEF SendSucceeds, SendFails, Accept, TypeOK
    <3>4. /\ MarkSent(draft[j]) \in Row
          /\ MarkTerminal(draft[j], "failed") \in Row
          /\ RetryOrDeadLetter(draft[j]) \in Row
      BY <2>0, TerminalRow, RetryRow, SentRow DEF Final
    <3>5. /\ draft' \in [Jobs -> Row]
          /\ step' \in [Jobs -> Steps]
          /\ activity' \in [Jobs -> {"quiet", "newer", "window"}]
      BY <2>7, <3>4, FinishTypes DEF SendSucceeds, SendFails
    <3>6. /\ paced' \in [Accounts -> SUBSET Knowers]
          /\ flooded' \in [Accounts -> SUBSET Knowers]
      BY <2>0, <2>7, MarkTypes DEF SendSucceeds, SendFails, TypeOK
    <3> QED BY <2>7, <3>3, <3>5, <3>6 DEF SendSucceeds, SendFails, TypeOK
  <2> QED BY <1>11, <2>1, <2>2, <2>3, <2>4, <2>5, <2>6, <2>7 DEF WorkerStep
<1>12. CASE UNCHANGED vars
  BY <1>12 DEF TypeOK, vars, rowVars, chatVars, acctVars
<1> QED
  BY <1>1, <1>2, <1>3, <1>4, <1>5, <1>6, <1>7, <1>8, <1>9, <1>10, <1>11,
     <1>12 DEF Next

-----------------------------------------------------------------------------
(* The inductive invariant.                                                *)

\* A job whose rows, lock and ids a step leaves alone keeps its invariant;
\* activity may become newer as long as no send is under way.
LEMMA JobFrame ==
  ASSUME NEW k \in Jobs, TypeOK, TypeOK', JobInv(k),
         job'[k] = job[k], draft'[k] = draft[k], lock'[k] = lock[k],
         step'[k] = step[k], drawn'[k] = drawn[k], accepted'[k] = accepted[k],
         rollbacks' >= rollbacks,
         activity'[k] = activity[k] \/ step[k] # "sending",
         cancelReq'[k] => cancelReq[k] \/ job[k].status # "absent"
  PROVE  JobInv(k)'
<1>1. RowOK(k, job[k])' /\ RowOK(k, draft[k])'
  BY DEF JobInv, RowOK
<1>2. Progress(k)' /\ FreshSend(k)'
  BY DEF JobInv, Progress, FreshSend
<1>3. Ids(k)'
  BY DEF JobInv, Ids, TypeOK, Row
<1> QED BY <1>1, <1>2, <1>3 DEF JobInv

\* A worker that finishes job j with a sound row keeps the invariant.
LEMMA FinishInv ==
  ASSUME IInv, TypeOK', NEW w \in Workers, NEW j \in Jobs, NEW r \in Row,
         lock[j] = w, Finish(j, r),
         UNCHANGED <<job, lock, drawn, cancelReq, rollbacks>>,
         \A k \in Jobs \ {j} : accepted'[k] = accepted[k],
         accepted[j] \subseteq accepted'[j], accepted'[j] \subseteq 1..drawn[j],
         r.status \in Open \cup Final, r.rid = draft[j].rid,
         r.attempts <= MaxAttempts,
         r.status \in Open => r.attempts < MaxAttempts,
         r.status = "sent" => r.rid \in accepted'[j] /\ r.msg = "sent"
  PROVE  \A k \in Jobs : JobInv(k)'
<1>0. TypeOK /\ \A k \in Jobs : JobInv(k)
  BY DEF IInv
<1>1. draft'[j] = r /\ step'[j] = "done"
  BY <1>0 DEF Finish, TypeOK
<1>2. ASSUME NEW k \in Jobs, k # j PROVE JobInv(k)'
  <2>1. draft'[k] = draft[k] /\ step'[k] = step[k] /\ activity'[k] = activity[k]
    BY <1>0, <1>2 DEF Finish, TypeOK
  <2>2. rollbacks' >= rollbacks
    BY <1>0 DEF TypeOK
  <2> QED BY <1>0, <1>2, <2>1, <2>2, JobFrame
<1>3. RowOK(j, draft[j])'
  BY <1>0, <1>1 DEF RowOK, JobInv, Open, Final
<1>4. RowOK(j, job[j])'
  BY <1>0 DEF RowOK, JobInv
<1>5. Progress(j)' /\ FreshSend(j)'
  <2>1. lock[j] # None
    BY ConstantsOK
  <2> QED BY <1>0, <1>1, <2>1 DEF Progress, FreshSend, JobInv
<1>6. Ids(j)'
  BY <1>0, <1>1 DEF Ids, JobInv
<1> QED BY <1>2, <1>3, <1>4, <1>5, <1>6 DEF JobInv

\* An attempt starts from a row that has one left.
LEMMA StartedFacts ==
  ASSUME IInv, NEW w \in Workers, NEW j \in Jobs, Ready(w, j)
  PROVE  /\ lock[j] = w /\ step[j] = "claimed" /\ draft[j] = job[j]
         /\ draft[j].status \in Open
         /\ Started(j) \in Row
         /\ Started(j).attempts <= MaxAttempts
         /\ Started(j).status = "processing"
         /\ Started(j).rid = draft[j].rid
<1>0. TypeOK /\ JobInv(j) /\ draft[j] \in Row
  BY DEF IInv, TypeOK
<1>1. lock[j] = w /\ step[j] = "claimed"
  BY DEF Ready, Handling
<1>2. draft[j] = job[j] /\ draft[j].status \in Open
  BY <1>0, <1>1, ConstantsOK DEF JobInv, Progress
<1>3. draft[j].attempts < MaxAttempts
  BY <1>0, <1>2 DEF JobInv, RowOK
<1>4. /\ Started(j).attempts = draft[j].attempts + 1
      /\ Started(j).status = "processing"
      /\ Started(j).rid = draft[j].rid
  BY <1>0 DEF Started, Row
<1>5. draft[j].attempts + 1 <= MaxAttempts
  BY <1>0, <1>3, ConstantsOK DEF Row
<1> QED BY <1>0, <1>1, <1>2, <1>4, <1>5, StartedType

LEMMA InitInv == Init => IInv
<1> SUFFICES ASSUME Init PROVE IInv
  OBVIOUS
<1>1. ASSUME NEW j \in Jobs PROVE JobInv(j)
  BY ConstantsOK DEF Init, JobInv, RowOK, Progress, Ids, FreshSend, NoRid,
                     Open, Final
<1> QED BY <1>1, InitTypes DEF IInv

LEMMA NextInv == IInv /\ [Next]_vars => IInv'
<1> SUFFICES ASSUME IInv, [Next]_vars PROVE \A k \in Jobs : JobInv(k)'
  BY NextTypes DEF IInv
<1>0. TypeOK /\ TypeOK' /\ \A k \in Jobs : JobInv(k)
  BY NextTypes DEF IInv
<1>r. rollbacks \in Int /\ rollbacks >= rollbacks
  BY <1>0 DEF TypeOK
<1> USE ConstantsOK
<1>1. ASSUME NEW j \in Jobs, Enqueue(j) PROVE \A k \in Jobs : JobInv(k)'
  <2>1. ASSUME NEW k \in Jobs, k # j PROVE JobInv(k)'
    BY <1>0, <1>1, <1>r, <2>1, JobFrame DEF Enqueue, TypeOK, chatVars
  <2>2. /\ job'[j] = [job[j] EXCEPT !.status = "queued"]
        /\ draft'[j] = job'[j]
        /\ job'[j].status = "queued" /\ job'[j].rid = job[j].rid
        /\ job'[j].attempts = job[j].attempts
    BY <1>0, <1>1 DEF Enqueue, TypeOK, Row
  <2>3. job[j].attempts = 0 /\ lock[j] = None
    BY <1>0, <1>1 DEF JobInv, RowOK, Progress, Enqueue, Open
  <2>4. RowOK(j, job[j])' /\ RowOK(j, draft[j])'
    BY <1>0, <1>1, <2>2, <2>3 DEF RowOK, JobInv, Enqueue, chatVars
  <2>5. Progress(j)' /\ Ids(j)' /\ FreshSend(j)'
    BY <1>0, <1>1, <2>2, <2>3
       DEF Progress, Ids, FreshSend, JobInv, Enqueue, chatVars
  <2> QED BY <2>1, <2>4, <2>5 DEF JobInv
<1>2. ASSUME NEW j \in Jobs, CancelApply(j) PROVE \A k \in Jobs : JobInv(k)'
  <2>1. ASSUME NEW k \in Jobs, k # j PROVE JobInv(k)'
    BY <1>0, <1>2, <1>r, <2>1, JobFrame DEF CancelApply, TypeOK, chatVars
  <2>2. /\ draft'[j] = job'[j]
        /\ job'[j].status = "cancelled" /\ job'[j].rid = job[j].rid
        /\ job'[j].attempts = job[j].attempts
    BY <1>0, <1>2 DEF CancelApply, TypeOK, Row
  <2>3. lock[j] = None /\ draft[j] = job[j]
    BY <1>0, <1>2 DEF JobInv, Progress, CancelApply
  <2>4. RowOK(j, job[j])' /\ RowOK(j, draft[j])'
    BY <1>0, <1>2, <2>2 DEF RowOK, JobInv, CancelApply, chatVars, Open
  <2>5. Progress(j)' /\ Ids(j)' /\ FreshSend(j)'
    BY <1>0, <1>2, <2>2, <2>3
       DEF Progress, Ids, FreshSend, JobInv, CancelApply, chatVars
  <2> QED BY <2>1, <2>4, <2>5 DEF JobInv
<1>3. ASSUME NEW j \in Jobs, BecomeDue(j) PROVE \A k \in Jobs : JobInv(k)'
  BY <1>0, <1>3, <1>r, JobFrame DEF BecomeDue, rowVars, chatVars
<1>4. ASSUME NEW d \in Dialogs, InboundNewer(d)
      PROVE  \A k \in Jobs : JobInv(k)'
  <2> SUFFICES ASSUME NEW k \in Jobs PROVE JobInv(k)'
    OBVIOUS
  <2>1. CASE step[k] # "sending"
    BY <1>0, <1>4, <1>r, <2>1, JobFrame DEF InboundNewer, rowVars, chatVars
  <2>2. CASE step[k] = "sending"
    <3>1. activity'[k] \in {activity[k], "window"}
      BY <1>0, <1>4, <2>2 DEF InboundNewer, TypeOK
    <3>2. FreshSend(k)'
      BY <1>0, <1>4, <2>2, <3>1 DEF FreshSend, JobInv, InboundNewer, rowVars
    <3>3. RowOK(k, job[k])' /\ RowOK(k, draft[k])' /\ Progress(k)' /\ Ids(k)'
      BY <1>0, <1>4
         DEF InboundNewer, rowVars, chatVars, JobInv, RowOK, Progress, Ids
    <3> QED BY <3>2, <3>3 DEF JobInv
  <2> QED BY <2>1, <2>2
<1>5. ASSUME NEW d \in Dialogs, CancelSelect(d)
      PROVE  \A k \in Jobs : JobInv(k)'
  BY <1>0, <1>5, <1>r, JobFrame DEF CancelSelect, rowVars, chatVars, Open
<1>6. ASSUME NEW a \in Accounts, NEW m \in Knowers, Cool(a, m)
      PROVE  \A k \in Jobs : JobInv(k)'
  BY <1>0, <1>6, <1>r, JobFrame DEF Cool, rowVars, chatVars
<1>7. ASSUME NEW w \in Workers, Claim(w) PROVE \A k \in Jobs : JobInv(k)'
  <2> SUFFICES ASSUME NEW k \in Jobs PROVE JobInv(k)'
    OBVIOUS
  <2>1. PICK batch \in SUBSET Claimable :
          /\ lock' = [j \in Jobs |-> IF j \in batch THEN w ELSE lock[j]]
          /\ draft' = [j \in Jobs |-> IF j \in batch THEN job[j] ELSE draft[j]]
          /\ step' = [j \in Jobs |-> IF j \in batch THEN "claimed" ELSE step[j]]
    BY <1>7 DEF Claim
  <2>2. UNCHANGED <<job, drawn, accepted, activity, cancelReq, rollbacks>>
    BY <1>7 DEF Claim, chatVars
  <2>3. CASE k \notin batch
    BY <1>0, <1>r, <2>1, <2>2, <2>3, JobFrame
  <2>4. CASE k \in batch
    <3>1. lock[k] = None /\ job[k].status \in Open /\ draft[k] = job[k]
      BY <1>0, <2>4 DEF Claimable, JobInv, Progress
    <3>2. lock'[k] = w /\ draft'[k] = job[k] /\ step'[k] = "claimed" /\ w # None
      BY <2>1, <2>4
    <3> QED BY <1>0, <2>2, <3>1, <3>2
           DEF JobInv, RowOK, Progress, Ids, FreshSend
  <2> QED BY <2>3, <2>4
<1>8. ASSUME NEW w \in Workers, EmptyBatch(w)
      PROVE  \A k \in Jobs : JobInv(k)'
  BY <1>0, <1>8, <1>r, JobFrame DEF EmptyBatch, vars, rowVars, chatVars
<1>9. ASSUME NEW w \in Workers, Commit(w) PROVE \A k \in Jobs : JobInv(k)'
  <2> SUFFICES ASSUME NEW k \in Jobs PROVE JobInv(k)'
    OBVIOUS
  <2>1. UNCHANGED <<draft, drawn, accepted, activity, cancelReq, rollbacks>>
    BY <1>9 DEF Commit, chatVars
  <2>2. CASE lock[k] # w
    <3>1. job'[k] = job[k] /\ lock'[k] = lock[k] /\ step'[k] = step[k]
      BY <1>9, <2>2 DEF Commit, Release
    <3> QED BY <1>0, <1>r, <2>1, <3>1, JobFrame
  <2>3. CASE lock[k] = w
    <3>1. job'[k] = draft[k] /\ lock'[k] = None /\ step'[k] = "free"
      BY <1>9, <2>3 DEF Commit, Release
    <3>2. draft[k].status \in Open \cup Final
      BY <1>0, <1>9, <2>3 DEF Commit, InBatch, JobInv, Progress
    <3> QED BY <1>0, <2>1, <3>1, <3>2
           DEF JobInv, RowOK, Progress, Ids, FreshSend, Open, Final
  <2> QED BY <2>2, <2>3
<1>10. ASSUME NEW w \in Workers, Rollback(w) PROVE \A k \in Jobs : JobInv(k)'
  <2> SUFFICES ASSUME NEW k \in Jobs PROVE JobInv(k)'
    OBVIOUS
  <2>1. UNCHANGED <<job, drawn, accepted, cancelReq>> /\ rollbacks' = rollbacks + 1
    BY <1>10 DEF Rollback, chatVars
  <2>2. CASE lock[k] # w
    <3>1. /\ draft'[k] = draft[k] /\ lock'[k] = lock[k] /\ step'[k] = step[k]
          /\ activity'[k] = activity[k]
      BY <1>0, <1>10, <2>2 DEF Rollback, Release, TypeOK
    <3>2. rollbacks' >= rollbacks
      BY <1>r, <2>1
    <3> QED BY <1>0, <2>1, <3>1, <3>2, JobFrame
  <2>3. CASE lock[k] = w
    <3>1. draft'[k] = job[k] /\ lock'[k] = None /\ step'[k] = "free"
      BY <1>10, <2>3 DEF Rollback, Release
    <3>2. RowOK(k, job[k])' /\ RowOK(k, draft[k])'
      BY <1>0, <2>1, <3>1 DEF JobInv, RowOK
    <3>3. Progress(k)' /\ FreshSend(k)'
      BY <1>0, <2>1, <3>1 DEF JobInv, Progress, FreshSend
    <3>4. drawn[k] <= rollbacks + 1
      BY <1>0 DEF JobInv, Ids, TypeOK
    <3>5. job[k].rid # NoRid => drawn[k] <= rollbacks' + 1
      BY <1>0, <1>r, <2>1, <3>4 DEF TypeOK
    <3>6. Ids(k)'
      BY <1>0, <1>r, <2>1, <3>1, <3>4, <3>5 DEF JobInv, Ids, TypeOK
    <3> QED BY <3>2, <3>3, <3>6 DEF JobInv
  <2> QED BY <2>2, <2>3
<1>11. ASSUME NEW w \in Workers, NEW j \in Jobs, WorkerStep(w, j)
       PROVE  \A k \in Jobs : JobInv(k)'
  <2>0. draft[j] \in Row /\ accepted[j] \subseteq 1..drawn[j]
    BY <1>0 DEF TypeOK, JobInv, Ids
  <2>1. CASE Reschedule(w, j)
    <3> DEFINE r == [draft[j] EXCEPT !.status = "retry"]
    <3>1. lock[j] = w /\ step[j] = "claimed" /\ Finish(j, r)
      BY <2>1 DEF Reschedule, Handling
    <3>2. draft[j].status \in Open /\ draft[j].attempts < MaxAttempts
      BY <1>0, <3>1 DEF JobInv, Progress, RowOK
    <3>3. /\ r \in Row /\ r.status = "retry" /\ r.rid = draft[j].rid
          /\ r.attempts = draft[j].attempts /\ r.attempts <= MaxAttempts
      BY <1>0, <2>0, <3>2 DEF Row, Statuses, Open, JobInv, RowOK
    <3>4. UNCHANGED <<job, lock, drawn, accepted, cancelReq, rollbacks>>
      BY <2>1 DEF Reschedule, chatVars
    <3> HIDE DEF r
    <3> QED BY <2>0, <3>1, <3>2, <3>3, <3>4, <1>0, FinishInv DEF Open
  <2>2. CASE Block(w, j)
    <3> DEFINE r == MarkTerminal(draft[j], "blocked")
    <3>1. lock[j] = w /\ Finish(j, r)
      BY <2>2 DEF Block, Ready, Handling
    <3>2. /\ r \in Row /\ r.status = "blocked" /\ r.rid = draft[j].rid
          /\ r.attempts = draft[j].attempts /\ r.attempts <= MaxAttempts
      <4>1. draft[j].attempts <= MaxAttempts
        BY <1>0 DEF JobInv, RowOK
      <4> QED BY <2>0, <4>1, TerminalRow DEF Final
    <3>3. UNCHANGED <<job, lock, drawn, accepted, cancelReq, rollbacks>>
      BY <2>2 DEF Block, chatVars
    <3> HIDE DEF r
    <3> QED BY <2>0, <3>1, <3>2, <3>3, <1>0, FinishInv DEF Open, Final
  <2>3. CASE StartTyping(w, j)
    <3> DEFINE fresh == draft[j].rid = NoRid
               rid == IF fresh THEN drawn[j] + 1 ELSE draft[j].rid
               r == [Started(j) EXCEPT !.rid = rid]
    <3>0. Ready(w, j)
      BY <2>3 DEF StartTyping
    <3>1. /\ drawn' = [drawn EXCEPT ![j] = IF fresh THEN rid ELSE @]
          /\ draft' = [draft EXCEPT ![j] = r]
          /\ step' = [step EXCEPT ![j] = "typing"]
          /\ UNCHANGED <<job, lock, accepted, activity, cancelReq, rollbacks>>
      BY <2>3 DEF StartTyping
    <3>2. ASSUME NEW k \in Jobs, k # j PROVE JobInv(k)'
      BY <1>0, <1>r, <3>1, <3>2, JobFrame DEF TypeOK
    <3>3. rid \in Nat \ {NoRid}
      BY <1>0, <2>0 DEF TypeOK, Row, NoRid
    <3>4. /\ draft'[j] = r /\ step'[j] = "typing"
          /\ drawn'[j] = IF fresh THEN rid ELSE drawn[j]
      BY <1>0, <3>1 DEF TypeOK
    <3>5. /\ r.rid = rid /\ r.status = "processing"
          /\ r.attempts <= MaxAttempts
      BY <3>0, <3>3, StartedFacts DEF Row
    <3>6. rid <= drawn'[j] /\ drawn[j] <= drawn'[j]
      BY <1>0, <2>0, <3>4 DEF JobInv, RowOK, TypeOK, Row
    <3>7. lock[j] = w /\ step[j] = "claimed" /\ job[j].status \in Open
      BY <3>0, StartedFacts
    <3>8. draft[j] = job[j]
      BY <3>0, StartedFacts
    <3> HIDE DEF r, rid
    <3>9. RowOK(j, draft[j])'
      BY <3>4, <3>5, <3>6 DEF RowOK, Open
    <3>10. RowOK(j, job[j])'
      <4>1. job[j].rid \in Int /\ drawn[j] \in Int /\ drawn'[j] \in Int
        BY <1>0 DEF TypeOK, Row
      <4> QED BY <1>0, <3>1, <3>6, <4>1 DEF RowOK, JobInv
    <3>11. Progress(j)' /\ FreshSend(j)'
      BY <1>0, <3>1, <3>3, <3>4, <3>5, <3>7
         DEF Progress, FreshSend, JobInv, Open
    <3>12. Ids(j)'
      <4>1. accepted'[j] \subseteq 1..drawn'[j]
        BY <1>0, <2>0, <3>1, <3>6 DEF TypeOK
      <4>2. job'[j].rid # NoRid => draft'[j].rid = job'[j].rid
        BY <3>1, <3>4, <3>5, <3>8 DEF rid
      <4>3. drawn'[j] <= rollbacks + 1
        BY <1>0, <3>4 DEF JobInv, Ids, TypeOK, rid
      <4>4. draft'[j].rid # NoRid
        BY <3>3, <3>4, <3>5
      <4> QED BY <3>1, <4>1, <4>2, <4>3, <4>4 DEF Ids
    <3> QED BY <3>2, <3>9, <3>10, <3>11, <3>12 DEF JobInv
  <2>4. CASE PrepareFails(w, j)
    <3>0. Ready(w, j)
      BY <2>4 DEF PrepareFails
    <3>1. PICK r \in {MarkTerminal(Started(j), "cancelled"),
                      MarkTerminal(Started(j), "failed"),
                      RetryOrDeadLetter(Started(j))} : Finish(j, r)
      BY <2>4 DEF PrepareFails
    <3>2. /\ r \in Row /\ r.rid = draft[j].rid /\ r.attempts <= MaxAttempts
          /\ r.status \in {"cancelled", "failed", "retry", "dead_letter"}
          /\ r.status = "retry" => r.attempts < MaxAttempts
      <4>1. /\ Started(j) \in Row /\ Started(j).attempts <= MaxAttempts
            /\ Started(j).rid = draft[j].rid
        BY <3>0, StartedFacts
      <4>2. CASE r = RetryOrDeadLetter(Started(j))
        BY <4>1, <4>2, RetryRow
      <4>3. CASE r = MarkTerminal(Started(j), "cancelled")
        BY <4>1, <4>3, TerminalRow DEF Final
      <4>4. CASE r = MarkTerminal(Started(j), "failed")
        BY <4>1, <4>4, TerminalRow DEF Final
      <4> QED BY <3>1, <4>2, <4>3, <4>4
    <3>3. UNCHANGED <<job, lock, drawn, accepted, cancelReq, rollbacks>>
      BY <2>4 DEF PrepareFails, chatVars
    <3>4. lock[j] = w
      BY <3>0, StartedFacts
    <3> QED BY <1>0, <2>0, <3>1, <3>2, <3>3, <3>4, FinishInv DEF Open, Final
  <2>5. CASE EndTyping(w, j)
    <3>1. /\ lock[j] = w /\ step[j] = "typing" /\ ~HasNewerActivity(j)
          /\ step' = [step EXCEPT ![j] = "sending"]
          /\ UNCHANGED <<job, draft, lock, drawn, accepted, activity,
                         cancelReq, rollbacks>>
      BY <2>5 DEF EndTyping, Handling, chatVars
    <3>2. ASSUME NEW k \in Jobs, k # j PROVE JobInv(k)'
      BY <1>0, <1>r, <3>1, <3>2, JobFrame DEF TypeOK
    <3>3. step'[j] = "sending"
      BY <1>0, <3>1 DEF TypeOK
    <3>4. JobInv(j)'
      BY <1>0, <3>1, <3>3
         DEF JobInv, RowOK, Progress, Ids, FreshSend, HasNewerActivity
    <3> QED BY <3>2, <3>4
  <2>6. CASE StaleAfterTyping(w, j)
    <3> DEFINE r == MarkTerminal(draft[j], "cancelled")
    <3>1. lock[j] = w /\ Finish(j, r)
      BY <2>6 DEF StaleAfterTyping, Handling
    <3>2. /\ r \in Row /\ r.status = "cancelled" /\ r.rid = draft[j].rid
          /\ r.attempts = draft[j].attempts /\ r.attempts <= MaxAttempts
      <4>1. draft[j].attempts <= MaxAttempts
        BY <1>0 DEF JobInv, RowOK
      <4> QED BY <2>0, <4>1, TerminalRow DEF Final
    <3>3. UNCHANGED <<job, lock, drawn, accepted, cancelReq, rollbacks>>
      BY <2>6 DEF StaleAfterTyping, chatVars
    <3> HIDE DEF r
    <3> QED BY <2>0, <3>1, <3>2, <3>3, <1>0, FinishInv DEF Open, Final
  <2>7. CASE SendSucceeds(w, j) \/ SendFails(w, j)
    <3>1. /\ lock[j] = w /\ step[j] = "sending"
          /\ UNCHANGED <<job, lock, drawn, cancelReq, rollbacks>>
      BY <2>7 DEF SendSucceeds, SendFails, Handling
    <3>2. draft[j].rid # NoRid /\ draft[j].rid <= drawn[j]
          /\ draft[j].attempts <= MaxAttempts
      BY <1>0, <3>1 DEF JobInv, Progress, RowOK
    <3>3. Accept(j) \/ accepted' = accepted
      BY <2>7 DEF SendSucceeds, SendFails
    <3>4. /\ \A k \in Jobs \ {j} : accepted'[k] = accepted[k]
          /\ accepted[j] \subseteq accepted'[j]
          /\ accepted'[j] \subseteq accepted[j] \cup {draft[j].rid}
      BY <1>0, <3>3 DEF Accept, TypeOK
    <3>5. accepted'[j] \subseteq 1..drawn[j]
      <4>1. draft[j].rid \in 1..drawn[j]
        BY <1>0, <2>0, <3>2 DEF TypeOK, Row, NoRid
      <4> QED BY <2>0, <3>4, <4>1
    <3>6. PICK r \in {MarkSent(draft[j]), MarkTerminal(draft[j], "failed"),
                      RetryOrDeadLetter(draft[j])} :
            Finish(j, r) /\ (r = MarkSent(draft[j]) => Accept(j))
      <4>1. CASE SendSucceeds(w, j)
        BY <4>1 DEF SendSucceeds
      <4>2. CASE SendFails(w, j)
        <5>1. /\ RetryOrDeadLetter(draft[j]) # MarkSent(draft[j])
              /\ MarkTerminal(draft[j], "failed") # MarkSent(draft[j])
          BY <2>0, TerminalRow, RetryRow, SentRow DEF Final
        <5> QED BY <4>2, <5>1 DEF SendFails
      <4> QED BY <2>7, <4>1, <4>2
    <3>7. /\ r \in Row /\ r.rid = draft[j].rid /\ r.attempts <= MaxAttempts
          /\ r.status \in {"sent", "failed", "retry", "dead_letter"}
          /\ r.status = "retry" => r.attempts < MaxAttempts
          /\ r.status = "sent" => r = MarkSent(draft[j]) /\ r.msg = "sent"
      <4>1. CASE r = MarkSent(draft[j])
        BY <2>0, <3>2, <4>1, SentRow
      <4>2. CASE r = MarkTerminal(draft[j], "failed")
        BY <2>0, <3>2, <4>2, TerminalRow DEF Final
      <4>3. CASE r = RetryOrDeadLetter(draft[j])
        BY <2>0, <3>2, <4>3, RetryRow
      <4> QED BY <3>6, <4>1, <4>2, <4>3
    <3>8. r.status = "sent" => r.rid \in accepted'[j]
      BY <1>0, <3>6, <3>7 DEF Accept, TypeOK
    <3> QED BY <1>0, <3>1, <3>4, <3>5, <3>6, <3>7, <3>8, FinishInv
           DEF Open, Final
  <2> QED BY <1>11, <2>1, <2>2, <2>3, <2>4, <2>5, <2>6, <2>7 DEF WorkerStep
<1>12. CASE UNCHANGED vars
  BY <1>0, <1>12, <1>r, JobFrame DEF vars, rowVars, chatVars
<1> QED
  BY <1>1, <1>2, <1>3, <1>4, <1>5, <1>6, <1>7, <1>8, <1>9, <1>10, <1>11,
     <1>12 DEF Next

-----------------------------------------------------------------------------
(* The theorems.                                                           *)

\* IInv holds in every reachable state.
THEOREM Invariance == Spec => []IInv
BY InitInv, NextInv, PTL DEF Spec

\* Every variable keeps its type: random ids Telegram took are never "no id".
THEOREM TypeCorrect == Spec => []TypeOK
<1>1. IInv => TypeOK
  BY DEF IInv
<1> QED BY <1>1, Invariance, PTL

\* A row waits for a retry only while it has an attempt left.
THEOREM BudgetKept == Spec => []AttemptBudget
<1>1. IInv => AttemptBudget
  BY DEF IInv, JobInv, RowOK, AttemptBudget
<1> QED BY <1>1, Invariance, PTL

\* What the database shows as sent was taken by Telegram.
THEOREM SentIsTrue == Spec => []SentWasDelivered
<1>1. IInv => SentWasDelivered
  BY DEF IInv, JobInv, RowOK, SentWasDelivered
<1> QED BY <1>1, Invariance, PTL

\* How many ids Telegram can have taken a job under.
LEMMA AcceptedSize ==
  ASSUME NEW n \in Nat, NEW S, S \subseteq 1..n
  PROVE  IsFiniteSet(S) /\ Cardinality(S) \in Nat /\ Cardinality(S) <= n
<1>1. IsFiniteSet(1..n) /\ Cardinality(1..n) = n
  BY FS_Interval
<1> QED BY <1>1, FS_Subset, FS_CardinalityType

\* One copy for each rolled-back batch, and one more.
THEOREM CopiesBounded == Spec => []CopiesBoundedByRollbacks
<1>1. IInv => CopiesBoundedByRollbacks
  <2> SUFFICES ASSUME IInv, NEW j \in Jobs
               PROVE  Cardinality(accepted[j]) <= 1 + rollbacks
    BY DEF CopiesBoundedByRollbacks
  <2>1. /\ accepted[j] \subseteq 1..drawn[j] /\ drawn[j] \in Nat
        /\ rollbacks \in Nat
        /\ drawn[j] <= rollbacks + (IF draft[j].rid = NoRid THEN 0 ELSE 1)
    BY ConstantsOK DEF IInv, JobInv, Ids, TypeOK
  <2>2. Cardinality(accepted[j]) \in Nat /\ Cardinality(accepted[j]) <= drawn[j]
    BY <2>1, AcceptedSize
  <2> QED BY <2>1, <2>2
<1> QED BY <1>1, Invariance, PTL

\* Only a worker that holds an open row makes Telegram take its message, while
\* it is sending.
LEMMA AcceptedOnlyBySender ==
  ASSUME IInv, [Next]_vars, NEW j \in Jobs, accepted'[j] # accepted[j]
  PROVE  /\ \E w \in Workers : SendSucceeds(w, j) \/ SendFails(w, j)
         /\ step[j] = "sending" /\ job[j].status \in Open
         /\ accepted' = [accepted EXCEPT ![j] = @ \cup {draft[j].rid}]
<1>0. TypeOK /\ JobInv(j)
  BY DEF IInv
<1>1. PICK w \in Workers, k \in Jobs : SendSucceeds(w, k) \/ SendFails(w, k)
  BY DEF Next, vars, rowVars, chatVars, acctVars, Enqueue, CancelApply,
         BecomeDue, InboundNewer, CancelSelect, Cool, Claim, EmptyBatch,
         Commit, Rollback, WorkerStep, Reschedule, Block, StartTyping,
         PrepareFails, EndTyping, StaleAfterTyping
<1>2. accepted' = [accepted EXCEPT ![k] = @ \cup {draft[k].rid}]
  BY <1>1 DEF SendSucceeds, SendFails, Accept
<1>3. k = j
  BY <1>0, <1>2 DEF TypeOK
<1>4. lock[j] = w /\ step[j] = "sending"
  BY <1>1, <1>3 DEF SendSucceeds, SendFails, Handling
<1>5. job[j].status \in Open
  BY <1>0, <1>4, ConstantsOK DEF JobInv, Progress
<1> QED BY <1>1, <1>2, <1>3, <1>4, <1>5

\* No send is begun on activity the database showed before the last look.
THEOREM FreshSends ==
  ASSUME CancelOnInbound
  PROVE  Spec => NoStaleSend
<1>1. IInv /\ [Next]_vars =>
        [\A j \in Jobs :
           accepted'[j] # accepted[j] => activity[j] # "newer"]_vars
  <2> SUFFICES ASSUME IInv, [Next]_vars,
                      NEW j \in Jobs, accepted'[j] # accepted[j]
               PROVE  activity[j] # "newer"
    OBVIOUS
  <2>1. step[j] = "sending"
    BY AcceptedOnlyBySender
  <2> QED BY <2>1 DEF IInv, JobInv, FreshSend
<1> QED BY <1>1, Invariance, PTL DEF Spec, NoStaleSend

\* A step changes the committed status of a finished job only to cancel it.
LEMMA FinalStays ==
  ASSUME IInv, [Next]_vars, NEW j \in Jobs, job[j].status \in Final
  PROVE  \/ job'[j].status = job[j].status
         \/ cancelReq[j] /\ job'[j].status = "cancelled"
<1>0. TypeOK /\ JobInv(j) /\ job[j] \in Row
  BY DEF IInv, TypeOK
<1> USE DEF vars, rowVars, chatVars, acctVars
<1>1. ASSUME NEW k \in Jobs, Enqueue(k)
      PROVE  job'[j].status = job[j].status
  <2>1. k # j
    BY <1>1 DEF Enqueue, Final
  <2> QED BY <1>0, <1>1, <2>1 DEF Enqueue, TypeOK
<1>2. ASSUME NEW k \in Jobs, CancelApply(k)
      PROVE  \/ job'[j].status = job[j].status
             \/ cancelReq[j] /\ job'[j].status = "cancelled"
  BY <1>0, <1>2 DEF CancelApply, TypeOK, Row
<1>3. ASSUME NEW w \in Workers, Commit(w)
      PROVE  job'[j].status = job[j].status
  <2>1. lock[j] = None
    BY <1>0 DEF JobInv, Progress, Open, Final
  <2> QED BY <1>0, <1>3, <2>1, ConstantsOK DEF Commit, TypeOK
<1>4. \/ \E k \in Jobs : Enqueue(k) \/ CancelApply(k)
      \/ \E w \in Workers : Commit(w)
      \/ job' = job
  BY DEF Next, BecomeDue, InboundNewer, CancelSelect, Cool, Claim, EmptyBatch,
         Rollback, WorkerStep, Reschedule, Block, StartTyping, PrepareFails,
         EndTyping, StaleAfterTyping, SendSucceeds, SendFails
<1> QED BY <1>1, <1>2, <1>3, <1>4

\* Finished jobs are not sent and not reopened.
THEOREM FinishedForGood == Spec => FinalIsFinal
<1>1. IInv /\ [Next]_vars =>
        [\A j \in Jobs :
           job[j].status \in Final =>
             /\ accepted'[j] = accepted[j]
             /\ \/ job'[j].status = job[j].status
                \/ cancelReq[j] /\ job'[j].status = "cancelled"]_vars
  <2> SUFFICES ASSUME IInv, [Next]_vars, NEW j \in Jobs, job[j].status \in Final
               PROVE  /\ accepted'[j] = accepted[j]
                      /\ \/ job'[j].status = job[j].status
                         \/ cancelReq[j] /\ job'[j].status = "cancelled"
    OBVIOUS
  <2>1. accepted'[j] = accepted[j]
    BY AcceptedOnlyBySender DEF Open, Final
  <2> QED BY <2>1, FinalStays
<1> QED BY <1>1, Invariance, PTL DEF Spec, FinalIsFinal

-----------------------------------------------------------------------------
(* The queue implements the delivery contract.                             *)

\* The fate a row stands for, status by status.
LEMMA FateFacts ==
  ASSUME NEW row \in Row
  PROVE  /\ row.status = "absent" => FateOf(row) = "absent"
         /\ row.status \in Open \cup {"processing"} => FateOf(row) = "open"
         /\ row.status = "sent" => FateOf(row) = "delivered"
         /\ row.status \in Final \ {"sent"} => FateOf(row) = "dropped"
         /\ FateOf(row) \in Delivery!Fates
<1>1. CASE row.status = "absent"
  BY <1>1 DEF FateOf, Open, Final, Delivery!Fates
<1>2. CASE row.status \in Open \cup {"processing"}
  BY <1>2 DEF FateOf, Open, Final, Delivery!Fates
<1>3. CASE row.status = "sent"
  BY <1>3 DEF FateOf, Open, Final, Delivery!Fates
<1>4. CASE row.status \in Final \ {"sent"}
  BY <1>4 DEF FateOf, Open, Final, Delivery!Fates
<1> QED BY <1>1, <1>2, <1>3, <1>4 DEF Row, Statuses

\* A send moves the candidate's copies by one, within what was lost, or not.
LEMMA SendIsCopy ==
  ASSUME IInv, [Next]_vars, NEW j \in Jobs, accepted'[j] # accepted[j]
  PROVE  /\ Cardinality(accepted'[j]) = Cardinality(accepted[j]) + 1
         /\ Cardinality(accepted[j]) \in Nat
         /\ Cardinality(accepted[j]) <= rollbacks
         /\ \A k \in Jobs \ {j} : accepted'[k] = accepted[k]
<1> DEFINE rid == draft[j].rid
<1>0. /\ accepted[j] \subseteq 1..drawn[j] /\ drawn[j] \in Nat
      /\ rollbacks \in Nat /\ rid \in Nat /\ rid <= drawn[j]
      /\ accepted \in [Jobs -> SUBSET (Nat \ {NoRid})]
      /\ drawn[j] <= rollbacks + (IF rid = NoRid THEN 0 ELSE 1)
  BY ConstantsOK DEF IInv, JobInv, Ids, RowOK, TypeOK, Row
<1>1. step[j] = "sending" /\ accepted' = [accepted EXCEPT ![j] = @ \cup {rid}]
  BY AcceptedOnlyBySender
<1>2. rid # NoRid
  BY <1>1 DEF IInv, JobInv, Progress
<1> HIDE DEF rid
<1>3. accepted'[j] = accepted[j] \cup {rid} /\ rid \notin accepted[j]
  BY <1>0, <1>1
<1>4. rid \in 1..drawn[j]
  BY <1>0, <1>2 DEF NoRid
<1>5. /\ IsFiniteSet(accepted[j]) /\ Cardinality(accepted[j]) \in Nat
      /\ Cardinality(accepted'[j]) = Cardinality(accepted[j]) + 1
  BY <1>0, <1>3, AcceptedSize, FS_AddElement
<1>6. Cardinality(accepted'[j]) <= drawn[j]
  BY <1>0, <1>3, <1>4, AcceptedSize
<1> QED BY <1>0, <1>1, <1>2, <1>5, <1>6

THEOREM Refinement == Spec => KeepsDeliveryContract
<1> DEFINE fate == [j \in Jobs |-> FateOf(job[j])]
           copies == [j \in Jobs |-> Cardinality(accepted[j])]
<1>1. Init => Delivery!ContractInit
  <2> SUFFICES ASSUME Init PROVE Delivery!ContractInit
    OBVIOUS
  <2>1. \A j \in Jobs : job[j].status = "absent" /\ accepted[j] = {}
    BY DEF Init
  <2>2. \A j \in Jobs : FateOf(job[j]) = "absent" /\ Cardinality(accepted[j]) = 0
    BY <2>1, InitTypes, FateFacts, FS_EmptySet DEF TypeOK
  <2> QED BY <2>2 DEF Delivery!ContractInit, Init
<1>2. IInv /\ IInv' /\ [Next]_vars =>
        [Delivery!ContractNext]_(Delivery!cvars)
  <2> SUFFICES ASSUME IInv, IInv', [Next]_vars
               PROVE  [Delivery!ContractNext]_(Delivery!cvars)
    OBVIOUS
  <2>0. /\ TypeOK /\ TypeOK'
        /\ \A j \in Jobs : /\ JobInv(j) /\ JobInv(j)'
                           /\ job[j] \in Row /\ job'[j] \in Row
    BY DEF IInv, TypeOK
  <2>1. CASE \E j \in Jobs : accepted'[j] # accepted[j]
    <3>1. PICK j \in Jobs : accepted'[j] # accepted[j]
      BY <2>1
    <3>2. job' = job /\ rollbacks' = rollbacks
      BY <3>1, AcceptedOnlyBySender DEF SendSucceeds, SendFails
    <3>3. fate[j] = "open"
      BY <2>0, <3>1, AcceptedOnlyBySender, FateFacts
    <3>4. copies' = [copies EXCEPT ![j] = @ + 1] /\ copies[j] <= rollbacks
      BY <3>1, SendIsCopy
    <3>5. Delivery!Copy(j)
      BY <3>2, <3>3, <3>4 DEF Delivery!Copy
    <3> QED BY <3>5 DEF Delivery!ContractNext
  <2>2. CASE accepted' = accepted /\ rollbacks' = rollbacks
    <3>1. copies' = copies
      BY <2>2
    <3>2. CASE job' = job
      BY <2>2, <3>1, <3>2 DEF Delivery!cvars
    <3>3. CASE \E j \in Jobs : Enqueue(j)
      <4>1. PICK j \in Jobs : Enqueue(j)
        BY <3>3
      <4>2. job[j].status = "absent" /\ job'[j].status = "queued"
            /\ \A k \in Jobs \ {j} : job'[k] = job[k]
        BY <2>0, <4>1 DEF Enqueue, TypeOK, Row
      <4>3. fate[j] = "absent" /\ fate'[j] = "open"
        BY <2>0, <4>2, FateFacts DEF Open
      <4>4. fate' = [fate EXCEPT ![j] = "open"]
        BY <4>2, <4>3
      <4>5. Delivery!Create(j)
        BY <2>2, <3>1, <4>3, <4>4 DEF Delivery!Create
      <4> QED BY <4>5 DEF Delivery!ContractNext
    <3>4. CASE \E j \in Jobs : CancelApply(j)
      <4>1. PICK j \in Jobs : CancelApply(j)
        BY <3>4
      <4>2. /\ job'[j].status = "cancelled" /\ job[j].status # "absent"
            /\ \A k \in Jobs \ {j} : job'[k] = job[k]
        BY <2>0, <4>1 DEF CancelApply, TypeOK, Row, JobInv, Progress
      <4>3. fate'[j] = "dropped" /\ fate[j] \in {"open", "delivered", "dropped"}
        BY <2>0, <4>2, FateFacts DEF Final, Row, Statuses
      <4>4. fate' = [fate EXCEPT ![j] = "dropped"]
        BY <4>2, <4>3
      <4>5. CASE fate[j] = "delivered"
        <5>1. Delivery!Disown(j)
          BY <2>2, <3>1, <4>4, <4>5 DEF Delivery!Disown
        <5> QED BY <5>1 DEF Delivery!ContractNext
      <4>6. CASE fate[j] \in {"open", "dropped"}
        <5>1. fate' \in [Jobs -> Delivery!Fates]
          BY <2>0, FateFacts
        <5>2. Delivery!Settle
          BY <2>2, <3>1, <4>4, <4>6, <5>1 DEF Delivery!Settle
        <5> QED BY <5>2 DEF Delivery!ContractNext
      <4> QED BY <4>3, <4>5, <4>6
    <3>5. CASE \E w \in Workers : Commit(w)
      <4>1. PICK w \in Workers : Commit(w)
        BY <3>5
      <4>2. ASSUME NEW j \in Jobs
            PROVE  \/ fate'[j] = fate[j]
                   \/ fate[j] = "open" /\ fate'[j] = "dropped"
                   \/ fate[j] = "open" /\ fate'[j] = "delivered"
                                       /\ copies[j] > 0
        <5>1. CASE lock[j] # w
          BY <4>1, <5>1 DEF Commit
        <5>2. CASE lock[j] = w
          <6>1. job'[j] = draft[j] /\ job[j].status \in Open
                /\ draft[j].status \in Open \cup Final
            BY <2>0, <4>1, <5>2, ConstantsOK
               DEF Commit, InBatch, JobInv, Progress
          <6>2. fate[j] = "open"
            BY <2>0, <6>1, FateFacts
          <6>3. CASE draft[j].status = "sent"
            <7>1. draft[j].rid \in accepted[j]
              BY <2>0, <6>3 DEF JobInv, RowOK
            <7>2. IsFiniteSet(accepted[j]) /\ Cardinality(accepted[j]) \in Nat
              BY <2>0, AcceptedSize DEF JobInv, Ids, TypeOK
            <7>3. Cardinality(accepted[j]) # 0
              BY <7>1, <7>2, FS_EmptySet
            <7> QED BY <2>0, <6>1, <6>2, <6>3, <7>2, <7>3, FateFacts
          <6>4. CASE draft[j].status # "sent"
            BY <2>0, <6>1, <6>2, <6>4, FateFacts
          <6> QED BY <6>3, <6>4
        <5> QED BY <5>1, <5>2
      <4>3. fate' \in [Jobs -> Delivery!Fates]
        BY <2>0, FateFacts
      <4>4. Delivery!Settle
        BY <2>2, <3>1, <4>2, <4>3 DEF Delivery!Settle
      <4> QED BY <4>4 DEF Delivery!ContractNext
    <3>6. \/ job' = job
          \/ \E j \in Jobs : Enqueue(j) \/ CancelApply(j)
          \/ \E w \in Workers : Commit(w)
      BY DEF Next, BecomeDue, InboundNewer, CancelSelect, Cool, Claim,
             EmptyBatch, Rollback, WorkerStep, Reschedule, Block, StartTyping,
             PrepareFails, EndTyping, StaleAfterTyping, SendSucceeds,
             SendFails, vars, rowVars
    <3> QED BY <3>2, <3>3, <3>4, <3>5, <3>6
  <2>3. CASE \E w \in Workers : Rollback(w)
    <3>1. /\ job' = job /\ accepted' = accepted
          /\ rollbacks < MaxRollbacks /\ rollbacks' = rollbacks + 1
      BY <2>3 DEF Rollback, chatVars
    <3>2. Delivery!LoseWork
      BY <3>1 DEF Delivery!LoseWork
    <3> QED BY <3>2 DEF Delivery!ContractNext
  <2>4. \/ \E j \in Jobs : accepted'[j] # accepted[j]
        \/ accepted' = accepted
    BY <2>0 DEF TypeOK
  <2>5. rollbacks' = rollbacks \/ \E w \in Workers : Rollback(w)
    BY DEF Next, Enqueue, CancelApply, BecomeDue, InboundNewer, CancelSelect,
           Cool, Claim, EmptyBatch, Commit, WorkerStep, Reschedule, Block,
           StartTyping, PrepareFails, EndTyping, StaleAfterTyping,
           SendSucceeds, SendFails, vars
  <2> QED BY <2>1, <2>2, <2>3, <2>4, <2>5
<1> QED BY <1>1, <1>2, Invariance, PTL
       DEF Spec, KeepsDeliveryContract, Delivery!ContractSpec

-----------------------------------------------------------------------------
(***************************************************************************)
(* Pacing.  A worker sees the marks of its own batch and the committed      *)
(* ones; those of other workers it does not see, and those of a batch that  *)
(* was lost nobody does.                                                    *)
(***************************************************************************)
UnderWay(j) == step[j] \in {"typing", "sending"}
Unmarked(a) == paced[a] = {} /\ flooded[a] = {}

\* Until a batch is lost: every mark can be seen, a worker has one job under
\* way, and its account is unmarked.
PacingInv ==
  rollbacks = 0 =>
    /\ \A a \in Accounts : paced[a] \cup flooded[a] \subseteq Workers \cup {InDB}
    /\ \A j, k \in Jobs : UnderWay(j) /\ UnderWay(k) => j = k
    /\ \A j \in Jobs : UnderWay(j) => Unmarked(AccountOf[j])

\* A worker at a job has no other one under way, and there is no other worker.
LEMMA OnlyOneUnderWay ==
  ASSUME IInv, OneWorker, NEW w \in Workers, NEW j \in Jobs, Handling(w, j),
         NEW k \in Jobs, UnderWay(k)
  PROVE  k = j
<1>1. lock[k] \in Workers
  BY DEF IInv, TypeOK, JobInv, Progress, UnderWay
<1>2. lock[k] = w
  BY <1>1 DEF OneWorker
<1> QED BY <1>2 DEF Handling, InBatch, UnderWay

\* The work on a job ends: whatever its account is marked with, no job is under
\* way any more.
LEMMA PacingFinish ==
  ASSUME IInv, PacingInv, OneWorker, NEW w \in Workers, NEW j \in Jobs, Handling(w, j),
         NEW r, Finish(j, r), rollbacks' = rollbacks,
         paced' = paced \/ MarkPaced(w, AccountOf[j]),
         flooded' = flooded \/ MarkFlooded(w, AccountOf[j])
  PROVE  PacingInv'
<1>1. TypeOK
  BY DEF IInv
<1>2. \A k \in Jobs : step'[k] = IF k = j THEN "done" ELSE step[k]
  BY <1>1 DEF Finish, TypeOK
<1>3. \A k \in Jobs : ~UnderWay(k)'
  BY <1>2, OnlyOneUnderWay DEF UnderWay
<1>4. \A a \in Accounts : /\ paced'[a] \subseteq paced[a] \cup {w}
                          /\ flooded'[a] \subseteq flooded[a] \cup {w}
  BY <1>1 DEF TypeOK, MarkPaced, MarkFlooded
<1> QED BY <1>3, <1>4 DEF PacingInv

\* Marks that become committed stay visible.
LEMMA MarksStayVisible ==
  ASSUME NEW w \in Workers, MarksBecome(w, InDB), NEW a \in Accounts,
         paced[a] \cup flooded[a] \subseteq Workers \cup {InDB}
  PROVE  /\ paced'[a] \cup flooded'[a] \subseteq Workers \cup {InDB}
         /\ Unmarked(a) => Unmarked(a)'
BY DEF MarksBecome, Unmarked

\* Each step of the worker and of the other writers keeps the invariant.
LEMMA PacingStep == IInv /\ OneWorker /\ PacingInv /\ [Next]_vars => PacingInv'
<1> SUFFICES ASSUME IInv, OneWorker, PacingInv, [Next]_vars PROVE PacingInv'
  OBVIOUS
<1>0. TypeOK /\ \A j \in Jobs : AccountOf[j] \in Accounts
  BY ConstantsOK DEF IInv
<1>1. ASSUME step' = step, paced' = paced, flooded' = flooded, rollbacks' = rollbacks
      PROVE  PacingInv'
  BY <1>1 DEF PacingInv, UnderWay, Unmarked
<1>2. ASSUME NEW a \in Accounts, NEW k \in Knowers, Cool(a, k) PROVE PacingInv'
  <2>1. \A b \in Accounts : paced'[b] \subseteq paced[b] /\ flooded'[b] \subseteq flooded[b]
    BY <1>0, <1>2 DEF Cool, TypeOK
  <2>2. step' = step /\ rollbacks' = rollbacks
    BY <1>2 DEF Cool, rowVars
  <2> QED BY <1>0, <2>1, <2>2 DEF PacingInv, UnderWay, Unmarked
<1>3. ASSUME NEW w \in Workers, Claim(w) PROVE PacingInv'
  <2>1. \A j \in Jobs : step'[j] \in {"claimed", step[j]}
    BY <1>3 DEF Claim
  <2>2. paced' = paced /\ flooded' = flooded /\ rollbacks' = rollbacks
    BY <1>3 DEF Claim, acctVars
  <2> QED BY <1>0, <2>1, <2>2 DEF PacingInv, UnderWay, Unmarked
<1>4. ASSUME NEW w \in Workers, Commit(w) PROVE PacingInv'
  <2>1. \A j \in Jobs : step'[j] \in {"free", step[j]}
    BY <1>4 DEF Commit, Release
  <2>2. MarksBecome(w, InDB) /\ rollbacks' = rollbacks
    BY <1>4 DEF Commit
  <2> QED BY <1>0, <2>1, <2>2, MarksStayVisible DEF PacingInv, UnderWay
<1>5. ASSUME NEW w \in Workers, Rollback(w) PROVE PacingInv'
  <2>1. rollbacks' # 0
    BY <1>0, <1>5 DEF Rollback, TypeOK
  <2> QED BY <2>1 DEF PacingInv
<1>6. ASSUME NEW w \in Workers, NEW j \in Jobs, StartTyping(w, j) PROVE PacingInv'
  <2>1. \A k \in Jobs : UnderWay(k)' => k = j \/ UnderWay(k)
    BY <1>0, <1>6 DEF StartTyping, TypeOK, UnderWay
  <2>2. \A k \in Jobs : ~UnderWay(k) \/ k = j
    BY <1>6, OnlyOneUnderWay DEF StartTyping, Ready
  <2>3. \A k \in Jobs : UnderWay(k)' => k = j
    BY <2>1, <2>2
  <2>4. paced' = paced /\ flooded' = flooded /\ rollbacks' = rollbacks
    BY <1>6 DEF StartTyping, acctVars
  <2>5. rollbacks = 0 => Unmarked(AccountOf[j])
    BY <1>0, <1>6 DEF StartTyping, Ready, NotReady, Unmarked, PacingInv, OneWorker
  <2> QED BY <2>3, <2>4, <2>5 DEF PacingInv, Unmarked
<1>7. ASSUME NEW w \in Workers, NEW j \in Jobs, EndTyping(w, j) PROVE PacingInv'
  <2>1. \A k \in Jobs : UnderWay(k)' => UnderWay(k)
    BY <1>0, <1>7 DEF EndTyping, TypeOK, UnderWay
  <2>2. paced' = paced /\ flooded' = flooded /\ rollbacks' = rollbacks
    BY <1>7 DEF EndTyping, acctVars
  <2> QED BY <2>1, <2>2 DEF PacingInv, Unmarked
<1>8. ASSUME NEW w \in Workers, NEW j \in Jobs,
             Reschedule(w, j) \/ Block(w, j) \/ PrepareFails(w, j)
             \/ StaleAfterTyping(w, j) \/ SendSucceeds(w, j) \/ SendFails(w, j)
      PROVE  PacingInv'
  <2>1. Handling(w, j) /\ (\E r : Finish(j, r)) /\ rollbacks' = rollbacks
    BY <1>8 DEF Reschedule, Block, PrepareFails, Ready, StaleAfterTyping, SendSucceeds,
                SendFails
  <2>2. /\ paced' = paced \/ MarkPaced(w, AccountOf[j])
        /\ flooded' = flooded \/ MarkFlooded(w, AccountOf[j])
    BY <1>8 DEF Reschedule, Block, PrepareFails, StaleAfterTyping, SendSucceeds, SendFails,
                acctVars
  <2> QED BY <2>1, <2>2, PacingFinish
<1>9. ASSUME NEW j \in Jobs, Enqueue(j) \/ CancelApply(j) \/ BecomeDue(j) PROVE PacingInv'
  BY <1>1, <1>9 DEF Enqueue, CancelApply, BecomeDue, rowVars, acctVars
<1>10. ASSUME NEW d \in Dialogs, InboundNewer(d) \/ CancelSelect(d) PROVE PacingInv'
  BY <1>1, <1>10 DEF InboundNewer, CancelSelect, rowVars, acctVars
<1>11. CASE UNCHANGED vars
  BY <1>1, <1>11 DEF vars, rowVars, acctVars
<1> QED BY <1>2, <1>3, <1>4, <1>5, <1>6, <1>7, <1>8, <1>9, <1>10, <1>11
        DEF Next, WorkerStep, EmptyBatch

\* No worker is at a job from whose account its batch has sent, or that the batch
\* has flooded.
OwnPace ==
  \A j \in Jobs : UnderWay(j) => lock[j] \notin paced[AccountOf[j]] \cup flooded[AccountOf[j]]

\* The worker's marks come when its work on a job ends, and then it is at none.
LEMMA OwnPaceFinish ==
  ASSUME IInv, OwnPace, NEW w \in Workers, NEW j \in Jobs, Handling(w, j),
         NEW r, Finish(j, r), lock' = lock,
         paced' = paced \/ MarkPaced(w, AccountOf[j]),
         flooded' = flooded \/ MarkFlooded(w, AccountOf[j])
  PROVE  OwnPace'
<1>1. TypeOK /\ \A k \in Jobs : AccountOf[k] \in Accounts
  BY ConstantsOK DEF IInv
<1>2. \A k \in Jobs : step'[k] = IF k = j THEN "done" ELSE step[k]
  BY <1>1 DEF Finish, TypeOK
<1>3. \A k \in Jobs : UnderWay(k)' => UnderWay(k) /\ lock[k] # w
  BY <1>2 DEF Handling, InBatch, UnderWay
<1>4. \A a \in Accounts : /\ paced'[a] \subseteq paced[a] \cup {w}
                          /\ flooded'[a] \subseteq flooded[a] \cup {w}
  BY <1>1 DEF TypeOK, MarkPaced, MarkFlooded
<1> QED BY <1>1, <1>3, <1>4 DEF OwnPace

\* When a batch ends nobody else's marks change.
LEMMA OwnPaceEnd ==
  ASSUME IInv, OwnPace, NEW w \in Workers, NEW k \in {InDB, Lost},
         Release(w), MarksBecome(w, k)
  PROVE  OwnPace'
<1>1. TypeOK /\ \A j \in Jobs : AccountOf[j] \in Accounts
  BY ConstantsOK DEF IInv
<1>2. ASSUME NEW j \in Jobs, UnderWay(j)'
      PROVE  UnderWay(j) /\ lock'[j] = lock[j] /\ lock[j] \in Workers /\ lock[j] # w
  <2>1. step'[j] = (IF lock[j] = w THEN "free" ELSE step[j])
    BY DEF Release
  <2>2. lock[j] # w /\ UnderWay(j)
    BY <1>2, <2>1 DEF UnderWay
  <2>3. lock'[j] = lock[j]
    BY <2>2 DEF Release
  <2> QED BY <2>2, <2>3 DEF IInv, JobInv, Progress, UnderWay, TypeOK
<1>3. \A a \in Accounts : /\ paced'[a] \subseteq paced[a] \cup {k}
                          /\ flooded'[a] \subseteq flooded[a] \cup {k}
  BY DEF MarksBecome
<1>4. k \notin Workers
  BY NamesOK
<1>5. ASSUME NEW j \in Jobs, UnderWay(j)'
      PROVE  lock'[j] \notin paced'[AccountOf[j]] \cup flooded'[AccountOf[j]]
  <2>1. lock'[j] \notin paced[AccountOf[j]] \cup flooded[AccountOf[j]] /\ lock'[j] # k
    BY <1>2, <1>4, <1>5 DEF OwnPace
  <2> QED BY <1>1, <1>3, <2>1
<1> QED BY <1>5 DEF OwnPace

\* Each step keeps it, for any number of workers.
LEMMA OwnPaceStep == IInv /\ OwnPace /\ [Next]_vars => OwnPace'
<1> SUFFICES ASSUME IInv, OwnPace, [Next]_vars PROVE OwnPace'
  OBVIOUS
<1>0. TypeOK /\ \A j \in Jobs : AccountOf[j] \in Accounts
  BY ConstantsOK DEF IInv
<1>1. ASSUME lock' = lock, step' = step, paced' = paced, flooded' = flooded PROVE OwnPace'
  BY <1>1 DEF OwnPace, UnderWay
<1>2. ASSUME NEW a \in Accounts, NEW k \in Knowers, Cool(a, k) PROVE OwnPace'
  <2>1. \A b \in Accounts : paced'[b] \subseteq paced[b] /\ flooded'[b] \subseteq flooded[b]
    BY <1>0, <1>2 DEF Cool, TypeOK
  <2>2. step' = step /\ lock' = lock
    BY <1>2 DEF Cool, rowVars
  <2> QED BY <1>0, <2>1, <2>2 DEF OwnPace, UnderWay
<1>3. ASSUME NEW w \in Workers, Claim(w) PROVE OwnPace'
  <2>1. \A j \in Jobs : step'[j] = "claimed" \/ (step'[j] = step[j] /\ lock'[j] = lock[j])
    <3>1. PICK batch \in SUBSET Claimable :
                 /\ lock' = [j \in Jobs |-> IF j \in batch THEN w ELSE lock[j]]
                 /\ step' = [j \in Jobs |-> IF j \in batch THEN "claimed" ELSE step[j]]
      BY <1>3 DEF Claim
    <3> QED BY <3>1
  <2>2. paced' = paced /\ flooded' = flooded
    BY <1>3 DEF Claim, acctVars
  <2> QED BY <2>1, <2>2 DEF OwnPace, UnderWay
<1>4. ASSUME NEW w \in Workers, Commit(w) \/ Rollback(w) PROVE OwnPace'
  BY <1>4, OwnPaceEnd DEF Commit, Rollback
<1>5. ASSUME NEW w \in Workers, NEW j \in Jobs, StartTyping(w, j) PROVE OwnPace'
  <2>1. \A k \in Jobs : UnderWay(k)' => k = j \/ UnderWay(k)
    BY <1>0, <1>5 DEF StartTyping, TypeOK, UnderWay
  <2>2. lock' = lock /\ paced' = paced /\ flooded' = flooded
    BY <1>5 DEF StartTyping, acctVars
  <2>3. lock[j] \notin paced[AccountOf[j]] \cup flooded[AccountOf[j]]
    BY <1>5 DEF StartTyping, Ready, NotReady, Handling
  <2> QED BY <2>1, <2>2, <2>3 DEF OwnPace
<1>6. ASSUME NEW w \in Workers, NEW j \in Jobs, EndTyping(w, j) PROVE OwnPace'
  <2>1. \A k \in Jobs : UnderWay(k)' => UnderWay(k)
    BY <1>0, <1>6 DEF EndTyping, TypeOK, UnderWay
  <2>2. lock' = lock /\ paced' = paced /\ flooded' = flooded
    BY <1>6 DEF EndTyping, acctVars
  <2> QED BY <2>1, <2>2 DEF OwnPace
<1>7. ASSUME NEW w \in Workers, NEW j \in Jobs,
             Reschedule(w, j) \/ Block(w, j) \/ PrepareFails(w, j)
             \/ StaleAfterTyping(w, j) \/ SendSucceeds(w, j) \/ SendFails(w, j)
      PROVE  OwnPace'
  <2>1. Handling(w, j) /\ (\E r : Finish(j, r)) /\ lock' = lock
    BY <1>7 DEF Reschedule, Block, PrepareFails, Ready, StaleAfterTyping, SendSucceeds,
                SendFails
  <2>2. /\ paced' = paced \/ MarkPaced(w, AccountOf[j])
        /\ flooded' = flooded \/ MarkFlooded(w, AccountOf[j])
    BY <1>7 DEF Reschedule, Block, PrepareFails, StaleAfterTyping, SendSucceeds, SendFails,
                acctVars
  <2> QED BY <2>1, <2>2, OwnPaceFinish
<1>8. ASSUME NEW j \in Jobs, Enqueue(j) \/ CancelApply(j) \/ BecomeDue(j) PROVE OwnPace'
  BY <1>1, <1>8 DEF Enqueue, CancelApply, BecomeDue, rowVars, acctVars
<1>9. ASSUME NEW d \in Dialogs, InboundNewer(d) \/ CancelSelect(d) PROVE OwnPace'
  BY <1>1, <1>9 DEF InboundNewer, CancelSelect, rowVars, acctVars
<1>10. CASE UNCHANGED vars
  BY <1>1, <1>10 DEF vars, rowVars, acctVars
<1> QED BY <1>2, <1>3, <1>4, <1>5, <1>6, <1>7, <1>8, <1>9, <1>10
        DEF Next, WorkerStep, EmptyBatch

\* For any number of workers, jobs, accounts and failures: no batch sends from an
\* account it has sent from before or that it has flooded; and with one worker,
\* until a batch is lost, nothing is sent from an account whose send interval or
\* flood wait runs, whoever began it.
THEOREM PacingKept == Spec => PacingRespected
<1> DEFINE Marks(j) == paced[AccountOf[j]] \cup flooded[AccountOf[j]]
           Single == OneWorker => PacingInv
<1>1. Init => OwnPace /\ Single
  BY DEF Init, OwnPace, PacingInv, UnderWay
<1>2. IInv /\ OwnPace /\ Single /\ [Next]_vars => OwnPace' /\ Single'
  BY OwnPaceStep, PacingStep DEF OneWorker
<1>3. IInv /\ OwnPace /\ Single /\ [Next]_vars =>
        [\A j \in Jobs : accepted'[j] # accepted[j] =>
           LET marks == paced[AccountOf[j]] \cup flooded[AccountOf[j]]
           IN /\ lock[j] \notin marks
              /\ OneWorker /\ rollbacks = 0 => marks = {}]_vars
  <2> SUFFICES ASSUME IInv, OwnPace, Single, [Next]_vars,
                      NEW j \in Jobs, accepted'[j] # accepted[j]
               PROVE  /\ lock[j] \notin Marks(j)
                      /\ OneWorker /\ rollbacks = 0 => Marks(j) = {}
    OBVIOUS
  <2>1. UnderWay(j)
    BY AcceptedOnlyBySender DEF UnderWay
  <2>2. lock[j] \notin Marks(j)
    BY <2>1 DEF OwnPace
  <2>3. OneWorker /\ rollbacks = 0 => Marks(j) = {}
    BY <2>1 DEF PacingInv, Unmarked
  <2> QED BY <2>2, <2>3
<1> QED BY <1>1, <1>2, <1>3, Invariance, PTL DEF Spec, PacingRespected

=============================================================================
