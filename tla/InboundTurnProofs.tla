-------------------------- MODULE InboundTurnProofs --------------------------
(***************************************************************************)
(* Proofs about InboundTurn.  For every set of workers: the types, that no  *)
(* event is in two batches, and that the outcome of a finished event stays, *)
(* but for a failure that a restart of the dialog after its message makes   *)
(* 'processed'.  For one worker and messages of distinct times: that turns  *)
(* move forward, that no answer waits behind the candidate's back and,      *)
(* while the messages since the last sent answer fit into one batch, that   *)
(* every processed message was heard.                                       *)
(***************************************************************************)
EXTENDS InboundTurn, SequenceTheorems, FiniteSetTheorems, TLAPS

-----------------------------------------------------------------------------
(* Lemmas about the operators the actions are built from.                   *)

\* A function on 1..n is a sequence of length n.
LEMMA SeqOf ==
  ASSUME NEW S, NEW n \in Nat, NEW f \in [1..n -> S]
  PROVE  f \in Seq(S) /\ Len(f) = n /\ DOMAIN f = 1..n
<1>1. f \in Seq(S)
  BY SeqDef
<1>2. DOMAIN f = 1..n /\ DOMAIN f = 1..Len(f) /\ Len(f) \in Nat
  BY <1>1, LenProperties
<1> QED BY <1>1, <1>2

\* The stored messages are among those written, with their times.
LEMMA StoredFacts ==
  ASSUME TypeOK
  PROVE  /\ Stored = 1..Len(page) /\ Len(page) \in 0..MaxMessages
         /\ DOMAIN event = Stored
         /\ DOMAIN wrote = 1..Len(wrote) /\ Len(wrote) \in 0..MaxMessages
         /\ Stored \subseteq Messages /\ Stored \subseteq DOMAIN wrote
         /\ \A i \in DOMAIN wrote :
              wrote[i] \in Message /\ Sent(i) \in Times /\ QuietUntil(i) \in Times
         /\ \A i \in Stored : page[i] \in Messages /\ event[i] \in Event
         /\ DOMAIN turns = 1..Len(turns) /\ Len(turns) \in Nat
         /\ \A k \in DOMAIN turns : turns[k] \in Turn
<1> USE DEF TypeOK
<1>1. /\ Len(page) \in Nat /\ Stored = 1..Len(page)
      /\ Len(event) \in Nat /\ DOMAIN event = 1..Len(event)
      /\ Len(wrote) \in Nat /\ DOMAIN wrote = 1..Len(wrote)
      /\ Len(turns) \in Nat /\ DOMAIN turns = 1..Len(turns)
  BY LenProperties DEF Stored
<1>2. /\ \A i \in DOMAIN page : page[i] \in Messages
      /\ \A i \in DOMAIN event : event[i] \in Event
      /\ \A i \in DOMAIN wrote : wrote[i] \in Message
      /\ \A i \in DOMAIN turns : turns[i] \in Turn
  BY <1>1, ElementOfSeq
<1>3. \A i \in DOMAIN wrote : Sent(i) \in Times /\ QuietUntil(i) \in Times
  BY <1>2, TurnConstantsOK DEF Message, Sent, Times, QuietUntil
<1>4. Len(wrote) <= MaxMessages /\ Len(page) <= Len(wrote) /\ Len(event) = Len(page)
  OBVIOUS
<1>5. MaxMessages \in Nat
  BY TurnConstantsOK
<1> QED BY <1>1, <1>2, <1>3, <1>4, <1>5 DEF Messages, Stored

\* Idle work and its outcomes.
LEMMA IdleWork ==
  ASSUME TypeOK
  PROVE  /\ NoOutcome \in Outcomes /\ DOMAIN NoOutcome = {}
         /\ NoRuntime \in Runtime
         /\ Idle \in Work /\ TxOK(Idle)
<1>1. NoOutcome \in [{} -> Event] /\ DOMAIN NoOutcome = {}
  BY DEF NoOutcome
<1>2. NoOutcome \in Outcomes
  BY <1>1 DEF Outcomes
<1>3. NoRuntime \in Runtime
  BY TurnConstantsOK DEF NoRuntime, Runtime, Times, Never
<1>4. <<>> \in Seq(Turn)
  BY EmptySeq
<1>5. Idle \in Work
  BY <1>2, <1>3, <1>4, TurnConstantsOK DEF Idle, Work, Phases, Times
<1>6. TxOK(Idle)
  BY <1>1 DEF TxOK, Idle
<1> QED BY <1>1, <1>2, <1>3, <1>5, <1>6

\* Outcomes are functions from messages to events.
LEMMA OutcomesAre ==
  ASSUME NEW o \in Outcomes
  PROVE  /\ DOMAIN o \in SUBSET Messages
         /\ \A j \in DOMAIN o : o[j] \in Event
         /\ \A D \in SUBSET Messages : [D -> Event] \subseteq Outcomes
<1>1. PICK D \in SUBSET Messages : o \in [D -> Event]
  BY DEF Outcomes
<1>2. DOMAIN o = D /\ \A j \in D : o[j] \in Event
  BY <1>1
<1> QED BY <1>2 DEF Outcomes

\* The end of an event, in work or retired by a restart, keeps the types and takes the
\* event off the list.
LEMMA FinishAny ==
  ASSUME TypeOK, NEW t \in Work, TxOK(t), NEW i \in Stored,
         NEW status \in Open \cup Final, NEW r \in Times
  PROVE  LET u == Finish(t, i, status, r)
         IN /\ u \in Work /\ TxOK(u)
            /\ u.todo = t.todo \ {i} /\ DOMAIN u.out = DOMAIN t.out \cup {i}
            /\ u.out[i].status = status
            /\ \A j \in DOMAIN t.out : j # i => u.out[j] = t.out[j]
            /\ u.phase = "next" /\ u.batch = {} /\ u.cur = 0
            /\ u.rt = t.rt /\ u.loaded = t.loaded /\ u.new = t.new /\ u.drop = t.drop
            /\ u.at = t.at /\ u.retire = t.retire
<1> DEFINE p == [j \in DOMAIN t.out \cup {i} |->
                   IF j = i THEN [status |-> status, retryAt |-> r] ELSE t.out[j]]
           u == Finish(t, i, status, r)
<1>1. i \in Messages /\ Stored \subseteq Messages
  BY StoredFacts
<1>2. t.out \in Outcomes
  BY DEF Work
<1>3. /\ DOMAIN t.out \cup {i} \in SUBSET Messages
      /\ \A j \in DOMAIN t.out : t.out[j] \in Event
      /\ [status |-> status, retryAt |-> r] \in Event
  BY <1>1, <1>2, OutcomesAre DEF Event
<1>4. /\ p \in [DOMAIN t.out \cup {i} -> Event]
      /\ p \in Outcomes /\ DOMAIN p = DOMAIN t.out \cup {i}
      /\ p[i].status = status /\ \A j \in DOMAIN t.out : j # i => p[j] = t.out[j]
  BY <1>2, <1>3, OutcomesAre
<1>5. u = [t EXCEPT !.phase = "next", !.cur = 0, !.batch = {}, !.upto = 0,
                    !.todo = t.todo \ {i}, !.out = p]
  BY DEF Finish
<1> HIDE DEF p
<1>6. /\ u \in Work
      /\ u.todo = t.todo \ {i} /\ u.out = p /\ u.phase = "next" /\ u.batch = {}
      /\ u.rt = t.rt /\ u.loaded = t.loaded /\ u.new = t.new /\ u.drop = t.drop
      /\ u.at = t.at /\ u.cur = 0 /\ u.retire = t.retire
  <2>1. t.todo \ {i} \in SUBSET Messages /\ p \in Outcomes /\ "next" \in Phases
    BY <1>4 DEF Work, Phases
  <2> QED BY <1>5, <2>1 DEF Work
<1> HIDE DEF u
<1>7. TxOK(u)
  BY <1>1, <1>4, <1>6 DEF TxOK
<1> QED BY <1>4, <1>6, <1>7 DEF u

\* What a transaction has handled and made, it keeps.
Keeps(t, u) ==
  /\ DOMAIN t.out \subseteq DOMAIN u.out
  /\ \A j \in DOMAIN t.out : u.out[j] = t.out[j]
  /\ DOMAIN t.new \subseteq DOMAIN u.new
  /\ \A k \in DOMAIN t.new : /\ u.new[k].seen = t.new[k].seen
                             /\ u.new[k].batch = t.new[k].batch

\* The end of an event in work.
LEMMA FinishType ==
  ASSUME TypeOK, NEW t \in Work, TxOK(t), NEW i \in t.todo,
         NEW status \in Open \cup Final, NEW r \in Times
  PROVE  LET u == Finish(t, i, status, r)
         IN /\ u \in Work /\ TxOK(u) /\ Keeps(t, u)
            /\ u.todo = t.todo \ {i} /\ DOMAIN u.out = DOMAIN t.out \cup {i}
            /\ u.phase = "next" /\ u.batch = {} /\ u.cur = 0
            /\ u.rt = t.rt /\ u.loaded = t.loaded /\ u.new = t.new /\ u.drop = t.drop
            /\ u.at = t.at
<1>1. i \in Stored /\ i \notin DOMAIN t.out
  BY DEF TxOK
<1>2. LET u == Finish(t, i, status, r)
      IN /\ u \in Work /\ TxOK(u)
         /\ u.todo = t.todo \ {i} /\ DOMAIN u.out = DOMAIN t.out \cup {i}
         /\ \A j \in DOMAIN t.out : j # i => u.out[j] = t.out[j]
         /\ u.phase = "next" /\ u.batch = {} /\ u.cur = 0
         /\ u.rt = t.rt /\ u.loaded = t.loaded /\ u.new = t.new /\ u.drop = t.drop
         /\ u.at = t.at
  BY <1>1, FinishAny
<1> QED BY <1>1, <1>2 DEF Keeps

\* A step of one worker that changes only its transaction keeps the types when the
\* new one is well formed.
LEMMA TxStep ==
  ASSUME TypeOK, NEW w \in Workers, NEW t \in Work, TxOK(t),
         tx' = [tx EXCEPT ![w] = t],
         UNCHANGED <<now, wrote, page, event, runtime, turns>>,
         rollbacks' \in 0..MaxRollbacks
  PROVE  TypeOK'
<1>1. tx' \in [Workers -> Work]
  BY DEF TypeOK
<1>2. \A v \in Workers : tx'[v] = t \/ tx'[v] = tx[v]
  BY DEF TypeOK
<1>3. \A v \in Workers : TxOK(tx[v])' 
  BY <1>2 DEF TypeOK, TxOK, Stored
<1> QED BY <1>1, <1>3 DEF TypeOK

\* What a transaction sees of the runtime.
LEMMA ViewType ==
  ASSUME TypeOK, NEW w \in Workers
  PROVE  /\ View(w) \in Runtime /\ Loaded(w) \in Runtime
         /\ tx[w] \in Work /\ TxOK(tx[w]) /\ now \in Times /\ runtime \in Runtime
  BY DEF TypeOK, View, Loaded, Work

\* Cancelling drops committed answers and the transaction's own, nothing else.
LEMMA CancelType ==
  ASSUME TypeOK, NEW t \in Work, TxOK(t)
  PROVE  LET u == CancelPending(t)
         IN /\ u \in Work /\ TxOK(u) /\ Keeps(t, u)
            /\ u.todo = t.todo /\ u.out = t.out /\ u.rt = t.rt /\ u.loaded = t.loaded
            /\ u.phase = t.phase /\ u.at = t.at
            /\ Len(u.new) = Len(t.new) /\ DOMAIN u.new = DOMAIN t.new
            /\ \A k \in DOMAIN t.new :
                 u.new[k].seen = t.new[k].seen /\ u.new[k].batch = t.new[k].batch
<1> DEFINE new == [k \in DOMAIN t.new |->
                     IF t.new[k].reply = "queued"
                     THEN [t.new[k] EXCEPT !.reply = "dropped"] ELSE t.new[k]]
           drop == t.drop \cup QueuedTurns
           u == CancelPending(t)
<1>1. t.new \in Seq(Turn)
  BY DEF Work
<1>2. Len(t.new) \in Nat /\ DOMAIN t.new = 1..Len(t.new) /\ \A k \in DOMAIN t.new : t.new[k] \in Turn
  BY <1>1, LenProperties, ElementOfSeq
<1>3. \A r \in Turn : /\ [r EXCEPT !.reply = "dropped"] \in Turn
                      /\ [r EXCEPT !.reply = "dropped"].seen = r.seen
                      /\ [r EXCEPT !.reply = "dropped"].batch = r.batch
  BY DEF Turn
<1>4. new \in [1..Len(t.new) -> Turn]
  BY <1>2, <1>3
<1>5. new \in Seq(Turn) /\ Len(new) = Len(t.new) /\ DOMAIN new = DOMAIN t.new
  BY <1>2, <1>4, SeqOf
<1>6. \A k \in DOMAIN t.new : new[k].seen = t.new[k].seen /\ new[k].batch = t.new[k].batch
  BY <1>2, <1>3
<1>7. QueuedTurns \subseteq DOMAIN turns /\ DOMAIN turns \subseteq Nat
  BY StoredFacts DEF QueuedTurns
<1>8. drop \in SUBSET Nat /\ drop \subseteq DOMAIN turns
  BY <1>7 DEF TxOK
<1>9. u = [t EXCEPT !.drop = drop, !.new = new]
  BY DEF CancelPending
<1> HIDE DEF new, drop
<1>10. /\ u \in Work /\ u.new = new /\ u.drop = drop
       /\ u.todo = t.todo /\ u.out = t.out /\ u.rt = t.rt /\ u.loaded = t.loaded
       /\ u.phase = t.phase /\ u.cur = t.cur /\ u.batch = t.batch /\ u.upto = t.upto
       /\ u.at = t.at /\ u.retire = t.retire
  BY <1>5, <1>8, <1>9 DEF Work
<1> HIDE DEF u
<1>11. TxOK(u) /\ Keeps(t, u)
  BY <1>5, <1>6, <1>8, <1>10 DEF TxOK, Keeps
<1> QED BY <1>5, <1>6, <1>10, <1>11 DEF u

-----------------------------------------------------------------------------
(* Type correctness, action by action.                                      *)

\* A step of worker w, its transaction only: what is still to do is open, what it takes
\* on no other worker holds, and a restart retires earlier messages only.
BatchStep(w) ==
  /\ TypeOK'
  /\ RetiresEarlier(tx[w])'
  /\ \A j \in tx'[w].todo : event[j].status \in Open
  /\ \A j \in Held(w)' \ Held(w), v \in Workers \ {w} : j \notin Held(v)
  /\ \A v \in Workers \ {w} : tx'[v] = tx[v]
  /\ UNCHANGED <<now, wrote, page, event, runtime, turns>>

LEMMA TxBatchStep ==
  ASSUME TypeOK, NEW w \in Workers, NEW t \in Work, TxOK(t), RetiresEarlier(t),
         \A j \in t.todo : event[j].status \in Open,
         \A j \in (t.todo \cup DOMAIN t.out) \ Held(w), v \in Workers \ {w} : j \notin Held(v),
         tx' = [tx EXCEPT ![w] = t],
         UNCHANGED <<now, wrote, page, event, runtime, turns>>,
         rollbacks' \in 0..MaxRollbacks
  PROVE  BatchStep(w)
<1>1. TypeOK'
  BY TxStep
<1>2. tx'[w] = t /\ \A v \in Workers \ {w} : tx'[v] = tx[v]
  BY DEF TypeOK
<1>3. Held(w)' = t.todo \cup DOMAIN t.out
  BY <1>2 DEF Held, Handled
<1>4. RetiresEarlier(tx[w])'
  BY <1>2 DEF RetiresEarlier, BegunAfter, Sent
<1> QED BY <1>1, <1>2, <1>3, <1>4 DEF BatchStep

\* Restarts aside, a worker's step within its batch: it holds the same events and keeps
\* what it has handled and made.
LEMMA SameBatchStep ==
  ASSUME HeldInv, NEW w \in Workers, NEW t \in Work, TxOK(t),
         tx[w].phase # "retiring", t.phase # "retiring",
         t.todo \cup DOMAIN t.out = Held(w), Keeps(tx[w], t),
         tx' = [tx EXCEPT ![w] = t],
         UNCHANGED <<now, wrote, page, event, runtime, turns, rollbacks>>
  PROVE  BatchStep(w)
<1>1. /\ TypeOK /\ RetiresEarlier(tx[w]) /\ rollbacks' \in 0..MaxRollbacks
      /\ \A j \in tx[w].todo : event[j].status \in Open
  BY DEF HeldInv, TypeOK, ClaimedOnce, Held
<1>2. t.todo \subseteq tx[w].todo
  BY DEF Held, Handled, TxOK, Keeps
<1>3. RetiresEarlier(t)
  <2>1. ASSUME NEW i \in DOMAIN t.out, event[i].status \in Final
        PROVE  t.out[i].status = "processed" /\ BegunAfter(t, i)
    <3>1. i \in DOMAIN tx[w].out
      BY <1>1, <2>1 DEF Held, Handled, Open, Final
    <3>2. t.out[i] = tx[w].out[i]
      BY <3>1 DEF Keeps
    <3>3. tx[w].out[i].status = "processed" /\ BegunAfter(tx[w], i)
      BY <1>1, <2>1, <3>1 DEF RetiresEarlier
    <3>4. PICK k \in DOMAIN tx[w].new : tx[w].new[k].batch = {} /\ tx[w].new[k].seen >= Sent(i)
      BY <3>3 DEF BegunAfter
    <3>5. k \in DOMAIN t.new /\ t.new[k].batch = {} /\ t.new[k].seen >= Sent(i)
      BY <3>4 DEF Keeps
    <3> QED BY <3>2, <3>3, <3>5 DEF BegunAfter
  <2> QED BY <2>1 DEF RetiresEarlier
<1> QED BY <1>1, <1>2, <1>3, TxBatchStep

LEMMA DismissStep ==
  ASSUME HeldInv, NEW w \in Workers, Dismiss(w)
  PROVE  BatchStep(w)
<1> TypeOK
  BY DEF HeldInv
<1>1. PICK i \in tx[w].todo :
        tx' = [tx EXCEPT ![w] = [Finish(tx[w], i, "processed", 0)
                                  EXCEPT !.loaded = Loaded(w), !.rt = View(w)]]
  BY DEF Dismiss, TypeOK
<1> DEFINE u == Finish(tx[w], i, "processed", 0)
           t == [u EXCEPT !.loaded = Loaded(w), !.rt = View(w)]
<1>2. "processed" \in Open \cup Final /\ 0 \in Times
  BY TurnConstantsOK DEF Final, Times
<1>3. /\ u \in Work /\ TxOK(u) /\ u.todo = tx[w].todo \ {i} /\ Keeps(tx[w], u)
      /\ DOMAIN u.out = DOMAIN tx[w].out \cup {i} /\ u.phase = "next"
  BY <1>2, ViewType, FinishType
<1>4. tx' = [tx EXCEPT ![w] = t]
  BY <1>1
<1> HIDE DEF u
<1>5. t \in Work /\ TxOK(t) /\ t.todo = u.todo /\ t.out = u.out /\ t.new = u.new
      /\ t.phase = "next"
  BY <1>3, ViewType DEF Work, TxOK
<1>6. t.todo \cup DOMAIN t.out = Held(w) /\ Keeps(tx[w], t)
  BY <1>3, <1>5 DEF Held, Handled, Keeps
<1>7. tx[w].phase # "retiring"
  BY DEF Dismiss, IsNext
<1> HIDE DEF t
<1> QED BY <1>4, <1>5, <1>6, <1>7, SameBatchStep DEF Dismiss

\* What prepare_inbound_turn leaves in the transaction for an accepted event.
LEMMA PreparedType ==
  ASSUME TypeOK, NEW w \in Workers, NEW i \in tx[w].todo
  PROVE  LET t == Prepared(w, i)
         IN /\ t \in Work /\ TxOK(t) /\ t.todo = tx[w].todo /\ t.out = tx[w].out
            /\ Keeps(tx[w], t)
            /\ t.phase = tx[w].phase /\ t.loaded = Loaded(w) /\ t.at = tx[w].at
            /\ t.rt = IF View(w).exists THEN [View(w) EXCEPT !.quiet = QuietUntil(i)]
                      ELSE NoRuntime
            /\ Len(t.new) = Len(tx[w].new) /\ DOMAIN t.new = DOMAIN tx[w].new
            /\ \A k \in DOMAIN t.new : /\ t.new[k].seen = tx[w].new[k].seen
                                       /\ t.new[k].batch = tx[w].new[k].batch
<1> DEFINE u == CancelPending(tx[w])
           r == IF View(w).exists THEN [View(w) EXCEPT !.quiet = QuietUntil(i)]
                ELSE NoRuntime
           t == Prepared(w, i)
<1>1. /\ u \in Work /\ TxOK(u)
      /\ u.todo = tx[w].todo /\ u.out = tx[w].out /\ u.phase = tx[w].phase
      /\ u.at = tx[w].at
      /\ Len(u.new) = Len(tx[w].new) /\ DOMAIN u.new = DOMAIN tx[w].new
      /\ \A k \in DOMAIN tx[w].new : /\ u.new[k].seen = tx[w].new[k].seen
                                     /\ u.new[k].batch = tx[w].new[k].batch
  BY ViewType, CancelType
<1>2. i \in Stored /\ QuietUntil(i) \in Times
  BY ViewType, StoredFacts DEF TxOK
<1>3. r \in Runtime
  BY <1>2, ViewType, IdleWork DEF Runtime
<1>4. t = [u EXCEPT !.loaded = Loaded(w), !.rt = r]
  BY DEF Prepared
<1> HIDE DEF u, r
<1>5. /\ t \in Work /\ t.todo = u.todo /\ t.out = u.out /\ t.phase = u.phase
      /\ t.loaded = Loaded(w) /\ t.rt = r /\ t.new = u.new /\ t.drop = u.drop
      /\ t.cur = u.cur /\ t.batch = u.batch /\ t.upto = u.upto /\ t.at = u.at
      /\ t.retire = u.retire
  BY <1>1, <1>3, <1>4, ViewType DEF Work
<1> HIDE DEF t
<1>6. TxOK(t) /\ Keeps(tx[w], t)
  BY <1>1, <1>5 DEF TxOK, Keeps
<1> QED BY <1>1, <1>5, <1>6 DEF t, r

LEMMA DeferStep ==
  ASSUME HeldInv, NEW w \in Workers, Defer(w)
  PROVE  BatchStep(w)
<1> TypeOK
  BY DEF HeldInv
<1>1. PICK i \in tx[w].todo :
        tx' = [tx EXCEPT ![w] = Finish(Prepared(w, i), i, "retry", QuietUntil(i))]
  BY DEF Defer, Deferred
<1> DEFINE u == Prepared(w, i)
           t == Finish(u, i, "retry", QuietUntil(i))
<1>2. "retry" \in Open \cup Final /\ QuietUntil(i) \in Times
  BY ViewType, StoredFacts DEF TxOK, Open
<1>3. /\ u \in Work /\ TxOK(u) /\ u.todo = tx[w].todo /\ u.out = tx[w].out
      /\ Keeps(tx[w], u)
  BY PreparedType
<1>4. tx' = [tx EXCEPT ![w] = t]
  BY <1>1
<1> HIDE DEF u
<1>5. /\ t \in Work /\ TxOK(t) /\ Keeps(u, t) /\ t.phase = "next"
      /\ t.todo = u.todo \ {i} /\ DOMAIN t.out = DOMAIN u.out \cup {i}
  BY <1>2, <1>3, FinishType
<1>6. t.todo \cup DOMAIN t.out = Held(w) /\ Keeps(tx[w], t)
  BY <1>3, <1>5 DEF Held, Handled, Keeps
<1>7. tx[w].phase # "retiring"
  BY DEF Defer, Accepts, IsNext
<1> HIDE DEF t
<1> QED BY <1>4, <1>5, <1>6, <1>7, SameBatchStep DEF Defer

LEMMA StartTurnStep ==
  ASSUME HeldInv, NEW w \in Workers, StartTurn(w)
  PROVE  BatchStep(w)
<1> TypeOK
  BY DEF HeldInv
<1>1. PICK i \in tx[w].todo :
        tx' = [tx EXCEPT ![w] = [Prepared(w, i) EXCEPT !.phase = "ready", !.cur = i]]
  BY DEF StartTurn
<1> DEFINE u == Prepared(w, i)
           t == [u EXCEPT !.phase = "ready", !.cur = i]
<1>2. /\ u \in Work /\ TxOK(u) /\ u.todo = tx[w].todo /\ u.out = tx[w].out
      /\ Keeps(tx[w], u)
  BY PreparedType
<1>3. tx' = [tx EXCEPT ![w] = t]
  BY <1>1
<1>4. i \in Messages /\ tx[w].phase # "retiring"
  BY ViewType, StoredFacts DEF TxOK, StartTurn, Accepts, IsNext
<1> HIDE DEF u
<1>5. /\ t \in Work /\ t.todo = u.todo /\ t.out = u.out /\ t.new = u.new /\ TxOK(t)
      /\ t.phase = "ready"
  BY <1>2, <1>4 DEF Work, Phases, TxOK
<1>6. t.todo \cup DOMAIN t.out = Held(w) /\ Keeps(tx[w], t)
  BY <1>2, <1>5 DEF Held, Handled, Keeps
<1> HIDE DEF t
<1> QED BY <1>3, <1>4, <1>5, <1>6, SameBatchStep DEF StartTurn

LEMMA ReadBatchStep ==
  ASSUME HeldInv, NEW w \in Workers, ReadBatch(w)
  PROVE  BatchStep(w)
<1> TypeOK
  BY DEF HeldInv
<1>1. PICK S \in SUBSET SinceLastOutbound :
        \E p \in Newest(IF S = {} THEN {tx[w].cur} ELSE S) :
          tx' = [tx EXCEPT ![w] = [tx[w] EXCEPT !.phase = "thinking",
                   !.batch = IF S = {} THEN {tx[w].cur} ELSE S,
                   !.upto = p, !.loaded = Loaded(w),
                   !.rt = [View(w) EXCEPT !.exists = TRUE]]]
  BY DEF ReadBatch, TypeOK
<1> DEFINE batch == IF S = {} THEN {tx[w].cur} ELSE S
           r == [View(w) EXCEPT !.exists = TRUE]
<1>2. PICK p \in Newest(batch) :
        tx' = [tx EXCEPT ![w] = [tx[w] EXCEPT !.phase = "thinking", !.batch = batch,
                 !.upto = p, !.loaded = Loaded(w), !.rt = r]]
  BY <1>1
<1> DEFINE t == [tx[w] EXCEPT !.phase = "thinking", !.batch = batch,
                   !.upto = p, !.loaded = Loaded(w), !.rt = r]
<1>3. tx[w].phase = "ready" /\ tx[w].cur \in tx[w].todo /\ tx[w].todo \subseteq Stored
  BY ViewType DEF ReadBatch, TxOK
<1>4. batch \subseteq Stored /\ p \in batch
  BY <1>3 DEF SinceLastOutbound, Newest
<1>5. batch \subseteq Messages /\ p \in Messages
  BY <1>4, StoredFacts
<1>6. r \in Runtime
  BY ViewType DEF Runtime
<1> HIDE DEF batch, r
<1>7. /\ t \in Work /\ t.todo = tx[w].todo /\ t.out = tx[w].out /\ t.cur = tx[w].cur
      /\ t.batch = batch /\ t.upto = p /\ t.drop = tx[w].drop /\ t.new = tx[w].new
      /\ t.phase = "thinking"
  BY <1>5, <1>6, ViewType DEF Work, Phases
<1>8. tx' = [tx EXCEPT ![w] = t]
  BY <1>2
<1> HIDE DEF t
<1>9. TxOK(t)
  BY <1>3, <1>4, <1>7, ViewType DEF TxOK
<1>10. t.todo \cup DOMAIN t.out = Held(w) /\ Keeps(tx[w], t)
  BY <1>7 DEF Held, Handled, Keeps
<1> QED BY <1>3, <1>7, <1>8, <1>9, <1>10, SameBatchStep DEF ReadBatch

\* One turn more.
LEMMA AppendTurn ==
  ASSUME NEW s \in Seq(Turn), NEW e \in Turn
  PROVE  LET new == Append(s, e)
         IN /\ new \in Seq(Turn) /\ DOMAIN s \subseteq DOMAIN new
            /\ \A k \in DOMAIN s : new[k] = s[k]
            /\ Len(s) + 1 \in DOMAIN new /\ new[Len(s) + 1] = e
<1> DEFINE new == Append(s, e)
<1>1. Len(s) \in Nat /\ DOMAIN s = 1..Len(s)
  BY LenProperties
<1>2. /\ new \in Seq(Turn) /\ Len(new) = Len(s) + 1 /\ new[Len(s) + 1] = e
      /\ \A k \in 1..Len(s) : new[k] = s[k]
  BY AppendProperties
<1>3. DOMAIN new = 1..(Len(s) + 1)
  BY <1>2, LenProperties
<1> HIDE DEF new
<1> QED BY <1>1, <1>2, <1>3 DEF new

\* A run that ends with a turn.
LEMMA RunEnds ==
  ASSUME TypeOK, NEW w \in Workers, tx[w].phase = "thinking",
         NEW status \in Final, NEW r \in Runtime, NEW e \in Turn
  PROVE  LET t == [Finish(tx[w], tx[w].cur, status, 0) EXCEPT
                     !.rt = r, !.new = Append(tx[w].new, e)]
         IN /\ t \in Work /\ TxOK(t) /\ t.todo \cup DOMAIN t.out = Held(w)
            /\ t.phase = "next" /\ Keeps(tx[w], t)
<1> DEFINE u == Finish(tx[w], tx[w].cur, status, 0)
           new == Append(tx[w].new, e)
           t == [u EXCEPT !.rt = r, !.new = new]
<1>1. tx[w].cur \in tx[w].todo /\ 0 \in Times /\ tx[w].new \in Seq(Turn)
  BY ViewType, TurnConstantsOK DEF TxOK, Times, Work
<1>2. /\ u \in Work /\ TxOK(u) /\ u.todo = tx[w].todo \ {tx[w].cur} /\ Keeps(tx[w], u)
      /\ DOMAIN u.out = DOMAIN tx[w].out \cup {tx[w].cur} /\ u.phase = "next"
  BY <1>1, ViewType, FinishType
<1>3. /\ new \in Seq(Turn) /\ DOMAIN tx[w].new \subseteq DOMAIN new
      /\ \A k \in DOMAIN tx[w].new : new[k] = tx[w].new[k]
  BY <1>1, AppendTurn
<1> HIDE DEF u, new
<1>4. /\ t \in Work /\ TxOK(t) /\ t.todo = u.todo /\ t.out = u.out /\ t.phase = "next"
      /\ t.new = new
  BY <1>2, <1>3 DEF Work, TxOK
<1> HIDE DEF t
<1>5. t.todo \cup DOMAIN t.out = Held(w) /\ Keeps(tx[w], t)
  BY <1>1, <1>2, <1>3, <1>4 DEF Held, Handled, Keeps
<1> QED BY <1>4, <1>5 DEF t, u, new

LEMMA DecideStep ==
  ASSUME HeldInv, NEW w \in Workers, Decide(w)
  PROVE  BatchStep(w)
<1> TypeOK
  BY DEF HeldInv
<1>1. PICK reply \in {"none", "queued"} :
        tx' = [tx EXCEPT ![w] = [Finish(tx[w], tx[w].cur, "processed", 0) EXCEPT
                !.rt = [tx[w].rt EXCEPT !.last = tx[w].upto, !.version = tx[w].rt.version + 1],
                !.new = Append(tx[w].new,
                          [seen |-> Sent(tx[w].upto), batch |-> tx[w].batch,
                           at |-> tx[w].at, version |-> tx[w].rt.version + 1,
                           reply |-> reply])]]
  BY DEF Decide
<1> DEFINE u == Finish(tx[w], tx[w].cur, "processed", 0)
           r == [tx[w].rt EXCEPT !.last = tx[w].upto, !.version = tx[w].rt.version + 1]
           e == [seen |-> Sent(tx[w].upto), batch |-> tx[w].batch,
                 at |-> tx[w].at, version |-> tx[w].rt.version + 1, reply |-> reply]
           t == [u EXCEPT !.rt = r, !.new = Append(tx[w].new, e)]
<1>2. tx[w] \in Work /\ TxOK(tx[w]) /\ tx[w].phase = "thinking"
  BY ViewType DEF Decide
<1>3. tx[w].upto \in Stored /\ Sent(tx[w].upto) \in Times
  BY <1>2, StoredFacts DEF TxOK
<1>4. tx[w].rt \in Runtime /\ tx[w].new \in Seq(Turn) /\ tx[w].at \in Times
      /\ tx[w].batch \in SUBSET Messages /\ tx[w].upto \in {0} \cup Messages
  BY <1>2 DEF Work
<1>5. r \in Runtime
  <2>1. tx[w].rt.version + 1 \in Nat
    BY <1>4 DEF Runtime
  <2> QED BY <1>4, <2>1 DEF Runtime
<1>6. e \in Turn
  BY <1>3, <1>4 DEF Turn, Runtime
<1>7. tx' = [tx EXCEPT ![w] = t]
  BY <1>1
<1>8. "processed" \in Final
  BY DEF Final
<1> HIDE DEF r, e
<1>9. /\ t \in Work /\ TxOK(t) /\ t.todo \cup DOMAIN t.out = Held(w)
      /\ t.phase = "next" /\ Keeps(tx[w], t)
  BY <1>2, <1>5, <1>6, <1>8, RunEnds
<1> HIDE DEF t
<1> QED BY <1>2, <1>7, <1>9, SameBatchStep DEF Decide

\* A failing run leaves no turn.
LEMMA FailStep ==
  ASSUME HeldInv, NEW w \in Workers, TurnFails(w)
  PROVE  BatchStep(w)
<1> TypeOK
  BY DEF HeldInv
<1> DEFINE u == Finish(tx[w], tx[w].cur, "failed", 0)
<1>1. tx[w].phase = "thinking" /\ tx[w].cur \in tx[w].todo /\ 0 \in Times
      /\ "failed" \in Open \cup Final
  BY ViewType, TurnConstantsOK DEF TurnFails, TxOK, Times, Final
<1>2. /\ u \in Work /\ TxOK(u) /\ u.todo = tx[w].todo \ {tx[w].cur} /\ Keeps(tx[w], u)
      /\ DOMAIN u.out = DOMAIN tx[w].out \cup {tx[w].cur} /\ u.phase = "next"
  BY <1>1, ViewType, FinishType
<1>3. tx' = [tx EXCEPT ![w] = u]
  BY DEF TurnFails, TypeOK
<1> HIDE DEF u
<1>4. u.todo \cup DOMAIN u.out = Held(w)
  BY <1>1, <1>2 DEF Held, Handled
<1> QED BY <1>1, <1>2, <1>3, <1>4, SameBatchStep DEF TurnFails

\* A superseded run leaves a note.
LEMMA SupersedeStep ==
  ASSUME HeldInv, NEW w \in Workers, Supersede(w)
  PROVE  BatchStep(w)
<1> TypeOK
  BY DEF HeldInv
<1> DEFINE u == Finish(tx[w], tx[w].cur, "processed", 0)
           r == [tx[w].rt EXCEPT !.version = tx[w].rt.version + 1]
           t == [u EXCEPT !.rt = r]
<1>1. tx[w].phase = "thinking" /\ tx[w].cur \in tx[w].todo /\ 0 \in Times
      /\ "processed" \in Open \cup Final
  BY ViewType, TurnConstantsOK DEF Supersede, TxOK, Times, Final
<1>2. /\ u \in Work /\ TxOK(u) /\ u.todo = tx[w].todo \ {tx[w].cur} /\ Keeps(tx[w], u)
      /\ DOMAIN u.out = DOMAIN tx[w].out \cup {tx[w].cur} /\ u.phase = "next"
  BY <1>1, ViewType, FinishType
<1>3. tx' = [tx EXCEPT ![w] = t]
  BY DEF Supersede
<1>4. r \in Runtime
  <2>1. tx[w].rt \in Runtime
    BY ViewType DEF Work
  <2>2. tx[w].rt.version + 1 \in Nat
    BY <2>1 DEF Runtime
  <2> QED BY <2>1, <2>2 DEF Runtime
<1> HIDE DEF u, r
<1>5. /\ t \in Work /\ TxOK(t) /\ t.todo = u.todo /\ t.out = u.out /\ t.new = u.new
      /\ t.phase = "next"
  BY <1>2, <1>4 DEF Work, TxOK
<1> HIDE DEF t
<1>6. t.todo \cup DOMAIN t.out = Held(w) /\ Keeps(tx[w], t)
  BY <1>1, <1>2, <1>5 DEF Held, Handled, Keeps
<1> QED BY <1>1, <1>3, <1>5, <1>6, SameBatchStep DEF Supersede

\* A batch is begun with open events that no other worker holds.
LEMMA ClaimStep ==
  ASSUME HeldInv, NEW w \in Workers, Claim(w)
  PROVE  BatchStep(w)
<1> TypeOK
  BY DEF HeldInv
<1>1. PICK batch \in SUBSET Claimable :
        tx' = [tx EXCEPT ![w] = [Idle EXCEPT !.phase = "next", !.at = now, !.todo = batch]]
  BY DEF Claim
<1> DEFINE t == [Idle EXCEPT !.phase = "next", !.at = now, !.todo = batch]
<1>2. batch \subseteq Messages /\ batch \subseteq Stored
  BY StoredFacts DEF Claimable
<1>3. /\ t \in Work /\ t.todo = batch /\ t.out = NoOutcome /\ t.batch = {} /\ t.drop = {}
      /\ t.phase = "next"
  BY <1>2, IdleWork, ViewType DEF Work, Phases, Idle
<1>4. TxOK(t) /\ RetiresEarlier(t)
  BY <1>2, <1>3, IdleWork DEF TxOK, RetiresEarlier
<1>5. tx' = [tx EXCEPT ![w] = t]
  BY <1>1
<1> HIDE DEF t
<1>6. \A j \in batch : /\ event[j].status \in Open
                       /\ \A v \in Workers : j \notin Held(v)
  BY DEF Claimable, IsReady, Locked, Held, Open
<1>7. t.todo \cup DOMAIN t.out = batch
  BY <1>3, IdleWork
<1>8. rollbacks' \in 0..MaxRollbacks
  BY DEF Claim, TypeOK
<1> QED BY <1>3, <1>4, <1>5, <1>6, <1>7, <1>8, TxBatchStep DEF Claim

\* What a restart leaves in the transaction when it has selected what to retire.
LEMMA RestartBegun ==
  ASSUME TypeOK, NEW w \in Workers, RestartDialog(w)
  PROVE  \E i \in tx[w].todo, t \in Work :
           /\ IsNext(w, i) /\ wrote[i].text = "restart"
           /\ tx' = [tx EXCEPT ![w] = t]
           /\ TxOK(t) /\ Keeps(tx[w], t) /\ t.todo = tx[w].todo /\ t.out = tx[w].out
           /\ t.phase = "retiring" /\ t.cur = i /\ t.retire = OtherOpen(w, i)
           /\ t.loaded = Loaded(w)
           /\ t.rt = [exists |-> TRUE, last |-> i, quiet |-> 0, base |-> now,
                      version |-> View(w).version + 1]
           /\ t.new = CancelPending(tx[w]).new /\ t.drop = CancelPending(tx[w]).drop
<1> DEFINE r(i) == [exists |-> TRUE, last |-> i, quiet |-> 0, base |-> now,
                    version |-> View(w).version + 1]
<1>1. PICK i \in tx[w].todo :
        /\ IsNext(w, i)
        /\ wrote[i].text = "restart"
        /\ tx' = [tx EXCEPT ![w] = [CancelPending(tx[w]) EXCEPT
                   !.phase = "retiring", !.cur = i, !.retire = OtherOpen(w, i),
                   !.loaded = Loaded(w), !.rt = r(i)]]
  BY DEF RestartDialog
<1> DEFINE u == CancelPending(tx[w])
           t == [u EXCEPT !.phase = "retiring", !.cur = i, !.retire = OtherOpen(w, i),
                          !.loaded = Loaded(w), !.rt = r(i)]
<1>2. tx[w] \in Work /\ TxOK(tx[w]) /\ Stored \subseteq Messages /\ now \in Times
  BY ViewType, StoredFacts
<1>3. /\ u \in Work /\ TxOK(u) /\ Keeps(tx[w], u) /\ u.todo = tx[w].todo /\ u.out = tx[w].out
  BY <1>2, CancelType
<1>4. i \in Stored /\ i \in Messages /\ OtherOpen(w, i) \subseteq Stored \ {i}
  BY <1>2 DEF TxOK, OtherOpen
<1>5. View(w).version + 1 \in Nat
  BY ViewType DEF Runtime
<1>6. r(i) \in Runtime
  BY <1>2, <1>4, <1>5, TurnConstantsOK DEF Runtime, Times
<1>7. tx' = [tx EXCEPT ![w] = t]
  BY <1>1
<1> HIDE DEF u, r
<1>8. /\ t \in Work /\ t.todo = u.todo /\ t.out = u.out /\ t.new = u.new /\ t.drop = u.drop
      /\ t.phase = "retiring" /\ t.cur = i /\ t.retire = OtherOpen(w, i) /\ t.batch = u.batch
      /\ t.loaded = Loaded(w) /\ t.rt = r(i)
  BY <1>2, <1>3, <1>4, <1>6, ViewType DEF Work, Phases
<1> HIDE DEF t
<1>9. TxOK(t) /\ Keeps(tx[w], t)
  BY <1>3, <1>4, <1>8 DEF TxOK, Keeps
<1> QED BY <1>1, <1>3, <1>7, <1>8, <1>9 DEF r, u

\* It has selected earlier messages only: every stored message was sent by now.
LEMMA RestartStep ==
  ASSUME HeldInv, NEW w \in Workers, RestartDialog(w)
  PROVE  BatchStep(w)
<1> TypeOK
  BY DEF HeldInv
<1>1. PICK i \in tx[w].todo, t \in Work :
        /\ IsNext(w, i) /\ wrote[i].text = "restart"
        /\ tx' = [tx EXCEPT ![w] = t]
        /\ TxOK(t) /\ Keeps(tx[w], t) /\ t.todo = tx[w].todo /\ t.out = tx[w].out
        /\ t.phase = "retiring" /\ t.cur = i /\ t.retire = OtherOpen(w, i)
        /\ t.loaded = Loaded(w)
        /\ t.rt = [exists |-> TRUE, last |-> i, quiet |-> 0, base |-> now,
                   version |-> View(w).version + 1]
        /\ t.new = CancelPending(tx[w]).new /\ t.drop = CancelPending(tx[w]).drop
  BY RestartBegun
<1>2. \A j \in Stored : Sent(j) <= now
  BY StoredFacts DEF HeldInv
<1>3. i \in Stored /\ OtherOpen(w, i) \subseteq Stored /\ DOMAIN t.out \subseteq Stored
  BY <1>1 DEF TxOK, OtherOpen
<1>4. RetiresEarlier(tx[w]) /\ rollbacks' \in 0..MaxRollbacks
      /\ \A j \in tx[w].todo : event[j].status \in Open
  BY DEF HeldInv, TypeOK, ClaimedOnce, Held, RestartDialog
<1>5. RetiresEarlier(t)
  BY <1>1, <1>2, <1>3, <1>4 DEF RetiresEarlier, BegunAfter
<1>6. t.todo \cup DOMAIN t.out = Held(w)
  BY <1>1 DEF Held, Handled
<1> QED BY <1>1, <1>4, <1>5, <1>6, TxBatchStep DEF RestartDialog

\* The end of one selected event: it leaves the transaction as it is otherwise.
LEMMA EventRetired ==
  ASSUME TypeOK, NEW w \in Workers, RetireEvent(w)
  PROVE  \E i \in tx[w].retire, t \in Work :
           /\ \A v \in Workers \ {w} : i \notin Held(v)
           /\ i \in Stored /\ i # tx[w].cur
           /\ tx' = [tx EXCEPT ![w] = t]
           /\ TxOK(t) /\ t.todo = tx[w].todo \ {i} /\ DOMAIN t.out = DOMAIN tx[w].out \cup {i}
           /\ t.out[i].status = "processed"
           /\ \A j \in DOMAIN tx[w].out : j # i => t.out[j] = tx[w].out[j]
           /\ tx[w].phase = "retiring" /\ t.phase = "retiring" /\ t.cur = tx[w].cur
           /\ t.retire = tx[w].retire \ {i}
           /\ t.loaded = tx[w].loaded /\ t.rt = tx[w].rt
           /\ t.new = tx[w].new /\ t.drop = tx[w].drop
<1>1. PICK i \in tx[w].retire :
        /\ \A v \in Workers \ {w} : i \notin Held(v)
        /\ tx' = [tx EXCEPT ![w] = [Finish(tx[w], i, "processed", 0) EXCEPT
                   !.phase = "retiring", !.cur = tx[w].cur, !.retire = tx[w].retire \ {i}]]
  BY DEF RetireEvent, TypeOK
<1> DEFINE u == Finish(tx[w], i, "processed", 0)
           t == [u EXCEPT !.phase = "retiring", !.cur = tx[w].cur, !.retire = tx[w].retire \ {i}]
<1>2. /\ tx[w] \in Work /\ TxOK(tx[w]) /\ tx[w].phase = "retiring"
      /\ tx[w].cur \in tx[w].todo /\ tx[w].retire \subseteq Stored \ {tx[w].cur}
  BY ViewType DEF RetireEvent, TxOK
<1>3. i \in Stored /\ i # tx[w].cur /\ 0 \in Times /\ "processed" \in Open \cup Final
  BY <1>2, TurnConstantsOK DEF Times, Final
<1>4. /\ u \in Work /\ TxOK(u)
      /\ u.todo = tx[w].todo \ {i} /\ DOMAIN u.out = DOMAIN tx[w].out \cup {i}
      /\ u.out[i].status = "processed"
      /\ \A j \in DOMAIN tx[w].out : j # i => u.out[j] = tx[w].out[j]
      /\ u.phase = "next" /\ u.batch = {} /\ u.cur = 0
      /\ u.rt = tx[w].rt /\ u.loaded = tx[w].loaded /\ u.new = tx[w].new
      /\ u.drop = tx[w].drop /\ u.retire = tx[w].retire
  BY <1>2, <1>3, FinishAny
<1>5. tx' = [tx EXCEPT ![w] = t]
  BY <1>1
<1> HIDE DEF u
<1>6. /\ t \in Work /\ t.todo = u.todo /\ t.out = u.out /\ t.batch = {}
      /\ t.phase = "retiring" /\ t.cur = tx[w].cur /\ t.retire = tx[w].retire \ {i}
      /\ t.rt = u.rt /\ t.loaded = u.loaded /\ t.new = u.new /\ t.drop = u.drop
  BY <1>2, <1>4 DEF Work, Phases
<1> HIDE DEF t
<1>7. TxOK(t)
  BY <1>2, <1>3, <1>4, <1>6 DEF TxOK
<1>8. /\ t.todo = tx[w].todo \ {i} /\ DOMAIN t.out = DOMAIN tx[w].out \cup {i}
      /\ t.out[i].status = "processed"
      /\ \A j \in DOMAIN tx[w].out : j # i => t.out[j] = tx[w].out[j]
      /\ t.loaded = tx[w].loaded /\ t.rt = tx[w].rt
      /\ t.new = tx[w].new /\ t.drop = tx[w].drop
  BY <1>4, <1>6
<1>9. t \in Work /\ t.phase = "retiring" /\ t.cur = tx[w].cur /\ t.retire = tx[w].retire \ {i}
  BY <1>6
<1>10. \A v \in Workers \ {w} : i \notin Held(v)
  BY <1>1
<1> QED BY <1>2, <1>3, <1>5, <1>7, <1>8, <1>9, <1>10

LEMMA RetireStep ==
  ASSUME HeldInv, NEW w \in Workers, RetireEvent(w)
  PROVE  BatchStep(w)
<1> TypeOK
  BY DEF HeldInv
<1>1. PICK i \in tx[w].retire, t \in Work :
        /\ \A v \in Workers \ {w} : i \notin Held(v)
        /\ tx' = [tx EXCEPT ![w] = t]
        /\ TxOK(t) /\ t.todo = tx[w].todo \ {i} /\ DOMAIN t.out = DOMAIN tx[w].out \cup {i}
        /\ t.out[i].status = "processed"
        /\ \A j \in DOMAIN tx[w].out : j # i => t.out[j] = tx[w].out[j]
        /\ tx[w].phase = "retiring" /\ t.phase = "retiring" /\ t.cur = tx[w].cur
        /\ t.retire = tx[w].retire \ {i} /\ t.rt = tx[w].rt /\ t.new = tx[w].new
  BY EventRetired
<1>2. /\ RetiresEarlier(tx[w]) /\ rollbacks' \in 0..MaxRollbacks
      /\ \A j \in tx[w].todo : event[j].status \in Open
  BY DEF HeldInv, TypeOK, ClaimedOnce, Held, RetireEvent
<1>3. RetiresEarlier(t)
  BY <1>1, <1>2 DEF RetiresEarlier, BegunAfter
<1>4. \A j \in (t.todo \cup DOMAIN t.out) \ Held(w) : j = i
  BY <1>1 DEF Held, Handled
<1> QED BY <1>1, <1>2, <1>3, <1>4, TxBatchStep DEF RetireEvent

\* The end of a restart: its own event is done and the dialog's first message is made.
LEMMA RestartEnds ==
  ASSUME TypeOK, NEW w \in Workers, FinishRestart(w), Sent(tx[w].cur) <= tx[w].rt.base
  PROVE  \E t \in Work, e \in Turn :
           /\ tx' = [tx EXCEPT ![w] = t]
           /\ TxOK(t) /\ Keeps(tx[w], t) /\ t.todo \cup DOMAIN t.out = Held(w)
           /\ t.todo \subseteq tx[w].todo /\ DOMAIN t.out = DOMAIN tx[w].out \cup {tx[w].cur}
           /\ t.out[tx[w].cur].status = "processed"
           /\ tx[w].phase = "retiring" /\ t.phase = "next"
           /\ t.loaded = tx[w].loaded /\ t.rt = tx[w].rt /\ t.drop = tx[w].drop
           /\ t.new = Append(tx[w].new, e) /\ tx[w].new \in Seq(Turn)
           /\ e.seen = tx[w].rt.base /\ e.batch = {} /\ e.reply = "queued"
<1> DEFINE e == [seen |-> tx[w].rt.base, batch |-> {}, at |-> tx[w].at,
                 version |-> tx[w].rt.version, reply |-> "queued"]
           u == Finish(tx[w], tx[w].cur, "processed", 0)
           new == Append(tx[w].new, e)
           t == [u EXCEPT !.new = new]
<1>1. /\ tx[w] \in Work /\ TxOK(tx[w]) /\ tx[w].phase = "retiring"
      /\ tx[w].cur \in tx[w].todo /\ tx[w].cur \in Stored
  BY ViewType DEF FinishRestart, TxOK
<1>2. 0 \in Times /\ "processed" \in Open \cup Final
  BY TurnConstantsOK DEF Times, Final
<1>3. /\ u \in Work /\ TxOK(u) /\ Keeps(tx[w], u) /\ u.todo = tx[w].todo \ {tx[w].cur}
      /\ DOMAIN u.out = DOMAIN tx[w].out \cup {tx[w].cur} /\ u.phase = "next"
      /\ u.rt = tx[w].rt /\ u.loaded = tx[w].loaded /\ u.new = tx[w].new
      /\ u.drop = tx[w].drop
  BY <1>1, <1>2, FinishType
<1>4. u.out[tx[w].cur].status = "processed"
  BY <1>1, <1>2, FinishAny
<1>5. tx[w].rt.base \in Times
  <2>1. tx[w].rt.base \in Times \cup {Never} /\ Sent(tx[w].cur) \in Times
    BY <1>1, StoredFacts DEF Work, Runtime
  <2> QED BY <2>1 DEF Times, Never
<1>6. e \in Turn
  BY <1>1, <1>5 DEF Turn, Work, Runtime
<1>7. tx' = [tx EXCEPT ![w] = t]
  BY DEF FinishRestart
<1>8. e.seen = tx[w].rt.base /\ e.batch = {} /\ e.reply = "queued"
  OBVIOUS
<1>9. tx[w].new \in Seq(Turn)
  BY <1>1 DEF Work
<1> HIDE DEF u, e
<1>10. /\ new \in Seq(Turn) /\ DOMAIN tx[w].new \subseteq DOMAIN new
       /\ \A k \in DOMAIN tx[w].new : new[k] = tx[w].new[k]
  BY <1>6, <1>9, AppendTurn
<1>11. /\ t \in Work /\ TxOK(t) /\ t.todo = u.todo /\ t.out = u.out /\ t.phase = "next"
       /\ t.loaded = u.loaded /\ t.rt = u.rt /\ t.drop = u.drop /\ t.new = new
  BY <1>3, <1>10 DEF Work, TxOK
<1> HIDE DEF t
<1>12. Keeps(tx[w], t) /\ t.todo \cup DOMAIN t.out = Held(w)
  BY <1>1, <1>3, <1>10, <1>11 DEF Keeps, Held, Handled
<1> QED BY <1>1, <1>3, <1>4, <1>6, <1>7, <1>8, <1>9, <1>11, <1>12

LEMMA FinishRestartStep ==
  ASSUME HeldInv, NEW w \in Workers, FinishRestart(w)
  PROVE  BatchStep(w)
<1> TypeOK
  BY DEF HeldInv
<1>1. /\ RetiresEarlier(tx[w]) /\ rollbacks' \in 0..MaxRollbacks
      /\ \A j \in tx[w].todo : event[j].status \in Open
      /\ tx[w].phase = "retiring" /\ tx[w].cur \in tx[w].todo
  BY ViewType DEF HeldInv, TypeOK, ClaimedOnce, Held, FinishRestart, TxOK
<1>2. Sent(tx[w].cur) <= tx[w].rt.base
  BY <1>1 DEF RetiresEarlier
<1>3. PICK t \in Work, e \in Turn :
        /\ tx' = [tx EXCEPT ![w] = t]
        /\ TxOK(t) /\ Keeps(tx[w], t) /\ t.todo \cup DOMAIN t.out = Held(w)
        /\ t.todo \subseteq tx[w].todo /\ DOMAIN t.out = DOMAIN tx[w].out \cup {tx[w].cur}
        /\ t.phase = "next" /\ t.new = Append(tx[w].new, e) /\ tx[w].new \in Seq(Turn)
        /\ e.seen = tx[w].rt.base /\ e.batch = {}
  BY <1>2, RestartEnds
<1>4. PICK k \in DOMAIN t.new : t.new[k] = e
  BY <1>3, AppendTurn
<1>5. RetiresEarlier(t)
  <2>1. ASSUME NEW i \in DOMAIN t.out, event[i].status \in Final
        PROVE  t.out[i].status = "processed" /\ BegunAfter(t, i)
    <3>1. i \in DOMAIN tx[w].out
      BY <1>1, <1>3, <2>1 DEF Open, Final
    <3>2. t.out[i].status = "processed" /\ BegunAfter(tx[w], i)
      BY <1>1, <1>3, <2>1, <3>1 DEF RetiresEarlier, Keeps
    <3>3. CASE Sent(i) <= tx[w].rt.base
      BY <1>3, <1>4, <3>2, <3>3 DEF BegunAfter
    <3>4. CASE \E l \in DOMAIN tx[w].new :
                 tx[w].new[l].batch = {} /\ tx[w].new[l].seen >= Sent(i)
      BY <1>3, <3>2, <3>4 DEF BegunAfter, Keeps
    <3> QED BY <3>2, <3>3, <3>4 DEF BegunAfter
  <2> QED BY <1>3, <2>1 DEF RetiresEarlier
<1> QED BY <1>1, <1>3, <1>5, TxBatchStep DEF FinishRestart

\* What a transaction shows of the runtime row after its update.
LEMMA MergedType ==
  ASSUME NEW row \in Runtime, NEW read \in Runtime, NEW mine \in Runtime
  PROVE  Merged(row, read, mine) \in Runtime
  BY DEF Runtime, Merged, Updated

\* The turns after a commit: the old ones, some of them dropped, then the new ones.
LEMMA CommittedTurns ==
  ASSUME TypeOK, NEW w \in Workers, Commit(w)
  PROVE  /\ turns' \in Seq(Turn) /\ tx[w].new \in Seq(Turn)
         /\ Len(turns') = Len(turns) + Len(tx[w].new)
         /\ DOMAIN turns' = 1..(Len(turns) + Len(tx[w].new))
         /\ \A k \in DOMAIN turns : /\ turns'[k].seen = turns[k].seen
                                    /\ turns'[k].batch = turns[k].batch
                                    /\ turns'[k].reply = IF k \in tx[w].drop THEN "dropped"
                                                         ELSE turns[k].reply
         /\ \A k \in DOMAIN tx[w].new : turns'[Len(turns) + k] = tx[w].new[k]
<1> DEFINE old == [k \in DOMAIN turns |->
                     IF k \in tx[w].drop THEN [turns[k] EXCEPT !.reply = "dropped"]
                     ELSE turns[k]]
<1>1. DOMAIN turns = 1..Len(turns) /\ Len(turns) \in Nat
      /\ \A k \in DOMAIN turns : turns[k] \in Turn
  BY StoredFacts
<1>2. \A r \in Turn : /\ [r EXCEPT !.reply = "dropped"] \in Turn
                      /\ [r EXCEPT !.reply = "dropped"].seen = r.seen
                      /\ [r EXCEPT !.reply = "dropped"].batch = r.batch
                      /\ [r EXCEPT !.reply = "dropped"].reply = "dropped"
  BY DEF Turn
<1>3. old \in [1..Len(turns) -> Turn]
  BY <1>1, <1>2
<1>4. old \in Seq(Turn) /\ Len(old) = Len(turns)
  BY <1>1, <1>3, SeqOf
<1>5. \A k \in DOMAIN turns :
        /\ old[k].seen = turns[k].seen /\ old[k].batch = turns[k].batch
        /\ old[k].reply = IF k \in tx[w].drop THEN "dropped" ELSE turns[k].reply
  BY <1>1, <1>2
<1>6. tx[w].new \in Seq(Turn)
  BY ViewType DEF Work
<1>7. Len(tx[w].new) \in Nat /\ DOMAIN tx[w].new = 1..Len(tx[w].new)
  BY <1>6, LenProperties
<1>8. turns' = old \o tx[w].new
  BY DEF Commit
<1> HIDE DEF old
<1>9. /\ turns' \in Seq(Turn) /\ Len(turns') = Len(turns) + Len(tx[w].new)
      /\ \A k \in 1..(Len(turns) + Len(tx[w].new)) :
           turns'[k] = IF k <= Len(turns) THEN old[k] ELSE tx[w].new[k - Len(turns)]
  <2>1. /\ old \o tx[w].new \in Seq(Turn)
        /\ Len(old \o tx[w].new) = Len(old) + Len(tx[w].new)
        /\ \A k \in 1..Len(old) + Len(tx[w].new) : (old \o tx[w].new)[k] =
             IF k <= Len(old) THEN old[k] ELSE tx[w].new[k - Len(old)]
    BY <1>4, <1>6, ConcatProperties
  <2> QED BY <1>4, <1>8, <2>1
<1>10. DOMAIN turns' = 1..(Len(turns) + Len(tx[w].new))
  BY <1>9, LenProperties
<1>11. \A k \in DOMAIN turns : turns'[k] = old[k]
  BY <1>1, <1>7, <1>9
<1>12. \A k \in DOMAIN tx[w].new : turns'[Len(turns) + k] = tx[w].new[k]
  <2> TAKE k \in DOMAIN tx[w].new
  <2>1. k \in Nat /\ k >= 1 /\ k <= Len(tx[w].new)
    BY <1>7
  <2>2. /\ Len(turns) + k \in 1..(Len(turns) + Len(tx[w].new))
        /\ ~(Len(turns) + k <= Len(turns)) /\ (Len(turns) + k) - Len(turns) = k
    BY <1>1, <1>7, <2>1
  <2> QED BY <1>9, <2>2
<1> QED BY <1>5, <1>6, <1>9, <1>10, <1>11, <1>12

LEMMA CommitStep ==
  ASSUME TypeOK, NEW w \in Workers, Commit(w)
  PROVE  /\ TypeOK'
         /\ tx' = [tx EXCEPT ![w] = Idle]
         /\ \A i \in Stored : event'[i] = ViewEvent(w, i)
         /\ Stored' = Stored
<1>1. UNCHANGED <<now, wrote, page, rollbacks>> /\ tx' = [tx EXCEPT ![w] = Idle]
      /\ event' = [i \in Stored |-> ViewEvent(w, i)]
  BY DEF Commit
<1>2. tx[w] \in Work /\ Handled(w) \subseteq Stored
  BY ViewType DEF TxOK, Handled
<1>3. \A i \in Stored : ViewEvent(w, i) \in Event
  <2>1. tx[w].out \in Outcomes
    BY <1>2 DEF Work
  <2>2. \A i \in Handled(w) : tx[w].out[i] \in Event
    BY <2>1, OutcomesAre DEF Handled
  <2> QED BY <2>2, StoredFacts DEF ViewEvent
<1>4. event' \in Seq(Event) /\ Len(event') = Len(page)
  <2>1. event' \in [1..Len(page) -> Event] /\ Len(page) \in Nat
    BY <1>1, <1>3, StoredFacts
  <2> QED BY <2>1, SeqOf
<1>5. runtime' \in Runtime
  <2>1. tx[w].rt \in Runtime /\ tx[w].loaded \in Runtime /\ runtime \in Runtime
    BY <1>2, ViewType DEF Work
  <2> QED BY <2>1, MergedType DEF Commit
<1>6. tx' \in [Workers -> Work]
  BY <1>1, IdleWork DEF TypeOK
<1>7. \A v \in Workers : TxOK(tx[v])'
  <2> TAKE v \in Workers
  <2>1. DOMAIN turns \subseteq DOMAIN turns'
    <3>1. Len(tx[w].new) \in Nat
      BY CommittedTurns, LenProperties
    <3> QED BY <3>1, CommittedTurns, StoredFacts
  <2>2. Stored' = Stored
    BY <1>1 DEF Stored
  <2>3. CASE v = w
    <3>1. tx'[v] = Idle
      BY <1>1, <2>3 DEF TypeOK
    <3> QED BY <3>1, IdleWork DEF TxOK, Idle
  <2>4. CASE v # w
    <3>1. tx'[v] = tx[v] /\ TxOK(tx[v])
      BY <1>1, <2>4 DEF TypeOK
    <3> QED BY <2>1, <2>2, <3>1 DEF TxOK
  <2> QED BY <2>3, <2>4
<1>8. turns' \in Seq(Turn)
  BY CommittedTurns
<1>9. Stored' = Stored /\ \A i \in Stored : event'[i] = ViewEvent(w, i)
  BY <1>1 DEF Stored
<1> QED BY <1>1, <1>4, <1>5, <1>6, <1>7, <1>8, <1>9 DEF TypeOK

LEMMA RollbackStep ==
  ASSUME TypeOK, NEW w \in Workers, Rollback(w)
  PROVE  BatchStep(w) /\ tx' = [tx EXCEPT ![w] = Idle]
<1>1. rollbacks' \in 0..MaxRollbacks
  BY TurnConstantsOK DEF Rollback, TypeOK
<1>2. Idle \in Work /\ TxOK(Idle) /\ Idle.todo = {} /\ DOMAIN Idle.out = {} /\ Idle.phase = "idle"
  BY IdleWork DEF Idle
<1>3. RetiresEarlier(Idle)
  BY <1>2 DEF RetiresEarlier
<1> QED BY <1>1, <1>2, <1>3, TxBatchStep DEF Rollback

-----------------------------------------------------------------------------
(* The candidate, the poller and the outbound worker.                       *)

LEMMA CandidateStep ==
  ASSUME TypeOK, CandidateWrites
  PROVE  /\ TypeOK'
         /\ Len(wrote') = Len(wrote) + 1
         /\ wrote'[Len(wrote) + 1].sent = now
         /\ \A i \in DOMAIN wrote : wrote'[i] = wrote[i]
         /\ DOMAIN wrote' = 1..(Len(wrote) + 1)
<1>1. PICK text \in {"message", "restart"} :
        wrote' = Append(wrote, [sent |-> now, text |-> text])
  BY DEF CandidateWrites
<1> DEFINE m == [sent |-> now, text |-> text]
<1>2. m \in Message
  BY TurnConstantsOK DEF Message, CandidateWrites, TypeOK, Times
<1>3. wrote \in Seq(Message) /\ Len(wrote) \in Nat /\ DOMAIN wrote = 1..Len(wrote)
  BY StoredFacts DEF TypeOK
<1>4. m.sent = now /\ wrote' = Append(wrote, m)
  BY <1>1
<1> HIDE DEF m
<1>5. /\ wrote' \in Seq(Message) /\ Len(wrote') = Len(wrote) + 1
      /\ wrote'[Len(wrote) + 1] = m
      /\ \A i \in 1..Len(wrote) : wrote'[i] = wrote[i]
  BY <1>2, <1>3, <1>4, AppendProperties
<1>6. DOMAIN wrote' = 1..(Len(wrote) + 1)
  BY <1>5, LenProperties
<1>7. Len(wrote') <= MaxMessages
  BY <1>3, <1>5, TurnConstantsOK DEF CandidateWrites
<1>8. Len(page') <= Len(wrote')
  BY <1>3, <1>5, StoredFacts DEF CandidateWrites, TypeOK
<1>9. \A w \in Workers : TxOK(tx[w])'
  BY DEF CandidateWrites, TypeOK, TxOK, Stored
<1> QED BY <1>3, <1>4, <1>5, <1>6, <1>7, <1>8, <1>9 DEF CandidateWrites, TypeOK

LEMMA PollStep ==
  ASSUME TypeOK, Poll
  PROVE  /\ TypeOK'
         /\ Stored \subseteq Stored' /\ Stored' = DOMAIN wrote
         /\ \A i \in Stored : page'[i] = page[i] /\ event'[i] = event[i]
<1> DEFINE n == Len(wrote)
<1>1. /\ Stored = 1..Len(page) /\ DOMAIN wrote = 1..n /\ n \in Nat /\ n <= MaxMessages
      /\ Len(page) \in Nat /\ Len(page) < n /\ Len(page) + 1 \in Messages
      /\ \A i \in Stored : page[i] \in Messages /\ event[i] \in Event
  BY StoredFacts, TurnConstantsOK DEF Poll, Messages
<1>2. /\ page' = [i \in 1..n |-> IF i \in Stored THEN page[i] ELSE Len(page) + 1]
      /\ event' = [i \in 1..n |-> IF i \in Stored THEN event[i]
                                  ELSE [status |-> "queued", retryAt |-> 0]]
  BY DEF Poll
<1>3. [status |-> "queued", retryAt |-> 0] \in Event
  BY TurnConstantsOK DEF Event, Open, Times
<1>4. page' \in [1..n -> Messages] /\ event' \in [1..n -> Event]
  BY <1>1, <1>2, <1>3
<1>5. /\ page' \in Seq(Messages) /\ Len(page') = n /\ DOMAIN page' = 1..n
      /\ event' \in Seq(Event) /\ Len(event') = n
  BY <1>1, <1>4, SeqOf
<1>6. Stored \subseteq 1..n
  BY <1>1
<1>7. Stored' = 1..n /\ \A i \in Stored : page'[i] = page[i] /\ event'[i] = event[i]
  BY <1>2, <1>5, <1>6 DEF Stored
<1>8. \A w \in Workers : TxOK(tx[w])'
  BY <1>6, <1>7 DEF Poll, TypeOK, TxOK
<1> QED BY <1>1, <1>5, <1>6, <1>7, <1>8 DEF Poll, TypeOK

\* An answer ends: nothing but its outcome changes.
LEMMA AnswerStep ==
  ASSUME TypeOK, NEW k \in DOMAIN turns, Send(k) \/ GiveUp(k)
  PROVE  /\ TypeOK'
         /\ DOMAIN turns' = DOMAIN turns
         /\ \A l \in DOMAIN turns :
              /\ turns'[l].seen = turns[l].seen /\ turns'[l].batch = turns[l].batch
              /\ turns'[l].reply = "queued" => turns[l].reply = "queued"
         /\ UNCHANGED <<now, wrote, page, event, runtime, tx>>
<1>1. PICK reply \in {"sent", "dropped"} :
        turns' = [turns EXCEPT ![k] = [turns[k] EXCEPT !.reply = reply]]
  BY DEF Send, GiveUp
<1> DEFINE e == [turns[k] EXCEPT !.reply = reply]
<1>2. turns[k] \in Turn /\ turns \in Seq(Turn) /\ k \in 1..Len(turns)
      /\ DOMAIN turns = 1..Len(turns)
  BY StoredFacts DEF TypeOK
<1>3. e \in Turn /\ e.seen = turns[k].seen /\ e.batch = turns[k].batch
      /\ e.reply # "queued"
  BY <1>2 DEF Turn
<1>4. turns' = [turns EXCEPT ![k] = e]
  BY <1>1
<1> HIDE DEF e
<1>5. turns' \in Seq(Turn) /\ DOMAIN turns' = DOMAIN turns
  BY <1>2, <1>3, <1>4, ExceptSeq
<1>6. \A l \in DOMAIN turns :
        /\ turns'[l].seen = turns[l].seen /\ turns'[l].batch = turns[l].batch
        /\ turns'[l].reply = "queued" => turns[l].reply = "queued"
  BY <1>3, <1>4
<1>7. UNCHANGED <<now, wrote, page, event, runtime, tx, rollbacks>>
  BY DEF Send, GiveUp
<1>8. \A w \in Workers : TxOK(tx[w])'
  BY <1>5, <1>7 DEF TypeOK, TxOK, Stored
<1> QED BY <1>5, <1>6, <1>7, <1>8 DEF TypeOK

-----------------------------------------------------------------------------
(* Any number of workers: types, one batch per event, finished for good.    *)

\* What happens to the finished events of the state before a step.
KeepsFinished ==
  \A i \in Stored : event[i].status \in Final =>
    \/ event'[i].status = event[i].status
    \/ /\ event[i].status = "failed" /\ event'[i].status = "processed"
       /\ \E k \in DOMAIN turns' \ DOMAIN turns :
            turns'[k].batch = {} /\ turns'[k].seen >= Sent(i)

LEMMA OpenIsNotFinal == Open \cap Final = {}
  BY DEF Open, Final

\* A step that leaves the events, the messages and the other transactions alone.
LEMMA BatchHeld ==
  ASSUME HeldInv, NEW w \in Workers, BatchStep(w)
  PROVE  HeldInv' /\ KeepsFinished
<1>1. /\ TypeOK' /\ UNCHANGED <<now, wrote, page, event>>
      /\ \A v \in Workers \ {w} : tx'[v] = tx[v] /\ Held(v)' = Held(v)
  BY DEF BatchStep, Held, Handled
<1>2. (\A i \in DOMAIN wrote : Sent(i) <= now)'
  BY <1>1 DEF HeldInv, Sent
<1>3. ClaimedOnce'
  <2>1. ASSUME NEW v \in Workers, NEW i \in Held(v)'
        PROVE  /\ i \in tx'[v].todo => event'[i].status \in Open
               /\ \A u \in Workers \ {v} : i \notin Held(u)'
    <3>1. CASE v = w
      <4>1. \A u \in Workers \ {w} : i \notin Held(u)
        BY <2>1, <3>1 DEF BatchStep, HeldInv, ClaimedOnce
      <4> QED BY <1>1, <3>1, <4>1 DEF BatchStep
    <3>2. CASE v # w
      <4>1. i \in Held(v) /\ tx'[v] = tx[v]
        BY <1>1, <2>1, <3>2
      <4>2. /\ i \in tx[v].todo => event[i].status \in Open
            /\ \A u \in Workers \ {v} : i \notin Held(u)
        BY <4>1 DEF HeldInv, ClaimedOnce
      <4>3. i \notin Held(w)'
        BY <3>2, <4>1, <4>2 DEF BatchStep
      <4> QED BY <1>1, <4>1, <4>2, <4>3
    <3> QED BY <3>1, <3>2
  <2> QED BY <2>1 DEF ClaimedOnce
<1>4. \A v \in Workers : RetiresEarlier(tx[v])'
  <2> TAKE v \in Workers
  <2>1. CASE v = w
    BY <2>1 DEF BatchStep
  <2>2. CASE v # w
    <3>1. tx'[v] = tx[v] /\ RetiresEarlier(tx[v])
      BY <1>1, <2>2 DEF HeldInv
    <3> QED BY <1>1, <3>1 DEF RetiresEarlier, BegunAfter, Sent
  <2> QED BY <2>1, <2>2
<1> QED BY <1>1, <1>2, <1>3, <1>4 DEF HeldInv, KeepsFinished, BatchStep

\* A step of the candidate, the clock, the poller or the outbound worker.
LEMMA OutsideHeld ==
  ASSUME HeldInv, TypeOK', UNCHANGED tx,
         \A i \in DOMAIN wrote : Sent(i)' = Sent(i),
         \A i \in DOMAIN wrote' : Sent(i)' <= now',
         \A i \in Stored : event'[i] = event[i]
  PROVE  HeldInv' /\ KeepsFinished
<1>1. TypeOK /\ Stored \subseteq DOMAIN wrote
  BY StoredFacts DEF HeldInv
<1>2. \A v \in Workers : TxOK(tx[v]) /\ Held(v)' = Held(v) /\ Held(v) \subseteq Stored
  BY <1>1 DEF Held, Handled, TypeOK, TxOK
<1>3. ClaimedOnce'
  BY <1>2 DEF HeldInv, ClaimedOnce
<1>4. ASSUME NEW v \in Workers
      PROVE  RetiresEarlier(tx[v])'
  <2>1. RetiresEarlier(tx[v]) /\ TxOK(tx[v]) /\ tx'[v] = tx[v]
    BY <1>2 DEF HeldInv
  <2>2. /\ tx[v].phase = "retiring" =>
             \A i \in tx[v].retire \cup {tx[v].cur} : Sent(i)' = Sent(i)
        /\ \A i \in DOMAIN tx[v].out : Sent(i)' = Sent(i) /\ event'[i] = event[i]
    BY <1>1, <2>1 DEF TxOK
  <2> QED BY <2>1, <2>2 DEF RetiresEarlier, BegunAfter
<1>5. KeepsFinished
  BY DEF KeepsFinished
<1> QED BY <1>3, <1>4, <1>5 DEF HeldInv

\* A commit: what it writes over a finished event, it writes with the first message of
\* a restart.
LEMMA CommitHeld ==
  ASSUME HeldInv, NEW w \in Workers, Commit(w)
  PROVE  HeldInv' /\ KeepsFinished
<1> TypeOK
  BY DEF HeldInv
<1>1. /\ TypeOK' /\ tx' = [tx EXCEPT ![w] = Idle] /\ UNCHANGED <<now, wrote, page>>
      /\ \A i \in Stored : event'[i] = ViewEvent(w, i)
      /\ Stored' = Stored
  BY CommitStep DEF Commit
<1>2. tx'[w] = Idle /\ \A v \in Workers \ {w} : tx'[v] = tx[v]
  BY <1>1 DEF TypeOK
<1>3. Held(w)' = {} /\ \A v \in Workers \ {w} : Held(v)' = Held(v)
  BY <1>2, IdleWork DEF Held, Handled, Idle
<1>4. \A i \in Stored \ Held(w) : event'[i] = event[i]
  BY <1>1 DEF ViewEvent, Held
<1>5. \A v \in Workers : Held(v) \subseteq Stored
  BY DEF TypeOK, TxOK, Held, Handled
<1>6. ClaimedOnce'
  BY <1>2, <1>3, <1>4, <1>5 DEF HeldInv, ClaimedOnce
<1>7. ASSUME NEW v \in Workers
      PROVE  RetiresEarlier(tx[v])'
  <2>1. CASE v = w
    BY <1>2, <2>1, IdleWork DEF RetiresEarlier, Idle
  <2>2. CASE v # w
    <3>1. tx'[v] = tx[v] /\ RetiresEarlier(tx[v])
      BY <1>2, <2>2 DEF HeldInv
    <3>2. \A i \in DOMAIN tx[v].out : i \in Stored /\ i \notin Held(w)
      BY <1>5, <2>2 DEF HeldInv, ClaimedOnce, Held, Handled
    <3>3. \A i \in DOMAIN tx[v].out : event'[i] = event[i]
      BY <1>4, <3>2
    <3> QED BY <1>1, <3>1, <3>3 DEF RetiresEarlier, BegunAfter, Sent
  <2> QED BY <2>1, <2>2
<1>8. ASSUME NEW i \in Stored, event[i].status \in Final, event'[i].status # event[i].status
      PROVE  /\ event[i].status = "failed" /\ event'[i].status = "processed"
             /\ \E k \in DOMAIN turns' \ DOMAIN turns :
                  turns'[k].batch = {} /\ turns'[k].seen >= Sent(i)
  <2>1. i \in DOMAIN tx[w].out /\ event'[i] = tx[w].out[i]
    BY <1>1, <1>8 DEF ViewEvent, Handled
  <2>2. event'[i].status = "processed" /\ BegunAfter(tx[w], i)
    BY <1>8, <2>1 DEF HeldInv, RetiresEarlier
  <2>3. PICK l \in DOMAIN tx[w].new : tx[w].new[l].batch = {} /\ tx[w].new[l].seen >= Sent(i)
    BY <2>2 DEF BegunAfter, Commit
  <2>4. l \in 1..Len(tx[w].new) /\ Len(tx[w].new) \in Nat /\ DOMAIN turns = 1..Len(turns)
        /\ Len(turns) \in Nat
    BY <2>3, CommittedTurns, LenProperties, StoredFacts
  <2>5. Len(turns) + l \in DOMAIN turns' \ DOMAIN turns
    BY <2>4, CommittedTurns
  <2>6. turns'[Len(turns) + l].batch = {} /\ turns'[Len(turns) + l].seen >= Sent(i)
    BY <2>3, CommittedTurns
  <2> QED BY <1>8, <2>2, <2>5, <2>6 DEF Final
<1>9. (\A i \in DOMAIN wrote : Sent(i) <= now)'
  BY <1>1 DEF HeldInv, Sent
<1> QED BY <1>1, <1>6, <1>7, <1>8, <1>9 DEF HeldInv, KeepsFinished

LEMMA HeldStep ==
  ASSUME HeldInv, [Next]_vars
  PROVE  HeldInv' /\ KeepsFinished
<1> TypeOK /\ DOMAIN wrote = 1..Len(wrote) /\ now \in Times /\ Len(wrote) \in Nat
  BY StoredFacts DEF HeldInv, TypeOK
<1>1. ASSUME CandidateWrites PROVE HeldInv' /\ KeepsFinished
  <2>1. /\ TypeOK' /\ UNCHANGED <<now, event, tx>>
        /\ wrote'[Len(wrote) + 1].sent = now
        /\ \A i \in DOMAIN wrote : wrote'[i] = wrote[i]
        /\ DOMAIN wrote' = 1..(Len(wrote) + 1)
    BY <1>1, CandidateStep DEF CandidateWrites
  <2>2. \A i \in DOMAIN wrote : Sent(i)' = Sent(i)
    BY <2>1 DEF Sent
  <2>3. ASSUME NEW i \in DOMAIN wrote' PROVE Sent(i)' <= now'
    <3>1. CASE i \in DOMAIN wrote
      BY <2>1, <2>2, <3>1 DEF HeldInv
    <3>2. CASE i = Len(wrote) + 1
      BY <2>1, <3>2 DEF Sent, Times
    <3> QED BY <2>1, <3>1, <3>2
  <2> QED BY <2>1, <2>2, <2>3, OutsideHeld
<1>2. ASSUME Tick PROVE HeldInv' /\ KeepsFinished
  <2>1. now' \in Times /\ now' = now + 1
    BY <1>2, TurnConstantsOK DEF Tick, TypeOK, Times
  <2>2. \A w \in Workers : TxOK(tx[w])'
    BY <1>2 DEF Tick, TypeOK, TxOK, Stored
  <2>3. TypeOK' /\ UNCHANGED <<wrote, event, tx>>
    BY <1>2, <2>1, <2>2 DEF Tick, TypeOK
  <2>4. \A i \in DOMAIN wrote : Sent(i)' = Sent(i) /\ Sent(i) \in Times /\ Sent(i) <= now
    BY <2>3, StoredFacts DEF Sent, HeldInv
  <2>5. \A i \in DOMAIN wrote' : Sent(i)' <= now'
    BY <2>1, <2>3, <2>4 DEF Times
  <2> QED BY <2>3, <2>4, <2>5, OutsideHeld
<1>3. ASSUME Poll PROVE HeldInv' /\ KeepsFinished
  <2>1. TypeOK' /\ UNCHANGED <<now, wrote, tx>> /\ \A i \in Stored : event'[i] = event[i]
    BY <1>3, PollStep DEF Poll
  <2>2. /\ \A i \in DOMAIN wrote : Sent(i)' = Sent(i)
        /\ \A i \in DOMAIN wrote' : Sent(i)' <= now'
    BY <2>1 DEF Sent, HeldInv
  <2> QED BY <2>1, <2>2, OutsideHeld
<1>4. ASSUME NEW w \in Workers, BatchStep(w)
      PROVE  HeldInv' /\ KeepsFinished
  BY <1>4, BatchHeld
<1>5. ASSUME NEW w \in Workers, Commit(w)
      PROVE  HeldInv' /\ KeepsFinished
  BY <1>5, CommitHeld
<1>6. ASSUME NEW k \in DOMAIN turns, Send(k) \/ GiveUp(k)
      PROVE  HeldInv' /\ KeepsFinished
  <2>1. TypeOK' /\ UNCHANGED <<now, wrote, page, event, tx>>
    BY <1>6, AnswerStep
  <2>2. /\ \A i \in DOMAIN wrote : Sent(i)' = Sent(i)
        /\ \A i \in DOMAIN wrote' : Sent(i)' <= now'
    BY <2>1 DEF Sent, HeldInv
  <2> QED BY <2>1, <2>2, OutsideHeld
<1>7. ASSUME UNCHANGED vars
      PROVE  HeldInv' /\ KeepsFinished
  <2>1. TypeOK' /\ UNCHANGED <<now, wrote, page, event, tx>>
    BY <1>7 DEF vars, TypeOK, TxOK, Stored
  <2>2. /\ \A i \in DOMAIN wrote : Sent(i)' = Sent(i)
        /\ \A i \in DOMAIN wrote' : Sent(i)' <= now'
    BY <2>1 DEF Sent, HeldInv
  <2> QED BY <2>1, <2>2, OutsideHeld
<1>8. ASSUME NEW w \in Workers, Claim(w) \/ EmptyBatch(w) \/ WorkerStep(w) \/ Rollback(w)
      PROVE  HeldInv' /\ KeepsFinished
  BY <1>4, <1>5, <1>7, <1>8, ClaimStep, DismissStep, DeferStep, StartTurnStep, RestartStep,
     RetireStep, FinishRestartStep, ReadBatchStep, SupersedeStep, DecideStep, FailStep,
     RollbackStep
     DEF EmptyBatch, WorkerStep
<1> QED BY <1>1, <1>2, <1>3, <1>6, <1>7, <1>8 DEF Next

LEMMA HeldInit ==
  ASSUME Init
  PROVE  HeldInv
<1>1. /\ wrote \in Seq(Message) /\ Len(wrote) = 0 /\ page \in Seq(Messages) /\ Len(page) = 0
      /\ event \in Seq(Event) /\ Len(event) = 0 /\ turns \in Seq(Turn)
  BY EmptySeq DEF Init
<1>2. now \in Times /\ rollbacks \in 0..MaxRollbacks /\ 0 <= MaxMessages
  BY TurnConstantsOK DEF Init, Times
<1>3. NoOutcome \in Outcomes /\ DOMAIN NoOutcome = {}
  <2>1. NoOutcome \in [{} -> Event] /\ DOMAIN NoOutcome = {}
    BY DEF NoOutcome
  <2> QED BY <2>1 DEF Outcomes
<1>4. NoRuntime \in Runtime
  BY TurnConstantsOK DEF NoRuntime, Runtime, Times, Never
<1>5. Idle \in Work
  BY <1>3, <1>4, TurnConstantsOK, EmptySeq DEF Idle, Work, Phases, Times
<1>6. \A w \in Workers : tx[w] = Idle
  BY DEF Init
<1>7. \A w \in Workers : TxOK(tx[w]) /\ Held(w) = {}
  BY <1>3, <1>6 DEF TxOK, Held, Handled, Idle
<1>8. TypeOK
  BY <1>1, <1>2, <1>4, <1>5, <1>7 DEF Init, TypeOK
<1>9. DOMAIN wrote = {} /\ \A w \in Workers : RetiresEarlier(tx[w])
  BY <1>3, <1>6 DEF Init, RetiresEarlier, Idle
<1> QED BY <1>7, <1>8, <1>9 DEF HeldInv, ClaimedOnce

\* With any number of workers the types hold, every event still to do is open and no
\* event is in two batches: SELECT ... FOR UPDATE SKIP LOCKED together with the row locks
\* that a restart waits for.
THEOREM TypesAndClaims == Spec => [](TypeOK /\ ClaimedOnce)
<1>1. Init => HeldInv
  BY HeldInit
<1>2. HeldInv /\ [Next]_vars => HeldInv'
  BY HeldStep
<1>3. HeldInv => TypeOK /\ ClaimedOnce
  BY DEF HeldInv
<1> QED BY <1>1, <1>2, <1>3, PTL DEF Spec

\* Whatever restarts, retries and rollbacks there are, the outcome of a finished event
\* stays; only a failure may become 'processed', by the commit of a restart that begins
\* the dialog anew after the message.
THEOREM FinishedStays == Spec => FinishedForGood
<1>1. HeldInv /\ [Next]_vars =>
        [\A i \in Stored : event[i].status \in Final =>
           \/ event'[i].status = event[i].status
           \/ /\ event[i].status = "failed" /\ event'[i].status = "processed"
              /\ \E k \in DOMAIN turns' \ DOMAIN turns :
                   turns'[k].batch = {} /\ turns'[k].seen >= Sent(i)]_vars
  BY HeldStep DEF KeepsFinished
<1>2. Init => HeldInv
  BY HeldInit
<1>3. HeldInv /\ [Next]_vars => HeldInv'
  BY HeldStep
<1> QED BY <1>1, <1>2, <1>3, PTL DEF Spec, FinishedForGood

-----------------------------------------------------------------------------
(* One worker, and never two messages of a candidate in one second: turns   *)
(* move forward.                                                            *)

OneWorker == \A v, w \in Workers : v = w

\* Everything that was ever seen lies in the past.
LEMMA SeenInThePast ==
  ASSUME TypeOK, MessagesOrdered, NEW r \in Runtime, RowOK(r), NEW seen \in Times,
         SeenBy(r, seen)
  PROVE  seen <= now
<1>1. now \in Int /\ seen \in Int /\ r.base \in Int
  BY DEF TypeOK, Times, Runtime, Never
<1>2. CASE seen <= r.base
  BY <1>1, <1>2 DEF RowOK
<1>3. CASE r.last # 0 /\ seen <= Sent(r.last)
  <2>1. r.last \in Stored /\ r.last \in DOMAIN wrote
    BY <1>3, StoredFacts DEF RowOK
  <2>2. Sent(r.last) \in Times /\ Sent(r.last) <= now
    BY <2>1, StoredFacts DEF MessagesOrdered
  <2> QED BY <1>1, <1>3, <2>2 DEF Times
<1> QED BY <1>2, <1>3 DEF SeenBy

\* A message that is not for a turn that was made is later than all that was seen.
LEMMA NewToTheRuntime ==
  ASSUME TypeOK, MessagesOrdered, NEW r \in Runtime, RowOK(r), r.exists,
         NEW i \in Stored, Latest(i), ~NotForThisTurn(r, i, i),
         NEW seen \in Times, SeenBy(r, seen)
  PROVE  seen < Sent(i)
<1>1. i \in DOMAIN wrote /\ Sent(i) \in Times /\ Sent(i) \in Int /\ seen \in Int
  BY StoredFacts DEF Times
<1>2. r.last # i /\ ~(Sent(i) <= r.base) /\ r.base \in Int
  BY DEF NotForThisTurn, Runtime, Times, Never
<1>3. CASE seen <= r.base
  BY <1>1, <1>2, <1>3
<1>4. CASE r.last # 0 /\ seen <= Sent(r.last)
  <2>1. r.last \in Stored /\ r.last \in DOMAIN wrote /\ Sent(r.last) \in Int
    BY <1>4, StoredFacts DEF RowOK, Times
  <2>2. ~(Sent(i) < Sent(r.last))
    BY <2>1 DEF Latest, Before
  <2>3. Sent(i) # Sent(r.last)
    <3>1. i \in Int /\ r.last \in Int
      BY <1>1, <2>1, StoredFacts
    <3>2. i < r.last \/ r.last < i
      BY <1>2, <3>1
    <3>3. /\ i < r.last => Sent(i) < Sent(r.last)
          /\ r.last < i => Sent(r.last) < Sent(i)
      BY <1>1, <2>1 DEF MessagesOrdered
    <3> QED BY <1>1, <2>1, <3>2, <3>3
  <2> QED BY <1>1, <1>4, <2>1, <2>2, <2>3
<1> QED BY <1>3, <1>4 DEF SeenBy

\* The view of a transaction remembers all turns, committed and its own.
LEMMA ViewRemembers ==
  ASSUME IInv, NEW w \in Workers
  PROVE  /\ View(w) \in Runtime /\ RowOK(View(w))
         /\ Loaded(w) = runtime
         /\ Remembers(View(w), turns) /\ Remembers(View(w), tx[w].new)
         /\ tx[w] \in Work /\ TxOK(tx[w])
<1>1. WorkInOrder(tx[w]) /\ RowOK(runtime) /\ Remembers(runtime, turns) /\ TypeOK
  BY DEF IInv, HeldInv
<1>2. View(w) \in Runtime /\ tx[w] \in Work /\ TxOK(tx[w])
  BY <1>1, ViewType
<1>3. CASE tx[w].rt.exists
  BY <1>1, <1>2, <1>3 DEF View, Loaded, WorkInOrder
<1>4. CASE ~tx[w].rt.exists
  <2>1. DOMAIN tx[w].new = {}
    BY <1>1, <1>4 DEF WorkInOrder, Remembers
  <2> QED BY <1>1, <1>2, <1>4, <2>1 DEF View, Loaded, Remembers
<1> QED BY <1>3, <1>4

\* A worker's step that leaves its work in order keeps the invariant.
LEMMA OneStep ==
  ASSUME IInv, OneWorker, NEW w \in Workers, NEW t, WorkInOrder(t),
         HeldInv', tx'[w] = t,
         UNCHANGED <<now, wrote, page, event, runtime, turns>>
  PROVE  IInv'
<1>1. \A v \in Workers : WorkInOrder(tx[v])'
  <2> TAKE v \in Workers
  <2>1. tx'[v] = t
    BY DEF OneWorker
  <2> QED BY <2>1 DEF WorkInOrder, RowOK, Stored, Remembers, SeenBy, Sent, NewAfterOld,
                      InOrder
<1>2. /\ MessagesOrdered' /\ RowOK(runtime)' /\ Remembers(runtime, turns)'
      /\ TurnsMoveForward'
  BY DEF IInv, HeldInv, MessagesOrdered, RowOK, Stored, Remembers, SeenBy, Sent, TurnsMoveForward,
         InOrder
<1> QED BY <1>1, <1>2 DEF IInv, HeldInv

\* Work with the same order of turns and a row that remembers as much.
LEMMA SameOrder ==
  ASSUME NEW t, NEW u, InOrder(t.new), NewAfterOld(turns, t.new),
         DOMAIN u.new = DOMAIN t.new,
         \A k \in DOMAIN t.new : /\ u.new[k].seen = t.new[k].seen
                                 /\ u.new[k].batch = t.new[k].batch
  PROVE  InOrder(u.new) /\ NewAfterOld(turns, u.new)
  BY DEF InOrder, NewAfterOld

LEMMA DismissOrder ==
  ASSUME IInv, OneWorker, NEW w \in Workers, Dismiss(w)
  PROVE  IInv'
<1>1. PICK i \in tx[w].todo :
        tx' = [tx EXCEPT ![w] = [Finish(tx[w], i, "processed", 0)
                                  EXCEPT !.loaded = Loaded(w), !.rt = View(w)]]
  BY DEF Dismiss, IInv, HeldInv, TypeOK
<1> DEFINE t == [Finish(tx[w], i, "processed", 0) EXCEPT !.loaded = Loaded(w), !.rt = View(w)]
<1>2. HeldInv' /\ TypeOK /\ WorkInOrder(tx[w])
  BY HeldStep DEF IInv, HeldInv, Next, WorkerStep
<1>3. tx'[w] = t
  BY <1>1, <1>2 DEF TypeOK
<1>4. t.phase = "next" /\ t.rt = View(w) /\ t.loaded = Loaded(w) /\ t.new = tx[w].new
  <2>1. DOMAIN tx[w] = {"phase", "at", "todo", "cur", "batch", "upto", "retire", "loaded", "rt",
                        "out", "drop", "new"}
    BY ViewRemembers DEF Work
  <2> QED BY <2>1 DEF Finish
<1> HIDE DEF t
<1>5. WorkInOrder(t)
  BY <1>2, <1>4, ViewRemembers DEF WorkInOrder
<1> QED BY <1>2, <1>3, <1>5, OneStep DEF Dismiss

\* After an accepted event the transaction's row remembers what the view remembered.
LEMMA PreparedOrder ==
  ASSUME IInv, NEW w \in Workers, NEW i \in tx[w].todo
  PROVE  LET t == Prepared(w, i)
         IN /\ t \in Work /\ TxOK(t) /\ t.todo = tx[w].todo
            /\ RowOK(t.rt) /\ t.loaded = runtime
            /\ t.rt.exists => Remembers(t.rt, turns)
            /\ ~t.rt.exists => ~View(w).exists
            /\ InOrder(t.new) /\ NewAfterOld(turns, t.new) /\ Remembers(t.rt, t.new)
            /\ DOMAIN t.new = DOMAIN tx[w].new
            /\ \A k \in DOMAIN t.new : t.new[k].seen = tx[w].new[k].seen
<1> DEFINE t == Prepared(w, i)
<1>1. TypeOK /\ WorkInOrder(tx[w])
  BY DEF IInv, HeldInv
<1>2. /\ t \in Work /\ TxOK(t) /\ t.todo = tx[w].todo /\ t.loaded = Loaded(w)
      /\ t.rt = IF View(w).exists THEN [View(w) EXCEPT !.quiet = QuietUntil(i)]
                ELSE NoRuntime
      /\ DOMAIN t.new = DOMAIN tx[w].new
      /\ \A k \in DOMAIN t.new : /\ t.new[k].seen = tx[w].new[k].seen
                                 /\ t.new[k].batch = tx[w].new[k].batch
  BY <1>1, PreparedType
<1>3. /\ View(w) \in Runtime /\ RowOK(View(w)) /\ Loaded(w) = runtime
      /\ Remembers(View(w), turns) /\ Remembers(View(w), tx[w].new)
  BY ViewRemembers
<1> HIDE DEF t
<1>4. InOrder(t.new) /\ NewAfterOld(turns, t.new)
  BY <1>1, <1>2, SameOrder DEF WorkInOrder
<1>5. CASE View(w).exists
  <2>1. t.rt.exists /\ t.rt.last = View(w).last /\ t.rt.base = View(w).base
    BY <1>2, <1>3, <1>5 DEF Runtime
  <2> QED BY <1>2, <1>3, <1>4, <1>5, <2>1 DEF RowOK, Remembers, SeenBy, t
<1>6. CASE ~View(w).exists
  <2>1. t.rt = NoRuntime /\ ~t.rt.exists /\ RowOK(NoRuntime)
    BY <1>1, <1>2, <1>6 DEF NoRuntime, RowOK, TypeOK, Times, Never
  <2>2. DOMAIN tx[w].new = {}
    BY <1>3, <1>6 DEF Remembers
  <2> QED BY <1>2, <1>3, <1>4, <1>6, <2>1, <2>2 DEF Remembers, t
<1> QED BY <1>5, <1>6

LEMMA DeferOrder ==
  ASSUME IInv, OneWorker, NEW w \in Workers, Defer(w)
  PROVE  IInv'
<1>1. PICK i \in tx[w].todo :
        tx' = [tx EXCEPT ![w] = Finish(Prepared(w, i), i, "retry", QuietUntil(i))]
  BY DEF Defer, Deferred
<1> DEFINE u == Prepared(w, i)
           t == Finish(u, i, "retry", QuietUntil(i))
<1>2. HeldInv' /\ TypeOK
  BY HeldStep DEF IInv, HeldInv, Next, WorkerStep
<1>3. /\ u \in Work /\ TxOK(u) /\ u.todo = tx[w].todo
      /\ RowOK(u.rt) /\ u.loaded = runtime
      /\ u.rt.exists => Remembers(u.rt, turns)
      /\ InOrder(u.new) /\ NewAfterOld(turns, u.new) /\ Remembers(u.rt, u.new)
  BY PreparedOrder
<1>4. tx'[w] = t
  BY <1>1, <1>2 DEF TypeOK
<1> HIDE DEF u
<1>5. t.phase = "next" /\ t.rt = u.rt /\ t.loaded = u.loaded /\ t.new = u.new
  <2>1. "retry" \in Open \cup Final /\ QuietUntil(i) \in Times
    BY <1>2, ViewType, StoredFacts DEF TxOK, Open
  <2> QED BY <1>2, <1>3, <2>1, FinishType
<1> HIDE DEF t
<1>6. WorkInOrder(t)
  BY <1>3, <1>5 DEF WorkInOrder
<1> QED BY <1>2, <1>4, <1>6, OneStep DEF Defer

LEMMA StartTurnOrder ==
  ASSUME IInv, OneWorker, NEW w \in Workers, StartTurn(w)
  PROVE  IInv'
<1>1. PICK i \in tx[w].todo :
        /\ Accepts(w, i)
        /\ tx' = [tx EXCEPT ![w] = [Prepared(w, i) EXCEPT !.phase = "ready", !.cur = i]]
  BY DEF StartTurn
<1> DEFINE u == Prepared(w, i)
           t == [u EXCEPT !.phase = "ready", !.cur = i]
<1>2. HeldInv' /\ TypeOK /\ MessagesOrdered
  BY HeldStep DEF IInv, HeldInv, Next, WorkerStep
<1>3. /\ u \in Work
      /\ RowOK(u.rt) /\ u.loaded = runtime
      /\ u.rt.exists => Remembers(u.rt, turns)
      /\ InOrder(u.new) /\ NewAfterOld(turns, u.new) /\ Remembers(u.rt, u.new)
      /\ DOMAIN u.new = DOMAIN tx[w].new
      /\ \A k \in DOMAIN u.new : u.new[k].seen = tx[w].new[k].seen
  BY PreparedOrder
<1>4. tx'[w] = t
  BY <1>1, <1>2 DEF TypeOK
<1> HIDE DEF u
<1>5. /\ t.phase = "ready" /\ t.cur = i /\ t.rt = u.rt /\ t.loaded = u.loaded
      /\ t.new = u.new
  BY <1>3 DEF Work
<1>6. /\ View(w) \in Runtime /\ RowOK(View(w)) /\ i \in Stored
      /\ Remembers(View(w), turns) /\ Remembers(View(w), tx[w].new)
  BY ViewRemembers DEF TxOK
<1>7. \A k \in DOMAIN turns : turns[k].seen \in Times
  BY <1>2, StoredFacts DEF Turn
<1>8. \A k \in DOMAIN tx[w].new : tx[w].new[k].seen \in Times
  <2>1. tx[w].new \in Seq(Turn)
    BY ViewRemembers DEF Work
  <2>2. \A k \in DOMAIN tx[w].new : tx[w].new[k] \in Turn
    BY <2>1, LenProperties, ElementOfSeq
  <2> QED BY <2>2 DEF Turn
<1>9. \A k \in DOMAIN turns : turns[k].seen < Sent(i)
  BY <1>1, <1>2, <1>6, <1>7, NewToTheRuntime DEF Accepts, Remembers
<1>10. \A k \in DOMAIN tx[w].new : tx[w].new[k].seen < Sent(i)
  BY <1>1, <1>2, <1>6, <1>8, NewToTheRuntime DEF Accepts, Remembers
<1> HIDE DEF t
<1>11. WorkInOrder(t)
  BY <1>3, <1>5, <1>9, <1>10 DEF WorkInOrder
<1> QED BY <1>2, <1>4, <1>11, OneStep DEF StartTurn

LEMMA ReadBatchOrder ==
  ASSUME IInv, OneWorker, NEW w \in Workers, ReadBatch(w)
  PROVE  IInv'
<1>1. PICK batch \in SUBSET Messages, p \in Messages :
        tx' = [tx EXCEPT ![w] = [tx[w] EXCEPT !.phase = "thinking", !.batch = batch,
                 !.upto = p, !.loaded = Loaded(w),
                 !.rt = [View(w) EXCEPT !.exists = TRUE]]]
  <2>1. PICK S \in SUBSET SinceLastOutbound :
          \E p \in Newest(IF S = {} THEN {tx[w].cur} ELSE S) :
            tx' = [tx EXCEPT ![w] = [tx[w] EXCEPT !.phase = "thinking",
                     !.batch = IF S = {} THEN {tx[w].cur} ELSE S,
                     !.upto = p, !.loaded = Loaded(w),
                     !.rt = [View(w) EXCEPT !.exists = TRUE]]]
    BY DEF ReadBatch, IInv, HeldInv, TypeOK
  <2>2. tx[w].cur \in Messages /\ S \subseteq Messages
    BY ViewRemembers, StoredFacts DEF ReadBatch, TxOK, IInv, HeldInv, SinceLastOutbound
  <2>3. Newest(IF S = {} THEN {tx[w].cur} ELSE S) \subseteq Messages
    BY <2>2 DEF Newest
  <2> QED BY <2>1, <2>2, <2>3
<1> DEFINE r == [View(w) EXCEPT !.exists = TRUE]
           t == [tx[w] EXCEPT !.phase = "thinking", !.batch = batch, !.upto = p,
                              !.loaded = Loaded(w), !.rt = r]
<1>2. HeldInv' /\ TypeOK /\ WorkInOrder(tx[w])
  BY HeldStep DEF IInv, HeldInv, Next, WorkerStep
<1>3. /\ View(w) \in Runtime /\ RowOK(View(w)) /\ Loaded(w) = runtime /\ tx[w] \in Work
      /\ Remembers(View(w), turns) /\ Remembers(View(w), tx[w].new)
  BY ViewRemembers
<1>4. r.exists /\ r.last = View(w).last /\ r.base = View(w).base
  BY <1>3 DEF Runtime
<1> HIDE DEF r
<1>5. RowOK(r) /\ Remembers(r, turns) /\ Remembers(r, tx[w].new)
  BY <1>3, <1>4 DEF RowOK, Remembers, SeenBy
<1>6. /\ t.phase = "thinking" /\ t.rt = r /\ t.loaded = Loaded(w)
      /\ t.new = tx[w].new /\ t.cur = tx[w].cur
  BY <1>3 DEF Work
<1>7. tx'[w] = t
  BY <1>1, <1>2 DEF TypeOK, r
<1>8. tx[w].phase = "ready"
  BY DEF ReadBatch
<1> HIDE DEF t
<1>9. WorkInOrder(t)
  BY <1>2, <1>3, <1>4, <1>5, <1>6, <1>8 DEF WorkInOrder
<1> QED BY <1>2, <1>7, <1>9, OneStep DEF ReadBatch

LEMMA NoTurnOrder ==
  ASSUME IInv, OneWorker, NEW w \in Workers, Supersede(w) \/ TurnFails(w)
  PROVE  IInv'
<1>1. HeldInv' /\ TypeOK /\ WorkInOrder(tx[w]) /\ tx[w] \in Work
      /\ TxOK(tx[w]) /\ tx[w].cur \in tx[w].todo /\ 0 \in Times
  BY HeldStep, ViewRemembers, TurnConstantsOK
  DEF IInv, HeldInv, Next, WorkerStep, TxOK, Supersede, TurnFails, Times
<1>2. PICK status \in Final, r \in Runtime :
        /\ tx' = [tx EXCEPT ![w] = [Finish(tx[w], tx[w].cur, status, 0) EXCEPT !.rt = r]]
        /\ r.exists = tx[w].rt.exists /\ r.last = tx[w].rt.last /\ r.base = tx[w].rt.base
        /\ r.exists = FALSE => r = tx[w].rt
  <2>1. tx[w].rt \in Runtime
    BY <1>1 DEF Work
  <2>2. CASE Supersede(w)
    <3> DEFINE r == [tx[w].rt EXCEPT !.version = tx[w].rt.version + 1]
    <3>1. tx[w].rt.version + 1 \in Nat
      BY <2>1 DEF Runtime
    <3>2. r \in Runtime /\ r.exists = tx[w].rt.exists /\ r.last = tx[w].rt.last
          /\ r.base = tx[w].rt.base
      BY <2>1, <3>1 DEF Runtime
    <3>3. tx[w].rt.exists
      BY <1>1, <2>2 DEF Supersede, WorkInOrder
    <3>4. tx' = [tx EXCEPT ![w] = [Finish(tx[w], tx[w].cur, "processed", 0) EXCEPT !.rt = r]]
      BY <2>2 DEF Supersede
    <3>5. "processed" \in Final
      BY DEF Final
    <3> HIDE DEF r
    <3> QED BY <3>2, <3>3, <3>4, <3>5
  <2>3. CASE TurnFails(w)
    <3>1. tx' = [tx EXCEPT ![w] = Finish(tx[w], tx[w].cur, "failed", 0)]
      BY <2>3 DEF TurnFails, IInv, HeldInv, TypeOK
    <3>2. "failed" \in Final
      BY DEF Final
    <3> DEFINE u == Finish(tx[w], tx[w].cur, "failed", 0)
    <3>3. u \in Work /\ u.rt = tx[w].rt
      BY <1>1, <3>2, FinishType
    <3>4. tx' = [tx EXCEPT ![w] = u]
      BY <3>1
    <3> HIDE DEF u
    <3>5. u = [u EXCEPT !.rt = tx[w].rt]
      BY <3>3 DEF Work
    <3>6. tx' = [tx EXCEPT ![w] = [Finish(tx[w], tx[w].cur, "failed", 0)
                                    EXCEPT !.rt = tx[w].rt]]
      BY <3>4, <3>5 DEF u
    <3> QED BY <2>1, <3>2, <3>6
  <2> QED BY <2>2, <2>3
<1> DEFINE u == Finish(tx[w], tx[w].cur, status, 0)
           t == [u EXCEPT !.rt = r]
<1>3. /\ u \in Work /\ u.phase = "next" /\ u.loaded = tx[w].loaded
      /\ u.new = tx[w].new
  BY <1>1, FinishType
<1>4. tx'[w] = t
  BY <1>1, <1>2 DEF TypeOK
<1> HIDE DEF u
<1>5. t.phase = "next" /\ t.rt = r /\ t.loaded = tx[w].loaded /\ t.new = tx[w].new
  BY <1>3 DEF Work
<1> HIDE DEF t
<1>6. WorkInOrder(t)
  BY <1>1, <1>2, <1>5 DEF WorkInOrder, RowOK, Remembers, SeenBy
<1> QED BY <1>1, <1>4, <1>6, OneStep DEF Supersede, TurnFails

\* A turn later than all that were made goes at the end.
LEMMA AppendOrder ==
  ASSUME NEW s \in Seq(Turn), NEW e \in Turn, NEW r,
         InOrder(s), NewAfterOld(turns, s),
         \A k \in DOMAIN s : /\ s[k].seen <= e.seen
                             /\ e.batch # {} => s[k].seen < e.seen
                             /\ SeenBy(r, s[k].seen),
         \A k \in DOMAIN turns : /\ turns[k].seen <= e.seen
                                 /\ e.batch # {} => turns[k].seen < e.seen,
         r.exists, SeenBy(r, e.seen)
  PROVE  LET n == Append(s, e)
         IN InOrder(n) /\ NewAfterOld(turns, n) /\ Remembers(r, n)
<1> DEFINE n == Append(s, e)
<1>1. Len(s) \in Nat /\ DOMAIN s = 1..Len(s)
  BY LenProperties
<1>2. /\ n \in Seq(Turn) /\ Len(n) = Len(s) + 1 /\ n[Len(s) + 1] = e
      /\ \A k \in 1..Len(s) : n[k] = s[k]
  BY AppendProperties
<1>3. DOMAIN n = 1..(Len(s) + 1)
  BY <1>2, LenProperties
<1> HIDE DEF n
<1>4. \A k \in DOMAIN n : \/ k \in DOMAIN s /\ n[k] = s[k]
                          \/ k = Len(s) + 1 /\ n[k] = e
  BY <1>1, <1>2, <1>3
<1>5. InOrder(n)
  <2> SUFFICES ASSUME NEW k \in DOMAIN n, NEW l \in DOMAIN n, k < l
               PROVE  /\ n[k].seen <= n[l].seen
                      /\ n[l].batch # {} => n[k].seen < n[l].seen
    BY DEF InOrder
  <2>1. k \in DOMAIN s /\ n[k] = s[k]
    BY <1>1, <1>3, <1>4
  <2>2. CASE l \in DOMAIN s /\ n[l] = s[l]
    BY <2>1, <2>2 DEF InOrder
  <2>3. CASE n[l] = e
    BY <2>1, <2>3
  <2> QED BY <1>4, <2>2, <2>3
<1>6. NewAfterOld(turns, n)
  BY <1>4 DEF NewAfterOld
<1>7. Remembers(r, n)
  BY <1>4 DEF Remembers
<1> QED BY <1>5, <1>6, <1>7 DEF n

LEMMA DecideOrder ==
  ASSUME IInv, OneWorker, NEW w \in Workers, Decide(w)
  PROVE  IInv'
<1>1. PICK reply \in {"none", "queued"} :
        tx' = [tx EXCEPT ![w] = [Finish(tx[w], tx[w].cur, "processed", 0) EXCEPT
                !.rt = [tx[w].rt EXCEPT !.last = tx[w].upto, !.version = tx[w].rt.version + 1],
                !.new = Append(tx[w].new,
                          [seen |-> Sent(tx[w].upto), batch |-> tx[w].batch,
                           at |-> tx[w].at, version |-> tx[w].rt.version + 1,
                           reply |-> reply])]]
  BY DEF Decide
<1> DEFINE u == Finish(tx[w], tx[w].cur, "processed", 0)
           r == [tx[w].rt EXCEPT !.last = tx[w].upto, !.version = tx[w].rt.version + 1]
           e == [seen |-> Sent(tx[w].upto), batch |-> tx[w].batch,
                 at |-> tx[w].at, version |-> tx[w].rt.version + 1, reply |-> reply]
           t == [u EXCEPT !.rt = r, !.new = Append(tx[w].new, e)]
<1>2. HeldInv' /\ TypeOK /\ WorkInOrder(tx[w])
  BY HeldStep DEF IInv, HeldInv, Next, WorkerStep
<1>3. /\ tx[w] \in Work /\ TxOK(tx[w]) /\ tx[w].phase = "thinking"
      /\ ~HasNewerInbound(tx[w].upto)
  BY ViewRemembers DEF Decide
<1>4. /\ tx[w].upto \in Stored /\ tx[w].cur \in Stored
      /\ Sent(tx[w].upto) \in Times /\ Sent(tx[w].cur) \in Times
      /\ tx[w].upto \in Messages /\ tx[w].upto # 0
  BY <1>2, <1>3, StoredFacts DEF TxOK, Messages
<1>5. Sent(tx[w].cur) <= Sent(tx[w].upto)
  BY <1>3, <1>4 DEF HasNewerInbound, Times
<1>6. /\ tx[w].rt \in Runtime /\ tx[w].new \in Seq(Turn) /\ tx[w].at \in Times
      /\ tx[w].batch \in SUBSET Messages
  BY <1>3 DEF Work
<1>7. tx[w].rt.version + 1 \in Nat
  BY <1>6 DEF Runtime
<1>8. e \in Turn /\ e.seen = Sent(tx[w].upto)
  BY <1>4, <1>6, <1>7 DEF Turn
<1>9. /\ \A k \in DOMAIN turns : turns[k].seen \in Times
      /\ \A k \in DOMAIN tx[w].new : tx[w].new[k].seen \in Times
  <2>1. \A k \in DOMAIN tx[w].new : tx[w].new[k] \in Turn
    BY <1>6, LenProperties, ElementOfSeq
  <2> QED BY <1>2, <2>1, StoredFacts DEF Turn
<1>10. /\ \A k \in DOMAIN turns : turns[k].seen < e.seen
       /\ \A k \in DOMAIN tx[w].new : tx[w].new[k].seen < e.seen
  <2>1. /\ \A k \in DOMAIN turns : turns[k].seen < Sent(tx[w].cur)
        /\ \A k \in DOMAIN tx[w].new : tx[w].new[k].seen < Sent(tx[w].cur)
    BY <1>2, <1>3 DEF WorkInOrder
  <2> QED BY <1>4, <1>5, <1>8, <1>9, <2>1 DEF Times
<1>11. r.exists /\ r.last = tx[w].upto /\ r.base = tx[w].rt.base
  BY <1>2, <1>3, <1>6 DEF Runtime, WorkInOrder
<1> HIDE DEF e, r
<1>12. \A seen \in Times : seen <= e.seen => SeenBy(r, seen)
  BY <1>4, <1>8, <1>11 DEF SeenBy
<1>13. e.seen \in Times /\ SeenBy(r, e.seen)
  BY <1>4, <1>8, <1>12 DEF Times
<1>14. /\ \A k \in DOMAIN tx[w].new : /\ tx[w].new[k].seen <= e.seen
                                      /\ tx[w].new[k].seen < e.seen
                                      /\ SeenBy(r, tx[w].new[k].seen)
       /\ \A k \in DOMAIN turns : /\ turns[k].seen <= e.seen
                                  /\ turns[k].seen < e.seen
                                  /\ SeenBy(r, turns[k].seen)
  BY <1>9, <1>10, <1>12, <1>13 DEF Times
<1>15. /\ InOrder(Append(tx[w].new, e)) /\ NewAfterOld(turns, Append(tx[w].new, e))
       /\ Remembers(r, Append(tx[w].new, e))
  <2>1. InOrder(tx[w].new) /\ NewAfterOld(turns, tx[w].new)
    BY <1>2 DEF WorkInOrder
  <2> QED BY <1>6, <1>8, <1>11, <1>13, <1>14, <2>1, AppendOrder
<1>16. Remembers(r, turns)
  BY <1>11, <1>14 DEF Remembers
<1>17. RowOK(r)
  BY <1>2, <1>4, <1>11 DEF RowOK, WorkInOrder
<1>18. u \in Work /\ u.phase = "next" /\ u.loaded = tx[w].loaded
  <2>1. tx[w].cur \in tx[w].todo /\ 0 \in Times /\ "processed" \in Final
    BY <1>3, TurnConstantsOK DEF TxOK, Times, Final
  <2> QED BY <1>2, <1>3, <2>1, FinishType
<1>19. tx'[w] = t
  BY <1>1, <1>2 DEF TypeOK, r, e
<1> HIDE DEF u
<1>20. /\ t.phase = "next" /\ t.rt = r /\ t.loaded = tx[w].loaded
       /\ t.new = Append(tx[w].new, e)
  BY <1>18 DEF Work
<1>21. tx[w].loaded = runtime
  BY <1>2, <1>3 DEF WorkInOrder
<1> HIDE DEF t
<1>22. WorkInOrder(t)
  BY <1>15, <1>16, <1>17, <1>20, <1>21 DEF WorkInOrder
<1> QED BY <1>2, <1>19, <1>22, OneStep DEF Decide

\* A restart begins after everything that was seen.
LEMMA RestartOrder ==
  ASSUME IInv, OneWorker, NEW w \in Workers, RestartDialog(w)
  PROVE  IInv'
<1>1. HeldInv' /\ TypeOK /\ WorkInOrder(tx[w]) /\ MessagesOrdered
  BY HeldStep DEF IInv, HeldInv, Next, WorkerStep
<1>2. PICK i \in tx[w].todo, t \in Work :
        /\ IsNext(w, i) /\ wrote[i].text = "restart"
        /\ tx' = [tx EXCEPT ![w] = t]
        /\ TxOK(t) /\ Keeps(tx[w], t) /\ t.todo = tx[w].todo /\ t.out = tx[w].out
        /\ t.phase = "retiring" /\ t.cur = i /\ t.retire = OtherOpen(w, i)
        /\ t.loaded = Loaded(w)
        /\ t.rt = [exists |-> TRUE, last |-> i, quiet |-> 0, base |-> now,
                   version |-> View(w).version + 1]
        /\ t.new = CancelPending(tx[w]).new /\ t.drop = CancelPending(tx[w]).drop
  BY <1>1, RestartBegun
<1>3. /\ View(w) \in Runtime /\ RowOK(View(w)) /\ Loaded(w) = runtime /\ tx[w] \in Work
      /\ Remembers(View(w), turns) /\ Remembers(View(w), tx[w].new) /\ TxOK(tx[w])
  BY ViewRemembers
<1>4. /\ DOMAIN t.new = DOMAIN tx[w].new
      /\ \A k \in DOMAIN tx[w].new : /\ t.new[k].seen = tx[w].new[k].seen
                                     /\ t.new[k].batch = tx[w].new[k].batch
  BY <1>1, <1>2, <1>3, CancelType
<1>5. now \in Times /\ i \in Stored /\ t.rt.exists /\ t.rt.last = i /\ t.rt.base = now
  BY <1>1, <1>2, <1>3 DEF TxOK, TypeOK
<1>6. \A k \in DOMAIN turns : turns[k].seen \in Times /\ turns[k].seen <= now
  <2> TAKE k \in DOMAIN turns
  <2>1. turns[k].seen \in Times
    BY <1>1, StoredFacts DEF Turn
  <2>2. SeenBy(View(w), turns[k].seen)
    BY <1>3 DEF Remembers
  <2> QED BY <1>1, <1>3, <2>1, <2>2, SeenInThePast
<1>7. \A k \in DOMAIN t.new : t.new[k].seen \in Times /\ t.new[k].seen <= now
  <2> TAKE k \in DOMAIN t.new
  <2>1. t.new \in Seq(Turn)
    BY DEF Work
  <2>2. t.new[k] \in Turn
    BY <2>1, LenProperties, ElementOfSeq
  <2>3. t.new[k].seen \in Times /\ t.new[k].seen = tx[w].new[k].seen
    BY <1>4, <2>2 DEF Turn
  <2>4. SeenBy(View(w), t.new[k].seen)
    BY <1>3, <1>4, <2>3 DEF Remembers
  <2> QED BY <1>1, <1>3, <2>3, <2>4, SeenInThePast
<1>8. tx'[w] = t
  BY <1>1, <1>2 DEF TypeOK
<1>9. InOrder(t.new) /\ NewAfterOld(turns, t.new)
  BY <1>1, <1>4, SameOrder DEF WorkInOrder
<1>10. Remembers(t.rt, turns) /\ Remembers(t.rt, t.new)
  BY <1>5, <1>6, <1>7 DEF Remembers, SeenBy
<1>11. RowOK(t.rt)
  BY <1>5 DEF RowOK, Times
<1>12. WorkInOrder(t)
  BY <1>2, <1>3, <1>5, <1>6, <1>7, <1>9, <1>10, <1>11 DEF WorkInOrder
<1> QED BY <1>1, <1>8, <1>12, OneStep DEF RestartDialog

LEMMA RetireOrder ==
  ASSUME IInv, OneWorker, NEW w \in Workers, RetireEvent(w)
  PROVE  IInv'
<1>1. HeldInv' /\ TypeOK /\ WorkInOrder(tx[w])
  BY HeldStep DEF IInv, HeldInv, Next, WorkerStep
<1>2. PICK i \in tx[w].retire, t \in Work :
        /\ \A v \in Workers \ {w} : i \notin Held(v)
        /\ i \in Stored /\ i # tx[w].cur
        /\ tx' = [tx EXCEPT ![w] = t]
        /\ TxOK(t) /\ t.todo = tx[w].todo \ {i} /\ DOMAIN t.out = DOMAIN tx[w].out \cup {i}
        /\ t.out[i].status = "processed"
        /\ \A j \in DOMAIN tx[w].out : j # i => t.out[j] = tx[w].out[j]
        /\ tx[w].phase = "retiring" /\ t.phase = "retiring" /\ t.cur = tx[w].cur
        /\ t.retire = tx[w].retire \ {i}
        /\ t.loaded = tx[w].loaded /\ t.rt = tx[w].rt
        /\ t.new = tx[w].new /\ t.drop = tx[w].drop
  BY <1>1, EventRetired
<1>3. tx'[w] = t
  BY <1>1, <1>2 DEF TypeOK
<1>4. WorkInOrder(t)
  BY <1>1, <1>2 DEF WorkInOrder
<1> QED BY <1>1, <1>3, <1>4, OneStep DEF RetireEvent

\* The first message of the new dialog comes after every turn.
LEMMA FinishRestartOrder ==
  ASSUME IInv, OneWorker, NEW w \in Workers, FinishRestart(w)
  PROVE  IInv'
<1>1. HeldInv' /\ TypeOK /\ WorkInOrder(tx[w]) /\ tx[w].phase = "retiring"
      /\ RetiresEarlier(tx[w])
  BY HeldStep DEF IInv, HeldInv, Next, WorkerStep, FinishRestart
<1>2. Sent(tx[w].cur) <= tx[w].rt.base
  BY <1>1 DEF RetiresEarlier
<1>3. PICK t \in Work, e \in Turn :
        /\ tx' = [tx EXCEPT ![w] = t]
        /\ TxOK(t) /\ Keeps(tx[w], t) /\ t.todo \cup DOMAIN t.out = Held(w)
        /\ t.todo \subseteq tx[w].todo /\ DOMAIN t.out = DOMAIN tx[w].out \cup {tx[w].cur}
        /\ t.out[tx[w].cur].status = "processed"
        /\ tx[w].phase = "retiring" /\ t.phase = "next"
        /\ t.loaded = tx[w].loaded /\ t.rt = tx[w].rt /\ t.drop = tx[w].drop
        /\ t.new = Append(tx[w].new, e) /\ tx[w].new \in Seq(Turn)
        /\ e.seen = tx[w].rt.base /\ e.batch = {} /\ e.reply = "queued"
  BY <1>1, <1>2, RestartEnds
<1>4. tx'[w] = t
  BY <1>1, <1>3 DEF TypeOK
<1>5. /\ InOrder(tx[w].new) /\ NewAfterOld(turns, tx[w].new) /\ Remembers(tx[w].rt, tx[w].new)
      /\ tx[w].rt.exists /\ RowOK(tx[w].rt) /\ tx[w].loaded = runtime
      /\ Remembers(tx[w].rt, turns)
      /\ \A k \in DOMAIN turns : turns[k].seen <= e.seen
      /\ \A k \in DOMAIN tx[w].new : tx[w].new[k].seen <= e.seen
  BY <1>1, <1>3 DEF WorkInOrder
<1>6. SeenBy(tx[w].rt, e.seen)
  BY <1>3 DEF SeenBy, Turn, Times
<1>7. \A k \in DOMAIN tx[w].new : SeenBy(tx[w].rt, tx[w].new[k].seen)
  BY <1>5 DEF Remembers
<1>8. InOrder(t.new) /\ NewAfterOld(turns, t.new) /\ Remembers(tx[w].rt, t.new)
  BY <1>3, <1>5, <1>6, <1>7, AppendOrder
<1>9. WorkInOrder(t)
  BY <1>3, <1>5, <1>8 DEF WorkInOrder
<1> QED BY <1>1, <1>4, <1>9, OneStep DEF FinishRestart

\* Idle work is in order.
LEMMA IdleOrder ==
  ASSUME TypeOK, NEW t, t.rt = NoRuntime, t.new = <<>>,
         t.phase \notin {"ready", "thinking", "retiring"}
  PROVE  WorkInOrder(t)
<1>1. DOMAIN t.new = {}
  <2>1. <<>> \in Seq(Turn) /\ Len(<<>>) = 0
    BY EmptySeq
  <2> QED BY <2>1, LenProperties
<1>2. ~NoRuntime.exists /\ RowOK(NoRuntime)
  BY DEF NoRuntime, RowOK, TypeOK, Times, Never
<1> QED BY <1>1, <1>2 DEF WorkInOrder, InOrder, NewAfterOld, Remembers

\* The parts of the invariant after a commit of the only worker.
LEMMA CommitLeavesOrder ==
  ASSUME TypeOK, MessagesOrdered, OneWorker, NEW w \in Workers, HeldInv',
         RowOK(runtime)', Remembers(runtime, turns)', InOrder(turns'),
         tx' = [tx EXCEPT ![w] = Idle], UNCHANGED <<now, wrote, page>>
  PROVE  IInv'
<1>1. MessagesOrdered' /\ TurnsMoveForward'
  BY DEF MessagesOrdered, Sent, TurnsMoveForward
<1>2. \A v \in Workers : WorkInOrder(tx[v])'
  <2> TAKE v \in Workers
  <2>1. tx'[v] = Idle
    BY DEF OneWorker, TypeOK
  <2>2. Idle.rt = NoRuntime /\ Idle.new = <<>> /\ Idle.phase = "idle"
    BY DEF Idle
  <2>3. DOMAIN tx'[v].new = {}
    <3>1. <<>> \in Seq(Turn) /\ Len(<<>>) = 0
      BY EmptySeq
    <3> QED BY <2>1, <2>2, <3>1, LenProperties
  <2>4. ~NoRuntime.exists /\ RowOK(NoRuntime)'
    BY DEF NoRuntime, RowOK, TypeOK, Times, Never
  <2> QED BY <2>1, <2>2, <2>3, <2>4 DEF WorkInOrder, InOrder, NewAfterOld, Remembers
<1> QED BY <1>1, <1>2 DEF IInv, HeldInv

LEMMA CommitOrder ==
  ASSUME IInv, OneWorker, NEW w \in Workers, Commit(w)
  PROVE  IInv'
<1> DEFINE n == Len(turns)
<1>1. HeldInv' /\ TypeOK /\ WorkInOrder(tx[w]) /\ MessagesOrdered
      /\ Remembers(runtime, turns) /\ RowOK(runtime) /\ InOrder(turns)
  BY HeldStep DEF IInv, HeldInv, Next, WorkerStep, TurnsMoveForward
<1>2. /\ turns' \in Seq(Turn)
      /\ DOMAIN turns' = 1..(n + Len(tx[w].new))
      /\ \A k \in DOMAIN turns : /\ turns'[k].seen = turns[k].seen
                                 /\ turns'[k].batch = turns[k].batch
      /\ \A k \in DOMAIN tx[w].new : turns'[n + k] = tx[w].new[k]
  BY <1>1, CommittedTurns
<1>3. /\ n \in Nat /\ DOMAIN turns = 1..n
      /\ Len(tx[w].new) \in Nat /\ DOMAIN tx[w].new = 1..Len(tx[w].new)
  BY <1>1, StoredFacts, CommittedTurns, LenProperties
<1>4. UNCHANGED <<now, wrote, page>> /\ tx' = [tx EXCEPT ![w] = Idle]
  BY DEF Commit
<1> HIDE DEF n
\* Every turn after the commit is an old one or one of the transaction's.
<1>5. \A k \in DOMAIN turns' :
        \/ k \in DOMAIN turns
        \/ k - n \in DOMAIN tx[w].new /\ turns'[k] = tx[w].new[k - n] /\ k > n
  <2> TAKE k \in DOMAIN turns'
  <2>1. k \in Nat /\ k >= 1 /\ k <= n + Len(tx[w].new)
    BY <1>2, <1>3
  <2>2. CASE k <= n
    BY <1>3, <2>1, <2>2
  <2>3. CASE k > n
    <3>1. k - n \in 1..Len(tx[w].new) /\ n + (k - n) = k
      BY <1>3, <2>1, <2>3
    <3> QED BY <1>2, <1>3, <2>3, <3>1
  <2> QED BY <1>3, <2>1, <2>2, <2>3
<1>6. InOrder(turns')
  <2> SUFFICES ASSUME NEW k \in DOMAIN turns', NEW l \in DOMAIN turns', k < l
               PROVE  /\ turns'[k].seen <= turns'[l].seen
                      /\ turns'[l].batch # {} => turns'[k].seen < turns'[l].seen
    BY DEF InOrder
  <2>1. CASE k \in DOMAIN turns /\ l \in DOMAIN turns
    BY <1>1, <1>2, <2>1 DEF InOrder
  <2>2. CASE k \in DOMAIN turns /\ l \notin DOMAIN turns
    <3>1. l - n \in DOMAIN tx[w].new /\ turns'[l] = tx[w].new[l - n]
      BY <1>5, <2>2
    <3> QED BY <1>1, <1>2, <2>2, <3>1 DEF WorkInOrder, NewAfterOld
  <2>3. CASE k \notin DOMAIN turns
    <3>1. k - n \in DOMAIN tx[w].new /\ turns'[k] = tx[w].new[k - n] /\ k > n
      BY <1>5, <2>3
    <3>2. k \in Nat /\ l \in Nat
      BY <1>2, <1>3
    <3>3. l - n \in DOMAIN tx[w].new /\ turns'[l] = tx[w].new[l - n]
      BY <1>3, <1>5, <3>1, <3>2
    <3>4. k - n < l - n
      BY <1>3, <3>2
    <3> QED BY <1>1, <3>1, <3>3, <3>4 DEF WorkInOrder, InOrder
  <2> QED BY <2>1, <2>2, <2>3
\* The committed row is the transaction's when it has one.
<1>7. CASE tx[w].rt.exists
  <2>1. tx[w].rt \in Runtime /\ runtime \in Runtime /\ tx[w].loaded = runtime
    BY <1>1, <1>7, ViewType DEF Work, WorkInOrder
  <2>2. runtime' = Merged(runtime, tx[w].loaded, tx[w].rt)
    BY <1>7 DEF Commit
  <2>3. /\ runtime'.exists = tx[w].rt.exists /\ runtime'.last = tx[w].rt.last
        /\ runtime'.base = tx[w].rt.base
    BY <2>1, <2>2 DEF Merged, Updated
  <2>4. Remembers(tx[w].rt, turns) /\ Remembers(tx[w].rt, tx[w].new) /\ RowOK(tx[w].rt)
    BY <1>1, <1>7 DEF WorkInOrder
  <2>5. RowOK(runtime)'
    BY <1>4, <1>7, <2>3, <2>4 DEF RowOK, Stored
  <2>6. \A k \in DOMAIN turns' : SeenBy(tx[w].rt, turns'[k].seen)
    BY <1>2, <1>5, <2>4 DEF Remembers
  <2>7. Remembers(runtime, turns)'
    BY <1>4, <1>7, <2>3, <2>6 DEF Remembers, SeenBy, Sent
  <2> QED BY <1>1, <1>4, <1>6, <2>5, <2>7, CommitLeavesOrder
<1>8. CASE ~tx[w].rt.exists
  <2>1. runtime' = runtime
    BY <1>8 DEF Commit
  <2>2. DOMAIN tx[w].new = {}
    BY <1>1, <1>8 DEF WorkInOrder, Remembers
  <2>3. \A k \in DOMAIN turns' : k \in DOMAIN turns
    BY <1>5, <2>2
  <2>4. RowOK(runtime)'
    BY <1>1, <1>4, <2>1 DEF RowOK, Stored
  <2>5. Remembers(runtime, turns)'
    BY <1>1, <1>2, <1>4, <2>1, <2>3 DEF Remembers, SeenBy, Sent
  <2> QED BY <1>1, <1>4, <1>6, <2>4, <2>5, CommitLeavesOrder
<1> QED BY <1>7, <1>8

LEMMA ClaimOrder ==
  ASSUME IInv, OneWorker, NEW w \in Workers, Claim(w) \/ Rollback(w)
  PROVE  IInv'
<1>1. HeldInv' /\ TypeOK
  BY HeldStep DEF IInv, HeldInv, Next
<1>2. PICK t : /\ tx' = [tx EXCEPT ![w] = t]
               /\ t.rt = NoRuntime /\ t.new = <<>> /\ t.phase \in {"idle", "next"}
  <2>1. CASE Claim(w)
    <3>1. PICK batch \in SUBSET Claimable :
            tx' = [tx EXCEPT ![w] = [Idle EXCEPT !.phase = "next", !.at = now,
                                                 !.todo = batch]]
      BY <2>1 DEF Claim
    <3>2. LET t == [Idle EXCEPT !.phase = "next", !.at = now, !.todo = batch]
          IN t.rt = NoRuntime /\ t.new = <<>> /\ t.phase = "next"
      BY DEF Idle
    <3> QED BY <3>1, <3>2
  <2>2. CASE Rollback(w)
    <3>1. tx' = [tx EXCEPT ![w] = Idle]
      BY <2>2 DEF Rollback
    <3>2. Idle.rt = NoRuntime /\ Idle.new = <<>> /\ Idle.phase = "idle"
      BY DEF Idle
    <3> QED BY <3>1, <3>2
  <2> QED BY <2>1, <2>2
<1>3. tx'[w] = t
  BY <1>1, <1>2 DEF TypeOK
<1>4. WorkInOrder(t)
  BY <1>1, <1>2, IdleOrder
<1> QED BY <1>1, <1>3, <1>4, OneStep DEF Claim, Rollback

\* The steps of the others leave runtime and transactions alone.
LEMMA OthersStep ==
  ASSUME IInv, HeldInv', MessagesOrdered',
         Stored \subseteq Stored', now <= now',
         \A i \in Stored : wrote'[i] = wrote[i],
         DOMAIN turns' = DOMAIN turns,
         \A k \in DOMAIN turns : /\ turns'[k].seen = turns[k].seen
                                 /\ turns'[k].batch = turns[k].batch,
         UNCHANGED <<runtime, tx>>
  PROVE  IInv'
<1>1. /\ TypeOK /\ RowOK(runtime) /\ Remembers(runtime, turns) /\ InOrder(turns)
      /\ \A w \in Workers : WorkInOrder(tx[w])
  BY DEF IInv, HeldInv, TurnsMoveForward
<1>2. \A i \in Stored : Sent(i)' = Sent(i)
  BY DEF Sent
<1>3. ASSUME NEW r \in Runtime, RowOK(r)
      PROVE  /\ RowOK(r)'
             /\ \A seen : SeenBy(r, seen) => SeenBy(r, seen)'
  <2>1. r.base \in Int /\ now \in Int /\ now' \in Int
    BY <1>1 DEF HeldInv, Runtime, Times, Never, TypeOK
  <2>2. RowOK(r)'
    BY <1>3, <2>1 DEF RowOK
  <2>3. r.last # 0 => Sent(r.last)' = Sent(r.last)
    BY <1>2, <1>3 DEF RowOK
  <2> QED BY <2>2, <2>3 DEF SeenBy
<1>4. RowOK(runtime)' /\ Remembers(runtime, turns)'
  <2>1. runtime \in Runtime /\ runtime' = runtime
    BY <1>1 DEF TypeOK
  <2>2. RowOK(runtime)'
    BY <1>1, <1>3, <2>1 DEF RowOK
  <2>3. \A seen : SeenBy(runtime, seen) => SeenBy(runtime, seen)'
    BY <1>1, <1>2, <1>3, <2>1 DEF SeenBy
  <2> QED BY <1>1, <2>1, <2>2, <2>3 DEF Remembers
<1>5. InOrder(turns')
  BY <1>1 DEF InOrder
<1>6. \A w \in Workers : WorkInOrder(tx[w])'
  <2> TAKE w \in Workers
  <2> DEFINE t == tx[w]
  <2>1. t \in Work /\ TxOK(t) /\ WorkInOrder(t) /\ tx'[w] = t
    BY <1>1, ViewType
  <2> HIDE DEF t
  <2>2. t.rt \in Runtime /\ RowOK(t.rt)
    BY <2>1 DEF Work, WorkInOrder
  <2>3. RowOK(t.rt)' /\ \A seen : SeenBy(t.rt, seen) => SeenBy(t.rt, seen)'
    BY <1>3, <2>2 DEF t
  <2>4. t.phase \in {"ready", "thinking"} => Sent(t.cur)' = Sent(t.cur)
    BY <1>2, <2>1 DEF TxOK, t
  <2>5. WorkInOrder(t)'
    <3>1. t' = t
      BY DEF t
    <3>2. /\ t.rt.exists => t.loaded = runtime' /\ Remembers(t.rt, turns)'
          /\ InOrder(t.new)' /\ NewAfterOld(turns, t.new)' /\ Remembers(t.rt, t.new)'
      BY <2>1, <2>3, <3>1 DEF WorkInOrder, Remembers, NewAfterOld, InOrder
    <3>3. /\ t.phase \in {"ready", "thinking"} =>
               /\ \A k \in DOMAIN turns' : turns'[k].seen < Sent(t.cur)'
               /\ \A k \in DOMAIN t.new : t.new[k].seen < Sent(t.cur)'
          /\ t.phase = "thinking" => t.rt.exists
          /\ t.phase = "retiring" =>
               /\ t.rt.exists
               /\ \A k \in DOMAIN turns' : turns'[k].seen <= t.rt.base
               /\ \A k \in DOMAIN t.new : t.new[k].seen <= t.rt.base
      BY <2>1, <2>4 DEF WorkInOrder, t
    <3> QED BY <2>3, <3>1, <3>2, <3>3 DEF WorkInOrder
  <2> QED BY <2>1, <2>5 DEF t
<1> QED BY <1>4, <1>5, <1>6 DEF IInv, HeldInv, TurnsMoveForward

LEMMA OthersOrder ==
  ASSUME IInv, ~SameSecond,
         \/ CandidateWrites \/ Tick \/ Poll
         \/ \E k \in DOMAIN turns : Send(k) \/ GiveUp(k)
         \/ UNCHANGED vars
  PROVE  IInv'
<1>1. HeldInv' /\ TypeOK /\ MessagesOrdered
  BY HeldStep DEF IInv, HeldInv, Next
<1>2. Stored \subseteq DOMAIN wrote /\ now \in Int
  BY <1>1, StoredFacts DEF TypeOK, Times
<1>3. CASE CandidateWrites
  <2>1. /\ wrote'[Len(wrote) + 1].sent = now
        /\ \A i \in DOMAIN wrote : wrote'[i] = wrote[i]
        /\ DOMAIN wrote' = 1..(Len(wrote) + 1)
    BY <1>1, <1>3, CandidateStep
  <2>2. \A i \in DOMAIN wrote : Sent(i) < now
    BY <1>3 DEF CandidateWrites
  <2>3. DOMAIN wrote = 1..Len(wrote) /\ Len(wrote) \in Nat /\ now' = now
    BY <1>1, <1>3, StoredFacts DEF CandidateWrites
  <2>4. \A i \in DOMAIN wrote' : \/ i \in DOMAIN wrote /\ wrote'[i] = wrote[i]
                                 \/ i = Len(wrote) + 1 /\ wrote'[i].sent = now
    BY <2>1, <2>3
  <2>5. \A i, j \in DOMAIN wrote' : i < j => i \in DOMAIN wrote
    BY <2>1, <2>3
  <2>6. MessagesOrdered'
    BY <1>1, <1>2, <2>2, <2>3, <2>4, <2>5 DEF MessagesOrdered, Sent
  <2> QED BY <1>1, <1>2, <1>3, <2>1, <2>6, OthersStep DEF CandidateWrites, Stored
<1>4. CASE Tick
  <2>1. now <= now' /\ now' \in Int
    BY <1>2, <1>4 DEF Tick
  <2>2. \A i \in DOMAIN wrote : Sent(i) \in Int
    BY <1>1, StoredFacts DEF Times
  <2>3. MessagesOrdered'
    BY <1>1, <1>2, <1>4, <2>1, <2>2 DEF Tick, MessagesOrdered, Sent
  <2> QED BY <1>1, <1>4, <2>1, <2>3, OthersStep DEF Tick, Stored
<1>5. CASE Poll
  <2>1. MessagesOrdered' /\ Stored \subseteq Stored'
    BY <1>1, <1>5, PollStep DEF Poll, MessagesOrdered, Sent
  <2> QED BY <1>1, <1>2, <1>5, <2>1, OthersStep DEF Poll
<1>6. CASE \E k \in DOMAIN turns : Send(k) \/ GiveUp(k)
  <2>1. /\ DOMAIN turns' = DOMAIN turns
        /\ \A k \in DOMAIN turns : /\ turns'[k].seen = turns[k].seen
                                   /\ turns'[k].batch = turns[k].batch
        /\ UNCHANGED <<now, wrote, page, event, runtime, tx>>
    BY <1>1, <1>6, AnswerStep
  <2>2. MessagesOrdered'
    BY <1>1, <2>1 DEF MessagesOrdered, Sent
  <2> QED BY <1>1, <1>2, <2>1, <2>2, OthersStep DEF Stored
<1>7. CASE UNCHANGED vars
  <2>1. MessagesOrdered'
    BY <1>1, <1>7 DEF vars, MessagesOrdered, Sent
  <2> QED BY <1>1, <1>2, <1>7, <2>1, OthersStep DEF vars, Stored
<1> QED BY <1>3, <1>4, <1>5, <1>6, <1>7

LEMMA OrderStep ==
  ASSUME IInv, OneWorker, ~SameSecond, [Next]_vars
  PROVE  IInv'
<1>1. ASSUME NEW w \in Workers,
             Claim(w) \/ EmptyBatch(w) \/ WorkerStep(w) \/ Rollback(w)
      PROVE  IInv'
  <2>1. CASE Claim(w) \/ Rollback(w)
    BY <2>1, ClaimOrder
  <2>2. CASE EmptyBatch(w)
    BY <2>2, OthersOrder DEF EmptyBatch
  <2>3. CASE Dismiss(w) \/ Defer(w) \/ StartTurn(w)
    BY <2>3, DismissOrder, DeferOrder, StartTurnOrder
  <2>5. CASE RestartDialog(w) \/ RetireEvent(w) \/ FinishRestart(w)
    BY <2>5, RestartOrder, RetireOrder, FinishRestartOrder
  <2>4. CASE ReadBatch(w) \/ Supersede(w) \/ TurnFails(w) \/ Decide(w) \/ Commit(w)
    BY <2>4, ReadBatchOrder, NoTurnOrder, DecideOrder, CommitOrder
  <2> QED BY <1>1, <2>1, <2>2, <2>3, <2>4, <2>5 DEF WorkerStep
<1> QED BY <1>1, OthersOrder DEF Next

LEMMA OrderInit ==
  ASSUME Init
  PROVE  IInv
<1>1. HeldInv /\ TypeOK
  BY HeldInit DEF HeldInv
<1>2. DOMAIN wrote = {} /\ DOMAIN turns = {}
  <2>1. <<>> \in Seq({}) /\ Len(<<>>) = 0
    BY EmptySeq
  <2> QED BY <2>1, LenProperties DEF Init
<1>3. MessagesOrdered /\ TurnsMoveForward /\ Remembers(runtime, turns)
  BY <1>2 DEF MessagesOrdered, TurnsMoveForward, InOrder, Remembers
<1>4. RowOK(runtime)
  BY DEF Init, RowOK, NoRuntime, Never
<1>5. ASSUME NEW w \in Workers
      PROVE  WorkInOrder(tx[w])
  <2>1. tx[w].rt = NoRuntime /\ tx[w].new = <<>> /\ tx[w].phase = "idle"
    BY DEF Init, Idle
  <2> QED BY <1>1, <2>1, IdleOrder
<1> QED BY <1>1, <1>3, <1>4, <1>5 DEF IInv, HeldInv

\* The inductive invariant, for one inbound worker and distinct times of sending: the
\* runtime row, as each transaction has changed it, remembers the latest that any turn
\* has seen.
THEOREM InvariantHolds == ASSUME OneWorker, ~SameSecond PROVE Spec => []IInv
<1>1. Init => IInv
  BY OrderInit
<1>2. IInv /\ [Next]_vars => IInv'
  BY OrderStep
<1> QED BY <1>1, <1>2, PTL DEF Spec

\* No turn goes back behind an earlier one and no message is answered twice, however
\* many messages, restarts, deferrals, failures and lost batches there are.
THEOREM NothingAnsweredTwice ==
  ASSUME OneWorker, ~SameSecond PROVE Spec => []TurnsMoveForward
<1>1. IInv => TurnsMoveForward
  BY DEF IInv
<1> QED BY <1>1, InvariantHolds, PTL

-----------------------------------------------------------------------------
(* One worker and distinct times: no answer waits behind the candidate's    *)
(* back.                                                                    *)

\* The times that turns have seen, and those of waiting answers among them.
LEMMA SeenTimes ==
  ASSUME TypeOK, NEW t \in Work, Beginning(t) \subseteq Times
  PROVE  SeenIn(t) \subseteq Times /\ WaitingIn(t) \subseteq SeenIn(t)
<1>1. \A k \in DOMAIN turns : turns[k].seen \in Times
  BY StoredFacts DEF Turn
<1>2. \A k \in DOMAIN t.new : t.new[k].seen \in Times
  <2>1. t.new \in Seq(Turn)
    BY DEF Work
  <2>2. \A k \in DOMAIN t.new : t.new[k] \in Turn
    BY <2>1, LenProperties, ElementOfSeq
  <2> QED BY <2>2 DEF Turn
<1> QED BY <1>1, <1>2 DEF SeenIn, WaitingIn, QueuedTurns

\* The latest of the stored messages is later than every other.
LEMMA LatestIsLater ==
  ASSUME TypeOK, MessagesOrdered, NEW latest \in Stored, Latest(latest)
  PROVE  \A i \in Stored : Sent(i) <= Sent(latest) /\ (i # latest => Sent(latest) > Sent(i))
<1> TAKE i \in Stored
<1>1. /\ i \in DOMAIN wrote /\ latest \in DOMAIN wrote /\ i \in Int /\ latest \in Int
      /\ Sent(i) \in Int /\ Sent(latest) \in Int
  BY StoredFacts DEF Times
<1>2. ~(Sent(latest) < Sent(i))
  BY DEF Latest, Before
<1>3. CASE i # latest
  <2>1. i < latest \/ latest < i
    BY <1>1, <1>3
  <2>2. (i < latest => Sent(i) < Sent(latest)) /\ (latest < i => Sent(latest) < Sent(i))
    BY <1>1 DEF MessagesOrdered
  <2> QED BY <1>1, <1>2, <2>1, <2>2
<1> QED BY <1>1, <1>2, <1>3

\* The end of an event changes its own status and no turn.
LEMMA FinishView ==
  ASSUME TypeOK, NEW t \in Work, TxOK(t), NEW i \in t.todo, t.phase # "retiring",
         NEW status \in Open \cup Final, NEW r \in Times
  PROVE  LET u == Finish(t, i, status, r)
         IN /\ \A j \in Stored : StatusIn(u, j) = IF j = i THEN status ELSE StatusIn(t, j)
            /\ SeenIn(u) = SeenIn(t) /\ WaitingIn(u) = WaitingIn(t)
<1> DEFINE u == Finish(t, i, status, r)
           p == [j \in DOMAIN t.out \cup {i} |->
                   IF j = i THEN [status |-> status, retryAt |-> r] ELSE t.out[j]]
<1>1. u.new = t.new /\ u.drop = t.drop /\ u.phase = "next"
  BY FinishType
<1>2. u.out = p
  <2>1. DOMAIN t = {"phase", "at", "todo", "cur", "batch", "upto", "retire", "loaded", "rt",
                    "out", "drop", "new"}
    BY DEF Work
  <2> QED BY <2>1 DEF Finish
<1> HIDE DEF u
<1>3. DOMAIN u.out = DOMAIN t.out \cup {i}
  BY <1>2
<1>4. u.out[i].status = status /\ \A j \in DOMAIN t.out : j # i => u.out[j] = t.out[j]
  BY <1>2
<1>5. \A j \in Stored : StatusIn(u, j) = IF j = i THEN status ELSE StatusIn(t, j)
  BY <1>3, <1>4 DEF StatusIn
<1> QED BY <1>1, <1>5 DEF SeenIn, WaitingIn, Beginning, u

\* What the outcomes, the turns and the cancelled answers of a transaction decide.
LEMMA SameView ==
  ASSUME NEW t, NEW u, u.out = t.out, t.phase # "retiring", u.phase # "retiring"
  PROVE  /\ \A j \in Stored : StatusIn(u, j) = StatusIn(t, j)
         /\ u.new = t.new => SeenIn(u) = SeenIn(t)
         /\ u.new = t.new /\ u.drop = t.drop => WaitingIn(u) = WaitingIn(t)
  BY DEF StatusIn, SeenIn, WaitingIn, Beginning

\* After a cancellation no answer waits, and every turn has seen what it had.
LEMMA CancelView ==
  ASSUME TypeOK, NEW t \in Work, TxOK(t), t.phase # "retiring"
  PROVE  LET u == CancelPending(t)
         IN u.out = t.out /\ SeenIn(u) = SeenIn(t) /\ WaitingIn(u) = {}
<1> DEFINE u == CancelPending(t)
<1>1. /\ u.out = t.out /\ DOMAIN u.new = DOMAIN t.new /\ u.phase = t.phase
      /\ \A k \in DOMAIN t.new : u.new[k].seen = t.new[k].seen
  BY CancelType
<1>2. \A k \in DOMAIN t.new : t.new[k] \in Turn
  BY LenProperties, ElementOfSeq DEF Work
<1>3. u.drop = t.drop \cup QueuedTurns
      /\ u.new = [k \in DOMAIN t.new |-> IF t.new[k].reply = "queued"
                                         THEN [t.new[k] EXCEPT !.reply = "dropped"]
                                         ELSE t.new[k]]
  BY DEF CancelPending, Work
<1> HIDE DEF u
<1>4. \A k \in DOMAIN u.new : u.new[k].reply # "queued"
  <2> TAKE k \in DOMAIN u.new
  <2>1. t.new[k] \in Turn /\ u.new[k] = IF t.new[k].reply = "queued"
                     THEN [t.new[k] EXCEPT !.reply = "dropped"] ELSE t.new[k]
    BY <1>1, <1>2, <1>3
  <2>2. [t.new[k] EXCEPT !.reply = "dropped"].reply = "dropped"
    BY <2>1 DEF Turn
  <2> QED BY <2>1, <2>2
<1>5. SeenIn(u) = SeenIn(t)
  BY <1>1 DEF SeenIn, Beginning
<1>6. WaitingIn(u) = {}
  BY <1>1, <1>3, <1>4 DEF WaitingIn, Beginning
<1> QED BY <1>1, <1>5, <1>6 DEF u

\* Closing an event leaves everything heard when some turn has seen as much, or a
\* later message is stored, whose own event answers for it.
LEMMA ClosingKeepsHeard ==
  ASSUME TypeOK, NEW t, HeardIn(t), NEW u, SeenIn(u) \subseteq Times,
         SeenIn(t) \subseteq SeenIn(u), NEW i \in Stored, NEW status,
         \A j \in Stored : StatusIn(u, j) = IF j = i THEN status ELSE StatusIn(t, j),
         \/ status # "processed"
         \/ \E seen \in SeenIn(u) : seen >= Sent(i)
         \/ \E j \in Stored : Sent(j) > Sent(i)
  PROVE  HeardIn(u)
<1>1. \A j \in Stored : Sent(j) \in Int
  BY StoredFacts DEF Times
<1>2. \A seen \in SeenIn(u) : seen \in Int
  BY DEF Times
<1>3. \/ StatusIn(u, i) # "processed"
      \/ \E seen \in SeenIn(u) : seen >= Sent(i)
      \/ \E j \in Stored : Sent(j) >= Sent(i) /\ StatusIn(u, j) # "processed"
  <2>1. ASSUME NEW j \in Stored, Sent(j) > Sent(i), StatusIn(t, j) = "processed"
        PROVE  \/ \E seen \in SeenIn(u) : seen >= Sent(i)
               \/ \E k \in Stored : Sent(k) >= Sent(i) /\ StatusIn(u, k) # "processed"
    <3>1. CASE \E seen \in SeenIn(t) : seen >= Sent(j)
      BY <1>1, <1>2, <2>1, <3>1
    <3>2. CASE \E k \in Stored : Sent(k) >= Sent(j) /\ StatusIn(t, k) # "processed"
      <4>1. PICK k \in Stored : Sent(k) >= Sent(j) /\ StatusIn(t, k) # "processed"
        BY <3>2
      <4>2. k # i /\ Sent(k) >= Sent(i)
        BY <1>1, <2>1, <4>1
      <4> QED BY <4>1, <4>2
    <3> QED BY <2>1, <3>1, <3>2 DEF HeardIn
  <2>2. ASSUME NEW j \in Stored, Sent(j) > Sent(i), StatusIn(t, j) # "processed"
        PROVE  \E k \in Stored : Sent(k) >= Sent(i) /\ StatusIn(u, k) # "processed"
    <3>1. j # i /\ Sent(j) >= Sent(i)
      BY <1>1, <2>2
    <3> QED BY <2>2, <3>1
  <2> QED BY <2>1, <2>2
<1> SUFFICES ASSUME NEW m \in Stored, StatusIn(u, m) = "processed"
             PROVE  \/ \E seen \in SeenIn(u) : seen >= Sent(m)
                    \/ \E j \in Stored : Sent(j) >= Sent(m) /\ StatusIn(u, j) # "processed"
  BY DEF HeardIn
<1>4. CASE Sent(i) >= Sent(m)
  <2>1. CASE StatusIn(u, i) # "processed"
    BY <1>4, <2>1
  <2>2. CASE \E seen \in SeenIn(u) : seen >= Sent(i)
    BY <1>1, <1>2, <1>4, <2>2
  <2>3. CASE \E j \in Stored : Sent(j) >= Sent(i) /\ StatusIn(u, j) # "processed"
    BY <1>1, <1>4, <2>3
  <2> QED BY <1>3, <2>1, <2>2, <2>3
<1>5. CASE ~(Sent(i) >= Sent(m))
  <2>1. m # i /\ StatusIn(t, m) = "processed"
    BY <1>1, <1>5
  <2>2. CASE \E seen \in SeenIn(t) : seen >= Sent(m)
    BY <2>2
  <2>3. CASE \E j \in Stored : Sent(j) >= Sent(m) /\ StatusIn(t, j) # "processed"
    BY <1>5, <2>3
  <2> QED BY <2>1, <2>2, <2>3 DEF HeardIn
<1> QED BY <1>4, <1>5

\* The closed event had a later one beside it, or no answer waits that has not seen it.
LEMMA ClosingKeepsCurrent ==
  ASSUME TypeOK, NEW t, CurrentIn(t), NEW u, WaitingIn(t) \subseteq Times,
         WaitingIn(u) \subseteq WaitingIn(t), NEW i \in Stored, NEW status,
         \A j \in Stored : StatusIn(u, j) = IF j = i THEN status ELSE StatusIn(t, j),
         \/ \A seen \in WaitingIn(t) : seen >= Sent(i)
         \/ \E j \in Stored : Sent(j) > Sent(i)
  PROVE  CurrentIn(u)
<1>1. \A j \in Stored : Sent(j) \in Int
  BY StoredFacts DEF Times
<1>2. \A seen \in WaitingIn(t) : seen \in Int
  BY DEF Times
<1> SUFFICES ASSUME NEW seen \in WaitingIn(u), NEW m \in Stored, Sent(m) > seen
             PROVE  \E j \in Stored : Sent(j) >= Sent(m) /\ StatusIn(u, j) \in Open
  BY DEF CurrentIn
<1>3. PICK j \in Stored : Sent(j) >= Sent(m) /\ StatusIn(t, j) \in Open
  BY DEF CurrentIn
<1>4. CASE j # i
  BY <1>3, <1>4
<1>5. CASE j = i
  <2>1. ~(seen >= Sent(i)) /\ seen \in WaitingIn(t)
    BY <1>1, <1>2, <1>3, <1>5
  <2>2. PICK l \in Stored : Sent(l) > Sent(i)
    BY <2>1
  <2>3. Sent(l) > seen
    BY <1>1, <1>2, <2>1, <2>2
  <2>4. PICK k \in Stored : Sent(k) >= Sent(l) /\ StatusIn(t, k) \in Open
    BY <2>1, <2>3 DEF CurrentIn
  <2>5. k # i /\ Sent(k) >= Sent(m)
    BY <1>1, <1>3, <1>5, <2>2, <2>4
  <2> QED BY <2>4, <2>5
<1> QED BY <1>4, <1>5

\* A row that tells of no more than another.
LEMMA ToldAsMuch ==
  ASSUME NEW r, NEW t, RowTold(r, t), NEW q, NEW u,
         \A x \in Times : SeenBy(q, x) => SeenBy(r, x),
         SeenIn(t) \subseteq SeenIn(u), WaitingIn(u) \subseteq WaitingIn(t)
  PROVE  RowTold(q, u)
  BY DEF RowTold

\* The row that the transaction t of the only worker shows.
RowOf(t) == IF t.rt.exists THEN t.rt ELSE runtime

\* A worker's step that changes only its transaction.
LEMMA LeavesCurrent ==
  ASSUME CurrentInv, OneWorker, NEW w \in Workers, NEW t, tx'[w] = t, IInv',
         UNCHANGED <<now, wrote, page, event, runtime, turns>>,
         CurrentIn(t), RowTold(RowOf(t), t),
         t.phase \in {"ready", "thinking"} => WaitingIn(t) = {}
  PROVE  CurrentInv'
<1>1. CurrentIn(Idle)' /\ RowTold(runtime, Idle)'
  BY DEF CurrentInv, CurrentIn, RowTold, SeenBy, Sent, Stored, StatusIn, SeenIn, WaitingIn,
         Beginning, QueuedTurns
<1>2. ASSUME NEW v \in Workers PROVE WorkCurrent(v)'
  <2>1. tx'[v] = t
    BY DEF OneWorker
  <2>2. CurrentIn(tx[v])'
    BY <2>1 DEF CurrentIn, Sent, Stored, StatusIn, WaitingIn, Beginning, QueuedTurns
  <2>3. RowTold(View(v), tx[v])'
    BY <2>1 DEF View, RowOf, RowTold, SeenBy, Sent, SeenIn, WaitingIn, Beginning, QueuedTurns
  <2>4. (tx[v].phase \in {"ready", "thinking"} => WaitingIn(tx[v]) = {})'
    BY <2>1 DEF WaitingIn, Beginning, QueuedTurns
  <2> QED BY <2>2, <2>3, <2>4 DEF WorkCurrent
<1> QED BY <1>1, <1>2 DEF CurrentInv

\* The facts a step starts from.
LEMMA CurrentFacts ==
  ASSUME CurrentInv, NEW w \in Workers
  PROVE  /\ IInv /\ TypeOK /\ MessagesOrdered /\ tx[w] \in Work /\ TxOK(tx[w])
         /\ WorkInOrder(tx[w]) /\ Loaded(w) = runtime /\ View(w) \in Runtime /\ RowOK(View(w))
         /\ CurrentIn(tx[w]) /\ RowTold(View(w), tx[w]) /\ RowOf(tx[w]) = View(w)
         /\ SeenIn(tx[w]) \subseteq Times /\ WaitingIn(tx[w]) \subseteq SeenIn(tx[w])
         /\ \A i \in tx[w].todo : i \in Stored /\ Sent(i) \in Times
<1>1. IInv /\ TypeOK /\ WorkCurrent(w) /\ MessagesOrdered /\ WorkInOrder(tx[w])
  BY DEF CurrentInv, IInv, HeldInv
<1>2. /\ tx[w] \in Work /\ TxOK(tx[w])
      /\ Loaded(w) = runtime /\ View(w) \in Runtime /\ RowOK(View(w))
  BY <1>1, ViewRemembers
<1>3. RowOf(tx[w]) = View(w)
  BY DEF RowOf, View
<1>4. \A i \in tx[w].todo : i \in Stored /\ Sent(i) \in Times
  BY <1>1, <1>2, StoredFacts DEF TxOK
<1>5. Beginning(tx[w]) \subseteq Times
  <2>1. tx[w].rt.base \in Times \cup {Never}
    BY <1>2 DEF Work, Runtime
  <2>2. tx[w].phase = "retiring" => Sent(tx[w].cur) \in Times /\ Sent(tx[w].cur) <= tx[w].rt.base
    BY <1>2, <1>4 DEF CurrentInv, IInv, HeldInv, RetiresEarlier, TxOK
  <2> QED BY <2>1, <2>2 DEF Beginning, Times, Never
<1> QED BY <1>1, <1>2, <1>3, <1>4, <1>5, SeenTimes DEF WorkCurrent

\* Event i ended with this status, w's transaction being t now.
Ended(w, t, i, status) ==
  /\ i \in Stored /\ t.phase \in {"next", "retiring"}
  /\ \A j \in Stored : StatusIn(t, j) = IF j = i THEN status ELSE StatusIn(tx[w], j)

\* A row that tells of no more than the one w saw.
TellsNoMore(w, t) == \A x \in Times : SeenBy(RowOf(t), x) => SeenBy(View(w), x)

\* What may be closed without a turn: an older message, or one that some turn has
\* seen and every waiting answer.
Covered(w, i) ==
  \/ \E j \in Stored : Sent(j) > Sent(i)
  \/ /\ \E seen \in SeenIn(tx[w]) : seen >= Sent(i)
     /\ \A seen \in WaitingIn(tx[w]) : seen >= Sent(i)

LEMMA DismissedIsTold ==
  ASSUME CurrentInv, NEW w \in Workers, NEW i \in tx[w].todo, NEW latest \in Stored,
         Latest(latest), NotForThisTurn(View(w), i, latest)
  PROVE  Covered(w, i)
<1>1. i \in Stored /\ Sent(i) \in Times /\ TypeOK /\ MessagesOrdered
      /\ RowTold(View(w), tx[w])
  BY CurrentFacts
<1>2. CASE latest # i
  BY <1>1, <1>2, LatestIsLater DEF Covered
<1>3. CASE latest = i
  <2>1. i # 0 /\ Sent(i) <= Sent(i)
    BY <1>1, StoredFacts DEF Messages, Times
  <2>2. SeenBy(View(w), Sent(i))
    BY <1>3, <2>1 DEF NotForThisTurn, SeenBy
  <2> QED BY <1>1, <2>2 DEF RowTold, Covered
<1> QED BY <1>2, <1>3

\* A step of w that closes an event and tells nothing new.
JustCloses(w, t) ==
  /\ \E i \in Stored : Ended(w, t, i, "processed") /\ Covered(w, i)
  /\ TellsNoMore(w, t) /\ SeenIn(t) = SeenIn(tx[w]) /\ WaitingIn(t) = WaitingIn(tx[w])

LEMMA DismissView ==
  ASSUME CurrentInv, NEW w \in Workers, Dismiss(w)
  PROVE  JustCloses(w, tx'[w])
<1>0. PICK i \in tx[w].todo, latest \in Stored :
        /\ Latest(latest) /\ NotForThisTurn(View(w), i, latest)
        /\ tx' = [tx EXCEPT ![w] = [Finish(@, i, "processed", 0)
                                     EXCEPT !.loaded = Loaded(w), !.rt = View(w)]]
  BY DEF Dismiss
<1> DEFINE u == Finish(tx[w], i, "processed", 0)
           t == [u EXCEPT !.loaded = Loaded(w), !.rt = View(w)]
<1>1. TypeOK /\ tx[w] \in Work /\ TxOK(tx[w]) /\ View(w) \in Runtime /\ i \in Stored
      /\ tx[w].phase = "next"
  BY CurrentFacts DEF Dismiss, IsNext
<1>2. tx'[w] = t
  BY <1>0, <1>1 DEF TypeOK
<1>3. "processed" \in Open \cup Final /\ 0 \in Times
  BY TurnConstantsOK DEF Final, Times
<1>4. /\ u \in Work /\ u.phase = "next"
      /\ \A j \in Stored : StatusIn(u, j) = IF j = i THEN "processed" ELSE StatusIn(tx[w], j)
      /\ SeenIn(u) = SeenIn(tx[w]) /\ WaitingIn(u) = WaitingIn(tx[w])
  BY <1>1, <1>3, FinishType, FinishView
<1> HIDE DEF u
<1>5. t.phase = "next" /\ t.out = u.out /\ t.new = u.new /\ t.drop = u.drop /\ t.rt = View(w)
  BY <1>4 DEF Work
<1> HIDE DEF t
<1>6. Ended(w, t, i, "processed")
  BY <1>1, <1>4, <1>5, SameView DEF Ended
<1>7. SeenIn(t) = SeenIn(tx[w]) /\ WaitingIn(t) = WaitingIn(tx[w])
  BY <1>4, <1>5, SameView
<1>8. TellsNoMore(w, t)
  BY <1>5 DEF RowOf, View, TellsNoMore
<1>9. Covered(w, i)
  BY <1>0, DismissedIsTold
<1> QED BY <1>1, <1>2, <1>6, <1>7, <1>8, <1>9 DEF JustCloses

\* A restart has begun after what it retires, and its beginning is told by the row.
LEMMA RetiredIsTold ==
  ASSUME CurrentInv, NEW w \in Workers, tx[w].phase = "retiring",
         NEW i \in tx[w].retire \cup {tx[w].cur}
  PROVE  Covered(w, i) /\ View(w) = tx[w].rt /\ i \in Stored
<1>1. /\ RowTold(View(w), tx[w]) /\ WorkInOrder(tx[w]) /\ TxOK(tx[w]) /\ TypeOK
      /\ SeenIn(tx[w]) \subseteq Times /\ WaitingIn(tx[w]) \subseteq SeenIn(tx[w])
  BY CurrentFacts
<1>2. View(w) = tx[w].rt
  BY <1>1 DEF WorkInOrder, View
<1>3. i \in Stored /\ Sent(i) <= tx[w].rt.base
  BY <1>1 DEF TxOK, CurrentInv, IInv, HeldInv, RetiresEarlier
<1>4. Sent(i) \in Times
  BY <1>1, <1>3, StoredFacts
<1>5. SeenBy(View(w), Sent(i))
  BY <1>2, <1>3 DEF SeenBy
<1> QED BY <1>1, <1>2, <1>3, <1>4, <1>5 DEF RowTold, Covered

LEMMA RetireView ==
  ASSUME CurrentInv, NEW w \in Workers, RetireEvent(w)
  PROVE  JustCloses(w, tx'[w])
<1>1. TypeOK
  BY CurrentFacts
<1>2. PICK i \in tx[w].retire, t \in Work :
        /\ \A v \in Workers \ {w} : i \notin Held(v)
        /\ i \in Stored /\ i # tx[w].cur
        /\ tx' = [tx EXCEPT ![w] = t]
        /\ TxOK(t) /\ t.todo = tx[w].todo \ {i} /\ DOMAIN t.out = DOMAIN tx[w].out \cup {i}
        /\ t.out[i].status = "processed"
        /\ \A j \in DOMAIN tx[w].out : j # i => t.out[j] = tx[w].out[j]
        /\ tx[w].phase = "retiring" /\ t.phase = "retiring" /\ t.cur = tx[w].cur
        /\ t.retire = tx[w].retire \ {i}
        /\ t.loaded = tx[w].loaded /\ t.rt = tx[w].rt
        /\ t.new = tx[w].new /\ t.drop = tx[w].drop
  BY <1>1, EventRetired
<1>3. tx'[w] = t
  BY <1>1, <1>2 DEF TypeOK
<1>4. Ended(w, t, i, "processed")
  BY <1>2 DEF Ended, StatusIn
<1>5. SeenIn(t) = SeenIn(tx[w]) /\ WaitingIn(t) = WaitingIn(tx[w])
  BY <1>2 DEF SeenIn, WaitingIn, Beginning
<1>6. Covered(w, i)
  BY <1>2, RetiredIsTold
<1>7. TellsNoMore(w, t)
  BY <1>2 DEF TellsNoMore, RowOf, View
<1> QED BY <1>2, <1>3, <1>4, <1>5, <1>6, <1>7 DEF JustCloses

\* One more turn has seen what it saw, and its answer may wait.
LEMMA AppendView ==
  ASSUME NEW t, NEW u, NEW e \in Turn, t.new \in Seq(Turn),
         u.new = Append(t.new, e), u.drop = t.drop, u.phase # "retiring",
         Beginning(t) = {} \/ (Beginning(t) = {e.seen} /\ e.reply = "queued")
  PROVE  /\ SeenIn(u) = SeenIn(t) \cup {e.seen}
         /\ WaitingIn(u) = WaitingIn(t) \cup {x \in {e.seen} : e.reply = "queued"}
<1> DEFINE n == Len(t.new)
<1>1. n \in Nat /\ DOMAIN t.new = 1..n
  BY LenProperties
<1>2. /\ DOMAIN u.new = 1..(n + 1) /\ u.new[n + 1] = e
      /\ \A k \in 1..n : u.new[k] = t.new[k]
  BY AppendProperties, LenProperties
<1> HIDE DEF n
<1>3. /\ DOMAIN t.new \subseteq DOMAIN u.new /\ n + 1 \in DOMAIN u.new
      /\ \A k \in DOMAIN u.new : k \in DOMAIN t.new \/ k = n + 1
  BY <1>1, <1>2
<1>4. {u.new[k].seen : k \in DOMAIN u.new} = {t.new[k].seen : k \in DOMAIN t.new} \cup {e.seen}
  BY <1>1, <1>2, <1>3
<1>5. {u.new[k].seen : k \in {l \in DOMAIN u.new : u.new[l].reply = "queued"}}
        = {t.new[k].seen : k \in {l \in DOMAIN t.new : t.new[l].reply = "queued"}}
            \cup {x \in {e.seen} : e.reply = "queued"}
  BY <1>1, <1>2, <1>3
<1>6. SeenIn(u) = SeenIn(t) \cup {e.seen}
  BY <1>4 DEF SeenIn, Beginning
<1>7. WaitingIn(u) = WaitingIn(t) \cup {x \in {e.seen} : e.reply = "queued"}
  BY <1>5 DEF WaitingIn, Beginning
<1> QED BY <1>6, <1>7

LEMMA FinishRestartView ==
  ASSUME CurrentInv, NEW w \in Workers, FinishRestart(w)
  PROVE  JustCloses(w, tx'[w])
<1>1. TypeOK /\ tx[w].phase = "retiring" /\ Sent(tx[w].cur) <= tx[w].rt.base
  BY CurrentFacts DEF FinishRestart, CurrentInv, IInv, HeldInv, RetiresEarlier
<1>2. PICK t \in Work, e \in Turn :
        /\ tx' = [tx EXCEPT ![w] = t]
        /\ TxOK(t) /\ Keeps(tx[w], t) /\ t.todo \cup DOMAIN t.out = Held(w)
        /\ t.todo \subseteq tx[w].todo /\ DOMAIN t.out = DOMAIN tx[w].out \cup {tx[w].cur}
        /\ t.out[tx[w].cur].status = "processed"
        /\ tx[w].phase = "retiring" /\ t.phase = "next"
        /\ t.loaded = tx[w].loaded /\ t.rt = tx[w].rt /\ t.drop = tx[w].drop
        /\ t.new = Append(tx[w].new, e) /\ tx[w].new \in Seq(Turn)
        /\ e.seen = tx[w].rt.base /\ e.batch = {} /\ e.reply = "queued"
  BY <1>1, RestartEnds
<1>3. tx'[w] = t
  BY <1>1, <1>2 DEF TypeOK
<1>4. Covered(w, tx[w].cur) /\ tx[w].cur \in Stored
  BY <1>1, RetiredIsTold
<1>5. Ended(w, t, tx[w].cur, "processed")
  BY <1>2, <1>4 DEF Ended, StatusIn, Keeps
<1>6. SeenIn(t) = SeenIn(tx[w]) /\ WaitingIn(t) = WaitingIn(tx[w])
  <2>1. Beginning(tx[w]) = {e.seen}
    BY <1>2 DEF Beginning
  <2>2. /\ SeenIn(t) = SeenIn(tx[w]) \cup {e.seen}
        /\ WaitingIn(t) = WaitingIn(tx[w]) \cup {x \in {e.seen} : e.reply = "queued"}
    BY <1>2, <2>1, AppendView
  <2>3. e.seen \in SeenIn(tx[w]) /\ e.seen \in WaitingIn(tx[w])
    BY <2>1 DEF SeenIn, WaitingIn
  <2> QED BY <2>2, <2>3
<1>7. TellsNoMore(w, t)
  BY <1>2 DEF TellsNoMore, RowOf, View
<1> QED BY <1>3, <1>4, <1>5, <1>6, <1>7 DEF JustCloses

\* A dismissal and the steps of a restart that has begun.
LEMMA ClosingCurrent ==
  ASSUME CurrentInv, OneWorker, NEW w \in Workers,
         Dismiss(w) \/ RetireEvent(w) \/ FinishRestart(w)
  PROVE  CurrentInv'
<1> DEFINE t == tx'[w]
<1>1. JustCloses(w, t)
  BY DismissView, RetireView, FinishRestartView
<1>2. IInv'
  BY DismissOrder, RetireOrder, FinishRestartOrder DEF CurrentInv
<1>3. UNCHANGED <<now, wrote, page, event, runtime, turns>>
  BY DEF Dismiss, RetireEvent, FinishRestart
<1> HIDE DEF t
<1>4. PICK i \in Stored :
        /\ Ended(w, t, i, "processed") /\ Covered(w, i) /\ TellsNoMore(w, t)
        /\ SeenIn(t) = SeenIn(tx[w]) /\ WaitingIn(t) = WaitingIn(tx[w])
  BY <1>1 DEF JustCloses
<1>5. CurrentIn(t)
  BY <1>4, CurrentFacts, ClosingKeepsCurrent DEF Ended, Covered
<1>6. RowTold(RowOf(t), t)
  BY <1>4, CurrentFacts DEF RowTold, TellsNoMore
<1> QED BY <1>2, <1>3, <1>4, <1>5, <1>6, LeavesCurrent DEF Ended, t

\* An accepted event: every answer is cancelled and the row tells nothing new.
LEMMA PreparedView ==
  ASSUME CurrentInv, NEW w \in Workers, NEW i \in tx[w].todo, tx[w].phase = "next"
  PROVE  LET t == Prepared(w, i)
         IN /\ t \in Work /\ TxOK(t) /\ t.todo = tx[w].todo /\ t.out = tx[w].out
            /\ t.phase = "next" /\ SeenIn(t) = SeenIn(tx[w]) /\ WaitingIn(t) = {}
            /\ TellsNoMore(w, t)
<1> DEFINE u == CancelPending(tx[w])
           t == Prepared(w, i)
<1>1. TypeOK /\ tx[w] \in Work /\ TxOK(tx[w]) /\ View(w) \in Runtime
  BY CurrentFacts
<1>2. u \in Work /\ u.out = tx[w].out /\ SeenIn(u) = SeenIn(tx[w]) /\ WaitingIn(u) = {}
      /\ u.phase = "next"
  BY <1>1, CancelType, CancelView
<1>3. /\ t \in Work /\ TxOK(t) /\ t.todo = tx[w].todo /\ t.out = tx[w].out /\ t.phase = "next"
      /\ t.rt = IF View(w).exists THEN [View(w) EXCEPT !.quiet = QuietUntil(i)] ELSE NoRuntime
  BY <1>1, PreparedType
<1>4. t.new = u.new /\ t.drop = u.drop
  <2> HIDE DEF u
  <2> QED BY <1>2 DEF Prepared, Work, u
<1> HIDE DEF u, t
<1>5. SeenIn(t) = SeenIn(tx[w]) /\ WaitingIn(t) = {}
  BY <1>2, <1>3, <1>4, SameView
<1>6. TellsNoMore(w, t)
  <2>1. CASE View(w).exists
    <3>1. t.rt.exists /\ t.rt.last = View(w).last /\ t.rt.base = View(w).base
      BY <1>1, <1>3, <2>1 DEF Runtime
    <3> QED BY <3>1 DEF TellsNoMore, RowOf, SeenBy
  <2>2. CASE ~View(w).exists
    <3>1. View(w) = runtime
      BY <2>2 DEF View
    <3>2. RowOf(t) = runtime
      BY <1>3, <2>2 DEF RowOf, NoRuntime
    <3> QED BY <3>1, <3>2 DEF TellsNoMore
  <2> QED BY <2>1, <2>2
<1> QED BY <1>3, <1>5, <1>6 DEF t

\* With no answer waiting, what remains to be shown of a step.
LEMMA NothingWaits ==
  ASSUME CurrentInv, OneWorker, NEW w \in Workers, NEW t, tx'[w] = t, IInv',
         UNCHANGED <<now, wrote, page, event, runtime, turns>>,
         WaitingIn(t) = {}, SeenIn(tx[w]) \subseteq SeenIn(t), TellsNoMore(w, t)
  PROVE  CurrentInv'
<1>1. CurrentIn(t)
  BY DEF CurrentIn
<1>2. RowTold(RowOf(t), t)
  BY CurrentFacts DEF RowTold, TellsNoMore
<1> QED BY <1>1, <1>2, LeavesCurrent

LEMMA DeferView ==
  ASSUME CurrentInv, NEW w \in Workers, Defer(w)
  PROVE  \E i \in tx[w].todo :
           LET t == tx'[w]
           IN /\ Ended(w, t, i, "retry") /\ TellsNoMore(w, t)
              /\ SeenIn(t) = SeenIn(tx[w]) /\ WaitingIn(t) = {}
<1>0. PICK i \in tx[w].todo :
        /\ tx[w].phase = "next"
        /\ tx' = [tx EXCEPT ![w] = Finish(Prepared(w, i), i, "retry", QuietUntil(i))]
  BY DEF Defer, Deferred, Accepts, IsNext
<1> DEFINE u == Prepared(w, i)
           t == Finish(u, i, "retry", QuietUntil(i))
<1>1. TypeOK /\ tx[w] \in Work /\ TxOK(tx[w]) /\ i \in Stored
  BY CurrentFacts
<1>2. tx'[w] = t
  BY <1>0, <1>1 DEF TypeOK
<1>3. "retry" \in Open \cup Final /\ QuietUntil(i) \in Times
  BY <1>1, StoredFacts DEF TxOK, Open
<1>4. /\ u \in Work /\ TxOK(u) /\ u.todo = tx[w].todo /\ u.out = tx[w].out
      /\ SeenIn(u) = SeenIn(tx[w]) /\ WaitingIn(u) = {} /\ TellsNoMore(w, u)
      /\ u.phase = "next"
  BY <1>0, PreparedView
<1> HIDE DEF u
<1>5. /\ t.phase = "next" /\ t.rt = u.rt
      /\ \A j \in Stored : StatusIn(t, j) = IF j = i THEN "retry" ELSE StatusIn(u, j)
      /\ SeenIn(t) = SeenIn(u) /\ WaitingIn(t) = WaitingIn(u)
  BY <1>1, <1>3, <1>4, FinishType, FinishView
<1> HIDE DEF t
<1>6. Ended(w, t, i, "retry")
  BY <1>0, <1>1, <1>4, <1>5, SameView DEF Ended
<1>7. TellsNoMore(w, t)
  BY <1>4, <1>5 DEF TellsNoMore, RowOf
<1> QED BY <1>2, <1>4, <1>5, <1>6, <1>7

LEMMA StartTurnView ==
  ASSUME CurrentInv, NEW w \in Workers, StartTurn(w)
  PROVE  LET t == tx'[w]
         IN /\ t.phase = "ready" /\ TellsNoMore(w, t)
            /\ \A j \in Stored : StatusIn(t, j) = StatusIn(tx[w], j)
            /\ SeenIn(t) = SeenIn(tx[w]) /\ WaitingIn(t) = {}
<1>0. PICK i \in tx[w].todo :
        /\ tx[w].phase = "next"
        /\ tx' = [tx EXCEPT ![w] = [Prepared(w, i) EXCEPT !.phase = "ready", !.cur = i]]
  BY DEF StartTurn, Accepts, IsNext
<1> DEFINE u == Prepared(w, i)
           t == [u EXCEPT !.phase = "ready", !.cur = i]
<1>1. TypeOK
  BY CurrentFacts
<1>2. tx'[w] = t
  BY <1>0, <1>1 DEF TypeOK
<1>3. /\ u \in Work /\ u.out = tx[w].out
      /\ SeenIn(u) = SeenIn(tx[w]) /\ WaitingIn(u) = {} /\ TellsNoMore(w, u)
      /\ u.phase = "next"
  BY <1>0, PreparedView
<1> HIDE DEF u
<1>4. t.phase = "ready" /\ t.out = u.out /\ t.new = u.new /\ t.drop = u.drop /\ t.rt = u.rt
  BY <1>3 DEF Work
<1> HIDE DEF t
<1>5. /\ \A j \in Stored : StatusIn(t, j) = StatusIn(tx[w], j)
      /\ SeenIn(t) = SeenIn(tx[w]) /\ WaitingIn(t) = {}
  <2>1. \A j \in Stored : StatusIn(u, j) = StatusIn(tx[w], j)
    BY <1>0, <1>3, SameView
  <2>2. /\ \A j \in Stored : StatusIn(t, j) = StatusIn(u, j)
        /\ SeenIn(t) = SeenIn(u) /\ WaitingIn(t) = WaitingIn(u)
    BY <1>3, <1>4, SameView
  <2> QED BY <1>3, <2>1, <2>2
<1>6. TellsNoMore(w, t)
  BY <1>3, <1>4 DEF TellsNoMore, RowOf
<1> QED BY <1>2, <1>4, <1>5, <1>6

\* The run reads a batch and takes its newest message.
LEMMA ReadBatchView ==
  ASSUME CurrentInv, NEW w \in Workers, ReadBatch(w)
  PROVE  \E S \in SUBSET SinceLastOutbound :
           LET t == tx'[w]
               batch == IF S = {} THEN {tx[w].cur} ELSE S
           IN /\ IsBatch(S) /\ t.upto \in Newest(batch) /\ t.cur = tx[w].cur
              /\ t.phase = "thinking" /\ TellsNoMore(w, t)
              /\ \A j \in Stored : StatusIn(t, j) = StatusIn(tx[w], j)
              /\ SeenIn(t) = SeenIn(tx[w]) /\ WaitingIn(t) = WaitingIn(tx[w])
<1>0. PICK S \in SUBSET SinceLastOutbound :
        /\ IsBatch(S)
        /\ \E p \in Newest(IF S = {} THEN {tx[w].cur} ELSE S) :
             tx' = [tx EXCEPT ![w] = [tx[w] EXCEPT !.phase = "thinking",
                      !.batch = IF S = {} THEN {tx[w].cur} ELSE S,
                      !.upto = p, !.loaded = Loaded(w),
                      !.rt = [View(w) EXCEPT !.exists = TRUE]]]
  BY DEF ReadBatch, CurrentInv, IInv, HeldInv, TypeOK
<1> DEFINE batch == IF S = {} THEN {tx[w].cur} ELSE S
           r == [View(w) EXCEPT !.exists = TRUE]
<1>1. PICK p \in Newest(batch) :
        tx' = [tx EXCEPT ![w] = [tx[w] EXCEPT !.phase = "thinking", !.batch = batch,
                 !.upto = p, !.loaded = Loaded(w), !.rt = r]]
  BY <1>0
<1> DEFINE t == [tx[w] EXCEPT !.phase = "thinking", !.batch = batch,
                              !.upto = p, !.loaded = Loaded(w), !.rt = r]
<1>2. TypeOK /\ tx[w] \in Work /\ View(w) \in Runtime /\ tx[w].phase = "ready"
  BY CurrentFacts DEF ReadBatch
<1>3. tx'[w] = t
  BY <1>1, <1>2 DEF TypeOK
<1>4. r.exists /\ r.last = View(w).last /\ r.base = View(w).base
  BY <1>2 DEF Runtime
<1> HIDE DEF batch, r
<1>5. /\ t.phase = "thinking" /\ t.upto = p /\ t.cur = tx[w].cur /\ t.rt = r
      /\ t.out = tx[w].out /\ t.new = tx[w].new /\ t.drop = tx[w].drop
  BY <1>2 DEF Work
<1> HIDE DEF t
<1>6. /\ \A j \in Stored : StatusIn(t, j) = StatusIn(tx[w], j)
      /\ SeenIn(t) = SeenIn(tx[w]) /\ WaitingIn(t) = WaitingIn(tx[w])
  BY <1>2, <1>5, SameView
<1>7. TellsNoMore(w, t)
  BY <1>4, <1>5 DEF TellsNoMore, RowOf, SeenBy
<1>8. IsBatch(S) /\ t.upto \in Newest(batch)
  BY <1>0, <1>1, <1>5
<1> QED BY <1>3, <1>5, <1>6, <1>7, <1>8 DEF batch

\* A run without a turn: superseded or failed.
LEMMA NoTurnView ==
  ASSUME CurrentInv, NEW w \in Workers, Supersede(w) \/ TurnFails(w)
  PROVE  LET t == tx'[w]
         IN /\ \E s \in {"processed", "failed"} :
                 /\ Ended(w, t, tx[w].cur, s)
                 /\ s = "processed" => HasNewerInbound(tx[w].upto)
            /\ TellsNoMore(w, t)
            /\ SeenIn(t) = SeenIn(tx[w]) /\ WaitingIn(t) = WaitingIn(tx[w])
<1>1. TypeOK /\ tx[w] \in Work /\ TxOK(tx[w]) /\ tx[w].cur \in tx[w].todo /\ 0 \in Times
      /\ tx[w].phase = "thinking" /\ tx[w].cur \in Stored
  BY CurrentFacts, TurnConstantsOK DEF TxOK, Supersede, TurnFails, Times
<1>0. PICK t : t = tx'[w]
  OBVIOUS
<1>2. PICK s \in {"processed", "failed"} :
        /\ tx'[w] = t
        /\ s = "processed" => HasNewerInbound(tx[w].upto)
        /\ LET u == Finish(tx[w], tx[w].cur, s, 0)
           IN \/ t = u
              \/ /\ tx[w].rt.exists
                 /\ t = [u EXCEPT !.rt = [tx[w].rt EXCEPT !.version = tx[w].rt.version + 1]]
  <2>1. CASE Supersede(w)
    <3>1. tx[w].rt.exists /\ HasNewerInbound(tx[w].upto)
      BY <2>1, CurrentFacts DEF Supersede, WorkInOrder
    <3>2. tx'[w] = [Finish(tx[w], tx[w].cur, "processed", 0)
                     EXCEPT !.rt = [tx[w].rt EXCEPT !.version = tx[w].rt.version + 1]]
      BY <1>1, <2>1 DEF Supersede, TypeOK
    <3> QED BY <1>0, <3>1, <3>2
  <2>2. CASE TurnFails(w)
    <3>1. tx'[w] = Finish(tx[w], tx[w].cur, "failed", 0)
      BY <1>1, <2>2 DEF TurnFails, TypeOK
    <3> QED BY <1>0, <3>1
  <2> QED BY <2>1, <2>2
<1> DEFINE u == Finish(tx[w], tx[w].cur, s, 0)
<1>3. s \in Open \cup Final
  BY DEF Final
<1>4. /\ u \in Work /\ u.phase = "next" /\ u.rt = tx[w].rt
      /\ \A j \in Stored : StatusIn(u, j) = IF j = tx[w].cur THEN s ELSE StatusIn(tx[w], j)
      /\ SeenIn(u) = SeenIn(tx[w]) /\ WaitingIn(u) = WaitingIn(tx[w])
  BY <1>1, <1>3, FinishType, FinishView
<1>5. \/ t = u
      \/ /\ tx[w].rt.exists
         /\ t = [u EXCEPT !.rt = [tx[w].rt EXCEPT !.version = tx[w].rt.version + 1]]
  BY <1>2
<1> HIDE DEF u
<1>6. /\ t.phase = "next" /\ t.out = u.out /\ t.new = u.new /\ t.drop = u.drop
      /\ t.rt.exists = tx[w].rt.exists
      /\ t.rt.exists => t.rt.last = tx[w].rt.last /\ t.rt.base = tx[w].rt.base
  <2>1. tx[w].rt \in Runtime
    BY <1>1 DEF Work
  <2>2. CASE t = u
    BY <1>4, <2>2
  <2>3. CASE t # u
    <3> DEFINE r == [tx[w].rt EXCEPT !.version = tx[w].rt.version + 1]
    <3>1. r.exists = tx[w].rt.exists /\ r.last = tx[w].rt.last /\ r.base = tx[w].rt.base
      BY <2>1 DEF Runtime
    <3>2. t = [u EXCEPT !.rt = r]
      BY <1>5, <2>3
    <3> HIDE DEF r
    <3>3. t.phase = "next" /\ t.out = u.out /\ t.new = u.new /\ t.drop = u.drop /\ t.rt = r
      BY <1>4, <3>2 DEF Work
    <3> QED BY <3>1, <3>3
  <2> QED BY <2>2, <2>3
<1>7. Ended(w, t, tx[w].cur, s)
  BY <1>1, <1>4, <1>6, SameView DEF Ended
<1>8. SeenIn(t) = SeenIn(tx[w]) /\ WaitingIn(t) = WaitingIn(tx[w])
  BY <1>4, <1>6, SameView
<1>9. TellsNoMore(w, t)
  BY <1>6 DEF TellsNoMore, RowOf, View, SeenBy
<1> QED BY <1>2, <1>7, <1>8, <1>9

\* A turn about everything that is stored.
LEMMA DecideView ==
  ASSUME CurrentInv, NEW w \in Workers, Decide(w)
  PROVE  LET t == tx'[w]
             p == tx[w].upto
         IN /\ Ended(w, t, tx[w].cur, "processed") /\ p \in Stored /\ ~HasNewerInbound(p)
            /\ SeenIn(t) = SeenIn(tx[w]) \cup {Sent(p)}
            /\ WaitingIn(t) \subseteq {Sent(p)}
            /\ \A x \in Times : SeenBy(RowOf(t), x) => SeenBy(View(w), x) \/ x <= Sent(p)
<1>0. PICK reply \in {"none", "queued"} :
        tx' = [tx EXCEPT ![w] = [Finish(tx[w], tx[w].cur, "processed", 0) EXCEPT
                !.rt = [tx[w].rt EXCEPT !.last = tx[w].upto, !.version = tx[w].rt.version + 1],
                !.new = Append(tx[w].new,
                          [seen |-> Sent(tx[w].upto), batch |-> tx[w].batch,
                           at |-> tx[w].at, version |-> tx[w].rt.version + 1,
                           reply |-> reply])]]
  BY DEF Decide
<1> DEFINE p == tx[w].upto
           u == Finish(tx[w], tx[w].cur, "processed", 0)
           r == [tx[w].rt EXCEPT !.last = tx[w].upto, !.version = tx[w].rt.version + 1]
           e == [seen |-> Sent(tx[w].upto), batch |-> tx[w].batch,
                 at |-> tx[w].at, version |-> tx[w].rt.version + 1, reply |-> reply]
           t == [u EXCEPT !.rt = r, !.new = Append(tx[w].new, e)]
<1>1. /\ TypeOK /\ tx[w] \in Work /\ TxOK(tx[w]) /\ tx[w].phase = "thinking"
      /\ ~HasNewerInbound(p) /\ tx[w].cur \in tx[w].todo /\ WorkInOrder(tx[w])
      /\ "processed" \in Open \cup Final /\ 0 \in Times /\ tx[w].cur \in Stored
  BY CurrentFacts, TurnConstantsOK DEF TxOK, Decide, Times, Final
<1>2. p \in Stored /\ Sent(p) \in Times /\ p \in Messages
  BY <1>1, StoredFacts DEF TxOK
<1>3. /\ tx[w].rt \in Runtime /\ tx[w].new \in Seq(Turn) /\ tx[w].at \in Times
      /\ tx[w].batch \in SUBSET Messages /\ tx[w].rt.version + 1 \in Nat
  BY <1>1 DEF Work, Runtime
<1>4. e \in Turn /\ e.seen = Sent(p)
  BY <1>2, <1>3 DEF Turn
<1>5. tx'[w] = t
  BY <1>0, <1>1 DEF TypeOK
<1>6. r.exists /\ r.last = p /\ r.base = tx[w].rt.base /\ tx[w].rt.exists
  BY <1>1, <1>3 DEF Runtime, WorkInOrder
<1>7. /\ u \in Work /\ u.phase = "next" /\ u.new = tx[w].new
      /\ \A j \in Stored :
           StatusIn(u, j) = IF j = tx[w].cur THEN "processed" ELSE StatusIn(tx[w], j)
      /\ SeenIn(u) = SeenIn(tx[w]) /\ WaitingIn(u) = WaitingIn(tx[w])
  BY <1>1, FinishType, FinishView
<1>8. WaitingIn(tx[w]) = {}
  BY <1>1 DEF CurrentInv, WorkCurrent
<1> HIDE DEF u, r, e
<1>9. /\ t.phase = "next" /\ t.rt = r /\ t.out = u.out /\ t.drop = u.drop
      /\ t.new = Append(u.new, e)
  BY <1>7 DEF Work
<1> HIDE DEF t
<1>10. Ended(w, t, tx[w].cur, "processed")
  BY <1>1, <1>7, <1>9, SameView DEF Ended
<1>11. /\ SeenIn(t) = SeenIn(u) \cup {e.seen}
       /\ WaitingIn(t) = WaitingIn(u) \cup {x \in {e.seen} : e.reply = "queued"}
  <2>1. Beginning(u) = {}
    BY <1>7 DEF Beginning
  <2>2. u.new \in Seq(Turn) /\ t.new = Append(u.new, e) /\ t.drop = u.drop
    BY <1>3, <1>7, <1>9
  <2>3. e \in Turn /\ t.phase # "retiring"
    BY <1>4, <1>9
  <2> QED BY <2>1, <2>2, <2>3, AppendView
<1>12. \A x \in Times : SeenBy(RowOf(t), x) => SeenBy(View(w), x) \/ x <= Sent(p)
  BY <1>6, <1>9 DEF RowOf, View, SeenBy
<1> QED BY <1>1, <1>2, <1>4, <1>5, <1>7, <1>8, <1>10, <1>11, <1>12

\* A restart has seen everything there is; only its first message waits.
\* A restart that begins: its first message, still to come, is the only one to wait.
LEMMA RestartView ==
  ASSUME CurrentInv, NEW w \in Workers, RestartDialog(w)
  PROVE  LET t == tx'[w]
         IN /\ t.phase = "retiring" /\ SeenIn(t) = SeenIn(tx[w]) \cup {now}
            /\ WaitingIn(t) = {now}
            /\ \A x \in Times : SeenBy(RowOf(t), x) => x <= now
<1> DEFINE u == CancelPending(tx[w])
<1>1. /\ TypeOK /\ MessagesOrdered /\ tx[w] \in Work /\ TxOK(tx[w]) /\ now \in Times
  BY CurrentFacts DEF TypeOK
<1>2. PICK i \in tx[w].todo, t \in Work :
        /\ IsNext(w, i) /\ wrote[i].text = "restart"
        /\ tx' = [tx EXCEPT ![w] = t]
        /\ TxOK(t) /\ Keeps(tx[w], t) /\ t.todo = tx[w].todo /\ t.out = tx[w].out
        /\ t.phase = "retiring" /\ t.cur = i /\ t.retire = OtherOpen(w, i)
        /\ t.loaded = Loaded(w)
        /\ t.rt = [exists |-> TRUE, last |-> i, quiet |-> 0, base |-> now,
                   version |-> View(w).version + 1]
        /\ t.new = u.new /\ t.drop = u.drop
  BY <1>1, RestartBegun
<1>3. tx[w].phase = "next" /\ i \in Stored /\ Sent(i) \in Times
  BY <1>2, CurrentFacts DEF IsNext
<1>4. u.phase = "next" /\ SeenIn(u) = SeenIn(tx[w]) /\ WaitingIn(u) = {}
  BY <1>1, <1>3, CancelType, CancelView
<1>5. t.rt.exists /\ t.rt.last = i /\ t.rt.base = now
  BY <1>2
<1>6. tx'[w] = t
  BY <1>1, <1>2 DEF TypeOK
<1>7. t.new = u.new /\ t.drop = u.drop /\ t.phase = "retiring"
  BY <1>2
<1> HIDE DEF u
<1>8. Beginning(t) = {now} /\ Beginning(u) = {}
  BY <1>4, <1>5, <1>7 DEF Beginning
<1>9. SeenIn(t) = SeenIn(tx[w]) \cup {now} /\ WaitingIn(t) = {now}
  <2>1. SeenIn(t) = {now} \cup SeenIn(u) /\ WaitingIn(t) = {now} \cup WaitingIn(u)
    BY <1>7, <1>8 DEF SeenIn, WaitingIn
  <2> QED BY <1>4, <2>1
<1>10. Sent(i) <= now
  BY <1>1, <1>3, StoredFacts DEF MessagesOrdered
<1>11. ASSUME NEW x \in Times, SeenBy(RowOf(t), x) PROVE x <= now
  BY <1>1, <1>3, <1>5, <1>10, <1>11 DEF RowOf, SeenBy, Times
<1> QED BY <1>6, <1>7, <1>9, <1>11

LEMMA WorkCurrentStep ==
  ASSUME CurrentInv, OneWorker, NEW w \in Workers,
         \/ Dismiss(w) \/ Defer(w) \/ StartTurn(w) \/ ReadBatch(w)
         \/ RestartDialog(w) \/ RetireEvent(w) \/ FinishRestart(w)
         \/ Supersede(w) \/ Decide(w) \/ TurnFails(w)
  PROVE  CurrentInv'
<1> DEFINE t == tx'[w]
<1>1. CASE Dismiss(w) \/ RetireEvent(w) \/ FinishRestart(w)
  BY <1>1, ClosingCurrent
<1>2. CASE Defer(w)
  <2>1. IInv' /\ UNCHANGED <<now, wrote, page, event, runtime, turns>>
    BY <1>2, DeferOrder DEF CurrentInv, Defer
  <2>2. SeenIn(t) = SeenIn(tx[w]) /\ WaitingIn(t) = {} /\ TellsNoMore(w, t)
    BY <1>2, DeferView
  <2> HIDE DEF t
  <2> QED BY <2>1, <2>2, NothingWaits DEF t
<1>3. CASE StartTurn(w)
  <2>1. IInv' /\ UNCHANGED <<now, wrote, page, event, runtime, turns>>
    BY <1>3, StartTurnOrder DEF CurrentInv, StartTurn
  <2>2. SeenIn(t) = SeenIn(tx[w]) /\ WaitingIn(t) = {} /\ TellsNoMore(w, t)
    BY <1>3, StartTurnView
  <2> HIDE DEF t
  <2> QED BY <2>1, <2>2, NothingWaits DEF t
<1>4. CASE ReadBatch(w)
  <2>1. IInv' /\ UNCHANGED <<now, wrote, page, event, runtime, turns>>
    BY <1>4, ReadBatchOrder DEF CurrentInv, ReadBatch
  <2>2. SeenIn(t) = SeenIn(tx[w]) /\ WaitingIn(t) = WaitingIn(tx[w]) /\ TellsNoMore(w, t)
    BY <1>4, ReadBatchView
  <2>3. WaitingIn(tx[w]) = {}
    BY <1>4 DEF ReadBatch, CurrentInv, WorkCurrent
  <2> HIDE DEF t
  <2> QED BY <2>1, <2>2, <2>3, NothingWaits DEF t
<1>5. CASE Supersede(w) \/ TurnFails(w)
  <2>1. IInv' /\ UNCHANGED <<now, wrote, page, event, runtime, turns>>
    BY <1>5, NoTurnOrder DEF CurrentInv, Supersede, TurnFails
  <2>2. SeenIn(t) = SeenIn(tx[w]) /\ WaitingIn(t) = WaitingIn(tx[w]) /\ TellsNoMore(w, t)
    BY <1>5, NoTurnView
  <2>3. WaitingIn(tx[w]) = {}
    BY <1>5 DEF Supersede, TurnFails, CurrentInv, WorkCurrent
  <2> HIDE DEF t
  <2> QED BY <2>1, <2>2, <2>3, NothingWaits DEF t
<1>6. CASE Decide(w)
  <2> DEFINE p == tx[w].upto
  <2>1. IInv' /\ UNCHANGED <<now, wrote, page, event, runtime, turns>>
    BY <1>6, DecideOrder DEF CurrentInv, Decide
  <2>2. /\ t.phase \in {"next", "retiring"} /\ p \in Stored /\ ~HasNewerInbound(p)
        /\ SeenIn(t) = SeenIn(tx[w]) \cup {Sent(p)} /\ WaitingIn(t) \subseteq {Sent(p)}
        /\ \A x \in Times : SeenBy(RowOf(t), x) => SeenBy(View(w), x) \/ x <= Sent(p)
    BY <1>6, DecideView DEF Ended
  <2>3. /\ TypeOK /\ RowTold(View(w), tx[w]) /\ WorkInOrder(tx[w]) /\ TxOK(tx[w])
        /\ SeenIn(tx[w]) \subseteq Times
    BY CurrentFacts
  <2>4. \A i \in Stored : Sent(i) \in Times /\ Sent(i) <= Sent(p)
    BY <2>2, <2>3, StoredFacts DEF HasNewerInbound, Times
  <2> HIDE DEF t
  <2>5. CurrentIn(t)
    BY <2>2, <2>4 DEF CurrentIn, Times
  \* All that was seen before the run is older than its message.
  <2>6. \A x \in Times : SeenBy(View(w), x) => x <= Sent(p)
    <3>1. tx[w].phase = "thinking" /\ tx[w].cur \in Stored
      BY <1>6, <2>3 DEF Decide, TxOK
    <3>2. \A seen \in SeenIn(tx[w]) : seen < Sent(tx[w].cur)
      BY <2>3, <3>1 DEF WorkInOrder, SeenIn, Beginning
    <3> QED BY <2>3, <2>4, <2>2, <3>1, <3>2 DEF RowTold, Times
  <2>7. RowTold(RowOf(t), t)
    BY <2>2, <2>4, <2>6 DEF RowTold
  <2> QED BY <2>1, <2>2, <2>5, <2>7, LeavesCurrent DEF t
<1>7. CASE RestartDialog(w)
  <2>1. IInv' /\ UNCHANGED <<now, wrote, page, event, runtime, turns>>
    BY <1>7, RestartOrder DEF CurrentInv, RestartDialog
  <2>2. /\ t.phase = "retiring" /\ SeenIn(t) = SeenIn(tx[w]) \cup {now} /\ WaitingIn(t) = {now}
        /\ \A x \in Times : SeenBy(RowOf(t), x) => x <= now
    BY <1>7, RestartView
  <2>3. \A i \in Stored : ~(Sent(i) > now)
    BY CurrentFacts, StoredFacts DEF MessagesOrdered, TypeOK, Times
  <2> HIDE DEF t
  <2>4. CurrentIn(t)
    BY <2>2, <2>3 DEF CurrentIn
  <2>5. RowTold(RowOf(t), t)
    BY <2>2 DEF RowTold
  <2> QED BY <2>1, <2>2, <2>4, <2>5, LeavesCurrent DEF t
<1> QED BY <1>1, <1>2, <1>3, <1>4, <1>5, <1>6, <1>7

\* Idle work shows what is committed.
LEMMA IdleView ==
  ASSUME NEW t, t.out = NoOutcome, t.new = <<>>, t.drop = {}, t.rt = NoRuntime,
         t.phase # "retiring"
  PROVE  /\ SeenIn(t) = SeenIn(Idle) /\ WaitingIn(t) = WaitingIn(Idle)
         /\ \A j \in Stored : StatusIn(t, j) = event[j].status
         /\ \A j \in Stored : StatusIn(Idle, j) = event[j].status
         /\ SeenIn(Idle) = {turns[k].seen : k \in DOMAIN turns}
         /\ WaitingIn(Idle) = {turns[k].seen : k \in QueuedTurns}
         /\ RowOf(t) = runtime
<1>1. Idle.out = NoOutcome /\ Idle.new = <<>> /\ Idle.drop = {} /\ Idle.phase = "idle"
  BY DEF Idle
<1>2. DOMAIN NoOutcome = {} /\ DOMAIN <<>> = {} /\ ~NoRuntime.exists
  <2>1. <<>> \in Seq({}) /\ Len(<<>>) = 0
    BY EmptySeq
  <2> QED BY <2>1, LenProperties DEF NoOutcome, NoRuntime
<1>3. /\ \A j \in Stored : StatusIn(t, j) = event[j].status
      /\ \A j \in Stored : StatusIn(Idle, j) = event[j].status
  BY <1>1, <1>2 DEF StatusIn
<1>4. SeenIn(t) = SeenIn(Idle) /\ SeenIn(Idle) = {turns[k].seen : k \in DOMAIN turns}
  BY <1>1, <1>2 DEF SeenIn, Beginning
<1>5. WaitingIn(t) = WaitingIn(Idle) /\ WaitingIn(Idle) = {turns[k].seen : k \in QueuedTurns}
  BY <1>1, <1>2 DEF WaitingIn, Beginning
<1> QED BY <1>2, <1>3, <1>4, <1>5 DEF RowOf

\* A batch that begins, and one that is lost.
LEMMA AnewWork ==
  ASSUME TypeOK, NEW w \in Workers, Claim(w) \/ Rollback(w)
  PROVE  LET t == tx'[w]
         IN /\ t.phase \in {"idle", "next"}
            /\ t.out = NoOutcome /\ t.new = <<>> /\ t.drop = {} /\ t.rt = NoRuntime
<1>1. PICK t : /\ tx' = [tx EXCEPT ![w] = t] /\ t.phase \in {"idle", "next"}
               /\ t.out = NoOutcome /\ t.new = <<>> /\ t.drop = {} /\ t.rt = NoRuntime
  <2>1. CASE Claim(w)
    <3>1. PICK batch \in SUBSET Claimable :
            tx' = [tx EXCEPT ![w] = [Idle EXCEPT !.phase = "next", !.at = now,
                                                 !.todo = batch]]
      BY <2>1 DEF Claim
    <3>2. LET t == [Idle EXCEPT !.phase = "next", !.at = now, !.todo = batch]
          IN /\ t.phase = "next" /\ t.out = NoOutcome /\ t.new = <<>> /\ t.drop = {}
             /\ t.rt = NoRuntime
      BY DEF Idle
    <3> QED BY <3>1, <3>2
  <2>2. CASE Rollback(w)
    <3>1. tx' = [tx EXCEPT ![w] = Idle]
      BY <2>2 DEF Rollback
    <3>2. /\ Idle.phase = "idle" /\ Idle.out = NoOutcome /\ Idle.new = <<>> /\ Idle.drop = {}
          /\ Idle.rt = NoRuntime
      BY DEF Idle
    <3> QED BY <3>1, <3>2
  <2> QED BY <2>1, <2>2
<1>2. tx'[w] = t
  BY <1>1 DEF TypeOK
<1> QED BY <1>1, <1>2

LEMMA AnewCurrent ==
  ASSUME CurrentInv, OneWorker, NEW w \in Workers, Claim(w) \/ Rollback(w)
  PROVE  CurrentInv'
<1> DEFINE t == tx'[w]
<1>1. IInv' /\ TypeOK /\ UNCHANGED <<now, wrote, page, event, runtime, turns>>
  BY ClaimOrder, CurrentFacts DEF CurrentInv, Claim, Rollback
<1>2. /\ t.phase \in {"idle", "next"}
      /\ t.out = NoOutcome /\ t.new = <<>> /\ t.drop = {} /\ t.rt = NoRuntime
  BY <1>1, AnewWork
<1> HIDE DEF t
<1>3. CurrentIn(Idle) /\ RowTold(runtime, Idle)
  BY DEF CurrentInv
<1>4. CurrentIn(t)
  BY <1>2, <1>3, IdleView DEF CurrentIn
<1>5. RowTold(RowOf(t), t)
  BY <1>2, <1>3, IdleView DEF RowTold
<1> QED BY <1>1, <1>2, <1>4, <1>5, LeavesCurrent DEF t

\* The committed turns are those that the transaction showed.
LEMMA CommittedView ==
  ASSUME TypeOK, NEW w \in Workers, Commit(w)
  PROVE  /\ {turns'[k].seen : k \in DOMAIN turns'} = SeenIn(tx[w])
         /\ {turns'[k].seen : k \in {l \in DOMAIN turns' : turns'[l].reply = "queued"}}
              = WaitingIn(tx[w])
<1> DEFINE n == Len(turns)
           new == tx[w].new
<1>1. /\ DOMAIN turns' = 1..(n + Len(new))
      /\ \A k \in DOMAIN turns : /\ turns'[k].seen = turns[k].seen
                                 /\ turns'[k].reply = IF k \in tx[w].drop THEN "dropped"
                                                      ELSE turns[k].reply
      /\ \A k \in DOMAIN new : turns'[n + k] = new[k]
  BY CommittedTurns
<1>2. n \in Nat /\ DOMAIN turns = 1..n /\ Len(new) \in Nat /\ DOMAIN new = 1..Len(new)
  BY StoredFacts, CommittedTurns, LenProperties
<1> HIDE DEF n, new
<1>3. /\ \A k \in DOMAIN turns : k \in DOMAIN turns'
      /\ \A k \in DOMAIN new : n + k \in DOMAIN turns'
  BY <1>1, <1>2
<1>4. \A k \in DOMAIN turns' : k \in DOMAIN turns \/ \E l \in DOMAIN new : k = n + l
  <2> TAKE k \in DOMAIN turns'
  <2>1. CASE k <= n
    BY <1>1, <1>2, <2>1
  <2>2. CASE k > n
    <3>1. k - n \in DOMAIN new /\ k = n + (k - n)
      BY <1>1, <1>2, <2>2
    <3> QED BY <3>1
  <2> QED BY <1>1, <1>2, <2>1, <2>2
<1>5. {turns'[k].seen : k \in DOMAIN turns'}
        = {turns[k].seen : k \in DOMAIN turns} \cup {new[k].seen : k \in DOMAIN new}
  BY <1>1, <1>3, <1>4
<1>6. {turns'[k].seen : k \in {l \in DOMAIN turns' : turns'[l].reply = "queued"}}
        = {turns[k].seen : k \in QueuedTurns \ tx[w].drop}
            \cup {new[k].seen : k \in {l \in DOMAIN new : new[l].reply = "queued"}}
  BY <1>1, <1>3, <1>4 DEF QueuedTurns
<1>7. Beginning(tx[w]) = {}
  BY DEF Commit, Beginning
<1> QED BY <1>5, <1>6, <1>7 DEF SeenIn, WaitingIn, new

LEMMA CommitView ==
  ASSUME CurrentInv, OneWorker, NEW w \in Workers, Commit(w)
  PROVE  /\ IInv' /\ UNCHANGED <<now, wrote, page>> /\ \A v \in Workers : tx'[v] = Idle
         /\ SeenIn(Idle)' = SeenIn(tx[w]) /\ WaitingIn(Idle)' = WaitingIn(tx[w])
         /\ \A j \in Stored : StatusIn(Idle, j)' = StatusIn(tx[w], j)
         /\ \A v \in Workers : View(v)' = runtime'
         /\ \A x \in Times : SeenBy(runtime, x)' => SeenBy(View(w), x)
<1>1. TypeOK /\ IInv /\ WorkInOrder(tx[w]) /\ tx[w] \in Work
  BY CurrentFacts
<1>2. IInv' /\ UNCHANGED <<now, wrote, page>>
  BY <1>1, CommitOrder DEF Commit
<1>3. \A v \in Workers : tx'[v] = Idle
  BY <1>1, CommitStep DEF OneWorker, TypeOK
<1>4. /\ SeenIn(Idle)' = {turns'[k].seen : k \in DOMAIN turns'}
      /\ WaitingIn(Idle)' = {turns'[k].seen : k \in {l \in DOMAIN turns' : turns'[l].reply = "queued"}}
  <2>1. Idle.new = <<>> /\ Idle.drop = {} /\ DOMAIN <<>> = {} /\ Idle.phase = "idle"
    <3>1. <<>> \in Seq({}) /\ Len(<<>>) = 0
      BY EmptySeq
    <3> QED BY <3>1, LenProperties DEF Idle
  <2> QED BY <2>1 DEF SeenIn, WaitingIn, Beginning, QueuedTurns
<1>5. \A j \in Stored : StatusIn(Idle, j)' = StatusIn(tx[w], j)
  <2>1. \A j \in Stored : event'[j] = ViewEvent(w, j)
    BY <1>1, CommitStep
  <2>2. Idle.out = NoOutcome /\ DOMAIN NoOutcome = {}
    BY DEF Idle, NoOutcome
  <2> QED BY <2>1, <2>2 DEF StatusIn, ViewEvent, Handled
<1>6. \A v \in Workers : View(v)' = runtime'
  BY <1>3 DEF View, Idle, NoRuntime
<1>7. \A x \in Times : SeenBy(runtime, x)' => SeenBy(View(w), x)
  <2>1. CASE tx[w].rt.exists
    <3>1. tx[w].rt \in Runtime /\ runtime \in Runtime /\ tx[w].loaded = runtime
      BY <1>1, <2>1 DEF Work, WorkInOrder, TypeOK
    <3>2. runtime' = Merged(runtime, tx[w].loaded, tx[w].rt)
      BY <2>1 DEF Commit
    <3>3. runtime'.last = tx[w].rt.last /\ runtime'.base = tx[w].rt.base
      BY <3>1, <3>2 DEF Merged, Updated
    <3> QED BY <1>2, <2>1, <3>3 DEF SeenBy, Sent, View
  <2>2. CASE ~tx[w].rt.exists
    BY <1>2, <2>2 DEF Commit, SeenBy, Sent, View
  <2> QED BY <2>1, <2>2
<1> QED BY <1>1, <1>2, <1>3, <1>4, <1>5, <1>6, <1>7, CommittedView

LEMMA CommitCurrent ==
  ASSUME CurrentInv, OneWorker, NEW w \in Workers, Commit(w)
  PROVE  CurrentInv'
<1>1. CurrentIn(tx[w]) /\ RowTold(View(w), tx[w])
  BY CurrentFacts
<1>2. /\ IInv' /\ UNCHANGED <<now, wrote, page>> /\ \A v \in Workers : tx'[v] = Idle
      /\ SeenIn(Idle)' = SeenIn(tx[w]) /\ WaitingIn(Idle)' = WaitingIn(tx[w])
      /\ \A j \in Stored : StatusIn(Idle, j)' = StatusIn(tx[w], j)
      /\ \A v \in Workers : View(v)' = runtime'
      /\ \A x \in Times : SeenBy(runtime, x)' => SeenBy(View(w), x)
  BY CommitView
<1>3. Stored' = Stored /\ \A i \in Stored : Sent(i)' = Sent(i)
  BY <1>2 DEF Stored, Sent
<1>4. CurrentIn(Idle)'
  BY <1>1, <1>2, <1>3 DEF CurrentIn
<1>5. RowTold(runtime, Idle)'
  BY <1>1, <1>2 DEF RowTold
<1>6. \A v \in Workers : WorkCurrent(v)'
  <2> TAKE v \in Workers
  <2>1. tx'[v] = Idle /\ View(v)' = runtime' /\ Idle.phase = "idle"
    BY <1>2 DEF Idle
  <2>2. CurrentIn(tx[v])'
    BY <1>4, <2>1 DEF CurrentIn, StatusIn, WaitingIn, Beginning
  <2>3. RowTold(View(v), tx[v])'
    BY <1>5, <2>1 DEF RowTold, SeenBy, SeenIn, WaitingIn, Beginning
  <2> QED BY <2>1, <2>2, <2>3 DEF WorkCurrent
<1> QED BY <1>2, <1>4, <1>5, <1>6 DEF CurrentInv

\* The steps of the others: more is stored, queued; answers end.
OthersMove ==
  /\ Stored \subseteq Stored'
  /\ \A i \in Stored : wrote'[i] = wrote[i] /\ event'[i] = event[i]
  /\ \A i \in Stored' \ Stored : event'[i].status = "queued" /\ Sent(i)' \in Times
  /\ DOMAIN turns' = DOMAIN turns
  /\ \A k \in DOMAIN turns : /\ turns'[k].seen = turns[k].seen
                             /\ turns'[k].reply = "queued" => turns[k].reply = "queued"
  /\ UNCHANGED <<runtime, tx>>

LEMMA OthersView ==
  ASSUME OthersMove, NEW t, DOMAIN t.out \subseteq Stored
  PROVE  /\ SeenIn(t)' = SeenIn(t) /\ WaitingIn(t)' \subseteq WaitingIn(t)
         /\ \A i \in Stored : Sent(i)' = Sent(i) /\ StatusIn(t, i)' = StatusIn(t, i)
         /\ \A i \in Stored' \ Stored : StatusIn(t, i)' = "queued"
         /\ CurrentIn(t) => CurrentIn(t)'
         /\ HeardIn(t) => HeardIn(t)'
<1>1. SeenIn(t)' = SeenIn(t) /\ WaitingIn(t)' \subseteq WaitingIn(t)
  BY DEF OthersMove, SeenIn, WaitingIn, Beginning, QueuedTurns
<1>2. \A i \in Stored : Sent(i)' = Sent(i) /\ StatusIn(t, i)' = StatusIn(t, i)
  BY DEF OthersMove, Sent, StatusIn
<1>3. \A i \in Stored' \ Stored : StatusIn(t, i)' = "queued"
  BY DEF OthersMove, StatusIn
<1>4. Stored \subseteq Stored'
  BY DEF OthersMove
<1>5. \A i \in Stored' \ Stored : Sent(i)' >= Sent(i)'
  BY DEF OthersMove, Times
<1>6. ASSUME CurrentIn(t) PROVE CurrentIn(t)'
  <2> SUFFICES ASSUME NEW seen \in WaitingIn(t)', NEW i \in Stored', Sent(i)' > seen
               PROVE  \E j \in Stored' : Sent(j)' >= Sent(i)' /\ StatusIn(t, j)' \in Open
    BY DEF CurrentIn
  <2>1. CASE i \in Stored
    <3>1. PICK j \in Stored : Sent(j) >= Sent(i) /\ StatusIn(t, j) \in Open
      BY <1>1, <1>2, <1>6, <2>1 DEF CurrentIn
    <3> QED BY <1>2, <1>4, <2>1, <3>1
  <2>2. CASE i \notin Stored
    BY <1>3, <1>5, <2>2 DEF Open
  <2> QED BY <2>1, <2>2
<1>7. ASSUME HeardIn(t) PROVE HeardIn(t)'
  <2> SUFFICES ASSUME NEW i \in Stored', StatusIn(t, i)' = "processed"
               PROVE  \/ \E seen \in SeenIn(t)' : seen >= Sent(i)'
                      \/ \E j \in Stored' : Sent(j)' >= Sent(i)' /\ StatusIn(t, j)' # "processed"
    BY DEF HeardIn
  <2>1. i \in Stored /\ StatusIn(t, i) = "processed" /\ Sent(i)' = Sent(i)
    BY <1>2, <1>3
  <2>2. CASE \E seen \in SeenIn(t) : seen >= Sent(i)
    BY <1>1, <2>1, <2>2
  <2>3. CASE \E j \in Stored : Sent(j) >= Sent(i) /\ StatusIn(t, j) # "processed"
    BY <1>2, <1>4, <2>1, <2>3
  <2> QED BY <1>7, <2>1, <2>2, <2>3 DEF HeardIn
<1> QED BY <1>1, <1>2, <1>3, <1>6, <1>7

LEMMA OthersCurrent ==
  ASSUME CurrentInv, IInv', OthersMove
  PROVE  CurrentInv'
<1>1. RowOK(runtime) /\ RowTold(runtime, Idle) /\ CurrentIn(Idle)
  BY DEF CurrentInv, IInv, HeldInv
<1>2. DOMAIN Idle.out \subseteq Stored
  BY DEF Idle, NoOutcome
<1>3. CurrentIn(Idle)'
  BY <1>1, <1>2, OthersView
<1>4. RowTold(runtime, Idle)'
  <2>1. runtime' = runtime /\ SeenIn(Idle)' = SeenIn(Idle) /\ WaitingIn(Idle)' \subseteq WaitingIn(Idle)
    BY <1>2, OthersView DEF OthersMove
  <2>2. \A x \in Times : SeenBy(runtime, x)' => SeenBy(runtime, x)
    BY <1>1, <2>1 DEF RowOK, SeenBy, Sent, OthersMove
  <2> QED BY <1>1, <2>1, <2>2 DEF RowTold
<1>5. ASSUME NEW w \in Workers PROVE WorkCurrent(w)'
  <2>1. /\ RowOK(View(w)) /\ RowTold(View(w), tx[w]) /\ CurrentIn(tx[w])
        /\ DOMAIN tx[w].out \subseteq Stored /\ WorkCurrent(w)
    BY CurrentFacts DEF TxOK, CurrentInv
  <2>2. tx' = tx /\ View(w)' = View(w)
    BY DEF OthersMove, View
  <2>3. \A x \in Times : SeenBy(View(w), x)' => SeenBy(View(w), x)
    BY <2>1, <2>2 DEF RowOK, SeenBy, Sent, OthersMove
  <2>4. PICK t : t = tx[w]
    OBVIOUS
  <2>5. tx'[w] = t /\ DOMAIN t.out \subseteq Stored /\ CurrentIn(t)
    BY <2>1, <2>2, <2>4
  <2>6. /\ SeenIn(t)' = SeenIn(t) /\ WaitingIn(t)' \subseteq WaitingIn(t) /\ CurrentIn(t)'
    BY <2>5, OthersView
  <2>7. CurrentIn(tx[w])'
    BY <2>5, <2>6 DEF CurrentIn, StatusIn, WaitingIn, Beginning
  <2>8. SeenIn(tx[w])' = SeenIn(tx[w]) /\ WaitingIn(tx[w])' \subseteq WaitingIn(tx[w])
    <3>1. SeenIn(tx[w])' = SeenIn(t)' /\ WaitingIn(tx[w])' = WaitingIn(t)'
      BY <2>5 DEF SeenIn, WaitingIn, Beginning
    <3>2. SeenIn(tx[w]) = SeenIn(t) /\ WaitingIn(tx[w]) = WaitingIn(t)
      BY <2>4
    <3> QED BY <2>6, <3>1, <3>2
  <2>9. RowTold(View(w), tx[w])'
    BY <2>1, <2>3, <2>8 DEF RowTold
  <2>10. (tx[w].phase \in {"ready", "thinking"} => WaitingIn(tx[w]) = {})'
    BY <2>1, <2>4, <2>5, <2>8 DEF WorkCurrent
  <2> QED BY <2>7, <2>9, <2>10 DEF WorkCurrent
<1> QED BY <1>3, <1>4, <1>5 DEF CurrentInv

\* The candidate, the clock, the poller and the outbound worker are such others.
LEMMA OthersAre ==
  ASSUME IInv,
         \/ CandidateWrites \/ Tick \/ Poll
         \/ \E k \in DOMAIN turns : Send(k) \/ GiveUp(k)
         \/ UNCHANGED vars
  PROVE  OthersMove
<1>1. TypeOK /\ Stored \subseteq DOMAIN wrote /\ \A i \in DOMAIN wrote : Sent(i) \in Times
  BY StoredFacts DEF IInv, HeldInv
<1>2. CASE CandidateWrites
  <2>1. \A i \in DOMAIN wrote : wrote'[i] = wrote[i]
    BY <1>1, <1>2, CandidateStep
  <2>2. UNCHANGED <<page, event, runtime, turns, tx>>
    BY <1>2 DEF CandidateWrites
  <2> QED BY <1>1, <2>1, <2>2 DEF OthersMove, Stored
<1>3. CASE Tick \/ UNCHANGED vars
  <2>1. UNCHANGED <<wrote, page, event, runtime, turns, tx>>
    BY <1>3 DEF Tick, vars
  <2> QED BY <2>1 DEF OthersMove, Stored
<1>4. CASE Poll
  <2>1. /\ Stored \subseteq Stored' /\ Stored' = DOMAIN wrote
        /\ \A i \in Stored : event'[i] = event[i]
    BY <1>1, <1>4, PollStep
  <2>2. UNCHANGED <<wrote, runtime, turns, tx>>
    BY <1>4 DEF Poll
  <2>3. \A i \in 1..Len(wrote) : i \notin Stored => event'[i].status = "queued"
    BY <1>4 DEF Poll
  <2>4. \A i \in Stored' \ Stored : event'[i].status = "queued" /\ Sent(i)' \in Times
    BY <1>1, <2>1, <2>2, <2>3, StoredFacts DEF Sent
  <2> QED BY <2>1, <2>2, <2>4 DEF OthersMove
<1>5. CASE \E k \in DOMAIN turns : Send(k) \/ GiveUp(k)
  <2>1. /\ DOMAIN turns' = DOMAIN turns
        /\ \A k \in DOMAIN turns : /\ turns'[k].seen = turns[k].seen
                                   /\ turns'[k].reply = "queued" => turns[k].reply = "queued"
        /\ UNCHANGED <<wrote, page, event, runtime, tx>>
    BY <1>1, <1>5, AnswerStep
  <2> QED BY <2>1 DEF OthersMove, Stored
<1> QED BY <1>2, <1>3, <1>4, <1>5

LEMMA CurrentStep ==
  ASSUME CurrentInv, OneWorker, ~SameSecond, [Next]_vars
  PROVE  CurrentInv'
<1>1. IInv /\ IInv'
  BY OrderStep DEF CurrentInv
<1>2. ASSUME NEW w \in Workers,
             Claim(w) \/ EmptyBatch(w) \/ WorkerStep(w) \/ Rollback(w)
      PROVE  CurrentInv'
  <2>1. CASE Claim(w) \/ Rollback(w)
    BY <2>1, AnewCurrent
  <2>2. CASE EmptyBatch(w)
    BY <1>1, <2>2, OthersAre, OthersCurrent DEF EmptyBatch
  <2>3. CASE Commit(w)
    BY <2>3, CommitCurrent
  <2>4. CASE WorkerStep(w) /\ ~Commit(w)
    BY <2>4, WorkCurrentStep DEF WorkerStep
  <2> QED BY <1>2, <2>1, <2>2, <2>3, <2>4
<1> QED BY <1>1, <1>2, OthersAre, OthersCurrent DEF Next

LEMMA CurrentInit ==
  ASSUME Init
  PROVE  CurrentInv /\ HeardInv
<1>1. IInv
  BY OrderInit
<1>2. Stored = {} /\ DOMAIN turns = {}
  <2>1. <<>> \in Seq({}) /\ Len(<<>>) = 0
    BY EmptySeq
  <2> QED BY <2>1, LenProperties DEF Init, Stored
<1>3. CurrentIn(Idle) /\ HeardIn(Idle)
  BY <1>2 DEF CurrentIn, HeardIn
<1>4. \A x \in Times : ~SeenBy(runtime, x)
  BY DEF Init, NoRuntime, SeenBy, Times, Never
<1>5. RowTold(runtime, Idle)
  BY <1>4 DEF RowTold
<1>6. ASSUME NEW w \in Workers
      PROVE  WorkCurrent(w) /\ HeardIn(tx[w]) /\ tx[w].phase = "idle"
  <2>1. tx[w] = Idle /\ View(w) = runtime
    BY DEF Init, View, Idle, NoRuntime
  <2> QED BY <1>3, <1>5, <2>1 DEF WorkCurrent, Idle
<1> QED BY <1>1, <1>3, <1>5, <1>6 DEF CurrentInv, HeardInv

\* An answer is never left in the queue behind the candidate's back: whoever closes a
\* message without a turn leaves the event of a later one open, or knows from the
\* runtime row that the waiting answer has seen it.
THEOREM AnswersStayCurrent ==
  ASSUME OneWorker, ~SameSecond PROVE Spec => []QueuedAnswersAreCurrent
<1>1. Init => CurrentInv
  BY CurrentInit
<1>2. CurrentInv /\ [Next]_vars => CurrentInv'
  BY CurrentStep
<1>3. CurrentInv => QueuedAnswersAreCurrent
  <2> SUFFICES ASSUME CurrentInv
               PROVE  QueuedAnswersAreCurrent
    OBVIOUS
  <2>1. CurrentIn(Idle)
    BY DEF CurrentInv
  <2>2. /\ WaitingIn(Idle) = {turns[k].seen : k \in QueuedTurns}
        /\ \A j \in Stored : StatusIn(Idle, j) = event[j].status
    <3>1. Idle.out = NoOutcome /\ Idle.new = <<>> /\ Idle.drop = {} /\ Idle.rt = NoRuntime
          /\ Idle.phase = "idle"
      BY DEF Idle
    <3> QED BY <3>1, IdleView
  <2> QED BY <2>1, <2>2 DEF CurrentIn, QueuedAnswersAreCurrent
<1> QED BY <1>1, <1>2, <1>3, PTL DEF Spec

-----------------------------------------------------------------------------
(* One worker, distinct times, and never more waiting messages than a run   *)
(* reads: every processed message was heard.                                *)

\* A worker's step that changes only its transaction.
LEMMA LeavesHeard ==
  ASSUME HeardInv, OneWorker, NEW w \in Workers, NEW t, tx'[w] = t, CurrentInv',
         UNCHANGED <<now, wrote, page, event, runtime, turns>>,
         HeardIn(t), t.phase = "thinking" => Sent(t.upto) >= Sent(t.cur)
  PROVE  HeardInv'
<1>1. HeardIn(Idle)'
  BY DEF HeardInv, HeardIn, Sent, Stored, StatusIn, SeenIn, Beginning
<1>2. ASSUME NEW v \in Workers
      PROVE  /\ HeardIn(tx[v])'
             /\ (tx[v].phase = "thinking" => Sent(tx[v].upto) >= Sent(tx[v].cur))'
  <2>1. tx'[v] = t
    BY DEF OneWorker
  <2>2. HeardIn(tx[v])'
    BY <2>1 DEF HeardIn, Sent, Stored, StatusIn, SeenIn, Beginning
  <2> QED BY <2>1, <2>2 DEF Sent
<1> QED BY <1>1, <1>2 DEF HeardInv

\* The batch of a run holds the message it was started for, or newer ones.
LEMMA BatchReachesTheLatest ==
  ASSUME TypeOK, FitsOneBatch, NEW S \in SUBSET SinceLastOutbound, IsBatch(S),
         NEW cur \in Stored, NEW p \in Newest(IF S = {} THEN {cur} ELSE S)
  PROVE  Sent(p) >= Sent(cur)
<1>1. /\ \A i \in Stored : Sent(i) \in Int
      /\ \A k \in DOMAIN turns : turns[k].at \in Int
  BY StoredFacts DEF Turn, Times
<1>2. S = SinceLastOutbound
  <2>1. Stored \subseteq 1..Len(page) /\ Len(page) \in Nat
    BY StoredFacts
  <2>2. IsFiniteSet(SinceLastOutbound)
    <3>1. IsFiniteSet(1..Len(page)) /\ SinceLastOutbound \subseteq 1..Len(page)
      <4>1. IsFiniteSet(1..Len(page))
        BY <2>1, FS_Interval
      <4>2. SinceLastOutbound \subseteq Stored
        BY DEF SinceLastOutbound
      <4> QED BY <2>1, <4>1, <4>2
    <3> QED BY <3>1, FS_Subset
  <2>3. BatchLimit \in Nat /\ Cardinality(SinceLastOutbound) \in Nat
    BY <2>2, FS_CardinalityType, TurnConstantsOK
  <2>4. CASE S # SinceLastOutbound
    <3>1. Cardinality(S) < Cardinality(SinceLastOutbound)
      BY <2>2, <2>4, FS_Subset, FS_CardinalityType
    <3> QED BY <2>3, <2>4, <3>1 DEF IsBatch, FitsOneBatch
  <2> QED BY <2>4
<1>3. CASE S = {}
  BY <1>1, <1>3 DEF Newest
<1>4. CASE cur \in S
  BY <1>4 DEF Newest
<1>5. CASE S # {} /\ cur \notin S
  <2>1. PICK k \in SentTurns : ~(Sent(cur) > turns[k].at)
    BY <1>2, <1>5 DEF SinceLastOutbound
  <2>2. p \in S /\ p \in Stored /\ Sent(p) > turns[k].at
    BY <1>5, <2>1 DEF Newest, SinceLastOutbound
  <2>3. turns[k].at \in Int
    BY <1>1 DEF SentTurns
  <2> QED BY <1>1, <2>1, <2>2, <2>3
<1> QED BY <1>3, <1>4, <1>5

LEMMA WorkHeardStep ==
  ASSUME HeardInv, CurrentInv', FitsOneBatch, OneWorker, NEW w \in Workers,
         \/ Dismiss(w) \/ Defer(w) \/ StartTurn(w) \/ ReadBatch(w)
         \/ RestartDialog(w) \/ RetireEvent(w) \/ FinishRestart(w)
         \/ Supersede(w) \/ Decide(w) \/ TurnFails(w)
  PROVE  HeardInv'
<1> DEFINE t == tx'[w]
<1>1. /\ CurrentInv /\ TypeOK /\ MessagesOrdered /\ HeardIn(tx[w]) /\ TxOK(tx[w])
      /\ SeenIn(tx[w]) \subseteq Times
      /\ UNCHANGED <<now, wrote, page, event, runtime, turns>>
      /\ \A i \in tx[w].todo : i \in Stored
      /\ \A i \in Stored : Sent(i) \in Times
  BY CurrentFacts, StoredFacts
  DEF HeardInv, Dismiss, Defer, StartTurn, RestartDialog, RetireEvent, FinishRestart,
      ReadBatch, Supersede, Decide, TurnFails
<1>2. CASE Dismiss(w) \/ RetireEvent(w) \/ FinishRestart(w)
  <2>0. JustCloses(w, t)
    BY <1>1, <1>2, DismissView, RetireView, FinishRestartView
  <2>1. PICK i \in Stored :
          Ended(w, t, i, "processed") /\ Covered(w, i) /\ SeenIn(t) = SeenIn(tx[w])
    BY <2>0 DEF JustCloses
  <2> HIDE DEF t
  <2>2. HeardIn(t) /\ t.phase \in {"next", "retiring"}
    BY <1>1, <2>1, ClosingKeepsHeard DEF Ended, Covered
  <2> QED BY <1>1, <2>2, LeavesHeard DEF t
<1>3. CASE Defer(w)
  <2>1. PICK i \in tx[w].todo : Ended(w, t, i, "retry") /\ SeenIn(t) = SeenIn(tx[w])
    BY <1>1, <1>3, DeferView
  <2> HIDE DEF t
  <2>2. i \in Stored /\ "retry" # "processed" /\ SeenIn(t) \subseteq Times
    BY <1>1, <2>1
  <2>3. HeardIn(t)
    BY <1>1, <2>1, <2>2, ClosingKeepsHeard DEF Ended
  <2>4. t.phase \in {"next", "retiring"}
    BY <2>1 DEF Ended
  <2> QED BY <1>1, <2>3, <2>4, LeavesHeard DEF t
<1>4. CASE StartTurn(w)
  <2>1. /\ t.phase = "ready" /\ SeenIn(t) = SeenIn(tx[w])
        /\ \A j \in Stored : StatusIn(t, j) = StatusIn(tx[w], j)
    BY <1>1, <1>4, StartTurnView
  <2> HIDE DEF t
  <2>2. HeardIn(t)
    BY <1>1, <2>1 DEF HeardIn
  <2> QED BY <1>1, <2>1, <2>2, LeavesHeard DEF t
<1>5. CASE ReadBatch(w)
  <2>1. PICK S \in SUBSET SinceLastOutbound :
          /\ IsBatch(S) /\ t.upto \in Newest(IF S = {} THEN {tx[w].cur} ELSE S)
          /\ t.cur = tx[w].cur /\ SeenIn(t) = SeenIn(tx[w])
          /\ \A j \in Stored : StatusIn(t, j) = StatusIn(tx[w], j)
    BY <1>1, <1>5, ReadBatchView
  <2> HIDE DEF t
  <2>2. HeardIn(t)
    BY <1>1, <2>1 DEF HeardIn
  <2>3. tx[w].cur \in Stored
    BY <1>1, <1>5 DEF ReadBatch, TxOK
  <2>4. Sent(t.upto) >= Sent(t.cur)
    BY <1>1, <2>1, <2>3, BatchReachesTheLatest
  <2> QED BY <1>1, <2>2, <2>4, LeavesHeard DEF t
<1>6. CASE Supersede(w) \/ TurnFails(w)
  <2>1. PICK s \in {"processed", "failed"} :
          /\ Ended(w, t, tx[w].cur, s) /\ SeenIn(t) = SeenIn(tx[w])
          /\ s = "processed" => HasNewerInbound(tx[w].upto)
    BY <1>1, <1>6, NoTurnView
  <2>2. /\ Sent(tx[w].upto) >= Sent(tx[w].cur)
        /\ tx[w].upto \in Stored /\ tx[w].cur \in Stored
    BY <1>1, <1>6 DEF HeardInv, Supersede, TurnFails, TxOK
  <2>3. s = "processed" => \E j \in Stored : Sent(j) > Sent(tx[w].cur)
    BY <1>1, <2>1, <2>2 DEF HasNewerInbound, Times
  <2> HIDE DEF t
  <2>4. HeardIn(t) /\ t.phase \in {"next", "retiring"}
    BY <1>1, <2>1, <2>2, <2>3, ClosingKeepsHeard DEF Ended
  <2> QED BY <1>1, <2>4, LeavesHeard DEF t
<1>7. CASE Decide(w)
  <2> DEFINE p == tx[w].upto
  <2>1. /\ Ended(w, t, tx[w].cur, "processed") /\ p \in Stored /\ ~HasNewerInbound(p)
        /\ SeenIn(t) = SeenIn(tx[w]) \cup {Sent(p)}
    BY <1>1, <1>7, DecideView
  <2>2. tx[w].cur \in Stored /\ Sent(p) >= Sent(tx[w].cur) /\ Sent(p) \in Times
    BY <1>1, <1>7, <2>1 DEF Decide, TxOK, HasNewerInbound, Times
  <2> HIDE DEF t
  <2>3. HeardIn(t) /\ t.phase \in {"next", "retiring"}
    BY <1>1, <2>1, <2>2, ClosingKeepsHeard DEF Ended
  <2> QED BY <1>1, <2>3, LeavesHeard DEF t
<1>8. CASE RestartDialog(w)
  <2>1. t.phase = "retiring" /\ SeenIn(t) = SeenIn(tx[w]) \cup {now}
    BY <1>1, <1>8, RestartView
  <2>2. \A i \in Stored : now >= Sent(i)
    BY <1>1, StoredFacts DEF MessagesOrdered, TypeOK, Times
  <2> HIDE DEF t
  <2>3. HeardIn(t)
    BY <2>1, <2>2 DEF HeardIn
  <2> QED BY <1>1, <2>1, <2>3, LeavesHeard DEF t
<1> QED BY <1>2, <1>3, <1>4, <1>5, <1>6, <1>7, <1>8

\* A batch that begins, is lost or is committed.
LEMMA BatchHeardStep ==
  ASSUME HeardInv, CurrentInv', OneWorker, NEW w \in Workers,
         Claim(w) \/ Rollback(w) \/ Commit(w)
  PROVE  HeardInv'
<1>1. CurrentInv /\ TypeOK /\ HeardIn(Idle) /\ HeardIn(tx[w])
  BY CurrentFacts DEF HeardInv
<1>2. CASE Claim(w) \/ Rollback(w)
  <2>1. PICK t : /\ tx'[w] = t /\ t.phase \in {"idle", "next"}
                 /\ t.out = NoOutcome /\ t.new = <<>> /\ t.drop = {} /\ t.rt = NoRuntime
    BY <1>1, <1>2, AnewWork
  <2>2. HeardIn(t)
    BY <1>1, <2>1, IdleView DEF HeardIn
  <2>3. UNCHANGED <<now, wrote, page, event, runtime, turns>>
    BY <1>2 DEF Claim, Rollback
  <2> QED BY <2>1, <2>2, <2>3, LeavesHeard
<1>3. CASE Commit(w)
  <2>1. /\ UNCHANGED <<wrote, page>> /\ \A v \in Workers : tx'[v] = Idle
        /\ SeenIn(Idle)' = SeenIn(tx[w])
        /\ \A j \in Stored : StatusIn(Idle, j)' = StatusIn(tx[w], j)
    BY <1>1, <1>3, CommitView
  <2>2. Stored' = Stored /\ \A i \in Stored : Sent(i)' = Sent(i)
    BY <2>1 DEF Stored, Sent
  <2>3. HeardIn(Idle)'
    BY <1>1, <2>1, <2>2 DEF HeardIn
  <2>4. ASSUME NEW v \in Workers PROVE HeardIn(tx[v])' /\ tx'[v].phase # "thinking"
    <3>1. tx'[v] = Idle /\ Idle.phase = "idle"
      BY <2>1 DEF Idle
    <3>2. HeardIn(tx[v])'
      BY <2>3, <3>1 DEF HeardIn, StatusIn, SeenIn, Beginning
    <3> QED BY <3>1, <3>2
  <2> QED BY <2>3, <2>4 DEF HeardInv
<1> QED BY <1>2, <1>3

LEMMA OthersHeard ==
  ASSUME HeardInv, CurrentInv', OthersMove
  PROVE  HeardInv'
<1>1. HeardIn(Idle)'
  <2>1. HeardIn(Idle) /\ DOMAIN Idle.out \subseteq Stored
    BY DEF HeardInv, Idle, NoOutcome
  <2> QED BY <2>1, OthersView
<1>2. ASSUME NEW w \in Workers
      PROVE  /\ HeardIn(tx[w])'
             /\ (tx[w].phase = "thinking" => Sent(tx[w].upto) >= Sent(tx[w].cur))'
  <2>1. /\ TxOK(tx[w]) /\ HeardIn(tx[w]) /\ tx' = tx
        /\ tx[w].phase = "thinking" => Sent(tx[w].upto) >= Sent(tx[w].cur)
    BY CurrentFacts DEF HeardInv, OthersMove
  <2>2. PICK t : t = tx[w]
    OBVIOUS
  <2>3. tx'[w] = t /\ DOMAIN t.out \subseteq Stored /\ HeardIn(t)
    BY <2>1, <2>2 DEF TxOK
  <2>4. HeardIn(t)'
    BY <2>3, OthersView
  <2>5. HeardIn(tx[w])'
    BY <2>3, <2>4 DEF HeardIn, StatusIn, SeenIn, Beginning
  <2>6. tx[w].phase = "thinking" => tx[w].upto \in Stored /\ tx[w].cur \in Stored
    BY <2>1 DEF TxOK
  <2>7. (tx[w].phase = "thinking" => Sent(tx[w].upto) >= Sent(tx[w].cur))'
    BY <2>1, <2>6 DEF OthersMove, Sent
  <2> QED BY <2>5, <2>7
<1> QED BY <1>1, <1>2 DEF HeardInv

LEMMA HeardStep ==
  ASSUME HeardInv, FitsOneBatch, OneWorker, ~SameSecond, [Next]_vars
  PROVE  HeardInv'
<1>1. CurrentInv' /\ IInv
  BY CurrentStep DEF HeardInv, CurrentInv
<1>2. ASSUME NEW w \in Workers,
             Claim(w) \/ EmptyBatch(w) \/ WorkerStep(w) \/ Rollback(w)
      PROVE  HeardInv'
  <2>1. CASE Claim(w) \/ Rollback(w) \/ Commit(w)
    BY <1>1, <2>1, BatchHeardStep
  <2>2. CASE EmptyBatch(w)
    BY <1>1, <2>2, OthersAre, OthersHeard DEF EmptyBatch
  <2>3. CASE WorkerStep(w) /\ ~Commit(w)
    BY <1>1, <2>3, WorkHeardStep DEF WorkerStep
  <2> QED BY <1>2, <2>1, <2>2, <2>3
<1> QED BY <1>1, <1>2, OthersAre, OthersHeard DEF Next

\* As long as the messages since the last answer that was sent fit into one batch,
\* no message is closed unheard: some turn or restart has seen one as late, or the
\* event of one as late is still to be done or failed.  With more of them the
\* property is violated.
THEOREM MessagesAreHeard ==
  ASSUME OneWorker, ~SameSecond PROVE Spec /\ []FitsOneBatch => []Heard
<1>1. Init => HeardInv
  BY CurrentInit
<1>2. HeardInv /\ FitsOneBatch /\ [Next]_vars => HeardInv'
  BY HeardStep
<1>3. HeardInv => Heard
  <2> SUFFICES ASSUME HeardInv
               PROVE  Heard
    OBVIOUS
  <2>1. HeardIn(Idle)
    BY DEF HeardInv
  <2>2. /\ SeenIn(Idle) = {turns[k].seen : k \in DOMAIN turns}
        /\ \A j \in Stored : StatusIn(Idle, j) = event[j].status
    <3>1. Idle.out = NoOutcome /\ Idle.new = <<>> /\ Idle.drop = {} /\ Idle.rt = NoRuntime
          /\ Idle.phase = "idle"
      BY DEF Idle
    <3> QED BY <3>1, IdleView
  <2> QED BY <2>1, <2>2 DEF HeardIn, Heard
<1> QED BY <1>1, <1>2, <1>3, PTL DEF Spec

=============================================================================
