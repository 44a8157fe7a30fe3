----------------------------- MODULE BrainV2Proofs -----------------------------
(***************************************************************************)
(* Proofs about BrainV2, for any agenda, messages and language models: what *)
(* goes out was cleared, only the newest run waits for approval, refusals   *)
(* and legal questions take their fixed way, and the open question stays    *)
(* with its stage.                                                          *)
(***************************************************************************)
EXTENDS BrainV2, TLAPS

(***************************************************************************)
(* Sequences whose elements are of no particular set.                       *)
(***************************************************************************)
IsSeq(s) == \E S : s \in Seq(S)

\* What an append changes.
LEMMA AppendFacts ==
  ASSUME NEW s, IsSeq(s), NEW e
  PROVE  /\ IsSeq(Append(s, e))
         /\ Len(s) \in Nat /\ DOMAIN s = 1 .. Len(s)
         /\ Len(Append(s, e)) = Len(s) + 1
         /\ DOMAIN Append(s, e) = 1 .. (Len(s) + 1)
         /\ Append(s, e)[Len(s) + 1] = e
         /\ \A i \in 1 .. Len(s) : Append(s, e)[i] = s[i]
<1>1. PICK S : s \in Seq(S)
  BY DEF IsSeq
<1> DEFINE T == S \cup {e}
<1>2. s \in Seq(T) /\ e \in T
  BY <1>1
<1>3. Append(s, e) \in Seq(T)
  BY <1>2
<1> QED BY <1>2, <1>3 DEF IsSeq

\* A sequence is a function.
LEMMA SeqFacts ==
  ASSUME NEW s, IsSeq(s)
  PROVE  Len(s) \in Nat /\ DOMAIN s = 1 .. Len(s) /\ s = [i \in DOMAIN s |-> s[i]]
<1>1. PICK S : s \in Seq(S)
  BY DEF IsSeq
<1> QED BY <1>1

\* Changing elements leaves a sequence a sequence.
LEMMA ChangeFacts ==
  ASSUME NEW s, IsSeq(s), NEW t, DOMAIN t = DOMAIN s, t = [i \in DOMAIN t |-> t[i]]
  PROVE  IsSeq(t) /\ Len(t) = Len(s)
<1> DEFINE n == Len(s)
           S == {t[i] : i \in 1 .. n}
<1>1. n \in Nat /\ DOMAIN t = 1 .. n
  BY SeqFacts
<1>2. t \in [1 .. n -> S]
  BY <1>1
<1>3. t \in Seq(S)
  BY <1>1, <1>2
<1> QED BY <1>1, <1>3 DEF IsSeq

(***************************************************************************)
(* A decision that the validator hands over is a handoff.                   *)
(***************************************************************************)
IsDecision(d) == DOMAIN d = DecisionFields

\* The local rules and the models give decisions.
LEMMA LocalIsDecision ==
  ASSUME NEW agenda, NEW lead, NEW t, NEW answer
  PROVE  IsDecision(LocalDecision(agenda, lead, t, answer))
<1>1. \A stage, loop, updates, action, response :
        IsDecision(Decision(stage, loop, updates, action, response))
  BY DEF IsDecision, Decision, DecisionFields
<1>2. \A updates : IsDecision(HandOff(updates))
  BY <1>1 DEF HandOff
<1>3. \A done, stage, active : IsDecision(StepOn(done, stage, active))
  BY <1>1 DEF StepOn
<1>4. \A done, stage, active, slots :
        IsDecision([StepOn(done, stage, active) EXCEPT !.slots = slots])
  BY <1>3 DEF IsDecision
<1>5. IsDecision(CloseLost) /\ \A item : IsDecision(Ask(lead, item))
  BY <1>1 DEF CloseLost, Ask
<1> QED BY <1>1, <1>2, <1>3, <1>4, <1>5 DEF LocalDecision

\* A turn's verdict "handoff" comes with a handoff.
LEMMA TurnsHandOver ==
  ASSUME NEW options, \A d \in options : IsDecision(d), NEW models,
         NEW p \in Turns(options, models)
  PROVE  p[2] = "handoff" => p[1].action = "handoff"
<1>1. \A d : IsDecision(d) => ForceHandoff(d).action = "handoff"
  BY DEF ForceHandoff, IsDecision, DecisionFields
<1>2. PICK q : /\ q[1] \in options
               /\ p = IF q[2] = "handoff" THEN <<ForceHandoff(q[1]), "handoff">> ELSE q
  BY DEF Turns
<1> QED BY <1>1, <1>2

\* What the local rules make of a message and a turn makes of their decision.
LEMMA LocalTurns ==
  ASSUME NEW options, NEW p \in Turns(options, {})
  PROVE  \E d \in options :
           \/ p[1] = d
           \/ d.action = "handoff" /\ p[1] = ForceHandoff(d)
<1>1. PICK q : /\ q[1] \in options /\ q[2] \in Verdicts(q[1], {})
               /\ p = IF q[2] = "handoff" THEN <<ForceHandoff(q[1]), "handoff">> ELSE q
  BY DEF Turns
<1>2. q[2] = "handoff" => q[1].action = "handoff"
  BY <1>1 DEF Verdicts, LocalVerdict
<1> QED BY <1>1, <1>2

\* HardStops of one message and one action.
Stops(t, action) ==
  /\ t.refusal => action = "close_lost"
  /\ ~t.refusal /\ t.asks /\ t.topic = "legal" => action = "handoff"
  /\ t.age = "minor" => action \in {"close_lost", "handoff"}

\* The local rules stop where they have to.
LEMMA LocalStops ==
  ASSUME NEW agenda, NEW lead, NEW t, NEW answer
  PROVE  Stops(t, LocalDecision(agenda, lead, t, answer).action)
<1> DEFINE d == LocalDecision(agenda, lead, t, answer)
<1>1. CloseLost.action = "close_lost" /\ \A updates : HandOff(updates).action = "handoff"
  BY DEF CloseLost, HandOff, Decision
<1>2. CASE t.refusal
  <2>1. PrimaryIntentFor(t) = "not_interested"
    BY <1>2 DEF PrimaryIntentFor
  <2>2. d = CloseLost
    BY <2>1 DEF LocalDecision
  <2> QED BY <1>1, <1>2, <2>2 DEF Stops
<1>3. CASE ~t.refusal /\ t.asks /\ t.topic = "legal"
  <2>1. PrimaryIntentFor(t) = "legal_risk"
    BY <1>3 DEF PrimaryIntentFor
  <2>2. d = HandOff(NoUpdates)
    BY <2>1 DEF LocalDecision
  <2> QED BY <1>1, <1>3, <2>2 DEF Stops
<1>4. CASE ~t.refusal /\ ~(t.asks /\ t.topic = "legal")
  <2>1. PrimaryIntentFor(t) \notin {"not_interested", "legal_risk"}
    BY <1>4 DEF PrimaryIntentFor
  <2>2. t.age = "minor" => d = CloseLost
    BY <2>1 DEF LocalDecision
  <2> QED BY <1>1, <1>4, <2>2 DEF Stops
<1> QED BY <1>2, <1>3, <1>4

\* So a turn that no model had a part in stops there, too.
LEMMA TurnStops ==
  ASSUME NEW p \in Turns(LocalDecisions, {})
  PROVE  Stops(turn.text, p[1].action)
<1>1. PICK d \in LocalDecisions : p[1] = d \/ (d.action = "handoff" /\ p[1] = ForceHandoff(d))
  BY LocalTurns
<1>2. PICK answer \in Answers : d = LocalDecision(Agenda, Prepared(db.lead, turn.text), turn.text, answer)
  BY DEF LocalDecisions
<1>3. Stops(turn.text, d.action) /\ IsDecision(d)
  BY <1>2, LocalStops, LocalIsDecision
<1>4. ForceHandoff(d).action = "handoff"
  BY <1>3 DEF ForceHandoff, IsDecision, DecisionFields
<1> QED BY <1>1, <1>3, <1>4

(***************************************************************************)
(* The rows of the database.                                                *)
(***************************************************************************)
RunFields == {"message", "shadow", "action", "text", "verdict", "status", "approved", "local",
              "asked"}

DbFields == {"lead", "runs", "jobs", "handoffs", "processed", "answered"}

DbOK(d) ==
  /\ DOMAIN d = DbFields
  /\ IsSeq(d.runs) /\ IsSeq(d.jobs) /\ IsSeq(d.handoffs)
  /\ \A r \in DOMAIN d.runs :
       /\ DOMAIN d.runs[r] = RunFields
       /\ d.runs[r].shadow \in BOOLEAN /\ d.runs[r].approved \in BOOLEAN
       /\ d.runs[r].verdict = "handoff" => d.runs[r].action = "handoff"
       /\ d.runs[r].local => Stops(d.runs[r].asked, d.runs[r].action)
  /\ \A j \in DOMAIN d.jobs :
       DOMAIN d.jobs[j] = {"run", "at", "status"} /\ d.jobs[j].run \in DOMAIN d.runs
  /\ \A h \in DOMAIN d.handoffs : d.handoffs[h] \in DOMAIN d.runs

\* NothingUncleared of a database.
Cleared(d) ==
  /\ \A j \in DOMAIN d.jobs :
       LET run == d.runs[d.jobs[j].run]
       IN (run.shadow => run.approved) /\ run.verdict # "handoff"
  /\ \A h \in DOMAIN d.handoffs : LET run == d.runs[d.handoffs[h]] IN run.shadow => run.approved

PendingOf(d) == {r \in DOMAIN d.runs : d.runs[r].status = "shadow_pending"}

\* d and e have the same runs but for their status and, if they approve more, approval.
SameRuns(d, e) ==
  /\ DOMAIN e.runs = DOMAIN d.runs
  /\ \A r \in DOMAIN d.runs :
       /\ DOMAIN e.runs[r] = RunFields
       /\ e.runs[r].shadow = d.runs[r].shadow
       /\ e.runs[r].verdict = d.runs[r].verdict
       /\ e.runs[r].action = d.runs[r].action
       /\ e.runs[r].local = d.runs[r].local
       /\ e.runs[r].asked = d.runs[r].asked
       /\ e.runs[r].approved \in BOOLEAN
       /\ d.runs[r].approved => e.runs[r].approved

\* Withdrawing changes statuses only, and makes the stale runs stale.
LEMMA WithdrawnFacts ==
  ASSUME NEW d, DbOK(d), Cleared(d), NEW stale, NEW cancelled
  PROVE  LET e == Withdrawn(d, stale, cancelled)
         IN  /\ DbOK(e) /\ Cleared(e)
             /\ Len(e.runs) = Len(d.runs)
             /\ PendingOf(e) \subseteq PendingOf(d) \ stale
<1> DEFINE e == Withdrawn(d, stale, cancelled)
<1>1. /\ DOMAIN e = DOMAIN d
      /\ e.handoffs = d.handoffs
      /\ e.jobs = [j \in DOMAIN d.jobs |-> IF j \in cancelled
                     THEN [d.jobs[j] EXCEPT !.status = "cancelled"] ELSE d.jobs[j]]
      /\ e.runs = [r \in DOMAIN d.runs |-> IF r \in stale
                     THEN [d.runs[r] EXCEPT !.status = "stale"] ELSE d.runs[r]]
  BY DEF Withdrawn, DbOK, DbFields
<1>2. IsSeq(e.jobs) /\ IsSeq(e.runs) /\ Len(e.runs) = Len(d.runs)
  BY <1>1, ChangeFacts DEF DbOK, DbFields
<1>3. SameRuns(d, e)
  BY <1>1 DEF DbOK, DbFields, SameRuns, RunFields
<1>4. \A j \in DOMAIN d.jobs :
        DOMAIN e.jobs[j] = {"run", "at", "status"} /\ e.jobs[j].run = d.jobs[j].run
  BY <1>1 DEF DbOK, DbFields
<1>5. DOMAIN e.jobs = DOMAIN d.jobs
  BY <1>1
<1>6. PendingOf(e) \subseteq PendingOf(d) \ stale
  BY <1>1 DEF PendingOf, DbOK, RunFields
<1> HIDE DEF e
<1>7. DbOK(e)
  BY <1>1, <1>2, <1>3, <1>4, <1>5 DEF DbOK, DbFields, SameRuns
<1>8. Cleared(e)
  <2>1. \A x \in DOMAIN d.runs :
          /\ (d.runs[x].shadow => d.runs[x].approved) => (e.runs[x].shadow => e.runs[x].approved)
          /\ e.runs[x].verdict = d.runs[x].verdict
    BY <1>3 DEF SameRuns
  <2>2. \A j \in DOMAIN d.jobs : d.jobs[j].run \in DOMAIN d.runs
    BY DEF DbOK, DbFields
  <2>3. \A h \in DOMAIN d.handoffs : d.handoffs[h] \in DOMAIN d.runs
    BY DEF DbOK, DbFields
  <2>4. \A j \in DOMAIN e.jobs :
          (e.runs[e.jobs[j].run].shadow => e.runs[e.jobs[j].run].approved)
            /\ e.runs[e.jobs[j].run].verdict # "handoff"
    BY <1>4, <1>5, <2>1, <2>2 DEF Cleared
  <2>5. \A h \in DOMAIN e.handoffs :
          e.runs[e.handoffs[h]].shadow => e.runs[e.handoffs[h]].approved
    BY <1>1, <2>1, <2>3 DEF Cleared
  <2> QED BY <2>4, <2>5 DEF Cleared
<1> QED BY <1>2, <1>6, <1>7, <1>8 DEF e

\* Executing a run takes it out of those that wait, and leaves a job of it only
\* when it was to send a message.
Executed(d, r, e) ==
  /\ DOMAIN e = DOMAIN d
  /\ \E status \in {"approved", "executed"} :
       e.runs = [d.runs EXCEPT ![r].status = status]
  /\ \/ e.jobs = d.jobs
     \/ e.jobs = Append(d.jobs, NewJob(r)) /\ d.runs[r].action # "handoff"
  /\ e.handoffs = d.handoffs \/ e.handoffs = Append(d.handoffs, r)

LEMMA ExecuteFacts ==
  ASSUME NEW d, DOMAIN d = DbFields, NEW r \in DOMAIN d.runs, NEW read
  PROVE  Executed(d, r, Execute(d, r, read))
<1> USE DEF Executed
<1> DEFINE status == IF d.runs[r].shadow THEN "approved" ELSE "executed"
           f == [d EXCEPT !.runs[r].status = status]
<1>1. /\ DOMAIN f = DOMAIN d
      /\ f.runs = [d.runs EXCEPT ![r].status = status]
      /\ f.jobs = d.jobs /\ f.handoffs = d.handoffs
  BY DEF DbOK, DbFields
<1>2. status \in {"approved", "executed"}
  OBVIOUS
<1>3. \A jobs : LET e == [f EXCEPT !.jobs = jobs]
                IN DOMAIN e = DOMAIN d /\ e.runs = f.runs /\ e.jobs = jobs /\ e.handoffs = f.handoffs
  BY <1>1 DEF DbOK, DbFields
<1>4. \A handoffs, lead : LET e == [f EXCEPT !.handoffs = handoffs, !.lead = lead]
                IN DOMAIN e = DOMAIN d /\ e.runs = f.runs /\ e.jobs = f.jobs /\ e.handoffs = handoffs
  BY <1>1 DEF DbOK, DbFields
<1>5. \A lead : LET e == [f EXCEPT !.lead = lead]
                IN DOMAIN e = DOMAIN d /\ e.runs = f.runs /\ e.jobs = f.jobs /\ e.handoffs = f.handoffs
  BY <1>1 DEF DbOK, DbFields
<1>6. Execute(d, r, read) =
        CASE d.runs[r].action \in {"send_message", "schedule_followup"} ->
               [f EXCEPT !.jobs = IF d.runs[r].text = "none" THEN f.jobs
                                  ELSE Append(f.jobs, NewJob(r))]
          [] d.runs[r].action = "handoff" ->
               [f EXCEPT !.handoffs = Append(f.handoffs, r),
                         !.lead = CloseOrStage(f.lead, read, "handoff")]
          [] d.runs[r].action = "close_lost" ->
               [f EXCEPT !.lead = CloseOrStage(f.lead, read, "closed")]
          [] OTHER -> f
  BY DEF Execute
<1> HIDE DEF f, status
<1>7. CASE d.runs[r].action \in {"send_message", "schedule_followup"}
  BY <1>1, <1>2, <1>3, <1>6, <1>7
<1>8. CASE d.runs[r].action = "handoff"
  <2> DEFINE e == [f EXCEPT !.handoffs = Append(f.handoffs, r),
                            !.lead = CloseOrStage(f.lead, read, "handoff")]
  <2>1. Execute(d, r, read) = e
    BY <1>6, <1>8
  <2>2. /\ DOMAIN e = DOMAIN d /\ e.runs = f.runs /\ e.jobs = f.jobs
        /\ e.handoffs = Append(f.handoffs, r)
    BY <1>4
  <2> HIDE DEF e
  <2> QED BY <1>1, <1>2, <2>1, <2>2
<1>9. CASE d.runs[r].action = "close_lost"
  <2> DEFINE e == [f EXCEPT !.lead = CloseOrStage(f.lead, read, "closed")]
  <2>1. Execute(d, r, read) = e
    BY <1>6, <1>9
  <2>2. /\ DOMAIN e = DOMAIN d /\ e.runs = f.runs /\ e.jobs = f.jobs
        /\ e.handoffs = f.handoffs
    BY <1>5
  <2> HIDE DEF e
  <2> QED BY <1>1, <1>2, <2>1, <2>2
<1>10. CASE d.runs[r].action \notin {"send_message", "schedule_followup", "handoff", "close_lost"}
  BY <1>1, <1>2, <1>6, <1>10
<1> QED BY <1>7, <1>8, <1>9, <1>10

\* A run that needs no approval, or gets it, may be executed.
LEMMA ExecuteCleared ==
  ASSUME NEW d, DbOK(d), Cleared(d), NEW r \in DOMAIN d.runs, NEW e,
         NEW x, Executed(d, r, x), DOMAIN e = DOMAIN d, e.jobs = x.jobs, e.handoffs = x.handoffs,
         SameRuns(d, e), IsSeq(e.runs),
         e.runs[r].shadow => e.runs[r].approved
  PROVE  DbOK(e) /\ Cleared(e)
<1>1. \/ e.jobs = d.jobs
      \/ e.jobs = Append(d.jobs, NewJob(r)) /\ d.runs[r].action # "handoff"
  BY DEF Executed
<1>2. e.handoffs = d.handoffs \/ e.handoffs = Append(d.handoffs, r)
  BY DEF Executed
<1>3. \A j \in DOMAIN e.jobs :
        /\ DOMAIN e.jobs[j] = {"run", "at", "status"}
        /\ \/ j \in DOMAIN d.jobs /\ e.jobs[j].run = d.jobs[j].run
           \/ e.jobs[j].run = r /\ d.runs[r].action # "handoff"
  <2>1. CASE e.jobs = d.jobs
    BY <2>1 DEF DbOK, DbFields
  <2>2. CASE e.jobs = Append(d.jobs, NewJob(r)) /\ d.runs[r].action # "handoff"
    <3>1. /\ DOMAIN e.jobs = 1 .. (Len(d.jobs) + 1)
          /\ DOMAIN d.jobs = 1 .. Len(d.jobs) /\ Len(d.jobs) \in Nat
          /\ e.jobs[Len(d.jobs) + 1] = NewJob(r)
          /\ \A i \in 1 .. Len(d.jobs) : e.jobs[i] = d.jobs[i]
      BY <2>2, AppendFacts DEF DbOK, DbFields
    <3>2. DOMAIN NewJob(r) = {"run", "at", "status"} /\ NewJob(r).run = r
      BY DEF NewJob
    <3> QED BY <2>2, <3>1, <3>2 DEF DbOK, DbFields
  <2> QED BY <1>1, <2>1, <2>2
<1>4. \A h \in DOMAIN e.handoffs :
        \/ h \in DOMAIN d.handoffs /\ e.handoffs[h] = d.handoffs[h]
        \/ e.handoffs[h] = r
  <2>1. CASE e.handoffs = Append(d.handoffs, r)
    BY <2>1, AppendFacts DEF DbOK, DbFields
  <2> QED BY <1>2, <2>1
<1>5. IsSeq(e.jobs) /\ IsSeq(e.handoffs)
  <2>1. IsSeq(d.jobs) /\ IsSeq(d.handoffs)
    BY DEF DbOK, DbFields
  <2>2. IsSeq(Append(d.jobs, NewJob(r))) /\ IsSeq(Append(d.handoffs, r))
    BY <2>1, AppendFacts
  <2> QED BY <1>1, <1>2, <2>1, <2>2
<1>6. DbOK(e)
  BY <1>3, <1>4, <1>5 DEF DbOK, DbFields, SameRuns
<1>7. d.runs[r].action # "handoff" => e.runs[r].verdict # "handoff"
  BY DEF DbOK, DbFields, SameRuns
<1>8. \A q \in DOMAIN d.runs :
        (d.runs[q].shadow => d.runs[q].approved) => (e.runs[q].shadow => e.runs[q].approved)
  BY DEF SameRuns
<1>9. \A j \in DOMAIN e.jobs :
        (e.runs[e.jobs[j].run].shadow => e.runs[e.jobs[j].run].approved)
          /\ e.runs[e.jobs[j].run].verdict # "handoff"
  BY <1>3, <1>7, <1>8 DEF DbOK, DbFields, SameRuns, Cleared
<1>10. \A h \in DOMAIN e.handoffs :
         e.runs[e.handoffs[h]].shadow => e.runs[e.handoffs[h]].approved
  BY <1>4, <1>8 DEF DbOK, DbFields, Cleared
<1> QED BY <1>6, <1>9, <1>10 DEF Cleared

(***************************************************************************)
(* The invariant: nothing but what the open turn makes stale waits.         *)
(***************************************************************************)
Inv ==
  /\ DbOK(db) /\ NothingUncleared
  /\ PendingIsNewest
  /\ turn.open => Pending \subseteq turn.stale
  /\ \A o \in Operators : op[o].run \in DOMAIN db.runs \cup {0}

\* Inv speaks of the database, the turn and the operators only.
LEMMA InvParts ==
  Inv <=> /\ DbOK(db) /\ Cleared(db)
          /\ PendingOf(db) \subseteq {Len(db.runs)}
          /\ turn.open => PendingOf(db) \subseteq turn.stale
          /\ \A o \in Operators : op[o].run \in DOMAIN db.runs \cup {0}
BY DEF Inv, NothingUncleared, Cleared, PendingIsNewest, Pending, PendingOf

\* The same in the next state.
LEMMA InvPartsNext ==
  Inv' <=> /\ DbOK(db') /\ Cleared(db')
           /\ PendingOf(db') \subseteq {Len(db'.runs)}
           /\ turn'.open => PendingOf(db') \subseteq turn'.stale
           /\ \A o \in Operators : op'[o].run \in DOMAIN db'.runs \cup {0}
BY DEF Inv, NothingUncleared, Cleared, PendingIsNewest, Pending, PendingOf, DbOK, DbFields

\* No run yet.
LEMMA InitInv == Init => Inv
<1> SUFFICES ASSUME Init PROVE Inv
  OBVIOUS
<1>1. IsSeq(<< >>) /\ Len(<< >>) = 0 /\ DOMAIN << >> = {}
  <2>1. << >> \in Seq({})
    OBVIOUS
  <2> QED BY <2>1 DEF IsSeq
<1>2. DbOK(db)
  BY <1>1 DEF Init, DbOK, DbFields
<1> QED BY <1>1, <1>2, InvParts DEF Init, Cleared, PendingOf, NotReading

\* What a turn decides is cleared or waits, and no older run waits any more.
LEMMA DecidedFacts ==
  ASSUME Inv, turn.open, NEW models, models \subseteq Models, NEW modelVerdicts,
         NEW p \in Turns(LocalDecisions \cup models, modelVerdicts),
         NEW shadow \in BOOLEAN, NEW local, local => models = {} /\ modelVerdicts = {}
  PROVE  LET e == Decided(p[1], p[2], shadow, local)
         IN  /\ DbOK(e) /\ Cleared(e)
             /\ PendingOf(e) \subseteq {Len(e.runs)}
             /\ DOMAIN db.runs \subseteq DOMAIN e.runs
<1> DEFINE before == Withdrawn(db, turn.stale, turn.cancelled)
           lead == Prepared(before.lead, turn.text)
           slots == SlotPatch(turn.text) \cup p[1].slots
           run == NewRun(p[1], p[2], shadow, local)
           after == [before EXCEPT !.lead = WithPatch(WithSlots(lead, slots), p[1]),
                                   !.runs = Append(@, run),
                                   !.processed = turn.message]
           n == Len(before.runs) + 1
<1>1. /\ DbOK(before) /\ Cleared(before)
      /\ Len(before.runs) = Len(db.runs)
      /\ PendingOf(before) = {}
  BY InvParts, WithdrawnFacts
<1>2. \A d \in LocalDecisions \cup models : IsDecision(d)
  BY LocalIsDecision, BrainConstantsOK DEF LocalDecisions, IsDecision
<1>3. /\ DOMAIN run = RunFields
      /\ run.shadow = shadow /\ run.approved = FALSE
      /\ run.verdict = "handoff" => run.action = "handoff"
      /\ run.status = IF shadow THEN "shadow_pending" ELSE "executed"
      /\ run.local => Stops(run.asked, run.action)
  <2>1. local => Stops(turn.text, p[1].action)
    <3>1. ASSUME local PROVE p \in Turns(LocalDecisions, {})
      <4>1. models = {} /\ modelVerdicts = {} /\ LocalDecisions \cup {} = LocalDecisions
        BY <3>1
      <4> QED BY <4>1
    <3> QED BY <3>1, TurnStops
  <2> QED BY <1>2, <2>1, TurnsHandOver DEF NewRun, RunFields
<1>4. /\ DOMAIN after = DOMAIN before
      /\ after.runs = Append(before.runs, run)
      /\ after.jobs = before.jobs /\ after.handoffs = before.handoffs
  BY <1>1 DEF DbOK, DbFields
<1>5. Decided(p[1], p[2], shadow, local) = ExecuteOrShadow(after, Len(after.runs))
  BY DEF Decided
<1> HIDE DEF before, run, after
<1>6. /\ IsSeq(after.runs) /\ Len(after.runs) = n /\ n \in Nat
      /\ DOMAIN before.runs = 1 .. Len(before.runs) /\ Len(before.runs) \in Nat
      /\ DOMAIN after.runs = 1 .. n
      /\ after.runs[n] = run
      /\ \A i \in DOMAIN before.runs : after.runs[i] = before.runs[i]
  BY <1>1, <1>4, AppendFacts DEF DbOK, DbFields
<1>7. DOMAIN db.runs = 1 .. Len(db.runs)
  BY InvParts, SeqFacts DEF DbOK, DbFields
<1>8. DbOK(after)
  <2>1. \A r \in DOMAIN after.runs :
          /\ DOMAIN after.runs[r] = RunFields
          /\ after.runs[r].shadow \in BOOLEAN /\ after.runs[r].approved \in BOOLEAN
          /\ after.runs[r].verdict = "handoff" => after.runs[r].action = "handoff"
          /\ after.runs[r].local => Stops(after.runs[r].asked, after.runs[r].action)
    <3>2. ASSUME NEW r \in DOMAIN after.runs, r # n PROVE r \in DOMAIN before.runs
      BY <1>6, <3>2
    <3> QED BY <1>1, <1>3, <1>6, <3>2 DEF DbOK, DbFields
  <2>2. DOMAIN before.runs \subseteq DOMAIN after.runs
    BY <1>6
  <2> QED BY <1>1, <1>4, <1>6, <2>1, <2>2 DEF DbOK, DbFields
<1>9. Cleared(after)
  BY <1>1, <1>4, <1>6 DEF DbOK, DbFields, Cleared
<1>10. PendingOf(after) \subseteq {n}
  BY <1>1, <1>6 DEF PendingOf
<1>11. CASE shadow
  <2>1. Decided(p[1], p[2], shadow, local) = after
    BY <1>3, <1>5, <1>6, <1>11 DEF ExecuteOrShadow
  <2> QED BY <1>1, <1>6, <1>7, <1>8, <1>9, <1>10, <2>1
<1>12. CASE ~shadow
  <2> DEFINE e == Execute(after, n, after.lead)
  <2>1. Decided(p[1], p[2], shadow, local) = e
    BY <1>3, <1>5, <1>6, <1>12 DEF ExecuteOrShadow
  <2>2. n \in DOMAIN after.runs
    BY <1>6
  <2>3. PICK status \in {"approved", "executed"} :
          DOMAIN e = DOMAIN after /\ e.runs = [after.runs EXCEPT ![n].status = status]
    BY <1>8, <2>2, ExecuteFacts DEF Executed, DbOK
  <2>4. IsSeq(e.runs) /\ Len(e.runs) = n
    BY <1>6, <2>3, ChangeFacts
  <2>5. SameRuns(after, e)
    BY <1>8, <2>2, <2>3 DEF DbOK, DbFields, SameRuns, RunFields
  <2>6. ~e.runs[n].shadow
    BY <1>3, <1>6, <1>12, <2>2, <2>5 DEF SameRuns
  <2>7. Executed(after, n, e)
    BY <1>8, <2>2, ExecuteFacts DEF DbOK
  <2>8. PendingOf(e) \subseteq PendingOf(after)
    BY <1>8, <2>2, <2>3 DEF PendingOf, DbOK, RunFields
  <2> HIDE DEF e
  <2>9. DbOK(e) /\ Cleared(e)
    BY <1>8, <1>9, <2>2, <2>3, <2>4, <2>5, <2>6, <2>7, ExecuteCleared
  <2> QED BY <1>1, <1>6, <1>7, <1>10, <2>1, <2>3, <2>4, <2>8, <2>9
<1> QED BY <1>11, <1>12

\* An approval clears what it executes.
LEMMA ApproveFacts ==
  ASSUME Inv, NEW r \in DOMAIN db.runs, NEW read
  PROVE  LET e == [Execute(db, r, read) EXCEPT !.runs[r].approved = TRUE]
         IN  /\ DbOK(e) /\ Cleared(e)
             /\ DOMAIN e.runs = DOMAIN db.runs /\ Len(e.runs) = Len(db.runs)
             /\ PendingOf(e) \subseteq PendingOf(db)
<1> DEFINE x == Execute(db, r, read)
           e == [x EXCEPT !.runs[r].approved = TRUE]
<1>1. DbOK(db) /\ Cleared(db)
  BY InvParts
<1>2. PICK status \in {"approved", "executed"} :
        DOMAIN x = DOMAIN db /\ x.runs = [db.runs EXCEPT ![r].status = status]
  BY <1>1, ExecuteFacts DEF Executed, DbOK
<1>3. /\ Executed(db, r, x)
      /\ DOMAIN e = DOMAIN db
      /\ e.jobs = x.jobs /\ e.handoffs = x.handoffs
      /\ e.runs = [x.runs EXCEPT ![r].approved = TRUE]
  BY <1>1, <1>2, ExecuteFacts DEF DbOK, DbFields
<1>4. SameRuns(db, e) /\ e.runs[r].approved = TRUE
  <2>1. e.runs[r] = [db.runs[r] EXCEPT !.status = status, !.approved = TRUE]
    BY <1>2, <1>3
  <2>2. \A k \in DOMAIN db.runs \ {r} : e.runs[k] = db.runs[k]
    BY <1>2, <1>3
  <2>3. DOMAIN e.runs = DOMAIN db.runs
    BY <1>2, <1>3
  <2>4. \A k \in DOMAIN db.runs : DOMAIN db.runs[k] = RunFields /\ db.runs[k].approved \in BOOLEAN
    BY <1>1 DEF DbOK, DbFields
  <2> HIDE DEF e, x
  <2>5. /\ DOMAIN e.runs[r] = RunFields
        /\ e.runs[r].shadow = db.runs[r].shadow
        /\ e.runs[r].verdict = db.runs[r].verdict
        /\ e.runs[r].action = db.runs[r].action
        /\ e.runs[r].local = db.runs[r].local
        /\ e.runs[r].asked = db.runs[r].asked
        /\ e.runs[r].approved = TRUE
    BY <2>1, <2>4 DEF RunFields
  <2> QED BY <2>2, <2>3, <2>4, <2>5 DEF SameRuns
<1>5. IsSeq(e.runs) /\ Len(e.runs) = Len(db.runs) /\ DOMAIN e.runs = DOMAIN db.runs
  BY <1>1, <1>2, <1>3, ChangeFacts DEF DbOK, DbFields
<1>6. PendingOf(e) \subseteq PendingOf(db)
  BY <1>1, <1>2, <1>3 DEF PendingOf, DbOK, RunFields
<1> HIDE DEF e
<1>7. DbOK(e) /\ Cleared(e)
  BY <1>1, <1>3, <1>4, <1>5, ExecuteCleared
<1> QED BY <1>5, <1>6, <1>7 DEF e

\* A run's or a job's status alone matters little, unless a run becomes pending.
LEMMA StatusFacts ==
  ASSUME Inv, NEW e, DOMAIN e = DOMAIN db, e.handoffs = db.handoffs,
         IsSeq(e.runs), Len(e.runs) = Len(db.runs), SameRuns(db, e), PendingOf(e) \subseteq PendingOf(db),
         IsSeq(e.jobs), DOMAIN e.jobs = DOMAIN db.jobs,
         \A j \in DOMAIN db.jobs : DOMAIN e.jobs[j] = {"run", "at", "status"}
                                   /\ e.jobs[j].run = db.jobs[j].run
  PROVE  /\ DbOK(e) /\ Cleared(e)
         /\ PendingOf(e) \subseteq {Len(e.runs)}
<1>1. DbOK(e)
  BY InvParts DEF DbOK, DbFields, SameRuns
<1>2. Cleared(e)
  BY InvParts DEF DbOK, DbFields, SameRuns, Cleared
<1> QED BY <1>1, <1>2, InvParts

\* Each step of the candidate, the worker, a turn and an operator keeps Inv.
LEMMA NextInv == Inv /\ [Next]_vars => Inv'
<1> SUFFICES ASSUME Inv, [Next]_vars PROVE Inv'
  OBVIOUS
<1>0. ASSUME NEW e, db' = e, DbOK(e), Cleared(e), PendingOf(e) \subseteq PendingOf(db),
             Len(e.runs) = Len(db.runs), DOMAIN db.runs \subseteq DOMAIN e.runs, turn' = turn,
             \A o \in Operators : op'[o].run \in DOMAIN db.runs \cup {0}
      PROVE  Inv'
  BY <1>0, InvParts, InvPartsNext
<1>1. ASSUME db' = db, turn' = turn, op' = op PROVE Inv'
  BY <1>1, InvParts, InvPartsNext
<1>2. CASE RecordTyping \/ \E m \in events : TooEarly(m)
  <2>1. db' = Withdrawn(db, Pending, Queued) /\ turn' = turn /\ op' = op
    BY <1>2 DEF RecordTyping, TooEarly
  <2>2. LET e == Withdrawn(db, Pending, Queued)
        IN DbOK(e) /\ Cleared(e) /\ Len(e.runs) = Len(db.runs) /\ PendingOf(e) \subseteq PendingOf(db)
    BY InvParts, WithdrawnFacts
  <2>3. DOMAIN Withdrawn(db, Pending, Queued).runs = DOMAIN db.runs
    BY <2>2, InvParts, SeqFacts DEF DbOK, DbFields
  <2> QED BY <1>0, <2>1, <2>2, <2>3, InvParts
<1>3. ASSUME NEW m \in events, BeginTurn(m) PROVE Inv'
  <2>1. db' = db /\ op' = op /\ turn'.stale = Pending
    BY <1>3 DEF BeginTurn
  <2> QED BY <2>1, InvParts, InvPartsNext DEF Pending, PendingOf
<1>4. ASSUME NEW models, models \subseteq Models, NEW modelVerdicts,
             FinishTurn(models, modelVerdicts)
      PROVE  Inv'
  <2>1. PICK p \in Turns(LocalDecisions \cup models, modelVerdicts), shadow \in BOOLEAN :
          db' = Decided(p[1], p[2], shadow, models = {} /\ modelVerdicts = {})
    BY <1>4, BrainConstantsOK DEF FinishTurn
  <2>2. turn.open /\ op' = op /\ turn' = NoTurn /\ ~NoTurn.open
    BY <1>4 DEF FinishTurn, NoTurn
  <2>3. LET e == Decided(p[1], p[2], shadow, models = {} /\ modelVerdicts = {})
        IN DbOK(e) /\ Cleared(e) /\ PendingOf(e) \subseteq {Len(e.runs)}
           /\ DOMAIN db.runs \subseteq DOMAIN e.runs
    BY <1>4, <2>2, DecidedFacts
  <2> QED BY <2>1, <2>2, <2>3, InvParts, InvPartsNext
<1>5. CASE TurnCrashes
  BY <1>5, InvParts, InvPartsNext DEF TurnCrashes, NoTurn
<1>6. ASSUME NEW o \in Operators, NEW r \in DOMAIN db.runs, OpenRun(o, r) PROVE Inv'
  <2>1. \A k \in Operators : op'[k].run \in DOMAIN db.runs \cup {0}
    BY <1>6, InvParts DEF OpenRun
  <2> QED BY <1>6, <2>1, InvParts, InvPartsNext DEF OpenRun
<1>7. ASSUME NEW o \in Operators, Approve(o) PROVE Inv'
  <2>1. op[o].run \in DOMAIN db.runs
    BY <1>7, InvParts DEF Approve
  <2>2. \A k \in Operators : op'[k].run \in DOMAIN db.runs \cup {0}
    BY <1>7, InvParts DEF Approve, NotReading
  <2> QED BY <1>0, <1>7, <2>1, <2>2, ApproveFacts DEF Approve
<1>8. ASSUME NEW o \in Operators, NEW r \in DOMAIN db.runs, Reject(o, r) PROVE Inv'
  <2> DEFINE e == [db EXCEPT !.runs[r].status = "rejected"]
  <2>1. /\ DOMAIN e = DOMAIN db
        /\ e.jobs = db.jobs /\ e.handoffs = db.handoffs
        /\ e.runs = [db.runs EXCEPT ![r].status = "rejected"]
    BY InvParts DEF DbOK, DbFields
  <2>2. IsSeq(e.runs) /\ Len(e.runs) = Len(db.runs) /\ DOMAIN e.runs = DOMAIN db.runs
    BY <2>1, InvParts, ChangeFacts DEF DbOK, DbFields
  <2>3. SameRuns(db, e) /\ PendingOf(e) \subseteq PendingOf(db)
    BY <2>1, InvParts DEF DbOK, DbFields, SameRuns, PendingOf, RunFields
  <2>4. db' = e /\ turn' = turn /\ op' = op
    BY <1>8 DEF Reject
  <2> HIDE DEF e
  <2>5. DbOK(e) /\ Cleared(e)
    BY <2>1, <2>2, <2>3, InvParts, StatusFacts DEF DbOK, DbFields
  <2> QED BY <1>0, <2>2, <2>3, <2>4, <2>5, InvParts
<1>9. ASSUME NEW j \in DOMAIN db.jobs, Send(j) PROVE Inv'
  <2>1. PICK status : \/ db' = [db EXCEPT !.jobs[j].status = status, !.answered = Latest]
                      \/ db' = [db EXCEPT !.jobs[j].status = status]
    BY <1>9 DEF Send
  <2>2. /\ DOMAIN db' = DOMAIN db
        /\ db'.runs = db.runs /\ db'.handoffs = db.handoffs
        /\ db'.jobs = [db.jobs EXCEPT ![j].status = status]
    BY <2>1, InvParts DEF DbOK, DbFields
  <2>3. IsSeq(db'.jobs) /\ DOMAIN db'.jobs = DOMAIN db.jobs
    BY <2>2, InvParts, ChangeFacts DEF DbOK, DbFields
  <2>4. \A k \in DOMAIN db.jobs : DOMAIN db'.jobs[k] = {"run", "at", "status"}
                                  /\ db'.jobs[k].run = db.jobs[k].run
    BY <2>2, InvParts DEF DbOK, DbFields
  <2>5. SameRuns(db, db') /\ PendingOf(db') = PendingOf(db)
    BY <2>2, InvParts DEF DbOK, DbFields, SameRuns, PendingOf
  <2>6. IsSeq(db.runs)
    BY InvParts DEF DbOK, DbFields
  <2>7. DbOK(db') /\ Cleared(db')
    BY <2>2, <2>3, <2>4, <2>5, <2>6, StatusFacts
  <2>8. turn' = turn /\ op' = op
    BY <1>9 DEF Send
  <2> QED BY <2>2, <2>5, <2>7, <2>8, InvParts, InvPartsNext
<1>10. CASE UNCHANGED vars
  BY <1>1, <1>10 DEF vars
<1>11. ASSUME NEW t \in Messages, Say(t) PROVE Inv'
  BY <1>1, <1>11 DEF Say
<1>12. CASE BecomeQuiet
  BY <1>1, <1>12 DEF BecomeQuiet
<1>13. ASSUME NEW m \in events, Covered(m) PROVE Inv'
  BY <1>1, <1>13 DEF Covered
<1>14. CASE Worker
  BY <1>3, <1>4, <1>13, <1>14 DEF Worker
<1>15. CASE FinishTurn(Models, ModelVerdicts)
  BY <1>4, <1>15
<1> QED BY <1>2, <1>5, <1>6, <1>7, <1>8, <1>9, <1>10, <1>11, <1>12, <1>14, <1>15 DEF Next

\* Inv holds in every reachable state.
LEMMA InvHolds == Spec => []Inv
BY InitInv, NextInv, PTL DEF Spec

\* For any agenda, models, number of operators and messages: whatever operators
\* do while a turn is open, no answer and no handoff goes out uncleared.
THEOREM BrainNothingUncleared == Spec => []NothingUncleared
<1>1. Inv => NothingUncleared
  BY DEF Inv
<1> QED BY <1>1, InvHolds, PTL

\* And only the newest run waits for approval.
THEOREM BrainPendingIsNewest == Spec => []PendingIsNewest
<1>1. Inv => PendingIsNewest
  BY DEF Inv
<1> QED BY <1>1, InvHolds, PTL

\* Under the same generality a turn that no language model had a part in closes the
\* conversation on a refusal and on an age below 18, and hands a legal question over.
THEOREM BrainHardStops == Spec => []HardStops
<1>1. Inv => HardStops
  BY DEF Inv, DbOK, HardStops, Stops
<1> QED BY <1>1, InvHolds, PTL

(***************************************************************************)
(* The open question: a lead has no item of the agenda or all of them, and  *)
(* only a decision or an operator moves its stage.                          *)
(***************************************************************************)
Asked(lead) == \A k \in ItemKeys : lead.items[k] # "absent"

LeadOK(lead) ==
  /\ DOMAIN lead = {"stage", "closed", "loop", "slots", "items"}
  /\ lead.stage \in Stages
  /\ DOMAIN lead.items = ItemKeys /\ lead.items = [k \in ItemKeys |-> lead.items[k]]
  /\ (\A k \in ItemKeys : lead.items[k] = "absent") \/ Asked(lead)

\* QuestionOfStage of a lead.
QuestionOf(lead) ==
  lead.loop # NotSet =>
    /\ Asked(lead)
    /\ \/ lead.stage \in {"handoff", "closed"}
       \/ \E i \in 1..Len(Agenda) : Agenda[i].key = lead.loop /\ Agenda[i].stage = lead.stage

\* The stages that the rules name.
LEMMA NamedStages ==
  {"lead_created", "lead_replied", "trust", "qualification", "contact_collection", "scheduling",
   "handoff", "closed"} \subseteq Stages
<1>1. /\ Len(StageOrder) = 21
      /\ StageOrder[1] = "lead_created" /\ StageOrder[4] = "lead_replied" /\ StageOrder[7] = "trust"
      /\ StageOrder[12] = "qualification" /\ StageOrder[16] = "contact_collection"
      /\ StageOrder[17] = "scheduling" /\ StageOrder[20] = "handoff" /\ StageOrder[21] = "closed"
  BY DEF StageOrder
<1> QED BY <1>1 DEF Stages

\* The agenda is created as a whole, and an asked lead keeps its stage.
LEMMA PreparedFacts ==
  ASSUME NEW lead, LeadOK(lead), NEW t
  PROVE  LET l == Prepared(lead, t)
         IN  /\ LeadOK(l) /\ l.loop = lead.loop
             /\ ShouldCreateAgenda(t) => Asked(l)
             /\ Asked(lead) => Asked(l)
             /\ Asked(lead) /\ lead.stage # "lead_created" => l.stage = lead.stage
<1> DEFINE l == Prepared(lead, t)
<1>1. ItemKeys # {}
  BY AgendaOK DEF ItemKeys
<1>2. CASE ShouldCreateAgenda(t) /\ \A k \in ItemKeys : lead.items[k] = "absent"
  <2>1. l = [lead EXCEPT !.stage = "trust", !.items = [k \in ItemKeys |-> "pending"]]
    BY <1>2 DEF Prepared
  <2>2. /\ DOMAIN l = DOMAIN lead /\ l.stage = "trust" /\ l.loop = lead.loop
        /\ l.items = [k \in ItemKeys |-> "pending"]
    BY <2>1 DEF LeadOK
  <2>3. ~Asked(lead)
    BY <1>1, <1>2 DEF Asked
  <2> QED BY <2>2, <2>3, NamedStages DEF LeadOK, Asked
<1>3. CASE ~(ShouldCreateAgenda(t) /\ \A k \in ItemKeys : lead.items[k] = "absent")
  <2>1. l = [lead EXCEPT !.stage = IF lead.stage = "lead_created" THEN "lead_replied" ELSE lead.stage]
    BY <1>3 DEF Prepared
  <2>2. /\ DOMAIN l = DOMAIN lead /\ l.loop = lead.loop /\ l.items = lead.items
        /\ l.stage = IF lead.stage = "lead_created" THEN "lead_replied" ELSE lead.stage
    BY <2>1 DEF LeadOK
  <2> QED BY <1>3, <2>2, NamedStages DEF LeadOK, Asked
<1> QED BY <1>2, <1>3

\* What the slots settle is settled, not gone.
LEMMA WithSlotsFacts ==
  ASSUME NEW lead, LeadOK(lead), NEW slots
  PROVE  LET l == WithSlots(lead, slots)
         IN  LeadOK(l) /\ l.loop = lead.loop /\ l.stage = lead.stage /\ (Asked(lead) => Asked(l))
<1> DEFINE l == WithSlots(lead, slots)
           settled(k) ==
             /\ lead.items[k] \in {"pending", "active", "blocked"}
             /\ \E i \in 1..Len(Agenda) : Agenda[i].key = k /\ Agenda[i].slot \in lead.slots \cup slots
<1>1. CASE slots = {}
  BY <1>1 DEF WithSlots
<1>2. CASE slots # {}
  <2>1. /\ DOMAIN l = DOMAIN lead /\ l.loop = lead.loop /\ l.stage = lead.stage
        /\ l.items = [k \in ItemKeys |-> IF settled(k) THEN "done" ELSE lead.items[k]]
    BY <1>2 DEF WithSlots, LeadOK
  <2>2. \A k \in ItemKeys : l.items[k] = "absent" <=> lead.items[k] = "absent"
    BY <2>1
  <2>3. DOMAIN l.items = ItemKeys /\ l.items = [k \in ItemKeys |-> l.items[k]]
    BY <2>1
  <2> HIDE DEF l
  <2> QED BY <2>1, <2>2, <2>3 DEF LeadOK, Asked, l
<1> QED BY <1>1, <1>2

\* A decision moves the stage and the loop, and takes no item away.
LEMMA WithPatchFacts ==
  ASSUME NEW lead, LeadOK(lead), NEW d
  PROVE  LET l == WithPatch(lead, d)
         IN  /\ LeadOK(l) /\ (Asked(lead) => Asked(l))
             /\ l.loop = IF d.loop = KeepLoop THEN lead.loop ELSE d.loop
             /\ d.stage \in Stages => l.stage = d.stage
<1> DEFINE l == WithPatch(lead, d)
           new(k) == k \in DOMAIN d.updates /\ lead.items[k] # "absent"
<1>1. /\ DOMAIN l = DOMAIN lead
      /\ l.stage = IF d.stage = NotSet THEN lead.stage ELSE NormalizeStage(d.stage)
      /\ l.loop = IF d.loop = KeepLoop THEN lead.loop ELSE d.loop
      /\ l.items = [k \in ItemKeys |-> IF new(k) THEN NormalizeStatus(d.updates[k]) ELSE lead.items[k]]
  BY DEF WithPatch, LeadOK
<1>2. \A status : NormalizeStatus(status) # "absent"
  BY DEF NormalizeStatus
<1>3. \A k \in ItemKeys : l.items[k] = "absent" <=> lead.items[k] = "absent"
  BY <1>1, <1>2
<1>4. DOMAIN l.items = ItemKeys /\ l.items = [k \in ItemKeys |-> l.items[k]]
  BY <1>1
<1>5. NotSet \notin Stages
  <2>1. \A i \in 1..21 : StageOrder[i] # "none"
    BY DEF StageOrder
  <2>2. Len(StageOrder) = 21
    BY DEF StageOrder
  <2> QED BY <2>1, <2>2 DEF Stages, NotSet
<1>6. l.stage \in Stages /\ (d.stage \in Stages => l.stage = d.stage)
  BY <1>1, <1>5, NamedStages DEF NormalizeStage, LeadOK
<1> HIDE DEF l
<1> QED BY <1>1, <1>3, <1>4, <1>6 DEF LeadOK, Asked, l

\* The executor ends the conversation.
LEMMA CloseOrStageFacts ==
  ASSUME NEW lead, LeadOK(lead), NEW read, NEW stage \in {"handoff", "closed"}
  PROVE  LET l == CloseOrStage(lead, read, stage)
         IN  LeadOK(l) /\ (QuestionOf(lead) => QuestionOf(l))
<1> DEFINE l == CloseOrStage(lead, read, stage)
<1>1. /\ DOMAIN l = DOMAIN lead /\ l.items = lead.items /\ l.loop = lead.loop
      /\ l.stage = IF read.stage = stage THEN lead.stage ELSE stage
  BY DEF CloseOrStage, LeadOK
<1> HIDE DEF l
<1> QED BY <1>1, NamedStages DEF LeadOK, QuestionOf, Asked, l

\* It does nothing else to the lead.
LEMMA ExecuteLead ==
  ASSUME NEW d, DOMAIN d = DbFields, LeadOK(d.lead), NEW r \in DOMAIN d.runs, NEW read
  PROVE  LET l == Execute(d, r, read).lead
         IN  LeadOK(l) /\ (QuestionOf(d.lead) => QuestionOf(l))
<1> DEFINE status == IF d.runs[r].shadow THEN "approved" ELSE "executed"
           f == [d EXCEPT !.runs[r].status = status]
<1>1. DOMAIN f = DOMAIN d /\ f.lead = d.lead /\ "lead" \in DOMAIN f /\ "handoffs" \in DOMAIN f
  BY DEF DbOK, DbFields
<1>2. Execute(d, r, read) =
        CASE d.runs[r].action \in {"send_message", "schedule_followup"} ->
               [f EXCEPT !.jobs = IF d.runs[r].text = "none" THEN f.jobs
                                  ELSE Append(f.jobs, NewJob(r))]
          [] d.runs[r].action = "handoff" ->
               [f EXCEPT !.handoffs = Append(f.handoffs, r),
                         !.lead = CloseOrStage(f.lead, read, "handoff")]
          [] d.runs[r].action = "close_lost" ->
               [f EXCEPT !.lead = CloseOrStage(f.lead, read, "closed")]
          [] OTHER -> f
  BY DEF Execute
<1> HIDE DEF f
<1>3. \A jobs : [f EXCEPT !.jobs = jobs].lead = d.lead
  BY <1>1
<1>4. \A handoffs, lead : [f EXCEPT !.handoffs = handoffs, !.lead = lead].lead = lead
  BY <1>1
<1>5. \A lead : [f EXCEPT !.lead = lead].lead = lead
  BY <1>1
<1>6. CASE d.runs[r].action \in {"send_message", "schedule_followup"}
  BY <1>2, <1>3, <1>6
<1>7. CASE d.runs[r].action = "handoff"
  <2>1. Execute(d, r, read).lead = CloseOrStage(d.lead, read, "handoff")
    BY <1>1, <1>2, <1>4, <1>7
  <2> QED BY <2>1, CloseOrStageFacts
<1>8. CASE d.runs[r].action = "close_lost"
  <2>1. Execute(d, r, read).lead = CloseOrStage(d.lead, read, "closed")
    BY <1>1, <1>2, <1>5, <1>8
  <2> QED BY <2>1, CloseOrStageFacts
<1>9. CASE d.runs[r].action \notin {"send_message", "schedule_followup", "handoff", "close_lost"}
  BY <1>1, <1>2, <1>9
<1> QED BY <1>6, <1>7, <1>8, <1>9

\* What a local decision does to the question: nothing, an end, or the next item of an
\* agenda that is there.
LEMMA LocalShapes ==
  ASSUME NEW lead, NEW t, NEW answer
  PROVE  LET d == LocalDecision(Agenda, lead, t, answer)
         IN  \/ d.stage \in {"handoff", "closed", lead.stage} /\ d.loop = KeepLoop
             \/ /\ ShouldCreateAgenda(t)
                /\ \E i \in 1..Len(Agenda) : Agenda[i].key = d.loop /\ Agenda[i].stage = d.stage
<1> DEFINE d == LocalDecision(Agenda, lead, t, answer)
           patch == SlotPatch(t)
           next == NextAgendaItem(Agenda, lead.items, lead.stage, lead.slots \cup patch)
           step1 == StepOn("interview.offer", "contact_collection", "contact.collect_name_phone")
           step2 == [StepOn("contact.collect_name_phone", "scheduling", "schedule.collect_time")
                     EXCEPT !.slots = {"contact"}]
           item == CHOOSE x \in next : TRUE
<1>1. \/ d = CloseLost
      \/ \E updates : d = HandOff(updates)
      \/ d = Decision(lead.stage, KeepLoop, NoUpdates, "send_message", answer)
      \/ /\ PrimaryIntentFor(t) \notin {"not_interested", "legal_risk"}
         /\ d = step1 \/ d = step2 \/ (next # {} /\ d = Ask(lead, item))
  BY DEF LocalDecision
<1>2. /\ CloseLost.stage = "closed" /\ CloseLost.loop = KeepLoop
      /\ \A updates : HandOff(updates).stage = "handoff" /\ HandOff(updates).loop = KeepLoop
  BY DEF CloseLost, HandOff, Decision
<1>3. LET e == Decision(lead.stage, KeepLoop, NoUpdates, "send_message", answer)
      IN e.stage = lead.stage /\ e.loop = KeepLoop
  BY DEF Decision
<1>4. /\ step1.stage = "contact_collection" /\ step1.loop = "contact.collect_name_phone"
      /\ step2.stage = "scheduling" /\ step2.loop = "schedule.collect_time"
  BY DEF StepOn, Decision
<1>5. next # {} => \E i \in 1..Len(Agenda) : item = Agenda[i]
  BY DEF NextAgendaItem
<1>6. Ask(lead, item).stage = item.stage /\ Ask(lead, item).loop = item.key
  BY DEF Ask, Decision
<1> HIDE DEF d, step1, step2, item, next
<1>7. PrimaryIntentFor(t) \notin {"not_interested", "legal_risk"} => ShouldCreateAgenda(t)
  BY DEF ShouldCreateAgenda
<1>8. d = step1 \/ d = step2 =>
        \E i \in 1..Len(Agenda) : Agenda[i].key = d.loop /\ Agenda[i].stage = d.stage
  BY <1>4, AgendaOK
<1>9. next # {} /\ d = Ask(lead, item) =>
        \E i \in 1..Len(Agenda) : Agenda[i].key = d.loop /\ Agenda[i].stage = d.stage
  BY <1>5, <1>6
<1> QED BY <1>1, <1>2, <1>3, <1>7, <1>8, <1>9 DEF d

\* A local decision leaves an open question with its stage.
LEMMA LocalKeeps ==
  ASSUME NEW lead, LeadOK(lead), QuestionOf(lead), NEW t, NEW answer, NEW slots, NEW q,
         LET d == LocalDecision(Agenda, Prepared(lead, t), t, answer)
         IN q = d \/ (d.action = "handoff" /\ q = ForceHandoff(d))
  PROVE  QuestionOf(WithPatch(WithSlots(Prepared(lead, t), slots), q))
<1> DEFINE l == Prepared(lead, t)
           m == WithSlots(l, slots)
           n == WithPatch(m, q)
           d == LocalDecision(Agenda, l, t, answer)
<1>1. /\ LeadOK(l) /\ l.loop = lead.loop
      /\ ShouldCreateAgenda(t) => Asked(l)
      /\ Asked(lead) => Asked(l)
      /\ Asked(lead) /\ lead.stage # "lead_created" => l.stage = lead.stage
  BY PreparedFacts
<1>2. LeadOK(m) /\ m.loop = l.loop /\ m.stage = l.stage /\ (Asked(l) => Asked(m))
  BY <1>1, WithSlotsFacts
<1>3. \/ q.stage \in {"handoff", "closed", l.stage} /\ q.loop = KeepLoop
      \/ /\ ShouldCreateAgenda(t)
         /\ \E i \in 1..Len(Agenda) : Agenda[i].key = q.loop /\ Agenda[i].stage = q.stage
  <2>1. CASE q = d
    BY <2>1, LocalShapes
  <2>2. CASE q = ForceHandoff(d)
    <3>1. IsDecision(d)
      BY LocalIsDecision
    <3>2. q.stage = "handoff" /\ q.loop = KeepLoop
      BY <2>2, <3>1 DEF ForceHandoff, IsDecision, DecisionFields
    <3> QED BY <3>2
  <2> QED BY <2>1, <2>2
<1> HIDE DEF l, m, n, d
<1>4. /\ Asked(m) => Asked(n)
      /\ n.loop = IF q.loop = KeepLoop THEN m.loop ELSE q.loop
      /\ q.stage \in Stages => n.stage = q.stage
  BY <1>2, WithPatchFacts DEF n
<1>5. \A i \in 1..Len(Agenda) : /\ Agenda[i].key # KeepLoop
                               /\ Agenda[i].stage \in Stages /\ Agenda[i].stage # "lead_created"
  BY AgendaOK
<1>6. CASE q.stage \in {"handoff", "closed", l.stage} /\ q.loop = KeepLoop
  <2> SUFFICES ASSUME n.loop # NotSet
               PROVE  /\ Asked(n)
                      /\ \/ n.stage \in {"handoff", "closed"}
                         \/ \E i \in 1..Len(Agenda) : Agenda[i].key = n.loop /\ Agenda[i].stage = n.stage
    BY DEF QuestionOf, n, m, l
  <2>1. n.loop = lead.loop
    BY <1>1, <1>2, <1>4, <1>6
  <2>2. /\ Asked(lead)
        /\ \/ lead.stage \in {"handoff", "closed"}
           \/ \E i \in 1..Len(Agenda) : Agenda[i].key = lead.loop /\ Agenda[i].stage = lead.stage
    BY <2>1 DEF QuestionOf
  <2>3. lead.stage # "lead_created" /\ Asked(n)
    BY <1>1, <1>2, <1>4, <1>5, <2>2
  <2>4. l.stage = lead.stage
    BY <1>1, <2>2, <2>3
  <2>5. q.stage \in Stages
    BY <1>1, <1>6, NamedStages DEF LeadOK
  <2> QED BY <1>4, <1>6, <2>1, <2>2, <2>3, <2>4, <2>5
<1>7. CASE /\ ShouldCreateAgenda(t)
           /\ \E i \in 1..Len(Agenda) : Agenda[i].key = q.loop /\ Agenda[i].stage = q.stage
  <2>1. PICK i \in 1..Len(Agenda) : Agenda[i].key = q.loop /\ Agenda[i].stage = q.stage
    BY <1>7
  <2>2. q.loop # KeepLoop /\ q.stage \in Stages
    BY <1>5, <2>1
  <2>3. Asked(n) /\ n.loop = q.loop /\ n.stage = q.stage
    BY <1>1, <1>2, <1>4, <1>7, <2>2
  <2>4. QuestionOf(n)
    BY <2>1, <2>3 DEF QuestionOf
  <2> QED BY <2>4 DEF n, m, l
<1> QED BY <1>3, <1>6, <1>7

\* e has one run more than d, which tells whether a model had a part in it.
OneMoreRun(d, e, local) == Len(e.runs) = Len(d.runs) + 1 /\ e.runs[Len(e.runs)].local = local

\* A turn leaves a lead and one run more, and without a model it keeps the question.
LEMMA DecidedLead ==
  ASSUME Inv, LeadOK(db.lead), turn.open, NEW models, models \subseteq Models, NEW modelVerdicts,
         NEW p \in Turns(LocalDecisions \cup models, modelVerdicts),
         NEW shadow \in BOOLEAN, NEW local \in BOOLEAN,
         local = TRUE => models = {} /\ modelVerdicts = {}
  PROVE  LET e == Decided(p[1], p[2], shadow, local)
         IN  /\ LeadOK(e.lead)
             /\ OneMoreRun(db, e, local)
             /\ local = TRUE /\ QuestionOf(db.lead) => QuestionOf(e.lead)
<1> DEFINE before == Withdrawn(db, turn.stale, turn.cancelled)
           prepared == Prepared(before.lead, turn.text)
           slots == SlotPatch(turn.text) \cup p[1].slots
           lead == WithPatch(WithSlots(prepared, slots), p[1])
           run == NewRun(p[1], p[2], shadow, local)
           after == [before EXCEPT !.lead = lead,
                                   !.runs = Append(@, run),
                                   !.processed = turn.message]
           n == Len(before.runs) + 1
<1>1. DbOK(before) /\ Len(before.runs) = Len(db.runs)
  BY InvParts, WithdrawnFacts
<1>2. before.lead = db.lead
  BY InvParts DEF Withdrawn, DbOK, DbFields
<1>3. LeadOK(lead)
  BY <1>2, PreparedFacts, WithSlotsFacts, WithPatchFacts
<1>4. local = TRUE /\ QuestionOf(db.lead) => QuestionOf(lead)
  <2> SUFFICES ASSUME local = TRUE, QuestionOf(db.lead) PROVE QuestionOf(lead)
    OBVIOUS
  <2>1. p \in Turns(LocalDecisions, {})
    <3>1. models = {} /\ modelVerdicts = {} /\ LocalDecisions \cup {} = LocalDecisions
      OBVIOUS
    <3> QED BY <3>1
  <2>2. PICK d \in LocalDecisions : p[1] = d \/ (d.action = "handoff" /\ p[1] = ForceHandoff(d))
    BY <2>1, LocalTurns
  <2>3. PICK answer \in Answers : d = LocalDecision(Agenda, Prepared(db.lead, turn.text), turn.text, answer)
    BY <2>2 DEF LocalDecisions
  <2> QED BY <1>2, <2>2, <2>3, LocalKeeps
<1>5. Decided(p[1], p[2], shadow, local) = ExecuteOrShadow(after, Len(after.runs))
  BY DEF Decided
<1>6. DOMAIN run = RunFields /\ run.local = local /\ run.shadow = shadow
  BY DEF NewRun, RunFields
<1> HIDE DEF before, lead, run
<1>7. /\ DOMAIN after = DOMAIN before /\ after.lead = lead
      /\ after.runs = Append(before.runs, run)
  BY <1>1 DEF DbOK, DbFields
<1> HIDE DEF after
<1>8. /\ Len(after.runs) = n /\ n \in Nat /\ after.runs[n] = run /\ n \in DOMAIN after.runs
      /\ IsSeq(after.runs)
  BY <1>1, <1>7, AppendFacts DEF DbOK, DbFields
<1>9. CASE shadow
  <2>1. Decided(p[1], p[2], shadow, local) = after
    BY <1>5, <1>6, <1>8, <1>9 DEF ExecuteOrShadow
  <2> QED BY <1>1, <1>3, <1>4, <1>6, <1>7, <1>8, <2>1 DEF OneMoreRun
<1>10. CASE ~shadow
  <2> DEFINE e == Execute(after, n, after.lead)
  <2>1. Decided(p[1], p[2], shadow, local) = e
    BY <1>5, <1>6, <1>8, <1>10 DEF ExecuteOrShadow
  <2>2. DOMAIN after = DbFields
    BY <1>1, <1>7 DEF DbOK
  <2>3. PICK status \in {"approved", "executed"} : e.runs = [after.runs EXCEPT ![n].status = status]
    <3>1. Executed(after, n, e)
      BY <1>8, <2>2, ExecuteFacts
    <3> QED BY <3>1 DEF Executed
  <2>4. Len(e.runs) = n /\ e.runs[n].local = local
    BY <1>6, <1>8, <2>3, ChangeFacts DEF RunFields
  <2>5. LeadOK(e.lead) /\ (QuestionOf(after.lead) => QuestionOf(e.lead))
    BY <1>3, <1>7, <1>8, <2>2, ExecuteLead
  <2> HIDE DEF e
  <2> QED BY <1>1, <1>4, <1>7, <2>1, <2>4, <2>5 DEF OneMoreRun
<1> QED BY <1>9, <1>10

LeadInv == Inv /\ LeadOK(db.lead)

\* What a step does to the lead: what a local decision and an operator do leaves the
\* open question with its stage.
LEMMA LeadStep ==
  ASSUME LeadInv, [Next]_vars
  PROVE  /\ LeadOK(db'.lead)
         /\ \/ QuestionOf(db.lead) => QuestionOf(db'.lead)
            \/ OneMoreRun(db, db', FALSE)
<1> USE DEF LeadInv
<1>1. ASSUME NEW l, db'.lead = l, LeadOK(l), QuestionOf(db.lead) => QuestionOf(l)
      PROVE  LeadOK(db'.lead) /\ (QuestionOf(db.lead) => QuestionOf(db'.lead))
  BY <1>1
<1>2. "lead" \in DOMAIN db /\ DOMAIN db = DbFields
  BY InvParts DEF DbOK, DbFields
<1>3. CASE RecordTyping \/ \E m \in events : TooEarly(m)
  <2>1. db' = Withdrawn(db, Pending, Queued)
    BY <1>3 DEF RecordTyping, TooEarly
  <2>2. db'.lead = db.lead
    BY <1>2, <2>1 DEF Withdrawn
  <2> QED BY <1>1, <2>2
<1>4. ASSUME NEW models, models \subseteq Models, NEW modelVerdicts,
             FinishTurn(models, modelVerdicts)
      PROVE  /\ LeadOK(db'.lead)
             /\ \/ QuestionOf(db.lead) => QuestionOf(db'.lead)
                \/ OneMoreRun(db, db', FALSE)
  <2>1. PICK p \in Turns(LocalDecisions \cup models, modelVerdicts), shadow \in BOOLEAN, local \in BOOLEAN :
          /\ local = TRUE <=> models = {} /\ modelVerdicts = {}
          /\ db' = Decided(p[1], p[2], shadow, local)
    BY <1>4, BrainConstantsOK DEF FinishTurn
  <2>2. turn.open
    BY <1>4 DEF FinishTurn
  <2>3. /\ LeadOK(db'.lead) /\ OneMoreRun(db, db', local)
        /\ local = TRUE /\ QuestionOf(db.lead) => QuestionOf(db'.lead)
    BY <1>4, <2>1, <2>2, DecidedLead
  <2>4. CASE local = TRUE
    BY <2>3, <2>4
  <2>5. CASE local = FALSE
    BY <2>3, <2>5
  <2> QED BY <2>4, <2>5
<1>5. ASSUME NEW o \in Operators, Approve(o)
      PROVE  LeadOK(db'.lead) /\ (QuestionOf(db.lead) => QuestionOf(db'.lead))
  <2> DEFINE r == op[o].run
             x == Execute(db, r, op[o])
  <2>1. r \in DOMAIN db.runs
    BY <1>5, InvParts DEF Approve
  <2>2. LeadOK(x.lead) /\ (QuestionOf(db.lead) => QuestionOf(x.lead))
    BY <1>2, <2>1, ExecuteLead
  <2>3. Executed(db, r, x)
    BY <1>2, <2>1, ExecuteFacts
  <2>4. db' = [x EXCEPT !.runs[r].approved = TRUE]
    BY <1>5 DEF Approve
  <2> HIDE DEF x
  <2>5. DOMAIN x = DbFields
    BY <1>2, <2>3 DEF Executed
  <2>6. db'.lead = x.lead
    BY <2>4, <2>5 DEF DbFields
  <2> QED BY <2>2, <2>6
<1>6. ASSUME NEW o \in Operators, NEW r \in DOMAIN db.runs, Reject(o, r) PROVE db'.lead = db.lead
  BY <1>2, <1>6 DEF Reject
<1>7. ASSUME NEW j \in DOMAIN db.jobs, Send(j) PROVE db'.lead = db.lead
  BY <1>2, <1>7 DEF Send
<1>8. CASE db' = db
  BY <1>1, <1>8
<1>9. CASE UNCHANGED vars
  BY <1>8, <1>9 DEF vars
<1>10. ASSUME NEW t \in Messages, Say(t) PROVE db' = db
  BY <1>10 DEF Say
<1>11. CASE BecomeQuiet \/ TurnCrashes
  BY <1>8, <1>11 DEF BecomeQuiet, TurnCrashes
<1>12. ASSUME NEW m \in events, Covered(m) \/ BeginTurn(m) PROVE db' = db
  BY <1>12 DEF Covered, BeginTurn
<1>13. ASSUME NEW o \in Operators, NEW r \in DOMAIN db.runs, OpenRun(o, r) PROVE db' = db
  BY <1>13 DEF OpenRun
<1>14. CASE Worker
  BY <1>4, <1>8, <1>12, <1>14 DEF Worker
<1>15. CASE FinishTurn(Models, ModelVerdicts)
  BY <1>4, <1>15
<1>16. CASE \E o \in Operators : Approve(o) \/ \E r \in DOMAIN db.runs : OpenRun(o, r) \/ Reject(o, r)
  BY <1>1, <1>5, <1>6, <1>8, <1>13, <1>16
<1>17. CASE \E j \in DOMAIN db.jobs : Send(j)
  BY <1>1, <1>7, <1>17
<1> QED BY <1>3, <1>8, <1>9, <1>10, <1>11, <1>14, <1>15, <1>16, <1>17 DEF Next

\* For any agenda that puts the items the rules name into their stages, any messages
\* and models: no local decision, operator, crash or typing event separates the open
\* question from the lead's stage.
THEOREM BrainQuestionKept == Spec => QuestionKept
<1>1. Init => LeadInv
  BY InitInv, NamedStages DEF Init, LeadInv, LeadOK, NewLead
<1>2. LeadInv /\ [Next]_vars => LeadInv'
  BY NextInv, LeadStep DEF LeadInv, LeadOK, Asked
<1>3. QuestionOfStage <=> QuestionOf(db.lead)
  BY DEF QuestionOfStage, QuestionOf, Asked
<1>4. QuestionOfStage' <=> QuestionOf(db'.lead)
  BY DEF QuestionOfStage, QuestionOf, Asked
<1>5. ASSUME LeadInv, [Next]_vars, QuestionOfStage,
             Len(db'.runs) > Len(db.runs) => db'.runs[Len(db'.runs)].local
      PROVE  QuestionOfStage'
  <2>1. Len(db.runs) \in Nat
    BY InvParts, SeqFacts DEF LeadInv, DbOK
  <2>2. \/ QuestionOf(db.lead) => QuestionOf(db'.lead)
        \/ OneMoreRun(db, db', FALSE)
    BY <1>5, LeadStep
  <2>3. Len(db.runs) + 1 > Len(db.runs)
    BY <2>1
  <2>4. CASE QuestionOf(db.lead) => QuestionOf(db'.lead)
    BY <1>3, <1>4, <1>5, <2>4
  <2>5. CASE OneMoreRun(db, db', FALSE)
    BY <1>5, <2>3, <2>5 DEF OneMoreRun
  <2> QED BY <2>2, <2>4, <2>5
<1>6. LeadInv /\ [Next]_vars =>
        [QuestionOfStage /\ (Len(db'.runs) > Len(db.runs) => db'.runs[Len(db'.runs)].local)
           => QuestionOfStage']_vars
  BY <1>5
<1> QED BY <1>1, <1>2, <1>6, PTL DEF Spec, QuestionKept
=============================================================================
