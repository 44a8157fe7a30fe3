------------------------------- MODULE BrainV2 -------------------------------
(***************************************************************************)
(* Brain V2 for one lead: the turn buffer, the gateway's turn, the runs it  *)
(* leaves for approval, and the operators who approve or reject them while  *)
(* messages arrive, turns run and the outbound worker sends.                *)
(*                                                                          *)
(* A turn is one transaction that is open while the language model thinks.  *)
(* What it marked stale or cancelled is not visible before its commit, but  *)
(* its rows are locked: an operator who read a run before the commit writes *)
(* after it, and writes only the columns that differ from what was read.    *)
(* No code in src/ calls the gateway at present: its caller is taken to run *)
(* one turn at a time and may try a message again until a turn was final    *)
(* about it.  Nothing obliges it to, so no progress is claimed.             *)
(***************************************************************************)
EXTENDS BrainRules

CONSTANTS
  Agenda,       \* the agenda's items in the order of priority
  Messages,     \* what a candidate may write
  Answers,      \* what a knowledge card makes of an answer
  Models,       \* decisions a language model may take
  ModelVerdicts,\* verdicts a language model may add
  ShadowModes,  \* brain_shadow_mode, which may change between turns
  Operators,
  MaxMessages,  \* bound: messages of the candidate
  MaxVerdicts,  \* bound: approvals and rejections
  MaxTroubles   \* bound: typing events and crashes

ItemKeys == {Agenda[i].key : i \in 1..Len(Agenda)}

\* The fields of a decision, which its schema guarantees.
ASSUME BrainConstantsOK ==
  /\ ItemKeys \subseteq STRING
  /\ \A d \in Models : DOMAIN d = DecisionFields
  /\ ShadowModes \subseteq BOOLEAN
  /\ MaxMessages \in Nat /\ MaxVerdicts \in Nat /\ MaxTroubles \in Nat

\* What the fixed agenda guarantees: every item has a stage of the conversation, and
\* the two items that the local rules name belong to the stages they step to.
ASSUME AgendaOK ==
  /\ \A i \in 1..Len(Agenda) : Agenda[i].stage \in Stages \ {"lead_created"} /\ Agenda[i].key # KeepLoop
  /\ \E i \in 1..Len(Agenda) :
       Agenda[i].key = "contact.collect_name_phone" /\ Agenda[i].stage = "contact_collection"
  /\ \E i \in 1..Len(Agenda) :
       Agenda[i].key = "schedule.collect_time" /\ Agenda[i].stage = "scheduling"

VARIABLES
  inbox,     \* the candidate's messages
  events,    \* those whose event is still queued
  quiet,     \* the debounce window has passed
  db,        \* the committed lead, runs, jobs and handoffs
  turn,      \* the open turn
  op,        \* what each operator has read
  verdicts, troubles

vars == <<inbox, events, quiet, db, turn, op, verdicts, troubles>>

NewLead == [stage |-> "lead_created", closed |-> FALSE, loop |-> NotSet, slots |-> {},
            items |-> [k \in ItemKeys |-> "absent"]]
NoTurn == [open |-> FALSE, message |-> 0, text |-> Plain, stale |-> {}, cancelled |-> {}]
NotReading == [run |-> 0, stage |-> NotSet, closed |-> FALSE]
-----------------------------------------------------------------------------
(* The turn buffer.                                                         *)

Latest == Len(inbox)
Pending == {r \in DOMAIN db.runs : db.runs[r].status = "shadow_pending"}
Queued == {j \in DOMAIN db.jobs : db.jobs[j].status = "queued"}

\* Faulty variant: only the answers are withdrawn, the runs stay open.
Withdrawn_JobsOnly(d, stale, cancelled) ==
  [d EXCEPT !.jobs = [j \in DOMAIN @ |-> IF j \in cancelled THEN [@[j] EXCEPT !.status = "cancelled"] ELSE @[j]]]

\* cancel_pending_outbound and mark_pending_brain_runs_stale
Withdrawn(d, stale, cancelled) ==
  [d EXCEPT !.jobs = [j \in DOMAIN @ |-> IF j \in cancelled THEN [@[j] EXCEPT !.status = "cancelled"] ELSE @[j]],
            !.runs = [r \in DOMAIN @ |-> IF r \in stale THEN [@[r] EXCEPT !.status = "stale"] ELSE @[r]]]

Say(t) ==
  /\ Latest < MaxMessages
  /\ inbox' = Append(inbox, t)
  /\ events' = events \cup {Latest + 1}
  /\ quiet' = FALSE
  /\ UNCHANGED <<db, turn, op, verdicts, troubles>>

BecomeQuiet == ~quiet /\ quiet' = TRUE /\ UNCHANGED <<inbox, events, db, turn, op, verdicts, troubles>>

RecordTyping ==
  /\ ~turn.open /\ troubles < MaxTroubles /\ troubles' = troubles + 1
  /\ quiet' = FALSE
  /\ db' = Withdrawn(db, Pending, Queued)
  /\ UNCHANGED <<inbox, events, turn, op, verdicts>>

\* The messages since the last one that was sent, and the new one in any case.
Batch == SubSeq(inbox, IF db.answered < Latest THEN db.answered + 1 ELSE Latest, Latest)

\* A newer message covers this one, or it is processed already.
Covered(m) ==
  /\ m \in events /\ ~turn.open
  /\ m # Latest \/ db.processed = Latest
  /\ events' = events \ {m}
  /\ UNCHANGED <<inbox, quiet, db, turn, op, verdicts, troubles>>

IsQuiet == quiet

\* prepare_inbound_turn for the latest message.
TooEarly(m) ==
  /\ m \in events /\ ~turn.open /\ m = Latest /\ db.processed # Latest /\ ~IsQuiet
  /\ db' = Withdrawn(db, Pending, Queued)
  /\ UNCHANGED <<inbox, events, quiet, turn, op, verdicts, troubles>>

BeginTurn(m) ==
  /\ m \in events /\ ~turn.open /\ m = Latest /\ db.processed # Latest /\ IsQuiet
  /\ turn' = [open |-> TRUE, message |-> m, text |-> CombinedIncoming(Batch),
              stale |-> Pending, cancelled |-> Queued]
  /\ UNCHANGED <<inbox, events, quiet, db, op, verdicts, troubles>>
-----------------------------------------------------------------------------
(* State manager.                                                           *)

\* get_or_create_state and the agenda of a lead that is not lost at once.
Prepared(lead, t) ==
  IF ShouldCreateAgenda(t) /\ \A k \in ItemKeys : lead.items[k] = "absent"
  THEN [lead EXCEPT !.stage = "trust", !.items = [k \in ItemKeys |-> "pending"]]
  ELSE [lead EXCEPT !.stage = IF @ = "lead_created" THEN "lead_replied" ELSE @]

\* apply_slot_patch with mark_agenda_from_slots
WithSlots(lead, slots) ==
  IF slots = {} THEN lead
  ELSE [lead EXCEPT
    !.slots = @ \cup slots,
    !.items = [k \in ItemKeys |->
      IF /\ @[k] \in {"pending", "active", "blocked"}
         /\ \E i \in 1..Len(Agenda) : Agenda[i].key = k /\ Agenda[i].slot \in lead.slots \cup slots
      THEN "done" ELSE @[k]]]

NormalizeStatus(status) ==
  IF status \in {"pending", "active", "done", "blocked", "skipped"} THEN status ELSE "pending"

\* apply_state_patch
WithPatch(lead, d) ==
  LET stage == IF d.stage = NotSet THEN lead.stage ELSE NormalizeStage(d.stage)
  IN [lead EXCEPT
       !.stage = stage,
       !.closed = @ \/ (d.stage # NotSet /\ stage = "closed"),
       !.loop = IF d.loop = KeepLoop THEN @ ELSE d.loop,
       !.items = [k \in ItemKeys |-> IF k \in DOMAIN d.updates /\ @[k] # "absent"
                                     THEN NormalizeStatus(d.updates[k]) ELSE @[k]]]
-----------------------------------------------------------------------------
(* The executor.                                                            *)

\* Only columns that differ from what was read are written.
CloseOrStage(lead, read, stage) ==
  [lead EXCEPT !.stage = IF read.stage = stage THEN @ ELSE stage,
               !.closed = IF read.closed = (stage = "closed") THEN @ ELSE stage = "closed"]

NewJob(r) == [run |-> r, at |-> Latest, status |-> "queued"]

\* A message without text leaves no job, and the run counts as executed all the same.
Execute(d, r, read) ==
  LET run == d.runs[r]
      finished == [d EXCEPT !.runs[r].status = IF run.shadow THEN "approved" ELSE "executed"]
  IN CASE run.action \in {"send_message", "schedule_followup"} ->
            [finished EXCEPT !.jobs = IF run.text = "none" THEN @ ELSE Append(@, NewJob(r))]
       [] run.action = "handoff" ->
            [finished EXCEPT !.handoffs = Append(@, r), !.lead = CloseOrStage(@, read, "handoff")]
       [] run.action = "close_lost" -> [finished EXCEPT !.lead = CloseOrStage(@, read, "closed")]
       [] OTHER -> finished

\* Faulty variant: a shadow run is executed, too.
ExecuteOrShadow_Always(d, r) == Execute(d, r, d.lead)

ExecuteOrShadow(d, r) == IF d.runs[r].shadow THEN d ELSE Execute(d, r, d.lead)

NewRun(decision, verdict, shadow, local) ==
  [message |-> turn.message, shadow |-> shadow, action |-> decision.action, text |-> decision.text,
   verdict |-> verdict, status |-> IF shadow THEN "shadow_pending" ELSE "executed",
   approved |-> FALSE, local |-> local, asked |-> turn.text]

\* decide_next_turn from the decision on; local tells that no language model had a part in it.
Decided(decision, verdict, shadow, local) ==
  LET before == Withdrawn(db, turn.stale, turn.cancelled)
      lead == Prepared(before.lead, turn.text)
      slots == SlotPatch(turn.text) \cup decision.slots
      after == [before EXCEPT !.lead = WithPatch(WithSlots(lead, slots), decision),
                              !.runs = Append(@, NewRun(decision, verdict, shadow, local)),
                              !.processed = turn.message]
  IN ExecuteOrShadow(after, Len(after.runs))

LocalDecisions ==
  {LocalDecision(Agenda, Prepared(db.lead, turn.text), turn.text, answer) : answer \in Answers}

FinishTurn(models, modelVerdicts) ==
  /\ turn.open /\ turn' = NoTurn
  /\ events' = events \ {turn.message}
  /\ UNCHANGED <<inbox, quiet, op, verdicts, troubles>>
  /\ \E p \in Turns(LocalDecisions \cup models, modelVerdicts), shadow \in ShadowModes :
       db' = Decided(p[1], p[2], shadow, models = {} /\ modelVerdicts = {})

TurnCrashes ==
  /\ turn.open /\ troubles < MaxTroubles /\ troubles' = troubles + 1
  /\ turn' = NoTurn
  /\ UNCHANGED <<inbox, events, quiet, db, op, verdicts>>
-----------------------------------------------------------------------------
(* Operators and the outbound worker.                                       *)

CanApprove(status) == status \in {"shadow_pending", "rejected"}

Locked(r) == turn.open /\ r \in turn.stale

OpenRun(o, r) ==
  /\ op[o].run = 0 /\ verdicts < MaxVerdicts /\ verdicts' = verdicts + 1
  /\ CanApprove(db.runs[r].status)
  /\ op' = [op EXCEPT ![o] = [run |-> r, stage |-> db.lead.stage, closed |-> db.lead.closed]]
  /\ UNCHANGED <<inbox, events, quiet, db, turn, troubles>>

Approve(o) ==
  /\ op[o].run # 0
  /\ ~Locked(op[o].run)
  /\ db.runs[op[o].run].action \in {"handoff", "close_lost"} => ~turn.open
  /\ db' = [Execute(db, op[o].run, op[o]) EXCEPT !.runs[op[o].run].approved = TRUE]
  /\ op' = [op EXCEPT ![o] = NotReading]
  /\ UNCHANGED <<inbox, events, quiet, turn, verdicts, troubles>>

Reject(o, r) ==
  /\ op[o].run = 0 /\ verdicts < MaxVerdicts /\ verdicts' = verdicts + 1
  /\ ~Locked(r)
  /\ db' = [db EXCEPT !.runs[r].status = "rejected"]
  /\ UNCHANGED <<inbox, events, quiet, turn, op, troubles>>

\* The worker drops a job that is older than a message of the candidate, and does
\* not see those a turn is withdrawing.
Send(j) ==
  /\ db.jobs[j].status = "queued" /\ ~(turn.open /\ j \in turn.cancelled)
  /\ db' = IF db.jobs[j].at = Latest
           THEN [db EXCEPT !.jobs[j].status = "sent", !.answered = Latest]
           ELSE [db EXCEPT !.jobs[j].status = "cancelled"]
  /\ UNCHANGED <<inbox, events, quiet, turn, op, verdicts, troubles>>
-----------------------------------------------------------------------------
Init ==
  /\ inbox = <<>> /\ events = {} /\ quiet = TRUE
  /\ db = [lead |-> NewLead, runs |-> <<>>, jobs |-> <<>>, handoffs |-> <<>>,
           processed |-> 0, answered |-> 0]
  /\ turn = NoTurn
  /\ op = [o \in Operators |-> NotReading]
  /\ verdicts = 0 /\ troubles = 0

Worker ==
  \/ \E m \in events : Covered(m) \/ BeginTurn(m)
  \/ FinishTurn({}, {})

Next ==
  \/ \E t \in Messages : Say(t)
  \/ BecomeQuiet \/ RecordTyping \/ \E m \in events : TooEarly(m)
  \/ Worker \/ FinishTurn(Models, ModelVerdicts) \/ TurnCrashes
  \/ \E o \in Operators : Approve(o) \/ \E r \in DOMAIN db.runs : OpenRun(o, r) \/ Reject(o, r)
  \/ \E j \in DOMAIN db.jobs : Send(j)

Spec == Init /\ [][Next]_vars
-----------------------------------------------------------------------------
(* Correctness.                                                             *)

\* What reaches the candidate or a manager was cleared: a shadow run's decision
\* by an operator who approved it, and an answer by the validator, which never
\* lets one out that it hands over.
NothingUncleared ==
  /\ \A j \in DOMAIN db.jobs :
       LET run == db.runs[db.jobs[j].run]
       IN (run.shadow => run.approved) /\ run.verdict # "handoff"
  /\ \A h \in DOMAIN db.handoffs : LET run == db.runs[db.handoffs[h]] IN run.shadow => run.approved

\* A run that waits for approval is the newest one, whatever operators approve and
\* reject between and during the turns.
PendingIsNewest == Pending \subseteq {Len(db.runs)}

\* Without a language model a refusal and an age below 18 end the conversation
\* without a message, and a legal question goes to a human.
HardStops == \A r \in DOMAIN db.runs : LET run == db.runs[r] IN run.local =>
  /\ run.asked.refusal => run.action = "close_lost"
  /\ ~run.asked.refusal /\ run.asked.asks /\ run.asked.topic = "legal" => run.action = "handoff"
  /\ run.asked.age = "minor" => run.action \in {"close_lost", "handoff"}

\* The open question belongs to the lead's stage, unless the conversation is over.
QuestionOfStage ==
  db.lead.loop # NotSet =>
    /\ \A k \in ItemKeys : db.lead.items[k] # "absent"
    /\ \/ db.lead.stage \in {"handoff", "closed"}
       \/ \E i \in 1..Len(Agenda) : Agenda[i].key = db.lead.loop /\ Agenda[i].stage = db.lead.stage

\* Neither a local decision nor an operator separates the open question from the
\* stage; only a language model's patch may.
QuestionKept ==
  [][QuestionOfStage /\ (Len(db'.runs) > Len(db.runs) => db'.runs[Len(db'.runs)].local)
     => QuestionOfStage']_vars
=============================================================================
