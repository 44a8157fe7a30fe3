--------------------------- MODULE CampaignSequence ---------------------------
(***************************************************************************)
(* A lead's way through a campaign: lead intake creates dialog and run in   *)
(* one transaction, CampaignSequenceService schedules fixed messages and    *)
(* lets the orchestrator decide at gates and brain steps, the outbound      *)
(* worker reports what was sent, the recovery pass repairs runs that wait   *)
(* for a message that ended otherwise.                                      *)
(*                                                                          *)
(* conv[l] holds the rows of lead l: the run, the lead, its facts, open     *)
(* handoffs, the run's outbound jobs.  Every call below is one transaction, *)
(* the question to the model included; only the intake, where two requests  *)
(* can meet, is split at its reads.  No call commits a run that is          *)
(* "awaiting_llm", so the recovery of those has nothing to do and is left   *)
(* out.  An exception in a call changes nothing.                            *)
(***************************************************************************)
EXTENDS BrainOrchestrator, FiniteSets

CONSTANTS
  Leads,        \* (source, external_lead_id) pairs
  Requests,     \* intake calls, any number of them for one lead
  Campaigns,    \* campaigns in the database
  Texts,        \* what candidates may write, a subset of Text
  LlmDecisions, \* what the model may decide, a subset of Decision
  MaxInbound    \* bound: messages of one candidate

Fixed(wait, after) == [type |-> "fixed_message", wait |-> wait, after |-> after]
Step(type, wait) == [type |-> type, wait |-> wait, after |-> "none"]

StepRecord == [type : {"fixed_message", "interest_gate", "brain_turn", "llm_decision"},
               wait : BOOLEAN, after : FunnelStates \cup {"none"}]

DefaultCampaign ==
  <<Fixed(TRUE, "none"), Fixed(FALSE, "none"), Fixed(TRUE, "none"), Step("llm_decision", FALSE)>>

SoulChatCampaign == <<Fixed(TRUE, "none"), Step("llm_decision", FALSE)>>

BrainCampaign ==
  <<Fixed(TRUE, "WAITING_FIRST_REPLY"), Step("interest_gate", FALSE), Fixed(FALSE, "INFO_SENT"),
    Fixed(TRUE, "WAITING_AFTER_INFO"), Step("brain_turn", TRUE)>>

\* Campaigns open with a message, and a gate is followed by fixed messages that
\* end with a waiting one, as in the three seeded campaigns.
ASSUME CampaignConstantsOK ==
  /\ \A steps \in Campaigns :
       /\ steps \in Seq(StepRecord)
       /\ steps # <<>> /\ steps[1].type = "fixed_message" /\ steps[1].wait
       /\ \A i \in DOMAIN steps : steps[i].type = "interest_gate" =>
            \E j \in DOMAIN steps : /\ i < j /\ steps[j].wait
                                    /\ \A k \in (i + 1)..j : steps[k].type = "fixed_message"
  /\ Texts \subseteq Text
  /\ LlmDecisions \subseteq Decision
  /\ MaxInbound \in Nat

VARIABLES
  intake,   \* what each request has read and what it answered
  event,    \* the lead_intake_events row of each lead
  conv      \* the rows of each lead's conversation

vars == <<intake, event, conv>>

RunStatus == {"none", "active", "waiting_outbound", "awaiting_reply",
              "completed", "handoff", "failed"}

\* at orders the jobs by the transaction that created them (created_at).
Job == [at : Nat, step : Nat, status : {"open", "sent", "dropped"}]

NoConversation ==
  [status |-> "none", steps |-> <<>>, pos |-> 0, awaits |-> 0, jobs |-> {},
   state |-> "NEW_LEAD", facts |-> {}, open |-> 0, inbound |-> 0, asked |-> "other"]

Answers == {"accepted", "failed", "idempotent", "error"}
Request == [phase : {"new", "checked", "creating"} \cup Answers,
            lead : Leads \cup {"none"}, sawDialog : BOOLEAN]
NewRequest == [phase |-> "new", lead |-> "none", sawDialog |-> FALSE]

-----------------------------------------------------------------------------
(* Scheduling.                                                              *)

\* Faulty variant: any job of the run counts.
HasJob_OfRun(c, step) == c.jobs # {}

HasJob(c, step) == \E job \in c.jobs : job.step = step

LatestJob(c, step) ==
  CHOOSE job \in c.jobs :
    job.step = step /\ \A other \in c.jobs : other.step = step => other.at <= job.at

NewJobs(c, steps) ==
  {[at |-> Cardinality(c.jobs), step |-> step, status |-> "open"] : step \in steps}

\* A reply is scheduled in any case; the one of an llm_decision step names no step.
ScheduleReply(c, step, asks) ==
  [c EXCEPT !.jobs = @ \cup NewJobs(c, {step}), !.asked = asks]

AwaitReplyAfter(c, step) == [c EXCEPT !.status = "waiting_outbound", !.awaits = step]

\* apply_decision: the lead, its facts and at most one open handoff.
ApplyDecision(c, d) ==
  [c EXCEPT !.state = NormalizeState(d.after), !.facts = @ \cup d.facts,
            !.open = IF OpensHandoff(d) /\ @ = 0 THEN 1 ELSE @]

RunBrainStep(c, step, d) ==
  LET decided == [ApplyDecision(c, d) EXCEPT !.pos = step]
  IN IF TurnEnds(d)
     THEN [decided EXCEPT !.status = IF d.action = "handoff" \/ d.after \in HandedOverStates
                                     THEN "handoff" ELSE "completed"]
     ELSE IF HasReply(d) THEN AwaitReplyAfter(ScheduleReply(decided, step, d.asks), step)
     ELSE [decided EXCEPT !.status = "awaiting_reply", !.awaits = step]

\* The older step: the model's own verdict, no facts and no minimum of messages.
RunLlmStep(c, step, verdict, replies) ==
  LET decided == [c EXCEPT !.pos = step]
  IN IF verdict = "handoff" THEN [decided EXCEPT !.open = @ + 1, !.status = "handoff"]
     ELSE IF verdict = "reply" /\ replies
     THEN [ScheduleReply(decided, 0, "other") EXCEPT !.status = "completed"]
     ELSE [decided EXCEPT !.status = "completed"]

-----------------------------------------------------------------------------
(* Moving a run on.                                                         *)

\* Where a run stops next: behind the fixed messages that wait for nothing.
NextStop(c) ==
  CHOOSE q \in (c.pos + 1)..(Len(c.steps) + 1) :
    /\ q > Len(c.steps) \/ c.steps[q].type # "fixed_message" \/ c.steps[q].wait
    /\ \A k \in (c.pos + 1)..(q - 1) : c.steps[k].type = "fixed_message" /\ ~c.steps[k].wait

StateAfter(c, steps) ==
  LET moving == {step \in steps : c.steps[step].after # "none"}
  IN IF moving = {} THEN c.state
     ELSE c.steps[CHOOSE step \in moving : \A other \in moving : other <= step].after

\* The fixed messages up to the stop, and the stop itself when it is one of them.
\* Each is scheduled once; only a new job moves the lead's state.
ScheduleUpToStop(c) ==
  LET stop  == NextStop(c)
      waits == stop <= Len(c.steps) /\ c.steps[stop].type = "fixed_message"
      last  == IF waits THEN stop ELSE stop - 1
      fresh == {step \in (c.pos + 1)..last : ~HasJob(c, step)}
      done  == [c EXCEPT !.jobs = @ \cup NewJobs(c, fresh), !.state = StateAfter(c, fresh),
                         !.asked = IF fresh = {} THEN @ ELSE "other", !.pos = last]
  IN IF waits THEN AwaitReplyAfter(done, stop)
     ELSE IF stop > Len(c.steps) THEN [done EXCEPT !.status = "completed"] ELSE done

\* A gate whose decision neither ends, answers nor continues leaves the run as
\* it is: active, at the gate, with nothing under way.
RunInterestGate(c, step, d) ==
  LET decided == [ApplyDecision(c, d) EXCEPT !.pos = step]
  IN IF d.after \in TerminalStates THEN [decided EXCEPT !.status = "completed"]
     ELSE IF HasReply(d) THEN AwaitReplyAfter(ScheduleReply(decided, step, d.asks), step)
     ELSE IF GateContinues(d) THEN ScheduleUpToStop(decided) ELSE decided

\* What a step that asks the orchestrator can lead to.
StepOutcomes(c, step, text, first) ==
  CASE c.steps[step].type = "interest_gate" ->
         {RunInterestGate(c, step, d) : d \in GateDecisions(text, c.inbound, LlmDecisions)}
    [] first /\ c.steps[step].type = "llm_decision" ->
         {RunLlmStep(c, step, verdict, replies) :
            verdict \in {"reply", "handoff", "stop"}, replies \in BOOLEAN}
    [] OTHER ->
         {RunBrainStep(c, step, d) :
            d \in TurnDecisions(text, c.asked, c.facts, c.inbound, LlmDecisions)}

ProcessNextSteps(c, text) ==
  LET stop == NextStop(c)
      done == ScheduleUpToStop(c)
  IN IF stop > Len(c.steps) \/ c.steps[stop].type = "fixed_message" THEN {done}
     ELSE StepOutcomes(done, stop, text, TRUE)

\* Faulty variant: only a converted or handed over lead is left alone.
CanReopen_Lost(c) ==
  /\ c.status \in {"completed", "failed"}
  /\ c.state \notin {"CONVERTED", "HUMAN_HANDOFF"}
  /\ c.pos \in DOMAIN c.steps /\ c.steps[c.pos].type \in {"brain_turn", "llm_decision"}

CanReopen(c) ==
  /\ c.status \in {"completed", "failed"}
  /\ c.state \notin TerminalStates
  /\ c.pos \in DOMAIN c.steps /\ c.steps[c.pos].type \in {"brain_turn", "llm_decision"}

Reopened(c) ==
  IF CanReopen(c) THEN [c EXCEPT !.status = "awaiting_reply", !.awaits = c.pos] ELSE c

\* A message counts for the sequence only while the run awaits one.
InboundOutcomes(c, text) ==
  LET run == Reopened(c)
      step == run.awaits
      back == [run EXCEPT !.status = "active", !.awaits = 0, !.pos = step]
  IN IF run.status # "awaiting_reply" THEN {run}
     ELSE IF run.steps[step].type = "fixed_message" THEN ProcessNextSteps(back, text)
     ELSE StepOutcomes(back, step, text, FALSE)

-----------------------------------------------------------------------------
(* Lead intake.                                                             *)

Init ==
  /\ intake = [r \in Requests |-> NewRequest]
  /\ event = [l \in Leads |-> "none"]
  /\ conv = [l \in Leads |-> NoConversation]

Answer(r, answer) == intake' = [intake EXCEPT ![r].phase = answer]

CheckDuplicate(r, l) ==
  /\ intake[r].phase = "new"
  /\ intake' = [intake EXCEPT ![r].lead = l,
                              ![r].phase = IF event[l] = "none" THEN "checked" ELSE "idempotent"]
  /\ UNCHANGED <<event, conv>>

\* No account is available: the event is stored as failed, outside the try.
StoreFailed(r) ==
  LET l == intake[r].lead
  IN /\ intake[r].phase = "checked"
     /\ IF event[l] = "none"
        THEN event' = [event EXCEPT ![l] = "failed"] /\ Answer(r, "failed")
        ELSE UNCHANGED event /\ Answer(r, "error")
     /\ UNCHANGED conv

\* The dialog of a lead exists exactly when its event was accepted.
FindDialog(r) ==
  /\ intake[r].phase = "checked"
  /\ intake' = [intake EXCEPT ![r].phase = "creating",
                              ![r].sawDialog = event[intake[r].lead] = "accepted"]
  /\ UNCHANGED <<event, conv>>

StartRun(steps) ==
  ScheduleUpToStop([NoConversation EXCEPT !.steps = steps, !.status = "active"])

\* Faulty variant: nothing tells a second event of the lead apart.
Conflicts_Never(r) == FALSE

\* uq_lead_intake_source_external: another request stored the event meanwhile.
Conflicts(r) == event[intake[r].lead] # "none"

\* A second dialog fails outside the try, a second event inside it.
CommitLead(r) ==
  LET l == intake[r].lead
  IN /\ intake[r].phase = "creating"
     /\ IF Conflicts(r)
        THEN /\ Answer(r, IF event[l] = "accepted" /\ ~intake[r].sawDialog
                          THEN "error" ELSE "idempotent")
             /\ UNCHANGED <<event, conv>>
        ELSE /\ Answer(r, "accepted")
             /\ event' = [event EXCEPT ![l] = "accepted"]
             /\ \E steps \in Campaigns : conv' = [conv EXCEPT ![l] = StartRun(steps)]

-----------------------------------------------------------------------------
(* Everything that happens to a conversation afterwards.                    *)

Started(l) == conv[l].status # "none"
Becomes(l, c) == conv' = [conv EXCEPT ![l] = c] /\ UNCHANGED <<intake, event>>

\* The candidate's message is stored and handed to the sequence.
HandleInbound(l) ==
  /\ Started(l) /\ conv[l].inbound < MaxInbound
  /\ \E text \in Texts :
       \E c \in InboundOutcomes([conv[l] EXCEPT !.inbound = @ + 1], text) : Becomes(l, c)

MarkOutboundSent(c, job) ==
  IF /\ job.step # 0 /\ c.steps[job.step].wait
     /\ c.awaits = job.step
     /\ c.status \in {"active", "waiting_outbound"}
  THEN [c EXCEPT !.status = "awaiting_reply"] ELSE c

Ended(c, jobs, status) ==
  [c EXCEPT !.jobs = (@ \ jobs) \cup {[job EXCEPT !.status = status] : job \in jobs}]

\* The worker's transaction that stores "sent" also moves the run on.
SendJob(l, job) ==
  /\ job.status = "open"
  /\ Becomes(l, MarkOutboundSent(Ended(conv[l], {job}, "sent"), job))

\* It fails for good, or the turn buffer cancels it.
DropJob(l, job) ==
  /\ job.status = "open"
  /\ Becomes(l, Ended(conv[l], {job}, "dropped"))

\* Faulty variant: any job that has not failed counts as sent.
RecoverAs_Unsent(status) ==
  CASE status = "dropped" -> "failed" [] OTHER -> "awaiting_reply"

\* Faulty variant: a run whose message was dropped is left to wait.
RecoverAs_Waits(status) ==
  CASE status = "sent" -> "awaiting_reply" [] OTHER -> "waiting_outbound"

\* What becomes of a run that waits for a job with this status.
RecoverAs(status) ==
  CASE status = "sent" -> "awaiting_reply"
    [] status = "open" -> "waiting_outbound"
    [] OTHER -> "failed"

\* recover_stale_runs, for a run old enough; a step without a job would be
\* scheduled anew.
Recover(l) ==
  LET c == conv[l]
      back == [c EXCEPT !.status = "active", !.pos = IF @ < c.awaits THEN @ ELSE c.awaits - 1]
  IN /\ c.status = "waiting_outbound"
     /\ IF HasJob(c, c.awaits)
        THEN /\ RecoverAs(LatestJob(c, c.awaits).status) # "waiting_outbound"
             /\ Becomes(l, [c EXCEPT !.status = RecoverAs(LatestJob(c, c.awaits).status)])
        ELSE \E text \in Texts : \E new \in ProcessNextSteps(back, text) : Becomes(l, new)

\* reset_test_conversation.py
ResetConversation(l) ==
  LET c == conv[l]
  IN /\ Started(l)
     /\ Becomes(l, [Ended(c, {job \in c.jobs : job.status = "open"}, "dropped") EXCEPT
          !.state = IF @ \in TerminalStates THEN @ ELSE "LOST",
          !.status = IF @ \in {"active", "waiting_outbound", "awaiting_reply"} THEN "completed" ELSE @])

\* An operator sets the lead's state by hand; the run does not look at it.
UpdateLeadStatus(l) ==
  /\ Started(l)
  /\ \E state \in {"DO_NOT_CONTACT", "QUALIFICATION_IN_PROGRESS"} :
       Becomes(l, [conv[l] EXCEPT !.state = state])

Next ==
  \/ \E r \in Requests : \/ \E l \in Leads : CheckDuplicate(r, l)
                         \/ StoreFailed(r) \/ FindDialog(r) \/ CommitLead(r)
  \/ \E l \in Leads : \/ HandleInbound(l) \/ Recover(l)
                      \/ \E job \in conv[l].jobs : SendJob(l, job) \/ DropJob(l, job)
                      \/ ResetConversation(l) \/ UpdateLeadStatus(l)

\* The outbound worker and the autopilot's recovery pass run in a loop.
Fairness ==
  \A l \in Leads :
    /\ WF_vars(\E job \in conv[l].jobs : SendJob(l, job) \/ DropJob(l, job))
    /\ WF_vars(Recover(l))

Spec == Init /\ [][Next]_vars /\ Fairness

-----------------------------------------------------------------------------
(* Properties.                                                              *)

\* A lead is accepted by one request at most, and a run exists exactly for an
\* accepted lead: whoever is told "idempotent" speaks of a stored event.
AcceptedOnce ==
  /\ \A l \in Leads :
       /\ Started(l) <=> event[l] = "accepted"
       /\ Cardinality({r \in Requests : intake[r].phase \in {"accepted", "failed"}
                                         /\ intake[r].lead = l}) <= 1
  /\ \A r \in Requests :
       intake[r].phase = "idempotent" => event[intake[r].lead] # "none"

\* Recoveries, repeated gates and reopened runs notwithstanding, the fixed
\* messages scheduled so far are those up to the run's position, each once.
StepsInOrder ==
  \A l \in Leads : \A step \in DOMAIN conv[l].steps :
    conv[l].steps[step].type = "fixed_message" =>
      Cardinality({job \in conv[l].jobs : job.step = step})
        = (IF step <= conv[l].pos THEN 1 ELSE 0)

\* A run waits only for what can come: for the sending of a message whose job
\* exists, so that the recovery pass never schedules a step a second time, or
\* for the answer to a fixed message or a gate's question of which the last
\* message was sent.
WaitsForItsMessage ==
  \A l \in Leads :
    LET c == conv[l]
    IN /\ c.status = "waiting_outbound" => HasJob(c, c.awaits)
       /\ c.status = "awaiting_reply" /\ c.steps[c.awaits].type \in {"fixed_message", "interest_gate"}
            => HasJob(c, c.awaits) /\ LatestJob(c, c.awaits).status = "sent"

\* A handoff is opened only while the dialog has none open, whichever step hands
\* over, and only for a candidate who has written often enough (the older
\* llm_decision step does not count the messages).
HandsOverOnce ==
  [][\A l \in Leads : conv'[l].open # conv[l].open =>
       /\ conv[l].open = 0 /\ conv'[l].open = 1
       /\ \/ conv'[l].inbound >= MinInbound
          \/ conv'[l].steps[conv'[l].pos].type = "llm_decision"]_vars

\* A run that ended in a terminal state of the lead stays ended and sends nothing
\* new, whatever the candidate writes.
EndedStaysEnded ==
  [][\A l \in Leads :
       conv[l].status \in {"completed", "handoff"} /\ conv[l].state \in TerminalStates =>
         /\ conv'[l].status = conv[l].status
         /\ \A job \in conv'[l].jobs : \E old \in conv[l].jobs :
              old.at = job.at /\ old.step = job.step]_vars

\* No run waits forever for a message to go out: the worker ends the job and the
\* recovery pass moves on the runs the worker does not.
NoRunHangs ==
  \A l \in Leads : conv[l].status = "waiting_outbound" ~> conv[l].status # "waiting_outbound"
=============================================================================
