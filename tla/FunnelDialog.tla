----------------------------- MODULE FunnelDialog -----------------------------
(***************************************************************************)
(* One dialog of the LangGraph funnel: the runtime row (lead_funnel_runtime *)
(* with its metadata), the turn that answers the candidate's messages, and  *)
(* the outbound jobs the turn queues.                                       *)
(*                                                                          *)
(* A turn has two visible moments.  Prepare is the turn buffer accepting    *)
(* the latest message: every job still waiting is cancelled.  Decide is the *)
(* end of the graph run: the result is discarded when a newer message came  *)
(* in meanwhile, otherwise state_controller and action_executor's result is *)
(* persisted and FunnelActionExecutor queues its actions.  Between the two  *)
(* the models are called and anything may arrive.                           *)
(*                                                                          *)
(* The models' answers are inputs.  A semantic result is reduced to what    *)
(* the controller reads: the message type (answer stands for the types it   *)
(* treats alike), the open interrupt and the facts.  A reply result is      *)
(* reduced to send_reply, whether it brings a text, and handoff_required;   *)
(* Replies says which of them the guards of the reply orchestrator let      *)
(* through.  current_goal_satisfied is left out: the controller moves on it *)
(* only when the stage's requirement is met, which moves it anyway.         *)
(*                                                                          *)
(* Of the queued jobs the model keeps those that carry the funnel on: the   *)
(* question of a stage, a voice pack, a follow-up.  Other texts are not     *)
(* tracked.  timeout_event exists in the terminal chat only and is left     *)
(* out, and so are typing events: nothing here puts one on the inbound      *)
(* queue with a dialog.                                                     *)
(***************************************************************************)
EXTENDS FunnelPolicy, FiniteSets

CONSTANTS
  Volunteered, \* fields a candidate may tell before being asked
  Denied,      \* fields a message may deny besides those of the active stage
  MaxFacts,    \* bound: facts of one message
  Failures     \* failures that happen: of "turn" and "send"

ASSUME FunnelConstantsOK ==
  /\ Volunteered \subseteq Fields
  /\ Denied \subseteq Fields
  /\ MaxFacts \in Nat
  /\ Failures \subseteq {"turn", "send"}

VARIABLES
  stage,     \* runtime.stage
  status,    \* runtime.status
  profile,   \* metadata.candidate_profile
  sentPacks, \* metadata.sent_voice_packs
  followup,  \* interrupt_followup_stage while awaiting_interrupt_followup
  escalated, \* metadata.handoff_required
  lead,      \* lead.qualification_status
  handoff,   \* a HumanHandoff row is open
  jobs,      \* queued outbound jobs of the dialog
  delivered, \* voices and follow-ups the candidate received since the restart
  inbox,     \* the latest inbound message has not been handled
  turn,      \* "idle", or "deciding" while the graph runs
  newer      \* a message arrived since the running turn was prepared

runtimeVars == <<stage, status, profile, sentPacks, followup, escalated>>
recordVars  == <<lead, handoff>>
turnVars    == <<inbox, turn, newer>>
vars == <<runtimeVars, recordVars, jobs, delivered, turnVars>>

NoStage == "none"
Ask(s)      == <<"ask", s>>
Voice(p)    == <<"voice", p>>
FollowUp(s) == <<"followup", s>>
Voices    == {Voice(p) : p \in VoicePacks}
FollowUps == {FollowUp(s) : s \in WaitingStages}
JobKinds  == {Ask(s) : s \in WaitingStages} \cup Voices \cup FollowUps

MessageTypes ==
  {"empty", "answer", "partial_answer", "hard_refusal", "do_not_contact"}
Interrupts == {"none", "question", "other"}

\* The facts one message states: fields that turn "yes" or "no".
Facts(s) ==
  LET active == RequiredFields(s)
        \cup (IF s = "interview_day_check" THEN {"interview_day"} ELSE {})
  IN  {f \in [yes : SUBSET (active \cup Volunteered),
                no : SUBSET (active \cup Denied)] :
         f.yes \cap f.no = {} /\ Cardinality(f.yes \cup f.no) <= MaxFacts}

\* A message may be empty or be called so by a model.
Semantics(s) ==
  [type : MessageTypes, interrupt : Interrupts, facts : Facts(s)]

\* non_null_facts laid over the profile.
Merged(sem) ==
  [f \in Fields |-> IF f \in sem.facts.yes THEN "yes"
                    ELSE IF f \in sem.facts.no THEN "no" ELSE profile[f]]

CompletedByFields(sem) ==
  /\ sem.type # "empty"
  /\ sem.interrupt = "none"
  /\ StageRequirementMet(stage, Merged(sem))

-----------------------------------------------------------------------------
(* What the reply orchestrator can return.                                 *)

Reply(send, text, escalate) ==
  [send |-> send, text |-> text, handoff |-> escalate]

\* should_wait_after_neutral_ack.
NeutralAckPossible(sem) ==
  followup # NoStage /\ sem.type = "answer" /\ sem.interrupt = "none"

\* The model decides whether the dialog is handed over.
EitherWay(send, text) == {Reply(send, text, h) : h \in BOOLEAN}

Replies(sem) ==
  CASE sem.type = "empty" -> {Reply(TRUE, TRUE, FALSE)}
    [] sem.type = "do_not_contact" -> EitherWay(FALSE, FALSE)
    [] sem.type \notin {"empty", "do_not_contact"} /\ CompletedByFields(sem) ->
         {Reply(TRUE, FALSE, FALSE)}
           \cup (IF sem.type = "hard_refusal"
                 THEN {Reply(TRUE, TRUE, FALSE)} ELSE {})
           \cup (IF NeutralAckPossible(sem)
                 THEN {Reply(FALSE, FALSE, FALSE)} ELSE {})
    [] sem.type = "partial_answer" /\ ~StageRequirementMet(stage, Merged(sem)) ->
         EitherWay(TRUE, TRUE)
    [] OTHER ->
         EitherWay(TRUE, TRUE) \cup EitherWay(FALSE, FALSE)
           \cup (IF sem.interrupt = "none"
                 THEN {Reply(TRUE, FALSE, FALSE)} ELSE {})

-----------------------------------------------------------------------------
(* state_controller.  p is the profile with the message's facts.           *)

HandoffRequired(reply) == reply.handoff \/ escalated

WantedStage(sem, reply, p) ==
  IF sem.type = "do_not_contact" THEN "do_not_contact"
  ELSE IF sem.type = "hard_refusal" THEN "lost"
  ELSE IF HandoffRequired(reply) THEN "human_handoff"
  ELSE IF /\ sem.type # "empty"
          /\ stage \in WaitingStages
          /\ sem.interrupt = "none" \/ sem.type = "partial_answer"
       THEN NextStageIfRequirementMet(stage, p) ELSE stage

AdvancedStage(sem, wanted, p) ==
  IF wanted # stage /\ sem.interrupt = "none"
  THEN AdvanceThroughCompletedWaitingStages(wanted, p) ELSE wanted

\* Faulty variant: the table of allowed transitions is not consulted.
TransitionValid_NoTable(t, p) ==
  t = stage \/ t \in TerminalStages \/ StageRequirementMet(stage, p)

TransitionValid(t, p) ==
  /\ CanTransitionViaCompletedStages(stage, t, p)
  /\ t = stage \/ t \in TerminalStages \/ StageRequirementMet(stage, p)

SendReply(sem, reply, target, valid) ==
  \/ ~valid
  \/ sem.type # "do_not_contact" /\ (reply.send \/ target \in ActionStages)

\* The stages whose question the controller puts into outgoing_messages.
QuestionsAsked(sem, reply, target, valid) ==
  {s \in {target} \cap WaitingStages :
     \/ ~valid \/ target # stage
     \/ reply.send /\ ~reply.text /\ sem.type # "empty"}

\* awaiting_interrupt_followup and interrupt_followup_stage after the turn.
FollowupAfter(sem, target, send) ==
  IF sem.interrupt # "none"
  THEN IF sem.interrupt = "question" /\ stage \in WaitingStages
       THEN stage ELSE followup
  ELSE IF target # stage \/ (sem.type # "empty" /\ send) THEN NoStage
  ELSE followup

\* The state that leaves the controller.
Decision(sem, reply) ==
  LET p == Merged(sem)
      wanted == AdvancedStage(sem, WantedStage(sem, reply, p), p)
      valid == TransitionValid(wanted, p)
      target == IF valid THEN wanted ELSE stage
      send == SendReply(sem, reply, target, valid)
  IN  [profile |-> p,
       stage |-> target,
       send |-> send,
       asked |-> QuestionsAsked(sem, reply, target, valid),
       followup |-> FollowupAfter(sem, target, send),
       again |-> sem.interrupt = "question" \/ target # stage,
       escalated |-> HandoffRequired(reply) \/ target = "human_handoff"]

-----------------------------------------------------------------------------
(* action_executor, pending_actions_from_outgoing and the execution of the *)
(* actions, for a decision d of the controller.                            *)

\* ACTION_STAGE_TO_WAITING_STAGE
StageAfterActions(d) ==
  IF d.stage \in ActionStages THEN NextStageIfCompleted(d.stage) ELSE d.stage

NewPacks(d) == VoicePacksOf(d.stage) \ sentPacks

\* The follow-ups already sent under the idempotency key the decision gives
\* its own: a new question, or another stage, makes a new key.
SentFollowups(d) ==
  IF d.again THEN {} ELSE delivered \cap {FollowUp(d.followup)}

\* interrupt_followup_action, and _existing_job when it is executed.
FollowupJobs(d) ==
  IF d.followup # NoStage /\ StageAfterActions(d) \notin TerminalStages
  THEN {FollowUp(d.followup)} \ SentFollowups(d) ELSE {}

QueuedJobs(d) ==
  LET asked == d.asked
        \cup (IF d.stage \in ActionStages THEN {StageAfterActions(d)} ELSE {})
  IN  IF ~d.send THEN {}
      ELSE {Ask(s) : s \in asked} \cup {Voice(p) : p \in NewPacks(d)}
             \cup FollowupJobs(d)

\* The close_lost or do_not_contact action is among the pending actions.
ClosesLead(d) ==
  \/ StageAfterActions(d) = "lost"
  \/ StageAfterActions(d) = "do_not_contact" /\ ~d.send

\* The handoff action is among the pending actions.
OpensHandoff(d) == StageAfterActions(d) = "human_handoff" /\ d.send

\* _persist_runtime and FunnelActionExecutor.execute.  A delivered follow-up
\* is remembered only while it is the awaited one.
PersistAndExecute(d) ==
  /\ stage' = StageAfterActions(d)
  /\ status' = StatusForStage(StageAfterActions(d))
  /\ profile' = d.profile
  /\ sentPacks' = sentPacks \cup NewPacks(d)
  /\ followup' = d.followup
  /\ escalated' = d.escalated
  /\ lead' = IF ClosesLead(d) THEN "not_qualified" ELSE lead
  /\ handoff' = (handoff \/ OpensHandoff(d))
  /\ jobs' = jobs \cup QueuedJobs(d)
  /\ delivered' = (delivered \cap Voices) \cup SentFollowups(d)

-----------------------------------------------------------------------------
Init ==
  /\ stage = "interest_check"
  /\ status = "active"
  /\ profile = [f \in Fields |-> Unset]
  /\ sentPacks = {}
  /\ followup = NoStage
  /\ escalated = FALSE
  /\ lead = "new"
  /\ handoff = FALSE
  /\ jobs = {}
  /\ delivered = {}
  /\ inbox = FALSE
  /\ turn = "idle"
  /\ newer = FALSE

\* The poller stores a message and its event.
CandidateWrites ==
  /\ inbox' = TRUE
  /\ newer' = (turn = "deciding")
  /\ UNCHANGED <<runtimeVars, recordVars, jobs, delivered, turn>>

\* Faulty variant: what is queued stays queued.
Prepare_KeepsJobs ==
  /\ turn = "idle"
  /\ inbox
  /\ turn' = "deciding"
  /\ inbox' = FALSE
  /\ newer' = FALSE
  /\ UNCHANGED <<runtimeVars, recordVars, jobs, delivered>>

\* The turn buffer takes the latest message and cancels what is queued.
Prepare ==
  /\ turn = "idle"
  /\ inbox
  /\ turn' = "deciding"
  /\ inbox' = FALSE
  /\ newer' = FALSE
  /\ jobs' = {}
  /\ UNCHANGED <<runtimeVars, recordVars, delivered>>

\* A newer message: the graph's result is discarded.
Supersede ==
  /\ turn = "deciding"
  /\ newer
  /\ turn' = "idle"
  /\ newer' = FALSE
  /\ UNCHANGED <<runtimeVars, recordVars, jobs, delivered, inbox>>

Decide(sem, reply) ==
  /\ turn = "deciding"
  /\ ~newer
  /\ PersistAndExecute(Decision(sem, reply))
  /\ turn' = "idle"
  /\ UNCHANGED <<inbox, newer>>

\* An exception of the turn: the event ends as failed, and what the turn
\* buffer flushed before is committed with it.
TurnFails ==
  /\ "turn" \in Failures
  /\ turn = "deciding"
  /\ turn' = "idle"
  /\ newer' = FALSE
  /\ UNCHANGED <<runtimeVars, recordVars, jobs, delivered, inbox>>

\* The candidate's /restart command: everything is reset and start_for_dialog
\* runs the graph on an empty message.
Restart ==
  /\ turn = "idle"
  /\ inbox
  /\ inbox' = FALSE
  /\ stage' = "interest_check"
  /\ status' = "active"
  /\ profile' = [f \in Fields |-> Unset]
  /\ sentPacks' = {}
  /\ followup' = NoStage
  /\ escalated' = FALSE
  /\ lead' = "new"
  /\ jobs' = {}
  /\ delivered' = {}
  /\ UNCHANGED <<handoff, turn, newer>>

\* The outbound worker ends with a job of this dialog.
Deliver(j) ==
  /\ j \in jobs
  /\ jobs' = jobs \ {j}
  /\ delivered' = delivered \cup ({j} \cap (Voices \cup FollowUps))
  /\ UNCHANGED <<runtimeVars, recordVars, turnVars>>

DeliveryFails(j) ==
  /\ "send" \in Failures
  /\ j \in jobs
  /\ jobs' = jobs \ {j}
  /\ UNCHANGED <<runtimeVars, recordVars, delivered, turnVars>>

DecideSome ==
  \E sem \in Semantics(stage) : \E reply \in Replies(sem) : Decide(sem, reply)

Next ==
  \/ CandidateWrites \/ Prepare \/ Supersede \/ DecideSome
  \/ TurnFails \/ Restart
  \/ \E j \in jobs : Deliver(j) \/ DeliveryFails(j)

Spec == Init /\ [][Next]_vars
-----------------------------------------------------------------------------
(* Properties.                                                             *)

\* The variables have the values the runtime row, the lead and the queue can
\* have.
TypeOK ==
  /\ stage \in Stages
  /\ status \in {"active", "handoff", "closed"}
  /\ profile \in [Fields -> Values]
  /\ sentPacks \subseteq VoicePacks
  /\ followup \in WaitingStages \cup {NoStage}
  /\ escalated \in BOOLEAN
  /\ lead \in {"new", "not_qualified"}
  /\ handoff \in BOOLEAN
  /\ jobs \subseteq JobKinds
  /\ delivered \subseteq Voices \cup FollowUps
  /\ inbox \in BOOLEAN
  /\ turn \in {"idle", "deciding"}
  /\ newer \in BOOLEAN

\* The stages of the main path behind the intro voices, the salary voices.
AfterIntro ==
  WaitingStages \ {"interest_check", "age_check"}
AfterSalary == AfterIntro \ {"salary_schedule_offer"}

\* However many stages one message completes, the dialog never jumps over an
\* action stage: whoever is asked about pay or later has had the intro voices
\* queued, and the salary voices after that.
MaterialsQueued ==
  /\ stage \in AfterIntro => "work_intro" \in sentPacks
  /\ stage \in AfterSalary => "salary_schedule" \in sentPacks

\* Between turns the funnel waits in a stage that asks something, or has
\* ended: an action stage is always left in the turn that entered it.
NeverRestsInAction == stage \notin ActionStages

\* The dialog is closed in the runtime exactly when the lead is marked as not
\* qualified: controller (stage) and executor (lead) agree on every refusal,
\* answered or silent.
ClosedIsRecorded == (status = "closed") <=> (lead = "not_qualified")

\* A question still waiting to be sent is the question of the active stage,
\* and an ended dialog has none: cancelling at the start of a turn leaves no
\* question of an earlier one behind.
OnlyCurrentQuestions ==
  /\ \A s \in WaitingStages : Ask(s) \in jobs => s = stage
  /\ stage \in TerminalStages =>
       \A s \in WaitingStages : FollowUp(s) \notin jobs

\* The inductive strengthening: the status column repeats the stage, and a
\* running turn has left nothing queued.
StatusFollowsStage == status = StatusForStage(stage)
CleanTurn == turn = "deciding" => jobs = {}

IInv ==
  /\ TypeOK
  /\ MaterialsQueued
  /\ NeverRestsInAction
  /\ ClosedIsRecorded
  /\ OnlyCurrentQuestions
  /\ StatusFollowsStage
  /\ CleanTurn

\* Nobody gets past the age check in a turn after which the profile does not
\* say that the candidate confirmed an age of at least 18.
AgeGate ==
  [][(stage \in {"interest_check", "age_check"} /\ stage' \in AfterIntro) =>
       \A f \in {"age_confirmed", "age"} : profile'[f] = "yes"]_vars

\* The main path as positions; the two ways to agree on a time share one.
Position(s) ==
  CASE s = "interest_check" -> 1 [] s = "age_check" -> 2
    [] s = "salary_schedule_offer" -> 3
    [] s = "post_equipment_questions_check" -> 4
    [] s = "profile_theme_check" -> 5  [] s = "room_available_check" -> 6
    [] s = "equipment_phone_check" -> 7 [] s = "interview_offer" -> 8
    [] s = "contact_collection" -> 9   [] s = "interview_day_check" -> 10
    [] OTHER -> 11

\* A turn that moves the dialog along the path moves it forward, and every
\* question it leaves or jumps over is answered by the profile it persists.
NoQuestionSkipped ==
  [][stage' \in WaitingStages /\ stage' # stage /\ stage \in WaitingStages =>
       \/ /\ Position(stage') > Position(stage)
          /\ \A s \in WaitingStages :
               Position(stage) <= Position(s) /\ Position(s) < Position(stage')
                 => StageRequirementMet(s, profile')
       \/ stage' = "interest_check" /\ profile' = [f \in Fields |-> Unset]]_vars

\* A dialog that was handed over, lost or closed to contact stays so whatever
\* the candidate writes and the models answer; only /restart reopens it.
TerminalAbsorbing ==
  [][(stage \in TerminalStages /\ stage' # stage) =>
       stage' = "interest_check" /\ lead' = "new" /\ jobs' = {}]_vars
=============================================================================
