----------------------------- MODULE BrainRules -----------------------------
(***************************************************************************)
(* The rules of Brain V2: what the router reads in a message, the local     *)
(* decision that replaces a missing or failing language model, the          *)
(* validator and the forced handoff.                                        *)
(*                                                                          *)
(* A message is what the router finds in it: a refusal, a doubt, a          *)
(* question with its topic, an age and the names of further slots.  Words   *)
(* of an answer are "good", "bad" (too long or about itself) or "none".     *)
(***************************************************************************)
EXTENDS Naturals, SequencesExt

NotSet == "none"

StageOrder == <<"lead_created", "waiting_first_reply", "first_touch_sent", "lead_replied",
  "info_messages_sent", "interest_triage", "trust", "age_gate", "basic_info_pack",
  "qualification_faq", "company", "qualification", "personalization", "interview_close",
  "pre_schedule_questions", "contact_collection", "scheduling", "confirmation",
  "post_schedule_support", "handoff", "closed">>

Stages == {StageOrder[i] : i \in 1..Len(StageOrder)}

\* Every stage but the last has exactly one successor.
NextStageAfter(stage) ==
  IF stage \notin Stages THEN "qualification"
  ELSE IF stage = "closed" THEN "closed"
  ELSE StageOrder[1 + CHOOSE i \in 1..Len(StageOrder) : StageOrder[i] = stage]

NormalizeStage(stage) == IF stage \in Stages THEN stage ELSE "qualification"

StageIsReachable(current, candidate) ==
  \/ NextStageAfter(current) = candidate
  \/ current \in {"lead_created", "lead_replied", "info_messages_sent", "interest_triage"}

Item(key, stage, slot) == [key |-> key, stage |-> stage, slot |-> slot]

\* In the order of priority.
StandardAgenda == <<
  Item("trust.answer_source", "trust", "trust_source_answered"),
  Item("trust.answer_basic_suspicion", "trust", "trust_basic_suspicion_resolved"),
  Item("age.confirm_18", "age_gate", "age"),
  Item("qualification.check_english", "qualification", "english_level"),
  Item("qualification.check_equipment", "qualification", "equipment_status"),
  Item("qualification.check_availability", "qualification", "availability"),
  Item("qualification.check_boundaries", "qualification", "boundaries_ok"),
  Item("personalization.collect_hobbies", "personalization", "hobbies"),
  Item("personalization.suggest_theme", "personalization", "suggested_theme"),
  Item("interview.offer", "interview_close", "interview_interest"),
  Item("contact.collect_name_phone", "contact_collection", "contact"),
  Item("schedule.collect_time", "scheduling", "preferred_time"),
  Item("handoff.prepare_summary", "handoff", "handoff_summary") >>

\* The first item that is open, not known yet and in this stage or reachable from it.
NextAgendaItem(agenda, status, stage, slots) ==
  LET open == {i \in 1..Len(agenda) :
        /\ status[agenda[i].key] \notin {"absent", "done", "skipped"}
        /\ agenda[i].slot \notin slots
        /\ agenda[i].stage = stage \/ StageIsReachable(stage, agenda[i].stage)}
  IN {agenda[i] : i \in {k \in open : \A j \in open : k <= j}}
-----------------------------------------------------------------------------
(* The router.                                                              *)

\* asks: has_candidate_question.
Texts(slots) == [refusal : BOOLEAN, doubt : BOOLEAN, asks : BOOLEAN,
  topic : {"none", "legal", "other"}, age : {"none", "minor", "adult"}, slots : SUBSET slots]

Plain == [refusal |-> FALSE, doubt |-> FALSE, asks |-> FALSE, topic |-> "none", age |-> "none", slots |-> {}]

\* Several unanswered messages are read as one text; the first age counts.
Combined(first, second) ==
  [refusal |-> first.refusal \/ second.refusal, doubt |-> first.doubt \/ second.doubt,
   asks |-> first.asks \/ second.asks,
   topic |-> IF "legal" \in {first.topic, second.topic} THEN "legal"
             ELSE IF first.topic = "none" THEN second.topic ELSE first.topic,
   age |-> IF first.age = "none" THEN second.age ELSE first.age,
   slots |-> first.slots \cup second.slots]

CombinedIncoming(batch) == FoldLeft(Combined, batch[1], Tail(batch))

\* Faulty variant: a legal question is seen before the refusal.
PrimaryIntentFor_LegalFirst(t) ==
  IF t.asks /\ t.topic = "legal" THEN "legal_risk" ELSE IF t.refusal THEN "not_interested" ELSE "unclear"

\* Interest and silence about it have the same consequences: "unclear".
PrimaryIntentFor(t) ==
  IF t.refusal THEN "not_interested"
  ELSE IF t.asks /\ t.topic = "legal" THEN "legal_risk"
  ELSE IF t.doubt THEN "objection"
  ELSE IF t.asks /\ t.topic # "none" THEN "question" ELSE "unclear"

SlotPatch(t) == t.slots \cup (IF t.age = "none" THEN {} ELSE {"age", "age_confirmed_18"})

ShouldCreateAgenda(t) == PrimaryIntentFor(t) \notin {"not_interested", "legal_risk"}
-----------------------------------------------------------------------------
(* Decisions.  An open loop "keep" and a stage "none" leave the lead's.      *)

NoUpdates == [k \in {} |-> NotSet]
KeepLoop == "keep"

Decision(stage, loop, updates, action, response) ==
  [stage |-> stage, loop |-> loop, updates |-> updates, slots |-> {},
   action |-> action, response |-> response, text |-> response]

DecisionFields == {"stage", "loop", "updates", "slots", "action", "response", "text"}

Update(keys, values) == [k \in {keys[i] : i \in 1..Len(keys)} |->
  values[CHOOSE i \in 1..Len(keys) : keys[i] = k]]

\* Faulty variant: the open loop moves on, the stage does not.
Ask_StayInStage(lead, item) ==
  Decision(lead.stage, item.key, Update(<<item.key>>, <<"active">>), "send_message", "good")

Ask(lead, item) ==
  Decision(item.stage, item.key, Update(<<item.key>>, <<"active">>), "send_message", "good")

CloseLost == Decision("closed", KeepLoop, NoUpdates, "close_lost", "good")
HandOff(updates) == Decision("handoff", KeepLoop, updates, "handoff", "good")

\* One step from one item of the agenda to the next.
StepOn(done, stage, active) ==
  Decision(stage, active, Update(<<done, active>>, <<"done", "active">>), "send_message", "good")

\* local_dialogue_decision for the lead and the text; answer is what the first
\* knowledge card makes of the reply.
LocalDecision(agenda, lead, t, answer) ==
  LET intent == PrimaryIntentFor(t)
      patch == SlotPatch(t)
      next == NextAgendaItem(agenda, lead.items, lead.stage, lead.slots \cup patch)
  IN IF intent = "not_interested" THEN CloseLost
     ELSE IF intent = "legal_risk" THEN HandOff(NoUpdates)
     ELSE IF t.age = "minor" THEN CloseLost
     ELSE IF lead.stage = "interview_close" /\ "interview_interest" \in patch
     THEN StepOn("interview.offer", "contact_collection", "contact.collect_name_phone")
     ELSE IF lead.stage = "contact_collection" /\ "phone" \in patch
     THEN [StepOn("contact.collect_name_phone", "scheduling", "schedule.collect_time")
           EXCEPT !.slots = {"contact"}]
     ELSE IF lead.stage = "scheduling" /\ "preferred_time" \in patch
     THEN HandOff(Update(<<"schedule.collect_time", "handoff.prepare_summary">>, <<"done", "active">>))
     ELSE IF t.asks \/ t.doubt
     THEN Decision(lead.stage, KeepLoop, NoUpdates, "send_message", answer)
     ELSE IF next = {} THEN HandOff(NoUpdates)
     ELSE Ask(lead, CHOOSE item \in next : TRUE)

LocalVerdict(d) ==
  IF d.action = "handoff" THEN "handoff"
  ELSE IF d.response = "bad" \/ (d.action = "send_message" /\ d.response = "none") THEN "revise"
  ELSE "pass"

\* The model is asked only about what the local rules pass.
Verdicts(d, models) == IF LocalVerdict(d) = "pass" THEN {"pass"} \cup models ELSE {LocalVerdict(d)}

ForceHandoff(d) ==
  [d EXCEPT !.stage = "handoff", !.loop = KeepLoop, !.updates = NoUpdates, !.action = "handoff",
            !.response = IF @ = "none" THEN "good" ELSE @,
            !.text = IF d.response = "none" THEN "good" ELSE d.response]

\* What a turn can come to: a decision, revised at most once, with its last verdict.
Turns(options, models) ==
  LET first == {<<d, v>> : d \in options, v \in {"pass", "revise", "handoff"}}
      judged == {p \in first : p[2] \in Verdicts(p[1], models)}
      kept == {p \in judged : p[2] # "revise"}
      revised == IF kept = judged THEN {} ELSE judged
  IN {IF p[2] = "handoff" THEN <<ForceHandoff(p[1]), "handoff">> ELSE p : p \in kept \cup revised}
=============================================================================
