---------------------------- MODULE SemanticRules ----------------------------
(***************************************************************************)
(* How the funnel reads a candidate's message: deterministic_semantic, the  *)
(* rules that know the Russian markers, and merge_deterministic_facts, which *)
(* lays the rules' reading over a language model's.                         *)
(*                                                                          *)
(* A message is the set of cues the marker functions find in it, and the    *)
(* first number it names.  Some shapes are of the whole message: an empty   *)
(* one, a greeting, a short "what?", a bare "no", a bare acknowledgement.   *)
(* A topic is only told apart as far as the code asks: none, one of the     *)
(* GENERIC_TOPICS, one of the OBJECTION_TOPICS ("concern"), or any other    *)
(* ("faq").  Of several topics the first one named counts in the code; here *)
(* a concern comes before the others.  Queries, summaries, evidence and     *)
(* confidences are left out, and so are the fields equipment_available,     *)
(* work_or_study and hobbies, which no stage requires.                      *)
(***************************************************************************)
EXTENDS FunnelPolicy, FiniteSets

\* is_do_not_contact, the phrases of is_hard_refusal, is_pause.
StopCues == {"stop", "refuse", "later"}

\* is_agreement, is_interview_booking_intent, is_negative,
\* questions_are_resolved; "no questions" is told apart from the rest of it.
StanceCues == {"yes", "booking", "deny", "resolved", "no_questions"}

\* infer_topics; is_question_like; the words of is_objection_like.
TopicCues == {"topic", "worry", "question", "but"}

\* looks_like_profile_info, contextual_profile_answer.
ProfileCues == {"profile", "pastime"}

\* extract_room_available, mentions_equipment, mentions_phone_brand,
\* extract_phone_model.
SetupCues == {"room", "equipment", "brand", "model"}

\* extract_phone_number, extract_candidate_name, extract_interview_day and
\* the "Moscow time" of normalize_msk_daytime_short_hour.
BookingCues == {"phone", "name", "date", "moscow"}

Cues == StopCues \cup StanceCues \cup TopicCues \cup ProfileCues
          \cup SetupCues \cup BookingCues

\* The shapes of a whole message, with the cues they can bring: a single word
\* passes for a name.
Forms == {"empty", "social", "short", "no", "ack", "plain"}
FormCues(form) ==
  CASE form = "plain" -> SUBSET Cues
    [] form = "ack" -> SUBSET {"yes", "resolved", "name"}
    [] form = "no" -> {{"deny", "pastime", "name"}}
    [] OTHER -> {{}}

NoNumber == 0
AllMessages == {m \in [form : Forms, cues : SUBSET Cues, number : 0 .. 99] :
              /\ m.cues \in FormCues(m.form)
              /\ m.form # "plain" => m.number = NoNumber}

-----------------------------------------------------------------------------
(* Results.                                                                 *)

MessageTypes ==
  {"empty", "stage_answer", "interrupt_question", "objection", "mixed",
   "partial_answer", "soft_refusal", "hard_refusal", "do_not_contact",
   "unclear", "pause"}
InterruptTypes == {"none", "question", "objection", "refusal", "unclear", "pause"}
NoTopic == "none"
SpecificTopics == {"faq", "concern"}
Topics == {NoTopic, "generic"} \cup SpecificTopics

FactsOf(yes, no) == [yes |-> yes, no |-> no]
NoFacts == FactsOf({}, {})

SemanticResult ==
  [type : MessageTypes, satisfied : BOOLEAN, open : BOOLEAN,
   itype : InterruptTypes, topic : Topics, topics : SUBSET SpecificTopics,
   facts : [yes : SUBSET Fields, no : SUBSET Fields]]

Reading(type, satisfied, open, itype, topic, topics, facts) ==
  [type |-> type, satisfied |-> satisfied, open |-> open, itype |-> itype,
   topic |-> topic, topics |-> topics, facts |-> facts]

HasSpecificTopic(r) == r.topic \in SpecificTopics \/ r.topics # {}

\* candidate_profile with the facts of a result laid over it.
WithFacts(p, facts) ==
  [f \in Fields |-> IF f \in facts.yes THEN "yes"
                    ELSE IF f \in facts.no THEN "no" ELSE p[f]]

-----------------------------------------------------------------------------
(* The rules.                                                               *)

Has(m, cue) == cue \in m.cues

TopicsOf(m) ==
  (IF Has(m, "topic") THEN {"faq"} ELSE {})
    \cup (IF Has(m, "worry") THEN {"concern"} ELSE {})

FirstTopic(ts) == IF "concern" \in ts THEN "concern" ELSE "faq"

IsQuestion(m) == Has(m, "question")
IsObjection(m) == Has(m, "worry") \/ Has(m, "but")
Interrupts(m) == IsQuestion(m) \/ IsObjection(m)
Agrees(m) == Has(m, "yes") \/ Has(m, "booking")

\* is_hard_refusal: words of refusal, unless the message says that there are
\* no questions; a bare "no" where the question asks for interest.
IsHardRefusal(m, s) ==
  \/ Has(m, "refuse") /\ ~Has(m, "no_questions")
  \/ m.form = "no" /\ s \in {"interest_check", "salary_schedule_offer",
                             "interview_offer"}

\* extract_age: a number from 14 to 69.
NamesAge(m) == m.number \in 14 .. 69

\* extract_interview_time: the first number, if it can be an hour, even when
\* it belongs to a date.
NamesTime(m) == m.number \in 1 .. 23

\* normalize_msk_daytime_short_hour, time_in_range: from 11 up to 18:59.
InterviewHour(m) ==
  IF Has(m, "moscow") /\ m.number \in 1 .. 6 THEN m.number + 12 ELSE m.number
InHours(m) == InterviewHour(m) \in 11 .. 18

StageAnswer(m, yes, no) ==
  Reading("stage_answer", TRUE, FALSE, "none", NoTopic, TopicsOf(m),
          FactsOf(yes, no))
PartialAnswer(yes, topics) ==
  Reading("partial_answer", FALSE, FALSE, "none", NoTopic, topics,
          FactsOf(yes, {}))
\* partial_or_objection keeps the fact it objects to.
PartialOrObjection(yes, no) ==
  Reading("objection", FALSE, TRUE, "objection", "faq", {"faq"},
          FactsOf(yes, no))
Refusal(type) ==
  Reading(type, FALSE, TRUE, "refusal", "faq", {"faq"}, NoFacts)
Unclear(open, topics) ==
  Reading("unclear", FALSE, open, IF open THEN "unclear" ELSE "none",
          IF open THEN "generic" ELSE NoTopic, topics, NoFacts)

\* The stage's own reading, NoReading when it has none.
NoReading == Unclear(FALSE, {"faq", "concern"})

\* A wish to book the interview is a partial answer to other questions.
WantsBooking(m) ==
  IF Has(m, "booking") /\ ~Interrupts(m)
  THEN PartialAnswer({"interview_interest"}, {}) ELSE NoReading

InterestIn(m, field) ==
  IF Agrees(m) /\ ~Interrupts(m)
  THEN StageAnswer(m, {field}
         \cup (IF Has(m, "booking") THEN {"interview_interest"} ELSE {}), {})
  ELSE NoReading

ReadAge(m) ==
  IF ~NamesAge(m) THEN NoReading
  ELSE IF m.number >= 18 THEN StageAnswer(m, {"age", "age_confirmed"}, {})
  ELSE Refusal("hard_refusal")

ReadQuestionsLeft(m) ==
  IF {"resolved", "no_questions", "booking"} \cap m.cues # {}
  THEN StageAnswer(m, {"questions_resolved"}
         \cup (IF Has(m, "booking") THEN {"interview_interest"} ELSE {}), {})
  ELSE IF TopicsOf(m) # {}
  THEN LET concern == "concern" \in TopicsOf(m)
       IN  Reading(IF concern THEN "objection" ELSE "interrupt_question", FALSE,
                   TRUE, IF concern THEN "objection" ELSE "question",
                   FirstTopic(TopicsOf(m)), TopicsOf(m), NoFacts)
  ELSE NoReading

ReadProfile(m) ==
  IF Has(m, "profile") \/ (Has(m, "pastime") /\ ~Interrupts(m))
  THEN StageAnswer(m, {"profile_info"}, {}) ELSE WantsBooking(m)

ReadRoom(m) ==
  IF Has(m, "room") /\ ~Has(m, "deny") THEN StageAnswer(m, {"room_available"}, {})
  ELSE IF Has(m, "deny") THEN PartialOrObjection({}, {"room_available"})
  ELSE WantsBooking(m)

ReadPhoneModel(m) ==
  IF Has(m, "model") THEN StageAnswer(m, {"phone_model"}, {})
  ELSE IF (Has(m, "brand") \/ Has(m, "equipment")) /\ ~IsQuestion(m)
  THEN PartialAnswer({}, {"faq"}) ELSE WantsBooking(m)

ReadContact(m) ==
  LET told == (IF Has(m, "phone") THEN {"phone_number"} ELSE {})
                \cup (IF Has(m, "name") THEN {"candidate_name"} ELSE {})
  IN  IF told = {"phone_number", "candidate_name"} THEN StageAnswer(m, told, {})
      ELSE IF told # {} THEN PartialAnswer(told, {"faq"})
      ELSE WantsBooking(m)

ReadDay(m) ==
  IF Has(m, "date") \/ Has(m, "deny")
  THEN StageAnswer(m, {"interview_day"}, {"interview_day_confirmed"})
  ELSE IF Has(m, "yes")
  THEN StageAnswer(m, {"interview_day", "interview_day_confirmed"}, {})
  ELSE WantsBooking(m)

ReadTime(m) ==
  IF ~NamesTime(m) THEN WantsBooking(m)
  ELSE IF InHours(m) THEN StageAnswer(m, {"interview_time"}, {})
  ELSE PartialOrObjection({"interview_time"}, {})

ReadCustomTime(m) ==
  LET told == (IF Has(m, "date") THEN {"interview_day"} ELSE {})
                \cup (IF NamesTime(m) THEN {"interview_time"} ELSE {})
  IN  IF told = {"interview_day", "interview_time"}
      THEN StageAnswer(m, told \cup {"custom_interview_datetime"}, {})
      ELSE IF told # {} THEN PartialAnswer(told, {"faq"}) ELSE NoReading

ReadForStage(m, s) ==
  CASE s = "interest_check" -> InterestIn(m, "interest_confirmed")
    [] s = "age_check" -> ReadAge(m)
    [] s = "salary_schedule_offer" -> InterestIn(m, "salary_schedule_interest")
    [] s = "post_equipment_questions_check" -> ReadQuestionsLeft(m)
    [] s = "profile_theme_check" -> ReadProfile(m)
    [] s = "room_available_check" -> ReadRoom(m)
    [] s = "equipment_phone_check" -> ReadPhoneModel(m)
    [] s = "interview_offer" -> InterestIn(m, "interview_interest")
    [] s = "contact_collection" -> ReadContact(m)
    [] s = "interview_day_check" -> ReadDay(m)
    [] s = "interview_time_check" -> ReadTime(m)
    [] s = "interview_custom_time" -> ReadCustomTime(m)
    [] OTHER -> NoReading

\* What an agreement leaves in the facts next to a question or a worry.
AgreedFacts(m, s) ==
  IF s = "interest_check" /\ Has(m, "yes") THEN FactsOf({"interest_confirmed"}, {})
  ELSE IF s = "salary_schedule_offer" /\ Has(m, "yes")
  THEN FactsOf({"salary_schedule_interest"}, {}) ELSE NoFacts

ReadInterrupt(m, s) ==
  Reading(IF Has(m, "yes") THEN "mixed"
          ELSE IF IsObjection(m) THEN "objection" ELSE "interrupt_question",
          FALSE, TRUE, IF IsObjection(m) THEN "objection" ELSE "question",
          IF TopicsOf(m) # {} THEN FirstTopic(TopicsOf(m)) ELSE "generic",
          TopicsOf(m), AgreedFacts(m, s))

\* Faulty variant: the answer to the stage is looked for first.
DeterministicSemantic_StageFirst(m, s) ==
  CASE m.form = "empty" -> Reading("empty", FALSE, FALSE, "none", NoTopic, {}, NoFacts)
    [] m.form # "empty" /\ ReadForStage(m, s) # NoReading -> ReadForStage(m, s)
    [] OTHER -> ReadInterrupt(m, s)

DeterministicSemantic(m, s) ==
  CASE m.form = "empty" -> Reading("empty", FALSE, FALSE, "none", NoTopic, {}, NoFacts)
    [] m.form # "empty" ->
       IF Has(m, "stop") THEN Refusal("do_not_contact")
       ELSE IF IsHardRefusal(m, s) THEN Refusal("hard_refusal")
       ELSE IF Has(m, "later")
       THEN Reading("pause", FALSE, TRUE, "pause", "concern", {"concern"}, NoFacts)
       ELSE IF m.form = "social" THEN Unclear(FALSE, {})
       ELSE IF m.form = "short" THEN Unclear(TRUE, {})
       ELSE IF ReadForStage(m, s) # NoReading THEN ReadForStage(m, s)
       ELSE IF m.form = "ack" THEN Unclear(FALSE, {})
       ELSE IF Interrupts(m) THEN ReadInterrupt(m, s)
       ELSE Unclear(TRUE, TopicsOf(m))

-----------------------------------------------------------------------------
(* Laying the rules' reading over the model's.                              *)

\* semantic.py's is_generic_unclear_interrupt; llm_is_generic_unclear.
GenericInterrupt(r) ==
  /\ ~HasSpecificTopic(r)
  /\ r.itype \in {"none", "unclear"} \/ r.topic \notin SpecificTopics
ModelIsGenericUnclear(llm) ==
  /\ ~llm.satisfied
  /\ llm.type = "unclear" \/ llm.itype \in {"none", "unclear"}
  /\ ~HasSpecificTopic(llm)

TextFields ==
  {"profile_info", "phone_model", "candidate_name", "phone_number",
   "interview_day", "interview_time", "custom_interview_datetime"}

\* A value of the model wins unless it is missing or an empty text.
MergedFacts(llm, det) ==
  LET open == (Fields \ (llm.yes \cup llm.no)) \cup (llm.no \cap TextFields)
      no == llm.no \cup (det.no \cap open)
      yes == llm.yes \cup (det.yes \cap open)
  IN  FactsOf(yes, no \ yes)

MergedTopics(llm, det) ==
  det.topics \cup llm.topics \cup ({det.topic, llm.topic} \cap SpecificTopics)

\* fallback_should_override_partial.
OverridesPartial(m, det) ==
  det.type = "partial_answer" /\ ~(det.topics # {} /\ IsQuestion(m))

\* fallback_should_clear_generic_unclear.
ClearsUnclear(llm, det) ==
  ~det.open /\ det.type = "unclear" /\ ModelIsGenericUnclear(llm)

\* Faulty variant: an open question of the rules counts only when the model
\* has none.
OverridesInterrupt_ModelFirst(llm, det) ==
  /\ det.open /\ ~det.satisfied
  /\ ModelIsGenericUnclear(llm)

\* fallback_should_override_interrupt.
OverridesInterrupt(llm, det) ==
  /\ det.open /\ ~det.satisfied
  /\ GenericInterrupt(det) => ModelIsGenericUnclear(llm)

\* stronger_interrupt_topic.
StrongerTopic(llm, det) ==
  IF det.topic \in SpecificTopics \/ llm.topic \notin SpecificTopics
  THEN IF det.topic = NoTopic THEN llm.topic ELSE det.topic
  ELSE llm.topic

\* The classification that the merge leaves.
Closed(r, type, satisfied) ==
  [r EXCEPT !.type = type, !.satisfied = satisfied, !.open = FALSE,
            !.itype = "none", !.topic = NoTopic]
MergedClass(m, llm, det) ==
  IF OverridesPartial(m, det) THEN Closed(llm, "partial_answer", FALSE)
  ELSE IF ClearsUnclear(llm, det) THEN Closed(llm, det.type, FALSE)
  ELSE IF OverridesInterrupt(llm, det)
  THEN [llm EXCEPT !.type = det.type, !.satisfied = FALSE, !.open = TRUE,
                   !.itype = det.itype, !.topic = StrongerTopic(llm, det)]
  ELSE IF det.type = "stage_answer" /\ det.satisfied
  THEN Closed(llm, "stage_answer", TRUE)
  ELSE llm

\* enforce_current_goal_against_required_fields.
EnforceRequirement(r, s, p) ==
  IF r.satisfied /\ ~r.open /\ ~StageRequirementMet(s, WithFacts(p, r.facts))
  THEN [r EXCEPT !.satisfied = FALSE,
                 !.type = IF @ = "stage_answer" THEN "unclear" ELSE @]
  ELSE r

\* normalize_semantic_result.
Normalized(r) ==
  IF ~r.open THEN [r EXCEPT !.itype = "none", !.topic = NoTopic]
  ELSE IF r.itype = "unclear" /\ HasSpecificTopic(r)
  THEN LET t == IF r.topic \in SpecificTopics THEN r.topic ELSE FirstTopic(r.topics)
       IN  [r EXCEPT !.topic = t,
                     !.itype = IF t = "concern" THEN "objection" ELSE "question",
                     !.type = IF t = "concern" THEN "objection"
                              ELSE "interrupt_question"]
  ELSE r

MergeDeterministicFacts(m, llm, det, s, p) ==
  LET whole == [MergedClass(m, llm, det) EXCEPT
                  !.facts = MergedFacts(llm.facts, det.facts),
                  !.topics = MergedTopics(llm, det)]
  IN  Normalized(EnforceRequirement(whole, s, p))

\* semantic_fast_path_allowed: what the rules are sure of needs no model.
SemanticFastPath(det) ==
  \/ det.type = "stage_answer" /\ det.satisfied /\ ~det.open
  \/ det.type = "partial_answer" /\ ~det.open
  \/ det.type \in {"empty", "pause", "do_not_contact", "hard_refusal"}
=============================================================================
