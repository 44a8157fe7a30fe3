---------------------------- MODULE MCAnalysedTurn ----------------------------
(***************************************************************************)
(* Model checking of AnalysedTurn: messages for every way a stage can be    *)
(* answered, refused or interrupted, and model answers that agree with the  *)
(* rules, contradict them, or break off the dialog.                         *)
(***************************************************************************)
EXTENDS AnalysedTurn

LOCAL M(form, cues, number) == [form |-> form, cues |-> cues, number |-> number]

MCMessages ==
  {M("empty", {}, 0),
   M("short", {}, 0),
   M("ack", {}, 0),
   M("ack", {"yes", "resolved", "name"}, 0),
   M("no", {"deny", "pastime", "name"}, 0),
   M("plain", {"stop", "yes"}, 16),
   M("plain", {"refuse"}, 0),
   M("plain", {}, 16),
   M("plain", {"later"}, 16),
   M("plain", {"moscow"}, 5),
   M("plain", {"yes", "question", "topic"}, 0),
   M("plain", {"question"}, 0),
   M("plain", {"booking", "room", "model", "profile"}, 0),
   M("plain", {"phone", "date", "but"}, 20)}

MCModelReadings ==
  {Reading("stage_answer", TRUE, FALSE, "none", NoTopic, {},
           FactsOf({"age", "age_confirmed", "interest_confirmed"}, {})),
   Reading("stage_answer", TRUE, FALSE, "none", NoTopic, {"faq"}, NoFacts),
   Reading("partial_answer", FALSE, FALSE, "none", NoTopic, {},
           FactsOf({"interview_interest"}, {"phone_number"})),
   Reading("hard_refusal", FALSE, FALSE, "refusal", "generic", {}, NoFacts),
   Reading("interrupt_question", TRUE, TRUE, "unclear", "generic", {"faq"}, NoFacts),
   Reading("empty", FALSE, TRUE, "question", "generic", {},
           FactsOf({"age"}, {"interest_confirmed"})),
   Reading("unclear", FALSE, TRUE, "none", NoTopic, {}, NoFacts)}

LOCAL R(send, parts, handoff) ==
  [send |-> send, parts |-> parts, handoff |-> handoff]

MCModelReplies ==
  {R(TRUE, {}, FALSE), R(FALSE, {"words"}, TRUE), R(TRUE, {"words"}, TRUE),
   R(TRUE, {"words", "foreign"}, FALSE), R(TRUE, {"voice"}, FALSE)}

LOCAL S(fast, route, keys) == [fast |-> fast, route |-> route, keys |-> keys]

\* The profiles max_only, plus_only and plus_max_router.
MCSetups ==
  {S(TRUE, TRUE, Sizes), S(TRUE, TRUE, {"plain"}), S(TRUE, FALSE, {"plain"}),
   S(FALSE, FALSE, {"plain"})}
=============================================================================
