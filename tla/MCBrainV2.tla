------------------------------ MODULE MCBrainV2 ------------------------------
(* A small instance of BrainV2: six items of the standard agenda, messages that
   differ in what the rules do, and a language model that moves on, or
   invents a stage, uses forbidden words and leaves the action without text. *)
EXTENDS BrainV2

ShortAgenda == SelectSeq(StandardAgenda, LAMBDA item : item.key \in
  {"trust.answer_source", "personalization.collect_hobbies", "interview.offer",
   "contact.collect_name_phone", "schedule.collect_time", "handoff.prepare_summary"})

FiveMessages == {
  [Plain EXCEPT !.slots = {"interview_interest"}],
  [Plain EXCEPT !.doubt = TRUE, !.asks = TRUE, !.topic = "other"],
  [Plain EXCEPT !.refusal = TRUE, !.asks = TRUE, !.topic = "legal"],
  [Plain EXCEPT !.asks = TRUE, !.topic = "legal"],
  [Plain EXCEPT !.age = "minor", !.slots = {"english_level"}] }

TwoModels == {
  Decision("interview_close", "interview.offer", Update(<<"trust.answer_source">>, <<"done">>), "send_message", "good"),
  [Decision("small_talk", KeepLoop, NoUpdates, "schedule_followup", "bad") EXCEPT !.text = "none"] }
=============================================================================
