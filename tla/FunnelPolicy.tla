----------------------------- MODULE FunnelPolicy -----------------------------
(***************************************************************************)
(* The table of funnel stages (STAGE_POLICIES) and the functions that read  *)
(* it.  A candidate profile maps each field to what the controller can tell *)
(* of its value: Unset (None), "yes" (true, a non-empty text, an age of at  *)
(* least 18) or "no" (false, an empty text, a smaller age).                 *)
(*                                                                          *)
(* The stages of the previous funnel (company_intro, try_interest_check,    *)
(* ready_for_interview) are kept by the code for old rows only; no stage    *)
(* below leads to them and they are left out.                               *)
(***************************************************************************)
EXTENDS Integers

WaitingStages ==
  {"interest_check", "age_check", "salary_schedule_offer",
   "post_equipment_questions_check", "profile_theme_check",
   "room_available_check", "equipment_phone_check", "interview_offer",
   "contact_collection", "interview_day_check", "interview_time_check",
   "interview_custom_time"}
ActionStages ==
  {"work_intro_delivery", "salary_schedule_delivery", "support_smalltalk"}
TerminalStages == {"human_handoff", "lost", "do_not_contact"}
Stages == WaitingStages \cup ActionStages \cup TerminalStages

Unset == "unset"
Values == {Unset, "yes", "no"}

\* required_fields of a waiting stage, with the age the check needs.
RequiredFields(s) ==
  CASE s = "interest_check"        -> {"interest_confirmed"}
    [] s = "age_check"             -> {"age_confirmed", "age"}
    [] s = "salary_schedule_offer" -> {"salary_schedule_interest"}
    [] s = "post_equipment_questions_check" -> {"questions_resolved"}
    [] s = "profile_theme_check"   -> {"profile_info"}
    [] s = "room_available_check"  -> {"room_available"}
    [] s = "equipment_phone_check" -> {"phone_model"}
    [] s = "interview_offer"       -> {"interview_interest"}
    [] s = "contact_collection"    -> {"candidate_name", "phone_number"}
    [] s = "interview_day_check"   -> {"interview_day_confirmed"}
    [] s = "interview_time_check"  -> {"interview_time"}
    [] s = "interview_custom_time" -> {"custom_interview_datetime"}
    [] OTHER -> {}

Fields ==
  {"interest_confirmed", "age_confirmed", "age", "salary_schedule_interest",
   "questions_resolved", "profile_info", "room_available", "phone_model",
   "interview_interest", "candidate_name", "phone_number",
   "interview_day_confirmed", "interview_day", "interview_time",
   "custom_interview_datetime"}

\* next_stage_if_completed; a terminal stage has none.
NextStageIfCompleted(s) ==
  CASE s = "interest_check"        -> "age_check"
    [] s = "age_check"             -> "work_intro_delivery"
    [] s = "work_intro_delivery"   -> "salary_schedule_offer"
    [] s = "salary_schedule_offer" -> "salary_schedule_delivery"
    [] s = "salary_schedule_delivery" -> "post_equipment_questions_check"
    [] s = "post_equipment_questions_check" -> "profile_theme_check"
    [] s = "profile_theme_check"   -> "support_smalltalk"
    [] s = "support_smalltalk"     -> "room_available_check"
    [] s = "room_available_check"  -> "equipment_phone_check"
    [] s = "equipment_phone_check" -> "interview_offer"
    [] s = "interview_offer"       -> "contact_collection"
    [] s = "contact_collection"    -> "interview_day_check"
    [] s = "interview_day_check"   -> "interview_time_check"
    [] s = "interview_time_check"  -> "human_handoff"
    [] s = "interview_custom_time" -> "human_handoff"
    [] OTHER -> s

\* allowed_transitions.
AllowedTransitions(s) ==
  IF s \in TerminalStages THEN {s}
  ELSE IF s \in ActionStages THEN {NextStageIfCompleted(s)}
  ELSE {s, NextStageIfCompleted(s)} \cup TerminalStages
       \cup (IF s = "interview_day_check" THEN {"interview_custom_time"} ELSE {})

CanTransition(s, t) == t \in AllowedTransitions(s)

\* The voice pack an action stage sends.
VoicePacksOf(s) ==
  CASE s = "work_intro_delivery"      -> {"work_intro"}
    [] s = "salary_schedule_delivery" -> {"salary_schedule"}
    [] OTHER -> {}
VoicePacks == {"work_intro", "salary_schedule"}

\* Faulty variant: any age will do once it was given.
StageRequirementMet_AnyAge(s, p) ==
  \/ \A f \in RequiredFields(s) \ {"age"} : p[f] = "yes"
  \/ s = "interview_day_check" /\ p["interview_day"] = "yes"

StageRequirementMet(s, p) ==
  \/ \A f \in RequiredFields(s) : p[f] = "yes"
  \/ s = "interview_day_check" /\ p["interview_day"] = "yes"

\* Faulty variant: the next stage is entered without its predecessor's fields.
NextStageIfRequirementMet_Unchecked(s, p) ==
  IF s = "interview_day_check" /\ p["interview_day_confirmed"] # "yes"
  THEN "interview_custom_time"
  ELSE NextStageIfCompleted(s)

NextStageIfRequirementMet(s, p) ==
  IF ~StageRequirementMet(s, p) THEN s
  ELSE IF s = "interview_day_check" /\ p["interview_day_confirmed"] # "yes"
       THEN "interview_custom_time"
       ELSE NextStageIfCompleted(s)

-----------------------------------------------------------------------------
\* Faulty variant: the loop runs through action stages as well.
SkipOne_ThroughActions(s, p) == NextStageIfRequirementMet(s, p)

\* One round of the loop of advance_through_completed_waiting_stages.
SkipOne(s, p) ==
  IF s \in WaitingStages THEN NextStageIfRequirementMet(s, p) ELSE s

\* The whole loop: at most six waiting stages follow each other, so eight
\* rounds reach the point where the code breaks out.
Skip2(s, p) == SkipOne(SkipOne(s, p), p)
Skip4(s, p) == Skip2(Skip2(s, p), p)
AdvanceThroughCompletedWaitingStages(s, p) == Skip4(Skip4(s, p), p)

\* The stages the loop of can_transition_via_completed_stages visits.
CompletedWalk(s, p) ==
  LET walk[n \in 0 .. 20] ==
        IF n = 0 THEN s
        ELSE LET u == walk[n - 1]
                 v == NextStageIfRequirementMet(u, p)
             IN  IF CanTransition(u, v) THEN v ELSE u
  IN  {walk[n] : n \in 0 .. 20}

CanTransitionViaCompletedStages(s, t, p) ==
  \/ CanTransition(s, t)
  \/ /\ s \notin TerminalStages
     /\ \E u \in CompletedWalk(s, p) : CanTransition(u, t)

\* status_for_stage.
StatusForStage(s) ==
  IF s = "human_handoff" THEN "handoff"
  ELSE IF s \in {"lost", "do_not_contact"} THEN "closed" ELSE "active"
=============================================================================
