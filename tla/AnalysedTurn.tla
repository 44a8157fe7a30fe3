----------------------------- MODULE AnalysedTurn -----------------------------
(***************************************************************************)
(* One turn of the funnel graph up to the state controller: the semantic    *)
(* analyzer and the reply orchestrator, each of which may ask a language    *)
(* model, retry, fall back to a larger model and in the end to its own      *)
(* rules.  FunnelDialog takes the outcome of a turn as given and says which *)
(* outcomes there are; here they are computed, and every decision they lead *)
(* to is shown to be one of FunnelDialog's.                                 *)
(*                                                                          *)
(* A model may answer anything its schema admits; ModelReadings and          *)
(* ModelReplies bound what it does answer.  The text of a reply is the set  *)
(* of what its messages hold: the speaker's own words, the question of the  *)
(* stage, the question of another stage, a voice pack.  How texts are split *)
(* and delayed is left out.  The graph is run with fallback_on_llm_error,   *)
(* as the gateway runs it; timeout events exist in the local chat only.  The *)
(* prompt files are taken to be there: the node's own answer to any other   *)
(* exception of the analyzer is left out.                                   *)
(***************************************************************************)
EXTENDS SemanticRules

CONSTANTS
  Messages,      \* the messages candidates write
  ModelReadings, \* what a model may answer as a SemanticResult
  ModelReplies,  \* what a model may answer as a ReplyResult
  Setups,        \* model profile (use_fast_path, route_complex_to_max) and the
                 \* models an API key is configured for
  MaxRetries     \* brain_llm_max_retries

Sizes == {"plain", "complex"}
ReplyParts == {"words", "question", "foreign", "voice"}
ReplyResult == [send : BOOLEAN, parts : SUBSET ReplyParts, handoff : BOOLEAN]

ASSUME TurnConstantsOK ==
  /\ Messages \subseteq AllMessages
  /\ ModelReadings \subseteq SemanticResult
  /\ ModelReplies \subseteq ReplyResult
  /\ Setups \subseteq [fast : BOOLEAN, route : BOOLEAN, keys : SUBSET Sizes]
  /\ MaxRetries \in Nat

VARIABLES
  stage, profile, awaiting, escalated, \* the runtime the turn starts from
  msg,      \* the candidate's message
  setup,    \* the settings
  phase,    \* "reading", "replying", "done"
  call,     \* the model call under way
  semantic, \* semantic_result
  reply     \* reply_result

given == <<stage, profile, awaiting, escalated, msg, setup>>
vars == <<given, phase, call, semantic, reply>>

NoCall == [size |-> "none", attempt |-> 0]
CallTo(size) == [size |-> size, attempt |-> 0]

\* The plain model, or the larger one for what is_complex_turn calls complex.
IsComplexTurn(r) ==
  \/ r.open
  \/ r.type \in {"interrupt_question", "objection", "mixed", "soft_refusal",
                 "hard_refusal", "do_not_contact"}
  \/ msg.cues \cap {"question", "topic", "worry"} # {}
SizeFor(r) ==
  IF setup.route /\ IsComplexTurn(r) THEN "complex" ELSE "plain"

\* The rules' reading of the message.
Det == DeterministicSemantic(msg, stage)

-----------------------------------------------------------------------------
(* The reply orchestrator's rules.                                          *)

Text(send, parts) == [send |-> send, parts |-> parts, handoff |-> FALSE]
Continue == Text(TRUE, {})

Met(r) == StageRequirementMet(stage, WithFacts(profile, r.facts))

\* partial_followup, or the question of the stage again.
AskAgain == IF stage \in WaitingStages THEN {"question"} ELSE {}

\* reply.py's is_generic_unclear_interrupt.
NothingToAnswer(r) == r.itype \in {"none", "unclear"} /\ ~HasSpecificTopic(r)

\* should_wait_after_neutral_ack.
WaitsAfterAck(r) ==
  awaiting /\ ~r.open /\ r.type = "unclear" /\ msg.form = "ack"

DeterministicReply(r) ==
  CASE r.type = "empty" -> Text(TRUE, {"words"})
    [] r.type = "do_not_contact" -> Text(FALSE, {})
    [] r.type \in {"hard_refusal", "pause"} -> Text(TRUE, {"words"})
    [] r.type \notin {"empty", "do_not_contact", "hard_refusal", "pause"} ->
       IF WaitsAfterAck(r) THEN Text(FALSE, {})
       ELSE IF r.open
       THEN IF ~NothingToAnswer(r) \/ stage = "post_equipment_questions_check"
            THEN Text(TRUE, {"words"})
            ELSE Text(TRUE, {"words"} \cup AskAgain)
       ELSE IF r.type = "partial_answer" /\ ~Met(r)
       THEN Text(TRUE, AskAgain) ELSE Continue

\* sanitize_reply_result.
Sanitized(a) == IF a.send THEN a ELSE [a EXCEPT !.parts = {}]

\* A model's reply without messages that is meant to be sent leaves the reply
\* to the rules.
Kept(a, r) == IF a.send /\ a.parts = {} THEN DeterministicReply(r) ELSE a

\* Faulty variant: the model asks what it likes while a field is missing.
Guarded_NoFollowup(a, r) ==
  IF ~r.open /\ (r.satisfied \/ Met(r)) THEN Continue
  ELSE IF r.open /\ (NothingToAnswer(r) \/ a.parts \cap {"question", "foreign"} # {})
  THEN DeterministicReply(r) ELSE Kept(a, r)

\* guard_reply_with_policy, and what becomes of a reply it lets through.
Guarded(a, r) ==
  IF /\ ~Met(r)
     /\ \/ ~r.open /\ ~r.satisfied /\ "interview_interest" \in r.facts.yes
        \/ r.type = "partial_answer"
  THEN [Text(TRUE, AskAgain) EXCEPT !.handoff = a.handoff]
  ELSE IF ~r.open /\ (r.satisfied \/ Met(r)) THEN Continue
  ELSE IF r.open /\ (NothingToAnswer(r) \/ a.parts \cap {"question", "foreign"} # {})
  THEN DeterministicReply(r) ELSE Kept(a, r)

FromModel(a, r) == Guarded(Sanitized(a), r)

\* reply_fast_path_allowed; sure stands for a message of at most three words
\* and for a model's confidence of 0.85, which the rules always have.
ReplyFastPath(r, sure) ==
  \/ ~r.open /\ (r.satisfied \/ r.type = "partial_answer")
  \/ ~r.open /\ r.type = "unclear" /\ sure
  \/ /\ r.type \in {"pause", "do_not_contact", "hard_refusal"}
     /\ sure \/ r = Det

-----------------------------------------------------------------------------
(* The steps of the turn.                                                   *)

\* A dialog waits in a stage with any part of the stage's fields known.
Init ==
  /\ stage \in WaitingStages \cup TerminalStages
  /\ \E known \in SUBSET RequiredFields(stage) :
       profile = [f \in Fields |-> IF f \in known THEN "yes" ELSE Unset]
  /\ awaiting \in BOOLEAN
  /\ escalated \in BOOLEAN
  /\ msg \in Messages
  /\ setup \in Setups
  /\ phase = "reading"
  /\ call = NoCall
  /\ semantic = Unclear(TRUE, {})
  /\ reply = Continue

\* Without a model: an empty message, the fast path, no API key.  The key of
\* the plain model is asked for; without one of its own, the call to the
\* larger model fails at once.
ReadsByRules ==
  \/ msg.form = "empty"
  \/ setup.fast /\ SemanticFastPath(Det)
  \/ ~({"plain", SizeFor(Det)} \subseteq setup.keys)

StartReading ==
  /\ phase = "reading"
  /\ call = NoCall
  /\ IF ReadsByRules
     THEN semantic' = Det /\ phase' = "replying" /\ UNCHANGED call
     ELSE call' = CallTo(SizeFor(Det)) /\ UNCHANGED <<semantic, phase>>
  /\ UNCHANGED <<given, reply>>

StartReply(sure) ==
  /\ phase = "replying"
  /\ call = NoCall
  /\ IF \/ semantic.type = "empty"
        \/ setup.fast /\ ReplyFastPath(semantic, sure)
        \/ SizeFor(semantic) \notin setup.keys
     THEN reply' = DeterministicReply(semantic) /\ phase' = "done" /\ UNCHANGED call
     ELSE call' = CallTo(SizeFor(semantic)) /\ UNCHANGED <<reply, phase>>
  /\ UNCHANGED <<given, semantic>>

\* complete_json: a request that fails is repeated.
Retry ==
  /\ call # NoCall
  /\ call.attempt < MaxRetries
  /\ call' = [call EXCEPT !.attempt = @ + 1]
  /\ UNCHANGED <<given, phase, semantic, reply>>

\* _try_complex_fallback
CanFallBack ==
  setup.route /\ call.size = "plain" /\ "complex" \in setup.keys

\* fallback_on_llm_error: the rules answer in the model's place.
SettleByRules ==
  /\ call' = NoCall
  /\ IF phase = "reading"
     THEN semantic' = Det /\ phase' = "replying" /\ UNCHANGED reply
     ELSE reply' = DeterministicReply(semantic) /\ phase' = "done" /\ UNCHANGED semantic

\* The last attempt fails, or an answer of any attempt does not fit the
\* schema, which is not repeated.
LoseCall ==
  /\ call # NoCall
  /\ IF CanFallBack
     THEN call' = CallTo("complex") /\ UNCHANGED <<phase, semantic, reply>>
     ELSE SettleByRules
  /\ UNCHANGED given

\* A usable answer.
ReadByModel(llm) ==
  /\ phase = "reading"
  /\ call # NoCall
  /\ semantic' = MergeDeterministicFacts(msg, llm, Det, stage, profile)
  /\ phase' = "replying"
  /\ call' = NoCall
  /\ UNCHANGED <<given, reply>>

ReplyByModel(a) ==
  /\ phase = "replying"
  /\ call # NoCall
  /\ reply' = FromModel(a, semantic)
  /\ phase' = "done"
  /\ call' = NoCall
  /\ UNCHANGED <<given, semantic>>

Next ==
  \/ StartReading
  \/ \E sure \in BOOLEAN : StartReply(sure)
  \/ Retry
  \/ LoseCall
  \/ \E llm \in ModelReadings : ReadByModel(llm)
  \/ \E a \in ModelReplies : ReplyByModel(a)

Spec == Init /\ [][Next]_vars

-----------------------------------------------------------------------------
(* What the controller makes of the turn.                                   *)

Dialog == INSTANCE FunnelDialog WITH
  Volunteered <- Fields, Denied <- Fields, MaxFacts <- Cardinality(Fields), Failures <- {},
  followup <- IF awaiting THEN stage ELSE "none",
  status <- StatusForStage(stage), sentPacks <- {}, lead <- "new",
  handoff <- FALSE, jobs <- {}, delivered <- {}, inbox <- FALSE,
  turn <- "deciding", newer <- FALSE

AsSemantic ==
  [type |-> IF semantic.type \in Dialog!MessageTypes THEN semantic.type
            ELSE "answer",
   interrupt |-> IF ~semantic.open THEN "none"
                 ELSE IF semantic.itype \in {"question", "objection"}
                      THEN "question" ELSE "other",
   facts |-> semantic.facts]
AsReply ==
  [send |-> reply.send, text |-> reply.parts # {}, handoff |-> reply.handoff]
Outcome == Dialog!Decision(AsSemantic, AsReply)

-----------------------------------------------------------------------------
(* Properties.                                                              *)

\* Whatever the models answer, the analyzer and the orchestrator leave the
\* controller an outcome that FunnelDialog lets it decide on, with the
\* decision FunnelDialog foresees (merge_deterministic_facts,
\* guard_reply_with_policy).
Foreseen ==
  phase = "done" =>
    /\ AsSemantic \in Dialog!Semantics(stage)
    /\ \E r \in Dialog!Replies(AsSemantic) :
         Dialog!Decision(AsSemantic, r) = Outcome

\* What must end or hold the dialog does, whatever a model makes of the message:
\* a request not to be written to again closes it without a word
\* (is_do_not_contact comes first, and the rules' open interrupt overrides the
\* model's), and an age below 18, given when it is asked for, gets no further.
HardStopsHeld ==
  phase = "done" =>
    /\ "stop" \in msg.cues =>
         /\ semantic.type = "do_not_contact"
         /\ stage \in WaitingStages => Outcome.stage = "do_not_contact" /\ ~Outcome.send
    /\ stage = "age_check" /\ msg.number \in 14 .. 17 =>
         Outcome.stage \in {"age_check"} \cup TerminalStages

\* The candidate's question comes first: one the rules recognise stays open
\* whatever a model answers, so that the funnel does not move on over it, and
\* while one is open no model's reply asks the question of another stage
\* (contains_other_stage_question).
QuestionFirst ==
  /\ phase # "reading" /\ Det.open /\ ~GenericInterrupt(Det) => semantic.open
  /\ phase = "done" /\ semantic.open => "foreign" \notin reply.parts

=============================================================================
