--------------------------- MODULE AnalysedTurnProofs ---------------------------
(***************************************************************************)
(* Proofs about AnalysedTurn, for every message, every answer a model's     *)
(* schema admits and every setting: first what the rules read, then what is *)
(* left of it under a model's answer, then the turn, and last that every    *)
(* turn ends in a decision FunnelDialog foresees.                           *)
(***************************************************************************)
EXTENDS AnalysedTurn, FiniteSetTheorems, TLAPS

(***************************************************************************)
(* The rules.                                                               *)
(***************************************************************************)

\* An open reading of the rules is neither an answer nor a partial one, and none says
\* two things of one field.
Sound(d) ==
  /\ d \in SemanticResult
  /\ d.open => ~d.satisfied /\ d.type # "partial_answer"
  /\ d.facts.yes \cap d.facts.no = {}

\* The readings the rules are built from are sound.
LEMMA ReadingsSound ==
  ASSUME NEW m, NEW yes \in SUBSET Fields, NEW no \in SUBSET Fields, yes \cap no = {},
         NEW topics \in SUBSET SpecificTopics
  PROVE  /\ Sound(StageAnswer(m, yes, no))
         /\ Sound(PartialAnswer(yes, topics))
         /\ Sound(PartialOrObjection(yes, no))
         /\ \A open \in BOOLEAN : Sound(Unclear(open, topics))
         /\ \A type \in {"hard_refusal", "do_not_contact"} : Sound(Refusal(type))
<1>1. TopicsOf(m) \in SUBSET SpecificTopics
  BY DEF TopicsOf, SpecificTopics
<1>2. \A facts \in [yes : SUBSET Fields, no : SUBSET Fields],
         type \in MessageTypes, satisfied, open \in BOOLEAN, itype \in InterruptTypes,
         topic \in Topics, ts \in SUBSET SpecificTopics :
        Reading(type, satisfied, open, itype, topic, ts, facts) \in SemanticResult
  BY DEF Reading, SemanticResult
<1>3. \A a, b \in SUBSET Fields : FactsOf(a, b) \in [yes : SUBSET Fields, no : SUBSET Fields]
  BY DEF FactsOf
<1>4. /\ FactsOf(yes, no) \in [yes : SUBSET Fields, no : SUBSET Fields]
      /\ FactsOf(yes, {}) \in [yes : SUBSET Fields, no : SUBSET Fields]
      /\ NoFacts \in [yes : SUBSET Fields, no : SUBSET Fields]
  BY <1>3 DEF NoFacts
<1>10. /\ FactsOf(yes, no).yes \cap FactsOf(yes, no).no = {}
       /\ FactsOf(yes, {}).yes \cap FactsOf(yes, {}).no = {}
       /\ NoFacts.yes \cap NoFacts.no = {}
  BY DEF FactsOf, NoFacts
<1>5. Sound(StageAnswer(m, yes, no))
  <2>1. /\ ~StageAnswer(m, yes, no).open
        /\ StageAnswer(m, yes, no).facts = FactsOf(yes, no)
    BY DEF StageAnswer, Reading
  <2>2. StageAnswer(m, yes, no) \in SemanticResult
    BY <1>1, <1>2, <1>4 DEF StageAnswer, Reading, MessageTypes, InterruptTypes, Topics, NoTopic
  <2> QED BY <1>10, <2>1, <2>2 DEF Sound
<1>6. Sound(PartialAnswer(yes, topics))
  <2>1. /\ ~PartialAnswer(yes, topics).open
        /\ PartialAnswer(yes, topics).facts = FactsOf(yes, {})
    BY DEF PartialAnswer, Reading
  <2>2. PartialAnswer(yes, topics) \in SemanticResult
    BY <1>2, <1>4 DEF PartialAnswer, Reading, MessageTypes, InterruptTypes, Topics, NoTopic
  <2> QED BY <1>10, <2>1, <2>2 DEF Sound
<1>7. Sound(PartialOrObjection(yes, no))
  BY <1>2, <1>4, <1>10 DEF Sound, PartialOrObjection, Reading, MessageTypes, InterruptTypes, Topics,
                    SpecificTopics
<1>8. \A open \in BOOLEAN : Sound(Unclear(open, topics))
  BY <1>2, <1>4, <1>10 DEF Sound, Unclear, Reading, MessageTypes, InterruptTypes, Topics, NoTopic
<1>9. \A type \in {"hard_refusal", "do_not_contact"} : Sound(Refusal(type))
  BY <1>2, <1>4, <1>10 DEF Sound, Refusal, Reading, MessageTypes, InterruptTypes, Topics,
                    SpecificTopics
<1> QED BY <1>5, <1>6, <1>7, <1>8, <1>9 DEF Sound

\* The same for all of them at once.
LEMMA EveryReadingSound ==
  ASSUME NEW m
  PROVE  /\ \A yes, no \in SUBSET Fields : yes \cap no = {} =>
              Sound(StageAnswer(m, yes, no)) /\ Sound(PartialOrObjection(yes, no))
         /\ \A yes \in SUBSET Fields, topics \in SUBSET SpecificTopics : Sound(PartialAnswer(yes, topics))
         /\ \A open \in BOOLEAN, topics \in SUBSET SpecificTopics : Sound(Unclear(open, topics))
         /\ \A type \in {"hard_refusal", "do_not_contact"} : Sound(Refusal(type))
<1>1. {} \in SUBSET Fields /\ {} \in SUBSET SpecificTopics /\ {} \cap {} = {}
  OBVIOUS
<1>2. \A yes \in SUBSET Fields : yes \cap {} = {}
  OBVIOUS
<1>3. \A yes, no \in SUBSET Fields : yes \cap no = {} =>
         Sound(StageAnswer(m, yes, no)) /\ Sound(PartialOrObjection(yes, no))
  BY <1>1, ReadingsSound
<1>4. \A yes \in SUBSET Fields, topics \in SUBSET SpecificTopics : Sound(PartialAnswer(yes, topics))
  BY <1>1, <1>2, ReadingsSound
<1>5. \A open \in BOOLEAN, topics \in SUBSET SpecificTopics : Sound(Unclear(open, topics))
  BY <1>1, ReadingsSound
<1>6. \A type \in {"hard_refusal", "do_not_contact"} : Sound(Refusal(type))
  BY <1>1, ReadingsSound
<1> QED BY <1>3, <1>4, <1>5, <1>6

\* So is each stage's reading.
LEMMA StageReadingSound ==
  ASSUME NEW m, NEW s PROVE Sound(ReadForStage(m, s))
<1>1. /\ \A yes, no \in SUBSET Fields : yes \cap no = {} =>
           Sound(StageAnswer(m, yes, no)) /\ Sound(PartialOrObjection(yes, no))
      /\ \A yes \in SUBSET Fields, topics \in SUBSET SpecificTopics : Sound(PartialAnswer(yes, topics))
      /\ \A open \in BOOLEAN, topics \in SUBSET SpecificTopics : Sound(Unclear(open, topics))
      /\ \A type \in {"hard_refusal", "do_not_contact"} : Sound(Refusal(type))
  BY EveryReadingSound
<1>2. {} \in SUBSET SpecificTopics /\ {"faq"} \in SUBSET SpecificTopics
      /\ {"faq", "concern"} \in SUBSET SpecificTopics
  BY DEF SpecificTopics
<1>3. Sound(NoReading) /\ Sound(WantsBooking(m))
  BY <1>1, <1>2 DEF NoReading, WantsBooking, Fields
<1>4. \A field \in Fields : Sound(InterestIn(m, field))
  BY <1>1, <1>3 DEF InterestIn, Fields
<1>5. Sound(ReadAge(m))
  BY <1>1, <1>3 DEF ReadAge, Fields
<1>6. Sound(ReadQuestionsLeft(m))
  <2>1. TopicsOf(m) \in SUBSET SpecificTopics /\ FirstTopic(TopicsOf(m)) \in SpecificTopics
    BY DEF TopicsOf, FirstTopic, SpecificTopics
  <2>2. \A type \in {"objection", "interrupt_question"}, itype \in {"objection", "question"} :
          Sound(Reading(type, FALSE, TRUE, itype, FirstTopic(TopicsOf(m)), TopicsOf(m), NoFacts))
    BY <2>1 DEF Sound, Reading, SemanticResult, MessageTypes, InterruptTypes, Topics, NoFacts,
                FactsOf
  <2> QED BY <1>1, <1>3, <2>2 DEF ReadQuestionsLeft, Fields
<1>7. Sound(ReadProfile(m)) /\ Sound(ReadRoom(m)) /\ Sound(ReadPhoneModel(m))
  BY <1>1, <1>2, <1>3 DEF ReadProfile, ReadRoom, ReadPhoneModel, Fields
<1>8. Sound(ReadContact(m))
  BY <1>1, <1>2, <1>3 DEF ReadContact, Fields
<1>9. Sound(ReadDay(m)) /\ Sound(ReadTime(m))
  BY <1>1, <1>3 DEF ReadDay, ReadTime, Fields
<1>10. Sound(ReadCustomTime(m))
  BY <1>1, <1>2, <1>3 DEF ReadCustomTime, Fields
<1> QED BY <1>3, <1>4, <1>5, <1>6, <1>7, <1>8, <1>9, <1>10 DEF ReadForStage, Fields

\* And so is the whole.
LEMMA DetSound ==
  ASSUME NEW m \in AllMessages, NEW s PROVE Sound(DeterministicSemantic(m, s))
<1>1. \A open \in BOOLEAN, topics \in SUBSET SpecificTopics : Sound(Unclear(open, topics))
  BY EveryReadingSound
<1>2. \A type \in {"hard_refusal", "do_not_contact"} : Sound(Refusal(type))
  BY EveryReadingSound
<1>3. TopicsOf(m) \in SUBSET SpecificTopics /\ {} \in SUBSET SpecificTopics
      /\ FirstTopic(TopicsOf(m)) \in SpecificTopics
  BY DEF TopicsOf, FirstTopic, SpecificTopics
<1>4. Sound(ReadInterrupt(m, s))
  <2>1. AgreedFacts(m, s) \in [yes : SUBSET Fields, no : SUBSET Fields]
    BY DEF AgreedFacts, NoFacts, FactsOf, Fields
  <2>2. AgreedFacts(m, s).yes \cap AgreedFacts(m, s).no = {}
    BY DEF AgreedFacts, NoFacts, FactsOf
  <2> HIDE DEF AgreedFacts
  <2> QED BY <1>3, <2>1, <2>2 DEF ReadInterrupt, Sound, Reading, SemanticResult, MessageTypes,
                                 InterruptTypes, Topics
<1>5. Sound(Reading("empty", FALSE, FALSE, "none", NoTopic, {}, NoFacts))
  BY DEF Sound, Reading, SemanticResult, MessageTypes, InterruptTypes, Topics, NoTopic,
         NoFacts, FactsOf
<1>6. Sound(Reading("pause", FALSE, TRUE, "pause", "concern", {"concern"}, NoFacts))
  BY DEF Sound, Reading, SemanticResult, MessageTypes, InterruptTypes, Topics, SpecificTopics,
         NoFacts, FactsOf
<1> QED BY <1>1, <1>2, <1>3, <1>4, <1>5, <1>6, StageReadingSound DEF DeterministicSemantic

(***************************************************************************)
(* A refusal, an age below 18 and a pause: readings no model undoes.        *)
(***************************************************************************)
HardReadings ==
  {Refusal("do_not_contact"), Refusal("hard_refusal"),
   Reading("pause", FALSE, TRUE, "pause", "concern", {"concern"}, NoFacts)}

\* A message with the stop cue reads as do_not_contact in any stage.
LEMMA StopIsRead ==
  ASSUME NEW m \in AllMessages, NEW s, "stop" \in m.cues
  PROVE  DeterministicSemantic(m, s) = Refusal("do_not_contact")
<1>1. m.form # "empty"
  BY DEF AllMessages, FormCues
<1> QED BY <1>1 DEF DeterministicSemantic, Has

\* A number from 14 to 17 where the age is asked for is read as one of them.
LEMMA MinorIsRead ==
  ASSUME NEW m \in AllMessages, m.number \in 14 .. 17
  PROVE  DeterministicSemantic(m, "age_check") \in HardReadings
<1>1. m.form = "plain" /\ m.number \in Nat
  BY DEF AllMessages, NoNumber
<1>2. ReadForStage(m, "age_check") = Refusal("hard_refusal")
  BY <1>1 DEF ReadForStage, ReadAge, NamesAge
<1>3. Refusal("hard_refusal") # NoReading
  BY DEF Refusal, NoReading, Unclear, Reading
<1> QED BY <1>1, <1>2, <1>3 DEF DeterministicSemantic, HardReadings

(***************************************************************************)
(* The merge with a model's reading.                                        *)
(***************************************************************************)

\* An open question the rules recognise stays open.
LEMMA MergeKeepsOpen ==
  ASSUME NEW m, NEW llm \in SemanticResult, NEW det, Sound(det), NEW s, NEW p,
         det.open, ~GenericInterrupt(det)
  PROVE  MergeDeterministicFacts(m, llm, det, s, p).open
<1> DEFINE class == MergedClass(m, llm, det)
           whole == [class EXCEPT !.facts = MergedFacts(llm.facts, det.facts),
                                  !.topics = MergedTopics(llm, det)]
           forced == EnforceRequirement(whole, s, p)
<1>1. ~OverridesPartial(m, det) /\ ~ClearsUnclear(llm, det) /\ OverridesInterrupt(llm, det)
  BY DEF Sound, OverridesPartial, ClearsUnclear, OverridesInterrupt
<1>2. class = [llm EXCEPT !.type = det.type, !.satisfied = FALSE, !.open = TRUE,
                          !.itype = det.itype, !.topic = StrongerTopic(llm, det)]
  BY <1>1 DEF MergedClass
<1>3. class.open = TRUE /\ class.satisfied = FALSE
      /\ DOMAIN class = {"type", "satisfied", "open", "itype", "topic", "topics", "facts"}
  BY <1>2 DEF SemanticResult
<1> HIDE DEF class
<1>4. whole.open = TRUE /\ whole.satisfied = FALSE
      /\ DOMAIN whole = {"type", "satisfied", "open", "itype", "topic", "topics", "facts"}
  BY <1>3
<1> HIDE DEF whole
<1>5. forced = whole
  BY <1>4 DEF EnforceRequirement
<1>6. Normalized(forced).open = TRUE
  BY <1>4, <1>5 DEF Normalized
<1> QED BY <1>6 DEF MergeDeterministicFacts, whole, class

\* A hard reading keeps its type and its kind.
LEMMA MergeKeepsHard ==
  ASSUME NEW m, NEW llm \in SemanticResult, NEW det \in HardReadings, NEW s, NEW p
  PROVE  LET r == MergeDeterministicFacts(m, llm, det, s, p)
         IN  r.type = det.type /\ r.open /\ r.itype = det.itype
<1> DEFINE class == MergedClass(m, llm, det)
           whole == [class EXCEPT !.facts = MergedFacts(llm.facts, det.facts),
                                  !.topics = MergedTopics(llm, det)]
           forced == EnforceRequirement(whole, s, p)
<1>1. /\ det.open /\ ~det.satisfied /\ det.type \in {"do_not_contact", "hard_refusal", "pause"}
      /\ det.itype \in {"refusal", "pause"} /\ det.topic \in {"faq", "concern"}
  BY DEF HardReadings, Refusal, Reading
<1>2. ~GenericInterrupt(det)
  BY <1>1 DEF GenericInterrupt, HasSpecificTopic, SpecificTopics
<1>3. ~OverridesPartial(m, det) /\ ~ClearsUnclear(llm, det) /\ OverridesInterrupt(llm, det)
  BY <1>1, <1>2 DEF OverridesPartial, ClearsUnclear, OverridesInterrupt
<1>4. class = [llm EXCEPT !.type = det.type, !.satisfied = FALSE, !.open = TRUE,
                          !.itype = det.itype, !.topic = StrongerTopic(llm, det)]
  BY <1>3 DEF MergedClass
<1>5. class.open = TRUE /\ class.satisfied = FALSE
      /\ class.type = det.type /\ class.itype = det.itype
      /\ DOMAIN class = {"type", "satisfied", "open", "itype", "topic", "topics", "facts"}
  BY <1>4 DEF SemanticResult
<1> HIDE DEF class
<1>6. whole.open = TRUE /\ whole.satisfied = FALSE
      /\ whole.type = det.type /\ whole.itype = det.itype
  BY <1>5
<1> HIDE DEF whole
<1>7. forced = whole
  BY <1>6 DEF EnforceRequirement
<1>8. Normalized(forced) = whole
  BY <1>1, <1>6, <1>7 DEF Normalized
<1> QED BY <1>6, <1>8 DEF MergeDeterministicFacts, whole, class

(***************************************************************************)
(* The reply.                                                               *)
(***************************************************************************)

\* The rules ask no question of another stage.
LEMMA RulesAskOwn ==
  ASSUME NEW r PROVE "foreign" \notin DeterministicReply(r).parts
<1>1. \A send, parts : Text(send, parts).parts = parts
  BY DEF Text
<1>2. "foreign" \notin AskAgain /\ "foreign" \notin {"words"} \cup AskAgain
  BY DEF AskAgain
<1>3. "foreign" \notin {} /\ "foreign" \notin {"words"}
  OBVIOUS
<1>4. CASE r.type = "empty"
  BY <1>1, <1>3, <1>4 DEF DeterministicReply
<1>5. CASE r.type = "do_not_contact"
  <2>1. DeterministicReply(r) = Text(FALSE, {})
    BY <1>5 DEF DeterministicReply
  <2> QED BY <1>3, <2>1 DEF Text
<1>6. CASE r.type \in {"hard_refusal", "pause"}
  BY <1>1, <1>3, <1>6 DEF DeterministicReply
<1>7. CASE r.type \notin {"empty", "do_not_contact", "hard_refusal", "pause"}
  <2>1. \/ DeterministicReply(r) = Text(FALSE, {})
        \/ DeterministicReply(r) = Text(TRUE, {})
        \/ DeterministicReply(r) = Text(TRUE, {"words"})
        \/ DeterministicReply(r) = Text(TRUE, {"words"} \cup AskAgain)
        \/ DeterministicReply(r) = Text(TRUE, AskAgain)
    BY <1>7 DEF DeterministicReply, Continue
  <2> HIDE DEF AskAgain
  <2> QED BY <1>2, <1>3, <2>1 DEF Text
<1> QED BY <1>4, <1>5, <1>6, <1>7

\* While a question is open, neither does what is left of a model's reply.
LEMMA ModelAsksOwn ==
  ASSUME NEW a \in ReplyResult, NEW r, r.open
  PROVE  "foreign" \notin FromModel(a, r).parts
<1> DEFINE b == Sanitized(a)
<1>1. b \in ReplyResult
  BY DEF Sanitized, ReplyResult
<1>2. "foreign" \notin [Text(TRUE, AskAgain) EXCEPT !.handoff = b.handoff].parts
  BY DEF Text, AskAgain
<1>3. "foreign" \in b.parts \/ "foreign" \notin Kept(b, r).parts
  BY RulesAskOwn DEF Kept
<1> HIDE DEF b
<1> QED BY <1>2, <1>3, RulesAskOwn DEF FromModel, Guarded, b

(***************************************************************************)
(* The turn.                                                                *)
(***************************************************************************)
Inv ==
  /\ msg \in AllMessages
  /\ phase \in {"reading", "replying", "done"}
  /\ phase # "reading" =>
       \/ semantic = Det
       \/ \E llm \in SemanticResult :
            semantic = MergeDeterministicFacts(msg, llm, Det, stage, profile)
  /\ phase = "done" /\ semantic.open => "foreign" \notin reply.parts

\* A turn starts with a message of a candidate.
LEMMA InitInv == Init => Inv
BY TurnConstantsOK DEF Init, Inv

\* Each step of the analyzer and of the orchestrator keeps the invariant.
LEMMA NextInv == Inv /\ [Next]_vars => Inv'
<1> SUFFICES ASSUME Inv, [Next]_vars PROVE Inv'
  OBVIOUS
<1>1. ASSUME UNCHANGED given PROVE msg' = msg /\ Det' = Det /\ stage' = stage /\ profile' = profile
  BY <1>1 DEF given, Det
<1>2. ASSUME UNCHANGED given, UNCHANGED <<phase, semantic, reply>> PROVE Inv'
  BY <1>1, <1>2 DEF Inv
<1>3. ASSUME UNCHANGED given, semantic' = Det, phase' = "replying" PROVE Inv'
  BY <1>1, <1>3 DEF Inv
<1>4. ASSUME phase = "replying", phase' = "done", UNCHANGED given, semantic' = semantic,
             semantic.open => "foreign" \notin reply'.parts
      PROVE  Inv'
  BY <1>1, <1>4 DEF Inv
<1>5. CASE StartReading
  BY <1>2, <1>3, <1>5 DEF StartReading
<1>6. ASSUME NEW sure \in BOOLEAN, StartReply(sure) PROVE Inv'
  <2>1. CASE reply' = DeterministicReply(semantic) /\ phase' = "done"
    BY <1>4, <1>6, <2>1, RulesAskOwn DEF StartReply
  <2>2. CASE UNCHANGED <<reply, phase>>
    BY <1>2, <1>6, <2>2 DEF StartReply
  <2> QED BY <1>6, <2>1, <2>2 DEF StartReply
<1>7. CASE Retry
  BY <1>2, <1>7 DEF Retry
<1>8. CASE LoseCall
  <2>1. CASE CanFallBack
    BY <1>2, <1>8, <2>1 DEF LoseCall
  <2>2. CASE ~CanFallBack /\ phase = "reading"
    BY <1>3, <1>8, <2>2 DEF LoseCall, SettleByRules
  <2>3. CASE ~CanFallBack /\ phase = "replying"
    BY <1>4, <1>8, <2>3, RulesAskOwn DEF LoseCall, SettleByRules
  <2>4. CASE ~CanFallBack /\ phase = "done"
    BY <1>1, <1>8, <2>4, RulesAskOwn DEF LoseCall, SettleByRules, Inv
  <2> QED BY <2>1, <2>2, <2>3, <2>4 DEF Inv
<1>9. ASSUME NEW llm \in ModelReadings, ReadByModel(llm) PROVE Inv'
  BY <1>1, <1>9, TurnConstantsOK DEF ReadByModel, Inv
<1>10. ASSUME NEW a \in ModelReplies, ReplyByModel(a) PROVE Inv'
  BY <1>4, <1>10, ModelAsksOwn, TurnConstantsOK DEF ReplyByModel
<1>11. CASE UNCHANGED vars
  BY <1>2, <1>11 DEF vars
<1> QED BY <1>5, <1>6, <1>7, <1>8, <1>9, <1>10, <1>11 DEF Next

\* Inv holds in every reachable state.
LEMMA InvHolds == Spec => []Inv
BY InitInv, NextInv, PTL DEF Spec

\* For every message and whatever the models answer: the candidate's question
\* stays open, and no other stage's question is asked over it.
THEOREM TurnQuestionFirst == Spec => []QuestionFirst
<1>1. Inv => QuestionFirst
  BY DetSound, MergeKeepsOpen DEF Inv, QuestionFirst, Det
<1> QED BY <1>1, InvHolds, PTL

(***************************************************************************)
(* What the controller makes of a hard reading.                             *)
(***************************************************************************)

\* The wanted stage of a hard reading is the stage itself or a terminal one.
LEMMA HardOutcome ==
  ASSUME semantic.open, semantic.itype \in {"refusal", "pause"},
         semantic.type \in {"do_not_contact", "hard_refusal", "pause"},
         stage \in WaitingStages
  PROVE  /\ Outcome.stage \in {stage} \cup TerminalStages
         /\ semantic.type = "do_not_contact" =>
              Outcome.stage = "do_not_contact" /\ ~Outcome.send
<1> DEFINE p == Dialog!Merged(AsSemantic)
           wanted == Dialog!WantedStage(AsSemantic, AsReply, p)
<1>1. /\ AsSemantic.interrupt = "other"
      /\ AsSemantic.type \in {"do_not_contact", "hard_refusal", "answer"}
      /\ semantic.type = "do_not_contact" => AsSemantic.type = "do_not_contact"
  BY DEF AsSemantic, Dialog!MessageTypes
<1>2. wanted \in {stage, "do_not_contact", "lost", "human_handoff"}
  BY <1>1 DEF Dialog!WantedStage
<1>3. Dialog!AdvancedStage(AsSemantic, wanted, p) = wanted
  BY <1>1 DEF Dialog!AdvancedStage
<1>4. Dialog!TransitionValid("do_not_contact", p)
  <2>1. /\ stage \notin Dialog!TerminalStages /\ stage \notin Dialog!ActionStages
        /\ "do_not_contact" \in Dialog!TerminalStages
    BY DEF WaitingStages, Dialog!TerminalStages, Dialog!ActionStages
  <2>2. Dialog!CanTransition(stage, "do_not_contact")
    BY <2>1 DEF Dialog!CanTransition, Dialog!AllowedTransitions
  <2> QED BY <2>1, <2>2 DEF Dialog!TransitionValid, Dialog!CanTransitionViaCompletedStages
<1>5. Outcome.stage = IF Dialog!TransitionValid(wanted, p) THEN wanted ELSE stage
  BY <1>3 DEF Outcome, Dialog!Decision
<1>6. ASSUME semantic.type = "do_not_contact"
      PROVE  Outcome.stage = "do_not_contact" /\ ~Outcome.send
  <2>1. wanted = "do_not_contact"
    BY <1>1, <1>6 DEF Dialog!WantedStage
  <2>2. Outcome.send = Dialog!SendReply(AsSemantic, AsReply, "do_not_contact", TRUE)
    BY <1>3, <1>4, <2>1 DEF Outcome, Dialog!Decision
  <2> QED BY <1>1, <1>4, <1>5, <1>6, <2>1, <2>2 DEF Dialog!SendReply
<1>7. Outcome.stage \in {stage} \cup TerminalStages
  BY <1>2, <1>5 DEF TerminalStages
<1> QED BY <1>6, <1>7

\* For every message and whatever the models answer: a request to be left alone
\* ends the dialog without a word, and a minor gets no further.
THEOREM TurnHardStopsHeld == Spec => []HardStopsHeld
<1>1. ASSUME Inv, phase = "done", Det \in HardReadings
      PROVE  semantic.type = Det.type /\ semantic.open /\ semantic.itype = Det.itype
  <2>1. Det.open
    BY <1>1 DEF HardReadings, Refusal, Reading
  <2> QED BY <1>1, <2>1, MergeKeepsHard DEF Inv
<1>2. Det \in HardReadings => /\ Det.type \in {"do_not_contact", "hard_refusal", "pause"}
                              /\ Det.itype \in {"refusal", "pause"}
  BY DEF HardReadings, Refusal, Reading
<1>3. ASSUME Inv, phase = "done", "stop" \in msg.cues
      PROVE  /\ semantic.type = "do_not_contact"
             /\ stage \in WaitingStages => Outcome.stage = "do_not_contact" /\ ~Outcome.send
  <2>1. Det = Refusal("do_not_contact")
    BY <1>3, StopIsRead DEF Inv, Det
  <2>2. Det \in HardReadings /\ Det.type = "do_not_contact"
    BY <2>1 DEF HardReadings, Refusal, Reading
  <2> QED BY <1>1, <1>2, <1>3, <2>2, HardOutcome
<1>4. ASSUME Inv, phase = "done", stage = "age_check", msg.number \in 14 .. 17
      PROVE  Outcome.stage \in {"age_check"} \cup TerminalStages
  <2>1. Det \in HardReadings
    BY <1>4, MinorIsRead DEF Inv, Det
  <2>2. stage \in WaitingStages
    BY <1>4 DEF WaitingStages
  <2> QED BY <1>1, <1>2, <1>4, <2>1, <2>2, HardOutcome
<1>5. Inv => HardStopsHeld
  BY <1>3, <1>4 DEF HardStopsHeld
<1> QED BY <1>5, InvHolds, PTL

(***************************************************************************)
(* The outcome is one that FunnelDialog foresees.                           *)
(***************************************************************************)

\* The facts of a message: fields told, each in one way.
FactsOK(f) == f \in [yes : SUBSET Fields, no : SUBSET Fields] /\ f.yes \cap f.no = {}

\* The merge leaves such facts, those of MergedFacts.
LEMMA MergeFacts ==
  ASSUME NEW m, NEW llm \in SemanticResult, NEW det \in SemanticResult, NEW s, NEW p
  PROVE  FactsOK(MergeDeterministicFacts(m, llm, det, s, p).facts)
<1> DEFINE class == MergedClass(m, llm, det)
           whole == [class EXCEPT !.facts = MergedFacts(llm.facts, det.facts),
                                  !.topics = MergedTopics(llm, det)]
           forced == EnforceRequirement(whole, s, p)
<1>1. FactsOK(MergedFacts(llm.facts, det.facts))
  BY DEF FactsOK, MergedFacts, FactsOf, SemanticResult
<1>2. DOMAIN class = {"type", "satisfied", "open", "itype", "topic", "topics", "facts"}
  BY DEF MergedClass, Closed, SemanticResult
<1> HIDE DEF class
<1>3. whole.facts = MergedFacts(llm.facts, det.facts)
  BY <1>2
<1> HIDE DEF whole
<1>4. forced.facts = whole.facts
  BY DEF EnforceRequirement
<1> HIDE DEF forced
<1>5. Normalized(forced).facts = forced.facts
  BY DEF Normalized
<1> QED BY <1>1, <1>3, <1>4, <1>5 DEF MergeDeterministicFacts, forced, whole, class

\* How the turn got its reply.
Replied ==
  /\ stage \in WaitingStages \cup TerminalStages
  /\ phase = "replying" /\ call # NoCall => semantic.type # "empty"
  /\ phase = "done" =>
       \/ reply = DeterministicReply(semantic)
       \/ /\ semantic.type # "empty"
          /\ \E a \in ReplyResult : reply = FromModel(a, semantic)

\* What the rules, or what is left of a model's reply, say of a reading stays the same
\* while the turn goes on.
LEMMA RepliesStay ==
  ASSUME UNCHANGED <<given, semantic>>
  PROVE  /\ DeterministicReply(semantic)' = DeterministicReply(semantic)
         /\ \A a \in ReplyResult : FromModel(a, semantic)' = FromModel(a, semantic)
<1>1. /\ stage' = stage /\ profile' = profile /\ awaiting' = awaiting /\ msg' = msg
      /\ semantic' = semantic
  BY DEF given
<1>2. DeterministicReply(semantic)' = DeterministicReply(semantic)
  BY <1>1 DEF DeterministicReply, WaitsAfterAck, AskAgain, Met
<1>3. ASSUME NEW a \in ReplyResult
      PROVE  FromModel(a, semantic)' = FromModel(a, semantic)
  BY <1>1 DEF FromModel, Guarded, Kept, Sanitized, DeterministicReply, WaitsAfterAck, AskAgain, Met
<1> QED BY <1>2, <1>3

\* A turn starts in a stage a dialog rests in, without a reply.
LEMMA InitReplied == Init => Replied
BY DEF Init, Replied

\* Each step of the turn keeps that.
LEMMA NextReplied == Replied /\ [Next]_vars => Replied'
<1> SUFFICES ASSUME Replied, [Next]_vars PROVE Replied'
  OBVIOUS
<1>1. ASSUME UNCHANGED given PROVE stage' = stage
  BY <1>1 DEF given
<1>2. ASSUME UNCHANGED <<given, phase, semantic, reply>>,
             phase' = "replying" /\ call' # NoCall => semantic.type # "empty"
      PROVE  Replied'
  BY <1>1, <1>2, RepliesStay DEF Replied
<1>3. ASSUME UNCHANGED given, phase' = "replying", call' = NoCall PROVE Replied'
  BY <1>1, <1>3 DEF Replied
<1>4. ASSUME UNCHANGED <<given, semantic>>, phase' = "done",
             \/ reply' = DeterministicReply(semantic)
             \/ /\ semantic.type # "empty"
                /\ \E a \in ReplyResult : reply' = FromModel(a, semantic)
      PROVE  Replied'
  BY <1>1, <1>4, RepliesStay DEF Replied
<1>5. CASE StartReading
  BY <1>2, <1>3, <1>5 DEF StartReading
<1>6. ASSUME NEW sure \in BOOLEAN, StartReply(sure) PROVE Replied'
  BY <1>2, <1>4, <1>6 DEF StartReply
<1>7. CASE Retry
  BY <1>2, <1>7 DEF Retry, Replied
<1>8. CASE LoseCall
  <2>1. CASE CanFallBack
    BY <1>2, <1>8, <2>1 DEF LoseCall, Replied
  <2>2. CASE ~CanFallBack /\ phase = "reading"
    BY <1>3, <1>8, <2>2 DEF LoseCall, SettleByRules
  <2>3. CASE ~CanFallBack /\ phase # "reading"
    BY <1>4, <1>8, <2>3 DEF LoseCall, SettleByRules
  <2> QED BY <2>1, <2>2, <2>3
<1>9. ASSUME NEW llm \in ModelReadings, ReadByModel(llm) PROVE Replied'
  BY <1>3, <1>9 DEF ReadByModel
<1>10. ASSUME NEW a \in ModelReplies, ReplyByModel(a) PROVE Replied'
  BY <1>4, <1>10, TurnConstantsOK DEF ReplyByModel, Replied
<1>11. CASE UNCHANGED vars
  BY <1>2, <1>11 DEF vars, Replied
<1> QED BY <1>5, <1>6, <1>7, <1>8, <1>9, <1>10, <1>11 DEF Next

\* So it holds in every reachable state.
LEMMA RepliedHolds == Spec => []Replied
BY InitReplied, NextReplied, PTL DEF Spec

\* There are finitely many fields.
LEMMA FieldsFinite == IsFiniteSet(Fields)
<1>1. /\ IsFiniteSet({"interest_confirmed"} \cup {"age_confirmed"} \cup {"age"})
      /\ IsFiniteSet({"salary_schedule_interest"} \cup {"questions_resolved"})
      /\ IsFiniteSet({"profile_info"} \cup {"room_available"} \cup {"phone_model"})
      /\ IsFiniteSet({"interview_interest"} \cup {"candidate_name"} \cup {"phone_number"})
      /\ IsFiniteSet({"interview_day_confirmed"} \cup {"interview_day"})
      /\ IsFiniteSet({"interview_time"} \cup {"custom_interview_datetime"})
  BY FS_Singleton, FS_Union
<1>2. Fields = (({"interest_confirmed"} \cup {"age_confirmed"} \cup {"age"})
                 \cup ({"salary_schedule_interest"} \cup {"questions_resolved"}))
               \cup (({"profile_info"} \cup {"room_available"} \cup {"phone_model"})
                 \cup ({"interview_interest"} \cup {"candidate_name"} \cup {"phone_number"}))
               \cup (({"interview_day_confirmed"} \cup {"interview_day"})
                 \cup ({"interview_time"} \cup {"custom_interview_datetime"}))
  BY DEF Fields
<1>3. \A S, T : IsFiniteSet(S) /\ IsFiniteSet(T) => IsFiniteSet(S \cup T)
  BY FS_Union
<1> QED BY <1>1, <1>2, <1>3

\* The controller is given facts a message can tell.
LEMMA FactsForeseen ==
  ASSUME FactsOK(semantic.facts) PROVE AsSemantic \in Dialog!Semantics(stage)
<1>1. \A S : Dialog!Cardinality(S) = Cardinality(S)
  BY DEF Dialog!Cardinality, Cardinality
<1>2. ASSUME NEW f, FactsOK(f) PROVE f \in Dialog!Facts(stage)
  <2>1. f.yes \cup f.no \in SUBSET Fields
    BY <1>2 DEF FactsOK
  <2>2. Cardinality(f.yes \cup f.no) <= Cardinality(Fields)
    BY <2>1, FieldsFinite, FS_Subset
  <2> QED BY <1>1, <1>2, <2>2 DEF Dialog!Facts, FactsOK
<1>3. AsSemantic.facts \in Dialog!Facts(stage)
  BY <1>2 DEF AsSemantic
<1>4. AsSemantic.type \in Dialog!MessageTypes /\ AsSemantic.interrupt \in Dialog!Interrupts
  BY DEF AsSemantic, Dialog!MessageTypes, Dialog!Interrupts
<1> QED BY <1>3, <1>4 DEF Dialog!Semantics, AsSemantic
\* FunnelDialog lays the facts over the profile as the analyzer does, and so agrees with
\* it on whether the stage is done.
LEMMA SameRequirement ==
  Dialog!StageRequirementMet(stage, Dialog!Merged(AsSemantic)) <=> Met(semantic)
<1>1. AsSemantic.facts = semantic.facts
  BY DEF AsSemantic
<1>2. Dialog!Merged(AsSemantic) = WithFacts(profile, semantic.facts)
  BY <1>1 DEF Dialog!Merged, WithFacts, Dialog!Fields, Fields
<1>3. Dialog!RequiredFields(stage) = RequiredFields(stage)
  BY DEF Dialog!RequiredFields, RequiredFields
<1> HIDE DEF AsSemantic
<1> QED BY <1>2, <1>3 DEF Dialog!StageRequirementMet, StageRequirementMet, Met

\* What FunnelDialog's Replies holds, case by case.
LEMMA RepliesForeseen ==
  ASSUME NEW sem, NEW met \in BOOLEAN,
         Dialog!StageRequirementMet(stage, Dialog!Merged(sem)) <=> met
  PROVE  /\ sem.type = "empty" => Dialog!Reply(TRUE, TRUE, FALSE) \in Dialog!Replies(sem)
         /\ sem.type = "do_not_contact" =>
              \A h \in BOOLEAN : Dialog!Reply(FALSE, FALSE, h) \in Dialog!Replies(sem)
         /\ sem.type \notin {"empty", "do_not_contact"} /\ sem.interrupt = "none" /\ met =>
              /\ Dialog!Reply(TRUE, FALSE, FALSE) \in Dialog!Replies(sem)
              /\ sem.type = "hard_refusal" =>
                   Dialog!Reply(TRUE, TRUE, FALSE) \in Dialog!Replies(sem)
              /\ Dialog!NeutralAckPossible(sem) =>
                   Dialog!Reply(FALSE, FALSE, FALSE) \in Dialog!Replies(sem)
         /\ sem.type = "partial_answer" /\ ~met =>
              \A h \in BOOLEAN : Dialog!Reply(TRUE, TRUE, h) \in Dialog!Replies(sem)
         /\ /\ sem.type \notin {"empty", "do_not_contact"}
            /\ sem.interrupt # "none" \/ ~met
            /\ sem.type # "partial_answer" \/ met
            => /\ \A b, h \in BOOLEAN : Dialog!Reply(b, b, h) \in Dialog!Replies(sem)
               /\ sem.interrupt = "none" =>
                    Dialog!Reply(TRUE, FALSE, FALSE) \in Dialog!Replies(sem)
<1>1. Dialog!CompletedByFields(sem) <=> sem.type # "empty" /\ sem.interrupt = "none" /\ met
  BY DEF Dialog!CompletedByFields
<1>2. \A b, h \in BOOLEAN : Dialog!Reply(b, b, h) \in Dialog!EitherWay(b, b)
  BY DEF Dialog!EitherWay
<1> HIDE DEF Dialog!CompletedByFields, Dialog!EitherWay, Dialog!Reply
<1>3. CASE sem.type = "empty"
  BY <1>1, <1>3 DEF Dialog!Replies
<1>4. CASE sem.type = "do_not_contact"
  BY <1>1, <1>2, <1>4 DEF Dialog!Replies
<1>5. CASE sem.type \notin {"empty", "do_not_contact"} /\ sem.interrupt = "none" /\ met
  BY <1>1, <1>5 DEF Dialog!Replies
<1>6. CASE sem.type = "partial_answer" /\ ~met
  BY <1>1, <1>2, <1>6 DEF Dialog!Replies
<1>7. CASE /\ sem.type \notin {"empty", "do_not_contact"}
           /\ sem.interrupt # "none" \/ ~met
           /\ sem.type # "partial_answer" \/ met
  <2>1. Dialog!Replies(sem) =
          Dialog!EitherWay(TRUE, TRUE) \cup Dialog!EitherWay(FALSE, FALSE)
            \cup (IF sem.interrupt = "none" THEN {Dialog!Reply(TRUE, FALSE, FALSE)} ELSE {})
    BY <1>1, <1>7 DEF Dialog!Replies
  <2>2. \A b, h \in BOOLEAN : Dialog!Reply(b, b, h) \in Dialog!Replies(sem)
    <3>1. \A h \in BOOLEAN : /\ Dialog!Reply(TRUE, TRUE, h) \in Dialog!Replies(sem)
                             /\ Dialog!Reply(FALSE, FALSE, h) \in Dialog!Replies(sem)
      BY <1>2, <2>1
    <3> QED BY <3>1
  <2> QED BY <1>7, <2>1, <2>2
<1> QED BY <1>3, <1>4, <1>5, <1>6, <1>7

\* The controller's decision on a request to be left alone does not depend on the reply.
LEMMA StopDecision ==
  ASSUME NEW sem, sem.type = "do_not_contact", NEW a, NEW b, a.handoff = b.handoff
  PROVE  Dialog!Decision(sem, a) = Dialog!Decision(sem, b)
<1> DEFINE p == Dialog!Merged(sem)
           wanted == Dialog!AdvancedStage(sem, "do_not_contact", p)
           valid == Dialog!TransitionValid(wanted, p)
           target == IF valid THEN wanted ELSE stage
<1>1. \A r : Dialog!WantedStage(sem, r, p) = "do_not_contact"
  BY DEF Dialog!WantedStage
<1>2. wanted = "do_not_contact"
  <2>1. Dialog!SkipOne("do_not_contact", p) = "do_not_contact"
    BY DEF Dialog!SkipOne, Dialog!WaitingStages
  <2> HIDE DEF p, Dialog!SkipOne
  <2>2. Dialog!Skip4("do_not_contact", p) = "do_not_contact"
    BY <2>1 DEF Dialog!Skip2, Dialog!Skip4
  <2> HIDE DEF Dialog!Skip4
  <2> QED BY <2>2 DEF Dialog!AdvancedStage, Dialog!AdvanceThroughCompletedWaitingStages
<1> HIDE DEF p, wanted
<1>3. \A r : Dialog!SendReply(sem, r, target, valid) = (~valid)
  BY DEF Dialog!SendReply
<1>4. Dialog!QuestionsAsked(sem, a, target, valid) = Dialog!QuestionsAsked(sem, b, target, valid)
  BY <1>2 DEF Dialog!QuestionsAsked, Dialog!WaitingStages
<1>5. Dialog!HandoffRequired(a) = Dialog!HandoffRequired(b)
  BY DEF Dialog!HandoffRequired
<1> HIDE DEF valid, target
<1> QED BY <1>1, <1>3, <1>4, <1>5 DEF Dialog!Decision, p, wanted, valid, target
\* The stages in the order of the funnel.
Place(s) ==
  CASE s = "interest_check" -> 1 [] s = "age_check" -> 2
    [] s = "work_intro_delivery" -> 3 [] s = "salary_schedule_offer" -> 4
    [] s = "salary_schedule_delivery" -> 5 [] s = "post_equipment_questions_check" -> 6
    [] s = "profile_theme_check" -> 7 [] s = "support_smalltalk" -> 8
    [] s = "room_available_check" -> 9 [] s = "equipment_phone_check" -> 10
    [] s = "interview_offer" -> 11 [] s = "contact_collection" -> 12
    [] s = "interview_day_check" -> 13
    [] s \in {"interview_time_check", "interview_custom_time"} -> 14
    [] OTHER -> 15

\* A completed stage is left for good: the loop over completed stages does not come back.
LEMMA LeftForGood ==
  ASSUME NEW s \in Dialog!WaitingStages, NEW p, Dialog!StageRequirementMet(s, p)
  PROVE  /\ Dialog!NextStageIfRequirementMet(s, p) # s
         /\ Dialog!AdvanceThroughCompletedWaitingStages(
              Dialog!NextStageIfRequirementMet(s, p), p) # s
<1>1. \A u : Place(u) \in 1 .. 15
  BY DEF Place
<1>2. ASSUME NEW u \in Dialog!WaitingStages
      PROVE  /\ Place(Dialog!NextStageIfCompleted(u)) > Place(u)
             /\ u = "interview_day_check" => Place("interview_custom_time") > Place(u)
  <2>1. /\ Place("interest_check") = 1 /\ Place("age_check") = 2
        /\ Place("work_intro_delivery") = 3 /\ Place("salary_schedule_offer") = 4
        /\ Place("salary_schedule_delivery") = 5
        /\ Place("post_equipment_questions_check") = 6
        /\ Place("profile_theme_check") = 7 /\ Place("support_smalltalk") = 8
        /\ Place("room_available_check") = 9 /\ Place("equipment_phone_check") = 10
        /\ Place("interview_offer") = 11 /\ Place("contact_collection") = 12
        /\ Place("interview_day_check") = 13 /\ Place("interview_time_check") = 14
        /\ Place("interview_custom_time") = 14 /\ Place("human_handoff") = 15
    BY DEF Place
  <2> HIDE DEF Place
  <2> QED BY <2>1 DEF Dialog!NextStageIfCompleted, Dialog!WaitingStages
<1>3. ASSUME NEW u PROVE Place(Dialog!SkipOne(u, p)) >= Place(u)
  BY <1>1, <1>2 DEF Dialog!SkipOne, Dialog!NextStageIfRequirementMet
<1>4. Place(Dialog!NextStageIfRequirementMet(s, p)) > Place(s)
  BY <1>2 DEF Dialog!NextStageIfRequirementMet
<1> HIDE DEF Place, Dialog!SkipOne, Dialog!NextStageIfRequirementMet
<1>5. ASSUME NEW u PROVE Place(Dialog!Skip2(u, p)) >= Place(u)
  BY <1>1, <1>3 DEF Dialog!Skip2
<1> HIDE DEF Dialog!Skip2
<1>6. ASSUME NEW u PROVE Place(Dialog!Skip4(u, p)) >= Place(u)
  BY <1>1, <1>5 DEF Dialog!Skip4
<1> HIDE DEF Dialog!Skip4
<1>7. ASSUME NEW u
      PROVE  Place(Dialog!AdvanceThroughCompletedWaitingStages(u, p)) >= Place(u)
  BY <1>1, <1>6 DEF Dialog!AdvanceThroughCompletedWaitingStages
<1> HIDE DEF Dialog!AdvanceThroughCompletedWaitingStages
<1> QED BY <1>1, <1>4, <1>7

\* When the facts complete the stage, it makes no difference whether the reply that is
\* not asked to hand over brings a text: the question asked is another stage's.
LEMMA CompletedDecision ==
  ASSUME NEW sem, sem.type = "answer", sem.interrupt = "none",
         Dialog!StageRequirementMet(stage, Dialog!Merged(sem))
  PROVE  Dialog!Decision(sem, Dialog!Reply(TRUE, TRUE, FALSE))
           = Dialog!Decision(sem, Dialog!Reply(TRUE, FALSE, FALSE))
<1> DEFINE a == Dialog!Reply(TRUE, TRUE, FALSE)
           b == Dialog!Reply(TRUE, FALSE, FALSE)
           p == Dialog!Merged(sem)
           wanted == Dialog!AdvancedStage(sem, Dialog!WantedStage(sem, a, p), p)
           valid == Dialog!TransitionValid(wanted, p)
           target == IF valid THEN wanted ELSE stage
<1>1. a.send = b.send /\ a.handoff = b.handoff
  BY DEF Dialog!Reply
<1> HIDE DEF a, b, p
<1>2. /\ Dialog!HandoffRequired(a) = Dialog!HandoffRequired(b)
      /\ Dialog!WantedStage(sem, a, p) = Dialog!WantedStage(sem, b, p)
  BY <1>1 DEF Dialog!HandoffRequired, Dialog!WantedStage
<1>3. ASSUME stage \in Dialog!WaitingStages PROVE wanted # stage
  <2>1. CASE Dialog!HandoffRequired(a)
    <3>1. Dialog!WantedStage(sem, a, p) = "human_handoff"
      BY <2>1 DEF Dialog!WantedStage
    <3>2. Dialog!SkipOne("human_handoff", p) = "human_handoff"
      BY DEF Dialog!SkipOne, Dialog!WaitingStages
    <3> HIDE DEF Dialog!SkipOne
    <3>3. Dialog!Skip4("human_handoff", p) = "human_handoff"
      BY <3>2 DEF Dialog!Skip2, Dialog!Skip4
    <3> HIDE DEF Dialog!Skip4
    <3>4. wanted = "human_handoff"
      BY <3>1, <3>3 DEF Dialog!AdvancedStage, Dialog!AdvanceThroughCompletedWaitingStages
    <3> QED BY <1>3, <3>4 DEF Dialog!WaitingStages
  <2>2. CASE ~Dialog!HandoffRequired(a)
    <3>1. Dialog!WantedStage(sem, a, p) = Dialog!NextStageIfRequirementMet(stage, p)
      BY <1>3, <2>2 DEF Dialog!WantedStage
    <3> DEFINE next == Dialog!NextStageIfRequirementMet(stage, p)
    <3>2. next # stage /\ Dialog!AdvanceThroughCompletedWaitingStages(next, p) # stage
      BY <1>3, LeftForGood DEF p
    <3>3. wanted = Dialog!AdvancedStage(sem, next, p)
      BY <3>1
    <3> HIDE DEF next
    <3> QED BY <3>2, <3>3 DEF Dialog!AdvancedStage
  <2> QED BY <2>1, <2>2
<1> HIDE DEF wanted
<1>4. Dialog!QuestionsAsked(sem, a, target, valid) = Dialog!QuestionsAsked(sem, b, target, valid)
  BY <1>3 DEF Dialog!QuestionsAsked
<1>5. Dialog!SendReply(sem, a, target, valid) = Dialog!SendReply(sem, b, target, valid)
  BY <1>1 DEF Dialog!SendReply
<1> HIDE DEF valid, target
<1>6. Dialog!Decision(sem, a) = Dialog!Decision(sem, b)
  BY <1>2, <1>4, <1>5 DEF Dialog!Decision, p, wanted, valid, target
<1> QED BY <1>6 DEF a, b
\* What the controller reads of a reading.
LEMMA TypesKept ==
  /\ AsSemantic.interrupt = "none" <=> ~semantic.open
  /\ \A t \in {"empty", "partial_answer", "hard_refusal", "do_not_contact"} :
       AsSemantic.type = t <=> semantic.type = t
  /\ semantic.type \notin {"empty", "partial_answer", "hard_refusal", "do_not_contact"} =>
       AsSemantic.type = "answer"
BY DEF AsSemantic, Dialog!MessageTypes

\* A reply the controller would be given, and FunnelDialog foresees.
Says(send, text, h) == Dialog!Reply(send, text, h)
Expected(a) ==
  \E r \in Dialog!Replies(AsSemantic) :
    Dialog!Decision(AsSemantic, r) = Dialog!Decision(AsSemantic, a)

\* The replies FunnelDialog foresees for the reading.
LEMMA ExpectedReplies ==
  ASSUME stage \in WaitingStages \cup TerminalStages
  PROVE  /\ semantic.type = "empty" => Expected(Says(TRUE, TRUE, FALSE))
         /\ semantic.type = "do_not_contact" =>
              \A send, text, h \in BOOLEAN : Expected(Says(send, text, h))
         /\ semantic.type \notin {"empty", "do_not_contact"} =>
              /\ semantic.open \/ ~Met(semantic) =>
                   \A h \in BOOLEAN : Expected(Says(TRUE, TRUE, h))
              /\ /\ semantic.open \/ ~Met(semantic)
                 /\ semantic.type # "partial_answer" \/ Met(semantic)
                 => \A h \in BOOLEAN : Expected(Says(FALSE, FALSE, h))
              /\ ~semantic.open /\ (semantic.type # "partial_answer" \/ Met(semantic)) =>
                   Expected(Says(TRUE, FALSE, FALSE))
              /\ semantic.type \in {"hard_refusal", "pause"} => Expected(Says(TRUE, TRUE, FALSE))
              /\ WaitsAfterAck(semantic) => Expected(Says(FALSE, FALSE, FALSE))
<1> DEFINE sem == AsSemantic
           met == Met(semantic)
<1>1. ASSUME NEW r \in Dialog!Replies(sem) PROVE Expected(r)
  BY <1>1 DEF Expected
<1>2. met \in BOOLEAN
  BY DEF Met, StageRequirementMet
<1>3. /\ sem.type = "empty" => Dialog!Reply(TRUE, TRUE, FALSE) \in Dialog!Replies(sem)
      /\ sem.type = "do_not_contact" =>
           \A h \in BOOLEAN : Dialog!Reply(FALSE, FALSE, h) \in Dialog!Replies(sem)
      /\ sem.type \notin {"empty", "do_not_contact"} /\ sem.interrupt = "none" /\ met =>
           /\ Dialog!Reply(TRUE, FALSE, FALSE) \in Dialog!Replies(sem)
           /\ sem.type = "hard_refusal" =>
                Dialog!Reply(TRUE, TRUE, FALSE) \in Dialog!Replies(sem)
           /\ Dialog!NeutralAckPossible(sem) =>
                Dialog!Reply(FALSE, FALSE, FALSE) \in Dialog!Replies(sem)
      /\ sem.type = "partial_answer" /\ ~met =>
           \A h \in BOOLEAN : Dialog!Reply(TRUE, TRUE, h) \in Dialog!Replies(sem)
      /\ /\ sem.type \notin {"empty", "do_not_contact"}
         /\ sem.interrupt # "none" \/ ~met
         /\ sem.type # "partial_answer" \/ met
         => /\ \A b, h \in BOOLEAN : Dialog!Reply(b, b, h) \in Dialog!Replies(sem)
            /\ sem.interrupt = "none" =>
                 Dialog!Reply(TRUE, FALSE, FALSE) \in Dialog!Replies(sem)
  BY <1>2, SameRequirement, RepliesForeseen
<1>4. /\ sem.interrupt = "none" <=> ~semantic.open
      /\ \A t \in {"empty", "partial_answer", "hard_refusal", "do_not_contact"} :
           sem.type = t <=> semantic.type = t
      /\ semantic.type \notin {"empty", "partial_answer", "hard_refusal", "do_not_contact"} =>
           sem.type = "answer"
  BY TypesKept
<1>5. WaitsAfterAck(semantic) => Dialog!NeutralAckPossible(sem) /\ ~semantic.open
  <2>1. stage # "none"
    BY DEF WaitingStages, TerminalStages
  <2> QED BY <1>4, <2>1 DEF WaitsAfterAck, Dialog!NeutralAckPossible, Dialog!NoStage
<1>6. ASSUME semantic.type = "do_not_contact", NEW send \in BOOLEAN, NEW text \in BOOLEAN,
             NEW h \in BOOLEAN
      PROVE  Expected(Says(send, text, h))
  <2>1. Dialog!Reply(FALSE, FALSE, h).handoff = Dialog!Reply(send, text, h).handoff
    BY DEF Dialog!Reply
  <2>2. Dialog!Decision(sem, Dialog!Reply(FALSE, FALSE, h))
          = Dialog!Decision(sem, Dialog!Reply(send, text, h))
    BY <1>4, <1>6, <2>1, StopDecision
  <2>3. Dialog!Reply(FALSE, FALSE, h) \in Dialog!Replies(sem)
    BY <1>3, <1>4, <1>6
  <2> QED BY <2>2, <2>3 DEF Expected, Says
<1>7. ASSUME semantic.type = "pause" PROVE Expected(Says(TRUE, TRUE, FALSE))
  <2>1. CASE sem.interrupt = "none" /\ met
    <3>1. Dialog!Decision(sem, Dialog!Reply(TRUE, TRUE, FALSE))
            = Dialog!Decision(sem, Dialog!Reply(TRUE, FALSE, FALSE))
      BY <1>4, <1>7, <2>1, SameRequirement, CompletedDecision
    <3>2. Dialog!Reply(TRUE, FALSE, FALSE) \in Dialog!Replies(sem)
      BY <1>3, <1>4, <1>7, <2>1
    <3> QED BY <3>1, <3>2 DEF Expected, Says
  <2>2. CASE sem.interrupt # "none" \/ ~met
    BY <1>1, <1>3, <1>4, <1>7, <2>2 DEF Says
  <2> QED BY <2>1, <2>2
<1> HIDE DEF sem, met, Expected
<1>8. semantic.type = "empty" => Expected(Says(TRUE, TRUE, FALSE))
  BY <1>1, <1>3, <1>4 DEF Says
<1>9. ASSUME semantic.type \notin {"empty", "do_not_contact"}, semantic.open \/ ~met
      PROVE  /\ \A h \in BOOLEAN : Expected(Says(TRUE, TRUE, h))
             /\ semantic.type # "partial_answer" \/ met =>
                  \A h \in BOOLEAN : Expected(Says(FALSE, FALSE, h))
  BY <1>1, <1>3, <1>4, <1>9 DEF Says
<1>10. ASSUME semantic.type \notin {"empty", "do_not_contact"}, ~semantic.open,
              semantic.type # "partial_answer" \/ met
       PROVE  Expected(Says(TRUE, FALSE, FALSE))
  BY <1>1, <1>3, <1>4, <1>10 DEF Says
<1>11. ASSUME semantic.type = "hard_refusal" PROVE Expected(Says(TRUE, TRUE, FALSE))
  BY <1>1, <1>3, <1>4, <1>11 DEF Says
<1>12. ASSUME semantic.type \notin {"empty", "do_not_contact"}, WaitsAfterAck(semantic)
       PROVE  Expected(Says(FALSE, FALSE, FALSE))
  <2>1. semantic.type = "unclear" /\ ~semantic.open
    BY <1>12 DEF WaitsAfterAck
  <2> QED BY <1>1, <1>3, <1>4, <1>5, <1>9, <1>12, <2>1 DEF Says
<1> QED BY <1>6, <1>7, <1>8, <1>9, <1>10, <1>11, <1>12 DEF met
\* A reply of the rules is foreseen.
LEMMA RulesExpected ==
  ASSUME stage \in WaitingStages \cup TerminalStages,
         reply = DeterministicReply(semantic)
  PROVE  Expected(AsReply)
<1>1. ~Met(semantic) => AskAgain = {"question"}
  BY DEF AskAgain, Met, StageRequirementMet, RequiredFields, WaitingStages, TerminalStages
<1>2. \A send, parts : reply = Text(send, parts) => AsReply = Says(send, parts # {}, FALSE)
  BY DEF Text, AsReply, Says, Dialog!Reply
<1>3. CASE semantic.type = "empty"
  <2>1. reply = Text(TRUE, {"words"})
    BY <1>3 DEF DeterministicReply
  <2> QED BY <1>2, <1>3, <2>1, ExpectedReplies
<1>4. CASE semantic.type = "do_not_contact"
  <2>1. reply = Text(FALSE, {})
    BY <1>4 DEF DeterministicReply
  <2> QED BY <1>2, <1>4, <2>1, ExpectedReplies
<1>5. CASE semantic.type \in {"hard_refusal", "pause"}
  <2>1. reply = Text(TRUE, {"words"})
    BY <1>5 DEF DeterministicReply
  <2> QED BY <1>2, <1>5, <2>1, ExpectedReplies
<1>6. CASE semantic.type \notin {"empty", "do_not_contact", "hard_refusal", "pause"}
  <2>1. CASE WaitsAfterAck(semantic)
    <3>1. reply = Text(FALSE, {})
      BY <1>6, <2>1 DEF DeterministicReply
    <3> QED BY <1>2, <1>6, <2>1, <3>1, ExpectedReplies
  <2>2. CASE ~WaitsAfterAck(semantic) /\ semantic.open
    <3>1. \E parts : reply = Text(TRUE, parts) /\ parts # {}
      BY <1>6, <2>2 DEF DeterministicReply
    <3>2. AsReply = Says(TRUE, TRUE, FALSE)
      BY <1>2, <3>1
    <3> QED BY <1>6, <2>2, <3>2, ExpectedReplies
  <2>3. CASE /\ ~WaitsAfterAck(semantic) /\ ~semantic.open
             /\ semantic.type = "partial_answer" /\ ~Met(semantic)
    <3>1. reply = Text(TRUE, {"question"})
      BY <1>1, <1>6, <2>3 DEF DeterministicReply
    <3> QED BY <1>2, <1>6, <2>3, <3>1, ExpectedReplies
  <2>4. CASE /\ ~WaitsAfterAck(semantic) /\ ~semantic.open
             /\ semantic.type # "partial_answer" \/ Met(semantic)
    <3>1. reply = Text(TRUE, {})
      BY <1>6, <2>4 DEF DeterministicReply, Continue
    <3> QED BY <1>2, <1>6, <2>4, <3>1, ExpectedReplies
  <2> QED BY <2>1, <2>2, <2>3, <2>4
<1> QED BY <1>3, <1>4, <1>5, <1>6

\* So is what is left of a model's.
LEMMA ModelExpected ==
  ASSUME stage \in WaitingStages \cup TerminalStages, semantic.type # "empty",
         NEW a \in ReplyResult, reply = FromModel(a, semantic)
  PROVE  Expected(AsReply)
<1> DEFINE b == Sanitized(a)
<1>1. /\ b \in ReplyResult
      /\ ~b.send => b.parts = {}
  BY DEF Sanitized, ReplyResult
<1>2. reply = Guarded(b, semantic)
  BY DEF FromModel
<1> HIDE DEF b
<1>3. CASE reply = DeterministicReply(semantic)
  BY <1>3, RulesExpected
<1>4. CASE ~Met(semantic) /\ reply = [Text(TRUE, AskAgain) EXCEPT !.handoff = b.handoff]
           /\ (~semantic.open \/ semantic.type = "partial_answer")
  <2>1. AskAgain # {}
    BY <1>4 DEF AskAgain, Met, StageRequirementMet, RequiredFields, WaitingStages, TerminalStages
  <2>2. AsReply = Says(TRUE, TRUE, b.handoff) /\ b.handoff \in BOOLEAN
    BY <1>1, <1>4, <2>1 DEF AsReply, Says, Dialog!Reply, Text, ReplyResult
  <2> QED BY <1>4, <2>2, ExpectedReplies
<1>5. CASE ~semantic.open /\ reply = Continue
           /\ (semantic.type # "partial_answer" \/ Met(semantic))
  <2>1. \A send, parts : reply = Text(send, parts) => AsReply = Says(send, parts # {}, FALSE)
    BY DEF Text, AsReply, Says, Dialog!Reply
  <2>2. reply = Text(TRUE, {})
    BY <1>5 DEF Continue
  <2> QED BY <1>5, <2>1, <2>2, ExpectedReplies
<1>6. CASE /\ reply = b /\ (b.send => b.parts # {})
           /\ semantic.open \/ ~Met(semantic)
           /\ semantic.type # "partial_answer" \/ Met(semantic)
  <2>1. CASE b.send
    <3>1. AsReply = Says(TRUE, TRUE, b.handoff) /\ b.handoff \in BOOLEAN
      BY <1>1, <1>6, <2>1 DEF AsReply, Says, Dialog!Reply, ReplyResult
    <3> QED BY <1>6, <3>1, ExpectedReplies
  <2>2. CASE ~b.send
    <3>1. AsReply = Says(FALSE, FALSE, b.handoff) /\ b.handoff \in BOOLEAN
      BY <1>1, <1>6, <2>2 DEF AsReply, Says, Dialog!Reply, ReplyResult
    <3> QED BY <1>6, <3>1, ExpectedReplies
  <2> QED BY <2>1, <2>2
<1> HIDE DEF Text, Continue
<1>7. \/ reply = DeterministicReply(semantic)
      \/ /\ ~Met(semantic) /\ reply = [Text(TRUE, AskAgain) EXCEPT !.handoff = b.handoff]
         /\ ~semantic.open \/ semantic.type = "partial_answer"
      \/ /\ ~semantic.open /\ reply = Continue
         /\ semantic.type # "partial_answer" \/ Met(semantic)
      \/ /\ reply = b /\ (b.send => b.parts # {})
         /\ semantic.open \/ ~Met(semantic)
         /\ semantic.type # "partial_answer" \/ Met(semantic)
  BY <1>2 DEF Guarded, Kept
<1> QED BY <1>3, <1>4, <1>5, <1>6, <1>7

\* For every message and whatever the models answer, the controller decides on an outcome
\* FunnelDialog lets it decide on.
THEOREM TurnForeseen == Spec => []Foreseen
<1>1. ASSUME Inv, phase = "done" PROVE FactsOK(semantic.facts)
  <2>1. Sound(Det)
    BY <1>1, DetSound DEF Inv, Det
  <2>2. Det \in SemanticResult /\ FactsOK(Det.facts)
    BY <2>1 DEF Sound, SemanticResult, FactsOK
  <2> QED BY <1>1, <2>2, MergeFacts DEF Inv
<1>2. ASSUME Replied, phase = "done" PROVE Expected(AsReply)
  BY <1>2, RulesExpected, ModelExpected DEF Replied
<1>3. Inv /\ Replied => Foreseen
  BY <1>1, <1>2, FactsForeseen DEF Foreseen, Expected, Outcome
<1> QED BY <1>3, InvHolds, RepliedHolds, PTL
=============================================================================
