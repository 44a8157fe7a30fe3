-------------------------- MODULE FunnelDialogProofs --------------------------
(***************************************************************************)
(* Proofs about FunnelDialog.  First what the loop over completed stages    *)
(* and the controller can make of a stage, then the inductive invariant,    *)
(* then the action properties.                                              *)
(***************************************************************************)
EXTENDS FunnelDialog, TLAPS

\* The stages before the intro voices, and those between the two voice packs.
Early == {"interest_check", "age_check", "work_intro_delivery"}
Mid == {"salary_schedule_offer", "salary_schedule_delivery"}

USE DEF WaitingStages, ActionStages, TerminalStages

(***************************************************************************)
(* The policy table.                                                        *)
(***************************************************************************)

\* One round of the loop stays among the stages and does not cross an action
\* stage.
LEMMA SkipOneRegion ==
  ASSUME NEW s, NEW p
  PROVE  /\ s \in Stages => SkipOne(s, p) \in Stages
         /\ s \in Early => SkipOne(s, p) \in Early
         /\ s \in Mid => SkipOne(s, p) \in Mid
         /\ s \in TerminalStages => SkipOne(s, p) = s
         /\ s # "do_not_contact" => SkipOne(s, p) # "do_not_contact"
<1>1. NextStageIfRequirementMet(s, p) \in
        {s, "interview_custom_time", NextStageIfCompleted(s)}
  BY DEF NextStageIfRequirementMet
<1>2. s \in Stages => NextStageIfCompleted(s) \in Stages
  BY DEF Stages, NextStageIfCompleted
<1>3. s \in Early \cup Mid =>
        NextStageIfRequirementMet(s, p) \in {s, NextStageIfCompleted(s)}
  BY DEF NextStageIfRequirementMet, Early, Mid
<1>4. s \in Early /\ s \in WaitingStages => NextStageIfCompleted(s) \in Early
  BY DEF Early, NextStageIfCompleted
<1>5. s \in Mid /\ s \in WaitingStages => NextStageIfCompleted(s) \in Mid
  BY DEF Mid, NextStageIfCompleted
<1>6. s \in WaitingStages => NextStageIfCompleted(s) # "do_not_contact"
  BY DEF NextStageIfCompleted
<1> QED BY <1>1, <1>2, <1>3, <1>4, <1>5, <1>6 DEF SkipOne, Stages

\* The whole loop inherits it.
LEMMA AdvanceRegion ==
  ASSUME NEW s, NEW p
  PROVE  LET t == AdvanceThroughCompletedWaitingStages(s, p)
         IN  /\ s \in Stages => t \in Stages
             /\ s \in Early => t \in Early
             /\ s \in Mid => t \in Mid
             /\ s \in TerminalStages => t = s
             /\ s # "do_not_contact" => t # "do_not_contact"
<1>1. ASSUME NEW u
      PROVE  /\ u \in Stages => Skip2(u, p) \in Stages
             /\ u \in Early => Skip2(u, p) \in Early
             /\ u \in Mid => Skip2(u, p) \in Mid
             /\ u \in TerminalStages => Skip2(u, p) = u
             /\ u # "do_not_contact" => Skip2(u, p) # "do_not_contact"
  <2> DEFINE v == SkipOne(u, p)
  <2>1. /\ u \in Stages => v \in Stages
        /\ u \in Early => v \in Early
        /\ u \in Mid => v \in Mid
        /\ u \in TerminalStages => v = u
        /\ u # "do_not_contact" => v # "do_not_contact"
    BY SkipOneRegion
  <2>2. /\ v \in Stages => SkipOne(v, p) \in Stages
        /\ v \in Early => SkipOne(v, p) \in Early
        /\ v \in Mid => SkipOne(v, p) \in Mid
        /\ v \in TerminalStages => SkipOne(v, p) = v
        /\ v # "do_not_contact" => SkipOne(v, p) # "do_not_contact"
    BY SkipOneRegion
  <2>3. Skip2(u, p) = SkipOne(v, p)
    BY DEF Skip2
  <2> HIDE DEF v
  <2> QED BY <2>1, <2>2, <2>3
<1>2. ASSUME NEW u
      PROVE  /\ u \in Stages => Skip4(u, p) \in Stages
             /\ u \in Early => Skip4(u, p) \in Early
             /\ u \in Mid => Skip4(u, p) \in Mid
             /\ u \in TerminalStages => Skip4(u, p) = u
             /\ u # "do_not_contact" => Skip4(u, p) # "do_not_contact"
  <2> DEFINE v == Skip2(u, p)
  <2>1. /\ u \in Stages => v \in Stages
        /\ u \in Early => v \in Early
        /\ u \in Mid => v \in Mid
        /\ u \in TerminalStages => v = u
        /\ u # "do_not_contact" => v # "do_not_contact"
    BY <1>1
  <2>2. /\ v \in Stages => Skip2(v, p) \in Stages
        /\ v \in Early => Skip2(v, p) \in Early
        /\ v \in Mid => Skip2(v, p) \in Mid
        /\ v \in TerminalStages => Skip2(v, p) = v
        /\ v # "do_not_contact" => Skip2(v, p) # "do_not_contact"
    BY <1>1
  <2>3. Skip4(u, p) = Skip2(v, p)
    BY DEF Skip4
  <2> HIDE DEF v
  <2> QED BY <2>1, <2>2, <2>3
<1> DEFINE v == Skip4(s, p)
<1>3. /\ s \in Stages => v \in Stages
      /\ s \in Early => v \in Early
      /\ s \in Mid => v \in Mid
      /\ s \in TerminalStages => v = s
      /\ s # "do_not_contact" => v # "do_not_contact"
  BY <1>2
<1>4. /\ v \in Stages => Skip4(v, p) \in Stages
      /\ v \in Early => Skip4(v, p) \in Early
      /\ v \in Mid => Skip4(v, p) \in Mid
      /\ v \in TerminalStages => Skip4(v, p) = v
      /\ v # "do_not_contact" => Skip4(v, p) # "do_not_contact"
  BY <1>2
<1>5. AdvanceThroughCompletedWaitingStages(s, p) = Skip4(v, p)
  BY DEF AdvanceThroughCompletedWaitingStages
<1> HIDE DEF v
<1> QED BY <1>3, <1>4, <1>5

\* The loop reaches the intro voices only when the age check is passed.
LEMMA IntroNeedsAge ==
  ASSUME NEW p, ~StageRequirementMet("age_check", p)
  PROVE  \A s \in {"interest_check", "age_check"} :
           AdvanceThroughCompletedWaitingStages(s, p)
             \in {"interest_check", "age_check"}
<1> DEFINE S == {"interest_check", "age_check"}
<1>1. \A s \in S : SkipOne(s, p) \in S
  BY DEF SkipOne, NextStageIfRequirementMet, NextStageIfCompleted
<1>2. \A s \in S : Skip2(s, p) \in S
  BY <1>1 DEF Skip2
<1>3. \A s \in S : Skip4(s, p) \in S
  BY <1>2 DEF Skip4
<1> QED BY <1>3 DEF AdvanceThroughCompletedWaitingStages

-----------------------------------------------------------------------------
(***************************************************************************)
(* The controller.                                                          *)
(***************************************************************************)

\* A semantic result as far as the proofs need it.
SemOK(sem) ==
  /\ sem.type \in MessageTypes
  /\ sem.interrupt \in Interrupts

LEMMA SemanticsOK ==
  \A sem \in Semantics(stage) : SemOK(sem)
BY DEF Semantics, SemOK, MessageTypes, Interrupts

\* Facts turn values into values.
LEMMA MergedType ==
  ASSUME TypeOK, NEW sem
  PROVE  Merged(sem) \in [Fields -> Values]
BY DEF TypeOK, Merged, Values

\* The stage wanted by the controller, before it is validated, does not cross
\* an action stage either.
LEMMA WantedRegion ==
  ASSUME TypeOK, NeverRestsInAction, NEW sem, NEW reply, NEW p
  PROVE  LET w == WantedStage(sem, reply, p)
             t == AdvancedStage(sem, w, p)
         IN  /\ t \in Stages
             /\ stage \in Early => t \in Early \cup TerminalStages
             /\ stage \in Mid => t \in Mid \cup TerminalStages
             /\ t = "do_not_contact" /\ stage # "do_not_contact"
                  => sem.type = "do_not_contact"
<1> DEFINE w == WantedStage(sem, reply, p)
           n == NextStageIfRequirementMet(stage, p)
<1>1. stage \in Stages /\ stage \notin ActionStages
  BY DEF TypeOK, NeverRestsInAction
<1>2. \/ w \in TerminalStages
      \/ w = stage
      \/ stage \in WaitingStages /\ w = n
  BY <1>1 DEF WantedStage
<1>3. w = "do_not_contact" /\ stage # "do_not_contact"
        => sem.type = "do_not_contact" \/ (stage \in WaitingStages /\ w = n)
  BY DEF WantedStage
<1>4. /\ stage \in WaitingStages => n = SkipOne(stage, p)
      /\ SkipOne(stage, p) \in Stages
      /\ stage \in Early => SkipOne(stage, p) \in Early
      /\ stage \in Mid => SkipOne(stage, p) \in Mid
      /\ stage # "do_not_contact" => SkipOne(stage, p) # "do_not_contact"
  BY <1>1, SkipOneRegion DEF SkipOne
<1>5. /\ w \in Stages
      /\ stage \in Early => w \in Early \cup TerminalStages
      /\ stage \in Mid => w \in Mid \cup TerminalStages
      /\ w = "do_not_contact" /\ stage # "do_not_contact"
           => sem.type = "do_not_contact"
  <2> HIDE DEF w, n
  <2> QED BY <1>1, <1>2, <1>3, <1>4 DEF Stages
<1>6. LET a == AdvanceThroughCompletedWaitingStages(w, p)
      IN  /\ w \in Stages => a \in Stages
          /\ w \in Early => a \in Early
          /\ w \in Mid => a \in Mid
          /\ w \in TerminalStages => a = w
          /\ w # "do_not_contact" => a # "do_not_contact"
  <2> HIDE DEF w
  <2> QED BY AdvanceRegion
<1> HIDE DEF w
<1>7. /\ AdvancedStage(sem, w, p) \in Stages
      /\ stage \in Early => AdvancedStage(sem, w, p) \in Early \cup TerminalStages
      /\ stage \in Mid => AdvancedStage(sem, w, p) \in Mid \cup TerminalStages
      /\ AdvancedStage(sem, w, p) = "do_not_contact" /\ stage # "do_not_contact"
           => sem.type = "do_not_contact"
  BY <1>5, <1>6 DEF AdvancedStage
<1> QED BY <1>7 DEF w

\* What the decision of a turn can be.
LEMMA DecisionRegion ==
  ASSUME TypeOK, NeverRestsInAction, NEW sem, NEW reply
  PROVE  LET d == Decision(sem, reply)
         IN  /\ d.stage \in Stages
             /\ stage \in TerminalStages => d.stage = stage
             /\ stage \in Early => d.stage \in Early \cup TerminalStages
             /\ stage \in Mid => d.stage \in Mid \cup TerminalStages
             /\ d.stage = "do_not_contact" /\ stage # "do_not_contact" => ~d.send
             /\ d.stage \in ActionStages => d.send
             /\ d.asked \subseteq {d.stage} \cap WaitingStages
             /\ d.profile = Merged(sem)
<1> DEFINE p == Merged(sem)
           wanted == AdvancedStage(sem, WantedStage(sem, reply, p), p)
           valid == TransitionValid(wanted, p)
           target == IF valid THEN wanted ELSE stage
           d == Decision(sem, reply)
<1>1. /\ d.stage = target
      /\ d.send = SendReply(sem, reply, target, valid)
      /\ d.asked = QuestionsAsked(sem, reply, target, valid)
      /\ d.profile = p
  BY DEF Decision
<1>2. /\ wanted \in Stages
      /\ stage \in Early => wanted \in Early \cup TerminalStages
      /\ stage \in Mid => wanted \in Mid \cup TerminalStages
      /\ wanted = "do_not_contact" /\ stage # "do_not_contact"
           => sem.type = "do_not_contact"
  BY WantedRegion
<1>3. stage \in Stages /\ stage \notin ActionStages
  BY DEF TypeOK, NeverRestsInAction
<1>4. valid /\ stage \in TerminalStages => wanted = stage
  BY DEF TransitionValid, CanTransitionViaCompletedStages, CanTransition,
         AllowedTransitions
<1> HIDE DEF wanted, valid, p
<1>5. /\ target \in Stages
      /\ stage \in TerminalStages => target = stage
      /\ stage \in Early => target \in Early \cup TerminalStages
      /\ stage \in Mid => target \in Mid \cup TerminalStages
      /\ target = "do_not_contact" /\ stage # "do_not_contact"
           => valid /\ sem.type = "do_not_contact"
      /\ target \in ActionStages => valid /\ target = wanted
  BY <1>2, <1>3, <1>4
<1>6. target = "do_not_contact" /\ stage # "do_not_contact"
        => ~SendReply(sem, reply, target, valid)
  BY <1>5 DEF SendReply
<1>7. QuestionsAsked(sem, reply, target, valid) \subseteq {target} \cap WaitingStages
  BY DEF QuestionsAsked
<1>8. target \in ActionStages => SendReply(sem, reply, target, valid)
  <2> SUFFICES ASSUME target \in ActionStages
               PROVE  sem.type # "do_not_contact"
    BY DEF SendReply
  <2>1. AdvanceThroughCompletedWaitingStages("do_not_contact", p) = "do_not_contact"
    BY AdvanceRegion
  <2>2. sem.type = "do_not_contact" => wanted = "do_not_contact"
    BY <2>1 DEF wanted, AdvancedStage, WantedStage
  <2> QED BY <1>5, <2>2
<1> QED BY <1>1, <1>5, <1>6, <1>7, <1>8 DEF p

-----------------------------------------------------------------------------
(***************************************************************************)
(* The inductive invariant.                                                 *)
(***************************************************************************)

LEMMA InitHolds == Init => IInv
BY DEF Init, IInv, TypeOK, MaterialsQueued, NeverRestsInAction,
       ClosedIsRecorded, OnlyCurrentQuestions, StatusFollowsStage, CleanTurn,
       AfterIntro, AfterSalary, StatusForStage, Stages, Values, NoStage

\* The stage after the action stages, and what is queued for it.
LEMMA AfterActions ==
  ASSUME TypeOK, NeverRestsInAction, NEW sem, NEW reply
  PROVE  LET d == Decision(sem, reply)
             s == StageAfterActions(d)
         IN  /\ s \in Stages \ ActionStages
             /\ s \in TerminalStages => d.stage = s
             /\ stage \in TerminalStages => s = stage
             /\ \A q \in WaitingStages : Ask(q) \in QueuedJobs(d) => q = s
             /\ s \in TerminalStages =>
                  \A q \in WaitingStages : FollowUp(q) \notin QueuedJobs(d)
<1> DEFINE d == Decision(sem, reply)
           s == StageAfterActions(d)
<1>1. /\ d.stage \in Stages
      /\ stage \in TerminalStages => d.stage = stage
      /\ d.asked \subseteq {d.stage} \cap WaitingStages
  BY DecisionRegion
<1> HIDE DEF d
<1>2. d.stage \in ActionStages => s \in WaitingStages
  BY DEF StageAfterActions, NextStageIfCompleted
<1>3. d.stage \notin ActionStages => s = d.stage
  BY DEF StageAfterActions
<1> HIDE DEF s
<1>4. /\ s \in Stages \ ActionStages
      /\ s \in TerminalStages => d.stage = s
      /\ stage \in TerminalStages => s = stage
  BY <1>1, <1>2, <1>3 DEF Stages
<1>5. ASSUME NEW q \in WaitingStages, Ask(q) \in QueuedJobs(d)
      PROVE  q = s
  BY <1>5, <1>1, <1>3 DEF QueuedJobs, Ask, Voice, FollowUp, FollowupJobs, s
<1>6. ASSUME NEW q \in WaitingStages, s \in TerminalStages
      PROVE  FollowUp(q) \notin QueuedJobs(d)
  BY <1>6 DEF QueuedJobs, Ask, Voice, FollowUp, FollowupJobs, s
<1> QED BY <1>4, <1>5, <1>6 DEF d, s

\* What a decision keeps in the runtime row and puts into the queue has the
\* right type.
LEMMA DecisionType ==
  ASSUME TypeOK, NeverRestsInAction, NEW sem, NEW reply
  PROVE  LET d == Decision(sem, reply)
         IN  /\ d.followup \in WaitingStages \cup {NoStage}
             /\ d.escalated \in BOOLEAN
             /\ NewPacks(d) \subseteq VoicePacks
             /\ QueuedJobs(d) \subseteq JobKinds
<1> DEFINE d == Decision(sem, reply)
<1>1. /\ d.asked \subseteq {d.stage} \cap WaitingStages
      /\ d.followup \in WaitingStages \cup {NoStage}
      /\ d.escalated \in BOOLEAN
  <2>1. d.asked \subseteq {d.stage} \cap WaitingStages
    BY DecisionRegion
  <2>2. \A t, b : FollowupAfter(sem, t, b) \in WaitingStages \cup {NoStage}
    BY DEF FollowupAfter, TypeOK
  <2>3. d.followup \in WaitingStages \cup {NoStage}
    BY <2>2 DEF Decision
  <2>4. d.escalated \in BOOLEAN
    BY DEF Decision
  <2> QED BY <2>1, <2>3, <2>4
<1> HIDE DEF d
<1>2. NewPacks(d) \subseteq VoicePacks
  BY DEF NewPacks, VoicePacksOf, VoicePacks
<1>3. d.stage \in ActionStages => StageAfterActions(d) \in WaitingStages
  BY DEF StageAfterActions, NextStageIfCompleted
<1>4. {Voice(p) : p \in NewPacks(d)} \subseteq Voices
  BY <1>2 DEF Voices
<1>5. FollowupJobs(d) \subseteq FollowUps
  BY <1>1 DEF FollowupJobs, FollowUps
<1>6. QueuedJobs(d) \subseteq JobKinds
  <2> DEFINE asked == d.asked \cup
               (IF d.stage \in ActionStages THEN {StageAfterActions(d)} ELSE {})
  <2>1. asked \subseteq WaitingStages
    BY <1>1, <1>3
  <2>2. {Ask(s) : s \in asked} \subseteq {Ask(s) : s \in WaitingStages}
    BY <2>1
  <2>3. QueuedJobs(d) \subseteq {Ask(s) : s \in asked}
          \cup {Voice(p) : p \in NewPacks(d)} \cup FollowupJobs(d)
    BY DEF QueuedJobs
  <2> QED BY <2>2, <2>3, <1>4, <1>5 DEF JobKinds
<1> QED BY <1>1, <1>2, <1>6 DEF d

\* Persisting a decision keeps the voice packs in step with the stage: what
\* is entered behind an action stage was reached through it.
LEMMA DecideMaterials ==
  ASSUME IInv, NEW sem, NEW reply, PersistAndExecute(Decision(sem, reply))
  PROVE  MaterialsQueued'
<1> DEFINE d == Decision(sem, reply)
<1>1. /\ d.stage \in Stages
      /\ stage \in TerminalStages => d.stage = stage
      /\ stage \in Early => d.stage \in Early \cup TerminalStages
      /\ stage \in Mid => d.stage \in Mid \cup TerminalStages
  BY DecisionRegion DEF IInv
<1>2. /\ stage' = StageAfterActions(d)
      /\ sentPacks' = sentPacks \cup NewPacks(d)
  BY DEF PersistAndExecute
<1>3. stage \in Stages \ ActionStages
  BY DEF IInv, TypeOK, NeverRestsInAction
<1>4. /\ stage \in AfterIntro => "work_intro" \in sentPacks
      /\ stage \in AfterSalary => "salary_schedule" \in sentPacks
  BY DEF IInv, MaterialsQueued
<1> HIDE DEF d
<1>5. /\ stage \in AfterIntro \/ stage \in Early \/ stage \in TerminalStages
      /\ stage \in AfterSalary \/ stage \in Early \cup Mid
           \/ stage \in TerminalStages
  BY <1>3 DEF Stages, Early, Mid, AfterIntro, AfterSalary
<1>6. CASE d.stage = "work_intro_delivery"
  <2>1. stage' = "salary_schedule_offer"
    BY <1>2, <1>6 DEF StageAfterActions, NextStageIfCompleted
  <2>2. "work_intro" \in sentPacks'
    BY <1>2, <1>6 DEF NewPacks, VoicePacksOf
  <2> QED BY <2>1, <2>2 DEF MaterialsQueued, AfterSalary
<1>7. CASE d.stage = "salary_schedule_delivery"
  <2>1. "salary_schedule" \in sentPacks'
    BY <1>2, <1>7 DEF NewPacks, VoicePacksOf
  <2>2. stage \in AfterIntro
    BY <1>1, <1>5, <1>7 DEF Early
  <2> QED BY <1>2, <1>4, <2>1, <2>2 DEF MaterialsQueued
<1>8. CASE d.stage = "support_smalltalk"
  <2>1. stage \in AfterIntro /\ stage \in AfterSalary
    BY <1>1, <1>5, <1>8 DEF Early, Mid
  <2> QED BY <1>2, <1>4, <2>1 DEF MaterialsQueued
<1>9. CASE d.stage \notin ActionStages
  <2>1. stage' = d.stage
    BY <1>2, <1>9 DEF StageAfterActions
  <2>2. d.stage \in AfterIntro => stage \in AfterIntro
    BY <1>1, <1>5 DEF Early, AfterIntro
  <2>3. d.stage \in AfterSalary => stage \in AfterSalary
    BY <1>1, <1>5 DEF Early, Mid, AfterIntro, AfterSalary
  <2> QED BY <1>2, <1>4, <2>1, <2>2, <2>3 DEF MaterialsQueued
<1> QED BY <1>6, <1>7, <1>8, <1>9

\* A turn that ends keeps the inductive invariant.
LEMMA DecideHolds ==
  ASSUME IInv, NEW sem \in Semantics(stage), NEW reply, Decide(sem, reply)
  PROVE  IInv'
<1> DEFINE d == Decision(sem, reply)
           s == StageAfterActions(d)
<1>1. TypeOK /\ NeverRestsInAction
  BY DEF IInv
<1>2. PersistAndExecute(d)
  BY DEF Decide
<1>3. /\ d.profile = Merged(sem)
      /\ d.stage = "do_not_contact" /\ stage # "do_not_contact" => ~d.send
  BY <1>1, DecisionRegion
<1>4. /\ s \in Stages \ ActionStages
      /\ s \in TerminalStages => d.stage = s
      /\ stage \in TerminalStages => s = stage
      /\ \A q \in WaitingStages : Ask(q) \in QueuedJobs(d) => q = s
      /\ s \in TerminalStages =>
           \A q \in WaitingStages : FollowUp(q) \notin QueuedJobs(d)
  BY <1>1, AfterActions
<1>5. /\ d.followup \in WaitingStages \cup {NoStage}
      /\ d.escalated \in BOOLEAN
      /\ NewPacks(d) \subseteq VoicePacks
      /\ QueuedJobs(d) \subseteq JobKinds
  BY <1>1, DecisionType
<1>6. Merged(sem) \in [Fields -> Values]
  BY <1>1, MergedType
<1>7. MaterialsQueued'
  BY <1>2, DecideMaterials
<1>8. /\ stage' = s
      /\ status' = StatusForStage(s)
      /\ lead' = IF ClosesLead(d) THEN "not_qualified" ELSE lead
      /\ jobs' = jobs \cup QueuedJobs(d)
  BY <1>2 DEF PersistAndExecute
<1>9. jobs = {} /\ turn' = "idle" /\ UNCHANGED <<inbox, newer>>
  BY DEF Decide, IInv, CleanTurn
<1>10. ClosesLead(d) <=> (s = "lost" \/ (s = "do_not_contact" /\ ~d.send))
  BY DEF ClosesLead
<1>11. TypeOK'
  <2>1. status' \in {"active", "handoff", "closed"}
    BY <1>8 DEF StatusForStage
  <2>2. /\ profile' \in [Fields -> Values]
        /\ sentPacks' \subseteq VoicePacks
        /\ followup' \in WaitingStages \cup {NoStage}
        /\ escalated' \in BOOLEAN
    BY <1>1, <1>2, <1>3, <1>5, <1>6 DEF PersistAndExecute, TypeOK
  <2>3. lead' \in {"new", "not_qualified"} /\ handoff' \in BOOLEAN
    BY <1>1, <1>2 DEF PersistAndExecute, TypeOK
  <2>4. jobs' \subseteq JobKinds
    BY <1>1, <1>5, <1>8 DEF TypeOK
  <2>5. delivered' \subseteq Voices \cup FollowUps
    <3>1. SentFollowups(d) \subseteq delivered
      BY DEF SentFollowups
    <3> QED BY <1>1, <1>2, <3>1 DEF PersistAndExecute, TypeOK
  <2>6. inbox' \in BOOLEAN /\ turn' \in {"idle", "deciding"} /\ newer' \in BOOLEAN
    BY <1>1, <1>9 DEF TypeOK
  <2> QED BY <1>4, <1>8, <2>1, <2>2, <2>3, <2>4, <2>5, <2>6 DEF TypeOK
<1> HIDE DEF s, d
<1>12. NeverRestsInAction'
  BY <1>4, <1>8 DEF NeverRestsInAction
<1>13. ClosedIsRecorded'
  <2>1. status' = "closed" <=> s \in {"lost", "do_not_contact"}
    BY <1>8 DEF StatusForStage
  <2>2. lead = "not_qualified" <=> stage \in {"lost", "do_not_contact"}
    BY DEF IInv, ClosedIsRecorded, StatusFollowsStage, StatusForStage
  <2> QED BY <1>3, <1>4, <1>8, <1>10, <2>1, <2>2 DEF ClosedIsRecorded
<1>14. OnlyCurrentQuestions'
  BY <1>4, <1>8, <1>9 DEF OnlyCurrentQuestions
<1>15. StatusFollowsStage'
  BY <1>8 DEF StatusFollowsStage
<1>16. CleanTurn'
  BY <1>9 DEF CleanTurn
<1> QED BY <1>7, <1>11, <1>12, <1>13, <1>14, <1>15, <1>16 DEF IInv

\* Every step keeps it.
LEMMA NextHolds == IInv /\ [Next]_vars => IInv'
<1> SUFFICES ASSUME IInv, [Next]_vars
             PROVE  IInv'
  OBVIOUS
<1> USE DEF IInv, MaterialsQueued, NeverRestsInAction, ClosedIsRecorded,
            OnlyCurrentQuestions, StatusFollowsStage, CleanTurn
<1>1. CASE CandidateWrites
  BY <1>1 DEF CandidateWrites, TypeOK, runtimeVars, recordVars
<1>2. CASE Prepare
  BY <1>2 DEF Prepare, TypeOK, runtimeVars, recordVars
<1>3. CASE Supersede
  BY <1>3 DEF Supersede, TypeOK, runtimeVars, recordVars
<1>4. CASE DecideSome
  <2>1. PICK sem \in Semantics(stage) :
          \E reply \in Replies(sem) : Decide(sem, reply)
    BY <1>4 DEF DecideSome
  <2>2. PICK reply : Decide(sem, reply)
    BY <2>1
  <2> QED BY <2>2, DecideHolds
<1>5. CASE TurnFails
  BY <1>5 DEF TurnFails, TypeOK, runtimeVars, recordVars
<1>6. CASE Restart
  <2>1. TypeOK'
    BY <1>6 DEF Restart, TypeOK, Stages, Values, Unset
  <2>2. stage' = "interest_check" /\ status' = "active" /\ lead' = "new"
        /\ jobs' = {}
    BY <1>6 DEF Restart
  <2> QED BY <2>1, <2>2 DEF AfterIntro, AfterSalary, StatusForStage
<1>7. ASSUME NEW j \in jobs, Deliver(j) \/ DeliveryFails(j)
      PROVE  IInv'
  <2>1. /\ jobs' \subseteq jobs
        /\ UNCHANGED <<runtimeVars, recordVars, turnVars>>
        /\ delivered' \subseteq delivered \cup Voices \cup FollowUps
    BY <1>7 DEF Deliver, DeliveryFails
  <2>2. TypeOK'
    BY <2>1 DEF TypeOK, runtimeVars, recordVars, turnVars
  <2> QED BY <2>1, <2>2 DEF runtimeVars, recordVars, turnVars
<1>8. CASE UNCHANGED vars
  BY <1>8 DEF vars, runtimeVars, recordVars, turnVars, TypeOK
<1> QED BY <1>1, <1>2, <1>3, <1>4, <1>5, <1>6, <1>7, <1>8 DEF Next

-----------------------------------------------------------------------------
(***************************************************************************)
(* What follows for every behaviour.                                        *)
(***************************************************************************)

\* The inductive invariant holds in every state the dialog can reach.
THEOREM Invariance == Spec => []IInv
<1>1. Init => IInv
  BY InitHolds
<1>2. IInv /\ [Next]_vars => IInv'
  BY NextHolds
<1> QED BY <1>1, <1>2, PTL DEF Spec

\* The runtime row, the lead and the queue keep their types.
THEOREM TypeCorrect == Spec => []TypeOK
<1>1. IInv => TypeOK
  BY DEF IInv
<1> QED BY <1>1, Invariance, PTL

\* However many stages one message completes, whoever is asked about pay or
\* later has had the voices of the action stages on the way queued.
THEOREM Materials == Spec => []MaterialsQueued
<1>1. IInv => MaterialsQueued
  BY DEF IInv
<1> QED BY <1>1, Invariance, PTL

\* The funnel never ends a turn in an action stage.
THEOREM Rests == Spec => []NeverRestsInAction
<1>1. IInv => NeverRestsInAction
  BY DEF IInv
<1> QED BY <1>1, Invariance, PTL

\* Runtime and lead agree on who was refused or asked not to be contacted.
THEOREM Closed == Spec => []ClosedIsRecorded
<1>1. IInv => ClosedIsRecorded
  BY DEF IInv
<1> QED BY <1>1, Invariance, PTL

\* No question of an earlier stage waits in the queue.
THEOREM Questions == Spec => []OnlyCurrentQuestions
<1>1. IInv => OnlyCurrentQuestions
  BY DEF IInv
<1> QED BY <1>1, Invariance, PTL

\* Only /restart reopens a dialog that has ended.
THEOREM TerminalStay == Spec => TerminalAbsorbing
<1>1. IInv /\ [Next]_vars =>
        [(stage \in TerminalStages /\ stage' # stage) =>
           stage' = "interest_check" /\ lead' = "new" /\ jobs' = {}]_vars
  <2> SUFFICES ASSUME IInv, [Next]_vars,
                      stage \in TerminalStages, stage' # stage
               PROVE  stage' = "interest_check" /\ lead' = "new" /\ jobs' = {}
    BY DEF vars
  <2>1. CASE DecideSome
    <3>1. PICK sem \in Semantics(stage) :
            \E reply \in Replies(sem) : Decide(sem, reply)
      BY <2>1 DEF DecideSome
    <3>2. PICK reply : Decide(sem, reply)
      BY <3>1
    <3>3. stage' = StageAfterActions(Decision(sem, reply))
      BY <3>2 DEF Decide, PersistAndExecute
    <3> QED BY <3>3, AfterActions DEF IInv
  <2>2. CASE Restart
    BY <2>2 DEF Restart
  <2>3. CASE ~DecideSome /\ ~Restart
    BY <2>3 DEF Next, CandidateWrites, Prepare, Supersede, TurnFails, Deliver,
                DeliveryFails, vars, runtimeVars
  <2> QED BY <2>1, <2>2, <2>3
<1> QED BY <1>1, Invariance, PTL DEF Spec, TerminalAbsorbing

\* A turn whose profile does not pass the age check leaves the dialog where
\* it is, at the age check, or at an end.
LEMMA DecisionNeedsAge ==
  ASSUME stage \in {"interest_check", "age_check"}, NEW sem, NEW reply,
         ~StageRequirementMet("age_check", Merged(sem))
  PROVE  Decision(sem, reply).stage
           \in {"interest_check", "age_check"} \cup TerminalStages
<1> DEFINE p == Merged(sem)
           w == WantedStage(sem, reply, p)
           S == {"interest_check", "age_check"}
<1>1. NextStageIfRequirementMet(stage, p) \in S
  BY DEF NextStageIfRequirementMet, NextStageIfCompleted
<1>2. w \in S \cup TerminalStages
  <2> HIDE DEF p
  <2> QED BY <1>1 DEF WantedStage
<1>3. w \in S => AdvanceThroughCompletedWaitingStages(w, p) \in S
  <2> HIDE DEF w
  <2> QED BY IntroNeedsAge
<1>4. w \in TerminalStages => AdvanceThroughCompletedWaitingStages(w, p) = w
  <2> HIDE DEF w, p
  <2> QED BY AdvanceRegion
<1> HIDE DEF w
<1>5. AdvancedStage(sem, w, p) \in S \cup TerminalStages
  BY <1>2, <1>3, <1>4 DEF AdvancedStage
<1>6. Decision(sem, reply).stage \in {AdvancedStage(sem, w, p), stage}
  BY DEF Decision, w
<1> QED BY <1>5, <1>6

\* Nobody passes the age check without having confirmed an age of 18.
THEOREM AgeGated == Spec => AgeGate
<1>1. IInv /\ [Next]_vars =>
        [(stage \in {"interest_check", "age_check"} /\ stage' \in AfterIntro) =>
           \A f \in {"age_confirmed", "age"} : profile'[f] = "yes"]_vars
  <2> SUFFICES ASSUME IInv, [Next]_vars,
                      stage \in {"interest_check", "age_check"},
                      stage' \in AfterIntro,
                      NEW f \in {"age_confirmed", "age"}
               PROVE  profile'[f] = "yes"
    OBVIOUS
  <2>1. stage' \notin {"interest_check", "age_check"} \cup TerminalStages
    BY DEF AfterIntro
  <2>2. DecideSome
    BY <2>1 DEF Next, CandidateWrites, Prepare, Supersede, TurnFails, Restart,
                Deliver, DeliveryFails, vars, runtimeVars
  <2>3. PICK sem \in Semantics(stage) :
          \E reply \in Replies(sem) : Decide(sem, reply)
    BY <2>2 DEF DecideSome
  <2>4. PICK reply : Decide(sem, reply)
    BY <2>3
  <2> DEFINE d == Decision(sem, reply)
  <2>5. stage' = StageAfterActions(d) /\ profile' = d.profile
    BY <2>4 DEF Decide, PersistAndExecute
  <2>6. d.profile = Merged(sem)
    BY DEF Decision
  <2>7. d.stage \notin {"interest_check", "age_check"} \cup TerminalStages
    <3> HIDE DEF d
    <3> QED BY <2>1, <2>5 DEF StageAfterActions
  <2>8. StageRequirementMet("age_check", Merged(sem))
    BY <2>7, DecisionNeedsAge
  <2>9. Merged(sem)[f] = "yes"
    <3>1. RequiredFields("age_check") = {"age_confirmed", "age"}
      BY DEF RequiredFields
    <3> QED BY <2>8, <3>1 DEF StageRequirementMet
  <2> QED BY <2>5, <2>6, <2>9
<1> QED BY <1>1, Invariance, PTL DEF Spec, AgeGate

-----------------------------------------------------------------------------
(***************************************************************************)
(* The path of the questions.                                               *)
(***************************************************************************)

\* The position of a stage on the path; an action stage has that of the question it
\* leads to.
Place(s) == IF s \in ActionStages THEN Position(NextStageIfCompleted(s)) ELSE Position(s)

\* From s to t by answers that the profile p holds: forward, and over no question
\* that is open.
Walked(s, t, p) ==
  /\ Place(s) <= Place(t)
  /\ Place(s) = Place(t) => t = s \/ t \in TerminalStages
  /\ \A q \in WaitingStages : Place(s) <= Place(q) /\ Place(q) < Place(t)
                               => StageRequirementMet(q, p)

LEMMA PlaceType == \A s : Place(s) \in 1 .. 11
BY DEF Place, Position

\* Ways can be put together.
LEMMA WalkedOn ==
  ASSUME NEW s, NEW t, NEW u, NEW p, Walked(s, t, p), Walked(t, u, p)
  PROVE  Walked(s, u, p)
<1>1. /\ Place(s) \in Nat /\ Place(t) \in Nat /\ Place(u) \in Nat
      /\ \A q : Place(q) \in Nat
  BY PlaceType
<1>2. Place(s) <= Place(u)
  BY <1>1 DEF Walked
<1>3. Place(s) = Place(u) => u = s \/ u \in TerminalStages
  <2>1. Place(s) = Place(u) => Place(s) = Place(t) /\ Place(t) = Place(u)
    BY <1>1 DEF Walked
  <2>2. t \in TerminalStages => Place(t) = 11
    BY DEF Place, Position
  <2> QED BY <2>1 DEF Walked
<1>4. ASSUME NEW q \in WaitingStages, Place(s) <= Place(q), Place(q) < Place(u)
      PROVE  StageRequirementMet(q, p)
  BY <1>1, <1>4 DEF Walked
<1> QED BY <1>2, <1>3, <1>4 DEF Walked

\* One round of the loop walks from one question to the next.
LEMMA SkipOneWalks ==
  ASSUME NEW s \in Stages, NEW p
  PROVE  Walked(s, SkipOne(s, p), p)
<1> DEFINE t == SkipOne(s, p)
<1>1. Walked(s, s, p)
  BY PlaceType DEF Walked
<1>2. \/ t = s
      \/ /\ s \in WaitingStages /\ StageRequirementMet(s, p)
         /\ t \in {NextStageIfCompleted(s)}
                 \cup (IF s = "interview_day_check" THEN {"interview_custom_time"} ELSE {})
  BY DEF SkipOne, NextStageIfRequirementMet
<1> HIDE DEF t
<1>3. ASSUME s \in WaitingStages, StageRequirementMet(s, p),
             t \in {NextStageIfCompleted(s)}
                   \cup (IF s = "interview_day_check" THEN {"interview_custom_time"} ELSE {})
      PROVE  Walked(s, t, p)
  <2>1. \/ Place(t) = Place(s) + 1 /\ Place(s) \in 1 .. 10
        \/ Place(t) = Place(s) /\ t \in TerminalStages
    <3>1. /\ Place("interest_check") = 1 /\ Place("age_check") = 2
          /\ Place("salary_schedule_offer") = 3 /\ Place("post_equipment_questions_check") = 4
          /\ Place("profile_theme_check") = 5 /\ Place("room_available_check") = 6
          /\ Place("equipment_phone_check") = 7 /\ Place("interview_offer") = 8
          /\ Place("contact_collection") = 9 /\ Place("interview_day_check") = 10
          /\ Place("interview_time_check") = 11 /\ Place("interview_custom_time") = 11
          /\ Place("human_handoff") = 11
      BY DEF Place, Position
    <3>2. /\ Place("work_intro_delivery") = 3 /\ Place("salary_schedule_delivery") = 4
          /\ Place("support_smalltalk") = 6
      BY DEF Place, Position, NextStageIfCompleted
    <3>3. CASE t = NextStageIfCompleted(s)
      BY <1>3, <3>1, <3>2, <3>3 DEF NextStageIfCompleted
    <3>4. CASE s = "interview_day_check" /\ t = "interview_custom_time"
      BY <3>1, <3>4
    <3> QED BY <1>3, <3>3, <3>4
  <2>2. \A q \in WaitingStages : Place(q) = Place(s) /\ Place(s) \in 1 .. 10 => q = s
    BY <1>3 DEF Place, Position
  <2>3. ASSUME NEW q \in WaitingStages, Place(s) <= Place(q), Place(q) < Place(t)
        PROVE  StageRequirementMet(q, p)
    <3>1. Place(q) = Place(s) /\ Place(s) \in 1 .. 10
      BY <2>1, <2>3, PlaceType
    <3> QED BY <1>3, <2>2, <3>1
  <2>4. /\ Place(s) <= Place(t)
        /\ Place(s) = Place(t) => t \in TerminalStages
    BY <2>1, PlaceType
  <2> QED BY <2>3, <2>4 DEF Walked
<1> QED BY <1>1, <1>2, <1>3 DEF t

\* So does the whole loop.
LEMMA AdvanceWalks ==
  ASSUME NEW s \in Stages, NEW p
  PROVE  Walked(s, AdvanceThroughCompletedWaitingStages(s, p), p)
<1>1. ASSUME NEW u \in Stages
      PROVE  Skip2(u, p) \in Stages /\ Walked(u, Skip2(u, p), p)
  <2> DEFINE v == SkipOne(u, p)
  <2>1. v \in Stages /\ Walked(u, v, p)
    BY SkipOneRegion, SkipOneWalks
  <2>2. SkipOne(v, p) \in Stages /\ Walked(v, SkipOne(v, p), p)
    BY <2>1, SkipOneRegion, SkipOneWalks
  <2>3. Skip2(u, p) = SkipOne(v, p)
    BY DEF Skip2
  <2> HIDE DEF v
  <2> QED BY <2>1, <2>2, <2>3, WalkedOn
<1>2. ASSUME NEW u \in Stages
      PROVE  Skip4(u, p) \in Stages /\ Walked(u, Skip4(u, p), p)
  <2> DEFINE v == Skip2(u, p)
  <2>1. v \in Stages /\ Walked(u, v, p)
    BY <1>1
  <2>2. Skip2(v, p) \in Stages /\ Walked(v, Skip2(v, p), p)
    BY <1>1, <2>1
  <2>3. Skip4(u, p) = Skip2(v, p)
    BY DEF Skip4
  <2> HIDE DEF v
  <2> QED BY <2>1, <2>2, <2>3, WalkedOn
<1> DEFINE v == Skip4(s, p)
<1>3. v \in Stages /\ Walked(s, v, p)
  BY <1>2
<1>4. Walked(v, Skip4(v, p), p)
  BY <1>2, <1>3
<1>5. AdvanceThroughCompletedWaitingStages(s, p) = Skip4(v, p)
  BY DEF AdvanceThroughCompletedWaitingStages
<1> HIDE DEF v
<1> QED BY <1>3, <1>4, <1>5, WalkedOn

\* A decision stays, ends the dialog or walks on.
LEMMA DecisionWalks ==
  ASSUME stage \in WaitingStages, NEW sem, NEW reply
  PROVE  LET d == Decision(sem, reply)
         IN  d.stage \in TerminalStages \/ Walked(stage, d.stage, d.profile)
<1> DEFINE p == Merged(sem)
           w == WantedStage(sem, reply, p)
           wanted == AdvancedStage(sem, w, p)
           d == Decision(sem, reply)
<1>1. d.stage \in {wanted, stage} /\ d.profile = p
  BY DEF Decision
<1>2. w \in TerminalStages \cup {stage, SkipOne(stage, p)}
  BY DEF WantedStage, SkipOne
<1>3. stage \in Stages /\ SkipOne(stage, p) \in Stages
  BY SkipOneRegion DEF Stages
<1>4. Walked(stage, stage, p) /\ Walked(stage, SkipOne(stage, p), p)
  BY <1>3, SkipOneWalks, PlaceType DEF Walked
<1> HIDE DEF p, w, d
<1>5. wanted \in {w, AdvanceThroughCompletedWaitingStages(w, p)}
  BY DEF AdvancedStage
<1>6. w \in TerminalStages => wanted \in TerminalStages
  BY <1>5, AdvanceRegion
<1>7. w \in {stage, SkipOne(stage, p)} => Walked(stage, wanted, p)
  <2> SUFFICES ASSUME w \in {stage, SkipOne(stage, p)} PROVE Walked(stage, wanted, p)
    OBVIOUS
  <2>1. w \in Stages /\ Walked(stage, w, p)
    BY <1>3, <1>4
  <2>2. Walked(w, AdvanceThroughCompletedWaitingStages(w, p), p)
    BY <2>1, AdvanceWalks
  <2> QED BY <1>5, <2>1, <2>2, WalkedOn
<1> QED BY <1>1, <1>2, <1>4, <1>6, <1>7 DEF d

\* However many questions one message answers, the dialog leaves and jumps over
\* none that the persisted profile does not answer.
THEOREM NoneSkipped == Spec => NoQuestionSkipped
<1>1. ASSUME [Next]_vars, stage' \in WaitingStages, stage' # stage, stage \in WaitingStages
      PROVE  \/ /\ Position(stage') > Position(stage)
                /\ \A s \in WaitingStages :
                     Position(stage) <= Position(s) /\ Position(s) < Position(stage')
                       => StageRequirementMet(s, profile')
             \/ stage' = "interest_check" /\ profile' = [f \in Fields |-> Unset]
  <2>1. CASE DecideSome
    <3>1. PICK sem \in Semantics(stage) :
            \E reply \in Replies(sem) : Decide(sem, reply)
      BY <2>1 DEF DecideSome
    <3>2. PICK reply : Decide(sem, reply)
      BY <3>1
    <3> DEFINE d == Decision(sem, reply)
    <3>3. stage' = StageAfterActions(d) /\ profile' = d.profile
      BY <3>2 DEF Decide, PersistAndExecute
    <3>4. d.stage \in TerminalStages \/ Walked(stage, d.stage, d.profile)
      BY <1>1, DecisionWalks
    <3> HIDE DEF d
    <3>5. d.stage \notin TerminalStages
      BY <1>1, <3>3 DEF StageAfterActions
    <3>6. Place(d.stage) = Position(stage')
      BY <1>1, <3>3 DEF StageAfterActions, Place
    <3>7. \A s \in WaitingStages : Place(s) = Position(s)
      BY DEF Place
    <3>8. d.stage # stage
      BY <1>1, <3>3 DEF StageAfterActions
    <3>9. /\ Position(stage') \in Nat /\ Position(stage) \in Nat
          /\ Position(stage) <= Position(stage') /\ Position(stage) # Position(stage')
      BY <1>1, <3>4, <3>5, <3>6, <3>7, <3>8, PlaceType DEF Walked
    <3>10. \A s \in WaitingStages :
             Position(stage) <= Position(s) /\ Position(s) < Position(stage')
               => StageRequirementMet(s, profile')
      BY <1>1, <3>3, <3>4, <3>5, <3>6, <3>7 DEF Walked
    <3> QED BY <3>9, <3>10
  <2>2. CASE Restart
    BY <2>2 DEF Restart
  <2>3. CASE ~DecideSome /\ ~Restart
    BY <1>1, <2>3 DEF Next, CandidateWrites, Prepare, Supersede, TurnFails, Deliver,
                      DeliveryFails, vars, runtimeVars
  <2> QED BY <2>1, <2>2, <2>3
<1>2. [Next]_vars =>
        [stage' \in WaitingStages /\ stage' # stage /\ stage \in WaitingStages =>
           \/ /\ Position(stage') > Position(stage)
              /\ \A s \in WaitingStages :
                   Position(stage) <= Position(s) /\ Position(s) < Position(stage')
                     => StageRequirementMet(s, profile')
           \/ stage' = "interest_check" /\ profile' = [f \in Fields |-> Unset]]_vars
  BY <1>1
<1> QED BY <1>2, PTL DEF Spec, NoQuestionSkipped
=============================================================================
