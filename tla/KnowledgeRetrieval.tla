--------------------------- MODULE KnowledgeRetrieval ---------------------------
(***************************************************************************)
(* What the funnel knows when it answers: retrieve_knowledge ranks the FAQ  *)
(* and the objections of knowledge/*.json, then the cards of the table      *)
(* knowledge_cards, and knowledge_answer composes the answer the rules give *)
(* when no model does.                                                      *)
(*                                                                          *)
(* Items and cards are numbered in the order of their file or their         *)
(* created_at; equal scores keep that order.  A score counts twentieths of  *)
(* the code's points.  The words of the query give each entry some points   *)
(* (triggers, tags, shared words); they are chosen, not computed.  Topics   *)
(* come with a query that is not empty.  The search by embedding is left    *)
(* out: no caller passes an embedding.                                      *)
(***************************************************************************)
EXTENDS Integers, FiniteSets

CONSTANTS
  Faq, Objections,  \* numbers of the FAQ's and the objections' items
  Cards,            \* numbers of the cards
  TopicOf,          \* the topic of each item or card
  Topics,           \* the topics, other names of topics among them
  Canonical,        \* TOPIC_CANONICAL: the proper name of each topic
  Aliases,          \* TOPIC_ALIASES: topics looked up along with a proper one
  Stages, StageOf,  \* stages, and the stage of each card, or AnyStage
  AnyStage,
  Internal,         \* cards of the keys workflow.* and dialogue_chunk.*
  Mentor,           \* cards taken from the mentor's material
  Points,           \* what the words of a query can be worth
  ItemLimit,        \* limit of match_knowledge_items, 4 in the code
  TopK,             \* best cards taken, 5
  ContextSize,      \* entries a context keeps, 6
  MaxTexts          \* MAX_TEXT_MESSAGES, 3

Items == Faq \cup Objections
Entries == Items \cup Cards

ASSUME KnowledgeConstantsOK ==
  /\ Entries \subseteq Nat /\ IsFiniteSet(Entries)
  /\ Faq \cap Objections = {} /\ Items \cap Cards = {}
  /\ TopicOf \in [Entries -> Topics]
  /\ Canonical \in [Topics -> Topics]
  /\ Aliases \in [Topics -> SUBSET Topics]
  /\ StageOf \in [Cards -> Stages \cup {AnyStage}]
  /\ Internal \cup Mentor \subseteq Cards
  /\ Points \subseteq Nat
  /\ {ItemLimit, TopK, ContextSize, MaxTexts} \subseteq Nat \ {0}

VARIABLES
  asked,   \* retrieval_topics, interrupt_topic (as a set), an objection or not
  words,   \* points each entry has for the words of the query
  live,    \* the active and approved cards
  atStage, \* the stage of the dialog
  phase,   \* how far the retrieval has come
  faq, objections, \* the two contexts' items
  cards,   \* the cards retrieved
  answer   \* the entries the answer is made of

knowledgeVars == <<asked, words, live, atStage, phase, faq, objections, cards, answer>>
question == <<asked, words, live, atStage>>

KnowledgeInit ==
  /\ asked \in [topics : SUBSET Topics, topic : {{}} \cup {{t} : t \in Topics},
                objection : BOOLEAN]
  /\ words \in [Entries -> Points]
  /\ live \in SUBSET Cards
  /\ atStage \in Stages
  /\ phase = "static"
  /\ faq = {} /\ objections = {} /\ cards = {} /\ answer = {}

-----------------------------------------------------------------------------
\* Of two entries with these scores, x comes before y.
Before(score, x, y) ==
  score[x] > score[y] \/ (score[x] = score[y] /\ x < y)

Rank(S, score, x) == Cardinality({y \in S : Before(score, y, x)}) + 1

Best(S, score, k) == {x \in S : Rank(S, score, x) <= k}

\* Faulty variant: the other names take the place of the topic.
Expanded_AliasesOnly(ts) == UNION {Aliases[Canonical[t]] : t \in ts}

\* expanded_topic_set
Expanded(ts) == UNION {{Canonical[t]} \cup Aliases[Canonical[t]] : t \in ts}

ItemScore == [i \in Items |->
  words[i] + (IF TopicOf[i] \in Expanded(asked.topics) THEN 80 ELSE 0)]

MatchKnowledgeItems(S) == Best({i \in S : ItemScore[i] > 0}, ItemScore, ItemLimit)

\* StaticFunnelKnowledgeBase.retrieve
RetrieveStatic ==
  /\ phase = "static"
  /\ faq' = MatchKnowledgeItems(Faq)
  /\ objections' = MatchKnowledgeItems(Objections)
  /\ phase' = IF asked.topics = {} THEN "answer" ELSE "cards"
  /\ UNCHANGED <<question, cards, answer>>

-----------------------------------------------------------------------------
MentorPoints(c) == IF c \in Mentor THEN 7 ELSE 0

\* trigger_score
CardScore == [c \in Cards |->
  words[c] + MentorPoints(c) + (IF TopicOf[c] \in asked.topics THEN 40 ELSE 0)]

IsWeakMentorOnlyMatch(c) == c \in Mentor /\ CardScore[c] = 7

CandidateCards(stages) == {c \in live : StageOf[c] \in stages}

\* find_cards_by_triggers, then merge_and_rerank.
RetrieveForTurn(stages) ==
  Best({c \in CandidateCards(stages) : CardScore[c] > 0}, CardScore, TopK)

Answerable(c) == c \notin Internal /\ ~IsWeakMentorOnlyMatch(c)

\* Faulty variant: internal cards may stay.
AnswerableCards_All(got) == {c \in got : ~IsWeakMentorOnlyMatch(c)}

AnswerableCards(got) ==
  IF \E c \in got : Answerable(c) THEN {c \in got : Answerable(c)}
  ELSE {c \in got : ~IsWeakMentorOnlyMatch(c)}

\* FunnelKnowledgeAdapter.retrieve_answers: without an answer among the cards of
\* the stage, among all.
RetrieveAnswers ==
  /\ phase = "cards"
  /\ LET ofStage == AnswerableCards(RetrieveForTurn({atStage, AnyStage}))
     IN  cards' = IF ofStage # {} THEN ofStage
                  ELSE AnswerableCards(RetrieveForTurn(Stages \cup {AnyStage}))
  /\ phase' = "answer"
  /\ UNCHANGED <<question, faq, objections, answer>>

\* faq_context: the items, then the cards, cut off.
FaqContext ==
  faq \cup {c \in cards : Cardinality(faq) + Rank(cards, CardScore, c) <= ContextSize}

-----------------------------------------------------------------------------
Wanted == asked.topics \cup asked.topic
OnTopic(S) == {e \in S : TopicOf[e] \in Wanted}

\* knowledge_answer's selection: objections come after the FAQ's entries.
Selected ==
  LET chosen == OnTopic(FaqContext) \cup OnTopic(objections)
  IN  IF asked.objection /\ chosen = {} THEN Best(objections, ItemScore, 1) ELSE chosen

\* Where an entry stands in the selection.
Place(e) ==
  CASE e \in faq -> Rank(faq, ItemScore, e)
    [] e \in cards -> Cardinality(faq) + Rank(cards, CardScore, e)
    [] OTHER -> Cardinality(FaqContext) + Rank(objections, ItemScore, e)

KnowledgeAnswer ==
  /\ phase = "answer"
  /\ answer' = {e \in Selected :
                  Cardinality({f \in Selected : Place(f) < Place(e)}) < MaxTexts}
  /\ phase' = "done"
  /\ UNCHANGED <<question, faq, objections, cards>>

KnowledgeNext == RetrieveStatic \/ RetrieveAnswers \/ KnowledgeAnswer

KnowledgeSpec == KnowledgeInit /\ [][KnowledgeNext]_knowledgeVars

-----------------------------------------------------------------------------
KnowledgeTypeOK ==
  /\ asked \in [topics : SUBSET Topics, topic : SUBSET Topics, objection : BOOLEAN]
  /\ words \in [Entries -> Points]
  /\ live \subseteq Cards
  /\ atStage \in Stages
  /\ phase \in {"static", "cards", "answer", "done"}
  /\ faq \subseteq Faq /\ Cardinality(faq) <= ItemLimit
  /\ objections \subseteq Objections /\ Cardinality(objections) <= ItemLimit
  /\ cards \subseteq live /\ Cardinality(cards) <= TopK
  /\ answer \subseteq Entries

\* What the FAQ says on a topic the candidate asks about, called by its proper
\* name, is in the answer, through both cuts, unless the answer is full of entries
\* on the topics of the question (named so, or the topic of the interruption), or
\* ItemLimit other items have as many points as a topic gives, be it for an asked
\* topic or one of its other names, or by words alone (match_knowledge_items, then
\* knowledge_answer).  Of cards it says nothing; CardsAreAnswered does.
AskedIsAnswered ==
  phase = "done" =>
    \A i \in Faq :
      TopicOf[i] \in asked.topics /\ Canonical[TopicOf[i]] = TopicOf[i] =>
        \/ i \in answer
        \/ Cardinality(OnTopic(answer)) = MaxTexts
        \/ Cardinality({j \in Faq \ {i} : ItemScore[j] >= 80}) >= ItemLimit

\* The cards of the dialog's stage that match.
Matching == {c \in CandidateCards({atStage, AnyStage}) : CardScore[c] > 0}
Better(c) == {d \in Matching : Before(CardScore, d, c)}

\* A card of the dialog's stage on an asked topic that may be offered is in the
\* answer, through all four cuts, unless TopK cards of the stage match better, the
\* FAQ's items and better cards that may be offered fill the context, or entries
\* on the question's topics fill the answer.  A card for internal use hides it
\* only by the first cut, which comes before the filter (merge_and_rerank, then
\* answerable_cards): it takes no room in the context or the answer, and the search
\* of all stages never takes the place of such a card.
CardsAreAnswered ==
  phase = "done" =>
    \A c \in Matching :
      Answerable(c) /\ TopicOf[c] \in asked.topics =>
        \/ c \in answer
        \/ Cardinality(Better(c)) >= TopK
        \/ Cardinality(faq) + Cardinality({d \in Better(c) : Answerable(d)}) >= ContextSize
        \/ Cardinality(OnTopic(answer) \ Internal) = MaxTexts
=============================================================================
