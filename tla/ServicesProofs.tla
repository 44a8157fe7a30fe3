---------------------------- MODULE ServicesProofs ----------------------------
(***************************************************************************)
(* Proofs about the services: the webhook receiver, the accounts, the       *)
(* upload of voices and the retrieval of knowledge.                         *)
(***************************************************************************)
EXTENDS WebhookReceiver, AccountSync, VoiceUpload, KnowledgeRetrieval,
        FiniteSetTheorems, WellFoundedInduction, TLAPS

(***************************************************************************)
(* The webhook receiver.  An insert waits for the transaction that holds    *)
(* the event's id, so at most one handler is between its insert and its     *)
(* commit, and then there is no row yet.                                    *)
(***************************************************************************)
OneHolder ==
  \A h, k \in Handlers : \A e \in Events : Holds(h, e) /\ Holds(k, e) => h = k

HeldIsNew == \A h \in Handlers : \A e \in Events : Holds(h, e) => webhookRows[e] = 0

WebhookInv == WebhookTypeOK /\ StoredOnceWithItsTask /\ OneHolder /\ HeldIsNew

\* No handler has begun, and nothing is stored.
LEMMA WebhookInitInv == WebhookInit => WebhookInv
BY WebhookConstantsOK
DEF WebhookInit, WebhookInv, WebhookTypeOK, StoredOnceWithItsTask, OneHolder, HeldIsNew,
    Holds

\* A handler that ends leaves the holders that were there but itself.
LEMMA EndKeepsHolders ==
  ASSUME WebhookInv, NEW h \in Handlers, NEW ok \in BOOLEAN, HandlerEnds(h, ok)
  PROVE  /\ handling' \in [Handlers -> Events \cup {NoEvent}]
         /\ at' \in [Handlers -> {"idle", "check", "insert", "enqueue", "commit"}]
         /\ \A k \in Handlers : at'[k] = "idle" <=> handling'[k] = NoEvent
         /\ \A k \in Handlers, e \in Events : Holds(k, e)' => k # h /\ Holds(k, e)
BY WebhookConstantsOK DEF WebhookInv, WebhookTypeOK, HandlerEnds, Holds

\* A handler that moves on holds nothing new, unless it was before its insert.
LEMMA MoveKeepsHolders ==
  ASSUME WebhookInv, NEW h \in Handlers, at[h] # "idle",
         NEW place \in {"insert", "enqueue", "commit"}, HandlerMoves(h, place)
  PROVE  /\ handling' \in [Handlers -> Events \cup {NoEvent}]
         /\ at' \in [Handlers -> {"idle", "check", "insert", "enqueue", "commit"}]
         /\ \A k \in Handlers : at'[k] = "idle" <=> handling'[k] = NoEvent
         /\ \A k \in Handlers, e \in Events :
              Holds(k, e)' => \/ Holds(k, e)
                              \/ k = h /\ e = handling[h] /\ place # "insert"
BY DEF WebhookInv, WebhookTypeOK, HandlerMoves, Holds

\* Each step of a handler or of CRMchat keeps the invariant.
LEMMA WebhookStepInv == WebhookInv /\ [WebhookNext]_webhookVars => WebhookInv'
<1> SUFFICES ASSUME WebhookInv, [WebhookNext]_webhookVars PROVE WebhookInv'
  OBVIOUS
<1> USE DEF WebhookInv, StoredOnceWithItsTask, OneHolder, HeldIsNew
<1>1. ASSUME NEW h \in Handlers, NEW e \in Events, DeliverWebhook(h, e) PROVE WebhookInv'
  <2>1. \A k \in Handlers, x \in Events : Holds(k, x)' => Holds(k, x)
    BY <1>1 DEF DeliverWebhook, Holds, WebhookTypeOK
  <2>2. WebhookTypeOK'
    BY <1>1, WebhookConstantsOK DEF DeliverWebhook, WebhookTypeOK
  <2> QED BY <1>1, <2>1, <2>2 DEF DeliverWebhook
<1>2. ASSUME NEW h \in Handlers, CheckDuplicate(h) PROVE WebhookInv'
  <2>1. handling[h] \in Events
    BY <1>2, WebhookConstantsOK DEF CheckDuplicate, WebhookTypeOK
  <2>2. CASE HandlerEnds(h, FALSE)
    <3>1. WebhookTypeOK'
      BY <1>2, <2>2, EndKeepsHolders DEF CheckDuplicate, WebhookTypeOK, HandlerEnds
    <3> QED BY <1>2, <2>2, <3>1, EndKeepsHolders DEF CheckDuplicate, HandlerEnds
  <2>3. CASE webhookRows[handling[h]] > 0 /\ HandlerEnds(h, TRUE)
    <3>1. WebhookTypeOK'
      BY <1>2, <2>1, <2>3, EndKeepsHolders DEF CheckDuplicate, WebhookTypeOK, HandlerEnds
    <3>2. queueRows[handling[h]] = 1
      BY <2>1, <2>3 DEF WebhookTypeOK
    <3> QED BY <1>2, <2>3, <3>1, <3>2, EndKeepsHolders DEF CheckDuplicate, HandlerEnds
  <2>4. CASE HandlerMoves(h, "insert")
    <3>1. WebhookTypeOK'
      BY <1>2, <2>4, MoveKeepsHolders DEF CheckDuplicate, WebhookTypeOK, HandlerMoves
    <3>2. \A k \in Handlers, x \in Events : Holds(k, x)' => Holds(k, x)
      BY <1>2, <2>4, MoveKeepsHolders DEF CheckDuplicate
    <3> QED BY <1>2, <2>4, <3>1, <3>2 DEF CheckDuplicate, HandlerMoves
  <2> QED BY <1>2, <2>2, <2>3, <2>4 DEF CheckDuplicate
<1>3. ASSUME NEW h \in Handlers, InsertWebhookEvent(h) PROVE WebhookInv'
  <2>1. CASE HandlerEnds(h, FALSE)
    <3>1. WebhookTypeOK'
      BY <1>3, <2>1, EndKeepsHolders DEF InsertWebhookEvent, WebhookTypeOK, HandlerEnds
    <3> QED BY <1>3, <2>1, <3>1, EndKeepsHolders DEF InsertWebhookEvent, HandlerEnds
  <2>2. CASE ~(webhookRows[handling[h]] > 0) /\ HandlerMoves(h, "enqueue")
    <3>1. handling[h] \in Events /\ webhookRows[handling[h]] = 0
      BY <1>3, <2>2, WebhookConstantsOK DEF InsertWebhookEvent, WebhookTypeOK
    <3>2. WebhookTypeOK'
      BY <1>3, <2>2, MoveKeepsHolders DEF InsertWebhookEvent, WebhookTypeOK, HandlerMoves
    <3>3. \A k \in Handlers, x \in Events :
            Holds(k, x)' => Holds(k, x) \/ (k = h /\ x = handling[h])
      BY <1>3, <2>2, MoveKeepsHolders DEF InsertWebhookEvent
    <3>4. \A k \in Handlers \ {h} : ~Holds(k, handling[h])
      BY <1>3 DEF InsertWebhookEvent
    <3>5. OneHolder'
      BY <3>3, <3>4
    <3>6. HeldIsNew'
      BY <1>3, <3>1, <3>3 DEF InsertWebhookEvent
    <3> QED BY <1>3, <2>2, <3>2, <3>5, <3>6 DEF InsertWebhookEvent, HandlerMoves
  <2> QED BY <1>3, <2>1, <2>2 DEF InsertWebhookEvent
<1>4. ASSUME NEW h \in Handlers, EnqueueInbound(h) PROVE WebhookInv'
  <2>1. handling[h] \in Events /\ Holds(h, handling[h])
    BY <1>4, WebhookConstantsOK DEF EnqueueInbound, WebhookTypeOK, Holds
  <2>2. queueRows[handling[h]] = 0
    BY <2>1
  <2>3. HandlerMoves(h, "commit")
    BY <1>4, <2>2 DEF EnqueueInbound
  <2>4. WebhookTypeOK'
    BY <1>4, <2>3, MoveKeepsHolders DEF EnqueueInbound, WebhookTypeOK, HandlerMoves
  <2>5. \A k \in Handlers, x \in Events : Holds(k, x)' => Holds(k, x)
    BY <1>4, <2>1, <2>3, MoveKeepsHolders DEF EnqueueInbound
  <2> QED BY <1>4, <2>3, <2>4, <2>5 DEF EnqueueInbound, HandlerMoves
<1>5. ASSUME NEW h \in Handlers, NEW arrives \in BOOLEAN, CommitWebhook(h, arrives)
      PROVE  WebhookInv'
  <2>1. handling[h] \in Events /\ Holds(h, handling[h])
    BY <1>5, WebhookConstantsOK DEF CommitWebhook, WebhookTypeOK, Holds
  <2>2. webhookRows[handling[h]] = 0 /\ queueRows[handling[h]] = 0
    BY <2>1
  <2>3. /\ webhookRows' = [webhookRows EXCEPT ![handling[h]] = 1]
        /\ queueRows' = [queueRows EXCEPT ![handling[h]] = 1]
    BY <1>5, <2>1, <2>2 DEF CommitWebhook, WebhookTypeOK
  <2>4. \A k \in Handlers, x \in Events : Holds(k, x)' => k # h /\ Holds(k, x)
    BY <1>5, EndKeepsHolders DEF CommitWebhook
  <2>5. \A k \in Handlers, x \in Events : Holds(k, x)' => x # handling[h]
    BY <2>1, <2>4
  <2>6. lost' \in 0 .. MaxLost
    BY <1>5, WebhookConstantsOK DEF CommitWebhook, WebhookTypeOK
  <2>7. WebhookTypeOK'
    BY <1>5, <2>1, <2>3, <2>6, EndKeepsHolders DEF CommitWebhook, WebhookTypeOK, HandlerEnds
  <2>8. StoredOnceWithItsTask'
    BY <1>5, <2>1, <2>3 DEF CommitWebhook, WebhookTypeOK, HandlerEnds
  <2>9. OneHolder' /\ HeldIsNew'
    BY <2>3, <2>4, <2>5 DEF WebhookTypeOK
  <2> QED BY <2>7, <2>8, <2>9
<1>6. ASSUME NEW h \in Handlers, HandlerCrashes(h) PROVE WebhookInv'
  <2>1. WebhookTypeOK'
    BY <1>6, EndKeepsHolders, WebhookConstantsOK
    DEF HandlerCrashes, WebhookTypeOK, HandlerEnds
  <2> QED BY <1>6, <2>1, EndKeepsHolders DEF HandlerCrashes, HandlerEnds
<1>7. CASE UNCHANGED webhookVars
  BY <1>7 DEF webhookVars, WebhookTypeOK, Holds
<1> QED BY <1>1, <1>2, <1>3, <1>4, <1>5, <1>6, <1>7 DEF WebhookNext, HandlerRuns

\* For any number of events and of simultaneous deliveries, crashes and lost
\* answers included: an event is stored once, with its task, and what got a 2xx
\* is stored.
THEOREM WebhookStoredOnce == WebhookSpec => []StoredOnceWithItsTask
<1>1. WebhookInv => StoredOnceWithItsTask
  BY DEF WebhookInv
<1> QED BY <1>1, WebhookInitInv, WebhookStepInv, PTL DEF WebhookSpec

(***************************************************************************)
(* The accounts.  Whatever a transaction writes of health and wait is       *)
(* healthy and none, and only the worker writes rate_limited, with a wait.  *)
(***************************************************************************)
AccountInv == row \in [Accounts -> Row] /\ HeldBackForAWait

\* No account is known.
LEMMA AccountInitInv == AccountInit => AccountInv
BY DEF AccountInit, AccountInv, Absent, Row, HeldBackForAWait

\* A row that is written keeps its wait if it stays held back.
LEMMA WrittenKeepsWait ==
  ASSUME NEW r \in Row, NEW columns, r.health = "rate_limited" => r.until # "none"
  PROVE  LET w == Written(r, columns)
         IN  w \in Row /\ (w.health = "rate_limited" => w.until # "none")
BY DEF Written, Row

\* Each step of the worker, of CRMchat and of a client keeps the invariant.
LEMMA AccountStepInv == AccountInv /\ [AccountNext]_accountVars => AccountInv'
<1> SUFFICES ASSUME AccountInv, [AccountNext]_accountVars PROVE AccountInv'
  OBVIOUS
<1>1. ASSUME row' = row PROVE AccountInv'
  BY <1>1 DEF AccountInv, HeldBackForAWait
<1>2. ASSUME NEW a \in Accounts, WaitEnds(a) PROVE AccountInv'
  BY <1>2 DEF AccountInv, WaitEnds, HeldBackForAWait, Row
<1>3. ASSUME NEW a \in Accounts, MarkFloodWait(a) PROVE AccountInv'
  BY <1>3 DEF AccountInv, MarkFloodWait, HeldBackForAWait, Row
<1>4. ASSUME NEW s \in Clients, Commit(s) PROVE AccountInv'
  <2>1. row' = [a \in Accounts |-> Written(row[a], drafts[s][a])]
    BY <1>4 DEF Commit, Seen
  <2>2. \A a \in Accounts : /\ row'[a] \in Row
                            /\ row'[a].health = "rate_limited" => row'[a].until # "none"
    BY <2>1, WrittenKeepsWait DEF AccountInv, HeldBackForAWait
  <2> QED BY <2>1, <2>2 DEF AccountInv, HeldBackForAWait
<1>5. ASSUME NEW s \in Clients, Flush(s) \/ LookAt(s) \/ Fails(s) \/ StartReset(s)
      PROVE  row' = row
  BY <1>5 DEF Flush, LookAt, Fails, StartReset
<1>6. ASSUME NEW s \in Clients, StartSync(s) \/ StartPoll(s) PROVE row' = row
  BY <1>6 DEF StartSync, StartPoll, Lists
<1>7. ASSUME NEW a \in Accounts, RemoteChanges(a) \/ WorkerLoads(a) PROVE row' = row
  BY <1>7 DEF RemoteChanges, WorkerLoads
<1> QED BY <1>1, <1>2, <1>3, <1>4, <1>5, <1>6, <1>7 DEF AccountNext, ClientStep, accountVars

\* For any number of accounts and of concurrent syncs, polls and resets: an account
\* that is held back has a wait that can end.
THEOREM AccountHeldBack == AccountSpec => []HeldBackForAWait
<1>1. AccountInv => HeldBackForAWait
  BY DEF AccountInv
<1> QED BY <1>1, AccountInitInv, AccountStepInv, PTL DEF AccountSpec

(***************************************************************************)
(* The upload of voices.  What makes parts of two recordings harmless is    *)
(* the checksum; the invariant adds how often a job has been tried.         *)
(***************************************************************************)
VoiceInv ==
  /\ VoiceTypeOK
  /\ WholeVoice
  /\ \A v \in Voices :
       /\ job[v] = "queued" => tries[v] = 0
       /\ job[v] = "retry" => tries[v] < MaxVoiceAttempts

\* Nothing has been uploaded.
LEMMA VoiceInitInv == VoiceInit => VoiceInv
BY VoiceConstantsOK
DEF VoiceInit, VoiceInv, VoiceTypeOK, WholeVoice, NoFile, WholeFile, PartNumbers

\* Each step of an upload keeps the invariant.
LEMMA VoiceStepInv == VoiceInv /\ [VoiceNext]_voiceVars => VoiceInv'
<1> SUFFICES ASSUME VoiceInv, [VoiceNext]_voiceVars PROVE VoiceInv'
  OBVIOUS
<1> USE VoiceConstantsOK DEF VoiceInv, VoiceTypeOK, WholeVoice
<1>1. ASSUME NEW v \in Voices, StartVoice(v) PROVE VoiceInv'
  BY <1>1 DEF StartVoice
<1>2. ASSUME NEW v \in Voices, SaveFilePart(v) PROVE VoiceInv'
  <2>1. saved[v] + 1 \in PartNumbers /\ StableFileId[v] \in FileIds
    BY <1>2 DEF SaveFilePart, PartNumbers
  <2>2. store' \in [FileIds -> [PartNumbers -> Voices \cup {NoVoice}]]
    BY <1>2, <2>1 DEF SaveFilePart
  <2>3. saved' \in [Voices -> 0 .. Parts]
    BY <1>2 DEF SaveFilePart
  <2> QED BY <1>2, <2>2, <2>3 DEF SaveFilePart
<1>3. ASSUME NEW v \in Voices, NEW status \in {"retry", "dead_letter", "failed"},
             CallFails(v, status)
      PROVE  VoiceInv'
  BY <1>3 DEF CallFails, Unanswered
<1>4. ASSUME NEW v \in Voices, NEW answered_ \in BOOLEAN, SendMedia(v, answered_)
      PROVE  VoiceInv'
  <2>1. store[StableFileId[v]] = WholeFile(v)
    BY <1>4 DEF SendMedia, Acceptable
  <2>2. heard' = [heard EXCEPT ![v] = WholeFile(v)]
    BY <1>4, <2>1 DEF SendMedia
  <2>3. WholeFile(v) \in [PartNumbers -> Voices \cup {NoVoice}]
    BY DEF WholeFile
  <2>4. /\ heard' \in [Voices -> [PartNumbers -> Voices \cup {NoVoice}]]
        /\ heard'[v] = WholeFile(v)
        /\ \A u \in Voices \ {v} : heard'[u] = heard[u]
    BY <2>2, <2>3
  <2>5. /\ job' \in [Voices -> {"queued", "processing", "retry", "dead_letter", "failed", "sent"}]
        /\ job'[v] \in {"sent", "retry", "dead_letter"}
        /\ job'[v] = "retry" => tries[v] < MaxVoiceAttempts
        /\ \A u \in Voices \ {v} : job'[u] = job[u]
    BY <1>4 DEF SendMedia, Unanswered
  <2> QED BY <1>4, <2>4, <2>5 DEF SendMedia
<1>5. CASE UNCHANGED voiceVars
  BY <1>5 DEF voiceVars
<1> QED BY <1>1, <1>2, <1>3, <1>4, <1>5 DEF VoiceNext

\* For any number of jobs and parts and any sharing of file ids: a candidate
\* hears the whole recording or nothing.
THEOREM VoiceWhole == VoiceSpec => []WholeVoice
<1>1. VoiceInv => WholeVoice
  BY DEF VoiceInv
<1> QED BY <1>1, VoiceInitInv, VoiceStepInv, PTL DEF VoiceSpec

(***************************************************************************)
(* The retrieval of knowledge.  First the cut: Best takes at most as many   *)
(* entries as it is told to, since no two entries have one rank.            *)
(***************************************************************************)

\* The order of entries is total and transitive, and nothing precedes itself.
LEMMA BeforeIsAnOrder ==
  ASSUME NEW S \in SUBSET Nat, NEW score, \A e \in S : score[e] \in Nat,
         NEW x \in S, NEW y \in S, NEW z \in S
  PROVE  /\ ~Before(score, x, x)
         /\ x # y => Before(score, x, y) \/ Before(score, y, x)
         /\ Before(score, x, y) /\ Before(score, y, z) => Before(score, x, z)
BY DEF Before

\* What precedes another entry has a smaller rank.
LEMMA RankGrows ==
  ASSUME NEW S \in SUBSET Nat, IsFiniteSet(S), NEW score, \A e \in S : score[e] \in Nat,
         NEW x \in S, NEW y \in S, Before(score, x, y)
  PROVE  /\ Rank(S, score, x) \in Nat /\ Rank(S, score, y) \in Nat
         /\ 1 <= Rank(S, score, x)
         /\ Rank(S, score, x) < Rank(S, score, y)
<1> DEFINE X == {u \in S : Before(score, u, x)}
           Y == {u \in S : Before(score, u, y)}
<1>1. IsFiniteSet(X) /\ IsFiniteSet(Y)
  <2>1. X \in SUBSET S /\ Y \in SUBSET S
    OBVIOUS
  <2> QED BY <2>1, FS_Subset
<1>2. X \subseteq Y /\ x \in Y /\ x \notin X
  BY BeforeIsAnOrder
<1>3. Cardinality(X) \in Nat /\ Cardinality(Y) \in Nat
  BY <1>1, FS_CardinalityType
<1>4. Cardinality(X) <= Cardinality(Y) /\ Cardinality(X) # Cardinality(Y)
  <2>1. X \in SUBSET Y /\ X # Y
    BY <1>2
  <2> QED BY <1>1, <2>1, FS_Subset
<1>5. Rank(S, score, x) = Cardinality(X) + 1 /\ Rank(S, score, y) = Cardinality(Y) + 1
  BY DEF Rank
<1> HIDE DEF X, Y
<1> QED BY <1>3, <1>4, <1>5

\* A rank is a positive number.
LEMMA RankIsPositive ==
  ASSUME NEW S \in SUBSET Nat, IsFiniteSet(S), NEW score, NEW x
  PROVE  Rank(S, score, x) \in Nat /\ 1 <= Rank(S, score, x)
<1> DEFINE X == {u \in S : Before(score, u, x)}
<1>1. X \in SUBSET S
  OBVIOUS
<1>2. Cardinality(X) \in Nat
  BY <1>1, FS_Subset, FS_CardinalityType
<1>3. Rank(S, score, x) = Cardinality(X) + 1
  BY DEF Rank
<1> HIDE DEF X
<1> QED BY <1>2, <1>3

\* The cut keeps to its limit.
LEMMA BestIsBounded ==
  ASSUME NEW S \in SUBSET Nat, IsFiniteSet(S), NEW score, \A e \in S : score[e] \in Nat,
         NEW k \in Nat
  PROVE  /\ Best(S, score, k) \subseteq S
         /\ IsFiniteSet(Best(S, score, k))
         /\ Cardinality(Best(S, score, k)) <= k
<1> DEFINE B == Best(S, score, k)
           f == [x \in B |-> Rank(S, score, x)]
<1>1. B \subseteq S /\ \A x \in B : Rank(S, score, x) <= k
  BY DEF Best
<1>2. \A x \in B : f[x] \in 1 .. k
  BY <1>1, RankIsPositive
<1>3. \A x, y \in B : f[x] = f[y] => x = y
  <2> SUFFICES ASSUME NEW x \in B, NEW y \in B, x # y PROVE f[x] # f[y]
    OBVIOUS
  <2>1. x \in S /\ y \in S
    BY <1>1
  <2>2. CASE Before(score, x, y)
    BY <2>1, <2>2, RankGrows
  <2>3. CASE Before(score, y, x)
    BY <2>1, <2>3, RankGrows
  <2> QED BY <2>1, <2>2, <2>3, BeforeIsAnOrder
<1>4. f \in Injection(B, 1 .. k)
  BY <1>2, <1>3 DEF Injection, IsInjective
<1>5. IsFiniteSet(1 .. k) /\ Cardinality(1 .. k) <= k
  BY FS_Interval
<1>6. Cardinality(B) <= Cardinality(1 .. k) /\ IsFiniteSet(B)
  BY <1>4, <1>5, FS_Injection
<1>7. Cardinality(B) \in Nat /\ Cardinality(1 .. k) \in Nat
  BY <1>5, <1>6, FS_CardinalityType
<1> QED BY <1>1, <1>5, <1>6, <1>7

\* A query that has just come has no answer yet.
LEMMA KnowledgeInitInv == KnowledgeInit => KnowledgeTypeOK
<1> SUFFICES ASSUME KnowledgeInit PROVE KnowledgeTypeOK
  OBVIOUS
<1>1. Cardinality({}) = 0
  BY FS_EmptySet
<1> QED BY <1>1, KnowledgeConstantsOK
    DEF KnowledgeInit, KnowledgeTypeOK, Entries, Items

\* Scores are natural numbers, for the items and for the cards.
LEMMA ScoresAreNaturals ==
  ASSUME KnowledgeTypeOK
  PROVE  /\ \A i \in Items : ItemScore[i] \in Nat
         /\ \A c \in Cards : CardScore[c] \in Nat
<1>1. \A e \in Entries : words[e] \in Nat
  BY KnowledgeConstantsOK DEF KnowledgeTypeOK
<1>2. \A c \in Cards : MentorPoints(c) \in Nat
  BY DEF MentorPoints
<1> QED BY <1>1, <1>2 DEF ItemScore, CardScore, Entries

\* Items and cards are finite sets of numbers.
LEMMA EntriesAreFinite ==
  ASSUME NEW S \in SUBSET Entries PROVE S \in SUBSET Nat /\ IsFiniteSet(S)
BY KnowledgeConstantsOK, FS_Subset

\* A set of items or cards is cut to its limit.
LEMMA MatchIsBounded ==
  ASSUME KnowledgeTypeOK, NEW S \in SUBSET Items
  PROVE  MatchKnowledgeItems(S) \subseteq S /\ Cardinality(MatchKnowledgeItems(S)) <= ItemLimit
<1> DEFINE T == {i \in S : ItemScore[i] > 0}
<1>1. T \in SUBSET Entries /\ T \subseteq S
  BY DEF Entries
<1>2. \A e \in T : ItemScore[e] \in Nat
  BY ScoresAreNaturals
<1>3. ItemLimit \in Nat
  BY KnowledgeConstantsOK
<1>4. Best(T, ItemScore, ItemLimit) \subseteq T /\ Cardinality(Best(T, ItemScore, ItemLimit)) <= ItemLimit
  <2>1. T \in SUBSET Nat /\ IsFiniteSet(T)
    BY <1>1, EntriesAreFinite
  <2> HIDE DEF T
  <2> QED BY <1>2, <1>3, <2>1, BestIsBounded
<1> QED BY <1>1, <1>4 DEF MatchKnowledgeItems

\* The cards of a retrieval are at most TopK.
LEMMA RetrievedCards ==
  ASSUME KnowledgeTypeOK, NEW stages
  PROVE  LET got == AnswerableCards(RetrieveForTurn(stages))
         IN  got \subseteq live /\ Cardinality(got) <= TopK
<1> DEFINE T == {c \in CandidateCards(stages) : CardScore[c] > 0}
           R == RetrieveForTurn(stages)
           G == AnswerableCards(R)
<1>1. T \subseteq live /\ T \subseteq Cards /\ T \in SUBSET Entries
  BY DEF CandidateCards, KnowledgeTypeOK, Entries
<1>2. \A e \in T : CardScore[e] \in Nat
  BY <1>1, ScoresAreNaturals
<1>3. TopK \in Nat
  BY KnowledgeConstantsOK
<1>4. R \subseteq T /\ IsFiniteSet(R) /\ Cardinality(R) <= TopK
  <2>1. T \in SUBSET Nat /\ IsFiniteSet(T)
    BY <1>1, EntriesAreFinite
  <2>2. R = Best(T, CardScore, TopK)
    BY DEF RetrieveForTurn
  <2> HIDE DEF T, R
  <2> QED BY <1>2, <1>3, <2>1, <2>2, BestIsBounded
<1>5. G \in SUBSET R
  BY DEF AnswerableCards
<1>6. Cardinality(G) <= Cardinality(R) /\ IsFiniteSet(G)
  BY <1>4, <1>5, FS_Subset
<1>7. Cardinality(G) \in Nat /\ Cardinality(R) \in Nat
  BY <1>4, <1>6, FS_CardinalityType
<1> QED BY <1>1, <1>3, <1>4, <1>5, <1>6, <1>7

\* Each step of the retrieval keeps the limits.
LEMMA KnowledgeStepInv == KnowledgeTypeOK /\ [KnowledgeNext]_knowledgeVars => KnowledgeTypeOK'
<1> SUFFICES ASSUME KnowledgeTypeOK, [KnowledgeNext]_knowledgeVars PROVE KnowledgeTypeOK'
  OBVIOUS
<1>1. CASE RetrieveStatic
  <2>1. /\ faq' \subseteq Faq /\ Cardinality(faq') <= ItemLimit
        /\ objections' \subseteq Objections /\ Cardinality(objections') <= ItemLimit
    BY <1>1, MatchIsBounded DEF RetrieveStatic, Items
  <2> QED BY <1>1, <2>1 DEF RetrieveStatic, question, KnowledgeTypeOK
<1>2. CASE RetrieveAnswers
  <2>1. \E stages : cards' = AnswerableCards(RetrieveForTurn(stages))
    BY <1>2 DEF RetrieveAnswers
  <2>2. cards' \subseteq live /\ Cardinality(cards') <= TopK
    BY <2>1, RetrievedCards
  <2> QED BY <1>2, <2>2 DEF RetrieveAnswers, question, KnowledgeTypeOK
<1>3. CASE KnowledgeAnswer
  <2>1. answer' \subseteq Selected
    BY <1>3 DEF KnowledgeAnswer
  <2>2. objections \in SUBSET Entries /\ FaqContext \subseteq Entries
    BY DEF FaqContext, KnowledgeTypeOK, Entries, Items
  <2>3. Best(objections, ItemScore, 1) \subseteq objections
    BY DEF Best
  <2>4. Selected \subseteq Entries
    BY <2>2, <2>3 DEF Selected, OnTopic
  <2> QED BY <1>3, <2>1, <2>4 DEF KnowledgeAnswer, question, KnowledgeTypeOK
<1>4. CASE UNCHANGED knowledgeVars
  BY <1>4 DEF knowledgeVars, KnowledgeTypeOK
<1> QED BY <1>1, <1>2, <1>3, <1>4 DEF KnowledgeNext

\* The limits: no context holds more items, and no retrieval more cards, than
\* the code allows.
THEOREM KnowledgeLimits == KnowledgeSpec => []KnowledgeTypeOK
<1> QED BY KnowledgeInitInv, KnowledgeStepInv, PTL DEF KnowledgeSpec

-----------------------------------------------------------------------------
(***************************************************************************)
(* The two cuts.  Of what is numbered apart, the first k are all there are, *)
(* or they are k; and the places of a selection number its entries apart:   *)
(* the FAQ's items come first, then the cards that were kept, which are the *)
(* first of their ranking, then the objections.                             *)
(***************************************************************************)

\* Every set of natural numbers that has a member has a least one.
LEMMA LeastOfSome ==
  ASSUME NEW S, S \subseteq Nat, S # {}
  PROVE  \E m \in S : \A n \in S : m <= n
<1> DEFINE R == OpToRel(<, Nat)
<1>1. IsWellFoundedOn(R, Nat)
  BY NatLessThanWellFounded
<1>2. \A x, y \in Nat : <<x, y>> \in R <=> x < y
  BY DEF OpToRel
<1> HIDE DEF R
<1>3. PICK x \in S : \A y \in S : ~(<<y, x>> \in R)
  BY <1>1, WFMin
<1>4. \A y \in S : y \in Nat /\ x \in Nat /\ ~(y < x)
  BY <1>2, <1>3
<1>5. \A y \in S : x <= y
  BY <1>4
<1> QED BY <1>3, <1>5

\* The first k of a finite set whose members are numbered apart.
LEMMA FirstOnes ==
  ASSUME NEW S, IsFiniteSet(S), NEW f \in [S -> Nat], NEW k \in Nat,
         \A x, y \in S : f[x] = f[y] => x = y,
         NEW A, A = {x \in S : Cardinality({y \in S : f[y] < f[x]}) < k}
  PROVE  A = S \/ Cardinality(A) = k
<1> DEFINE Below(x) == {y \in S : f[y] < f[x]}
           r == [x \in A |-> Cardinality(Below(x)) + 1]
<1>1. \A x \in S : IsFiniteSet(Below(x)) /\ Cardinality(Below(x)) \in Nat
  <2> SUFFICES ASSUME NEW x \in S
               PROVE  IsFiniteSet(Below(x)) /\ Cardinality(Below(x)) \in Nat
    OBVIOUS
  <2>1. Below(x) \in SUBSET S
    OBVIOUS
  <2> QED BY <2>1, FS_Subset, FS_CardinalityType
<1>2. \A x, y \in S : f[x] < f[y] => Cardinality(Below(x)) < Cardinality(Below(y))
  <2> SUFFICES ASSUME NEW x \in S, NEW y \in S, f[x] < f[y]
               PROVE  Cardinality(Below(x)) < Cardinality(Below(y))
    OBVIOUS
  <2>1. Below(x) \in SUBSET Below(y)
    OBVIOUS
  <2>2. x \in Below(y) /\ x \notin Below(x)
    OBVIOUS
  <2>3. IsFiniteSet(Below(y)) /\ Cardinality(Below(y)) \in Nat /\ Cardinality(Below(x)) \in Nat
    BY <1>1
  <2> HIDE DEF Below
  <2>4. Cardinality(Below(x)) <= Cardinality(Below(y))
        /\ Cardinality(Below(x)) # Cardinality(Below(y))
    BY <2>1, <2>2, <2>3, FS_Subset
  <2> QED BY <2>3, <2>4
<1>3. \A x \in S : x \in A <=> Cardinality(Below(x)) < k
  OBVIOUS
<1>4. IsFiniteSet(A) /\ Cardinality(A) \in Nat
  <2>1. A \in SUBSET S
    OBVIOUS
  <2> QED BY <2>1, FS_Subset, FS_CardinalityType
<1>5. Cardinality(A) <= k
  <2>1. A \subseteq S
    OBVIOUS
  <2>2. \A x \in A : r[x] \in 1 .. k
    <3> SUFFICES ASSUME NEW x \in A PROVE Cardinality(Below(x)) + 1 \in 1 .. k
      OBVIOUS
    <3>1. Cardinality(Below(x)) \in Nat /\ Cardinality(Below(x)) < k
      BY <1>1, <1>3, <2>1
    <3> HIDE DEF Below
    <3> QED BY <3>1
  <2>3. \A x, y \in A : r[x] = r[y] => x = y
    <3> SUFFICES ASSUME NEW x \in A, NEW y \in A, x # y
                 PROVE  Cardinality(Below(x)) + 1 # Cardinality(Below(y)) + 1
      OBVIOUS
    <3>1. f[x] < f[y] \/ f[y] < f[x]
      BY <2>1
    <3>2. Cardinality(Below(x)) \in Nat /\ Cardinality(Below(y)) \in Nat
      BY <1>1, <2>1
    <3>3. Cardinality(Below(x)) # Cardinality(Below(y))
      <4> HIDE DEF Below
      <4> QED BY <1>2, <2>1, <3>1, <3>2
    <3> HIDE DEF Below
    <3> QED BY <3>2, <3>3
  <2> HIDE DEF r
  <2>4. r \in Injection(A, 1 .. k)
    <3>1. r \in [A -> 1 .. k]
      BY <2>2 DEF r
    <3> QED BY <2>3, <3>1 DEF Injection, IsInjective
  <2>5. IsFiniteSet(1 .. k) /\ Cardinality(1 .. k) <= k
    BY FS_Interval
  <2>6. Cardinality(A) <= Cardinality(1 .. k) /\ Cardinality(1 .. k) \in Nat
    BY <2>4, <2>5, FS_Injection, FS_CardinalityType
  <2> QED BY <1>4, <2>5, <2>6
<1>6. ASSUME A # S PROVE k <= Cardinality(A)
  <2> DEFINE N == {f[x] : x \in S \ A}
  <2>0. PICK out \in S : out \notin A
    BY <1>6
  <2>1. N \subseteq Nat /\ f[out] \in N
    BY <2>0
  <2>2. PICK n \in N : \A o \in N : n <= o
    <3> HIDE DEF N
    <3> QED BY <2>1, LeastOfSome
  <2>3. PICK m \in S \ A : n = f[m]
    OBVIOUS
  <2>4. \A x \in S \ A : f[m] <= f[x]
    BY <2>2, <2>3
  <2>5. Below(m) \in SUBSET A
    BY <2>4
  <2>6. Cardinality(Below(m)) \in Nat /\ ~(Cardinality(Below(m)) < k)
    BY <1>1, <1>3
  <2> HIDE DEF Below
  <2>7. Cardinality(Below(m)) <= Cardinality(A)
    BY <1>4, <2>5, FS_Subset
  <2> QED BY <1>4, <2>6, <2>7
<1> QED BY <1>4, <1>5, <1>6

\* A member's rank is at most the number of members.
LEMMA RankIsBounded ==
  ASSUME NEW S \in SUBSET Nat, IsFiniteSet(S), NEW score, \A e \in S : score[e] \in Nat,
         NEW x \in S
  PROVE  Rank(S, score, x) \in 1 .. Cardinality(S)
<1> DEFINE X == {u \in S : Before(score, u, x)}
<1>1. X \in SUBSET S /\ x \notin X
  BY BeforeIsAnOrder
<1>2. Cardinality(X) \in Nat /\ Cardinality(S) \in Nat
  BY <1>1, FS_Subset, FS_CardinalityType
<1>3. Cardinality(X) <= Cardinality(S) /\ Cardinality(X) # Cardinality(S)
  BY <1>1, FS_Subset
<1>4. Rank(S, score, x) = Cardinality(X) + 1
  BY DEF Rank
<1> HIDE DEF X
<1> QED BY <1>2, <1>3, <1>4

\* Of two members one comes first, in rank too.
LEMMA RankTellsApart ==
  ASSUME NEW S \in SUBSET Nat, IsFiniteSet(S), NEW score, \A e \in S : score[e] \in Nat,
         NEW x \in S, NEW y \in S, Rank(S, score, x) = Rank(S, score, y)
  PROVE  x = y
<1>1. ASSUME Before(score, x, y) PROVE FALSE
  BY <1>1, RankGrows
<1>2. ASSUME Before(score, y, x) PROVE FALSE
  BY <1>2, RankGrows
<1> QED BY <1>1, <1>2, BeforeIsAnOrder

\* What is known of the two contexts and the cards: small sets of numbers, with
\* no entry in two of them.
LEMMA ContextsAreRanked ==
  ASSUME KnowledgeTypeOK
  PROVE  /\ faq \in SUBSET Nat /\ IsFiniteSet(faq) /\ \A e \in faq : ItemScore[e] \in Nat
         /\ cards \in SUBSET Nat /\ IsFiniteSet(cards) /\ \A c \in cards : CardScore[c] \in Nat
         /\ objections \in SUBSET Nat /\ IsFiniteSet(objections)
         /\ \A e \in objections : ItemScore[e] \in Nat
         /\ faq \cap cards = {} /\ faq \cap objections = {} /\ cards \cap objections = {}
<1>1. faq \in SUBSET Entries /\ cards \in SUBSET Entries /\ objections \in SUBSET Entries
  BY DEF KnowledgeTypeOK, Entries, Items
<1>2. \A S \in SUBSET Entries : S \in SUBSET Nat /\ IsFiniteSet(S)
  BY EntriesAreFinite
<1>3. (\A e \in faq \cup objections : ItemScore[e] \in Nat) /\ \A c \in cards : CardScore[c] \in Nat
  BY ScoresAreNaturals DEF KnowledgeTypeOK, Items
<1>4. faq \cap cards = {} /\ faq \cap objections = {} /\ cards \cap objections = {}
  BY KnowledgeConstantsOK DEF KnowledgeTypeOK, Items
<1> QED BY <1>1, <1>2, <1>3, <1>4

\* A card that was kept stands behind the FAQ's items and within the context.
LEMMA CardsStandWithin ==
  ASSUME KnowledgeTypeOK, NEW c \in cards, c \in FaqContext
  PROVE  /\ Cardinality(faq) \in Nat /\ Cardinality(FaqContext) \in Nat
         /\ Rank(cards, CardScore, c) \in Nat /\ 1 <= Rank(cards, CardScore, c)
         /\ Cardinality(faq) + Rank(cards, CardScore, c) <= Cardinality(FaqContext)
<1> DEFINE X == {u \in cards : Before(CardScore, u, c)}
           Y == X \cup {c}
<1>0. /\ faq \in SUBSET Nat /\ IsFiniteSet(faq)
      /\ cards \in SUBSET Nat /\ IsFiniteSet(cards) /\ \A e \in cards : CardScore[e] \in Nat
      /\ faq \cap cards = {}
  BY ContextsAreRanked
<1>1. X \in SUBSET cards /\ c \notin X /\ Y \in SUBSET cards
  BY <1>0, BeforeIsAnOrder
<1>2. IsFiniteSet(X) /\ IsFiniteSet(Y)
  BY <1>0, <1>1, FS_Subset
<1>3. Rank(cards, CardScore, c) = Cardinality(Y)
  <2>1. Cardinality(Y) = Cardinality(X) + 1
    BY <1>1, <1>2, FS_AddElement
  <2> QED BY <2>1 DEF Rank
<1>4. Cardinality(faq) \in Nat /\ Cardinality(Y) \in Nat /\ Cardinality(X) \in Nat
  BY <1>0, <1>2, FS_CardinalityType
<1>5. Cardinality(faq) + Rank(cards, CardScore, c) <= ContextSize
  BY <1>0 DEF FaqContext
<1>6. Y \subseteq FaqContext
  <2> SUFFICES ASSUME NEW u \in X PROVE u \in FaqContext
    OBVIOUS
  <2>1. /\ Rank(cards, CardScore, u) \in Nat /\ Rank(cards, CardScore, c) \in Nat
        /\ Rank(cards, CardScore, u) < Rank(cards, CardScore, c)
    BY <1>0, RankGrows
  <2>2. Cardinality(faq) + Rank(cards, CardScore, u) <= ContextSize
    BY <1>4, <1>5, <2>1, KnowledgeConstantsOK
  <2> QED BY <2>2 DEF FaqContext
<1>7. FaqContext \in SUBSET (faq \cup cards) /\ faq \subseteq FaqContext
  BY DEF FaqContext
<1>8. IsFiniteSet(FaqContext)
  BY <1>0, <1>7, FS_Union, FS_Subset
<1>9. faq \cup Y \in SUBSET FaqContext /\ faq \cap Y = {}
  BY <1>0, <1>1, <1>6, <1>7
<1> HIDE DEF Y
<1>10. Cardinality(faq \cup Y) <= Cardinality(FaqContext) /\ Cardinality(FaqContext) \in Nat
  BY <1>8, <1>9, FS_Subset, FS_CardinalityType
<1>11. Cardinality(faq \cup Y) = Cardinality(faq) + Cardinality(Y)
  <2>1. Cardinality(faq \cup Y) = Cardinality(faq) + Cardinality(Y) - Cardinality(faq \cap Y)
    BY <1>0, <1>2, FS_Union
  <2>2. Cardinality(faq \cap Y) = 0
    BY <1>9, FS_EmptySet
  <2> QED BY <1>4, <2>1, <2>2
<1>12. 1 <= Cardinality(Y)
  <2>1. Cardinality(Y) = Cardinality(X) + 1
    BY <1>1, <1>2, FS_AddElement DEF Y
  <2> QED BY <1>4, <2>1
<1> QED BY <1>3, <1>4, <1>10, <1>11, <1>12

\* The places of a selection number its entries apart.
LEMMA PlacesTellApart ==
  ASSUME KnowledgeTypeOK
  PROVE  /\ \A e \in FaqContext \cup objections : Place(e) \in Nat
         /\ \A x, y \in FaqContext \cup objections : Place(x) = Place(y) => x = y
<1> DEFINE F == Cardinality(faq)
           C == Cardinality(FaqContext)
           K == {c \in cards : c \in FaqContext}
<1>0. /\ faq \in SUBSET Nat /\ IsFiniteSet(faq) /\ \A e \in faq : ItemScore[e] \in Nat
      /\ cards \in SUBSET Nat /\ IsFiniteSet(cards) /\ \A c \in cards : CardScore[c] \in Nat
      /\ objections \in SUBSET Nat /\ IsFiniteSet(objections)
      /\ \A e \in objections : ItemScore[e] \in Nat
      /\ faq \cap cards = {} /\ faq \cap objections = {} /\ cards \cap objections = {}
  BY ContextsAreRanked
<1>1. FaqContext = faq \cup K
  BY DEF FaqContext
<1>2. F \in Nat /\ C \in Nat /\ F <= C
  <2>1. FaqContext \in SUBSET (faq \cup cards) /\ faq \in SUBSET FaqContext
    BY DEF FaqContext
  <2>2. IsFiniteSet(FaqContext)
    BY <1>0, <2>1, FS_Union, FS_Subset
  <2> QED BY <1>0, <2>1, <2>2, FS_Subset, FS_CardinalityType
<1>3. ASSUME NEW e \in faq
      PROVE  Place(e) = Rank(faq, ItemScore, e) /\ Place(e) \in 1 .. F
  BY <1>0, RankIsBounded DEF Place
<1>4. ASSUME NEW c \in K
      PROVE  /\ Place(c) = F + Rank(cards, CardScore, c)
             /\ Rank(cards, CardScore, c) \in Nat
             /\ Place(c) \in (F + 1) .. C
  <2>1. Place(c) = F + Rank(cards, CardScore, c)
    BY <1>0 DEF Place
  <2>2. /\ Rank(cards, CardScore, c) \in Nat /\ 1 <= Rank(cards, CardScore, c)
        /\ F + Rank(cards, CardScore, c) <= C
    BY CardsStandWithin
  <2> HIDE DEF F, C, K
  <2> QED BY <1>2, <2>1, <2>2
<1>5. ASSUME NEW o \in objections
      PROVE  /\ Place(o) = C + Rank(objections, ItemScore, o)
             /\ Rank(objections, ItemScore, o) \in Nat
             /\ C < Place(o) /\ Place(o) \in Nat
  <2>1. Place(o) = C + Rank(objections, ItemScore, o)
    BY <1>0 DEF Place
  <2>2. Rank(objections, ItemScore, o) \in Nat /\ 1 <= Rank(objections, ItemScore, o)
    BY <1>0, RankIsPositive
  <2> HIDE DEF F, C
  <2> QED BY <1>2, <2>1, <2>2
<1> HIDE DEF F, C, K
<1>6. \A e \in FaqContext \cup objections : Place(e) \in Nat
  BY <1>1, <1>2, <1>3, <1>4, <1>5
<1>7. ASSUME NEW x \in FaqContext \cup objections, NEW y \in FaqContext \cup objections,
             Place(x) = Place(y)
      PROVE  x = y
  <2>1. CASE x \in faq /\ y \in faq
    BY <1>0, <1>3, <1>7, <2>1, RankTellsApart
  <2>2. CASE x \in K /\ y \in K
    <3>1. Rank(cards, CardScore, x) = Rank(cards, CardScore, y)
      BY <1>2, <1>4, <1>7, <2>2
    <3> QED BY <1>0, <2>2, <3>1, RankTellsApart DEF K
  <2>3. CASE x \in objections /\ y \in objections
    <3>1. Rank(objections, ItemScore, x) = Rank(objections, ItemScore, y)
      BY <1>2, <1>5, <1>7, <2>3
    <3> QED BY <1>0, <2>3, <3>1, RankTellsApart
  <2>4. CASE (x \in faq /\ y \in K) \/ (x \in K /\ y \in faq)
    BY <1>2, <1>3, <1>4, <1>7, <2>4
  <2>5. CASE (x \in faq /\ y \in objections) \/ (x \in objections /\ y \in faq)
    BY <1>2, <1>3, <1>5, <1>7, <2>5
  <2>6. CASE (x \in K /\ y \in objections) \/ (x \in objections /\ y \in K)
    BY <1>2, <1>4, <1>5, <1>7, <2>6
  <2>7. CASE x \in faq
    BY <1>1, <2>1, <2>4, <2>5, <2>7
  <2>8. CASE x \in K
    BY <1>1, <2>2, <2>4, <2>6, <2>8
  <2>9. CASE x \in objections
    BY <1>1, <2>3, <2>5, <2>6, <2>9
  <2> QED BY <1>1, <2>7, <2>8, <2>9
<1> QED BY <1>6, <1>7

\* An item the cut leaves out is beaten by as many others as the cut keeps.
LEMMA LeftOutIsBeaten ==
  ASSUME KnowledgeTypeOK, NEW i \in Faq, ItemScore[i] >= 80, i \notin MatchKnowledgeItems(Faq)
  PROVE  Cardinality({j \in Faq \ {i} : ItemScore[j] >= 80}) >= ItemLimit
<1> DEFINE T == {j \in Faq : ItemScore[j] > 0}
           X == {j \in T : Before(ItemScore, j, i)}
           H == {j \in Faq \ {i} : ItemScore[j] >= 80}
<1>1. \A j \in Faq : ItemScore[j] \in Nat
  BY ScoresAreNaturals DEF Items
<1>2. Faq \in SUBSET Entries
  BY DEF Entries, Items
<1>3. H \in SUBSET Entries /\ X \in SUBSET Entries
  BY <1>2
<1>4. IsFiniteSet(H) /\ Cardinality(H) \in Nat /\ Cardinality(X) \in Nat
  <2> HIDE DEF H, X
  <2> QED BY <1>3, EntriesAreFinite, FS_CardinalityType
<1>5. i \in T /\ Rank(T, ItemScore, i) = Cardinality(X) + 1
  BY <1>1 DEF Rank
<1>6. ~(Rank(T, ItemScore, i) <= ItemLimit)
  BY <1>5 DEF MatchKnowledgeItems, Best
<1>7. X \in SUBSET H
  <2> SUFFICES ASSUME NEW j \in X PROVE j \in H
    OBVIOUS
  <2>1. j \in Faq /\ Before(ItemScore, j, i) /\ j \in Nat /\ i \in Nat
    BY <1>2, EntriesAreFinite
  <2>2. j # i /\ ItemScore[j] >= ItemScore[i]
    BY <1>1, <2>1 DEF Before
  <2> QED BY <1>1, <2>1, <2>2
<1> HIDE DEF H, X, T
<1>8. Cardinality(X) <= Cardinality(H)
  BY <1>4, <1>7, FS_Subset
<1> QED BY <1>4, <1>5, <1>6, <1>8, KnowledgeConstantsOK DEF H

\* An answer that is made of entries on asked topics has them all, or as many as
\* it may have.
LEMMA AnswerHasAll ==
  ASSUME KnowledgeTypeOK, KnowledgeAnswer, NEW i \in OnTopic(FaqContext)
  PROVE  i \in answer' \/ Cardinality(OnTopic(answer)') = MaxTexts
<1> DEFINE f == [e \in Selected |-> Place(e)]
<1>1. Selected = OnTopic(FaqContext) \cup OnTopic(objections)
  BY DEF Selected
<1>2. Selected \in SUBSET (FaqContext \cup objections) /\ i \in Selected
  BY <1>1 DEF OnTopic
<1>3. IsFiniteSet(Selected)
  <2>1. FaqContext \cup objections \in SUBSET Entries
    BY DEF FaqContext, KnowledgeTypeOK, Entries, Items
  <2>2. Selected \in SUBSET Entries
    BY <1>2, <2>1
  <2> QED BY <2>2, EntriesAreFinite
<1>4. f \in [Selected -> Nat] /\ \A x, y \in Selected : f[x] = f[y] => x = y
  BY <1>2, PlacesTellApart
<1>5. answer' = {e \in Selected : Cardinality({g \in Selected : f[g] < f[e]}) < MaxTexts}
  <2>1. answer' = {e \in Selected :
                     Cardinality({g \in Selected : Place(g) < Place(e)}) < MaxTexts}
    BY DEF KnowledgeAnswer
  <2>2. \A e \in Selected : {g \in Selected : Place(g) < Place(e)}
                              = {g \in Selected : f[g] < f[e]}
    OBVIOUS
  <2> QED BY <2>1, <2>2
<1>6. MaxTexts \in Nat
  BY KnowledgeConstantsOK
<1> HIDE DEF f
<1>7. answer' = Selected \/ Cardinality(answer') = MaxTexts
  BY <1>3, <1>4, <1>5, <1>6, FirstOnes
<1>8. OnTopic(answer)' = answer'
  BY <1>1, <1>5 DEF KnowledgeAnswer, question, OnTopic, Wanted
<1> QED BY <1>2, <1>7, <1>8

\* A matching card the first cut leaves out has TopK better ones.
LEMMA LeftOutCards ==
  ASSUME KnowledgeTypeOK, NEW c \in Matching, c \notin RetrieveForTurn({atStage, AnyStage})
  PROVE  Cardinality(Better(c)) >= TopK
<1>1. Matching \in SUBSET Entries /\ Better(c) \in SUBSET Matching
  BY DEF Matching, Better, CandidateCards, KnowledgeTypeOK, Entries
<1>2. IsFiniteSet(Better(c)) /\ Cardinality(Better(c)) \in Nat
  <2>1. Better(c) \in SUBSET Entries
    BY <1>1
  <2> QED BY <2>1, EntriesAreFinite, FS_CardinalityType
<1>3. Rank(Matching, CardScore, c) = Cardinality(Better(c)) + 1
  BY DEF Rank, Better
<1>4. ~(Rank(Matching, CardScore, c) <= TopK)
  BY DEF RetrieveForTurn, Best, Matching
<1> QED BY <1>2, <1>3, <1>4, KnowledgeConstantsOK

\* What the retrieval of cards leaves: of the cards of the stage that may be offered,
\* those of the first cut, and then no others, or TopK better ones.
CardsInv ==
  phase \in {"answer", "done"} /\ asked.topics # {} =>
    \A c \in Matching :
      Answerable(c) =>
        \/ c \in cards /\ \A d \in cards : d \in Matching /\ Answerable(d)
        \/ Cardinality(Better(c)) >= TopK

LEMMA CardsOfTheStage ==
  ASSUME KnowledgeTypeOK, RetrieveAnswers, NEW c \in Matching, Answerable(c)
  PROVE  \/ c \in cards' /\ \A d \in cards' : d \in Matching /\ Answerable(d)
         \/ Cardinality(Better(c)) >= TopK
<1> DEFINE R == RetrieveForTurn({atStage, AnyStage})
<1>1. CASE c \in R
  <2>1. AnswerableCards(R) = {d \in R : Answerable(d)}
    BY <1>1 DEF AnswerableCards
  <2>2. cards' = {d \in R : Answerable(d)}
    BY <1>1, <2>1 DEF RetrieveAnswers
  <2>3. R \subseteq Matching
    BY DEF RetrieveForTurn, Best, Matching
  <2> QED BY <1>1, <2>2, <2>3
<1>2. CASE c \notin R
  BY <1>2, LeftOutCards
<1> QED BY <1>1, <1>2

\* A card the context leaves out stands behind the items and the better cards.
LEMMA LeftOutOfContext ==
  ASSUME KnowledgeTypeOK, NEW c \in cards, c \notin FaqContext,
         \A d \in cards : d \in Matching /\ Answerable(d)
  PROVE  Cardinality(faq) + Cardinality({d \in Better(c) : Answerable(d)}) >= ContextSize
<1> DEFINE X == {d \in cards : Before(CardScore, d, c)}
           B == {d \in Better(c) : Answerable(d)}
<1>1. IsFiniteSet(B) /\ Cardinality(B) \in Nat
  <2>1. B \in SUBSET Entries
    BY DEF Better, Matching, CandidateCards, KnowledgeTypeOK, Entries
  <2> HIDE DEF B
  <2> QED BY <2>1, EntriesAreFinite, FS_CardinalityType
<1>2. X \in SUBSET B
  BY DEF Better
<1>3. Rank(cards, CardScore, c) = Cardinality(X) + 1
  BY DEF Rank
<1>4. ~(Cardinality(faq) + Rank(cards, CardScore, c) <= ContextSize)
  BY DEF FaqContext
<1>5. Cardinality(faq) \in Nat
  BY ContextsAreRanked, FS_CardinalityType
<1> HIDE DEF X, B
<1>6. Cardinality(X) <= Cardinality(B) /\ Cardinality(X) \in Nat
  BY <1>1, <1>2, FS_Subset, FS_CardinalityType
<1> QED BY <1>1, <1>3, <1>4, <1>5, <1>6, KnowledgeConstantsOK DEF B

\* From the first cut on the context holds the items and the cards it kept.
RetrievalInv ==
  /\ KnowledgeTypeOK
  /\ phase # "static" => faq = MatchKnowledgeItems(Faq)
  /\ CardsInv
  /\ AskedIsAnswered
  /\ CardsAreAnswered

\* What an answer holds of the items and of the cards.
LEMMA AnswerHoldsItems ==
  ASSUME RetrievalInv, KnowledgeAnswer PROVE AskedIsAnswered'
<1>1. KnowledgeTypeOK /\ faq = MatchKnowledgeItems(Faq) /\ UNCHANGED question
  BY DEF RetrievalInv, KnowledgeAnswer
<1>2. ItemScore' = ItemScore
  BY <1>1 DEF question, ItemScore
<1> SUFFICES ASSUME NEW i \in Faq, TopicOf[i] \in asked.topics,
                    Canonical[TopicOf[i]] = TopicOf[i]
             PROVE  \/ i \in answer'
                    \/ Cardinality(OnTopic(answer)') = MaxTexts
                    \/ Cardinality({j \in Faq \ {i} : ItemScore[j] >= 80}) >= ItemLimit
  BY <1>1, <1>2 DEF AskedIsAnswered, question
<1>3. ItemScore[i] >= 80
  <2>1. TopicOf[i] \in Expanded(asked.topics)
    BY DEF Expanded
  <2>2. words[i] \in Nat /\ i \in Items
    BY <1>1, KnowledgeConstantsOK DEF KnowledgeTypeOK, Entries, Items
  <2> QED BY <2>1, <2>2 DEF ItemScore
<1>4. CASE i \in faq
  <2>1. i \in OnTopic(FaqContext)
    BY <1>4 DEF OnTopic, FaqContext, Wanted
  <2> QED BY <1>1, <2>1, AnswerHasAll
<1> QED BY <1>1, <1>3, <1>4, LeftOutIsBeaten

LEMMA AnswerHoldsCards ==
  ASSUME RetrievalInv, KnowledgeAnswer PROVE CardsAreAnswered'
<1>1. KnowledgeTypeOK /\ UNCHANGED <<question, faq, cards>> /\ phase = "answer"
  BY DEF RetrievalInv, KnowledgeAnswer
<1>2. /\ CardScore' = CardScore /\ Matching' = Matching
      /\ \A c : Better(c)' = Better(c) /\ Answerable(c)' = Answerable(c)
  BY <1>1 DEF question, CardScore, Matching, Better, CandidateCards, Answerable,
              IsWeakMentorOnlyMatch
<1> SUFFICES ASSUME NEW c \in Matching, Answerable(c), TopicOf[c] \in asked.topics,
                    ~(Cardinality(Better(c)) >= TopK)
             PROVE  \/ c \in answer'
                    \/ Cardinality(faq) + Cardinality({d \in Better(c) : Answerable(d)})
                         >= ContextSize
                    \/ Cardinality(OnTopic(answer)' \ Internal) = MaxTexts
  BY <1>1, <1>2 DEF CardsAreAnswered, question
<1>3. c \in cards /\ \A d \in cards : d \in Matching /\ Answerable(d)
  BY <1>1 DEF RetrievalInv, CardsInv
<1>4. CASE c \in FaqContext
  <2>1. c \in answer' \/ Cardinality(OnTopic(answer)') = MaxTexts
    BY <1>1, <1>4, AnswerHasAll DEF OnTopic, Wanted
  <2>2. answer' \subseteq faq \cup cards \cup objections
    BY DEF KnowledgeAnswer, Selected, OnTopic, FaqContext, Best
  <2>3. answer' \cap Internal = {}
    BY <1>1, <1>3, <2>2, KnowledgeConstantsOK DEF Answerable, KnowledgeTypeOK, Items
  <2>4. OnTopic(answer)' \ Internal = OnTopic(answer)'
    BY <2>3 DEF OnTopic
  <2> QED BY <2>1, <2>4
<1>5. CASE c \notin FaqContext
  BY <1>1, <1>3, <1>5, LeftOutOfContext
<1> QED BY <1>4, <1>5

\* Each step of the retrieval keeps what was kept.
LEMMA RetrievalStep == RetrievalInv /\ [KnowledgeNext]_knowledgeVars => RetrievalInv'
<1> SUFFICES ASSUME RetrievalInv, [KnowledgeNext]_knowledgeVars PROVE RetrievalInv'
  OBVIOUS
<1>1. KnowledgeTypeOK /\ KnowledgeTypeOK'
  BY KnowledgeStepInv DEF RetrievalInv
<1>2. UNCHANGED question
  BY DEF KnowledgeNext, RetrieveStatic, RetrieveAnswers, KnowledgeAnswer, knowledgeVars, question
<1>3. /\ ItemScore' = ItemScore
      /\ MatchKnowledgeItems(Faq)' = MatchKnowledgeItems(Faq)
  BY <1>2 DEF question, MatchKnowledgeItems, ItemScore
<1>4. phase' # "static" => faq' = MatchKnowledgeItems(Faq)
  BY DEF RetrievalInv, KnowledgeNext, RetrieveStatic, RetrieveAnswers, KnowledgeAnswer,
         knowledgeVars
<1>5. /\ Matching' = Matching
      /\ \A c : Better(c)' = Better(c) /\ Answerable(c)' = Answerable(c)
  BY <1>2 DEF question, CardScore, Matching, Better, CandidateCards, Answerable,
              IsWeakMentorOnlyMatch
<1>6. CardsInv'
  <2>1. CASE RetrieveAnswers
    BY <1>1, <1>2, <1>5, <2>1, CardsOfTheStage DEF CardsInv
  <2>2. CASE RetrieveStatic
    BY <1>2, <2>2 DEF CardsInv, RetrieveStatic, question
  <2>3. CASE KnowledgeAnswer \/ UNCHANGED knowledgeVars
    BY <1>2, <1>5, <2>3
    DEF RetrievalInv, CardsInv, KnowledgeAnswer, knowledgeVars, question
  <2> QED BY <2>1, <2>2, <2>3 DEF KnowledgeNext
<1>7. AskedIsAnswered' /\ CardsAreAnswered'
  <2>1. CASE KnowledgeAnswer
    BY <2>1, AnswerHoldsItems, AnswerHoldsCards
  <2>2. CASE phase' # "done"
    BY <2>2 DEF AskedIsAnswered, CardsAreAnswered
  <2>3. CASE UNCHANGED knowledgeVars
    <3>1. OnTopic(answer)' = OnTopic(answer)
      BY <2>3 DEF OnTopic, Wanted, knowledgeVars
    <3>2. AskedIsAnswered'
      BY <1>3, <2>3, <3>1 DEF RetrievalInv, AskedIsAnswered, knowledgeVars
    <3>3. CardsAreAnswered'
      BY <1>5, <2>3, <3>1 DEF RetrievalInv, CardsAreAnswered, knowledgeVars
    <3> QED BY <3>2, <3>3
  <2> QED BY <2>1, <2>2, <2>3 DEF KnowledgeNext, RetrieveStatic, RetrieveAnswers
<1> QED BY <1>1, <1>3, <1>4, <1>6, <1>7 DEF RetrievalInv

\* Before the answer nothing is owed.
LEMMA RetrievalInit == KnowledgeInit => RetrievalInv
BY KnowledgeInitInv
DEF KnowledgeInit, RetrievalInv, CardsInv, AskedIsAnswered, CardsAreAnswered

\* For any items, cards and points: what the FAQ says on a topic the candidate
\* asks about is in the answer, unless as many entries on the question's topics are
\* as an answer may have, or ItemLimit other items have the points of a topic.
THEOREM KnowledgeAnswersWhatIsAsked == KnowledgeSpec => []AskedIsAnswered
<1>1. RetrievalInv => AskedIsAnswered
  BY DEF RetrievalInv
<1> QED BY <1>1, RetrievalInit, RetrievalStep, PTL DEF KnowledgeSpec

\* For any items, cards, stages, points and limits: a card of the dialog's stage on
\* an asked topic reaches the answer unless the cuts, each for the reason it has,
\* leave it out; a card for internal use hides it only by being among the TopK best.
THEOREM KnowledgeCardsAreAnswered == KnowledgeSpec => []CardsAreAnswered
<1>1. RetrievalInv => CardsAreAnswered
  BY DEF RetrievalInv
<1> QED BY <1>1, RetrievalInit, RetrievalStep, PTL DEF KnowledgeSpec
=============================================================================
