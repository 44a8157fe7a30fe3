------------------------------- MODULE MCServices -------------------------------
(***************************************************************************)
(* One run for four services that share no state: the webhook receiver, the *)
(* accounts, the upload of voices and the retrieval of knowledge.  A        *)
(* behaviour follows one of them, the others stand still.                   *)
(***************************************************************************)
EXTENDS WebhookReceiver, AccountSync, VoiceUpload, KnowledgeRetrieval, TLC

CONSTANTS e1, e2, h1, h2, autopilot, script, v1, v2, f1

VARIABLE part

MCStableFileId == [v \in Voices |-> f1]

\* Two topics, one of them with a second name; the FAQ has two items on one
\* topic, more than ItemLimit items in all, and the cards are one for internal
\* use and one of the mentor's, both of any stage, and one of the late stage that is
\* neither and that the two others can keep out of the TopK best.
MCTopics == {"pay", "salary", "room"}
MCCanonical == [t \in MCTopics |-> IF t = "salary" THEN "pay" ELSE t]
MCAliases == [t \in MCTopics |-> IF t = "pay" THEN {"salary"} ELSE {}]
MCTopicOf ==
  1 :> "room" @@ 2 :> "pay" @@ 3 :> "pay" @@ 4 :> "room"
  @@ 5 :> "pay" @@ 6 :> "room" @@ 7 :> "pay"
MCStageOf == 5 :> "any" @@ 6 :> "any" @@ 7 :> "late"

Others(p) ==
  /\ p # "webhook" => UNCHANGED webhookVars
  /\ p # "accounts" => UNCHANGED accountVars
  /\ p # "voice" => UNCHANGED voiceVars
  /\ p # "knowledge" => UNCHANGED knowledgeVars

Init ==
  /\ part \in {"webhook", "accounts", "voice", "knowledge"}
  /\ WebhookInit
  /\ AccountInit /\ remote = IF part = "accounts" THEN {2} ELSE {}
  /\ VoiceInit
  /\ IF part = "knowledge"
     THEN KnowledgeInit /\ asked.topic \in {{}, {"room"}} /\ 7 \in live
     ELSE /\ KnowledgeInit
          /\ asked = [topics |-> {}, topic |-> {}, objection |-> FALSE]
          /\ live = {}
          /\ atStage = "early"
          /\ words = [e \in Entries |-> 0]

Next ==
  /\ \/ part = "webhook" /\ WebhookNext
     \/ part = "accounts" /\ AccountNext
     \/ part = "voice" /\ VoiceNext
     \/ part = "knowledge" /\ KnowledgeNext
  /\ Others(part)
  /\ UNCHANGED part

vars == <<webhookVars, accountVars, voiceVars, knowledgeVars, part>>

\* A part that stands still has no duties: the fairness is that of the part the
\* behaviour follows.
Spec ==
  /\ Init
  /\ [][Next]_vars
  /\ part = "webhook" => WebhookFairness
  /\ part = "accounts" => AccountFairness

\* What a service owes, said of the behaviours that follow it: every event that
\* parses is answered (webhooks.py), every account that stays active comes back
\* into service (account_sync.py).
WebhooksAnswered == part = "webhook" => EveryWebhookAnswered
AccountsComeBack == part = "accounts" => BackInService
=============================================================================
