---------------------------- MODULE WebhookReceiver ----------------------------
(***************************************************************************)
(* POST /webhooks/crmchat.  CRMchat delivers an event until it is answered  *)
(* with a 2xx; deliveries of one event may be handled at the same time.     *)
(* Each handler is one transaction that inserts a row into                  *)
(* crmchat_webhook_events and one into inbound_events; both tables have a   *)
(* unique constraint on the event's id, and an insert waits for another     *)
(* transaction that has inserted the same id and not ended yet.             *)
(*                                                                          *)
(* Only a delivery that passes the checks of signature, body and ids is     *)
(* followed.  A malformed event is one whose envelope does not parse (a     *)
(* date that is no date): the handler ends with an error each time.         *)
(***************************************************************************)
EXTENDS Integers, FiniteSets

CONSTANTS
  Events,      \* CRMchat events
  Malformed,   \* the events parse_webhook_envelope raises on
  Handlers,    \* requests handled at the same time
  MaxLost,     \* bound: handlers that crash and answers that get lost
  NoEvent      \* no event

ASSUME WebhookConstantsOK ==
  /\ Malformed \subseteq Events
  /\ MaxLost \in Nat
  /\ NoEvent \notin Events

VARIABLES
  webhookRows, \* rows of crmchat_webhook_events per event
  queueRows,   \* rows of inbound_events per event
  handling,    \* the event each handler works on
  at,          \* how far the handler has come
  answered,    \* events CRMchat has a 2xx for
  lost         \* handlers crashed and answers lost so far

webhookVars == <<webhookRows, queueRows, handling, at, answered, lost>>

WebhookInit ==
  /\ webhookRows = [e \in Events |-> 0]
  /\ queueRows = [e \in Events |-> 0]
  /\ handling = [h \in Handlers |-> NoEvent]
  /\ at = [h \in Handlers |-> "idle"]
  /\ answered = {}
  /\ lost = 0

\* Uncommitted inserts: a handler past the insert holds the event's id.
Holds(h, e) == handling[h] = e /\ at[h] \in {"enqueue", "commit"}

\* The handler ends and its answer is a 2xx, or an error.
HandlerEnds(h, ok) ==
  /\ at' = [at EXCEPT ![h] = "idle"]
  /\ handling' = [handling EXCEPT ![h] = NoEvent]
  /\ answered' = IF ok THEN answered \cup {handling[h]} ELSE answered

HandlerMoves(h, place) ==
  /\ at' = [at EXCEPT ![h] = place]
  /\ UNCHANGED <<handling, answered>>

DeliverWebhook(h, e) ==
  /\ at[h] = "idle"
  /\ e \notin answered
  /\ handling' = [handling EXCEPT ![h] = e]
  /\ at' = [at EXCEPT ![h] = "check"]
  /\ UNCHANGED <<webhookRows, queueRows, answered, lost>>

\* parse_webhook_envelope raises on a malformed event.
Parses(e) == e \notin Malformed

\* Faulty variant: no look for the event before the insert.
CheckDuplicate_NoLookup(h) ==
  /\ at[h] = "check"
  /\ IF ~Parses(handling[h]) THEN HandlerEnds(h, FALSE) ELSE HandlerMoves(h, "insert")
  /\ UNCHANGED <<webhookRows, queueRows, lost>>

\* parse_webhook_envelope, then get_by_event_id.
CheckDuplicate(h) ==
  /\ at[h] = "check"
  /\ IF ~Parses(handling[h]) THEN HandlerEnds(h, FALSE)
     ELSE IF webhookRows[handling[h]] > 0 THEN HandlerEnds(h, TRUE)
     ELSE HandlerMoves(h, "insert")
  /\ UNCHANGED <<webhookRows, queueRows, lost>>

\* Faulty variant: the event's row is committed on its own.
InsertWebhookEvent_Commits(h) ==
  /\ at[h] = "insert"
  /\ \A k \in Handlers \ {h} : ~Holds(k, handling[h])
  /\ IF webhookRows[handling[h]] > 0
     THEN HandlerEnds(h, FALSE) /\ UNCHANGED webhookRows
     ELSE /\ HandlerMoves(h, "enqueue")
          /\ webhookRows' = [webhookRows EXCEPT ![handling[h]] = @ + 1]
  /\ UNCHANGED <<queueRows, lost>>

\* repository.add: the unique violation is not caught, the answer is a 500.
InsertWebhookEvent(h) ==
  /\ at[h] = "insert"
  /\ \A k \in Handlers \ {h} : ~Holds(k, handling[h])
  /\ IF webhookRows[handling[h]] > 0 THEN HandlerEnds(h, FALSE) ELSE HandlerMoves(h, "enqueue")
  /\ UNCHANGED <<webhookRows, queueRows, lost>>

\* InboundPipelineService.enqueue: a duplicate is answered without a commit.
EnqueueInbound(h) ==
  /\ at[h] = "enqueue"
  /\ IF queueRows[handling[h]] > 0 THEN HandlerEnds(h, TRUE) ELSE HandlerMoves(h, "commit")
  /\ UNCHANGED <<webhookRows, queueRows, lost>>

\* The commit, and the answer that may not arrive.
CommitWebhook(h, arrives) ==
  /\ at[h] = "commit"
  /\ webhookRows' = [webhookRows EXCEPT ![handling[h]] = @ + 1]
  /\ queueRows' = [queueRows EXCEPT ![handling[h]] = @ + 1]
  /\ ~arrives => lost < MaxLost
  /\ lost' = IF arrives THEN lost ELSE lost + 1
  /\ HandlerEnds(h, arrives)

\* The process dies, or the connection to the database: a rollback.
HandlerCrashes(h) ==
  /\ at[h] # "idle"
  /\ lost < MaxLost
  /\ lost' = lost + 1
  /\ HandlerEnds(h, FALSE)
  /\ UNCHANGED <<webhookRows, queueRows>>

HandlerRuns(h) ==
  \/ CheckDuplicate(h)
  \/ InsertWebhookEvent(h)
  \/ EnqueueInbound(h)
  \/ \E arrives \in BOOLEAN : CommitWebhook(h, arrives)

WebhookNext ==
  \E h \in Handlers :
    \/ \E e \in Events : DeliverWebhook(h, e)
    \/ HandlerRuns(h)
    \/ HandlerCrashes(h)

WebhookSpec == WebhookInit /\ [][WebhookNext]_webhookVars

\* CRMchat delivers again what it has no 2xx for, and the server has no limit on
\* its requests: that all Handlers are busy with other events only delays a
\* delivery.  A handler runs to its end.
WebhookFairness ==
  /\ \A e \in Events :
       SF_webhookVars(\E h \in Handlers : DeliverWebhook(h, e))
  /\ \A h \in Handlers : WF_webhookVars(HandlerRuns(h))

-----------------------------------------------------------------------------
WebhookTypeOK ==
  /\ webhookRows \in [Events -> Nat]
  /\ queueRows \in [Events -> Nat]
  /\ handling \in [Handlers -> Events \cup {NoEvent}]
  /\ at \in [Handlers -> {"idle", "check", "insert", "enqueue", "commit"}]
  /\ \A h \in Handlers : at[h] = "idle" <=> handling[h] = NoEvent
  /\ answered \subseteq Events
  /\ lost \in 0 .. MaxLost

\* However often and however concurrently an event is delivered, it is stored
\* once, it is in the inbound queue exactly when it is stored, and one that
\* CRMchat will not deliver again is: no 2xx, "duplicate" included, goes out
\* before another handler's commit (receive_crmchat_webhook).
StoredOnceWithItsTask ==
  \A e \in Events : /\ webhookRows[e] = queueRows[e] /\ queueRows[e] \in {0, 1}
                    /\ e \in answered => queueRows[e] = 1

\* In spite of crashes, lost answers and the 500 of a race, every event that
\* parses is answered with a 2xx in the end.
EveryWebhookAnswered == \A e \in Events \ Malformed : <>(e \in answered)
=============================================================================
