--------------------------- MODULE TelegramPolling ---------------------------
(***************************************************************************)
(* TelegramPollingService with InboundPipelineService.enqueue: pollers (the *)
(* autopilot, the polling and the watching script) read Telegram's dialogs  *)
(* and histories and store each new message with one inbound event.         *)
(*                                                                          *)
(* A poll is one database transaction that stays open over its calls to     *)
(* CRMchat.  Every lookup sees what is committed and what the transaction   *)
(* itself wrote; an insert waits for another open transaction that holds    *)
(* the same unique key, and fails if that one commits.  Accounts are keyed  *)
(* by <<account>>, dialogs by <<account, peer>> (crmchat_dialog_id),        *)
(* messages and their events by <<account, peer, number>>.                  *)
(*                                                                          *)
(* langgraph_funnel_enabled is TRUE, the default: a dialog is found by its  *)
(* external id or its peer and never by username.                           *)
(***************************************************************************)
EXTENDS Naturals, Sequences, FiniteSets

CONSTANTS
  Pollers,       \* running copies of the service
  Accounts,      \* active Telegram accounts of the workspace
  Peers, People, \* whom they talk to; those who are users and no bots
  AllAccounts,   \* pollers that poll every active account
  DefaultAccount,\* the account the others poll
  Backlog,       \* how many messages of each chat are stored from the start
  HistoryLimit,  \* telegram_poll_history_limit
  Chats,         \* the accounts' chats, <<account, peer>>
  MaxMessages,   \* bound: messages of each chat
  MaxTroubles    \* bound: failed or limited calls, crashes, missing hashes

ASSUME PollingConstantsOK ==
  /\ People \subseteq Peers
  /\ AllAccounts \subseteq Pollers
  /\ DefaultAccount \in Accounts
  /\ HistoryLimit \in Nat \ {0}
  /\ Chats \subseteq Accounts \X Peers
  /\ MaxMessages \in [Chats -> Nat] /\ Backlog \in [Chats -> Nat]
  /\ \A c \in Chats : Backlog[c] <= MaxMessages[c]
  /\ \A c, d \in Chats : c[1] = d[1] /\ Backlog[c] > 0 /\ Backlog[d] > 0 => c = d
  /\ MaxTroubles \in Nat

VARIABLES
  chat,      \* how many messages Telegram has of each chat
  recent,    \* each account's peers at Telegram, the one of the newest message first
  db,        \* the committed rows
  tx,        \* the poll each poller is in
  troubles   \* how often a call failed so far

vars == <<chat, recent, db, tx, troubles>>

NoFunction == [k \in {} |-> k]
NoRows == [accounts |-> {}, dialogs |-> NoFunction, messages |-> NoFunction, events |-> NoFunction]

\* accounts and peers: those still to poll; todo: fetched messages still to store;
\* new: the rows of this transaction.
Resting == [pc |-> "idle", absent |-> FALSE, accounts |-> {}, account |-> "none",
            peers |-> <<>>, peer |-> "none", dialog |-> <<>>, todo |-> {}, new |-> NoRows]

Key(c, n) == <<c[1], c[2], n>>
MessageKeys == UNION {{Key(c, n) : n \in 1..MaxMessages[c]} : c \in Chats}

\* Rows written over those there are; one row.
Over(new, old) ==
  [k \in DOMAIN new \cup DOMAIN old |-> IF k \in DOMAIN new THEN new[k] ELSE old[k]]
Put(rows, key, row) == [k \in DOMAIN rows \cup {key} |-> IF k = key THEN row ELSE rows[k]]

Merged(old, new) ==
  [accounts |-> old.accounts \cup new.accounts,
   dialogs  |-> Over(new.dialogs, old.dialogs),
   messages |-> Over(new.messages, old.messages),
   events   |-> Over(new.events, old.events)]

Visible(w) == Merged(db, tx[w].new)
Keys(rows) == {<<a>> : a \in rows.accounts} \cup DOMAIN rows.dialogs \cup DOMAIN rows.messages

-----------------------------------------------------------------------------
(* Telegram and the shape of a poll.                                        *)

Latest(S) == CHOOSE n \in S : \A m \in S : m <= n

\* Faulty variant: the newest message only.
History_Newest(c) == {n \in 1..chat[c] : n = chat[c]}

\* messages.getHistory: the newest messages of the chat.
History(c) == {n \in 1..chat[c] : n + HistoryLimit > chat[c]}

Stored(c) == {n \in 1..MaxMessages[c] : Key(c, n) \in DOMAIN db.messages}

\* A message arrives or is sent; at most HistoryLimit of a person's are not stored
\* yet, so that a poll can still fetch them.
Say(c) ==
  /\ chat[c] < MaxMessages[c]
  /\ c[2] \in People => Cardinality(1..chat[c] \ Stored(c)) < HistoryLimit
  /\ chat' = [chat EXCEPT ![c] = @ + 1]
  /\ recent' = [recent EXCEPT ![c[1]] = <<c[2]>> \o SelectSeq(@, LAMBDA p : p # c[2])]
  /\ UNCHANGED <<db, tx, troubles>>

\* Faulty variant: only one account is polled.
NextAccount_Stop(t) == [t EXCEPT !.pc = IF t.pc = "idle" THEN "account" ELSE "commit",
                                  !.account = CHOOSE a \in Accounts : TRUE]

NextAccount(t) ==
  IF t.accounts = {} THEN [t EXCEPT !.pc = "commit"]
  ELSE LET a == CHOOSE b \in t.accounts : TRUE
       IN [t EXCEPT !.pc = "account", !.account = a, !.accounts = @ \ {a}, !.peers = <<>>]

Begin(w, accounts) ==
  /\ tx[w].pc = "idle"
  /\ tx' = [tx EXCEPT ![w] = NextAccount([Resting EXCEPT !.accounts = accounts])]
  /\ UNCHANGED <<chat, recent, db, troubles>>

PollOnce(w) == w \notin AllAccounts /\ Begin(w, {DefaultAccount})
PollAllActiveAccounts(w) == w \in AllAccounts /\ Begin(w, Accounts)

\* The run of an account is complete after its last dialog.
NextDialog(t) == IF t.peers = <<>> THEN NextAccount(t) ELSE [t EXCEPT !.pc = "dialog"]

GetDialogs(w) ==
  /\ tx[w].pc = "dialogs"
  /\ tx' = [tx EXCEPT ![w] = NextDialog([@ EXCEPT !.peers = recent[tx[w].account]])]
  /\ UNCHANGED <<chat, recent, db, troubles>>

-----------------------------------------------------------------------------
(* Looking up and storing rows.                                             *)

InitialDialogStatus(p) == IF p \in People THEN "pending_review" ELSE "ignored"

\* The dialog of the account and peer, else the one that any account has with the peer.
Matches(rows, a, p) ==
  IF <<a, p>> \in DOMAIN rows.dialogs THEN {<<a, p>>}
  ELSE {d \in DOMAIN rows.dialogs : d[2] = p}

CheckAccount(w) ==
  /\ tx[w].pc = "account" /\ ~tx[w].absent
  /\ tx' = [tx EXCEPT ![w] = IF @.account \in Visible(w).accounts THEN [@ EXCEPT !.pc = "dialogs"]
                             ELSE [@ EXCEPT !.absent = TRUE]]
  /\ UNCHANGED <<chat, recent, db, troubles>>

\* Two accounts can leave at most one dialog to be found by its peer; more than
\* one would be an error here (MultipleResultsFound).
CheckDialog(w) ==
  /\ tx[w].pc = "dialog" /\ ~tx[w].absent
  /\ LET t == [tx[w] EXCEPT !.peer = Head(tx[w].peers), !.peers = Tail(@)]
         found == Matches(Visible(w), t.account, t.peer)
     IN /\ Cardinality(found) <= 1
        /\ tx' = [tx EXCEPT ![w] = IF found = {} THEN [t EXCEPT !.absent = TRUE]
                                   ELSE [t EXCEPT !.pc = "history", !.dialog = CHOOSE d \in found : TRUE]]
  /\ UNCHANGED <<chat, recent, db, troubles>>

NextKey(t) == Key(<<t.account, t.peer>>, Latest(t.todo))

\* The next message, or after the oldest one the next dialog.
Stepped(t) == IF t.todo # {} THEN [t EXCEPT !.pc = "message", !.absent = FALSE]
              ELSE NextDialog([t EXCEPT !.absent = FALSE])
Passed(t) == Stepped([t EXCEPT !.todo = @ \ {Latest(@)}])

CheckMessage(w) ==
  /\ tx[w].pc = "message" /\ ~tx[w].absent
  /\ tx' = [tx EXCEPT ![w] = IF NextKey(@) \in DOMAIN Visible(w).messages THEN Passed(@)
                             ELSE [@ EXCEPT !.absent = TRUE]]
  /\ UNCHANGED <<chat, recent, db, troubles>>

NewEvent(dialog) == [account |-> dialog[1], dialog |-> dialog]

\* Faulty variant: a queued event of the dialog counts as a duplicate.
Enqueue_PerDialog(events, key, event) ==
  IF \E k \in DOMAIN events : events[k].dialog = event.dialog THEN events
  ELSE Put(events, key, event)

\* InboundPipelineService.enqueue, under the lock its message's key holds.
Enqueue(events, key, event) ==
  IF key \in DOMAIN db.events \cup DOMAIN events THEN events ELSE Put(events, key, event)

Inserted(t) ==
  CASE t.pc = "account" ->
         [t EXCEPT !.new.accounts = @ \cup {t.account}, !.pc = "dialogs", !.absent = FALSE]
    [] t.pc = "dialog" ->
         [t EXCEPT !.new.dialogs = Put(@, <<t.account, t.peer>>, InitialDialogStatus(t.peer)),
                   !.dialog = <<t.account, t.peer>>, !.pc = "history", !.absent = FALSE]
    [] t.pc = "message" ->
         Passed([t EXCEPT
           !.new.messages = Put(@, NextKey(t), t.dialog),
           !.new.events = Enqueue(@, NextKey(t), NewEvent(t.dialog))])

InsertKey(t) ==
  CASE t.pc = "account" -> <<t.account>>
    [] t.pc = "dialog" -> <<t.account, t.peer>>
    [] t.pc = "message" -> NextKey(t)

WaitsFor(w, v) == w # v /\ tx[w].absent /\ InsertKey(tx[w]) \in Keys(tx[v].new)

Insert(w) ==
  /\ tx[w].absent
  /\ \A v \in Pollers : ~WaitsFor(w, v)
  /\ InsertKey(tx[w]) \notin Keys(db)
  /\ tx' = [tx EXCEPT ![w] = Inserted(@)]
  /\ UNCHANGED <<chat, recent, db, troubles>>

\* The history of the dialog is fetched, unless the peer is no person.  What is
\* stored by then will be found so: only the other messages need a look.
GetHistory(w) ==
  /\ tx[w].pc = "history"
  /\ LET c == <<tx[w].account, tx[w].peer>>
         fresh == {n \in History(c) : Key(c, n) \notin DOMAIN Visible(w).messages}
     IN tx' = [tx EXCEPT ![w] =
          IF Visible(w).dialogs[@.dialog] = "ignored" THEN NextDialog(@)
          ELSE Stepped([@ EXCEPT !.todo = fresh])]
  /\ UNCHANGED <<chat, recent, db, troubles>>

-----------------------------------------------------------------------------
(* How a poll ends.                                                         *)

Commit(w) ==
  /\ tx[w].pc = "commit"
  /\ db' = Merged(db, tx[w].new)
  /\ tx' = [tx EXCEPT ![w] = Resting]
  /\ UNCHANGED <<chat, recent, troubles>>

RolledBack(w) == tx' = [tx EXCEPT ![w] = Resting]

\* Another transaction stored the row after this one had looked for it: the
\* session is unusable, so nothing of the poll is kept.
UniqueViolation(w) ==
  /\ tx[w].absent
  /\ InsertKey(tx[w]) \in Keys(db)
  /\ RolledBack(w)
  /\ UNCHANGED <<chat, recent, db, troubles>>

\* The database ends a cycle of waiting transactions.
DeadlockVictim(w) == \E v \in Pollers :
  /\ WaitsFor(w, v) /\ WaitsFor(v, w)
  /\ RolledBack(w)
  /\ UNCHANGED <<chat, recent, db, troubles>>

Trouble == troubles < MaxTroubles /\ troubles' = troubles + 1

InCall(w) == tx[w].pc = "dialogs" \/ (tx[w].pc = "history" /\ Visible(w).dialogs[tx[w].dialog] # "ignored")

\* The account's run is rate limited; what it stored so far stays.
FloodWait(w) ==
  /\ InCall(w) /\ Trouble
  /\ tx' = [tx EXCEPT ![w] = NextAccount(@)]
  /\ UNCHANGED <<chat, recent, db>>

\* Any other error of a call: one account's poll commits what it has, a poll of
\* all accounts loses everything.
CallFails(w) ==
  /\ InCall(w) /\ Trouble
  /\ IF w \in AllAccounts THEN RolledBack(w) ELSE tx' = [tx EXCEPT ![w].pc = "commit"]
  /\ UNCHANGED <<chat, recent, db>>

\* The answer lacks the peer's access hash.
NoAccessHash(w) ==
  /\ tx[w].pc = "history" /\ InCall(w) /\ Trouble
  /\ tx' = [tx EXCEPT ![w] = NextDialog(
        [tx[w] EXCEPT !.new.dialogs = Put(tx[w].new.dialogs, tx[w].dialog, "metadata_only")])]
  /\ UNCHANGED <<chat, recent, db>>

Crash(w) ==
  /\ tx[w].pc # "idle" /\ Trouble
  /\ RolledBack(w)
  /\ UNCHANGED <<chat, recent, db>>

-----------------------------------------------------------------------------
\* Some chats are known from earlier polls, at most one of each account.
OldChats == {c \in Chats : Backlog[c] > 0}
OldKeys == {k \in MessageKeys : k[3] <= Backlog[<<k[1], k[2]>>]}

Init ==
  /\ chat = Backlog
  /\ recent = [a \in Accounts |-> IF \E c \in OldChats : c[1] = a
                                 THEN <<(CHOOSE c \in OldChats : c[1] = a)[2]>> ELSE <<>>]
  /\ db = [accounts |-> {c[1] : c \in OldChats},
           dialogs  |-> [c \in OldChats |-> InitialDialogStatus(c[2])],
           messages |-> [k \in OldKeys |-> <<k[1], k[2]>>],
           events   |-> [k \in OldKeys |-> NewEvent(<<k[1], k[2]>>)]]
  /\ tx = [w \in Pollers |-> Resting]
  /\ troubles = 0

Poll(w) ==
  \/ CheckAccount(w) \/ GetDialogs(w) \/ CheckDialog(w) \/ GetHistory(w) \/ CheckMessage(w)
  \/ Insert(w) \/ Commit(w) \/ UniqueViolation(w) \/ DeadlockVictim(w)

Next ==
  \/ \E c \in Chats : Say(c)
  \/ \E w \in Pollers : \/ PollOnce(w) \/ PollAllActiveAccounts(w) \/ Poll(w)
                        \/ FloodWait(w) \/ CallFails(w) \/ NoAccessHash(w) \/ Crash(w)

\* A started poll goes on, the database hands a key that becomes free to whom
\* waits for it, and the autopilot polls all accounts again and again.
Fairness == \A w \in Pollers :
  WF_vars(Poll(w)) /\ SF_vars(Insert(w)) /\ WF_vars(PollAllActiveAccounts(w))

Spec == Init /\ [][Next]_vars /\ Fairness
-----------------------------------------------------------------------------
(* Correctness.                                                             *)

\* Whatever poll fails or overlaps another, each stored message has its one
\* inbound event, which names the message's dialog and the dialog's account; the
\* dialog is one with the peer the message was exchanged with, also when two
\* accounts talk to one peer.
StoredWithEvent ==
  /\ DOMAIN db.messages = DOMAIN db.events
  /\ \A k \in DOMAIN db.messages : /\ db.events[k] = NewEvent(db.messages[k])
                                   /\ db.messages[k][2] = k[2]

\* Messages are stored newest first, yet no interrupted poll leaves a newer
\* message in the database without the older ones.
NoGap == \A c \in Chats : \A n \in Stored(c) : 1..n \subseteq Stored(c)

\* Every message with a person is stored in the end, whatever polls overlap, fail,
\* wait for each other or crash, once the troubles are over.
AllStored == \A c \in Chats : c[2] \in People => Stored(c) = 1..chat[c]

EventuallyStored == []<>AllStored
=============================================================================
