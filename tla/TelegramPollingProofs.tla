------------------------- MODULE TelegramPollingProofs -------------------------
(***************************************************************************)
(* TelegramPolling for any pollers, accounts, peers and chats, and however  *)
(* many calls fail: a stored message has its one inbound event, of the      *)
(* dialog with the peer it was exchanged with, and no message is stored     *)
(* without the older ones of its chat.                                      *)
(*                                                                          *)
(* For the second, a poll that is storing a history together with what it   *)
(* has still to store must have no gap, whatever others committed meanwhile *)
(* (Whole), and a history must reach back to what is stored (InReach).      *)
(***************************************************************************)
EXTENDS TelegramPolling, FiniteSetTheorems, WellFoundedInduction, TLAPS

PollFields == {"pc", "absent", "accounts", "account", "peers", "peer", "dialog", "todo", "new"}
RowFields == {"accounts", "dialogs", "messages", "events"}

\* Rows in which every message has its event.
Paired(rows) ==
  /\ DOMAIN rows = RowFields
  /\ DOMAIN rows.messages = DOMAIN rows.events
  /\ \A k \in DOMAIN rows.messages : /\ rows.events[k] = NewEvent(rows.messages[k])
                                     /\ rows.messages[k][2] = k[2]

\* A poll that writes such rows, into the dialog of the peer it is at.
PollOK(t) ==
  /\ DOMAIN t = PollFields
  /\ t.absent => t.pc \in {"account", "dialog", "message"}
  /\ t.pc \in {"history", "message"} => t.dialog[2] = t.peer
  /\ t.pc = "message" /\ t.absent => NextKey(t) \notin DOMAIN t.new.messages
  /\ Paired(t.new)

Inv ==
  /\ Paired(db)
  /\ DOMAIN tx = Pollers
  /\ \A w \in Pollers : PollOK(tx[w])

(***************************************************************************)
(* Rows.                                                                    *)
(***************************************************************************)

\* What a poll adds to the rows it sees keeps them paired.
LEMMA MergedPaired ==
  ASSUME NEW old, NEW new, Paired(old), Paired(new)
  PROVE  Paired(Merged(old, new))
<1> DEFINE m == Merged(old, new)
<1>1. /\ DOMAIN m = RowFields
      /\ m.messages = Over(new.messages, old.messages)
      /\ m.events = Over(new.events, old.events)
  BY DEF Merged, RowFields
<1>2. /\ DOMAIN m.messages = DOMAIN new.messages \cup DOMAIN old.messages
      /\ DOMAIN m.events = DOMAIN new.events \cup DOMAIN old.events
      /\ \A k \in DOMAIN m.messages :
           m.messages[k] = IF k \in DOMAIN new.messages THEN new.messages[k] ELSE old.messages[k]
      /\ \A k \in DOMAIN m.events :
           m.events[k] = IF k \in DOMAIN new.events THEN new.events[k] ELSE old.events[k]
  BY <1>1 DEF Over
<1> HIDE DEF m
<1> QED BY <1>1, <1>2 DEF Paired, m

\* A message is stored with its event.
LEMMA StoredPaired ==
  ASSUME NEW rows, Paired(rows), NEW key, NEW dialog, dialog[2] = key[2],
         key \notin DOMAIN db.events, key \notin DOMAIN rows.messages,
         NEW new, DOMAIN new = RowFields,
         new.messages = Put(rows.messages, key, dialog),
         new.events = Enqueue(rows.events, key, NewEvent(dialog))
  PROVE  Paired(new)
<1>1. /\ DOMAIN new.messages = DOMAIN rows.messages \cup {key}
      /\ \A k \in DOMAIN new.messages :
           new.messages[k] = IF k = key THEN dialog ELSE rows.messages[k]
  BY DEF Put
<1>2. new.events = Put(rows.events, key, NewEvent(dialog))
  BY DEF Enqueue, Paired
<1>3. /\ DOMAIN new.events = DOMAIN rows.events \cup {key}
      /\ \A k \in DOMAIN new.events :
           new.events[k] = IF k = key THEN NewEvent(dialog) ELSE rows.events[k]
  BY <1>2 DEF Put
<1> QED BY <1>1, <1>3 DEF Paired

\* A new poll has written nothing.
LEMMA RestingOK == PollOK(Resting)
<1>1. /\ DOMAIN Resting = PollFields /\ Resting.pc = "idle" /\ ~Resting.absent
      /\ Resting.new = NoRows
  BY DEF Resting, PollFields
<1>2. Paired(NoRows)
  BY DEF Paired, NoRows, NoFunction, RowFields
<1> QED BY <1>1, <1>2 DEF PollOK

(***************************************************************************)
(* How a poll moves on.                                                     *)
(***************************************************************************)

\* On to the next account, the next dialog, the next message.
Moves(t, u) ==
  /\ DOMAIN u = PollFields /\ u.new = t.new
  /\ \/ u.pc \in {"commit", "account", "dialog"}
     \/ u.pc = "message" /\ u.dialog = t.dialog /\ u.peer = t.peer /\ ~u.absent

LEMMA MovingOn ==
  ASSUME NEW t, DOMAIN t = PollFields
  PROVE  /\ Moves(t, Stepped(t)) /\ Moves(t, Passed(t))
         /\ ~Stepped(t).absent /\ ~Passed(t).absent
         /\ Moves(t, NextAccount(t)) /\ NextAccount(t).pc \in {"commit", "account"}
         /\ Moves(t, NextDialog(t)) /\ NextDialog(t).pc \in {"commit", "account", "dialog"}
         /\ ~t.absent => ~NextAccount(t).absent /\ ~NextDialog(t).absent
<1>1. ASSUME NEW v, DOMAIN v = PollFields
      PROVE  /\ Moves(v, NextAccount(v)) /\ NextAccount(v).pc \in {"commit", "account"}
             /\ NextAccount(v).absent = v.absent
  BY <1>1 DEF NextAccount, PollFields, Moves
<1>2. ASSUME NEW v, DOMAIN v = PollFields
      PROVE  /\ Moves(v, NextDialog(v)) /\ NextDialog(v).pc \in {"commit", "account", "dialog"}
             /\ NextDialog(v).absent = v.absent
  <2>1. CASE v.peers = <<>>
    BY <1>1, <1>2, <2>1 DEF NextDialog
  <2>2. CASE v.peers # <<>>
    BY <1>2, <2>2 DEF NextDialog, PollFields, Moves
  <2> QED BY <2>1, <2>2
<1>3. ASSUME NEW v, DOMAIN v = PollFields PROVE Moves(v, Stepped(v)) /\ ~Stepped(v).absent
  <2> DEFINE x == [v EXCEPT !.absent = FALSE]
             y == [v EXCEPT !.pc = "message", !.absent = FALSE]
  <2>1. DOMAIN x = PollFields /\ x.new = v.new /\ ~x.absent
    BY <1>3 DEF PollFields
  <2>2. Moves(v, y) /\ ~y.absent
    BY <1>3 DEF PollFields, Moves
  <2>3. Stepped(v) = y \/ Stepped(v) = NextDialog(x)
    BY DEF Stepped
  <2> HIDE DEF x, y
  <2>4. /\ Moves(x, NextDialog(x)) /\ NextDialog(x).pc \in {"commit", "account", "dialog"}
        /\ ~NextDialog(x).absent
    BY <1>2, <2>1
  <2> QED BY <2>1, <2>2, <2>3, <2>4 DEF Moves
<1>4. Moves(t, Passed(t)) /\ ~Passed(t).absent
  <2> DEFINE x == [t EXCEPT !.todo = @ \ {Latest(@)}]
  <2>1. DOMAIN x = PollFields /\ x.new = t.new /\ x.dialog = t.dialog /\ x.peer = t.peer
    BY DEF PollFields
  <2>2. Passed(t) = Stepped(x)
    BY DEF Passed
  <2> HIDE DEF x
  <2> QED BY <1>3, <2>1, <2>2 DEF Moves
<1> QED BY <1>1, <1>2, <1>3, <1>4

\* Moving on keeps what a poll has written.
LEMMA MovesOK ==
  ASSUME NEW t, NEW u, Moves(t, u), Paired(t.new), ~u.absent,
         u.pc = "message" => t.dialog[2] = t.peer
  PROVE  PollOK(u)
BY DEF Moves, PollOK

(***************************************************************************)
(* Every message has its event.                                             *)
(***************************************************************************)

\* Known chats are stored with their events.
LEMMA InitInv == Init => Inv
<1> SUFFICES ASSUME Init PROVE Inv
  OBVIOUS
<1>1. /\ DOMAIN db = RowFields
      /\ db.messages = [k \in OldKeys |-> <<k[1], k[2]>>]
      /\ db.events = [k \in OldKeys |-> NewEvent(<<k[1], k[2]>>)]
  BY DEF Init, RowFields
<1>2. Paired(db)
  BY <1>1 DEF Paired
<1>3. \A w \in Pollers : PollOK(tx[w])
  BY RestingOK DEF Init
<1> QED BY <1>2, <1>3 DEF Init, Inv

\* A step of one poll.
LEMMA PollStep ==
  ASSUME Inv, NEW w \in Pollers, NEW t, PollOK(t), tx' = [tx EXCEPT ![w] = t], UNCHANGED db
  PROVE  Inv'
BY DEF Inv

\* A poll ends without a trace.
LEMMA RolledBackInv ==
  ASSUME Inv, NEW w \in Pollers, RolledBack(w), UNCHANGED db
  PROVE  Inv'
BY PollStep, RestingOK DEF RolledBack

\* Storing what was found missing.
LEMMA InsertedOK ==
  ASSUME Inv, NEW w \in Pollers, Insert(w) PROVE PollOK(Inserted(tx[w]))
<1> DEFINE t == tx[w]
<1>1. PollOK(t) /\ t.absent /\ InsertKey(t) \notin Keys(db)
  BY DEF Insert, Inv
<1> HIDE DEF t
<1>2. DOMAIN t = PollFields /\ Paired(t.new) /\ DOMAIN t.new = RowFields
  BY <1>1 DEF PollOK, Paired
<1>3. CASE t.pc = "account"
  <2> DEFINE u == [t EXCEPT !.new.accounts = @ \cup {t.account}, !.pc = "dialogs", !.absent = FALSE]
  <2>1. Inserted(t) = u
    BY <1>3 DEF Inserted
  <2>2. /\ DOMAIN u = PollFields /\ u.pc = "dialogs" /\ ~u.absent /\ DOMAIN u.new = RowFields
        /\ u.new.messages = t.new.messages /\ u.new.events = t.new.events
    BY <1>2 DEF PollFields, RowFields
  <2> HIDE DEF u
  <2>3. Paired(u.new)
    BY <1>2, <2>2 DEF Paired
  <2> QED BY <2>1, <2>2, <2>3 DEF PollOK, t
<1>4. CASE t.pc = "dialog"
  <2> DEFINE u == [t EXCEPT !.new.dialogs = Put(@, <<t.account, t.peer>>, InitialDialogStatus(t.peer)),
                            !.dialog = <<t.account, t.peer>>, !.pc = "history", !.absent = FALSE]
  <2>1. Inserted(t) = u
    BY <1>4 DEF Inserted
  <2>2. /\ DOMAIN u = PollFields /\ u.pc = "history" /\ ~u.absent /\ DOMAIN u.new = RowFields
        /\ u.new.messages = t.new.messages /\ u.new.events = t.new.events
        /\ u.dialog = <<t.account, t.peer>> /\ u.peer = t.peer
    BY <1>2 DEF PollFields, RowFields
  <2> HIDE DEF u
  <2>3. Paired(u.new)
    BY <1>2, <2>2 DEF Paired
  <2> QED BY <2>1, <2>2, <2>3 DEF PollOK, t
<1>5. CASE t.pc = "message"
  <2> DEFINE key == NextKey(t)
             v == [t EXCEPT !.new.messages = Put(@, key, t.dialog),
                            !.new.events = Enqueue(@, key, NewEvent(t.dialog))]
  <2>1. Inserted(t) = Passed(v)
    BY <1>5 DEF Inserted
  <2>2. /\ DOMAIN v = PollFields /\ DOMAIN v.new = RowFields
        /\ v.new.messages = Put(t.new.messages, key, t.dialog)
        /\ v.new.events = Enqueue(t.new.events, key, NewEvent(t.dialog))
        /\ v.dialog = t.dialog /\ v.peer = t.peer
    BY <1>2 DEF PollFields, RowFields
  <2>3. key[2] = t.peer
    BY DEF NextKey, Key
  <2>4. key \notin DOMAIN db.events /\ key \notin DOMAIN t.new.messages /\ t.dialog[2] = t.peer
    BY <1>1, <1>5 DEF Keys, InsertKey, Inv, Paired, PollOK
  <2> HIDE DEF key, v
  <2>5. Paired(v.new)
    BY <1>2, <2>2, <2>3, <2>4, StoredPaired
  <2>6. Moves(v, Passed(v)) /\ ~Passed(v).absent
    BY <2>2, MovingOn
  <2> QED BY <2>1, <2>2, <2>4, <2>5, <2>6, MovesOK DEF t
<1>6. t.pc \in {"account", "dialog", "message"}
  BY <1>1 DEF PollOK
<1> QED BY <1>3, <1>4, <1>5, <1>6

\* What a poll is after a step that asks for no row.
LEMMA MovedOK ==
  ASSUME NEW t, PollOK(t), ~t.absent
  PROVE  PollOK(NextAccount(t)) /\ PollOK(NextDialog(t))
<1>1. DOMAIN t = PollFields /\ Paired(t.new)
  BY DEF PollOK
<1>2. /\ Moves(t, NextAccount(t)) /\ NextAccount(t).pc # "message" /\ ~NextAccount(t).absent
      /\ Moves(t, NextDialog(t)) /\ NextDialog(t).pc # "message" /\ ~NextDialog(t).absent
  BY <1>1, MovingOn
<1> QED BY <1>1, <1>2, MovesOK

\* Each step of a poll keeps what it relies on.
LEMMA NextInv == Inv /\ [Next]_vars => Inv'
<1> SUFFICES ASSUME Inv, [Next]_vars PROVE Inv'
  OBVIOUS
<1>0. ASSUME NEW w \in Pollers
      PROVE  /\ PollOK(tx[w]) /\ DOMAIN tx[w] = PollFields /\ Paired(tx[w].new)
             /\ DOMAIN tx[w].new = RowFields
  BY <1>0 DEF Inv, PollOK, Paired
<1>1. ASSUME UNCHANGED <<db, tx>> PROVE Inv'
  BY <1>1 DEF Inv
<1>2. ASSUME NEW w \in Pollers, NEW accounts, Begin(w, accounts) PROVE Inv'
  <2> DEFINE t == [Resting EXCEPT !.accounts = accounts]
  <2>1. PollOK(t) /\ ~t.absent
    <3>1. DOMAIN t = PollFields /\ t.pc = "idle" /\ ~t.absent /\ t.new = Resting.new
      BY DEF Resting, PollFields
    <3> HIDE DEF t
    <3> QED BY <3>1, RestingOK DEF PollOK
  <2>2. tx' = [tx EXCEPT ![w] = NextAccount(t)] /\ UNCHANGED db
    BY <1>2 DEF Begin
  <2> HIDE DEF t
  <2> QED BY <2>1, <2>2, MovedOK, PollStep
<1>3. ASSUME NEW w \in Pollers, CheckAccount(w) PROVE Inv'
  <2> DEFINE t == tx[w]
             found == [t EXCEPT !.pc = "dialogs"]
             absent == [t EXCEPT !.absent = TRUE]
  <2>1. PollOK(found) /\ PollOK(absent)
    BY <1>0, <1>3 DEF CheckAccount, PollOK, PollFields
  <2>2. \/ tx' = [tx EXCEPT ![w] = found]
        \/ tx' = [tx EXCEPT ![w] = absent]
    BY <1>3 DEF CheckAccount
  <2>3. UNCHANGED db
    BY <1>3 DEF CheckAccount
  <2> HIDE DEF found, absent
  <2> QED BY <2>1, <2>2, <2>3, PollStep
<1>4. ASSUME NEW w \in Pollers, GetDialogs(w) PROVE Inv'
  <2> DEFINE t == [tx[w] EXCEPT !.peers = recent[tx[w].account]]
  <2>1. PollOK(t) /\ ~t.absent
    BY <1>0, <1>4 DEF GetDialogs, PollOK, PollFields
  <2>2. tx' = [tx EXCEPT ![w] = NextDialog(t)] /\ UNCHANGED db
    BY <1>4 DEF GetDialogs
  <2> HIDE DEF t
  <2> QED BY <2>1, <2>2, MovedOK, PollStep
<1>5. ASSUME NEW w \in Pollers, CheckDialog(w) PROVE Inv'
  <2> DEFINE t == [tx[w] EXCEPT !.peer = Head(tx[w].peers), !.peers = Tail(@)]
             among == Matches(Visible(w), t.account, t.peer)
             dialog == CHOOSE d \in among : TRUE
             found == [t EXCEPT !.pc = "history", !.dialog = dialog]
             absent == [t EXCEPT !.absent = TRUE]
  <2>1. /\ tx[w].pc = "dialog" /\ ~tx[w].absent /\ UNCHANGED db
        /\ tx' = [tx EXCEPT ![w] = IF among = {} THEN absent ELSE found]
    BY <1>5 DEF CheckDialog
  <2>2. /\ DOMAIN t = PollFields /\ t.pc = "dialog" /\ ~t.absent /\ t.new = tx[w].new
    BY <1>0, <2>1 DEF PollFields
  <2>3. \A d \in among : d[2] = t.peer
    BY DEF Matches
  <2>4. CASE among = {}
    <3>1. PollOK(absent)
      BY <1>0, <2>2 DEF PollOK, PollFields
    <3> HIDE DEF absent, among
    <3> QED BY <2>1, <2>4, <3>1, PollStep
  <2>5. CASE among # {}
    <3>1. dialog \in among
      BY <2>5
    <3>2. /\ DOMAIN found = PollFields /\ found.pc = "history" /\ ~found.absent
          /\ found.new = tx[w].new /\ found.dialog = dialog /\ found.peer = t.peer
      BY <2>2 DEF PollFields
    <3> HIDE DEF found, dialog, among
    <3>3. PollOK(found)
      BY <1>0, <2>3, <3>1, <3>2 DEF PollOK
    <3> QED BY <2>1, <2>5, <3>3, PollStep
  <2> QED BY <2>4, <2>5
<1>6. ASSUME NEW w \in Pollers, GetHistory(w) PROVE Inv'
  <2>1. PICK todo : /\ UNCHANGED db
                    /\ \/ tx' = [tx EXCEPT ![w] = NextDialog(tx[w])]
                       \/ tx' = [tx EXCEPT ![w] = Stepped([tx[w] EXCEPT !.todo = todo])]
    BY <1>6 DEF GetHistory
  <2>2. tx[w].pc = "history" /\ ~tx[w].absent
    BY <1>0, <1>6 DEF GetHistory, PollOK
  <2> DEFINE t == [tx[w] EXCEPT !.todo = todo]
  <2>3. /\ DOMAIN t = PollFields /\ t.new = tx[w].new
        /\ t.dialog = tx[w].dialog /\ t.peer = tx[w].peer
    BY <1>0 DEF PollFields
  <2> HIDE DEF t
  <2>4. PollOK(Stepped(t))
    BY <1>0, <2>2, <2>3, MovingOn, MovesOK DEF PollOK
  <2> QED BY <1>0, <2>1, <2>2, <2>4, MovedOK, PollStep DEF t
<1>7. ASSUME NEW w \in Pollers, CheckMessage(w) PROVE Inv'
  <2> DEFINE t == tx[w]
             absent == [t EXCEPT !.absent = TRUE]
  <2>1. /\ t.pc = "message" /\ ~t.absent /\ UNCHANGED db
        /\ tx' = [tx EXCEPT ![w] = IF NextKey(t) \in DOMAIN Visible(w).messages
                                   THEN Passed(t) ELSE absent]
    BY <1>7 DEF CheckMessage
  <2>2. PollOK(Passed(t))
    BY <1>0, <2>1, MovingOn, MovesOK DEF PollOK
  <2>3. ASSUME NextKey(t) \notin DOMAIN Visible(w).messages PROVE PollOK(absent)
    <3>1. DOMAIN Visible(w).messages = DOMAIN t.new.messages \cup DOMAIN db.messages
      BY DEF Visible, Merged, Over
    <3>2. /\ DOMAIN absent = PollFields /\ absent.pc = "message" /\ absent.new = t.new
          /\ absent.dialog = t.dialog /\ absent.peer = t.peer /\ NextKey(absent) = NextKey(t)
      BY <1>0, <2>1 DEF PollFields, NextKey
    <3> HIDE DEF absent
    <3> QED BY <1>0, <2>1, <2>3, <3>1, <3>2 DEF PollOK
  <2> HIDE DEF absent, t
  <2> QED BY <2>1, <2>2, <2>3, PollStep DEF t
<1>8. ASSUME NEW w \in Pollers, Insert(w) PROVE Inv'
  BY <1>8, InsertedOK, PollStep DEF Insert
<1>9. ASSUME NEW w \in Pollers, Commit(w) PROVE Inv'
  BY <1>0, <1>9, MergedPaired, RestingOK DEF Commit, Inv
<1>10. ASSUME NEW w \in Pollers, FloodWait(w) \/ CallFails(w) \/ NoAccessHash(w) PROVE Inv'
  <2> DEFINE t == tx[w]
             ended == [t EXCEPT !.pc = "commit"]
             marked == [t EXCEPT !.new.dialogs = Put(@, tx[w].dialog, "metadata_only")]
  <2>1. InCall(w) /\ UNCHANGED db
    BY <1>10 DEF FloodWait, CallFails, NoAccessHash
  <2>2. t.pc \in {"dialogs", "history"} /\ ~t.absent
    BY <1>0, <2>1 DEF InCall, PollOK
  <2>3. PollOK(ended)
    BY <1>0, <2>2 DEF PollOK, PollFields
  <2>4. PollOK(marked) /\ ~marked.absent
    <3>1. /\ DOMAIN marked = PollFields /\ ~marked.absent /\ marked.pc = t.pc
          /\ marked.dialog = t.dialog /\ marked.peer = t.peer
          /\ DOMAIN marked.new = RowFields
          /\ marked.new.messages = t.new.messages /\ marked.new.events = t.new.events
      BY <1>0, <2>2 DEF PollFields, RowFields
    <3> HIDE DEF marked
    <3>2. Paired(marked.new)
      BY <1>0, <3>1 DEF Paired
    <3> QED BY <1>0, <2>2, <3>1, <3>2 DEF PollOK
  <2>5. \/ tx' = [tx EXCEPT ![w] = NextAccount(t)]
        \/ tx' = [tx EXCEPT ![w] = ended]
        \/ tx' = [tx EXCEPT ![w] = NextDialog(marked)]
        \/ RolledBack(w)
    BY <1>0, <1>10 DEF FloodWait, CallFails, NoAccessHash
  <2> HIDE DEF ended, marked
  <2> QED BY <1>0, <2>1, <2>2, <2>3, <2>4, <2>5, MovedOK, PollStep, RolledBackInv
<1>11. ASSUME NEW w \in Pollers, UniqueViolation(w) \/ DeadlockVictim(w) \/ Crash(w) PROVE Inv'
  BY <1>11, RolledBackInv DEF UniqueViolation, DeadlockVictim, Crash
<1>12. ASSUME NEW c \in Chats, Say(c) PROVE Inv'
  BY <1>1, <1>12 DEF Say
<1>13. CASE UNCHANGED vars
  BY <1>1, <1>13 DEF vars
<1> QED BY <1>2, <1>3, <1>4, <1>5, <1>6, <1>7, <1>8, <1>9, <1>10, <1>11, <1>12, <1>13
     DEF Next, Poll, PollOnce, PollAllActiveAccounts

\* Inv holds in every reachable state.
LEMMA InvHolds == Spec => []Inv
BY InitInv, NextInv, PTL DEF Spec

\* However polls overlap and fail, a stored message has its event, of a dialog
\* with the peer it was exchanged with.
THEOREM PollingStoredWithEvent == Spec => []StoredWithEvent
<1>1. Inv => StoredWithEvent
  BY DEF Inv, Paired, StoredWithEvent
<1> QED BY <1>1, InvHolds, PTL

(***************************************************************************)
(* No gaps.                                                                 *)
(***************************************************************************)

\* The messages of a chat that a poll has stored, and has still to store.
New(t, c) == {n \in 1..MaxMessages[c] : Key(c, n) \in DOMAIN t.new.messages}
Pending(t, c) == IF t.pc = "message" /\ c = <<t.account, t.peer>> THEN t.todo ELSE {}
Known(t, c) == Stored(c) \cup New(t, c) \cup Pending(t, c)

\* With what a poll still has to store, it leaves no message out.
Whole(t, c) ==
  /\ Pending(t, c) \subseteq 1..MaxMessages[c]
  /\ \A n \in New(t, c) \cup Pending(t, c) : 1..n \subseteq Known(t, c)

OnlyPeople(dialogs) == \A d \in DOMAIN dialogs : d[2] \notin People => dialogs[d] = "ignored"

PollWhole(t) ==
  /\ OnlyPeople(t.new.dialogs)
  /\ t.pc = "history" => t.dialog \in DOMAIN t.new.dialogs \cup DOMAIN db.dialogs
  /\ t.pc = "message" => t.todo # {}
  /\ \A c \in Chats : Whole(t, c)

\* A history holds what of the chat is not stored.
InReach(c) == c[2] \in People => \A n \in 1..chat[c] : n + HistoryLimit <= chat[c] => n \in Stored(c)

WholeInv ==
  /\ chat \in [Chats -> Nat]
  /\ \A c \in Chats : chat[c] <= MaxMessages[c] /\ InReach(c)
  /\ OnlyPeople(db.dialogs)
  /\ NoGap
  /\ \A w \in Pollers : PollWhole(tx[w])

\* A set of messages has a latest one.
LEMMA LatestIn ==
  ASSUME NEW m \in Nat, NEW S \in SUBSET (1..m), S # {}
  PROVE  Latest(S) \in S
<1> DEFINE R == OpToRel(<, Nat)
           T == {m - n : n \in S}
<1>1. IsWellFoundedOn(R, Nat)
  BY NatLessThanWellFounded
<1>2. \A x, y \in Nat : <<x, y>> \in R <=> x < y
  BY DEF OpToRel
<1> HIDE DEF R
<1>3. T \subseteq Nat /\ T # {}
  <2>1. \A n \in S : n \in 1..m /\ m - n \in Nat
    OBVIOUS
  <2>2. PICK n \in S : TRUE
    OBVIOUS
  <2> QED BY <2>1, <2>2
<1>4. PICK x \in T : \A y \in T : ~(<<y, x>> \in R)
  BY <1>1, <1>3, WFMin
<1>5. PICK n \in S : x = m - n
  BY <1>4
<1>6. \A k \in S : k <= n
  <2> TAKE k \in S
  <2>1. m - k \in T /\ m - k \in Nat /\ x \in Nat
    BY <1>3, <1>4
  <2>2. ~(m - k < x)
    BY <1>2, <1>4, <2>1
  <2> QED BY <1>5, <2>2
<1> QED BY <1>6 DEF Latest

\* At the start everything is stored.
LEMMA InitWhole == Init => WholeInv
<1> SUFFICES ASSUME Init PROVE WholeInv
  OBVIOUS
<1> USE PollingConstantsOK
<1>1. chat = Backlog /\ chat \in [Chats -> Nat] /\ \A c \in Chats : chat[c] <= MaxMessages[c]
  BY DEF Init
<1>2. DOMAIN db.messages = OldKeys
  BY DEF Init
<1>3. ASSUME NEW c \in Chats PROVE Stored(c) = 1..Backlog[c]
  <2>1. ASSUME NEW n \in 1..MaxMessages[c] PROVE Key(c, n) \in OldKeys <=> n <= Backlog[c]
    <3>1. c = <<c[1], c[2]>>
      BY <1>3
    <3>2. Key(c, n) \in MessageKeys
      BY <1>3, <2>1 DEF MessageKeys
    <3>3. Key(c, n)[3] = n /\ <<Key(c, n)[1], Key(c, n)[2]>> = c
      BY <3>1 DEF Key
    <3> QED BY <3>2, <3>3 DEF OldKeys
  <2>2. Backlog[c] \in Nat /\ MaxMessages[c] \in Nat /\ Backlog[c] <= MaxMessages[c]
    BY <1>3
  <2> QED BY <1>2, <2>1, <2>2 DEF Stored
<1>4. \A c \in Chats : InReach(c)
  <2> TAKE c \in Chats
  <2>1. Stored(c) = 1..chat[c]
    BY <1>1, <1>3
  <2> QED BY <2>1 DEF InReach
<1>5. NoGap
  <2> SUFFICES ASSUME NEW c \in Chats, NEW n \in Stored(c) PROVE 1..n \subseteq Stored(c)
    BY DEF NoGap
  <2>1. Stored(c) = 1..Backlog[c] /\ Backlog[c] \in Nat
    BY <1>3
  <2> QED BY <2>1
<1>6. OnlyPeople(db.dialogs)
  <2>1. db.dialogs = [c \in OldChats |-> InitialDialogStatus(c[2])]
    BY DEF Init
  <2> QED BY <2>1 DEF OnlyPeople, InitialDialogStatus
<1>7. PollWhole(Resting)
  <2>1. /\ Resting.pc = "idle" /\ DOMAIN Resting.new.dialogs = {}
        /\ DOMAIN Resting.new.messages = {}
    BY DEF Resting, NoRows, NoFunction
  <2> QED BY <2>1 DEF PollWhole, OnlyPeople, Whole, New, Pending
<1> QED BY <1>1, <1>4, <1>5, <1>6, <1>7 DEF Init, WholeInv

\* A poll that has stored nothing yet.
LEMMA QuietWhole ==
  ASSUME NEW u, DOMAIN u.new.dialogs = {}, DOMAIN u.new.messages = {},
         u.pc \notin {"history", "message"}
  PROVE  PollWhole(u)
BY DEF PollWhole, OnlyPeople, Whole, New, Pending

\* A step between histories.
LEMMA SettledWhole ==
  ASSUME NEW t, NEW u, PollWhole(t), t.pc # "message", OnlyPeople(u.new.dialogs),
         u.new.messages = t.new.messages, u.pc # "message",
         u.pc = "history" => u.dialog \in DOMAIN u.new.dialogs \cup DOMAIN db.dialogs
  PROVE  PollWhole(u)
<1>1. ASSUME NEW c \in Chats PROVE New(u, c) = New(t, c) /\ Pending(u, c) = {} /\ Pending(t, c) = {}
  BY DEF New, Pending
<1>2. \A c \in Chats : Whole(u, c)
  BY <1>1 DEF PollWhole, Whole, Known
<1> QED BY <1>2 DEF PollWhole

\* A step of one poll leaves the others whole.
LEMMA WholeStep ==
  ASSUME WholeInv, Inv, NEW w \in Pollers, NEW u, PollWhole(u), tx' = [tx EXCEPT ![w] = u],
         UNCHANGED <<chat, db>>
  PROVE  WholeInv'
<1>1. \A c : Stored(c)' = Stored(c)
  BY DEF Stored
<1>2. /\ (\A c \in Chats : chat[c] <= MaxMessages[c] /\ InReach(c))'
      /\ NoGap'
  BY <1>1 DEF WholeInv, InReach, NoGap
<1>3. \A t : PollWhole(t) => PollWhole(t)'
  BY <1>1 DEF PollWhole, Whole, Known, New, Pending, OnlyPeople
<1>4. (\A v \in Pollers : PollWhole(tx[v]))'
  <2> TAKE v \in Pollers
  <2>1. tx'[v] = IF v = w THEN u ELSE tx[v]
    BY DEF Inv
  <2>2. PollWhole(tx'[v])
    BY <2>1 DEF WholeInv
  <2> QED BY <1>3, <2>2
<1> QED BY <1>2, <1>4 DEF WholeInv, OnlyPeople

\* The next message: the latest one is no longer pending.
LEMMA PassedPending ==
  ASSUME NEW t, DOMAIN t = PollFields, t.pc = "message"
  PROVE  /\ Passed(t).new = t.new /\ Passed(t).pc # "history"
         /\ Passed(t).pc = "message" => Passed(t).todo # {}
         /\ \A c : Pending(Passed(t), c) = Pending(t, c) \ {Latest(t.todo)}
<1> DEFINE x == [t EXCEPT !.todo = @ \ {Latest(@)}]
           y == [x EXCEPT !.pc = "message", !.absent = FALSE]
           z == [x EXCEPT !.absent = FALSE]
           left == t.todo \ {Latest(t.todo)}
<1>1. /\ DOMAIN x = PollFields /\ x.new = t.new /\ x.todo = left /\ x.pc = "message"
      /\ x.account = t.account /\ x.peer = t.peer
  BY DEF PollFields
<1>2. Passed(t) = IF x.todo # {} THEN y ELSE NextDialog(z)
  BY DEF Passed, Stepped
<1> HIDE DEF x, left
<1>3. /\ y.new = t.new /\ y.todo = left /\ y.pc = "message"
      /\ y.account = t.account /\ y.peer = t.peer
  BY <1>1 DEF PollFields
<1>4. DOMAIN z = PollFields /\ z.new = t.new
  BY <1>1 DEF PollFields
<1> HIDE DEF y, z
<1>5. Moves(z, NextDialog(z)) /\ NextDialog(z).pc \in {"commit", "account", "dialog"}
  BY <1>4, MovingOn
<1>6. CASE left # {}
  <2>1. Passed(t) = y
    BY <1>1, <1>2, <1>6
  <2> QED BY <1>3, <1>6, <2>1 DEF Pending, left
<1>7. CASE left = {}
  <2>1. Passed(t) = NextDialog(z)
    BY <1>1, <1>2, <1>7
  <2>2. Passed(t).new = t.new /\ Passed(t).pc \in {"commit", "account", "dialog"}
    BY <1>4, <1>5, <2>1 DEF Moves
  <2>3. \A c : Pending(Passed(t), c) = {}
    BY <2>2 DEF Pending
  <2> QED BY <1>7, <2>2, <2>3 DEF Pending, left
<1> QED BY <1>6, <1>7

\* Each step of a poll leaves it whole.
LEMMA HistoryWhole ==
  ASSUME Inv, WholeInv, NEW w \in Pollers, GetHistory(w)
  PROVE  WholeInv'
<1> DEFINE t == tx[w]
           c == <<t.account, t.peer>>
           fresh == {n \in History(c) : Key(c, n) \notin DOMAIN Visible(w).messages}
           x == [t EXCEPT !.todo = fresh]
<1>1. /\ t.pc = "history" /\ ~t.absent /\ DOMAIN t = PollFields /\ t.dialog[2] = t.peer
      /\ PollWhole(t)
  BY DEF GetHistory, Inv, PollOK, WholeInv
<1>2. /\ UNCHANGED <<chat, db>>
      /\ tx' = [tx EXCEPT ![w] = IF Visible(w).dialogs[t.dialog] = "ignored" THEN NextDialog(t)
                                 ELSE Stepped(x)]
  BY DEF GetHistory
<1>3. PollWhole(NextDialog(t))
  <2>1. Moves(t, NextDialog(t)) /\ NextDialog(t).pc \in {"commit", "account", "dialog"}
    BY <1>1, MovingOn
  <2> QED BY <1>1, <2>1, SettledWhole DEF Moves, PollWhole
<1>4. ASSUME Visible(w).dialogs[t.dialog] # "ignored" PROVE PollWhole(Stepped(x))
  <2>1. t.peer \in People
    <3>1. Visible(w).dialogs = Over(t.new.dialogs, db.dialogs)
      BY DEF Visible, Merged
    <3>2. OnlyPeople(t.new.dialogs) /\ OnlyPeople(db.dialogs)
      BY <1>1 DEF PollWhole, WholeInv
    <3>3. t.dialog \in DOMAIN t.new.dialogs \cup DOMAIN db.dialogs
      BY <1>1 DEF PollWhole
    <3>4. Visible(w).dialogs[t.dialog]
            = IF t.dialog \in DOMAIN t.new.dialogs THEN t.new.dialogs[t.dialog]
              ELSE db.dialogs[t.dialog]
      BY <3>1, <3>3 DEF Over
    <3> QED BY <1>1, <1>4, <3>2, <3>3, <3>4 DEF OnlyPeople
  <2>2. DOMAIN Visible(w).messages = DOMAIN t.new.messages \cup DOMAIN db.messages
    BY DEF Visible, Merged, Over
  <2> DEFINE y == [x EXCEPT !.pc = "message", !.absent = FALSE]
             z == [x EXCEPT !.absent = FALSE]
  <2>3. Stepped(x) = IF fresh # {} THEN y ELSE NextDialog(z)
    BY <1>1 DEF Stepped, PollFields
  <2>4. /\ y.new = t.new /\ y.todo = fresh /\ y.pc = "message"
        /\ y.account = t.account /\ y.peer = t.peer
    BY <1>1 DEF PollFields
  <2>5. DOMAIN z = PollFields /\ z.new = t.new
    BY <1>1 DEF PollFields
  <2> HIDE DEF x, y, z
  <2>6. PollWhole(NextDialog(z))
    <3>1. /\ Moves(z, NextDialog(z)) /\ NextDialog(z).pc \in {"commit", "account", "dialog"}
          /\ NextDialog(z).new = t.new
      BY <2>5, MovingOn DEF Moves
    <3> QED BY <1>1, <3>1, SettledWhole DEF PollWhole
  <2>7. ASSUME fresh # {} PROVE PollWhole(y)
    <3>1. ASSUME NEW d \in Chats PROVE Whole(y, d)
      <4>1. New(y, d) = New(t, d) /\ Pending(t, d) = {} /\ Whole(t, d)
        BY <1>1, <2>4 DEF New, Pending, PollWhole
      <4>2. CASE d # c
        <5>1. Pending(y, d) = {}
          BY <2>4, <4>2 DEF Pending
        <5> QED BY <4>1, <5>1 DEF Whole, Known
      <4>3. CASE d = c
        <5>1. Pending(y, d) = fresh
          BY <2>4, <4>3 DEF Pending
        <5>2. chat[d] \in Nat /\ MaxMessages[d] \in Nat /\ chat[d] <= MaxMessages[d] /\ InReach(d)
          BY PollingConstantsOK DEF WholeInv
        <5>3. d[2] \in People
          BY <2>1, <4>3
        <5>4. fresh \subseteq 1..chat[d]
          BY <4>3 DEF History
        <5>5. ASSUME NEW m \in 1..chat[d] PROVE m \in Known(y, d)
          <6>1. m \in 1..MaxMessages[d]
            BY <5>2
          <6>2. CASE m + HistoryLimit <= chat[d]
            BY <5>2, <5>3, <6>2 DEF InReach, Known
          <6>3. CASE ~(m + HistoryLimit <= chat[d])
            <7>1. m \in History(d)
              BY <5>2, <6>3, PollingConstantsOK DEF History
            <7>2. m \in fresh \/ Key(d, m) \in DOMAIN t.new.messages \cup DOMAIN db.messages
              BY <2>2, <4>3, <7>1
            <7> QED BY <4>1, <5>1, <6>1, <7>2 DEF Known, New, Stored
          <6> QED BY <6>2, <6>3
        <5>6. ASSUME NEW n \in fresh PROVE 1..n \subseteq Known(y, d)
          BY <5>2, <5>4, <5>5
        <5>7. \A n \in New(y, d) : 1..n \subseteq Known(y, d)
          BY <4>1 DEF Whole, Known
        <5>8. fresh \subseteq 1..MaxMessages[d]
          BY <5>2, <5>4
        <5> QED BY <5>1, <5>6, <5>7, <5>8 DEF Whole
      <4> QED BY <4>2, <4>3
    <3> QED BY <1>1, <2>4, <2>7, <3>1 DEF PollWhole
  <2> QED BY <2>3, <2>6, <2>7
<1> HIDE DEF t, fresh, x
<1> QED BY <1>2, <1>3, <1>4, WholeStep DEF t

\* What is found stored need not be stored.
LEMMA FoundWhole ==
  ASSUME Inv, WholeInv, NEW w \in Pollers, CheckMessage(w)
  PROVE  WholeInv'
<1> DEFINE t == tx[w]
           absent == [t EXCEPT !.absent = TRUE]
<1>1. t.pc = "message" /\ DOMAIN t = PollFields /\ PollWhole(t)
  BY DEF CheckMessage, Inv, PollOK, WholeInv
<1>2. /\ UNCHANGED <<chat, db>>
      /\ tx' = [tx EXCEPT ![w] = IF NextKey(t) \in DOMAIN Visible(w).messages
                                 THEN Passed(t) ELSE absent]
  BY DEF CheckMessage
<1>3. DOMAIN Visible(w).messages = DOMAIN t.new.messages \cup DOMAIN db.messages
  BY DEF Visible, Merged, Over
<1>4. PollWhole(absent)
  <2>1. /\ absent.new = t.new /\ absent.pc = t.pc /\ absent.todo = t.todo
        /\ absent.account = t.account /\ absent.peer = t.peer /\ absent.dialog = t.dialog
    BY <1>1 DEF PollFields
  <2> HIDE DEF absent, t
  <2>2. \A c : New(absent, c) = New(t, c) /\ Pending(absent, c) = Pending(t, c)
    BY <2>1 DEF New, Pending
  <2> QED BY <1>1, <2>1, <2>2 DEF PollWhole, Whole, Known
<1> HIDE DEF t, absent
<1>5. ASSUME NextKey(t) \in DOMAIN Visible(w).messages PROVE PollWhole(Passed(t))
  <2> DEFINE u == Passed(t)
             last == Latest(t.todo)
  <2>1. /\ u.new = t.new /\ u.pc # "history" /\ (u.pc = "message" => u.todo # {})
        /\ \A c : Pending(u, c) = Pending(t, c) \ {last}
    BY <1>1, PassedPending
  <2> HIDE DEF u, last
  <2>2. ASSUME NEW c \in Chats PROVE Whole(u, c)
    <3>1. New(u, c) = New(t, c) /\ Whole(t, c) /\ Pending(u, c) = Pending(t, c) \ {last}
      BY <1>1, <2>1 DEF New, PollWhole
    <3>2. last \in Pending(t, c) => last \in Stored(c) \cup New(t, c)
      <4> HAVE last \in Pending(t, c)
      <4>1. c = <<t.account, t.peer>> /\ last \in 1..MaxMessages[c]
        BY <3>1 DEF Pending, Whole
      <4>2. NextKey(t) = Key(c, last)
        BY <4>1 DEF NextKey, last
      <4> QED BY <1>3, <1>5, <4>1, <4>2 DEF Stored, New
    <3>3. Known(u, c) = Known(t, c)
      BY <3>1, <3>2 DEF Known
    <3> QED BY <3>1, <3>3 DEF Whole
  <2> QED BY <1>1, <2>1, <2>2 DEF PollWhole, u
<1> QED BY <1>2, <1>4, <1>5, WholeStep DEF t

\* An inserted message is no longer pending but stored.
LEMMA InsertWhole ==
  ASSUME Inv, WholeInv, NEW w \in Pollers, Insert(w)
  PROVE  WholeInv'
<1> DEFINE t == tx[w]
<1>1. PollWhole(t) /\ PollOK(t) /\ t.absent
  BY DEF Insert, Inv, WholeInv
<1>2. tx' = [tx EXCEPT ![w] = Inserted(t)] /\ UNCHANGED <<chat, db>>
  BY DEF Insert
<1> HIDE DEF t
<1>3. DOMAIN t = PollFields /\ DOMAIN t.new = RowFields
  BY <1>1 DEF PollOK, Paired
<1>4. CASE t.pc = "account"
  <2> DEFINE u == [t EXCEPT !.new.accounts = @ \cup {t.account}, !.pc = "dialogs", !.absent = FALSE]
  <2>1. Inserted(t) = u
    BY <1>4 DEF Inserted
  <2>2. /\ u.pc = "dialogs" /\ u.new.messages = t.new.messages /\ u.new.dialogs = t.new.dialogs
    BY <1>3 DEF PollFields, RowFields
  <2> HIDE DEF u
  <2>3. PollWhole(u)
    BY <1>1, <1>4, <2>2, SettledWhole DEF PollWhole
  <2> QED BY <1>2, <2>1, <2>3, WholeStep
<1>5. CASE t.pc = "dialog"
  <2> DEFINE u == [t EXCEPT !.new.dialogs = Put(@, <<t.account, t.peer>>, InitialDialogStatus(t.peer)),
                            !.dialog = <<t.account, t.peer>>, !.pc = "history", !.absent = FALSE]
             dialog == <<t.account, t.peer>>
  <2>1. Inserted(t) = u
    BY <1>5 DEF Inserted
  <2>2. /\ u.pc = "history" /\ u.dialog = dialog /\ u.new.messages = t.new.messages
        /\ u.new.dialogs = Put(t.new.dialogs, dialog, InitialDialogStatus(t.peer))
    BY <1>3 DEF PollFields, RowFields
  <2> HIDE DEF u
  <2>3. /\ DOMAIN u.new.dialogs = DOMAIN t.new.dialogs \cup {dialog}
        /\ \A d \in DOMAIN u.new.dialogs :
             u.new.dialogs[d] = IF d = dialog THEN InitialDialogStatus(t.peer) ELSE t.new.dialogs[d]
    BY <2>2 DEF Put
  <2>4. OnlyPeople(u.new.dialogs)
    <3>1. dialog[2] = t.peer
      OBVIOUS
    <3> QED BY <1>1, <2>3, <3>1 DEF OnlyPeople, InitialDialogStatus, PollWhole
  <2>5. PollWhole(u)
    BY <1>1, <1>5, <2>2, <2>3, <2>4, SettledWhole
  <2> QED BY <1>2, <2>1, <2>5, WholeStep
<1>6. CASE t.pc = "message"
  <2> DEFINE key == NextKey(t)
             last == Latest(t.todo)
             v == [t EXCEPT !.new.messages = Put(@, key, t.dialog),
                            !.new.events = Enqueue(@, key, NewEvent(t.dialog))]
             u == Passed(v)
  <2>1. Inserted(t) = u
    BY <1>6 DEF Inserted
  <2>2. /\ DOMAIN v = PollFields /\ v.pc = "message" /\ v.todo = t.todo
        /\ v.account = t.account /\ v.peer = t.peer
        /\ v.new.dialogs = t.new.dialogs
        /\ v.new.messages = Put(t.new.messages, key, t.dialog)
    BY <1>3, <1>6 DEF PollFields, RowFields
  <2>3. key = Key(<<t.account, t.peer>>, last)
    BY DEF NextKey
  <2> HIDE DEF v, key, last
  <2>4. /\ u.new = v.new /\ u.pc # "history" /\ (u.pc = "message" => u.todo # {})
        /\ \A c : Pending(u, c) = Pending(v, c) \ {last}
    BY <2>2, PassedPending DEF last
  <2> HIDE DEF u
  <2>5. DOMAIN u.new.messages = DOMAIN t.new.messages \cup {key}
    BY <2>2, <2>4 DEF Put
  <2>6. ASSUME NEW c \in Chats PROVE Whole(u, c)
    <3>1. Whole(t, c) /\ Pending(u, c) = Pending(t, c) \ {last}
      BY <1>1, <1>6, <2>2, <2>4 DEF Pending, PollWhole
    <3>2. CASE c = <<t.account, t.peer>>
      <4>1. Pending(t, c) = t.todo /\ t.todo # {} /\ t.todo \subseteq 1..MaxMessages[c]
        BY <1>1, <1>6, <3>1, <3>2 DEF Pending, PollWhole, Whole
      <4>2. last \in t.todo
        BY <4>1, LatestIn, PollingConstantsOK DEF last
      <4>3. \A n : Key(c, n) = key <=> n = last
        BY <2>3, <3>2 DEF Key
      <4>4. New(u, c) = New(t, c) \cup {last}
        BY <2>5, <4>1, <4>2, <4>3 DEF New
      <4>5. New(u, c) \cup Pending(u, c) = New(t, c) \cup Pending(t, c)
        BY <3>1, <4>1, <4>2, <4>4
      <4> QED BY <3>1, <4>5 DEF Whole, Known
    <3>3. CASE c # <<t.account, t.peer>>
      <4>1. Pending(t, c) = {}
        BY <3>3 DEF Pending
      <4>2. \A n : Key(c, n) # key
        <5>1. c = <<c[1], c[2]>>
          BY PollingConstantsOK
        <5> QED BY <2>3, <3>3, <5>1 DEF Key
      <4>3. New(u, c) = New(t, c)
        BY <2>5, <4>2 DEF New
      <4> QED BY <3>1, <4>1, <4>3 DEF Whole, Known
    <3> QED BY <3>2, <3>3
  <2>7. PollWhole(u)
    BY <1>1, <2>2, <2>4, <2>6 DEF PollWhole
  <2> QED BY <1>2, <2>1, <2>7, WholeStep
<1> QED BY <1>1, <1>4, <1>5, <1>6 DEF PollOK

\* A poll that commits leaves nothing pending.
LEMMA CommitWhole ==
  ASSUME Inv, WholeInv, NEW w \in Pollers, Commit(w)
  PROVE  WholeInv'
<1> DEFINE t == tx[w]
<1>1. /\ t.pc = "commit" /\ PollWhole(t) /\ db' = Merged(db, t.new)
      /\ tx' = [tx EXCEPT ![w] = Resting] /\ UNCHANGED chat
  BY DEF Commit, WholeInv
<1> HIDE DEF t
<1>2. /\ db'.dialogs = Over(t.new.dialogs, db.dialogs)
      /\ db'.messages = Over(t.new.messages, db.messages)
  BY <1>1 DEF Merged
<1>3. DOMAIN db'.messages = DOMAIN t.new.messages \cup DOMAIN db.messages
  BY <1>2 DEF Over
<1>4. \A c : Stored(c)' = Stored(c) \cup New(t, c)
  BY <1>3 DEF Stored, New
<1>5. \A c \in Chats : chat'[c] <= MaxMessages[c] /\ InReach(c)'
  BY <1>1, <1>4 DEF WholeInv, InReach
<1>6. NoGap'
  <2> SUFFICES ASSUME NEW c \in Chats, NEW n \in Stored(c)' PROVE 1..n \subseteq Stored(c)'
    BY DEF NoGap
  <2>1. Pending(t, c) = {} /\ Whole(t, c)
    BY <1>1 DEF Pending, PollWhole
  <2>2. CASE n \in Stored(c)
    BY <1>4, <2>2 DEF WholeInv, NoGap
  <2>3. CASE n \in New(t, c)
    BY <1>4, <2>1, <2>3 DEF Whole, Known
  <2> QED BY <1>4, <2>2, <2>3
<1>7. /\ DOMAIN db'.dialogs = DOMAIN t.new.dialogs \cup DOMAIN db.dialogs
      /\ \A d \in DOMAIN db'.dialogs :
           db'.dialogs[d] = IF d \in DOMAIN t.new.dialogs THEN t.new.dialogs[d] ELSE db.dialogs[d]
  BY <1>2 DEF Over
<1>8. OnlyPeople(db'.dialogs)
  BY <1>1, <1>7 DEF OnlyPeople, PollWhole, WholeInv
<1>9. ASSUME NEW v, PollWhole(v) PROVE PollWhole(v)'
  <2>1. \A c : Known(v, c) \subseteq Known(v, c)' /\ New(v, c)' = New(v, c) /\ Pending(v, c)' = Pending(v, c)
    BY <1>4 DEF Known, New, Pending
  <2>2. (\A c \in Chats : Whole(v, c))'
    BY <1>9, <2>1 DEF PollWhole, Whole
  <2> QED BY <1>7, <1>9, <2>2 DEF PollWhole, OnlyPeople
<1>10. PollWhole(Resting)
  <2>1. /\ Resting.pc = "idle" /\ DOMAIN Resting.new.dialogs = {}
        /\ DOMAIN Resting.new.messages = {}
    BY DEF Resting, NoRows, NoFunction
  <2> QED BY <2>1, QuietWhole
<1>11. (\A v \in Pollers : PollWhole(tx[v]))'
  <2> TAKE v \in Pollers
  <2>1. tx'[v] = IF v = w THEN Resting ELSE tx[v]
    BY <1>1 DEF Inv
  <2>2. PollWhole(tx'[v])
    BY <1>10, <2>1 DEF WholeInv
  <2> QED BY <1>9, <2>2
<1> QED BY <1>1, <1>5, <1>6, <1>8, <1>11 DEF WholeInv, OnlyPeople

\* A chat's next message leaves the others in reach.
LEMMA SayWhole ==
  ASSUME Inv, WholeInv, NEW c \in Chats, Say(c)
  PROVE  WholeInv'
<1> USE PollingConstantsOK
<1>1. /\ chat \in [Chats -> Nat] /\ chat' = [chat EXCEPT ![c] = @ + 1]
      /\ chat[c] < MaxMessages[c] /\ UNCHANGED <<db, tx>>
  BY DEF Say, WholeInv
<1>2. /\ chat' \in [Chats -> Nat] /\ chat'[c] = chat[c] + 1
      /\ \A d \in Chats : d # c => chat'[d] = chat[d]
  BY <1>1
<1>3. \A d : Stored(d)' = Stored(d)
  BY <1>1 DEF Stored
<1>4. ASSUME NEW d \in Chats PROVE chat'[d] <= MaxMessages[d]
  BY <1>1, <1>2 DEF WholeInv
<1>5. InReach(c)'
  <2> SUFFICES ASSUME c[2] \in People, NEW n \in 1..(chat[c] + 1), n + HistoryLimit <= chat[c] + 1,
                      n \notin Stored(c)
               PROVE  FALSE
    BY <1>2, <1>3 DEF InReach
  <2>1. chat[c] \in Nat /\ HistoryLimit \in Nat \ {0} /\ InReach(c)
    BY <1>1 DEF WholeInv
  <2>2. n \in 1..chat[c] /\ n + HistoryLimit = chat[c] + 1
    BY <2>1 DEF InReach
  <2>3. \A m \in n..chat[c] : m \in 1..chat[c] /\ m \notin Stored(c)
    <3> TAKE m \in n..chat[c]
    <3>1. m \in 1..chat[c] /\ n \in 1..m
      BY <2>1, <2>2
    <3> QED BY <3>1 DEF WholeInv, NoGap
  <2> DEFINE missing == 1..chat[c] \ Stored(c)
  <2>4. n..chat[c] \in SUBSET missing
    BY <2>3
  <2>5. IsFiniteSet(missing)
    <3>1. 1 \in Int /\ chat[c] \in Int
      BY <2>1
    <3>2. IsFiniteSet(1..chat[c])
      BY <3>1, FS_Interval
    <3> QED BY <3>2, FS_Subset
  <2>6. Cardinality(n..chat[c]) = HistoryLimit
    <3>1. n \in Int /\ chat[c] \in Int /\ ~(n > chat[c]) /\ chat[c] - n + 1 = HistoryLimit
      BY <2>1, <2>2
    <3> QED BY <3>1, FS_Interval
  <2>7. Cardinality(n..chat[c]) <= Cardinality(missing)
    BY <2>4, <2>5, FS_Subset
  <2>8. Cardinality(missing) < HistoryLimit
    BY DEF Say
  <2>9. Cardinality(missing) \in Nat
    BY <2>5, FS_CardinalityType
  <2> HIDE DEF missing
  <2> QED BY <2>1, <2>6, <2>7, <2>8, <2>9
<1>6. (\A d \in Chats : chat[d] <= MaxMessages[d] /\ InReach(d))'
  <2> TAKE d \in Chats
  <2>1. CASE d = c
    BY <1>4, <1>5, <2>1
  <2>2. CASE d # c
    BY <1>2, <1>3, <1>4, <2>2 DEF WholeInv, InReach
  <2> QED BY <2>1, <2>2
<1>7. \A t : PollWhole(t) => PollWhole(t)'
  BY <1>1, <1>3 DEF PollWhole, Whole, Known, New, Pending, OnlyPeople
<1>8. (\A v \in Pollers : PollWhole(tx[v]))'
  BY <1>1, <1>7 DEF WholeInv
<1> QED BY <1>1, <1>2, <1>3, <1>6, <1>8 DEF WholeInv, NoGap, OnlyPeople

\* Every step keeps polls, chats and rows without gaps.
LEMMA NextWhole == Inv /\ WholeInv /\ [Next]_vars => WholeInv'
<1> SUFFICES ASSUME Inv, WholeInv, [Next]_vars PROVE WholeInv'
  OBVIOUS
<1>0. ASSUME NEW w \in Pollers
      PROVE  /\ PollOK(tx[w]) /\ PollWhole(tx[w]) /\ DOMAIN tx[w] = PollFields
             /\ DOMAIN tx[w].new = RowFields /\ OnlyPeople(tx[w].new.dialogs)
  BY <1>0 DEF Inv, WholeInv, PollOK, PollWhole, Paired
<1>1. ASSUME NEW w \in Pollers, RolledBack(w), UNCHANGED <<chat, db>> PROVE WholeInv'
  <2>1. /\ Resting.pc = "idle" /\ DOMAIN Resting.new.dialogs = {}
        /\ DOMAIN Resting.new.messages = {}
    BY DEF Resting, NoRows, NoFunction
  <2> QED BY <1>1, <2>1, QuietWhole, WholeStep DEF RolledBack
<1>2. ASSUME NEW t, DOMAIN t = PollFields, PollWhole(t), t.pc # "message"
      PROVE  PollWhole(NextAccount(t)) /\ PollWhole(NextDialog(t))
  <2>1. /\ NextAccount(t).new = t.new /\ NextAccount(t).pc \in {"commit", "account"}
        /\ NextDialog(t).new = t.new /\ NextDialog(t).pc \in {"commit", "account", "dialog"}
    BY <1>2, MovingOn DEF Moves
  <2> QED BY <1>2, <2>1, SettledWhole DEF PollWhole
<1>3. ASSUME NEW w \in Pollers, NEW accounts, Begin(w, accounts) PROVE WholeInv'
  <2> DEFINE t == [Resting EXCEPT !.accounts = accounts]
  <2>1. /\ DOMAIN t = PollFields /\ t.pc = "idle" /\ DOMAIN t.new.dialogs = {}
        /\ DOMAIN t.new.messages = {}
    BY DEF Resting, PollFields, NoRows, NoFunction
  <2>2. tx' = [tx EXCEPT ![w] = NextAccount(t)] /\ UNCHANGED <<chat, db>>
    BY <1>3 DEF Begin
  <2> HIDE DEF t
  <2> QED BY <1>2, <2>1, <2>2, QuietWhole, WholeStep
<1>4. ASSUME NEW w \in Pollers, CheckAccount(w) PROVE WholeInv'
  <2> DEFINE t == tx[w]
             found == [t EXCEPT !.pc = "dialogs"]
             absent == [t EXCEPT !.absent = TRUE]
  <2>1. /\ found.pc = "dialogs" /\ found.new = t.new
        /\ absent.pc = "account" /\ absent.new = t.new /\ t.pc = "account"
    BY <1>0, <1>4 DEF CheckAccount, PollFields
  <2>2. \/ tx' = [tx EXCEPT ![w] = found]
        \/ tx' = [tx EXCEPT ![w] = absent]
    BY <1>4 DEF CheckAccount
  <2>3. UNCHANGED <<chat, db>>
    BY <1>4 DEF CheckAccount
  <2> HIDE DEF found, absent
  <2>4. PollWhole(found) /\ PollWhole(absent)
    BY <1>0, <2>1, SettledWhole
  <2> QED BY <2>2, <2>3, <2>4, WholeStep
<1>5. ASSUME NEW w \in Pollers, GetDialogs(w) PROVE WholeInv'
  <2> DEFINE t == [tx[w] EXCEPT !.peers = recent[tx[w].account]]
  <2>1. DOMAIN t = PollFields /\ t.pc = "dialogs" /\ t.new = tx[w].new /\ tx[w].pc = "dialogs"
    BY <1>0, <1>5 DEF GetDialogs, PollFields
  <2>2. tx' = [tx EXCEPT ![w] = NextDialog(t)] /\ UNCHANGED <<chat, db>>
    BY <1>5 DEF GetDialogs
  <2> HIDE DEF t
  <2>3. PollWhole(t)
    BY <1>0, <2>1, SettledWhole
  <2> QED BY <1>2, <2>1, <2>2, <2>3, WholeStep
<1>6. ASSUME NEW w \in Pollers, CheckDialog(w) PROVE WholeInv'
  <2> DEFINE t == [tx[w] EXCEPT !.peer = Head(tx[w].peers), !.peers = Tail(@)]
             among == Matches(Visible(w), t.account, t.peer)
             dialog == CHOOSE d \in among : TRUE
             found == [t EXCEPT !.pc = "history", !.dialog = dialog]
             absent == [t EXCEPT !.absent = TRUE]
  <2>1. /\ tx[w].pc = "dialog" /\ UNCHANGED <<chat, db>>
        /\ tx' = [tx EXCEPT ![w] = IF among = {} THEN absent ELSE found]
    BY <1>6 DEF CheckDialog
  <2>2. DOMAIN t = PollFields /\ t.pc = "dialog" /\ t.new = tx[w].new
    BY <1>0, <2>1 DEF PollFields
  <2>3. absent.pc = "dialog" /\ absent.new = tx[w].new
    BY <2>2 DEF PollFields
  <2>4. found.pc = "history" /\ found.dialog = dialog /\ found.new = tx[w].new
    BY <2>2 DEF PollFields
  <2>5. among # {} => dialog \in DOMAIN tx[w].new.dialogs \cup DOMAIN db.dialogs
    <3>1. DOMAIN Visible(w).dialogs = DOMAIN tx[w].new.dialogs \cup DOMAIN db.dialogs
      BY DEF Visible, Merged, Over
    <3>2. among \subseteq DOMAIN Visible(w).dialogs
      BY DEF Matches
    <3> QED BY <3>1, <3>2
  <2> HIDE DEF t, among, dialog, found, absent
  <2>6. PollWhole(absent)
    BY <1>0, <2>1, <2>3, SettledWhole
  <2>7. among # {} => PollWhole(found)
    BY <1>0, <2>1, <2>4, <2>5, SettledWhole
  <2> QED BY <2>1, <2>6, <2>7, WholeStep
<1>7. ASSUME NEW w \in Pollers, FloodWait(w) \/ CallFails(w) \/ NoAccessHash(w) PROVE WholeInv'
  <2> DEFINE t == tx[w]
             ended == [t EXCEPT !.pc = "commit"]
             marked == [t EXCEPT !.new.dialogs = Put(@, tx[w].dialog, "metadata_only")]
  <2>1. t.pc \in {"dialogs", "history"} /\ UNCHANGED <<chat, db>>
    BY <1>7 DEF FloodWait, CallFails, NoAccessHash, InCall
  <2>2. ended.pc = "commit" /\ ended.new = t.new
    BY <1>0 DEF PollFields
  <2>3. /\ DOMAIN marked = PollFields /\ marked.pc = t.pc /\ marked.dialog = t.dialog
        /\ marked.new.messages = t.new.messages
        /\ marked.new.dialogs = Put(t.new.dialogs, t.dialog, "metadata_only")
    BY <1>0 DEF PollFields, RowFields
  <2>4. \/ tx' = [tx EXCEPT ![w] = NextAccount(t)]
        \/ tx' = [tx EXCEPT ![w] = ended]
        \/ NoAccessHash(w) /\ tx' = [tx EXCEPT ![w] = NextDialog(marked)]
        \/ RolledBack(w)
    BY <1>0, <1>7 DEF FloodWait, CallFails, NoAccessHash
  <2> HIDE DEF ended, marked
  <2>5. PollWhole(ended)
    BY <1>0, <2>1, <2>2, SettledWhole
  <2>6. ASSUME NoAccessHash(w) PROVE PollWhole(marked)
    <3>1. /\ t.pc = "history" /\ Visible(w).dialogs[t.dialog] # "ignored"
          /\ t.dialog \in DOMAIN t.new.dialogs \cup DOMAIN db.dialogs
      BY <1>0, <2>6 DEF NoAccessHash, InCall, PollWhole
    <3>2. Visible(w).dialogs[t.dialog]
            = IF t.dialog \in DOMAIN t.new.dialogs THEN t.new.dialogs[t.dialog]
              ELSE db.dialogs[t.dialog]
      BY <3>1 DEF Visible, Merged, Over
    <3>3. t.dialog[2] \in People
      BY <1>0, <3>1, <3>2 DEF OnlyPeople, WholeInv
    <3>4. /\ DOMAIN marked.new.dialogs = DOMAIN t.new.dialogs \cup {t.dialog}
          /\ \A d \in DOMAIN marked.new.dialogs :
               marked.new.dialogs[d] = IF d = t.dialog THEN "metadata_only" ELSE t.new.dialogs[d]
      BY <2>3 DEF Put
    <3>5. OnlyPeople(marked.new.dialogs)
      BY <1>0, <3>3, <3>4 DEF OnlyPeople
    <3> QED BY <1>0, <2>3, <3>1, <3>4, <3>5, SettledWhole
  <2>7. PollWhole(NextAccount(t))
    BY <1>0, <1>2, <2>1
  <2>8. NoAccessHash(w) => PollWhole(NextDialog(marked))
    BY <1>2, <2>1, <2>3, <2>6
  <2> QED BY <1>1, <2>1, <2>4, <2>5, <2>7, <2>8, WholeStep
<1>8. ASSUME NEW w \in Pollers, UniqueViolation(w) \/ DeadlockVictim(w) \/ Crash(w) PROVE WholeInv'
  BY <1>1, <1>8 DEF UniqueViolation, DeadlockVictim, Crash
<1>9. CASE UNCHANGED vars
  <2>1. \A c : Stored(c)' = Stored(c)
    BY <1>9 DEF Stored, vars
  <2>2. \A t : PollWhole(t) => PollWhole(t)'
    BY <1>9, <2>1 DEF PollWhole, Whole, Known, New, Pending, OnlyPeople, vars
  <2>3. (\A w \in Pollers : PollWhole(tx[w]))'
    BY <1>9, <2>2 DEF WholeInv, vars
  <2> QED BY <1>9, <2>1, <2>3 DEF WholeInv, InReach, NoGap, OnlyPeople, vars
<1> QED BY <1>3, <1>4, <1>5, <1>6, <1>7, <1>8, <1>9, HistoryWhole, FoundWhole, InsertWhole,
           CommitWhole, SayWhole
     DEF Next, Poll, PollOnce, PollAllActiveAccounts

\* Also with histories that are cut off at their limit, messages stored newest
\* first and polls that break off, what is stored of a chat has no gap.
THEOREM PollingNoGap == Spec => []NoGap
<1>1. Init => Inv /\ WholeInv
  BY InitInv, InitWhole
<1>2. Inv /\ WholeInv /\ [Next]_vars => (Inv /\ WholeInv)'
  BY NextInv, NextWhole
<1>3. WholeInv => NoGap
  BY DEF WholeInv
<1> QED BY <1>1, <1>2, <1>3, PTL DEF Spec

=============================================================================
