------------------------------ MODULE AccountSync ------------------------------
(***************************************************************************)
(* The rows of accounts: sync_active_accounts copies the Telegram accounts  *)
(* CRMchat lists, the poller inserts the account it reads from, the         *)
(* outbound worker notes a flood wait, and the sync or                      *)
(* reset_expired_rate_limits clears it when it is over.                     *)
(*                                                                          *)
(* A sync and a poll are each one transaction that looks at the listed      *)
(* accounts one after the other; what a sync changes is written when it     *)
(* looks at the next one, or at the end, and a written row is locked until  *)
(* the transaction ends.  The autopilot syncs and polls in one loop;        *)
(* scripts/sync_crmchat_accounts.py and scripts/poll_telegram_updates.py    *)
(* may run at the same time.                                                *)
(*                                                                          *)
(* Only changed columns are written: the worker that loaded an account as   *)
(* rate_limited leaves its health alone.  Updates of the other columns      *)
(* (names, metadata), which every sync and poll may make, only delay those  *)
(* who wait for the row, and are left out; so are deadlocks.  Accounts are  *)
(* numbered in the order of CRMchat's list.  Time is abstract: a flood wait *)
(* in the row is running or over.                                           *)
(***************************************************************************)
EXTENDS Integers, FiniteSets

CONSTANTS
  Size,       \* number of Telegram accounts
  Configured, \* crmchat_default_telegram_account_id: no account or one
  Autopilot,  \* the autopilot, which syncs again and again
  Scripts,    \* runs of the scripts that sync, reset or poll
  MaxFloods,  \* bound: flood waits
  MaxChanges  \* bound: changes of an account's status in CRMchat

Accounts == 1 .. Size

ASSUME AccountConstantsOK ==
  /\ Size \in Nat
  /\ Configured \subseteq Accounts /\ \A a, b \in Configured : a = b
  /\ MaxFloods \in Nat
  /\ MaxChanges \in Nat
  /\ Autopilot \notin Scripts

Clients == Scripts \cup {Autopilot}

VARIABLES
  remote,   \* accounts active in CRMchat
  row,      \* the committed rows: absent, or status, health and flood_wait_until
  loaded,   \* per account: the worker has it in its session as rate_limited
  doing,    \* per client: idle, a sync, a poll or a reset
  todo,     \* per client: the accounts of its list it still has to look at
  pending,  \* per client and account: columns changed and not written yet
  drafts,   \* per client and account: columns written and not committed
  floods,   \* flood waits so far
  changes   \* changes in CRMchat so far

accountVars == <<remote, row, loaded, doing, todo, pending, drafts, floods, changes>>

Row == [status : {"active", "other"},
        health : {"absent", "healthy", "rate_limited"},
        until  : {"none", "running", "over"}]

Absent == [status |-> "other", health |-> "absent", until |-> "none"]

\* get_available_for_assignment
Available(a) ==
  row[a].status = "active" /\ row[a].health = "healthy" /\ row[a].until # "running"

\* Sets of columns: "status", and "health" for health_status with flood_wait_until;
\* "insert" marks a new row.
NoColumns == [a \in Accounts |-> {}]

\* Faulty variant: the wait is cleared and the health stays.
Written_WaitOnly(r, columns) ==
  [status |-> IF "status" \in columns THEN "active" ELSE r.status,
   health |-> IF r.health = "absent" THEN "healthy" ELSE r.health,
   until  |-> IF "health" \in columns THEN "none" ELSE r.until]

\* The row with these columns written; written anew, it is without a flood wait.
Written(r, columns) ==
  [status |-> IF "status" \in columns THEN "active" ELSE r.status,
   health |-> IF "health" \in columns THEN "healthy" ELSE r.health,
   until  |-> IF "health" \in columns THEN "none" ELSE r.until]

\* What s sees of an account's row.
Seen(s, a) == Written(row[a], drafts[s][a])

Locked(a, s) == \E k \in Clients \ {s} : drafts[k][a] # {}

\* An account as CRMchat lists it.
Listed(a) == [id |-> a, status |-> IF a \in remote THEN "active" ELSE "other"]

First(list) == CHOOSE x \in list : \A y \in list : x.id <= y.id

AccountInit ==
  /\ remote \in SUBSET Accounts
  /\ row = [a \in Accounts |-> Absent]
  /\ loaded = [a \in Accounts |-> FALSE]
  /\ doing = [s \in Clients |-> "idle"]
  /\ todo = [s \in Clients |-> {}]
  /\ pending = [s \in Clients |-> NoColumns]
  /\ drafts = [s \in Clients |-> NoColumns]
  /\ floods = 0
  /\ changes = 0

\* An account becomes active in CRMchat, or stops being so.
RemoteChanges(a) ==
  /\ changes < MaxChanges
  /\ changes' = changes + 1
  /\ remote' = IF a \in remote THEN remote \ {a} ELSE remote \cup {a}
  /\ UNCHANGED <<row, loaded, doing, todo, pending, drafts, floods>>

WaitEnds(a) ==
  /\ row[a].until = "running"
  /\ row' = [row EXCEPT ![a].until = "over"]
  /\ UNCHANGED <<remote, loaded, doing, todo, pending, drafts, floods, changes>>

\* The worker loads an account to send from it: one without a running wait.
WorkerLoads(a) ==
  /\ row[a].health # "absent"
  /\ row[a].until # "running"
  /\ loaded' = [loaded EXCEPT ![a] = row[a].health = "rate_limited"]
  /\ UNCHANGED <<remote, row, doing, todo, pending, drafts, floods, changes>>

\* _mark_flood_wait, written with the columns that changed.
MarkFloodWait(a) ==
  /\ floods < MaxFloods
  /\ row[a].health # "absent"
  /\ \A s \in Clients : drafts[s][a] = {}
  /\ floods' = floods + 1
  /\ row' = [row EXCEPT ![a].until = "running",
                        ![a].health = IF loaded[a] THEN @ ELSE "rate_limited"]
  /\ UNCHANGED <<remote, loaded, doing, todo, pending, drafts, changes>>

-----------------------------------------------------------------------------
\* bootstrap raises when no account is configured and none is active.
Bootstraps == Configured # {} \/ remote # {}

\* s begins to go through these accounts.
Lists(s, work, as) ==
  /\ doing[s] = "idle"
  /\ Bootstraps
  /\ doing' = [doing EXCEPT ![s] = work]
  /\ todo' = [todo EXCEPT ![s] = {Listed(a) : a \in as}]
  /\ UNCHANGED <<remote, row, loaded, pending, drafts, floods, changes>>

StartSync(s) == Lists(s, "sync", remote)

\* poll_once reads from the account bootstrap has chosen, whatever its status when
\* it is the configured one; poll_all_active_accounts_once from the active ones.
StartPoll(s) ==
  \/ Lists(s, "poll", IF Configured # {} THEN Configured
                      ELSE {a \in remote : \A b \in remote : a <= b})
  \/ Lists(s, "poll", remote)

Expired(r) == r.health = "rate_limited" /\ r.until = "over"

\* Faulty variant: the status stays as it was.
ChangedBySync_NoStatus(r) == IF Expired(r) THEN {"health"} ELSE {}

\* apply_remote_account, given an account that is active in CRMchat.
ChangedBySync(r) ==
  (IF Expired(r) THEN {"health"} ELSE {}) \cup (IF r.status # "active" THEN {"status"} ELSE {})

\* A new account has the status it had in the list.
NewRow(x) == {"insert", "health"} \cup (IF x.status = "active" THEN {"status"} ELSE {})

\* The next account of the list.  A poll leaves the account it finds as it is.
LookAt(s) ==
  /\ doing[s] \in {"sync", "poll"}
  /\ pending[s] = NoColumns
  /\ todo[s] # {}
  /\ LET x == First(todo[s])
         r == Seen(s, x.id)
     IN  /\ todo' = [todo EXCEPT ![s] = @ \ {x}]
         /\ pending' = [pending EXCEPT ![s][x.id] =
                          IF r.health = "absent" THEN NewRow(x)
                          ELSE IF doing[s] = "sync" THEN ChangedBySync(r)
                          ELSE {}]
  /\ UNCHANGED <<remote, row, loaded, doing, drafts, floods, changes>>

\* The end of a transaction of s.
Ends(s) ==
  /\ doing' = [doing EXCEPT ![s] = "idle"]
  /\ todo' = [todo EXCEPT ![s] = {}]
  /\ pending' = [pending EXCEPT ![s] = NoColumns]
  /\ drafts' = [drafts EXCEPT ![s] = NoColumns]

\* Changes are written, whatever the rows hold by now, when no other transaction
\* has them locked; a second row of an account violates the unique key, which ends
\* the whole transaction.
Flush(s) ==
  /\ pending[s] # NoColumns
  /\ \A a \in Accounts : pending[s][a] # {} => ~Locked(a, s)
  /\ IF \E a \in Accounts : "insert" \in pending[s][a] /\ row[a].health # "absent"
     THEN Ends(s)
     ELSE /\ drafts' = [drafts EXCEPT ![s] = [a \in Accounts |-> @[a] \cup pending[s][a]]]
          /\ pending' = [pending EXCEPT ![s] = NoColumns]
          /\ UNCHANGED <<doing, todo>>
  /\ UNCHANGED <<remote, row, loaded, floods, changes>>

Commit(s) ==
  /\ doing[s] # "idle"
  /\ todo[s] = {}
  /\ pending[s] = NoColumns
  /\ row' = [a \in Accounts |-> Seen(s, a)]
  /\ Ends(s)
  /\ UNCHANGED <<remote, loaded, floods, changes>>

\* reset_expired_rate_limits reads all active accounts at once.
StartReset(s) ==
  /\ s \in Scripts
  /\ doing[s] = "idle"
  /\ doing' = [doing EXCEPT ![s] = "reset"]
  /\ pending' = [pending EXCEPT ![s] =
                   [a \in Accounts |->
                      IF row[a].status = "active" /\ Expired(row[a]) THEN {"health"} ELSE {}]]
  /\ UNCHANGED <<remote, row, loaded, todo, drafts, floods, changes>>

\* A script, or a poll of the autopilot, fails or is stopped.
Fails(s) ==
  /\ doing[s] # "idle"
  /\ s # Autopilot \/ doing[s] = "poll"
  /\ Ends(s)
  /\ UNCHANGED <<remote, row, loaded, floods, changes>>

ClientStep(s) == LookAt(s) \/ Flush(s) \/ Commit(s)

AccountNext ==
  \/ \E a \in Accounts :
       RemoteChanges(a) \/ WaitEnds(a) \/ WorkerLoads(a) \/ MarkFloodWait(a)
  \/ \E s \in Clients :
       StartSync(s) \/ StartPoll(s) \/ StartReset(s) \/ ClientStep(s) \/ Fails(s)

AccountSpec == AccountInit /\ [][AccountNext]_accountVars

\* Between polls the autopilot syncs again and again, what was begun is ended, who
\* waits for a row that gets free again and again gets it, and waits end.
AccountFairness ==
  /\ SF_accountVars(StartSync(Autopilot))
  /\ \A s \in Clients : SF_accountVars(ClientStep(s))
  /\ \A a \in Accounts : WF_accountVars(WaitEnds(a))

-----------------------------------------------------------------------------
\* An account is never held back without a wait that can end: a reset that
\* raced with a new flood wait may forget the wait, but never leaves
\* rate_limited without it (apply_remote_account only resets an account with
\* a flood_wait_until).
HeldBackForAWait ==
  \A a \in Accounts : row[a].health = "rate_limited" => row[a].until # "none"

\* An account that stays active in CRMchat gets into, or back to, the accounts
\* leads are assigned to, whatever transactions collide, waits come up, and status
\* it had when a poll inserted it (get_available_for_assignment).
BackInService ==
  \A a \in Accounts : <>[](a \in remote) => <>[]Available(a)
=============================================================================
