--------------------------- MODULE DeliveryContract ---------------------------
(***************************************************************************)
(* What the outbound queue promises about one message to a candidate,       *)
(* whatever rows, locks, workers and accounts it takes to keep the promise: *)
(*   - a job is created once, stays open for a while and is settled once,   *)
(*     as delivered or as dropped;                                          *)
(*   - it is settled as delivered only when the candidate has a copy;       *)
(*   - copies reach the candidate only while it is open, one and one more   *)
(*     for every piece of work that was lost;                               *)
(*   - a delivered job may still be disowned: a cancellation that was on    *)
(*     its way overwrites the outcome.                                      *)
(***************************************************************************)
EXTENDS Naturals

CONSTANTS
  Jobs,     \* jobs that may be created
  MaxLost   \* bound: pieces of work that are lost

VARIABLES
  fate,     \* what the system says of each job
  copies,   \* copies of its message the candidate has
  lost      \* pieces of work lost so far

cvars == <<fate, copies, lost>>

Fates == {"absent", "open", "delivered", "dropped"}

ContractInit ==
  /\ fate = [j \in Jobs |-> "absent"]
  /\ copies = [j \in Jobs |-> 0]
  /\ lost = 0

Create(j) ==
  /\ fate[j] = "absent"
  /\ fate' = [fate EXCEPT ![j] = "open"]
  /\ UNCHANGED <<copies, lost>>

Copy(j) ==
  /\ fate[j] = "open"
  /\ copies[j] <= lost
  /\ copies' = [copies EXCEPT ![j] = @ + 1]
  /\ UNCHANGED <<fate, lost>>

\* One step may settle several jobs: a batch is committed as a whole.
Settle ==
  /\ fate' \in [Jobs -> Fates]
  /\ \A j \in Jobs :
       \/ fate'[j] = fate[j]
       \/ fate[j] = "open" /\ fate'[j] = "dropped"
       \/ fate[j] = "open" /\ fate'[j] = "delivered" /\ copies[j] > 0
  /\ UNCHANGED <<copies, lost>>

Disown(j) ==
  /\ fate[j] = "delivered"
  /\ fate' = [fate EXCEPT ![j] = "dropped"]
  /\ UNCHANGED <<copies, lost>>

LoseWork ==
  /\ lost < MaxLost
  /\ lost' = lost + 1
  /\ UNCHANGED <<fate, copies>>

ContractNext ==
  \/ \E j \in Jobs : Create(j) \/ Copy(j) \/ Disown(j)
  \/ Settle
  \/ LoseWork

ContractSpec == ContractInit /\ [][ContractNext]_cvars

=============================================================================
