---------------------------- MODULE JobLifecycle ----------------------------
(***************************************************************************)
(* What the store promises to whoever reads its tables, whatever requests  *)
(* overlap, are retried, fail or are cut off by a crash:                   *)
(*   - a job is decided at most once away from "queued"; after that its    *)
(*     status only moves between settled statuses, never back to "queued", *)
(*     and its risk level and owner never change;                          *)
(*   - "blocked" is for critical jobs only, "executed" for the others;     *)
(*   - the answer recorded under an idempotency key is written once, an    *)
(*     "accepted" or "skipped" one only when the job is executed or has    *)
(*     been cancelled meanwhile, never while it is queued or blocked;      *)
(*   - so is a deposit row.                                                *)
(***************************************************************************)
CONSTANTS Jobs, Keys, Owners

VARIABLES
  status,   \* of each job
  risk,     \* of each job, once it exists
  owner,    \* of each job, once it exists
  recorded, \* the event status recorded for each job and key
  funded    \* the jobs with at least one deposit row

lifecycleVars == <<status, risk, owner, recorded, funded>>

Init ==
  /\ status \in [Jobs -> {"absent", "queued"}]
  /\ risk = [j \in Jobs |-> "Low"]
  /\ owner \in [Jobs -> Owners]
  /\ recorded = [j \in Jobs |-> [k \in Keys |-> "none"]]
  /\ funded = {}

Create(j) ==
  /\ status[j] = "absent"
  /\ status' = [status EXCEPT ![j] = "queued"]
  /\ \E level \in {"Low", "Critical"}, o \in Owners :
       /\ risk' = [risk EXCEPT ![j] = level]
       /\ owner' = [owner EXCEPT ![j] = o]
  /\ UNCHANGED <<recorded, funded>>

Settle(j, s) ==
  /\ status[j] # "absent"
  /\ \/ s = "cancelled"
     \/ s = "blocked" /\ risk[j] = "Critical"
     \/ s = "executed" /\ risk[j] = "Low"
  /\ status' = [status EXCEPT ![j] = s]
  /\ UNCHANGED <<risk, owner, recorded, funded>>

\* Executed, whether or not a cancel has overwritten the status since.
Executed(j) == status[j] \in {"executed", "cancelled"}

Record(j, k, s) ==
  /\ recorded[j][k] = "none"
  /\ s \in {"accepted", "skipped"} => Executed(j)
  /\ s \in {"accepted", "skipped", "failed"} => risk[j] = "Low"
  /\ s = "blocked" => risk[j] = "Critical"
  /\ recorded' = [recorded EXCEPT ![j][k] = s]
  /\ UNCHANGED <<status, risk, owner, funded>>

Fund(j) ==
  /\ Executed(j)
  /\ funded' = funded \cup {j}
  /\ UNCHANGED <<status, risk, owner, recorded>>

Next ==
  \E j \in Jobs :
    \/ Create(j)
    \/ \E s \in {"cancelled", "blocked", "executed"} : Settle(j, s)
    \/ \E k \in Keys, s \in {"accepted", "blocked", "skipped", "failed"} : Record(j, k, s)
    \/ Fund(j)

Spec == Init /\ [][Next]_lifecycleVars
=============================================================================
