------------------------------ MODULE RunLedger ------------------------------
(***************************************************************************)
(* What the job runs of one account promise, without saying how: a run is  *)
(* opened once and closed once, runs that send in bulk become "done" only  *)
(* while they hold the account, one run holds it at a time, and a restart  *)
(* closes everything that was left open.  AccountRuns implements this.     *)
(***************************************************************************)
CONSTANTS Runs, NoRun

VARIABLES
  ledger,   \* the state of each run
  holder    \* the run that holds the account, or NoRun

vars == <<ledger, holder>>

\* "bulk" and "single" are the open states, "done" and "error" the closed ones.
Open   == {"bulk", "single"}
Closed == {"done", "error"}

Init ==
  /\ ledger = [r \in Runs |-> "absent"]
  /\ holder = NoRun

OpenRun(r, kind) ==
  /\ ledger[r] = "absent"
  /\ ledger' = [ledger EXCEPT ![r] = kind]
  /\ UNCHANGED holder

\* A bulk run that is open takes the account.
Hold(r) ==
  /\ holder = NoRun
  /\ ledger[r] = "bulk"
  /\ holder' = r
  /\ UNCHANGED ledger

\* A scheduled run appears in the ledger with the account already in hand.
OpenHeld(r) ==
  /\ holder = NoRun
  /\ ledger[r] = "absent"
  /\ ledger' = [ledger EXCEPT ![r] = "bulk"]
  /\ holder' = r

Fail(r) ==
  /\ ledger[r] = "bulk"
  /\ ledger' = [ledger EXCEPT ![r] = "error"]
  /\ UNCHANGED holder

\* Only the holder of the account completes a bulk run.
Complete(r) ==
  /\ ledger[r] = "single" \/ (ledger[r] = "bulk" /\ holder = r)
  /\ ledger' = [ledger EXCEPT ![r] = "done"]
  /\ UNCHANGED holder

\* The account is given up, by its holder or by a crash.
Yield ==
  /\ holder' = NoRun
  /\ UNCHANGED ledger

Recover ==
  /\ ledger' = [r \in Runs |-> IF ledger[r] \in Open THEN "error" ELSE ledger[r]]
  /\ UNCHANGED holder

Next ==
  \/ \E r \in Runs : \/ \E kind \in Open : OpenRun(r, kind)
                     \/ Hold(r) \/ OpenHeld(r) \/ Fail(r) \/ Complete(r)
  \/ Yield
  \/ Recover

Spec == Init /\ [][Next]_vars
==============================================================================
