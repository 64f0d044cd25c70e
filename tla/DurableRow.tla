------------------------------ MODULE DurableRow ------------------------------
(***************************************************************************)
(* What everybody who works on a record keeps of its row: one worker at a   *)
(* time; a row is reopened, rewritten and confirmed by its worker only; it  *)
(* is confirmed from unfinished; and a confirmed asset is replaced only in  *)
(* a reopened row, or removed.  RetryLifecycle, CoverCycle and CoverAssets,  *)
(* which look at the same cycle from three sides, each implement this.      *)
(***************************************************************************)
CONSTANTS Records, Assets, None

VARIABLES status,   \* "absent", "unfinished" or "ok" of each record
          asset,    \* what the row of each record names
          worker    \* the record that is worked on under .workflow.lock, or None

vars == <<status, asset, worker>>

Init ==
  /\ status = [r \in Records |-> "absent"]
  /\ asset = [r \in Records |-> None]
  /\ worker = None

\* A worker may reopen the record as it takes it.
Take(r) ==
  /\ worker = None
  /\ worker' = r
  /\ status' \in {status, [status EXCEPT ![r] = "unfinished"]}
  /\ UNCHANGED asset

Reopen(r) ==
  /\ worker = r
  /\ status' = [status EXCEPT ![r] = "unfinished"]
  /\ UNCHANGED asset
  /\ worker' \in {worker, None}

Save(r) ==
  /\ worker = r
  /\ status[r] = "unfinished"
  /\ \E a \in Assets \cup {None} : asset' = [asset EXCEPT ![r] = a]
  /\ UNCHANGED <<status, worker>>

Confirm(r) ==
  /\ worker = r
  /\ status[r] = "unfinished"
  /\ status' = [status EXCEPT ![r] = "ok"]
  /\ UNCHANGED asset
  /\ worker' = None

Remove(r) ==
  /\ worker = r
  /\ status[r] = "ok"
  /\ asset' = [asset EXCEPT ![r] = None]
  /\ UNCHANGED status
  /\ worker' = None

\* A worker leaves the record as it is, or dies.
Release == worker' = None /\ UNCHANGED <<status, asset>>

Next == Release \/ \E r \in Records : Take(r) \/ Reopen(r) \/ Save(r) \/ Confirm(r) \/ Remove(r)

Spec == Init /\ [][Next]_vars
=============================================================================
