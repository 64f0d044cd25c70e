------------------------------ MODULE CoverState ------------------------------
(***************************************************************************)
(* The retry columns of one row of the durable table `records`, and the    *)
(* operations of src/cover_state/state_machine.py on them.  Every operation *)
(* is one SQLite transaction, so it is one operator from a row to a row.   *)
(*                                                                         *)
(* The two timestamps are kept relative to the present, which keeps the    *)
(* clock finite: `due_in` is how long until next_retry_at (0 once it is     *)
(* past), `claim_age` how long since retry_claimed_at (no longer counted   *)
(* once the lease is over).  None stands for SQL NULL.                     *)
(***************************************************************************)
EXTENDS Integers

CONSTANT ClaimLease          \* the 60 minutes of claim_due_retries

ASSUME ClaimLeaseAssumption == ClaimLease \in Nat

None == -1

Status       == {"absent", "pending", "ok", "failed"}
RetryReasons == {"unspecified", "SourceResolutionError"}
DeferReasons == {"none", "backoff", "cutoff"}

Row == [status       : Status,          \* "absent": the table has no such row
        retry_count  : Nat,
        retry_reason : RetryReasons,    \* only one text is ever tested
        defer_reason : DeferReasons,
        due_in       : Nat \cup {None},
        claim_age    : 0..(ClaimLease + 1) \cup {None},
        routed       : BOOLEAN]         \* biblionumber IS NOT NULL

AbsentRow == [status |-> "absent", retry_count |-> 0, retry_reason |-> "unspecified",
              defer_reason |-> "none", due_in |-> None, claim_age |-> None,
              routed |-> FALSE]

Unfinished(row) == row.status \in {"pending", "failed"}

\* 1, 2, 4, ... seconds after consecutive failures.
Delay(count) == IF count = 0 THEN 1 ELSE 2 ^ (count - 1)

-----------------------------------------------------------------------------
(* mark_pending: insert a row with the defaults, or reopen one that has      *)
(* attempts left.  It returns whether a row changed.                        *)
\* Mutant: the caller ignores what mark_pending returns.
PendingAcceptedAlways(row, max) == TRUE

PendingAccepted(row, max) == row.status = "absent" \/ row.retry_count < max

\* Mutants: a reopened row loses its schedule, is not claimed, or is replaced.
MarkPendingUnscheduled(row, max) ==
  IF row.retry_count < max THEN [row EXCEPT !.status = "pending", !.claim_age = 0, !.due_in = None]
  ELSE row
MarkPendingUnclaimed(row, max) ==
  IF row.retry_count < max THEN [row EXCEPT !.status = "pending"] ELSE row
MarkPendingReplaces(row, max) == [AbsentRow EXCEPT !.status = "pending", !.routed = row.routed]

MarkPending(row, max) ==
  IF row.status = "absent" THEN [AbsentRow EXCEPT !.status = "pending"]
  ELSE IF row.retry_count < max
       THEN [row EXCEPT !.status = "pending", !.claim_age = 0]
       ELSE row

(* record_result(success=False, ...): one more failure, or the whole budget  *)
(* at once when the failure is permanent.                                   *)
\* Mutant: a permanent failure adds the limit to the count.
FailureAddsLimit(row, max, partial, permanent, reason) ==
  LET next == row.retry_count + (IF permanent THEN max ELSE 1)
  IN [row EXCEPT !.status = "failed", !.retry_count = next, !.retry_reason = reason,
                 !.defer_reason = IF next >= max THEN "cutoff" ELSE "backoff",
                 !.due_in = IF next >= max THEN None ELSE Delay(next), !.claim_age = None]

Failure(row, max, partial, permanent, reason) ==
  LET next   == IF permanent /\ row.retry_count + 1 < max THEN max ELSE row.retry_count + 1
      cutoff == permanent \/ next >= max
  IN [row EXCEPT !.status       = IF partial /\ ~cutoff THEN "pending" ELSE "failed",
                 !.retry_count  = next,
                 !.retry_reason = reason,
                 !.defer_reason = IF cutoff THEN "cutoff" ELSE "backoff",
                 !.due_in       = IF cutoff THEN None ELSE Delay(next),
                 !.claim_age    = None]

(* complete_cycle: the retry metadata of a confirmed cycle is cleared.       *)
CompleteCycle(row) ==
  [row EXCEPT !.status = "ok", !.retry_count = 0, !.retry_reason = "unspecified",
              !.defer_reason = "none", !.due_in = None, !.claim_age = None]

(* reset_retry_count: status and resources are retained.                     *)
\* Mutant: status is not retained.
ResetReopens(row) ==
  [row EXCEPT !.status = "pending", !.retry_count = 0, !.retry_reason = "unspecified",
              !.defer_reason = "backoff", !.due_in = 0, !.claim_age = None]

ResetRetryCount(row) ==
  [row EXCEPT !.retry_count = 0, !.retry_reason = "unspecified",
              !.defer_reason = "backoff", !.due_in = 0, !.claim_age = None]

SetBiblionumber(row) == [row EXCEPT !.routed = TRUE]

-----------------------------------------------------------------------------
(* get_deferred: what the API and the Koha page say of an unfinished row.    *)
AtCutoff(row, max) ==
  Unfinished(row) /\ (row.retry_count >= max \/ row.defer_reason = "cutoff")

\* Mutant: the backoff is not looked at.
EligibleBelowLimit(row, max) == Unfinished(row) /\ row.retry_count < max

IsRetryEligible(row, max) ==
  /\ Unfinished(row)
  /\ row.retry_count < max
  /\ row.retry_count = 0 \/ row.due_in = 0

(* The WHERE clause of claim_due_retries.                                    *)
\* Mutant: a claim has no lease.
NeverClaimed(row) == row.claim_age = None

Unclaimed(row) == row.claim_age = None \/ row.claim_age > ClaimLease

Due(row, max) ==
  /\ Unfinished(row)
  /\ row.retry_count < max
  /\ row.routed
  /\ row.due_in = 0 \/ (row.retry_count = 0 /\ row.defer_reason # "none")

Claimable(row, max) == Due(row, max) /\ Unclaimed(row)

Claim(row) == [row EXCEPT !.claim_age = 0]

(* _backfill_retry_schedule, run by every constructor: derive the schedule   *)
(* of an unfinished row that has none.  `elapsed` is the time since the      *)
(* row's updated_at, which the model does not keep.                         *)
NeedsBackfill(row) ==
  Unfinished(row) /\ row.retry_count > 0 /\ (row.due_in = None \/ row.defer_reason = "none")

Backfill(row, max, elapsed) ==
  IF ~NeedsBackfill(row) THEN row
  ELSE IF row.retry_count >= max
       THEN [row EXCEPT !.defer_reason = "cutoff", !.due_in = None]
       ELSE [row EXCEPT !.defer_reason = "backoff",
                        !.due_in = IF elapsed < Delay(row.retry_count)
                                   THEN Delay(row.retry_count) - elapsed ELSE 0]

-----------------------------------------------------------------------------
(* One unit of time passes.                                                  *)
Elapse(row) ==
  [row EXCEPT !.due_in    = IF @ > 0 THEN @ - 1 ELSE @,
              !.claim_age = IF @ # None /\ @ <= ClaimLease THEN @ + 1 ELSE @]
=============================================================================
