------------------------ MODULE RetryLifecycle_proofs ------------------------
(***************************************************************************)
(* What RetryLifecycle promises for every set of records and threads, every *)
(* lease, scan limit and set of retry limits, and any number of restarts.   *)
(***************************************************************************)
EXTENDS RetryLifecycle, TLAPS

USE DEF None

-----------------------------------------------------------------------------
(* The operators of the state machine keep the row well formed.             *)

LEMMA LeaseIsNat == ClaimLease \in Nat
  BY ClaimLeaseAssumption

LEMMA DelayPositive ==
  ASSUME NEW max \in MaxRetryCounts, NEW n \in Nat, n < max
  PROVE  Delay(n) \in Nat \ {0}
  <1>1. max \in Nat /\ \A k \in 0..max : 2 ^ k \in Nat \ {0}
    BY LifecycleAssumptions
  <1>2. CASE n = 0
    BY <1>2 DEF Delay
  <1>3. CASE n # 0
    <2>1. n - 1 \in 0..max
      BY <1>1, <1>3
    <2>2. QED
      BY <1>1, <1>3, <2>1 DEF Delay
  <1>4. QED
    BY <1>2, <1>3

LEMMA AbsentRowType == AbsentRow \in Row
  BY LeaseIsNat DEF AbsentRow, Row, Status, RetryReasons, DeferReasons

LEMMA PendingType ==
  ASSUME NEW row \in Row PROVE [row EXCEPT !.status = "pending"] \in Row
  BY DEF Row, Status

LEMMA MarkPendingType ==
  ASSUME NEW row \in Row, NEW max \in MaxRetryCounts
  PROVE  MarkPending(row, max) \in Row
  <1>1. CASE row.status = "absent"
    <2>1. MarkPending(row, max) = [AbsentRow EXCEPT !.status = "pending"]
      BY <1>1 DEF MarkPending
    <2>2. QED
      BY <2>1, AbsentRowType, PendingType
  <1>2. CASE row.status # "absent" /\ row.retry_count < max
    <2>1. MarkPending(row, max) = [row EXCEPT !.status = "pending", !.claim_age = 0]
      BY <1>2 DEF MarkPending
    <2>2. 0 \in 0..(ClaimLease + 1) \cup {None} /\ "pending" \in Status
      BY LeaseIsNat DEF Status
    <2>3. QED
      BY <2>1, <2>2 DEF Row
  <1>3. CASE row.status # "absent" /\ ~(row.retry_count < max)
    BY <1>3 DEF MarkPending
  <1>4. QED
    BY <1>1, <1>2, <1>3

LEMMA FailureType ==
  ASSUME NEW row \in Row, NEW max \in MaxRetryCounts,
         NEW partial \in BOOLEAN, NEW permanent \in BOOLEAN, NEW reason \in RetryReasons
  PROVE  Failure(row, max, partial, permanent, reason) \in Row
  <1> DEFINE next   == IF permanent /\ row.retry_count + 1 < max THEN max ELSE row.retry_count + 1
             cutoff == permanent \/ next >= max
             due    == IF cutoff THEN None ELSE Delay(next)
  <1>1. row.retry_count \in Nat /\ max \in Nat
    BY LifecycleAssumptions DEF Row
  <1>2. next \in Nat
    BY <1>1
  <1>3. due \in Nat \cup {None}
    <2>1. CASE cutoff
      BY <2>1
    <2>2. CASE ~cutoff
      BY <1>1, <1>2, <2>2, DelayPositive
    <2>3. QED
      BY <2>1, <2>2
  <1>4. Failure(row, max, partial, permanent, reason) =
          [row EXCEPT !.status       = IF partial /\ ~cutoff THEN "pending" ELSE "failed",
                      !.retry_count  = next,
                      !.retry_reason = reason,
                      !.defer_reason = IF cutoff THEN "cutoff" ELSE "backoff",
                      !.due_in       = due,
                      !.claim_age    = None]
    BY DEF Failure
  <1> HIDE DEF next, cutoff, due
  <1>5. QED
    BY <1>2, <1>3, <1>4 DEF Row, Status, DeferReasons

LEMMA CompleteCycleType ==
  ASSUME NEW row \in Row PROVE CompleteCycle(row) \in Row
  BY DEF CompleteCycle, Row, Status, RetryReasons, DeferReasons

LEMMA ResetRetryCountType ==
  ASSUME NEW row \in Row PROVE ResetRetryCount(row) \in Row
  BY DEF ResetRetryCount, Row, Status, RetryReasons, DeferReasons

LEMMA SetBiblionumberType ==
  ASSUME NEW row \in Row PROVE SetBiblionumber(row) \in Row
  BY DEF SetBiblionumber, Row

LEMMA ClaimType ==
  ASSUME NEW row \in Row PROVE Claim(row) \in Row
  BY LeaseIsNat DEF Claim, Row

LEMMA ElapseType ==
  ASSUME NEW row \in Row PROVE Elapse(row) \in Row
  <1> DEFINE due == IF row.due_in > 0 THEN row.due_in - 1 ELSE row.due_in
             age == IF row.claim_age # None /\ row.claim_age <= ClaimLease
                    THEN row.claim_age + 1 ELSE row.claim_age
  <1>1. due \in Nat \cup {None}
    BY DEF Row
  <1>2. age \in 0..(ClaimLease + 1) \cup {None}
    BY LeaseIsNat DEF Row
  <1>3. Elapse(row) = [row EXCEPT !.due_in = due, !.claim_age = age]
    BY DEF Elapse
  <1> HIDE DEF due, age
  <1>4. QED
    BY <1>1, <1>2, <1>3 DEF Row

LEMMA BackfillType ==
  ASSUME NEW row \in Row, NEW max \in MaxRetryCounts, NEW elapsed \in Nat
  PROVE  Backfill(row, max, elapsed) \in Row
  <1>1. row.retry_count \in Nat /\ max \in Nat
    BY LifecycleAssumptions DEF Row
  <1>2. CASE ~NeedsBackfill(row)
    BY <1>2 DEF Backfill
  <1>3. CASE NeedsBackfill(row) /\ row.retry_count >= max
    BY <1>3 DEF Backfill, Row, DeferReasons
  <1>4. CASE NeedsBackfill(row) /\ ~(row.retry_count >= max)
    <2>1. Delay(row.retry_count) \in Nat \ {0}
      BY <1>1, <1>4, DelayPositive
    <2>2. (IF elapsed < Delay(row.retry_count) THEN Delay(row.retry_count) - elapsed ELSE 0) \in Nat
      BY <2>1
    <2>3. QED
      BY <1>4, <2>2 DEF Backfill, Row, DeferReasons
  <1>5. QED
    BY <1>2, <1>3, <1>4
-----------------------------------------------------------------------------
(* The inductive invariant, in two parts.                                    *)

\* What holds of every row: only an unfinished row carries failures, a failed
\* row has been routed, no count passes every limit, a row is at its cutoff
\* exactly when it has no schedule.
RowInv(row, max) ==
  /\ row \in Row
  /\ row.status \in {"absent", "ok"} => row.retry_count = 0
  /\ row.retry_count > 0 => row.routed
  /\ \E m \in MaxRetryCounts : row.retry_count <= m
  /\ row.defer_reason = "cutoff" => row.due_in = None /\ row.retry_count >= max
  /\ NeedsBackfill(row) => row.defer_reason = "cutoff"

\* What the thread that holds the lock may rely on about the row it works on.
CycleInv(task, row, max) ==
  /\ row.status # "absent"
  /\ task.pc # "entered" => row.routed
  /\ task.pc \notin {"entered", "routed"} /\ ~task.bypass /\ row.retry_count > 0
       => row.due_in = 0
  /\ task.pc \in {"failing", "downstream"} =>
       /\ row.status = "pending"
       /\ row.retry_count < max
       /\ row.claim_age # None \/ row = ResetRetryCount(row)

IInv ==
  /\ TypeOK
  /\ \A r \in Records : RowInv(rows[r], maxRetry)
  /\ \A t \in Tasks : InCycle(t) =>
       lock = t /\ CycleInv(tasks[t], rows[tasks[t].rec], maxRetry)

-----------------------------------------------------------------------------
(* Each operation keeps RowInv.                                              *)

LEMMA LimitIsPositive ==
  ASSUME NEW max \in MaxRetryCounts PROVE max \in Nat /\ max > 0
  BY LifecycleAssumptions

LEMMA AbsentRowInv ==
  ASSUME NEW max \in MaxRetryCounts PROVE RowInv(AbsentRow, max)
  <1>1. AbsentRow.retry_count <= max
    BY LimitIsPositive DEF AbsentRow
  <1>2. QED
    BY <1>1, AbsentRowType DEF RowInv, AbsentRow, NeedsBackfill, Unfinished

LEMMA MarkPendingInv ==
  ASSUME NEW row, NEW max \in MaxRetryCounts, RowInv(row, max)
  PROVE  RowInv(MarkPending(row, max), max)
  <1>1. row \in Row /\ MarkPending(row, max) \in Row
    BY MarkPendingType DEF RowInv
  <1>2. CASE row.status = "absent"
    <2>1. MarkPending(row, max) = [AbsentRow EXCEPT !.status = "pending"]
      BY <1>2 DEF MarkPending
    <2>2. 0 <= max
      BY LimitIsPositive
    <2>3. QED
      BY <1>1, <2>1, <2>2 DEF RowInv, AbsentRow, NeedsBackfill, Unfinished
  <1>3. CASE row.status # "absent" /\ row.retry_count < max
    <2>1. MarkPending(row, max) = [row EXCEPT !.status = "pending", !.claim_age = 0]
      BY <1>3 DEF MarkPending
    <2>2. /\ MarkPending(row, max).retry_count = row.retry_count
          /\ MarkPending(row, max).defer_reason = row.defer_reason
          /\ MarkPending(row, max).due_in = row.due_in
          /\ MarkPending(row, max).routed = row.routed
          /\ MarkPending(row, max).status = "pending"
      BY <1>1, <2>1 DEF Row
    <2>3. row.retry_count > 0 => Unfinished(row)
      BY <1>1 DEF RowInv, Row, Status, Unfinished
    <2>4. QED
      BY <1>1, <2>2, <2>3 DEF RowInv, NeedsBackfill
  <1>4. CASE row.status # "absent" /\ ~(row.retry_count < max)
    BY <1>4 DEF MarkPending
  <1>5. QED
    BY <1>2, <1>3, <1>4

LEMMA FailureInv ==
  ASSUME NEW row, NEW max \in MaxRetryCounts, RowInv(row, max),
         row.routed, row.retry_count < max,
         NEW partial \in BOOLEAN, NEW permanent \in BOOLEAN, NEW reason \in RetryReasons
  PROVE  RowInv(Failure(row, max, partial, permanent, reason), max)
  <1> DEFINE next   == IF permanent /\ row.retry_count + 1 < max THEN max ELSE row.retry_count + 1
             cutoff == permanent \/ next >= max
             due    == IF cutoff THEN None ELSE Delay(next)
             failed == Failure(row, max, partial, permanent, reason)
  <1>1. row \in Row /\ row.retry_count \in Nat /\ max \in Nat /\ max > 0
    BY LimitIsPositive DEF RowInv, Row
  <1>2. next \in Nat /\ next > 0 /\ next <= max /\ (cutoff => next >= max)
    BY <1>1
  <1>3. ~cutoff => due # None
    <2>1. SUFFICES ASSUME ~cutoff PROVE Delay(next) \in Nat \ {0}
      BY DEF Delay
    <2>2. QED
      BY <1>1, <1>2, <2>1, DelayPositive
  <1>4. failed \in Row
    BY <1>1, FailureType
  <1>5. failed = [row EXCEPT !.status       = IF partial /\ ~cutoff THEN "pending" ELSE "failed",
                             !.retry_count  = next,
                             !.retry_reason = reason,
                             !.defer_reason = IF cutoff THEN "cutoff" ELSE "backoff",
                             !.due_in       = due,
                             !.claim_age    = None]
    BY DEF Failure
  <1>6. cutoff => due = None
    OBVIOUS
  <1> HIDE DEF next, cutoff, due, failed
  <1>7. /\ failed.status \in {"pending", "failed"}
        /\ failed.retry_count = next
        /\ failed.defer_reason = IF cutoff THEN "cutoff" ELSE "backoff"
        /\ failed.due_in = due
        /\ failed.routed = row.routed
    BY <1>1, <1>5 DEF Row
  <1>8. RowInv(failed, max)
    BY <1>1, <1>2, <1>3, <1>4, <1>6, <1>7 DEF RowInv, NeedsBackfill
  <1>9. QED
    BY <1>8 DEF failed

LEMMA CompleteCycleInv ==
  ASSUME NEW row, NEW max \in MaxRetryCounts, RowInv(row, max)
  PROVE  RowInv(CompleteCycle(row), max)
  <1>1. row \in Row /\ CompleteCycle(row) \in Row /\ 0 <= max
    BY CompleteCycleType, LimitIsPositive DEF RowInv
  <1>2. QED
    BY <1>1 DEF CompleteCycle, RowInv, Row, NeedsBackfill, Unfinished

LEMMA ResetRetryCountInv ==
  ASSUME NEW row, NEW max \in MaxRetryCounts, RowInv(row, max)
  PROVE  RowInv(ResetRetryCount(row), max)
  <1>1. row \in Row /\ ResetRetryCount(row) \in Row /\ 0 <= max
    BY ResetRetryCountType, LimitIsPositive DEF RowInv
  <1>2. QED
    BY <1>1 DEF ResetRetryCount, RowInv, Row, NeedsBackfill, Unfinished

LEMMA SetBiblionumberInv ==
  ASSUME NEW row, NEW max \in MaxRetryCounts, RowInv(row, max)
  PROVE  RowInv(SetBiblionumber(row), max)
  <1>1. row \in Row /\ SetBiblionumber(row) \in Row
    BY SetBiblionumberType DEF RowInv
  <1>2. QED
    BY <1>1 DEF SetBiblionumber, RowInv, Row, NeedsBackfill, Unfinished

LEMMA ClaimInv ==
  ASSUME NEW row, NEW max \in MaxRetryCounts, RowInv(row, max)
  PROVE  RowInv(Claim(row), max)
  <1>1. row \in Row /\ Claim(row) \in Row
    BY ClaimType DEF RowInv
  <1>2. QED
    BY <1>1 DEF Claim, RowInv, Row, NeedsBackfill, Unfinished

LEMMA ElapseInv ==
  ASSUME NEW row, NEW max \in MaxRetryCounts, RowInv(row, max)
  PROVE  RowInv(Elapse(row), max)
  <1>1. row \in Row /\ Elapse(row) \in Row
    BY ElapseType DEF RowInv
  <1>2. /\ Elapse(row).status = row.status
        /\ Elapse(row).retry_count = row.retry_count
        /\ Elapse(row).defer_reason = row.defer_reason
        /\ Elapse(row).routed = row.routed
        /\ Elapse(row).due_in = IF row.due_in > 0 THEN row.due_in - 1 ELSE row.due_in
    BY <1>1 DEF Elapse, Row
  <1>3. Elapse(row).due_in = None <=> row.due_in = None
    BY <1>1, <1>2 DEF Row
  <1>4. QED
    BY <1>1, <1>2, <1>3 DEF RowInv, NeedsBackfill, Unfinished

\* A process that starts with another limit leaves no row behind.
LEMMA BackfillInv ==
  ASSUME NEW row, NEW old \in MaxRetryCounts, NEW max \in MaxRetryCounts,
         NEW elapsed \in Nat, RowInv(row, old)
  PROVE  RowInv(Backfill(row, max, elapsed), max)
  <1> DEFINE filled == Backfill(row, max, elapsed)
             rest   == IF elapsed < Delay(row.retry_count) THEN Delay(row.retry_count) - elapsed ELSE 0
  <1>1. row \in Row /\ filled \in Row /\ row.retry_count \in Nat
    BY BackfillType DEF RowInv, Row
  <1>2. max \in Nat /\ max > 0 /\ old \in Nat /\ old > 0
    BY LimitIsPositive
  <1>3. CASE ~NeedsBackfill(row)
    <2>1. filled = row
      BY <1>3 DEF Backfill
    <2>2. row.defer_reason # "cutoff"
      BY <1>1, <1>2, <1>3 DEF RowInv, NeedsBackfill, Unfinished, Row, Status
    <2>3. RowInv(row, max)
      BY <2>2, <1>3 DEF RowInv
    <2>4. QED
      BY <2>1, <2>3
  <1>4. CASE NeedsBackfill(row) /\ row.retry_count >= max
    <2>1. filled = [row EXCEPT !.defer_reason = "cutoff", !.due_in = None]
      BY <1>4 DEF Backfill
    <2>2. QED
      BY <1>1, <1>4, <2>1 DEF RowInv, Row
  <1>5. CASE NeedsBackfill(row) /\ ~(row.retry_count >= max)
    <2>1. filled = [row EXCEPT !.defer_reason = "backoff", !.due_in = rest]
      BY <1>5 DEF Backfill
    <2>2. Delay(row.retry_count) \in Nat \ {0}
      BY <1>1, <1>2, <1>5, DelayPositive
    <2>3. rest \in Nat
      BY <2>2
    <2> HIDE DEF rest, filled
    <2>4. RowInv(filled, max)
      BY <1>1, <2>1, <2>3 DEF RowInv, Row, NeedsBackfill, Unfinished
    <2>5. QED
      BY <2>4 DEF filled
  <1>6. QED
    BY <1>3, <1>4, <1>5

-----------------------------------------------------------------------------
(* What the scheduler, the operator and time do to the row of a running cycle *)
(* leaves the cycle's assumptions standing.                                  *)

LEMMA ClaimUnderCycle ==
  ASSUME NEW task, NEW row \in Row, NEW max, CycleInv(task, row, max),
         Claimable(row, max)
  PROVE  CycleInv(task, Claim(row), max)
  BY DEF CycleInv, Claim, Row

LEMMA ResetUnderCycle ==
  ASSUME NEW task, NEW row \in Row, NEW max \in MaxRetryCounts, CycleInv(task, row, max)
  PROVE  CycleInv(task, ResetRetryCount(row), max)
  <1>1. 0 < max
    BY LimitIsPositive
  <1>2. ResetRetryCount(ResetRetryCount(row)) = ResetRetryCount(row)
    BY DEF ResetRetryCount, Row
  <1>3. QED
    BY <1>1, <1>2 DEF CycleInv, ResetRetryCount, Row

LEMMA ElapseUnderCycle ==
  ASSUME NEW task, NEW row \in Row, NEW max, CycleInv(task, row, max)
  PROVE  CycleInv(task, Elapse(row), max)
  <1>1. /\ Elapse(row).status = row.status
        /\ Elapse(row).retry_count = row.retry_count
        /\ Elapse(row).routed = row.routed
        /\ row.due_in = 0 => Elapse(row).due_in = 0
        /\ row.claim_age # None => Elapse(row).claim_age # None
    BY LeaseIsNat DEF Elapse, Row
  <1>2. row = ResetRetryCount(row) => Elapse(row) = row
    <2>1. SUFFICES ASSUME row = ResetRetryCount(row) PROVE Elapse(row) = row
      OBVIOUS
    <2>2. row.due_in = 0 /\ row.claim_age = None
      BY <2>1 DEF ResetRetryCount, Row
    <2>3. Elapse(row) = [row EXCEPT !.due_in = 0, !.claim_age = None]
      BY <2>2 DEF Elapse
    <2>4. QED
      BY <2>2, <2>3 DEF Row
  <1>3. QED
    BY <1>1, <1>2 DEF CycleInv

-----------------------------------------------------------------------------
(* A step of one thread: if it leaves its row and itself in order, it leaves  *)
(* everything in order, since no other thread is inside a cycle.             *)

LEMMA OneCycleAtATime ==
  ASSUME IInv, NEW t \in Tasks, lock \in {t, NoTask}
  PROVE  \A u \in Tasks \ {t} : ~InCycle(u)
  BY LifecycleAssumptions DEF IInv

LEMMA CycleStep ==
  ASSUME IInv,
         NEW t \in Tasks, tasks[t].pc # "idle", lock \in {t, NoTask},
         NEW row, RowInv(row, maxRetry),
         NEW task \in TaskState, task.pc # "idle" => task.rec = tasks[t].rec,
         rows' = [rows EXCEPT ![tasks[t].rec] = row],
         tasks' = [tasks EXCEPT ![t] = task],
         lock' \in {t, NoTask},
         UNCHANGED OutsideCycle,
         task.pc \in Stages \ {"queued"} => lock' = t /\ CycleInv(task, row, maxRetry)
  PROVE  IInv'
  <1>1. /\ rows \in [Records -> Row] /\ tasks \in [Tasks -> TaskState]
        /\ tasks[t].rec \in Records /\ row \in Row /\ maxRetry \in MaxRetryCounts
    BY DEF IInv, TypeOK, RowInv
  <1>2. TypeOK'
    BY <1>1 DEF IInv, TypeOK, OutsideCycle
  <1>3. \A r \in Records : RowInv(rows[r], maxRetry)'
    <2>1. ASSUME NEW r \in Records PROVE RowInv(rows'[r], maxRetry)
      BY <1>1 DEF IInv
    <2>2. maxRetry' = maxRetry
      BY DEF OutsideCycle
    <2>3. QED
      BY <2>1, <2>2 DEF RowInv
  <1>4. ASSUME NEW u \in Tasks, InCycle(u)'
        PROVE  (lock = u /\ CycleInv(tasks[u], rows[tasks[u].rec], maxRetry))'
    <2>1. CASE u = t
      <3>1. tasks'[u] = task /\ rows'[tasks[t].rec] = row /\ maxRetry' = maxRetry
        BY <1>1, <2>1 DEF OutsideCycle
      <3>2. task.pc \in Stages \ {"queued"}
        BY <1>4, <3>1 DEF InCycle
      <3>3. task.rec = tasks[t].rec
        BY <3>2 DEF Stages
      <3>4. QED
        BY <2>1, <3>1, <3>2, <3>3
    <2>2. CASE u # t
      <3>1. tasks'[u] = tasks[u]
        BY <1>1, <2>2
      <3>2. InCycle(u)
        BY <1>4, <3>1 DEF InCycle
      <3>3. QED
        BY <2>2, <3>2, OneCycleAtATime
    <2>3. QED
      BY <2>1, <2>2
  <1>5. QED
    BY <1>2, <1>3, <1>4 DEF IInv

\* The thread ends its cycle, whatever it wrote to its row.
LEMMA LeaveStep ==
  ASSUME IInv,
         NEW t \in Tasks, tasks[t].pc # "idle", lock \in {t, NoTask},
         NEW row, RowInv(row, maxRetry),
         rows' = [rows EXCEPT ![tasks[t].rec] = row],
         tasks' = [tasks EXCEPT ![t] = IdleTask],
         lock' \in {t, NoTask},
         UNCHANGED OutsideCycle
  PROVE  IInv'
  <1>1. IdleTask \in TaskState /\ IdleTask.pc = "idle"
    BY DEF IdleTask, TaskState
  <1>2. "idle" \notin Stages \ {"queued"}
    BY DEF Stages
  <1>3. QED
    BY <1>1, <1>2, CycleStep

\* The thread goes on to another stage.
LEMMA GoToStep ==
  ASSUME IInv,
         NEW t \in Tasks, InCycle(t),
         NEW row, RowInv(row, maxRetry),
         NEW pc \in Stages,
         rows' = [rows EXCEPT ![tasks[t].rec] = row],
         GoTo(t, pc),
         UNCHANGED OutsideCycle,
         CycleInv([tasks[t] EXCEPT !.pc = pc], row, maxRetry)
  PROVE  IInv'
  <1> DEFINE task == [tasks[t] EXCEPT !.pc = pc]
  <1>1. tasks \in [Tasks -> TaskState] /\ lock = t /\ tasks[t].pc # "idle"
    BY DEF IInv, TypeOK, InCycle, Stages
  <1>2. task \in TaskState /\ task.rec = tasks[t].rec
    BY <1>1 DEF TaskState
  <1>3. tasks' = [tasks EXCEPT ![t] = task] /\ lock' = t
    BY <1>1 DEF GoTo
  <1> HIDE DEF task
  <1>4. CycleInv(task, row, maxRetry)
    BY DEF task
  <1>5. QED
    BY <1>1, <1>2, <1>3, <1>4, CycleStep

\* What a thread inside a cycle starts a step from.
LEMMA AtStage ==
  ASSUME IInv, NEW t \in Tasks, NEW pc \in Stages \ {"queued"}, At(t, pc)
  PROVE  /\ InCycle(t)
         /\ tasks[t].pc = pc /\ tasks[t].pc # "idle" /\ lock = t
         /\ tasks[t] \in TaskState /\ tasks[t].rec \in Records
         /\ maxRetry \in MaxRetryCounts
         /\ Row0(t) \in Row
         /\ RowInv(Row0(t), maxRetry)
         /\ CycleInv(tasks[t], Row0(t), maxRetry)
         /\ rows = [rows EXCEPT ![tasks[t].rec] = Row0(t)]
  <1>1. tasks[t].pc = pc /\ pc # "idle" /\ lock = t /\ InCycle(t)
    BY DEF At, Stages, InCycle
  <1>2. tasks[t] \in TaskState /\ tasks[t].rec \in Records /\ rows \in [Records -> Row]
    BY <1>1 DEF IInv, TypeOK
  <1>3. maxRetry \in MaxRetryCounts
    BY DEF IInv, TypeOK
  <1>4. QED
    BY <1>1, <1>2, <1>3 DEF IInv, Row0

\* mark_pending as the cycle that holds the lock sees it.
LEMMA MarkPendingInCycle ==
  ASSUME NEW row, NEW max \in MaxRetryCounts, RowInv(row, max), row.status # "absent",
         PendingAccepted(row, max)
  PROVE  /\ MarkPending(row, max).status = "pending"
         /\ MarkPending(row, max).retry_count = row.retry_count
         /\ row.retry_count < max
         /\ MarkPending(row, max).due_in = row.due_in
         /\ MarkPending(row, max).routed = row.routed
         /\ MarkPending(row, max).claim_age = 0
  BY DEF RowInv, PendingAccepted, MarkPending, Row

LEMMA MarkPendingStep ==
  ASSUME IInv, NEW t \in Tasks, NEW from \in {"gate_file", "gate_cover", "gated"},
         NEW pc \in {"gate_cover", "gated", "failing", "downstream"},
         At(t, from),
         SetRow(t, MarkPending(Row0(t), maxRetry)),
         IF PendingAccepted(Row0(t), maxRetry) THEN GoTo(t, pc) ELSE Leave(t),
         UNCHANGED OutsideCycle
  PROVE  IInv'
  <1> DEFINE row == MarkPending(Row0(t), maxRetry)
  <1>1. from \in Stages \ {"queued"} /\ pc \in Stages
    BY DEF Stages
  <1>2. /\ InCycle(t) /\ lock = t /\ tasks[t].pc = from /\ tasks[t].pc # "idle"
        /\ tasks[t] \in TaskState
        /\ maxRetry \in MaxRetryCounts
        /\ RowInv(Row0(t), maxRetry)
        /\ CycleInv(tasks[t], Row0(t), maxRetry)
    BY <1>1, AtStage
  <1>3. RowInv(row, maxRetry) /\ rows' = [rows EXCEPT ![tasks[t].rec] = row]
    BY <1>2, MarkPendingInv DEF SetRow
  <1>4. CASE PendingAccepted(Row0(t), maxRetry)
    <2>1. GoTo(t, pc)
      BY <1>4
    <2>2. /\ row.status = "pending"
          /\ row.retry_count = Row0(t).retry_count
          /\ row.retry_count < maxRetry
          /\ row.due_in = Row0(t).due_in
          /\ row.routed = Row0(t).routed
          /\ row.claim_age = 0
      BY <1>2, <1>4, MarkPendingInCycle DEF CycleInv
    <2> HIDE DEF row
    <2>3. CycleInv([tasks[t] EXCEPT !.pc = pc], row, maxRetry)
      BY <1>2, <2>2 DEF CycleInv, TaskState
    <2>4. QED
      BY <1>1, <1>2, <1>3, <2>1, <2>3, GoToStep
  <1>5. CASE ~PendingAccepted(Row0(t), maxRetry)
    <2>1. tasks' = [tasks EXCEPT ![t] = IdleTask] /\ lock' = NoTask
      BY <1>5 DEF Leave
    <2> HIDE DEF row
    <2>2. QED
      BY <1>2, <1>3, <2>1, LeaveStep
  <1>6. QED
    BY <1>4, <1>5

-----------------------------------------------------------------------------
(* Every step keeps the inductive invariant.                                 *)

LEMMA CycleKeepsIInv ==
  ASSUME IInv, NEW t \in Tasks, Cycle(t)
  PROVE  IInv'
  <1>1. CASE Enter(t)
    <2> DEFINE row  == IF Row0(t).status = "absent" THEN MarkPending(Row0(t), maxRetry) ELSE Row0(t)
               task == [tasks[t] EXCEPT !.pc = "entered"]
    <2>1. /\ tasks[t] \in TaskState /\ tasks[t].pc # "idle" /\ tasks[t].rec \in Records
          /\ tasks \in [Tasks -> TaskState] /\ rows \in [Records -> Row]
          /\ maxRetry \in MaxRetryCounts
          /\ RowInv(Row0(t), maxRetry)
      BY <1>1 DEF Enter, IInv, TypeOK, Row0
    <2>2. RowInv(row, maxRetry) /\ rows' = [rows EXCEPT ![tasks[t].rec] = row]
      BY <1>1, <2>1, MarkPendingInv DEF Enter, SetRow, Row0
    <2>3. task \in TaskState /\ task.rec = tasks[t].rec /\ task.pc = "entered"
      BY <2>1 DEF TaskState, Stages
    <2>4. row.status # "absent"
      BY DEF MarkPending, AbsentRow
    <2>5. /\ tasks' = [tasks EXCEPT ![t] = task]
          /\ lock = NoTask /\ lock' = t
          /\ UNCHANGED OutsideCycle
      BY <1>1, <2>1 DEF Enter
    <2> HIDE DEF row, task
    <2>6. CycleInv(task, row, maxRetry)
      BY <2>3, <2>4 DEF CycleInv
    <2>7. QED
      BY <2>1, <2>2, <2>3, <2>5, <2>6, CycleStep
  <1>2. CASE Refuse(t)
    <2>1. /\ tasks[t].pc # "idle" /\ tasks[t].rec \in Records
          /\ RowInv(Row0(t), maxRetry)
          /\ rows = [rows EXCEPT ![tasks[t].rec] = Row0(t)]
      BY <1>2 DEF Refuse, IInv, TypeOK, Row0
    <2>2. QED
      BY <1>2, <2>1, LeaveStep DEF Refuse
  <1>3. CASE Route(t)
    <2>1. "entered" \in Stages \ {"queued"} /\ At(t, "entered")
      BY <1>3 DEF Stages, Route
    <2>2. PICK b \in BOOLEAN : tasks' = [tasks EXCEPT ![t].pc = "routed", ![t].bypass = b]
      BY <1>3 DEF Route
    <2> DEFINE task == [tasks[t] EXCEPT !.pc = "routed", !.bypass = b]
               row  == SetBiblionumber(Row0(t))
    <2>3. task \in TaskState /\ task.rec = tasks[t].rec /\ task.pc = "routed"
      BY <2>1, AtStage DEF TaskState, Stages
    <2>4. tasks' = [tasks EXCEPT ![t] = task]
      BY <2>1, <2>2, AtStage DEF IInv, TypeOK
    <2>5. row.routed /\ row.status # "absent"
      BY <2>1, AtStage DEF SetBiblionumber, Row, CycleInv
    <2>6. /\ RowInv(row, maxRetry)
          /\ rows' = [rows EXCEPT ![tasks[t].rec] = row]
          /\ UNCHANGED <<lock, OutsideCycle>>
      BY <1>3, <2>1, AtStage, SetBiblionumberInv DEF Route, SetRow
    <2> HIDE DEF row, task
    <2>7. CycleInv(task, row, maxRetry)
      BY <2>3, <2>5 DEF CycleInv
    <2>8. QED
      BY <2>1, <2>3, <2>4, <2>6, <2>7, AtStage, CycleStep
  <1>4. CASE Admit(t)
    <2>1. "routed" \in Stages \ {"queued"} /\ "gate_file" \in Stages /\ At(t, "routed")
      BY <1>4 DEF Stages, Admit
    <2>2. CycleInv([tasks[t] EXCEPT !.pc = "gate_file"], Row0(t), maxRetry)
      BY <1>4, <2>1, AtStage
         DEF Admit, Admissible, IsRetryEligible, CycleInv, RowInv, TaskState, Row
    <2>3. QED
      BY <1>4, <2>1, <2>2, AtStage, GoToStep DEF Admit
  <1>5. CASE Defer(t)
    <2>1. "routed" \in Stages \ {"queued"} /\ At(t, "routed")
      BY <1>5 DEF Stages, Defer
    <2>2. QED
      BY <1>5, <2>1, AtStage, LeaveStep DEF Defer, Leave
  <1>6. CASE ConfirmPublishedCover(t)
    <2>1. "routed" \in Stages \ {"queued"} /\ At(t, "routed")
      BY <1>6 DEF Stages, ConfirmPublishedCover
    <2>2. RowInv(CompleteCycle(Row0(t)), maxRetry)
      BY <2>1, AtStage, CompleteCycleInv
    <2>3. QED
      BY <1>6, <2>1, <2>2, AtStage, LeaveStep DEF ConfirmPublishedCover, Leave, SetRow
  <1>7. CASE AbortUncounted(t)
    <2>1. "routed" \in Stages \ {"queued"} /\ At(t, "routed")
      BY <1>7 DEF Stages, AbortUncounted
    <2>2. QED
      BY <1>7, <2>1, AtStage, LeaveStep DEF AbortUncounted, Leave
  <1>8. CASE PassGate(t)
    <2>1. PICK pc \in {"gate_file", "gate_cover"} : At(t, pc)
      BY <1>8 DEF PassGate, AtGate
    <2>2. pc \in Stages \ {"queued"} /\ NextGate(tasks[t].pc) \in {"gate_cover", "gated"}
      BY DEF Stages, NextGate
    <2>3. CycleInv([tasks[t] EXCEPT !.pc = NextGate(tasks[t].pc)], Row0(t), maxRetry)
      BY <2>1, <2>2, AtStage DEF CycleInv, TaskState
    <2>4. NextGate(tasks[t].pc) \in Stages
      BY <2>2 DEF Stages
    <2>5. QED
      BY <1>8, <2>1, <2>2, <2>3, <2>4, AtStage, GoToStep DEF PassGate
  <1>9. CASE ChangedAtGate(t)
    <2>1. PICK pc \in {"gate_file", "gate_cover"} : At(t, pc)
      BY <1>9 DEF ChangedAtGate, AtGate
    <2>2. NextGate(tasks[t].pc) \in {"gate_cover", "gated"}
      BY DEF NextGate
    <2>3. QED
      BY <1>9, <2>1, <2>2, MarkPendingStep DEF ChangedAtGate
  <1>10. CASE DriveFails(t)
    <2>1. PICK pc \in {"gate_file", "gate_cover", "gated"} : At(t, pc)
      BY <1>10 DEF DriveFails, AtGate
    <2>2. QED
      BY <1>10, <2>1, MarkPendingStep DEF DriveFails
  <1>11. CASE RecordDriveFailure(t)
    <2>1. "failing" \in Stages \ {"queued"} /\ At(t, "failing")
      BY <1>11 DEF Stages, RecordDriveFailure
    <2>2. PICK permanent \in BOOLEAN :
            SetRow(t, Failure(Row0(t), maxRetry, FALSE, permanent, "unspecified"))
      BY <1>11 DEF RecordDriveFailure
    <2>3. RowInv(Failure(Row0(t), maxRetry, FALSE, permanent, "unspecified"), maxRetry)
      BY <2>1, AtStage, FailureInv DEF CycleInv, RetryReasons
    <2>4. QED
      BY <1>11, <2>1, <2>2, <2>3, AtStage, LeaveStep DEF RecordDriveFailure, Leave, SetRow
  <1>12. CASE NothingToDo(t)
    <2>1. "gated" \in Stages \ {"queued"} /\ At(t, "gated")
      BY <1>12 DEF Stages, NothingToDo
    <2>2. QED
      BY <1>12, <2>1, AtStage, LeaveStep DEF NothingToDo, Leave
  <1>13. CASE StartDownstream(t)
    BY <1>13, MarkPendingStep DEF StartDownstream
  <1>14. CASE Succeed(t)
    <2>1. "downstream" \in Stages \ {"queued"} /\ At(t, "downstream")
      BY <1>14 DEF Stages, Succeed
    <2>2. RowInv(CompleteCycle(Row0(t)), maxRetry)
      BY <2>1, AtStage, CompleteCycleInv
    <2>3. QED
      BY <1>14, <2>1, <2>2, AtStage, LeaveStep DEF Succeed, Leave, SetRow
  <1>15. CASE Fail(t)
    <2>1. "downstream" \in Stages \ {"queued"} /\ At(t, "downstream")
      BY <1>15 DEF Stages, Fail
    <2>2. PICK permanent \in BOOLEAN, reason \in RetryReasons :
            SetRow(t, Failure(Row0(t), maxRetry, TRUE, permanent, reason))
      BY <1>15 DEF Fail
    <2>3. RowInv(Failure(Row0(t), maxRetry, TRUE, permanent, reason), maxRetry)
      BY <2>1, AtStage, FailureInv DEF CycleInv
    <2>4. QED
      BY <1>15, <2>1, <2>2, <2>3, AtStage, LeaveStep DEF Fail, Leave, SetRow
  <1>16. QED
    BY <1>1, <1>2, <1>3, <1>4, <1>5, <1>6, <1>7, <1>8, <1>9, <1>10, <1>11, <1>12, <1>13,
       <1>14, <1>15 DEF Cycle

\* A step of the scheduler, the operator, a user or the clock: it may rewrite
\* rows under a running cycle, but no thread enters or leaves one.
LEMMA EnvironmentStep ==
  ASSUME IInv,
         UNCHANGED <<maxRetry, lock, crashes>>,
         tasks' = tasks \/ \E r \in Records : StartTask(r),
         claimed' \subseteq Records, resets' \subseteq Records,
         DOMAIN rows' = Records, rows' = [r \in Records |-> rows'[r]],
         \A r \in Records : RowInv(rows'[r], maxRetry),
         \A t \in Tasks, r \in Records :
            CycleInv(tasks[t], rows[r], maxRetry) => CycleInv(tasks[t], rows'[r], maxRetry)
  PROVE  IInv'
  <1>1. tasks \in [Tasks -> TaskState] /\ rows' \in [Records -> Row]
    BY DEF IInv, TypeOK, RowInv
  <1>2. /\ tasks' \in [Tasks -> TaskState]
        /\ \A t \in Tasks : tasks'[t].pc # "idle" => tasks'[t].rec \in Records
        /\ \A t \in Tasks : InCycle(t)' => InCycle(t) /\ tasks'[t] = tasks[t]
    <2>1. CASE tasks' = tasks
      BY <2>1 DEF IInv, TypeOK, InCycle
    <2>2. CASE \E r \in Records : StartTask(r)
      <3>1. PICK r \in Records, t \in Tasks : tasks' = [tasks EXCEPT ![t] = QueuedTask(r)]
        BY <2>2 DEF StartTask
      <3>2. QueuedTask(r) \in TaskState /\ QueuedTask(r).pc = "queued" /\ QueuedTask(r).rec = r
        BY DEF QueuedTask, TaskState, Stages
      <3>3. tasks' \in [Tasks -> TaskState]
        BY <1>1, <3>1, <3>2
      <3>4. ASSUME NEW u \in Tasks PROVE tasks'[u].pc # "idle" => tasks'[u].rec \in Records
        BY <1>1, <3>1, <3>2 DEF IInv, TypeOK
      <3>5. ASSUME NEW u \in Tasks, InCycle(u)' PROVE InCycle(u) /\ tasks'[u] = tasks[u]
        BY <1>1, <3>1, <3>2, <3>5 DEF InCycle
      <3>6. QED
        BY <3>3, <3>4, <3>5
    <2>3. QED
      BY <2>1, <2>2
  <1>3. TypeOK'
    BY <1>1, <1>2 DEF IInv, TypeOK
  <1>4. ASSUME NEW t \in Tasks, InCycle(t)'
        PROVE  (lock = t /\ CycleInv(tasks[t], rows[tasks[t].rec], maxRetry))'
    <2>1. InCycle(t) /\ tasks'[t] = tasks[t]
      BY <1>2, <1>4
    <2>2. tasks[t].rec \in Records
      BY <2>1 DEF IInv, TypeOK, InCycle, Stages
    <2>3. lock = t /\ CycleInv(tasks[t], rows[tasks[t].rec], maxRetry)
      BY <2>1 DEF IInv
    <2>4. CycleInv(tasks'[t], rows'[tasks'[t].rec], maxRetry')
      BY <2>1, <2>2, <2>3
    <2>5. QED
      BY <2>3, <2>4
  <1>5. \A r \in Records : RowInv(rows[r], maxRetry)'
    BY DEF RowInv
  <1>6. QED
    BY <1>3, <1>4, <1>5 DEF IInv

LEMMA SubmitKeepsIInv ==
  ASSUME IInv, NEW r \in Records, Submit(r) PROVE IInv'
  BY EnvironmentStep DEF Submit, IInv, TypeOK

LEMMA DispatchKeepsIInv ==
  ASSUME IInv, NEW r \in Records, Dispatch(r) PROVE IInv'
  BY EnvironmentStep DEF Dispatch, IInv, TypeOK

LEMMA DropClaimKeepsIInv ==
  ASSUME IInv, NEW r \in Records, DropClaim(r) PROVE IInv'
  BY EnvironmentStep DEF DropClaim, IInv, TypeOK

LEMMA CheckCutoffKeepsIInv ==
  ASSUME IInv, NEW r \in Records, CheckCutoff(r) PROVE IInv'
  BY EnvironmentStep DEF CheckCutoff, IInv, TypeOK

LEMMA ResetAndRetryKeepsIInv ==
  ASSUME IInv, NEW r \in Records, ResetAndRetry(r) PROVE IInv'
  <1>1. rows \in [Records -> Row] /\ maxRetry \in MaxRetryCounts
        /\ claimed \subseteq Records /\ resets \subseteq Records
    BY DEF IInv, TypeOK
  <1>2. rows' = [rows EXCEPT ![r] = ResetRetryCount(rows[r])]
    BY DEF ResetAndRetry
  <1>3. \A s \in Records : RowInv(rows'[s], maxRetry)
    BY <1>1, <1>2, ResetRetryCountInv DEF IInv
  <1>4. \A t \in Tasks, s \in Records :
          CycleInv(tasks[t], rows[s], maxRetry) => CycleInv(tasks[t], rows'[s], maxRetry)
    BY <1>1, <1>2, ResetUnderCycle
  <1>5. QED
    BY <1>1, <1>2, <1>3, <1>4, EnvironmentStep DEF ResetAndRetry

LEMMA ScanKeepsIInv ==
  ASSUME IInv, Scan PROVE IInv'
  <1>1. rows \in [Records -> Row] /\ maxRetry \in MaxRetryCounts /\ resets \subseteq Records
    BY DEF IInv, TypeOK
  <1>2. PICK batch \in SUBSET DueRows :
          /\ claimed' = batch
          /\ rows' = [r \in Records |-> IF r \in batch THEN Claim(rows[r]) ELSE rows[r]]
    BY DEF Scan
  <1>3. claimed' \subseteq Records /\ \A r \in batch : Claimable(rows[r], maxRetry)
    BY <1>2 DEF DueRows
  <1>4. \A r \in Records : RowInv(rows'[r], maxRetry)
    BY <1>1, <1>2, ClaimInv DEF IInv
  <1>5. \A t \in Tasks, r \in Records :
          CycleInv(tasks[t], rows[r], maxRetry) => CycleInv(tasks[t], rows'[r], maxRetry)
    BY <1>1, <1>2, <1>3, ClaimUnderCycle
  <1>6. QED
    BY <1>1, <1>2, <1>3, <1>4, <1>5, EnvironmentStep DEF Scan

LEMMA TickKeepsIInv ==
  ASSUME IInv, Tick PROVE IInv'
  <1>1. rows \in [Records -> Row] /\ maxRetry \in MaxRetryCounts
        /\ claimed \subseteq Records /\ resets \subseteq Records
    BY DEF IInv, TypeOK
  <1>2. rows' = [r \in Records |-> Elapse(rows[r])]
    BY DEF Tick
  <1>3. \A r \in Records : RowInv(rows'[r], maxRetry)
    BY <1>1, <1>2, ElapseInv DEF IInv
  <1>4. \A t \in Tasks, r \in Records :
          CycleInv(tasks[t], rows[r], maxRetry) => CycleInv(tasks[t], rows'[r], maxRetry)
    BY <1>1, <1>2, ElapseUnderCycle
  <1>5. QED
    BY <1>1, <1>2, <1>3, <1>4, EnvironmentStep DEF Tick

LEMMA RestartKeepsIInv ==
  ASSUME IInv, Restart PROVE IInv'
  <1>1. /\ rows \in [Records -> Row] /\ maxRetry \in MaxRetryCounts
        /\ maxRetry' \in MaxRetryCounts
        /\ crashes' \in 0..MaxCrashes
    BY LifecycleAssumptions DEF IInv, TypeOK, Restart
  <1>2. PICK elapsed \in [Records -> 0..MaxDelay] :
          rows' = [r \in Records |-> Backfill(rows[r], maxRetry', elapsed[r])]
    BY DEF Restart
  <1>3. \A r \in Records : elapsed[r] \in Nat
    OBVIOUS
  <1>4. \A r \in Records : RowInv(rows'[r], maxRetry')
    BY <1>1, <1>2, <1>3, BackfillInv DEF IInv
  <1>5. rows' \in [Records -> Row]
    BY <1>2, <1>4 DEF RowInv
  <1>6. /\ tasks' = [t \in Tasks |-> IdleTask]
        /\ IdleTask \in TaskState /\ IdleTask.pc = "idle"
    BY DEF Restart, IdleTask, TaskState
  <1>7. \A t \in Tasks : ~InCycle(t)'
    BY <1>6 DEF InCycle, Stages
  <1>8. TypeOK'
    BY <1>1, <1>5, <1>6 DEF TypeOK, Restart
  <1>9. QED
    BY <1>4, <1>7, <1>8 DEF IInv, RowInv

LEMMA InitIInv == Init => IInv
  <1>1. ASSUME Init PROVE TypeOK
    BY <1>1, AbsentRowType, LifecycleAssumptions DEF Init, TypeOK, IdleTask, TaskState
  <1>2. ASSUME Init PROVE \A r \in Records : RowInv(rows[r], maxRetry)
    BY <1>2, AbsentRowInv DEF Init
  <1>3. ASSUME Init PROVE \A t \in Tasks : ~InCycle(t)
    BY <1>3 DEF Init, InCycle, IdleTask, Stages
  <1>4. QED
    BY <1>1, <1>2, <1>3 DEF IInv

LEMMA NextIInv == IInv /\ [Next]_vars => IInv'
  <1> SUFFICES ASSUME IInv, [Next]_vars PROVE IInv'
    OBVIOUS
  <1>1. CASE UNCHANGED vars
    BY <1>1 DEF vars, IInv, TypeOK, InCycle, RowInv
  <1>2. CASE Next
    BY <1>2, CycleKeepsIInv, SubmitKeepsIInv, DispatchKeepsIInv, DropClaimKeepsIInv,
       CheckCutoffKeepsIInv, ResetAndRetryKeepsIInv, ScanKeepsIInv, RestartKeepsIInv,
       TickKeepsIInv DEF Next
  <1>3. QED
    BY <1>1, <1>2

-----------------------------------------------------------------------------
(* The theorems.                                                             *)

\* The inductive invariant holds throughout.
THEOREM InductiveInvariant == Spec => []IInv
  BY InitIInv, NextIInv, PTL DEF Spec

\* Every variable keeps its type.
THEOREM TypeCorrect == Spec => []TypeOK
  <1>1. IInv => TypeOK
    BY DEF IInv
  <1>2. QED
    BY <1>1, InductiveInvariant, PTL

\* A cycle that can still write a failure (core.py, the except branches of
\* process_integration_logic) has a pending row with attempts left.
THEOREM CyclesRunBelowLimit == Spec => []RunningBelowLimit
  <1>1. IInv => RunningBelowLimit
    BY DEF IInv, RunningBelowLimit, CycleInv, InCycle, Stages
  <1>2. QED
    BY <1>1, InductiveInvariant, PTL

\* record_result never counts past the largest limit that was in force.
THEOREM RetryBudget == Spec => []BudgetKept
  <1>1. IInv => BudgetKept
    BY DEF IInv, BudgetKept, RowInv
  <1>2. QED
    BY <1>1, InductiveInvariant, PTL

\* No cycle passes is_retry_eligible before next_retry_at, and none is behind
\* it before next_retry_at, except through the shortcut for an invalid PDF.
THEOREM BackoffKept == Spec => []BackoffRespected
  <1>1. IInv => BackoffRespected
    BY DEF IInv, BackoffRespected, CycleInv
  <1>2. QED
    BY <1>1, InductiveInvariant, PTL

\* A row that failed below the limit always satisfies the WHERE clause of
\* claim_due_retries once its delay and its lease are over.
THEOREM FailuresScheduled == Spec => []FailedRowsStayScheduled
  <1>1. ASSUME IInv, NEW r \in Records,
               Unfinished(rows[r]), rows[r].retry_count \in 1..(maxRetry - 1)
        PROVE  rows[r].routed /\ rows[r].due_in # None /\ rows[r].defer_reason # "none"
    <2>1. RowInv(rows[r], maxRetry) /\ rows[r].retry_count \in Nat /\ maxRetry \in Nat
      BY <1>1, LimitIsPositive DEF IInv, TypeOK, Row
    <2>2. rows[r].defer_reason # "cutoff"
      BY <1>1, <2>1 DEF RowInv
    <2>3. ~NeedsBackfill(rows[r])
      BY <2>1, <2>2 DEF RowInv
    <2>4. QED
      BY <1>1, <2>1, <2>3 DEF RowInv, NeedsBackfill
  <1>2. IInv => FailedRowsStayScheduled
    BY <1>1 DEF FailedRowsStayScheduled
  <1>3. QED
    BY <1>2, InductiveInvariant, PTL

\* While a cycle does downstream work, claim_due_retries passes its row over,
\* but for an expired lease and an operator's reset.
THEOREM NoSecondClaim == Spec => []SchedulerStaysAway
  <1>1. ASSUME IInv, NEW t \in Tasks,
               tasks[t].pc \in {"failing", "downstream"},
               Claimable(rows[tasks[t].rec], maxRetry),
               rows[tasks[t].rec] # ResetRetryCount(rows[tasks[t].rec])
        PROVE  rows[tasks[t].rec].claim_age = ClaimLease + 1
    <2>1. InCycle(t) /\ tasks[t].rec \in Records
      BY <1>1 DEF IInv, TypeOK, InCycle, Stages
    <2>2. rows[tasks[t].rec].claim_age # None
      BY <1>1, <2>1 DEF IInv, CycleInv
    <2>3. rows[tasks[t].rec].claim_age \in 0..(ClaimLease + 1) \cup {None}
      BY <1>1, <2>1 DEF IInv, TypeOK, Row
    <2>4. QED
      BY <1>1, <2>2, <2>3, LeaseIsNat DEF Claimable, Unclaimed
  <1>2. IInv => SchedulerStaysAway
    BY <1>1 DEF SchedulerStaysAway
  <1>3. QED
    BY <1>2, InductiveInvariant, PTL

LEMMA CutoffUnchanged ==
  ASSUME NEW row \in Row, row.defer_reason = "cutoff", row.due_in = None
  PROVE  [row EXCEPT !.defer_reason = "cutoff", !.due_in = None] = row
  BY DEF Row

\* Between restarts _backfill_retry_schedule finds nothing to repair.
THEOREM BackfillIdle == Spec => []NothingToBackfill
  <1>1. ASSUME IInv, NEW r \in Records, NEW elapsed \in 0..MaxDelay
        PROVE  Backfill(rows[r], maxRetry, elapsed) = rows[r]
    <2>1. rows[r] \in Row /\ RowInv(rows[r], maxRetry)
      BY <1>1 DEF IInv, TypeOK
    <2>2. CASE ~NeedsBackfill(rows[r])
      BY <2>2 DEF Backfill
    <2>3. CASE NeedsBackfill(rows[r])
      <3>1. /\ rows[r].defer_reason = "cutoff" /\ rows[r].due_in = None
            /\ rows[r].retry_count >= maxRetry
        BY <2>1, <2>3 DEF RowInv
      <3>2. Backfill(rows[r], maxRetry, elapsed)
              = [rows[r] EXCEPT !.defer_reason = "cutoff", !.due_in = None]
        BY <2>3, <3>1 DEF Backfill
      <3>3. QED
        BY <2>1, <3>1, <3>2, CutoffUnchanged
    <2>4. QED
      BY <2>2, <2>3
  <1>2. IInv => NothingToBackfill
    BY <1>1 DEF NothingToBackfill
  <1>3. QED
    BY <1>2, InductiveInvariant, PTL

-----------------------------------------------------------------------------
(* Who reopens a record at its cutoff.                                       *)

LEMMA CutoffIsCounted ==
  ASSUME NEW row, NEW max \in MaxRetryCounts, RowInv(row, max)
  PROVE  AtCutoff(row, max) <=> Unfinished(row) /\ row.retry_count >= max
  BY DEF RowInv, AtCutoff

\* The operations that may meet a row at its cutoff leave it there.
LEMMA CutoffKept ==
  ASSUME NEW row, NEW max \in MaxRetryCounts, NEW elapsed \in Nat,
         RowInv(row, max), AtCutoff(row, max)
  PROVE  /\ AtCutoff(MarkPending(row, max), max)
         /\ AtCutoff(SetBiblionumber(row), max)
         /\ AtCutoff(Claim(row), max)
         /\ AtCutoff(Elapse(row), max)
         /\ AtCutoff(Backfill(row, max, elapsed), max)
  <1>1. /\ row \in Row /\ row.retry_count \in Nat /\ max \in Nat
        /\ Unfinished(row) /\ row.retry_count >= max
    BY CutoffIsCounted, LimitIsPositive DEF RowInv, Row
  <1>2. MarkPending(row, max) = row
    BY <1>1 DEF MarkPending, Unfinished
  <1>3. AtCutoff(SetBiblionumber(row), max) /\ AtCutoff(Claim(row), max)
    BY <1>1 DEF AtCutoff, Unfinished, SetBiblionumber, Claim, Row
  <1>4. AtCutoff(Elapse(row), max)
    BY <1>1 DEF AtCutoff, Unfinished, Elapse, Row
  <1>5. AtCutoff(Backfill(row, max, elapsed), max)
    BY <1>1 DEF AtCutoff, Unfinished, Backfill, Row
  <1>6. QED
    BY <1>2, <1>3, <1>4, <1>5

LEMMA CycleKeepsCutoff ==
  ASSUME IInv, NEW t \in Tasks, Cycle(t), ~ConfirmPublishedCover(t),
         NEW r \in Records, AtCutoff(rows[r], maxRetry)
  PROVE  AtCutoff(rows'[r], maxRetry)
  <1>1. /\ rows \in [Records -> Row] /\ maxRetry \in MaxRetryCounts
        /\ RowInv(rows[r], maxRetry)
    BY DEF IInv, TypeOK
  <1>2. /\ AtCutoff(MarkPending(rows[r], maxRetry), maxRetry)
        /\ AtCutoff(SetBiblionumber(rows[r]), maxRetry)
    BY <1>1, 0 \in Nat, CutoffKept
  <1>3. CASE rows' = rows
    BY <1>3
  <1>4. CASE SetRow(t, MarkPending(Row0(t), maxRetry))
    BY <1>1, <1>2, <1>4 DEF SetRow, Row0
  <1>5. CASE Route(t)
    BY <1>1, <1>2, <1>5 DEF Route, SetRow, Row0
  <1>6. CASE \E x : SetRow(t, x) /\ (At(t, "failing") \/ At(t, "downstream"))
    <2>1. tasks[t].rec # r
      <3>1. InCycle(t) /\ tasks[t].pc \in {"failing", "downstream"}
        BY <1>6 DEF At, InCycle, Stages
      <3>2. rows[tasks[t].rec].retry_count < maxRetry
        BY <3>1 DEF IInv, CycleInv
      <3>3. rows[r].retry_count >= maxRetry
        BY <1>1, CutoffIsCounted
      <3>4. QED
        BY <1>1, <3>2, <3>3, LimitIsPositive DEF Row
    <2>2. QED
      BY <1>1, <1>6, <2>1 DEF SetRow
  <1>7. QED
    BY <1>3, <1>4, <1>5, <1>6
       DEF Cycle, Enter, Refuse, Admit, Defer, AbortUncounted, PassGate, ChangedAtGate,
           DriveFails, RecordDriveFailure, NothingToDo, StartDownstream, Succeed, Fail

\* Once get_deferred says "cutoff", only the retry endpoint, or a cycle that
\* finds the PDF invalid and the cover published, makes it say anything else.
THEOREM CutoffIsFinal == Spec => CutoffLeftByOperatorOnly
  <1> DEFINE Left(r) == /\ AtCutoff(rows[r], maxRetry)
                        /\ maxRetry' = maxRetry
                        /\ ~AtCutoff(rows'[r], maxRetry)
             Reopened(r) == r \in resets /\ r \notin resets'
             Confirmed(r) == \E t \in Tasks : ConfirmPublishedCover(t) /\ tasks[t].rec = r
  <1>1. ASSUME IInv, Next, NEW r \in Records, Left(r) PROVE Reopened(r) \/ Confirmed(r)
    <2>1. /\ rows \in [Records -> Row] /\ maxRetry \in MaxRetryCounts
          /\ RowInv(rows[r], maxRetry)
      BY <1>1 DEF IInv, TypeOK
    <2>2. ASSUME NEW t \in Tasks, Cycle(t) PROVE Confirmed(r)
      <3>1. ConfirmPublishedCover(t)
        BY <1>1, <2>2, CycleKeepsCutoff
      <3>2. tasks[t].rec = r
        BY <1>1, <2>1, <3>1 DEF ConfirmPublishedCover, SetRow
      <3>3. QED
        BY <3>1, <3>2
    <2>3. ASSUME NEW s \in Records,
                 Submit(s) \/ Dispatch(s) \/ DropClaim(s) \/ CheckCutoff(s) \/ ResetAndRetry(s)
          PROVE  Reopened(r)
      <3>1. rows'[r] # rows[r]
        BY <1>1
      <3>2. ResetAndRetry(s) /\ s = r
        BY <2>1, <2>3, <3>1 DEF Submit, Dispatch, DropClaim, CheckCutoff, ResetAndRetry
      <3>3. QED
        BY <3>2 DEF ResetAndRetry
    <2>4. CASE Scan
      <3>1. rows'[r] = rows[r] \/ rows'[r] = Claim(rows[r])
        BY <2>4 DEF Scan
      <3>2. QED
        BY <1>1, <2>1, <3>1, 0 \in Nat, CutoffKept
    <2>5. CASE Restart
      <3>1. PICK elapsed \in [Records -> 0..MaxDelay] :
              rows' = [q \in Records |-> Backfill(rows[q], maxRetry', elapsed[q])]
        BY <2>5 DEF Restart
      <3>2. elapsed[r] \in Nat /\ rows'[r] = Backfill(rows[r], maxRetry, elapsed[r])
        BY <1>1, <3>1
      <3>3. QED
        BY <1>1, <2>1, <3>2, CutoffKept
    <2>6. CASE Tick
      <3>1. rows'[r] = Elapse(rows[r])
        BY <2>6 DEF Tick
      <3>2. QED
        BY <1>1, <2>1, <3>1, 0 \in Nat, CutoffKept
    <2>7. QED
      BY <1>1, <2>2, <2>3, <2>4, <2>5, <2>6 DEF Next
  <1>2. IInv /\ [Next]_vars =>
          [\A r \in Records :
             /\ AtCutoff(rows[r], maxRetry)
             /\ maxRetry' = maxRetry
             /\ ~AtCutoff(rows'[r], maxRetry)
             => \/ r \in resets /\ r \notin resets'
                \/ \E t \in Tasks : ConfirmPublishedCover(t) /\ tasks[t].rec = r]_vars
    BY <1>1
  <1>3. QED
    BY <1>2, InductiveInvariant, PTL DEF Spec, CutoffLeftByOperatorOnly

-----------------------------------------------------------------------------
(* The refinement of DurableRow.                                             *)

\* What the refinement mapping keeps of a row, and whom it takes for the worker.
Kind(row) == IF Unfinished(row) THEN "unfinished" ELSE row.status
Kinds     == [r \in Records |-> Kind(rows[r])]
Worker    == IF lock = NoTask THEN NoRecord ELSE tasks[lock].rec

\* The lock is held by a thread inside a cycle; only an unfinished row keeps the
\* reason of a failure, hence the shortcut for an invalid PDF is for such a row,
\* also when the operator has reset it since the reason was read.
HolderInv ==
  /\ lock # NoTask => InCycle(lock)
  /\ \A r \in Records : rows[r].retry_reason # "unspecified" => Unfinished(rows[r])
  /\ \A t \in Tasks : tasks[t].bypass /\ tasks[t].pc = "routed" => Unfinished(Row0(t))

\* What the operations make of a row, for the mapping.
LEMMA KindKept ==
  ASSUME NEW row \in Row, NEW max \in MaxRetryCounts, NEW elapsed \in Nat
  PROVE  /\ \A x \in {SetBiblionumber(row), Claim(row), Elapse(row), ResetRetryCount(row),
                      Backfill(row, max, elapsed)} :
              /\ x.status = row.status
              /\ x.retry_reason \in {row.retry_reason, "unspecified"}
         /\ CompleteCycle(row).status = "ok" /\ CompleteCycle(row).retry_reason = "unspecified"
         /\ MarkPending(row, max) = row
            \/ MarkPending(row, max).status = "pending"
  <1>1. \A x \in {SetBiblionumber(row), Claim(row), Elapse(row), ResetRetryCount(row)} :
          x.status = row.status /\ x.retry_reason \in {row.retry_reason, "unspecified"}
    BY DEF SetBiblionumber, Claim, Elapse, ResetRetryCount, Row
  <1>2. /\ Backfill(row, max, elapsed).status = row.status
        /\ Backfill(row, max, elapsed).retry_reason = row.retry_reason
    BY DEF Backfill, Row
  <1>3. CompleteCycle(row).status = "ok" /\ CompleteCycle(row).retry_reason = "unspecified"
    BY DEF CompleteCycle, Row
  <1>4. MarkPending(row, max) = row \/ MarkPending(row, max).status = "pending"
    BY DEF MarkPending, Row, AbsentRow
  <1>5. QED
    BY <1>1, <1>2, <1>3, <1>4

LEMMA FailureIsUnfinished ==
  ASSUME NEW row \in Row, NEW max, NEW partial \in BOOLEAN, NEW permanent \in BOOLEAN,
         NEW reason
  PROVE  Unfinished(Failure(row, max, partial, permanent, reason))
  BY DEF Failure, Unfinished, Row

\* What one step of a thread is to its row and to the lock.
Outcome(t, old, new) ==
  \/ lock = NoTask /\ lock' = t /\ InCycle(t)' /\ tasks'[t].rec = tasks[t].rec
     /\ Kind(new) \in {Kind(old), "unfinished"}
  \/ lock = NoTask /\ lock' = NoTask /\ new = old
  \/ lock = t /\ lock' = t /\ InCycle(t)' /\ tasks'[t].rec = tasks[t].rec
     /\ Kind(new) \in {Kind(old), "unfinished"}
  \/ lock = t /\ lock' = NoTask /\ Kind(new) \in {Kind(old), "unfinished"}
  \/ lock = t /\ lock' = NoTask /\ Kind(old) = "unfinished" /\ Kind(new) = "ok"

Sound(t, new) ==
  /\ new.retry_reason # "unspecified" => Unfinished(new)
  /\ tasks'[t].bypass /\ tasks'[t].pc = "routed" => Unfinished(new)

LEMMA LeavesSoundly ==
  ASSUME IInv, NEW t \in Tasks, Leave(t) \/ tasks' = [tasks EXCEPT ![t] = IdleTask]
  PROVE  ~tasks'[t].bypass
  BY DEF IInv, TypeOK, Leave, IdleTask

\* mark_pending in the cycle that holds the lock.
LEMMA MarkPendingOutcome ==
  ASSUME IInv, HolderInv, NEW t \in Tasks, NEW from \in {"gate_file", "gate_cover", "gated"},
         NEW pc \in {"gate_cover", "gated", "failing", "downstream"},
         At(t, from),
         SetRow(t, MarkPending(Row0(t), maxRetry)),
         IF PendingAccepted(Row0(t), maxRetry) THEN GoTo(t, pc) ELSE Leave(t)
  PROVE  LET new == MarkPending(Row0(t), maxRetry) IN Outcome(t, Row0(t), new) /\ Sound(t, new)
  <1> DEFINE new == MarkPending(Row0(t), maxRetry)
  <1>1. from \in Stages \ {"queued"}
    BY DEF Stages
  <1>2. /\ lock = t /\ tasks[t] \in TaskState /\ tasks \in [Tasks -> TaskState]
        /\ Row0(t) \in Row /\ maxRetry \in MaxRetryCounts /\ tasks[t].rec \in Records
    BY <1>1, AtStage DEF IInv, TypeOK
  <1>3. new = Row0(t) \/ new.status = "pending"
    BY <1>2, 0 \in Nat, KindKept
  <1>4. Row0(t).retry_reason # "unspecified" => Unfinished(Row0(t))
    BY <1>2 DEF HolderInv, Row0
  <1> HIDE DEF new
  <1>5. Kind(new) \in {Kind(Row0(t)), "unfinished"}
    BY <1>3 DEF Kind, Unfinished
  <1>6. new.retry_reason # "unspecified" => Unfinished(new)
    BY <1>3, <1>4 DEF Unfinished
  <1>7. CASE GoTo(t, pc)
    <2>1. tasks'[t].pc = pc /\ tasks'[t].rec = tasks[t].rec /\ lock' = t
      BY <1>2, <1>7 DEF GoTo, TaskState
    <2>2. InCycle(t)' /\ pc # "routed"
      BY <2>1 DEF InCycle, Stages
    <2>3. QED
      BY <1>2, <1>5, <1>6, <2>1, <2>2 DEF Outcome, Sound, new
  <1>8. CASE Leave(t)
    <2>1. lock' = NoTask /\ ~tasks'[t].bypass
      BY <1>8, LeavesSoundly DEF Leave
    <2>2. QED
      BY <1>2, <1>5, <1>6, <2>1 DEF Outcome, Sound, new
  <1>9. QED
    BY <1>7, <1>8

LEMMA CycleOutcome ==
  ASSUME IInv, HolderInv, NEW t \in Tasks, Cycle(t)
  PROVE  LET new == rows'[tasks[t].rec] IN Outcome(t, Row0(t), new) /\ Sound(t, new)
  <1> DEFINE new == rows'[tasks[t].rec]
  <1>1. /\ tasks \in [Tasks -> TaskState] /\ rows \in [Records -> Row]
        /\ maxRetry \in MaxRetryCounts /\ tasks[t] \in TaskState
        /\ t # NoTask
    BY LifecycleAssumptions DEF IInv, TypeOK
  <1>2. /\ tasks[t].rec \in Records /\ Row0(t) \in Row
        /\ Row0(t).retry_reason # "unspecified" => Unfinished(Row0(t))
    <2>1. tasks[t].pc # "idle"
      BY DEF Cycle, Enter, Refuse, Route, Admit, Defer, ConfirmPublishedCover, AbortUncounted,
             PassGate, ChangedAtGate, DriveFails, RecordDriveFailure, NothingToDo,
             StartDownstream, Succeed, Fail, At, AtGate
    <2>2. QED
      BY <1>1, <2>1 DEF IInv, TypeOK, HolderInv, Row0
  <1>3. ASSUME NEW x, SetRow(t, x) PROVE new = x
    BY <1>1, <1>2, <1>3 DEF SetRow
  <1>4. rows' = rows => new = Row0(t)
    BY DEF Row0
  <1> HIDE DEF new
  <1>5. CASE Enter(t)
    <2>1. /\ tasks'[t] = [tasks[t] EXCEPT !.pc = "entered"] /\ lock = NoTask /\ lock' = t
          /\ new = Row0(t) \/ new = MarkPending(Row0(t), maxRetry)
      BY <1>1, <1>3, <1>4, <1>5 DEF Enter
    <2>2. tasks'[t].pc = "entered" /\ tasks'[t].rec = tasks[t].rec /\ InCycle(t)'
      BY <1>1, <2>1 DEF TaskState, InCycle, Stages
    <2>3. new = Row0(t) \/ new.status = "pending"
      BY <1>1, <1>2, <2>1, 0 \in Nat, KindKept
    <2>4. QED
      BY <1>2, <2>1, <2>2, <2>3 DEF Outcome, Sound, Kind, Unfinished, new
  <1>6. CASE Refuse(t)
    BY <1>2, <1>4, <1>6, LeavesSoundly DEF Refuse, Outcome, Sound, new
  <1>7. CASE Route(t)
    <2>1. PICK b \in BOOLEAN :
            /\ tasks' = [tasks EXCEPT ![t].pc = "routed", ![t].bypass = b]
            /\ b => Row0(t).retry_reason = "SourceResolutionError"
      BY <1>7 DEF Route
    <2>2. tasks'[t].pc = "routed" /\ tasks'[t].rec = tasks[t].rec /\ tasks'[t].bypass = b
      BY <1>1, <2>1 DEF TaskState
    <2>3. lock = t /\ lock' = t /\ InCycle(t)'
      BY <1>7, <2>2 DEF Route, At, InCycle, Stages
    <2>4. new = SetBiblionumber(Row0(t))
      BY <1>3, <1>7 DEF Route
    <2>5. new.status = Row0(t).status /\ new.retry_reason \in {Row0(t).retry_reason, "unspecified"}
      BY <1>1, <1>2, <2>4, 0 \in Nat, KindKept
    <2>6. b => Unfinished(Row0(t))
      BY <1>2, <2>1
    <2>7. Unfinished(new) <=> Unfinished(Row0(t))
      BY <2>5 DEF Unfinished
    <2>8. QED
      BY <1>2, <2>2, <2>3, <2>5, <2>6, <2>7 DEF Outcome, Sound, Kind, new
  <1>8. CASE Admit(t) \/ PassGate(t)
    <2>1. PICK pc \in {"gate_file", "gate_cover", "gated"} : GoTo(t, pc)
      BY <1>8 DEF Admit, PassGate, NextGate
    <2>2. new = Row0(t) /\ lock = t
      BY <1>4, <1>8 DEF Admit, PassGate, AtGate, At
    <2>3. tasks'[t].pc = pc /\ tasks'[t].rec = tasks[t].rec /\ lock' = t
      BY <1>1, <2>1, <2>2 DEF GoTo, TaskState
    <2>4. InCycle(t)' /\ pc # "routed"
      BY <2>3 DEF InCycle, Stages
    <2>5. QED
      BY <1>2, <2>2, <2>3, <2>4 DEF Outcome, Sound, new
  <1>9. CASE Defer(t) \/ AbortUncounted(t) \/ NothingToDo(t)
    <2>1. new = Row0(t) /\ lock = t /\ lock' = NoTask /\ ~tasks'[t].bypass
      BY <1>4, <1>9, LeavesSoundly DEF Defer, AbortUncounted, NothingToDo, At, Leave
    <2>2. QED
      BY <1>2, <2>1 DEF Outcome, Sound, new
  <1>10. CASE ConfirmPublishedCover(t) \/ Succeed(t)
    <2>1. /\ new = CompleteCycle(Row0(t)) /\ lock = t /\ lock' = NoTask /\ ~tasks'[t].bypass
      BY <1>3, <1>10, LeavesSoundly DEF ConfirmPublishedCover, Succeed, At, Leave
    <2>2. new.status = "ok" /\ new.retry_reason = "unspecified"
      BY <1>1, <1>2, <2>1, 0 \in Nat, KindKept
    <2>3. Unfinished(Row0(t))
      <3>1. CASE ConfirmPublishedCover(t)
        BY <3>1 DEF ConfirmPublishedCover, At, HolderInv
      <3>2. CASE Succeed(t)
        BY <3>2 DEF Succeed, At, IInv, InCycle, Stages, CycleInv, Row0, Unfinished
      <3>3. QED
        BY <1>10, <3>1, <3>2
    <2>4. QED
      BY <2>1, <2>2, <2>3 DEF Outcome, Sound, Kind, Unfinished, new
  <1>11. CASE ChangedAtGate(t)
    <2>1. PICK pc \in {"gate_file", "gate_cover"} : At(t, pc)
      BY <1>11 DEF ChangedAtGate, AtGate
    <2>2. NextGate(tasks[t].pc) \in {"gate_cover", "gated"}
      BY DEF NextGate
    <2>3. new = MarkPending(Row0(t), maxRetry)
      BY <1>3, <1>11 DEF ChangedAtGate
    <2>4. QED
      BY <1>11, <2>1, <2>2, <2>3, MarkPendingOutcome DEF ChangedAtGate, new
  <1>12. CASE DriveFails(t)
    <2>1. PICK pc \in {"gate_file", "gate_cover", "gated"} : At(t, pc)
      BY <1>12 DEF DriveFails, AtGate
    <2>2. new = MarkPending(Row0(t), maxRetry)
      BY <1>3, <1>12 DEF DriveFails
    <2>3. QED
      BY <1>12, <2>1, <2>2, MarkPendingOutcome DEF DriveFails, new
  <1>13. CASE StartDownstream(t)
    <2>1. new = MarkPending(Row0(t), maxRetry)
      BY <1>3, <1>13 DEF StartDownstream
    <2>2. QED
      BY <1>13, <2>1, MarkPendingOutcome DEF StartDownstream, new
  <1>14. CASE RecordDriveFailure(t) \/ Fail(t)
    <2>1. lock = t /\ lock' = NoTask /\ ~tasks'[t].bypass
      BY <1>14, LeavesSoundly DEF RecordDriveFailure, Fail, At, Leave
    <2>2. PICK partial \in BOOLEAN, permanent \in BOOLEAN, reason \in RetryReasons :
            SetRow(t, Failure(Row0(t), maxRetry, partial, permanent, reason))
      BY <1>14 DEF RecordDriveFailure, Fail, RetryReasons
    <2>3. Unfinished(new)
      BY <1>2, <1>3, <2>2, FailureIsUnfinished
    <2>4. QED
      BY <2>1, <2>3 DEF Outcome, Sound, Kind, new
  <1>15. QED
    BY <1>5, <1>6, <1>7, <1>8, <1>9, <1>10, <1>11, <1>12, <1>13, <1>14 DEF Cycle, new

\* A step of a thread touches its own row and its own state.
LEMMA CycleFrame ==
  ASSUME IInv, NEW t \in Tasks, Cycle(t)
  PROVE  /\ tasks[t].rec \in Records
         /\ \A r \in Records \ {tasks[t].rec} : rows'[r] = rows[r]
         /\ \A u \in Tasks \ {t} : tasks'[u] = tasks[u]
         /\ tasks'[t].pc # "idle" => tasks'[t].rec = tasks[t].rec
  <1>1. tasks \in [Tasks -> TaskState] /\ rows \in [Records -> Row]
    BY DEF IInv, TypeOK
  <1>2. tasks[t].pc # "idle"
    BY DEF Cycle, Enter, Refuse, Route, Admit, Defer, ConfirmPublishedCover, AbortUncounted,
           PassGate, ChangedAtGate, DriveFails, RecordDriveFailure, NothingToDo,
           StartDownstream, Succeed, Fail, At, AtGate
  <1>3. rows' = rows \/ \E x : SetRow(t, x)
    BY DEF Cycle, Enter, Refuse, Route, Admit, Defer, ConfirmPublishedCover, AbortUncounted,
           PassGate, ChangedAtGate, DriveFails, RecordDriveFailure, NothingToDo,
           StartDownstream, Succeed, Fail
  <1>4. \E x : tasks' = [tasks EXCEPT ![t] = x]
    <2>1. CASE Route(t)
      BY <1>1, <2>1 DEF Route
    <2>2. CASE ~Route(t)
      BY <1>1, <2>2
         DEF Cycle, Enter, Refuse, Admit, Defer, ConfirmPublishedCover, AbortUncounted,
             PassGate, ChangedAtGate, DriveFails, RecordDriveFailure, NothingToDo,
             StartDownstream, Succeed, Fail, GoTo, Leave
    <2>3. QED
      BY <2>1, <2>2
  <1>5. tasks'[t].pc # "idle" => tasks'[t].rec = tasks[t].rec
    <2>1. CASE Route(t)
      BY <1>1, <2>1 DEF Route, TaskState
    <2>2. CASE Enter(t) \/ \E pc : GoTo(t, pc)
      BY <1>1, <2>2 DEF Enter, GoTo, TaskState
    <2>3. CASE tasks' = [tasks EXCEPT ![t] = IdleTask]
      BY <1>1, <2>3 DEF IdleTask
    <2>4. QED
      BY <2>1, <2>2, <2>3
         DEF Cycle, Refuse, Admit, Defer, ConfirmPublishedCover, AbortUncounted,
             PassGate, ChangedAtGate, DriveFails, RecordDriveFailure, NothingToDo,
             StartDownstream, Succeed, Fail, Leave
  <1>6. QED
    BY <1>1, <1>2, <1>3, <1>4, <1>5 DEF IInv, TypeOK, SetRow

\* Everyone else leaves the lock, whoever has it, and what a row counts as.
Environment ==
  \/ \E r \in Records : \/ Submit(r) \/ Dispatch(r) \/ DropClaim(r)
                        \/ CheckCutoff(r) \/ ResetAndRetry(r)
  \/ Scan
  \/ Tick

LEMMA EnvironmentFrame ==
  ASSUME IInv, HolderInv, Environment
  PROVE  /\ lock' = lock
         /\ \A r \in Records : /\ rows'[r].status = rows[r].status
                               /\ rows'[r].retry_reason \in {rows[r].retry_reason, "unspecified"}
         /\ \A t \in Tasks : tasks'[t] = tasks[t] \/ (tasks[t].pc = "idle" /\ ~tasks'[t].bypass)
  <1>1. tasks \in [Tasks -> TaskState] /\ rows \in [Records -> Row] /\ maxRetry \in MaxRetryCounts
    BY DEF IInv, TypeOK
  <1>2. lock' = lock
    BY DEF Environment, Submit, Dispatch, DropClaim, CheckCutoff, ResetAndRetry, Scan, Tick
  <1>3. ASSUME NEW r \in Records
        PROVE  rows'[r] \in {rows[r], Claim(rows[r]), Elapse(rows[r]), ResetRetryCount(rows[r])}
    <2>1. CASE Scan
      BY <2>1 DEF Scan
    <2>2. CASE Tick
      BY <2>2 DEF Tick
    <2>3. CASE \E q \in Records : ResetAndRetry(q)
      BY <1>1, <2>3 DEF ResetAndRetry
    <2>4. QED
      BY <2>1, <2>2, <2>3 DEF Environment, Submit, Dispatch, DropClaim, CheckCutoff
  <1>4. tasks' = tasks \/ \E r \in Records : StartTask(r)
    BY DEF Environment, Submit, Dispatch, DropClaim, CheckCutoff, ResetAndRetry, Scan, Tick
  <1>5. ASSUME NEW t \in Tasks
        PROVE  tasks'[t] = tasks[t] \/ (tasks[t].pc = "idle" /\ ~tasks'[t].bypass)
    BY <1>1, <1>4 DEF StartTask, QueuedTask
  <1>6. QED
    BY <1>1, <1>2, <1>3, <1>5, 0 \in Nat, KindKept

LEMMA RestartFrame ==
  ASSUME IInv, Restart
  PROVE  /\ lock' = NoTask
         /\ \A r \in Records : /\ rows'[r].status = rows[r].status
                               /\ rows'[r].retry_reason \in {rows[r].retry_reason, "unspecified"}
         /\ \A t \in Tasks : ~tasks'[t].bypass
  <1>1. rows \in [Records -> Row] /\ maxRetry' \in MaxRetryCounts
    BY DEF IInv, TypeOK, Restart
  <1>2. PICK elapsed \in [Records -> 0..MaxDelay] :
          rows' = [r \in Records |-> Backfill(rows[r], maxRetry', elapsed[r])]
    BY DEF Restart
  <1>3. \A r \in Records : elapsed[r] \in Nat
    OBVIOUS
  <1>4. lock' = NoTask /\ \A t \in Tasks : ~tasks'[t].bypass
    BY DEF Restart, IdleTask
  <1>5. QED
    BY <1>1, <1>2, <1>3, <1>4, KindKept

LEMMA HolderKept ==
  ASSUME IInv, HolderInv, [Next]_vars PROVE HolderInv'
  <1>1. CASE Environment
    <2>1. lock' # NoTask => InCycle(lock)'
      BY <1>1, EnvironmentFrame DEF HolderInv, InCycle, IInv, TypeOK, Stages
    <2>2. ASSUME NEW r \in Records, rows'[r].retry_reason # "unspecified"
          PROVE  Unfinished(rows'[r])
      BY <1>1, <2>2, EnvironmentFrame DEF HolderInv, Unfinished
    <2>3. ASSUME NEW t \in Tasks, tasks'[t].bypass, tasks'[t].pc = "routed"
          PROVE  Unfinished(rows'[tasks'[t].rec])
      <3>1. tasks'[t] = tasks[t]
        BY <1>1, <2>3, EnvironmentFrame
      <3>2. tasks[t].rec \in Records /\ Unfinished(rows[tasks[t].rec])
        BY <2>3, <3>1 DEF HolderInv, Row0, IInv, TypeOK
      <3>3. QED
        BY <1>1, <3>1, <3>2, EnvironmentFrame DEF Unfinished
    <2>4. QED
      BY <2>1, <2>2, <2>3 DEF HolderInv, Row0
  <1>2. CASE Restart
    <2>1. ASSUME NEW r \in Records, rows'[r].retry_reason # "unspecified"
          PROVE  Unfinished(rows'[r])
      BY <1>2, <2>1, RestartFrame DEF HolderInv, Unfinished
    <2>2. QED
      BY <1>2, <2>1, RestartFrame DEF HolderInv
  <1>3. ASSUME NEW t \in Tasks, Cycle(t) PROVE HolderInv'
    <2> DEFINE new == rows'[tasks[t].rec]
    <2>1. Outcome(t, Row0(t), new) /\ Sound(t, new)
      BY <1>3, CycleOutcome
    <2>2. /\ tasks[t].rec \in Records
          /\ \A r \in Records \ {tasks[t].rec} : rows'[r] = rows[r]
          /\ \A u \in Tasks \ {t} : tasks'[u] = tasks[u]
      BY <1>3, CycleFrame
    <2>3. lock' # NoTask => InCycle(lock)'
      BY <2>1, LifecycleAssumptions DEF Outcome
    <2>4. ASSUME NEW r \in Records, rows'[r].retry_reason # "unspecified"
          PROVE  Unfinished(rows'[r])
      BY <2>1, <2>2, <2>4 DEF HolderInv, Sound
    <2>5. ASSUME NEW u \in Tasks, tasks'[u].bypass, tasks'[u].pc = "routed"
          PROVE  Unfinished(rows'[tasks'[u].rec])
      <3>1. lock \in {t, NoTask}
        BY <2>1 DEF Outcome
      <3>2. u = t
        <4>1. SUFFICES ASSUME u # t PROVE FALSE
          OBVIOUS
        <4>2. InCycle(u)
          BY <2>2, <2>5, <4>1 DEF InCycle, Stages
        <4>3. QED
          BY <3>1, <4>1, <4>2, OneCycleAtATime
      <3>3. Unfinished(new)
        BY <2>1, <2>5, <3>2 DEF Sound
      <3>4. tasks'[t].rec = tasks[t].rec
        BY <1>3, <2>5, <3>2, CycleFrame
      <3>5. QED
        BY <3>2, <3>3, <3>4
    <2>6. QED
      BY <2>3, <2>4, <2>5 DEF HolderInv, Row0
  <1>4. CASE UNCHANGED vars
    BY <1>4 DEF vars, HolderInv, InCycle, Row0
  <1>5. QED
    BY <1>1, <1>2, <1>3, <1>4 DEF Next, Environment

\* Every step is one of DurableRow's.
LEMMA DurableStep ==
  ASSUME IInv, HolderInv, [Next]_vars PROVE [Durable!Next]_(Durable!vars)
  <1> DEFINE Same == Kinds' = Kinds /\ Worker' = Worker
  <1>1. ASSUME Same PROVE UNCHANGED Durable!vars
    BY <1>1 DEF Durable!vars, Kinds, Worker, Kind
  <1>2. ASSUME Kinds' = Kinds, Worker' = NoRecord PROVE Durable!Next
    BY <1>2 DEF Durable!Next, Durable!Release, Kinds, Worker, Kind
  <1>3. CASE Environment
    <2>1. Kinds' = Kinds
      BY <1>3, EnvironmentFrame DEF Kinds, Kind, Unfinished
    <2>2. Worker' = Worker
      BY <1>3, EnvironmentFrame DEF Worker, HolderInv, InCycle, Stages, IInv, TypeOK
    <2>3. QED
      BY <1>1, <2>1, <2>2
  <1>4. CASE Restart
    <2>1. Kinds' = Kinds /\ Worker' = NoRecord
      BY <1>4, RestartFrame DEF Kinds, Kind, Unfinished, Worker
    <2>2. QED
      BY <1>2, <2>1
  <1>5. ASSUME NEW t \in Tasks, Cycle(t) PROVE [Durable!Next]_(Durable!vars)
    <2> DEFINE r == tasks[t].rec
               k == Kind(rows'[r])
    <2>1. Outcome(t, rows[r], rows'[r])
      BY <1>5, CycleOutcome DEF Row0
    <2>2. r \in Records /\ \A q \in Records \ {r} : rows'[q] = rows[q]
      BY <1>5, CycleFrame
    <2>3. Kinds' = [Kinds EXCEPT ![r] = k] /\ Kinds[r] = Kind(rows[r])
      BY <2>2 DEF Kinds
    <2>4. t # NoTask
      BY LifecycleAssumptions
    <2>5. k = Kind(rows[r]) => Kinds' = Kinds
      BY <2>2 DEF Kinds
    <2> HIDE DEF r, k
    <2>6. CASE Worker = NoRecord /\ Worker' = r /\ k \in {Kind(rows[r]), "unfinished"}
      <3>1. Kinds' \in {Kinds, [Kinds EXCEPT ![r] = "unfinished"]}
        BY <2>3, <2>5, <2>6
      <3>2. QED
        BY <2>2, <2>6, <3>1 DEF Durable!Next, Durable!Take, Kinds, Worker, Kind
    <2>7. CASE Worker = r /\ Worker' \in {r, NoRecord} /\ k \in {Kind(rows[r]), "unfinished"}
      <3>1. CASE k = "unfinished"
        <4>1. Kinds' = [Kinds EXCEPT ![r] = "unfinished"]
          BY <2>3, <3>1
        <4>2. QED
          BY <2>2, <2>7, <4>1 DEF Durable!Next, Durable!Reopen, Kinds, Worker, Kind
      <3>2. CASE k = Kind(rows[r])
        BY <1>1, <1>2, <2>5, <2>7, <3>2
      <3>3. QED
        BY <2>7, <3>1, <3>2
    <2>8. CASE Worker = r /\ Worker' = NoRecord /\ Kind(rows[r]) = "unfinished" /\ k = "ok"
      <3>1. Kinds[r] = "unfinished" /\ Kinds' = [Kinds EXCEPT ![r] = "ok"]
        BY <2>3, <2>8
      <3>2. QED
        BY <2>2, <2>8, <3>1 DEF Durable!Next, Durable!Confirm, Kinds, Worker, Kind
    <2>9. CASE rows'[r] = rows[r] /\ Worker' = NoRecord
      BY <1>2, <2>5, <2>9 DEF k
    <2>10. QED
      BY <2>1, <2>4, <2>6, <2>7, <2>8, <2>9 DEF Outcome, Worker, r, k
  <1>6. CASE UNCHANGED vars
    <2>1. Same
      BY <1>6 DEF vars, Kinds, Worker
    <2>2. QED
      BY <1>1, <2>1
  <1>7. QED
    BY <1>3, <1>4, <1>5, <1>6 DEF Next, Environment

\* Only the thread with the lock reopens and confirms its record, and it confirms
\* an unfinished one: scheduler, operator and restarts change no confirmation.
THEOREM RowsAreDurable == Spec => KeepsRows
  <1>1. Init => HolderInv /\ Durable!Init
    BY DEF Init, HolderInv, Durable!Init, AbsentRow, IdleTask, Unfinished
  <1>2. IInv /\ HolderInv /\ [Next]_vars => HolderInv'
    BY HolderKept
  <1>3. IInv /\ HolderInv /\ [Next]_vars => [Durable!Next]_(Durable!vars)
    BY DurableStep
  <1>4. QED
    BY <1>1, <1>2, <1>3, InductiveInvariant, PTL DEF Spec, KeepsRows, Durable!Spec
=============================================================================
