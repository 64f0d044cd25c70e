---------------------------- MODULE RetryLifecycle ----------------------------
(***************************************************************************)
(* Who moves the retry columns of the durable state, and when: the cycles  *)
(* of process_integration_logic (src/core.py) run by task threads one at a *)
(* time under .workflow.lock, the retry scheduler that claims due rows and *)
(* queues cycles for them, the operator's retry endpoint, and a process    *)
(* that dies and starts again.  What a cycle does downstream is only its   *)
(* outcome here; CoverCycle models the inside.                             *)
(***************************************************************************)
EXTENDS CoverState, FiniteSets

CONSTANTS Records,           \* record_uid values
          Tasks,             \* task threads that may exist at once
          NoRecord, NoTask,
          MaxRetryCounts,    \* MAX_RETRY_COUNT, read anew by each process
          ClaimLimit,        \* rows per scheduler scan
          MaxCrashes         \* bound: process deaths

ASSUME LifecycleAssumptions ==
  /\ NoRecord \notin Records
  /\ NoTask \notin Tasks
  /\ MaxRetryCounts \subseteq Nat \ {0}
  /\ MaxRetryCounts # {}
  /\ ClaimLimit \in Nat \ {0}
  /\ MaxCrashes \in Nat
  \* 2 ** n of Python's integers; the provers do not know it of TLA+'s.
  /\ \A max \in MaxRetryCounts : \A n \in 0..max : 2 ^ n \in Nat \ {0}

VARIABLES rows,        \* the table
          maxRetry,    \* MAX_RETRY_COUNT of the running process
          lock,        \* who holds .workflow.lock
          tasks,       \* the task threads
          claimed,     \* rows the scheduler claimed and has yet to dispatch
          resets,      \* records whose operator retry passed its cutoff check
          crashes

vars == <<rows, maxRetry, lock, tasks, claimed, resets, crashes>>

Stages == {"queued", "entered", "routed", "gate_file", "gate_cover", "gated",
           "failing", "downstream"}

TaskState == [pc : Stages \cup {"idle"}, rec : Records \cup {NoRecord}, bypass : BOOLEAN]

IdleTask      == [pc |-> "idle", rec |-> NoRecord, bypass |-> FALSE]
QueuedTask(r) == [pc |-> "queued", rec |-> r, bypass |-> FALSE]

InCycle(t) == tasks[t].pc \in Stages \ {"queued"}

TypeOK ==
  /\ rows \in [Records -> Row]
  /\ maxRetry \in MaxRetryCounts
  /\ lock \in Tasks \cup {NoTask}
  /\ tasks \in [Tasks -> TaskState]
  /\ \A t \in Tasks : tasks[t].pc # "idle" => tasks[t].rec \in Records
  /\ claimed \subseteq Records
  /\ resets \subseteq Records
  /\ crashes \in 0..MaxCrashes

Init ==
  /\ rows = [r \in Records |-> AbsentRow]
  /\ maxRetry \in MaxRetryCounts
  /\ lock = NoTask
  /\ tasks = [t \in Tasks |-> IdleTask]
  /\ claimed = {}
  /\ resets = {}
  /\ crashes = 0

-----------------------------------------------------------------------------
(* The steps of one cycle.  At(t, pc): thread t is at a stage, with the lock. *)
At(t, pc) == tasks[t].pc = pc /\ lock = t

Row0(t)      == rows[tasks[t].rec]
SetRow(t, x) == rows' = [rows EXCEPT ![tasks[t].rec] = x]
GoTo(t, pc)  == tasks' = [tasks EXCEPT ![t].pc = pc] /\ UNCHANGED lock
Leave(t)     == tasks' = [tasks EXCEPT ![t] = IdleTask] /\ lock' = NoTask
OutsideCycle == <<maxRetry, claimed, resets, crashes>>

\* flock, then the record: a first cycle inserts its row.
Enter(t) ==
  /\ tasks[t].pc = "queued"
  /\ lock = NoTask
  /\ lock' = t
  /\ tasks' = [tasks EXCEPT ![t].pc = "entered"]
  /\ IF Row0(t).status = "absent" THEN SetRow(t, MarkPending(Row0(t), maxRetry))
                                  ELSE UNCHANGED rows
  /\ UNCHANGED OutsideCycle

\* Koha does not answer, or the record has no usable source: no row is touched.
Refuse(t) ==
  /\ tasks[t].pc = "queued"
  /\ lock = NoTask
  /\ tasks' = [tasks EXCEPT ![t] = IdleTask]
  /\ UNCHANGED <<rows, lock, OutsideCycle>>

\* The row is read here; whether the shortcut for an invalid PDF applies is
\* decided on this copy.
Route(t) ==
  /\ At(t, "entered")
  /\ SetRow(t, SetBiblionumber(Row0(t)))
  /\ \E invalid_pdf \in BOOLEAN :
       tasks' = [tasks EXCEPT ![t].pc     = "routed",
                              ![t].bypass = /\ invalid_pdf
                                            /\ Row0(t).retry_reason = "SourceResolutionError"]
  /\ UNCHANGED <<lock, OutsideCycle>>

Admissible(t) ==
  \/ Row0(t).status = "ok"
  \/ IsRetryEligible(Row0(t), maxRetry)
  \/ tasks[t].bypass

Admit(t) ==
  /\ At(t, "routed")
  /\ Admissible(t)
  /\ GoTo(t, "gate_file")
  /\ UNCHANGED <<rows, OutsideCycle>>

Defer(t) ==
  /\ At(t, "routed")
  /\ ~Admissible(t)
  /\ Leave(t)
  /\ UNCHANGED <<rows, OutsideCycle>>

\* The PDF is invalid but the cover is already published: confirm it and stop.
ConfirmPublishedCover(t) ==
  /\ At(t, "routed")
  /\ tasks[t].bypass
  /\ SetRow(t, CompleteCycle(Row0(t)))
  /\ Leave(t)
  /\ UNCHANGED OutsideCycle

\* Koha fails while 957 is restored from the row, before the cycle counts as
\* started.  The row a first cycle has just inserted holds nothing to restore.
FreshRow == [AbsentRow EXCEPT !.status = "pending", !.routed = TRUE]

AbortUncounted(t) ==
  /\ At(t, "routed")
  /\ Row0(t) # FreshRow
  /\ Leave(t)
  /\ UNCHANGED <<rows, OutsideCycle>>

-----------------------------------------------------------------------------
(* The Drive gate, for the file and then for the cover.                      *)
NextGate(pc) == IF pc = "gate_file" THEN "gate_cover" ELSE "gated"

AtGate(t) == At(t, "gate_file") \/ At(t, "gate_cover")

\* No such source, an unchanged one, a staged or resumed one: no write that
\* the retry columns show.
PassGate(t) ==
  /\ AtGate(t)
  /\ GoTo(t, NextGate(tasks[t].pc))
  /\ UNCHANGED <<rows, OutsideCycle>>

\* A changed source opens the cycle before anything is downloaded.
ChangedAtGate(t) ==
  /\ AtGate(t)
  /\ SetRow(t, MarkPending(Row0(t), maxRetry))
  /\ IF PendingAccepted(Row0(t), maxRetry) THEN GoTo(t, NextGate(tasks[t].pc)) ELSE Leave(t)
  /\ UNCHANGED OutsideCycle

\* The metadata request fails, or Drive has no checksum for the file.  An
\* unchanged record asks once more when its DSpace Item turns out missing.
DriveFails(t) ==
  /\ AtGate(t) \/ (At(t, "gated") /\ Row0(t).status = "ok")
  /\ SetRow(t, MarkPending(Row0(t), maxRetry))
  /\ IF PendingAccepted(Row0(t), maxRetry) THEN GoTo(t, "failing") ELSE Leave(t)
  /\ UNCHANGED OutsideCycle

RecordDriveFailure(t) ==
  /\ At(t, "failing")
  /\ \E permanent \in BOOLEAN :
       SetRow(t, Failure(Row0(t), maxRetry, FALSE, permanent, "unspecified"))
  /\ Leave(t)
  /\ UNCHANGED OutsideCycle

\* Nothing changed, links repaired, or the repair failed: the row stays ok.
NothingToDo(t) ==
  /\ At(t, "gated")
  /\ Row0(t).status = "ok"
  /\ Leave(t)
  /\ UNCHANGED <<rows, OutsideCycle>>

StartDownstream(t) ==
  /\ At(t, "gated")
  /\ SetRow(t, MarkPending(Row0(t), maxRetry))
  /\ IF PendingAccepted(Row0(t), maxRetry) THEN GoTo(t, "downstream") ELSE Leave(t)
  /\ UNCHANGED OutsideCycle

Succeed(t) ==
  /\ At(t, "downstream")
  /\ SetRow(t, CompleteCycle(Row0(t)))
  /\ Leave(t)
  /\ UNCHANGED OutsideCycle

\* ValueError and most DSpace 4xx answers are permanent; SourceResolutionError
\* is a ValueError.
Fail(t) ==
  /\ At(t, "downstream")
  /\ \E permanent \in BOOLEAN, reason \in RetryReasons :
       /\ reason = "SourceResolutionError" => permanent
       /\ SetRow(t, Failure(Row0(t), maxRetry, TRUE, permanent, reason))
  /\ Leave(t)
  /\ UNCHANGED OutsideCycle

Cycle(t) ==
  \/ Enter(t) \/ Refuse(t) \/ Route(t) \/ Admit(t) \/ Defer(t)
  \/ ConfirmPublishedCover(t) \/ AbortUncounted(t)
  \/ PassGate(t) \/ ChangedAtGate(t) \/ DriveFails(t) \/ RecordDriveFailure(t)
  \/ NothingToDo(t) \/ StartDownstream(t) \/ Succeed(t) \/ Fail(t)

-----------------------------------------------------------------------------
(* Everyone else.                                                            *)
StartTask(r) ==
  \E t \in Tasks : /\ tasks[t].pc = "idle"
                   /\ tasks' = [tasks EXCEPT ![t] = QueuedTask(r)]

\* POST or PUT /integrate, or the Robot, for a record in any state.
Submit(r) ==
  /\ StartTask(r)
  /\ UNCHANGED <<rows, maxRetry, lock, claimed, resets, crashes>>

DueRows == {r \in Records : Claimable(rows[r], maxRetry)}

\* claim_due_retries: one transaction claims up to ClaimLimit rows.  The order
\* by next_retry_at is left open.
Scan ==
  /\ claimed = {}
  /\ DueRows # {}
  /\ \E batch \in SUBSET DueRows :
       /\ batch # {}
       /\ Cardinality(batch) <= ClaimLimit
       /\ batch # DueRows => Cardinality(batch) = ClaimLimit
       /\ claimed' = batch
       /\ rows' = [r \in Records |-> IF r \in batch THEN Claim(rows[r]) ELSE rows[r]]
  /\ UNCHANGED <<maxRetry, lock, tasks, resets, crashes>>

Dispatch(r) ==
  /\ r \in claimed
  /\ StartTask(r)
  /\ claimed' = claimed \ {r}
  /\ UNCHANGED <<rows, maxRetry, lock, resets, crashes>>

\* Koha does not answer or names another record: the claim stands until its
\* lease is over.
DropClaim(r) ==
  /\ r \in claimed
  /\ claimed' = claimed \ {r}
  /\ UNCHANGED <<rows, maxRetry, lock, tasks, resets, crashes>>

\* POST /integrate/<n>/retry reads the row ...
CheckCutoff(r) ==
  /\ AtCutoff(rows[r], maxRetry)
  /\ r \notin resets
  /\ resets' = resets \cup {r}
  /\ UNCHANGED <<rows, maxRetry, lock, tasks, claimed, crashes>>

\* ... and resets it in another transaction, without .workflow.lock.  The
\* thread may fail to start.
ResetAndRetry(r) ==
  /\ r \in resets
  /\ resets' = resets \ {r}
  /\ rows' = [rows EXCEPT ![r] = ResetRetryCount(@)]
  /\ StartTask(r) \/ UNCHANGED tasks
  /\ UNCHANGED <<maxRetry, lock, claimed, crashes>>

\* The process dies with its threads and requests, the lock is freed by the
\* kernel, and the next process backfills the schedule with its own limit.
MaxDelay == LET top == CHOOSE m \in MaxRetryCounts : \A n \in MaxRetryCounts : n <= m
            IN Delay(top)

Restart ==
  /\ crashes < MaxCrashes
  /\ crashes' = crashes + 1
  /\ tasks' = [t \in Tasks |-> IdleTask]
  /\ lock' = NoTask
  /\ claimed' = {}
  /\ resets' = {}
  /\ maxRetry' \in MaxRetryCounts
  /\ \E elapsed \in [Records -> 0..MaxDelay] :
       rows' = [r \in Records |-> Backfill(rows[r], maxRetry', elapsed[r])]

Tick ==
  /\ rows' = [r \in Records |-> Elapse(rows[r])]
  /\ UNCHANGED <<maxRetry, lock, tasks, claimed, resets, crashes>>

Next ==
  \/ \E t \in Tasks : Cycle(t)
  \/ \E r \in Records : \/ Submit(r) \/ Dispatch(r) \/ DropClaim(r)
                        \/ CheckCutoff(r) \/ ResetAndRetry(r)
  \/ Scan
  \/ Restart
  \/ Tick

Spec == Init /\ [][Next]_vars

(* A thread keeps running and time passes; the scheduler scans every five    *)
(* seconds.  Koha does not refuse every dispatch and every cycle of a record *)
(* for ever, and threads are only scarce in the model.  Nothing is assumed   *)
(* of the users, the operator or the outcome of a cycle.                    *)
EnterFor(r) == \E t \in Tasks : tasks[t].rec = r /\ Enter(t)

Fairness ==
  /\ \A t \in Tasks : WF_vars(Cycle(t))
  /\ \A r \in Records :
       SF_vars(Dispatch(r)) /\ WF_vars(DropClaim(r)) /\ SF_vars(EnterFor(r))
  /\ WF_vars(Scan)
  /\ WF_vars(Tick)

FairSpec == Spec /\ Fairness

-----------------------------------------------------------------------------
(* Properties.                                                               *)

\* A cycle that can still write a failure runs on a pending row with attempts
\* left, whatever the scheduler and the operator did to the row meanwhile.
RunningBelowLimit ==
  \A t \in Tasks : tasks[t].pc \in {"failing", "downstream"} =>
    /\ rows[tasks[t].rec].status = "pending"
    /\ rows[tasks[t].rec].retry_count < maxRetry

\* MAX_RETRY_COUNT is a budget: no history of cycles, claims, resets and
\* restarts counts more failures than the largest limit that was in force.
BudgetKept ==
  \A r \in Records : \E max \in MaxRetryCounts : rows[r].retry_count <= max

\* A record that failed is worked on again only once its backoff is over, even
\* though eligibility is read long before the cycle starts downstream work.
BackoffRespected ==
  \A t \in Tasks :
    /\ InCycle(t)
    /\ tasks[t].pc \notin {"entered", "routed"}
    /\ ~tasks[t].bypass
    /\ rows[tasks[t].rec].retry_count > 0
    => rows[tasks[t].rec].due_in = 0

\* A record that failed and has attempts left never drops out of the
\* scheduler's sight: not when a cycle reopens it, not when the process dies,
\* not when the next process has another limit.
FailedRowsStayScheduled ==
  \A r \in Records :
    Unfinished(rows[r]) /\ rows[r].retry_count \in 1..(maxRetry - 1) =>
      rows[r].routed /\ rows[r].due_in # None /\ rows[r].defer_reason # "none"

\* While a cycle does downstream work the scheduler does not queue the record
\* again, unless the cycle outlives the lease or the operator reset the row.
SchedulerStaysAway ==
  \A t \in Tasks :
    tasks[t].pc \in {"failing", "downstream"} /\ Claimable(rows[tasks[t].rec], maxRetry) =>
      \/ rows[tasks[t].rec].claim_age = ClaimLease + 1
      \/ rows[tasks[t].rec] = ResetRetryCount(rows[tasks[t].rec])

\* Constructors run _backfill_retry_schedule before every cycle and every
\* request; between restarts it has nothing to do, so only Restart models it.
NothingToBackfill ==
  \A r \in Records : \A elapsed \in 0..MaxDelay :
    Backfill(rows[r], maxRetry, elapsed) = rows[r]

\* A record at its limit is reopened by the operator only, or confirmed by the
\* shortcut for an invalid PDF; a cycle already under way never reopens it.
CutoffLeftByOperatorOnly ==
  [][\A r \in Records :
       /\ AtCutoff(rows[r], maxRetry)
       /\ maxRetry' = maxRetry
       /\ ~AtCutoff(rows'[r], maxRetry)
       => \/ r \in resets /\ r \notin resets'
          \/ \E t \in Tasks : ConfirmPublishedCover(t) /\ tasks[t].rec = r]_vars

\* A record that failed below the limit is taken up again, or settles.
FailedRowsRetried ==
  \A r \in Records :
    Unfinished(rows[r]) /\ rows[r].retry_count \in 1..(maxRetry - 1) ~>
      \/ \E t \in Tasks : tasks[t].rec = r /\ InCycle(t)
      \/ ~Unfinished(rows[r])
      \/ AtCutoff(rows[r], maxRetry)

\* DurableRow, what every worker keeps of a row: neither the scheduler nor the
\* operator, who write the table without the lock, make or break a confirmation.
Durable == INSTANCE DurableRow
             WITH Assets <- {}, None <- NoRecord,
                  status <- [r \in Records |-> IF Unfinished(rows[r]) THEN "unfinished"
                                                                     ELSE rows[r].status],
                  asset  <- [r \in Records |-> NoRecord],
                  worker <- IF lock = NoTask THEN NoRecord ELSE tasks[lock].rec
KeepsRows == Durable!Spec
=============================================================================
