------------------------------- MODULE Batches -------------------------------
(***************************************************************************)
(* The threads of the API process: a few HTTP threads, the task threads of *)
(* TaskManager (tasks.py) with the in-memory dictionary TASKS, and the     *)
(* robot (scripts/robot.py), which archives a batch of records through the *)
(* API's own endpoints (app.py), as a task of the same process or from the *)
(* command line.  Cycles of process_integration_logic run one at a time    *)
(* under .workflow.lock, which DELETE /cover takes within its HTTP thread. *)
(* What a cycle does is only its outcome here.                             *)
(***************************************************************************)
EXTENDS Integers, FiniteSets, FiniteSetsExt

CONSTANTS
  Batches,      \* runs of the robot
  Exports,      \* requests for an export
  Removals,     \* requests to remove a cover
  Null,
  Texts,        \* candidate lists: sets of <<from, to>>, or <<>> for a part that is no number
  Widths,       \* values of parallelism
  HttpThreads,  \* gunicorn --threads
  MaxPolls,     \* max_wait over POLL_INTERVAL
  MaxFaults     \* bound on lost answers, threads that do not start and deaths of the process

ASSUME BatchesAssumptions ==
  /\ Widths \subseteq Nat \ {0}
  /\ HttpThreads \in Nat \ {0}
  /\ MaxPolls \in Nat \ {0}
  /\ MaxFaults \in Nat

\* Only digits are taken for numbers.
ASSUME TextsOfNumbers == \A text \in Texts : text \subseteq {<<>>} \cup (Nat \X Nat)

-----------------------------------------------------------------------------
(* parse_candidates_text: a range may be given backwards, what is no number   *)
(* is ignored, and a record named twice is one candidate.                    *)

Span(part) == IF part = <<>> THEN {} ELSE (part[1]..part[2]) \cup (part[2]..part[1])

ParseCandidates(text) == UNION {Span(part) : part \in text}

Biblios == UNION {ParseCandidates(text) : text \in Texts}
Items   == Batches \X Biblios
TaskIds == Batches \cup Items \cup Exports

\* Task ids are uuids, and None is none of the values of TASKS.
ASSUME TasksAreDistinct ==
  /\ Batches \cap Exports = {} /\ (Batches \cup Exports) \cap Items = {}
  /\ Null \notin {"queued", "processing", "success", "deferred", "failed", "logged"}
  /\ Null \notin {"SUCCESS", "DEFERRED", "LINKED", "SKIPPED"}

VARIABLES
  batch,       \* per batch: its text, its parallelism and whether it is a process of its own
  item,        \* per batch and record: where process_single_biblio stands
  tasks,       \* TASKS: the status of a task, or Null for an id it does not hold
  thread,      \* per task: its thread
  result,      \* per cycle and batch: how its work ended, whoever knows
  lock,        \* who holds .workflow.lock
  removal,     \* DELETE /cover requests; one that waits or is inside occupies an HTTP thread
  exportLock,  \* _EXPORT_RUN_LOCK
  faults

vars == <<batch, item, tasks, thread, result, lock, removal, exportLock, faults>>
http == <<lock, removal, exportLock>>

NoBatch == [text |-> {}, width |-> 1, cli |-> FALSE]
NoItem  == [pc |-> "waiting", polls |-> 0, result |-> Null]

Init ==
  /\ batch = [b \in Batches |-> NoBatch]
  /\ item = [i \in Items |-> NoItem]
  /\ tasks = [t \in TaskIds |-> Null]
  /\ thread = [t \in TaskIds |-> "none"]
  /\ result = [t \in TaskIds |-> Null]
  /\ lock = Null
  /\ removal = [d \in Removals |-> "none"]
  /\ exportLock = FALSE
  /\ faults = 0

CommandLine == {b \in Batches : batch[b].cli}

Fault == faults < MaxFaults /\ faults' = faults + 1

HttpFree == Cardinality({d \in Removals : removal[d] \in {"waiting", "inside"}}) < HttpThreads

-----------------------------------------------------------------------------
(* TaskManager.                                                              *)

\* start_task enters the id in TASKS before it starts the thread, which may fail.
StartTask(t) ==
  /\ tasks' = [tasks EXCEPT ![t] = "queued"]
  /\ thread' = [thread EXCEPT ![t] = "started"]
  /\ UNCHANGED faults

StartTaskFails(t) ==
  /\ Fault
  /\ tasks' = [tasks EXCEPT ![t] = "queued"]
  /\ UNCHANGED thread

Begin(t) ==
  /\ thread[t] = "started"
  /\ tasks' = [tasks EXCEPT ![t] = "processing"]
  /\ thread' = [thread EXCEPT ![t] = IF t \in Items THEN "waiting" ELSE "working"]
  /\ UNCHANGED <<batch, item, result, http, faults>>

\* The function returned or raised; for the client nothing has changed yet.
Returns(t, outcome) ==
  /\ result' = [result EXCEPT ![t] = outcome]
  /\ thread' = [thread EXCEPT ![t] = "returned"]

Publish(t) ==
  /\ thread[t] = "returned"
  /\ tasks' = [tasks EXCEPT ![t] = IF t \in CommandLine THEN Null ELSE result[t]]
  /\ thread' = [thread EXCEPT ![t] = "ended"]
  /\ UNCHANGED <<batch, item, result, http, faults>>

-----------------------------------------------------------------------------
(* Cycles and the removal of covers: whoever holds .workflow.lock.           *)

TakeLock(t) ==
  /\ t \in Items /\ thread[t] = "waiting" /\ lock = Null
  /\ lock' = t
  /\ thread' = [thread EXCEPT ![t] = "working"]
  /\ UNCHANGED <<batch, item, tasks, result, removal, exportLock, faults>>

\* Mutant: a cycle that raises does not close the lock's file.
ReleaseUnlessFailed(outcome) == lock' = IF outcome = "failed" THEN lock ELSE Null

Release(outcome) == lock' = Null

EndCycle(t, outcome) ==
  /\ t \in Items /\ thread[t] = "working"
  /\ Returns(t, outcome)
  /\ Release(outcome)
  /\ UNCHANGED <<batch, item, tasks, removal, exportLock, faults>>

RemoveCover(d) ==
  /\ \/ removal[d] = "none" /\ HttpFree
        /\ removal' = [removal EXCEPT ![d] = "waiting"] /\ UNCHANGED lock
     \/ removal[d] = "waiting" /\ lock = Null
        /\ removal' = [removal EXCEPT ![d] = "inside"] /\ lock' = d
     \/ removal[d] = "inside"
        /\ removal' = [removal EXCEPT ![d] = "over"] /\ lock' = Null
  /\ UNCHANGED <<batch, item, tasks, thread, result, exportLock, faults>>

-----------------------------------------------------------------------------
(* POST /export/run answers 409 while the lock is taken; the task releases it. *)
(* Nobody here asks for an export's status, so one that is over, or never      *)
(* started, leaves none behind and the next request may reuse its name.       *)

\* Mutant: the handler forgets the lock when the task does not start.
KeepOnFailure == exportLock' = TRUE

UnlockOnFailure == exportLock' = FALSE

ExportRun(e) ==
  /\ thread[e] = "none" /\ HttpFree /\ ~exportLock
  /\ \/ StartTask(e) /\ exportLock' = TRUE
     \/ Fault /\ UnlockOnFailure /\ UNCHANGED <<tasks, thread>>
  /\ UNCHANGED <<batch, item, result, lock, removal>>

\* The task returns or raises, and in both cases releases the lock.  Release, return and
\* the status are one step here: in the code the lock is free a moment before the thread
\* has ended, and a next export may start in between.
EndExport(e) ==
  /\ thread[e] = "working"
  /\ tasks' = [tasks EXCEPT ![e] = Null]
  /\ thread' = [thread EXCEPT ![e] = "none"]
  /\ exportLock' = FALSE
  /\ UNCHANGED <<batch, item, result, lock, removal, faults>>

-----------------------------------------------------------------------------
(* The robot.                                                                *)

\* POST /robot/batch refuses a text without candidates; the command line just
\* returns.  A batch of the API is a task of its process.
RunBatch(b, text, width, cli) ==
  /\ thread[b] = "none"
  /\ ParseCandidates(text) # {}
  /\ batch' = [batch EXCEPT ![b] = [text |-> text, width |-> width, cli |-> cli]]
  /\ IF cli
     THEN thread' = [thread EXCEPT ![b] = "working"] /\ UNCHANGED <<tasks, faults>>
     ELSE HttpFree /\ (StartTask(b) \/ StartTaskFails(b))
  /\ UNCHANGED <<item, result, http>>

Candidates(b) == ParseCandidates(batch[b].text)

With(b, pc) == {n \in Candidates(b) : item[<<b, n>>].pc = pc}

\* One candidate after the other, or a pool of workers that takes them in order.
\* Only the sleeps count as waiting, so max_wait is a number of polls.
StartItem(b) ==
  /\ thread[b] = "working"
  /\ With(b, "waiting") # {}
  /\ Cardinality(With(b, "post") \cup With(b, "poll")) < batch[b].width
  /\ item' = [item EXCEPT ![<<b, Min(With(b, "waiting"))>>].pc = "post"]
  /\ UNCHANGED <<batch, tasks, thread, result, http, faults>>

Settled(res) == [pc |-> "done", polls |-> 0, result |-> res]

\* POST /integrate answers 202 at once, or 500 if the thread does not start.
\* It never answers 409: a record at work waits for the lock in a second task.
\* Without an answer the task may have started all the same.
Post(b, n) ==
  LET i == <<b, n>> IN
  /\ thread[b] = "working" /\ item[i].pc = "post" /\ HttpFree
  /\ \/ StartTask(i) /\ item' = [item EXCEPT ![i].pc = "poll"]
     \/ StartTaskFails(i) /\ item' = [item EXCEPT ![i] = Settled("ERROR_POST")]
     \/ /\ Fault /\ item' = [item EXCEPT ![i] = Settled("ERROR_CONN")]
        /\ \/ UNCHANGED <<tasks, thread>>
           \/ tasks' = [tasks EXCEPT ![i] = "queued"] /\ thread' = [thread EXCEPT ![i] = "started"]
  /\ UNCHANGED <<batch, result, http>>

\* What a status means to the robot; a task that is not known is asked for again.
\* A result "linked_existing" counts as LINKED, which is a success by another name.
Verdict(status) ==
  CASE status = "success"  -> "SUCCESS"
    [] status = "failed"   -> "FAILED"
    [] status = "deferred" -> "DEFERRED"
    [] OTHER               -> Null

LastPoll(polls) == polls + 1 = MaxPolls

Poll(b, n) ==
  LET i == <<b, n>> IN
  /\ thread[b] = "working" /\ item[i].pc = "poll" /\ HttpFree
  /\ \E status \in {tasks[i], Null} :
       /\ IF status = tasks[i] THEN UNCHANGED faults ELSE Fault
       /\ item' = [item EXCEPT ![i] =
            IF Verdict(status) # Null THEN Settled(Verdict(status))
            ELSE IF LastPoll(item[i].polls) THEN Settled("TIMEOUT")
            ELSE [item[i] EXCEPT !.polls = @ + 1]]
  /\ UNCHANGED <<batch, tasks, thread, result, http>>

Stats == {"SUCCESS", "DEFERRED", "FAILED", "SKIPPED", "LINKED", "TIMEOUT", "ERROR_CLIENT", "ERROR_CONN"}

\* Mutant: a result without a counter of its own is counted as skipped.
KeyOfUnknownSkipped(res) == IF res \in Stats THEN res ELSE "SKIPPED"

Key(res) == IF res \in Stats THEN res ELSE "FAILED"

FailureStatuses == {"FAILED", "TIMEOUT", "ERROR_CLIENT", "ERROR_CONN"}

\* run_batch_from_text raises if a counter of a failure is not zero; the command
\* line only logs the counters.
EndBatch(b) ==
  LET counted == {Key(item[<<b, n>>].result) : n \in Candidates(b)} IN
  /\ thread[b] = "working"
  /\ Candidates(b) = With(b, "done")
  /\ Returns(b, IF b \in CommandLine THEN "logged"
                ELSE IF counted \cap FailureStatuses # {} THEN "failed"
                ELSE IF "DEFERRED" \in counted THEN "deferred" ELSE "success")
  /\ item' = [i \in Items |-> IF i[1] = b THEN NoItem ELSE item[i]]
  /\ UNCHANGED <<batch, tasks, http, faults>>

-----------------------------------------------------------------------------
\* The API's worker process dies, and gunicorn starts another one: TASKS, threads,
\* requests and locks are gone, a robot on the command line is not.
WorkerDies ==
  LET dead == {t \in TaskIds \ CommandLine : thread[t] \notin {"none", "ended"}} IN
  /\ Fault
  /\ tasks' = [t \in TaskIds |-> Null]
  /\ thread' = [t \in TaskIds |-> IF t \notin dead THEN thread[t] ELSE IF t \in Exports THEN "none" ELSE "dead"]
  /\ item' = [i \in Items |-> IF i[1] \in dead THEN NoItem ELSE item[i]]
  /\ lock' = Null /\ exportLock' = FALSE
  /\ removal' = [d \in Removals |-> IF removal[d] \in {"waiting", "inside"} THEN "over" ELSE removal[d]]
  /\ UNCHANGED <<batch, result>>

-----------------------------------------------------------------------------
TaskStep(t) ==
  \/ Begin(t) \/ TakeLock(t) \/ Publish(t)
  \/ \E outcome \in {"success", "deferred", "failed"} : EndCycle(t, outcome)

RobotStep(b) == StartItem(b) \/ EndBatch(b) \/ \E n \in Biblios : Post(b, n) \/ Poll(b, n)

Next ==
  \/ \E t \in TaskIds : TaskStep(t)
  \/ \E d \in Removals : RemoveCover(d)
  \/ \E e \in Exports : ExportRun(e) \/ EndExport(e)
  \/ \E b \in Batches :
       \/ \E text \in Texts, width \in Widths, cli \in BOOLEAN : RunBatch(b, text, width, cli)
       \/ RobotStep(b)
  \/ WorkerDies

Spec == Init /\ [][Next]_vars

(* Every thread goes on when it can, a waiting DELETE among them; each makes a *)
(* bounded number of steps, so fairness to all of a kind is fairness to each.  *)
(* Exports take their time, and nothing waits for them.                       *)
FairSpec ==
  /\ Spec
  /\ WF_vars(\E t \in Batches \cup Items : TaskStep(t))
  /\ WF_vars(\E d \in Removals : removal[d] # "none" /\ RemoveCover(d))
  /\ \A b \in Batches : WF_vars(RobotStep(b))

-----------------------------------------------------------------------------
(* Properties.                                                               *)

BatchStates == [text : Texts \cup {{}}, width : Widths \cup {1}, cli : BOOLEAN]
ItemStates  == [pc : {"waiting", "post", "poll", "done"}, polls : 0..MaxPolls - 1,
                result : {Null, "ERROR_POST"} \cup (Stats \ {"SKIPPED", "LINKED", "ERROR_CLIENT"})]

\* Every variable holds values of the shape the code gives it.
TypeOK ==
  /\ batch \in [Batches -> BatchStates]
  /\ item \in [Items -> ItemStates]
  /\ tasks \in [TaskIds -> {Null, "queued", "processing", "success", "deferred", "failed"}]
  /\ thread \in [TaskIds -> {"none", "started", "waiting", "working", "returned", "ended", "dead"}]
  /\ result \in [TaskIds -> {Null, "success", "deferred", "failed", "logged"}]
  /\ lock \in Items \cup Removals \cup {Null}
  /\ removal \in [Removals -> {"none", "waiting", "inside", "over"}]
  /\ exportLock \in BOOLEAN
  /\ faults \in 0..MaxFaults

\* A batch reported as a success has archived every record its text names, and
\* one reported as deferred has archived or deferred them, whatever answers were
\* lost, threads not started and cycles outlived their robot's patience.
SuccessMeansAllDone ==
  \A b \in Batches : result[b] \in {"success", "deferred"} =>
    \A part \in batch[b].text \ {<<>>}, n \in Biblios :
      \/ n < Min({part[1], part[2]}) \/ n > Max({part[1], part[2]})
      \/ result[<<b, n>>] \in {"success"} \cup (IF result[b] = "deferred" THEN {"deferred"} ELSE {})

\* _EXPORT_RUN_LOCK, taken in an HTTP thread and released in a task thread, is
\* taken exactly while one export is started or at work: never two of them, and
\* never none, which would refuse exports until a restart.
ExportLockFollowsRun ==
  Cardinality({e \in Exports : thread[e] \in {"started", "working"}}) = IF exportLock THEN 1 ELSE 0

\* Cycles, DELETE requests and the robot's own requests wait for one lock and for
\* a few HTTP threads, yet every batch ends and every DELETE is answered, or dies
\* with its process.
Busy(x) == IF x \in Batches THEN thread[x] = "working" ELSE removal[x] \in {"waiting", "inside"}

EverythingEnds == \A x \in Batches \cup Removals : Busy(x) ~> ~Busy(x)
=============================================================================
