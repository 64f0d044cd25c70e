----------------------------- MODULE ExportRuns -----------------------------
(***************************************************************************)
(* The stateful export of Koha records (file-links): ExportOrchestrator.run  *)
(* selects biblios, copies a spreadsheet to the Drive mount, e-mails it, and *)
(* remembers each stage in SQLite so that the next invocation can finish a    *)
(* run that was cut short.  Invocations come from a daily schedule and from   *)
(* operators; nothing keeps two of them apart.                              *)
(*                                                                         *)
(* Every UPDATE of `exported_records` names a run and the status it expects, *)
(* so all rows of a run have one status: the model has one record per run.   *)
(* The stateless modes write no row and are left out.                       *)
(***************************************************************************)
EXTENDS Integers, FiniteSets

CONSTANTS Biblios,
          Runs,         \* run ids that get rows (a bound)
          Workers,      \* invocations that may be active at a time
          NoRun,
          MaxRetries,   \* MAX_RETRIES
          MaxFaults, MaxOverlaps    \* bounds

ASSUME ExportAssumptions ==
  /\ NoRun \notin Runs
  /\ MaxRetries \in Nat /\ MaxFaults \in Nat /\ MaxOverlaps \in Nat

VARIABLES rows,     \* the rows of each run: their status, biblios and retry_count
          mount,    \* runs whose spreadsheet is on the Drive mount
          emails,   \* how often each run's spreadsheet was e-mailed
          workers,  \* the local state of each invocation
          spent     \* how much of each bound is used

vars == <<rows, mount, emails, workers, spent>>

Staged   == {"xlsx_generated", "gdrive_uploaded", "email_sent"}
Statuses == {"none", "pending", "completed", "failed"} \cup Staged

NoRows == [status |-> "none", biblios |-> {}, retries |-> 0]

\* `todo`: runs to recover with the status read; `recovered`: recovered_any;
\* `completed`: biblios read as completed; `run`, `biblios`: the run at hand.
IdleWorker == [pc |-> "idle", todo |-> {}, recovered |-> FALSE, completed |-> {},
               run |-> NoRun, biblios |-> {}]

Init ==
  /\ rows = [r \in Runs |-> NoRows]
  /\ mount = {}
  /\ emails = [r \in Runs |-> 0]
  /\ workers = [w \in Workers |-> IdleWorker]
  /\ spent = [faults |-> 0, overlaps |-> 0]

-----------------------------------------------------------------------------
(* ExportRepository.                                                         *)

\* Mutant: the status expected is not part of the WHERE.
MoveFromAny(run, from, to) == rows' = [rows EXCEPT ![run].status = to]

Move(run, from, to) ==
  rows' = [rows EXCEPT ![run].status = IF @ = from THEN to ELSE @]

MarkFailed(run) ==
  rows' = IF rows[run].status \in {"none", "completed"} THEN rows
          ELSE [rows EXCEPT ![run].status = "failed", ![run].retries = @ + 1]

RunsIn(statuses) == {r \in Runs : rows[r].status \in statuses}

\* Mutant: a run whose e-mail was sent counts as done.
RecoverableUnsent == {<<r, rows[r].status>> : r \in RunsIn(Staged \ {"email_sent"})}

Recoverable == {<<r, rows[r].status>> : r \in RunsIn(Staged)}

BibliosIn(statuses) == UNION {rows[r].biblios : r \in RunsIn(statuses)}

RetryEligible ==
  UNION {rows[r].biblios : r \in {s \in RunsIn({"failed"}) : rows[s].retries < MaxRetries}}

\* idx_biblionumber_completed: the transaction fails as a whole.
UniqueCompleted(run) ==
  rows[run].status = "email_sent" => rows[run].biblios \cap BibliosIn({"completed"}) = {}

-----------------------------------------------------------------------------
(* An invocation.                                                            *)

At(w, pc) == workers[w].pc = pc
Active    == {w \in Workers : ~At(w, "idle")}

GoTo(w, pc) == workers' = [workers EXCEPT ![w].pc = pc]
Exit(w)     == workers' = [workers EXCEPT ![w] = IdleWorker]

\* The runs to recover are read once.
Start(w) ==
  /\ At(w, "idle")
  /\ Active # {} => spent.overlaps < MaxOverlaps
  /\ spent' = [spent EXCEPT !.overlaps = IF Active = {} THEN @ ELSE @ + 1]
  /\ workers' = [workers EXCEPT ![w] = [IdleWorker EXCEPT !.pc = "recover", !.todo = Recoverable]]
  /\ UNCHANGED <<rows, mount, emails>>

(* _recover_staged_runs.  What is done depends on the status read at the start. *)

ToRecover(w, run, status) == At(w, "recover") /\ <<run, status>> \in workers[w].todo

\* The e-mail is sent: mark_completed remains.
RecoverCompletion(w, run) ==
  /\ ToRecover(w, run, "email_sent")
  /\ workers' = [workers EXCEPT ![w].run = run, ![w].pc = "complete"]
  /\ UNCHANGED <<rows, mount, emails, spent>>

\* Mutant: what is on Drive counts as e-mailed.
RecoverWithoutEmail(w, run) ==
  /\ ToRecover(w, run, "gdrive_uploaded")
  /\ run \in mount
  /\ workers' = [workers EXCEPT ![w].run = run, ![w].pc = "mark_sent"]
  /\ UNCHANGED <<rows, mount, emails, spent>>

RecoverEmail(w, run) ==
  /\ ToRecover(w, run, "gdrive_uploaded")
  /\ run \in mount
  /\ workers' = [workers EXCEPT ![w].run = run, ![w].pc = "email"]
  /\ UNCHANGED <<rows, mount, emails, spent>>

\* The spreadsheet has gone from Drive; or the run had none there yet: only the
\* name of the temporary file is stored, without its directory.
RecoverMissing(w, run) ==
  /\ \/ ToRecover(w, run, "gdrive_uploaded") /\ run \notin mount
     \/ ToRecover(w, run, "xlsx_generated")
  /\ MarkFailed(run)
  /\ workers' = [workers EXCEPT ![w].todo = {t \in @ : t[1] # run}]
  /\ UNCHANGED <<mount, emails, spent>>

EndRecovery(w) ==
  /\ At(w, "recover") /\ workers[w].todo = {}
  /\ IF workers[w].recovered THEN Exit(w) ELSE GoTo(w, "filter")
  /\ UNCHANGED <<rows, mount, emails, spent>>

(* filter_exportable_biblios: one connection for each set it reads. *)

ReadCompleted(w) ==
  /\ At(w, "filter")
  /\ workers' = [workers EXCEPT ![w].completed = BibliosIn({"completed"}), ![w].pc = "select"]
  /\ UNCHANGED <<rows, mount, emails, spent>>

\* Mutant: completed biblios are not left out.
ExportableAgain(w) == Biblios \ BibliosIn(Staged)

Exportable(w) ==
  {b \in Biblios \ (workers[w].completed \cup BibliosIn(Staged)) :
     b \in BibliosIn({"failed"}) => b \in RetryEligible}

NewRuns == {r \in Runs : rows[r].status = "none" /\ \A w \in Workers : workers[w].run # r}

\* Koha and the file-link rule pick any of them; the spreadsheet is generated.
Select(w) ==
  /\ At(w, "select")
  /\ \E chosen \in SUBSET Exportable(w) \ {{}}, run \in NewRuns :
       workers' = [workers EXCEPT ![w].run = run, ![w].biblios = chosen, ![w].pc = "reserve"]
  /\ UNCHANGED <<rows, mount, emails, spent>>

NothingToExport(w) ==
  /\ At(w, "select")
  /\ Exit(w)
  /\ UNCHANGED <<rows, mount, emails, spent>>

InsertPending(w) ==
  /\ At(w, "reserve")
  /\ rows' = [rows EXCEPT ![workers[w].run] =
                [status |-> "pending", biblios |-> workers[w].biblios, retries |-> 0]]
  /\ GoTo(w, "mark_xlsx")
  /\ UNCHANGED <<mount, emails, spent>>

MarkXlsxGenerated(w) ==
  /\ At(w, "mark_xlsx")
  /\ Move(workers[w].run, "pending", "xlsx_generated")
  /\ GoTo(w, "copy")
  /\ UNCHANGED <<mount, emails, spent>>

CopyToMount(w) ==
  /\ At(w, "copy")
  /\ mount' = mount \cup {workers[w].run}
  /\ GoTo(w, "mark_uploaded")
  /\ UNCHANGED <<rows, emails, spent>>

MarkGdriveUploaded(w) ==
  /\ At(w, "mark_uploaded")
  /\ Move(workers[w].run, "xlsx_generated", "gdrive_uploaded")
  /\ GoTo(w, "email")
  /\ UNCHANGED <<mount, emails, spent>>

SendEmail(w) ==
  /\ At(w, "email")
  /\ emails' = [emails EXCEPT ![workers[w].run] = @ + 1]
  /\ GoTo(w, "mark_sent")
  /\ UNCHANGED <<rows, mount, spent>>

\* Mutant: the status expected is that of the stage before.
MarkEmailSentTooEarly(w) ==
  /\ At(w, "mark_sent")
  /\ Move(workers[w].run, "xlsx_generated", "email_sent")
  /\ GoTo(w, "complete")
  /\ UNCHANGED <<mount, emails, spent>>

MarkEmailSent(w) ==
  /\ At(w, "mark_sent")
  /\ Move(workers[w].run, "gdrive_uploaded", "email_sent")
  /\ GoTo(w, "complete")
  /\ UNCHANGED <<mount, emails, spent>>

\* In recovery the next run follows.
MarkCompleted(w) ==
  /\ At(w, "complete")
  /\ UniqueCompleted(workers[w].run)
  /\ Move(workers[w].run, "email_sent", "completed")
  /\ workers' = [workers EXCEPT ![w] =
       IF @.todo = {} THEN IdleWorker
       ELSE [IdleWorker EXCEPT !.pc = "recover", !.recovered = TRUE,
                               !.todo = {t \in workers[w].todo : t[1] # workers[w].run}]]
  /\ UNCHANGED <<mount, emails, spent>>

\* Another run of the same biblio is completed: IntegrityError, the status stays.
CompletionRefused(w) ==
  /\ At(w, "complete")
  /\ ~UniqueCompleted(workers[w].run)
  /\ Exit(w)
  /\ UNCHANGED <<rows, mount, emails, spent>>

-----------------------------------------------------------------------------
(* What goes wrong.                                                          *)

Fault == spent.faults < MaxFaults /\ spent' = [spent EXCEPT !.faults = @ + 1]

\* A call fails.  The own run is failed as long as nothing is on the mount for
\* sure; a run that is being recovered is left as it is.
FailsRun(w) == workers[w].todo = {} /\ workers[w].pc \in {"reserve", "mark_xlsx", "copy", "mark_uploaded"}

Fail(w) ==
  /\ w \in Active
  /\ Fault
  /\ IF FailsRun(w) THEN MarkFailed(workers[w].run) ELSE UNCHANGED rows
  /\ Exit(w)
  /\ UNCHANGED <<mount, emails>>

Kill(w) ==
  /\ w \in Active
  /\ Fault
  /\ Exit(w)
  /\ UNCHANGED <<rows, mount, emails>>

\* Users of Drive delete a spreadsheet.
RemoveSpreadsheet(run) ==
  /\ run \in mount
  /\ Fault
  /\ mount' = mount \ {run}
  /\ UNCHANGED <<rows, emails, workers>>

\* --reset-pending for a run that an operator found stuck.
ResetStuckPending(run) ==
  /\ rows[run].status = "pending"
  /\ \A w \in Workers : workers[w].run # run
  /\ MarkFailed(run)
  /\ UNCHANGED <<mount, emails, workers, spent>>

-----------------------------------------------------------------------------
Export(w) ==
  \/ InsertPending(w) \/ MarkXlsxGenerated(w) \/ CopyToMount(w) \/ MarkGdriveUploaded(w)
  \/ SendEmail(w) \/ MarkEmailSent(w) \/ MarkCompleted(w) \/ CompletionRefused(w)

Recover(w) ==
  \/ \E run \in Runs : RecoverCompletion(w, run) \/ RecoverEmail(w, run) \/ RecoverMissing(w, run)
  \/ EndRecovery(w)

Filter(w) == ReadCompleted(w) \/ Select(w) \/ NothingToExport(w)

Next ==
  \/ \E w \in Workers : Start(w) \/ Recover(w) \/ Filter(w) \/ Export(w) \/ Fail(w) \/ Kill(w)
  \/ \E run \in Runs : RemoveSpreadsheet(run) \/ ResetStuckPending(run)

Spec == Init /\ [][Next]_vars

(* An invocation goes on, and the schedule starts another one some time.       *)
FairSpec ==
  /\ Spec
  /\ \A w \in Workers : WF_vars(Recover(w)) /\ WF_vars(Filter(w)) /\ WF_vars(Export(w))
  /\ WF_vars(\E w \in Workers : Start(w))

-----------------------------------------------------------------------------
(* Properties.                                                               *)

Stages == {"idle", "recover", "filter", "select", "reserve", "mark_xlsx", "copy",
           "mark_uploaded", "email", "mark_sent", "complete"}

\* Every variable holds values of the shape the code gives it.
TypeOK ==
  /\ rows \in [Runs -> [status : Statuses, biblios : SUBSET Biblios, retries : Nat]]
  /\ mount \subseteq Runs
  /\ emails \in [Runs -> Nat]
  /\ workers \in [Workers -> [pc : Stages, todo : SUBSET (Runs \X Staged), recovered : BOOLEAN,
                              completed : SUBSET Biblios, run : Runs \cup {NoRun},
                              biblios : SUBSET Biblios]]
  /\ spent \in [faults : Nat, overlaps : Nat]

\* A stored stage is true: rows say that an e-mail went out, or that all is done,
\* only if it did, whichever invocation stored it.
StagesAreTrue ==
  \A r \in Runs : rows[r].status \in {"email_sent", "completed"} => emails[r] > 0

\* Statuses move forward: an invocation that was overtaken by another, which has
\* failed or completed its run, does not bring the run back.
Progress == [none |-> 0, pending |-> 1, xlsx_generated |-> 2, gdrive_uploaded |-> 3,
             email_sent |-> 4, completed |-> 5, failed |-> 5]

StatusMovesForward ==
  [][\A r \in Runs : rows'[r].status # rows[r].status
       => Progress[rows'[r].status] > Progress[rows[r].status]]_vars

\* A spreadsheet is e-mailed once, and once more for each fault or overlap at
\* most, however many invocations recover its run.
RunEmailedOncePerTrouble ==
  \A r \in Runs : emails[r] <= 1 + spent.faults + spent.overlaps

\* A biblio, which a retry puts into another run, is e-mailed once and once more
\* for each fault at most, as long as invocations do not overlap.
EmailsOf(b) == UNION {{r} \X (1..emails[r]) : r \in {s \in Runs : b \in rows[s].biblios}}

BiblioEmailedOncePerFault ==
  spent.overlaps = 0 => \A b \in Biblios : Cardinality(EmailsOf(b)) <= 1 + spent.faults

\* A run that was cut short at a stage is completed or failed, unless invocations
\* overlap.
StagedRunsEnd ==
  \A r \in Runs : rows[r].status \in Staged
    ~> (rows[r].status \in {"completed", "failed"} \/ spent.overlaps > 0)
=============================================================================
