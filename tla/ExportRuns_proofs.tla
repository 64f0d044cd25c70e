-------------------------- MODULE ExportRuns_proofs --------------------------
(***************************************************************************)
(* What ExportRuns promises for every set of biblios, run ids and invocations,*)
(* however many of them overlap, fail or are killed.                         *)
(***************************************************************************)
EXTENDS ExportRuns, FiniteSetTheorems, TLAPS

\* Stages at which an invocation has a run in hand.
HasRun == {"reserve", "mark_xlsx", "copy", "mark_uploaded", "email", "mark_sent", "complete"}

\* What an invocation knows of the rows it is about to write, although others
\* write them meanwhile.
WorkerInv ==
  \A w \in Workers :
    /\ workers[w].pc \in HasRun => workers[w].run \in Runs
    /\ workers[w].pc \in HasRun \ {"reserve"} => rows[workers[w].run].status # "none"
    /\ workers[w].pc = "mark_sent" => emails[workers[w].run] > 0
    /\ \A t \in workers[w].todo : rows[t[1]].status # "none"

\* The run ids of invocations that have not inserted their rows are theirs alone.
FreshInv ==
  \A w \in Workers : workers[w].pc = "reserve" =>
    /\ rows[workers[w].run].status = "none"
    /\ \A v \in Workers : v # w => workers[v].run # workers[w].run

ExportInv == TypeOK /\ WorkerInv /\ FreshInv /\ StagesAreTrue

\* The shapes of the rows of a run and of an invocation's local state.
RowRecord    == [status : Statuses, biblios : SUBSET Biblios, retries : Nat]
WorkerRecord == [pc : Stages, todo : SUBSET (Runs \X Staged), recovered : BOOLEAN,
                 completed : SUBSET Biblios, run : Runs \cup {NoRun}, biblios : SUBSET Biblios]

-----------------------------------------------------------------------------
(* Every step keeps each part of the invariant: one lemma per part, one step   *)
(* per action.                                                               *)

\* What the repository writes keeps the shape of the rows.
LEMMA MoveTyped ==
  ASSUME TypeOK, NEW run \in Runs, NEW from, NEW to \in Statuses, Move(run, from, to)
  PROVE  rows' \in [Runs -> RowRecord]
  <1>1. rows \in [Runs -> RowRecord] /\ rows[run] \in RowRecord
    BY DEF TypeOK, RowRecord
  <1>2. [rows[run] EXCEPT !.status = IF @ = from THEN to ELSE @] \in RowRecord
    BY <1>1 DEF RowRecord
  <1>3. rows' = [rows EXCEPT ![run] = [rows[run] EXCEPT !.status = IF @ = from THEN to ELSE @]]
    BY <1>1 DEF Move
  <1>4. QED
    BY <1>1, <1>2, <1>3

\* So does mark_failed.
LEMMA MarkFailedTyped ==
  ASSUME TypeOK, NEW run \in Runs, MarkFailed(run)
  PROVE  rows' \in [Runs -> RowRecord]
  <1>1. rows \in [Runs -> RowRecord] /\ rows[run] \in RowRecord
    BY DEF TypeOK, RowRecord
  <1>2. "failed" \in Statuses
    BY DEF Statuses
  <1>3. rows[run].retries + 1 \in Nat
    BY <1>1 DEF RowRecord
  <1>4. ASSUME NEW row \in RowRecord, NEW n \in Nat
        PROVE  [row EXCEPT !.status = "failed", !.retries = n] \in RowRecord
    BY <1>2 DEF RowRecord
  <1>5. [rows[run] EXCEPT !.status = "failed", !.retries = rows[run].retries + 1] \in RowRecord
    BY <1>1, <1>3, <1>4
  <1>6. QED
    BY <1>1, <1>5 DEF MarkFailed

\* What an invocation writes keeps the shape of its local state.
LEMMA WorkerTyped ==
  ASSUME TypeOK, NEW w \in Workers, NEW new \in WorkerRecord,
         workers' = [workers EXCEPT ![w] = new]
  PROVE  workers' \in [Workers -> WorkerRecord]
  BY DEF TypeOK, WorkerRecord

\* So does a step to the next stage.
LEMMA GoToTyped ==
  ASSUME TypeOK, NEW w \in Workers, NEW pc \in Stages, GoTo(w, pc)
  PROVE  workers' \in [Workers -> WorkerRecord]
  <1>1. [workers[w] EXCEPT !.pc = pc] \in WorkerRecord
    BY DEF TypeOK, WorkerRecord
  <1>2. workers' = [workers EXCEPT ![w] = [workers[w] EXCEPT !.pc = pc]]
    BY DEF GoTo
  <1>3. QED
    BY <1>1, <1>2, WorkerTyped

\* So does the end of an invocation.
LEMMA ExitTyped ==
  ASSUME TypeOK, NEW w \in Workers, Exit(w)
  PROVE  workers' \in [Workers -> WorkerRecord]
  <1>1. IdleWorker \in WorkerRecord
    BY DEF IdleWorker, WorkerRecord, Stages
  <1>2. QED
    BY <1>1, WorkerTyped DEF Exit

\* A fault is counted with a number.
LEMMA SpentTyped ==
  ASSUME TypeOK, Fault PROVE spent' \in [faults : Nat, overlaps : Nat]
  BY DEF TypeOK, Fault

\* Types.
LEMMA TypeKept ==
  ASSUME ExportInv, [Next]_vars PROVE TypeOK'
  <1> USE DEF ExportInv
  <1>a. /\ rows \in [Runs -> RowRecord]
        /\ mount \subseteq Runs
        /\ emails \in [Runs -> Nat]
        /\ workers \in [Workers -> WorkerRecord]
        /\ spent \in [faults : Nat, overlaps : Nat]
    BY DEF TypeOK, RowRecord, WorkerRecord
  <1>b. \A w \in Workers : workers[w].pc \in HasRun => workers[w].run \in Runs
    BY DEF WorkerInv
  <1>1. ASSUME NEW w \in Workers, Start(w) PROVE TypeOK'
    <2>1. [IdleWorker EXCEPT !.pc = "recover", !.todo = Recoverable] \in WorkerRecord
      <3>1. Recoverable \subseteq Runs \X Staged
        BY DEF Recoverable, RunsIn
      <3>2. QED
        BY <3>1 DEF IdleWorker, WorkerRecord, Stages
    <2>2. spent' \in [faults : Nat, overlaps : Nat]
      BY <1>1, <1>a DEF Start
    <2>3. workers' \in [Workers -> WorkerRecord]
      BY <1>1, <2>1, WorkerTyped DEF Start
    <2>4. QED
      BY <1>1, <2>2, <2>3, <1>a DEF Start, TypeOK, RowRecord, WorkerRecord
  <1>2. ASSUME NEW w \in Workers, NEW run \in Runs, RecoverCompletion(w, run) PROVE TypeOK'
    BY <1>2 DEF RecoverCompletion, ToRecover, At, TypeOK, Stages
  <1>3. ASSUME NEW w \in Workers, NEW run \in Runs, RecoverEmail(w, run) PROVE TypeOK'
    BY <1>3 DEF RecoverEmail, ToRecover, At, TypeOK, Stages
  <1>4. ASSUME NEW w \in Workers, NEW run \in Runs, RecoverMissing(w, run) PROVE TypeOK'
    <2>1. rows' \in [Runs -> RowRecord]
      BY <1>4, MarkFailedTyped DEF RecoverMissing
    <2>2. workers' \in [Workers -> WorkerRecord]
      BY <1>4, <1>a DEF RecoverMissing, WorkerRecord
    <2>3. QED
      BY <1>4, <2>1, <2>2, <1>a DEF RecoverMissing, TypeOK, RowRecord, WorkerRecord
  <1>5. ASSUME NEW w \in Workers, EndRecovery(w) PROVE TypeOK'
    <2>1. Exit(w) \/ GoTo(w, "filter")
      BY <1>5 DEF EndRecovery
    <2>2. workers' \in [Workers -> WorkerRecord]
      BY <2>1, ExitTyped, GoToTyped DEF Stages
    <2>3. QED
      BY <1>5, <2>2, <1>a DEF EndRecovery, TypeOK, RowRecord, WorkerRecord
  <1>6. ASSUME NEW w \in Workers, ReadCompleted(w) PROVE TypeOK'
    <2>1. BibliosIn({"completed"}) \subseteq Biblios
      BY <1>a DEF BibliosIn, RunsIn, RowRecord
    <2>2. workers' \in [Workers -> WorkerRecord]
      <3>1. [workers[w] EXCEPT !.completed = BibliosIn({"completed"}), !.pc = "select"] \in WorkerRecord
        BY <2>1, <1>a, ZenonT(40) DEF WorkerRecord, Stages
      <3>2. workers' = [workers EXCEPT ![w] =
                          [workers[w] EXCEPT !.completed = BibliosIn({"completed"}), !.pc = "select"]]
        BY <1>6, <1>a DEF ReadCompleted
      <3>3. QED
        BY <3>1, <3>2, WorkerTyped
    <2>3. QED
      BY <1>6, <2>2, <1>a DEF ReadCompleted, TypeOK, RowRecord, WorkerRecord
  <1>7. ASSUME NEW w \in Workers, Select(w) PROVE TypeOK'
    <2>1. PICK chosen \in SUBSET Exportable(w) \ {{}}, run \in NewRuns :
            workers' = [workers EXCEPT ![w].run = run, ![w].biblios = chosen, ![w].pc = "reserve"]
      BY <1>7 DEF Select
    <2>2. chosen \subseteq Biblios /\ run \in Runs
      BY <2>1 DEF Exportable, NewRuns
    <2>3. [workers[w] EXCEPT !.run = run, !.biblios = chosen, !.pc = "reserve"] \in WorkerRecord
      BY <2>2, <1>a, ZenonT(40) DEF WorkerRecord, Stages
    <2>4. workers' \in [Workers -> WorkerRecord]
      BY <2>1, <2>3, <1>a
    <2>5. QED
      BY <1>7, <2>4, <1>a DEF Select, TypeOK, RowRecord, WorkerRecord
  <1>8. ASSUME NEW w \in Workers, NothingToExport(w) PROVE TypeOK'
    BY <1>8, ExitTyped, <1>a DEF NothingToExport, TypeOK, RowRecord, WorkerRecord
  <1>9. ASSUME NEW w \in Workers, InsertPending(w) PROVE TypeOK'
    <2>1. workers' \in [Workers -> WorkerRecord]
      BY <1>9, GoToTyped DEF InsertPending, Stages
    <2>2. rows' \in [Runs -> RowRecord]
      <3>1. [status |-> "pending", biblios |-> workers[w].biblios, retries |-> 0] \in RowRecord
        BY <1>a DEF RowRecord, WorkerRecord, Statuses
      <3>2. QED
        BY <1>9, <3>1, <1>a DEF InsertPending
    <2>3. QED
      BY <1>9, <2>1, <2>2, <1>a DEF InsertPending, TypeOK, RowRecord, WorkerRecord
  <1>10. ASSUME NEW w \in Workers, MarkXlsxGenerated(w) PROVE TypeOK'
    <2>1. workers' \in [Workers -> WorkerRecord]
      BY <1>10, GoToTyped DEF MarkXlsxGenerated, Stages
    <2>2. rows' \in [Runs -> RowRecord]
      BY <1>10, <1>b, MoveTyped DEF MarkXlsxGenerated, At, HasRun, Statuses, Staged
    <2>3. QED
      BY <1>10, <2>1, <2>2, <1>a DEF MarkXlsxGenerated, TypeOK, RowRecord, WorkerRecord
  <1>11. ASSUME NEW w \in Workers, CopyToMount(w) PROVE TypeOK'
    <2>1. workers' \in [Workers -> WorkerRecord]
      BY <1>11, GoToTyped DEF CopyToMount, Stages
    <2>2. workers[w].run \in Runs
      BY <1>11, <1>b DEF CopyToMount, At, HasRun
    <2>3. QED
      BY <1>11, <2>1, <2>2, <1>a DEF CopyToMount, TypeOK, RowRecord, WorkerRecord
  <1>12. ASSUME NEW w \in Workers, MarkGdriveUploaded(w) PROVE TypeOK'
    <2>1. workers' \in [Workers -> WorkerRecord]
      BY <1>12, GoToTyped DEF MarkGdriveUploaded, Stages
    <2>2. rows' \in [Runs -> RowRecord]
      BY <1>12, <1>b, MoveTyped DEF MarkGdriveUploaded, At, HasRun, Statuses, Staged
    <2>3. QED
      BY <1>12, <2>1, <2>2, <1>a DEF MarkGdriveUploaded, TypeOK, RowRecord, WorkerRecord
  <1>13. ASSUME NEW w \in Workers, SendEmail(w) PROVE TypeOK'
    <2>1. workers' \in [Workers -> WorkerRecord]
      BY <1>13, GoToTyped DEF SendEmail, Stages
    <2>2. workers[w].run \in Runs
      BY <1>13, <1>b DEF SendEmail, At, HasRun
    <2>3. QED
      BY <1>13, <2>1, <2>2, <1>a DEF SendEmail, TypeOK, RowRecord, WorkerRecord
  <1>14. ASSUME NEW w \in Workers, MarkEmailSent(w) PROVE TypeOK'
    <2>1. workers' \in [Workers -> WorkerRecord]
      BY <1>14, GoToTyped DEF MarkEmailSent, Stages
    <2>2. rows' \in [Runs -> RowRecord]
      BY <1>14, <1>b, MoveTyped DEF MarkEmailSent, At, HasRun, Statuses, Staged
    <2>3. QED
      BY <1>14, <2>1, <2>2, <1>a DEF MarkEmailSent, TypeOK, RowRecord, WorkerRecord
  <1>15. ASSUME NEW w \in Workers, MarkCompleted(w) PROVE TypeOK'
    <2>1. rows' \in [Runs -> RowRecord]
      BY <1>15, <1>b, MoveTyped DEF MarkCompleted, At, HasRun, Statuses, Staged
    <2>2. workers' \in [Workers -> WorkerRecord]
      BY <1>15, <1>a DEF MarkCompleted, IdleWorker, WorkerRecord, Stages
    <2>3. QED
      BY <1>15, <2>1, <2>2, <1>a DEF MarkCompleted, TypeOK, RowRecord, WorkerRecord
  <1>16. ASSUME NEW w \in Workers, CompletionRefused(w) PROVE TypeOK'
    BY <1>16, ExitTyped, <1>a DEF CompletionRefused, TypeOK, RowRecord, WorkerRecord
  <1>17. ASSUME NEW w \in Workers, Fail(w) PROVE TypeOK'
    <2>1. rows' \in [Runs -> RowRecord]
      <3>1. CASE FailsRun(w)
        BY <1>17, <3>1, <1>b, MarkFailedTyped DEF Fail, FailsRun, HasRun
      <3>2. CASE ~FailsRun(w)
        BY <1>17, <3>2, <1>a DEF Fail
      <3>3. QED
        BY <3>1, <3>2
    <2>2. QED
      BY <1>17, <2>1, ExitTyped, SpentTyped, <1>a DEF Fail, TypeOK, RowRecord, WorkerRecord
  <1>18. ASSUME NEW w \in Workers, Kill(w) PROVE TypeOK'
    BY <1>18, ExitTyped, SpentTyped, <1>a DEF Kill, TypeOK, RowRecord, WorkerRecord
  <1>19. ASSUME NEW run \in Runs, RemoveSpreadsheet(run) PROVE TypeOK'
    BY <1>19, SpentTyped DEF RemoveSpreadsheet, TypeOK
  <1>20. ASSUME NEW run \in Runs, ResetStuckPending(run) PROVE TypeOK'
    BY <1>20, MarkFailedTyped, <1>a DEF ResetStuckPending, TypeOK, RowRecord, WorkerRecord
  <1>21. CASE UNCHANGED vars
    BY <1>21 DEF vars, TypeOK
  <1>22. QED
    BY <1>1, <1>2, <1>3, <1>4, <1>5, <1>6, <1>7, <1>8, <1>9, <1>10, <1>11, <1>12, <1>13, <1>14,
       <1>15, <1>16, <1>17, <1>18, <1>19, <1>20, <1>21
       DEF Next, Recover, Filter, Export

\* No row disappears, and e-mails are not taken back.
LEMMA WorkerKept ==
  ASSUME ExportInv, [Next]_vars PROVE WorkerInv'
  <1> USE ExportAssumptions DEF ExportInv, TypeOK, Staged, Statuses, Stages, WorkerInv, HasRun
  <1>1. ASSUME NEW w \in Workers, Start(w) PROVE WorkerInv'
    BY <1>1 DEF Start, Recoverable, RunsIn, IdleWorker
  <1>2. ASSUME NEW w \in Workers, NEW run \in Runs, RecoverCompletion(w, run) PROVE WorkerInv'
    BY <1>2 DEF RecoverCompletion, ToRecover, At
  <1>3. ASSUME NEW w \in Workers, NEW run \in Runs, RecoverEmail(w, run) PROVE WorkerInv'
    BY <1>3 DEF RecoverEmail, ToRecover, At
  <1>4. ASSUME NEW w \in Workers, NEW run \in Runs, RecoverMissing(w, run) PROVE WorkerInv'
    BY <1>4 DEF RecoverMissing, MarkFailed, ToRecover, At
  <1>5. ASSUME NEW w \in Workers, EndRecovery(w) PROVE WorkerInv'
    BY <1>5 DEF EndRecovery, Exit, GoTo, IdleWorker, At
  <1>6. ASSUME NEW w \in Workers, ReadCompleted(w) PROVE WorkerInv'
    BY <1>6 DEF ReadCompleted, BibliosIn, RunsIn, At
  <1>7. ASSUME NEW w \in Workers, Select(w) PROVE WorkerInv'
    BY <1>7 DEF Select, Exportable, NewRuns, At
  <1>8. ASSUME NEW w \in Workers, NothingToExport(w) PROVE WorkerInv'
    BY <1>8 DEF NothingToExport, Exit, IdleWorker
  <1>9. ASSUME NEW w \in Workers, InsertPending(w) PROVE WorkerInv'
    BY <1>9 DEF InsertPending, GoTo, At
  <1>10. ASSUME NEW w \in Workers, MarkXlsxGenerated(w) PROVE WorkerInv'
    BY <1>10 DEF MarkXlsxGenerated, Move, GoTo, At
  <1>11. ASSUME NEW w \in Workers, CopyToMount(w) PROVE WorkerInv'
    BY <1>11 DEF CopyToMount, GoTo, At
  <1>12. ASSUME NEW w \in Workers, MarkGdriveUploaded(w) PROVE WorkerInv'
    BY <1>12 DEF MarkGdriveUploaded, Move, GoTo, At
  <1>13. ASSUME NEW w \in Workers, SendEmail(w) PROVE WorkerInv'
    BY <1>13 DEF SendEmail, GoTo, At
  <1>14. ASSUME NEW w \in Workers, MarkEmailSent(w) PROVE WorkerInv'
    BY <1>14 DEF MarkEmailSent, Move, GoTo, At
  <1>15. ASSUME NEW w \in Workers, MarkCompleted(w) PROVE WorkerInv'
    BY <1>15 DEF MarkCompleted, Move, IdleWorker, At
  <1>16. ASSUME NEW w \in Workers, CompletionRefused(w) PROVE WorkerInv'
    BY <1>16 DEF CompletionRefused, Exit, IdleWorker, At
  <1>17. ASSUME NEW w \in Workers, Fail(w) PROVE WorkerInv'
    <2>1. CASE FailsRun(w)
      <3>1. workers[w].run \in Runs /\ MarkFailed(workers[w].run)
        BY <1>17, <2>1 DEF Fail, FailsRun
      <3>2. \A r \in Runs : /\ rows[r].status # "none" => rows'[r].status # "none"
                            /\ rows'[r].status \in {"email_sent", "completed"}
                                 => rows[r].status \in {"email_sent", "completed"}
        BY <3>1 DEF MarkFailed
      <3>3. QED
        BY <1>17, <3>2 DEF Fail, Exit, IdleWorker
    <2>2. CASE ~FailsRun(w)
      BY <1>17, <2>2 DEF Fail, Exit, IdleWorker
    <2>3. QED
      BY <2>1, <2>2
  <1>18. ASSUME NEW w \in Workers, Kill(w) PROVE WorkerInv'
    BY <1>18 DEF Kill, Fault, Exit, IdleWorker, Active, At
  <1>19. ASSUME NEW run \in Runs, RemoveSpreadsheet(run) PROVE WorkerInv'
    BY <1>19 DEF RemoveSpreadsheet, Fault
  <1>20. ASSUME NEW run \in Runs, ResetStuckPending(run) PROVE WorkerInv'
    BY <1>20 DEF ResetStuckPending, MarkFailed
  <1>21. CASE UNCHANGED vars
    BY <1>21 DEF vars
  <1>22. QED
    BY <1>1, <1>2, <1>3, <1>4, <1>5, <1>6, <1>7, <1>8, <1>9, <1>10, <1>11, <1>12, <1>13, <1>14,
       <1>15, <1>16, <1>17, <1>18, <1>19, <1>20, <1>21
       DEF Next, Recover, Filter, Export

\* A run to recover has rows, so it is nobody's new run.
LEMMA FreshKept ==
  ASSUME ExportInv, [Next]_vars PROVE FreshInv'
  <1> USE ExportAssumptions DEF ExportInv, TypeOK, Staged, Statuses, Stages, WorkerInv, FreshInv, HasRun
  <1>1. ASSUME NEW w \in Workers, Start(w) PROVE FreshInv'
    BY <1>1 DEF Start, Recoverable, RunsIn, IdleWorker
  <1>2. ASSUME NEW w \in Workers, NEW run \in Runs, RecoverCompletion(w, run) PROVE FreshInv'
    BY <1>2 DEF RecoverCompletion, ToRecover, At
  <1>3. ASSUME NEW w \in Workers, NEW run \in Runs, RecoverEmail(w, run) PROVE FreshInv'
    BY <1>3 DEF RecoverEmail, ToRecover, At
  <1>4. ASSUME NEW w \in Workers, NEW run \in Runs, RecoverMissing(w, run) PROVE FreshInv'
    BY <1>4 DEF RecoverMissing, MarkFailed, ToRecover, At
  <1>5. ASSUME NEW w \in Workers, EndRecovery(w) PROVE FreshInv'
    BY <1>5, SMTT(30) DEF EndRecovery, Exit, GoTo, IdleWorker, At
  <1>6. ASSUME NEW w \in Workers, ReadCompleted(w) PROVE FreshInv'
    BY <1>6 DEF ReadCompleted, BibliosIn, RunsIn, At
  <1>7. ASSUME NEW w \in Workers, Select(w) PROVE FreshInv'
    BY <1>7 DEF Select, Exportable, NewRuns, At
  <1>8. ASSUME NEW w \in Workers, NothingToExport(w) PROVE FreshInv'
    BY <1>8 DEF NothingToExport, Exit, IdleWorker
  <1>9. ASSUME NEW w \in Workers, InsertPending(w) PROVE FreshInv'
    BY <1>9 DEF InsertPending, GoTo, At
  <1>10. ASSUME NEW w \in Workers, MarkXlsxGenerated(w) PROVE FreshInv'
    BY <1>10 DEF MarkXlsxGenerated, Move, GoTo, At
  <1>11. ASSUME NEW w \in Workers, CopyToMount(w) PROVE FreshInv'
    BY <1>11 DEF CopyToMount, GoTo, At
  <1>12. ASSUME NEW w \in Workers, MarkGdriveUploaded(w) PROVE FreshInv'
    BY <1>12 DEF MarkGdriveUploaded, Move, GoTo, At
  <1>13. ASSUME NEW w \in Workers, SendEmail(w) PROVE FreshInv'
    BY <1>13 DEF SendEmail, GoTo, At
  <1>14. ASSUME NEW w \in Workers, MarkEmailSent(w) PROVE FreshInv'
    BY <1>14 DEF MarkEmailSent, Move, GoTo, At
  <1>15. ASSUME NEW w \in Workers, MarkCompleted(w) PROVE FreshInv'
    BY <1>15 DEF MarkCompleted, Move, IdleWorker, At
  <1>16. ASSUME NEW w \in Workers, CompletionRefused(w) PROVE FreshInv'
    BY <1>16 DEF CompletionRefused, Exit, IdleWorker, At
  <1>17. ASSUME NEW w \in Workers, Fail(w) PROVE FreshInv'
    BY <1>17 DEF Fail, Fault, FailsRun, MarkFailed, Exit, IdleWorker, Active, At
  <1>18. ASSUME NEW w \in Workers, Kill(w) PROVE FreshInv'
    BY <1>18 DEF Kill, Fault, Exit, IdleWorker, Active, At
  <1>19. ASSUME NEW run \in Runs, RemoveSpreadsheet(run) PROVE FreshInv'
    BY <1>19 DEF RemoveSpreadsheet, Fault
  <1>20. ASSUME NEW run \in Runs, ResetStuckPending(run) PROVE FreshInv'
    BY <1>20 DEF ResetStuckPending, MarkFailed
  <1>21. CASE UNCHANGED vars
    BY <1>21 DEF vars
  <1>22. QED
    BY <1>1, <1>2, <1>3, <1>4, <1>5, <1>6, <1>7, <1>8, <1>9, <1>10, <1>11, <1>12, <1>13, <1>14,
       <1>15, <1>16, <1>17, <1>18, <1>19, <1>20, <1>21
       DEF Next, Recover, Filter, Export

\* email_sent is stored by an invocation that has sent an e-mail of that run.
LEMMA TruthKept ==
  ASSUME ExportInv, [Next]_vars PROVE StagesAreTrue'
  <1> USE ExportAssumptions DEF ExportInv, TypeOK, Staged, Statuses, Stages, WorkerInv, FreshInv, HasRun, StagesAreTrue
  <1>1. ASSUME NEW w \in Workers, Start(w) PROVE StagesAreTrue'
    BY <1>1 DEF Start, Recoverable, RunsIn, IdleWorker
  <1>2. ASSUME NEW w \in Workers, NEW run \in Runs, RecoverCompletion(w, run) PROVE StagesAreTrue'
    BY <1>2 DEF RecoverCompletion, ToRecover, At
  <1>3. ASSUME NEW w \in Workers, NEW run \in Runs, RecoverEmail(w, run) PROVE StagesAreTrue'
    BY <1>3 DEF RecoverEmail, ToRecover, At
  <1>4. ASSUME NEW w \in Workers, NEW run \in Runs, RecoverMissing(w, run) PROVE StagesAreTrue'
    BY <1>4 DEF RecoverMissing, MarkFailed, ToRecover, At
  <1>5. ASSUME NEW w \in Workers, EndRecovery(w) PROVE StagesAreTrue'
    BY <1>5 DEF EndRecovery, Exit, GoTo, IdleWorker, At
  <1>6. ASSUME NEW w \in Workers, ReadCompleted(w) PROVE StagesAreTrue'
    BY <1>6 DEF ReadCompleted, BibliosIn, RunsIn, At
  <1>7. ASSUME NEW w \in Workers, Select(w) PROVE StagesAreTrue'
    BY <1>7 DEF Select, Exportable, NewRuns, At
  <1>8. ASSUME NEW w \in Workers, NothingToExport(w) PROVE StagesAreTrue'
    BY <1>8 DEF NothingToExport, Exit, IdleWorker
  <1>9. ASSUME NEW w \in Workers, InsertPending(w) PROVE StagesAreTrue'
    BY <1>9 DEF InsertPending, GoTo, At
  <1>10. ASSUME NEW w \in Workers, MarkXlsxGenerated(w) PROVE StagesAreTrue'
    BY <1>10 DEF MarkXlsxGenerated, Move, GoTo, At
  <1>11. ASSUME NEW w \in Workers, CopyToMount(w) PROVE StagesAreTrue'
    BY <1>11 DEF CopyToMount, GoTo, At
  <1>12. ASSUME NEW w \in Workers, MarkGdriveUploaded(w) PROVE StagesAreTrue'
    BY <1>12 DEF MarkGdriveUploaded, Move, GoTo, At
  <1>13. ASSUME NEW w \in Workers, SendEmail(w) PROVE StagesAreTrue'
    BY <1>13 DEF SendEmail, GoTo, At
  <1>14. ASSUME NEW w \in Workers, MarkEmailSent(w) PROVE StagesAreTrue'
    BY <1>14 DEF MarkEmailSent, Move, GoTo, At
  <1>15. ASSUME NEW w \in Workers, MarkCompleted(w) PROVE StagesAreTrue'
    BY <1>15 DEF MarkCompleted, Move, IdleWorker, At
  <1>16. ASSUME NEW w \in Workers, CompletionRefused(w) PROVE StagesAreTrue'
    BY <1>16 DEF CompletionRefused, Exit, IdleWorker, At
  <1>17. ASSUME NEW w \in Workers, Fail(w) PROVE StagesAreTrue'
    <2>1. CASE FailsRun(w)
      <3>1. workers[w].run \in Runs /\ MarkFailed(workers[w].run)
        BY <1>17, <2>1 DEF Fail, FailsRun
      <3>2. \A r \in Runs : /\ rows[r].status # "none" => rows'[r].status # "none"
                            /\ rows'[r].status \in {"email_sent", "completed"}
                                 => rows[r].status \in {"email_sent", "completed"}
        BY <3>1 DEF MarkFailed
      <3>3. QED
        BY <1>17, <3>2 DEF Fail, Exit, IdleWorker
    <2>2. CASE ~FailsRun(w)
      BY <1>17, <2>2 DEF Fail, Exit, IdleWorker
    <2>3. QED
      BY <2>1, <2>2
  <1>18. ASSUME NEW w \in Workers, Kill(w) PROVE StagesAreTrue'
    BY <1>18 DEF Kill, Fault, Exit, IdleWorker, Active, At
  <1>19. ASSUME NEW run \in Runs, RemoveSpreadsheet(run) PROVE StagesAreTrue'
    BY <1>19 DEF RemoveSpreadsheet, Fault
  <1>20. ASSUME NEW run \in Runs, ResetStuckPending(run) PROVE StagesAreTrue'
    BY <1>20 DEF ResetStuckPending, MarkFailed
  <1>21. CASE UNCHANGED vars
    BY <1>21 DEF vars
  <1>22. QED
    BY <1>1, <1>2, <1>3, <1>4, <1>5, <1>6, <1>7, <1>8, <1>9, <1>10, <1>11, <1>12, <1>13, <1>14,
       <1>15, <1>16, <1>17, <1>18, <1>19, <1>20, <1>21
       DEF Next, Recover, Filter, Export

-----------------------------------------------------------------------------
\* The invariant holds initially.
LEMMA ExportInit == Init => ExportInv
  BY ExportAssumptions
     DEF Init, IdleWorker, NoRows, ExportInv, TypeOK, WorkerInv, FreshInv, StagesAreTrue,
         HasRun, Staged, Statuses, Stages

\* The invariant holds always.
LEMMA ExportInductive == Spec => []ExportInv
  <1>1. ExportInv /\ [Next]_vars => ExportInv'
    BY TypeKept, WorkerKept, FreshKept, TruthKept DEF ExportInv
  <1>2. QED
    BY <1>1, ExportInit, PTL DEF Spec

\* The type invariant holds.
THEOREM TypeCorrect == Spec => []TypeOK
  <1>1. ExportInv => TypeOK
    BY DEF ExportInv
  <1>2. QED
    BY <1>1, ExportInductive, PTL

\* Rows that say an e-mail went out are right, also when invocations overlap.
THEOREM StoredStagesAreTrue == Spec => []StagesAreTrue
  <1>1. ExportInv => StagesAreTrue
    BY DEF ExportInv
  <1>2. QED
    BY <1>1, ExportInductive, PTL

\* An overtaken invocation does not bring a run back that another has ended.
THEOREM StatusesMoveForward == Spec => StatusMovesForward
  <1>1. ASSUME ExportInv, [Next]_vars, NEW r \in Runs, rows'[r].status # rows[r].status
        PROVE  Progress[rows'[r].status] > Progress[rows[r].status]
    <2> USE <1>1 DEF ExportInv, TypeOK, Statuses, Staged
    <2>1. ASSUME NEW run \in Runs, MarkFailed(run)
          PROVE  Progress[rows'[r].status] > Progress[rows[r].status]
      BY <2>1 DEF MarkFailed, Progress
    <2>2. ASSUME NEW w \in Workers, InsertPending(w)
          PROVE  Progress[rows'[r].status] > Progress[rows[r].status]
      BY <2>2 DEF InsertPending, At, FreshInv, WorkerInv, HasRun, Progress
    <2>3. ASSUME NEW w \in Workers,
                 \/ MarkXlsxGenerated(w)
                 \/ MarkGdriveUploaded(w)
                 \/ MarkEmailSent(w)
                 \/ MarkCompleted(w)
          PROVE  Progress[rows'[r].status] > Progress[rows[r].status]
      BY <2>3
         DEF MarkXlsxGenerated, MarkGdriveUploaded, MarkEmailSent, MarkCompleted, Move, Progress
    <2>4. ASSUME NEW w \in Workers, Fail(w)
          PROVE  Progress[rows'[r].status] > Progress[rows[r].status]
      <3>1. workers[w].run \in Runs /\ MarkFailed(workers[w].run)
        BY <2>4 DEF Fail, FailsRun, WorkerInv, HasRun
      <3>2. QED
        BY <3>1, <2>1
    <2>5. QED
      BY <2>1, <2>2, <2>3, <2>4
         DEF Next, Start, Recover, Filter, Export, RecoverCompletion, RecoverEmail, RecoverMissing,
             EndRecovery, ReadCompleted, Select, NothingToExport, CopyToMount, SendEmail,
             CompletionRefused, Kill, RemoveSpreadsheet, ResetStuckPending, vars
  <1>2. ExportInv /\ [Next]_vars
          => [\A r \in Runs : rows'[r].status # rows[r].status
                => Progress[rows'[r].status] > Progress[rows[r].status]]_vars
    BY <1>1
  <1>3. QED
    BY <1>2, ExportInductive, PTL DEF Spec, StatusMovesForward

-----------------------------------------------------------------------------
(* How often a run is e-mailed.                                              *)

\* An invocation that is going to e-mail a run: the run in hand, or one to recover.
WillEmail(w, r) ==
  \/ workers[w].run = r
       /\ workers[w].pc \in {"reserve", "mark_xlsx", "copy", "mark_uploaded", "email"}
  \/ workers[w].run # r /\ <<r, "gdrive_uploaded">> \in workers[w].todo
Senders(r) == {w \in Workers : WillEmail(w, r)}

\* A run that an invocation started now would e-mail (again).
Sent(r)   == \E w \in Workers : workers[w].run = r /\ workers[w].pc = "mark_sent"
Unsent(r) == rows[r].status = "gdrive_uploaded" /\ ~Sent(r)

\* Runs without rows have no e-mails, and invocations without a run no part in any.
HandInv ==
  /\ \A r \in Runs : rows[r].status = "none" => emails[r] = 0 /\ rows[r].biblios = {}
  /\ \A w \in Workers : workers[w].pc \notin HasRun => workers[w].run = NoRun
  /\ \A w \in Workers : workers[w].pc = "idle" => workers[w].todo = {}
  /\ IsFiniteSet(Active)

Trouble == spent.faults + spent.overlaps

\* The e-mails that are sent or under way are paid for by a fault or an overlap
\* each, but for one; so is the one that the next invocation may send.
EmailInv ==
  \A r \in Runs :
    /\ emails[r] + Cardinality(Senders(r)) <= 1 + Trouble
    /\ Unsent(r) => emails[r] <= Trouble

\* An invocation starts at a time, so that finitely many are active.
LEMMA ActiveFinite ==
  ASSUME ExportInv, HandInv, [Next]_vars PROVE IsFiniteSet(Active')
  <1>0. workers \in [Workers -> WorkerRecord]
    BY DEF ExportInv, TypeOK, WorkerRecord
  <1>a. ASSUME NEW w \in Workers, \A v \in Workers \ {w} : workers'[v] = workers[v]
        PROVE  IsFiniteSet(Active')
    <2>1. Active' \subseteq Active \cup {w}
      BY <1>a DEF Active, At
    <2>2. QED
      BY <2>1, FS_AddElement, FS_Subset DEF HandInv
  <1>b. ASSUME workers' = workers PROVE IsFiniteSet(Active')
    BY <1>b DEF HandInv, Active, At
  <1>1. ASSUME NEW w \in Workers, Start(w) PROVE IsFiniteSet(Active')
    <2>1. \A v \in Workers \ {w} : workers'[v] = workers[v]
      BY <1>1, <1>0 DEF Start
    <2>2. QED
      BY <2>1, <1>a
  <1>2. ASSUME NEW w \in Workers, NEW run \in Runs, RecoverCompletion(w, run) PROVE IsFiniteSet(Active')
    <2>1. \A v \in Workers \ {w} : workers'[v] = workers[v]
      BY <1>2, <1>0 DEF RecoverCompletion
    <2>2. QED
      BY <2>1, <1>a
  <1>3. ASSUME NEW w \in Workers, NEW run \in Runs, RecoverEmail(w, run) PROVE IsFiniteSet(Active')
    <2>1. \A v \in Workers \ {w} : workers'[v] = workers[v]
      BY <1>3, <1>0 DEF RecoverEmail
    <2>2. QED
      BY <2>1, <1>a
  <1>4. ASSUME NEW w \in Workers, NEW run \in Runs, RecoverMissing(w, run) PROVE IsFiniteSet(Active')
    <2>1. \A v \in Workers \ {w} : workers'[v] = workers[v]
      BY <1>4, <1>0 DEF RecoverMissing
    <2>2. QED
      BY <2>1, <1>a
  <1>5. ASSUME NEW w \in Workers, EndRecovery(w) PROVE IsFiniteSet(Active')
    <2>1. \A v \in Workers \ {w} : workers'[v] = workers[v]
      BY <1>5, <1>0 DEF EndRecovery, GoTo, Exit
    <2>2. QED
      BY <2>1, <1>a
  <1>6. ASSUME NEW w \in Workers, ReadCompleted(w) PROVE IsFiniteSet(Active')
    <2>1. \A v \in Workers \ {w} : workers'[v] = workers[v]
      BY <1>6, <1>0 DEF ReadCompleted
    <2>2. QED
      BY <2>1, <1>a
  <1>7. ASSUME NEW w \in Workers, Select(w) PROVE IsFiniteSet(Active')
    <2>1. \A v \in Workers \ {w} : workers'[v] = workers[v]
      BY <1>7, <1>0 DEF Select
    <2>2. QED
      BY <2>1, <1>a
  <1>8. ASSUME NEW w \in Workers, NothingToExport(w) PROVE IsFiniteSet(Active')
    <2>1. \A v \in Workers \ {w} : workers'[v] = workers[v]
      BY <1>8, <1>0 DEF NothingToExport, Exit
    <2>2. QED
      BY <2>1, <1>a
  <1>9. ASSUME NEW w \in Workers, InsertPending(w) PROVE IsFiniteSet(Active')
    <2>1. \A v \in Workers \ {w} : workers'[v] = workers[v]
      BY <1>9, <1>0 DEF InsertPending, GoTo
    <2>2. QED
      BY <2>1, <1>a
  <1>10. ASSUME NEW w \in Workers, MarkXlsxGenerated(w) PROVE IsFiniteSet(Active')
    <2>1. \A v \in Workers \ {w} : workers'[v] = workers[v]
      BY <1>10, <1>0 DEF MarkXlsxGenerated, GoTo
    <2>2. QED
      BY <2>1, <1>a
  <1>11. ASSUME NEW w \in Workers, CopyToMount(w) PROVE IsFiniteSet(Active')
    <2>1. \A v \in Workers \ {w} : workers'[v] = workers[v]
      BY <1>11, <1>0 DEF CopyToMount, GoTo
    <2>2. QED
      BY <2>1, <1>a
  <1>12. ASSUME NEW w \in Workers, MarkGdriveUploaded(w) PROVE IsFiniteSet(Active')
    <2>1. \A v \in Workers \ {w} : workers'[v] = workers[v]
      BY <1>12, <1>0 DEF MarkGdriveUploaded, GoTo
    <2>2. QED
      BY <2>1, <1>a
  <1>13. ASSUME NEW w \in Workers, SendEmail(w) PROVE IsFiniteSet(Active')
    <2>1. \A v \in Workers \ {w} : workers'[v] = workers[v]
      BY <1>13, <1>0 DEF SendEmail, GoTo
    <2>2. QED
      BY <2>1, <1>a
  <1>14. ASSUME NEW w \in Workers, MarkEmailSent(w) PROVE IsFiniteSet(Active')
    <2>1. \A v \in Workers \ {w} : workers'[v] = workers[v]
      BY <1>14, <1>0 DEF MarkEmailSent, GoTo
    <2>2. QED
      BY <2>1, <1>a
  <1>15. ASSUME NEW w \in Workers, MarkCompleted(w) PROVE IsFiniteSet(Active')
    <2>1. \A v \in Workers \ {w} : workers'[v] = workers[v]
      BY <1>15, <1>0 DEF MarkCompleted
    <2>2. QED
      BY <2>1, <1>a
  <1>16. ASSUME NEW w \in Workers, CompletionRefused(w) PROVE IsFiniteSet(Active')
    <2>1. \A v \in Workers \ {w} : workers'[v] = workers[v]
      BY <1>16, <1>0 DEF CompletionRefused, Exit
    <2>2. QED
      BY <2>1, <1>a
  <1>17. ASSUME NEW w \in Workers, Fail(w) PROVE IsFiniteSet(Active')
    <2>1. \A v \in Workers \ {w} : workers'[v] = workers[v]
      BY <1>17, <1>0 DEF Fail, Exit
    <2>2. QED
      BY <2>1, <1>a
  <1>18. ASSUME NEW w \in Workers, Kill(w) PROVE IsFiniteSet(Active')
    <2>1. \A v \in Workers \ {w} : workers'[v] = workers[v]
      BY <1>18, <1>0 DEF Kill, Exit
    <2>2. QED
      BY <2>1, <1>a
  <1>19. ASSUME NEW run \in Runs, RemoveSpreadsheet(run) PROVE IsFiniteSet(Active')
    BY <1>19, <1>b DEF RemoveSpreadsheet
  <1>20. ASSUME NEW run \in Runs, ResetStuckPending(run) PROVE IsFiniteSet(Active')
    BY <1>20, <1>b DEF ResetStuckPending
  <1>21. CASE UNCHANGED vars
    BY <1>21, <1>b DEF vars
  <1>22. QED
    BY <1>1, <1>2, <1>3, <1>4, <1>5, <1>6, <1>7, <1>8, <1>9, <1>10, <1>11, <1>12, <1>13, <1>14,
       <1>15, <1>16, <1>17, <1>18, <1>19, <1>20, <1>21
       DEF Next, Recover, Filter, Export

\* Rows are inserted before anything is e-mailed, and an invocation that ends or
\* goes on to the next run has no part in the last one.
LEMMA HandKept ==
  ASSUME ExportInv, HandInv, [Next]_vars PROVE HandInv'
  <1> USE ExportAssumptions DEF HasRun
  <1>0. /\ rows \in [Runs -> RowRecord] /\ emails \in [Runs -> Nat]
        /\ workers \in [Workers -> WorkerRecord]
        /\ \A w \in Workers : workers[w].pc \in HasRun => workers[w].run \in Runs
        /\ \A w \in Workers : workers[w].pc \in HasRun \ {"reserve"} => rows[workers[w].run].status # "none"
        /\ \A r \in Runs : rows[r].status = "none" => emails[r] = 0 /\ rows[r].biblios = {}
        /\ \A w \in Workers : workers[w].pc \notin HasRun => workers[w].run = NoRun
        /\ \A w \in Workers : workers[w].pc = "idle" => workers[w].todo = {}
    BY DEF ExportInv, TypeOK, RowRecord, WorkerRecord, WorkerInv, HandInv
  <1> DEFINE Good == /\ \A r \in Runs : rows[r].status = "none" => emails[r] = 0 /\ rows[r].biblios = {}
                     /\ \A w \in Workers : workers[w].pc \notin HasRun => workers[w].run = NoRun
                     /\ \A w \in Workers : workers[w].pc = "idle" => workers[w].todo = {}
  <1> SUFFICES Good'
    BY ActiveFinite DEF HandInv
  <1>1. ASSUME NEW w \in Workers, Start(w) PROVE Good'
    BY <1>1, <1>0 DEF Start, Recoverable, RunsIn, IdleWorker, At, Active
  <1>2. ASSUME NEW w \in Workers, NEW run \in Runs, RecoverCompletion(w, run) PROVE Good'
    BY <1>2, <1>0 DEF RecoverCompletion, ToRecover, At
  <1>3. ASSUME NEW w \in Workers, NEW run \in Runs, RecoverEmail(w, run) PROVE Good'
    BY <1>3, <1>0 DEF RecoverEmail, ToRecover, At
  <1>4. ASSUME NEW w \in Workers, NEW run \in Runs, RecoverMissing(w, run) PROVE Good'
    BY <1>4, <1>0 DEF RecoverMissing, MarkFailed, ToRecover, At
  <1>5. ASSUME NEW w \in Workers, EndRecovery(w) PROVE Good'
    <2>1. workers[w].run = NoRun /\ workers[w].todo = {}
      BY <1>5, <1>0 DEF EndRecovery, At
    <2>2. CASE Exit(w)
      BY <1>5, <1>0, <2>2 DEF EndRecovery, Exit, IdleWorker
    <2>3. CASE GoTo(w, "filter")
      BY <1>5, <1>0, <2>1, <2>3 DEF EndRecovery, GoTo, WorkerRecord
    <2>4. QED
      BY <1>5, <2>2, <2>3 DEF EndRecovery
  <1>6. ASSUME NEW w \in Workers, ReadCompleted(w) PROVE Good'
    BY <1>6, <1>0 DEF ReadCompleted, At
  <1>7. ASSUME NEW w \in Workers, Select(w) PROVE Good'
    BY <1>7, <1>0 DEF Select, NewRuns, At
  <1>8. ASSUME NEW w \in Workers, NothingToExport(w) PROVE Good'
    BY <1>8, <1>0 DEF NothingToExport, Exit, IdleWorker, At
  <1>9. ASSUME NEW w \in Workers, InsertPending(w) PROVE Good'
    BY <1>9, <1>0 DEF InsertPending, GoTo, At
  <1>10. ASSUME NEW w \in Workers, MarkXlsxGenerated(w) PROVE Good'
    BY <1>10, <1>0 DEF MarkXlsxGenerated, Move, GoTo, At
  <1>11. ASSUME NEW w \in Workers, CopyToMount(w) PROVE Good'
    BY <1>11, <1>0 DEF CopyToMount, GoTo, At
  <1>12. ASSUME NEW w \in Workers, MarkGdriveUploaded(w) PROVE Good'
    BY <1>12, <1>0 DEF MarkGdriveUploaded, Move, GoTo, At
  <1>13. ASSUME NEW w \in Workers, SendEmail(w) PROVE Good'
    BY <1>13, <1>0 DEF SendEmail, GoTo, At
  <1>14. ASSUME NEW w \in Workers, MarkEmailSent(w) PROVE Good'
    BY <1>14, <1>0 DEF MarkEmailSent, Move, GoTo, At
  <1>15. ASSUME NEW w \in Workers, MarkCompleted(w) PROVE Good'
    BY <1>15, <1>0 DEF MarkCompleted, Move, IdleWorker, At
  <1>16. ASSUME NEW w \in Workers, CompletionRefused(w) PROVE Good'
    BY <1>16, <1>0 DEF CompletionRefused, Exit, IdleWorker, At
  <1>17. ASSUME NEW w \in Workers, Fail(w) PROVE Good'
    <2>1. \A r \in Runs : rows'[r].status = "none" => rows'[r] = rows[r]
      <3>1. CASE FailsRun(w)
        BY <1>17, <1>0, <3>1 DEF Fail, FailsRun, MarkFailed, RowRecord
      <3>2. CASE ~FailsRun(w)
        BY <1>17, <3>2 DEF Fail
      <3>3. QED
        BY <3>1, <3>2
    <2>2. QED
      BY <1>17, <1>0, <2>1 DEF Fail, Exit, IdleWorker
  <1>18. ASSUME NEW w \in Workers, Kill(w) PROVE Good'
    BY <1>18, <1>0 DEF Kill, Fault, Exit, IdleWorker, Active, At
  <1>19. ASSUME NEW run \in Runs, RemoveSpreadsheet(run) PROVE Good'
    BY <1>19, <1>0 DEF RemoveSpreadsheet, Fault
  <1>20. ASSUME NEW run \in Runs, ResetStuckPending(run) PROVE Good'
    BY <1>20, <1>0 DEF ResetStuckPending, MarkFailed
  <1>21. CASE UNCHANGED vars
    BY <1>21, <1>0 DEF vars
  <1>22. QED
    BY <1>1, <1>2, <1>3, <1>4, <1>5, <1>6, <1>7, <1>8, <1>9, <1>10, <1>11, <1>12, <1>13, <1>14,
       <1>15, <1>16, <1>17, <1>18, <1>19, <1>20, <1>21
       DEF Next, Recover, Filter, Export

\* The invocations that are going to e-mail a run are among the active ones.
LEMMA SendersFinite ==
  ASSUME HandInv, NEW r \in Runs
  PROVE  IsFiniteSet(Senders(r)) /\ Cardinality(Senders(r)) \in Nat
  <1>1. Senders(r) \subseteq Active
    BY ExportAssumptions DEF Senders, WillEmail, Active, At, HandInv, HasRun
  <1>2. QED
    BY <1>1, FS_Subset, FS_CardinalityType DEF HandInv

\* A step that neither sends nor promises an e-mail keeps the account, if a fault
\* pays for each run that is to be e-mailed again.
LEMMA QuietStep ==
  ASSUME ExportInv, HandInv, HandInv', EmailInv, emails' = emails,
         Trouble' \in Nat, Trouble' >= Trouble,
         \A v \in Workers, r \in Runs : WillEmail(v, r)' => WillEmail(v, r),
         \A r \in Runs : Unsent(r)' => Unsent(r) \/ Trouble' > Trouble
  PROVE  EmailInv'
  <1> SUFFICES ASSUME NEW r \in Runs
               PROVE  /\ emails'[r] + Cardinality(Senders(r)') <= 1 + Trouble'
                      /\ Unsent(r)' => emails'[r] <= Trouble'
    BY DEF EmailInv
  <1>1. Senders(r)' \subseteq Senders(r)
    BY DEF Senders
  <1>2. /\ Cardinality(Senders(r)') <= Cardinality(Senders(r))
        /\ Cardinality(Senders(r)) \in Nat /\ Cardinality(Senders(r)') \in Nat
    BY <1>1, SendersFinite, FS_Subset, FS_CardinalityType
  <1>3. emails[r] \in Nat /\ Trouble \in Nat
    BY DEF ExportInv, TypeOK, Trouble
  <1>4. /\ emails[r] + Cardinality(Senders(r)) <= 1 + Trouble
        /\ Unsent(r) => emails[r] <= Trouble
    BY DEF EmailInv
  <1>5. emails'[r] + Cardinality(Senders(r)') <= 1 + Trouble'
    BY <1>2, <1>3, <1>4
  <1>6. ASSUME Unsent(r)' PROVE emails'[r] <= Trouble'
    <2>1. CASE Unsent(r)
      BY <1>3, <1>4, <2>1
    <2>2. CASE Trouble' > Trouble
      BY <1>2, <1>3, <1>4, <2>2
    <2>3. QED
      BY <1>6, <2>1, <2>2
  <1>7. QED
    BY <1>5, <1>6

\* An invocation that starts alone finds only runs whose e-mail is still unpaid.
LEMMA EmailKept ==
  ASSUME ExportInv, HandInv, EmailInv, [Next]_vars PROVE EmailInv'
  <1> USE ExportAssumptions DEF HasRun
  <1>0. /\ rows \in [Runs -> RowRecord] /\ emails \in [Runs -> Nat]
        /\ workers \in [Workers -> WorkerRecord]
        /\ spent.faults \in Nat /\ spent.overlaps \in Nat
        /\ spent \in [faults : Nat, overlaps : Nat]
        /\ \A w \in Workers : workers[w].pc \in HasRun => workers[w].run \in Runs
        /\ \A w \in Workers : \A t \in workers[w].todo : rows[t[1]].status # "none"
        /\ \A r \in Runs : rows[r].status = "none" => emails[r] = 0
        /\ \A w \in Workers : workers[w].pc \notin HasRun => workers[w].run = NoRun
        /\ \A w \in Workers : workers[w].pc = "idle" => workers[w].todo = {}
    BY DEF ExportInv, TypeOK, RowRecord, WorkerRecord, WorkerInv, HandInv
  <1>h. HandInv'
    BY HandKept
  <1>1. ASSUME NEW w \in Workers, Start(w) PROVE EmailInv'
    <2>0. /\ emails' = emails /\ rows' = rows /\ workers[w].pc = "idle"
          /\ workers' = [workers EXCEPT ![w] = [IdleWorker EXCEPT !.pc = "recover",
                                                                  !.todo = Recoverable]]
          /\ spent' = [spent EXCEPT !.overlaps = IF Active = {} THEN @ ELSE @ + 1]
      BY <1>1 DEF Start, At
    <2>1. Trouble' = (IF Active = {} THEN Trouble ELSE Trouble + 1) /\ Trouble \in Nat
      BY <2>0, <1>0 DEF Trouble
    <2>2. ASSUME NEW r \in Runs
          PROVE  /\ Senders(r)' \subseteq Senders(r) \cup {w}
                 /\ rows[r].status # "gdrive_uploaded" => Senders(r)' \subseteq Senders(r)
      BY <2>0, <1>0 DEF Senders, WillEmail, IdleWorker, Recoverable, RunsIn
    <2>3. ASSUME NEW r \in Runs PROVE Sent(r)' = Sent(r)
      BY <2>0, <1>0 DEF Sent, IdleWorker
    <2>4. ASSUME NEW r \in Runs
          PROVE  /\ emails'[r] + Cardinality(Senders(r)') <= 1 + Trouble'
                 /\ Unsent(r)' => emails'[r] <= Trouble'
      <3>1. /\ IsFiniteSet(Senders(r)) /\ Cardinality(Senders(r)) \in Nat
        BY SendersFinite
      <3>2. /\ IsFiniteSet(Senders(r) \cup {w})
            /\ Cardinality(Senders(r) \cup {w}) \in {Cardinality(Senders(r)), Cardinality(Senders(r)) + 1}
        BY <3>1, FS_AddElement
      <3>a. /\ IsFiniteSet(Senders(r)') /\ Cardinality(Senders(r)') \in Nat
            /\ Cardinality(Senders(r)') <= Cardinality(Senders(r) \cup {w})
        BY <2>2, <3>2, FS_Subset, FS_CardinalityType
      <3>3. /\ emails[r] + Cardinality(Senders(r)) <= 1 + Trouble
            /\ Unsent(r) => emails[r] <= Trouble
            /\ emails[r] \in Nat
        BY <1>0 DEF EmailInv
      <3>4. Unsent(r)' = Unsent(r)
        BY <2>0, <2>3 DEF Unsent
      <3>5. Cardinality(Senders(r)') <= Cardinality(Senders(r)) + 1
        BY <3>1, <3>2, <3>a
      <3>6. CASE Active # {}
        BY <2>0, <2>1, <3>1, <3>a, <3>3, <3>4, <3>5, <3>6
      <3>7. CASE Active = {}
        <4>1. Senders(r) = {} /\ ~Sent(r)
          BY <1>0, <3>7 DEF Senders, WillEmail, Sent, Active, At
        <4>2. CASE rows[r].status = "gdrive_uploaded"
          <5>1. emails[r] <= Trouble /\ Cardinality(Senders(r)) = 0
            BY <3>3, <4>1, <4>2, FS_EmptySet DEF Unsent
          <5>2. QED
            BY <2>0, <2>1, <3>1, <3>3, <3>a, <3>4, <3>5, <3>7, <5>1
        <4>3. CASE rows[r].status # "gdrive_uploaded"
          <5>1. Cardinality(Senders(r)') <= Cardinality(Senders(r))
            BY <2>2, <3>1, <4>3, FS_Subset
          <5>2. QED
            BY <2>0, <2>1, <3>1, <3>3, <3>4, <3>7, <3>a, <5>1
        <4>4. QED
          BY <4>2, <4>3
      <3>8. QED
        BY <3>6, <3>7
    <2>5. QED
      BY <2>4 DEF EmailInv
  <1>2. ASSUME NEW w \in Workers, NEW run \in Runs, RecoverCompletion(w, run) PROVE EmailInv'
    <2>1. emails' = emails /\ Trouble' = Trouble /\ Trouble \in Nat
      BY <1>2, <1>0 DEF RecoverCompletion, Trouble
    <2>2. \A v \in Workers, r \in Runs : WillEmail(v, r)' => WillEmail(v, r)
      BY <1>2, <1>0 DEF RecoverCompletion, At, ToRecover, WillEmail, WorkerRecord
    <2>3. \A r \in Runs : Unsent(r)' => Unsent(r)
      BY <1>2, <1>0 DEF RecoverCompletion, At, ToRecover, Unsent, Sent, RowRecord, WorkerRecord
    <2>4. QED
      BY <2>1, <2>2, <2>3, <1>h, QuietStep
  <1>3. ASSUME NEW w \in Workers, NEW run \in Runs, RecoverEmail(w, run) PROVE EmailInv'
    <2>1. emails' = emails /\ Trouble' = Trouble /\ Trouble \in Nat
      BY <1>3, <1>0 DEF RecoverEmail, Trouble
    <2>2. \A v \in Workers, r \in Runs : WillEmail(v, r)' => WillEmail(v, r)
      BY <1>3, <1>0 DEF RecoverEmail, At, ToRecover, WillEmail, WorkerRecord
    <2>3. \A r \in Runs : Unsent(r)' => Unsent(r)
      BY <1>3, <1>0 DEF RecoverEmail, At, ToRecover, Unsent, Sent, RowRecord, WorkerRecord
    <2>4. QED
      BY <2>1, <2>2, <2>3, <1>h, QuietStep
  <1>4. ASSUME NEW w \in Workers, NEW run \in Runs, RecoverMissing(w, run) PROVE EmailInv'
    <2>1. emails' = emails /\ Trouble' = Trouble /\ Trouble \in Nat
      BY <1>4, <1>0 DEF RecoverMissing, Trouble
    <2>2. \A v \in Workers, r \in Runs : WillEmail(v, r)' => WillEmail(v, r)
      BY <1>4, <1>0 DEF RecoverMissing, At, ToRecover, WillEmail, WorkerRecord
    <2>3. \A r \in Runs : Unsent(r)' => Unsent(r)
      BY <1>4, <1>0
         DEF RecoverMissing, At, ToRecover, MarkFailed, Unsent, Sent, RowRecord, WorkerRecord
    <2>4. QED
      BY <2>1, <2>2, <2>3, <1>h, QuietStep
  <1>5. ASSUME NEW w \in Workers, EndRecovery(w) PROVE EmailInv'
    <2>1. emails' = emails /\ Trouble' = Trouble /\ Trouble \in Nat
      BY <1>5, <1>0 DEF EndRecovery, Trouble
    <2>2. \A v \in Workers, r \in Runs : WillEmail(v, r)' => WillEmail(v, r)
      BY <1>5, <1>0 DEF EndRecovery, GoTo, Exit, IdleWorker, At, WillEmail, WorkerRecord
    <2>3. \A r \in Runs : Unsent(r)' => Unsent(r)
      BY <1>5, <1>0
         DEF EndRecovery, GoTo, Exit, IdleWorker, At, Unsent, Sent, RowRecord, WorkerRecord
    <2>4. QED
      BY <2>1, <2>2, <2>3, <1>h, QuietStep
  <1>6. ASSUME NEW w \in Workers, ReadCompleted(w) PROVE EmailInv'
    <2>1. emails' = emails /\ Trouble' = Trouble /\ Trouble \in Nat
      BY <1>6, <1>0 DEF ReadCompleted, Trouble
    <2>2. \A v \in Workers, r \in Runs : WillEmail(v, r)' => WillEmail(v, r)
      BY <1>6, <1>0 DEF ReadCompleted, At, WillEmail, WorkerRecord
    <2>3. \A r \in Runs : Unsent(r)' => Unsent(r)
      BY <1>6, <1>0 DEF ReadCompleted, At, Unsent, Sent, RowRecord, WorkerRecord
    <2>4. QED
      BY <2>1, <2>2, <2>3, <1>h, QuietStep
  <1>7. ASSUME NEW w \in Workers, Select(w) PROVE EmailInv'
    <2>1. PICK chosen \in SUBSET Exportable(w) \ {{}}, run \in NewRuns :
            workers' = [workers EXCEPT ![w].run = run, ![w].biblios = chosen, ![w].pc = "reserve"]
      BY <1>7 DEF Select
    <2>2. /\ emails' = emails /\ rows' = rows /\ Trouble' = Trouble /\ Trouble \in Nat
          /\ workers[w].pc = "select" /\ run \in Runs
      BY <1>7, <1>0, <2>1 DEF Select, Trouble, At, NewRuns
    <2>3. /\ workers[w].run = NoRun /\ workers'[w].run = run /\ workers'[w].pc = "reserve"
          /\ workers'[w].todo = workers[w].todo
          /\ \A v \in Workers \ {w} : workers'[v] = workers[v]
      BY <1>0, <2>1, <2>2 DEF WorkerRecord
    <2>4. /\ emails[run] = 0 /\ Senders(run) = {} /\ rows[run].status = "none"
      BY <1>0, <2>1, <2>2 DEF NewRuns, Senders, WillEmail
    <2>5. ASSUME NEW r \in Runs PROVE Unsent(r)' => Unsent(r)
      BY <2>2, <2>3 DEF Unsent, Sent
    <2>6. ASSUME NEW r \in Runs PROVE emails'[r] + Cardinality(Senders(r)') <= 1 + Trouble'
      <3>1. CASE r = run
        <4>1. Senders(r)' \subseteq {w}
          BY <2>3, <2>4, <3>1 DEF Senders, WillEmail
        <4>2. IsFiniteSet({w}) /\ Cardinality({w}) = 1
          BY FS_Singleton
        <4>3. Cardinality(Senders(r)') <= 1 /\ Cardinality(Senders(r)') \in Nat
          BY <4>1, <4>2, FS_Subset, FS_CardinalityType
        <4>4. QED
          BY <2>2, <2>4, <3>1, <4>2, <4>3
      <3>2. CASE r # run
        <4>1. Senders(r)' = Senders(r)
          BY <2>2, <2>3, <3>2 DEF Senders, WillEmail
        <4>2. QED
          BY <2>2, <4>1 DEF EmailInv
      <3>3. QED
        BY <3>1, <3>2
    <2>7. QED
      BY <2>2, <2>5, <2>6 DEF EmailInv
  <1>8. ASSUME NEW w \in Workers, NothingToExport(w) PROVE EmailInv'
    <2>1. emails' = emails /\ Trouble' = Trouble /\ Trouble \in Nat
      BY <1>8, <1>0 DEF NothingToExport, Trouble
    <2>2. \A v \in Workers, r \in Runs : WillEmail(v, r)' => WillEmail(v, r)
      BY <1>8, <1>0 DEF NothingToExport, Exit, IdleWorker, At, WillEmail, WorkerRecord
    <2>3. \A r \in Runs : Unsent(r)' => Unsent(r)
      BY <1>8, <1>0 DEF NothingToExport, Exit, IdleWorker, At, Unsent, Sent, RowRecord, WorkerRecord
    <2>4. QED
      BY <2>1, <2>2, <2>3, <1>h, QuietStep
  <1>9. ASSUME NEW w \in Workers, InsertPending(w) PROVE EmailInv'
    <2>1. emails' = emails /\ Trouble' = Trouble /\ Trouble \in Nat
      BY <1>9, <1>0 DEF InsertPending, Trouble
    <2>2. \A v \in Workers, r \in Runs : WillEmail(v, r)' => WillEmail(v, r)
      BY <1>9, <1>0 DEF InsertPending, GoTo, At, WillEmail, WorkerRecord
    <2>3. \A r \in Runs : Unsent(r)' => Unsent(r)
      BY <1>9, <1>0 DEF InsertPending, GoTo, At, Unsent, Sent, RowRecord, WorkerRecord
    <2>4. QED
      BY <2>1, <2>2, <2>3, <1>h, QuietStep
  <1>10. ASSUME NEW w \in Workers, MarkXlsxGenerated(w) PROVE EmailInv'
    <2>1. emails' = emails /\ Trouble' = Trouble /\ Trouble \in Nat
      BY <1>10, <1>0 DEF MarkXlsxGenerated, Trouble
    <2>2. \A v \in Workers, r \in Runs : WillEmail(v, r)' => WillEmail(v, r)
      BY <1>10, <1>0 DEF MarkXlsxGenerated, GoTo, At, WillEmail, WorkerRecord
    <2>3. \A r \in Runs : Unsent(r)' => Unsent(r)
      BY <1>10, <1>0 DEF MarkXlsxGenerated, GoTo, At, Move, Unsent, Sent, RowRecord, WorkerRecord
    <2>4. QED
      BY <2>1, <2>2, <2>3, <1>h, QuietStep
  <1>11. ASSUME NEW w \in Workers, CopyToMount(w) PROVE EmailInv'
    <2>1. emails' = emails /\ Trouble' = Trouble /\ Trouble \in Nat
      BY <1>11, <1>0 DEF CopyToMount, Trouble
    <2>2. \A v \in Workers, r \in Runs : WillEmail(v, r)' => WillEmail(v, r)
      BY <1>11, <1>0 DEF CopyToMount, GoTo, At, WillEmail, WorkerRecord
    <2>3. \A r \in Runs : Unsent(r)' => Unsent(r)
      BY <1>11, <1>0 DEF CopyToMount, GoTo, At, Unsent, Sent, RowRecord, WorkerRecord
    <2>4. QED
      BY <2>1, <2>2, <2>3, <1>h, QuietStep
  <1>12. ASSUME NEW w \in Workers, MarkGdriveUploaded(w) PROVE EmailInv'
    <2> DEFINE run == workers[w].run
    <2>1. /\ emails' = emails /\ Trouble' = Trouble /\ Trouble \in Nat
          /\ workers[w].pc = "mark_uploaded" /\ run \in Runs
      BY <1>12, <1>0 DEF MarkGdriveUploaded, Trouble, At
    <2>2. \A v \in Workers, r \in Runs : WillEmail(v, r)' = WillEmail(v, r)
      BY <1>12, <1>0 DEF MarkGdriveUploaded, GoTo, At, WillEmail, WorkerRecord
    <2>3. \A r \in Runs \ {run} : Unsent(r)' => Unsent(r)
      BY <1>12, <1>0 DEF MarkGdriveUploaded, GoTo, At, Move, Unsent, Sent, RowRecord, WorkerRecord
    <2>4. ASSUME NEW r \in Runs
          PROVE  /\ Senders(r)' = Senders(r)
                 /\ emails[r] + Cardinality(Senders(r)) <= 1 + Trouble
                 /\ Unsent(r) => emails[r] <= Trouble
      BY <2>2 DEF Senders, EmailInv
    <2>5. emails[run] <= Trouble
      <3>1. w \in Senders(run)
        BY <2>1 DEF Senders, WillEmail
      <3>2. Cardinality(Senders(run)) >= 1
        BY <2>1, <3>1, SendersFinite, FS_EmptySet
      <3>3. QED
        BY <1>0, <2>1, <2>4, <3>2, SendersFinite
    <2>6. QED
      BY <2>1, <2>3, <2>4, <2>5 DEF EmailInv
  <1>13. ASSUME NEW w \in Workers, SendEmail(w) PROVE EmailInv'
    <2> DEFINE run == workers[w].run
    <2>1. /\ emails' = [emails EXCEPT ![run] = @ + 1] /\ rows' = rows
          /\ Trouble' = Trouble /\ Trouble \in Nat
          /\ workers[w].pc = "email" /\ run \in Runs
          /\ workers' = [workers EXCEPT ![w].pc = "mark_sent"]
      BY <1>13, <1>0 DEF SendEmail, GoTo, Trouble, At
    <2>2. /\ workers'[w].run = run /\ workers'[w].pc = "mark_sent"
          /\ workers'[w].todo = workers[w].todo
          /\ \A v \in Workers \ {w} : workers'[v] = workers[v]
      BY <1>0, <2>1 DEF WorkerRecord
    <2>3. ASSUME NEW r \in Runs PROVE Unsent(r)' => Unsent(r) /\ r # run
      BY <2>1, <2>2 DEF Unsent, Sent
    <2>4. ASSUME NEW r \in Runs PROVE emails'[r] + Cardinality(Senders(r)') <= 1 + Trouble'
      <3>1. CASE r = run
        <4>1. Senders(r)' = Senders(r) \ {w} /\ w \in Senders(r)
          BY <2>1, <2>2, <3>1 DEF Senders, WillEmail
        <4>2. Cardinality(Senders(r)') = Cardinality(Senders(r)) - 1
          BY <4>1, SendersFinite, FS_RemoveElement
        <4>3. emails[r] \in Nat /\ emails'[r] = emails[r] + 1
          BY <1>0, <2>1, <3>1
        <4>4. QED
          BY <2>1, <4>2, <4>3, SendersFinite DEF EmailInv
      <3>2. CASE r # run
        <4>1. Senders(r)' = Senders(r) /\ emails'[r] = emails[r]
          BY <1>0, <2>1, <2>2, <3>2 DEF Senders, WillEmail
        <4>2. QED
          BY <2>1, <4>1 DEF EmailInv
      <3>3. QED
        BY <3>1, <3>2
    <2>5. ASSUME NEW r \in Runs, Unsent(r)' PROVE emails'[r] <= Trouble'
      BY <1>0, <2>1, <2>3, <2>5 DEF EmailInv
    <2>6. QED
      BY <2>4, <2>5 DEF EmailInv
  <1>14. ASSUME NEW w \in Workers, MarkEmailSent(w) PROVE EmailInv'
    <2>1. emails' = emails /\ Trouble' = Trouble /\ Trouble \in Nat
      BY <1>14, <1>0 DEF MarkEmailSent, Trouble
    <2>2. \A v \in Workers, r \in Runs : WillEmail(v, r)' => WillEmail(v, r)
      BY <1>14, <1>0 DEF MarkEmailSent, GoTo, At, WillEmail, WorkerRecord
    <2>3. \A r \in Runs : Unsent(r)' => Unsent(r)
      BY <1>14, <1>0 DEF MarkEmailSent, GoTo, At, Move, Unsent, Sent, RowRecord, WorkerRecord
    <2>4. QED
      BY <2>1, <2>2, <2>3, <1>h, QuietStep
  <1>15. ASSUME NEW w \in Workers, MarkCompleted(w) PROVE EmailInv'
    <2>1. emails' = emails /\ Trouble' = Trouble /\ Trouble \in Nat
      BY <1>15, <1>0 DEF MarkCompleted, Trouble
    <2>2. \A v \in Workers, r \in Runs : WillEmail(v, r)' => WillEmail(v, r)
      BY <1>15, <1>0 DEF MarkCompleted, At, IdleWorker, WillEmail, WorkerRecord
    <2>3. \A r \in Runs : Unsent(r)' => Unsent(r)
      BY <1>15, <1>0 DEF MarkCompleted, At, IdleWorker, Move, Unsent, Sent, RowRecord, WorkerRecord
    <2>4. QED
      BY <2>1, <2>2, <2>3, <1>h, QuietStep
  <1>16. ASSUME NEW w \in Workers, CompletionRefused(w) PROVE EmailInv'
    <2>1. emails' = emails /\ Trouble' = Trouble /\ Trouble \in Nat
      BY <1>16, <1>0 DEF CompletionRefused, Trouble
    <2>2. \A v \in Workers, r \in Runs : WillEmail(v, r)' => WillEmail(v, r)
      BY <1>16, <1>0 DEF CompletionRefused, Exit, IdleWorker, At, WillEmail, WorkerRecord
    <2>3. \A r \in Runs : Unsent(r)' => Unsent(r)
      BY <1>16, <1>0
         DEF CompletionRefused, Exit, IdleWorker, At, Unsent, Sent, RowRecord, WorkerRecord
    <2>4. QED
      BY <2>1, <2>2, <2>3, <1>h, QuietStep
  <1>17. ASSUME NEW w \in Workers, Fail(w) PROVE EmailInv'
    <2>1. emails' = emails /\ Trouble' = Trouble + 1 /\ Trouble \in Nat
      BY <1>17, <1>0 DEF Fail, Fault, Trouble
    <2>2. \A v \in Workers, r \in Runs : WillEmail(v, r)' => WillEmail(v, r)
      BY <1>17, <1>0 DEF Fail, Exit, IdleWorker, WillEmail, WorkerRecord
    <2>4. QED
      BY <2>1, <2>2, <1>h, QuietStep
  <1>18. ASSUME NEW w \in Workers, Kill(w) PROVE EmailInv'
    <2>1. emails' = emails /\ Trouble' = Trouble + 1 /\ Trouble \in Nat
      BY <1>18, <1>0 DEF Kill, Fault, Trouble
    <2>2. \A v \in Workers, r \in Runs : WillEmail(v, r)' => WillEmail(v, r)
      BY <1>18, <1>0 DEF Kill, Exit, IdleWorker, WillEmail, WorkerRecord
    <2>4. QED
      BY <2>1, <2>2, <1>h, QuietStep
  <1>19. ASSUME NEW run \in Runs, RemoveSpreadsheet(run) PROVE EmailInv'
    <2>1. emails' = emails /\ Trouble' = Trouble + 1 /\ Trouble \in Nat
      BY <1>19, <1>0 DEF RemoveSpreadsheet, Fault, Trouble
    <2>2. \A v \in Workers, r \in Runs : WillEmail(v, r)' => WillEmail(v, r)
      BY <1>19, <1>0 DEF RemoveSpreadsheet, WillEmail, WorkerRecord
    <2>4. QED
      BY <2>1, <2>2, <1>h, QuietStep
  <1>20. ASSUME NEW run \in Runs, ResetStuckPending(run) PROVE EmailInv'
    <2>1. emails' = emails /\ Trouble' = Trouble /\ Trouble \in Nat
      BY <1>20, <1>0 DEF ResetStuckPending, Trouble
    <2>2. \A v \in Workers, r \in Runs : WillEmail(v, r)' => WillEmail(v, r)
      BY <1>20, <1>0 DEF ResetStuckPending, WillEmail, WorkerRecord
    <2>3. \A r \in Runs : Unsent(r)' => Unsent(r)
      BY <1>20, <1>0 DEF ResetStuckPending, MarkFailed, Unsent, Sent, RowRecord, WorkerRecord
    <2>4. QED
      BY <2>1, <2>2, <2>3, <1>h, QuietStep
  <1>21. CASE UNCHANGED vars
    BY <1>21 DEF vars, EmailInv, Senders, WillEmail, Unsent, Sent, Trouble
  <1>22. QED
    BY <1>1, <1>2, <1>3, <1>4, <1>5, <1>6, <1>7, <1>8, <1>9, <1>10, <1>11, <1>12, <1>13, <1>14,
       <1>15, <1>16, <1>17, <1>18, <1>19, <1>20, <1>21
       DEF Next, Recover, Filter, Export

\* A spreadsheet is e-mailed once, and once more for each fault or overlap at
\* most, however many invocations recover its run at a time.
THEOREM RunsEmailedOnce == Spec => []RunEmailedOncePerTrouble
  <1>1. Init => HandInv /\ EmailInv
    <2> SUFFICES ASSUME Init PROVE HandInv /\ EmailInv
      OBVIOUS
    <2>1. Active = {}
      BY DEF Init, Active, At, IdleWorker
    <2>2. HandInv
      BY <2>1, FS_EmptySet DEF Init, HandInv, NoRows, IdleWorker
    <2>3. \A r \in Runs : Senders(r) = {} /\ emails[r] = 0 /\ ~Unsent(r)
      BY ExportAssumptions DEF Init, Senders, WillEmail, Unsent, IdleWorker, NoRows
    <2>4. Trouble = 0
      BY DEF Init, Trouble
    <2>5. QED
      BY <2>2, <2>3, <2>4, FS_EmptySet DEF EmailInv
  <1>2. ExportInv /\ HandInv /\ EmailInv /\ [Next]_vars => HandInv' /\ EmailInv'
    BY HandKept, EmailKept
  <1>3. ExportInv /\ HandInv /\ EmailInv => RunEmailedOncePerTrouble
    <2> SUFFICES ASSUME ExportInv, HandInv, EmailInv, NEW r \in Runs
                 PROVE  emails[r] <= 1 + spent.faults + spent.overlaps
      BY DEF RunEmailedOncePerTrouble
    <2>1. /\ emails[r] \in Nat /\ spent.faults \in Nat /\ spent.overlaps \in Nat
          /\ Cardinality(Senders(r)) \in Nat
      BY SendersFinite DEF ExportInv, TypeOK
    <2>2. emails[r] + Cardinality(Senders(r)) <= 1 + (spent.faults + spent.overlaps)
      BY DEF EmailInv, Trouble
    <2>3. QED
      BY <2>1, <2>2
  <1>4. QED
    BY <1>1, <1>2, <1>3, ExportInductive, PTL DEF Spec

-----------------------------------------------------------------------------
(* How often a biblio is e-mailed, while invocations do not overlap.          *)

Taking(r) == rows[r].status \in Staged \cup {"completed"}

\* What an invocation knows of the rows when no other interferes: its run is at
\* the status it expects, what it read is so, and no run has taken its biblios.
AloneAt(w) ==
  /\ workers[w].pc = "mark_xlsx" =>
       /\ rows[workers[w].run].status = "pending"
       /\ rows[workers[w].run].biblios = workers[w].biblios
  /\ workers[w].pc \in {"copy", "mark_uploaded"} =>
       rows[workers[w].run].status = "xlsx_generated"
  /\ workers[w].pc \in {"email", "mark_sent"} =>
       rows[workers[w].run].status = "gdrive_uploaded"
  /\ workers[w].pc = "complete" => rows[workers[w].run].status = "email_sent"
  /\ \A t \in workers[w].todo : t[1] # workers[w].run => rows[t[1]].status = t[2]
  /\ workers[w].pc = "select" => workers[w].completed = BibliosIn({"completed"})
  /\ workers[w].pc \in {"reserve", "mark_xlsx"} =>
       \A r \in Runs : Taking(r) => rows[r].biblios \cap workers[w].biblios = {}

TakenOnce ==
  \A r, q \in Runs : r # q /\ Taking(r) /\ Taking(q) => rows[r].biblios \cap rows[q].biblios = {}

AloneInv ==
  spent.overlaps = 0 => /\ \A v, w \in Active : v = w
                        /\ \A w \in Workers : AloneAt(w)
                        /\ TakenOnce

\* A biblio that may be e-mailed again without another fault: no run has taken
\* it, or the one that has is not e-mailed yet.
Live(b) ==
  \/ \A r \in Runs : Taking(r) => b \notin rows[r].biblios
  \/ \E r \in Runs : /\ b \in rows[r].biblios
                     /\ rows[r].status = "xlsx_generated" \/ Unsent(r)

\* The e-mails of a biblio are paid for by a fault each, but for one; so is the
\* one that it may still get.
BiblioInv ==
  \A b \in Biblios :
    /\ IsFiniteSet(EmailsOf(b))
    /\ spent.overlaps = 0 =>
         /\ Cardinality(EmailsOf(b)) <= 1 + spent.faults
         /\ Live(b) => Cardinality(EmailsOf(b)) <= spent.faults

\* Without an overlap, what the only invocation knows stays true.
LEMMA AloneKept ==
  ASSUME ExportInv, HandInv, HandInv', AloneInv, [Next]_vars PROVE AloneInv'
  <1> USE ExportAssumptions DEF HasRun
  <1>0. /\ rows \in [Runs -> RowRecord] /\ emails \in [Runs -> Nat]
        /\ workers \in [Workers -> WorkerRecord]
        /\ spent \in [faults : Nat, overlaps : Nat]
        /\ \A w \in Workers : workers[w].pc \in HasRun => workers[w].run \in Runs
        /\ \A w \in Workers : \A t \in workers[w].todo : t[1] \in Runs /\ t[2] \in Staged
        /\ \A w \in Workers : workers[w].pc \notin HasRun => workers[w].run = NoRun
        /\ \A w \in Workers : workers[w].pc = "idle" => workers[w].todo = {}
    BY DEF ExportInv, TypeOK, RowRecord, WorkerRecord, WorkerInv, HandInv
  <1> SUFFICES ASSUME spent'.overlaps = 0
               PROVE  /\ \A v, w \in Active' : v = w
                      /\ \A w \in Workers : AloneAt(w)'
                      /\ TakenOnce'
    BY DEF AloneInv
  <1> DEFINE Goal == /\ \A v, w \in Active' : v = w
                     /\ \A w \in Workers : AloneAt(w)'
                     /\ TakenOnce'
  <1>a. ASSUME spent.overlaps = 0
        PROVE  /\ \A v, w \in Active : v = w
               /\ \A w \in Workers : AloneAt(w)
               /\ TakenOnce
    BY <1>a DEF AloneInv
  <1>b. ASSUME NEW w \in Workers, \A v \in Workers \ {w} : workers'[v] = workers[v] /\ workers[v].pc = "idle",
               AloneAt(w)', TakenOnce'
        PROVE  Goal
    <2>1. \A v \in Workers \ {w} : AloneAt(v)'
      BY <1>0, <1>b DEF AloneAt
    <2>2. \A u, v \in Active' : u = v
      BY <1>b DEF Active, At
    <2>3. QED
      BY <1>b, <2>1, <2>2
  <1>1. ASSUME NEW w \in Workers, Start(w) PROVE Goal
    <2>1. /\ spent.overlaps = 0 /\ Active = {} /\ rows' = rows /\ workers[w].pc = "idle"
          /\ workers' = [workers EXCEPT ![w] = [IdleWorker EXCEPT !.pc = "recover",
                                                                  !.todo = Recoverable]]
      BY <1>1, <1>0 DEF Start, At
    <2>2. /\ \A v \in Workers \ {w} : workers'[v] = workers[v] /\ workers[v].pc = "idle"
          /\ TakenOnce
      BY <1>0, <1>a, <2>1 DEF Active, At
    <2>3. AloneAt(w)'
      BY <1>0, <2>1 DEF AloneAt, IdleWorker, Recoverable, RunsIn
    <2>4. TakenOnce'
      BY <2>1, <2>2 DEF TakenOnce, Taking
    <2>5. QED
      BY <1>b, <2>2, <2>3, <2>4
  <1>2. ASSUME NEW w \in Workers, NEW run \in Runs, RecoverCompletion(w, run) PROVE Goal
    <2>1. spent.overlaps = 0 /\ w \in Active
      BY <1>2, <1>0 DEF RecoverCompletion, At, Active, ToRecover
    <2>2. /\ \A v \in Workers \ {w} : workers'[v] = workers[v] /\ workers[v].pc = "idle"
          /\ AloneAt(w) /\ TakenOnce
      BY <1>2, <1>0, <1>a, <2>1 DEF RecoverCompletion, At, ToRecover, Active, At
    <2>3. AloneAt(w)'
      BY <1>2, <1>0, <2>2
         DEF RecoverCompletion, At, ToRecover, AloneAt, Taking, RowRecord, WorkerRecord
    <2>4. TakenOnce'
      BY <1>2, <1>0, <2>2
         DEF RecoverCompletion, At, ToRecover, AloneAt, Taking, TakenOnce, RowRecord,
             WorkerRecord
    <2>5. QED
      BY <1>b, <2>2, <2>3, <2>4
  <1>3. ASSUME NEW w \in Workers, NEW run \in Runs, RecoverEmail(w, run) PROVE Goal
    <2>1. spent.overlaps = 0 /\ w \in Active
      BY <1>3, <1>0 DEF RecoverEmail, At, Active, ToRecover
    <2>2. /\ \A v \in Workers \ {w} : workers'[v] = workers[v] /\ workers[v].pc = "idle"
          /\ AloneAt(w) /\ TakenOnce
      BY <1>3, <1>0, <1>a, <2>1 DEF RecoverEmail, At, ToRecover, Active, At
    <2>3. AloneAt(w)'
      BY <1>3, <1>0, <2>2 DEF RecoverEmail, At, ToRecover, AloneAt, Taking, RowRecord, WorkerRecord
    <2>4. TakenOnce'
      BY <1>3, <1>0, <2>2
         DEF RecoverEmail, At, ToRecover, AloneAt, Taking, TakenOnce, RowRecord, WorkerRecord
    <2>5. QED
      BY <1>b, <2>2, <2>3, <2>4
  <1>4. ASSUME NEW w \in Workers, NEW run \in Runs, RecoverMissing(w, run) PROVE Goal
    <2>1. spent.overlaps = 0 /\ w \in Active
      BY <1>4, <1>0 DEF RecoverMissing, At, Active, ToRecover
    <2>2. /\ \A v \in Workers \ {w} : workers'[v] = workers[v] /\ workers[v].pc = "idle"
          /\ AloneAt(w) /\ TakenOnce
      BY <1>4, <1>0, <1>a, <2>1 DEF RecoverMissing, At, ToRecover, Active, At
    <2>3. AloneAt(w)'
      BY <1>4, <1>0, <2>2
         DEF RecoverMissing, At, ToRecover, MarkFailed, AloneAt, Taking, RowRecord, WorkerRecord
    <2>4. TakenOnce'
      BY <1>4, <1>0, <2>2
         DEF RecoverMissing, At, ToRecover, MarkFailed, AloneAt, Taking, TakenOnce, RowRecord,
             WorkerRecord
    <2>5. QED
      BY <1>b, <2>2, <2>3, <2>4
  <1>5. ASSUME NEW w \in Workers, EndRecovery(w) PROVE Goal
    <2>1. /\ spent.overlaps = 0 /\ w \in Active /\ rows' = rows /\ workers[w].todo = {}
          /\ workers[w].pc = "recover"
      BY <1>5, <1>0 DEF EndRecovery, Active, At
    <2>2. /\ \A v \in Workers \ {w} : workers'[v] = workers[v] /\ workers[v].pc = "idle"
          /\ TakenOnce
      BY <1>5, <1>0, <1>a, <2>1 DEF EndRecovery, GoTo, Exit, Active, At
    <2>3. workers'[w].pc \in {"idle", "filter"} /\ workers'[w].todo = {}
      BY <1>5, <1>0, <2>1 DEF EndRecovery, GoTo, Exit, IdleWorker, WorkerRecord
    <2>4. AloneAt(w)' /\ TakenOnce'
      BY <2>1, <2>2, <2>3 DEF AloneAt, TakenOnce, Taking
    <2>5. QED
      BY <1>b, <2>2, <2>4
  <1>6. ASSUME NEW w \in Workers, ReadCompleted(w) PROVE Goal
    <2>1. spent.overlaps = 0 /\ w \in Active
      BY <1>6, <1>0 DEF ReadCompleted, At, Active
    <2>2. /\ \A v \in Workers \ {w} : workers'[v] = workers[v] /\ workers[v].pc = "idle"
          /\ AloneAt(w) /\ TakenOnce
      BY <1>6, <1>0, <1>a, <2>1 DEF ReadCompleted, At, Active, At
    <2>3. AloneAt(w)'
      BY <1>6, <1>0, <2>2 DEF ReadCompleted, At, AloneAt, Taking, RowRecord, WorkerRecord
    <2>4. TakenOnce'
      BY <1>6, <1>0, <2>2 DEF ReadCompleted, At, AloneAt, Taking, TakenOnce, RowRecord, WorkerRecord
    <2>5. QED
      BY <1>b, <2>2, <2>3, <2>4
  <1>7. ASSUME NEW w \in Workers, Select(w) PROVE Goal
    <2>1. spent.overlaps = 0 /\ w \in Active
      BY <1>7, <1>0 DEF Select, At, Active
    <2>2. /\ \A v \in Workers \ {w} : workers'[v] = workers[v] /\ workers[v].pc = "idle"
          /\ AloneAt(w) /\ TakenOnce
      BY <1>7, <1>0, <1>a, <2>1 DEF Select, At, Active, At
    <2>3. AloneAt(w)'
      BY <1>7, <1>0, <2>2 DEF Select, At, AloneAt, Taking, RowRecord, WorkerRecord
    <2>4. TakenOnce'
      BY <1>7, <1>0, <2>2 DEF Select, At, AloneAt, Taking, TakenOnce, RowRecord, WorkerRecord
    <2>5. QED
      BY <1>b, <2>2, <2>3, <2>4
  <1>8. ASSUME NEW w \in Workers, NothingToExport(w) PROVE Goal
    <2>1. spent.overlaps = 0 /\ w \in Active
      BY <1>8, <1>0 DEF NothingToExport, At, Active
    <2>2. /\ \A v \in Workers \ {w} : workers'[v] = workers[v] /\ workers[v].pc = "idle"
          /\ AloneAt(w) /\ TakenOnce
      BY <1>8, <1>0, <1>a, <2>1 DEF NothingToExport, Exit, IdleWorker, At, Active, At
    <2>3. AloneAt(w)'
      BY <1>8, <1>0, <2>2
         DEF NothingToExport, Exit, IdleWorker, At, AloneAt, Taking, RowRecord, WorkerRecord
    <2>4. TakenOnce'
      BY <1>8, <1>0, <2>2
         DEF NothingToExport, Exit, IdleWorker, At, AloneAt, Taking, TakenOnce, RowRecord,
             WorkerRecord
    <2>5. QED
      BY <1>b, <2>2, <2>3, <2>4
  <1>9. ASSUME NEW w \in Workers, InsertPending(w) PROVE Goal
    <2>1. spent.overlaps = 0 /\ w \in Active
      BY <1>9, <1>0 DEF InsertPending, At, Active
    <2>2. /\ \A v \in Workers \ {w} : workers'[v] = workers[v] /\ workers[v].pc = "idle"
          /\ AloneAt(w) /\ TakenOnce
      BY <1>9, <1>0, <1>a, <2>1 DEF InsertPending, GoTo, At, Active, At
    <2> DEFINE run == workers[w].run
    <2>a. /\ workers[w].pc = "reserve" /\ run \in Runs
          /\ \A r \in Runs \ {run} : rows'[r] = rows[r]
          /\ rows'[run].status = "pending" /\ rows'[run].biblios = workers[w].biblios
      BY <1>9, <1>0 DEF InsertPending, At
    <2>b. /\ workers'[w].pc = "mark_xlsx" /\ workers'[w].run = run
          /\ workers'[w].todo = workers[w].todo /\ workers'[w].biblios = workers[w].biblios
      BY <1>9, <1>0 DEF InsertPending, GoTo, WorkerRecord
    <2>3. AloneAt(w)'
      BY <1>0, <2>2, <2>a, <2>b DEF AloneAt, Taking, Staged
    <2>4. TakenOnce'
      BY <1>9, <1>0, <2>2
         DEF InsertPending, GoTo, At, AloneAt, Taking, TakenOnce, RowRecord, WorkerRecord
    <2>5. QED
      BY <1>b, <2>2, <2>3, <2>4
  <1>10. ASSUME NEW w \in Workers, MarkXlsxGenerated(w) PROVE Goal
    <2>1. spent.overlaps = 0 /\ w \in Active
      BY <1>10, <1>0 DEF MarkXlsxGenerated, At, Active
    <2>2. /\ \A v \in Workers \ {w} : workers'[v] = workers[v] /\ workers[v].pc = "idle"
          /\ AloneAt(w) /\ TakenOnce
      BY <1>10, <1>0, <1>a, <2>1 DEF MarkXlsxGenerated, GoTo, At, Active, At
    <2>3. AloneAt(w)'
      BY <1>10, <1>0, <2>2
         DEF MarkXlsxGenerated, GoTo, At, Move, AloneAt, Taking, RowRecord, WorkerRecord
    <2>4. TakenOnce'
      BY <1>10, <1>0, <2>2
         DEF MarkXlsxGenerated, GoTo, At, Move, AloneAt, Taking, TakenOnce, RowRecord,
             WorkerRecord
    <2>5. QED
      BY <1>b, <2>2, <2>3, <2>4
  <1>11. ASSUME NEW w \in Workers, CopyToMount(w) PROVE Goal
    <2>1. spent.overlaps = 0 /\ w \in Active
      BY <1>11, <1>0 DEF CopyToMount, At, Active
    <2>2. /\ \A v \in Workers \ {w} : workers'[v] = workers[v] /\ workers[v].pc = "idle"
          /\ AloneAt(w) /\ TakenOnce
      BY <1>11, <1>0, <1>a, <2>1 DEF CopyToMount, GoTo, At, Active, At
    <2>3. AloneAt(w)'
      BY <1>11, <1>0, <2>2 DEF CopyToMount, GoTo, At, AloneAt, Taking, RowRecord, WorkerRecord
    <2>4. TakenOnce'
      BY <1>11, <1>0, <2>2
         DEF CopyToMount, GoTo, At, AloneAt, Taking, TakenOnce, RowRecord, WorkerRecord
    <2>5. QED
      BY <1>b, <2>2, <2>3, <2>4
  <1>12. ASSUME NEW w \in Workers, MarkGdriveUploaded(w) PROVE Goal
    <2>1. spent.overlaps = 0 /\ w \in Active
      BY <1>12, <1>0 DEF MarkGdriveUploaded, At, Active
    <2>2. /\ \A v \in Workers \ {w} : workers'[v] = workers[v] /\ workers[v].pc = "idle"
          /\ AloneAt(w) /\ TakenOnce
      BY <1>12, <1>0, <1>a, <2>1 DEF MarkGdriveUploaded, GoTo, At, Active, At
    <2>3. AloneAt(w)'
      BY <1>12, <1>0, <2>2
         DEF MarkGdriveUploaded, GoTo, At, Move, AloneAt, Taking, RowRecord, WorkerRecord
    <2>4. \A r \in Runs : rows'[r].biblios = rows[r].biblios /\ (Taking(r)' => Taking(r))
      BY <1>12, <1>0 DEF MarkGdriveUploaded, Move, At, Taking, Staged, RowRecord
    <2>5. TakenOnce'
      BY <2>2, <2>4 DEF TakenOnce
    <2>6. QED
      BY <1>b, <2>2, <2>3, <2>5
  <1>13. ASSUME NEW w \in Workers, SendEmail(w) PROVE Goal
    <2>1. spent.overlaps = 0 /\ w \in Active
      BY <1>13, <1>0 DEF SendEmail, At, Active
    <2>2. /\ \A v \in Workers \ {w} : workers'[v] = workers[v] /\ workers[v].pc = "idle"
          /\ AloneAt(w) /\ TakenOnce
      BY <1>13, <1>0, <1>a, <2>1 DEF SendEmail, GoTo, At, Active, At
    <2>3. AloneAt(w)'
      BY <1>13, <1>0, <2>2 DEF SendEmail, GoTo, At, AloneAt, Taking, RowRecord, WorkerRecord
    <2>4. TakenOnce'
      BY <1>13, <1>0, <2>2
         DEF SendEmail, GoTo, At, AloneAt, Taking, TakenOnce, RowRecord, WorkerRecord
    <2>5. QED
      BY <1>b, <2>2, <2>3, <2>4
  <1>14. ASSUME NEW w \in Workers, MarkEmailSent(w) PROVE Goal
    <2>1. spent.overlaps = 0 /\ w \in Active
      BY <1>14, <1>0 DEF MarkEmailSent, At, Active
    <2>2. /\ \A v \in Workers \ {w} : workers'[v] = workers[v] /\ workers[v].pc = "idle"
          /\ AloneAt(w) /\ TakenOnce
      BY <1>14, <1>0, <1>a, <2>1 DEF MarkEmailSent, GoTo, At, Active, At
    <2>3. AloneAt(w)'
      BY <1>14, <1>0, <2>2
         DEF MarkEmailSent, GoTo, At, Move, AloneAt, Taking, RowRecord, WorkerRecord
    <2>4. \A r \in Runs : rows'[r].biblios = rows[r].biblios /\ (Taking(r)' => Taking(r))
      BY <1>14, <1>0 DEF MarkEmailSent, Move, At, Taking, Staged, RowRecord
    <2>5. TakenOnce'
      BY <2>2, <2>4 DEF TakenOnce
    <2>6. QED
      BY <1>b, <2>2, <2>3, <2>5
  <1>15. ASSUME NEW w \in Workers, MarkCompleted(w) PROVE Goal
    <2>1. spent.overlaps = 0 /\ w \in Active
      BY <1>15, <1>0 DEF MarkCompleted, At, Active
    <2>2. /\ \A v \in Workers \ {w} : workers'[v] = workers[v] /\ workers[v].pc = "idle"
          /\ AloneAt(w) /\ TakenOnce
      BY <1>15, <1>0, <1>a, <2>1 DEF MarkCompleted, At, IdleWorker, Active, At
    <2>3. AloneAt(w)'
      BY <1>15, <1>0, <2>2
         DEF MarkCompleted, At, IdleWorker, Move, AloneAt, Taking, RowRecord, WorkerRecord
    <2>4. \A r \in Runs : rows'[r].biblios = rows[r].biblios /\ (Taking(r)' => Taking(r))
      BY <1>15, <1>0 DEF MarkCompleted, Move, At, Taking, Staged, RowRecord
    <2>5. TakenOnce'
      BY <2>2, <2>4 DEF TakenOnce
    <2>6. QED
      BY <1>b, <2>2, <2>3, <2>5
  <1>16. ASSUME NEW w \in Workers, CompletionRefused(w) PROVE Goal
    <2>1. spent.overlaps = 0 /\ w \in Active
      BY <1>16, <1>0 DEF CompletionRefused, At, Active
    <2>2. /\ \A v \in Workers \ {w} : workers'[v] = workers[v] /\ workers[v].pc = "idle"
          /\ AloneAt(w) /\ TakenOnce
      BY <1>16, <1>0, <1>a, <2>1 DEF CompletionRefused, Exit, IdleWorker, At, Active, At
    <2>3. AloneAt(w)'
      BY <1>16, <1>0, <2>2
         DEF CompletionRefused, Exit, IdleWorker, At, AloneAt, Taking, RowRecord, WorkerRecord
    <2>4. TakenOnce'
      BY <1>16, <1>0, <2>2
         DEF CompletionRefused, Exit, IdleWorker, At, AloneAt, Taking, TakenOnce, RowRecord,
             WorkerRecord
    <2>5. QED
      BY <1>b, <2>2, <2>3, <2>4
  <1>17. ASSUME NEW w \in Workers, Fail(w) PROVE Goal
    <2>1. spent.overlaps = 0 /\ w \in Active
      BY <1>17, <1>0 DEF Fail, Fault
    <2>2. /\ \A v \in Workers \ {w} : workers'[v] = workers[v] /\ workers[v].pc = "idle"
          /\ AloneAt(w) /\ TakenOnce
      BY <1>17, <1>0, <1>a, <2>1 DEF Fail, Exit, IdleWorker, Active, At
    <2>3. AloneAt(w)'
      BY <1>17, <1>0, <2>2
         DEF Fail, Exit, IdleWorker, MarkFailed, FailsRun, AloneAt, Taking, RowRecord,
             WorkerRecord
    <2>4. TakenOnce'
      BY <1>17, <1>0, <2>2
         DEF Fail, Exit, IdleWorker, MarkFailed, FailsRun, AloneAt, Taking, TakenOnce,
             RowRecord, WorkerRecord
    <2>5. QED
      BY <1>b, <2>2, <2>3, <2>4
  <1>18. ASSUME NEW w \in Workers, Kill(w) PROVE Goal
    <2>1. spent.overlaps = 0 /\ w \in Active
      BY <1>18, <1>0 DEF Kill, Fault
    <2>2. /\ \A v \in Workers \ {w} : workers'[v] = workers[v] /\ workers[v].pc = "idle"
          /\ AloneAt(w) /\ TakenOnce
      BY <1>18, <1>0, <1>a, <2>1 DEF Kill, Exit, IdleWorker, Active, At
    <2>3. AloneAt(w)'
      BY <1>18, <1>0, <2>2 DEF Kill, Exit, IdleWorker, AloneAt, Taking, RowRecord, WorkerRecord
    <2>4. TakenOnce'
      BY <1>18, <1>0, <2>2
         DEF Kill, Exit, IdleWorker, AloneAt, Taking, TakenOnce, RowRecord, WorkerRecord
    <2>5. QED
      BY <1>b, <2>2, <2>3, <2>4
  <1>19. ASSUME NEW run \in Runs, RemoveSpreadsheet(run) PROVE Goal
    <2>1. spent.overlaps = 0 /\ UNCHANGED <<rows, workers>>
      BY <1>19, <1>0 DEF RemoveSpreadsheet, Fault
    <2>2. QED
      BY <1>a, <2>1 DEF AloneAt, TakenOnce, Taking, Active, At, BibliosIn, RunsIn
  <1>20. ASSUME NEW run \in Runs, ResetStuckPending(run) PROVE Goal
    <2>1. /\ spent.overlaps = 0 /\ workers' = workers
          /\ rows[run].status = "pending" /\ \A v \in Workers : workers[v].run # run
          /\ \A r \in Runs \ {run} : rows'[r] = rows[r]
          /\ rows'[run].status = "failed"
      BY <1>20, <1>0 DEF ResetStuckPending, MarkFailed, RowRecord
    <2>2. QED
      BY <1>0, <1>a, <2>1 DEF AloneAt, TakenOnce, Taking, Active, At, BibliosIn, RunsIn, Staged
  <1>21. CASE UNCHANGED vars
    BY <1>21, <1>a DEF vars, AloneAt, TakenOnce, Taking, Active, At, BibliosIn, RunsIn
  <1>22. QED
    BY <1>1, <1>2, <1>3, <1>4, <1>5, <1>6, <1>7, <1>8, <1>9, <1>10, <1>11, <1>12, <1>13, <1>14,
       <1>15, <1>16, <1>17, <1>18, <1>19, <1>20, <1>21
       DEF Next, Recover, Filter, Export

\* A step that sends no e-mail keeps the account, if a fault pays for each
\* biblio that may be e-mailed again.
LEMMA QuietBiblio ==
  ASSUME BiblioInv, spent.faults \in Nat, spent'.faults \in Nat, spent'.faults >= spent.faults,
         \A r \in Runs : emails'[r] = emails[r],
         \A r \in Runs : rows'[r].biblios = rows[r].biblios \/ (emails[r] = 0 /\ rows[r].biblios = {}),
         spent'.overlaps = 0 =>
           /\ spent.overlaps = 0
           /\ \A b \in Biblios : Live(b)' => Live(b) \/ spent'.faults > spent.faults
  PROVE  BiblioInv'
  <1> SUFFICES ASSUME NEW b \in Biblios
               PROVE  /\ IsFiniteSet(EmailsOf(b)')
                      /\ spent'.overlaps = 0 =>
                           /\ Cardinality(EmailsOf(b)') <= 1 + spent'.faults
                           /\ Live(b)' => Cardinality(EmailsOf(b)') <= spent'.faults
    BY DEF BiblioInv
  <1>1. EmailsOf(b)' = EmailsOf(b)
    <2>1. \A r \in Runs : emails[r] = 0 => 1..emails[r] = {}
      OBVIOUS
    <2>2. \A e : e \in EmailsOf(b) <=>
            \E r \in Runs : b \in rows[r].biblios /\ e \in {r} \X (1..emails[r])
      BY DEF EmailsOf
    <2>3. \A e : e \in EmailsOf(b)' <=>
            \E r \in Runs : b \in rows'[r].biblios /\ e \in {r} \X (1..emails'[r])
      BY DEF EmailsOf
    <2>4. \A r \in Runs : \A e : b \in rows'[r].biblios /\ e \in {r} \X (1..emails'[r])
            <=> b \in rows[r].biblios /\ e \in {r} \X (1..emails[r])
      BY <2>1
    <2>5. QED
      BY <2>2, <2>3, <2>4
  <1>2. IsFiniteSet(EmailsOf(b)) /\ Cardinality(EmailsOf(b)) \in Nat
    BY FS_CardinalityType DEF BiblioInv
  <1>3. QED
    BY <1>1, <1>2 DEF BiblioInv

\* A run that nobody is marking as sent is not.
LEMMA SentByNobody ==
  ASSUME NEW w \in Workers, workers[w].pc # "mark_sent", NEW r \in Runs,
         \A v \in Workers \ {w} : workers[v].pc = "idle"
  PROVE  ~Sent(r)
  BY DEF Sent

\* Without an overlap, a biblio that was e-mailed becomes exportable by a fault only.
LEMMA BiblioKept ==
  ASSUME ExportInv, HandInv, AloneInv, BiblioInv, [Next]_vars PROVE BiblioInv'
  <1> USE ExportAssumptions DEF HasRun
  <1>0. /\ rows \in [Runs -> RowRecord] /\ emails \in [Runs -> Nat]
        /\ workers \in [Workers -> WorkerRecord]
        /\ spent \in [faults : Nat, overlaps : Nat]
        /\ spent.faults \in Nat /\ spent.overlaps \in Nat
        /\ \A w \in Workers : workers[w].pc \in HasRun => workers[w].run \in Runs
        /\ \A w \in Workers : workers[w].pc = "reserve" => rows[workers[w].run].status = "none"
        /\ \A w \in Workers : workers[w].pc \notin HasRun => workers[w].run = NoRun
        /\ \A r \in Runs : rows[r].status = "none" => emails[r] = 0 /\ rows[r].biblios = {}
    BY DEF ExportInv, TypeOK, RowRecord, WorkerRecord, WorkerInv, FreshInv, HandInv
  <1>a. ASSUME NEW w \in Active, spent.overlaps = 0
        PROVE  /\ \A v \in Workers \ {w} : workers[v].pc = "idle"
               /\ AloneAt(w) /\ TakenOnce
    BY <1>a DEF AloneInv, Active, At
  <1>b. ASSUME UNCHANGED <<rows, emails, spent>>, \A r \in Runs : Sent(r)' = Sent(r)
        PROVE  BiblioInv'
    <2>1. \A b \in Biblios : Live(b)' = Live(b)
      BY <1>b DEF Live, Unsent, Taking
    <2>2. QED
      BY <1>0, <1>b, <2>1, QuietBiblio
  <1>c. ASSUME emails' = emails, spent'.faults = spent.faults + 1, spent'.overlaps = spent.overlaps,
               \A r \in Runs : rows'[r].biblios = rows[r].biblios
        PROVE  BiblioInv'
    BY <1>0, <1>c, QuietBiblio
  <1>1. ASSUME NEW w \in Workers, Start(w) PROVE BiblioInv'
    <2>1. \A r \in Runs : Sent(r)' = Sent(r)
      BY <1>1, <1>0 DEF Start, At, IdleWorker, Sent
    <2>2. \A b \in Biblios : Live(b)' = Live(b)
      BY <1>1, <2>1 DEF Start, Live, Unsent, Taking
    <2>3. /\ spent'.faults = spent.faults /\ spent'.overlaps >= spent.overlaps
          /\ rows' = rows /\ emails' = emails /\ spent'.overlaps \in Nat
      BY <1>1, <1>0 DEF Start
    <2>4. QED
      BY <1>0, <2>2, <2>3, QuietBiblio
  <1>2. ASSUME NEW w \in Workers, NEW run \in Runs, RecoverCompletion(w, run) PROVE BiblioInv'
    <2>1. UNCHANGED <<rows, emails, spent>>
      BY <1>2 DEF RecoverCompletion
    <2>2. \A r \in Runs : Sent(r)' = Sent(r)
      BY <1>2, <1>0 DEF RecoverCompletion, At, ToRecover, Sent, WorkerRecord
    <2>3. QED
      BY <2>1, <2>2, <1>b
  <1>3. ASSUME NEW w \in Workers, NEW run \in Runs, RecoverEmail(w, run) PROVE BiblioInv'
    <2>1. UNCHANGED <<rows, emails, spent>>
      BY <1>3 DEF RecoverEmail
    <2>2. \A r \in Runs : Sent(r)' = Sent(r)
      BY <1>3, <1>0 DEF RecoverEmail, At, ToRecover, Sent, WorkerRecord
    <2>3. QED
      BY <2>1, <2>2, <1>b
  <1>4. ASSUME NEW w \in Workers, NEW run \in Runs, RecoverMissing(w, run) PROVE BiblioInv'
    <2>1. /\ w \in Active /\ emails' = emails /\ spent' = spent /\ workers[w].pc = "recover"
          /\ workers[w].run = NoRun
          /\ \E s \in {"gdrive_uploaded", "xlsx_generated"} : <<run, s>> \in workers[w].todo
          /\ MarkFailed(run)
      BY <1>4, <1>0 DEF RecoverMissing, ToRecover, Active, At
    <2>2. /\ \A r \in Runs : rows'[r].biblios = rows[r].biblios
          /\ \A r \in Runs \ {run} : rows'[r] = rows[r]
      BY <1>0, <2>1 DEF MarkFailed, RowRecord
    <2>3. ASSUME spent.overlaps = 0, NEW b \in Biblios, Live(b)' PROVE Live(b)
      <3>1. /\ \A r \in Runs : ~Sent(r)
            /\ rows[run].status \in {"gdrive_uploaded", "xlsx_generated"}
        BY <1>a, <2>1, <2>3, SentByNobody DEF AloneAt, Active
      <3>2. CASE b \in rows[run].biblios
        BY <3>1, <3>2 DEF Live, Unsent
      <3>3. CASE b \notin rows[run].biblios
        BY <2>2, <2>3, <3>1, <3>3 DEF Live, Unsent, Taking
      <3>4. QED
        BY <3>2, <3>3
    <2>4. QED
      BY <1>0, <2>1, <2>2, <2>3, QuietBiblio
  <1>5. ASSUME NEW w \in Workers, EndRecovery(w) PROVE BiblioInv'
    <2>1. UNCHANGED <<rows, emails, spent>>
      BY <1>5 DEF EndRecovery
    <2>2. \A r \in Runs : Sent(r)' = Sent(r)
      BY <1>5, <1>0 DEF EndRecovery, GoTo, Exit, IdleWorker, At, Sent, WorkerRecord
    <2>3. QED
      BY <2>1, <2>2, <1>b
  <1>6. ASSUME NEW w \in Workers, ReadCompleted(w) PROVE BiblioInv'
    <2>1. UNCHANGED <<rows, emails, spent>>
      BY <1>6 DEF ReadCompleted
    <2>2. \A r \in Runs : Sent(r)' = Sent(r)
      BY <1>6, <1>0 DEF ReadCompleted, At, Sent, WorkerRecord
    <2>3. QED
      BY <2>1, <2>2, <1>b
  <1>7. ASSUME NEW w \in Workers, Select(w) PROVE BiblioInv'
    <2>1. UNCHANGED <<rows, emails, spent>>
      BY <1>7 DEF Select
    <2>2. \A r \in Runs : Sent(r)' = Sent(r)
      BY <1>7, <1>0 DEF Select, At, Sent, WorkerRecord
    <2>3. QED
      BY <2>1, <2>2, <1>b
  <1>8. ASSUME NEW w \in Workers, NothingToExport(w) PROVE BiblioInv'
    <2>1. UNCHANGED <<rows, emails, spent>>
      BY <1>8 DEF NothingToExport
    <2>2. \A r \in Runs : Sent(r)' = Sent(r)
      BY <1>8, <1>0 DEF NothingToExport, Exit, IdleWorker, At, Sent, WorkerRecord
    <2>3. QED
      BY <2>1, <2>2, <1>b
  <1>9. ASSUME NEW w \in Workers, InsertPending(w) PROVE BiblioInv'
    <2> DEFINE run == workers[w].run
    <2>1. /\ w \in Active /\ emails' = emails /\ spent' = spent /\ workers[w].pc = "reserve"
          /\ run \in Runs /\ rows[run].status = "none"
          /\ \A r \in Runs \ {run} : rows'[r] = rows[r]
          /\ rows'[run].status = "pending" /\ rows'[run].biblios = workers[w].biblios
      BY <1>9, <1>0 DEF InsertPending, Active, At
    <2>2. \A r \in Runs : Sent(r)' = Sent(r)
      BY <1>9, <1>0 DEF InsertPending, GoTo, At, Sent, WorkerRecord
    <2>3. ASSUME spent.overlaps = 0, NEW b \in Biblios, Live(b)' PROVE Live(b)
      <3>1. CASE b \in workers[w].biblios
        BY <1>a, <2>1, <2>3, <3>1 DEF AloneAt, Live
      <3>2. CASE b \notin workers[w].biblios
        BY <1>0, <2>1, <2>2, <2>3, <3>2 DEF Live, Unsent, Taking, Staged
      <3>3. QED
        BY <3>1, <3>2
    <2>4. QED
      BY <1>0, <2>1, <2>3, QuietBiblio
  <1>10. ASSUME NEW w \in Workers, MarkXlsxGenerated(w) PROVE BiblioInv'
    <2> DEFINE run == workers[w].run
    <2>1. /\ w \in Active /\ emails' = emails /\ spent' = spent /\ workers[w].pc = "mark_xlsx"
          /\ run \in Runs
          /\ \A r \in Runs \ {run} : rows'[r] = rows[r]
          /\ \A r \in Runs : rows'[r].biblios = rows[r].biblios
      BY <1>10, <1>0 DEF MarkXlsxGenerated, Move, Active, At, RowRecord
    <2>2. \A r \in Runs : Sent(r)' = Sent(r)
      BY <1>10, <1>0 DEF MarkXlsxGenerated, GoTo, At, Sent, WorkerRecord
    <2>3. ASSUME spent.overlaps = 0, NEW b \in Biblios, Live(b)' PROVE Live(b)
      <3>1. CASE b \in rows[run].biblios
        BY <1>a, <2>1, <2>3, <3>1 DEF AloneAt, Live
      <3>2. CASE b \notin rows[run].biblios
        BY <2>1, <2>2, <2>3, <3>2 DEF Live, Unsent, Taking
      <3>3. QED
        BY <3>1, <3>2
    <2>4. QED
      BY <1>0, <2>1, <2>3, QuietBiblio
  <1>11. ASSUME NEW w \in Workers, CopyToMount(w) PROVE BiblioInv'
    <2>1. UNCHANGED <<rows, emails, spent>>
      BY <1>11 DEF CopyToMount
    <2>2. \A r \in Runs : Sent(r)' = Sent(r)
      BY <1>11, <1>0 DEF CopyToMount, GoTo, At, Sent, WorkerRecord
    <2>3. QED
      BY <2>1, <2>2, <1>b
  <1>12. ASSUME NEW w \in Workers, MarkGdriveUploaded(w) PROVE BiblioInv'
    <2> DEFINE run == workers[w].run
    <2>1. /\ w \in Active /\ emails' = emails /\ spent' = spent /\ workers[w].pc = "mark_uploaded"
          /\ run \in Runs
          /\ \A r \in Runs \ {run} : rows'[r] = rows[r]
          /\ \A r \in Runs : rows'[r].biblios = rows[r].biblios
      BY <1>12, <1>0 DEF MarkGdriveUploaded, Move, Active, At, RowRecord
    <2>2. \A r \in Runs : Sent(r)' = Sent(r)
      BY <1>12, <1>0 DEF MarkGdriveUploaded, GoTo, At, Sent, WorkerRecord
    <2>3. ASSUME spent.overlaps = 0, NEW b \in Biblios, Live(b)' PROVE Live(b)
      <3>1. CASE b \in rows[run].biblios
        BY <1>a, <2>1, <2>3, <3>1 DEF AloneAt, Live
      <3>2. CASE b \notin rows[run].biblios
        BY <2>1, <2>2, <2>3, <3>2 DEF Live, Unsent, Taking
      <3>3. QED
        BY <3>1, <3>2
    <2>4. QED
      BY <1>0, <2>1, <2>3, QuietBiblio
  <1>13. ASSUME NEW w \in Workers, SendEmail(w) PROVE BiblioInv'
    <2> DEFINE run == workers[w].run
               n   == emails[run] + 1
    <2>1. /\ w \in Active /\ rows' = rows /\ spent' = spent /\ workers[w].pc = "email"
          /\ run \in Runs /\ emails[run] \in Nat /\ emails' = [emails EXCEPT ![run] = n]
          /\ workers' = [workers EXCEPT ![w].pc = "mark_sent"]
      BY <1>13, <1>0 DEF SendEmail, GoTo, Active, At
    <2>2. /\ \A r \in {run} : Sent(r)'
          /\ \A r \in Runs \ {run} : Sent(r)' = Sent(r)
      BY <1>0, <2>1 DEF Sent, WorkerRecord
    <2>3. ASSUME NEW b \in Biblios
          PROVE  /\ b \in rows[run].biblios => EmailsOf(b)' = EmailsOf(b) \cup {<<run, n>>}
                 /\ b \notin rows[run].biblios => EmailsOf(b)' = EmailsOf(b)
                 /\ <<run, n>> \notin EmailsOf(b)
      <3>1. /\ emails'[run] = n /\ 1..n = (1..emails[run]) \cup {n} /\ n \notin 1..emails[run]
            /\ \A r \in Runs \ {run} : emails'[r] = emails[r]
        <4>1. \A k \in Nat : 1..(k + 1) = (1..k) \cup {k + 1} /\ k + 1 \notin 1..k
          OBVIOUS
        <4>2. emails'[run] = n /\ \A r \in Runs \ {run} : emails'[r] = emails[r]
          BY <1>0, <2>1
        <4>3. QED
          BY <2>1, <4>1, <4>2
      <3>2. \A e : e \in EmailsOf(b) <=>
              \E r \in Runs : b \in rows[r].biblios /\ e \in {r} \X (1..emails[r])
        BY DEF EmailsOf
      <3>3. \A e : e \in EmailsOf(b)' <=>
              \E r \in Runs : b \in rows[r].biblios /\ e \in {r} \X (1..emails'[r])
        BY <2>1 DEF EmailsOf
      <3> HIDE DEF n
      <3>4. \A r \in Runs : \A e : e \in {r} \X (1..emails'[r]) <=>
              e \in {r} \X (1..emails[r]) \/ (r = run /\ e = <<run, n>>)
        BY <2>1, <3>1
      <3>5. <<run, n>> \notin EmailsOf(b)
        BY <3>1, <3>2
      <3>6. QED
        BY <2>1, <3>2, <3>3, <3>4, <3>5
    <2>4. ASSUME spent.overlaps = 0, NEW b \in Biblios, b \in rows[run].biblios
          PROVE  Live(b) /\ ~Live(b)'
      <3>1. /\ rows[run].status = "gdrive_uploaded" /\ TakenOnce
            /\ \A r \in Runs : ~Sent(r)
        BY <1>a, <2>1, <2>4, SentByNobody DEF AloneAt, Active
      <3>2. Live(b)
        BY <2>1, <2>4, <3>1 DEF Live, Unsent
      <3>3. Taking(run)
        BY <3>1 DEF Taking, Staged
      <3>4. ASSUME NEW r \in Runs, b \in rows[r].biblios,
                   rows[r].status = "xlsx_generated" \/ Unsent(r)'
            PROVE  FALSE
        <4>1. Taking(r)
          BY <2>1, <3>4 DEF Taking, Staged, Unsent
        <4>2. r = run
          BY <2>1, <2>4, <3>1, <3>3, <3>4, <4>1 DEF TakenOnce
        <4>3. QED
          BY <2>2, <3>1, <3>4, <4>2 DEF Unsent
      <3>5. Taking(run)' /\ b \in rows'[run].biblios
        BY <2>1, <2>4, <3>3 DEF Taking
      <3>6. ~Live(b)'
        BY <2>1, <3>4, <3>5 DEF Live
      <3>7. QED
        BY <3>2, <3>6
    <2>5. ASSUME NEW b \in Biblios, b \notin rows[run].biblios PROVE Live(b)' => Live(b)
      BY <2>1, <2>2, <2>5 DEF Live, Unsent, Taking
    <2>6. ASSUME NEW b \in Biblios
          PROVE  /\ IsFiniteSet(EmailsOf(b)')
                 /\ spent.overlaps = 0 =>
                      /\ Cardinality(EmailsOf(b)') <= 1 + spent.faults
                      /\ Live(b)' => Cardinality(EmailsOf(b)') <= spent.faults
      <3>1. IsFiniteSet(EmailsOf(b)) /\ Cardinality(EmailsOf(b)) \in Nat
        BY FS_CardinalityType DEF BiblioInv
      <3>2. CASE b \in rows[run].biblios
        <4>1. /\ IsFiniteSet(EmailsOf(b)')
              /\ Cardinality(EmailsOf(b)') = Cardinality(EmailsOf(b)) + 1
          BY <2>3, <3>1, <3>2, FS_AddElement
        <4>2. QED
          BY <1>0, <2>4, <3>1, <3>2, <4>1 DEF BiblioInv
      <3>3. CASE b \notin rows[run].biblios
        BY <2>3, <2>5, <3>3 DEF BiblioInv
      <3>4. QED
        BY <3>2, <3>3
    <2>7. QED
      BY <2>1, <2>6 DEF BiblioInv
  <1>14. ASSUME NEW w \in Workers, MarkEmailSent(w) PROVE BiblioInv'
    <2> DEFINE run == workers[w].run
    <2>1. /\ emails' = emails /\ spent' = spent /\ workers[w].pc = "mark_sent" /\ run \in Runs
          /\ \A r \in Runs \ {run} : rows'[r] = rows[r]
          /\ \A r \in Runs : rows'[r].biblios = rows[r].biblios
          /\ rows'[run].status = IF rows[run].status = "gdrive_uploaded" THEN "email_sent"
                                                                         ELSE rows[run].status
      BY <1>14, <1>0 DEF MarkEmailSent, Move, At, RowRecord
    <2>2. \A r \in Runs \ {run} : Sent(r)' = Sent(r)
      BY <1>14, <1>0 DEF MarkEmailSent, GoTo, At, Sent, WorkerRecord
    <2>3. \A r \in Runs : /\ Taking(r)' = Taking(r)
                          /\ Unsent(r)' => Unsent(r)
                          /\ rows'[r].status = "xlsx_generated" => rows[r].status = "xlsx_generated"
      BY <2>1, <2>2 DEF Taking, Staged, Unsent
    <2>4. \A b \in Biblios : Live(b)' => Live(b)
      BY <2>1, <2>3 DEF Live
    <2>5. QED
      BY <1>0, <2>1, <2>4, QuietBiblio
  <1>15. ASSUME NEW w \in Workers, MarkCompleted(w) PROVE BiblioInv'
    <2> DEFINE run == workers[w].run
    <2>1. /\ emails' = emails /\ spent' = spent /\ workers[w].pc = "complete" /\ run \in Runs
          /\ \A r \in Runs \ {run} : rows'[r] = rows[r]
          /\ \A r \in Runs : rows'[r].biblios = rows[r].biblios
          /\ rows'[run].status = IF rows[run].status = "email_sent" THEN "completed"
                                                                    ELSE rows[run].status
      BY <1>15, <1>0 DEF MarkCompleted, Move, At, RowRecord
    <2>2. \A r \in Runs : Sent(r)' = Sent(r)
      BY <1>15, <1>0 DEF MarkCompleted, IdleWorker, At, Sent, WorkerRecord
    <2>3. \A r \in Runs : /\ Taking(r)' = Taking(r)
                          /\ Unsent(r)' => Unsent(r)
                          /\ rows'[r].status = "xlsx_generated" => rows[r].status = "xlsx_generated"
      BY <2>1, <2>2 DEF Taking, Staged, Unsent
    <2>4. \A b \in Biblios : Live(b)' => Live(b)
      BY <2>1, <2>3 DEF Live
    <2>5. QED
      BY <1>0, <2>1, <2>4, QuietBiblio
  <1>16. ASSUME NEW w \in Workers, CompletionRefused(w) PROVE BiblioInv'
    <2>1. UNCHANGED <<rows, emails, spent>>
      BY <1>16 DEF CompletionRefused
    <2>2. \A r \in Runs : Sent(r)' = Sent(r)
      BY <1>16, <1>0 DEF CompletionRefused, Exit, IdleWorker, At, Sent, WorkerRecord
    <2>3. QED
      BY <2>1, <2>2, <1>b
  <1>17. ASSUME NEW w \in Workers, Fail(w) PROVE BiblioInv'
    <2>1. \A r \in Runs : rows'[r].biblios = rows[r].biblios
      <3>1. CASE FailsRun(w)
        BY <1>17, <1>0, <3>1 DEF Fail, FailsRun, MarkFailed, RowRecord
      <3>2. CASE ~FailsRun(w)
        BY <1>17, <3>2 DEF Fail
      <3>3. QED
        BY <3>1, <3>2
    <2>2. QED
      BY <1>17, <1>0, <1>c, <2>1 DEF Fail, Fault
  <1>18. ASSUME NEW w \in Workers, Kill(w) PROVE BiblioInv'
    BY <1>18, <1>0, <1>c DEF Kill, Fault
  <1>19. ASSUME NEW run \in Runs, RemoveSpreadsheet(run) PROVE BiblioInv'
    BY <1>19, <1>0, <1>c DEF RemoveSpreadsheet, Fault
  <1>20. ASSUME NEW run \in Runs, ResetStuckPending(run) PROVE BiblioInv'
    <2>1. /\ workers' = workers /\ emails' = emails /\ spent' = spent
          /\ rows[run].status = "pending" /\ rows'[run].status = "failed"
          /\ \A r \in Runs \ {run} : rows'[r] = rows[r]
          /\ \A r \in Runs : rows'[r].biblios = rows[r].biblios
      BY <1>20, <1>0 DEF ResetStuckPending, MarkFailed, RowRecord
    <2>2. \A r \in Runs : /\ Taking(r)' = Taking(r)
                          /\ Unsent(r)' => Unsent(r)
                          /\ rows'[r].status = "xlsx_generated" => rows[r].status = "xlsx_generated"
      BY <2>1 DEF Taking, Staged, Unsent, Sent
    <2>3. \A b \in Biblios : Live(b)' => Live(b)
      BY <2>1, <2>2 DEF Live
    <2>4. QED
      BY <1>0, <2>1, <2>3, QuietBiblio
  <1>21. CASE UNCHANGED vars
    BY <1>21, <1>b DEF vars, Sent
  <1>22. QED
    BY <1>1, <1>2, <1>3, <1>4, <1>5, <1>6, <1>7, <1>8, <1>9, <1>10, <1>11, <1>12, <1>13, <1>14,
       <1>15, <1>16, <1>17, <1>18, <1>19, <1>20, <1>21
       DEF Next, Recover, Filter, Export

\* A biblio is e-mailed once, and once more for each fault at most, whichever runs
\* it is put into, as long as invocations do not overlap.
THEOREM BibliosEmailedOnce == Spec => []BiblioEmailedOncePerFault
  <1>1. Init => HandInv /\ AloneInv /\ BiblioInv
    <2> SUFFICES ASSUME Init PROVE HandInv /\ AloneInv /\ BiblioInv
      OBVIOUS
    <2>1. Active = {}
      BY DEF Init, Active, At, IdleWorker
    <2>2. HandInv
      BY <2>1, FS_EmptySet DEF Init, HandInv, NoRows, IdleWorker
    <2>3. AloneInv
      BY <2>1 DEF Init, AloneInv, AloneAt, TakenOnce, Taking, IdleWorker, NoRows, Staged
    <2>4. ASSUME NEW b \in Biblios PROVE EmailsOf(b) = {}
      BY DEF Init, EmailsOf, NoRows
    <2>5. spent.faults = 0
      BY DEF Init
    <2>6. QED
      BY <2>2, <2>3, <2>4, <2>5, FS_EmptySet DEF BiblioInv
  <1>2. ExportInv /\ HandInv /\ AloneInv /\ BiblioInv /\ [Next]_vars
          => HandInv' /\ AloneInv' /\ BiblioInv'
    BY HandKept, AloneKept, BiblioKept
  <1>3. BiblioInv => BiblioEmailedOncePerFault
    BY DEF BiblioInv, BiblioEmailedOncePerFault
  <1>4. QED
    BY <1>1, <1>2, <1>3, ExportInductive, PTL DEF Spec
=============================================================================
