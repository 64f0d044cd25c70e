---------------------------- MODULE OptimizerJobs ----------------------------
(***************************************************************************)
(* The optimisation of a PDF before its upload: the client in the          *)
(* integrator (core.py, services/pdf.py) and the optimizer service         *)
(* (optimizer_app.py, its services/pdf.py and janitor.py), which share two *)
(* directories and nothing else.  An attempt is one call of                *)
(* _prepare_pdf_for_upload and the upload that follows; its job_id is      *)
(* fresh, so an attempt also names its job, its input and its output file. *)
(***************************************************************************)
EXTENDS Integers, Sequences, FiniteSets

CONSTANTS
  Attempts,       \* calls of _prepare_pdf_for_upload
  RasterAttempts, \* those with a dpi, which asks for a raster
  Null,
  GsTimeout,      \* GS_TIMEOUT, in ticks
  PdfinfoTimeout, \* PDFINFO_TIMEOUT_SECONDS, in ticks
  ClientTimeout,  \* OPTIMIZER_TIMEOUT, in ticks
  UploadTime,     \* bound on an upload to DSpace, in ticks
  TTL,            \* TMP_TTL_SECONDS, in ticks
  Source,         \* PDFs that are offered: [mb, pages], with 0 pages if pdfinfo cannot tell
  MaxFaults       \* bound on lost answers, killed processes and restarts

ASSUME OptimizerAssumptions ==
  /\ RasterAttempts \subseteq Attempts
  /\ GsTimeout \in Nat \ {0} /\ PdfinfoTimeout \in Nat \ {0}
  /\ ClientTimeout \in Nat
  /\ UploadTime \in Nat
  /\ TTL \in Nat /\ TTL > PdfinfoTimeout + UploadTime
  /\ MaxFaults \in Nat

VARIABLES
  client,  \* per attempt: where _prepare_pdf_for_upload and the upload stand
  job,     \* per attempt: the future in the process pool
  queue,   \* futures waiting for the single worker of the pool
  known,   \* the jobs in the dictionary _jobs
  pool,    \* "ok", or "broken" after its worker process died
  loose,   \* Ghostscript processes that outlived the worker process
  input,   \* per attempt: age of the input file, or Null
  output,  \* per attempt: content and age of the output file, or Null
  faults

vars    == <<client, job, queue, known, pool, loose, input, output, faults>>
service == <<job, queue, known, pool, loose>>

\* "rejected" is an empty file, or one larger than the input.
Contents == {"part", "rejected", "fewer_pages", "good"}

\* None is none of the values it stands beside.
ASSUME NullIsNoValue ==
  /\ Null \notin {"original", "output"} /\ Null \notin Int
  /\ Null \notin [content : Contents, age : Int]

\* `waited` counts the ticks of the poll or of the upload, `queued` those of the poll
\* in which the job was still waiting for the worker.
NoClient == [pc |-> "idle", waited |-> 0, queued |-> 0, path |-> Null]
NoJob    == [state |-> "none", ran |-> 0]

Init ==
  /\ client = [a \in Attempts |-> NoClient]
  /\ job = [a \in Attempts |-> NoJob]
  /\ queue = <<>> /\ known = {} /\ pool = "ok" /\ loose = {}
  /\ input = [a \in Attempts |-> Null]
  /\ output = [a \in Attempts |-> Null]
  /\ faults = 0

Fault == faults < MaxFaults /\ faults' = faults + 1

-----------------------------------------------------------------------------
(* The client.                                                               *)

\* Large files, and files heavy for their number of pages.
NeedsOptimization(pdf) ==
  \/ pdf.mb > 100
  \/ pdf.mb > 50 /\ (pdf.pages = 0 \/ pdf.mb * 1024 > 500 * pdf.pages)

\* The reason of a fallback is telemetry.
Uploading(path) == [pc |-> "upload", waited |-> 0, queued |-> 0, path |-> path]

UploadOriginal(a) == client' = [client EXCEPT ![a] = Uploading("original")]

\* skip_optimization, the heuristic, the disk check and OPTIMIZER_URL each end
\* the attempt to optimise before anything is written.
Begin(a, pdf) ==
  /\ client[a].pc = "idle"
  /\ \/ UploadOriginal(a)
     \/ /\ NeedsOptimization(pdf)
        /\ client' = [client EXCEPT ![a].pc = "copy"]
  /\ UNCHANGED <<service, input, output, faults>>

\* copy2 keeps the modification time of the source; it may fail half way.
CopyInput(a, age) ==
  /\ client[a].pc = "copy"
  /\ input' = [input EXCEPT ![a] = age]
  /\ \/ client' = [client EXCEPT ![a].pc = "submit"]
     \/ UploadOriginal(a)
  /\ UNCHANGED <<service, output, faults>>

\* POST /optimize is answered; start_optimize and submit_job.  It is refused if the
\* input is gone, the disk is short or the pool is broken; the disk may always be.
Enqueue(a) ==
  /\ queue' = Append(queue, a)
  /\ known' = known \cup {a}
  /\ job' = [job EXCEPT ![a].state = "queued"]
  /\ UNCHANGED <<pool, loose>>

Submit(a) ==
  /\ client[a].pc = "submit"
  /\ \/ UploadOriginal(a) /\ UNCHANGED service
     \/ /\ input[a] # Null /\ pool = "ok"
        /\ Enqueue(a)
        /\ client' = [client EXCEPT ![a].pc = "poll"]
  /\ UNCHANGED <<input, output, faults>>

Content(a) == IF output[a] = Null THEN "missing" ELSE output[a].content

\* What the service checks of the output of a job that is done, and then the client.
Acceptable(a) == Content(a) \notin {"missing", "rejected"}

Finished(a) == job[a].state \in {"done", "timeout", "failed"}

\* Mutant: the status of a job is read off its output file.
PollDoneByFile(a) == output[a] # Null

PollDone(a) == job[a].state = "done" /\ Acceptable(a)

\* The loop looks at the clock, asks once, and looks at the clock again.
Poll(a) ==
  /\ client[a].pc = "poll" /\ client[a].waited < ClientTimeout
  /\ \/ a \notin known /\ UploadOriginal(a)
     \/ /\ a \in known /\ PollDone(a)
        /\ client' = [client EXCEPT ![a] = Uploading("output")]
     \/ a \in known /\ Finished(a) /\ ~PollDone(a) /\ UploadOriginal(a)
  /\ UNCHANGED <<service, input, output, faults>>

GiveUp(a) ==
  /\ client[a].pc = "poll" /\ client[a].waited >= ClientTimeout
  /\ UploadOriginal(a)
  /\ UNCHANGED <<service, input, output, faults>>

\* A connection error, a timeout of the request or an answer of 500 and more; the
\* service may have acted on the request.
AnswerLost(a) ==
  /\ client[a].pc \in {"submit", "poll"}
  /\ Fault
  /\ UploadOriginal(a)
  /\ \/ UNCHANGED service
     \/ client[a].pc = "submit" /\ input[a] # Null /\ pool = "ok" /\ Enqueue(a)
  /\ UNCHANGED <<input, output>>

\* The finally block of run_dspace_workflow, whether the upload succeeded or not.
\* Mutant: only the output is removed, as the input belongs to the service.
RemoveOutputOnly(a) == output' = [output EXCEPT ![a] = Null] /\ UNCHANGED input

RemoveFiles(a) ==
  /\ input' = [input EXCEPT ![a] = Null]
  /\ output' = [output EXCEPT ![a] = Null]

EndUpload(a) ==
  /\ client[a].pc = "upload"
  /\ RemoveFiles(a)
  /\ client' = [client EXCEPT ![a] = [NoClient EXCEPT !.pc = "done"]]
  /\ UNCHANGED <<service, faults>>

\* The integrator dies and leaves its files.
KillClient(a) ==
  /\ client[a].pc \in {"copy", "submit", "poll", "upload"}
  /\ Fault
  /\ client' = [client EXCEPT ![a] = [NoClient EXCEPT !.pc = "dead"]]
  /\ UNCHANGED <<service, input, output>>

-----------------------------------------------------------------------------
(* The worker of the pool, _optimize_pdf.  A raster's pages are counted by      *)
(* pdfinfo before Ghostscript runs and again after it.                        *)

Stages == {"counting", "running", "checking"}

InStage(stage) == {a \in Attempts : job[a].state = stage}
Started        == {a \in Attempts : job[a].state \in Stages}

Running  == InStage("running")
CanStart == pool = "ok" /\ Started = {} /\ queue # <<>>

\* How long a stage may take.
Limit(stage) == IF stage = "running" THEN GsTimeout ELSE PdfinfoTimeout

\* A job has failed when it raised an exception, and when it answers with an error: of
\* the reasons only the timeout is told apart.
\* The size of the input is read first, and for a raster once more before Ghostscript.
IfInput(a, state) == IF input[a] = Null THEN "failed" ELSE state

FirstState(a) == IfInput(a, IF a \in RasterAttempts THEN "counting" ELSE "running")

StartJob ==
  /\ CanStart
  /\ job' = [job EXCEPT ![Head(queue)].state = FirstState(Head(queue))]
  /\ queue' = Tail(queue)
  /\ UNCHANGED <<client, known, pool, loose, input, output, faults>>

\* The time of a stage is its own.
Ended(state) == [state |-> state, ran |-> 0]

Turns(a, state) ==
  /\ job' = [job EXCEPT ![a] = Ended(state)]
  /\ UNCHANGED <<client, queue, known, pool, loose, input, faults>>

PagesCounted(a) ==
  /\ a \in InStage("counting")
  /\ Turns(a, IfInput(a, "running"))
  /\ UNCHANGED output

Written(content) == [content |-> content, age |-> 0]

GsWrites(a) ==
  /\ a \in Running /\ Content(a) # "part"
  /\ output' = [output EXCEPT ![a] = Written("part")]
  /\ UNCHANGED <<client, service, input, faults>>

\* After an exit status of zero the output must exist, not be empty and not be
\* larger; that of a raster is then counted.
Verdict(a, content) ==
  CASE content = "rejected"   -> "failed"
    [] a \in RasterAttempts   -> "checking"
    [] OTHER                  -> "done"

GsSucceeds(a, content) ==
  /\ a \in Running
  /\ output' = [output EXCEPT ![a] = Written(content)]
  /\ Turns(a, Verdict(a, content))

\* The pages must be those of the input.  (A client that left has removed the output.)
Checked(a) ==
  /\ a \in InStage("checking")
  /\ Turns(a, IF Content(a) = "good" THEN "done" ELSE "failed")
  /\ UNCHANGED output

\* pdfinfo finds no pages, or Ghostscript fails or leaves no output.
Fails(a) ==
  /\ a \in Started
  /\ Turns(a, "failed")
  /\ UNCHANGED output

\* Mutant: a subprocess runs without a timeout.
NeverOverdue(a) == FALSE

Overdue(a) == a \in Started /\ job[a].ran >= Limit(job[a].state)

\* TimeoutExpired of the first pdfinfo or of Ghostscript is the job's; that of the
\* last pdfinfo is caught.
TimesOut(a) ==
  /\ Overdue(a)
  /\ Turns(a, IF job[a].state = "checking" THEN "failed" ELSE "timeout")
  /\ UNCHANGED output

\* The worker process dies: the executor fails what it runs and what waits, and
\* every later submit; the Ghostscript it had started goes on without a timeout.
BreakPool ==
  /\ pool = "ok" /\ known # {}
  /\ Fault
  /\ pool' = "broken"
  /\ job' = [a \in Attempts |-> IF job[a].state \in Stages \cup {"queued"}
                               THEN Ended("failed") ELSE job[a]]
  /\ queue' = <<>>
  /\ loose' = loose \cup Running
  /\ UNCHANGED <<client, known, input, output>>

LooseWrites(a) ==
  /\ a \in loose
  /\ \E content \in {"part", "good"} : output' = [output EXCEPT ![a] = Written(content)]
  /\ UNCHANGED <<client, service, input, faults>>

LooseEnds(a) ==
  /\ a \in loose
  /\ loose' = loose \ {a}
  /\ UNCHANGED <<client, job, queue, known, pool, input, output, faults>>

-----------------------------------------------------------------------------
(* The janitor, and restarts of the container.                               *)

OldInput(a)  == input[a] # Null /\ input[a] >= TTL
OldOutput(a) == output[a] # Null /\ output[a].age >= TTL

\* Mutant: the janitor sweeps the input directory only.
CleanupInputOnly(a) == OldInput(a) /\ input' = [input EXCEPT ![a] = Null] /\ UNCHANGED output

\* cleanup_once looks at the files of both directories one by one.
CleanupFile(a) ==
  \/ OldInput(a) /\ input' = [input EXCEPT ![a] = Null] /\ UNCHANGED output
  \/ OldOutput(a) /\ output' = [output EXCEPT ![a] = Null] /\ UNCHANGED input

Janitor(a) == CleanupFile(a) /\ UNCHANGED <<client, service, faults>>

\* create_app cleans up once; dictionary, queue and processes are gone.
Restart ==
  /\ Fault
  /\ job' = [a \in Attempts |-> NoJob]
  /\ queue' = <<>> /\ known' = {} /\ pool' = "ok" /\ loose' = {}
  /\ input' = [a \in Attempts |-> IF OldInput(a) THEN Null ELSE input[a]]
  /\ output' = [a \in Attempts |-> IF OldOutput(a) THEN Null ELSE output[a]]
  /\ UNCHANGED client

-----------------------------------------------------------------------------
(* Time.  A tick is long beside the client's poll interval of two seconds and *)
(* beside the start of a waiting job, so none passes while one is due.        *)

Upto(bound, n) == IF n < bound THEN n + 1 ELSE n

InQueue(a) == client[a].pc = "poll" /\ job[a].state = "queued"

Waits(a) ==
  IF client[a].pc \notin {"poll", "upload"} THEN client[a]
  ELSE [client[a] EXCEPT !.waited = @ + 1, !.queued = IF InQueue(a) THEN @ + 1 ELSE @]

AnswerDue(a) == client[a].pc = "poll" /\ (a \notin known \/ Finished(a) \/ client[a].waited >= ClientTimeout)

Due ==
  \/ CanStart
  \/ \E a \in Attempts : Overdue(a) \/ AnswerDue(a) \/ (client[a].pc = "upload" /\ client[a].waited >= UploadTime)

Tick ==
  /\ ~Due
  /\ client' = [a \in Attempts |-> Waits(a)]
  /\ job' = [a \in Attempts |->
               IF a \in Started THEN [job[a] EXCEPT !.ran = @ + 1] ELSE job[a]]
  /\ input' = [a \in Attempts |-> IF input[a] = Null THEN Null ELSE Upto(TTL, input[a])]
  /\ output' = [a \in Attempts |-> IF output[a] = Null THEN Null
                                  ELSE [output[a] EXCEPT !.age = Upto(TTL, @)]]
  /\ UNCHANGED <<queue, known, pool, loose, faults>>

-----------------------------------------------------------------------------
ClientStep(a) ==
  \/ \E age \in {0, TTL} : CopyInput(a, age)
  \/ Submit(a) \/ Poll(a) \/ GiveUp(a) \/ EndUpload(a)

StageEnds(a) ==
  \/ PagesCounted(a)
  \/ \E content \in {"rejected", "fewer_pages", "good"} : GsSucceeds(a, content)
  \/ Checked(a) \/ Fails(a) \/ TimesOut(a)

Worker == StartJob \/ \E a \in Attempts : StageEnds(a)

Next ==
  \/ \E a \in Attempts :
       \/ \E pdf \in Source : Begin(a, pdf)
       \/ ClientStep(a) \/ AnswerLost(a) \/ KillClient(a)
       \/ GsWrites(a) \/ LooseWrites(a) \/ LooseEnds(a)
       \/ Janitor(a)
  \/ Worker \/ BreakPool \/ Restart \/ Tick

Spec == Init /\ [][Next]_vars

(* A call that began goes on, the worker takes the next job, each stage of it  *)
(* ends or is killed, the janitor's thread comes round, and time passes.      *)
FairSpec ==
  /\ Spec
  /\ \A a \in Attempts : WF_vars(ClientStep(a))
  /\ WF_vars(Worker) /\ WF_vars(\E a \in Attempts : LooseEnds(a))
  /\ WF_vars(\E a \in Attempts : Janitor(a)) /\ WF_vars(Tick)

-----------------------------------------------------------------------------
(* Properties.                                                               *)

ClientStates == [pc : {"idle", "copy", "submit", "poll", "upload", "done", "dead"}, waited : Nat,
                 queued : Nat, path : {Null, "original", "output"}]
JobStates    == [state : {"none", "queued", "done", "timeout", "failed"} \cup Stages, ran : Nat]
OutputStates == [content : Contents, age : 0..TTL]

\* Every variable holds values of the shape the code gives it.
TypeOK ==
  /\ client \in [Attempts -> ClientStates]
  /\ job \in [Attempts -> JobStates]
  /\ queue \in Seq(Attempts)
  /\ known \subseteq Attempts
  /\ pool \in {"ok", "broken"}
  /\ loose \subseteq Attempts
  /\ input \in [Attempts -> {Null} \cup 0..TTL]
  /\ output \in [Attempts -> {Null} \cup OutputStates]
  /\ faults \in 0..MaxFaults

\* run_dspace_workflow uploads either the original or an output that is still on
\* disk, complete, not empty, not larger and, as a raster, with all its pages,
\* whatever the janitor, a restart or a Ghostscript that outlived its worker does.
UploadIsUsable ==
  \A a \in Attempts : client[a].pc = "upload" /\ client[a].path = "output" =>
    Content(a) \in {"good"} \cup (IF a \in RasterAttempts THEN {} ELSE {"fewer_pages"})

\* How long the run of a job may have taken when it stands where it stands.
CountTime(a) == IF a \in RasterAttempts THEN PdfinfoTimeout ELSE 0

RunTime(a) ==
  CASE job[a].state = "queued"   -> 0
    [] job[a].state = "counting" -> CountTime(a)
    [] job[a].state = "running"  -> CountTime(a) + GsTimeout
    [] OTHER                     -> CountTime(a) + GsTimeout + CountTime(a)

\* Without a lost answer, the client's loop (services/pdf.py) leaves a job that has
\* not failed only if its turn came so late that what its run may take does not fit
\* into OPTIMIZER_TIMEOUT: a client with time for the whole run never gives up on a
\* job that did not stand behind others.
GivesUpOnlyWhenLate ==
  [][\A a \in Attempts :
       client[a].pc = "poll" /\ client'[a].path = "original" /\ faults' = faults /\
       a \in known /\ job[a].state \notin {"timeout", "failed"}
         => client[a].queued + RunTime(a) >= ClientTimeout]_vars

\* A client that leaves takes its input with it, so its job, if it has not
\* started, fails at once and never holds the only worker.
AbandonedNeverRun ==
  [][\A a \in Attempts :
       client[a].pc = "done" /\ job[a].state = "queued" => job'[a].state \notin Stages]_vars

\* Both directories are shared with processes that may die: every file in them
\* goes, by its client or by the janitor.
HasFiles(a) == input[a] # Null \/ output[a] # Null

TempFilesGo == \A a \in Attempts : HasFiles(a) ~> ~HasFiles(a)
=============================================================================
