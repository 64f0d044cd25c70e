------------------------ MODULE OptimizerJobs_proofs ------------------------
(***************************************************************************)
(* What OptimizerJobs promises for any number of uploads and faults and any *)
(* timeouts, as long as a file lives longer than an upload and a last count *)
(* of its pages take.                                                       *)
(***************************************************************************)
EXTENDS OptimizerJobs, TLAPS

\* An attempt that has not submitted anything has no job anywhere.
FreshInv ==
  \A a \in Attempts : client[a].pc \in {"idle", "copy", "submit"} =>
    job[a] = NoJob /\ a \notin known /\ a \notin loose

\* The queue names each waiting job once, and Ghostscript is loose only in jobs
\* that have failed.
QueueInv ==
  /\ \A k \in 1..Len(queue) : job[queue[k]].state = "queued"
  /\ \A j, k \in 1..Len(queue) : queue[j] = queue[k] => j = k
  /\ \A a \in loose : job[a].state = "failed"
  /\ \A a \in known : job[a].state # "none"

\* No stage of a job lasts longer than its timeout.
StageOf(a) ==
  /\ job[a].state = "queued" => job[a].ran = 0
  /\ job[a].state \in Stages => job[a].ran <= Limit(job[a].state)
  /\ job[a].state \in {"counting", "checking"} => a \in RasterAttempts

StageInv == \A a \in Attempts : StageOf(a)

Usable(a) == {"good"} \cup (IF a \in RasterAttempts THEN {} ELSE {"fewer_pages"})

\* The output of a job that is done is taken before it grows old, and nobody
\* writes to it again.
OutputOf(a) ==
  /\ job[a].state = "checking" /\ output[a] # Null => output[a].age <= job[a].ran
  /\ client[a].pc = "poll" /\ job[a].state = "done" =>
       output[a] \in OutputStates /\ output[a].content \in Usable(a) /\ output[a].age <= PdfinfoTimeout
  /\ client[a].pc = "upload" => client[a].waited <= UploadTime
  /\ client[a].pc = "upload" /\ client[a].path = "output" =>
       /\ output[a] \in OutputStates /\ output[a].content \in Usable(a)
       /\ output[a].age <= PdfinfoTimeout + client[a].waited
       /\ job[a].state \in {"done", "none"}

OutputInv == \A a \in Attempts : OutputOf(a)

\* What the run of a job has taken so far, at most.
Taken(a) ==
  CASE job[a].state = "queued"   -> 0
    [] job[a].state = "counting" -> job[a].ran
    [] job[a].state = "running"  -> CountTime(a) + job[a].ran
    [] job[a].state = "checking" -> CountTime(a) + GsTimeout + job[a].ran
    [] OTHER                     -> CountTime(a) + GsTimeout + CountTime(a)

\* A client waits no longer than its job has waited and run.
WaitOf(a) ==
  /\ client[a].pc \in {"idle", "copy", "submit"} => client[a].waited = 0
  /\ client[a].pc \in {"idle", "copy", "submit", "poll"} => client[a].path = Null
  /\ client[a].pc = "done" => input[a] = Null
  /\ client[a].pc = "poll" /\ a \in known => client[a].waited <= client[a].queued + Taken(a)

WaitInv == \A a \in Attempts : WaitOf(a)

OptimizerInv == TypeOK /\ FreshInv /\ QueueInv /\ StageInv /\ OutputInv /\ WaitInv

USE OptimizerAssumptions, NullIsNoValue

-----------------------------------------------------------------------------
(* Every step keeps each part of the invariant: one lemma per part, one step   *)
(* per action.                                                               *)

LEMMA InitInv == Init => OptimizerInv
  <1> SUFFICES ASSUME Init PROVE OptimizerInv
    OBVIOUS
  <1>1. NoClient \in ClientStates /\ NoJob \in JobStates
    BY DEF NoClient, NoJob, ClientStates, JobStates, Stages
  <1>2. TypeOK
    BY <1>1 DEF Init, TypeOK
  <1>3. FreshInv /\ QueueInv
    BY DEF Init, FreshInv, QueueInv
  <1>4. StageInv /\ OutputInv /\ WaitInv
    BY DEF Init, StageInv, StageOf, OutputInv, OutputOf, WaitInv, WaitOf, NoClient, NoJob, Stages
  <1>5. QED
    BY <1>2, <1>3, <1>4 DEF OptimizerInv

Pcs    == {"idle", "copy", "submit", "poll", "upload", "done", "dead"}
States == {"none", "queued", "done", "timeout", "failed"} \cup Stages

\* What the client's updates make of its record.
LEMMA ClientRecords ==
  /\ \A path \in {"original", "output"} : Uploading(path) \in ClientStates
  /\ \A path : /\ Uploading(path).pc = "upload" /\ Uploading(path).waited = 0
                /\ Uploading(path).path = path
  /\ \A c \in ClientStates, pc \in Pcs :
       /\ [c EXCEPT !.pc = pc] \in ClientStates /\ [c EXCEPT !.pc = pc].pc = pc
       /\ [c EXCEPT !.pc = pc].waited = c.waited /\ [c EXCEPT !.pc = pc].path = c.path
       /\ [c EXCEPT !.pc = pc].queued = c.queued
  /\ NoClient \in ClientStates
  <1>1. \A path \in {"original", "output"} : Uploading(path) \in ClientStates
    BY DEF Uploading, ClientStates
  <1>2. \A path : /\ Uploading(path).pc = "upload" /\ Uploading(path).waited = 0
                  /\ Uploading(path).path = path
    BY DEF Uploading
  <1>3. NoClient \in ClientStates
    BY DEF NoClient, ClientStates
  <1>4. QED
    BY <1>1, <1>2, <1>3 DEF ClientStates, Pcs

\* What a tick makes of it.
LEMMA Waiting ==
  ASSUME NEW a \in Attempts, client[a] \in ClientStates
  PROVE  /\ Waits(a) \in ClientStates
         /\ Waits(a).pc = client[a].pc /\ Waits(a).path = client[a].path
         /\ client[a].pc \in {"poll", "upload"} => Waits(a).waited = client[a].waited + 1
         /\ client[a].pc \notin {"poll", "upload"} => Waits(a) = client[a]
         /\ client[a].pc = "poll" /\ job[a].state = "queued" => Waits(a).queued = client[a].queued + 1
         /\ client[a].pc = "poll" /\ job[a].state # "queued" => Waits(a).queued = client[a].queued
  <1>1. /\ client[a].queued \in Nat /\ client[a].queued + 1 \in Nat
        /\ client[a].waited \in Nat /\ client[a].waited + 1 \in Nat
    BY DEF ClientStates
  <1>2. CASE client[a].pc \notin {"poll", "upload"}
    BY <1>2 DEF Waits
  <1>3. CASE client[a].pc \in {"poll", "upload"} /\ InQueue(a)
    <2>1. Waits(a) = [client[a] EXCEPT !.waited = client[a].waited + 1, !.queued = client[a].queued + 1]
      BY <1>3 DEF Waits
    <2>2. QED
      <3>1. /\ Waits(a) \in ClientStates
            /\ Waits(a).pc = client[a].pc /\ Waits(a).path = client[a].path
            /\ Waits(a).waited = client[a].waited + 1
            /\ Waits(a).queued = client[a].queued + 1
        BY <1>1, <2>1 DEF ClientStates
      <3>2. QED
        BY <1>3, <3>1 DEF InQueue
  <1>4. CASE client[a].pc \in {"poll", "upload"} /\ ~InQueue(a)
    <2>1. Waits(a) = [client[a] EXCEPT !.waited = client[a].waited + 1, !.queued = client[a].queued]
      BY <1>4 DEF Waits
    <2>2. QED
      <3>1. /\ Waits(a) \in ClientStates
            /\ Waits(a).pc = client[a].pc /\ Waits(a).path = client[a].path
            /\ Waits(a).waited = client[a].waited + 1
            /\ Waits(a).queued = client[a].queued
        BY <1>1, <2>1 DEF ClientStates
      <3>2. QED
        BY <1>4, <3>1 DEF InQueue
  <1>5. QED
    BY <1>2, <1>3, <1>4

\* What the service's updates make of a job.
LEMMA JobRecords ==
  /\ NoJob \in JobStates /\ NoJob.state = "none"
  /\ \A state \in States : Ended(state) \in JobStates
  /\ \A state : Ended(state).state = state /\ Ended(state).ran = 0
  /\ \A j \in JobStates, state \in States :
       /\ [j EXCEPT !.state = state] \in JobStates /\ [j EXCEPT !.state = state].state = state
       /\ [j EXCEPT !.state = state].ran = j.ran
  /\ \A j \in JobStates :
       /\ j.state \in States /\ j.ran \in Nat
       /\ [j EXCEPT !.ran = j.ran + 1] \in JobStates
       /\ [j EXCEPT !.ran = j.ran + 1].state = j.state
       /\ [j EXCEPT !.ran = j.ran + 1].ran = j.ran + 1
  <1>1. NoJob \in JobStates /\ NoJob.state = "none"
    BY DEF NoJob, JobStates
  <1>2. \A state : Ended(state).state = state /\ Ended(state).ran = 0
    BY DEF Ended
  <1>3. \A state \in States : Ended(state) \in JobStates
    BY DEF Ended, JobStates, States
  <1>4. QED
    BY <1>1, <1>2, <1>3 DEF JobStates, States

LEMMA TypedParts ==
  ASSUME TypeOK, NEW a \in Attempts
  PROVE  /\ job[a] \in JobStates /\ job[a].state \in States /\ job[a].ran \in Nat
         /\ client[a] \in ClientStates /\ client[a].waited \in Nat /\ client[a].queued \in Nat
  <1>1. job[a] \in JobStates /\ client[a] \in ClientStates
    BY DEF TypeOK
  <1>2. QED
    BY <1>1, JobRecords DEF ClientStates

\* What a run has taken fits into what it may take where it stands.
LEMMA TakenBounds ==
  ASSUME NEW a \in Attempts, job[a].ran \in Nat, StageOf(a)
  PROVE  /\ CountTime(a) \in Nat /\ Taken(a) \in Nat /\ RunTime(a) \in Nat
         /\ Taken(a) <= RunTime(a) /\ Taken(a) <= CountTime(a) + GsTimeout + CountTime(a)
  <1>1. CountTime(a) \in Nat /\ GsTimeout \in Nat
    BY DEF CountTime
  <1>2. CASE job[a].state = "counting"
    <2>1. job[a].ran <= CountTime(a)
      BY <1>2 DEF StageOf, Stages, Limit, CountTime
    <2>2. Taken(a) = job[a].ran /\ RunTime(a) = CountTime(a)
      BY <1>2 DEF Taken, RunTime
    <2>3. QED
      BY <1>1, <2>1, <2>2
  <1>3. CASE job[a].state = "running"
    <2>1. job[a].ran <= GsTimeout
      BY <1>3 DEF StageOf, Stages, Limit
    <2>2. Taken(a) = CountTime(a) + job[a].ran /\ RunTime(a) = CountTime(a) + GsTimeout
      BY <1>3 DEF Taken, RunTime
    <2>3. QED
      BY <1>1, <2>1, <2>2
  <1>4. CASE job[a].state = "checking"
    <2>1. job[a].ran <= CountTime(a)
      BY <1>4 DEF StageOf, Stages, Limit, CountTime
    <2>2. /\ Taken(a) = CountTime(a) + GsTimeout + job[a].ran
          /\ RunTime(a) = CountTime(a) + GsTimeout + CountTime(a)
      BY <1>4 DEF Taken, RunTime
    <2>3. QED
      BY <1>1, <2>1, <2>2
  <1>5. CASE job[a].state = "queued"
    <2>1. Taken(a) = 0 /\ RunTime(a) = 0
      BY <1>5 DEF Taken, RunTime
    <2>2. QED
      BY <1>1, <2>1
  <1>6. CASE job[a].state \notin Stages \cup {"queued"}
    <2>1. Taken(a) = CountTime(a) + GsTimeout + CountTime(a) /\ RunTime(a) = Taken(a)
      BY <1>6 DEF Taken, RunTime, Stages
    <2>2. QED
      BY <1>1, <2>1
  <1>7. QED
    BY <1>2, <1>3, <1>4, <1>5, <1>6 DEF Stages

LEMMA WrittenOutput ==
  ASSUME NEW content \in Contents
  PROVE  /\ Written(content) \in OutputStates /\ Written(content).content = content
         /\ Written(content).age = 0
  BY DEF Written, OutputStates

LEMMA OutputRecords ==
  \A o \in OutputStates :
    /\ o.age \in 0..TTL /\ o # Null
    /\ [o EXCEPT !.age = Upto(TTL, o.age)] \in OutputStates
    /\ [o EXCEPT !.age = Upto(TTL, o.age)].content = o.content
    /\ [o EXCEPT !.age = Upto(TTL, o.age)].age = Upto(TTL, o.age)
  <1>1. \A o \in OutputStates : o # Null
    BY DEF OutputStates
  <1>2. QED
    BY <1>1 DEF OutputStates, Upto

\* How a stage of a job ends: one step per action.
LEMMA StageEnding ==
  ASSUME TypeOK, NEW a \in Attempts, StageEnds(a)
  PROVE  /\ a \in Started /\ UNCHANGED <<client, queue, known, pool, loose, input, faults>>
         /\ output' \in [Attempts -> {Null} \cup OutputStates]
         /\ \A b \in Attempts : b # a => output'[b] = output[b] /\ job'[b] = job[b]
         /\ \E state \in {"running", "checking", "done", "timeout", "failed"} :
              /\ job' = [job EXCEPT ![a] = Ended(state)] /\ job'[a] = Ended(state)
              /\ state = "running" => job[a].state = "counting"
              /\ state = "checking" =>
                   /\ job[a].state = "running" /\ a \in RasterAttempts
                   /\ output'[a] \in OutputStates /\ output'[a].age = 0
              /\ state = "done" =>
                   \/ /\ output'[a] \in OutputStates /\ output'[a].content \in Usable(a)
                      /\ output'[a].age = 0
                   \/ job[a].state = "checking" /\ output' = output /\ Content(a) = "good"
  <1> USE DEF TypeOK, Turns, InStage
  <1>1. CASE PagesCounted(a)
    BY <1>1 DEF PagesCounted, IfInput, Started, Stages
  <1>2. ASSUME NEW content \in {"rejected", "fewer_pages", "good"}, GsSucceeds(a, content)
        PROVE  /\ a \in Started /\ job[a].state = "running"
               /\ output' = [output EXCEPT ![a] = Written(content)]
               /\ job' = [job EXCEPT ![a] = Ended(Verdict(a, content))]
               /\ UNCHANGED <<client, queue, known, pool, loose, input, faults>>
               /\ Written(content) \in OutputStates /\ Written(content).content = content
               /\ Written(content).age = 0
               /\ Verdict(a, content) \in {"checking", "done", "failed"}
               /\ Verdict(a, content) = "checking" => a \in RasterAttempts
               /\ Verdict(a, content) = "done" => content \in Usable(a)
    <2>1. content \in Contents
      BY DEF Contents
    <2>2. QED
      BY <1>2, <2>1, WrittenOutput DEF GsSucceeds, Running, Verdict, Usable, Started, Stages
  <1>3. CASE Checked(a)
    BY <1>3 DEF Checked, Started, Stages
  <1>4. CASE Fails(a)
    BY <1>4 DEF Fails
  <1>5. CASE TimesOut(a)
    BY <1>5 DEF TimesOut, Overdue
  <1>6. CASE \E content \in {"rejected", "fewer_pages", "good"} : GsSucceeds(a, content)
    <2>1. PICK content \in {"rejected", "fewer_pages", "good"} : GsSucceeds(a, content)
      BY <1>6
    <2>2. output'[a] = Written(content) /\ job'[a] = Ended(Verdict(a, content))
      BY <1>2, <2>1
    <2>3. QED
      BY <1>2, <2>1, <2>2
  <1>7. QED
    BY <1>1, <1>3, <1>4, <1>5, <1>6 DEF StageEnds

\* The job that is started, and those that are not.
LEMMA Starting ==
  ASSUME TypeOK, StartJob
  PROVE  \E h \in Attempts, state \in {"counting", "running", "failed"} :
           /\ h = Head(queue) /\ h = queue[1] /\ 1 \in 1..Len(queue) /\ queue' = Tail(queue)
           /\ QueueInv => job[h].state = "queued"
           /\ job'[h].state = state /\ job'[h].ran = job[h].ran
           /\ job' \in [Attempts -> JobStates]
           /\ state = "counting" => h \in RasterAttempts
           /\ input[h] = Null => state = "failed"
           /\ \A b \in Attempts : b # h => job'[b] = job[b]
           /\ UNCHANGED <<client, known, pool, loose, input, output, faults>>
  <1>1. PICK h \in Attempts : h = Head(queue) /\ h = queue[1] /\ 1 \in 1..Len(queue)
    BY DEF StartJob, CanStart, TypeOK
  <1>2. PICK state \in {"counting", "running", "failed"} : state = FirstState(h)
    BY DEF FirstState, IfInput
  <1>3. job' = [job EXCEPT ![h].state = state]
    BY <1>1, <1>2 DEF StartJob
  <1>4. job[h] \in JobStates /\ (QueueInv => job[h].state = "queued")
    BY <1>1 DEF QueueInv, TypeOK
  <1>5. job'[h] = [job[h] EXCEPT !.state = state]
    BY <1>3 DEF TypeOK
  <1>6. job'[h] \in JobStates /\ job'[h].state = state /\ job'[h].ran = job[h].ran
    <2>1. state \in States
      BY DEF States, Stages
    <2>2. QED
      BY <1>4, <1>5, <2>1, JobRecords
  <1>7. (state = "counting" => h \in RasterAttempts) /\ (input[h] = Null => state = "failed")
    BY <1>2 DEF FirstState, IfInput
  <1>8. \A b \in Attempts : b # h => job'[b] = job[b]
    BY <1>3 DEF TypeOK
  <1>9. job' \in [Attempts -> JobStates]
    BY <1>3, <1>6, <1>8 DEF TypeOK
  <1>10. QED
    BY <1>1, <1>4, <1>6, <1>7, <1>8, <1>9 DEF StartJob

\* The worker process takes with it what runs and what waits.
LEMMA Breaking ==
  ASSUME TypeOK, BreakPool
  PROVE  /\ job' \in [Attempts -> JobStates]
         /\ \A b \in Attempts :
              \/ job[b].state \in Stages \cup {"queued"} /\ job'[b] = Ended("failed")
              \/ job[b].state \notin Stages \cup {"queued"} /\ job'[b] = job[b]
  BY JobRecords DEF BreakPool, TypeOK, States

\* A tick lengthens the stage of the job that runs.
LEMMA Ticking ==
  ASSUME TypeOK, Tick
  PROVE  /\ job' \in [Attempts -> JobStates]
         /\ \A b \in Attempts :
              /\ job'[b].state = job[b].state
              /\ b \in Started => job'[b].ran = job[b].ran + 1
              /\ b \notin Started => job'[b] = job[b]
  BY JobRecords DEF Tick, TypeOK

\* An attempt that a step does not touch keeps its part of the invariant.
LEMMA StageFrame ==
  ASSUME NEW b \in Attempts, StageOf(b), job'[b] = job[b]
  PROVE  StageOf(b)'
  BY DEF StageOf, Limit

LEMMA OutputFrame ==
  ASSUME NEW b \in Attempts, OutputOf(b), client'[b] = client[b], job'[b] = job[b], output'[b] = output[b]
  PROVE  OutputOf(b)'
  BY DEF OutputOf

LEMMA WaitFrame ==
  ASSUME NEW b \in Attempts, WaitOf(b), client'[b] = client[b], job'[b] = job[b], input'[b] = input[b],
         b \in known' => b \in known
  PROVE  WaitOf(b)'
  BY DEF WaitOf, Taken, CountTime

\* So does one that turns to its original.
LEMMA OriginalFrame ==
  ASSUME TypeOK, NEW a \in Attempts, UploadOriginal(a), OutputOf(a),
         \/ job'[a] = job[a] /\ output'[a] = output[a]
         \/ job'[a].state = "queued"
  PROVE  /\ client'[a] = Uploading("original") /\ OutputOf(a)' /\ WaitOf(a)'
         /\ \A b \in Attempts : b # a => client'[b] = client[b]
  <1>1. /\ client'[a] = Uploading("original")
        /\ \A b \in Attempts : b # a => client'[b] = client[b]
    BY DEF UploadOriginal, TypeOK
  <1>2. QED
    BY <1>1, ClientRecords DEF OutputOf, WaitOf

\* Submitting a job touches no other job.
LEMMA EnqueueFrame ==
  ASSUME TypeOK, NEW a \in Attempts, Enqueue(a)
  PROVE  /\ job'[a].state = "queued" /\ job'[a].ran = job[a].ran
         /\ job' \in [Attempts -> JobStates]
         /\ \A b \in Attempts : b # a => job'[b] = job[b] /\ (b \in known' => b \in known)
  BY DEF Enqueue, TypeOK, JobStates, Stages

LEMMA StepTyped == TypeOK /\ [Next]_vars => TypeOK'
  <1> SUFFICES ASSUME TypeOK, [Next]_vars PROVE TypeOK'
    OBVIOUS
  <1> USE DEF TypeOK, service, Fault
  <1>1. ASSUME NEW a \in Attempts, NEW pdf, Begin(a, pdf) PROVE TypeOK'
    <2>1. client' \in [Attempts -> ClientStates]
      <3>1. CASE UploadOriginal(a)
        BY <3>1, ClientRecords DEF UploadOriginal
      <3>2. CASE client' = [client EXCEPT ![a].pc = "copy"]
        <4>1. client[a] \in ClientStates
          OBVIOUS
        <4>2. [client[a] EXCEPT !.pc = "copy"] \in ClientStates
          BY ONLY <4>1 DEF ClientStates
        <4>3. QED
          BY <3>2, <4>2
      <3>3. QED
        BY <1>1, <3>1, <3>2 DEF Begin
    <2>2. QED
      BY <1>1, <2>1 DEF Begin
  <1>2. ASSUME NEW a \in Attempts, NEW age \in {0, TTL}, CopyInput(a, age) PROVE TypeOK'
    <2>1. client' \in [Attempts -> ClientStates]
      <3>1. CASE UploadOriginal(a)
        BY <3>1, ClientRecords DEF UploadOriginal
      <3>2. CASE client' = [client EXCEPT ![a].pc = "submit"]
        <4>1. client[a] \in ClientStates
          OBVIOUS
        <4>2. [client[a] EXCEPT !.pc = "submit"] \in ClientStates
          BY ONLY <4>1 DEF ClientStates
        <4>3. QED
          BY <3>2, <4>2
      <3>3. QED
        BY <1>2, <3>1, <3>2 DEF CopyInput
    <2>2. input' \in [Attempts -> {Null} \cup 0..TTL]
      BY <1>2 DEF CopyInput
    <2>3. QED
      BY <1>2, <2>1, <2>2 DEF CopyInput
  <1>3. ASSUME NEW a \in Attempts, Submit(a) PROVE TypeOK'
    <2>1. client' \in [Attempts -> ClientStates]
      <3>1. CASE UploadOriginal(a)
        BY <3>1, ClientRecords DEF UploadOriginal
      <3>2. CASE client' = [client EXCEPT ![a].pc = "poll"]
        <4>1. client[a] \in ClientStates
          OBVIOUS
        <4>2. [client[a] EXCEPT !.pc = "poll"] \in ClientStates
          BY ONLY <4>1 DEF ClientStates
        <4>3. QED
          BY <3>2, <4>2
      <3>3. QED
        BY <1>3, <3>1, <3>2 DEF Submit
    <2>2. job' \in [Attempts -> JobStates]
      BY <1>3, EnqueueFrame DEF Submit
    <2>3. Append(queue, a) \in Seq(Attempts) /\ known \cup {a} \subseteq Attempts
      OBVIOUS
    <2>4. queue' \in Seq(Attempts) /\ known' \subseteq Attempts
      BY <1>3, <2>3 DEF Submit, Enqueue
    <2>5. QED
      BY <1>3, <2>1, <2>2, <2>4 DEF Submit, Enqueue
  <1>4. ASSUME NEW a \in Attempts, Poll(a) PROVE TypeOK'
    <2>1. client' \in [Attempts -> ClientStates]
      <3>1. PICK path \in {"original", "output"} : client' = [client EXCEPT ![a] = Uploading(path)]
        BY <1>4 DEF Poll, UploadOriginal
      <3>2. Uploading(path) \in ClientStates
        BY ClientRecords
      <3>3. QED
        BY <3>1, <3>2
    <2>2. QED
      BY <1>4, <2>1 DEF Poll
  <1>5. ASSUME NEW a \in Attempts, GiveUp(a) PROVE TypeOK'
    <2>1. client' \in [Attempts -> ClientStates]
      <3>1. PICK path \in {"original", "output"} : client' = [client EXCEPT ![a] = Uploading(path)]
        BY <1>5 DEF GiveUp, UploadOriginal
      <3>2. Uploading(path) \in ClientStates
        BY ClientRecords
      <3>3. QED
        BY <3>1, <3>2
    <2>2. QED
      BY <1>5, <2>1 DEF GiveUp, UploadOriginal
  <1>6. ASSUME NEW a \in Attempts, AnswerLost(a) PROVE TypeOK'
    <2>1. client' \in [Attempts -> ClientStates]
      <3>1. PICK path \in {"original", "output"} : client' = [client EXCEPT ![a] = Uploading(path)]
        BY <1>6 DEF AnswerLost, UploadOriginal
      <3>2. Uploading(path) \in ClientStates
        BY ClientRecords
      <3>3. QED
        BY <3>1, <3>2
    <2>2. job' \in [Attempts -> JobStates]
      BY <1>6, EnqueueFrame DEF AnswerLost
    <2>3. Append(queue, a) \in Seq(Attempts) /\ known \cup {a} \subseteq Attempts
      OBVIOUS
    <2>4. queue' \in Seq(Attempts) /\ known' \subseteq Attempts
      BY <1>6, <2>3 DEF AnswerLost, Enqueue
    <2>5. QED
      BY <1>6, <2>1, <2>2, <2>4 DEF AnswerLost, Enqueue
  <1>7. ASSUME NEW a \in Attempts, EndUpload(a) PROVE TypeOK'
    <2>1. client' \in [Attempts -> ClientStates]
      BY <1>7, ClientRecords DEF EndUpload, Pcs
    <2>2. input' \in [Attempts -> {Null} \cup 0..TTL] /\ output' \in [Attempts -> {Null} \cup OutputStates]
      BY <1>7 DEF EndUpload, RemoveFiles
    <2>3. QED
      BY <1>7, <2>1, <2>2 DEF EndUpload
  <1>8. ASSUME NEW a \in Attempts, KillClient(a) PROVE TypeOK'
    <2>1. client' \in [Attempts -> ClientStates]
      BY <1>8, ClientRecords DEF Pcs, KillClient
    <2>2. QED
      BY <1>8, <2>1 DEF KillClient
  <1>9. CASE StartJob
    <2>1. PICK h \in Attempts :
               /\ h = Head(queue) /\ h = queue[1] /\ 1 \in 1..Len(queue)
               /\ queue' = Tail(queue) /\ job' \in [Attempts -> JobStates]
               /\ UNCHANGED <<client, known, pool, loose, input, output, faults>>
      BY <1>9, Starting
    <2>2. Tail(queue) \in Seq(Attempts)
      BY <2>1
    <2>3. QED
      BY <2>1, <2>2
  <1>10. ASSUME NEW a \in Attempts, GsWrites(a) PROVE TypeOK'
    BY <1>10, WrittenOutput DEF Contents, GsWrites
  <1>11. ASSUME NEW a \in Attempts, StageEnds(a) PROVE TypeOK'
    <2>1. PICK state \in {"running", "checking", "done", "timeout", "failed"} :
            job' = [job EXCEPT ![a] = Ended(state)]
      BY <1>11, StageEnding
    <2>2. job' \in [Attempts -> JobStates]
      BY <2>1, JobRecords DEF States, Stages
    <2>3. QED
      BY <1>11, <2>2, StageEnding
  <1>14. CASE BreakPool
    BY <1>14, Breaking DEF BreakPool, Running, InStage
  <1>15. ASSUME NEW a \in Attempts, LooseWrites(a) PROVE TypeOK'
    BY <1>15, WrittenOutput DEF Contents, LooseWrites
  <1>16. ASSUME NEW a \in Attempts, LooseEnds(a) PROVE TypeOK'
    BY <1>16 DEF LooseEnds
  <1>17. ASSUME NEW a \in Attempts, Janitor(a) PROVE TypeOK'
    BY <1>17 DEF Janitor, CleanupFile, OldInput, OldOutput
  <1>18. CASE Restart
    BY <1>18, JobRecords DEF Restart, OldInput, OldOutput
  <1>19. CASE Tick
    <2>1. client' \in [Attempts -> ClientStates]
      BY <1>19, Waiting DEF Tick
    <2>2. job' \in [Attempts -> JobStates]
      BY <1>19, Ticking
    <2>3. input' \in [Attempts -> {Null} \cup 0..TTL]
      BY <1>19 DEF Tick, Upto
    <2>4. \A o \in OutputStates : [o EXCEPT !.age = Upto(TTL, o.age)] \in OutputStates
      BY DEF OutputStates, Upto
    <2>5. output' \in [Attempts -> {Null} \cup OutputStates]
      BY <1>19, <2>4 DEF Tick
    <2>6. QED
      BY <1>19, <2>1, <2>2, <2>3, <2>5 DEF Tick
  <1>20. CASE UNCHANGED vars
    BY <1>20 DEF vars
  <1>21. QED
    BY <1>1, <1>2, <1>3, <1>4, <1>5, <1>6, <1>7, <1>8, <1>9, <1>10, <1>11, <1>14, <1>15, <1>16,
       <1>17, <1>18, <1>19, <1>20
       DEF Next, ClientStep, Worker

LEMMA StepFresh == TypeOK /\ FreshInv /\ QueueInv /\ [Next]_vars => FreshInv'
  <1> SUFFICES ASSUME TypeOK, FreshInv, QueueInv, [Next]_vars PROVE FreshInv'
    OBVIOUS
  <1> USE DEF TypeOK, service, Fault, FreshInv
  <1>1. ASSUME NEW a \in Attempts, NEW pdf, Begin(a, pdf) PROVE FreshInv'
    <2>1. client'[a].pc \in {"copy", "upload"}
      BY <1>1, ClientRecords DEF Begin, UploadOriginal, ClientStates
    <2>2. \A b \in Attempts : b # a => client'[b] = client[b]
      BY <1>1 DEF Begin, UploadOriginal
    <2>3. QED
      BY <1>1, <2>1, <2>2 DEF Begin
  <1>2. ASSUME NEW a \in Attempts, NEW age \in {0, TTL}, CopyInput(a, age) PROVE FreshInv'
    <2>1. client'[a].pc \in {"submit", "upload"}
      BY <1>2, ClientRecords DEF CopyInput, UploadOriginal, ClientStates
    <2>2. \A b \in Attempts : b # a => client'[b] = client[b]
      BY <1>2 DEF CopyInput, UploadOriginal
    <2>3. QED
      BY <1>2, <2>1, <2>2 DEF CopyInput
  <1>3. ASSUME NEW a \in Attempts, Submit(a) PROVE FreshInv'
    <2>1. client'[a].pc \in {"poll", "upload"}
      BY <1>3, ClientRecords DEF Submit, UploadOriginal, ClientStates
    <2>2. \A b \in Attempts : b # a => client'[b] = client[b] /\ job'[b] = job[b]
      BY <1>3 DEF Submit, UploadOriginal, Enqueue
    <2>3. QED
      BY <1>3, <2>1, <2>2 DEF Submit, Enqueue
  <1>4. ASSUME NEW a \in Attempts, Poll(a) PROVE FreshInv'
    <2>1. client'[a].pc = "upload" /\ \A b \in Attempts : b # a => client'[b] = client[b]
      <3>1. ASSUME NEW path, client' = [client EXCEPT ![a] = Uploading(path)]
            PROVE  client'[a].pc = "upload" /\ \A b \in Attempts : b # a => client'[b] = client[b]
        BY <3>1, ClientRecords
      <3>2. QED
        BY <1>4, <3>1 DEF Poll, UploadOriginal
    <2>2. QED
      BY <1>4, <2>1 DEF Poll
  <1>5. ASSUME NEW a \in Attempts, GiveUp(a) PROVE FreshInv'
    BY <1>5, ClientRecords DEF GiveUp, UploadOriginal
  <1>6. ASSUME NEW a \in Attempts, AnswerLost(a) PROVE FreshInv'
    BY <1>6, ClientRecords DEF AnswerLost, UploadOriginal, Enqueue
  <1>7. ASSUME NEW a \in Attempts, EndUpload(a) PROVE FreshInv'
    <2>1. client'[a].pc = "done"
      BY <1>7 DEF EndUpload, NoClient
    <2>2. QED
      BY <1>7, <2>1 DEF EndUpload
  <1>8. ASSUME NEW a \in Attempts, KillClient(a) PROVE FreshInv'
    <2>1. client'[a].pc = "dead"
      BY <1>8 DEF KillClient, NoClient
    <2>2. QED
      BY <1>8, <2>1 DEF KillClient
  <1>9. CASE StartJob
    <2>1. PICK h \in Attempts :
               /\ job[h].state = "queued"
               /\ \A b \in Attempts : b # h => job'[b] = job[b]
               /\ UNCHANGED <<client, known, loose>>
      BY <1>9, Starting
    <2>2. ASSUME NEW b \in Attempts, job[b] = NoJob PROVE job'[b] = NoJob
      BY <2>1, <2>2, JobRecords
    <2>3. client' = client /\ known' = known /\ loose' = loose
      BY <2>1
    <2>4. QED
      BY <2>2, <2>3
  <1>10. ASSUME NEW a \in Attempts, GsWrites(a) PROVE FreshInv'
    BY <1>10 DEF GsWrites
  <1>11. ASSUME NEW a \in Attempts, StageEnds(a) PROVE FreshInv'
    <2>1. job[a].state # "none" /\ \A b \in Attempts : b # a => job'[b] = job[b]
      BY <1>11, StageEnding DEF Started, Stages
    <2>2. UNCHANGED <<client, known, loose>>
      BY <1>11, StageEnding
    <2>3. QED
      BY <2>1, <2>2, JobRecords
  <1>14. CASE BreakPool
    <2>1. ASSUME NEW b \in Attempts, job[b] = NoJob PROVE job'[b] = NoJob /\ b \notin Running
      BY <1>14, <2>1, Breaking, JobRecords DEF Stages, Running, InStage
    <2>2. UNCHANGED <<client, known>> /\ loose' = loose \cup Running
      BY <1>14 DEF BreakPool
    <2>3. QED
      BY <2>1, <2>2
  <1>15. ASSUME NEW a \in Attempts, LooseWrites(a) PROVE FreshInv'
    BY <1>15 DEF LooseWrites
  <1>16. ASSUME NEW a \in Attempts, LooseEnds(a) PROVE FreshInv'
    BY <1>16 DEF LooseEnds
  <1>17. ASSUME NEW a \in Attempts, Janitor(a) PROVE FreshInv'
    BY <1>17 DEF Janitor, CleanupFile, OldInput, OldOutput
  <1>18. CASE Restart
    BY <1>18 DEF Restart, OldInput, OldOutput
  <1>19. CASE Tick
    <2>1. ASSUME NEW b \in Attempts, job[b] = NoJob PROVE job'[b] = NoJob
      BY <1>19, <2>1, Ticking, JobRecords DEF Started, Stages
    <2>2. \A b \in Attempts : client'[b].pc = client[b].pc
      BY <1>19, Waiting DEF Tick
    <2>3. UNCHANGED <<known, loose>>
      BY <1>19 DEF Tick
    <2>4. QED
      BY <2>1, <2>2, <2>3
  <1>20. CASE UNCHANGED vars
    BY <1>20 DEF vars
  <1>21. QED
    BY <1>1, <1>2, <1>3, <1>4, <1>5, <1>6, <1>7, <1>8, <1>9, <1>10, <1>11, <1>14, <1>15, <1>16,
       <1>17, <1>18, <1>19, <1>20
       DEF Next, ClientStep, Worker

\* A submitted job goes behind those that wait, and was not among them.
LEMMA EnqueueQueue ==
  ASSUME TypeOK, FreshInv, QueueInv, NEW a \in Attempts, client[a].pc = "submit", Enqueue(a)
  PROVE  QueueInv'
  <1>1. job[a] = NoJob /\ a \notin loose
    BY DEF FreshInv
  <1>2. \A k \in 1..Len(queue) : queue[k] \in Attempts /\ queue[k] # a
    BY <1>1, JobRecords DEF TypeOK, QueueInv
  <1>3. /\ Len(queue') = Len(queue) + 1 /\ queue'[Len(queue) + 1] = a
        /\ \A k \in 1..Len(queue) : queue'[k] = queue[k]
    BY DEF Enqueue, TypeOK
  <1>4. Len(queue) \in Nat
    BY DEF TypeOK
  <1>5. /\ job'[a].state = "queued"
        /\ \A b \in Attempts : b # a => job'[b] = job[b]
    BY DEF Enqueue, TypeOK, JobStates
  <1>6. \A k \in 1..Len(queue') : k \in 1..Len(queue) \/ k = Len(queue) + 1
    BY <1>3, <1>4
  <1>7. \A k \in 1..Len(queue') : job'[queue'[k]].state = "queued"
    BY <1>2, <1>3, <1>5, <1>6 DEF QueueInv
  <1>8. \A j, k \in 1..Len(queue') : queue'[j] = queue'[k] => j = k
    BY <1>2, <1>3, <1>6 DEF QueueInv
  <1>9. \A b \in loose' : job'[b].state = "failed"
    BY <1>1, <1>5 DEF Enqueue, QueueInv, TypeOK
  <1>10. \A b \in known' : job'[b].state # "none"
    BY <1>5 DEF Enqueue, QueueInv, TypeOK
  <1>11. QED
    BY <1>7, <1>8, <1>9, <1>10 DEF QueueInv

LEMMA StepQueue == TypeOK /\ FreshInv /\ QueueInv /\ [Next]_vars => QueueInv'
  <1> SUFFICES ASSUME TypeOK, FreshInv, QueueInv, [Next]_vars PROVE QueueInv'
    OBVIOUS
  <1> USE DEF TypeOK, service, Fault
  <1>1. ASSUME NEW a \in Attempts, NEW pdf, Begin(a, pdf) PROVE QueueInv'
    BY <1>1 DEF QueueInv, Begin, UploadOriginal
  <1>2. ASSUME NEW a \in Attempts, NEW age \in {0, TTL}, CopyInput(a, age) PROVE QueueInv'
    BY <1>2 DEF QueueInv, CopyInput, UploadOriginal
  <1>3. ASSUME NEW a \in Attempts, Submit(a) PROVE QueueInv'
    <2>1. CASE Enqueue(a) /\ client[a].pc = "submit"
      BY <2>1, EnqueueQueue
    <2>2. CASE UNCHANGED service
      BY <2>2 DEF QueueInv
    <2>3. QED
      BY <1>3, <2>1, <2>2 DEF Submit
  <1>4. ASSUME NEW a \in Attempts, Poll(a) PROVE QueueInv'
    BY <1>4 DEF QueueInv, Poll, PollDone, UploadOriginal
  <1>5. ASSUME NEW a \in Attempts, GiveUp(a) PROVE QueueInv'
    BY <1>5 DEF QueueInv, GiveUp, UploadOriginal
  <1>6. ASSUME NEW a \in Attempts, AnswerLost(a) PROVE QueueInv'
    <2>1. CASE Enqueue(a) /\ client[a].pc = "submit"
      BY <2>1, EnqueueQueue
    <2>2. CASE UNCHANGED service
      BY <2>2 DEF QueueInv
    <2>3. QED
      BY <1>6, <2>1, <2>2 DEF AnswerLost
  <1>7. ASSUME NEW a \in Attempts, EndUpload(a) PROVE QueueInv'
    BY <1>7 DEF QueueInv, EndUpload, RemoveFiles
  <1>8. ASSUME NEW a \in Attempts, KillClient(a) PROVE QueueInv'
    BY <1>8 DEF QueueInv, KillClient
  <1>9. CASE StartJob
    <2>1. PICK h \in Attempts, state \in {"counting", "running", "failed"} :
               /\ h = queue[1] /\ 1 \in 1..Len(queue) /\ queue' = Tail(queue)
               /\ job[h].state = "queued" /\ job'[h].state = state
               /\ \A b \in Attempts : b # h => job'[b] = job[b]
               /\ UNCHANGED <<known, loose>>
      BY <1>9, Starting
    <2>2. /\ Len(queue) \in Nat /\ Len(Tail(queue)) = Len(queue) - 1
          /\ \A k \in 1..Len(Tail(queue)) : Tail(queue)[k] = queue[k + 1] /\ queue[k + 1] \in Attempts
      BY <2>1
    <2>3. \A k \in 1..Len(queue') : k + 1 \in 1..Len(queue) /\ queue'[k] = queue[k + 1] /\ queue'[k] \in Attempts
      BY <2>1, <2>2
    <2>4. \A k \in 1..Len(queue') : k + 1 # 1 /\ queue'[k] # h
      BY <2>1, <2>3 DEF QueueInv
    <2>5. ASSUME NEW k \in 1..Len(queue') PROVE job'[queue'[k]].state = "queued"
      <3>1. job'[queue'[k]] = job[queue[k + 1]]
        BY <2>1, <2>3, <2>4
      <3>2. job[queue[k + 1]].state = "queued"
        BY <2>3 DEF QueueInv
      <3>3. QED
        BY <3>1, <3>2
    <2>6. \A j, k \in 1..Len(queue') : queue'[j] = queue'[k] => j = k
      BY <2>3 DEF QueueInv
    <2>7. \A b \in loose' : job'[b].state = "failed"
      BY <2>1 DEF QueueInv
    <2>8. \A b \in known' : job'[b].state # "none"
      BY <2>1 DEF QueueInv
    <2>9. QED
      BY <2>5, <2>6, <2>7, <2>8 DEF QueueInv
  <1>10. ASSUME NEW a \in Attempts, GsWrites(a) PROVE QueueInv'
    BY <1>10 DEF QueueInv, GsWrites
  <1>11. ASSUME NEW a \in Attempts, StageEnds(a) PROVE QueueInv'
    <2>1. a \in Started /\ \A b \in Attempts : b # a => job'[b] = job[b]
      BY <1>11, StageEnding
    <2>2. /\ job[a].state \notin {"queued", "failed"} /\ a \notin loose
          /\ \A k \in 1..Len(queue) : queue[k] # a /\ queue[k] \in Attempts
      BY <2>1 DEF Started, Stages, QueueInv
    <2>3. job'[a].state # "none"
      BY <1>11, StageEnding, JobRecords
    <2>4. UNCHANGED <<queue, known, loose>>
      BY <1>11, StageEnding
    <2>5. \A k \in 1..Len(queue') : job'[queue'[k]].state = "queued"
      BY <2>1, <2>2, <2>4 DEF QueueInv
    <2>6. \A b \in loose' : job'[b].state = "failed"
      BY <2>1, <2>2, <2>4 DEF QueueInv
    <2>7. \A b \in known' : job'[b].state # "none"
      BY <2>1, <2>3, <2>4 DEF QueueInv
    <2>8. QED
      BY <2>4, <2>5, <2>6, <2>7 DEF QueueInv
  <1>14. CASE BreakPool
    <2>1. \A b \in Attempts : job'[b].state = (IF job[b].state \in Stages \cup {"queued"}
                                             THEN "failed" ELSE job[b].state)
      BY <1>14, Breaking, JobRecords
    <2>2. queue' = <<>> /\ known' = known /\ loose' = loose \cup Running
      BY <1>14 DEF BreakPool
    <2>3. \A b \in Running : job'[b].state = "failed"
      BY <2>1 DEF Running, InStage, Stages
    <2>4. \A b \in loose : job'[b].state = "failed"
      BY <2>1 DEF QueueInv
    <2>5. \A b \in known : job'[b].state # "none"
      BY <2>1 DEF QueueInv
    <2>6. QED
      BY <2>2, <2>3, <2>4, <2>5 DEF QueueInv
  <1>15. ASSUME NEW a \in Attempts, LooseWrites(a) PROVE QueueInv'
    BY <1>15 DEF QueueInv, LooseWrites
  <1>16. ASSUME NEW a \in Attempts, LooseEnds(a) PROVE QueueInv'
    BY <1>16 DEF QueueInv, LooseEnds
  <1>17. ASSUME NEW a \in Attempts, Janitor(a) PROVE QueueInv'
    BY <1>17 DEF QueueInv, Janitor, CleanupFile, OldInput, OldOutput
  <1>18. CASE Restart
    BY <1>18, JobRecords DEF QueueInv, Restart, OldInput, OldOutput
  <1>19. CASE Tick
    <2>1. \A b \in Attempts : job'[b].state = job[b].state
      BY <1>19, Ticking
    <2>2. QED
      BY <1>19, <2>1 DEF Tick, QueueInv
  <1>20. CASE UNCHANGED vars
    BY <1>20 DEF vars, QueueInv
  <1>21. QED
    BY <1>1, <1>2, <1>3, <1>4, <1>5, <1>6, <1>7, <1>8, <1>9, <1>10, <1>11, <1>14, <1>15, <1>16,
       <1>17, <1>18, <1>19, <1>20
       DEF Next, ClientStep, Worker

LEMMA StepStage == TypeOK /\ FreshInv /\ QueueInv /\ StageInv /\ [Next]_vars => StageInv'
  <1> SUFFICES ASSUME TypeOK, FreshInv, QueueInv, StageInv, [Next]_vars PROVE StageInv'
    OBVIOUS
  <1> USE DEF TypeOK, service, Fault
  <1>1. ASSUME NEW a \in Attempts, NEW pdf, Begin(a, pdf) PROVE StageInv'
    BY <1>1, StageFrame DEF StageInv, Begin
  <1>2. ASSUME NEW a \in Attempts, NEW age \in {0, TTL}, CopyInput(a, age) PROVE StageInv'
    BY <1>2, StageFrame DEF StageInv, CopyInput
  <1>3. ASSUME NEW a \in Attempts, Submit(a) PROVE StageInv'
    <2>1. CASE Enqueue(a) /\ client[a].pc = "submit"
      <3>1. job'[a].state = "queued" /\ job'[a].ran = 0
        BY <2>1, EnqueueFrame DEF FreshInv, NoJob
      <3>2. StageOf(a)'
        BY <3>1 DEF StageOf, Stages
      <3>3. QED
        BY <2>1, <3>2, EnqueueFrame, StageFrame DEF StageInv
    <2>2. CASE UNCHANGED job
      BY <2>2, StageFrame DEF StageInv
    <2>3. QED
      BY <1>3, <2>1, <2>2 DEF Submit
  <1>4. ASSUME NEW a \in Attempts, Poll(a) PROVE StageInv'
    BY <1>4, StageFrame DEF StageInv, Poll
  <1>5. ASSUME NEW a \in Attempts, GiveUp(a) PROVE StageInv'
    BY <1>5, StageFrame DEF StageInv, GiveUp
  <1>6. ASSUME NEW a \in Attempts, AnswerLost(a) PROVE StageInv'
    <2>1. CASE Enqueue(a) /\ client[a].pc = "submit"
      <3>1. job'[a].state = "queued" /\ job'[a].ran = 0
        BY <2>1, EnqueueFrame DEF FreshInv, NoJob
      <3>2. StageOf(a)'
        BY <3>1 DEF StageOf, Stages
      <3>3. QED
        BY <2>1, <3>2, EnqueueFrame, StageFrame DEF StageInv
    <2>2. CASE UNCHANGED job
      BY <2>2, StageFrame DEF StageInv
    <2>3. QED
      BY <1>6, <2>1, <2>2 DEF AnswerLost
  <1>7. ASSUME NEW a \in Attempts, EndUpload(a) PROVE StageInv'
    BY <1>7, StageFrame DEF StageInv, EndUpload
  <1>8. ASSUME NEW a \in Attempts, KillClient(a) PROVE StageInv'
    BY <1>8, StageFrame DEF StageInv, KillClient
  <1>9. CASE StartJob
    <2>1. PICK h \in Attempts, state \in {"counting", "running", "failed"} :
               /\ job[h].state = "queued" /\ job'[h].state = state /\ job'[h].ran = job[h].ran
               /\ state = "counting" => h \in RasterAttempts
               /\ \A b \in Attempts : b # h => job'[b] = job[b]
      BY <1>9, Starting
    <2>2. job'[h].ran = 0
      BY <2>1 DEF StageInv, StageOf
    <2>3. StageOf(h)'
      BY <2>1, <2>2 DEF StageOf, Stages, Limit
    <2>4. QED
      BY <2>1, <2>3, StageFrame DEF StageInv
  <1>10. ASSUME NEW a \in Attempts, GsWrites(a) PROVE StageInv'
    BY <1>10, StageFrame DEF StageInv, GsWrites
  <1>11. ASSUME NEW a \in Attempts, StageEnds(a) PROVE StageInv'
    <2>1. PICK state \in {"running", "checking", "done", "timeout", "failed"} :
            job'[a] = Ended(state) /\ (state = "checking" => a \in RasterAttempts)
      BY <1>11, StageEnding
    <2>2. job'[a].state = state /\ job'[a].ran = 0
      BY <2>1, JobRecords
    <2>3. StageOf(a)'
      BY <2>1, <2>2 DEF StageOf, Limit
    <2>4. QED
      BY <1>11, <2>3, StageEnding, StageFrame DEF StageInv
  <1>14. CASE BreakPool
    <2> SUFFICES ASSUME NEW b \in Attempts PROVE StageOf(b)'
      BY DEF StageInv
    <2>1. CASE job'[b] = Ended("failed")
      <3>1. job'[b].state = "failed"
        BY <2>1, JobRecords
      <3>2. QED
        BY <3>1 DEF StageOf, Stages
    <2>2. CASE job'[b] = job[b]
      BY <2>2, StageFrame DEF StageInv
    <2>3. QED
      BY <1>14, <2>1, <2>2, Breaking
  <1>15. ASSUME NEW a \in Attempts, LooseWrites(a) PROVE StageInv'
    BY <1>15, StageFrame DEF StageInv, LooseWrites
  <1>16. ASSUME NEW a \in Attempts, LooseEnds(a) PROVE StageInv'
    BY <1>16, StageFrame DEF StageInv, LooseEnds
  <1>17. ASSUME NEW a \in Attempts, Janitor(a) PROVE StageInv'
    BY <1>17, StageFrame DEF StageInv, Janitor
  <1>18. CASE Restart
    <2>1. \A b \in Attempts : job'[b].state = "none"
      BY <1>18, JobRecords DEF Restart
    <2>2. QED
      BY <2>1 DEF StageInv, StageOf, Stages
  <1>19. CASE Tick
    <2> SUFFICES ASSUME NEW b \in Attempts PROVE StageOf(b)'
      BY DEF StageInv
    <2>1. CASE b \in Started
      <3>1. job[b].ran \in Nat /\ job'[b].state = job[b].state /\ job'[b].ran = job[b].ran + 1
        BY <1>19, <2>1, Ticking, JobRecords
      <3>2. job[b].ran < Limit(job[b].state)
        BY <1>19, <2>1, <3>1 DEF Tick, Due, Overdue, Limit
      <3>3. job[b].ran + 1 <= Limit(job[b].state) /\ job[b].state # "queued"
        BY <2>1, <3>1, <3>2 DEF Limit, Started, Stages
      <3>4. QED
        BY <3>1, <3>3 DEF StageInv, StageOf, Limit
    <2>2. CASE b \notin Started
      BY <1>19, <2>2, Ticking, StageFrame DEF StageInv
    <2>3. QED
      BY <2>1, <2>2
  <1>20. CASE UNCHANGED vars
    BY <1>20, StageFrame DEF vars, StageInv
  <1>21. QED
    BY <1>1, <1>2, <1>3, <1>4, <1>5, <1>6, <1>7, <1>8, <1>9, <1>10, <1>11, <1>14, <1>15, <1>16,
       <1>17, <1>18, <1>19, <1>20
       DEF Next, ClientStep, Worker

\* An output that is to be taken, or is being uploaded, is too young for the janitor.
LEMMA YoungOutput ==
  ASSUME TypeOK, OutputInv, NEW a \in Attempts,
         \/ client[a].pc = "poll" /\ job[a].state = "done"
         \/ client[a].pc = "upload" /\ client[a].path = "output"
  PROVE  ~OldOutput(a)
  <1>1. client[a].waited \in Nat
    BY DEF TypeOK, ClientStates
  <1>2. output[a] \in OutputStates /\ output[a].age <= PdfinfoTimeout + UploadTime
    <2>1. CASE client[a].pc = "poll" /\ job[a].state = "done"
      <3>1. output[a] \in OutputStates /\ output[a].age <= PdfinfoTimeout
        BY <2>1 DEF OutputInv, OutputOf
      <3>2. output[a].age \in 0..TTL
        BY <3>1, OutputRecords
      <3>3. QED
        BY <3>1, <3>2
    <2>2. CASE client[a].pc = "upload" /\ client[a].path = "output"
      <3>1. output[a] \in OutputStates /\ output[a].age <= PdfinfoTimeout + client[a].waited
            /\ client[a].waited <= UploadTime
        BY <2>2 DEF OutputInv, OutputOf
      <3>2. output[a].age \in 0..TTL
        BY <3>1, OutputRecords
      <3>3. QED
        BY <1>1, <3>1, <3>2
    <2>3. QED
      BY <2>1, <2>2
  <1>3. output[a].age \in 0..TTL
    BY <1>2, OutputRecords
  <1>4. output[a].age < TTL
    BY <1>2, <1>3
  <1>5. QED
    BY <1>3, <1>4 DEF OldOutput

LEMMA StepOutput == TypeOK /\ FreshInv /\ QueueInv /\ StageInv /\ OutputInv /\ [Next]_vars => OutputInv'
  <1> SUFFICES ASSUME TypeOK, FreshInv, QueueInv, StageInv, OutputInv, [Next]_vars PROVE OutputInv'
    OBVIOUS
  <1> USE DEF TypeOK, service, Fault
  <1>1. ASSUME NEW a \in Attempts, NEW pdf, Begin(a, pdf) PROVE OutputInv'
    <2>1. CASE UploadOriginal(a)
      BY <1>1, <2>1, OriginalFrame, OutputFrame DEF Begin, OutputInv
    <2>2. CASE client' = [client EXCEPT ![a].pc = "copy"]
      <3>1. client'[a].pc = "copy" /\ \A b \in Attempts : b # a => client'[b] = client[b]
        BY <2>2 DEF ClientStates
      <3>2. OutputOf(a)'
        BY <1>1, <3>1 DEF Begin, OutputInv, OutputOf
      <3>3. QED
        BY <1>1, <3>1, <3>2, OutputFrame DEF Begin, OutputInv
    <2>3. QED
      BY <1>1, <2>1, <2>2 DEF Begin
  <1>2. ASSUME NEW a \in Attempts, NEW age \in {0, TTL}, CopyInput(a, age) PROVE OutputInv'
    <2>1. CASE UploadOriginal(a)
      BY <1>2, <2>1, OriginalFrame, OutputFrame DEF CopyInput, OutputInv
    <2>2. CASE client' = [client EXCEPT ![a].pc = "submit"]
      <3>1. client'[a].pc = "submit" /\ \A b \in Attempts : b # a => client'[b] = client[b]
        BY <2>2 DEF ClientStates
      <3>2. OutputOf(a)'
        BY <1>2, <3>1 DEF CopyInput, OutputInv, OutputOf
      <3>3. QED
        BY <1>2, <3>1, <3>2, OutputFrame DEF CopyInput, OutputInv
    <2>3. QED
      BY <1>2, <2>1, <2>2 DEF CopyInput
  <1>3. ASSUME NEW a \in Attempts, Submit(a) PROVE OutputInv'
    <2>1. CASE UploadOriginal(a) /\ UNCHANGED service
      BY <1>3, <2>1, OriginalFrame, OutputFrame DEF Submit, OutputInv
    <2>2. CASE Enqueue(a) /\ client' = [client EXCEPT ![a].pc = "poll"]
      <3>1. client'[a].pc = "poll" /\ \A b \in Attempts : b # a => client'[b] = client[b]
        BY <2>2 DEF ClientStates
      <3>2. OutputOf(a)'
        BY <2>2, <3>1, EnqueueFrame DEF OutputOf
      <3>3. QED
        BY <1>3, <2>2, <3>1, <3>2, EnqueueFrame, OutputFrame DEF Submit, OutputInv
    <2>3. QED
      BY <1>3, <2>1, <2>2 DEF Submit
  <1>4. ASSUME NEW a \in Attempts, Poll(a) PROVE OutputInv'
    <2>1. CASE UploadOriginal(a)
      BY <1>4, <2>1, OriginalFrame, OutputFrame DEF Poll, OutputInv
    <2>2. CASE PollDone(a) /\ client' = [client EXCEPT ![a] = Uploading("output")]
      <3>1. client'[a] = Uploading("output") /\ \A b \in Attempts : b # a => client'[b] = client[b]
        BY <2>2
      <3>2. output[a] \in OutputStates /\ output[a].content \in Usable(a)
            /\ output[a].age <= PdfinfoTimeout /\ output[a].age \in 0..TTL
        BY <1>4, <2>2, OutputRecords DEF Poll, PollDone, OutputInv, OutputOf
      <3>3. OutputOf(a)'
        <4>1. client'[a].pc = "upload" /\ client'[a].waited = 0 /\ client'[a].path = "output"
          BY <3>1, ClientRecords
        <4>2. job'[a] = job[a] /\ output'[a] = output[a] /\ job[a].state = "done"
          BY <1>4, <2>2 DEF Poll, PollDone
        <4>3. output'[a].age <= PdfinfoTimeout + client'[a].waited
          BY <3>2, <4>1, <4>2
        <4>4. QED
          BY <3>2, <4>1, <4>2, <4>3 DEF OutputOf
      <3>4. QED
        BY <1>4, <3>1, <3>3, OutputFrame DEF Poll, OutputInv
    <2>3. QED
      BY <1>4, <2>1, <2>2 DEF Poll
  <1>5. ASSUME NEW a \in Attempts, GiveUp(a) PROVE OutputInv'
    BY <1>5, OriginalFrame, OutputFrame DEF GiveUp, OutputInv
  <1>6. ASSUME NEW a \in Attempts, AnswerLost(a) PROVE OutputInv'
    <2>1. UploadOriginal(a) /\ output' = output
      BY <1>6 DEF AnswerLost
    <2>2. CASE UNCHANGED service
      BY <2>1, <2>2, OriginalFrame, OutputFrame DEF OutputInv
    <2>3. CASE Enqueue(a)
      BY <2>1, <2>3, OriginalFrame, EnqueueFrame, OutputFrame DEF OutputInv
    <2>4. QED
      BY <1>6, <2>2, <2>3 DEF AnswerLost
  <1>7. ASSUME NEW a \in Attempts, EndUpload(a) PROVE OutputInv'
    <2>1. /\ client'[a].pc = "done" /\ output'[a] = Null
          /\ \A b \in Attempts : b # a => client'[b] = client[b] /\ output'[b] = output[b]
      BY <1>7 DEF EndUpload, RemoveFiles, NoClient
    <2>2. OutputOf(a)'
      BY <2>1 DEF OutputOf
    <2>3. QED
      BY <1>7, <2>1, <2>2, OutputFrame DEF EndUpload, OutputInv
  <1>8. ASSUME NEW a \in Attempts, KillClient(a) PROVE OutputInv'
    <2>1. client'[a].pc = "dead" /\ \A b \in Attempts : b # a => client'[b] = client[b] /\ output'[b] = output[b]
      BY <1>8 DEF KillClient, NoClient
    <2>2. OutputOf(a)'
      BY <1>8, <2>1 DEF KillClient, OutputInv, OutputOf
    <2>3. QED
      BY <1>8, <2>1, <2>2, OutputFrame DEF KillClient, OutputInv
  <1>9. CASE StartJob
    <2>1. PICK h \in Attempts, state \in {"counting", "running", "failed"} :
               /\ job[h].state = "queued" /\ job'[h].state = state
               /\ \A b \in Attempts : b # h => job'[b] = job[b]
               /\ UNCHANGED <<client, output>>
      BY <1>9, Starting
    <2>2. OutputOf(h)'
      BY <2>1 DEF OutputInv, OutputOf
    <2>3. QED
      BY <2>1, <2>2, OutputFrame DEF OutputInv
  <1>10. ASSUME NEW a \in Attempts, GsWrites(a) PROVE OutputInv'
    <2>1. job[a].state = "running" /\ \A b \in Attempts : b # a => output'[b] = output[b]
      BY <1>10 DEF GsWrites, Running, InStage
    <2>2. OutputOf(a)'
      BY <1>10, <2>1 DEF GsWrites, OutputInv, OutputOf
    <2>3. QED
      BY <1>10, <2>1, <2>2, OutputFrame DEF GsWrites, OutputInv
  <1>11. ASSUME NEW a \in Attempts, StageEnds(a) PROVE OutputInv'
    <2>1. /\ a \in Started /\ UNCHANGED client
          /\ \A b \in Attempts : b # a => output'[b] = output[b] /\ job'[b] = job[b]
      BY <1>11, StageEnding
    <2>2. PICK state \in {"running", "checking", "done", "timeout", "failed"} :
            /\ job'[a] = Ended(state)
            /\ state = "checking" => output'[a] \in OutputStates /\ output'[a].age = 0
            /\ state = "done" =>
                 \/ /\ output'[a] \in OutputStates /\ output'[a].content \in Usable(a)
                    /\ output'[a].age = 0
                 \/ job[a].state = "checking" /\ output' = output /\ Content(a) = "good"
      BY <1>11, StageEnding
    <2>3. job'[a].state = state /\ job'[a].ran = 0
      BY <2>2, JobRecords
    <2>4. job[a].state \notin {"done", "none"}
      BY <2>1 DEF Started, Stages
    <2>5. ASSUME state = "done"
          PROVE  output'[a] \in OutputStates /\ output'[a].content \in Usable(a)
                   /\ output'[a].age <= PdfinfoTimeout
      <3>1. CASE output'[a].age = 0 /\ output'[a] \in OutputStates /\ output'[a].content \in Usable(a)
        BY <3>1
      <3>2. CASE job[a].state = "checking" /\ output' = output /\ Content(a) = "good"
        <4>1. output[a] # Null /\ output[a].content = "good"
          BY <3>2 DEF Content
        <4>2. output[a] \in OutputStates
          BY <4>1
        <4>3. output[a].age <= job[a].ran /\ job[a].ran <= PdfinfoTimeout
          BY <3>2, <4>1 DEF OutputInv, OutputOf, StageInv, StageOf, Stages, Limit
        <4>4. output[a].age \in Int /\ job[a].ran \in Int
            <5>1. output[a].age \in 0..TTL
            BY <4>2, OutputRecords
          <5>2. job[a].ran \in Nat
            BY TypedParts
          <5>3. QED
            BY <5>1, <5>2
        <4>5. QED
          BY <3>2, <4>1, <4>2, <4>3, <4>4 DEF Usable
      <3>3. QED
        BY <2>2, <2>5, <3>1, <3>2
    <2>6. OutputOf(a)'
      BY <2>1, <2>2, <2>3, <2>4, <2>5 DEF OutputInv, OutputOf
    <2>7. QED
      BY <2>1, <2>6, OutputFrame DEF OutputInv
  <1>14. CASE BreakPool
    <2>1. UNCHANGED <<client, output>>
      BY <1>14 DEF BreakPool
    <2>2. ASSUME NEW b \in Attempts PROVE OutputOf(b)'
      <3>1. CASE job'[b] = job[b]
        BY <2>1, <3>1, OutputFrame DEF OutputInv
      <3>2. CASE job[b].state \in Stages \cup {"queued"} /\ job'[b] = Ended("failed")
        <4>1. job'[b].state = "failed" /\ job[b].state \notin {"done", "none"}
          BY <3>2, JobRecords DEF Stages
        <4>2. QED
          BY <2>1, <4>1 DEF OutputInv, OutputOf
      <3>3. QED
        BY <1>14, <3>1, <3>2, Breaking
    <2>3. QED
      BY <2>2 DEF OutputInv
  <1>15. ASSUME NEW a \in Attempts, LooseWrites(a) PROVE OutputInv'
    <2>1. job[a].state = "failed" /\ \A b \in Attempts : b # a => output'[b] = output[b]
      BY <1>15 DEF LooseWrites, QueueInv
    <2>2. OutputOf(a)'
      BY <1>15, <2>1 DEF LooseWrites, OutputInv, OutputOf
    <2>3. QED
      BY <1>15, <2>1, <2>2, OutputFrame DEF LooseWrites, OutputInv
  <1>16. ASSUME NEW a \in Attempts, LooseEnds(a) PROVE OutputInv'
    BY <1>16, OutputFrame DEF LooseEnds, OutputInv
  <1>17. ASSUME NEW a \in Attempts, Janitor(a) PROVE OutputInv'
    <2>1. ASSUME \/ client[a].pc = "poll" /\ job[a].state = "done"
                 \/ client[a].pc = "upload" /\ client[a].path = "output"
          PROVE  ~OldOutput(a)
      BY <2>1, YoungOutput
    <2>2. OutputOf(a)'
      BY <1>17, <2>1 DEF Janitor, CleanupFile, OutputInv, OutputOf
    <2>3. \A b \in Attempts : b # a => output'[b] = output[b]
      BY <1>17 DEF Janitor, CleanupFile
    <2>4. QED
      BY <1>17, <2>2, <2>3, OutputFrame DEF Janitor, OutputInv
  <1>18. CASE Restart
    <2>1. ASSUME NEW b \in Attempts, client[b].pc = "upload", client[b].path = "output" PROVE ~OldOutput(b)
      BY <2>1, YoungOutput
    <2>2. \A b \in Attempts : job'[b].state = "none"
      BY <1>18, JobRecords DEF Restart
    <2>3. ASSUME NEW b \in Attempts PROVE OutputOf(b)'
      BY <1>18, <2>1, <2>2 DEF Restart, OutputInv, OutputOf
    <2>4. QED
      BY <2>3 DEF OutputInv
  <1>19. CASE Tick
    <2> SUFFICES ASSUME NEW b \in Attempts PROVE OutputOf(b)'
      BY DEF OutputInv
    <2>1. job'[b].state = job[b].state /\ client'[b] = Waits(b)
      BY <1>19, Ticking DEF Tick
    <2>2. client'[b].pc = client[b].pc /\ client'[b].path = client[b].path
      BY <2>1, Waiting
    <2>3. ASSUME output[b] # Null
          PROVE  /\ output'[b] \in OutputStates /\ output'[b].content = output[b].content
                 /\ output[b].age \in Nat /\ output'[b].age \in Nat /\ output'[b].age <= output[b].age + 1
      <3>1. output[b] \in OutputStates /\ output'[b] = [output[b] EXCEPT !.age = Upto(TTL, output[b].age)]
        BY <1>19, <2>3 DEF Tick
      <3>2. output[b].age \in 0..TTL /\ output'[b].age = Upto(TTL, output[b].age)
        BY <3>1, OutputRecords
      <3>3. QED
        BY <3>1, <3>2, OutputRecords DEF Upto
    <2>4. output[b] = Null => output'[b] = Null
      BY <1>19 DEF Tick
    <2>5. ASSUME job[b].state = "checking", output[b] # Null
          PROVE  output'[b].age <= job'[b].ran
      <3>1. job'[b].ran = job[b].ran + 1 /\ job[b].ran \in Nat
        BY <1>19, <2>5, Ticking, JobRecords DEF Started, Stages
      <3>2. output[b].age <= job[b].ran
        BY <2>5 DEF OutputInv, OutputOf
      <3>3. QED
        BY <2>3, <2>5, <3>1, <3>2
    <2>6. client[b].pc = "poll" => job[b].state # "done"
      BY <1>19 DEF Tick, Due, AnswerDue, Finished
    <2>7. ASSUME client[b].pc = "upload"
          PROVE  /\ client[b].waited \in Nat /\ client'[b].waited = client[b].waited + 1
                 /\ client'[b].waited <= UploadTime
      <3>1. client[b].waited \in Nat /\ client[b].waited < UploadTime
        BY <1>19, <2>7 DEF Tick, Due, ClientStates
      <3>2. client'[b].waited = client[b].waited + 1
        BY <2>1, <2>7, Waiting
      <3>3. QED
        BY <3>1, <3>2
    <2>8. ASSUME client[b].pc = "upload", client[b].path = "output"
          PROVE  /\ output'[b] \in OutputStates /\ output'[b].content \in Usable(b)
                 /\ output'[b].age <= PdfinfoTimeout + client'[b].waited
                 /\ job[b].state \in {"done", "none"}
      <3>1. /\ output[b] \in OutputStates /\ output[b].content \in Usable(b)
            /\ output[b].age <= PdfinfoTimeout + client[b].waited /\ job[b].state \in {"done", "none"}
        BY <2>8 DEF OutputInv, OutputOf
      <3>2. output[b] # Null
        BY <3>1, OutputRecords
      <3>3. /\ client[b].waited \in Nat /\ client'[b].waited = client[b].waited + 1
            /\ output[b].age \in Nat /\ output'[b].age \in Nat /\ output'[b].age <= output[b].age + 1
        BY <2>3, <2>7, <2>8, <3>2
      <3>4. output'[b].age <= PdfinfoTimeout + client'[b].waited
        BY <3>1, <3>3
      <3>5. output'[b] \in OutputStates /\ output'[b].content \in Usable(b)
        BY <2>3, <3>1, <3>2
      <3>6. QED
        BY <3>1, <3>4, <3>5
    <2>9. job'[b].state = "checking" /\ output'[b] # Null => output'[b].age <= job'[b].ran
      BY <2>1, <2>4, <2>5
    <2>10. QED
      BY <2>1, <2>2, <2>6, <2>7, <2>8, <2>9 DEF OutputOf
  <1>20. CASE UNCHANGED vars
    BY <1>20 DEF vars, OutputInv, OutputOf
  <1>21. QED
    BY <1>1, <1>2, <1>3, <1>4, <1>5, <1>6, <1>7, <1>8, <1>9, <1>10, <1>11, <1>14, <1>15, <1>16,
       <1>17, <1>18, <1>19, <1>20
       DEF Next, ClientStep, Worker

LEMMA StepWait == TypeOK /\ FreshInv /\ QueueInv /\ StageInv /\ OutputInv /\ WaitInv /\ [Next]_vars => WaitInv'
  <1> SUFFICES ASSUME TypeOK, FreshInv, QueueInv, StageInv, OutputInv, WaitInv, [Next]_vars PROVE WaitInv'
    OBVIOUS
  <1> USE DEF TypeOK, service, Fault
  <1>1. ASSUME NEW a \in Attempts, NEW pdf, Begin(a, pdf) PROVE WaitInv'
    <2>1. CASE UploadOriginal(a)
      BY <1>1, <2>1, OriginalFrame, WaitFrame DEF Begin, OutputInv, WaitInv
    <2>2. CASE client' = [client EXCEPT ![a].pc = "copy"]
      <3>1. /\ client'[a].pc = "copy" /\ client'[a].waited = client[a].waited
            /\ client'[a].path = client[a].path
            /\ \A b \in Attempts : b # a => client'[b] = client[b]
        BY <2>2 DEF ClientStates
      <3>2. WaitOf(a)'
        BY <1>1, <3>1 DEF Begin, WaitInv, WaitOf
      <3>3. QED
        BY <1>1, <3>1, <3>2, WaitFrame DEF Begin, WaitInv
    <2>3. QED
      BY <1>1, <2>1, <2>2 DEF Begin
  <1>2. ASSUME NEW a \in Attempts, NEW age \in {0, TTL}, CopyInput(a, age) PROVE WaitInv'
    <2>1. CASE UploadOriginal(a)
      BY <1>2, <2>1, OriginalFrame, WaitFrame DEF CopyInput, OutputInv, WaitInv
    <2>2. CASE client' = [client EXCEPT ![a].pc = "submit"]
      <3>1. /\ client'[a].pc = "submit" /\ client'[a].waited = client[a].waited
            /\ client'[a].path = client[a].path
            /\ \A b \in Attempts : b # a => client'[b] = client[b]
        BY <2>2 DEF ClientStates
      <3>2. WaitOf(a)'
        BY <1>2, <3>1 DEF CopyInput, WaitInv, WaitOf
      <3>3. QED
        BY <1>2, <3>1, <3>2, WaitFrame DEF CopyInput, WaitInv
    <2>3. QED
      BY <1>2, <2>1, <2>2 DEF CopyInput
  <1>3. ASSUME NEW a \in Attempts, Submit(a) PROVE WaitInv'
    <2>1. CASE UploadOriginal(a) /\ UNCHANGED service
      BY <1>3, <2>1, OriginalFrame, WaitFrame DEF Submit, OutputInv, WaitInv
    <2>2. CASE Enqueue(a) /\ client' = [client EXCEPT ![a].pc = "poll"]
      <3>1. /\ client'[a].pc = "poll" /\ client'[a].waited = client[a].waited
            /\ client'[a].path = client[a].path
            /\ \A b \in Attempts : b # a => client'[b] = client[b]
        BY <2>2 DEF ClientStates
      <3>2. client[a].waited = 0 /\ client[a].path = Null
        BY <1>3 DEF Submit, WaitInv, WaitOf
      <3>3. job'[a].state = "queued" /\ client'[a].queued \in Nat
        BY <1>3, <2>2, EnqueueFrame, StepTyped DEF ClientStates
      <3>4. WaitOf(a)'
        BY <3>1, <3>2, <3>3 DEF WaitOf, Taken
      <3>5. QED
        BY <1>3, <2>2, <3>1, <3>4, EnqueueFrame, WaitFrame DEF Submit, WaitInv
    <2>3. QED
      BY <1>3, <2>1, <2>2 DEF Submit
  <1>4. ASSUME NEW a \in Attempts, Poll(a) PROVE WaitInv'
    <2>1. CASE UploadOriginal(a)
      BY <1>4, <2>1, OriginalFrame, WaitFrame DEF Poll, OutputInv, WaitInv
    <2>2. CASE client' = [client EXCEPT ![a] = Uploading("output")]
      <3>1. client'[a].pc = "upload" /\ \A b \in Attempts : b # a => client'[b] = client[b]
        BY <2>2, ClientRecords
      <3>2. WaitOf(a)'
        BY <3>1 DEF WaitOf
      <3>3. QED
        BY <1>4, <3>1, <3>2, WaitFrame DEF Poll, WaitInv
    <2>3. QED
      BY <1>4, <2>1, <2>2 DEF Poll
  <1>5. ASSUME NEW a \in Attempts, GiveUp(a) PROVE WaitInv'
    BY <1>5, OriginalFrame, WaitFrame DEF GiveUp, OutputInv, WaitInv
  <1>6. ASSUME NEW a \in Attempts, AnswerLost(a) PROVE WaitInv'
    <2>1. UploadOriginal(a) /\ UNCHANGED <<input, output>>
      BY <1>6 DEF AnswerLost
    <2>2. CASE UNCHANGED service
      BY <2>1, <2>2, OriginalFrame, WaitFrame DEF OutputInv, WaitInv
    <2>3. CASE Enqueue(a)
      BY <2>1, <2>3, OriginalFrame, EnqueueFrame, WaitFrame DEF OutputInv, WaitInv
    <2>4. QED
      BY <1>6, <2>2, <2>3 DEF AnswerLost
  <1>7. ASSUME NEW a \in Attempts, EndUpload(a) PROVE WaitInv'
    <2>1. /\ client'[a].pc = "done" /\ input'[a] = Null
          /\ \A b \in Attempts : b # a => client'[b] = client[b] /\ input'[b] = input[b]
      BY <1>7 DEF EndUpload, RemoveFiles, NoClient
    <2>2. WaitOf(a)'
      BY <2>1 DEF WaitOf
    <2>3. QED
      BY <1>7, <2>1, <2>2, WaitFrame DEF EndUpload, WaitInv
  <1>8. ASSUME NEW a \in Attempts, KillClient(a) PROVE WaitInv'
    <2>1. /\ client'[a].pc = "dead"
          /\ \A b \in Attempts : b # a => client'[b] = client[b] /\ input'[b] = input[b]
      BY <1>8 DEF KillClient, NoClient
    <2>2. WaitOf(a)'
      BY <2>1 DEF WaitOf
    <2>3. QED
      BY <1>8, <2>1, <2>2, WaitFrame DEF KillClient, WaitInv
  <1>9. CASE StartJob
    <2>1. PICK h \in Attempts, state \in {"counting", "running", "failed"} :
               /\ job[h].state = "queued" /\ job'[h].state = state /\ job'[h].ran = job[h].ran
               /\ \A b \in Attempts : b # h => job'[b] = job[b]
               /\ UNCHANGED <<client, known, input>>
      BY <1>9, Starting
    <2>2. job[h].ran \in Nat /\ client[h].waited \in Nat /\ client[h].queued \in Nat
      BY TypedParts
    <2>3. Taken(h) = 0 /\ Taken(h)' >= 0 /\ Taken(h)' \in Nat
      <3>1. Taken(h) = 0
        BY <2>1 DEF Taken
      <3>2. CountTime(h) \in Nat /\ CountTime(h)' = CountTime(h)
        BY DEF CountTime
      <3>3. job'[h].ran \in Nat
        BY <2>1, <2>2
      <3>4. CASE state = "counting"
        <4>1. Taken(h)' = job'[h].ran
          BY <2>1, <3>4 DEF Taken
        <4>2. QED
          BY <3>1, <3>3, <4>1
      <3>5. CASE state = "running"
        <4>1. Taken(h)' = CountTime(h) + job'[h].ran
          BY <2>1, <3>2, <3>5 DEF Taken
        <4>2. QED
          BY <3>1, <3>2, <3>3, <4>1
      <3>6. CASE state = "failed"
        <4>1. Taken(h)' = CountTime(h) + GsTimeout + CountTime(h)
          BY <2>1, <3>2, <3>6 DEF Taken
        <4>2. QED
          BY <3>1, <3>2, <4>1
      <3>7. QED
        BY <3>4, <3>5, <3>6
    <2>4. WaitOf(h)'
      BY <2>1, <2>2, <2>3 DEF WaitInv, WaitOf
    <2>5. QED
      BY <2>1, <2>4, WaitFrame DEF WaitInv
  <1>10. ASSUME NEW a \in Attempts, GsWrites(a) PROVE WaitInv'
    BY <1>10, WaitFrame DEF GsWrites, WaitInv
  <1>11. ASSUME NEW a \in Attempts, StageEnds(a) PROVE WaitInv'
    <2>1. /\ a \in Started /\ UNCHANGED <<client, known, input>>
          /\ \A b \in Attempts : b # a => job'[b] = job[b]
      BY <1>11, StageEnding
    <2>2. PICK state \in {"running", "checking", "done", "timeout", "failed"} :
            /\ job'[a] = Ended(state)
            /\ state = "running" => job[a].state = "counting"
            /\ state = "checking" => job[a].state = "running"
      BY <1>11, StageEnding
    <2>3. job'[a].state = state /\ job'[a].ran = 0
      BY <2>2, JobRecords
    <2>4. /\ job[a].ran \in Nat /\ job[a].ran <= Limit(job[a].state) /\ job[a].state \in Stages
          /\ job[a].state \in {"counting", "checking"} => a \in RasterAttempts
      BY <2>1, TypedParts DEF StageInv, StageOf, Started
    <2>5. /\ CountTime(a) \in Nat /\ Taken(a) \in Nat /\ Taken(a) <= RunTime(a)
          /\ Taken(a) <= CountTime(a) + GsTimeout + CountTime(a)
      BY <2>4, TakenBounds DEF StageInv
    <2>6. Taken(a) <= Taken(a)' /\ Taken(a)' \in Nat
      <3>1. CASE state = "running"
        <4>1. RunTime(a) = CountTime(a)
          BY <2>2, <3>1 DEF RunTime
        <4>2. Taken(a)' = CountTime(a) + 0
          BY <2>3, <3>1 DEF Taken, CountTime
        <4>3. QED
          BY <2>5, <4>1, <4>2
      <3>2. CASE state = "checking"
        <4>1. RunTime(a) = CountTime(a) + GsTimeout
          BY <2>2, <3>2 DEF RunTime
        <4>2. Taken(a)' = CountTime(a) + GsTimeout + 0
          BY <2>3, <3>2 DEF Taken, CountTime
        <4>3. QED
          BY <2>5, <4>1, <4>2
      <3>3. CASE state \in {"done", "timeout", "failed"}
        <4>1. Taken(a)' = CountTime(a) + GsTimeout + CountTime(a)
          BY <2>3, <3>3 DEF Taken, CountTime
        <4>2. QED
          BY <2>5, <4>1
      <3>4. QED
        BY <3>1, <3>2, <3>3
    <2>7. WaitOf(a)'
      BY <2>1, <2>5, <2>6, TypedParts DEF WaitInv, WaitOf
    <2>8. QED
      BY <2>1, <2>7, WaitFrame DEF WaitInv
  <1>14. CASE BreakPool
    <2> SUFFICES ASSUME NEW b \in Attempts PROVE WaitOf(b)'
      BY DEF WaitInv
    <2>1. UNCHANGED <<client, known, input>>
      BY <1>14 DEF BreakPool
    <2>2. CASE job'[b] = job[b]
      BY <2>1, <2>2, WaitFrame DEF WaitInv
    <2>3. CASE job[b].state \in Stages \cup {"queued"} /\ job'[b] = Ended("failed")
      <3>1. job'[b].state = "failed"
        BY <2>3, JobRecords
      <3>2. CountTime(b) \in Nat /\ Taken(b) \in Nat /\ Taken(b) <= CountTime(b) + GsTimeout + CountTime(b)
        BY TypedParts, TakenBounds DEF StageInv
      <3>3. Taken(b)' = CountTime(b) + GsTimeout + CountTime(b)
        BY <3>1 DEF Taken, CountTime
      <3>4. Taken(b)' \in Nat /\ Taken(b) <= Taken(b)'
        BY <3>2, <3>3
      <3>5. client[b].waited \in Nat /\ client[b].queued \in Nat
        BY TypedParts
      <3>6. WaitOf(b)
        BY DEF WaitInv
      <3>7. client'[b] = client[b] /\ known' = known /\ input'[b] = input[b]
        BY <2>1
      <3>8. b \in known /\ client[b].pc = "poll" => client[b].waited <= client[b].queued + Taken(b)'
        BY <3>2, <3>4, <3>5, <3>6 DEF WaitOf
      <3>9. QED
        BY <3>6, <3>7, <3>8 DEF WaitOf
    <2>4. QED
      BY <1>14, <2>2, <2>3, Breaking
  <1>15. ASSUME NEW a \in Attempts, LooseWrites(a) PROVE WaitInv'
    BY <1>15, WaitFrame DEF LooseWrites, WaitInv
  <1>16. ASSUME NEW a \in Attempts, LooseEnds(a) PROVE WaitInv'
    BY <1>16, WaitFrame DEF LooseEnds, WaitInv
  <1>17. ASSUME NEW a \in Attempts, Janitor(a) PROVE WaitInv'
    <2>1. /\ UNCHANGED <<client, job, known>>
          /\ input'[a] \in {input[a], Null} /\ \A b \in Attempts : b # a => input'[b] = input[b]
      BY <1>17 DEF Janitor, CleanupFile
    <2>2. WaitOf(a)'
      BY <2>1 DEF WaitInv, WaitOf, Taken, CountTime
    <2>3. QED
      BY <2>1, <2>2, WaitFrame DEF WaitInv
  <1>18. CASE Restart
    <2>1. ASSUME NEW b \in Attempts PROVE WaitOf(b)'
      BY <1>18 DEF Restart, WaitInv, WaitOf
    <2>2. QED
      BY <2>1 DEF WaitInv
  <1>19. CASE Tick
    <2> SUFFICES ASSUME NEW b \in Attempts PROVE WaitOf(b)'
      BY DEF WaitInv
    <2>1. /\ client'[b] = Waits(b) /\ client'[b].pc = client[b].pc /\ client'[b].path = client[b].path
          /\ client[b].pc \notin {"poll", "upload"} => client'[b] = client[b]
      BY <1>19, Waiting DEF Tick
    <2>2. known' = known /\ (input[b] = Null => input'[b] = Null)
      BY <1>19 DEF Tick
    <2>3. ASSUME client[b].pc = "poll", b \in known
          PROVE  client'[b].waited <= client'[b].queued + Taken(b)'
      <3>1. /\ client[b].waited \in Nat /\ client[b].queued \in Nat /\ job[b].ran \in Nat
            /\ client[b].waited <= client[b].queued + Taken(b)
        BY <2>3, TypedParts DEF WaitInv, WaitOf
      <3>2. client'[b].waited = client[b].waited + 1 /\ job'[b].state = job[b].state
        BY <1>19, <2>1, <2>3, Waiting, Ticking
      <3>3. job[b].state \in Stages \cup {"queued"}
        <4>1. ~Finished(b) /\ job[b].state # "none" /\ job[b].state \in States
          BY <1>19, <2>3, TypedParts DEF Tick, Due, AnswerDue, QueueInv
        <4>2. QED
          BY <4>1 DEF Finished, States
      <3>4. CASE job[b].state = "queued"
        <4>1. client'[b].queued = client[b].queued + 1
          BY <2>1, <2>3, <3>4, Waiting
        <4>2. Taken(b) = 0 /\ Taken(b)' = 0
          BY <3>2, <3>4 DEF Taken
        <4>3. QED
          BY <3>1, <3>2, <4>1, <4>2
      <3>5. CASE job[b].state \in Stages
        <4>1. client'[b].queued = client[b].queued /\ job'[b].ran = job[b].ran + 1
          BY <1>19, <2>1, <2>3, <3>5, Waiting, Ticking DEF Started, Stages
        <4>2. Taken(b) \in Nat /\ Taken(b)' = Taken(b) + 1
          <5>1. CountTime(b) \in Nat
            BY DEF CountTime
          <5>2. CASE job[b].state = "counting"
            BY <3>1, <3>2, <4>1, <5>2 DEF Taken
          <5>3. CASE job[b].state = "running"
            <6>1. Taken(b) = CountTime(b) + job[b].ran
              BY <5>3 DEF Taken
            <6>2. Taken(b)' = CountTime(b) + job'[b].ran
              BY <3>2, <5>3 DEF Taken, CountTime
            <6>3. QED
              BY <3>1, <4>1, <5>1, <6>1, <6>2
          <5>4. CASE job[b].state = "checking"
            <6>1. Taken(b) = CountTime(b) + GsTimeout + job[b].ran
              BY <5>4 DEF Taken
            <6>2. Taken(b)' = CountTime(b) + GsTimeout + job'[b].ran
              BY <3>2, <5>4 DEF Taken, CountTime
            <6>3. QED
              BY <3>1, <4>1, <5>1, <6>1, <6>2
          <5>5. QED
            BY <3>5, <5>2, <5>3, <5>4 DEF Stages
        <4>3. QED
          BY <3>1, <3>2, <4>1, <4>2
      <3>6. QED
        BY <3>3, <3>4, <3>5
    <2>4. QED
      BY <2>1, <2>2, <2>3 DEF WaitInv, WaitOf
  <1>20. CASE UNCHANGED vars
    BY <1>20, WaitFrame DEF vars, WaitInv
  <1>21. QED
    BY <1>1, <1>2, <1>3, <1>4, <1>5, <1>6, <1>7, <1>8, <1>9, <1>10, <1>11, <1>14, <1>15, <1>16,
       <1>17, <1>18, <1>19, <1>20
       DEF Next, ClientStep, Worker

-----------------------------------------------------------------------------
(* The theorems.                                                             *)

\* Every reachable state of the optimizer, its janitor and its clients satisfies
\* the inductive invariant.
THEOREM OptimizerInductive == Spec => []OptimizerInv
  <1>1. OptimizerInv /\ [Next]_vars => OptimizerInv'
    BY StepTyped, StepFresh, StepQueue, StepStage, StepOutput, StepWait DEF OptimizerInv
  <1>2. QED
    BY InitInv, <1>1, PTL DEF Spec

\* Every variable of client and service holds values of the shape the code gives it.
THEOREM TypeCorrect == Spec => []TypeOK
  <1>1. OptimizerInv => TypeOK
    BY DEF OptimizerInv
  <1>2. QED
    BY OptimizerInductive, <1>1, PTL

\* run_dspace_workflow uploads an output only while it is on disk, complete and
\* usable, for every timeout that keeps the janitor's age above an upload's length.
THEOREM UsableUpload == Spec => []UploadIsUsable
  <1>1. OptimizerInv => UploadIsUsable
    <2> SUFFICES ASSUME OptimizerInv, NEW a \in Attempts, client[a].pc = "upload", client[a].path = "output"
                 PROVE  Content(a) \in Usable(a)
      BY DEF UploadIsUsable, Usable
    <2>1. output[a] \in OutputStates /\ output[a].content \in Usable(a)
      BY DEF OptimizerInv, OutputInv, OutputOf
    <2>2. QED
      BY <2>1, OutputRecords DEF Content
  <1>2. QED
    BY OptimizerInductive, <1>1, PTL

\* Whatever the timeouts are, the client leaves a job that has not failed, without a
\* lost answer, only when its turn came too late for its run to fit into them.
THEOREM PatientClient == Spec => GivesUpOnlyWhenLate
  <1>1. OptimizerInv /\ [Next]_vars =>
          [\A a \in Attempts :
             client[a].pc = "poll" /\ client'[a].path = "original" /\ faults' = faults /\
             a \in known /\ job[a].state \notin {"timeout", "failed"}
               => client[a].queued + RunTime(a) >= ClientTimeout]_vars
    <2> SUFFICES ASSUME OptimizerInv, [Next]_vars, NEW b \in Attempts, client[b].pc = "poll",
                        client'[b].path = "original", faults' = faults, b \in known,
                        job[b].state \notin {"timeout", "failed"}
                 PROVE  client[b].queued + RunTime(b) >= ClientTimeout
      OBVIOUS
    <2> USE DEF OptimizerInv, TypeOK, service, Fault
    <2>1. client[b].path = Null /\ client'[b] # client[b]
      BY DEF WaitInv, WaitOf
    <2>2. ASSUME NEW a \in Attempts, Poll(a) PROVE FALSE
      <3>1. a = b
        BY <2>1, <2>2 DEF Poll, UploadOriginal
      <3>2. job[b].state = "done" /\ ~PollDone(b)
        <4>1. \/ Finished(b) /\ ~PollDone(b)
              \/ client' = [client EXCEPT ![b] = Uploading("output")]
          BY <2>2, <3>1 DEF Poll
        <4>2. client'[b] # Uploading("output")
          BY ClientRecords
        <4>3. QED
          BY <4>1, <4>2 DEF Finished
      <3>3. output[b] \in OutputStates /\ output[b].content \in Usable(b)
        BY <3>2 DEF OutputInv, OutputOf
      <3>4. Acceptable(b)
        BY <3>3, OutputRecords DEF Acceptable, Content, Usable
      <3>5. QED
        BY <3>2, <3>4 DEF PollDone
    <2>3. ASSUME NEW a \in Attempts, GiveUp(a)
          PROVE  client[b].queued + RunTime(b) >= ClientTimeout
      <3>1. a = b
        BY <2>1, <2>3 DEF GiveUp, UploadOriginal
      <3>2. client[b].waited >= ClientTimeout /\ client[b].waited <= client[b].queued + Taken(b)
        BY <2>3, <3>1 DEF GiveUp, WaitInv, WaitOf
      <3>3. client[b].waited \in Nat /\ client[b].queued \in Nat /\ job[b].ran \in Nat
        BY TypedParts
      <3>4. Taken(b) \in Nat /\ RunTime(b) \in Nat /\ Taken(b) <= RunTime(b)
        BY <3>3, TakenBounds DEF StageInv
      <3>5. QED
        BY <3>2, <3>3, <3>4
    <2>4. ASSUME NEW a \in Attempts, NEW pdf, Begin(a, pdf) PROVE FALSE
      BY <2>1, <2>4 DEF Begin, UploadOriginal
    <2>5. ASSUME NEW a \in Attempts, NEW age, CopyInput(a, age) PROVE FALSE
      BY <2>1, <2>5 DEF CopyInput, UploadOriginal
    <2>6. ASSUME NEW a \in Attempts, Submit(a) PROVE FALSE
      BY <2>1, <2>6 DEF Submit, UploadOriginal
    <2>7. ASSUME NEW a \in Attempts, EndUpload(a) PROVE FALSE
      BY <2>1, <2>7 DEF EndUpload
    <2>8. ASSUME NEW a \in Attempts, AnswerLost(a) \/ KillClient(a) PROVE FALSE
      BY <2>8 DEF AnswerLost, KillClient
    <2>9. CASE Tick
      BY <2>1, <2>9, Waiting DEF Tick
    <2>10. CASE UNCHANGED client
      BY <2>1, <2>10
    <2>11. CASE \E a \in Attempts : \/ \E pdf \in Source : Begin(a, pdf)
                                    \/ ClientStep(a) \/ AnswerLost(a) \/ KillClient(a)
      BY <2>2, <2>3, <2>4, <2>5, <2>6, <2>7, <2>8, <2>11 DEF ClientStep
    <2>12. CASE \E a \in Attempts : GsWrites(a) \/ LooseWrites(a) \/ LooseEnds(a) \/ Janitor(a)
      BY <2>10, <2>12 DEF GsWrites, LooseWrites, LooseEnds, Janitor
    <2>13. CASE Worker \/ BreakPool \/ Restart \/ UNCHANGED vars
      BY <2>10, <2>13, StageEnding
         DEF Worker, StartJob, BreakPool, Restart, vars
    <2>14. QED
      BY <2>9, <2>11, <2>12, <2>13 DEF Next
  <1>2. QED
    BY OptimizerInductive, <1>1, PTL DEF Spec, GivesUpOnlyWhenLate

\* A job whose client has left fails instead of holding the only worker, since
\* the client removed the input it would start from.
THEOREM AbandonedJobs == Spec => AbandonedNeverRun
  <1>1. OptimizerInv /\ [Next]_vars =>
          [\A a \in Attempts :
             client[a].pc = "done" /\ job[a].state = "queued" => job'[a].state \notin Stages]_vars
    <2> SUFFICES ASSUME OptimizerInv, [Next]_vars, NEW b \in Attempts, client[b].pc = "done",
                        job[b].state = "queued", job'[b].state \in Stages
                 PROVE  FALSE
      OBVIOUS
    <2> USE DEF OptimizerInv, TypeOK, service, Fault
    <2>1. input[b] = Null /\ job'[b] # job[b]
      BY DEF WaitInv, WaitOf, Stages
    <2>2. CASE StartJob
      <3>1. PICK h \in Attempts, state \in {"counting", "running", "failed"} :
                 /\ job'[h].state = state /\ (input[h] = Null => state = "failed")
                 /\ \A c \in Attempts : c # h => job'[c] = job[c]
        BY <2>2, Starting
      <3>2. QED
        BY <2>1, <3>1 DEF Stages
    <2>3. ASSUME NEW a \in Attempts, Submit(a) \/ AnswerLost(a) PROVE FALSE
      <3>1. Enqueue(a)
        BY <2>1, <2>3 DEF Submit, AnswerLost
      <3>2. QED
        BY <2>1, <3>1, EnqueueFrame DEF Stages
    <2>4. ASSUME NEW a \in Attempts, StageEnds(a) PROVE FALSE
      <3>1. a \in Started /\ \A c \in Attempts : c # a => job'[c] = job[c]
        BY <2>4, StageEnding
      <3>2. QED
        BY <2>1, <3>1 DEF Started, Stages
    <2>5. CASE BreakPool
      <3>1. job'[b] = Ended("failed")
        BY <2>1, <2>5, Breaking
      <3>2. QED
        BY <3>1, JobRecords DEF Stages
    <2>6. CASE Restart
      BY <2>6, JobRecords DEF Restart, Stages
    <2>7. CASE Tick
      BY <2>7, Ticking DEF Stages
    <2>8. CASE UNCHANGED job
      BY <2>1, <2>8
    <2>9. CASE \E a \in Attempts :
                 \/ \E pdf \in Source : Begin(a, pdf)
                 \/ \E age \in {0, TTL} : CopyInput(a, age)
                 \/ Poll(a) \/ GiveUp(a) \/ EndUpload(a) \/ KillClient(a)
      BY <2>8, <2>9 DEF Begin, CopyInput, Poll, GiveUp, EndUpload, KillClient
    <2>10. CASE \E a \in Attempts : GsWrites(a) \/ LooseWrites(a) \/ LooseEnds(a) \/ Janitor(a)
      BY <2>8, <2>10 DEF GsWrites, LooseWrites, LooseEnds, Janitor
    <2>11. CASE UNCHANGED vars
      BY <2>8, <2>11 DEF vars
    <2>12. QED
      BY <2>2, <2>3, <2>4, <2>5, <2>6, <2>7, <2>9, <2>10, <2>11 DEF Next, ClientStep, Worker
  <1>2. QED
    BY OptimizerInductive, <1>1, PTL DEF Spec, AbandonedNeverRun
=============================================================================
