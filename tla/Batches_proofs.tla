--------------------------- MODULE Batches_proofs ---------------------------
(***************************************************************************)
(* What Batches promises for any batches, lists of candidates, exports and  *)
(* removals, and any number of threads, polls and faults.                   *)
(***************************************************************************)
EXTENDS Batches, WellFoundedInduction, FiniteSetTheorems, TLAPS

\* An export's thread runs only under the lock, and the lock is held for one.
ExportInv ==
  /\ \A e \in Exports : thread[e] \in {"none", "started", "working"}
  /\ \A e \in Exports : thread[e] # "none" => exportLock
  /\ \A e, f \in Exports : thread[e] # "none" /\ thread[f] # "none" => e = f
  /\ exportLock => \E e \in Exports : thread[e] # "none"

\* A cycle ends once, and what TASKS publishes of it is how it ended.
CycleInv ==
  \A i \in Items :
    /\ thread[i] \in {"none", "started", "waiting", "working"} => result[i] = Null
    /\ tasks[i] \in {"success", "deferred", "failed"} => result[i] = tasks[i]

\* A batch that has not begun has started nothing.
FreshInv ==
  \A b \in Batches : thread[b] \in {"none", "started"} =>
    \A n \in Biblios : item[<<b, n>>] = NoItem /\ thread[<<b, n>>] = "none"

\* What a batch at work knows of its cycles: none before the POST, and how one
\* ended that it counts as archived or deferred.
Knows(i) ==
  /\ item[i].pc \in {"waiting", "post"} => thread[i] = "none"
  /\ item[i].pc = "done" /\ item[i].result = "SUCCESS" => result[i] = "success"
  /\ item[i].pc = "done" /\ item[i].result = "DEFERRED" => result[i] = "deferred"

RobotInv ==
  \A b \in Batches :
    /\ thread[b] \in {"none", "started", "working"} => result[b] = Null
    /\ thread[b] = "working" => \A n \in Biblios : Knows(<<b, n>>)

\* SuccessMeansAllDone, in terms of the candidates.
Archived(b) ==
  result[b] \in {"success", "deferred"} =>
    \A n \in Candidates(b) :
      result[<<b, n>>] = "success" \/ (result[b] = "deferred" /\ result[<<b, n>>] = "deferred")

ReportInv == \A b \in Batches : Archived(b)

\* Only a robot on the command line keeps its report to itself.
LogInv == \A t \in TaskIds : result[t] = "logged" => t \in CommandLine

RobotsInv == LogInv /\ CycleInv /\ FreshInv /\ RobotInv /\ ReportInv

BatchesInv == TypeOK /\ ExportInv /\ RobotsInv

USE BatchesAssumptions, TasksAreDistinct

-----------------------------------------------------------------------------
(* Candidate lists.                                                          *)

LEMMA SpanOfNumbers ==
  ASSUME NEW text \in Texts, NEW part \in text PROVE Span(part) \subseteq Nat
  <1>1. CASE part = <<>>
    BY <1>1 DEF Span
  <1>2. CASE part # <<>>
    <2>1. part \in Nat \X Nat
      BY <1>2, TextsOfNumbers
    <2>2. part[1] \in Nat /\ part[2] \in Nat
      BY <2>1
    <2>3. QED
      BY <1>2, <2>2 DEF Span
  <1>3. QED
    BY <1>1, <1>2

LEMMA CandidatesAreNumbers == Biblios \subseteq Nat
  BY SpanOfNumbers DEF Biblios, ParseCandidates

LEMMA CandidatesAreBiblios == TypeOK => \A b \in Batches : Candidates(b) \subseteq Biblios
  <1> SUFFICES ASSUME TypeOK, NEW b \in Batches PROVE Candidates(b) \subseteq Biblios
    OBVIOUS
  <1>1. batch[b].text \in Texts \cup {{}}
    BY DEF TypeOK, BatchStates
  <1>2. QED
    BY <1>1 DEF Candidates, ParseCandidates, Biblios

\* The range of a part is what lies between its two numbers.
LEMMA PartIsRange ==
  ASSUME NEW x \in Nat, NEW y \in Nat, NEW n \in Nat, ~(n < Min({x, y})), ~(n > Max({x, y}))
  PROVE n \in (x..y) \cup (y..x)
  <1>1. CASE x <= y
    <2>1. Min({x, y}) = x
      BY <1>1 DEF Min
    <2>2. Max({x, y}) = y
      BY <1>1 DEF Max
    <2>3. QED
      BY <2>1, <2>2
  <1>2. CASE y <= x
    <2>1. Min({x, y}) = y
      BY <1>2 DEF Min
    <2>2. Max({x, y}) = x
      BY <1>2 DEF Max
    <2>3. QED
      BY <2>1, <2>2
  <1>3. QED
    BY <1>1, <1>2

\* A set of numbers that is not empty has a least one.
LEMMA LeastNumber ==
  ASSUME NEW S \in SUBSET Nat, S # {} PROVE Min(S) \in S
  <1>1. PICK x \in S : \A y \in S : ~(<<y, x>> \in OpToRel(<, Nat))
    BY NatLessThanWellFounded, WFMin
  <1>2. ASSUME NEW y \in S PROVE x <= y
    <2>1. x \in Nat /\ y \in Nat /\ <<y, x>> \in Nat \X Nat
      OBVIOUS
    <2>2. y < x => <<y, x>> \in OpToRel(<, Nat)
      <3>1. <<y, x>>[1] = y /\ <<y, x>>[2] = x
        OBVIOUS
      <3>2. QED
        BY ONLY <2>1, <3>1 DEF OpToRel
    <2>3. ~(<<y, x>> \in OpToRel(<, Nat))
      BY <1>1, Zenon
    <2>4. ~(y < x)
      BY ONLY <2>2, <2>3, Zenon
    <2>5. QED
      BY ONLY <2>1, <2>4
  <1>3. QED
    BY <1>2 DEF Min

-----------------------------------------------------------------------------
(* Ids, and the values of the two records.                                   *)

LEMMA ItemIds ==
  /\ Items \subseteq TaskIds /\ Items \cap Batches = {} /\ Items \cap Exports = {}
  /\ \A b \in Batches, n \in Biblios : <<b, n>> \in Items /\ <<b, n>>[1] = b
  /\ \A i \in Items : \E b \in Batches, n \in Biblios : i = <<b, n>>
  BY DEF Items, TaskIds

LEMMA RecordsTyped ==
  /\ NoItem \in ItemStates /\ NoBatch \in BatchStates
  /\ \A res \in {"ERROR_POST", "ERROR_CONN", "SUCCESS", "FAILED", "DEFERRED", "TIMEOUT"} : Settled(res) \in ItemStates
  /\ \A state \in ItemStates : [state EXCEPT !.pc = "post"] \in ItemStates
  /\ \A state \in ItemStates : ~LastPoll(state.polls) => [state EXCEPT !.polls = @ + 1] \in ItemStates
  BY DEF NoItem, NoBatch, ItemStates, BatchStates, Settled, Stats, LastPoll

-----------------------------------------------------------------------------
(* Every step keeps each part of the invariant: one lemma per part, one step   *)
(* per action.                                                               *)

LEMMA InitInv == Init => BatchesInv
  <1> SUFFICES ASSUME Init PROVE BatchesInv
    OBVIOUS
  <1>1. TypeOK
    <2>1. batch \in [Batches -> BatchStates] /\ item \in [Items -> ItemStates]
      BY RecordsTyped DEF Init
    <2>2. tasks \in [TaskIds -> {Null, "queued", "processing", "success", "deferred", "failed"}]
      BY DEF Init
    <2>3. thread \in [TaskIds -> {"none", "started", "waiting", "working", "returned", "ended", "dead"}]
      BY DEF Init
    <2>4. result \in [TaskIds -> {Null, "success", "deferred", "failed", "logged"}]
      BY DEF Init
    <2>5. removal \in [Removals -> {"none", "waiting", "inside", "over"}]
      BY DEF Init
    <2>6. lock \in Items \cup Removals \cup {Null}
      BY DEF Init
    <2>7. exportLock \in BOOLEAN
      BY DEF Init
    <2>8. faults \in 0..MaxFaults
      BY DEF Init
    <2>9. QED
      BY <2>1, <2>2, <2>3, <2>4, <2>5, <2>6, <2>7, <2>8 DEF TypeOK
  <1>2. ExportInv
    BY DEF Init, ExportInv, TaskIds
  <1>3. CycleInv
    BY DEF Init, CycleInv, TaskIds
  <1>4. FreshInv
    BY ItemIds DEF Init, FreshInv
  <1>5. LogInv /\ RobotInv /\ ReportInv
    BY DEF Init, LogInv, RobotInv, ReportInv, Archived, TaskIds
  <1>6. QED
    BY <1>1, <1>2, <1>3, <1>4, <1>5 DEF BatchesInv, RobotsInv

LEMMA StepTyped == TypeOK /\ LogInv /\ [Next]_vars => TypeOK'
  <1> SUFFICES ASSUME TypeOK, LogInv, [Next]_vars PROVE TypeOK'
    OBVIOUS
  <1> USE ItemIds, RecordsTyped DEF TypeOK, TaskIds, http, StartTask, StartTaskFails, Fault, Returns
  <1>1. ASSUME NEW t \in TaskIds, Begin(t) PROVE TypeOK'
    BY <1>1 DEF Begin
  <1>2. ASSUME NEW t \in TaskIds, TakeLock(t) PROVE TypeOK'
    BY <1>2 DEF TakeLock
  <1>3. ASSUME NEW t \in TaskIds, Publish(t) PROVE TypeOK'
    BY <1>3 DEF Publish, LogInv
  <1>4. ASSUME NEW t \in TaskIds, NEW outcome \in {"success", "deferred", "failed"}, EndCycle(t, outcome)
        PROVE TypeOK'
    BY <1>4 DEF EndCycle, Release
  <1>5. ASSUME NEW d \in Removals, RemoveCover(d) PROVE TypeOK'
    BY <1>5 DEF RemoveCover
  <1>6. ASSUME NEW e \in Exports, ExportRun(e) PROVE TypeOK'
    <2>1. exportLock' \in BOOLEAN
      BY <1>6 DEF ExportRun, UnlockOnFailure
    <2>2. tasks' \in [TaskIds -> {Null, "queued", "processing", "success", "deferred", "failed"}]
      BY <1>6 DEF ExportRun
    <2>3. thread' \in [TaskIds -> {"none", "started", "waiting", "working", "returned", "ended", "dead"}]
      BY <1>6 DEF ExportRun
    <2>4. faults' \in 0..MaxFaults
      BY <1>6 DEF ExportRun
    <2>5. QED
      BY <1>6, <2>1, <2>2, <2>3, <2>4 DEF ExportRun
  <1>7. ASSUME NEW e \in Exports, EndExport(e) PROVE TypeOK'
    BY <1>7 DEF EndExport
  <1>8. ASSUME NEW b \in Batches, NEW text \in Texts, NEW width \in Widths, NEW cli \in BOOLEAN,
               RunBatch(b, text, width, cli)
        PROVE TypeOK'
    <2>1. [text |-> text, width |-> width, cli |-> cli] \in BatchStates
      BY DEF BatchStates
    <2>2. QED
      BY <1>8, <2>1 DEF RunBatch
  <1>9. ASSUME NEW b \in Batches, StartItem(b) PROVE TypeOK'
    <2>1. PICK i : item' = [item EXCEPT ![i].pc = "post"]
      BY <1>9 DEF StartItem
    <2>2. ASSUME i \in Items PROVE item' \in [Items -> ItemStates]
      <3>1. item[i] \in ItemStates
        BY <2>2
      <3>2. [item[i] EXCEPT !.pc = "post"] \in ItemStates
        BY ONLY <3>1 DEF ItemStates
      <3>3. QED
        BY <2>1, <2>2, <3>2
    <2>3. item' \in [Items -> ItemStates]
      <3>1. i \notin Items => item' = item
        BY <2>1
      <3>2. QED
        BY <2>2, <3>1
    <2>4. UNCHANGED <<batch, tasks, thread, result, http, faults>>
      BY <1>9 DEF StartItem
    <2>5. QED
      BY <2>3, <2>4
  <1>10. ASSUME NEW b \in Batches, NEW n \in Biblios, Post(b, n) PROVE TypeOK'
    <2> DEFINE i == <<b, n>>
    <2>1. i \in Items /\ i \in TaskIds
      BY ItemIds
    <2>2. /\ \/ item' = [item EXCEPT ![i].pc = "poll"]
             \/ item' = [item EXCEPT ![i] = Settled("ERROR_POST")]
             \/ item' = [item EXCEPT ![i] = Settled("ERROR_CONN")]
          /\ tasks' = tasks \/ tasks' = [tasks EXCEPT ![i] = "queued"]
          /\ thread' = thread \/ thread' = [thread EXCEPT ![i] = "started"]
          /\ UNCHANGED faults \/ Fault
      BY <1>10 DEF Post
    <2> HIDE DEF i
    <2>3. item' \in [Items -> ItemStates]
      <3>1. item[i] \in ItemStates
        BY <2>1
      <3>2. [item[i] EXCEPT !.pc = "poll"] \in ItemStates
        BY ONLY <3>1 DEF ItemStates
      <3>3. CASE item' = [item EXCEPT ![i].pc = "poll"]
        BY <2>1, <3>2, <3>3
      <3>4. CASE item' = [item EXCEPT ![i] = Settled("ERROR_POST")]
        BY <2>1, <3>4
      <3>5. CASE item' = [item EXCEPT ![i] = Settled("ERROR_CONN")]
        BY <2>1, <3>5
      <3>6. QED
        BY <2>2, <3>3, <3>4, <3>5
    <2>4. tasks' \in [TaskIds -> {Null, "queued", "processing", "success", "deferred", "failed"}]
      BY <2>1, <2>2
    <2>5. thread' \in [TaskIds -> {"none", "started", "waiting", "working", "returned", "ended", "dead"}]
      BY <2>1, <2>2
    <2>6. faults' \in 0..MaxFaults
      BY <2>2
    <2>7. QED
      BY <1>10, <2>3, <2>4, <2>5, <2>6 DEF Post
  <1>11. ASSUME NEW b \in Batches, NEW n \in Biblios, Poll(b, n) PROVE TypeOK'
    <2> DEFINE i == <<b, n>>
    <2>1. i \in Items /\ item[i] \in ItemStates
      BY ItemIds
    <2>2. PICK status \in {tasks[i], Null} :
            /\ IF status = tasks[i] THEN UNCHANGED faults ELSE Fault
            /\ item' = [item EXCEPT ![i] =
                 IF Verdict(status) # Null THEN Settled(Verdict(status))
                 ELSE IF LastPoll(item[i].polls) THEN Settled("TIMEOUT")
                 ELSE [item[i] EXCEPT !.polls = @ + 1]]
      BY <1>11 DEF Poll
    <2>3. Verdict(status) \in {"SUCCESS", "FAILED", "DEFERRED", Null}
      BY DEF Verdict
    <2>4. item' \in [Items -> ItemStates]
      <3> DEFINE next == IF Verdict(status) # Null THEN Settled(Verdict(status))
                         ELSE IF LastPoll(item[i].polls) THEN Settled("TIMEOUT")
                         ELSE [item[i] EXCEPT !.polls = @ + 1]
      <3>1. next \in ItemStates
        BY <2>1, <2>3, RecordsTyped
      <3>2. item' = [item EXCEPT ![i] = next]
        BY <2>2
      <3> HIDE DEF next
      <3>3. QED
        BY <3>1, <3>2
    <2>5. faults' \in 0..MaxFaults
      BY <2>2
    <2>6. QED
      BY <1>11, <2>4, <2>5 DEF Poll
  <1>12. ASSUME NEW b \in Batches, EndBatch(b) PROVE TypeOK'
    BY <1>12 DEF EndBatch
  <1>13. CASE WorkerDies
    <2>1. item' \in [Items -> ItemStates]
      BY <1>13 DEF WorkerDies
    <2>2. tasks' \in [TaskIds -> {Null, "queued", "processing", "success", "deferred", "failed"}]
      BY <1>13 DEF WorkerDies
    <2>3. thread' \in [TaskIds -> {"none", "started", "waiting", "working", "returned", "ended", "dead"}]
      BY <1>13 DEF WorkerDies
    <2>4. removal' \in [Removals -> {"none", "waiting", "inside", "over"}]
      BY <1>13 DEF WorkerDies
    <2>5. lock' \in Items \cup Removals \cup {Null}
      BY <1>13 DEF WorkerDies
    <2>6. exportLock' \in BOOLEAN
      BY <1>13 DEF WorkerDies
    <2>7. faults' \in 0..MaxFaults
      BY <1>13 DEF WorkerDies
    <2>8. QED
      BY <1>13, <2>1, <2>2, <2>3, <2>4, <2>5, <2>6, <2>7 DEF WorkerDies
  <1>14. CASE UNCHANGED vars
    BY <1>14 DEF vars
  <1>15. QED
    BY <1>1, <1>2, <1>3, <1>4, <1>5, <1>6, <1>7, <1>8, <1>9, <1>10, <1>11, <1>12, <1>13, <1>14
       DEF Next, TaskStep, RobotStep

LEMMA StepExports == TypeOK /\ ExportInv /\ [Next]_vars => ExportInv'
  <1> SUFFICES ASSUME TypeOK, ExportInv, [Next]_vars PROVE ExportInv'
    OBVIOUS
  <1> USE DEF TypeOK, ExportInv, TaskIds, http, StartTask, StartTaskFails, Fault, Returns
  <1>1. ASSUME NEW t \in TaskIds, Begin(t) PROVE ExportInv'
    BY <1>1 DEF Begin
  <1>2. ASSUME NEW t \in TaskIds, TakeLock(t) PROVE ExportInv'
    BY <1>2 DEF TakeLock
  <1>3. ASSUME NEW t \in TaskIds, Publish(t) PROVE ExportInv'
    BY <1>3 DEF Publish
  <1>4. ASSUME NEW t \in TaskIds, NEW outcome, EndCycle(t, outcome) PROVE ExportInv'
    BY <1>4 DEF EndCycle
  <1>5. ASSUME NEW d \in Removals, RemoveCover(d) PROVE ExportInv'
    BY <1>5 DEF RemoveCover
  <1>6. ASSUME NEW e \in Exports, ExportRun(e) PROVE ExportInv'
    BY <1>6 DEF ExportRun, UnlockOnFailure
  <1>7. ASSUME NEW e \in Exports, EndExport(e) PROVE ExportInv'
    BY <1>7 DEF EndExport
  <1>8. ASSUME NEW b \in Batches, NEW text, NEW width, NEW cli, RunBatch(b, text, width, cli) PROVE ExportInv'
    BY <1>8 DEF RunBatch
  <1>9. ASSUME NEW b \in Batches, StartItem(b) PROVE ExportInv'
    BY <1>9 DEF StartItem
  <1>10. ASSUME NEW b \in Batches, NEW n \in Biblios, Post(b, n) PROVE ExportInv'
    BY <1>10, ItemIds DEF Post
  <1>11. ASSUME NEW b \in Batches, NEW n \in Biblios, Poll(b, n) PROVE ExportInv'
    BY <1>11 DEF Poll
  <1>12. ASSUME NEW b \in Batches, EndBatch(b) PROVE ExportInv'
    BY <1>12 DEF EndBatch
  <1>13. CASE WorkerDies
    BY <1>13 DEF WorkerDies, CommandLine
  <1>14. CASE UNCHANGED vars
    BY <1>14 DEF vars
  <1>15. QED
    BY <1>1, <1>2, <1>3, <1>4, <1>5, <1>6, <1>7, <1>8, <1>9, <1>10, <1>11, <1>12, <1>13, <1>14
       DEF Next, TaskStep, RobotStep

LEMMA StepLog == TypeOK /\ RobotInv /\ LogInv /\ [Next]_vars => LogInv'
  <1> SUFFICES ASSUME TypeOK, RobotInv, LogInv, [Next]_vars PROVE LogInv'
    OBVIOUS
  <1> USE DEF TypeOK, TaskIds, http, StartTask, StartTaskFails, Fault, Returns, LogInv, CommandLine
  <1>1. ASSUME NEW t \in TaskIds, Begin(t) PROVE LogInv'
    BY <1>1 DEF Begin
  <1>2. ASSUME NEW t \in TaskIds, TakeLock(t) PROVE LogInv'
    BY <1>2 DEF TakeLock
  <1>3. ASSUME NEW t \in TaskIds, Publish(t) PROVE LogInv'
    BY <1>3 DEF Publish
  <1>4. ASSUME NEW t \in TaskIds, NEW outcome \in {"success", "deferred", "failed"}, EndCycle(t, outcome) PROVE LogInv'
    BY <1>4 DEF EndCycle
  <1>5. ASSUME NEW d \in Removals, RemoveCover(d) PROVE LogInv'
    BY <1>5 DEF RemoveCover
  <1>6. ASSUME NEW e \in Exports, ExportRun(e) PROVE LogInv'
    BY <1>6 DEF ExportRun, UnlockOnFailure
  <1>7. ASSUME NEW e \in Exports, EndExport(e) PROVE LogInv'
    BY <1>7 DEF EndExport
  <1>8. ASSUME NEW b \in Batches, NEW text \in Texts, NEW width, NEW cli \in BOOLEAN, RunBatch(b, text, width, cli) PROVE LogInv'
    <2>1. result[b] = Null /\ UNCHANGED result
      BY <1>8 DEF RunBatch, RobotInv
    <2>2. ASSUME NEW t \in TaskIds, result[t] = "logged" PROVE t \in Batches /\ t # b /\ batch'[t].cli
      <3>1. t \in Batches /\ batch[t].cli /\ t # b
        BY <2>1, <2>2
      <3>2. QED
        BY <1>8, <3>1 DEF RunBatch
    <2>3. QED
      BY <2>1, <2>2
  <1>9. ASSUME NEW b \in Batches, StartItem(b) PROVE LogInv'
    BY <1>9 DEF StartItem
  <1>10. ASSUME NEW b \in Batches, NEW n \in Biblios, Post(b, n) PROVE LogInv'
    BY <1>10 DEF Post
  <1>11. ASSUME NEW b \in Batches, NEW n \in Biblios, Poll(b, n) PROVE LogInv'
    BY <1>11 DEF Poll
  <1>12. ASSUME NEW b \in Batches, EndBatch(b) PROVE LogInv'
    BY <1>12 DEF EndBatch
  <1>13. CASE WorkerDies
    BY <1>13 DEF WorkerDies
  <1>14. CASE UNCHANGED vars
    BY <1>14 DEF vars
  <1>15. QED
    BY <1>1, <1>2, <1>3, <1>4, <1>5, <1>6, <1>7, <1>8, <1>9, <1>10, <1>11, <1>12, <1>13, <1>14
       DEF Next, TaskStep, RobotStep

LEMMA StepCycles == TypeOK /\ RobotInv /\ CycleInv /\ [Next]_vars => CycleInv'
  <1> SUFFICES ASSUME TypeOK, RobotInv, CycleInv, [Next]_vars PROVE CycleInv'
    OBVIOUS
  <1> USE ItemIds DEF TypeOK, TaskIds, http, StartTask, StartTaskFails, Fault, Returns, CycleInv
  <1>1. ASSUME NEW t \in TaskIds, Begin(t) PROVE CycleInv'
    BY <1>1 DEF Begin
  <1>2. ASSUME NEW t \in TaskIds, TakeLock(t) PROVE CycleInv'
    BY <1>2 DEF TakeLock
  <1>3. ASSUME NEW t \in TaskIds, Publish(t) PROVE CycleInv'
    BY <1>3 DEF Publish
  <1>4. ASSUME NEW t \in TaskIds, NEW outcome \in {"success", "deferred", "failed"}, EndCycle(t, outcome) PROVE CycleInv'
    BY <1>4 DEF EndCycle
  <1>5. ASSUME NEW d \in Removals, RemoveCover(d) PROVE CycleInv'
    BY <1>5 DEF RemoveCover
  <1>6. ASSUME NEW e \in Exports, ExportRun(e) PROVE CycleInv'
    BY <1>6 DEF ExportRun, UnlockOnFailure
  <1>7. ASSUME NEW e \in Exports, EndExport(e) PROVE CycleInv'
    BY <1>7 DEF EndExport
  <1>8. ASSUME NEW b \in Batches, NEW text \in Texts, NEW width, NEW cli \in BOOLEAN, RunBatch(b, text, width, cli) PROVE CycleInv'
    BY <1>8 DEF RunBatch
  <1>9. ASSUME NEW b \in Batches, StartItem(b) PROVE CycleInv'
    BY <1>9 DEF StartItem
  <1>10. ASSUME NEW b \in Batches, NEW n \in Biblios, Post(b, n) PROVE CycleInv'
    <2> DEFINE i == <<b, n>>
    <2>1. i \in Items /\ thread[i] = "none"
      BY <1>10 DEF Post, RobotInv, Knows
    <2>2. result[i] = Null /\ tasks[i] \notin {"success", "deferred", "failed"}
      BY <2>1
    <2>3. /\ tasks' = tasks \/ tasks' = [tasks EXCEPT ![i] = "queued"]
          /\ thread' = thread \/ thread' = [thread EXCEPT ![i] = "started"]
          /\ UNCHANGED result
      BY <1>10 DEF Post
    <2> HIDE DEF i
    <2>4. QED
      BY <2>1, <2>2, <2>3
  <1>11. ASSUME NEW b \in Batches, NEW n \in Biblios, Poll(b, n) PROVE CycleInv'
    BY <1>11 DEF Poll
  <1>12. ASSUME NEW b \in Batches, EndBatch(b) PROVE CycleInv'
    BY <1>12 DEF EndBatch
  <1>13. CASE WorkerDies
    BY <1>13 DEF WorkerDies
  <1>14. CASE UNCHANGED vars
    BY <1>14 DEF vars
  <1>15. QED
    BY <1>1, <1>2, <1>3, <1>4, <1>5, <1>6, <1>7, <1>8, <1>9, <1>10, <1>11, <1>12, <1>13, <1>14
       DEF Next, TaskStep, RobotStep

LEMMA StepFresh == TypeOK /\ FreshInv /\ [Next]_vars => FreshInv'
  <1> SUFFICES ASSUME TypeOK, FreshInv, [Next]_vars PROVE FreshInv'
    OBVIOUS
  <1> USE ItemIds DEF TypeOK, TaskIds, http, StartTask, StartTaskFails, Fault, Returns, FreshInv
  <1>1. ASSUME NEW t \in TaskIds, Begin(t) PROVE FreshInv'
    BY <1>1 DEF Begin
  <1>2. ASSUME NEW t \in TaskIds, TakeLock(t) PROVE FreshInv'
    BY <1>2 DEF TakeLock
  <1>3. ASSUME NEW t \in TaskIds, Publish(t) PROVE FreshInv'
    BY <1>3 DEF Publish
  <1>4. ASSUME NEW t \in TaskIds, NEW outcome \in {"success", "deferred", "failed"}, EndCycle(t, outcome) PROVE FreshInv'
    BY <1>4 DEF EndCycle
  <1>5. ASSUME NEW d \in Removals, RemoveCover(d) PROVE FreshInv'
    BY <1>5 DEF RemoveCover
  <1>6. ASSUME NEW e \in Exports, ExportRun(e) PROVE FreshInv'
    BY <1>6 DEF ExportRun, UnlockOnFailure
  <1>7. ASSUME NEW e \in Exports, EndExport(e) PROVE FreshInv'
    BY <1>7 DEF EndExport
  <1>8. ASSUME NEW b \in Batches, NEW text \in Texts, NEW width, NEW cli \in BOOLEAN, RunBatch(b, text, width, cli) PROVE FreshInv'
    BY <1>8 DEF RunBatch
  <1>9. ASSUME NEW b \in Batches, StartItem(b) PROVE FreshInv'
    BY <1>9 DEF StartItem
  <1>10. ASSUME NEW b \in Batches, NEW n \in Biblios, Post(b, n) PROVE FreshInv'
    BY <1>10 DEF Post
  <1>11. ASSUME NEW b \in Batches, NEW n \in Biblios, Poll(b, n) PROVE FreshInv'
    BY <1>11 DEF Poll
  <1>12. ASSUME NEW b \in Batches, EndBatch(b) PROVE FreshInv'
    BY <1>12 DEF EndBatch
  <1>13. CASE WorkerDies
    BY <1>13 DEF WorkerDies
  <1>14. CASE UNCHANGED vars
    BY <1>14 DEF vars
  <1>15. QED
    BY <1>1, <1>2, <1>3, <1>4, <1>5, <1>6, <1>7, <1>8, <1>9, <1>10, <1>11, <1>12, <1>13, <1>14
       DEF Next, TaskStep, RobotStep

LEMMA StepRobots == TypeOK /\ CycleInv /\ FreshInv /\ RobotInv /\ [Next]_vars => RobotInv'
  <1> SUFFICES ASSUME TypeOK, CycleInv, FreshInv, RobotInv, [Next]_vars PROVE RobotInv'
    OBVIOUS
  <1> USE ItemIds DEF TypeOK, TaskIds, http, StartTask, StartTaskFails, Fault, Returns, RobotInv, Knows
  <1>1. ASSUME NEW t \in TaskIds, Begin(t) PROVE RobotInv'
    <2>1. ASSUME NEW c \in Batches, thread'[c] = "working", NEW n \in Biblios PROVE Knows(<<c, n>>)'
      <3> DEFINE i == <<c, n>>
      <3>1. i \in Items /\ UNCHANGED <<item, result>>
        BY <1>1 DEF Begin
      <3>2. CASE t = c
        <4>1. item[i] = NoItem /\ thread'[i] = "none"
          BY <1>1, <3>2 DEF Begin, FreshInv
        <4>2. QED
          BY <3>1, <4>1 DEF NoItem
      <3>3. CASE t # c
        <4>1. thread[c] = "working" /\ (thread[i] = "none" => thread'[i] = "none")
          BY <1>1, <2>1, <3>1, <3>3 DEF Begin
        <4>2. Knows(i)
          BY <4>1
        <4>3. QED
          BY <3>1, <4>1, <4>2
      <3>4. QED
        BY <3>2, <3>3
    <2>2. QED
      BY <1>1, <2>1 DEF Begin
  <1>2. ASSUME NEW t \in TaskIds, TakeLock(t) PROVE RobotInv'
    BY <1>2 DEF TakeLock
  <1>3. ASSUME NEW t \in TaskIds, Publish(t) PROVE RobotInv'
    BY <1>3 DEF Publish
  <1>4. ASSUME NEW t \in TaskIds, NEW outcome \in {"success", "deferred", "failed"}, EndCycle(t, outcome) PROVE RobotInv'
    <2>1. t \in Items /\ thread[t] = "working" /\ result[t] = Null /\ UNCHANGED item
      BY <1>4 DEF EndCycle, CycleInv
    <2>2. ASSUME NEW c \in Batches PROVE thread'[c] = thread[c] /\ result'[c] = result[c]
      BY <1>4, <2>1 DEF EndCycle
    <2>3. ASSUME NEW i \in Items, Knows(i) PROVE Knows(i)'
      BY <1>4, <2>1, <2>3 DEF EndCycle
    <2>4. QED
      BY <2>2, <2>3
  <1>5. ASSUME NEW d \in Removals, RemoveCover(d) PROVE RobotInv'
    BY <1>5 DEF RemoveCover
  <1>6. ASSUME NEW e \in Exports, ExportRun(e) PROVE RobotInv'
    BY <1>6 DEF ExportRun, UnlockOnFailure
  <1>7. ASSUME NEW e \in Exports, EndExport(e) PROVE RobotInv'
    BY <1>7 DEF EndExport
  <1>8. ASSUME NEW b \in Batches, NEW text \in Texts, NEW width, NEW cli \in BOOLEAN, RunBatch(b, text, width, cli) PROVE RobotInv'
    <2>1. thread[b] = "none" /\ UNCHANGED <<item, result>>
      BY <1>8 DEF RunBatch
    <2>2. ASSUME NEW c \in TaskIds, c # b PROVE thread'[c] = thread[c]
      BY <1>8, <2>2 DEF RunBatch
    <2>3. ASSUME NEW n \in Biblios PROVE Knows(<<b, n>>)'
      BY <2>1, <2>2 DEF FreshInv, NoItem
    <2>4. ASSUME NEW c \in Batches, c # b, thread[c] = "working", NEW n \in Biblios PROVE Knows(<<c, n>>)'
      BY <2>1, <2>2, <2>4
    <2>5. QED
      BY <2>1, <2>2, <2>3, <2>4
  <1>9. ASSUME NEW b \in Batches, StartItem(b) PROVE RobotInv'
    <2> DEFINE m == Min(With(b, "waiting"))
    <2>1. m \in With(b, "waiting")
      <3>1. With(b, "waiting") \subseteq Nat
        BY CandidatesAreNumbers, CandidatesAreBiblios DEF With
      <3>2. QED
        BY <1>9, <3>1, LeastNumber DEF StartItem
    <2>2. m \in Biblios /\ item[<<b, m>>].pc = "waiting"
      BY <2>1, CandidatesAreBiblios DEF With
    <2> HIDE DEF m
    <2>3. /\ thread[b] = "working" /\ UNCHANGED <<thread, result>>
          /\ item' = [item EXCEPT ![<<b, m>>].pc = "post"]
      BY <1>9 DEF StartItem, m
    <2> DEFINE j == <<b, m>>
    <2>4. j \in Items /\ item[j] \in ItemStates /\ item[j].pc = "waiting" /\ thread[j] = "none"
      BY <2>2, <2>3
    <2>5. ASSUME NEW i \in Items, Knows(i) PROVE Knows(i)'
      <3>1. CASE i = j
        <4>1. item'[i].pc = "post"
          BY <2>3, <2>4, <3>1 DEF ItemStates
        <4>2. QED
          BY <2>3, <2>4, <3>1, <4>1
      <3>2. CASE i # j
        BY <2>3, <2>5, <3>2
      <3>3. QED
        BY <3>1, <3>2
    <2>6. QED
      BY <2>3, <2>5
  <1>10. ASSUME NEW b \in Batches, NEW n \in Biblios, Post(b, n) PROVE RobotInv'
    <2> DEFINE j == <<b, n>>
    <2>1. j \in Items /\ item[j] \in ItemStates /\ UNCHANGED result
      BY <1>10 DEF Post
    <2>2. item'[j].pc = "poll" \/ (item'[j].pc = "done" /\ item'[j].result \in {"ERROR_POST", "ERROR_CONN"})
      BY <1>10, <2>1 DEF Post, Settled, ItemStates
    <2>3. ASSUME NEW i \in Items, i # j PROVE item'[i] = item[i] /\ thread'[i] = thread[i]
      BY <1>10, <2>3 DEF Post
    <2>4. ASSUME NEW c \in Batches PROVE thread'[c] = thread[c]
      BY <1>10, <2>1 DEF Post
    <2>5. ASSUME NEW i \in Items, Knows(i) PROVE Knows(i)'
      <3>1. CASE i = j
        BY <2>2, <3>1
      <3>2. CASE i # j
        BY <2>1, <2>3, <2>5, <3>2
      <3>3. QED
        BY <3>1, <3>2
    <2> HIDE DEF j
    <2>6. QED
      BY <2>1, <2>4, <2>5
  <1>11. ASSUME NEW b \in Batches, NEW n \in Biblios, Poll(b, n) PROVE RobotInv'
    <2> DEFINE j == <<b, n>>
    <2>1. j \in Items /\ item[j] \in ItemStates /\ UNCHANGED <<thread, result>>
      BY <1>11 DEF Poll
    <2>2. PICK status \in {tasks[j], Null} :
            item' = [item EXCEPT ![j] =
              IF Verdict(status) # Null THEN Settled(Verdict(status))
              ELSE IF LastPoll(item[j].polls) THEN Settled("TIMEOUT")
              ELSE [item[j] EXCEPT !.polls = @ + 1]]
      BY <1>11 DEF Poll
    <2>3. /\ Verdict(status) = "SUCCESS" => result[j] = "success"
          /\ Verdict(status) = "DEFERRED" => result[j] = "deferred"
      BY <2>1, <2>2 DEF Verdict, CycleInv
    <2>4. \/ item'[j] = Settled(Verdict(status)) \/ item'[j] = Settled("TIMEOUT")
          \/ item'[j] = [item[j] EXCEPT !.polls = @ + 1]
      BY <2>1, <2>2
    <2>5. ASSUME NEW i \in Items, i # j PROVE item'[i] = item[i]
      BY <2>2, <2>5
    <2>6. item[j].pc = "poll"
      BY <1>11 DEF Poll
    <2>7. ASSUME NEW i \in Items, Knows(i) PROVE Knows(i)'
      <3>1. CASE i = j
        <4>1. item'[j].pc \in {"poll", "done"} /\ (item'[j].pc = "done" => item'[j].result \in {Verdict(status), "TIMEOUT"})
          <5>1. CASE item'[j] = Settled(Verdict(status)) \/ item'[j] = Settled("TIMEOUT")
            BY <5>1 DEF Settled
          <5>2. CASE item'[j] = [item[j] EXCEPT !.polls = @ + 1]
            BY <2>1, <2>6, <5>2 DEF ItemStates
          <5>3. QED
            BY <2>4, <5>1, <5>2
        <4>2. QED
          BY <2>1, <2>3, <3>1, <4>1
      <3>2. CASE i # j
        BY <2>1, <2>5, <2>7, <3>2
      <3>3. QED
        BY <3>1, <3>2
    <2> HIDE DEF j
    <2>8. QED
      BY <2>1, <2>7
  <1>12. ASSUME NEW b \in Batches, EndBatch(b) PROVE RobotInv'
    BY <1>12 DEF EndBatch
  <1>13. CASE WorkerDies
    BY <1>13 DEF WorkerDies
  <1>14. CASE UNCHANGED vars
    BY <1>14 DEF vars
  <1>15. QED
    BY <1>1, <1>2, <1>3, <1>4, <1>5, <1>6, <1>7, <1>8, <1>9, <1>10, <1>11, <1>12, <1>13, <1>14
       DEF Next, TaskStep, RobotStep

LEMMA StepReport == TypeOK /\ CycleInv /\ RobotInv /\ ReportInv /\ [Next]_vars => ReportInv'
  <1> SUFFICES ASSUME TypeOK, CycleInv, RobotInv, ReportInv, [Next]_vars PROVE ReportInv'
    OBVIOUS
  <1> USE DEF TypeOK, TaskIds, http, StartTask, StartTaskFails, Fault, Returns, ReportInv, Archived, Candidates
  <1>1. ASSUME NEW t \in TaskIds, Begin(t) PROVE ReportInv'
    BY <1>1 DEF Begin
  <1>2. ASSUME NEW t \in TaskIds, TakeLock(t) PROVE ReportInv'
    BY <1>2 DEF TakeLock
  <1>3. ASSUME NEW t \in TaskIds, Publish(t) PROVE ReportInv'
    BY <1>3 DEF Publish
  <1>4. ASSUME NEW t \in TaskIds, NEW outcome \in {"success", "deferred", "failed"}, EndCycle(t, outcome) PROVE ReportInv'
    <2>1. t \in Items /\ result[t] = Null /\ UNCHANGED batch /\ result' = [result EXCEPT ![t] = outcome]
      BY <1>4 DEF EndCycle, CycleInv
    <2>2. ASSUME NEW c \in Batches PROVE result'[c] = result[c] /\ Candidates(c)' = Candidates(c)
      BY <2>1, ItemIds
    <2>3. ASSUME NEW c \in Batches, NEW n \in Candidates(c), result[<<c, n>>] # Null
          PROVE result'[<<c, n>>] = result[<<c, n>>]
      BY <2>1, <2>3
    <2>4. QED
      BY <2>2, <2>3
  <1>5. ASSUME NEW d \in Removals, RemoveCover(d) PROVE ReportInv'
    BY <1>5 DEF RemoveCover
  <1>6. ASSUME NEW e \in Exports, ExportRun(e) PROVE ReportInv'
    BY <1>6 DEF ExportRun, UnlockOnFailure
  <1>7. ASSUME NEW e \in Exports, EndExport(e) PROVE ReportInv'
    BY <1>7 DEF EndExport
  <1>8. ASSUME NEW b \in Batches, NEW text \in Texts, NEW width, NEW cli \in BOOLEAN, RunBatch(b, text, width, cli) PROVE ReportInv'
    <2>1. result[b] = Null /\ UNCHANGED result
      BY <1>8 DEF RunBatch, RobotInv
    <2>2. ASSUME NEW c \in Batches, c # b PROVE Candidates(c)' = Candidates(c)
      BY <1>8, <2>2 DEF RunBatch
    <2>3. QED
      BY <2>1, <2>2
  <1>9. ASSUME NEW b \in Batches, StartItem(b) PROVE ReportInv'
    BY <1>9 DEF StartItem
  <1>10. ASSUME NEW b \in Batches, NEW n \in Biblios, Post(b, n) PROVE ReportInv'
    BY <1>10 DEF Post
  <1>11. ASSUME NEW b \in Batches, NEW n \in Biblios, Poll(b, n) PROVE ReportInv'
    BY <1>11 DEF Poll
  <1>12. ASSUME NEW b \in Batches, EndBatch(b) PROVE ReportInv'
    <2>1. thread[b] = "working" /\ Candidates(b) = With(b, "done") /\ UNCHANGED batch
      BY <1>12 DEF EndBatch
    <2>2. ASSUME NEW n \in Candidates(b), result'[b] \in {"success", "deferred"}
          PROVE result[<<b, n>>] = "success" \/ (result'[b] = "deferred" /\ result[<<b, n>>] = "deferred")
      <3> DEFINE i == <<b, n>>
      <3>1. i \in Items /\ item[i].pc = "done" /\ item[i] \in ItemStates
        BY <2>1, CandidatesAreBiblios, ItemIds DEF With
      <3>2. Key(item[i].result) \notin FailureStatuses
        BY <1>12, <2>2 DEF EndBatch
      <3>3. item[i].result \in {"SUCCESS", "DEFERRED"}
        BY <3>1, <3>2 DEF Key, FailureStatuses, Stats, ItemStates
      <3>4. item[i].result = "DEFERRED" => result'[b] = "deferred"
        <4>1. Key("DEFERRED") = "DEFERRED"
          BY DEF Key, Stats
        <4>2. QED
          BY <1>12, <2>2, <4>1 DEF EndBatch
      <3>5. Knows(i)
        BY <2>1, CandidatesAreBiblios DEF RobotInv
      <3>6. QED
        BY <3>1, <3>3, <3>4, <3>5 DEF Knows
    <2>3. ASSUME NEW c \in TaskIds, c # b PROVE result'[c] = result[c]
      BY <1>12, <2>3 DEF EndBatch
    <2>4. ASSUME NEW c \in Batches, NEW n \in Candidates(c) PROVE <<c, n>> \in TaskIds /\ <<c, n>> # b
      BY CandidatesAreBiblios, ItemIds
    <2>5. QED
      BY <2>1, <2>2, <2>3, <2>4
  <1>13. CASE WorkerDies
    BY <1>13 DEF WorkerDies
  <1>14. CASE UNCHANGED vars
    BY <1>14 DEF vars
  <1>15. QED
    BY <1>1, <1>2, <1>3, <1>4, <1>5, <1>6, <1>7, <1>8, <1>9, <1>10, <1>11, <1>12, <1>13, <1>14
       DEF Next, TaskStep, RobotStep

LEMMA StepInv == BatchesInv /\ [Next]_vars => BatchesInv'
  BY StepTyped, StepExports, StepLog, StepCycles, StepFresh, StepRobots, StepReport
     DEF BatchesInv, RobotsInv

-----------------------------------------------------------------------------
(* Theorems.                                                                 *)

\* The invariant that carries the rest: exports and their lock, and what a robot
\* knows of the cycles it started.
THEOREM BatchesInductive == Spec => []BatchesInv
  <1>1. Init => BatchesInv
    BY InitInv
  <1>2. BatchesInv /\ [Next]_vars => BatchesInv'
    BY StepInv
  <1>3. QED
    BY <1>1, <1>2, PTL DEF Spec

\* The threads, tasks and locks hold what the code gives them.
THEOREM TypeCorrect == Spec => []TypeOK
  <1>1. BatchesInv => TypeOK
    BY DEF BatchesInv
  <1>2. QED
    BY <1>1, BatchesInductive, PTL

\* However many exports are asked for, _EXPORT_RUN_LOCK is taken while exactly one
\* of them is started or at work, and free while none is (app.py, export_run_async).
THEOREM OneExportUnderLock == Spec => []ExportLockFollowsRun
  <1>1. BatchesInv => ExportLockFollowsRun
    <2> SUFFICES ASSUME BatchesInv PROVE ExportLockFollowsRun
      OBVIOUS
    <2> DEFINE active == {e \in Exports : thread[e] \in {"started", "working"}}
    <2>1. CASE exportLock
      <3>1. PICK e \in Exports : active = {e}
        BY <2>1 DEF BatchesInv, ExportInv
      <3>2. QED
        BY <2>1, <3>1, FS_Singleton DEF ExportLockFollowsRun
    <2>2. CASE ~exportLock
      <3>1. active = {}
        BY <2>2 DEF BatchesInv, ExportInv
      <3>2. QED
        BY <2>2, <3>1, FS_EmptySet DEF ExportLockFollowsRun
    <2>3. QED
      BY <2>1, <2>2
  <1>2. QED
    BY <1>1, BatchesInductive, PTL

\* A batch whose task is reported as a success has archived every record its text
\* names (robot.py, run_batch_from_text), whatever was lost or killed.
THEOREM SuccessIsComplete == Spec => []SuccessMeansAllDone
  <1>1. BatchesInv => SuccessMeansAllDone
    <2> SUFFICES ASSUME BatchesInv, NEW b \in Batches, result[b] \in {"success", "deferred"},
                        NEW part \in batch[b].text \ {<<>>}, NEW n \in Biblios,
                        ~(n < Min({part[1], part[2]})), ~(n > Max({part[1], part[2]}))
                 PROVE  result[<<b, n>>] \in {"success"} \cup (IF result[b] = "deferred" THEN {"deferred"} ELSE {})
      BY DEF SuccessMeansAllDone
    <2>1. batch[b].text \in Texts
      BY DEF BatchesInv, TypeOK, BatchStates
    <2>2. part[1] \in Nat /\ part[2] \in Nat
      <3>1. part \in Nat \X Nat
        BY <2>1, TextsOfNumbers
      <3>2. QED
        BY <3>1
    <2>3. n \in (part[1]..part[2]) \cup (part[2]..part[1])
      BY <2>2, PartIsRange, CandidatesAreNumbers
    <2>4. n \in Candidates(b)
      BY <2>3 DEF Candidates, ParseCandidates, Span
    <2>5. QED
      BY <2>4 DEF BatchesInv, RobotsInv, ReportInv, Archived
  <1>2. QED
    BY <1>1, BatchesInductive, PTL
=============================================================================
