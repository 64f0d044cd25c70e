-------------------------- MODULE CoverCycle_proofs --------------------------
(***************************************************************************)
(* What CoverCycle promises for any files, contents and options, and any    *)
(* number of edits, faults, forced refreshes and removals.                  *)
(***************************************************************************)
EXTENDS CoverCycle, TLAPS

\* The values of the variables.
Pair(s)     == {NoSource} \cup [id : Ids(s), sha : Contents(s)]
Pairs       == {p \in SourcePairs : \A s \in Sources : p[s] \in Pair(s)}
Gate(s)     == [action : {"none", "resume", "noop", "changed", "same"},
                sha : Opt(Contents(s)), seen : Opt(Contents(s))]
Gates       == {g \in [Sources -> Gate("file") \cup Gate("cover")] :
                  \A s \in Sources : g[s] \in Gate(s)}
Results     == [item : Nat, bit : Nat, old : SUBSET Nat]
Checkpoints == [srcs : Pairs, option : Options, file_work : BOOLEAN,
                asset : Opt(Assets), result : Opt(Results)]
Records     == [file : Opt(FileIds), cover : Opt(CoverIds), asset : Opt(Assets),
                item : Opt(Nat), link : Opt(Nat)]
Rows        == [status : {"absent", "unfinished", "ok"}, file : Pair("file"), cover : Pair("cover"),
                asset : Opt(Assets), item : Opt(Nat), bit : Opt(Nat)]
Bits        == [id : Nat, name : FileIds, content : FileContents]
Repos       == [item : Opt(Nat), bits : SUBSET Bits, primary : Opt(Nat), items : Nat, uploads : Nat]
Metas       == [file : Opt(FileIds), cover : Opt(CoverIds), item : Opt(Nat), link : Opt(Nat)]
Cycles      == [pc : Stages, force : BOOLEAN, option : Opt(Options), meta : Metas, old : Rows,
                resumed : Opt(Checkpoints), gate : Gates, file_work : BOOLEAN, cover_work : BOOLEAN,
                srcs : Pairs, asset : Opt(Assets), result : Opt(Results), todo : SUBSET Nat]

\* A file of one kind holds contents of that kind.
DriveHolds ==
  /\ drive \in [FileIds \cup CoverIds -> Assets]
  /\ \A s \in Sources : \A id \in Ids(s) : drive[id] \in Contents(s)

Shapes ==
  /\ DriveHolds
  /\ koha \in Records
  /\ row \in Rows
  /\ work \in Opt(Checkpoints)
  /\ repo \in Repos
  /\ cycle \in Cycles

\* Items and bitstreams are named only once they exist.
KohaBounded == koha.item \in Opt(1..repo.items) /\ koha.link \in Link
RowBounded  == row.item \in Opt(1..repo.items) /\ row.bit \in Link
WorkBounded == work # None => work.result \in Opt(Result)
RepoBounded ==
  /\ repo.item \in Opt(1..repo.items) /\ repo.primary \in Link
  /\ \A b \in repo.bits : b.id \in BitId
CycleBounded ==
  /\ cycle.resumed # None => cycle.resumed.result \in Opt(Result)
  /\ cycle.result \in Opt(Result)
  /\ cycle.todo \subseteq BitId

Bounds == KohaBounded /\ RowBounded /\ WorkBounded /\ RepoBounded /\ CycleBounded

\* A source that passed its gate without an answer of Drive has a SHA in the row.
GateInv ==
  /\ cycle.pc = "gate_file" => row.file = cycle.old.file
  /\ cycle.pc \in {"gate_file", "gate_cover"} => row.cover = cycle.old.cover
  /\ cycle.pc \in {"gate_cover", "decide", "links", "start"} =>
       (cycle.meta.file # None /\ cycle.gate["file"].sha = None => row.file.id # None)
  /\ cycle.pc \in {"decide", "links", "start"} =>
       (cycle.meta.cover # None /\ cycle.gate["cover"].sha = None => row.cover.id # None)

\* An Item that is gone has nothing, and the primary bitstream is one of its own.
RepoInv ==
  /\ repo.item = None => repo.bits = {} /\ repo.primary = None
  /\ repo.primary # None => Has(repo.primary)

KohaInv == (koha.item = None => koha.link = None) /\ LinkNeverDangles

\* As long as the Item lives the uploaded PDF is in it, and every other one of
\* its name is among those to be deleted.
ResultHolds(result, srcs) ==
  /\ srcs["file"].id # None
  /\ result.bit \notin result.old
  /\ repo.item # None =>
       /\ repo.item = result.item
       /\ \E b \in repo.bits :
            b.id = result.bit /\ b.name = srcs["file"].id /\ b.content = srcs["file"].sha
       /\ \A b \in repo.bits : b.name = srcs["file"].id => b.id \in result.old \cup {result.bit}

WorkInv ==
  work # None =>
    /\ row.asset = work.asset
    /\ work.result # None =>
         ResultHolds(work.result, work.srcs) /\ (repo.item # None =>
                                     repo.primary = work.result.bit)

Gating == {"gate_file", "gate_cover", "decide", "links"}

\* What a cycle knows of its inputs and its checkpoint.
InputInv ==
  /\ cycle.pc \notin {"idle", "removing"} => cycle.option \in Options
  /\ cycle.pc \in Gating /\ (cycle.old.item # None \/ cycle.meta.item # None) =>
        koha.item # None
  /\ cycle.pc \in Gating \cup {"start", "reuse", "cover"} /\ cycle.resumed # None =>
       work = cycle.resumed /\ \A s \in Sources : work.srcs[s].id = cycle.meta[s]
  /\ cycle.pc \in Downstream => \A s \in Sources : cycle.srcs[s].id = cycle.meta[s]

\* What a cycle knows of the PDF it uploads or has uploaded.
FileInv ==
  /\ cycle.pc \notin {"primary", "checkpoint", "koha", "readback", "cleanup"} =>
        cycle.result = None
  /\ cycle.pc \in {"fetch", "item", "upload", "primary", "checkpoint"} =>
       cycle.file_work /\ work # None /\ work.result = None
  /\ cycle.pc \in {"item", "upload"} => cycle.srcs["file"].id # None
  /\ cycle.pc \in {"primary", "checkpoint"} =>
       cycle.result # None /\ ResultHolds(cycle.result, cycle.srcs)
  /\ cycle.pc = "checkpoint" => (repo.item # None => repo.primary = cycle.result.bit)

\* What is left to do when the checkpoint holds everything.
WriteInv ==
  /\ cycle.pc \in {"koha", "readback", "cleanup"} =>
       /\ work # None /\ work.result = cycle.result /\ work.asset = cycle.asset
       /\ work.srcs["file"].id = cycle.meta.file
       /\ cycle.file_work => cycle.result # None
  /\ cycle.pc = "cleanup" =>
       /\ koha.asset = cycle.asset
       /\ ~cycle.file_work => cycle.todo = {}
       /\ cycle.file_work =>
            /\ koha.item = cycle.result.item /\ koha.link \in {None, cycle.result.bit}
            /\ cycle.todo \subseteq cycle.result.old
            /\ \A b \in repo.bits :
                 b.name = cycle.meta.file => b.id \in cycle.todo \cup {cycle.result.bit}

CycleKnows == GateInv /\ InputInv /\ FileInv /\ WriteInv

CoverCycleInv == Shapes /\ Bounds /\ RepoInv /\ KohaInv /\ WorkInv /\ CycleKnows

USE CycleAssumptions, NoneIsNoValue

-----------------------------------------------------------------------------
(* Records and their parts.                                                  *)

LEMMA SourcesAndIds ==
  /\ Sources = {"file", "cover"} /\ Ids("file") = FileIds /\ Ids("cover") = CoverIds
  /\ Contents("file") = FileContents /\ Contents("cover") = CoverContents
  /\ \A s \in Sources :
       Contents(s) \subseteq Assets /\ None \notin Contents(s) /\ None \notin Ids(s)
  BY DEF Sources, Ids, Contents, Assets

LEMMA PairFacts ==
  /\ NoSource.id = None /\ NoSource.sha = None
  /\ \A s \in Sources : NoSource \in Pair(s)
  /\ \A s \in Sources : \A p \in Pair(s) :
       /\ p.id = None => p = NoSource
       /\ p.id # None => p.id \in Ids(s) /\ p.sha \in Contents(s)
       /\ p.sha \in Opt(Contents(s)) /\ p.id \in Opt(Ids(s))
       /\ p \in SourcePair
  /\ \A s \in Sources : \A id \in Ids(s), sha \in Contents(s) : [id |-> id, sha |-> sha] \in Pair(s)
  <1>1. NoSource.id = None /\ NoSource.sha = None /\ \A s \in Sources : NoSource \in Pair(s)
    BY DEF NoSource, Pair
  <1>2. ASSUME NEW s \in Sources, NEW p \in Pair(s), p # NoSource
        PROVE  /\ p.id \in Ids(s) /\ p.sha \in Contents(s) /\ p.id # None
               /\ p \in [id : Ids(s), sha : Contents(s)]
    BY <1>2, SourcesAndIds DEF Pair
  <1>3. NoSource \in SourcePair
    BY DEF NoSource, SourcePair, Opt
  <1>4. ASSUME NEW s \in Sources, NEW p \in Pair(s), p # NoSource PROVE p \in SourcePair
    <2>1. p \in [id : Ids(s), sha : Contents(s)]
      BY <1>2, <1>4
    <2>2. Ids(s) \subseteq FileIds \cup CoverIds /\ Contents(s) \subseteq Assets
      BY SourcesAndIds
    <2>3. QED
      BY <2>1, <2>2 DEF SourcePair, Opt
  <1>5. \A s \in Sources :
          \A id \in Ids(s), sha \in Contents(s) : [id |-> id, sha |-> sha] \in Pair(s)
    BY DEF Pair
  <1>6. QED
    BY <1>1, <1>2, <1>3, <1>4, <1>5 DEF Opt

LEMMA PairsFacts ==
  /\ \A p \in Pairs, s \in Sources : p[s] \in Pair(s)
  /\ \A p \in [Sources -> SourcePair] : (\A s \in Sources : p[s] \in Pair(s)) => p \in Pairs
  /\ [s \in Sources |-> NoSource] \in Pairs
  <1>1. \A p \in [Sources -> SourcePair] : (\A s \in Sources : p[s] \in Pair(s)) => p \in Pairs
    BY DEF Pairs, SourcePairs
  <1>2. [s \in Sources |-> NoSource] \in Pairs
    BY PairFacts, <1>1
  <1>3. QED
    BY <1>1, <1>2 DEF Pairs

LEMMA GateFacts ==
  /\ \A g \in Gates, s \in Sources : g[s] \in Gate(s)
  /\ \A s \in Sources : \A g \in Gate(s) : g.sha \in Opt(Contents(s)) /\ g.seen \in Opt(Contents(s))
  /\ \A g \in Gates, s \in Sources : \A h \in Gate(s) : [g EXCEPT ![s] = h] \in Gates
  /\ [s \in Sources |-> NoGate] \in Gates
  /\ \A s \in Sources : \A action \in {"none", "resume", "noop", "changed", "same"},
                         sha \in Opt(Contents(s)), seen \in Opt(Contents(s)) :
        [action |-> action, sha |-> sha, seen |-> seen] \in Gate(s)
  <1>1. \A g \in Gates, s \in Sources : g[s] \in Gate(s)
    BY DEF Gates
  <1>2. \A s \in Sources : \A g \in Gate(s) : g.sha \in Opt(Contents(s)) /\ g.seen \in Opt(Contents(s))
    BY DEF Gate
  <1>3. ASSUME NEW g \in Gates, NEW s \in Sources, NEW h \in Gate(s)
        PROVE  [g EXCEPT ![s] = h] \in Gates
    <2>1. Gate(s) \subseteq Gate("file") \cup Gate("cover")
      BY SourcesAndIds
    <2>2. QED
      BY <2>1 DEF Gates
  <1>4. \A s \in Sources : NoGate \in Gate(s)
    BY DEF NoGate, Gate, Opt
  <1>5. [s \in Sources |-> NoGate] \in Gates
    BY <1>4, SourcesAndIds DEF Gates
  <1>6. QED
    BY <1>1, <1>2, <1>3, <1>5 DEF Gate

LEMMA CheckpointsFacts == None \notin Results /\ None \notin Checkpoints
  <1>1. None \notin Results
    BY DEF Results
  <1>2. Opt(Results) = Opt([item : Nat, bit : Nat, old : SUBSET Nat])
           /\ Pairs \subseteq SourcePairs
    BY DEF Results, Pairs
  <1>3. QED
    BY <1>1, <1>2 DEF Checkpoints

LEMMA IdleFacts ==
  /\ AbsentRow \in Rows /\ Idle \in Cycles
  /\ Idle.pc = "idle" /\ Idle.result = None /\ Idle.resumed = None /\ Idle.todo = {}
  <1>1. AbsentRow \in Rows
    BY PairFacts, SourcesAndIds DEF AbsentRow, Rows, Opt
  <1>2. [file |-> None, cover |-> None, item |-> None, link |-> None] \in Metas
    BY DEF Metas, Opt
  <1>3. Idle \in Cycles
    BY <1>1, <1>2, GateFacts, PairsFacts DEF Idle, Cycles, Stages, Opt
  <1>4. QED
    BY <1>1, <1>3 DEF Idle

-----------------------------------------------------------------------------
(* Shapes, a variable at a time.                                             *)

LEMMA DriveShape == Shapes /\ [Next]_vars => DriveHolds'
  <1> SUFFICES ASSUME Shapes, [Next]_vars PROVE DriveHolds'
    OBVIOUS
  <1> USE DEF Shapes, DriveHolds
  <1>1. ASSUME NEW force \in BOOLEAN, NEW option \in Options, Begin(force, option)
        PROVE  DriveHolds'
    BY <1>1 DEF Begin
  <1>2. CASE BeginWithoutSource
    BY <1>2 DEF BeginWithoutSource, vars
  <1>3. ASSUME NEW s \in Sources, GateQuietly(s) PROVE DriveHolds'
    BY <1>3 DEF GateQuietly, External
  <1>4. ASSUME NEW s \in Sources, GateByMetadata(s) PROVE DriveHolds'
    BY <1>4 DEF GateByMetadata, External
  <1>5. CASE Decide
    BY <1>5 DEF Decide, External
  <1>6. CASE NothingToDo
    BY <1>6 DEF NothingToDo, External
  <1>7. CASE RepairLinks
    BY <1>7 DEF RepairLinks, External
  <1>8. CASE RebuildItem
    BY <1>8 DEF RebuildItem, External
  <1>9. CASE StartDownstream
    BY <1>9 DEF StartDownstream, External
  <1>10. CASE ReuseCover
    BY <1>10 DEF ReuseCover, External
  <1>11. CASE ResumeCover
    BY <1>11 DEF ResumeCover, External
  <1>12. CASE RenderCover
    BY <1>12 DEF RenderCover, External
  <1>13. CASE SaveCover
    BY <1>13 DEF SaveCover, External
  <1>14. CASE FetchFile
    BY <1>14 DEF FetchFile, External
  <1>15. CASE EnsureItem
    BY <1>15 DEF EnsureItem, External
  <1>16. CASE Upload
    BY <1>16 DEF Upload, External
  <1>17. CASE SetPrimary
    BY <1>17 DEF SetPrimary, External
  <1>18. CASE CheckpointResult
    BY <1>18 DEF CheckpointResult, External
  <1>19. CASE WriteKoha
    BY <1>19 DEF WriteKoha, External
  <1>20. CASE ConfirmKoha
    BY <1>20 DEF ConfirmKoha, External
  <1>21. ASSUME NEW bit \in cycle.todo, DeleteOld(bit) PROVE DriveHolds'
    BY <1>21 DEF DeleteOld, External
  <1>22. CASE CompleteCycle
    BY <1>22 DEF CompleteCycle, External
  <1>23. CASE Refuse
    BY <1>23 DEF Refuse, External
  <1>24. CASE RemoveFromState
    BY <1>24 DEF RemoveFromState, External
  <1>25. CASE Stop
    BY <1>25 DEF Stop
  <1>26. ASSUME NEW s \in Sources, DriveFails(s) PROVE DriveHolds'
    BY <1>26 DEF DriveFails
  <1>27. CASE RemoveFromKoha
    BY <1>27 DEF RemoveFromKoha
  <1>28. CASE EditContent
    <2>1. PICK s \in Sources : \E id \in Ids(s) : \E c \in Contents(s) \ {drive[id]} :
                 drive' = [drive EXCEPT ![id] = c]
      BY <1>28 DEF EditContent
    <2>2. PICK id \in Ids(s) : \E c \in Contents(s) \ {drive[id]} : drive' = [drive EXCEPT ![id] = c]
      BY <2>1
    <2>3. PICK c \in Contents(s) : drive' = [drive EXCEPT ![id] = c]
      BY <2>2
    <2>4. id \in FileIds \cup CoverIds /\ c \in Assets
      BY SourcesAndIds
    <2>5. drive' \in [FileIds \cup CoverIds -> Assets]
      BY <2>3, <2>4
    <2>6. ASSUME NEW t \in Sources, NEW i \in Ids(t) PROVE drive'[i] \in Contents(t)
      BY <2>3, <2>4, SourcesAndIds
    <2>7. QED
      BY <2>5, <2>6
  <1>29. CASE Relink
    BY <1>29 DEF Relink, Edit
  <1>30. CASE Unlink
    BY <1>30 DEF Unlink, Edit
  <1>31. CASE DropLinks
    BY <1>31 DEF DropLinks, Edit
  <1>32. CASE DropItem
    BY <1>32 DEF DropItem, Edit
  <1>33. CASE UNCHANGED vars
    BY <1>33 DEF vars
  <1>34. QED
    BY <1>1, <1>2, <1>3, <1>4, <1>5, <1>6, <1>7, <1>8, <1>9, <1>10, <1>11, <1>12, <1>13, <1>14,
       <1>15, <1>16, <1>17, <1>18, <1>19, <1>20, <1>21, <1>22, <1>23, <1>24, <1>25, <1>26, <1>27,
       <1>28, <1>29, <1>30, <1>31, <1>32, <1>33
       DEF Next, Step

LEMMA KohaShape == Shapes /\ FileInv /\ WriteInv /\ [Next]_vars => (koha \in Records)'
  <1> SUFFICES ASSUME Shapes, FileInv, WriteInv, [Next]_vars PROVE (koha \in Records)'
    OBVIOUS
  <1> USE DEF Shapes
  <1>1. ASSUME NEW force \in BOOLEAN, NEW option \in Options, Begin(force, option)
        PROVE  (koha \in Records)'
    <2>1. Restored \in Records
      BY DEF Restored, Records, Rows, Opt
    <2>2. QED
      BY <1>1, <2>1 DEF Begin
  <1>2. CASE BeginWithoutSource
    BY <1>2 DEF BeginWithoutSource, vars
  <1>3. ASSUME NEW s \in Sources, GateQuietly(s) PROVE (koha \in Records)'
    BY <1>3 DEF GateQuietly, External
  <1>4. ASSUME NEW s \in Sources, GateByMetadata(s) PROVE (koha \in Records)'
    BY <1>4 DEF GateByMetadata, External
  <1>5. CASE Decide
    BY <1>5 DEF Decide, External
  <1>6. CASE NothingToDo
    BY <1>6 DEF NothingToDo, External
  <1>7. CASE RepairLinks
    BY <1>7 DEF RepairLinks, External, Repos, Records, Opt
  <1>8. CASE RebuildItem
    BY <1>8 DEF RebuildItem, External
  <1>9. CASE StartDownstream
    BY <1>9 DEF StartDownstream, External
  <1>10. CASE ReuseCover
    BY <1>10 DEF ReuseCover, External
  <1>11. CASE ResumeCover
    BY <1>11 DEF ResumeCover, External
  <1>12. CASE RenderCover
    BY <1>12 DEF RenderCover, External
  <1>13. CASE SaveCover
    BY <1>13 DEF SaveCover, External
  <1>14. CASE FetchFile
    BY <1>14 DEF FetchFile, External
  <1>15. CASE EnsureItem
    BY <1>15 DEF EnsureItem, External
  <1>16. CASE Upload
    BY <1>16 DEF Upload, External
  <1>17. CASE SetPrimary
    BY <1>17 DEF SetPrimary, External
  <1>18. CASE CheckpointResult
    BY <1>18 DEF CheckpointResult, External
  <1>19. CASE WriteKoha
    <2>1. cycle.asset \in Opt(Assets) /\ cycle.result \in Opt(Results) /\ koha \in Records
      BY DEF Cycles
    <2>2. CASE cycle.file_work
      <3>1. cycle.result \in Results
        BY <1>19, <2>1, <2>2 DEF WriteKoha, WriteInv, Opt
      <3>2. cycle.result.item \in Nat /\ cycle.result.bit \in Nat
        BY <3>1 DEF Results
      <3>3. QED
        BY <1>19, <2>1, <2>2, <3>2 DEF WriteKoha, Records, Opt
    <2>3. CASE ~cycle.file_work
      BY <1>19, <2>1, <2>3 DEF WriteKoha, Records
    <2>4. QED
      BY <2>2, <2>3
  <1>20. CASE ConfirmKoha
    BY <1>20 DEF ConfirmKoha, External
  <1>21. ASSUME NEW bit \in cycle.todo, DeleteOld(bit) PROVE (koha \in Records)'
    BY <1>21 DEF DeleteOld, External
  <1>22. CASE CompleteCycle
    BY <1>22 DEF CompleteCycle, External
  <1>23. CASE Refuse
    BY <1>23 DEF Refuse, External
  <1>24. CASE RemoveFromState
    BY <1>24 DEF RemoveFromState, External
  <1>25. CASE Stop
    BY <1>25 DEF Stop
  <1>26. ASSUME NEW s \in Sources, DriveFails(s) PROVE (koha \in Records)'
    BY <1>26 DEF DriveFails
  <1>27. CASE RemoveFromKoha
    BY <1>27 DEF RemoveFromKoha, Records, Opt
  <1>28. CASE EditContent
    BY <1>28 DEF EditContent, Edit
  <1>29. CASE Relink
    <2>1. PICK s \in Sources : \E id \in Ids(s) \ {koha[s]} : koha' = [koha EXCEPT ![s] = id]
      BY <1>29 DEF Relink
    <2>2. PICK id \in Ids(s) : koha' = [koha EXCEPT ![s] = id]
      BY <2>1
    <2>3. CASE s = "file"
      BY <2>2, <2>3, SourcesAndIds DEF Records, Opt
    <2>4. CASE s = "cover"
      BY <2>2, <2>4, SourcesAndIds DEF Records, Opt
    <2>5. QED
      BY <2>3, <2>4 DEF Sources
  <1>30. CASE Unlink
    <2>1. PICK s \in Sources : koha' = [koha EXCEPT ![s] = None]
      BY <1>30 DEF Unlink
    <2>2. s = "file" \/ s = "cover"
      BY SourcesAndIds
    <2>3. QED
      BY <2>1, <2>2 DEF Records, Opt
  <1>31. CASE DropLinks
    BY <1>31 DEF DropLinks, Edit, Records, Opt
  <1>32. CASE DropItem
    BY <1>32 DEF DropItem, Edit
  <1>33. CASE UNCHANGED vars
    BY <1>33 DEF vars
  <1>34. QED
    BY <1>1, <1>2, <1>3, <1>4, <1>5, <1>6, <1>7, <1>8, <1>9, <1>10, <1>11, <1>12, <1>13, <1>14,
       <1>15, <1>16, <1>17, <1>18, <1>19, <1>20, <1>21, <1>22, <1>23, <1>24, <1>25, <1>26, <1>27,
       <1>28, <1>29, <1>30, <1>31, <1>32, <1>33
       DEF Next, Step

\* What a gate records of a source.
LEMMA GatedFacts ==
  ASSUME cycle \in Cycles, NEW s \in Sources, NEW action, NEW sha, NEW seen,
         [action |-> action, sha |-> sha, seen |-> seen] \in Gate(s)
  PROVE  Gated(s, action, sha, seen) \in Cycles
  <1> DEFINE g == [action |-> action, sha |-> sha, seen |-> seen]
  <1>1. [cycle.gate EXCEPT ![s] = g] \in Gates
    BY GateFacts DEF Cycles
  <1>2. NextGate(s) \in Stages
    BY DEF NextGate, Stages
  <1>3. Gated(s, action, sha, seen) =
          [cycle EXCEPT !.pc = NextGate(s), !.gate = [cycle.gate EXCEPT ![s] = g]]
    BY DEF Gated, Cycles
  <1> HIDE DEF g
  <1>4. QED
    BY <1>1, <1>2, <1>3 DEF Cycles

\* check_drive_metadata, whatever it finds, leaves a row of the same contents.
LEMMA AskFacts ==
  ASSUME Shapes, NEW s \in Sources, cycle.meta[s] # None, AskDrive(s)
  PROVE  /\ drive[cycle.meta[s]] \in Contents(s)
         /\ row' \in Rows
         /\ row'.asset = row.asset /\ row'.item = row.item /\ row'.bit = row.bit
         /\ \A t \in Sources : row'[t].sha = row[t].sha /\ (row[t].id # None =>
               row'[t].id # None)
         /\ \A t \in Sources \ {s} : row'[t] = row[t]
         /\ row.status # "ok" => row'.status # "ok"
  <1>1. row \in Rows /\ cycle.meta[s] \in Ids(s)
    BY SourcesAndIds DEF Shapes, Cycles, Metas, Opt, Sources
  <1>2. drive[cycle.meta[s]] \in Contents(s)
    BY <1>1 DEF Shapes, DriveHolds
  <1>3. CASE SameContent(s)
    <2> DEFINE new == [id |-> cycle.meta[s], sha |-> row[s].sha]
    <2>1. row[s] \in Pair(s)
      BY <1>1 DEF Rows, Sources
    <2>2. row[s].sha \in Contents(s)
      BY <1>2, <1>3 DEF SameContent, Ref
    <2>3. new \in Pair(s)
      BY <1>1, <2>2, PairFacts
    <2>4. row[s] \in [id : Ids(s), sha : Contents(s)]
      BY <2>1, <2>2, PairFacts, SourcesAndIds DEF Pair
    <2>5. [row[s] EXCEPT !.id = cycle.meta[s]] = new
      BY <2>4
    <2>6. row' = [row EXCEPT ![s] = new]
      BY <1>3, <2>5 DEF AskDrive, Ref
    <2>7. new.id # None /\ new.sha = row[s].sha
      BY SourcesAndIds, <1>1
    <2>8. row' \in Rows /\ row'.asset = row.asset /\ row'.item = row.item /\ row'.bit = row.bit
             /\ row'.status = row.status
      BY <1>1, <2>3, <2>6, SourcesAndIds DEF Rows, Sources
    <2>9. \A t \in Sources : row'[t] = IF t = s THEN new ELSE row[t]
      BY <1>1, <2>6, SourcesAndIds DEF Rows
    <2>10. QED
      BY <1>2, <2>7, <2>8, <2>9
  <1>4. CASE ~SameContent(s)
    <2>1. row' = [row EXCEPT !.status = "unfinished"]
      BY <1>4 DEF AskDrive
    <2>2. row' \in Rows /\ row'.asset = row.asset /\ row'.item = row.item /\ row'.bit = row.bit
             /\ row'.status = "unfinished" /\ row'.file = row.file /\ row'.cover = row.cover
      BY <1>1, <2>1 DEF Rows
    <2>3. \A t \in Sources : row'[t] = row[t]
      BY <2>2, SourcesAndIds DEF Sources
    <2>4. QED
      BY <1>2, <2>2, <2>3
  <1>5. QED
    BY <1>3, <1>4

\* The SHA a download must have is one of its kind, and there is one.
LEMMA ShaFacts ==
  ASSUME Shapes, GateInv, cycle.pc = "start", NEW s \in Sources, cycle.meta[s] # None
  PROVE  [id |-> cycle.meta[s], sha |-> SourceSha(s)] \in Pair(s)
  <1>1. row \in Rows /\ cycle.meta[s] \in Ids(s) /\ cycle.gate \in Gates
    BY SourcesAndIds DEF Shapes, Cycles, Metas, Opt, Sources
  <1>2. cycle.gate[s].sha \in Opt(Contents(s))
    BY <1>1, GateFacts
  <1>3. row[s] \in Pair(s)
    BY <1>1 DEF Rows, Sources
  <1>4. cycle.gate[s].sha = None => row[s].id # None
    BY SourcesAndIds DEF GateInv
  <1>5. SourceSha(s) \in Contents(s)
    BY <1>2, <1>3, <1>4, PairFacts DEF SourceSha, Opt
  <1>6. QED
    BY <1>1, <1>5, PairFacts

LEMMA RowShape == Shapes /\ CycleKnows /\ [Next]_vars => (row \in Rows)'
  <1> SUFFICES ASSUME Shapes, CycleKnows, [Next]_vars PROVE (row \in Rows)'
    OBVIOUS
  <1> USE DEF Shapes
  <1>1. ASSUME NEW force \in BOOLEAN, NEW option \in Options, Begin(force, option)
        PROVE  (row \in Rows)'
    BY <1>1 DEF Begin, Opened, Rows
  <1>2. CASE BeginWithoutSource
    BY <1>2 DEF BeginWithoutSource, vars
  <1>3. ASSUME NEW s \in Sources, GateQuietly(s) PROVE (row \in Rows)'
    BY <1>3 DEF GateQuietly, External
  <1>4. ASSUME NEW s \in Sources, GateByMetadata(s) PROVE (row \in Rows)'
    BY <1>4, AskFacts DEF GateByMetadata, External, AsksDrive, Ref
  <1>5. CASE Decide
    BY <1>5 DEF Decide, External
  <1>6. CASE NothingToDo
    BY <1>6 DEF NothingToDo, External
  <1>7. CASE RepairLinks
    BY <1>7 DEF RepairLinks, External
  <1>8. CASE RebuildItem
    <2>1. cycle.meta["file"] # None
      BY <1>8 DEF RebuildItem, ItemGone, LinksLost, Ref
    <2>2. QED
      BY <1>8, <2>1, AskFacts, SourcesAndIds DEF RebuildItem
  <1>9. CASE StartDownstream
    BY <1>9 DEF StartDownstream, External, Rows
  <1>10. CASE ReuseCover
    BY <1>10 DEF ReuseCover, SaveWork, Rows, Cycles
  <1>11. CASE ResumeCover
    BY <1>11 DEF ResumeCover, External
  <1>12. CASE RenderCover
    BY <1>12 DEF RenderCover, External
  <1>13. CASE SaveCover
    BY <1>13 DEF SaveCover, SaveWork, Rows, Cycles
  <1>14. CASE FetchFile
    BY <1>14 DEF FetchFile, External
  <1>15. CASE EnsureItem
    BY <1>15 DEF EnsureItem, External
  <1>16. CASE Upload
    BY <1>16 DEF Upload, External
  <1>17. CASE SetPrimary
    BY <1>17 DEF SetPrimary, External
  <1>18. CASE CheckpointResult
    BY <1>18 DEF CheckpointResult, SaveWork, Rows, Cycles
  <1>19. CASE WriteKoha
    BY <1>19 DEF WriteKoha, External
  <1>20. CASE ConfirmKoha
    BY <1>20 DEF ConfirmKoha, External
  <1>21. ASSUME NEW bit \in cycle.todo, DeleteOld(bit) PROVE (row \in Rows)'
    BY <1>21 DEF DeleteOld, External
  <1>22. CASE CompleteCycle
    <2>1. \A s \in Sources : Commit(s) \in Pair(s)
      BY PairsFacts, SourcesAndIds DEF Commit, Cycles, Rows, Sources
    <2>2. Commit("file") \in Pair("file") /\ Commit("cover") \in Pair("cover")
      BY <2>1, SourcesAndIds
    <2>3. cycle.result \in Opt(Results) /\ cycle.asset \in Opt(Assets) /\ row \in Rows
      BY DEF Cycles
    <2>4. cycle.result # None => cycle.result.item \in Nat /\ cycle.result.bit \in Nat
      BY <2>3 DEF Results, Opt
    <2>5. QED
      BY <1>22, <2>2, <2>3, <2>4 DEF CompleteCycle, Rows, Opt
  <1>23. CASE Refuse
    BY <1>23 DEF Refuse, External
  <1>24. CASE RemoveFromState
    <2>1. CASE row.status = "ok"
      <3>1. row' = [row EXCEPT !.cover = NoSource, !.asset = None]
        BY <1>24, <2>1 DEF RemoveFromState
      <3>2. NoSource \in Pair("cover")
        BY DEF Pair
      <3>3. QED
        BY <3>1, <3>2 DEF Rows, Opt
    <2>2. QED
      BY <1>24, <2>1 DEF RemoveFromState
  <1>25. CASE Stop
    BY <1>25 DEF Stop
  <1>26. ASSUME NEW s \in Sources, DriveFails(s) PROVE (row \in Rows)'
    BY <1>26 DEF DriveFails, Rows
  <1>27. CASE RemoveFromKoha
    BY <1>27 DEF RemoveFromKoha
  <1>28. CASE EditContent
    BY <1>28 DEF EditContent, Edit
  <1>29. CASE Relink
    BY <1>29 DEF Relink, Edit
  <1>30. CASE Unlink
    BY <1>30 DEF Unlink, Edit
  <1>31. CASE DropLinks
    BY <1>31 DEF DropLinks, Edit
  <1>32. CASE DropItem
    BY <1>32 DEF DropItem, Edit
  <1>33. CASE UNCHANGED vars
    BY <1>33 DEF vars
  <1>34. QED
    BY <1>1, <1>2, <1>3, <1>4, <1>5, <1>6, <1>7, <1>8, <1>9, <1>10, <1>11, <1>12, <1>13, <1>14,
       <1>15, <1>16, <1>17, <1>18, <1>19, <1>20, <1>21, <1>22, <1>23, <1>24, <1>25, <1>26, <1>27,
       <1>28, <1>29, <1>30, <1>31, <1>32, <1>33
       DEF Next, Step

LEMMA WorkShape == Shapes /\ CycleKnows /\ [Next]_vars => (work \in Opt(Checkpoints))'
  <1> SUFFICES ASSUME Shapes, CycleKnows, [Next]_vars PROVE (work \in Opt(Checkpoints))'
    OBVIOUS
  <1> USE DEF Shapes
  <1>1. ASSUME NEW force \in BOOLEAN, NEW option \in Options, Begin(force, option)
        PROVE  (work \in Opt(Checkpoints))'
    BY <1>1 DEF Begin
  <1>2. CASE BeginWithoutSource
    BY <1>2 DEF BeginWithoutSource, vars
  <1>3. ASSUME NEW s \in Sources, GateQuietly(s) PROVE (work \in Opt(Checkpoints))'
    BY <1>3 DEF GateQuietly, External
  <1>4. ASSUME NEW s \in Sources, GateByMetadata(s) PROVE (work \in Opt(Checkpoints))'
    BY <1>4 DEF GateByMetadata, External
  <1>5. CASE Decide
    BY <1>5 DEF Decide, External
  <1>6. CASE NothingToDo
    BY <1>6 DEF NothingToDo, External
  <1>7. CASE RepairLinks
    BY <1>7 DEF RepairLinks, External
  <1>8. CASE RebuildItem
    BY <1>8 DEF RebuildItem, External
  <1>9. CASE StartDownstream
    BY <1>9 DEF StartDownstream, External
  <1>10. CASE ReuseCover
    BY <1>10 DEF ReuseCover, External, SaveWork, Checkpoint, Checkpoints, Cycles, Rows, Opt,
       CycleKnows, InputInv, Downstream
  <1>11. CASE ResumeCover
    BY <1>11 DEF ResumeCover, External
  <1>12. CASE RenderCover
    BY <1>12 DEF RenderCover, External
  <1>13. CASE SaveCover
    BY <1>13 DEF SaveCover, External, SaveWork, Checkpoint, Checkpoints, Cycles, Rows, Opt,
       CycleKnows, InputInv, Downstream
  <1>14. CASE FetchFile
    BY <1>14 DEF FetchFile, External
  <1>15. CASE EnsureItem
    BY <1>15 DEF EnsureItem, External
  <1>16. CASE Upload
    BY <1>16 DEF Upload, External
  <1>17. CASE SetPrimary
    BY <1>17 DEF SetPrimary, External
  <1>18. CASE CheckpointResult
    BY <1>18 DEF CheckpointResult, External, SaveWork, Checkpoint, Checkpoints, Cycles, Rows,
       Opt, CycleKnows, InputInv, Downstream
  <1>19. CASE WriteKoha
    BY <1>19 DEF WriteKoha, External
  <1>20. CASE ConfirmKoha
    BY <1>20 DEF ConfirmKoha, External
  <1>21. ASSUME NEW bit \in cycle.todo, DeleteOld(bit) PROVE (work \in Opt(Checkpoints))'
    BY <1>21 DEF DeleteOld, External
  <1>22. CASE CompleteCycle
    BY <1>22 DEF CompleteCycle, External, Opt
  <1>23. CASE Refuse
    BY <1>23 DEF Refuse, External
  <1>24. CASE RemoveFromState
    BY <1>24 DEF RemoveFromState, External, Opt
  <1>25. CASE Stop
    BY <1>25 DEF Stop
  <1>26. ASSUME NEW s \in Sources, DriveFails(s) PROVE (work \in Opt(Checkpoints))'
    BY <1>26 DEF DriveFails
  <1>27. CASE RemoveFromKoha
    BY <1>27 DEF RemoveFromKoha
  <1>28. CASE EditContent
    BY <1>28 DEF EditContent, Edit
  <1>29. CASE Relink
    BY <1>29 DEF Relink, Edit
  <1>30. CASE Unlink
    BY <1>30 DEF Unlink, Edit
  <1>31. CASE DropLinks
    BY <1>31 DEF DropLinks, Edit
  <1>32. CASE DropItem
    BY <1>32 DEF DropItem, Edit
  <1>33. CASE UNCHANGED vars
    BY <1>33 DEF vars
  <1>34. QED
    BY <1>1, <1>2, <1>3, <1>4, <1>5, <1>6, <1>7, <1>8, <1>9, <1>10, <1>11, <1>12, <1>13, <1>14,
       <1>15, <1>16, <1>17, <1>18, <1>19, <1>20, <1>21, <1>22, <1>23, <1>24, <1>25, <1>26, <1>27,
       <1>28, <1>29, <1>30, <1>31, <1>32, <1>33
       DEF Next, Step

LEMMA RepoShape == Shapes /\ CycleKnows /\ [Next]_vars => (repo \in Repos)'
  <1> SUFFICES ASSUME Shapes, CycleKnows, [Next]_vars PROVE (repo \in Repos)'
    OBVIOUS
  <1> USE DEF Shapes
  <1>1. ASSUME NEW force \in BOOLEAN, NEW option \in Options, Begin(force, option)
        PROVE  (repo \in Repos)'
    BY <1>1 DEF Begin
  <1>2. CASE BeginWithoutSource
    BY <1>2 DEF BeginWithoutSource, vars
  <1>3. ASSUME NEW s \in Sources, GateQuietly(s) PROVE (repo \in Repos)'
    BY <1>3 DEF GateQuietly, External
  <1>4. ASSUME NEW s \in Sources, GateByMetadata(s) PROVE (repo \in Repos)'
    BY <1>4 DEF GateByMetadata, External
  <1>5. CASE Decide
    BY <1>5 DEF Decide, External
  <1>6. CASE NothingToDo
    BY <1>6 DEF NothingToDo, External
  <1>7. CASE RepairLinks
    BY <1>7 DEF RepairLinks, External
  <1>8. CASE RebuildItem
    BY <1>8 DEF RebuildItem, External
  <1>9. CASE StartDownstream
    BY <1>9 DEF StartDownstream, External
  <1>10. CASE ReuseCover
    BY <1>10 DEF ReuseCover, External
  <1>11. CASE ResumeCover
    BY <1>11 DEF ResumeCover, External
  <1>12. CASE RenderCover
    BY <1>12 DEF RenderCover, External
  <1>13. CASE SaveCover
    BY <1>13 DEF SaveCover, External
  <1>14. CASE FetchFile
    BY <1>14 DEF FetchFile, External
  <1>15. CASE EnsureItem
    <2>1. CASE repo.item # None
      BY <1>15, <2>1 DEF EnsureItem
    <2>2. CASE repo.item = None
      <3>1. repo' = [repo EXCEPT !.item = repo.items + 1, !.items = repo.items + 1]
        BY <1>15, <2>2 DEF EnsureItem
      <3>2. repo.items + 1 \in Nat
        BY DEF Repos
      <3>3. QED
        BY <3>1, <3>2 DEF Repos, Opt
    <2>3. QED
      BY <2>1, <2>2
  <1>16. CASE Upload
    <2>1. cycle.srcs["file"] \in Pair("file") /\ cycle.srcs["file"].id # None
      BY <1>16, PairsFacts, SourcesAndIds DEF Upload, CycleKnows, FileInv, Cycles, Sources
    <2>2. cycle.srcs["file"].id = cycle.meta["file"]
      BY <1>16, SourcesAndIds DEF Upload, CycleKnows, InputInv, Downstream, Sources
    <2>3. Ref("file") \in FileIds /\ cycle.srcs["file"].sha \in FileContents
      BY <2>1, <2>2, PairFacts, SourcesAndIds DEF Ref, Sources
    <2>4. [id |-> repo.uploads + 1, name |-> Ref("file"), content |-> cycle.srcs["file"].sha] \in Bits
      BY <2>3 DEF Bits, Repos
    <2> DEFINE b ==
                 [id |-> repo.uploads + 1, name |-> Ref("file"), content |-> cycle.srcs["file"].sha]
    <2>5. repo' = [repo EXCEPT !.uploads = repo.uploads + 1, !.bits = repo.bits \cup {b}]
      BY <1>16 DEF Upload
    <2> HIDE DEF b
    <2>6. repo.bits \cup {b} \in SUBSET Bits /\ repo.uploads + 1 \in Nat
      BY <2>4 DEF Repos, b
    <2>7. QED
      BY <2>5, <2>6 DEF Repos
  <1>17. CASE SetPrimary
    <2>1. cycle.result \in Results
      BY <1>17 DEF SetPrimary, CycleKnows, FileInv, Cycles, Opt
    <2>2. QED
      BY <1>17, <2>1 DEF SetPrimary, Results, Repos, Opt
  <1>18. CASE CheckpointResult
    BY <1>18 DEF CheckpointResult, External
  <1>19. CASE WriteKoha
    BY <1>19 DEF WriteKoha, External
  <1>20. CASE ConfirmKoha
    BY <1>20 DEF ConfirmKoha, External
  <1>21. ASSUME NEW bit \in cycle.todo, DeleteOld(bit) PROVE (repo \in Repos)'
    BY <1>21 DEF DeleteOld, External, Repos, Opt
  <1>22. CASE CompleteCycle
    BY <1>22 DEF CompleteCycle, External
  <1>23. CASE Refuse
    BY <1>23 DEF Refuse, External
  <1>24. CASE RemoveFromState
    BY <1>24 DEF RemoveFromState, External
  <1>25. CASE Stop
    BY <1>25 DEF Stop
  <1>26. ASSUME NEW s \in Sources, DriveFails(s) PROVE (repo \in Repos)'
    BY <1>26 DEF DriveFails
  <1>27. CASE RemoveFromKoha
    BY <1>27 DEF RemoveFromKoha
  <1>28. CASE EditContent
    BY <1>28 DEF EditContent, Edit
  <1>29. CASE Relink
    BY <1>29 DEF Relink, Edit
  <1>30. CASE Unlink
    BY <1>30 DEF Unlink, Edit
  <1>31. CASE DropLinks
    BY <1>31 DEF DropLinks, Edit
  <1>32. CASE DropItem
    BY <1>32 DEF DropItem, Edit, Repos, Opt
  <1>33. CASE UNCHANGED vars
    BY <1>33 DEF vars
  <1>34. QED
    BY <1>1, <1>2, <1>3, <1>4, <1>5, <1>6, <1>7, <1>8, <1>9, <1>10, <1>11, <1>12, <1>13, <1>14,
       <1>15, <1>16, <1>17, <1>18, <1>19, <1>20, <1>21, <1>22, <1>23, <1>24, <1>25, <1>26, <1>27,
       <1>28, <1>29, <1>30, <1>31, <1>32, <1>33
       DEF Next, Step

LEMMA CycleShape == Shapes /\ CycleKnows /\ [Next]_vars => (cycle \in Cycles)'
  <1> SUFFICES ASSUME Shapes, CycleKnows, [Next]_vars PROVE (cycle \in Cycles)'
    OBVIOUS
  <1> USE DEF Shapes
  <1>1. ASSUME NEW force \in BOOLEAN, NEW option \in Options, Begin(force, option)
        PROVE  (cycle \in Cycles)'
    <2>1. Opened(row) \in Rows
      BY DEF Opened, Rows
    <2>2. Restored.item \in Opt(Nat)
      BY DEF Restored, Records, Rows, Opt
    <2>3. [file |-> koha.file, cover |-> koha.cover, item |-> Restored.item, link |-> koha.link] \in Metas
      BY <2>2 DEF Records, Metas
    <2> DEFINE found == IF work # None /\ SameInputs(work, option) THEN work ELSE None
    <2>4. found \in Opt(Checkpoints)
      BY DEF Opt
    <2> HIDE DEF found
    <2> DEFINE opened == [Idle EXCEPT !.pc = "gate_file", !.force = force, !.option = option]
    <2>5. opened \in Cycles
      BY IdleFacts DEF Cycles, Stages, Opt
    <2>6. cycle' = [opened EXCEPT !.meta = [file |-> koha.file, cover |-> koha.cover,
                                            item |-> Restored.item, link |-> koha.link],
                                  !.old = Opened(row), !.resumed = found]
      BY <1>1 DEF Begin, found
    <2> HIDE DEF opened
    <2>7. QED
      BY <2>1, <2>3, <2>4, <2>5, <2>6 DEF Cycles
  <1>2. CASE BeginWithoutSource
    BY <1>2 DEF BeginWithoutSource, vars
  <1>3. ASSUME NEW s \in Sources, GateQuietly(s) PROVE (cycle \in Cycles)'
    <2>1. cycle.resumed # None => cycle.resumed.srcs[s].sha \in Opt(Contents(s))
      BY PairsFacts, PairFacts DEF Cycles, Checkpoints, Opt
    <2>2. PICK action \in {"none", "resume", "noop"}, sha \in Opt(Contents(s)) :
            cycle' = Gated(s, action, sha, None)
      BY <1>3, <2>1 DEF GateQuietly, Staged, Opt
    <2>3. None \in Opt(Contents(s))
             /\ [action |-> action, sha |-> sha, seen |-> None] \in Gate(s)
      BY GateFacts DEF Opt
    <2>4. QED
      BY <2>2, <2>3, GatedFacts DEF GateQuietly
  <1>4. ASSUME NEW s \in Sources, GateByMetadata(s) PROVE (cycle \in Cycles)'
    <2>1. drive[Ref(s)] \in Contents(s)
      BY <1>4, AskFacts DEF GateByMetadata, AsksDrive, Ref
    <2>2. Verdict(s, Forced(s)) \in {"none", "resume", "noop", "changed", "same"}
      BY DEF Verdict
    <2>3. [action |-> Verdict(s, Forced(s)), sha |-> drive[Ref(s)], seen |-> drive[Ref(s)]]
            \in Gate(s)
      BY <2>1, <2>2, GateFacts DEF Opt
    <2>4. QED
      BY <1>4, <2>3, GatedFacts DEF GateByMetadata
  <1>5. CASE Decide
    <2>1. FileWork \in BOOLEAN
      <3>1. CASE cycle.resumed # None
        BY <3>1 DEF FileWork
      <3>2. CASE cycle.resumed = None
        BY <3>2 DEF FileWork, Active
      <3>3. QED
        BY <3>1, <3>2
    <2>2. CoverWork \in BOOLEAN
      BY DEF CoverWork
    <2>3. PICK pc \in {"start", "links"} :
            cycle' = [cycle EXCEPT !.file_work = FileWork, !.cover_work = CoverWork, !.pc = pc]
      BY <1>5 DEF Decide
    <2>4. QED
      BY <2>1, <2>2, <2>3 DEF Cycles, Stages
  <1>6. CASE NothingToDo
    BY <1>6, IdleFacts DEF NothingToDo, External
  <1>7. CASE RepairLinks
    BY <1>7, IdleFacts DEF RepairLinks, External
  <1>8. CASE RebuildItem
    <2>1. cycle.meta["file"] # None /\ AskDrive("file")
      BY <1>8 DEF RebuildItem, ItemGone, LinksLost, Ref
    <2>2. drive[Ref("file")] \in Contents("file")
      BY <2>1, AskFacts, SourcesAndIds DEF Ref
    <2>3. Verdict("file", TRUE) \in {"none", "resume", "noop", "changed", "same"}
      BY DEF Verdict
    <2> DEFINE g == [action |-> Verdict("file", TRUE), sha |-> drive[Ref("file")],
                     seen |-> drive[Ref("file")]]
    <2>4. g \in Gate("file")
      BY <2>2, <2>3, GateFacts, SourcesAndIds DEF Opt
    <2>5. [cycle.gate EXCEPT !["file"] = g] \in Gates
      BY <2>4, GateFacts, SourcesAndIds DEF Cycles
    <2>6. [cycle.old EXCEPT !.bit = None] \in Rows
      BY DEF Cycles, Rows, Opt
    <2>7. cycle' = [cycle EXCEPT !.pc = "start", !.file_work = TRUE,
                                 !.old = [cycle.old EXCEPT !.bit = None],
                                 !.gate = [cycle.gate EXCEPT !["file"] = g]]
      BY <1>8 DEF RebuildItem, Cycles
    <2> HIDE DEF g
    <2>8. QED
      BY <2>5, <2>6, <2>7 DEF Cycles, Stages
  <1>9. CASE StartDownstream
    <2>1. \A s \in Sources :
            (IF Ref(s) = None THEN NoSource ELSE [id |-> Ref(s), sha |-> SourceSha(s)]) \in Pair(s)
      BY <1>9, PairFacts, ShaFacts DEF StartDownstream, CycleKnows, Ref
    <2> DEFINE srcs == [s \in Sources |-> IF Ref(s) = None THEN NoSource
                                          ELSE [id |-> Ref(s), sha |-> SourceSha(s)]]
    <2>2. srcs \in Pairs
      BY <2>1, PairsFacts, PairFacts
    <2> HIDE DEF srcs
    <2>3. PICK pc \in Stages : cycle' = [cycle EXCEPT !.srcs = srcs, !.pc = pc]
      BY <1>9 DEF StartDownstream, srcs, Stages, Downstream
    <2>4. QED
      BY <2>2, <2>3 DEF Cycles
  <1>10. CASE ReuseCover
    <2>1. Checkpoint(cycle.old.asset, None) \in Checkpoints
      BY <1>10 DEF ReuseCover, Checkpoint, Checkpoints, Cycles, Rows, Opt, CycleKnows,
         InputInv, Downstream
    <2>2. QED
      BY <1>10, <2>1 DEF ReuseCover, Cycles, Stages, Downstream, Opt
  <1>11. CASE ResumeCover
    <2>1. cycle.resumed \in Checkpoints
      BY <1>11 DEF ResumeCover, Cycles, Opt
    <2>2. cycle.resumed.asset \in Opt(Assets) /\ cycle.resumed.result \in Opt(Results)
      BY <2>1 DEF Checkpoints
    <2>3. QED
      BY <1>11, <2>2 DEF ResumeCover, AfterCover, Cycles, Stages, Downstream
  <1>12. CASE RenderCover
    <2>1. CoverSource \in Sources
      BY DEF CoverSource, Sources
    <2>2. cycle.srcs[CoverSource].sha \in Opt(Assets)
      BY <2>1, PairsFacts, PairFacts, SourcesAndIds DEF Cycles, Opt
    <2>3. QED
      BY <1>12, <2>2 DEF RenderCover, Cycles, Stages, Downstream
  <1>13. CASE SaveCover
    BY <1>13 DEF SaveCover, External, AfterCover, Cycles, Stages, Downstream
  <1>14. CASE FetchFile
    BY <1>14 DEF FetchFile, External, Cycles, Stages, Downstream
  <1>15. CASE EnsureItem
    BY <1>15 DEF EnsureItem, External, Cycles, Stages, Downstream
  <1>16. CASE Upload
    <2>1. Superseded \in SUBSET Nat
      BY DEF Superseded, Repos, Bits
    <2>2. repo.item \in Nat /\ repo.uploads + 1 \in Nat
      BY <1>16 DEF Upload, Repos, Opt
    <2>3. [item |-> repo.item, bit |-> repo.uploads + 1, old |-> Superseded] \in Results
      BY <2>1, <2>2 DEF Results
    <2>4. QED
      BY <1>16, <2>3 DEF Upload, Cycles, Stages, Downstream, Opt
  <1>17. CASE SetPrimary
    BY <1>17 DEF SetPrimary, External, Cycles, Stages, Downstream
  <1>18. CASE CheckpointResult
    BY <1>18 DEF CheckpointResult, External, Cycles, Stages, Downstream
  <1>19. CASE WriteKoha
    BY <1>19 DEF WriteKoha, External, Cycles, Stages, Downstream
  <1>20. CASE ConfirmKoha
    <2>1. cycle.file_work => cycle.result \in Results
      BY <1>20 DEF ConfirmKoha, CycleKnows, WriteInv, Cycles, Opt
    <2>2. (IF cycle.file_work THEN cycle.result.old ELSE {}) \in SUBSET Nat
      BY <2>1 DEF Results
    <2>3. QED
      BY <1>20, <2>2 DEF ConfirmKoha, Cycles, Stages, Downstream
  <1>21. ASSUME NEW bit \in cycle.todo, DeleteOld(bit) PROVE (cycle \in Cycles)'
    BY <1>21 DEF DeleteOld, External, Cycles
  <1>22. CASE CompleteCycle
    BY <1>22, IdleFacts DEF CompleteCycle, External
  <1>23. CASE Refuse
    BY <1>23, IdleFacts DEF Refuse, External
  <1>24. CASE RemoveFromState
    BY <1>24, IdleFacts DEF RemoveFromState, External
  <1>25. CASE Stop
    BY <1>25, IdleFacts DEF Stop
  <1>26. ASSUME NEW s \in Sources, DriveFails(s) PROVE (cycle \in Cycles)'
    BY <1>26, IdleFacts DEF DriveFails
  <1>27. CASE RemoveFromKoha
    BY <1>27, IdleFacts DEF RemoveFromKoha, Cycles, Stages
  <1>28. CASE EditContent
    BY <1>28 DEF EditContent, Edit
  <1>29. CASE Relink
    BY <1>29 DEF Relink, Edit
  <1>30. CASE Unlink
    BY <1>30 DEF Unlink, Edit
  <1>31. CASE DropLinks
    BY <1>31 DEF DropLinks, Edit
  <1>32. CASE DropItem
    BY <1>32 DEF DropItem, Edit
  <1>33. CASE UNCHANGED vars
    BY <1>33 DEF vars
  <1>34. QED
    BY <1>1, <1>2, <1>3, <1>4, <1>5, <1>6, <1>7, <1>8, <1>9, <1>10, <1>11, <1>12, <1>13, <1>14,
       <1>15, <1>16, <1>17, <1>18, <1>19, <1>20, <1>21, <1>22, <1>23, <1>24, <1>25, <1>26, <1>27,
       <1>28, <1>29, <1>30, <1>31, <1>32, <1>33
       DEF Next, Step

LEMMA ShapesStep == Shapes /\ CycleKnows /\ [Next]_vars => Shapes'
  BY DriveShape, KohaShape, RowShape, WorkShape, RepoShape, CycleShape DEF Shapes, CycleKnows

-----------------------------------------------------------------------------
(* Bounds.                                                                   *)


\* Numbers of Items and bitstreams are never given twice.
Counting ==
  /\ repo'.items \in Nat /\ repo'.items >= repo.items
  /\ repo'.uploads \in Nat /\ repo'.uploads >= repo.uploads

LEMMA Counters == Shapes /\ [Next]_vars => Counting
  <1> SUFFICES ASSUME Shapes, [Next]_vars PROVE Counting
    OBVIOUS
  <1> USE DEF Shapes, Repos, Counting
  <1>1. ASSUME NEW force \in BOOLEAN, NEW option \in Options, Begin(force, option)
        PROVE  Counting
    BY <1>1 DEF Begin
  <1>2. CASE BeginWithoutSource
    BY <1>2 DEF BeginWithoutSource, vars
  <1>3. ASSUME NEW s \in Sources, GateQuietly(s) PROVE Counting
    BY <1>3 DEF GateQuietly, External
  <1>4. ASSUME NEW s \in Sources, GateByMetadata(s) PROVE Counting
    BY <1>4 DEF GateByMetadata, External
  <1>5. CASE Decide
    BY <1>5 DEF Decide, External
  <1>6. CASE NothingToDo
    BY <1>6 DEF NothingToDo, External
  <1>7. CASE RepairLinks
    BY <1>7 DEF RepairLinks, External
  <1>8. CASE RebuildItem
    BY <1>8 DEF RebuildItem, External
  <1>9. CASE StartDownstream
    BY <1>9 DEF StartDownstream, External
  <1>10. CASE ReuseCover
    BY <1>10 DEF ReuseCover, External
  <1>11. CASE ResumeCover
    BY <1>11 DEF ResumeCover, External
  <1>12. CASE RenderCover
    BY <1>12 DEF RenderCover, External
  <1>13. CASE SaveCover
    BY <1>13 DEF SaveCover, External
  <1>14. CASE FetchFile
    BY <1>14 DEF FetchFile, External
  <1>15. CASE EnsureItem
    <2>1. CASE repo.item # None
      BY <1>15, <2>1 DEF EnsureItem
    <2>2. CASE repo.item = None
      <3>1. repo' = [repo EXCEPT !.item = repo.items + 1, !.items = repo.items + 1]
        BY <1>15, <2>2 DEF EnsureItem
      <3>2. QED
        BY <3>1
    <2>3. QED
      BY <2>1, <2>2
  <1>16. CASE Upload
    BY <1>16 DEF Upload, External
  <1>17. CASE SetPrimary
    BY <1>17 DEF SetPrimary, External
  <1>18. CASE CheckpointResult
    BY <1>18 DEF CheckpointResult, External
  <1>19. CASE WriteKoha
    BY <1>19 DEF WriteKoha, External
  <1>20. CASE ConfirmKoha
    BY <1>20 DEF ConfirmKoha, External
  <1>21. ASSUME NEW bit \in cycle.todo, DeleteOld(bit) PROVE Counting
    BY <1>21 DEF DeleteOld, External
  <1>22. CASE CompleteCycle
    BY <1>22 DEF CompleteCycle, External
  <1>23. CASE Refuse
    BY <1>23 DEF Refuse, External
  <1>24. CASE RemoveFromState
    BY <1>24 DEF RemoveFromState, External
  <1>25. CASE Stop
    BY <1>25 DEF Stop
  <1>26. ASSUME NEW s \in Sources, DriveFails(s) PROVE Counting
    BY <1>26 DEF DriveFails
  <1>27. CASE RemoveFromKoha
    BY <1>27 DEF RemoveFromKoha
  <1>28. CASE EditContent
    BY <1>28 DEF EditContent, Edit
  <1>29. CASE Relink
    BY <1>29 DEF Relink, Edit
  <1>30. CASE Unlink
    BY <1>30 DEF Unlink, Edit
  <1>31. CASE DropLinks
    BY <1>31 DEF DropLinks, Edit
  <1>32. CASE DropItem
    BY <1>32 DEF DropItem, Edit
  <1>33. CASE UNCHANGED vars
    BY <1>33 DEF vars
  <1>34. QED
    BY <1>1, <1>2, <1>3, <1>4, <1>5, <1>6, <1>7, <1>8, <1>9, <1>10, <1>11, <1>12, <1>13, <1>14,
       <1>15, <1>16, <1>17, <1>18, <1>19, <1>20, <1>21, <1>22, <1>23, <1>24, <1>25, <1>26, <1>27,
       <1>28, <1>29, <1>30, <1>31, <1>32, <1>33
       DEF Next, Step

LEMMA Growing == Shapes /\ [Next]_vars =>
    /\ 1..repo.items \subseteq 1..repo'.items /\ BitId \subseteq BitId'
    /\ Opt(1..repo.items) \subseteq Opt(1..repo'.items) /\ Link \subseteq Link'
    /\ Opt(Result) \subseteq Opt(Result')
  <1> SUFFICES ASSUME Shapes, [Next]_vars
               PROVE  /\ 1..repo.items \subseteq 1..repo'.items /\ BitId \subseteq BitId'
                      /\ Opt(1..repo.items) \subseteq Opt(1..repo'.items)
                      /\ Link \subseteq Link'
                      /\ Opt(Result) \subseteq Opt(Result')
    OBVIOUS
  <1>1. /\ repo.items \in Nat /\ repo'.items \in Nat /\ repo'.items >= repo.items
        /\ repo.uploads \in Nat /\ repo'.uploads \in Nat /\ repo'.uploads >= repo.uploads
    BY Counters DEF Counting, Shapes, Repos
  <1>2. 1..repo.items \subseteq 1..repo'.items /\ BitId \subseteq BitId'
    BY <1>1 DEF BitId
  <1>3. Opt(1..repo.items) \subseteq Opt(1..repo'.items) /\ Link \subseteq Link'
    BY <1>2 DEF Opt, Link
  <1>4. Result \subseteq Result'
    BY <1>2 DEF Result
  <1>5. QED
    BY <1>2, <1>3, <1>4 DEF Opt

LEMMA KohaBounds == Shapes /\ Bounds /\ CycleKnows /\ [Next]_vars => KohaBounded'
  <1> SUFFICES ASSUME Shapes, Bounds, CycleKnows, [Next]_vars PROVE KohaBounded'
    OBVIOUS
  <1> USE DEF KohaBounded, RowBounded, WorkBounded, RepoBounded, CycleBounded
  <1>0. /\ 1..repo.items \subseteq 1..repo'.items /\ BitId \subseteq BitId'
        /\ Opt(1..repo.items) \subseteq Opt(1..repo'.items) /\ Link \subseteq Link'
        /\ Opt(Result) \subseteq Opt(Result')
    BY Growing
  <1>1. ASSUME NEW force \in BOOLEAN, NEW option \in Options, Begin(force, option)
        PROVE  KohaBounded'
    BY <1>1, <1>0 DEF Begin, Restored, Bounds, Shapes, Records, Opt
  <1>2. CASE BeginWithoutSource
    BY <1>2, <1>0 DEF BeginWithoutSource, vars, Bounds
  <1>3. ASSUME NEW s \in Sources, GateQuietly(s) PROVE KohaBounded'
    BY <1>3, <1>0 DEF GateQuietly, External, Bounds
  <1>4. ASSUME NEW s \in Sources, GateByMetadata(s) PROVE KohaBounded'
    BY <1>4, <1>0 DEF GateByMetadata, External, Bounds
  <1>5. CASE Decide
    BY <1>5, <1>0 DEF Decide, External, Bounds
  <1>6. CASE NothingToDo
    BY <1>6, <1>0 DEF NothingToDo, External, Bounds
  <1>7. CASE RepairLinks
    BY <1>7, <1>0 DEF RepairLinks, External, Bounds, Shapes, Records
  <1>8. CASE RebuildItem
    BY <1>8, <1>0 DEF RebuildItem, External, Bounds
  <1>9. CASE StartDownstream
    BY <1>9, <1>0 DEF StartDownstream, External, Bounds
  <1>10. CASE ReuseCover
    BY <1>10, <1>0 DEF ReuseCover, External, Bounds
  <1>11. CASE ResumeCover
    BY <1>11, <1>0 DEF ResumeCover, External, Bounds
  <1>12. CASE RenderCover
    BY <1>12, <1>0 DEF RenderCover, External, Bounds
  <1>13. CASE SaveCover
    BY <1>13, <1>0 DEF SaveCover, External, Bounds
  <1>14. CASE FetchFile
    BY <1>14, <1>0 DEF FetchFile, External, Bounds
  <1>15. CASE EnsureItem
    BY <1>15, <1>0 DEF EnsureItem, External, Bounds
  <1>16. CASE Upload
    BY <1>16, <1>0 DEF Upload, External, Bounds
  <1>17. CASE SetPrimary
    BY <1>17, <1>0 DEF SetPrimary, External, Bounds
  <1>18. CASE CheckpointResult
    BY <1>18, <1>0 DEF CheckpointResult, External, Bounds
  <1>19. CASE WriteKoha
    <2>1. CASE cycle.file_work
      <3>1. cycle.result \in Result
        BY <1>19, <2>1 DEF WriteKoha, CycleKnows, WriteInv, Bounds, Opt
      <3>2. cycle.result.item \in 1..repo.items /\ cycle.result.bit \in BitId
        BY <3>1 DEF Result
      <3>3. cycle.result.item \in Opt(1..repo.items) /\ cycle.result.bit \in Link
        BY <3>2 DEF Opt, Link
      <3>4. QED
        BY <1>0, <1>19, <2>1, <3>3 DEF WriteKoha, Shapes, Records
    <2>2. CASE ~cycle.file_work
      BY <1>0, <1>19, <2>2 DEF WriteKoha, Bounds, Shapes, Records
    <2>3. QED
      BY <2>1, <2>2
  <1>20. CASE ConfirmKoha
    BY <1>20, <1>0 DEF ConfirmKoha, External, Bounds
  <1>21. ASSUME NEW bit \in cycle.todo, DeleteOld(bit) PROVE KohaBounded'
    BY <1>21, <1>0 DEF DeleteOld, External, Bounds
  <1>22. CASE CompleteCycle
    BY <1>22, <1>0 DEF CompleteCycle, External, Bounds
  <1>23. CASE Refuse
    BY <1>23, <1>0 DEF Refuse, External, Bounds
  <1>24. CASE RemoveFromState
    BY <1>24, <1>0 DEF RemoveFromState, External, Bounds
  <1>25. CASE Stop
    BY <1>25, <1>0 DEF Stop, Bounds
  <1>26. ASSUME NEW s \in Sources, DriveFails(s) PROVE KohaBounded'
    BY <1>26, <1>0 DEF DriveFails, Bounds
  <1>27. CASE RemoveFromKoha
    BY <1>27, <1>0 DEF RemoveFromKoha, Bounds, Shapes, Records
  <1>28. CASE EditContent
    BY <1>28, <1>0 DEF EditContent, Edit, Bounds
  <1>29. CASE Relink
    <2>1. PICK s \in Sources : \E id \in Ids(s) \ {koha[s]} : koha' = [koha EXCEPT ![s] = id]
      BY <1>29 DEF Relink
    <2>2. PICK id \in Ids(s) : koha' = [koha EXCEPT ![s] = id]
      BY <2>1
    <2>3. koha'.item = koha.item /\ koha'.link = koha.link
      BY <2>2 DEF Shapes, Records, Sources
    <2>4. QED
      BY <1>0, <2>3 DEF Bounds
  <1>30. CASE Unlink
    <2>1. PICK s \in Sources : koha' = [koha EXCEPT ![s] = None]
      BY <1>30 DEF Unlink
    <2>2. koha'.item = koha.item /\ koha'.link = koha.link
      BY <2>1 DEF Shapes, Records, Sources
    <2>3. QED
      BY <1>0, <2>2 DEF Bounds
  <1>31. CASE DropLinks
    BY <1>31, <1>0 DEF DropLinks, Edit, Bounds, Shapes, Records, Link, Opt
  <1>32. CASE DropItem
    BY <1>32, <1>0 DEF DropItem, Edit, Bounds
  <1>33. CASE UNCHANGED vars
    BY <1>0, <1>33 DEF vars, Bounds
  <1>34. QED
    BY <1>1, <1>2, <1>3, <1>4, <1>5, <1>6, <1>7, <1>8, <1>9, <1>10, <1>11, <1>12, <1>13, <1>14,
       <1>15, <1>16, <1>17, <1>18, <1>19, <1>20, <1>21, <1>22, <1>23, <1>24, <1>25, <1>26, <1>27,
       <1>28, <1>29, <1>30, <1>31, <1>32, <1>33
       DEF Next, Step

LEMMA RowBounds == Shapes /\ Bounds /\ CycleKnows /\ [Next]_vars => RowBounded'
  <1> SUFFICES ASSUME Shapes, Bounds, CycleKnows, [Next]_vars PROVE RowBounded'
    OBVIOUS
  <1> USE DEF KohaBounded, RowBounded, WorkBounded, RepoBounded, CycleBounded
  <1>0. /\ 1..repo.items \subseteq 1..repo'.items /\ BitId \subseteq BitId'
        /\ Opt(1..repo.items) \subseteq Opt(1..repo'.items) /\ Link \subseteq Link'
        /\ Opt(Result) \subseteq Opt(Result')
    BY Growing
  <1>1. ASSUME NEW force \in BOOLEAN, NEW option \in Options, Begin(force, option)
        PROVE  RowBounded'
    BY <1>1, <1>0 DEF Begin, Opened, Bounds, Shapes, Rows
  <1>2. CASE BeginWithoutSource
    BY <1>2, <1>0 DEF BeginWithoutSource, vars, Bounds
  <1>3. ASSUME NEW s \in Sources, GateQuietly(s) PROVE RowBounded'
    BY <1>3, <1>0 DEF GateQuietly, External, Bounds
  <1>4. ASSUME NEW s \in Sources, GateByMetadata(s) PROVE RowBounded'
    BY <1>4, <1>0, AskFacts DEF GateByMetadata, External, AsksDrive, Ref, Bounds
  <1>5. CASE Decide
    BY <1>5, <1>0 DEF Decide, External, Bounds
  <1>6. CASE NothingToDo
    BY <1>6, <1>0 DEF NothingToDo, External, Bounds
  <1>7. CASE RepairLinks
    BY <1>7, <1>0 DEF RepairLinks, External, Bounds
  <1>8. CASE RebuildItem
    <2>1. row'.item = row.item /\ row'.bit = row.bit
      BY <1>8, AskFacts, SourcesAndIds DEF RebuildItem, ItemGone, LinksLost, Ref
    <2>2. QED
      BY <1>0, <2>1 DEF Bounds
  <1>9. CASE StartDownstream
    BY <1>9, <1>0 DEF StartDownstream, External, Bounds, Shapes, Rows
  <1>10. CASE ReuseCover
    BY <1>10, <1>0 DEF ReuseCover, External, Bounds, Shapes, Rows, SaveWork
  <1>11. CASE ResumeCover
    BY <1>11, <1>0 DEF ResumeCover, External, Bounds
  <1>12. CASE RenderCover
    BY <1>12, <1>0 DEF RenderCover, External, Bounds
  <1>13. CASE SaveCover
    BY <1>13, <1>0 DEF SaveCover, External, Bounds, Shapes, Rows, SaveWork
  <1>14. CASE FetchFile
    BY <1>14, <1>0 DEF FetchFile, External, Bounds
  <1>15. CASE EnsureItem
    BY <1>15, <1>0 DEF EnsureItem, External, Bounds
  <1>16. CASE Upload
    BY <1>16, <1>0 DEF Upload, External, Bounds
  <1>17. CASE SetPrimary
    BY <1>17, <1>0 DEF SetPrimary, External, Bounds
  <1>18. CASE CheckpointResult
    BY <1>18, <1>0 DEF CheckpointResult, External, Bounds, Shapes, Rows, SaveWork
  <1>19. CASE WriteKoha
    BY <1>19, <1>0 DEF WriteKoha, External, Bounds
  <1>20. CASE ConfirmKoha
    BY <1>20, <1>0 DEF ConfirmKoha, External, Bounds
  <1>21. ASSUME NEW bit \in cycle.todo, DeleteOld(bit) PROVE RowBounded'
    BY <1>21, <1>0 DEF DeleteOld, External, Bounds
  <1>22. CASE CompleteCycle
    <2>1. CASE cycle.result # None
      <3>1. cycle.result \in Result
        BY <2>1 DEF Bounds, Opt
      <3>2. cycle.result.item \in Opt(1..repo.items) /\ cycle.result.bit \in Link
        BY <3>1 DEF Result, Opt, Link
      <3>3. row'.item = cycle.result.item /\ row'.bit = cycle.result.bit
        BY <1>22, <2>1 DEF CompleteCycle, Shapes, Rows
      <3>4. QED
        BY <1>0, <3>2, <3>3
    <2>2. CASE cycle.result = None
      BY <1>0, <1>22, <2>2 DEF CompleteCycle, Bounds, Shapes, Rows
    <2>3. QED
      BY <2>1, <2>2
  <1>23. CASE Refuse
    BY <1>23, <1>0 DEF Refuse, External, Bounds
  <1>24. CASE RemoveFromState
    BY <1>24, <1>0 DEF RemoveFromState, External, Bounds, Shapes, Rows
  <1>25. CASE Stop
    BY <1>25, <1>0 DEF Stop, Bounds
  <1>26. ASSUME NEW s \in Sources, DriveFails(s) PROVE RowBounded'
    BY <1>26, <1>0 DEF DriveFails, Bounds, Shapes, Rows
  <1>27. CASE RemoveFromKoha
    BY <1>27, <1>0 DEF RemoveFromKoha, Bounds
  <1>28. CASE EditContent
    BY <1>28, <1>0 DEF EditContent, Edit, Bounds
  <1>29. CASE Relink
    BY <1>29, <1>0 DEF Relink, Edit, Bounds
  <1>30. CASE Unlink
    BY <1>30, <1>0 DEF Unlink, Edit, Bounds
  <1>31. CASE DropLinks
    BY <1>31, <1>0 DEF DropLinks, Edit, Bounds
  <1>32. CASE DropItem
    BY <1>32, <1>0 DEF DropItem, Edit, Bounds
  <1>33. CASE UNCHANGED vars
    BY <1>0, <1>33 DEF vars, Bounds
  <1>34. QED
    BY <1>1, <1>2, <1>3, <1>4, <1>5, <1>6, <1>7, <1>8, <1>9, <1>10, <1>11, <1>12, <1>13, <1>14,
       <1>15, <1>16, <1>17, <1>18, <1>19, <1>20, <1>21, <1>22, <1>23, <1>24, <1>25, <1>26, <1>27,
       <1>28, <1>29, <1>30, <1>31, <1>32, <1>33
       DEF Next, Step

LEMMA WorkBounds == Shapes /\ Bounds /\ CycleKnows /\ [Next]_vars => WorkBounded'
  <1> SUFFICES ASSUME Shapes, Bounds, CycleKnows, [Next]_vars PROVE WorkBounded'
    OBVIOUS
  <1> USE DEF KohaBounded, RowBounded, WorkBounded, RepoBounded, CycleBounded
  <1>0. /\ 1..repo.items \subseteq 1..repo'.items /\ BitId \subseteq BitId'
        /\ Opt(1..repo.items) \subseteq Opt(1..repo'.items) /\ Link \subseteq Link'
        /\ Opt(Result) \subseteq Opt(Result')
    BY Growing
  <1>1. ASSUME NEW force \in BOOLEAN, NEW option \in Options, Begin(force, option)
        PROVE  WorkBounded'
    BY <1>1, <1>0 DEF Begin, Bounds
  <1>2. CASE BeginWithoutSource
    BY <1>2, <1>0 DEF BeginWithoutSource, vars, Bounds
  <1>3. ASSUME NEW s \in Sources, GateQuietly(s) PROVE WorkBounded'
    BY <1>3, <1>0 DEF GateQuietly, External, Bounds
  <1>4. ASSUME NEW s \in Sources, GateByMetadata(s) PROVE WorkBounded'
    BY <1>4, <1>0 DEF GateByMetadata, External, Bounds
  <1>5. CASE Decide
    BY <1>5, <1>0 DEF Decide, External, Bounds
  <1>6. CASE NothingToDo
    BY <1>6, <1>0 DEF NothingToDo, External, Bounds
  <1>7. CASE RepairLinks
    BY <1>7, <1>0 DEF RepairLinks, External, Bounds
  <1>8. CASE RebuildItem
    BY <1>8, <1>0 DEF RebuildItem, External, Bounds
  <1>9. CASE StartDownstream
    BY <1>9, <1>0 DEF StartDownstream, External, Bounds
  <1>10. CASE ReuseCover
    <2>1. work' = Checkpoint(cycle.old.asset, None)
      BY <1>10 DEF ReuseCover, SaveWork
    <2>2. QED
      BY <2>1 DEF Checkpoint, Opt
  <1>11. CASE ResumeCover
    BY <1>11, <1>0 DEF ResumeCover, External, Bounds
  <1>12. CASE RenderCover
    BY <1>12, <1>0 DEF RenderCover, External, Bounds
  <1>13. CASE SaveCover
    <2>1. work' = Checkpoint(cycle.asset, None)
      BY <1>13 DEF SaveCover, SaveWork
    <2>2. QED
      BY <2>1 DEF Checkpoint, Opt
  <1>14. CASE FetchFile
    BY <1>14, <1>0 DEF FetchFile, External, Bounds
  <1>15. CASE EnsureItem
    BY <1>15, <1>0 DEF EnsureItem, External, Bounds
  <1>16. CASE Upload
    BY <1>16, <1>0 DEF Upload, External, Bounds
  <1>17. CASE SetPrimary
    BY <1>17, <1>0 DEF SetPrimary, External, Bounds
  <1>18. CASE CheckpointResult
    <2>1. work' = Checkpoint(cycle.asset, cycle.result)
      BY <1>18 DEF CheckpointResult, SaveWork
    <2>2. QED
      BY <1>0, <2>1 DEF Checkpoint, Bounds
  <1>19. CASE WriteKoha
    BY <1>19, <1>0 DEF WriteKoha, External, Bounds
  <1>20. CASE ConfirmKoha
    BY <1>20, <1>0 DEF ConfirmKoha, External, Bounds
  <1>21. ASSUME NEW bit \in cycle.todo, DeleteOld(bit) PROVE WorkBounded'
    BY <1>21, <1>0 DEF DeleteOld, External, Bounds
  <1>22. CASE CompleteCycle
    BY <1>22, <1>0 DEF CompleteCycle, External, Bounds
  <1>23. CASE Refuse
    BY <1>23, <1>0 DEF Refuse, External, Bounds
  <1>24. CASE RemoveFromState
    BY <1>24, <1>0 DEF RemoveFromState, External, Bounds
  <1>25. CASE Stop
    BY <1>25, <1>0 DEF Stop, Bounds
  <1>26. ASSUME NEW s \in Sources, DriveFails(s) PROVE WorkBounded'
    BY <1>26, <1>0 DEF DriveFails, Bounds
  <1>27. CASE RemoveFromKoha
    BY <1>27, <1>0 DEF RemoveFromKoha, Bounds
  <1>28. CASE EditContent
    BY <1>28, <1>0 DEF EditContent, Edit, Bounds
  <1>29. CASE Relink
    BY <1>29, <1>0 DEF Relink, Edit, Bounds
  <1>30. CASE Unlink
    BY <1>30, <1>0 DEF Unlink, Edit, Bounds
  <1>31. CASE DropLinks
    BY <1>31, <1>0 DEF DropLinks, Edit, Bounds
  <1>32. CASE DropItem
    BY <1>32, <1>0 DEF DropItem, Edit, Bounds
  <1>33. CASE UNCHANGED vars
    BY <1>0, <1>33 DEF vars, Bounds
  <1>34. QED
    BY <1>1, <1>2, <1>3, <1>4, <1>5, <1>6, <1>7, <1>8, <1>9, <1>10, <1>11, <1>12, <1>13, <1>14,
       <1>15, <1>16, <1>17, <1>18, <1>19, <1>20, <1>21, <1>22, <1>23, <1>24, <1>25, <1>26, <1>27,
       <1>28, <1>29, <1>30, <1>31, <1>32, <1>33
       DEF Next, Step

LEMMA RepoBounds == Shapes /\ Bounds /\ CycleKnows /\ [Next]_vars => RepoBounded'
  <1> SUFFICES ASSUME Shapes, Bounds, CycleKnows, [Next]_vars PROVE RepoBounded'
    OBVIOUS
  <1> USE DEF KohaBounded, RowBounded, WorkBounded, RepoBounded, CycleBounded
  <1>0. /\ 1..repo.items \subseteq 1..repo'.items /\ BitId \subseteq BitId'
        /\ Opt(1..repo.items) \subseteq Opt(1..repo'.items) /\ Link \subseteq Link'
        /\ Opt(Result) \subseteq Opt(Result')
    BY Growing
  <1>1. ASSUME NEW force \in BOOLEAN, NEW option \in Options, Begin(force, option)
        PROVE  RepoBounded'
    BY <1>1, <1>0 DEF Begin, Bounds
  <1>2. CASE BeginWithoutSource
    BY <1>2, <1>0 DEF BeginWithoutSource, vars, Bounds
  <1>3. ASSUME NEW s \in Sources, GateQuietly(s) PROVE RepoBounded'
    BY <1>3, <1>0 DEF GateQuietly, External, Bounds
  <1>4. ASSUME NEW s \in Sources, GateByMetadata(s) PROVE RepoBounded'
    BY <1>4, <1>0 DEF GateByMetadata, External, Bounds
  <1>5. CASE Decide
    BY <1>5, <1>0 DEF Decide, External, Bounds
  <1>6. CASE NothingToDo
    BY <1>6, <1>0 DEF NothingToDo, External, Bounds
  <1>7. CASE RepairLinks
    BY <1>7, <1>0 DEF RepairLinks, External, Bounds
  <1>8. CASE RebuildItem
    BY <1>8, <1>0 DEF RebuildItem, External, Bounds
  <1>9. CASE StartDownstream
    BY <1>9, <1>0 DEF StartDownstream, External, Bounds
  <1>10. CASE ReuseCover
    BY <1>10, <1>0 DEF ReuseCover, External, Bounds
  <1>11. CASE ResumeCover
    BY <1>11, <1>0 DEF ResumeCover, External, Bounds
  <1>12. CASE RenderCover
    BY <1>12, <1>0 DEF RenderCover, External, Bounds
  <1>13. CASE SaveCover
    BY <1>13, <1>0 DEF SaveCover, External, Bounds
  <1>14. CASE FetchFile
    BY <1>14, <1>0 DEF FetchFile, External, Bounds
  <1>15. CASE EnsureItem
    <2>1. CASE repo.item # None
      BY <1>15, <2>1 DEF EnsureItem, Bounds, BitId, Link
    <2>2. CASE repo.item = None
      <3>1. repo' = [repo EXCEPT !.item = repo.items + 1, !.items = repo.items + 1]
        BY <1>15, <2>2 DEF EnsureItem
      <3>2. repo'.item = repo.items + 1 /\ repo'.items = repo.items + 1 /\ repo.items \in Nat
               /\ repo'.bits = repo.bits /\ repo'.primary = repo.primary
        BY <3>1 DEF Shapes, Repos
      <3>3. repo'.item \in Opt(1..repo'.items)
        BY <3>2 DEF Opt
      <3>4. QED
        BY <1>0, <3>2, <3>3 DEF Bounds
    <2>3. QED
      BY <2>1, <2>2
  <1>16. CASE Upload
    <2> DEFINE new ==
                 [id |-> repo.uploads + 1, name |-> Ref("file"), content |-> cycle.srcs["file"].sha]
    <2>1. repo' = [repo EXCEPT !.uploads = repo.uploads + 1, !.bits = repo.bits \cup {new}]
      BY <1>16 DEF Upload
    <2>2. repo'.item = repo.item /\ repo'.primary = repo.primary
             /\ repo'.bits = repo.bits \cup {new}
             /\ repo'.uploads = repo.uploads + 1 /\ repo.uploads \in Nat
      BY <2>1 DEF Shapes, Repos
    <2>3. new.id \in BitId'
      BY <2>2 DEF BitId
    <2>4. QED
      BY <1>0, <2>2, <2>3 DEF Bounds
  <1>17. CASE SetPrimary
    <2>1. cycle.result \in Result
      BY <1>17 DEF SetPrimary, CycleKnows, FileInv, Bounds, Opt
    <2>2. cycle.result.bit \in Link
      BY <2>1 DEF Result, Link, Opt
    <2>3. repo' = [repo EXCEPT !.primary = cycle.result.bit]
      BY <1>17 DEF SetPrimary
    <2>4. repo'.item = repo.item /\ repo'.primary = cycle.result.bit /\ repo'.bits = repo.bits
      BY <2>3 DEF Shapes, Repos
    <2>5. QED
      BY <1>0, <2>2, <2>4 DEF Bounds
  <1>18. CASE CheckpointResult
    BY <1>18, <1>0 DEF CheckpointResult, External, Bounds
  <1>19. CASE WriteKoha
    BY <1>19, <1>0 DEF WriteKoha, External, Bounds
  <1>20. CASE ConfirmKoha
    BY <1>20, <1>0 DEF ConfirmKoha, External, Bounds
  <1>21. ASSUME NEW bit \in cycle.todo, DeleteOld(bit) PROVE RepoBounded'
    BY <1>21, <1>0 DEF DeleteOld, External, Bounds, Shapes, Repos, Link, Opt
  <1>22. CASE CompleteCycle
    BY <1>22, <1>0 DEF CompleteCycle, External, Bounds
  <1>23. CASE Refuse
    BY <1>23, <1>0 DEF Refuse, External, Bounds
  <1>24. CASE RemoveFromState
    BY <1>24, <1>0 DEF RemoveFromState, External, Bounds
  <1>25. CASE Stop
    BY <1>25, <1>0 DEF Stop, Bounds
  <1>26. ASSUME NEW s \in Sources, DriveFails(s) PROVE RepoBounded'
    BY <1>26, <1>0 DEF DriveFails, Bounds
  <1>27. CASE RemoveFromKoha
    BY <1>27, <1>0 DEF RemoveFromKoha, Bounds
  <1>28. CASE EditContent
    BY <1>28, <1>0 DEF EditContent, Edit, Bounds
  <1>29. CASE Relink
    BY <1>29, <1>0 DEF Relink, Edit, Bounds
  <1>30. CASE Unlink
    BY <1>30, <1>0 DEF Unlink, Edit, Bounds
  <1>31. CASE DropLinks
    BY <1>31, <1>0 DEF DropLinks, Edit, Bounds
  <1>32. CASE DropItem
    BY <1>32, <1>0 DEF DropItem, Edit, Bounds, Shapes, Repos, Link, Opt
  <1>33. CASE UNCHANGED vars
    BY <1>0, <1>33 DEF vars, Bounds
  <1>34. QED
    BY <1>1, <1>2, <1>3, <1>4, <1>5, <1>6, <1>7, <1>8, <1>9, <1>10, <1>11, <1>12, <1>13, <1>14,
       <1>15, <1>16, <1>17, <1>18, <1>19, <1>20, <1>21, <1>22, <1>23, <1>24, <1>25, <1>26, <1>27,
       <1>28, <1>29, <1>30, <1>31, <1>32, <1>33
       DEF Next, Step

LEMMA CycleBounds == Shapes /\ Bounds /\ CycleKnows /\ [Next]_vars => CycleBounded'
  <1> SUFFICES ASSUME Shapes, Bounds, CycleKnows, [Next]_vars PROVE CycleBounded'
    OBVIOUS
  <1> USE DEF KohaBounded, RowBounded, WorkBounded, RepoBounded, CycleBounded
  <1>0. /\ 1..repo.items \subseteq 1..repo'.items /\ BitId \subseteq BitId'
        /\ Opt(1..repo.items) \subseteq Opt(1..repo'.items) /\ Link \subseteq Link'
        /\ Opt(Result) \subseteq Opt(Result')
    BY Growing
  <1>1. ASSUME NEW force \in BOOLEAN, NEW option \in Options, Begin(force, option)
        PROVE  CycleBounded'
    <2>1. cycle'.resumed \in {None, work} /\ cycle'.result = None /\ cycle'.todo = {}
      BY <1>1, IdleFacts DEF Begin, Cycles
    <2>2. QED
      BY <1>0, <2>1 DEF Bounds, Opt
  <1>2. CASE BeginWithoutSource
    BY <1>2, <1>0 DEF BeginWithoutSource, vars, Bounds
  <1>3. ASSUME NEW s \in Sources, GateQuietly(s) PROVE CycleBounded'
    BY <1>3, <1>0 DEF GateQuietly, External, Bounds, Shapes, Cycles, Gated
  <1>4. ASSUME NEW s \in Sources, GateByMetadata(s) PROVE CycleBounded'
    BY <1>4, <1>0 DEF GateByMetadata, External, Bounds, Shapes, Cycles, Gated
  <1>5. CASE Decide
    BY <1>5, <1>0 DEF Decide, External, Bounds, Shapes, Cycles
  <1>6. CASE NothingToDo
    BY <1>6, IdleFacts DEF NothingToDo, External, Opt
  <1>7. CASE RepairLinks
    BY <1>7, IdleFacts DEF RepairLinks, External, Opt
  <1>8. CASE RebuildItem
    BY <1>8, <1>0 DEF RebuildItem, External, Bounds, Shapes, Cycles
  <1>9. CASE StartDownstream
    BY <1>9, <1>0 DEF StartDownstream, External, Bounds, Shapes, Cycles
  <1>10. CASE ReuseCover
    <2>1. cycle' = [cycle EXCEPT !.pc = "cover", !.resumed = Checkpoint(cycle.old.asset, None)]
      BY <1>10 DEF ReuseCover
    <2>2. cycle'.resumed.result = None /\ cycle'.result = cycle.result
             /\ cycle'.todo = cycle.todo
      BY <2>1 DEF Shapes, Cycles, Checkpoint
    <2>3. QED
      BY <1>0, <2>2 DEF Bounds, Opt
  <1>11. CASE ResumeCover
    BY <1>11, <1>0 DEF ResumeCover, External, Bounds, Shapes, Cycles
  <1>12. CASE RenderCover
    BY <1>12, <1>0 DEF RenderCover, External, Bounds, Shapes, Cycles
  <1>13. CASE SaveCover
    BY <1>13, <1>0 DEF SaveCover, External, Bounds, Shapes, Cycles
  <1>14. CASE FetchFile
    BY <1>14, <1>0 DEF FetchFile, External, Bounds, Shapes, Cycles
  <1>15. CASE EnsureItem
    BY <1>15, <1>0 DEF EnsureItem, External, Bounds, Shapes, Cycles
  <1>16. CASE Upload
    <2>1. Superseded \subseteq BitId
      BY DEF Superseded, Bounds
    <2>2. repo.item \in 1..repo.items
      BY <1>16 DEF Upload, Bounds, Opt
    <2>3. repo'.uploads = repo.uploads + 1 /\ repo.uploads \in Nat
      BY <1>16 DEF Upload, Shapes, Repos
    <2>4. repo.uploads + 1 \in BitId'
      BY <2>3 DEF BitId
    <2>5. [item |-> repo.item, bit |-> repo.uploads + 1, old |-> Superseded] \in Result'
      BY <1>0, <2>1, <2>2, <2>4 DEF Result
    <2>6. cycle' = [cycle EXCEPT !.pc = "primary",
                     !.result = [item |-> repo.item, bit |-> repo.uploads + 1, old |-> Superseded]]
      BY <1>16 DEF Upload
    <2>7. cycle'.result = [item |-> repo.item, bit |-> repo.uploads + 1, old |-> Superseded]
             /\ cycle'.resumed = cycle.resumed /\ cycle'.todo = cycle.todo
      BY <2>6 DEF Shapes, Cycles
    <2>8. cycle'.result \in Opt(Result')
      BY <2>5, <2>7 DEF Opt
    <2>9. QED
      BY <1>0, <2>7, <2>8 DEF Bounds
  <1>17. CASE SetPrimary
    BY <1>17, <1>0 DEF SetPrimary, External, Bounds, Shapes, Cycles
  <1>18. CASE CheckpointResult
    BY <1>18, <1>0 DEF CheckpointResult, External, Bounds, Shapes, Cycles
  <1>19. CASE WriteKoha
    BY <1>19, <1>0 DEF WriteKoha, External, Bounds, Shapes, Cycles
  <1>20. CASE ConfirmKoha
    <2>1. cycle.file_work => cycle.result \in Result
      BY <1>20 DEF ConfirmKoha, CycleKnows, WriteInv, Bounds, Opt
    <2>2. (IF cycle.file_work THEN cycle.result.old ELSE {}) \subseteq BitId
      BY <2>1 DEF Result
    <2>3. cycle'.resumed = cycle.resumed /\ cycle'.result = cycle.result
             /\ cycle'.todo = IF cycle.file_work THEN cycle.result.old ELSE {}
      BY <1>20 DEF ConfirmKoha, Shapes, Cycles
    <2>4. QED
      BY <1>0, <2>2, <2>3 DEF Bounds
  <1>21. ASSUME NEW bit \in cycle.todo, DeleteOld(bit) PROVE CycleBounded'
    BY <1>21, <1>0 DEF DeleteOld, External, Bounds, Shapes, Cycles
  <1>22. CASE CompleteCycle
    BY <1>22, IdleFacts DEF CompleteCycle, External, Opt
  <1>23. CASE Refuse
    BY <1>23, IdleFacts DEF Refuse, External, Opt
  <1>24. CASE RemoveFromState
    BY <1>24, IdleFacts DEF RemoveFromState, External, Opt
  <1>25. CASE Stop
    BY <1>25, IdleFacts DEF Stop, Opt
  <1>26. ASSUME NEW s \in Sources, DriveFails(s) PROVE CycleBounded'
    BY <1>26, IdleFacts DEF DriveFails, Opt
  <1>27. CASE RemoveFromKoha
    <2>1. cycle'.resumed = None /\ cycle'.result = None /\ cycle'.todo = {}
      BY <1>27, IdleFacts DEF RemoveFromKoha, Cycles
    <2>2. QED
      BY <2>1 DEF Opt
  <1>28. CASE EditContent
    BY <1>28, <1>0 DEF EditContent, Edit, Bounds
  <1>29. CASE Relink
    BY <1>29, <1>0 DEF Relink, Edit, Bounds
  <1>30. CASE Unlink
    BY <1>30, <1>0 DEF Unlink, Edit, Bounds
  <1>31. CASE DropLinks
    BY <1>31, <1>0 DEF DropLinks, Edit, Bounds
  <1>32. CASE DropItem
    BY <1>32, <1>0 DEF DropItem, Edit, Bounds
  <1>33. CASE UNCHANGED vars
    BY <1>0, <1>33 DEF vars, Bounds
  <1>34. QED
    BY <1>1, <1>2, <1>3, <1>4, <1>5, <1>6, <1>7, <1>8, <1>9, <1>10, <1>11, <1>12, <1>13, <1>14,
       <1>15, <1>16, <1>17, <1>18, <1>19, <1>20, <1>21, <1>22, <1>23, <1>24, <1>25, <1>26, <1>27,
       <1>28, <1>29, <1>30, <1>31, <1>32, <1>33
       DEF Next, Step

LEMMA BoundsStep == Shapes /\ Bounds /\ CycleKnows /\ [Next]_vars => Bounds'
  BY KohaBounds, RowBounds, WorkBounds, RepoBounds, CycleBounds DEF Bounds

-----------------------------------------------------------------------------
(* What a cycle knows.                                                       *)

\* The gate of a source touches nothing else of the cycle.
LEMMA GateStepFacts ==
  ASSUME cycle \in Cycles, NEW s \in Sources, NEW action, NEW sha, NEW seen,
         cycle' = Gated(s, action, sha, seen)
  PROVE  /\ cycle'.pc = NextGate(s) /\ cycle'.meta = cycle.meta /\ cycle'.old = cycle.old
         /\ cycle'.resumed = cycle.resumed /\ cycle'.result = cycle.result
         /\ cycle'.option = cycle.option
         /\ cycle'.todo = cycle.todo
         /\ cycle'.gate[s].sha = sha
         /\ \A t \in Sources \ {s} : cycle'.gate[t] = cycle.gate[t]
  <1> DEFINE g == [action |-> action, sha |-> sha, seen |-> seen]
  <1>1. cycle' = [cycle EXCEPT !.pc = NextGate(s), !.gate = [cycle.gate EXCEPT ![s] = g]]
    BY DEF Gated, Cycles
  <1>2. g.sha = sha
    OBVIOUS
  <1> HIDE DEF g
  <1>3. cycle'.gate = [cycle.gate EXCEPT ![s] = g]
    BY <1>1 DEF Cycles
  <1>4. cycle'.gate[s] = g /\ \A t \in Sources \ {s} : cycle'.gate[t] = cycle.gate[t]
    BY <1>3 DEF Cycles, Gates
  <1>5. QED
    BY <1>1, <1>2, <1>4 DEF Cycles

LEMMA GateInvStep == Shapes /\ GateInv /\ InputInv /\ [Next]_vars => GateInv'
  <1> SUFFICES ASSUME Shapes, GateInv, InputInv, [Next]_vars PROVE GateInv'
    OBVIOUS
  <1>1. ASSUME NEW force \in BOOLEAN, NEW option \in Options, Begin(force, option)
        PROVE  GateInv'
    <2>1. cycle'.pc = "gate_file" /\ cycle'.old = row'
      BY <1>1, IdleFacts DEF Begin, Cycles
    <2>2. QED
      BY <2>1 DEF GateInv
  <1>2. CASE BeginWithoutSource
    BY <1>2 DEF BeginWithoutSource, vars, GateInv
  <1>3. ASSUME NEW s \in Sources, GateQuietly(s) PROVE GateInv'
    <2>1. cycle \in Cycles /\ row' = row
      BY <1>3 DEF GateQuietly, Shapes
    <2>2. PICK action, sha : cycle' = Gated(s, action, sha, None)
      BY <1>3 DEF GateQuietly
    <2>3. cycle'.gate[s].sha = None /\ cycle.meta[s] # None =>
             ~Staged(s) /\ (Confirmed(s) \/ Resumable(s))
      <3>1. cycle.meta[s] # None /\ Staged(s) =>
               cycle' = Gated(s, "resume", cycle.resumed.srcs[s].sha, None)
        BY <1>3 DEF GateQuietly, Ref
      <3>2. cycle.meta[s] # None /\ Staged(s) => cycle'.gate[s].sha = cycle.resumed.srcs[s].sha
        BY <2>1, <3>1, GateStepFacts
      <3>3. cycle.meta[s] # None /\ Staged(s) =>
               cycle.resumed.srcs[s].id # None /\ cycle.resumed \in Checkpoints
        BY <1>3, <2>1 DEF Staged, InputInv, Gating, GateQuietly, GateAt, Cycles, Opt
      <3>4. cycle.meta[s] # None /\ Staged(s) => cycle.resumed.srcs[s].sha # None
        BY <3>3, PairsFacts, PairFacts, SourcesAndIds DEF Checkpoints
      <3>5. cycle.meta[s] # None => Staged(s) \/ Confirmed(s) \/ Resumable(s)
        BY <1>3 DEF GateQuietly, AsksDrive, Ref
      <3>6. QED
        BY <3>2, <3>4, <3>5
    <2>4. cycle'.gate[s].sha = None /\ cycle.meta[s] # None => row[s].id # None
      BY <1>3, <2>3, SourcesAndIds DEF Confirmed, Resumable, Ref, GateInv, GateQuietly,
         GateAt, Sources
    <2>5. /\ cycle'.pc = NextGate(s) /\ cycle'.meta = cycle.meta /\ cycle'.old = cycle.old
          /\ \A t \in Sources \ {s} : cycle'.gate[t] = cycle.gate[t]
      BY <2>1, <2>2, GateStepFacts
    <2>6. cycle.pc \in {"gate_file", "gate_cover"} /\ row'.cover = cycle'.old.cover
      BY <1>3, <2>1, <2>5 DEF GateInv, GateQuietly, GateAt
    <2>7. CASE s = "file"
      BY <2>1, <2>4, <2>5, <2>6, <2>7 DEF GateInv, NextGate
    <2>8. CASE s = "cover"
      <3>1. cycle'.gate["file"] = cycle.gate["file"] /\ cycle.pc = "gate_cover"
               /\ cycle'.pc = "decide"
        BY <1>3, <2>5, <2>8, SourcesAndIds DEF GateQuietly, GateAt, NextGate
      <3>2. QED
        BY <2>1, <2>4, <2>5, <2>8, <3>1 DEF GateInv
    <2>9. QED
      BY <2>7, <2>8, SourcesAndIds DEF Sources
  <1>4. ASSUME NEW s \in Sources, GateByMetadata(s) PROVE GateInv'
    <2>1. cycle \in Cycles /\ cycle.meta[s] # None /\ AskDrive(s)
      BY <1>4 DEF GateByMetadata, Shapes, AsksDrive, Ref
    <2>2. cycle' = Gated(s, Verdict(s, Forced(s)), drive[Ref(s)], drive[Ref(s)])
      BY <1>4 DEF GateByMetadata
    <2>3. cycle'.gate[s].sha # None
      <3>1. cycle'.gate[s].sha = drive[Ref(s)]
        BY <2>1, <2>2, GateStepFacts
      <3>2. drive[Ref(s)] \in Contents(s)
        BY <2>1, AskFacts DEF Ref
      <3>3. QED
        BY <3>1, <3>2, SourcesAndIds
    <2>4. CASE s = "file"
      <3>1. row'.cover = row.cover
        BY <2>1, <2>4, AskFacts, SourcesAndIds
      <3>2. QED
        BY <1>4, <2>1, <2>2, <2>3, <2>4, <3>1, GateStepFacts DEF GateInv, GateByMetadata,
           GateAt, NextGate
    <2>5. CASE s = "cover"
      <3>1. row'.file = row.file
        BY <2>1, <2>5, AskFacts, SourcesAndIds
      <3>2. cycle'.gate["file"] = cycle.gate["file"]
        BY <2>1, <2>2, <2>5, GateStepFacts, SourcesAndIds
      <3>3. QED
        BY <1>4, <2>1, <2>2, <2>3, <2>5, <3>1, <3>2, GateStepFacts DEF GateInv,
           GateByMetadata, GateAt, NextGate
    <2>6. QED
      BY <2>4, <2>5, SourcesAndIds DEF Sources
  <1>5. CASE Decide
    BY <1>5 DEF Decide, External, GateInv, Shapes, Cycles
  <1>6. CASE NothingToDo
    BY <1>6, IdleFacts DEF NothingToDo, External, GateInv
  <1>7. CASE RepairLinks
    BY <1>7, IdleFacts DEF RepairLinks, External, GateInv
  <1>8. CASE RebuildItem
    <2>1. cycle \in Cycles /\ cycle.meta["file"] # None /\ AskDrive("file")
             /\ cycle.pc = "links"
      BY <1>8 DEF RebuildItem, ItemGone, LinksLost, Ref, Shapes
    <2>2. row'.cover = row.cover /\ drive[Ref("file")] # None
      BY <2>1, AskFacts, SourcesAndIds DEF Ref
    <2> DEFINE g == [action |-> Verdict("file", TRUE), sha |-> drive[Ref("file")],
                     seen |-> drive[Ref("file")]]
    <2>3. cycle' = [cycle EXCEPT !.pc = "start", !.file_work = TRUE,
                                 !.old = [cycle.old EXCEPT !.bit = None],
                                 !.gate = [cycle.gate EXCEPT !["file"] = g]]
      BY <1>8, <2>1 DEF RebuildItem, Cycles
    <2>4. g.sha # None
      BY <2>2
    <2> HIDE DEF g
    <2>5. cycle'.pc = "start" /\ cycle'.meta = cycle.meta
             /\ cycle'.gate = [cycle.gate EXCEPT !["file"] = g]
      BY <2>1, <2>3 DEF Cycles
    <2>6. cycle'.gate["file"] = g /\ cycle'.gate["cover"] = cycle.gate["cover"]
      BY <2>1, <2>5, SourcesAndIds DEF Cycles, Gates
    <2>7. QED
      BY <2>1, <2>2, <2>4, <2>5, <2>6 DEF GateInv
  <1>9. CASE StartDownstream
    BY <1>9 DEF StartDownstream, External, GateInv, Downstream, Shapes, Cycles
  <1>10. CASE ReuseCover
    BY <1>10 DEF ReuseCover, External, GateInv, Downstream, Shapes, Cycles
  <1>11. CASE ResumeCover
    BY <1>11 DEF ResumeCover, External, GateInv, Downstream, Shapes, Cycles, AfterCover
  <1>12. CASE RenderCover
    BY <1>12 DEF RenderCover, External, GateInv, Downstream, Shapes, Cycles
  <1>13. CASE SaveCover
    BY <1>13 DEF SaveCover, External, GateInv, Downstream, Shapes, Cycles, AfterCover
  <1>14. CASE FetchFile
    BY <1>14 DEF FetchFile, External, GateInv, Downstream, Shapes, Cycles
  <1>15. CASE EnsureItem
    BY <1>15 DEF EnsureItem, External, GateInv, Downstream, Shapes, Cycles
  <1>16. CASE Upload
    BY <1>16 DEF Upload, External, GateInv, Downstream, Shapes, Cycles
  <1>17. CASE SetPrimary
    BY <1>17 DEF SetPrimary, External, GateInv, Downstream, Shapes, Cycles
  <1>18. CASE CheckpointResult
    BY <1>18 DEF CheckpointResult, External, GateInv, Downstream, Shapes, Cycles
  <1>19. CASE WriteKoha
    BY <1>19 DEF WriteKoha, External, GateInv, Downstream, Shapes, Cycles
  <1>20. CASE ConfirmKoha
    BY <1>20 DEF ConfirmKoha, External, GateInv, Downstream, Shapes, Cycles
  <1>21. ASSUME NEW bit \in cycle.todo, DeleteOld(bit) PROVE GateInv'
    BY <1>21 DEF DeleteOld, External, GateInv, Downstream, Shapes, Cycles
  <1>22. CASE CompleteCycle
    BY <1>22, IdleFacts DEF CompleteCycle, External, GateInv
  <1>23. CASE Refuse
    BY <1>23, IdleFacts DEF Refuse, External, GateInv
  <1>24. CASE RemoveFromState
    BY <1>24, IdleFacts DEF RemoveFromState, External, GateInv
  <1>25. CASE Stop
    BY <1>25, IdleFacts DEF Stop, GateInv
  <1>26. ASSUME NEW s \in Sources, DriveFails(s) PROVE GateInv'
    BY <1>26, IdleFacts DEF DriveFails, GateInv
  <1>27. CASE RemoveFromKoha
    BY <1>27, IdleFacts DEF RemoveFromKoha, GateInv, Cycles
  <1>28. CASE EditContent
    BY <1>28 DEF EditContent, Edit, GateInv
  <1>29. CASE Relink
    BY <1>29 DEF Relink, Edit, GateInv
  <1>30. CASE Unlink
    BY <1>30 DEF Unlink, Edit, GateInv
  <1>31. CASE DropLinks
    BY <1>31 DEF DropLinks, Edit, GateInv
  <1>32. CASE DropItem
    BY <1>32 DEF DropItem, Edit, GateInv
  <1>33. CASE UNCHANGED vars
    BY <1>33 DEF vars, GateInv
  <1>34. QED
    BY <1>1, <1>2, <1>3, <1>4, <1>5, <1>6, <1>7, <1>8, <1>9, <1>10, <1>11, <1>12, <1>13, <1>14,
       <1>15, <1>16, <1>17, <1>18, <1>19, <1>20, <1>21, <1>22, <1>23, <1>24, <1>25, <1>26, <1>27,
       <1>28, <1>29, <1>30, <1>31, <1>32, <1>33
       DEF Next, Step

-----------------------------------------------------------------------------
(* The Item and the link to it.                                              *)

LEMMA RepoInvStep == Shapes /\ RepoInv /\ [Next]_vars => RepoInv'
  <1> SUFFICES ASSUME Shapes, RepoInv, [Next]_vars PROVE RepoInv'
    OBVIOUS
  <1>1. ASSUME NEW force \in BOOLEAN, NEW option \in Options, Begin(force, option)
        PROVE  RepoInv'
    BY <1>1 DEF Begin, RepoInv, Has
  <1>2. CASE BeginWithoutSource
    BY <1>2 DEF BeginWithoutSource, vars, RepoInv, Has
  <1>3. ASSUME NEW s \in Sources, GateQuietly(s) PROVE RepoInv'
    BY <1>3 DEF GateQuietly, External, RepoInv, Has
  <1>4. ASSUME NEW s \in Sources, GateByMetadata(s) PROVE RepoInv'
    BY <1>4 DEF GateByMetadata, External, RepoInv, Has
  <1>5. CASE Decide
    BY <1>5 DEF Decide, External, RepoInv, Has
  <1>6. CASE NothingToDo
    BY <1>6 DEF NothingToDo, External, RepoInv, Has
  <1>7. CASE RepairLinks
    BY <1>7 DEF RepairLinks, External, RepoInv, Has
  <1>8. CASE RebuildItem
    BY <1>8 DEF RebuildItem, External, RepoInv, Has
  <1>9. CASE StartDownstream
    BY <1>9 DEF StartDownstream, External, RepoInv, Has
  <1>10. CASE ReuseCover
    BY <1>10 DEF ReuseCover, External, RepoInv, Has
  <1>11. CASE ResumeCover
    BY <1>11 DEF ResumeCover, External, RepoInv, Has
  <1>12. CASE RenderCover
    BY <1>12 DEF RenderCover, External, RepoInv, Has
  <1>13. CASE SaveCover
    BY <1>13 DEF SaveCover, External, RepoInv, Has
  <1>14. CASE FetchFile
    BY <1>14 DEF FetchFile, External, RepoInv, Has
  <1>15. CASE EnsureItem
    <2>1. repo'.bits = repo.bits /\ repo'.primary = repo.primary /\ (repo.item # None =>
             repo'.item # None)
      BY <1>15 DEF EnsureItem, Shapes, Repos
    <2>2. CASE repo.item = None
      <3>1. repo.bits = {} /\ repo.primary = None
        BY <2>2 DEF RepoInv
      <3>2. QED
        BY <2>1, <3>1 DEF RepoInv, Has
    <2>3. QED
      BY <2>1, <2>2 DEF RepoInv, Has
  <1>16. CASE Upload
    <2> DEFINE new ==
                 [id |-> repo.uploads + 1, name |-> Ref("file"), content |-> cycle.srcs["file"].sha]
    <2>1. repo' = [repo EXCEPT !.uploads = repo.uploads + 1, !.bits = repo.bits \cup {new}]
             /\ repo.item # None
      BY <1>16 DEF Upload
    <2> HIDE DEF new
    <2>2. repo'.item = repo.item /\ repo'.primary = repo.primary
             /\ repo'.bits = repo.bits \cup {new}
      BY <2>1 DEF Shapes, Repos
    <2>3. QED
      BY <2>1, <2>2 DEF RepoInv, Has
  <1>17. CASE SetPrimary
    <2>1. repo' = [repo EXCEPT !.primary = cycle.result.bit] /\ Has(cycle.result.bit)
      BY <1>17 DEF SetPrimary
    <2>2. repo'.item = repo.item /\ repo'.primary = cycle.result.bit /\ repo'.bits = repo.bits
      BY <2>1 DEF Shapes, Repos
    <2>3. QED
      BY <2>1, <2>2 DEF RepoInv, Has
  <1>18. CASE CheckpointResult
    BY <1>18 DEF CheckpointResult, External, RepoInv, Has
  <1>19. CASE WriteKoha
    BY <1>19 DEF WriteKoha, External, RepoInv, Has
  <1>20. CASE ConfirmKoha
    BY <1>20 DEF ConfirmKoha, External, RepoInv, Has
  <1>21. ASSUME NEW bit \in cycle.todo, DeleteOld(bit) PROVE RepoInv'
    BY <1>21 DEF DeleteOld, External, RepoInv, Has, Shapes, Repos
  <1>22. CASE CompleteCycle
    BY <1>22 DEF CompleteCycle, External, RepoInv, Has
  <1>23. CASE Refuse
    BY <1>23 DEF Refuse, External, RepoInv, Has
  <1>24. CASE RemoveFromState
    BY <1>24 DEF RemoveFromState, External, RepoInv, Has
  <1>25. CASE Stop
    BY <1>25 DEF Stop, RepoInv, Has
  <1>26. ASSUME NEW s \in Sources, DriveFails(s) PROVE RepoInv'
    BY <1>26 DEF DriveFails, RepoInv, Has
  <1>27. CASE RemoveFromKoha
    BY <1>27 DEF RemoveFromKoha, RepoInv, Has
  <1>28. CASE EditContent
    BY <1>28 DEF EditContent, Edit, RepoInv, Has
  <1>29. CASE Relink
    BY <1>29 DEF Relink, Edit, RepoInv, Has
  <1>30. CASE Unlink
    BY <1>30 DEF Unlink, Edit, RepoInv, Has
  <1>31. CASE DropLinks
    BY <1>31 DEF DropLinks, Edit, RepoInv, Has
  <1>32. CASE DropItem
    BY <1>32 DEF DropItem, Edit, RepoInv, Has, Shapes, Repos
  <1>33. CASE UNCHANGED vars
    BY <1>33 DEF vars, RepoInv, Has
  <1>34. QED
    BY <1>1, <1>2, <1>3, <1>4, <1>5, <1>6, <1>7, <1>8, <1>9, <1>10, <1>11, <1>12, <1>13, <1>14,
       <1>15, <1>16, <1>17, <1>18, <1>19, <1>20, <1>21, <1>22, <1>23, <1>24, <1>25, <1>26, <1>27,
       <1>28, <1>29, <1>30, <1>31, <1>32, <1>33
       DEF Next, Step

LEMMA KohaInvStep == Shapes /\ Bounds /\ RepoInv /\ KohaInv /\ WorkInv /\ CycleKnows /\ [Next]_vars =>
        KohaInv'
  <1> SUFFICES ASSUME Shapes, Bounds, RepoInv, KohaInv, WorkInv, CycleKnows, [Next]_vars
               PROVE  KohaInv'
    OBVIOUS
  <1>1. ASSUME NEW force \in BOOLEAN, NEW option \in Options, Begin(force, option)
        PROVE  KohaInv'
    BY <1>1 DEF Begin, KohaInv, LinkNeverDangles, LinkedItemLives, Has, Shapes, Records,
       Restored
  <1>2. CASE BeginWithoutSource
    BY <1>2 DEF BeginWithoutSource, vars, KohaInv, LinkNeverDangles, LinkedItemLives, Has
  <1>3. ASSUME NEW s \in Sources, GateQuietly(s) PROVE KohaInv'
    BY <1>3 DEF GateQuietly, External, KohaInv, LinkNeverDangles, LinkedItemLives, Has
  <1>4. ASSUME NEW s \in Sources, GateByMetadata(s) PROVE KohaInv'
    BY <1>4 DEF GateByMetadata, External, KohaInv, LinkNeverDangles, LinkedItemLives, Has
  <1>5. CASE Decide
    BY <1>5 DEF Decide, External, KohaInv, LinkNeverDangles, LinkedItemLives, Has
  <1>6. CASE NothingToDo
    BY <1>6 DEF NothingToDo, External, KohaInv, LinkNeverDangles, LinkedItemLives, Has
  <1>7. CASE RepairLinks
    <2>1. koha'.link = repo.primary /\ koha'.item = koha.item /\ repo' = repo
             /\ repo.primary # None
      BY <1>7 DEF RepairLinks, Shapes, Records
    <2>2. koha.item # None
      BY <1>7 DEF RepairLinks, LinksLost, KnownItem, CycleKnows, InputInv, Gating
    <2>3. QED
      BY <2>1, <2>2 DEF KohaInv, LinkNeverDangles, LinkedItemLives, RepoInv, Has
  <1>8. CASE RebuildItem
    BY <1>8 DEF RebuildItem, External, KohaInv, LinkNeverDangles, LinkedItemLives, Has
  <1>9. CASE StartDownstream
    BY <1>9 DEF StartDownstream, External, KohaInv, LinkNeverDangles, LinkedItemLives, Has
  <1>10. CASE ReuseCover
    BY <1>10 DEF ReuseCover, External, KohaInv, LinkNeverDangles, LinkedItemLives, Has
  <1>11. CASE ResumeCover
    BY <1>11 DEF ResumeCover, External, KohaInv, LinkNeverDangles, LinkedItemLives, Has
  <1>12. CASE RenderCover
    BY <1>12 DEF RenderCover, External, KohaInv, LinkNeverDangles, LinkedItemLives, Has
  <1>13. CASE SaveCover
    BY <1>13 DEF SaveCover, External, KohaInv, LinkNeverDangles, LinkedItemLives, Has
  <1>14. CASE FetchFile
    BY <1>14 DEF FetchFile, External, KohaInv, LinkNeverDangles, LinkedItemLives, Has
  <1>15. CASE EnsureItem
    <2>1. CASE repo.item # None
      BY <1>15, <2>1 DEF EnsureItem, KohaInv, LinkNeverDangles, LinkedItemLives, Has
    <2>2. CASE repo.item = None
      <3>1. repo' = [repo EXCEPT !.item = repo.items + 1, !.items = repo.items + 1]
               /\ koha' = koha
        BY <1>15, <2>2 DEF EnsureItem
      <3>2. repo'.item = repo.items + 1 /\ repo.items \in Nat
        BY <3>1 DEF Shapes, Repos
      <3>3. koha.item # repo.items + 1
        BY <3>2, NoneIsNoValue DEF Bounds, KohaBounded, Opt
      <3>4. QED
        BY <3>1, <3>2, <3>3 DEF KohaInv, LinkNeverDangles, LinkedItemLives
    <2>3. QED
      BY <2>1, <2>2
  <1>16. CASE Upload
    <2> DEFINE new ==
                 [id |-> repo.uploads + 1, name |-> Ref("file"), content |-> cycle.srcs["file"].sha]
    <2>1. repo' = [repo EXCEPT !.uploads = repo.uploads + 1, !.bits = repo.bits \cup {new}]
             /\ koha' = koha
      BY <1>16 DEF Upload
    <2> HIDE DEF new
    <2>2. repo'.item = repo.item /\ repo'.bits = repo.bits \cup {new}
      BY <2>1 DEF Shapes, Repos
    <2>3. QED
      BY <2>1, <2>2 DEF KohaInv, LinkNeverDangles, LinkedItemLives, Has
  <1>17. CASE SetPrimary
    <2>1. repo'.item = repo.item /\ repo'.bits = repo.bits /\ koha' = koha
      BY <1>17 DEF SetPrimary, Shapes, Repos
    <2>2. QED
      BY <2>1 DEF KohaInv, LinkNeverDangles, LinkedItemLives, Has
  <1>18. CASE CheckpointResult
    BY <1>18 DEF CheckpointResult, External, KohaInv, LinkNeverDangles, LinkedItemLives, Has
  <1>19. CASE WriteKoha
    <2>1. CASE cycle.file_work
      <3>1. /\ work # None /\ work.result = cycle.result /\ cycle.result # None
            /\ koha'.item = cycle.result.item /\ koha'.link = cycle.result.bit /\ repo' = repo
        BY <1>19, <2>1 DEF WriteKoha, CycleKnows, WriteInv, Shapes, Records
      <3>2. cycle.result.item # None
        BY <3>1, NoneIsNoValue DEF Shapes, Cycles, Results, Opt
      <3>3. repo.item # None => Has(cycle.result.bit)
        BY <3>1 DEF WorkInv, ResultHolds, Has
      <3>4. QED
        BY <3>1, <3>2, <3>3 DEF KohaInv, LinkNeverDangles, LinkedItemLives, Has
    <2>2. CASE ~cycle.file_work
      BY <1>19, <2>2 DEF WriteKoha, KohaInv, LinkNeverDangles, LinkedItemLives, Has, Shapes,
         Records
    <2>3. QED
      BY <2>1, <2>2
  <1>20. CASE ConfirmKoha
    BY <1>20 DEF ConfirmKoha, External, KohaInv, LinkNeverDangles, LinkedItemLives, Has
  <1>21. ASSUME NEW bit \in cycle.todo, DeleteOld(bit) PROVE KohaInv'
    <2>1. cycle.pc = "cleanup" /\ bit \in cycle.todo /\ koha' = koha
             /\ repo' = [repo EXCEPT !.bits = {b \in repo.bits : b.id # bit},
                                     !.primary = IF repo.primary = bit THEN None ELSE repo.primary]
      BY <1>21 DEF DeleteOld
    <2>2. /\ cycle.file_work /\ work # None /\ work.result = cycle.result /\ cycle.result # None
          /\ koha.link \in {None, cycle.result.bit} /\ bit \in cycle.result.old
      BY <2>1 DEF CycleKnows, WriteInv
    <2>3. koha.link # None => koha.link # bit
      BY <2>2 DEF WorkInv, ResultHolds
    <2>4. repo'.item = repo.item /\ repo'.bits = {b \in repo.bits : b.id # bit}
      BY <2>1 DEF Shapes, Repos
    <2>5. QED
      BY <2>1, <2>3, <2>4 DEF KohaInv, LinkNeverDangles, LinkedItemLives, Has
  <1>22. CASE CompleteCycle
    BY <1>22 DEF CompleteCycle, External, KohaInv, LinkNeverDangles, LinkedItemLives, Has
  <1>23. CASE Refuse
    BY <1>23 DEF Refuse, External, KohaInv, LinkNeverDangles, LinkedItemLives, Has
  <1>24. CASE RemoveFromState
    BY <1>24 DEF RemoveFromState, External, KohaInv, LinkNeverDangles, LinkedItemLives, Has
  <1>25. CASE Stop
    BY <1>25 DEF Stop, KohaInv, LinkNeverDangles, LinkedItemLives, Has
  <1>26. ASSUME NEW s \in Sources, DriveFails(s) PROVE KohaInv'
    BY <1>26 DEF DriveFails, KohaInv, LinkNeverDangles, LinkedItemLives, Has
  <1>27. CASE RemoveFromKoha
    BY <1>27 DEF RemoveFromKoha, KohaInv, LinkNeverDangles, LinkedItemLives, Has, Shapes,
       Records
  <1>28. CASE EditContent
    BY <1>28 DEF EditContent, Edit, KohaInv, LinkNeverDangles, LinkedItemLives, Has
  <1>29. CASE Relink
    <2>1. PICK s \in Sources : \E id \in Ids(s) \ {koha[s]} : koha' = [koha EXCEPT ![s] = id]
      BY <1>29 DEF Relink
    <2>2. PICK id \in Ids(s) : koha' = [koha EXCEPT ![s] = id]
      BY <2>1
    <2>3. koha'.item = koha.item /\ koha'.link = koha.link /\ repo' = repo
      BY <1>29, <2>2 DEF Relink, Shapes, Records, Sources
    <2>4. QED
      BY <2>3 DEF KohaInv, LinkNeverDangles, LinkedItemLives, Has
  <1>30. CASE Unlink
    <2>1. PICK s \in Sources : koha' = [koha EXCEPT ![s] = None]
      BY <1>30 DEF Unlink
    <2>2. koha'.item = koha.item /\ koha'.link = koha.link /\ repo' = repo
      BY <1>30, <2>1 DEF Unlink, Shapes, Records, Sources
    <2>3. QED
      BY <2>2 DEF KohaInv, LinkNeverDangles, LinkedItemLives, Has
  <1>31. CASE DropLinks
    BY <1>31 DEF DropLinks, Edit, KohaInv, LinkNeverDangles, LinkedItemLives, Has, Shapes,
       Records
  <1>32. CASE DropItem
    BY <1>32 DEF DropItem, Edit, KohaInv, LinkNeverDangles, LinkedItemLives, Has, Shapes, Repos
  <1>33. CASE UNCHANGED vars
    BY <1>33 DEF vars, KohaInv, LinkNeverDangles, LinkedItemLives, Has
  <1>34. QED
    BY <1>1, <1>2, <1>3, <1>4, <1>5, <1>6, <1>7, <1>8, <1>9, <1>10, <1>11, <1>12, <1>13, <1>14,
       <1>15, <1>16, <1>17, <1>18, <1>19, <1>20, <1>21, <1>22, <1>23, <1>24, <1>25, <1>26, <1>27,
       <1>28, <1>29, <1>30, <1>31, <1>32, <1>33
       DEF Next, Step

LEMMA WorkInvStep == Shapes /\ WorkInv /\ CycleKnows /\ [Next]_vars => WorkInv'
  <1> SUFFICES ASSUME Shapes, WorkInv, CycleKnows, [Next]_vars PROVE WorkInv'
    OBVIOUS
  <1>1. ASSUME NEW force \in BOOLEAN, NEW option \in Options, Begin(force, option)
        PROVE  WorkInv'
    BY <1>1 DEF Begin, WorkInv, ResultHolds, Shapes, Rows, Opened
  <1>2. CASE BeginWithoutSource
    BY <1>2 DEF BeginWithoutSource, vars, WorkInv, ResultHolds
  <1>3. ASSUME NEW s \in Sources, GateQuietly(s) PROVE WorkInv'
    BY <1>3 DEF GateQuietly, External, WorkInv, ResultHolds
  <1>4. ASSUME NEW s \in Sources, GateByMetadata(s) PROVE WorkInv'
    <2>1. row'.asset = row.asset /\ work' = work /\ repo' = repo
      BY <1>4, AskFacts DEF GateByMetadata, AsksDrive, Ref
    <2>2. QED
      BY <2>1 DEF WorkInv, ResultHolds
  <1>5. CASE Decide
    BY <1>5 DEF Decide, External, WorkInv, ResultHolds
  <1>6. CASE NothingToDo
    BY <1>6 DEF NothingToDo, External, WorkInv, ResultHolds
  <1>7. CASE RepairLinks
    BY <1>7 DEF RepairLinks, External, WorkInv, ResultHolds
  <1>8. CASE RebuildItem
    <2>1. row'.asset = row.asset /\ work' = work /\ repo' = repo
      BY <1>8, AskFacts, SourcesAndIds DEF RebuildItem, ItemGone, LinksLost, Ref
    <2>2. QED
      BY <2>1 DEF WorkInv, ResultHolds
  <1>9. CASE StartDownstream
    BY <1>9 DEF StartDownstream, External, WorkInv, ResultHolds, Shapes, Rows
  <1>10. CASE ReuseCover
    <2>1. work' = Checkpoint(cycle.old.asset, None)
             /\ row' = [row EXCEPT !.asset = cycle.old.asset]
      BY <1>10 DEF ReuseCover, SaveWork
    <2>2. work'.asset = row'.asset /\ work'.result = None
      BY <2>1 DEF Checkpoint, Shapes, Rows
    <2>3. QED
      BY <2>2 DEF WorkInv
  <1>11. CASE ResumeCover
    BY <1>11 DEF ResumeCover, External, WorkInv, ResultHolds
  <1>12. CASE RenderCover
    BY <1>12 DEF RenderCover, External, WorkInv, ResultHolds
  <1>13. CASE SaveCover
    <2>1. work' = Checkpoint(cycle.asset, None) /\ row' = [row EXCEPT !.asset = cycle.asset]
      BY <1>13 DEF SaveCover, SaveWork
    <2>2. work'.asset = row'.asset /\ work'.result = None
      BY <2>1 DEF Checkpoint, Shapes, Rows
    <2>3. QED
      BY <2>2 DEF WorkInv
  <1>14. CASE FetchFile
    BY <1>14 DEF FetchFile, External, WorkInv, ResultHolds
  <1>15. CASE EnsureItem
    <2>1. work' = work /\ row' = row /\ (work # None => work.result = None)
      BY <1>15 DEF EnsureItem, CycleKnows, FileInv
    <2>2. QED
      BY <2>1 DEF WorkInv
  <1>16. CASE Upload
    <2>1. work' = work /\ row' = row /\ (work # None => work.result = None)
      BY <1>16 DEF Upload, CycleKnows, FileInv
    <2>2. QED
      BY <2>1 DEF WorkInv
  <1>17. CASE SetPrimary
    <2>1. work' = work /\ row' = row /\ (work # None => work.result = None)
      BY <1>17 DEF SetPrimary, CycleKnows, FileInv
    <2>2. QED
      BY <2>1 DEF WorkInv
  <1>18. CASE CheckpointResult
    <2>1. /\ work' = Checkpoint(cycle.asset, cycle.result)
             /\ row' = [row EXCEPT !.asset = cycle.asset]
          /\ repo' = repo /\ cycle.pc = "checkpoint"
      BY <1>18 DEF CheckpointResult, SaveWork
    <2>2. work'.asset = row'.asset /\ work'.result = cycle.result /\ work'.srcs = cycle.srcs
      BY <2>1 DEF Checkpoint, Shapes, Rows
    <2>3. ResultHolds(cycle.result, cycle.srcs) /\ (repo.item # None =>
             repo.primary = cycle.result.bit)
      BY <2>1 DEF CycleKnows, FileInv
    <2>4. QED
      BY <2>1, <2>2, <2>3 DEF WorkInv, ResultHolds
  <1>19. CASE WriteKoha
    BY <1>19 DEF WriteKoha, External, WorkInv, ResultHolds
  <1>20. CASE ConfirmKoha
    BY <1>20 DEF ConfirmKoha, External, WorkInv, ResultHolds
  <1>21. ASSUME NEW bit \in cycle.todo, DeleteOld(bit) PROVE WorkInv'
    <2>1. cycle.pc = "cleanup" /\ bit \in cycle.todo /\ work' = work /\ row' = row
             /\ repo' = [repo EXCEPT !.bits = {b \in repo.bits : b.id # bit},
                                     !.primary = IF repo.primary = bit THEN None ELSE repo.primary]
      BY <1>21 DEF DeleteOld
    <2>2. /\ repo'.item = repo.item /\ repo'.bits = {b \in repo.bits : b.id # bit}
          /\ repo.primary # bit => repo'.primary = repo.primary
      BY <2>1 DEF Shapes, Repos
    <2>3. work # None /\ work.result = cycle.result /\ cycle.result # None
             /\ bit \in cycle.result.old
      BY <2>1 DEF CycleKnows, WriteInv
    <2>4. ResultHolds(work.result, work.srcs) /\ (repo.item # None =>
             repo.primary = work.result.bit)
      BY <2>3 DEF WorkInv
    <2>5. work.result.bit # bit
      BY <2>3, <2>4 DEF ResultHolds
    <2>6. ResultHolds(work.result, work.srcs)'
      BY <2>1, <2>2, <2>4, <2>5 DEF ResultHolds
    <2>7. QED
      BY <2>1, <2>2, <2>3, <2>4, <2>5, <2>6 DEF WorkInv
  <1>22. CASE CompleteCycle
    BY <1>22 DEF CompleteCycle, External, WorkInv, ResultHolds
  <1>23. CASE Refuse
    BY <1>23 DEF Refuse, External, WorkInv, ResultHolds
  <1>24. CASE RemoveFromState
    BY <1>24 DEF RemoveFromState, External, WorkInv, ResultHolds
  <1>25. CASE Stop
    BY <1>25 DEF Stop, WorkInv, ResultHolds
  <1>26. ASSUME NEW s \in Sources, DriveFails(s) PROVE WorkInv'
    BY <1>26 DEF DriveFails, WorkInv, ResultHolds, Shapes, Rows
  <1>27. CASE RemoveFromKoha
    BY <1>27 DEF RemoveFromKoha, WorkInv, ResultHolds
  <1>28. CASE EditContent
    BY <1>28 DEF EditContent, Edit, WorkInv, ResultHolds
  <1>29. CASE Relink
    BY <1>29 DEF Relink, Edit, WorkInv, ResultHolds
  <1>30. CASE Unlink
    BY <1>30 DEF Unlink, Edit, WorkInv, ResultHolds
  <1>31. CASE DropLinks
    BY <1>31 DEF DropLinks, Edit, WorkInv, ResultHolds
  <1>32. CASE DropItem
    BY <1>32 DEF DropItem, Edit, WorkInv, ResultHolds, Shapes, Repos
  <1>33. CASE UNCHANGED vars
    BY <1>33 DEF vars, WorkInv, ResultHolds
  <1>34. QED
    BY <1>1, <1>2, <1>3, <1>4, <1>5, <1>6, <1>7, <1>8, <1>9, <1>10, <1>11, <1>12, <1>13, <1>14,
       <1>15, <1>16, <1>17, <1>18, <1>19, <1>20, <1>21, <1>22, <1>23, <1>24, <1>25, <1>26, <1>27,
       <1>28, <1>29, <1>30, <1>31, <1>32, <1>33
       DEF Next, Step

-----------------------------------------------------------------------------
(* What a cycle knows of its inputs, of the PDF and of the end.              *)

LEMMA InputInvStep == Shapes /\ InputInv /\ [Next]_vars => InputInv'
  <1> SUFFICES ASSUME Shapes, InputInv, [Next]_vars PROVE InputInv'
    OBVIOUS
  <1>1. ASSUME NEW force \in BOOLEAN, NEW option \in Options, Begin(force, option)
        PROVE  InputInv'
    <2>1. /\ cycle'.pc = "gate_file" /\ cycle'.option = option /\ cycle'.old = Opened(row)
          /\ cycle'.meta = [file |-> koha.file, cover |-> koha.cover,
                            item |-> Restored.item, link |-> koha.link]
          /\ cycle'.resumed = IF work # None /\ SameInputs(work, option) THEN work ELSE None
          /\ koha' = Restored /\ work' = work
      BY <1>1, IdleFacts DEF Begin, Cycles
    <2>2. cycle'.old.item = row.item /\ cycle'.meta.item = koha'.item /\ (row.item # None =>
             koha'.item # None)
      BY <2>1 DEF Opened, Restored, Shapes, Rows, Records
    <2>3. cycle'.meta["file"] = koha["file"] /\ cycle'.meta["cover"] = koha["cover"]
      BY <2>1
    <2>4. cycle'.resumed # None =>
             work' = cycle'.resumed /\ \A s \in Sources : work'.srcs[s].id = cycle'.meta[s]
      BY <2>1, <2>3 DEF SameInputs, Sources
    <2>5. QED
      BY <2>1, <2>2, <2>4 DEF InputInv, Gating, Downstream
  <1>2. CASE BeginWithoutSource
    BY <1>2 DEF BeginWithoutSource, vars, InputInv, Gating, Downstream
  <1>3. ASSUME NEW s \in Sources, GateQuietly(s) PROVE InputInv'
    <2>1. cycle \in Cycles /\ koha' = koha /\ work' = work
             /\ cycle.pc \in {"gate_file", "gate_cover"}
             /\ NextGate(s) \in {"gate_cover", "decide"}
      BY <1>3 DEF GateQuietly, Shapes, GateAt, NextGate
    <2>2. PICK action, sha, seen : cycle' = Gated(s, action, sha, seen)
      BY <1>3 DEF GateQuietly
    <2>3. /\ cycle'.pc = NextGate(s) /\ cycle'.meta = cycle.meta /\ cycle'.old = cycle.old
          /\ cycle'.resumed = cycle.resumed /\ cycle'.option = cycle.option
          /\ cycle'.result = cycle.result
          /\ cycle'.todo = cycle.todo
      BY <2>1, <2>2, GateStepFacts
    <2>4. QED
      BY <2>1, <2>3 DEF InputInv, Gating, Downstream
  <1>4. ASSUME NEW s \in Sources, GateByMetadata(s) PROVE InputInv'
    <2>1. cycle \in Cycles /\ koha' = koha /\ work' = work
             /\ cycle.pc \in {"gate_file", "gate_cover"}
             /\ NextGate(s) \in {"gate_cover", "decide"}
      BY <1>4 DEF GateByMetadata, Shapes, GateAt, NextGate
    <2>2. PICK action, sha, seen : cycle' = Gated(s, action, sha, seen)
      BY <1>4 DEF GateByMetadata
    <2>3. /\ cycle'.pc = NextGate(s) /\ cycle'.meta = cycle.meta /\ cycle'.old = cycle.old
          /\ cycle'.resumed = cycle.resumed /\ cycle'.option = cycle.option
          /\ cycle'.result = cycle.result
          /\ cycle'.todo = cycle.todo
      BY <2>1, <2>2, GateStepFacts
    <2>4. QED
      BY <2>1, <2>3 DEF InputInv, Gating, Downstream
  <1>5. CASE Decide
    BY <1>5 DEF Decide, External, InputInv, Gating, Downstream, Shapes, Cycles
  <1>6. CASE NothingToDo
    BY <1>6, IdleFacts DEF NothingToDo, External, InputInv, Gating, Downstream
  <1>7. CASE RepairLinks
    BY <1>7, IdleFacts DEF RepairLinks, External, InputInv, Gating, Downstream
  <1>8. CASE RebuildItem
    <2>1. cycle'.pc = "start" /\ cycle'.meta = cycle.meta /\ cycle'.resumed = cycle.resumed
             /\ cycle'.option = cycle.option /\ work' = work /\ cycle.pc = "links"
      BY <1>8 DEF RebuildItem, ItemGone, Shapes, Cycles
    <2>2. QED
      BY <2>1 DEF InputInv, Gating, Downstream
  <1>9. CASE StartDownstream
    <2> DEFINE srcs == [s \in Sources |-> IF Ref(s) = None THEN NoSource
                                          ELSE [id |-> Ref(s), sha |-> SourceSha(s)]]
    <2>1. \A s \in Sources : srcs[s].id = cycle.meta[s]
      BY PairFacts DEF Ref
    <2> HIDE DEF srcs
    <2>2. PICK pc \in {"cover", "reuse"} : cycle' = [cycle EXCEPT !.srcs = srcs, !.pc = pc]
      BY <1>9 DEF StartDownstream, srcs
    <2>3. cycle'.pc = pc /\ cycle'.srcs = srcs /\ cycle'.meta = cycle.meta
             /\ cycle'.resumed = cycle.resumed
             /\ cycle'.option = cycle.option
      BY <2>2 DEF Shapes, Cycles
    <2>4. work' = work /\ cycle.pc = "start"
      BY <1>9 DEF StartDownstream
    <2>5. QED
      BY <2>1, <2>3, <2>4 DEF InputInv, Gating, Downstream
  <1>10. CASE ReuseCover
    <2>1. cycle' = [cycle EXCEPT !.pc = "cover", !.resumed = Checkpoint(cycle.old.asset, None)]
             /\ work' = Checkpoint(cycle.old.asset, None) /\ cycle.pc = "reuse"
      BY <1>10 DEF ReuseCover, SaveWork
    <2>2. /\ cycle'.pc = "cover" /\ cycle'.meta = cycle.meta /\ cycle'.srcs = cycle.srcs
          /\ cycle'.resumed = work' /\ cycle'.option = cycle.option /\ work'.srcs = cycle.srcs
      BY <2>1 DEF Shapes, Cycles, Checkpoint
    <2>3. QED
      BY <2>1, <2>2 DEF InputInv, Gating, Downstream
  <1>11. CASE ResumeCover
    BY <1>11 DEF ResumeCover, External, InputInv, Gating, Downstream, Shapes, Cycles, AfterCover
  <1>12. CASE RenderCover
    BY <1>12 DEF RenderCover, External, InputInv, Gating, Downstream, Shapes, Cycles
  <1>13. CASE SaveCover
    BY <1>13 DEF SaveCover, External, InputInv, Gating, Downstream, Shapes, Cycles, AfterCover
  <1>14. CASE FetchFile
    BY <1>14 DEF FetchFile, External, InputInv, Gating, Downstream, Shapes, Cycles
  <1>15. CASE EnsureItem
    BY <1>15 DEF EnsureItem, External, InputInv, Gating, Downstream, Shapes, Cycles
  <1>16. CASE Upload
    BY <1>16 DEF Upload, External, InputInv, Gating, Downstream, Shapes, Cycles
  <1>17. CASE SetPrimary
    BY <1>17 DEF SetPrimary, External, InputInv, Gating, Downstream, Shapes, Cycles
  <1>18. CASE CheckpointResult
    BY <1>18 DEF CheckpointResult, External, InputInv, Gating, Downstream, Shapes, Cycles
  <1>19. CASE WriteKoha
    BY <1>19 DEF WriteKoha, External, InputInv, Gating, Downstream, Shapes, Cycles
  <1>20. CASE ConfirmKoha
    BY <1>20 DEF ConfirmKoha, External, InputInv, Gating, Downstream, Shapes, Cycles
  <1>21. ASSUME NEW bit \in cycle.todo, DeleteOld(bit) PROVE InputInv'
    BY <1>21 DEF DeleteOld, External, InputInv, Gating, Downstream, Shapes, Cycles
  <1>22. CASE CompleteCycle
    BY <1>22, IdleFacts DEF CompleteCycle, External, InputInv, Gating, Downstream
  <1>23. CASE Refuse
    BY <1>23, IdleFacts DEF Refuse, External, InputInv, Gating, Downstream
  <1>24. CASE RemoveFromState
    BY <1>24, IdleFacts DEF RemoveFromState, External, InputInv, Gating, Downstream
  <1>25. CASE Stop
    BY <1>25, IdleFacts DEF Stop, InputInv, Gating, Downstream
  <1>26. ASSUME NEW s \in Sources, DriveFails(s) PROVE InputInv'
    BY <1>26, IdleFacts DEF DriveFails, InputInv, Gating, Downstream
  <1>27. CASE RemoveFromKoha
    BY <1>27, IdleFacts DEF RemoveFromKoha, InputInv, Gating, Downstream, Cycles
  <1>28. CASE EditContent
    BY <1>28 DEF EditContent, Edit, InputInv, Gating, Downstream
  <1>29. CASE Relink
    <2>1. PICK s \in Sources : \E id \in Ids(s) \ {koha[s]} : koha' = [koha EXCEPT ![s] = id]
      BY <1>29 DEF Relink
    <2>2. PICK id \in Ids(s) : koha' = [koha EXCEPT ![s] = id]
      BY <2>1
    <2>3. koha'.item = koha.item /\ cycle' = cycle /\ work' = work
      BY <1>29, <2>2 DEF Relink, Edit, Shapes, Records, Sources
    <2>4. QED
      BY <2>3 DEF InputInv
  <1>30. CASE Unlink
    <2>1. PICK s \in Sources : koha' = [koha EXCEPT ![s] = None]
      BY <1>30 DEF Unlink
    <2>2. koha'.item = koha.item /\ cycle' = cycle /\ work' = work
      BY <1>30, <2>1 DEF Unlink, Edit, Shapes, Records, Sources
    <2>3. QED
      BY <2>2 DEF InputInv
  <1>31. CASE DropLinks
    BY <1>31 DEF DropLinks, Edit, InputInv, Gating, Downstream, Shapes, Records
  <1>32. CASE DropItem
    BY <1>32 DEF DropItem, Edit, InputInv, Gating, Downstream
  <1>33. CASE UNCHANGED vars
    BY <1>33 DEF vars, InputInv
  <1>34. QED
    BY <1>1, <1>2, <1>3, <1>4, <1>5, <1>6, <1>7, <1>8, <1>9, <1>10, <1>11, <1>12, <1>13, <1>14,
       <1>15, <1>16, <1>17, <1>18, <1>19, <1>20, <1>21, <1>22, <1>23, <1>24, <1>25, <1>26, <1>27,
       <1>28, <1>29, <1>30, <1>31, <1>32, <1>33
       DEF Next, Step

LEMMA FileInvStep == Shapes /\ Bounds /\ InputInv /\ FileInv /\ [Next]_vars => FileInv'
  <1> SUFFICES ASSUME Shapes, Bounds, InputInv, FileInv, [Next]_vars PROVE FileInv'
    OBVIOUS
  <1>1. ASSUME NEW force \in BOOLEAN, NEW option \in Options, Begin(force, option)
        PROVE  FileInv'
    <2>1. cycle'.pc = "gate_file" /\ cycle'.result = None
      BY <1>1, IdleFacts DEF Begin, Cycles
    <2>2. QED
      BY <2>1 DEF FileInv
  <1>2. CASE BeginWithoutSource
    BY <1>2 DEF BeginWithoutSource, vars, FileInv, ResultHolds
  <1>3. ASSUME NEW s \in Sources, GateQuietly(s) PROVE FileInv'
    <2>1. cycle \in Cycles /\ koha' = koha /\ work' = work
             /\ cycle.pc \in {"gate_file", "gate_cover"}
             /\ NextGate(s) \in {"gate_cover", "decide"}
      BY <1>3 DEF GateQuietly, Shapes, GateAt, NextGate
    <2>2. PICK action, sha, seen : cycle' = Gated(s, action, sha, seen)
      BY <1>3 DEF GateQuietly
    <2>3. /\ cycle'.pc = NextGate(s) /\ cycle'.meta = cycle.meta /\ cycle'.old = cycle.old
          /\ cycle'.resumed = cycle.resumed /\ cycle'.option = cycle.option
          /\ cycle'.result = cycle.result
          /\ cycle'.todo = cycle.todo
      BY <2>1, <2>2, GateStepFacts
    <2>4. QED
      BY <2>1, <2>3 DEF FileInv
  <1>4. ASSUME NEW s \in Sources, GateByMetadata(s) PROVE FileInv'
    <2>1. cycle \in Cycles /\ koha' = koha /\ work' = work
             /\ cycle.pc \in {"gate_file", "gate_cover"}
             /\ NextGate(s) \in {"gate_cover", "decide"}
      BY <1>4 DEF GateByMetadata, Shapes, GateAt, NextGate
    <2>2. PICK action, sha, seen : cycle' = Gated(s, action, sha, seen)
      BY <1>4 DEF GateByMetadata
    <2>3. /\ cycle'.pc = NextGate(s) /\ cycle'.meta = cycle.meta /\ cycle'.old = cycle.old
          /\ cycle'.resumed = cycle.resumed /\ cycle'.option = cycle.option
          /\ cycle'.result = cycle.result
          /\ cycle'.todo = cycle.todo
      BY <2>1, <2>2, GateStepFacts
    <2>4. QED
      BY <2>1, <2>3 DEF FileInv
  <1>5. CASE Decide
    BY <1>5 DEF Decide, External, FileInv, ResultHolds, Shapes, Cycles
  <1>6. CASE NothingToDo
    BY <1>6, IdleFacts DEF NothingToDo, External, FileInv, ResultHolds
  <1>7. CASE RepairLinks
    BY <1>7, IdleFacts DEF RepairLinks, External, FileInv, ResultHolds
  <1>8. CASE RebuildItem
    <2>1. cycle'.pc = "start" /\ cycle'.result = cycle.result /\ cycle.pc = "links"
      BY <1>8 DEF RebuildItem, ItemGone, Shapes, Cycles
    <2>2. QED
      BY <2>1 DEF FileInv
  <1>9. CASE StartDownstream
    BY <1>9 DEF StartDownstream, External, FileInv, ResultHolds, Shapes, Cycles
  <1>10. CASE ReuseCover
    BY <1>10 DEF ReuseCover, External, FileInv, ResultHolds, Shapes, Cycles
  <1>11. CASE ResumeCover
    <2>1. /\ cycle.pc = "cover" /\ cycle.resumed # None /\ work' = work
          /\ cycle'.pc = AfterCover(cycle.resumed.result)
          /\ cycle'.result = cycle.resumed.result
          /\ cycle'.file_work = cycle.file_work
      BY <1>11 DEF ResumeCover, Shapes, Cycles
    <2>2. work = cycle.resumed
      BY <2>1 DEF InputInv
    <2>3. QED
      BY <2>1, <2>2 DEF FileInv, AfterCover
  <1>12. CASE RenderCover
    BY <1>12 DEF RenderCover, External, FileInv, ResultHolds, Shapes, Cycles
  <1>13. CASE SaveCover
    <2>1. /\ cycle.pc = "save" /\ work' = Checkpoint(cycle.asset, None)
          /\ cycle'.pc = AfterCover(None) /\ cycle'.result = cycle.result
          /\ cycle'.file_work = cycle.file_work
      BY <1>13 DEF SaveCover, SaveWork, Shapes, Cycles
    <2>2. work' # None /\ work'.result = None
      <3>1. work' \in Checkpoints
        BY <2>1 DEF Checkpoint, Checkpoints, Shapes, Cycles, InputInv, Opt
      <3>2. QED
        BY <2>1, <3>1, CheckpointsFacts DEF Checkpoint
    <2>3. QED
      BY <2>1, <2>2 DEF FileInv, AfterCover
  <1>14. CASE FetchFile
    BY <1>14 DEF FetchFile, External, FileInv, ResultHolds, Shapes, Cycles, Obtainable
  <1>15. CASE EnsureItem
    <2>1. cycle.pc = "item" /\ cycle' = [cycle EXCEPT !.pc = "upload"] /\ work' = work
      BY <1>15 DEF EnsureItem
    <2>2. QED
      BY <2>1 DEF FileInv, Shapes, Cycles
  <1>16. CASE Upload
    <2> DEFINE new ==
                 [id |-> repo.uploads + 1, name |-> Ref("file"), content |-> cycle.srcs["file"].sha]
               result == [item |-> repo.item, bit |-> repo.uploads + 1, old |-> Superseded]
    <2>1. /\ repo' = [repo EXCEPT !.uploads = repo.uploads + 1, !.bits = repo.bits \cup {new}]
          /\ cycle' = [cycle EXCEPT !.pc = "primary", !.result = result]
          /\ cycle.pc = "upload" /\ work' = work
      BY <1>16 DEF Upload
    <2>2. /\ new.id = repo.uploads + 1 /\ new.name = cycle.meta["file"]
             /\ new.content = cycle.srcs["file"].sha
          /\ result.item = repo.item /\ result.bit = repo.uploads + 1 /\ result.old = Superseded
          /\ result # None
      <3>1. result # None
        <4>1. repo.item \in Nat /\ repo.uploads + 1 \in Nat /\ Superseded \in SUBSET Nat
          BY <1>16 DEF Upload, Shapes, Repos, Bits, Opt, Superseded
        <4>2. QED
          BY <4>1, NoneIsNoValue
      <3>2. QED
        BY <3>1 DEF Ref
    <2> HIDE DEF new, result
    <2>3. /\ repo'.item = repo.item /\ repo'.bits = repo.bits \cup {new}
          /\ cycle'.pc = "primary" /\ cycle'.result = result /\ cycle'.srcs = cycle.srcs
          /\ cycle'.file_work = cycle.file_work
      BY <2>1 DEF Shapes, Repos, Cycles
    <2>4. cycle.srcs["file"].id = cycle.meta["file"] /\ cycle.srcs["file"].id # None
      BY <2>1, SourcesAndIds DEF InputInv, FileInv, Downstream
    <2>5. result.bit \notin result.old
      <3>1. Superseded \subseteq BitId /\ repo.uploads + 1 \notin BitId
        BY DEF Superseded, Bounds, RepoBounded, BitId, Shapes, Repos
      <3>2. QED
        BY <2>2, <3>1
    <2>6. \A b \in repo.bits : b.name = cycle.srcs["file"].id => b.id \in result.old
      BY <2>2, <2>4 DEF Superseded, Ref
    <2>7. ResultHolds(cycle.result, cycle.srcs)'
      BY <2>2, <2>3, <2>4, <2>5, <2>6 DEF ResultHolds
    <2>8. QED
      BY <2>1, <2>2, <2>3, <2>7 DEF FileInv, ResultHolds
  <1>17. CASE SetPrimary
    <2>1. /\ repo' = [repo EXCEPT !.primary = cycle.result.bit]
          /\ cycle' = [cycle EXCEPT !.pc = "checkpoint"] /\ cycle.pc = "primary" /\ work' = work
      BY <1>17 DEF SetPrimary
    <2>2. /\ repo'.item = repo.item /\ repo'.bits = repo.bits
             /\ repo'.primary = cycle.result.bit
          /\ cycle'.pc = "checkpoint" /\ cycle'.result = cycle.result
          /\ cycle'.srcs = cycle.srcs
          /\ cycle'.file_work = cycle.file_work
      BY <2>1 DEF Shapes, Repos, Cycles
    <2>3. QED
      BY <2>1, <2>2 DEF FileInv, ResultHolds
  <1>18. CASE CheckpointResult
    BY <1>18 DEF CheckpointResult, External, FileInv, ResultHolds, Shapes, Cycles
  <1>19. CASE WriteKoha
    BY <1>19 DEF WriteKoha, External, FileInv, ResultHolds, Shapes, Cycles
  <1>20. CASE ConfirmKoha
    BY <1>20 DEF ConfirmKoha, External, FileInv, ResultHolds, Shapes, Cycles
  <1>21. ASSUME NEW bit \in cycle.todo, DeleteOld(bit) PROVE FileInv'
    BY <1>21 DEF DeleteOld, External, FileInv, ResultHolds, Shapes, Cycles
  <1>22. CASE CompleteCycle
    BY <1>22, IdleFacts DEF CompleteCycle, External, FileInv, ResultHolds
  <1>23. CASE Refuse
    BY <1>23, IdleFacts DEF Refuse, External, FileInv, ResultHolds
  <1>24. CASE RemoveFromState
    BY <1>24, IdleFacts DEF RemoveFromState, External, FileInv, ResultHolds
  <1>25. CASE Stop
    BY <1>25, IdleFacts DEF Stop, FileInv, ResultHolds
  <1>26. ASSUME NEW s \in Sources, DriveFails(s) PROVE FileInv'
    BY <1>26, IdleFacts DEF DriveFails, FileInv, ResultHolds
  <1>27. CASE RemoveFromKoha
    BY <1>27, IdleFacts DEF RemoveFromKoha, FileInv, ResultHolds, Cycles
  <1>28. CASE EditContent
    BY <1>28 DEF EditContent, Edit, FileInv, ResultHolds, Edit
  <1>29. CASE Relink
    <2>1. PICK s \in Sources : \E id \in Ids(s) \ {koha[s]} : koha' = [koha EXCEPT ![s] = id]
      BY <1>29 DEF Relink
    <2>2. PICK id \in Ids(s) : koha' = [koha EXCEPT ![s] = id]
      BY <2>1
    <2>3. koha'.item = koha.item /\ koha'.link = koha.link /\ koha'.asset = koha.asset
      BY <2>2 DEF Shapes, Records, Sources
    <2>4. cycle' = cycle /\ work' = work /\ repo' = repo
      BY <1>29 DEF Relink, Edit
    <2>5. QED
      BY <2>3, <2>4 DEF FileInv, ResultHolds
  <1>30. CASE Unlink
    <2>1. PICK s \in Sources : koha' = [koha EXCEPT ![s] = None]
      BY <1>30 DEF Unlink
    <2>2. koha'.item = koha.item /\ koha'.link = koha.link /\ koha'.asset = koha.asset
      BY <2>1 DEF Shapes, Records, Sources
    <2>3. cycle' = cycle /\ work' = work /\ repo' = repo
      BY <1>30 DEF Unlink, Edit
    <2>4. QED
      BY <2>2, <2>3 DEF FileInv, ResultHolds
  <1>31. CASE DropLinks
    BY <1>31 DEF DropLinks, Edit, FileInv, ResultHolds
  <1>32. CASE DropItem
    BY <1>32 DEF DropItem, Edit, FileInv, ResultHolds, Shapes, Repos
  <1>33. CASE UNCHANGED vars
    BY <1>33 DEF vars, FileInv, ResultHolds
  <1>34. QED
    BY <1>1, <1>2, <1>3, <1>4, <1>5, <1>6, <1>7, <1>8, <1>9, <1>10, <1>11, <1>12, <1>13, <1>14,
       <1>15, <1>16, <1>17, <1>18, <1>19, <1>20, <1>21, <1>22, <1>23, <1>24, <1>25, <1>26, <1>27,
       <1>28, <1>29, <1>30, <1>31, <1>32, <1>33
       DEF Next, Step

LEMMA WriteInvStep == Shapes /\ RepoInv /\ WorkInv /\ InputInv /\ FileInv /\ WriteInv /\ [Next]_vars =>
        WriteInv'
  <1> SUFFICES ASSUME Shapes, RepoInv, WorkInv, InputInv, FileInv, WriteInv, [Next]_vars
               PROVE  WriteInv'
    OBVIOUS
  <1>1. ASSUME NEW force \in BOOLEAN, NEW option \in Options, Begin(force, option)
        PROVE  WriteInv'
    <2>1. cycle'.pc = "gate_file"
      BY <1>1, IdleFacts DEF Begin, Cycles
    <2>2. QED
      BY <2>1 DEF WriteInv
  <1>2. CASE BeginWithoutSource
    BY <1>2 DEF BeginWithoutSource, vars, WriteInv
  <1>3. ASSUME NEW s \in Sources, GateQuietly(s) PROVE WriteInv'
    <2>1. cycle \in Cycles /\ koha' = koha /\ work' = work
             /\ cycle.pc \in {"gate_file", "gate_cover"}
             /\ NextGate(s) \in {"gate_cover", "decide"}
      BY <1>3 DEF GateQuietly, Shapes, GateAt, NextGate
    <2>2. PICK action, sha, seen : cycle' = Gated(s, action, sha, seen)
      BY <1>3 DEF GateQuietly
    <2>3. /\ cycle'.pc = NextGate(s) /\ cycle'.meta = cycle.meta /\ cycle'.old = cycle.old
          /\ cycle'.resumed = cycle.resumed /\ cycle'.option = cycle.option
          /\ cycle'.result = cycle.result
          /\ cycle'.todo = cycle.todo
      BY <2>1, <2>2, GateStepFacts
    <2>4. QED
      BY <2>1, <2>3 DEF WriteInv
  <1>4. ASSUME NEW s \in Sources, GateByMetadata(s) PROVE WriteInv'
    <2>1. cycle \in Cycles /\ koha' = koha /\ work' = work
             /\ cycle.pc \in {"gate_file", "gate_cover"}
             /\ NextGate(s) \in {"gate_cover", "decide"}
      BY <1>4 DEF GateByMetadata, Shapes, GateAt, NextGate
    <2>2. PICK action, sha, seen : cycle' = Gated(s, action, sha, seen)
      BY <1>4 DEF GateByMetadata
    <2>3. /\ cycle'.pc = NextGate(s) /\ cycle'.meta = cycle.meta /\ cycle'.old = cycle.old
          /\ cycle'.resumed = cycle.resumed /\ cycle'.option = cycle.option
          /\ cycle'.result = cycle.result
          /\ cycle'.todo = cycle.todo
      BY <2>1, <2>2, GateStepFacts
    <2>4. QED
      BY <2>1, <2>3 DEF WriteInv
  <1>5. CASE Decide
    BY <1>5 DEF Decide, External, WriteInv, Shapes, Cycles
  <1>6. CASE NothingToDo
    BY <1>6, IdleFacts DEF NothingToDo, External, WriteInv
  <1>7. CASE RepairLinks
    BY <1>7, IdleFacts DEF RepairLinks, External, WriteInv
  <1>8. CASE RebuildItem
    <2>1. cycle'.pc = "start"
      BY <1>8 DEF RebuildItem, ItemGone, Shapes, Cycles
    <2>2. QED
      BY <2>1 DEF WriteInv
  <1>9. CASE StartDownstream
    BY <1>9 DEF StartDownstream, External, WriteInv, Shapes, Cycles
  <1>10. CASE ReuseCover
    BY <1>10 DEF ReuseCover, External, WriteInv, Shapes, Cycles
  <1>11. CASE ResumeCover
    <2>1. /\ cycle.pc = "cover" /\ cycle.resumed # None /\ work' = work
          /\ cycle'.pc = AfterCover(cycle.resumed.result)
          /\ cycle'.result = cycle.resumed.result
          /\ cycle'.asset = cycle.resumed.asset
          /\ cycle'.file_work = cycle.file_work /\ cycle'.meta = cycle.meta
      BY <1>11 DEF ResumeCover, Shapes, Cycles
    <2>2. work = cycle.resumed /\ work.srcs["file"].id = cycle.meta["file"]
      BY <2>1, SourcesAndIds DEF InputInv
    <2>3. QED
      BY <2>1, <2>2 DEF WriteInv, AfterCover
  <1>12. CASE RenderCover
    BY <1>12 DEF RenderCover, External, WriteInv, Shapes, Cycles
  <1>13. CASE SaveCover
    <2>1. /\ cycle.pc = "save" /\ work' = Checkpoint(cycle.asset, None)
          /\ cycle'.pc = AfterCover(None) /\ cycle'.result = cycle.result
          /\ cycle'.asset = cycle.asset
          /\ cycle'.file_work = cycle.file_work /\ cycle'.meta = cycle.meta
      BY <1>13 DEF SaveCover, SaveWork, Shapes, Cycles
    <2>2. work' # None /\ work'.result = None /\ work'.asset = cycle.asset
             /\ work'.srcs = cycle.srcs
      <3>1. work' \in Checkpoints
        BY <2>1 DEF Checkpoint, Checkpoints, Shapes, Cycles, InputInv, Opt
      <3>2. QED
        BY <2>1, <3>1, CheckpointsFacts DEF Checkpoint
    <2>3. cycle.result = None /\ cycle.srcs["file"].id = cycle.meta["file"]
      BY <2>1, SourcesAndIds DEF FileInv, InputInv, Downstream
    <2>4. QED
      BY <2>1, <2>2, <2>3 DEF WriteInv, AfterCover
  <1>14. CASE FetchFile
    BY <1>14 DEF FetchFile, External, WriteInv, Shapes, Cycles
  <1>15. CASE EnsureItem
    BY <1>15 DEF EnsureItem, External, WriteInv, Shapes, Cycles
  <1>16. CASE Upload
    BY <1>16 DEF Upload, External, WriteInv, Shapes, Cycles
  <1>17. CASE SetPrimary
    BY <1>17 DEF SetPrimary, External, WriteInv, Shapes, Cycles
  <1>18. CASE CheckpointResult
    <2>1. /\ cycle.pc = "checkpoint" /\ work' = Checkpoint(cycle.asset, cycle.result)
          /\ cycle'.pc = "koha" /\ cycle'.result = cycle.result /\ cycle'.asset = cycle.asset
          /\ cycle'.file_work = cycle.file_work /\ cycle'.meta = cycle.meta
      BY <1>18 DEF CheckpointResult, SaveWork, Shapes, Cycles
    <2>2. work' # None /\ work'.result = cycle.result /\ work'.asset = cycle.asset
             /\ work'.srcs = cycle.srcs
      <3>1. work' \in Checkpoints
        BY <2>1 DEF Checkpoint, Checkpoints, Shapes, Cycles, InputInv, Opt
      <3>2. QED
        BY <2>1, <3>1, CheckpointsFacts DEF Checkpoint
    <2>3. cycle.result # None /\ cycle.srcs["file"].id = cycle.meta["file"]
      BY <2>1, SourcesAndIds DEF FileInv, InputInv, Downstream
    <2>4. QED
      BY <2>1, <2>2, <2>3 DEF WriteInv
  <1>19. CASE WriteKoha
    BY <1>19 DEF WriteKoha, External, WriteInv, Shapes, Cycles
  <1>20. CASE ConfirmKoha
    <2>1. /\ cycle.pc = "readback" /\ ReadBack /\ work' = work /\ koha' = koha /\ repo' = repo
          /\ cycle'.pc = "cleanup" /\ cycle'.result = cycle.result /\ cycle'.asset = cycle.asset
          /\ cycle'.todo = (IF cycle.file_work THEN cycle.result.old ELSE {})
          /\ cycle'.file_work = cycle.file_work /\ cycle'.meta = cycle.meta
      BY <1>20 DEF ConfirmKoha, Shapes, Cycles
    <2>2. /\ work # None /\ work.result = cycle.result
             /\ work.srcs["file"].id = cycle.meta["file"]
          /\ cycle.file_work => cycle.result # None
      BY <2>1 DEF WriteInv
    <2>3. cycle.file_work =>
            \A b \in repo.bits :
              b.name = cycle.meta["file"] => b.id \in cycle.result.old \cup {cycle.result.bit}
      BY <2>2 DEF WorkInv, ResultHolds, RepoInv
    <2>4. QED
      BY <2>1, <2>2, <2>3 DEF WriteInv, ReadBack
  <1>21. ASSUME NEW bit \in cycle.todo, DeleteOld(bit) PROVE WriteInv'
    <2>1. cycle.pc = "cleanup" /\ bit \in cycle.todo /\ work' = work /\ koha' = koha
             /\ cycle' = [cycle EXCEPT !.todo = cycle.todo \ {bit}]
             /\ repo' = [repo EXCEPT !.bits = {b \in repo.bits : b.id # bit},
                                     !.primary = IF repo.primary = bit THEN None ELSE repo.primary]
      BY <1>21 DEF DeleteOld
    <2>2. /\ repo'.bits = {b \in repo.bits : b.id # bit}
          /\ cycle'.pc = "cleanup" /\ cycle'.result = cycle.result /\ cycle'.asset = cycle.asset
          /\ cycle'.todo = cycle.todo \ {bit}
          /\ cycle'.file_work = cycle.file_work /\ cycle'.meta = cycle.meta
      BY <2>1 DEF Shapes, Repos, Cycles
    <2>3. QED
      BY <2>1, <2>2 DEF WriteInv
  <1>22. CASE CompleteCycle
    BY <1>22, IdleFacts DEF CompleteCycle, External, WriteInv
  <1>23. CASE Refuse
    BY <1>23, IdleFacts DEF Refuse, External, WriteInv
  <1>24. CASE RemoveFromState
    BY <1>24, IdleFacts DEF RemoveFromState, External, WriteInv
  <1>25. CASE Stop
    BY <1>25, IdleFacts DEF Stop, WriteInv
  <1>26. ASSUME NEW s \in Sources, DriveFails(s) PROVE WriteInv'
    BY <1>26, IdleFacts DEF DriveFails, WriteInv
  <1>27. CASE RemoveFromKoha
    BY <1>27, IdleFacts DEF RemoveFromKoha, WriteInv, Cycles
  <1>28. CASE EditContent
    BY <1>28 DEF EditContent, Edit, WriteInv, Edit
  <1>29. CASE Relink
    <2>1. PICK s \in Sources : \E id \in Ids(s) \ {koha[s]} : koha' = [koha EXCEPT ![s] = id]
      BY <1>29 DEF Relink
    <2>2. PICK id \in Ids(s) : koha' = [koha EXCEPT ![s] = id]
      BY <2>1
    <2>3. koha'.item = koha.item /\ koha'.link = koha.link /\ koha'.asset = koha.asset
      BY <2>2 DEF Shapes, Records, Sources
    <2>4. cycle' = cycle /\ work' = work /\ repo' = repo
      BY <1>29 DEF Relink, Edit
    <2>5. QED
      BY <2>3, <2>4 DEF WriteInv
  <1>30. CASE Unlink
    <2>1. PICK s \in Sources : koha' = [koha EXCEPT ![s] = None]
      BY <1>30 DEF Unlink
    <2>2. koha'.item = koha.item /\ koha'.link = koha.link /\ koha'.asset = koha.asset
      BY <2>1 DEF Shapes, Records, Sources
    <2>3. cycle' = cycle /\ work' = work /\ repo' = repo
      BY <1>30 DEF Unlink, Edit
    <2>4. QED
      BY <2>2, <2>3 DEF WriteInv
  <1>31. CASE DropLinks
    BY <1>31 DEF DropLinks, Edit, WriteInv, Shapes, Records
  <1>32. CASE DropItem
    BY <1>32 DEF DropItem, Edit, WriteInv, Shapes, Repos
  <1>33. CASE UNCHANGED vars
    BY <1>33 DEF vars, WriteInv
  <1>34. QED
    BY <1>1, <1>2, <1>3, <1>4, <1>5, <1>6, <1>7, <1>8, <1>9, <1>10, <1>11, <1>12, <1>13, <1>14,
       <1>15, <1>16, <1>17, <1>18, <1>19, <1>20, <1>21, <1>22, <1>23, <1>24, <1>25, <1>26, <1>27,
       <1>28, <1>29, <1>30, <1>31, <1>32, <1>33
       DEF Next, Step

-----------------------------------------------------------------------------
LEMMA CoverCycleInit == Init => CoverCycleInv
  <1> SUFFICES ASSUME Init PROVE CoverCycleInv
    OBVIOUS
  <1>1. PICK file \in Opt(FileIds), cover \in Opt(CoverIds) :
           koha = [file |-> file, cover |-> cover, asset |-> None, item |-> None, link |-> None]
    BY DEF Init
  <1>2. /\ row = AbsentRow /\ work = None /\ cycle = Idle
        /\ repo = [item |-> None, bits |-> {}, primary |-> None, items |-> 0, uploads |-> 0]
        /\ drive \in [FileIds \cup CoverIds -> Assets]
        /\ \A s \in Sources : \A id \in Ids(s) : drive[id] \in Contents(s)
    BY DEF Init
  <1>3. koha \in Records
    BY <1>1 DEF Records, Opt
  <1>4. repo \in Repos
    BY <1>2 DEF Repos, Opt
  <1>5. Shapes
    BY <1>2, <1>3, <1>4, IdleFacts DEF Shapes, DriveHolds, Opt
  <1>6. Bounds
    BY <1>1, <1>2, IdleFacts DEF Bounds, KohaBounded, RowBounded, WorkBounded, RepoBounded,
       CycleBounded,
                                   AbsentRow, Opt, Link
  <1>7. RepoInv /\ KohaInv /\ WorkInv
    BY <1>1, <1>2 DEF RepoInv, KohaInv, WorkInv, LinkNeverDangles
  <1>8. CycleKnows
    BY <1>2, IdleFacts DEF CycleKnows, GateInv, InputInv, FileInv, WriteInv, Gating, Downstream
  <1>9. QED
    BY <1>5, <1>6, <1>7, <1>8 DEF CoverCycleInv

\* What the cycle, the row, the checkpoint, the Item and the record know of each
\* other is established at the start and kept by every step.
THEOREM CoverCycleInductive == Spec => []CoverCycleInv
  <1>1. Init => CoverCycleInv
    BY CoverCycleInit
  <1>2. CoverCycleInv /\ [Next]_vars => CoverCycleInv'
    BY ShapesStep, BoundsStep, RepoInvStep, KohaInvStep, WorkInvStep,
       GateInvStep, InputInvStep, FileInvStep, WriteInvStep DEF CoverCycleInv, CycleKnows
  <1>3. QED
    BY <1>1, <1>2, PTL DEF Spec

-----------------------------------------------------------------------------
(* The theorems.                                                             *)

LEMMA WorkType ==
  ASSUME NEW w \in Opt(Checkpoints), w # None => w.result \in Opt(Result)
  PROVE  w \in Opt(Work)
  BY DEF Opt, Checkpoints, Work, Pairs

\* Every variable of a cycle has the values its type says: in particular only
\* Items and bitstreams that were created are ever named anywhere.
THEOREM TypeCorrect == Spec => []TypeOK
  <1>1. CoverCycleInv => TypeOK
    <2> SUFFICES ASSUME CoverCycleInv PROVE TypeOK
      OBVIOUS
    <2>1. Shapes /\ Bounds
      BY DEF CoverCycleInv
    <2>2. koha \in [file : Opt(FileIds), cover : Opt(CoverIds), asset : Opt(Assets),
                    item : Opt(1..repo.items), link : Link]
      BY <2>1 DEF Shapes, Bounds, KohaBounded, Records
    <2>3. Pair("file") \subseteq SourcePair /\ Pair("cover") \subseteq SourcePair
      BY PairFacts, SourcesAndIds
    <2>4. row \in [status : {"absent", "unfinished", "ok"}, file : SourcePair, cover : SourcePair,
                   asset : Opt(Assets), item : Opt(1..repo.items), bit : Link]
      BY <2>1, <2>3 DEF Shapes, Bounds, RowBounded, Rows
    <2>5. work \in Opt(Work) /\ cycle.resumed \in Opt(Work)
      BY <2>1, WorkType DEF Shapes, Bounds, WorkBounded, CycleBounded, Cycles
    <2>6. repo.bits \subseteq [id : BitId, name : FileIds, content : FileContents]
      <3>1. \A b \in repo.bits : b \in Bits /\ b.id \in BitId
        BY <2>1 DEF Shapes, Bounds, RepoBounded, Repos
      <3>2. QED
        BY <3>1 DEF Bits
    <2>7. cycle.pc \in Stages /\ cycle.srcs \in SourcePairs
      BY <2>1 DEF Shapes, Cycles, Pairs
    <2>8. QED
      BY <2>1, <2>2, <2>4, <2>5, <2>6, <2>7
         DEF TypeOK, Shapes, DriveHolds, Bounds, RepoBounded, CycleBounded
  <1>2. QED
    BY <1>1, CoverCycleInductive, PTL

\* The file link of a Koha record always opens a bitstream of its Item.
THEOREM NoDanglingLink == Spec => []LinkNeverDangles
  <1>1. CoverCycleInv => LinkNeverDangles
    BY DEF CoverCycleInv, KohaInv
  <1>2. QED
    BY <1>1, CoverCycleInductive, PTL

\* A checkpoint with a DSpace result stays usable until it is consumed.
THEOREM UsableCheckpoint == Spec => []CheckpointHolds
  <1>1. CoverCycleInv => CheckpointHolds
    <2> SUFFICES ASSUME CoverCycleInv, work # None PROVE CheckpointHolds
      BY DEF CheckpointHolds
    <2>1. row.asset = work.asset
      BY DEF CoverCycleInv, WorkInv
    <2>2. ASSUME work.result # None, work.result.item = repo.item
          PROVE  Holds(work.result.bit, work.srcs["file"].sha) /\ repo.primary = work.result.bit
      <3>1. work.result.item # None
        BY <2>2, NoneIsNoValue DEF CoverCycleInv, Shapes, Checkpoints, Results, Opt
      <3>2. QED
        BY <2>2, <3>1 DEF CoverCycleInv, WorkInv, ResultHolds, Holds
    <2>3. QED
      BY <2>1, <2>2 DEF CheckpointHolds
  <1>2. QED
    BY <1>1, CoverCycleInductive, PTL

\* What OldKeptUntilReplaced says of a step.
Kept ==
  \A b \in repo.bits : repo'.item = repo.item /\ b \notin repo'.bits =>
       /\ work # None /\ work.result # None
       /\ b.id # work.result.bit /\ b.id # koha.link
       /\ koha.asset = work.asset
       /\ Holds(work.result.bit, work.srcs["file"].sha)

LEMMA KeptStep == CoverCycleInv /\ [Next]_vars => Kept
  <1> SUFFICES ASSUME CoverCycleInv, [Next]_vars PROVE Kept
    OBVIOUS
  <1> USE DEF Kept
  <1>1. ASSUME NEW force \in BOOLEAN, NEW option \in Options, Begin(force, option) PROVE Kept
    BY <1>1 DEF Begin
  <1>2. CASE BeginWithoutSource
    BY <1>2 DEF BeginWithoutSource, vars
  <1>3. ASSUME NEW s \in Sources, GateQuietly(s) PROVE Kept
    BY <1>3 DEF GateQuietly, External
  <1>4. ASSUME NEW s \in Sources, GateByMetadata(s) PROVE Kept
    BY <1>4 DEF GateByMetadata, External
  <1>5. CASE Decide
    BY <1>5 DEF Decide, External
  <1>6. CASE NothingToDo
    BY <1>6 DEF NothingToDo, External
  <1>7. CASE RepairLinks
    BY <1>7 DEF RepairLinks, External
  <1>8. CASE RebuildItem
    BY <1>8 DEF RebuildItem, External
  <1>9. CASE StartDownstream
    BY <1>9 DEF StartDownstream, External
  <1>10. CASE ReuseCover
    BY <1>10 DEF ReuseCover, External
  <1>11. CASE ResumeCover
    BY <1>11 DEF ResumeCover, External
  <1>12. CASE RenderCover
    BY <1>12 DEF RenderCover, External
  <1>13. CASE SaveCover
    BY <1>13 DEF SaveCover, External
  <1>14. CASE FetchFile
    BY <1>14 DEF FetchFile, External
  <1>15. CASE EnsureItem
    <2>1. repo'.bits = repo.bits
      BY <1>15 DEF EnsureItem, CoverCycleInv, Shapes, Repos
    <2>2. QED
      BY <2>1
  <1>16. CASE Upload
    <2> DEFINE new ==
                 [id |-> repo.uploads + 1, name |-> Ref("file"), content |-> cycle.srcs["file"].sha]
    <2>1. repo' = [repo EXCEPT !.uploads = repo.uploads + 1, !.bits = repo.bits \cup {new}]
      BY <1>16 DEF Upload
    <2> HIDE DEF new
    <2>2. repo'.bits = repo.bits \cup {new}
      BY <2>1 DEF CoverCycleInv, Shapes, Repos
    <2>3. QED
      BY <2>2
  <1>17. CASE SetPrimary
    <2>1. repo'.bits = repo.bits
      BY <1>17 DEF SetPrimary, CoverCycleInv, Shapes, Repos
    <2>2. QED
      BY <2>1
  <1>18. CASE CheckpointResult
    BY <1>18 DEF CheckpointResult, External
  <1>19. CASE WriteKoha
    BY <1>19 DEF WriteKoha, External
  <1>20. CASE ConfirmKoha
    BY <1>20 DEF ConfirmKoha, External
  <1>21. ASSUME NEW bit \in cycle.todo, DeleteOld(bit) PROVE Kept
    <2>1. bit \in cycle.todo /\ repo'.item = repo.item
             /\ repo'.bits = {b \in repo.bits : b.id # bit}
      BY <1>21 DEF DeleteOld, CoverCycleInv, Shapes, Repos
    <2>2. /\ cycle.file_work /\ work # None /\ work.result = cycle.result
             /\ work.asset = cycle.asset
          /\ cycle.result # None /\ koha.asset = cycle.asset
          /\ koha.link \in {None, cycle.result.bit} /\ bit \in cycle.result.old
      BY <1>21 DEF DeleteOld, CoverCycleInv, CycleKnows, WriteInv
    <2>3. ResultHolds(work.result, work.srcs)
      BY <2>2 DEF CoverCycleInv, WorkInv
    <2>4. bit # work.result.bit /\ bit # None
      BY <2>1, <2>2, <2>3, NoneIsNoValue DEF ResultHolds, CoverCycleInv, Shapes, Cycles
    <2>5. repo.bits # {} => Holds(work.result.bit, work.srcs["file"].sha)
      BY <2>3 DEF ResultHolds, Holds, CoverCycleInv, RepoInv
    <2>6. QED
      BY <2>1, <2>2, <2>4, <2>5
  <1>22. CASE CompleteCycle
    BY <1>22 DEF CompleteCycle, External
  <1>23. CASE Refuse
    BY <1>23 DEF Refuse, External
  <1>24. CASE RemoveFromState
    BY <1>24 DEF RemoveFromState, External
  <1>25. CASE Stop
    BY <1>25 DEF Stop
  <1>26. ASSUME NEW s \in Sources, DriveFails(s) PROVE Kept
    BY <1>26 DEF DriveFails
  <1>27. CASE RemoveFromKoha
    BY <1>27 DEF RemoveFromKoha
  <1>28. CASE EditContent
    BY <1>28 DEF EditContent, Edit
  <1>29. CASE Relink
    BY <1>29 DEF Relink, Edit
  <1>30. CASE Unlink
    BY <1>30 DEF Unlink, Edit
  <1>31. CASE DropLinks
    BY <1>31 DEF DropLinks, Edit
  <1>32. CASE DropItem
    <2>1. repo.item # None /\ repo'.item = None
      BY <1>32 DEF DropItem, CoverCycleInv, Shapes, Repos
    <2>2. QED
      BY <2>1
  <1>33. CASE UNCHANGED vars
    BY <1>33 DEF vars
  <1>34. QED
    BY <1>1, <1>2, <1>3, <1>4, <1>5, <1>6, <1>7, <1>8, <1>9, <1>10, <1>11, <1>12, <1>13, <1>14,
       <1>15, <1>16, <1>17, <1>18, <1>19, <1>20, <1>21, <1>22, <1>23, <1>24, <1>25, <1>26, <1>27,
       <1>28, <1>29, <1>30, <1>31, <1>32, <1>33
       DEF Next, Step

\* A bitstream goes only when its replacement is recorded, stored and verified,
\* and Koha no longer links the old one.
THEOREM OldIsKept == Spec => OldKeptUntilReplaced
  <1>1. CoverCycleInv /\ [Next]_vars => Kept
    BY KeptStep
  <1>2. QED
    BY <1>1, CoverCycleInductive, PTL DEF Spec, Kept, OldKeptUntilReplaced

\* Only the end of a cycle confirms a row.
OnlyConfirms == row.status # "ok" /\ row'.status = "ok" => CompleteCycle

LEMMA OnlyCompletes == Shapes /\ [Next]_vars => OnlyConfirms
  <1> SUFFICES ASSUME Shapes, [Next]_vars PROVE OnlyConfirms
    OBVIOUS
  <1> USE DEF OnlyConfirms
  <1>1. ASSUME NEW force \in BOOLEAN, NEW option \in Options, Begin(force, option)
        PROVE  OnlyConfirms
    BY <1>1 DEF Begin, Opened, Shapes, Rows
  <1>2. CASE BeginWithoutSource
    BY <1>2 DEF BeginWithoutSource, vars
  <1>3. ASSUME NEW s \in Sources, GateQuietly(s) PROVE OnlyConfirms
    BY <1>3 DEF GateQuietly, External
  <1>4. ASSUME NEW s \in Sources, GateByMetadata(s) PROVE OnlyConfirms
    BY <1>4, AskFacts DEF GateByMetadata, External, AsksDrive, Ref
  <1>5. CASE Decide
    BY <1>5 DEF Decide, External
  <1>6. CASE NothingToDo
    BY <1>6 DEF NothingToDo, External
  <1>7. CASE RepairLinks
    BY <1>7 DEF RepairLinks, External
  <1>8. CASE RebuildItem
    BY <1>8, AskFacts, SourcesAndIds DEF RebuildItem, External, ItemGone, LinksLost, Ref
  <1>9. CASE StartDownstream
    BY <1>9 DEF StartDownstream, External, Shapes, Rows
  <1>10. CASE ReuseCover
    BY <1>10 DEF ReuseCover, External, SaveWork, Shapes, Rows
  <1>11. CASE ResumeCover
    BY <1>11 DEF ResumeCover, External
  <1>12. CASE RenderCover
    BY <1>12 DEF RenderCover, External
  <1>13. CASE SaveCover
    BY <1>13 DEF SaveCover, External, SaveWork, Shapes, Rows
  <1>14. CASE FetchFile
    BY <1>14 DEF FetchFile, External
  <1>15. CASE EnsureItem
    BY <1>15 DEF EnsureItem, External
  <1>16. CASE Upload
    BY <1>16 DEF Upload, External
  <1>17. CASE SetPrimary
    BY <1>17 DEF SetPrimary, External
  <1>18. CASE CheckpointResult
    BY <1>18 DEF CheckpointResult, External, SaveWork, Shapes, Rows
  <1>19. CASE WriteKoha
    BY <1>19 DEF WriteKoha, External
  <1>20. CASE ConfirmKoha
    BY <1>20 DEF ConfirmKoha, External
  <1>21. ASSUME NEW bit \in cycle.todo, DeleteOld(bit) PROVE OnlyConfirms
    BY <1>21 DEF DeleteOld, External
  <1>22. CASE CompleteCycle
    BY <1>22
  <1>23. CASE Refuse
    BY <1>23 DEF Refuse, External
  <1>24. CASE RemoveFromState
    BY <1>24 DEF RemoveFromState, External
  <1>25. CASE Stop
    BY <1>25 DEF Stop
  <1>26. ASSUME NEW s \in Sources, DriveFails(s) PROVE OnlyConfirms
    BY <1>26 DEF DriveFails, Shapes, Rows
  <1>27. CASE RemoveFromKoha
    BY <1>27 DEF RemoveFromKoha
  <1>28. CASE EditContent
    BY <1>28 DEF EditContent, Edit
  <1>29. CASE Relink
    BY <1>29 DEF Relink, Edit
  <1>30. CASE Unlink
    BY <1>30 DEF Unlink, Edit
  <1>31. CASE DropLinks
    BY <1>31 DEF DropLinks, Edit
  <1>32. CASE DropItem
    BY <1>32 DEF DropItem, Edit
  <1>33. CASE UNCHANGED vars
    BY <1>33 DEF vars
  <1>34. QED
    BY <1>1, <1>2, <1>3, <1>4, <1>5, <1>6, <1>7, <1>8, <1>9, <1>10, <1>11, <1>12, <1>13, <1>14,
       <1>15, <1>16, <1>17, <1>18, <1>19, <1>20, <1>21, <1>22, <1>23, <1>24, <1>25, <1>26, <1>27,
       <1>28, <1>29, <1>30, <1>31, <1>32, <1>33
       DEF Next, Step

\* What ReplacementLeavesOneCopy says of a step.
OneCopy ==
  row.status # "ok" /\ row'.status = "ok" /\ cycle.file_work /\ repo.item = cycle.result.item =>
    /\ repo.primary = cycle.result.bit
    /\ {b.id : b \in {c \in repo.bits : c.name = Ref("file")}} = {cycle.result.bit}

\* A cycle that replaced the PDF ends with one copy under its name, the primary
\* one, whatever earlier attempts had left in the bundle.
THEOREM OneCopyLeft == Spec => ReplacementLeavesOneCopy
  <1>1. CoverCycleInv /\ [Next]_vars => OneCopy
    <2> SUFFICES ASSUME CoverCycleInv, [Next]_vars, row.status # "ok", row'.status = "ok",
                        cycle.file_work, repo.item = cycle.result.item
                 PROVE  /\ repo.primary = cycle.result.bit
                        /\ {b.id : b \in {c \in repo.bits : c.name = Ref("file")}} =
                             {cycle.result.bit}
      BY DEF OneCopy
    <2>1. cycle.pc = "cleanup" /\ cycle.todo = {}
      BY OnlyCompletes DEF OnlyConfirms, CoverCycleInv, CompleteCycle
    <2>2. /\ work # None /\ work.result = cycle.result /\ cycle.result # None
          /\ work.srcs["file"].id = cycle.meta.file
          /\ \A b \in repo.bits : b.name = cycle.meta.file => b.id = cycle.result.bit
      BY <2>1 DEF CoverCycleInv, CycleKnows, WriteInv
    <2>3. repo.item # None
      BY <2>2, NoneIsNoValue DEF CoverCycleInv, Shapes, Cycles, Results, Opt
    <2>4. /\ repo.primary = cycle.result.bit
          /\ \E b \in repo.bits : b.id = cycle.result.bit /\ b.name = cycle.meta.file
      BY <2>2, <2>3 DEF CoverCycleInv, WorkInv, ResultHolds
    <2>5. Ref("file") = cycle.meta.file
      BY DEF Ref
    <2>6. QED
      BY <2>2, <2>4, <2>5
  <1>2. QED
    BY <1>1, CoverCycleInductive, PTL DEF Spec, OneCopy, ReplacementLeavesOneCopy

-----------------------------------------------------------------------------
(* The refinement of PdfReplacement.                                         *)

\* What readers see: the bitstream the link opens, and those of the Item.
Shown  == IF LinkedItemLives THEN koha.link ELSE None
Stored == {b.id : b \in repo.bits}

LEMMA Readers ==
  /\ Init => Replacement!Init
  /\ UNCHANGED <<Shown, Stored, repo.uploads>> => UNCHANGED Replacement!vars
  /\ /\ repo'.uploads = repo.uploads + 1 /\ Stored' = Stored \cup {repo.uploads + 1}
     /\ Shown' = Shown
     => Replacement!Next
  /\ Shown' = None /\ UNCHANGED <<Stored, repo.uploads>> => Replacement!Next
  /\ Shown' = None /\ Stored' = {} /\ UNCHANGED repo.uploads => Replacement!Next
  /\ \A bit \in Stored : Shown' = bit /\ UNCHANGED <<Stored, repo.uploads>> => Replacement!Next
  /\ \A bit \in Stored : bit # Shown /\ Stored \ {bit} # {} /\ Stored' = Stored \ {bit}
                           /\ UNCHANGED <<Shown, repo.uploads>> => Replacement!Next
  <1>1. Init => Replacement!Init
    BY DEF Init, Replacement!Init, LinkedItemLives
  <1>2. UNCHANGED <<Shown, Stored, repo.uploads>> => UNCHANGED Replacement!vars
    BY DEF Replacement!vars, Shown, Stored
  <1>3. /\ repo'.uploads = repo.uploads + 1 /\ Stored' = Stored \cup {repo.uploads + 1}
        /\ Shown' = Shown
        => Replacement!Next
    BY DEF Replacement!Next, Replacement!Store, Shown, Stored
  <1>4. Shown' = None /\ UNCHANGED <<Stored, repo.uploads>> => Replacement!Next
    BY DEF Replacement!Next, Replacement!Hide, Shown, Stored
  <1>5. Shown' = None /\ Stored' = {} /\ UNCHANGED repo.uploads => Replacement!Next
    BY DEF Replacement!Next, Replacement!Lose, Shown, Stored
  <1>6. \A bit \in Stored : Shown' = bit /\ UNCHANGED <<Stored, repo.uploads>> =>
           Replacement!Next
    BY DEF Replacement!Next, Replacement!Show, Shown, Stored
  <1>7. \A bit \in Stored : bit # Shown /\ Stored \ {bit} # {} /\ Stored' = Stored \ {bit}
                              /\ UNCHANGED <<Shown, repo.uploads>> => Replacement!Next
    BY DEF Replacement!Next, Replacement!Drop, Shown, Stored
  <1>8. QED
    BY <1>1, <1>2, <1>3, <1>4, <1>5, <1>6, <1>7

\* A step of the cycle is a step of the replacement or none.
Mapped == Replacement!Next \/ UNCHANGED Replacement!vars

LEMMA MappedStep == CoverCycleInv /\ [Next]_vars => Mapped
  <1> SUFFICES ASSUME CoverCycleInv, [Next]_vars PROVE Mapped
    OBVIOUS
  <1> USE DEF Mapped
  <1>1. ASSUME NEW force \in BOOLEAN, NEW option \in Options, Begin(force, option) PROVE Mapped
    BY <1>1, Readers DEF Begin, Shown, Stored, LinkedItemLives, CoverCycleInv, Shapes,
       Records, Repos, KohaInv, Restored
  <1>2. CASE BeginWithoutSource
    BY <1>2, Readers DEF BeginWithoutSource, vars, Shown, Stored, LinkedItemLives
  <1>3. ASSUME NEW s \in Sources, GateQuietly(s) PROVE Mapped
    BY <1>3, Readers DEF GateQuietly, External, Shown, Stored, LinkedItemLives
  <1>4. ASSUME NEW s \in Sources, GateByMetadata(s) PROVE Mapped
    BY <1>4, Readers DEF GateByMetadata, External, Shown, Stored, LinkedItemLives
  <1>5. CASE Decide
    BY <1>5, Readers DEF Decide, External, Shown, Stored, LinkedItemLives
  <1>6. CASE NothingToDo
    BY <1>6, Readers DEF NothingToDo, External, Shown, Stored, LinkedItemLives
  <1>7. CASE RepairLinks
    <2>1. koha'.link = repo.primary /\ koha'.item = koha.item /\ repo' = repo
             /\ repo.primary # None
      BY <1>7 DEF RepairLinks, CoverCycleInv, Shapes, Records
    <2>2. repo.primary \in Stored
      BY <2>1 DEF CoverCycleInv, RepoInv, Has, Stored
    <2>3. /\ Shown' = (IF LinkedItemLives THEN repo.primary ELSE Shown)
          /\ Stored' = Stored /\ repo'.uploads = repo.uploads
      BY <2>1 DEF Shown, Stored, LinkedItemLives
    <2>4. QED
      BY <2>2, <2>3, Readers
  <1>8. CASE RebuildItem
    BY <1>8, Readers DEF RebuildItem, External, Shown, Stored, LinkedItemLives
  <1>9. CASE StartDownstream
    BY <1>9, Readers DEF StartDownstream, External, Shown, Stored, LinkedItemLives
  <1>10. CASE ReuseCover
    BY <1>10, Readers DEF ReuseCover, External, Shown, Stored, LinkedItemLives
  <1>11. CASE ResumeCover
    BY <1>11, Readers DEF ResumeCover, External, Shown, Stored, LinkedItemLives
  <1>12. CASE RenderCover
    BY <1>12, Readers DEF RenderCover, External, Shown, Stored, LinkedItemLives
  <1>13. CASE SaveCover
    BY <1>13, Readers DEF SaveCover, External, Shown, Stored, LinkedItemLives
  <1>14. CASE FetchFile
    BY <1>14, Readers DEF FetchFile, External, Shown, Stored, LinkedItemLives
  <1>15. CASE EnsureItem
    <2>1. CASE repo.item # None
      <3>1. repo' = repo /\ koha' = koha
        BY <1>15, <2>1 DEF EnsureItem
      <3>2. QED
        BY <3>1, Readers DEF Shown, Stored, LinkedItemLives
    <2>2. CASE repo.item = None
      <3>1. repo' = [repo EXCEPT !.item = repo.items + 1, !.items = repo.items + 1]
               /\ koha' = koha
        BY <1>15, <2>2 DEF EnsureItem
      <3>2. repo'.item = repo.items + 1 /\ repo'.bits = repo.bits /\ repo'.uploads = repo.uploads
               /\ repo.items \in Nat
        BY <3>1 DEF CoverCycleInv, Shapes, Repos
      <3>3. koha.item # repo.items + 1
        BY <3>2, NoneIsNoValue DEF CoverCycleInv, Bounds, KohaBounded, Opt
      <3>4. Shown' = Shown /\ Stored' = Stored
        BY <2>2, <3>1, <3>2, <3>3 DEF Shown, Stored, LinkedItemLives
      <3>5. QED
        BY <3>2, <3>4, Readers
    <2>3. QED
      BY <2>1, <2>2
  <1>16. CASE Upload
    <2> DEFINE new ==
                 [id |-> repo.uploads + 1, name |-> Ref("file"), content |-> cycle.srcs["file"].sha]
    <2>1. repo' = [repo EXCEPT !.uploads = repo.uploads + 1, !.bits = repo.bits \cup {new}]
             /\ koha' = koha
             /\ new.id = repo.uploads + 1
      BY <1>16 DEF Upload
    <2> HIDE DEF new
    <2>2. repo'.item = repo.item /\ repo'.bits = repo.bits \cup {new}
             /\ repo'.uploads = repo.uploads + 1
      BY <2>1 DEF CoverCycleInv, Shapes, Repos
    <2>3. Stored' = Stored \cup {repo.uploads + 1}
      BY <2>1, <2>2 DEF Stored
    <2>4. Shown' = Shown
      BY <2>1, <2>2 DEF Shown, LinkedItemLives
    <2>5. QED
      BY <2>2, <2>3, <2>4, Readers
  <1>17. CASE SetPrimary
    <2>1. repo'.item = repo.item /\ repo'.bits = repo.bits /\ repo'.uploads = repo.uploads
             /\ koha' = koha
      BY <1>17 DEF SetPrimary, CoverCycleInv, Shapes, Repos
    <2>2. QED
      BY <2>1, Readers DEF Shown, Stored, LinkedItemLives
  <1>18. CASE CheckpointResult
    BY <1>18, Readers DEF CheckpointResult, External, Shown, Stored, LinkedItemLives
  <1>19. CASE WriteKoha
    <2>1. CASE cycle.file_work
      <3>1. /\ work # None /\ work.result = cycle.result /\ cycle.result # None
            /\ koha'.item = cycle.result.item /\ koha'.link = cycle.result.bit /\ repo' = repo
        BY <1>19, <2>1 DEF WriteKoha, CoverCycleInv, CycleKnows, WriteInv, Shapes, Records
      <3>2. ResultHolds(cycle.result, work.srcs)
        BY <3>1 DEF CoverCycleInv, WorkInv
      <3>3. Stored' = Stored /\ repo'.uploads = repo.uploads
        BY <3>1 DEF Stored
      <3>4. CASE repo.item = None
        <4>1. Shown = None /\ Shown' = None
          BY <3>1, <3>4 DEF Shown, LinkedItemLives
        <4>2. QED
          BY <3>3, <4>1, Readers
      <3>5. CASE repo.item # None
        <4>1. cycle.result.bit \in Stored /\ Shown' = cycle.result.bit
          BY <3>1, <3>2, <3>5 DEF Shown, Stored, LinkedItemLives, ResultHolds
        <4>2. QED
          BY <3>3, <4>1, Readers
      <3>6. QED
        BY <3>4, <3>5
    <2>2. CASE ~cycle.file_work
      <3>1. koha'.item = koha.item /\ koha'.link = koha.link /\ repo' = repo
        BY <1>19, <2>2 DEF WriteKoha, CoverCycleInv, Shapes, Records
      <3>2. QED
        BY <3>1, Readers DEF Shown, Stored, LinkedItemLives
    <2>3. QED
      BY <2>1, <2>2
  <1>20. CASE ConfirmKoha
    BY <1>20, Readers DEF ConfirmKoha, External, Shown, Stored, LinkedItemLives
  <1>21. ASSUME NEW bit \in cycle.todo, DeleteOld(bit) PROVE Mapped
    <2>1. bit \in cycle.todo /\ repo'.item = repo.item
             /\ repo'.bits = {b \in repo.bits : b.id # bit}
             /\ repo'.uploads = repo.uploads /\ koha' = koha
      BY <1>21 DEF DeleteOld, CoverCycleInv, Shapes, Repos
    <2>2. /\ work # None /\ work.result = cycle.result /\ cycle.result # None
          /\ koha.link \in {None, cycle.result.bit} /\ bit \in cycle.result.old
      BY <1>21 DEF DeleteOld, CoverCycleInv, CycleKnows, WriteInv
    <2>3. ResultHolds(cycle.result, work.srcs)
      BY <2>2 DEF CoverCycleInv, WorkInv
    <2>4. bit # cycle.result.bit /\ bit # None
      BY <2>1, <2>2, <2>3, NoneIsNoValue DEF ResultHolds, CoverCycleInv, Shapes, Cycles
    <2>5. Stored' = Stored \ {bit} /\ Shown' = Shown /\ bit # Shown
      BY <2>1, <2>2, <2>4 DEF Stored, Shown, LinkedItemLives
    <2>6. CASE bit \in Stored
      <3>1. repo.item # None
        BY <2>6 DEF Stored, CoverCycleInv, RepoInv
      <3>2. cycle.result.bit \in Stored
        BY <2>3, <3>1 DEF ResultHolds, Stored
      <3>3. QED
        BY <2>1, <2>4, <2>5, <2>6, <3>2, Readers
    <2>7. CASE bit \notin Stored
      BY <2>1, <2>5, <2>7, Readers
    <2>8. QED
      BY <2>6, <2>7
  <1>22. CASE CompleteCycle
    BY <1>22, Readers DEF CompleteCycle, External, Shown, Stored, LinkedItemLives
  <1>23. CASE Refuse
    BY <1>23, Readers DEF Refuse, External, Shown, Stored, LinkedItemLives
  <1>24. CASE RemoveFromState
    BY <1>24, Readers DEF RemoveFromState, External, Shown, Stored, LinkedItemLives
  <1>25. CASE Stop
    BY <1>25, Readers DEF Stop, Shown, Stored, LinkedItemLives
  <1>26. ASSUME NEW s \in Sources, DriveFails(s) PROVE Mapped
    BY <1>26, Readers DEF DriveFails, Shown, Stored, LinkedItemLives
  <1>27. CASE RemoveFromKoha
    BY <1>27, Readers DEF RemoveFromKoha, Shown, Stored, LinkedItemLives, CoverCycleInv,
       Shapes, Records, Repos
  <1>28. CASE EditContent
    BY <1>28, Readers DEF EditContent, Edit, Shown, Stored, LinkedItemLives
  <1>29. CASE Relink
    <2>1. PICK s \in Sources : \E id \in Ids(s) \ {koha[s]} : koha' = [koha EXCEPT ![s] = id]
      BY <1>29 DEF Relink
    <2>2. PICK id \in Ids(s) : koha' = [koha EXCEPT ![s] = id]
      BY <2>1
    <2>3. koha'.item = koha.item /\ koha'.link = koha.link /\ koha'.asset = koha.asset
      BY <2>2 DEF CoverCycleInv, Shapes, Records, Sources
    <2>4. repo' = repo
      BY <1>29 DEF Relink
    <2>5. QED
      BY <2>3, <2>4, Readers DEF Shown, Stored, LinkedItemLives
  <1>30. CASE Unlink
    <2>1. PICK s \in Sources : koha' = [koha EXCEPT ![s] = None]
      BY <1>30 DEF Unlink
    <2>2. koha'.item = koha.item /\ koha'.link = koha.link /\ koha'.asset = koha.asset
      BY <2>1 DEF CoverCycleInv, Shapes, Records, Sources
    <2>3. repo' = repo
      BY <1>30 DEF Unlink
    <2>4. QED
      BY <2>2, <2>3, Readers DEF Shown, Stored, LinkedItemLives
  <1>31. CASE DropLinks
    <2>1. koha'.item = koha.item /\ koha'.link = None /\ repo' = repo
      BY <1>31 DEF DropLinks, CoverCycleInv, Shapes, Records
    <2>2. Shown' = None /\ Stored' = Stored
      BY <2>1 DEF Shown, Stored, LinkedItemLives
    <2>3. QED
      BY <2>1, <2>2, Readers
  <1>32. CASE DropItem
    <2>1. repo'.item = None /\ repo'.bits = {} /\ repo'.uploads = repo.uploads
      BY <1>32 DEF DropItem, CoverCycleInv, Shapes, Repos
    <2>2. Shown' = None /\ Stored' = {}
      BY <2>1 DEF Shown, Stored, LinkedItemLives
    <2>3. QED
      BY <2>1, <2>2, Readers
  <1>33. CASE UNCHANGED vars
    BY <1>33, Readers DEF vars, Shown, Stored, LinkedItemLives
  <1>34. QED
    BY <1>1, <1>2, <1>3, <1>4, <1>5, <1>6, <1>7, <1>8, <1>9, <1>10, <1>11, <1>12, <1>13, <1>14,
       <1>15, <1>16, <1>17, <1>18, <1>19, <1>20, <1>21, <1>22, <1>23, <1>24, <1>25, <1>26, <1>27,
       <1>28, <1>29, <1>30, <1>31, <1>32, <1>33
       DEF Next, Step

\* The cycle keeps the promise made to the readers of the PDF, whatever is
\* edited, interrupted or repeated.
THEOREM CycleReplaces == Spec => Replaces
  <1>1. Init => Replacement!Init
    BY Readers
  <1>2. CoverCycleInv /\ [Next]_vars => [Replacement!Next]_(Replacement!vars)
    BY MappedStep DEF Mapped
  <1>3. QED
    BY <1>1, <1>2, CoverCycleInductive, PTL DEF Spec, Replaces, Replacement!Spec

-----------------------------------------------------------------------------
(* What the steps of a cycle do, field by field.                             *)

\* The gates a source has passed, and the steps after its cover is saved.
Passed(s) == {"decide", "links", "start"} \cup (IF s = "file" THEN {"gate_cover"} ELSE {})
Saved     == Downstream \ {"reuse", "cover", "save"}

\* What a cycle decides before its downstream work, and the inputs of that work.
SameDecisions ==
  /\ cycle'.meta = cycle.meta /\ cycle'.old = cycle.old /\ cycle'.resumed = cycle.resumed
  /\ cycle'.gate = cycle.gate /\ cycle'.file_work = cycle.file_work
  /\ cycle'.cover_work = cycle.cover_work
SameInputsOfCycle == SameDecisions /\ cycle'.srcs = cycle.srcs

LEMMA BeginEffect ==
  ASSUME Shapes, NEW force \in BOOLEAN, NEW option \in Options, Begin(force, option)
  PROVE  /\ cycle.pc = "idle" /\ cycle'.pc = "gate_file" /\ cycle'.old = row'
         /\ \A s \in Sources : cycle'.meta[s] = koha[s] /\ koha'[s] = koha[s]
         /\ koha'.link = koha.link
         /\ row'.file = row.file /\ row'.cover = row.cover
         /\ row'.asset = row.asset /\ row'.item = row.item
         /\ row'.status = IF row.status = "absent" THEN "unfinished" ELSE row.status
         /\ UNCHANGED <<drive, work, repo>>
  <1>1. /\ cycle.pc = "idle" /\ cycle'.pc = "gate_file" /\ cycle'.old = row'
        /\ row' = Opened(row) /\ koha' = Restored
        /\ cycle'.meta = [file |-> koha.file, cover |-> koha.cover,
                          item |-> Restored.item, link |-> koha.link]
        /\ UNCHANGED <<drive, work, repo>>
    BY DEF Begin, Idle
  <1>2. /\ koha'.file = koha.file /\ koha'.cover = koha.cover /\ koha'.link = koha.link
        /\ row'.file = row.file /\ row'.cover = row.cover
        /\ row'.asset = row.asset /\ row'.item = row.item
        /\ row'.status = IF row.status = "absent" THEN "unfinished" ELSE row.status
    BY <1>1 DEF Opened, Restored, Shapes, Rows, Records
  <1>3. \A s \in Sources : cycle'.meta[s] = koha[s] /\ koha'[s] = koha[s]
    BY <1>1, <1>2 DEF Sources
  <1>4. QED
    BY <1>1, <1>2, <1>3

LEMMA GateEffect ==
  ASSUME Shapes, NEW s \in Sources, NEW action, NEW sha, NEW seen,
         cycle' = Gated(s, action, sha, seen)
  PROVE  /\ cycle'.pc = NextGate(s) /\ cycle'.meta = cycle.meta /\ cycle'.old = cycle.old
         /\ cycle'.resumed = cycle.resumed
         /\ cycle'.gate[s] = [action |-> action, sha |-> sha, seen |-> seen]
         /\ \A t \in Sources \ {s} : cycle'.gate[t] = cycle.gate[t]
  <1> DEFINE g == [action |-> action, sha |-> sha, seen |-> seen]
  <1>1. cycle \in Cycles
    BY DEF Shapes
  <1>2. cycle' = [cycle EXCEPT !.pc = NextGate(s), !.gate = [cycle.gate EXCEPT ![s] = g]]
    BY <1>1 DEF Gated, Cycles
  <1> HIDE DEF g
  <1>3. cycle'.gate = [cycle.gate EXCEPT ![s] = g]
    BY <1>1, <1>2 DEF Cycles
  <1>4. cycle'.gate[s] = g /\ \A t \in Sources \ {s} : cycle'.gate[t] = cycle.gate[t]
    BY <1>1, <1>3 DEF Cycles, Gates
  <1>5. QED
    BY <1>1, <1>2, <1>4 DEF Cycles, g

LEMMA GateQuietlyEffect ==
  ASSUME Shapes, NEW s \in Sources, GateQuietly(s)
  PROVE  /\ GateAt(s) /\ ~AsksDrive(s)
         /\ cycle'.pc = NextGate(s) /\ cycle'.meta = cycle.meta /\ cycle'.old = cycle.old
         /\ cycle'.resumed = cycle.resumed
         /\ cycle'.gate[s] =
              IF Ref(s) = None THEN [action |-> "none", sha |-> None, seen |-> None]
              ELSE IF Staged(s) THEN [action |-> "resume", sha |-> cycle.resumed.srcs[s].sha,
                                      seen |-> None]
              ELSE IF Confirmed(s) THEN [action |-> "noop", sha |-> None, seen |-> None]
              ELSE [action |-> "resume", sha |-> None, seen |-> None]
         /\ \A t \in Sources \ {s} : cycle'.gate[t] = cycle.gate[t]
         /\ UNCHANGED <<drive, koha, row, work, repo>>
  <1>1. GateAt(s) /\ ~AsksDrive(s) /\ UNCHANGED <<drive, koha, row, work, repo>>
    BY DEF GateQuietly, External
  <1>2. CASE Ref(s) = None
    BY <1>1, <1>2, GateEffect DEF GateQuietly
  <1>3. CASE Ref(s) # None /\ Staged(s)
    BY <1>1, <1>3, GateEffect DEF GateQuietly
  <1>4. CASE Ref(s) # None /\ ~Staged(s) /\ Confirmed(s)
    BY <1>1, <1>4, GateEffect DEF GateQuietly
  <1>5. CASE Ref(s) # None /\ ~Staged(s) /\ ~Confirmed(s)
    BY <1>1, <1>5, GateEffect DEF GateQuietly
  <1>6. QED
    BY <1>2, <1>3, <1>4, <1>5

\* What the comparison with the row leaves there.
LEMMA AskEffect ==
  ASSUME Shapes, NEW s \in Sources, Ref(s) # None, AskDrive(s)
  PROVE  /\ drive[Ref(s)] \in Contents(s) /\ drive[Ref(s)] # None
         /\ row'.asset = row.asset /\ row'.item = row.item
         /\ \A t \in Sources \ {s} : row'[t] = row[t]
         /\ SameContent(s) =>
              /\ row.status = "ok" /\ row'.status = "ok"
              /\ row[s].sha = drive[Ref(s)] /\ row[s].id # None
              /\ row'[s].id = Ref(s) /\ row'[s].sha = drive[Ref(s)]
         /\ ~SameContent(s) => row'.status = "unfinished" /\ row'[s] = row[s]
  <1>1. row \in Rows /\ row[s] \in Pair(s) /\ Ref(s) \in Ids(s)
    BY SourcesAndIds DEF Shapes, Rows, Cycles, Metas, Opt, Sources, Ref
  <1>2. /\ drive[Ref(s)] \in Contents(s) /\ row'.asset = row.asset /\ row'.item = row.item
        /\ \A t \in Sources \ {s} : row'[t] = row[t]
    BY AskFacts DEF Ref
  <1>3. drive[Ref(s)] # None
    BY <1>2, SourcesAndIds
  <1>4. ASSUME SameContent(s)
        PROVE  /\ row.status = "ok" /\ row'.status = "ok"
               /\ row[s].sha = drive[Ref(s)] /\ row[s].id # None
               /\ row'[s].id = Ref(s) /\ row'[s].sha = drive[Ref(s)]
    <2>1. row.status = "ok" /\ row[s].sha = drive[Ref(s)]
      BY <1>4 DEF SameContent
    <2>2. row[s].id # None
      BY <1>1, <1>3, <2>1, PairFacts
    <2>3. row[s] \in [id : Ids(s), sha : Contents(s)]
      BY <1>1, <2>2, PairFacts DEF Pair
    <2>4. row' = [row EXCEPT ![s].id = Ref(s)]
      BY <1>4 DEF AskDrive
    <2> DEFINE new == [row[s] EXCEPT !.id = Ref(s)]
    <2>5. new.id = Ref(s) /\ new.sha = row[s].sha
      BY <2>3
    <2>6. row' = [row EXCEPT ![s] = new]
      BY <2>4
    <2> HIDE DEF new
    <2>7. row'.status = row.status /\ row'[s] = new
      BY <1>1, <2>6 DEF Rows, Sources
    <2>8. QED
      BY <2>1, <2>2, <2>5, <2>7
  <1>5. ASSUME ~SameContent(s) PROVE row'.status = "unfinished" /\ row'[s] = row[s]
    BY <1>1, <1>5 DEF AskDrive, Rows, Sources
  <1>6. QED
    BY <1>2, <1>3, <1>4, <1>5

LEMMA GateByMetadataEffect ==
  ASSUME Shapes, NEW s \in Sources, GateByMetadata(s)
  PROVE  /\ GateAt(s) /\ AsksDrive(s) /\ AskDrive(s)
         /\ cycle'.pc = NextGate(s) /\ cycle'.meta = cycle.meta /\ cycle'.old = cycle.old
         /\ cycle'.resumed = cycle.resumed
         /\ cycle'.gate[s] = [action |-> Verdict(s, Forced(s)), sha |-> drive[Ref(s)],
                              seen |-> drive[Ref(s)]]
         /\ \A t \in Sources \ {s} : cycle'.gate[t] = cycle.gate[t]
         /\ UNCHANGED <<drive, koha, work, repo>>
  BY GateEffect DEF GateByMetadata, External

LEMMA DecideEffect ==
  ASSUME Shapes, Decide
  PROVE  /\ cycle.pc = "decide"
         /\ cycle'.pc = IF FileWork \/ CoverWork THEN "start" ELSE "links"
         /\ cycle'.file_work = FileWork /\ cycle'.cover_work = CoverWork
         /\ cycle'.meta = cycle.meta /\ cycle'.old = cycle.old
         /\ cycle'.resumed = cycle.resumed /\ cycle'.gate = cycle.gate
         /\ UNCHANGED <<drive, koha, row, work, repo>>
  BY DEF Decide, External, Shapes, Cycles

LEMMA RebuildEffect ==
  ASSUME Shapes, RebuildItem
  PROVE  /\ cycle.pc = "links" /\ cycle'.pc = "start"
         /\ Ref("file") # None /\ AskDrive("file")
         /\ cycle'.file_work = TRUE /\ cycle'.cover_work = cycle.cover_work
         /\ cycle'.meta = cycle.meta /\ cycle'.resumed = cycle.resumed
         /\ cycle'.old.status = cycle.old.status /\ cycle'.old.cover = cycle.old.cover
         /\ cycle'.old.asset = cycle.old.asset
         /\ cycle'.gate["file"] = [action |-> Verdict("file", TRUE), sha |-> drive[Ref("file")],
                                   seen |-> drive[Ref("file")]]
         /\ cycle'.gate["cover"] = cycle.gate["cover"]
         /\ UNCHANGED <<drive, koha, work, repo>>
  <1> DEFINE g   == [action |-> Verdict("file", TRUE), sha |-> drive[Ref("file")],
                     seen |-> drive[Ref("file")]]
             old == [cycle.old EXCEPT !.bit = None]
  <1>1. cycle \in Cycles /\ cycle.old \in Rows /\ cycle.gate \in Gates
    BY DEF Shapes, Cycles
  <1>2. /\ cycle.pc = "links" /\ Ref("file") # None /\ AskDrive("file")
        /\ UNCHANGED <<drive, koha, work, repo>>
    BY DEF RebuildItem, ItemGone, LinksLost, External
  <1>3. cycle' = [cycle EXCEPT !.pc = "start", !.file_work = TRUE, !.old = old,
                               !.gate = [cycle.gate EXCEPT !["file"] = g]]
    BY <1>1 DEF RebuildItem, Cycles
  <1>4. old.status = cycle.old.status /\ old.cover = cycle.old.cover /\ old.asset = cycle.old.asset
    BY <1>1 DEF Rows
  <1> HIDE DEF g, old
  <1>5. /\ cycle'.pc = "start" /\ cycle'.file_work = TRUE /\ cycle'.cover_work = cycle.cover_work
        /\ cycle'.meta = cycle.meta /\ cycle'.resumed = cycle.resumed /\ cycle'.old = old
        /\ cycle'.gate = [cycle.gate EXCEPT !["file"] = g]
    BY <1>1, <1>3 DEF Cycles
  <1>6. cycle'.gate["file"] = g /\ cycle'.gate["cover"] = cycle.gate["cover"]
    BY <1>1, <1>5 DEF Gates, Sources
  <1>7. QED
    BY <1>2, <1>4, <1>5, <1>6 DEF g

LEMMA StartEffect ==
  ASSUME Shapes, StartDownstream
  PROVE  /\ cycle.pc = "start" /\ SameDecisions
         /\ cycle'.pc = IF cycle.cover_work \/ cycle.resumed # None THEN "cover" ELSE "reuse"
         /\ cycle'.srcs = [s \in Sources |-> IF Ref(s) = None THEN NoSource
                                             ELSE [id |-> Ref(s), sha |-> SourceSha(s)]]
         /\ row'.status = "unfinished" /\ row'.file = row.file /\ row'.cover = row.cover
         /\ row'.asset = row.asset /\ row'.item = row.item
         /\ UNCHANGED <<drive, koha, work, repo>>
  <1> DEFINE srcs == [s \in Sources |-> IF Ref(s) = None THEN NoSource
                                        ELSE [id |-> Ref(s), sha |-> SourceSha(s)]]
             pc   == IF cycle.cover_work \/ cycle.resumed # None THEN "cover" ELSE "reuse"
  <1>1. /\ cycle.pc = "start" /\ UNCHANGED <<drive, koha, work, repo>>
        /\ row' = [row EXCEPT !.status = "unfinished"]
    BY DEF StartDownstream, External
  <1>2. cycle' = [cycle EXCEPT !.srcs = srcs, !.pc = pc]
    BY DEF StartDownstream
  <1> HIDE DEF srcs, pc
  <1>3. SameDecisions /\ cycle'.pc = pc /\ cycle'.srcs = srcs
    BY <1>2 DEF Shapes, Cycles, SameDecisions
  <1>4. /\ row'.status = "unfinished" /\ row'.file = row.file /\ row'.cover = row.cover
        /\ row'.asset = row.asset /\ row'.item = row.item
    BY <1>1 DEF Shapes, Rows
  <1>5. QED
    BY <1>1, <1>3, <1>4 DEF srcs, pc

LEMMA SaveEffect ==
  ASSUME Shapes, NEW asset, NEW result, SaveWork(asset, result)
  PROVE  /\ work' = Checkpoint(asset, result) /\ row'.asset = asset
         /\ row'.status = row.status /\ row'.file = row.file /\ row'.cover = row.cover
         /\ row'.item = row.item
         /\ work'.srcs = cycle.srcs /\ work'.file_work = cycle.file_work
         /\ work'.asset = asset /\ work'.result = result
  <1>1. work' = Checkpoint(asset, result) /\ row' = [row EXCEPT !.asset = asset]
    BY DEF SaveWork
  <1>2. /\ row'.asset = asset /\ row'.status = row.status /\ row'.file = row.file
        /\ row'.cover = row.cover /\ row'.item = row.item
    BY <1>1 DEF Shapes, Rows
  <1>3. QED
    BY <1>1, <1>2 DEF Checkpoint

LEMMA ReuseEffect ==
  ASSUME Shapes, ReuseCover
  PROVE  /\ cycle.pc = "reuse" /\ cycle'.pc = "cover" /\ SaveWork(cycle.old.asset, None)
         /\ cycle'.resumed = work' /\ cycle'.meta = cycle.meta /\ cycle'.srcs = cycle.srcs
         /\ cycle'.file_work = cycle.file_work
         /\ UNCHANGED <<drive, koha, repo>>
  <1>1. /\ cycle.pc = "reuse" /\ SaveWork(cycle.old.asset, None) /\ UNCHANGED <<drive, koha, repo>>
        /\ cycle' = [cycle EXCEPT !.pc = "cover", !.resumed = work']
    BY DEF ReuseCover, SaveWork, External
  <1>2. QED
    BY <1>1 DEF Shapes, Cycles

LEMMA ResumeEffect ==
  ASSUME Shapes, ResumeCover
  PROVE  /\ cycle.pc = "cover" /\ cycle.resumed # None /\ SameInputsOfCycle
         /\ cycle'.pc = (IF cycle.file_work /\ cycle.resumed.result = None
                         THEN "fetch" ELSE "koha")
         /\ cycle'.asset = cycle.resumed.asset
         /\ UNCHANGED <<drive, koha, row, work, repo>>
  BY DEF ResumeCover, AfterCover, External, Shapes, Cycles, SameInputsOfCycle, SameDecisions

LEMMA RenderEffect ==
  ASSUME Shapes, RenderCover
  PROVE  /\ cycle.pc = "cover" /\ cycle'.pc = "save" /\ cycle.resumed = None /\ SameInputsOfCycle
         /\ cycle'.asset = cycle.srcs[CoverSource].sha
         /\ UNCHANGED <<drive, koha, row, work, repo>>
  BY DEF RenderCover, External, Shapes, Cycles, SameInputsOfCycle, SameDecisions

LEMMA SaveCoverEffect ==
  ASSUME Shapes, SaveCover
  PROVE  /\ cycle.pc = "save" /\ cycle'.pc \in {"fetch", "koha"} /\ SameInputsOfCycle
         /\ SaveWork(cycle.asset, None) /\ cycle'.asset = cycle.asset
         /\ UNCHANGED <<drive, koha, repo>>
  BY DEF SaveCover, AfterCover, External, Shapes, Cycles, SameInputsOfCycle, SameDecisions

LEMMA CheckpointEffect ==
  ASSUME Shapes, CheckpointResult
  PROVE  /\ cycle.pc = "checkpoint" /\ cycle'.pc = "koha" /\ SameInputsOfCycle
         /\ SaveWork(cycle.asset, cycle.result) /\ cycle'.asset = cycle.asset
         /\ UNCHANGED <<drive, koha, repo>>
  BY DEF CheckpointResult, External, Shapes, Cycles, SameInputsOfCycle, SameDecisions

\* The steps that store nothing of their own in the state or in Koha.
DSpaceStep ==
  \/ FetchFile \/ EnsureItem \/ Upload \/ SetPrimary \/ ConfirmKoha
  \/ \E bit \in cycle.todo : DeleteOld(bit)

LEMMA DSpaceEffect ==
  ASSUME Shapes, DSpaceStep
  PROVE  /\ cycle.pc \in Saved /\ cycle'.pc \in Saved /\ SameInputsOfCycle
         /\ cycle'.pc \in {"koha", "readback", "cleanup"} =>
              cycle.pc \in {"koha", "readback", "cleanup"}
         /\ cycle'.asset = cycle.asset
         /\ UNCHANGED <<drive, koha, row, work>>
  <1> USE DEF Saved, Downstream, External, Shapes, Cycles, SameInputsOfCycle, SameDecisions
  <1>1. CASE FetchFile
    BY <1>1 DEF FetchFile
  <1>2. CASE EnsureItem
    BY <1>2 DEF EnsureItem
  <1>3. CASE Upload
    BY <1>3 DEF Upload
  <1>4. CASE SetPrimary
    BY <1>4 DEF SetPrimary
  <1>5. CASE ConfirmKoha
    BY <1>5 DEF ConfirmKoha
  <1>6. CASE \E bit \in cycle.todo : DeleteOld(bit)
    BY <1>6 DEF DeleteOld
  <1>7. QED
    BY <1>1, <1>2, <1>3, <1>4, <1>5, <1>6 DEF DSpaceStep

LEMMA WriteEffect ==
  ASSUME Shapes, CycleKnows, WriteKoha
  PROVE  /\ cycle.pc = "koha" /\ cycle'.pc = "readback" /\ SameInputsOfCycle
         /\ cycle'.asset = cycle.asset
         /\ koha'.file = koha.file /\ koha'.cover = koha.cover
         /\ ~cycle.file_work => koha'.link = koha.link
         /\ UNCHANGED <<drive, row, work, repo>>
  BY DEF WriteKoha, External, Shapes, Cycles, Records, SameInputsOfCycle, SameDecisions

LEMMA CompleteEffect ==
  ASSUME Shapes, CompleteCycle
  PROVE  /\ cycle.pc = "cleanup" /\ cycle.todo = {} /\ cycle'.pc = "idle"
         /\ row'.status = "ok" /\ row'.asset = cycle.asset
         /\ \A s \in Sources : row'[s] = Commit(s)
         /\ row'.item = IF cycle.result # None THEN cycle.result.item ELSE row.item
         /\ work' = None /\ UNCHANGED <<drive, koha, repo>>
  <1>1. /\ cycle.pc = "cleanup" /\ cycle.todo = {} /\ cycle'.pc = "idle"
        /\ work' = None /\ UNCHANGED <<drive, koha, repo>>
    BY DEF CompleteCycle, Idle, External
  <1>2. /\ row'.status = "ok" /\ row'.asset = cycle.asset
        /\ row'["file"] = Commit("file") /\ row'["cover"] = Commit("cover")
        /\ row'.item = IF cycle.result # None THEN cycle.result.item ELSE row.item
    BY DEF CompleteCycle, Shapes, Rows
  <1>3. QED
    BY <1>1, <1>2 DEF Sources

\* The steps after which no cycle is under way, but the one that completes it.
EndStep ==
  \/ NothingToDo \/ RepairLinks \/ Refuse \/ RemoveFromState \/ Stop
  \/ \E s \in Sources : DriveFails(s)

LEMMA EndEffect ==
  ASSUME Shapes, EndStep
  PROVE  /\ cycle'.pc = "idle"
         /\ row'.file = row.file /\ row'.item = row.item
         /\ row'.status \in {row.status, "unfinished"}
         /\ \/ row'.cover = row.cover /\ row'.asset = row.asset
            \/ row'.cover = NoSource /\ row'.asset = None
         /\ work' \in {work, None}
         /\ koha'.file = koha.file /\ koha'.cover = koha.cover
         /\ koha'.link \in {koha.link, repo.primary}
         /\ UNCHANGED <<drive, repo>>
  <1> USE DEF External, Shapes, Rows, Records, Idle
  <1>1. CASE NothingToDo
    BY <1>1 DEF NothingToDo
  <1>2. CASE RepairLinks
    BY <1>2 DEF RepairLinks
  <1>3. CASE Refuse
    BY <1>3 DEF Refuse
  <1>4. CASE RemoveFromState
    BY <1>4 DEF RemoveFromState
  <1>5. CASE Stop
    BY <1>5 DEF Stop
  <1>6. CASE \E s \in Sources : DriveFails(s)
    BY <1>6 DEF DriveFails
  <1>7. QED
    BY <1>1, <1>2, <1>3, <1>4, <1>5, <1>6 DEF EndStep

LEMMA RemoveFromKohaEffect ==
  ASSUME Shapes, RemoveFromKoha
  PROVE  /\ cycle.pc = "idle" /\ cycle'.pc = "removing" /\ row.status # "unfinished"
         /\ koha'.file = koha.file /\ koha'.link = koha.link
         /\ UNCHANGED <<drive, row, work, repo>>
  BY DEF RemoveFromKoha, Idle, Shapes, Records

\* What users do to Koha and to the Item.
UserStep == Relink \/ DropLinks \/ DropItem

LEMMA UserEffect ==
  ASSUME Shapes, UserStep
  PROVE  /\ \A s \in Sources : koha[s] # None => koha'[s] # None
         /\ koha'.link \in {koha.link, None}
         /\ repo' = repo \/ repo'.item = None
         /\ UNCHANGED <<drive, row, work, cycle>>
  <1>1. UNCHANGED <<drive, row, work, cycle>>
    BY DEF UserStep, Relink, DropLinks, DropItem, Edit
  <1>2. CASE Relink
    <2>1. PICK s \in Sources : \E id \in Ids(s) \ {koha[s]} : koha' = [koha EXCEPT ![s] = id]
      BY <1>2 DEF Relink
    <2>2. PICK id \in Ids(s) : koha' = [koha EXCEPT ![s] = id]
      BY <2>1
    <2>3. id # None
      BY SourcesAndIds
    <2>4. koha'.link = koha.link /\ \A t \in Sources : koha'[t] = IF t = s THEN id ELSE koha[t]
      BY <2>2 DEF Shapes, Records, Sources
    <2>5. QED
      BY <1>1, <1>2, <2>3, <2>4 DEF Relink
  <1>3. CASE DropLinks
    BY <1>1, <1>3 DEF DropLinks, Shapes, Records, Sources
  <1>4. CASE DropItem
    BY <1>1, <1>4 DEF DropItem, Shapes, Repos
  <1>5. QED
    BY <1>2, <1>3, <1>4 DEF UserStep

\* Every step is one of these.
LEMMA Steps ==
  ASSUME [Next]_vars
  PROVE  \/ \E force \in BOOLEAN, option \in Options : Begin(force, option)
         \/ \E s \in Sources : GateQuietly(s) \/ GateByMetadata(s)
         \/ Decide \/ RebuildItem \/ StartDownstream \/ ReuseCover \/ ResumeCover \/ RenderCover
         \/ SaveCover \/ CheckpointResult \/ DSpaceStep \/ WriteKoha \/ CompleteCycle
         \/ EndStep \/ RemoveFromKoha \/ UserStep \/ EditContent \/ Unlink
         \/ UNCHANGED vars
  BY DEF Next, Step, DSpaceStep, EndStep, UserStep, BeginWithoutSource

-----------------------------------------------------------------------------
(* What a cycle resumes.                                                     *)

\* A cycle that takes up a checkpoint works with the pairs of the checkpoint,
\* what it has done is in the checkpoint, and its row is unfinished meanwhile.
ResumeInv ==
  /\ cycle.pc = "gate_file" => row = cycle.old
  /\ cycle.pc \in {"links", "reuse", "save"} => cycle.resumed = None
  /\ \A s \in Sources :
       cycle.pc \in Passed(s) /\ cycle.resumed # None /\ Ref(s) # None =>
         cycle.gate[s].sha = cycle.resumed.srcs[s].sha
  /\ cycle.pc \in Downstream => row.status = "unfinished"
  /\ cycle.pc = "cover" /\ cycle.resumed # None => cycle.srcs = cycle.resumed.srcs
  /\ cycle.pc \in Saved => work # None /\ work.srcs = cycle.srcs

\* What a cycle saves is a checkpoint.
LEMMA CheckpointIsWork ==
  ASSUME Shapes, CycleKnows, cycle.pc \in Downstream, NEW asset \in Opt(Assets),
         NEW result \in Opt(Results)
  PROVE  Checkpoint(asset, result) # None
  <1>1. Checkpoint(asset, result) \in Checkpoints
    BY DEF Checkpoint, Checkpoints, Shapes, Cycles, CycleKnows, InputInv, Downstream
  <1>2. QED
    BY <1>1, CheckpointsFacts

\* The pair a checkpoint holds for a source the record names.
LEMMA ResumedPair ==
  ASSUME CoverCycleInv, cycle.pc \in Gating \cup {"start"}, cycle.resumed # None, NEW s \in Sources
  PROVE  /\ work = cycle.resumed /\ cycle.resumed.srcs \in Pairs
         /\ Ref(s) = None => cycle.resumed.srcs[s] = NoSource
         /\ Ref(s) # None =>
              /\ cycle.resumed.srcs[s] = [id |-> Ref(s), sha |-> cycle.resumed.srcs[s].sha]
              /\ cycle.resumed.srcs[s].sha \in Contents(s)
              /\ cycle.resumed.srcs[s].sha # None
  <1>1. work = cycle.resumed /\ cycle.resumed.srcs[s].id = Ref(s)
    BY DEF CoverCycleInv, CycleKnows, InputInv, Ref
  <1>2. cycle.resumed \in Checkpoints
    BY DEF CoverCycleInv, Shapes, Cycles, Opt
  <1>3. cycle.resumed.srcs \in Pairs /\ cycle.resumed.srcs[s] \in Pair(s)
    BY <1>2, PairsFacts DEF Checkpoints
  <1>4. Ref(s) = None => cycle.resumed.srcs[s] = NoSource
    BY <1>1, <1>3, PairFacts
  <1>5. ASSUME Ref(s) # None
        PROVE  /\ cycle.resumed.srcs[s] = [id |-> Ref(s), sha |-> cycle.resumed.srcs[s].sha]
               /\ cycle.resumed.srcs[s].sha \in Contents(s)
               /\ cycle.resumed.srcs[s].sha # None
    <2>1. cycle.resumed.srcs[s] # NoSource
      BY <1>1, <1>5, PairFacts
    <2>2. cycle.resumed.srcs[s] \in [id : Ids(s), sha : Contents(s)]
      BY <1>3, <2>1 DEF Pair
    <2>3. cycle.resumed.srcs[s].sha \in Contents(s)
      BY <2>2
    <2>4. cycle.resumed.srcs[s] = [id |-> Ref(s), sha |-> cycle.resumed.srcs[s].sha]
      BY <1>1, <2>2
    <2>5. QED
      BY <2>3, <2>4, SourcesAndIds
  <1>6. QED
    BY <1>1, <1>3, <1>4, <1>5

\* Where a gate stands and leads to.
LEMMA GatePlaces ==
  ASSUME NEW s \in Sources, GateAt(s)
  PROVE  /\ s = "file" => cycle.pc = "gate_file" /\ NextGate(s) = "gate_cover"
         /\ s = "cover" => cycle.pc = "gate_cover" /\ NextGate(s) = "decide"
         /\ s \in {"file", "cover"}
         /\ cycle.pc \in Gating /\ NextGate(s) \in {"gate_cover", "decide"}
         /\ NextGate(s) \in Passed(s)
         /\ \A t \in Sources : NextGate(s) \in Passed(t) /\ t # s => cycle.pc \in Passed(t)
  BY DEF GateAt, NextGate, Passed, Gating, Sources

LEMMA ResumeInvStep == CoverCycleInv /\ ResumeInv /\ [Next]_vars => ResumeInv'
  <1> SUFFICES ASSUME CoverCycleInv, ResumeInv, [Next]_vars PROVE ResumeInv'
    OBVIOUS
  <1>0. Shapes /\ CycleKnows /\ cycle.resumed \in Opt(Checkpoints)
    BY DEF CoverCycleInv, Shapes, Cycles
  <1>1. ASSUME NEW force \in BOOLEAN, NEW option \in Options, Begin(force, option)
        PROVE  ResumeInv'
    <2>1. cycle'.pc = "gate_file" /\ row' = cycle'.old
      BY <1>0, <1>1, BeginEffect
    <2>2. QED
      BY <2>1 DEF ResumeInv, Passed, Saved, Downstream
  <1>2. ASSUME NEW s \in Sources, GateQuietly(s) PROVE ResumeInv'
    <2>1. /\ GateAt(s) /\ cycle'.pc = NextGate(s) /\ cycle'.meta = cycle.meta
          /\ cycle'.resumed = cycle.resumed
          /\ \A t \in Sources \ {s} : cycle'.gate[t] = cycle.gate[t]
          /\ Ref(s) # None /\ Staged(s) =>
               cycle'.gate[s] = [action |-> "resume", sha |-> cycle.resumed.srcs[s].sha,
                                 seen |-> None]
      BY <1>0, <1>2, GateQuietlyEffect
    <2>2. cycle'.resumed # None /\ Ref(s)' # None =>
             cycle'.gate[s].sha = cycle'.resumed.srcs[s].sha
      BY <2>1 DEF Staged, Ref
    <2>3. \A t \in Sources \ {s} : cycle'.pc \in Passed(t) => cycle.pc \in Passed(t)
      BY <2>1, GatePlaces
    <2>4. QED
      BY <2>1, <2>2, <2>3, GatePlaces DEF ResumeInv, Ref, Passed, Saved, Downstream
  <1>3. ASSUME NEW s \in Sources, GateByMetadata(s) PROVE ResumeInv'
    <2>1. /\ GateAt(s) /\ cycle'.pc = NextGate(s) /\ cycle'.meta = cycle.meta
          /\ cycle'.resumed = cycle.resumed /\ AsksDrive(s)
          /\ \A t \in Sources \ {s} : cycle'.gate[t] = cycle.gate[t]
      BY <1>0, <1>3, GateByMetadataEffect
    <2>2. cycle'.resumed = None
      BY <2>1 DEF AsksDrive, Staged
    <2>3. QED
      BY <2>1, <2>2, GatePlaces DEF ResumeInv, Saved, Downstream
  <1>4. CASE Decide
    BY <1>0, <1>4, DecideEffect DEF ResumeInv, Passed, Ref, Saved, Downstream, CoverWork, Sources
  <1>5. CASE RebuildItem
    BY <1>0, <1>5, RebuildEffect DEF ResumeInv, Passed, Ref, Saved, Downstream
  <1>6. CASE StartDownstream
    <2>1. /\ cycle.pc = "start" /\ cycle'.meta = cycle.meta /\ cycle'.resumed = cycle.resumed
          /\ cycle'.pc = IF cycle.cover_work \/ cycle.resumed # None THEN "cover" ELSE "reuse"
          /\ cycle'.srcs = [s \in Sources |-> IF Ref(s) = None THEN NoSource
                                              ELSE [id |-> Ref(s), sha |-> SourceSha(s)]]
          /\ row'.status = "unfinished"
      BY <1>0, <1>6, StartEffect DEF SameDecisions
    <2>2. ASSUME cycle.resumed # None PROVE cycle'.srcs = cycle.resumed.srcs
      <3>1. cycle.resumed.srcs \in [Sources -> SourcePair]
        BY <2>1, <2>2, ResumedPair DEF Pairs, SourcePairs, Sources
      <3>2. ASSUME NEW s \in Sources PROVE cycle'.srcs[s] = cycle.resumed.srcs[s]
        <4>1. CASE Ref(s) = None
          BY <2>1, <2>2, <4>1, ResumedPair
        <4>2. CASE Ref(s) # None
          <5>1. cycle.gate[s].sha = cycle.resumed.srcs[s].sha
            BY <2>1, <2>2, <4>2 DEF ResumeInv, Passed
          <5>2. SourceSha(s) = cycle.resumed.srcs[s].sha
            BY <2>1, <2>2, <4>2, <5>1, ResumedPair DEF SourceSha
          <5>3. QED
            BY <2>1, <2>2, <4>2, <5>2, ResumedPair
        <4>3. QED
          BY <4>1, <4>2
      <3>3. cycle'.srcs = [s \in Sources |-> cycle'.srcs[s]]
        BY <2>1
      <3>4. cycle.resumed.srcs = [s \in Sources |-> cycle.resumed.srcs[s]]
        BY <3>1
      <3>5. QED
        BY <3>2, <3>3, <3>4, Zenon
    <2>3. QED
      BY <2>1, <2>2 DEF ResumeInv, Passed, Saved, Downstream
  <1>7. CASE ReuseCover
    <2>1. SaveWork(cycle.old.asset, None) /\ cycle'.pc = "cover" /\ cycle.pc = "reuse"
             /\ cycle'.resumed = work' /\ cycle'.srcs = cycle.srcs
      BY <1>0, <1>7, ReuseEffect
    <2>2. work'.srcs = cycle.srcs /\ row'.status = row.status
      BY <1>0, <2>1, SaveEffect
    <2>3. QED
      BY <2>1, <2>2 DEF ResumeInv, Passed, Saved, Downstream
  <1>8. CASE ResumeCover
    <2>1. work = cycle.resumed
      BY <1>0, <1>8 DEF ResumeCover, CycleKnows, InputInv
    <2>2. QED
      BY <1>0, <1>8, <2>1, ResumeEffect
         DEF ResumeInv, Passed, Saved, Downstream, SameInputsOfCycle, SameDecisions
  <1>9. CASE RenderCover
    BY <1>0, <1>9, RenderEffect
       DEF ResumeInv, Passed, Saved, Downstream, SameInputsOfCycle, SameDecisions
  <1>10. CASE SaveCover
    <2>1. /\ cycle.pc = "save" /\ cycle'.pc \in {"fetch", "koha"} /\ SameInputsOfCycle
          /\ SaveWork(cycle.asset, None)
      BY <1>0, <1>10, SaveCoverEffect
    <2>2. work' = Checkpoint(cycle.asset, None) /\ work'.srcs = cycle.srcs
             /\ row'.status = row.status
      BY <1>0, <2>1, SaveEffect
    <2>3. cycle.asset \in Opt(Assets) /\ None \in Opt(Results)
      BY <1>0 DEF Shapes, Cycles, Opt
    <2>4. work' # None
      BY <1>0, <2>1, <2>2, <2>3, CheckpointIsWork DEF Downstream
    <2>5. QED
      BY <2>1, <2>2, <2>4 DEF ResumeInv, Passed, Saved, Downstream, SameInputsOfCycle, SameDecisions
  <1>11. CASE CheckpointResult
    <2>1. /\ cycle.pc = "checkpoint" /\ cycle'.pc = "koha" /\ SameInputsOfCycle
          /\ SaveWork(cycle.asset, cycle.result)
      BY <1>0, <1>11, CheckpointEffect
    <2>2. work' = Checkpoint(cycle.asset, cycle.result) /\ work'.srcs = cycle.srcs
             /\ row'.status = row.status
      BY <1>0, <2>1, SaveEffect
    <2>3. cycle.asset \in Opt(Assets) /\ cycle.result \in Opt(Results)
      BY <1>0 DEF Shapes, Cycles, Opt
    <2>4. work' # None
      BY <1>0, <2>1, <2>2, <2>3, CheckpointIsWork DEF Downstream
    <2>5. QED
      BY <2>1, <2>2, <2>4 DEF ResumeInv, Passed, Saved, Downstream, SameInputsOfCycle, SameDecisions
  <1>12. CASE DSpaceStep
    BY <1>0, <1>12, DSpaceEffect
       DEF ResumeInv, Passed, Saved, Downstream, SameInputsOfCycle, SameDecisions
  <1>13. CASE WriteKoha
    BY <1>0, <1>13, WriteEffect
       DEF ResumeInv, Passed, Saved, Downstream, SameInputsOfCycle, SameDecisions
  <1>14. CASE CompleteCycle
    BY <1>0, <1>14, CompleteEffect DEF ResumeInv, Passed, Saved, Downstream
  <1>15. CASE EndStep
    BY <1>0, <1>15, EndEffect DEF ResumeInv, Passed, Saved, Downstream
  <1>16. CASE RemoveFromKoha
    BY <1>0, <1>16, RemoveFromKohaEffect DEF ResumeInv, Passed, Saved, Downstream
  <1>17. CASE UserStep
    BY <1>0, <1>17, UserEffect DEF ResumeInv, Ref
  <1>18. CASE EditContent \/ Unlink
    BY <1>18 DEF EditContent, Unlink, Edit, ResumeInv, Ref
  <1>19. CASE UNCHANGED vars
    BY <1>19 DEF vars, ResumeInv, Ref
  <1>20. QED
    BY <1>1, <1>2, <1>3, <1>4, <1>5, <1>6, <1>7, <1>8, <1>9, <1>10, <1>11, <1>12, <1>13, <1>14,
       <1>15, <1>16, <1>17, <1>18, <1>19, Steps

\* A cycle and the checkpoint it resumes agree.
THEOREM ResumesCheckpoint == Spec => []ResumeInv
  <1>1. Init => ResumeInv
    BY IdleFacts DEF Init, ResumeInv, Passed, Saved, Downstream
  <1>2. CoverCycleInv /\ ResumeInv /\ [Next]_vars => ResumeInv'
    BY ResumeInvStep
  <1>3. QED
    BY <1>1, <1>2, CoverCycleInductive, PTL DEF Spec

-----------------------------------------------------------------------------
(* The pairs of id and SHA, as long as files keep their content.             *)

TrueOfDrive(p) == p.id # None => p.sha = drive[p.id]

\* The row, the checkpoint and the cycle hold pairs that are true of Drive, and
\* so will the pair of a source that has passed its gate.
PairsInv ==
  /\ \A s \in Sources : TrueOfDrive(row[s])
  /\ work # None => \A s \in Sources : TrueOfDrive(work.srcs[s])
  /\ cycle.pc \in Downstream => \A s \in Sources : TrueOfDrive(cycle.srcs[s])
  /\ \A s \in Sources : cycle.pc \in Passed(s) /\ Ref(s) # None => SourceSha(s) = drive[Ref(s)]

\* What passes a gate without a question to Drive.
LEMMA QuietPair ==
  ASSUME CoverCycleInv, NEW s \in Sources, GateQuietly(s), Ref(s) # None,
         \A t \in Sources : TrueOfDrive(row[t]),
         work # None => \A t \in Sources : TrueOfDrive(work.srcs[t])
  PROVE  SourceSha(s)' = drive[Ref(s)]
  <1>1. Shapes /\ GateInv
    BY DEF CoverCycleInv, CycleKnows
  <1>2. GateAt(s) /\ ~AsksDrive(s) /\ row' = row
           /\ cycle'.gate[s] =
                IF Staged(s) THEN [action |-> "resume", sha |-> cycle.resumed.srcs[s].sha,
                                   seen |-> None]
                ELSE IF Confirmed(s) THEN [action |-> "noop", sha |-> None, seen |-> None]
                ELSE [action |-> "resume", sha |-> None, seen |-> None]
    BY <1>1, GateQuietlyEffect
  <1>3. CASE Staged(s)
    <2>1. cycle'.gate[s].sha = cycle.resumed.srcs[s].sha
      BY <1>2, <1>3
    <2>2. /\ work = cycle.resumed /\ work # None /\ cycle.resumed.srcs[s].sha # None
          /\ cycle.resumed.srcs[s] = [id |-> Ref(s), sha |-> cycle.resumed.srcs[s].sha]
      BY <1>2, <1>3, ResumedPair, GatePlaces DEF Staged
    <2>3. cycle.resumed.srcs[s].id = Ref(s) /\ TrueOfDrive(cycle.resumed.srcs[s])
      BY <2>2
    <2>4. QED
      BY <2>1, <2>2, <2>3 DEF SourceSha, TrueOfDrive
  <1>4. CASE ~Staged(s)
    <2>1. cycle'.gate[s].sha = None
      BY <1>2, <1>4
    <2>2. Confirmed(s) \/ Resumable(s)
      BY <1>2, <1>4 DEF AsksDrive
    <2>3. row[s].id = Ref(s)
      BY <1>1, <1>2, <2>2, GatePlaces DEF Confirmed, Resumable, GateInv
    <2>4. QED
      BY <1>2, <2>1, <2>3 DEF SourceSha, TrueOfDrive
  <1>5. QED
    BY <1>3, <1>4

LEMMA PairsInvStep ==
  CoverCycleInv /\ ResumeInv /\ PairsInv /\ [Next]_vars /\ [~EditContent]_vars => PairsInv'
  <1> SUFFICES ASSUME CoverCycleInv, ResumeInv, PairsInv, [Next]_vars, [~EditContent]_vars
               PROVE  PairsInv'
    OBVIOUS
  <1>0. Shapes /\ CycleKnows /\ row \in Rows
    BY DEF CoverCycleInv, Shapes
  <1>19. CASE UNCHANGED vars
    BY <1>19 DEF vars, PairsInv, Ref, SourceSha, TrueOfDrive
  <1>1. ASSUME NEW force \in BOOLEAN, NEW option \in Options, Begin(force, option)
        PROVE  PairsInv'
    <2>1. /\ cycle'.pc = "gate_file" /\ UNCHANGED <<drive, work>>
          /\ row'["file"] = row["file"] /\ row'["cover"] = row["cover"]
      BY <1>0, <1>1, BeginEffect
    <2>2. QED
      BY <2>1 DEF PairsInv, TrueOfDrive, Passed, Downstream, Sources
  <1>2. ASSUME NEW s \in Sources, GateQuietly(s) PROVE PairsInv'
    <2>1. /\ GateAt(s) /\ cycle'.pc = NextGate(s) /\ cycle'.meta = cycle.meta
          /\ \A t \in Sources \ {s} : cycle'.gate[t] = cycle.gate[t]
          /\ UNCHANGED <<drive, row, work>>
      BY <1>0, <1>2, GateQuietlyEffect
    <2>2. Ref(s) # None => SourceSha(s)' = drive[Ref(s)]
      BY <1>2, QuietPair DEF PairsInv
    <2>3. \A t \in Sources : Ref(t)' = Ref(t)
      BY <2>1 DEF Ref
    <2>4. \A t \in Sources \ {s} : SourceSha(t)' = SourceSha(t)
      BY <2>1 DEF SourceSha
    <2>5. cycle'.pc \notin Downstream
      BY <2>1, GatePlaces DEF Downstream
    <2>6. \A t \in Sources : cycle'.pc \in Passed(t) /\ Ref(t)' # None =>
             SourceSha(t)' = drive'[Ref(t)']
      BY <2>1, <2>2, <2>3, <2>4, GatePlaces DEF PairsInv
    <2>7. QED
      BY <2>1, <2>5, <2>6 DEF PairsInv, TrueOfDrive
  <1>3. ASSUME NEW s \in Sources, GateByMetadata(s) PROVE PairsInv'
    <2>1. /\ GateAt(s) /\ AsksDrive(s) /\ AskDrive(s)
          /\ cycle'.pc = NextGate(s) /\ cycle'.meta = cycle.meta
          /\ \A t \in Sources \ {s} : cycle'.gate[t] = cycle.gate[t]
          /\ cycle'.gate[s] = [action |-> Verdict(s, Forced(s)), sha |-> drive[Ref(s)],
                               seen |-> drive[Ref(s)]]
          /\ UNCHANGED <<drive, work>>
      BY <1>0, <1>3, GateByMetadataEffect
    <2>2. Ref(s) # None
      BY <2>1 DEF AsksDrive
    <2>3. /\ drive[Ref(s)] # None
          /\ \A t \in Sources \ {s} : row'[t] = row[t]
          /\ SameContent(s) => row'[s].id = Ref(s) /\ row'[s].sha = drive[Ref(s)]
          /\ ~SameContent(s) => row'[s] = row[s]
      BY <1>0, <2>1, <2>2, AskEffect
    <2>4. \A t \in Sources : TrueOfDrive(row[t])'
      BY <2>1, <2>3 DEF PairsInv, TrueOfDrive
    <2>5. cycle'.gate[s].sha = drive[Ref(s)]
      BY <2>1
    <2>6. \A t \in Sources : Ref(t)' = Ref(t)
      BY <2>1 DEF Ref
    <2>7. /\ SourceSha(s)' = drive[Ref(s)]
          /\ \A t \in Sources \ {s} : SourceSha(t)' = SourceSha(t)
      BY <2>1, <2>3, <2>5 DEF SourceSha
    <2>8. \A t \in Sources : cycle'.pc \in Passed(t) /\ Ref(t)' # None =>
             SourceSha(t)' = drive'[Ref(t)']
      BY <2>1, <2>6, <2>7, GatePlaces DEF PairsInv
    <2>9. cycle'.pc \notin Downstream
      BY <2>1, GatePlaces DEF Downstream
    <2>10. QED
      BY <2>1, <2>4, <2>8, <2>9 DEF PairsInv, TrueOfDrive
  <1>4. CASE Decide
    <2>1. /\ cycle.pc = "decide" /\ cycle'.pc \in {"start", "links"}
          /\ cycle'.meta = cycle.meta /\ cycle'.gate = cycle.gate
          /\ UNCHANGED <<drive, row, work>>
      BY <1>0, <1>4, DecideEffect
    <2>2. QED
      BY <2>1 DEF PairsInv, TrueOfDrive, Passed, Downstream, Ref, SourceSha
  <1>5. CASE RebuildItem
    <2>1. /\ cycle.pc = "links" /\ cycle'.pc = "start" /\ Ref("file") # None /\ AskDrive("file")
          /\ cycle'.meta = cycle.meta /\ cycle'.gate["cover"] = cycle.gate["cover"]
          /\ cycle'.gate["file"] = [action |-> Verdict("file", TRUE), sha |-> drive[Ref("file")],
                                    seen |-> drive[Ref("file")]]
          /\ UNCHANGED <<drive, work>>
      BY <1>0, <1>5, RebuildEffect
    <2>2. /\ drive[Ref("file")] # None /\ row'["cover"] = row["cover"]
          /\ SameContent("file") =>
               row'["file"].id = Ref("file") /\ row'["file"].sha = drive[Ref("file")]
          /\ ~SameContent("file") => row'["file"] = row["file"]
      BY <1>0, <2>1, AskEffect DEF Sources
    <2>3. \A t \in Sources : TrueOfDrive(row[t])'
      BY <2>1, <2>2 DEF PairsInv, TrueOfDrive, Sources
    <2>4. cycle'.gate["file"].sha = drive[Ref("file")]
      BY <2>1
    <2>5. \A t \in Sources : Ref(t)' = Ref(t)
      BY <2>1 DEF Ref
    <2>6. SourceSha("file")' = drive[Ref("file")] /\ SourceSha("cover")' = SourceSha("cover")
      BY <2>1, <2>2, <2>4 DEF SourceSha
    <2>7. \A t \in Sources : Ref(t)' # None => SourceSha(t)' = drive'[Ref(t)']
      BY <2>1, <2>5, <2>6 DEF PairsInv, Sources, Passed
    <2>8. QED
      BY <2>1, <2>3, <2>7 DEF PairsInv, TrueOfDrive, Downstream
  <1>6. CASE StartDownstream
    <2>1. /\ cycle.pc = "start" /\ cycle'.pc \in {"cover", "reuse"}
          /\ cycle'.srcs = [s \in Sources |-> IF Ref(s) = None THEN NoSource
                                              ELSE [id |-> Ref(s), sha |-> SourceSha(s)]]
          /\ row'["file"] = row["file"] /\ row'["cover"] = row["cover"]
          /\ UNCHANGED <<drive, work>>
      BY <1>0, <1>6, StartEffect
    <2>2. ASSUME NEW s \in Sources PROVE TrueOfDrive(cycle'.srcs[s])
      BY <2>1, PairFacts DEF PairsInv, TrueOfDrive, Passed
    <2>3. QED
      BY <2>1, <2>2 DEF PairsInv, TrueOfDrive, Passed, Sources
  <1>7. CASE ReuseCover \/ SaveCover \/ CheckpointResult
    <2>1. /\ cycle.pc \in Downstream /\ cycle'.pc \in Downstream /\ cycle'.srcs = cycle.srcs
          /\ UNCHANGED drive
          /\ \E asset, result : SaveWork(asset, result)
      BY <1>0, <1>7, ReuseEffect, SaveCoverEffect, CheckpointEffect
         DEF Downstream, SameInputsOfCycle
    <2>2. work'.srcs = cycle.srcs /\ row'["file"] = row["file"] /\ row'["cover"] = row["cover"]
      BY <1>0, <2>1, SaveEffect
    <2>3. QED
      BY <2>1, <2>2 DEF PairsInv, TrueOfDrive, Passed, Downstream, Sources
  <1>8. CASE ResumeCover \/ RenderCover \/ DSpaceStep \/ WriteKoha
    <2>1. /\ cycle.pc \in Downstream /\ cycle'.pc \in Downstream /\ cycle'.srcs = cycle.srcs
          /\ UNCHANGED <<drive, row, work>>
      BY <1>0, <1>8, ResumeEffect, RenderEffect, DSpaceEffect, WriteEffect
         DEF Downstream, Saved, SameInputsOfCycle
    <2>2. QED
      BY <2>1 DEF PairsInv, TrueOfDrive, Passed, Downstream
  <1>9. CASE CompleteCycle
    <2>1. /\ cycle.pc = "cleanup" /\ cycle'.pc = "idle" /\ work' = None /\ UNCHANGED drive
          /\ \A s \in Sources : row'[s] = Commit(s)
      BY <1>0, <1>9, CompleteEffect
    <2>2. \A s \in Sources : TrueOfDrive(row[s])'
      BY <2>1 DEF PairsInv, TrueOfDrive, Commit, Downstream
    <2>3. QED
      BY <2>1, <2>2 DEF PairsInv, Passed, Downstream
  <1>10. CASE EndStep
    <2>1. /\ cycle'.pc = "idle" /\ row'["file"] = row["file"]
          /\ row'["cover"] \in {row["cover"], NoSource}
          /\ work' \in {work, None} /\ UNCHANGED drive
      BY <1>0, <1>10, EndEffect
    <2>2. \A s \in Sources : TrueOfDrive(row[s])'
      BY <2>1, PairFacts DEF PairsInv, TrueOfDrive, Sources
    <2>3. QED
      BY <2>1, <2>2 DEF PairsInv, TrueOfDrive, Passed, Downstream
  <1>11. CASE RemoveFromKoha
    BY <1>0, <1>11, RemoveFromKohaEffect DEF PairsInv, TrueOfDrive, Passed, Downstream
  <1>12. CASE UserStep
    BY <1>0, <1>12, UserEffect DEF PairsInv, TrueOfDrive, Ref, SourceSha
  <1>13. CASE Unlink
    BY <1>13 DEF Unlink, Edit, PairsInv, TrueOfDrive, Ref, SourceSha
  <1>14. CASE EditContent
    BY <1>14, <1>19
  <1>15. QED
    BY <1>1, <1>2, <1>3, <1>4, <1>5, <1>6, <1>7, <1>8, <1>9, <1>10, <1>11, <1>12, <1>13, <1>14,
       <1>19, Steps

\* As long as no file on Drive gets other content, every pair of id and SHA that
\* a gate or a cycle has committed to the row is true of Drive.
THEOREM CommittedPairs == Spec /\ [][~EditContent]_vars => []CommittedPairsAreTrue
  <1>1. Init => PairsInv
    <2> SUFFICES ASSUME Init PROVE PairsInv
      OBVIOUS
    <2>1. row["file"] = NoSource /\ row["cover"] = NoSource /\ work = None /\ cycle.pc = "idle"
      BY IdleFacts DEF Init, AbsentRow
    <2>2. QED
      BY <2>1, PairFacts DEF PairsInv, TrueOfDrive, Passed, Downstream, Sources
  <1>2. CoverCycleInv /\ ResumeInv /\ PairsInv /\ [Next]_vars /\ [~EditContent]_vars => PairsInv'
    BY PairsInvStep
  <1>3. PairsInv => CommittedPairsAreTrue
    BY DEF PairsInv, TrueOfDrive, CommittedPairsAreTrue
  <1>4. QED
    BY <1>1, <1>2, <1>3, CoverCycleInductive, ResumesCheckpoint, PTL DEF Spec

-----------------------------------------------------------------------------
(* The cover that is shown, as long as 956 is not emptied.                   *)

Cycling == cycle.pc \notin {"idle", "removing"}

\* The record names a cover for as long as the row confirms one; only between
\* the two halves of a removal it does not.
CoverKept ==
  /\ row.status = "absent" => row.cover.id = None
  /\ cycle.pc = "removing" => row.status # "unfinished"
  /\ cycle.pc # "removing" => (row.cover.id # None => koha.cover # None)
  /\ Cycling /\ Ref("cover") # None => koha.cover # None
  /\ Cycling /\ Ref("cover") = None => row.cover.id = None

Shows(r) == r.status = "ok" /\ r.cover.id # None /\ r.asset # None => r.asset = r.cover.sha

\* A confirmed row, a checkpoint and a cycle that has its cover have the asset
\* that was rendered from the cover they name; a cycle that reuses the confirmed
\* asset has found that its cover is the confirmed one.
CoverInv ==
  /\ Shows(row)
  /\ cycle.pc \in Gating \cup {"start", "reuse"} =>
       Shows(cycle.old) /\ row.asset = cycle.old.asset
  /\ work # None /\ work.srcs["cover"].id # None => work.asset = work.srcs["cover"].sha
  /\ cycle.pc \in Passed("cover") /\ Ref("cover") # None /\ cycle.resumed = None
       /\ ~Active("cover") /\ cycle.old.asset # None
     => SourceSha("cover") = cycle.old.asset
  /\ cycle.pc \in {"links", "start"} /\ ~cycle.cover_work =>
       /\ cycle.old.asset # None
       /\ Ref("cover") # None => ~Active("cover")
  /\ cycle.pc \in {"links", "start"} /\ ~cycle.cover_work => cycle.resumed = None
  /\ cycle.pc = "links" => ~cycle.cover_work
  /\ cycle.pc = "reuse" /\ Ref("cover") # None => cycle.srcs["cover"].sha = cycle.old.asset
  /\ cycle.pc \in Saved \cup {"save"} /\ Ref("cover") # None =>
       cycle.asset = cycle.srcs["cover"].sha

RemovalCutShort == cycle.pc = "removing" /\ Stop

LEMMA CoverKeptStep ==
  CoverCycleInv /\ CoverKept /\ [Next]_vars /\ [~Unlink]_vars /\ [~RemovalCutShort]_vars
    => CoverKept'
  <1> SUFFICES ASSUME CoverCycleInv, CoverKept, [Next]_vars, [~Unlink]_vars,
                      [~RemovalCutShort]_vars
               PROVE  CoverKept'
    OBVIOUS
  <1>0. Shapes /\ CycleKnows
    BY DEF CoverCycleInv
  <1> USE DEF CoverKept, Cycling
  <1>19. CASE UNCHANGED vars
    BY <1>19 DEF vars, Ref
  <1>1. ASSUME NEW force \in BOOLEAN, NEW option \in Options, Begin(force, option)
        PROVE  CoverKept'
    <2>1. /\ cycle.pc = "idle" /\ cycle'.pc = "gate_file"
          /\ cycle'.meta["cover"] = koha["cover"] /\ koha'["cover"] = koha["cover"]
          /\ row'.cover = row.cover /\ row'.status # "absent"
      BY <1>0, <1>1, BeginEffect DEF Sources
    <2>2. QED
      BY <2>1 DEF Ref
  <1>2. ASSUME NEW s \in Sources, GateQuietly(s) PROVE CoverKept'
    <2>1. /\ GateAt(s) /\ cycle'.pc = NextGate(s) /\ cycle'.meta = cycle.meta
          /\ UNCHANGED <<koha, row>>
      BY <1>0, <1>2, GateQuietlyEffect
    <2>2. QED
      BY <2>1, GatePlaces DEF Ref, Gating
  <1>3. ASSUME NEW s \in Sources, GateByMetadata(s) PROVE CoverKept'
    <2>1. /\ GateAt(s) /\ AsksDrive(s) /\ AskDrive(s)
          /\ cycle'.pc = NextGate(s) /\ cycle'.meta = cycle.meta /\ koha' = koha
      BY <1>0, <1>3, GateByMetadataEffect
    <2>2. Ref(s) # None
      BY <2>1 DEF AsksDrive
    <2>3. /\ \A t \in Sources \ {s} : row'[t] = row[t]
          /\ row'.status \in {"ok", "unfinished"}
          /\ row'[s] = row[s] \/ row'[s].id = Ref(s)
      BY <1>0, <2>1, <2>2, AskEffect
    <2>4. row'.cover = row.cover \/ (s = "cover" /\ row'.cover.id = Ref("cover"))
      <3>1. CASE s = "file"
        BY <2>3, <3>1 DEF Sources, Ref
      <3>2. CASE s = "cover"
        BY <2>3, <3>2 DEF Ref
      <3>3. QED
        BY <3>1, <3>2 DEF Sources
    <2>5. Cycling /\ cycle'.pc \notin {"idle", "removing"}
      BY <2>1, GatePlaces DEF Gating
    <2>6. QED
      BY <2>1, <2>2, <2>3, <2>4, <2>5 DEF Ref
  <1>4. CASE Decide
    BY <1>0, <1>4, DecideEffect DEF Ref
  <1>5. CASE RebuildItem
    <2>1. /\ cycle.pc = "links" /\ cycle'.pc = "start" /\ Ref("file") # None /\ AskDrive("file")
          /\ cycle'.meta = cycle.meta /\ koha' = koha
      BY <1>0, <1>5, RebuildEffect
    <2>2. row'["cover"] = row["cover"] /\ row'.status \in {"ok", "unfinished"}
      BY <1>0, <2>1, AskEffect DEF Sources
    <2>3. QED
      BY <2>1, <2>2 DEF Ref
  <1>6. CASE StartDownstream
    <2>1. /\ cycle.pc = "start" /\ cycle'.pc \in {"cover", "reuse"} /\ cycle'.meta = cycle.meta
          /\ row'.status = "unfinished" /\ row'.cover = row.cover /\ koha' = koha
      BY <1>0, <1>6, StartEffect DEF SameDecisions
    <2>2. QED
      BY <2>1 DEF Ref
  <1>7. CASE ReuseCover \/ SaveCover \/ CheckpointResult
    <2>1. /\ cycle.pc \in Downstream /\ cycle'.pc \in Downstream /\ cycle'.meta = cycle.meta
          /\ koha' = koha /\ \E asset, result : SaveWork(asset, result)
      BY <1>0, <1>7, ReuseEffect, SaveCoverEffect, CheckpointEffect
         DEF Downstream, SameInputsOfCycle, SameDecisions
    <2>2. row'.status = row.status /\ row'.cover = row.cover
      BY <1>0, <2>1, SaveEffect
    <2>3. QED
      BY <2>1, <2>2 DEF Ref, Downstream
  <1>8. CASE ResumeCover \/ RenderCover \/ DSpaceStep \/ WriteKoha
    <2>1. /\ cycle.pc \in Downstream /\ cycle'.pc \in Downstream /\ cycle'.meta = cycle.meta
          /\ koha'.cover = koha.cover /\ UNCHANGED row
      BY <1>0, <1>8, ResumeEffect, RenderEffect, DSpaceEffect, WriteEffect
         DEF Downstream, Saved, SameInputsOfCycle, SameDecisions
    <2>2. QED
      BY <2>1 DEF Ref, Downstream
  <1>9. CASE CompleteCycle
    <2>1. /\ cycle.pc = "cleanup" /\ cycle'.pc = "idle" /\ koha' = koha
          /\ row'.cover = Commit("cover") /\ row'.status = "ok"
      BY <1>0, <1>9, CompleteEffect DEF Sources
    <2>2. cycle.srcs["cover"].id = Ref("cover")
      BY <1>0, <2>1 DEF CycleKnows, InputInv, Downstream, Sources, Ref
    <2>3. QED
      BY <2>1, <2>2 DEF Commit
  <1>10. CASE EndStep
    <2>1. CASE RemoveFromState
      <3>1. /\ cycle.pc = "removing" /\ cycle'.pc = "idle"
            /\ row.status = "ok" => row'.cover = NoSource /\ row'.status = "ok"
            /\ row.status # "ok" => row' = row
        BY <1>0, <2>1, IdleFacts DEF RemoveFromState, Shapes, Rows
      <3>2. row.status \in {"absent", "unfinished", "ok"}
        BY <1>0 DEF Shapes, Rows
      <3>3. QED
        BY <3>1, <3>2, PairFacts
    <2>2. CASE ~RemoveFromState
      <3>1. cycle.pc # "removing" \/ UNCHANGED vars
        BY <1>10, <2>2 DEF EndStep, NothingToDo, RepairLinks, Refuse, Refused, DriveFails, GateAt,
           ItemGone, RemovalCutShort
      <3>2. row'.cover = row.cover /\ row'.status \in {row.status, "unfinished"}
        BY <1>0, <1>10, <2>2 DEF EndStep, NothingToDo, RepairLinks, Refuse, DriveFails, Stop,
           External, Shapes, Rows
      <3>3. cycle'.pc = "idle" /\ koha'.cover = koha.cover
        BY <1>0, <1>10, EndEffect
      <3>4. QED
        BY <1>19, <3>1, <3>2, <3>3
    <2>3. QED
      BY <2>1, <2>2
  <1>11. CASE RemoveFromKoha
    BY <1>0, <1>11, RemoveFromKohaEffect
  <1>12. CASE UserStep
    <2>1. (koha["cover"] # None => koha'["cover"] # None) /\ UNCHANGED <<row, cycle>>
      BY <1>0, <1>12, UserEffect DEF Sources
    <2>2. QED
      BY <2>1 DEF Ref
  <1>13. CASE EditContent
    BY <1>13 DEF EditContent, Edit, Ref
  <1>14. CASE Unlink
    BY <1>14, <1>19
  <1>15. QED
    BY <1>1, <1>2, <1>3, <1>4, <1>5, <1>6, <1>7, <1>8, <1>9, <1>10, <1>11, <1>12, <1>13, <1>14,
       <1>19, Steps

\* A cover that passes its gate as the confirmed one has the confirmed asset.
LEMMA QuietCover ==
  ASSUME CoverCycleInv, CoverInv, GateQuietly("cover"), Ref("cover") # None, cycle.resumed = None,
         ~Active("cover")', cycle.old.asset # None
  PROVE  SourceSha("cover")' = cycle.old.asset
  <1>1. Shapes /\ GateInv /\ "cover" \in Sources
    BY DEF CoverCycleInv, CycleKnows, Sources
  <1>2. /\ cycle.pc = "gate_cover" /\ row' = row
        /\ cycle'.gate["cover"] = IF Confirmed("cover")
                                  THEN [action |-> "noop", sha |-> None, seen |-> None]
                                  ELSE [action |-> "resume", sha |-> None, seen |-> None]
    BY <1>1, GateQuietlyEffect, GatePlaces DEF Staged
  <1>3. Confirmed("cover")
    BY <1>2 DEF Active
  <1>4. cycle.old.status = "ok" /\ cycle.old.cover.id = Ref("cover")
    BY <1>3 DEF Confirmed
  <1>5. cycle.old.asset = cycle.old.cover.sha /\ row.cover = cycle.old.cover
    BY <1>1, <1>2, <1>4 DEF CoverInv, Shows, Gating, GateInv
  <1>6. cycle'.gate["cover"].sha = None
    BY <1>2
  <1>7. QED
    BY <1>2, <1>5, <1>6 DEF SourceSha

LEMMA SameCover ==
  ASSUME CoverCycleInv, CoverInv, GateByMetadata("cover"), ~Active("cover")',
         cycle.old.asset # None
  PROVE  SourceSha("cover")' = cycle.old.asset
  <1>1. Shapes /\ "cover" \in Sources
    BY DEF CoverCycleInv, Sources
  <1>2. /\ cycle.pc = "gate_cover" /\ AsksDrive("cover") /\ AskDrive("cover")
        /\ cycle'.gate["cover"] = [action |-> Verdict("cover", Forced("cover")),
                                   sha |-> drive[Ref("cover")], seen |-> drive[Ref("cover")]]
    BY <1>1, GateByMetadataEffect, GatePlaces
  <1>3. Verdict("cover", Forced("cover")) \notin {"resume", "changed"}
    BY <1>2 DEF Active
  <1>4. SameContent("cover") /\ Ref("cover") # None
    BY <1>2, <1>3 DEF Verdict, AsksDrive
  <1>5. /\ row.status = "ok" /\ row.cover.sha = drive[Ref("cover")] /\ row.cover.id # None
        /\ drive[Ref("cover")] # None
    BY <1>1, <1>2, <1>4, AskEffect
  <1>6. cycle.old.asset = drive[Ref("cover")]
    BY <1>2, <1>5 DEF CoverInv, Shows, Gating
  <1>7. cycle'.gate["cover"].sha = drive[Ref("cover")]
    BY <1>2
  <1>8. QED
    BY <1>5, <1>6, <1>7 DEF SourceSha

LEMMA CoverInvStep ==
  CoverCycleInv /\ ResumeInv /\ CoverKept /\ CoverInv /\ [Next]_vars => CoverInv'
  <1> SUFFICES ASSUME CoverCycleInv, ResumeInv, CoverKept, CoverInv, [Next]_vars PROVE CoverInv'
    OBVIOUS
  <1>0. Shapes /\ CycleKnows /\ row \in Rows
    BY DEF CoverCycleInv, Shapes
  <1>1. ASSUME NEW force \in BOOLEAN, NEW option \in Options, Begin(force, option)
        PROVE  CoverInv'
    <2>1. /\ cycle'.pc = "gate_file" /\ cycle'.old = row' /\ work' = work
          /\ row'.cover = row.cover /\ row'.asset = row.asset
          /\ row'.status = "ok" => row.status = "ok"
      BY <1>0, <1>1, BeginEffect
    <2>2. QED
      BY <2>1 DEF CoverInv, Shows, Passed, Saved, Downstream
  <1>2. ASSUME NEW s \in Sources, GateQuietly(s) PROVE CoverInv'
    <2>1. /\ GateAt(s) /\ cycle'.pc = NextGate(s) /\ cycle'.meta = cycle.meta
          /\ cycle'.old = cycle.old /\ cycle'.resumed = cycle.resumed
          /\ UNCHANGED <<row, work>>
      BY <1>0, <1>2, GateQuietlyEffect
    <2>2. ASSUME cycle'.pc \in Passed("cover"), Ref("cover")' # None, cycle'.resumed = None,
                 ~Active("cover")', cycle'.old.asset # None
          PROVE  SourceSha("cover")' = cycle'.old.asset
      <3>1. s = "cover"
        BY <2>1, <2>2, GatePlaces DEF Passed
      <3>2. QED
        BY <1>2, <2>1, <2>2, <3>1, QuietCover DEF Ref
    <2>3. QED
      BY <2>1, <2>2, GatePlaces DEF CoverInv, Shows, Gating, Saved, Downstream
  <1>3. ASSUME NEW s \in Sources, GateByMetadata(s) PROVE CoverInv'
    <2>1. /\ GateAt(s) /\ AsksDrive(s) /\ AskDrive(s)
          /\ cycle'.pc = NextGate(s) /\ cycle'.meta = cycle.meta
          /\ cycle'.old = cycle.old /\ cycle'.resumed = cycle.resumed
          /\ UNCHANGED work
      BY <1>0, <1>3, GateByMetadataEffect
    <2>2. ASSUME cycle'.pc \in Passed("cover"), ~Active("cover")', cycle'.old.asset # None
          PROVE  SourceSha("cover")' = cycle'.old.asset
      <3>1. s = "cover"
        BY <2>1, <2>2, GatePlaces DEF Passed
      <3>2. QED
        BY <1>3, <2>1, <2>2, <3>1, SameCover
    <2>3. row'.asset = row.asset /\ Shows(row)'
      <3>1. /\ row'.asset = row.asset
            /\ \A t \in Sources \ {s} : row'[t] = row[t]
            /\ SameContent(s) => /\ row.status = "ok" /\ row[s].id # None
                                 /\ row[s].sha = drive[Ref(s)] /\ row'[s].sha = drive[Ref(s)]
            /\ ~SameContent(s) => row'.status = "unfinished"
        BY <1>0, <2>1, AskEffect DEF AsksDrive
      <3>2. CASE s = "file"
        <4>1. row'.cover = row.cover /\ (row'.status = "ok" => row.status = "ok")
          BY <3>1, <3>2 DEF Sources
        <4>2. QED
          BY <3>1, <4>1 DEF CoverInv, Shows
      <3>3. CASE s = "cover"
        BY <3>1, <3>3 DEF CoverInv, Shows
      <3>4. QED
        BY <3>2, <3>3 DEF Sources
    <2>4. QED
      BY <2>1, <2>2, <2>3, GatePlaces DEF CoverInv, Shows, Gating, Saved, Downstream
  <1>4. CASE Decide
    <2>1. /\ cycle.pc = "decide" /\ cycle'.pc = (IF FileWork \/ CoverWork THEN "start" ELSE "links")
          /\ cycle'.cover_work = CoverWork /\ cycle'.meta = cycle.meta /\ cycle'.old = cycle.old
          /\ cycle'.resumed = cycle.resumed /\ cycle'.gate = cycle.gate
          /\ UNCHANGED <<row, work>>
      BY <1>0, <1>4, DecideEffect
    <2>2. ~CoverWork => /\ cycle.old.asset # None /\ cycle.resumed = None
                        /\ Ref("cover") # None => ~Active("cover")
      BY DEF CoverWork
    <2>3. Ref("cover")' = Ref("cover") /\ Active("cover")' = Active("cover")
             /\ SourceSha("cover")' = SourceSha("cover")
      BY <2>1 DEF Ref, Active, SourceSha
    <2>4. QED
      BY <2>1, <2>2, <2>3 DEF CoverInv, Shows, Passed, Gating, Saved, Downstream
  <1>5. CASE RebuildItem
    <2>1. /\ cycle.pc = "links" /\ cycle'.pc = "start" /\ Ref("file") # None /\ AskDrive("file")
          /\ cycle'.cover_work = cycle.cover_work
          /\ cycle'.meta = cycle.meta /\ cycle'.resumed = cycle.resumed
          /\ cycle'.old.status = cycle.old.status /\ cycle'.old.cover = cycle.old.cover
          /\ cycle'.old.asset = cycle.old.asset
          /\ cycle'.gate["cover"] = cycle.gate["cover"] /\ UNCHANGED work
      BY <1>0, <1>5, RebuildEffect
    <2>2. row'["cover"] = row["cover"] /\ row'.asset = row.asset
             /\ (row'.status = "ok" => row.status = "ok")
      BY <1>0, <2>1, AskEffect DEF Sources
    <2>3. Ref("cover")' = Ref("cover") /\ Active("cover")' = Active("cover")
             /\ SourceSha("cover")' = SourceSha("cover")
      BY <2>1, <2>2 DEF Ref, Active, SourceSha
    <2>4. QED
      BY <2>1, <2>2, <2>3 DEF CoverInv, Shows, Passed, Gating, Saved, Downstream
  <1>6. CASE StartDownstream
    <2>1. /\ cycle.pc = "start" /\ SameDecisions
          /\ cycle'.pc = (IF cycle.cover_work \/ cycle.resumed # None THEN "cover" ELSE "reuse")
          /\ cycle'.srcs = [s \in Sources |-> IF Ref(s) = None THEN NoSource
                                              ELSE [id |-> Ref(s), sha |-> SourceSha(s)]]
          /\ row'.status = "unfinished" /\ row'.asset = row.asset /\ UNCHANGED work
      BY <1>0, <1>6, StartEffect
    <2>2. Ref("cover") # None => cycle'.srcs["cover"].sha = SourceSha("cover")
      BY <2>1 DEF Sources
    <2>3. cycle'.old = cycle.old /\ Ref("cover")' = Ref("cover")
      BY <2>1 DEF SameDecisions, Ref
    <2>4. QED
      BY <2>1, <2>2, <2>3 DEF CoverInv, Shows, Passed, Gating, Saved, Downstream
  <1>7. CASE ReuseCover
    <2>1. /\ cycle.pc = "reuse" /\ cycle'.pc = "cover" /\ SaveWork(cycle.old.asset, None)
      BY <1>0, <1>7, ReuseEffect
    <2>2. work'.srcs = cycle.srcs /\ work'.asset = cycle.old.asset /\ row'.status = row.status
      BY <1>0, <2>1, SaveEffect
    <2>3. cycle.srcs["cover"].id = Ref("cover") /\ row.status = "unfinished"
      BY <1>0, <2>1 DEF CycleKnows, InputInv, ResumeInv, Downstream, Sources, Ref
    <2>4. QED
      BY <2>1, <2>2, <2>3 DEF CoverInv, Shows, Passed, Gating, Saved, Downstream
  <1>8. CASE ResumeCover
    <2>1. /\ cycle.pc = "cover" /\ cycle.resumed # None /\ cycle'.pc \in {"fetch", "koha"}
          /\ cycle'.meta = cycle.meta /\ cycle'.srcs = cycle.srcs
          /\ cycle'.asset = cycle.resumed.asset /\ UNCHANGED <<row, work>>
      BY <1>0, <1>8, ResumeEffect DEF SameInputsOfCycle, SameDecisions
    <2>2. /\ work = cycle.resumed /\ cycle.srcs = work.srcs
          /\ cycle.srcs["cover"].id = Ref("cover")
      BY <1>0, <2>1 DEF CycleKnows, InputInv, ResumeInv, Downstream, Sources, Ref
    <2>3. QED
      BY <2>1, <2>2 DEF CoverInv, Shows, Passed, Gating, Saved, Downstream, Ref
  <1>9. CASE RenderCover
    <2>1. /\ cycle.pc = "cover" /\ cycle'.pc = "save"
          /\ cycle'.meta = cycle.meta /\ cycle'.srcs = cycle.srcs
          /\ cycle'.asset = cycle.srcs[CoverSource].sha /\ UNCHANGED <<row, work>>
      BY <1>0, <1>9, RenderEffect DEF SameInputsOfCycle, SameDecisions
    <2>2. cycle.srcs["cover"].id = Ref("cover")
      BY <1>0, <2>1 DEF CycleKnows, InputInv, Downstream, Sources, Ref
    <2>3. QED
      BY <2>1, <2>2 DEF CoverInv, Shows, Passed, Gating, Saved, Downstream, Ref, CoverSource
  <1>10. CASE SaveCover \/ CheckpointResult
    <2>1. /\ cycle.pc \in Saved \cup {"save"} /\ cycle'.pc \in Saved
          /\ cycle'.meta = cycle.meta /\ cycle'.srcs = cycle.srcs /\ cycle'.asset = cycle.asset
          /\ \E result : SaveWork(cycle.asset, result)
      BY <1>0, <1>10, SaveCoverEffect, CheckpointEffect
         DEF SameInputsOfCycle, SameDecisions, Saved, Downstream
    <2>2. work'.srcs = cycle.srcs /\ work'.asset = cycle.asset /\ row'.status = row.status
      BY <1>0, <2>1, SaveEffect
    <2>3. cycle.srcs["cover"].id = Ref("cover") /\ row.status = "unfinished"
      BY <1>0, <2>1 DEF CycleKnows, InputInv, ResumeInv, Saved, Downstream, Sources, Ref
    <2>4. QED
      BY <2>1, <2>2, <2>3 DEF CoverInv, Shows, Passed, Gating, Saved, Downstream, Ref
  <1>11. CASE DSpaceStep \/ WriteKoha
    <2>1. /\ cycle.pc \in Saved /\ cycle'.pc \in Saved
          /\ cycle'.meta = cycle.meta /\ cycle'.srcs = cycle.srcs /\ cycle'.asset = cycle.asset
          /\ UNCHANGED <<row, work>>
      BY <1>0, <1>11, DSpaceEffect, WriteEffect
         DEF SameInputsOfCycle, SameDecisions, Saved, Downstream
    <2>2. QED
      BY <2>1 DEF CoverInv, Shows, Passed, Gating, Saved, Downstream, Ref
  <1>12. CASE CompleteCycle
    <2>1. /\ cycle.pc = "cleanup" /\ cycle'.pc = "idle" /\ work' = None
          /\ row'.cover = Commit("cover") /\ row'.asset = cycle.asset
      BY <1>0, <1>12, CompleteEffect DEF Sources
    <2>2. Ref("cover") = None => row.cover.id = None
      BY <2>1 DEF CoverKept, Cycling
    <2>3. QED
      BY <2>1, <2>2 DEF CoverInv, Shows, Passed, Gating, Saved, Downstream, Commit
  <1>13. CASE EndStep
    <2>1. /\ cycle'.pc = "idle" /\ work' \in {work, None}
          /\ row'.status \in {row.status, "unfinished"}
          /\ \/ row'.cover = row.cover /\ row'.asset = row.asset
             \/ row'.cover = NoSource /\ row'.asset = None
      BY <1>0, <1>13, EndEffect
    <2>2. QED
      BY <2>1 DEF CoverInv, Shows, Passed, Gating, Saved, Downstream
  <1>14. CASE RemoveFromKoha
    BY <1>0, <1>14, RemoveFromKohaEffect DEF CoverInv, Shows, Passed, Gating, Saved, Downstream
  <1>15. CASE UserStep \/ EditContent \/ Unlink \/ UNCHANGED vars
    <2>1. UNCHANGED <<row, work, cycle>>
      BY <1>0, <1>15, UserEffect DEF EditContent, Unlink, Edit, vars
    <2>2. QED
      BY <2>1 DEF CoverInv, Shows, Ref, Active, SourceSha
  <1>16. QED
    BY <1>1, <1>2, <1>3, <1>4, <1>5, <1>6, <1>7, <1>8, <1>9, <1>10, <1>11, <1>12, <1>13, <1>14,
       <1>15, Steps

\* As long as nobody empties 956 and no removal of a cover dies between Koha and
\* the row, a record that still names the confirmed cover shows it, whatever else
\* is edited, interrupted, forced or repeated.
THEOREM ConfirmedCover ==
  Spec /\ [][~Unlink]_vars /\ [][~RemovalCutShort]_vars => []ConfirmedCoverIsShown
  <1>1. Init => CoverKept /\ CoverInv
    <2> SUFFICES ASSUME Init PROVE CoverKept /\ CoverInv
      OBVIOUS
    <2>1. /\ row.status = "absent" /\ row.cover = NoSource /\ work = None /\ cycle.pc = "idle"
      BY IdleFacts DEF Init, AbsentRow
    <2>2. QED
      BY <2>1, PairFacts
         DEF CoverKept, Cycling, CoverInv, Shows, Passed, Gating, Saved, Downstream
  <1>2. CoverCycleInv /\ CoverKept /\ [Next]_vars /\ [~Unlink]_vars /\ [~RemovalCutShort]_vars
          => CoverKept'
    BY CoverKeptStep
  <1>3. CoverCycleInv /\ ResumeInv /\ CoverKept /\ CoverInv /\ [Next]_vars => CoverInv'
    BY CoverInvStep
  <1>4. CoverInv => ConfirmedCoverIsShown
    BY DEF CoverInv, Shows, ConfirmedCoverIsShown
  <1>5. QED
    BY <1>1, <1>2, <1>3, <1>4, CoverCycleInductive, ResumesCheckpoint, PTL DEF Spec

-----------------------------------------------------------------------------
(* The PDF that is linked, as long as 956 is not emptied.                    *)

FileKept ==
  /\ row.file.id # None => koha.file # None
  /\ Cycling /\ Ref("file") # None => koha.file # None
  /\ Cycling /\ Ref("file") = None => row.file.id = None

\* The link and the primary bitstream, where there are any, open this content.
Opens(sha) ==
  /\ koha.link # None => Holds(koha.link, sha)
  /\ repo.primary # None => Holds(repo.primary, sha)

ConfirmedLives == row.item # None /\ row.item = repo.item

\* The Item of a confirmed row opens the confirmed content.  So it does while a
\* cycle leaves the PDF as it is, and while a checkpoint without PDF work waits.
PdfInv ==
  /\ row.item # None => row.file.id # None
  /\ row.status = "ok" /\ ConfirmedLives => Opens(row.file.sha)
  /\ cycle.pc \in Passed("file") /\ cycle.resumed = None /\ Ref("file") # None
       /\ ~Active("file") =>
       /\ SourceSha("file") = row.file.sha
       /\ ConfirmedLives => Opens(row.file.sha)
  /\ cycle.pc = "start" /\ cycle.resumed = None /\ ~cycle.file_work =>
       cycle.cover_work /\ ~Active("file")
  /\ cycle.pc = "reuse" => cycle.file_work
  /\ cycle.pc \in {"cover", "save"} /\ cycle.resumed = None /\ ~cycle.file_work
       /\ Ref("file") # None /\ ConfirmedLives
     => Opens(cycle.srcs["file"].sha)
  /\ cycle.pc \in {"start", "cover"} /\ cycle.resumed # None =>
       (cycle.resumed.file_work => cycle.file_work)
  /\ cycle.pc \in {"koha", "readback", "cleanup"} => (work.file_work => cycle.file_work)
  /\ work # None /\ ~work.file_work =>
       /\ work.result = None
       /\ work.srcs["file"].id # None /\ ConfirmedLives => Opens(work.srcs["file"].sha)

LEMMA FileKeptStep == CoverCycleInv /\ FileKept /\ [Next]_vars /\ [~Unlink]_vars => FileKept'
  <1> SUFFICES ASSUME CoverCycleInv, FileKept, [Next]_vars, [~Unlink]_vars PROVE FileKept'
    OBVIOUS
  <1>0. Shapes /\ CycleKnows
    BY DEF CoverCycleInv
  <1> USE DEF FileKept, Cycling
  <1>19. CASE UNCHANGED vars
    BY <1>19 DEF vars, Ref
  <1>1. ASSUME NEW force \in BOOLEAN, NEW option \in Options, Begin(force, option)
        PROVE  FileKept'
    <2>1. /\ cycle.pc = "idle" /\ cycle'.pc = "gate_file"
          /\ cycle'.meta["file"] = koha["file"] /\ koha'["file"] = koha["file"]
          /\ row'.file = row.file
      BY <1>0, <1>1, BeginEffect DEF Sources
    <2>2. QED
      BY <2>1 DEF Ref
  <1>2. ASSUME NEW s \in Sources, GateQuietly(s) PROVE FileKept'
    <2>1. /\ GateAt(s) /\ cycle'.pc = NextGate(s) /\ cycle'.meta = cycle.meta
          /\ UNCHANGED <<koha, row>>
      BY <1>0, <1>2, GateQuietlyEffect
    <2>2. QED
      BY <2>1, GatePlaces DEF Ref, Gating
  <1>3. ASSUME NEW s \in Sources, GateByMetadata(s) PROVE FileKept'
    <2>1. /\ GateAt(s) /\ AsksDrive(s) /\ AskDrive(s)
          /\ cycle'.pc = NextGate(s) /\ cycle'.meta = cycle.meta /\ koha' = koha
      BY <1>0, <1>3, GateByMetadataEffect
    <2>2. Ref(s) # None
      BY <2>1 DEF AsksDrive
    <2>3. /\ \A t \in Sources \ {s} : row'[t] = row[t]
          /\ row'[s] = row[s] \/ row'[s].id = Ref(s)
      BY <1>0, <2>1, <2>2, AskEffect
    <2>4. row'.file = row.file \/ (s = "file" /\ row'.file.id = Ref("file"))
      <3>1. CASE s = "file"
        BY <2>3, <3>1
      <3>2. CASE s = "cover"
        BY <2>3, <3>2 DEF Sources
      <3>3. QED
        BY <3>1, <3>2 DEF Sources
    <2>5. Cycling /\ cycle'.pc \notin {"idle", "removing"}
      BY <2>1, GatePlaces DEF Gating
    <2>6. QED
      BY <2>1, <2>2, <2>4, <2>5 DEF Ref
  <1>4. CASE Decide
    BY <1>0, <1>4, DecideEffect DEF Ref
  <1>5. CASE RebuildItem
    <2>1. /\ cycle.pc = "links" /\ Ref("file") # None /\ AskDrive("file")
          /\ cycle'.meta = cycle.meta /\ koha' = koha
      BY <1>0, <1>5, RebuildEffect
    <2>2. QED
      BY <2>1 DEF Ref
  <1>6. CASE StartDownstream
    <2>1. cycle.pc = "start" /\ cycle'.meta = cycle.meta /\ row'.file = row.file /\ koha' = koha
      BY <1>0, <1>6, StartEffect DEF SameDecisions
    <2>2. QED
      BY <2>1 DEF Ref
  <1>7. CASE ReuseCover \/ SaveCover \/ CheckpointResult
    <2>1. /\ cycle.pc \in Downstream /\ cycle'.meta = cycle.meta
          /\ koha' = koha /\ \E asset, result : SaveWork(asset, result)
      BY <1>0, <1>7, ReuseEffect, SaveCoverEffect, CheckpointEffect
         DEF Downstream, SameInputsOfCycle, SameDecisions
    <2>2. row'.file = row.file
      BY <1>0, <2>1, SaveEffect
    <2>3. QED
      BY <2>1, <2>2 DEF Ref, Downstream
  <1>8. CASE ResumeCover \/ RenderCover \/ DSpaceStep \/ WriteKoha
    <2>1. /\ cycle.pc \in Downstream /\ cycle'.meta = cycle.meta
          /\ koha'.file = koha.file /\ UNCHANGED row
      BY <1>0, <1>8, ResumeEffect, RenderEffect, DSpaceEffect, WriteEffect
         DEF Downstream, Saved, SameInputsOfCycle, SameDecisions
    <2>2. QED
      BY <2>1 DEF Ref, Downstream
  <1>9. CASE CompleteCycle
    <2>1. /\ cycle.pc = "cleanup" /\ cycle'.pc = "idle" /\ koha' = koha
          /\ row'.file = Commit("file")
      BY <1>0, <1>9, CompleteEffect DEF Sources
    <2>2. cycle.srcs["file"].id = Ref("file")
      BY <1>0, <2>1 DEF CycleKnows, InputInv, Downstream, Sources, Ref
    <2>3. QED
      BY <2>1, <2>2 DEF Commit
  <1>10. CASE EndStep
    BY <1>0, <1>10, EndEffect
  <1>11. CASE RemoveFromKoha
    BY <1>0, <1>11, RemoveFromKohaEffect
  <1>12. CASE UserStep
    <2>1. (koha["file"] # None => koha'["file"] # None) /\ UNCHANGED <<row, cycle>>
      BY <1>0, <1>12, UserEffect DEF Sources
    <2>2. QED
      BY <2>1 DEF Ref
  <1>13. CASE EditContent
    BY <1>13 DEF EditContent, Edit, Ref
  <1>14. CASE Unlink
    BY <1>14, <1>19
  <1>15. QED
    BY <1>1, <1>2, <1>3, <1>4, <1>5, <1>6, <1>7, <1>8, <1>9, <1>10, <1>11, <1>12, <1>13, <1>14,
       <1>19, Steps

\* A PDF that passes its gate as the confirmed one has the confirmed content.
LEMMA QuietFile ==
  ASSUME CoverCycleInv, ResumeInv, PdfInv, GateQuietly("file"), Ref("file") # None,
         cycle.resumed = None, ~Active("file")'
  PROVE  /\ SourceSha("file")' = row.file.sha
         /\ ConfirmedLives => Opens(row.file.sha)
  <1>1. Shapes /\ "file" \in Sources
    BY DEF CoverCycleInv, Sources
  <1>2. /\ cycle.pc = "gate_file" /\ row' = row
        /\ cycle'.gate["file"] = IF Confirmed("file")
                                 THEN [action |-> "noop", sha |-> None, seen |-> None]
                                 ELSE [action |-> "resume", sha |-> None, seen |-> None]
    BY <1>1, GateQuietlyEffect, GatePlaces DEF Staged
  <1>3. Confirmed("file")
    BY <1>2 DEF Active
  <1>4. row.status = "ok"
    BY <1>2, <1>3 DEF Confirmed, ResumeInv
  <1>5. cycle'.gate["file"].sha = None
    BY <1>2
  <1>6. QED
    BY <1>2, <1>4, <1>5 DEF SourceSha, PdfInv

LEMMA SameFile ==
  ASSUME CoverCycleInv, PdfInv, GateByMetadata("file"), ~Active("file")'
  PROVE  /\ SourceSha("file")' = row.file.sha /\ row'.file.sha = row.file.sha
         /\ ConfirmedLives => Opens(row.file.sha)
  <1>1. Shapes /\ "file" \in Sources
    BY DEF CoverCycleInv, Sources
  <1>2. /\ AsksDrive("file") /\ AskDrive("file")
        /\ cycle'.gate["file"] = [action |-> Verdict("file", Forced("file")),
                                  sha |-> drive[Ref("file")], seen |-> drive[Ref("file")]]
    BY <1>1, GateByMetadataEffect
  <1>3. Verdict("file", Forced("file")) \notin {"resume", "changed"}
    BY <1>2 DEF Active
  <1>4. SameContent("file") /\ Ref("file") # None
    BY <1>2, <1>3 DEF Verdict, AsksDrive
  <1>5. /\ row.status = "ok" /\ row.file.sha = drive[Ref("file")]
        /\ row'.file.sha = drive[Ref("file")] /\ drive[Ref("file")] # None
    BY <1>1, <1>2, <1>4, AskEffect
  <1>6. cycle'.gate["file"].sha = drive[Ref("file")]
    BY <1>2
  <1>7. QED
    BY <1>5, <1>6 DEF SourceSha, PdfInv

\* What the link and the primary bitstream open stays what it is.
LEMMA OpensKept ==
  ASSUME NEW sha, UNCHANGED repo, koha'.link \in {koha.link, repo.primary, None}, Opens(sha)
  PROVE  Opens(sha)'
  BY DEF Opens, Holds

\* While a checkpoint without PDF work waits, what DSpace gets is its content.
LEMMA WaitingOpens ==
  ASSUME CoverCycleInv, ResumeInv, PdfInv, DSpaceStep, work # None, ~work.file_work,
         work.srcs["file"].id # None, ConfirmedLives'
  PROVE  Opens(work.srcs["file"].sha)'
  <1>1. Shapes /\ CycleKnows /\ RepoInv
    BY DEF CoverCycleInv
  <1>2. UNCHANGED <<koha, row, work>> /\ work.result = None /\ cycle.pc \in Saved
    BY <1>1, DSpaceEffect DEF PdfInv
  <1>3. ConfirmedLives => Opens(work.srcs["file"].sha)
    BY DEF PdfInv
  <1>4. CASE UNCHANGED repo
    <2>1. ConfirmedLives
      BY <1>2, <1>4 DEF ConfirmedLives
    <2>2. QED
      BY <1>2, <1>3, <1>4, <2>1 DEF Opens, Holds
  <1>5. CASE FetchFile \/ ConfirmKoha
    BY <1>4, <1>5 DEF FetchFile, ConfirmKoha
  <1>6. CASE EnsureItem
    <2>1. CASE repo.item # None
      BY <1>4, <1>6, <2>1 DEF EnsureItem
    <2>2. CASE repo.item = None
      <3>1. repo'.item = repo.items + 1 /\ repo.items \in Nat
        BY <1>1, <1>6, <2>2 DEF EnsureItem, Shapes, Repos
      <3>2. row.item \in Opt(1..repo.items)
        BY DEF CoverCycleInv, Bounds, RowBounded
      <3>3. QED
        BY <1>2, <3>1, <3>2 DEF ConfirmedLives, Opt
    <2>3. QED
      BY <2>1, <2>2
  <1>7. CASE Upload
    <2> DEFINE new == [id |-> repo.uploads + 1, name |-> Ref("file"),
                       content |-> cycle.srcs["file"].sha]
    <2>1. repo' = [repo EXCEPT !.uploads = repo.uploads + 1, !.bits = repo.bits \cup {new}]
      BY <1>7 DEF Upload
    <2> HIDE DEF new
    <2>2. repo'.item = repo.item /\ repo'.primary = repo.primary /\ repo.bits \subseteq repo'.bits
      BY <1>1, <2>1 DEF Shapes, Repos
    <2>3. Opens(work.srcs["file"].sha)
      BY <1>2, <1>3, <2>2 DEF ConfirmedLives
    <2>4. QED
      BY <1>2, <2>2, <2>3 DEF Opens, Holds
  <1>8. CASE SetPrimary
    <2>1. /\ cycle.pc = "primary" /\ Has(cycle.result.bit)
          /\ repo'.item = repo.item /\ repo'.bits = repo.bits /\ repo'.primary = cycle.result.bit
      BY <1>1, <1>8 DEF SetPrimary, Shapes, Repos
    <2>2. Opens(work.srcs["file"].sha)
      BY <1>2, <1>3, <2>1 DEF ConfirmedLives
    <2>3. repo.item # None /\ work.srcs = cycle.srcs
      BY <1>1, <1>2, <2>1 DEF RepoInv, Has, ResumeInv
    <2>4. Holds(cycle.result.bit, work.srcs["file"].sha)
      BY <1>1, <2>1, <2>3 DEF CycleKnows, FileInv, ResultHolds, Holds
    <2>5. QED
      BY <1>2, <2>1, <2>2, <2>4 DEF Opens, Holds
  <1>9. CASE \E bit \in cycle.todo : DeleteOld(bit)
    <2>1. cycle.pc = "cleanup" /\ cycle.todo # {}
      BY <1>9 DEF DeleteOld
    <2>2. QED
      BY <1>1, <1>2, <2>1 DEF CycleKnows, WriteInv
  <1>10. QED
    BY <1>5, <1>6, <1>7, <1>8, <1>9 DEF DSpaceStep

\* A cycle that completes has linked what it confirms.
LEMMA CompletedOpens ==
  ASSUME CoverCycleInv, ResumeInv, FileKept, PdfInv, CompleteCycle
  PROVE  /\ row'.item # None => row'.file.id # None
         /\ ConfirmedLives' => Opens(row.file.sha)'
  <1>1. Shapes /\ CycleKnows /\ RepoInv
    BY DEF CoverCycleInv
  <1>2. /\ cycle.pc = "cleanup" /\ cycle.todo = {} /\ UNCHANGED <<koha, repo>>
        /\ row'.file = (IF Ref("file") # None THEN cycle.srcs["file"] ELSE row.file)
        /\ row'.item = (IF cycle.result # None THEN cycle.result.item ELSE row.item)
    BY <1>1, CompleteEffect DEF Sources, Commit
  <1>3. /\ work # None /\ work.result = cycle.result /\ work.srcs = cycle.srcs
        /\ work.srcs["file"].id = Ref("file")
        /\ cycle.srcs["file"].id = Ref("file")
    BY <1>1, <1>2 DEF CycleKnows, WriteInv, InputInv, ResumeInv, Saved, Downstream, Sources, Ref
  <1>4. CASE cycle.file_work
    <2>1. /\ cycle.result # None /\ koha.link \in {None, cycle.result.bit}
          /\ ResultHolds(work.result, work.srcs)
          /\ repo.item # None => repo.primary = work.result.bit
      BY <1>1, <1>2, <1>3, <1>4 DEF CycleKnows, WriteInv, CoverCycleInv, WorkInv
    <2>2. Ref("file") # None /\ row'.file = work.srcs["file"] /\ row'.item = cycle.result.item
      BY <1>2, <1>3, <2>1 DEF ResultHolds
    <2>3. row'.file.id # None
      BY <1>3, <2>2
    <2>4. ASSUME repo.item # None PROVE Opens(row'.file.sha)
      <3>1. Holds(cycle.result.bit, work.srcs["file"].sha)
        BY <1>3, <2>1, <2>4 DEF ResultHolds, Holds
      <3>2. QED
        BY <1>3, <2>1, <2>2, <2>4, <3>1 DEF Opens
    <2>5. ASSUME ConfirmedLives' PROVE Opens(row.file.sha)'
      <3>1. repo.item # None
        BY <1>2, <2>5 DEF ConfirmedLives
      <3>2. QED
        BY <1>2, <2>4, <3>1 DEF Opens, Holds
    <2>6. QED
      BY <2>3, <2>5
  <1>5. CASE ~cycle.file_work
    <2>1. ~work.file_work
      BY <1>2, <1>5 DEF PdfInv
    <2>2. /\ cycle.result = None /\ row'.item = row.item
          /\ work.srcs["file"].id # None /\ ConfirmedLives => Opens(work.srcs["file"].sha)
      BY <1>2, <1>3, <2>1 DEF PdfInv
    <2>3. CASE Ref("file") # None
      <3>1. row'.file = work.srcs["file"] /\ row'.file.id # None
        BY <1>2, <1>3, <2>3
      <3>2. QED
        BY <1>2, <2>2, <3>1 DEF ConfirmedLives, Opens, Holds
    <2>4. CASE Ref("file") = None
      <3>1. row.file.id = None
        BY <1>2, <2>4 DEF FileKept, Cycling
      <3>2. row.item = None
        BY <3>1 DEF PdfInv
      <3>3. QED
        BY <2>2, <3>2 DEF ConfirmedLives
    <2>5. QED
      BY <2>3, <2>4
  <1>6. QED
    BY <1>4, <1>5

LEMMA PdfInvStep ==
  CoverCycleInv /\ ResumeInv /\ FileKept /\ PdfInv /\ [Next]_vars => PdfInv'
  <1> SUFFICES ASSUME CoverCycleInv, ResumeInv, FileKept, PdfInv, [Next]_vars PROVE PdfInv'
    OBVIOUS
  <1>0. Shapes /\ CycleKnows
    BY DEF CoverCycleInv
  <1> USE DEF PdfInv, Passed
  <1>1. ASSUME NEW force \in BOOLEAN, NEW option \in Options, Begin(force, option)
        PROVE  PdfInv'
    <2>1. /\ cycle'.pc = "gate_file" /\ koha'.link = koha.link
          /\ row'.file = row.file /\ row'.item = row.item
          /\ row'.status = "ok" => row.status = "ok"
          /\ UNCHANGED <<work, repo>>
      BY <1>0, <1>1, BeginEffect
    <2>2. QED
      BY <2>1 DEF ConfirmedLives, Opens, Holds
  <1>2. ASSUME NEW s \in Sources, GateQuietly(s) PROVE PdfInv'
    <2>1. /\ GateAt(s) /\ cycle'.pc = NextGate(s) /\ cycle'.meta = cycle.meta
          /\ cycle'.resumed = cycle.resumed
          /\ \A t \in Sources \ {s} : cycle'.gate[t] = cycle.gate[t]
          /\ UNCHANGED <<koha, row, work, repo>>
      BY <1>0, <1>2, GateQuietlyEffect
    <2>2. ASSUME cycle'.resumed = None, Ref("file")' # None, ~Active("file")'
          PROVE  /\ SourceSha("file")' = row.file.sha
                 /\ ConfirmedLives => Opens(row.file.sha)
      <3>1. CASE s = "file"
        BY <1>2, <2>1, <2>2, <3>1, QuietFile DEF Ref
      <3>2. CASE s = "cover"
        <4>1. cycle.pc \in Passed("file") /\ cycle'.gate["file"] = cycle.gate["file"]
          BY <2>1, <3>2, GatePlaces DEF Sources
        <4>2. QED
          BY <2>1, <2>2, <4>1 DEF Active, SourceSha, Ref
      <3>3. QED
        BY <3>1, <3>2 DEF Sources
    <2>3. ConfirmedLives' = ConfirmedLives /\ \A sha : Opens(sha)' = Opens(sha)
      BY <2>1 DEF ConfirmedLives, Opens, Holds
    <2>4. QED
      BY <2>1, <2>2, <2>3, GatePlaces
  <1>3. ASSUME NEW s \in Sources, GateByMetadata(s) PROVE PdfInv'
    <2>1. /\ GateAt(s) /\ AsksDrive(s) /\ AskDrive(s)
          /\ cycle'.pc = NextGate(s) /\ cycle'.meta = cycle.meta
          /\ cycle'.resumed = cycle.resumed
          /\ \A t \in Sources \ {s} : cycle'.gate[t] = cycle.gate[t]
          /\ UNCHANGED <<koha, work, repo>>
      BY <1>0, <1>3, GateByMetadataEffect
    <2>2. /\ row'.item = row.item
          /\ \A t \in Sources \ {s} : row'[t] = row[t]
          /\ SameContent(s) => /\ row.status = "ok" /\ row'[s].id # None
                               /\ row'[s].sha = row[s].sha
          /\ ~SameContent(s) => row'.status = "unfinished" /\ row'[s] = row[s]
      BY <1>0, <2>1, AskEffect DEF AsksDrive
    <2>3. /\ row'.file.sha = row.file.sha /\ (row.file.id # None => row'.file.id # None)
          /\ row'.status = "ok" => row.status = "ok"
      <3>1. CASE s = "file"
        BY <2>2, <3>1
      <3>2. CASE s = "cover"
        BY <2>2, <3>2 DEF Sources
      <3>3. QED
        BY <3>1, <3>2 DEF Sources
    <2>4. ASSUME cycle'.resumed = None, Ref("file")' # None, ~Active("file")'
          PROVE  /\ SourceSha("file")' = row.file.sha
                 /\ ConfirmedLives => Opens(row.file.sha)
      <3>1. CASE s = "file"
        BY <1>3, <3>1, <2>4, SameFile
      <3>2. CASE s = "cover"
        <4>1. cycle.pc \in Passed("file") /\ cycle'.gate["file"] = cycle.gate["file"]
          BY <2>1, <3>2, GatePlaces DEF Sources
        <4>2. QED
          BY <2>1, <2>3, <2>4, <4>1 DEF Active, SourceSha, Ref
      <3>3. QED
        BY <3>1, <3>2 DEF Sources
    <2>5. ConfirmedLives' = ConfirmedLives /\ \A sha : Opens(sha)' = Opens(sha)
      BY <2>1, <2>2 DEF ConfirmedLives, Opens, Holds
    <2>6. QED
      BY <2>1, <2>2, <2>3, <2>4, <2>5, GatePlaces
  <1>4. CASE Decide
    <2>1. /\ cycle.pc = "decide" /\ cycle'.pc = (IF FileWork \/ CoverWork THEN "start" ELSE "links")
          /\ cycle'.file_work = FileWork /\ cycle'.cover_work = CoverWork
          /\ cycle'.meta = cycle.meta
          /\ cycle'.resumed = cycle.resumed /\ cycle'.gate = cycle.gate
          /\ UNCHANGED <<koha, row, work, repo>>
      BY <1>0, <1>4, DecideEffect
    <2>2. /\ cycle.resumed = None /\ ~FileWork => ~Active("file")
          /\ cycle.resumed # None /\ cycle.resumed.file_work => FileWork
      BY DEF FileWork
    <2>3. Ref("file")' = Ref("file") /\ Active("file")' = Active("file")
             /\ SourceSha("file")' = SourceSha("file")
      BY <2>1 DEF Ref, Active, SourceSha
    <2>4. ConfirmedLives' = ConfirmedLives /\ \A sha : Opens(sha)' = Opens(sha)
      BY <2>1 DEF ConfirmedLives, Opens, Holds
    <2>5. QED
      BY <2>1, <2>2, <2>3, <2>4
  <1>5. CASE RebuildItem
    <2>1. /\ cycle.pc = "links" /\ cycle'.pc = "start" /\ Ref("file") # None /\ AskDrive("file")
          /\ cycle'.file_work = TRUE /\ cycle'.resumed = cycle.resumed
          /\ cycle'.gate["file"] = [action |-> Verdict("file", TRUE), sha |-> drive[Ref("file")],
                                    seen |-> drive[Ref("file")]]
          /\ UNCHANGED <<koha, work, repo>>
      BY <1>0, <1>5, RebuildEffect
    <2>2. /\ row'.item = row.item /\ row'.file.sha = row.file.sha
          /\ row.file.id # None => row'.file.id # None
          /\ row'.status = "ok" => row.status = "ok"
      BY <1>0, <2>1, AskEffect DEF Sources
    <2>3. Active("file")' /\ cycle'.resumed = None
      BY <2>1 DEF Active, Verdict, ResumeInv
    <2>4. ConfirmedLives' = ConfirmedLives /\ \A sha : Opens(sha)' = Opens(sha)
      BY <2>1, <2>2 DEF ConfirmedLives, Opens, Holds
    <2>5. QED
      BY <2>1, <2>2, <2>3, <2>4
  <1>6. CASE StartDownstream
    <2>1. /\ cycle.pc = "start" /\ SameDecisions
          /\ cycle'.pc = (IF cycle.cover_work \/ cycle.resumed # None THEN "cover" ELSE "reuse")
          /\ cycle'.srcs = [s \in Sources |-> IF Ref(s) = None THEN NoSource
                                              ELSE [id |-> Ref(s), sha |-> SourceSha(s)]]
          /\ row'.status = "unfinished" /\ row'.file = row.file /\ row'.item = row.item
          /\ UNCHANGED <<koha, work, repo>>
      BY <1>0, <1>6, StartEffect
    <2>2. /\ cycle'.resumed = cycle.resumed /\ cycle'.file_work = cycle.file_work
          /\ Ref("file")' = Ref("file")
          /\ Ref("file") # None => cycle'.srcs["file"].sha = SourceSha("file")
      BY <2>1 DEF SameDecisions, Ref, Sources
    <2>3. ConfirmedLives' = ConfirmedLives /\ \A sha : Opens(sha)' = Opens(sha)
      BY <2>1 DEF ConfirmedLives, Opens, Holds
    <2>4. QED
      BY <2>1, <2>2, <2>3
  <1>7. CASE ReuseCover
    <2>1. /\ cycle.pc = "reuse" /\ cycle'.pc = "cover" /\ SaveWork(cycle.old.asset, None)
          /\ cycle'.resumed = work' /\ cycle'.file_work = cycle.file_work
          /\ UNCHANGED <<koha, repo>>
      BY <1>0, <1>7, ReuseEffect
    <2>2. /\ work' = Checkpoint(cycle.old.asset, None)
          /\ work'.file_work = cycle.file_work /\ row'.file = row.file /\ row'.item = row.item
          /\ row'.status = row.status
      BY <1>0, <2>1, SaveEffect
    <2>3. row.status = "unfinished" /\ work' # None
      BY <1>0, <2>1, <2>2, CheckpointIsWork DEF ResumeInv, Downstream, Shapes, Cycles, Rows, Opt
    <2>4. QED
      BY <2>1, <2>2, <2>3
  <1>8. CASE ResumeCover
    <2>1. /\ cycle.pc = "cover" /\ cycle.resumed # None /\ cycle'.pc \in {"fetch", "koha"}
          /\ cycle'.file_work = cycle.file_work
          /\ UNCHANGED <<koha, row, work, repo>>
      BY <1>0, <1>8, ResumeEffect DEF SameInputsOfCycle, SameDecisions
    <2>2. work = cycle.resumed
      BY <1>0, <2>1 DEF CycleKnows, InputInv
    <2>3. ConfirmedLives' = ConfirmedLives /\ \A sha : Opens(sha)' = Opens(sha)
      BY <2>1 DEF ConfirmedLives, Opens, Holds
    <2>4. QED
      BY <2>1, <2>2, <2>3
  <1>9. CASE RenderCover
    <2>1. /\ cycle.pc = "cover" /\ cycle'.pc = "save" /\ cycle.resumed = None
          /\ cycle'.resumed = None /\ cycle'.srcs = cycle.srcs /\ cycle'.meta = cycle.meta
          /\ cycle'.file_work = cycle.file_work
          /\ UNCHANGED <<koha, row, work, repo>>
      BY <1>0, <1>9, RenderEffect DEF SameInputsOfCycle, SameDecisions
    <2>2. ConfirmedLives' = ConfirmedLives /\ \A sha : Opens(sha)' = Opens(sha)
      BY <2>1 DEF ConfirmedLives, Opens, Holds
    <2>3. QED
      BY <2>1, <2>2 DEF Ref
  <1>10. CASE SaveCover
    <2>1. /\ cycle.pc = "save" /\ cycle'.pc \in {"fetch", "koha"}
          /\ cycle'.file_work = cycle.file_work /\ SaveWork(cycle.asset, None)
          /\ UNCHANGED <<koha, repo>>
      BY <1>0, <1>10, SaveCoverEffect DEF SameInputsOfCycle, SameDecisions
    <2>2. /\ work'.srcs = cycle.srcs /\ work'.file_work = cycle.file_work /\ work'.result = None
          /\ row'.file = row.file /\ row'.item = row.item /\ row'.status = row.status
      BY <1>0, <2>1, SaveEffect
    <2>3. /\ cycle.resumed = None /\ row.status = "unfinished"
          /\ cycle.srcs["file"].id = Ref("file")
      BY <1>0, <2>1 DEF CycleKnows, InputInv, ResumeInv, Downstream, Sources, Ref
    <2>4. ConfirmedLives' = ConfirmedLives /\ \A sha : Opens(sha)' = Opens(sha)
      BY <2>1, <2>2 DEF ConfirmedLives, Opens, Holds
    <2>5. QED
      BY <2>1, <2>2, <2>3, <2>4
  <1>11. CASE CheckpointResult
    <2>1. /\ cycle.pc = "checkpoint" /\ cycle'.pc = "koha"
          /\ cycle'.file_work = cycle.file_work /\ SaveWork(cycle.asset, cycle.result)
          /\ UNCHANGED <<koha, repo>>
      BY <1>0, <1>11, CheckpointEffect DEF SameInputsOfCycle, SameDecisions
    <2>2. /\ work'.file_work = cycle.file_work
          /\ row'.file = row.file /\ row'.item = row.item /\ row'.status = row.status
      BY <1>0, <2>1, SaveEffect
    <2>3. cycle.file_work /\ row.status = "unfinished"
      BY <1>0, <2>1 DEF CycleKnows, FileInv, ResumeInv, Downstream
    <2>4. QED
      BY <2>1, <2>2, <2>3
  <1>12. CASE DSpaceStep
    <2>1. /\ cycle.pc \in Saved /\ cycle'.pc \in Saved
          /\ cycle'.pc \in {"koha", "readback", "cleanup"} =>
               cycle.pc \in {"koha", "readback", "cleanup"}
          /\ cycle'.file_work = cycle.file_work /\ UNCHANGED <<row, work>>
      BY <1>0, <1>12, DSpaceEffect DEF SameInputsOfCycle, SameDecisions
    <2>2. row.status = "unfinished"
      BY <2>1 DEF ResumeInv, Saved
    <2>3. work # None /\ ~work.file_work /\ work.srcs["file"].id # None /\ ConfirmedLives' =>
            Opens(work.srcs["file"].sha)'
      BY <1>12, WaitingOpens
    <2>4. QED
      BY <2>1, <2>2, <2>3 DEF Saved, Downstream
  <1>13. CASE WriteKoha
    <2>1. /\ cycle.pc = "koha" /\ cycle'.pc = "readback" /\ cycle'.file_work = cycle.file_work
          /\ ~cycle.file_work => koha'.link = koha.link
          /\ UNCHANGED <<row, work, repo>>
      BY <1>0, <1>13, WriteEffect DEF SameInputsOfCycle, SameDecisions
    <2>2. /\ row.status = "unfinished" /\ work # None
          /\ cycle.file_work => work.result # None
      BY <1>0, <2>1 DEF ResumeInv, CycleKnows, WriteInv, Downstream
    <2>3. ConfirmedLives' = ConfirmedLives
      BY <2>1 DEF ConfirmedLives
    <2>4. ~cycle.file_work => \A sha : Opens(sha)' = Opens(sha)
      BY <2>1 DEF Opens, Holds
    <2>5. QED
      BY <2>1, <2>2, <2>3, <2>4
  <1>14. CASE CompleteCycle
    <2>1. cycle'.pc = "idle" /\ work' = None
      BY <1>0, <1>14, CompleteEffect
    <2>2. /\ row'.item # None => row'.file.id # None
          /\ ConfirmedLives' => Opens(row.file.sha)'
      BY <1>14, CompletedOpens
    <2>3. QED
      BY <2>1, <2>2
  <1>15. CASE EndStep
    <2>1. /\ cycle'.pc = "idle" /\ row'.file = row.file /\ row'.item = row.item
          /\ row'.status \in {row.status, "unfinished"}
          /\ work' \in {work, None} /\ koha'.link \in {koha.link, repo.primary}
          /\ UNCHANGED repo
      BY <1>0, <1>15, EndEffect
    <2>2. ConfirmedLives' = ConfirmedLives /\ \A sha : Opens(sha) => Opens(sha)'
      BY <2>1, OpensKept DEF ConfirmedLives
    <2>3. QED
      BY <2>1, <2>2
  <1>16. CASE RemoveFromKoha
    <2>1. cycle'.pc = "removing" /\ koha'.link = koha.link /\ UNCHANGED <<row, work, repo>>
      BY <1>0, <1>16, RemoveFromKohaEffect
    <2>2. ConfirmedLives' = ConfirmedLives /\ \A sha : Opens(sha)' = Opens(sha)
      BY <2>1 DEF ConfirmedLives, Opens, Holds
    <2>3. QED
      BY <2>1, <2>2
  <1>17. CASE UserStep \/ EditContent \/ Unlink \/ UNCHANGED vars
    <2>1. /\ koha'.link \in {koha.link, None} /\ (repo' = repo \/ repo'.item = None)
          /\ UNCHANGED <<row, work, cycle>>
      <3>1. CASE UserStep
        BY <1>0, <3>1, UserEffect
      <3>2. CASE EditContent \/ UNCHANGED vars
        BY <3>2 DEF EditContent, Edit, vars
      <3>3. CASE Unlink
        <4>1. PICK s \in Sources : koha' = [koha EXCEPT ![s] = None]
          BY <3>3 DEF Unlink
        <4>2. koha'.link = koha.link
          BY <1>0, <4>1 DEF Shapes, Records, Sources
        <4>3. QED
          BY <3>3, <4>2 DEF Unlink, Edit
      <3>4. QED
        BY <1>17, <3>1, <3>2, <3>3
    <2>2. ConfirmedLives' => ConfirmedLives /\ \A sha : Opens(sha) => Opens(sha)'
      BY <2>1, OpensKept DEF ConfirmedLives
    <2>3. Ref("file")' = Ref("file") /\ Active("file")' = Active("file")
             /\ SourceSha("file")' = SourceSha("file")
      BY <2>1 DEF Ref, Active, SourceSha
    <2>4. QED
      BY <2>1, <2>2, <2>3
  <1>18. QED
    BY <1>1, <1>2, <1>3, <1>4, <1>5, <1>6, <1>7, <1>8, <1>9, <1>10, <1>11, <1>12, <1>13, <1>14,
       <1>15, <1>16, <1>17, Steps

\* As long as nobody empties 956, a record whose row is confirmed links the
\* content that was confirmed, whatever else is edited, interrupted, forced,
\* removed or repeated: the gate, which answers it unseen, misses nothing.
THEOREM ConfirmedPdf == Spec /\ [][~Unlink]_vars => []ConfirmedPdfIsLinked
  <1>1. Init => FileKept /\ PdfInv
    <2> SUFFICES ASSUME Init PROVE FileKept /\ PdfInv
      OBVIOUS
    <2>1. /\ row.status = "absent" /\ row.file = NoSource /\ row.item = None
          /\ work = None /\ cycle.pc = "idle"
      BY IdleFacts DEF Init, AbsentRow
    <2>2. QED
      BY <2>1, PairFacts DEF FileKept, Cycling, PdfInv, Passed, ConfirmedLives
  <1>2. CoverCycleInv /\ FileKept /\ [Next]_vars /\ [~Unlink]_vars => FileKept'
    BY FileKeptStep
  <1>3. CoverCycleInv /\ ResumeInv /\ FileKept /\ PdfInv /\ [Next]_vars => PdfInv'
    BY PdfInvStep
  <1>4. PdfInv => ConfirmedPdfIsLinked
    BY DEF PdfInv, ConfirmedLives, Opens, ConfirmedPdfIsLinked
  <1>5. QED
    BY <1>1, <1>2, <1>3, <1>4, CoverCycleInductive, ResumesCheckpoint, PTL DEF Spec


-----------------------------------------------------------------------------
(* The refinement of DurableRow: the row is unfinished whenever its cycle     *)
(* rewrites it (ResumeInv), and when the cycle completes, the row already     *)
(* names the asset of the cycle (WorkInv and WriteInv).                       *)

Worker     == IF cycle.pc = "idle" THEN None ELSE "it"
KeptStatus == row'.status = row.status
KeptAsset  == row'.asset = row.asset
KeptWorker == Worker' = Worker
Reopened   == row'.status = "unfinished"

\* The steps of DurableRow, in the terms of this module.
DurableForm ==
  \/ KeptStatus /\ KeptAsset /\ (KeptWorker \/ cycle'.pc = "idle")
  \/ cycle.pc = "idle" /\ cycle'.pc # "idle" /\ (KeptStatus \/ Reopened) /\ KeptAsset
  \/ cycle.pc # "idle" /\ Reopened /\ KeptAsset
  \/ /\ cycle.pc # "idle" /\ KeptWorker /\ row.status = "unfinished" /\ KeptStatus
     /\ row'.asset \in Opt(Assets)
  \/ /\ cycle.pc # "idle" /\ cycle'.pc = "idle" /\ row.status = "unfinished"
     /\ row'.status = "ok" /\ KeptAsset
  \/ /\ cycle.pc # "idle" /\ cycle'.pc = "idle" /\ row.status = "ok"
     /\ KeptStatus /\ row'.asset = None

LEMMA OneRow ==
  ASSUME NEW old, NEW new
  PROVE  [[r \in {"it"} |-> old] EXCEPT !["it"] = new] = [r \in {"it"} |-> new]
  OBVIOUS

LEMMA DurableForms == DurableForm => [Durable!Next]_(Durable!vars)
  <1> DEFINE status == [r \in {"it"} |-> row.status]
             asset  == [r \in {"it"} |-> row.asset]
  <1> USE DEF KeptStatus, KeptAsset, KeptWorker, Reopened, Worker
  <1>1. CASE KeptStatus /\ KeptAsset /\ KeptWorker
    BY <1>1 DEF Durable!vars
  <1>2. CASE KeptStatus /\ KeptAsset /\ cycle'.pc = "idle"
    BY <1>2 DEF Durable!Next, Durable!Release
  <1>3. CASE cycle.pc = "idle" /\ cycle'.pc # "idle" /\ (KeptStatus \/ Reopened) /\ KeptAsset
    <2>1. status' \in {status, [status EXCEPT !["it"] = "unfinished"]} /\ asset' = asset
      BY <1>3, OneRow
    <2>2. Durable!Take("it")
      BY <1>3, <2>1 DEF Durable!Take
    <2>3. QED
      BY <2>2 DEF Durable!Next
  <1>4. CASE cycle.pc # "idle" /\ Reopened /\ KeptAsset
    <2>1. status' = [status EXCEPT !["it"] = "unfinished"] /\ asset' = asset
      BY <1>4, OneRow
    <2>2. Durable!Reopen("it")
      BY <1>4, <2>1 DEF Durable!Reopen
    <2>3. QED
      BY <2>2 DEF Durable!Next
  <1>5. CASE /\ cycle.pc # "idle" /\ KeptWorker /\ row.status = "unfinished" /\ KeptStatus
             /\ row'.asset \in Opt(Assets)
    <2>1. status' = status /\ asset' = [asset EXCEPT !["it"] = row'.asset]
      BY <1>5, OneRow
    <2>2. row'.asset \in (FileContents \cup CoverContents) \cup {None}
      BY <1>5 DEF Opt, Assets
    <2>3. Durable!Save("it")
      BY <1>5, <2>1, <2>2 DEF Durable!Save
    <2>4. QED
      BY <2>3 DEF Durable!Next
  <1>6. CASE /\ cycle.pc # "idle" /\ cycle'.pc = "idle" /\ row.status = "unfinished"
             /\ row'.status = "ok" /\ KeptAsset
    <2>1. status' = [status EXCEPT !["it"] = "ok"] /\ asset' = asset
      BY <1>6, OneRow
    <2>2. Durable!Confirm("it")
      BY <1>6, <2>1 DEF Durable!Confirm
    <2>3. QED
      BY <2>2 DEF Durable!Next
  <1>7. CASE /\ cycle.pc # "idle" /\ cycle'.pc = "idle" /\ row.status = "ok"
             /\ KeptStatus /\ row'.asset = None
    <2>1. status' = status /\ asset' = [asset EXCEPT !["it"] = None]
      BY <1>7, OneRow
    <2>2. Durable!Remove("it")
      BY <1>7, <2>1 DEF Durable!Remove
    <2>3. QED
      BY <2>2 DEF Durable!Next
  <1>8. QED
    BY <1>1, <1>2, <1>3, <1>4, <1>5, <1>6, <1>7 DEF DurableForm

LEMMA DurableStep ==
  ASSUME CoverCycleInv, ResumeInv, [Next]_vars PROVE DurableForm
  <1> USE DEF KeptStatus, KeptAsset, KeptWorker, Reopened, Worker
  <1>0. Shapes /\ CycleKnows
    BY DEF CoverCycleInv
  <1>1. ASSUME NEW force \in BOOLEAN, NEW option \in Options, Begin(force, option)
        PROVE  DurableForm
    BY <1>0, <1>1, BeginEffect DEF DurableForm
  <1>2. ASSUME NEW s \in Sources, GateQuietly(s) PROVE DurableForm
    BY <1>0, <1>2, GateQuietlyEffect DEF DurableForm, GateAt, NextGate
  <1>3. ASSUME NEW s \in Sources, GateByMetadata(s) PROVE DurableForm
    <2>1. cycle.pc # "idle" /\ cycle'.pc # "idle" /\ Ref(s) # None /\ AskDrive(s)
      BY <1>0, <1>3, GateByMetadataEffect DEF GateAt, NextGate, AsksDrive
    <2>2. KeptAsset /\ (KeptStatus \/ Reopened)
      BY <1>0, <2>1, AskEffect
    <2>3. QED
      BY <2>1, <2>2 DEF DurableForm
  <1>4. CASE RebuildItem
    <2>1. cycle.pc # "idle" /\ cycle'.pc # "idle" /\ Ref("file") # None /\ AskDrive("file")
      BY <1>0, <1>4, RebuildEffect
    <2>2. KeptAsset /\ (KeptStatus \/ Reopened)
      BY <1>0, <2>1, AskEffect DEF Sources
    <2>3. QED
      BY <2>1, <2>2 DEF DurableForm
  <1>5. CASE Decide
    BY <1>0, <1>5, DecideEffect DEF DurableForm
  <1>6. CASE StartDownstream
    BY <1>0, <1>6, StartEffect DEF DurableForm
  <1>7. CASE ResumeCover \/ RenderCover \/ WriteKoha
    BY <1>0, <1>7, ResumeEffect, RenderEffect, WriteEffect DEF DurableForm
  <1>8. CASE DSpaceStep
    BY <1>0, <1>8, DSpaceEffect DEF DurableForm, Saved, Downstream
  <1>9. CASE ReuseCover \/ SaveCover \/ CheckpointResult
    <2>1. PICK asset \in Opt(Assets) : \E result : SaveWork(asset, result)
      BY <1>0, <1>9, ReuseEffect, SaveCoverEffect, CheckpointEffect DEF Shapes, Cycles, Rows
    <2>2. KeptStatus /\ row'.asset \in Opt(Assets)
      BY <1>0, <2>1, SaveEffect
    <2>3. cycle.pc \in Downstream \ {"idle"} /\ cycle'.pc # "idle"
      BY <1>0, <1>9, ReuseEffect, SaveCoverEffect, CheckpointEffect DEF Downstream
    <2>4. row.status = "unfinished"
      BY <2>3 DEF ResumeInv
    <2>5. QED
      BY <2>2, <2>3, <2>4 DEF DurableForm
  <1>10. CASE CompleteCycle
    <2>1. /\ cycle.pc = "cleanup" /\ cycle'.pc = "idle"
          /\ row'.status = "ok" /\ row'.asset = cycle.asset
      BY <1>0, <1>10, CompleteEffect
    <2>2. row.status = "unfinished"
      BY <2>1 DEF ResumeInv, Downstream
    <2>3. row.asset = cycle.asset
      BY <2>1 DEF CoverCycleInv, WorkInv, CycleKnows, WriteInv
    <2>4. QED
      BY <2>1, <2>2, <2>3 DEF DurableForm
  <1>11. CASE NothingToDo \/ RepairLinks \/ Refuse \/ Stop
    BY <1>11 DEF NothingToDo, RepairLinks, Refuse, Stop, Idle, DurableForm
  <1>12. CASE \E s \in Sources : DriveFails(s)
    BY <1>0, <1>12 DEF DriveFails, GateAt, ItemGone, Shapes, Rows, DurableForm
  <1>13. CASE RemoveFromState
    BY <1>0, <1>13 DEF RemoveFromState, Idle, Shapes, Rows, DurableForm
  <1>14. CASE RemoveFromKoha
    BY <1>0, <1>14, RemoveFromKohaEffect DEF DurableForm
  <1>15. CASE UserStep \/ EditContent \/ Unlink \/ UNCHANGED vars
    BY <1>0, <1>15, UserEffect DEF EditContent, Unlink, Edit, vars, DurableForm
  <1>16. QED
    BY <1>1, <1>2, <1>3, <1>4, <1>5, <1>6, <1>7, <1>8, <1>9, <1>10, <1>11, <1>12, <1>13, <1>14,
       <1>15, Steps DEF EndStep

\* The cycle takes the row, reopens it, rewrites it only while it is unfinished,
\* and confirms it with the asset it names, whatever is interrupted or edited.
THEOREM RowIsDurable == Spec => KeepsRow
  <1>1. Init => Durable!Init
    BY DEF Init, Idle, AbsentRow, Durable!Init
  <1>2. CoverCycleInv /\ ResumeInv /\ [Next]_vars => [Durable!Next]_(Durable!vars)
    BY DurableStep, DurableForms
  <1>3. QED
    BY <1>1, <1>2, CoverCycleInductive, ResumesCheckpoint, PTL DEF Spec, KeepsRow, Durable!Spec
=============================================================================
